-------------------------- MODULE TeepSessionProofs -------------------------
(***************************************************************************)
(* Theorems about TeepSession: what run_teep_session tells its caller is   *)
(* true, whatever TAM and network do, whatever fails in the enclave and    *)
(* however many messages the session has.                                  *)
(*                                                                         *)
(* A response is built by the enclave, then posted, and the answer to the  *)
(* post is what the next call gets; the invariant says which responses the *)
(* TAM has at each of these points.  That the enclave returns a response   *)
(* at all is the invariant of TeepAgentProofs (AP).                        *)
(***************************************************************************)
EXTENDS TeepSession, TLAPS

AP == INSTANCE TeepAgentProofs

-----------------------------------------------------------------------------
(* The invariant.                                                          *)

Types ==
  /\ spc \in {"idle", "post", "call", "calling", "ended"}
  /\ cose_send_buf \in Responses \cup {"EMPTY"}
  /\ cbor_recv_buf \in Messages \cup {NoBody, Partial}
  /\ recv_len \in 0 .. MaxReceive
  /\ has_teep_error_response \in BOOLEAN
  /\ in_device_activation_flow \in BOOLEAN
  /\ session_result \in {"NONE", "OK", "OK_DEVICE_ACTIVATED", "TEEP_ERROR_RESPONSE",
                         "HTTP_ERROR", "FATAL"}
  /\ built \subseteq Responses
  /\ delivered \subseteq Responses

(* The sticky flags tell what was built.                                   *)
FlagsTell ==
  /\ has_teep_error_response <=> "RESPONSE_IS_TEEP_ERROR" \in built
  /\ in_device_activation_flow => "DEVICE_ACTIVATION_FLOW" \in built

(* The TAM has every response but the one that is being posted.            *)
DeliveredByStage ==
  /\ spc = "idle" => built = {}
  /\ spc = "post" => built \subseteq delivered \cup {cose_send_buf}
  /\ spc \in {"call", "calling"} => built \subseteq delivered

EndsTruly == Finished => built \subseteq delivered /\ session_result = SessionResult

(* An ECALL that has returned has said what it built, or FATAL.            *)
AnswerKnown == spc = "calling" /\ AG!Idle => result \in Responses \cup {"FATAL"}

IInv ==
  /\ AP!IInv
  /\ Types
  /\ FlagsTell
  /\ DeliveredByStage
  /\ EndsTruly
  /\ AnswerKnown

-----------------------------------------------------------------------------
(* AG and AP are the same agent.                                           *)

LEMMA SameNext == AG!Next <=> AP!Next
BY Zenon DEF
       AG!puVars, AP!puVars, AG!Idle, AP!Idle, AG!InitKey, AP!InitKey,
       AG!FreeKey, AP!FreeKey, AG!EcallRefused, AP!EcallRefused,
       AG!EcallQueryRequest, AP!EcallQueryRequest, AG!EcallUpdateUnasked,
       AP!EcallUpdateUnasked, AG!EcallUpdate, AP!EcallUpdate,
       AG!EcallUpdateStep, AP!EcallUpdateStep, AG!EcallUpdateReturns,
       AP!EcallUpdateReturns, AG!Send, AP!Send, AG!StatusAfter, AP!StatusAfter,
       AG!ResultOf, AP!ResultOf, AG!SendMessage, AP!SendMessage,
       AG!NoSendMessage, AP!NoSendMessage, AG!ErrorMessage, AP!ErrorMessage,
       AG!Garbage, AP!Garbage, AG!process_query_request,
       AP!process_query_request, AG!Supported, AP!Supported, AG!Unsupported,
       AP!Unsupported, AG!EnvironmentFails, AP!EnvironmentFails,
       AG!ListRefused, AP!ListRefused, AG!ListSent, AP!ListSent, AG!Next,
       AP!Next, AG!PU!manifest, AP!PU!manifest, AG!PU!Memory, AP!PU!Memory,
       AG!PU!Message, AP!PU!Message, AG!PU!NoMessage, AP!PU!NoMessage,
       AG!PU!NoUpdate, AP!PU!NoUpdate, AG!PU!ActiveSet, AP!PU!ActiveSet,
       AG!PU!Fail, AP!PU!Fail, AG!PU!Acceptable, AP!PU!Acceptable, AG!PU!Begin,
       AP!PU!Begin, AG!PU!SetUp, AP!PU!SetUp, AG!PU!SetUpFails,
       AP!PU!SetUpFails, AG!PU!Called, AP!PU!Called, AG!PU!StoreRefused,
       AP!PU!StoreRefused, AG!PU!store_callback_manifest,
       AP!PU!store_callback_manifest, AG!PU!store_callback_payload,
       AP!PU!store_callback_payload, AG!PU!ImageMatches, AP!PU!ImageMatches,
       AG!PU!condition_callback, AP!PU!condition_callback, AG!PU!EnvelopeDone,
       AP!PU!EnvelopeDone, AG!PU!EnvelopeFails, AP!PU!EnvelopeFails,
       AG!PU!NewReport, AP!PU!NewReport, AG!PU!EndOfEnvelope,
       AP!PU!EndOfEnvelope, AG!PU!report_callback, AP!PU!report_callback,
       AG!PU!NextManifest, AP!PU!NextManifest, AG!PU!Finalise, AP!PU!Finalise,
       AG!PU!Return, AP!PU!Return, AG!PU!Step, AP!PU!Step, AG!PU!tcVars,
       AP!PU!tcVars, AG!PU!runVars, AP!PU!runVars, AG!PU!TC!OK, AP!PU!TC!OK,
       AG!PU!TC!ERROR, AP!PU!TC!ERROR, AG!PU!TC!Active, AP!PU!TC!Active,
       AG!PU!TC!WithDigest, AP!PU!TC!WithDigest, AG!PU!TC!find_by_digest,
       AP!PU!TC!find_by_digest, AG!PU!TC!TargetSlot, AP!PU!TC!TargetSlot,
       AG!PU!TC!remove_at, AP!PU!TC!remove_at, AG!PU!TC!swapped,
       AP!PU!TC!swapped, AG!PU!TC!set_ids_from_component_id,
       AP!PU!TC!set_ids_from_component_id, AG!PU!TC!StoredManifest,
       AP!PU!TC!StoredManifest, AG!PU!TC!StoredPayload, AP!PU!TC!StoredPayload,
       AG!PU!TC!Put, AP!PU!TC!Put, AG!PU!TC!CanStore, AP!PU!TC!CanStore,
       AG!PU!TC!StoreManifest, AP!PU!TC!StoreManifest, AG!PU!TC!StorePayload,
       AP!PU!TC!StorePayload, AG!PU!TC!StoreTableFull, AP!PU!TC!StoreTableFull,
       AG!PU!TC!StoreUndone, AP!PU!TC!StoreUndone, AG!PU!TC!Duplicates,
       AP!PU!TC!Duplicates, AG!PU!TC!update_or_discard,
       AP!PU!TC!update_or_discard, AG!PU!TC!CheckNotFound,
       AP!PU!TC!CheckNotFound, AG!PU!TC!CheckIncomplete,
       AP!PU!TC!CheckIncomplete, AG!PU!TC!CheckComplete,
       AP!PU!TC!CheckComplete, AG!PU!TC!CheckAndUpdate,
       AP!PU!TC!CheckAndUpdate, AG!PU!TC!BlankRecord, AP!PU!TC!BlankRecord,
       AG!PU!TC!IsComplete, AP!PU!TC!IsComplete, AG!PU!TC!Min, AP!PU!TC!Min,
       AG!PU!TC!TcListFails, AP!PU!TC!TcListFails, AG!PU!TC!get_tc_list,
       AP!PU!TC!get_tc_list

LEMMA SameInit == AG!Init <=> AP!Init
BY Zenon DEF AG!Init, AP!Init, AG!PU!Init, AP!PU!Init, AG!PU!TC!Init, AP!PU!TC!Init,
       AG!PU!TC!Slots, AP!PU!TC!Slots, AG!PU!TC!BlankRecord, AP!PU!TC!BlankRecord, AG!PU!TC!OK,
       AP!PU!TC!OK, AG!PU!NoUpdate, AP!PU!NoUpdate, AG!PU!NoMessage, AP!PU!NoMessage,
       AG!PU!Message, AP!PU!Message, AG!NoSendMessage, AP!NoSendMessage, AG!SendMessage,
       AP!SendMessage

LEMMA SameTypeOK == AG!TypeOK <=> AP!TypeOK
BY Zenon DEF AG!TypeOK, AP!TypeOK, AG!PU!TypeOK, AP!PU!TypeOK, AG!PU!TC!TypeOK, AP!PU!TC!TypeOK,
       AG!PU!TC!Slots, AP!PU!TC!Slots, AG!PU!TC!Record, AP!PU!TC!Record, AG!PU!TC!OK, AP!PU!TC!OK,
       AG!PU!TC!ERROR, AP!PU!TC!ERROR, AG!PU!Reports, AP!PU!Reports, AG!PU!NoUpdate,
       AP!PU!NoUpdate, AG!PU!Record, AP!PU!Record, AG!MessageTypes, AP!MessageTypes, AG!TcInfo,
       AP!TcInfo

LEMMA ParametersHold == AP!AgentParameters /\ AP!PU!UpdateParameters
BY Zenon, AgentAssumption
   DEF AG!AgentParameters, AP!AgentParameters, AG!AllAgentFaults, AP!AllAgentFaults,
       AG!MessageTypes, AP!MessageTypes, AG!PU!UpdateParameters, AP!PU!UpdateParameters,
       AG!PU!AllFaults, AP!PU!AllFaults

(* A step of the session that makes no step of the agent, and one that     *)
(* does.                                                                   *)
LEMMA NoAgentStep ==
  ASSUME AP!IInv, UNCHANGED agVars
  PROVE  AP!IInv'
<1>1. UNCHANGED AP!vars
  BY DEF agVars, AP!vars, AP!puVars
<1>2. [AP!Next]_(AP!vars)
  BY <1>1
<1> QED
  BY <1>2, ParametersHold, RecordAssumption, AP!NextIInv

LEMMA AgentStep ==
  ASSUME AP!IInv, AG!Next
  PROVE  AP!IInv'
BY SameNext, ParametersHold, RecordAssumption, AP!NextIInv

-----------------------------------------------------------------------------
(* It holds initially and every step preserves it.                         *)

LEMMA InitIInv == Init => IInv
<1> SUFFICES ASSUME Init PROVE IInv
  OBVIOUS
<1>1. AP!IInv
  BY SameInit, ParametersHold, RecordAssumption, AP!InitIInv DEF Init
<1>2. Types
  <2>1. recv_len \in 0 .. MaxReceive
    BY TeepSessionAssumption DEF TeepSessionAssumption, Init
  <2> QED
    BY <2>1 DEF Init, Types
<1>3. FlagsTell /\ DeliveredByStage /\ EndsTruly /\ AnswerKnown
  BY DEF Init, FlagsTell, DeliveredByStage, EndsTruly, AnswerKnown, Finished
<1> QED
  BY <1>1, <1>2, <1>3 DEF IInv

LEMMA StoredFits ==
  ASSUME NEW r \in Messages
  PROVE  Stored(SizeOf[r.type]) \in 0 .. MaxReceive
<1>1. SizeOf[r.type] \in Nat
  BY TeepSessionAssumption DEF TeepSessionAssumption, Messages, Query, Update, Other
<1>2. MaxReceive \in Nat
  BY TeepSessionAssumption DEF TeepSessionAssumption
<1> DEFINE S == {SizeOf[r.type], MaxReceive}
<1>3. \E x \in S : \A y \in S : x <= y
  BY <1>1, <1>2
<1>4. Min(S) \in S /\ \A y \in S : Min(S) <= y
  BY <1>3 DEF Min
<1>5. Min(S) \in 0 .. MaxReceive
  BY <1>1, <1>2, <1>4
<1> QED
  BY <1>5 DEF Stored, Room

LEMMA StartIInv == IInv /\ Start => IInv'
<1> SUFFICES ASSUME IInv, Start PROVE IInv'
  OBVIOUS
<1>1. AP!IInv'
  BY NoAgentStep DEF IInv, Start
<1>2. Types'
  BY DEF IInv, Types, Start, tamVars
<1>3. FlagsTell' /\ DeliveredByStage' /\ EndsTruly' /\ AnswerKnown'
  BY DEF IInv, FlagsTell, DeliveredByStage, EndsTruly, AnswerKnown, Finished, Start, tamVars
<1> QED
  BY <1>1, <1>2, <1>3 DEF IInv

(* Told adds the response posted to what the TAM has.                      *)
LEMMA ToldAll ==
  ASSUME IInv, spc = "post", Told, built' = built
  PROVE  built' \subseteq delivered' /\ delivered' \subseteq Responses
BY DEF IInv, Types, DeliveredByStage, Told, Responses

LEMMA AnsweredIInv ==
  ASSUME IInv, NEW r \in Messages, PostAnswered(r)
  PROVE  IInv'
<1>1. AP!IInv'
  BY NoAgentStep DEF IInv, PostAnswered
<1>2. /\ spc = "post" /\ spc' = "call" /\ built' = built /\ UNCHANGED flags
      /\ built' \subseteq delivered' /\ delivered' \subseteq Responses
  BY ToldAll DEF PostAnswered
<1>3. Types'
  BY <1>2, StoredFits DEF IInv, Types, PostAnswered, flags
<1>4. FlagsTell' /\ DeliveredByStage' /\ EndsTruly' /\ AnswerKnown'
  BY <1>2 DEF IInv, FlagsTell, DeliveredByStage, EndsTruly, AnswerKnown, Finished, flags
<1> QED
  BY <1>1, <1>3, <1>4 DEF IInv

LEMMA EndsIInv == IInv /\ PostEnds => IInv'
<1> SUFFICES ASSUME IInv, PostEnds PROVE IInv'
  OBVIOUS
<1>1. AP!IInv'
  BY NoAgentStep DEF IInv, PostEnds
<1>2. /\ spc = "post" /\ spc' = "ended" /\ session_result' = SessionResult
      /\ built' = built /\ UNCHANGED flags
      /\ built' \subseteq delivered' /\ delivered' \subseteq Responses
  BY ToldAll DEF PostEnds, End
<1>3. SessionResult' = SessionResult
  BY <1>2 DEF SessionResult, flags
<1>4. Types'
  BY <1>2, TeepSessionAssumption
     DEF TeepSessionAssumption, IInv, Types, PostEnds, SessionResult, flags
<1>5. FlagsTell' /\ DeliveredByStage' /\ EndsTruly' /\ AnswerKnown'
  BY <1>2, <1>3 DEF IInv, FlagsTell, DeliveredByStage, EndsTruly, AnswerKnown, Finished, flags
<1> QED
  BY <1>1, <1>4, <1>5 DEF IInv

LEMMA FailsIInv == IInv /\ PostFails => IInv'
<1> SUFFICES ASSUME IInv, PostFails PROVE IInv'
  OBVIOUS
<1>1. AP!IInv'
  BY NoAgentStep DEF IInv, PostFails
<1>2. /\ spc = "post" /\ spc' = "ended" /\ session_result' = "HTTP_ERROR"
      /\ built' = built /\ UNCHANGED flags /\ delivered' \subseteq Responses
  BY ToldAll DEF IInv, Types, PostFails, End, HttpError
<1>3. Types'
  BY <1>2 DEF IInv, Types, PostFails, flags
<1>4. FlagsTell' /\ DeliveredByStage' /\ EndsTruly' /\ AnswerKnown'
  BY <1>2 DEF IInv, FlagsTell, DeliveredByStage, EndsTruly, AnswerKnown, Finished, flags
<1> QED
  BY <1>1, <1>3, <1>4 DEF IInv

(* A message the agent sends sets the result of the call.                  *)
LEMMA SendAnswers ==
  ASSUME NEW msg, AG!Send(msg)
  PROVE  result' \in Responses \cup {"FATAL"}
BY DEF AG!Send, AG!ResultOf, Responses

(* The enclave's part of the session: a step of the agent that leaves the  *)
(* session's own state alone.                                              *)
LEMMA EnclaveStepIInv ==
  ASSUME IInv, AP!IInv', spc' \in {spc, "calling"}, spc \in {"idle", "call", "calling"},
         spc = "idle" => spc' = "idle", AnswerKnown',
         UNCHANGED <<cose_send_buf, cbor_recv_buf, recv_len, flags, session_result, tamVars>>
  PROVE  IInv'
<1>1. Types'
  BY DEF IInv, Types, flags, tamVars
<1>2. FlagsTell' /\ DeliveredByStage' /\ EndsTruly'
  BY DEF IInv, FlagsTell, DeliveredByStage, EndsTruly, Finished, flags, tamVars
<1> QED
  BY <1>1, <1>2 DEF IInv

LEMMA CallIInv == IInv /\ Call => IInv'
<1> SUFFICES ASSUME IInv, Call PROVE IInv'
  OBVIOUS
<1>1. CASE AG!EcallRefused
  <2>1. AP!IInv'
    BY <1>1, AgentStep DEF AG!Next, IInv
  <2>2. AnswerKnown'
    BY <1>1 DEF AG!EcallRefused, AnswerKnown
  <2> QED
    BY <2>1, <2>2, EnclaveStepIInv DEF Call
<1>2. CASE cbor_recv_buf.type = "QUERY" /\ AG!EcallQueryRequest(cbor_recv_buf.body)
  <2>1. cbor_recv_buf.body \in QueryRequests
    BY <1>2 DEF IInv, Types, Messages, Query, Update, Other, NoBody, Partial
  <2>2. AP!IInv'
    BY <1>2, <2>1, AgentStep DEF AG!Next, IInv
  <2>3. AnswerKnown'
    BY <1>2, SendAnswers DEF AG!EcallQueryRequest, AnswerKnown
  <2> QED
    BY <2>2, <2>3, EnclaveStepIInv DEF Call
<1>3. CASE AG!EcallUpdateUnasked
  <2>1. AP!IInv'
    BY <1>3, AgentStep DEF AG!Next, IInv
  <2>2. AnswerKnown'
    BY <1>3, SendAnswers DEF AG!EcallUpdateUnasked, AnswerKnown
  <2> QED
    BY <2>1, <2>2, EnclaveStepIInv DEF Call
<1>4. CASE cbor_recv_buf.type = "UPDATE" /\ AG!EcallUpdate(cbor_recv_buf.body)
  <2>1. cbor_recv_buf.body \in Updates
    BY <1>4 DEF IInv, Types, Messages, Query, Update, Other, NoBody, Partial
  <2>2. AP!IInv'
    BY <1>4, <2>1, AgentStep DEF AG!Next, IInv
  <2>3. AnswerKnown'
    BY <1>4 DEF AG!EcallUpdate, AG!PU!Begin, AG!PU!Fail, AG!Idle, AnswerKnown
  <2> QED
    BY <2>2, <2>3, EnclaveStepIInv DEF Call
<1> QED
  BY <1>1, <1>2, <1>3, <1>4 DEF Call, CallWith

LEMMA StepStaysInCall == AG!PU!Step => ~AG!Idle'
BY DEF AG!PU!Step, AG!PU!SetUp, AG!PU!SetUpFails, AG!PU!store_callback_manifest,
       AG!PU!store_callback_payload, AG!PU!condition_callback, AG!PU!EnvelopeDone,
       AG!PU!EnvelopeFails, AG!PU!report_callback, AG!PU!Finalise, AG!PU!Called,
       AG!PU!EndOfEnvelope, AG!PU!Fail, AG!Idle

LEMMA EnclaveIInv == IInv /\ Enclave => IInv'
<1> SUFFICES ASSUME IInv, Enclave PROVE IInv'
  OBVIOUS
<1>1. AP!IInv'
  BY AgentStep DEF Enclave, AG!Next, IInv
<1>2. AnswerKnown'
  <2>1. CASE AG!EcallUpdateStep
    BY <2>1, StepStaysInCall DEF AG!EcallUpdateStep, AnswerKnown
  <2>2. CASE AG!EcallUpdateReturns
    BY <2>2, SendAnswers DEF AG!EcallUpdateReturns, AnswerKnown
  <2> QED
    BY <2>1, <2>2 DEF Enclave
<1> QED
  BY <1>1, <1>2, EnclaveStepIInv DEF Enclave

LEMMA MakeKeyIInv == IInv /\ MakeKey => IInv'
<1> SUFFICES ASSUME IInv, MakeKey PROVE IInv'
  OBVIOUS
<1>1. AP!IInv'
  BY AgentStep DEF MakeKey, AG!Next, IInv
<1> QED
  BY <1>1, EnclaveStepIInv DEF MakeKey, AnswerKnown

(* The response of the enclave is noted in the flags and is posted next.   *)
LEMMA CallReturnsIInv == IInv /\ CallReturns => IInv'
<1> SUFFICES ASSUME IInv, CallReturns PROVE IInv'
  OBVIOUS
<1>1. AP!IInv'
  BY NoAgentStep DEF IInv, CallReturns
<1>2. CASE result = "FATAL"
  <2>1. /\ spc' = "ended" /\ session_result' = "FATAL"
        /\ UNCHANGED <<flags, cose_send_buf, built, delivered, cbor_recv_buf, recv_len>>
    BY <1>2 DEF CallReturns, End
  <2> QED
    BY <1>1, <2>1 DEF IInv, Types, FlagsTell, DeliveredByStage, EndsTruly, AnswerKnown, Finished,
       flags
<1>3. CASE result # "FATAL"
  <2>1. /\ spc = "calling" /\ spc' = "post"
        /\ has_teep_error_response' = HasError(result)
        /\ in_device_activation_flow' =
             (in_device_activation_flow \/ result = "DEVICE_ACTIVATION_FLOW")
        /\ cose_send_buf' = result
        /\ built' = built \cup {result}
        /\ UNCHANGED <<session_result, delivered, cbor_recv_buf, recv_len>>
    BY <1>3 DEF CallReturns
  <2>2. result \in Responses
    BY <1>3 DEF IInv, AnswerKnown, CallReturns
  <2>3. Types'
    BY <2>1, <2>2 DEF IInv, Types, HasError
  <2>4. FlagsTell'
    BY <2>1 DEF IInv, FlagsTell, HasError
  <2>5. DeliveredByStage' /\ EndsTruly' /\ AnswerKnown'
    BY <2>1 DEF IInv, DeliveredByStage, EndsTruly, AnswerKnown, Finished
  <2> QED
    BY <1>1, <2>3, <2>4, <2>5 DEF IInv
<1> QED
  BY <1>2, <1>3

LEMMA LeaveIInv == IInv /\ Leave => IInv'
<1> SUFFICES ASSUME IInv, Leave PROVE IInv'
  OBVIOUS
<1>1. AP!IInv'
  BY NoAgentStep DEF IInv, Leave
<1>2. Types'
  <2>1. recv_len' \in 0 .. MaxReceive
    BY TeepSessionAssumption DEF TeepSessionAssumption, Leave
  <2> QED
    BY <2>1 DEF IInv, Types, Leave
<1>3. FlagsTell' /\ DeliveredByStage' /\ EndsTruly' /\ AnswerKnown'
  BY DEF FlagsTell, DeliveredByStage, EndsTruly, AnswerKnown, Finished, Leave
<1> QED
  BY <1>1, <1>2, <1>3 DEF IInv

LEMMA NextIInv == IInv /\ [Next]_vars => IInv'
<1> SUFFICES ASSUME IInv, [Next]_vars PROVE IInv'
  OBVIOUS
<1>1. CASE CalmDown \/ UNCHANGED vars
  <2>1. UNCHANGED <<agVars, spc, cose_send_buf, cbor_recv_buf, recv_len, flags, session_result,
                    tamVars>>
    BY <1>1 DEF CalmDown, vars
  <2>2. AP!IInv'
    BY <2>1, NoAgentStep DEF IInv
  <2>3. AG!Idle' = AG!Idle /\ result' = result
    BY <2>1 DEF agVars, AG!Idle
  <2> QED
    BY <2>1, <2>2, <2>3
       DEF IInv, Types, FlagsTell, DeliveredByStage, EndsTruly, SessionResult, AnswerKnown,
           Finished, flags, tamVars
<1>2. ASSUME NEW r \in Messages, PostAnswered(r) PROVE IInv'
  BY <1>2, AnsweredIInv
<1> QED
  BY <1>1, <1>2, MakeKeyIInv, StartIInv, EndsIInv, FailsIInv, CallIInv, EnclaveIInv,
     CallReturnsIInv, LeaveIInv DEF Next, Session

LEMMA SpecIInv == Spec => []IInv
BY InitIInv, NextIInv, PTL DEF Spec

-----------------------------------------------------------------------------
(* What follows from it.                                                   *)

(* The variables have their types over every sequence of sessions: nothing *)
(* but a response is posted, and what is received fits the buffer.         *)
THEOREM TypeCorrect == Spec => []TypeOK
<1>1. IInv => TypeOK
  BY SameTypeOK, ParametersHold, RecordAssumption, AP!IInvIsTyped DEF IInv, Types, TypeOK
<1> QED
  BY <1>1, SpecIInv, PTL

(* A session that ends with 204 tells its caller of every Error the        *)
(* enclave built in it, and of evidence only when some was sent.           *)
THEOREM ErrorsAreTold == Spec => []ResultTellsErrors
<1>1. IInv => ResultTellsErrors
  BY DEF IInv, FlagsTell, EndsTruly, SessionResult, ResultTellsErrors
<1> QED
  BY <1>1, SpecIInv, PTL

(* ... and then the TAM has received every response of it.                 *)
THEOREM AllIsDelivered == Spec => []ResponsesDelivered
<1>1. IInv => ResponsesDelivered
  BY DEF IInv, EndsTruly, ResponsesDelivered
<1> QED
  BY <1>1, SpecIInv, PTL

-----------------------------------------------------------------------------
(* The ledger as the TAM sees it, session after session.                   *)

LEMMA SameService ==
  /\ AG!PU!Service!Init <=> AP!PU!Service!Init
  /\ [AG!PU!Service!Next]_(AG!PU!Service!vars) <=> [AP!PU!Service!Next]_(AP!PU!Service!vars)
BY Zenon DEF
       AG!PU!Service!Init, AP!PU!Service!Init, AG!PU!Service!Next,
       AP!PU!Service!Next, AG!PU!Service!vars, AP!PU!Service!vars,
       AG!PU!Service!Receive, AP!PU!Service!Receive, AG!PU!Service!Decide,
       AP!PU!Service!Decide, AG!PU!Service!Deliver, AP!PU!Service!Deliver,
       AG!PU!Service!Effect, AP!PU!Service!Effect,
       AG!PU!Service!TouchesOnlySent, AP!PU!Service!TouchesOnlySent,
       AG!PU!Service!LosesNothingNewer, AP!PU!Service!LosesNothingNewer,
       AG!PU!Service!Fulfilled, AP!PU!Service!Fulfilled,
       AG!PU!Service!CleanTable, AP!PU!Service!CleanTable, AG!PU!Service!Sent,
       AP!PU!Service!Sent, AG!PU!Service!IsComplete, AP!PU!Service!IsComplete,
       AG!PU!Service!Acceptable, AP!PU!Service!Acceptable,
       AG!PU!Service!Errors, AP!PU!Service!Errors, AG!PU!Seen, AP!PU!Seen,
       AG!PU!Answer, AP!PU!Answer, AG!PU!ActiveSet, AP!PU!ActiveSet,
       AG!PU!TC!Active, AP!PU!TC!Active, AG!PU!NoUpdate, AP!PU!NoUpdate

(* Every step of the session is one of the agent or leaves it alone.       *)
LEMMA SessionStepCalls == IInv /\ [Next]_vars => [AP!Next]_(AP!vars)
<1> SUFFICES ASSUME IInv, [Next]_vars PROVE [AP!Next]_(AP!vars)
  OBVIOUS
<1>1. CASE UNCHANGED agVars
  BY <1>1 DEF agVars, AP!vars, AP!puVars
<1>2. CASE MakeKey \/ Call \/ Enclave
  <2>1. CASE MakeKey \/ Enclave
    BY <2>1, SameNext DEF MakeKey, Enclave, AG!Next
  <2>2. CASE Call
    <3>1. /\ cbor_recv_buf.type = "QUERY" => cbor_recv_buf.body \in QueryRequests
          /\ cbor_recv_buf.type = "UPDATE" => cbor_recv_buf.body \in Updates
      BY DEF IInv, Types, Messages, Query, Update, Other, NoBody, Partial
    <3>2. AG!Next
      BY <2>2, <3>1 DEF Call, CallWith, AG!Next
    <3> QED
      BY <3>2, SameNext
  <2> QED
    BY <1>2, <2>1, <2>2
<1> QED
  BY <1>1, <1>2 DEF Next, Session, vars, CalmDown, Start, PostAnswered, PostEnds, PostFails,
                    CallReturns, Leave

(* Whatever the TAM and the network do to the sessions, the ledger moves   *)
(* only as UpdateService allows: a session that breaks off leaves the      *)
(* Updates it has brought as they were answered.                           *)
THEOREM SessionImplementsService == Spec => AG!PU!ImplementsUpdateService
<1>1. Init => AG!PU!Service!Init
  BY SameInit, SameService, ParametersHold, RecordAssumption, AP!InitServes DEF Init
<1>2. IInv /\ IInv' /\ [Next]_vars => [AG!PU!Service!Next]_(AG!PU!Service!vars)
  <2> SUFFICES ASSUME IInv, IInv', [Next]_vars
               PROVE  [AG!PU!Service!Next]_(AG!PU!Service!vars)
    OBVIOUS
  <2>1. AP!IInv /\ AP!IInv' /\ [AP!Next]_(AP!vars)
    BY SessionStepCalls DEF IInv
  <2>2. [AP!PU!Service!Next]_(AP!PU!Service!vars)
    BY <2>1, ParametersHold, RecordAssumption, AP!NextServes
  <2> QED
    BY <2>2, SameService
<1> QED
  BY <1>1, <1>2, SpecIInv, PTL DEF Spec, AG!PU!ImplementsUpdateService, AG!PU!Service!Spec
=============================================================================
