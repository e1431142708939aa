--------------------------- MODULE TeepAgentProofs --------------------------
(***************************************************************************)
(* Theorems about TeepAgent: over whole exchanges, whatever the TAM sends, *)
(* in whatever order, and whatever fails.                                  *)
(*                                                                         *)
(* The status of the agent and the history of its answers agree at every   *)
(* step, also inside the call that processes an Update, and the last       *)
(* tc-list stays the table's until an Update begins.  What an Update does  *)
(* to the table is the invariant of ProcessUpdateProofs (PP).              *)
(***************************************************************************)
EXTENDS TeepAgent, TLAPS

PP == INSTANCE ProcessUpdateProofs

USE DEF AgentParameters

-----------------------------------------------------------------------------
(* The invariant.                                                          *)

Types ==
  /\ g_key_state \in {"UNINITIALIZED", "READY"}
  /\ g_agent_status \in {"WAITING_QUERY_REQUEST", "WAITING_UPDATE_OR_QUERY_REQUEST"}
  /\ send_message.type \in MessageTypes \cup {"NONE"}
  /\ send_message.tc_list \subseteq TcInfo
  /\ result \in {"NONE", "FATAL", "RESPONSE_IS_TEEP_ERROR", "DEVICE_ACTIVATION_FLOW",
                 "QUERY_RESPONSE", "SUCCESS", "OK"}
  /\ asked \in BOOLEAN

(* The table as a tc-list.                                                 *)
TcListOfTable ==
  {[component_id |-> r.wapp_name, tc_image_digest |-> r.wapp_bin] : r \in PP!ActiveSet}

ListIsCurrent ==
  /\ ~Idle => send_message.tc_list = {}
  /\ send_message.tc_list # {} =>
       /\ \A r \in PP!ActiveSet : IsComplete(r)
       /\ send_message.tc_list = TcListOfTable

(* An agent whose uninitialised message never looks like a QueryResponse   *)
(* waits for an Update if and only if it was asked.                        *)
WaitsWhenAsked == g_agent_status = "WAITING_UPDATE_OR_QUERY_REQUEST" <=> asked

UpdateIsAwaited == ~Idle => g_agent_status = "WAITING_UPDATE_OR_QUERY_REQUEST"

IInv ==
  /\ PP!IInv
  /\ Types
  /\ ListIsCurrent
  /\ UpdateIsAwaited
  /\ "QUERY_RESPONSE" \notin StackValues => WaitsWhenAsked

-----------------------------------------------------------------------------
(* PU and PP are the same process_update.                                  *)

LEMMA SameNext == PU!Next <=> PP!Next
BY Zenon DEF
       PU!manifest, PP!manifest, PU!Memory, PP!Memory, PU!Message, PP!Message,
       PU!NoMessage, PP!NoMessage, PU!NoUpdate, PP!NoUpdate, PU!ActiveSet,
       PP!ActiveSet, PU!Fail, PP!Fail, PU!Acceptable, PP!Acceptable, PU!Begin,
       PP!Begin, PU!SetUp, PP!SetUp, PU!SetUpFails, PP!SetUpFails, PU!Called,
       PP!Called, PU!StoreRefused, PP!StoreRefused, PU!store_callback_manifest,
       PP!store_callback_manifest, PU!store_callback_payload,
       PP!store_callback_payload, PU!ImageMatches, PP!ImageMatches,
       PU!condition_callback, PP!condition_callback, PU!EnvelopeDone,
       PP!EnvelopeDone, PU!EnvelopeFails, PP!EnvelopeFails, PU!NewReport,
       PP!NewReport, PU!EndOfEnvelope, PP!EndOfEnvelope, PU!report_callback,
       PP!report_callback, PU!NextManifest, PP!NextManifest, PU!Finalise,
       PP!Finalise, PU!Return, PP!Return, PU!Step, PP!Step, PU!Next, PP!Next,
       PU!tcVars, PP!tcVars, PU!runVars, PP!runVars, PU!TC!OK, PP!TC!OK,
       PU!TC!ERROR, PP!TC!ERROR, PU!TC!Active, PP!TC!Active, PU!TC!WithDigest,
       PP!TC!WithDigest, PU!TC!find_by_digest, PP!TC!find_by_digest,
       PU!TC!TargetSlot, PP!TC!TargetSlot, PU!TC!remove_at, PP!TC!remove_at,
       PU!TC!swapped, PP!TC!swapped, PU!TC!set_ids_from_component_id,
       PP!TC!set_ids_from_component_id, PU!TC!StoredManifest,
       PP!TC!StoredManifest, PU!TC!StoredPayload, PP!TC!StoredPayload,
       PU!TC!Put, PP!TC!Put, PU!TC!CanStore, PP!TC!CanStore,
       PU!TC!StoreManifest, PP!TC!StoreManifest, PU!TC!StorePayload,
       PP!TC!StorePayload, PU!TC!StoreTableFull, PP!TC!StoreTableFull,
       PU!TC!StoreUndone, PP!TC!StoreUndone, PU!TC!Duplicates,
       PP!TC!Duplicates, PU!TC!update_or_discard, PP!TC!update_or_discard,
       PU!TC!CheckNotFound, PP!TC!CheckNotFound, PU!TC!CheckIncomplete,
       PP!TC!CheckIncomplete, PU!TC!CheckComplete, PP!TC!CheckComplete,
       PU!TC!CheckAndUpdate, PP!TC!CheckAndUpdate, PU!TC!BlankRecord,
       PP!TC!BlankRecord, PU!TC!IsComplete, PP!TC!IsComplete, PU!TC!Min,
       PP!TC!Min

LEMMA SameInit == PU!Init <=> PP!Init
BY Zenon DEF PU!Init, PP!Init, PU!TC!Init, PP!TC!Init, PU!TC!Slots, PP!TC!Slots,
       PU!TC!BlankRecord, PP!TC!BlankRecord, PU!TC!OK, PP!TC!OK, PU!NoUpdate, PP!NoUpdate,
       PU!NoMessage, PP!NoMessage, PU!Message, PP!Message

LEMMA SameTypeOK == PU!TypeOK <=> PP!TypeOK
BY Zenon DEF PU!TypeOK, PP!TypeOK, PU!TC!TypeOK, PP!TC!TypeOK, PU!TC!Slots, PP!TC!Slots,
       PU!TC!Record, PP!TC!Record, PU!TC!OK, PP!TC!OK, PU!TC!ERROR, PP!TC!ERROR,
       PU!Reports, PP!Reports, PU!NoUpdate, PP!NoUpdate, PU!Record, PP!Record

LEMMA ParametersHold == PP!UpdateParameters
BY Zenon, UpdateAssumption DEF PU!UpdateParameters, PP!UpdateParameters, PU!AllFaults, PP!AllFaults


LEMMA SameList ==
  ASSUME NEW capacity
  PROVE  /\ PU!ActiveSet = PP!ActiveSet
         /\ PU!TC!Active = 0 .. record_len - 1
         /\ PU!TC!TcListFails(capacity) <=>
              \/ capacity = 0 \/ capacity < record_len
              \/ \E i \in 0 .. record_len - 1 : ~IsComplete(records[i])
         /\ PU!TC!get_tc_list =
              [i \in 0 .. record_len - 1 |-> [component_id    |-> records[i].wapp_name,
                                              tc_image_digest |-> records[i].wapp_hash]]
         /\ PP!ActiveSet = {records[i] : i \in 0 .. record_len - 1}
BY DEF PU!ActiveSet, PP!ActiveSet, PU!TC!Active, PP!TC!Active, PU!TC!TcListFails, PU!TC!IsComplete,
       IsComplete, PU!TC!get_tc_list

LEMMA NoUpdateStep ==
  ASSUME PP!IInv, UNCHANGED puVars
  PROVE  PP!IInv' /\ PP!ActiveSet' = PP!ActiveSet
<1>1. UNCHANGED PP!vars
  BY DEF puVars, PP!vars, PP!tcVars, PP!runVars
<1>2. [PP!Next]_(PP!vars)
  BY <1>1
<1>3. PP!ActiveSet' = PP!ActiveSet
  BY DEF puVars, PP!ActiveSet, PP!TC!Active
<1> QED
  BY <1>2, <1>3, ParametersHold, RecordAssumption, PP!NextIInv

(* The records of the table, as far as a tc-list shows them.               *)
LEMMA RecordsTyped ==
  ASSUME PP!IInv
  PROVE  \A r \in PP!ActiveSet :
           /\ r \in Record
           /\ IsComplete(r) => r.wapp_hash = r.wapp_bin
<1>1. PP!TypeOK
  BY ParametersHold, RecordAssumption, PP!IInvIsTyped
<1>2. records \in [PP!TC!Slots -> Record] /\ record_len \in 0 .. MaxRecords
  BY <1>1 DEF PP!TypeOK, PP!TC!TypeOK, PP!TC!Record, Record
<1>3. \A i \in 0 .. record_len - 1 : i \in PP!TC!Slots
  BY <1>2, UpdateAssumption DEF PU!UpdateParameters, PP!TC!Slots
<1>4. \A r \in PP!ActiveSet : r \in Record
  BY <1>2, <1>3, SameList
<1>5. \A r \in PP!ActiveSet : PP!Genuine(r)
  BY DEF PP!IInv, PP!AllGenuine
<1> QED
  BY <1>4, <1>5 DEF PP!Genuine, IsComplete

-----------------------------------------------------------------------------
(* It holds initially and every step preserves it.                         *)

LEMMA InitIInv == Init => IInv
<1> SUFFICES ASSUME Init PROVE IInv
  OBVIOUS
<1>1. PP!IInv
  BY SameInit, ParametersHold, RecordAssumption, PP!InitIInv DEF Init
<1>2. Idle
  BY DEF Init, PU!Init, Idle
<1> QED
  BY <1>1, <1>2 DEF Init, IInv, Types, ListIsCurrent, UpdateIsAwaited, WaitsWhenAsked,
     NoSendMessage, SendMessage

(* The status and the result that follow a message.                        *)
LEMMA SendTypes ==
  ASSUME Types, NEW msg, Send(msg), msg.type \in MessageTypes, msg.tc_list \subseteq TcInfo
  PROVE  /\ send_message' = msg
         /\ g_agent_status' = StatusAfter(msg.type)
         /\ g_agent_status' \in {"WAITING_QUERY_REQUEST", "WAITING_UPDATE_OR_QUERY_REQUEST"}
         /\ result' \in {"NONE", "FATAL", "RESPONSE_IS_TEEP_ERROR", "DEVICE_ACTIVATION_FLOW",
                         "QUERY_RESPONSE", "SUCCESS", "OK"}
<1>1. StatusAfter(msg.type) \in {"WAITING_QUERY_REQUEST", "WAITING_UPDATE_OR_QUERY_REQUEST"}
  BY DEF StatusAfter, Types
<1>2. ResultOf(msg) \in {"RESPONSE_IS_TEEP_ERROR", "DEVICE_ACTIVATION_FLOW", "QUERY_RESPONSE",
                         "SUCCESS", "OK"}
  BY DEF ResultOf
<1> QED
  BY <1>1, <1>2 DEF Send

(* The calls that touch neither the message nor the status, and the one    *)
(* that fails before it has a message.                                     *)
LEMMA KeyIInv ==
  ASSUME IInv, (\E ok \in BOOLEAN : InitKey(ok)) \/ FreeKey \/ EcallRefused
  PROVE  IInv'
<1>1. /\ UNCHANGED <<puVars, g_agent_status, asked>>
      /\ send_message' \in {send_message, NoSendMessage}
  BY DEF InitKey, FreeKey, EcallRefused
<1>2. PP!IInv' /\ PP!ActiveSet' = PP!ActiveSet
  BY <1>1, NoUpdateStep DEF IInv
<1>3. Types'
  BY <1>1 DEF IInv, Types, InitKey, FreeKey, EcallRefused, NoSendMessage, SendMessage
<1>4. ListIsCurrent'
  BY <1>1, <1>2 DEF IInv, ListIsCurrent, TcListOfTable, Idle, puVars, NoSendMessage, SendMessage
<1>5. UpdateIsAwaited' /\ ("QUERY_RESPONSE" \notin StackValues => WaitsWhenAsked')
  BY <1>1 DEF IInv, UpdateIsAwaited, WaitsWhenAsked, Idle, puVars
<1> QED
  BY <1>2, <1>3, <1>4, <1>5 DEF IInv

(* The messages process_query_request builds.                              *)
LEMMA QueryAnswers ==
  ASSUME PP!IInv, NEW q \in QueryRequests, NEW msg \in process_query_request(q)
  PROVE  \/ msg.type = "ERROR" /\ msg.tc_list = {}
         \/ /\ msg.type = "QUERY_RESPONSE"
            /\ msg.tc_list \subseteq TcInfo
            /\ msg.tc_list # {} =>
                 /\ \A r \in PP!ActiveSet : IsComplete(r)
                 /\ msg.tc_list = TcListOfTable
<1>1. CASE \E e : msg = ErrorMessage(e)
  BY <1>1 DEF ErrorMessage, SendMessage
<1>2. CASE /\ ListRefused(q) = {}
           /\ msg = SendMessage("QUERY_RESPONSE", "NONE", q.attestation, ListSent(q))
  <2>1. msg.type = "QUERY_RESPONSE" /\ msg.tc_list = ListSent(q)
    BY <1>2 DEF SendMessage
  <2>2. CASE ~q.trusted_components
    BY <2>1, <2>2 DEF ListSent
  <2>3. CASE q.trusted_components
    <3>1. record_len \in Nat
      BY ParametersHold, RecordAssumption, PP!IInvIsTyped DEF PP!TypeOK, PP!TC!TypeOK
    <3>2. \A i \in 0 .. record_len - 1 : IsComplete(records[i])
      BY <1>2, <2>3, <3>1, SameList DEF ListRefused
    <3>3. \A r \in PP!ActiveSet : IsComplete(r) /\ r \in Record /\ r.wapp_hash = r.wapp_bin
      BY <3>2, SameList, RecordsTyped
    <3>4. ListSent(q) = {[component_id    |-> records[i].wapp_name,
                          tc_image_digest |-> records[i].wapp_hash] : i \in 0 .. record_len - 1}
      <4>1. \A i \in 0 .. record_len - 1 :
              PU!TC!get_tc_list[i] = [component_id    |-> records[i].wapp_name,
                                      tc_image_digest |-> records[i].wapp_hash]
        BY SameList
      <4>2. ListSent(q) = {PU!TC!get_tc_list[i] : i \in 0 .. record_len - 1}
        BY <2>3, SameList DEF ListSent
      <4> QED
        BY <4>1, <4>2
    <3>5. ListSent(q) = {[component_id    |-> r.wapp_name,
                          tc_image_digest |-> r.wapp_hash] : r \in PP!ActiveSet}
      BY <3>4, SameList
    <3>6. ListSent(q) = TcListOfTable
      BY <3>3, <3>5 DEF TcListOfTable
    <3>7. ListSent(q) \subseteq TcInfo
      BY <3>3, <3>5 DEF TcInfo, Record
    <3> QED
      BY <2>1, <3>3, <3>6, <3>7
  <2> QED
    BY <2>2, <2>3
<1> QED
  BY <1>1, <1>2 DEF process_query_request, EnvironmentFails, Unsupported, ListRefused

LEMMA QueryIInv ==
  ASSUME IInv, NEW q \in QueryRequests, EcallQueryRequest(q)
  PROVE  IInv'
<1>1. PICK msg \in process_query_request(q) :
        Send(msg) /\ asked' = (asked \/ msg.type = "QUERY_RESPONSE")
  BY DEF EcallQueryRequest
<1>2. Idle /\ UNCHANGED <<puVars, g_key_state>>
  BY DEF EcallQueryRequest
<1>3. PP!IInv' /\ PP!ActiveSet' = PP!ActiveSet
  BY <1>2, NoUpdateStep DEF IInv
<1>4. \/ msg.type = "ERROR" /\ msg.tc_list = {}
      \/ /\ msg.type = "QUERY_RESPONSE"
         /\ msg.tc_list \subseteq TcInfo
         /\ msg.tc_list # {} =>
              (\A r \in PP!ActiveSet : IsComplete(r)) /\ msg.tc_list = TcListOfTable
  BY QueryAnswers DEF IInv
<1>5. /\ send_message' = msg
      /\ g_agent_status' = StatusAfter(msg.type)
      /\ Types'
  <2>1. msg.type \in MessageTypes /\ msg.tc_list \subseteq TcInfo
    BY <1>4 DEF MessageTypes
  <2>2. asked' \in BOOLEAN
    BY <1>1
  <2> QED
    BY <1>1, <1>2, <2>1, <2>2, SendTypes DEF IInv, Types
<1>6. ListIsCurrent'
  <2>1. Idle' /\ TcListOfTable' = TcListOfTable
    BY <1>2, <1>3 DEF Idle, puVars, TcListOfTable
  <2> QED
    BY <1>3, <1>4, <1>5, <2>1 DEF ListIsCurrent
<1>7. UpdateIsAwaited'
  BY <1>2 DEF UpdateIsAwaited, Idle, puVars
<1>8. WaitsWhenAsked => WaitsWhenAsked'
  BY <1>1, <1>4, <1>5 DEF WaitsWhenAsked, StatusAfter, IInv, Types
<1> QED
  BY <1>3, <1>5, <1>6, <1>7, <1>8 DEF IInv

(* The call with an Update that was not asked for.                         *)
LEMMA UnaskedIInv ==
  ASSUME IInv, EcallUpdateUnasked
  PROVE  IInv'
<1>1. PICK type \in StackValues : Send(Garbage(type))
  BY DEF EcallUpdateUnasked
<1>2. /\ Idle /\ UNCHANGED <<puVars, g_key_state, asked>>
      /\ g_agent_status = "WAITING_QUERY_REQUEST"
  BY DEF EcallUpdateUnasked
<1>3. PP!IInv' /\ PP!ActiveSet' = PP!ActiveSet
  BY <1>2, NoUpdateStep DEF IInv
<1>4. Garbage(type).type = type /\ Garbage(type).tc_list = {} /\ type \in MessageTypes
  BY TeepAgentAssumption DEF Garbage, SendMessage
<1>5. /\ send_message' = Garbage(type)
      /\ g_agent_status' = StatusAfter(type)
      /\ Types'
  BY <1>1, <1>2, <1>4, SendTypes DEF IInv, Types
<1>6. ListIsCurrent'
  BY <1>2, <1>4, <1>5 DEF ListIsCurrent, Idle, puVars
<1>7. UpdateIsAwaited'
  BY <1>2 DEF UpdateIsAwaited, Idle, puVars
<1>8. "QUERY_RESPONSE" \notin StackValues => g_agent_status' = g_agent_status
  BY <1>2, <1>5 DEF StatusAfter
<1> QED
  BY <1>2, <1>3, <1>5, <1>6, <1>7, <1>8 DEF IInv, WaitsWhenAsked

(* The call with an Update that was: its beginning, its steps, its return. *)
LEMMA BeginIInv ==
  ASSUME IInv, NEW u \in Updates, EcallUpdate(u)
  PROVE  IInv'
<1>1. PP!IInv'
  <2>1. PU!Next
    BY DEF EcallUpdate, PU!Next
  <2> QED
    BY <2>1, SameNext, ParametersHold, RecordAssumption, PP!NextIInv DEF IInv
<1>2. /\ g_agent_status # "WAITING_QUERY_REQUEST"
      /\ send_message' = NoSendMessage /\ result' = "NONE"
      /\ UNCHANGED <<g_key_state, g_agent_status, asked>>
  BY DEF EcallUpdate
<1> QED
  BY <1>1, <1>2 DEF IInv, Types, ListIsCurrent, UpdateIsAwaited, WaitsWhenAsked, NoSendMessage,
     SendMessage

LEMMA StepIsOfCall == PU!Step => ~Idle
BY DEF PU!Step, PU!SetUp, PU!SetUpFails, PU!store_callback_manifest, PU!store_callback_payload,
       PU!condition_callback, PU!EnvelopeDone, PU!EnvelopeFails, PU!report_callback, PU!Finalise,
       Idle

LEMMA StepIInv ==
  ASSUME IInv, EcallUpdateStep
  PROVE  IInv'
<1>1. PP!IInv'
  <2>1. PU!Next
    BY DEF EcallUpdateStep, PU!Next
  <2> QED
    BY <2>1, SameNext, ParametersHold, RecordAssumption, PP!NextIInv DEF IInv
<1>2. UNCHANGED <<g_key_state, g_agent_status, send_message, result, asked>> /\ ~Idle
  BY StepIsOfCall DEF EcallUpdateStep
<1> QED
  BY <1>1, <1>2 DEF IInv, Types, ListIsCurrent, UpdateIsAwaited, WaitsWhenAsked

LEMMA ReturnIInv ==
  ASSUME IInv, EcallUpdateReturns
  PROVE  IInv'
<1> DEFINE msg == SendMessage(message.type, message.err_code, FALSE, {})
<1>1. PP!IInv'
  <2>1. PU!Next
    BY DEF EcallUpdateReturns, PU!Next
  <2> QED
    BY <2>1, SameNext, ParametersHold, RecordAssumption, PP!NextIInv DEF IInv
<1>2. pc = "replied" /\ pc' = "waiting"
  BY DEF EcallUpdateReturns, PU!Return
<1>3. message.type \in {"SUCCESS", "ERROR"}
  BY <1>2 DEF IInv, PP!IInv, PP!Control
<1>4. msg.type = message.type /\ msg.tc_list = {}
  BY DEF SendMessage
<1>5. /\ Send(msg) /\ UNCHANGED g_key_state
      /\ asked' = (asked /\ message.type # "SUCCESS")
  BY DEF EcallUpdateReturns
<1> HIDE DEF msg
<1>6. /\ send_message' = msg
      /\ g_agent_status' = StatusAfter(message.type)
      /\ Types'
  BY <1>3, <1>4, <1>5, SendTypes DEF MessageTypes, IInv, Types
<1>7. ListIsCurrent'
  BY <1>4, <1>6 DEF ListIsCurrent
<1>8. UpdateIsAwaited'
  BY <1>2 DEF UpdateIsAwaited, Idle
<1>9. WaitsWhenAsked => WaitsWhenAsked'
  <2>1. g_agent_status = "WAITING_UPDATE_OR_QUERY_REQUEST"
    BY <1>2 DEF IInv, UpdateIsAwaited, Idle
  <2> QED
    BY <1>3, <1>5, <1>6, <2>1 DEF WaitsWhenAsked, StatusAfter
<1> QED
  BY <1>1, <1>6, <1>7, <1>8, <1>9 DEF IInv

LEMMA NextIInv == IInv /\ [Next]_vars => IInv'
<1> SUFFICES ASSUME IInv, [Next]_vars PROVE IInv'
  OBVIOUS
<1>1. CASE (\E ok \in BOOLEAN : InitKey(ok)) \/ FreeKey \/ EcallRefused
  BY <1>1, KeyIInv
<1>2. ASSUME NEW q \in QueryRequests, EcallQueryRequest(q) PROVE IInv'
  BY <1>2, QueryIInv
<1>3. CASE EcallUpdateUnasked
  BY <1>3, UnaskedIInv
<1>4. ASSUME NEW u \in Updates, EcallUpdate(u) PROVE IInv'
  BY <1>4, BeginIInv
<1>5. CASE EcallUpdateStep \/ EcallUpdateReturns
  BY <1>5, StepIInv, ReturnIInv
<1>6. CASE UNCHANGED vars
  <2>1. UNCHANGED <<puVars, g_key_state, g_agent_status, send_message, result, asked>>
    BY <1>6 DEF vars
  <2>2. PP!IInv' /\ PP!ActiveSet' = PP!ActiveSet
    BY <2>1, NoUpdateStep DEF IInv
  <2> QED
    BY <2>1, <2>2
       DEF IInv, Types, ListIsCurrent, TcListOfTable, UpdateIsAwaited, WaitsWhenAsked, Idle, puVars
<1> QED
  BY <1>1, <1>2, <1>3, <1>4, <1>5, <1>6 DEF Next

LEMMA SpecIInv == Spec => []IInv
BY InitIInv, NextIInv, PTL DEF Spec

-----------------------------------------------------------------------------
(* What follows from it.                                                   *)

LEMMA IInvIsTyped == IInv => TypeOK
BY SameTypeOK, ParametersHold, RecordAssumption, PP!IInvIsTyped DEF IInv, Types, TypeOK

(* The variables have their types over every exchange of messages: what is *)
(* sent is a TEEP message, and its tc-list has names and images only.      *)
THEOREM TypeCorrect == Spec => []TypeOK
BY IInvIsTyped, SpecIInv, PTL

(* process_update runs only for an Update that answers a QueryResponse, if *)
(* the message an unasked Update leaves uninitialised never looks like a   *)
(* QueryResponse.                                                          *)
THEOREM UpdatesAnswerQueries ==
  "QUERY_RESPONSE" \notin StackValues => (Spec => []UpdateAnswersQuery)
<1> SUFFICES ASSUME "QUERY_RESPONSE" \notin StackValues
             PROVE  Spec => []UpdateAnswersQuery
  OBVIOUS
<1>1. IInv => UpdateAnswersQuery
  BY DEF IInv, UpdateIsAwaited, WaitsWhenAsked, UpdateAnswersQuery
<1> QED
  BY <1>1, SpecIInv, PTL

(* Under the same condition the status between the calls is the one the    *)
(* design document derives from the messages built so far, whichever       *)
(* encoding or signing failed.                                             *)
THEOREM StatusIsOfMessages ==
  "QUERY_RESPONSE" \notin StackValues => (Spec => []StatusFollowsMessages)
<1> SUFFICES ASSUME "QUERY_RESPONSE" \notin StackValues
             PROVE  Spec => []StatusFollowsMessages
  OBVIOUS
<1>1. IInv => StatusFollowsMessages
  BY DEF IInv, WaitsWhenAsked, StatusFollowsMessages
<1> QED
  BY <1>1, SpecIInv, PTL

(* The tc-list of a QueryResponse lists every record of the ledger and     *)
(* nothing else, all of them complete, with the images they would run.     *)
THEOREM TcListIsExact == Spec => []TcListExact
<1>1. IInv => TcListExact
  <2> SUFFICES ASSUME IInv, send_message.tc_list # {} PROVE TcListExact
    BY DEF TcListExact
  <2>1. (\A r \in PP!ActiveSet : IsComplete(r)) /\ send_message.tc_list = TcListOfTable
    BY DEF IInv, ListIsCurrent
  <2>2. \A i \in PU!TC!Active : IsComplete(records[i])
    BY <2>1, SameList
  <2> QED
    BY <2>1, <2>2, SameList DEF TcListExact, TcListOfTable
<1> QED
  BY <1>1, SpecIInv, PTL

-----------------------------------------------------------------------------
(* The agent as the TAM sees it.                                           *)

LEMMA SameService ==
  /\ PU!Service!Init <=> PP!Service!Init
  /\ [PU!Service!Next]_(PU!Service!vars) <=> [PP!Service!Next]_(PP!Service!vars)
BY Zenon DEF
       PU!Service!Init, PP!Service!Init, PU!Service!Next, PP!Service!Next,
       PU!Service!vars, PP!Service!vars, PU!Service!Receive,
       PP!Service!Receive, PU!Service!Decide, PP!Service!Decide,
       PU!Service!Deliver, PP!Service!Deliver, PU!Service!Effect,
       PP!Service!Effect, PU!Service!TouchesOnlySent,
       PP!Service!TouchesOnlySent, PU!Service!LosesNothingNewer,
       PP!Service!LosesNothingNewer, PU!Service!Fulfilled,
       PP!Service!Fulfilled, PU!Service!CleanTable, PP!Service!CleanTable,
       PU!Service!Sent, PP!Service!Sent, PU!Service!IsComplete,
       PP!Service!IsComplete, PU!Service!Acceptable, PP!Service!Acceptable,
       PU!Service!Errors, PP!Service!Errors, PU!Seen, PP!Seen, PU!Answer,
       PP!Answer, PU!ActiveSet, PP!ActiveSet, PU!TC!Active, PP!TC!Active,
       PU!NoUpdate, PP!NoUpdate

(* Every step of the agent is one of process_update or leaves it alone.    *)
LEMMA AgentStepUpdates == [Next]_vars => [PP!Next]_(PP!vars)
<1> SUFFICES ASSUME [Next]_vars PROVE [PP!Next]_(PP!vars)
  OBVIOUS
<1>1. CASE UNCHANGED puVars
  BY <1>1 DEF puVars, PP!vars, PP!tcVars, PP!runVars
<1>2. CASE (\E u \in Updates : EcallUpdate(u)) \/ EcallUpdateStep \/ EcallUpdateReturns
  <2>1. PU!Next
    BY <1>2 DEF EcallUpdate, EcallUpdateStep, EcallUpdateReturns, PU!Next
  <2> QED
    BY <2>1, SameNext
<1> QED
  BY <1>1, <1>2 DEF Next, vars, InitKey, FreeKey, EcallRefused, EcallQueryRequest, EcallUpdateUnasked

LEMMA NextServes == IInv /\ IInv' /\ [Next]_vars => [PU!Service!Next]_(PU!Service!vars)
<1> SUFFICES ASSUME IInv, IInv', [Next]_vars PROVE [PU!Service!Next]_(PU!Service!vars)
  OBVIOUS
<1>1. PP!IInv /\ PP!IInv' /\ [PP!Next]_(PP!vars)
  BY AgentStepUpdates DEF IInv
<1>2. [PP!Service!Next]_(PP!Service!vars)
  BY <1>1, ParametersHold, RecordAssumption, PP!NextRefines
<1> QED
  BY <1>2, SameService

LEMMA InitServes == Init => PU!Service!Init
BY SameInit, SameService, ParametersHold, RecordAssumption, PP!InitRefines DEF Init

(* Whatever messages come and whatever state of keys and agent they find,  *)
(* the ledger moves only as UpdateService allows: the calls that process   *)
(* no Update, and those that fail, leave it as it was.                     *)
THEOREM AgentImplementsService == Spec => PU!ImplementsUpdateService
BY InitServes, NextServes, SpecIInv, PTL DEF Spec, PU!ImplementsUpdateService, PU!Service!Spec
=============================================================================
