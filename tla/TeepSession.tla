----------------------------- MODULE TeepSession ----------------------------
(***************************************************************************)
(* A TEEP session on the host: run_teep_session of sgx_teep_session.cpp    *)
(* and teep_send_http_post of teep_http_client.cpp, between a TAM and the  *)
(* agent in the enclave (AG).  The agent, its status and its ledger        *)
(* outlive the session; the session's flags and buffers do not.            *)
(*                                                                         *)
(* TAM and network are external.  While times are rough the TAM answers    *)
(* with any message or none, requests and responses are lost, and the      *)
(* agent may fail to encode or sign.  From some time on they are calm:     *)
(* nothing is lost, and the TAM asks an empty request with a QueryRequest, *)
(* answers the QueryResponse with the current Update and then ends the     *)
(* session.  An install is then requested over and over.                   *)
(***************************************************************************)
EXTENDS TcRecord, Sequences, FiniteSetsExt

CONSTANTS
  MaxRecords, SeqOf, ManifestNameOf, WappOf, ImageOf, CommandsOf, Updates,
  MaxManifests, NoReport, Faults, QueryRequests, TcListCapacity, StackValues,
  AgentFaults,
  MaxReceive,    (* MAX_RECEIVE_BUFFER_SIZE                                *)
  SizeOf,        (* the size of a QueryRequest, an Update, another message *)
  CurrentQuery,  (* what the TAM sends in calm times                       *)
  CurrentUpdate

ASSUME TeepSessionAssumption ==
  /\ MaxReceive \in Nat \ {0}
  /\ SizeOf \in [{"QUERY", "UPDATE", "OTHER"} -> Nat \ {0}]
  /\ CurrentQuery \in QueryRequests
  /\ CurrentUpdate \in Updates

VARIABLES
  records, record_len, rc, g_suit_report,
  pc, update, manifest_index, called, suit_ok, reported, message, before,
  g_key_state, g_agent_status, send_message, result, asked,
  spc,                        (* where run_teep_session is                 *)
  cose_send_buf,              (* the response to post next, by the ECALL's *)
                              (* result; EMPTY is the first post           *)
  cbor_recv_buf,              (* the message received                      *)
  recv_len,                   (* its length                                *)
  has_teep_error_response,
  in_device_activation_flow,
  session_result,
  calm,                       (* external: TAM and network cooperate       *)
  built,                      (* auxiliary: responses built in the session *)
  delivered                   (* auxiliary: those the TAM has              *)

AG == INSTANCE TeepAgent

ASSUME AgentAssumption == AG!AgentParameters /\ AG!PU!UpdateParameters

agVars    == <<records, record_len, rc, g_suit_report, pc, update, manifest_index,
               called, suit_ok, reported, message, before,
               g_key_state, g_agent_status, send_message, result, asked>>
flags     == <<has_teep_error_response, in_device_activation_flow>>
tamVars   == <<built, delivered>>
vars      == <<agVars, spc, cose_send_buf, cbor_recv_buf, recv_len, flags,
               session_result, calm, tamVars>>

Query(q)  == [type |-> "QUERY", body |-> q]
Update(u) == [type |-> "UPDATE", body |-> u]
Other     == [type |-> "OTHER", body |-> "NONE"]
NoBody    == [type |-> "NONE", body |-> "NONE"]
Partial   == [type |-> "PARTIAL", body |-> "NONE"]

Messages == {Query(q) : q \in QueryRequests} \cup {Update(u) : u \in Updates} \cup {Other}

Responses == {"RESPONSE_IS_TEEP_ERROR", "DEVICE_ACTIVATION_FLOW", "QUERY_RESPONSE",
              "SUCCESS", "OK"}

(* What the TAM may answer to a post; NoBody is the 204 that ends it all.  *)
Replies(post) ==
  IF ~calm THEN Messages \cup {NoBody}
  ELSE IF post = "EMPTY" THEN {Query(CurrentQuery)}
  ELSE IF post \in {"QUERY_RESPONSE", "DEVICE_ACTIVATION_FLOW"} THEN {Update(CurrentUpdate)}
  ELSE {NoBody}

End(r) == spc' = "ended" /\ session_result' = r

-----------------------------------------------------------------------------
(* attester_install with an enclave that has its key.  (Without one the    *)
(* first call of the session ends it with FATAL: see WebFrontend.)         *)
Start ==
  /\ spc = "idle"
  /\ g_key_state = "READY"
  /\ spc' = "post"
  /\ cose_send_buf' = "EMPTY"
  /\ has_teep_error_response' = FALSE
  /\ in_device_activation_flow' = FALSE
  /\ UNCHANGED <<agVars, cbor_recv_buf, recv_len, session_result, calm, tamVars>>

(* The room write_callback has for a response: what does not fit is        *)
(* dropped without an error.  (Mutant: the length the last response left   *)
(* in the buffer.)                                                         *)
RoomLeft == IF cose_send_buf = "EMPTY" THEN MaxReceive ELSE recv_len

Room == MaxReceive

(* (Mutant: all of it is stored.)                                          *)
AllStored(size) == size

Stored(size) == Min({size, Room})

Told == delivered' = delivered \cup ({cose_send_buf} \ {"EMPTY"})

(* teep_send_http_post: status 200 with a body ...                         *)
PostAnswered(r) ==
  /\ spc = "post"
  /\ r \in Replies(cose_send_buf) \ {NoBody}
  /\ cbor_recv_buf' = IF SizeOf[r.type] <= Room THEN r ELSE Partial
  /\ recv_len' = Stored(SizeOf[r.type])
  /\ spc' = "call"
  /\ Told
  /\ UNCHANGED <<agVars, cose_send_buf, flags, session_result, calm, built>>

SessionResult ==
  IF has_teep_error_response THEN "TEEP_ERROR_RESPONSE"
  ELSE IF in_device_activation_flow THEN "OK_DEVICE_ACTIVATED"
  ELSE "OK"

(* ... or none, or 204, which ends the session ...                         *)
PostEnds ==
  /\ spc = "post"
  /\ NoBody \in Replies(cose_send_buf)
  /\ End(SessionResult)
  /\ cbor_recv_buf' = NoBody
  /\ recv_len' = 0
  /\ Told
  /\ UNCHANGED <<agVars, cose_send_buf, flags, calm, built>>

(* ... or a failure: the request or the response is lost, or the status is *)
(* another.  (Mutant: it is taken for the end of the session.)             *)
ResultOfSession == SessionResult

HttpError == "HTTP_ERROR"

PostFails ==
  /\ spc = "post"
  /\ ~calm
  /\ End(HttpError)
  /\ Told \/ UNCHANGED delivered
  /\ UNCHANGED <<agVars, cose_send_buf, cbor_recv_buf, recv_len, flags, calm, built>>

-----------------------------------------------------------------------------
(* ecall_process_message with what was received.  In calm times it does    *)
(* not fail on a message it can read, nor libcsuit by itself.              *)

Sane == calm => result' # "FATAL"

SaneStep == calm => ~AG!PU!EnvelopeFails

CallWith(r) ==
  \/ r.type \in {"OTHER", "PARTIAL"} /\ AG!EcallRefused
  \/ r.type = "QUERY"  /\ AG!EcallQueryRequest(r.body) /\ Sane
  \/ r.type = "UPDATE" /\ AG!EcallUpdateUnasked /\ Sane
  \/ r.type = "UPDATE" /\ AG!EcallUpdate(r.body)

Call ==
  /\ spc = "call"
  /\ CallWith(cbor_recv_buf)
  /\ spc' = "calling"
  /\ UNCHANGED <<cose_send_buf, cbor_recv_buf, recv_len, flags, session_result, calm, tamVars>>

Enclave ==
  /\ spc = "calling"
  /\ \/ AG!EcallUpdateStep /\ SaneStep
     \/ AG!EcallUpdateReturns /\ Sane
  /\ UNCHANGED <<spc, cose_send_buf, cbor_recv_buf, recv_len, flags, session_result, calm, tamVars>>

(* The flags are sticky.  (Mutant: the last response decides.)             *)
LastIsError(r) == r = "RESPONSE_IS_TEEP_ERROR"

HasError(r) == has_teep_error_response \/ r = "RESPONSE_IS_TEEP_ERROR"

CallReturns ==
  /\ spc = "calling"
  /\ AG!Idle
  /\ IF result = "FATAL"
     THEN End("FATAL") /\ UNCHANGED <<flags, cose_send_buf, built>>
     ELSE /\ spc' = "post"
          /\ has_teep_error_response' = HasError(result)
          /\ in_device_activation_flow' =
               (in_device_activation_flow \/ result = "DEVICE_ACTIVATION_FLOW")
          /\ cose_send_buf' = result
          /\ built' = built \cup {result}
          /\ UNCHANGED session_result
  /\ UNCHANGED <<agVars, cbor_recv_buf, recv_len, calm, delivered>>

(* The caller of attester_install has the result.                          *)
Leave ==
  /\ spc = "ended"
  /\ spc' = "idle"
  /\ session_result' = "NONE"
  /\ cose_send_buf' = "EMPTY"
  /\ cbor_recv_buf' = NoBody
  /\ recv_len' = 0
  /\ has_teep_error_response' = FALSE
  /\ in_device_activation_flow' = FALSE
  /\ built' = {} /\ delivered' = {}
  /\ UNCHANGED <<agVars, calm>>

-----------------------------------------------------------------------------
MakeKey ==
  /\ spc = "idle"
  /\ g_key_state = "UNINITIALIZED"
  /\ AG!InitKey(TRUE)
  /\ UNCHANGED <<spc, cose_send_buf, cbor_recv_buf, recv_len, flags, session_result,
                 calm, tamVars>>

CalmDown ==
  /\ ~calm
  /\ calm' = TRUE
  /\ UNCHANGED <<agVars, spc, cose_send_buf, cbor_recv_buf, recv_len, flags,
                 session_result, tamVars>>

Init ==
  /\ AG!Init
  /\ spc = "idle"
  /\ cose_send_buf = "EMPTY"
  /\ cbor_recv_buf = NoBody
  /\ recv_len = 0
  /\ has_teep_error_response = FALSE
  /\ in_device_activation_flow = FALSE
  /\ session_result = "NONE"
  /\ calm = FALSE
  /\ built = {} /\ delivered = {}

Session ==
  \/ Start
  \/ \E r \in Messages : PostAnswered(r)
  \/ PostEnds
  \/ PostFails
  \/ Call
  \/ Enclave
  \/ CallReturns
  \/ Leave

Next == MakeKey \/ CalmDown \/ Session

(* The session's thread runs on; WF of CalmDown is the assumption that the *)
(* environment settles.                                                    *)
Spec == Init /\ [][Next]_vars /\ WF_vars(MakeKey) /\ WF_vars(CalmDown) /\ WF_vars(Session)

-----------------------------------------------------------------------------
(* Properties.                                                             *)

TypeOK ==
  /\ AG!TypeOK
  /\ spc \in {"idle", "post", "call", "calling", "ended"}
  /\ cose_send_buf \in Responses \cup {"EMPTY"}
  /\ cbor_recv_buf \in Messages \cup {NoBody, Partial}
  /\ recv_len \in 0 .. MaxReceive
  /\ session_result \in {"NONE", "OK", "OK_DEVICE_ACTIVATED", "TEEP_ERROR_RESPONSE",
                         "HTTP_ERROR", "FATAL"}
  /\ built \subseteq Responses /\ delivered \subseteq Responses

Finished == spc = "ended" /\ session_result \notin {"HTTP_ERROR", "FATAL"}

(* A session that ran to its end with the TAM tells its caller whether any *)
(* response in it was an Error and whether evidence was among them: a      *)
(* later success does not cover up an earlier Error.                       *)
ResultTellsErrors ==
  Finished =>
    /\ (session_result = "TEEP_ERROR_RESPONSE" <=> "RESPONSE_IS_TEEP_ERROR" \in built)
    /\ session_result = "OK_DEVICE_ACTIVATED" => "DEVICE_ACTIVATION_FLOW" \in built

(* ... and the TAM has received every response of it: only an HTTP_ERROR   *)
(* leaves open whether the TAM knows what the device has done.             *)
ResponsesDelivered == Finished => built \subseteq delivered

(* Whatever sessions were cut off before, and in whatever state they left  *)
(* the agent: once TAM and network cooperate, the application gets         *)
(* installed.  (With Faults empty, that is, when no Update was broken off  *)
(* between its store callbacks.)                                           *)
Installed ==
  \A d \in {CurrentUpdate.manifest_list[k] : k \in 1 .. Len(CurrentUpdate.manifest_list)} :
    /\ AG!PU!TC!WithWappName(WappOf[d]) # {}
    /\ IsComplete(AG!PU!TC!find_by_wapp_name(WappOf[d]))
    /\ AG!PU!TC!find_by_wapp_name(WappOf[d]).manifest_sequence_number >= SeqOf[d]

Recovers == calm ~> Installed

(* QueryRequest is answered with QueryResponse                             *)
(* (doc/external-design-teep-tam-exchange.md), its tc-list being built     *)
(* "from stored complete records" (tc_manager.h): once TAM and network     *)
(* cooperate, one of the TAM's supported QueryRequests gets its answer.    *)
QueriesAnswered ==
  calm ~> cose_send_buf \in {"QUERY_RESPONSE", "DEVICE_ACTIVATION_FLOW"}
=============================================================================
