------------------------------ MODULE TeepAgent -----------------------------
(***************************************************************************)
(* The TEEP agent in the enclave: ecall_process_message with               *)
(* process_query_request, the agent status it keeps between calls, and the *)
(* key state of Enclave_generate_keypair.cpp.  PU is process_update with   *)
(* the SUIT callbacks and the ledger.                                      *)
(*                                                                         *)
(* The host makes one ECALL at a time.  A call that does not process an    *)
(* Update is one action; a call that does begins with PU!Begin, takes the  *)
(* steps of PU, and ends with EcallUpdateReturns.  An Update that comes    *)
(* while a QueryRequest is awaited is not processed, but send_message is   *)
(* used all the same, uninitialised: its type is whatever the stack holds. *)
(* (Should following its garbage pointers abort the enclave, no state is   *)
(* left to speak of; that outcome is left out.)                            *)
(***************************************************************************)
EXTENDS TcRecord, Sequences, FiniteSetsExt

CONSTANTS
  MaxRecords, SeqOf, ManifestNameOf, WappOf, ImageOf, CommandsOf, Updates,
  MaxManifests, NoReport, Faults,
  QueryRequests,   (* the QueryRequests the TAM may send                   *)
  TcListCapacity,  (* entries of query_response->tc_list                   *)
  StackValues,     (* message types an uninitialised send_message may have *)
  AgentFaults      (* which of AllAgentFaults may happen                   *)

AllAgentFaults == {"key", "evidence", "memory", "send", "receive"}

MessageTypes == {"QUERY_RESPONSE", "SUCCESS", "ERROR", "OTHER"}

AgentParameters ==
  /\ QueryRequests \subseteq [version_ok : BOOLEAN, cipher_ok : BOOLEAN,
                              attestation : BOOLEAN, trusted_components : BOOLEAN,
                              app_name : BOOLEAN]
  /\ TcListCapacity \in Nat
  /\ StackValues \subseteq MessageTypes /\ StackValues # {}
  /\ AgentFaults \subseteq AllAgentFaults

ASSUME TeepAgentAssumption == AgentParameters

VARIABLES
  records, record_len, rc, g_suit_report,
  pc, update, manifest_index, called, suit_ok, reported, message, before,
  g_key_state,
  g_agent_status,
  send_message,    (* the message of the last call that built one          *)
  result,          (* what the last ecall_process_message returned         *)
  asked            (* auxiliary: a QueryResponse was built since the last  *)
                   (* Success was                                          *)

PU == INSTANCE ProcessUpdate

ASSUME UpdateAssumption == PU!UpdateParameters

puVars == <<records, record_len, rc, g_suit_report, pc, update, manifest_index,
            called, suit_ok, reported, message, before>>
vars   == <<puVars, g_key_state, g_agent_status, send_message, result, asked>>

TcInfo == [component_id : Names \cup {NoName}, tc_image_digest : Images \cup {NoImage}]

SendMessage(type, err_code, attested, tc_list) ==
  [type |-> type, err_code |-> err_code, attested |-> attested, tc_list |-> tc_list]

NoSendMessage     == SendMessage("NONE", "NONE", FALSE, {})
ErrorMessage(e)   == SendMessage("ERROR", e, FALSE, {})
Garbage(type)     == SendMessage(type, "NONE", FALSE, {})

Idle == pc = "waiting"

-----------------------------------------------------------------------------
(* Keys.  Generating a pair and setting the built-in one both start from   *)
(* no key and end READY only if every step succeeds.                       *)
InitKey(ok) ==
  /\ Idle
  /\ ok \/ "key" \in AgentFaults
  /\ g_key_state' = IF ok THEN "READY" ELSE "UNINITIALIZED"
  /\ UNCHANGED <<puVars, g_agent_status, send_message, result, asked>>

FreeKey ==
  /\ Idle
  /\ g_key_state = "READY"
  /\ g_key_state' = "UNINITIALIZED"
  /\ UNCHANGED <<puVars, g_agent_status, send_message, result, asked>>

-----------------------------------------------------------------------------
(* process_query_request: the messages it may build for q.                 *)

Supported(q) == q.version_ok /\ q.cipher_ok

Unsupported(q) ==
  IF ~q.version_ok THEN {ErrorMessage("UNSUPPORTED_MSG_VERSION")}
  ELSE IF ~q.cipher_ok THEN {ErrorMessage("UNSUPPORTED_CIPHER_SUITES")}
  ELSE {}

EnvironmentFails(q) ==
  IF \/ Supported(q) /\ q.attestation /\ "evidence" \in AgentFaults
     \/ Supported(q) /\ q.trusted_components /\ q.app_name /\ "memory" \in AgentFaults
  THEN {ErrorMessage("TEMPORARY_ERROR")}
  ELSE {}

ListRefused(q) ==
  IF ~q.trusted_components THEN {}
  ELSE IF ~q.app_name \/ record_len > TcListCapacity
  THEN {ErrorMessage("PERMANENT_ERROR")}
  ELSE IF record_len > 0 /\ PU!TC!TcListFails(record_len)
  THEN {ErrorMessage("TEMPORARY_ERROR")}
  ELSE {}

ListSent(q) ==
  IF q.trusted_components
  THEN {PU!TC!get_tc_list[i] : i \in PU!TC!Active}
  ELSE {}

process_query_request(q) ==
  EnvironmentFails(q) \cup
  IF ~Supported(q) THEN Unsupported(q)
  ELSE IF ListRefused(q) # {} THEN ListRefused(q)
  ELSE {SendMessage("QUERY_RESPONSE", "NONE", q.attestation, ListSent(q))}

-----------------------------------------------------------------------------
(* The tail every answered call shares: the status follows the type of the *)
(* message, then the message is encoded and signed, which may fail.        *)

(* Mutants: not even a Success ends the wait; an Error ends it too.        *)
StatusKept(type) ==
  IF type = "QUERY_RESPONSE" THEN "WAITING_UPDATE_OR_QUERY_REQUEST" ELSE g_agent_status

StatusReset(type) ==
  IF type = "QUERY_RESPONSE"
  THEN "WAITING_UPDATE_OR_QUERY_REQUEST"
  ELSE "WAITING_QUERY_REQUEST"

StatusAfter(type) ==
  CASE g_agent_status = "WAITING_QUERY_REQUEST" /\ type = "QUERY_RESPONSE"
         -> "WAITING_UPDATE_OR_QUERY_REQUEST"
    [] g_agent_status = "WAITING_UPDATE_OR_QUERY_REQUEST" /\ type = "SUCCESS"
         -> "WAITING_QUERY_REQUEST"
    [] OTHER -> g_agent_status

ResultOf(m) ==
  CASE m.type = "ERROR"                         -> "RESPONSE_IS_TEEP_ERROR"
    [] m.type = "QUERY_RESPONSE" /\ m.attested  -> "DEVICE_ACTIVATION_FLOW"
    [] m.type = "QUERY_RESPONSE" /\ ~m.attested -> "QUERY_RESPONSE"
    [] m.type = "SUCCESS"                       -> "SUCCESS"
    [] OTHER                                    -> "OK"

Send(m) ==
  /\ send_message' = m
  /\ g_agent_status' = StatusAfter(m.type)
  /\ \/ result' = ResultOf(m)
     \/ "send" \in AgentFaults /\ result' = "FATAL"

(* The calls of ecall_process_message that process no Update.              *)
EcallRefused ==
  /\ Idle
  /\ g_key_state # "READY" \/ "receive" \in AgentFaults
  /\ result' = "FATAL"
  /\ send_message' = NoSendMessage
  /\ UNCHANGED <<puVars, g_key_state, g_agent_status, asked>>

EcallQueryRequest(q) ==
  /\ Idle
  /\ g_key_state = "READY"
  /\ \E m \in process_query_request(q) :
       /\ Send(m)
       /\ asked' = (asked \/ m.type = "QUERY_RESPONSE")
  /\ UNCHANGED <<puVars, g_key_state>>

EcallUpdateUnasked ==
  /\ Idle
  /\ g_key_state = "READY"
  /\ g_agent_status = "WAITING_QUERY_REQUEST"
  /\ \E type \in StackValues : Send(Garbage(type))
  /\ UNCHANGED <<puVars, g_key_state, asked>>

(* The call that does, from its beginning to its return.                   *)
EcallUpdate(u) ==
  /\ g_key_state = "READY"
  /\ g_agent_status # "WAITING_QUERY_REQUEST"
  /\ PU!Begin(u)
  /\ send_message' = NoSendMessage
  /\ result' = "NONE"
  /\ UNCHANGED <<g_key_state, g_agent_status, asked>>

EcallUpdateStep ==
  /\ PU!Step
  /\ UNCHANGED <<g_key_state, g_agent_status, send_message, result, asked>>

EcallUpdateReturns ==
  /\ PU!Return
  /\ Send(SendMessage(message.type, message.err_code, FALSE, {}))
  /\ asked' = (asked /\ message.type # "SUCCESS")
  /\ UNCHANGED g_key_state

-----------------------------------------------------------------------------
Init ==
  /\ PU!Init
  /\ g_key_state = "UNINITIALIZED"
  /\ g_agent_status = "WAITING_QUERY_REQUEST"
  /\ send_message = NoSendMessage
  /\ result = "NONE"
  /\ asked = FALSE

Next ==
  \/ \E ok \in BOOLEAN : InitKey(ok)
  \/ FreeKey
  \/ EcallRefused
  \/ \E q \in QueryRequests : EcallQueryRequest(q)
  \/ EcallUpdateUnasked
  \/ \E u \in Updates : EcallUpdate(u)
  \/ EcallUpdateStep
  \/ EcallUpdateReturns

(* Once made, a call is run to its return.                                 *)
Spec == Init /\ [][Next]_vars /\ WF_vars(EcallUpdateStep) /\ WF_vars(EcallUpdateReturns)

-----------------------------------------------------------------------------
(* Properties.                                                             *)

TypeOK ==
  /\ PU!TypeOK
  /\ g_key_state \in {"UNINITIALIZED", "READY"}
  /\ g_agent_status \in {"WAITING_QUERY_REQUEST", "WAITING_UPDATE_OR_QUERY_REQUEST"}
  /\ send_message.type \in MessageTypes \cup {"NONE"}
  /\ send_message.tc_list \subseteq TcInfo
  /\ result \in {"NONE", "FATAL", "RESPONSE_IS_TEEP_ERROR", "DEVICE_ACTIVATION_FLOW",
                 "QUERY_RESPONSE", "SUCCESS", "OK"}
  /\ asked \in BOOLEAN

(* The ledger moves only on behalf of an Update that answers a             *)
(* QueryResponse: between a Success and the next QueryResponse no Update   *)
(* is processed, though one that failed may be sent again.                 *)
UpdateAnswersQuery == ~Idle => asked

(* "After building QUERY_RESPONSE (before encode/sign):                    *)
(* WAITING_UPDATE_OR_QUERY_REQUEST; after building SUCCESS_MESSAGE:        *)
(* WAITING_QUERY_REQUEST; on ERROR_MESSAGE: no state transition"           *)
(* (doc/enclave-process-message.md), over whole exchanges and whether or   *)
(* not the message could then be sent.                                     *)
StatusFollowsMessages ==
  Idle => (g_agent_status = "WAITING_UPDATE_OR_QUERY_REQUEST" <=> asked)

(* Every call returns: the loop over the manifests of an Update comes to   *)
(* its end, whichever of its steps fail.                                   *)
EcallReturns == ~Idle ~> Idle

(* A tc-list that is sent is the whole table and nothing unfinished: every *)
(* item is a complete record with the hash of the payload it would run,    *)
(* and every record is listed.                                             *)
TcListExact ==
  send_message.tc_list # {} =>
    /\ \A i \in PU!TC!Active : IsComplete(records[i])
    /\ send_message.tc_list =
         {[component_id |-> r.wapp_name, tc_image_digest |-> r.wapp_bin] : r \in PU!ActiveSet}
=============================================================================
