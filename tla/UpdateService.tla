---------------------------- MODULE UpdateService ---------------------------
(***************************************************************************)
(* What one TEEP Update promises to the rest of the enclave, without       *)
(* manifests in progress: the agent takes an Update message, and in one    *)
(* step decides on the answer and on the new set of installed records.     *)
(* The enclave's one thread looks nothing up while process_update runs, so *)
(* the many stores, swaps and deletions of the code are seen from outside  *)
(* only by their sum, which is the relation Effect.  ProcessUpdate         *)
(* implements this specification (ProcessUpdate!ImplementsUpdateService).  *)
(***************************************************************************)
EXTENDS TcRecord, Sequences

CONSTANTS
  SeqOf,        (* manifest_sequence_number of a manifest                  *)
  WappOf,       (* the application a manifest installs                     *)
  ImageOf,      (* the image its image-match condition expects             *)
  CommandsOf,   (* the callbacks its command sequences lead to             *)
  Updates,      (* the Update messages the TAM may send                    *)
  MaxManifests, (* TEEP_MAX_ARRAY_LENGTH                                   *)
  NoUpdate      (* no Update is being processed                            *)

VARIABLES
  installed, (* the records in the ledger                                  *)
  update,    (* the Update being processed                                 *)
  answer     (* the error code of its answer, "NONE" for Success,          *)
             (* "PENDING" while it has none, "IDLE" without an Update      *)

vars == <<installed, update, answer>>

Errors == {"PERMANENT_ERROR", "TEMPORARY_ERROR", "MANIFEST_PROCESSING_FAILED"}

Sent(u) == {u.manifest_list[k] : k \in 1 .. Len(u.manifest_list)}

(* Records of other manifests and other applications stay, and no record   *)
(* comes in but of a manifest of the Update.                               *)
TouchesOnlySent(old, new, u) ==
  /\ \A r \in old :
       \/ r \in new
       \/ r.manifest_digest \in Sent(u)
       \/ r.wapp_name \in {WappOf[d] : d \in Sent(u)}
  /\ \A r \in new \ old : r.manifest_digest \in Sent(u)

(* Nobody's finished application is lost, nor replaced by an older one.    *)
LosesNothingNewer(old, new) ==
  \A r \in old : IsComplete(r) =>
    \E s \in new :
      /\ s.wapp_name = r.wapp_name
      /\ s.manifest_sequence_number >= r.manifest_sequence_number

(* What was sent is there, as new as it was sent or newer, and what is     *)
(* there of it is complete and is the image its manifest asks for.         *)
Fulfilled(new, u) ==
  /\ \A d \in Sent(u) : \E r \in new :
       r.wapp_name = WappOf[d] /\ r.manifest_sequence_number >= SeqOf[d]
  /\ \A r \in new : r.manifest_digest \in Sent(u) =>
       /\ IsComplete(r)
       /\ "match" \in CommandsOf[r.manifest_digest] => r.wapp_bin = ImageOf[r.manifest_digest]

(* Every record is finished and alone of its name.                         *)
CleanTable(S) ==
  /\ \A r \in S : IsComplete(r)
  /\ \A r, s \in S : r.wapp_name = s.wapp_name => r = s

(* The sum of an Update.  Only MANIFEST_PROCESSING_FAILED leaves unfinished*)
(* records in a table that had none.                                       *)
Effect(old, new, u, result) ==
  /\ TouchesOnlySent(old, new, u)
  /\ LosesNothingNewer(old, new)
  /\ result = "NONE" => Fulfilled(new, u)
  /\ CleanTable(old) /\ result # "MANIFEST_PROCESSING_FAILED" => CleanTable(new)

-----------------------------------------------------------------------------
Init ==
  /\ installed = {}
  /\ update = NoUpdate
  /\ answer = "IDLE"

Acceptable(u) == u.token /\ Len(u.manifest_list) \in 1 .. MaxManifests

(* An Update that does not pass the first checks is refused and changes    *)
(* nothing.                                                                *)
Receive(u) ==
  /\ answer = "IDLE"
  /\ update' = u
  /\ answer' = IF Acceptable(u) THEN "PENDING" ELSE "PERMANENT_ERROR"
  /\ UNCHANGED installed

Decide ==
  /\ answer = "PENDING"
  /\ answer' \in Errors \cup {"NONE"}
  /\ Effect(installed, installed', update, answer')
  /\ UNCHANGED update

Deliver ==
  /\ answer \in Errors \cup {"NONE"}
  /\ update' = NoUpdate
  /\ answer' = "IDLE"
  /\ UNCHANGED installed

Next == (\E u \in Updates : Receive(u)) \/ Decide \/ Deliver

Spec == Init /\ [][Next]_vars
=============================================================================
