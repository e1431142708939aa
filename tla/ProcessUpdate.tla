---------------------------- MODULE ProcessUpdate ---------------------------
(***************************************************************************)
(* A TEEP Update in the enclave: process_update of                         *)
(* Enclave_process_message.cpp, the SUIT callbacks of                      *)
(* suit_processor_wrapper.cpp and, as TC, the ledger they write to.        *)
(*                                                                         *)
(* Each manifest of the Update gets a fresh libcsuit processor.  libcsuit  *)
(* is external: it calls the store callback for the manifest and for its   *)
(* payload and the condition callback for the image match, hands over a    *)
(* report when it ends, and may stop with an error at any point.  It is    *)
(* modelled from that use: the two stores come in either order and the     *)
(* match after the payload.  A manifest is named by its digest, which      *)
(* fixes its sequence number, the application it installs and the image    *)
(* its match condition expects; the payload that arrives with it may be    *)
(* another one, and its command sequences need not hold all three          *)
(* commands.                                                               *)
(***************************************************************************)
EXTENDS TcRecord, Sequences, FiniteSetsExt

CONSTANTS
  MaxRecords,
  SeqOf,          (* manifest_sequence_number of a manifest                *)
  ManifestNameOf, (* the file name of the manifest itself                  *)
  WappOf,         (* the application a manifest installs (dst of payload)  *)
  ImageOf,        (* the image its image-match condition expects           *)
  CommandsOf,     (* the callbacks its command sequences lead to           *)
  Updates,        (* the Update messages the TAM may send                  *)
  MaxManifests,   (* TEEP_MAX_ARRAY_LENGTH                                 *)
  NoReport,       (* an empty g_suit_report                                *)
  Faults          (* which of AllFaults may happen                         *)

AllFaults == {"memory", "setup", "envelope", "payload"}

UpdateParameters ==
  /\ MaxRecords \in Nat \ {0}
  /\ SeqOf \in [Digests -> Seqs]
  /\ ManifestNameOf \in [Digests -> Names]
  /\ WappOf \in [Digests -> Names]
  /\ ImageOf \in [Digests -> Images]
  /\ CommandsOf \in [Digests -> SUBSET {"manifest", "payload", "match"}]
  /\ Updates \subseteq [token : BOOLEAN, manifest_list : Seq(Digests)]
  /\ MaxManifests \in Nat \ {0}
  /\ NoReport \notin [manifest : Digests, ok : BOOLEAN]
  /\ Faults \subseteq AllFaults

ASSUME ProcessUpdateAssumption == UpdateParameters

VARIABLES
  records, record_len, rc,  (* the ledger                                  *)
  g_suit_report,            (* the report the report callback stored last  *)
  pc,                       (* where process_update is                     *)
  update,                   (* its argument                                *)
  manifest_index,           (* the manifest being processed                *)
  called,                   (* store and match callbacks made so far       *)
  suit_ok,                  (* whether the envelope was processed          *)
  reported,                 (* auxiliary: this manifest delivered a report *)
  message,                  (* the message process_update builds           *)
  before                    (* auxiliary: the records at the call          *)

TC == INSTANCE TcManager WITH ManifestArgs <- ManifestStore,
                              PayloadArgs <- PayloadStore,
                              ShaOutcomes <- {TRUE}

tcVars  == <<records, record_len, rc>>
runVars == <<update, manifest_index, before>>
vars    == <<tcVars, runVars, g_suit_report, pc, called, suit_ok, reported, message>>

Reports == [manifest : Digests, ok : BOOLEAN] \cup {NoReport}

Message(type, err_code, report) ==
  [type |-> type, err_code |-> err_code, suit_report |-> report]

NoMessage  == Message("NONE", "NONE", NoReport)
NoUpdate   == [token |-> FALSE, manifest_list |-> <<>>]
ActiveSet  == {records[i] : i \in TC!Active}
manifest   == update.manifest_list[manifest_index]
Memory     == IF "memory" \in Faults THEN BOOLEAN ELSE {TRUE}

(* create_error: only a failed manifest carries a report.                  *)
Fail(err_code, report) ==
  /\ message' = Message("ERROR", err_code,
                        IF err_code = "MANIFEST_PROCESSING_FAILED" THEN report ELSE NoReport)
  /\ pc' = "replied"

-----------------------------------------------------------------------------
(* The call.  (Mutant: a list of any length but 0.)                        *)
HasManifests(u) == u.token /\ u.manifest_list # <<>>

Acceptable(u) == u.token /\ Len(u.manifest_list) \in 1 .. MaxManifests

Begin(u) ==
  /\ pc = "waiting"
  /\ update' = u
  /\ manifest_index' = 1
  /\ before' = ActiveSet
  /\ IF Acceptable(u)
     THEN pc' = "setup" /\ UNCHANGED message
     ELSE Fail("PERMANENT_ERROR", NoReport)
  /\ UNCHANGED <<tcVars, g_suit_report, called, suit_ok, reported>>

(* Contexts, keys, report engine and processor are made and the envelope   *)
(* is added.                                                               *)
SetUp ==
  /\ pc = "setup"
  /\ pc' = "processing"
  /\ called' = {}
  /\ reported' = FALSE
  /\ UNCHANGED <<tcVars, runVars, g_suit_report, suit_ok, message>>

(* One of them cannot be made, or the envelope is unusable or refused.     *)
SetUpFails ==
  /\ pc = "setup"
  /\ "setup" \in Faults
  /\ \E err_code \in {"TEMPORARY_ERROR", "PERMANENT_ERROR"} : Fail(err_code, NoReport)
  /\ UNCHANGED <<tcVars, runVars, g_suit_report, called, suit_ok, reported>>

-----------------------------------------------------------------------------
(* suit_process_envelope: the callbacks.  An error of one ends the         *)
(* processing of the envelope.                                             *)

Called(callback, ok) ==
  /\ pc = "processing"
  /\ callback \in CommandsOf[manifest] \ called
  /\ called' = called \cup {callback}
  /\ IF ok THEN pc' = "processing" /\ UNCHANGED suit_ok
           ELSE pc' = "reporting" /\ suit_ok' = FALSE
  /\ UNCHANGED <<runVars, g_suit_report, reported, message>>

StoreRefused ==
  \/ TC!StoreTableFull(manifest)
  \/ "memory" \in Faults /\ TC!StoreUndone(manifest)

store_callback_manifest ==
  /\ pc = "processing"
  /\ \/ \E mem \in Memory :
          TC!StoreManifest([manifest_digest          |-> manifest,
                            manifest_sequence_number |-> SeqOf[manifest],
                            dst                      |-> ManifestNameOf[manifest],
                            src_buf                  |-> TRUE], mem)
     \/ StoreRefused
  /\ Called("manifest", rc' = TC!OK)

store_callback_payload ==
  /\ pc = "processing"
  /\ \/ \E mem \in Memory,
           image \in IF "payload" \in Faults THEN Images ELSE {ImageOf[manifest]} :
          TC!StorePayload([manifest_digest |-> manifest,
                           dst             |-> WappOf[manifest],
                           src_buf         |-> image], mem, TRUE)
     \/ StoreRefused
  /\ Called("payload", rc' = TC!OK)

(* SUIT_CONDITION_IMAGE_MATCH against the stored record.  An image is its  *)
(* hash here, so the test of the size adds nothing to that of the hash.    *)
ImageMatches ==
  /\ TC!WithDigest(manifest) # {}
  /\ TC!find_by_digest(manifest).wapp_bin # NoImage
  /\ TC!find_by_digest(manifest).wapp_hash = ImageOf[manifest]

condition_callback ==
  /\ pc = "processing"
  /\ "payload" \in CommandsOf[manifest] => "payload" \in called
  /\ Called("match", ImageMatches)
  /\ UNCHANGED tcVars

(* libcsuit comes to the end of the manifest's commands.                   *)
EnvelopeDone ==
  /\ pc = "processing"
  /\ called = CommandsOf[manifest]
  /\ pc' = "reporting"
  /\ suit_ok' = TRUE
  /\ UNCHANGED <<tcVars, runVars, g_suit_report, called, reported, message>>

(* libcsuit stops with an error of its own.                                *)
EnvelopeFails ==
  /\ pc = "processing"
  /\ "envelope" \in Faults
  /\ pc' = "reporting"
  /\ suit_ok' = FALSE
  /\ UNCHANGED <<tcVars, runVars, g_suit_report, called, reported, message>>

-----------------------------------------------------------------------------
(* The report callback, then what suit_process_envelope returned.          *)

(* Mutant: a report is kept until it has been sent.                        *)
OldReport(ok) ==
  IF g_suit_report # NoReport THEN g_suit_report ELSE [manifest |-> manifest, ok |-> ok]

NewReport(ok) == [manifest |-> manifest, ok |-> ok]

EndOfEnvelope(ok) ==
  IF ok
  THEN pc' = "finalise" /\ UNCHANGED message
  ELSE \E fits \in BOOLEAN :
         Fail("MANIFEST_PROCESSING_FAILED", IF fits THEN g_suit_report' ELSE NoReport)

(* An empty report leaves the previous one in place; a report there is no  *)
(* memory for drops it and fails the envelope.                             *)
report_callback ==
  /\ pc = "reporting"
  /\ \/ /\ g_suit_report' = NewReport(suit_ok)
        /\ reported' = TRUE
        /\ EndOfEnvelope(suit_ok)
     \/ /\ UNCHANGED <<g_suit_report, reported>>
        /\ EndOfEnvelope(suit_ok)
     \/ /\ "memory" \in Faults
        /\ g_suit_report' = NoReport
        /\ UNCHANGED reported
        /\ EndOfEnvelope(FALSE)
  /\ UNCHANGED <<tcVars, runVars, called, suit_ok>>

(* tc_manager_check_and_update_record, and the next manifest or the        *)
(* Success message.  (Mutant: the index stays.)                            *)
SameManifest == manifest_index

NextManifest == manifest_index + 1

Finalise ==
  /\ pc = "finalise"
  /\ TC!CheckAndUpdate(manifest)
  /\ IF rc' = TC!ERROR
     THEN Fail("TEMPORARY_ERROR", NoReport) /\ UNCHANGED manifest_index
     ELSE IF manifest_index < Len(update.manifest_list)
     THEN /\ manifest_index' = NextManifest
          /\ pc' = "setup"
          /\ UNCHANGED message
     ELSE /\ message' = Message("SUCCESS", "NONE", g_suit_report)
          /\ pc' = "replied"
          /\ UNCHANGED manifest_index
  /\ UNCHANGED <<update, before, g_suit_report, called, suit_ok, reported>>

(* The caller has the message.                                             *)
Return ==
  /\ pc = "replied"
  /\ pc' = "waiting"
  /\ message' = NoMessage
  /\ update' = NoUpdate
  /\ manifest_index' = 1
  /\ called' = {}
  /\ suit_ok' = FALSE
  /\ reported' = FALSE
  /\ before' = {}
  /\ rc' = TC!OK
  /\ UNCHANGED <<records, record_len, g_suit_report>>

-----------------------------------------------------------------------------
Init ==
  /\ TC!Init
  /\ g_suit_report = NoReport
  /\ pc = "waiting"
  /\ update = NoUpdate
  /\ manifest_index = 1
  /\ called = {}
  /\ suit_ok = FALSE
  /\ reported = FALSE
  /\ message = NoMessage
  /\ before = {}

(* One step of a call under way.                                           *)
Step ==
  \/ SetUp
  \/ SetUpFails
  \/ store_callback_manifest
  \/ store_callback_payload
  \/ condition_callback
  \/ EnvelopeDone
  \/ EnvelopeFails
  \/ report_callback
  \/ Finalise

Next ==
  \/ \E u \in Updates : Begin(u)
  \/ Step
  \/ Return

(* The enclave's only thread runs the call to its end.                     *)
Spec == Init /\ [][Next]_vars /\ WF_vars(Step) /\ WF_vars(Return)

-----------------------------------------------------------------------------
(* What the rest of the enclave sees of an Update: while it runs, the      *)
(* table as it was at the call, and no answer.                             *)
Seen   == IF pc \in {"waiting", "replied"} THEN ActiveSet ELSE before
Answer == CASE pc = "waiting" -> "IDLE"
            [] pc = "replied" -> message.err_code
            [] OTHER          -> "PENDING"

Service == INSTANCE UpdateService WITH installed <- Seen, answer <- Answer

-----------------------------------------------------------------------------
(* Properties.                                                             *)

TypeOK ==
  /\ TC!TypeOK
  /\ g_suit_report \in Reports
  /\ pc \in {"waiting", "setup", "processing", "reporting", "finalise", "replied"}
  /\ update \in Updates \cup {NoUpdate}
  /\ manifest_index \in 1 .. MaxManifests
  /\ called \subseteq {"manifest", "payload", "match"}
  /\ suit_ok \in BOOLEAN
  /\ reported \in BOOLEAN
  /\ message.type \in {"NONE", "SUCCESS", "ERROR"}
  /\ message.suit_report \in Reports
  /\ before \subseteq Record

Sent      == {update.manifest_list[k] : k \in 1 .. Len(update.manifest_list)}
Succeeded == pc = "replied" /\ message.type = "SUCCESS"
Failed    == pc = "replied" /\ message.type = "ERROR"

(* An Update, successful or not, leaves the records of other manifests and *)
(* other applications exactly as they were, and brings in no record but of *)
(* its own manifests: the swaps and deletions on the way hit no bystander. *)
BystandersKept ==
  pc = "replied" =>
    /\ \A r \in before :
         \/ r \in ActiveSet
         \/ r.manifest_digest \in Sent
         \/ r.wapp_name \in {WappOf[d] : d \in Sent}
    /\ \A r \in ActiveSet \ before : r.manifest_digest \in Sent

(* A Success is the truth about sequence numbers: for every manifest sent, *)
(* the table has a record of its application that is at least as new.      *)
SuccessNotOlder ==
  Succeeded =>
    \A d \in Sent : \E r \in ActiveSet :
      r.wapp_name = WappOf[d] /\ r.manifest_sequence_number >= SeqOf[d]

(* ... and about content: a record of a sent manifest that is there is     *)
(* complete and, where the manifest asks for the image match, holds the    *)
(* image it asks for, whatever earlier failures left in the slot.          *)
SuccessVerified ==
  Succeeded =>
    \A r \in ActiveSet : r.manifest_digest \in Sent =>
      /\ IsComplete(r)
      /\ "match" \in CommandsOf[r.manifest_digest] => r.wapp_bin = ImageOf[r.manifest_digest]

(* The SUIT report in a response is the one libcsuit delivered for the     *)
(* last manifest processed, with the outcome the response has, whenever    *)
(* libcsuit delivered one for it.                                          *)
ReportOfLastManifest ==
  pc = "replied" /\ reported /\ message.suit_report # NoReport =>
    message.suit_report = [manifest |-> manifest, ok |-> Succeeded]

(* "the target app becomes executable in the Enclave" on Success           *)
(* (doc/InternalDesignDocument.md): looking the application up by name, as *)
(* the Wasm runtime does, finds a complete record as new as what was sent. *)
Executable(d) ==
  LET n == WappOf[d] IN
  /\ TC!WithWappName(n) # {}
  /\ IsComplete(TC!find_by_wapp_name(n))
  /\ TC!find_by_wapp_name(n).manifest_sequence_number >= SeqOf[d]

SuccessExecutable == Succeeded => \A d \in Sent : Executable(d)

(* It does, when the Update finds no unfinished and no doubled record in   *)
(* the table, whatever fails on the way and whichever of its manifests are *)
(* older than what is installed.                                           *)
ExecutableFromClean ==
  Service!CleanTable(before) /\ Succeeded => \A d \in Sent : Executable(d)

(* The Update as one step: seen between calls, and whatever failed inside, *)
(* it refuses without effect or moves the table by the Effect of           *)
(* UpdateService.  Among them: no finished application is lost or replaced *)
(* by an older one, even by an Update that fails; and only an Error        *)
(* MANIFEST_PROCESSING_FAILED leaves unfinished or doubled records behind  *)
(* ("one latest record per wapp_name", doc/tc-manager.md).                 *)
ImplementsUpdateService == Service!Spec
=============================================================================
