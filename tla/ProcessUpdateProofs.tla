------------------------- MODULE ProcessUpdateProofs ------------------------
(***************************************************************************)
(* Theorems about ProcessUpdate: whatever an Update holds, whatever fails  *)
(* while it runs and however large the table is, the properties the runs   *)
(* check hold, and process_update implements UpdateService.                *)
(*                                                                         *)
(* An Update is many steps, and the table passes through states in which   *)
(* none of the promises holds: a record without payload, two records of    *)
(* one name.  The invariant IInv says what is true on the way.  It speaks  *)
(* of the table as the set of its records; what the swaps and deletions of *)
(* tc_manager.cpp do to that set is proved in TcManagerProofs, of which    *)
(* this module uses the lemmas through TP.                                 *)
(***************************************************************************)
EXTENDS ProcessUpdate, TLAPS

TP == INSTANCE TcManagerProofs WITH ManifestArgs <- ManifestStore,
                                    PayloadArgs <- PayloadStore,
                                    ShaOutcomes <- {TRUE}

USE DEF UpdateParameters

-----------------------------------------------------------------------------
(* The invariant.                                                          *)

Running == {"setup", "processing", "reporting", "finalise"}

(* The manifests of the Update whose records are final.                    *)
Done == {update.manifest_list[j] : j \in 1 .. manifest_index - 1}

(* The manifest installs an application: it leads to both stores.          *)
Full(d) == {"manifest", "payload"} \subseteq CommandsOf[d]

(* What a record holds is what the manifest of its digest put there, as    *)
(* far as that got; only the payload may be another one.                   *)
Genuine(r) ==
  /\ r.manifest_digest \in Digests
  /\ r.wapp_name # NoName =>
       r.wapp_name = WappOf[r.manifest_digest] /\ "payload" \in CommandsOf[r.manifest_digest]
  /\ \/ r.manifest_sequence_number = 0 /\ r.manifest_name = NoName
     \/ /\ r.manifest_sequence_number = SeqOf[r.manifest_digest]
        /\ "manifest" \in CommandsOf[r.manifest_digest]
  /\ r.wapp_bin # NoImage => r.wapp_hash = r.wapp_bin

Verified(r) ==
  /\ IsComplete(r)
  /\ "match" \in CommandsOf[r.manifest_digest] => r.wapp_bin = ImageOf[r.manifest_digest]

Control ==
  /\ g_suit_report \in Reports
  /\ pc \in {"waiting", "replied"} \cup Running
  /\ update \in Updates \cup {NoUpdate}
  /\ manifest_index \in 1 .. MaxManifests
  /\ called \subseteq {"manifest", "payload", "match"}
  /\ suit_ok \in BOOLEAN
  /\ reported \in BOOLEAN
  /\ before \subseteq Record
  /\ pc # "waiting" => update \in Updates
  /\ pc \in Running =>
       Acceptable(update) /\ manifest_index \in 1 .. Len(update.manifest_list)
  /\ pc # "replied" => message = NoMessage
  /\ pc = "replied" =>
       \/ /\ message.type = "SUCCESS"
          /\ message.err_code = "NONE"
          /\ message.suit_report \in Reports
       \/ /\ message.type = "ERROR"
          /\ message.err_code \in Service!Errors
          /\ message.suit_report \in Reports

AllGenuine == \A r \in ActiveSet : Genuine(r)

Touched == pc # "waiting" => Service!TouchesOnlySent(before, ActiveSet, update)

(* For every application that was finished at the call there is a record   *)
(* as new, of a manifest that makes it complete again should it be the one *)
(* that is being overwritten.                                              *)
Kept ==
  pc # "waiting" =>
    \A r \in before : IsComplete(r) =>
      \E s \in ActiveSet :
        /\ s.wapp_name = r.wapp_name
        /\ s.manifest_sequence_number >= r.manifest_sequence_number
        /\ Full(s.manifest_digest)

(* What the callbacks of the current manifest have left in its record.     *)
Stored ==
  pc \in {"processing", "finalise"} \/ (pc = "reporting" /\ suit_ok) =>
    /\ "manifest" \in called =>
         \E r \in ActiveSet :
           r.manifest_digest = manifest /\ r.manifest_name # NoName /\ r.manifest_bin
    /\ "payload" \in called =>
         \E r \in ActiveSet :
           r.manifest_digest = manifest /\ r.wapp_name # NoName /\ r.wapp_bin # NoImage
    /\ "match" \in called =>
         /\ "payload" \in CommandsOf[manifest] => "payload" \in called
         /\ \E r \in ActiveSet :
              r.manifest_digest = manifest /\ r.wapp_bin = ImageOf[manifest]

AllCalled ==
  pc = "finalise" \/ (pc = "reporting" /\ suit_ok) => called = CommandsOf[manifest]

Fulfils(e) ==
  \E r \in ActiveSet :
    r.wapp_name = WappOf[e] /\ r.manifest_sequence_number >= SeqOf[e]

DoneNotOlder == pc \in Running => \A e \in Done : Fulfils(e)

DoneVerified ==
  pc \in Running =>
    \A r \in ActiveSet :
      /\ r.manifest_digest \in Done
      /\ pc = "setup" \/ r.manifest_digest # manifest
      => Verified(r)

(* A table that was clean is clean but for the record being worked on.     *)
CleanButCurrent ==
  pc \in Running /\ Service!CleanTable(before) =>
    Service!CleanTable(IF pc = "setup" THEN ActiveSet
                       ELSE {r \in ActiveSet : r.manifest_digest # manifest})

ReportIsFresh ==
  /\ pc \in {"processing", "reporting"} => ~ reported
  /\ pc = "finalise" /\ reported => g_suit_report = [manifest |-> manifest, ok |-> TRUE]

Replied ==
  pc = "replied" =>
    /\ message.err_code = "NONE" => Service!Fulfilled(ActiveSet, update)
    /\ Service!CleanTable(before) /\ message.err_code # "MANIFEST_PROCESSING_FAILED" =>
         Service!CleanTable(ActiveSet)
    /\ reported /\ message.suit_report # NoReport =>
         message.suit_report = [manifest |-> manifest, ok |-> message.type = "SUCCESS"]

IInv ==
  /\ TP!IInv
  /\ Control
  /\ AllGenuine
  /\ Touched
  /\ Kept
  /\ Stored
  /\ AllCalled
  /\ DoneNotOlder
  /\ DoneVerified
  /\ CleanButCurrent
  /\ ReportIsFresh
  /\ Replied

-----------------------------------------------------------------------------
(* TC and TP are the same ledger.                                          *)

LEMMA TableAssumption == TP!TcManagerAssumption
BY ProcessUpdateAssumption
   DEF TP!TcManagerAssumption, TP!ManifestStore, TP!PayloadStore, ManifestStore, PayloadStore

LEMMA SameRecords ==
  /\ ActiveSet = TP!RecordSet(records, record_len)
  /\ TC!Active = TP!Active
  /\ Record = TP!Record /\ BlankRecord = TP!BlankRecord
  /\ \A r : IsComplete(r) = TP!IsComplete(r)
  /\ TC!OK = 0 /\ TP!OK = 0 /\ TC!ERROR = 1 /\ TP!ERROR = 1
BY DEF ActiveSet, TP!RecordSet, TC!Active, TP!Active, Record, TP!Record, BlankRecord,
       TP!BlankRecord, IsComplete, TP!IsComplete, TC!OK, TP!OK, TC!ERROR, TP!ERROR

LEMMA CleanTableMeans ==
  ASSUME NEW S
  PROVE  Service!CleanTable(S) <=> /\ \A r \in S : IsComplete(r)
                                   /\ \A r, s \in S : r.wapp_name = s.wapp_name => r = s
<1>1. \A r : Service!IsComplete(r) = IsComplete(r)
  BY DEF Service!IsComplete, IsComplete
<1> QED
  BY <1>1 DEF Service!CleanTable

LEMMA SameLookups ==
  /\ \A d : TC!WithDigest(d) = TP!WithDigest(d)
  /\ \A d : TC!WithDigest(d) = {i \in 0 .. record_len - 1 :
                                  d # NoDigest /\ records[i].manifest_digest = d}
  /\ \A d : TC!find_by_digest(d) = TP!find_by_digest(d)
  /\ \A d : TC!TargetSlot(d) = TP!TargetSlot(d)
  /\ \A i : TC!Duplicates(i) = TP!Duplicates(i)
  /\ \A S : TC!Min(S) = TP!Min(S)
<1>1. \A S : TC!Min(S) = TP!Min(S)
  BY DEF TC!Min, TP!Min
<1>2. \A d : TC!WithDigest(d) = TP!WithDigest(d)
  BY SameRecords DEF TC!WithDigest, TP!WithDigest
<1>3. \A i : TC!Duplicates(i) = TP!Duplicates(i)
  BY SameRecords DEF TC!Duplicates, TP!Duplicates
<1>4. \A d : TC!WithDigest(d) = {i \in 0 .. record_len - 1 :
                                   d # NoDigest /\ records[i].manifest_digest = d}
  BY DEF TC!WithDigest, TC!Active
<1> QED
  BY <1>1, <1>2, <1>3, <1>4
     DEF TC!find_by_digest, TP!find_by_digest, TC!TargetSlot, TP!TargetSlot

LEMMA SameStores ==
  ASSUME NEW a, NEW mem, NEW sha, NEW d
  PROVE  /\ TC!StoreManifest(a, mem) => TP!StoreManifest(a, mem)
         /\ TC!StorePayload(a, mem, sha) => TP!StorePayload(a, mem, sha)
         /\ TC!StoreTableFull(d) => TP!StoreTableFull(d)
         /\ TC!StoreUndone(d) => TP!StoreUndone(d)
<1>1. \A r : TC!StoredManifest(r, a, mem) = TP!StoredManifest(r, a, mem)
  BY Zenon DEF TC!StoredManifest, TP!StoredManifest, TC!set_ids_from_component_id,
               TP!set_ids_from_component_id
<1>2. \A r : TC!StoredPayload(r, a, mem, sha) = TP!StoredPayload(r, a, mem, sha)
  BY Zenon DEF TC!StoredPayload, TP!StoredPayload, TC!set_ids_from_component_id,
               TP!set_ids_from_component_id
<1>3. \A i, r : TC!Put(i, r) => TP!Put(i, r)
  BY DEF TC!Put, TP!Put
<1>4. TC!StoreManifest(a, mem) => TP!StoreManifest(a, mem)
  BY <1>1, <1>3, SameLookups, SameRecords, Zenon
     DEF TC!StoreManifest, TP!StoreManifest, TC!CanStore, TP!CanStore
<1>5. TC!StorePayload(a, mem, sha) => TP!StorePayload(a, mem, sha)
  BY <1>2, <1>3, SameLookups, SameRecords, Zenon
     DEF TC!StorePayload, TP!StorePayload, TC!CanStore, TP!CanStore
<1>6. TC!StoreTableFull(d) => TP!StoreTableFull(d)
  BY SameLookups, SameRecords DEF TC!StoreTableFull, TP!StoreTableFull
<1>7. TC!StoreUndone(d) => TP!StoreUndone(d)
  <2>1. \A recs, len, i : TC!remove_at(recs, len, i) = TP!remove_at(recs, len, i)
    BY SameRecords DEF TC!remove_at, TP!remove_at, TC!BlankRecord, TP!BlankRecord
  <2> QED
    BY <2>1, SameLookups, SameRecords DEF TC!StoreUndone, TP!StoreUndone
<1> QED
  BY <1>4, <1>5, <1>6, <1>7

LEMMA SameFinalisation ==
  ASSUME NEW d, TC!CheckAndUpdate(d)
  PROVE  TP!CheckAndUpdate(d)
<1>1. \A r : TC!IsComplete(r) = TP!IsComplete(r)
  BY DEF TC!IsComplete, TP!IsComplete
<1>2. \A recs, len, i : TC!remove_at(recs, len, i) = TP!remove_at(recs, len, i)
  BY DEF TC!remove_at, TP!remove_at, TC!BlankRecord, TP!BlankRecord
<1>3. \A recs, i, j : TC!swapped(recs, i, j) = TP!swapped(recs, i, j)
  BY DEF TC!swapped, TP!swapped
<1>4. \A i : TC!update_or_discard(i) = TP!update_or_discard(i)
  BY <1>2, <1>3, SameLookups DEF TC!update_or_discard, TP!update_or_discard
<1> QED
  BY <1>1, <1>2, <1>4, SameLookups, SameRecords
     DEF TC!CheckAndUpdate, TP!CheckAndUpdate, TC!CheckNotFound, TP!CheckNotFound,
         TC!CheckIncomplete, TP!CheckIncomplete, TC!CheckComplete, TP!CheckComplete

-----------------------------------------------------------------------------
(* The records of the table, and the manifest being processed.             *)

LEMMA RecordsAreKeyed ==
  ASSUME TP!IInv
  PROVE  /\ \A r \in ActiveSet : r \in Record /\ r.manifest_digest \in Digests
         /\ \A r \in ActiveSet : r.manifest_sequence_number \in Nat
         /\ \A r, s \in ActiveSet : r.manifest_digest = s.manifest_digest => r = s
<1>1. TP!Table(records, record_len)
  BY DEF TP!IInv
<1>2. /\ \A r \in ActiveSet : r \in Record /\ r.manifest_digest \in Digests
      /\ \A r, s \in ActiveSet : r.manifest_digest = s.manifest_digest => r = s
  BY <1>1, TableAssumption, RecordAssumption, TP!RecordSetKeyed, SameRecords
<1> QED
  BY <1>2, RecordAssumption DEF Record

LEMMA ManifestTyped ==
  ASSUME NEW d \in Digests
  PROVE  /\ SeqOf[d] \in Seqs /\ SeqOf[d] \in Nat
         /\ ManifestNameOf[d] \in Names
         /\ WappOf[d] \in Names /\ WappOf[d] # NoName
         /\ ImageOf[d] \in Images
<1>1. /\ SeqOf \in [Digests -> Seqs]
      /\ ManifestNameOf \in [Digests -> Names]
      /\ WappOf \in [Digests -> Names]
      /\ ImageOf \in [Digests -> Images]
  BY ProcessUpdateAssumption
<1>2. Seqs \subseteq Nat /\ NoName \notin Names
  BY RecordAssumption
<1> QED
  BY <1>1, <1>2

LEMMA CurrentManifest ==
  ASSUME Control, pc \in Running
  PROVE  /\ manifest \in Digests
         /\ manifest \in Service!Sent(update)
         /\ SeqOf[manifest] \in Seqs /\ SeqOf[manifest] \in Nat
         /\ ManifestNameOf[manifest] \in Names
         /\ WappOf[manifest] \in Names
         /\ ImageOf[manifest] \in Images
         /\ update.manifest_list \in Seq(Digests)
<1>1. /\ update \in [token : BOOLEAN, manifest_list : Seq(Digests)]
      /\ manifest_index \in 1 .. Len(update.manifest_list)
  BY ProcessUpdateAssumption DEF Control, Running
<1>2. update.manifest_list \in Seq(Digests)
  BY <1>1
<1>3. manifest \in Digests
  BY <1>1, <1>2 DEF manifest
<1>4. manifest \in Service!Sent(update)
  BY <1>1 DEF manifest, Service!Sent
<1> QED
  BY <1>2, <1>3, <1>4, ProcessUpdateAssumption, RecordAssumption

-----------------------------------------------------------------------------
(* The store callbacks: one record is made of what was there for the       *)
(* manifest.                                                               *)

Rewrites(old, r) ==
  /\ TP!FoundAs(ActiveSet, manifest, old)
  /\ ActiveSet' = (ActiveSet \ TP!OfDigest(ActiveSet, manifest)) \cup {r}
  /\ r.manifest_digest = manifest
  /\ Genuine(r)
  /\ r.manifest_sequence_number \in Nat
  /\ r.manifest_sequence_number >= old.manifest_sequence_number
  /\ old.wapp_name # NoName => r.wapp_name = old.wapp_name

LEMMA FoundIsGenuine ==
  ASSUME IInv, pc \in Running, NEW old, TP!FoundAs(ActiveSet, manifest, old)
  PROVE  /\ old \in Record /\ old.manifest_sequence_number \in Nat
         /\ old.wapp_name # NoName =>
              old.wapp_name = WappOf[manifest] /\ "payload" \in CommandsOf[manifest]
         /\ \/ old.manifest_sequence_number = 0 /\ old.manifest_name = NoName
            \/ /\ old.manifest_sequence_number = SeqOf[manifest]
               /\ "manifest" \in CommandsOf[manifest]
         /\ old.wapp_bin # NoImage => old.wapp_hash = old.wapp_bin
<1>1. old \in Record
  BY SameRecords DEF TP!FoundAs
<1>2. CASE old \in ActiveSet /\ old.manifest_digest = manifest
  BY <1>1, <1>2, RecordAssumption DEF IInv, AllGenuine, Genuine, Record
<1>3. CASE old = TP!BlankRecord
  BY <1>1, <1>3, RecordAssumption, SameRecords DEF BlankRecord, Record
<1> QED
  BY <1>2, <1>3 DEF TP!FoundAs

LEMMA StoreRefusedStep ==
  ASSUME IInv, StoreRefused
  PROVE  TP!IInv' /\ ActiveSet' = ActiveSet /\ rc' # TC!OK
<1>1. TP!StoreTableFull(manifest) \/ TP!StoreUndone(manifest)
  BY SameStores DEF StoreRefused
<1>2. UNCHANGED <<records, record_len>> /\ rc' = TP!ERROR
  BY <1>1, TableAssumption, RecordAssumption, TP!StoreUndoneChangesNothing
     DEF IInv, TP!StoreTableFull, TP!StoreUndone
<1> QED
  BY <1>2, SameRecords DEF IInv, TP!IInv, ActiveSet, TC!Active

LEMMA ManifestCallback ==
  ASSUME IInv, store_callback_manifest
  PROVE  /\ TP!IInv'
         /\ \/ ActiveSet' = ActiveSet /\ rc' # TC!OK
            \/ \E old, r :
                 /\ Rewrites(old, r)
                 /\ r.manifest_name # NoName
                 /\ rc' = TC!OK => r.manifest_bin
                 /\ r.wapp_name = old.wapp_name
                 /\ r.wapp_bin = old.wapp_bin
<1>1. pc = "processing" /\ pc \in Running /\ "manifest" \in CommandsOf[manifest]
  BY DEF store_callback_manifest, Called, Running
<1>2. CASE StoreRefused
  BY <1>2, StoreRefusedStep
<1>3. ASSUME NEW mem \in Memory,
             TC!StoreManifest([manifest_digest          |-> manifest,
                               manifest_sequence_number |-> SeqOf[manifest],
                               dst                      |-> ManifestNameOf[manifest],
                               src_buf                  |-> TRUE], mem)
      PROVE  /\ TP!IInv'
             /\ \E old, r :
                  /\ Rewrites(old, r)
                  /\ r.manifest_name # NoName
                  /\ rc' = TC!OK => r.manifest_bin
                  /\ r.wapp_name = old.wapp_name
                  /\ r.wapp_bin = old.wapp_bin
  <2> DEFINE a == [manifest_digest          |-> manifest,
                   manifest_sequence_number |-> SeqOf[manifest],
                   dst                      |-> ManifestNameOf[manifest],
                   src_buf                  |-> TRUE]
  <2>1. /\ manifest \in Digests
        /\ SeqOf[manifest] \in Seqs /\ SeqOf[manifest] \in Nat
        /\ ManifestNameOf[manifest] \in Names
    BY <1>1, CurrentManifest DEF IInv
  <2>2. a \in TP!ManifestStore /\ a \in ManifestStore
    BY <2>1 DEF TP!ManifestStore, ManifestStore
  <2>3. mem \in BOOLEAN
    BY DEF Memory
  <2>4. TP!StoreManifest(a, mem)
    BY <1>3, SameStores
  <2>5. /\ a.manifest_digest = manifest
        /\ a.manifest_sequence_number = SeqOf[manifest]
        /\ a.dst = ManifestNameOf[manifest]
        /\ a.src_buf = TRUE
    OBVIOUS
  <2> HIDE DEF a
  <2>6. TP!IInv'
    BY <2>2, <2>3, <2>4, TableAssumption, RecordAssumption, TP!StoreAManifestIInv DEF IInv, TP!StoreAManifest
  <2>7. PICK old : /\ TP!FoundAs(ActiveSet, manifest, old)
                   /\ TP!RecordSet(records', record_len') =
                        (ActiveSet \ TP!OfDigest(ActiveSet, manifest))
                        \cup {TP!StoredManifest(old, a, mem)}
    BY <2>2, <2>3, <2>4, <2>5, TableAssumption, RecordAssumption, TP!StoreManifestRecords, SameRecords DEF IInv
  <2>8. rc' = TP!OK => mem
    BY <2>2, <2>3, <2>4, <2>5, TableAssumption, RecordAssumption, TP!StoreManifestRecords DEF IInv
  <2> DEFINE r == TP!StoredManifest(old, a, mem)
  <2>9. ActiveSet' = (ActiveSet \ TP!OfDigest(ActiveSet, manifest)) \cup {r}
    BY <2>7 DEF ActiveSet, TC!Active, TP!RecordSet
  <2>10. r = [old EXCEPT !.manifest_digest = manifest,
                         !.manifest_sequence_number = SeqOf[manifest],
                         !.manifest_name = ManifestNameOf[manifest],
                         !.manifest_bin = mem]
    <3>1. TP!set_ids_from_component_id(a.dst, old.manifest_name) = ManifestNameOf[manifest]
      BY <2>1, <2>5, RecordAssumption DEF TP!set_ids_from_component_id
    <3>2. (a.src_buf /\ mem) = mem
      BY <2>3, <2>5
    <3> QED
      BY <2>5, <3>1, <3>2, Zenon DEF TP!StoredManifest
  <2>11. /\ old \in Record /\ old.manifest_sequence_number \in Nat
         /\ old.wapp_name # NoName =>
              old.wapp_name = WappOf[manifest] /\ "payload" \in CommandsOf[manifest]
         /\ \/ old.manifest_sequence_number = 0 /\ old.manifest_name = NoName
            \/ /\ old.manifest_sequence_number = SeqOf[manifest]
               /\ "manifest" \in CommandsOf[manifest]
         /\ old.wapp_bin # NoImage => old.wapp_hash = old.wapp_bin
    BY <1>1, <2>7, FoundIsGenuine
  <2> HIDE DEF r
  <2>12. /\ r.manifest_digest = manifest
         /\ r.manifest_sequence_number = SeqOf[manifest]
         /\ r.manifest_name = ManifestNameOf[manifest]
         /\ r.manifest_bin = mem
         /\ r.wapp_name = old.wapp_name
         /\ r.wapp_bin = old.wapp_bin
         /\ r.wapp_hash = old.wapp_hash
    BY <2>10, <2>11 DEF Record
  <2>13. Genuine(r)
    BY <1>1, <2>1, <2>11, <2>12 DEF Genuine
  <2>14. Rewrites(old, r)
    BY <2>1, <2>7, <2>9, <2>11, <2>12, <2>13 DEF Rewrites
  <2>15. r.manifest_name # NoName
    BY <2>1, <2>12, RecordAssumption
  <2>16. rc' = TC!OK => r.manifest_bin
    BY <2>8, <2>12, SameRecords
  <2> QED
    BY <2>6, <2>12, <2>14, <2>15, <2>16
<1> QED
  BY <1>2, <1>3 DEF store_callback_manifest

LEMMA PayloadCallback ==
  ASSUME IInv, store_callback_payload
  PROVE  /\ TP!IInv'
         /\ \/ ActiveSet' = ActiveSet /\ rc' # TC!OK
            \/ \E old, r :
                 /\ Rewrites(old, r)
                 /\ r.wapp_name # NoName
                 /\ rc' = TC!OK => r.wapp_bin # NoImage
                 /\ r.manifest_name = old.manifest_name
                 /\ r.manifest_bin = old.manifest_bin
<1>1. pc = "processing" /\ pc \in Running /\ "payload" \in CommandsOf[manifest]
  BY DEF store_callback_payload, Called, Running
<1>2. /\ manifest \in Digests
      /\ WappOf[manifest] \in Names
      /\ ImageOf[manifest] \in Images
  BY <1>1, CurrentManifest DEF IInv
<1>3. CASE StoreRefused
  BY <1>3, StoreRefusedStep
<1>4. ASSUME NEW mem \in Memory, NEW image \in Images,
             TC!StorePayload([manifest_digest |-> manifest,
                              dst             |-> WappOf[manifest],
                              src_buf         |-> image], mem, TRUE)
      PROVE  /\ TP!IInv'
             /\ \E old, r :
                  /\ Rewrites(old, r)
                  /\ r.wapp_name # NoName
                  /\ rc' = TC!OK => r.wapp_bin # NoImage
                  /\ r.manifest_name = old.manifest_name
                  /\ r.manifest_bin = old.manifest_bin
  <2> DEFINE a == [manifest_digest |-> manifest,
                   dst             |-> WappOf[manifest],
                   src_buf         |-> image]
  <2>1. a \in TP!PayloadStore /\ a \in PayloadStore
    BY <1>2 DEF TP!PayloadStore, PayloadStore
  <2>2. mem \in BOOLEAN
    BY DEF Memory
  <2>3. TP!StorePayload(a, mem, TRUE)
    BY <1>4, SameStores
  <2>4. a.manifest_digest = manifest /\ a.dst = WappOf[manifest] /\ a.src_buf = image
    OBVIOUS
  <2> HIDE DEF a
  <2>5. TP!IInv'
    BY <2>1, <2>2, <2>3, TableAssumption, RecordAssumption, TP!StoreAPayloadIInv
       DEF IInv, TP!StoreAPayload
  <2>6. PICK old : /\ TP!FoundAs(ActiveSet, manifest, old)
                   /\ TP!RecordSet(records', record_len') =
                        (ActiveSet \ TP!OfDigest(ActiveSet, manifest))
                        \cup {TP!StoredPayload(old, a, mem, TRUE)}
    BY <2>1, <2>2, <2>3, <2>4, TableAssumption, RecordAssumption, TP!StorePayloadRecords,
       SameRecords
       DEF IInv
  <2>7. image # NoImage
    BY RecordAssumption
  <2>8. rc' = TP!OK => mem
    BY <2>1, <2>2, <2>3, <2>4, <2>7, TableAssumption, RecordAssumption,
       TP!StorePayloadRecords
       DEF IInv
  <2> DEFINE r == TP!StoredPayload(old, a, mem, TRUE)
             bin  == IF mem THEN image ELSE NoImage
             hash == IF mem THEN image ELSE old.wapp_hash
  <2>9. ActiveSet' = (ActiveSet \ TP!OfDigest(ActiveSet, manifest)) \cup {r}
    BY <2>6 DEF ActiveSet, TC!Active, TP!RecordSet
  <2>10. r = [old EXCEPT !.manifest_digest = manifest, !.wapp_name = WappOf[manifest],
                         !.wapp_bin = bin, !.wapp_hash = hash]
    <3>1. TP!set_ids_from_component_id(a.dst, old.wapp_name) = WappOf[manifest]
      BY <1>2, <2>4, RecordAssumption DEF TP!set_ids_from_component_id
    <3>2. (a.src_buf # NoImage /\ mem) = mem /\ ((a.src_buf # NoImage /\ mem) /\ TRUE) = mem
      BY <2>2, <2>4, <2>7
    <3> QED
      BY <2>4, <3>1, <3>2, Zenon DEF TP!StoredPayload
  <2>11. /\ old \in Record /\ old.manifest_sequence_number \in Nat
         /\ old.wapp_name # NoName =>
              old.wapp_name = WappOf[manifest] /\ "payload" \in CommandsOf[manifest]
         /\ \/ old.manifest_sequence_number = 0 /\ old.manifest_name = NoName
            \/ /\ old.manifest_sequence_number = SeqOf[manifest]
               /\ "manifest" \in CommandsOf[manifest]
         /\ old.wapp_bin # NoImage => old.wapp_hash = old.wapp_bin
    BY <1>1, <2>6, FoundIsGenuine
  <2> HIDE DEF r, bin, hash
  <2>12. /\ r.manifest_digest = manifest
         /\ r.manifest_sequence_number = old.manifest_sequence_number
         /\ r.manifest_name = old.manifest_name
         /\ r.manifest_bin = old.manifest_bin
         /\ r.wapp_name = WappOf[manifest]
         /\ r.wapp_bin = bin
         /\ r.wapp_hash = hash
    BY <2>10, <2>11 DEF Record
  <2>13. /\ bin # NoImage => hash = bin
         /\ mem => bin # NoImage
    BY <2>7 DEF bin, hash
  <2>14. Genuine(r)
    BY <1>1, <1>2, <2>11, <2>12, <2>13 DEF Genuine
  <2>15. Rewrites(old, r)
    BY <2>6, <2>9, <2>11, <2>12, <2>14 DEF Rewrites
  <2>16. r.wapp_name # NoName
    BY <1>2, <2>12, RecordAssumption
  <2>17. rc' = TC!OK => r.wapp_bin # NoImage
    BY <2>8, <2>12, <2>13, SameRecords
  <2> QED
    BY <2>5, <2>12, <2>15, <2>16, <2>17
<1>5. (IF "payload" \in Faults THEN Images ELSE {ImageOf[manifest]}) \subseteq Images
  BY <1>2
<1> QED
  BY <1>3, <1>4, <1>5 DEF store_callback_payload

-----------------------------------------------------------------------------
(* The image match, and the finalisation.                                  *)

LEMMA MatchFindsImage ==
  ASSUME IInv, pc \in Running, ImageMatches
  PROVE  \E r \in ActiveSet : r.manifest_digest = manifest /\ r.wapp_bin = ImageOf[manifest]
<1> DEFINE i == TP!Min(TP!WithDigest(manifest))
<1>1. /\ TP!WithDigest(manifest) # {}
      /\ records[i].wapp_bin # NoImage
      /\ records[i].wapp_hash = ImageOf[manifest]
  BY SameLookups DEF ImageMatches, TP!find_by_digest
<1>2. i \in TP!Active /\ records[i].manifest_digest = manifest
  BY <1>1, TableAssumption, RecordAssumption, TP!LookupByDigest DEF IInv, TP!IInv
<1> HIDE DEF i
<1>3. records[i] \in ActiveSet
  BY <1>2, SameRecords DEF ActiveSet
<1>4. records[i].wapp_bin = ImageOf[manifest]
  BY <1>1, <1>3 DEF IInv, AllGenuine, Genuine
<1> QED
  BY <1>2, <1>3, <1>4

LEMMA FinaliseStep ==
  ASSUME IInv, Finalise
  PROVE  /\ TP!IInv'
         /\ TP!FinaliseEffect(ActiveSet, ActiveSet', manifest, rc' = TC!OK)
<1>1. manifest \in Digests
  BY CurrentManifest DEF IInv, Finalise, Running
<1>2. TP!CheckAndUpdate(manifest)
  BY SameFinalisation DEF Finalise
<1>3. TP!IInv'
  BY <1>1, <1>2, TableAssumption, RecordAssumption, TP!FinaliseIInv DEF IInv, TP!Finalise
<1>4. manifest # NoDigest
  BY <1>1, RecordAssumption
<1>5. TP!FinaliseEffect(TP!RecordSet(records, record_len),
                        TP!RecordSet(records', record_len'), manifest, rc' = TP!OK)
  BY <1>2, <1>4, TableAssumption, RecordAssumption, TP!CheckRecords DEF IInv
<1>6. /\ ActiveSet = TP!RecordSet(records, record_len)
      /\ ActiveSet' = TP!RecordSet(records', record_len')
      /\ TC!OK = TP!OK
  BY SameRecords DEF ActiveSet, TC!Active, TP!RecordSet
<1> QED
  BY <1>3, <1>5, <1>6

-----------------------------------------------------------------------------
(* The parts of the invariant that speak of the table as a whole, kept by  *)
(* steps that leave it alone and by steps that rewrite one record.         *)

TableParts ==
  AllGenuine /\ Touched /\ Kept /\ DoneNotOlder /\ DoneVerified /\ CleanButCurrent

LEMMA SameRunVars ==
  ASSUME UNCHANGED runVars
  PROVE  /\ update' = update /\ manifest_index' = manifest_index /\ before' = before
         /\ manifest' = manifest /\ Done' = Done
BY DEF runVars, manifest, Done

LEMMA SameTableParts ==
  ASSUME IInv, pc \in Running, pc' \in Running \ {"setup"}, ActiveSet' = ActiveSet,
         UNCHANGED runVars
  PROVE  TableParts'
<1> USE SameRunVars
<1>1. AllGenuine'
  BY DEF IInv, AllGenuine
<1>2. Touched' /\ Kept'
  BY DEF IInv, Touched, Kept, Running
<1>3. DoneNotOlder'
  BY DEF IInv, DoneNotOlder, Fulfils
<1>4. DoneVerified'
  BY DEF IInv, DoneVerified
<1>5. CleanButCurrent'
  BY DEF IInv, CleanButCurrent, Service!CleanTable
<1> QED
  BY <1>1, <1>2, <1>3, <1>4, <1>5 DEF TableParts

LEMMA RewriteTableParts ==
  ASSUME IInv, pc = "processing", pc' \in {"processing", "reporting"}, UNCHANGED runVars,
         NEW old, NEW r, Rewrites(old, r)
  PROVE  TableParts'
<1> USE SameRunVars
<1>1. /\ pc \in Running /\ pc' \in Running
      /\ pc # "waiting" /\ pc # "setup" /\ pc' # "setup"
  BY DEF Running
<1>2. /\ \A s \in ActiveSet : s.manifest_digest # manifest => s \in ActiveSet'
      /\ r \in ActiveSet' /\ r.manifest_digest = manifest
      /\ \A s \in ActiveSet' : s = r \/ (s \in ActiveSet /\ s.manifest_digest # manifest)
  BY DEF Rewrites, TP!OfDigest
<1>3. \A s \in ActiveSet : s.manifest_digest = manifest =>
        /\ s = old
        /\ r.manifest_sequence_number >= s.manifest_sequence_number
        /\ s.wapp_name # NoName => r.wapp_name = s.wapp_name
  BY RecordsAreKeyed DEF Rewrites, TP!FoundAs, TP!OfDigest, IInv
<1>4. r.manifest_sequence_number \in Nat /\ Genuine(r)
  BY DEF Rewrites
<1>5. \A s \in ActiveSet : s.manifest_sequence_number \in Nat
  BY RecordsAreKeyed DEF IInv
<1>6. AllGenuine'
  BY <1>2, <1>4 DEF IInv, AllGenuine
<1>7. Touched'
  <2>1. Service!TouchesOnlySent(before, ActiveSet, update)
    BY <1>1 DEF IInv, Touched
  <2>2. manifest \in Service!Sent(update)
    BY <1>1, CurrentManifest DEF IInv
  <2>3. Service!TouchesOnlySent(before, ActiveSet', update)
    BY <1>2, <2>1, <2>2 DEF Service!TouchesOnlySent
  <2> QED
    BY <2>3 DEF Touched
(* The record that stands for x is the one rewritten, or still there.      *)
<1>8. ASSUME NEW name, name # NoName, NEW seq \in Nat, NEW s \in ActiveSet,
             s.wapp_name = name, s.manifest_sequence_number >= seq
      PROVE  \E t \in ActiveSet' : /\ t.wapp_name = name
                                   /\ t.manifest_sequence_number >= seq
                                   /\ t.manifest_digest = s.manifest_digest
  <2>1. CASE s.manifest_digest = manifest
    BY <1>2, <1>3, <1>4, <1>5, <1>8, <2>1
  <2>2. CASE s.manifest_digest # manifest
    BY <1>2, <1>8, <2>2
  <2> QED
    BY <2>1, <2>2
<1>9. Kept'
  <2> SUFFICES ASSUME NEW q \in before, IsComplete(q)
               PROVE  \E s \in ActiveSet' :
                        /\ s.wapp_name = q.wapp_name
                        /\ s.manifest_sequence_number >= q.manifest_sequence_number
                        /\ Full(s.manifest_digest)
    BY DEF Kept
  <2>1. PICK s \in ActiveSet : /\ s.wapp_name = q.wapp_name
                               /\ s.manifest_sequence_number >= q.manifest_sequence_number
                               /\ Full(s.manifest_digest)
    BY <1>1 DEF IInv, Kept
  <2>2. q.wapp_name # NoName /\ q.manifest_sequence_number \in Nat
    BY RecordAssumption DEF IsComplete, IInv, Control, Record
  <2> QED
    BY <1>8, <2>1, <2>2
<1>10. DoneNotOlder'
  <2> SUFFICES ASSUME NEW e \in Done PROVE Fulfils(e)'
    BY DEF DoneNotOlder
  <2>1. PICK s \in ActiveSet :
          s.wapp_name = WappOf[e] /\ s.manifest_sequence_number >= SeqOf[e]
    BY <1>1 DEF IInv, DoneNotOlder, Fulfils
  <2>2. e \in Digests
    <3>1. /\ update.manifest_list \in Seq(Digests)
          /\ manifest_index \in 1 .. Len(update.manifest_list)
      BY <1>1, CurrentManifest DEF IInv, Control
    <3> QED
      BY <3>1 DEF Done
  <2>3. WappOf[e] # NoName /\ SeqOf[e] \in Nat
    BY <2>2, ManifestTyped
  <2> QED
    BY <1>8, <2>1, <2>3 DEF Fulfils
<1>11. DoneVerified'
  BY <1>1, <1>2 DEF IInv, DoneVerified
<1>12. CleanButCurrent'
  <2>1. {s \in ActiveSet' : s.manifest_digest # manifest}
          = {s \in ActiveSet : s.manifest_digest # manifest}
    BY <1>2
  <2> QED
    BY <1>1, <2>1 DEF IInv, CleanButCurrent
<1> QED
  BY <1>6, <1>7, <1>9, <1>10, <1>11, <1>12 DEF TableParts

-----------------------------------------------------------------------------
(* What a finalisation does to the table, when every callback of the       *)
(* manifest has done its part.                                             *)

LEMMA CurrentRecordComplete ==
  ASSUME IInv, pc = "finalise", NEW r \in ActiveSet, r.manifest_digest = manifest
  PROVE  /\ Full(manifest) => IsComplete(r)
         /\ "match" \in CommandsOf[manifest] => r.wapp_bin = ImageOf[manifest]
<1>1. called = CommandsOf[manifest]
  BY DEF IInv, AllCalled
<1>2. \A s \in ActiveSet : s.manifest_digest = manifest => s = r
  BY RecordsAreKeyed DEF IInv
<1>3. /\ "manifest" \in called => r.manifest_name # NoName /\ r.manifest_bin
      /\ "payload" \in called => r.wapp_name # NoName /\ r.wapp_bin # NoImage
      /\ "match" \in called => r.wapp_bin = ImageOf[manifest]
  BY <1>2 DEF IInv, Stored
<1> QED
  BY <1>1, <1>3 DEF Full, IsComplete

LEMMA CompleteIsFull ==
  ASSUME NEW r, Genuine(r), IsComplete(r)
  PROVE  /\ Full(r.manifest_digest)
         /\ r.wapp_name = WappOf[r.manifest_digest]
         /\ r.manifest_sequence_number = SeqOf[r.manifest_digest]
BY DEF Genuine, IsComplete, Full

(* A record is dropped for one of its name that is at least as new, or is  *)
(* of a manifest that installs no application.                             *)
LEMMA FinaliseOutcome ==
  ASSUME IInv, Finalise
  PROVE  /\ ActiveSet' \subseteq ActiveSet
         /\ \A s \in ActiveSet :
              s \in ActiveSet' \/ s.manifest_digest = manifest \/ s.wapp_name = WappOf[manifest]
         /\ \A s \in ActiveSet : s.wapp_name # NoName /\ Full(s.manifest_digest) =>
              \E t \in ActiveSet' :
                /\ t.wapp_name = s.wapp_name
                /\ t.manifest_sequence_number >= s.manifest_sequence_number
                /\ Full(t.manifest_digest)
         /\ rc' = TC!OK =>
              /\ \A s \in ActiveSet : s.wapp_name # NoName =>
                   \E t \in ActiveSet' :
                     /\ t.wapp_name = s.wapp_name
                     /\ t.manifest_sequence_number >= s.manifest_sequence_number
              /\ \E r \in ActiveSet : r.manifest_digest = manifest /\ IsComplete(r)
         /\ Service!CleanTable({s \in ActiveSet : s.manifest_digest # manifest}) =>
              Service!CleanTable(ActiveSet')
<1> DEFINE S == ActiveSet
           T == ActiveSet'
           Rest == {s \in ActiveSet : s.manifest_digest # manifest}
<1>1. TP!FinaliseEffect(S, T, manifest, rc' = TC!OK)
  BY FinaliseStep
<1>2. pc = "finalise"
  BY DEF Finalise
<1>3. /\ \A s \in S : s.manifest_sequence_number \in Nat
      /\ \A s, t \in S : s.manifest_digest = t.manifest_digest => s = t
      /\ \A s \in S : Genuine(s)
  BY RecordsAreKeyed DEF IInv, AllGenuine
<1>4. \A s \in S : s.manifest_digest = manifest => (Full(manifest) => IsComplete(s))
  BY <1>2, CurrentRecordComplete
<1>5. \A s \in S : IsComplete(s) => Full(s.manifest_digest) /\ s.wapp_name = WappOf[s.manifest_digest]
  BY <1>3, CompleteIsFull
<1> HIDE DEF S, T, Rest
<1>6. Rest = {s \in S : s.manifest_digest # manifest}
  BY DEF Rest, S
<1> DEFINE Goal ==
      /\ T \subseteq S
      /\ \A s \in S : s \in T \/ s.manifest_digest = manifest \/ s.wapp_name = WappOf[manifest]
      /\ \A s \in S : s.wapp_name # NoName /\ Full(s.manifest_digest) =>
           \E t \in T : /\ t.wapp_name = s.wapp_name
                        /\ t.manifest_sequence_number >= s.manifest_sequence_number
                        /\ Full(t.manifest_digest)
      /\ rc' = TC!OK =>
           /\ \A s \in S : s.wapp_name # NoName =>
                \E t \in T : /\ t.wapp_name = s.wapp_name
                             /\ t.manifest_sequence_number >= s.manifest_sequence_number
           /\ \E r \in S : r.manifest_digest = manifest /\ IsComplete(r)
      /\ Service!CleanTable(Rest) => Service!CleanTable(T)
<1>7. ASSUME rc' # TC!OK, TP!OfDigest(S, manifest) = {}, T = S
      PROVE  Goal
  <2>1. Rest = T
    BY <1>6, <1>7 DEF TP!OfDigest
  <2>2. ASSUME NEW s \in S
        PROVE  \E t \in T : /\ t.wapp_name = s.wapp_name
                            /\ t.manifest_sequence_number >= s.manifest_sequence_number
                            /\ Full(s.manifest_digest) => Full(t.manifest_digest)
    BY <1>3, <1>7
  <2> QED
    BY <1>7, <2>1, <2>2
<1>8. ASSUME NEW r \in S, r.manifest_digest = manifest,
             rc' # TC!OK, ~ IsComplete(r), T = S \ {r}
      PROVE  Goal
  <2>1. Rest = T
    BY <1>3, <1>6, <1>8
  <2>2. ~ Full(r.manifest_digest)
    BY <1>4, <1>8
  <2>3. \A s \in S : s # r => s \in T
    BY <1>8
  <2> QED
    BY <1>3, <1>8, <2>1, <2>2, <2>3
<1>9. ASSUME NEW r \in S, r.manifest_digest = manifest, rc' = TC!OK, IsComplete(r),
             T = S, \A s \in S \ {r} : s.wapp_name # r.wapp_name
      PROVE  Goal
  <2>1. \A s \in S : s \in Rest \/ s = r
    BY <1>3, <1>6, <1>9
  <2>2. Service!CleanTable(Rest) => Service!CleanTable(T)
    BY <1>9, <2>1, CleanTableMeans
  <2> QED
    BY <1>3, <1>9, <2>2
<1>10. ASSUME NEW r \in S, r.manifest_digest = manifest, rc' = TC!OK, IsComplete(r),
              NEW o \in S \ {r}, o.wapp_name = r.wapp_name,
              o.manifest_sequence_number <= r.manifest_sequence_number,
              T = S \ {o}
       PROVE  Goal
  <2>1. \A s \in S : s \in Rest \/ s = r
    BY <1>3, <1>6, <1>10
  <2>2. o \in Rest
    BY <1>10, <2>1
  <2>3. Service!CleanTable(Rest) => Service!CleanTable(T)
    BY <1>10, <2>1, <2>2, CleanTableMeans
  <2>4. Full(r.manifest_digest) /\ r.wapp_name = WappOf[manifest]
    BY <1>5, <1>10
  <2>5. \A s \in S : \E t \in T :
          /\ t.wapp_name = s.wapp_name
          /\ t.manifest_sequence_number >= s.manifest_sequence_number
          /\ Full(s.manifest_digest) => Full(t.manifest_digest)
    <3> SUFFICES ASSUME NEW s \in S
                 PROVE  \E t \in T :
                          /\ t.wapp_name = s.wapp_name
                          /\ t.manifest_sequence_number >= s.manifest_sequence_number
                          /\ Full(s.manifest_digest) => Full(t.manifest_digest)
      OBVIOUS
    <3>1. CASE s = o
      BY <1>3, <1>10, <2>4, <3>1
    <3>2. CASE s # o
      BY <1>3, <1>10, <3>2
    <3> QED
      BY <3>1, <3>2
  <2> QED
    BY <1>10, <2>3, <2>4, <2>5
<1>11. ASSUME NEW r \in S, r.manifest_digest = manifest, rc' = TC!OK, IsComplete(r),
              NEW o \in S \ {r}, o.wapp_name = r.wapp_name,
              ~ (o.manifest_sequence_number <= r.manifest_sequence_number),
              T = S \ {r}
       PROVE  Goal
  <2>1. Rest = T
    BY <1>3, <1>6, <1>11
  <2>2. Full(o.manifest_digest)
    BY <1>3, <1>11 DEF Genuine, Full, IsComplete
  <2>3. \A s \in S : \E t \in T :
          /\ t.wapp_name = s.wapp_name
          /\ t.manifest_sequence_number >= s.manifest_sequence_number
          /\ Full(s.manifest_digest) => Full(t.manifest_digest)
    <3> SUFFICES ASSUME NEW s \in S
                 PROVE  \E t \in T :
                          /\ t.wapp_name = s.wapp_name
                          /\ t.manifest_sequence_number >= s.manifest_sequence_number
                          /\ Full(s.manifest_digest) => Full(t.manifest_digest)
      OBVIOUS
    <3>1. CASE s = r
      BY <1>3, <1>11, <2>2, <3>1
    <3>2. CASE s # r
      BY <1>3, <1>11, <3>2
    <3> QED
      BY <3>1, <3>2
  <2> QED
    BY <1>3, <1>11, <2>1, <2>3
<1>12. Goal
  <2>1. CASE rc' # TC!OK /\ TP!OfDigest(S, manifest) = {} /\ T = S
    BY <1>7, <2>1
  <2>2. CASE ~ (rc' # TC!OK /\ TP!OfDigest(S, manifest) = {} /\ T = S)
    <3>1. PICK r \in S :
            /\ r.manifest_digest = manifest
            /\ \/ rc' # TC!OK /\ ~ IsComplete(r) /\ T = S \ {r}
               \/ /\ rc' = TC!OK /\ IsComplete(r)
                  /\ \/ T = S /\ \A s \in S \ {r} : s.wapp_name # r.wapp_name
                     \/ \E o \in S \ {r} :
                          /\ o.wapp_name = r.wapp_name
                          /\ \/ /\ o.manifest_sequence_number <= r.manifest_sequence_number
                                /\ T = S \ {o}
                             \/ /\ ~(o.manifest_sequence_number
                                      <= r.manifest_sequence_number)
                                /\ T = S \ {r}
      BY <1>1, <2>2, SameRecords, Zenon DEF TP!FinaliseEffect
    <3> HIDE DEF Goal
    <3>2. CASE rc' # TC!OK /\ ~ IsComplete(r) /\ T = S \ {r}
      BY <1>8, <3>1, <3>2
    <3>3. CASE /\ rc' = TC!OK /\ IsComplete(r)
               /\ T = S /\ \A s \in S \ {r} : s.wapp_name # r.wapp_name
      BY <1>9, <3>1, <3>3
    <3>4. CASE /\ rc' = TC!OK /\ IsComplete(r)
               /\ \E o \in S \ {r} :
                    /\ o.wapp_name = r.wapp_name
                    /\ \/ /\ o.manifest_sequence_number <= r.manifest_sequence_number
                          /\ T = S \ {o}
                       \/ /\ ~(o.manifest_sequence_number <= r.manifest_sequence_number)
                          /\ T = S \ {r}
      BY <1>10, <1>11, <3>1, <3>4
    <3> QED
      BY <3>1, <3>2, <3>3, <3>4
  <2> QED
    BY <2>1, <2>2
<1> QED
  BY <1>12 DEF S, T, Rest

LEMMA FinaliseTableParts ==
  ASSUME IInv, Finalise
  PROVE  /\ AllGenuine' /\ Touched' /\ Kept'
         /\ rc' = TC!OK =>
              /\ \A e \in Done \cup {manifest} : Fulfils(e)'
              /\ \A r \in ActiveSet' :
                   r.manifest_digest \in Done \cup {manifest} => Verified(r)
         /\ Service!CleanTable(before) => Service!CleanTable(ActiveSet')
<1>1. pc = "finalise" /\ pc \in Running /\ pc # "waiting" /\ pc # "setup"
  BY DEF Finalise, Running
<1>2. update' = update /\ before' = before
  BY DEF Finalise
<1>3. AllGenuine'
  BY FinaliseOutcome DEF IInv, AllGenuine
<1>4. Touched'
  <2>1. Service!TouchesOnlySent(before, ActiveSet, update)
    BY <1>1 DEF IInv, Touched
  <2>2. manifest \in Service!Sent(update)
    BY <1>1, CurrentManifest DEF IInv
  <2>3. Service!TouchesOnlySent(before, ActiveSet', update)
    BY <2>1, <2>2, FinaliseOutcome DEF Service!TouchesOnlySent
  <2> QED
    BY <1>2, <2>3 DEF Touched
<1>5. \A s \in ActiveSet : s.manifest_sequence_number \in Nat
  BY RecordsAreKeyed DEF IInv
<1>6. \A s \in ActiveSet' : s.manifest_sequence_number \in Nat
  BY <1>5, FinaliseOutcome
<1>7. Kept'
  <2> SUFFICES ASSUME NEW q \in before, IsComplete(q)
               PROVE  \E s \in ActiveSet' :
                        /\ s.wapp_name = q.wapp_name
                        /\ s.manifest_sequence_number >= q.manifest_sequence_number
                        /\ Full(s.manifest_digest)
    BY <1>2 DEF Kept
  <2>1. PICK s \in ActiveSet : /\ s.wapp_name = q.wapp_name
                               /\ s.manifest_sequence_number >= q.manifest_sequence_number
                               /\ Full(s.manifest_digest)
    BY <1>1 DEF IInv, Kept
  <2>2. q.wapp_name # NoName /\ q.manifest_sequence_number \in Nat
    BY RecordAssumption DEF IsComplete, IInv, Control, Record
  <2>3. PICK t \in ActiveSet' : /\ t.wapp_name = s.wapp_name
                                /\ t.manifest_sequence_number >= s.manifest_sequence_number
                                /\ Full(t.manifest_digest)
    BY <2>1, <2>2, FinaliseOutcome
  <2> QED
    BY <1>5, <1>6, <2>1, <2>2, <2>3
<1>8. ASSUME rc' = TC!OK, NEW e \in Done \cup {manifest}
      PROVE  Fulfils(e)'
  <2>1. e \in Digests
    <3>1. /\ update.manifest_list \in Seq(Digests)
          /\ manifest_index \in 1 .. Len(update.manifest_list)
          /\ manifest \in Digests
      BY <1>1, CurrentManifest DEF IInv, Control
    <3> QED
      BY <3>1 DEF Done
  <2>2. WappOf[e] # NoName /\ SeqOf[e] \in Nat
    BY <2>1, ManifestTyped
  <2>3. PICK s \in ActiveSet :
          s.wapp_name = WappOf[e] /\ s.manifest_sequence_number >= SeqOf[e]
    <3>1. CASE e \in Done
      BY <1>1, <3>1 DEF IInv, DoneNotOlder, Fulfils
    <3>2. CASE e = manifest
      <4>1. PICK r \in ActiveSet : r.manifest_digest = manifest /\ IsComplete(r)
        BY <1>8, FinaliseOutcome
      <4>2. r.wapp_name = WappOf[manifest] /\ r.manifest_sequence_number = SeqOf[manifest]
        BY <4>1, CompleteIsFull DEF IInv, AllGenuine
      <4> QED
        BY <2>2, <3>2, <4>2
    <3> QED
      BY <3>1, <3>2
  <2>4. PICK t \in ActiveSet' : /\ t.wapp_name = s.wapp_name
                                /\ t.manifest_sequence_number >= s.manifest_sequence_number
    BY <1>8, <2>2, <2>3, FinaliseOutcome
  <2> QED
    BY <1>5, <1>6, <2>2, <2>3, <2>4 DEF Fulfils
<1>9. ASSUME rc' = TC!OK, NEW r \in ActiveSet', r.manifest_digest \in Done \cup {manifest}
      PROVE  Verified(r)
  <2>1. r \in ActiveSet
    BY FinaliseOutcome
  <2>2. CASE r.manifest_digest # manifest
    BY <1>1, <1>9, <2>1, <2>2 DEF IInv, DoneVerified
  <2>3. CASE r.manifest_digest = manifest
    <3>1. IsComplete(r)
      BY <1>9, <2>1, <2>3, FinaliseOutcome, RecordsAreKeyed DEF IInv
    <3> QED
      BY <1>1, <2>1, <2>3, <3>1, CurrentRecordComplete DEF Verified
  <2> QED
    BY <2>2, <2>3
<1>10. Service!CleanTable(before) => Service!CleanTable(ActiveSet')
  BY <1>1, FinaliseOutcome DEF IInv, CleanButCurrent
<1> QED
  BY <1>3, <1>4, <1>7, <1>8, <1>9, <1>10

-----------------------------------------------------------------------------
(* The invariant is inductive: one lemma per action.                       *)

LEMMA SameTable ==
  ASSUME TP!IInv, UNCHANGED <<records, record_len>>, rc' = rc \/ rc' = TC!OK
  PROVE  TP!IInv' /\ ActiveSet' = ActiveSet
BY SameRecords DEF TP!IInv, ActiveSet, TC!Active

LEMMA FailMeans ==
  ASSUME NEW err_code \in Service!Errors, NEW report \in Reports, Fail(err_code, report)
  PROVE  /\ pc' = "replied"
         /\ message'.type = "ERROR"
         /\ message'.err_code = err_code
         /\ message'.suit_report \in Reports
         /\ message'.suit_report \in {NoReport, report}
         /\ err_code # "MANIFEST_PROCESSING_FAILED" => message'.suit_report = NoReport
BY DEF Fail, Message, Reports, Service!Errors

LEMMA InitIInv == Init => IInv
<1> SUFFICES ASSUME Init PROVE IInv
  OBVIOUS
<1>1. TP!Init
  BY SameRecords DEF Init, TC!Init, TP!Init, TC!Slots, TP!Slots, TC!BlankRecord, TP!BlankRecord
<1>2. TP!IInv
  BY <1>1, TableAssumption, RecordAssumption, TP!InitIInv
<1>3. ActiveSet = {}
  BY DEF Init, TC!Init, ActiveSet, TC!Active
<1>4. Control
  <2>1. 1 \in 1 .. MaxManifests
    BY ProcessUpdateAssumption
  <2> QED
    BY <2>1 DEF Init, Control, Reports, Running
<1> QED
  BY <1>2, <1>3, <1>4
     DEF Init, IInv, AllGenuine, Touched, Kept, Stored, AllCalled, DoneNotOlder, DoneVerified,
         CleanButCurrent, ReportIsFresh, Replied, Running

LEMMA BeginIInv ==
  ASSUME IInv, NEW u \in Updates, Begin(u)
  PROVE  IInv'
<1>1. TP!IInv' /\ ActiveSet' = ActiveSet
  BY SameTable DEF Begin, tcVars, IInv
<1>2. /\ pc = "waiting" /\ update' = u /\ manifest_index' = 1 /\ before' = ActiveSet
      /\ UNCHANGED <<g_suit_report, called, suit_ok, reported>>
  BY DEF Begin
<1>3. /\ \A r \in ActiveSet : r \in Record /\ r.manifest_sequence_number \in Nat
      /\ \A r \in ActiveSet : Genuine(r)
  BY RecordsAreKeyed DEF IInv, AllGenuine
<1>4. \/ Acceptable(u) /\ pc' = "setup" /\ message' = NoMessage
      \/ /\ pc' = "replied"
         /\ message'.type = "ERROR"
         /\ message'.err_code = "PERMANENT_ERROR"
         /\ message'.suit_report = NoReport
  BY <1>2 DEF Begin, Fail, Message, IInv, Control
<1>5. Control'
  <2>1. pc' \in {"setup", "replied"}
    BY <1>4
  <2>2. pc' = "setup" => Acceptable(update)' /\ 1 \in 1 .. Len(u.manifest_list)
    BY <1>2, <1>4, ProcessUpdateAssumption DEF Acceptable
  <2>3. 1 \in 1 .. MaxManifests
    BY ProcessUpdateAssumption
  <2> QED
    BY <1>2, <1>3, <1>4, <2>1, <2>2, <2>3
       DEF IInv, Control, Running, Reports, Service!Errors
<1>6. AllGenuine' /\ Touched'
  BY <1>1, <1>2, <1>3 DEF AllGenuine, Touched, Service!TouchesOnlySent
<1>7. Kept'
  <2>1. \A r \in ActiveSet : IsComplete(r) =>
          Full(r.manifest_digest) /\ r.manifest_sequence_number >= r.manifest_sequence_number
    BY <1>3, CompleteIsFull
  <2> QED
    BY <1>1, <1>2, <2>1 DEF Kept
<1>8. Stored' /\ AllCalled' /\ ReportIsFresh'
  BY <1>4 DEF Stored, AllCalled, ReportIsFresh
<1>9. DoneNotOlder' /\ DoneVerified'
  <2>1. Done' = {}
    BY <1>2 DEF Done
  <2> QED
    BY <2>1 DEF DoneNotOlder, DoneVerified
<1>10. CleanButCurrent'
  <2>1. (IF pc' = "setup" THEN ActiveSet'
         ELSE {r \in ActiveSet' : r.manifest_digest # manifest'}) = before'
        \/ pc' \notin Running
    BY <1>1, <1>2, <1>4 DEF Running
  <2> QED
    BY <2>1 DEF CleanButCurrent
<1>11. Replied'
  BY <1>1, <1>2, <1>4 DEF Replied
<1> QED
  BY <1>1, <1>5, <1>6, <1>7, <1>8, <1>9, <1>10, <1>11 DEF IInv

LEMMA RunningControl ==
  ASSUME IInv, pc \in Running, pc' \in Running, UNCHANGED runVars, message' = message,
         g_suit_report' \in Reports, called' \subseteq {"manifest", "payload", "match"},
         suit_ok' \in BOOLEAN, reported' \in BOOLEAN
  PROVE  Control' /\ Replied'
<1>1. message' = NoMessage /\ pc' # "replied" /\ pc' # "waiting" /\ pc # "waiting"
  BY DEF IInv, Control, Running
<1>2. Acceptable(update)' /\ manifest_index' \in 1 .. Len(update'.manifest_list)
  BY SameRunVars DEF IInv, Control, Acceptable
<1> QED
  BY <1>1, <1>2, SameRunVars DEF IInv, Control, Replied

LEMMA FailedControl ==
  ASSUME IInv, pc \in Running, UNCHANGED runVars,
         NEW err_code \in Service!Errors, NEW report \in Reports, Fail(err_code, report),
         g_suit_report' \in Reports, called' = called, suit_ok' = suit_ok,
         reported' \in BOOLEAN
  PROVE  Control'
<1>1. pc # "waiting"
  BY DEF Running
<1>2. pc' = "replied" /\ pc' \notin Running /\ pc' # "waiting"
  BY FailMeans DEF Running
<1> QED
  BY <1>1, <1>2, FailMeans, SameRunVars DEF IInv, Control

LEMMA FailedTableParts ==
  ASSUME IInv, pc \in Running, pc' = "replied", ActiveSet' = ActiveSet, UNCHANGED runVars
  PROVE  TableParts' /\ Stored' /\ AllCalled' /\ ReportIsFresh'
<1>1. pc # "waiting" /\ pc' \notin Running
  BY DEF Running
<1>2. AllGenuine' /\ Touched' /\ Kept'
  BY <1>1, SameRunVars DEF IInv, AllGenuine, Touched, Kept
<1>3. DoneNotOlder' /\ DoneVerified' /\ CleanButCurrent'
  BY <1>1 DEF DoneNotOlder, DoneVerified, CleanButCurrent
<1> QED
  BY <1>2, <1>3 DEF TableParts, Stored, AllCalled, ReportIsFresh

LEMMA SetUpIInv == IInv /\ SetUp => IInv'
<1> SUFFICES ASSUME IInv, SetUp PROVE IInv'
  OBVIOUS
<1>1. TP!IInv' /\ ActiveSet' = ActiveSet
  BY SameTable DEF SetUp, tcVars, IInv
<1>2. /\ pc \in Running /\ pc' = "processing" /\ UNCHANGED runVars /\ message' = message
      /\ called' = {} /\ reported' = FALSE /\ g_suit_report' = g_suit_report
      /\ suit_ok' = suit_ok
  BY DEF SetUp, Running
<1>3. TableParts'
  BY <1>1, <1>2, SameTableParts DEF Running
<1>4. Control' /\ Replied'
  BY <1>2, RunningControl DEF IInv, Control, Running
<1>5. Stored' /\ AllCalled' /\ ReportIsFresh'
  BY <1>2 DEF Stored, AllCalled, ReportIsFresh
<1> QED
  BY <1>1, <1>3, <1>4, <1>5 DEF IInv, TableParts

LEMMA SetUpFailsIInv == IInv /\ SetUpFails => IInv'
<1> SUFFICES ASSUME IInv, SetUpFails PROVE IInv'
  OBVIOUS
<1>1. TP!IInv' /\ ActiveSet' = ActiveSet
  BY SameTable DEF SetUpFails, tcVars, IInv
<1>2. PICK err_code \in {"TEMPORARY_ERROR", "PERMANENT_ERROR"} : Fail(err_code, NoReport)
  BY DEF SetUpFails
<1>3. /\ pc = "setup" /\ pc \in Running /\ UNCHANGED runVars
      /\ g_suit_report' = g_suit_report /\ called' = called /\ suit_ok' = suit_ok
      /\ reported' = reported
  BY DEF SetUpFails, Running
<1>4. err_code \in Service!Errors /\ NoReport \in Reports
  BY DEF Service!Errors, Reports
<1>5. /\ pc' = "replied" /\ message'.err_code = err_code /\ message'.suit_report = NoReport
  BY <1>2, <1>4, FailMeans
<1>6. Control'
  BY <1>2, <1>3, <1>4, FailedControl DEF IInv, Control
<1>7. TableParts' /\ Stored' /\ AllCalled' /\ ReportIsFresh'
  BY <1>1, <1>3, <1>5, FailedTableParts
<1>8. Replied'
  BY <1>1, <1>3, <1>5, SameRunVars DEF IInv, CleanButCurrent, Replied
<1> QED
  BY <1>1, <1>6, <1>7, <1>8 DEF IInv, TableParts

(* What a store callback has left is there until the manifest is done.     *)
LEMMA ManifestStoreIInv == IInv /\ store_callback_manifest => IInv'
<1> SUFFICES ASSUME IInv, store_callback_manifest PROVE IInv'
  OBVIOUS
<1>1. /\ pc = "processing" /\ UNCHANGED runVars /\ message' = message
      /\ called' = called \cup {"manifest"}
      /\ \/ rc' = TC!OK /\ pc' = "processing" /\ suit_ok' = suit_ok
         \/ rc' # TC!OK /\ pc' = "reporting" /\ suit_ok' = FALSE
      /\ g_suit_report' = g_suit_report /\ reported' = reported
  BY DEF store_callback_manifest, Called
<1>2. pc \in Running /\ pc' \in Running \ {"setup"} /\ pc' \in {"processing", "reporting"}
  BY <1>1 DEF Running
<1>3. TP!IInv'
  BY ManifestCallback
<1>4. TableParts'
  BY <1>1, <1>2, ManifestCallback, SameTableParts, RewriteTableParts
<1>5. Control' /\ Replied'
  BY <1>1, <1>2, RunningControl DEF IInv, Control
<1>6. Stored'
  <2> SUFFICES ASSUME pc' = "processing", rc' = TC!OK PROVE Stored'
    BY <1>1 DEF Stored
  <2>1. PICK old, r : /\ Rewrites(old, r)
                      /\ r.manifest_name # NoName
                      /\ r.manifest_bin
                      /\ r.wapp_name = old.wapp_name
                      /\ r.wapp_bin = old.wapp_bin
    BY ManifestCallback
  <2>2. r \in ActiveSet' /\ r.manifest_digest = manifest
    BY <2>1 DEF Rewrites
  <2>3. \A x \in ActiveSet : x.manifest_digest = manifest =>
          x.wapp_name = r.wapp_name /\ x.wapp_bin = r.wapp_bin
    BY <2>1, RecordsAreKeyed DEF Rewrites, TP!FoundAs, TP!OfDigest, IInv
  <2>4. /\ "payload" \in called => r.wapp_name # NoName /\ r.wapp_bin # NoImage
        /\ "match" \in called =>
             /\ "payload" \in CommandsOf[manifest] => "payload" \in called
             /\ r.wapp_bin = ImageOf[manifest]
    BY <1>1, <2>3 DEF IInv, Stored
  <2> QED
    BY <1>1, <2>1, <2>2, <2>4, SameRunVars DEF Stored
<1>7. AllCalled' /\ ReportIsFresh'
  BY <1>1 DEF AllCalled, ReportIsFresh, IInv
<1> QED
  BY <1>3, <1>4, <1>5, <1>6, <1>7 DEF IInv, TableParts

LEMMA PayloadStoreIInv == IInv /\ store_callback_payload => IInv'
<1> SUFFICES ASSUME IInv, store_callback_payload PROVE IInv'
  OBVIOUS
<1>1. /\ pc = "processing" /\ UNCHANGED runVars /\ message' = message
      /\ "payload" \in CommandsOf[manifest] \ called
      /\ called' = called \cup {"payload"}
      /\ \/ rc' = TC!OK /\ pc' = "processing" /\ suit_ok' = suit_ok
         \/ rc' # TC!OK /\ pc' = "reporting" /\ suit_ok' = FALSE
      /\ g_suit_report' = g_suit_report /\ reported' = reported
  BY DEF store_callback_payload, Called
<1>2. pc \in Running /\ pc' \in Running \ {"setup"} /\ pc' \in {"processing", "reporting"}
  BY <1>1 DEF Running
<1>3. TP!IInv'
  BY PayloadCallback
<1>4. TableParts'
  BY <1>1, <1>2, PayloadCallback, SameTableParts, RewriteTableParts
<1>5. Control' /\ Replied'
  BY <1>1, <1>2, RunningControl DEF IInv, Control
<1>6. Stored'
  <2> SUFFICES ASSUME pc' = "processing", rc' = TC!OK PROVE Stored'
    BY <1>1 DEF Stored
  <2>1. PICK old, r : /\ Rewrites(old, r)
                      /\ r.wapp_name # NoName
                      /\ r.wapp_bin # NoImage
                      /\ r.manifest_name = old.manifest_name
                      /\ r.manifest_bin = old.manifest_bin
    BY PayloadCallback
  <2>2. r \in ActiveSet' /\ r.manifest_digest = manifest
    BY <2>1 DEF Rewrites
  <2>3. \A x \in ActiveSet : x.manifest_digest = manifest =>
          x.manifest_name = r.manifest_name /\ x.manifest_bin = r.manifest_bin
    BY <2>1, RecordsAreKeyed DEF Rewrites, TP!FoundAs, TP!OfDigest, IInv
  <2>4. /\ "manifest" \in called => r.manifest_name # NoName /\ r.manifest_bin
        /\ "match" \notin called
    BY <1>1, <2>3 DEF IInv, Stored
  <2> QED
    BY <1>1, <2>1, <2>2, <2>4, SameRunVars DEF Stored
<1>7. AllCalled' /\ ReportIsFresh'
  BY <1>1 DEF AllCalled, ReportIsFresh, IInv
<1> QED
  BY <1>3, <1>4, <1>5, <1>6, <1>7 DEF IInv, TableParts

LEMMA ConditionIInv == IInv /\ condition_callback => IInv'
<1> SUFFICES ASSUME IInv, condition_callback PROVE IInv'
  OBVIOUS
<1>1. TP!IInv' /\ ActiveSet' = ActiveSet
  BY SameTable DEF condition_callback, tcVars, IInv
<1>2. /\ pc = "processing" /\ UNCHANGED runVars /\ message' = message
      /\ "payload" \in CommandsOf[manifest] => "payload" \in called
      /\ called' = called \cup {"match"}
      /\ \/ ImageMatches /\ pc' = "processing" /\ suit_ok' = suit_ok
         \/ ~ ImageMatches /\ pc' = "reporting" /\ suit_ok' = FALSE
      /\ g_suit_report' = g_suit_report /\ reported' = reported
  BY DEF condition_callback, Called
<1>3. pc \in Running /\ pc' \in Running \ {"setup"}
  BY <1>2 DEF Running
<1>4. TableParts'
  BY <1>1, <1>2, <1>3, SameTableParts
<1>5. Control' /\ Replied'
  BY <1>2, <1>3, RunningControl DEF IInv, Control
<1>6. Stored'
  <2> SUFFICES ASSUME pc' = "processing", ImageMatches PROVE Stored'
    BY <1>2 DEF Stored
  <2>1. \E r \in ActiveSet : r.manifest_digest = manifest /\ r.wapp_bin = ImageOf[manifest]
    BY <1>3, MatchFindsImage
  <2> QED
    BY <1>1, <1>2, <2>1, SameRunVars DEF IInv, Stored
<1>7. AllCalled' /\ ReportIsFresh'
  BY <1>2 DEF AllCalled, ReportIsFresh, IInv
<1> QED
  BY <1>1, <1>4, <1>5, <1>6, <1>7 DEF IInv, TableParts

LEMMA EnvelopeIInv == IInv /\ (EnvelopeDone \/ EnvelopeFails) => IInv'
<1> SUFFICES ASSUME IInv, EnvelopeDone \/ EnvelopeFails PROVE IInv'
  OBVIOUS
<1>1. TP!IInv' /\ ActiveSet' = ActiveSet
  BY SameTable DEF EnvelopeDone, EnvelopeFails, tcVars, IInv
<1>2. /\ pc = "processing" /\ pc' = "reporting" /\ UNCHANGED runVars /\ message' = message
      /\ suit_ok' \in BOOLEAN
      /\ called' = called /\ g_suit_report' = g_suit_report /\ reported' = reported
  BY DEF EnvelopeDone, EnvelopeFails
<1>3. pc \in Running /\ pc' \in Running \ {"setup"}
  BY <1>2 DEF Running
<1>4. TableParts'
  BY <1>1, <1>2, <1>3, SameTableParts
<1>5. Control' /\ Replied'
  BY <1>2, <1>3, RunningControl DEF IInv, Control
<1>6. Stored' /\ AllCalled' /\ ReportIsFresh'
  <2>1. suit_ok' => called = CommandsOf[manifest]
    BY DEF EnvelopeDone, EnvelopeFails
  <2> QED
    BY <1>1, <1>2, <2>1, SameRunVars DEF IInv, Stored, AllCalled, ReportIsFresh
<1> QED
  BY <1>1, <1>4, <1>5, <1>6 DEF IInv, TableParts

LEMMA ReportIInv == IInv /\ report_callback => IInv'
<1> SUFFICES ASSUME IInv, report_callback PROVE IInv'
  OBVIOUS
<1>1. TP!IInv' /\ ActiveSet' = ActiveSet
  BY SameTable DEF report_callback, tcVars, IInv
<1>2. /\ pc = "reporting" /\ pc \in Running /\ UNCHANGED runVars
      /\ called' = called /\ suit_ok' = suit_ok
  BY DEF report_callback, Running
<1>3. manifest \in Digests /\ suit_ok \in BOOLEAN /\ ~ reported
  BY <1>2, CurrentManifest DEF IInv, Control, ReportIsFresh
<1>4. PICK ok \in BOOLEAN :
        /\ EndOfEnvelope(ok)
        /\ ok => suit_ok
        /\ \/ g_suit_report' = [manifest |-> manifest, ok |-> ok] /\ reported' = TRUE
           \/ g_suit_report' = g_suit_report /\ reported' = reported
           \/ g_suit_report' = NoReport /\ reported' = reported /\ ~ ok
  BY <1>3 DEF report_callback, NewReport
<1>5. g_suit_report' \in Reports /\ reported' \in BOOLEAN
  <2>1. /\ g_suit_report \in Reports /\ NoReport \in Reports
        /\ [manifest |-> manifest, ok |-> ok] \in Reports
    BY <1>3 DEF IInv, Control, Reports
  <2>2. reported \in BOOLEAN
    BY DEF IInv, Control
  <2> QED
    BY <1>4, <2>1, <2>2
<1>6. CASE ok
  <2>1. pc' = "finalise" /\ message' = message /\ suit_ok = TRUE
    BY <1>3, <1>4, <1>6 DEF EndOfEnvelope
  <2>2. pc' \in Running \ {"setup"}
    BY <2>1 DEF Running
  <2>3. TableParts'
    BY <1>1, <1>2, <2>2, SameTableParts
  <2>4. Control' /\ Replied'
    BY <1>2, <1>5, <2>1, <2>2, RunningControl DEF IInv, Control
  <2>5. Stored' /\ AllCalled'
    BY <1>1, <1>2, <2>1, SameRunVars DEF IInv, Stored, AllCalled
  <2>6. ReportIsFresh'
    BY <1>2, <1>3, <1>4, <1>6, <2>1, SameRunVars DEF ReportIsFresh
  <2> QED
    BY <1>1, <2>3, <2>4, <2>5, <2>6 DEF IInv, TableParts
<1>7. CASE ~ ok
  <2>1. PICK report \in {g_suit_report', NoReport} :
          Fail("MANIFEST_PROCESSING_FAILED", report)
    BY <1>4, <1>7 DEF EndOfEnvelope
  <2>2. "MANIFEST_PROCESSING_FAILED" \in Service!Errors /\ report \in Reports
    BY <1>5, <2>1 DEF Service!Errors, Reports
  <2>3. /\ pc' = "replied"
        /\ message'.type = "ERROR"
        /\ message'.err_code = "MANIFEST_PROCESSING_FAILED"
        /\ message'.suit_report \in {NoReport, report}
    BY <2>1, <2>2, FailMeans
  <2>4. Control'
    BY <1>2, <1>5, <2>1, <2>2, FailedControl
  <2>5. TableParts' /\ Stored' /\ AllCalled' /\ ReportIsFresh'
    BY <1>1, <1>2, <2>3, FailedTableParts
  <2>6. Replied'
    BY <1>2, <1>3, <1>4, <1>7, <2>1, <2>3, SameRunVars DEF Replied
  <2> QED
    BY <1>1, <2>4, <2>5, <2>6 DEF IInv, TableParts
<1> QED
  BY <1>6, <1>7

LEMMA FinaliseIInv == IInv /\ Finalise => IInv'
<1> SUFFICES ASSUME IInv, Finalise PROVE IInv'
  OBVIOUS
<1>1. /\ pc = "finalise" /\ pc \in Running /\ pc # "waiting"
      /\ update' = update /\ before' = before /\ g_suit_report' = g_suit_report
      /\ called' = called /\ suit_ok' = suit_ok /\ reported' = reported
  BY DEF Finalise, Running
<1>2. TP!IInv'
  BY FinaliseStep
<1>3. /\ AllGenuine' /\ Touched' /\ Kept'
      /\ Service!CleanTable(before) => Service!CleanTable(ActiveSet')
  BY FinaliseTableParts
<1>4. /\ update.manifest_list \in Seq(Digests)
      /\ manifest_index \in 1 .. Len(update.manifest_list)
      /\ Acceptable(update) /\ update \in Updates
      /\ message = NoMessage
  BY <1>1, CurrentManifest DEF IInv, Control
<1>5. CASE rc' = TC!ERROR
  <2>1. Fail("TEMPORARY_ERROR", NoReport) /\ manifest_index' = manifest_index
    BY <1>5 DEF Finalise
  <2>2. "TEMPORARY_ERROR" \in Service!Errors /\ NoReport \in Reports
    BY DEF Service!Errors, Reports
  <2>3. /\ pc' = "replied" /\ message'.err_code = "TEMPORARY_ERROR"
        /\ message'.suit_report = NoReport
    BY <2>1, <2>2, FailMeans
  <2>4. Control'
    BY <1>1, <2>1, <2>2, FailedControl DEF IInv, Control, runVars
  <2>5. Replied'
    BY <1>1, <1>3, <2>3 DEF Replied
  <2>6. /\ Stored' /\ AllCalled' /\ ReportIsFresh'
        /\ DoneNotOlder' /\ DoneVerified' /\ CleanButCurrent'
    BY <2>3 DEF Stored, AllCalled, ReportIsFresh, DoneNotOlder, DoneVerified,
                CleanButCurrent, Running
  <2> QED
    BY <1>2, <1>3, <2>4, <2>5, <2>6 DEF IInv
<1>6. rc' = TC!ERROR \/ rc' = TC!OK
  BY <1>2, SameRecords DEF TP!IInv
<1>7. rc' = TC!OK =>
        /\ \A e \in Done \cup {manifest} : Fulfils(e)'
        /\ \A r \in ActiveSet' :
             r.manifest_digest \in Done \cup {manifest} => Verified(r)
  BY FinaliseTableParts
<1>8. CASE rc' = TC!OK /\ rc' # TC!ERROR /\ manifest_index < Len(update.manifest_list)
  <2>1. manifest_index' = manifest_index + 1 /\ pc' = "setup" /\ message' = message
    BY <1>8 DEF Finalise, NextManifest
  <2>2. Done' = Done \cup {manifest}
    BY <1>1, <1>4, <2>1 DEF Done, manifest
  <2>3. Control'
    <3>1. /\ manifest_index' \in 1 .. Len(update.manifest_list)
          /\ manifest_index' \in 1 .. MaxManifests
      BY <1>4, <1>8, <2>1, ProcessUpdateAssumption DEF Acceptable
    <3> QED
      BY <1>1, <1>4, <2>1, <3>1 DEF IInv, Control, Acceptable, Running
  <2>4. DoneNotOlder' /\ DoneVerified'
    BY <1>7, <1>8, <2>2 DEF DoneNotOlder, DoneVerified
  <2>5. CleanButCurrent'
    BY <1>1, <1>3, <2>1 DEF CleanButCurrent
  <2>6. Stored' /\ AllCalled' /\ ReportIsFresh' /\ Replied'
    BY <2>1 DEF Stored, AllCalled, ReportIsFresh, Replied
  <2> QED
    BY <1>2, <1>3, <2>3, <2>4, <2>5, <2>6 DEF IInv
<1>9. CASE rc' = TC!OK /\ rc' # TC!ERROR /\ ~ (manifest_index < Len(update.manifest_list))
  <2>1. /\ manifest_index' = manifest_index /\ pc' = "replied"
        /\ message' = Message("SUCCESS", "NONE", g_suit_report)
    BY <1>9 DEF Finalise
  <2>2. /\ message'.type = "SUCCESS" /\ message'.err_code = "NONE"
        /\ message'.suit_report = g_suit_report
    BY <2>1 DEF Message
  <2>3. Service!Sent(update) = Done \cup {manifest}
    <3>1. manifest_index = Len(update.manifest_list) /\ Len(update.manifest_list) \in Nat
      BY <1>4, <1>9
    <3> QED
      BY <1>4, <3>1 DEF Service!Sent, Done, manifest
  <2>4. Control'
    BY <1>1, <1>4, <2>1, <2>2 DEF IInv, Control, Running
  <2>5. Service!Fulfilled(ActiveSet', update)
    <3>1. \A r : Service!IsComplete(r) = IsComplete(r)
      BY DEF Service!IsComplete, IsComplete
    <3> QED
      BY <1>7, <1>9, <2>3, <3>1 DEF Service!Fulfilled, Fulfils, Verified
  <2>6. Replied'
    <3>1. reported => g_suit_report = [manifest |-> manifest, ok |-> TRUE]
      BY <1>1 DEF IInv, ReportIsFresh
    <3>2. manifest' = manifest
      BY <1>1, <2>1 DEF manifest
    <3> QED
      BY <1>1, <1>3, <2>2, <2>5, <3>1, <3>2 DEF Replied
  <2>7. /\ Stored' /\ AllCalled' /\ ReportIsFresh'
        /\ DoneNotOlder' /\ DoneVerified' /\ CleanButCurrent'
    BY <2>1 DEF Stored, AllCalled, ReportIsFresh, DoneNotOlder, DoneVerified,
                CleanButCurrent, Running
  <2> QED
    BY <1>2, <1>3, <2>4, <2>6, <2>7 DEF IInv
<1>10. TC!OK # TC!ERROR
  BY SameRecords
<1> QED
  BY <1>5, <1>6, <1>8, <1>9, <1>10

LEMMA ReturnIInv == IInv /\ Return => IInv'
<1> SUFFICES ASSUME IInv, Return PROVE IInv'
  OBVIOUS
<1>1. TP!IInv' /\ ActiveSet' = ActiveSet
  BY SameTable DEF Return, IInv
<1>2. /\ pc' = "waiting" /\ pc' \notin Running
      /\ g_suit_report' = g_suit_report /\ update' = NoUpdate /\ manifest_index' = 1
      /\ called' = {} /\ suit_ok' = FALSE /\ reported' = FALSE
      /\ message' = NoMessage /\ before' = {}
  BY DEF Return, Running
<1>3. Control'
  <2>1. 1 \in 1 .. MaxManifests
    BY ProcessUpdateAssumption
  <2> QED
    BY <1>2, <2>1 DEF IInv, Control
<1>4. AllGenuine'
  BY <1>1 DEF IInv, AllGenuine
<1>5. /\ Touched' /\ Kept' /\ Stored' /\ AllCalled'
      /\ DoneNotOlder' /\ DoneVerified' /\ CleanButCurrent' /\ ReportIsFresh' /\ Replied'
  BY <1>2 DEF Touched, Kept, Stored, AllCalled, DoneNotOlder, DoneVerified, CleanButCurrent,
              ReportIsFresh, Replied
<1> QED
  BY <1>1, <1>3, <1>4, <1>5 DEF IInv

LEMMA StutterIInv == IInv /\ UNCHANGED vars => IInv'
<1> SUFFICES ASSUME IInv, UNCHANGED vars PROVE IInv'
  OBVIOUS
<1>1. TP!IInv' /\ ActiveSet' = ActiveSet
  BY SameTable DEF vars, tcVars, IInv
<1>2. UNCHANGED <<runVars, g_suit_report, pc, called, suit_ok, reported, message>>
  BY DEF vars
<1>3. Control' /\ AllGenuine' /\ ReportIsFresh' /\ AllCalled'
  BY <1>1, <1>2, SameRunVars DEF IInv, Control, AllGenuine, ReportIsFresh, AllCalled, Acceptable
<1>4. Touched' /\ Kept' /\ Stored'
  BY <1>1, <1>2, SameRunVars DEF IInv, Touched, Kept, Stored
<1>5. DoneNotOlder' /\ DoneVerified' /\ CleanButCurrent' /\ Replied'
  BY <1>1, <1>2, SameRunVars
     DEF IInv, DoneNotOlder, Fulfils, DoneVerified, CleanButCurrent, Replied
<1> QED
  BY <1>1, <1>3, <1>4, <1>5 DEF IInv

LEMMA NextIInv == IInv /\ [Next]_vars => IInv'
<1> SUFFICES ASSUME IInv, [Next]_vars PROVE IInv'
  OBVIOUS
<1>1. ASSUME NEW u \in Updates, Begin(u) PROVE IInv'
  BY <1>1, BeginIInv
<1>2. CASE Step
  BY <1>2, SetUpIInv, SetUpFailsIInv, ManifestStoreIInv, PayloadStoreIInv, ConditionIInv,
     EnvelopeIInv, ReportIInv, FinaliseIInv DEF Step
<1>3. CASE Return
  BY <1>3, ReturnIInv
<1>4. CASE UNCHANGED vars
  BY <1>4, StutterIInv
<1> QED
  BY <1>1, <1>2, <1>3, <1>4 DEF Next

LEMMA SpecIInv == Spec => []IInv
BY InitIInv, NextIInv, PTL DEF Spec

-----------------------------------------------------------------------------
(* What follows from it.                                                   *)

LEMMA IInvIsTyped == IInv => TypeOK
<1> SUFFICES ASSUME IInv PROVE TypeOK
  OBVIOUS
<1>1. TC!TypeOK
  BY SameRecords DEF IInv, TP!IInv, TP!Table, TC!TypeOK, TC!Slots, TP!Slots, TC!Record, TP!Record
<1>2. /\ message.type \in {"NONE", "SUCCESS", "ERROR"}
      /\ message.suit_report \in Reports
  <2>1. CASE pc = "replied"
    BY <2>1 DEF IInv, Control
  <2>2. CASE pc # "replied"
    BY <2>2 DEF IInv, Control, NoMessage, Message, Reports
  <2> QED
    BY <2>1, <2>2
<1> QED
  BY <1>1, <1>2 DEF IInv, Control, TypeOK, Running

(* The variables have their types in every state of every Update: no       *)
(* manifest index runs past TEEP_MAX_ARRAY_LENGTH, and the array of        *)
(* records holds records only.                                             *)
THEOREM TypeCorrect == Spec => []TypeOK
BY IInvIsTyped, SpecIInv, PTL

(* No store, swap or deletion on the way of an Update, failed or not, hits *)
(* a record of another manifest and another application.                   *)
THEOREM BystandersAreKept == Spec => []BystandersKept
<1>1. IInv => BystandersKept
  BY DEF IInv, Touched, BystandersKept, Service!TouchesOnlySent, Service!Sent, Sent
<1> QED
  BY <1>1, SpecIInv, PTL

(* After Success the table has, for every manifest of the Update, a record *)
(* of its application that is at least as new.                             *)
THEOREM SuccessIsNotOlder == Spec => []SuccessNotOlder
<1>1. IInv => SuccessNotOlder
  BY DEF IInv, Control, Replied, SuccessNotOlder, Succeeded, Service!Fulfilled, Service!Sent, Sent
<1> QED
  BY <1>1, SpecIInv, PTL

(* After Success what the table has of a sent manifest is complete, and    *)
(* the image is the one the manifest's image match asks for, even when the *)
(* slot was used by a manifest that failed before.                         *)
THEOREM SuccessIsVerified == Spec => []SuccessVerified
<1>1. \A r : Service!IsComplete(r) = IsComplete(r)
  BY DEF Service!IsComplete, IsComplete
<1>2. IInv => SuccessVerified
  BY <1>1 DEF IInv, Control, Replied, SuccessVerified, Succeeded, Service!Fulfilled,
              Service!Sent, Sent
<1> QED
  BY <1>2, SpecIInv, PTL

(* The SUIT report in the response is the one of the last manifest, with   *)
(* the outcome the response has, although g_suit_report outlives manifests *)
(* and Updates.                                                            *)
THEOREM ReportIsOfLastManifest == Spec => []ReportOfLastManifest
<1>1. IInv => ReportOfLastManifest
  BY DEF IInv, Replied, ReportOfLastManifest, Succeeded
<1> QED
  BY <1>1, SpecIInv, PTL

(* In a table without unfinished and doubled records, the lookup by name   *)
(* that ecall_run_wasm_function makes finds what was installed.            *)
LEMMA LookupByName ==
  ASSUME TP!IInv, NEW n, TC!WithWappName(n) # {}
  PROVE  /\ n # NoName
         /\ TC!find_by_wapp_name(n) \in ActiveSet
         /\ TC!find_by_wapp_name(n).wapp_name = n
<1> DEFINE W == TC!WithWappName(n)
<1>1. W \in SUBSET Nat
  BY TableAssumption DEF TC!WithWappName, TC!Active, TP!IInv, TP!Table, TP!TcManagerAssumption
<1>2. TC!Min(W) \in W
  <2> HIDE DEF W
  <2>1. W # {}
    BY DEF W
  <2>2. TP!Min(W) \in W
    BY <1>1, <2>1, TableAssumption, RecordAssumption, TP!MinIsLeast
  <2> QED
    BY <2>2, SameLookups
<1> QED
  BY <1>2 DEF TC!WithWappName, TC!find_by_wapp_name, ActiveSet

LEMMA CleanLookup ==
  ASSUME TP!IInv, Service!CleanTable(ActiveSet), NEW r \in ActiveSet
  PROVE  TC!WithWappName(r.wapp_name) # {} /\ TC!find_by_wapp_name(r.wapp_name) = r
<1> DEFINE n == r.wapp_name
           W == TC!WithWappName(n)
<1>1. IsComplete(r) /\ \A s \in ActiveSet : s.wapp_name = n => s = r
  BY CleanTableMeans
<1>2. n # NoName
  BY <1>1 DEF IsComplete
<1>3. PICK i \in TC!Active : records[i] = r
  BY DEF ActiveSet
<1>4. i \in W
  BY <1>2, <1>3 DEF TC!WithWappName
<1>5. TC!find_by_wapp_name(n) \in ActiveSet /\ TC!find_by_wapp_name(n).wapp_name = n
  BY <1>4, LookupByName
<1> QED
  BY <1>1, <1>4, <1>5

(* An Update that finds the table clean and succeeds makes every           *)
(* application it names executable.                                        *)
THEOREM CleanSuccessExecutable == Spec => []ExecutableFromClean
<1>1. IInv => ExecutableFromClean
  <2> SUFFICES ASSUME IInv, Service!CleanTable(before), Succeeded, NEW d \in Sent
               PROVE  Executable(d)
    BY DEF ExecutableFromClean
  <2>1. Service!CleanTable(ActiveSet) /\ Service!Fulfilled(ActiveSet, update)
    BY DEF IInv, Control, Replied, Succeeded
  <2>2. PICK r \in ActiveSet :
          r.wapp_name = WappOf[d] /\ r.manifest_sequence_number >= SeqOf[d]
    BY <2>1 DEF Service!Fulfilled, Service!Sent, Sent
  <2>3. TC!WithWappName(WappOf[d]) # {} /\ TC!find_by_wapp_name(WappOf[d]) = r
    BY <2>1, <2>2, CleanLookup DEF IInv
  <2>4. IsComplete(r)
    BY <2>1, CleanTableMeans
  <2> QED
    BY <2>2, <2>3, <2>4 DEF Executable
<1> QED
  BY <1>1, SpecIInv, PTL

-----------------------------------------------------------------------------
(* process_update implements UpdateService: the step that brings the       *)
(* answer is Decide, the steps before it stutter.                          *)

LEMMA AnswerCases ==
  ASSUME IInv
  PROVE  /\ pc = "waiting" => Answer = "IDLE" /\ Seen = ActiveSet
         /\ pc \in Running => Answer = "PENDING" /\ Seen = before
         /\ pc = "replied" => /\ Answer = message.err_code /\ Seen = ActiveSet
                              /\ Answer \in Service!Errors \cup {"NONE"}
BY DEF Answer, Seen, Running, IInv, Control

LEMMA AnswerCasesNext ==
  ASSUME IInv'
  PROVE  /\ pc' = "waiting" => Answer' = "IDLE" /\ Seen' = ActiveSet'
         /\ pc' \in Running => Answer' = "PENDING" /\ Seen' = before'
         /\ pc' = "replied" => /\ Answer' = message'.err_code /\ Seen' = ActiveSet'
                               /\ Answer' \in Service!Errors \cup {"NONE"}
BY DEF Answer, Seen, Running, IInv, Control

LEMMA ReplyHasEffect ==
  ASSUME IInv', pc' = "replied"
  PROVE  Service!Effect(before', ActiveSet', update', message'.err_code)
<1>1. Service!LosesNothingNewer(before', ActiveSet')
  <2>1. \A r : Service!IsComplete(r) = IsComplete(r)
    BY DEF Service!IsComplete, IsComplete
  <2> QED
    BY <2>1 DEF IInv, Kept, Service!LosesNothingNewer
<1> QED
  BY <1>1 DEF IInv, Touched, Replied, Service!Effect

LEMMA NextRefines == IInv /\ IInv' /\ [Next]_vars => [Service!Next]_(Service!vars)
<1> SUFFICES ASSUME IInv, IInv', [Next]_vars PROVE [Service!Next]_(Service!vars)
  OBVIOUS
<1> USE AnswerCases, AnswerCasesNext
<1>1. ASSUME NEW u \in Updates, Begin(u)
      PROVE  Service!Receive(u)
  <2>1. pc = "waiting" /\ update' = u /\ before' = ActiveSet
    BY <1>1 DEF Begin
  <2>2. ActiveSet' = ActiveSet
    BY <1>1, SameTable DEF Begin, tcVars, IInv
  <2>3. Acceptable(u) <=> Service!Acceptable(u)
    BY DEF Acceptable, Service!Acceptable
  <2>4. IF Acceptable(u)
        THEN pc' = "setup"
        ELSE pc' = "replied" /\ message'.err_code = "PERMANENT_ERROR"
    BY <1>1 DEF Begin, Fail, Message
  <2>5. Seen' = Seen
    BY <2>1, <2>2, <2>4 DEF Running
  <2>6. Answer' = IF Service!Acceptable(u) THEN "PENDING" ELSE "PERMANENT_ERROR"
    BY <2>3, <2>4 DEF Running
  <2> QED
    BY <2>1, <2>5, <2>6 DEF Service!Receive
<1>2. CASE Step
  <2>1. /\ pc \in Running /\ pc' \in Running \cup {"replied"}
        /\ update' = update /\ before' = before
    <3>1. CASE SetUp
      BY <3>1 DEF SetUp, Running, runVars
    <3>2. CASE SetUpFails
      BY <3>2 DEF SetUpFails, Fail, Running, runVars
    <3>3. CASE store_callback_manifest
      BY <3>3 DEF store_callback_manifest, Called, Running, runVars
    <3>4. CASE store_callback_payload
      BY <3>4 DEF store_callback_payload, Called, Running, runVars
    <3>5. CASE condition_callback
      BY <3>5 DEF condition_callback, Called, Running, runVars
    <3>6. CASE EnvelopeDone \/ EnvelopeFails
      BY <3>6 DEF EnvelopeDone, EnvelopeFails, Running, runVars
    <3>7. CASE report_callback
      BY <3>7 DEF report_callback, EndOfEnvelope, Fail, Running, runVars
    <3>8. CASE Finalise
      BY <3>8 DEF Finalise, Fail, Running
    <3> QED
      BY <1>2, <3>1, <3>2, <3>3, <3>4, <3>5, <3>6, <3>7, <3>8 DEF Step
  <2>2. CASE pc' \in Running
    BY <2>1, <2>2 DEF Service!vars
  <2>3. CASE pc' = "replied"
    <3>1. Service!Effect(before', ActiveSet', update', message'.err_code)
      BY <2>3, ReplyHasEffect
    <3> QED
      BY <2>1, <2>3, <3>1 DEF Service!Decide, Service!Next
  <2> QED
    BY <2>1, <2>2, <2>3
<1>3. CASE Return
  <2>1. pc = "replied" /\ pc' = "waiting" /\ update' = NoUpdate
    BY <1>3 DEF Return
  <2>2. ActiveSet' = ActiveSet
    BY <1>3, SameTable DEF Return, IInv
  <2> QED
    BY <2>1, <2>2 DEF Service!Deliver, Service!Next
<1>4. CASE UNCHANGED vars
  <2>1. ActiveSet' = ActiveSet
    BY <1>4, SameTable DEF vars, tcVars, IInv
  <2> QED
    BY <1>4, <2>1 DEF vars, runVars, Seen, Answer, Service!vars
<1> QED
  BY <1>1, <1>2, <1>3, <1>4 DEF Next, Service!Next

LEMMA InitRefines == Init => Service!Init
<1> SUFFICES ASSUME Init PROVE Service!Init
  OBVIOUS
<1>1. ActiveSet = {}
  BY DEF Init, TC!Init, ActiveSet, TC!Active
<1> QED
  BY <1>1 DEF Init, Service!Init, Seen, Answer

(* process_update implements UpdateService: whatever fails inside, an      *)
(* Update is refused without effect or moves the table, in one step, as    *)
(* Effect allows.                                                          *)
THEOREM UpdateImplementsService == Spec => ImplementsUpdateService
<1>1. Init => Service!Init
  BY InitRefines
<1>2. IInv /\ IInv' /\ [Next]_vars => [Service!Next]_(Service!vars)
  BY NextRefines
<1> QED
  BY <1>1, <1>2, SpecIInv, PTL DEF Spec, ImplementsUpdateService, Service!Spec
=============================================================================
