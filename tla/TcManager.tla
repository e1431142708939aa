------------------------------ MODULE TcManager -----------------------------
(***************************************************************************)
(* The Trusted Component ledger of the enclave (Enclave/src/tc_manager.cpp)*)
(*                                                                         *)
(* g_manifest_records is an array of MaxRecords slots of which the first   *)
(* g_manifest_record_len are in use.  A slot is taken by bumping the       *)
(* length and is not cleared then; a record is deleted by swapping it with *)
(* the last one, freeing and zeroing that slot, and lowering the length.   *)
(* Records are looked up by manifest digest (the SUIT callbacks) and by    *)
(* application name (the Wasm runtime), always first match first.          *)
(*                                                                         *)
(* Every action is one call of the public API and runs to its return: the  *)
(* enclave has one thread (Enclave/Enclave.config.xml, TCSNum 1).  rc is   *)
(* the value that call returned.  What a call meets in the heap (malloc    *)
(* fails or not) and in libcsuit (the SHA-256 is computed or not) is a     *)
(* choice of the action.                                                   *)
(***************************************************************************)
EXTENDS TcRecord, FiniteSetsExt

CONSTANTS
  MaxRecords,   (* TC_MANAGER_RECORD_MAX_COUNT                             *)
  ManifestArgs, (* the manifest stores the callers may ask for             *)
  PayloadArgs,  (* the payload stores the callers may ask for              *)
  ShaOutcomes   (* {TRUE}, or BOOLEAN when suit_generate_sha256 may fail   *)

ASSUME TcManagerAssumption ==
  /\ MaxRecords \in Nat \ {0}
  /\ ManifestArgs \subseteq ManifestStore
  /\ PayloadArgs \subseteq PayloadStore
  /\ ShaOutcomes \subseteq BOOLEAN

VARIABLES
  records,     (* g_manifest_records                                       *)
  record_len,  (* g_manifest_record_len                                    *)
  rc           (* what the last call returned: 0, or -1 written 1          *)

vars == <<records, record_len, rc>>

OK    == 0
ERROR == 1

Slots  == 0 .. MaxRecords - 1
Active == 0 .. record_len - 1

-----------------------------------------------------------------------------
(* Lookups.                                                                *)

WithDigest(d)   == {i \in Active : d # NoDigest /\ records[i].manifest_digest = d}
WithWappName(n) == {i \in Active : n # NoName /\ records[i].wapp_name = n}

find_by_digest(d)    == records[Min(WithDigest(d))]
find_by_wapp_name(n) == records[Min(WithWappName(n))]

(* The slot a store for digest d goes to: the record of d, or else the     *)
(* slot manifest_records_alloc hands out, used as it was left.             *)
TargetSlot(d) == IF WithDigest(d) # {} THEN Min(WithDigest(d)) ELSE record_len

-----------------------------------------------------------------------------
(* Deletion: the last of the first len records of recs takes the place of  *)
(* record i, and the slot it leaves is zeroed.  (Mutants: the slot is not  *)
(* zeroed; the last record is not moved first.)                            *)
remove_at_unzeroed(recs, len, i) ==
  [recs EXCEPT ![i] = recs[len - 1], ![len - 1] = recs[i]]

remove_at_last(recs, len, i) == [recs EXCEPT ![len - 1] = BlankRecord]

remove_at(recs, len, i) ==
  [recs EXCEPT ![i] = recs[len - 1], ![len - 1] = BlankRecord]

swapped(recs, i, j) == [recs EXCEPT ![i] = recs[j], ![j] = recs[i]]

-----------------------------------------------------------------------------
(* Storing.                                                                *)

set_ids_from_component_id(dst, old) == IF dst = Undecodable THEN old ELSE dst

StoredManifest(r, a, mem) ==
  [r EXCEPT !.manifest_digest          = a.manifest_digest,
            !.manifest_sequence_number = a.manifest_sequence_number,
            !.manifest_name            = set_ids_from_component_id(a.dst, @),
            !.manifest_bin             = a.src_buf /\ mem]

(* Mutant: a record that has a hash keeps it.                              *)
StoredPayloadOldHash(r, a, mem, sha) ==
  LET copied == a.src_buf # NoImage /\ mem
  IN [r EXCEPT !.manifest_digest = a.manifest_digest,
               !.wapp_name       = set_ids_from_component_id(a.dst, @),
               !.wapp_bin        = IF copied THEN a.src_buf ELSE NoImage,
               !.wapp_hash       = IF copied /\ @ = NoImage THEN a.src_buf ELSE @]

StoredPayload(r, a, mem, sha) ==
  LET copied == a.src_buf # NoImage /\ mem
  IN [r EXCEPT !.manifest_digest = a.manifest_digest,
               !.wapp_name       = set_ids_from_component_id(a.dst, @),
               !.wapp_bin        = IF copied THEN a.src_buf ELSE NoImage,
               !.wapp_hash       = IF copied /\ sha THEN a.src_buf ELSE @]

(* Mutant: an overwritten record is counted again.                         *)
PutCounted(i, r) ==
  /\ records'    = [records EXCEPT ![i] = r]
  /\ record_len' = record_len + 1

Put(i, r) ==
  /\ records'    = [records EXCEPT ![i] = r]
  /\ record_len' = IF i = record_len THEN record_len + 1 ELSE record_len

CanStore(d) == d # NoDigest /\ (WithDigest(d) # {} \/ record_len < MaxRecords)

(* tc_manager_store_record_from_store_args, is_manifest_itself set; mem:   *)
(* the copy of a non-empty src_buf found memory.                           *)
StoreManifest(a, mem) ==
  /\ CanStore(a.manifest_digest)
  /\ LET i == TargetSlot(a.manifest_digest)
     IN  Put(i, StoredManifest(records[i], a, mem))
  /\ rc' = IF a.src_buf /\ ~mem THEN ERROR ELSE OK

(* The same call for a payload.  A failed copy keeps the new name and      *)
(* loses the old image; a failed hash goes unnoticed.                      *)
StorePayload(a, mem, sha) ==
  /\ CanStore(a.manifest_digest)
  /\ LET i == TargetSlot(a.manifest_digest)
     IN  Put(i, StoredPayload(records[i], a, mem, sha))
  /\ rc' = IF a.src_buf # NoImage /\ ~mem THEN ERROR ELSE OK

(* A store for a new digest when every slot is in use.                     *)
StoreTableFull(d) ==
  /\ WithDigest(d) = {}
  /\ record_len >= MaxRecords
  /\ rc' = ERROR
  /\ UNCHANGED <<records, record_len>>

(* A store that takes a slot and gives it back: the digest is missing, or  *)
(* there is no memory for its copy.  (Mutant: the slot is kept.)           *)
StoreHalfDone(d) ==
  /\ WithDigest(d) = {}
  /\ record_len < MaxRecords
  /\ record_len' = record_len + 1
  /\ rc' = ERROR
  /\ UNCHANGED records

StoreUndone(d) ==
  /\ WithDigest(d) = {}
  /\ record_len < MaxRecords
  /\ records' = remove_at(records, record_len + 1, record_len)
  /\ rc' = ERROR
  /\ UNCHANGED record_len

-----------------------------------------------------------------------------
(* Finalising.                                                             *)

(* Mutants: the search starts behind the new record; names are not         *)
(* compared.                                                               *)
DuplicatesBehind(i) ==
  {j \in Active : j > i /\ records[j].wapp_name = records[i].wapp_name}

DuplicatesOfAnyName(i) == {j \in Active \ {i} : records[j].wapp_name # NoName}

Duplicates(i) ==
  {j \in Active \ {i} : /\ records[j].wapp_name # NoName
                        /\ records[j].wapp_name = records[i].wapp_name}

(* manifest_record_update_or_discard: only the first duplicate counts; the *)
(* newer record moves into its slot, or the new record goes.  (Mutants:    *)
(* the new record always wins; it always loses.)                           *)
update_always(i) ==
  remove_at(swapped(records, Min(Duplicates(i)), i), record_len, i)

discard_always(i) == remove_at(records, record_len, i)

update_or_discard(i) ==
  LET o == Min(Duplicates(i))
  IN  IF records[o].manifest_sequence_number <= records[i].manifest_sequence_number
      THEN remove_at(swapped(records, o, i), record_len, i)
      ELSE remove_at(records, record_len, i)

CheckNotFound(d) ==
  /\ WithDigest(d) = {}
  /\ rc' = ERROR
  /\ UNCHANGED <<records, record_len>>

CheckIncomplete(d) ==
  /\ WithDigest(d) # {}
  /\ ~IsComplete(find_by_digest(d))
  /\ records' = remove_at(records, record_len, Min(WithDigest(d)))
  /\ record_len' = record_len - 1
  /\ rc' = ERROR

CheckComplete(d) ==
  /\ WithDigest(d) # {}
  /\ IsComplete(find_by_digest(d))
  /\ LET i == Min(WithDigest(d))
     IN  IF Duplicates(i) = {}
         THEN UNCHANGED <<records, record_len>>
         ELSE /\ records' = update_or_discard(i)
              /\ record_len' = record_len - 1
  /\ rc' = OK

CheckAndUpdate(d) == CheckNotFound(d) \/ CheckIncomplete(d) \/ CheckComplete(d)

-----------------------------------------------------------------------------
(* Reading the list and clearing the table.                                *)

(* Mutant: the manifest's digest is reported as the image's.               *)
get_tc_list_of_manifests ==
  [i \in Active |-> [component_id    |-> records[i].wapp_name,
                     tc_image_digest |-> records[i].manifest_digest]]

get_tc_list == [i \in Active |-> [component_id    |-> records[i].wapp_name,
                                  tc_image_digest |-> records[i].wapp_hash]]

(* One incomplete record fails the whole list.  (Mutant: it is listed.)    *)
TcListTooLong(capacity) == capacity = 0 \/ capacity < record_len

TcListFails(capacity) ==
  \/ capacity = 0
  \/ capacity < record_len
  \/ \E i \in Active : ~IsComplete(records[i])

GetTcList(capacity) ==
  /\ rc' = IF TcListFails(capacity) THEN ERROR ELSE OK
  /\ UNCHANGED <<records, record_len>>

(* tc_manager_remove_all deletes record 0 until none is left.              *)
RemoveAll ==
  /\ records'    = [i \in Slots |-> IF i \in Active THEN BlankRecord ELSE records[i]]
  /\ record_len' = 0
  /\ UNCHANGED rc

-----------------------------------------------------------------------------
Init ==
  /\ records    = [i \in Slots |-> BlankRecord]
  /\ record_len = 0
  /\ rc         = OK

StoreAManifest == \E a \in ManifestArgs, mem \in BOOLEAN : StoreManifest(a, mem)

StoreAPayload ==
  \E a \in PayloadArgs, mem \in BOOLEAN, sha \in ShaOutcomes : StorePayload(a, mem, sha)

StoreFails == \E d \in Digests \cup {NoDigest} : StoreTableFull(d) \/ StoreUndone(d)

Finalise == \E d \in Digests \cup {NoDigest} : CheckAndUpdate(d)

ReadList == \E capacity \in 0 .. MaxRecords : GetTcList(capacity)

Next ==
  \/ StoreAManifest
  \/ StoreAPayload
  \/ StoreFails
  \/ Finalise
  \/ ReadList
  \/ RemoveAll

Spec == Init /\ [][Next]_vars

-----------------------------------------------------------------------------
(* Properties.                                                             *)

(* The variables have the types of the declarations in tc_manager.cpp.     *)
TypeOK ==
  /\ records \in [Slots -> Record]
  /\ record_len \in 0 .. MaxRecords
  /\ rc \in {OK, ERROR}

(* The digest is a key: no two active records carry the same one, and none *)
(* is without.  find_by_digest takes the first match, and the loops over   *)
(* the active slots never ask, so a second record for a digest would be    *)
(* out of reach for ever.                                                  *)
DigestIsKey ==
  \A i \in Active :
    /\ records[i].manifest_digest # NoDigest
    /\ \A j \in Active \ {i} : records[i].manifest_digest # records[j].manifest_digest

(* The slots past the active ones are zeroed.  manifest_records_alloc      *)
(* hands them out as they are, so a leftover name, sequence number or      *)
(* payload of a deleted record would become part of the next one.          *)
FreeSlotsBlank == \A i \in Slots \ Active : records[i] = BlankRecord

(* The hash that is reported to the TAM and compared by the image-match    *)
(* condition is the hash of the stored payload, whatever failed before.    *)
HashOfPayload ==
  \A i \in Active : records[i].wapp_bin # NoImage => records[i].wapp_hash = records[i].wapp_bin

(* "prevents downgrade" (doc/tc-manager.md): a finalised record leaves the *)
(* table only when a record of the same name, at least as new, stays.      *)
NoDowngrade ==
  [][\A d \in Digests : CheckAndUpdate(d) =>
       \A i \in Active : IsComplete(records[i]) =>
         \E j \in 0 .. record_len' - 1 :
           /\ records'[j].wapp_name = records[i].wapp_name
           /\ records'[j].manifest_sequence_number >= records[i].manifest_sequence_number]_vars

(* The table behaves as the map of TcLedger: through every swap, deletion  *)
(* and reuse of a slot, a call touches the records it is about and no      *)
(* other, and no record is lost or doubled.                                *)
LedgerView ==
  [d \in {records[i].manifest_digest : i \in Active} |->
     records[CHOOSE i \in Active : records[i].manifest_digest = d]]

Ledger == INSTANCE TcLedger WITH ledger <- LedgerView

ImplementsLedger == Ledger!Spec
=============================================================================
