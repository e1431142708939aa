--------------------------- MODULE TcManagerProofs --------------------------
(***************************************************************************)
(* Theorems about TcManager for a table of any size, any digests, names    *)
(* and images, and any set of store arguments.                             *)
(*                                                                         *)
(* TypeOK, DigestIsKey and FreeSlotsBlank are proved together: a store     *)
(* looks a record up before it takes a slot, so the digest stays a key     *)
(* only because the active records are where record_len says they are,     *)
(* and a slot that is taken holds no old data only because every deletion  *)
(* zeroes the slot it gives up.  NoDowngrade and the refinement of         *)
(* TcLedger then follow from that invariant.                               *)
(***************************************************************************)
EXTENDS TcManager, FiniteSetTheorems, TLAPS

-----------------------------------------------------------------------------
(* A non-empty set of natural numbers has the minimum Min chooses: the     *)
(* loops of tc_manager.cpp that stop at the first match do find one.       *)
LEMMA MinIsLeast ==
  ASSUME NEW S \in SUBSET Nat, S # {}
  PROVE  Min(S) \in S /\ \A y \in S : Min(S) <= y
<1> DEFINE Below == {0 .. x : x \in S}
<1>1. Below \subseteq FiniteSubsetsOf(Nat) /\ Below # {}
  <2>1. \A x \in S : IsFiniteSet(0 .. x) /\ 0 .. x \subseteq Nat
    BY FS_Interval
  <2> QED
    BY <2>1 DEF FiniteSubsetsOf
<1>2. PICK B \in Below : \A C \in Below : ~ (<<C, B>> \in StrictSubsetOrdering(Nat))
  <2> HIDE DEF Below
  <2> QED
    BY <1>1, FS_StrictSubsetOrderingWellFounded, WFMin
<1>3. PICK x \in S : B = 0 .. x
  BY <1>2
<1>4. \A y \in S : x <= y
  <2> SUFFICES ASSUME NEW y \in S, y < x PROVE FALSE
    OBVIOUS
  <2>1. 0 .. y \subseteq B /\ 0 .. y # B
    BY <1>3
  <2>2. <<0 .. y, B>> \in StrictSubsetOrdering(Nat)
    BY <2>1, <1>3 DEF StrictSubsetOrdering
  <2> QED
    BY <1>2, <2>2
<1> QED
  BY <1>4 DEF Min

-----------------------------------------------------------------------------
(* The invariant, as predicates of a table and its length, so that the     *)
(* intermediate tables of a finalisation can be spoken of.                 *)

Keyed(recs, len) ==
  \A i \in 0 .. len - 1 :
    /\ recs[i].manifest_digest # NoDigest
    /\ \A j \in 0 .. len - 1 : recs[i].manifest_digest = recs[j].manifest_digest => i = j

BlankBeyond(recs, len) == \A i \in Slots : i >= len => recs[i] = BlankRecord

Table(recs, len) ==
  /\ recs \in [Slots -> Record]
  /\ len \in 0 .. MaxRecords
  /\ Keyed(recs, len)
  /\ BlankBeyond(recs, len)

IInv == Table(records, record_len) /\ rc \in {OK, ERROR}

LEMMA IInvIsTheInvariants == IInv <=> TypeOK /\ DigestIsKey /\ FreeSlotsBlank
<1> USE TcManagerAssumption
<1>1. ASSUME IInv PROVE TypeOK /\ DigestIsKey /\ FreeSlotsBlank
  BY <1>1 DEF IInv, Table, Keyed, BlankBeyond, TypeOK, DigestIsKey, FreeSlotsBlank,
              Active, Slots
<1>2. ASSUME TypeOK, DigestIsKey, FreeSlotsBlank PROVE IInv
  BY <1>2 DEF IInv, Table, Keyed, BlankBeyond, TypeOK, DigestIsKey, FreeSlotsBlank,
              Active, Slots
<1> QED
  BY <1>1, <1>2

LEMMA BlankIsRecord == BlankRecord \in Record
  BY RecordAssumption DEF BlankRecord, Record

-----------------------------------------------------------------------------
(* remove_at and swapped, cell by cell.                                    *)

LEMMA RemoveAtCells ==
  ASSUME NEW recs \in [Slots -> Record], NEW len \in 1 .. MaxRecords, NEW i \in 0 .. len - 1
  PROVE  /\ remove_at(recs, len, i) \in [Slots -> Record]
         /\ \A j \in Slots : remove_at(recs, len, i)[j] =
              IF j = len - 1 THEN BlankRecord ELSE IF j = i THEN recs[len - 1] ELSE recs[j]
BY TcManagerAssumption, BlankIsRecord DEF remove_at, Slots

LEMMA SwappedCells ==
  ASSUME NEW recs \in [Slots -> Record], NEW i \in Slots, NEW j \in Slots
  PROVE  /\ swapped(recs, i, j) \in [Slots -> Record]
         /\ \A k \in Slots : swapped(recs, i, j)[k] =
              IF k = j THEN recs[i] ELSE IF k = i THEN recs[j] ELSE recs[k]
BY DEF swapped, Slots

(* Deleting a record keeps the table in order.                             *)
LEMMA RemoveAtTable ==
  ASSUME NEW recs, NEW len \in 1 .. MaxRecords, Table(recs, len), NEW i \in 0 .. len - 1
  PROVE  Table(remove_at(recs, len, i), len - 1)
<1> USE TcManagerAssumption
<1> DEFINE new == remove_at(recs, len, i)
<1>1. recs \in [Slots -> Record] /\ Keyed(recs, len) /\ BlankBeyond(recs, len)
  BY DEF Table
<1>2. /\ new \in [Slots -> Record]
      /\ \A j \in Slots : new[j] =
           IF j = len - 1 THEN BlankRecord ELSE IF j = i THEN recs[len - 1] ELSE recs[j]
  BY <1>1, RemoveAtCells
<1> HIDE DEF new
<1>3. Keyed(new, len - 1)
  BY <1>1, <1>2 DEF Keyed, Slots
<1>4. BlankBeyond(new, len - 1)
  BY <1>1, <1>2 DEF BlankBeyond, Slots
<1> QED
  BY <1>2, <1>3, <1>4 DEF Table, new

(* ... and so does swapping two active records.                            *)
LEMMA SwappedTable ==
  ASSUME NEW recs, NEW len \in 0 .. MaxRecords, Table(recs, len),
         NEW i \in 0 .. len - 1, NEW j \in 0 .. len - 1
  PROVE  Table(swapped(recs, i, j), len)
<1> USE TcManagerAssumption
<1> DEFINE new == swapped(recs, i, j)
<1>1. recs \in [Slots -> Record] /\ Keyed(recs, len) /\ BlankBeyond(recs, len)
  BY DEF Table
<1>2. i \in Slots /\ j \in Slots
  BY DEF Slots
<1>3. /\ new \in [Slots -> Record]
      /\ \A k \in Slots : new[k] =
           IF k = j THEN recs[i] ELSE IF k = i THEN recs[j] ELSE recs[k]
  BY <1>1, <1>2, SwappedCells
<1> HIDE DEF new
<1>4. Keyed(new, len)
  BY <1>1, <1>3 DEF Keyed, Slots
<1>5. BlankBeyond(new, len)
  BY <1>1, <1>2, <1>3 DEF BlankBeyond, Slots
<1> QED
  BY <1>3, <1>4, <1>5 DEF Table, new

-----------------------------------------------------------------------------
(* Lookups.                                                                *)

(* A digest that is there has one record, and the lookup returns it.       *)
LEMMA LookupByDigest ==
  ASSUME Table(records, record_len), NEW d, WithDigest(d) # {}
  PROVE  /\ Min(WithDigest(d)) \in Active
         /\ records[Min(WithDigest(d))].manifest_digest = d
         /\ d # NoDigest
<1>1. WithDigest(d) \in SUBSET Nat
  BY TcManagerAssumption DEF WithDigest, Active, Table
<1>2. Min(WithDigest(d)) \in WithDigest(d)
  BY <1>1, MinIsLeast
<1> QED
  BY <1>2 DEF WithDigest

(* The record update_or_discard compares with is another active record of  *)
(* the same application.                                                   *)
LEMMA FirstDuplicate ==
  ASSUME Table(records, record_len), NEW i, Duplicates(i) # {}
  PROVE  /\ Min(Duplicates(i)) \in Active \ {i}
         /\ records[Min(Duplicates(i))].wapp_name = records[i].wapp_name
         /\ records[i].wapp_name # NoName
<1>1. Duplicates(i) \in SUBSET Nat
  BY TcManagerAssumption DEF Duplicates, Active, Table
<1>2. Min(Duplicates(i)) \in Duplicates(i)
  BY <1>1, MinIsLeast
<1> QED
  BY <1>2 DEF Duplicates

-----------------------------------------------------------------------------
(* Stores.                                                                 *)

LEMMA StoredManifestIsRecord ==
  ASSUME NEW r \in Record, NEW a \in ManifestStore, NEW mem \in BOOLEAN
  PROVE  /\ StoredManifest(r, a, mem) \in Record
         /\ StoredManifest(r, a, mem).manifest_digest = a.manifest_digest
<1> DEFINE name == set_ids_from_component_id(a.dst, r.manifest_name)
           bin  == a.src_buf /\ mem
<1>1. name \in Names \cup {NoName}
  BY DEF set_ids_from_component_id, Record, ManifestStore
<1>2. bin \in BOOLEAN
  OBVIOUS
<1>3. /\ a.manifest_digest \in Digests \cup {NoDigest}
      /\ a.manifest_sequence_number \in Seqs
  BY DEF ManifestStore
<1>4. StoredManifest(r, a, mem) =
        [r EXCEPT !.manifest_digest = a.manifest_digest,
                  !.manifest_sequence_number = a.manifest_sequence_number,
                  !.manifest_name = name, !.manifest_bin = bin]
  BY Zenon DEF StoredManifest
<1> HIDE DEF name, bin
<1> QED
  BY <1>1, <1>2, <1>3, <1>4 DEF Record

LEMMA StoredPayloadIsRecord ==
  ASSUME NEW r \in Record, NEW a \in PayloadStore, NEW mem \in BOOLEAN, NEW sha \in BOOLEAN
  PROVE  /\ StoredPayload(r, a, mem, sha) \in Record
         /\ StoredPayload(r, a, mem, sha).manifest_digest = a.manifest_digest
<1> DEFINE name == set_ids_from_component_id(a.dst, r.wapp_name)
           bin  == IF a.src_buf # NoImage /\ mem THEN a.src_buf ELSE NoImage
           hash == IF (a.src_buf # NoImage /\ mem) /\ sha THEN a.src_buf ELSE r.wapp_hash
<1>1. name \in Names \cup {NoName}
  BY DEF set_ids_from_component_id, Record, PayloadStore
<1>2. bin \in Images \cup {NoImage} /\ hash \in Images \cup {NoImage}
  BY DEF Record, PayloadStore
<1>3. a.manifest_digest \in Digests \cup {NoDigest}
  BY DEF PayloadStore
<1>4. StoredPayload(r, a, mem, sha) =
        [r EXCEPT !.manifest_digest = a.manifest_digest, !.wapp_name = name,
                  !.wapp_bin = bin, !.wapp_hash = hash]
  BY Zenon DEF StoredPayload
<1> HIDE DEF name, bin, hash
<1> QED
  BY <1>1, <1>2, <1>3, <1>4 DEF Record

(* The slot of a store: the record of d, or the first free one.            *)
LEMMA TargetSlotCases ==
  ASSUME Table(records, record_len), NEW d, CanStore(d)
  PROVE  /\ TargetSlot(d) \in Slots
         /\ \/ TargetSlot(d) \in Active /\ records[TargetSlot(d)].manifest_digest = d
            \/ TargetSlot(d) = record_len /\ WithDigest(d) = {} /\ record_len < MaxRecords
<1> USE TcManagerAssumption
<1>1. CASE WithDigest(d) # {}
  <2>1. TargetSlot(d) = Min(WithDigest(d))
    BY <1>1 DEF TargetSlot
  <2>2. TargetSlot(d) \in Active /\ records[TargetSlot(d)].manifest_digest = d
    BY <1>1, <2>1, LookupByDigest
  <2> QED
    BY <2>2 DEF Active, Slots, Table
<1>2. CASE WithDigest(d) = {}
  <2>1. TargetSlot(d) = record_len /\ record_len < MaxRecords
    BY <1>2 DEF TargetSlot, CanStore
  <2> QED
    BY <1>2, <2>1 DEF Slots, Table
<1> QED
  BY <1>1, <1>2

(* Writing a record of digest d to the slot of d keeps the table in order. *)
LEMMA PutTable ==
  ASSUME Table(records, record_len), NEW d, CanStore(d),
         NEW r \in Record, r.manifest_digest = d, Put(TargetSlot(d), r)
  PROVE  Table(records, record_len)'
<1> USE TcManagerAssumption
<1> DEFINE i == TargetSlot(d)
<1>1. /\ i \in Slots
      /\ \/ i \in Active /\ records[i].manifest_digest = d
         \/ i = record_len /\ WithDigest(d) = {} /\ record_len < MaxRecords
  BY TargetSlotCases
<1>2. /\ records \in [Slots -> Record]
      /\ record_len \in 0 .. MaxRecords
      /\ Keyed(records, record_len)
      /\ BlankBeyond(records, record_len)
  BY DEF Table
<1>3. d # NoDigest
  BY DEF CanStore
<1>4. /\ records' = [records EXCEPT ![i] = r]
      /\ record_len' = IF i = record_len THEN record_len + 1 ELSE record_len
  BY DEF Put
<1> HIDE DEF i
<1>5. records' \in [Slots -> Record]
  BY <1>1, <1>2, <1>4
<1>6. record_len' \in 0 .. MaxRecords
  BY <1>1, <1>2, <1>4 DEF Active
<1>7. \A j \in Slots : records'[j] = IF j = i THEN r ELSE records[j]
  BY <1>1, <1>2, <1>4
<1>8. Keyed(records', record_len')
  <2>1. CASE i \in Active /\ records[i].manifest_digest = d
    <3>1. record_len' = record_len
      BY <2>1, <1>2, <1>4 DEF Active
    <3>2. \A j \in 0 .. record_len - 1 :
            records'[j].manifest_digest = records[j].manifest_digest
      BY <2>1, <1>2, <1>7 DEF Slots
    <3> QED
      BY <1>2, <3>1, <3>2 DEF Keyed
  <2>2. CASE i = record_len /\ WithDigest(d) = {} /\ record_len < MaxRecords
    <3>1. \A j \in 0 .. record_len - 1 : records[j].manifest_digest # d
      BY <2>2, <1>3 DEF WithDigest, Active
    <3>2. record_len' = record_len + 1
      BY <2>2, <1>4
    <3>3. \A j \in 0 .. record_len : records'[j] = IF j = record_len THEN r ELSE records[j]
      BY <2>2, <1>2, <1>7 DEF Slots
    <3> QED
      BY <1>2, <1>3, <3>1, <3>2, <3>3 DEF Keyed
  <2> QED
    BY <1>1, <2>1, <2>2
<1>9. BlankBeyond(records', record_len')
  BY <1>1, <1>2, <1>4, <1>7 DEF BlankBeyond, Active, Slots
<1> QED
  BY <1>5, <1>6, <1>8, <1>9 DEF Table

-----------------------------------------------------------------------------
(* The table after update_or_discard: one of the two duplicates is gone.   *)

LEMMA UpdateOrDiscardTable ==
  ASSUME Table(records, record_len), NEW i \in Active, Duplicates(i) # {}
  PROVE  Table(update_or_discard(i), record_len - 1)
<1> USE TcManagerAssumption
<1> DEFINE o == Min(Duplicates(i))
<1>1. o \in Active \ {i}
  BY FirstDuplicate
<1>2. /\ record_len \in 1 .. MaxRecords
      /\ i \in 0 .. record_len - 1
      /\ o \in 0 .. record_len - 1
  BY <1>1 DEF Active, Table
<1> HIDE DEF o
<1>3. CASE records[o].manifest_sequence_number <= records[i].manifest_sequence_number
  <2>1. Table(swapped(records, o, i), record_len)
    BY <1>2, SwappedTable
  <2>2. Table(remove_at(swapped(records, o, i), record_len, i), record_len - 1)
    BY <1>2, <2>1, RemoveAtTable
  <2> QED
    BY <1>3, <2>2 DEF update_or_discard, o
<1>4. CASE ~(records[o].manifest_sequence_number <= records[i].manifest_sequence_number)
  <2>1. Table(remove_at(records, record_len, i), record_len - 1)
    BY <1>2, RemoveAtTable
  <2> QED
    BY <1>4, <2>1 DEF update_or_discard, o
<1> QED
  BY <1>3, <1>4

-----------------------------------------------------------------------------
(* The invariant is inductive: one step per action.                        *)

LEMMA InitIInv == Init => IInv
<1> USE TcManagerAssumption
<1> SUFFICES ASSUME Init PROVE IInv
  OBVIOUS
<1>1. records \in [Slots -> Record] /\ record_len \in 0 .. MaxRecords
  BY BlankIsRecord DEF Init
<1>2. Keyed(records, record_len)
  BY DEF Init, Keyed
<1>3. BlankBeyond(records, record_len)
  BY DEF Init, BlankBeyond
<1> QED
  BY <1>1, <1>2, <1>3 DEF IInv, Table, Init

LEMMA StoreAManifestIInv == IInv /\ StoreAManifest => IInv'
<1> SUFFICES ASSUME IInv, NEW a \in ManifestArgs, NEW mem \in BOOLEAN, StoreManifest(a, mem)
             PROVE  IInv'
  BY DEF StoreAManifest
<1> DEFINE i == TargetSlot(a.manifest_digest)
           r == StoredManifest(records[i], a, mem)
<1>1. Table(records, record_len) /\ a \in ManifestStore /\ CanStore(a.manifest_digest)
  BY TcManagerAssumption DEF IInv, StoreManifest
<1>2. records[i] \in Record
  BY <1>1, TargetSlotCases DEF Table
<1>3. r \in Record /\ r.manifest_digest = a.manifest_digest
  BY <1>1, <1>2, StoredManifestIsRecord
<1>4. Put(i, r)
  BY DEF StoreManifest
<1>5. Table(records, record_len)'
  <2> HIDE DEF r
  <2> QED
    BY <1>1, <1>3, <1>4, PutTable
<1> QED
  BY <1>5 DEF IInv, StoreManifest, OK, ERROR

LEMMA StoreAPayloadIInv == IInv /\ StoreAPayload => IInv'
<1> SUFFICES ASSUME IInv, NEW a \in PayloadArgs, NEW mem \in BOOLEAN,
                    NEW sha \in ShaOutcomes, StorePayload(a, mem, sha)
             PROVE  IInv'
  BY DEF StoreAPayload
<1> DEFINE i == TargetSlot(a.manifest_digest)
           r == StoredPayload(records[i], a, mem, sha)
<1>1. /\ Table(records, record_len)
      /\ a \in PayloadStore
      /\ sha \in BOOLEAN
      /\ CanStore(a.manifest_digest)
  BY TcManagerAssumption DEF IInv, StorePayload
<1>2. records[i] \in Record
  BY <1>1, TargetSlotCases DEF Table
<1>3. r \in Record /\ r.manifest_digest = a.manifest_digest
  BY <1>1, <1>2, StoredPayloadIsRecord
<1>4. Put(i, r)
  BY DEF StorePayload
<1>5. Table(records, record_len)'
  <2> HIDE DEF r
  <2> QED
    BY <1>1, <1>3, <1>4, PutTable
<1> QED
  BY <1>5 DEF IInv, StorePayload, OK, ERROR

(* A failed store gives back the slot it took: the table is what it was.   *)
LEMMA StoreUndoneChangesNothing ==
  ASSUME IInv, NEW d, StoreUndone(d)
  PROVE  UNCHANGED <<records, record_len>>
<1> USE TcManagerAssumption
<1>1. /\ records \in [Slots -> Record]
      /\ record_len \in 0 .. MaxRecords - 1
      /\ BlankBeyond(records, record_len)
  BY DEF IInv, Table, StoreUndone
<1>2. /\ record_len + 1 \in 1 .. MaxRecords
      /\ record_len \in 0 .. (record_len + 1) - 1
      /\ record_len \in Slots
  BY <1>1 DEF Slots
<1>3. /\ records' \in [Slots -> Record]
      /\ \A j \in Slots : records'[j] =
           IF j = (record_len + 1) - 1 THEN BlankRecord
           ELSE IF j = record_len THEN records[(record_len + 1) - 1] ELSE records[j]
  BY <1>1, <1>2, RemoveAtCells DEF StoreUndone
<1>4. \A j \in Slots : records'[j] = records[j]
  BY <1>1, <1>2, <1>3 DEF BlankBeyond
<1>5. records' = records
  BY <1>1, <1>3, <1>4
<1> QED
  BY <1>5 DEF StoreUndone

LEMMA StoreFailsIInv == IInv /\ StoreFails => IInv'
<1> SUFFICES ASSUME IInv, NEW d, StoreTableFull(d) \/ StoreUndone(d) PROVE IInv'
  BY DEF StoreFails
<1>1. UNCHANGED <<records, record_len>> /\ rc' = ERROR
  BY StoreUndoneChangesNothing DEF StoreTableFull, StoreUndone
<1> QED
  BY <1>1 DEF IInv

LEMMA FinaliseIInv == IInv /\ Finalise => IInv'
<1> USE TcManagerAssumption
<1> SUFFICES ASSUME IInv, NEW d, CheckAndUpdate(d) PROVE IInv'
  BY DEF Finalise
<1>1. Table(records, record_len)
  BY DEF IInv
<1>2. CASE CheckNotFound(d)
  BY <1>2 DEF CheckNotFound, IInv
<1>3. CASE CheckIncomplete(d)
  <2> DEFINE i == Min(WithDigest(d))
  <2>1. i \in Active
    BY <1>1, <1>3, LookupByDigest DEF CheckIncomplete
  <2>2. record_len \in 1 .. MaxRecords /\ i \in 0 .. record_len - 1
    BY <1>1, <2>1 DEF Active, Table
  <2>3. Table(remove_at(records, record_len, i), record_len - 1)
    BY <1>1, <2>2, RemoveAtTable
  <2> QED
    BY <1>3, <2>3 DEF CheckIncomplete, IInv
<1>4. CASE CheckComplete(d)
  <2> DEFINE i == Min(WithDigest(d))
  <2>1. i \in Active
    BY <1>1, <1>4, LookupByDigest DEF CheckComplete
  <2>2. CASE Duplicates(i) = {}
    BY <1>4, <2>2 DEF CheckComplete, IInv
  <2>3. CASE Duplicates(i) # {}
    <3>1. Table(update_or_discard(i), record_len - 1)
      BY <1>1, <2>1, <2>3, UpdateOrDiscardTable
    <3> QED
      BY <1>4, <2>3, <3>1 DEF CheckComplete, IInv
  <2> QED
    BY <2>2, <2>3
<1> QED
  BY <1>2, <1>3, <1>4 DEF CheckAndUpdate

LEMMA RemoveAllIInv == IInv /\ RemoveAll => IInv'
<1> USE TcManagerAssumption
<1> SUFFICES ASSUME IInv, RemoveAll PROVE IInv'
  OBVIOUS
<1>1. /\ records \in [Slots -> Record]
      /\ record_len \in 0 .. MaxRecords
      /\ BlankBeyond(records, record_len)
  BY DEF IInv, Table
<1>2. \A i \in Slots : records'[i] = BlankRecord
  BY <1>1 DEF RemoveAll, BlankBeyond, Active, Slots
<1>3. records' \in [Slots -> Record] /\ record_len' = 0 /\ rc' = rc
  BY <1>1, BlankIsRecord DEF RemoveAll
<1> QED
  BY <1>2, <1>3 DEF IInv, Table, Keyed, BlankBeyond

LEMMA NextIInv == IInv /\ [Next]_vars => IInv'
<1> SUFFICES ASSUME IInv, [Next]_vars PROVE IInv'
  OBVIOUS
<1>1. CASE StoreAManifest
  BY <1>1, StoreAManifestIInv
<1>2. CASE StoreAPayload
  BY <1>2, StoreAPayloadIInv
<1>3. CASE StoreFails
  BY <1>3, StoreFailsIInv
<1>4. CASE Finalise
  BY <1>4, FinaliseIInv
<1>5. CASE ReadList
  BY <1>5 DEF ReadList, GetTcList, IInv, OK, ERROR
<1>6. CASE RemoveAll
  BY <1>6, RemoveAllIInv
<1>7. CASE UNCHANGED vars
  BY <1>7 DEF IInv, vars
<1> QED
  BY <1>1, <1>2, <1>3, <1>4, <1>5, <1>6, <1>7 DEF Next

LEMMA SpecIInv == Spec => []IInv
BY InitIInv, NextIInv, PTL DEF Spec

(* The variables keep their types: no call runs past the table or leaves   *)
(* a record half-made.                                                     *)
THEOREM TypeCorrect == Spec => []TypeOK
BY SpecIInv, IInvIsTheInvariants, PTL

(* No digest has two records, whatever was stored, deleted and swapped.    *)
THEOREM DigestStaysKey == Spec => []DigestIsKey
BY SpecIInv, IInvIsTheInvariants, PTL

(* A slot that is handed out holds nothing of the record it had before.    *)
THEOREM FreeSlotsStayBlank == Spec => []FreeSlotsBlank
BY SpecIInv, IInvIsTheInvariants, PTL

-----------------------------------------------------------------------------
(* The table as a map from digests to records.                             *)

DigestsOf(recs, len) == {recs[i].manifest_digest : i \in 0 .. len - 1}

ViewOf(recs, len) ==
  [d \in DigestsOf(recs, len) |->
     recs[CHOOSE i \in 0 .. len - 1 : recs[i].manifest_digest = d]]

LEMMA LedgerViewIsView == LedgerView = ViewOf(records, record_len)
BY DEF LedgerView, ViewOf, DigestsOf, Active

(* The digest being a key, the view has exactly the active records.        *)
LEMMA ViewCells ==
  ASSUME NEW recs, NEW len, Table(recs, len)
  PROVE  /\ DOMAIN ViewOf(recs, len) = DigestsOf(recs, len)
         /\ \A i \in 0 .. len - 1 : ViewOf(recs, len)[recs[i].manifest_digest] = recs[i]
         /\ \A i \in 0 .. len - 1 : recs[i].manifest_digest \in Digests
         /\ \A i \in 0 .. len - 1 : recs[i] \in Record
<1> USE TcManagerAssumption
<1> DEFINE At(d) == CHOOSE i \in 0 .. len - 1 : recs[i].manifest_digest = d
<1>1. ASSUME NEW i \in 0 .. len - 1
      PROVE  At(recs[i].manifest_digest) = i
  BY DEF Table, Keyed
<1>2. ASSUME NEW i \in 0 .. len - 1
      PROVE  ViewOf(recs, len)[recs[i].manifest_digest] = recs[i]
  BY <1>1 DEF ViewOf, DigestsOf
<1>3. \A i \in 0 .. len - 1 : recs[i] \in Record
  BY DEF Table, Slots
<1>4. \A i \in 0 .. len - 1 : recs[i].manifest_digest \in Digests
  BY <1>3 DEF Table, Keyed, Record
<1>5. DOMAIN ViewOf(recs, len) = DigestsOf(recs, len)
  BY DEF ViewOf
<1> QED
  BY <1>2, <1>3, <1>4, <1>5

LEMMA ViewIsFunction ==
  ASSUME NEW recs, NEW len, Table(recs, len)
  PROVE  /\ ViewOf(recs, len) \in [DOMAIN ViewOf(recs, len) -> Record]
         /\ DOMAIN ViewOf(recs, len) \subseteq Digests
<1>1. /\ DOMAIN ViewOf(recs, len) = DigestsOf(recs, len)
      /\ \A i \in 0 .. len - 1 : ViewOf(recs, len)[recs[i].manifest_digest] = recs[i]
      /\ \A i \in 0 .. len - 1 : recs[i].manifest_digest \in Digests
      /\ \A i \in 0 .. len - 1 : recs[i] \in Record
  BY ViewCells
<1>2. ViewOf(recs, len) = [d \in DOMAIN ViewOf(recs, len) |-> ViewOf(recs, len)[d]]
  BY DEF ViewOf
<1> HIDE DEF ViewOf
<1>3. ASSUME NEW d \in DigestsOf(recs, len)
      PROVE  d \in Digests /\ ViewOf(recs, len)[d] \in Record
  <2>1. PICK i \in 0 .. len - 1 : d = recs[i].manifest_digest
    BY DEF DigestsOf
  <2> QED
    BY <1>1, <2>1
<1> QED
  BY <1>1, <1>2, <1>3

(* A function that has the records of a table at their digests agrees with *)
(* its view.                                                               *)
LEMMA ViewAgrees ==
  ASSUME NEW recs, NEW len, Table(recs, len), NEW S, NEW f, S = DigestsOf(recs, len),
         \A i \in 0 .. len - 1 : f[recs[i].manifest_digest] = recs[i]
  PROVE  ViewOf(recs, len) = [d \in S |-> f[d]]
<1>1. /\ DOMAIN ViewOf(recs, len) = S
      /\ \A i \in 0 .. len - 1 : ViewOf(recs, len)[recs[i].manifest_digest] = recs[i]
  BY ViewCells
<1>2. ASSUME NEW d \in S PROVE ViewOf(recs, len)[d] = f[d]
  <2>1. PICK i \in 0 .. len - 1 : d = recs[i].manifest_digest
    BY DEF DigestsOf
  <2> QED
    BY <1>1, <2>1
<1>3. ViewOf(recs, len) = [d \in DOMAIN ViewOf(recs, len) |-> ViewOf(recs, len)[d]]
  BY DEF ViewOf
<1> HIDE DEF ViewOf
<1> QED
  BY <1>1, <1>2, <1>3

(* Deleting record i takes its digest out of the view, and nothing else.   *)
LEMMA ViewRemoved ==
  ASSUME NEW recs, NEW len \in 1 .. MaxRecords, Table(recs, len), NEW i \in 0 .. len - 1
  PROVE  ViewOf(remove_at(recs, len, i), len - 1) =
           Restrict(ViewOf(recs, len), DOMAIN ViewOf(recs, len) \ {recs[i].manifest_digest})
<1> USE TcManagerAssumption
<1> DEFINE new  == remove_at(recs, len, i)
           view == ViewOf(recs, len)
           S    == DOMAIN view \ {recs[i].manifest_digest}
<1>1. Table(new, len - 1)
  BY RemoveAtTable
<1>2. \A j \in Slots : new[j] =
        IF j = len - 1 THEN BlankRecord ELSE IF j = i THEN recs[len - 1] ELSE recs[j]
  BY RemoveAtCells DEF Table
<1>3. /\ DOMAIN view = DigestsOf(recs, len)
      /\ \A j \in 0 .. len - 1 : view[recs[j].manifest_digest] = recs[j]
  BY ViewCells
<1> HIDE DEF new, view
<1>4. \A j \in 0 .. len - 2 : new[j] = IF j = i THEN recs[len - 1] ELSE recs[j]
  BY <1>2 DEF Slots
<1>5. \A j \in (0 .. len - 1) \ {i} : recs[j].manifest_digest # recs[i].manifest_digest
  BY DEF Table, Keyed
<1>6. S = DigestsOf(new, len - 1)
  <2>1. ASSUME NEW j \in (0 .. len - 1) \ {i}
        PROVE  \E k \in 0 .. (len - 1) - 1 : new[k] = recs[j]
    <3>1. CASE j = len - 1
      BY <3>1, <1>4
    <3>2. CASE j # len - 1
      BY <3>2, <1>4
    <3> QED
      BY <3>1, <3>2
  <2>2. ASSUME NEW k \in 0 .. (len - 1) - 1
        PROVE  \E j \in (0 .. len - 1) \ {i} : new[k] = recs[j]
    BY <1>4
  <2>3. ASSUME NEW d \in S PROVE \E k \in 0 .. (len - 1) - 1 : d = new[k].manifest_digest
    <3>1. PICK j \in (0 .. len - 1) \ {i} : d = recs[j].manifest_digest
      BY <1>3 DEF DigestsOf
    <3> QED
      BY <3>1, <2>1
  <2>4. ASSUME NEW k \in 0 .. (len - 1) - 1 PROVE new[k].manifest_digest \in S
    <3>1. PICK j \in (0 .. len - 1) \ {i} : new[k] = recs[j]
      BY <2>2
    <3> QED
      BY <3>1, <1>3, <1>5 DEF DigestsOf
  <2> QED
    BY <2>3, <2>4 DEF DigestsOf
<1>7. \A j \in 0 .. (len - 1) - 1 : view[new[j].manifest_digest] = new[j]
  BY <1>3, <1>4
<1>8. ViewOf(new, len - 1) = [d \in S |-> view[d]]
  <2> HIDE DEF S
  <2> QED
    BY <1>1, <1>6, <1>7, ViewAgrees
<1> QED
  BY <1>8 DEF Restrict, new, view

(* Swapping two active records does not show.                              *)
LEMMA ViewSwapped ==
  ASSUME NEW recs, NEW len \in 0 .. MaxRecords, Table(recs, len),
         NEW i \in 0 .. len - 1, NEW j \in 0 .. len - 1
  PROVE  ViewOf(swapped(recs, i, j), len) = ViewOf(recs, len)
<1> USE TcManagerAssumption
<1> DEFINE new  == swapped(recs, i, j)
           view == ViewOf(recs, len)
           S    == DOMAIN view
<1>1. Table(new, len)
  BY SwappedTable
<1>2. \A k \in 0 .. len - 1 :
        new[k] = IF k = j THEN recs[i] ELSE IF k = i THEN recs[j] ELSE recs[k]
  BY SwappedCells DEF Table, Slots
<1>3. /\ S = DigestsOf(recs, len)
      /\ \A k \in 0 .. len - 1 : view[recs[k].manifest_digest] = recs[k]
  BY ViewCells
<1>4. view = [d \in S |-> view[d]]
  BY DEF ViewOf
<1> HIDE DEF new, view, S
<1>5. S = DigestsOf(new, len)
  <2>1. ASSUME NEW k \in 0 .. len - 1 PROVE \E l \in 0 .. len - 1 : new[l] = recs[k]
    BY <1>2
  <2>2. ASSUME NEW k \in 0 .. len - 1 PROVE \E l \in 0 .. len - 1 : new[k] = recs[l]
    BY <1>2
  <2>3. ASSUME NEW d \in S PROVE \E l \in 0 .. len - 1 : d = new[l].manifest_digest
    <3>1. PICK k \in 0 .. len - 1 : d = recs[k].manifest_digest
      BY <1>3 DEF DigestsOf
    <3> QED
      BY <3>1, <2>1
  <2>4. ASSUME NEW k \in 0 .. len - 1 PROVE new[k].manifest_digest \in S
    <3>1. PICK l \in 0 .. len - 1 : new[k] = recs[l]
      BY <2>2
    <3> QED
      BY <3>1, <1>3 DEF DigestsOf
  <2> QED
    BY <2>3, <2>4 DEF DigestsOf
<1>6. \A k \in 0 .. len - 1 : view[new[k].manifest_digest] = new[k]
  BY <1>2, <1>3
<1>7. ViewOf(new, len) = [d \in S |-> view[d]]
  BY <1>1, <1>5, <1>6, ViewAgrees
<1> QED
  BY <1>4, <1>7 DEF new, view

(* A store shows at its own digest only.                                   *)
LEMMA ViewPut ==
  ASSUME Table(records, record_len), Table(records, record_len)', NEW d, CanStore(d),
         NEW r, r.manifest_digest = d, Put(TargetSlot(d), r)
  PROVE  /\ DOMAIN LedgerView' = DOMAIN LedgerView \cup {d}
         /\ \A k \in DOMAIN LedgerView \ {d} : LedgerView'[k] = LedgerView[k]
<1> USE TcManagerAssumption
<1> DEFINE i == TargetSlot(d)
<1>1. /\ i \in Slots
      /\ \/ i \in Active /\ records[i].manifest_digest = d
         \/ i = record_len /\ WithDigest(d) = {} /\ record_len < MaxRecords
  BY TargetSlotCases
<1>2. /\ records \in [Slots -> Record]
      /\ record_len \in 0 .. MaxRecords
  BY DEF Table
<1>3. /\ records' = [records EXCEPT ![i] = r]
      /\ record_len' = IF i = record_len THEN record_len + 1 ELSE record_len
  BY DEF Put
<1>4. /\ DOMAIN LedgerView = DigestsOf(records, record_len)
      /\ \A j \in 0 .. record_len - 1 : LedgerView[records[j].manifest_digest] = records[j]
  BY LedgerViewIsView, ViewCells
<1>5. /\ DOMAIN LedgerView' = DigestsOf(records', record_len')
      /\ \A j \in 0 .. record_len' - 1 : LedgerView'[records'[j].manifest_digest] = records'[j]
  <2>1. LedgerView' = ViewOf(records', record_len')
    BY DEF LedgerView, ViewOf, DigestsOf, Active
  <2> QED
    BY <2>1, ViewCells
<1> HIDE DEF i
<1>6. \A j \in Slots : records'[j] = IF j = i THEN r ELSE records[j]
  BY <1>1, <1>2, <1>3
<1>7. i \in 0 .. record_len' - 1 /\ records'[i].manifest_digest = d
  BY <1>1, <1>2, <1>3, <1>6 DEF Active
<1>8. ASSUME NEW j \in 0 .. record_len - 1, records[j].manifest_digest # d
      PROVE  j \in 0 .. record_len' - 1 /\ records'[j] = records[j]
  BY <1>1, <1>2, <1>3, <1>6, <1>8 DEF Active, Slots
<1>9. ASSUME NEW j \in 0 .. record_len' - 1, j # i
      PROVE  j \in 0 .. record_len - 1 /\ records'[j] = records[j]
  BY <1>1, <1>2, <1>3, <1>6, <1>9 DEF Active, Slots
<1>10. ASSUME NEW k \in DOMAIN LedgerView \ {d}
       PROVE  k \in DOMAIN LedgerView' /\ LedgerView'[k] = LedgerView[k]
  <2>1. PICK j \in 0 .. record_len - 1 : k = records[j].manifest_digest
    BY <1>4 DEF DigestsOf
  <2>2. j \in 0 .. record_len' - 1 /\ records'[j] = records[j]
    BY <1>8, <2>1
  <2> QED
    BY <1>4, <1>5, <2>1, <2>2 DEF DigestsOf
<1>11. d \in DOMAIN LedgerView'
  BY <1>5, <1>7 DEF DigestsOf
<1>12. ASSUME NEW k \in DOMAIN LedgerView', k # d PROVE k \in DOMAIN LedgerView
  <2>1. PICK j \in 0 .. record_len' - 1 : k = records'[j].manifest_digest
    BY <1>5 DEF DigestsOf
  <2>2. j \in 0 .. record_len - 1 /\ records'[j] = records[j]
    BY <1>7, <1>9, <1>12, <2>1
  <2> QED
    BY <1>4, <2>1, <2>2 DEF DigestsOf
<1> QED
  <2>1. ASSUME NEW k \in DOMAIN LedgerView PROVE k \in DOMAIN LedgerView'
    BY <1>10, <1>11
  <2>2. DOMAIN LedgerView' = DOMAIN LedgerView \cup {d}
    <3>1. \A k \in DOMAIN LedgerView' : k \in DOMAIN LedgerView \cup {d}
      BY <1>12
    <3>2. \A k \in DOMAIN LedgerView \cup {d} : k \in DOMAIN LedgerView'
      BY <1>11, <2>1
    <3> QED
      BY <3>1, <3>2
  <2> QED
    BY <1>10, <2>2

(* There are at most as many digests as records.                           *)
LEMMA DigestsBounded ==
  ASSUME NEW recs, NEW len \in Nat
  PROVE  Cardinality(DigestsOf(recs, len)) \in Nat /\ Cardinality(DigestsOf(recs, len)) <= len
<1> DEFINE f == [k \in 1 .. len |-> recs[k - 1].manifest_digest]
<1>1. f \in [1 .. len -> DigestsOf(recs, len)]
  BY DEF DigestsOf
<1>2. \A d \in DigestsOf(recs, len) : \E k \in 1 .. len : f[k] = d
  <2> SUFFICES ASSUME NEW i \in 0 .. len - 1
               PROVE  \E k \in 1 .. len : f[k] = recs[i].manifest_digest
    BY DEF DigestsOf
  <2>1. i + 1 \in 1 .. len /\ f[i + 1] = recs[i].manifest_digest
    OBVIOUS
  <2> QED
    BY <2>1
<1>3. ExistsSurjection(1 .. len, DigestsOf(recs, len))
  <2> HIDE DEF f
  <2> QED
    BY <1>1, <1>2 DEF ExistsSurjection, Surjection
<1>4. IsFiniteSet(DigestsOf(recs, len))
  BY <1>3, FS_NatSurjection
<1> QED
  BY <1>3, <1>4, FS_SurjCardinalityBound, FS_CardinalityType

-----------------------------------------------------------------------------
(* Every call maps to a step of TcLedger or to none.                       *)

LEMMA LedgerTyped ==
  ASSUME Table(records, record_len)
  PROVE  /\ LedgerView \in [DOMAIN LedgerView -> Record]
         /\ DOMAIN LedgerView \subseteq Digests
BY LedgerViewIsView, ViewIsFunction

LEMMA LedgerUnchanged ==
  ASSUME UNCHANGED <<records, record_len>>
  PROVE  UNCHANGED LedgerView
BY DEF LedgerView, Active

(* What TcLedger borrows is what TcManager borrows.                        *)
LEMMA SameOperators ==
  /\ Ledger!Record = Record
  /\ Ledger!BlankRecord = BlankRecord
  /\ \A r : Ledger!IsComplete(r) = IsComplete(r)
  /\ \A f, S : Ledger!Restrict(f, S) = Restrict(f, S)
  /\ \A S : Ledger!Cardinality(S) = Cardinality(S)
<1>1. Ledger!Record = Record /\ Ledger!BlankRecord = BlankRecord
  BY DEF Ledger!Record, Record, Ledger!BlankRecord, BlankRecord
<1>2. \A r : Ledger!IsComplete(r) = IsComplete(r)
  BY DEF Ledger!IsComplete, IsComplete
<1>3. \A f, S : Ledger!Restrict(f, S) = Restrict(f, S)
  BY DEF Ledger!Restrict, Restrict
<1>4. \A S : Ledger!Cardinality(S) = Cardinality(S)
  BY Zenon DEF Ledger!Cardinality, Cardinality
<1> QED
  BY <1>1, <1>2, <1>3, <1>4

LEMMA PutIsWrite ==
  ASSUME Table(records, record_len), Table(records, record_len)', NEW d, CanStore(d),
         NEW r, r.manifest_digest = d, Put(TargetSlot(d), r), rc' \in {OK, ERROR}
  PROVE  Ledger!Write(d)
<1> USE TcManagerAssumption
<1>1. /\ DOMAIN LedgerView' = DOMAIN LedgerView \cup {d}
      /\ \A k \in DOMAIN LedgerView \ {d} : LedgerView'[k] = LedgerView[k]
  BY ViewPut
<1>2. LedgerView' \in [DOMAIN LedgerView' -> Record]
  <2>1. LedgerView' = ViewOf(records', record_len')
    BY DEF LedgerView, ViewOf, DigestsOf, Active
  <2>2. Table(records', record_len')
    OBVIOUS
  <2> QED
    BY <2>1, <2>2, ViewIsFunction
<1>3. d \in DOMAIN LedgerView \/ Cardinality(DOMAIN LedgerView) < MaxRecords
  <2>1. /\ DOMAIN LedgerView = DigestsOf(records, record_len)
        /\ record_len \in 0 .. MaxRecords
    BY LedgerViewIsView, ViewCells DEF Table
  <2>2. CASE WithDigest(d) # {}
    BY <2>1, <2>2, LookupByDigest DEF DigestsOf, Active
  <2>3. CASE record_len < MaxRecords
    <3>1. /\ Cardinality(DigestsOf(records, record_len)) \in Nat
          /\ Cardinality(DigestsOf(records, record_len)) <= record_len
      BY <2>1, DigestsBounded
    <3> QED
      BY <2>1, <2>3, <3>1
  <2> QED
    BY <2>2, <2>3 DEF CanStore
<1> QED
  <2>1. LedgerView' \in [DOMAIN LedgerView \cup {d} -> Record]
    BY <1>1, <1>2
  <2>2. rc' \in {0, 1}
    BY DEF OK, ERROR
  <2> QED
    BY <1>1, <1>3, <2>1, <2>2, SameOperators DEF Ledger!Write, Ledger!Keys

(* Deleting the only record of a digest restricts the map.                 *)
LEMMA RemovalRestricts ==
  ASSUME NEW recs, NEW len \in 1 .. MaxRecords, Table(recs, len),
         ViewOf(recs, len) = LedgerView, NEW i \in 0 .. len - 1,
         records' = remove_at(recs, len, i), record_len' = len - 1
  PROVE  LedgerView' =
           Restrict(LedgerView, DOMAIN LedgerView \ {recs[i].manifest_digest})
<1>1. LedgerView' = ViewOf(records', record_len')
  BY DEF LedgerView, ViewOf, DigestsOf, Active
<1> QED
  BY <1>1, ViewRemoved

LEMMA IncompleteIsDropped ==
  ASSUME IInv, NEW d, CheckIncomplete(d)
  PROVE  d \in Digests /\ Ledger!DropIncomplete(d)
<1> USE TcManagerAssumption
<1> DEFINE i == Min(WithDigest(d))
<1>1. Table(records, record_len)
  BY DEF IInv
<1>2. i \in Active /\ records[i].manifest_digest = d
  BY <1>1, LookupByDigest DEF CheckIncomplete
<1>3. record_len \in 1 .. MaxRecords /\ i \in 0 .. record_len - 1
  BY <1>1, <1>2 DEF Active, Table
<1>4. /\ d \in DOMAIN LedgerView
      /\ d \in Digests
      /\ LedgerView[d] = records[i]
  <2>1. /\ DOMAIN LedgerView = DigestsOf(records, record_len)
        /\ \A j \in 0 .. record_len - 1 : LedgerView[records[j].manifest_digest] = records[j]
        /\ \A j \in 0 .. record_len - 1 : records[j].manifest_digest \in Digests
    BY <1>1, LedgerViewIsView, ViewCells
  <2> QED
    BY <1>2, <1>3, <2>1 DEF DigestsOf
<1>5. ~ IsComplete(records[i])
  BY DEF CheckIncomplete, find_by_digest
<1>6. LedgerView' = Restrict(LedgerView, DOMAIN LedgerView \ {d})
  <2>1. records' = remove_at(records, record_len, i) /\ record_len' = record_len - 1
    BY DEF CheckIncomplete
  <2> HIDE DEF i
  <2> QED
    BY <1>1, <1>2, <1>3, <2>1, LedgerViewIsView, RemovalRestricts
<1>7. rc' = 1
  BY DEF CheckIncomplete, ERROR
<1> QED
  BY <1>4, <1>5, <1>6, <1>7, SameOperators DEF Ledger!DropIncomplete, Ledger!Keys

(* Finalising a complete record accepts it or resolves the one duplicate   *)
(* the loop found.                                                         *)
LEMMA CompleteIsResolved ==
  ASSUME IInv, NEW d, CheckComplete(d)
  PROVE  d \in Digests /\ (Ledger!Accept(d) \/ Ledger!Resolve(d))
<1> USE TcManagerAssumption
<1> DEFINE i == Min(WithDigest(d))
<1>1. Table(records, record_len)
  BY DEF IInv
<1>2. i \in Active /\ records[i].manifest_digest = d
  BY <1>1, LookupByDigest DEF CheckComplete
<1>3. record_len \in 1 .. MaxRecords /\ i \in 0 .. record_len - 1
  BY <1>1, <1>2 DEF Active, Table
<1>4. /\ DOMAIN LedgerView = DigestsOf(records, record_len)
      /\ \A j \in 0 .. record_len - 1 : LedgerView[records[j].manifest_digest] = records[j]
      /\ \A j \in 0 .. record_len - 1 : records[j].manifest_digest \in Digests
  BY <1>1, LedgerViewIsView, ViewCells
<1>5. d \in DOMAIN LedgerView /\ d \in Digests /\ LedgerView[d] = records[i]
  BY <1>2, <1>3, <1>4 DEF DigestsOf
<1>6. IsComplete(records[i]) /\ rc' = 0
  BY DEF CheckComplete, find_by_digest, OK
<1>7. CASE Duplicates(i) = {}
  <2>1. UNCHANGED <<records, record_len>>
    BY <1>7 DEF CheckComplete
  <2>2. ASSUME NEW o \in DOMAIN LedgerView \ {d}
        PROVE  LedgerView[o].wapp_name # LedgerView[d].wapp_name
    <3>1. PICK j \in 0 .. record_len - 1 : o = records[j].manifest_digest
      BY <1>4 DEF DigestsOf
    <3>2. j \in Active \ {i} /\ LedgerView[o] = records[j]
      BY <1>2, <1>4, <3>1, <2>2 DEF Active
    <3> HIDE DEF i
    <3>3. records[i].wapp_name # NoName
      BY <1>6 DEF IsComplete
    <3> QED
      BY <1>5, <1>7, <3>2, <3>3 DEF Duplicates
  <2>3. UNCHANGED LedgerView
    BY <2>1, LedgerUnchanged
  <2> QED
    BY <1>5, <1>6, <2>2, <2>3, SameOperators DEF Ledger!Accept, Ledger!Keys
<1>8. CASE Duplicates(i) # {}
  <2> DEFINE o == Min(Duplicates(i))
             e == records[o].manifest_digest
  <2>1. o \in Active \ {i} /\ records[o].wapp_name = records[i].wapp_name
    BY <1>1, <1>8, FirstDuplicate
  <2>2. o \in 0 .. record_len - 1 /\ o # i
    BY <2>1 DEF Active
  <2>3. records' = update_or_discard(i) /\ record_len' = record_len - 1
    BY <1>8 DEF CheckComplete
  <2>4. update_or_discard(i) =
          IF records[o].manifest_sequence_number <= records[i].manifest_sequence_number
          THEN remove_at(swapped(records, o, i), record_len, i)
          ELSE remove_at(records, record_len, i)
    BY DEF update_or_discard
  <2> HIDE DEF i, o
  <2>5. e \in DOMAIN LedgerView \ {d} /\ LedgerView[e] = records[o]
    BY <1>1, <1>2, <1>3, <1>4, <2>2 DEF DigestsOf, Table, Keyed
  <2>6. CASE records[o].manifest_sequence_number <= records[i].manifest_sequence_number
    <3>1. Table(swapped(records, o, i), record_len)
      BY <1>1, <1>3, <2>2, SwappedTable
    <3>2. ViewOf(swapped(records, o, i), record_len) = LedgerView
      BY <1>1, <1>3, <2>2, ViewSwapped, LedgerViewIsView
    <3>3. swapped(records, o, i)[i] = records[o]
      BY <1>1, <1>3, <2>2, SwappedCells DEF Table, Slots
    <3>4. LedgerView' = Restrict(LedgerView, DOMAIN LedgerView \ {e})
      BY <1>3, <2>3, <2>4, <2>6, <3>1, <3>2, <3>3, RemovalRestricts
    <3>5. Ledger!Supersedes(d, e)
      BY <1>5, <2>1, <2>5, <2>6 DEF Ledger!Supersedes
    <3> QED
      BY <1>5, <1>6, <2>5, <3>4, <3>5, SameOperators DEF Ledger!Resolve, Ledger!Keys
  <2>7. CASE ~(records[o].manifest_sequence_number <= records[i].manifest_sequence_number)
    <3>1. LedgerView' = Restrict(LedgerView, DOMAIN LedgerView \ {d})
      BY <1>1, <1>2, <1>3, <2>3, <2>4, <2>7, LedgerViewIsView, RemovalRestricts
    <3>2. /\ records[o].manifest_sequence_number \in Nat
          /\ records[i].manifest_sequence_number \in Nat
      <4>1. records[o] \in Record /\ records[i] \in Record
        BY <1>1, <1>3, <2>2, ViewCells
      <4> QED
        BY <4>1, RecordAssumption DEF Record
    <3>3. Ledger!Supersedes(e, d) /\ ~ Ledger!Supersedes(d, e)
      BY <1>5, <2>1, <2>5, <2>7, <3>2 DEF Ledger!Supersedes
    <3> QED
      BY <1>5, <1>6, <2>5, <3>1, <3>3, SameOperators DEF Ledger!Resolve, Ledger!Keys
  <2> QED
    BY <2>6, <2>7
<1> QED
  BY <1>5, <1>7, <1>8

LEMMA ListIsReport ==
  ASSUME IInv, NEW capacity, GetTcList(capacity)
  PROVE  Ledger!Report \/ Ledger!Refuse
<1>1. UNCHANGED LedgerView
  BY LedgerUnchanged DEF GetTcList
<1>2. CASE TcListFails(capacity)
  BY <1>1, <1>2 DEF GetTcList, ERROR, Ledger!Refuse
<1>3. CASE ~ TcListFails(capacity)
  <2>1. /\ DOMAIN LedgerView = DigestsOf(records, record_len)
        /\ \A j \in 0 .. record_len - 1 : LedgerView[records[j].manifest_digest] = records[j]
    BY LedgerViewIsView, ViewCells DEF IInv
  <2>2. ASSUME NEW d \in DOMAIN LedgerView PROVE IsComplete(LedgerView[d])
    <3>1. PICK j \in 0 .. record_len - 1 : d = records[j].manifest_digest
      BY <2>1 DEF DigestsOf
    <3> QED
      BY <1>3, <2>1, <3>1 DEF TcListFails, Active
  <2> QED
    BY <1>1, <1>3, <2>2, SameOperators DEF GetTcList, OK, Ledger!Report, Ledger!Keys
<1> QED
  BY <1>2, <1>3

LEMMA RemoveAllIsClear ==
  ASSUME RemoveAll
  PROVE  Ledger!Clear
<1>1. LedgerView' = [d \in {} |-> BlankRecord]
  <2>1. Active' = {}
    BY DEF Active, RemoveAll
  <2> QED
    BY <2>1 DEF LedgerView
<1> QED
  BY <1>1, SameOperators DEF RemoveAll, Ledger!Clear

LEMMA NextRefines ==
  ASSUME IInv, IInv', [Next]_vars
  PROVE  [Ledger!Next]_(Ledger!vars)
<1>1. Table(records, record_len) /\ Table(records, record_len)'
  BY DEF IInv
<1>2. ASSUME NEW a \in ManifestArgs, NEW mem \in BOOLEAN, StoreManifest(a, mem)
      PROVE  Ledger!Next
  <2> DEFINE d == a.manifest_digest
             r == StoredManifest(records[TargetSlot(d)], a, mem)
  <2>1. a \in ManifestStore /\ CanStore(d)
    BY <1>2, TcManagerAssumption DEF StoreManifest
  <2>2. records[TargetSlot(d)] \in Record
    BY <1>1, <2>1, TargetSlotCases DEF Table
  <2>3. r.manifest_digest = d
    BY <2>1, <2>2, StoredManifestIsRecord
  <2>4. Put(TargetSlot(d), r) /\ rc' \in {OK, ERROR}
    BY <1>2 DEF StoreManifest
  <2>5. d \in Digests
    BY <2>1 DEF ManifestStore, CanStore
  <2> HIDE DEF r, d
  <2>6. Ledger!Write(d)
    BY <1>1, <2>1, <2>3, <2>4, PutIsWrite
  <2> QED
    BY <2>5, <2>6 DEF Ledger!Next
<1>3. ASSUME NEW a \in PayloadArgs, NEW mem \in BOOLEAN, NEW sha \in ShaOutcomes,
             StorePayload(a, mem, sha)
      PROVE  Ledger!Next
  <2> DEFINE d == a.manifest_digest
             r == StoredPayload(records[TargetSlot(d)], a, mem, sha)
  <2>1. a \in PayloadStore /\ sha \in BOOLEAN /\ CanStore(d)
    BY <1>3, TcManagerAssumption DEF StorePayload
  <2>2. records[TargetSlot(d)] \in Record
    BY <1>1, <2>1, TargetSlotCases DEF Table
  <2>3. r.manifest_digest = d
    BY <2>1, <2>2, StoredPayloadIsRecord
  <2>4. Put(TargetSlot(d), r) /\ rc' \in {OK, ERROR}
    BY <1>3 DEF StorePayload
  <2>5. d \in Digests
    BY <2>1 DEF PayloadStore, CanStore
  <2> HIDE DEF r, d
  <2>6. Ledger!Write(d)
    BY <1>1, <2>1, <2>3, <2>4, PutIsWrite
  <2> QED
    BY <2>5, <2>6 DEF Ledger!Next
<1>4. CASE StoreFails
  <2>1. UNCHANGED <<records, record_len>> /\ rc' = 1
    BY <1>4, StoreUndoneChangesNothing
       DEF StoreFails, StoreTableFull, StoreUndone, ERROR
  <2>2. Ledger!Refuse
    BY <2>1, LedgerUnchanged DEF Ledger!Refuse
  <2> QED
    BY <2>2 DEF Ledger!Next
<1>5. ASSUME NEW d, CheckAndUpdate(d)
      PROVE  Ledger!Next
  <2>1. CASE CheckNotFound(d)
    <3>1. Ledger!Refuse
      BY <2>1, LedgerUnchanged DEF CheckNotFound, ERROR, Ledger!Refuse
    <3> QED
      BY <3>1 DEF Ledger!Next
  <2>2. CASE CheckIncomplete(d)
    BY <2>2, IncompleteIsDropped DEF Ledger!Next
  <2>3. CASE CheckComplete(d)
    BY <2>3, CompleteIsResolved DEF Ledger!Next
  <2> QED
    BY <1>5, <2>1, <2>2, <2>3 DEF CheckAndUpdate
<1>6. CASE ReadList
  BY <1>6, ListIsReport DEF ReadList, Ledger!Next
<1>7. CASE RemoveAll
  BY <1>7, RemoveAllIsClear DEF Ledger!Next
<1>8. CASE UNCHANGED vars
  BY <1>8, LedgerUnchanged DEF vars, Ledger!vars
<1> QED
  BY <1>2, <1>3, <1>4, <1>5, <1>6, <1>7, <1>8
     DEF Next, StoreAManifest, StoreAPayload, Finalise

LEMMA InitRefines == Init => Ledger!Init
<1> SUFFICES ASSUME Init PROVE Ledger!Init
  OBVIOUS
<1>1. Active = {} /\ rc = 0
  BY DEF Init, Active, OK
<1>2. LedgerView = [d \in {} |-> BlankRecord]
  BY <1>1 DEF LedgerView
<1> QED
  BY <1>1, <1>2, SameOperators DEF Ledger!Init

(* The array with its swaps and its zeroing is the map of TcLedger.        *)
THEOREM TableImplementsLedger == Spec => ImplementsLedger
<1>1. Init => Ledger!Init
  BY InitRefines
<1>2. IInv /\ IInv' /\ [Next]_vars => [Ledger!Next]_(Ledger!vars)
  BY NextRefines
<1> QED
  BY <1>1, <1>2, SpecIInv, PTL DEF Spec, ImplementsLedger, Ledger!Spec

-----------------------------------------------------------------------------
(* A deletion loses no other record and makes none up.                     *)

AllBut(recs, len, k, new) ==
  /\ \A i \in (0 .. len - 1) \ {k} : \E j \in 0 .. len - 2 : new[j] = recs[i]
  /\ \A j \in 0 .. len - 2 : \E i \in (0 .. len - 1) \ {k} : new[j] = recs[i]

LEMMA RemoveAtKeeps ==
  ASSUME NEW recs, NEW len \in 1 .. MaxRecords, Table(recs, len), NEW k \in 0 .. len - 1
  PROVE  AllBut(recs, len, k, remove_at(recs, len, k))
<1> USE TcManagerAssumption
<1> DEFINE new == remove_at(recs, len, k)
<1>1. \A j \in 0 .. len - 2 : new[j] = IF j = k THEN recs[len - 1] ELSE recs[j]
  BY RemoveAtCells DEF Table, Slots
<1> HIDE DEF new
<1>2. ASSUME NEW i \in (0 .. len - 1) \ {k}
      PROVE  \E j \in 0 .. len - 2 : new[j] = recs[i]
  <2>1. CASE i = len - 1
    BY <1>1, <2>1
  <2>2. CASE i # len - 1
    BY <1>1, <2>2
  <2> QED
    BY <2>1, <2>2
<1>3. ASSUME NEW j \in 0 .. len - 2
      PROVE  \E i \in (0 .. len - 1) \ {k} : new[j] = recs[i]
  BY <1>1
<1> QED
  BY <1>2, <1>3 DEF new, AllBut

(* What a finalisation leaves: all records, or all but one, which is the   *)
(* incomplete one or has the name of a newer one that stays.               *)
LEMMA CheckKeeps ==
  ASSUME IInv, NEW d, CheckAndUpdate(d)
  PROVE  /\ \A j \in 0 .. record_len' - 1 : \E i \in Active : records'[j] = records[i]
         /\ \A i \in Active : IsComplete(records[i]) =>
              \E j \in 0 .. record_len' - 1 :
                /\ records'[j].wapp_name = records[i].wapp_name
                /\ records'[j].manifest_sequence_number >= records[i].manifest_sequence_number
<1> USE TcManagerAssumption
<1> DEFINE k == Min(WithDigest(d))
<1>1. Table(records, record_len)
  BY DEF IInv
<1>2. \A i \in Active : records[i].manifest_sequence_number \in Nat
  <2>1. \A i \in 0 .. record_len - 1 : records[i] \in Record
    BY <1>1, ViewCells
  <2> QED
    BY <2>1, RecordAssumption DEF Record, Active
<1>3. CASE UNCHANGED <<records, record_len>>
  <2>1. Active = 0 .. record_len' - 1 /\ records' = records
    BY <1>3 DEF Active
  <2> QED
    BY <1>2, <2>1
<1>4. CASE CheckIncomplete(d)
  <2>1. k \in Active
    BY <1>1, <1>4, LookupByDigest DEF CheckIncomplete
  <2>2. record_len \in 1 .. MaxRecords /\ k \in 0 .. record_len - 1
    BY <1>1, <2>1 DEF Active, Table
  <2>3. /\ records' = remove_at(records, record_len, k)
        /\ record_len' = record_len - 1
        /\ ~ IsComplete(records[k])
    BY <1>4 DEF CheckIncomplete, find_by_digest
  <2> HIDE DEF k
  <2>4. /\ \A i \in (0 .. record_len - 1) \ {k} :
             \E j \in 0 .. record_len' - 1 : records'[j] = records[i]
        /\ \A j \in 0 .. record_len' - 1 :
             \E i \in (0 .. record_len - 1) \ {k} : records'[j] = records[i]
    <3>1. AllBut(records, record_len, k, records')
      BY <1>1, <2>2, <2>3, RemoveAtKeeps
    <3> QED
      BY <2>2, <2>3, <3>1 DEF AllBut
  <2>5. ASSUME NEW i \in Active, IsComplete(records[i])
        PROVE  \E j \in 0 .. record_len' - 1 :
                 /\ records'[j].wapp_name = records[i].wapp_name
                 /\ records'[j].manifest_sequence_number >= records[i].manifest_sequence_number
    <3>1. PICK j \in 0 .. record_len' - 1 : records'[j] = records[i]
      BY <2>3, <2>4, <2>5 DEF Active
    <3> QED
      BY <1>2, <3>1
  <2> QED
    BY <2>4, <2>5 DEF Active
<1>5. CASE CheckComplete(d) /\ Duplicates(k) # {}
  <2> DEFINE o == Min(Duplicates(k))
             older == records[o].manifest_sequence_number
                        <= records[k].manifest_sequence_number
             from == IF older THEN swapped(records, o, k) ELSE records
             gone == IF older THEN o ELSE k
             stay == IF older THEN k ELSE o
  <2>1. k \in Active
    BY <1>1, <1>5, LookupByDigest DEF CheckComplete
  <2>2. o \in Active \ {k} /\ records[o].wapp_name = records[k].wapp_name
    BY <1>1, <1>5, FirstDuplicate
  <2>3. /\ record_len \in 1 .. MaxRecords
        /\ k \in 0 .. record_len - 1
        /\ o \in 0 .. record_len - 1
        /\ o # k
    BY <1>1, <2>1, <2>2 DEF Active, Table
  <2>4. records' = remove_at(from, record_len, k) /\ record_len' = record_len - 1
    BY <1>5 DEF CheckComplete, update_or_discard
  <2> HIDE DEF k, o
  <2>5. Table(from, record_len)
    BY <1>1, <2>3, SwappedTable
  <2>6. \A i \in 0 .. record_len - 1 : from[i] =
          IF older /\ i = k THEN records[o] ELSE IF older /\ i = o THEN records[k] ELSE records[i]
    BY <1>1, <2>3, SwappedCells DEF Table, Slots
  <2> HIDE DEF from
  <2>7. /\ \A i \in (0 .. record_len - 1) \ {k} :
             \E j \in 0 .. record_len' - 1 : records'[j] = from[i]
        /\ \A j \in 0 .. record_len' - 1 :
             \E i \in (0 .. record_len - 1) \ {k} : records'[j] = from[i]
    <3>1. AllBut(from, record_len, k, records')
      BY <2>3, <2>4, <2>5, RemoveAtKeeps
    <3> QED
      BY <2>3, <2>4, <3>1 DEF AllBut
  <2>8. ASSUME NEW i \in (0 .. record_len - 1) \ {gone}
        PROVE  \E j \in 0 .. record_len' - 1 : records'[j] = records[i]
    <3>1. PICK l \in (0 .. record_len - 1) \ {k} : from[l] = records[i]
      BY <2>3, <2>6
    <3> QED
      BY <2>7, <3>1
  <2>9. /\ stay \in (0 .. record_len - 1) \ {gone}
        /\ records[stay].wapp_name = records[gone].wapp_name
        /\ records[stay].manifest_sequence_number >= records[gone].manifest_sequence_number
    BY <1>2, <2>1, <2>2, <2>3
  <2>10. ASSUME NEW i \in Active
         PROVE  \E j \in 0 .. record_len' - 1 :
                  /\ records'[j].wapp_name = records[i].wapp_name
                  /\ records'[j].manifest_sequence_number >= records[i].manifest_sequence_number
    <3> HIDE DEF gone, stay
    <3>1. CASE i # gone
      <4>1. PICK j \in 0 .. record_len' - 1 : records'[j] = records[i]
        BY <2>8, <3>1 DEF Active
      <4> QED
        BY <1>2, <4>1
    <3>2. CASE i = gone
      <4>1. PICK j \in 0 .. record_len' - 1 : records'[j] = records[stay]
        BY <2>8, <2>9
      <4> QED
        BY <2>9, <3>2, <4>1
    <3> QED
      BY <3>1, <3>2
  <2>11. ASSUME NEW j \in 0 .. record_len' - 1
         PROVE  \E i \in Active : records'[j] = records[i]
    BY <2>3, <2>6, <2>7 DEF Active
  <2> QED
    BY <2>10, <2>11
<1> QED
  <2>1. CASE CheckNotFound(d)
    BY <1>3, <2>1 DEF CheckNotFound
  <2>2. CASE CheckComplete(d)
    BY <1>3, <1>5, <2>2 DEF CheckComplete
  <2> QED
    BY <1>4, <2>1, <2>2 DEF CheckAndUpdate

(* A finalised application is never replaced by an older one.              *)
THEOREM NeverDowngrades == Spec => NoDowngrade
<1> DEFINE Kept(d) ==
      CheckAndUpdate(d) =>
        \A i \in Active : IsComplete(records[i]) =>
          \E j \in 0 .. record_len' - 1 :
            /\ records'[j].wapp_name = records[i].wapp_name
            /\ records'[j].manifest_sequence_number >= records[i].manifest_sequence_number
<1>1. IInv /\ [Next]_vars => [\A d \in Digests : Kept(d)]_vars
  BY CheckKeeps
<1> QED
  BY <1>1, SpecIInv, PTL DEF Spec, NoDowngrade

-----------------------------------------------------------------------------
(* Hashes.                                                                 *)

HashMatches(r) == r.wapp_bin # NoImage => r.wapp_hash = r.wapp_bin

LEMMA StoredHashMatches ==
  /\ \A r \in Record, a \in ManifestStore, mem \in BOOLEAN :
       HashMatches(r) => HashMatches(StoredManifest(r, a, mem))
  /\ \A r \in Record, a \in PayloadStore, mem \in BOOLEAN :
       HashMatches(StoredPayload(r, a, mem, TRUE))
<1>1. ASSUME NEW r \in Record, NEW a \in ManifestStore, NEW mem \in BOOLEAN
      PROVE  /\ StoredManifest(r, a, mem).wapp_bin = r.wapp_bin
             /\ StoredManifest(r, a, mem).wapp_hash = r.wapp_hash
  <2> DEFINE bin == a.src_buf /\ mem
  <2>1. StoredManifest(r, a, mem) =
          [r EXCEPT !.manifest_digest = a.manifest_digest,
                    !.manifest_sequence_number = a.manifest_sequence_number,
                    !.manifest_name = set_ids_from_component_id(a.dst, r.manifest_name),
                    !.manifest_bin = bin]
    BY Zenon DEF StoredManifest
  <2> HIDE DEF bin
  <2> QED
    BY <2>1 DEF Record
<1>2. ASSUME NEW r \in Record, NEW a \in PayloadStore, NEW mem \in BOOLEAN
      PROVE  HashMatches(StoredPayload(r, a, mem, TRUE))
  <2> DEFINE copied == a.src_buf # NoImage /\ mem
             bin    == IF copied THEN a.src_buf ELSE NoImage
             hash   == IF copied /\ TRUE THEN a.src_buf ELSE r.wapp_hash
             new    == StoredPayload(r, a, mem, TRUE)
  <2>1. new = [r EXCEPT !.manifest_digest = a.manifest_digest,
                        !.wapp_name = set_ids_from_component_id(a.dst, r.wapp_name),
                        !.wapp_bin = bin, !.wapp_hash = hash]
    BY Zenon DEF StoredPayload
  <2>2. bin # NoImage => hash = bin
    OBVIOUS
  <2> HIDE DEF bin, hash, new
  <2>3. new.wapp_bin = bin /\ new.wapp_hash = hash
    BY <2>1 DEF Record
  <2> QED
    BY <2>2, <2>3 DEF HashMatches, new
<1> QED
  BY <1>1, <1>2 DEF HashMatches

(* Where SHA-256 does not fail, the recorded hash is that of the payload:  *)
(* no deletion, swap or failed copy parts the two.                         *)
THEOREM HashStaysOfPayload ==
  ASSUME ShaOutcomes \subseteq {TRUE}
  PROVE  Spec => []HashOfPayload
<1> USE TcManagerAssumption
<1> DEFINE H == \A i \in Active : HashMatches(records[i])
<1>1. H <=> HashOfPayload
  BY DEF HashMatches, HashOfPayload
<1>2. Init => H
  BY DEF Init, Active
<1>3. ASSUME Table(records, record_len), H, NEW d, CanStore(d), NEW r,
             HashMatches(r), Put(TargetSlot(d), r)
      PROVE  H'
  <2>1. TargetSlot(d) \in Slots /\ TargetSlot(d) \in 0 .. record_len
    BY <1>3, TargetSlotCases DEF Active, Table
  <2>2. records \in [Slots -> Record] /\ record_len \in Nat
    BY <1>3 DEF Table
  <2>3. \A i \in 0 .. record_len' - 1 : i = TargetSlot(d) \/ i \in Active
    BY <1>3, <2>1, <2>2 DEF Put, Active
  <2>4. \A i \in Active \cup {TargetSlot(d)} :
          records'[i] = IF i = TargetSlot(d) THEN r ELSE records[i]
    BY <1>3, <2>1, <2>2 DEF Put, Active, Slots, Table
  <2> QED
    BY <1>3, <2>3, <2>4 DEF Active
<1>4. ASSUME IInv, H, [Next]_vars PROVE H'
  <2>1. Table(records, record_len)
    BY <1>4 DEF IInv
  <2>2. ASSUME UNCHANGED <<records, record_len>> PROVE H'
    BY <1>4, <2>2 DEF Active
  <2>3. ASSUME NEW a \in ManifestArgs, NEW mem \in BOOLEAN, StoreManifest(a, mem) PROVE H'
    <3> DEFINE i == TargetSlot(a.manifest_digest)
               r == StoredManifest(records[i], a, mem)
    <3>1. CanStore(a.manifest_digest) /\ Put(i, r) /\ a \in ManifestStore
      BY <2>3 DEF StoreManifest
    <3>2. i \in Active \/ (i = record_len /\ record_len < MaxRecords)
      BY <2>1, <3>1, TargetSlotCases
    <3>3. records[i] \in Record /\ HashMatches(records[i])
      <4>1. CASE i \in Active
        BY <1>4, <2>1, <3>1, <4>1, TargetSlotCases DEF Table
      <4>2. CASE i = record_len /\ record_len < MaxRecords
        <5>1. records[i] = BlankRecord
          BY <2>1, <4>2 DEF Table, BlankBeyond, Slots
        <5> QED
          BY <5>1, BlankIsRecord DEF HashMatches, BlankRecord
      <4> QED
        BY <3>2, <4>1, <4>2
    <3>4. HashMatches(r)
      BY <3>1, <3>3, StoredHashMatches
    <3> HIDE DEF r
    <3> QED
      BY <1>3, <1>4, <2>1, <3>1, <3>4
  <2>4. ASSUME NEW a \in PayloadArgs, NEW mem \in BOOLEAN, NEW sha \in ShaOutcomes,
               StorePayload(a, mem, sha) PROVE H'
    <3> DEFINE i == TargetSlot(a.manifest_digest)
               r == StoredPayload(records[i], a, mem, sha)
    <3>1. CanStore(a.manifest_digest) /\ Put(i, r) /\ a \in PayloadStore /\ sha = TRUE
      BY <2>4 DEF StorePayload
    <3>2. records[i] \in Record
      BY <2>1, <3>1, TargetSlotCases DEF Table
    <3>3. HashMatches(r)
      BY <3>1, <3>2, StoredHashMatches
    <3> HIDE DEF r
    <3> QED
      BY <1>3, <1>4, <2>1, <3>1, <3>3
  <2>5. CASE StoreFails
    BY <1>4, <2>2, <2>5, StoreUndoneChangesNothing DEF StoreFails, StoreTableFull
  <2>6. ASSUME NEW d, CheckAndUpdate(d) PROVE H'
    <3>1. \A j \in 0 .. record_len' - 1 : \E i \in Active : records'[j] = records[i]
      BY <1>4, <2>6, CheckKeeps
    <3> QED
      BY <1>4, <3>1 DEF Active
  <2>7. CASE ReadList
    BY <2>2, <2>7 DEF ReadList, GetTcList
  <2>8. CASE RemoveAll
    BY <2>8 DEF RemoveAll, Active
  <2>9. CASE UNCHANGED vars
    BY <2>2, <2>9 DEF vars
  <2> QED
    BY <1>4, <2>3, <2>4, <2>5, <2>6, <2>7, <2>8, <2>9
       DEF Next, StoreAManifest, StoreAPayload, Finalise
<1> HIDE DEF H
<1>5. Spec => []H
  BY <1>2, <1>4, SpecIInv, PTL DEF Spec
<1> QED
  BY <1>1, <1>5, PTL
-----------------------------------------------------------------------------
(* The table as a set of records: what the calls do, for those who do not  *)
(* ask for slots.                                                          *)

RecordSet(recs, len) == {recs[i] : i \in 0 .. len - 1}

OfDigest(S, d) == {r \in S : r.manifest_digest = d}

LEMMA RecordSetKeyed ==
  ASSUME NEW recs, NEW len, Table(recs, len)
  PROVE  /\ \A r \in RecordSet(recs, len) : r \in Record /\ r.manifest_digest \in Digests
         /\ \A r, s \in RecordSet(recs, len) : r.manifest_digest = s.manifest_digest => r = s
<1>1. /\ \A i \in 0 .. len - 1 : recs[i].manifest_digest \in Digests
      /\ \A i \in 0 .. len - 1 : recs[i] \in Record
  BY ViewCells
<1>2. \A i, j \in 0 .. len - 1 : recs[i].manifest_digest = recs[j].manifest_digest => i = j
  BY DEF Table, Keyed
<1> QED
  BY <1>1, <1>2 DEF RecordSet

(* What a store finds in its slot: the record of its digest, or nothing.   *)
LEMMA TargetRecord ==
  ASSUME Table(records, record_len), NEW d, CanStore(d)
  PROVE  /\ records[TargetSlot(d)] \in Record
         /\ \/ /\ records[TargetSlot(d)] \in RecordSet(records, record_len)
               /\ records[TargetSlot(d)].manifest_digest = d
            \/ /\ records[TargetSlot(d)] = BlankRecord
               /\ OfDigest(RecordSet(records, record_len), d) = {}
<1> USE TcManagerAssumption
<1> DEFINE i == TargetSlot(d)
<1>1. /\ i \in Slots
      /\ \/ i \in Active /\ records[i].manifest_digest = d
         \/ i = record_len /\ WithDigest(d) = {} /\ record_len < MaxRecords
  BY TargetSlotCases
<1> HIDE DEF i
<1>2. records[i] \in Record
  BY <1>1 DEF Table
<1>3. CASE i \in Active /\ records[i].manifest_digest = d
  BY <1>2, <1>3 DEF RecordSet, Active, i
<1>4. CASE i = record_len /\ WithDigest(d) = {} /\ record_len < MaxRecords
  <2>1. records[i] = BlankRecord
    BY <1>1, <1>4 DEF Table, BlankBeyond
  <2>2. OfDigest(RecordSet(records, record_len), d) = {}
    BY <1>4 DEF OfDigest, RecordSet, WithDigest, Active, CanStore
  <2> QED
    BY <1>2, <2>1, <2>2 DEF i
<1> QED
  BY <1>1, <1>3, <1>4

(* A store replaces the record of its digest and no other.                 *)
LEMMA PutRecords ==
  ASSUME Table(records, record_len), NEW d, CanStore(d), NEW r, Put(TargetSlot(d), r)
  PROVE  RecordSet(records', record_len') =
           (RecordSet(records, record_len) \ OfDigest(RecordSet(records, record_len), d)) \cup {r}
<1> USE TcManagerAssumption
<1> DEFINE i == TargetSlot(d)
<1>1. /\ i \in Slots
      /\ \/ i \in Active /\ records[i].manifest_digest = d
         \/ i = record_len /\ WithDigest(d) = {} /\ record_len < MaxRecords
  BY TargetSlotCases
<1>2. records \in [Slots -> Record] /\ record_len \in 0 .. MaxRecords /\ d # NoDigest
  BY DEF Table, CanStore
<1>3. \A j, k \in 0 .. record_len - 1 :
        records[j].manifest_digest = records[k].manifest_digest => j = k
  BY DEF Table, Keyed
<1>4. /\ records' = [records EXCEPT ![i] = r]
      /\ record_len' = IF i = record_len THEN record_len + 1 ELSE record_len
  BY DEF Put
<1> HIDE DEF i
<1>5. \A j \in Slots : records'[j] = IF j = i THEN r ELSE records[j]
  BY <1>1, <1>2, <1>4
<1>6. i \in 0 .. record_len' - 1 /\ records'[i] = r
  BY <1>1, <1>2, <1>4, <1>5 DEF Active
<1>7. ASSUME NEW j \in 0 .. record_len - 1, records[j].manifest_digest # d
      PROVE  j \in 0 .. record_len' - 1 /\ records'[j] = records[j]
  BY <1>1, <1>2, <1>4, <1>5, <1>7 DEF Active, Slots
<1>8. ASSUME NEW j \in 0 .. record_len' - 1, j # i
      PROVE  /\ j \in 0 .. record_len - 1 /\ records'[j] = records[j]
             /\ records[j].manifest_digest # d
  <2>1. j \in 0 .. record_len - 1 /\ records'[j] = records[j]
    BY <1>1, <1>2, <1>4, <1>5, <1>8 DEF Active, Slots
  <2>2. records[j].manifest_digest # d
    BY <1>1, <1>2, <1>3, <1>8, <2>1 DEF Active, WithDigest
  <2> QED
    BY <2>1, <2>2
<1>9. ASSUME NEW s \in RecordSet(records', record_len')
      PROVE  s = r \/ (s \in RecordSet(records, record_len) /\ s.manifest_digest # d)
  BY <1>6, <1>8 DEF RecordSet
<1>10. ASSUME NEW s \in RecordSet(records, record_len), s.manifest_digest # d
       PROVE  s \in RecordSet(records', record_len')
  BY <1>7, <1>10 DEF RecordSet
<1>11. r \in RecordSet(records', record_len')
  BY <1>6 DEF RecordSet
<1> QED
  BY <1>9, <1>10, <1>11 DEF OfDigest

(* So a store makes one record of what was there for its digest.           *)
FoundAs(S, d, old) ==
  /\ old \in Record
  /\ \/ old \in S /\ old.manifest_digest = d
     \/ old = BlankRecord /\ OfDigest(S, d) = {}

LEMMA StoreManifestRecords ==
  ASSUME IInv, NEW a \in ManifestStore, NEW mem \in BOOLEAN, StoreManifest(a, mem)
  PROVE  /\ \E old : /\ FoundAs(RecordSet(records, record_len), a.manifest_digest, old)
                     /\ RecordSet(records', record_len') =
                          (RecordSet(records, record_len) \
                             OfDigest(RecordSet(records, record_len), a.manifest_digest))
                          \cup {StoredManifest(old, a, mem)}
         /\ rc' = OK <=> ~ (a.src_buf /\ ~ mem)
<1> DEFINE d == a.manifest_digest
           old == records[TargetSlot(d)]
<1>1. Table(records, record_len) /\ CanStore(d) /\ Put(TargetSlot(d), StoredManifest(old, a, mem))
  BY DEF IInv, StoreManifest
<1>2. FoundAs(RecordSet(records, record_len), d, old)
  BY <1>1, TargetRecord DEF FoundAs
<1> HIDE DEF d
<1>3. RecordSet(records', record_len') =
        (RecordSet(records, record_len) \ OfDigest(RecordSet(records, record_len), d))
        \cup {StoredManifest(old, a, mem)}
  BY <1>1, PutRecords
<1>4. rc' = OK <=> ~ (a.src_buf /\ ~ mem)
  BY DEF StoreManifest, OK, ERROR
<1> QED
  BY <1>2, <1>3, <1>4 DEF d

LEMMA StorePayloadRecords ==
  ASSUME IInv, NEW a \in PayloadStore, NEW mem \in BOOLEAN, NEW sha \in BOOLEAN,
         StorePayload(a, mem, sha)
  PROVE  /\ \E old : /\ FoundAs(RecordSet(records, record_len), a.manifest_digest, old)
                     /\ RecordSet(records', record_len') =
                          (RecordSet(records, record_len) \
                             OfDigest(RecordSet(records, record_len), a.manifest_digest))
                          \cup {StoredPayload(old, a, mem, sha)}
         /\ rc' = OK <=> ~ (a.src_buf # NoImage /\ ~ mem)
<1> DEFINE d == a.manifest_digest
           old == records[TargetSlot(d)]
<1>1. /\ Table(records, record_len)
      /\ CanStore(d)
      /\ Put(TargetSlot(d), StoredPayload(old, a, mem, sha))
  BY DEF IInv, StorePayload
<1>2. FoundAs(RecordSet(records, record_len), d, old)
  BY <1>1, TargetRecord DEF FoundAs
<1> HIDE DEF d
<1>3. RecordSet(records', record_len') =
        (RecordSet(records, record_len) \ OfDigest(RecordSet(records, record_len), d))
        \cup {StoredPayload(old, a, mem, sha)}
  BY <1>1, PutRecords
<1>4. rc' = OK <=> ~ (a.src_buf # NoImage /\ ~ mem)
  BY DEF StorePayload, OK, ERROR
<1> QED
  BY <1>2, <1>3, <1>4 DEF d

LEMMA RemoveAtRecords ==
  ASSUME NEW recs, NEW len \in 1 .. MaxRecords, Table(recs, len), NEW k \in 0 .. len - 1
  PROVE  RecordSet(remove_at(recs, len, k), len - 1) = RecordSet(recs, len) \ {recs[k]}
<1> USE TcManagerAssumption
<1> DEFINE new == remove_at(recs, len, k)
<1>1. AllBut(recs, len, k, new)
  BY RemoveAtKeeps
<1>2. \A i \in (0 .. len - 1) \ {k} : recs[i] # recs[k]
  BY DEF Table, Keyed
<1> HIDE DEF new
<1>3. ASSUME NEW j \in 0 .. len - 2
      PROVE  new[j] \in RecordSet(recs, len) \ {recs[k]}
  BY <1>1, <1>2 DEF AllBut, RecordSet
<1>4. ASSUME NEW r \in RecordSet(recs, len) \ {recs[k]}
      PROVE  \E j \in 0 .. len - 2 : new[j] = r
  <2>1. PICK i \in (0 .. len - 1) \ {k} : r = recs[i]
    BY DEF RecordSet
  <2> QED
    BY <1>1, <2>1 DEF AllBut
<1>5. RecordSet(new, len - 1) = {new[j] : j \in 0 .. len - 2}
  <2>1. (len - 1) - 1 = len - 2
    OBVIOUS
  <2> QED
    BY <2>1 DEF RecordSet
<1> QED
  <2>1. {new[j] : j \in 0 .. len - 2} = RecordSet(recs, len) \ {recs[k]}
    BY <1>3, <1>4
  <2> QED
    BY <1>5, <2>1 DEF new

LEMMA SwappedRecords ==
  ASSUME NEW recs, NEW len \in 0 .. MaxRecords, Table(recs, len),
         NEW i \in 0 .. len - 1, NEW j \in 0 .. len - 1
  PROVE  RecordSet(swapped(recs, i, j), len) = RecordSet(recs, len)
<1> DEFINE new == swapped(recs, i, j)
<1>1. \A k \in 0 .. len - 1 :
        new[k] = IF k = j THEN recs[i] ELSE IF k = i THEN recs[j] ELSE recs[k]
  BY SwappedCells, TcManagerAssumption DEF Table, Slots
<1> HIDE DEF new
<1>2. \A k \in 0 .. len - 1 : \E l \in 0 .. len - 1 : new[k] = recs[l]
  BY <1>1
<1>3. \A k \in 0 .. len - 1 : \E l \in 0 .. len - 1 : new[l] = recs[k]
  BY <1>1
<1> QED
  BY <1>2, <1>3 DEF RecordSet, new

(* A finalisation finds nothing, drops what is unfinished, accepts what is *)
(* alone of its name, or drops the older of two of one name.               *)
FinaliseEffect(S, new, d, ok) ==
  \/ ~ok /\ OfDigest(S, d) = {} /\ new = S
  \/ \E r \in S :
       /\ r.manifest_digest = d
       /\ \/ ~ok /\ ~ IsComplete(r) /\ new = S \ {r}
          \/ /\ ok /\ IsComplete(r)
             /\ \/ new = S /\ \A s \in S \ {r} : s.wapp_name # r.wapp_name
                \/ \E o \in S \ {r} :
                     /\ o.wapp_name = r.wapp_name
                     /\ \/ /\ o.manifest_sequence_number <= r.manifest_sequence_number
                           /\ new = S \ {o}
                        \/ /\ ~(o.manifest_sequence_number <= r.manifest_sequence_number)
                           /\ new = S \ {r}

LEMMA CheckRecords ==
  ASSUME IInv, NEW d, d # NoDigest, CheckAndUpdate(d)
  PROVE  FinaliseEffect(RecordSet(records, record_len), RecordSet(records', record_len'),
                        d, rc' = OK)
<1> USE TcManagerAssumption
<1> DEFINE i == Min(WithDigest(d))
           S == RecordSet(records, record_len)
<1>1. Table(records, record_len)
  BY DEF IInv
<1>2. CASE CheckNotFound(d)
  <2>1. OfDigest(S, d) = {}
    BY <1>2 DEF CheckNotFound, OfDigest, RecordSet, WithDigest, Active
  <2>2. UNCHANGED <<records, record_len>> /\ rc' # OK
    BY <1>2 DEF CheckNotFound, OK, ERROR
  <2> QED
    BY <2>1, <2>2 DEF FinaliseEffect
<1>3. ASSUME WithDigest(d) # {}
      PROVE  /\ record_len \in 1 .. MaxRecords
             /\ i \in 0 .. record_len - 1
             /\ records[i] \in S /\ records[i].manifest_digest = d
  <2>1. i \in Active /\ records[i].manifest_digest = d
    BY <1>1, <1>3, LookupByDigest
  <2> HIDE DEF i
  <2> QED
    BY <1>1, <2>1 DEF Active, Table, RecordSet
<1>4. CASE CheckIncomplete(d)
  <2>1. WithDigest(d) # {} /\ ~ IsComplete(records[i]) /\ rc' # OK
    BY <1>4 DEF CheckIncomplete, find_by_digest, OK, ERROR
  <2>2. records' = remove_at(records, record_len, i) /\ record_len' = record_len - 1
    BY <1>4 DEF CheckIncomplete
  <2> HIDE DEF i
  <2>3. RecordSet(records', record_len') = S \ {records[i]}
    BY <1>1, <1>3, <2>1, <2>2, RemoveAtRecords
  <2> QED
    BY <1>3, <2>1, <2>3 DEF FinaliseEffect
<1>5. CASE CheckComplete(d)
  <2>1. WithDigest(d) # {} /\ IsComplete(records[i]) /\ rc' = OK
    BY <1>5 DEF CheckComplete, find_by_digest
  <2>2. CASE Duplicates(i) = {}
    <3>1. UNCHANGED <<records, record_len>>
      BY <1>5, <2>2 DEF CheckComplete
    <3> HIDE DEF i
    <3>2. records[i].wapp_name # NoName
      BY <2>1 DEF IsComplete
    <3>3. \A s \in S \ {records[i]} : s.wapp_name # records[i].wapp_name
      BY <2>2, <3>2 DEF Duplicates, RecordSet, Active
    <3> QED
      BY <1>3, <2>1, <3>1, <3>3 DEF FinaliseEffect
  <2>3. CASE Duplicates(i) # {}
    <3> DEFINE o == Min(Duplicates(i))
    <3>1. o \in Active \ {i} /\ records[o].wapp_name = records[i].wapp_name
      BY <1>1, <2>3, FirstDuplicate
    <3>2. records' = update_or_discard(i) /\ record_len' = record_len - 1
      BY <1>5, <2>3 DEF CheckComplete
    <3>3. update_or_discard(i) =
            IF records[o].manifest_sequence_number <= records[i].manifest_sequence_number
            THEN remove_at(swapped(records, o, i), record_len, i)
            ELSE remove_at(records, record_len, i)
      BY DEF update_or_discard
    <3> HIDE DEF i, o
    <3>4. o \in 0 .. record_len - 1 /\ o # i
      BY <3>1 DEF Active
    <3>5. records[o] \in S \ {records[i]}
      BY <1>1, <1>3, <2>1, <3>4 DEF RecordSet, Table, Keyed
    <3>6. CASE records[o].manifest_sequence_number <= records[i].manifest_sequence_number
      <4> DEFINE from == swapped(records, o, i)
      <4>1. Table(from, record_len) /\ RecordSet(from, record_len) = S
        BY <1>1, <1>3, <2>1, <3>4, SwappedTable, SwappedRecords
      <4>2. from[i] = records[o]
        BY <1>1, <1>3, <2>1, <3>4, SwappedCells DEF Table, Slots
      <4>3. records' = remove_at(from, record_len, i)
        BY <3>2, <3>3, <3>6
      <4> HIDE DEF from
      <4>4. RecordSet(records', record_len') = S \ {records[o]}
        BY <1>3, <2>1, <3>2, <4>1, <4>2, <4>3, RemoveAtRecords
      <4> QED
        BY <1>3, <2>1, <3>1, <3>5, <3>6, <4>4 DEF FinaliseEffect
    <3>7. CASE ~(records[o].manifest_sequence_number <= records[i].manifest_sequence_number)
      <4>1. RecordSet(records', record_len') = S \ {records[i]}
        BY <1>1, <1>3, <2>1, <3>2, <3>3, <3>7, RemoveAtRecords
      <4> QED
        BY <1>3, <2>1, <3>1, <3>5, <3>7, <4>1 DEF FinaliseEffect
    <3> QED
      BY <3>6, <3>7
  <2> QED
    BY <2>2, <2>3
<1> QED
  BY <1>2, <1>4, <1>5 DEF CheckAndUpdate
=============================================================================
