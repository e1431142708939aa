--------------------------- MODULE TcBuffersProofs --------------------------
(***************************************************************************)
(* Theorems about TcBuffers, for a table of any size: the heap and the     *)
(* pointers in the active records agree through every store, swap and      *)
(* deletion, and adding the heap takes no behaviour of TcManager away or   *)
(* brings one in.                                                          *)
(*                                                                         *)
(* BuffersOwned counts the records that hold a block of a kind.  The       *)
(* lemmas say how writing one slot, taking one and giving one up move that *)
(* count; a swap and a deletion are two writes.  That a slot that is taken *)
(* holds nothing yet is the invariant of TcManagerProofs.                  *)
(***************************************************************************)
EXTENDS TcBuffers, TcManagerProofs

-----------------------------------------------------------------------------
(* The records among the first len that hold a block of kind k.            *)

Holders(k, recs, len) == {i \in 0 .. len - 1 : k \in Held(recs[i])}

Count(k, recs, len) == Cardinality(Holders(k, recs, len))

Bit(k, r) == IF k \in Held(r) THEN 1 ELSE 0

LEMMA OwnedIsCount == BuffersOwned <=> \A k \in Kinds : live[k] = Count(k, records, record_len)
BY DEF BuffersOwned, Count, Holders, Active

LEMMA OwnedIsCountNext ==
  BuffersOwned' <=> \A k \in Kinds : live'[k] = Count(k, records', record_len')
BY DEF BuffersOwned, Count, Holders, Active

LEMMA HoldersFinite ==
  ASSUME NEW k, NEW recs, NEW len \in Nat
  PROVE  IsFiniteSet(Holders(k, recs, len)) /\ Count(k, recs, len) \in Nat
<1>1. IsFiniteSet(0 .. len - 1)
  BY FS_Interval
<1>2. Holders(k, recs, len) \in SUBSET (0 .. len - 1)
  BY DEF Holders
<1> QED
  BY <1>1, <1>2, FS_Subset, FS_CardinalityType DEF Count

LEMMA BlankHoldsNothing == Held(BlankRecord) = {}
BY DEF Held, BlankRecord, Kinds

(* One more record.                                                        *)
LEMMA CountOneMore ==
  ASSUME NEW k, NEW recs, NEW len \in Nat
  PROVE  Count(k, recs, len + 1) = Count(k, recs, len) + Bit(k, recs[len])
<1> DEFINE H == Holders(k, recs, len)
<1>1. IsFiniteSet(H) /\ Cardinality(H) \in Nat
  BY HoldersFinite DEF Count
<1>2. len \notin H
  BY DEF Holders
<1>3. CASE k \in Held(recs[len])
  <2>1. Holders(k, recs, len + 1) = H \cup {len}
    BY <1>3 DEF Holders
  <2> QED
    BY <1>1, <1>2, <1>3, <2>1, FS_AddElement DEF Count, Bit
<1>4. CASE k \notin Held(recs[len])
  <2>1. Holders(k, recs, len + 1) = H
    BY <1>4 DEF Holders
  <2> QED
    BY <1>1, <1>4, <2>1 DEF Count, Bit
<1> QED
  BY <1>3, <1>4

(* Two tables with the same records.                                       *)
LEMMA CountSame ==
  ASSUME NEW k, NEW recs, NEW new, NEW len, \A j \in 0 .. len - 1 : new[j] = recs[j]
  PROVE  Count(k, new, len) = Count(k, recs, len)
<1>1. Holders(k, new, len) = Holders(k, recs, len)
  BY DEF Holders
<1> QED
  BY <1>1 DEF Count

(* One record replaced.                                                    *)
LEMMA CountReplaced ==
  ASSUME NEW k, NEW recs, NEW new, NEW len \in Nat, NEW i \in 0 .. len - 1,
         \A j \in 0 .. len - 1 : j # i => new[j] = recs[j]
  PROVE  Count(k, new, len) = Count(k, recs, len) - Bit(k, recs[i]) + Bit(k, new[i])
<1> DEFINE Others == Holders(k, recs, len) \ {i}
<1>1. IsFiniteSet(Holders(k, recs, len)) /\ Count(k, recs, len) \in Nat
  BY HoldersFinite
<1>2. /\ IsFiniteSet(Others)
      /\ Cardinality(Others) = Count(k, recs, len) - Bit(k, recs[i])
  <2>1. i \in Holders(k, recs, len) <=> k \in Held(recs[i])
    BY DEF Holders
  <2> QED
    BY <1>1, <2>1, FS_RemoveElement DEF Count, Bit
<1>3. Holders(k, new, len) = IF k \in Held(new[i]) THEN Others \cup {i} ELSE Others
  BY DEF Holders
<1>4. i \notin Others
  OBVIOUS
<1>5. Bit(k, recs[i]) \in {0, 1} /\ Bit(k, new[i]) \in {0, 1}
  BY DEF Bit
<1>6. CASE k \in Held(new[i])
  <2>1. Cardinality(Others \cup {i}) = Cardinality(Others) + 1
    BY <1>2, <1>4, FS_AddElement
  <2> QED
    BY <1>1, <1>2, <1>3, <1>5, <1>6, <2>1 DEF Count, Bit
<1>7. CASE k \notin Held(new[i])
  BY <1>1, <1>2, <1>3, <1>5, <1>7 DEF Count, Bit
<1> QED
  BY <1>6, <1>7

(* Two records swapped: a replacement after a replacement.                 *)
LEMMA CountSwapped ==
  ASSUME NEW k, NEW recs \in [Slots -> Record], NEW len \in 0 .. MaxRecords,
         NEW i \in 0 .. len - 1, NEW j \in 0 .. len - 1
  PROVE  Count(k, swapped(recs, i, j), len) = Count(k, recs, len)
<1> USE TcManagerAssumption
<1> DEFINE mid == [recs EXCEPT ![i] = recs[j]]
           new == swapped(recs, i, j)
<1>1. i \in Slots /\ j \in Slots /\ \A n \in 0 .. len - 1 : n \in Slots
  BY DEF Slots
<1>2. \A n \in 0 .. len - 1 : mid[n] = IF n = i THEN recs[j] ELSE recs[n]
  BY <1>1
<1>3. \A n \in 0 .. len - 1 : new[n] = IF n = j THEN recs[i] ELSE mid[n]
  BY <1>1, <1>2, SwappedCells
<1>4. mid[j] = recs[j]
  BY <1>2
<1> HIDE DEF mid, new
<1>5. Count(k, mid, len) = Count(k, recs, len) - Bit(k, recs[i]) + Bit(k, recs[j])
  BY <1>2, CountReplaced
<1>6. Count(k, new, len) = Count(k, mid, len) - Bit(k, recs[j]) + Bit(k, recs[i])
  BY <1>3, <1>4, CountReplaced
<1>7. Count(k, recs, len) \in Nat /\ Bit(k, recs[i]) \in {0, 1} /\ Bit(k, recs[j]) \in {0, 1}
  BY HoldersFinite DEF Bit
<1> QED
  BY <1>5, <1>6, <1>7 DEF new

(* A record deleted: the last one takes its slot, and the last slot goes.  *)
LEMMA CountRemoved ==
  ASSUME NEW k, NEW recs \in [Slots -> Record], NEW len \in 1 .. MaxRecords,
         NEW i \in 0 .. len - 1
  PROVE  Count(k, remove_at(recs, len, i), len - 1) = Count(k, recs, len) - Bit(k, recs[i])
<1> USE TcManagerAssumption
<1> DEFINE new == remove_at(recs, len, i)
           last == recs[len - 1]
<1>1. /\ len - 1 \in Nat /\ len - 1 + 1 = len
      /\ \A n \in 0 .. len - 1 : n \in Slots
      /\ \A n \in 0 .. len - 2 : n \in 0 .. len - 1
  BY DEF Slots
<1>2. \A n \in 0 .. len - 2 : new[n] = IF n = i THEN last ELSE recs[n]
  BY <1>1, RemoveAtCells
<1> HIDE DEF new
<1>3. Count(k, recs, len) = Count(k, recs, len - 1) + Bit(k, last)
  <2>1. Count(k, recs, len - 1 + 1) = Count(k, recs, len - 1) + Bit(k, recs[len - 1])
    BY <1>1, CountOneMore
  <2> QED
    BY <1>1, <2>1
<1>4. /\ Count(k, recs, len - 1) \in Nat /\ Bit(k, last) \in {0, 1}
      /\ Bit(k, recs[i]) \in {0, 1}
  BY <1>1, HoldersFinite DEF Bit
<1>5. CASE i = len - 1
  <2>1. \A n \in 0 .. (len - 1) - 1 : new[n] = recs[n]
    BY <1>2, <1>5
  <2>2. Count(k, new, len - 1) = Count(k, recs, len - 1)
    BY <2>1, CountSame
  <2> QED
    BY <1>3, <1>4, <1>5, <2>2 DEF new
<1>6. CASE i # len - 1
  <2>1. i \in 0 .. (len - 1) - 1
    BY <1>6
  <2>2. /\ new[i] = last
        /\ \A n \in 0 .. (len - 1) - 1 : n # i => new[n] = recs[n]
    BY <1>2, <2>1
  <2>3. Count(k, new, len - 1) = Count(k, recs, len - 1) - Bit(k, recs[i]) + Bit(k, new[i])
    BY <1>1, <2>1, <2>2, CountReplaced
  <2> QED
    BY <1>3, <1>4, <2>2, <2>3 DEF new
<1> QED
  BY <1>5, <1>6

-----------------------------------------------------------------------------
(* What the calls do to the count and to the heap.                         *)

(* A deletion frees the blocks of the record it deletes.                   *)
LEMMA FreedIsHeld ==
  ASSUME NEW recs \in [Slots -> Record], NEW len \in 1 .. MaxRecords, NEW i \in 0 .. len - 1
  PROVE  Freed(recs, len, i) = Held(recs[i])
<1>1. i \in Slots /\ len - 1 \in Slots
  BY TcManagerAssumption DEF Slots
<1> QED
  BY <1>1, SwappedCells DEF Freed

LEMMA RemovalOwned ==
  ASSUME NEW recs \in [Slots -> Record], NEW len \in 1 .. MaxRecords, NEW i \in 0 .. len - 1,
         \A k \in Kinds : live[k] = Count(k, recs, len),
         live' = Minus(Freed(recs, len, i)),
         records' = remove_at(recs, len, i), record_len' = len - 1
  PROVE  BuffersOwned'
<1> SUFFICES ASSUME NEW k \in Kinds PROVE live'[k] = Count(k, records', record_len')
  BY OwnedIsCountNext
<1>1. Count(k, records', record_len') = Count(k, recs, len) - Bit(k, recs[i])
  BY CountRemoved
<1>2. Count(k, recs, len) \in Nat
  BY TcManagerAssumption, HoldersFinite
<1>3. live'[k] = IF k \in Held(recs[i]) THEN live[k] - 1 ELSE live[k]
  BY FreedIsHeld DEF Minus
<1> QED
  BY <1>1, <1>2, <1>3 DEF Bit

(* A store of kind K leaves in its slot the digest, the blocks of the      *)
(* other kinds and the copy, if there is one.                              *)
LEMMA StoreOwned ==
  ASSUME Table(records, record_len), BuffersOwned, NEW d, CanStore(d), NEW r,
         NEW K \in {"manifest_bin", "wapp_bin"}, NEW copied \in BOOLEAN,
         Held(r) = (Held(records[TargetSlot(d)]) \ {K}) \cup {"manifest_digest"}
                   \cup (IF copied THEN {K} ELSE {}),
         Put(TargetSlot(d), r), Stored(K, d, copied)
  PROVE  BuffersOwned'
<1> USE TcManagerAssumption
<1> DEFINE i == TargetSlot(d)
<1> SUFFICES ASSUME NEW k \in Kinds PROVE live'[k] = Count(k, records', record_len')
  BY OwnedIsCountNext
<1>1. /\ i \in Slots
      /\ \/ i \in Active /\ records[i].manifest_digest = d
         \/ i = record_len /\ record_len < MaxRecords
  BY TargetSlotCases
<1>2. records \in [Slots -> Record] /\ record_len \in 0 .. MaxRecords /\ d # NoDigest
  BY DEF Table, CanStore
<1>3. live[k] = Count(k, records, record_len) /\ live[k] \in Nat
  BY <1>2, OwnedIsCount, HoldersFinite
<1>4. records'[i] = r /\ \A j \in Slots : j # i => records'[j] = records[j]
  BY <1>1, <1>2 DEF Put
<1>5. live'[k] = live[k] + (IF k \in Allocated(K, i, copied) THEN 1 ELSE 0)
                         - (IF k \in Replaced(K, i, copied) THEN 1 ELSE 0)
  BY DEF Stored
<1>6. \A j \in 0 .. record_len - 1 : j \in Slots
  BY <1>2 DEF Slots
<1>7. CASE i \in Active
  <2>1. record_len' = record_len /\ i \in 0 .. record_len - 1 /\ i # record_len
    BY <1>2, <1>7 DEF Put, Active
  <2>2. Count(k, records', record_len) =
          Count(k, records, record_len) - Bit(k, records[i]) + Bit(k, r)
    BY <1>2, <1>4, <1>6, <2>1, CountReplaced
  <2>3. "manifest_digest" \in Held(records[i])
    BY <1>1, <1>2, <2>1 DEF Held, Kinds
  <2>4. k \in Allocated(K, i, copied) <=> copied /\ k = K
    BY <2>1 DEF Allocated
  <2>5. k \in Replaced(K, i, copied) <=> k = K /\ k \in Held(records[i])
    BY DEF Replaced
  <2>6. k \in Held(r) <=> (k \in Held(records[i]) /\ k # K) \/ (copied /\ k = K)
    BY <2>3
  <2> HIDE DEF i
  <2> QED
    BY <1>3, <1>5, <2>1, <2>2, <2>4, <2>5, <2>6 DEF Bit
<1>8. CASE i = record_len /\ record_len < MaxRecords
  <2>1. record_len' = record_len + 1
    BY <1>8 DEF Put
  <2>2. records[i] = BlankRecord
    BY <1>1, <1>2, <1>8 DEF Table, BlankBeyond
  <2>3. Count(k, records', record_len + 1) = Count(k, records', record_len) + Bit(k, r)
    BY <1>2, <1>4, <1>8, CountOneMore
  <2>4. \A j \in 0 .. record_len - 1 : records'[j] = records[j]
    BY <1>2, <1>4, <1>6, <1>8
  <2>5. Count(k, records', record_len) = Count(k, records, record_len)
    BY <2>4, CountSame
  <2>6. k \in Allocated(K, i, copied) <=> k = "manifest_digest" \/ (copied /\ k = K)
    BY <1>8 DEF Allocated
  <2>7. k \notin Replaced(K, i, copied)
    BY <2>2, BlankHoldsNothing DEF Replaced
  <2>8. k \in Held(r) <=> k = "manifest_digest" \/ (copied /\ k = K)
    BY <2>2, BlankHoldsNothing
  <2> HIDE DEF i
  <2> QED
    BY <1>3, <1>5, <2>1, <2>3, <2>5, <2>6, <2>7, <2>8 DEF Bit
<1> QED
  BY <1>1, <1>7, <1>8

-----------------------------------------------------------------------------
(* The heap follows the table: every call of HeapNext is one of TcManager. *)
LEMMA HeapNextIsNext == [HeapNext]_heapVars => [Next]_vars
<1> SUFFICES ASSUME [HeapNext]_heapVars PROVE [Next]_vars
  OBVIOUS
<1>1. CASE HeapStoreManifest
  BY <1>1 DEF HeapStoreManifest, StoreAManifest, Next
<1>2. CASE HeapStorePayload
  BY <1>2 DEF HeapStorePayload, StoreAPayload, Next
<1>3. CASE HeapStoreFails
  BY <1>3 DEF HeapStoreFails, StoreFails, Next
<1>4. CASE HeapFinalise
  BY <1>4 DEF HeapFinalise, Finalise, CheckAndUpdate, Next
<1>5. CASE ReadList \/ HeapRemoveAll
  BY <1>5 DEF HeapRemoveAll, Next
<1>6. CASE UNCHANGED heapVars
  BY <1>6 DEF heapVars
<1> QED
  BY <1>1, <1>2, <1>3, <1>4, <1>5, <1>6 DEF HeapNext

LEMMA HeapIInv == HeapSpec => []IInv
<1>1. HeapInit => IInv
  BY InitIInv DEF HeapInit
<1>2. IInv /\ [HeapNext]_heapVars => IInv'
  BY HeapNextIsNext, NextIInv
<1> QED
  BY <1>1, <1>2, PTL DEF HeapSpec

LEMMA StoreManifestOwned ==
  ASSUME IInv, BuffersOwned, HeapStoreManifest
  PROVE  BuffersOwned'
<1>1. PICK a \in ManifestArgs, mem \in BOOLEAN :
        /\ StoreManifest(a, mem)
        /\ Stored("manifest_bin", a.manifest_digest, a.src_buf /\ mem)
  BY DEF HeapStoreManifest
<1> DEFINE old == records[TargetSlot(a.manifest_digest)]
           r   == StoredManifest(old, a, mem)
<1>2. Table(records, record_len) /\ CanStore(a.manifest_digest)
  BY <1>1 DEF IInv, StoreManifest
<1>3. old \in Record /\ a \in ManifestStore
  BY <1>2, TcManagerAssumption, TargetSlotCases DEF Table, TcManagerAssumption
<1>4. Put(TargetSlot(a.manifest_digest), r)
  BY <1>1 DEF StoreManifest
<1>5. /\ r.manifest_digest = a.manifest_digest /\ a.manifest_digest # NoDigest
      /\ r.manifest_bin = (a.src_buf /\ mem)
      /\ r.wapp_bin = old.wapp_bin
  <2> HIDE DEF old
  <2> QED
    BY <1>2, <1>3 DEF StoredManifest, CanStore, Record
<1>6. Held(r) = (Held(old) \ {"manifest_bin"}) \cup {"manifest_digest"}
                \cup (IF a.src_buf /\ mem THEN {"manifest_bin"} ELSE {})
  <2> HIDE DEF old, r
  <2> QED
    BY <1>5 DEF Held, Kinds
<1>7. (a.src_buf /\ mem) \in BOOLEAN
  OBVIOUS
<1> HIDE DEF r
<1> QED
  BY <1>1, <1>2, <1>4, <1>6, <1>7, StoreOwned

LEMMA StorePayloadOwned ==
  ASSUME IInv, BuffersOwned, HeapStorePayload
  PROVE  BuffersOwned'
<1>1. PICK a \in PayloadArgs, mem \in BOOLEAN, sha \in ShaOutcomes :
        /\ StorePayload(a, mem, sha)
        /\ Stored("wapp_bin", a.manifest_digest, a.src_buf # NoImage /\ mem)
  BY DEF HeapStorePayload
<1> DEFINE old == records[TargetSlot(a.manifest_digest)]
           r   == StoredPayload(old, a, mem, sha)
<1>2. Table(records, record_len) /\ CanStore(a.manifest_digest)
  BY <1>1 DEF IInv, StorePayload
<1>3. old \in Record /\ a \in PayloadStore
  BY <1>2, TcManagerAssumption, TargetSlotCases DEF Table, TcManagerAssumption
<1>4. Put(TargetSlot(a.manifest_digest), r)
  BY <1>1 DEF StorePayload
<1>5. /\ r.manifest_digest = a.manifest_digest /\ a.manifest_digest # NoDigest
      /\ r.wapp_bin = (IF a.src_buf # NoImage /\ mem THEN a.src_buf ELSE NoImage)
      /\ r.manifest_bin = old.manifest_bin
  <2> HIDE DEF old
  <2> QED
    BY <1>2, <1>3 DEF StoredPayload, CanStore, Record
<1>6. Held(r) = (Held(old) \ {"wapp_bin"}) \cup {"manifest_digest"}
                \cup (IF a.src_buf # NoImage /\ mem THEN {"wapp_bin"} ELSE {})
  <2> HIDE DEF old, r
  <2> QED
    BY <1>5 DEF Held, Kinds
<1>7. (a.src_buf # NoImage /\ mem) \in BOOLEAN
  OBVIOUS
<1> HIDE DEF r
<1> QED
  BY <1>1, <1>2, <1>4, <1>6, <1>7, StoreOwned

(* A slot given back holds nothing, and nothing is freed with it.          *)
LEMMA StoreFailsOwned ==
  ASSUME IInv, BuffersOwned, HeapStoreFails
  PROVE  BuffersOwned'
<1>1. ASSUME UNCHANGED <<records, record_len>>, \A k \in Kinds : live'[k] = live[k]
      PROVE  BuffersOwned'
  BY <1>1, OwnedIsCount, OwnedIsCountNext
<1>2. ASSUME NEW d, StoreTableFull(d), UNCHANGED live
      PROVE  BuffersOwned'
  BY <1>1, <1>2 DEF StoreTableFull
<1>3. ASSUME NEW d, StoreUndone(d), live' = Minus(Freed(records, record_len + 1, record_len))
      PROVE  BuffersOwned'
  <2>1. UNCHANGED <<records, record_len>>
    BY <1>3, StoreUndoneChangesNothing
  <2>2. /\ records \in [Slots -> Record] /\ record_len + 1 \in 1 .. MaxRecords
        /\ record_len \in 0 .. (record_len + 1) - 1 /\ record_len \in Slots
    BY <1>3, TcManagerAssumption DEF IInv, Table, StoreUndone, Slots, TcManagerAssumption
  <2>3. records[record_len] = BlankRecord
    BY <2>2 DEF IInv, Table, BlankBeyond
  <2>4. Freed(records, record_len + 1, record_len) = {}
    BY <2>2, <2>3, FreedIsHeld, BlankHoldsNothing
  <2>5. \A k \in Kinds : live'[k] = live[k]
    BY <1>3, <2>4 DEF Minus
  <2> QED
    BY <1>1, <2>1, <2>5
<1> QED
  BY <1>2, <1>3 DEF HeapStoreFails

(* Whichever record a finalisation deletes, after a swap or without one,   *)
(* its blocks are the ones that are freed.                                 *)
LEMMA FinaliseOwned ==
  ASSUME IInv, BuffersOwned, HeapFinalise
  PROVE  BuffersOwned'
<1>1. /\ Table(records, record_len)
      /\ records \in [Slots -> Record] /\ record_len \in 0 .. MaxRecords
      /\ \A k \in Kinds : live[k] = Count(k, records, record_len)
  BY OwnedIsCount DEF IInv, Table
<1>2. ASSUME UNCHANGED <<records, record_len, live>> PROVE BuffersOwned'
  BY <1>1, <1>2, OwnedIsCountNext
<1>3. \A i \in Active : record_len \in 1 .. MaxRecords /\ i \in 0 .. record_len - 1
  BY <1>1, TcManagerAssumption DEF Active, TcManagerAssumption
<1>4. ASSUME NEW d, CheckNotFound(d), UNCHANGED live PROVE BuffersOwned'
  BY <1>2, <1>4 DEF CheckNotFound
<1>5. ASSUME NEW d, CheckIncomplete(d),
             live' = Minus(Freed(records, record_len, Min(WithDigest(d))))
      PROVE  BuffersOwned'
  <2>1. Min(WithDigest(d)) \in Active
    BY <1>1, <1>5, LookupByDigest DEF CheckIncomplete
  <2> QED
    BY <1>1, <1>3, <1>5, <2>1, RemovalOwned DEF CheckIncomplete
<1>6. ASSUME NEW d, CheckComplete(d),
             LET i == Min(WithDigest(d))
                 o == Min(Duplicates(i))
             IN  IF Duplicates(i) = {}
                 THEN UNCHANGED live
                 ELSE IF records[o].manifest_sequence_number <= records[i].manifest_sequence_number
                 THEN live' = Minus(Freed(swapped(records, o, i), record_len, i))
                 ELSE live' = Minus(Freed(records, record_len, i))
      PROVE  BuffersOwned'
  <2> DEFINE i == Min(WithDigest(d))
             o == Min(Duplicates(i))
             new == swapped(records, o, i)
  <2>1. i \in Active
    BY <1>1, <1>6, LookupByDigest DEF CheckComplete
  <2>2. CASE Duplicates(i) = {}
    BY <1>2, <1>6, <2>2 DEF CheckComplete
  <2>3. CASE Duplicates(i) # {}
    <3>1. o \in Active /\ record_len' = record_len - 1 /\ records' = update_or_discard(i)
      BY <1>1, <1>6, <2>3, FirstDuplicate DEF CheckComplete
    <3>2. CASE records[o].manifest_sequence_number <= records[i].manifest_sequence_number
      <4>1. live' = Minus(Freed(new, record_len, i)) /\ records' = remove_at(new, record_len, i)
        BY <1>6, <2>3, <3>1, <3>2 DEF update_or_discard
      <4>2. new \in [Slots -> Record]
        <5>1. i \in Slots /\ o \in Slots
          BY <1>1, <2>1, <3>1, TcManagerAssumption DEF Active, Slots, TcManagerAssumption
        <5> QED
          BY <1>1, <5>1, SwappedCells
      <4>3. \A k \in Kinds : live[k] = Count(k, new, record_len)
        BY <1>1, <1>3, <2>1, <3>1, CountSwapped
      <4> HIDE DEF i, o, new
      <4> QED
        BY <1>3, <2>1, <3>1, <4>1, <4>2, <4>3, RemovalOwned
    <3>3. CASE ~(records[o].manifest_sequence_number <= records[i].manifest_sequence_number)
      <4>1. /\ live' = Minus(Freed(records, record_len, i))
            /\ records' = remove_at(records, record_len, i)
        BY <1>6, <2>3, <3>1, <3>3 DEF update_or_discard
      <4> HIDE DEF i, o
      <4> QED
        BY <1>1, <1>3, <2>1, <3>1, <4>1, RemovalOwned
    <3> QED
      BY <3>2, <3>3
  <2> QED
    BY <2>2, <2>3
<1> QED
  BY <1>4, <1>5, <1>6 DEF HeapFinalise

LEMMA RemoveAllOwned ==
  ASSUME IInv, BuffersOwned, HeapRemoveAll
  PROVE  BuffersOwned'
<1> SUFFICES ASSUME NEW k \in Kinds PROVE live'[k] = Count(k, records', record_len')
  BY OwnedIsCountNext
<1>1. record_len' = 0 /\ live'[k] = live[k] - Count(k, records, record_len)
  BY DEF HeapRemoveAll, RemoveAll, Count, Holders, Active
<1>2. Holders(k, records', 0) = {}
  BY DEF Holders
<1>3. Count(k, records', 0) = 0
  BY <1>2, FS_EmptySet DEF Count
<1>4. live[k] = Count(k, records, record_len) /\ Count(k, records, record_len) \in Nat
  BY OwnedIsCount, HoldersFinite, TcManagerAssumption DEF IInv, Table, TcManagerAssumption
<1> QED
  BY <1>1, <1>3, <1>4

-----------------------------------------------------------------------------
(* What follows.                                                           *)

(* The calls with their effect on the heap are the calls of the ledger:    *)
(* what is proved of TcManager holds with the heap as well.                *)
THEOREM HeapImplementsTable == HeapSpec => Spec
BY HeapNextIsNext, PTL DEF HeapSpec, HeapInit, Spec

(* Through every store, replacement, failed copy, swap and deletion, the   *)
(* blocks on the heap are those the active records point to: nothing leaks *)
(* and nothing is freed twice.                                             *)
THEOREM BuffersStayOwned == HeapSpec => []BuffersOwned
<1>1. HeapInit => BuffersOwned
  <2> SUFFICES ASSUME HeapInit, NEW k \in Kinds PROVE live[k] = Count(k, records, record_len)
    BY OwnedIsCount
  <2>1. Holders(k, records, record_len) = {} /\ live[k] = 0
    BY DEF HeapInit, Init, Holders
  <2> QED
    BY <2>1, FS_EmptySet DEF Count
<1>2. IInv /\ BuffersOwned /\ [HeapNext]_heapVars => BuffersOwned'
  <2> SUFFICES ASSUME IInv, BuffersOwned, [HeapNext]_heapVars PROVE BuffersOwned'
    OBVIOUS
  <2>1. CASE (ReadList /\ UNCHANGED live) \/ UNCHANGED heapVars
    <3>1. UNCHANGED <<records, record_len, live>>
      BY <2>1 DEF ReadList, GetTcList, heapVars, vars
    <3> QED
      BY <3>1, OwnedIsCount, OwnedIsCountNext
  <2> QED
    BY <2>1, StoreManifestOwned, StorePayloadOwned, StoreFailsOwned, FinaliseOwned, RemoveAllOwned
       DEF HeapNext
<1> QED
  BY <1>1, <1>2, HeapIInv, PTL DEF HeapSpec
=============================================================================
