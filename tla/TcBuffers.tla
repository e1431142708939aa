------------------------------ MODULE TcBuffers -----------------------------
(***************************************************************************)
(* The heap behind the Trusted Component ledger.  A record owns up to      *)
(* three blocks: its manifest digest, the manifest's bytes and the         *)
(* payload's.  They are allocated and replaced by the store calls, travel  *)
(* with the record through every swap and are freed where the record is    *)
(* deleted; nothing but the pointers in the slots says who owns a block.   *)
(*                                                                         *)
(* live counts, for each kind, the blocks allocated and not yet freed, as  *)
(* the calls of malloc and free go by; it is an integer, so that a block   *)
(* freed twice shows.  The calls are those of TcManager, each with what it *)
(* does to the heap.                                                       *)
(***************************************************************************)
EXTENDS TcManager, Integers

VARIABLE live

heapVars == <<vars, live>>

Kinds == {"manifest_digest", "manifest_bin", "wapp_bin"}

(* The kinds of which a record holds a block: its pointer is not NULL.     *)
Held(r) ==
  {k \in Kinds : CASE k = "manifest_digest" -> r.manifest_digest # NoDigest
                   [] k = "manifest_bin"    -> r.manifest_bin
                   [] k = "wapp_bin"        -> r.wapp_bin # NoImage}

Minus(kinds) == [k \in Kinds |-> IF k \in kinds THEN live[k] - 1 ELSE live[k]]

-----------------------------------------------------------------------------
(* The blocks manifest_record_remove_at frees: those in the last slot once *)
(* record i has been swapped there.  (Mutant: freed before the swap.)      *)
FreedBeforeSwap(recs, len, i) == Held(recs[len - 1])

Freed(recs, len, i) == Held(swapped(recs, i, len - 1)[len - 1])

(* The blocks a store of kind k to slot i allocates and frees: a digest    *)
(* for a new record, the copy if there is something to copy and memory for *)
(* it, and before that the copy it replaces.  (Mutant: the old copy is     *)
(* freed only when a new one takes its place.)                             *)
Allocated(k, i, copied) ==
  (IF i = record_len THEN {"manifest_digest"} ELSE {}) \cup (IF copied THEN {k} ELSE {})

ReplacedByCopy(k, i, copied) == IF copied THEN {k} \cap Held(records[i]) ELSE {}

Replaced(k, i, copied) == {k} \cap Held(records[i])

Stored(k, d, copied) ==
  LET i == TargetSlot(d)
      allocated == Allocated(k, i, copied)
      replaced  == Replaced(k, i, copied)
  IN  live' = [x \in Kinds |-> live[x] + (IF x \in allocated THEN 1 ELSE 0)
                                       - (IF x \in replaced THEN 1 ELSE 0)]

-----------------------------------------------------------------------------
(* The calls.                                                              *)
HeapInit == Init /\ live = [k \in Kinds |-> 0]

HeapStoreManifest ==
  \E a \in ManifestArgs, mem \in BOOLEAN :
    /\ StoreManifest(a, mem)
    /\ Stored("manifest_bin", a.manifest_digest, a.src_buf /\ mem)

HeapStorePayload ==
  \E a \in PayloadArgs, mem \in BOOLEAN, sha \in ShaOutcomes :
    /\ StorePayload(a, mem, sha)
    /\ Stored("wapp_bin", a.manifest_digest, a.src_buf # NoImage /\ mem)

(* A slot that is given back is deleted like any record.                   *)
HeapStoreFails ==
  \E d \in Digests \cup {NoDigest} :
    \/ StoreTableFull(d) /\ UNCHANGED live
    \/ StoreUndone(d) /\ live' = Minus(Freed(records, record_len + 1, record_len))

HeapFinalise ==
  \E d \in Digests \cup {NoDigest} :
    \/ CheckNotFound(d) /\ UNCHANGED live
    \/ /\ CheckIncomplete(d)
       /\ live' = Minus(Freed(records, record_len, Min(WithDigest(d))))
    \/ /\ CheckComplete(d)
       /\ LET i == Min(WithDigest(d))
              o == Min(Duplicates(i))
          IN  IF Duplicates(i) = {}
              THEN UNCHANGED live
              ELSE IF records[o].manifest_sequence_number <= records[i].manifest_sequence_number
              THEN live' = Minus(Freed(swapped(records, o, i), record_len, i))
              ELSE live' = Minus(Freed(records, record_len, i))

HeapRemoveAll ==
  /\ RemoveAll
  /\ live' = [k \in Kinds |-> live[k] - Cardinality({i \in Active : k \in Held(records[i])})]

HeapNext ==
  \/ HeapStoreManifest
  \/ HeapStorePayload
  \/ HeapStoreFails
  \/ HeapFinalise
  \/ ReadList /\ UNCHANGED live
  \/ HeapRemoveAll

HeapSpec == HeapInit /\ [][HeapNext]_heapVars

-----------------------------------------------------------------------------
(* "Variable-size buffers (...) are freed on delete" (doc/tc-manager.md),  *)
(* and no sooner or twice: through swaps, replacements, failed copies and  *)
(* slots given back, the blocks on the heap are those the active records   *)
(* point to, one each.                                                     *)
BuffersOwned ==
  \A k \in Kinds : live[k] = Cardinality({i \in Active : k \in Held(records[i])})
=============================================================================
