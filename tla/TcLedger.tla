------------------------------ MODULE TcLedger ------------------------------
(***************************************************************************)
(* What the Trusted Component ledger promises, without slots: a map from   *)
(* manifest digests to records, of bounded size.  A store writes the       *)
(* record of its own digest and no other.  Finalising a digest drops its   *)
(* record when it is incomplete; when it is complete, at most one record   *)
(* goes, of the same application name, and never the newer of the two.     *)
(* doc/tc-manager.md calls the module "an in-memory ledger" keyed by       *)
(* manifest_digest; the array, its swaps and its zeroing are the code's.   *)
(***************************************************************************)
EXTENDS TcRecord, FiniteSets, Functions

CONSTANT MaxRecords

VARIABLES ledger, rc

vars == <<ledger, rc>>

Keys == DOMAIN ledger

Init ==
  /\ ledger = [d \in {} |-> BlankRecord]
  /\ rc = 0

(* A store: the record of d is written, the others stay; a new record      *)
(* needs room.                                                             *)
Write(d) ==
  /\ d \in Keys \/ Cardinality(Keys) < MaxRecords
  /\ ledger' \in [Keys \cup {d} -> Record]
  /\ \A k \in Keys \ {d} : ledger'[k] = ledger[k]
  /\ rc' \in {0, 1}

(* A call that fails and leaves the ledger as it was.                      *)
Refuse == rc' = 1 /\ UNCHANGED ledger

(* The list is handed out only when every record of it is complete.        *)
Report ==
  /\ \A d \in Keys : IsComplete(ledger[d])
  /\ rc' = 0
  /\ UNCHANGED ledger

DropIncomplete(d) ==
  /\ d \in Keys
  /\ ~IsComplete(ledger[d])
  /\ ledger' = Restrict(ledger, Keys \ {d})
  /\ rc' = 1

Supersedes(new, old) ==
  /\ ledger[new].wapp_name = ledger[old].wapp_name
  /\ ledger[old].manifest_sequence_number <= ledger[new].manifest_sequence_number

(* d is finalised and takes the place of an older record of its name, or   *)
(* gives way to a strictly newer one.                                      *)
Resolve(d) ==
  /\ d \in Keys
  /\ IsComplete(ledger[d])
  /\ \E o \in Keys \ {d} :
       \/ Supersedes(d, o) /\ ledger' = Restrict(ledger, Keys \ {o})
       \/ /\ Supersedes(o, d)
          /\ ~Supersedes(d, o)
          /\ ledger' = Restrict(ledger, Keys \ {d})
  /\ rc' = 0

(* d is finalised and no other record has its name.                        *)
Accept(d) ==
  /\ d \in Keys
  /\ IsComplete(ledger[d])
  /\ \A o \in Keys \ {d} : ledger[o].wapp_name # ledger[d].wapp_name
  /\ rc' = 0
  /\ UNCHANGED ledger

Clear == ledger' = [d \in {} |-> BlankRecord] /\ UNCHANGED rc

Next ==
  \/ \E d \in Digests : Write(d) \/ DropIncomplete(d) \/ Resolve(d) \/ Accept(d)
  \/ Refuse
  \/ Report
  \/ Clear

Spec == Init /\ [][Next]_vars
=============================================================================
