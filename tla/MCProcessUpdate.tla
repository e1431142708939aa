--------------------------- MODULE MCProcessUpdate --------------------------
(***************************************************************************)
(* ProcessUpdate for TLC: two versions of one application, a second        *)
(* application, and a table that the three fill.                           *)
(***************************************************************************)
EXTENDS ProcessUpdate, TLC

CONSTANTS d1, d2, d3, d4, m, a, b, i1, i2

MCDigests == {d1, d2, d3, d4}
MCNames   == {m, a, b}
MCImages  == {i1, i2}
MCSeqs    == 0 .. 2

MCSeqOf          == d1 :> 1 @@ d2 :> 2 @@ d3 :> 1 @@ d4 :> 2
MCManifestNameOf == [d \in MCDigests |-> m]
MCWappOf         == d1 :> a @@ d2 :> a @@ d3 :> b @@ d4 :> b
MCImageOf        == d1 :> i1 @@ d2 :> i2 @@ d3 :> i1 @@ d4 :> i2

AllCommands == {"manifest", "payload", "match"}

(* d4 carries no payload.                                                  *)
MCCommandsOf ==
  [d \in MCDigests |-> IF d = d4 THEN {"manifest"} ELSE AllCommands]

Update(token, list) == [token |-> token, manifest_list |-> list]

(* Installs, upgrades, a downgrade within one message, a manifest without  *)
(* payload, and the three messages that are refused at once.               *)
MCUpdates ==
  { Update(TRUE, <<d1>>), Update(TRUE, <<d2>>), Update(TRUE, <<d3>>),
    Update(TRUE, <<d4>>), Update(TRUE, <<d2, d1>>),
    Update(FALSE, <<d1>>), Update(TRUE, <<>>), Update(TRUE, <<d1, d2, d3>>) }
=============================================================================
