---------------------------- MODULE MCWasmRuntime ---------------------------
(***************************************************************************)
(* WasmRuntime for TLC: two versions of one application and a second       *)
(* application with the image of the first, calls of both, of one without  *)
(* a name and of one that is not installed, and output sizes below, at and *)
(* above the caller's buffer.                                              *)
(***************************************************************************)
EXTENDS WasmRuntime, TLC

CONSTANTS d1, d2, d3, m, a, b, i1, i2

MCDigests == {d1, d2, d3}
MCNames   == {m, a, b}
MCImages  == {i1, i2}
MCSeqs    == 0 .. 2

MCSeqOf          == d1 :> 1 @@ d2 :> 2 @@ d3 :> 1
MCManifestNameOf == [d \in MCDigests |-> m]
MCWappOf         == d1 :> a @@ d2 :> a @@ d3 :> b
MCImageOf        == d1 :> i1 @@ d2 :> i2 @@ d3 :> i1
MCCommandsOf     == [d \in MCDigests |-> {"manifest", "payload", "match"}]

MCUpdates == [token : {TRUE}, manifest_list : {<<d1>>, <<d2>>, <<d3>>}]

Call(name, input, len) == [wapp_name |-> name, input |-> input, output_len |-> len]

MCCalls == { Call(a, TRUE, 2), Call(a, FALSE, 1), Call(b, TRUE, 1), Call(NoName, TRUE, 1) }
=============================================================================
