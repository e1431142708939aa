----------------------------- MODULE MCTeepAgent ----------------------------
(***************************************************************************)
(* TeepAgent for TLC: two versions of one application or three            *)
(* applications, a table larger than a tc-list, and a QueryRequest of each *)
(* kind process_query_request tells apart.                                 *)
(***************************************************************************)
EXTENDS TeepAgent, TLC

CONSTANTS d1, d2, d3, m, a, b, c, i1, i2

MCDigests == {d1, d2, d3}
MCNames   == {m, a, b, c}
MCImages  == {i1, i2}
MCSeqs    == 0 .. 2

MCSeqOf          == d1 :> 1 @@ d2 :> 2 @@ d3 :> 1
MCManifestNameOf == [d \in MCDigests |-> m]
MCWappOf         == d1 :> a @@ d2 :> a @@ d3 :> b
MCWappOfEach     == d1 :> a @@ d2 :> c @@ d3 :> b
MCImageOf        == d1 :> i1 @@ d2 :> i2 @@ d3 :> i1
MCCommandsOf     == [d \in MCDigests |-> {"manifest", "payload", "match"}]

MCUpdates    == [token : {TRUE}, manifest_list : {<<d1>>, <<d2>>}]
MCUpdatesAll == [token : {TRUE}, manifest_list : {<<d1>>, <<d2>>, <<d3, d1>>}]

Query(version_ok, cipher_ok, attestation, trusted_components, app_name) ==
  [version_ok |-> version_ok, cipher_ok |-> cipher_ok, attestation |-> attestation,
   trusted_components |-> trusted_components, app_name |-> app_name]

MCQueryRequests ==
  { Query(FALSE, TRUE, TRUE, TRUE, TRUE), Query(TRUE, FALSE, TRUE, TRUE, TRUE),
    Query(TRUE, TRUE, TRUE, FALSE, TRUE), Query(TRUE, TRUE, FALSE, TRUE, TRUE),
    Query(TRUE, TRUE, FALSE, TRUE, FALSE) }
=============================================================================
