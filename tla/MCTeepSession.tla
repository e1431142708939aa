---------------------------- MODULE MCTeepSession ---------------------------
(***************************************************************************)
(* TeepSession for TLC: an application with an older and a current         *)
(* version, QueryRequests with and without attestation and one that is not *)
(* supported, and messages of different sizes, one too large.              *)
(***************************************************************************)
EXTENDS TeepSession, TLC

CONSTANTS d1, d2, m, a, i1, i2

MCDigests == {d1, d2}
MCNames   == {m, a}
MCImages  == {i1, i2}
MCSeqs    == 0 .. 2

MCSeqOf          == d1 :> 1 @@ d2 :> 2
MCManifestNameOf == [d \in MCDigests |-> m]
MCWappOf         == [d \in MCDigests |-> a]
MCImageOf        == d1 :> i1 @@ d2 :> i2
MCCommandsOf     == [d \in MCDigests |-> {"manifest", "payload", "match"}]

UpdateOf(d) == [token |-> TRUE, manifest_list |-> <<d>>]

MCUpdates       == {UpdateOf(d1), UpdateOf(d2)}
MCCurrentUpdate == UpdateOf(d2)

QueryRequest(version_ok, attestation) ==
  [version_ok |-> version_ok, cipher_ok |-> TRUE, attestation |-> attestation,
   trusted_components |-> TRUE, app_name |-> TRUE]

MCQueryRequests ==
  { QueryRequest(FALSE, FALSE), QueryRequest(TRUE, TRUE), QueryRequest(TRUE, FALSE) }
MCCurrentQuery == QueryRequest(TRUE, TRUE)

MCSizeOf == "QUERY" :> 1 @@ "UPDATE" :> 2 @@ "OTHER" :> 3
=============================================================================
