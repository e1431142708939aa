------------------------------ MODULE MCEvidence -----------------------------
(***************************************************************************)
(* Evidence with its KeyStore for TLC: two pairs to generate and the       *)
(* built-in one, a short and a long challenge, and quote sizes that are    *)
(* zero, fit with either challenge, fit only without one, and do not fit.  *)
(***************************************************************************)
EXTENDS Evidence, TLC

CONSTANTS k1, k2, c1, c2

MCPairs           == {k1, k2}
MCChallenges      == {c1, c2}
MCChallengeLength == NoChallenge :> 0 @@ c1 :> 1 @@ c2 :> 2 @@ DefaultNonce :> 1
MCQuoteSizes      == {0, 1, 2, 3, 6}
=============================================================================
