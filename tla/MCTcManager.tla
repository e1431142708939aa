----------------------------- MODULE MCTcManager ----------------------------
(***************************************************************************)
(* TcManager with its heap, TcBuffers, for TLC: three slots and three      *)
(* manifests, so that three records can share one application name or fill *)
(* the table, with sequence numbers that meet both outcomes and the tie of *)
(* the duplicate rule.  d4 is the manifest there is no room for.           *)
(***************************************************************************)
EXTENDS TcBuffers

CONSTANTS d1, d2, d3, d4, m, a, b, i1, i2

MCDigests == {d1, d2, d3, d4}
MCNames   == {m, a, b}
MCImages  == {i1, i2}
MCSeqs    == 0 .. 2

ManifestArg(d, seq, dst, src) ==
  [manifest_digest |-> d, manifest_sequence_number |-> seq, dst |-> dst, src_buf |-> src]

PayloadArg(d, dst, src) == [manifest_digest |-> d, dst |-> dst, src_buf |-> src]

(* d1 and d3 tie, d2 is newer; d3 also arrives without bytes and with a    *)
(* name that cannot be read.                                               *)
MCManifestArgs ==
  { ManifestArg(d1, 1, m, TRUE), ManifestArg(d2, 2, m, TRUE),
    ManifestArg(d3, 1, m, TRUE), ManifestArg(d3, 1, Undecodable, FALSE) }

(* All three may install a; d3 also another application with another image *)
(* (the failed copies of StorePayload give the records without an image).  *)
MCPayloadArgs ==
  { PayloadArg(d1, a, i1), PayloadArg(d2, a, i1), PayloadArg(d3, a, i1),
    PayloadArg(d3, b, i2) }
=============================================================================
