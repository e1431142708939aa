------------------------------ MODULE TcRecord ------------------------------
(***************************************************************************)
(* The record the Trusted Component ledger is made of: manifest_record_t   *)
(* of Enclave/inc/tc_manager.h, and the arguments libcsuit hands to its    *)
(* store callback.  TcManager keeps these records in an array, TcLedger    *)
(* keeps them in a map.                                                    *)
(*                                                                         *)
(* Data is kept to what the ledger can tell apart.  A manifest digest, a   *)
(* name and a payload image are opaque values; an image stands for its     *)
(* bytes and also for the SHA-256 of those bytes, so a hash field holds    *)
(* the image it was computed from and NoImage when it is all zeros.  Of    *)
(* the stored manifest bytes the ledger only asks whether there are any.   *)
(***************************************************************************)
EXTENDS Naturals

CONSTANTS
  Digests,      (* encoded manifest digests                                *)
  NoDigest,     (* a NULL or empty digest buffer                           *)
  Names,        (* file names decoded from component identifiers           *)
  NoName,       (* the empty string: the name fields of a zeroed record    *)
  Undecodable,  (* a dst no component identifier can be decoded from       *)
  Images,       (* payload images, and their SHA-256 digests               *)
  NoImage,      (* an empty payload buffer, and the all-zero hash          *)
  Seqs          (* manifest sequence numbers                               *)

ASSUME RecordAssumption ==
  /\ NoDigest \notin Digests
  /\ NoName \notin Names
  /\ Undecodable \notin Names \cup {NoName}
  /\ NoImage \notin Images
  /\ Seqs \subseteq Nat
  /\ 0 \in Seqs

Record == [
  manifest_digest          : Digests \cup {NoDigest},
  manifest_name            : Names \cup {NoName},
  manifest_sequence_number : Seqs,
  manifest_bin             : BOOLEAN,
  wapp_name                : Names \cup {NoName},
  wapp_hash                : Images \cup {NoImage},
  wapp_bin                 : Images \cup {NoImage} ]

(* A record zeroed by memset: what static storage starts with and          *)
(* what manifest_record_remove_at leaves behind.                           *)
BlankRecord == [
  manifest_digest          |-> NoDigest,
  manifest_name            |-> NoName,
  manifest_sequence_number |-> 0,
  manifest_bin             |-> FALSE,
  wapp_name                |-> NoName,
  wapp_hash                |-> NoImage,
  wapp_bin                 |-> NoImage ]

(* suit_store_args_t of a store whose subject is the manifest itself, and  *)
(* of a store of a payload.                                                *)
ManifestStore == [
  manifest_digest          : Digests \cup {NoDigest},
  manifest_sequence_number : Seqs,
  dst                      : Names \cup {NoName, Undecodable},
  src_buf                  : BOOLEAN ]

PayloadStore == [
  manifest_digest : Digests \cup {NoDigest},
  dst             : Names \cup {NoName, Undecodable},
  src_buf         : Images \cup {NoImage} ]

IsComplete(r) ==
  /\ r.manifest_name # NoName
  /\ r.wapp_name # NoName
  /\ r.manifest_bin
  /\ r.wapp_bin # NoImage
=============================================================================
