------------------------------- MODULE KeyStore ------------------------------
(***************************************************************************)
(* The TEEP Agent's keys in the enclave (Enclave_generate_keypair.cpp):    *)
(* agent_sign.key with its three buffers, the flags that say which of them *)
(* are its own, the TAM's public key and g_key_state.                      *)
(*                                                                         *)
(* A generated pair is kept in two static arrays, the built-in pair in     *)
(* constants, and a key identifier on the heap; clear_agent_sign_buffers   *)
(* frees whatever is flagged as owned, and generating flags the static     *)
(* arrays.  free() of memory that is not of the heap ends the enclave: the *)
(* allocator of the SGX SDK aborts.  The three ECALLs may come in any      *)
(* order; the attester makes one of the first two when it has created an   *)
(* enclave, and a new enclave starts afresh.                               *)
(*                                                                         *)
(* A pair is one value: its private bytes, its public bytes and the key    *)
(* identifier computed from them.  OpenSSL and libteep are external; a     *)
(* call of them succeeds or fails.                                         *)
(***************************************************************************)
CONSTANTS
  Pairs,   (* the key pairs OpenSSL may generate                           *)
  BuiltIn, (* teep_agent_esp256_{private,public}_key                       *)
  NoPair   (* zeroed bytes, or no key                                      *)

ASSUME KeyStoreAssumption ==
  /\ BuiltIn \notin Pairs
  /\ NoPair \notin Pairs \cup {BuiltIn}

VARIABLES
  g_key_state,  (* TEEP_KEY_UNINITIALIZED or TEEP_KEY_READY                *)
  static_bytes, (* the pair in priv_bytes and pub_bytes                    *)
  agent_key,    (* agent_sign.key                                          *)
  owned,        (* the g_agent_key_owns_ flags that are set                *)
  tam_key,      (* whether tam_verify.key is set                           *)
  crashed       (* the enclave has been aborted                            *)

keyVars == <<g_key_state, static_bytes, agent_key, owned, tam_key, crashed>>

Key == [cose        : Pairs \cup {BuiltIn, NoPair}, (* the OpenSSL key     *)
        private_key : {"NULL", "static", "constant"},
        public_key  : {"NULL", "static", "constant"},
        kid         : Pairs \cup {BuiltIn, NoPair}] (* NoPair: NULL        *)

NoKey == [cose |-> NoPair, private_key |-> "NULL", public_key |-> "NULL", kid |-> NoPair]

(* What agent_sign.key.public_key points at.                               *)
PublicBytes ==
  CASE agent_key.public_key = "static"   -> static_bytes
    [] agent_key.public_key = "constant" -> BuiltIn
    [] OTHER                             -> NoPair

-----------------------------------------------------------------------------
(* clear_agent_sign_buffers: frees and forgets what is flagged; it meets   *)
(* memory that cannot be freed when a static array is flagged.             *)
Foreign(key, flags) ==
  \/ "private" \in flags /\ key.private_key # "NULL"
  \/ "public" \in flags /\ key.public_key # "NULL"

Cleared(key, flags) == [key EXCEPT !.kid = IF "kid" \in flags THEN NoPair ELSE @]

(* teep_free_key releases the OpenSSL key.                                 *)
teep_free_key(key) == [key EXCEPT !.cose = NoPair]

Abort ==
  /\ crashed' = TRUE
  /\ UNCHANGED <<g_key_state, agent_key, owned, tam_key>>

(* teep_key_init_esp256_key_pair, with a NULL kid.                         *)
InitKeyPair(pair, place) ==
  [cose |-> pair, private_key |-> place, public_key |-> place, kid |-> NoPair]

(* What the state is when a key operation fails.  (Mutant: the comment     *)
(* "g_key_state is now TEEP_KEY_UNINITIALIZED" taken at its word.)         *)
StateKept == g_key_state

StateAfterError == "UNINITIALIZED"

-----------------------------------------------------------------------------
(* ecall_teep_generate_esp256_key_pair.  It fails before a pair is there,  *)
(* at the pair, at the key identifier or at the TAM's key; the last two    *)
(* come to the error exit with the static arrays flagged.                  *)
GenerateStages == {"keygen", "pair", "kid", "tam", "done"}

BytesAfter(stage, pair) == IF stage = "keygen" THEN NoPair ELSE pair

ecall_teep_generate_esp256_key_pair(pair, stage) ==
  /\ ~crashed
  /\ static_bytes' = IF Foreign(agent_key, owned) THEN NoPair ELSE BytesAfter(stage, pair)
  /\ IF Foreign(agent_key, owned) \/ stage \in {"kid", "tam"}
     THEN Abort
     ELSE IF stage = "done"
     THEN /\ agent_key' = [InitKeyPair(pair, "static") EXCEPT !.kid = pair]
          /\ owned' = {"private", "public", "kid"}
          /\ tam_key' = TRUE
          /\ g_key_state' = "READY"
          /\ UNCHANGED crashed
     ELSE /\ agent_key' = teep_free_key(Cleared(agent_key, owned))
          /\ owned' = {}
          /\ g_key_state' = StateAfterError
          /\ UNCHANGED <<tam_key, crashed>>

(* ecall_teep_set_esp256_key.  A key identifier whose hash fails is left   *)
(* behind unowned, and lost with the next key.                             *)
SetStages == {"pair", "kid", "tam", "done"}

ecall_teep_set_esp256_key(stage) ==
  /\ ~crashed
  /\ UNCHANGED static_bytes
  /\ IF Foreign(agent_key, owned)
     THEN Abort
     ELSE /\ agent_key' =
               CASE stage = "pair" -> teep_free_key(Cleared(agent_key, owned))
                 [] stage = "kid"  -> InitKeyPair(BuiltIn, "constant")
                 [] OTHER          -> [InitKeyPair(BuiltIn, "constant") EXCEPT !.kid = BuiltIn]
          /\ owned' = IF stage \in {"tam", "done"} THEN {"kid"} ELSE {}
          /\ tam_key' = (tam_key \/ stage = "done")
          /\ g_key_state' = IF stage = "done" THEN "READY" ELSE StateAfterError
          /\ UNCHANGED crashed

ecall_teep_free_keypair ==
  /\ ~crashed
  /\ g_key_state = "READY"
  /\ UNCHANGED static_bytes
  /\ IF Foreign(agent_key, owned)
     THEN Abort
     ELSE /\ agent_key' = NoKey
          /\ owned' = {}
          /\ tam_key' = FALSE
          /\ g_key_state' = "UNINITIALIZED"
          /\ UNCHANGED crashed

KeyInit ==
  /\ g_key_state = "UNINITIALIZED"
  /\ static_bytes = NoPair
  /\ agent_key = NoKey
  /\ owned = {}
  /\ tam_key = FALSE
  /\ crashed = FALSE

(* The process is started again and creates a new enclave.                 *)
NewEnclave ==
  /\ g_key_state' = "UNINITIALIZED"
  /\ static_bytes' = NoPair
  /\ agent_key' = NoKey
  /\ owned' = {}
  /\ tam_key' = FALSE
  /\ crashed' = FALSE

KeyEcall ==
  \/ \E pair \in Pairs, stage \in GenerateStages :
       ecall_teep_generate_esp256_key_pair(pair, stage)
  \/ \E stage \in SetStages : ecall_teep_set_esp256_key(stage)
  \/ ecall_teep_free_keypair

-----------------------------------------------------------------------------
(* Properties.                                                             *)

KeyTypeOK ==
  /\ g_key_state \in {"UNINITIALIZED", "READY"}
  /\ static_bytes \in Pairs \cup {NoPair}
  /\ agent_key \in Key
  /\ owned \subseteq {"private", "public", "kid"}
  /\ tam_key \in BOOLEAN
  /\ crashed \in BOOLEAN

(* A key that is READY is one key: the OpenSSL key that signs, the bytes   *)
(* that evidence is made of and the key identifier are of the same pair,   *)
(* and the TAM's key is set.  Generating zeroes the static arrays before   *)
(* it knows whether it succeeds, and every failure ends in the middle.     *)
ReadyIsWhole ==
  g_key_state = "READY" /\ ~crashed =>
    /\ agent_key.cose # NoPair
    /\ PublicBytes = agent_key.cose
    /\ agent_key.kid = agent_key.cose
    /\ tam_key

(* "This returns one of error codes defined by teep_err_t"                 *)
(* (Enclave_generate_keypair.cpp:122): a key operation returns.            *)
KeyCallsReturn == ~crashed
=============================================================================
