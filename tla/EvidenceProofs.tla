---------------------------- MODULE EvidenceProofs --------------------------
(***************************************************************************)
(* Theorems about KeyStore and Evidence for any set of key pairs, any      *)
(* challenges, sizes and buffers.                                          *)
(*                                                                         *)
(* A ready key stays whole because every key operation either replaces all *)
(* of it or leaves the state UNINITIALIZED.  Evidence is bound to key and  *)
(* challenge because neither can change while it is made, and because what *)
(* each step leaves for the next, in the report, in the block of the quote *)
(* and in the raw report data, is of this request once the step has        *)
(* succeeded: that is the invariant Chain.                                 *)
(***************************************************************************)
EXTENDS Evidence, TLAPS

-----------------------------------------------------------------------------
(* The key.                                                                *)

KInv == KeyTypeOK /\ ReadyIsWhole

LEMMA KeyStays ==
  ASSUME UNCHANGED keyVars, KInv
  PROVE  KInv' /\ PublicBytes' = PublicBytes
BY DEF KInv, keyVars, KeyTypeOK, ReadyIsWhole, PublicBytes

LEMMA NoKeyIsKey == NoKey \in Key
BY DEF NoKey, Key

LEMMA KeyStarts == KeyInit => KInv
BY NoKeyIsKey, Zenon DEF KeyInit, KInv, KeyTypeOK, ReadyIsWhole

LEMMA KeyStartsAgain == NewEnclave => KInv'
BY NoKeyIsKey, Zenon DEF NewEnclave, KInv, KeyTypeOK, ReadyIsWhole

(* Generating a pair: the static arrays are zeroed at once, but the state  *)
(* is READY at the end only if every stage succeeded.                      *)
LEMMA GenerateKeepsKey ==
  ASSUME KInv, NEW pair \in Pairs, NEW stage \in GenerateStages,
         ecall_teep_generate_esp256_key_pair(pair, stage)
  PROVE  KInv'
<1> USE DEF KInv, KeyTypeOK, ReadyIsWhole, ecall_teep_generate_esp256_key_pair
<1>1. static_bytes' \in Pairs \cup {NoPair}
  BY DEF BytesAfter
<1>2. CASE Foreign(agent_key, owned) \/ stage \in {"kid", "tam"}
  BY <1>1, <1>2 DEF Abort
<1>3. CASE ~(Foreign(agent_key, owned) \/ stage \in {"kid", "tam"}) /\ stage = "done"
  <2>1. agent_key' = [cose |-> pair, private_key |-> "static", public_key |-> "static",
                      kid |-> pair]
    BY <1>3 DEF InitKeyPair
  <2>2. static_bytes' = pair
    BY <1>3 DEF BytesAfter
  <2>3. agent_key' \in Key
    BY <2>1 DEF Key
  <2>4. PublicBytes' = pair
    BY <2>1, <2>2 DEF PublicBytes
  <2> QED
    BY <1>1, <1>3, <2>1, <2>3, <2>4, KeyStoreAssumption
<1>4. CASE ~(Foreign(agent_key, owned) \/ stage \in {"kid", "tam"}) /\ stage # "done"
  <2>1. agent_key' \in Key
    BY <1>4 DEF teep_free_key, Cleared, Key
  <2> QED
    BY <1>1, <1>4, <2>1 DEF StateAfterError
<1> QED
  BY <1>2, <1>3, <1>4

LEMMA SetKeepsKey ==
  ASSUME KInv, NEW stage \in SetStages, ecall_teep_set_esp256_key(stage)
  PROVE  KInv'
<1> USE DEF KInv, KeyTypeOK, ReadyIsWhole, ecall_teep_set_esp256_key
<1>1. CASE Foreign(agent_key, owned)
  BY <1>1 DEF Abort
<1>2. CASE ~Foreign(agent_key, owned) /\ stage = "done"
  <2>1. agent_key' = [cose |-> BuiltIn, private_key |-> "constant",
                      public_key |-> "constant", kid |-> BuiltIn]
    BY <1>2 DEF InitKeyPair
  <2>2. agent_key' \in Key
    BY <2>1 DEF Key
  <2>3. PublicBytes' = BuiltIn
    BY <2>1 DEF PublicBytes
  <2> QED
    <3>1. g_key_state' = "READY" /\ tam_key' /\ ~crashed' /\ tam_key' \in BOOLEAN
      BY <1>2, Zenon
    <3>2. owned' \subseteq {"private", "public", "kid"} /\ crashed' \in BOOLEAN
      BY <1>2
    <3> QED
      BY <3>1, <3>2, <2>1, <2>2, <2>3, KeyStoreAssumption
<1>3. CASE ~Foreign(agent_key, owned) /\ stage # "done"
  <2>1. agent_key' \in Key
    <3>1. CASE stage = "pair"
      BY <1>3, <3>1 DEF teep_free_key, Cleared, Key
    <3>2. CASE stage = "kid"
      <4>1. agent_key' = InitKeyPair(BuiltIn, "constant")
        BY <1>3, <3>2
      <4> QED
        BY <4>1 DEF InitKeyPair, Key
    <3>3. CASE stage = "tam"
      <4>1. agent_key' = [InitKeyPair(BuiltIn, "constant") EXCEPT !.kid = BuiltIn]
        BY <1>3, <3>3
      <4> QED
        BY <4>1 DEF InitKeyPair, Key
    <3> QED
      BY <1>3, <3>1, <3>2, <3>3 DEF SetStages
  <2>2. g_key_state' = "UNINITIALIZED" /\ tam_key' \in BOOLEAN /\ crashed' \in BOOLEAN
    BY <1>3, Zenon DEF StateAfterError
  <2>3. owned' \subseteq {"private", "public", "kid"}
    BY <1>3
  <2> QED
    BY <2>1, <2>2, <2>3
<1> QED
  BY <1>1, <1>2, <1>3

LEMMA FreeKeepsKey ==
  ASSUME KInv, ecall_teep_free_keypair
  PROVE  KInv'
<1> USE DEF KInv, KeyTypeOK, ReadyIsWhole, ecall_teep_free_keypair
<1>1. CASE Foreign(agent_key, owned)
  BY <1>1 DEF Abort
<1>2. CASE ~Foreign(agent_key, owned)
  BY <1>2, NoKeyIsKey, Zenon
<1> QED
  BY <1>1, <1>2

LEMMA KeyEcallKeepsKey == KInv /\ KeyEcall => KInv'
BY GenerateKeepsKey, SetKeepsKey, FreeKeepsKey DEF KeyEcall

(* A ready key is a pair, and its own identifier.                          *)
LEMMA ReadyKey ==
  ASSUME KInv, g_key_state = "READY", ~crashed
  PROVE  /\ PublicBytes \in Pairs \cup {BuiltIn}
         /\ agent_key.cose = PublicBytes
         /\ agent_key.kid = PublicBytes
<1>1. agent_key.cose \in Pairs \cup {BuiltIn, NoPair}
  BY DEF KInv, KeyTypeOK, Key
<1> QED
  BY <1>1 DEF KInv, ReadyIsWhole

-----------------------------------------------------------------------------
(* The making of evidence.                                                 *)

Bound == [key |-> PublicBytes, challenge |-> challenge]

(* What each step leaves for the next is of this request.                  *)
Chain ==
  /\ epc # "idle" => g_key_state = "READY" /\ ~crashed
  /\ epc \in {"size", "quote"} => report = Bound
  /\ epc \in {"raw", "encode"} => quote_buf = Bound
  /\ epc = "encode" => raw_report_data = Bound
  /\ epc \in {"target", "report", "size", "quote", "raw", "encode"} => SGX_EVIDENCE = TRUE
  /\ epc \in {"sign", "claims"} => SGX_EVIDENCE = FALSE

(* There is a payload only at the end.                                     *)
Outcome ==
  /\ epc # "done" => ret = Blank /\ result = "PENDING"
  /\ EvidenceGivesBack

(* The types of the variables beside the keys.                             *)
Types ==
  /\ SGX_EVIDENCE \in BOOLEAN
  /\ epc \in {"idle", "target", "report", "size", "quote", "raw", "encode", "sign",
              "claims", "done"}
  /\ challenge \in AllChallenges
  /\ qe_target_info \in BOOLEAN
  /\ report \in ReportData \cup {Blank}
  /\ quote_size \in Nat
  /\ epc \in {"quote", "raw", "encode"} => quote_size \in 1 .. BufferLength
  /\ quote_buf \in ReportData \cup {Blank}
  /\ raw_report_data \in ReportData \cup {Blank}
  /\ allocated \subseteq {"quote_buf", "raw_report_data", "attester_key"}
  /\ result \in {"PENDING", "SUCCESS", "NO_MEMORY", "UNEXPECTED_ERROR", "SIGNING_FAILED",
                "INVALID_VALUE"}
  /\ ret \in Bundle \cup Eat \cup {Blank}

IInv == KInv /\ Types /\ Chain /\ Outcome /\ EvidenceBound

(* A request that is being answered is about a ready key.                  *)
LEMMA BoundIsReportData ==
  ASSUME IInv, epc # "idle"
  PROVE  Bound \in ReportData
BY ReadyKey DEF IInv, Chain, Types, Bound, ReportData

(* While evidence is made the key stands still.                            *)
LEMMA BoundStays ==
  ASSUME KInv, UNCHANGED <<keyVars, challenge>>
  PROVE  Bound' = Bound
BY KeyStays DEF Bound

(* Every failure leaves the invariant, wherever it comes.                  *)
LEMMA FailKeeps ==
  ASSUME IInv,
         g_key_state = "READY", ~crashed,
         UNCHANGED <<keyVars, SGX_EVIDENCE>>,
         challenge' \in AllChallenges,
         qe_target_info' \in BOOLEAN,
         report' \in ReportData \cup {Blank},
         quote_size' \in Nat,
         quote_buf' \in ReportData \cup {Blank},
         raw_report_data' \in ReportData \cup {Blank},
         NEW code \in {"NO_MEMORY", "UNEXPECTED_ERROR", "SIGNING_FAILED", "INVALID_VALUE"},
         Fail(code)
  PROVE  IInv'
<1>1. epc' = "done" /\ result' = code /\ ret' = Blank /\ allocated' = {}
  BY DEF Fail, Exit, Kept
<1>2. KInv'
  BY KeyStays DEF IInv
<1>3. g_key_state' = "READY" /\ ~crashed'
  BY DEF keyVars
<1>4. Types'
  BY <1>1 DEF IInv, Types
<1>5. Chain' /\ Outcome' /\ EvidenceBound'
  BY <1>1, <1>3 DEF Chain, Outcome, EvidenceGivesBack, EvidenceBound
<1> QED
  BY <1>2, <1>4, <1>5 DEF IInv

(* A step that only goes on keeps what does not depend on where it is.     *)
LEMMA GoesOn ==
  ASSUME IInv, epc # "idle",
         epc' \in {"target", "report", "size", "quote", "raw", "encode", "claims"},
         epc # "done",
         UNCHANGED <<keyVars, SGX_EVIDENCE, challenge, result, ret>>
  PROVE  /\ KInv' /\ Bound' = Bound /\ Outcome' /\ EvidenceBound'
         /\ g_key_state' = "READY" /\ ~crashed'
<1>1. KInv'
  BY KeyStays DEF IInv
<1>2. Bound' = Bound
  BY BoundStays DEF IInv
<1>3. ret' = Blank /\ result' = "PENDING"
  BY DEF IInv, Outcome
<1>4. Outcome' /\ EvidenceBound'
  BY <1>3 DEF Outcome, EvidenceGivesBack, EvidenceBound
<1>5. g_key_state' = "READY" /\ ~crashed'
  BY DEF IInv, Chain, keyVars
<1> QED
  BY <1>1, <1>2, <1>4, <1>5

-----------------------------------------------------------------------------
LEMMA InitInv == Init => IInv
<1> SUFFICES ASSUME Init PROVE IInv
  OBVIOUS
<1>1. KInv
  BY KeyStarts DEF Init
<1>2. Types
  BY DEF Init, Types, AllChallenges
<1>3. Chain /\ Outcome /\ EvidenceBound
  BY DEF Init, Chain, Outcome, EvidenceGivesBack, EvidenceBound
<1> QED
  BY <1>1, <1>2, <1>3 DEF IInv

LEMMA BeginKeeps ==
  ASSUME IInv, NEW c \in AllChallenges, Begin(c)
  PROVE  IInv'
<1>1. /\ challenge' \in AllChallenges
      /\ qe_target_info' = FALSE /\ qe_target_info' \in BOOLEAN
      /\ report' \in ReportData \cup {Blank}
      /\ quote_size' \in Nat
      /\ quote_buf' \in ReportData \cup {Blank}
      /\ raw_report_data' \in ReportData \cup {Blank}
  BY DEF Begin, IInv, Types
<1>2. g_key_state = "READY" /\ ~crashed /\ UNCHANGED <<keyVars, SGX_EVIDENCE>> /\ epc = "idle"
  BY DEF Begin, Idle
<1>3. CASE Fail("INVALID_VALUE") \/ Fail("NO_MEMORY")
  BY <1>1, <1>2, <1>3, FailKeeps
<1>4. CASE ~(Fail("INVALID_VALUE") \/ Fail("NO_MEMORY"))
  <2>1. /\ \/ SGX_EVIDENCE /\ epc' = "target" /\ allocated' = {"quote_buf"}
           \/ ~SGX_EVIDENCE /\ epc' = "sign" /\ UNCHANGED allocated
        /\ UNCHANGED <<result, ret>>
    BY <1>4, Zenon DEF Begin
  <2>2. KInv'
    BY <1>2, KeyStays DEF IInv
  <2>3. g_key_state' = "READY" /\ ~crashed'
    BY <1>2 DEF keyVars
  <2>4. ret' = Blank /\ result' = "PENDING"
    BY <1>2, <2>1 DEF IInv, Outcome
  <2>5. Types'
    BY <1>1, <1>2, <2>1 DEF IInv, Types
  <2>6. SGX_EVIDENCE \in BOOLEAN
    BY DEF IInv, Types
  <2>7. Chain'
    BY <1>2, <2>1, <2>3, <2>6 DEF Chain
  <2>8. Outcome' /\ EvidenceBound'
    BY <2>1, <2>4 DEF Outcome, EvidenceGivesBack, EvidenceBound
  <2> QED
    BY <2>2, <2>5, <2>7, <2>8 DEF IInv
<1> QED
  BY <1>3, <1>4

LEMMA GetTargetInfoKeeps ==
  ASSUME IInv, GetTargetInfo
  PROVE  IInv'
<1>1. /\ epc = "target" /\ g_key_state = "READY" /\ ~crashed
      /\ UNCHANGED <<keyVars, SGX_EVIDENCE, challenge, report, quote_size, quote_buf,
                     raw_report_data>>
  BY DEF GetTargetInfo, IInv, Chain
<1>2. qe_target_info' \in BOOLEAN
  BY DEF GetTargetInfo
<1>3. CASE Fail("UNEXPECTED_ERROR")
  BY <1>1, <1>2, <1>3, FailKeeps DEF IInv, Types
<1>4. CASE ~Fail("UNEXPECTED_ERROR")
  <2>1. epc' = "report" /\ UNCHANGED <<allocated, result, ret>>
    BY <1>4, Zenon DEF GetTargetInfo
  <2>2. KInv' /\ Outcome' /\ EvidenceBound' /\ g_key_state' = "READY" /\ ~crashed'
    BY <1>1, <2>1, GoesOn
  <2>3. Types' /\ Chain'
    BY <1>1, <1>2, <2>1, <2>2 DEF IInv, Types, Chain
  <2> QED
    BY <2>2, <2>3 DEF IInv
<1> QED
  BY <1>3, <1>4

LEMMA CreateReportKeeps ==
  ASSUME IInv, CreateReport
  PROVE  IInv'
<1>1. /\ epc = "report" /\ g_key_state = "READY" /\ ~crashed
      /\ UNCHANGED <<keyVars, SGX_EVIDENCE, challenge, qe_target_info, quote_size,
                     quote_buf, raw_report_data>>
  BY DEF CreateReport, IInv, Chain
<1>2. CASE Fail("UNEXPECTED_ERROR") /\ UNCHANGED report
  BY <1>1, <1>2, FailKeeps DEF IInv, Types
<1>3. CASE report' = create_dcap_report_data /\ epc' = "size"
           /\ UNCHANGED <<allocated, result, ret>>
  <2>1. KInv' /\ Outcome' /\ EvidenceBound' /\ g_key_state' = "READY" /\ ~crashed'
        /\ Bound' = Bound
    BY <1>1, <1>3, GoesOn
  <2>2. report' = Bound /\ Bound \in ReportData
    BY <1>1, <1>3, BoundIsReportData DEF create_dcap_report_data, Bound
  <2>3. Types' /\ Chain'
    BY <1>1, <1>3, <2>1, <2>2 DEF IInv, Types, Chain
  <2> QED
    BY <2>1, <2>3 DEF IInv
<1> QED
  BY <1>2, <1>3 DEF CreateReport

(* A size that is used fits the block.                                     *)
LEMMA GetQuoteSizeKeeps ==
  ASSUME IInv, GetQuoteSize
  PROVE  IInv'
<1>1. /\ epc = "size" /\ g_key_state = "READY" /\ ~crashed
      /\ UNCHANGED <<keyVars, SGX_EVIDENCE, challenge, qe_target_info, report, quote_buf,
                     raw_report_data>>
  BY DEF GetQuoteSize, IInv, Chain
<1>2. quote_size' \in Nat
  BY EvidenceAssumption DEF GetQuoteSize
<1>3. CASE Fail("UNEXPECTED_ERROR") \/ Fail("NO_MEMORY")
  BY <1>1, <1>2, <1>3, FailKeeps DEF IInv, Types
<1>4. CASE ~(Fail("UNEXPECTED_ERROR") \/ Fail("NO_MEMORY"))
  <2>1. epc' = "quote" /\ UNCHANGED <<allocated, result, ret>> /\ ~Unfit(quote_size')
    BY <1>4, Zenon DEF GetQuoteSize
  <2>2. KInv' /\ Outcome' /\ EvidenceBound' /\ g_key_state' = "READY" /\ ~crashed'
        /\ Bound' = Bound
    BY <1>1, <2>1, GoesOn
  <2>3. quote_size' \in 1 .. BufferLength
    BY <1>2, <2>1, EvidenceAssumption DEF Unfit
  <2>4. Types' /\ Chain'
    BY <1>1, <1>2, <2>1, <2>2, <2>3 DEF IInv, Types, Chain
  <2> QED
    BY <2>2, <2>4 DEF IInv
<1> QED
  BY <1>3, <1>4

(* A quote that is used is of this report: both statuses are good.         *)
LEMMA GetQuoteKeeps ==
  ASSUME IInv, GetQuote
  PROVE  IInv'
<1>1. /\ epc = "quote" /\ g_key_state = "READY" /\ ~crashed
      /\ UNCHANGED <<keyVars, SGX_EVIDENCE, challenge, qe_target_info, report, quote_size,
                     raw_report_data>>
  BY DEF GetQuote, IInv, Chain
<1>2. quote_buf' \in ReportData \cup {Blank}
  BY DEF GetQuote, IInv, Types
<1>3. CASE Fail("UNEXPECTED_ERROR")
  BY <1>1, <1>2, <1>3, FailKeeps DEF IInv, Types
<1>4. CASE ~Fail("UNEXPECTED_ERROR")
  <2>1. epc' = "raw" /\ UNCHANGED <<allocated, result, ret>> /\ quote_buf' = report
    BY <1>4 DEF GetQuote, OcallFailed
  <2>2. KInv' /\ Outcome' /\ EvidenceBound' /\ g_key_state' = "READY" /\ ~crashed'
        /\ Bound' = Bound
    BY <1>1, <2>1, GoesOn
  <2>3. quote_buf' = Bound'
    BY <1>1, <2>1, <2>2 DEF IInv, Chain
  <2>4. Types' /\ Chain'
    BY <1>1, <1>2, <2>1, <2>2, <2>3 DEF IInv, Types, Chain
  <2> QED
    BY <2>2, <2>4 DEF IInv
<1> QED
  BY <1>3, <1>4

LEMMA MakeRawReportDataKeeps ==
  ASSUME IInv, MakeRawReportData
  PROVE  IInv'
<1>1. /\ epc = "raw" /\ g_key_state = "READY" /\ ~crashed
      /\ UNCHANGED <<keyVars, SGX_EVIDENCE, challenge, qe_target_info, report, quote_size,
                     quote_buf>>
  BY DEF MakeRawReportData, IInv, Chain
<1>2. CASE Fail("NO_MEMORY") /\ UNCHANGED raw_report_data
  BY <1>1, <1>2, FailKeeps DEF IInv, Types
<1>3. CASE /\ raw_report_data' = create_raw_dcap_report_data
           /\ allocated' = allocated \cup {"raw_report_data"}
           /\ epc' = "encode"
           /\ UNCHANGED <<result, ret>>
  <2>1. KInv' /\ Outcome' /\ EvidenceBound' /\ g_key_state' = "READY" /\ ~crashed'
        /\ Bound' = Bound
    BY <1>1, <1>3, GoesOn
  <2>2. raw_report_data' = Bound /\ Bound \in ReportData
    BY <1>1, <1>3, BoundIsReportData DEF create_raw_dcap_report_data, Bound
  <2>3. Types' /\ Chain'
    BY <1>1, <1>3, <2>1, <2>2 DEF IInv, Types, Chain
  <2> QED
    BY <2>1, <2>3 DEF IInv
<1> QED
  BY <1>2, <1>3 DEF MakeRawReportData

(* The bundle: its two halves are of this request.                         *)
LEMMA EncodeBundleKeeps ==
  ASSUME IInv, EncodeBundle
  PROVE  IInv'
<1>1. /\ epc = "encode" /\ g_key_state = "READY" /\ ~crashed
      /\ UNCHANGED <<keyVars, SGX_EVIDENCE, challenge, qe_target_info, report, quote_size,
                     quote_buf, raw_report_data>>
  BY DEF EncodeBundle, IInv, Chain
<1>2. CASE Fail("UNEXPECTED_ERROR")
  BY <1>1, <1>2, FailKeeps DEF IInv, Types
<1>3. CASE Exit("SUCCESS", [quote |-> quote_buf, raw |-> raw_report_data])
  <2>1. /\ epc' = "done" /\ result' = "SUCCESS" /\ allocated' = {}
        /\ ret' = [quote |-> quote_buf, raw |-> raw_report_data]
    BY <1>3 DEF Exit, Kept
  <2>2. quote_buf = Bound /\ raw_report_data = Bound /\ SGX_EVIDENCE = TRUE
    BY <1>1 DEF IInv, Chain
  <2>3. ret' \in Bundle
    BY <1>1, <2>1, <2>2, BoundIsReportData DEF Bundle
  <2>4. ret' # Blank
    BY <2>3, BlankAssumption
  <2>5. KInv' /\ g_key_state' = "READY" /\ ~crashed'
    BY <1>1, KeyStays DEF IInv, keyVars
  <2>6. Types'
    BY <1>1, <2>1, <2>3 DEF IInv, Types
  <2>7. Chain' /\ Outcome'
    BY <2>1, <2>4, <2>5 DEF Chain, Outcome, EvidenceGivesBack
  <2>8. EvidenceBound'
    <3>1. Bound = [key |-> agent_key.cose, challenge |-> challenge]
      BY <1>1, ReadyKey DEF IInv, Bound
    <3>2. agent_key' = agent_key /\ challenge' = challenge /\ SGX_EVIDENCE' = TRUE
      BY <1>1, <2>2 DEF keyVars
    <3> QED
      BY <2>1, <2>2, <3>1, <3>2 DEF EvidenceBound
  <2> QED
    BY <2>5, <2>6, <2>7, <2>8 DEF IInv
<1> QED
  BY <1>2, <1>3 DEF EncodeBundle

LEMMA InitSigningKeyKeeps ==
  ASSUME IInv, InitSigningKey
  PROVE  IInv'
<1>1. /\ epc = "sign" /\ g_key_state = "READY" /\ ~crashed
      /\ UNCHANGED <<keyVars, SGX_EVIDENCE, challenge, qe_target_info, report, quote_size,
                     quote_buf, raw_report_data>>
  BY DEF InitSigningKey, IInv, Chain
<1>2. CASE Fail("UNEXPECTED_ERROR")
  BY <1>1, <1>2, FailKeeps DEF IInv, Types
<1>3. CASE epc' = "claims" /\ allocated' = {"attester_key"} /\ UNCHANGED <<result, ret>>
  <2>1. KInv' /\ Outcome' /\ EvidenceBound' /\ g_key_state' = "READY" /\ ~crashed'
    BY <1>1, <1>3, GoesOn
  <2>2. Types' /\ Chain'
    BY <1>1, <1>3, <2>1 DEF IInv, Types, Chain
  <2> QED
    BY <2>1, <2>2 DEF IInv
<1> QED
  BY <1>2, <1>3 DEF InitSigningKey

(* The EAT confirms the agent's key and identifier.                        *)
LEMMA SignClaimsKeeps ==
  ASSUME IInv, SignClaims
  PROVE  IInv'
<1> DEFINE eat == [cnf |-> PublicBytes, kid |-> agent_key.kid, eat_nonce |-> eat_nonce]
<1>1. /\ epc = "claims" /\ g_key_state = "READY" /\ ~crashed
      /\ UNCHANGED <<keyVars, SGX_EVIDENCE, challenge, qe_target_info, report, quote_size,
                     quote_buf, raw_report_data>>
  BY DEF SignClaims, IInv, Chain
<1>2. CASE Fail("SIGNING_FAILED") \/ Fail("UNEXPECTED_ERROR")
  BY <1>1, <1>2, FailKeeps DEF IInv, Types
<1>3. CASE Exit("SUCCESS", eat)
  <2>1. epc' = "done" /\ result' = "SUCCESS" /\ allocated' = {} /\ ret' = eat
    BY <1>3 DEF Exit, Kept
  <2>2. SGX_EVIDENCE = FALSE
    BY <1>1 DEF IInv, Chain
  <2>3. /\ PublicBytes \in Pairs \cup {BuiltIn}
        /\ agent_key.cose = PublicBytes
        /\ agent_key.kid = PublicBytes
    BY <1>1, ReadyKey DEF IInv
  <2>4. eat_nonce \in Challenges \cup {DefaultNonce}
    BY DEF IInv, Types, AllChallenges, eat_nonce
  <2>5. ret' \in Eat
    BY <2>1, <2>3, <2>4 DEF Eat
  <2>6. ret' # Blank
    BY <2>5, BlankAssumption
  <2>7. KInv' /\ g_key_state' = "READY" /\ ~crashed'
    BY <1>1, KeyStays DEF IInv, keyVars
  <2>8. Types'
    BY <1>1, <2>1, <2>5 DEF IInv, Types
  <2>9. Chain' /\ Outcome'
    BY <2>1, <2>6, <2>7 DEF Chain, Outcome, EvidenceGivesBack
  <2>10. EvidenceBound'
    <3>1. agent_key' = agent_key /\ eat_nonce' = eat_nonce /\ SGX_EVIDENCE' = FALSE
      BY <1>1, <2>2 DEF keyVars, eat_nonce
    <3> QED
      BY <2>1, <2>3, <3>1 DEF EvidenceBound
  <2> QED
    BY <2>7, <2>8, <2>9, <2>10 DEF IInv
<1> QED
  BY <1>2, <1>3 DEF SignClaims

(* Between requests there is neither payload nor block.                    *)
LEMMA ReturnKeeps ==
  ASSUME IInv, Return
  PROVE  IInv'
<1>1. KInv'
  BY KeyStays DEF Return, IInv
<1>2. Types'
  BY DEF Return, IInv, Types, AllChallenges
<1>3. allocated' = {}
  BY DEF Return, IInv, Outcome, EvidenceGivesBack
<1>4. Chain' /\ Outcome' /\ EvidenceBound'
  BY <1>3 DEF Return, Chain, Outcome, EvidenceGivesBack, EvidenceBound
<1> QED
  BY <1>1, <1>2, <1>4 DEF IInv

LEMMA KeyCallKeeps ==
  ASSUME IInv, KeyCall
  PROVE  IInv'
<1>1. KInv'
  BY KeyEcallKeepsKey DEF KeyCall, IInv
<1>2. epc = "idle" /\ UNCHANGED <<SGX_EVIDENCE, evidenceVars>>
  BY DEF KeyCall, Idle
<1>3. Types'
  BY <1>2 DEF IInv, Types, evidenceVars
<1>4. ret' = Blank /\ result' = "PENDING" /\ allocated' = {} /\ epc' = "idle"
  BY <1>2 DEF IInv, Outcome, EvidenceGivesBack, evidenceVars
<1>5. Chain' /\ Outcome' /\ EvidenceBound'
  BY <1>4 DEF Chain, Outcome, EvidenceGivesBack, EvidenceBound
<1> QED
  BY <1>1, <1>3, <1>5 DEF IInv

LEMMA RestartKeeps ==
  ASSUME IInv, Restart
  PROVE  IInv'
<1>1. KInv'
  BY KeyStartsAgain DEF Restart
<1>2. Types'
  BY DEF Restart, IInv, Types, AllChallenges
<1>3. Chain' /\ Outcome' /\ EvidenceBound'
  BY DEF Restart, Chain, Outcome, EvidenceGivesBack, EvidenceBound
<1> QED
  BY <1>1, <1>2, <1>3 DEF IInv

LEMMA StutterKeeps ==
  ASSUME IInv, UNCHANGED vars
  PROVE  IInv'
<1>1. KInv'
  BY KeyStays DEF IInv, vars
<1>2. Bound' = Bound
  BY BoundStays DEF IInv, vars, evidenceVars
<1>3. Types' /\ Outcome' /\ EvidenceBound'
  BY DEF IInv, vars, keyVars, evidenceVars, Types, Outcome, EvidenceGivesBack,
         EvidenceBound, eat_nonce
<1>4. Chain'
  BY <1>2 DEF IInv, vars, keyVars, evidenceVars, Chain
<1> QED
  BY <1>1, <1>3, <1>4 DEF IInv

LEMMA NextInv == IInv /\ [Next]_vars => IInv'
<1> SUFFICES ASSUME IInv, [Next]_vars PROVE IInv'
  OBVIOUS
<1>1. CASE \E c \in AllChallenges : Begin(c)
  BY <1>1, BeginKeeps
<1>2. CASE GetTargetInfo \/ CreateReport \/ GetQuoteSize \/ GetQuote
  BY <1>2, GetTargetInfoKeeps, CreateReportKeeps, GetQuoteSizeKeeps, GetQuoteKeeps
<1>3. CASE MakeRawReportData \/ EncodeBundle \/ InitSigningKey \/ SignClaims
  BY <1>3, MakeRawReportDataKeeps, EncodeBundleKeeps, InitSigningKeyKeeps, SignClaimsKeeps
<1>4. CASE Return \/ KeyCall \/ Restart
  BY <1>4, ReturnKeeps, KeyCallKeeps, RestartKeeps
<1>5. CASE UNCHANGED vars
  BY <1>5, StutterKeeps
<1> QED
  BY <1>1, <1>2, <1>3, <1>4, <1>5 DEF Next

LEMMA Invariant == Spec => []IInv
BY InitInv, NextInv, PTL DEF Spec

-----------------------------------------------------------------------------
(* The theorems.                                                           *)

(* The types of Enclave_generate_evidence.cpp and                          *)
(* Enclave_generate_keypair.cpp's state; among them, the size a quote is   *)
(* fetched with (line 420) fits the block it is fetched into.              *)
THEOREM EvidenceTypeCorrect == Spec => []TypeOK
<1>1. IInv => TypeOK
  BY DEF IInv, KInv, Types, TypeOK
<1> QED
  BY <1>1, Invariant, PTL

(* A key that is READY is one pair, however generating, setting and        *)
(* freeing keys (Enclave_generate_keypair.cpp) succeeded and failed.       *)
THEOREM ReadyStaysWhole == Spec => []ReadyIsWhole
<1>1. IInv => ReadyIsWhole
  BY DEF IInv, KInv
<1> QED
  BY <1>1, Invariant, PTL

(* Evidence, of either build, is bound to the challenge of its request and *)
(* to the key the response is signed with.                                 *)
THEOREM EvidenceStaysBound == Spec => []EvidenceBound
<1>1. IInv => EvidenceBound
  BY DEF IInv
<1> QED
  BY <1>1, Invariant, PTL

(* Every exit of create_evidence_dcap_envelope and create_evidence_generic *)
(* frees what was allocated, and has a payload exactly with SUCCESS.       *)
THEOREM EvidenceAlwaysGivesBack == Spec => []EvidenceGivesBack
<1>1. IInv => EvidenceGivesBack
  BY DEF IInv, Outcome
<1> QED
  BY <1>1, Invariant, PTL
=============================================================================
