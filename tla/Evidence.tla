------------------------------- MODULE Evidence ------------------------------
(***************************************************************************)
(* Attestation evidence (Enclave_generate_evidence.cpp), from the moment   *)
(* process_query_request asks for it to the payload or the error, with the *)
(* OCALLs of dcap_quote_ocalls.cpp and, between requests, the key ECALLs   *)
(* of KeyStore.                                                            *)
(*                                                                         *)
(* The default build makes an SGX DCAP bundle: target info of the quoting  *)
(* enclave, report data from key and challenge, report, size of the quote, *)
(* quote, and beside it the raw report data, made a second time from the   *)
(* query.  An OCALL answers twice, once for the bridge and once for the    *)
(* call: when the bridge works, the out parameters are copied back         *)
(* whatever the call says, so a failed call leaves blank ones.  The quote  *)
(* goes to a heap buffer that may still hold an earlier one.  The other    *)
(* build makes a signed EAT.                                               *)
(*                                                                         *)
(* SHA-384 is injective here: report data is the pair of key and challenge *)
(* it was computed from.  The quoting enclave is external; it quotes only  *)
(* a report made for it.  A challenge comes from a decoded message, so its *)
(* pointer is there when its length is not 0.                              *)
(***************************************************************************)
EXTENDS KeyStore, Naturals

CONSTANTS
  Challenges,      (* the challenges of QueryRequests                      *)
  NoChallenge,     (* the query contains none                              *)
  DefaultNonce,    (* kDefaultEatNonce                                     *)
  ChallengeLength, (* the length of each challenge; 0 for NoChallenge      *)
  KeyLength,       (* 2 * kP256CoordinateLength                            *)
  QuoteSizes,      (* the sizes ocall_get_quote_size may answer            *)
  EatLength,       (* of the signed EAT without its nonce                  *)
  BufferLength,    (* what is left of the caller's work buffer             *)
  Blank            (* nothing, and the content of a zeroed buffer          *)

ASSUME EvidenceAssumption ==
  /\ NoChallenge \notin Challenges
  /\ DefaultNonce \notin Challenges \cup {NoChallenge}
  /\ ChallengeLength \in [Challenges \cup {NoChallenge, DefaultNonce} -> Nat]
  /\ ChallengeLength[NoChallenge] = 0
  /\ QuoteSizes \subseteq Nat
  /\ KeyLength \in Nat /\ EatLength \in Nat /\ BufferLength \in Nat \ {0}

VARIABLES
  SGX_EVIDENCE,   (* the build setting; it never changes                   *)
  epc,            (* where the making of evidence is                       *)
  challenge,      (* of the QueryRequest being answered                    *)
  qe_target_info, (* whether it is that of the quoting enclave             *)
  report,         (* the report data in the SGX report                     *)
  quote_size,     (* required_quote_size                                   *)
  quote_buf,      (* the content of that heap block, while free as well    *)
  raw_report_data,
  allocated,      (* quote_buf, raw_report_data and the attester's key     *)
  result,         (* what the function returned, "PENDING" before          *)
  ret             (* the payload handed out                                *)

evidenceVars == <<epc, challenge, qe_target_info, report, quote_size, quote_buf,
                  raw_report_data, allocated, result, ret>>
vars         == <<keyVars, SGX_EVIDENCE, evidenceVars>>

AllChallenges == Challenges \cup {NoChallenge}
ReportData    == [key : Pairs \cup {BuiltIn}, challenge : AllChallenges]
Bundle        == [quote : ReportData \cup {Blank}, raw : ReportData]
Eat           == [cnf : Pairs \cup {BuiltIn}, kid : Pairs \cup {BuiltIn, NoPair},
                  eat_nonce : Challenges \cup {DefaultNonce}]

(* No payload, and no report data, is blank.                               *)
ASSUME BlankAssumption == Blank \notin ReportData \cup Bundle \cup Eat

-----------------------------------------------------------------------------
(* What is made of the query and the key in agent_sign.                    *)
create_dcap_report_data == [key |-> PublicBytes, challenge |-> challenge]

create_raw_dcap_report_data == [key |-> PublicBytes, challenge |-> challenge]

eat_nonce == IF challenge = NoChallenge THEN DefaultNonce ELSE challenge

(* An OCALL has failed when the bridge or the call has.  (Mutant: only the *)
(* bridge is asked.)                                                       *)
BridgeFailed(bridge, ocall) == ~bridge

OcallFailed(bridge, ocall) == ~bridge \/ ~ocall

(* Mutant: the size is not compared with the buffer.                       *)
NoSize(size) == size = 0

Unfit(size) == size = 0 \/ size > BufferLength

-----------------------------------------------------------------------------
(* The exits: what the cleanup gives back and hands out.  (Mutant: the     *)
(* blocks are given back only with a payload.)                             *)
KeptOnError(code) == IF code = "SUCCESS" THEN {} ELSE allocated

Kept(code) == {}

Exit(code, payload) ==
  /\ epc' = "done"
  /\ result' = code
  /\ ret' = payload
  /\ allocated' = Kept(code)

Fail(code) == Exit(code, Blank)

Idle == epc = "idle"

(* process_query_request asks for evidence.  The DCAP build takes a heap   *)
(* block for the quote at once.                                            *)
Begin(c) ==
  /\ Idle
  /\ g_key_state = "READY" /\ ~crashed
  /\ challenge' = c
  /\ qe_target_info' = FALSE
  /\ report' = Blank
  /\ quote_size' = 0
  /\ raw_report_data' = Blank
  /\ IF PublicBytes = NoPair
     THEN Fail("INVALID_VALUE")
     ELSE IF SGX_EVIDENCE
     THEN \/ epc' = "target" /\ allocated' = {"quote_buf"} /\ UNCHANGED <<result, ret>>
          \/ Fail("NO_MEMORY")
     ELSE epc' = "sign" /\ UNCHANGED <<allocated, result, ret>>
  /\ UNCHANGED <<keyVars, SGX_EVIDENCE, quote_buf>>

-----------------------------------------------------------------------------
(* create_evidence_dcap.                                                   *)
GetTargetInfo ==
  /\ epc = "target"
  /\ \E bridge, ocall \in BOOLEAN :
       /\ qe_target_info' = (bridge /\ ocall)
       /\ IF OcallFailed(bridge, ocall)
          THEN Fail("UNEXPECTED_ERROR")
          ELSE epc' = "report" /\ UNCHANGED <<allocated, result, ret>>
  /\ UNCHANGED <<keyVars, SGX_EVIDENCE, challenge, report, quote_size, quote_buf,
                 raw_report_data>>

CreateReport ==
  /\ epc = "report"
  /\ \/ /\ report' = create_dcap_report_data
        /\ epc' = "size"
        /\ UNCHANGED <<allocated, result, ret>>
     \/ Fail("UNEXPECTED_ERROR") /\ UNCHANGED report
  /\ UNCHANGED <<keyVars, SGX_EVIDENCE, challenge, qe_target_info, quote_size, quote_buf,
                 raw_report_data>>

GetQuoteSize ==
  /\ epc = "size"
  /\ \E bridge, ocall \in BOOLEAN, size \in QuoteSizes :
       /\ quote_size' = IF bridge /\ ocall THEN size ELSE 0
       /\ IF OcallFailed(bridge, ocall) THEN Fail("UNEXPECTED_ERROR")
          ELSE IF Unfit(quote_size') THEN Fail("NO_MEMORY")
          ELSE epc' = "quote" /\ UNCHANGED <<allocated, result, ret>>
  /\ UNCHANGED <<keyVars, SGX_EVIDENCE, challenge, qe_target_info, report, quote_buf,
                 raw_report_data>>

GetQuote ==
  /\ epc = "quote"
  /\ \E bridge, ocall \in BOOLEAN :
       /\ ocall => qe_target_info
       /\ quote_buf' = IF ~bridge THEN quote_buf ELSE IF ocall THEN report ELSE Blank
       /\ IF OcallFailed(bridge, ocall)
          THEN Fail("UNEXPECTED_ERROR")
          ELSE epc' = "raw" /\ UNCHANGED <<allocated, result, ret>>
  /\ UNCHANGED <<keyVars, SGX_EVIDENCE, challenge, qe_target_info, report, quote_size,
                 raw_report_data>>

-----------------------------------------------------------------------------
(* create_evidence_dcap_envelope: the raw report data and the bundle.      *)
MakeRawReportData ==
  /\ epc = "raw"
  /\ \/ /\ raw_report_data' = create_raw_dcap_report_data
        /\ allocated' = allocated \cup {"raw_report_data"}
        /\ epc' = "encode"
        /\ UNCHANGED <<result, ret>>
     \/ Fail("NO_MEMORY") /\ UNCHANGED raw_report_data
  /\ UNCHANGED <<keyVars, SGX_EVIDENCE, challenge, qe_target_info, report, quote_size,
                 quote_buf>>

EncodeBundle ==
  /\ epc = "encode"
  /\ IF quote_size + KeyLength + ChallengeLength[challenge] <= BufferLength
     THEN Exit("SUCCESS", [quote |-> quote_buf, raw |-> raw_report_data])
     ELSE Fail("UNEXPECTED_ERROR")
  /\ UNCHANGED <<keyVars, SGX_EVIDENCE, challenge, qe_target_info, report, quote_size,
                 quote_buf, raw_report_data>>

-----------------------------------------------------------------------------
(* create_evidence_generic: the attester's key, the claims, the signature. *)
InitSigningKey ==
  /\ epc = "sign"
  /\ \/ epc' = "claims" /\ allocated' = {"attester_key"} /\ UNCHANGED <<result, ret>>
     \/ Fail("UNEXPECTED_ERROR")
  /\ UNCHANGED <<keyVars, SGX_EVIDENCE, challenge, qe_target_info, report, quote_size,
                 quote_buf, raw_report_data>>

SignClaims ==
  /\ epc = "claims"
  /\ \/ /\ EatLength + ChallengeLength[eat_nonce] <= BufferLength
        /\ Exit("SUCCESS", [cnf |-> PublicBytes, kid |-> agent_key.kid,
                            eat_nonce |-> eat_nonce])
     \/ Fail("SIGNING_FAILED")
     \/ EatLength + ChallengeLength[eat_nonce] > BufferLength /\ Fail("UNEXPECTED_ERROR")
  /\ UNCHANGED <<keyVars, SGX_EVIDENCE, challenge, qe_target_info, report, quote_size,
                 quote_buf, raw_report_data>>

(* The caller has used the payload or made a TEMPORARY_ERROR.              *)
Return ==
  /\ epc = "done"
  /\ epc' = "idle"
  /\ challenge' = NoChallenge
  /\ qe_target_info' = FALSE
  /\ report' = Blank
  /\ quote_size' = 0
  /\ raw_report_data' = Blank
  /\ result' = "PENDING"
  /\ ret' = Blank
  /\ UNCHANGED <<keyVars, SGX_EVIDENCE, quote_buf, allocated>>

(* Between requests, a key ECALL; at any time, a new process and enclave,  *)
(* whose heap is its own.                                                  *)
KeyCall ==
  /\ Idle
  /\ KeyEcall
  /\ UNCHANGED <<SGX_EVIDENCE, evidenceVars>>

Restart ==
  /\ NewEnclave
  /\ epc' = "idle"
  /\ challenge' = NoChallenge
  /\ qe_target_info' = FALSE
  /\ report' = Blank
  /\ quote_size' = 0
  /\ quote_buf' = Blank
  /\ raw_report_data' = Blank
  /\ allocated' = {}
  /\ result' = "PENDING"
  /\ ret' = Blank
  /\ UNCHANGED SGX_EVIDENCE

-----------------------------------------------------------------------------
Init ==
  /\ KeyInit
  /\ SGX_EVIDENCE \in BOOLEAN
  /\ epc = "idle"
  /\ challenge = NoChallenge
  /\ qe_target_info = FALSE
  /\ report = Blank
  /\ quote_size = 0
  /\ quote_buf = Blank
  /\ raw_report_data = Blank
  /\ allocated = {}
  /\ result = "PENDING"
  /\ ret = Blank

Next ==
  \/ \E c \in AllChallenges : Begin(c)
  \/ GetTargetInfo
  \/ CreateReport
  \/ GetQuoteSize
  \/ GetQuote
  \/ MakeRawReportData
  \/ EncodeBundle
  \/ InitSigningKey
  \/ SignClaims
  \/ Return
  \/ KeyCall
  \/ Restart

Spec == Init /\ [][Next]_vars

-----------------------------------------------------------------------------
(* Properties.                                                             *)

(* Among the types: the size the quote is fetched with fits the block it   *)
(* is fetched into.                                                        *)
TypeOK ==
  /\ KeyTypeOK
  /\ SGX_EVIDENCE \in BOOLEAN
  /\ epc \in {"idle", "target", "report", "size", "quote", "raw", "encode", "sign",
              "claims", "done"}
  /\ challenge \in AllChallenges
  /\ qe_target_info \in BOOLEAN
  /\ report \in ReportData \cup {Blank}
  /\ quote_size \in Nat
  /\ epc \in {"quote", "raw", "encode"} => quote_size \in 1 .. BufferLength
  /\ quote_buf \in ReportData \cup {Blank}
  /\ raw_report_data \in ReportData \cup {Blank}
  /\ allocated \subseteq {"quote_buf", "raw_report_data", "attester_key"}
  /\ result \in {"PENDING", "SUCCESS", "NO_MEMORY", "UNEXPECTED_ERROR", "SIGNING_FAILED",
                "INVALID_VALUE"}
  /\ ret \in Bundle \cup Eat \cup {Blank}

(* "Bind the quote to the TEEP Agent public key and the TAM challenge"     *)
(* (Enclave_generate_evidence.cpp:384): a payload is about this request's  *)
(* challenge and about the key the response will be signed with, in the    *)
(* quote and in the raw report data alike, however earlier requests and    *)
(* key operations ended and whatever they left in the heap.                *)
EvidenceBound ==
  ret # Blank =>
    LET bound == [key |-> agent_key.cose, challenge |-> challenge]
    IN  ret = IF SGX_EVIDENCE
              THEN [quote |-> bound, raw |-> bound]
              ELSE [cnf |-> bound.key, kid |-> bound.key, eat_nonce |-> eat_nonce]

(* Every exit gives back the two heap blocks and the attester's key, and   *)
(* hands out a payload if and only if it reports success.                  *)
EvidenceGivesBack ==
  epc \in {"idle", "done"} =>
    /\ allocated = {}
    /\ ret # Blank <=> result = "SUCCESS"
=============================================================================
