----------------------------- MODULE WebFrontend ----------------------------
(***************************************************************************)
(* The web front end and the enclave it shares: the handlers and the       *)
(* worker of web.go, which reach the C functions of attester_api.cpp from  *)
(* goroutines of their own.                                                *)
(*                                                                         *)
(* POST /teep locks mu, initialises the enclave if it is not, and runs a   *)
(* session.  POST /detect starts the worker once, hands it the image over  *)
(* an unbuffered channel and waits.  The worker initialises the enclave    *)
(* too, without mu, and then locks mu for each invocation; if it cannot,   *)
(* it answers every request with that error for ever.                      *)
(*                                                                         *)
(* Before that both set the log level, which is an ECALL once there is an  *)
(* enclave, and the worker makes it without mu: the enclave has a single   *)
(* thread control structure, so it fails while a session is under way.     *)
(*                                                                         *)
(* sgx_initialized tests g_initialized and sets it later, in steps other   *)
(* goroutines may come between.  doc/external-design-web-ui-api.md leaves  *)
(* concurrent requests out of scope; overlap records that one came between *)
(* the two.  A session (TeepSession) and an invocation (WasmRuntime) are   *)
(* one step here, with either outcome.                                     *)
(***************************************************************************)
EXTENDS Naturals, FiniteSets

CONSTANTS
  Teeps,     (* requests to /teep that may be under way                    *)
  Detects,   (* requests to /detect                                        *)
  worker,    (* the goroutine runWorker                                    *)
  None

Requests == Teeps \cup Detects
Threads  == Teeps \cup {worker}

ASSUME WebAssumption ==
  /\ Teeps \cap Detects = {}
  /\ worker \notin Requests
  /\ None \notin Requests \cup {worker}

VARIABLES
  st,             (* where each goroutine is                               *)
  g_initialized, g_key_ready,
  global_eid,     (* the last enclave created, 0 before any                *)
  created,        (* how many enclaves were created                        *)
  installed,      (* the enclaves the application is installed in          *)
  mu,             (* who holds it                                          *)
  req,            (* the request the worker serves                         *)
  status,         (* the HTTP status each request was answered with        *)
  overlap         (* auxiliary: two initialisations met                    *)

attesterVars == <<g_initialized, g_key_ready, global_eid, created, overlap>>
vars == <<st, attesterVars, installed, mu, req, status>>

Goto(t, p) == st' = [st EXCEPT ![t] = p]

(* A handler returns; a /teep handler gives mu up then (defer).  (Mutant:  *)
(* it forgets when the session failed.)                                    *)
Forgotten(t, code) == IF mu = t /\ code = 200 THEN None ELSE mu

Released(t, code) == IF mu = t THEN None ELSE mu

Answer(t, code) ==
  /\ Goto(t, "answered")
  /\ status' = [status EXCEPT ![t] = code]
  /\ mu' = Released(t, code)

-----------------------------------------------------------------------------
(* attester_set_log_level and sgx_initialized, called by thread t.         *)

InitDone(t, ok) ==
  IF t = worker
  THEN Goto(t, IF ok THEN "ready" ELSE "failed") /\ UNCHANGED <<status, mu>>
  ELSE IF ok THEN Goto(t, "session") /\ UNCHANGED <<status, mu>>
  ELSE Answer(t, 500)

(* (Mutant: an enclave without a key does not count.)                      *)
InitializedWithKey == g_initialized /\ g_key_ready

Initialized == g_initialized

(* attester_set_log_level, the first thing a /teep request and the worker  *)
(* do.                                                                     *)
SetLogLevel(t) ==
  /\ st[t] = "level"
  /\ \/ Goto(t, "init") /\ UNCHANGED <<status, mu>>
     \/ g_initialized /\ InitDone(t, FALSE)
  /\ UNCHANGED <<attesterVars, installed, req>>

CheckInitialized(t) ==
  /\ st[t] = "init"
  /\ overlap' = (overlap \/ \E u \in Threads \ {t} : st[u] = "create")
  /\ IF Initialized
     THEN InitDone(t, TRUE)
     ELSE Goto(t, "create") /\ UNCHANGED <<status, mu>>
  /\ UNCHANGED <<g_initialized, g_key_ready, global_eid, created, installed, req>>

CreateEnclave(t) ==
  /\ st[t] = "create"
  /\ created' = created + 1
  /\ global_eid' = created + 1
  /\ g_initialized' = TRUE
  /\ Goto(t, "keygen")
  /\ UNCHANGED <<g_key_ready, overlap, installed, mu, req, status>>

CreateFails(t) ==
  /\ st[t] = "create"
  /\ InitDone(t, FALSE)
  /\ UNCHANGED <<attesterVars, installed, req>>

(* g_initialized stays set when the key cannot be made.                    *)
MakeKey(t) ==
  /\ st[t] = "keygen"
  /\ \/ g_key_ready' = TRUE /\ InitDone(t, TRUE)
     \/ ~g_key_ready /\ UNCHANGED g_key_ready /\ InitDone(t, FALSE)
  /\ UNCHANGED <<g_initialized, global_eid, created, overlap, installed, req>>

-----------------------------------------------------------------------------
(* POST /teep.                                                             *)

PostTeep(t) ==
  /\ st[t] = "idle"
  /\ Goto(t, "lock")
  /\ UNCHANGED <<attesterVars, installed, mu, req, status>>

LockForTeep(t) ==
  /\ st[t] = "lock"
  /\ mu = None
  /\ mu' = t
  /\ Goto(t, "level")
  /\ UNCHANGED <<attesterVars, installed, req, status>>

RunInstallSession(t) ==
  /\ st[t] = "session"
  /\ \/ g_key_ready /\ installed' = installed \cup {global_eid} /\ Answer(t, 200)
     \/ UNCHANGED installed /\ Answer(t, 500)
  /\ UNCHANGED <<attesterVars, req>>

-----------------------------------------------------------------------------
(* POST /detect.                                                           *)

(* The worker is started before the body is looked at; a request without a *)
(* usable image goes no further.                                           *)
PostDetect(d) ==
  /\ st[d] = "idle"
  /\ \E usable \in BOOLEAN :
       /\ st' = [st EXCEPT ![d] = IF usable THEN "send" ELSE "answered",
                           ![worker] = IF @ = "off" THEN "level" ELSE @]
       /\ status' = IF usable THEN status ELSE [status EXCEPT ![d] = 400]
  /\ UNCHANGED <<attesterVars, installed, mu, req>>

(* reqCh has no buffer: both sides step at once.                           *)
Receive(d) ==
  /\ st[d] = "send"
  /\ st[worker] = "ready"
  /\ st' = [st EXCEPT ![d] = "wait", ![worker] = "lock"]
  /\ req' = d
  /\ UNCHANGED <<attesterVars, installed, mu, status>>

ReceiveFailed(d) ==
  /\ st[d] = "send"
  /\ st[worker] = "failed"
  /\ Answer(d, 500)
  /\ UNCHANGED <<attesterVars, installed, req>>

(* (Mutant: no lock.)                                                      *)
AnyTime == TRUE

MuFree == mu = None

LockForInvoke ==
  /\ st[worker] = "lock"
  /\ MuFree
  /\ mu' = worker
  /\ Goto(worker, "invoke")
  /\ UNCHANGED <<attesterVars, installed, req, status>>

InvokeWasm ==
  /\ st[worker] = "invoke"
  /\ mu' = None
  /\ \E code \in {200, 500} :
       /\ code = 200 => global_eid \in installed
       /\ status' = [status EXCEPT ![req] = code]
  /\ st' = [st EXCEPT ![worker] = "ready", ![req] = "answered"]
  /\ req' = None
  /\ UNCHANGED <<attesterVars, installed>>

-----------------------------------------------------------------------------
(* The client has the response; another request may come.                  *)
Answered(r) ==
  /\ st[r] = "answered"
  /\ Goto(r, "idle")
  /\ status' = [status EXCEPT ![r] = 0]
  /\ UNCHANGED <<attesterVars, installed, mu, req>>

Init ==
  /\ st = [t \in Requests \cup {worker} |-> IF t = worker THEN "off" ELSE "idle"]
  /\ g_initialized = FALSE
  /\ g_key_ready = FALSE
  /\ global_eid = 0
  /\ created = 0
  /\ installed = {}
  /\ mu = None
  /\ req = None
  /\ status = [r \in Requests |-> 0]
  /\ overlap = FALSE

Initialise(t) ==
  SetLogLevel(t) \/ CheckInitialized(t) \/ CreateEnclave(t) \/ CreateFails(t) \/ MakeKey(t)

Next ==
  \/ \E t \in Threads : Initialise(t)
  \/ \E t \in Teeps : PostTeep(t) \/ LockForTeep(t) \/ RunInstallSession(t)
  \/ \E d \in Detects : PostDetect(d) \/ Receive(d) \/ ReceiveFailed(d)
  \/ LockForInvoke
  \/ InvokeWasm
  \/ \E r \in Requests : Answered(r)

(* Every goroutine runs on, sessions and invocations end (which is up to   *)
(* the TAM and to the application), and neither sync.Mutex nor the queue   *)
(* of a channel's senders passes a waiting goroutine over for ever.        *)
Fairness ==
  /\ \A t \in Threads : WF_vars(Initialise(t))
  /\ \A t \in Teeps : SF_vars(LockForTeep(t)) /\ WF_vars(RunInstallSession(t))
  /\ \A d \in Detects : SF_vars(Receive(d)) /\ WF_vars(ReceiveFailed(d))
  /\ SF_vars(LockForInvoke) /\ WF_vars(InvokeWasm)

Spec == Init /\ [][Next]_vars /\ Fairness

-----------------------------------------------------------------------------
(* Properties.                                                             *)

(* The enclave has one thread control structure: of the handlers and the   *)
(* worker only one at a time is on its way through it, be it to initialise *)
(* it, for a session or for an invocation.  The one exception is the       *)
(* worker's own start, which does not take mu.                             *)
InEnclave(t) == st[t] \in {"level", "create", "keygen", "session", "invoke"}

OneInEnclave ==
  \A t, u \in Threads :
    InEnclave(t) /\ InEnclave(u) /\ t # u => st[worker] \in {"level", "create", "keygen"}

(* "Global EID shared by multiple threads" (sgx_teep_session.cpp): all     *)
(* threads use one enclave, the only one ever created, however often an    *)
(* initialisation failed half-way, unless two of them met between the test *)
(* and the setting of g_initialized.  A second enclave would leave the     *)
(* installed application behind in the first.                              *)
OneEnclave == overlap \/ (created <= 1 /\ installed \subseteq {global_eid})

(* Every request gets its answer, whatever fails: no handler is left       *)
(* waiting for the lock, for the worker or for its reply.                  *)
RequestsAnswered ==
  /\ \A t \in Teeps : st[t] = "lock" ~> st[t] = "answered"
  /\ \A d \in Detects : st[d] = "send" ~> st[d] = "answered"
=============================================================================
