-------------------------- MODULE CommandLineProofs -------------------------
(***************************************************************************)
(* Theorems about the attester program, CommandLine with its WebFrontend,  *)
(* for any number of requests on either path of the web server.            *)
(*                                                                         *)
(* One is in the enclave at a time because whoever is on its way through   *)
(* it holds mu, but for the worker while it starts: the invariant Holder.  *)
(* There is one enclave because the goroutine that creates it is the only  *)
(* one past the test of g_initialized, or overlap says otherwise: the      *)
(* invariant Creator.                                                      *)
(***************************************************************************)
EXTENDS CommandLine, TLAPS

TeepStates   == {"idle", "lock", "level", "init", "create", "keygen", "session", "answered"}
DetectStates == {"idle", "send", "wait", "answered"}
WorkerStates == {"off", "level", "init", "create", "keygen", "ready", "failed", "lock",
                 "invoke"}

(* A /teep handler has mu from the lock to its answer.                     *)
Holds == {"level", "init", "create", "keygen", "session"}

Holder ==
  /\ DOMAIN st = Requests \cup {worker}
  /\ st = [t \in Requests \cup {worker} |-> st[t]]
  /\ \A t \in Teeps : st[t] \in TeepStates
  /\ \A d \in Detects : st[d] \in DetectStates
  /\ st[worker] \in WorkerStates
  /\ \A t \in Teeps : st[t] \in Holds <=> mu = t
  /\ st[worker] = "invoke" <=> mu = worker
  /\ st[worker] \in {"lock", "invoke"} => req \in Detects

(* InitDone, the common end of an initialisation.                          *)
LEMMA InitDoneKeeps ==
  ASSUME Holder, NEW t \in Threads, NEW ok \in BOOLEAN, InitDone(t, ok),
         st[t] \in {"level", "init", "create", "keygen"}, req' = req
  PROVE  Holder'
<1> USE WebAssumption DEF Requests, Threads, Holds, TeepStates, DetectStates, WorkerStates
<1>1. CASE t = worker
  <2>1. st' = [st EXCEPT ![t] = IF ok THEN "ready" ELSE "failed"] /\ mu' = mu
    BY <1>1 DEF InitDone, Goto
  <2> QED
    BY <1>1, <2>1 DEF Holder
<1>2. CASE t # worker /\ ok = TRUE
  <2>1. st' = [st EXCEPT ![t] = "session"] /\ mu' = mu
    BY <1>2 DEF InitDone, Goto
  <2> QED
    BY <1>2, <2>1 DEF Holder
<1>3. CASE t # worker /\ ok = FALSE
  <2>1. st' = [st EXCEPT ![t] = "answered"] /\ mu' = IF mu = t THEN None ELSE mu
    BY <1>3 DEF InitDone, Answer, Released, Goto
  <2> QED
    BY <1>3, <2>1 DEF Holder
<1> QED
  BY <1>1, <1>2, <1>3

LEMMA HolderStarts == Init => Holder
BY WebAssumption DEF Init, Holder, Requests, Holds, TeepStates, DetectStates, WorkerStates

LEMMA InitialiseKeepsHolder ==
  ASSUME Holder, NEW t \in Threads, Initialise(t)
  PROVE  Holder'
<1> USE WebAssumption DEF Requests, Threads
<1>1. CASE \E ok \in BOOLEAN : InitDone(t, ok) /\ st[t] \in {"level", "init", "create", "keygen"}
                                /\ req' = req
  BY <1>1, InitDoneKeeps
<1>2. CASE \E p \in {"init", "create", "keygen"} :
             st[t] \in {"level", "init", "create"} /\ Goto(t, p)
             /\ UNCHANGED <<mu, req>>
  BY <1>2 DEF Goto, Holder, Holds, TeepStates, DetectStates, WorkerStates
<1>3. SetLogLevel(t) => <1>1!1 \/ <1>2!1
  BY DEF SetLogLevel
<1>4. CheckInitialized(t) => <1>1!1 \/ <1>2!1
  BY DEF CheckInitialized
<1>5. CreateEnclave(t) => <1>2!1
  BY DEF CreateEnclave
<1>6. CreateFails(t) => <1>1!1
  BY DEF CreateFails
<1>7. MakeKey(t) => <1>1!1
  BY DEF MakeKey
<1> QED
  BY <1>1, <1>2, <1>3, <1>4, <1>5, <1>6, <1>7 DEF Initialise

LEMMA TeepKeepsHolder ==
  ASSUME Holder, NEW t \in Teeps,
         PostTeep(t) \/ LockForTeep(t) \/ RunInstallSession(t)
  PROVE  Holder'
<1> USE WebAssumption DEF Requests, Threads, Holds, TeepStates, DetectStates, WorkerStates,
                          Holder, Goto
<1>1. CASE PostTeep(t)
  BY <1>1 DEF PostTeep
<1>2. CASE LockForTeep(t)
  BY <1>2 DEF LockForTeep
<1>3. CASE RunInstallSession(t)
  BY <1>3 DEF RunInstallSession, Answer, Released
<1> QED
  BY <1>1, <1>2, <1>3

LEMMA DetectKeepsHolder ==
  ASSUME Holder, NEW d \in Detects,
         PostDetect(d) \/ Receive(d) \/ ReceiveFailed(d)
  PROVE  Holder'
<1> USE WebAssumption DEF Requests, Threads, Holds, TeepStates, DetectStates, WorkerStates,
                          Holder, Goto
<1>1. CASE PostDetect(d)
  <2>1. mu' = mu /\ req' = req
    BY <1>1 DEF PostDetect
  <2>2. PICK x \in {"send", "answered"} :
           st' = [st EXCEPT ![d] = x, ![worker] = IF @ = "off" THEN "level" ELSE @]
    BY <1>1 DEF PostDetect
  <2>3. d # worker /\ d \notin Teeps
    OBVIOUS
  <2>4. st'[d] = x /\ st'[worker] = IF st[worker] = "off" THEN "level" ELSE st[worker]
    BY <2>2, <2>3
  <2>5. \A t \in Requests \ {d} : st'[t] = st[t]
    BY <2>2
  <2>6. DOMAIN st' = Requests \cup {worker} /\ st' = [t \in Requests \cup {worker} |-> st'[t]]
    BY <2>2
  <2> QED
    BY <2>1, <2>3, <2>4, <2>5, <2>6
<1>2. CASE Receive(d)
  BY <1>2 DEF Receive
<1>3. CASE ReceiveFailed(d)
  BY <1>3 DEF ReceiveFailed, Answer, Released
<1> QED
  BY <1>1, <1>2, <1>3

LEMMA WorkerKeepsHolder ==
  ASSUME Holder, LockForInvoke \/ InvokeWasm
  PROVE  Holder'
<1> USE WebAssumption DEF Requests, Threads, Holds, TeepStates, DetectStates, WorkerStates,
                          Holder, Goto
<1>1. CASE LockForInvoke
  BY <1>1 DEF LockForInvoke, MuFree
<1>2. CASE InvokeWasm
  <2>1. mu' = None /\ st[worker] = "invoke" /\ req \in Detects /\ mu = worker
    BY <1>2 DEF InvokeWasm
  <2>2. st' = [st EXCEPT ![worker] = "ready", ![req] = "answered"]
    BY <1>2 DEF InvokeWasm
  <2>3. req # worker /\ req \notin Teeps
    BY <2>1
  <2>4. st'[req] = "answered" /\ st'[worker] = "ready"
    BY <2>1, <2>2, <2>3
  <2>5. \A t \in Requests \ {req} : st'[t] = st[t]
    BY <2>2
  <2>6. DOMAIN st' = Requests \cup {worker} /\ st' = [t \in Requests \cup {worker} |-> st'[t]]
    BY <2>2
  <2> QED
    BY <2>1, <2>3, <2>4, <2>5, <2>6
<1> QED
  BY <1>1, <1>2

LEMMA AnsweredKeepsHolder ==
  ASSUME Holder, NEW r \in Requests, Answered(r)
  PROVE  Holder'
BY WebAssumption DEF Answered, Requests, Holds, TeepStates, DetectStates, WorkerStates,
                     Holder, Goto

LEMMA HolderKept ==
  ASSUME Holder, [ProgramNext]_programVars
  PROVE  Holder'
<1>1. CASE Next
  BY <1>1, InitialiseKeepsHolder, TeepKeepsHolder, DetectKeepsHolder, WorkerKeepsHolder,
     AnsweredKeepsHolder DEF Next
<1>2. CASE UNCHANGED <<st, mu, req>>
  BY <1>2 DEF Holder
<1>3. InitializeEnclave \/ Install \/ Detector \/ Close \/ Launch => UNCHANGED <<st, mu, req>>
  BY DEF InitializeEnclave, Install, Detector, Close, Launch, programVars, vars, goroutineVars
<1> QED
  BY <1>1, <1>2, <1>3 DEF ProgramNext, programVars, vars

(* Whichever goroutines run, only one of them at a time is on its way      *)
(* through the enclave's single thread control structure, but for the      *)
(* start of the worker (web.go:62-75).                                     *)
THEOREM OneStaysInEnclave == ProgramSpec => []OneInEnclave
<1>1. ProgramInit => Holder
  BY HolderStarts DEF ProgramInit
<1>2. Holder /\ [ProgramNext]_programVars => Holder'
  BY HolderKept
<1>3. Holder => OneInEnclave
  BY WebAssumption DEF Holder, OneInEnclave, InEnclave, Threads, Holds, TeepStates, WorkerStates
<1> QED
  BY <1>1, <1>2, <1>3, PTL DEF ProgramSpec

-----------------------------------------------------------------------------
(* One enclave.                                                            *)

NoneCreates == \A t \in Threads : st[t] # "create"

(* As long as no two initialisations met: an enclave is there exactly when *)
(* g_initialized says so, and one goroutine at most is about to create one.*)
Single ==
  /\ \A t, u \in Threads : st[t] = "create" /\ st[u] = "create" => t = u
  /\ g_initialized => NoneCreates /\ created = 1
  /\ ~g_initialized => created = 0 /\ installed = {}
  /\ g_key_ready => g_initialized
  /\ \A t \in Threads : st[t] = "keygen" => g_initialized
  /\ installed \subseteq {global_eid}

Creator ==
  /\ cli = "off" => overlap \/ Single
  /\ cli # "off" => NoneCreates /\ created <= 1 /\ installed \subseteq {global_eid}
  /\ cli # "off" => \A t \in Threads : st[t] # "keygen"
  /\ cli = "start" => created = 0 /\ installed = {}
  /\ created \in Nat

LEMMA CreatorStarts == ProgramInit => Creator
BY WebAssumption DEF ProgramInit, Init, Creator, Single, NoneCreates, Threads, Requests

(* A step of a goroutine that is neither creating nor making a key, and    *)
(* leaves the attester alone.                                              *)
LEMMA AloneKeepsSingle ==
  ASSUME Single,
         UNCHANGED <<g_initialized, g_key_ready, global_eid, created>>,
         installed' = installed
           \/ (g_key_ready /\ installed' = installed \cup {global_eid}),
         \A t \in Threads : st'[t] \in {"create", "keygen"} => st'[t] = st[t]
  PROVE  Single'
<1>1. g_initialized' <=> g_initialized
  OBVIOUS
<1>2. NoneCreates => NoneCreates'
  BY DEF NoneCreates
<1>3. ~g_initialized => installed' = {}
  BY DEF Single
<1>4. installed' \subseteq {global_eid'}
  BY DEF Single
<1> QED
  BY <1>1, <1>2, <1>3, <1>4 DEF Single

LEMMA InitDoneMoves ==
  ASSUME Holder, NEW t \in Threads, NEW ok \in BOOLEAN, InitDone(t, ok)
  PROVE  \A u \in Threads : st'[u] \in {"create", "keygen"} => st'[u] = st[u]
<1> USE WebAssumption DEF Requests, Threads
<1>1. \E p \in {"ready", "failed", "session", "answered"} : st' = [st EXCEPT ![t] = p]
  BY DEF InitDone, Goto, Answer
<1> QED
  BY <1>1 DEF Holder

(* The test of g_initialized: who finds another one past it says so.       *)
LEMMA CheckKeepsSingle ==
  ASSUME Holder, Single, NEW t \in Threads, CheckInitialized(t)
  PROVE  overlap' \/ Single'
<1> USE WebAssumption DEF Requests, Threads
<1>1. CASE g_initialized
  <2>1. InitDone(t, TRUE)
    BY <1>1 DEF CheckInitialized, Initialized
  <2> QED
    BY <2>1, InitDoneMoves, AloneKeepsSingle DEF CheckInitialized
<1>2. CASE ~g_initialized /\ overlap' # TRUE
  <2>1. \A u \in Threads \ {t} : st[u] # "create"
    BY <1>2 DEF CheckInitialized
  <2>2. st' = [st EXCEPT ![t] = "create"]
    BY <1>2 DEF CheckInitialized, Initialized, Goto
  <2>3. \A u \in Threads \ {t} : st'[u] = st[u] /\ st'[u] # "create"
    BY <2>1, <2>2 DEF Holder
  <2>4. st'[t] = "create"
    BY <2>2 DEF Holder
  <2>5. UNCHANGED <<g_initialized, g_key_ready, global_eid, created, installed>>
    BY DEF CheckInitialized
  <2> QED
    BY <1>2, <2>3, <2>4, <2>5 DEF Single
<1> QED
  BY <1>1, <1>2

LEMMA CreateKeepsSingle ==
  ASSUME Holder, Single, NEW t \in Threads, CreateEnclave(t)
  PROVE  Single'
<1> USE WebAssumption DEF Requests, Threads
<1>1. st[t] = "create" /\ ~g_initialized
  BY DEF CreateEnclave, Single, NoneCreates
<1>2. created' = 1 /\ installed' = {} /\ g_initialized'
  BY <1>1 DEF CreateEnclave, Single
<1>3. st' = [st EXCEPT ![t] = "keygen"]
  BY DEF CreateEnclave, Goto
<1>4. \A u \in Threads : st'[u] # "create"
  BY <1>1, <1>3 DEF Single, Holder
<1> QED
  BY <1>2, <1>4 DEF Single, NoneCreates

LEMMA MakeKeyKeepsSingle ==
  ASSUME Holder, Single, NEW t \in Threads, MakeKey(t)
  PROVE  Single'
<1> USE WebAssumption DEF Requests, Threads
<1>1. g_initialized
  BY DEF MakeKey, Single
<1>2. PICK ok \in BOOLEAN : InitDone(t, ok)
  BY DEF MakeKey
<1>3. \A u \in Threads : st'[u] \in {"create", "keygen"} => st'[u] = st[u]
  BY <1>2, InitDoneMoves
<1>4. UNCHANGED <<g_initialized, global_eid, created, installed>>
  BY DEF MakeKey
<1> QED
  BY <1>1, <1>3, <1>4 DEF Single, NoneCreates
(* SetLogLevel and the failure to create an enclave.                       *)
LEMMA LevelKeepsSingle ==
  ASSUME Holder, Single, NEW t \in Threads, SetLogLevel(t) \/ CreateFails(t)
  PROVE  Single'
<1> USE WebAssumption DEF Requests, Threads
<1>1. UNCHANGED <<g_initialized, g_key_ready, global_eid, created, installed>>
  BY DEF SetLogLevel, CreateFails, attesterVars
<1>2. CASE InitDone(t, FALSE)
  BY <1>1, <1>2, InitDoneMoves, AloneKeepsSingle
<1>3. CASE Goto(t, "init")
  <2>1. \A u \in Threads : st'[u] \in {"create", "keygen"} => st'[u] = st[u]
    BY <1>3 DEF Goto, Holder
  <2> QED
    BY <1>1, <2>1, AloneKeepsSingle
<1> QED
  BY <1>2, <1>3 DEF SetLogLevel, CreateFails

LEMMA InitialiseKeepsSingle ==
  ASSUME Holder, Single, NEW t \in Threads, Initialise(t)
  PROVE  overlap' \/ Single'
BY LevelKeepsSingle, CheckKeepsSingle, CreateKeepsSingle, MakeKeyKeepsSingle DEF Initialise

LEMMA TeepKeepsSingle ==
  ASSUME Holder, Single, NEW t \in Teeps,
         PostTeep(t) \/ LockForTeep(t) \/ RunInstallSession(t)
  PROVE  Single'
<1> USE WebAssumption DEF Requests, Threads
<1>1. \E p \in {"lock", "level", "answered"} : st' = [st EXCEPT ![t] = p]
  BY DEF PostTeep, LockForTeep, RunInstallSession, Answer, Goto
<1>2. \A u \in Threads : st'[u] \in {"create", "keygen"} => st'[u] = st[u]
  BY <1>1 DEF Holder
<1>3. UNCHANGED <<g_initialized, g_key_ready, global_eid, created>>
  BY DEF PostTeep, LockForTeep, RunInstallSession, attesterVars
<1>4. installed' = installed \/ (g_key_ready /\ installed' = installed \cup {global_eid})
  BY DEF PostTeep, LockForTeep, RunInstallSession
<1> QED
  BY <1>2, <1>3, <1>4, AloneKeepsSingle

LEMMA OthersKeepSingle ==
  ASSUME Holder, Single,
         \/ \E d \in Detects : PostDetect(d) \/ Receive(d) \/ ReceiveFailed(d)
         \/ LockForInvoke
         \/ InvokeWasm
         \/ \E r \in Requests : Answered(r)
  PROVE  Single'
<1> USE WebAssumption DEF Requests, Threads
<1>1. UNCHANGED <<g_initialized, g_key_ready, global_eid, created, installed>>
  BY DEF PostDetect, Receive, ReceiveFailed, LockForInvoke, InvokeWasm, Answered, attesterVars
<1> DEFINE Others == \A u \in Threads : st'[u] \in {"create", "keygen"} => st'[u] = st[u]
<1>2. ASSUME NEW d \in Detects, PostDetect(d) PROVE Others
  BY <1>2 DEF PostDetect, Holder
<1>3. ASSUME NEW d \in Detects, Receive(d) \/ ReceiveFailed(d) PROVE Others
  BY <1>3 DEF Receive, ReceiveFailed, Answer, Goto, Holder
<1>4. ASSUME LockForInvoke PROVE Others
  BY <1>4 DEF LockForInvoke, Goto, Holder
<1>5. ASSUME InvokeWasm PROVE Others
  BY <1>5 DEF InvokeWasm, Holder
<1>6. ASSUME NEW r \in Requests, Answered(r) PROVE Others
  BY <1>6 DEF Answered, Goto, Holder
<1>7. Others
  BY <1>2, <1>3, <1>4, <1>5, <1>6
<1> QED
  BY <1>1, <1>7, AloneKeepsSingle

LEMMA NextKeepsSingle ==
  ASSUME Holder, overlap \/ Single, Next
  PROVE  overlap' \/ Single'
<1>1. CASE overlap
  BY <1>1 DEF Next, Initialise, SetLogLevel, CheckInitialized, CreateEnclave, CreateFails,
     MakeKey, PostTeep, LockForTeep, RunInstallSession, PostDetect, Receive, ReceiveFailed,
     LockForInvoke, InvokeWasm, Answered, attesterVars
<1>2. CASE Single
  BY <1>2, InitialiseKeepsSingle, TeepKeepsSingle, OthersKeepSingle DEF Next
<1> QED
  BY <1>1, <1>2

LEMMA CreatedCounts ==
  ASSUME created \in Nat, Next
  PROVE  created' \in Nat
<1>1. ASSUME NEW t \in Threads, Initialise(t) PROVE created' = created \/ created' = created + 1
  BY <1>1 DEF Initialise, SetLogLevel, CheckInitialized, CreateEnclave, CreateFails, MakeKey,
     attesterVars
<1>2. ASSUME NEW t \in Teeps, PostTeep(t) \/ LockForTeep(t) \/ RunInstallSession(t)
      PROVE  created' = created
  BY <1>2 DEF PostTeep, LockForTeep, RunInstallSession, attesterVars
<1>3. ASSUME NEW d \in Detects, PostDetect(d) \/ Receive(d) \/ ReceiveFailed(d)
      PROVE  created' = created
  BY <1>3 DEF PostDetect, Receive, ReceiveFailed, attesterVars
<1>4. ASSUME LockForInvoke \/ InvokeWasm \/ \E r \in Requests : Answered(r)
      PROVE  created' = created
  BY <1>4 DEF LockForInvoke, InvokeWasm, Answered, attesterVars
<1>5. created' = created \/ created' = created + 1
  BY <1>1, <1>2, <1>3, <1>4 DEF Next
<1> QED
  BY <1>5

LEMMA CreatorKept ==
  ASSUME Holder, Creator, [ProgramNext]_programVars
  PROVE  Creator'
<1>1. CASE cli = "off" /\ Next /\ UNCHANGED cli
  BY <1>1, NextKeepsSingle, CreatedCounts DEF Creator
<1>2. CASE InitializeEnclave
  BY <1>2 DEF InitializeEnclave, goroutineVars, Creator, NoneCreates
<1>3. CASE Install \/ Close
  BY <1>3 DEF Install, Close, goroutineVars, Creator, NoneCreates
<1>4. CASE Launch
  BY <1>4 DEF Launch, goroutineVars, Creator, NoneCreates, Single
<1>5. CASE UNCHANGED programVars
  BY <1>5 DEF programVars, vars, attesterVars, Creator, NoneCreates, Single
<1> QED
  BY <1>1, <1>2, <1>3, <1>4, <1>5 DEF ProgramNext, Detector

(* All goroutines, and the command line, share one enclave, the only one   *)
(* created in a run of the program, and the application is installed in    *)
(* no other, unless two initialisations met (attester_api.cpp:71-83).      *)
THEOREM OneEnclaveOnly == ProgramSpec => []OneEnclave
<1>1. ProgramInit => Holder /\ Creator
  BY HolderStarts, CreatorStarts DEF ProgramInit
<1>2. Holder /\ Creator /\ [ProgramNext]_programVars => Holder' /\ Creator'
  BY HolderKept, CreatorKept
<1>3. Creator => OneEnclave
  <2>1. Single => created <= 1 /\ installed \subseteq {global_eid}
    BY DEF Single
  <2> QED
    BY <2>1 DEF Creator, OneEnclave
<1> QED
  BY <1>1, <1>2, <1>3, PTL DEF ProgramSpec
=============================================================================
