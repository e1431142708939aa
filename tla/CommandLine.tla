----------------------------- MODULE CommandLine ----------------------------
(***************************************************************************)
(* The attester program (main.go): it runs either the web server, which is *)
(* WebFrontend, or the command line, one goroutine that makes the same     *)
(* calls of attester_api.cpp through attester_c_bridge.go one after the    *)
(* other.                                                                  *)
(*                                                                         *)
(* The command line initialises the enclave once and ends the program if   *)
(* it cannot; os.Exit then skips attester_close.  Otherwise it obeys       *)
(* commands: an install is a session (TeepSession), a detector command an  *)
(* invocation (WasmRuntime), each one step with either outcome, and after  *)
(* a failure the next command is read.  The program may be started again.  *)
(***************************************************************************)
EXTENDS WebFrontend

VARIABLE cli  (* where runCLI is, "off" in a web server                    *)

programVars == <<vars, cli>>

goroutineVars == <<st, mu, req, status, overlap>>

-----------------------------------------------------------------------------
(* SetLogLevel before there is an enclave only notes the level, and then   *)
(* InitializeEnclave.  fatal ends the program.                             *)
InitializeEnclave ==
  /\ cli = "start"
  /\ \/ /\ g_initialized' = TRUE
        /\ created' = created + 1
        /\ global_eid' = created'
        /\ g_key_ready' \in BOOLEAN
        /\ cli' = IF g_key_ready' THEN "prompt" ELSE "ended"
     \/ cli' = "ended" /\ UNCHANGED <<g_initialized, g_key_ready, global_eid, created>>
  /\ UNCHANGED <<goroutineVars, installed>>

(* attester_install finds the enclave initialised and runs a session.      *)
Install ==
  /\ cli = "prompt"
  /\ g_initialized
  /\ \/ g_key_ready /\ installed' = installed \cup {global_eid}
     \/ UNCHANGED installed
  /\ UNCHANGED <<goroutineVars, g_initialized, g_key_ready, global_eid, created, cli>>

(* A detector command, of which nothing stays but the file it writes; so   *)
(* with help, an unknown command, and one that cannot be parsed.           *)
Detector ==
  /\ cli = "prompt"
  /\ UNCHANGED programVars

(* exit, quit or the end of the input: the deferred Close.                 *)
Close ==
  /\ cli = "prompt"
  /\ cli' = "ended"
  /\ installed' = IF g_initialized THEN installed \ {global_eid} ELSE installed
  /\ g_initialized' = FALSE
  /\ g_key_ready' = FALSE
  /\ UNCHANGED <<goroutineVars, global_eid, created>>

ProgramInit == Init /\ cli \in {"off", "start"}

(* The program is started again, as either; there are no goroutines yet.   *)
Launch ==
  /\ cli = "ended"
  /\ cli' \in {"off", "start"}
  /\ g_initialized' = FALSE
  /\ g_key_ready' = FALSE
  /\ global_eid' = 0
  /\ created' = 0
  /\ installed' = {}
  /\ UNCHANGED goroutineVars

ProgramNext ==
  \/ cli = "off" /\ Next /\ UNCHANGED cli
  \/ InitializeEnclave
  \/ Install
  \/ Detector
  \/ Close
  \/ Launch

(* Nothing makes a user type a command.                                    *)
ProgramSpec == ProgramInit /\ [][ProgramNext]_programVars /\ Fairness
=============================================================================
