---------------------------- MODULE MCWebFrontend ---------------------------
(***************************************************************************)
(* CommandLine with its WebFrontend for TLC: two clients on each of the    *)
(* web server's two paths, or a user at the prompt.                        *)
(***************************************************************************)
EXTENDS CommandLine

CONSTANTS t1, t2, c1, c2

MCTeeps   == {t1, t2}
MCDetects == {c1, c2}
=============================================================================
