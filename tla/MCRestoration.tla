--------------------------- MODULE MCRestoration ---------------------------
(* Two processes and two commands: enough for a restore beside a handler,   *)
(* a deletion or a deploy that lists the backups of an earlier deploy.      *)
EXTENDS Restoration, TLC
Alike == Permutations(Processes)
=============================================================================
