---------------------------- MODULE MCReleaseJob ----------------------------
(* Model values for ReleaseJob: one production and one staging target. *)
EXTENDS ReleaseJob, TLC

CONSTANTS e1, e2, none, noreq, mixed

MCExecs == {e1, e2}
MCKeys == {"k1", "k2", "k3"}
MCTargets == {"prod", "stage"}
MCPolicy == [t \in MCTargets |->
                IF t = "prod" THEN "production" ELSE "staging"]

Production(k, j, base, release) ==
    [key |-> k, job |-> j, release |-> release, target |-> "prod",
     env |-> "production", expected |-> base, backup |-> TRUE,
     migration |-> "preflight-and-apply", compat |-> "online-expand-contract",
     recovery |-> "runtime-only"]
Staging(k, j, backup) ==
    [key |-> k, job |-> j, release |-> "R1", target |-> "stage",
     env |-> "staging", expected |-> none, backup |-> backup,
     migration |-> "none", compat |-> "not-applicable", recovery |-> "manual"]

(* Two jobs racing from the same base, one that builds on the first, a     *)
(* key reused with other content, a job id reused under another key, a     *)
(* staging job that asks for a backup, and one that Validate rejects.      *)
MCRequests ==
    {Production("k1", "j1", none, "R1"),
     Production("k2", "j2", none, "R2"),
     Production("k3", "j3", "R1", "R2"),
     Production("k2", "j2", "R1", "R2"),
     Staging("k3", "j1", FALSE),
     Staging("k3", "j3", TRUE),
     [Production("k1", "j1", none, "R1") EXCEPT !.backup = FALSE]}

Symmetry == Permutations(MCExecs)
=============================================================================
