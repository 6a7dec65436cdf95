--------------------------- MODULE MCSourceDeploy ---------------------------
(* Two deployers and two uploads of one project: main is an ordinary       *)
(* source file, conf one that v1's Compose file names as an env_file.      *)
EXTENDS SourceDeploy, TLC

CONSTANTS v1, v2, main, conf

MCContains(u) == IF u = v1 THEN {Compose, main, conf, Env} ELSE {Compose, main, conf}
MCPrivateOf(c) == IF c = v1 THEN {conf} ELSE {}

Symmetry == Permutations(Deployers)
=============================================================================
