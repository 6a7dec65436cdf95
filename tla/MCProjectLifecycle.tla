------------------------ MODULE MCProjectLifecycle ------------------------
EXTENDS ProjectLifecycle

(* Processes are only ever compared.                                        *)
Alike == Permutations(Processes)
=============================================================================
