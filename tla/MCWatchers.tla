----------------------------- MODULE MCWatchers -----------------------------
(* Two targets and two channels.  The parts are optional in an installation *)
(* and meet only in the exported snapshot, each under its own key, so they  *)
(* are checked pair by pair.                                                *)
EXTENDS Watchers, TLC
Alike == Permutations(Targets)
Channels == <<"telegram", "email">>
Installations == {{"monitor", "providers"}, {"monitor", "fleet"}, {"security", "providers"}, {"security", "fleet"}}
=============================================================================
