---------------------------- MODULE MCAlertRelay ----------------------------
(* Two relays, two providers, batches of at most two entries. *)
EXTENDS AlertRelay, TLC

CONSTANTS w1, w2, nobody

MCProcs == {w1, w2}
MCProviders == <<1, 2>>
=============================================================================
