------------------------------ MODULE MCAccess ------------------------------
EXTENDS Access, TLC

(* Browsers, tokens and states are only ever compared.                      *)
Alike == Permutations(Browsers) \cup Permutations(Tokens) \cup Permutations(States)

(* A form, or a change by a tool, with the admin token and no origin; a     *)
(* change sent by a page of the dashboard; the form sent by a page from     *)
(* elsewhere over plain http; a request with the metrics token through an   *)
(* ssh tunnel.                                                              *)
MCRequests == {
    [https |-> TRUE, loopback |-> FALSE, host |-> TRUE, origin |-> None, reads |-> FALSE,
     bearer |-> "admin"],
    [https |-> TRUE, loopback |-> FALSE, host |-> TRUE, origin |-> "same", reads |-> FALSE,
     bearer |-> None],
    [https |-> FALSE, loopback |-> FALSE, host |-> TRUE, origin |-> "other", reads |-> FALSE,
     bearer |-> "admin"],
    [https |-> FALSE, loopback |-> TRUE, host |-> FALSE, origin |-> None, reads |-> TRUE,
     bearer |-> "metrics"]}

(* A good answer, with a short and a long id token, and three bad ones.     *)
Good(id) == [genuine |-> TRUE, amr |-> {"pwd", "mfa", "swk"}, age |-> Window,
             admin |-> TRUE, id |-> id]
MCVerdicts == {Good(id) : id \in {1, OIDCLifetime + 1}} \cup
    {[Good(1) EXCEPT !.genuine = FALSE], [Good(1) EXCEPT !.amr = {"pwd", "mfa"}],
     [Good(1) EXCEPT !.age = Window + 1]}
=============================================================================
