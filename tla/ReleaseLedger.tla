--------------------------- MODULE ReleaseLedger ---------------------------
(***************************************************************************)
(* What FleetDeck's bounded release jobs promise a control plane, without  *)
(* the executor's steps: every idempotency key is bound to one request for *)
(* ever, at most one bound key per target is open, and a target's current  *)
(* release advances only by an atomic compare-and-swap from the release    *)
(* the request expected to the release it names.  ReleaseJob.tla, the      *)
(* executor with its crashes and partial failures, implements this.        *)
(***************************************************************************)
CONSTANTS Keys, Targets, Releases, Requests, NoRelease, NoRequest

VARIABLES
    ledger,   \* [Keys -> status of the job stored under the key]
    owner,    \* [Keys -> the request the key is bound to]
    current   \* [Targets -> the release recorded as current]

lvars == <<ledger, owner, current>>

LedgerInit ==
    /\ ledger = [k \in Keys |-> "none"]
    /\ owner = [k \in Keys |-> NoRequest]
    /\ current = [t \in Targets |-> NoRelease]

(* A request takes a free key, and its target, for itself. *)
Open(r) ==
    /\ ledger[r.key] = "none"
    /\ \A k \in Keys : ledger[k] = "running" => owner[k].target # r.target
    /\ ledger' = [ledger EXCEPT ![r.key] = "running"]
    /\ owner' = [owner EXCEPT ![r.key] = r]
    /\ UNCHANGED current

(* The compare-and-swap: the base the request named is still current at    *)
(* the very moment the new release is recorded.                            *)
Commit(k) ==
    /\ ledger[k] = "running"
    /\ current[owner[k].target] = owner[k].expected
    /\ ledger' = [ledger EXCEPT ![k] = "succeeded"]
    /\ current' = [current EXCEPT ![owner[k].target] = owner[k].release]
    /\ UNCHANGED owner

(* A failure closes the job and leaves the current release alone. *)
Abort(k) ==
    /\ ledger[k] = "running"
    /\ ledger' = [ledger EXCEPT ![k] = "failed"]
    /\ UNCHANGED <<owner, current>>

LedgerNext ==
    \/ \E r \in Requests : Open(r)
    \/ \E k \in Keys : Commit(k) \/ Abort(k)

LedgerSpec == LedgerInit /\ [][LedgerNext]_lvars
=============================================================================
