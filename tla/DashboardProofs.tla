-------------------------- MODULE DashboardProofs --------------------------
(***************************************************************************)
(* Proofs about the dashboard: who may use it (Access), and below what its *)
(* page shows (DashboardPage).                                             *)
(*                                                                         *)
(* Access is proved for any browsers, tokens, sign-ins, lifetimes and      *)
(* limits.                                                                 *)
(*                                                                         *)
(* A session never outlives the login behind it (Entitled).  A state       *)
(* parameter is in one place at a time: at the provider, in one callback,  *)
(* or in one session (Subjects).  The stores hold no more than their       *)
(* limits (Sized), and an address that was forgotten had all its attempts  *)
(* back (Refilled).                                                        *)
(***************************************************************************)
EXTENDS Access, DashboardPage, FiniteSetTheorems, TLAPS

Devices == Browsers \cup {"any", None}
Record == [left : Deadlines, device : Devices, subject : States \cup {None}]
Call == [by : Browsers, state : States, old : Tokens \cup {None},
         left : Deadlines, id : Deadlines]

(* The keys a map has something under. *)
Held(map) == {k \in DOMAIN map : map[k].device # None}
Small(map) == IsFiniteSet(Held(map)) /\ Cardinality(Held(map)) <= MaxSessions

AnswerOK ==
    answer # Nobody =>
        right[answer.subject].left > 0
            /\ right[answer.subject].device = requestDevice(answer.device)
Entitled ==
    /\ \A t \in Tokens : entries[t].device # None =>
          right[t].device = entries[t].device /\ right[t].left >= entries[t].left
    /\ \A c \in calls : c.id # 0 => c.left <= c.id
    /\ AnswerOK

(* A state that was drawn: in a call or a session it is no longer pending. *)
Gone(s) == s \in drawn /\ pending[s].device = None
Subjects ==
    /\ \A s \in States : pending[s].device # None => s \in drawn
    /\ \A c \in calls : Gone(c.state) /\ \A d \in calls : c.state = d.state => c = d
    /\ \A t \in Tokens : entries[t].subject \in States =>
          /\ Gone(entries[t].subject)
          /\ \A c \in calls : c.state # entries[t].subject
          /\ \A u \in Tokens \ {t} : entries[u].subject # entries[t].subject

Sized ==
    /\ Small(entries) /\ Small(pending)
    /\ IsFiniteSet(table) /\ Cardinality(table) <= MaxVisitors

Refilled ==
    /\ \A b \in Browsers : IF b \in table THEN bucket[b] = ideal[b] ELSE ideal[b] = Burst
    /\ \A b \in Browsers : ideal[b] >= seen[b] \/ ideal[b] = Burst

AccessInv == TypeOK /\ Entitled /\ Subjects /\ Sized /\ Refilled

-----------------------------------------------------------------------------
LEMMA MinOfTwo ==
    ASSUME NEW a \in Int, NEW b \in Int
    PROVE  Min({a, b}) = IF a <= b THEN a ELSE b
BY DEF Min

LEMMA MaxOfTwo ==
    ASSUME NEW a \in Int, NEW b \in Int
    PROVE  Max({a, b}) = IF a >= b THEN a ELSE b
BY DEF Max

LEMMA DeadlinesAre ==
    \E D \in Nat : /\ Deadlines = 0 .. D
                   /\ D >= Lifetime /\ D >= OIDCLifetime + 1 /\ D >= Window
<1> DEFINE S == {Lifetime, OIDCLifetime + 1, Window}
<1>1. S \subseteq Nat
  BY LimitsAssumption
<1>2. \E x \in S : \A y \in S : x >= y
  BY LimitsAssumption
<1>3. Max(S) \in S /\ \A y \in S : Max(S) >= y
  <2> HIDE DEF S
  <2> QED
    BY <1>2 DEF Max
<1> QED
  BY <1>1, <1>3 DEF Deadlines

LEMMA Times ==
    /\ Deadlines \subseteq Nat /\ 0 \in Deadlines
    /\ Lifetime \in Deadlines /\ OIDCLifetime \in Deadlines /\ Window \in Deadlines
    /\ \A n \in Deadlines : Less(n) \in Deadlines
    /\ \A n \in 1 .. OIDCLifetime + 1 :
          n \in Deadlines /\ Expiry(n) \in Deadlines /\ Expiry(n) <= n
    /\ \A n \in Deadlines : n # 0 => Max({1, n - 1}) \in Deadlines /\ Max({1, n - 1}) # 0
    /\ \A n, m \in Deadlines : n <= m /\ m # 0 => Less(n) <= Max({1, m - 1})
    /\ \A n, m \in Deadlines : n <= m => Less(n) <= Less(m)
<1>1. PICK D \in Nat : /\ Deadlines = 0 .. D
                       /\ D >= Lifetime /\ D >= OIDCLifetime + 1 /\ D >= Window
  BY DeadlinesAre
<1>2. \A n \in 1 .. OIDCLifetime + 1 :
         n \in Deadlines /\ Expiry(n) \in Deadlines /\ Expiry(n) <= n
  BY <1>1, MinOfTwo, LimitsAssumption DEF Expiry
<1>3. \A n \in Deadlines : Max({1, n - 1}) = IF 1 >= n - 1 THEN 1 ELSE n - 1
  BY <1>1, MaxOfTwo
<1> QED
  BY <1>1, <1>2, <1>3, LimitsAssumption DEF Less

LEMMA Attempts ==
    /\ \A n \in 0 .. Burst : Refill(n) \in 0 .. Burst /\ (Refill(n) = n + 1 \/ Refill(n) = Burst)
    /\ Refill(Burst) = Burst
    /\ \A n \in 0 .. Idle + 1 :
          /\ Min({Idle + 1, n + 1}) \in 0 .. Idle + 1
          /\ Min({Idle + 1, n + 1}) <= n + 1
<1>1. Burst \in Nat \ {0} /\ Idle \in Nat
  BY LimitsAssumption
<1>2. \A n \in 0 .. Burst : Refill(n) = IF Burst <= n + 1 THEN Burst ELSE n + 1
  BY <1>1, MinOfTwo DEF Refill
<1>3. \A n \in 0 .. Idle + 1 :
         Min({Idle + 1, n + 1}) = IF Idle + 1 <= n + 1 THEN Idle + 1 ELSE n + 1
  BY <1>1, MinOfTwo
<1> QED
  BY <1>1, <1>2, <1>3

LEMMA NobodyIs ==
    /\ Nobody \in Record /\ Nobody.left = 0 /\ Nobody.device = None /\ Nobody.subject = None
BY Times DEF Nobody, Record, Devices

LEMMA DeviceIs ==
    ASSUME NEW b \in Browsers
    PROVE  requestDevice(b) \in Devices /\ requestDevice(b) # None
BY NamesAssumption DEF requestDevice, Devices, None

-----------------------------------------------------------------------------
(* The operations on the maps of sessions and of pending sign-ins. *)

LEMMA PruneIs ==
    ASSUME NEW K, NEW map \in [K -> Record]
    PROVE  /\ Prune(map) \in [K -> Record]
           /\ \A k \in K : Prune(map)[k] = map[k] \/ Prune(map)[k] = Nobody
BY NobodyIs DEF Prune

LEMMA RevokeIs ==
    ASSUME NEW map \in [Tokens -> Record], NEW old
    PROVE  /\ revoke(map, old) \in [Tokens -> Record]
           /\ \A k \in Tokens : revoke(map, old)[k] = IF k = old THEN Nobody ELSE map[k]
BY NobodyIs DEF revoke

LEMMA AgedIs ==
    ASSUME NEW K, NEW map \in [K -> Record]
    PROVE  /\ Aged(map) \in [K -> Record]
           /\ \A k \in K : /\ Aged(map)[k].left = Less(map[k].left)
                           /\ Aged(map)[k].device = map[k].device
                           /\ Aged(map)[k].subject = map[k].subject
<1>1. ASSUME NEW k \in K
      PROVE  /\ [map[k] EXCEPT !.left = Less(@)] \in Record
             /\ [map[k] EXCEPT !.left = Less(@)].left = Less(map[k].left)
             /\ [map[k] EXCEPT !.left = Less(@)].device = map[k].device
             /\ [map[k] EXCEPT !.left = Less(@)].subject = map[k].subject
  <2>1. map[k] \in Record /\ Less(map[k].left) \in Deadlines
    BY Times DEF Record
  <2> QED
    BY <2>1 DEF Record
<1> QED
  BY <1>1 DEF Aged

(* Fewer keys stay within the limit, and one more after a look at it. *)
LEMMA FewerIsSmall ==
    ASSUME NEW map, NEW less, Small(map), Held(less) \subseteq Held(map)
    PROVE  Small(less)
<1>1. IsFiniteSet(Held(less)) /\ Cardinality(Held(less)) <= Cardinality(Held(map))
  BY FS_Subset DEF Small
<1>2. Cardinality(Held(less)) \in Nat /\ Cardinality(Held(map)) \in Nat
  BY <1>1, FS_CardinalityType DEF Small
<1> QED
  BY <1>1, <1>2, LimitsAssumption DEF Small

LEMMA OneMoreIsSmall ==
    ASSUME NEW map, NEW more, NEW t, Small(map), Count(map) < MaxSessions,
           Held(more) \subseteq Held(map) \cup {t}
    PROVE  Small(more)
<1>1. IsFiniteSet(Held(map)) /\ Cardinality(Held(map)) < MaxSessions
      /\ Cardinality(Held(map)) \in Nat
  BY FS_CardinalityType DEF Small, Count, Held
<1>2. /\ IsFiniteSet(Held(map) \cup {t})
      /\ Cardinality(Held(map) \cup {t}) \in {Cardinality(Held(map)), Cardinality(Held(map)) + 1}
  BY <1>1, FS_AddElement
<1>3. /\ IsFiniteSet(Held(more))
      /\ Cardinality(Held(more)) <= Cardinality(Held(map) \cup {t})
  BY <1>2, FS_Subset
<1>4. Cardinality(Held(more)) \in Nat
  BY <1>3, FS_CardinalityType
<1> QED
  BY <1>1, <1>2, <1>3, <1>4, LimitsAssumption DEF Small

LEMMA Types ==
    TypeOK <=>
        /\ oidc \in BOOLEAN /\ tls \in BOOLEAN /\ drawn \subseteq Tokens \cup States
        /\ entries \in [Tokens -> Record] /\ right \in [Tokens -> Record]
        /\ pending \in [States -> Record] /\ calls \subseteq Call
        /\ jar \in [Browsers -> Tokens \cup {None}] /\ pjar \in [Browsers -> States \cup {None}]
        /\ table \subseteq Browsers /\ overflow \in 0..Burst
        /\ bucket \in [Browsers -> 0..Burst] /\ ideal \in [Browsers -> 0..Burst]
        /\ seen \in [Browsers -> 0..Idle + 1] /\ swept \in BOOLEAN
BY DEF TypeOK, Records, Record, Devices, Call

(* The types in two parts: the stores, and the limit on attempts. *)
StoreTypes ==
    /\ oidc \in BOOLEAN /\ tls \in BOOLEAN /\ drawn \subseteq Tokens \cup States
    /\ entries \in [Tokens -> Record] /\ right \in [Tokens -> Record]
    /\ pending \in [States -> Record] /\ calls \subseteq Call
    /\ jar \in [Browsers -> Tokens \cup {None}] /\ pjar \in [Browsers -> States \cup {None}]
LimiterTypes ==
    /\ table \subseteq Browsers /\ overflow \in 0..Burst
    /\ bucket \in [Browsers -> 0..Burst] /\ ideal \in [Browsers -> 0..Burst]
    /\ seen \in [Browsers -> 0..Idle + 1] /\ swept \in BOOLEAN
TableSized == IsFiniteSet(table) /\ Cardinality(table) <= MaxVisitors
LimiterInv == LimiterTypes /\ Refilled /\ TableSized
StoreInv == StoreTypes /\ Entitled /\ Subjects /\ Small(entries) /\ Small(pending)

LEMMA InvParts == AccessInv <=> StoreInv /\ LimiterInv
BY Types DEF AccessInv, StoreInv, LimiterInv, StoreTypes, LimiterTypes, Sized, TableSized

LEMMA InvPartsPrime == AccessInv' <=> StoreInv' /\ LimiterInv'
BY InvParts, PTL

-----------------------------------------------------------------------------
(* Login attempts. *)

LEMMA LookKeeps ==
    ASSUME LimiterInv, NEW b \in Browsers, NEW taken \in {0, 1}, Look(b, taken),
           (IF Own(b) THEN Level(b) ELSE overflow) >= taken
    PROVE  LimiterInv'
<1> USE DEF LimiterInv, LimiterTypes
<1>0. Burst \in Nat \ {0} /\ Idle \in Nat /\ Idle + 1 >= Burst /\ MaxVisitors \in Nat
  BY LimitsAssumption
<1>1. Swept \subseteq table /\ \A c \in table \ Swept : seen[c] > Idle
  BY <1>0 DEF Swept
<1>2. \A c \in table \ Swept : ideal[c] = Burst
  BY <1>0, <1>1 DEF Refilled
<1>3. /\ IsFiniteSet(Swept) /\ Cardinality(Swept) \in Nat
      /\ Cardinality(Swept) <= MaxVisitors
  <2>1. IsFiniteSet(Swept) /\ Cardinality(Swept) <= Cardinality(table)
    BY <1>1, FS_Subset DEF TableSized
  <2>2. Cardinality(Swept) \in Nat /\ Cardinality(table) \in Nat
    BY <2>1, FS_CardinalityType DEF TableSized
  <2> QED
    BY <1>0, <2>1, <2>2 DEF TableSized
<1>4. CASE Own(b)
  <2>1. /\ table' = Swept \cup {b} /\ swept' = TRUE /\ overflow' = overflow
        /\ bucket' = [bucket EXCEPT ![b] = Level(b) - taken]
        /\ seen' = [seen EXCEPT ![b] = 0]
        /\ ideal' = [ideal EXCEPT ![b] = ideal[b] - taken]
    BY <1>4 DEF Look
  <2>2. Level(b) = ideal[b] /\ Level(b) \in 0 .. Burst /\ Level(b) - taken \in 0 .. Burst
    <3>1. Level(b) = ideal[b]
      BY <1>1, <1>2 DEF Level, Refilled
    <3> QED
      BY <1>0, <1>4, <3>1
  <2>3. LimiterTypes'
    BY <1>0, <1>1, <2>1, <2>2
  <2>4. Refilled'
    <3>1. \A c \in Browsers \ {b} :
             /\ bucket'[c] = bucket[c] /\ seen'[c] = seen[c] /\ ideal'[c] = ideal[c]
      BY <2>1
    <3>2. bucket'[b] = ideal'[b] /\ seen'[b] = 0 /\ ideal'[b] \in Nat
      BY <1>0, <2>1, <2>2
    <3>3. ASSUME NEW c \in Browsers
          PROVE  /\ IF c \in table' THEN bucket'[c] = ideal'[c] ELSE ideal'[c] = Burst
                 /\ ideal'[c] >= seen'[c] \/ ideal'[c] = Burst
      BY <1>0, <1>1, <1>2, <2>1, <3>1, <3>2 DEF Refilled
    <3> QED
      BY <3>3 DEF Refilled
  <2>5. TableSized'
    <3>1. CASE b \in Swept
      <4>1. table' = Swept
        BY <2>1, <3>1
      <4> QED
        BY <1>3, <4>1 DEF TableSized
    <3>2. CASE b \notin Swept
      <4>1. /\ IsFiniteSet(Swept \cup {b})
            /\ Cardinality(Swept \cup {b}) = Cardinality(Swept) + 1
        BY <1>3, <3>2, FS_AddElement
      <4>2. Cardinality(Swept) < MaxVisitors
        BY <1>4, <3>2 DEF Own
      <4> QED
        BY <1>0, <1>3, <2>1, <4>1, <4>2 DEF TableSized
    <3> QED
      BY <3>1, <3>2
  <2> QED
    BY <2>3, <2>4, <2>5
<1>5. CASE ~Own(b)
  <2>1. /\ table' = Swept /\ swept' = TRUE /\ overflow' = overflow - taken
        /\ UNCHANGED <<bucket, seen, ideal>>
    BY <1>5 DEF Look
  <2>2. overflow' \in 0 .. Burst
    BY <1>0, <1>5, <2>1
  <2>3. LimiterTypes'
    BY <1>1, <2>1, <2>2
  <2>4. Refilled'
    BY <1>1, <1>2, <2>1 DEF Refilled
  <2>5. TableSized'
    BY <1>3, <2>1 DEF TableSized
  <2> QED
    BY <2>3, <2>4, <2>5
<1> QED
  BY <1>4, <1>5

LEMMA AllowKeeps ==
    ASSUME LimiterInv, NEW b \in Browsers, Allow(b) \/ Limited(b)
    PROVE  LimiterInv'
<1>0. Burst \in Nat /\ overflow \in 0 .. Burst /\ Level(b) \in 0 .. Burst
  BY LimitsAssumption DEF LimiterInv, LimiterTypes, Level
<1>1. CASE Allow(b)
  BY <1>0, <1>1, LookKeeps DEF Allow
<1>2. CASE Limited(b)
  BY <1>0, <1>2, LookKeeps DEF Limited
<1> QED
  BY <1>1, <1>2

LEMMA LimiterStays ==
    ASSUME LimiterInv, UNCHANGED limiter
    PROVE  LimiterInv'
BY DEF LimiterInv, LimiterTypes, Refilled, TableSized, limiter

(* A new process, or the first one. *)
LEMMA LimiterFresh ==
    /\ Fresh /\ ideal = [b \in Browsers |-> Burst] => LimiterInv
    /\ Restart => LimiterInv'
<1>0. Burst \in Nat /\ Idle \in Nat /\ MaxVisitors \in Nat
  BY LimitsAssumption
<1>1. IsFiniteSet({}) /\ Cardinality({}) = 0
  BY FS_EmptySet
<1>4. Burst \in 0 .. Burst /\ 0 \in 0 .. Idle + 1
  BY <1>0
<1>5. /\ [b \in Browsers |-> Burst] \in [Browsers -> 0 .. Burst]
      /\ [b \in Browsers |-> 0] \in [Browsers -> 0 .. Idle + 1]
  BY <1>4
<1>2. ASSUME Fresh, ideal = [b \in Browsers |-> Burst] PROVE LimiterInv
  <2>1. LimiterTypes
    BY <1>2, <1>4, <1>5, Zenon DEF Fresh, LimiterTypes
  <2>2. Refilled
    BY <1>2 DEF Fresh, Refilled
  <2>3. TableSized
    BY <1>0, <1>1, <1>2 DEF Fresh, TableSized
  <2> QED
    BY <2>1, <2>2, <2>3 DEF LimiterInv
<1>3. ASSUME Restart PROVE LimiterInv'
  <2>1. LimiterTypes'
    BY <1>3, <1>4, <1>5, Zenon DEF Restart, LimiterTypes
  <2>2. Refilled'
    BY <1>3 DEF Restart, Refilled
  <2>3. TableSized'
    BY <1>0, <1>1, <1>3 DEF Restart, TableSized
  <2> QED
    BY <2>1, <2>2, <2>3 DEF LimiterInv
<1> QED
  BY <1>2, <1>3

LEMMA LimiterTick ==
    ASSUME LimiterInv, Tick
    PROVE  LimiterInv'
<1>0. Burst \in Nat /\ Idle \in Nat
  BY LimitsAssumption
<1>1. /\ overflow' = Refill(overflow) /\ swept' = FALSE /\ table' = table
      /\ bucket' = [b \in Browsers |-> Refill(bucket[b])]
      /\ ideal' = [b \in Browsers |-> Refill(ideal[b])]
      /\ seen' = [b \in Browsers |-> Min({Idle + 1, seen[b] + 1})]
  BY DEF Tick
<1>2. LimiterTypes'
  BY <1>1, Attempts DEF LimiterInv, LimiterTypes
<1>3. ASSUME NEW b \in Browsers
      PROVE  /\ IF b \in table' THEN bucket'[b] = ideal'[b] ELSE ideal'[b] = Burst
             /\ ideal'[b] >= seen'[b] \/ ideal'[b] = Burst
  <2>1. /\ bucket'[b] = Refill(bucket[b]) /\ ideal'[b] = Refill(ideal[b])
        /\ seen'[b] = Min({Idle + 1, seen[b] + 1})
    BY <1>1
  <2>2. /\ ideal[b] \in 0 .. Burst /\ seen[b] \in 0 .. Idle + 1
        /\ IF b \in table THEN bucket[b] = ideal[b] ELSE ideal[b] = Burst
        /\ ideal[b] >= seen[b] \/ ideal[b] = Burst
    BY DEF LimiterInv, LimiterTypes, Refilled
  <2>3. /\ Refill(ideal[b]) = ideal[b] + 1 \/ Refill(ideal[b]) = Burst
        /\ seen'[b] <= seen[b] + 1 /\ seen'[b] \in Nat
        /\ Refill(Burst) = Burst
    BY <1>0, <2>1, <2>2, Attempts
  <2> QED
    BY <1>0, <1>1, <2>1, <2>2, <2>3
<1>4. Refilled' /\ TableSized'
  BY <1>1, <1>3 DEF Refilled, LimiterInv, TableSized
<1> QED
  BY <1>2, <1>4 DEF LimiterInv

(* The limit on attempts holds at every step. *)
LEMMA LimiterStep == LimiterInv /\ [Next]_vars => LimiterInv'
<1> SUFFICES ASSUME LimiterInv, [Next]_vars PROVE LimiterInv'
  OBVIOUS
<1>1. \/ UNCHANGED limiter
      \/ \E b \in Browsers : Allow(b) \/ Limited(b)
      \/ Restart \/ Tick
  BY DEF Next, vars, handleLoginSubmit, beginOIDC, handleLogout, requireAuth, requirePageAuth,
         requireMetricsAuth, callback, TooMany, CopyProfile, finish, verify
<1> QED
  BY <1>1, LimiterStays, AllowKeeps, LimiterFresh, LimiterTick

-----------------------------------------------------------------------------
(* The stores.  Most steps only take something away: sessions and pending  *)
(* sign-ins go or stay as they are, and so do calls.                       *)
Settings == oidc' \in BOOLEAN /\ tls' \in BOOLEAN
Jars == jar \in [Browsers -> Tokens \cup {None}] /\ pjar \in [Browsers -> States \cup {None}]

LEMMA ThinStep ==
    ASSUME StoreInv, Settings, Jars', AnswerOK', drawn' = drawn, calls' \subseteq calls,
           entries' \in [Tokens -> Record], pending' \in [States -> Record],
           right' \in [Tokens -> Record],
           \A t \in Tokens : entries'[t] = entries[t] \/ entries'[t] = Nobody,
           \A s \in States : pending'[s] = pending[s] \/ pending'[s] = Nobody,
           \A t \in Tokens : right'[t] = right[t] \/ entries'[t] = Nobody
    PROVE  StoreInv'
<1>1. StoreTypes'
  BY DEF StoreInv, StoreTypes, Settings, Jars
<1>2. Small(entries') /\ Small(pending')
  <2>1. Held(entries') \subseteq Held(entries) /\ Held(pending') \subseteq Held(pending)
    BY NobodyIs DEF Held, StoreInv, StoreTypes
  <2> QED
    BY <2>1, FewerIsSmall DEF StoreInv
<1>3. Entitled'
  BY NobodyIs DEF Entitled, StoreInv
<1>4. Subjects'
  <2>1. \A s \in States : Gone(s) => Gone(s)'
    BY NobodyIs DEF Gone
  <2>2. \A s \in States : pending'[s].device # None => pending[s].device # None
    BY NobodyIs
  <2>3. \A t \in Tokens : entries'[t].subject \in States => entries'[t].subject = entries[t].subject
    BY NobodyIs, NamesAssumption DEF None
  <2>4. \A c \in calls : c.state \in States
    BY DEF StoreInv, StoreTypes, Call
  <2>5. \A t, u \in Tokens :
           entries'[t].subject \in States /\ entries[u].subject # entries[t].subject
               => entries'[u].subject # entries'[t].subject
    BY <2>3
  <2>6. \A s \in States : pending'[s].device # None => s \in drawn'
    BY <2>2 DEF Subjects, StoreInv
  <2>7. \A c \in calls' : (Gone(c.state))' /\ \A d \in calls' : c.state = d.state => c = d
    <3>1. ASSUME NEW c \in calls
          PROVE  /\ c.state \in drawn' /\ pending'[c.state].device = None
                 /\ \A d \in calls : c.state = d.state => c = d
      BY <2>2, <2>4 DEF Subjects, StoreInv, Gone
    <3> QED
      BY <3>1 DEF Gone
  <2>8. ASSUME NEW t \in Tokens, entries'[t].subject \in States
        PROVE  /\ (Gone(entries[t].subject))'
               /\ \A c \in calls' : c.state # entries'[t].subject
               /\ \A u \in Tokens \ {t} : entries'[u].subject # entries'[t].subject
    <3>1. PICK s \in States : s = entries[t].subject /\ s = entries'[t].subject
      BY <2>3, <2>8
    <3>2. /\ s \in drawn /\ pending[s].device = None
          /\ \A c \in calls : c.state # s
          /\ \A u \in Tokens \ {t} : entries[u].subject # s
      BY <3>1 DEF Subjects, StoreInv, Gone
    <3>3. s \in drawn' /\ pending'[s].device = None
      BY <2>2, <3>2
    <3> QED
      BY <2>5, <3>1, <3>2, <3>3 DEF Gone
  <2> QED
    BY <2>6, <2>7, <2>8 DEF Subjects
<1> QED
  BY <1>1, <1>2, <1>3, <1>4 DEF StoreInv

(* A session is made, for the login that replaces the one of its cookie. *)
LEMMA SessionStep ==
    ASSUME StoreInv, Settings, Jars', AnswerOK',
           NEW t \in Tokens \ drawn, NEW old, NEW device \in Devices, device # None,
           NEW subject \in States \cup {None},
           NEW left \in Deadlines, NEW until \in Deadlines, left <= until, CanCreate(left),
           entries' = revoke(Created(t, device, subject, left), old),
           right' = [revoke(right, old) EXCEPT
                        ![t] = [left |-> until, device |-> device, subject |-> subject]],
           drawn' = drawn \cup {t}, pending' = pending, calls' \subseteq calls,
           subject \in States =>
              /\ Gone(subject)
              /\ \A c \in calls' : c.state # subject
              /\ \A u \in Tokens : entries[u].subject # subject
    PROVE  StoreInv'
<1> DEFINE new == [left |-> left, device |-> device, subject |-> subject]
           login == [left |-> until, device |-> device, subject |-> subject]
<1>1. new \in Record /\ login \in Record
  BY DEF Record
<1>2. /\ entries \in [Tokens -> Record] /\ right \in [Tokens -> Record]
      /\ pending \in [States -> Record]
  BY DEF StoreInv, StoreTypes
<1>3. /\ Prune(entries) \in [Tokens -> Record]
      /\ \A k \in Tokens : Prune(entries)[k] = entries[k] \/ Prune(entries)[k] = Nobody
  BY <1>2, PruneIs
<1>4. /\ Created(t, device, subject, left) \in [Tokens -> Record]
      /\ \A k \in Tokens : Created(t, device, subject, left)[k] =
                              IF k = t THEN new ELSE Prune(entries)[k]
  BY <1>1, <1>3 DEF Created
<1>5. /\ entries' \in [Tokens -> Record]
      /\ \A k \in Tokens : entries'[k] = IF k = old THEN Nobody
                                         ELSE IF k = t THEN new ELSE Prune(entries)[k]
  BY <1>4, RevokeIs
<1>6. /\ right' \in [Tokens -> Record]
      /\ \A k \in Tokens : right'[k] = IF k = t THEN login
                                       ELSE IF k = old THEN Nobody ELSE right[k]
  <2>1. /\ revoke(right, old) \in [Tokens -> Record]
        /\ \A k \in Tokens : revoke(right, old)[k] = IF k = old THEN Nobody ELSE right[k]
    BY <1>2, RevokeIs
  <2> QED
    BY <1>1, <2>1
<1>7. /\ new.device = device /\ new.subject = subject /\ new.left = left
      /\ login.device = device /\ login.left = until
  OBVIOUS
<1> HIDE DEF new, login
<1>8. StoreTypes'
  BY <1>2, <1>5, <1>6 DEF StoreInv, StoreTypes, Settings, Jars
<1>9. Small(entries') /\ Small(pending')
  <2>1. Held(Prune(entries)) \subseteq Held(entries)
    BY <1>2, <1>3, NobodyIs DEF Held
  <2>2. Small(Prune(entries))
    BY <2>1, FewerIsSmall DEF StoreInv
  <2>3. Held(entries') \subseteq Held(Prune(entries)) \cup {t}
    BY <1>3, <1>5, NobodyIs DEF Held
  <2>4. Small(entries')
    BY <2>2, <2>3, OneMoreIsSmall DEF CanCreate
  <2> QED
    BY <2>4 DEF StoreInv
<1>10. Entitled'
  <2>1. ASSUME NEW k \in Tokens, entries'[k].device # None
        PROVE  right'[k].device = entries'[k].device /\ right'[k].left >= entries'[k].left
    <3>1. k # old
      BY <1>5, <2>1, NobodyIs
    <3>2. CASE k = t
      BY <1>5, <1>6, <1>7, <3>1, <3>2, Times
    <3>3. CASE k # t
      BY <1>3, <1>5, <1>6, <2>1, <3>1, <3>3, NobodyIs DEF StoreInv, Entitled
    <3> QED
      BY <3>2, <3>3
  <2> QED
    BY <2>1 DEF Entitled, StoreInv
<1>11. Subjects'
  <2>1. \A k \in Tokens : k # t /\ entries'[k].subject \in States
                              => entries'[k].subject = entries[k].subject
    BY <1>3, <1>5, NobodyIs, NamesAssumption DEF None
  <2>2. entries'[t].subject \in States => entries'[t].subject = subject
    BY <1>5, <1>7, NobodyIs, NamesAssumption DEF None
  <2>3. \A s \in States : pending'[s].device # None => s \in drawn'
    BY DEF Subjects, StoreInv
  <2>4. \A c \in calls' : (Gone(c.state))' /\ \A d \in calls' : c.state = d.state => c = d
    BY DEF Subjects, StoreInv, Gone
  <2>5. ASSUME NEW k \in Tokens, entries'[k].subject \in States
        PROVE  /\ (Gone(entries[k].subject))'
               /\ \A c \in calls' : c.state # entries'[k].subject
               /\ \A u \in Tokens \ {k} : entries'[u].subject # entries'[k].subject
    <3>1. PICK s \in States : s = entries'[k].subject
      BY <2>5
    <3>2. CASE k = t
      <4>1. /\ s \in drawn /\ pending[s].device = None /\ \A c \in calls' : c.state # s
            /\ \A u \in Tokens : entries[u].subject # s
        BY <2>2, <3>1, <3>2 DEF Gone
      <4>2. \A u \in Tokens \ {k} : entries'[u].subject # s
        BY <2>1, <3>2, <4>1
      <4> QED
        BY <3>1, <4>1, <4>2 DEF Gone
    <3>3. CASE k # t
      <4>1. s = entries[k].subject
        BY <2>1, <2>5, <3>1, <3>3
      <4>2. /\ s \in drawn /\ pending[s].device = None /\ \A c \in calls : c.state # s
            /\ \A u \in Tokens \ {k} : entries[u].subject # s
        BY <4>1 DEF Subjects, StoreInv, Gone
      <4>3. s # subject
        BY <4>1
      <4>4. \A u \in Tokens \ {k} : entries'[u].subject # s
        BY <2>1, <2>2, <4>2, <4>3
      <4> QED
        BY <3>1, <4>2, <4>4 DEF Gone
    <3> QED
      BY <3>2, <3>3
  <2> QED
    BY <2>3, <2>4, <2>5 DEF Subjects
<1> QED
  BY <1>8, <1>9, <1>10, <1>11 DEF StoreInv

(* A browser leaves for the provider with a fresh state. *)
LEMMA PendingStep ==
    ASSUME StoreInv, NEW s \in States \ drawn, NEW device \in Devices,
           Settings, Jars', answer' = Nobody, Count(Prune(pending)) < MaxSessions,
           drawn' = drawn \cup {s}, UNCHANGED <<entries, calls, right>>,
           pending' = [Prune(pending) EXCEPT
                          ![s] = [left |-> Window, device |-> device, subject |-> None]]
    PROVE  StoreInv'
<1> DEFINE new == [left |-> Window, device |-> device, subject |-> None]
<1>1. new \in Record
  BY Times DEF Record
<1> HIDE DEF new
<1>2. /\ entries \in [Tokens -> Record] /\ right \in [Tokens -> Record]
      /\ pending \in [States -> Record] /\ calls \subseteq Call
  BY DEF StoreInv, StoreTypes
<1>3. /\ Prune(pending) \in [States -> Record]
      /\ \A k \in States : Prune(pending)[k] = pending[k] \/ Prune(pending)[k] = Nobody
  BY <1>2, PruneIs
<1>4. /\ pending' \in [States -> Record]
      /\ \A k \in States : pending'[k] = IF k = s THEN new ELSE Prune(pending)[k]
  BY <1>1, <1>3 DEF new
<1>5. StoreTypes'
  BY <1>4 DEF StoreInv, StoreTypes, Settings, Jars
<1>6. Small(entries') /\ Small(pending')
  <2>1. Held(Prune(pending)) \subseteq Held(pending)
    BY <1>2, <1>3, NobodyIs DEF Held
  <2>2. Small(Prune(pending))
    BY <2>1, FewerIsSmall DEF StoreInv
  <2>3. Held(pending') \subseteq Held(Prune(pending)) \cup {s}
    BY <1>3, <1>4 DEF Held
  <2>4. Small(pending')
    BY <2>2, <2>3, OneMoreIsSmall
  <2> QED
    BY <2>4 DEF StoreInv
<1>7. Entitled'
  BY DEF Entitled, StoreInv, AnswerOK
<1>8. Subjects'
  <2>1. \A k \in States : pending'[k].device # None => k = s \/ pending[k].device # None
    BY <1>3, <1>4, NobodyIs
  <2>2. \A k \in States : Gone(k) => k # s /\ Gone(k)'
    BY <2>1 DEF Gone
  <2>3. \A k \in States : pending'[k].device # None => k \in drawn'
    BY <2>1 DEF Subjects, StoreInv
  <2>4. \A c \in calls : c.state \in States
    BY <1>2 DEF Call
  <2>5. \A c \in calls' : (Gone(c.state))' /\ \A d \in calls' : c.state = d.state => c = d
    <3>1. ASSUME NEW c \in calls
          PROVE  /\ c.state \in drawn' /\ pending'[c.state].device = None
                 /\ \A d \in calls : c.state = d.state => c = d
      BY <2>2, <2>4 DEF Subjects, StoreInv, Gone
    <3> QED
      BY <3>1 DEF Gone
  <2>6. ASSUME NEW t \in Tokens, entries[t].subject \in States
        PROVE  /\ (Gone(entries[t].subject))'
               /\ \A c \in calls' : c.state # entries'[t].subject
               /\ \A u \in Tokens \ {t} : entries'[u].subject # entries'[t].subject
    <3>1. /\ entries[t].subject \in drawn' /\ pending'[entries[t].subject].device = None
          /\ \A c \in calls : c.state # entries[t].subject
          /\ \A u \in Tokens \ {t} : entries[u].subject # entries[t].subject
      BY <2>2, <2>6 DEF Subjects, StoreInv, Gone
    <3> QED
      BY <3>1 DEF Gone
  <2> QED
    BY <2>3, <2>5, <2>6 DEF Subjects
<1> QED
  BY <1>5, <1>6, <1>7, <1>8 DEF StoreInv

(* The first callback that shows a state spends it. *)
LEMMA CallbackStep ==
    ASSUME StoreInv, NEW s \in States, NEW c \in Call, c.state = s, c.id = 0,
           pending[s].device # None, Settings, Jars', answer' = Nobody,
           pending' = [pending EXCEPT ![s] = Nobody], calls' = calls \cup {c},
           UNCHANGED <<drawn, entries, right>>
    PROVE  StoreInv'
<1>1. /\ entries \in [Tokens -> Record] /\ right \in [Tokens -> Record]
      /\ pending \in [States -> Record] /\ calls \subseteq Call
  BY DEF StoreInv, StoreTypes
<1>2. /\ pending' \in [States -> Record]
      /\ \A k \in States : pending'[k] = IF k = s THEN Nobody ELSE pending[k]
  BY <1>1, NobodyIs
<1>3. StoreTypes'
  BY <1>1, <1>2 DEF StoreInv, StoreTypes, Settings, Jars
<1>4. Small(entries') /\ Small(pending')
  <2>1. Held(pending') \subseteq Held(pending)
    BY <1>1, <1>2, NobodyIs DEF Held
  <2> QED
    BY <2>1, FewerIsSmall DEF StoreInv
<1>5. Entitled'
  BY DEF Entitled, StoreInv, AnswerOK
<1>6. Subjects'
  <2>1. \A k \in States : pending'[k].device # None => pending[k].device # None
    BY <1>2, NobodyIs
  <2>2. s \in drawn /\ pending'[s].device = None
    BY <1>2, NobodyIs DEF Subjects, StoreInv
  <2>3. \A d \in calls : d.state # s /\ d.state \in States
    BY <1>1 DEF Subjects, StoreInv, Gone, Call
  <2>4. \A t \in Tokens : entries[t].subject # s
    BY DEF Subjects, StoreInv, Gone
  <2>5. \A k \in States : pending'[k].device # None => k \in drawn'
    BY <2>1 DEF Subjects, StoreInv
  <2>6. \A e \in calls' : (Gone(e.state))' /\ \A d \in calls' : e.state = d.state => e = d
    <3>1. ASSUME NEW e \in calls \cup {c}
          PROVE  /\ e.state \in drawn' /\ pending'[e.state].device = None
                 /\ \A d \in calls \cup {c} : e.state = d.state => e = d
      BY <2>1, <2>2, <2>3 DEF Subjects, StoreInv, Gone
    <3> QED
      BY <3>1 DEF Gone
  <2>7. ASSUME NEW t \in Tokens, entries[t].subject \in States
        PROVE  /\ (Gone(entries[t].subject))'
               /\ \A e \in calls' : e.state # entries'[t].subject
               /\ \A u \in Tokens \ {t} : entries'[u].subject # entries'[t].subject
    <3>1. /\ entries[t].subject \in drawn' /\ pending'[entries[t].subject].device = None
          /\ \A e \in calls \cup {c} : e.state # entries[t].subject
          /\ \A u \in Tokens \ {t} : entries[u].subject # entries[t].subject
      BY <2>1, <2>4, <2>7 DEF Subjects, StoreInv, Gone
    <3> QED
      BY <3>1 DEF Gone
  <2> QED
    BY <2>5, <2>6, <2>7 DEF Subjects
<1> QED
  BY <1>3, <1>4, <1>5, <1>6 DEF StoreInv

LEMMA CallWith ==
    ASSUME NEW c \in Call, NEW left \in Deadlines, NEW id \in Deadlines,
           NEW d, d = [c EXCEPT !.left = left, !.id = id]
    PROVE  d \in Call /\ d.state = c.state /\ d.left = left /\ d.id = id
BY DEF Call

(* The provider's answer is kept with the call it is for. *)
LEMMA VerifyStep ==
    ASSUME StoreInv, NEW c \in calls, NEW left \in Deadlines, NEW id \in Deadlines,
           left <= id, answer' = Nobody,
           calls' = (calls \ {c}) \cup {[c EXCEPT !.left = left, !.id = id]},
           UNCHANGED <<config, store, jars, right>>
    PROVE  StoreInv'
<1>1. PICK d \in Call : d = [c EXCEPT !.left = left, !.id = id]
                        /\ d.state = c.state /\ d.left = left /\ d.id = id
  BY CallWith DEF StoreInv, StoreTypes
<1>2. calls' = (calls \ {c}) \cup {d}
  BY <1>1
<1>3. StoreTypes'
  BY <1>2 DEF StoreInv, StoreTypes, config, store, jars
<1>4. Small(entries') /\ Small(pending')
  BY DEF StoreInv, store
<1>5. Entitled'
  BY <1>1, <1>2 DEF Entitled, StoreInv, AnswerOK, store
<1>6. Subjects'
  <2>1. UNCHANGED <<drawn, entries, pending>>
    BY DEF store
  <2>2. \A s \in States : pending'[s].device # None => s \in drawn'
    BY <2>1 DEF Subjects, StoreInv
  <2>3. \A e \in calls' : (Gone(e.state))' /\ \A f \in calls' : e.state = f.state => e = f
    <3>1. \A e \in calls : e.state \in drawn /\ pending[e.state].device = None
      BY DEF Subjects, StoreInv, Gone
    <3>2. \A e, f \in calls : e.state = f.state => e = f
      BY DEF Subjects, StoreInv
    <3>3. \A e \in calls' : e.state \in drawn' /\ pending'[e.state].device = None
      BY <1>1, <1>2, <2>1, <3>1
    <3>4. \A e, f \in calls' : e.state = f.state => e = f
      BY <1>1, <1>2, <3>2
    <3> QED
      BY <3>3, <3>4 DEF Gone
  <2>4. ASSUME NEW t \in Tokens, entries[t].subject \in States
        PROVE  /\ (Gone(entries[t].subject))'
               /\ \A e \in calls' : e.state # entries'[t].subject
               /\ \A u \in Tokens \ {t} : entries'[u].subject # entries'[t].subject
    <3>1. /\ entries[t].subject \in drawn /\ pending[entries[t].subject].device = None
          /\ \A e \in calls : e.state # entries[t].subject
          /\ \A u \in Tokens \ {t} : entries[u].subject # entries[t].subject
      BY <2>4 DEF Subjects, StoreInv, Gone
    <3> QED
      BY <1>1, <1>2, <2>1, <3>1 DEF Gone
  <2> QED
    BY <2>1, <2>2, <2>3, <2>4 DEF Subjects
<1> QED
  BY <1>3, <1>4, <1>5, <1>6 DEF StoreInv

(* Time passes for sessions, logins, pending sign-ins and calls alike. *)
LEMMA TickStep ==
    ASSUME StoreInv, Tick
    PROVE  StoreInv'
<1> DEFINE Older(c) == [c EXCEPT !.left = Less(@), !.id = IF @ = 0 THEN 0 ELSE Max({1, @ - 1})]
<1>1. /\ entries \in [Tokens -> Record] /\ right \in [Tokens -> Record]
      /\ pending \in [States -> Record] /\ calls \subseteq Call
  BY DEF StoreInv, StoreTypes
<1> HIDE DEF Older
<1>2. /\ entries' \in [Tokens -> Record]
      /\ \A t \in Tokens : /\ entries'[t].left = Less(entries[t].left)
                           /\ entries'[t].device = entries[t].device
                           /\ entries'[t].subject = entries[t].subject
  <2>1. entries' = Aged(entries)
    BY DEF Tick
  <2>2. /\ Aged(entries) \in [Tokens -> Record]
        /\ \A t \in Tokens : /\ Aged(entries)[t].left = Less(entries[t].left)
                             /\ Aged(entries)[t].device = entries[t].device
                             /\ Aged(entries)[t].subject = entries[t].subject
    BY <1>1, AgedIs
  <2> QED
    BY <2>1, <2>2
<1>3. /\ right' \in [Tokens -> Record]
      /\ \A t \in Tokens : /\ right'[t].left = Less(right[t].left)
                           /\ right'[t].device = right[t].device
  <2>1. right' = Aged(right)
    BY DEF Tick
  <2>2. /\ Aged(right) \in [Tokens -> Record]
        /\ \A t \in Tokens : /\ Aged(right)[t].left = Less(right[t].left)
                             /\ Aged(right)[t].device = right[t].device
    BY <1>1, AgedIs
  <2> QED
    BY <2>1, <2>2
<1>4. /\ pending' \in [States -> Record]
      /\ \A s \in States : pending'[s].device = pending[s].device
  <2>1. pending' = Aged(pending)
    BY DEF Tick
  <2>2. /\ Aged(pending) \in [States -> Record]
        /\ \A s \in States : Aged(pending)[s].device = pending[s].device
    BY <1>1, AgedIs
  <2> QED
    BY <2>1, <2>2
<1>5. ASSUME NEW c \in Call
      PROVE  /\ Older(c) \in Call /\ Older(c).state = c.state
             /\ Older(c).left = Less(c.left)
             /\ Older(c).id = IF c.id = 0 THEN 0 ELSE Max({1, c.id - 1})
  <2>1. PICK l \in Deadlines, i \in Deadlines :
           l = Less(c.left) /\ i = IF c.id = 0 THEN 0 ELSE Max({1, c.id - 1})
    BY Times DEF Call
  <2>2. Older(c) = [c EXCEPT !.left = l, !.id = i]
    BY <2>1 DEF Older
  <2>3. PICK d : d = Older(c)
    OBVIOUS
  <2>4. d = [c EXCEPT !.left = l, !.id = i]
    BY <2>2, <2>3
  <2>5. d \in Call /\ d.state = c.state /\ d.left = l /\ d.id = i
    BY <2>4 DEF Call
  <2> QED
    BY <2>1, <2>3, <2>5
<1>6. calls' = {Older(c) : c \in calls} /\ UNCHANGED <<oidc, tls, drawn, jar, pjar>>
  <2>1. calls' = {Older(c) : c \in calls}
    BY Zenon DEF Tick, Older
  <2> QED
    BY <2>1 DEF Tick, config, jars
<1>7. StoreTypes'
  <2>1. \A c \in calls : Older(c) \in Call
    BY <1>1, <1>5
  <2>2. calls' \subseteq Call
    BY <1>6, <2>1
  <2> QED
    BY <1>2, <1>3, <1>4, <1>6, <2>2 DEF StoreInv, StoreTypes
<1>8. Small(entries') /\ Small(pending')
  <2>1. Held(entries') \subseteq Held(entries) /\ Held(pending') \subseteq Held(pending)
    BY <1>1, <1>2, <1>4 DEF Held
  <2> QED
    BY <2>1, FewerIsSmall DEF StoreInv
<1>9. Entitled'
  <2>1. ASSUME NEW t \in Tokens, entries'[t].device # None
        PROVE  right'[t].device = entries'[t].device /\ right'[t].left >= entries'[t].left
    <3>1. /\ entries[t].left \in Deadlines /\ right[t].left \in Deadlines
      BY <1>1 DEF Record
    <3>2. right[t].device = entries[t].device /\ entries[t].left <= right[t].left
      BY <1>2, <2>1, <3>1, Times DEF Entitled, StoreInv
    <3>3. Less(entries[t].left) <= Less(right[t].left)
      BY <3>1, <3>2, Times
    <3>4. Less(entries[t].left) \in Nat /\ Less(right[t].left) \in Nat
      BY <3>1, Times
    <3> QED
      BY <1>2, <1>3, <3>2, <3>3, <3>4
  <2>2. ASSUME NEW c \in calls, Older(c).id # 0
        PROVE  Older(c).left <= Older(c).id
    <3>1. c \in Call /\ c.left \in Deadlines /\ c.id \in Deadlines
      BY <1>1 DEF Call
    <3>2. c.id # 0 /\ c.left <= c.id
      BY <1>5, <2>2, <3>1 DEF Entitled, StoreInv
    <3> QED
      BY <1>5, <3>1, <3>2, Times
  <2>3. AnswerOK'
    BY DEF Tick, AnswerOK
  <2> QED
    BY <1>6, <2>1, <2>2, <2>3 DEF Entitled
<1>10. Subjects'
  <2>1. \A s \in States : pending'[s].device # None => s \in drawn'
    BY <1>4, <1>6 DEF Subjects, StoreInv
  <2>2. \A c \in calls : c.state \in States /\ Older(c).state = c.state
    BY <1>1, <1>5 DEF Call
  <2>3. \A e \in calls' : (Gone(e.state))' /\ \A f \in calls' : e.state = f.state => e = f
    <3>1. ASSUME NEW c \in calls
          PROVE  /\ c.state \in drawn' /\ pending'[c.state].device = None
                 /\ \A d \in calls : Older(c).state = Older(d).state => Older(c) = Older(d)
      BY <1>4, <1>6, <2>2 DEF Subjects, StoreInv, Gone
    <3> QED
      BY <1>6, <2>2, <3>1 DEF Gone
  <2>4. ASSUME NEW t \in Tokens, entries'[t].subject \in States
        PROVE  /\ (Gone(entries[t].subject))'
               /\ \A e \in calls' : e.state # entries'[t].subject
               /\ \A u \in Tokens \ {t} : entries'[u].subject # entries'[t].subject
    <3>1. /\ entries[t].subject \in drawn /\ pending[entries[t].subject].device = None
          /\ \A e \in calls : e.state # entries[t].subject
          /\ \A u \in Tokens \ {t} : entries[u].subject # entries[t].subject
      BY <1>2, <2>4 DEF Subjects, StoreInv, Gone
    <3>2. entries'[t].subject = entries[t].subject /\ entries[t].subject \in States
      BY <1>2, <2>4
    <3> QED
      BY <1>2, <1>4, <1>6, <2>2, <3>1, <3>2 DEF Gone
  <2> QED
    BY <2>1, <2>3, <2>4 DEF Subjects
<1> QED
  BY <1>7, <1>8, <1>9, <1>10 DEF StoreInv

LEMMA AccessInit == Init => AccessInv
<1> SUFFICES ASSUME Init PROVE AccessInv
  OBVIOUS
<1>1. [t \in Tokens |-> Nobody] \in [Tokens -> Record] /\ [s \in States |-> Nobody] \in [States -> Record]
  BY NobodyIs
<1>2. StoreTypes
  BY <1>1 DEF Init, Fresh, StoreTypes
<1>3. Held(entries) = {} /\ Held(pending) = {}
  BY NobodyIs DEF Init, Fresh, Held
<1>4. Small(entries) /\ Small(pending)
  BY <1>3, FS_EmptySet, LimitsAssumption DEF Small
<1>5. Entitled /\ Subjects
  BY NobodyIs, NamesAssumption DEF Init, Fresh, Entitled, AnswerOK, Subjects, None
<1>6. LimiterInv
  BY LimiterFresh DEF Init
<1> QED
  BY <1>2, <1>4, <1>5, <1>6, InvParts DEF StoreInv

-----------------------------------------------------------------------------
LEMMA SettingsStay == StoreInv /\ UNCHANGED config => Settings
BY DEF StoreInv, StoreTypes, Settings, config

(* A store that is pruned, or where the expired session of a cookie went.  *)
LEMMA PrunedStep ==
    ASSUME StoreInv, UNCHANGED config, Jars', AnswerOK', drawn' = drawn, calls' \subseteq calls,
           entries' \in {entries, Prune(entries)}, pending' \in {pending, Prune(pending)},
           right' = right
    PROVE  StoreInv'
<1>1. /\ entries \in [Tokens -> Record] /\ right \in [Tokens -> Record]
      /\ pending \in [States -> Record]
  BY DEF StoreInv, StoreTypes
<1>2. /\ Prune(entries) \in [Tokens -> Record]
      /\ \A k \in Tokens : Prune(entries)[k] = entries[k] \/ Prune(entries)[k] = Nobody
  BY <1>1, PruneIs
<1>3. /\ Prune(pending) \in [States -> Record]
      /\ \A k \in States : Prune(pending)[k] = pending[k] \/ Prune(pending)[k] = Nobody
  BY <1>1, PruneIs
<1> QED
  BY <1>1, <1>2, <1>3, SettingsStay, ThinStep

LEMMA JarsStay == StoreInv /\ UNCHANGED jars => Jars'
BY DEF StoreInv, StoreTypes, Jars, jars

LEMMA Unadmitted == answer' = Nobody => AnswerOK'
BY DEF AnswerOK

(* Nothing is asked of the store, or of anything it guards. *)
LEMMA StoreStays ==
    ASSUME StoreInv, UNCHANGED <<config, store, calls, right>>, Jars', AnswerOK'
    PROVE  StoreInv'
BY PrunedStep DEF store

LEMMA LoginKeeps ==
    ASSUME StoreInv, NEW b \in Browsers, NEW r \in Requests, handleLoginSubmit(b, r)
    PROVE  StoreInv'
<1>1. /\ AnswerOK' /\ UNCHANGED <<config, calls, pjar>>
  BY Unadmitted DEF handleLoginSubmit
<1>2. CASE UNCHANGED <<store, jar, right>>
  BY <1>1, <1>2, JarsStay, StoreStays DEF jars
<1>3. CASE entries' = Prune(entries) /\ UNCHANGED <<drawn, pending, jar, right>>
  BY <1>1, <1>3, JarsStay, PrunedStep DEF jars
<1>4. ASSUME NEW t \in Tokens \ drawn, CanCreate(Lifetime), drawn' = drawn \cup {t},
             entries' = revoke(Created(t, requestDevice(b), None, Lifetime), jar[b]),
             right' = [revoke(right, jar[b]) EXCEPT
                          ![t] = [left |-> Lifetime, device |-> requestDevice(b), subject |-> None]],
             jar' = [jar EXCEPT ![b] = t], pending' = pending
      PROVE  StoreInv'
  <2>1. Jars'
    BY <1>1, <1>4 DEF StoreInv, StoreTypes, Jars
  <2>2. None \notin States
    BY NamesAssumption DEF None
  <2>3. Lifetime <= Lifetime /\ Lifetime \in Deadlines
    BY Times, LimitsAssumption
  <2>4. Settings
    BY <1>1, SettingsStay
  <2> QED
    BY <1>1, <1>4, <2>1, <2>2, <2>3, <2>4, DeviceIs, SessionStep
<1> QED
  BY <1>2, <1>3, <1>4 DEF handleLoginSubmit

LEMMA BeginKeeps ==
    ASSUME StoreInv, NEW b \in Browsers, NEW r \in Requests, beginOIDC(b, r)
    PROVE  StoreInv'
<1>1. /\ answer' = Nobody /\ AnswerOK' /\ UNCHANGED <<config, entries, calls, jar, right>> /\ Settings
  BY Unadmitted, SettingsStay DEF beginOIDC
<1>2. CASE pending' = Prune(pending) /\ UNCHANGED <<drawn, pjar>>
  BY <1>1, <1>2, JarsStay, PrunedStep DEF jars
<1>3. ASSUME NEW s \in States \ drawn, Count(Prune(pending)) < MaxSessions,
             drawn' = drawn \cup {s},
             pending' = [Prune(pending) EXCEPT
                            ![s] = [left |-> Window, device |-> requestDevice(b), subject |-> None]],
             pjar' = [pjar EXCEPT ![b] = s]
      PROVE  StoreInv'
  <2>1. Jars'
    BY <1>1, <1>3 DEF StoreInv, StoreTypes, Jars
  <2> QED
    BY <1>1, <1>3, <2>1, DeviceIs, PendingStep
<1> QED
  BY <1>2, <1>3 DEF beginOIDC

LEMMA CallbackKeeps ==
    ASSUME StoreInv, NEW b \in Browsers, NEW s \in States, NEW r \in Requests, callback(b, s, r)
    PROVE  StoreInv'
<1> DEFINE call == [by |-> b, state |-> s, old |-> jar[b], left |-> 0, id |-> 0]
<1>1. /\ answer' = Nobody /\ AnswerOK' /\ UNCHANGED <<config, drawn, entries, jar, right>> /\ Settings
  BY Unadmitted, SettingsStay DEF callback
<1>2. call \in Call /\ call.state = s /\ call.id = 0
  BY Times DEF Call, StoreInv, StoreTypes
<1>3. /\ entries \in [Tokens -> Record] /\ right \in [Tokens -> Record]
      /\ pending \in [States -> Record]
      /\ [pending EXCEPT ![s] = Nobody] \in [States -> Record]
      /\ \A k \in States : [pending EXCEPT ![s] = Nobody][k] \in {pending[k], Nobody}
  BY NobodyIs DEF StoreInv, StoreTypes
<1>4. Jars'
  <2>1. pjar' = pjar \/ pjar' = [pjar EXCEPT ![b] = None]
    BY DEF callback
  <2> QED
    BY <1>1, <2>1 DEF StoreInv, StoreTypes, Jars
<1> HIDE DEF call
<1>5. CASE calls' = calls /\ pending' = pending
  BY <1>1, <1>4, <1>5, StoreStays DEF store
<1>6. CASE calls' = calls /\ pending' = [pending EXCEPT ![s] = Nobody]
  BY <1>1, <1>3, <1>4, <1>6, ThinStep
<1>7. CASE calls' = calls \cup {call} /\ pending' = [pending EXCEPT ![s] = Nobody]
           /\ pending[s].device = requestDevice(b)
  BY <1>1, <1>2, <1>4, <1>7, DeviceIs, CallbackStep
<1> QED
  BY <1>5, <1>6, <1>7 DEF callback, call

LEMMA VerifyKeeps ==
    ASSUME StoreInv, NEW c \in calls, NEW v \in Verdicts, verify(c, v)
    PROVE  StoreInv'
<1>1. /\ answer' = Nobody /\ AnswerOK' /\ UNCHANGED <<config, store, jars, right>>
  BY Unadmitted DEF verify
<1>2. v.id \in Deadlines /\ Expiry(v.id) \in Deadlines /\ Expiry(v.id) <= v.id
  <2>1. v.id \in 1 .. OIDCLifetime + 1
    BY VerdictsAssumption DEF VerdictType
  <2> QED
    BY <2>1, Times
<1>3. CASE Accepted(v)
  <2>1. calls' = (calls \ {c}) \cup {[c EXCEPT !.left = Expiry(v.id), !.id = v.id]}
    BY <1>3 DEF verify
  <2> QED
    BY <1>1, <1>2, <2>1, VerifyStep
<1>4. CASE ~Accepted(v)
  <2>1. calls' \subseteq calls
    BY <1>4 DEF verify
  <2> QED
    BY <1>1, <2>1, JarsStay, PrunedStep DEF store
<1> QED
  BY <1>3, <1>4

LEMMA FinishKeeps ==
    ASSUME StoreInv, NEW c \in calls, finish(c)
    PROVE  StoreInv'
<1>1. /\ AnswerOK' /\ calls' = calls \ {c} /\ UNCHANGED <<config, pending, pjar>> /\ Settings
  BY Unadmitted, SettingsStay DEF finish
<1>2. CASE entries' = Prune(entries) /\ UNCHANGED <<drawn, jar, right>>
  BY <1>1, <1>2, JarsStay, PrunedStep DEF jars
<1>3. ASSUME NEW t \in Tokens \ drawn, CanCreate(c.left), drawn' = drawn \cup {t},
             entries' = revoke(Created(t, requestDevice(c.by), c.state, c.left), c.old),
             right' = [revoke(right, c.old) EXCEPT
                          ![t] = [left |-> c.id, device |-> requestDevice(c.by), subject |-> c.state]],
             jar' = [jar EXCEPT ![c.by] = t]
      PROVE  StoreInv'
  <2>1. c \in Call
    BY DEF StoreInv, StoreTypes
  <2>2. /\ c.by \in Browsers /\ c.state \in States /\ c.left \in Deadlines /\ c.id \in Deadlines
    BY <2>1 DEF Call
  <2>3. c.left <= c.id
    BY DEF finish, Entitled, StoreInv
  <2>4. Jars'
    BY <1>1, <1>3, <2>2 DEF StoreInv, StoreTypes, Jars
  <2>5. /\ Gone(c.state) /\ \A d \in calls' : d.state # c.state
        /\ \A u \in Tokens : entries[u].subject # c.state
    BY <1>1, <2>2 DEF Subjects, StoreInv
  <2> QED
    BY <1>1, <1>3, <2>2, <2>3, <2>4, <2>5, DeviceIs, SessionStep
<1> QED
  BY <1>2, <1>3 DEF finish

(* What the cookie admits is what its session stands for. *)
LEMMA CookieKeeps ==
    ASSUME StoreInv, NEW b \in Browsers, NEW r \in Requests, Cookie(b, r),
           UNCHANGED <<config, calls, jars, right>>
    PROVE  StoreInv'
<1>1. /\ entries \in [Tokens -> Record] /\ right \in [Tokens -> Record]
      /\ pending \in [States -> Record]
  BY DEF StoreInv, StoreTypes
<1>2. /\ entries' \in [Tokens -> Record]
      /\ \A t \in Tokens : entries'[t] = entries[t] \/ entries'[t] = Nobody
  BY <1>1, RevokeIs DEF Cookie, LookedUp
<1>3. AnswerOK'
  <2>1. CASE answer' = Nobody
    BY <2>1, Unadmitted
  <2>2. CASE validSession(jar[b], b) /\ answer' = [left |-> 1, device |-> b, subject |-> jar[b]]
    <3>1. PICK t \in Tokens : t = jar[b]
      BY <2>2 DEF validSession, Live
    <3>2. entries[t].device = requestDevice(b) /\ entries[t].left > 0
      BY <2>2, <3>1 DEF validSession
    <3>3. right[t].device = requestDevice(b) /\ right[t].left >= entries[t].left
      BY <3>2, DeviceIs DEF Entitled, StoreInv
    <3>4. right[t].left \in Deadlines /\ entries[t].left \in Deadlines
      BY <1>1 DEF Record
    <3>5. right[t].left \in Nat /\ entries[t].left \in Nat
      BY <3>4, Times
    <3>6. right[t].left > 0
      BY <3>2, <3>3, <3>5
    <3>7. answer'.device = b /\ answer'.subject = t
      BY <2>2, <3>1
    <3>8. requestDevice(b)' = requestDevice(b)
      BY DEF requestDevice, config
    <3> QED
      BY <3>3, <3>6, <3>7, <3>8 DEF AnswerOK, requestDevice
  <2> QED
    BY <2>1, <2>2 DEF Cookie
<1> QED
  BY <1>1, <1>2, <1>3, SettingsStay, JarsStay, ThinStep DEF Cookie

LEMMA LogoutKeeps ==
    ASSUME StoreInv, NEW b \in Browsers, NEW r \in Requests, handleLogout(b, r)
    PROVE  StoreInv'
<1>1. /\ entries \in [Tokens -> Record] /\ right \in [Tokens -> Record]
      /\ pending \in [States -> Record]
  BY DEF StoreInv, StoreTypes
<1>2. /\ entries' = revoke(entries, jar[b]) /\ right' = revoke(right, jar[b])
      /\ jar' = [jar EXCEPT ![b] = None] /\ AnswerOK'
      /\ UNCHANGED <<config, drawn, pending, calls, pjar>>
  BY Unadmitted DEF handleLogout
<1>3. /\ entries' \in [Tokens -> Record] /\ right' \in [Tokens -> Record]
      /\ \A t \in Tokens : entries'[t] = IF t = jar[b] THEN Nobody ELSE entries[t]
      /\ \A t \in Tokens : right'[t] = IF t = jar[b] THEN Nobody ELSE right[t]
  BY <1>1, <1>2, RevokeIs
<1>4. Jars'
  BY <1>2 DEF StoreInv, StoreTypes, Jars
<1> QED
  BY <1>1, <1>2, <1>3, <1>4, SettingsStay, ThinStep

LEMMA RestartKeeps ==
    ASSUME StoreInv, Restart
    PROVE  StoreInv'
<1>1. /\ [t \in Tokens |-> Nobody] \in [Tokens -> Record]
      /\ [s \in States |-> Nobody] \in [States -> Record]
  BY NobodyIs
<1>2. /\ entries' = [t \in Tokens |-> Nobody] /\ pending' = [s \in States |-> Nobody]
      /\ right' = [t \in Tokens |-> Nobody] /\ calls' = {} /\ AnswerOK'
      /\ UNCHANGED <<config, drawn, jars>>
  BY Unadmitted DEF Restart
<1>3. /\ entries' \in [Tokens -> Record] /\ right' \in [Tokens -> Record]
      /\ pending' \in [States -> Record]
  BY <1>1, <1>2, Zenon
<1> QED
  BY <1>2, <1>3, SettingsStay, JarsStay, ThinStep

LEMMA CopyKeeps ==
    ASSUME StoreInv, NEW b \in Browsers, NEW c \in Browsers, CopyProfile(b, c)
    PROVE  StoreInv'
<1>1. /\ jar' = [jar EXCEPT ![c] = jar[b]] /\ pjar' = [pjar EXCEPT ![c] = pjar[b]]
      /\ AnswerOK' /\ UNCHANGED <<config, store, calls, right>>
  BY Unadmitted DEF CopyProfile
<1>2. Jars'
  BY <1>1 DEF StoreInv, StoreTypes, Jars
<1> QED
  BY <1>1, <1>2, StoreStays

(* A request that is let through by a bearer token asks nothing of the store. *)
LEMMA GuardsKeep ==
    ASSUME StoreInv, NEW b \in Browsers, NEW r \in Requests,
           requireAuth(b, r) \/ requirePageAuth(b, r) \/ requireMetricsAuth(b, r)
    PROVE  StoreInv'
<1>1. UNCHANGED <<config, calls, jars, right>>
  BY DEF requireAuth, requirePageAuth, requireMetricsAuth
<1>2. Cookie(b, r) \/ (answer' = Nobody /\ UNCHANGED store)
  BY DEF requireAuth, requirePageAuth, requireMetricsAuth
<1> QED
  BY <1>1, <1>2, CookieKeeps, StoreStays, JarsStay, Unadmitted

LEMMA StoreStep == StoreInv /\ [Next]_vars => StoreInv'
<1> SUFFICES ASSUME StoreInv, [Next]_vars PROVE StoreInv'
  OBVIOUS
<1>1. CASE UNCHANGED vars
  <2>1. AnswerOK'
    BY <1>1 DEF vars, config, AnswerOK, StoreInv, Entitled, requestDevice
  <2> QED
    BY <1>1, <2>1, JarsStay, StoreStays DEF vars
<1>2. ASSUME NEW b \in Browsers, TooMany(b) PROVE StoreInv'
  BY <1>2, JarsStay, Unadmitted, StoreStays DEF TooMany
<1>3. ASSUME NEW b \in Browsers, NEW r \in Requests,
             \/ handleLoginSubmit(b, r) \/ beginOIDC(b, r) \/ handleLogout(b, r)
             \/ requireAuth(b, r) \/ requirePageAuth(b, r) \/ requireMetricsAuth(b, r)
             \/ \E s \in States : callback(b, s, r)
      PROVE  StoreInv'
  BY <1>3, LoginKeeps, BeginKeeps, LogoutKeeps, GuardsKeep, CallbackKeeps
<1>4. ASSUME NEW c \in calls, finish(c) \/ \E v \in Verdicts : verify(c, v) PROVE StoreInv'
  BY <1>4, FinishKeeps, VerifyKeeps
<1>5. CASE Restart
  BY <1>5, RestartKeeps
<1>6. CASE Tick
  BY <1>6, TickStep
<1>7. ASSUME NEW b \in Browsers, NEW c \in Browsers, CopyProfile(b, c) PROVE StoreInv'
  BY <1>7, CopyKeeps
<1> QED
  BY <1>1, <1>2, <1>3, <1>4, <1>5, <1>6, <1>7 DEF Next

LEMMA AccessAlways == Spec => []AccessInv
<1>1. AccessInv /\ [Next]_vars => AccessInv'
  BY InvParts, InvPartsPrime, StoreStep, LimiterStep
<1> QED
  BY <1>1, AccessInit, PTL DEF Spec

-----------------------------------------------------------------------------
(* Who is admitted by a cookie is on the device that signed in, and the    *)
(* sign-in still stands (validSession, requireAuth, requirePageAuth).      *)
THEOREM AdmittedAreEntitled == Spec => []AdmittedMeansEntitled
<1>1. AccessInv => AdmittedMeansEntitled
  BY DEF AccessInv, Entitled, AnswerOK, AdmittedMeansEntitled
<1> QED
  BY <1>1, AccessAlways, PTL

(* One sign-in makes one session, however often its callback is repeated   *)
(* while the provider is asked (completeOIDC takes the state first).       *)
THEOREM SignInsMakeOneSession == Spec => []OneSessionPerSignIn
<1>1. ASSUME AccessInv PROVE OneSessionPerSignIn
  <2>1. /\ \A t \in Live : t \in Tokens /\ entries[t].subject \in States \cup {None}
        /\ \A c \in calls : c.state \in States
        /\ None \notin States
    BY <1>1, Types, NamesAssumption DEF AccessInv, Live, Call, Record, None
  <2>2. ASSUME NEW t \in Tokens, NEW u \in Tokens,
               t # u, entries[t].subject = entries[u].subject
        PROVE  entries[t].subject \notin States
    BY <1>1, <2>2 DEF AccessInv, Subjects
  <2>3. ASSUME NEW c \in calls, NEW t \in Tokens
        PROVE  entries[t].subject # c.state
    BY <1>1, <2>1 DEF AccessInv, Subjects
  <2>4. \A c, d \in calls : c.state = d.state => c = d
    BY <1>1 DEF AccessInv, Subjects
  <2> QED
    BY <2>1, <2>2, <2>3, <2>4 DEF OneSessionPerSignIn
<1> QED
  BY <1>1, AccessAlways, PTL

(* The stores and the table of addresses keep to their limits, and a       *)
(* forgotten address has not gained an attempt (prune, getLimiter).        *)
THEOREM LimitsAlwaysHold == Spec => []LimitsHold
<1>1. ASSUME AccessInv PROVE LimitsHold
  <2>1. Live = Held(entries) /\ Waiting = Held(pending)
    BY <1>1, Types DEF AccessInv, Live, Waiting, Held
  <2> QED
    BY <1>1, <2>1 DEF AccessInv, Sized, Small, Refilled, LimitsHold
<1> QED
  BY <1>1, AccessAlways, PTL

-----------------------------------------------------------------------------
(***************************************************************************)
(* The page that the dashboard runs in a browser, for any projects, any    *)
(* further addresses and any number of requests in flight.                 *)
(*                                                                         *)
(* An open tab, and a request whose answer will be shown in one, belong to *)
(* the body that was drawn last (Tabs): navigating and every answer that   *)
(* draws a body cut them off, and only the user changes the address        *)
(* without it, which leaves a hashchange event behind.  The list of the    *)
(* backups after a new one belongs to no project (see TabsFollowAddress).  *)
(***************************************************************************)
Sent == [kind : Kinds, page : Pages \cup {Nowhere}, here : BOOLEAN]

ForProject == Loaders \cup {"backup"}

Tabs ==
    /\ \A q \in requests : q.kind \in ForProject => q.page \in Projects
    /\ ~moved => \A q \in requests : q.here /\ q.kind = "tab" => q.page = hash
    /\ \A q \in requests : q.here /\ q.kind = "logs" => q.page = body

PageInv == OneTimer /\ Tabs /\ TabsFollowAddress

(* Requests that no longer have a place in the body. *)
CutOff(S) == \A q \in S : ~q.here
Cut(S) == {[q EXCEPT !.here = FALSE] : q \in S}

-----------------------------------------------------------------------------
LEMMA RequestIs ==
    ASSUME NEW kind \in Kinds, NEW page \in Pages \cup {Nowhere}
    PROVE  /\ Request(kind, page) \in Sent
           /\ Request(kind, page).kind = kind /\ Request(kind, page).page = page
           /\ Request(kind, page).here => kind \in Loaders
BY DEF Request, Sent

LEMMA NoPaneIs ==
    /\ NoPane \in [of : Projects \cup {Nowhere}, by : Loaders \cup {Nowhere}]
    /\ NoPane.by \notin {"tab", "logs"}
BY DEF NoPane, Loaders, Nowhere

LEMMA CutIs ==
    ASSUME NEW S, S \subseteq Sent
    PROVE  /\ Cut(S) \subseteq Sent /\ CutOff(Cut(S))
           /\ \A q \in Cut(S) : \E o \in S : q.kind = o.kind /\ q.page = o.page
<1>1. ASSUME NEW q \in S
      PROVE  /\ [q EXCEPT !.here = FALSE] \in Sent /\ [q EXCEPT !.here = FALSE].here = FALSE
             /\ [q EXCEPT !.here = FALSE].kind = q.kind /\ [q EXCEPT !.here = FALSE].page = q.page
  BY DEF Sent
<1> QED
  BY <1>1 DEF CutOff, Cut

(* A new body: no tab is open, and none of the answers under way opens one. *)
LEMMA BodyIs ==
    ASSUME PageInv, NEW page \in Pages, NEW content \in BOOLEAN,
           NEW others, others \subseteq requests,
           setBody(page, content, others)
    PROVE  /\ requests' \subseteq Sent /\ CutOff(requests')
           /\ \A q \in requests' : q.kind \in ForProject => q.page \in Projects
           /\ body' \in Pages \cup {Nowhere} /\ filled' \in BOOLEAN /\ pane' = NoPane
<1> DEFINE cut == Cut(others)
<1>1. others \subseteq Sent
  BY DEF PageInv, OneTimer, PageTypeOK, Sent
<1>2. /\ cut \subseteq Sent /\ CutOff(cut)
      /\ \A q \in cut : \E o \in others : q.kind = o.kind /\ q.page = o.page
  BY <1>1, CutIs
<1>3. requests' \subseteq cut \cup {Request("load", page)}
  BY DEF setBody, Cut
<1>4. \A q \in cut : q.kind \in ForProject => q.page \in Projects
  BY <1>2 DEF PageInv, Tabs
<1>5. /\ Request("load", page) \in Sent /\ Request("load", page).kind = "load"
      /\ ~Request("load", page).here /\ "load" \notin ForProject
  BY RequestIs DEF Kinds, Drawn, Loaders, ForProject
<1> HIDE DEF cut
<1>6. body' = page /\ filled' = content /\ pane' = NoPane
  BY DEF setBody
<1> QED
  BY <1>2, <1>3, <1>4, <1>5, <1>6 DEF CutOff

(* navigate puts everything in line with the address of this moment. *)
LEMMA NavigateKeeps ==
    ASSUME PageInv,
           NEW others, others \subseteq requests, navigate(others), UNCHANGED hash,
           moved' \in BOOLEAN, soon' \in BOOLEAN, panel' \in BOOLEAN,
           modal' \in {Nowhere, "delete", "restore", "volume"}
    PROVE  PageInv'
<1>1. hash \in Pages /\ Nowhere \notin Pages
  BY PagesAssumption DEF PageInv, OneTimer, PageTypeOK
<1>2. setBody(hash, IsStatic(hash), others) /\ IsStatic(hash) \in BOOLEAN
  BY DEF navigate, IsStatic
<1>3. /\ requests' \subseteq Sent /\ CutOff(requests')
      /\ \A q \in requests' : q.kind \in ForProject => q.page \in Projects
      /\ body' \in Pages \cup {Nowhere} /\ filled' \in BOOLEAN /\ pane' = NoPane
  BY <1>1, <1>2, BodyIs
<1>4. /\ timers' = IF Repeats(hash) THEN {hash} ELSE {}
      /\ timer' = IF Repeats(hash) THEN hash ELSE Nowhere
  BY DEF navigate, PageInv, OneTimer
<1>5. PageTypeOK'
  BY <1>1, <1>3, <1>4, NoPaneIs DEF PageTypeOK, Sent
<1>6. OneTimer'
  BY <1>1, <1>4, <1>5 DEF OneTimer
<1>7. Tabs' /\ TabsFollowAddress'
  BY <1>3, NoPaneIs DEF Tabs, TabsFollowAddress, CutOff
<1> QED
  BY <1>6, <1>7 DEF PageInv

(* An answer, or the loss of one, that draws nothing. *)
LEMMA DropKeeps ==
    ASSUME PageInv, NEW q \in requests, Drop(q), UNCHANGED <<timers, timer>>,
           hash' \in Pages, moved' \in BOOLEAN, soon' \in BOOLEAN, panel' \in BOOLEAN,
           modal' \in {Nowhere, "delete", "restore", "volume"},
           ~moved' => ~moved /\ hash' = hash
    PROVE  PageInv'
<1>1. requests' \subseteq requests /\ UNCHANGED <<body, filled, pane>>
  BY DEF Drop, Rest
<1>2. PageTypeOK'
  BY <1>1 DEF PageInv, OneTimer, PageTypeOK
<1>3. OneTimer'
  BY <1>2 DEF PageInv, OneTimer
<1>4. Tabs'
  <2>1. \A o \in requests' : o.kind \in ForProject => o.page \in Projects
    BY <1>1 DEF PageInv, Tabs
  <2>2. ASSUME ~moved' PROVE \A o \in requests' : o.here /\ o.kind = "tab" => o.page = hash'
    BY <1>1, <2>2 DEF PageInv, Tabs
  <2>3. \A o \in requests' : o.here /\ o.kind = "logs" => o.page = body'
    BY <1>1 DEF PageInv, Tabs
  <2> QED
    BY <2>1, <2>2, <2>3 DEF Tabs
<1>5. TabsFollowAddress'
  BY <1>1 DEF PageInv, TabsFollowAddress
<1> QED
  BY <1>3, <1>4, <1>5 DEF PageInv

(* An answer that is drawn, wherever the user is: tabs go with the body. *)
LEMMA DrawKeeps ==
    ASSUME PageInv, NEW q \in requests, Draw(q),
           UNCHANGED <<hash, moved, soon, timers, timer, modal, panel>>
    PROVE  PageInv'
<1>1. requests \subseteq Sent /\ q.page \in Pages \cup {Nowhere}
  BY DEF PageInv, OneTimer, PageTypeOK, Sent
<1>2. /\ requests' \subseteq Sent /\ CutOff(requests')
      /\ \A o \in requests' : \E p \in Rest(q) : o.kind = p.kind /\ o.page = p.page
  <2>1. Rest(q) \subseteq Sent
    BY <1>1 DEF Rest
  <2>2. requests' = Cut(Rest(q))
    BY DEF Draw, Cut
  <2>3. PICK S : S = Rest(q)
    OBVIOUS
  <2>4. /\ Cut(S) \subseteq Sent /\ CutOff(Cut(S))
        /\ \A o \in Cut(S) : \E p \in S : o.kind = p.kind /\ o.page = p.page
    BY <2>1, <2>3, CutIs
  <2>5. requests' = Cut(S)
    BY <2>2, <2>3
  <2> QED
    BY <2>3, <2>4, <2>5 DEF CutOff
<1>3. body' \in Pages \cup {Nowhere} /\ filled' \in BOOLEAN /\ pane' = NoPane
  BY <1>1 DEF Draw
<1>4. OneTimer'
  BY <1>2, <1>3, NoPaneIs DEF PageInv, OneTimer, PageTypeOK, Sent
<1>5. Tabs' /\ TabsFollowAddress'
  BY <1>2, <1>3, NoPaneIs DEF PageInv, Tabs, TabsFollowAddress, CutOff, Rest
<1> QED
  BY <1>4, <1>5 DEF PageInv

LEMMA SendKeeps ==
    ASSUME PageInv, NEW kind \in Kinds, NEW page \in Pages \cup {Nowhere},
           requests' \subseteq requests \cup {Request(kind, page)},
           kind = "tab" => page = hash, kind = "logs" => page = body,
           kind \in ForProject => page \in Projects,
           UNCHANGED <<hash, moved, soon, timers, timer, body, filled, modal, panel>>,
           pane' \in {pane, NoPane}
    PROVE  PageInv'
<1>1. /\ Request(kind, page) \in Sent
      /\ Request(kind, page).kind = kind /\ Request(kind, page).page = page
  BY RequestIs
<1>2. requests' \subseteq Sent
  BY <1>1 DEF PageInv, OneTimer, PageTypeOK, Sent
<1>3. OneTimer'
  BY <1>2, NoPaneIs DEF PageInv, OneTimer, PageTypeOK, Sent
<1>4. Tabs' /\ TabsFollowAddress'
  BY <1>1, NoPaneIs DEF PageInv, Tabs, TabsFollowAddress, Loaders
<1> QED
  BY <1>3, <1>4 DEF PageInv

LEMMA UserKeeps ==
    ASSUME PageInv, User
    PROVE  PageInv'
<1>1. ASSUME NEW r \in Pages, Visit(r) PROVE PageInv'
  BY <1>1 DEF Visit, PageInv, OneTimer, PageTypeOK, Tabs, TabsFollowAddress
<1>2. CASE switchTab
  <2>1. hash \in Pages /\ hash \in Projects /\ "tab" \in Kinds
    BY <1>2 DEF switchTab, Pages, Kinds, Loaders
  <2> QED
    BY <1>2, <2>1, SendKeeps DEF switchTab, Send
<1>7. CASE refreshLogs
  <2>1. body \in Pages /\ body \in Projects /\ "logs" \in Kinds
    BY <1>7 DEF refreshLogs, ProjectDrawn, Pages, Kinds, Loaders
  <2> QED
    BY <1>7, <2>1, SendKeeps DEF refreshLogs, Send
<1>8. CASE createBackup
  <2>1. body \in Pages /\ body \in Projects /\ "backup" \in Kinds
    BY <1>8 DEF createBackup, ProjectDrawn, Pages, Kinds
  <2> QED
    BY <1>8, <2>1, SendKeeps DEF createBackup, Send
<1>3. CASE projectAction
  BY <1>3, SendKeeps DEF projectAction, Send, Kinds, ForProject, Loaders
<1>4. CASE submitProject
  BY <1>4, SendKeeps DEF submitProject, Send, Kinds, ForProject, Loaders
<1>5. CASE confirm
  <2>1. modal \in Kinds /\ modal \notin ForProject /\ modal \notin {"tab", "logs"}
    BY <1>5 DEF confirm, PageInv, OneTimer, PageTypeOK, Kinds, Nowhere, ForProject, Loaders
  <2> QED
    BY <1>5, <2>1, SendKeeps DEF confirm, Send
<1>6. CASE \/ openCreateProject \/ closePanel \/ cancel
           \/ deleteProject \/ restoreBackup \/ deleteVolume
  <2>1. /\ UNCHANGED <<hash, moved, soon, timers, timer, body, filled, pane, requests>>
        /\ panel' \in BOOLEAN /\ modal' \in {Nowhere, "delete", "restore", "volume"}
    BY <1>6 DEF openCreateProject, closePanel, cancel, deleteProject,
                restoreBackup, deleteVolume, openModal, PageInv, OneTimer, PageTypeOK
  <2> QED
    BY <2>1 DEF PageInv, OneTimer, PageTypeOK, Tabs, TabsFollowAddress
<1> QED
  BY <1>1, <1>2, <1>3, <1>4, <1>5, <1>6, <1>7, <1>8 DEF User

LEMMA AnswersKeep ==
    ASSUME PageInv, NEW q \in requests,
           Content(q) \/ Failure(q) \/ Pane(q) \/ Refused(q)
    PROVE  PageInv'
<1>1. PageTypeOK /\ q.page \in Pages \cup {Nowhere}
  BY DEF PageInv, OneTimer, PageTypeOK
<1>2. CASE Content(q)
  BY <1>1, <1>2, DropKeeps, DrawKeeps DEF Content, PageTypeOK
<1>3. CASE Failure(q)
  <2>1. CASE /\ requests' = Rest(q) \cup {Request("fallback", q.page)}
             /\ UNCHANGED <<body, filled, pane>>
    <3>1. requests' \subseteq requests \cup {Request("fallback", q.page)} /\ "fallback" \in Kinds
          /\ "fallback" \notin ForProject
      BY <2>1 DEF Rest, Kinds, Drawn, ForProject, Loaders
    <3> QED
      BY <1>1, <1>3, <2>1, <3>1, SendKeeps DEF Failure
  <2>2. CASE Drop(q) \/ Draw(q)
    BY <1>1, <1>3, <2>2, DropKeeps, DrawKeeps DEF Failure, PageTypeOK
  <2> QED
    BY <1>3, <2>1, <2>2 DEF Failure
<1>4. CASE Pane(q)
  <2>1. /\ requests' \subseteq requests
        /\ pane' = (IF q.here THEN [of |-> q.page, by |-> q.kind] ELSE pane)
        /\ q.page \in Projects /\ q.kind \in Loaders
        /\ UNCHANGED <<hash, moved, soon, timers, timer, body, filled, modal, panel>>
    BY <1>4 DEF Pane, Rest, PageInv, Tabs, ForProject
  <2>2. OneTimer'
    BY <2>1 DEF PageInv, OneTimer, PageTypeOK
  <2>3. Tabs'
    BY <2>1 DEF PageInv, Tabs
  <2>4. TabsFollowAddress'
    BY <2>1 DEF PageInv, Tabs, TabsFollowAddress
  <2> QED
    BY <2>2, <2>3, <2>4 DEF PageInv
<1>5. CASE Refused(q)
  <2>1. modal' \in {Nowhere, "delete", "restore", "volume"}
    BY <1>1, <1>5 DEF Refused, PageTypeOK
  <2> QED
    BY <1>1, <1>5, <2>1, DropKeeps DEF Refused, PageTypeOK
<1> QED
  BY <1>2, <1>3, <1>4, <1>5

LEMMA DoneKeeps ==
    ASSUME PageInv, NEW q \in requests, Done(q)
    PROVE  PageInv'
<1>1. PageTypeOK /\ "projects" \in Pages /\ "volumes" \in Pages
  BY PagesAssumption DEF PageInv, OneTimer, Pages
<1>2. CASE Drop(q) /\ UNCHANGED <<timers, timer>> /\ q.kind \in {"action", "restore", "delete"}
  <2>1. /\ hash' \in Pages /\ moved' \in BOOLEAN /\ soon' \in BOOLEAN /\ panel' \in BOOLEAN
        /\ modal' \in {Nowhere, "delete", "restore", "volume"}
        /\ ~moved' => ~moved /\ hash' = hash
    BY <1>1, <1>2 DEF Done, PageTypeOK
  <2> QED
    BY <1>2, <2>1, DropKeeps
<1>3. CASE navigate(Rest(q)) /\ panel' = FALSE /\ UNCHANGED <<hash, moved, soon, modal>>
  BY <1>1, <1>3, NavigateKeeps DEF Rest, PageTypeOK
<1>4. CASE /\ modal' = Nowhere /\ setBody("volumes", FALSE, Rest(q))
           /\ UNCHANGED <<hash, moved, soon, panel, timers, timer>>
  <2>1. /\ requests' \subseteq Sent /\ CutOff(requests')
        /\ \A o \in requests' : o.kind \in ForProject => o.page \in Projects
        /\ body' \in Pages \cup {Nowhere} /\ filled' \in BOOLEAN /\ pane' = NoPane
    BY <1>1, <1>4, BodyIs DEF Rest
  <2> QED
    BY <1>4, <2>1, NoPaneIs DEF PageInv, OneTimer, PageTypeOK, Sent, Tabs, TabsFollowAddress, CutOff
<1>5. CASE /\ q.kind = "backup" /\ requests' = Rest(q) \cup {Request("backups", q.page)}
           /\ UNCHANGED <<hash, moved, soon, timers, timer, body, filled, pane, modal, panel>>
  <2>1. /\ q.page \in Projects /\ q.page \in Pages /\ "backups" \in Kinds
        /\ requests' \subseteq requests \cup {Request("backups", q.page)}
    BY <1>5 DEF PageInv, Tabs, ForProject, Pages, Kinds, Loaders, Rest
  <2> QED
    BY <1>5, <2>1, SendKeeps
<1> QED
  BY <1>2, <1>3, <1>4, <1>5 DEF Done

LEMMA PageStep == PageInv /\ [PageNext]_pageVars => PageInv'
<1> SUFFICES ASSUME PageInv, [PageNext]_pageVars PROVE PageInv'
  OBVIOUS
<1>1. CASE UNCHANGED pageVars
  BY <1>1 DEF pageVars, PageInv, OneTimer, PageTypeOK, Tabs, TabsFollowAddress
<1>2. CASE User
  BY <1>2, UserKeeps
<1>3. CASE HashChange \/ Timeout
  BY <1>3, NavigateKeeps DEF HashChange, Timeout, PageInv, OneTimer, PageTypeOK
<1>4. ASSUME NEW r \in timers, Interval(r) PROVE PageInv'
  <2>1. r \in Pages /\ "refresh" \in Kinds /\ "refresh" \notin ForProject
    BY <1>4 DEF PageInv, OneTimer, PageTypeOK, Kinds, Drawn, ForProject, Loaders
  <2> QED
    BY <1>4, <2>1, SendKeeps DEF Interval, Send
<1>5. ASSUME NEW q \in requests, Answer(q) \/ Failure(q) \/ Refused(q) PROVE PageInv'
  BY <1>5, AnswersKeep, DoneKeeps DEF Answer
<1> QED
  BY <1>1, <1>2, <1>3, <1>4, <1>5 DEF PageNext

LEMMA PageAlways == PageSpec => []PageInv
<1>1. PageInit => PageInv
  BY NoPaneIs DEF PageInit, PageInv, OneTimer, PageTypeOK, Tabs, TabsFollowAddress
<1> QED
  BY <1>1, PageStep, PTL DEF PageSpec

-----------------------------------------------------------------------------
(* Intervals never pile up, and the one that is armed is that of the       *)
(* address once its event is handled (navigate clears state.refreshTimer). *)
THEOREM IntervalsNeverPileUp == PageSpec => []OneTimer
<1>1. PageInv => OneTimer
  BY DEF PageInv
<1> QED
  BY <1>1, PageAlways, PTL

(* A tab never shows another project than the address names, and refreshed *)
(* logs never another than is drawn, however late the answer comes         *)
(* (__loadLogs and its kin keep the element of the time of the request).   *)
THEOREM TabsShowTheirProject == PageSpec => []TabsFollowAddress
<1>1. PageInv => TabsFollowAddress
  BY DEF PageInv
<1> QED
  BY <1>1, PageAlways, PTL
=============================================================================
