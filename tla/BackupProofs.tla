---------------------------- MODULE BackupProofs ----------------------------
(***************************************************************************)
(* Proofs about the two components that keep backups, BackupStore and      *)
(* Restoration, for any commands, bounds, limits and number of failures.   *)
(*                                                                         *)
(* BackupStore: StoreInv says of every command what its place tells of the *)
(* row and the directory it works on.  What retention has read of the      *)
(* table is in PassInv, and holds only of a command that nothing overlaps. *)
(*                                                                         *)
(* Restoration: InShape says that what is left of a command is the rest of *)
(* one of the plans: which step can follow which, done or failed.  Each    *)
(* theorem adds what is true at a step: ExportFirst, BindKnown, Apartness  *)
(* and DeployKnows, HasMutex and RestoresInOrder.                          *)
(***************************************************************************)
EXTENDS BackupStore, Restoration, FiniteSetTheorems, TLAPS

-----------------------------------------------------------------------------
(* A backup gets its created_at with its row, and no two get the same.     *)
NewStep == {"write", "insert"}
Stamped ==
    /\ \A b \in Backups : created[b] <= clock /\ (b > made => created[b] = 0)
    /\ \A b, c \in Backups : created[b] = created[c] /\ created[b] > 0 => b = c
    /\ \A b \in rows : created[b] > 0
    /\ \A p \in Procs : \A b \in todo[p] : created[b] > 0

(* What a command does, by where it is.  Each creates a backup of its own. *)
AtWork ==
    \A p \in Procs :
       /\ pc[p] \in NewStep => id[p] \in 1 .. made /\ created[id[p]] = 0
       /\ pc[p] = "deleteRecord" => id[p] \in Backups /\ created[id[p]] > 0
       /\ pc[p] \notin {"check", "delete", "unlink"} => todo[p] = {}
       /\ pc[p] = "oldest" => loop[p] \in Types
       /\ pc[p] = "check" => loop[p] = "age"
       /\ pc[p] = "unlink" => Oldest(todo[p]) \cap rows = {}
OwnBackups ==
    \A p, q \in Procs : p # q /\ pc[p] \in NewStep /\ pc[q] \in NewStep => id[p] # id[q]

(* The directory is complete before the row, and stays while it has one.   *)
DataFirst == RowsHaveData /\ \A p \in Procs : pc[p] = "insert" => id[p] \in whole

(* As long as nothing failed, a directory without a row is about to get    *)
(* one or about to be removed.                                             *)
Awaits(p, b) == (pc[p] = "insert" /\ id[p] = b) \/ (pc[p] = "unlink" /\ b \in Oldest(todo[p]))
NoneLeft ==
    failures = 0 =>
       /\ \A b \in whole \ rows : \E p \in Procs : Awaits(p, b)
       /\ \A b \in partial : \E p \in Procs : pc[p] = "write" /\ id[p] = b
       /\ \A p \in Procs : pc[p] = "deleteRecord" => id[p] \notin whole

StoreInv == StoreTypeOK /\ Stamped /\ AtWork /\ OwnBackups /\ DataFirst /\ NoneLeft

(* What retention knows of the table while no other command is at work.    *)
Undisturbed(p) == pc[p] # "idle" /\ p \notin overlapped
LeftToIt == \A p \in Procs : Undisturbed(p) => \A q \in Procs \ {p} : pc[q] = "idle"
Surplus(t, n) == Limit(t) > 0 /\ Count(t) >= Limit(t) + n
PassKnows(p) ==
    /\ pc[p] = "oldest" => excess[p] > 0 /\ Surplus(loop[p], excess[p])
    /\ pc[p] \in {"delete", "unlink"} /\ loop[p] \in Types =>
          /\ \A b \in todo[p] : kind[b] = loop[p]
          /\ Surplus(loop[p], Cardinality(todo[p]) - (IF pc[p] = "unlink" THEN 1 ELSE 0))
    /\ loop[p] = "age" => todo[p] \subseteq aged
    /\ pc[p] = "delete" /\ loop[p] = "age" => \A b \in Oldest(todo[p]) : Count(kind[b]) > 1
PassInv == LeftToIt /\ \A p \in Procs : Undisturbed(p) => PassKnows(p)

-----------------------------------------------------------------------------
(* Counting rows.                                                          *)

LEMMA RowsAreFinite ==
    ASSUME NEW set \in SUBSET Backups
    PROVE  IsFiniteSet(set) /\ Cardinality(set) \in 0 .. MaxBackups
<1>1. IsFiniteSet(Backups) /\ Cardinality(Backups) = MaxBackups
  BY StoreAssumption, FS_Interval DEF Backups
<1>2. IsFiniteSet(set) /\ Cardinality(set) <= MaxBackups
  BY <1>1, FS_Subset
<1> QED
  BY <1>2, FS_CardinalityType, StoreAssumption

LEMMA CountIs ==
    ASSUME rows \subseteq Backups, NEW t
    PROVE  /\ OfType(t) \in SUBSET Backups /\ IsFiniteSet(OfType(t))
           /\ Count(t) \in 0 .. MaxBackups
BY RowsAreFinite DEF OfType, Count

(* Of the backups that fewer than n are older than, there are at most n.   *)
LEMMA OldestAreFew ==
    ASSUME NEW set \in SUBSET Backups, created \in [Backups -> Nat], NEW n \in Nat,
           \A b, c \in set : created[b] = created[c] => b = c
    PROVE  Cardinality({b \in set : Cardinality({c \in set : created[c] < created[b]}) < n}) <= n
<1> DEFINE Older(b) == {c \in set : created[c] < created[b]}
           Newer(b) == {c \in set : created[c] > created[b]}
           Few == {b \in set : Cardinality(Older(b)) < n}
<1> SUFFICES Cardinality(Few) <= n
  OBVIOUS
<1>1. Few \subseteq set /\ \A b \in Few : Cardinality(Older(b)) < n
  OBVIOUS
<1>2. \A b \in set : created[b] \in Nat /\ Older(b) \in SUBSET Backups /\ Newer(b) \in SUBSET Backups
  OBVIOUS
<1>3. \A b, c \in set : created[b] < created[c] \/ b = c => c \notin Older(b) /\ b \notin Newer(c)
  BY <1>2
<1>4. \A b, c \in set : created[b] < created[c] =>
        b \in Older(c) /\ c \in Newer(b) /\ Newer(c) \subseteq Newer(b)
  BY <1>2
<1> HIDE DEF Older, Newer, Few
<1>5. IsFiniteSet(Few) /\ Cardinality(Few) \in Nat
  BY <1>1, RowsAreFinite, FS_CardinalityType
<1>6. CASE Few = {}
  BY <1>6, FS_EmptySet
<1>7. CASE Few # {}
  <2> DEFINE T == {Newer(b) : b \in Few}
             R == StrictSubsetOrdering(Backups)
  <2>1. T \subseteq FiniteSubsetsOf(Backups)
    BY <1>1, <1>2, RowsAreFinite DEF FiniteSubsetsOf
  <2>2. T # {}
    BY <1>7
  <2>3. \E x \in T : \A y \in T : ~ (<<y, x>> \in R)
    <3> HIDE DEF T, R
    <3>1. IsWellFoundedOn(R, FiniteSubsetsOf(Backups))
      BY FS_StrictSubsetOrderingWellFounded DEF R
    <3> QED
      BY <2>1, <2>2, <3>1, WFMin
  <2>4. PICK x \in T : \A y \in T : ~ (<<y, x>> \in R)
    BY <2>3
  <2>5. PICK m \in Few : x = Newer(m)
    OBVIOUS
  <2>6. \A b \in Few : <<Newer(b), Newer(m)>> \notin R
    BY <2>4, <2>5
  <2>7. ASSUME NEW b \in Few, created[b] > created[m] PROVE FALSE
    <3>1. b \in set /\ m \in set /\ created[b] \in Nat /\ created[m] \in Nat
      BY <1>1, <1>2
    <3>2. Newer(b) \subseteq Newer(m) /\ b \in Newer(m) /\ b \notin Newer(b)
      BY <1>3, <1>4, <2>7, <3>1
    <3>3. <<Newer(b), Newer(m)>> \in R
      BY <1>2, <3>1, <3>2 DEF StrictSubsetOrdering
    <3> QED
      BY <2>6, <3>3
  <2>8. Few \subseteq Older(m) \cup {m}
    <3> SUFFICES ASSUME NEW b \in Few, b # m PROVE b \in Older(m)
      OBVIOUS
    <3>1. b \in set /\ m \in set /\ created[b] \in Nat /\ created[m] \in Nat /\ created[b] # created[m]
      BY <1>1, <1>2
    <3>2. created[b] < created[m]
      BY <2>7, <3>1
    <3> QED
      BY <1>4, <3>1, <3>2
  <2>9. IsFiniteSet(Older(m)) /\ Cardinality(Older(m)) \in Nat /\ Cardinality(Older(m)) < n
    BY <1>1, <1>2, RowsAreFinite, StoreAssumption
  <2>10. /\ IsFiniteSet(Older(m) \cup {m})
         /\ Cardinality(Older(m) \cup {m}) <= Cardinality(Older(m)) + 1
    BY <2>9, FS_AddElement
  <2>11. Cardinality(Few) <= Cardinality(Older(m) \cup {m})
    BY <2>8, <2>10, FS_Subset
  <2>12. Cardinality(Older(m) \cup {m}) \in Nat
    BY <2>10, FS_CardinalityType
  <2> QED
    BY <1>5, <2>9, <2>10, <2>11, <2>12
<1> QED
  BY <1>6, <1>7

LEMMA OneOldest ==
    ASSUME created \in [Backups -> Nat], NEW set \in SUBSET Backups,
           \A b, c \in set : created[b] = created[c] => b = c,
           NEW b \in Oldest(set), NEW c \in Oldest(set)
    PROVE  b = c
BY DEF Oldest

-----------------------------------------------------------------------------
(* The types.                                                              *)

LEMMA StoreTypeInit == StoreInit => StoreTypeOK
BY StoreAssumption DEF StoreInit, StoreTypeOK, Types

LEMMA StoreTypeStep == StoreTypeOK /\ AtWork /\ [StoreNext]_storeVars => StoreTypeOK'
<1> SUFFICES ASSUME StoreTypeOK, AtWork, StoreNext PROVE StoreTypeOK'
  BY DEF StoreTypeOK, storeVars
<1> USE StoreAssumption DEF StoreTypeOK
<1>a. overlapped' \subseteq Procs
  BY DEF StoreNext, NoteOverlaps
<1>1. ASSUME NEW p \in Procs, NEW t \in Types, Begin(p, t) PROVE StoreTypeOK'
  <2>1. made + 1 \in Backups /\ made' = made + 1 /\ made' \in 0 .. MaxBackups
    BY <1>1 DEF Begin, Backups
  <2>2. kind' \in [Backups -> Types] /\ partial' \subseteq Backups
    BY <1>1, <2>1 DEF Begin
  <2>3. id' \in [Procs -> 0 .. MaxBackups]
    BY <1>1, <2>1 DEF Begin, Backups
  <2>4. pc' \in [Procs -> {"idle", "write", "insert", "count", "oldest", "check", "delete",
                          "unlink", "deleteRecord"}]
    BY <1>1 DEF Begin, Goto
  <2>5. UNCHANGED <<rows, created, clock, whole, aged, loop, excess, todo, failures, byHand>>
    BY <1>1 DEF Begin
  <2> QED
    BY <1>a, <2>1, <2>2, <2>3, <2>4, <2>5
<1>2. ASSUME NEW p \in Procs, WriteFiles(p) PROVE StoreTypeOK'
  <2>1. id[p] \in Backups
    BY <1>2 DEF WriteFiles, AtWork, NewStep, Backups
  <2> QED
    BY <1>a, <1>2, <2>1 DEF WriteFiles, Finish, Goto
<1>3. ASSUME NEW p \in Procs, Insert(p) PROVE StoreTypeOK'
  <2>1. id[p] \in Backups
    BY <1>3 DEF Insert, RowIsDue, AtWork, NewStep, Backups
  <2> QED
    BY <1>a, <1>3, <2>1 DEF Insert, RowIsDue, Discard, Finish, Goto, Types
<1>4. ASSUME NEW p \in Procs, CountType(p) PROVE StoreTypeOK'
  <2>1. /\ Count(loop[p]) \in 0 .. MaxBackups /\ Limit(loop[p]) \in Nat
    BY <1>4, CountIs, LimitAssumption DEF CountType
  <2>2. OverLimit(loop[p]) => Excess(loop[p]) \in 0 .. MaxBackups
    BY <2>1 DEF OverLimit, Excess
  <2> QED
    BY <1>a, <1>4, <2>2 DEF CountType, NextPhase, Finish, Goto, Types
<1>5. ASSUME NEW p \in Procs, GetOldest(p) PROVE StoreTypeOK'
  BY <1>a, <1>5, CountIs DEF GetOldest, Goto
<1>6. ASSUME NEW p \in Procs, GetExpired(p) PROVE StoreTypeOK'
  BY <1>a, <1>6 DEF GetExpired, Goto
<1>7. ASSUME NEW p \in Procs, CheckLast(p) PROVE StoreTypeOK'
  BY <1>a, <1>7 DEF CheckLast, Skip, Step, Goto
<1>8. ASSUME NEW p \in Procs, PhaseOver(p) PROVE StoreTypeOK'
  BY <1>a, <1>8 DEF PhaseOver, NextPhase, Finish, Goto, Types
<1>9. ASSUME NEW p \in Procs, DeleteRow(p) PROVE StoreTypeOK'
  BY <1>a, <1>9 DEF DeleteRow, Skip, Step, Goto
<1>10. ASSUME NEW p \in Procs, Unlink(p) PROVE StoreTypeOK'
  BY <1>a, <1>10 DEF Unlink, Skip, Step, Goto
<1>11. ASSUME NEW p \in Procs, NEW b \in Backups, DeleteFiles(p, b) PROVE StoreTypeOK'
  <2>1. b \in 0 .. MaxBackups
    BY DEF Backups
  <2> QED
    <3>1. whole' \subseteq Backups /\ failures' \in 0 .. MaxFailures
      BY <1>11 DEF DeleteFiles
    <3>2. /\ rows' = rows /\ created' = created /\ clock' = clock /\ kind' = kind /\ made' = made
          /\ partial' = partial /\ aged' = aged /\ byHand' = byHand \cup {b}
          /\ loop' = loop /\ excess' = excess /\ todo' = todo
          /\ id' = [id EXCEPT ![p] = b] /\ pc' = [pc EXCEPT ![p] = "deleteRecord"]
      BY <1>11 DEF DeleteFiles, Goto
    <3> QED
      BY <1>a, <2>1, <3>1, <3>2
<1>12. ASSUME NEW p \in Procs, DeleteRecord(p) PROVE StoreTypeOK'
  BY <1>a, <1>12 DEF DeleteRecord, Finish, Goto
<1>13. ASSUME NEW p \in Procs, Crash(p) PROVE StoreTypeOK'
  BY <1>a, <1>13 DEF Crash, Finish, Goto
<1>14. ASSUME GrowOld PROVE StoreTypeOK'
  BY <1>a, <1>14 DEF GrowOld, Oldest
<1> QED
  BY <1>1, <1>2, <1>3, <1>4, <1>5, <1>6, <1>7, <1>8, <1>9, <1>10, <1>11, <1>12, <1>13, <1>14
  DEF StoreNext

-----------------------------------------------------------------------------
(* The invariant.                                                          *)

LEMMA StoreInit1 == StoreInit => StoreInv
<1> SUFFICES ASSUME StoreInit PROVE StoreInv
  OBVIOUS
<1>1. StoreTypeOK
  BY StoreTypeInit
<1>2. \A p \in Procs : pc[p] = "idle" /\ todo[p] = {}
  BY DEF StoreInit
<1>3. Stamped
  BY <1>2, StoreAssumption DEF StoreInit, Stamped, Backups
<1>4. AtWork /\ OwnBackups
  BY <1>2 DEF AtWork, OwnBackups, NewStep
<1>5. DataFirst /\ NoneLeft
  BY <1>2 DEF StoreInit, DataFirst, RowsHaveData, NoneLeft
<1> QED
  BY <1>1, <1>3, <1>4, <1>5 DEF StoreInv

LEMMA StampedStep == StoreTypeOK /\ Stamped /\ AtWork /\ StoreNext => Stamped'
<1> SUFFICES ASSUME StoreTypeOK, Stamped, AtWork, StoreNext PROVE Stamped'
  OBVIOUS
<1> USE StoreAssumption
<1>1. ASSUME NEW p \in Procs, NEW t \in Types, Begin(p, t) PROVE Stamped'
  BY <1>1 DEF Begin, Stamped, StoreTypeOK, Backups
<1>2. ASSUME NEW p \in Procs, WriteFiles(p) PROVE Stamped'
  BY <1>2 DEF WriteFiles, Finish, Stamped, StoreTypeOK
<1>3. ASSUME NEW p \in Procs, Insert(p) PROVE Stamped'
  <2>1. id[p] \in Backups /\ id[p] <= made /\ created[id[p]] = 0
    BY <1>3 DEF Insert, RowIsDue, AtWork, NewStep, StoreTypeOK, Backups
  <2>2. CASE rows' = rows \cup {id[p]} /\ clock' = clock + 1 /\ created' = [created EXCEPT ![id[p]] = clock + 1]
    <3>1. made' = made /\ todo' = todo
      BY <1>3, <2>2, <2>1 DEF Insert, Finish, StoreTypeOK, Stamped
    <3>2. \A b \in Backups : created[b] <= clock /\ created[b] \in Nat
      BY DEF Stamped, StoreTypeOK
    <3>3. \A b \in Backups : created'[b] = IF b = id[p] THEN clock + 1 ELSE created[b]
      BY <2>2 DEF StoreTypeOK
    <3>4. clock \in Nat /\ made \in Nat /\ todo \in [Procs -> SUBSET Backups] /\ rows \subseteq Backups
      BY DEF StoreTypeOK
    <3> QED
      BY <2>1, <2>2, <3>1, <3>2, <3>3, <3>4 DEF Stamped, Backups
  <2>3. CASE rows' = rows /\ clock' = clock /\ created' = created
    BY <1>3, <2>3 DEF Insert, Finish, Stamped, StoreTypeOK
  <2> QED
    BY <1>3, <2>2, <2>3 DEF Insert
<1>4. ASSUME NEW p \in Procs, CountType(p) PROVE Stamped'
  BY <1>4 DEF CountType, NextPhase, Finish, Stamped, StoreTypeOK
<1>5. ASSUME NEW p \in Procs, GetOldest(p) PROVE Stamped'
  BY <1>5 DEF GetOldest, OfType, Stamped, StoreTypeOK
<1>6. ASSUME NEW p \in Procs, GetExpired(p) PROVE Stamped'
  BY <1>6 DEF GetExpired, Stamped, StoreTypeOK
<1>7. ASSUME NEW p \in Procs, CheckLast(p) PROVE Stamped'
  BY <1>7 DEF CheckLast, Skip, Stamped, StoreTypeOK
<1>8. ASSUME NEW p \in Procs, PhaseOver(p) PROVE Stamped'
  BY <1>8 DEF PhaseOver, NextPhase, Finish, Stamped, StoreTypeOK
<1>9. ASSUME NEW p \in Procs, DeleteRow(p) PROVE Stamped'
  BY <1>9 DEF DeleteRow, Skip, Stamped, StoreTypeOK
<1>10. ASSUME NEW p \in Procs, Unlink(p) PROVE Stamped'
  BY <1>10 DEF Unlink, Skip, Stamped, StoreTypeOK
<1>11. ASSUME NEW p \in Procs, NEW b \in Backups, DeleteFiles(p, b) PROVE Stamped'
  BY <1>11 DEF DeleteFiles, Stamped, StoreTypeOK
<1>12. ASSUME NEW p \in Procs, DeleteRecord(p) PROVE Stamped'
  BY <1>12 DEF DeleteRecord, Finish, Stamped, StoreTypeOK
<1>13. ASSUME NEW p \in Procs, Crash(p) PROVE Stamped'
  BY <1>13 DEF Crash, Finish, Stamped, StoreTypeOK
<1>14. ASSUME GrowOld PROVE Stamped'
  BY <1>14 DEF GrowOld, Stamped, StoreTypeOK
<1> QED
  BY <1>1, <1>2, <1>3, <1>4, <1>5, <1>6, <1>7, <1>8, <1>9, <1>10, <1>11, <1>12, <1>13, <1>14
  DEF StoreNext
LEMMA AtWorkStep == StoreTypeOK /\ Stamped /\ AtWork /\ OwnBackups /\ StoreNext => (AtWork /\ OwnBackups)'
<1> SUFFICES ASSUME StoreTypeOK, Stamped, AtWork, OwnBackups, StoreNext PROVE (AtWork /\ OwnBackups)'
  OBVIOUS
<1>1. ASSUME NEW p \in Procs, NEW t \in Types, Begin(p, t) PROVE (AtWork /\ OwnBackups)'
  BY <1>1, StoreAssumption DEF Begin, Goto, AtWork, OwnBackups, NewStep, StoreTypeOK, Oldest, Stamped, Backups
<1>2. ASSUME NEW p \in Procs, WriteFiles(p) PROVE (AtWork /\ OwnBackups)'
  BY <1>2 DEF WriteFiles, Finish, Goto, AtWork, OwnBackups, NewStep, StoreTypeOK, Oldest
<1>3. ASSUME NEW p \in Procs, Insert(p) PROVE (AtWork /\ OwnBackups)'
  <2>1. id[p] \in Backups /\ id[p] \in 1 .. made /\ created[id[p]] = 0 /\ pc[p] \in NewStep
    BY <1>3 DEF Insert, RowIsDue, AtWork, NewStep, StoreTypeOK, Backups
  <2>2. \A q \in Procs \ {p} : pc'[q] = pc[q] /\ id'[q] = id[q] /\ todo'[q] = todo[q] /\ loop'[q] = loop[q]
    BY <1>3 DEF Insert, Finish, Goto, StoreTypeOK
  <2>3. \A q \in Procs : pc[q] \in NewStep /\ q # p => id[q] # id[p]
    BY <2>1 DEF OwnBackups
  <2>4. \A q \in Procs : id[p] \notin todo[q] /\ todo[q] \in SUBSET Backups
    BY <2>1 DEF Stamped, StoreTypeOK
  <2>5. /\ rows' \subseteq rows \cup {id[p]} /\ made' = made
        /\ \A b \in Backups : created'[b] >= 0 /\ (b # id[p] => created'[b] = created[b])
    BY <1>3, <2>1 DEF Insert, StoreTypeOK
  <2>6. pc'[p] \in {"count", "idle"} /\ todo'[p] = {}
    BY <1>3 DEF Insert, RowIsDue, Finish, Goto, AtWork, StoreTypeOK
  <2>7. ASSUME NEW q \in Procs \ {p}, pc[q] = "unlink" PROVE Oldest(todo[q])' \cap rows' = {}
    <3>1. Oldest(todo[q])' = Oldest(todo[q])
      BY <2>2, <2>4, <2>5 DEF Oldest
    <3>2. Oldest(todo[q]) \cap rows = {} /\ id[p] \notin Oldest(todo[q])
      BY <2>4, <2>7 DEF AtWork, Oldest
    <3> QED
      BY <2>5, <3>1, <3>2
  <2>8. ASSUME NEW q \in Procs \ {p}, pc[q] = "deleteRecord"
        PROVE  id[q] \in Backups /\ created'[id[q]] > 0
    <3>1. id[q] \in Backups /\ created[id[q]] > 0
      BY <2>8 DEF AtWork
    <3> QED
      BY <2>1, <2>5, <3>1
  <2>9. OwnBackups'
    BY <2>2, <2>6 DEF OwnBackups, NewStep
  <2>10. ASSUME NEW q \in Procs, q # p, pc[q] \in NewStep
         PROVE  id[q] \in 1 .. made /\ created'[id[q]] = 0
    <3>1. id[q] \in 1 .. made /\ created[id[q]] = 0 /\ made \in 0 .. MaxBackups
      BY <2>10 DEF AtWork, StoreTypeOK
    <3> QED
      BY <2>3, <2>5, <2>10, <3>1, StoreAssumption DEF Backups
  <2>11. ASSUME NEW q \in Procs \ {p}
         PROVE  /\ pc[q] \notin {"check", "delete", "unlink"} => todo[q] = {}
                /\ pc[q] = "oldest" => loop[q] \in Types
                /\ pc[q] = "check" => loop[q] = "age"
    BY DEF AtWork
  <2> QED
    BY <2>2, <2>5, <2>6, <2>7, <2>8, <2>9, <2>10, <2>11 DEF AtWork, NewStep
<1>4. ASSUME NEW p \in Procs, CountType(p) PROVE (AtWork /\ OwnBackups)'
  BY <1>4 DEF CountType, NextPhase, Finish, Goto, AtWork, OwnBackups, NewStep, StoreTypeOK, Oldest
<1>5. ASSUME NEW p \in Procs, GetOldest(p) PROVE (AtWork /\ OwnBackups)'
  BY <1>5 DEF GetOldest, Goto, AtWork, OwnBackups, NewStep, StoreTypeOK, Oldest
<1>6. ASSUME NEW p \in Procs, GetExpired(p) PROVE (AtWork /\ OwnBackups)'
  BY <1>6 DEF GetExpired, Goto, AtWork, OwnBackups, NewStep, StoreTypeOK, Oldest
<1>7. ASSUME NEW p \in Procs, CheckLast(p) PROVE (AtWork /\ OwnBackups)'
  BY <1>7 DEF CheckLast, Skip, Step, Goto, AtWork, OwnBackups, NewStep, StoreTypeOK, Oldest
<1>8. ASSUME NEW p \in Procs, PhaseOver(p) PROVE (AtWork /\ OwnBackups)'
  BY <1>8 DEF PhaseOver, NextPhase, Finish, Goto, AtWork, OwnBackups, NewStep, StoreTypeOK, Oldest
<1>9. ASSUME NEW p \in Procs, DeleteRow(p) PROVE (AtWork /\ OwnBackups)'
  <2>1. \A b, c \in Oldest(todo[p]) : b = c
    <3>1. created \in [Backups -> Nat] /\ todo[p] \in SUBSET Backups
      BY DEF StoreTypeOK
    <3>2. \A b, c \in todo[p] : created[b] = created[c] => b = c
      BY <3>1 DEF Stamped
    <3> QED
      BY <3>1, <3>2, OneOldest
  <2> QED
    BY <1>9, <2>1 DEF DeleteRow, Skip, Step, Goto, AtWork, OwnBackups, NewStep, StoreTypeOK, Oldest
<1>10. ASSUME NEW p \in Procs, Unlink(p) PROVE (AtWork /\ OwnBackups)'
  BY <1>10 DEF Unlink, Skip, Step, Goto, AtWork, OwnBackups, NewStep, StoreTypeOK, Oldest
<1>11. ASSUME NEW p \in Procs, NEW b \in Backups, DeleteFiles(p, b) PROVE (AtWork /\ OwnBackups)'
  BY <1>11 DEF DeleteFiles, Goto, AtWork, OwnBackups, NewStep, StoreTypeOK, Oldest, Stamped
<1>12. ASSUME NEW p \in Procs, DeleteRecord(p) PROVE (AtWork /\ OwnBackups)'
  BY <1>12 DEF DeleteRecord, Finish, Goto, AtWork, OwnBackups, NewStep, StoreTypeOK, Oldest
<1>13. ASSUME NEW p \in Procs, Crash(p) PROVE (AtWork /\ OwnBackups)'
  BY <1>13 DEF Crash, Finish, Goto, AtWork, OwnBackups, NewStep, StoreTypeOK, Oldest
<1>14. ASSUME GrowOld PROVE (AtWork /\ OwnBackups)'
  BY <1>14 DEF GrowOld, AtWork, OwnBackups, NewStep, StoreTypeOK, Oldest
<1> QED
  BY <1>1, <1>2, <1>3, <1>4, <1>5, <1>6, <1>7, <1>8, <1>9, <1>10, <1>11, <1>12, <1>13, <1>14
  DEF StoreNext

LEMMA DataFirstStep == StoreTypeOK /\ Stamped /\ AtWork /\ OwnBackups /\ DataFirst /\ StoreNext => DataFirst'
<1> SUFFICES ASSUME StoreTypeOK, Stamped, AtWork, OwnBackups, DataFirst, StoreNext PROVE DataFirst'
  OBVIOUS
<1>1. ASSUME NEW p \in Procs, NEW t \in Types, Begin(p, t) PROVE DataFirst'
  BY <1>1 DEF Begin, Goto, DataFirst, RowsHaveData, Stamped, AtWork, OwnBackups, NewStep, StoreTypeOK, Oldest
<1>2. ASSUME NEW p \in Procs, WriteFiles(p) PROVE DataFirst'
  BY <1>2 DEF WriteFiles, Finish, Goto, DataFirst, RowsHaveData, Stamped, AtWork, OwnBackups, NewStep, StoreTypeOK, Oldest
<1>3. ASSUME NEW p \in Procs, Insert(p) PROVE DataFirst'
  BY <1>3 DEF Insert, RowIsDue, Discard, Finish, Goto, DataFirst, RowsHaveData, Stamped, AtWork, OwnBackups, NewStep, StoreTypeOK, Oldest
<1>4. ASSUME NEW p \in Procs, CountType(p) PROVE DataFirst'
  BY <1>4 DEF CountType, NextPhase, Finish, Goto, DataFirst, RowsHaveData, Stamped, AtWork, OwnBackups, NewStep, StoreTypeOK, Oldest
<1>5. ASSUME NEW p \in Procs, GetOldest(p) PROVE DataFirst'
  BY <1>5 DEF GetOldest, Goto, DataFirst, RowsHaveData, Stamped, AtWork, OwnBackups, NewStep, StoreTypeOK, Oldest
<1>6. ASSUME NEW p \in Procs, GetExpired(p) PROVE DataFirst'
  BY <1>6 DEF GetExpired, Goto, DataFirst, RowsHaveData, Stamped, AtWork, OwnBackups, NewStep, StoreTypeOK, Oldest
<1>7. ASSUME NEW p \in Procs, CheckLast(p) PROVE DataFirst'
  BY <1>7 DEF CheckLast, Skip, Step, Goto, DataFirst, RowsHaveData, Stamped, AtWork, OwnBackups, NewStep, StoreTypeOK, Oldest
<1>8. ASSUME NEW p \in Procs, PhaseOver(p) PROVE DataFirst'
  BY <1>8 DEF PhaseOver, NextPhase, Finish, Goto, DataFirst, RowsHaveData, Stamped, AtWork, OwnBackups, NewStep, StoreTypeOK, Oldest
<1>9. ASSUME NEW p \in Procs, DeleteRow(p) PROVE DataFirst'
  BY <1>9 DEF DeleteRow, Skip, Step, Goto, DataFirst, RowsHaveData, Stamped, AtWork, OwnBackups, NewStep, StoreTypeOK, Oldest
<1>10. ASSUME NEW p \in Procs, Unlink(p) PROVE DataFirst'
  BY <1>10 DEF Unlink, Skip, Step, Goto, DataFirst, RowsHaveData, Stamped, AtWork, OwnBackups, NewStep, StoreTypeOK, Oldest
<1>11. ASSUME NEW p \in Procs, NEW b \in Backups, DeleteFiles(p, b) PROVE DataFirst'
  BY <1>11 DEF DeleteFiles, Goto, DataFirst, RowsHaveData, Stamped, AtWork, OwnBackups, NewStep, StoreTypeOK, Oldest
<1>12. ASSUME NEW p \in Procs, DeleteRecord(p) PROVE DataFirst'
  BY <1>12 DEF DeleteRecord, Finish, Goto, DataFirst, RowsHaveData, Stamped, AtWork, OwnBackups, NewStep, StoreTypeOK, Oldest
<1>13. ASSUME NEW p \in Procs, Crash(p) PROVE DataFirst'
  BY <1>13 DEF Crash, Finish, Goto, DataFirst, RowsHaveData, Stamped, AtWork, OwnBackups, NewStep, StoreTypeOK, Oldest
<1>14. ASSUME GrowOld PROVE DataFirst'
  BY <1>14 DEF GrowOld, DataFirst, RowsHaveData, Stamped, AtWork, OwnBackups, NewStep, StoreTypeOK, Oldest
<1> QED
  BY <1>1, <1>2, <1>3, <1>4, <1>5, <1>6, <1>7, <1>8, <1>9, <1>10, <1>11, <1>12, <1>13, <1>14
  DEF StoreNext

LEMMA NoneLeftStep == StoreTypeOK /\ Stamped /\ AtWork /\ OwnBackups /\ NoneLeft /\ StoreNext => NoneLeft'
<1> SUFFICES ASSUME StoreTypeOK, Stamped, AtWork, OwnBackups, NoneLeft, StoreNext PROVE NoneLeft'
  OBVIOUS
<1>1. ASSUME NEW p \in Procs, NEW t \in Types, Begin(p, t) PROVE NoneLeft'
  BY <1>1 DEF Begin, Goto, NoneLeft, Awaits, Stamped, AtWork, OwnBackups, NewStep, StoreTypeOK, Oldest
<1>2. ASSUME NEW p \in Procs, WriteFiles(p) PROVE NoneLeft'
  BY <1>2 DEF WriteFiles, Finish, Goto, NoneLeft, Awaits, Stamped, AtWork, OwnBackups, NewStep, StoreTypeOK, Oldest
<1>3. ASSUME NEW p \in Procs, Insert(p) PROVE NoneLeft'
  <2> SUFFICES ASSUME failures = 0 PROVE NoneLeft'
    BY <1>3 DEF Insert, NoneLeft
  <2>1. id[p] \in Backups /\ created[id[p]] = 0 /\ pc[p] = "insert"
    BY <1>3 DEF Insert, RowIsDue, AtWork, NewStep, StoreTypeOK, Backups
  <2>2. \A q \in Procs \ {p} : pc'[q] = pc[q] /\ id'[q] = id[q] /\ todo'[q] = todo[q]
    BY <1>3 DEF Insert, Finish, Goto, StoreTypeOK
  <2>3. \A q \in Procs : id[p] \notin todo[q] /\ todo[q] \in SUBSET Backups
    BY <2>1 DEF Stamped, StoreTypeOK
  <2>4. /\ whole' \ rows' = (whole \ rows) \ {id[p]} /\ whole' \subseteq whole /\ partial' = partial
        /\ \A b \in Backups : b # id[p] => created'[b] = created[b]
    BY <1>3 DEF Insert, Discard, StoreTypeOK
  <2>5. pc'[p] \in {"count", "idle"}
    BY <1>3 DEF Insert, Finish, Goto, StoreTypeOK
  <2>6. ASSUME NEW b \in whole' \ rows' PROVE \E q \in Procs : Awaits(q, b)'
    <3>1. b \in whole \ rows /\ b # id[p]
      BY <2>4
    <3>2. PICK q \in Procs : Awaits(q, b)
      BY <3>1 DEF NoneLeft
    <3>3. q # p
      BY <2>1, <3>1, <3>2 DEF Awaits
    <3>4. Oldest(todo[q])' = Oldest(todo[q])
      BY <2>2, <2>3, <2>4, <3>3 DEF Oldest
    <3> QED
      BY <2>2, <3>2, <3>3, <3>4 DEF Awaits
  <2>7. ASSUME NEW b \in partial' PROVE \E q \in Procs : pc'[q] = "write" /\ id'[q] = b
    BY <2>1, <2>2, <2>4 DEF NoneLeft
  <2>8. ASSUME NEW q \in Procs, pc'[q] = "deleteRecord" PROVE id'[q] \notin whole'
    BY <2>2, <2>4, <2>5, <2>8 DEF NoneLeft
  <2> QED
    BY <2>6, <2>7, <2>8 DEF NoneLeft
<1>4. ASSUME NEW p \in Procs, CountType(p) PROVE NoneLeft'
  BY <1>4 DEF CountType, NextPhase, Finish, Goto, NoneLeft, Awaits, Stamped, AtWork, OwnBackups, NewStep, StoreTypeOK, Oldest
<1>5. ASSUME NEW p \in Procs, GetOldest(p) PROVE NoneLeft'
  BY <1>5 DEF GetOldest, Goto, NoneLeft, Awaits, Stamped, AtWork, OwnBackups, NewStep, StoreTypeOK, Oldest
<1>6. ASSUME NEW p \in Procs, GetExpired(p) PROVE NoneLeft'
  BY <1>6 DEF GetExpired, Goto, NoneLeft, Awaits, Stamped, AtWork, OwnBackups, NewStep, StoreTypeOK, Oldest
<1>7. ASSUME NEW p \in Procs, CheckLast(p) PROVE NoneLeft'
  BY <1>7 DEF CheckLast, Skip, Step, Goto, NoneLeft, Awaits, Stamped, AtWork, OwnBackups, NewStep, StoreTypeOK, Oldest
<1>8. ASSUME NEW p \in Procs, PhaseOver(p) PROVE NoneLeft'
  BY <1>8 DEF PhaseOver, NextPhase, Finish, Goto, NoneLeft, Awaits, Stamped, AtWork, OwnBackups, NewStep, StoreTypeOK, Oldest
<1>9. ASSUME NEW p \in Procs, DeleteRow(p) PROVE NoneLeft'
  BY <1>9 DEF DeleteRow, Skip, Step, Goto, NoneLeft, Awaits, Stamped, AtWork, OwnBackups, NewStep, StoreTypeOK, Oldest
<1>10. ASSUME NEW p \in Procs, Unlink(p) PROVE NoneLeft'
  <2>1. \A b, c \in Oldest(todo[p]) : b = c
    <3>1. created \in [Backups -> Nat] /\ todo[p] \in SUBSET Backups
      BY DEF StoreTypeOK
    <3>2. \A b, c \in todo[p] : created[b] = created[c] => b = c
      BY <3>1 DEF Stamped
    <3> QED
      BY <3>1, <3>2, OneOldest
  <2>2. \A q \in Procs \ {p} : pc'[q] = pc[q] /\ id'[q] = id[q] /\ todo'[q] = todo[q]
    BY <1>10 DEF Unlink, Skip, Goto, StoreTypeOK
  <2>3. PICK b \in Oldest(todo[p]) :
           Skip(p, b) /\ (whole' = whole \ {b} \/ failures' # 0)
    BY <1>10 DEF Unlink, StoreTypeOK
  <2>4. rows' = rows /\ partial' = partial /\ created' = created /\ id' = id /\ pc[p] = "unlink"
        /\ pc'[p] \in {"check", "delete"} /\ (failures' = 0 => failures = 0)
    BY <1>10, <2>3 DEF Unlink, Skip, Step, Goto, StoreTypeOK
  <2>5. ASSUME failures' = 0, NEW c \in whole' \ rows' PROVE \E q \in Procs : Awaits(q, c)'
    <3>1. c \in whole \ rows /\ c # b
      BY <2>3, <2>4, <2>5
    <3>2. PICK q \in Procs : Awaits(q, c)
      BY <2>4, <2>5, <3>1 DEF NoneLeft
    <3>3. q # p
      BY <2>1, <2>3, <2>4, <3>1, <3>2 DEF Awaits
    <3> QED
      BY <2>2, <2>4, <3>2, <3>3 DEF Awaits, Oldest
  <2>6. ASSUME failures' = 0, NEW c \in partial' PROVE \E q \in Procs : pc'[q] = "write" /\ id'[q] = c
    BY <2>2, <2>4, <2>6 DEF NoneLeft
  <2>7. ASSUME failures' = 0, NEW q \in Procs, pc'[q] = "deleteRecord" PROVE id'[q] \notin whole'
    BY <2>2, <2>3, <2>4, <2>7 DEF NoneLeft
  <2> QED
    BY <2>5, <2>6, <2>7 DEF NoneLeft
<1>11. ASSUME NEW p \in Procs, NEW b \in Backups, DeleteFiles(p, b) PROVE NoneLeft'
  BY <1>11 DEF DeleteFiles, Goto, NoneLeft, Awaits, Stamped, AtWork, OwnBackups, NewStep, StoreTypeOK, Oldest
<1>12. ASSUME NEW p \in Procs, DeleteRecord(p) PROVE NoneLeft'
  BY <1>12 DEF DeleteRecord, Finish, Goto, NoneLeft, Awaits, Stamped, AtWork, OwnBackups, NewStep, StoreTypeOK, Oldest
<1>13. ASSUME NEW p \in Procs, Crash(p) PROVE NoneLeft'
  BY <1>13 DEF Crash, Finish, Goto, NoneLeft, Awaits, Stamped, AtWork, OwnBackups, NewStep, StoreTypeOK, Oldest
<1>14. ASSUME GrowOld PROVE NoneLeft'
  BY <1>14 DEF GrowOld, NoneLeft, Awaits, Stamped, AtWork, OwnBackups, NewStep, StoreTypeOK, Oldest
<1> QED
  BY <1>1, <1>2, <1>3, <1>4, <1>5, <1>6, <1>7, <1>8, <1>9, <1>10, <1>11, <1>12, <1>13, <1>14
  DEF StoreNext

LEMMA StoreStep == StoreInv /\ [StoreNext]_storeVars => StoreInv'
<1> SUFFICES ASSUME StoreInv, [StoreNext]_storeVars PROVE StoreInv'
  OBVIOUS
<1>1. CASE StoreNext
  BY <1>1, StoreTypeStep, StampedStep, AtWorkStep, DataFirstStep, NoneLeftStep DEF StoreInv
<1>2. CASE UNCHANGED storeVars
  <2>1. StoreTypeOK' /\ Stamped'
    BY <1>2 DEF storeVars, StoreInv, StoreTypeOK, Stamped
  <2>2. AtWork' /\ OwnBackups'
    BY <1>2 DEF storeVars, StoreInv, AtWork, OwnBackups, Oldest
  <2>3. DataFirst' /\ NoneLeft'
    BY <1>2 DEF storeVars, StoreInv, DataFirst, RowsHaveData, NoneLeft, Awaits, Oldest
  <2> QED
    BY <2>1, <2>2, <2>3 DEF StoreInv
<1> QED
  BY <1>1, <1>2

LEMMA StoreInvMatches == StoreInv => RowsMatchData
<1> SUFFICES ASSUME StoreInv PROVE RowsMatchData
  OBVIOUS
<1>1. OrphansAreFaults
  <2> SUFFICES ASSUME failures = 0, NEW b \in (whole \cup partial) \ rows
               PROVE  \E p \in Procs : b = id[p] \/ b \in todo[p]
    BY DEF StoreInv, StoreTypeOK, OrphansAreFaults
  <2>1. CASE b \in whole
    BY <2>1 DEF StoreInv, NoneLeft, Awaits, Oldest
  <2>2. CASE b \in partial
    BY <2>2 DEF StoreInv, NoneLeft
  <2> QED
    BY <2>1, <2>2
<1> QED
  BY <1>1 DEF StoreInv, DataFirst, RowsMatchData

(* A row never points to missing data, and a directory without a row is    *)
(* the work of a command or of a failure, whatever commands run beside     *)
(* each other and wherever they are killed: the order of CreateBackup and  *)
(* deleteBackup is right (backup.go:139, retention.go:71).                 *)
THEOREM RowsAlwaysMatchData == StoreSpec => []RowsMatchData
<1>1. StoreInit => StoreInv
  BY StoreInit1
<1>2. StoreInv /\ [StoreNext]_storeVars => StoreInv'
  BY StoreStep
<1>3. StoreInv => RowsMatchData
  BY StoreInvMatches
<1> QED
  BY <1>1, <1>2, <1>3, PTL DEF StoreSpec

-----------------------------------------------------------------------------
(* Retention that nothing overlaps.                                        *)

(* A command that nothing overlaps is the only one at work, before and     *)
(* after its step; all that another process can do is let time pass.       *)
LEMMA LeftToItStep ==
    ASSUME StoreTypeOK, LeftToIt, StoreNext
    PROVE  /\ LeftToIt'
           /\ \A p \in Procs : Undisturbed(p)' =>
                 /\ pc[p] = "idle" \/ Undisturbed(p)
                 /\ \A q \in Procs \ {p} : pc[q] # "idle" => pc[p] = "idle"
<1>1. overlapped' = {p \in Procs : /\ pc'[p] # "idle"
                                   /\ p \in overlapped \/ \E q \in Procs \ {p} : pc'[q] # "idle"}
  BY DEF StoreNext, NoteOverlaps
<1>2. ASSUME NEW p \in Procs, Undisturbed(p)'
      PROVE  \A q \in Procs \ {p} : pc'[q] = "idle"
  BY <1>1, <1>2 DEF Undisturbed
<1>3. ASSUME NEW p \in Procs, Undisturbed(p)', pc[p] # "idle"
      PROVE  Undisturbed(p)
  BY <1>1, <1>3 DEF Undisturbed
<1> QED
  BY <1>2, <1>3 DEF LeftToIt

(* What retention of p knows holds after a step of p.                      *)
LEMMA PassStep ==
    ASSUME StoreInv, NEW p \in Procs, PassKnows(p),
           \/ WriteFiles(p) \/ Insert(p) \/ CountType(p) \/ GetOldest(p) \/ GetExpired(p)
           \/ CheckLast(p) \/ PhaseOver(p) \/ DeleteRow(p) \/ Unlink(p) \/ DeleteRecord(p)
           \/ Crash(p)
    PROVE  PassKnows(p)'
<1> USE DEF StoreInv
<1>a. /\ rows \in SUBSET Backups /\ pc \in [Procs -> {"idle", "write", "insert", "count", "oldest",
                                                     "check", "delete", "unlink", "deleteRecord"}]
      /\ todo \in [Procs -> SUBSET Backups] /\ loop \in [Procs -> Types \cup {"age"}]
      /\ excess \in [Procs -> 0 .. MaxBackups] /\ created \in [Backups -> Nat]
      /\ kind \in [Backups -> Types]
  BY DEF StoreTypeOK
<1>b. todo[p] \in SUBSET Backups /\ IsFiniteSet(todo[p]) /\ Cardinality(todo[p]) \in Nat
  BY <1>a, RowsAreFinite, StoreAssumption
<1>c. ASSUME NEW b PROVE Cardinality(todo[p] \ {b}) = IF b \in todo[p] THEN Cardinality(todo[p]) - 1 ELSE Cardinality(todo[p])
  BY <1>b, FS_RemoveElement
<1>d. \A t : Count(t) \in 0 .. MaxBackups
  BY <1>a, CountIs
<1>e. "age" \notin Types
  BY DEF Types
<1>1. CASE WriteFiles(p) \/ Insert(p) \/ DeleteRecord(p) \/ Crash(p)
  <2>1. pc'[p] \in {"idle", "insert", "count"} /\ (pc'[p] = "count" => loop'[p] = "manual")
        /\ (pc'[p] # "count" => todo'[p] = {})
    BY <1>1, <1>a DEF WriteFiles, Insert, RowIsDue, DeleteRecord, Crash, Finish, Goto, AtWork
  <2> QED
    BY <2>1, <1>e DEF PassKnows, Types
<1>2. CASE CountType(p)
  <2>1. CASE OverLimit(loop[p])
    <3>1. /\ pc' = [pc EXCEPT ![p] = "oldest"] /\ excess' = [excess EXCEPT ![p] = Excess(loop[p])]
          /\ loop' = loop /\ rows' = rows /\ kind' = kind /\ loop[p] \in Types
      BY <1>2, <2>1 DEF CountType, Goto
    <3>2. Limit(loop[p]) \in Nat
      BY <3>1, LimitAssumption
    <3>3. Count(loop[p])' = Count(loop[p])
      BY <3>1 DEF Count, OfType
    <3> QED
      BY <1>a, <1>d, <1>e, <2>1, <3>1, <3>2, <3>3 DEF PassKnows, Surplus, OverLimit, Excess
  <2>2. CASE ~OverLimit(loop[p])
    <3>1. pc'[p] = "count" /\ todo'[p] = {}
      BY <1>2, <1>a, <1>e, <2>2 DEF CountType, NextPhase, Goto
    <3> QED
      BY <3>1 DEF PassKnows
  <2> QED
    BY <2>1, <2>2
<1>3. CASE GetOldest(p)
  <2> DEFINE t == loop[p]
             few == {b \in OfType(t) : Cardinality({c \in OfType(t) : created[c] < created[b]}) < excess[p]}
  <2>1. /\ pc[p] = "oldest" /\ todo' = [todo EXCEPT ![p] = few] /\ pc' = [pc EXCEPT ![p] = "delete"]
        /\ loop' = loop /\ rows' = rows /\ kind' = kind /\ t \in Types
    BY <1>3 DEF GetOldest, Goto, AtWork
  <2>2. excess[p] > 0 /\ excess[p] \in Nat /\ Surplus(t, excess[p])
    BY <1>a, <2>1 DEF PassKnows
  <2>3. OfType(t) \in SUBSET Backups /\ \A b, c \in OfType(t) : created[b] = created[c] => b = c
    BY <1>a DEF OfType, Stamped
  <2>4. Cardinality(few) <= excess[p]
    BY <1>a, <2>2, <2>3, OldestAreFew
  <2>5. \A b \in few : kind[b] = t
    BY DEF OfType
  <2>8. few \in SUBSET Backups
    BY <2>3
  <2> HIDE DEF few
  <2>6. Cardinality(few) \in Nat
    BY <2>8, RowsAreFinite, FS_CardinalityType
  <2>7. Count(t)' = Count(t) /\ Limit(t) \in Nat
    BY <2>1, LimitAssumption DEF Count, OfType
  <2> QED
    BY <1>a, <1>d, <1>e, <2>1, <2>2, <2>4, <2>5, <2>6, <2>7 DEF PassKnows, Surplus
<1>4. CASE GetExpired(p)
  BY <1>4, <1>a, <1>e DEF GetExpired, Goto, PassKnows
<1>5. CASE CheckLast(p)
  <2>1. pc[p] = "check" /\ loop[p] = "age" /\ loop' = loop /\ rows' = rows /\ kind' = kind /\ aged' = aged /\ created' = created
    BY <1>5 DEF CheckLast, AtWork
  <2>2. PICK b \in Oldest(todo[p]) : \/ IsLast(kind[b]) /\ Skip(p, b)
                                     \/ ~IsLast(kind[b]) /\ Goto(p, "delete") /\ UNCHANGED todo
    BY <1>5 DEF CheckLast
  <2>3. CASE Skip(p, b)
    BY <1>a, <1>e, <2>1, <2>3 DEF Skip, Step, Goto, PassKnows
  <2>4. CASE ~IsLast(kind[b]) /\ Goto(p, "delete") /\ UNCHANGED todo
    <3>1. \A c \in Oldest(todo[p]) : c = b
      BY <1>a, <2>2, OneOldest DEF Stamped
    <3>2. Count(kind[b]) > 1
      BY <1>d, <2>4 DEF IsLast
    <3>3. Oldest(todo[p])' = Oldest(todo[p]) /\ Count(kind[b])' = Count(kind[b])
      BY <2>1, <2>4 DEF Oldest, Count, OfType
    <3>4. \A c \in Oldest(todo[p])' : Count(kind[c])' > 1
      BY <2>1, <3>1, <3>2, <3>3
    <3> QED
      BY <1>a, <1>e, <2>1, <2>4, <3>4 DEF Goto, PassKnows
  <2> QED
    BY <2>2, <2>3, <2>4
<1>6. CASE PhaseOver(p)
  <2>1. pc'[p] \in {"idle", "count"} /\ todo'[p] = {}
    BY <1>6, <1>a DEF PhaseOver, NextPhase, Finish, Goto
  <2> QED
    BY <2>1 DEF PassKnows
<1>7. CASE DeleteRow(p)
  <2>1. pc[p] = "delete" /\ loop' = loop /\ kind' = kind /\ aged' = aged
    BY <1>7 DEF DeleteRow
  <2>2. PICK b \in Oldest(todo[p]) :
           \/ rows' = rows \ {b} /\ Goto(p, "unlink") /\ UNCHANGED todo
           \/ Skip(p, b) /\ UNCHANGED rows
    BY <1>7 DEF DeleteRow
  <2>3. b \in todo[p]
    BY <2>2 DEF Oldest
  <2>4. CASE rows' = rows \ {b} /\ Goto(p, "unlink") /\ UNCHANGED todo
    <3>1. pc'[p] = "unlink" /\ todo' = todo
      BY <1>a, <2>4 DEF Goto
    <3>2. ASSUME loop[p] \in Types PROVE Surplus(loop[p], Cardinality(todo[p]) - 1)'
      <4> DEFINE same == OfType(loop[p])
      <4>1. OfType(loop[p])' = same \ {b}
        BY <2>1, <2>4 DEF OfType
      <4>5. IsFiniteSet(same) /\ Count(loop[p]) = Cardinality(same) /\ Count(loop[p])' = Cardinality(same \ {b})
        BY <1>a, <4>1, CountIs DEF Count
      <4> HIDE DEF same
      <4>6. Cardinality(same) \in Nat /\ Cardinality(same \ {b}) = IF b \in same THEN Cardinality(same) - 1 ELSE Cardinality(same)
        BY <4>5, FS_RemoveElement, FS_CardinalityType
      <4>2. Count(loop[p])' >= Count(loop[p]) - 1
        BY <4>5, <4>6
      <4>3. Surplus(loop[p], Cardinality(todo[p])) /\ Limit(loop[p]) \in Nat
        BY <2>1, <1>b, <3>2, LimitAssumption DEF PassKnows, Surplus
      <4>4. Count(loop[p])' \in Int
        BY <4>5, <4>6
      <4> QED
        BY <1>b, <1>d, <2>1, <3>1, <4>2, <4>3, <4>4 DEF Surplus
    <3> QED
      BY <1>e, <2>1, <3>1, <3>2 DEF PassKnows
  <2>5. CASE Skip(p, b) /\ UNCHANGED rows
    <3>1. /\ todo'[p] = todo[p] \ {b}
          /\ loop[p] = "age" => pc'[p] = "check"
          /\ loop[p] # "age" => pc'[p] = "delete"
      BY <1>a, <2>5 DEF Skip, Step, Goto
    <3>2. ASSUME loop[p] \in Types PROVE Surplus(loop[p], Cardinality(todo[p]))'
      <4>1. Surplus(loop[p], Cardinality(todo[p])) /\ Limit(loop[p]) \in Nat
        BY <2>1, <1>b, <3>2, LimitAssumption DEF PassKnows, Surplus
      <4>2. Count(loop[p])' = Count(loop[p])
        BY <2>1, <2>5 DEF Count, OfType
      <4>3. Cardinality(todo'[p]) = Cardinality(todo[p]) - 1
        BY <1>c, <2>3, <3>1
      <4> QED
        BY <1>b, <1>d, <2>1, <4>1, <4>2, <4>3 DEF Surplus
    <3>3. CASE loop[p] = "age"
      BY <1>a, <1>e, <2>1, <3>1, <3>3 DEF PassKnows
    <3>4. CASE loop[p] \in Types
      <4>1. loop[p] # "age" /\ pc'[p] = "delete" /\ loop'[p] = loop[p]
        BY <1>e, <2>1, <3>1, <3>4
      <4>2. \A c \in todo'[p] : kind'[c] = loop[p]
        BY <2>1, <3>1, <3>4 DEF PassKnows
      <4>3. Cardinality(todo'[p]) \in Nat
        BY <1>b, <3>1, RowsAreFinite
      <4>4. Surplus(loop[p], Cardinality(todo[p]) - (IF pc[p] = "unlink" THEN 1 ELSE 0))'
        BY <3>2, <3>4, <4>1, <4>3
      <4> QED
        BY <2>1, <4>1, <4>2, <4>4 DEF PassKnows
    <3> QED
      BY <1>a, <3>3, <3>4
  <2> QED
    BY <2>2, <2>4, <2>5
<1>8. CASE Unlink(p)
  <2>1. pc[p] = "unlink" /\ loop' = loop /\ kind' = kind /\ aged' = aged /\ rows' = rows
    BY <1>8 DEF Unlink
  <2>2. PICK b \in Oldest(todo[p]) : Skip(p, b)
    BY <1>8 DEF Unlink
  <2>3. b \in todo[p]
    BY <2>2 DEF Oldest
  <2>4. /\ todo'[p] = todo[p] \ {b}
        /\ loop[p] = "age" => pc'[p] = "check"
        /\ loop[p] # "age" => pc'[p] = "delete"
    BY <1>a, <2>2 DEF Skip, Step, Goto
  <2>5. ASSUME loop[p] \in Types PROVE Surplus(loop[p], Cardinality(todo[p]))'
    <3>1. Surplus(loop[p], Cardinality(todo[p]) - 1)
      BY <2>1, <2>5 DEF PassKnows
    <3>2. Count(loop[p])' = Count(loop[p])
      BY <2>1 DEF Count, OfType
    <3>3. Cardinality(todo'[p]) = Cardinality(todo[p]) - 1
      BY <1>c, <2>3, <2>4
    <3> QED
      BY <2>1, <3>1, <3>2, <3>3 DEF Surplus
  <2>6. CASE loop[p] = "age"
    BY <1>a, <1>e, <2>1, <2>4, <2>6 DEF PassKnows
  <2>7. CASE loop[p] \in Types
    <3>1. loop[p] # "age" /\ pc'[p] = "delete" /\ loop'[p] = loop[p]
      BY <1>e, <2>1, <2>4, <2>7
    <3>2. \A c \in todo'[p] : kind'[c] = loop[p]
      BY <2>1, <2>4, <2>7 DEF PassKnows
    <3>3. Cardinality(todo'[p]) \in Nat
      BY <1>b, <2>4, RowsAreFinite
    <3>4. Surplus(loop[p], Cardinality(todo[p]) - (IF pc[p] = "unlink" THEN 1 ELSE 0))'
      BY <2>5, <2>7, <3>1, <3>3
    <3> QED
      BY <2>1, <3>1, <3>2, <3>4 DEF PassKnows
  <2> QED
    BY <1>a, <2>6, <2>7
<1> QED
  BY <1>1, <1>2, <1>3, <1>4, <1>5, <1>6, <1>7, <1>8

LEMMA PassInvStep == StoreInv /\ PassInv /\ [StoreNext]_storeVars => PassInv'
<1> SUFFICES ASSUME StoreInv, PassInv, [StoreNext]_storeVars PROVE PassInv'
  OBVIOUS
<1>1. CASE StoreNext
  <2>1. LeftToIt'
    BY <1>1, LeftToItStep DEF StoreInv, PassInv
  <2>2. ASSUME NEW p \in Procs, Undisturbed(p)' PROVE PassKnows(p)'
    <3>1. /\ pc[p] = "idle" \/ Undisturbed(p)
          /\ \A q \in Procs \ {p} : pc[q] # "idle" => pc[p] = "idle"
      BY <1>1, <2>2, LeftToItStep DEF StoreInv, PassInv
    <3>2. pc'[p] # "idle" /\ \A q \in Procs \ {p} : pc'[q] = "idle"
      BY <2>1, <2>2 DEF LeftToIt, Undisturbed
    <3>3. CASE \E t \in Types : Begin(p, t)
      BY <3>3 DEF Begin, Goto, PassKnows, StoreInv, StoreTypeOK, AtWork
    <3>4. CASE \E b \in Backups : DeleteFiles(p, b)
      BY <3>4 DEF DeleteFiles, Goto, PassKnows, StoreInv, StoreTypeOK, AtWork
    <3>5. CASE \/ WriteFiles(p) \/ Insert(p) \/ CountType(p) \/ GetOldest(p) \/ GetExpired(p)
               \/ CheckLast(p) \/ PhaseOver(p) \/ DeleteRow(p) \/ Unlink(p) \/ DeleteRecord(p)
               \/ Crash(p)
      <4>1. pc[p] # "idle"
        BY <3>5 DEF WriteFiles, Insert, RowIsDue, CountType, GetOldest, GetExpired, CheckLast,
                    PhaseOver, DeleteRow, Unlink, DeleteRecord, Crash
      <4> QED
        BY <3>1, <3>5, <4>1, PassStep DEF PassInv
    <3>6. CASE GrowOld
      <4>1. pc' = pc /\ rows' = rows /\ created' = created /\ kind' = kind /\ loop' = loop
            /\ excess' = excess /\ todo' = todo /\ aged \subseteq aged'
        BY <3>6 DEF GrowOld
      <4>2. PassKnows(p)
        BY <3>1, <3>2, <4>1 DEF PassInv
      <4>3. \A t : Count(t)' = Count(t)
        BY <4>1 DEF Count, OfType
      <4>4. Oldest(todo[p])' = Oldest(todo[p])
        BY <4>1 DEF Oldest
      <4> QED
        BY <4>1, <4>2, <4>3, <4>4 DEF PassKnows, Surplus
    <3>7. ASSUME NEW q \in Procs \ {p},
                 \/ \E t \in Types : Begin(q, t)
                 \/ WriteFiles(q) \/ Insert(q) \/ CountType(q) \/ GetOldest(q) \/ GetExpired(q)
                 \/ CheckLast(q) \/ PhaseOver(q) \/ DeleteRow(q) \/ Unlink(q)
                 \/ \E b \in Backups : DeleteFiles(q, b)
                 \/ DeleteRecord(q) \/ Crash(q)
          PROVE  FALSE
      <4>1. pc[q] # "idle" \/ pc'[q] # "idle"
        BY <3>7 DEF Begin, WriteFiles, Insert, RowIsDue, CountType, GetOldest, GetExpired, CheckLast,
                    PhaseOver, DeleteRow, Unlink, DeleteFiles, DeleteRecord, Crash, Goto,
                    StoreInv, StoreTypeOK
      <4>2. pc[q] # "idle"
        BY <3>2, <4>1
      <4>3. \A r \in Procs \ {q} : pc'[r] = pc[r]
        BY <3>7, <4>2 DEF Begin, WriteFiles, Insert, RowIsDue, CountType, GetOldest, GetExpired,
                    CheckLast, PhaseOver, DeleteRow, Unlink, DeleteFiles, DeleteRecord, Crash, Goto,
                    Skip, NextPhase, Finish, StoreInv, StoreTypeOK
      <4> QED
        BY <3>1, <3>2, <4>2, <4>3
    <3> QED
      BY <1>1, <3>3, <3>4, <3>5, <3>6, <3>7 DEF StoreNext
  <2> QED
    BY <2>1, <2>2 DEF PassInv
<1>2. CASE UNCHANGED storeVars
  <2>1. \A p \in Procs : Undisturbed(p)' = Undisturbed(p)
    BY <1>2 DEF storeVars, Undisturbed
  <2>2. \A t : Count(t)' = Count(t)
    BY <1>2 DEF storeVars, Count, OfType
  <2>3. \A p \in Procs : Oldest(todo[p])' = Oldest(todo[p])
    BY <1>2 DEF storeVars, Oldest
  <2>4. \A p \in Procs : PassKnows(p) => PassKnows(p)'
    BY <1>2, <2>2, <2>3 DEF storeVars, PassKnows, Surplus
  <2>5. LeftToIt'
    BY <1>2, <2>1 DEF storeVars, LeftToIt, PassInv
  <2> QED
    BY <2>1, <2>4, <2>5 DEF PassInv
<1> QED
  BY <1>1, <1>2

(* The row retention removes is one its phase has reason to remove.        *)
LEMMA PruneIsDue ==
    ASSUME StoreInv, PassInv, StoreNext, NEW p \in Procs \ overlapped, NEW b \in Backups,
           pc[p] = "delete", b \in rows \ rows'
    PROVE  \/ b \in aged /\ Count(kind[b]) > 1
           \/ Limit(kind[b]) > 0 /\ Count(kind[b]) > Limit(kind[b])
<1>1. Undisturbed(p) /\ PassKnows(p) /\ \A q \in Procs \ {p} : pc[q] = "idle"
  BY DEF PassInv, LeftToIt, Undisturbed
<1>2. DeleteRow(p)
  <2>1. ASSUME NEW q \in Procs, DeleteRow(q) \/ DeleteRecord(q) PROVE q = p
    BY <1>1, <2>1 DEF DeleteRow, DeleteRecord
  <2>2. ~DeleteRecord(p)
    BY DEF DeleteRecord
  <2>3. rows' # rows
    OBVIOUS
  <2>4. ASSUME NEW q \in Procs, Insert(q) PROVE FALSE
    BY <2>4 DEF Insert
  <2> QED
    BY <2>1, <2>2, <2>3, <2>4
    DEF StoreNext, Begin, WriteFiles, CountType, GetOldest, GetExpired, CheckLast, PhaseOver, Unlink,
        DeleteFiles, Crash, GrowOld
<1>3. b \in Oldest(todo[p]) /\ b \in todo[p]
  BY <1>2 DEF DeleteRow, Oldest
<1>4. CASE loop[p] = "age"
  BY <1>1, <1>3, <1>4 DEF PassKnows
<1>5. CASE loop[p] \in Types
  <2>1. kind[b] = loop[p] /\ Surplus(loop[p], Cardinality(todo[p]) - 0)
    BY <1>1, <1>3, <1>5 DEF PassKnows
  <2>2. todo[p] \in SUBSET Backups
    BY DEF StoreInv, StoreTypeOK
  <2>3. IsFiniteSet(todo[p]) /\ Cardinality(todo[p]) \in Nat /\ Cardinality(todo[p]) # 0
    BY <1>3, <2>2, RowsAreFinite, FS_EmptySet, FS_CardinalityType
  <2>4. Count(loop[p]) \in Nat /\ Limit(loop[p]) \in Nat
    BY <1>5, CountIs, LimitAssumption, StoreAssumption DEF StoreInv, StoreTypeOK
  <2> QED
    BY <2>1, <2>3, <2>4 DEF Surplus
<1> QED
  BY <1>4, <1>5 DEF StoreInv, StoreTypeOK

(* A backup that retention removes is one too many of its type, or too old *)
(* and not the last of its type, unless another command of the project was *)
(* at work at the same time: the counts enforceMaxCount and                *)
(* enforceMaxAge read are still true when they delete (retention.go:26).   *)
THEOREM PruningIsNeeded == StoreSpec => PrunesOnlyExcess
<1>1. StoreInit => StoreInv /\ PassInv
  <2>1. ASSUME StoreInit PROVE PassInv
    BY <2>1 DEF StoreInit, PassInv, LeftToIt, Undisturbed
  <2> QED
    BY <2>1, StoreInit1
<1>2. StoreInv /\ PassInv /\ [StoreNext]_storeVars => (StoreInv /\ PassInv)'
  BY StoreStep, PassInvStep
<1>3. StoreInv /\ PassInv /\ [StoreNext]_storeVars =>
        [\A p \in Procs \ overlapped, b \in Backups :
          pc[p] = "delete" /\ b \in rows \ rows' =>
              \/ b \in aged /\ Count(kind[b]) > 1
              \/ Limit(kind[b]) > 0 /\ Count(kind[b]) > Limit(kind[b])]_storeVars
  BY PruneIsDue
<1> QED
  BY <1>1, <1>2, <1>3, PTL DEF StoreSpec, PrunesOnlyExcess

-----------------------------------------------------------------------------
(* Restoration.  A command is what is left of its plan, so its shape says   *)
(* which step may follow which.                                            *)

(* Where a step of a restore stands: each restores its parts in this order, *)
(* and nothing before the verification counts.                             *)
Rank(s) ==
    CASE s.do = "verify" -> 1
      [] s.do = "down" -> 2
      [] s.do = "put" /\ s.of = "config" -> 3
      [] s.do = "put" /\ s.of = "volume" -> 4
      [] s.do = "stage" -> 5
      [] s.do = "away" -> 6
      [] s.do \in {"in", "back", "preserve"} -> 7
      [] s.do = "dbup" -> 8
      [] s.do = "put" /\ s.of = "data" -> 9
      [] s.do = "failures" -> 10
      [] s.do = "up" -> 11
      [] OTHER -> 0
RanksOf(c) == CASE c = "restoreVolumes" -> {1, 2, 4, 5, 6, 7, 10, 11}
                [] c = "deployFiles" -> {1, 2, 3, 10, 11}
                [] OTHER -> 1 .. 11
Setter(x) == CASE x = "config" -> 3 [] x = "volume" -> 4 [] x = "bind" -> 7 [] OTHER -> 9

(* What each step is about and what its failure means.                     *)
Deeds == {"take", "record", "prune", "pick", "files-", "row-", "verify", "down", "put", "stage",
          "away", "in", "back", "preserve", "dbup", "failures", "up", "lock", "begin", "alter",
          "flock", "deploy", "funlock", "watch", "extract", "copydb", "opens", "copyrest", "export"}
Subjects == {"all", "any", "config", "data", "volumes", "volume", "bind", "migration", "manual",
             "pre-restore", "pre-rollback", "pre-migration", "pre-deploy"}
Ways == {"stop", "go", "skip", "note", "undo", "keep", "drop"}
Steps == [do : Deeds, of : Subjects, on : Ways]
Moves == {"stage", "away", "in", "back", "preserve"}
Sane(s) ==
    /\ s.on = "note" <=> Rank(s) \in {3, 4, 5, 6, 8, 9}
    /\ s.on = "undo" <=> s.do = "in"
    /\ s.on = "keep" <=> s.do = "back"
    /\ s.on = "drop" <=> s.do = "opens"
    /\ s.on = "skip" => s.do \in Snapshot
    /\ s.on = "go" => s.do \in {"prune", "files-", "funlock", "export", "preserve"}
    /\ s.do = "put" => s.of \in {"config", "volume", "data"}
    /\ s.do \in Moves => s.of = "bind"
    /\ s.do \in {"dbup", "alter"} => s.of = "data"
    /\ s.do = "pick" => s.of \in {"any", "pre-deploy", "migration"}
    /\ s.do = "take" => s.of \in {"config", "data", "volumes"}
    /\ s.do \in {"verify", "down", "failures", "up"} => s.of = "all"

(* The steps a command may have, and which may follow one another in it.   *)
Apart == {"take", "record", "prune", "pick", "files-", "row-", "export", "extract", "copydb",
          "opens", "copyrest"}
Fits(c, s) ==
    /\ c \in Harmless => s.do \in Apart
    /\ c \in Restores => Rank(s) \in RanksOf(c) \cup {0}
    /\ c \notin Restores => Rank(s) \in {0, 2, 11}
    /\ s.do = "record" /\ s.of = "pre-deploy" => c \in Deploys
    /\ s.do = "pick" /\ c \in Deploys => s.of = "pre-deploy"
Follows(c, a, b) ==
    /\ b.do \notin {"back", "preserve"}
    /\ b.do = "extract" => a.do = "export"
    /\ b.do = "copydb" => a.do = "extract"
    /\ b.do = "opens" => a.do = "copydb"
    /\ a.do = "pick" /\ c \in Serialised => b.do = "lock"
    /\ a.do = "pick" /\ c \in Deploys => Rank(b) = 1
    /\ c \in Restores =>
          IF Rank(b) = 0 THEN Rank(a) = 0
          ELSE Rank(a) < Rank(b) /\ \A r \in RanksOf(c) : r <= Rank(a) \/ r >= Rank(b)
Shape(c, q) ==
    /\ q \in Seq(Steps)
    /\ \A i \in 1 .. Len(q) : Sane(q[i]) /\ Fits(c, q[i])
    /\ \A i \in 1 .. (Len(q) - 1) : Follows(c, q[i], q[i + 1])
Opening(c, s) ==
    /\ s.do \notin {"extract", "copydb", "opens"}
    /\ c \in Restores => Rank(s) = 0
    /\ c \in Serialised => s.do \in {"pick", "lock"}
Ended(q) == q # <<>> => q[Len(q)].do # "away"
Plan(c, q) == Shape(c, q) /\ q # <<>> /\ Opening(c, q[1]) /\ Ended(q)

Rows == [id : 1 .. version, at : [Parts -> -2 .. version], trigger : Subjects,
         files : {"whole", "bad", "gone"}]
Jobs == [cmd : Commands \cup {Nobody}, todo : Seq(Steps), pick : 0 .. version,
         cap : [Parts -> -2 .. version], bad : BOOLEAN, snap : 0 .. version, own : 0 .. version,
         prev : -2 .. version, alone : BOOLEAN]
Typed ==
    /\ live \in [Parts -> -2 .. version] /\ run \in {"none", "db", "all"}
    /\ saved \subseteq Rows /\ IsFiniteSet(saved) /\ \A b, c \in saved : b.id = c.id => b = c
    /\ aside \subseteq -2 .. version /\ registry \in -2 .. 1 /\ exports \subseteq {0, 1}
    /\ mutex \in Processes \cup {Nobody} /\ flock \in Processes \cup {Nobody}
    /\ job \in [Processes -> Jobs] /\ version \in Nat \ {0} /\ faults \in Nat
InShape == \A p \in Processes : Shape(job[p].cmd, job[p].todo) /\ Ended(job[p].todo)
Underway(p) == Active(p) /\ job[p].todo # <<>>

ExportFirst ==
    /\ \A p \in Processes : Underway(p) /\ Now(p).do \in {"extract", "copydb", "opens"} =>
          exports # {} \/ faults >= 1
    /\ registry < 0 => faults >= 1
    /\ registry < 0 /\ exports = {} => faults >= 2

(* A stretch of a plan from step a to step b.                              *)
Piece(c, q, a, b) == Shape(c, q) /\ Len(q) > 0 /\ q[1] = a /\ q[Len(q)] = b

(* The bind directory that was moved away is known to the step that moves  *)
(* it back.                                                                *)
HoldsIt(p) ==
    /\ job[p].prev # None
    /\ Now(p).do = "back" => faults >= 1
    /\ Now(p).do = "preserve" => faults >= 2
BindKnown ==
    /\ \A p \in Processes :
          /\ job[p].prev # None => Underway(p) /\ Now(p).do \in {"in", "back", "preserve"}
          /\ Underway(p) /\ Now(p).do \in {"back", "preserve"} => job[p].prev # None /\ job[p].bad
          /\ Underway(p) /\ Now(p).do \in {"away", "in"} => job[p].cap["bind"] # None
    /\ None \notin aside
    /\ live["bind"] = None =>
          aside # {} \/ faults >= 3 \/ \E p \in Processes : HoldsIt(p)

(* Commands that count as alone do not disturb each other.                 *)
Apartness == \A p, q \in Processes : p # q /\ Active(p) /\ Active(q) /\ job[p].alone =>
                ~Disturbs(job[p].cmd, job[q].cmd)
HasMutex == \A p \in Processes :
    Underway(p) /\ job[p].cmd \in Serialised /\ Now(p).do \notin {"pick", "lock"} => mutex = p

OwnSnapshot(p) ==
    /\ job[p].own # 0 =>
          /\ \A b \in saved : b.trigger = "pre-deploy" => b.id <= job[p].own
          /\ \A b \in saved : b.id = job[p].own => b.trigger = "pre-deploy"
    /\ job[p].pick # 0 =>
          /\ job[p].todo # <<>> => Rank(Now(p)) > 0
          /\ job[p].own \in Ids => job[p].pick = job[p].own
DeployKnows == \A p \in Processes : job[p].cmd \in Deploys /\ job[p].alone => OwnSnapshot(p)

(* How far a restore that nothing disturbs is, by its next step.           *)
SoFar(p, h) ==
    /\ h > 1 /\ job[p].pick \in Ids => Chosen(p).files \in {"whole", "gone"}
    /\ h > 2 => run # "all"
    /\ h > 10 => ~job[p].bad
    /\ h > 2 /\ ~job[p].bad /\ job[p].pick \in Ids =>
          \A x \in Selected(p) : Setter(x) >= h \/ Held(p, x) = None \/ live[x] = Held(p, x)
    /\ h \in {6, 7} /\ ~job[p].bad /\ job[p].pick \in Ids => job[p].cap["bind"] = Held(p, "bind")
RestoresInOrder == \A p \in Processes :
    Underway(p) /\ job[p].cmd \in Restores /\ job[p].alone => SoFar(p, Rank(Now(p)))

-----------------------------------------------------------------------------
(* Restoration: a plan and what is left of it keep their shape.            *)
LEMMA SmallestIsThere ==
    ASSUME NEW set \in SUBSET Nat, set # {}
    PROVE  \E k \in set : \A i \in set : k <= i
<1> DEFINE T == {1 .. k : k \in set}
           R == StrictSubsetOrdering(Nat)
<1>1. \A k \in set : k \in Nat /\ 1 .. k \in SUBSET Nat /\ IsFiniteSet(1 .. k)
  BY FS_Interval
<1>2. T \subseteq FiniteSubsetsOf(Nat) /\ T # {}
  BY <1>1 DEF FiniteSubsetsOf
<1>3. IsWellFoundedOn(R, FiniteSubsetsOf(Nat))
  BY FS_StrictSubsetOrderingWellFounded DEF R
<1>4. \E x \in T : \A y \in T : ~ (<<y, x>> \in R)
  <2> HIDE DEF T, R
  <2> QED
    BY <1>2, <1>3, WFMin
<1>5. PICK k \in set : \A i \in set : ~ (<<1 .. i, 1 .. k>> \in R)
  BY <1>4
<1>6. ASSUME NEW i \in set, i < k PROVE FALSE
  <2>1. 1 .. i \subseteq 1 .. k /\ k \in 1 .. k /\ k \notin 1 .. i
    BY <1>1, <1>6
  <2>2. <<1 .. i, 1 .. k>> \in R
    BY <1>1, <2>1 DEF StrictSubsetOrdering
  <2> QED
    BY <1>5, <2>2
<1> QED
  BY <1>1, <1>5, <1>6

-----------------------------------------------------------------------------
(* Stretches of sequences.                                                 *)

LEMMA TailIs ==
    ASSUME NEW T, NEW q \in Seq(T), q # <<>>
    PROVE  /\ Tail(q) \in Seq(T) /\ Len(Tail(q)) = Len(q) - 1 /\ Len(q) \in Nat /\ Len(q) > 0
           /\ Head(q) = q[1] /\ q[1] \in T
           /\ \A i \in 1..(Len(q) - 1) : Tail(q)[i] = q[i + 1]
           /\ Tail(q) # <<>> => Len(q) > 1 /\ Head(Tail(q)) = q[2]
OBVIOUS

LEMMA RestIs ==
    ASSUME NEW T, NEW q \in Seq(T), NEW k \in 1..Len(q)
    PROVE  /\ SubSeq(q, k, Len(q)) \in Seq(T) /\ Len(SubSeq(q, k, Len(q))) = Len(q) - k + 1
           /\ \A i \in 1..(Len(q) - k + 1) : SubSeq(q, k, Len(q))[i] = q[k + i - 1]
           /\ SubSeq(q, k, Len(q)) # <<>> /\ Head(SubSeq(q, k, Len(q))) = q[k]
           /\ Len(q) \in Nat
<1> DEFINE r == SubSeq(q, k, Len(q))
<1>1. Len(q) \in Nat /\ k \in Nat /\ k <= Len(q) /\ k >= 1
  OBVIOUS
<1>2. r \in Seq(T)
  BY <1>1
<1>3. Len(r) = Len(q) - k + 1
  BY <1>1
<1>4. \A i \in 1..(Len(q) - k + 1) : r[i] = q[k + i - 1]
  BY <1>1
<1> HIDE DEF r
<1>5. r # <<>> /\ Head(r) = r[1] /\ r[1] = q[k]
  BY <1>1, <1>2, <1>3, <1>4
<1> QED
  BY <1>1, <1>2, <1>3, <1>4, <1>5 DEF r

LEMMA JoinIs ==
    ASSUME NEW T, NEW q \in Seq(T), NEW r \in Seq(T)
    PROVE  /\ q \o r \in Seq(T) /\ Len(q) \in Nat /\ Len(r) \in Nat
           /\ Len(q \o r) = Len(q) + Len(r)
           /\ \A i \in 1..Len(q) : (q \o r)[i] = q[i]
           /\ \A i \in 1..Len(r) : (q \o r)[Len(q) + i] = r[i]
OBVIOUS

LEMMA JoinNothing == ASSUME NEW T, NEW q \in Seq(T) PROVE q \o <<>> = q
OBVIOUS

LEMMA EmptyShape == ASSUME NEW c PROVE Shape(c, <<>>)
BY DEF Shape

LEMMA TailShape ==
    ASSUME NEW c, NEW q, Shape(c, q), q # <<>>
    PROVE  /\ Shape(c, Tail(q)) /\ Head(q) \in Steps /\ Sane(Head(q)) /\ Fits(c, Head(q))
           /\ Tail(q) # <<>> => Follows(c, Head(q), Head(Tail(q)))
<1>1. q \in Seq(Steps)
  BY DEF Shape
<1>2. /\ Tail(q) \in Seq(Steps) /\ Len(Tail(q)) = Len(q) - 1 /\ Len(q) \in Nat /\ Len(q) > 0
      /\ Head(q) = q[1] /\ q[1] \in Steps
      /\ \A i \in 1..(Len(q) - 1) : Tail(q)[i] = q[i + 1]
      /\ Tail(q) # <<>> => Len(q) > 1 /\ Head(Tail(q)) = q[2]
  BY <1>1, TailIs
<1>3. /\ \A i \in 1 .. Len(q) : Sane(q[i]) /\ Fits(c, q[i])
      /\ \A i \in 1 .. (Len(q) - 1) : Follows(c, q[i], q[i + 1])
  BY DEF Shape
<1>4. \A i \in 1 .. Len(Tail(q)) : Sane(Tail(q)[i]) /\ Fits(c, Tail(q)[i])
  BY <1>2, <1>3
<1>5. \A i \in 1 .. (Len(Tail(q)) - 1) : Follows(c, Tail(q)[i], Tail(q)[i + 1])
  <2> SUFFICES ASSUME NEW i \in 1 .. (Len(q) - 2) PROVE Follows(c, Tail(q)[i], Tail(q)[i + 1])
    BY <1>2
  <2>1. Tail(q)[i] = q[i + 1] /\ Tail(q)[i + 1] = q[i + 2]
    BY <1>2
  <2>2. i + 1 \in 1 .. (Len(q) - 1) /\ (i + 1) + 1 = i + 2
    BY <1>2
  <2>3. Follows(c, q[i + 1], q[(i + 1) + 1])
    BY <1>3, <2>2
  <2> QED
    BY <2>1, <2>2, <2>3
<1>6. Tail(q) # <<>> => Follows(c, q[1], q[1 + 1])
  BY <1>2, <1>3
<1> QED
  BY <1>2, <1>3, <1>4, <1>5, <1>6 DEF Shape

LEMMA RestShape ==
    ASSUME NEW c, NEW q, Shape(c, q), NEW k \in 1..Len(q)
    PROVE  /\ Shape(c, SubSeq(q, k, Len(q))) /\ SubSeq(q, k, Len(q)) # <<>>
           /\ Head(SubSeq(q, k, Len(q))) = q[k] /\ q[k] \in Steps /\ Sane(q[k])
           /\ k > 1 => k - 1 \in 1..Len(q) /\ Follows(c, q[k - 1], q[k])
                       /\ q[k - 1] \in Steps /\ Sane(q[k - 1]) /\ Fits(c, q[k - 1])
<1> DEFINE r == SubSeq(q, k, Len(q))
           n == Len(q)
<1>1. q \in Seq(Steps) /\ n \in Nat
  BY DEF Shape
<1>2. /\ r \in Seq(Steps) /\ Len(r) = n - k + 1
      /\ \A i \in 1..(n - k + 1) : r[i] = q[k + i - 1]
      /\ r # <<>> /\ Head(r) = q[k]
  BY <1>1, RestIs
<1>3. /\ \A i \in 1 .. n : q[i] \in Steps /\ Sane(q[i]) /\ Fits(c, q[i])
      /\ \A i \in 1 .. (n - 1) : Follows(c, q[i], q[i + 1])
  BY <1>1 DEF Shape
<1> HIDE DEF r
<1>4. \A i \in 1 .. Len(r) : Sane(r[i]) /\ Fits(c, r[i])
  <2> SUFFICES ASSUME NEW i \in 1 .. (n - k + 1) PROVE Sane(r[i]) /\ Fits(c, r[i])
    BY <1>2
  <2>1. r[i] = q[k + i - 1] /\ k + i - 1 \in 1 .. n
    BY <1>1, <1>2
  <2> QED
    BY <1>3, <2>1
<1>5. \A i \in 1 .. (Len(r) - 1) : Follows(c, r[i], r[i + 1])
  <2> SUFFICES ASSUME NEW i \in 1 .. (n - k) PROVE Follows(c, r[i], r[i + 1])
    BY <1>1, <1>2
  <2>1. r[i] = q[k + i - 1] /\ r[i + 1] = q[k + i]
    BY <1>1, <1>2
  <2>2. k + i - 1 \in 1 .. (n - 1) /\ (k + i - 1) + 1 = k + i
    BY <1>1
  <2>3. Follows(c, q[k + i - 1], q[(k + i - 1) + 1])
    BY <1>3, <2>2
  <2> QED
    BY <2>1, <2>2, <2>3
<1>6. ASSUME k > 1
      PROVE  k - 1 \in 1 .. n /\ Follows(c, q[k - 1], q[k])
             /\ q[k - 1] \in Steps /\ Sane(q[k - 1]) /\ Fits(c, q[k - 1])
  <2>1. k - 1 \in 1 .. (n - 1) /\ k - 1 \in 1 .. n /\ (k - 1) + 1 = k
    BY <1>1, <1>6
  <2>2. Follows(c, q[k - 1], q[(k - 1) + 1])
    BY <1>3, <2>1
  <2> QED
    BY <1>3, <2>1, <2>2
<1> QED
  BY <1>2, <1>3, <1>4, <1>5, <1>6 DEF Shape, r

LEMMA JoinShape ==
    ASSUME NEW c, NEW q, NEW r, NEW a, NEW b, NEW x, NEW y,
           Piece(c, q, a, b), Piece(c, r, x, y), Follows(c, b, x)
    PROVE  Piece(c, q \o r, a, y)
<1> DEFINE m == Len(q)
           n == Len(r)
           t == q \o r
<1>1. q \in Seq(Steps) /\ r \in Seq(Steps) /\ m \in Nat /\ n \in Nat /\ m > 0 /\ n > 0
      /\ q[1] = a /\ q[m] = b /\ r[1] = x /\ r[n] = y
  BY DEF Piece, Shape
<1>2. /\ t \in Seq(Steps) /\ Len(t) = m + n
      /\ \A i \in 1..m : t[i] = q[i]
      /\ \A i \in 1..n : t[m + i] = r[i]
  BY <1>1, JoinIs
<1>3. /\ \A i \in 1 .. m : Sane(q[i]) /\ Fits(c, q[i])
      /\ \A i \in 1 .. (m - 1) : Follows(c, q[i], q[i + 1])
      /\ \A i \in 1 .. n : Sane(r[i]) /\ Fits(c, r[i])
      /\ \A i \in 1 .. (n - 1) : Follows(c, r[i], r[i + 1])
  BY DEF Piece, Shape
<1> HIDE DEF t, m, n
<1>4. \A i \in 1 .. (m + n) : i \in 1 .. m \/ (i - m \in 1 .. n /\ m + (i - m) = i)
  BY <1>1
<1>5. \A i \in 1 .. Len(t) : Sane(t[i]) /\ Fits(c, t[i])
  <2> SUFFICES ASSUME NEW i \in 1 .. (m + n) PROVE Sane(t[i]) /\ Fits(c, t[i])
    BY <1>2
  <2>1. CASE i \in 1 .. m
    BY <1>2, <1>3, <2>1
  <2>2. CASE i - m \in 1 .. n /\ m + (i - m) = i
    <3>1. t[m + (i - m)] = r[i - m]
      BY <1>2, <2>2
    <3> QED
      BY <1>3, <2>2, <3>1
  <2> QED
    BY <1>4, <2>1, <2>2
<1>6. \A i \in 1 .. (Len(t) - 1) : Follows(c, t[i], t[i + 1])
  <2>0. Len(t) - 1 = m + n - 1
    <3>1. Len(t) = m + n
      BY <1>2
    <3> QED
      BY <1>1, <3>1
  <2> SUFFICES ASSUME NEW i \in 1 .. (m + n - 1) PROVE Follows(c, t[i], t[i + 1])
    BY <2>0
  <2>1. CASE i \in 1 .. (m - 1)
    <3>1. i \in 1 .. m /\ i + 1 \in 1 .. m
      BY <1>1, <2>1
    <3> QED
      BY <1>2, <1>3, <2>1, <3>1
  <2>2. CASE i = m
    <3>1. m \in 1 .. m /\ 1 \in 1 .. n
      BY <1>1
    <3>2. t[m] = q[m] /\ t[m + 1] = r[1]
      BY <1>2, <3>1
    <3> QED
      BY <1>1, <2>2, <3>2
  <2>3. CASE i > m
    <3>1. i - m \in 1 .. (n - 1) /\ i - m \in 1 .. n /\ (i - m) + 1 \in 1 .. n
          /\ m + (i - m) = i /\ m + ((i - m) + 1) = i + 1
      BY <1>1, <2>3
    <3>2. t[m + (i - m)] = r[i - m] /\ t[m + ((i - m) + 1)] = r[(i - m) + 1]
      BY <1>2, <3>1
    <3>3. Follows(c, r[i - m], r[(i - m) + 1])
      BY <1>3, <3>1
    <3> QED
      BY <3>1, <3>2, <3>3
  <2> QED
    BY <1>1, <2>1, <2>2, <2>3
<1>7. t[1] = a /\ t[m + n] = y
  <2>1. 1 \in 1 .. m /\ n \in 1 .. n
    BY <1>1
  <2> QED
    BY <1>1, <1>2, <2>1
<1>8. Shape(c, t)
  BY <1>2, <1>5, <1>6 DEF Shape
<1>9. Len(t) > 0 /\ t[Len(t)] = y
  <2>1. m + n > 0
    BY <1>1
  <2> QED
    BY <1>2, <1>7, <2>1
<1> QED
  BY <1>7, <1>8, <1>9 DEF Piece, t

LEMMA OneStep ==
    ASSUME NEW c, NEW s \in Steps, Sane(s), Fits(c, s)
    PROVE  Piece(c, <<s>>, s, s)
BY DEF Piece, Shape

LEMMA ShapeOfPiece ==
    ASSUME NEW c, NEW q, NEW a, NEW b, Piece(c, q, a, b)
    PROVE  Shape(c, q) /\ q # <<>> /\ Head(q) = a /\ q[1] = a /\ q \o <<>> = q
BY DEF Piece, Shape

(* What is left after the steps of a set were dropped from the front.      *)
LEMMA DropIs ==
    ASSUME NEW q \in Seq(Steps), NEW out
    PROVE  \/ Drop(q, out) = <<>>
           \/ \E k \in 1..Len(q) : /\ Drop(q, out) = SubSeq(q, k, Len(q)) /\ q[k] \notin out
                                   /\ k > 1 => q[k - 1] \in out
<1> DEFINE keep == {i \in DOMAIN q : q[i] \notin out}
           n == Len(q)
<1>1. n \in Nat /\ DOMAIN q = 1 .. n
  OBVIOUS
<1>2. CASE keep = {}
  BY <1>2 DEF Drop
<1>3. CASE keep # {}
  <2>1. \E k \in keep : \A i \in keep : k <= i
    <3>1. keep \subseteq Nat /\ keep # {}
      BY <1>1, <1>3
    <3> HIDE DEF keep
    <3> QED
      BY <3>1, SmallestIsThere
  <2>2. Min(keep) \in keep /\ \A i \in keep : Min(keep) <= i
    BY <2>1 DEF Min
  <2>3. Drop(q, out) = SubSeq(q, Min(keep), Len(q))
    BY <1>3 DEF Drop
  <2> DEFINE k == Min(keep)
  <2> HIDE DEF k
  <2>4. k \in 1 .. n /\ q[k] \notin out
    BY <1>1, <2>2 DEF k
  <2>5. k > 1 => q[k - 1] \in out
    <3> SUFFICES ASSUME k > 1, q[k - 1] \notin out PROVE FALSE
      OBVIOUS
    <3>1. k - 1 \in DOMAIN q
      BY <1>1, <2>4
    <3>2. k - 1 \in keep
      BY <3>1
    <3>3. k <= k - 1
      BY <2>2, <3>2 DEF k
    <3> QED
      BY <2>4, <3>3
  <2> QED
    BY <2>3, <2>4, <2>5 DEF k
<1> QED
  BY <1>2, <1>3

-----------------------------------------------------------------------------
(* The plans have this shape.                                              *)

PartsOf(c) == CASE c = "deployFiles" -> {"config"}
                [] c = "restoreVolumes" -> {"bind", "volume"}
                [] OTHER -> Parts

LEMMA CommandNames ==
    /\ Commands = {"create", "delete", "apiCreate", "apiDelete", "restore", "restoreVolumes",
                   "rollback", "rollbackBare", "migrate", "migrateBare", "migrateBack", "deploy",
                   "deployFiles", "apiRestore", "apiStart", "apiStop", "export", "import"}
    /\ Restores = {"restore", "restoreVolumes", "rollback", "rollbackBare", "migrateBack", "deploy",
                   "deployFiles", "apiRestore"}
    /\ Nobody \notin Commands
<1>1. Commands = {"create", "delete", "apiCreate", "apiDelete", "restore", "restoreVolumes",
                   "rollback", "rollbackBare", "migrate", "migrateBare", "migrateBack", "deploy",
                   "deployFiles", "apiRestore", "apiStart", "apiStop", "export", "import"}
  BY DEF Commands, Plans
<1> QED
  BY <1>1 DEF Restores, Harmless, Nobody

LEMMA StepIs ==
    ASSUME NEW do, NEW of, NEW on
    PROVE  S(do, of, on).do = do /\ S(do, of, on).of = of /\ S(do, of, on).on = on
BY DEF S

LEMMA StepType ==
    ASSUME NEW do \in Deeds, NEW of \in Subjects, NEW on \in Ways
    PROVE  S(do, of, on) \in Steps
BY DEF S, Steps

(* The steps of RestoreBackup.                                             *)
LEMMA RestoreSteps ==
    ASSUME NEW c \in Restores,
           NEW s \in {S("verify", "all", "stop"), S("down", "all", "stop"), S("put", "config", "note"),
                      S("put", "volume", "note"), S("stage", "bind", "note"), S("away", "bind", "note"),
                      S("in", "bind", "undo"), S("dbup", "data", "note"), S("put", "data", "note"),
                      S("failures", "all", "stop"), S("up", "all", "stop")},
           Rank(s) \in RanksOf(c)
    PROVE  Piece(c, <<s>>, s, s)
<1>1. s \in Steps
  BY StepType DEF Deeds, Subjects, Ways
<1>2. Sane(s)
  BY StepIs DEF Sane, Rank, Snapshot, Moves
<1>3. s.do # "record" /\ s.do # "pick" /\ c \notin Harmless
  BY StepIs DEF Restores
<1>4. Fits(c, s)
  BY <1>3 DEF Fits
<1> QED
  BY <1>1, <1>2, <1>4, OneStep

LEMMA RestoreOrder ==
    ASSUME NEW c \in Restores, NEW a, NEW b,
           b.do \notin {"back", "preserve", "extract", "copydb", "opens"}, a.do # "pick",
           Rank(a) < Rank(b), Rank(b) # 0, \A r \in RanksOf(c) : r <= Rank(a) \/ r >= Rank(b)
    PROVE  Follows(c, a, b)
BY DEF Follows

LEMMA RestoreRanks ==
    /\ Rank(S("verify", "all", "stop")) = 1 /\ Rank(S("down", "all", "stop")) = 2
    /\ Rank(S("put", "config", "note")) = 3 /\ Rank(S("put", "volume", "note")) = 4
    /\ Rank(S("stage", "bind", "note")) = 5 /\ Rank(S("away", "bind", "note")) = 6
    /\ Rank(S("in", "bind", "undo")) = 7 /\ Rank(S("dbup", "data", "note")) = 8
    /\ Rank(S("put", "data", "note")) = 9 /\ Rank(S("failures", "all", "stop")) = 10
    /\ Rank(S("up", "all", "stop")) = 11
BY DEF Rank, S

LEMMA Splits ==
    ASSUME NEW T, NEW a \in T, NEW b \in T, NEW c \in T
    PROVE  <<a, b>> = <<a>> \o <<b>> /\ <<a, b, c>> = <<a, b>> \o <<c>>
<1>1. ASSUME NEW q \in Seq(T), NEW r \in Seq(T), Len(q) = Len(r), \A i \in 1 .. Len(q) : q[i] = r[i]
      PROVE  q = r
  BY <1>1
<1>2. <<a, b>> \in Seq(T) /\ Len(<<a, b>>) = 2 /\ <<a, b>>[1] = a /\ <<a, b>>[2] = b
  OBVIOUS
<1>3. /\ <<a>> \o <<b>> \in Seq(T) /\ Len(<<a>> \o <<b>>) = 2
      /\ (<<a>> \o <<b>>)[1] = a /\ (<<a>> \o <<b>>)[2] = b
  OBVIOUS
<1>4. <<a, b>> = <<a>> \o <<b>>
  <2> DEFINE q == <<a, b>>
             r == <<a>> \o <<b>>
  <2>1. q \in Seq(T) /\ r \in Seq(T) /\ Len(q) = 2 /\ Len(r) = 2 /\ q[1] = r[1] /\ q[2] = r[2]
    BY <1>2, <1>3
  <2> HIDE DEF q, r
  <2>2. q = r
    BY <1>1, <2>1
  <2> QED
    BY <2>2 DEF q, r
<1>5. <<a, b, c>> = <<a, b>> \o <<c>>
  <2> DEFINE q == <<a, b, c>>
             r == <<a, b>> \o <<c>>
  <2>1. q \in Seq(T) /\ Len(q) = 3 /\ q[1] = a /\ q[2] = b /\ q[3] = c
    OBVIOUS
  <2>2. r \in Seq(T) /\ Len(r) = 3 /\ r[1] = a /\ r[2] = b /\ r[3] = c
    OBVIOUS
  <2> HIDE DEF q, r
  <2>3. q = r
    BY <1>1, <2>1, <2>2
  <2> QED
    BY <2>3 DEF q, r
<1> QED
  BY <1>4, <1>5

LEMMA RestoreShape ==
    ASSUME NEW c \in Restores
    PROVE  Piece(c, RestoreBackup(PartsOf(c)), S("verify", "all", "stop"), S("up", "all", "stop"))
<1> DEFINE v == S("verify", "all", "stop")
           d == S("down", "all", "stop")
           pf == S("put", "config", "note")
           pv == S("put", "volume", "note")
           st == S("stage", "bind", "note")
           aw == S("away", "bind", "note")
           mi == S("in", "bind", "undo")
           db == S("dbup", "data", "note")
           pd == S("put", "data", "note")
           fs == S("failures", "all", "stop")
           up == S("up", "all", "stop")
           All == {v, d, pf, pv, st, aw, mi, db, pd, fs, up}
<1>1. /\ Rank(v) = 1 /\ Rank(d) = 2 /\ Rank(pf) = 3 /\ Rank(pv) = 4 /\ Rank(st) = 5 /\ Rank(aw) = 6
      /\ Rank(mi) = 7 /\ Rank(db) = 8 /\ Rank(pd) = 9 /\ Rank(fs) = 10 /\ Rank(up) = 11
  BY RestoreRanks
<1>2. \A s \in All : s.do \notin {"back", "preserve", "extract", "copydb", "opens"} /\ s.do # "pick"
  BY StepIs
<1>12. \A s \in All : s \in Steps
  BY StepType DEF Deeds, Subjects, Ways
<1>3. /\ v \in All /\ d \in All /\ pf \in All /\ pv \in All /\ st \in All /\ aw \in All /\ mi \in All
      /\ db \in All /\ pd \in All /\ fs \in All /\ up \in All
  OBVIOUS
<1>4. \A s \in All : Rank(s) \in RanksOf(c) => Piece(c, <<s>>, s, s)
  BY RestoreSteps
<1>5. \A a, b \in All : Rank(a) < Rank(b) /\ Rank(b) # 0
                        /\ (\A r \in RanksOf(c) : r <= Rank(a) \/ r >= Rank(b)) => Follows(c, a, b)
  BY <1>2, RestoreOrder
<1>6. /\ Preflight = <<v>> /\ restoreConfigFiles = <<pf>> /\ restoreNamedVolume = <<pv>>
      /\ restoreProjectBindMount = <<st, aw, mi>> /\ restoreDatabases = <<db, pd>>
  BY DEF Preflight, restoreConfigFiles, restoreNamedVolume, restoreProjectBindMount, restoreDatabases
<1>7. /\ <<st, aw>> = <<st>> \o <<aw>> /\ <<st, aw, mi>> = <<st, aw>> \o <<mi>>
      /\ <<db, pd>> = <<db>> \o <<pd>>
      /\ <<fs, up>> = <<fs>> \o <<up>>
  <2> HIDE DEF v, d, pf, pv, st, aw, mi, db, pd, fs, up, All
  <2>1. st \in All /\ aw \in All /\ mi \in All /\ db \in All /\ pd \in All /\ fs \in All /\ up \in All
    BY <1>3
  <2>5. <<st, aw>> = <<st>> \o <<aw>>
    BY <2>1, Splits
  <2>6. <<st, aw, mi>> = <<st, aw>> \o <<mi>>
    BY <2>1, Splits
  <2>2. <<st, aw>> = <<st>> \o <<aw>> /\ <<st, aw, mi>> = <<st, aw>> \o <<mi>>
    BY <2>5, <2>6
  <2>3. <<db, pd>> = <<db>> \o <<pd>>
    BY <2>1, Splits
  <2>4. <<fs, up>> = <<fs>> \o <<up>>
    BY <2>1, Splits
  <2> QED
    BY <2>2, <2>3, <2>4
<1> HIDE DEF v, d, pf, pv, st, aw, mi, db, pd, fs, up, All
<1>8. CASE c = "deployFiles"
  <2>1. RanksOf(c) = {1, 2, 3, 10, 11} /\ PartsOf(c) = {"config"}
    BY <1>8 DEF RanksOf, PartsOf
  <2>2. Piece(c, <<v>> \o <<d>>, v, d)
    <3>1. Piece(c, <<v>>, v, v) /\ Piece(c, <<d>>, d, d) /\ Follows(c, v, d)
      BY <1>1, <1>3, <1>4, <1>5, <2>1
    <3> QED
      BY <3>1, JoinShape
  <2>3. Piece(c, (<<v>> \o <<d>>) \o <<pf>>, v, pf)
    <3>1. Piece(c, <<pf>>, pf, pf) /\ Follows(c, d, pf)
      BY <1>1, <1>3, <1>4, <1>5, <2>1
    <3> QED
      BY <2>2, <3>1, JoinShape
  <2>4. Piece(c, <<fs, up>>, fs, up)
    <3>1. Piece(c, <<fs>>, fs, fs) /\ Piece(c, <<up>>, up, up) /\ Follows(c, fs, up)
      BY <1>1, <1>3, <1>4, <1>5, <2>1
    <3> QED
      BY <1>7, <3>1, JoinShape
  <2>5. Piece(c, ((<<v>> \o <<d>>) \o <<pf>>) \o <<fs, up>>, v, up)
    <3>1. Follows(c, pf, fs)
      BY <1>1, <1>3, <1>5, <2>1
    <3> QED
      BY <2>3, <2>4, <3>1, JoinShape
  <2>6. ((<<v>> \o <<d>>) \o <<pf>>) \o <<>> = (<<v>> \o <<d>>) \o <<pf>>
    BY <2>3, ShapeOfPiece
  <2>7. RestoreBackup(PartsOf(c)) = ((((<<v>> \o <<d>>) \o <<pf>>) \o <<>>) \o <<>>) \o <<fs, up>>
    BY <1>6, <2>1 DEF RestoreBackup, d, fs, up
  <2> QED
    BY <2>5, <2>6, <2>7 DEF v, up
<1>9. ASSUME 4 \in RanksOf(c), 5 \in RanksOf(c), 6 \in RanksOf(c), 7 \in RanksOf(c),
             RanksOf(c) \subseteq 1 .. 11
      PROVE  Piece(c, <<pv>> \o <<st, aw, mi>>, pv, mi)
  <2>1. Piece(c, <<pv>>, pv, pv) /\ Piece(c, <<st>>, st, st) /\ Piece(c, <<aw>>, aw, aw) /\ Piece(c, <<mi>>, mi, mi)
    BY <1>1, <1>3, <1>4, <1>9
  <2>2. Follows(c, pv, st) /\ Follows(c, st, aw) /\ Follows(c, aw, mi)
    BY <1>1, <1>3, <1>5, <1>9
  <2>3. Piece(c, <<st, aw>>, st, aw)
    BY <1>7, <2>1, <2>2, JoinShape
  <2>4. Piece(c, <<st, aw, mi>>, st, mi)
    BY <1>7, <2>1, <2>2, <2>3, JoinShape
  <2> QED
    BY <2>1, <2>2, <2>4, JoinShape
<1>10. CASE c = "restoreVolumes"
  <2>1. RanksOf(c) = {1, 2, 4, 5, 6, 7, 10, 11} /\ PartsOf(c) = {"bind", "volume"}
    BY <1>10 DEF RanksOf, PartsOf
  <2>2. Piece(c, <<v>> \o <<d>>, v, d)
    <3>1. Piece(c, <<v>>, v, v) /\ Piece(c, <<d>>, d, d) /\ Follows(c, v, d)
      BY <1>1, <1>3, <1>4, <1>5, <2>1
    <3> QED
      BY <3>1, JoinShape
  <2>3. Piece(c, (<<v>> \o <<d>>) \o (<<pv>> \o <<st, aw, mi>>), v, mi)
    <3>1. Piece(c, <<pv>> \o <<st, aw, mi>>, pv, mi)
      BY <1>9, <2>1
    <3>2. Follows(c, d, pv)
      BY <1>1, <1>3, <1>5, <2>1
    <3> QED
      BY <2>2, <3>1, <3>2, JoinShape
  <2>4. Piece(c, <<fs, up>>, fs, up)
    <3>1. Piece(c, <<fs>>, fs, fs) /\ Piece(c, <<up>>, up, up) /\ Follows(c, fs, up)
      BY <1>1, <1>3, <1>4, <1>5, <2>1
    <3> QED
      BY <1>7, <3>1, JoinShape
  <2>5. Piece(c, ((<<v>> \o <<d>>) \o (<<pv>> \o <<st, aw, mi>>)) \o <<fs, up>>, v, up)
    <3>1. Follows(c, mi, fs)
      BY <1>1, <1>3, <1>5, <2>1
    <3> QED
      BY <2>3, <2>4, <3>1, JoinShape
  <2>6. /\ (<<v>> \o <<d>>) \o <<>> = <<v>> \o <<d>>
        /\ ((<<v>> \o <<d>>) \o (<<pv>> \o <<st, aw, mi>>)) \o <<>> = (<<v>> \o <<d>>) \o (<<pv>> \o <<st, aw, mi>>)
    BY <2>2, <2>3, ShapeOfPiece
  <2>7. RestoreBackup(PartsOf(c))
          = ((((<<v>> \o <<d>>) \o <<>>) \o (<<pv>> \o <<st, aw, mi>>)) \o <<>>) \o <<fs, up>>
    BY <1>6, <2>1 DEF RestoreBackup, d, fs, up
  <2> QED
    BY <2>5, <2>6, <2>7 DEF v, up
<1>11. CASE c \notin {"deployFiles", "restoreVolumes"}
  <2>1. RanksOf(c) = 1 .. 11 /\ PartsOf(c) = Parts
    BY <1>11 DEF RanksOf, PartsOf
  <2>2. Piece(c, <<v>> \o <<d>>, v, d)
    <3>1. Piece(c, <<v>>, v, v) /\ Piece(c, <<d>>, d, d) /\ Follows(c, v, d)
      BY <1>1, <1>3, <1>4, <1>5, <2>1
    <3> QED
      BY <3>1, JoinShape
  <2>3. Piece(c, (<<v>> \o <<d>>) \o <<pf>>, v, pf)
    <3>1. Piece(c, <<pf>>, pf, pf) /\ Follows(c, d, pf)
      BY <1>1, <1>3, <1>4, <1>5, <2>1
    <3> QED
      BY <2>2, <3>1, JoinShape
  <2>4. Piece(c, ((<<v>> \o <<d>>) \o <<pf>>) \o (<<pv>> \o <<st, aw, mi>>), v, mi)
    <3>1. Piece(c, <<pv>> \o <<st, aw, mi>>, pv, mi)
      BY <1>9, <2>1
    <3>2. Follows(c, pf, pv)
      BY <1>1, <1>3, <1>5, <2>1
    <3> QED
      BY <2>3, <3>1, <3>2, JoinShape
  <2>5. Piece(c, (((<<v>> \o <<d>>) \o <<pf>>) \o (<<pv>> \o <<st, aw, mi>>)) \o <<db, pd>>, v, pd)
    <3>1. Piece(c, <<db>>, db, db) /\ Piece(c, <<pd>>, pd, pd) /\ Follows(c, db, pd) /\ Follows(c, mi, db)
      BY <1>1, <1>3, <1>4, <1>5, <2>1
    <3>2. Piece(c, <<db, pd>>, db, pd)
      BY <1>7, <3>1, JoinShape
    <3> QED
      BY <2>4, <3>1, <3>2, JoinShape
  <2>6. Piece(c, <<fs, up>>, fs, up)
    <3>1. Piece(c, <<fs>>, fs, fs) /\ Piece(c, <<up>>, up, up) /\ Follows(c, fs, up)
      BY <1>1, <1>3, <1>4, <1>5, <2>1
    <3> QED
      BY <1>7, <3>1, JoinShape
  <2>7. Piece(c, ((((<<v>> \o <<d>>) \o <<pf>>) \o (<<pv>> \o <<st, aw, mi>>)) \o <<db, pd>>) \o <<fs, up>>, v, up)
    <3>1. Follows(c, pd, fs)
      BY <1>1, <1>3, <1>5, <2>1
    <3> QED
      BY <2>5, <2>6, <3>1, JoinShape
  <2>8. RestoreBackup(PartsOf(c))
          = ((((<<v>> \o <<d>>) \o <<pf>>) \o (<<pv>> \o <<st, aw, mi>>)) \o <<db, pd>>) \o <<fs, up>>
    BY <1>6, <2>1 DEF RestoreBackup, Parts, Owned, Dumped, Archived, d, fs, up
  <2> QED
    BY <2>7, <2>8 DEF v, up
<1> QED
  BY <1>8, <1>10, <1>11

LEMMA PlanOfPiece ==
    ASSUME NEW c, NEW q, NEW a, NEW b, Piece(c, q, a, b), Opening(c, a), b.do # "away"
    PROVE  Plan(c, q)
BY ShapeOfPiece DEF Plan, Ended, Piece

LEMMA TwoSteps ==
    ASSUME NEW c, NEW r \in Steps, NEW s \in Steps, Sane(r), Fits(c, r), Sane(s), Fits(c, s),
           Follows(c, r, s)
    PROVE  Piece(c, <<r, s>>, r, s)
BY DEF Piece, Shape

LEMMA FourSteps ==
    ASSUME NEW c, NEW r \in Steps, NEW s \in Steps, NEW t \in Steps, NEW u \in Steps,
           Sane(r), Fits(c, r), Sane(s), Fits(c, s), Sane(t), Fits(c, t), Sane(u), Fits(c, u),
           Follows(c, r, s), Follows(c, s, t), Follows(c, t, u)
    PROVE  Piece(c, <<r, s, t, u>>, r, u)
<1> DEFINE q == <<r, s, t, u>>
<1>1. q \in Seq(Steps) /\ Len(q) = 4 /\ q[1] = r /\ q[2] = s /\ q[3] = t /\ q[4] = u
  OBVIOUS
<1> HIDE DEF q
<1>2. \A i \in 1 .. Len(q) : i = 1 \/ i = 2 \/ i = 3 \/ i = 4
  BY <1>1
<1>3. \A i \in 1 .. Len(q) : Sane(q[i]) /\ Fits(c, q[i])
  BY <1>1, <1>2
<1>4. \A i \in 1 .. (Len(q) - 1) : i = 1 \/ i = 2 \/ i = 3
  BY <1>1
<1>5. \A i \in 1 .. (Len(q) - 1) : Follows(c, q[i], q[i + 1])
  <2>1. Follows(c, q[1], q[1 + 1]) /\ Follows(c, q[2], q[2 + 1]) /\ Follows(c, q[3], q[3 + 1])
    BY <1>1
  <2> QED
    BY <1>4, <2>1
<1>6. Piece(c, q, r, u)
  BY <1>1, <1>3, <1>5 DEF Piece, Shape
<1> QED
  BY <1>6 DEF q

(* Steps before the verification of a restore follow each other freely.    *)
LEMMA Freely ==
    ASSUME NEW c, NEW a, NEW b, Rank(a) = 0, Rank(b) = 0, a.do # "pick",
           b.do \notin {"back", "preserve", "extract", "copydb", "opens"}
    PROVE  Follows(c, a, b)
BY DEF Follows

LEMMA CreateShape ==
    ASSUME NEW c, NEW on \in {"stop", "skip"},
           NEW t \in {"manual", "pre-restore", "pre-rollback", "pre-migration", "pre-deploy"},
           t = "pre-deploy" => c \in Deploys
    PROVE  Piece(c, CreateBackup(t, on), S("take", "config", on), S("record", t, on))
<1> DEFINE C == S("take", "config", on)
           D == S("take", "data", on)
           V == S("take", "volumes", on)
           R == S("record", t, on)
<1>1. CreateBackup(t, on) = <<C, D, V, R>>
  BY DEF CreateBackup, BackupConfigFiles, BackupDatabases, BackupVolumes
<1>2. C \in Steps /\ D \in Steps /\ V \in Steps /\ R \in Steps
  BY StepType DEF Deeds, Subjects, Ways
<1>3. /\ C.do = "take" /\ D.do = "take" /\ V.do = "take" /\ R.do = "record"
      /\ C.of = "config" /\ D.of = "data" /\ V.of = "volumes" /\ R.of = t
      /\ C.on = on /\ D.on = on /\ V.on = on /\ R.on = on
  BY StepIs
<1> HIDE DEF C, D, V, R
<1>4. Rank(C) = 0 /\ Rank(D) = 0 /\ Rank(V) = 0 /\ Rank(R) = 0
  BY <1>3 DEF Rank
<1>5. Sane(C) /\ Sane(D) /\ Sane(V) /\ Sane(R)
  BY <1>3, <1>4 DEF Sane, Snapshot, Moves
<1>6. Fits(c, C) /\ Fits(c, D) /\ Fits(c, V) /\ Fits(c, R)
  BY <1>3, <1>4 DEF Fits, Apart
<1>7. Follows(c, C, D) /\ Follows(c, D, V) /\ Follows(c, V, R)
  BY <1>3, <1>4, Freely
<1>8. Piece(c, <<C, D, V, R>>, C, R)
  BY <1>2, <1>5, <1>6, <1>7, FourSteps
<1> QED
  BY <1>1, <1>8 DEF C, R

Prune == S("prune", "all", "go")
Flock == S("flock", "all", "stop")
Release == S("deploy", "all", "stop")
Funlock == S("funlock", "all", "go")
Watch == S("watch", "all", "stop")
Begin1 == S("begin", "all", "stop")
Alter == S("alter", "data", "stop")
Pick(of) == S("pick", of, "stop")
Lock == S("lock", "all", "stop")
Verify == S("verify", "all", "stop")

LEMMA PlainSteps ==
    ASSUME NEW s \in {Prune, Flock, Release, Funlock, Watch, Begin1, Alter, Lock}
    PROVE  /\ s \in Steps /\ Rank(s) = 0 /\ Sane(s)
           /\ s.do \in {"prune", "flock", "deploy", "funlock", "watch", "begin", "alter", "lock"}
<1>1. s \in Steps
  BY StepType DEF Deeds, Subjects, Ways, Prune, Flock, Release, Funlock, Watch, Begin1, Alter, Lock
<1>2. /\ s.do \in {"prune", "flock", "deploy", "funlock", "watch", "begin", "alter", "lock"}
      /\ s.on \in {"stop", "go"} /\ (s.on = "go" => s.do \in {"prune", "funlock"})
      /\ s.do = "alter" => s.of = "data"
  BY StepIs DEF Prune, Flock, Release, Funlock, Watch, Begin1, Alter, Lock
<1>3. Rank(s) = 0
  BY <1>2 DEF Rank
<1>4. Sane(s)
  BY <1>2, <1>3 DEF Sane, Moves
<1> QED
  BY <1>1, <1>2, <1>3, <1>4

LEMMA PlainPiece ==
    ASSUME NEW c, c \notin Harmless, NEW s \in {Prune, Flock, Release, Funlock, Watch, Begin1, Alter, Lock}
    PROVE  Piece(c, <<s>>, s, s) /\ Fits(c, s)
<1>1. Fits(c, s)
  BY PlainSteps DEF Fits
<1> QED
  BY <1>1, PlainSteps, OneStep

LEMMA PickPiece ==
    ASSUME NEW c \in Commands, NEW of \in {"any", "pre-deploy", "migration"},
           c \in Deploys => of = "pre-deploy"
    PROVE  /\ Piece(c, <<Pick(of)>>, Pick(of), Pick(of))
           /\ Rank(Pick(of)) = 0 /\ Pick(of).do = "pick"
<1>1. Pick(of) \in Steps
  BY StepType DEF Deeds, Subjects, Ways, Pick
<1>2. Pick(of).do = "pick" /\ Pick(of).of = of /\ Pick(of).on = "stop"
  BY StepIs DEF Pick
<1>3. Rank(Pick(of)) = 0
  BY <1>2 DEF Rank
<1>4. Sane(Pick(of))
  BY <1>2, <1>3 DEF Sane, Moves
<1>5. Fits(c, Pick(of))
  BY <1>2, <1>3 DEF Fits, Apart
<1> QED
  BY <1>1, <1>2, <1>3, <1>4, <1>5, OneStep

(* A choice, a backup of the present state where there is one, the restore.*)
LEMMA RestoreEntry ==
    ASSUME NEW c \in Restores
    PROVE  /\ c \in Commands \ Harmless
           /\ Piece(c, RestoreBackup(PartsOf(c)), Verify, S("up", "all", "stop"))
           /\ Rank(Verify) = 1 /\ Verify.do = "verify" /\ RanksOf(c) \subseteq 1 .. 11
           /\ \A a : Rank(a) = 0 /\ (a.do = "pick" => c \notin Serialised) => Follows(c, a, Verify)
<1>1. Rank(Verify) = 1 /\ Verify.do = "verify"
  BY RestoreRanks, StepIs DEF Verify
<1>2. RanksOf(c) \subseteq 1 .. 11
  BY DEF RanksOf
<1>3. ASSUME NEW a, Rank(a) = 0, a.do = "pick" => c \notin Serialised PROVE Follows(c, a, Verify)
  <2>1. \A r \in RanksOf(c) : r >= 1
    BY <1>2
  <2> QED
    BY <1>1, <1>3, <2>1 DEF Follows
<1>4. c \in Commands \ Harmless
  BY DEF Restores
<1> QED
  BY <1>1, <1>2, <1>3, <1>4, RestoreShape DEF Verify

LEMMA RestorePlans ==
    ASSUME NEW c \in Restores \ (Deploys \cup {"apiRestore"})
    PROVE  Plan(c, Plans[c])
<1> DEFINE U == S("up", "all", "stop")
           R == RestoreBackup(PartsOf(c))
           P(of) == Pick(of)
<1>0. U.do # "away"
  BY StepIs
<1>1. /\ c \in Commands \ Harmless /\ c \notin Deploys /\ c \notin Serialised
      /\ c \in {"restore", "restoreVolumes", "rollback", "rollbackBare", "migrateBack"}
  BY CommandNames, RestoreEntry DEF Deploys, Serialised
<1>2. Piece(c, R, Verify, U)
  BY RestoreEntry
<1>3. ASSUME NEW a, Rank(a) = 0 PROVE Follows(c, a, Verify)
  BY <1>1, <1>3, RestoreEntry
<1>4. ASSUME NEW of \in {"any", "migration"}
      PROVE  /\ Piece(c, <<P(of)>>, P(of), P(of)) /\ Rank(P(of)) = 0 /\ Opening(c, P(of))
             /\ Piece(c, <<P(of)>> \o R, P(of), U)
  <2>1. Piece(c, <<P(of)>>, P(of), P(of)) /\ Rank(P(of)) = 0 /\ P(of).do = "pick"
    BY <1>1, PickPiece
  <2>2. Opening(c, P(of))
    BY <1>1, <2>1 DEF Opening
  <2> HIDE DEF P, R
  <2>3. Piece(c, <<P(of)>> \o R, P(of), U)
    BY <1>2, <1>3, <2>1, JoinShape
  <2> QED
    BY <2>1, <2>2, <2>3
<1>5. ASSUME NEW t \in {"pre-restore", "pre-rollback"}
      PROVE  Piece(c, (<<P("any")>> \o CreateBackup(t, "stop")) \o R, P("any"), U)
  <2> DEFINE K == S("take", "config", "stop")
             O == S("record", t, "stop")
  <2>1. Piece(c, CreateBackup(t, "stop"), K, O)
    BY CreateShape
  <2>2. K.do = "take" /\ O.do = "record" /\ Rank(K) = 0 /\ Rank(O) = 0
    BY StepIs DEF Rank
  <2>3. Follows(c, P("any"), K)
    BY <1>1, <1>4, <2>2 DEF Follows
  <2>4. Follows(c, O, Verify)
    BY <1>3, <2>2
  <2> HIDE DEF P, R, K, O
  <2>5. Piece(c, <<P("any")>> \o CreateBackup(t, "stop"), P("any"), O)
    BY <1>4, <2>1, <2>3, JoinShape
  <2> QED
    BY <1>2, <2>4, <2>5, JoinShape
<1>6. CASE c = "restore"
  <2>1. Plans[c] = (<<P("any")>> \o CreateBackup("pre-restore", "stop")) \o R
    BY <1>6 DEF Plans, backupRestoreCmd, PartsOf, Pick
  <2> HIDE DEF P, R, U
  <2> QED
    BY <1>0, <1>4, <1>5, <2>1, PlanOfPiece
<1>7. CASE c = "restoreVolumes"
  <2>1. Plans[c] = (<<P("any")>> \o CreateBackup("pre-restore", "stop")) \o R
    BY <1>7 DEF Plans, backupRestoreCmd, PartsOf, Pick
  <2> HIDE DEF P, R, U
  <2> QED
    BY <1>0, <1>4, <1>5, <2>1, PlanOfPiece
<1>8. CASE c = "rollback"
  <2>1. Plans[c] = (<<P("any")>> \o CreateBackup("pre-rollback", "stop")) \o R
    BY <1>8 DEF Plans, runRollback, PartsOf, Pick
  <2> HIDE DEF P, R, U
  <2> QED
    BY <1>0, <1>4, <1>5, <2>1, PlanOfPiece
<1>9. CASE c = "rollbackBare"
  <2>1. Plans[c] = (<<P("any")>> \o <<>>) \o R
    BY <1>9 DEF Plans, runRollback, PartsOf, Pick
  <2> HIDE DEF P, R, U
  <2>2. <<P("any")>> \o <<>> = <<P("any")>>
    BY <1>4, ShapeOfPiece
  <2> QED
    BY <1>0, <1>4, <2>1, <2>2, PlanOfPiece
<1>10. CASE c = "migrateBack"
  <2>1. Plans[c] = <<P("migration")>> \o R
    BY <1>10 DEF Plans, migrateRollbackCmd, PartsOf, Pick
  <2> HIDE DEF P, R, U
  <2> QED
    BY <1>0, <1>4, <2>1, PlanOfPiece
<1> QED
  BY <1>1, <1>6, <1>7, <1>8, <1>9, <1>10

LEMMA SerialPlans ==
    ASSUME NEW c \in Serialised
    PROVE  Plan(c, Plans[c])
<1> DEFINE U == S("up", "all", "stop")
           D == S("down", "all", "stop")
           A == Pick("any")
<1>0. U.do # "away" /\ D.do # "away"
  BY StepIs
<1>1. /\ c \in Commands /\ c \notin Harmless /\ c \notin Deploys
      /\ c \in {"apiRestore", "apiStart", "apiStop"} /\ (c \in Restores <=> c = "apiRestore")
  BY CommandNames DEF Serialised, Harmless, Deploys
<1>2. /\ Lock \in Steps /\ Rank(Lock) = 0 /\ Sane(Lock) /\ Lock.do = "lock" /\ Fits(c, Lock)
      /\ Piece(c, <<Lock>>, Lock, Lock)
  <2>1. Lock.do = "lock"
    BY StepIs DEF Lock
  <2> QED
    BY <1>1, <2>1, PlainSteps, PlainPiece
<1>3. Opening(c, Lock)
  BY <1>2 DEF Opening
<1>4. CASE c = "apiRestore"
  <2>1. Piece(c, <<A>>, A, A) /\ Rank(A) = 0 /\ A.do = "pick"
    BY <1>1, PickPiece
  <2>2. Opening(c, A)
    BY <2>1 DEF Opening
  <2>3. Piece(c, RestoreBackup(PartsOf(c)), Verify, U) /\ Follows(c, Lock, Verify)
    BY <1>1, <1>2, <1>4, RestoreEntry
  <2>4. Follows(c, A, Lock)
    BY <1>1, <1>2, <2>1 DEF Follows
  <2>5. <<A, Lock>> = <<A>> \o <<Lock>>
    BY Splits
  <2>6. Plans[c] = <<A, Lock>> \o RestoreBackup(PartsOf(c))
    BY <1>4 DEF Plans, handleRestoreBackup, PartsOf, Pick, Lock
  <2> HIDE DEF A, U
  <2>7. Piece(c, <<A>> \o <<Lock>>, A, Lock)
    BY <1>2, <2>1, <2>4, JoinShape
  <2>8. Piece(c, Plans[c], A, U)
    BY <2>3, <2>5, <2>6, <2>7, JoinShape
  <2> QED
    BY <1>0, <2>2, <2>8, PlanOfPiece
<1>5. ASSUME c # "apiRestore", NEW s \in {U, D}
      PROVE  Piece(c, <<Lock, s>>, Lock, s)
  <2>1. s \in Steps
    BY StepType DEF Deeds, Subjects, Ways
  <2>2. s.do \in {"up", "down"} /\ s.on = "stop" /\ s.of = "all"
    BY StepIs
  <2>3. Rank(s) \in {2, 11}
    BY <2>2 DEF Rank
  <2>4. Sane(s) /\ Fits(c, s)
    BY <1>1, <1>5, <2>2, <2>3 DEF Sane, Fits, Moves
  <2>5. Follows(c, Lock, s)
    BY <1>1, <1>2, <1>5, <2>2 DEF Follows
  <2> QED
    BY <1>2, <2>1, <2>4, <2>5, TwoSteps
<1>6. CASE c = "apiStart"
  <2>1. Plans[c] = <<Lock, U>>
    BY <1>6 DEF Plans, handleStartProject, Lock
  <2> QED
    BY <1>0, <1>3, <1>5, <1>6, <2>1, PlanOfPiece
<1>7. CASE c = "apiStop"
  <2>1. Plans[c] = <<Lock, D>>
    BY <1>7 DEF Plans, handleStopProject, Lock
  <2> QED
    BY <1>0, <1>3, <1>5, <1>7, <2>1, PlanOfPiece
<1> QED
  BY <1>1, <1>4, <1>6, <1>7

LEMMA MigrateShape ==
    ASSUME NEW c \in Commands, c \notin Harmless
    PROVE  /\ Piece(c, MigrateRun(FALSE), S("take", "config", "stop"), Alter)
           /\ Piece(c, MigrateRun(TRUE), Begin1, Alter)
           /\ Rank(Begin1) = 0 /\ Rank(Alter) = 0 /\ Begin1.do = "begin" /\ Alter.do = "alter"
<1> DEFINE C == S("take", "config", "stop")
           R == S("record", "pre-migration", "stop")
<1>1. Rank(Begin1) = 0 /\ Rank(Alter) = 0 /\ Begin1.do = "begin" /\ Alter.do = "alter"
      /\ Begin1 \in Steps /\ Alter \in Steps /\ Sane(Begin1) /\ Sane(Alter) /\ Fits(c, Begin1) /\ Fits(c, Alter)
  <2>1. Begin1.do = "begin" /\ Alter.do = "alter"
    BY StepIs DEF Begin1, Alter
  <2> QED
    BY <2>1, PlainSteps, PlainPiece
<1>2. Piece(c, <<Begin1, Alter>>, Begin1, Alter)
  <2>1. Follows(c, Begin1, Alter)
    BY <1>1, Freely
  <2> QED
    BY <1>1, <2>1, TwoSteps
<1>3. Piece(c, CreateBackup("pre-migration", "stop"), C, R)
  BY CreateShape
<1>4. R.do = "record" /\ Rank(R) = 0
  BY StepIs DEF Rank
<1>5. Follows(c, R, Begin1)
  BY <1>1, <1>4, Freely
<1>6. /\ MigrateRun(FALSE) = CreateBackup("pre-migration", "stop") \o <<Begin1, Alter>>
      /\ MigrateRun(TRUE) = <<>> \o <<Begin1, Alter>>
  BY DEF MigrateRun, Begin1, Alter
<1>7. <<>> \o <<Begin1, Alter>> = <<Begin1, Alter>>
  OBVIOUS
<1> HIDE DEF C, R
<1>8. Piece(c, MigrateRun(FALSE), C, Alter)
  BY <1>2, <1>3, <1>5, <1>6, JoinShape
<1> QED
  BY <1>1, <1>2, <1>6, <1>7, <1>8 DEF C

LEMMA DeployPlans ==
    ASSUME NEW c \in Deploys
    PROVE  Plan(c, Plans[c])
<1> DEFINE U == S("up", "all", "stop")
           C == S("take", "config", "skip")
           R == S("record", "pre-deploy", "skip")
           M == S("take", "config", "stop")
           A == Pick("pre-deploy")
           X == RestoreBackup(PartsOf(c))
           L == (<<Flock>> \o (CreateBackup("pre-deploy", "skip") \o <<Prune>>)) \o <<Release, Funlock>>
<1>0. U.do # "away"
  BY StepIs
<1>1. /\ c \in Commands /\ c \in Restores /\ c \notin Harmless /\ c \notin Serialised
      /\ c \in {"deploy", "deployFiles"}
  BY CommandNames DEF Serialised, Harmless, Deploys
<1>2. /\ Prune.do = "prune" /\ Flock.do = "flock" /\ Release.do = "deploy" /\ Funlock.do = "funlock"
      /\ Watch.do = "watch"
  BY StepIs DEF Prune, Flock, Release, Funlock, Watch
<1>3. \A s \in {Prune, Flock, Release, Funlock, Watch} :
        s \in Steps /\ Rank(s) = 0 /\ Sane(s) /\ Fits(c, s) /\ Piece(c, <<s>>, s, s)
  BY <1>1, PlainSteps, PlainPiece
<1>4. /\ Piece(c, CreateBackup("pre-deploy", "skip"), C, R) /\ C.do = "take" /\ R.do = "record"
      /\ Rank(C) = 0 /\ Rank(R) = 0 /\ M.do = "take" /\ Rank(M) = 0
  <2>1. C.do = "take" /\ R.do = "record" /\ M.do = "take"
    BY StepIs
  <2> QED
    BY <2>1, CreateShape DEF Rank
<1>5. /\ Piece(c, <<A>>, A, A) /\ Rank(A) = 0 /\ A.do = "pick"
  BY <1>1, PickPiece
<1>6. Piece(c, X, Verify, U) /\ Follows(c, A, Verify)
  BY <1>1, <1>5, RestoreEntry
<1>7. Piece(c, MigrateRun(FALSE), M, Alter) /\ Rank(Alter) = 0 /\ Alter.do = "alter"
  BY <1>1, MigrateShape
<1>8. /\ Follows(c, R, Prune) /\ Follows(c, Flock, C) /\ Follows(c, Prune, Release)
      /\ Follows(c, Release, Funlock) /\ Follows(c, Funlock, M) /\ Follows(c, Funlock, Watch)
      /\ Follows(c, Alter, Watch) /\ Follows(c, Watch, A)
  BY <1>2, <1>3, <1>4, <1>5, <1>7, Freely
<1>9. Opening(c, Flock)
  BY <1>1, <1>2, <1>3 DEF Opening
<1>10. deployLocal = L
  BY DEF deployLocal, autoSnapshot, Flock, Prune, Release, Funlock
<1>11. runPostDeployWatchdog(PartsOf(c)) = <<Watch>> \o (<<A>> \o X)
  BY DEF runPostDeployWatchdog, Observe, rollbackToPreDeploySnapshot, Watch, Pick
<1> HIDE DEF U, C, R, M, A, X
<1>12. Piece(c, L, Flock, Funlock)
  <2>1. Piece(c, CreateBackup("pre-deploy", "skip") \o <<Prune>>, C, Prune)
    BY <1>3, <1>4, <1>8, JoinShape
  <2>2. Piece(c, <<Flock>> \o (CreateBackup("pre-deploy", "skip") \o <<Prune>>), Flock, Prune)
    BY <1>3, <1>8, <2>1, JoinShape
  <2>3. Piece(c, <<Release, Funlock>>, Release, Funlock)
    BY <1>3, <1>8, TwoSteps
  <2> QED
    BY <1>8, <2>2, <2>3, JoinShape
<1>13. Piece(c, <<Watch>> \o (<<A>> \o X), Watch, U)
  <2>1. Piece(c, <<A>> \o X, A, U)
    BY <1>5, <1>6, JoinShape
  <2> QED
    BY <1>3, <1>8, <2>1, JoinShape
<1> HIDE DEF L
<1>14. CASE c = "deploy"
  <2>1. Plans[c] = (L \o <<>>) \o (<<Watch>> \o (<<A>> \o X))
    <3>1. Plans[c] = deployCmd(FALSE, PartsOf(c))
      BY <1>14 DEF Plans, PartsOf
    <3> QED
      BY <1>10, <1>11, <3>1 DEF deployCmd
  <2>2. L \o <<>> = L
    BY <1>12, ShapeOfPiece
  <2>3. Piece(c, Plans[c], Flock, U)
    BY <1>8, <1>12, <1>13, <2>1, <2>2, JoinShape
  <2> QED
    BY <1>0, <1>9, <2>3, PlanOfPiece
<1>15. CASE c = "deployFiles"
  <2>1. Plans[c] = (L \o MigrateRun(FALSE)) \o (<<Watch>> \o (<<A>> \o X))
    <3>1. Plans[c] = deployCmd(TRUE, PartsOf(c))
      BY <1>15 DEF Plans, PartsOf
    <3> QED
      BY <1>10, <1>11, <3>1 DEF deployCmd, runDeployMigration
  <2>2. Piece(c, L \o MigrateRun(FALSE), Flock, Alter)
    BY <1>7, <1>8, <1>12, JoinShape
  <2>3. Piece(c, Plans[c], Flock, U)
    BY <1>8, <1>13, <2>1, <2>2, JoinShape
  <2> QED
    BY <1>0, <1>9, <2>3, PlanOfPiece
<1> QED
  BY <1>1, <1>14, <1>15

LEMMA OtherPlans ==
    ASSUME NEW c \in Commands \ (Restores \cup Serialised)
    PROVE  Plan(c, Plans[c])
<1>1. /\ c \in {"create", "delete", "apiCreate", "apiDelete", "migrate", "migrateBare", "export", "import"}
      /\ c \in Commands /\ c \notin Restores /\ c \notin Serialised /\ c \notin Deploys
  BY CommandNames DEF Serialised, Deploys
<1>2. ASSUME NEW s, s.do \in Deeds \ {"extract", "copydb", "opens"} PROVE Opening(c, s)
  BY <1>1, <1>2 DEF Opening
<1>3. ASSUME NEW s \in Steps, s.do \in Apart, Sane(s), s.do = "record" => s.of # "pre-deploy"
      PROVE  Fits(c, s) /\ Rank(s) = 0
  <2>1. Rank(s) = 0
    BY <1>3 DEF Apart, Rank
  <2> QED
    BY <1>1, <1>3, <2>1 DEF Fits
<1>4. CASE c \in {"create", "apiCreate"}
  <2> DEFINE C == S("take", "config", "stop")
             R == S("record", "manual", "stop")
  <2>1. Piece(c, CreateBackup("manual", "stop"), C, R)
    BY CreateShape
  <2>2. C.do = "take" /\ R.do = "record" /\ Rank(R) = 0 /\ Prune.do = "prune"
    BY StepIs DEF Rank, Prune
  <2>3. Opening(c, C)
    BY <1>2, <2>2 DEF Deeds
  <2>4. Prune \in Steps /\ Sane(Prune) /\ Rank(Prune) = 0
    BY PlainSteps
  <2>5. Piece(c, <<Prune>>, Prune, Prune)
    BY <1>3, <2>2, <2>4, OneStep DEF Apart
  <2>6. Follows(c, R, Prune)
    BY <2>2, <2>4, Freely
  <2>7. Plans["apiCreate"] = CreateBackup("manual", "stop")
    BY DEF Plans, handleCreateBackup
  <2>8. Plans["create"] = CreateBackup("manual", "stop") \o <<Prune>>
    BY DEF Plans, backupCreateCmd, Prune
  <2>10. R.do # "away" /\ Prune.do # "away"
    BY <2>2
  <2> HIDE DEF C, R
  <2>9. Piece(c, CreateBackup("manual", "stop") \o <<Prune>>, C, Prune)
    BY <2>1, <2>5, <2>6, JoinShape
  <2> QED
    BY <1>4, <2>1, <2>2, <2>3, <2>7, <2>8, <2>9, <2>10, PlanOfPiece
<1>5. CASE c \in {"delete", "apiDelete"}
  <2> DEFINE A == Pick("any")
             F == S("files-", "all", "go")
             R == S("row-", "all", "stop")
  <2>1. A.do = "pick" /\ Piece(c, <<A>>, A, A) /\ Rank(A) = 0
    BY <1>1, PickPiece
  <2>2. F \in Steps /\ R \in Steps
    BY StepType DEF Deeds, Subjects, Ways
  <2>3. F.do = "files-" /\ F.on = "go" /\ R.do = "row-" /\ R.on = "stop"
    BY StepIs
  <2>4. Rank(F) = 0 /\ Rank(R) = 0
    BY <2>3 DEF Rank
  <2>5. Sane(F) /\ Sane(R)
    BY <2>3, <2>4 DEF Sane, Moves
  <2>6. Fits(c, F) /\ Fits(c, R)
    BY <1>3, <2>2, <2>3, <2>5 DEF Apart
  <2>7. Follows(c, A, F) /\ Follows(c, F, R)
    BY <1>1, <2>1, <2>3, <2>4 DEF Follows
  <2>8. Opening(c, A)
    BY <1>2, <2>1 DEF Deeds
  <2>9. Plans[c] = <<A, F, R>>
    BY <1>5 DEF Plans, backupDeleteCmd, handleDeleteBackup, Pick
  <2> HIDE DEF A, F, R
  <2>10. Piece(c, <<F, R>>, F, R)
    BY <2>2, <2>5, <2>6, <2>7, TwoSteps
  <2>11. Piece(c, <<A>> \o <<F, R>>, A, R)
    BY <2>1, <2>7, <2>10, JoinShape
  <2>12. A \in Steps
    BY <2>1 DEF Piece, Shape
  <2>13. <<A, F, R>> = <<A>> \o <<F, R>>
    BY <2>2, <2>12, Splits
  <2> QED
    BY <2>3, <2>8, <2>9, <2>11, <2>13, PlanOfPiece
<1>6. CASE c \in {"migrate", "migrateBare"}
  <2>1. c \notin Harmless
    BY <1>6 DEF Harmless
  <2>2. S("take", "config", "stop").do = "take"
    BY StepIs
  <2>3. Opening(c, S("take", "config", "stop")) /\ Opening(c, Begin1)
    BY <1>1, <1>2, <2>1, <2>2, MigrateShape DEF Deeds
  <2>4. Plans["migrate"] = MigrateRun(FALSE) /\ Plans["migrateBare"] = MigrateRun(TRUE)
    BY DEF Plans, migrateRunCmd
  <2> QED
    BY <1>1, <1>6, <2>1, <2>3, <2>4, MigrateShape, PlanOfPiece
<1>7. CASE c \in {"export", "import"}
  <2> DEFINE T == S("export", "all", "stop")
             G == S("export", "all", "go")
             E == S("extract", "all", "stop")
             C == S("copydb", "all", "stop")
             O == S("opens", "all", "drop")
             R == S("copyrest", "all", "stop")
             All == {T, G, E, C, O, R}
  <2>1. /\ T \in All /\ G \in All /\ E \in All /\ C \in All /\ O \in All /\ R \in All
        /\ \A s \in All : s \in Steps
    BY StepType DEF Deeds, Subjects, Ways
  <2>2. /\ T.do = "export" /\ T.on = "stop" /\ G.do = "export" /\ G.on = "go" /\ E.do = "extract"
        /\ E.on = "stop" /\ C.do = "copydb" /\ C.on = "stop" /\ O.do = "opens" /\ O.on = "drop"
        /\ R.do = "copyrest" /\ R.on = "stop"
    BY StepIs
  <2>3. \A s \in All : s.do \in {"export", "extract", "copydb", "opens", "copyrest"}
    BY <2>2
  <2>4. \A s \in All : Rank(s) = 0
    BY <2>3 DEF Rank
  <2>5. \A s \in All : Sane(s)
    BY <2>2, <2>4 DEF Sane, Moves
  <2>6. \A s \in All : Fits(c, s)
    <3> HIDE DEF All
    <3> QED
      BY <1>3, <2>1, <2>3, <2>5 DEF Apart
  <2>7. Opening(c, T) /\ Opening(c, G)
    BY <1>2, <2>2 DEF Deeds
  <2>8. Plans["export"] = <<T>>
    BY DEF Plans, exportCmd, ExportState
  <2>9. Plans["import"] = <<G>> \o <<E, C, O, R>>
    BY DEF Plans, importStateCmd, ExportState, ImportState, extractTarGz
  <2>10. Follows(c, G, E) /\ Follows(c, E, C) /\ Follows(c, C, O) /\ Follows(c, O, R)
    BY <1>1, <2>2 DEF Follows
  <2> HIDE DEF T, G, E, C, O, R, All
  <2>11. Piece(c, <<T>>, T, T) /\ Piece(c, <<G>>, G, G)
    BY <2>1, <2>5, <2>6, OneStep
  <2>12. Piece(c, <<E, C, O, R>>, E, R)
    BY <2>1, <2>5, <2>6, <2>10, FourSteps
  <2>13. Piece(c, <<G>> \o <<E, C, O, R>>, G, R)
    BY <2>10, <2>11, <2>12, JoinShape
  <2> QED
    BY <1>7, <2>2, <2>7, <2>8, <2>9, <2>11, <2>13, PlanOfPiece
<1> QED
  BY <1>1, <1>4, <1>5, <1>6, <1>7

LEMMA PlansInShape == \A c \in Commands : Plan(c, Plans[c])
<1>1. \A c \in Restores \ (Deploys \cup {"apiRestore"}) : Plan(c, Plans[c])
  BY RestorePlans
<1>2. \A c \in Serialised : Plan(c, Plans[c])
  BY SerialPlans
<1>3. \A c \in Deploys : Plan(c, Plans[c])
  BY DeployPlans
<1>4. \A c \in Commands \ (Restores \cup Serialised) : Plan(c, Plans[c])
  BY OtherPlans
<1> QED
  BY <1>1, <1>2, <1>3, <1>4, CommandNames DEF Serialised, Deploys

-----------------------------------------------------------------------------
(* What is left of a plan after a step.                                    *)

LEMMA RanksBack ==
    ASSUME NEW s
    PROVE  /\ Rank(s) = 1 => s.do = "verify"
           /\ Rank(s) = 2 => s.do = "down"
           /\ Rank(s) = 3 => s.do = "put" /\ s.of = "config"
           /\ Rank(s) = 4 => s.do = "put" /\ s.of = "volume"
           /\ Rank(s) = 5 => s.do = "stage"
           /\ Rank(s) = 6 => s.do = "away"
           /\ Rank(s) = 7 => s.do \in {"in", "back", "preserve"}
           /\ Rank(s) = 8 => s.do = "dbup"
           /\ Rank(s) = 9 => s.do = "put" /\ s.of = "data"
           /\ Rank(s) = 10 => s.do = "failures"
           /\ Rank(s) = 11 => s.do = "up"
           /\ Rank(s) \in 0 .. 11
<1>1. Rank(s) = 1 => s.do = "verify"
  BY DEF Rank
<1>2. Rank(s) = 2 => s.do = "down"
  BY DEF Rank
<1>3. Rank(s) = 3 => s.do = "put" /\ s.of = "config"
  BY DEF Rank
<1>4. Rank(s) = 4 => s.do = "put" /\ s.of = "volume"
  BY DEF Rank
<1>5. Rank(s) = 5 => s.do = "stage"
  BY DEF Rank
<1>6. Rank(s) = 6 => s.do = "away"
  BY DEF Rank
<1>7. Rank(s) = 7 => s.do \in {"in", "back", "preserve"}
  BY DEF Rank
<1>8. Rank(s) = 8 => s.do = "dbup"
  BY DEF Rank
<1>9. Rank(s) = 9 => s.do = "put" /\ s.of = "data"
  BY DEF Rank
<1>10. Rank(s) = 10 => s.do = "failures"
  BY DEF Rank
<1>11. Rank(s) = 11 => s.do = "up"
  BY DEF Rank
<1>12. Rank(s) \in 0 .. 11
  BY DEF Rank
<1> QED
  BY <1>1, <1>2, <1>3, <1>4, <1>5, <1>6, <1>7, <1>8, <1>9, <1>10, <1>11, <1>12

(* In a plan that restores a directory the three renames come together.    *)
LEMMA RenamesTogether ==
    ASSUME NEW c, NEW a, NEW b, Follows(c, a, b), Fits(c, a), Fits(c, b)
    PROVE  /\ a.do = "stage" => b.do = "away"
           /\ a.do = "away" => b.do = "in"
           /\ b.do = "away" => a.do = "stage"
           /\ b.do = "in" => a.do = "away"
<1>1. a.do \in {"stage", "away"} \/ b.do \in {"away", "in"} => c \in Restores
  <2>1. a.do \in {"stage", "away"} => Rank(a) \in {5, 6}
    BY DEF Rank
  <2>2. b.do \in {"away", "in"} => Rank(b) \in {6, 7}
    BY DEF Rank
  <2> QED
    BY <2>1, <2>2 DEF Fits
<1>2. 5 \in RanksOf(c) \/ 6 \in RanksOf(c) \/ 7 \in RanksOf(c) =>
        5 \in RanksOf(c) /\ 6 \in RanksOf(c) /\ 7 \in RanksOf(c)
  BY DEF RanksOf
<1>3. Rank(a) \in 0 .. 11 /\ Rank(b) \in 0 .. 11
  BY RanksBack
<1>4. a.do = "stage" => Rank(a) = 5
  BY DEF Rank
<1>5. a.do = "away" => Rank(a) = 6
  BY DEF Rank
<1>6. b.do = "away" => Rank(b) = 6
  BY DEF Rank
<1>7. b.do = "in" => Rank(b) = 7
  BY DEF Rank
<1>8. a.do = "stage" => b.do = "away"
  <2> SUFFICES ASSUME a.do = "stage" PROVE Rank(b) = 6
    BY RanksBack
  <2>1. c \in Restores /\ Rank(a) = 5
    BY <1>1, <1>4
  <2>2. 6 \in RanksOf(c)
    BY <1>2, <2>1 DEF Fits
  <2> QED
    BY <1>3, <2>1, <2>2 DEF Follows
<1>9. a.do = "away" => b.do = "in"
  <2> SUFFICES ASSUME a.do = "away" PROVE Rank(b) = 7
    BY RanksBack DEF Follows
  <2>1. c \in Restores /\ Rank(a) = 6
    BY <1>1, <1>5
  <2>2. 7 \in RanksOf(c)
    BY <1>2, <2>1 DEF Fits
  <2> QED
    BY <1>3, <2>1, <2>2 DEF Follows
<1>10. b.do = "away" => a.do = "stage"
  <2> SUFFICES ASSUME b.do = "away" PROVE Rank(a) = 5
    BY RanksBack
  <2>1. c \in Restores /\ Rank(b) = 6
    BY <1>1, <1>6
  <2>2. 5 \in RanksOf(c)
    BY <1>2, <2>1 DEF Fits
  <2> QED
    BY <1>3, <2>1, <2>2 DEF Follows
<1>11. b.do = "in" => a.do = "away"
  <2> SUFFICES ASSUME b.do = "in" PROVE Rank(a) = 6
    BY RanksBack
  <2>1. c \in Restores /\ Rank(b) = 7
    BY <1>1, <1>7
  <2>2. 6 \in RanksOf(c)
    BY <1>2, <2>1 DEF Fits
  <2> QED
    BY <1>3, <2>1, <2>2 DEF Follows
<1> QED
  BY <1>8, <1>9, <1>10, <1>11

LEMMA HeadFits ==
    ASSUME NEW c, NEW q, Shape(c, q), q # <<>>
    PROVE  Head(q) \in Steps /\ Sane(Head(q)) /\ Fits(c, Head(q)) /\ q \in Seq(Steps)
BY TailShape DEF Shape

(* After a step that is done.                                              *)
LEMMA RestKeepsShape ==
    ASSUME NEW p, NEW c, NEW s, Shape(c, job[p].todo), job[p].todo # <<>>, s = Now(p),
           NEW t \in Rest(p, s)
    PROVE  /\ Shape(c, t)
           /\ t # <<>> => \/ Follows(c, s, Head(t)) /\ (s.do = "stage" => Held(p, "bind") # None)
                          \/ /\ s.do = "stage" /\ Held(p, "bind") = None
                             /\ \E a \in Steps : a.do = "in" /\ Follows(c, a, Head(t)) /\ Fits(c, a)
<1> DEFINE q == job[p].todo
           r == Tail(q)
<1>1. /\ Shape(c, r) /\ s \in Steps /\ Sane(s) /\ Fits(c, s)
      /\ r # <<>> => Follows(c, s, Head(r))
  BY TailShape DEF Now
<1>2. CASE s.do = "stage" /\ Held(p, "bind") = None
  <2>1. t = SubSeq(r, 3, Len(r))
    BY <1>2 DEF Rest
  <2>2. r \in Seq(Steps) /\ Len(r) \in Nat
    BY <1>1 DEF Shape
  <2> HIDE DEF r
  <2>3. CASE Len(r) < 3
    <3>1. SubSeq(r, 3, Len(r)) = <<>>
      BY <2>2, <2>3
    <3> QED
      BY <2>1, <3>1, EmptyShape
  <2>4. CASE Len(r) >= 3
    <3>1. 1 \in 1 .. Len(r) /\ 2 \in 1 .. Len(r) /\ 3 \in 1 .. Len(r)
          /\ 1 \in 1 .. (Len(r) - 1) /\ r # <<>> /\ Head(r) = r[1]
      BY <2>2, <2>4
    <3>2. Follows(c, s, r[1]) /\ Follows(c, r[1], r[1 + 1]) /\ Fits(c, r[1]) /\ Fits(c, r[2])
      BY <1>1, <3>1 DEF Shape
    <3>3. r[1].do = "away"
      BY <1>1, <1>2, <3>2, RenamesTogether
    <3>4. r[2].do = "in"
      BY <3>2, <3>3, RenamesTogether
    <3>5. Shape(c, t) /\ Head(t) = r[3] /\ Follows(c, r[3 - 1], r[3]) /\ r[3 - 1] \in Steps /\ Fits(c, r[3 - 1])
      BY <1>1, <2>1, <3>1, RestShape
    <3>6. 3 - 1 = 2
      OBVIOUS
    <3> QED
      BY <1>2, <3>4, <3>5, <3>6
  <2> QED
    BY <2>2, <2>3, <2>4
<1>3. CASE ~(s.do = "stage" /\ Held(p, "bind") = None)
  <2>1. t = r \/ t = <<>>
    BY <1>3 DEF Rest
  <2> QED
    BY <1>1, <1>3, <2>1, EmptyShape
<1> QED
  BY <1>2, <1>3

LEMMA PrependShape ==
    ASSUME NEW c, NEW q, Shape(c, q), NEW s \in Steps, Sane(s), Fits(c, s),
           q # <<>> => Follows(c, s, Head(q))
    PROVE  Shape(c, <<s>> \o q) /\ <<s>> \o q # <<>> /\ Head(<<s>> \o q) = s
<1>1. Piece(c, <<s>>, s, s)
  BY OneStep
<1>2. CASE q = <<>>
  BY <1>1, <1>2, ShapeOfPiece
<1>3. CASE q # <<>>
  <2>1. q \in Seq(Steps) /\ Len(q) \in Nat /\ Len(q) > 0 /\ Head(q) = q[1]
    BY <1>3 DEF Shape
  <2>2. Piece(c, q, Head(q), q[Len(q)])
    BY <2>1 DEF Piece
  <2>3. Piece(c, <<s>> \o q, s, q[Len(q)])
    BY <1>1, <1>3, <2>2, JoinShape
  <2> QED
    BY <2>3, ShapeOfPiece
<1> QED
  BY <1>2, <1>3

LEMMA BackSteps ==
    ASSUME NEW c \in Restores, 7 \in RanksOf(c), NEW s \in {S("back", "bind", "keep"), S("preserve", "bind", "go")}
    PROVE  s \in Steps /\ Sane(s) /\ Fits(c, s) /\ Rank(s) = 7 /\ s.do \in {"back", "preserve"}
<1>1. s \in Steps
  BY StepType DEF Deeds, Subjects, Ways
<1>2. s.do \in {"back", "preserve"} /\ s.of = "bind" /\ (s.on = "keep" <=> s.do = "back") /\ s.on \in {"keep", "go"}
      /\ (s.on = "go" => s.do = "preserve")
  BY StepIs
<1>3. Rank(s) = 7
  BY <1>2 DEF Rank
<1>4. Sane(s)
  BY <1>2, <1>3 DEF Sane, Moves
<1>5. Fits(c, s)
  BY <1>2, <1>3 DEF Fits, Restores
<1> QED
  BY <1>1, <1>2, <1>3, <1>4, <1>5

PassesOver(p, c, s, t) ==
    /\ Head(t).of # s.of /\ Head(t) \in ToSet(Tail(job[p].todo))
    /\ \E a \in Steps : a.of = s.of /\ Sane(a) /\ Fits(c, a) /\ Follows(c, a, Head(t))

(* After a step that failed.                                               *)
LEMMA AfterKeepsShape ==
    ASSUME NEW p, NEW c, NEW s, Shape(c, job[p].todo), job[p].todo # <<>>, s = Now(p),
           NEW t, t = After(p, s)
    PROVE  /\ Shape(c, t)
           /\ s.on \in {"stop", "drop"} => t = <<>>
           /\ t # <<>> =>
                /\ s.on = "go" => Follows(c, s, Head(t))
                /\ s.on = "skip" => \E a \in Steps : a.do \in Snapshot /\ Follows(c, a, Head(t)) /\ Fits(c, a)
                /\ s.on = "note" => PassesOver(p, c, s, t)
                /\ s.on = "undo" /\ job[p].prev = None => Follows(c, s, Head(t))
                /\ s.on = "undo" /\ job[p].prev # None => Head(t).do = "back"
                /\ s.on = "keep" => Head(t).do = "preserve"
<1> DEFINE r == Tail(job[p].todo)
<1>1. /\ Shape(c, r) /\ s \in Steps /\ Sane(s) /\ Fits(c, s)
      /\ r # <<>> => Follows(c, s, Head(r))
  BY TailShape DEF Now
<1>2. r \in Seq(Steps)
  BY <1>1 DEF Shape
<1> HIDE DEF r
<1>3. CASE s.on = "go"
  BY <1>1, <1>3 DEF After, r
<1>4. ASSUME NEW out, t = Drop(r, out), t # <<>>
      PROVE  /\ Shape(c, t) /\ Head(t) \notin out /\ Head(t) \in ToSet(r)
             /\ \E a \in Steps : /\ a = s \/ a \in out
                                 /\ Sane(a) /\ Fits(c, a) /\ Follows(c, a, Head(t))
  <2>1. PICK k \in 1..Len(r) : /\ t = SubSeq(r, k, Len(r)) /\ r[k] \notin out
                               /\ k > 1 => r[k - 1] \in out
    BY <1>2, <1>4, DropIs
  <2>2. Shape(c, t) /\ Head(t) = r[k] /\ Len(r) \in Nat
    BY <1>1, <1>2, <2>1, RestShape
  <2>3. Head(t) \in ToSet(r)
    BY <1>2, <2>2 DEF ToSet
  <2>4. CASE k = 1
    <3>1. r # <<>> /\ Head(r) = r[1]
      BY <1>2, <2>4
    <3> QED
      BY <1>1, <2>1, <2>2, <2>3, <2>4, <3>1
  <2>5. CASE k > 1
    <3>1. Follows(c, r[k - 1], r[k]) /\ r[k - 1] \in Steps /\ Sane(r[k - 1]) /\ Fits(c, r[k - 1])
      BY <1>1, <2>5, RestShape
    <3> QED
      BY <2>1, <2>2, <2>3, <2>5, <3>1
  <2> QED
    BY <2>2, <2>4, <2>5
<1>5. CASE s.on = "skip"
  <2>1. t = Drop(r, {x \in ToSet(r) : x.do \in Snapshot})
    BY <1>5 DEF After, r
  <2>2. CASE t = <<>>
    BY <1>5, <2>2, EmptyShape
  <2>3. CASE t # <<>>
    <3>1. s.do \in Snapshot
      BY <1>1, <1>5 DEF Sane
    <3> QED
      BY <1>4, <1>5, <2>1, <2>3, <3>1
  <2> QED
    BY <2>2, <2>3
<1>6. CASE s.on = "note"
  <2>1. t = Drop(r, {x \in ToSet(r) : x.of = s.of})
    BY <1>6 DEF After, r
  <2>2. CASE t = <<>>
    BY <1>6, <2>2, EmptyShape
  <2>3. CASE t # <<>>
    <3> DEFINE out == {x \in ToSet(r) : x.of = s.of}
    <3>1. /\ Shape(c, t) /\ Head(t) \notin out /\ Head(t) \in ToSet(r)
          /\ \E a \in Steps : /\ a = s \/ a \in out
                              /\ Sane(a) /\ Fits(c, a) /\ Follows(c, a, Head(t))
      BY <1>4, <2>1, <2>3
    <3>2. Head(t).of # s.of /\ \A a : a = s \/ a \in out => a.of = s.of
      BY <3>1
    <3> HIDE DEF out
    <3>3. ToSet(r) = ToSet(Tail(job[p].todo))
      BY DEF r
    <3>4. PassesOver(p, c, s, t)
      BY <3>1, <3>2, <3>3 DEF PassesOver
    <3> QED
      BY <1>6, <3>1, <3>4
  <2> QED
    BY <2>2, <2>3
<1>7. CASE s.on = "undo"
  <2>1. s.do = "in"
    BY <1>1, <1>7 DEF Sane
  <2>2. Rank(s) = 7
    BY <2>1 DEF Rank
  <2>3. c \in Restores /\ 7 \in RanksOf(c)
    BY <1>1, <2>2 DEF Fits
  <2>4. CASE job[p].prev = None
    BY <1>1, <1>7, <2>4 DEF After, r
  <2>5. CASE job[p].prev # None
    <3> DEFINE b == S("back", "bind", "keep")
    <3>1. t = <<b>> \o r
      BY <1>7, <2>5 DEF After, r
    <3>2. b \in Steps /\ Sane(b) /\ Fits(c, b) /\ Rank(b) = 7
      BY <2>3, BackSteps
    <3>3. b.do = "back"
      BY StepIs
    <3> HIDE DEF b
    <3>4. r # <<>> => Follows(c, b, Head(r))
      BY <1>1, <2>1, <2>2, <3>2, <3>3 DEF Follows
    <3> QED
      BY <1>1, <1>7, <2>5, <3>1, <3>2, <3>3, <3>4, PrependShape
  <2> QED
    BY <2>4, <2>5
<1>8. CASE s.on = "keep"
  <2> DEFINE b == S("preserve", "bind", "go")
  <2>1. s.do = "back"
    BY <1>1, <1>8 DEF Sane
  <2>2. Rank(s) = 7
    BY <2>1 DEF Rank
  <2>3. c \in Restores /\ 7 \in RanksOf(c)
    BY <1>1, <2>2 DEF Fits
  <2>4. t = <<b>> \o r
    BY <1>8 DEF After, r
  <2>5. b \in Steps /\ Sane(b) /\ Fits(c, b) /\ Rank(b) = 7
    BY <2>3, BackSteps
  <2>6. b.do = "preserve"
    BY StepIs
  <2> HIDE DEF b
  <2>7. r # <<>> => Follows(c, b, Head(r))
    BY <1>1, <2>1, <2>2, <2>5, <2>6 DEF Follows
  <2> QED
    BY <1>1, <1>8, <2>4, <2>5, <2>6, <2>7, PrependShape
<1>9. CASE s.on \in {"stop", "drop"}
  BY <1>9, EmptyShape DEF After
<1> QED
  BY <1>1, <1>3, <1>5, <1>6, <1>7, <1>8, <1>9 DEF Steps, Ways

(* A restore that has begun does nothing else until it ends.               *)
LEMMA RanksStay ==
    ASSUME NEW c \in Restores, NEW q, Shape(c, q), q # <<>>, Rank(Head(q)) > 0
    PROVE  \A s \in ToSet(Tail(q)) : Rank(s) > 0
<1> DEFINE n == Len(q)
           zero == {i \in 1 .. n : Rank(q[i]) = 0}
<1>1. q \in Seq(Steps) /\ n \in Nat /\ n > 0 /\ Head(q) = q[1] /\ DOMAIN q = 1 .. n
  BY DEF Shape
<1>2. zero = {}
  <2> SUFFICES ASSUME zero # {} PROVE FALSE
    OBVIOUS
  <2>1. PICK k \in zero : \A i \in zero : k <= i
    <3>1. zero \in SUBSET Nat
      BY <1>1
    <3> HIDE DEF zero
    <3> QED
      BY <3>1, SmallestIsThere
  <2>2. k \in 1 .. n /\ Rank(q[k]) = 0 /\ k > 1
    BY <1>1, <2>1
  <2>3. k - 1 \in 1 .. (n - 1) /\ k - 1 \in 1 .. n /\ (k - 1) + 1 = k
    BY <1>1, <2>2
  <2>4. Follows(c, q[k - 1], q[k])
    <3>1. \A i \in 1 .. (n - 1) : Follows(c, q[i], q[i + 1])
      BY DEF Shape
    <3> QED
      BY <2>3, <3>1
  <2>5. Rank(q[k - 1]) = 0
    BY <2>2, <2>4 DEF Follows
  <2>6. k <= k - 1
    BY <2>1, <2>3, <2>5
  <2> QED
    BY <2>3, <2>6
<1>3. \A i \in 1 .. n : Rank(q[i]) > 0
  <2> TAKE i \in 1 .. n
  <2>1. Rank(q[i]) # 0
    BY <1>2
  <2>2. Rank(q[i]) \in 0 .. 11
    BY RanksBack
  <2> QED
    BY <2>1, <2>2
<1>4. \A i \in DOMAIN Tail(q) : i + 1 \in 1 .. n /\ Tail(q)[i] = q[i + 1]
  <2>1. /\ Tail(q) \in Seq(Steps) /\ Len(Tail(q)) = n - 1
        /\ \A i \in 1..(n - 1) : Tail(q)[i] = q[i + 1]
    BY <1>1, TailIs
  <2> QED
    BY <1>1, <2>1
<1> QED
  BY <1>3, <1>4 DEF ToSet

(* After a part that could not be restored the next one, or the report of  *)
(* the failures, is next.                                                  *)
LEMMA NoteGoesOn ==
    ASSUME NEW p, NEW c, NEW s, Shape(c, job[p].todo), job[p].todo # <<>>, s = Now(p),
           NEW t, t = After(p, s), s.on = "note", t # <<>>
    PROVE  /\ c \in Restores /\ Rank(s) \in 3 .. 9 /\ Rank(Head(t)) \in 1 .. 10
           /\ Head(t).do \notin {"away", "in", "back", "preserve"}
<1> DEFINE b == Head(t)
           q == job[p].todo
<1>1. s \in Steps /\ Sane(s) /\ Fits(c, s) /\ s = Head(q)
  BY HeadFits DEF Now
<1>2. Rank(s) \in {3, 4, 5, 6, 8, 9}
  BY <1>1 DEF Sane
<1>3. c \in Restores
  BY <1>1, <1>2 DEF Fits
<1>4. Shape(c, t) /\ b.of # s.of /\ b \in ToSet(Tail(q))
      /\ \E a \in Steps : a.of = s.of /\ Sane(a) /\ Fits(c, a) /\ Follows(c, a, b)
  <2>1. Shape(c, t) /\ PassesOver(p, c, s, t)
    BY AfterKeepsShape
  <2> QED
    BY <2>1 DEF PassesOver
<1>5. PICK a \in Steps : a.of = s.of /\ Sane(a) /\ Fits(c, a) /\ Follows(c, a, b)
  BY <1>4
<1>6. b \in Steps /\ Sane(b) /\ Fits(c, b)
  BY <1>4, HeadFits
<1> HIDE DEF b, q
<1>7. Rank(b) > 0 /\ Rank(b) \in 0 .. 11 /\ Rank(a) \in 0 .. 11
  BY <1>1, <1>2, <1>3, <1>4, RanksStay, RanksBack DEF q
<1>8. s.of # "all"
  BY <1>1, <1>2, RanksBack DEF Sane, Moves
<1>9. Rank(a) < 10
  <2>1. Rank(a) \in {10, 11} => a.do \in {"failures", "up"}
    BY RanksBack
  <2> QED
    BY <1>5, <1>7, <1>8, <2>1 DEF Sane
<1>10. Rank(b) <= 10
  <2>1. 10 \in RanksOf(c)
    BY DEF RanksOf
  <2> QED
    BY <1>3, <1>5, <1>7, <1>9, <2>1 DEF Follows
<1>11. b.do \notin {"away", "in"}
  <2> SUFFICES ASSUME b.do \in {"away", "in"} PROVE FALSE
    OBVIOUS
  <2>1. a.do \in {"stage", "away"}
    BY <1>5, <1>6, RenamesTogether
  <2>2. a.of = "bind" /\ b.of = "bind"
    BY <1>5, <1>6, <2>1 DEF Sane, Moves
  <2> QED
    BY <1>4, <1>5, <2>2 DEF b
<1>12. b.do \notin {"back", "preserve"}
  BY <1>5 DEF Follows
<1> QED
  BY <1>2, <1>3, <1>7, <1>10, <1>11, <1>12 DEF b

LEMMA EndOfRest ==
    ASSUME NEW T, NEW q \in Seq(T), NEW k \in 1 .. Len(q)
    PROVE  SubSeq(q, k, Len(q))[Len(SubSeq(q, k, Len(q)))] = q[Len(q)]
<1> DEFINE r == SubSeq(q, k, Len(q))
           n == Len(q)
<1>1. /\ Len(r) = n - k + 1 /\ n \in Nat
      /\ \A i \in 1..(n - k + 1) : r[i] = q[k + i - 1]
  BY RestIs
<1> HIDE DEF r, n
<1>2. n - k + 1 \in 1 .. (n - k + 1)
  BY <1>1 DEF n
<1>3. r[Len(r)] = q[k + (n - k + 1) - 1]
  BY <1>1, <1>2
<1>4. k + (n - k + 1) - 1 = n
  BY <1>1
<1> QED
  BY <1>3, <1>4 DEF r, n

LEMMA TailEnds ==
    ASSUME NEW c, NEW q, Shape(c, q), q # <<>>, Ended(q)
    PROVE  Ended(Tail(q)) /\ (Head(q).do = "away" => Tail(q) # <<>>)
<1>1. /\ q \in Seq(Steps)
      /\ Tail(q) \in Seq(Steps) /\ Len(Tail(q)) = Len(q) - 1 /\ Len(q) \in Nat /\ Len(q) > 0
      /\ Head(q) = q[1]
      /\ \A i \in 1..(Len(q) - 1) : Tail(q)[i] = q[i + 1]
  BY TailIs DEF Shape
<1> DEFINE t == Tail(q)
<1> HIDE DEF t
<1>2. ASSUME t # <<>> PROVE t[Len(t)] = q[Len(q)]
  <2>1. Len(t) > 0 /\ Len(t) \in 1 .. (Len(q) - 1)
    BY <1>1, <1>2 DEF t
  <2>2. t[Len(t)] = q[Len(t) + 1] /\ Len(t) + 1 = Len(q)
    BY <1>1, <2>1 DEF t
  <2> QED
    BY <2>2
<1>3. ASSUME t = <<>> PROVE q[1] = q[Len(q)]
  <2>1. Len(t) = 0
    BY <1>3
  <2>2. Len(t) = Len(q) - 1 /\ Len(q) \in Nat
    BY <1>1 DEF t
  <2>3. Len(q) = 1
    <3> DEFINE m == Len(q)
               n == Len(t)
    <3>1. n = 0 /\ n = m - 1 /\ m \in Nat
      BY <2>1, <2>2
    <3> HIDE DEF m, n
    <3>2. m = 1
      BY <3>1
    <3> QED
      BY <3>2 DEF m
  <2> QED
    BY <2>3
<1> QED
  BY <1>1, <1>2, <1>3 DEF Ended, t

(* Every plan ends as it was made to.                                      *)
LEMMA EndStays ==
    ASSUME NEW p, NEW c, NEW s, Shape(c, job[p].todo), job[p].todo # <<>>, s = Now(p),
           Ended(job[p].todo)
    PROVE  /\ \A t \in Rest(p, s) : Ended(t) /\ (s.do = "away" => t # <<>>)
           /\ Ended(After(p, s))
<1> DEFINE r == Tail(job[p].todo)
<1>1. /\ Ended(r) /\ (s.do = "away" => r # <<>>) /\ Shape(c, r)
  BY TailEnds, TailShape DEF Now
<1>2. r \in Seq(Steps) /\ Len(r) \in Nat
  BY <1>1 DEF Shape
<1>3. Ended(<<>>)
  BY DEF Ended
<1> HIDE DEF r
<1>4. ASSUME NEW k \in 1 .. Len(r) PROVE Ended(SubSeq(r, k, Len(r)))
  <2>1. r # <<>>
    BY <1>2
  <2> QED
    BY <1>1, <1>2, <2>1, EndOfRest DEF Ended
<1>5. ASSUME NEW t \in Rest(p, s) PROVE Ended(t) /\ (s.do = "away" => t # <<>>)
  <2>1. CASE s.do = "stage" /\ Held(p, "bind") = None
    <3>1. t = SubSeq(r, 3, Len(r))
      BY <2>1 DEF Rest, r
    <3>2. CASE Len(r) < 3
      <4>1. t = <<>>
        BY <1>2, <3>1, <3>2
      <4> QED
        BY <1>3, <2>1, <4>1
    <3>3. CASE Len(r) >= 3
      <4>1. 3 \in 1 .. Len(r)
        BY <1>2, <3>3
      <4> QED
        BY <1>4, <2>1, <3>1, <4>1
    <3> QED
      BY <1>2, <3>2, <3>3
  <2>2. CASE s.do = "watch"
    <3>1. t = r \/ t = <<>>
      BY <2>2 DEF Rest, r
    <3> QED
      BY <1>1, <1>3, <2>2, <3>1
  <2>3. CASE s.do # "watch" /\ ~(s.do = "stage" /\ Held(p, "bind") = None)
    <3>1. t = r
      BY <2>3 DEF Rest, r
    <3> QED
      BY <1>1, <3>1
  <2> QED
    BY <2>1, <2>2, <2>3
<1>6. ASSUME NEW out PROVE Ended(Drop(r, out))
  <2>1. \/ Drop(r, out) = <<>>
        \/ \E k \in 1..Len(r) : Drop(r, out) = SubSeq(r, k, Len(r))
    BY <1>2, DropIs
  <2> QED
    BY <1>3, <1>4, <2>1
<1>7. ASSUME NEW b \in Steps, b.do # "away" PROVE Ended(<<b>> \o r)
  <2>1. /\ <<b>> \in Seq(Steps) /\ Len(<<b>>) = 1 /\ <<b>>[1] = b
    OBVIOUS
  <2>2. /\ Len(<<b>> \o r) = 1 + Len(r) /\ (<<b>> \o r)[1] = b
        /\ \A i \in 1..Len(r) : (<<b>> \o r)[1 + i] = r[i]
    BY <1>2, <2>1, JoinIs
  <2>3. CASE r = <<>>
    <3>1. Len(r) = 0
      BY <2>3
    <3> QED
      BY <1>7, <2>2, <3>1 DEF Ended
  <2>4. CASE r # <<>>
    <3>1. Len(r) \in 1 .. Len(r)
      BY <1>2, <2>4
    <3> QED
      BY <1>1, <2>2, <2>4, <3>1 DEF Ended
  <2> QED
    BY <2>3, <2>4
<1>8. Ended(After(p, s))
  <2>1. S("back", "bind", "keep") \in Steps /\ S("preserve", "bind", "go") \in Steps
    BY StepType DEF Deeds, Subjects, Ways
  <2>3. S("back", "bind", "keep").do # "away" /\ S("preserve", "bind", "go").do # "away"
    BY StepIs
  <2>2. \/ After(p, s) = r \/ After(p, s) = <<>> \/ \E out : After(p, s) = Drop(r, out)
        \/ After(p, s) = <<S("back", "bind", "keep")>> \o r
        \/ After(p, s) = <<S("preserve", "bind", "go")>> \o r
    BY DEF After, r
  <2> QED
    BY <1>1, <1>3, <1>6, <1>7, <2>1, <2>2, <2>3
<1> QED
  BY <1>5, <1>8

-----------------------------------------------------------------------------
(* What one step does to the command at work, the backups and the project. *)
(* A version, a row and a job remain one when the version moves on.        *)
LEMMA Later ==
    ASSUME Typed, version' \in {version, version + 1}
    PROVE  /\ Rows \subseteq Rows' /\ Jobs \subseteq Jobs' /\ version' \in Nat \ {0}
           /\ [Parts -> -2 .. version] \subseteq [Parts -> -2 .. version']
           /\ -2 .. version \subseteq -2 .. version' /\ 0 .. version \subseteq 0 .. version'
<1>1. version \in Nat \ {0} /\ version' \in Nat \ {0} /\ version <= version'
  BY DEF Typed
<1>2. /\ -2 .. version \subseteq -2 .. version' /\ 0 .. version \subseteq 0 .. version'
      /\ 1 .. version \subseteq 1 .. version'
  BY <1>1
<1>3. [Parts -> -2 .. version] \subseteq [Parts -> -2 .. version']
  BY <1>2
<1>4. Rows \subseteq Rows'
  BY <1>2, <1>3 DEF Rows
<1>5. Jobs \subseteq Jobs'
  BY <1>2, <1>3 DEF Jobs
<1> QED
  BY <1>1, <1>2, <1>3, <1>4, <1>5

LEMMA ChosenIs ==
    ASSUME Typed, NEW p, job[p].pick \in Ids
    PROVE  /\ Chosen(p) \in saved /\ Chosen(p).id = job[p].pick /\ Chosen(p) \in Rows
           /\ \A b \in saved : b.id = job[p].pick => b = Chosen(p)
<1>1. \E b \in saved : b.id = job[p].pick
  BY DEF Ids, IdsOf
<1>2. Chosen(p) \in saved /\ Chosen(p).id = job[p].pick
  BY <1>1 DEF Chosen
<1> QED
  BY <1>2 DEF Typed

LEMMA FindIs ==
    ASSUME NEW how \in {"any", "pre-deploy", "migration"}
    PROVE  findBackup(how) \subseteq Ids
<1>1. ListBackupRecords \subseteq saved
  BY DEF ListBackupRecords
<1>2. IdsOf(ListBackupRecords) \subseteq Ids
  BY <1>1 DEF IdsOf, Ids
<1>3. IdsOf(Newest({b \in ListBackupRecords : b.trigger = "pre-deploy"})) \subseteq Ids
  BY <1>1 DEF IdsOf, Ids, Newest
<1>4. CASE how = "any"
  BY <1>2, <1>4 DEF findBackup
<1>5. CASE how = "pre-deploy"
  BY <1>3, <1>5 DEF findBackup
<1>6. CASE how = "migration"
  BY <1>2, <1>6 DEF findBackup
<1> QED
  BY <1>4, <1>5, <1>6

LEMMA RestoredIs ==
    ASSUME Typed, NEW p, NEW x \in Parts, job[p].pick \in Ids
    PROVE  Held(p, x) \in -2 .. version /\ Restored(p, x) \in -2 .. version
<1>1. Chosen(p).at \in [Parts -> -2 .. version]
  BY ChosenIs DEF Rows
<1>2. Held(p, x) \in -2 .. version
  BY <1>1 DEF Held
<1>3. Torn \in -2 .. version /\ live[x] \in -2 .. version
  BY DEF Typed, Torn
<1> QED
  BY <1>2, <1>3 DEF Restored

LEMMA NewValue ==
    ASSUME NEW D, NEW T, NEW f \in [D -> T], NEW x \in D, NEW v
    PROVE  [f EXCEPT ![x] = v][x] = v /\ \A y \in D \ {x} : [f EXCEPT ![x] = v][y] = f[y]
OBVIOUS

(* The command at work after a step that is done.                          *)
LEMMA DoIs ==
    ASSUME Typed, InShape, NEW p \in Processes, Do(p), NEW s, s = Now(p)
    PROVE  /\ job' \in [Processes -> Jobs'] /\ s \in Steps /\ Possible(p, s)
           /\ \A q \in Processes \ {p} : job'[q] = job[q]
           /\ job'[p].cmd = job[p].cmd /\ job'[p].alone = job[p].alone /\ job'[p].bad = job[p].bad
           /\ job'[p].todo \in Rest(p, s)
           /\ job'[p].pick = job[p].pick \/ (s.do = "pick" /\ job'[p].pick \in findBackup(s.of))
           /\ s.do = "stage" => job'[p].cap["bind"] = Restored(p, "bind")
           /\ s.do \notin {"take", "record", "in", "stage"} => job'[p].cap = job[p].cap
           /\ job'[p].own = IF s.do = "record" /\ s.of = "pre-deploy" THEN version + 1 ELSE job[p].own
           /\ job'[p].prev = PrevAfter(p, s)
<1> DEFINE j == job[p]
           c0 == Idle.cap
           snap(s0) == IF s0.do = "record" THEN version + 1 ELSE j.snap
           own(s0) == IF s0.do = "record" /\ s0.of = "pre-deploy" THEN version + 1 ELSE j.own
<1>1. /\ j \in Jobs /\ j.todo # <<>> /\ Shape(j.cmd, j.todo) /\ version \in Nat \ {0}
      /\ live \in [Parts -> -2 .. version] /\ j.cap \in [Parts -> -2 .. version]
      /\ j.prev \in -2 .. version /\ j.own \in 0 .. version /\ j.snap \in 0 .. version
      /\ j.pick \in 0 .. version
  BY DEF Typed, InShape, Do, Jobs
<1>2. s \in Steps /\ Sane(s) /\ Fits(j.cmd, s) /\ Possible(p, s)
  BY <1>1, HeadFits DEF Now, Do
<1>3. /\ version' = IF s.do \in {"record", "alter"} THEN version + 1 ELSE version
      /\ \E t \in Rest(p, s), k \in Picks(p, s) : job' = [job EXCEPT ![p] = JobAfter(p, s, t, k)]
  BY DEF Do
<1>4. /\ -2 .. version \subseteq -2 .. version' /\ 0 .. version \subseteq 0 .. version'
      /\ [Parts -> -2 .. version] \subseteq [Parts -> -2 .. version'] /\ Jobs \subseteq Jobs'
      /\ version' \in Nat
  BY <1>3, Later
<1>5. PICK t \in Rest(p, s), k \in Picks(p, s) : job' = [job EXCEPT ![p] = JobAfter(p, s, t, k)]
  BY <1>3
<1>5a. JobAfter(p, s, t, k) = [j EXCEPT !.todo = t, !.pick = k, !.cap = CapAfter(p, s), !.snap = snap(s),
                                        !.own = own(s), !.prev = PrevAfter(p, s)]
  BY DEF JobAfter
<1>5b. k = j.pick \/ (s.do = "pick" /\ k \in findBackup(s.of))
  <2>1. s.do = "pick" => Picks(p, s) = findBackup(s.of)
    BY DEF Picks
  <2>2. s.do # "pick" => Picks(p, s) = {j.pick}
    BY DEF Picks
  <2>3. k \in Picks(p, s)
    OBVIOUS
  <2> QED
    BY <2>1, <2>2, <2>3
<1>6. CapAfter(p, s) \in [Parts -> -2 .. version]
  <2>1. None \in -2 .. version /\ c0 \in [Parts -> -2 .. version]
    BY <1>1 DEF None, Idle
  <2>2. s.do = "stage" => Restored(p, "bind") \in -2 .. version
    BY <1>2, RestoredIs DEF Possible, OnDisk, Parts, Owned, Archived
  <2>3. s.do = "take" => CapAfter(p, s) = [x \in Parts |-> IF x \in Taken(s.of) THEN live[x] ELSE j.cap[x]]
    BY DEF CapAfter
  <2>4. [x \in Parts |-> IF x \in Taken(s.of) THEN live[x] ELSE j.cap[x]] \in [Parts -> -2 .. version]
    BY <1>1
  <2>5. s.do = "stage" => CapAfter(p, s) = [j.cap EXCEPT !["bind"] = Restored(p, "bind")]
    BY DEF CapAfter
  <2>6. s.do = "stage" => [j.cap EXCEPT !["bind"] = Restored(p, "bind")] \in [Parts -> -2 .. version]
    BY <1>1, <2>2
  <2>7. s.do \in {"record", "in"} => CapAfter(p, s) = c0
    BY DEF CapAfter
  <2>8. s.do \notin {"take", "record", "in", "stage"} => CapAfter(p, s) = j.cap
    BY DEF CapAfter
  <2> QED
    BY <1>1, <2>1, <2>3, <2>4, <2>5, <2>6, <2>7, <2>8
<1>7. snap(s) \in 0 .. version' /\ own(s) \in 0 .. version' /\ PrevAfter(p, s) \in -2 .. version'
  <2>1. live["bind"] \in -2 .. version /\ None \in -2 .. version
    BY <1>1 DEF Parts, Owned, Archived, None
  <2>2. snap(s) \in 0 .. version' /\ own(s) \in 0 .. version'
    BY <1>1, <1>3, <1>4
  <2>3. PrevAfter(p, s) \in -2 .. version
    BY <1>1, <2>1 DEF PrevAfter
  <2> QED
    BY <1>4, <2>2, <2>3
<1>8. k \in 0 .. version
  <2>1. s.do = "pick" => findBackup(s.of) \subseteq Ids
    BY <1>2, FindIs DEF Sane
  <2>2. Ids \subseteq 1 .. version
    BY DEF Typed, Ids, IdsOf, Rows
  <2> QED
    <3>1. s.do = "pick" /\ k \in findBackup(s.of) => k \in 1 .. version
      BY <2>1, <2>2
    <3>2. j.pick \in 0 .. version /\ 1 .. version \subseteq 0 .. version
      BY <1>1
    <3> QED
      BY <1>5b, <3>1, <3>2
<1>9. t \in Seq(Steps)
  BY <1>1, RestKeepsShape DEF Shape
<1>10. (s.do = "stage" => CapAfter(p, s)["bind"] = Restored(p, "bind"))
       /\ (s.do \notin {"take", "record", "in", "stage"} => CapAfter(p, s) = j.cap)
  <2>1. s.do = "stage" => CapAfter(p, s) = [j.cap EXCEPT !["bind"] = Restored(p, "bind")]
    BY DEF CapAfter
  <2>2. "bind" \in Parts
    BY DEF Parts, Owned, Archived
  <2>3. [j.cap EXCEPT !["bind"] = Restored(p, "bind")]["bind"] = Restored(p, "bind")
    BY <1>1, <2>2, NewValue
  <2>4. s.do \notin {"take", "record", "in", "stage"} => CapAfter(p, s) = j.cap
    BY DEF CapAfter
  <2> QED
    BY <2>1, <2>3, <2>4
<1>11. own(s) = (IF s.do = "record" /\ s.of = "pre-deploy" THEN version + 1 ELSE job[p].own)
  OBVIOUS
<1> HIDE DEF snap, own
<1>12. [j EXCEPT !.todo = t, !.pick = k, !.cap = CapAfter(p, s), !.snap = snap(s), !.own = own(s),
                 !.prev = PrevAfter(p, s)] \in Jobs'
  <2>1. t \in Seq(Steps)' /\ k \in 0 .. version' /\ CapAfter(p, s) \in [Parts -> -2 .. version']
    BY <1>4, <1>6, <1>8, <1>9
  <2> QED
    BY <1>1, <1>7, <2>1 DEF Jobs
<1>13. job \in [Processes -> Jobs]
  BY DEF Typed
<1>14. /\ job'[p] = [j EXCEPT !.todo = t, !.pick = k, !.cap = CapAfter(p, s), !.snap = snap(s), !.own = own(s),
                              !.prev = PrevAfter(p, s)]
       /\ \A q \in Processes \ {p} : job'[q] = job[q]
       /\ job' \in [Processes -> Jobs']
  BY <1>4, <1>5a, <1>5, <1>12, <1>13
<1>15. /\ job'[p].cmd = j.cmd /\ job'[p].alone = j.alone /\ job'[p].bad = j.bad /\ job'[p].todo = t
       /\ job'[p].pick = k /\ job'[p].cap = CapAfter(p, s) /\ job'[p].own = own(s) /\ job'[p].prev = PrevAfter(p, s)
  BY <1>1, <1>14 DEF Jobs
<1> QED
  BY <1>2, <1>5, <1>5b, <1>10, <1>11, <1>14, <1>15

(* The command at work after a step that failed.                           *)
LEMMA FailedIs ==
    ASSUME Typed, InShape, NEW p \in Processes, job[p].todo # <<>>, NEW s, s = Now(p),
           job' = FailedJob(p, s)
    PROVE  /\ job' \in [Processes -> Jobs] /\ s \in Steps /\ Sane(s) /\ Fits(job[p].cmd, s)
           /\ \A q \in Processes \ {p} : job'[q] = job[q]
           /\ job'[p].cmd = job[p].cmd /\ job'[p].alone = job[p].alone /\ job'[p].pick = job[p].pick
           /\ job'[p].cap = job[p].cap /\ job'[p].own = job[p].own /\ job'[p].todo = After(p, s)
           /\ job'[p].bad <=> job[p].bad \/ s.on \in {"note", "undo"}
           /\ job'[p].prev = IF s.do = "preserve" THEN None ELSE job[p].prev
<1> DEFINE j == job[p]
           left == After(p, s)
           bad == j.bad \/ s.on \in {"note", "undo"}
           prev == IF s.do = "preserve" THEN None ELSE j.prev
<1>1. /\ j \in Jobs /\ Shape(j.cmd, j.todo) /\ job \in [Processes -> Jobs] /\ version \in Nat
  BY DEF Typed, InShape
<1>2. s \in Steps /\ Sane(s) /\ Fits(j.cmd, s)
  BY <1>1, HeadFits DEF Now
<1>3. left \in Seq(Steps)
  BY <1>1, AfterKeepsShape DEF Shape
<1>4. bad \in BOOLEAN /\ prev \in -2 .. version
  BY <1>1 DEF Jobs, None
<1> DEFINE new == [j EXCEPT !.todo = left, !.bad = bad, !.prev = prev]
<1>5. job' = [job EXCEPT ![p] = new]
  BY <1>1 DEF FailedJob
<1> HIDE DEF left, bad, prev
<1>6. new \in Jobs
  BY <1>1, <1>3, <1>4 DEF Jobs
<1> HIDE DEF new
<1>7. /\ job'[p] = new /\ \A q \in Processes \ {p} : job'[q] = job[q]
      /\ job' \in [Processes -> Jobs]
  <2>1. job \in [Processes -> Jobs]
    BY <1>1
  <2>2. job'[p] = new
    BY <1>5, <2>1
  <2>3. \A q \in Processes \ {p} : job'[q] = job[q]
    BY <1>5, <2>1
  <2>4. job' \in [Processes -> Jobs]
    BY <1>5, <1>6, <2>1
  <2> QED
    BY <2>2, <2>3, <2>4
<1>8. /\ job'[p].cmd = j.cmd /\ job'[p].alone = j.alone /\ job'[p].pick = j.pick
      /\ job'[p].cap = j.cap /\ job'[p].own = j.own /\ job'[p].todo = left
      /\ job'[p].bad = bad /\ job'[p].prev = prev
  BY <1>1, <1>7 DEF Jobs, new
<1>9. job'[p].bad <=> j.bad \/ s.on \in {"note", "undo"}
  BY <1>8 DEF bad
<1> QED
  BY <1>2, <1>7, <1>8, <1>9 DEF left, prev

LEMMA IdleIs ==
    ASSUME Typed
    PROVE  /\ Idle \in Jobs /\ Idle.cmd = Nobody /\ Idle.todo = <<>> /\ Idle.pick = 0 /\ Idle.own = 0
           /\ Idle.prev = None /\ ~Idle.bad /\ Idle.alone
<1>1. version \in Nat \ {0} /\ None \in -2 .. version
  BY DEF Typed, None
<1>2. <<>> \in Seq(Steps)
  OBVIOUS
<1>3. [x \in Parts |-> None] \in [Parts -> -2 .. version]
  BY <1>1
<1> QED
  BY <1>1, <1>2, <1>3 DEF Idle, Jobs

(* The command that starts, and the others, who may no longer be alone.    *)
LEMMA StartIs ==
    ASSUME Typed, NEW p \in Processes, NEW c \in Commands, Start(p, c)
    PROVE  /\ job' \in [Processes -> Jobs]
           /\ job'[p].cmd = c /\ job'[p].todo = Plans[c] /\ job'[p].pick = 0 /\ job'[p].own = 0
           /\ job'[p].prev = None /\ ~job'[p].bad
           /\ job'[p].alone => \A q \in Processes \ {p} : Active(q) => ~Disturbs(c, job[q].cmd)
           /\ \A q \in Processes \ {p} :
                 /\ job'[q].cmd = job[q].cmd /\ job'[q].todo = job[q].todo /\ job'[q].pick = job[q].pick
                 /\ job'[q].cap = job[q].cap /\ job'[q].bad = job[q].bad /\ job'[q].own = job[q].own
                 /\ job'[q].prev = job[q].prev
                 /\ job'[q].alone => job[q].alone /\ (Active(q) => ~Disturbs(c, job[q].cmd))
<1> DEFINE free == \A o \in Others(p) : ~Disturbs(c, job[o].cmd)
           new == [Idle EXCEPT !.cmd = c, !.todo = Plans[c], !.alone = free]
           still(q) == job[q].alone /\ (Active(q) => ~Disturbs(c, job[q].cmd))
           old(q) == [job[q] EXCEPT !.alone = still(q)]
<1>1. job' = [q \in Processes |-> IF q = p THEN new ELSE old(q)]
  BY DEF Start
<1>2. Plans[c] \in Seq(Steps)
  BY PlansInShape DEF Plan, Shape
<1>3. free \in BOOLEAN /\ (free => \A q \in Processes \ {p} : Active(q) => ~Disturbs(c, job[q].cmd))
  BY DEF Others
<1>4. \A q \in Processes : still(q) \in BOOLEAN /\ job[q] \in Jobs
  BY DEF Typed
<1> HIDE DEF free
<1>5. new \in Jobs /\ new.cmd = c /\ new.todo = Plans[c] /\ new.pick = 0 /\ new.own = 0
      /\ new.prev = None /\ ~new.bad /\ new.alone = free
  BY <1>2, <1>3, IdleIs DEF Jobs
<1>6. ASSUME NEW q \in Processes
      PROVE  /\ old(q) \in Jobs
             /\ old(q).cmd = job[q].cmd /\ old(q).todo = job[q].todo /\ old(q).pick = job[q].pick
             /\ old(q).cap = job[q].cap /\ old(q).bad = job[q].bad /\ old(q).own = job[q].own
             /\ old(q).prev = job[q].prev /\ old(q).alone = still(q)
  <2> HIDE DEF still
  <2> QED
    BY <1>4 DEF Jobs
<1> HIDE DEF new, old
<1>7. job' \in [Processes -> Jobs] /\ job'[p] = new /\ \A q \in Processes \ {p} : job'[q] = old(q)
  BY <1>1, <1>5, <1>6
<1>8. ASSUME NEW q \in Processes \ {p}
      PROVE  /\ job'[q].cmd = job[q].cmd /\ job'[q].todo = job[q].todo /\ job'[q].pick = job[q].pick
             /\ job'[q].cap = job[q].cap /\ job'[q].bad = job[q].bad /\ job'[q].own = job[q].own
             /\ job'[q].prev = job[q].prev
             /\ job'[q].alone => job[q].alone /\ (Active(q) => ~Disturbs(c, job[q].cmd))
  <2> HIDE DEF still
  <2>1. job'[q] = old(q) /\ q \in Processes
    BY <1>7
  <2>2. /\ job'[q].cmd = job[q].cmd /\ job'[q].todo = job[q].todo /\ job'[q].pick = job[q].pick
        /\ job'[q].cap = job[q].cap /\ job'[q].bad = job[q].bad /\ job'[q].own = job[q].own
        /\ job'[q].prev = job[q].prev /\ job'[q].alone = still(q)
    BY <1>6, <2>1
  <2> QED
    BY <2>2 DEF still
<1>9. job'[p].alone => \A q \in Processes \ {p} : Active(q) => ~Disturbs(c, job[q].cmd)
  BY <1>3, <1>5, <1>7
<1> QED
  BY <1>5, <1>7, <1>8, <1>9

(* The rows of backups after a step: those before it, some without their   *)
(* files, and the new one.                                                 *)
KeptRow(b) == \E a \in saved : /\ a.id = b.id /\ a.at = b.at /\ a.trigger = b.trigger
                               /\ b.files \in {a.files, "gone"}
LEMMA SavedIs ==
    ASSUME Typed, NEW p \in Processes, NEW s \in Steps, Possible(p, s), NEW table, table = SavedAfter(p, s)
    PROVE  /\ s.do \notin {"record", "files-", "prune", "row-"} => table = saved
           /\ \A b \in table :
                 \/ KeptRow(b)
                 \/ s.do = "record" /\ b = [id |-> version + 1, at |-> job[p].cap, trigger |-> s.of,
                                            files |-> "whole"]
           /\ IsFiniteSet(table) /\ \A b, c \in table : b.id = c.id => b = c
<1>1. /\ saved \subseteq Rows /\ IsFiniteSet(saved) /\ (\A b, c \in saved : b.id = c.id => b = c)
      /\ version \in Nat
  BY DEF Typed
<1>2. \A b \in saved : KeptRow(b)
  BY DEF KeptRow
<1>3. CASE s.do = "record"
  <2> DEFINE new == [id |-> version + 1, at |-> job[p].cap, trigger |-> s.of, files |-> "whole"]
  <2>1. table = saved \cup {new}
    BY <1>3 DEF SavedAfter
  <2>2. new.id = version + 1
    OBVIOUS
  <2>3. \A b \in saved : b.id # version + 1
    BY <1>1 DEF Rows
  <2> HIDE DEF new
  <2>4. IsFiniteSet(table)
    BY <1>1, <2>1, FS_AddElement
  <2>5. \A b, c \in table : b.id = c.id => b = c
    BY <1>1, <2>1, <2>2, <2>3
  <2> QED
    BY <1>2, <1>3, <2>1, <2>4, <2>5 DEF new
<1>4. CASE s.do = "files-"
  <2> DEFINE old == Chosen(p)
             new == [old EXCEPT !.files = "gone"]
  <2>1. table = (saved \ {old}) \cup {new}
    BY <1>4 DEF SavedAfter
  <2>2. old \in saved /\ old \in Rows
    BY <1>4, ChosenIs DEF Possible
  <2> HIDE DEF old
  <2>3. new.id = old.id /\ new.at = old.at /\ new.trigger = old.trigger /\ new.files = "gone"
    BY <2>2 DEF Rows
  <2> HIDE DEF new
  <2>4. KeptRow(new)
    BY <2>2, <2>3 DEF KeptRow
  <2>5. IsFiniteSet(table)
    <3>1. IsFiniteSet(saved \ {old})
      BY <1>1, FS_RemoveElement
    <3> QED
      BY <2>1, <3>1, FS_AddElement
  <2>6. \A b, c \in table : b.id = c.id => b = c
    BY <1>1, <2>1, <2>2, <2>3
  <2> QED
    BY <1>2, <1>4, <2>1, <2>4, <2>5, <2>6
<1>5. ASSUME table \subseteq saved
      PROVE  (\A b \in table : KeptRow(b)) /\ IsFiniteSet(table) /\ \A b, c \in table : b.id = c.id => b = c
  BY <1>1, <1>2, <1>5, FS_Subset
<1>6. CASE s.do = "prune"
  <2>1. table \subseteq saved
    BY <1>6 DEF SavedAfter, EnforceRetention
  <2> QED
    BY <1>5, <1>6, <2>1
<1>7. CASE s.do = "row-"
  <2>1. table \subseteq saved
    BY <1>7 DEF SavedAfter
  <2> QED
    BY <1>5, <1>7, <2>1
<1>8. CASE s.do \notin {"record", "files-", "prune", "row-"}
  <2>1. table = saved
    BY <1>8 DEF SavedAfter
  <2> QED
    BY <1>1, <1>2, <2>1
<1> QED
  BY <1>3, <1>4, <1>6, <1>7, <1>8

LEMMA RowsTyped ==
    ASSUME Typed, NEW p \in Processes, NEW s \in Steps, Possible(p, s),
           version' = IF s.do \in {"record", "alter"} THEN version + 1 ELSE version
    PROVE  SavedAfter(p, s) \subseteq Rows'
<1>1. Rows \subseteq Rows' /\ [Parts -> -2 .. version] \subseteq [Parts -> -2 .. version'] /\ version \in Nat
  BY Later DEF Typed
<1>2. \A b \in SavedAfter(p, s) :
         \/ KeptRow(b)
         \/ s.do = "record" /\ b = [id |-> version + 1, at |-> job[p].cap, trigger |-> s.of, files |-> "whole"]
  BY SavedIs
<1>3. CASE s.do = "record"
  <2> DEFINE new == [id |-> version + 1, at |-> job[p].cap, trigger |-> s.of, files |-> "whole"]
  <2>1. job[p].cap \in [Parts -> -2 .. version] /\ s.of \in Subjects /\ version + 1 \in 1 .. version'
    <3>1. job[p] \in Jobs
      BY DEF Typed
    <3>2. job[p].cap \in [Parts -> -2 .. version]
      BY <3>1 DEF Jobs
    <3>3. s.of \in Subjects
      BY DEF Steps
    <3>4. version' = version + 1
      BY <1>3
    <3> QED
      BY <1>1, <3>2, <3>3, <3>4
  <2>2. new \in Rows'
    BY <1>1, <2>1 DEF Rows
  <2>3. SavedAfter(p, s) = saved \cup {new}
    BY <1>3 DEF SavedAfter
  <2> HIDE DEF new
  <2> QED
    BY <1>1, <2>2, <2>3 DEF Typed
<1>4. CASE s.do = "files-"
  <2> DEFINE old == Chosen(p)
             new == [old EXCEPT !.files = "gone"]
  <2>1. SavedAfter(p, s) = (saved \ {old}) \cup {new}
    BY <1>4 DEF SavedAfter
  <2>2. old \in saved /\ old \in Rows
    BY <1>4, ChosenIs DEF Possible
  <2> HIDE DEF old
  <2>3. new \in Rows
    BY <2>2 DEF Rows
  <2> HIDE DEF new
  <2> QED
    BY <1>1, <2>1, <2>3 DEF Typed
<1>5. CASE s.do \notin {"record", "files-"}
  <2>1. SavedAfter(p, s) \subseteq saved
    BY <1>5 DEF SavedAfter, EnforceRetention
  <2> QED
    BY <1>1, <2>1 DEF Typed
<1> QED
  BY <1>3, <1>4, <1>5

LEMMA LiveTyped ==
    ASSUME Typed, NEW p \in Processes, NEW s \in Steps, Sane(s), Possible(p, s),
           version' = IF s.do \in {"record", "alter"} THEN version + 1 ELSE version
    PROVE  LiveAfter(p, s) \in [Parts -> -2 .. version']
<1>1. /\ [Parts -> -2 .. version] \subseteq [Parts -> -2 .. version'] /\ version \in Nat
      /\ -2 .. version \subseteq -2 .. version'
  BY Later DEF Typed
<1>2. live \in [Parts -> -2 .. version'] /\ live \in [Parts -> -2 .. version] /\ None \in -2 .. version'
  BY <1>1 DEF Typed, None
<1>3. /\ job[p].prev \in -2 .. version' /\ job[p].cap["bind"] \in -2 .. version'
  <2>1. job[p].prev \in -2 .. version /\ job[p].cap \in [Parts -> -2 .. version] /\ "bind" \in Parts
    BY DEF Typed, Jobs, Parts, Owned, Archived
  <2> QED
    BY <1>1, <2>1
<1>4. ASSUME NEW x, NEW v \in -2 .. version' PROVE [live EXCEPT ![x] = v] \in [Parts -> -2 .. version']
  BY <1>2
<1>5. s.do = "put" => Restored(p, s.of) \in -2 .. version'
  <2>1. s.do = "put" => s.of \in Parts /\ job[p].pick \in Ids
    BY DEF Sane, Possible, OnDisk, Parts, Owned, Archived, Dumped
  <2> QED
    BY <1>1, <2>1, RestoredIs
<1>6. s.do = "alter" => Fresh("data") \in -2 .. version'
  <2>1. live["data"] \in -2 .. version'
    BY <1>2 DEF Parts, Owned, Dumped
  <2> QED
    BY <1>1, <2>1 DEF Fresh
<1>7. CASE s.do = "put"
  BY <1>4, <1>5, <1>7 DEF LiveAfter
<1>8. CASE s.do = "away"
  BY <1>2, <1>4, <1>8 DEF LiveAfter
<1>9. CASE s.do \in {"in", "back"}
  BY <1>3, <1>4, <1>9 DEF LiveAfter
<1>10. CASE s.do = "alter"
  BY <1>4, <1>6, <1>10 DEF LiveAfter, Exec
<1>11. CASE s.do \notin {"put", "away", "in", "back", "alter"}
  BY <1>2, <1>11 DEF LiveAfter
<1> QED
  BY <1>7, <1>8, <1>9, <1>10, <1>11

-----------------------------------------------------------------------------
(* Types and shapes are kept.                                              *)
(* Types and shapes are kept by every step.                                *)
LEMMA BasisInit == Init => Typed /\ InShape
<1> SUFFICES ASSUME Init PROVE Typed /\ InShape
  OBVIOUS
<1>1. version = 1 /\ live = [x \in Parts |-> 1] /\ job = [p \in Processes |-> Idle]
  BY DEF Init
<1>2. Idle \in Jobs /\ Idle.todo = <<>>
  <2>1. <<>> \in Seq(Steps) /\ [x \in Parts |-> None] \in [Parts -> -2 .. version]
    BY <1>1 DEF None
  <2> QED
    BY <1>1, <2>1 DEF Idle, Jobs, None
<1>3. saved \subseteq Rows /\ IsFiniteSet(saved) /\ \A b, c \in saved : b.id = c.id => b = c
  <2> DEFINE old == [id |-> 1, at |-> [x \in Parts |-> 0], trigger |-> "manual", files |-> "whole"]
  <2>1. [x \in Parts |-> 0] \in [Parts -> -2 .. version] /\ "manual" \in Subjects
    BY <1>1 DEF Subjects
  <2>2. old \in Rows
    BY <1>1, <2>1 DEF Rows
  <2>3. saved = {old} \/ saved = {}
    BY DEF Init
  <2> HIDE DEF old
  <2> QED
    BY <2>2, <2>3, FS_Singleton, FS_EmptySet
<1>4. Typed
  <2>1. live \in [Parts -> -2 .. version] /\ run \in {"none", "db", "all"}
    BY <1>1 DEF Init
  <2> QED
    BY <1>1, <1>2, <1>3, <2>1 DEF Init, Typed
<1>5. InShape
  BY <1>1, <1>2, EmptyShape DEF InShape, Ended
<1> QED
  BY <1>4, <1>5

LEMMA DoBasis ==
    ASSUME Typed, InShape, NEW p \in Processes, Do(p) PROVE Typed' /\ InShape'
<1> DEFINE s == Now(p)
<1>1. /\ job' \in [Processes -> Jobs'] /\ s \in Steps /\ Possible(p, s) /\ job'[p].cmd = job[p].cmd
      /\ job'[p].todo \in Rest(p, s) /\ \A q \in Processes \ {p} : job'[q] = job[q]
  BY DoIs
<1>2. job[p].todo # <<>> /\ Shape(job[p].cmd, job[p].todo) /\ Ended(job[p].todo)
  BY DEF Do, InShape
<1>3. Sane(s)
  BY <1>2, HeadFits DEF Now
<1>4. /\ live' = LiveAfter(p, s) /\ run' = RunAfter(s) /\ saved' = SavedAfter(p, s)
      /\ aside' = (IF s.do = "preserve" THEN aside \cup {job[p].prev} ELSE aside)
      /\ registry' = (IF s.do = "copydb" THEN 1 ELSE registry)
      /\ exports' = (IF s.do = "export" THEN exports \cup {registry} ELSE exports)
      /\ mutex' = (IF s.do = "lock" THEN p ELSE mutex)
      /\ flock' = (CASE s.do = "flock" -> p [] s.do = "funlock" -> Nobody [] OTHER -> flock)
      /\ version' = (IF s.do \in {"record", "alter"} THEN version + 1 ELSE version)
      /\ faults' = faults
  BY DEF Do
<1> HIDE DEF s
<1>5. live' \in [Parts -> -2 .. version']
  BY <1>1, <1>3, <1>4, LiveTyped
<1>6. saved' \subseteq Rows' /\ IsFiniteSet(saved') /\ \A b, c \in saved' : b.id = c.id => b = c
  <2>1. saved' \subseteq Rows'
    BY <1>1, <1>4, RowsTyped
  <2>2. IsFiniteSet(saved') /\ \A b, c \in saved' : b.id = c.id => b = c
    BY <1>1, <1>4, SavedIs
  <2> QED
    BY <2>1, <2>2
<1>7. /\ version' \in Nat \ {0} /\ -2 .. version \subseteq -2 .. version'
  <2>1. version' \in {version, version + 1}
    BY <1>4
  <2> QED
    BY <2>1, Later
<1>8. run' \in {"none", "db", "all"}
  BY <1>4 DEF RunAfter, Typed
<1>9. aside' \subseteq -2 .. version'
  <2>1. job[p].prev \in -2 .. version
    BY DEF Typed, Jobs
  <2> QED
    BY <1>4, <1>7, <2>1 DEF Typed
<1>10. registry' \in -2 .. 1 /\ exports' \subseteq {0, 1}
  <2>1. s.do = "export" => registry \in {0, 1}
    BY <1>1 DEF Possible, Typed
  <2> QED
    BY <1>4, <2>1 DEF Typed
<1>11. mutex' \in Processes \cup {Nobody} /\ flock' \in Processes \cup {Nobody}
  BY <1>4 DEF Typed
<1>12. Typed'
  BY <1>1, <1>4, <1>5, <1>6, <1>7, <1>8, <1>9, <1>10, <1>11 DEF Typed
<1>13. InShape'
  <2>1. Shape(job[p].cmd, job'[p].todo) /\ Ended(job'[p].todo)
    BY <1>1, <1>2, RestKeepsShape, EndStays DEF s
  <2> QED
    BY <1>1, <2>1 DEF InShape
<1> QED
  BY <1>12, <1>13

LEMMA FailedBasis ==
    ASSUME Typed, InShape, NEW p \in Processes, Active(p), job[p].todo # <<>>, Failed(p, Now(p))
    PROVE  /\ job' \in [Processes -> Jobs] /\ InShape' /\ registry' \in -2 .. 1
<1> DEFINE s == Now(p)
<1>1. job' \in [Processes -> Jobs] /\ job'[p].cmd = job[p].cmd /\ job'[p].todo = After(p, s)
      /\ \A q \in Processes \ {p} : job'[q] = job[q]
  <2>1. job' = FailedJob(p, s)
    BY DEF Failed
  <2> QED
    BY <2>1, FailedIs
<1>2. Shape(job[p].cmd, job[p].todo) /\ Ended(job[p].todo)
  BY DEF InShape
<1>3. Shape(job[p].cmd, After(p, s)) /\ Ended(After(p, s))
  BY <1>2, AfterKeepsShape, EndStays
<1>4. InShape'
  BY <1>1, <1>3 DEF InShape
<1>5. registry' \in -2 .. 1
  BY DEF Failed, Typed, None
<1> QED
  BY <1>1, <1>4, <1>5

LEMMA HalfwayTyped ==
    ASSUME Typed, NEW s, NEW f \in Halfway(s)
    PROVE  f \in [Parts -> -2 .. version]
<1>1. live \in [Parts -> -2 .. version] /\ Torn \in -2 .. version
  BY DEF Typed, Torn
<1>2. [live EXCEPT ![s.of] = Torn] \in [Parts -> -2 .. version]
  BY <1>1
<1> QED
  BY <1>1, <1>2 DEF Halfway

LEMMA IdleBasis ==
    ASSUME Typed, InShape, NEW p \in Processes, job' = [job EXCEPT ![p] = Idle]
    PROVE  job' \in [Processes -> Jobs] /\ InShape'
           /\ job'[p] = Idle /\ \A q \in Processes \ {p} : job'[q] = job[q]
<1>1. job \in [Processes -> Jobs] /\ Idle \in Jobs /\ Idle.todo = <<>>
  BY IdleIs DEF Typed
<1>2. job' \in [Processes -> Jobs] /\ job'[p] = Idle /\ \A q \in Processes \ {p} : job'[q] = job[q]
  BY <1>1
<1>3. InShape'
  BY <1>1, <1>2, EmptyShape DEF InShape, Ended
<1> QED
  BY <1>2, <1>3

LEMMA BasisStep == Typed /\ InShape /\ [Next]_vars => Typed' /\ InShape'
<1> SUFFICES ASSUME Typed, InShape, [Next]_vars PROVE Typed' /\ InShape'
  OBVIOUS
<1>1. CASE Write
  <2>1. version' = version + 1 /\ job' = job /\ saved' = saved
        /\ live' = [x \in Parts |-> IF x \in Owned THEN Fresh(x) ELSE live[x]]
    BY <1>1 DEF Write
  <2>2. /\ Rows \subseteq Rows' /\ Jobs \subseteq Jobs' /\ version' \in Nat \ {0}
        /\ -2 .. version \subseteq -2 .. version'
    BY <2>1, Later
  <2>3. \A x \in Parts : live[x] \in -2 .. version' /\ Fresh(x) \in -2 .. version'
    <3>1. \A x \in Parts : live[x] \in -2 .. version'
      BY <2>2 DEF Typed
    <3>2. version + 1 \in -2 .. version'
      BY <2>1 DEF Typed
    <3> QED
      BY <3>1, <3>2 DEF Fresh
  <2>4. live' \in [Parts -> -2 .. version']
    BY <2>1, <2>3
  <2>5. Typed'
    BY <1>1, <2>1, <2>2, <2>4 DEF Typed, Write
  <2> QED
    BY <2>1, <2>5 DEF InShape
<1>2. CASE Damage
  <2>1. PICK b \in saved : saved' = (saved \ {b}) \cup {[b EXCEPT !.files = "bad"]}
    BY <1>2 DEF Damage
  <2> DEFINE new == [b EXCEPT !.files = "bad"]
  <2>2. new \in Rows /\ new.id = b.id
    BY DEF Typed, Rows
  <2> HIDE DEF new
  <2>3. saved' = (saved \ {b}) \cup {new}
    BY <2>1 DEF new
  <2>4. IsFiniteSet(saved')
    <3>1. IsFiniteSet(saved \ {b})
      BY FS_RemoveElement DEF Typed
    <3> QED
      BY <2>3, <3>1, FS_AddElement
  <2>5. saved' \subseteq Rows /\ \A c, d \in saved' : c.id = d.id => c = d
    BY <2>2, <2>3 DEF Typed
  <2>6. /\ UNCHANGED <<live, run, aside, registry, exports, history, mutex, flock, job, version>>
        /\ faults' \in Nat
    BY <1>2 DEF Damage, Typed
  <2>7. Rows' = Rows /\ Jobs' = Jobs
    BY <2>6 DEF Rows, Jobs
  <2> QED
    BY <2>4, <2>5, <2>6, <2>7 DEF Typed, InShape
<1>3. ASSUME NEW p \in Processes, NEW c \in Commands, Start(p, c) PROVE Typed' /\ InShape'
  <2>1. /\ job' \in [Processes -> Jobs] /\ job'[p].cmd = c /\ job'[p].todo = Plans[c]
        /\ \A q \in Processes \ {p} : job'[q].cmd = job[q].cmd /\ job'[q].todo = job[q].todo
    BY <1>3, StartIs
  <2>2. UNCHANGED <<live, run, saved, aside, registry, exports, history, mutex, flock, version, faults>>
    BY <1>3 DEF Start
  <2>3. Shape(c, Plans[c]) /\ Ended(Plans[c])
    BY PlansInShape DEF Plan
  <2>4. Rows' = Rows /\ Jobs' = Jobs
    BY <2>2 DEF Rows, Jobs
  <2> QED
    BY <2>1, <2>2, <2>3, <2>4 DEF Typed, InShape
<1>4. ASSUME NEW p \in Processes, Do(p) PROVE Typed' /\ InShape'
  BY <1>4, DoBasis
<1>5. ASSUME NEW p \in Processes, Refuse(p) PROVE Typed' /\ InShape'
  <2>1. /\ job' \in [Processes -> Jobs] /\ InShape' /\ registry' \in -2 .. 1
    BY <1>5, FailedBasis DEF Refuse
  <2>2. UNCHANGED <<live, run, saved, aside, exports, history, mutex, flock, version, faults>>
    BY <1>5 DEF Refuse, Failed
  <2>3. Rows' = Rows /\ Jobs' = Jobs
    BY <2>2 DEF Rows, Jobs
  <2> QED
    BY <2>1, <2>2, <2>3 DEF Typed
<1>6. ASSUME NEW p \in Processes, Fail(p) PROVE Typed' /\ InShape'
  <2>1. /\ job' \in [Processes -> Jobs] /\ InShape' /\ registry' \in -2 .. 1
    BY <1>6, FailedBasis DEF Fail
  <2>2. UNCHANGED <<saved, aside, exports, history, mutex, flock, version>> /\ faults' = faults + 1
    BY <1>6 DEF Fail, Failed
  <2>3. Rows' = Rows /\ Jobs' = Jobs
    BY <2>2 DEF Rows, Jobs
  <2>4. live' \in [Parts -> -2 .. version]
    BY <1>6, HalfwayTyped DEF Fail
  <2>5. run' \in {"none", "db", "all"}
    BY <1>6 DEF Fail, Halted, RunAfter, Typed
  <2> QED
    BY <2>1, <2>2, <2>3, <2>4, <2>5 DEF Typed
<1>7. ASSUME NEW p \in Processes, FailCopy(p) PROVE Typed' /\ InShape'
  <2>1. job' = [job EXCEPT ![p].todo = <<>>]
    BY <1>7 DEF FailCopy
  <2>2. UNCHANGED <<live, run, saved, aside, exports, history, mutex, flock, version>>
        /\ faults' = faults + 1 /\ registry' \in {registry, Torn}
    BY <1>7 DEF FailCopy
  <2>3. Rows' = Rows /\ Jobs' = Jobs
    BY <2>2 DEF Rows, Jobs
  <2>4. <<>> \in Seq(Steps)
    OBVIOUS
  <2>5. job' \in [Processes -> Jobs]
    <3> DEFINE new == [job[p] EXCEPT !.todo = <<>>]
    <3>0. job[p] \in Jobs /\ job \in [Processes -> Jobs]
      BY DEF Typed
    <3>1. new \in Jobs /\ job \in [Processes -> Jobs]
      <4>1. \A j \in Jobs, t \in Seq(Steps) : [j EXCEPT !.todo = t] \in Jobs
        BY DEF Jobs
      <4> QED
        BY <2>4, <3>0, <4>1
    <3>2. job' = [job EXCEPT ![p] = new]
      BY <2>1
    <3> HIDE DEF new
    <3> QED
      BY <3>1, <3>2
  <2>6. job'[p].cmd = job[p].cmd /\ job'[p].todo = <<>> /\ \A q \in Processes \ {p} : job'[q] = job[q]
    BY <2>1 DEF Typed, Jobs
  <2>7. InShape'
    BY <2>6, EmptyShape DEF InShape, Ended
  <2> QED
    BY <2>2, <2>3, <2>5, <2>7 DEF Typed, Torn
<1>8. ASSUME NEW p \in Processes, End(p) PROVE Typed' /\ InShape'
  <2>1. job' \in [Processes -> Jobs] /\ InShape'
    BY <1>8, IdleBasis DEF End
  <2>2. UNCHANGED <<live, run, saved, aside, registry, exports, history, version, faults>>
        /\ mutex' \in {mutex, Nobody} /\ flock' \in {flock, Nobody}
    BY <1>8 DEF End
  <2>3. Rows' = Rows /\ Jobs' = Jobs
    BY <2>2 DEF Rows, Jobs
  <2> QED
    BY <2>1, <2>2, <2>3 DEF Typed
<1>9. ASSUME NEW p \in Processes, Kill(p) PROVE Typed' /\ InShape'
  <2>1. job' \in [Processes -> Jobs] /\ InShape'
    BY <1>9, IdleBasis DEF Kill
  <2>2. UNCHANGED <<run, saved, exports, history, version>> /\ faults' = faults + 1
        /\ mutex' \in {mutex, Nobody} /\ flock' \in {flock, Nobody} /\ registry' \in {registry, Torn}
    BY <1>9 DEF Kill
  <2>3. Rows' = Rows /\ Jobs' = Jobs
    BY <2>2 DEF Rows, Jobs
  <2>4. live' \in [Parts -> -2 .. version]
    BY <1>9, HalfwayTyped DEF Kill
  <2>5. aside' \subseteq -2 .. version
    <3>1. job[p].prev \in -2 .. version
      BY DEF Typed, Jobs
    <3> QED
      BY <1>9, <3>1 DEF Kill, Typed
  <2> QED
    BY <2>1, <2>2, <2>3, <2>4, <2>5 DEF Typed, Torn
<1>10. CASE UNCHANGED vars
  <2>1. UNCHANGED <<live, run, saved, aside, registry, exports, mutex, flock, job, version, faults>>
    BY <1>10 DEF vars
  <2>2. Rows' = Rows /\ Jobs' = Jobs
    BY <2>1 DEF Rows, Jobs
  <2> QED
    BY <2>1, <2>2 DEF Typed, InShape
<1> QED
  BY <1>1, <1>2, <1>3, <1>4, <1>5, <1>6, <1>7, <1>8, <1>9, <1>10 DEF Next

-----------------------------------------------------------------------------
(* What follows a step, done or failed.                                    *)
(* The step after one that was done.                                       *)
Succeeds(p, c, s, h) ==
    /\ h \in Steps /\ Sane(h) /\ Fits(c, h)
    /\ h.do = "extract" => s.do = "export"
    /\ h.do = "copydb" => s.do = "extract"
    /\ h.do = "opens" => s.do = "copydb"
    /\ h.do \notin {"back", "preserve"}
    /\ h.do = "away" => s.do = "stage" /\ Held(p, "bind") # None
    /\ h.do = "in" => s.do = "away"
    /\ s.do = "pick" /\ c \in Serialised => h.do = "lock"
    /\ s.do = "pick" /\ c \in Deploys => Rank(h) = 1
    /\ c \in Restores /\ Rank(s) = 0 => Rank(h) \in {0, 1}
    /\ c \in Restores /\ Rank(s) > 0 =>
          \E k \in 1 .. 11 :
             /\ k = Rank(s) \/ (s.do = "stage" /\ Held(p, "bind") = None /\ k = 7)
             /\ Rank(h) \in 1 .. 11 /\ k < Rank(h) /\ \A r \in RanksOf(c) : r <= k \/ r >= Rank(h)
LEMMA NextStep ==
    ASSUME NEW p, NEW c, NEW s, Shape(c, job[p].todo), job[p].todo # <<>>, s = Now(p),
           NEW t \in Rest(p, s), t # <<>>, NEW h, h = Head(t)
    PROVE  Succeeds(p, c, s, h)
<1>1. s \in Steps /\ Sane(s) /\ Fits(c, s)
  BY HeadFits DEF Now
<1>2. /\ Shape(c, t)
      /\ \/ Follows(c, s, h) /\ (s.do = "stage" => Held(p, "bind") # None)
         \/ /\ s.do = "stage" /\ Held(p, "bind") = None
            /\ \E a \in Steps : a.do = "in" /\ Follows(c, a, h) /\ Fits(c, a)
  BY RestKeepsShape
<1>3. h \in Steps /\ Sane(h) /\ Fits(c, h)
  BY <1>2, HeadFits
<1>4. Rank(h) \in 0 .. 11 /\ Rank(s) \in 0 .. 11
  BY RanksBack
<1>5. c \in Restores => 1 \in RanksOf(c)
  BY DEF RanksOf
<1>6. CASE Follows(c, s, h) /\ (s.do = "stage" => Held(p, "bind") # None)
  <2>1. /\ h.do = "away" => s.do = "stage" /\ Held(p, "bind") # None
        /\ h.do = "in" => s.do = "away"
    BY <1>1, <1>3, <1>6, RenamesTogether
  <2>2. c \in Restores /\ Rank(s) = 0 => Rank(h) \in {0, 1}
    BY <1>4, <1>5, <1>6 DEF Follows
  <2>3. ASSUME c \in Restores, Rank(s) > 0
        PROVE  Rank(s) \in 1 .. 11 /\ Rank(h) \in 1 .. 11 /\ Rank(s) < Rank(h)
               /\ \A r \in RanksOf(c) : r <= Rank(s) \/ r >= Rank(h)
    BY <1>4, <1>6, <2>3 DEF Follows
  <2>4. /\ h.do = "extract" => s.do = "export"
        /\ h.do = "copydb" => s.do = "extract"
        /\ h.do = "opens" => s.do = "copydb"
        /\ h.do \notin {"back", "preserve"}
        /\ s.do = "pick" /\ c \in Serialised => h.do = "lock"
        /\ s.do = "pick" /\ c \in Deploys => Rank(h) = 1
    BY <1>6 DEF Follows
  <2> QED
    BY <1>3, <2>1, <2>2, <2>3, <2>4 DEF Succeeds
<1>7. CASE s.do = "stage" /\ Held(p, "bind") = None
           /\ \E a \in Steps : a.do = "in" /\ Follows(c, a, h) /\ Fits(c, a)
  <2>1. PICK a \in Steps : a.do = "in" /\ Follows(c, a, h) /\ Fits(c, a)
    BY <1>7
  <2>2. h.do \notin {"away", "in"}
    BY <1>3, <2>1, RenamesTogether
  <2>3. Rank(a) = 7 /\ Rank(s) = 5
    BY <1>7, <2>1 DEF Rank
  <2>4. h.do \notin {"back", "preserve", "extract", "copydb", "opens"}
    BY <2>1 DEF Follows
  <2>5. ASSUME c \in Restores
        PROVE  Rank(h) \in 1 .. 11 /\ 7 < Rank(h) /\ \A r \in RanksOf(c) : r <= 7 \/ r >= Rank(h)
    BY <1>4, <2>1, <2>3, <2>5 DEF Follows
  <2>6. 7 \in 1 .. 11
    OBVIOUS
  <2> QED
    BY <1>3, <1>7, <2>2, <2>3, <2>4, <2>5, <2>6 DEF Succeeds
<1> QED
  BY <1>2, <1>6, <1>7

(* The step after one that failed.                                         *)
Recovers(p, c, s, h) ==
    /\ h \in Steps /\ Sane(h) /\ Fits(c, h)
    /\ s.on \notin {"stop", "drop"}
    /\ h.do = "extract" => s.do = "export"
    /\ h.do \notin {"copydb", "opens", "away", "in"}
    /\ h.do = "back" => s.do = "in" /\ job[p].prev # None
    /\ h.do = "preserve" => s.do = "back"
    /\ s.do = "in" /\ job[p].prev # None => h.do = "back"
    /\ s.do = "back" => h.do = "preserve"
    /\ c \in Restores /\ Rank(s) = 0 => Rank(h) \in {0, 1}
    /\ Rank(s) > 0 => Rank(h) \in 1 .. 10 /\ Rank(s) > 2 /\ (s.on \in {"note", "undo"} \/ s.do \in {"back", "preserve"})
LEMMA StepAfterFailure ==
    ASSUME NEW p, NEW c, NEW s, Shape(c, job[p].todo), job[p].todo # <<>>, s = Now(p),
           NEW t, t = After(p, s), t # <<>>, NEW h, h = Head(t)
    PROVE  Recovers(p, c, s, h)
<1>1. s \in Steps /\ Sane(s) /\ Fits(c, s)
  BY HeadFits DEF Now
<1>2. /\ Shape(c, t) /\ s.on \notin {"stop", "drop"}
      /\ s.on = "go" => Follows(c, s, h)
      /\ s.on = "skip" => \E a \in Steps : a.do \in Snapshot /\ Follows(c, a, h) /\ Fits(c, a)
      /\ s.on = "undo" /\ job[p].prev = None => Follows(c, s, h)
      /\ s.on = "undo" /\ job[p].prev # None => h.do = "back"
      /\ s.on = "keep" => h.do = "preserve"
  <2>1. Shape(c, t) /\ s.on \notin {"stop", "drop"}
    BY AfterKeepsShape
  <2>2. /\ s.on = "go" => Follows(c, s, h)
        /\ s.on = "skip" => \E a \in Steps : a.do \in Snapshot /\ Follows(c, a, h) /\ Fits(c, a)
    BY AfterKeepsShape
  <2>3. /\ s.on = "undo" /\ job[p].prev = None => Follows(c, s, h)
        /\ s.on = "undo" /\ job[p].prev # None => h.do = "back"
        /\ s.on = "keep" => h.do = "preserve"
    BY AfterKeepsShape
  <2> QED
    BY <2>1, <2>2, <2>3
<1>3. h \in Steps /\ Sane(h) /\ Fits(c, h)
  BY <1>2, HeadFits
<1>4. Rank(h) \in 0 .. 11 /\ Rank(s) \in 0 .. 11
  BY RanksBack
<1>5. c \in Restores => 1 \in RanksOf(c) /\ 10 \in RanksOf(c)
  BY DEF RanksOf
<1>6. /\ Rank(s) > 0 /\ ~(s.do \in {"down", "up"} /\ s.on = "stop") => c \in Restores
      /\ s.do \in {"in", "back", "preserve"} => Rank(s) = 7
  <2>1. s.do \in {"in", "back", "preserve"} => Rank(s) = 7
    BY DEF Rank
  <2>2. Rank(s) \in {2, 11} => s.do \in {"down", "up"}
    BY RanksBack
  <2>3. s.do \in {"down", "up"} => s.on = "stop"
    <3>1. s.do \in {"down", "up"} => Rank(s) \in {2, 11}
      BY DEF Rank
    <3> QED
      BY <1>1, <3>1 DEF Sane, Snapshot, Steps, Ways
  <2> QED
    BY <1>1, <1>4, <2>1, <2>2, <2>3 DEF Fits
<1>7. CASE s.on = "go"
  <2>1. s.do \in {"prune", "files-", "funlock", "export", "preserve"}
    BY <1>1, <1>7 DEF Sane
  <2>2. Rank(s) = IF s.do = "preserve" THEN 7 ELSE 0
    BY <2>1 DEF Rank
  <2>3. Follows(c, s, h)
    BY <1>2, <1>7
  <2>4. h.do \notin {"copydb", "opens", "back", "preserve"} /\ (h.do = "extract" => s.do = "export")
    BY <2>1, <2>3 DEF Follows
  <2>5. h.do \notin {"away", "in"}
    BY <1>1, <1>3, <2>1, <2>3, RenamesTogether
  <2>6. c \in Restores /\ Rank(s) = 0 => Rank(h) \in {0, 1}
    BY <1>4, <1>5, <2>3 DEF Follows
  <2>7. Rank(s) > 0 => c \in Restores /\ s.do = "preserve" /\ Rank(s) = 7
    BY <1>6, <2>1, <2>2
  <2>8. Rank(s) > 0 => Rank(h) \in 1 .. 10
    BY <1>4, <1>5, <2>3, <2>7 DEF Follows
  <2> QED
    BY <1>2, <1>3, <2>1, <2>4, <2>5, <2>6, <2>7, <2>8 DEF Recovers
<1>8. CASE s.on = "skip"
  <2>1. PICK a \in Steps : a.do \in Snapshot /\ Follows(c, a, h) /\ Fits(c, a)
    BY <1>2, <1>8
  <2>2. s.do \in Snapshot
    BY <1>1, <1>8 DEF Sane
  <2>3. Rank(s) = 0 /\ Rank(a) = 0
    BY <2>1, <2>2 DEF Rank, Snapshot
  <2>4. h.do \notin {"extract", "copydb", "opens", "back", "preserve"}
    BY <2>1 DEF Follows, Snapshot
  <2>5. h.do \notin {"away", "in"}
    BY <1>3, <2>1, RenamesTogether DEF Snapshot
  <2>6. c \in Restores => Rank(h) \in {0, 1}
    BY <1>4, <1>5, <2>1, <2>3 DEF Follows
  <2> QED
    BY <1>2, <1>3, <2>2, <2>3, <2>4, <2>5, <2>6 DEF Snapshot, Recovers
<1>9. CASE s.on = "note"
  <2>1. /\ c \in Restores /\ Rank(s) \in 3 .. 9 /\ Rank(h) \in 1 .. 10
        /\ h.do \notin {"away", "in", "back", "preserve"}
    BY <1>9, NoteGoesOn
  <2>2. h.do \notin {"extract", "copydb", "opens"}
    <3>1. h.do \in {"extract", "copydb", "opens"} => Rank(h) = 0
      BY DEF Rank
    <3> QED
      BY <2>1, <3>1
  <2>3. s.do \notin {"in", "back", "preserve"}
    BY <1>1, <1>6, <1>9 DEF Sane
  <2> QED
    BY <1>2, <1>3, <1>9, <2>1, <2>2, <2>3 DEF Recovers
<1>10. CASE s.on = "undo"
  <2>1. s.do = "in" /\ Rank(s) = 7 /\ c \in Restores
    BY <1>1, <1>6, <1>10 DEF Sane
  <2>2. CASE job[p].prev # None
    <3>1. h.do = "back"
      BY <1>2, <1>10, <2>2
    <3>2. Rank(h) = 7
      BY <3>1 DEF Rank
    <3> QED
      BY <1>2, <1>3, <1>10, <2>1, <2>2, <3>1, <3>2 DEF Recovers
  <2>3. CASE job[p].prev = None
    <3>1. Follows(c, s, h)
      BY <1>2, <1>10, <2>3
    <3>2. h.do \notin {"extract", "copydb", "opens", "back", "preserve"}
      BY <2>1, <3>1 DEF Follows
    <3>3. h.do \notin {"away", "in"}
      BY <1>1, <1>3, <2>1, <3>1, RenamesTogether
    <3>4. Rank(h) \in 1 .. 10
      BY <1>4, <1>5, <2>1, <3>1 DEF Follows
    <3> QED
      BY <1>2, <1>3, <1>10, <2>1, <2>3, <3>2, <3>3, <3>4 DEF Recovers
  <2> QED
    BY <2>2, <2>3
<1>11. CASE s.on = "keep"
  <2>1. s.do = "back" /\ h.do = "preserve" /\ Rank(s) = 7
    BY <1>1, <1>2, <1>6, <1>11 DEF Sane
  <2>2. Rank(h) = 7
    BY <2>1 DEF Rank
  <2> QED
    BY <1>2, <1>3, <2>1, <2>2 DEF Recovers
<1> QED
  BY <1>1, <1>2, <1>7, <1>8, <1>9, <1>10, <1>11 DEF Steps, Ways

(* The undo has a next step.                                               *)
LEMMA UndoIsNext ==
    ASSUME NEW p, NEW c, NEW s, Shape(c, job[p].todo), job[p].todo # <<>>, s = Now(p)
    PROVE  /\ s.do = "in" /\ job[p].prev # None => After(p, s) # <<>>
           /\ s.do = "back" => After(p, s) # <<>>
<1> DEFINE r == Tail(job[p].todo)
<1>1. s \in Steps /\ Sane(s)
  BY HeadFits DEF Now
<1>2. r \in Seq(Steps)
  BY TailShape DEF Shape
<1> HIDE DEF r
<1>3. ASSUME NEW b \in Steps PROVE <<b>> \o r # <<>>
  <2>1. <<b>> \in Seq(Steps) /\ Len(<<b>>) = 1
    OBVIOUS
  <2>2. Len(<<b>> \o r) = 1 + Len(r) /\ Len(r) \in Nat
    BY <1>2, <2>1, JoinIs
  <2> QED
    BY <2>2
<1>4. S("back", "bind", "keep") \in Steps /\ S("preserve", "bind", "go") \in Steps
  BY StepType DEF Deeds, Subjects, Ways
<1>5. CASE s.do = "in" /\ job[p].prev # None
  <2>1. s.on = "undo"
    BY <1>1, <1>5 DEF Sane
  <2>2. After(p, s) = <<S("back", "bind", "keep")>> \o r
    BY <1>5, <2>1 DEF After, r
  <2> QED
    BY <1>3, <1>4, <1>5, <2>2
<1>6. CASE s.do = "back"
  <2>1. s.on = "keep"
    BY <1>1, <1>6 DEF Sane
  <2>2. After(p, s) = <<S("preserve", "bind", "go")>> \o r
    BY <2>1 DEF After, r
  <2> QED
    BY <1>3, <1>4, <1>6, <2>2
<1> QED
  BY <1>5, <1>6

(* What a failure changes besides the command.                             *)
LEMMA FailureIs ==
    ASSUME Typed, InShape, NEW p \in Processes, Refuse(p) \/ Fail(p), NEW s, s = Now(p)
    PROVE  /\ Underway(p) /\ s \in Steps /\ Sane(s) /\ Fits(job[p].cmd, s)
           /\ \A q \in Processes \ {p} : job'[q] = job[q]
           /\ job'[p].cmd = job[p].cmd /\ job'[p].alone = job[p].alone /\ job'[p].pick = job[p].pick
           /\ job'[p].cap = job[p].cap /\ job'[p].own = job[p].own /\ job'[p].todo = After(p, s)
           /\ job'[p].bad <=> job[p].bad \/ s.on \in {"note", "undo"}
           /\ job'[p].prev = IF s.do = "preserve" THEN None ELSE job[p].prev
           /\ UNCHANGED <<saved, aside, exports, history, mutex, flock, version>>
           /\ registry' = IF s.on = "drop" THEN None ELSE registry
           /\ live' \in Halfway(s) /\ run' \in Halted(s)
           /\ \/ ~Possible(p, s) /\ UNCHANGED <<live, run, faults>>
              \/ Possible(p, s) /\ s.do \in Fallible /\ faults' = faults + 1
<1>1. Active(p) /\ job[p].todo # <<>> /\ Failed(p, s)
  BY DEF Refuse, Fail
<1>2. /\ job' = FailedJob(p, s)
      /\ registry' = (IF s.on = "drop" THEN None ELSE registry)
      /\ UNCHANGED <<saved, aside, exports, history, mutex, flock, version>>
  BY <1>1 DEF Failed
<1>3. /\ s \in Steps /\ Sane(s) /\ Fits(job[p].cmd, s)
      /\ \A q \in Processes \ {p} : job'[q] = job[q]
      /\ job'[p].cmd = job[p].cmd /\ job'[p].alone = job[p].alone /\ job'[p].pick = job[p].pick
      /\ job'[p].cap = job[p].cap /\ job'[p].own = job[p].own /\ job'[p].todo = After(p, s)
      /\ job'[p].bad <=> job[p].bad \/ s.on \in {"note", "undo"}
      /\ job'[p].prev = IF s.do = "preserve" THEN None ELSE job[p].prev
  BY <1>1, <1>2, FailedIs
<1>4. live \in Halfway(s) /\ run \in Halted(s)
  BY DEF Halfway, Halted
<1>5. /\ live' \in Halfway(s) /\ run' \in Halted(s)
      /\ \/ ~Possible(p, s) /\ UNCHANGED <<live, run, faults>>
         \/ Possible(p, s) /\ s.do \in Fallible /\ faults' = faults + 1
  BY <1>4 DEF Refuse, Fail
<1> QED
  BY <1>1, <1>2, <1>3, <1>5 DEF Underway

(* An import writes over the database only after the archive of it, or     *)
(* after that archive failed.                                              *)
LEMMA ExportFirstStep ==
    ASSUME Typed, InShape, ExportFirst, [Next]_vars PROVE ExportFirst'
<1>0. faults \in Nat /\ registry \in -2 .. 1
  BY DEF Typed
<1>1. ASSUME UNCHANGED <<registry, exports>>, faults' \in {faults, faults + 1},
             \A q \in Processes : Underway(q)' => Underway(q) /\ Now(q)' = Now(q)
      PROVE  ExportFirst'
  BY <1>0, <1>1 DEF ExportFirst
<1>2. CASE Write \/ Damage
  <2>1. UNCHANGED <<registry, exports, job>> /\ faults' \in {faults, faults + 1}
    BY <1>2 DEF Write, Damage
  <2> QED
    BY <1>1, <2>1 DEF Underway, Now, Active
<1>3. ASSUME NEW p \in Processes, NEW c \in Commands, Start(p, c) PROVE ExportFirst'
  <2>1. /\ job'[p].cmd = c /\ job'[p].todo = Plans[c]
        /\ \A q \in Processes \ {p} : job'[q].cmd = job[q].cmd /\ job'[q].todo = job[q].todo
    BY <1>3, StartIs
  <2>2. UNCHANGED <<registry, exports, faults>>
    BY <1>3 DEF Start
  <2>3. Plans[c] # <<>> /\ Head(Plans[c]).do \notin {"extract", "copydb", "opens"}
    <3>1. Plans[c] # <<>> /\ Opening(c, Plans[c][1]) /\ Plans[c] \in Seq(Steps)
      BY PlansInShape DEF Plan, Shape
    <3>2. Head(Plans[c]) = Plans[c][1]
      BY <3>1
    <3> QED
      BY <3>1, <3>2 DEF Opening
  <2>4. \A q \in Processes \ {p} : Underway(q)' => Underway(q) /\ Now(q)' = Now(q)
    BY <2>1 DEF Underway, Now, Active
  <2>5. Now(p)'.do \notin {"extract", "copydb", "opens"}
    BY <2>1, <2>3 DEF Now
  <2> QED
    BY <2>2, <2>4, <2>5 DEF ExportFirst
<1>4. ASSUME NEW p \in Processes, Do(p) PROVE ExportFirst'
  <2> DEFINE s == Now(p)
  <2>0. s = Now(p)
    OBVIOUS
  <2> HIDE DEF s
  <2>1. /\ \A q \in Processes \ {p} : job'[q] = job[q]
        /\ job'[p].cmd = job[p].cmd /\ job'[p].todo \in Rest(p, s) /\ Possible(p, s)
    BY <1>4, <2>0, DoIs
  <2>2. /\ registry' = (IF s.do = "copydb" THEN 1 ELSE registry)
        /\ exports' = (IF s.do = "export" THEN exports \cup {registry} ELSE exports)
        /\ faults' = faults /\ Active(p) /\ job[p].todo # <<>>
    BY <1>4, <2>0 DEF Do
  <2>3. \A q \in Processes \ {p} : Underway(q)' => Underway(q) /\ Now(q)' = Now(q)
    BY <2>1 DEF Underway, Now, Active
  <2>4. Shape(job[p].cmd, job[p].todo)
    BY DEF InShape
  <2>5. ASSUME job'[p].todo # <<>>
        PROVE  /\ Now(p)'.do = "extract" => s.do = "export"
               /\ Now(p)'.do = "copydb" => s.do = "extract"
               /\ Now(p)'.do = "opens" => s.do = "copydb"
    <3>1. Now(p)' = Head(job'[p].todo)
      BY DEF Now
    <3>2. Succeeds(p, job[p].cmd, s, Now(p)')
      BY <2>0, <2>1, <2>2, <2>4, <2>5, <3>1, NextStep
    <3> QED
      BY <3>2 DEF Succeeds
  <2>6. Underway(p)' => job'[p].todo # <<>>
    BY DEF Underway
  <2>7. s.do \in {"extract", "copydb", "opens"} => exports # {} \/ faults >= 1
    BY <2>0, <2>2 DEF ExportFirst, Underway
  <2>8. exports \subseteq exports' /\ (s.do = "export" => exports' # {})
    BY <2>2
  <2>9. Underway(p)' /\ Now(p)'.do \in {"extract", "copydb", "opens"} => exports' # {} \/ faults' >= 1
    BY <2>2, <2>5, <2>6, <2>7, <2>8
  <2>10. registry' < 0 => registry < 0
    BY <2>2
  <2> QED
    BY <2>2, <2>3, <2>8, <2>9, <2>10 DEF ExportFirst
<1>5. ASSUME NEW p \in Processes, Refuse(p) \/ Fail(p) PROVE ExportFirst'
  <2> DEFINE s == Now(p)
  <2>0. s = Now(p)
    OBVIOUS
  <2> HIDE DEF s
  <2>1. /\ \A q \in Processes \ {p} : job'[q] = job[q]
        /\ job'[p].cmd = job[p].cmd /\ job'[p].todo = After(p, s) /\ Underway(p) /\ Sane(s)
        /\ exports' = exports /\ registry' = (IF s.on = "drop" THEN None ELSE registry)
        /\ \/ ~Possible(p, s) /\ faults' = faults
           \/ Possible(p, s) /\ faults' = faults + 1
    BY <1>5, <2>0, FailureIs
  <2>2. \A q \in Processes \ {p} : Underway(q)' => Underway(q) /\ Now(q)' = Now(q)
    BY <2>1 DEF Underway, Now, Active
  <2>3. Shape(job[p].cmd, job[p].todo) /\ job[p].todo # <<>>
    BY <2>1 DEF InShape, Underway
  <2>4. ASSUME job'[p].todo # <<>>
        PROVE  Now(p)'.do \notin {"copydb", "opens"} /\ (Now(p)'.do = "extract" => s.do = "export")
    <3>1. Now(p)' = Head(job'[p].todo)
      BY DEF Now
    <3>2. Recovers(p, job[p].cmd, s, Now(p)')
      BY <2>0, <2>1, <2>3, <2>4, <3>1, StepAfterFailure
    <3> QED
      BY <3>2 DEF Recovers
  <2>5. s.on = "drop" => s.do = "opens"
    BY <2>1 DEF Sane
  <2>6. s.do = "opens" => exports # {} \/ faults >= 1
    BY <2>0, <2>1 DEF ExportFirst
  <2>7. s.do \in {"export", "opens"} => (~Possible(p, s) => registry < 0)
    BY <1>0 DEF Possible
  <2>8. faults' >= faults /\ faults' \in Nat
    BY <1>0, <2>1
  <2>9. registry < 0 => faults >= 1 /\ (exports = {} => faults >= 2)
    BY DEF ExportFirst
  <2>10. Underway(p)' => job'[p].todo # <<>>
    BY DEF Underway
  <2>11. Underway(p)' /\ Now(p)'.do \in {"extract", "copydb", "opens"} => exports' # {} \/ faults' >= 1
    BY <1>0, <2>1, <2>4, <2>7, <2>8, <2>9, <2>10
  <2>12. registry' < 0 => faults' >= 1 /\ (exports' = {} => faults' >= 2)
    <3>1. CASE s.on = "drop"
      BY <1>0, <2>1, <2>5, <2>6, <2>7, <2>8, <2>9, <3>1
    <3>2. CASE s.on # "drop"
      BY <1>0, <2>1, <2>8, <2>9, <3>2
    <3> QED
      BY <3>1, <3>2
  <2>13. \A q \in Processes : Underway(q) /\ Now(q).do \in {"extract", "copydb", "opens"} =>
            exports # {} \/ faults >= 1
    BY DEF ExportFirst
  <2>14. \A q \in Processes \ {p} : Underway(q)' /\ Now(q)'.do \in {"extract", "copydb", "opens"} =>
            exports' # {} \/ faults' >= 1
    BY <1>0, <2>1, <2>2, <2>8, <2>13
  <2> QED
    BY <2>11, <2>12, <2>14 DEF ExportFirst
<1>6. ASSUME NEW p \in Processes, job'[p].todo = <<>>, \A q \in Processes \ {p} : job'[q] = job[q],
             exports' = exports,
             \/ registry' = registry /\ faults' \in {faults, faults + 1}
             \/ Underway(p) /\ Now(p).do = "copydb" /\ faults' = faults + 1
      PROVE  ExportFirst'
  <2>1. ~Underway(p)' /\ \A q \in Processes \ {p} : Underway(q)' => Underway(q) /\ Now(q)' = Now(q)
    BY <1>6 DEF Underway, Now, Active
  <2>2. registry' = registry \/ ((exports # {} \/ faults >= 1) /\ faults' = faults + 1)
    BY <1>6 DEF ExportFirst
  <2> QED
    BY <1>0, <1>6, <2>1, <2>2 DEF ExportFirst
<1>7. ASSUME NEW p \in Processes, FailCopy(p) PROVE ExportFirst'
  <2>1. /\ job' = [job EXCEPT ![p].todo = <<>>] /\ exports' = exports /\ faults' = faults + 1
        /\ Now(p).do = "copydb" /\ Underway(p)
    BY <1>7 DEF FailCopy, Underway
  <2>2. job'[p].todo = <<>> /\ \A q \in Processes \ {p} : job'[q] = job[q]
    BY <2>1 DEF Typed, Jobs
  <2> QED
    BY <1>6, <2>1, <2>2
<1>8. ASSUME NEW p \in Processes, End(p) PROVE ExportFirst'
  <2>1. job' = [job EXCEPT ![p] = Idle] /\ exports' = exports /\ faults' = faults /\ registry' = registry
    BY <1>8 DEF End
  <2>2. job'[p].todo = <<>> /\ \A q \in Processes \ {p} : job'[q] = job[q]
    BY <2>1, IdleBasis, IdleIs
  <2> QED
    BY <1>6, <2>1, <2>2
<1>9. ASSUME NEW p \in Processes, Kill(p) PROVE ExportFirst'
  <2>1. /\ job' = [job EXCEPT ![p] = Idle] /\ exports' = exports /\ faults' = faults + 1 /\ Underway(p)
        /\ registry' = registry \/ Now(p).do = "copydb"
    BY <1>9 DEF Kill, Underway
  <2>2. job'[p].todo = <<>> /\ \A q \in Processes \ {p} : job'[q] = job[q]
    BY <2>1, IdleBasis, IdleIs
  <2> QED
    BY <1>6, <2>1, <2>2
<1>10. CASE UNCHANGED vars
  BY <1>1, <1>10 DEF vars, Underway, Now, Active
<1> QED
  BY <1>2, <1>3, <1>4, <1>5, <1>7, <1>8, <1>9, <1>10 DEF Next

(* `fleetdeck import` archives the state before it unpacks the other one,   *)
(* and copies the database over the old one only then: a database that is  *)
(* torn or removed has an archive, unless the archive failed as well.      *)
THEOREM ImportKeepsAWayBackAlways == Spec => []ImportKeepsAWayBack
<1>1. Init => Typed /\ InShape /\ ExportFirst
  <2>1. ASSUME Init PROVE ExportFirst
    BY <2>1, IdleIs, BasisInit DEF ExportFirst, Underway, Active, Init
  <2> QED
    BY <2>1, BasisInit
<1>2. Typed /\ InShape /\ ExportFirst /\ [Next]_vars => (Typed /\ InShape /\ ExportFirst)'
  BY BasisStep, ExportFirstStep
<1>3. ExportFirst => ImportKeepsAWayBack
  BY DEF ExportFirst, ImportKeepsAWayBack
<1> QED
  BY <1>1, <1>2, <1>3, PTL DEF Spec

-----------------------------------------------------------------------------
(* The directory of a bind mount.                                          *)
(* Where a bind directory may be.                                          *)
LEMMA BindKnownInit == Init => BindKnown
<1> SUFFICES ASSUME Init PROVE BindKnown
  OBVIOUS
<1>1. Typed /\ job = [p \in Processes |-> Idle] /\ aside = {} /\ live["bind"] = 1
  BY BasisInit DEF Init, Parts, Owned, Archived
<1> QED
  BY <1>1, IdleIs DEF BindKnown, Underway, Active, None

(* What one command holds for itself.                                      *)
Holding(p) ==
    /\ job[p].prev # None => Underway(p) /\ Now(p).do \in {"in", "back", "preserve"}
    /\ Underway(p) /\ Now(p).do \in {"back", "preserve"} => job[p].prev # None /\ job[p].bad
    /\ Underway(p) /\ Now(p).do \in {"away", "in"} => job[p].cap["bind"] # None
LEMMA BindKnownIs ==
    BindKnown <=> /\ \A p \in Processes : Holding(p)
                  /\ None \notin aside
                  /\ live["bind"] = None =>
                        aside # {} \/ faults >= 3 \/ \E p \in Processes : HoldsIt(p)
BY DEF BindKnown, Holding

LEMMA OthersHold ==
    ASSUME NEW q, Holding(q), job'[q].cmd = job[q].cmd, job'[q].todo = job[q].todo,
           job'[q].prev = job[q].prev, job'[q].cap = job[q].cap, job'[q].bad <=> job[q].bad,
           faults \in Nat, faults' \in {faults, faults + 1}
    PROVE  Holding(q)' /\ (HoldsIt(q) => HoldsIt(q)')
<1>1. (Underway(q)' <=> Underway(q)) /\ Now(q)' = Now(q)
  BY DEF Underway, Active, Now
<1> QED
  BY <1>1 DEF Holding, HoldsIt

(* A step of one command keeps the others as they are.                     *)
LEMMA OneHolds ==
    ASSUME BindKnown, NEW p \in Processes, faults \in Nat, faults' \in {faults, faults + 1},
           \A q \in Processes \ {p} : job'[q] = job[q],
           Holding(p)', None \notin aside', aside \subseteq aside',
           live'["bind"] = None => \/ live["bind"] = None /\ (HoldsIt(p) => HoldsIt(p)' \/ aside' # {} \/ faults' >= 3)
                                   \/ HoldsIt(p)'
    PROVE  BindKnown'
<1>1. \A q \in Processes \ {p} : Holding(q)' /\ (HoldsIt(q) => HoldsIt(q)')
  BY OthersHold, BindKnownIs
<1>2. ASSUME live'["bind"] = None
      PROVE  aside' # {} \/ faults' >= 3 \/ \E q \in Processes : HoldsIt(q)'
  <2>1. CASE HoldsIt(p)'
    BY <2>1
  <2>2. CASE live["bind"] = None /\ (HoldsIt(p) => HoldsIt(p)' \/ aside' # {} \/ faults' >= 3)
    <3>1. aside # {} \/ faults >= 3 \/ \E q \in Processes : HoldsIt(q)
      BY <2>2, BindKnownIs
    <3>2. ASSUME NEW q \in Processes, HoldsIt(q)
          PROVE  aside' # {} \/ faults' >= 3 \/ \E r \in Processes : HoldsIt(r)'
      BY <1>1, <2>2, <3>2
    <3>3. faults >= 3 => faults' >= 3
      OBVIOUS
    <3> QED
      BY <3>1, <3>2, <3>3
  <2> QED
    BY <1>2, <2>1, <2>2
<1>3. (\A q \in Processes : Holding(q)') /\ None \notin aside'
  BY <1>1
<1> QED
  BY <1>2, <1>3 DEF BindKnown, Holding

LEMMA BindAfter ==
    ASSUME Typed, InShape, BindKnown, NEW p \in Processes, Underway(p), NEW s \in Steps, Sane(s), s = Now(p),
           Possible(p, s), LiveAfter(p, s)["bind"] = None
    PROVE  s.do = "away" \/ (live["bind"] = None /\ s.do \notin {"in", "back"})
<1>1. live \in [Parts -> -2 .. version] /\ "bind" \in Parts
  BY DEF Typed, Parts, Owned, Archived
<1>2. job[p].prev # None \/ s.do # "back"
  BY DEF BindKnown
<1>3. job[p].cap["bind"] # None \/ s.do # "in"
  BY DEF BindKnown
<1>4. \A v : [live EXCEPT !["bind"] = v]["bind"] = v
  BY <1>1
<1>5. \A v : [live EXCEPT !["data"] = v]["bind"] = live["bind"]
  BY <1>1
<1>6. s.do = "put" => \A v : [live EXCEPT ![s.of] = v]["bind"] = live["bind"]
  BY <1>1 DEF Sane
<1>7. CASE s.do = "put"
  BY <1>6, <1>7 DEF LiveAfter
<1>8. CASE s.do = "in"
  BY <1>3, <1>4, <1>8 DEF LiveAfter
<1>9. CASE s.do = "back"
  BY <1>2, <1>4, <1>9 DEF LiveAfter
<1>10. CASE s.do = "alter"
  BY <1>5, <1>10 DEF LiveAfter, Exec
<1>11. CASE s.do \notin {"put", "in", "back", "alter", "away"}
  BY <1>11 DEF LiveAfter
<1> QED
  BY <1>7, <1>8, <1>9, <1>10, <1>11

LEMMA DoHolds ==
    ASSUME Typed, InShape, BindKnown, NEW p \in Processes, Do(p) PROVE BindKnown'
<1> DEFINE s == Now(p)
<1>0. s = Now(p)
  OBVIOUS
<1> HIDE DEF s
<1>1. /\ \A q \in Processes \ {p} : job'[q] = job[q]
      /\ s \in Steps /\ Possible(p, s) /\ job'[p].cmd = job[p].cmd /\ (job'[p].bad <=> job[p].bad)
      /\ job'[p].todo \in Rest(p, s) /\ job'[p].prev = PrevAfter(p, s)
      /\ s.do = "stage" => job'[p].cap["bind"] = Restored(p, "bind")
      /\ s.do \notin {"take", "record", "in", "stage"} => job'[p].cap = job[p].cap
  BY <1>0, DoIs
<1>2. /\ live' = LiveAfter(p, s) /\ faults' = faults /\ faults \in Nat
      /\ aside' = (IF s.do = "preserve" THEN aside \cup {job[p].prev} ELSE aside)
      /\ Active(p) /\ job[p].todo # <<>> /\ Underway(p)
  BY <1>0 DEF Do, Typed, Underway
<1>3. Shape(job[p].cmd, job[p].todo) /\ Ended(job[p].todo)
  BY DEF InShape
<1>4. Sane(s)
  BY <1>0, <1>2, <1>3, HeadFits DEF Now
<1>5. Holding(p) /\ None \notin aside
  BY BindKnownIs
<1>6. ASSUME job'[p].todo # <<>> PROVE Succeeds(p, job[p].cmd, s, Now(p)')
  <2>1. Now(p)' = Head(job'[p].todo)
    BY DEF Now
  <2> QED
    BY <1>0, <1>1, <1>2, <1>3, <1>6, <2>1, NextStep
<1>7. s.do = "away" => Underway(p)' /\ Now(p)'.do = "in"
  <2>1. s.do = "away" => job'[p].todo # <<>>
    BY <1>0, <1>1, <1>2, <1>3, EndStays
  <2>2. ASSUME s.do = "away" PROVE Now(p)'.do = "in"
    <3>1. Rank(s) = 6
      BY <2>2 DEF Rank
    <3>2. job[p].cmd \in Restores
      BY <1>0, <1>2, <1>3, <3>1, HeadFits DEF Now, Fits
    <3>3. 7 \in RanksOf(job[p].cmd)
      <4>1. 6 \in RanksOf(job[p].cmd)
        BY <1>0, <1>2, <1>3, <3>1, <3>2, HeadFits DEF Now, Fits
      <4> QED
        BY <4>1 DEF RanksOf
    <3>4. Succeeds(p, job[p].cmd, s, Now(p)')
      BY <1>6, <2>1, <2>2
    <3>5. Rank(Now(p)') = 7
      BY <2>2, <3>1, <3>2, <3>3, <3>4 DEF Succeeds
    <3> QED
      BY <3>4, <3>5, RanksBack DEF Succeeds
  <2> QED
    BY <1>1, <1>2, <2>1, <2>2 DEF Underway, Active
<1>8. Holding(p)'
  <2>1. job'[p].prev # None => Underway(p)' /\ Now(p)'.do \in {"in", "back", "preserve"}
    <3>1. CASE s.do = "away"
      BY <1>7, <3>1
    <3>2. CASE s.do \in {"in", "back", "preserve"}
      BY <1>1, <3>2 DEF PrevAfter
    <3>3. CASE s.do \notin {"away", "in", "back", "preserve"}
      BY <1>0, <1>1, <1>5, <3>3 DEF PrevAfter, Holding
    <3> QED
      BY <3>1, <3>2, <3>3
  <2>2. Underway(p)' => Now(p)'.do \notin {"back", "preserve"}
    BY <1>6 DEF Succeeds, Underway
  <2>3. Underway(p)' /\ Now(p)'.do \in {"away", "in"} => job'[p].cap["bind"] # None
    <3> SUFFICES ASSUME Underway(p)', Now(p)'.do \in {"away", "in"} PROVE job'[p].cap["bind"] # None
      OBVIOUS
    <3>1. Succeeds(p, job[p].cmd, s, Now(p)')
      BY <1>6 DEF Underway
    <3>2. CASE Now(p)'.do = "away"
      <4>1. s.do = "stage" /\ Held(p, "bind") # None
        BY <3>1, <3>2 DEF Succeeds
      <4>2. Restored(p, "bind") # None
        BY <4>1 DEF Restored, Torn, None
      <4> QED
        BY <1>1, <4>1, <4>2
    <3>3. CASE Now(p)'.do = "in"
      <4>1. s.do = "away"
        BY <3>1, <3>3 DEF Succeeds
      <4> QED
        BY <1>0, <1>1, <1>2, <1>5, <4>1 DEF Holding
    <3> QED
      BY <3>2, <3>3
  <2> QED
    BY <2>1, <2>2, <2>3 DEF Holding
<1>9. None \notin aside' /\ aside \subseteq aside' /\ (s.do = "preserve" => aside' # {})
  <2>1. s.do = "preserve" => job[p].prev # None
    BY <1>0, <1>2, <1>5 DEF Holding
  <2> QED
    BY <1>2, <1>5, <2>1
<1>10. ASSUME live'["bind"] = None
       PROVE  \/ live["bind"] = None /\ (HoldsIt(p) => HoldsIt(p)' \/ aside' # {} \/ faults' >= 3)
              \/ HoldsIt(p)'
  <2>1. s.do = "away" \/ (live["bind"] = None /\ s.do \notin {"in", "back"})
    BY <1>0, <1>1, <1>2, <1>4, <1>10, BindAfter
  <2>2. CASE s.do = "away"
    <3>1. ~HoldsIt(p)
      BY <1>0, <1>5, <2>2 DEF HoldsIt, Holding
    <3>2. CASE live["bind"] = None
      BY <3>1, <3>2
    <3>3. CASE live["bind"] # None
      <4>1. job'[p].prev = live["bind"]
        BY <1>1, <2>2 DEF PrevAfter
      <4> QED
        BY <1>7, <2>2, <3>3, <4>1 DEF HoldsIt
    <3> QED
      BY <3>2, <3>3
  <2>3. CASE live["bind"] = None /\ s.do \notin {"away", "in", "back"}
    <3>1. HoldsIt(p) => s.do = "preserve"
      BY <1>0, <1>5, <2>3 DEF HoldsIt, Holding
    <3> QED
      BY <1>9, <2>3, <3>1
  <2> QED
    BY <2>1, <2>2, <2>3
<1> QED
  BY <1>1, <1>2, <1>8, <1>9, <1>10, OneHolds

LEMMA HalfwayKeeps ==
    ASSUME Typed, NEW s \in Steps, Sane(s), NEW f \in Halfway(s), f["bind"] = None
    PROVE  live["bind"] = None
<1>1. live \in [Parts -> -2 .. version] /\ "bind" \in Parts
  BY DEF Typed, Parts, Owned, Archived
<1>2. [live EXCEPT ![s.of] = Torn]["bind"] \in {live["bind"], Torn}
  BY <1>1
<1>3. f = live \/ f = [live EXCEPT ![s.of] = Torn]
  BY DEF Halfway
<1>4. Torn # None
  BY DEF Torn, None
<1>5. CASE f = live
  BY <1>5
<1>6. CASE f = [live EXCEPT ![s.of] = Torn]
  <2>1. f["bind"] \in {live["bind"], Torn}
    BY <1>2, <1>6
  <2> QED
    BY <1>4, <2>1
<1> QED
  BY <1>3, <1>5, <1>6

LEMMA FailureHolds ==
    ASSUME Typed, InShape, BindKnown, NEW p \in Processes, Refuse(p) \/ Fail(p) PROVE BindKnown'
<1> DEFINE s == Now(p)
<1>0. s = Now(p)
  OBVIOUS
<1> HIDE DEF s
<1>1. /\ Underway(p) /\ s \in Steps /\ Sane(s) /\ \A q \in Processes \ {p} : job'[q] = job[q]
      /\ job'[p].cmd = job[p].cmd /\ job'[p].cap = job[p].cap /\ job'[p].todo = After(p, s)
      /\ job'[p].bad <=> job[p].bad \/ s.on \in {"note", "undo"}
      /\ job'[p].prev = IF s.do = "preserve" THEN None ELSE job[p].prev
      /\ aside' = aside /\ live' \in Halfway(s)
      /\ \/ ~Possible(p, s) /\ live' = live /\ faults' = faults
         \/ Possible(p, s) /\ faults' = faults + 1
  BY <1>0, FailureIs
<1>2. Shape(job[p].cmd, job[p].todo) /\ job[p].todo # <<>> /\ faults \in Nat
  BY <1>1 DEF InShape, Underway, Typed
<1>3. Holding(p) /\ None \notin aside
  BY BindKnownIs
<1>4. ASSUME job'[p].todo # <<>> PROVE Recovers(p, job[p].cmd, s, Now(p)')
  <2>1. Now(p)' = Head(job'[p].todo)
    BY DEF Now
  <2> QED
    BY <1>0, <1>1, <1>2, <1>4, <2>1, StepAfterFailure
<1>5. /\ s.do = "in" /\ job[p].prev # None => Underway(p)' /\ Now(p)'.do = "back"
      /\ s.do = "back" => Underway(p)' /\ Now(p)'.do = "preserve"
  <2>1. /\ s.do = "in" /\ job[p].prev # None => job'[p].todo # <<>>
        /\ s.do = "back" => job'[p].todo # <<>>
    <3>1. /\ s.do = "in" /\ job[p].prev # None => After(p, s) # <<>>
          /\ s.do = "back" => After(p, s) # <<>>
      BY <1>0, <1>2, UndoIsNext
    <3> QED
      BY <1>1, <3>1
  <2>2. job'[p].todo # <<>> => Underway(p)'
    BY <1>1 DEF Underway, Active
  <2> QED
    BY <1>4, <2>1, <2>2 DEF Recovers
<1>6. Holding(p)'
  <2>1. job'[p].prev # None => Underway(p)' /\ Now(p)'.do \in {"in", "back", "preserve"}
    <3> SUFFICES ASSUME job'[p].prev # None
                 PROVE  Underway(p)' /\ Now(p)'.do \in {"in", "back", "preserve"}
      OBVIOUS
    <3>1. job[p].prev # None /\ s.do # "preserve"
      BY <1>1
    <3>2. s.do \in {"in", "back"}
      BY <1>0, <1>3, <3>1 DEF Holding
    <3> QED
      BY <1>5, <3>1, <3>2
  <2>2. Underway(p)' /\ Now(p)'.do \in {"back", "preserve"} => job'[p].prev # None /\ job'[p].bad
    <3> SUFFICES ASSUME Underway(p)', Now(p)'.do \in {"back", "preserve"}
                 PROVE  job'[p].prev # None /\ job'[p].bad
      OBVIOUS
    <3>1. Recovers(p, job[p].cmd, s, Now(p)')
      BY <1>4 DEF Underway
    <3>2. CASE Now(p)'.do = "back"
      <4>1. s.do = "in" /\ job[p].prev # None
        BY <3>1, <3>2 DEF Recovers
      <4>2. s.on = "undo"
        BY <1>1, <4>1 DEF Sane
      <4> QED
        BY <1>1, <4>1, <4>2
    <3>3. CASE Now(p)'.do = "preserve"
      <4>1. s.do = "back"
        BY <3>1, <3>3 DEF Recovers
      <4>2. job[p].prev # None /\ job[p].bad
        BY <1>0, <1>1, <1>3, <4>1 DEF Holding
      <4> QED
        BY <1>1, <4>1, <4>2
    <3> QED
      BY <3>2, <3>3
  <2>3. Underway(p)' => Now(p)'.do \notin {"away", "in"}
    BY <1>4 DEF Recovers, Underway
  <2> QED
    BY <2>1, <2>2, <2>3 DEF Holding
<1>7. ASSUME live'["bind"] = None
      PROVE  live["bind"] = None /\ (HoldsIt(p) => HoldsIt(p)' \/ aside' # {} \/ faults' >= 3)
  <2>1. live["bind"] = None
    BY <1>1, <1>7, HalfwayKeeps
  <2>2. ASSUME HoldsIt(p) PROVE HoldsIt(p)' \/ faults' >= 3
    <3>1. job[p].prev # None /\ s.do \in {"in", "back", "preserve"}
      BY <1>0, <1>3, <2>2 DEF Holding, HoldsIt
    <3>2. Possible(p, s)
      BY <2>1, <3>1 DEF Possible, Dumped
    <3>3. faults' = faults + 1
      BY <1>1, <3>2
    <3>4. CASE s.do = "in"
      BY <1>1, <1>2, <1>5, <3>1, <3>3, <3>4 DEF HoldsIt
    <3>5. CASE s.do = "back"
      <4>1. faults >= 1
        BY <1>0, <2>2, <3>5 DEF HoldsIt
      <4> QED
        BY <1>1, <1>2, <1>5, <3>1, <3>3, <3>5, <4>1 DEF HoldsIt
    <3>6. CASE s.do = "preserve"
      <4>1. faults >= 2
        BY <1>0, <2>2, <3>6 DEF HoldsIt
      <4> QED
        BY <1>2, <3>3, <4>1
    <3> QED
      BY <3>1, <3>4, <3>5, <3>6
  <2> QED
    BY <2>1, <2>2
<1>8. faults' \in {faults, faults + 1}
  BY <1>1
<1> QED
  BY <1>1, <1>2, <1>3, <1>6, <1>7, <1>8, OneHolds

LEMMA BindKnownStep ==
    ASSUME Typed, InShape, BindKnown, [Next]_vars PROVE BindKnown'
<1>0. faults \in Nat /\ (\A q \in Processes : Holding(q)) /\ None \notin aside
  BY BindKnownIs DEF Typed
<1>1. ASSUME UNCHANGED <<job, aside>>, faults' \in {faults, faults + 1},
             live'["bind"] = None => live["bind"] = None
      PROVE  BindKnown'
  <2>1. \A q \in Processes : Holding(q)' /\ (HoldsIt(q) => HoldsIt(q)')
    BY <1>0, <1>1, OthersHold
  <2>2. live'["bind"] = None => aside' # {} \/ faults' >= 3 \/ \E q \in Processes : HoldsIt(q)'
    BY <1>0, <1>1, <2>1, BindKnownIs
  <2> QED
    BY <1>0, <1>1, <2>1, <2>2 DEF BindKnown, Holding
<1>2. CASE Write
  <2>1. live' = [x \in Parts |-> IF x \in Owned THEN Fresh(x) ELSE live[x]] /\ "bind" \in Parts
        /\ UNCHANGED <<job, aside, faults>>
    BY <1>2 DEF Write, Parts, Owned, Archived
  <2>2. live'["bind"] = Fresh("bind")
    BY <2>1 DEF Parts, Owned, Archived
  <2>3. Fresh("bind") = None => live["bind"] = None
    BY DEF Fresh, None, Typed
  <2> QED
    BY <1>1, <2>1, <2>2, <2>3
<1>3. CASE Damage
  <2>1. UNCHANGED <<job, aside, live>> /\ faults' = faults + 1
    BY <1>3 DEF Damage
  <2> QED
    BY <1>1, <2>1
<1>4. ASSUME NEW p \in Processes, NEW c \in Commands, Start(p, c) PROVE BindKnown'
  <2>1. /\ job'[p].cmd = c /\ job'[p].todo = Plans[c] /\ job'[p].prev = None
        /\ \A q \in Processes \ {p} :
              /\ job'[q].cmd = job[q].cmd /\ job'[q].todo = job[q].todo /\ job'[q].prev = job[q].prev
              /\ job'[q].cap = job[q].cap /\ job'[q].bad = job[q].bad
    BY <1>4, StartIs
  <2>2. UNCHANGED <<live, aside, faults>> /\ ~Active(p)
    BY <1>4 DEF Start
  <2>3. Now(p)'.do \notin {"away", "in", "back", "preserve"}
    <3>1. Plans[c] # <<>> /\ Opening(c, Plans[c][1]) /\ Shape(c, Plans[c]) /\ Plans[c] \in Seq(Steps)
      BY PlansInShape DEF Plan, Shape
    <3>2. Head(Plans[c]) = Plans[c][1] /\ Fits(c, Head(Plans[c]))
      BY <3>1, HeadFits
    <3>3. Head(Plans[c]).do \in {"away", "in", "back", "preserve"} => Rank(Head(Plans[c])) \in {6, 7}
      BY DEF Rank
    <3>4. Now(p)' = Head(Plans[c])
      BY <2>1 DEF Now
    <3> QED
      BY <3>1, <3>2, <3>3, <3>4 DEF Opening, Fits
  <2>4. Holding(p)'
    BY <2>1, <2>3 DEF Holding
  <2>5. \A q \in Processes \ {p} : Holding(q)' /\ (HoldsIt(q) => HoldsIt(q)')
    BY <1>0, <2>1, <2>2, OthersHold
  <2>6. ~HoldsIt(p)
    BY <1>0, <2>2 DEF HoldsIt, Holding, Underway
  <2>7. live'["bind"] = None => aside' # {} \/ faults' >= 3 \/ \E q \in Processes : HoldsIt(q)'
    BY <2>2, <2>5, <2>6, BindKnownIs
  <2> QED
    BY <1>0, <2>2, <2>4, <2>5, <2>7 DEF BindKnown, Holding
<1>5. ASSUME NEW p \in Processes, Do(p) PROVE BindKnown'
  BY <1>5, DoHolds
<1>6. ASSUME NEW p \in Processes, Refuse(p) \/ Fail(p) PROVE BindKnown'
  BY <1>6, FailureHolds
<1>7. ASSUME NEW p \in Processes, \A q \in Processes \ {p} : job'[q] = job[q], job'[p].todo = <<>>,
             job'[p].prev = None, faults' \in {faults, faults + 1}, None \notin aside', aside \subseteq aside',
             live'["bind"] = None => live["bind"] = None, HoldsIt(p) => aside' # {}
      PROVE  BindKnown'
  <2>1. Holding(p)'
    BY <1>7 DEF Holding, Underway
  <2> QED
    BY <1>0, <1>7, <2>1, OneHolds
<1>8. ASSUME NEW p \in Processes, FailCopy(p) PROVE BindKnown'
  <2>1. /\ job' = [job EXCEPT ![p].todo = <<>>] /\ UNCHANGED <<live, aside>> /\ faults' = faults + 1
        /\ Now(p).do = "copydb"
    BY <1>8 DEF FailCopy
  <2>2. /\ job'[p].todo = <<>> /\ job'[p].prev = job[p].prev
        /\ \A q \in Processes \ {p} : job'[q] = job[q]
    BY <2>1 DEF Typed, Jobs
  <2>3. job[p].prev = None
    BY <1>0, <2>1 DEF Holding
  <2> QED
    BY <1>0, <1>7, <2>1, <2>2, <2>3 DEF HoldsIt
<1>9. ASSUME NEW p \in Processes, End(p) PROVE BindKnown'
  <2>1. /\ job' = [job EXCEPT ![p] = Idle] /\ UNCHANGED <<live, aside, faults>> /\ job[p].todo = <<>>
    BY <1>9 DEF End
  <2>2. job'[p].todo = <<>> /\ job'[p].prev = None /\ \A q \in Processes \ {p} : job'[q] = job[q]
    BY <2>1, IdleBasis, IdleIs
  <2>3. job[p].prev = None
    BY <1>0, <2>1 DEF Holding, Underway
  <2> QED
    BY <1>0, <1>7, <2>1, <2>2, <2>3 DEF HoldsIt
<1>10. ASSUME NEW p \in Processes, Kill(p) PROVE BindKnown'
  <2>1. /\ job' = [job EXCEPT ![p] = Idle] /\ faults' = faults + 1 /\ live' \in Halfway(Now(p))
        /\ aside' = IF job[p].prev = None THEN aside ELSE aside \cup {job[p].prev}
        /\ job[p].todo # <<>>
    BY <1>10 DEF Kill
  <2>2. job'[p].todo = <<>> /\ job'[p].prev = None /\ \A q \in Processes \ {p} : job'[q] = job[q]
    BY <2>1, IdleBasis, IdleIs
  <2>3. Now(p) \in Steps /\ Sane(Now(p))
    BY <2>1, HeadFits DEF InShape, Now
  <2>4. live'["bind"] = None => live["bind"] = None
    BY <2>1, <2>3, HalfwayKeeps
  <2> QED
    BY <1>0, <1>7, <2>1, <2>2, <2>4 DEF HoldsIt
<1>11. CASE UNCHANGED vars
  BY <1>1, <1>11 DEF vars
<1> QED
  BY <1>2, <1>3, <1>4, <1>5, <1>6, <1>8, <1>9, <1>10, <1>11 DEF Next

(* restoreProjectBindMount: the directory moved away is moved back when the *)
(* new one cannot take its place, and kept in the staging directory when   *)
(* that fails: it is never gone before three things have failed.           *)
THEOREM BindDataIsNeverLost == Spec => []BindDataNeverLost
<1>1. Init => Typed /\ InShape /\ BindKnown
  BY BasisInit, BindKnownInit
<1>2. Typed /\ InShape /\ BindKnown /\ [Next]_vars => (Typed /\ InShape /\ BindKnown)'
  BY BasisStep, BindKnownStep
<1>3. BindKnown => BindDataNeverLost
  BY DEF BindKnown, BindDataNeverLost, HoldsIt
<1> QED
  BY <1>1, <1>2, <1>3, PTL DEF Spec

-----------------------------------------------------------------------------
(* Commands that count as alone, and the snapshot of a deploy.             *)
(* Which commands may be at work beside one that counts as alone.          *)
LEMMA DisturbsEither == \A c, d : Disturbs(c, d) <=> Disturbs(d, c)
<1>1. \A c, d : {c, d} = {d, c}
  OBVIOUS
<1> QED
  BY <1>1 DEF Disturbs

LEMMA ApartnessStep ==
    ASSUME Typed, InShape, Apartness, [Next]_vars PROVE Apartness'
<1>1. ASSUME \A q \in Processes : \/ job'[q].cmd = Nobody
                                  \/ job'[q].cmd = job[q].cmd /\ (job'[q].alone => job[q].alone)
      PROVE  Apartness'
  <2> SUFFICES ASSUME NEW p \in Processes, NEW q \in Processes, p # q, Active(p)', Active(q)', job'[p].alone
               PROVE  ~Disturbs(job'[p].cmd, job'[q].cmd)
    BY DEF Apartness, Disturbs
  <2>1. job'[p].cmd = job[p].cmd /\ job[p].alone /\ job'[q].cmd = job[q].cmd /\ Active(p) /\ Active(q)
    BY <1>1 DEF Active
  <2> QED
    BY <2>1 DEF Apartness
<1>2. ASSUME NEW p \in Processes, NEW c \in Commands, Start(p, c) PROVE Apartness'
  <2>1. /\ job'[p].cmd = c
        /\ job'[p].alone => \A q \in Processes \ {p} : Active(q) => ~Disturbs(c, job[q].cmd)
        /\ \A q \in Processes \ {p} :
              /\ job'[q].cmd = job[q].cmd
              /\ job'[q].alone => job[q].alone /\ (Active(q) => ~Disturbs(c, job[q].cmd))
    BY <1>2, StartIs
  <2> SUFFICES ASSUME NEW r \in Processes, NEW q \in Processes, r # q, Active(r)', Active(q)', job'[r].alone
               PROVE  ~Disturbs(job'[r].cmd, job'[q].cmd)
    BY DEF Apartness, Disturbs
  <2>2. \A x \in Processes \ {p} : Active(x)' => Active(x)
    BY <2>1 DEF Active
  <2>3. CASE r = p
    BY <2>1, <2>2, <2>3
  <2>4. CASE q = p
    BY <2>1, <2>2, <2>4, DisturbsEither
  <2>5. CASE r # p /\ q # p
    BY <2>1, <2>2, <2>5 DEF Apartness
  <2> QED
    BY <2>3, <2>4, <2>5
<1>3. CASE Write \/ Damage \/ UNCHANGED vars
  BY <1>1, <1>3 DEF Write, Damage, vars
<1>4. ASSUME NEW p \in Processes, Do(p) PROVE Apartness'
  BY <1>1, <1>4, DoIs
<1>5. ASSUME NEW p \in Processes, Refuse(p) \/ Fail(p) PROVE Apartness'
  BY <1>1, <1>5, FailureIs
<1>6. ASSUME NEW p \in Processes, FailCopy(p) PROVE Apartness'
  <2>1. job' = [job EXCEPT ![p].todo = <<>>]
    BY <1>6 DEF FailCopy
  <2>2. /\ job'[p].cmd = job[p].cmd /\ job'[p].alone = job[p].alone
        /\ \A q \in Processes \ {p} : job'[q] = job[q]
    BY <2>1 DEF Typed, Jobs
  <2>3. \A q \in Processes : job'[q].cmd = job[q].cmd /\ job'[q].alone = job[q].alone
    BY <2>2
  <2> QED
    BY <1>1, <2>3
<1>7. ASSUME NEW p \in Processes, End(p) \/ Kill(p) PROVE Apartness'
  <2>1. job' = [job EXCEPT ![p] = Idle]
    BY <1>7 DEF End, Kill
  <2>2. job'[p] = Idle /\ Idle.cmd = Nobody /\ \A q \in Processes \ {p} : job'[q] = job[q]
    BY <2>1, IdleBasis, IdleIs
  <2> QED
    BY <1>1, <2>2
<1> QED
  BY <1>2, <1>3, <1>4, <1>5, <1>6, <1>7 DEF Next

(* The snapshot of a deploy and the choice of its watch.                   *)
LEMMA OwnStays ==
    ASSUME NEW p, OwnSnapshot(p), job'[p].own = job[p].own, job'[p].pick = job[p].pick,
           job[p].pick # 0 /\ job'[p].todo # <<>> => Rank(Now(p)') > 0,
           \A b \in saved' : b.trigger = "pre-deploy" \/ b.id = job[p].own => KeptRow(b)
    PROVE  OwnSnapshot(p)'
<1>1. ASSUME job'[p].own # 0
      PROVE  /\ \A b \in saved' : b.trigger = "pre-deploy" => b.id <= job'[p].own
             /\ \A b \in saved' : b.id = job'[p].own => b.trigger = "pre-deploy"
  BY <1>1 DEF OwnSnapshot, KeptRow
<1>2. job'[p].own \in Ids' => job[p].own \in Ids
  BY DEF Ids, IdsOf, KeptRow
<1>3. Rank(Now(p)') = Rank(Now(p))'
  BY DEF Rank, Now
<1> QED
  BY <1>1, <1>2, <1>3 DEF OwnSnapshot

LEMMA NewestIsOwn ==
    ASSUME Typed, NEW p \in Processes, OwnSnapshot(p), job[p].own \in Ids, NEW k \in findBackup("pre-deploy")
    PROVE  k = job[p].own
<1> DEFINE own == job[p].own
           listed == {b \in ListBackupRecords : b.trigger = "pre-deploy"}
           later(i) == {c \in saved : c.id > i}
<1>1. PICK mine \in saved : mine.id = own
  BY DEF Ids, IdsOf
<1>2. own \in Nat /\ own # 0 /\ saved \subseteq Rows /\ IsFiniteSet(saved) /\ Listed \in Nat
  <2>1. own \in 0 .. version /\ mine.id \in 1 .. version
    BY DEF Typed, Jobs, Rows
  <2> QED
    BY <1>1, <2>1, BoundsAssumption DEF Typed
<1>3. findBackup("pre-deploy") = IdsOf(Newest(listed))
  BY DEF findBackup
<1>4. PICK b \in Newest(listed) : b.id = k
  BY <1>3 DEF IdsOf
<1>5. /\ b \in saved /\ b.trigger = "pre-deploy" /\ Cardinality(later(b.id)) < Listed
      /\ \A c \in listed : c.id <= b.id
  BY <1>4 DEF Newest, ListBackupRecords
<1>6. mine.trigger = "pre-deploy" /\ b.id <= own /\ b.id \in Nat
  <2>1. b.id \in 1 .. version
    BY <1>2, <1>5 DEF Rows
  <2> QED
    BY <1>1, <1>2, <1>5, <2>1 DEF OwnSnapshot
<1>7. Cardinality(later(own)) < Listed
  <2>1. later(own) \subseteq later(b.id)
    <3>1. \A c \in saved : c.id \in Nat
      BY <1>2 DEF Rows, Typed
    <3> QED
      BY <1>2, <1>6, <3>1
  <2>2. IsFiniteSet(later(b.id))
    BY <1>2, FS_Subset
  <2> HIDE DEF later
  <2>3. Cardinality(later(own)) <= Cardinality(later(b.id)) /\ Cardinality(later(b.id)) \in Nat
        /\ Cardinality(later(own)) \in Nat
    BY <2>1, <2>2, FS_Subset, FS_CardinalityType
  <2> QED
    BY <1>2, <1>5, <2>3
<1>8. mine \in listed
  BY <1>1, <1>6, <1>7 DEF ListBackupRecords
<1> HIDE DEF listed, later, own
<1>9. own <= b.id
  BY <1>1, <1>5, <1>8
<1>10. b.id = own
  BY <1>2, <1>6, <1>9
<1> QED
  BY <1>4, <1>10 DEF own

LEMMA DeployBeside ==
    ASSUME Apartness, NEW p \in Processes, job[p].cmd \in Deploys, job[p].alone,
           NEW q \in Processes \ {p}, Active(q)
    PROVE  job[q].cmd \in Harmless /\ job[q].cmd \notin Deploys
<1>1. job[p].cmd \notin Harmless /\ job[p].cmd \notin Serialised /\ Active(p)
  BY CommandNames DEF Deploys, Harmless, Serialised, Active, Nobody
<1>2. ~Disturbs(job[p].cmd, job[q].cmd)
  BY <1>1 DEF Apartness
<1>3. job[q].cmd \in Harmless
  BY <1>1, <1>2 DEF Disturbs
<1> QED
  BY <1>3 DEF Harmless, Deploys

LEMMA DeployDoes ==
    ASSUME Typed, InShape, NEW p \in Processes, job[p].cmd \in Deploys, OwnSnapshot(p), Do(p)
    PROVE  OwnSnapshot(p)'
<1> DEFINE s == Now(p)
           c == job[p].cmd
<1>0. s = Now(p) /\ c \in Restores
  BY CommandNames DEF Deploys
<1> HIDE DEF s
<1>1. /\ s \in Steps /\ Possible(p, s) /\ job'[p].todo \in Rest(p, s)
      /\ job'[p].pick = job[p].pick \/ (s.do = "pick" /\ job'[p].pick \in findBackup(s.of))
      /\ job'[p].own = IF s.do = "record" /\ s.of = "pre-deploy" THEN version + 1 ELSE job[p].own
  BY <1>0, DoIs
<1>2. saved' = SavedAfter(p, s) /\ job[p].todo # <<>> /\ Shape(c, job[p].todo)
  BY <1>0 DEF Do, InShape
<1>3. Sane(s) /\ Fits(c, s)
  BY <1>0, <1>2, HeadFits DEF Now
<1>4. ASSUME job'[p].todo # <<>> PROVE Succeeds(p, c, s, Now(p)')
  <2>1. Now(p)' = Head(job'[p].todo)
    BY DEF Now
  <2> QED
    BY <1>0, <1>1, <1>2, <1>4, <2>1, NextStep
<1>5. \A b \in saved' : \/ KeptRow(b)
                        \/ s.do = "record" /\ b = [id |-> version + 1, at |-> job[p].cap,
                                                   trigger |-> s.of, files |-> "whole"]
  BY <1>1, <1>2, SavedIs
<1>6. version \in Nat /\ job[p].own \in 0 .. version /\ saved \subseteq Rows
  BY DEF Typed, Jobs
<1>7. job[p].pick # 0 => Rank(s) > 0
  BY <1>0, <1>2 DEF OwnSnapshot
<1>8. Rank(Now(p)') = Rank(Now(p))'
  BY DEF Rank, Now
<1>9. CASE s.do = "record" /\ s.of = "pre-deploy"
  <2>1. job[p].pick = 0 /\ job'[p].pick = 0
    <3>1. Rank(s) = 0
      BY <1>9 DEF Rank
    <3> QED
      BY <1>1, <1>7, <1>9, <3>1
  <2>2. job'[p].own = version + 1
    BY <1>1, <1>9
  <2>3. \A b \in saved' : KeptRow(b) => b.id <= version
    BY <1>6 DEF KeptRow, Rows
  <2>4. \A b \in saved' : b.id <= version + 1 /\ (b.id = version + 1 => b.trigger = "pre-deploy")
    <3> TAKE b \in saved'
    <3>1. CASE KeptRow(b)
      <4>1. b.id \in Nat /\ b.id <= version
        BY <1>6, <3>1 DEF KeptRow, Rows
      <4> QED
        BY <1>6, <4>1
    <3>2. CASE b = [id |-> version + 1, at |-> job[p].cap, trigger |-> s.of, files |-> "whole"]
      BY <1>6, <1>9, <3>2
    <3> QED
      BY <1>5, <3>1, <3>2
  <2> QED
    BY <2>1, <2>2, <2>4 DEF OwnSnapshot
<1>10. ASSUME ~(s.do = "record" /\ s.of = "pre-deploy")
       PROVE  \A b \in saved' : b.trigger = "pre-deploy" \/ b.id = job[p].own => KeptRow(b)
  <2> TAKE b \in saved'
  <2>1. CASE b = [id |-> version + 1, at |-> job[p].cap, trigger |-> s.of, files |-> "whole"]
             /\ s.do = "record"
    <3>1. b.id = version + 1 /\ b.trigger = s.of
      BY <2>1
    <3> QED
      BY <1>6, <1>10, <2>1, <3>1
  <2> QED
    BY <1>5, <2>1
<1>11. CASE s.do = "pick"
  <2>1. s.of = "pre-deploy" /\ saved' = saved
    BY <1>2, <1>3, <1>11 DEF Fits, SavedAfter
  <2>2. job'[p].own = job[p].own
    BY <1>1, <1>11
  <2>3. job'[p].todo # <<>> => Rank(Now(p)') = 1
    BY <1>4, <1>11 DEF Succeeds
  <2>4. CASE job'[p].pick = job[p].pick
    <3>1. \A b \in saved' : KeptRow(b)
      BY <2>1 DEF KeptRow
    <3> QED
      BY <2>2, <2>3, <2>4, <3>1, OwnStays
  <2>5. CASE job'[p].pick \in findBackup("pre-deploy")
    <3>1. job'[p].own \in Ids' => job'[p].pick = job'[p].own
      BY <2>1, <2>2, <2>5, NewestIsOwn DEF Ids
    <3> QED
      BY <1>8, <2>1, <2>2, <2>3, <3>1 DEF OwnSnapshot
  <2> QED
    BY <1>1, <2>1, <2>4, <2>5
<1>12. CASE s.do # "pick" /\ ~(s.do = "record" /\ s.of = "pre-deploy")
  <2>1. job'[p].own = job[p].own /\ job'[p].pick = job[p].pick
    BY <1>1, <1>12
  <2>2. job[p].pick # 0 /\ job'[p].todo # <<>> => Rank(Now(p)') > 0
    BY <1>0, <1>4, <1>7 DEF Succeeds
  <2> QED
    BY <1>10, <1>12, <2>1, <2>2, OwnStays
<1> QED
  BY <1>9, <1>11, <1>12

LEMMA DeployKnowsStep ==
    ASSUME Typed, InShape, Apartness, DeployKnows, [Next]_vars PROVE DeployKnows'
<1>1. ASSUME NEW p \in Processes, job[p].cmd \in Deploys, job[p].alone, job'[p].own = job[p].own,
             job'[p].pick = job[p].pick, job'[p].todo = job[p].todo, saved' = saved
      PROVE  OwnSnapshot(p)'
  <2>1. OwnSnapshot(p) /\ (\A b \in saved' : KeptRow(b))
    BY <1>1 DEF DeployKnows, KeptRow
  <2>2. job[p].pick # 0 /\ job'[p].todo # <<>> => Rank(Now(p)') > 0
    <3>1. Now(p)' = Now(p)
      BY <1>1 DEF Now
    <3> QED
      BY <1>1, <2>1, <3>1 DEF OwnSnapshot
  <2> QED
    BY <1>1, <2>1, <2>2, OwnStays
<1>2. ASSUME NEW p \in Processes, job'[p].cmd \in Deploys PROVE job'[p].cmd # Nobody /\ job'[p].cmd \in Restores
  BY <1>2, CommandNames DEF Deploys, Nobody
<1>3. CASE UNCHANGED <<job, saved>>
  BY <1>1, <1>3 DEF DeployKnows
<1>4. CASE Damage
  <2>1. job' = job /\ \A p \in Processes : job[p].cmd = Nobody
    BY <1>4 DEF Damage, Quiet, Active
  <2> QED
    BY <1>2, <2>1 DEF DeployKnows
<1>5. ASSUME NEW p \in Processes, NEW c \in Commands, Start(p, c) PROVE DeployKnows'
  <2>1. /\ job'[p].own = 0 /\ job'[p].pick = 0
        /\ \A q \in Processes \ {p} :
              /\ job'[q].cmd = job[q].cmd /\ job'[q].todo = job[q].todo /\ job'[q].pick = job[q].pick
              /\ job'[q].own = job[q].own /\ (job'[q].alone => job[q].alone)
    BY <1>5, StartIs
  <2>2. saved' = saved
    BY <1>5 DEF Start
  <2>3. OwnSnapshot(p)'
    BY <2>1 DEF OwnSnapshot
  <2>4. \A q \in Processes \ {p} : job'[q].cmd \in Deploys /\ job'[q].alone => OwnSnapshot(q)'
    BY <1>1, <2>1, <2>2
  <2> QED
    BY <2>3, <2>4 DEF DeployKnows
<1>6. ASSUME NEW r \in Processes, Do(r) PROVE DeployKnows'
  <2> DEFINE s == Now(r)
  <2>0. s = Now(r) /\ Active(r) /\ job[r].todo # <<>>
    BY <1>6 DEF Do
  <2> HIDE DEF s
  <2>1. /\ s \in Steps /\ Possible(r, s) /\ job'[r].cmd = job[r].cmd /\ job'[r].alone = job[r].alone
        /\ \A q \in Processes \ {r} : job'[q] = job[q]
    BY <1>6, <2>0, DoIs
  <2>2. saved' = SavedAfter(r, s) /\ Fits(job[r].cmd, s)
    BY <1>6, <2>0, HeadFits DEF Do, InShape, Now
  <2>3. ASSUME NEW p \in Processes, job'[p].cmd \in Deploys, job'[p].alone PROVE OwnSnapshot(p)'
    <3>1. job[p].cmd \in Deploys /\ job[p].alone
      BY <2>1, <2>3
    <3>2. OwnSnapshot(p)
      BY <3>1 DEF DeployKnows
    <3>3. CASE p = r
      BY <1>6, <3>1, <3>2, <3>3, DeployDoes
    <3>4. CASE p # r
      <4>1. job[r].cmd \notin Deploys
        BY <2>0, <3>1, <3>4, DeployBeside
      <4>2. \A b \in saved' : b.trigger = "pre-deploy" \/ b.id = job[p].own => KeptRow(b)
        <5> TAKE b \in saved'
        <5>1. \/ KeptRow(b)
              \/ s.do = "record" /\ b = [id |-> version + 1, at |-> job[r].cap, trigger |-> s.of, files |-> "whole"]
          BY <2>1, <2>2, SavedIs
        <5>2. CASE s.do = "record" /\ b = [id |-> version + 1, at |-> job[r].cap, trigger |-> s.of, files |-> "whole"]
          <6>1. b.id = version + 1 /\ b.trigger = s.of
            BY <5>2
          <6>2. s.of # "pre-deploy"
            BY <2>2, <4>1, <5>2 DEF Fits
          <6>3. job[p].own # version + 1
            <7>1. job[p].own \in 0 .. version /\ version \in Nat
              BY DEF Typed, Jobs
            <7> QED
              BY <7>1
          <6> QED
            BY <6>1, <6>2, <6>3
        <5> QED
          BY <5>1, <5>2
      <4>3. job'[p] = job[p]
        BY <2>1, <3>4
      <4>4. job[p].pick # 0 /\ job'[p].todo # <<>> => Rank(Now(p)') > 0
        <5>1. Now(p)' = Now(p)
          BY <4>3 DEF Now
        <5> QED
          BY <3>2, <4>3, <5>1 DEF OwnSnapshot
      <4> QED
        BY <3>2, <4>2, <4>3, <4>4, OwnStays
    <3> QED
      BY <3>3, <3>4
  <2> QED
    BY <2>3 DEF DeployKnows
<1>7. ASSUME NEW r \in Processes, Refuse(r) \/ Fail(r) PROVE DeployKnows'
  <2> DEFINE s == Now(r)
  <2>0. s = Now(r)
    OBVIOUS
  <2> HIDE DEF s
  <2>1. /\ Underway(r) /\ \A q \in Processes \ {r} : job'[q] = job[q]
        /\ job'[r].cmd = job[r].cmd /\ job'[r].alone = job[r].alone /\ job'[r].pick = job[r].pick
        /\ job'[r].own = job[r].own /\ job'[r].todo = After(r, s) /\ saved' = saved
    BY <1>7, <2>0, FailureIs
  <2>2. Shape(job[r].cmd, job[r].todo) /\ job[r].todo # <<>>
    BY <2>1 DEF InShape, Underway
  <2>3. ASSUME job[r].cmd \in Deploys, job[r].alone PROVE OwnSnapshot(r)'
    <3>1. OwnSnapshot(r) /\ \A b \in saved' : KeptRow(b)
      BY <2>1, <2>3 DEF DeployKnows, KeptRow
    <3>2. ASSUME job[r].pick # 0, job'[r].todo # <<>> PROVE Rank(Now(r)') > 0
      <4>1. Rank(s) > 0
        BY <2>0, <2>2, <3>1, <3>2 DEF OwnSnapshot
      <4>2. Now(r)' = Head(job'[r].todo)
        BY DEF Now
      <4>3. Recovers(r, job[r].cmd, s, Now(r)')
        BY <2>0, <2>1, <2>2, <3>2, <4>2, StepAfterFailure
      <4> QED
        BY <4>1, <4>3 DEF Recovers
    <3> QED
      BY <2>1, <3>1, <3>2, OwnStays
  <2>4. \A q \in Processes \ {r} : job'[q].cmd \in Deploys /\ job'[q].alone => OwnSnapshot(q)'
    BY <1>1, <2>1
  <2> QED
    BY <2>1, <2>3, <2>4 DEF DeployKnows
<1>8. ASSUME NEW r \in Processes, FailCopy(r) PROVE DeployKnows'
  <2>1. job' = [job EXCEPT ![r].todo = <<>>] /\ saved' = saved
    BY <1>8 DEF FailCopy
  <2>2. /\ job'[r].todo = <<>> /\ job'[r].cmd = job[r].cmd /\ job'[r].alone = job[r].alone
        /\ job'[r].pick = job[r].pick /\ job'[r].own = job[r].own
        /\ \A q \in Processes \ {r} : job'[q] = job[q]
    BY <2>1 DEF Typed, Jobs
  <2>3. ASSUME job[r].cmd \in Deploys, job[r].alone PROVE OwnSnapshot(r)'
    <3>1. OwnSnapshot(r) /\ \A b \in saved' : KeptRow(b)
      BY <2>1, <2>3 DEF DeployKnows, KeptRow
    <3> QED
      BY <2>2, <3>1, OwnStays
  <2>4. \A q \in Processes \ {r} : job'[q].cmd \in Deploys /\ job'[q].alone => OwnSnapshot(q)'
    BY <1>1, <2>1, <2>2
  <2> QED
    BY <2>2, <2>3, <2>4 DEF DeployKnows
<1>9. ASSUME NEW r \in Processes, End(r) \/ Kill(r) PROVE DeployKnows'
  <2>1. job' = [job EXCEPT ![r] = Idle] /\ saved' = saved
    BY <1>9 DEF End, Kill
  <2>2. job'[r].cmd = Nobody /\ \A q \in Processes \ {r} : job'[q] = job[q]
    BY <2>1, IdleBasis, IdleIs
  <2>3. \A q \in Processes \ {r} : job'[q].cmd \in Deploys /\ job'[q].alone => OwnSnapshot(q)'
    BY <1>1, <2>1, <2>2
  <2> QED
    BY <1>2, <2>2, <2>3 DEF DeployKnows
<1> QED
  BY <1>3, <1>4, <1>5, <1>6, <1>7, <1>8, <1>9 DEF Next, Write, vars

(* rollbackToPreDeploySnapshot, run by the watch of a deploy, takes the      *)
(* newest "pre-deploy" record: while the snapshot of its own deploy exists *)
(* it is that one, whatever the migration and other commands have saved.   *)
THEOREM WatchGoesBackOneDeployAlways == Spec => []WatchGoesBackOneDeploy
<1>1. Init => Typed /\ InShape /\ Apartness /\ DeployKnows
  <2>1. ASSUME Init PROVE Apartness /\ DeployKnows
    <3>1. \A p \in Processes : job[p].cmd = Nobody
      BY <2>1, IdleIs, BasisInit DEF Init
    <3> QED
      BY <3>1, CommandNames DEF Apartness, DeployKnows, Active, Deploys, Nobody
  <2> QED
    BY <2>1, BasisInit
<1>2. Typed /\ InShape /\ Apartness /\ DeployKnows /\ [Next]_vars
      => (Typed /\ InShape /\ Apartness /\ DeployKnows)'
  BY BasisStep, ApartnessStep, DeployKnowsStep
<1>3. DeployKnows => WatchGoesBackOneDeploy
  BY DEF DeployKnows, OwnSnapshot, WatchGoesBackOneDeploy
<1> QED
  BY <1>1, <1>2, <1>3, PTL DEF Spec

-----------------------------------------------------------------------------
(* A restore in its order.                                                 *)
(* A handler that the dashboard serialises holds projectMutex once it is    *)
(* past the choice of its backup.                                           *)
LEMMA MutexHeld ==
    ASSUME Typed, InShape, HasMutex, NEW p \in Processes, \A q \in Processes \ {p} : job'[q] = job[q],
           Underway(p)' /\ job'[p].cmd \in Serialised /\ Now(p)'.do \notin {"pick", "lock"} => mutex' = p,
           mutex # Nobody /\ mutex # p => mutex' = mutex
    PROVE  HasMutex'
<1> SUFFICES ASSUME NEW q \in Processes, Underway(q)', job'[q].cmd \in Serialised, Now(q)'.do \notin {"pick", "lock"}
             PROVE  mutex' = q
  BY DEF HasMutex
<1>1. CASE q = p
  BY <1>1
<1>2. CASE q # p
  <2>1. job'[q] = job[q] /\ (Underway(q)' <=> Underway(q)) /\ Now(q)' = Now(q)
    BY <1>2 DEF Underway, Active, Now
  <2>2. mutex = q
    BY <2>1 DEF HasMutex
  <2> QED
    BY <1>2, <2>2, ProcessAssumption
<1> QED
  BY <1>1, <1>2

LEMMA HasMutexStep ==
    ASSUME Typed, InShape, HasMutex, [Next]_vars PROVE HasMutex'
<1>1. CASE Write \/ Damage \/ UNCHANGED vars
  <2>1. UNCHANGED <<job, mutex>>
    BY <1>1 DEF Write, Damage, vars
  <2> QED
    BY <2>1 DEF HasMutex, Underway, Active, Now
<1>2. ASSUME NEW p \in Processes, NEW c \in Commands, Start(p, c) PROVE HasMutex'
  <2>1. /\ job'[p].cmd = c /\ job'[p].todo = Plans[c] /\ mutex' = mutex
        /\ \A q \in Processes \ {p} : job'[q].cmd = job[q].cmd /\ job'[q].todo = job[q].todo
    BY <1>2, StartIs DEF Start
  <2>2. c \in Serialised => Now(p)'.do \in {"pick", "lock"}
    <3>1. Plans[c] # <<>> /\ Opening(c, Plans[c][1]) /\ Plans[c] \in Seq(Steps)
      BY PlansInShape DEF Plan, Shape
    <3>2. Now(p)' = Plans[c][1]
      BY <2>1, <3>1 DEF Now
    <3> QED
      BY <3>1, <3>2 DEF Opening
  <2>3. \A q \in Processes \ {p} : (Underway(q)' <=> Underway(q)) /\ Now(q)' = Now(q)
    BY <2>1 DEF Underway, Active, Now
  <2> SUFFICES ASSUME NEW q \in Processes, Underway(q)', job'[q].cmd \in Serialised,
                      Now(q)'.do \notin {"pick", "lock"}
               PROVE  mutex' = q
    BY DEF HasMutex
  <2>4. q # p
    BY <2>1, <2>2
  <2> QED
    BY <2>1, <2>3, <2>4 DEF HasMutex
<1>3. ASSUME NEW p \in Processes, Do(p) PROVE HasMutex'
  <2> DEFINE s == Now(p)
  <2>0. s = Now(p) /\ Underway(p)
    BY <1>3 DEF Do, Underway
  <2> HIDE DEF s
  <2>1. /\ \A q \in Processes \ {p} : job'[q] = job[q]
        /\ job'[p].cmd = job[p].cmd /\ job'[p].todo \in Rest(p, s)
    BY <1>3, <2>0, DoIs
  <2>2. mutex' = (IF s.do = "lock" THEN p ELSE mutex) /\ (s.do = "lock" => mutex = Nobody)
    BY <1>3, <2>0 DEF Do
  <2>3. ASSUME Underway(p)', job'[p].cmd \in Serialised, Now(p)'.do \notin {"pick", "lock"} PROVE mutex' = p
    <3>1. Now(p)' = Head(job'[p].todo) /\ job'[p].todo # <<>>
      BY <2>3 DEF Now, Underway
    <3>2. Shape(job[p].cmd, job[p].todo) /\ job[p].todo # <<>>
      BY <2>0 DEF InShape, Underway
    <3>3. Succeeds(p, job[p].cmd, s, Now(p)')
      BY <2>0, <2>1, <3>1, <3>2, NextStep
    <3>4. s.do # "pick"
      BY <2>1, <2>3, <3>3 DEF Succeeds
    <3> QED
      BY <2>0, <2>1, <2>2, <2>3, <3>4 DEF HasMutex
  <2>4. mutex # Nobody /\ mutex # p => mutex' = mutex
    BY <2>2
  <2> QED
    BY <2>1, <2>3, <2>4, MutexHeld
<1>4. ASSUME NEW p \in Processes, Refuse(p) \/ Fail(p) PROVE HasMutex'
  <2> DEFINE s == Now(p)
  <2>0. s = Now(p)
    OBVIOUS
  <2> HIDE DEF s
  <2>1. /\ Underway(p) /\ s \in Steps /\ Sane(s) /\ \A q \in Processes \ {p} : job'[q] = job[q]
        /\ job'[p].cmd = job[p].cmd /\ job'[p].todo = After(p, s) /\ mutex' = mutex
    BY <1>4, <2>0, FailureIs
  <2>2. ASSUME Underway(p)', job'[p].cmd \in Serialised, Now(p)'.do \notin {"pick", "lock"} PROVE mutex' = p
    <3>1. Now(p)' = Head(job'[p].todo) /\ job'[p].todo # <<>>
      BY <2>2 DEF Now, Underway
    <3>2. Shape(job[p].cmd, job[p].todo) /\ job[p].todo # <<>>
      BY <2>1 DEF InShape, Underway
    <3>3. s.on \notin {"stop", "drop"}
      BY <2>0, <2>1, <3>1, <3>2, StepAfterFailure DEF Recovers
    <3>4. s.do \notin {"pick", "lock"}
      <4>1. s.do \in {"pick", "lock"} => Rank(s) = 0
        BY DEF Rank
      <4>2. s.on \in {"go", "skip", "note", "undo", "keep"}
        BY <2>1, <3>3 DEF Steps, Ways
      <4> QED
        BY <2>1, <4>1, <4>2 DEF Sane, Snapshot
    <3> QED
      BY <2>0, <2>1, <2>2, <3>4 DEF HasMutex
  <2> QED
    BY <2>1, <2>2, MutexHeld
<1>5. ASSUME NEW p \in Processes, FailCopy(p) PROVE HasMutex'
  <2>1. job' = [job EXCEPT ![p].todo = <<>>] /\ mutex' = mutex
    BY <1>5 DEF FailCopy
  <2>2. job'[p].todo = <<>> /\ \A q \in Processes \ {p} : job'[q] = job[q]
    BY <2>1 DEF Typed, Jobs
  <2> QED
    BY <2>1, <2>2, MutexHeld DEF Underway
<1>6. ASSUME NEW p \in Processes, End(p) \/ Kill(p) PROVE HasMutex'
  <2>1. job' = [job EXCEPT ![p] = Idle] /\ mutex' = IF mutex = p THEN Nobody ELSE mutex
    BY <1>6 DEF End, Kill
  <2>2. job'[p].todo = <<>> /\ \A q \in Processes \ {p} : job'[q] = job[q]
    BY <2>1, IdleBasis, IdleIs
  <2> QED
    BY <2>1, <2>2, MutexHeld DEF Underway
<1> QED
  BY <1>1, <1>2, <1>3, <1>4, <1>5, <1>6 DEF Next

(* What the steps of others may do to a restore: nothing, or take its      *)
(* backup away.                                                            *)
Stands(p) == Underway(p) /\ job[p].cmd \in Restores /\ job[p].alone => SoFar(p, Rank(Now(p)))

LEMMA SelectedIs == ASSUME NEW p PROVE Selected(p) = PartsOf(job[p].cmd) /\ Selected(p) \subseteq Parts
BY DEF Selected, PartsOf, Parts, Owned, Archived

LEMMA ChosenStays ==
    ASSUME Typed, NEW p \in Processes, job'[p].pick = job[p].pick, job'[p].pick \in Ids',
           \A b \in saved' : b.id = job[p].pick => KeptRow(b)
    PROVE  /\ job[p].pick \in Ids /\ Chosen(p)'.files \in {Chosen(p).files, "gone"}
           /\ \A x : Held(p, x)' = Held(p, x)
<1>1. Chosen(p)' \in saved' /\ Chosen(p)'.id = job[p].pick
  BY DEF Chosen, Ids, IdsOf
<1>2. PICK a \in saved : a.id = job[p].pick /\ a.at = Chosen(p)'.at /\ Chosen(p)'.files \in {a.files, "gone"}
  BY <1>1 DEF KeptRow
<1>3. job[p].pick \in Ids
  BY <1>2 DEF Ids, IdsOf
<1>4. a = Chosen(p)
  BY <1>2, <1>3, ChosenIs
<1>5. \A x : Held(p, x)' = Held(p, x)
  BY <1>2, <1>4 DEF Held
<1> QED
  BY <1>2, <1>3, <1>4, <1>5

LEMMA StandsOn ==
    ASSUME Typed, NEW p \in Processes, Stands(p),
           job'[p].cmd = job[p].cmd, job'[p].todo = job[p].todo, job'[p].pick = job[p].pick,
           job'[p].cap = job[p].cap, job'[p].bad <=> job[p].bad, job'[p].alone => job[p].alone,
           Underway(p) /\ job[p].cmd \in Restores /\ job[p].alone /\ Rank(Now(p)) > 1 =>
              /\ live' = live /\ run' = run
              /\ \A b \in saved' : b.id = job[p].pick => KeptRow(b)
    PROVE  Stands(p)'
<1> SUFFICES ASSUME Underway(p)', job'[p].cmd \in Restores, job'[p].alone PROVE SoFar(p, Rank(Now(p)))'
  BY DEF Stands
<1>1. Underway(p) /\ job[p].cmd \in Restores /\ job[p].alone /\ SoFar(p, Rank(Now(p)))
  BY DEF Underway, Active, Stands
<1>2. Rank(Now(p))' = Rank(Now(p)) /\ Rank(Now(p)) \in 0 .. 11
  BY RanksBack DEF Rank, Now
<1>3. CASE ~(Rank(Now(p)) > 1)
  <2> DEFINE h == Rank(Now(p))
  <2>1. h' = h /\ ~(h > 1) /\ h \in 0 .. 11
    BY <1>2, <1>3
  <2> HIDE DEF h
  <2>2. ~(h' > 1) /\ ~(h' > 2) /\ ~(h' > 10) /\ h' \notin {6, 7}
    BY <2>1
  <2> QED
    BY <2>2 DEF SoFar, h
<1>4. CASE Rank(Now(p)) > 1
  <2>1. live' = live /\ run' = run
    BY <1>1, <1>4
  <2>2. job'[p].pick \in Ids' => /\ job[p].pick \in Ids /\ Chosen(p)'.files \in {Chosen(p).files, "gone"}
                                 /\ \A x : Held(p, x)' = Held(p, x)
    BY <1>1, <1>4, ChosenStays
  <2>3. Selected(p)' = Selected(p)
    BY DEF Selected
  <2> QED
    BY <1>1, <1>2, <2>1, <2>2, <2>3 DEF SoFar
<1> QED
  BY <1>3, <1>4

(* What a command may do while a restore that counts as alone replaces      *)
(* parts of the project.                                                    *)
LEMMA BesideRestore ==
    ASSUME InShape, Apartness, HasMutex, NEW p \in Processes, Underway(p), job[p].cmd \in Restores, job[p].alone,
           Rank(Now(p)) > 1, NEW q \in Processes \ {p}, Underway(q)
    PROVE  Now(q).do \in Apart \/ (Now(q).do = "lock" /\ mutex = p)
<1>1. ~Disturbs(job[p].cmd, job[q].cmd) /\ job[p].cmd \notin Harmless
  BY DEF Apartness, Underway, Restores
<1>2. CASE job[q].cmd \in Harmless
  <2>1. Fits(job[q].cmd, Now(q))
    BY HeadFits DEF InShape, Underway, Now
  <2> QED
    BY <1>2, <2>1 DEF Fits
<1>3. CASE {job[p].cmd, job[q].cmd} \subseteq Serialised
  <2>1. Now(p).do \notin {"pick", "lock"}
    BY DEF Rank
  <2>2. mutex = p
    BY <1>3, <2>1 DEF HasMutex
  <2>3. Now(q).do \in {"pick", "lock"}
    BY <1>3, <2>2 DEF HasMutex
  <2> QED
    BY <2>2, <2>3 DEF Apart
<1> QED
  BY <1>1, <1>2, <1>3 DEF Disturbs

LEMMA ApartKeeps ==
    ASSUME NEW s, s.do \in Apart \cup {"lock"}, NEW q
    PROVE  LiveAfter(q, s) = live /\ RunAfter(s) = run /\ Halfway(s) = {live} /\ Halted(s) = {run}
BY DEF Apart, LiveAfter, RunAfter, Halfway, Halted

(* A restore goes on: what it has restored stays, and its next part comes. *)
LEMMA PartKept ==
    ASSUME Typed, NEW p \in Processes, NEW s \in Steps, Sane(s), NEW x \in Parts, Rank(s) > Setter(x)
    PROVE  LiveAfter(p, s)[x] = live[x]
<1>1. live \in [Parts -> -2 .. version] /\ "bind" \in Parts /\ "data" \in Parts /\ Parts = {"config", "volume", "bind", "data"}
  BY DEF Typed, Parts, Owned, Archived, Dumped
<1>2. CASE s.do = "put"
  <2>1. s.of \in {"config", "volume", "data"}
    BY <1>2 DEF Sane
  <2>2. Rank(s) = Setter(s.of)
    BY <1>2, <2>1 DEF Rank, Setter
  <2>3. s.of # x
    BY <2>2, RanksBack
  <2>4. [live EXCEPT ![s.of] = Restored(p, s.of)][x] = live[x]
    BY <1>1, <2>1, <2>3
  <2> QED
    BY <1>2, <2>4 DEF LiveAfter
<1>3. CASE s.do \in {"away", "in", "back"}
  <2>1. Rank(s) \in {6, 7}
    BY <1>3 DEF Rank
  <2>2. x # "bind"
    BY <2>1 DEF Setter
  <2>3. \A v : [live EXCEPT !["bind"] = v][x] = live[x]
    BY <1>1, <2>2
  <2> QED
    BY <1>3, <2>3 DEF LiveAfter
<1>4. CASE s.do \notin {"put", "away", "in", "back"}
  <2>1. Setter(x) > 0
    BY DEF Setter
  <2>2. s.do # "alter"
    <3>1. s.do = "alter" => Rank(s) = 0
      BY DEF Rank
    <3> QED
      BY <2>1, <3>1 DEF Setter
  <2> QED
    BY <1>4, <2>2 DEF LiveAfter
<1> QED
  BY <1>2, <1>3, <1>4

LEMMA PartSet ==
    ASSUME Typed, NEW p \in Processes, NEW s \in Steps, Sane(s), Possible(p, s), NEW x \in Parts, Rank(s) = Setter(x),
           s.do \notin {"back", "preserve"}, job[p].pick \in Ids, Chosen(p).files \in {"whole", "gone"},
           s.do = "in" => job[p].cap["bind"] = Held(p, "bind"), Held(p, x) # None
    PROVE  LiveAfter(p, s)[x] = Held(p, x)
<1>1. live \in [Parts -> -2 .. version] /\ "bind" \in Parts /\ Parts = {"config", "volume", "bind", "data"}
  BY DEF Typed, Parts, Owned, Archived, Dumped
<1>2. CASE x = "bind"
  <2>1. Rank(s) = 7
    BY <1>2 DEF Setter
  <2>2. s.do = "in"
    BY <2>1, RanksBack
  <2>3. [live EXCEPT !["bind"] = job[p].cap["bind"]]["bind"] = job[p].cap["bind"]
    BY <1>1
  <2> QED
    BY <1>2, <2>2, <2>3 DEF LiveAfter
<1>3. CASE x # "bind"
  <2>1. s.do = "put" /\ s.of = x
    <3>1. x \in {"config", "volume", "data"}
      BY <1>1, <1>3
    <3> QED
      BY <3>1, RanksBack DEF Setter
  <2>2. OnDisk(p)
    BY <2>1 DEF Possible
  <2>3. Restored(p, x) = Held(p, x)
    BY <2>2 DEF OnDisk, Restored
  <2>4. [live EXCEPT ![x] = Restored(p, x)][x] = Restored(p, x)
    BY <1>1
  <2> QED
    BY <2>1, <2>3, <2>4 DEF LiveAfter
<1> QED
  BY <1>2, <1>3

LEMMA SetterIn ==
    ASSUME NEW c \in Restores, NEW x \in PartsOf(c)
    PROVE  x \in Parts /\ Setter(x) \in RanksOf(c) /\ Setter(x) \in {3, 4, 7, 9} /\ (Setter(x) = 7 => x = "bind")
<1>1. PartsOf(c) \subseteq Parts /\ Parts = {"config", "volume", "bind", "data"}
  BY DEF PartsOf, Parts, Owned, Archived, Dumped
<1>2. x \in {"config", "volume", "bind", "data"}
  BY <1>1
<1>3. Setter(x) \in {3, 4, 7, 9} /\ (Setter(x) = 7 => x = "bind")
  BY <1>2 DEF Setter
<1>4. CASE c = "deployFiles"
  <2>1. x = "config" /\ RanksOf(c) = {1, 2, 3, 10, 11}
    BY <1>4 DEF PartsOf, RanksOf
  <2>2. Setter(x) = 3
    BY <2>1 DEF Setter
  <2> QED
    BY <1>1, <1>3, <2>1, <2>2
<1>5. CASE c = "restoreVolumes"
  <2>1. x \in {"bind", "volume"} /\ RanksOf(c) = {1, 2, 4, 5, 6, 7, 10, 11}
    BY <1>5 DEF PartsOf, RanksOf
  <2>2. Setter(x) \in {4, 7}
    BY <2>1 DEF Setter
  <2> QED
    BY <1>1, <1>3, <2>1, <2>2
<1>6. CASE c \notin {"deployFiles", "restoreVolumes"}
  <2>1. RanksOf(c) = 1 .. 11
    BY <1>6 DEF RanksOf
  <2> QED
    BY <1>1, <1>3, <2>1
<1> QED
  BY <1>4, <1>5, <1>6

LEMMA CommonRanks == ASSUME NEW c PROVE {1, 2, 10, 11} \subseteq RanksOf(c) /\ RanksOf(c) \subseteq 1 .. 11
<1>1. RanksOf(c) \in {{1, 2, 4, 5, 6, 7, 10, 11}, {1, 2, 3, 10, 11}, 1 .. 11}
  BY DEF RanksOf
<1> QED
  BY <1>1

LEMMA RestoreGoesOn ==
    ASSUME Typed, InShape, BindKnown, NEW p \in Processes, Do(p), job[p].cmd \in Restores,
           SoFar(p, Rank(Now(p))), job'[p].todo # <<>>
    PROVE  SoFar(p, Rank(Now(p)))'
<1> DEFINE s == Now(p)
           h == Now(p)'
           c == job[p].cmd
           n == Rank(s)
           m == Rank(h)
<1>0. s = Now(p) /\ h = Now(p)' /\ c = job[p].cmd /\ n = Rank(s) /\ m = Rank(h) /\ Rank(Now(p))' = m
  BY DEF Rank, Now
<1> HIDE DEF s, h, n, m
<1>1. /\ s \in Steps /\ Possible(p, s) /\ (job'[p].bad <=> job[p].bad) /\ job'[p].cmd = c
      /\ job'[p].todo \in Rest(p, s)
      /\ job'[p].pick = job[p].pick \/ s.do = "pick"
      /\ s.do = "stage" => job'[p].cap["bind"] = Restored(p, "bind")
      /\ s.do \notin {"take", "record", "in", "stage"} => job'[p].cap = job[p].cap
  BY <1>0, DoIs
<1>2. /\ live' = LiveAfter(p, s) /\ run' = RunAfter(s) /\ saved' = SavedAfter(p, s)
      /\ Underway(p) /\ job[p].todo # <<>>
  BY <1>0 DEF Do, Underway
<1>3. Shape(c, job[p].todo) /\ Sane(s)
  BY <1>0, <1>2, HeadFits DEF InShape, Now
<1>4. Succeeds(p, c, s, h)
  <2>1. h = Head(job'[p].todo)
    BY <1>0 DEF Now
  <2> QED
    BY <1>0, <1>1, <1>2, <1>3, <2>1, NextStep
<1>5. n \in 0 .. 11 /\ m \in 0 .. 11
  BY <1>0, RanksBack
<1>6. /\ n > 1 /\ job[p].pick \in Ids => Chosen(p).files \in {"whole", "gone"}
      /\ n > 2 => run # "all"
      /\ n > 2 /\ ~job[p].bad /\ job[p].pick \in Ids =>
            \A x \in Selected(p) : Setter(x) >= n \/ Held(p, x) = None \/ live[x] = Held(p, x)
      /\ n \in {6, 7} /\ ~job[p].bad /\ job[p].pick \in Ids => job[p].cap["bind"] = Held(p, "bind")
  BY <1>0 DEF SoFar
<1>7. CASE n = 0
  <2>1. m \in {0, 1}
    BY <1>0, <1>4, <1>7 DEF Succeeds
  <2>2. ~(m > 1) /\ ~(m > 2) /\ ~(m > 10) /\ m \notin {6, 7}
    BY <2>1
  <2> QED
    BY <1>0, <2>2 DEF SoFar
<1>8. CASE n > 0
  <2>1. PICK k \in 1 .. 11 : /\ k = n \/ (s.do = "stage" /\ Held(p, "bind") = None /\ k = 7)
                             /\ m \in 1 .. 11 /\ k < m /\ \A r \in RanksOf(c) : r <= k \/ r >= m
    BY <1>0, <1>4, <1>8 DEF Succeeds
  <2>2. s.do \notin {"record", "files-", "prune", "row-", "pick", "take"}
    <3>1. s.do \in {"record", "files-", "prune", "row-", "pick", "take"} => Rank(s) = 0
      BY DEF Rank
    <3> QED
      BY <1>0, <1>8, <3>1
  <2>3. saved' = saved /\ job'[p].pick = job[p].pick /\ (job'[p].pick \in Ids' <=> job[p].pick \in Ids)
        /\ Chosen(p)' = Chosen(p) /\ (\A x : Held(p, x)' = Held(p, x)) /\ Selected(p)' = Selected(p)
    <3>1. saved' = saved /\ job'[p].pick = job[p].pick
      BY <1>1, <1>2, <2>2 DEF SavedAfter
    <3>2. Chosen(p)' = Chosen(p) /\ (job'[p].pick \in Ids' <=> job[p].pick \in Ids)
      BY <3>1 DEF Chosen, Ids, IdsOf
    <3>3. \A x : Held(p, x)' = Held(p, x)
      BY <3>2 DEF Held
    <3>4. Selected(p)' = Selected(p)
      BY <1>1 DEF Selected
    <3> QED
      BY <3>1, <3>2, <3>3, <3>4
  <2>4. {1, 2, 10, 11} \subseteq RanksOf(c)
    BY CommonRanks
  <2>5. n = 5 <=> s.do = "stage"
    BY <1>0, RanksBack DEF Rank
  <2>6. m > 2 => n >= 2
    BY <2>1, <2>4, <2>5
  <2>7. m > 10 => n = 10
    BY <2>1, <2>4, <1>5, <2>5
  <2>8. job[p].pick \in Ids => Chosen(p).files \in {"whole", "gone"}
    <3>1. CASE n > 1
      BY <1>6, <3>1
    <3>2. CASE n = 1
      <4>1. s.do = "verify"
        BY <1>0, <3>2, RanksBack
      <4> QED
        BY <1>1, <4>1 DEF Possible, Verified
    <3> QED
      BY <1>5, <1>8, <3>1, <3>2
  <2>9. m > 2 => run' # "all"
    <3>1. CASE n = 2
      <4>1. s.do = "down"
        BY <1>0, <3>1, RanksBack
      <4> QED
        BY <1>2, <4>1 DEF RunAfter
    <3>2. CASE n > 2
      <4>1. s.do \notin {"up", "deploy"}
        <5>1. (s.do = "up" => Rank(s) = 11) /\ (s.do = "deploy" => Rank(s) = 0)
          BY DEF Rank
        <5> QED
          BY <1>0, <2>1, <3>2, <5>1
      <4> QED
        BY <1>2, <1>6, <3>2, <4>1 DEF RunAfter
    <3> QED
      BY <1>5, <2>6, <3>1, <3>2
  <2>10. m > 10 => ~job'[p].bad
    <3>1. n = 10 => s.do = "failures"
      BY <1>0, RanksBack
    <3> QED
      BY <1>1, <2>7, <3>1 DEF Possible
  <2>11. ASSUME m \in {6, 7}, ~job'[p].bad, job'[p].pick \in Ids' PROVE job'[p].cap["bind"] = Held(p, "bind")'
    <3>1. h.do = "away" \/ h.do = "in"
      BY <1>0, <1>4, <2>11, RanksBack DEF Succeeds
    <3>2. CASE h.do = "away"
      <4>1. s.do = "stage" /\ Held(p, "bind") # None
        BY <1>4, <3>2 DEF Succeeds
      <4>2. OnDisk(p) /\ job[p].pick \in Ids
        BY <1>1, <4>1 DEF Possible, OnDisk
      <4>3. Restored(p, "bind") = Held(p, "bind")
        BY <2>8, <4>1, <4>2 DEF OnDisk, Restored
      <4> QED
        BY <1>1, <2>3, <4>1, <4>3
    <3>3. CASE h.do = "in"
      <4>1. s.do = "away"
        BY <1>4, <3>3 DEF Succeeds
      <4>2. n = 6 /\ job'[p].cap = job[p].cap
        BY <1>0, <1>1, <4>1 DEF Rank
      <4> QED
        BY <1>1, <1>6, <2>3, <2>11, <4>2
    <3> QED
      BY <3>1, <3>2, <3>3
  <2>12. ASSUME m > 2, ~job'[p].bad, job'[p].pick \in Ids', NEW x \in Selected(p)
         PROVE  Setter(x) >= m \/ Held(p, x) = None \/ live'[x] = Held(p, x)
    <3>1. x \in Parts /\ Setter(x) \in RanksOf(c) /\ Setter(x) \in {3, 4, 7, 9} /\ (Setter(x) = 7 => x = "bind")
      BY SelectedIs, SetterIn
    <3>2. ~job[p].bad /\ job[p].pick \in Ids
      BY <1>1, <2>3, <2>12
    <3>3. CASE Setter(x) > k
      BY <2>1, <3>1, <3>3
    <3>4. CASE Setter(x) <= k /\ k # n
      BY <1>5, <1>6, <2>1, <2>5, <3>1, <3>2, <3>4, PartKept, <1>0, <1>1, <1>2, <1>3
    <3>5. CASE Setter(x) < n
      <4>1. live'[x] = live[x]
        BY <1>0, <1>2, <1>1, <1>3, <3>1, <3>5, PartKept
      <4>2. n > 2 /\ ~(Setter(x) >= n)
        BY <1>5, <3>1, <3>5
      <4>3. Held(p, x) = None \/ live[x] = Held(p, x)
        BY <1>6, <3>2, <4>2
      <4> QED
        BY <4>1, <4>3
    <3>6. CASE Setter(x) = n
      <4>1. s.do \notin {"back", "preserve"}
        BY <1>0, <1>2, <3>2 DEF BindKnown
      <4>2. s.do = "in" => n = 7
        BY <1>0 DEF Rank
      <4>3. s.do = "in" => job[p].cap["bind"] = Held(p, "bind")
        BY <1>6, <3>2, <4>2
      <4> QED
        BY <1>0, <1>1, <1>2, <1>3, <2>8, <3>1, <3>2, <3>6, <4>1, <4>3, PartSet
    <3> QED
      BY <1>5, <2>1, <3>1, <3>3, <3>4, <3>5, <3>6
  <2>13. \A x \in Selected(p)' : m > 2 /\ ~job'[p].bad /\ job'[p].pick \in Ids' =>
             Setter(x) >= m \/ Held(p, x)' = None \/ live'[x] = Held(p, x)'
    BY <2>3, <2>12
  <2>14. m > 1 /\ job'[p].pick \in Ids' => Chosen(p)'.files \in {"whole", "gone"}
    BY <2>3, <2>8
  <2> QED
    BY <1>0, <2>9, <2>10, <2>11, <2>13, <2>14 DEF SoFar
<1> QED
  BY <1>5, <1>7, <1>8

(* A failed step of a restore: the failure is kept until "failures".       *)
LEMMA RestoreFails ==
    ASSUME Typed, InShape, BindKnown, NEW p \in Processes, Refuse(p) \/ Fail(p), job[p].cmd \in Restores,
           SoFar(p, Rank(Now(p))), job'[p].todo # <<>>
    PROVE  SoFar(p, Rank(Now(p)))'
<1> DEFINE s == Now(p)
           h == Now(p)'
           c == job[p].cmd
           n == Rank(s)
           m == Rank(h)
<1>0. s = Now(p) /\ h = Now(p)' /\ c = job[p].cmd /\ n = Rank(s) /\ m = Rank(h) /\ Rank(Now(p))' = m
  BY DEF Rank, Now
<1> HIDE DEF s, h, n, m
<1>1. /\ Underway(p) /\ s \in Steps /\ Sane(s) /\ job'[p].pick = job[p].pick /\ job'[p].todo = After(p, s)
      /\ job'[p].bad <=> job[p].bad \/ s.on \in {"note", "undo"}
      /\ saved' = saved /\ run' \in Halted(s)
  BY <1>0, FailureIs
<1>2. Recovers(p, c, s, h)
  <2>1. h = Head(job'[p].todo) /\ Shape(c, job[p].todo) /\ job[p].todo # <<>>
    BY <1>0, <1>1 DEF Now, InShape, Underway
  <2> QED
    BY <1>0, <1>1, <2>1, StepAfterFailure
<1>3. n \in 0 .. 11 /\ m \in 0 .. 11
  BY <1>0, RanksBack
<1>4. CASE n = 0
  <2>1. m \in {0, 1}
    BY <1>0, <1>2, <1>4 DEF Recovers
  <2>2. ~(m > 1) /\ ~(m > 2) /\ ~(m > 10) /\ m \notin {6, 7}
    BY <2>1
  <2> QED
    BY <1>0, <2>2 DEF SoFar
<1>5. CASE n > 0
  <2>1. n > 2 /\ m <= 10 /\ (s.on \in {"note", "undo"} \/ s.do \in {"back", "preserve"})
    BY <1>0, <1>2, <1>3, <1>5 DEF Recovers
  <2>2. job'[p].bad
    <3>1. s.do \in {"back", "preserve"} => job[p].bad
      BY <1>0, <1>1 DEF BindKnown
    <3> QED
      BY <1>1, <2>1, <3>1
  <2>3. run' # "all"
    <3>1. run # "all"
      BY <1>0, <2>1 DEF SoFar
    <3>2. s.do \notin {"up", "deploy"}
      <4>1. (s.do = "up" => Rank(s) = 11) /\ (s.do = "deploy" => Rank(s) = 0)
        BY DEF Rank
      <4>2. s.on = "note" => n \in {3, 4, 5, 6, 8, 9}
        BY <1>0, <1>1 DEF Sane
      <4>3. s.on = "undo" => s.do = "in"
        BY <1>1 DEF Sane
      <4> QED
        BY <1>0, <1>5, <2>1, <4>1, <4>2, <4>3
    <3>3. RunAfter(s) # "all"
      BY <3>1, <3>2 DEF RunAfter
    <3> QED
      BY <1>1, <3>1, <3>3 DEF Halted
  <2>4. job'[p].pick \in Ids' => Chosen(p)'.files \in {"whole", "gone"}
    <3>1. Chosen(p)' = Chosen(p) /\ (job'[p].pick \in Ids' <=> job[p].pick \in Ids)
      BY <1>1 DEF Chosen, Ids, IdsOf
    <3>2. n > 1
      BY <1>3, <2>1
    <3> QED
      BY <1>0, <3>1, <3>2 DEF SoFar
  <2>5. ~(m > 10)
    BY <1>3, <2>1
  <2> QED
    BY <1>0, <2>2, <2>3, <2>4, <2>5 DEF SoFar
<1> QED
  BY <1>3, <1>4, <1>5

LEMMA OtherStands ==
    ASSUME Typed, InShape, Apartness, HasMutex, RestoresInOrder, NEW q \in Processes,
           Do(q) \/ Refuse(q) \/ Fail(q), NEW p \in Processes \ {q}
    PROVE  Stands(p)'
<1> DEFINE s == Now(q)
<1>0. s = Now(q) /\ Underway(q) /\ Stands(p)
  BY DEF Do, Refuse, Fail, Underway, RestoresInOrder, Stands
<1> HIDE DEF s
<1>1. job'[p] = job[p] /\ s \in Steps
  <2>1. CASE Do(q)
    BY <1>0, <2>1, DoIs
  <2>2. CASE Refuse(q) \/ Fail(q)
    BY <1>0, <2>2, FailureIs
  <2> QED
    BY <2>1, <2>2
<1>2. ASSUME Underway(p), job[p].cmd \in Restores, job[p].alone, Rank(Now(p)) > 1
      PROVE  live' = live /\ run' = run /\ \A b \in saved' : b.id = job[p].pick => KeptRow(b)
  <2>1. s.do \in Apart \/ (s.do = "lock" /\ mutex = p)
    BY <1>0, <1>2, BesideRestore
  <2>2. LiveAfter(q, s) = live /\ RunAfter(s) = run /\ Halfway(s) = {live} /\ Halted(s) = {run}
    BY <2>1, ApartKeeps
  <2>3. CASE Do(q)
    <3>1. live' = LiveAfter(q, s) /\ run' = RunAfter(s) /\ saved' = SavedAfter(q, s) /\ Possible(q, s)
      BY <1>0, <2>3 DEF Do
    <3>2. \A b \in saved' : KeptRow(b) \/ b = [id |-> version + 1, at |-> job[q].cap, trigger |-> s.of,
                                              files |-> "whole"]
      BY <1>1, <3>1, SavedIs
    <3>3. job[p].pick \in 0 .. version /\ version \in Nat
      BY DEF Typed, Jobs
    <3>4. job[p].pick # version + 1
      BY <3>3
    <3> QED
      BY <2>2, <3>1, <3>2, <3>4
  <2>4. CASE Refuse(q) \/ Fail(q)
    <3>1. live' \in Halfway(s) /\ run' \in Halted(s) /\ saved' = saved
      BY <1>0, <2>4, FailureIs
    <3> QED
      BY <2>2, <3>1 DEF KeptRow
  <2> QED
    BY <2>3, <2>4
<1> QED
  BY <1>0, <1>1, <1>2, StandsOn

LEMMA RestoresInOrderStep ==
    ASSUME Typed, InShape, BindKnown, Apartness, HasMutex, RestoresInOrder, [Next]_vars
    PROVE  RestoresInOrder'
<1>0. \A p \in Processes : Stands(p)
  BY DEF RestoresInOrder, Stands
<1> SUFFICES ASSUME NEW p \in Processes PROVE Stands(p)'
  BY DEF RestoresInOrder, Stands
<1>1. CASE Write
  <2>1. UNCHANGED <<job, run, saved>> /\ run = "all"
    BY <1>1 DEF Write
  <2>2. SUFFICES ASSUME Underway(p)', job'[p].cmd \in Restores, job'[p].alone PROVE SoFar(p, Rank(Now(p)))'
    BY DEF Stands
  <2>3. SoFar(p, Rank(Now(p))) /\ Rank(Now(p))' = Rank(Now(p)) /\ Rank(Now(p)) \in 0 .. 11
    BY <1>0, <2>1, <2>2, RanksBack DEF Stands, Underway, Active, Now, Rank
  <2>4. ~(Rank(Now(p)) > 2)
    BY <2>1, <2>3 DEF SoFar
  <2>5. ~(Rank(Now(p)) > 10) /\ Rank(Now(p)) \notin {6, 7}
    BY <2>3, <2>4
  <2>6. Chosen(p)' = Chosen(p) /\ Ids' = Ids
    BY <2>1 DEF Chosen, Ids, IdsOf
  <2> QED
    BY <2>1, <2>3, <2>4, <2>5, <2>6 DEF SoFar
<1>2. CASE Damage
  <2>1. ~Active(p) /\ job' = job
    BY <1>2 DEF Damage, Quiet
  <2> QED
    BY <2>1 DEF Stands, Underway, Active
<1>3. ASSUME job'[p].cmd = job[p].cmd, job'[p].todo = job[p].todo, job'[p].pick = job[p].pick,
             job'[p].cap = job[p].cap, job'[p].bad <=> job[p].bad, job'[p].alone => job[p].alone,
             UNCHANGED <<live, run, saved>>
      PROVE  Stands(p)'
  BY <1>0, <1>3, StandsOn DEF KeptRow
<1>4. ASSUME NEW q \in Processes, NEW c \in Commands, Start(q, c) PROVE Stands(p)'
  <2>1. UNCHANGED <<live, run, saved>>
    BY <1>4 DEF Start
  <2>2. CASE p = q
    <3>1. job'[p].cmd = c /\ job'[p].todo = Plans[c]
      BY <1>4, <2>2, StartIs
    <3>2. Plans[c] # <<>> /\ Opening(c, Plans[c][1]) /\ Plans[c] \in Seq(Steps)
      BY PlansInShape DEF Plan, Shape
    <3>3. Now(p)' = Plans[c][1]
      BY <3>1, <3>2 DEF Now
    <3>4. c \in Restores => Rank(Now(p))' = 0
      <4>1. Rank(Now(p))' = Rank(Now(p)')
        BY DEF Rank, Now
      <4> QED
        BY <3>2, <3>3, <4>1 DEF Opening
    <3>5. Rank(Now(p))' = 0 => SoFar(p, Rank(Now(p)))'
      BY DEF SoFar
    <3> QED
      BY <3>1, <3>4, <3>5 DEF Stands
  <2>3. CASE p # q
    <3>1. /\ job'[p].cmd = job[p].cmd /\ job'[p].todo = job[p].todo /\ job'[p].pick = job[p].pick
          /\ job'[p].cap = job[p].cap /\ job'[p].bad = job[p].bad /\ (job'[p].alone => job[p].alone)
      BY <1>4, <2>3, StartIs
    <3> QED
      BY <1>3, <2>1, <3>1
  <2> QED
    BY <2>2, <2>3
<1>5. ASSUME NEW q \in Processes, Do(q) \/ Refuse(q) \/ Fail(q) PROVE Stands(p)'
  <2>1. CASE p # q
    BY <1>5, <2>1, OtherStands
  <2>2. CASE p = q
    <3>1. SUFFICES ASSUME Underway(p)', job'[p].cmd \in Restores, job'[p].alone PROVE SoFar(p, Rank(Now(p)))'
      BY DEF Stands
    <3>2. Underway(p) /\ job'[p].cmd = job[p].cmd /\ job'[p].alone = job[p].alone
      <4>1. Underway(p)
        BY <1>5, <2>2 DEF Do, Refuse, Fail, Underway
      <4>2. CASE Do(p)
        BY <4>1, <4>2, DoIs
      <4>3. CASE Refuse(p) \/ Fail(p)
        BY <4>1, <4>3, FailureIs
      <4> QED
        BY <1>5, <2>2, <4>1, <4>2, <4>3
    <3>3. job[p].cmd \in Restores /\ SoFar(p, Rank(Now(p))) /\ job'[p].todo # <<>>
      BY <1>0, <3>1, <3>2 DEF Stands, Underway
    <3> QED
      BY <1>5, <2>2, <3>3, RestoreGoesOn, RestoreFails
  <2> QED
    BY <2>1, <2>2
<1>6. ASSUME NEW q \in Processes, FailCopy(q) PROVE Stands(p)'
  <2>1. job' = [job EXCEPT ![q].todo = <<>>] /\ UNCHANGED <<live, run, saved>>
    BY <1>6 DEF FailCopy
  <2>2. job'[q].todo = <<>> /\ \A r \in Processes \ {q} : job'[r] = job[r]
    BY <2>1 DEF Typed, Jobs
  <2> QED
    BY <1>3, <2>1, <2>2 DEF Stands, Underway
<1>7. ASSUME NEW q \in Processes, End(q) PROVE Stands(p)'
  <2>1. job' = [job EXCEPT ![q] = Idle] /\ UNCHANGED <<live, run, saved>>
    BY <1>7 DEF End
  <2>2. job'[q].todo = <<>> /\ \A r \in Processes \ {q} : job'[r] = job[r]
    BY <2>1, IdleBasis, IdleIs
  <2> QED
    BY <1>3, <2>1, <2>2 DEF Stands, Underway
<1>8. ASSUME NEW q \in Processes, Kill(q) PROVE Stands(p)'
  <2>1. job' = [job EXCEPT ![q] = Idle] /\ live' \in Halfway(Now(q)) /\ UNCHANGED <<run, saved>> /\ Underway(q)
    BY <1>8 DEF Kill, Underway
  <2>2. job'[q].todo = <<>> /\ \A r \in Processes \ {q} : job'[r] = job[r]
    BY <2>1, IdleBasis, IdleIs
  <2>3. CASE p = q
    BY <2>2, <2>3 DEF Stands, Underway
  <2>4. CASE p # q
    <3>1. Underway(p) /\ job[p].cmd \in Restores /\ job[p].alone /\ Rank(Now(p)) > 1 => live' = live
      BY <2>1, <2>4, BesideRestore, ApartKeeps
    <3>2. \A b \in saved' : KeptRow(b)
      BY <2>1 DEF KeptRow
    <3> QED
      BY <1>0, <2>1, <2>2, <2>4, <3>1, <3>2, StandsOn
  <2> QED
    BY <2>3, <2>4
<1>9. CASE UNCHANGED vars
  BY <1>3, <1>9 DEF vars
<1> QED
  BY <1>1, <1>2, <1>4, <1>5, <1>6, <1>7, <1>8, <1>9 DEF Next

(* RestoreBackup starts the containers only when every selected part is as  *)
(* the verified backup has it: after failures, after the backup was        *)
(* deleted under it, and beside handlers that wait for projectMutex.       *)
THEOREM RestoredIsWholeAlways == Spec => []RestoredIsWhole
<1> DEFINE Inv == Typed /\ InShape /\ BindKnown /\ Apartness /\ HasMutex /\ RestoresInOrder
<1>1. Init => Inv
  <2>1. ASSUME Init PROVE Apartness /\ HasMutex /\ RestoresInOrder
    <3>1. \A p \in Processes : job[p].cmd = Nobody
      BY <2>1, IdleIs, BasisInit DEF Init
    <3> QED
      BY <3>1 DEF Apartness, HasMutex, RestoresInOrder, Underway, Active
  <2> QED
    BY <2>1, BasisInit, BindKnownInit
<1>2. Inv /\ [Next]_vars => Inv'
  BY BasisStep, BindKnownStep, ApartnessStep, HasMutexStep, RestoresInOrderStep
<1>3. Inv => RestoredIsWhole
  <2> SUFFICES ASSUME Inv PROVE RestoredIsWhole
    OBVIOUS
  <2>1. TypeOK
    <3>1. \A b \in saved : b.id \in 1 .. version /\ b.at \in [Parts -> -2 .. version]
      BY DEF Typed, Rows
    <3>2. aside \subseteq -1 .. version
      <4>1. aside \subseteq -2 .. version /\ -2 \notin aside
        BY DEF Typed, BindKnown, None
      <4> QED
        BY <4>1
    <3> QED
      BY <3>1, <3>2 DEF TypeOK, Typed
  <2>2. ASSUME NEW p \in Processes, job[p].cmd \in Restores, job[p].todo = <<S("up", "all", "stop")>>,
               job[p].alone, job[p].pick \in Ids, NEW x \in Selected(p), Held(p, x) # None
        PROVE  live[x] = Held(p, x)
    <3>1. Now(p) = S("up", "all", "stop") /\ Underway(p)
      <4>1. job[p].cmd # Nobody
        BY <2>2, CommandNames
      <4> QED
        BY <2>2, <4>1 DEF Now, Underway, Active
    <3>2. Rank(Now(p)) = 11
      BY <3>1, RestoreRanks
    <3>3. SoFar(p, 11)
      BY <2>2, <3>1, <3>2 DEF RestoresInOrder
    <3>4. Setter(x) \in {3, 4, 7, 9}
      BY <2>2, SelectedIs, SetterIn
    <3> QED
      BY <2>2, <3>3, <3>4 DEF SoFar
  <2> QED
    BY <2>1, <2>2 DEF RestoredIsWhole
<1> QED
  BY <1>1, <1>2, <1>3, PTL DEF Spec
=============================================================================
