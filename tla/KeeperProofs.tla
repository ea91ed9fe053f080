----------------------------- MODULE KeeperProofs -----------------------------
(***************************************************************************)
(* The lock of the keepers excludes, for any number of replicas: LockTypes *)
(* says what the variables the lock's argument reads may hold, and together*)
(* with it LockExcludes is inductive.  What each step does to the lock and *)
(* to the ticks falls into four kinds: it leaves both alone, it ends or    *)
(* takes down a tick, it begins one, or the key expires.                   *)
(***************************************************************************)
EXTENDS Keeper, TLAPS

Labels == {"sleep", "down", "execute", "cancel", "rest"}

LockTypes ==
    /\ pc \in [Keepers -> Labels]
    /\ lock \in Keepers \union {Nobody, Departed}

LockInv == LockTypes /\ LockExcludes

\* replica k goes to a label: within its tick, or out of it, and then perhaps dies or
\* releases a key of its own
StaysInTick(k, label) ==
    InTick(k) /\ pc' = [pc EXCEPT ![k] = label] /\ unlocked' = unlocked /\ lock' = lock

LeavesTick(k, label) ==
    /\ pc' = [pc EXCEPT ![k] = label] /\ label \in {"sleep", "down"}
    /\ unlocked' \in {unlocked, unlocked \ {k}}
    /\ lock' = lock \/ (lock = k /\ lock' \in {Nobody, Departed})

\* Such a step keeps every tick under the key or known to be without it.
LEMMA OwnStep ==
    ASSUME LockInv, NEW k \in Keepers, NEW label \in Labels,
           StaysInTick(k, label) \/ LeavesTick(k, label)
    PROVE  LockInv'
<1>1. LockTypes'
  BY DEF LockInv, LockTypes, Labels, StaysInTick, LeavesTick
<1>2. ASSUME NEW j \in Keepers, InTick(j)'
      PROVE  lock' = j \/ j \in unlocked'
  <2>1. CASE j = k
    <3>1. StaysInTick(k, label)
      BY <1>2, <2>1 DEF LeavesTick, LockInv, LockTypes, InTick
    <3>2. QED
      BY <2>1, <3>1 DEF StaysInTick, LockInv, LockExcludes
  <2>2. CASE j # k
    <3>1. InTick(j)
      BY <1>2, <2>2 DEF LockInv, LockTypes, InTick, StaysInTick, LeavesTick
    <3>2. lock = j \/ j \in unlocked
      BY <3>1 DEF LockInv, LockExcludes
    <3>3. QED
      BY <2>2, <3>2 DEF StaysInTick, LeavesTick
  <2>3. QED
    BY <2>1, <2>2
<1>3. QED
  BY <1>1, <1>2 DEF LockInv, LockExcludes

\* A tick begins under the key, or is marked as being without it.
LEMMA BeginStep ==
    ASSUME LockInv, NEW k \in Keepers, Begin(k)
    PROVE  LockInv'
<1>1. LockTypes'
  <2>1. pc' \in [Keepers -> Labels]
    <3>1. pc' = pc \/ pc' = [pc EXCEPT ![k] = "execute"] \/ pc' = [pc EXCEPT ![k] = "cancel"]
      BY DEF Begin
    <3>2. QED
      BY <3>1 DEF LockInv, LockTypes, Labels
  <2>2. lock' = k \/ lock' = lock
    BY DEF Begin
  <2>3. QED
    BY <2>1, <2>2 DEF LockInv, LockTypes
<1>2. ASSUME NEW j \in Keepers, InTick(j)'
      PROVE  lock' = j \/ j \in unlocked'
  <2>1. CASE j = k
    <3>1. Work
      BY <1>2, <2>1 DEF Begin, LockInv, LockTypes, InTick
    <3>2. QED
      BY <2>1, <3>1 DEF Begin
  <2>2. CASE j # k
    <3>1. InTick(j)
      BY <1>2, <2>2 DEF Begin, LockInv, LockTypes, InTick
    <3>2. lock = j \/ j \in unlocked
      BY <3>1 DEF LockInv, LockExcludes
    <3>3. lock = j => lock' = lock
      BY <2>2, KeeperAssumption DEF Begin, Locks, Renewable
    <3>4. unlocked \subseteq unlocked'
      BY DEF Begin
    <3>5. QED
      BY <3>2, <3>3, <3>4
  <2>3. QED
    BY <2>1, <2>2
<1>3. QED
  BY <1>1, <1>2 DEF LockInv, LockExcludes

\* The replica whose key expires under its tick is marked.
LEMMA ExpireStep ==
    ASSUME LockInv, Expire
    PROVE  LockInv'
<1>1. LockTypes'
  BY DEF Expire, LockInv, LockTypes
<1>2. ASSUME NEW j \in Keepers, InTick(j)'
      PROVE  lock' = j \/ j \in unlocked'
  <2>1. InTick(j)
    BY <1>2 DEF Expire, InTick
  <2>2. QED
    BY <2>1 DEF Expire, LockInv, LockExcludes
<1>3. QED
  BY <1>1, <1>2 DEF LockInv, LockExcludes

\* Whatever a replica does keeps the invariant.
LEMMA ReplicaStep ==
    ASSUME LockInv, NEW k \in Keepers,
           Tick(k) \/ Throws(k) \/ Crash(k) \/ Stop(k) \/ Start(k)
    PROVE  LockInv'
<1>1. CASE StandBy(k)
  BY <1>1 DEF StandBy, LockInv, LockTypes, LockExcludes, InTick
<1>2. CASE Begin(k)
  BY <1>2, BeginStep
<1>3. CASE SendExecuteRound(k)
  <2>1. StaysInTick(k, "cancel")
    BY <1>3 DEF SendExecuteRound, GoTo, InTick, StaysInTick
  <2>2. QED
    BY <2>1, OwnStep DEF Labels
<1>4. CASE CancelNext(k)
  <2>1. StaysInTick(k, "cancel")
    BY <1>4 DEF CancelNext, GoTo, InTick, StaysInTick
  <2>2. QED
    BY <2>1, OwnStep DEF Labels
<1>5. CASE ReadRest(k)
  <2>1. StaysInTick(k, "rest")
    BY <1>5 DEF ReadRest, GoTo, InTick, StaysInTick
  <2>2. QED
    BY <2>1, OwnStep DEF Labels
<1>6. CASE LockNext(k) \/ SettleNext(k)
  <2>1. UNCHANGED <<lock, pc, unlocked>>
    BY <1>6 DEF LockNext, SettleNext
  <2>2. QED
    BY <2>1 DEF LockInv, LockTypes, LockExcludes, InTick
<1>7. CASE Sweep(k)
  <2>1. LeavesTick(k, "sleep")
    BY <1>7 DEF Sweep, EndTick, LeavesTick
  <2>2. QED
    BY <2>1, OwnStep DEF Labels
<1>8. CASE Throws(k)
  <2>1. LeavesTick(k, "sleep")
    BY <1>8 DEF Throws, EndTick, LeavesTick
  <2>2. QED
    BY <2>1, OwnStep DEF Labels
<1>9. CASE Crash(k)
  <2>1. LeavesTick(k, "down")
    BY <1>9 DEF Crash, Dies, LeavesTick
  <2>2. QED
    BY <2>1, OwnStep DEF Labels
<1>10. CASE Stop(k)
  <2>1. LeavesTick(k, "down")
    BY <1>10 DEF Stop, Dies, Released, LeavesTick
  <2>2. QED
    BY <2>1, OwnStep DEF Labels
<1>11. CASE Start(k)
  <2>1. LeavesTick(k, "sleep")
    BY <1>11 DEF Start, LeavesTick
  <2>2. QED
    BY <2>1, OwnStep DEF Labels
<1>12. QED
  BY <1>1, <1>2, <1>3, <1>4, <1>5, <1>6, <1>7, <1>8, <1>9, <1>10, <1>11 DEF Tick

\* However many replicas there are, and whatever crashes, expires or fails, two of them
\* are in their ticks at once only if Redis failed one of them or its key expired: the
\* compare-and-delete and the compare-and-extend of lock.ts let nobody in besides.
THEOREM LockAlwaysExcludes == Spec => []LockExcludes
<1>1. Init => LockInv
  BY KeeperAssumption DEF Init, LockInv, LockTypes, LockExcludes, InTick, Labels
<1>2. LockInv /\ [Next]_vars => LockInv'
  <2> SUFFICES ASSUME LockInv, [Next]_vars
               PROVE  LockInv'
    OBVIOUS
  <2>1. CASE UNCHANGED vars
    BY <2>1 DEF vars, replicas, LockInv, LockTypes, LockExcludes, InTick
  <2>2. CASE UNCHANGED replicas
    BY <2>2 DEF replicas, LockInv, LockTypes, LockExcludes, InTick
  <2>3. CASE Expire
    BY <2>3, ExpireStep
  <2>4. CASE \E k \in Keepers : Tick(k) \/ Throws(k) \/ Crash(k) \/ Stop(k) \/ Start(k)
    BY <2>4, ReplicaStep
  <2>5. RoundDue \/ (\E e \in Epochs : PriceDue(e) \/ PriceChanges(e)) \/ SetPaused
          \/ (\E c \in Calls : SomebodyCalls(c)) => UNCHANGED replicas
    BY DEF RoundDue, PriceDue, PriceChanges, SetPaused, SomebodyCalls
  <2>6. QED
    BY <2>1, <2>2, <2>3, <2>4, <2>5 DEF Next
<1>3. LockInv => LockExcludes
  BY DEF LockInv
<1>4. QED
  BY <1>1, <1>2, <1>3, PTL DEF Spec
===============================================================================
