------------------------------- MODULE Keeper -------------------------------
(***************************************************************************)
(* Replicas of the keeper, each with its tick loop and its state file,     *)
(* sharing a lock in Redis and one market.  A step is what a replica does  *)
(* between two awaits; other replicas, other callers, the clock and the    *)
(* oracle may act in between.                                              *)
(*                                                                         *)
(* market  what pendingWork and the calls depend on; `quote` is what the   *)
(*         oracle says of the price a round waits for: too early to tell,  *)
(*         priced, or late, that is unpriced past the buffer               *)
(* lock    the token under the key: a replica's, one that died, or none    *)
(* pc, holdsLock, todo, handled   one of each per replica                  *)
(* unlocked  history: the replicas whose tick is without the key, because  *)
(*           Redis failed or the key expired under it                      *)
(* trouble   bound: disturbances so far                                    *)
(*                                                                         *)
(* The answer about the lock and the pendingWork read after it are one     *)
(* step.  A send is one step with every outcome TxSender can have.  The    *)
(* last part of a tick, runBuybacks, is modelled with the burner.  Health  *)
(* figures, balances and the pruning of old marks are left out.            *)
(***************************************************************************)
EXTENDS Naturals, FiniteSets

CONSTANTS
    Keepers,        \* replicas
    Nobody,         \* no key in Redis
    Departed,       \* the token of a process that is gone
    MaxEpoch,       \* bound: rounds that are told apart
    MaxTrouble      \* bound: errors, crashes, lost transactions, oddities

ASSUME KeeperAssumption ==
    /\ IsFiniteSet(Keepers)
    /\ Nobody \notin Keepers /\ Departed \notin Keepers /\ Nobody # Departed
    /\ MaxEpoch \in Nat \ {0} /\ MaxTrouble \in Nat

VARIABLES market, lock, pc, holdsLock, todo, handled, unlocked, trouble

replicas == <<lock, pc, holdsLock, todo, handled, unlocked>>
vars == <<market, replicas, trouble>>

Epochs == 1..MaxEpoch
Quotes == {"early", "priced", "late"}
Unresolved == {"Open", "Locked"}

Disturbs == trouble < MaxTrouble /\ trouble' = trouble + 1

(***************************************************************************)
(* The market                                                              *)
(***************************************************************************)
Lockable == {e \in Epochs : market.phase[e] = "Open" /\ market.quote[e] = "priced"}
Settleable == {e \in Epochs : market.phase[e] = "Locked" /\ market.quote[e] = "priced"}
Cancellable == {e \in Epochs : market.phase[e] \in Unresolved /\ market.quote[e] = "late"}

\* settled rounds whose fee is still in the market
Booked == {e \in Epochs : market.phase[e] = "Settled"}

\* lock every round in `locks` and settle those in `settles`, which books their fees
Resolved(locks, settles, quotes) ==
    [market EXCEPT
        !.phase = [e \in Epochs |-> IF e \in settles THEN "Settled"
                                    ELSE IF e \in locks THEN "Locked" ELSE @[e]],
        !.quote = [e \in Epochs |-> IF e \in locks \ settles THEN quotes[e] ELSE @[e]]]

\* _startNextRound; rounds after MaxEpoch are not told apart
Started(m) ==
    IF ~m.startable THEN m
    ELSE IF m.current = MaxEpoch THEN [m EXCEPT !.startable = FALSE]
    ELSE [m EXCEPT !.startable = FALSE, !.current = @ + 1,
                   !.phase[m.current + 1] = "Open"]

Call(function, e) == [function |-> function, epoch |-> e]
ExecuteRound == Call("executeRound", 0)
SweepToBurner == Call("sweepToBurner", 0)

\* What a call may make of the market; nothing when it reverts.  What the oracle says
\* of a round's close is found out when the round is locked: a late executeRound
\* settles at once what it locks.
After(c) ==
    CASE c.function = "executeRound" ->
           {Started(Resolved(Lockable,
                             Settleable \union {e \in Lockable : q[e] = "priced"}, q)) :
              q \in IF market.paused THEN {} ELSE [Lockable -> Quotes]}
      [] c.function = "lockRound" ->
           {Resolved({e}, {}, [x \in {e} |-> q]) : e \in Lockable \cap {c.epoch}, q \in Quotes}
      [] c.function = "settleRound" ->
           {Resolved({}, {e}, market.quote) : e \in Settleable \cap {c.epoch}}
      [] c.function = "cancelRound" ->
           {[market EXCEPT !.phase[e] = "Cancelled"] : e \in Cancellable \cap {c.epoch}}
      [] c.function = "sweepToBurner" ->
           {[market EXCEPT !.phase = [e \in Epochs |-> IF e \in Booked THEN "Swept" ELSE @[e]]] :
              b \in {Booked} \ {{}}}

Calls ==
    {ExecuteRound, SweepToBurner}
        \union {Call(f, e) : f \in {"lockRound", "settleRound", "cancelRound"}, e \in Epochs}

\* reverts that mean somebody else did it
Benign(c) == c.function \in {"lockRound", "settleRound", "cancelRound"}

Init ==
    /\ market = [phase |-> [e \in Epochs |-> IF e = 1 THEN "Locked"
                                            ELSE IF e = 2 THEN "Open" ELSE "Pending"],
                 quote |-> [e \in Epochs |-> "early"],
                 current |-> 2, startable |-> FALSE, paused |-> FALSE]
    /\ lock = Nobody
    /\ pc = [k \in Keepers |-> "sleep"]
    /\ holdsLock = [k \in Keepers |-> FALSE]
    /\ todo = [k \in Keepers |-> [cancel |-> {}, lock |-> {}, settle |-> {}]]
    /\ handled = [k \in Keepers |-> {}]
    /\ unlocked = {}
    /\ trouble = 0

\* the head's lock instant passes, so the next round may start
RoundDue ==
    /\ ~market.startable
    /\ market' = [market EXCEPT !.startable = TRUE]
    /\ UNCHANGED <<replicas, trouble>>

\* the instant passes and its price is there, or does not come within the buffer
PriceDue(e) ==
    /\ market.phase[e] \in Unresolved /\ market.quote[e] = "early"
    /\ market.phase[e] = "Open" => e < market.current \/ market.startable
    /\ \E q \in Quotes \ {"early"} : market' = [market EXCEPT !.quote[e] = q]
    /\ UNCHANGED <<replicas, trouble>>

\* a late price appears, a price is evicted past the buffer, the buffer is raised
PriceChanges(e) ==
    /\ Disturbs
    /\ market.phase[e] \in Unresolved /\ market.quote[e] # "early"
    /\ \/ market.quote[e] = "late" /\ market' = [market EXCEPT !.quote[e] = "early"]
       \/ market.quote[e] = "late" /\ market' = [market EXCEPT !.quote[e] = "priced"]
       \/ market.quote[e] = "priced" /\ market' = [market EXCEPT !.quote[e] = "late"]
    /\ UNCHANGED replicas

SetPaused ==
    /\ Disturbs
    /\ market' = [market EXCEPT !.paused = ~@]
    /\ UNCHANGED replicas

\* anybody may make any of the calls, but is not for ever ahead of the keeper
SomebodyCalls(c) ==
    /\ market' \in After(c)
    /\ IF c = ExecuteRound THEN Disturbs ELSE UNCHANGED trouble
    /\ UNCHANGED replicas

-----------------------------------------------------------------------------
(* The lock *)

\* mutant: renewed without looking at the token
RenewAny(k) == lock # Nobody

\* RedisLock.renew
Renewable(k) == lock = k

\* RedisLock.release
Released(k) == IF lock = k THEN Nobody ELSE lock

InTick(k) == pc[k] \notin {"sleep", "down"}

\* the time to live passes without a renewal: at once for a dead process, for a living
\* one only if its tick or its back-off outlasts it
Expire ==
    /\ lock # Nobody
    /\ IF lock = Departed THEN UNCHANGED trouble ELSE Disturbs
    /\ lock' = Nobody
    /\ unlocked' = unlocked \union {k \in Keepers : k = lock /\ InTick(k)}
    /\ UNCHANGED <<market, pc, holdsLock, todo, handled>>
-----------------------------------------------------------------------------
(* The tick *)

NoWork == [cancel |-> {}, lock |-> {}, settle |-> {}]

First(S) == CHOOSE e \in S : \A x \in S : e <= x

GoTo(k, label) == pc' = [pc EXCEPT ![k] = label] /\ UNCHANGED unlocked

EndTick(k) ==
    /\ pc' = [pc EXCEPT ![k] = "sleep"]
    /\ todo' = [todo EXCEPT ![k] = NoWork]
    /\ unlocked' = unlocked \ {k}

\* an exception, from a read or from send, skips the rest of the tick
Throws(k) ==
    /\ InTick(k)
    /\ Disturbs
    /\ EndTick(k)
    /\ UNCHANGED <<market, lock, holdsLock, handled>>

\* send(): confirmed, which may be the receipt of another transaction at its nonce;
\* skipped, which may be the answer of a node that lags; failed.  A transaction that is
\* given up and mined later is one of the calls somebody makes.
Send(c, status) ==
    \/ status = "confirmed" /\ market' \in After(c) /\ UNCHANGED trouble
    \/ status = "confirmed" /\ Disturbs /\ UNCHANGED market
    \/ status = "skipped" /\ Benign(c) /\ After(c) = {} /\ UNCHANGED <<market, trouble>>
    \/ status = "skipped" /\ Benign(c) /\ Disturbs /\ UNCHANGED market
    \/ status = "failed" /\ After(c) = {} /\ UNCHANGED <<market, trouble>>
    \/ status = "failed" /\ Disturbs /\ UNCHANGED market

Statuses == {"confirmed", "skipped", "failed"}

\* the first line of a tick: renew or acquire
Locks(k) == IF holdsLock[k] THEN Renewable(k) ELSE lock = Nobody

StandBy(k) ==
    /\ pc[k] = "sleep" /\ ~Locks(k)
    /\ holdsLock' = [holdsLock EXCEPT ![k] = FALSE]
    /\ UNCHANGED <<market, lock, pc, todo, handled, unlocked, trouble>>

\* mutant: a paused market is left alone
WorkUnlessPaused ==
    /\ ~market.paused
    /\ Lockable \union Settleable \union Cancellable # {} \/ market.startable

\* pendingWork: whether anything is due, whatever is booked to be swept
Work == Lockable \union Settleable \union Cancellable # {} \/ market.startable

\* the tick proceeds with the lock, or without it when Redis cannot be asked, and reads
\* pendingWork
Begin(k) ==
    /\ pc[k] = "sleep"
    /\ holdsLock' = [holdsLock EXCEPT ![k] = TRUE]
    /\ IF Work
       THEN /\ todo' = [todo EXCEPT ![k] = [NoWork EXCEPT !.cancel = Cancellable]]
            /\ pc' = [pc EXCEPT ![k] = IF Lockable \union Settleable # {} \/ market.startable
                                       THEN "execute" ELSE "cancel"]
       ELSE UNCHANGED <<todo, pc>>
    /\ \/ /\ Locks(k)
          /\ lock' = k
          /\ UNCHANGED <<unlocked, trouble>>
       \/ /\ Disturbs
          /\ unlocked' = IF Work THEN unlocked \union {k} ELSE unlocked
          /\ UNCHANGED lock
    /\ UNCHANGED <<market, handled>>

SendExecuteRound(k) ==
    /\ pc[k] = "execute"
    /\ \E status \in Statuses : Send(ExecuteRound, status)
    /\ GoTo(k, "cancel")
    /\ UNCHANGED <<lock, holdsLock, todo, handled>>

\* a cancellation is sent once: anything but a failure marks it, in the state file
CancelNext(k) ==
    LET e == First(todo[k].cancel)
    IN  /\ pc[k] = "cancel" /\ todo[k].cancel # {}
        /\ \/ e \in handled[k] /\ UNCHANGED <<market, handled, trouble>>
           \/ /\ e \notin handled[k]
              /\ \E status \in Statuses :
                    /\ Send(Call("cancelRound", e), status)
                    /\ handled' = IF status = "failed" THEN handled
                                  ELSE [handled EXCEPT ![k] = @ \union {e}]
        /\ todo' = [todo EXCEPT ![k].cancel = @ \ {e}]
        /\ GoTo(k, "cancel")
        /\ UNCHANGED <<lock, holdsLock>>

\* pendingWork again, for what executeRound could not reach
ReadRest(k) ==
    /\ pc[k] = "cancel" /\ todo[k].cancel = {}
    /\ todo' = [todo EXCEPT ![k] = [NoWork EXCEPT !.lock = Lockable, !.settle = Settleable]]
    /\ GoTo(k, "rest")
    /\ UNCHANGED <<market, lock, holdsLock, handled, trouble>>

LockNext(k) ==
    LET e == First(todo[k].lock)
    IN  /\ pc[k] = "rest" /\ todo[k].lock # {}
        /\ \E status \in Statuses : Send(Call("lockRound", e), status)
        /\ todo' = [todo EXCEPT ![k].lock = @ \ {e}]
        /\ UNCHANGED <<lock, pc, holdsLock, handled, unlocked>>

SettleNext(k) ==
    LET e == First(todo[k].settle)
    IN  /\ pc[k] = "rest" /\ todo[k].lock = {} /\ todo[k].settle # {}
        /\ \E status \in Statuses : Send(Call("settleRound", e), status)
        /\ todo' = [todo EXCEPT ![k].settle = @ \ {e}]
        /\ UNCHANGED <<lock, pc, holdsLock, handled, unlocked>>

\* sweepBurnAllocation; a read that fails is "nothing to sweep"
Sweep(k) ==
    /\ pc[k] = "rest" /\ todo[k].lock \union todo[k].settle = {}
    /\ \/ \E status \in Statuses : Booked # {} /\ Send(SweepToBurner, status)
       \/ Booked = {} /\ UNCHANGED <<market, trouble>>
       \/ Disturbs /\ UNCHANGED market
    /\ EndTick(k)
    /\ UNCHANGED <<lock, holdsLock, handled>>

-----------------------------------------------------------------------------
(* The process *)

Dies(k) ==
    /\ pc' = [pc EXCEPT ![k] = "down"]
    /\ holdsLock' = [holdsLock EXCEPT ![k] = FALSE]
    /\ todo' = [todo EXCEPT ![k] = NoWork]
    /\ unlocked' = unlocked \ {k}
    /\ UNCHANGED market

\* also a shutdown whose tick takes longer than the three seconds it is given
Crash(k) ==
    /\ pc[k] # "down"
    /\ Disturbs
    /\ Dies(k)
    /\ lock' = IF lock = k THEN Departed ELSE lock
    /\ UNCHANGED handled

\* the loop ends between two ticks and releases the lock
Stop(k) ==
    /\ pc[k] = "sleep"
    /\ Disturbs
    /\ Dies(k)
    /\ lock' = Released(k)
    /\ UNCHANGED handled

\* a new process, with a token of its own; a state file that cannot be read is dropped
Start(k) ==
    /\ pc[k] = "down"
    /\ pc' = [pc EXCEPT ![k] = "sleep"]
    /\ \/ UNCHANGED <<handled, trouble>>
       \/ Disturbs /\ handled' = [handled EXCEPT ![k] = {}]
    /\ UNCHANGED <<market, lock, holdsLock, todo, unlocked>>

Tick(k) ==
    \/ StandBy(k) \/ Begin(k) \/ SendExecuteRound(k) \/ CancelNext(k) \/ ReadRest(k)
    \/ LockNext(k) \/ SettleNext(k) \/ Sweep(k)

Next ==
    \/ RoundDue
    \/ \E e \in Epochs : PriceDue(e) \/ PriceChanges(e)
    \/ SetPaused
    \/ \E c \in Calls : SomebodyCalls(c)
    \/ Expire
    \/ \E k \in Keepers : Tick(k) \/ Throws(k) \/ Crash(k) \/ Stop(k) \/ Start(k)

Spec == Init /\ [][Next]_vars

\* time passes for the rounds and for the lock, processes run and are started again
FairSpec ==
    /\ Spec
    /\ WF_vars(RoundDue)
    /\ WF_vars(lock = Departed /\ Expire)
    /\ \A k \in Keepers : WF_vars(Tick(k) \/ Start(k))

-----------------------------------------------------------------------------
(* Properties *)

\* A replica in a tick holds the key, unless Redis failed it at the start of this tick or
\* the key expired under it: no stale belief of holding the lock, no release and no
\* renewal by another replica lets two replicas send at once (lock.ts:3-10, 64).
LockExcludes == \A k \in Keepers : InTick(k) => lock = k \/ k \in unlocked

\* the round's price is known, or given up and its cancellation not marked as handled;
\* or the round is settled and its fee not swept
Waiting(e) ==
    \/ market.phase[e] \in Unresolved /\ market.quote[e] = "priced"
    \/ e \in Cancellable /\ \A k \in Keepers : e \notin handled[k]
    \/ e \in Booked

\* Whatever crashes, expires, is paused or goes wrong on the way, a round whose price is
\* known or given up does not wait for ever, unless a replica has marked its cancellation
\* as handled, nor does its fee: although a tick sweeps only after round work and any
\* attempt may fail, the next round brings the next attempt.
RoundsAreFinished == \A e \in Epochs : Waiting(e) ~> ~Waiting(e)
=============================================================================
