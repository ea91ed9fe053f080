---------------------------- MODULE BuybackBurner ----------------------------
(***************************************************************************)
(* The buyback burner, PonsBuybackBurner.sol, funded by the market's       *)
(* sweeps, and the part of the keeper that spends it, runBuybacks.  A      *)
(* transaction is one step; the keeper's loop over the two targets has a   *)
(* step for each, between which anybody may buy, fund or reconfigure.      *)
(*                                                                         *)
(* Targets are 0, PONS, and 1, the project token.  Of a target only the    *)
(* share matters and whether it has a token and a pool; of a pool, how     *)
(* much it takes in one swap before the swap's own impact and what the     *)
(* price has moved since push the output below the floor.                  *)
(***************************************************************************)
EXTENDS Integers, Totals

CONSTANTS
    MaxBps,         \* MAX_BPS
    PonsShareBps,   \* the first target's share, fixed by the constructor
    MinBuyback,     \* the keeper's minBuybackWei
    Unlimited,      \* type(uint256).max
    Deposits,       \* values a sweep may carry
    Limits,         \* [cap, window] pairs an administrator may set
    Depth,          \* what each pool takes at the floor when its price is its mean
    Rooms,          \* what a trade may leave a pool able to take
    Horizon,        \* bound: ages above it are not told apart
    MaxFunded,      \* bound: ETH ever received
    MaxTrouble      \* bound: changes of settings, moved pools, failed sends

Indexes == {0, 1}

ASSUME BurnerAssumption ==
    /\ MaxBps \in Nat \ {0} /\ PonsShareBps \in 0..MaxBps
    /\ MinBuyback \in Nat
    /\ Deposits \subseteq Nat
    /\ Depth \in [Indexes -> Nat] /\ Rooms \subseteq Nat /\ 0 \in Rooms
    /\ Limits \subseteq [cap : Nat, window : 1..Horizon]
    /\ Horizon \in Nat \ {0} /\ MaxFunded \in Nat /\ MaxTrouble \in Nat
    /\ Unlimited \in Nat /\ Unlimited >= MaxFunded

VARIABLES
    shareBps,       \* Target.shareBps
    target,         \* "none", "token" without a pool, or "pooled"
    room,           \* what each pool takes now before its output is below the floor
    allocated,
    totalSpent,
    limit,          \* maxSpendPerWindow, rateWindow
    age,            \* time since _windowStart
    spentInWindow,  \* _spentInWindow
    pc,             \* the target runBuybacks is at, 2 when it is not running
    funded,         \* history: ETH received
    deposits,       \* history: how many times
    recent,         \* history: ETH spent 0, 1, ... ago, since the limit was last set
    trouble

config == <<shareBps, target, limit>>
money == <<allocated, totalSpent, age, spentInWindow, recent>>
history == <<funded, deposits>>
vars == <<config, room, money, pc, history, trouble>>

Targets == {"none", "token", "pooled"}

Disturbs == trouble < MaxTrouble /\ trouble' = trouble + 1

Nothing == [d \in 0..Horizon - 1 |-> 0]

Init ==
    /\ shareBps = [i \in Indexes |-> IF i = 0 THEN PonsShareBps ELSE MaxBps - PonsShareBps]
    /\ target \in [Indexes -> {"none", "pooled"}]
    /\ room = Depth
    /\ allocated = [i \in Indexes |-> 0]
    /\ totalSpent = [i \in Indexes |-> 0]
    /\ limit = [cap |-> Unlimited, window |-> Horizon]
    /\ age = Horizon
    /\ spentInWindow = 0
    /\ pc = 2
    /\ funded = 0 /\ deposits = 0
    /\ recent = Nothing
    /\ trouble = 0

Older(d) == IF d < Horizon THEN d + 1 ELSE d

\* time passes, in units of which no window is longer than Horizon
Tick ==
    /\ age' = Older(age)
    /\ recent' = [d \in 0..Horizon - 1 |-> IF d = 0 THEN 0 ELSE recent[d - 1]]
    /\ UNCHANGED <<config, room, allocated, totalSpent, spentInWindow, pc, history, trouble>>

\* somebody trades, for or against the burner
PoolMoves(i) ==
    /\ Disturbs
    /\ \E r \in Rooms : room' = [room EXCEPT ![i] = r]
    /\ UNCHANGED <<config, money, pc, history>>

\* arbitrage brings the price, or time the mean, back
PoolReturns(i) ==
    /\ room[i] # Depth[i]
    /\ room' = [room EXCEPT ![i] = Depth[i]]
    /\ UNCHANGED <<config, money, pc, history, trouble>>

-----------------------------------------------------------------------------
(* The contract *)

PonsPart(value) == (value * shareBps[0]) \div MaxBps

\* receive: split on arrival, what does not divide goes to the second target
Receive(value) ==
    /\ value > 0 /\ funded + value <= MaxFunded
    /\ allocated' = [allocated EXCEPT ![0] = @ + PonsPart(value),
                                      ![1] = @ + (value - PonsPart(value))]
    /\ funded' = funded + value
    /\ deposits' = deposits + 1
    /\ UNCHANGED <<config, room, totalSpent, age, spentInWindow, recent, pc, trouble>>

WindowOver == age >= limit.window

Remaining == limit.cap - (IF WindowOver THEN 0 ELSE spentInWindow)

\* what buyAndBurn requires; a negative remainder reverts as well
CanBuy(i, amount) ==
    /\ target[i] = "pooled"
    /\ amount > 0 /\ amount <= allocated[i]
    /\ amount <= Remaining
    /\ amount <= room[i]

\* mutant: the counter starts again, the window does not
ConsumeUnanchored(amount) ==
    /\ spentInWindow' = IF WindowOver THEN amount ELSE spentInWindow + amount
    /\ UNCHANGED age

\* _consumeRateLimit
ConsumeRateLimit(amount) ==
    /\ spentInWindow' = IF WindowOver THEN amount ELSE spentInWindow + amount
    /\ age' = IF WindowOver THEN 0 ELSE age

\* buyAndBurn; `amount` is what is spent, zero having been replaced by the allocation.
\* The swap moves the price, which leaves less room, how much less is the pool's affair.
BuyAndBurn(i, amount) ==
    /\ CanBuy(i, amount)
    /\ ConsumeRateLimit(amount)
    /\ allocated' = [allocated EXCEPT ![i] = @ - amount]
    /\ totalSpent' = [totalSpent EXCEPT ![i] = @ + amount]
    /\ recent' = [recent EXCEPT ![0] = @ + amount]
    /\ \E left \in {r \in Rooms : r + amount <= room[i]} : room' = [room EXCEPT ![i] = left]
    /\ UNCHANGED <<config, history>>

\* anybody may buy, any part of an allocation
SomebodyBuys(i, amount) ==
    /\ BuyAndBurn(i, amount)
    /\ UNCHANGED <<pc, trouble>>

\* mutant: a new target starts without a share
SetTargetAfresh(i, t) ==
    /\ Disturbs
    /\ target' = [target EXCEPT ![i] = t]
    /\ shareBps' = [shareBps EXCEPT ![i] = 0]
    /\ UNCHANGED <<limit, room, money, pc, history>>

\* setTarget keeps the share
SetTarget(i, t) ==
    /\ Disturbs
    /\ target' = [target EXCEPT ![i] = t]
    /\ UNCHANGED <<shareBps, limit, room, money, pc, history>>

\* setRateLimit, in the middle of a window or not
SetRateLimit(new) ==
    /\ Disturbs
    /\ limit' = new
    /\ recent' = Nothing
    /\ UNCHANGED <<shareBps, target, room, allocated, totalSpent, age, spentInWindow,
                   pc, history>>

-----------------------------------------------------------------------------
(* The keeper *)

\* a tick with round work ends with runBuybacks
StartBuybacks ==
    /\ pc = 2
    /\ pc' = 0
    /\ UNCHANGED <<config, room, money, history, trouble>>

Worthwhile(i) == target[i] # "none" /\ allocated[i] >= MinBuyback

\* mutant: a target that is skipped ends the loop
SkipToEnd(i) == 2

SkipTo(i) == i + 1

\* the whole allocation or nothing; a read may fail, and send may throw
RunBuybacks(i) ==
    /\ pc = i
    /\ \/ Worthwhile(i) /\ BuyAndBurn(i, allocated[i]) /\ pc' = i + 1 /\ UNCHANGED trouble
       \/ /\ ~(Worthwhile(i) /\ CanBuy(i, allocated[i]))
          /\ pc' = IF Worthwhile(i) THEN i + 1 ELSE SkipTo(i)
          /\ UNCHANGED <<config, room, money, history, trouble>>
       \/ /\ Disturbs
          /\ pc' \in {i + 1, 2}
          /\ UNCHANGED <<config, room, money, history>>

Next ==
    \/ Tick
    \/ \E i \in Indexes : PoolMoves(i) \/ PoolReturns(i) \/ RunBuybacks(i)
    \/ \E value \in Deposits : Receive(value)
    \/ \E i \in Indexes, amount \in 1..MaxFunded : SomebodyBuys(i, amount)
    \/ \E i \in Indexes, t \in Targets : SetTarget(i, t)
    \/ \E new \in Limits : SetRateLimit(new)
    \/ StartBuybacks

Spec == Init /\ [][Next]_vars

\* time passes, pools return to their mean, and the keeper's ticks go on
FairSpec ==
    /\ Spec
    /\ WF_vars(Tick)
    /\ WF_vars(StartBuybacks)
    /\ \A i \in Indexes : WF_vars(PoolReturns(i)) /\ WF_vars(RunBuybacks(i))

-----------------------------------------------------------------------------
(* Properties *)

\* Every wei received is allocated or spent, and a target's part of it is its share at
\* construction, less than one wei per deposit off, whatever is bought, retargeted or
\* limited in between (setTarget's promise that money earned keeps its split).
SharesFollowFunding ==
    LET part == [i \in Indexes |-> allocated[i] + totalSpent[i]]
    IN  /\ part[0] + part[1] = funded
        /\ funded * PonsShareBps - MaxBps * part[0] \in 0..deposits * (MaxBps - 1)

\* Since the limit was last set, no stretch of rateWindow sees more than twice the cap
\* spent, whoever buys, and however a window is cut by the setting.
SpendIsCapped == Total(recent, 0..limit.window - 1) <= 2 * limit.cap

\* In the end all that remains of a target that can be bought is below the keeper's
\* minimum, or above the cap, or more than its pool takes in one swap: the keeper asks
\* for the whole allocation, so the last two it can never get. Nothing else, neither the
\* other target, nor what others buy, nor a window cut by the setting, holds it up.
AllThatFitsIsSpent ==
    <>[](\A i \in Indexes :
            target[i] = "pooled" /\ allocated[i] > 0 /\ allocated[i] >= MinBuyback
                => allocated[i] > limit.cap \/ allocated[i] > Depth[i])
=============================================================================
