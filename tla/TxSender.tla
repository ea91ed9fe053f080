------------------------------ MODULE TxSender ------------------------------
(***************************************************************************)
(* The keeper's transaction sender against a node, its mempool and the     *)
(* chain. One step is what happens between two awaits of send(); anything  *)
(* else may happen in between.                                             *)
(*                                                                         *)
(* due     the actions that would succeed on chain now                     *)
(* mined   the account's mined transactions: the next nonce is its length  *)
(* sent    every transaction the node ever accepted: anyone may mine it    *)
(* pool    the transactions the node holds, at most one for a nonce        *)
(* cached  this.nonce, Unknown when undefined                              *)
(* pc, call  where send() is, and its locals                               *)
(* trouble, arrivals  bounds: disturbances and new work so far             *)
(*                                                                         *)
(* Fees are levels: an estimate is level 0, bumpFees adds one, and one     *)
(* more is enough for a replacement. Balances, dry runs and statistics are *)
(* left out.                                                               *)
(***************************************************************************)
EXTENDS Naturals, Sequences, FiniteSets

CONSTANTS
    Actions,        \* the contract calls the keeper makes
    Benign,         \* those whose revert says that somebody else did it
    Unknown,
    MaxAttempts,
    MaxTrouble,     \* bound: late or lost transactions, errors, restarts
    MaxArrivals     \* bound: how often an action becomes due

ASSUME SenderAssumption ==
    /\ Benign \subseteq Actions
    /\ Unknown \notin Nat
    /\ MaxAttempts \in Nat \ {0}
    /\ MaxTrouble \in Nat /\ MaxArrivals \in Nat

VARIABLES due, mined, sent, pool, cached, pc, call, trouble, arrivals

chain == <<due, mined, sent, pool, arrivals>>
vars == <<due, mined, sent, pool, cached, pc, call, trouble, arrivals>>

NextToMine == Len(mined)

Holds(n) == \E t \in pool : t.nonce = n

\* getTransactionCount at "pending"
PendingNonce ==
    CHOOSE n \in NextToMine .. NextToMine + Cardinality(pool) :
        /\ ~Holds(n)
        /\ \A k \in NextToMine .. n - 1 : Holds(k)

NewCall(a) == [action |-> a, nonce |-> 0, fee |-> 0, attempts |-> 0]

Init ==
    /\ due = {} /\ mined = <<>> /\ sent = {} /\ pool = {}
    /\ cached = Unknown
    /\ pc = "idle"
    /\ \E a \in Actions : call = NewCall(a)
    /\ trouble = 0 /\ arrivals = 0

Disturbs == trouble < MaxTrouble /\ trouble' = trouble + 1

-----------------------------------------------------------------------------
(* The chain and the node *)

BecomesDue(a) ==
    /\ arrivals < MaxArrivals
    /\ a \notin due
    /\ due' = due \union {a}
    /\ arrivals' = arrivals + 1
    /\ UNCHANGED <<mined, sent, pool, cached, pc, call, trouble>>

\* the calls are permissionless
DoneByAnother(a) ==
    /\ a \in due
    /\ due' = due \ {a}
    /\ UNCHANGED <<mined, sent, pool, cached, pc, call, trouble, arrivals>>

Mine(t) ==
    /\ t.nonce = NextToMine
    /\ mined' = Append(mined, [action |-> t.action, ok |-> t.action \in due])
    /\ due' = due \ {t.action}
    /\ pool' = {u \in pool : u.nonce # t.nonce}
    /\ UNCHANGED <<sent, cached, pc, call, trouble, arrivals>>

\* the node forgets a transaction, which others may still know
Evict(t) ==
    /\ Disturbs
    /\ pool' = pool \ {t}
    /\ UNCHANGED <<due, mined, sent, cached, pc, call, arrivals>>

\* another replica, or an operator by hand, uses the same account
ForeignTransaction(a) ==
    /\ Disturbs
    /\ LET t == [action |-> a, nonce |-> PendingNonce, fee |-> 0]
       IN  sent' = sent \union {t} /\ pool' = pool \union {t}
    /\ UNCHANGED <<due, mined, cached, pc, call, arrivals>>

-----------------------------------------------------------------------------
(* send() *)

Goto(label) == pc' = label /\ UNCHANGED <<cached, call>>

\* an exception leaves send(); the tick's handler resets the nonce
Throws == cached' = Unknown /\ pc' = "idle" /\ UNCHANGED call

Send(a) ==
    /\ pc = "idle"
    /\ a \in due
    /\ pc' = "simulate"
    /\ call' = NewCall(a)
    /\ UNCHANGED <<chain, cached, trouble>>

Simulate ==
    /\ pc = "simulate"
    /\ \/ call.action \in due /\ Goto("nonce") /\ UNCHANGED trouble
       \/ call.action \notin due /\ Goto("idle") /\ UNCHANGED trouble
       \/ Disturbs /\ Goto("idle")
    /\ UNCHANGED chain

NextNonce == IF cached = Unknown THEN PendingNonce ELSE cached

ReadNonce ==
    /\ pc = "nonce"
    /\ \/ /\ cached' = NextNonce
          /\ call' = [call EXCEPT !.nonce = NextNonce]
          /\ pc' = "estimate"
          /\ UNCHANGED trouble
       \/ Disturbs /\ Throws
    /\ UNCHANGED chain

\* mutant: the retry moves on to the next nonce
RetriesAtNextNonce ==
    /\ cached' = Unknown
    /\ call' = [call EXCEPT !.attempts = @ + 1, !.nonce = @ + 1]
    /\ pc' = "estimate"

\* an error nobody recognised: the same nonce again, the cached one dropped
Retries ==
    /\ cached' = Unknown
    /\ call' = [call EXCEPT !.attempts = @ + 1]
    /\ pc' = "estimate"

MayRetry == call.attempts < MaxAttempts

GiveUp ==
    /\ pc = "estimate"
    /\ ~MayRetry
    /\ Goto("idle")
    /\ UNCHANGED <<chain, trouble>>

EstimateGas ==
    /\ pc = "estimate"
    /\ MayRetry
    /\ \/ call.action \in due /\ Goto("submit") /\ UNCHANGED trouble
       \/ call.action \in Benign \ due /\ Goto("idle") /\ UNCHANGED trouble
       \/ call.action \notin Benign \union due /\ Retries /\ UNCHANGED trouble
       \/ Disturbs /\ Retries
    /\ UNCHANGED chain

ThisTransaction == [action |-> call.action, nonce |-> call.nonce, fee |-> call.fee]

\* nonce too low, already known, or replacement underpriced
Conflict ==
    \/ call.nonce < NextToMine
    \/ \E t \in pool : t.nonce = call.nonce /\ t.fee >= call.fee

Accepted ==
    /\ ~Conflict
    /\ sent' = sent \union {ThisTransaction}
    /\ pool' = {t \in pool : t.nonce # call.nonce} \union {ThisTransaction}
    /\ UNCHANGED <<due, mined, arrivals>>

Bumped(c) == [c EXCEPT !.fee = @ + 1, !.attempts = @ + 1]

Submit ==
    /\ pc = "submit"
    /\ \/ Accepted /\ Goto("wait") /\ UNCHANGED trouble
       \/ Conflict /\ Goto("resync") /\ UNCHANGED <<chain, trouble>>
       \/ Disturbs /\ Retries /\ UNCHANGED chain
       \/ Disturbs /\ Retries /\ Accepted      \* the response is lost

\* mutant: the cached nonce is kept through a conflict
BumpOnly ==
    /\ pc = "resync"
    /\ \/ /\ call' = Bumped(call)
          /\ pc' = "estimate"
          /\ UNCHANGED <<cached, trouble>>
       \/ Disturbs /\ Throws
    /\ UNCHANGED chain

Resync ==
    /\ pc = "resync"
    /\ \/ /\ cached' = PendingNonce
          /\ call' = [Bumped(call) EXCEPT !.nonce = PendingNonce]
          /\ pc' = "estimate"
          /\ UNCHANGED trouble
       \/ Disturbs /\ Throws
    /\ UNCHANGED chain

\* the receipt of this transaction or of the one that took its nonce
Receipt ==
    /\ pc = "wait"
    /\ call.nonce < NextToMine
    /\ cached' = call.nonce + 1
    /\ pc' = "idle"
    /\ UNCHANGED <<chain, call, trouble>>

Timeout ==
    /\ pc = "wait"
    /\ \/ Disturbs
       \/ ~Holds(NextToMine) /\ call.nonce >= NextToMine /\ UNCHANGED trouble
    /\ call' = Bumped(call)
    /\ pc' = "estimate"
    /\ UNCHANGED <<chain, cached>>

Restart ==
    /\ Disturbs
    /\ Throws
    /\ UNCHANGED chain

SenderStep ==
    \/ Simulate \/ ReadNonce \/ GiveUp \/ EstimateGas \/ Submit \/ Resync
    \/ Receipt \/ Timeout

Next ==
    \/ \E a \in Actions :
         BecomesDue(a) \/ DoneByAnother(a) \/ ForeignTransaction(a) \/ Send(a)
    \/ \E t \in sent : Mine(t)
    \/ \E t \in pool : Evict(t)
    \/ SenderStep
    \/ Restart

Spec == Init /\ [][Next]_vars

\* the node's next transaction is mined, send() runs on, and every tick goes
\* through all the work that is due (all but cancellations, which it marks as handled)
FairSpec ==
    /\ Spec
    /\ WF_vars(\E t \in pool : Mine(t))
    /\ WF_vars(SenderStep)
    /\ \A a \in Actions : SF_vars(Send(a))

-----------------------------------------------------------------------------
(* Properties *)

\* No transaction is ever sent at a nonce above one that was never used, where
\* it would wait for ever: whatever was late, lost, replaced or forgotten.
NeverSkipsANonce ==
    \A t \in sent : \A n \in NextToMine .. t.nonce - 1 : \E u \in sent : u.nonce = n

\* An action that is due is eventually done, through any number of conflicts
\* with the sender's own stuck transactions, once disturbances end.
DueWorkIsDone == \A a \in Actions : a \in due ~> a \notin due
=============================================================================
