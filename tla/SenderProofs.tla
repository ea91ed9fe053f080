----------------------------- MODULE SenderProofs -----------------------------
(***************************************************************************)
(* The sender leaves no gap in its account's nonces, for any actions, any  *)
(* number of attempts and any disturbances.  A nonce is within reach when  *)
(* every one before it was mined or is carried by a transaction the node   *)
(* once accepted.  NeverSkipsANonce says it of every transaction; what     *)
(* makes that inductive is that the cached nonce and the nonce send()      *)
(* holds in its locals are within reach too, and that the node's pending   *)
(* nonce always is.                                                        *)
(***************************************************************************)
EXTENDS TxSender, Integers, FiniteSetTheorems, TLAPS

WithinReach(n) == \A k \in NextToMine .. n - 1 : \E u \in sent : u.nonce = k

Calls == [action : Actions, nonce : Nat, fee : Nat, attempts : Nat]

SenderTypes ==
    /\ mined \in Seq([action : Actions, ok : BOOLEAN])
    /\ sent \subseteq [action : Actions, nonce : Nat, fee : Nat]
    /\ pool \subseteq sent /\ IsFiniteSet(pool)
    /\ cached \in Nat \union {Unknown}
    /\ call \in Calls

Sending == {"estimate", "submit", "wait", "resync"}

NoncesInReach ==
    /\ \A n \in Nat : cached = n => WithinReach(n)
    /\ \A n \in Nat : pc \in Sending /\ call.nonce = n => WithinReach(n)

SenderInv == SenderTypes /\ NoncesInReach /\ NeverSkipsANonce

\* A downward closed set of c nonces from a first one is the c nonces from there on.
LEMMA PrefixIsInterval ==
    ASSUME NEW first \in Nat, NEW top \in Nat, NEW P \in SUBSET (first .. top),
           \A n \in P : first .. n \subseteq P
    PROVE  \E free \in Nat : /\ IsFiniteSet(P) /\ free = first + Cardinality(P)
                            /\ free \notin P
                            /\ \A k \in first .. free - 1 : k \in P
<1> DEFINE c == Cardinality(P)
<1>1. IsFiniteSet(P) /\ c \in Nat
  <2>1. first \in Int /\ top \in Int
    OBVIOUS
  <2>2. IsFiniteSet(first .. top)
    BY <2>1, FS_Interval
  <2>3. IsFiniteSet(P)
    BY <2>2, FS_Subset
  <2>4. QED
    BY <2>3, FS_CardinalityType
<1>2. first + c \notin P
  <2>1. SUFFICES ASSUME first + c \in P
                 PROVE  FALSE
    OBVIOUS
  <2>2. first .. first + c \subseteq P
    BY <2>1
  <2>3. Cardinality(first .. first + c) = c + 1
    <3>1. PICK last \in Int : last = first + c
      BY <1>1
    <3>2. Cardinality(first .. last) = IF first > last THEN 0 ELSE last - first + 1
      BY FS_Interval
    <3>3. QED
      BY <1>1, <3>1, <3>2
  <2>4. Cardinality(first .. first + c) <= c
    BY <1>1, <2>2, FS_Subset
  <2>5. QED
    BY <1>1, <2>3, <2>4
<1>3. ASSUME NEW k \in first .. first + c - 1, k \notin P
      PROVE  FALSE
  <2>1. P \subseteq first .. k - 1
    <3>1. ASSUME NEW n \in P
          PROVE  n \in first .. k - 1
      <4>1. n \in Nat /\ n >= first /\ k \in Nat
        BY <3>1
      <4>2. ~(k <= n)
        BY <1>3, <3>1, <4>1
      <4>3. QED
        BY <4>1, <4>2
    <3>2. QED
      BY <3>1
  <2>2. k \in Nat /\ first <= k /\ k <= first + c - 1
    BY <1>1
  <2>3. IsFiniteSet(first .. k - 1) /\ Cardinality(first .. k - 1) = k - first
    <3>1. first \in Int /\ k - 1 \in Int
      BY <2>2
    <3>2. /\ IsFiniteSet(first .. k - 1)
          /\ Cardinality(first .. k - 1) = IF first > k - 1 THEN 0 ELSE k - 1 - first + 1
      BY <3>1, FS_Interval
    <3>3. QED
      BY <2>2, <3>2
  <2>4. c <= k - first
    BY <2>1, <2>3, FS_Subset
  <2>5. QED
    BY <1>1, <2>2, <2>4
<1>4. QED
  BY <1>1, <1>2, <1>3

\* The node's pending nonce: some nonce is free, and none before the first free one is.
LEMMA PendingNonceInReach ==
    ASSUME SenderTypes
    PROVE  PendingNonce \in Nat /\ WithinReach(PendingNonce)
<1> DEFINE next == NextToMine
           top == next + Cardinality(pool)
           P == {n \in next .. top : \A k \in next .. n : Holds(k)}
<1>1. next \in Nat /\ IsFiniteSet(pool) /\ Cardinality(pool) \in Nat /\ top \in Nat
  <2>1. next \in Nat /\ IsFiniteSet(pool)
    BY DEF SenderTypes, NextToMine
  <2>2. QED
    BY <2>1, FS_CardinalityType
<1>2. PICK first \in Nat : /\ IsFiniteSet(P) /\ first = next + Cardinality(P)
                           /\ first \notin P
                           /\ \A k \in next .. first - 1 : k \in P
  <2>1. P \in SUBSET (next .. top)
    OBVIOUS
  <2>2. \A n \in P : next .. n \subseteq P
    BY <1>1
  <2> HIDE DEF next, top, P
  <2>3. QED
    BY <1>1, <2>1, <2>2, PrefixIsInterval
<1>3. Cardinality(P) <= Cardinality(pool)
  <2> DEFINE holder == [n \in P |-> CHOOSE t \in pool : t.nonce = n]
  <2>1. ASSUME NEW n \in P
        PROVE  holder[n] \in pool /\ holder[n].nonce = n
    <3>1. Holds(n)
      BY <1>1
    <3>2. QED
      BY <3>1 DEF Holds
  <2>2. holder \in Injection(P, pool)
    <3>1. holder \in [P -> pool]
      BY <2>1
    <3>2. \A a, b \in P : holder[a] = holder[b] => a = b
      BY <2>1
    <3> HIDE DEF holder, P
    <3>3. QED
      BY <3>1, <3>2 DEF Injection, IsInjective
  <2> HIDE DEF holder, P
  <2>3. QED
    BY <1>1, <2>2, FS_Injection
<1>4. first \in next .. top
  <2>1. Cardinality(P) \in Nat
    BY <1>2, FS_CardinalityType
  <2> HIDE DEF P
  <2>2. QED
    BY <1>1, <1>2, <1>3, <2>1
<1>5. \A k \in next .. first - 1 : Holds(k)
  BY <1>1, <1>2
<1>6. ~Holds(first)
  <2>1. PICK k \in next .. first : ~Holds(k)
    BY <1>2, <1>4
  <2>2. k = first
    BY <1>1, <1>4, <1>5, <2>1
  <2>3. QED
    BY <2>1, <2>2
<1>7. /\ PendingNonce \in next .. top
      /\ \A k \in next .. PendingNonce - 1 : Holds(k)
  BY <1>4, <1>5, <1>6 DEF PendingNonce
<1>8. QED
  BY <1>1, <1>7 DEF SenderTypes, WithinReach, Holds

\* Nonces come within reach and stay there: more is sent and more is mined.  So a step
\* keeps the invariant if what it sends, caches or keeps was within reach before it.
LEMMA ReachStep ==
    ASSUME SenderInv, SenderTypes', sent \subseteq sent', Len(mined') >= Len(mined),
           \A t \in sent' \ sent : WithinReach(t.nonce),
           \A n \in Nat : cached' = n => WithinReach(n),
           \A n \in Nat : pc' \in Sending /\ call'.nonce = n => WithinReach(n)
    PROVE  SenderInv'
<1>1. Len(mined) \in Nat /\ Len(mined') \in Nat
  BY DEF SenderInv, SenderTypes
<1>2. ASSUME NEW n \in Nat, WithinReach(n)
      PROVE  WithinReach(n)'
  BY <1>1, <1>2 DEF WithinReach, NextToMine
<1>3. NoncesInReach'
  BY <1>2 DEF NoncesInReach
<1>4. NeverSkipsANonce'
  <2>1. ASSUME NEW t \in sent'
        PROVE  t.nonce \in Nat /\ WithinReach(t.nonce)
    <3>1. t.nonce \in Nat
      BY DEF SenderTypes
    <3>2. t \in sent => WithinReach(t.nonce)
      BY DEF SenderInv, NeverSkipsANonce, WithinReach
    <3>3. QED
      BY <3>1, <3>2
  <2>2. ASSUME NEW t \in sent'
        PROVE  WithinReach(t.nonce)'
    BY <1>2, <2>1, <2>2
  <2>3. QED
    BY <2>2 DEF NeverSkipsANonce, WithinReach
<1>5. QED
  BY <1>3, <1>4 DEF SenderInv

\* The chain mines, the node forgets, others call: the sender's variables stay.
LEMMA ChainStep ==
    ASSUME SenderInv, UNCHANGED <<cached, pc, call>>,
           \/ \E a \in Actions : BecomesDue(a) \/ DoneByAnother(a) \/ ForeignTransaction(a)
           \/ \E t \in sent : Mine(t)
           \/ \E t \in pool : Evict(t)
    PROVE  SenderInv'
<1>1. /\ \A n \in Nat : cached' = n => WithinReach(n)
      /\ \A n \in Nat : pc' \in Sending /\ call'.nonce = n => WithinReach(n)
  BY DEF SenderInv, NoncesInReach
<1>2. CASE \E a \in Actions : BecomesDue(a) \/ DoneByAnother(a)
  <2>1. UNCHANGED <<mined, sent, pool>>
    BY <1>2 DEF BecomesDue, DoneByAnother
  <2>2. SenderTypes' /\ Len(mined') >= Len(mined)
    BY <2>1 DEF SenderInv, SenderTypes
  <2>3. QED
    BY <1>1, <2>1, <2>2, ReachStep
<1>3. ASSUME NEW a \in Actions, ForeignTransaction(a)
      PROVE  SenderInv'
  <2> DEFINE t == [action |-> a, nonce |-> PendingNonce, fee |-> 0]
  <2>1. PendingNonce \in Nat /\ WithinReach(PendingNonce)
    BY PendingNonceInReach DEF SenderInv
  <2>2. UNCHANGED mined /\ sent' = sent \union {t} /\ pool' = pool \union {t}
    BY <1>3 DEF ForeignTransaction
  <2>3. IsFiniteSet(pool')
    BY <2>2, FS_AddElement DEF SenderInv, SenderTypes
  <2>4. SenderTypes' /\ Len(mined') >= Len(mined)
    BY <2>1, <2>2, <2>3 DEF SenderInv, SenderTypes
  <2>5. QED
    BY <1>1, <2>1, <2>2, <2>4, ReachStep
<1>4. ASSUME NEW t \in sent, Mine(t)
      PROVE  SenderInv'
  <2> DEFINE entry == [action |-> t.action, ok |-> t.action \in due]
  <2>1. entry \in [action : Actions, ok : BOOLEAN]
    <3>1. t.action \in Actions
      BY DEF SenderInv, SenderTypes
    <3>2. CASE t.action \in due
      <4>1. entry = [action |-> t.action, ok |-> TRUE]
        BY <3>2, Zenon
      <4>2. QED
        BY <3>1, <4>1
    <3>3. CASE t.action \notin due
      <4>1. (t.action \in due) = FALSE
        BY <3>3
      <4>2. entry = [action |-> t.action, ok |-> FALSE]
        BY <4>1, Zenon
      <4>3. QED
        BY <3>1, <4>2
    <3>4. QED
      BY <3>2, <3>3
  <2>2. mined' = Append(mined, entry) /\ UNCHANGED sent /\ pool' \subseteq pool
    BY <1>4 DEF Mine
  <2> HIDE DEF entry
  <2>3. mined' \in Seq([action : Actions, ok : BOOLEAN]) /\ Len(mined') >= Len(mined)
    BY <2>1, <2>2 DEF SenderInv, SenderTypes
  <2>4. IsFiniteSet(pool')
    BY <2>2, FS_Subset DEF SenderInv, SenderTypes
  <2>5. SenderTypes'
    BY <2>2, <2>3, <2>4 DEF SenderInv, SenderTypes
  <2>6. QED
    BY <1>1, <2>2, <2>3, <2>5, ReachStep
<1>5. ASSUME NEW t \in pool, Evict(t)
      PROVE  SenderInv'
  <2>1. UNCHANGED <<mined, sent>> /\ pool' \subseteq pool
    BY <1>5 DEF Evict
  <2>2. IsFiniteSet(pool')
    BY <2>1, FS_Subset DEF SenderInv, SenderTypes
  <2>3. SenderTypes' /\ Len(mined') >= Len(mined)
    BY <2>1, <2>2 DEF SenderInv, SenderTypes
  <2>4. QED
    BY <1>1, <2>1, <2>3, ReachStep
<1>6. QED
  BY <1>2, <1>3, <1>4, <1>5

\* The sender moves on without sending: what it caches and keeps is within reach.
LEMMA QuietStep ==
    ASSUME SenderInv, UNCHANGED <<mined, sent, pool>>,
           cached' \in Nat \union {Unknown},
           call' \in Calls,
           \A n \in Nat : cached' = n => WithinReach(n),
           \A n \in Nat : pc' \in Sending /\ call'.nonce = n => WithinReach(n)
    PROVE  SenderInv'
<1>1. SenderTypes' /\ Len(mined') >= Len(mined)
  BY DEF SenderInv, SenderTypes
<1>2. QED
  BY <1>1, ReachStep

\* What send() puts into its locals keeps their type.
LEMMA CallType ==
    ASSUME NEW c \in Calls, NEW n \in Nat
    PROVE  /\ Bumped(c) \in Calls /\ Bumped(c).nonce = c.nonce
           /\ [Bumped(c) EXCEPT !.nonce = n] \in Calls
           /\ [Bumped(c) EXCEPT !.nonce = n].nonce = n
           /\ [c EXCEPT !.nonce = n] \in Calls
           /\ [c EXCEPT !.nonce = n].nonce = n
           /\ [c EXCEPT !.attempts = @ + 1] \in Calls
           /\ [c EXCEPT !.attempts = @ + 1].nonce = c.nonce
<1>1. PICK f \in Nat : f = c.fee + 1
  BY DEF Calls
<1>2. PICK k \in Nat : k = c.attempts + 1
  BY DEF Calls
<1>3. Bumped(c) = [c EXCEPT !.fee = f, !.attempts = k]
  BY <1>1, <1>2 DEF Bumped
<1>4. [c EXCEPT !.attempts = @ + 1] = [c EXCEPT !.attempts = k]
  BY <1>2
<1>5. Bumped(c) \in Calls /\ Bumped(c).nonce = c.nonce
  BY <1>3 DEF Calls
<1>6. \A d \in Calls : [d EXCEPT !.nonce = n] \in Calls /\ [d EXCEPT !.nonce = n].nonce = n
  BY DEF Calls
<1>7. [c EXCEPT !.attempts = k] \in Calls /\ [c EXCEPT !.attempts = k].nonce = c.nonce
  BY DEF Calls
<1>8. QED
  BY <1>4, <1>5, <1>6, <1>7

\* Between the awaits of send() its nonce stays what it is.
LEMMA NonceKept ==
    ASSUME SenderInv, UNCHANGED <<mined, sent, pool>>, cached' \in {cached, Unknown},
           call' \in Calls,
           pc' \in Sending => pc \in Sending /\ call'.nonce = call.nonce
    PROVE  SenderInv'
<1>1. cached' \in Nat \union {Unknown}
  BY DEF SenderInv, SenderTypes
<1>2. \A n \in Nat : cached' = n => WithinReach(n)
  BY SenderAssumption DEF SenderInv, NoncesInReach
<1>3. \A n \in Nat : pc' \in Sending /\ call'.nonce = n => WithinReach(n)
  BY DEF SenderInv, NoncesInReach
<1>4. QED
  BY <1>1, <1>2, <1>3, QuietStep

\* An exception, a restart and a retry of the same nonce.
LEMMA NonceDropped ==
    ASSUME SenderInv, UNCHANGED <<mined, sent, pool>>,
           Throws \/ (pc \in Sending /\ Retries)
    PROVE  SenderInv'
<1>1. call \in Calls
  BY DEF SenderInv, SenderTypes
<1>2. CASE Throws
  BY <1>1, <1>2, NonceKept DEF Throws, Sending
<1>3. CASE pc \in Sending /\ Retries
  BY <1>1, <1>3, CallType, NonceKept DEF Retries
<1>4. QED
  BY <1>2, <1>3

\* The node takes a transaction at a nonce within reach.
LEMMA SubmitStep ==
    ASSUME SenderInv, Submit
    PROVE  SenderInv'
<1>1. /\ pc = "submit" /\ pc \in Sending
      /\ call \in Calls /\ call.action \in Actions /\ call.nonce \in Nat /\ call.fee \in Nat
  BY DEF Submit, Sending, SenderInv, SenderTypes, Calls
<1>2. CASE UNCHANGED chain /\ (Goto("resync") \/ Retries)
  <2>1. UNCHANGED <<mined, sent, pool>>
    BY <1>2 DEF chain
  <2>2. CASE Goto("resync")
    BY <1>1, <2>1, <2>2, NonceKept DEF Goto, Sending
  <2>3. CASE Retries
    BY <1>1, <2>1, <2>3, NonceDropped
  <2>4. QED
    BY <1>2, <2>2, <2>3
<1>3. CASE Accepted /\ (Goto("wait") \/ Retries)
  <2> DEFINE t == ThisTransaction
  <2>1. /\ UNCHANGED mined /\ sent' = sent \union {t}
        /\ pool' = {u \in pool : u.nonce # call.nonce} \union {t}
    BY <1>3 DEF Accepted
  <2>2. t \in [action : Actions, nonce : Nat, fee : Nat] /\ t.nonce = call.nonce
    BY <1>1 DEF ThisTransaction
  <2>3. WithinReach(call.nonce)
    BY <1>1 DEF SenderInv, NoncesInReach
  <2> HIDE DEF t
  <2>4. IsFiniteSet(pool')
    <3>1. IsFiniteSet({u \in pool : u.nonce # call.nonce})
      BY FS_Subset DEF SenderInv, SenderTypes
    <3>2. QED
      BY <2>1, <3>1, FS_AddElement
  <2>5. /\ call' \in Calls /\ call'.nonce = call.nonce
        /\ cached' \in {cached, Unknown}
    BY <1>1, <1>3, CallType DEF Goto, Retries
  <2>6. SenderTypes' /\ Len(mined') >= Len(mined)
    BY <2>1, <2>2, <2>4, <2>5 DEF SenderInv, SenderTypes
  <2>7. \A n \in Nat : cached' = n => WithinReach(n)
    BY <2>5, SenderAssumption DEF SenderInv, NoncesInReach
  <2>8. QED
    BY <2>1, <2>2, <2>3, <2>5, <2>6, <2>7, ReachStep
<1>4. QED
  BY <1>2, <1>3 DEF Submit

\* send() reads a nonce of the node, or a receipt tells it one.
LEMMA NonceReadStep ==
    ASSUME SenderInv, ReadNonce \/ Resync \/ Receipt
    PROVE  SenderInv'
<1>1. UNCHANGED <<mined, sent, pool>>
  BY DEF ReadNonce, Resync, Receipt, chain
<1>2. call \in Calls /\ call.nonce \in Nat /\ cached \in Nat \union {Unknown}
  BY DEF SenderInv, SenderTypes, Calls
<1>3. PendingNonce \in Nat /\ WithinReach(PendingNonce)
  BY PendingNonceInReach DEF SenderInv
<1>4. CASE Throws
  BY <1>1, <1>4, NonceDropped
<1>5. ASSUME ReadNonce, ~Throws
      PROVE  SenderInv'
  <2>1. /\ cached' = NextNonce /\ call' = [call EXCEPT !.nonce = NextNonce]
        /\ pc' = "estimate"
    BY <1>5 DEF ReadNonce
  <2>2. NextNonce \in Nat /\ WithinReach(NextNonce)
    BY <1>2, <1>3 DEF NextNonce, SenderInv, NoncesInReach
  <2>3. call' \in Calls /\ call'.nonce = NextNonce
    BY <1>2, <2>1, <2>2, CallType
  <2>4. QED
    BY <1>1, <2>1, <2>2, <2>3, QuietStep
<1>6. ASSUME Resync, ~Throws
      PROVE  SenderInv'
  <2>1. /\ cached' = PendingNonce
        /\ call' = [Bumped(call) EXCEPT !.nonce = PendingNonce]
    BY <1>6 DEF Resync
  <2>2. call' \in Calls /\ call'.nonce = PendingNonce
    BY <1>2, <1>3, <2>1, CallType
  <2>3. QED
    BY <1>1, <1>3, <2>1, <2>2, QuietStep
<1>7. CASE Receipt
  <2>1. /\ call.nonce < NextToMine /\ cached' = call.nonce + 1
        /\ pc' = "idle" /\ UNCHANGED call
    BY <1>7 DEF Receipt
  <2>2. NextToMine \in Nat
    BY DEF SenderInv, SenderTypes, NextToMine
  <2>3. WithinReach(call.nonce + 1)
    BY <1>2, <2>1, <2>2 DEF WithinReach
  <2>4. QED
    BY <1>1, <1>2, <2>1, <2>3, QuietStep DEF Sending
<1>8. QED
  BY <1>4, <1>5, <1>6, <1>7

\* Every other step of the sender keeps its nonce or drops it.
LEMMA OtherSenderStep ==
    ASSUME SenderInv,
           \/ \E a \in Actions : Send(a)
           \/ Simulate \/ GiveUp \/ EstimateGas \/ Timeout \/ Restart
    PROVE  SenderInv'
<1>1. UNCHANGED <<mined, sent, pool>>
  BY DEF Send, Simulate, GiveUp, EstimateGas, Timeout, Restart, chain
<1>2. call \in Calls
  BY DEF SenderInv, SenderTypes
<1>3. ASSUME NEW a \in Actions, Send(a)
      PROVE  SenderInv'
  <2>1. call' \in Calls /\ pc' = "simulate" /\ UNCHANGED cached
    BY <1>3 DEF Send, NewCall, Calls
  <2>2. QED
    BY <1>1, <2>1, NonceKept DEF Sending
<1>4. CASE Throws \/ (pc \in Sending /\ Retries)
  BY <1>1, <1>4, NonceDropped
<1>5. CASE Goto("nonce") \/ Goto("idle") \/ (pc \in Sending /\ Goto("submit"))
  BY <1>1, <1>2, <1>5, NonceKept DEF Goto, Sending
<1>6. CASE Timeout
  BY <1>1, <1>2, <1>6, CallType, NonceKept DEF Timeout, Sending
<1>7. QED
  BY <1>3, <1>4, <1>5, <1>6 DEF Simulate, GiveUp, EstimateGas, Restart, Sending

LEMMA SenderInvInductive ==
    ASSUME SenderInv, [Next]_vars
    PROVE  SenderInv'
<1>1. CASE UNCHANGED vars
  <2>1. call \in Calls /\ UNCHANGED <<mined, sent, pool, cached, call, pc>>
    BY <1>1 DEF vars, SenderInv, SenderTypes
  <2>2. QED
    BY <2>1, NonceKept
<1>2. CASE \/ \E a \in Actions : BecomesDue(a) \/ DoneByAnother(a) \/ ForeignTransaction(a)
           \/ \E t \in sent : Mine(t)
           \/ \E t \in pool : Evict(t)
  <2>1. UNCHANGED <<cached, pc, call>>
    BY <1>2 DEF BecomesDue, DoneByAnother, ForeignTransaction, Mine, Evict
  <2>2. QED
    BY <1>2, <2>1, ChainStep
<1>3. CASE Submit
  BY <1>3, SubmitStep
<1>4. CASE ReadNonce \/ Resync \/ Receipt
  BY <1>4, NonceReadStep
<1>5. CASE \/ \E a \in Actions : Send(a)
           \/ Simulate \/ GiveUp \/ EstimateGas \/ Timeout \/ Restart
  BY <1>5, OtherSenderStep
<1>6. QED
  BY <1>1, <1>2, <1>3, <1>4, <1>5 DEF Next, SenderStep

\* Whatever is late, lost, replaced, forgotten or sent by somebody else, and for any
\* number of attempts, send() never takes a nonce that leaves an unused one below it.
THEOREM NoncesHaveNoGaps == Spec => []NeverSkipsANonce
<1>1. Init => SenderInv
  <2>1. SUFFICES ASSUME Init
                 PROVE  SenderInv
    OBVIOUS
  <2>2. call \in Calls
    BY <2>1 DEF Init, NewCall, Calls
  <2>3. IsFiniteSet({})
    BY FS_EmptySet
  <2>4. SenderTypes /\ NeverSkipsANonce
    BY <2>1, <2>2, <2>3 DEF Init, SenderTypes, NeverSkipsANonce
  <2>5. NoncesInReach
    BY <2>1, SenderAssumption DEF Init, NoncesInReach, Sending
  <2>6. QED
    BY <2>4, <2>5 DEF SenderInv
<1>2. SenderInv /\ [Next]_vars => SenderInv'
  BY SenderInvInductive
<1>3. SenderInv => NeverSkipsANonce
  BY DEF SenderInv
<1>4. QED
  BY <1>1, <1>2, <1>3, PTL DEF Spec
===============================================================================
