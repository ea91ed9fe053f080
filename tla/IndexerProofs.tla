---------------------------- MODULE IndexerProofs ----------------------------
(***************************************************************************)
(* Theorems about the indexer, for every set of blocks and chains, every   *)
(* number of confirmations, batch size and number of faults. Three         *)
(* invariants follow one another: every row is traced to a raw log         *)
(* (RowsInv), the tables keyed by log identity are those of a chain        *)
(* (Certified), and, as long as the chain only grows, so are the tables    *)
(* rolled up from them (Straight). The tables of a chain are built block   *)
(* by block and log by log, in the order of the model, and shown to be     *)
(* those the properties name. From them follows what the read API offers   *)
(* a wallet to collect.                                                    *)
(***************************************************************************)
EXTENDS ReadApi, WellFoundedInduction, FiniteSetTheorems, TLAPS

-----------------------------------------------------------------------------
(* Induction, and rows log by log *)

\* A set that has zero and the successor of every number in it has all of them.
LEMMA NatInduct ==
    ASSUME NEW S, 0 \in S, \A n \in Nat : n \in S => n + 1 \in S
    PROVE  Nat \subseteq S
<1> DEFINE Bad == Nat \ S
           R == {ss \in Nat \X Nat : ss[1] < ss[2]}
<1> SUFFICES ASSUME Bad # {} PROVE FALSE
  OBVIOUS
<1>1. IsWellFoundedOn(R, Nat)
  BY NatLessThanWellFounded, Zenon DEF OpToRel
<1>3. \E m \in Bad : \A k \in Bad : ~(<<k, m>> \in R)
  <2>1. Bad \subseteq Nat
    OBVIOUS
  <2> HIDE DEF R, Bad
  <2>2. QED
    BY <1>1, <2>1, WFMin, Zenon
<1>4. PICK m \in Bad : \A k \in Bad : ~(<<k, m>> \in R)
  BY <1>3
<1>5. m \in Nat /\ m # 0 /\ m - 1 \in Nat /\ m - 1 < m /\ (m - 1) + 1 = m
  OBVIOUS
<1>6. <<m - 1, m>> \in R
  BY <1>5
<1>7. m - 1 \in S
  BY <1>4, <1>5, <1>6
<1>8. QED
  BY <1>5, <1>7

\* f[n] is what the first n logs of a block make of the tables t.
LogByLog(f, t, logs, b, h) ==
    f = [n \in 0 .. Len(logs) |-> IF n = 0 THEN t ELSE ApplyLog(f[n - 1], logs[n], b, h)]

\* Applying a block is applying its logs one after the other.
LEMMA LogsApplied ==
    ASSUME NEW t, NEW logs, Len(logs) \in Nat, NEW b, NEW h
    PROVE  \E f : LogByLog(f, t, logs, b, h) /\ ApplyBlock(t, logs, b, h) = f[Len(logs)]
<1> DEFINE Good(g, m) == g = [n \in 0 .. m |->
                                IF n = 0 THEN t ELSE ApplyLog(g[n - 1], logs[n], b, h)]
           S == {m \in Nat : \E g : Good(g, m)}
<1>1. 0 \in S
  <2>1. Good([n \in 0 .. 0 |-> t], 0)
    OBVIOUS
  <2>2. QED
    BY <2>1
<1>2. ASSUME NEW m \in Nat, m \in S
      PROVE  m + 1 \in S
  <2>1. PICK g : Good(g, m)
    BY <1>2
  <2> DEFINE k == [n \in 0 .. m + 1 |->
                     IF n <= m THEN g[n] ELSE ApplyLog(g[m], logs[m + 1], b, h)]
  <2>2. ASSUME NEW n \in 0 .. m + 1
        PROVE  k[n] = IF n = 0 THEN t ELSE ApplyLog(k[n - 1], logs[n], b, h)
    <3>1. CASE n = 0
      BY <2>1, <3>1
    <3>2. CASE n # 0 /\ n <= m
      BY <2>1, <3>2
    <3>3. CASE n = m + 1
      BY <3>3
    <3>4. QED
      BY <3>1, <3>2, <3>3
  <2>3. Good(k, m + 1)
    BY <2>2
  <2> HIDE DEF k
  <2>4. QED
    BY <2>3
<1>3. PICK g : Good(g, Len(logs))
  BY <1>1, <1>2, NatInduct
<1> DEFINE f == CHOOSE f : Good(f, Len(logs))
<1>4. Good(f, Len(logs))
  BY <1>3
<1>5. ApplyBlock(t, logs, b, h) = f[Len(logs)]
  BY DEF ApplyBlock
<1>6. LogByLog(f, t, logs, b, h)
  BY <1>4 DEF LogByLog
<1> HIDE DEF f
<1>7. QED
  BY <1>5, <1>6

-----------------------------------------------------------------------------
(* What one log does to the tables keyed by log identity *)

\* the tables of ReadModel
Names == {"events", "bets", "claims", "executions", "burnEvents", "burns",
          "observations", "rounds", "users", "market", "state"}

\* the tables keyed by log identity, which a rollback cuts by block
Kept == {"events", "bets", "claims", "executions", "burnEvents"}

\* whether log l writes a row of table x
Adds(x, l) ==
    CASE x = "events"     -> TRUE
      [] x = "bets"       -> l.name \in {"BetBull", "BetBear"}
      [] x = "claims"     -> l.name \in {"Claim", "Refund"}
      [] x = "executions" -> l.name \in {"RoundLocked", "RoundSettled", "RoundCancelled"}
      [] x = "burnEvents" -> \/ l.name \in {"BurnSwept", "FeeUpdated"}
                             \/ l.name = "RoundSettled" /\ l.amount > 0

ExecutionRow(l, b) ==
    [tx |-> l.tx, epoch |-> l.epoch, block |-> b,
     action |-> CASE l.name = "RoundLocked"  -> "lock"
                  [] l.name = "RoundSettled" -> "settle"
                  [] OTHER                   -> "cancel"]

BurnEventRow(l, b) ==
    [tx |-> l.tx, index |-> l.index, amount |-> l.amount, block |-> b,
     kind |-> CASE l.name = "RoundSettled" -> "FEE_ACCRUED"
                [] l.name = "BurnSwept"    -> "SWEPT_TO_BURNER"
                [] OTHER                   -> "CONFIG"]

EventRow(l, b, h) ==
    [block |-> b, tx |-> l.tx, index |-> l.index, name |-> l.name, hash |-> h]

\* the row that log l of the block b, with hash h, writes in table x
RowOf(x, l, b, h) ==
    CASE x = "events"     -> EventRow(l, b, h)
      [] x = "bets"       -> BetRow(l, b)
      [] x = "claims"     -> ClaimRow(l, b)
      [] x = "executions" -> ExecutionRow(l, b)
      [] x = "burnEvents" -> BurnEventRow(l, b)

\* the primary key of row r in table x
KeyOf(x, r) ==
    CASE x = "events"     -> EventKey(r)
      [] x = "bets"       -> BetKey(r)
      [] x = "claims"     -> ClaimKey(r)
      [] x = "executions" -> ExecutionKey(r)
      [] x = "burnEvents" -> LogKey(r)

\* what writing a row does to a table: insert it if its key is new, or overwrite
Changed(x, rows, row) ==
    CASE x \in {"events", "executions", "burnEvents"} ->
            IF \E r \in rows : KeyOf(x, r) = KeyOf(x, row) THEN rows ELSE rows \union {row}
      [] x = "bets"   -> {r \in rows : BetKey(r) # BetKey(row)} \union {row}
      [] x = "claims" ->
            LET before == {c \in rows : ClaimKey(c) = ClaimKey(row)}
            IN  (rows \ before)
                    \union {IF before = {} THEN row
                            ELSE [row EXCEPT !.index = (CHOOSE c \in before : TRUE).index]}

\* What ApplyLog does to each of those tables.
LEMMA LogChanges ==
    ASSUME NEW t, DOMAIN t = Names, NEW l, NEW b, NEW h
    PROVE  LET u == ApplyLog(t, l, b, h) IN
           /\ DOMAIN u = Names
           /\ u.state = t.state /\ u.market = t.market
           /\ \A x \in Kept :
                 u[x] = IF Adds(x, l) THEN Changed(x, t[x], RowOf(x, l, b, h)) ELSE t[x]
<1> DEFINE u == ApplyEvent(t, l, b)
           Same(x) == u[x] = t[x] /\ ~Adds(x, l)
           Change(x) == u[x] = Changed(x, t[x], RowOf(x, l, b, h)) /\ Adds(x, l)
           Rest == /\ DOMAIN u = Names
                   /\ u.state = t.state /\ u.market = t.market /\ u.events = t.events
           Either(x) == Same(x) \/ Change(x)
           Goal == /\ Rest
                   /\ Either("bets") /\ Either("claims") /\ Either("executions")
                   /\ Either("burnEvents")
<1>1. Goal
  <2>1. CASE l.name = "RoundStarted"
    <3>1. Rest /\ Same("bets") /\ Same("claims") /\ Same("executions") /\ Same("burnEvents")
      BY <2>1 DEF ApplyEvent, RoundStarted, Names, Adds
    <3>2. QED
      BY <3>1
  <2>2. CASE l.name = "RoundLocked"
    <3>1. Rest /\ Same("bets") /\ Same("claims") /\ Same("burnEvents")
      BY <2>2 DEF ApplyEvent, RoundLocked, Names, Adds
    <3>2. Change("executions")
      BY <2>2 DEF ApplyEvent, RoundLocked, Names, RecordExecution, InsertNew,
         Changed, RowOf, ExecutionRow, KeyOf, Adds
    <3>3. QED
      BY <3>1, <3>2
  <2>3. CASE l.name = "RoundSettled" /\ l.amount > 0
    <3>1. Rest /\ Same("bets") /\ Same("claims")
      BY <2>3 DEF ApplyEvent, RoundSettled, Names, Adds
    <3>2. Change("executions")
      BY <2>3 DEF ApplyEvent, RoundSettled, Names, RecordExecution,
         InsertNew, Changed, RowOf, ExecutionRow, KeyOf, Adds
    <3>3. Change("burnEvents")
      BY <2>3 DEF ApplyEvent, RoundSettled, Names, WithBurnEvent, InsertNew,
         Changed, RowOf, BurnEventRow, KeyOf, Adds
    <3>4. QED
      BY <3>1, <3>2, <3>3
  <2>4. CASE l.name = "RoundSettled" /\ ~(l.amount > 0)
    <3>1. Rest /\ Same("bets") /\ Same("claims") /\ Same("burnEvents")
      BY <2>4 DEF ApplyEvent, RoundSettled, Names, Adds
    <3>2. Change("executions")
      BY <2>4 DEF ApplyEvent, RoundSettled, Names, RecordExecution,
         InsertNew, Changed, RowOf, ExecutionRow, KeyOf, Adds
    <3>3. QED
      BY <3>1, <3>2
  <2>5. CASE l.name = "RoundCancelled"
    <3>1. Rest /\ Same("bets") /\ Same("claims") /\ Same("burnEvents")
      BY <2>5 DEF ApplyEvent, RoundCancelled, Names, Adds
    <3>2. Change("executions")
      BY <2>5 DEF ApplyEvent, RoundCancelled, Names, RecordExecution,
         InsertNew, Changed, RowOf, ExecutionRow, KeyOf, Adds
    <3>3. QED
      BY <3>1, <3>2
  <2>6. CASE l.name \in {"BetBull", "BetBear"}
    <3>1. Rest /\ Same("claims") /\ Same("executions") /\ Same("burnEvents")
      BY <2>6 DEF ApplyEvent, Bet, Names, Adds
    <3>2. Change("bets")
      BY <2>6 DEF ApplyEvent, Bet, Names, Upsert, Changed, RowOf, Adds
    <3>3. QED
      BY <3>1, <3>2
  <2>7. CASE l.name \in {"Claim", "Refund"}
    <3>1. Rest /\ Same("bets") /\ Same("executions") /\ Same("burnEvents")
      BY <2>7 DEF ApplyEvent, Collected, Names, Adds
    <3>2. Change("claims")
      BY <2>7 DEF ApplyEvent, Collected, Names, Changed, RowOf, Adds
    <3>3. QED
      BY <3>1, <3>2
  <2>8. CASE l.name = "BurnSwept"
    <3>1. Rest /\ Same("bets") /\ Same("claims") /\ Same("executions")
      BY <2>8 DEF ApplyEvent, WithBurnEvent, Names, Adds
    <3>2. Change("burnEvents")
      BY <2>8 DEF ApplyEvent, WithBurnEvent, Names, InsertNew,
         Changed, RowOf, BurnEventRow, KeyOf, Adds
    <3>3. QED
      BY <3>1, <3>2
  <2>9. CASE l.name = "BoughtAndBurned"
    <3>1. Rest /\ Same("bets") /\ Same("claims") /\ Same("executions") /\ Same("burnEvents")
      BY <2>9 DEF ApplyEvent, Burned, Names, Adds
    <3>2. QED
      BY <3>1
  <2>10. CASE l.name = "FeeUpdated"
    <3>1. Rest /\ Same("bets") /\ Same("claims") /\ Same("executions")
      BY <2>10 DEF ApplyEvent, WithBurnEvent, Names, Adds
    <3>2. Change("burnEvents")
      BY <2>10 DEF ApplyEvent, WithBurnEvent, Names, InsertNew,
         Changed, RowOf, BurnEventRow, KeyOf, Adds
    <3>3. QED
      BY <3>1, <3>2
  <2>11. CASE l.name \notin {"RoundStarted", "RoundLocked", "RoundSettled", "RoundCancelled",
                             "BetBull", "BetBear", "Claim", "Refund", "BurnSwept",
                             "BoughtAndBurned", "FeeUpdated"}
    BY <2>11 DEF ApplyEvent, Names, Adds
  <2> HIDE DEF Goal
  <2>12. QED
    BY <2>1, <2>2, <2>3, <2>4, <2>5, <2>6, <2>7, <2>8, <2>9, <2>10, <2>11
<1> DEFINE w == ApplyLog(t, l, b, h)
<1>2. w = [u EXCEPT !.events = WithEvent(u.events, l, b, h)]
  BY DEF ApplyLog
<1> HIDE DEF u, w
<1>3. /\ DOMAIN w = Names
       /\ w.state = t.state /\ w.market = t.market
       /\ \A x \in Kept \ {"events"} : w[x] = u[x]
  BY <1>1, <1>2 DEF Names, Kept
<1>4. w.events = Changed("events", t.events, RowOf("events", l, b, h)) /\ Adds("events", l)
  BY <1>1, <1>2
     DEF Names, WithEvent, InsertNew, Changed, KeyOf, RowOf, EventRow, Adds
<1>5. ASSUME NEW x \in Kept
       PROVE  w[x] = IF Adds(x, l) THEN Changed(x, t[x], RowOf(x, l, b, h)) ELSE t[x]
  <2>1. CASE x = "events"
    BY <1>4, <2>1
  <2>2. CASE x # "events"
    <3>1. w[x] = u[x]
      BY <1>3, <2>2
    <3>2. Either(x)
      BY <1>1, <2>2 DEF Kept
    <3>3. QED
      BY <3>1, <3>2
  <2>3. QED
    BY <2>1, <2>2
<1>6. QED
  BY <1>3, <1>5 DEF w

-----------------------------------------------------------------------------
(* Prefixes of chains *)

\* The lesser of two integers.
LEMMA LeastOf ==
    ASSUME NEW m \in Int, NEW n \in Int
    PROVE  Min({m, n}) = IF m <= n THEN m ELSE n
<1> DEFINE k == IF m <= n THEN m ELSE n
<1>1. k \in {m, n} /\ \A y \in {m, n} : k <= y
  OBVIOUS
<1>2. ASSUME NEW x \in {m, n}, \A y \in {m, n} : x <= y
      PROVE  x = k
  BY <1>2
<1>3. QED
  BY <1>1, <1>2 DEF Min

\* A prefix of a sequence is a sequence, of the length asked for or its own.
LEMMA PrefixIs ==
    ASSUME NEW S, NEW c \in Seq(S), NEW n \in Int
    PROVE  /\ Prefix(c, n) \in Seq(S)
           /\ Len(Prefix(c, n)) = IF n < 0 THEN 0 ELSE IF n <= Len(c) THEN n ELSE Len(c)
           /\ \A i \in 1 .. Len(Prefix(c, n)) : Prefix(c, n)[i] = c[i]
<1>1. Len(c) \in Nat
  OBVIOUS
<1> DEFINE k == IF n <= Len(c) THEN n ELSE Len(c)
<1>2. Prefix(c, n) = SubSeq(c, 1, k)
  BY <1>1, LeastOf DEF Prefix
<1>3. QED
  BY <1>1, <1>2

\* A prefix as long as the sequence is the sequence.
LEMMA PrefixWhole ==
    ASSUME NEW S, NEW c \in Seq(S), NEW n \in Int, Len(c) <= n
    PROVE  Prefix(c, n) = c
<1>1. /\ Prefix(c, n) \in Seq(S)
      /\ Len(Prefix(c, n)) = Len(c)
      /\ \A i \in 1 .. Len(c) : Prefix(c, n)[i] = c[i]
  BY PrefixIs
<1>2. QED
  BY <1>1

\* A prefix of a prefix is the shorter prefix.
LEMMA PrefixAgain ==
    ASSUME NEW S, NEW c \in Seq(S), NEW m \in Int, NEW k \in Int, k <= m
    PROVE  Prefix(Prefix(c, m), k) = Prefix(c, k)
<1> DEFINE p == Prefix(c, m)
<1>1. /\ p \in Seq(S)
      /\ Len(p) = IF m < 0 THEN 0 ELSE IF m <= Len(c) THEN m ELSE Len(c)
      /\ \A i \in 1 .. Len(p) : p[i] = c[i]
  BY PrefixIs
<1>2. /\ Prefix(c, k) \in Seq(S)
      /\ Len(Prefix(c, k)) = IF k < 0 THEN 0 ELSE IF k <= Len(c) THEN k ELSE Len(c)
      /\ \A i \in 1 .. Len(Prefix(c, k)) : Prefix(c, k)[i] = c[i]
  BY PrefixIs
<1> HIDE DEF p
<1>3. /\ Prefix(p, k) \in Seq(S)
      /\ Len(Prefix(p, k)) = IF k < 0 THEN 0 ELSE IF k <= Len(p) THEN k ELSE Len(p)
      /\ \A i \in 1 .. Len(Prefix(p, k)) : Prefix(p, k)[i] = p[i]
  BY <1>1, PrefixIs
<1>4. Len(Prefix(p, k)) = Len(Prefix(c, k)) /\ Len(Prefix(p, k)) <= Len(p)
  BY <1>1, <1>2, <1>3
<1>5. \A i \in 1 .. Len(Prefix(c, k)) : Prefix(p, k)[i] = Prefix(c, k)[i]
  BY <1>1, <1>2, <1>3, <1>4
<1>6. Prefix(p, k) = Prefix(c, k)
  BY <1>2, <1>3, <1>4, <1>5
<1>7. QED
  BY <1>6 DEF p

\* Prefix and IsPrefix say the same.
LEMMA PrefixOfWhole ==
    ASSUME NEW S, NEW c \in Seq(S), NEW h \in Seq(S)
    PROVE  /\ IsPrefix(c, h) => Len(c) <= Len(h) /\ c = Prefix(h, Len(c))
           /\ \A n \in Int : IsPrefix(Prefix(h, n), h)
<1>1. ASSUME IsPrefix(c, h)
      PROVE  Len(c) <= Len(h) /\ c = Prefix(h, Len(c))
  <2>1. Len(c) <= Len(h) /\ SubSeq(c, 1, Len(c)) = SubSeq(h, 1, Len(c))
    BY <1>1 DEF IsPrefix
  <2>2. Prefix(h, Len(c)) = SubSeq(h, 1, Len(c))
    BY <2>1, LeastOf DEF Prefix
  <2>3. QED
    BY <2>1, <2>2
<1>2. ASSUME NEW n \in Int
      PROVE  IsPrefix(Prefix(h, n), h)
  <2> DEFINE p == Prefix(h, n)
  <2>1. /\ p \in Seq(S) /\ Len(p) <= Len(h)
        /\ \A i \in 1 .. Len(p) : p[i] = h[i]
    BY PrefixIs
  <2> HIDE DEF p
  <2>2. SubSeq(p, 1, Len(p)) = SubSeq(h, 1, Len(p))
    BY <2>1
  <2>3. IsPrefix(p, h)
    BY <2>1, <2>2 DEF IsPrefix
  <2>4. QED
    BY <2>3 DEF p
<1>3. QED
  BY <1>1, <1>2

\* the blocks there are
Blocks == DOMAIN Contents

\* c is a chain that came to be, or may
OnChain(c) == \E h \in Histories : \E n \in 0 .. Len(h) : c = Prefix(h, n)

\* What is on a chain is a sequence of blocks, a prefix of a history, and so are its prefixes.
LEMMA OnChainIs ==
    ASSUME NEW c, OnChain(c)
    PROVE  /\ c \in Seq(Blocks) /\ Len(c) \in Nat
           /\ \E h \in Histories : c = Prefix(h, Len(c)) /\ IsPrefix(c, h)
           /\ \A n \in Int : OnChain(Prefix(c, n))
<1>0. PICK h \in Histories : \E n \in 0 .. Len(h) : c = Prefix(h, n)
  BY DEF OnChain
<1>1. PICK n \in 0 .. Len(h) : c = Prefix(h, n)
  BY <1>0
<1>2. h \in Seq(Blocks)
  BY LogAssumption DEF Blocks
<1>3. c \in Seq(Blocks) /\ Len(c) = n
  BY <1>1, <1>2, PrefixIs
<1>4. IsPrefix(c, h)
  BY <1>1, <1>2, <1>3, PrefixOfWhole
<1>5. ASSUME NEW k \in Int
      PROVE  OnChain(Prefix(c, k))
  <2>1. CASE k < 0
    <3>1. Prefix(c, k) \in Seq(Blocks) /\ Len(Prefix(c, k)) = 0
      BY <1>3, <2>1, PrefixIs
    <3>2. Prefix(h, 0) \in Seq(Blocks) /\ Len(Prefix(h, 0)) = 0
      BY <1>2, PrefixIs
    <3>3. Prefix(c, k) = Prefix(h, 0)
      BY <3>1, <3>2
    <3>4. QED
      BY <1>2, <3>3 DEF OnChain
  <2>2. CASE k \in 0 .. n
    <3>1. Prefix(c, k) = Prefix(h, k)
      BY <1>1, <1>2, <2>2, PrefixAgain
    <3>2. QED
      BY <1>2, <2>2, <3>1 DEF OnChain
  <2>3. CASE k > n
    <3>1. Prefix(c, k) = c
      BY <1>3, <2>3, PrefixWhole
    <3>2. QED
      BY <3>1
  <2>4. QED
    BY <2>1, <2>2, <2>3
<1>6. QED
  BY <1>1, <1>3, <1>4, <1>5

-----------------------------------------------------------------------------
(* What a block adds *)

\* the rows that the logs of a block make in table x
Rows(x, logs, b, h) ==
    {RowOf(x, logs[i], b, h) : i \in {j \in DOMAIN logs : Adds(x, logs[j])}}

\* the rows of table x that block b of chain c makes
RowsIn(x, c, b) == Rows(x, Contents[c[b]], b, Prefix(c, b))

\* table x as chain c has it
Table(x, c) == UNION {RowsIn(x, c, b) : b \in StartBlock .. Len(c)}

\* no two of the rows have the same key
Unique(x, rows) == \A r, s \in rows : KeyOf(x, r) = KeyOf(x, s) => r = s

\* A row carries the block and the transaction of its log, an event the hash, too.
LEMMA RowIs ==
    ASSUME NEW x \in Kept, NEW l, NEW b, NEW h
    PROVE  /\ RowOf(x, l, b, h).block = b /\ RowOf(x, l, b, h).tx = l.tx
           /\ x = "events" => RowOf(x, l, b, h).hash = h
BY DEF Kept, RowOf, EventRow, BetRow, ClaimRow, ExecutionRow, BurnEventRow

\* Writing a row adds no other, and an event is there afterwards, whoever wrote it first.
LEMMA ChangeTouches ==
    ASSUME NEW x \in Kept, NEW rows, NEW l, NEW b, NEW h, NEW row, row = RowOf(x, l, b, h)
    PROVE  LET new == Changed(x, rows, row) IN
           /\ \A r \in new : r \in rows \/ (r.block = b /\ r.tx = l.tx)
           /\ x = "events" => /\ rows \subseteq new
                              /\ \E v \in new : v.block = b /\ v.tx = l.tx
                              /\ \A v \in new : v \in rows \/ v.hash = h
<1> DEFINE new == Changed(x, rows, row)
<1>1. row.block = b /\ row.tx = l.tx /\ (x = "events" => row.hash = h)
  BY RowIs
<1>2. CASE x = "events"
  <2>1. new = IF \E r \in rows : EventKey(r) = EventKey(row) THEN rows ELSE rows \union {row}
    BY <1>2 DEF Changed, KeyOf
  <2>2. \E v \in new : v.block = b /\ v.tx = l.tx
    BY <1>1, <2>1 DEF EventKey
  <2>3. QED
    BY <1>1, <2>1, <2>2
<1>3. CASE x \in {"executions", "burnEvents"}
  <2>1. new \subseteq rows \union {row}
    BY <1>3 DEF Changed
  <2>2. QED
    BY <1>1, <1>3, <2>1
<1>4. CASE x = "bets"
  <2>1. new \subseteq rows \union {row}
    BY <1>4 DEF Changed
  <2>2. QED
    BY <1>1, <1>4, <2>1
<1>5. CASE x = "claims"
  <2> DEFINE before == {c \in rows : ClaimKey(c) = ClaimKey(row)}
             again == [row EXCEPT !.index = (CHOOSE c \in before : TRUE).index]
  <2>1. new = (rows \ before) \union {IF before = {} THEN row ELSE again}
    BY <1>5 DEF Changed
  <2>2. again.block = row.block /\ again.tx = row.tx
    BY <1>5 DEF RowOf, ClaimRow
  <2> HIDE DEF again, before
  <2>3. QED
    BY <1>1, <1>5, <2>1, <2>2
<1>6. QED
  BY <1>2, <1>3, <1>4, <1>5 DEF Kept

\* Where keys are unique, writing a row adds it and takes none away: indexing twice is
\* indexing once.
LEMMA ChangeAdds ==
    ASSUME NEW x \in Kept, NEW all, Unique(x, all), NEW rows, rows \subseteq all,
           NEW l, NEW b, NEW h, NEW row \in all, row = RowOf(x, l, b, h)
    PROVE  Changed(x, rows, row) = rows \union {row}
<1> DEFINE new == Changed(x, rows, row)
<1>1. \A r \in rows : KeyOf(x, r) = KeyOf(x, row) => r = row
  BY DEF Unique
<1>2. CASE x \in {"events", "executions", "burnEvents"}
  <2>1. new = IF \E r \in rows : KeyOf(x, r) = KeyOf(x, row) THEN rows ELSE rows \union {row}
    BY <1>2 DEF Changed
  <2>2. QED
    BY <1>1, <2>1
<1>3. CASE x = "bets"
  <2>1. new = {r \in rows : BetKey(r) # BetKey(row)} \union {row}
    BY <1>3 DEF Changed
  <2>2. \A r \in rows : BetKey(r) = BetKey(row) => r = row
    BY <1>1, <1>3 DEF KeyOf
  <2>3. QED
    BY <2>1, <2>2
<1>4. CASE x = "claims"
  <2> DEFINE before == {c \in rows : ClaimKey(c) = ClaimKey(row)}
             again == [row EXCEPT !.index = (CHOOSE c \in before : TRUE).index]
  <2>1. new = (rows \ before) \union {IF before = {} THEN row ELSE again}
    BY <1>4 DEF Changed
  <2>2. before \subseteq {row}
    BY <1>1, <1>4 DEF KeyOf
  <2>3. ASSUME before # {}
        PROVE  again = row
    <3>1. (CHOOSE c \in before : TRUE) = row
      BY <2>2, <2>3
    <3>2. [row EXCEPT !.index = row.index] = row
      BY <1>4 DEF RowOf, ClaimRow
    <3>3. QED
      BY <3>1, <3>2
  <2>4. new = (rows \ before) \union {row}
    BY <2>1, <2>3
  <2> HIDE DEF again, before
  <2>5. QED
    BY <2>2, <2>4
<1>5. QED
  BY <1>2, <1>3, <1>4 DEF Kept

\* Applying a block adds the rows of its logs to tables that hold rows of the same chain.
LEMMA BlockAdds ==
    ASSUME NEW t, DOMAIN t = Names,
           NEW logs, Len(logs) \in Nat, DOMAIN logs = 1 .. Len(logs), NEW b, NEW h,
           NEW all, \A x \in Kept : /\ Unique(x, all[x])
                                    /\ t[x] \subseteq all[x]
                                    /\ Rows(x, logs, b, h) \subseteq all[x]
    PROVE  LET u == ApplyBlock(t, logs, b, h) IN
           /\ DOMAIN u = Names
           /\ u.state = t.state /\ u.market = t.market
           /\ \A x \in Kept : u[x] = t[x] \union Rows(x, logs, b, h)
<1> DEFINE Part(x, n) == {RowOf(x, logs[i], b, h) : i \in {j \in 1 .. n : Adds(x, logs[j])}}
           Good(u, n) == /\ DOMAIN u = Names
                         /\ u.state = t.state /\ u.market = t.market
                         /\ \A x \in Kept : u[x] = t[x] \union Part(x, n)
<1>1. PICK f : LogByLog(f, t, logs, b, h) /\ ApplyBlock(t, logs, b, h) = f[Len(logs)]
  BY LogsApplied
<1> DEFINE S == {n \in Nat : n <= Len(logs) => Good(f[n], n)}
<1>2. 0 \in S
  <2>1. f[0] = t /\ \A x \in Kept : Part(x, 0) = {}
    BY <1>1 DEF LogByLog
  <2>2. QED
    BY <2>1
<1>3. ASSUME NEW n \in Nat, n \in S
      PROVE  n + 1 \in S
  <2> SUFFICES ASSUME n + 1 <= Len(logs)
               PROVE  Good(f[n + 1], n + 1)
    OBVIOUS
  <2> DEFINE u == f[n]
             l == logs[n + 1]
             w == f[n + 1]
  <2>1. Good(u, n)
    BY <1>3
  <2>2. w = ApplyLog(u, l, b, h)
    BY <1>1 DEF LogByLog
  <2>3. /\ DOMAIN w = Names
        /\ w.state = u.state /\ w.market = u.market
        /\ \A x \in Kept :
              w[x] = IF Adds(x, l) THEN Changed(x, u[x], RowOf(x, l, b, h)) ELSE u[x]
    BY <2>1, <2>2, LogChanges
  <2>4. ASSUME NEW x \in Kept
        PROVE  w[x] = t[x] \union Part(x, n + 1)
    <3>1. u[x] = t[x] \union Part(x, n)
      BY <2>1
    <3>2. Part(x, n + 1) = Part(x, n) \union (IF Adds(x, l) THEN {RowOf(x, l, b, h)} ELSE {})
      OBVIOUS
    <3>3. Part(x, n + 1) \subseteq Rows(x, logs, b, h)
      BY DEF Rows
    <3>4. u[x] \subseteq all[x] /\ (Adds(x, l) => RowOf(x, l, b, h) \in all[x])
      BY <3>1, <3>2, <3>3
    <3>5. CASE Adds(x, l)
      <4>1. Changed(x, u[x], RowOf(x, l, b, h)) = u[x] \union {RowOf(x, l, b, h)}
        BY <3>4, <3>5, ChangeAdds
      <4>2. QED
        BY <2>3, <3>1, <3>2, <3>5, <4>1
    <3>6. CASE ~Adds(x, l)
      BY <2>3, <3>1, <3>2, <3>6
    <3>7. QED
      BY <3>5, <3>6
  <2>5. QED
    BY <2>1, <2>3, <2>4
<1>4. Good(f[Len(logs)], Len(logs))
  <2>1. Nat \subseteq S
    BY <1>2, <1>3, NatInduct
  <2>2. QED
    BY <2>1
<1>5. \A x \in Kept : Part(x, Len(logs)) = Rows(x, logs, b, h)
  BY DEF Rows
<1>6. QED
  BY <1>1, <1>4, <1>5

-----------------------------------------------------------------------------
(* Indexing only writes rows with a raw log *)

\* every row of t has a raw log of its block and transaction, from a chain that came to be
Traced(t) ==
    /\ \A x \in Kept : \A r \in t[x] : \E v \in t.events : v.block = r.block /\ v.tx = r.tx
    /\ \A v \in t.events : OnChain(v.hash)

\* One log keeps every row traceable: its raw log is written before the row it makes.
LEMMA LogTraced ==
    ASSUME NEW t, DOMAIN t = Names, Traced(t), NEW l, NEW b, NEW h, OnChain(h)
    PROVE  Traced(ApplyLog(t, l, b, h))
<1> DEFINE w == ApplyLog(t, l, b, h)
<1>1. \A x \in Kept :
         w[x] = IF Adds(x, l) THEN Changed(x, t[x], RowOf(x, l, b, h)) ELSE t[x]
  BY LogChanges
<1> HIDE DEF w
<1>2. /\ t.events \subseteq w.events
      /\ \E v \in w.events : v.block = b /\ v.tx = l.tx
      /\ \A v \in w.events : v \in t.events \/ v.hash = h
  <2> DEFINE row == RowOf("events", l, b, h)
  <2>1. "events" \in Kept /\ Adds("events", l)
    BY DEF Kept, Adds
  <2>2. w.events = Changed("events", t.events, row)
    BY <1>1, <2>1
  <2> HIDE DEF row
  <2>3. row = RowOf("events", l, b, h)
    BY DEF row
  <2>4. QED
    BY <2>1, <2>2, <2>3, ChangeTouches
<1>3. ASSUME NEW x \in Kept, NEW r \in w[x]
      PROVE  \E v \in w.events : v.block = r.block /\ v.tx = r.tx
  <2>1. r \in t[x] \/ (r.block = b /\ r.tx = l.tx)
    <3>1. CASE Adds(x, l)
      <4>1. w[x] = Changed(x, t[x], RowOf(x, l, b, h))
        BY <1>1, <3>1
      <4>2. QED
        BY <4>1, ChangeTouches
    <3>2. CASE ~Adds(x, l)
      BY <1>1, <3>2
    <3>3. QED
      BY <3>1, <3>2
  <2>2. QED
    BY <1>2, <2>1 DEF Traced
<1>4. QED
  BY <1>2, <1>3 DEF Traced, w

\* So does a block.
LEMMA BlockTraced ==
    ASSUME NEW t, DOMAIN t = Names, Traced(t),
           NEW logs, Len(logs) \in Nat, NEW b, NEW h, OnChain(h)
    PROVE  LET u == ApplyBlock(t, logs, b, h) IN
           DOMAIN u = Names /\ u.state = t.state /\ u.market = t.market /\ Traced(u)
<1> DEFINE Good(u) == DOMAIN u = Names /\ u.state = t.state /\ u.market = t.market /\ Traced(u)
<1>1. PICK f : LogByLog(f, t, logs, b, h) /\ ApplyBlock(t, logs, b, h) = f[Len(logs)]
  BY LogsApplied
<1> DEFINE S == {n \in Nat : n <= Len(logs) => Good(f[n])}
<1>2. 0 \in S
  BY <1>1 DEF LogByLog
<1>3. ASSUME NEW n \in Nat, n \in S
      PROVE  n + 1 \in S
  <2> SUFFICES ASSUME n + 1 <= Len(logs)
               PROVE  Good(f[n + 1])
    OBVIOUS
  <2>1. Good(f[n])
    BY <1>3
  <2>2. f[n + 1] = ApplyLog(f[n], logs[n + 1], b, h)
    BY <1>1 DEF LogByLog
  <2>3. Traced(f[n + 1])
    BY <2>1, <2>2, LogTraced
  <2>4. DOMAIN f[n + 1] = Names /\ f[n + 1].state = f[n].state /\ f[n + 1].market = f[n].market
    BY <2>1, <2>2, LogChanges
  <2>5. QED
    BY <2>1, <2>3, <2>4
<1>4. Good(f[Len(logs)])
  <2>1. Nat \subseteq S
    BY <1>2, <1>3, NatInduct
  <2>2. QED
    BY <2>1
<1>5. QED
  BY <1>1, <1>4

-----------------------------------------------------------------------------
(* Indexing a batch block by block *)

\* The greater of two integers.
LEMMA GreatestOf ==
    ASSUME NEW m \in Int, NEW n \in Int
    PROVE  Max({m, n}) = IF m <= n THEN n ELSE m
<1> DEFINE k == IF m <= n THEN n ELSE m
<1>1. k \in {m, n} /\ \A y \in {m, n} : k >= y
  OBVIOUS
<1>2. ASSUME NEW x \in {m, n}, \A y \in {m, n} : x >= y
      PROVE  x = k
  BY <1>2
<1>3. QED
  BY <1>1, <1>2 DEF Max

\* the first block a batch from that height looks at
First(from) == IF StartBlock <= from THEN from ELSE StartBlock

\* f[b] is what the blocks up to b of the batch make of the tables t
BlockByBlock(f, t, from, view) ==
    f = [b \in First(from) - 1 .. Len(view) |->
           IF b < First(from) THEN t
           ELSE ApplyBlock(f[b - 1], Contents[view[b]], b, Prefix(view, b))]

\* Indexing a batch is applying its blocks one after the other.
LEMMA BlocksApplied ==
    ASSUME NEW t, NEW from \in Int, NEW view, Len(view) \in Nat
    PROVE  /\ First(from) \in Nat /\ First(from) >= 1
           /\ First(from) > Len(view) => Indexed(t, from, view) = t
           /\ First(from) <= Len(view) =>
                \E f : BlockByBlock(f, t, from, view) /\ Indexed(t, from, view) = f[Len(view)]
<1> DEFINE first == First(from)
           Good(g, m) == g = [b \in first - 1 .. m |->
                               IF b < first THEN t
                               ELSE ApplyBlock(g[b - 1], Contents[view[b]], b, Prefix(view, b))]
           S == {m \in Nat : \E g : Good(g, first - 1 + m)}
<1>1. first \in Nat /\ first >= 1 /\ first = Max({StartBlock, from})
  BY IndexerAssumption, GreatestOf DEF First
<1>2. /\ first > Len(view) => Indexed(t, from, view) = t
      /\ first <= Len(view) =>
            Indexed(t, from, view) = (CHOOSE f : Good(f, Len(view)))[Len(view)]
  BY <1>1 DEF Indexed
<1> HIDE DEF first
<1>3. 0 \in S
  <2>1. Good([b \in first - 1 .. first - 1 + 0 |-> t], first - 1 + 0)
    BY <1>1
  <2> HIDE DEF Good
  <2>2. QED
    BY <2>1
<1>4. ASSUME NEW m \in Nat, m \in S
      PROVE  m + 1 \in S
  <2> DEFINE n == first - 1 + m
  <2>1. n \in Nat /\ first - 1 <= n /\ n + 1 = first - 1 + (m + 1)
    BY <1>1
  <2> HIDE DEF n
  <2>2. PICK g : Good(g, n)
    BY <1>4 DEF n
  <2> DEFINE k == [b \in first - 1 .. n + 1 |->
                     IF b <= n THEN g[b]
                     ELSE ApplyBlock(g[n], Contents[view[n + 1]], n + 1, Prefix(view, n + 1))]
  <2>3. ASSUME NEW b \in first - 1 .. n + 1
        PROVE  k[b] = IF b < first THEN t
                      ELSE ApplyBlock(k[b - 1], Contents[view[b]], b, Prefix(view, b))
    <3>1. CASE b = first - 1
      BY <1>1, <2>1, <2>2, <3>1
    <3>2. CASE b >= first /\ b <= n
      <4>1. b \in first - 1 .. n /\ b - 1 \in first - 1 .. n + 1 /\ b - 1 <= n /\ ~(b < first)
        BY <1>1, <2>1, <3>2
      <4>2. k[b] = g[b] /\ k[b - 1] = g[b - 1]
        BY <3>2, <4>1
      <4>3. g[b] = ApplyBlock(g[b - 1], Contents[view[b]], b, Prefix(view, b))
        BY <2>2, <4>1
      <4>4. QED
        BY <4>1, <4>2, <4>3
    <3>3. CASE b = n + 1
      BY <1>1, <2>1, <3>3
    <3>4. QED
      BY <1>1, <2>1, <3>1, <3>2, <3>3
  <2>4. Good(k, n + 1)
    BY <1>1, <2>3
  <2> HIDE DEF k, Good
  <2>5. Good(k, first - 1 + (m + 1))
    BY <2>1, <2>4
  <2>6. QED
    BY <2>5
<1>5. ASSUME first <= Len(view)
      PROVE  \E f : BlockByBlock(f, t, from, view) /\ Indexed(t, from, view) = f[Len(view)]
  <2>1. Len(view) - (first - 1) \in Nat
    BY <1>1, <1>5
  <2>2. Len(view) - (first - 1) \in S
    BY <1>3, <1>4, <2>1, NatInduct
  <2>3. \E g : Good(g, Len(view))
    <3>1. first - 1 + (Len(view) - (first - 1)) = Len(view)
      BY <1>1
    <3>2. QED
      BY <2>2, <3>1
  <2> DEFINE f == CHOOSE f : Good(f, Len(view))
  <2>4. Good(f, Len(view)) /\ Indexed(t, from, view) = f[Len(view)]
    BY <1>2, <1>5, <2>3
  <2>5. BlockByBlock(f, t, from, view)
    BY <2>4 DEF BlockByBlock, first
  <2> HIDE DEF f
  <2>6. QED
    BY <2>4, <2>5
<1>6. QED
  BY <1>1, <1>2, <1>5 DEF first

\* The logs of a block are a sequence of records with the fields of a log.
LEMMA ContentsAre ==
    ASSUME NEW b \in Blocks
    PROVE  /\ Len(Contents[b]) \in Nat /\ DOMAIN Contents[b] = 1 .. Len(Contents[b])
           /\ \A i \in DOMAIN Contents[b] :
                DOMAIN Contents[b][i] = {"name", "tx", "index", "epoch", "account", "amount",
                                         "outcome", "block"}
<1>1. /\ Contents[b] \in Seq(Range(Contents[b]))
      /\ \A l \in Range(Contents[b]) :
            DOMAIN l = {"name", "tx", "index", "epoch", "account", "amount", "outcome", "block"}
  BY LogAssumption DEF Blocks
<1>2. \A i \in DOMAIN Contents[b] : Contents[b][i] \in Range(Contents[b])
  BY DEF Range
<1>3. QED
  BY <1>1, <1>2

\* The tables of a prefix are those of the chain, cut above its tip.
LEMMA TableOfPrefix ==
    ASSUME NEW x \in Kept, NEW c \in Seq(Blocks), NEW n \in Int
    PROVE  /\ Table(x, Prefix(c, n)) = {r \in Table(x, c) : r.block <= n}
           /\ \A r \in Table(x, c) : r.block \in StartBlock .. Len(c)
           /\ \A b \in StartBlock .. Len(Prefix(c, n)) :
                 RowsIn(x, Prefix(c, n), b) = RowsIn(x, c, b)
<1> DEFINE p == Prefix(c, n)
<1>1. /\ p \in Seq(Blocks) /\ Len(c) \in Nat /\ StartBlock \in Nat /\ StartBlock >= 1
      /\ Len(p) = IF n < 0 THEN 0 ELSE IF n <= Len(c) THEN n ELSE Len(c)
      /\ \A i \in 1 .. Len(p) : p[i] = c[i]
  BY PrefixIs, IndexerAssumption
<1>2. ASSUME NEW b \in StartBlock .. Len(p)
      PROVE  RowsIn(x, p, b) = RowsIn(x, c, b)
  <2>1. p[b] = c[b] /\ b <= n
    BY <1>1
  <2>2. Prefix(p, b) = Prefix(c, b)
    BY <1>1, <2>1, PrefixAgain
  <2> HIDE DEF p
  <2>3. QED
    BY <2>1, <2>2 DEF RowsIn
<1> HIDE DEF p
<1>3. \A b \in Int : \A r \in RowsIn(x, c, b) : r.block = b
  BY RowIs DEF RowsIn, Rows
<1>4. ASSUME NEW r \in Table(x, p)
      PROVE  r \in Table(x, c) /\ r.block <= n
  <2>1. PICK b \in StartBlock .. Len(p) : r \in RowsIn(x, p, b)
    BY DEF Table
  <2>2. r \in RowsIn(x, c, b) /\ b \in StartBlock .. Len(c) /\ b <= n
    BY <1>1, <1>2, <2>1
  <2>3. QED
    BY <1>3, <2>2 DEF Table
<1>5. ASSUME NEW r \in Table(x, c)
      PROVE  /\ r.block \in StartBlock .. Len(c)
             /\ r.block <= n => r \in Table(x, p)
  <2>1. PICK b \in StartBlock .. Len(c) : r \in RowsIn(x, c, b)
    BY DEF Table
  <2>2. r.block = b
    BY <1>3, <2>1
  <2>3. ASSUME b <= n
        PROVE  r \in Table(x, p)
    <3>1. b \in StartBlock .. Len(p)
      BY <1>1, <2>3
    <3>2. QED
      BY <1>2, <2>1, <3>1 DEF Table
  <2>4. QED
    BY <2>2, <2>3
<1>6. QED
  BY <1>2, <1>4, <1>5 DEF p

\* A batch adds what the chain it was read from has from its first block on.
LEMMA IndexedAdds ==
    ASSUME NEW t, DOMAIN t = Names, NEW from \in Int, NEW view \in Seq(Blocks),
           \A x \in Kept : Unique(x, Table(x, view)) /\ t[x] \subseteq Table(x, view)
    PROVE  LET u == Indexed(t, from, view) IN
           /\ DOMAIN u = Names
           /\ u.state = t.state /\ u.market = t.market
           /\ \A x \in Kept : u[x] = t[x] \union {r \in Table(x, view) : r.block >= from}
<1> DEFINE first == First(from)
           Part(x, n) == UNION {RowsIn(x, view, b) : b \in first .. n}
           Good(u, n) == /\ DOMAIN u = Names
                         /\ u.state = t.state /\ u.market = t.market
                         /\ \A x \in Kept : u[x] = t[x] \union Part(x, n)
<1>1. /\ first \in Nat /\ first >= 1 /\ Len(view) \in Nat /\ StartBlock \in Nat
      /\ first >= StartBlock /\ first >= from /\ first \in {from, StartBlock}
  BY BlocksApplied, IndexerAssumption DEF First
<1>2. ASSUME NEW x \in Kept
      PROVE  Part(x, Len(view)) = {r \in Table(x, view) : r.block >= from}
  <2>1. \A b \in Int : \A r \in RowsIn(x, view, b) : r.block = b
    BY RowIs DEF RowsIn, Rows
  <2> HIDE DEF first
  <2>2. ASSUME NEW r \in Part(x, Len(view))
        PROVE  r \in Table(x, view) /\ r.block >= from
    <3>1. PICK b \in first .. Len(view) : r \in RowsIn(x, view, b)
      OBVIOUS
    <3>2. b \in StartBlock .. Len(view) /\ b >= from
      BY <1>1
    <3>3. QED
      BY <2>1, <3>1, <3>2 DEF Table
  <2>3. ASSUME NEW r \in Table(x, view), r.block >= from
        PROVE  r \in Part(x, Len(view))
    <3>1. PICK b \in StartBlock .. Len(view) : r \in RowsIn(x, view, b)
      BY DEF Table
    <3>2. b \in first .. Len(view)
      BY <1>1, <2>1, <2>3, <3>1
    <3>3. QED
      BY <3>1, <3>2
  <2>4. QED
    BY <2>2, <2>3
<1>3. CASE first > Len(view)
  <2>1. Indexed(t, from, view) = t
    BY <1>1, <1>3, BlocksApplied
  <2>2. \A x \in Kept : Part(x, Len(view)) = {}
    BY <1>1, <1>3
  <2>3. QED
    BY <1>2, <2>1, <2>2
<1>4. CASE first <= Len(view)
  <2>1. PICK f : BlockByBlock(f, t, from, view) /\ Indexed(t, from, view) = f[Len(view)]
    BY <1>1, <1>4, BlocksApplied
  <2> HIDE DEF first
  <2> DEFINE S == {m \in Nat : first - 1 + m <= Len(view)
                                  => Good(f[first - 1 + m], first - 1 + m)}
  <2>2. 0 \in S
    <3>1. f[first - 1 + 0] = t
      BY <1>1, <1>4, <2>1 DEF BlockByBlock, first
    <3>2. \A x \in Kept : Part(x, first - 1 + 0) = {}
      BY <1>1
    <3>3. QED
      BY <3>1, <3>2
  <2>3. ASSUME NEW m \in Nat, m \in S
        PROVE  m + 1 \in S
    <3> DEFINE n == first - 1 + m
               logs == Contents[view[n + 1]]
               h == Prefix(view, n + 1)
    <3>1. n \in Nat /\ first - 1 <= n /\ n + 1 = first - 1 + (m + 1)
      BY <1>1
    <3> SUFFICES ASSUME n + 1 <= Len(view)
                 PROVE  Good(f[n + 1], n + 1)
      BY <3>1
    <3>2. Good(f[n], n)
      BY <2>3, <3>1
    <3> HIDE DEF n
    <3>3. f[n + 1] = ApplyBlock(f[n], logs, n + 1, h)
      <4>1. n + 1 \in first - 1 .. Len(view) /\ ~(n + 1 < first) /\ (n + 1) - 1 = n
        BY <1>1, <3>1
      <4>2. QED
        BY <2>1, <4>1 DEF BlockByBlock, first
    <3>4. view[n + 1] \in Blocks /\ n + 1 \in first .. Len(view)
      BY <1>1, <3>1
    <3>5. Len(logs) \in Nat /\ DOMAIN logs = 1 .. Len(logs)
      BY <3>4, ContentsAre
    <3> DEFINE all == [x \in Kept |-> Table(x, view)]
    <3>6. ASSUME NEW x \in Kept
          PROVE  /\ Unique(x, all[x]) /\ f[n][x] \subseteq all[x]
                 /\ Rows(x, logs, n + 1, h) \subseteq all[x]
                 /\ Part(x, n + 1) = Part(x, n) \union Rows(x, logs, n + 1, h)
      <4>1. Rows(x, logs, n + 1, h) = RowsIn(x, view, n + 1)
        BY DEF RowsIn
      <4>2. \A b \in first .. Len(view) : RowsIn(x, view, b) \subseteq Table(x, view)
        BY <1>1 DEF Table
      <4>3. Part(x, n) \subseteq Table(x, view)
        BY <1>1, <3>1, <3>4, <4>2
      <4>4. first .. n + 1 = (first .. n) \union {n + 1}
        BY <1>1, <3>1
      <4>5. QED
        BY <3>2, <3>4, <4>1, <4>2, <4>3, <4>4
    <3> HIDE DEF all, logs, h
    <3>7. /\ DOMAIN f[n + 1] = Names
          /\ f[n + 1].state = f[n].state /\ f[n + 1].market = f[n].market
          /\ \A x \in Kept : f[n + 1][x] = f[n][x] \union Rows(x, logs, n + 1, h)
      <4>1. DOMAIN f[n] = Names
        BY <3>2
      <4>2. \A x \in Kept : /\ Unique(x, all[x]) /\ f[n][x] \subseteq all[x]
                            /\ Rows(x, logs, n + 1, h) \subseteq all[x]
        BY <3>6
      <4>3. QED
        BY ONLY <3>3, <3>5, <4>1, <4>2, BlockAdds
    <3>8. ASSUME NEW x \in Kept
          PROVE  f[n + 1][x] = t[x] \union Part(x, n + 1)
      <4>1. f[n][x] = t[x] \union Part(x, n)
        BY <3>2
      <4>2. f[n + 1][x] = f[n][x] \union Rows(x, logs, n + 1, h)
        BY <3>7
      <4>3. Part(x, n + 1) = Part(x, n) \union Rows(x, logs, n + 1, h)
        BY <3>6
      <4> HIDE DEF Part
      <4>4. QED
        BY <4>1, <4>2, <4>3
    <3>9. QED
      BY <3>2, <3>7, <3>8
  <2>4. Good(f[Len(view)], Len(view))
    <3>1. Nat \subseteq S
      BY <2>2, <2>3, NatInduct
    <3>2. Len(view) - (first - 1) \in S /\ first - 1 + (Len(view) - (first - 1)) = Len(view)
      BY <1>1, <1>4, <3>1
    <3>3. QED
      BY <1>1, <3>2
  <2>5. QED
    BY <1>2, <2>1, <2>4
<1>5. QED
  BY <1>1, <1>3, <1>4

\* A batch keeps every row traceable.
LEMMA IndexedTraced ==
    ASSUME NEW t, DOMAIN t = Names, Traced(t), NEW from \in Int, NEW view, OnChain(view)
    PROVE  LET u == Indexed(t, from, view) IN
           DOMAIN u = Names /\ u.state = t.state /\ u.market = t.market /\ Traced(u)
<1> DEFINE first == First(from)
           Good(u) == DOMAIN u = Names /\ u.state = t.state /\ u.market = t.market /\ Traced(u)
<1>1. /\ first \in Nat /\ first >= 1 /\ Len(view) \in Nat /\ view \in Seq(Blocks)
      /\ \A n \in Int : OnChain(Prefix(view, n))
  BY BlocksApplied, OnChainIs
<1>2. CASE first > Len(view)
  <2>1. Indexed(t, from, view) = t
    BY <1>1, <1>2, BlocksApplied
  <2>2. QED
    BY <2>1
<1>3. CASE first <= Len(view)
  <2>1. PICK f : BlockByBlock(f, t, from, view) /\ Indexed(t, from, view) = f[Len(view)]
    BY <1>1, <1>3, BlocksApplied
  <2> DEFINE S == {m \in Nat : first - 1 + m <= Len(view) => Good(f[first - 1 + m])}
  <2>2. 0 \in S
    BY <1>1, <1>3, <2>1 DEF BlockByBlock
  <2> HIDE DEF first
  <2>3. ASSUME NEW m \in Nat, m \in S
        PROVE  m + 1 \in S
    <3> DEFINE n == first - 1 + m
               logs == Contents[view[n + 1]]
               h == Prefix(view, n + 1)
    <3>1. n \in Nat /\ first - 1 <= n /\ n + 1 = first - 1 + (m + 1)
      BY <1>1
    <3> SUFFICES ASSUME n + 1 <= Len(view)
                 PROVE  Good(f[n + 1])
      BY <3>1
    <3>2. Good(f[n])
      BY <2>3, <3>1
    <3> HIDE DEF n
    <3>3. f[n + 1] = ApplyBlock(f[n], logs, n + 1, h)
      <4>1. n + 1 \in first - 1 .. Len(view) /\ ~(n + 1 < first) /\ (n + 1) - 1 = n
        BY <1>1, <3>1
      <4>2. QED
        BY <2>1, <4>1 DEF BlockByBlock, first
    <3>4. view[n + 1] \in Blocks /\ OnChain(h)
      BY <1>1, <3>1
    <3>5. Len(logs) \in Nat
      BY <3>4, ContentsAre
    <3> HIDE DEF logs, h
    <3>6. QED
      BY <3>2, <3>3, <3>4, <3>5, BlockTraced
  <2>4. Good(f[Len(view)])
    <3>1. Nat \subseteq S
      BY <2>2, <2>3, NatInduct
    <3>2. Len(view) - (first - 1) \in S /\ first - 1 + (Len(view) - (first - 1)) = Len(view)
      BY <1>1, <1>3, <3>1 DEF first
    <3>3. QED
      BY <1>1, <3>2
  <2>5. QED
    BY <2>1, <2>4
<1>4. QED
  BY <1>1, <1>2, <1>3

-----------------------------------------------------------------------------
(* The tables of a chain *)

\* log i of block b of the chain, with its block
Stamped(c, b, i) == [Contents[c[b]][i] EXCEPT !.block = b]

\* Those are the logs of the chain.
LEMMA LogsOfChain ==
    ASSUME NEW c \in Seq(Blocks)
    PROVE  /\ \A k \in LogsOf(c) : \E b \in StartBlock .. Len(c) :
                 \E i \in DOMAIN Contents[c[b]] : k = Stamped(c, b, i)
           /\ \A b \in StartBlock .. Len(c) : \A i \in DOMAIN Contents[c[b]] :
                 Stamped(c, b, i) \in LogsOf(c)
<1> DEFINE In(b) == {Stamped(c, b, i) : i \in DOMAIN Contents[c[b]]}
<1>1. LogsOf(c) = UNION {In(b) : b \in StartBlock .. Len(c)}
  BY Zenon DEF LogsOf, Stamped
<1>2. ASSUME NEW k \in LogsOf(c)
      PROVE  \E b \in StartBlock .. Len(c) :
                 \E i \in DOMAIN Contents[c[b]] : k = Stamped(c, b, i)
  <2>1. PICK b \in StartBlock .. Len(c) : k \in In(b)
    BY <1>1
  <2>2. QED
    BY <2>1
<1>3. ASSUME NEW b \in StartBlock .. Len(c), NEW i \in DOMAIN Contents[c[b]]
      PROVE  Stamped(c, b, i) \in LogsOf(c)
  <2>1. Stamped(c, b, i) \in In(b)
    OBVIOUS
  <2> HIDE DEF In
  <2>2. QED
    BY <1>1, <2>1
<1>4. QED
  BY <1>2, <1>3

\* A log and its stamped copy differ in the block only.
LEMMA StampedIs ==
    ASSUME NEW c \in Seq(Blocks), NEW b \in StartBlock .. Len(c),
           NEW i \in DOMAIN Contents[c[b]]
    PROVE  LET k == Stamped(c, b, i)
               l == Contents[c[b]][i]
           IN  /\ k.block = b
               /\ k.name = l.name /\ k.tx = l.tx /\ k.index = l.index
               /\ k.epoch = l.epoch /\ k.account = l.account /\ k.amount = l.amount
               /\ k.outcome = l.outcome
<1>1. c[b] \in Blocks
  BY IndexerAssumption
<1>2. DOMAIN Contents[c[b]][i] = {"name", "tx", "index", "epoch", "account", "amount",
                                  "outcome", "block"}
  BY <1>1, ContentsAre
<1>3. QED
  BY <1>2 DEF Stamped

\* the row of a stamped log of chain c
RowAt(x, l, c) == RowOf(x, l, l.block, Prefix(c, l.block))

\* The rows of the blocks are the rows of the logs.
LEMMA TableFromLogs ==
    ASSUME NEW x \in Kept, NEW c \in Seq(Blocks)
    PROVE  Table(x, c) = {RowAt(x, l, c) : l \in {k \in LogsOf(c) : Adds(x, k)}}
<1> DEFINE L(b, i) == Contents[c[b]][i]
           FromLogs == {RowAt(x, l, c) : l \in {k \in LogsOf(c) : Adds(x, k)}}
<1>1. ASSUME NEW b \in StartBlock .. Len(c), NEW i \in DOMAIN Contents[c[b]]
      PROVE  /\ Adds(x, Stamped(c, b, i)) <=> Adds(x, L(b, i))
             /\ RowAt(x, Stamped(c, b, i), c) = RowOf(x, L(b, i), b, Prefix(c, b))
  <2> DEFINE k == Stamped(c, b, i)
  <2>1. /\ k.block = b /\ k.name = L(b, i).name /\ k.tx = L(b, i).tx /\ k.index = L(b, i).index
        /\ k.epoch = L(b, i).epoch /\ k.account = L(b, i).account /\ k.amount = L(b, i).amount
    BY StampedIs
  <2> HIDE DEF k, L
  <2>2. Adds(x, k) <=> Adds(x, L(b, i))
    BY <2>1 DEF Adds
  <2>3. RowOf(x, k, k.block, Prefix(c, k.block)) = RowOf(x, L(b, i), b, Prefix(c, b))
    BY <2>1 DEF Kept, RowOf, EventRow, BetRow, ClaimRow, ExecutionRow, BurnEventRow
  <2>4. QED
    BY <2>2, <2>3 DEF RowAt, k
<1>2. ASSUME NEW r \in Table(x, c)
      PROVE  r \in FromLogs
  <2>1. PICK b \in StartBlock .. Len(c) : r \in RowsIn(x, c, b)
    BY DEF Table
  <2>2. PICK i \in DOMAIN Contents[c[b]] :
                Adds(x, L(b, i)) /\ r = RowOf(x, L(b, i), b, Prefix(c, b))
    BY <2>1 DEF RowsIn, Rows
  <2>3. QED
    BY <1>1, <2>2, LogsOfChain
<1>3. ASSUME NEW r \in FromLogs
      PROVE  r \in Table(x, c)
  <2>1. PICK k \in LogsOf(c) : Adds(x, k) /\ r = RowAt(x, k, c)
    OBVIOUS
  <2>2. PICK b \in StartBlock .. Len(c) : \E i \in DOMAIN Contents[c[b]] : k = Stamped(c, b, i)
    BY LogsOfChain
  <2>3. PICK i \in DOMAIN Contents[c[b]] : k = Stamped(c, b, i)
    BY <2>2
  <2>4. Adds(x, L(b, i)) /\ r = RowOf(x, L(b, i), b, Prefix(c, b))
    BY <1>1, <2>1, <2>3
  <2>5. r \in RowsIn(x, c, b)
    BY <2>4 DEF RowsIn, Rows
  <2> HIDE DEF FromLogs
  <2>6. QED
    BY <2>5 DEF Table
<1>4. QED
  BY <1>2, <1>3

\* The tables block by block are those the properties name.
LEMMA TablesAre ==
    ASSUME NEW c \in Seq(Blocks)
    PROVE  /\ Table("events", c) = EventsOf(c)
           /\ Table("bets", c) = BetsOf(c)
           /\ Table("claims", c) = ClaimsOf(c)
           /\ Table("executions", c) = ExecutionsOf(c)
           /\ Table("burnEvents", c) = BurnEventsOf(c)
<1>0. \A x \in Kept : Table(x, c) = {RowAt(x, l, c) : l \in {k \in LogsOf(c) : Adds(x, k)}}
  BY TableFromLogs
<1>1. Table("events", c) = EventsOf(c)
  BY <1>0 DEF Kept, RowAt, RowOf, EventRow, Adds, EventsOf
<1>2. Table("bets", c) = BetsOf(c)
  BY <1>0 DEF Kept, RowAt, RowOf, BetRow, Adds, BetsOf, Named
<1>3. Table("claims", c) = ClaimsOf(c)
  BY <1>0 DEF Kept, RowAt, RowOf, ClaimRow, Adds, ClaimsOf, Named
<1>4. Table("executions", c) = ExecutionsOf(c)
  BY <1>0 DEF Kept, RowAt, RowOf, ExecutionRow, Adds, ExecutionsOf, Named
<1>5. Table("burnEvents", c) = BurnEventsOf(c)
  BY <1>0 DEF Kept, RowAt, RowOf, BurnEventRow, Adds, BurnEventsOf, Named
<1>6. QED
  BY <1>1, <1>2, <1>3, <1>4, <1>5

\* No two logs of one chain make the same key: KeyAssumption, of every prefix of a history.
LEMMA TablesUnique ==
    ASSUME NEW c, OnChain(c), NEW x \in Kept
    PROVE  Unique(x, Table(x, c))
<1>1. PICK h \in Histories : c = Prefix(h, Len(c)) /\ Len(c) \in Nat
  BY OnChainIs
<1>2. h \in Seq(Blocks)
  BY LogAssumption DEF Blocks
<1>3. Unique(x, Table(x, h))
  BY <1>2, KeyAssumption, TablesAre DEF Kept, Unique, KeyOf
<1>4. Table(x, c) \subseteq Table(x, h)
  BY <1>1, <1>2, TableOfPrefix
<1>5. QED
  BY <1>3, <1>4 DEF Unique

-----------------------------------------------------------------------------
(* Every row traces back to a raw log *)

\* block heights, and the height below the first block
Heights == {n \in Int : n >= -1}

\* no loop runs
Stopped == pc \in {"down", "register", "resume", "reregister", "refused"}

\* The tables are those of this market: typed, and every row traceable.
Own ==
    /\ DOMAIN db = Names /\ DOMAIN db.state = {"last", "hash", "anchor"}
    /\ db.market \in {None, Market}
    /\ db.state.last \in Heights \union {None}
    /\ db.state.last = None => db.state.hash = None
    /\ pc = "rollback" \/ cut => db.state.last # None
    /\ Traced(db)

\* The chain and the batch are of chains that came to be; the tables are this market's, or
\* still those another one left, until a process connects to them.
RowsInv ==
    /\ OnChain(chain)
    /\ last \in Heights /\ safe \in Nat
    /\ batch.from \in Int /\ batch.to \in Nat /\ OnChain(batch.view)
    /\ (db = OtherTables /\ pc \in {"down", "refused"}) \/ Own

\* Empty tables hold nothing.
LEMMA EmptyIs ==
    /\ DOMAIN EmptyTables = Names /\ EmptyTables.state = NoState /\ EmptyTables.market = None
    /\ \A x \in Kept : EmptyTables[x] = {}
    /\ Traced(EmptyTables)
    /\ NoState = [last |-> None, hash |-> None, anchor |-> None]
BY DEF EmptyTables, NoState, Names, Kept, Traced

\* Registering the market changes no row.
LEMMA RegisteredIs ==
    ASSUME NEW t, DOMAIN t = Names
    PROVE  /\ DOMAIN Registered(t) = Names /\ Registered(t).state = t.state
           /\ Registered(t).market = Market
           /\ \A x \in Kept : Registered(t)[x] = t[x]
           /\ Traced(t) => Traced(Registered(t))
<1>1. /\ DOMAIN Registered(t) = Names /\ Registered(t).state = t.state
      /\ Registered(t).market = Market
      /\ \A x \in Kept : Registered(t)[x] = t[x]
  BY DEF Registered, Names, Kept
<1>2. QED
  BY <1>1 DEF Traced, Kept

\* A rollback cuts every table at the same block, raw logs included.
LEMMA RolledIs ==
    ASSUME NEW t, DOMAIN t = Names, NEW n
    PROVE  LET u == RollbackFrom(t, n) IN
           /\ DOMAIN u = Names /\ u.state = t.state /\ u.market = t.market
           /\ \A x \in Kept : u[x] = {r \in t[x] : r.block < n}
           /\ Traced(t) => Traced(u)
<1> DEFINE u == RollbackFrom(t, n)
<1>1. /\ DOMAIN u = Names /\ u.state = t.state /\ u.market = t.market
      /\ \A x \in Kept : u[x] = {r \in t[x] : r.block < n}
  BY DEF RollbackFrom, Names, Kept
<1> HIDE DEF u
<1>2. ASSUME Traced(t)
      PROVE  Traced(u)
  <2>1. u.events = {r \in t.events : r.block < n}
    BY <1>1 DEF Kept
  <2>2. QED
    BY <1>1, <1>2, <2>1 DEF Traced
<1>3. QED
  BY <1>1, <1>2 DEF u

\* Histories and their prefixes are chains.
LEMMA ChainStart ==
    ASSUME NEW h \in Histories
    PROVE  /\ h \in Seq(Blocks) /\ OnChain(h) /\ OnChain(<<>>)
           /\ \A n \in Int : OnChain(Prefix(h, n))
<1>1. h \in Seq(Blocks)
  BY LogAssumption DEF Blocks
<1>2. Prefix(h, Len(h)) = h
  BY <1>1, PrefixWhole
<1>3. OnChain(h)
  BY <1>1, <1>2 DEF OnChain
<1>4. Prefix(h, 0) = <<>>
  <2>1. Prefix(h, 0) \in Seq(Blocks) /\ Len(Prefix(h, 0)) = 0
    BY <1>1, PrefixIs
  <2>2. QED
    BY <2>1
<1>5. \A n \in Int : OnChain(Prefix(h, n))
  BY <1>3, OnChainIs
<1>6. QED
  BY <1>1, <1>3, <1>4, <1>5

\* It holds when the process is first started, on a fresh database or another market's.
LEMMA InitRows == Init => RowsInv
<1> SUFFICES ASSUME Init PROVE RowsInv
  OBVIOUS
<1>1. PICK h \in Histories : chain = Prefix(h, StartBlock)
  BY DEF Init
<1>2. OnChain(chain) /\ OnChain(<<>>)
  BY <1>1, ChainStart, IndexerAssumption
<1>3. ASSUME db = EmptyTables
      PROVE  Own
  BY <1>3, EmptyIs DEF Own, Init, Stopped
<1>4. last \in Heights /\ safe \in Nat /\ batch = NoBatch /\ pc = "down"
  BY DEF Init, Heights
<1>5. batch.from \in Int /\ batch.to \in Nat /\ batch.view = <<>>
  BY <1>4 DEF NoBatch
<1>6. db \in {EmptyTables, OtherTables}
  BY DEF Init
<1>7. QED
  BY <1>2, <1>3, <1>4, <1>5, <1>6 DEF RowsInv

\* A rewind goes no higher than the height it starts from.
LEMMA RewindIs ==
    ASSUME NEW n \in Heights
    PROVE  /\ RewindTo(n) \in Nat /\ RewindTo(n) - 1 \in Heights /\ RewindTo(n) - 1 <= n
BY IndexerAssumption DEF Heights, RewindTo

\* The chain extends or reorganises: the process and its tables stay.
LEMMA ChainRows ==
    ASSUME RowsInv, NEW h \in Histories, NEW n \in Int,
           chain' = Prefix(h, n), UNCHANGED <<db, pc, locals, cut>>
    PROVE  RowsInv'
<1>1. OnChain(chain)'
  BY ChainStart
<1>2. Own => Own'
  BY DEF Own, locals, Stopped, Traced
<1>3. QED
  BY <1>1, <1>2 DEF RowsInv, locals, Stopped

\* The end of a tick forgets the batch.
LEMMA FailKeeps ==
    ASSUME RowsInv, Fail \/ Done
    PROVE  batch.from' \in Int /\ batch.to' \in Nat /\ OnChain(batch.view)'
<1>1. PICK h \in Histories : TRUE
  BY DEF RowsInv, OnChain
<1>2. QED
  BY <1>1, ChainStart DEF Fail, Done, NoBatch

\* So does the end of the process, which forgets everything.
LEMMA ExitKeeps ==
    ASSUME RowsInv, NEW label, Exit(label)
    PROVE  /\ last' = 0 /\ last' \in Heights /\ safe' = 0 /\ safe' \in Nat /\ pc' = label
           /\ batch.from' \in Int /\ batch.to' \in Nat /\ OnChain(batch.view)'
<1>1. PICK h \in Histories : TRUE
  BY DEF RowsInv, OnChain
<1>2. QED
  BY <1>1, ChainStart DEF Exit, NoBatch, Heights

\* Once the tables are this market's, a step keeps them so that wipes them, registers the
\* market or leaves them alone.
LEMMA OwnKept ==
    ASSUME \/ Wipe
           \/ Own /\ db' = Registered(db) /\ cut' = cut
           \/ Own /\ KeepTables,
           pc' # "rollback"
    PROVE  Own'
<1>1. CASE Wipe
  <2>1. db' = EmptyTables /\ cut' = FALSE
    BY <1>1 DEF Wipe, WipeChain
  <2>2. QED
    BY <2>1, EmptyIs DEF Own, Traced
<1>2. CASE Own /\ db' = Registered(db) /\ cut' = cut
  <2>1. /\ DOMAIN db' = Names /\ db'.state = db.state /\ db'.market = Market /\ Traced(db')
    BY <1>2, RegisteredIs DEF Own
  <2>2. QED
    BY <1>2, <2>1 DEF Own, Traced
<1>3. CASE Own /\ KeepTables
  BY <1>3 DEF Own, KeepTables, Traced
<1>4. QED
  BY <1>1, <1>2, <1>3

\* Starting up keeps it: tables of another market are wiped before anything is written.
LEMMA StartRows ==
    ASSUME RowsInv, StartUp
    PROVE  RowsInv'
<1>1. CASE Connect
  <2>1. /\ Wipe \/ (db.market # OtherMarket /\ KeepTables)
        /\ pc' = "register" /\ UNCHANGED <<chain, last, safe, batch>>
    BY <1>1 DEF Connect, locals
  <2>2. db.market # OtherMarket => Own
    BY IndexerAssumption DEF RowsInv
  <2>3. Own'
    BY <2>1, <2>2, OwnKept
  <2>4. QED
    BY <2>1, <2>3 DEF RowsInv
<1>2. CASE Register
  <2>1. /\ db' = Registered(db) /\ pc = "register" /\ pc' = "resume"
        /\ UNCHANGED <<chain, last, safe, batch, cut>>
    BY <1>2 DEF Register, locals, history
  <2>2. Own
    BY <2>1 DEF RowsInv
  <2>3. Own'
    BY <2>1, <2>2, OwnKept
  <2>4. QED
    BY <2>1, <2>3 DEF RowsInv
<1>3. CASE Resume
  <2>1. /\ pc = "resume" /\ pc' \in {"reregister", "idle"}
        /\ UNCHANGED <<chain, safe, batch>>
        /\ \/ Wipe /\ last' = last
           \/ /\ KeepTables
              /\ last' = IF db.state.last = None THEN StartBlock - 1 ELSE db.state.last
    BY <1>3 DEF Resume
  <2>2. Own
    BY <2>1 DEF RowsInv
  <2>3. Own'
    BY <2>1, <2>2, OwnKept
  <2>4. last' \in Heights
    BY <2>1, <2>2, IndexerAssumption DEF Own, Heights, RowsInv
  <2>5. QED
    BY <2>1, <2>3, <2>4 DEF RowsInv
<1>4. CASE Reregister
  <2>1. /\ db' = Registered(db) /\ pc = "reregister" /\ pc' = "idle" /\ last' = StartBlock - 1
        /\ UNCHANGED <<chain, safe, batch, cut>>
    BY <1>4 DEF Reregister, history
  <2>2. Own
    BY <2>1 DEF RowsInv
  <2>3. Own'
    BY <2>1, <2>2, OwnKept
  <2>4. last' \in Heights
    BY <2>1, IndexerAssumption DEF Heights
  <2>5. QED
    BY <2>1, <2>3, <2>4 DEF RowsInv
<1>5. QED
  BY <1>1, <1>2, <1>3, <1>4 DEF StartUp

\* A start that fails keeps it, whatever its last statement did.
LEMMA StartFailsRows ==
    ASSUME RowsInv, StartFails
    PROVE  RowsInv'
<1>1. /\ pc' = "refused" /\ Exit("refused") /\ chain' = chain
      /\ \/ KeepTables
         \/ Wipe
         \/ pc \in {"register", "reregister"} /\ db' = Registered(db) /\ cut' = cut
  BY DEF StartFails, Exit
<1>2. pc \in {"register", "reregister"} => Own
  BY DEF RowsInv
<1>3. (db' = OtherTables) \/ Own'
  <2>1. CASE Own
    BY <1>1, <2>1, OwnKept
  <2>2. CASE ~Own
    <3>1. db = OtherTables
      BY <2>2 DEF RowsInv
    <3>2. CASE KeepTables
      BY <3>1, <3>2 DEF KeepTables
    <3>3. CASE Wipe
      BY <1>1, <3>3, OwnKept
    <3>4. QED
      BY <1>1, <1>2, <2>2, <3>2, <3>3
  <2>3. QED
    BY <2>1, <2>2
<1>4. QED
  BY <1>1, <1>3, ExitKeeps DEF RowsInv

\* Reading the head keeps it, also where a shorter chain wipes the tables.
LEMMA ReadHeadRows ==
    ASSUME RowsInv, ReadHead
    PROVE  RowsInv'
<1>1. /\ safe' = SafeHead /\ pc = "idle" /\ pc' \in {"idle", "check", "reset"}
      /\ Wipe \/ KeepTables
      /\ Done \/ UNCHANGED batch
      /\ chain' = chain /\ last' = last
  BY DEF ReadHead, GoOn, Done
<1>2. Len(chain) \in Nat /\ safe' \in Nat
  BY <1>1, OnChainIs, IndexerAssumption DEF RowsInv, SafeHead
<1>3. batch.from' \in Int /\ batch.to' \in Nat /\ OnChain(batch.view)'
  BY <1>1, FailKeeps DEF RowsInv
<1>4. Own
  BY <1>1 DEF RowsInv
<1>5. Own'
  BY <1>1, <1>4, OwnKept
<1>6. QED
  BY <1>1, <1>2, <1>3, <1>5 DEF RowsInv

\* Starting over in wiped tables keeps it.
LEMMA ResetRows ==
    ASSUME RowsInv, Reset
    PROVE  RowsInv'
<1>1. /\ pc = "reset" /\ pc' \in {"idle", "check"}
      /\ db' = Registered(db) /\ last' = StartBlock - 1
      /\ Done \/ UNCHANGED batch
      /\ UNCHANGED <<chain, safe, cut>>
  BY DEF Reset, GoOn, Done, history
<1>2. batch.from' \in Int /\ batch.to' \in Nat /\ OnChain(batch.view)'
  BY <1>1, FailKeeps DEF RowsInv
<1>3. Own
  BY <1>1 DEF RowsInv
<1>4. Own'
  BY <1>1, <1>3, OwnKept
<1>5. last' \in Heights
  BY <1>1, IndexerAssumption DEF Heights
<1>6. QED
  BY <1>1, <1>2, <1>4, <1>5 DEF RowsInv

\* So does a tick that fails, even where the database did what it was asked.
LEMMA TickFailsRows ==
    ASSUME RowsInv, ReadHeadFails \/ ResetFails \/ FetchFails
    PROVE  RowsInv'
<1>1. /\ Fail /\ pc \notin {"down", "refused"} /\ chain' = chain
      /\ Wipe \/ (db' = Registered(db) /\ cut' = cut) \/ KeepTables
  BY DEF ReadHeadFails, ResetFails, FetchFails, history, KeepTables
<1>2. pc' = "idle" /\ UNCHANGED <<last, safe>>
  BY <1>1 DEF Fail
<1>3. Own
  BY <1>1 DEF RowsInv
<1>4. Own'
  BY <1>1, <1>2, <1>3, OwnKept
<1>5. batch.from' \in Int /\ batch.to' \in Nat /\ OnChain(batch.view)'
  BY <1>1, FailKeeps
<1>6. QED
  BY <1>1, <1>2, <1>4, <1>5 DEF RowsInv

\* The reorg check writes nothing.
LEMMA CheckRows ==
    ASSUME RowsInv, CheckForReorg
    PROVE  RowsInv'
<1>1. /\ pc = "check" /\ pc' \in {"fetch", "rollback"} /\ UNCHANGED <<chain, db, locals, cut>>
      /\ pc' = "rollback" => Diverged
  BY DEF CheckForReorg, GoTo
<1>2. Own
  BY <1>1 DEF RowsInv
<1>3. Diverged => db.state.last # None
  BY <1>2 DEF Own, Diverged
<1>4. Own'
  BY <1>1, <1>2, <1>3 DEF Own, Traced
<1>5. QED
  BY <1>1, <1>4 DEF RowsInv, locals

\* A rollback keeps it, also one whose answer is lost.
LEMMA RollBackRows ==
    ASSUME RowsInv, RollBack \/ RollBackFails
    PROVE  RowsInv'
<1>1. /\ pc = "rollback" /\ pc' \in {"cursor", "fetch"}
      /\ db' = RollbackFrom(db, RewindTo(db.state.last)) \/ db' = db
      /\ last' = Rewound \/ last' = last
      /\ UNCHANGED <<chain, safe, batch>>
  BY DEF RollBack, RollBackFails, GoTo, locals
<1>2. Own
  BY <1>1 DEF RowsInv
<1>3. db.state.last \in Heights
  BY <1>1, <1>2 DEF Own
<1>4. last' \in Heights
  BY <1>1, <1>3, RewindIs DEF Rewound, RowsInv
<1>5. DOMAIN db' = Names /\ db'.state = db.state /\ db'.market = db.market /\ Traced(db')
  BY <1>1, <1>2, RolledIs DEF Own
<1>6. Own'
  BY <1>1, <1>2, <1>5 DEF Own, Traced
<1>7. QED
  BY <1>1, <1>4, <1>6 DEF RowsInv

\* Rewinding the cursor, or failing to, touches no row.
LEMMA CursorRows ==
    ASSUME RowsInv, RewindCursor
    PROVE  RowsInv'
<1>1. /\ pc = "cursor" /\ pc' = "fetch" /\ UNCHANGED <<chain, locals>>
      /\ \/ db' = [db EXCEPT !.state.last = last, !.state.hash = None] /\ ~cut'
         \/ UNCHANGED <<db, cut>>
  BY DEF RewindCursor, GoTo
<1>2. Own
  BY <1>1 DEF RowsInv
<1>3. Own'
  <2>1. CASE UNCHANGED <<db, cut>>
    BY <1>1, <1>2, <2>1 DEF Own, Traced
  <2>2. CASE db' = [db EXCEPT !.state.last = last, !.state.hash = None] /\ ~cut'
    <3>1. /\ DOMAIN db' = Names /\ DOMAIN db'.state = {"last", "hash", "anchor"}
          /\ db'.state.last = last /\ db'.state.hash = None /\ db'.market = db.market
          /\ \A x \in Kept : db'[x] = db[x]
      BY <1>2, <2>2 DEF Own, Names, Kept
    <3>2. Traced(db')
      BY <1>2, <3>1 DEF Own, Traced, Kept
    <3>3. QED
      BY <1>1, <1>2, <2>2, <3>1, <3>2 DEF Own, RowsInv, Traced
  <2>3. QED
    BY <1>1, <2>1, <2>2
<1>4. QED
  BY <1>1, <1>3 DEF RowsInv, locals

\* A batch is read from one chain.
LEMMA FetchRows ==
    ASSUME RowsInv, FetchLogs
    PROVE  RowsInv'
<1> DEFINE to == Min({last + BatchSize, safe})
<1>1. /\ pc = "fetch" /\ pc' = "commit"
      /\ batch' = [from |-> last + 1, to |-> to, view |-> Hash(to)]
      /\ UNCHANGED <<chain, db, last, safe, cut>>
  BY DEF FetchLogs, history
<1>2. to \in Nat
  BY LeastOf, IndexerAssumption DEF RowsInv, Heights
<1> HIDE DEF to
<1>3. OnChain(Hash(to))
  BY <1>2, OnChainIs DEF RowsInv, Hash
<1>4. batch'.from \in Int /\ batch'.to \in Nat /\ OnChain(batch'.view)
  BY <1>1, <1>2, <1>3 DEF RowsInv, Heights
<1>5. Own'
  BY <1>1 DEF RowsInv, Own, Traced
<1>6. QED
  BY <1>1, <1>4, <1>5 DEF RowsInv

\* A batch keeps it, also one whose answer is lost.
LEMMA CommitRows ==
    ASSUME RowsInv, CommitBatch
    PROVE  RowsInv'
<1> DEFINE u == Indexed(db, batch.from, batch.view)
<1>1. /\ pc = "commit" /\ pc' = "idle" /\ chain' = chain
      /\ db' = [u EXCEPT !.state = CursorAfter]
      /\ last' \in {last, batch.to} /\ (Done \/ Fail) /\ safe' = safe /\ cut' = FALSE
  BY DEF CommitBatch, Done, Fail
<1>2. Own
  BY <1>1 DEF RowsInv
<1>3. DOMAIN u = Names /\ u.state = db.state /\ u.market = db.market /\ Traced(u)
  BY <1>2, IndexedTraced DEF Own, RowsInv
<1> HIDE DEF u
<1>4. /\ DOMAIN db' = Names /\ db'.state = CursorAfter /\ db'.market = db.market
      /\ \A x \in Kept : db'[x] = u[x]
  BY <1>1, <1>3 DEF Names, Kept
<1>5. Traced(db')
  BY <1>3, <1>4 DEF Traced, Kept
<1>6. /\ DOMAIN CursorAfter = {"last", "hash", "anchor"}
      /\ CursorAfter.last = batch.to /\ batch.to \in Heights /\ batch.to # None
  BY LogAssumption DEF CursorAfter, RowsInv, Heights
<1>7. Own'
  BY <1>1, <1>2, <1>4, <1>5, <1>6 DEF Own, Traced
<1>8. batch.from' \in Int /\ batch.to' \in Nat /\ OnChain(batch.view)'
  BY <1>1, FailKeeps
<1>9. QED
  BY <1>1, <1>6, <1>7, <1>8 DEF RowsInv

\* A chain is looked at up to an integer length.
LEMMA LengthIs ==
    ASSUME RowsInv, NEW h \in Histories, NEW n, Extend(h, n) \/ Reorg(h, n)
    PROVE  n \in Int
<1>1. OnChain(chain)
  BY DEF RowsInv
<1>2. Len(chain) + 1 \in Int /\ StartBlock \in Int /\ Len(h) \in Int
  BY <1>1, ChainStart, OnChainIs, IndexerAssumption
<1>3. n \in Len(chain) + 1 .. Len(h) \/ n \in StartBlock .. Len(h)
  BY Zenon DEF Extend, Reorg
<1>4. QED
  BY <1>2, <1>3

\* Every step keeps it.
LEMMA NextRows == RowsInv /\ [Next]_vars => RowsInv'
<1> SUFFICES ASSUME RowsInv, [Next]_vars
             PROVE  RowsInv'
  OBVIOUS
<1>1. CASE UNCHANGED vars
  BY <1>1 DEF RowsInv, vars, locals, history, Own, Traced
<1>2. ASSUME NEW h \in Histories, NEW n \in Lengths, Extend(h, n) \/ Reorg(h, n)
      PROVE  RowsInv'
  <2>1. chain' = Prefix(h, n) /\ UNCHANGED <<db, pc, locals, cut>>
    BY <1>2 DEF Extend, Reorg, history
  <2>2. n \in Int
    BY <1>2, LengthIs
  <2>3. QED
    BY <2>1, <2>2, ChainRows
<1>3. CASE Crash
  <2>1. Exit("down") /\ UNCHANGED <<chain, db, cut>> /\ pc \notin {"down", "refused"}
    BY <1>3 DEF Crash, history
  <2>2. Own /\ pc' = "down"
    BY <2>1, ExitKeeps DEF RowsInv
  <2>3. Own'
    BY <2>1, <2>2 DEF Own, Traced
  <2>4. QED
    BY <2>1, <2>3, ExitKeeps DEF RowsInv
<1>4. CASE Refuse
  <2>1. Exit("refused") /\ pc' = "refused" /\ UNCHANGED <<chain, db, cut>>
    BY <1>4 DEF Refuse, Exit, history
  <2>2. Own => Own'
    BY <2>1 DEF Own, Traced
  <2>3. QED
    BY <2>1, <2>2, ExitKeeps DEF RowsInv
<1>5. CASE Relaunch
  <2>1. pc' = "down" /\ UNCHANGED <<chain, db, last, safe, batch, cut>>
    BY <1>5 DEF Relaunch, locals, history
  <2>2. Own => Own'
    BY <2>1 DEF Own, Traced
  <2>3. QED
    BY <2>1, <2>2 DEF RowsInv
<1>6. CASE Connect \/ Register \/ Resume \/ Reregister
  BY <1>6, StartRows DEF StartUp
<1>7. QED
  BY <1>1, <1>2, <1>3, <1>4, <1>5, <1>6, StartFailsRows, ReadHeadRows, ResetRows, TickFailsRows,
     CheckRows, RollBackRows, CursorRows, FetchRows, CommitRows DEF Next

\* It always holds.
LEMMA RowsAlways == Spec => []RowsInv
<1>1. QED
  BY InitRows, NextRows, PTL DEF Spec

\* And it gives the property.
LEMMA RowsTraced == RowsInv => RowsAreTraceable
<1> SUFFICES ASSUME RowsInv, db.market # OtherMarket
             PROVE  /\ \A r \in db.bets \union db.claims \union db.executions \union db.burnEvents :
                          \E v \in db.events : v.block = r.block /\ v.tx = r.tx
                    /\ \A v \in db.events : \E h \in Histories : IsPrefix(v.hash, h)
  BY DEF RowsAreTraceable
<1>1. Traced(db)
  BY IndexerAssumption DEF RowsInv, Own
<1>2. \A v \in db.events : \E h \in Histories : IsPrefix(v.hash, h)
  BY <1>1, OnChainIs DEF Traced
<1>3. QED
  BY <1>1, <1>2 DEF Traced, Kept

\* Every bet, claim, execution and burn event has a raw log in its block and transaction,
\* and every raw log is from a chain that came to be: whatever is lost, repeated, rolled
\* back or failed half way (handlers.ts:33).
THEOREM RowsAlwaysTraceable == Spec => []RowsAreTraceable
<1>1. QED
  BY RowsAlways, RowsTraced, PTL

-----------------------------------------------------------------------------
(* A stored tip hash certifies the rows *)

\* the tables keyed by log identity are those of chain c
Holds(c) == \A x \in Kept : db[x] = Table(x, c)

\* nothing indexed yet
Blank ==
    /\ db.state.last = None /\ db.state.hash = None
    /\ \A x \in Kept : db[x] = {}
    /\ pc \in {"check", "fetch", "commit"} => last < safe
    /\ pc \notin {"rollback", "cursor"}

\* a tip with its hash, with the rows of its chain or those a rollback left
Tipped ==
    /\ db.state.last \in Nat /\ db.state.hash # None
    /\ OnChain(db.state.hash) /\ Len(db.state.hash) = db.state.last
    /\ Holds(Covered)
    /\ pc \notin {"reset", "reregister"}
    /\ pc = "cursor" => cut
    /\ pc = "rollback" \/ (cut /\ InsideTick) =>
          Prefix(db.state.hash, Rewound) = Hash(Rewound)
    /\ cut /\ pc \in {"cursor", "fetch", "commit"} => last = Rewound
    /\ ~cut /\ pc \in {"fetch", "commit"} /\ db.state.last <= safe =>
          db.state.hash = Hash(db.state.last)
    /\ ~Stopped => last <= db.state.last

\* a rewound cursor, whose hash is not known
Untipped ==
    /\ db.state.last \in Heights /\ db.state.hash = None
    /\ db.state.last <= Len(chain)
    /\ Holds(Hash(db.state.last))
    /\ pc \notin {"rollback", "cursor", "reset", "reregister"}
    /\ ~cut
    /\ ~Stopped => last <= db.state.last

\* inside a tick that has read the head
Working == pc \in {"reset", "check", "rollback", "cursor", "fetch", "commit"}

\* As long as nothing happened that the code cannot see, the tables are those of a chain:
\* none yet, that of the stored hash, or the canonical one up to a cursor without a hash.
\* A batch is read from the canonical chain, right above what is known.
Certified ==
    db.market # OtherMarket /\ ~blind =>
        /\ Blank \/ Tipped \/ Untipped
        /\ Working => safe <= Len(chain)
        /\ pc = "commit" => /\ batch.from = last + 1
                            /\ batch.to = Min({last + BatchSize, safe})
                            /\ batch.view = Hash(batch.to)

\* It holds on a fresh database, and says nothing of another market's.
LEMMA InitCertified == Init => Certified
<1> SUFFICES ASSUME Init, db.market # OtherMarket
             PROVE  Blank /\ pc = "down"
  BY DEF Certified, Working, Init
<1>1. pc = "down" /\ db = EmptyTables
  BY IndexerAssumption DEF Init
<1>2. QED
  BY <1>1, EmptyIs DEF Blank, Stopped

\* Chains that agree up to a height are both that long or neither is.
LEMMA Within ==
    ASSUME NEW c \in Seq(Blocks), NEW d \in Seq(Blocks), NEW n \in Int,
           Prefix(c, n) = Prefix(d, n), n <= Len(c)
    PROVE  n <= Len(d)
<1>1. /\ Len(c) \in Nat /\ Len(d) \in Nat
      /\ Len(Prefix(c, n)) = IF n < 0 THEN 0 ELSE IF n <= Len(c) THEN n ELSE Len(c)
      /\ Len(Prefix(d, n)) = IF n < 0 THEN 0 ELSE IF n <= Len(d) THEN n ELSE Len(d)
  BY PrefixIs
<1>2. QED
  BY <1>1

\* Chains that agree up to a height agree below it.
LEMMA Below ==
    ASSUME NEW c \in Seq(Blocks), NEW d \in Seq(Blocks), NEW n \in Int,
           Prefix(c, n) = Prefix(d, n), NEW k \in Int, k <= n
    PROVE  Prefix(c, k) = Prefix(d, k)
<1>1. Prefix(Prefix(c, n), k) = Prefix(c, k) /\ Prefix(Prefix(d, n), k) = Prefix(d, k)
  BY PrefixAgain
<1>2. QED
  BY <1>1

\* The chain changes under the process: it keeps it where what the process relies on at
\* that point, the blocks up to the safe head or up to an unverified cursor, stays.
LEMMA ChainCertified ==
    ASSUME RowsInv, RowsInv', Certified, UNCHANGED <<db, pc, locals, cut>>,
           db.market # OtherMarket /\ ~blind' =>
             /\ ~blind
             /\ InsideTick => Prefix(chain, safe) = Prefix(chain', safe)
             /\ pc \in {"reset", "check"} => safe <= Len(chain')
             /\ Prefix(chain, Unverified) = Prefix(chain', Unverified)
    PROVE  Certified'
<1> SUFFICES ASSUME db.market # OtherMarket, ~blind'
             PROVE  /\ (Blank \/ Tipped \/ Untipped)'
                    /\ Working' => safe' <= Len(chain')
                    /\ pc' = "commit" => /\ batch.from' = last' + 1
                                         /\ batch.to' = Min({last' + BatchSize, safe'})
                                         /\ batch.view' = Hash(batch.to)'
  BY DEF Certified
<1> USE DEF locals
<1>1. /\ chain \in Seq(Blocks) /\ chain' \in Seq(Blocks) /\ Len(chain) \in Nat
      /\ Len(chain') \in Nat /\ safe \in Nat /\ last \in Int
  BY OnChainIs DEF RowsInv, Heights
<1>2. /\ Blank \/ Tipped \/ Untipped
      /\ Working => safe <= Len(chain)
      /\ pc = "commit" => /\ batch.from = last + 1
                          /\ batch.to = Min({last + BatchSize, safe})
                          /\ batch.view = Hash(batch.to)
  BY DEF Certified
<1>3. Working' => safe' <= Len(chain')
  <2>1. CASE pc \in {"reset", "check"}
    BY <2>1
  <2>2. CASE InsideTick
    BY <1>1, <1>2, <2>2, Within DEF Working, InsideTick
  <2>3. QED
    BY <2>1, <2>2 DEF Working, InsideTick
<1>4. ASSUME InsideTick, NEW n \in Int, n <= safe
      PROVE  Hash(n) = Hash(n)'
  <2>1. Prefix(chain, safe) = Prefix(chain', safe)
    BY <1>4
  <2>2. Prefix(chain, n) = Prefix(chain', n)
    BY <1>1, <1>4, <2>1, Below
  <2>3. QED
    BY <2>2 DEF Hash
<1>5. pc' = "commit" => /\ batch.from' = last' + 1
                        /\ batch.to' = Min({last' + BatchSize, safe'})
                        /\ batch.view' = Hash(batch.to)'
  <2> SUFFICES ASSUME pc = "commit"
               PROVE  batch.view = Hash(batch.to)'
    BY <1>2
  <2>1. batch.to \in Int /\ batch.to <= safe
    BY <1>1, <1>2, LeastOf, IndexerAssumption DEF RowsInv
  <2>2. InsideTick
    BY DEF InsideTick
  <2>3. QED
    BY <1>2, <1>4, <2>1, <2>2
<1>6. ASSUME Blank
      PROVE  Blank'
  BY <1>6 DEF Blank, Stopped
<1>7. ASSUME Tipped
      PROVE  Tipped'
  <2>1. pc = "rollback" \/ (cut /\ InsideTick) => Hash(Rewound) = Hash(Rewound)'
    BY DEF Unverified, Hash, Rewound
  <2>2. pc \in {"fetch", "commit"} /\ db.state.last <= safe =>
            Hash(db.state.last) = Hash(db.state.last)'
    BY <1>4, <1>7 DEF Tipped, InsideTick
  <2>3. Rewound' = Rewound /\ Covered' = Covered /\ InsideTick' = InsideTick
    BY DEF Rewound, Covered, InsideTick
  <2>4. Holds(Covered)'
    BY <1>7, <2>3 DEF Tipped, Holds
  <2>5. QED
    BY <1>7, <2>1, <2>2, <2>3, <2>4 DEF Tipped, Stopped
<1>8. ASSUME Untipped
      PROVE  Untipped'
  <2>1. Unverified = db.state.last
    BY <1>8, LogAssumption DEF Untipped, Unverified, Heights
  <2>2. db.state.last \in Int /\ Prefix(chain, db.state.last) = Prefix(chain', db.state.last)
    BY <1>8, <2>1 DEF Untipped, Heights
  <2>3. db.state.last <= Len(chain')
    BY <1>1, <1>8, <2>2, Within DEF Untipped
  <2>4. Hash(db.state.last) = Hash(db.state.last)'
    BY <2>2 DEF Hash
  <2>5. QED
    BY <1>8, <2>3, <2>4 DEF Untipped, Stopped, Holds
<1>9. QED
  BY <1>2, <1>3, <1>5, <1>6, <1>7, <1>8

\* A longer chain keeps it.
LEMMA ExtendCertified ==
    ASSUME RowsInv, RowsInv', Certified, NEW h \in Histories, NEW n \in Int, Extend(h, n)
    PROVE  Certified'
<1>1. /\ n \in Len(chain) + 1 .. Len(h) /\ IsPrefix(chain, h) /\ chain' = Prefix(h, n)
      /\ UNCHANGED <<db, pc, locals, cut>> /\ UNCHANGED blind
  BY DEF Extend, history
<1>2. chain \in Seq(Blocks) /\ Len(chain) \in Nat /\ h \in Seq(Blocks) /\ Len(h) \in Nat
  BY OnChainIs, ChainStart DEF RowsInv
<1>3. chain = Prefix(h, Len(chain)) /\ Len(chain) < n
  BY <1>1, <1>2, PrefixOfWhole
<1>4. Prefix(chain', Len(chain)) = chain /\ Prefix(chain, Len(chain)) = chain
  BY <1>1, <1>2, <1>3, PrefixAgain, PrefixWhole
<1>5. chain' \in Seq(Blocks) /\ Len(chain') = n
  BY <1>1, <1>2, PrefixIs
<1>6. \A k \in Int : k <= Len(chain) => Prefix(chain, k) = Prefix(chain', k)
  BY <1>2, <1>4, <1>5, Below
<1>7. ASSUME db.market # OtherMarket, ~blind
      PROVE  /\ Working => safe \in Int /\ safe <= Len(chain)
             /\ Unverified \in Int /\ Unverified <= Len(chain)
  <2>1. /\ Blank \/ Tipped \/ Untipped
        /\ Working => safe \in Int /\ safe <= Len(chain)
    BY <1>7 DEF Certified, RowsInv
  <2>2. CASE Blank
    <3>1. ~cut /\ pc # "rollback" /\ db.state.last = None
      BY <1>7, <2>2, IndexerAssumption DEF Blank, RowsInv, Own
    <3>2. QED
      BY <1>2, <2>1, <3>1 DEF Unverified
  <2>3. CASE Tipped
    <3> DEFINE H == db.state.hash
    <3>1. /\ H \in Seq(Blocks) /\ Len(H) = db.state.last /\ db.state.last \in Heights
          /\ Rewound \in Int /\ Rewound <= Len(H) /\ last \in Int
      <4>1. OnChain(H) /\ Len(H) = db.state.last /\ db.state.last \in Heights
        BY <2>3 DEF Tipped, Heights
      <4>2. /\ RewindTo(db.state.last) - 1 \in Heights
            /\ RewindTo(db.state.last) - 1 <= db.state.last
        BY <4>1, RewindIs
      <4>3. H \in Seq(Blocks)
        BY <4>1, OnChainIs
      <4>4. QED
        BY <4>1, <4>2, <4>3 DEF Heights, Rewound, RowsInv
    <3>2. CASE pc = "rollback" \/ (cut /\ InsideTick)
      <4>1. Unverified = Rewound /\ Prefix(H, Rewound) = Prefix(chain, Rewound)
        BY <2>3, <3>2 DEF Unverified, Tipped, Hash
      <4>2. Rewound <= Len(chain)
        BY <1>2, <3>1, <4>1, Within
      <4>3. QED
        BY <2>1, <3>1, <4>1, <4>2
    <3>3. CASE ~(pc = "rollback" \/ (cut /\ InsideTick))
      BY <1>2, <2>1, <2>3, <3>3 DEF Unverified, Tipped
    <3>4. QED
      BY <2>1, <3>2, <3>3
  <2>4. CASE Untipped
    BY <2>1, <2>4, <1>2 DEF Untipped, Unverified, Heights
  <2>5. QED
    BY <2>1, <2>2, <2>3, <2>4
<1>8. db.market # OtherMarket /\ ~blind' =>
        /\ ~blind
        /\ InsideTick => Prefix(chain, safe) = Prefix(chain', safe)
        /\ pc \in {"reset", "check"} => safe <= Len(chain')
        /\ Prefix(chain, Unverified) = Prefix(chain', Unverified)
  <2> SUFFICES ASSUME db.market # OtherMarket, ~blind'
               PROVE  /\ ~blind
                      /\ InsideTick => Prefix(chain, safe) = Prefix(chain', safe)
                      /\ pc \in {"reset", "check"} => safe <= Len(chain')
                      /\ Prefix(chain, Unverified) = Prefix(chain', Unverified)
    OBVIOUS
  <2>1. ~blind
    BY <1>1
  <2>2. /\ Working => safe \in Int /\ safe <= Len(chain)
        /\ Unverified \in Int /\ Unverified <= Len(chain)
    BY <1>7, <2>1
  <2>3. Prefix(chain, Unverified) = Prefix(chain', Unverified)
    BY <1>6, <2>2
  <2>4. InsideTick => Prefix(chain, safe) = Prefix(chain', safe)
    BY <1>6, <2>2 DEF Working, InsideTick
  <2>5. pc \in {"reset", "check"} => safe <= Len(chain')
    BY <1>2, <1>3, <1>5, <2>2 DEF Working
  <2>6. QED
    BY <2>1, <2>3, <2>4, <2>5
<1>9. QED
  BY <1>1, <1>8, ChainCertified

\* A reorg keeps it, or it is one of the blind ones.
LEMMA ReorgCertified ==
    ASSUME RowsInv, RowsInv', Certified, NEW h \in Histories, NEW n \in Int, Reorg(h, n)
    PROVE  Certified'
<1>1. /\ n \in StartBlock .. Len(h) /\ chain' = Prefix(h, n)
      /\ UNCHANGED <<db, pc, locals, cut>>
      /\ ~blind' => /\ ~blind
                    /\ ~(InsideTick /\ Prefix(chain, safe) # Prefix(chain', safe))
                    /\ ~(pc \in {"reset", "check"} /\ n < safe)
                    /\ Prefix(chain, Unverified) = Prefix(chain', Unverified)
  BY DEF Reorg
<1>2. h \in Seq(Blocks) /\ Len(h) \in Nat /\ StartBlock \in Nat
  BY ChainStart, IndexerAssumption
<1>3. Len(chain') = n
  BY <1>1, <1>2, PrefixIs
<1>4. ~blind' => /\ ~blind
                 /\ InsideTick => Prefix(chain, safe) = Prefix(chain', safe)
                 /\ pc \in {"reset", "check"} => safe <= Len(chain')
                 /\ Prefix(chain, Unverified) = Prefix(chain', Unverified)
  BY <1>1, <1>3 DEF RowsInv
<1>5. QED
  BY <1>1, <1>4, ChainCertified

\* A process that stops or starts up, or a tick that fails, keeps it where the rows stay.
LEMMA RestCertified ==
    ASSUME Certified, chain' = chain, ~blind' => ~blind, cut' = cut,
           db.market # OtherMarket, db'.state = db.state, \A x \in Kept : db'[x] = db[x],
           pc' \in {"down", "register", "resume", "refused", "idle"},
           pc' = "idle" => \/ pc = "reregister"
                           \/ ~Stopped /\ last' = last
                           \/ db.state.last # None => last' = db.state.last
    PROVE  Certified'
<1> SUFFICES ASSUME ~blind'
             PROVE  (Blank \/ Tipped \/ Untipped)'
  BY DEF Certified, Working
<1>1. Blank \/ Tipped \/ Untipped
  BY DEF Certified
<1>2. Blank => Blank'
  BY DEF Blank
<1>3. ASSUME Tipped
      PROVE  Tipped'
  <2>1. Covered' = Covered /\ ~InsideTick'
    BY DEF Covered, Rewound, InsideTick
  <2>2. Holds(Covered)'
    BY <1>3, <2>1 DEF Tipped, Holds
  <2>3. db.state.last # None
    BY <1>3, LogAssumption DEF Tipped
  <2>4. ~Stopped' => last' <= db'.state.last
    BY <1>3, <2>3 DEF Tipped, Stopped
  <2>5. QED
    BY <1>3, <2>1, <2>2, <2>4 DEF Tipped
<1>4. ASSUME Untipped
      PROVE  Untipped'
  <2>1. Hash(db.state.last)' = Hash(db.state.last)
    BY DEF Hash
  <2>2. Holds(Hash(db.state.last))'
    BY <1>4, <2>1 DEF Untipped, Holds
  <2>3. db.state.last # None
    BY <1>4, LogAssumption DEF Untipped, Heights
  <2>4. ~Stopped' => last' <= db'.state.last
    BY <1>4, <2>3 DEF Untipped, Stopped, Heights
  <2>5. QED
    BY <1>4, <2>2, <2>4 DEF Untipped
<1>5. QED
  BY <1>1, <1>2, <1>3, <1>4

\* Wiped tables are those of no chain.
LEMMA WipedCertified ==
    ASSUME Wipe, pc' \notin {"check", "rollback", "cursor", "fetch", "commit"},
           pc' = "reset" => safe' <= Len(chain')
    PROVE  Certified'
<1>1. db' = EmptyTables
  BY DEF Wipe, WipeChain
<1>2. Blank'
  BY <1>1, EmptyIs DEF Blank
<1>3. QED
  BY <1>2 DEF Certified, Working

\* Registering the market changes neither the rows nor the cursor.
LEMMA RegisteredRows ==
    ASSUME Own, db' = Registered(db)
    PROVE  /\ db.market # OtherMarket /\ db'.state = db.state
           /\ \A x \in Kept : db'[x] = db[x]
BY RegisteredIs, IndexerAssumption DEF Own

\* Starting up keeps it, wiping the tables of another market or of a replaced chain.
LEMMA StartCertified ==
    ASSUME RowsInv, Certified, StartUp \/ StartFails
    PROVE  Certified'
<1>1. CASE Connect
  <2>1. /\ Wipe \/ (db.market # OtherMarket /\ KeepTables)
        /\ pc' = "register" /\ chain' = chain
    BY <1>1 DEF Connect
  <2>2. CASE Wipe
    BY <2>1, <2>2, WipedCertified
  <2>3. CASE db.market # OtherMarket /\ KeepTables
    <3>1. db' = db /\ blind' = blind /\ cut' = cut
      BY <2>3 DEF KeepTables
    <3>2. QED
      BY <2>1, <2>3, <3>1, RestCertified
  <2>4. QED
    BY <2>1, <2>2, <2>3
<1>2. CASE Register
  <2>1. /\ db' = Registered(db) /\ pc = "register" /\ pc' = "resume"
        /\ UNCHANGED <<chain, blind, cut>>
    BY <1>2 DEF Register, history
  <2>2. Own
    BY <2>1 DEF RowsInv
  <2>3. QED
    BY <2>1, <2>2, RegisteredRows, RestCertified
<1>3. CASE Resume
  <2>1. /\ pc = "resume" /\ chain' = chain
        /\ \/ Wipe /\ pc' = "reregister"
           \/ /\ KeepTables /\ pc' = "idle"
              /\ last' = IF db.state.last = None THEN StartBlock - 1 ELSE db.state.last
    BY <1>3 DEF Resume
  <2>2. CASE Wipe /\ pc' = "reregister"
    BY <2>2, WipedCertified
  <2>3. CASE /\ KeepTables /\ pc' = "idle"
             /\ last' = IF db.state.last = None THEN StartBlock - 1 ELSE db.state.last
    <3>1. db' = db /\ blind' = blind /\ cut' = cut
      BY <2>3 DEF KeepTables
    <3>2. db.market # OtherMarket
      BY <2>1, IndexerAssumption DEF RowsInv, Own
    <3>3. QED
      BY <2>1, <2>3, <3>1, <3>2, RestCertified
  <2>4. QED
    BY <2>1, <2>2, <2>3
<1>4. CASE Reregister
  <2>1. /\ db' = Registered(db) /\ pc = "reregister" /\ pc' = "idle"
        /\ UNCHANGED <<chain, blind, cut>>
    BY <1>4 DEF Reregister, history
  <2>2. Own
    BY <2>1 DEF RowsInv
  <2>3. QED
    BY <2>1, <2>2, RegisteredRows, RestCertified
<1>5. CASE StartFails
  <2>1. /\ pc' = "refused" /\ chain' = chain
        /\ \/ KeepTables
           \/ Wipe
           \/ /\ pc \in {"register", "reregister"} /\ db' = Registered(db)
              /\ UNCHANGED <<blind, cut>>
    BY <1>5 DEF StartFails, Exit
  <2>2. CASE KeepTables
    <3>1. db' = db /\ blind' = blind /\ cut' = cut
      BY <2>2 DEF KeepTables
    <3>2. CASE db.market = OtherMarket
      BY <3>1, <3>2 DEF Certified
    <3>3. CASE db.market # OtherMarket
      BY <2>1, <3>1, <3>3, RestCertified
    <3>4. QED
      BY <3>2, <3>3
  <2>3. CASE Wipe
    BY <2>1, <2>3, WipedCertified
  <2>4. CASE /\ pc \in {"register", "reregister"} /\ db' = Registered(db)
             /\ UNCHANGED <<blind, cut>>
    <3>1. Own
      BY <2>4 DEF RowsInv
    <3>2. QED
      BY <2>1, <2>4, <3>1, RegisteredRows, RestCertified
  <2>5. QED
    BY <2>1, <2>2, <2>3, <2>4
<1>6. QED
  BY <1>1, <1>2, <1>3, <1>4, <1>5 DEF StartUp

\* Reading the head keeps it, wiping the tables where the chain is shorter than they are.
LEMMA ReadHeadCertified ==
    ASSUME RowsInv, RowsInv', Certified, ReadHead
    PROVE  Certified'
<1>1. /\ safe' = SafeHead /\ pc = "idle" /\ chain' = chain /\ last' = last
      /\ \/ Wipe /\ pc' = "reset"
         \/ KeepTables /\ pc' \in {"idle", "check"} /\ (pc' = "check" => ~(safe' <= last'))
  BY DEF ReadHead, GoOn, Done
<1>2. Len(chain) \in Nat /\ safe' \in Nat /\ safe' <= Len(chain) /\ last' \in Int
  BY <1>1, OnChainIs, IndexerAssumption DEF RowsInv, SafeHead, Heights
<1>3. CASE Wipe /\ pc' = "reset"
  BY <1>1, <1>2, <1>3, WipedCertified
<1>4. CASE KeepTables /\ pc' \in {"idle", "check"} /\ (pc' = "check" => ~(safe' <= last'))
  <2>1. UNCHANGED <<db, blind, cut>> /\ (pc' = "check" => last' < safe')
    BY <1>2, <1>4 DEF KeepTables
  <2> SUFFICES ASSUME db.market # OtherMarket, ~blind
               PROVE  (Blank \/ Tipped \/ Untipped)'
    BY <1>1, <1>2, <1>4, <2>1 DEF Certified, Working
  <2>2. Blank \/ Tipped \/ Untipped
    BY DEF Certified
  <2>3. Blank => Blank'
    BY <1>4, <2>1 DEF Blank
  <2>4. ASSUME Tipped
        PROVE  Tipped'
    <3>1. Covered' = Covered /\ ~InsideTick'
      BY <1>4, <2>1 DEF Covered, Rewound, InsideTick
    <3>2. QED
      BY <1>1, <1>4, <2>1, <2>4, <3>1 DEF Tipped, Stopped, Holds
  <2>5. ASSUME Untipped
        PROVE  Untipped'
    <3>1. Hash(db.state.last)' = Hash(db.state.last)
      BY <1>1, <2>1 DEF Hash
    <3>2. QED
      BY <1>1, <1>4, <2>1, <2>5, <3>1 DEF Untipped, Stopped, Holds
  <2>6. QED
    BY <2>2, <2>3, <2>4, <2>5
<1>5. QED
  BY <1>1, <1>3, <1>4

\* Starting over in the wiped tables keeps it.
LEMMA ResetCertified ==
    ASSUME RowsInv, RowsInv', Certified, Reset
    PROVE  Certified'
<1>1. /\ pc = "reset" /\ pc' \in {"idle", "check"} /\ db' = Registered(db)
      /\ UNCHANGED <<chain, safe, blind, cut>>
      /\ pc' = "check" => ~(safe' <= last')
  BY DEF Reset, GoOn, Done, history
<1>2. last' \in Int /\ safe' \in Int
  BY DEF RowsInv, Heights
<1>3. Own
  BY <1>1 DEF RowsInv
<1> SUFFICES ASSUME ~blind
             PROVE  Blank' /\ safe' <= Len(chain')
  BY <1>1 DEF Certified, Working
<1>4. Blank /\ safe <= Len(chain)
  BY <1>1, <1>3, RegisteredRows DEF Certified, Working, Tipped, Untipped
<1>5. QED
  BY <1>1, <1>2, <1>3, <1>4, RegisteredRows DEF Blank

\* A tick that fails keeps it, also where it wiped the tables and the cursor stays: the next
\* batch is above them, unless the head is still below the cursor.
LEMMA TickFailsCertified ==
    ASSUME RowsInv, Certified, ReadHeadFails \/ ResetFails \/ FetchFails
    PROVE  Certified'
<1>1. /\ Fail /\ ~Stopped /\ pc # "reregister" /\ chain' = chain
      /\ \/ Wipe
         \/ db' = Registered(db) /\ UNCHANGED <<blind, cut>>
         \/ KeepTables
  BY DEF ReadHeadFails, ResetFails, FetchFails, history, KeepTables, Stopped
<1>2. pc' = "idle" /\ last' = last
  BY <1>1 DEF Fail
<1>3. Own /\ db.market # OtherMarket
  BY <1>1, IndexerAssumption DEF RowsInv, Own, Stopped
<1>4. CASE Wipe
  BY <1>2, <1>4, WipedCertified
<1>5. CASE db' = Registered(db) /\ UNCHANGED <<blind, cut>>
  BY <1>1, <1>2, <1>3, <1>5, RegisteredRows, RestCertified
<1>6. CASE KeepTables
  <2>1. db' = db /\ blind' = blind /\ cut' = cut
    BY <1>6 DEF KeepTables
  <2>2. QED
    BY <1>1, <1>2, <1>3, <2>1, RestCertified
<1>7. QED
  BY <1>1, <1>4, <1>5, <1>6

\* The check finds a tip that is no longer canonical, and rolls back to blocks that are,
\* or goes on with a tip that is canonical.
LEMMA CheckCertified ==
    ASSUME RowsInv, Certified, CheckForReorg
    PROVE  Certified'
<1>1. /\ pc = "check" /\ pc' \in {"fetch", "rollback"} /\ UNCHANGED <<chain, db, locals, cut>>
      /\ ~blind' => ~blind
      /\ ~blind' /\ pc' = "fetch" => ~Diverged /\ (cut => last = Rewound)
      /\ ~blind' /\ pc' = "rollback" =>
            Diverged /\ Prefix(db.state.hash, Rewound) = Hash(Rewound)
  <2>1. /\ pc = "check" /\ pc' \in {"fetch", "rollback"}
        /\ UNCHANGED <<chain, db, locals, cut>>
    BY DEF CheckForReorg, GoTo
  <2>2. CASE ~Diverged /\ GoTo("fetch") /\ blind' = (blind \/ (cut /\ last # Rewound))
    BY <2>1, <2>2 DEF GoTo
  <2>3. CASE /\ Diverged /\ GoTo("rollback")
             /\ blind' = (blind \/ Prefix(db.state.hash, Rewound) # Hash(Rewound))
    BY <2>1, <2>3 DEF GoTo
  <2>4. CASE blind' = TRUE
    BY <2>1, <2>4
  <2>5. QED
    BY <2>2, <2>3, <2>4 DEF CheckForReorg
<1> SUFFICES ASSUME db.market # OtherMarket, ~blind'
             PROVE  (Blank \/ Tipped \/ Untipped)' /\ safe' <= Len(chain')
  BY <1>1 DEF Certified
<1>2. /\ Blank \/ Tipped \/ Untipped
      /\ safe <= Len(chain)
  BY <1>1 DEF Certified, Working
<1>3. \A n : Hash(n)' = Hash(n)
  BY <1>1 DEF Hash
<1>4. ASSUME Blank
      PROVE  Blank'
  <2>1. ~Diverged
    BY <1>4 DEF Blank, Diverged
  <2>2. pc' = "fetch"
    BY <1>1, <2>1
  <2>3. QED
    BY <1>1, <1>4, <2>2 DEF Blank, locals
<1>5. ASSUME Tipped
      PROVE  Tipped'
  <2>1. pc' = "fetch" => db.state.hash = Hash(db.state.last)
    BY <1>1, <1>5 DEF Tipped, Diverged
  <2>2. Rewound' = Rewound /\ Covered' = Covered /\ Hash(Rewound)' = Hash(Rewound)
    BY <1>1 DEF Rewound, Covered, Hash
  <2>3. Hash(db.state.last)' = Hash(db.state.last)
    BY <1>1 DEF Hash
  <2>4. pc' = "fetch" => Prefix(db.state.hash, Rewound) = Hash(Rewound)
    <3>1. /\ db.state.last \in Heights /\ Rewound \in Int /\ Rewound <= db.state.last
          /\ chain \in Seq(Blocks)
      <4>1. db.state.last \in Heights /\ OnChain(chain)
        BY <1>5 DEF Tipped, Heights, RowsInv
      <4>2. Rewound \in Heights /\ Rewound <= db.state.last
        BY <4>1, RewindIs DEF Rewound
      <4>3. QED
        BY <4>1, <4>2, OnChainIs DEF Heights
    <3>2. Prefix(Hash(db.state.last), Rewound) = Hash(Rewound)
      BY <3>1, PrefixAgain DEF Hash, Heights
    <3>3. QED
      BY <2>1, <3>2
  <2>5. Holds(Covered)' /\ last' = last
    BY <1>1, <1>5, <2>2 DEF Tipped, Holds, locals
  <2>6. CASE pc' = "fetch"
    BY <1>1, <1>5, <2>1, <2>2, <2>3, <2>4, <2>5, <2>6 DEF Tipped, Stopped
  <2>7. CASE pc' = "rollback"
    BY <1>1, <1>5, <2>2, <2>5, <2>7 DEF Tipped, Stopped
  <2>8. QED
    BY <1>1, <2>6, <2>7
<1>6. ASSUME Untipped
      PROVE  Untipped'
  <2>1. ~Diverged
    BY <1>6 DEF Untipped, Diverged
  <2>2. pc' = "fetch"
    BY <1>1, <2>1
  <2>3. Hash(db.state.last)' = Hash(db.state.last)
    BY <1>1 DEF Hash
  <2>4. QED
    BY <1>1, <1>6, <2>2, <2>3 DEF Untipped, Stopped, Holds, locals
<1>7. QED
  BY <1>1, <1>2, <1>4, <1>5, <1>6 DEF locals

\* A rollback leaves the tables of the chain cut at the rewind, with the old tip still stored;
\* one that is repeated finds them so.
LEMMA RollBackCertified ==
    ASSUME RowsInv, Certified, RollBack
    PROVE  Certified'
<1> DEFINE n == RewindTo(db.state.last)
           H == db.state.hash
<1>1. /\ pc = "rollback" /\ pc' = "cursor"
      /\ db' = RollbackFrom(db, n) /\ last' = Rewound /\ cut' = TRUE
      /\ UNCHANGED <<chain, safe, batch, blind>>
  BY DEF RollBack
<1>2. Own
  BY <1>1 DEF RowsInv
<1>3. db'.state = db.state /\ db'.market = db.market
      /\ \A x \in Kept : db'[x] = {r \in db[x] : r.block < n}
  BY <1>1, <1>2, RolledIs DEF Own
<1> SUFFICES ASSUME db.market # OtherMarket, ~blind
             PROVE  Tipped' /\ safe' <= Len(chain')
  BY <1>1, <1>3 DEF Certified
<1>4. Tipped /\ safe <= Len(chain)
  BY <1>1 DEF Certified, Working, Blank, Untipped
<1>5. /\ db.state.last \in Heights /\ H \in Seq(Blocks) /\ Len(H) = db.state.last
      /\ Holds(Covered) /\ Prefix(H, Rewound) = Hash(Rewound)
  <2>1. /\ db.state.last \in Heights /\ OnChain(H) /\ Len(H) = db.state.last
        /\ Holds(Covered) /\ Prefix(H, Rewound) = Hash(Rewound)
    BY <1>1, <1>4 DEF Tipped, Heights
  <2>2. QED
    BY <2>1, OnChainIs
<1>6. n \in Nat /\ Rewound \in Int /\ Rewound = n - 1 /\ Rewound <= db.state.last
  BY <1>5, RewindIs DEF Rewound, Heights
<1>7. ASSUME NEW x \in Kept
      PROVE  db'[x] = Table(x, Prefix(H, Rewound))
  <2>1. db'[x] = {r \in Table(x, Covered) : r.block < n}
    BY <1>3, <1>5 DEF Holds
  <2>2. /\ Table(x, Prefix(H, Rewound)) = {r \in Table(x, H) : r.block <= Rewound}
        /\ \A r \in Table(x, H) : r.block \in StartBlock .. Len(H)
    BY <1>5, <1>6, TableOfPrefix
  <2>3. \A r \in Table(x, H) : r.block < n <=> r.block <= Rewound
    BY <1>5, <1>6, <2>2, IndexerAssumption
  <2>4. Covered \in {H, Prefix(H, Rewound)}
    BY DEF Covered
  <2> HIDE DEF H, n
  <2>5. QED
    BY <2>1, <2>2, <2>3, <2>4
<1>8. /\ Rewound' = Rewound /\ Hash(Rewound)' = Hash(Rewound) /\ H' = H
      /\ Covered' = Prefix(H, Rewound)
  BY <1>1, <1>3 DEF Rewound, Hash, Covered
<1>9. last' <= db'.state.last
  BY <1>1, <1>3, <1>6
<1>10. Holds(Covered)'
  BY <1>7, <1>8 DEF Holds
<1>11. Prefix(H, Rewound)' = Hash(Rewound)'
  BY <1>5, <1>8
<1>12. Tipped'
  BY <1>1, <1>3, <1>4, <1>8, <1>9, <1>10, <1>11 DEF Tipped
<1>13. QED
  BY <1>1, <1>4, <1>12

\* The rewound cursor forgets the hash; where it could not be stored, the tip stays, of which
\* the tables hold the part that is canonical.
LEMMA CursorCertified ==
    ASSUME RowsInv, Certified, RewindCursor
    PROVE  Certified'
<1>1. /\ pc = "cursor" /\ pc' = "fetch" /\ UNCHANGED <<chain, locals, blind>>
      /\ \/ db' = [db EXCEPT !.state.last = last, !.state.hash = None] /\ ~cut'
         \/ UNCHANGED <<db, cut>>
  BY DEF RewindCursor, GoTo
<1>2. Own /\ db.market # OtherMarket
  BY <1>1, IndexerAssumption DEF RowsInv, Own
<1> SUFFICES ASSUME ~blind
             PROVE  (Tipped \/ Untipped)' /\ safe' <= Len(chain')
  BY <1>1 DEF Certified
<1>3. Tipped /\ safe <= Len(chain)
  BY <1>1, <1>2 DEF Certified, Working, Blank, Untipped
<1>4. /\ cut /\ last = Rewound /\ Covered = Prefix(db.state.hash, Rewound)
      /\ Prefix(db.state.hash, Rewound) = Hash(Rewound) /\ last <= db.state.last
  BY <1>1, <1>3 DEF Tipped, InsideTick, Covered, Stopped
<1>5. last' = last /\ safe' = safe
  BY <1>1 DEF locals
<1>6. CASE UNCHANGED <<db, cut>>
  <2>1. Rewound' = Rewound /\ Covered' = Covered /\ Hash(Rewound)' = Hash(Rewound)
    BY <1>1, <1>6 DEF Rewound, Covered, Hash
  <2>2. Holds(Covered)'
    BY <1>3, <1>6, <2>1 DEF Tipped, Holds
  <2>3. Tipped'
    BY <1>1, <1>3, <1>4, <1>5, <1>6, <2>1, <2>2 DEF Tipped
  <2>4. QED
    BY <1>1, <1>3, <1>5, <2>3
<1>7. CASE db' = [db EXCEPT !.state.last = last, !.state.hash = None] /\ ~cut'
  <2>1. /\ db'.state.last = last /\ db'.state.hash = None /\ db'.market = db.market
        /\ \A x \in Kept : db'[x] = db[x]
    BY <1>2, <1>7 DEF Own, Names, Kept
  <2> DEFINE H == db.state.hash
  <2>2. /\ last \in Heights /\ H \in Seq(Blocks) /\ last <= Len(H)
        /\ Holds(Prefix(H, last)) /\ Prefix(H, last) = Hash(last)
    BY <1>3, <1>4, OnChainIs DEF Tipped, RowsInv
  <2>3. last <= Len(chain)
    BY <2>2, OnChainIs, Within DEF RowsInv, Heights, Hash
  <2>4. Hash(db.state.last)' = Prefix(H, last)
    BY <1>1, <2>1, <2>2 DEF Hash
  <2>5. Holds(Hash(db.state.last))'
    BY <2>1, <2>2, <2>4 DEF Holds
  <2>6. db'.state.last \in Heights /\ last' <= db'.state.last
    BY <1>5, <2>1, <2>2 DEF Heights
  <2>7. db'.state.last <= Len(chain')
    BY <1>1, <2>1, <2>3
  <2>8. Untipped'
    BY <1>1, <1>7, <2>1, <2>5, <2>6, <2>7 DEF Untipped
  <2>9. QED
    BY <1>1, <1>3, <1>5, <2>8
<1>8. QED
  BY <1>1, <1>6, <1>7

\* A batch starts right above the cursor and is read from the canonical chain.
LEMMA FetchCertified ==
    ASSUME RowsInv, RowsInv', Certified, FetchLogs
    PROVE  Certified'
<1>1. /\ pc = "fetch" /\ pc' = "commit"
      /\ batch'.from = last + 1 /\ batch'.to = Min({last + BatchSize, safe})
      /\ batch'.view = Hash(batch'.to)
      /\ UNCHANGED <<chain, db, last, safe, blind, cut>>
  BY DEF FetchLogs, history
<1> SUFFICES ASSUME db.market # OtherMarket, ~blind
             PROVE  /\ (Blank \/ Tipped \/ Untipped)' /\ safe' <= Len(chain')
                    /\ batch'.view = Hash(batch.to)'
  BY <1>1 DEF Certified
<1>2. (Blank \/ Tipped \/ Untipped) /\ safe <= Len(chain)
  BY <1>1 DEF Certified, Working
<1>3. Hash(db.state.last)' = Hash(db.state.last)
  BY <1>1 DEF Hash
<1>4. Blank => Blank'
  BY <1>1 DEF Blank
<1>5. ASSUME Tipped
      PROVE  Tipped'
  <2>1. Rewound' = Rewound /\ Covered' = Covered /\ Hash(Rewound)' = Hash(Rewound)
    BY <1>1 DEF Rewound, Covered, Hash
  <2>2. Holds(Covered)'
    BY <1>1, <1>5, <2>1 DEF Tipped, Holds
  <2>3. QED
    BY <1>1, <1>3, <1>5, <2>1, <2>2 DEF Tipped, Stopped, InsideTick
<1>6. Untipped => Untipped'
  BY <1>1, <1>3 DEF Untipped, Stopped, Holds
<1>7. batch'.view = Hash(batch.to)'
  BY <1>1 DEF Hash
<1>8. QED
  BY <1>1, <1>2, <1>4, <1>5, <1>6, <1>7

\* A batch brings the tables to its tip: what they held is below the batch or the same as
\* in it, so that writing it again adds nothing.
LEMMA CommitCertified ==
    ASSUME RowsInv, RowsInv', Certified, CommitBatch
    PROVE  Certified'
<1> DEFINE u == Indexed(db, batch.from, batch.view)
           view == batch.view
           L == db.state.last
           H == db.state.hash
<1>1. /\ pc = "commit" /\ pc' = "idle" /\ chain' = chain /\ batch.to <= Len(chain)
      /\ db' = [u EXCEPT !.state = CursorAfter]
      /\ last' \in {last, batch.to} /\ ~cut'
      /\ ~blind' => ~blind /\ ~GoesBack /\ ~SkipsAhead
  BY DEF CommitBatch, Done, Fail
<1>2. Own
  BY <1>1 DEF RowsInv
<1> SUFFICES ASSUME ~blind'
             PROVE  (Tipped \/ Untipped)'
  BY <1>1 DEF Certified, Working
<1>3. /\ Blank \/ Tipped \/ Untipped
      /\ safe <= Len(chain) /\ batch.from = last + 1
      /\ batch.to = Min({last + BatchSize, safe}) /\ view = Hash(batch.to)
  <2>1. db.market # OtherMarket
    BY <1>2, IndexerAssumption DEF Own
  <2>2. QED
    BY <1>1, <2>1 DEF Certified, Working
<1>4. /\ last \in Int /\ safe \in Nat /\ batch.to \in Nat /\ batch.from \in Int
      /\ batch.to <= safe /\ (last < safe => last <= batch.to)
      /\ chain \in Seq(Blocks) /\ StartBlock \in Nat
  <2>1. last \in Int /\ safe \in Nat /\ batch.to \in Nat /\ batch.from \in Int
    BY DEF RowsInv, Heights
  <2>2. BatchSize \in Nat /\ StartBlock \in Nat
    BY IndexerAssumption
  <2>3. batch.to = IF last + BatchSize <= safe THEN last + BatchSize ELSE safe
    BY <1>3, <2>1, <2>2, LeastOf
  <2>4. chain \in Seq(Blocks)
    BY OnChainIs DEF RowsInv
  <2>5. QED
    BY <2>1, <2>2, <2>3, <2>4
<1>5. view \in Seq(Blocks) /\ Len(view) = batch.to /\ OnChain(view)
  BY <1>1, <1>3, <1>4, PrefixIs DEF Hash, RowsInv
<1>6. \A x \in Kept : Table(x, view) = {r \in Table(x, view) : r.block \in StartBlock .. batch.to}
  BY <1>4, <1>5, TableOfPrefix
<1>7. /\ last <= batch.to
      /\ \A x \in Kept : /\ db[x] \subseteq Table(x, view)
                         /\ \A r \in Table(x, view) : r.block < batch.from => r \in db[x]
  <2>1. ASSUME NEW k \in Int, k <= batch.to, last <= k, Holds(Prefix(view, k))
        PROVE  /\ last <= batch.to
               /\ \A x \in Kept : /\ db[x] \subseteq Table(x, view)
                                  /\ \A r \in Table(x, view) : r.block < batch.from => r \in db[x]
    <3>1. \A x \in Kept : db[x] = {r \in Table(x, view) : r.block <= k}
      BY <1>5, <2>1, TableOfPrefix DEF Holds
    <3>2. \A x \in Kept : \A r \in Table(x, view) : r.block \in Int
      BY <1>4, <1>6
    <3>3. ASSUME NEW x \in Kept, NEW r \in Table(x, view), r.block < batch.from
          PROVE  r \in db[x]
      <4>1. r.block \in Int
        BY <3>2
      <4>2. r.block <= k
        BY <1>3, <1>4, <2>1, <3>3, <4>1
      <4>3. QED
        BY <3>1, <4>2
    <3>4. last <= batch.to
      BY <1>4, <2>1
    <3>5. QED
      BY <3>1, <3>3, <3>4
  <2>2. CASE Blank
    <3>1. last <= batch.to /\ L = None /\ \A x \in Kept : db[x] = {}
      BY <1>1, <1>4, <2>2 DEF Blank
    <3>2. ~(batch.from > StartBlock)
      BY <1>1, <3>1 DEF SkipsAhead
    <3>3. ASSUME NEW x \in Kept, NEW r \in Table(x, view)
          PROVE  ~(r.block < batch.from)
      <4>1. r.block \in StartBlock .. batch.to
        BY <1>6
      <4>2. QED
        BY <1>4, <3>2, <4>1
    <3>4. QED
      BY <3>1, <3>3
  <2>3. CASE Tipped /\ cut
    <3>1. L \in Heights /\ L # None /\ Rewound \in Int
      <4>1. L \in Heights /\ L # None
        BY <2>3, LogAssumption DEF Tipped, Heights
      <4>2. QED
        BY <4>1, RewindIs DEF Heights, Rewound
    <3>2. /\ last = Rewound /\ Holds(Prefix(H, Rewound))
          /\ Prefix(H, Rewound) = Prefix(chain, Rewound)
      BY <1>1, <2>3 DEF Tipped, InsideTick, Covered, Hash
    <3>3. Rewound <= batch.to
      BY <1>1, <1>4, <2>3, <3>1 DEF GoesBack
    <3>4. Prefix(H, Rewound) = Prefix(view, Rewound)
      BY <1>3, <1>4, <3>1, <3>2, <3>3, PrefixAgain DEF Hash
    <3>5. Holds(Prefix(view, Rewound)) /\ last <= Rewound
      BY <1>4, <3>2, <3>4
    <3>6. QED
      BY <2>1, <3>1, <3>3, <3>5
  <2>4. CASE Tipped /\ ~cut
    <3>1. L \in Int /\ L # None /\ last <= L /\ Holds(H)
      BY <1>1, <2>4, LogAssumption DEF Tipped, Stopped, Covered
    <3>2. L <= batch.to
      BY <1>1, <1>4, <2>4, <3>1 DEF GoesBack
    <3>3. H = Prefix(chain, L)
      BY <1>1, <1>4, <2>4, <3>1, <3>2 DEF Tipped, Hash
    <3>4. H = Prefix(view, L)
      BY <1>3, <1>4, <3>1, <3>2, <3>3, PrefixAgain DEF Hash
    <3>5. QED
      BY <2>1, <3>1, <3>2, <3>4
  <2>5. CASE Untipped
    <3>1. L \in Int /\ L # None /\ last <= L /\ Holds(Prefix(chain, L)) /\ ~cut
      BY <1>1, <2>5, LogAssumption DEF Untipped, Stopped, Heights, Hash
    <3>2. L <= batch.to
      BY <1>1, <1>4, <3>1 DEF GoesBack
    <3>3. Prefix(chain, L) = Prefix(view, L)
      BY <1>3, <1>4, <3>1, <3>2, PrefixAgain DEF Hash
    <3>4. QED
      BY <2>1, <3>1, <3>2, <3>3
  <2>6. QED
    BY <1>3, <2>2, <2>3, <2>4, <2>5
<1>8. /\ DOMAIN u = Names
      /\ \A x \in Kept : u[x] = db[x] \union {r \in Table(x, view) : r.block >= batch.from}
  BY <1>2, <1>4, <1>5, <1>7, TablesUnique, IndexedAdds DEF Own
<1> HIDE DEF u
<1>9. PICK v \in Seq(Blocks) : v = view
  BY <1>5
<1>10. \A x \in Kept : db'[x] = Table(x, v)
  <2>1. ASSUME NEW x \in Kept
        PROVE  u[x] = Table(x, view)
    <3>1. \A r \in Table(x, view) : r.block \in Int
      BY <1>4, <1>6
    <3>2. \A r \in Table(x, view) : r.block < batch.from \/ r.block >= batch.from
      BY <1>4, <3>1
    <3>3. db[x] \subseteq Table(x, view)
      BY <1>7
    <3>4. \A r \in Table(x, view) : r.block < batch.from => r \in db[x]
      BY <1>7
    <3>5. u[x] = db[x] \union {r \in Table(x, view) : r.block >= batch.from}
      BY <1>8
    <3>6. QED
      BY <3>2, <3>3, <3>4, <3>5
  <2>2. \A x \in Kept : db'[x] = u[x]
    BY <1>1, <1>8 DEF Names, Kept
  <2>3. QED
    BY <1>9, <2>1, <2>2
<1>11. db'.state.last = batch.to /\ db'.state.hash = v
  BY <1>1, <1>3, <1>8, <1>9 DEF CursorAfter, Names
<1>12. Holds(v)' /\ Covered' = v
  BY <1>1, <1>10, <1>11 DEF Holds, Covered
<1>13. Hash(db.state.last)' = v
  BY <1>1, <1>3, <1>9, <1>11 DEF Hash
<1>14. last' <= batch.to
  BY <1>1, <1>4, <1>7
<1>15. Len(v) = batch.to /\ OnChain(v)
  BY <1>5, <1>9
<1>16. ASSUME v # None
       PROVE  Tipped'
  <2>1. ~InsideTick'
    BY <1>1 DEF InsideTick
  <2>2. Holds(Covered)'
    BY <1>12 DEF Holds
  <2>3. QED
    BY <1>1, <1>4, <1>11, <1>14, <1>15, <1>16, <2>1, <2>2 DEF Tipped
<1>17. ASSUME v = None
       PROVE  Untipped'
  <2>1. Holds(Hash(db.state.last))'
    BY <1>12, <1>13 DEF Holds
  <2>2. QED
    BY <1>1, <1>4, <1>11, <1>14, <1>17, <2>1 DEF Untipped, Heights
<1>18. QED
  BY <1>16, <1>17

\* Every step keeps it.
LEMMA NextCertified == RowsInv /\ Certified /\ [Next]_vars => Certified'
<1> SUFFICES ASSUME RowsInv, Certified, [Next]_vars
             PROVE  Certified'
  OBVIOUS
<1>1. RowsInv'
  BY NextRows
<1>2. CASE UNCHANGED vars
  <2>1. \A n : Hash(n)' = Hash(n)
    BY <1>2 DEF Hash, vars
  <2>2. UNCHANGED <<chain, db, pc, last, safe, batch, blind, cut>>
    BY <1>2 DEF vars, locals, history
  <2>3. Rewound' = Rewound /\ Covered' = Covered /\ InsideTick' = InsideTick
    BY <2>2 DEF Rewound, Covered, InsideTick
  <2>4. Blank => Blank'
    BY <2>2 DEF Blank
  <2>5. Tipped => Tipped'
    BY <2>1, <2>2, <2>3 DEF Tipped, Stopped, Holds
  <2>6. Untipped => Untipped'
    BY <2>1, <2>2 DEF Untipped, Stopped, Holds
  <2>7. QED
    BY <2>1, <2>2, <2>4, <2>5, <2>6 DEF Certified, Working
<1>3. ASSUME NEW h \in Histories, NEW n \in Lengths, Extend(h, n) \/ Reorg(h, n)
      PROVE  Certified'
  <2>1. n \in Int
    BY <1>3, LengthIs
  <2>2. QED
    BY <1>1, <1>3, <2>1, ExtendCertified, ReorgCertified
<1>4. CASE Crash \/ Refuse \/ Relaunch
  <2>1. UNCHANGED <<db, chain, blind, cut>> /\ pc' \in {"down", "refused"}
    BY <1>4 DEF Crash, Refuse, Relaunch, Exit, history
  <2>2. CASE db.market = OtherMarket
    BY <2>1, <2>2 DEF Certified
  <2>3. CASE db.market # OtherMarket
    BY <2>1, <2>3, RestCertified
  <2>4. QED
    BY <2>2, <2>3
<1>5. CASE RollBackFails
  BY <1>5 DEF RollBackFails, Certified
<1>6. CASE Connect \/ Register \/ Resume \/ Reregister \/ StartFails
  BY <1>6, StartCertified DEF StartUp
<1>7. QED
  BY <1>1, <1>2, <1>3, <1>4, <1>5, <1>6, ReadHeadCertified, ResetCertified, TickFailsCertified,
     CheckCertified, RollBackCertified, CursorCertified, FetchCertified, CommitCertified DEF Next

\* both together are inductive
IndexerInv == RowsInv /\ Certified

\* They always hold.
LEMMA IndexerAlways == Spec => []IndexerInv
<1>1. Init => IndexerInv
  BY InitRows, InitCertified DEF IndexerInv
<1>2. IndexerInv /\ [Next]_vars => IndexerInv'
  BY NextRows, NextCertified DEF IndexerInv
<1>3. QED
  BY <1>1, <1>2, PTL DEF Spec

\* And they give the property.
LEMMA TipCertified == IndexerInv => TipCertifiesRows
<1> SUFFICES ASSUME IndexerInv, HasTip, ~blind
             PROVE  /\ db.events = EventsOf(Covered)
                    /\ db.bets = BetsOf(Covered)
                    /\ db.claims = ClaimsOf(Covered)
                    /\ db.executions = ExecutionsOf(Covered)
                    /\ db.burnEvents = BurnEventsOf(Covered)
  BY DEF TipCertifiesRows
<1>1. PICK c : c = Covered
  OBVIOUS
<1>2. Tipped
  BY DEF IndexerInv, Certified, HasTip, Blank, Untipped
<1>3. \A x \in Kept : db[x] = Table(x, c)
  BY <1>1, <1>2 DEF Tipped, Holds
<1>4. c \in Seq(Blocks)
  <2>1. OnChain(db.state.hash) /\ Rewound \in Int
    BY <1>2, RewindIs DEF Tipped, Rewound, Heights
  <2>2. OnChain(c)
    BY <1>1, <2>1, OnChainIs DEF Covered
  <2>3. QED
    BY <2>2, OnChainIs
<1>5. QED
  BY <1>1, <1>3, <1>4, TablesAre DEF Kept

\* A stored tip hash always certifies the rows of the chain it ends, or those of it that a
\* rollback left, whatever was replayed after crashes, lost commits and reorgs, unless the
\* process was blind: the chain changed where indexer.ts:233-265 does not look, the check or
\* the rollback failed, a batch was repeated below the tip, or the process and the tables
\* disagree on where to go on, after a wipe (:205-207) or a rollback (:256-261) that was
\* left half way and a chain that came back to the old cursor.
THEOREM TipAlwaysCertifies == Spec => []TipCertifiesRows
<1>1. QED
  BY IndexerAlways, TipCertified, PTL
-----------------------------------------------------------------------------
(* What one log does to the rolled-up tables *)

\* the logs of an entry, of a payment and of the end of a round
Entries == {"BetBull", "BetBear"}

Collects == {"Claim", "Refund"}

Decisions == {"RoundSettled", "RoundCancelled"}

\* one side of a round, from its entries
Side(bets, e, p) == Total({b \in bets : b.epoch = e /\ b.position = p})

\* a user, from the entries and what was collected
UserRow(bets, claims, a) ==
    LET entered == {b \in bets : b.account = a}
        Took(kind) == {c \in claims : c.account = a /\ c.kind = kind}
    IN  [account |-> a, entered |-> Cardinality(entered), staked |-> Total(entered),
         won |-> Cardinality(Took("CLAIM")), claimed |-> Total(Took("CLAIM")),
         refunded |-> Total(Took("REFUND"))]

\* the burn of log l
BurnRow(l, b) == [tx |-> l.tx, index |-> l.index, amount |-> l.amount, block |-> b]

\* what log l makes of round r, with those entries
RoundAfter(r, l, bets) ==
    IF r.epoch # l.epoch THEN r
    ELSE CASE l.name = "RoundLocked"    -> [r EXCEPT !.status = "LOCKED"]
           [] l.name = "RoundSettled"   ->
                  [r EXCEPT !.status = "SETTLED", !.outcome = l.outcome, !.fee = l.amount]
           [] l.name = "RoundCancelled" ->
                  [r EXCEPT !.status = "CANCELLED", !.outcome = "CANCELLED"]
           [] l.name \in Entries        ->
                  [r EXCEPT !.bull = Side(bets, l.epoch, "BULL"),
                            !.bear = Side(bets, l.epoch, "BEAR")]
           [] OTHER                     -> r

\* what log l makes of the rounds, of the users and of the burns
RoundsAfter(rows, l, bets) ==
    IF l.name = "RoundStarted"
    THEN IF \E r \in rows : r.epoch = l.epoch THEN rows ELSE rows \union {NewRound(l.epoch)}
    ELSE {RoundAfter(r, l, bets) : r \in rows}

UsersAfter(t, l, bets, claims) ==
    CASE l.name \in Entries \union Collects ->
            {u \in t.users : u.account # l.account} \union {UserRow(bets, claims, l.account)}
      [] l.name = "RoundSettled" -> MarkWinners(t, l)
      [] OTHER -> t.users

BurnsAfter(rows, l, b) ==
    IF l.name = "BoughtAndBurned"
    THEN IF \E r \in rows : LogKey(r) = LogKey(BurnRow(l, b)) THEN rows
         ELSE rows \union {BurnRow(l, b)}
    ELSE rows

\* Recomputing a user replaces its row.
LEMMA UserAgain ==
    ASSUME NEW rows, NEW bets, NEW claims, NEW a
    PROVE  RecomputeUser(rows, bets, claims, a) =
              {u \in rows : u.account # a} \union {UserRow(bets, claims, a)}
<1>1. UserRow(bets, claims, a).account = a
  BY DEF UserRow
<1>2. RecomputeUser(rows, bets, claims, a) =
         {u \in rows : u.account # UserRow(bets, claims, a).account}
            \union {UserRow(bets, claims, a)}
  BY DEF RecomputeUser, Upsert, UserKey, UserRow
<1>3. QED
  BY <1>1, <1>2

\* What one log makes of its round.
LEMMA OneRound ==
    ASSUME NEW r, NEW l, NEW bets
    PROVE  /\ l.name = "RoundLocked" =>
                RoundAfter(r, l, bets) =
                   IF r.epoch = l.epoch THEN [r EXCEPT !.status = "LOCKED"] ELSE r
           /\ l.name = "RoundSettled" =>
                RoundAfter(r, l, bets) =
                   IF r.epoch = l.epoch
                   THEN [r EXCEPT !.status = "SETTLED", !.outcome = l.outcome, !.fee = l.amount]
                   ELSE r
           /\ l.name = "RoundCancelled" =>
                RoundAfter(r, l, bets) =
                   IF r.epoch = l.epoch
                   THEN [r EXCEPT !.status = "CANCELLED", !.outcome = "CANCELLED"] ELSE r
BY DEF RoundAfter, Entries

\* What ApplyLog does to rounds, users and burns, with the entries and claims it leaves.
LEMMA LogRolls ==
    ASSUME NEW t, DOMAIN t = Names, NEW l, NEW b, NEW h
    PROVE  LET w == ApplyLog(t, l, b, h) IN
           /\ w.rounds = RoundsAfter(t.rounds, l, w.bets)
           /\ w.users = UsersAfter(t, l, w.bets, w.claims)
           /\ w.burns = BurnsAfter(t.burns, l, b)
<1> DEFINE u == ApplyEvent(t, l, b)
           Rounds == u.rounds = RoundsAfter(t.rounds, l, u.bets)
           Users == u.users = UsersAfter(t, l, u.bets, u.claims)
           Burns == u.burns = BurnsAfter(t.burns, l, b)
           Same == {RoundAfter(r, l, u.bets) : r \in t.rounds} = t.rounds
           Goal == DOMAIN u = Names /\ Rounds /\ Users /\ Burns
<1>1. ASSUME l.name \notin {"RoundLocked"} \union Decisions \union Entries
      PROVE  Same
  BY <1>1 DEF RoundAfter, Decisions, Entries
<1>2. Goal
  <2>1. CASE l.name = "RoundStarted"
    <3>1. /\ DOMAIN u = Names /\ u.users = t.users /\ u.burns = t.burns
          /\ u.rounds = InsertNew(t.rounds, RoundKey, NewRound(l.epoch))
      BY <2>1 DEF ApplyEvent, RoundStarted, Names
    <3>2. Rounds
      BY <2>1, <3>1 DEF InsertNew, RoundKey, RoundsAfter, NewRound
    <3>3. QED
      BY <2>1, <3>1, <3>2 DEF UsersAfter, BurnsAfter, Entries, Collects
  <2>2. CASE l.name = "RoundLocked"
    <3>1. /\ DOMAIN u = Names /\ u.users = t.users /\ u.burns = t.burns
          /\ u.rounds = {IF r.epoch = l.epoch THEN [r EXCEPT !.status = "LOCKED"] ELSE r
                           : r \in t.rounds}
      BY <2>2 DEF ApplyEvent, RoundLocked, UpdateRound, Names
    <3>2. Rounds
      <4> HIDE DEF u
      <4> DEFINE Set(r) == IF r.epoch = l.epoch
                           THEN [r EXCEPT !.status = "LOCKED"]
                           ELSE r
      <4>1. \A r : RoundAfter(r, l, u.bets) = Set(r)
        BY <2>2, OneRound
      <4>2. RoundsAfter(t.rounds, l, u.bets) = {RoundAfter(r, l, u.bets) : r \in t.rounds}
        BY <2>2 DEF RoundsAfter
      <4>3. u.rounds = {Set(r) : r \in t.rounds}
        BY <3>1
      <4> HIDE DEF Set
      <4>4. QED
        BY <4>1, <4>2, <4>3
    <3>3. QED
      BY <2>2, <3>1, <3>2 DEF UsersAfter, BurnsAfter, Entries, Collects
  <2>3. CASE l.name = "RoundSettled"
    <3>1. /\ DOMAIN u = Names /\ u.users = MarkWinners(t, l) /\ u.burns = t.burns
          /\ u.rounds = {IF r.epoch = l.epoch
                         THEN [r EXCEPT !.status = "SETTLED", !.outcome = l.outcome,
                                        !.fee = l.amount]
                         ELSE r : r \in t.rounds}
      BY <2>3 DEF ApplyEvent, RoundSettled, UpdateRound, Names
    <3>2. Rounds
      <4> HIDE DEF u
      <4> DEFINE Set(r) == IF r.epoch = l.epoch
                           THEN [r EXCEPT !.status = "SETTLED", !.outcome = l.outcome,
                                          !.fee = l.amount]
                           ELSE r
      <4>1. \A r : RoundAfter(r, l, u.bets) = Set(r)
        BY <2>3, OneRound
      <4>2. RoundsAfter(t.rounds, l, u.bets) = {RoundAfter(r, l, u.bets) : r \in t.rounds}
        BY <2>3 DEF RoundsAfter
      <4>3. u.rounds = {Set(r) : r \in t.rounds}
        BY <3>1
      <4> HIDE DEF Set
      <4>4. QED
        BY <4>1, <4>2, <4>3
    <3>3. QED
      BY <2>3, <3>1, <3>2 DEF UsersAfter, BurnsAfter, Entries, Collects
  <2>4. CASE l.name = "RoundCancelled"
    <3>1. /\ DOMAIN u = Names /\ u.users = t.users /\ u.burns = t.burns
          /\ u.rounds = {IF r.epoch = l.epoch
                         THEN [r EXCEPT !.status = "CANCELLED", !.outcome = "CANCELLED"]
                         ELSE r : r \in t.rounds}
      BY <2>4 DEF ApplyEvent, RoundCancelled, UpdateRound, Names
    <3>2. Rounds
      <4> HIDE DEF u
      <4> DEFINE Set(r) == IF r.epoch = l.epoch
                           THEN [r EXCEPT !.status = "CANCELLED", !.outcome = "CANCELLED"]
                           ELSE r
      <4>1. \A r : RoundAfter(r, l, u.bets) = Set(r)
        BY <2>4, OneRound
      <4>2. RoundsAfter(t.rounds, l, u.bets) = {RoundAfter(r, l, u.bets) : r \in t.rounds}
        BY <2>4 DEF RoundsAfter
      <4>3. u.rounds = {Set(r) : r \in t.rounds}
        BY <3>1
      <4> HIDE DEF Set
      <4>4. QED
        BY <4>1, <4>2, <4>3
    <3>3. QED
      BY <2>4, <3>1, <3>2 DEF UsersAfter, BurnsAfter, Entries, Collects
  <2>5. CASE l.name \in Entries
    <3>1. /\ DOMAIN u = Names /\ u.burns = t.burns /\ u.claims = t.claims
          /\ u.users = RecomputeUser(t.users, u.bets, t.claims, l.account)
          /\ u.rounds = RecomputeRoundTotals(t.rounds, u.bets, l.epoch)
      BY <2>5 DEF ApplyEvent, Bet, Names, Entries
    <3>2. Rounds
      BY <2>5, <3>1 DEF RecomputeRoundTotals, UpdateRound, RoundsAfter, RoundAfter, Side, Entries
    <3>3. Users
      <4> HIDE DEF u
      <4>1. l.name \in Entries \union Collects
        BY <2>5
      <4>2. QED
        BY <3>1, <4>1, UserAgain DEF UsersAfter, Entries, Collects
    <3>4. QED
      BY <2>5, <3>1, <3>2, <3>3 DEF BurnsAfter, Entries
  <2>6. CASE l.name \in Collects
    <3>1. /\ DOMAIN u = Names /\ u.burns = t.burns /\ u.bets = t.bets
          /\ u.users = RecomputeUser(t.users, t.bets, u.claims, l.account)
          /\ u.rounds = t.rounds
      BY <2>6 DEF ApplyEvent, Collected, Names, Collects
    <3>2. Rounds
      BY <1>1, <2>6, <3>1 DEF RoundsAfter, Collects, Decisions, Entries
    <3>3. Users
      <4> HIDE DEF u
      <4>1. l.name \in Entries \union Collects
        BY <2>6
      <4>2. QED
        BY <3>1, <4>1, UserAgain DEF UsersAfter, Entries, Collects
    <3>4. QED
      BY <2>6, <3>1, <3>2, <3>3 DEF BurnsAfter, Collects
  <2>7. CASE l.name = "BoughtAndBurned"
    <3>1. /\ DOMAIN u = Names /\ u.rounds = t.rounds /\ u.users = t.users
          /\ u.burns = InsertNew(t.burns, LogKey, BurnRow(l, b))
      BY <2>7 DEF ApplyEvent, Burned, Names, BurnRow
    <3>2. Burns
      BY <2>7, <3>1 DEF InsertNew, BurnsAfter
    <3>3. QED
      BY <1>1, <2>7, <3>1, <3>2 DEF RoundsAfter, UsersAfter, Collects, Decisions, Entries
  <2>8. CASE l.name \notin {"RoundStarted", "RoundLocked", "BoughtAndBurned"}
                           \union Decisions \union Entries \union Collects
    <3>1. DOMAIN u = Names /\ u.rounds = t.rounds /\ u.users = t.users /\ u.burns = t.burns
      BY <2>8 DEF ApplyEvent, Names, Decisions, Entries, Collects
    <3>2. QED
      BY <1>1, <2>8, <3>1
         DEF RoundsAfter, UsersAfter, BurnsAfter, Collects, Decisions, Entries
  <2> HIDE DEF Goal
  <2>9. QED
    BY <2>1, <2>2, <2>3, <2>4, <2>5, <2>6, <2>7, <2>8 DEF Decisions
<1> DEFINE w == ApplyLog(t, l, b, h)
<1>3. w = [u EXCEPT !.events = WithEvent(u.events, l, b, h)]
  BY DEF ApplyLog
<1>4. /\ w.rounds = u.rounds /\ w.users = u.users /\ w.burns = u.burns
      /\ w.bets = u.bets /\ w.claims = u.claims
  <2> HIDE DEF u, w
  <2>1. QED
    BY <1>2, <1>3 DEF Names
<1>5. QED
  BY <1>2, <1>4
-----------------------------------------------------------------------------
(* The places of a chain, and the life of a round along them *)

\* the places of chain c behind log i of block b
After(c, b, i) == {p \in Places(c) : p[1] > b \/ (p[1] = b /\ p[2] > i)}

\* the places that tables which held the blocks up to n know once log i of block b is done
Seen(c, n, b, i) == {p \in Places(c) : p[1] <= n \/ p[1] < b \/ (p[1] = b /\ p[2] <= i)}

\* A place is a block of the chain and a log in it.
LEMMA PlaceIs ==
    ASSUME NEW c \in Seq(Blocks)
    PROVE  /\ \A p \in Places(c) : /\ p[1] \in StartBlock .. Len(c) /\ p[1] \in Nat
                                   /\ p[2] \in 1 .. Len(Contents[c[p[1]]]) /\ p[2] \in Nat
                                   /\ p = <<p[1], p[2]>>
           /\ \A b \in StartBlock .. Len(c) : \A i \in 1 .. Len(Contents[c[b]]) :
                 <<b, i>> \in Places(c)
<1>1. StartBlock \in Nat \ {0} /\ Len(c) \in Nat
  BY IndexerAssumption
<1>2. \A b \in StartBlock .. Len(c) :
         Len(Contents[c[b]]) \in Nat /\ DOMAIN Contents[c[b]] = 1 .. Len(Contents[c[b]])
  <2>1. \A b \in StartBlock .. Len(c) : c[b] \in Blocks
    BY <1>1
  <2>2. QED
    BY <2>1, ContentsAre
<1>3. ASSUME NEW p \in Places(c)
      PROVE  /\ p[1] \in StartBlock .. Len(c) /\ p[1] \in Nat
             /\ p[2] \in 1 .. Len(Contents[c[p[1]]]) /\ p[2] \in Nat
             /\ p = <<p[1], p[2]>>
  <2>1. PICK b \in StartBlock .. Len(c) : p \in {b} \X DOMAIN Contents[c[b]]
    BY DEF Places
  <2>2. p[1] = b /\ p[2] \in DOMAIN Contents[c[b]] /\ p = <<p[1], p[2]>>
    BY <2>1
  <2>3. QED
    BY <1>1, <1>2, <2>2
<1>4. ASSUME NEW b \in StartBlock .. Len(c), NEW i \in 1 .. Len(Contents[c[b]])
      PROVE  <<b, i>> \in Places(c)
  <2>1. <<b, i>> \in {b} \X DOMAIN Contents[c[b]]
    BY <1>2
  <2>2. QED
    BY <2>1 DEF Places
<1>5. QED
  BY <1>3, <1>4

\* Of two places one is before the other.
LEMMA PlacesOrdered ==
    ASSUME NEW c \in Seq(Blocks), NEW p \in Places(c), NEW q \in Places(c)
    PROVE  /\ Before(p, q) \/ p = q \/ Before(q, p)
           /\ ~(Before(p, q) /\ Before(q, p))
<1>1. p[1] \in Nat /\ p[2] \in Nat /\ q[1] \in Nat /\ q[2] \in Nat
      /\ p = <<p[1], p[2]>> /\ q = <<q[1], q[2]>>
  BY PlaceIs
<1>2. p[1] = q[1] /\ p[2] = q[2] => p = q
  BY <1>1
<1>3. QED
  BY <1>1, <1>2 DEF Before

\* The places of a prefix are the places of the chain below its tip.
LEMMA PlacesOfPrefix ==
    ASSUME NEW c \in Seq(Blocks), NEW n \in Int
    PROVE  /\ Places(Prefix(c, n)) = {p \in Places(c) : p[1] <= n}
           /\ \A p \in Places(Prefix(c, n)) : LogAt(Prefix(c, n), p) = LogAt(c, p)
<1> DEFINE d == Prefix(c, n)
<1>1. /\ d \in Seq(Blocks) /\ Len(c) \in Nat /\ Len(d) \in Nat
      /\ Len(d) = IF n < 0 THEN 0 ELSE IF n <= Len(c) THEN n ELSE Len(c)
      /\ \A b \in 1 .. Len(d) : d[b] = c[b]
  BY PrefixIs
<1> HIDE DEF d
<1>2. StartBlock \in Nat \ {0}
  BY IndexerAssumption
<1>3. ASSUME NEW p \in Places(d)
      PROVE  p \in Places(c) /\ p[1] <= n /\ LogAt(d, p) = LogAt(c, p)
  <2>1. /\ p[1] \in StartBlock .. Len(d) /\ p[2] \in 1 .. Len(Contents[d[p[1]]])
        /\ p = <<p[1], p[2]>>
    BY <1>1, PlaceIs
  <2>2. p[1] \in StartBlock .. Len(c) /\ p[1] <= n /\ d[p[1]] = c[p[1]]
    BY <1>1, <1>2, <2>1
  <2>3. <<p[1], p[2]>> \in Places(c)
    BY <2>1, <2>2, PlaceIs
  <2>4. QED
    BY <2>1, <2>2, <2>3 DEF LogAt
<1>4. ASSUME NEW p \in Places(c), p[1] <= n
      PROVE  p \in Places(d)
  <2>1. /\ p[1] \in StartBlock .. Len(c) /\ p[2] \in 1 .. Len(Contents[c[p[1]]])
        /\ p = <<p[1], p[2]>>
    BY PlaceIs
  <2>2. p[1] \in StartBlock .. Len(d) /\ d[p[1]] = c[p[1]]
    BY <1>1, <1>2, <1>4, <2>1
  <2>3. <<p[1], p[2]>> \in Places(d)
    BY <1>1, <2>1, <2>2, PlaceIs
  <2>4. QED
    BY <2>1, <2>3
<1>5. QED
  BY <1>3, <1>4 DEF d

\* A place of a chain is a place of its history, with the same log and the same before it.
LEMMA PlaceInHistory ==
    ASSUME NEW c, OnChain(c)
    PROVE  \E h \in Histories :
              /\ h \in Seq(Blocks)
              /\ \A q \in Places(c) :
                    /\ q \in Places(h) /\ LogAt(h, q) = LogAt(c, q)
                    /\ \A p \in Places(h) : Before(p, q) => p \in Places(c)
<1>1. PICK h \in Histories : c = Prefix(h, Len(c)) /\ c \in Seq(Blocks) /\ Len(c) \in Nat
  BY OnChainIs
<1>2. h \in Seq(Blocks)
  BY ChainStart
<1>3. /\ Places(c) = {p \in Places(h) : p[1] <= Len(c)}
      /\ \A p \in Places(c) : LogAt(c, p) = LogAt(h, p)
  BY <1>1, <1>2, PlacesOfPrefix
<1>4. ASSUME NEW q \in Places(c), NEW p \in Places(h), Before(p, q)
      PROVE  p \in Places(c)
  <2>1. p[1] \in Nat /\ q[1] \in Nat /\ q[1] <= Len(c)
    BY <1>2, <1>3, PlaceIs
  <2>2. p[1] <= Len(c)
    BY <1>1, <1>4, <2>1 DEF Before
  <2>3. QED
    BY <1>3, <2>2
<1>5. QED
  BY <1>2, <1>3, <1>4

\* LifeAssumption, of every chain.
LEMMA LifeIs ==
    ASSUME NEW c, OnChain(c), NEW q \in Places(c)
    PROVE  LET l == LogAt(c, q)
               Earlier(p) == p \in Places(c) /\ Before(p, q) /\ LogAt(c, p).epoch = l.epoch
           IN  /\ l.name \in Entries \union {"RoundLocked"} \union Decisions =>
                     \E p \in Places(c) : Earlier(p) /\ LogAt(c, p).name = "RoundStarted"
               /\ l.name \in Entries =>
                     \A p \in Places(c) :
                        Earlier(p) => LogAt(c, p).name \notin {"RoundLocked"} \union Decisions
               /\ l.name \in {"RoundLocked"} \union Decisions =>
                     \A p \in Places(c) : Earlier(p) => LogAt(c, p).name \notin Decisions
               /\ l.name \in Collects =>
                     \E p \in Places(c) : Earlier(p) /\ LogAt(c, p).name \in Entries
                                           /\ LogAt(c, p).account = l.account
<1>1. PICK h \in Histories :
              /\ h \in Seq(Blocks)
              /\ \A o \in Places(c) :
                    /\ o \in Places(h) /\ LogAt(h, o) = LogAt(c, o)
                    /\ \A p \in Places(h) : Before(p, o) => p \in Places(c)
  BY PlaceInHistory
<1> DEFINE l == LogAt(h, q)
           Of(names) == {k \in {LogAt(h, p) : p \in {o \in Places(h) : Before(o, q)}} :
                            k.epoch = l.epoch /\ k.name \in names}
<1>2. /\ l.name \in {"BetBull", "BetBear", "RoundLocked", "RoundSettled", "RoundCancelled"} =>
            Of({"RoundStarted"}) # {}
      /\ l.name \in {"BetBull", "BetBear"} =>
            Of({"RoundLocked", "RoundSettled", "RoundCancelled"}) = {}
      /\ l.name \in {"RoundLocked", "RoundSettled", "RoundCancelled"} =>
            Of({"RoundSettled", "RoundCancelled"}) = {}
      /\ l.name \in {"Claim", "Refund"} =>
            \E k \in Of({"BetBull", "BetBear"}) : k.account = l.account
  BY <1>1, LifeAssumption
<1>3. \A names : \A k \in Of(names) :
         \E p \in Places(c) : /\ Before(p, q) /\ LogAt(c, p) = k
                              /\ k.epoch = l.epoch /\ k.name \in names
  BY <1>1
<1>4. \A names : \A p \in Places(c) :
         Before(p, q) /\ LogAt(c, p).epoch = l.epoch /\ LogAt(c, p).name \in names =>
            LogAt(c, p) \in Of(names)
  BY <1>1
<1>5. l = LogAt(c, q)
  BY <1>1
<1> HIDE DEF l, Of
<1>6. QED
  BY <1>2, <1>3, <1>4, <1>5 DEF Entries, Collects, Decisions

\* the rows of table x that the logs at the places G make
RowsSeen(x, c, G) ==
    {RowOf(x, LogAt(c, p), p[1], Prefix(c, p[1])) : p \in {o \in G : Adds(x, LogAt(c, o))}}

\* the burns that they make
BurnsSeen(c, G) ==
    {BurnRow(LogAt(c, p), p[1]) : p \in {o \in G : LogAt(c, o).name = "BoughtAndBurned"}}

\* the rounds that those logs start
StartedIn(c, G) == {LogAt(c, p).epoch : p \in {o \in G : LogAt(c, o).name = "RoundStarted"}}

\* the places that tell such a thing of round e, and what its settlement and its row come to
Told(c, G, e, names) == {p \in G : LogAt(c, p).epoch = e /\ LogAt(c, p).name \in names}

Settlement(c, G, e) == LogAt(c, CHOOSE p \in Told(c, G, e, {"RoundSettled"}) : TRUE)

StatusIn(c, G, e) ==
    IF Told(c, G, e, {"RoundCancelled"}) # {} THEN "CANCELLED"
    ELSE IF Told(c, G, e, {"RoundSettled"}) # {} THEN "SETTLED"
    ELSE IF Told(c, G, e, {"RoundLocked"}) # {} THEN "LOCKED" ELSE "OPEN"

OutcomeIn(c, G, e) ==
    IF Told(c, G, e, {"RoundCancelled"}) # {} THEN "CANCELLED"
    ELSE IF Told(c, G, e, {"RoundSettled"}) # {} THEN Settlement(c, G, e).outcome ELSE None

FeeIn(c, G, e) ==
    IF Told(c, G, e, {"RoundSettled"}) # {} THEN Settlement(c, G, e).amount ELSE 0

RoundRow(c, G, bets, e, status) ==
    [epoch |-> e, status |-> status, outcome |-> OutcomeIn(c, G, e),
     bull |-> Side(bets, e, "BULL"), bear |-> Side(bets, e, "BEAR"), fee |-> FeeIn(c, G, e)]

\* the entries, claims and burns of the logs at G
HasRows(t, c, G) ==
    /\ DOMAIN t = Names
    /\ t.bets = RowsSeen("bets", c, G) /\ t.claims = RowsSeen("claims", c, G)
    /\ t.burns = BurnsSeen(c, G)

\* the rounds of those logs, but for the status of rounds whose decision is still to be read
\* again at a place of R: such a round may be back at its lock
HasRounds(t, c, G, R) ==
    \E st : /\ t.rounds = {RoundRow(c, G, t.bets, e, st[e]) : e \in StartedIn(c, G)}
            /\ \A e \in StartedIn(c, G) : \/ st[e] = StatusIn(c, G, e)
                                          \/ Told(c, G \cap R, e, Decisions) # {}

\* The rolled-up tables are what the logs at G make of them, with R still to be read.
RolledUp(t, c, G, R) ==
    /\ HasRows(t, c, G)
    /\ t.users = {UserRow(t.bets, t.claims, a) : a \in {r.account : r \in t.bets}}
    /\ HasRounds(t, c, G, R)

\* the tables once the log at place q is applied
Read(t, c, q) == ApplyLog(t, LogAt(c, q), q[1], Prefix(c, q[1]))

\* Everything before q was read, everything from q on is to be read, maybe again.
Stage(c, G, R, q) ==
    /\ c \in Seq(Blocks) /\ OnChain(c)
    /\ G \subseteq Places(c) /\ q \in Places(c)
    /\ R = {p \in Places(c) : p = q \/ Before(q, p)}
    /\ \A p \in G : \A o \in Places(c) : Before(o, p) => o \in G
    /\ \A o \in Places(c) : Before(o, q) => o \in G

\* That is where a batch is at each of its logs.
LEMMA StageIs ==
    ASSUME NEW c, OnChain(c), NEW n \in Int, NEW b \in StartBlock .. Len(c), NEW i \in Nat,
           i < Len(Contents[c[b]])
    PROVE  /\ Stage(c, Seen(c, n, b, i), After(c, b, i), <<b, i + 1>>)
           /\ Seen(c, n, b, i + 1) = Seen(c, n, b, i) \union {<<b, i + 1>>}
           /\ After(c, b, i + 1) = After(c, b, i) \ {<<b, i + 1>>}
<1> DEFINE q == <<b, i + 1>>
<1>1. c \in Seq(Blocks) /\ Len(c) \in Nat /\ StartBlock \in Nat
  BY OnChainIs, IndexerAssumption
<1>2. Len(Contents[c[b]]) \in Nat
  <2>1. c[b] \in Blocks
    BY <1>1, IndexerAssumption
  <2>2. QED
    BY <2>1, ContentsAre
<1>3. q \in Places(c) /\ q[1] = b /\ q[2] = i + 1 /\ b \in Nat
  BY <1>1, <1>2, PlaceIs
<1>4. \A p \in Places(c) : p[1] \in Nat /\ p[2] \in Nat /\ p = <<p[1], p[2]>>
  BY <1>1, PlaceIs
<1>5. \A p \in Places(c) : p[1] = b /\ p[2] = i + 1 <=> p = q
  BY <1>4
<1> HIDE DEF q
<1>6. \A p \in Places(c) : p = q \/ Before(q, p) <=> p[1] > b \/ (p[1] = b /\ p[2] > i)
  BY <1>3, <1>4, <1>5 DEF Before
<1>7. \A p \in Seen(c, n, b, i) : \A o \in Places(c) : Before(o, p) => o \in Seen(c, n, b, i)
  BY <1>3, <1>4 DEF Before, Seen
<1>8. \A o \in Places(c) : Before(o, q) => o \in Seen(c, n, b, i)
  BY <1>3, <1>4 DEF Before, Seen
<1>9. After(c, b, i) = {p \in Places(c) : p = q \/ Before(q, p)}
  BY <1>6 DEF After
<1>10. Stage(c, Seen(c, n, b, i), After(c, b, i), q)
  <2>1. Seen(c, n, b, i) \subseteq Places(c)
    BY DEF Seen
  <2>2. QED
    BY <1>1, <1>3, <1>7, <1>8, <1>9, <2>1 DEF Stage
<1>11. Seen(c, n, b, i + 1) = Seen(c, n, b, i) \union {q}
  <2>1. \A p \in Places(c) : p[1] = b /\ p[2] <= i + 1 <=> p = q \/ (p[1] = b /\ p[2] <= i)
    BY <1>4, <1>5
  <2>2. QED
    BY <1>3, <2>1 DEF Seen
<1>12. After(c, b, i + 1) = After(c, b, i) \ {q}
  <2>1. \A p \in Places(c) : p[1] = b /\ p[2] > i + 1 <=> p # q /\ p[1] = b /\ p[2] > i
    BY <1>4, <1>5
  <2>2. q[1] = b
    BY <1>3
  <2>3. \A p \in Places(c) : p[1] > b => p # q
    BY <1>3, <1>4
  <2>4. QED
    BY <2>1, <2>3 DEF After
<1>13. QED
  BY <1>10, <1>11, <1>12 DEF q

\* A round is decided at one place of a chain, behind its lock.
LEMMA DecidedOnce ==
    ASSUME NEW c, OnChain(c), NEW p \in Places(c), NEW q \in Places(c),
           LogAt(c, p).epoch = LogAt(c, q).epoch, LogAt(c, p).name \in Decisions
    PROVE  /\ LogAt(c, q).name \in Decisions => p = q
           /\ LogAt(c, q).name = "RoundLocked" => Before(q, p)
<1>1. c \in Seq(Blocks)
  BY OnChainIs
<1>2. Before(p, q) \/ p = q \/ Before(q, p)
  BY <1>1, PlacesOrdered
<1>3. LogAt(c, q).name \in {"RoundLocked"} \union Decisions => ~Before(p, q)
  BY LifeIs
<1>4. LogAt(c, q).name \in Decisions => ~Before(q, p)
  BY LifeIs
<1>5. QED
  BY <1>2, <1>3, <1>4 DEF Decisions

\* The log at a place is one of its block.
LEMMA PlaceLog ==
    ASSUME NEW c \in Seq(Blocks)
    PROVE  /\ \A p \in Places(c) :
                 p[1] \in StartBlock .. Len(c) /\ p[2] \in DOMAIN Contents[c[p[1]]]
           /\ \A b \in StartBlock .. Len(c) : \A i \in DOMAIN Contents[c[b]] :
                 <<b, i>> \in Places(c)
<1>1. \A b \in StartBlock .. Len(c) : DOMAIN Contents[c[b]] = 1 .. Len(Contents[c[b]])
  <2>1. \A b \in StartBlock .. Len(c) : c[b] \in Blocks
    BY IndexerAssumption
  <2>2. QED
    BY <2>1, ContentsAre
<1>2. QED
  BY <1>1, PlaceIs

\* The burns of a chain, place by place.
LEMMA BurnsAre ==
    ASSUME NEW c \in Seq(Blocks)
    PROVE  BurnsSeen(c, Places(c)) = BurnsOf(c)
<1> DEFINE Row(l) == [tx |-> l.tx, index |-> l.index, amount |-> l.amount, block |-> l.block]
<1>1. BurnsOf(c) = {Row(l) : l \in {k \in LogsOf(c) : k.name = "BoughtAndBurned"}}
  BY DEF BurnsOf, Named
<1>2. ASSUME NEW p \in Places(c)
      PROVE  /\ Stamped(c, p[1], p[2]) \in LogsOf(c)
             /\ Stamped(c, p[1], p[2]).name = LogAt(c, p).name
             /\ Row(Stamped(c, p[1], p[2])) = BurnRow(LogAt(c, p), p[1])
  <2>1. p[1] \in StartBlock .. Len(c) /\ p[2] \in DOMAIN Contents[c[p[1]]]
    BY PlaceLog
  <2>2. QED
    BY <2>1, LogsOfChain, StampedIs DEF BurnRow, LogAt
<1>3. ASSUME NEW k \in LogsOf(c)
      PROVE  \E p \in Places(c) : k = Stamped(c, p[1], p[2])
  <2>1. PICK b \in StartBlock .. Len(c) : \E i \in DOMAIN Contents[c[b]] : k = Stamped(c, b, i)
    BY LogsOfChain
  <2>2. PICK i \in DOMAIN Contents[c[b]] : k = Stamped(c, b, i)
    BY <2>1
  <2>3. <<b, i>> \in Places(c)
    BY PlaceLog
  <2>4. QED
    BY <2>2, <2>3
<1> HIDE DEF Row
<1>4. QED
  BY <1>1, <1>2, <1>3 DEF BurnsSeen

\* No two burns of a chain have the same key.
LEMMA BurnsUnique ==
    ASSUME NEW c, OnChain(c), NEW r \in BurnsOf(c), NEW s \in BurnsOf(c), LogKey(r) = LogKey(s)
    PROVE  r = s
<1>1. PICK h \in Histories :
              /\ h \in Seq(Blocks)
              /\ \A o \in Places(c) : o \in Places(h) /\ LogAt(h, o) = LogAt(c, o)
  BY PlaceInHistory
<1>2. c \in Seq(Blocks)
  BY OnChainIs
<1>3. BurnsOf(c) \subseteq BurnsOf(h)
  <2>1. BurnsSeen(c, Places(c)) \subseteq BurnsSeen(h, Places(h))
    BY <1>1 DEF BurnsSeen
  <2>2. QED
    BY <1>1, <1>2, <2>1, BurnsAre
<1>4. QED
  BY <1>3, KeyAssumption

\* A log adds its entry, claim or burn.
LEMMA StageRows ==
    ASSUME NEW c, NEW G, NEW R, NEW q, Stage(c, G, R, q), NEW t, RolledUp(t, c, G, R)
    PROVE  HasRows(Read(t, c, q), c, G \union {q})
<1> DEFINE l == LogAt(c, q)
           w == Read(t, c, q)
<1>1. /\ c \in Seq(Blocks) /\ OnChain(c) /\ G \subseteq Places(c) /\ q \in Places(c)
      /\ DOMAIN t = Names
  BY DEF Stage, RolledUp, HasRows
<1>2. /\ DOMAIN w = Names
      /\ \A x \in Kept :
            w[x] = IF Adds(x, l) THEN Changed(x, t[x], RowOf(x, l, q[1], Prefix(c, q[1]))) ELSE t[x]
      /\ w.burns = BurnsAfter(t.burns, l, q[1])
  BY <1>1, LogChanges, LogRolls DEF Read
<1> HIDE DEF w
<1>3. ASSUME NEW x \in Kept, t[x] = RowsSeen(x, c, G)
      PROVE  w[x] = RowsSeen(x, c, G \union {q})
  <2> DEFINE row == RowOf(x, l, q[1], Prefix(c, q[1]))
  <2>1. \A p \in Places(c) : Adds(x, LogAt(c, p)) =>
           RowOf(x, LogAt(c, p), p[1], Prefix(c, p[1])) \in Table(x, c)
    <3>1. ASSUME NEW p \in Places(c), Adds(x, LogAt(c, p))
          PROVE  RowOf(x, LogAt(c, p), p[1], Prefix(c, p[1])) \in Table(x, c)
      <4>1. p[1] \in StartBlock .. Len(c) /\ p[2] \in 1 .. Len(Contents[c[p[1]]])
        BY <1>1, PlaceIs
      <4>2. c[p[1]] \in Blocks
        BY <1>1, <4>1, IndexerAssumption
      <4>3. p[2] \in DOMAIN Contents[c[p[1]]]
        BY <4>1, <4>2, ContentsAre
      <4>4. RowOf(x, LogAt(c, p), p[1], Prefix(c, p[1])) \in RowsIn(x, c, p[1])
        BY <3>1, <4>3 DEF RowsIn, Rows, LogAt
      <4>5. QED
        BY <4>1, <4>4 DEF Table
    <3>2. QED
      BY <3>1
  <2>2. Unique(x, Table(x, c))
    BY <1>1, TablesUnique
  <2>3. t[x] \subseteq Table(x, c)
    BY <1>1, <1>3, <2>1 DEF RowsSeen
  <2>4. RowsSeen(x, c, G \union {q}) = RowsSeen(x, c, G) \union (IF Adds(x, l) THEN {row} ELSE {})
    BY DEF RowsSeen
  <2>5. ASSUME Adds(x, l)
        PROVE  Changed(x, t[x], row) = t[x] \union {row}
    <3>1. row \in Table(x, c)
      BY <1>1, <2>1, <2>5
    <3>2. row = RowOf(x, l, q[1], Prefix(c, q[1]))
      OBVIOUS
    <3> HIDE DEF row
    <3>3. QED
      BY <2>2, <2>3, <3>1, <3>2, ChangeAdds
  <2>6. QED
    BY <1>2, <1>3, <2>4, <2>5
<1>4. w.bets = RowsSeen("bets", c, G \union {q}) /\ w.claims = RowsSeen("claims", c, G \union {q})
  BY <1>3 DEF RolledUp, HasRows, Kept
<1>5. w.burns = BurnsSeen(c, G \union {q})
  <2>1. t.burns = BurnsSeen(c, G)
    BY DEF RolledUp, HasRows
  <2> DEFINE row == BurnRow(l, q[1])
  <2>2. BurnsSeen(c, G \union {q}) =
           BurnsSeen(c, G) \union (IF l.name = "BoughtAndBurned" THEN {row} ELSE {})
    BY DEF BurnsSeen
  <2>3. ASSUME NEW r \in BurnsSeen(c, G), LogKey(r) = LogKey(row), l.name = "BoughtAndBurned"
        PROVE  r = row
    <3>1. BurnsSeen(c, Places(c)) = BurnsOf(c)
      BY <1>1, BurnsAre
    <3>2. r \in BurnsOf(c) /\ row \in BurnsOf(c)
      BY <1>1, <2>3, <3>1 DEF BurnsSeen
    <3>3. QED
      BY <1>1, <2>3, <3>2, BurnsUnique
  <2> HIDE DEF row
  <2>4. BurnsAfter(t.burns, l, q[1]) =
           BurnsSeen(c, G) \union (IF l.name = "BoughtAndBurned" THEN {row} ELSE {})
    BY <2>1, <2>3 DEF BurnsAfter, row
  <2>5. QED
    BY <1>2, <2>2, <2>4
<1>6. QED
  BY <1>2, <1>4, <1>5 DEF w, HasRows

\* A log recomputes the user it is about, and nobody else's row changes.
LEMMA StageUsers ==
    ASSUME NEW c, NEW G, NEW R, NEW q, Stage(c, G, R, q), NEW t, RolledUp(t, c, G, R)
    PROVE  Read(t, c, q).users =
              {UserRow(Read(t, c, q).bets, Read(t, c, q).claims, a)
                 : a \in {r.account : r \in Read(t, c, q).bets}}
<1> DEFINE l == LogAt(c, q)
           w == Read(t, c, q)
           Entered(bets) == {r.account : r \in bets}
           row == BetRow(l, q[1])
           claim == ClaimRow(l, q[1])
<1>1. /\ w.bets = RowsSeen("bets", c, G \union {q})
      /\ w.claims = RowsSeen("claims", c, G \union {q})
      /\ w.users = UsersAfter(t, l, w.bets, w.claims)
  <2>1. DOMAIN t = Names
    BY DEF RolledUp, HasRows
  <2>2. w.users = UsersAfter(t, l, w.bets, w.claims)
    BY <2>1, LogRolls DEF Read
  <2>3. HasRows(Read(t, c, q), c, G \union {q})
    BY StageRows
  <2>4. QED
    BY <2>2, <2>3 DEF HasRows
<1>2. /\ t.bets = RowsSeen("bets", c, G) /\ t.claims = RowsSeen("claims", c, G)
      /\ t.users = {UserRow(t.bets, t.claims, a) : a \in Entered(t.bets)}
  BY DEF RolledUp, HasRows
<1>3. /\ w.bets = IF l.name \in Entries THEN t.bets \union {row} ELSE t.bets
      /\ w.claims = IF l.name \in Collects THEN t.claims \union {claim} ELSE t.claims
  BY <1>1, <1>2 DEF RowsSeen, Adds, RowOf, Entries, Collects
<1> HIDE DEF w, row, claim
<1>4. row.account = l.account /\ claim.account = l.account
  BY DEF row, claim, BetRow, ClaimRow
<1>5. \A a, bets, claims : UserRow(bets, claims, a).account = a
  BY DEF UserRow
<1>6. ASSUME NEW a, a # l.account
      PROVE  UserRow(w.bets, w.claims, a) = UserRow(t.bets, t.claims, a)
  <2>1. {b \in w.bets : b.account = a} = {b \in t.bets : b.account = a}
    BY <1>3, <1>4, <1>6
  <2>2. \A kind : {k \in w.claims : k.account = a /\ k.kind = kind} =
                     {k \in t.claims : k.account = a /\ k.kind = kind}
    BY <1>3, <1>4, <1>6
  <2>3. QED
    BY <2>1, <2>2 DEF UserRow
<1>7. CASE l.name \in Entries \union Collects
  <2>1. w.users = {u \in t.users : u.account # l.account}
                     \union {UserRow(w.bets, w.claims, l.account)}
    BY <1>1, <1>7 DEF UsersAfter, Entries, Collects
  <2>2. Entered(w.bets) = Entered(t.bets) \union {l.account}
    <3>1. CASE l.name \in Entries
      BY <1>3, <1>4, <3>1
    <3>2. CASE l.name \in Collects
      <4>1. PICK p \in Places(c) : /\ Before(p, q) /\ LogAt(c, p).name \in Entries
                                   /\ LogAt(c, p).account = l.account
        BY <3>2, LifeIs DEF Stage
      <4>2. p \in G
        BY <4>1 DEF Stage
      <4>3. RowOf("bets", LogAt(c, p), p[1], Prefix(c, p[1])) \in t.bets
        BY <1>2, <4>1, <4>2 DEF RowsSeen, Adds, Entries
      <4>4. RowOf("bets", LogAt(c, p), p[1], Prefix(c, p[1])).account = l.account
        BY <4>1 DEF RowOf, BetRow
      <4>5. w.bets = t.bets
        BY <1>3, <3>2 DEF Entries, Collects
      <4>6. QED
        BY <4>3, <4>4, <4>5
    <3>3. QED
      BY <1>7, <3>1, <3>2
  <2>3. {u \in t.users : u.account # l.account} =
           {UserRow(w.bets, w.claims, a) : a \in Entered(t.bets) \ {l.account}}
    BY <1>2, <1>5, <1>6
  <2> HIDE DEF Entered
  <2>4. w.users = {UserRow(w.bets, w.claims, a) : a \in Entered(w.bets)}
    BY <2>1, <2>2, <2>3
  <2>5. QED
    BY <2>4 DEF Entered, w
<1>8. CASE l.name \notin Entries \union Collects
  <2>1. w.bets = t.bets /\ w.claims = t.claims
    BY <1>3, <1>8
  <2>2. w.users = t.users
    <3>1. CASE l.name # "RoundSettled"
      BY <1>1, <1>8, <3>1 DEF UsersAfter
    <3>2. CASE l.name = "RoundSettled"
      <4>1. w.users = MarkWinners(t, l)
        BY <1>1, <1>8, <3>2 DEF UsersAfter
      <4>2. ASSUME NEW u \in t.users
            PROVE  [u EXCEPT !.won = Cardinality({k \in t.claims :
                       k.account = u.account /\ k.kind = "CLAIM"})] = u
        <5>1. PICK a : u = UserRow(t.bets, t.claims, a)
          BY <1>2
        <5>2. QED
          BY <5>1 DEF UserRow
      <4>3. MarkWinners(t, l) = t.users
        <5> DEFINE Mark(u) == IF \E b \in t.bets : b.epoch = l.epoch /\ b.account = u.account
                              THEN [u EXCEPT !.won = Cardinality({k \in t.claims :
                                       k.account = u.account /\ k.kind = "CLAIM"})]
                              ELSE u
        <5>1. \A u \in t.users : Mark(u) = u
          BY <4>2
        <5>2. MarkWinners(t, l) = t.users \/ MarkWinners(t, l) = {Mark(u) : u \in t.users}
          BY DEF MarkWinners
        <5> HIDE DEF Mark
        <5>3. QED
          BY <5>1, <5>2
      <4>4. QED
        BY <4>1, <4>3
    <3>3. QED
      BY <3>1, <3>2
  <2> HIDE DEF Entered
  <2>3. w.users = {UserRow(w.bets, w.claims, a) : a \in Entered(w.bets)}
    BY <1>2, <2>1, <2>2
  <2>4. QED
    BY <2>3 DEF Entered, w
<1>9. QED
  BY <1>7, <1>8 DEF w

\* No entries, nothing staked.
LEMMA TotalNothing == Total({}) = 0
<1> DEFINE Iter(it, s) == IF s = {} THEN 0
                          ELSE LET x == CHOOSE y \in s : TRUE IN x.amount + it[s \ {x}]
           it == CHOOSE g : g = [s \in SUBSET {} |-> Iter(g, s)]
           zero == [s \in SUBSET {} |-> 0]
<1>1. Total({}) = it[{}]
  BY DEF Total, MapThenSumSet, MapThenFoldSet
<1>2. zero = [s \in SUBSET {} |-> Iter(zero, s)]
  OBVIOUS
<1> HIDE DEF Iter
<1>3. it = [s \in SUBSET {} |-> Iter(it, s)]
  BY <1>2
<1>4. it[{}] = Iter(it, {})
  BY <1>3
<1>5. QED
  BY <1>1, <1>4 DEF Iter

\* the status of round e, once log l is applied to it
StatusAfter(l, e, s) ==
    IF e # l.epoch THEN s
    ELSE IF l.name = "RoundLocked" THEN "LOCKED"
    ELSE IF l.name = "RoundSettled" THEN "SETTLED"
    ELSE IF l.name = "RoundCancelled" THEN "CANCELLED" ELSE s

\* A decision is the only one of its round.
LEMMA OnlyDecision ==
    ASSUME NEW c, NEW G, NEW R, NEW q, Stage(c, G, R, q), LogAt(c, q).name \in Decisions,
           NEW p \in G \union {q}, LogAt(c, p).epoch = LogAt(c, q).epoch,
           LogAt(c, p).name \in Decisions
    PROVE  p = q
<1>1. p \in Places(c) /\ q \in Places(c) /\ OnChain(c)
  BY DEF Stage
<1>2. QED
  BY <1>1, DecidedOnce

\* A round is what the logs read make of it, one log further.
LEMMA StageRound ==
    ASSUME NEW c, NEW G, NEW R, NEW q, Stage(c, G, R, q), NEW e, NEW s, NEW bets, NEW more,
           more = IF LogAt(c, q).name \in Entries THEN bets \union {BetRow(LogAt(c, q), q[1])}
                  ELSE bets
    PROVE  RoundAfter(RoundRow(c, G, bets, e, s), LogAt(c, q), more) =
              RoundRow(c, G \union {q}, more, e, StatusAfter(LogAt(c, q), e, s))
<1> DEFINE l == LogAt(c, q)
           r == RoundRow(c, G, bets, e, s)
           F == G \union {q}
<1>1. ASSUME e # l.epoch \/ l.name \notin Entries
      PROVE  \A p : Side(more, e, p) = Side(bets, e, p)
  <2>1. BetRow(l, q[1]).epoch = l.epoch
    BY DEF BetRow
  <2>2. \A p : {b \in more : b.epoch = e /\ b.position = p} =
               {b \in bets : b.epoch = e /\ b.position = p}
    BY <1>1, <2>1
  <2>3. QED
    BY <2>2 DEF Side
<1>2. ASSUME e # l.epoch \/ l.name \notin Decisions
      PROVE  OutcomeIn(c, F, e) = OutcomeIn(c, G, e) /\ FeeIn(c, F, e) = FeeIn(c, G, e)
  <2>1. /\ Told(c, F, e, {"RoundCancelled"}) = Told(c, G, e, {"RoundCancelled"})
        /\ Told(c, F, e, {"RoundSettled"}) = Told(c, G, e, {"RoundSettled"})
    BY <1>2 DEF Told, Decisions
  <2>2. Settlement(c, F, e) = Settlement(c, G, e)
    BY <2>1 DEF Settlement
  <2>3. QED
    BY <2>1, <2>2 DEF OutcomeIn, FeeIn
<1>3. r.epoch = e
  BY DEF RoundRow
<1> HIDE DEF r, l
<1>10. /\ l.name = "RoundLocked" =>
             RoundAfter(r, l, more) =
                IF r.epoch = l.epoch THEN [r EXCEPT !.status = "LOCKED"] ELSE r
       /\ l.name = "RoundSettled" =>
             RoundAfter(r, l, more) =
                IF r.epoch = l.epoch
                THEN [r EXCEPT !.status = "SETTLED", !.outcome = l.outcome, !.fee = l.amount]
                ELSE r
       /\ l.name = "RoundCancelled" =>
             RoundAfter(r, l, more) =
                IF r.epoch = l.epoch
                THEN [r EXCEPT !.status = "CANCELLED", !.outcome = "CANCELLED"] ELSE r
  BY OneRound
<1> USE DEF r, l
<1>4. CASE e # l.epoch
  <2>1. RoundAfter(r, l, more) = r
    BY <1>3, <1>4 DEF RoundAfter
  <2>2. QED
    BY <1>1, <1>2, <1>4, <2>1 DEF RoundRow, StatusAfter
<1>5. CASE e = l.epoch /\ l.name \in Entries
  <2>1. RoundAfter(r, l, more) = [r EXCEPT !.bull = Side(more, e, "BULL"),
                                           !.bear = Side(more, e, "BEAR")]
    BY <1>3, <1>5 DEF RoundAfter, Entries
  <2>2. l.name \notin Decisions /\ StatusAfter(l, e, s) = s
    BY <1>5 DEF Entries, Decisions, StatusAfter
  <2>3. QED
    BY <1>2, <2>1, <2>2 DEF RoundRow
<1>6. CASE e = l.epoch /\ l.name = "RoundLocked"
  <2>1. RoundAfter(r, l, more) = [r EXCEPT !.status = "LOCKED"]
    BY <1>3, <1>6, <1>10
  <2>2. l.name \notin Decisions \union Entries /\ StatusAfter(l, e, s) = "LOCKED"
    BY <1>6 DEF Entries, Decisions, StatusAfter
  <2>3. QED
    BY <1>1, <1>2, <2>1, <2>2 DEF RoundRow
<1>7. CASE e = l.epoch /\ l.name = "RoundSettled"
  <2>1. RoundAfter(r, l, more) =
           [r EXCEPT !.status = "SETTLED", !.outcome = l.outcome, !.fee = l.amount]
    BY <1>3, <1>7, <1>10
  <2>2. l.name \in Decisions /\ l.name \notin Entries /\ StatusAfter(l, e, s) = "SETTLED"
    BY <1>7 DEF Entries, Decisions, StatusAfter
  <2>3. \A p \in F : LogAt(c, p).epoch = e /\ LogAt(c, p).name \in Decisions => p = q
    BY <1>7, <2>2, OnlyDecision
  <2>4. Told(c, F, e, {"RoundSettled"}) = {q} /\ Told(c, F, e, {"RoundCancelled"}) = {}
    BY <1>7, <2>3 DEF Told, Decisions
  <2>5. Settlement(c, F, e) = l
    BY <2>4 DEF Settlement
  <2>6. OutcomeIn(c, F, e) = l.outcome /\ FeeIn(c, F, e) = l.amount
    BY <2>4, <2>5 DEF OutcomeIn, FeeIn
  <2>7. QED
    BY <1>1, <2>1, <2>2, <2>6 DEF RoundRow
<1>8. CASE e = l.epoch /\ l.name = "RoundCancelled"
  <2>1. RoundAfter(r, l, more) = [r EXCEPT !.status = "CANCELLED", !.outcome = "CANCELLED"]
    BY <1>3, <1>8, <1>10
  <2>2. l.name \in Decisions /\ l.name \notin Entries /\ StatusAfter(l, e, s) = "CANCELLED"
    BY <1>8 DEF Entries, Decisions, StatusAfter
  <2>3. \A p \in F : LogAt(c, p).epoch = e /\ LogAt(c, p).name \in Decisions => p = q
    BY <1>8, <2>2, OnlyDecision
  <2>4. Told(c, F, e, {"RoundCancelled"}) = {q} /\ Told(c, F, e, {"RoundSettled"}) = {}
    BY <1>8, <2>3 DEF Told, Decisions
  <2>5. Told(c, G, e, {"RoundSettled"}) = {}
    BY <2>4 DEF Told
  <2>6. OutcomeIn(c, F, e) = "CANCELLED" /\ FeeIn(c, F, e) = FeeIn(c, G, e)
    BY <2>4, <2>5 DEF OutcomeIn, FeeIn
  <2>7. QED
    BY <1>1, <2>1, <2>2, <2>6 DEF RoundRow
<1>9. CASE e = l.epoch /\ l.name \notin Entries \union {"RoundLocked"} \union Decisions
  <2>1. RoundAfter(r, l, more) = r
    BY <1>3, <1>9 DEF RoundAfter, Entries, Decisions
  <2>2. StatusAfter(l, e, s) = s
    BY <1>9 DEF StatusAfter, Decisions
  <2>3. QED
    BY <1>1, <1>2, <1>9, <2>1, <2>2 DEF RoundRow
<1>11. QED
  BY <1>4, <1>5, <1>6, <1>7, <1>8, <1>9 DEF Decisions

\* Its status is right, or the decision of the round is still to be read again.
LEMMA StageStatus ==
    ASSUME NEW c, NEW G, NEW R, NEW q, Stage(c, G, R, q), NEW e, NEW s,
           s = StatusIn(c, G, e) \/ Told(c, G \cap R, e, Decisions) # {}
    PROVE  \/ StatusAfter(LogAt(c, q), e, s) = StatusIn(c, G \union {q}, e)
           \/ Told(c, (G \union {q}) \cap (R \ {q}), e, Decisions) # {}
<1> DEFINE l == LogAt(c, q)
           F == G \union {q}
<1>1. /\ OnChain(c) /\ G \subseteq Places(c) /\ q \in Places(c)
      /\ R = {p \in Places(c) : p = q \/ Before(q, p)}
  BY DEF Stage
<1>2. CASE e # l.epoch \/ l.name \notin {"RoundLocked"} \union Decisions
  <2>1. \A names \in {{"RoundLocked"}, {"RoundSettled"}, {"RoundCancelled"}} :
           Told(c, F, e, names) = Told(c, G, e, names)
    BY <1>2 DEF Told, Decisions
  <2>2. StatusIn(c, F, e) = StatusIn(c, G, e)
    BY <2>1 DEF StatusIn
  <2>3. StatusAfter(l, e, s) = s
    BY <1>2 DEF StatusAfter, Decisions
  <2>4. Told(c, G \cap R, e, Decisions) \subseteq Told(c, F \cap (R \ {q}), e, Decisions)
    BY <1>2 DEF Told
  <2>5. QED
    BY <2>2, <2>3, <2>4
<1>3. CASE e = l.epoch /\ l.name = "RoundLocked"
  <2>1. StatusAfter(l, e, s) = "LOCKED" /\ q \in Told(c, F, e, {"RoundLocked"})
    BY <1>3 DEF StatusAfter, Told
  <2>2. CASE Told(c, F, e, Decisions) = {}
    <3>1. Told(c, F, e, {"RoundSettled"}) = {} /\ Told(c, F, e, {"RoundCancelled"}) = {}
      BY <2>2 DEF Told, Decisions
    <3>2. QED
      BY <2>1, <3>1 DEF StatusIn
  <2>3. ASSUME NEW p \in Told(c, F, e, Decisions)
        PROVE  p \in Told(c, F \cap (R \ {q}), e, Decisions)
    <3>1. p \in F /\ p \in Places(c) /\ LogAt(c, p).epoch = e /\ LogAt(c, p).name \in Decisions
      BY <1>1 DEF Told
    <3>2. Before(q, p)
      BY <1>1, <1>3, <3>1, DecidedOnce
    <3>3. p # q
      BY <1>3, <3>1 DEF Decisions
    <3>4. QED
      BY <1>1, <3>1, <3>2, <3>3 DEF Told
  <2>4. QED
    BY <2>2, <2>3
<1>4. CASE e = l.epoch /\ l.name \in Decisions
  <2>1. \A p \in F : LogAt(c, p).epoch = e /\ LogAt(c, p).name \in Decisions => p = q
    BY <1>4, OnlyDecision
  <2>2. StatusAfter(l, e, s) = StatusIn(c, F, e)
    <3>1. CASE l.name = "RoundSettled"
      <4>1. Told(c, F, e, {"RoundSettled"}) = {q} /\ Told(c, F, e, {"RoundCancelled"}) = {}
        BY <1>4, <2>1, <3>1 DEF Told, Decisions
      <4>2. QED
        BY <1>4, <3>1, <4>1 DEF StatusIn, StatusAfter
    <3>2. CASE l.name = "RoundCancelled"
      <4>1. Told(c, F, e, {"RoundCancelled"}) = {q}
        BY <1>4, <2>1, <3>2 DEF Told, Decisions
      <4>2. QED
        BY <1>4, <3>2, <4>1 DEF StatusIn, StatusAfter
    <3>3. QED
      BY <1>4, <3>1, <3>2 DEF Decisions
  <2>3. QED
    BY <2>2
<1>5. QED
  BY <1>2, <1>3, <1>4 DEF Decisions

\* Nothing was heard of a round before its start, so that the row it starts with is right.
LEMMA StartIs ==
    ASSUME NEW c, NEW G, NEW R, NEW q, Stage(c, G, R, q), LogAt(c, q).name = "RoundStarted",
           LogAt(c, q).epoch \notin StartedIn(c, G)
    PROVE  LET F == G \union {q}
               e == LogAt(c, q).epoch
           IN  /\ NewRound(e) = RoundRow(c, F, RowsSeen("bets", c, F), e, "OPEN")
               /\ StatusIn(c, F, e) = "OPEN"
<1> DEFINE F == G \union {q}
           e == LogAt(c, q).epoch
           Later == Entries \union {"RoundLocked"} \union Decisions
<1>1. /\ OnChain(c) /\ G \subseteq Places(c) /\ q \in Places(c)
      /\ \A p \in G : \A o \in Places(c) : Before(o, p) => o \in G
  BY DEF Stage
<1>2. ASSUME NEW p \in F, LogAt(c, p).epoch = e
      PROVE  LogAt(c, p).name \notin Later
  <2>1. CASE p = q
    BY <2>1 DEF Entries, Decisions
  <2>2. CASE p \in G
    <3>1. SUFFICES ASSUME LogAt(c, p).name \in Later
                   PROVE  FALSE
      OBVIOUS
    <3>2. PICK o \in Places(c) : /\ Before(o, p) /\ LogAt(c, o).epoch = LogAt(c, p).epoch
                                 /\ LogAt(c, o).name = "RoundStarted"
      BY <1>1, <2>2, <3>1, LifeIs
    <3>3. o \in G
      BY <1>1, <2>2, <3>2
    <3>4. QED
      BY <1>2, <3>2, <3>3 DEF StartedIn
  <2>3. QED
    BY <2>1, <2>2
<1>3. /\ Told(c, F, e, {"RoundLocked"}) = {} /\ Told(c, F, e, {"RoundSettled"}) = {}
      /\ Told(c, F, e, {"RoundCancelled"}) = {}
  BY <1>2 DEF Told, Decisions
<1>4. ASSUME NEW p
      PROVE  Side(RowsSeen("bets", c, F), e, p) = 0
  <2>1. \A o \in F : Adds("bets", LogAt(c, o)) =>
           RowOf("bets", LogAt(c, o), o[1], Prefix(c, o[1])).epoch # e
    BY <1>2 DEF Adds, RowOf, BetRow, Entries
  <2>2. {b \in RowsSeen("bets", c, F) : b.epoch = e /\ b.position = p} = {}
    BY <2>1 DEF RowsSeen
  <2>3. QED
    BY <2>2, TotalNothing DEF Side
<1>5. OutcomeIn(c, F, e) = None /\ FeeIn(c, F, e) = 0 /\ StatusIn(c, F, e) = "OPEN"
  BY <1>3 DEF OutcomeIn, FeeIn, StatusIn
<1>6. QED
  BY <1>4, <1>5 DEF NewRound, RoundRow

\* A log brings the rounds one log further.
LEMMA StageRounds ==
    ASSUME NEW c, NEW G, NEW R, NEW q, Stage(c, G, R, q), NEW t, RolledUp(t, c, G, R)
    PROVE  HasRounds(Read(t, c, q), c, G \union {q}, R \ {q})
<1> DEFINE l == LogAt(c, q)
           F == G \union {q}
           w == Read(t, c, q)
           Right(e, s) == s = StatusIn(c, F, e) \/ Told(c, F \cap (R \ {q}), e, Decisions) # {}
<1>1. HasRows(w, c, F)
  BY StageRows
<1>2. w.rounds = RoundsAfter(t.rounds, l, w.bets)
  <2>1. DOMAIN t = Names
    BY DEF RolledUp, HasRows
  <2>2. QED
    BY <2>1, LogRolls DEF Read
<1>3. w.bets = IF l.name \in Entries THEN t.bets \union {BetRow(l, q[1])} ELSE t.bets
  <2>1. w.bets = RowsSeen("bets", c, F) /\ t.bets = RowsSeen("bets", c, G)
    BY <1>1 DEF RolledUp, HasRows
  <2>2. QED
    BY <2>1 DEF RowsSeen, Adds, RowOf, Entries
<1> HIDE DEF w
<1>4. PICK st : /\ t.rounds = {RoundRow(c, G, t.bets, e, st[e]) : e \in StartedIn(c, G)}
                /\ \A e \in StartedIn(c, G) : \/ st[e] = StatusIn(c, G, e)
                                              \/ Told(c, G \cap R, e, Decisions) # {}
  BY DEF RolledUp, HasRounds
<1> DEFINE Old(e) == RoundRow(c, G, t.bets, e, st[e])
           New(e, s) == RoundRow(c, F, w.bets, e, s)
<1>5. \A e : RoundAfter(Old(e), l, w.bets) = New(e, StatusAfter(l, e, st[e]))
  BY <1>3, StageRound
<1>6. \A e \in StartedIn(c, G) : Right(e, StatusAfter(l, e, st[e]))
  BY <1>4, StageStatus
<1>7. \A e, s : RoundRow(c, G, t.bets, e, s).epoch = e
  BY DEF RoundRow
<1> HIDE DEF Right, Old, New
<1>8. SUFFICES \E now : /\ w.rounds = {New(e, now[e]) : e \in StartedIn(c, F)}
                        /\ \A e \in StartedIn(c, F) : Right(e, now[e])
  BY DEF HasRounds, Right, New, w
<1>9. CASE l.name # "RoundStarted"
  <2> DEFINE now == [e \in StartedIn(c, F) |-> StatusAfter(l, e, st[e])]
  <2>1. StartedIn(c, F) = StartedIn(c, G)
    BY <1>9 DEF StartedIn
  <2>2. w.rounds = {RoundAfter(r, l, w.bets) : r \in t.rounds}
    BY <1>2, <1>9 DEF RoundsAfter
  <2>3. t.rounds = {Old(e) : e \in StartedIn(c, G)}
    BY <1>4 DEF Old
  <2>4. w.rounds = {New(e, now[e]) : e \in StartedIn(c, F)}
    BY <1>5, <2>1, <2>2, <2>3
  <2>5. \A e \in StartedIn(c, F) : Right(e, now[e])
    BY <1>6, <2>1
  <2> HIDE DEF now
  <2>6. QED
    BY <2>4, <2>5
<1>10. CASE l.name = "RoundStarted"
  <2>1. \A e, s : StatusAfter(l, e, s) = s
    BY <1>10 DEF StatusAfter
  <2>2. \A r : RoundAfter(r, l, w.bets) = r
    BY <1>10 DEF RoundAfter, Entries
  <2>3. \A e : Old(e) = New(e, st[e])
    BY <1>5, <2>1, <2>2
  <2>4. \A e \in StartedIn(c, G) : Right(e, st[e])
    BY <1>6, <2>1
  <2>5. StartedIn(c, F) = StartedIn(c, G) \union {l.epoch}
    BY <1>10 DEF StartedIn
  <2>6. t.rounds = {Old(e) : e \in StartedIn(c, G)}
    BY <1>4 DEF Old
  <2>7. (\E r \in t.rounds : r.epoch = l.epoch) <=> l.epoch \in StartedIn(c, G)
    BY <1>7, <2>6 DEF Old
  <2>8. CASE l.epoch \in StartedIn(c, G)
    <3>1. w.rounds = t.rounds
      BY <1>2, <1>10, <2>7, <2>8 DEF RoundsAfter
    <3>2. StartedIn(c, F) = StartedIn(c, G)
      BY <2>5, <2>8
    <3>3. w.rounds = {New(e, st[e]) : e \in StartedIn(c, F)}
      BY <2>3, <2>6, <3>1, <3>2
    <3>4. QED
      BY <2>4, <3>2, <3>3
  <2>9. CASE l.epoch \notin StartedIn(c, G)
    <3> DEFINE now == [e \in StartedIn(c, F) |-> IF e = l.epoch THEN "OPEN" ELSE st[e]]
    <3>1. w.rounds = t.rounds \union {NewRound(l.epoch)}
      BY <1>2, <1>10, <2>7, <2>9 DEF RoundsAfter
    <3>2. NewRound(l.epoch) = New(l.epoch, "OPEN") /\ Right(l.epoch, "OPEN")
      <4>1. w.bets = RowsSeen("bets", c, F)
        BY <1>1 DEF HasRows
      <4>2. QED
        BY <1>10, <2>9, <4>1, StartIs DEF New, Right
    <3>3. now[l.epoch] = "OPEN" /\ \A e \in StartedIn(c, G) : now[e] = st[e]
      BY <2>5, <2>9
    <3> HIDE DEF now
    <3>4. w.rounds = {New(e, now[e]) : e \in StartedIn(c, F)}
      BY <2>3, <2>5, <2>6, <3>1, <3>2, <3>3
    <3>5. \A e \in StartedIn(c, F) : Right(e, now[e])
      BY <2>4, <2>5, <3>2, <3>3
    <3>6. QED
      BY <3>4, <3>5
  <2>10. QED
    BY <2>8, <2>9
<1>11. QED
  BY <1>9, <1>10

\* So a log brings the rolled-up tables one log further.
LEMMA StageRolls ==
    ASSUME NEW c, NEW G, NEW R, NEW q, Stage(c, G, R, q), NEW t, RolledUp(t, c, G, R)
    PROVE  RolledUp(Read(t, c, q), c, G \union {q}, R \ {q})
<1>1. HasRows(Read(t, c, q), c, G \union {q})
  BY StageRows
<1>2. Read(t, c, q).users =
         {UserRow(Read(t, c, q).bets, Read(t, c, q).claims, a)
            : a \in {r.account : r \in Read(t, c, q).bets}}
  BY StageUsers
<1>3. HasRounds(Read(t, c, q), c, G \union {q}, R \ {q})
  BY StageRounds
<1>4. QED
  BY <1>1, <1>2, <1>3 DEF RolledUp

-----------------------------------------------------------------------------
(* A batch brings the rolled-up tables to its tip *)

\* A block brings them one block further.
LEMMA BlockRolls ==
    ASSUME NEW c, OnChain(c), NEW n \in Int, NEW b \in StartBlock .. Len(c), NEW t,
           RolledUp(t, c, Seen(c, n, b, 0), After(c, b, 0))
    PROVE  LET k == Len(Contents[c[b]]) IN
           RolledUp(ApplyBlock(t, Contents[c[b]], b, Prefix(c, b)), c,
                    Seen(c, n, b, k), After(c, b, k))
<1> DEFINE logs == Contents[c[b]]
           k == Len(logs)
           h == Prefix(c, b)
<1>1. c \in Seq(Blocks) /\ k \in Nat
  <2>1. c \in Seq(Blocks)
    BY OnChainIs
  <2>2. c[b] \in Blocks
    BY <2>1, IndexerAssumption
  <2>3. QED
    BY <2>1, <2>2, ContentsAre
<1>2. PICK f : LogByLog(f, t, logs, b, h) /\ ApplyBlock(t, logs, b, h) = f[k]
  BY <1>1, LogsApplied
<1> DEFINE Good(i) == RolledUp(f[i], c, Seen(c, n, b, i), After(c, b, i))
           S == {i \in Nat : i <= k => Good(i)}
<1>3. 0 \in S
  <2>1. f[0] = t
    <3>1. 0 \in 0 .. k
      BY <1>1
    <3> HIDE DEF logs, h
    <3>2. QED
      BY <1>2, <3>1 DEF LogByLog
  <2>2. QED
    BY <2>1
<1>4. ASSUME NEW i \in Nat, i \in S
      PROVE  i + 1 \in S
  <2> SUFFICES ASSUME i + 1 <= k
               PROVE  Good(i + 1)
    OBVIOUS
  <2> DEFINE q == <<b, i + 1>>
  <2>1. /\ RolledUp(f[i], c, Seen(c, n, b, i), After(c, b, i))
        /\ i < k
    BY <1>1, <1>4
  <2>2. /\ Stage(c, Seen(c, n, b, i), After(c, b, i), q)
        /\ Seen(c, n, b, i + 1) = Seen(c, n, b, i) \union {q}
        /\ After(c, b, i + 1) = After(c, b, i) \ {q}
    BY <2>1, StageIs
  <2>3. f[i + 1] = ApplyLog(f[i], logs[i + 1], b, h)
    <3>1. i + 1 \in 0 .. k /\ i + 1 # 0 /\ (i + 1) - 1 = i
      BY <1>1
    <3> HIDE DEF logs, h
    <3>2. QED
      BY <1>2, <3>1 DEF LogByLog
  <2>4. q[1] = b /\ q[2] = i + 1
    OBVIOUS
  <2>5. f[i + 1] = Read(f[i], c, q)
    BY <2>3, <2>4 DEF Read, LogAt
  <2> HIDE DEF q
  <2>6. RolledUp(Read(f[i], c, q), c, Seen(c, n, b, i) \union {q}, After(c, b, i) \ {q})
    BY <2>1, <2>2, StageRolls
  <2>7. QED
    BY <2>2, <2>5, <2>6
<1>5. Good(k)
  <2>1. Nat \subseteq S
    BY <1>3, <1>4, NatInduct
  <2>2. QED
    BY <1>1, <2>1
<1>6. QED
  BY <1>2, <1>5

\* Less to be read again leaves less in doubt.
LEMMA RolledMore ==
    ASSUME NEW t, NEW c, NEW G, NEW R, RolledUp(t, c, G, {})
    PROVE  RolledUp(t, c, G, R)
<1>1. PICK st : /\ t.rounds = {RoundRow(c, G, t.bets, e, st[e]) : e \in StartedIn(c, G)}
                /\ \A e \in StartedIn(c, G) : \/ st[e] = StatusIn(c, G, e)
                                              \/ Told(c, G \cap {}, e, Decisions) # {}
  BY DEF RolledUp, HasRounds
<1>2. \A e : Told(c, G \cap {}, e, Decisions) = {}
  BY DEF Told
<1>3. HasRounds(t, c, G, R)
  BY <1>1, <1>2 DEF HasRounds
<1>4. QED
  BY <1>3 DEF RolledUp

\* A batch that starts no higher than what was read brings them to its tip.
LEMMA IndexedRolls ==
    ASSUME NEW c, OnChain(c), NEW n \in Int, NEW from \in Int, from <= n + 1, NEW t,
           RolledUp(t, c, {p \in Places(c) : p[1] <= n}, {})
    PROVE  RolledUp(Indexed(t, from, c), c, Places(c), {})
<1> DEFINE first == First(from)
<1>1. /\ c \in Seq(Blocks) /\ Len(c) \in Nat /\ StartBlock \in Nat /\ StartBlock >= 1
      /\ first \in Nat /\ first >= 1 /\ first >= StartBlock /\ first \in {from, StartBlock}
  BY OnChainIs, BlocksApplied, IndexerAssumption DEF First
<1>2. \A p \in Places(c) :
         p[1] \in StartBlock .. Len(c) /\ p[1] \in Nat /\ p[2] \in Nat /\ p[2] >= 1
  BY <1>1, PlaceIs
<1>3. Seen(c, n, first, 0) = {p \in Places(c) : p[1] <= n}
  BY <1>1, <1>2 DEF Seen
<1>4. CASE first > Len(c)
  <2>1. Indexed(t, from, c) = t
    <3>1. Len(c) \in Nat /\ First(from) > Len(c)
      BY <1>1, <1>4
    <3>2. QED
      BY <3>1, BlocksApplied
  <2>2. \A p \in Places(c) : p[1] <= n
    BY <1>1, <1>2, <1>4
  <2>3. {p \in Places(c) : p[1] <= n} = Places(c)
    BY <2>2
  <2>4. QED
    BY <2>1, <2>3
<1>5. CASE first <= Len(c)
  <2>1. PICK f : BlockByBlock(f, t, from, c) /\ Indexed(t, from, c) = f[Len(c)]
    <3>1. Len(c) \in Nat /\ First(from) <= Len(c)
      BY <1>1, <1>5
    <3>2. QED
      BY <3>1, BlocksApplied
  <2> DEFINE Good(b) == RolledUp(f[b], c, Seen(c, n, b + 1, 0), After(c, b + 1, 0))
             S == {m \in Nat : first - 1 + m <= Len(c) => Good(first - 1 + m)}
  <2>2. 0 \in S
    <3>1. f[first - 1 + 0] = t
      BY <1>1, <1>5, <2>1 DEF BlockByBlock
    <3>2. RolledUp(t, c, Seen(c, n, first, 0), After(c, first, 0))
      BY <1>3, RolledMore
    <3>3. first - 1 + 0 + 1 = first
      BY <1>1
    <3> HIDE DEF first
    <3>4. QED
      BY <3>1, <3>2, <3>3
  <2> HIDE DEF first
  <2>3. ASSUME NEW m \in Nat, m \in S
        PROVE  m + 1 \in S
    <3> DEFINE b == first - 1 + m + 1
    <3>1. b \in Nat /\ first <= b /\ b - 1 = first - 1 + m /\ b = first - 1 + (m + 1)
      BY <1>1
    <3> HIDE DEF b
    <3> SUFFICES ASSUME b <= Len(c)
                 PROVE  Good(b)
      BY <3>1
    <3> DEFINE logs == Contents[c[b]]
               k == Len(logs)
    <3>2. b \in StartBlock .. Len(c) /\ (b - 1) + 1 = b
      BY <1>1, <3>1
    <3>3. RolledUp(f[b - 1], c, Seen(c, n, b, 0), After(c, b, 0))
      BY <1>1, <2>3, <3>1, <3>2
    <3>4. f[b] = ApplyBlock(f[b - 1], Contents[c[b]], b, Prefix(c, b))
      <4>1. b \in First(from) - 1 .. Len(c) /\ ~(b < First(from))
        BY <1>1, <3>1 DEF first
      <4>2. QED
        BY <2>1, <4>1 DEF BlockByBlock
    <3>5. RolledUp(f[b], c, Seen(c, n, b, k), After(c, b, k))
      BY <3>2, <3>3, <3>4, BlockRolls
    <3>6. k \in Nat /\ \A p \in Places(c) : p[1] = b => p[2] <= k
      BY <1>1, <3>2, PlaceIs, PlaceLog
    <3>7. Seen(c, n, b, k) = Seen(c, n, b + 1, 0)
      BY <1>2, <3>1, <3>6 DEF Seen
    <3>8. After(c, b, k) = After(c, b + 1, 0)
      BY <1>2, <3>1, <3>6 DEF After
    <3>9. QED
      BY <3>5, <3>7, <3>8
  <2>4. Good(Len(c))
    <3>1. Nat \subseteq S
      BY <2>2, <2>3, NatInduct
    <3>2. Len(c) - (first - 1) \in Nat /\ first - 1 + (Len(c) - (first - 1)) = Len(c)
      BY <1>1, <1>5
    <3> HIDE DEF Good
    <3>3. first - 1 + (Len(c) - (first - 1)) <= Len(c) => Good(first - 1 + (Len(c) - (first - 1)))
      BY <3>1, <3>2
    <3>4. QED
      BY <1>1, <3>2, <3>3
  <2>5. Seen(c, n, Len(c) + 1, 0) = Places(c) /\ After(c, Len(c) + 1, 0) = {}
    BY <1>1, <1>2 DEF Seen, After
  <2>6. QED
    BY <2>1, <2>4, <2>5
<1>6. QED
  BY <1>1, <1>4, <1>5

\* What a prefix has is what the chain has up to it.
LEMMA RolledPrefix ==
    ASSUME NEW c \in Seq(Blocks), NEW n \in Int, NEW t,
           RolledUp(t, Prefix(c, n), Places(Prefix(c, n)), {})
    PROVE  RolledUp(t, c, {p \in Places(c) : p[1] <= n}, {})
<1> DEFINE d == Prefix(c, n)
           G == {p \in Places(c) : p[1] <= n}
<1>1. Places(d) = G /\ \A p \in G : LogAt(d, p) = LogAt(c, p)
  BY PlacesOfPrefix
<1>2. \A p \in G : Prefix(d, p[1]) = Prefix(c, p[1])
  <2>1. \A p \in G : p[1] \in Int /\ p[1] <= n
    BY PlaceIs
  <2>2. QED
    BY <2>1, PrefixAgain
<1> HIDE DEF d, G
<1>3. \A x : RowsSeen(x, d, G) = RowsSeen(x, c, G)
  BY <1>1, <1>2 DEF RowsSeen
<1>4. BurnsSeen(d, G) = BurnsSeen(c, G) /\ StartedIn(d, G) = StartedIn(c, G)
  BY <1>1 DEF BurnsSeen, StartedIn
<1>5. \A e, names : Told(d, G, e, names) = Told(c, G, e, names)
  BY <1>1 DEF Told
<1>6. \A e : Told(c, G, e, {"RoundSettled"}) # {} => Settlement(d, G, e) = Settlement(c, G, e)
  <2>1. \A e : Told(c, G, e, {"RoundSettled"}) \subseteq G
    BY DEF Told
  <2>2. QED
    BY <1>1, <1>5, <2>1 DEF Settlement
<1>7. \A e : /\ StatusIn(d, G, e) = StatusIn(c, G, e)
             /\ OutcomeIn(d, G, e) = OutcomeIn(c, G, e)
             /\ FeeIn(d, G, e) = FeeIn(c, G, e)
  BY <1>5, <1>6 DEF StatusIn, OutcomeIn, FeeIn
<1>8. \A bets, e, s : RoundRow(d, G, bets, e, s) = RoundRow(c, G, bets, e, s)
  BY <1>7 DEF RoundRow
<1>9. RolledUp(t, d, G, {})
  BY <1>1 DEF d
<1>10. HasRounds(t, c, G, {})
  <2>1. PICK st : /\ t.rounds = {RoundRow(d, G, t.bets, e, st[e]) : e \in StartedIn(d, G)}
                  /\ \A e \in StartedIn(d, G) : \/ st[e] = StatusIn(d, G, e)
                                                \/ Told(d, G \cap {}, e, Decisions) # {}
    BY <1>9 DEF RolledUp, HasRounds
  <2>2. \A e : Told(d, G \cap {}, e, Decisions) = {}
    BY DEF Told
  <2>3. t.rounds = {RoundRow(c, G, t.bets, e, st[e]) : e \in StartedIn(c, G)}
    BY <1>4, <1>8, <2>1
  <2>4. \A e \in StartedIn(c, G) : st[e] = StatusIn(c, G, e)
    BY <1>4, <1>7, <2>1, <2>2
  <2>5. QED
    BY <2>3, <2>4 DEF HasRounds
<1>11. HasRows(t, c, G)
  BY <1>3, <1>4, <1>9 DEF RolledUp, HasRows
<1>12. RolledUp(t, c, G, {})
  BY <1>9, <1>10, <1>11 DEF RolledUp
<1>13. QED
  BY <1>12 DEF G

\* The rows of the places of a chain are its tables.
LEMMA RowsOfPlaces ==
    ASSUME NEW x, NEW c \in Seq(Blocks)
    PROVE  RowsSeen(x, c, Places(c)) = Table(x, c)
<1>1. ASSUME NEW r \in RowsSeen(x, c, Places(c))
      PROVE  r \in Table(x, c)
  <2>1. PICK p \in Places(c) : /\ Adds(x, LogAt(c, p))
                               /\ r = RowOf(x, LogAt(c, p), p[1], Prefix(c, p[1]))
    BY <1>1 DEF RowsSeen
  <2>2. p[1] \in StartBlock .. Len(c) /\ p[2] \in DOMAIN Contents[c[p[1]]]
    BY PlaceLog
  <2>3. r \in RowsIn(x, c, p[1])
    BY <2>1, <2>2 DEF RowsIn, Rows, LogAt
  <2>4. QED
    BY <2>2, <2>3 DEF Table
<1>2. ASSUME NEW r \in Table(x, c)
      PROVE  r \in RowsSeen(x, c, Places(c))
  <2>1. PICK b \in StartBlock .. Len(c) : r \in RowsIn(x, c, b)
    BY DEF Table
  <2>2. PICK i \in DOMAIN Contents[c[b]] : /\ Adds(x, Contents[c[b]][i])
                                           /\ r = RowOf(x, Contents[c[b]][i], b, Prefix(c, b))
    BY <2>1 DEF RowsIn, Rows
  <2> DEFINE p == <<b, i>>
  <2>3. p \in Places(c)
    BY PlaceLog
  <2>4. p[1] = b /\ LogAt(c, p) = Contents[c[b]][i]
    BY DEF LogAt
  <2> HIDE DEF p
  <2>5. Adds(x, LogAt(c, p)) /\ r = RowOf(x, LogAt(c, p), p[1], Prefix(c, p[1]))
    BY <2>2, <2>4
  <2>6. QED
    BY <2>3, <2>5 DEF RowsSeen
<1>3. QED
  BY <1>1, <1>2

\* What happened to a round was told at a place.
LEMMA HappenedIs ==
    ASSUME NEW c \in Seq(Blocks), NEW e, NEW name
    PROVE  /\ \A l \in Named(c, {name}) : l.epoch = e =>
                 \E p \in Told(c, Places(c), e, {name}) :
                    l.outcome = LogAt(c, p).outcome /\ l.amount = LogAt(c, p).amount
           /\ Told(c, Places(c), e, {name}) # {} <=> Happened(c, e, name)
<1>1. ASSUME NEW l \in Named(c, {name}), l.epoch = e
      PROVE  \E p \in Told(c, Places(c), e, {name}) :
                l.outcome = LogAt(c, p).outcome /\ l.amount = LogAt(c, p).amount
  <2>1. l \in LogsOf(c) /\ l.name = name
    BY DEF Named
  <2>2. PICK b \in StartBlock .. Len(c) : \E i \in DOMAIN Contents[c[b]] : l = Stamped(c, b, i)
    BY <2>1, LogsOfChain
  <2>3. PICK i \in DOMAIN Contents[c[b]] : l = Stamped(c, b, i)
    BY <2>2
  <2> DEFINE p == <<b, i>>
  <2>4. p \in Places(c) /\ LogAt(c, p) = Contents[c[b]][i]
    BY PlaceLog DEF LogAt
  <2> HIDE DEF p
  <2>5. /\ l.name = LogAt(c, p).name /\ l.epoch = LogAt(c, p).epoch
        /\ l.outcome = LogAt(c, p).outcome /\ l.amount = LogAt(c, p).amount
    BY <2>3, <2>4, StampedIs
  <2>6. QED
    BY <1>1, <2>1, <2>4, <2>5 DEF Told
<1>2. ASSUME NEW p \in Told(c, Places(c), e, {name})
      PROVE  Happened(c, e, name)
  <2>1. p \in Places(c) /\ LogAt(c, p).epoch = e /\ LogAt(c, p).name = name
    BY DEF Told
  <2>2. p[1] \in StartBlock .. Len(c) /\ p[2] \in DOMAIN Contents[c[p[1]]]
    BY <2>1, PlaceLog
  <2>3. /\ Stamped(c, p[1], p[2]) \in LogsOf(c)
        /\ Stamped(c, p[1], p[2]).name = name /\ Stamped(c, p[1], p[2]).epoch = e
    BY <2>1, <2>2, LogsOfChain, StampedIs DEF LogAt
  <2>4. QED
    BY <2>3 DEF Happened, Named
<1>3. QED
  BY <1>1, <1>2 DEF Happened

\* The rounds that a chain started, place by place.
LEMMA StartedAre ==
    ASSUME NEW c \in Seq(Blocks)
    PROVE  StartedIn(c, Places(c)) = {l.epoch : l \in Named(c, {"RoundStarted"})}
<1>1. \A e : e \in StartedIn(c, Places(c)) <=> Told(c, Places(c), e, {"RoundStarted"}) # {}
  BY DEF StartedIn, Told
<1>2. \A e : Told(c, Places(c), e, {"RoundStarted"}) # {} <=> Happened(c, e, "RoundStarted")
  BY HappenedIs
<1>3. \A e : Happened(c, e, "RoundStarted") <=>
                e \in {l.epoch : l \in Named(c, {"RoundStarted"})}
  BY DEF Happened
<1> HIDE DEF StartedIn
<1>4. QED
  BY <1>1, <1>2, <1>3

\* the log that settled round e, and the round's row
DecisionOn(c, e) == CHOOSE l \in Named(c, {"RoundSettled"}) : l.epoch = e

RoundOf(c, e) ==
    [epoch |-> e,
     bull |-> Side(BetsOf(c), e, "BULL"), bear |-> Side(BetsOf(c), e, "BEAR"),
     status |-> IF Happened(c, e, "RoundCancelled") THEN "CANCELLED"
                ELSE IF Happened(c, e, "RoundSettled") THEN "SETTLED"
                ELSE IF Happened(c, e, "RoundLocked") THEN "LOCKED" ELSE "OPEN",
     outcome |-> IF Happened(c, e, "RoundCancelled") THEN "CANCELLED"
                 ELSE IF Happened(c, e, "RoundSettled") THEN DecisionOn(c, e).outcome
                 ELSE None,
     fee |-> IF Happened(c, e, "RoundSettled") THEN DecisionOn(c, e).amount ELSE 0]

\* RoundsOf has one for every round that was started.
LEMMA RoundsRowByRow ==
    \A c : RoundsOf(c) = {RoundOf(c, e) : e \in {l.epoch : l \in Named(c, {"RoundStarted"})}}
BY DEF RoundsOf, RoundOf, DecisionOn, Side

\* With every place read and none to be read again, the rolled-up tables are those the
\* properties name.
LEMMA RolledAre ==
    ASSUME NEW c, OnChain(c), NEW t, RolledUp(t, c, Places(c), {})
    PROVE  /\ t.bets = BetsOf(c) /\ t.claims = ClaimsOf(c)
           /\ t.rounds = RoundsOf(c)
           /\ t.users = UsersOf(c)
           /\ t.burns = BurnsOf(c)
<1> DEFINE P == Places(c)
<1>1. c \in Seq(Blocks)
  BY OnChainIs
<1>2. t.bets = BetsOf(c) /\ t.claims = ClaimsOf(c) /\ t.burns = BurnsOf(c)
  BY <1>1, RowsOfPlaces, TablesAre, BurnsAre DEF RolledUp, HasRows
<1>3. t.users = UsersOf(c)
  <2> DEFINE Of(rows, a) == {r \in rows : r.account = a}
             Took(a, kind) == {r \in Of(ClaimsOf(c), a) : r.kind = kind}
             User(a) == [account |-> a, entered |-> Cardinality(Of(BetsOf(c), a)),
                         staked |-> Total(Of(BetsOf(c), a)),
                         won |-> Cardinality(Took(a, "CLAIM")), claimed |-> Total(Took(a, "CLAIM")),
                         refunded |-> Total(Took(a, "REFUND"))]
  <2>1. UsersOf(c) = {User(a) : a \in {r.account : r \in BetsOf(c)}}
    BY DEF UsersOf
  <2>2. ASSUME NEW a
        PROVE  UserRow(BetsOf(c), ClaimsOf(c), a) = User(a)
    <3>1. \A kind : {k \in ClaimsOf(c) : k.account = a /\ k.kind = kind} = Took(a, kind)
      OBVIOUS
    <3>2. {b \in BetsOf(c) : b.account = a} = Of(BetsOf(c), a)
      OBVIOUS
    <3> HIDE DEF Of, Took
    <3>3. QED
      BY <3>1, <3>2 DEF UserRow
  <2>3. t.users = {UserRow(BetsOf(c), ClaimsOf(c), a) : a \in {r.account : r \in BetsOf(c)}}
    BY <1>2 DEF RolledUp
  <2> HIDE DEF User
  <2>4. QED
    BY <2>1, <2>2, <2>3
<1>4. \A e, name : Told(c, P, e, {name}) # {} <=> Happened(c, e, name)
  BY <1>1, HappenedIs
<1>5. ASSUME NEW e, Happened(c, e, "RoundSettled")
      PROVE  /\ DecisionOn(c, e).outcome = Settlement(c, P, e).outcome
             /\ DecisionOn(c, e).amount = Settlement(c, P, e).amount
  <2>1. DecisionOn(c, e) \in Named(c, {"RoundSettled"}) /\ DecisionOn(c, e).epoch = e
    BY <1>5 DEF Happened, DecisionOn
  <2>2. PICK p \in Told(c, P, e, {"RoundSettled"}) :
                /\ DecisionOn(c, e).outcome = LogAt(c, p).outcome
                /\ DecisionOn(c, e).amount = LogAt(c, p).amount
    BY <1>1, <2>1, HappenedIs
  <2>3. ASSUME NEW q \in Told(c, P, e, {"RoundSettled"})
        PROVE  q = p
    <3>1. /\ p \in Places(c) /\ q \in Places(c) /\ LogAt(c, p).epoch = LogAt(c, q).epoch
          /\ LogAt(c, p).name \in Decisions /\ LogAt(c, q).name \in Decisions
      BY DEF Told, Decisions
    <3>2. QED
      BY <3>1, DecidedOnce
  <2>4. Settlement(c, P, e) = LogAt(c, p)
    BY <2>3 DEF Settlement
  <2>5. QED
    BY <2>2, <2>4
<1>6. RoundsOf(c) = {RoundOf(c, e) : e \in {l.epoch : l \in Named(c, {"RoundStarted"})}}
  BY RoundsRowByRow
<1>7. ASSUME NEW e
      PROVE  RoundRow(c, P, BetsOf(c), e, StatusIn(c, P, e)) = RoundOf(c, e)
  <2>1. StatusIn(c, P, e) = IF Happened(c, e, "RoundCancelled") THEN "CANCELLED"
                            ELSE IF Happened(c, e, "RoundSettled") THEN "SETTLED"
                            ELSE IF Happened(c, e, "RoundLocked") THEN "LOCKED" ELSE "OPEN"
    BY <1>4 DEF StatusIn
  <2>2. OutcomeIn(c, P, e) = IF Happened(c, e, "RoundCancelled") THEN "CANCELLED"
                             ELSE IF Happened(c, e, "RoundSettled") THEN DecisionOn(c, e).outcome
                             ELSE None
    BY <1>4, <1>5 DEF OutcomeIn
  <2>3. FeeIn(c, P, e) = IF Happened(c, e, "RoundSettled") THEN DecisionOn(c, e).amount ELSE 0
    BY <1>4, <1>5 DEF FeeIn
  <2>4. QED
    BY <2>1, <2>2, <2>3 DEF RoundRow, RoundOf
<1>8. PICK st : /\ t.rounds = {RoundRow(c, P, t.bets, e, st[e]) : e \in StartedIn(c, P)}
                /\ \A e \in StartedIn(c, P) : \/ st[e] = StatusIn(c, P, e)
                                              \/ Told(c, P \cap {}, e, Decisions) # {}
  BY DEF RolledUp, HasRounds
<1>9. \A e \in StartedIn(c, P) : st[e] = StatusIn(c, P, e)
  <2>1. \A e : Told(c, P \cap {}, e, Decisions) = {}
    BY DEF Told
  <2>2. QED
    BY <1>8, <2>1
<1> HIDE DEF P
<1>10. t.rounds = {RoundOf(c, e) : e \in StartedIn(c, P)}
  BY <1>2, <1>7, <1>8, <1>9
<1>11. StartedIn(c, P) = {l.epoch : l \in Named(c, {"RoundStarted"})}
  BY <1>1, StartedAre DEF P
<1>12. QED
  BY <1>2, <1>3, <1>6, <1>10, <1>11

\* Empty tables are those of no log at all.
LEMMA EmptyRolled ==
    ASSUME NEW c, NEW t, DOMAIN t = Names, t.bets = {}, t.claims = {}, t.burns = {},
           t.rounds = {}, t.users = {}
    PROVE  RolledUp(t, c, {}, {})
<1>1. HasRows(t, c, {})
  BY DEF HasRows, RowsSeen, BurnsSeen
<1>2. StartedIn(c, {}) = {}
  BY DEF StartedIn
<1>3. HasRounds(t, c, {}, {})
  BY <1>2 DEF HasRounds
<1>4. t.users = {UserRow(t.bets, t.claims, a) : a \in {r.account : r \in t.bets}}
  OBVIOUS
<1>5. QED
  BY <1>1, <1>3, <1>4 DEF RolledUp

-----------------------------------------------------------------------------
(* As long as the chain only grows *)

\* The rolled-up tables depend on nothing else.
LEMMA RolledSame ==
    ASSUME NEW t, NEW v, DOMAIN v = Names, v.bets = t.bets, v.claims = t.claims,
           v.burns = t.burns, v.rounds = t.rounds, v.users = t.users,
           NEW c, NEW G, NEW R, RolledUp(t, c, G, R)
    PROVE  RolledUp(v, c, G, R)
<1>1. HasRows(v, c, G)
  BY DEF RolledUp, HasRows
<1>2. HasRounds(v, c, G, R)
  BY DEF RolledUp, HasRounds
<1>3. QED
  BY <1>1, <1>2 DEF RolledUp

\* nothing indexed yet, and the process knows
Fresh ==
    /\ db.state.last = None /\ db.rounds = {} /\ db.users = {} /\ db.burns = {}
    /\ ~Stopped => last = StartBlock - 1

\* the tables of the canonical chain up to the cursor, which is at most one lost commit ahead
\* of the process
Current ==
    /\ db.state.last \in Nat /\ db.state.last <= SafeHead
    /\ db.state.hash = Hash(db.state.last)
    /\ RolledUp(db, Hash(db.state.last), Places(Hash(db.state.last)), {})
    /\ ~Stopped => db.state.last <= last + BatchSize
    /\ pc \in {"check", "fetch", "commit"} => db.state.last <= safe

\* Without a reorg nothing is rolled back, and the rolled-up tables are those of the chain.
Straight ==
    ~reorged =>
        /\ ~blind /\ ~cut
        /\ safe <= SafeHead
        /\ db.market # OtherMarket => pc \notin {"rollback", "cursor"} /\ (Fresh \/ Current)

\* The safe head is a block of the chain, or zero.
LEMMA SafeHeadIs ==
    ASSUME NEW k, k = Len(chain), k \in Nat
    PROVE  SafeHead \in Nat /\ SafeHead <= k
           /\ SafeHead = IF k > Confirmations THEN k - Confirmations ELSE 0
BY IndexerAssumption DEF SafeHead

\* It holds on a fresh database, and says nothing of another market's.
LEMMA InitStraight == Init => Straight
<1> SUFFICES ASSUME Init
             PROVE  Straight
  OBVIOUS
<1>1. /\ db = EmptyTables \/ db = OtherTables
      /\ pc = "down" /\ safe = 0 /\ ~blind /\ ~cut
  BY DEF Init
<1>2. EmptyTables.state.last = None /\ EmptyTables.rounds = {} /\ EmptyTables.users = {}
      /\ EmptyTables.burns = {}
  BY DEF EmptyTables, NoState
<1>3. safe <= SafeHead
  <2>1. OnChain(chain)
    BY InitRows DEF RowsInv
  <2>2. Len(chain) \in Nat
    BY <2>1, OnChainIs
  <2>3. QED
    BY <1>1, <2>2, SafeHeadIs
<1>4. QED
  BY <1>1, <1>2, <1>3, IndexerAssumption DEF Straight, Fresh, Stopped

\* A step that writes no table, or only registers the market, keeps it, if it goes on in the
\* tick only as far as it was.
LEMMA RestStraight ==
    ASSUME IndexerInv, Straight, db' = db \/ (Own /\ db' = Registered(db)),
           ~reorged' => ~reorged /\ ~blind' /\ ~cut',
           ~reorged => \/ chain' = chain
                       \/ /\ Len(chain') >= Len(chain) /\ Len(chain') \in Nat
                          /\ \A k \in Int : k <= Len(chain) => Prefix(chain', k) = Prefix(chain, k),
           safe' \in {0, safe, SafeHead},
           ~reorged /\ ~Stopped' =>
              \/ ~Stopped /\ last' = last
              \/ Fresh /\ last' = StartBlock - 1
              \/ Current /\ last' = db.state.last,
           pc' \notin {"rollback", "cursor"} \/ pc' = pc,
           pc' \in {"check", "fetch", "commit"} =>
              \/ pc \in {"check", "fetch", "commit"} /\ safe' = safe
              \/ ~reorged => safe' = SafeHead \/ Fresh
    PROVE  Straight'
<1> SUFFICES ASSUME ~reorged'
             PROVE  /\ safe' <= SafeHead'
                    /\ db'.market # OtherMarket => pc' \notin {"rollback", "cursor"}
                                                     /\ (Fresh \/ Current)'
  BY DEF Straight
<1>1. /\ ~reorged /\ safe <= SafeHead /\ safe \in Nat
      /\ Len(chain) \in Nat /\ SafeHead \in Nat /\ SafeHead <= Len(chain)
  BY OnChainIs, SafeHeadIs DEF Straight, IndexerInv, RowsInv
<1>2. SafeHead <= SafeHead' /\ SafeHead' \in Nat
  <2>1. CASE chain' = chain
    BY <1>1, <2>1 DEF SafeHead
  <2>2. CASE Len(chain') >= Len(chain) /\ Len(chain') \in Nat
    BY <1>1, <2>2, IndexerAssumption DEF SafeHead
  <2>3. QED
    BY <1>1, <2>1, <2>2
<1>3. safe' <= SafeHead'
  BY <1>1, <1>2
<1>4. ASSUME db'.market # OtherMarket
      PROVE  pc' \notin {"rollback", "cursor"} /\ (Fresh \/ Current)'
  <2>1. db.market # OtherMarket
    BY <1>4, IndexerAssumption DEF Own
  <2>2. pc \notin {"rollback", "cursor"} /\ (Fresh \/ Current)
    BY <1>1, <2>1 DEF Straight
  <2>3. /\ db'.state = db.state /\ db'.rounds = db.rounds /\ db'.users = db.users
        /\ db' = db \/ (DOMAIN db' = Names /\ db'.bets = db.bets /\ db'.claims = db.claims)
        /\ db'.burns = db.burns
    <3>1. CASE db' = db
      BY <3>1
    <3>2. CASE Own /\ db' = Registered(db)
      BY <3>2 DEF Registered, Own, Names
    <3>3. QED
      BY <3>1, <3>2
  <2>4. ASSUME Fresh
        PROVE  Fresh'
    <3>1. db.state.last = None
      BY <2>4 DEF Fresh
    <3>2. ~Stopped' => last' = StartBlock - 1
      <4>1. ~Current
        BY <3>1, LogAssumption DEF Current
      <4>2. ~Stopped => last = StartBlock - 1
        BY <2>4 DEF Fresh
      <4>3. QED
        BY <1>1, <4>1, <4>2
    <3>3. QED
      BY <2>3, <2>4, <3>2 DEF Fresh
  <2>5. ASSUME Current
        PROVE  Current'
    <3> DEFINE L == db.state.last
    <3>1. L \in Nat /\ L <= Len(chain) /\ L <= SafeHead
      BY <1>1, <2>5 DEF Current
    <3>2. PICK c : c = Hash(L)
      OBVIOUS
    <3>3. Hash(db.state.last)' = c
      BY <1>1, <2>3, <3>1, <3>2 DEF Hash
    <3>4. RolledUp(db, c, Places(c), {})
      BY <2>5, <3>2 DEF Current
    <3>5. RolledUp(db', c, Places(c), {})
      BY <2>3, <3>4, RolledSame
    <3>6. ~Fresh
      BY <3>1, LogAssumption DEF Fresh
    <3>7. ~Stopped' => L <= last' + BatchSize
      <4>1. ~Stopped => L <= last + BatchSize
        BY <2>5 DEF Current
      <4>2. L <= L + BatchSize
        BY <3>1, IndexerAssumption
      <4>3. QED
        BY <1>1, <3>6, <4>1, <4>2
    <3>8. pc' \in {"check", "fetch", "commit"} => L <= safe'
      <4>1. pc \in {"check", "fetch", "commit"} => L <= safe
        BY <2>5 DEF Current
      <4>2. QED
        BY <1>1, <3>1, <3>6, <4>1
    <3>9. L <= SafeHead'
      BY <1>1, <1>2, <3>1
    <3>10. db.state.hash = c
      BY <2>5, <3>2 DEF Current
    <3>11. QED
      BY <2>3, <3>1, <3>3, <3>5, <3>7, <3>8, <3>9, <3>10 DEF Current
  <2>6. QED
    BY <2>2, <2>4, <2>5
<1>5. QED
  BY <1>3, <1>4

\* Tables that were wiped are fresh.
LEMMA WipedStraight ==
    ASSUME Wipe, ~reorged' => safe' <= SafeHead', pc' \notin {"rollback", "cursor"},
           ~reorged' /\ ~Stopped' => last' = StartBlock - 1
    PROVE  Straight'
<1>1. db' = EmptyTables /\ ~blind' /\ ~cut'
  BY DEF Wipe, WipeChain
<1>2. /\ db'.state.last = None /\ db'.rounds = {} /\ db'.users = {} /\ db'.burns = {}
  BY <1>1 DEF EmptyTables, NoState
<1>3. QED
  BY <1>1, <1>2 DEF Straight, Fresh

\* Where the tables were just wiped nothing is indexed.
LEMMA WipedIsFresh ==
    ASSUME IndexerInv, Straight, ~reorged, pc \in {"reset", "reregister"}
    PROVE  Own /\ Fresh
<1>1. Own
  BY DEF IndexerInv, RowsInv
<1>2. db.market # OtherMarket
  BY <1>1, IndexerAssumption DEF Own
<1>3. ~blind /\ (Fresh \/ Current)
  BY <1>2 DEF Straight
<1>4. Blank
  BY <1>2, <1>3 DEF IndexerInv, Certified, Tipped, Untipped
<1>5. QED
  BY <1>1, <1>3, <1>4, LogAssumption DEF Blank, Current

\* A cursor ahead of the head is that of an empty database.
LEMMA AheadIsFresh ==
    ASSUME IndexerInv, Straight, ~reorged, ~Stopped, last > Len(chain)
    PROVE  last = StartBlock - 1
<1>1. db.market # OtherMarket
  BY IndexerAssumption DEF IndexerInv, RowsInv, Own, Stopped
<1>2. ~blind /\ (Fresh \/ Current)
  BY <1>1 DEF Straight
<1>3. ASSUME Current
      PROVE  FALSE
  <2>1. db.state.last \in Nat /\ db.state.last <= SafeHead
    BY <1>3 DEF Current
  <2>2. last <= db.state.last
    BY <1>1, <1>2, <2>1, LogAssumption DEF IndexerInv, Certified, Blank, Tipped, Untipped
  <2>3. last \in Int /\ Len(chain) \in Nat
    BY OnChainIs DEF IndexerInv, RowsInv, Heights
  <2>4. SafeHead \in Nat /\ SafeHead <= Len(chain)
    BY <2>3, SafeHeadIs
  <2>5. QED
    BY <2>1, <2>2, <2>3, <2>4
<1>4. QED
  BY <1>2, <1>3 DEF Fresh

\* A start goes on from the cursor, or from nothing.
LEMMA StartStraight ==
    ASSUME IndexerInv, Straight, StartUp
    PROVE  Straight'
<1>1. pc # "down" => Own
  BY DEF IndexerInv, RowsInv, StartUp, Connect, Register, Resume, Reregister
<1>2. ~reorged => /\ ~blind /\ ~cut /\ safe <= SafeHead
                  /\ db.market # OtherMarket => Fresh \/ Current
  BY DEF Straight
<1>3. CASE Connect
  <2>1. /\ pc' = "register" /\ UNCHANGED <<chain, safe, reorged>>
        /\ Wipe \/ UNCHANGED <<db, blind, cut>>
    BY <1>3 DEF Connect, KeepTables, locals
  <2>2. SafeHead' = SafeHead /\ Stopped'
    BY <2>1 DEF SafeHead, Stopped
  <2>3. CASE Wipe
    BY <1>2, <2>1, <2>2, <2>3, WipedStraight
  <2>4. CASE UNCHANGED <<db, blind, cut>>
    BY <1>2, <2>1, <2>2, <2>4, RestStraight
  <2>5. QED
    BY <2>1, <2>3, <2>4
<1>4. CASE Register
  <2>1. /\ pc = "register" /\ pc' = "resume" /\ UNCHANGED <<chain, safe, reorged, blind, cut>>
        /\ db' = Registered(db)
    BY <1>4 DEF Register, locals, history
  <2>2. Stopped' /\ Own
    BY <1>1, <2>1 DEF Stopped
  <2>3. QED
    BY <1>2, <2>1, <2>2, RestStraight
<1>5. CASE Resume
  <2>1. /\ pc = "resume" /\ UNCHANGED <<chain, safe, reorged>>
        /\ \/ Wipe /\ pc' = "reregister"
           \/ /\ UNCHANGED <<db, blind, cut>> /\ pc' = "idle"
              /\ last' = IF db.state.last = None THEN StartBlock - 1 ELSE db.state.last
    BY <1>5 DEF Resume, KeepTables
  <2>2. SafeHead' = SafeHead
    BY <2>1 DEF SafeHead
  <2>3. CASE Wipe /\ pc' = "reregister"
    <3>1. Stopped'
      BY <2>3 DEF Stopped
    <3>2. QED
      BY <1>2, <2>1, <2>2, <2>3, <3>1, WipedStraight
  <2>4. CASE /\ UNCHANGED <<db, blind, cut>> /\ pc' = "idle"
             /\ last' = IF db.state.last = None THEN StartBlock - 1 ELSE db.state.last
    <3>1. db.market # OtherMarket
      BY <1>1, <2>1, IndexerAssumption DEF Own
    <3>2. ~reorged => \/ Fresh /\ last' = StartBlock - 1
                      \/ Current /\ last' = db.state.last
      BY <1>2, <2>4, <3>1, LogAssumption DEF Fresh, Current
    <3>3. QED
      BY <1>2, <2>1, <2>4, <3>2, RestStraight
  <2>5. QED
    BY <2>1, <2>3, <2>4
<1>6. CASE Reregister
  <2>1. /\ pc = "reregister" /\ pc' = "idle" /\ UNCHANGED <<chain, safe, reorged, blind, cut>>
        /\ db' = Registered(db) /\ last' = StartBlock - 1
    BY <1>6 DEF Reregister, history
  <2>2. ~reorged => Own /\ Fresh
    BY <2>1, WipedIsFresh
  <2>3. Own
    BY <1>1, <2>1
  <2>4. QED
    BY <1>2, <2>1, <2>2, <2>3, RestStraight
<1>7. QED
  BY <1>3, <1>4, <1>5, <1>6 DEF StartUp

\* A start that fails leaves the tables as they were, wiped or registered.
LEMMA StartFailsStraight ==
    ASSUME IndexerInv, Straight, StartFails
    PROVE  Straight'
<1>1. /\ pc' = "refused" /\ safe' = 0 /\ UNCHANGED <<chain, reorged>>
      /\ \/ UNCHANGED <<db, blind, cut>>
         \/ Wipe
         \/ pc # "down" /\ db' = Registered(db) /\ UNCHANGED <<blind, cut>>
  BY DEF StartFails, Exit, KeepTables
<1>2. pc # "down" => Own
  BY DEF IndexerInv, RowsInv, StartFails
<1>3. Stopped' /\ SafeHead' = SafeHead /\ SafeHead \in Nat
  <2>1. Len(chain) \in Nat
    BY OnChainIs DEF IndexerInv, RowsInv
  <2>2. QED
    BY <1>1, <2>1, SafeHeadIs DEF SafeHead, Stopped
<1>4. ~reorged => ~blind /\ ~cut
  BY DEF Straight
<1>5. CASE Wipe
  <2>1. safe' <= SafeHead'
    BY <1>1, <1>3
  <2>2. QED
    BY <1>1, <1>3, <1>5, <2>1, WipedStraight
<1>6. CASE UNCHANGED <<db, blind, cut>>
  BY <1>1, <1>3, <1>4, <1>6, RestStraight
<1>7. CASE pc # "down" /\ db' = Registered(db) /\ UNCHANGED <<blind, cut>>
  BY <1>1, <1>2, <1>3, <1>4, <1>7, RestStraight
<1>8. QED
  BY <1>1, <1>5, <1>6, <1>7

\* Reading the head raises the safe head to where the tables are, or above.
LEMMA ReadHeadStraight ==
    ASSUME IndexerInv, Straight, ReadHead
    PROVE  Straight'
<1>1. /\ safe' = SafeHead /\ pc = "idle" /\ UNCHANGED <<chain, reorged, last>>
      /\ pc' \in {"idle", "check", "reset"}
      /\ \/ last > Len(chain) /\ Wipe
         \/ UNCHANGED <<db, blind, cut>>
  BY DEF ReadHead, GoOn, Done, KeepTables
<1>2. SafeHead' = SafeHead /\ SafeHead \in Nat /\ ~Stopped
  <2>1. Len(chain) \in Nat
    BY OnChainIs DEF IndexerInv, RowsInv
  <2>2. QED
    BY <1>1, <2>1, SafeHeadIs DEF SafeHead, Stopped
<1>3. safe' <= SafeHead'
  BY <1>1, <1>2
<1>4. CASE last > Len(chain) /\ Wipe
  <2>1. ~reorged => last = StartBlock - 1
    BY <1>2, <1>4, AheadIsFresh
  <2>2. QED
    BY <1>1, <1>3, <1>4, <2>1, WipedStraight
<1>5. CASE UNCHANGED <<db, blind, cut>>
  <2>1. ~reorged => ~blind /\ ~cut
    BY DEF Straight
  <2>2. QED
    BY <1>1, <1>2, <1>5, <2>1, RestStraight
<1>6. QED
  BY <1>1, <1>4, <1>5

\* Registering the wiped tables again goes on from the first block.
LEMMA ResetStraight ==
    ASSUME IndexerInv, Straight, Reset
    PROVE  Straight'
<1>1. /\ pc = "reset" /\ pc' \in {"idle", "check"} /\ db' = Registered(db)
      /\ last' = StartBlock - 1 /\ UNCHANGED <<chain, safe, reorged, blind, cut>>
  BY DEF Reset, GoOn, Done, history
<1>2. ~reorged => ~blind /\ ~cut /\ Fresh
  BY <1>1, WipedIsFresh DEF Straight
<1>3. Own
  BY <1>1 DEF IndexerInv, RowsInv
<1>4. QED
  BY <1>1, <1>2, <1>3, RestStraight

\* A tick that fails goes on from where it was.
LEMMA TickFailsStraight ==
    ASSUME IndexerInv, Straight, ReadHeadFails \/ ResetFails \/ FetchFails
    PROVE  Straight'
<1>1. /\ pc' = "idle" /\ UNCHANGED <<chain, reorged, last, safe>> /\ ~Stopped
      /\ \/ last > Len(chain) /\ Wipe
         \/ UNCHANGED <<db, blind, cut>>
         \/ db' = Registered(db) /\ UNCHANGED <<blind, cut>>
  BY DEF ReadHeadFails, ResetFails, FetchFails, Fail, KeepTables, history, Stopped
<1>2. ~reorged => ~blind /\ ~cut /\ safe <= SafeHead
  BY DEF Straight
<1>3. Own
  BY <1>1 DEF IndexerInv, RowsInv, Stopped
<1>4. SafeHead' = SafeHead
  BY <1>1 DEF SafeHead
<1>5. CASE last > Len(chain) /\ Wipe
  <2>1. ~reorged => last = StartBlock - 1
    BY <1>1, <1>5, AheadIsFresh
  <2>2. QED
    BY <1>1, <1>2, <1>4, <1>5, <2>1, WipedStraight
<1>6. CASE ~Wipe
  BY <1>1, <1>2, <1>3, <1>6, RestStraight
<1>7. QED
  BY <1>1, <1>3, <1>2, <1>5, <1>6, RestStraight

\* Nothing diverges, so that nothing is rolled back.
LEMMA CheckStraight ==
    ASSUME IndexerInv, Straight, CheckForReorg
    PROVE  Straight'
<1>1. /\ pc = "check" /\ UNCHANGED <<chain, db, reorged, locals>>
      /\ cut' = cut
      /\ \/ ~Diverged /\ pc' = "fetch" /\ (blind' => blind \/ cut)
         \/ Diverged
  BY DEF CheckForReorg, GoTo
<1>2. CASE reorged
  BY <1>1, <1>2 DEF Straight
<1>3. CASE ~reorged
  <2>1. Own
    BY <1>1 DEF IndexerInv, RowsInv, Stopped
  <2>2. db.market # OtherMarket
    BY <2>1, IndexerAssumption DEF Own
  <2>3. Fresh \/ Current
    BY <1>3, <2>2 DEF Straight
  <2>4. ~Diverged
    BY <2>1, <2>3 DEF Fresh, Current, Diverged, Own
  <2>5. pc' = "fetch" /\ (blind' => blind \/ cut)
    BY <1>1, <2>4
  <2>6. ~blind /\ ~cut
    BY <1>3 DEF Straight
  <2>7. safe' = safe /\ last' = last /\ ~Stopped
    BY <1>1 DEF locals, Stopped
  <2>8. QED
    BY <1>1, <2>5, <2>6, <2>7, RestStraight
<1>4. QED
  BY <1>2, <1>3

\* The process is in no rollback.
LEMMA RollBackStraight ==
    ASSUME IndexerInv, Straight, RollBack \/ RollBackFails \/ RewindCursor
    PROVE  Straight'
<1>1. pc \in {"rollback", "cursor"} /\ reorged' = reorged
  BY DEF RollBack, RollBackFails, RewindCursor, history
<1>2. Own
  BY <1>1 DEF IndexerInv, RowsInv, Stopped
<1>3. db.market # OtherMarket
  BY <1>2, IndexerAssumption DEF Own
<1>4. QED
  BY <1>1, <1>3 DEF Straight

\* A batch, repeated or not, brings the tables to its tip.
LEMMA CommitStraight ==
    ASSUME IndexerInv, IndexerInv', Straight, CommitBatch
    PROVE  Straight'
<1> DEFINE u == Indexed(db, batch.from, batch.view)
           L == db.state.last
<1>1. /\ pc = "commit" /\ pc' = "idle" /\ UNCHANGED <<chain, safe, reorged>>
      /\ batch.to <= Len(chain)
      /\ db' = [u EXCEPT !.state = CursorAfter]
      /\ last' \in {last, batch.to} /\ blind' = (blind \/ GoesBack \/ SkipsAhead)
      /\ ~cut'
  BY DEF CommitBatch, Done, Fail
<1>2. Own /\ db.market # OtherMarket
  BY <1>1, IndexerAssumption DEF IndexerInv, RowsInv, Own, Stopped
<1> SUFFICES ASSUME ~reorged
             PROVE  ~blind' /\ safe' <= SafeHead' /\ Current'
  BY <1>1 DEF Straight
<1>3. ~blind /\ ~cut /\ safe <= SafeHead /\ (Fresh \/ Current)
  BY <1>2 DEF Straight
<1>4. /\ Blank \/ Tipped \/ Untipped
      /\ batch.from = last + 1 /\ batch.to = Min({last + BatchSize, safe})
      /\ batch.view = Hash(batch.to)
  BY <1>1, <1>2, <1>3 DEF IndexerInv, Certified
<1>5. /\ last \in Int /\ safe \in Nat /\ batch.to \in Nat /\ batch.from \in Int
      /\ chain \in Seq(Blocks) /\ Len(chain) \in Nat /\ OnChain(chain)
      /\ BatchSize \in Nat /\ StartBlock \in Nat /\ SafeHead \in Nat
  <2>1. last \in Int /\ safe \in Nat /\ batch.to \in Nat /\ batch.from \in Int /\ OnChain(chain)
    BY DEF IndexerInv, RowsInv, Heights
  <2>2. chain \in Seq(Blocks) /\ Len(chain) \in Nat
    BY <2>1, OnChainIs
  <2>3. QED
    BY <2>1, <2>2, SafeHeadIs, IndexerAssumption
<1>6. batch.to = IF last + BatchSize <= safe THEN last + BatchSize ELSE safe
  BY <1>4, <1>5, LeastOf
<1>7. PICK v : v = batch.view
  OBVIOUS
<1>8. v \in Seq(Blocks) /\ Len(v) = batch.to /\ OnChain(v) /\ v = Prefix(chain, batch.to)
  BY <1>1, <1>4, <1>5, <1>7, PrefixIs, OnChainIs DEF Hash
<1>9. \E n \in Int : /\ batch.from <= n + 1
                     /\ RolledUp(db, v, {p \in Places(v) : p[1] <= n}, {})
                     /\ L # None => n = L /\ L <= batch.to
  <2>1. CASE Fresh
    <3>1. Blank
      BY <1>4, <2>1, LogAssumption DEF Fresh, Tipped, Untipped, Heights
    <3>2. batch.from = StartBlock
      BY <1>1, <1>4, <1>5, <2>1 DEF Fresh, Stopped
    <3>3. {p \in Places(v) : p[1] <= StartBlock - 1} = {}
      <4>1. \A p \in Places(v) : p[1] \in StartBlock .. Len(v)
        BY <1>8, PlaceIs
      <4>2. QED
        BY <1>5, <4>1
    <3>4. RolledUp(db, v, {}, {})
      <4>1. db.bets = {} /\ db.claims = {}
        BY <3>1 DEF Blank, Kept
      <4>2. QED
        BY <1>2, <2>1, <4>1, EmptyRolled DEF Own, Fresh
    <3>5. StartBlock - 1 \in Int /\ batch.from <= StartBlock - 1 + 1 /\ L = None
      BY <1>5, <2>1, <3>2 DEF Fresh
    <3>6. QED
      <4> StartBlock - 1 \in Int
        BY <3>5
      <4> WITNESS StartBlock - 1 \in Int
      <4>1. QED
        BY <3>3, <3>4, <3>5
  <2>2. CASE Current
    <3>1. L \in Int /\ L <= safe /\ L <= last + BatchSize /\ L # None
      BY <1>1, <2>2, LogAssumption DEF Current, Stopped
    <3>2. L <= batch.to
      BY <1>6, <3>1
    <3>3. last <= L
      BY <1>1, <1>4, <3>1 DEF Blank, Tipped, Untipped, Stopped
    <3>4. Prefix(v, L) = Hash(L)
      BY <1>5, <1>8, <3>1, <3>2, PrefixAgain DEF Hash
    <3>5. RolledUp(db, Prefix(v, L), Places(Prefix(v, L)), {})
      BY <2>2, <3>4 DEF Current
    <3>6. RolledUp(db, v, {p \in Places(v) : p[1] <= L}, {})
      BY <1>8, <3>1, <3>5, RolledPrefix
    <3>7. batch.from <= L + 1
      BY <1>4, <1>5, <3>1, <3>3
    <3>8. QED
      <4> L \in Int
        BY <3>1
      <4> WITNESS L \in Int
      <4>1. QED
        BY <3>2, <3>6, <3>7
  <2>3. QED
    BY <1>3, <2>1, <2>2
<1>10. RolledUp(u, v, Places(v), {})
  <2>1. PICK n \in Int : /\ batch.from <= n + 1
                         /\ RolledUp(db, v, {p \in Places(v) : p[1] <= n}, {})
    BY <1>9
  <2>2. RolledUp(Indexed(db, batch.from, v), v, Places(v), {})
    BY <1>5, <1>8, <2>1, IndexedRolls
  <2>3. QED
    BY <1>7, <2>2
<1> HIDE DEF u
<1>11. DOMAIN u = Names
  BY <1>10 DEF RolledUp, HasRows
<1>12. /\ DOMAIN db' = Names /\ db'.state = CursorAfter
       /\ db'.bets = u.bets /\ db'.claims = u.claims /\ db'.burns = u.burns
       /\ db'.rounds = u.rounds /\ db'.users = u.users
  BY <1>1, <1>11 DEF Names
<1>13. RolledUp(db', v, Places(v), {})
  BY <1>10, <1>12, RolledSame
<1>14. db'.state.last = batch.to /\ db'.state.hash = v
  BY <1>4, <1>7, <1>12 DEF CursorAfter
<1>15. Hash(db.state.last)' = v
  BY <1>1, <1>8, <1>14 DEF Hash
<1>16. SafeHead' = SafeHead
  BY <1>1 DEF SafeHead
<1>17. batch.to <= SafeHead /\ batch.to <= last' + BatchSize
  BY <1>1, <1>3, <1>5, <1>6
<1>18. Current'
  BY <1>1, <1>5, <1>13, <1>14, <1>15, <1>16, <1>17 DEF Current
<1>19. ~GoesBack /\ ~SkipsAhead
  <2>1. L # None => L \in Int /\ L <= batch.to
    BY <1>9
  <2>2. L = None => batch.from = StartBlock
    BY <1>1, <1>3, <1>4, <1>5, LogAssumption DEF Fresh, Current, Stopped
  <2>3. QED
    BY <1>3, <1>5, <2>1, <2>2 DEF GoesBack, SkipsAhead
<1>20. QED
  BY <1>1, <1>3, <1>16, <1>18, <1>19

\* Every step keeps it.
LEMMA NextStraight == IndexerInv /\ IndexerInv' /\ Straight /\ [Next]_vars => Straight'
<1> SUFFICES ASSUME IndexerInv, IndexerInv', Straight, [Next]_vars
             PROVE  Straight'
  OBVIOUS
<1> USE DEF locals, history
<1>1. ~reorged => ~blind /\ ~cut
  BY DEF Straight
<1>2. CASE UNCHANGED vars
  <2>1. UNCHANGED <<chain, db, pc, last, safe, reorged, blind, cut>>
    BY <1>2 DEF vars
  <2>2. QED
    BY <1>1, <2>1, RestStraight DEF Stopped
<1>3. ASSUME NEW h \in Histories, NEW n \in Lengths, Extend(h, n)
      PROVE  Straight'
  <2>1. /\ n \in Len(chain) + 1 .. Len(h) /\ IsPrefix(chain, h) /\ chain' = Prefix(h, n)
        /\ UNCHANGED <<db, pc, last, safe, reorged, blind, cut>>
    BY <1>3 DEF Extend
  <2>2. chain \in Seq(Blocks) /\ Len(chain) \in Nat /\ h \in Seq(Blocks) /\ Len(h) \in Nat
    BY OnChainIs, ChainStart DEF IndexerInv, RowsInv
  <2>3. n \in Int /\ Len(chain) < n /\ n <= Len(h)
    BY <2>1, <2>2
  <2>4. Len(chain') >= Len(chain) /\ Len(chain') \in Nat
    BY <2>1, <2>2, <2>3, PrefixIs
  <2>5. ASSUME NEW k \in Int, k <= Len(chain)
        PROVE  Prefix(chain', k) = Prefix(chain, k)
    <3>1. chain = Prefix(h, Len(chain))
      BY <2>1, <2>2, PrefixOfWhole
    <3>2. Prefix(Prefix(h, Len(chain)), k) = Prefix(h, k)
      BY <2>2, <2>5, PrefixAgain
    <3>3. Prefix(Prefix(h, n), k) = Prefix(h, k)
      BY <2>2, <2>3, <2>5, PrefixAgain
    <3>4. QED
      BY <2>1, <3>1, <3>2, <3>3
  <2>6. QED
    BY <1>1, <2>1, <2>4, <2>5, RestStraight DEF Stopped
<1>4. ASSUME NEW h \in Histories, NEW n \in Lengths, Reorg(h, n)
      PROVE  Straight'
  BY <1>4 DEF Reorg, Straight
<1>5. CASE Crash \/ Refuse \/ Relaunch
  <2>1. /\ UNCHANGED <<db, chain, reorged, blind, cut>> /\ pc' \in {"down", "refused"}
        /\ safe' \in {0, safe}
    BY <1>5 DEF Crash, Refuse, Relaunch, Exit
  <2>2. Stopped'
    BY <2>1 DEF Stopped
  <2>3. QED
    BY <1>1, <2>1, <2>2, RestStraight
<1>6. CASE FetchLogs
  <2>1. /\ UNCHANGED <<db, chain, safe, last, reorged, blind, cut>>
        /\ pc = "fetch" /\ pc' = "commit" /\ ~Stopped
    BY <1>6 DEF FetchLogs, Stopped
  <2>2. QED
    BY <1>1, <2>1, RestStraight
<1>7. CASE StartUp \/ StartFails \/ ReadHead \/ Reset \/ ReadHeadFails \/ ResetFails \/ FetchFails
  BY <1>7, StartStraight, StartFailsStraight, ReadHeadStraight, ResetStraight, TickFailsStraight
<1>8. CASE CheckForReorg \/ RollBack \/ RollBackFails \/ RewindCursor \/ CommitBatch
  BY <1>8, CheckStraight, RollBackStraight, CommitStraight
<1>9. QED
  BY <1>2, <1>3, <1>4, <1>5, <1>6, <1>7, <1>8 DEF Next, StartUp

\* It always holds.
LEMMA StraightAlways == Spec => []Straight
<1>1. Init => Straight
  BY InitStraight
<1>2. IndexerInv /\ IndexerInv' /\ Straight /\ [Next]_vars => Straight'
  BY NextStraight
<1>3. QED
  BY <1>1, <1>2, IndexerAlways, PTL DEF Spec

\* It gives the property.
LEMMA RolledBack == IndexerInv /\ Straight => ReplayIsHarmless
<1> SUFFICES ASSUME IndexerInv, Straight, HasTip, ~reorged
             PROVE  /\ db.rounds = RoundsOf(db.state.hash)
                    /\ db.users = UsersOf(db.state.hash)
                    /\ db.burns = BurnsOf(db.state.hash)
  BY DEF ReplayIsHarmless
<1>1. Own /\ db.state.last # None
  BY IndexerAssumption DEF IndexerInv, RowsInv, HasTip, Own
<1>2. Current
  BY <1>1 DEF Straight, HasTip, Fresh
<1>3. PICK c : c = db.state.hash
  OBVIOUS
<1>4. c = Prefix(chain, db.state.last) /\ RolledUp(db, c, Places(c), {})
  BY <1>2, <1>3 DEF Current, Hash
<1>5. OnChain(c)
  <2>1. OnChain(chain) /\ db.state.last \in Int
    BY <1>2 DEF IndexerInv, RowsInv, Current
  <2>2. QED
    BY <1>4, <2>1, OnChainIs
<1>6. QED
  BY <1>3, <1>4, <1>5, RolledAre

\* Without a reorg the rounds, users and burns are always those of the chain that the stored
\* hash ends, whatever crashes, lost commits and replays came before: every handler of
\* handlers.ts recomputes, so that a log applied again changes nothing in the end.
THEOREM ReplayAlwaysHarmless == Spec => []ReplayIsHarmless
<1>1. QED
  BY IndexerAlways, StraightAlways, RolledBack, PTL

-----------------------------------------------------------------------------
(* What a wallet is offered *)

\* the entries of account a that the index proposes, before it cuts off the list
CandidatesOf(a) ==
    {p \in Positions :
        p.account = a /\ p.kind = None /\ p.status \in {"SETTLED", "CANCELLED"}}

\* the list is not cut off
FitsThePage(a) == Cardinality(CandidatesOf(a)) <= 200

\* The newest n of at most n rows are all of them.
LEMMA NewestAll ==
    ASSUME NEW rows, IsFiniteSet(rows), NEW n \in Nat, Cardinality(rows) <= n,
           \A r \in rows : r.epoch \in Nat
    PROVE  Newest(rows, n) = rows
<1>1. ASSUME NEW r \in rows
      PROVE  Cardinality({s \in rows : s.epoch > r.epoch}) < n
  <2> DEFINE newer == {s \in rows : s.epoch > r.epoch}
             others == rows \ {r}
  <2>1. CASE r \notin newer
    <3>1. IsFiniteSet(others) /\ Cardinality(others) = Cardinality(rows) - 1
      BY FS_RemoveElement
    <3>2. newer \in SUBSET others
      BY <2>1
    <3> HIDE DEF newer, others
    <3>3. Cardinality(newer) <= Cardinality(others) /\ Cardinality(newer) \in Nat
          /\ Cardinality(rows) \in Nat
      BY <3>1, <3>2, FS_Subset, FS_CardinalityType
    <3>4. Cardinality(newer) < n
      BY <3>1, <3>3
    <3>5. QED
      BY <3>4 DEF newer
  <2>2. CASE r \in newer
    <3>1. r.epoch > r.epoch /\ r.epoch \in Nat
      BY <2>2
    <3>2. QED
      BY <3>1
  <2>3. QED
    BY <2>1, <2>2
<1>2. QED
  BY <1>1 DEF Newest

\* An entry of the longer chain into a round that the shorter one decided is in both.
LEMMA EnteredBefore ==
    ASSUME NEW d, OnChain(d), NEW n \in Int, NEW b \in BetsOf(d),
           DecidedOn(Prefix(d, n), b.epoch)
    PROVE  b \in BetsOf(Prefix(d, n))
<1> DEFINE c == Prefix(d, n)
           e == b.epoch
<1>1. c \in Seq(Blocks) /\ d \in Seq(Blocks) /\ OnChain(c)
  BY OnChainIs
<1>2. /\ BetsOf(d) = Table("bets", d) /\ BetsOf(c) = Table("bets", c)
      /\ BetsOf(d) = RowsSeen("bets", d, Places(d))
      /\ Table("bets", c) = {r \in Table("bets", d) : r.block <= n}
  BY <1>1, TablesAre, RowsOfPlaces, TableOfPrefix DEF Kept
<1>3. PICK q \in Places(d) : /\ Adds("bets", LogAt(d, q))
                             /\ b = RowOf("bets", LogAt(d, q), q[1], Prefix(d, q[1]))
  BY <1>2 DEF RowsSeen
<1>4. LogAt(d, q).name \in Entries /\ LogAt(d, q).epoch = e /\ b.block = q[1]
  BY <1>3 DEF Adds, Entries, RowOf, BetRow
<1>5. \E p \in Places(c) : LogAt(c, p).epoch = e /\ LogAt(c, p).name \in Decisions
  <2>1. \A name : Told(c, Places(c), e, {name}) # {} <=> Happened(c, e, name)
    BY <1>1, HappenedIs
  <2>2. \/ Told(c, Places(c), e, {"RoundSettled"}) # {}
        \/ Told(c, Places(c), e, {"RoundCancelled"}) # {}
    BY <2>1 DEF DecidedOn
  <2>3. QED
    BY <2>2 DEF Told, Decisions
<1>6. PICK p \in Places(c) : LogAt(c, p).epoch = e /\ LogAt(c, p).name \in Decisions
  BY <1>5
<1>7. p \in Places(d) /\ p[1] <= n /\ LogAt(d, p) = LogAt(c, p)
  BY <1>1, PlacesOfPrefix
<1>8. ~Before(p, q)
  BY <1>4, <1>6, <1>7, LifeIs
<1>9. p # q
  BY <1>4, <1>6, <1>7 DEF Entries, Decisions
<1>10. Before(q, p) /\ q[1] \in Nat /\ p[1] \in Nat
  BY <1>1, <1>7, <1>8, <1>9, PlacesOrdered, PlaceIs
<1>11. b.block <= n
  BY <1>4, <1>7, <1>10 DEF Before
<1>12. QED
  BY <1>2, <1>11

\* Every entry has its round, which is settled or cancelled when the chain decided it.
LEMMA RoundsDecided ==
    ASSUME NEW c, OnChain(c)
    PROVE  /\ \A b \in BetsOf(c) : \E r \in RoundsOf(c) : r.epoch = b.epoch
           /\ \A r \in RoundsOf(c) :
                 r.status \in {"SETTLED", "CANCELLED"} <=> DecidedOn(c, r.epoch)
<1> DEFINE Started == {l.epoch : l \in Named(c, {"RoundStarted"})}
<1>1. c \in Seq(Blocks)
  BY OnChainIs
<1>2. RoundsOf(c) = {RoundOf(c, e) : e \in Started}
  BY RoundsRowByRow
<1>3. ASSUME NEW e
      PROVE  /\ RoundOf(c, e).epoch = e
             /\ RoundOf(c, e).status \in {"SETTLED", "CANCELLED"} <=> DecidedOn(c, e)
  <2>1. RoundOf(c, e).epoch = e
    BY DEF RoundOf
  <2>2. RoundOf(c, e).status = IF Happened(c, e, "RoundCancelled") THEN "CANCELLED"
                               ELSE IF Happened(c, e, "RoundSettled") THEN "SETTLED"
                               ELSE IF Happened(c, e, "RoundLocked") THEN "LOCKED" ELSE "OPEN"
    BY DEF RoundOf
  <2>3. QED
    BY <2>1, <2>2 DEF DecidedOn
<1> HIDE DEF Started
<1>4. ASSUME NEW b \in BetsOf(c)
      PROVE  \E r \in RoundsOf(c) : r.epoch = b.epoch
  <2>1. BetsOf(c) = RowsSeen("bets", c, Places(c))
    BY <1>1, TablesAre, RowsOfPlaces
  <2>2. PICK q \in Places(c) : /\ Adds("bets", LogAt(c, q))
                               /\ b = RowOf("bets", LogAt(c, q), q[1], Prefix(c, q[1]))
    BY <2>1 DEF RowsSeen
  <2>3. LogAt(c, q).name \in Entries /\ LogAt(c, q).epoch = b.epoch
    BY <2>2 DEF Adds, Entries, RowOf, BetRow
  <2>4. \E p \in Places(c) : LogAt(c, p).epoch = b.epoch /\ LogAt(c, p).name = "RoundStarted"
    BY <2>3, LifeIs
  <2>5. b.epoch \in StartedIn(c, Places(c))
    BY <2>4 DEF StartedIn
  <2>6. b.epoch \in Started
    BY <1>1, <2>5, StartedAre DEF Started
  <2>7. QED
    BY <1>2, <1>3, <2>6
<1>5. QED
  BY <1>2, <1>3, <1>4

\* What the index proposes: the entries in decided rounds that were not paid yet.
LEMMA Proposed ==
    ASSUME NEW c, OnChain(c), db.bets = BetsOf(c), db.claims = ClaimsOf(c),
           db.rounds = RoundsOf(c), NEW a
    PROVE  \A e : (\E p \in CandidatesOf(a) : p.epoch = e) <=>
                     /\ DecidedOn(c, e) /\ ~CollectedOn(c, e, a)
                     /\ \E b \in BetsOf(c) : b.epoch = e /\ b.account = a
<1> DEFINE Mine(b) == {x \in db.claims : x.epoch = b.epoch /\ x.account = b.account}
           Paid(b) == IF Mine(b) = {} THEN {[kind |-> None, amount |-> 0]} ELSE Mine(b)
           Row(b, r, k) == [epoch |-> b.epoch, account |-> b.account, position |-> b.position,
                            amount |-> b.amount, status |-> r.status, outcome |-> r.outcome,
                            kind |-> k.kind, collected |-> k.amount]
           Of(b) == {Row(b, r, k) : r \in {x \in db.rounds : x.epoch = b.epoch}, k \in Paid(b)}
<1>1. Positions = UNION {Of(b) : b \in db.bets}
  BY DEF Positions
<1>2. \A k \in db.claims : k.kind # None
  <2>1. \A k \in ClaimsOf(c) : k.kind \in {"CLAIM", "REFUND"}
    BY DEF ClaimsOf
  <2>2. QED
    BY <2>1, LogAssumption
<1>3. ASSUME NEW b \in db.bets
      PROVE  /\ \A k \in Paid(b) : k.kind = None <=> ~CollectedOn(c, b.epoch, b.account)
             /\ Paid(b) # {}
  <2>1. Mine(b) = {} <=> ~CollectedOn(c, b.epoch, b.account)
    BY DEF CollectedOn
  <2>2. CASE Mine(b) = {}
    <3>1. Paid(b) = {[kind |-> None, amount |-> 0]}
      BY <2>2
    <3> HIDE DEF Paid
    <3>2. QED
      BY <2>1, <2>2, <3>1
  <2>3. CASE Mine(b) # {}
    <3>1. Paid(b) = Mine(b) /\ \A k \in Mine(b) : k.kind # None
      BY <1>2, <2>3
    <3> HIDE DEF Paid, Mine
    <3>2. QED
      BY <2>1, <2>3, <3>1
  <2>4. QED
    BY <2>2, <2>3
<1>4. \A b, r, k : /\ Row(b, r, k).epoch = b.epoch /\ Row(b, r, k).account = b.account
                   /\ Row(b, r, k).status = r.status /\ Row(b, r, k).kind = k.kind
  OBVIOUS
<1> HIDE DEF Paid, Row
<1>5. ASSUME NEW p \in CandidatesOf(a)
      PROVE  /\ DecidedOn(c, p.epoch) /\ ~CollectedOn(c, p.epoch, a)
             /\ \E b \in BetsOf(c) : b.epoch = p.epoch /\ b.account = a
  <2>1. /\ p \in Positions /\ p.account = a /\ p.kind = None
        /\ p.status \in {"SETTLED", "CANCELLED"}
    BY DEF CandidatesOf
  <2>2. PICK b \in db.bets : p \in Of(b)
    BY <1>1, <2>1
  <2>3. PICK r \in db.rounds, k \in Paid(b) : r.epoch = b.epoch /\ p = Row(b, r, k)
    BY <2>2
  <2>4. /\ p.epoch = b.epoch /\ b.account = a /\ k.kind = None
        /\ r.status \in {"SETTLED", "CANCELLED"}
    BY <1>4, <2>1, <2>3
  <2>5. DecidedOn(c, p.epoch)
    BY <2>3, <2>4, RoundsDecided
  <2>6. QED
    BY <1>3, <2>4, <2>5
<1>6. ASSUME NEW e, DecidedOn(c, e), ~CollectedOn(c, e, a),
             NEW b \in BetsOf(c), b.epoch = e, b.account = a
      PROVE  \E p \in CandidatesOf(a) : p.epoch = e
  <2>1. PICK r \in db.rounds : r.epoch = e /\ r.status \in {"SETTLED", "CANCELLED"}
    BY <1>6, RoundsDecided
  <2>2. PICK k \in Paid(b) : k.kind = None
    BY <1>3, <1>6
  <2>3. Row(b, r, k) \in Of(b)
    BY <1>6, <2>1, <2>2
  <2>4. Row(b, r, k) \in Positions
    BY <1>1, <1>6, <2>3
  <2>5. Row(b, r, k) \in CandidatesOf(a) /\ Row(b, r, k).epoch = e
    BY <1>4, <1>6, <2>1, <2>2, <2>4 DEF CandidatesOf
  <2>6. QED
    BY <2>5
<1>7. QED
  BY <1>5, <1>6

\* The image of a finite set is finite.
LEMMA FiniteImage ==
    ASSUME NEW f, IsFiniteSet(DOMAIN f)
    PROVE  IsFiniteSet({f[x] : x \in DOMAIN f})
<1> DEFINE g == [x \in DOMAIN f |-> f[x]]
           T == {f[x] : x \in DOMAIN f}
<1>1. g \in Surjection(DOMAIN f, T)
  BY DEF Surjection
<1>2. QED
  BY <1>1, FS_Surjection

\* A chain has finitely many logs.
LEMMA FinitePlaces ==
    ASSUME NEW c \in Seq(Blocks)
    PROVE  IsFiniteSet(Places(c))
<1> DEFINE f == [b \in StartBlock .. Len(c) |-> {b} \X DOMAIN Contents[c[b]]]
<1>1. StartBlock \in Nat \ {0} /\ Len(c) \in Nat
  BY IndexerAssumption
<1>2. IsFiniteSet(StartBlock .. Len(c))
  BY <1>1, FS_Interval
<1>3. ASSUME NEW b \in StartBlock .. Len(c)
      PROVE  IsFiniteSet(f[b])
  <2>1. c[b] \in Blocks
    BY <1>1
  <2>2. DOMAIN Contents[c[b]] = 1 .. Len(Contents[c[b]]) /\ Len(Contents[c[b]]) \in Nat
    BY <2>1, LogAssumption DEF Blocks
  <2>3. IsFiniteSet(DOMAIN Contents[c[b]])
    BY <2>2, FS_Interval
  <2>4. IsFiniteSet({b} \X DOMAIN Contents[c[b]])
    BY <2>3, FS_Singleton, FS_Product
  <2>5. QED
    BY <2>4
<1>4. Places(c) = UNION {f[b] : b \in DOMAIN f} /\ DOMAIN f = StartBlock .. Len(c)
  BY DEF Places
<1> HIDE DEF f
<1>5. IsFiniteSet({f[b] : b \in DOMAIN f})
  BY <1>2, <1>4, FiniteImage
<1>6. QED
  BY <1>3, <1>4, <1>5, FS_UNION

\* So its tables are finite.
LEMMA FiniteTables ==
    ASSUME NEW c, OnChain(c)
    PROVE  IsFiniteSet(BetsOf(c)) /\ IsFiniteSet(ClaimsOf(c)) /\ IsFiniteSet(RoundsOf(c))
<1>1. c \in Seq(Blocks) /\ IsFiniteSet(Places(c))
  BY OnChainIs, FinitePlaces
<1>2. ASSUME NEW x \in Kept
      PROVE  IsFiniteSet(Table(x, c))
  <2> DEFINE adding == {o \in Places(c) : Adds(x, LogAt(c, o))}
             f == [p \in adding |-> RowOf(x, LogAt(c, p), p[1], Prefix(c, p[1]))]
  <2>1. IsFiniteSet(adding)
    BY <1>1, FS_Subset
  <2>2. Table(x, c) = {f[p] : p \in DOMAIN f} /\ DOMAIN f = adding
    BY <1>1, RowsOfPlaces DEF RowsSeen
  <2> HIDE DEF f, adding
  <2>3. QED
    BY <2>1, <2>2, FiniteImage
<1>3. IsFiniteSet(BetsOf(c)) /\ IsFiniteSet(ClaimsOf(c))
  BY <1>1, <1>2, TablesAre DEF Kept
<1>4. IsFiniteSet(RoundsOf(c))
  <2> DEFINE starting == {o \in Places(c) : LogAt(c, o).name = "RoundStarted"}
             f == [p \in starting |-> RoundOf(c, LogAt(c, p).epoch)]
  <2>1. IsFiniteSet(starting)
    BY <1>1, FS_Subset
  <2>2. {f[p] : p \in DOMAIN f} = {RoundOf(c, e) : e \in StartedIn(c, Places(c))}
        /\ DOMAIN f = starting
    BY DEF StartedIn
  <2>3. RoundsOf(c) = {f[p] : p \in DOMAIN f}
    BY <1>1, <2>2, StartedAre, RoundsRowByRow
  <2> HIDE DEF f, starting
  <2>4. QED
    BY <2>1, <2>2, <2>3, FiniteImage
<1>5. QED
  BY <1>3, <1>4

\* So are the lists made from them.
LEMMA FiniteCandidates ==
    ASSUME IsFiniteSet(db.bets), IsFiniteSet(db.claims), IsFiniteSet(db.rounds), NEW a
    PROVE  IsFiniteSet(CandidatesOf(a))
<1> DEFINE Mine(b) == {x \in db.claims : x.epoch = b.epoch /\ x.account = b.account}
           Paid(b) == IF Mine(b) = {} THEN {[kind |-> None, amount |-> 0]} ELSE Mine(b)
           Rounds(b) == {x \in db.rounds : x.epoch = b.epoch}
           Row(b, r, k) == [epoch |-> b.epoch, account |-> b.account, position |-> b.position,
                            amount |-> b.amount, status |-> r.status, outcome |-> r.outcome,
                            kind |-> k.kind, collected |-> k.amount]
           Of(b) == {Row(b, r, k) : r \in Rounds(b), k \in Paid(b)}
           f == [b \in db.bets |-> Of(b)]
<1>1. Positions = UNION {f[b] : b \in DOMAIN f} /\ DOMAIN f = db.bets
  <2>1. Positions = UNION {Of(b) : b \in db.bets}
    BY DEF Positions
  <2> HIDE DEF Of
  <2>2. {f[b] : b \in DOMAIN f} = {Of(b) : b \in db.bets}
    OBVIOUS
  <2>3. QED
    BY <2>1, <2>2
<1>2. ASSUME NEW b \in db.bets
      PROVE  IsFiniteSet(Of(b))
  <2>1. IsFiniteSet(Mine(b)) /\ IsFiniteSet(Rounds(b))
    BY FS_Subset
  <2>2. IsFiniteSet(Paid(b))
    BY <2>1, FS_Singleton
  <2> HIDE DEF Mine, Paid, Rounds, Row
  <2> DEFINE pairs == Rounds(b) \X Paid(b)
             g == [q \in pairs |-> Row(b, q[1], q[2])]
  <2>3. IsFiniteSet(pairs)
    BY <2>1, <2>2, FS_Product
  <2>4. Of(b) = {g[q] : q \in DOMAIN g} /\ DOMAIN g = pairs
    <3>1. ASSUME NEW v \in Of(b)
          PROVE  \E q \in pairs : v = g[q]
      <4>1. PICK r \in Rounds(b), k \in Paid(b) : v = Row(b, r, k)
        OBVIOUS
      <4>2. <<r, k>> \in pairs /\ g[<<r, k>>] = v
        BY <4>1
      <4>3. QED
        BY <4>2
    <3>2. ASSUME NEW q \in pairs
          PROVE  g[q] \in Of(b)
      <4>1. q[1] \in Rounds(b) /\ q[2] \in Paid(b)
        OBVIOUS
      <4>2. QED
        BY <4>1
    <3>3. QED
      BY <3>1, <3>2
  <2> HIDE DEF g, pairs, Of
  <2>5. QED
    BY <2>3, <2>4, FiniteImage
<1>3. \A b \in db.bets : IsFiniteSet(f[b])
  BY <1>2
<1> HIDE DEF f
<1>4. IsFiniteSet({f[b] : b \in DOMAIN f})
  BY <1>1, FiniteImage
<1>5. IsFiniteSet(Positions)
  BY <1>1, <1>3, <1>4, FS_UNION
<1>6. CandidatesOf(a) \in SUBSET Positions
  BY DEF CandidatesOf
<1>7. QED
  BY <1>5, <1>6, FS_Subset

\* A wallet whose list is not cut off is offered exactly what it can collect.
LEMMA OffersAreExact ==
    IndexerInv /\ Straight /\ (\A a \in Accounts : FitsThePage(a)) => NothingCollectableIsHidden
<1> SUFFICES ASSUME IndexerInv, Straight, HasTip, ~reorged, NEW a \in Accounts, FitsThePage(a)
             PROVE  ClaimableEpochs(a) =
                       {e \in Epochs : Entitled(chain, e, a) /\ DecidedOn(db.state.hash, e)}
  BY DEF NothingCollectableIsHidden
<1>1. Current /\ OnChain(chain)
  <2>1. db.market # OtherMarket /\ db.state.last # None /\ OnChain(chain)
    BY IndexerAssumption DEF IndexerInv, RowsInv, HasTip, Own
  <2>2. QED
    BY <2>1 DEF Straight, Fresh
<1>2. PICK d, n, c : d = chain /\ n = db.state.last /\ c = db.state.hash
  OBVIOUS
<1>3. n \in Int /\ OnChain(d) /\ d \in Seq(Blocks) /\ c = Prefix(d, n) /\ OnChain(c)
  <2>1. n \in Int /\ OnChain(d) /\ c = Prefix(d, n)
    BY <1>1, <1>2 DEF Current, Hash
  <2>2. QED
    BY <2>1, OnChainIs
<1>4. RolledUp(db, c, Places(c), {})
  BY <1>1, <1>2 DEF Current
<1>5. db.bets = BetsOf(c) /\ db.claims = ClaimsOf(c) /\ db.rounds = RoundsOf(c)
  BY <1>3, <1>4, RolledAre
<1>6. \A e : (\E p \in CandidatesOf(a) : p.epoch = e) <=>
                /\ DecidedOn(c, e) /\ ~CollectedOn(c, e, a)
                /\ \E b \in BetsOf(c) : b.epoch = e /\ b.account = a
  BY <1>3, <1>5, Proposed
<1>7. BetsOf(c) \subseteq BetsOf(d) /\ ClaimsOf(c) \subseteq ClaimsOf(d)
  <2>1. /\ BetsOf(d) = Table("bets", d) /\ BetsOf(c) = Table("bets", c)
        /\ ClaimsOf(d) = Table("claims", d) /\ ClaimsOf(c) = Table("claims", c)
    BY <1>3, OnChainIs, TablesAre
  <2>2. \A x \in Kept : Table(x, c) = {r \in Table(x, d) : r.block <= n}
    BY <1>3, TableOfPrefix
  <2>3. QED
    BY <2>1, <2>2 DEF Kept
<1>8. \A b \in BetsOf(d) : b.epoch \in Epochs
  <2>1. PICK h \in Histories : h \in Seq(Blocks) /\ d = Prefix(h, Len(d)) /\ Len(d) \in Int
    BY <1>3, OnChainIs, ChainStart
  <2>2. Table("bets", d) \subseteq Table("bets", h)
    BY <2>1, TableOfPrefix DEF Kept
  <2>3. BetsOf(d) \subseteq BetsOf(h)
    BY <1>3, <2>1, <2>2, TablesAre
  <2>4. QED
    BY <2>3, EpochAssumption
<1>9. ClaimableEpochs(a) = {p.epoch : p \in {q \in CandidatesOf(a) : Entitled(d, q.epoch, a)}}
  <2>1. \A p \in CandidatesOf(a) : p.epoch \in Nat
    BY <1>6, <1>7, <1>8, EpochAssumption
  <2>2. IsFiniteSet(CandidatesOf(a))
    BY <1>3, <1>5, FiniteTables, FiniteCandidates
  <2>3. Newest(CandidatesOf(a), 200) = CandidatesOf(a)
    BY <2>1, <2>2, NewestAll DEF FitsThePage
  <2>4. QED
    BY <1>2, <2>3 DEF ClaimableEpochs, CandidatesOf
<1>10. ASSUME NEW e \in ClaimableEpochs(a)
       PROVE  e \in Epochs /\ Entitled(d, e, a) /\ DecidedOn(c, e)
  <2>1. PICK p \in CandidatesOf(a) : p.epoch = e /\ Entitled(d, e, a)
    BY <1>9
  <2>2. DecidedOn(c, e) /\ \E b \in BetsOf(c) : b.epoch = e
    BY <1>6, <2>1
  <2>3. e \in Epochs
    BY <1>7, <1>8, <2>2
  <2>4. QED
    BY <2>1, <2>2, <2>3
<1>11. ASSUME NEW e \in Epochs, Entitled(d, e, a), DecidedOn(c, e)
       PROVE  e \in ClaimableEpochs(a)
  <2>1. PICK b \in BetsOf(d) : b.epoch = e /\ b.account = a
    BY <1>11 DEF Entitled
  <2>2. b \in BetsOf(c)
    BY <1>3, <1>11, <2>1, EnteredBefore
  <2>3. ~CollectedOn(c, e, a)
    BY <1>7, <1>11 DEF Entitled, CollectedOn
  <2>4. \E p \in CandidatesOf(a) : p.epoch = e
    BY <1>6, <1>11, <2>1, <2>2, <2>3
  <2>5. QED
    BY <1>9, <1>11, <2>4
<1>12. QED
  BY <1>2, <1>10, <1>11

\* Without a reorg a wallet is always offered exactly what it can collect, although the index
\* is behind the chain and is built again after crashes, as long as its decided entries
\* without a payment fit in the 200 rows that apps/api/src/index.ts:281 asks for.
THEOREM CollectableIsOffered ==
    Spec => []((\A a \in Accounts : FitsThePage(a)) => NothingCollectableIsHidden)
<1>1. Spec => []Straight
  BY StraightAlways
<1>2. QED
  BY <1>1, IndexerAlways, OffersAreExact, PTL
=============================================================================
