------------------------------ MODULE QuoteFeed ------------------------------
(***************************************************************************)
(* What IPredictionOracle promises the market about its prices: the answer *)
(* for an instant and a window is given at most once, never before the     *)
(* instant, is the same whenever and by whomever it is asked for, and once *)
(* lost is lost for good. PonsPrediction assumes this of its oracles       *)
(* (MayAnswer); the adapters are shown to implement it.                    *)
(***************************************************************************)
EXTENDS Naturals

CONSTANTS Instants, Windows, Prices

VARIABLES clock, answer

Pending == [status |-> "pending", price |-> 0]
Lost == [status |-> "lost", price |-> 0]
Priced(price) == [status |-> "priced", price |-> price]

Answers == {Pending, Lost} \union {Priced(p) : p \in Prices}

Init ==
    /\ clock \in Nat
    /\ answer \in [Instants \X Windows -> Answers]
    /\ \A q \in Instants \X Windows : q[1] > clock => answer[q] = Pending

\* the instant has passed when it is first answered
Answered(old, new, instant) ==
    /\ old = Pending
    /\ new.status = "priced"
    /\ instant <= clock'

Forgotten(old, new) == old # Lost /\ new = Lost

Next ==
    /\ clock' >= clock
    /\ answer' \in [Instants \X Windows -> Answers]
    /\ \A q \in Instants \X Windows :
         \/ answer'[q] = answer[q]
         \/ Answered(answer[q], answer'[q], q[1])
         \/ Forgotten(answer[q], answer'[q])

Spec == Init /\ [][Next]_<<clock, answer>>
=============================================================================
