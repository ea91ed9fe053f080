----------------------------- MODULE Announcements -----------------------------
(***************************************************************************)
(* The market observed by somebody who reads only its proposal events: the *)
(* burn fee and the oracle last announced, and when.  The observer changes *)
(* nothing; what it has read is a history variable.                        *)
(***************************************************************************)
EXTENDS PonsPrediction

VARIABLE announced      \* history: the changes announced last, and when

Never(value) == [value |-> value, at |-> MaxTime]

InitAnnounced ==
    /\ Init
    /\ announced = [fee |-> Never(config.burnFeeBps), oracle |-> Never(config.oracle)]

NextAnnounced ==
    /\ Next
    /\ announced' =
         [fee |->
            IF \E bps \in Proposals.burnFeeBps : ProposeBurnFee(bps)
            THEN [value |-> pendingFee'.burnFeeBps, at |-> now]
            ELSE IF CancelPendingFee THEN Never(config.burnFeeBps)
            ELSE announced.fee,
          oracle |->
            IF \E o \in Proposals.oracle : ProposeOracle(o)
            THEN [value |-> pendingOracle'.oracle, at |-> now]
            ELSE IF CancelPendingOracle THEN Never(config.oracle)
            ELSE announced.oracle]

SpecAnnounced == InitAnnounced /\ [][NextAnnounced]_<<vars, announced>>

FeeIsAnnounced ==
    config'.burnFeeBps # config.burnFeeBps =>
        /\ config'.burnFeeBps = announced.fee.value
        /\ now >= announced.fee.at + ConfigTimelock

OracleIsAnnounced ==
    config'.oracle # config.oracle =>
        /\ config'.oracle = announced.oracle.value
        /\ now >= announced.oracle.at + ConfigTimelock

\* The fee and the oracle of new rounds change only to the value announced last and
\* CONFIG_TIMELOCK after that announcement: no withdrawn or replaced proposal, and no
\* announcement restarted by a later one, takes effect early.
ChangesAreAnnounced == [][FeeIsAnnounced /\ OracleIsAnnounced]_<<vars, announced>>
=============================================================================
