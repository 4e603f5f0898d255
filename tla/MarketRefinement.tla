-------------------------- MODULE MarketRefinement --------------------------
(***************************************************************************)
(* The program txsettle_market implements the promise of Parimutuel: the   *)
(* bets are the Position accounts, the pot is the vault, a book is closed  *)
(* once the clock has reached close_ts, and what a position was paid is    *)
(* the payout claim computed from the pools.                               *)
(***************************************************************************)
EXTENDS TxsettleMarket

BetsOfPositions ==
    [f \in Fixtures |-> [o \in Owners |->
        [side |-> position[f][o].outcome, stake |-> position[f][o].amount]]]

HasClosed(f) == market[f].state # "Absent" /\ now >= market[f].close_ts

ClosedByClock == [f \in Fixtures |-> HasClosed(f)]

ResultOfMarket == [f \in Fixtures |-> market[f].outcome]

PaidToPositions ==
    [f \in Fixtures |-> [o \in Owners |->
        IF position[f][o].claimed THEN Payout(market[f], position[f][o]) ELSE -1]]

Promise == INSTANCE Parimutuel WITH
    NumBooks <- NumFixtures,
    NumBettors <- NumOwners,
    MaxStake <- MAX_U64,
    bet <- BetsOfPositions,
    closed <- ClosedByClock,
    result <- ResultOfMarket,
    paid <- PaidToPositions,
    pot <- vault

(* Every run of the program is a run of the promise: stakes are accepted   *)
(* only before the close and keep their side, the result is set once, and  *)
(* each position is paid at most once, the share that the bets themselves  *)
(* entitle it to, out of a pot that covers it.                             *)
KeepsPromise == Promise!Spec
=============================================================================
