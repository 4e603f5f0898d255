---------------------------- MODULE MCMarketPage ----------------------------
(***************************************************************************)
(* Instances of MarketPage for TLC: the market ends in a win of the first  *)
(* participant.                                                            *)
(***************************************************************************)
EXTENDS MarketPage

Leaves == <<[key |-> STAT_KEY_P1_GOALS, period |-> FINALISED_PERIOD, value |-> 1],
            [key |-> STAT_KEY_P2_GOALS, period |-> FINALISED_PERIOD, value |-> 0]>>

HomeWin == {[fixture_id |-> 1, min_timestamp |-> 1, stats |-> {Leaves[1], Leaves[2]}]}
HomeWinPayloads == {[fixture_id |-> 1, min_timestamp |-> 1, stats |-> Leaves]}
HomeWinStrategies ==
    {[geometric_targets |-> FALSE, distance_predicate |-> FALSE,
      discrete_predicates |->
         [i \in 1..2 |-> [kind |-> "Single", index |-> i - 1, comparison |-> "EqualTo",
                          threshold |-> Leaves[i].value]]]}

(* A bound: only the page's wallet bets a second time. *)
RivalStakesOnce == position[Page][2].amount <= 1
=============================================================================
