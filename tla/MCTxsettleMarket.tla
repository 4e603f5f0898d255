-------------------------- MODULE MCTxsettleMarket --------------------------
(***************************************************************************)
(* Instances of TxsettleMarket for TLC.  A record and a payload are built  *)
(* from a score; the payloads also include those every gate of resolve is  *)
(* there to refuse.                                                        *)
(***************************************************************************)
EXTENDS MarketRefinement

Leaf(key, period, value) == [key |-> key, period |-> period, value |-> value]
InPlay == 2

Score(period, p1, p2) == {Leaf(1, period, p1), Leaf(2, period, p2)}

Record(f, ts, stats) == [fixture_id |-> f, min_timestamp |-> ts, stats |-> stats]
Payload(f, ts, stats) == [fixture_id |-> f, min_timestamp |-> ts, stats |-> stats]

Predicate(kind, i, comparison, threshold) ==
    [kind |-> kind, index |-> i, comparison |-> comparison,
     threshold |-> threshold]
Strategy(geometric, distance, predicates) ==
    [geometric_targets |-> geometric, distance_predicate |-> distance,
     discrete_predicates |-> predicates]

Pin(a, b) ==
    Strategy(FALSE, FALSE, <<Predicate("Single", 0, "EqualTo", a),
                             Predicate("Single", 1, "EqualTo", b)>>)

(* The final record of fixture f with score p1 : p2, and its proof. *)
Final(f, ts, p1, p2) == Record(f, ts, Score(FINALISED_PERIOD, p1, p2))
Proof(f, ts, p1, p2) ==
    Payload(f, ts, <<Leaf(1, FINALISED_PERIOD, p1), Leaf(2, FINALISED_PERIOD, p2)>>)

-----------------------------------------------------------------------------
(* Funds: one fixture that may end in any of the three outcomes. *)
FundsRecords == {Final(1, 1, 1, 0), Final(1, 1, 1, 1), Final(1, 1, 0, 1)}
FundsPayloads == {Proof(1, 1, 1, 0), Proof(1, 1, 1, 1), Proof(1, 1, 0, 1)}
FundsStrategies == {Pin(1, 0), Pin(1, 1), Pin(0, 1)}

-----------------------------------------------------------------------------
(* Resolution: two fixtures.  The first is a draw at half time, then won    *)
(* by participant 1, then corrected to a draw; each record carries another  *)
(* stat beside the goals, and the last lies outside the roots accounts.     *)
Corner == Leaf(7, FINALISED_PERIOD, 1)
ResolutionRecords ==
    { Record(1, 1, Score(InPlay, 0, 0)),
      Record(1, 2, Score(FINALISED_PERIOD, 1, 0) \cup {Corner}),
      Final(1, 3, 1, 1),
      Final(2, 2, 0, 1),
      Final(2, 4, 1, 0) }

Misfits ==
    { \* in-play, at both timestamps
      Payload(1, 1, <<Leaf(1, InPlay, 0), Leaf(2, InPlay, 0)>>),
      \* a period no record of the score carries
      Payload(1, 1, <<Leaf(1, FINALISED_PERIOD, 0), Leaf(2, FINALISED_PERIOD, 0)>>),
      \* a value that was never committed
      Proof(1, 2, 0, 1),
      \* one stat, the same stat twice, a third stat, another stat
      Payload(1, 2, <<Leaf(1, FINALISED_PERIOD, 1)>>),
      Payload(1, 2, <<Leaf(1, FINALISED_PERIOD, 1), Leaf(1, FINALISED_PERIOD, 1)>>),
      Payload(1, 2, <<Leaf(1, FINALISED_PERIOD, 1), Leaf(2, FINALISED_PERIOD, 0), Corner>>),
      Payload(1, 2, <<Leaf(1, FINALISED_PERIOD, 1), Corner>>),
      \* timestamps at and below zero, and one of another day
      Proof(1, 0, 1, 0), Proof(1, -1, 1, 0), Proof(1, 3, 1, 0) }

ResolutionPayloads ==
    Misfits \cup
    { Proof(1, 2, 1, 0), Proof(1, 3, 1, 1), Proof(2, 2, 0, 1), Proof(2, 4, 1, 0),
      \* the stats of a proof may come in either order
      Payload(1, 2, <<Leaf(2, FINALISED_PERIOD, 0), Leaf(1, FINALISED_PERIOD, 1)>>) }

ResolutionStrategies ==
    { Pin(0, 0), Pin(1, 0), Pin(0, 1), Pin(1, 1),
      Strategy(FALSE, FALSE, <<>>),
      Strategy(TRUE, FALSE, Pin(0, 1).discrete_predicates),
      Strategy(FALSE, TRUE, Pin(0, 1).discrete_predicates),
      Strategy(FALSE, FALSE, <<Predicate("Single", 0, "EqualTo", 0)>>),
      Strategy(FALSE, FALSE, <<Predicate("Single", 0, "EqualTo", 0),
                               Predicate("Single", 0, "EqualTo", 0)>>),
      Strategy(FALSE, FALSE, <<Predicate("Single", 0, "GreaterThan", 0),
                               Predicate("Single", 1, "LessThan", 2)>>),
      Strategy(FALSE, FALSE, <<Predicate("Binary", 0, "EqualTo", 0),
                               Predicate("Single", 1, "EqualTo", 1)>>) }
=============================================================================
