--------------------------- MODULE MCDevnetScript ---------------------------
(***************************************************************************)
(* Instances of DevnetScript for TLC: a fixture that ended 1:2, of which   *)
(* txoracle has committed an in-play record too.                           *)
(***************************************************************************)
EXTENDS DevnetScript

Leaves(period, p1, p2) ==
    <<[key |-> STAT_KEY_P1_GOALS, period |-> period, value |-> p1],
      [key |-> STAT_KEY_P2_GOALS, period |-> period, value |-> p2]>>
Record(ts, leaves) ==
    [fixture_id |-> 1, min_timestamp |-> ts, stats |-> {leaves[1], leaves[2]}]

FullTime == Record(2, Leaves(FINALISED_PERIOD, 1, 2))
HalfTime == Record(1, Leaves(2, 1, 0))
ScriptRecords == {HalfTime, FullTime}

(* What others submit: the proof of either record. *)
OthersPayloads ==
    {buildValidationPayload(r, DEFAULT_STAT_KEYS) : r \in ScriptRecords}
OthersStrategies == {ExactEquality(p.stats) : p \in OthersPayloads}
=============================================================================
