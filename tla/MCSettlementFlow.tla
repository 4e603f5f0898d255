-------------------------- MODULE MCSettlementFlow --------------------------
(***************************************************************************)
(* Instances of SettlementFlow for TLC: one fixture whose feed holds an    *)
(* in-play record, a final one, perhaps without a seq, and a correction of *)
(* the final score.                                                        *)
(***************************************************************************)
EXTENDS SettlementFlow

FINAL == FINALISED_PERIOD
Score(ts, period, p1, p2) ==
    [fixture_id |-> 1, min_timestamp |-> ts,
     stats |-> {[key |-> STAT_KEY_P1_GOALS, period |-> period, value |-> p1],
                [key |-> STAT_KEY_P2_GOALS, period |-> period, value |-> p2]}]

Entry(finalised, numbered, record) ==
    [finalised |-> finalised, numbered |-> numbered, record |-> record]

HalfTime == Score(1, 2, 0, 0)
FullTime == Score(2, FINAL, 1, 0)
Corrected == Score(3, FINAL, 1, 1)

FeedRecords == {HalfTime, FullTime, Corrected}
FeedEntries ==
    {Entry(FALSE, TRUE, HalfTime), Entry(TRUE, TRUE, FullTime),
     Entry(TRUE, TRUE, Corrected), Entry(TRUE, FALSE, FullTime)}

(* What somebody else may submit: the proof of any of the records. *)
Payload(record) == buildValidationPayload(record, DEFAULT_STAT_KEYS)
OthersPayloads == {Payload(r) : r \in FeedRecords}
OthersStrategies == {ExactEquality(p.stats) : p \in OthersPayloads}
=============================================================================
