---------------------------- MODULE MCPreVerify ----------------------------
(***************************************************************************)
(* Instances of PreVerify for TLC: the records, payloads and strategies of *)
(* MCTxsettleMarket, one more final record dated 0, and requests for the   *)
(* final record, for an in-play one, and for other stats.                  *)
(***************************************************************************)
EXTENDS PreVerify, MCTxsettleMarket

AtEpoch == Final(2, 0, 0, 1)
SdkRecords == ResolutionRecords \cup {AtEpoch}
SdkFinalRecords == {r \in SdkRecords : \E s \in r.stats : s.period = FINALISED_PERIOD}
Ask(f, seq, stat_keys) == [fixture_id |-> f, seq |-> seq, stat_keys |-> stat_keys]
HalfTime == Record(1, 1, Score(InPlay, 0, 0))
FullTime == Record(1, 2, Score(FINALISED_PERIOD, 1, 0) \cup {Corner})

SdkRequests ==
    { Ask(1, {}, <<>>), Ask(2, {}, <<>>),
      Ask(1, {HalfTime}, <<>>), Ask(1, {FullTime}, <<2, 1>>),
      Ask(1, {FullTime}, <<7>>), Ask(1, {}, <<1, 1>>) }

(* The answers to these requests, the payloads of a resolver who makes     *)
(* them up, and anything else resolve is there to refuse.                  *)
Served(q) ==
    {r \in SdkRecords : r.fixture_id = q.fixture_id /\ HasStats(r, StatKeys(q.stat_keys))}
Answers(q) == {buildValidationPayload(r, StatKeys(q.stat_keys)) : r \in Served(q)}
SdkPayloads == ResolutionPayloads \cup UNION {Answers(q) : q \in SdkRequests}
=============================================================================
