------------------------------ MODULE SdkProof ------------------------------
(***************************************************************************)
(* What the SDK makes of a score record of TxLINE: the payload and the     *)
(* strategy of validate_stat_v2, and the roots account to check them       *)
(* against (packages/sdk/src/proof.ts).  The app, the devnet script and    *)
(* whoever else uses the SDK build their proofs with these operators.      *)
(***************************************************************************)
EXTENDS TxsettleMarket

DEFAULT_STAT_KEYS == <<STAT_KEY_P1_GOALS, STAT_KEY_P2_GOALS>>

(* No stat keys, or an empty list of them, stands for the default. *)
StatKeys(statKeys) == IF statKeys = <<>> THEN DEFAULT_STAT_KEYS ELSE statKeys

deriveEpochDay(timestampMs) == timestampMs \div MILLIS_PER_DAY

(* The response of the server is malformed when a stat is missing from it. *)
HasStats(record, statKeys) ==
    \A i \in DOMAIN statKeys : \E s \in record.stats : s.key = statKeys[i]

(* The leaf of a record that holds the stat of a key. *)
LeafOf(record, key) == CHOOSE s \in record.stats : s.key = key

(* The payload of the answer of a server that proves what it was asked for *)
(* of a record: a leaf per stat key, in their order.                       *)
buildValidationPayload(record, statKeys) ==
    [fixture_id |-> record.fixture_id,
     min_timestamp |-> record.min_timestamp,
     stats |-> [i \in DOMAIN statKeys |-> LeafOf(record, statKeys[i])]]

(* Mutant: predicates that count the stats from 1. *)
EqualityFromOne(stats) ==
    [geometric_targets |-> FALSE, distance_predicate |-> FALSE,
     discrete_predicates |->
        [i \in DOMAIN stats |-> [kind |-> "Single", index |-> i,
                                 comparison |-> "EqualTo",
                                 threshold |-> stats[i].value]]]

(* The strategy that pins every stat to the value the payload claims. *)
ExactEquality(stats) ==
    [geometric_targets |-> FALSE, distance_predicate |-> FALSE,
     discrete_predicates |->
        [i \in DOMAIN stats |-> [kind |-> "Single", index |-> i - 1,
                                 comparison |-> "EqualTo",
                                 threshold |-> stats[i].value]]]

(* deriveEpochDay throws for a day that is no u16: of a record, or of the  *)
(* payload of an answer.                                                   *)
HasRootsAccount(dated) == deriveEpochDay(dated.min_timestamp) \in 0..MAX_U16

(* What getSettlementProof makes of a payload. *)
ProofOf(payload) ==
    [payload |-> payload,
     strategy |-> ExactEquality(payload.stats),
     rootsPda |-> deriveEpochDay(payload.min_timestamp)]

SettlementProof(record, statKeys) == ProofOf(buildValidationPayload(record, statKeys))

(* validate_stat_v2 simulated: a verdict the chain may give at this time. *)
Verifies(proof) ==
    \E verified \in ValidateStatV2(proof.payload, proof.strategy, proof.rootsPda) :
        verified

(* The gates of resolve that look at nothing but the proof. *)
PassesGates(proof, f) ==
    /\ proof.payload.fixture_id = f
    /\ GoalStatsOnly(proof.payload.stats)
    /\ PinsEveryStat(proof.strategy, proof.payload.stats)
    /\ InRootsRange(proof.payload.min_timestamp)
    /\ IsRootsAccountOf(proof.rootsPda, proof.payload.min_timestamp)
=============================================================================
