----------------------------- MODULE SdkProofs -----------------------------
(***************************************************************************)
(* Proofs about those who settle markets with the SDK: a user of preVerify *)
(* (PreVerify), the cards of the web app (SettlementFlow) and the devnet   *)
(* script (DevnetScript), for every set of records, requests, feed         *)
(* entries, tabs and invocations.                                          *)
(*                                                                         *)
(* The argument starts from what the SDK builds.  A settlement proof pins  *)
(* every stat it claims, so the verifier says TRUE of it exactly when its  *)
(* stats are committed leaves; commitments are never withdrawn, so a TRUE  *)
(* stays true while the card waits for the wallet; and a proof of a final  *)
(* record passes every other gate of resolve by its very shape.            *)
(*                                                                         *)
(* Of the script the invariant says what the chain holds of its two        *)
(* bettors at each of its calls.  Others act on the market meanwhile, but  *)
(* the positions and the wallets of the bettors are the script's alone,    *)
(* and the market can only be settled on the score the script proves.      *)
(***************************************************************************)
EXTENDS PreVerify, SettlementFlow, DevnetScript, PromiseProofs

-----------------------------------------------------------------------------
(* What the SDK builds *)

LEMMA SequenceOf ==
    ASSUME NEW n \in Nat, NEW S, NEW f \in [1..n -> S]
    PROVE  f \in Seq(S) /\ Len(f) = n
<1>1. f \in Seq(S)
    OBVIOUS
<1>2. DOMAIN f = 1..Len(f) /\ Len(f) \in Nat
    BY <1>1
<1>. QED
    BY <1>1, <1>2

LEMMA LeafIsAStat ==
    ASSUME NEW record, NEW key, \E s \in record.stats : s.key = key
    PROVE  LeafOf(record, key) \in record.stats /\ LeafOf(record, key).key = key
    BY DEF LeafOf

(* The predicates of the equality strategy: one per stat, pinning it.      *)
LEMMA EqualityPins ==
    ASSUME NEW stats \in Seq(Stats)
    PROVE  /\ PinsEveryStat(ExactEquality(stats), stats)
           /\ stats # <<>> => ExactEquality(stats).discrete_predicates # <<>>
<1>. DEFINE predicate(i) == [kind |-> "Single", index |-> i - 1,
                             comparison |-> "EqualTo", threshold |-> stats[i].value]
            predicates == [i \in DOMAIN stats |-> predicate(i)]
<1>1. DOMAIN stats = 1..Len(stats) /\ Len(stats) \in Nat
    OBVIOUS
<1>2. predicates \in [1..Len(stats) -> {predicate(i) : i \in 1..Len(stats)}]
    BY <1>1
<1>3. Len(predicates) = Len(stats)
  <2>. HIDE DEF predicates
  <2>. QED
    BY <1>1, <1>2, SequenceOf
<1>4. ExactEquality(stats) = [geometric_targets |-> FALSE, distance_predicate |-> FALSE,
                              discrete_predicates |-> predicates]
    BY DEF ExactEquality
<1>5. \A i \in 1..Len(stats) :
         /\ predicates[i].kind = "Single"
         /\ predicates[i].index = i - 1
         /\ predicates[i].threshold = stats[i].value
         /\ predicates[i].comparison = "EqualTo"
    BY <1>1
<1>6. stats # <<>> => predicates # <<>>
  <2>1. stats # <<>> => Len(stats) # 0
    OBVIOUS
  <2>2. Len(<<>>) = 0
    OBVIOUS
  <2>. QED
    BY <1>3, <2>1, <2>2
<1>. HIDE DEF predicates
<1>. QED
    BY <1>3, <1>4, <1>5, <1>6 DEF PinsEveryStat

(* A record with the stats asked for, on a day that has a roots account.   *)
Provable(r, keys) ==
    r \in Records /\ keys \in Seq(Nat) /\ HasStats(r, keys) /\ HasRootsAccount(r)

LEMMA PayloadOf ==
    ASSUME NEW r, NEW keys, Provable(r, keys)
    PROVE  LET payload == buildValidationPayload(r, keys)
           IN  /\ payload \in PayloadType /\ HasRootsAccount(payload)
               /\ payload.fixture_id = r.fixture_id
               /\ payload.min_timestamp = r.min_timestamp
               /\ Len(payload.stats) = Len(keys)
               /\ \A i \in 1..Len(keys) :
                     payload.stats[i] \in r.stats /\ payload.stats[i].key = keys[i]
<1>. DEFINE stats == [i \in DOMAIN keys |-> LeafOf(r, keys[i])]
<1>1. r \in RecordType /\ keys \in Seq(Nat)
    BY Inputs DEF Provable
<1>2. DOMAIN keys = 1..Len(keys) /\ Len(keys) \in Nat
    BY <1>1
<1>3. \A i \in 1..Len(keys) : stats[i] \in r.stats /\ stats[i].key = keys[i]
    BY <1>2, LeafIsAStat DEF Provable, HasStats
<1>4. r.stats \subseteq Stats /\ r.fixture_id \in Fixtures /\ r.min_timestamp \in Int
    BY <1>1 DEF RecordType
<1>5. stats \in [1..Len(keys) -> Stats]
    BY <1>2, <1>3, <1>4
<1>6. buildValidationPayload(r, keys) =
          [fixture_id |-> r.fixture_id, min_timestamp |-> r.min_timestamp, stats |-> stats]
    BY DEF buildValidationPayload
<1>. HIDE DEF stats
<1>7. stats \in Seq(Stats) /\ Len(stats) = Len(keys)
    BY <1>2, <1>5, SequenceOf
<1>. QED
    BY <1>3, <1>4, <1>6, <1>7 DEF PayloadType, Provable, HasRootsAccount

(* The roots account of a settlement proof is the canonical one of its day, *)
(* and its strategy pins its stats, whatever payload the server answered.   *)
LEMMA ProofIsCanonical ==
    ASSUME NEW payload \in PayloadType, HasRootsAccount(payload)
    PROVE  LET proof == ProofOf(payload)
           IN  /\ proof.payload = payload
               /\ proof.rootsPda = EpochDay(payload.min_timestamp)
               /\ proof.rootsPda \in 0..MAX_U16
               /\ PinsEveryStat(proof.strategy, payload.stats)
               /\ payload.stats # <<>> => proof.strategy.discrete_predicates # <<>>
<1>. DEFINE proof == ProofOf(payload)
<1>1. /\ proof.payload = payload
      /\ proof.strategy = ExactEquality(payload.stats)
      /\ proof.rootsPda = deriveEpochDay(payload.min_timestamp)
    BY DEF ProofOf
<1>2. payload.stats \in Seq(Stats)
    BY DEF PayloadType
<1>. HIDE DEF proof
<1>3. proof.rootsPda = EpochDay(payload.min_timestamp) /\ proof.rootsPda \in 0..MAX_U16
    BY <1>1 DEF deriveEpochDay, EpochDay, HasRootsAccount
<1>4. /\ PinsEveryStat(proof.strategy, payload.stats)
      /\ payload.stats # <<>> => proof.strategy.discrete_predicates # <<>>
    BY <1>1, <1>2, EqualityPins
<1>. QED
    BY <1>1, <1>3, <1>4 DEF proof

(* validate_stat_v2 has one answer for a settlement proof: whether its     *)
(* stats are committed.                                                    *)
LEMMA VerifierDecides ==
    ASSUME NEW payload \in PayloadType, HasRootsAccount(payload)
    PROVE  LET proof == ProofOf(payload)
           IN  /\ ValidateStatV2(proof.payload, proof.strategy, proof.rootsPda)
                     = {Committed(proof.payload, proof.rootsPda)}
               /\ Verifies(proof) <=> Committed(proof.payload, proof.rootsPda)
<1>. DEFINE proof == ProofOf(payload)
<1>1. /\ proof.rootsPda # ForeignAccount
      /\ PinsEveryStat(proof.strategy, proof.payload.stats)
    BY ProofIsCanonical, Inputs DEF ForeignAccount
<1>. HIDE DEF proof
<1>2. ValidateStatV2(proof.payload, proof.strategy, proof.rootsPda)
          = {Committed(proof.payload, proof.rootsPda)}
    BY <1>1 DEF ValidateStatV2
<1>3. Verifies(proof) <=> Committed(proof.payload, proof.rootsPda)
    BY <1>2, Zenon DEF Verifies
<1>. QED
    BY <1>2, <1>3 DEF proof

(* A proof of two goal stats dated after the epoch is past every gate of   *)
(* resolve but the verifier's, on the market of its fixture.               *)
LEMMA GoalsPassGates ==
    ASSUME NEW payload \in PayloadType, HasRootsAccount(payload),
           payload.min_timestamp > 0, GoalStatsOnly(payload.stats)
    PROVE  PassesGates(ProofOf(payload), payload.fixture_id)
<1>. DEFINE proof == ProofOf(payload)
<1>1. /\ proof.payload = payload
      /\ proof.rootsPda = EpochDay(payload.min_timestamp)
      /\ proof.rootsPda \in 0..MAX_U16
      /\ PinsEveryStat(proof.strategy, payload.stats)
    BY ProofIsCanonical
<1>. HIDE DEF proof
<1>2. payload.min_timestamp \in Int
    BY DEF PayloadType
<1>3. InRootsRange(payload.min_timestamp)
    BY <1>1, <1>2, Inputs DEF InRootsRange
<1>4. IsRootsAccountOf(proof.rootsPda, payload.min_timestamp)
    BY <1>1 DEF IsRootsAccountOf
<1>5. PassesGates(proof, payload.fixture_id)
    BY <1>1, <1>3, <1>4 DEF PassesGates
<1>. QED
    BY <1>5 DEF proof

(* The default stats of a record whose goals are those of a finalised one. *)
HasFinalGoals(r) ==
    \A key \in {STAT_KEY_P1_GOALS, STAT_KEY_P2_GOALS} :
        \A s \in r.stats : s.key = key => s.period = FINALISED_PERIOD

LEMMA FinalGoals ==
    ASSUME NEW r, Provable(r, DEFAULT_STAT_KEYS), HasFinalGoals(r)
    PROVE  GoalStatsOnly(buildValidationPayload(r, DEFAULT_STAT_KEYS).stats)
<1>. DEFINE stats == buildValidationPayload(r, DEFAULT_STAT_KEYS).stats
<1>1. /\ Len(DEFAULT_STAT_KEYS) = 2
      /\ DEFAULT_STAT_KEYS[1] = 1 /\ DEFAULT_STAT_KEYS[2] = 2
    BY DEF DEFAULT_STAT_KEYS, STAT_KEY_P1_GOALS, STAT_KEY_P2_GOALS
<1>2. /\ Len(stats) = Len(DEFAULT_STAT_KEYS)
      /\ \A i \in 1..Len(DEFAULT_STAT_KEYS) :
            stats[i] \in r.stats /\ stats[i].key = DEFAULT_STAT_KEYS[i]
    BY PayloadOf
<1>. HIDE DEF stats
<1>3. /\ Len(stats) = 2
      /\ stats[1] \in r.stats /\ stats[1].key = 1
      /\ stats[2] \in r.stats /\ stats[2].key = 2
    BY <1>1, <1>2
<1>4. stats[1].period = FINALISED_PERIOD /\ stats[2].period = FINALISED_PERIOD
    BY <1>3 DEF HasFinalGoals, STAT_KEY_P1_GOALS, STAT_KEY_P2_GOALS
<1>5. \A i \in 1..2 : i = 1 \/ i = 2
    OBVIOUS
<1>6. \A i \in 1..2 : stats[i].period = FINALISED_PERIOD
    BY <1>4, <1>5
<1>7. GoalStatsOnly(stats)
    BY <1>3, <1>6 DEF GoalStatsOnly, STAT_KEY_P1_GOALS, STAT_KEY_P2_GOALS
<1>. QED
    BY <1>7 DEF stats

-----------------------------------------------------------------------------
(* What a TRUE is worth while other things happen on chain *)

LEMMA CommittedGrows ==
    ASSUME [ChainNext]_vars
    PROVE  committed \subseteq committed'
<1>1. CASE AnyCreate
    BY <1>1 DEF AnyCreate, CreateMarket
<1>2. CASE AnyBet
    BY <1>2 DEF AnyBet, Place
<1>3. CASE \E f \in Fixtures : AnySettle(f)
    BY <1>3 DEF AnySettle, Resolve
<1>4. CASE \E o \in Owners, f \in Fixtures : Collect(o, f)
    BY <1>4 DEF Collect, Claim
<1>5. CASE Tick \/ AnyIssue \/ Publish
    BY <1>5 DEF Tick, AnyIssue, MintTo, Publish, PublishScores
<1>6. CASE UNCHANGED vars
    BY <1>6 DEF vars
<1>. QED
    BY <1>1, <1>2, <1>3, <1>4, <1>5, <1>6 DEF ChainNext

LEMMA CommitmentStands ==
    ASSUME NEW payload, NEW roots, Committed(payload, roots),
           committed \subseteq committed'
    PROVE  \E r \in committed' :
              /\ r.fixture_id = payload.fixture_id
              /\ r.min_timestamp = payload.min_timestamp
              /\ roots = EpochDay(r.min_timestamp)
              /\ \A i \in 1..Len(payload.stats) : payload.stats[i] \in r.stats
    BY DEF Committed

-----------------------------------------------------------------------------
(* PreVerify: what the user's script holds, at each of its stages *)

(* A proof the SDK may have built of an answer to a request. *)
ProofFor(q, proof) ==
    \E payload \in PayloadType :
        /\ Len(payload.stats) = Len(StatKeys(q.stat_keys))
        /\ HasRootsAccount(payload)
        /\ proof = ProofOf(payload)

(* The record of a request without a seq is looked for among the final ones. *)
SeqFor(q, seq) == seq \subseteq Records /\ (q.seq = {} => seq \subseteq FinalRecords)

AtRest(x) == \E stage \in {"idle", "threw"} : x = [stage |-> stage]

AtSnapshot(x) ==
    \E q \in Requests :
        q.seq = {} /\ x = [stage |-> "snapshot", request |-> q, seq |-> {}]
AtValidation(x) ==
    \E seq : \E q \in Requests :
        SeqFor(q, seq) /\ x = [stage |-> "validation", request |-> q, seq |-> seq]

AtProof(x) ==
    \E seq, proof : \E q \in Requests, stage \in {"proved", "roots", "view"} :
        /\ SeqFor(q, seq) /\ ProofFor(q, proof)
        /\ x = [stage |-> stage, request |-> q, seq |-> seq, proof |-> proof]

AtVerdict(x) ==
    \E seq, proof : \E q \in Requests, verified \in BOOLEAN :
        /\ SeqFor(q, seq) /\ ProofFor(q, proof)
        /\ x = [stage |-> "verdict", request |-> q, seq |-> seq, proof |-> proof,
                verified |-> verified]

(* The proof has as many stats as were asked for, and a TRUE is of         *)
(* committed ones.                                                         *)
SdkInv ==
    /\ AtRest(sdk) \/ AtSnapshot(sdk) \/ AtValidation(sdk) \/ AtProof(sdk) \/ AtVerdict(sdk)
    /\ Verified => Committed(sdk.proof.payload, sdk.proof.rootsPda)

LEMMA RequestKeys ==
    ASSUME NEW q \in Requests
    PROVE  /\ StatKeys(q.stat_keys) \in Seq(Nat) /\ StatKeys(q.stat_keys) # <<>>
           /\ q.seq \subseteq Records
<1>1. q \in RequestType
    BY RequestAssumption
<1>2. q.stat_keys \in Seq(Nat) /\ q.seq \subseteq Records
    BY <1>1 DEF RequestType
<1>3. DEFAULT_STAT_KEYS \in Seq(Nat) /\ DEFAULT_STAT_KEYS # <<>>
  <2>1. Len(DEFAULT_STAT_KEYS) = 2 /\ Len(<<>>) = 0
    BY DEF DEFAULT_STAT_KEYS
  <2>2. DEFAULT_STAT_KEYS \in Seq(Nat)
    BY DEF DEFAULT_STAT_KEYS, STAT_KEY_P1_GOALS, STAT_KEY_P2_GOALS
  <2>. QED
    BY <2>1, <2>2
<1>. QED
    BY <1>2, <1>3 DEF StatKeys

LEMMA ProofForShape ==
    ASSUME NEW q \in Requests, NEW proof, ProofFor(q, proof)
    PROVE  /\ proof.payload \in PayloadType /\ HasRootsAccount(proof.payload)
           /\ proof = ProofOf(proof.payload)
           /\ proof.strategy.discrete_predicates # <<>>
           /\ ValidateStatV2(proof.payload, proof.strategy, proof.rootsPda)
                = {Committed(proof.payload, proof.rootsPda)}
<1>1. PICK payload \in PayloadType :
         /\ Len(payload.stats) = Len(StatKeys(q.stat_keys))
         /\ HasRootsAccount(payload) /\ proof = ProofOf(payload)
    BY DEF ProofFor
<1>2. proof.payload = payload
    BY <1>1, ProofIsCanonical
<1>3. payload.stats # <<>>
  <2>. DEFINE keys == StatKeys(q.stat_keys)
  <2>1. keys \in Seq(Nat) /\ keys # <<>>
    BY RequestKeys
  <2>. HIDE DEF keys
  <2>2. Len(keys) # 0 /\ Len(<<>>) = 0
    BY <2>1
  <2>. QED
    BY <1>1, <2>2 DEF keys
<1>4. proof.strategy.discrete_predicates # <<>>
    BY <1>1, <1>3, ProofIsCanonical
<1>5. ValidateStatV2(proof.payload, proof.strategy, proof.rootsPda)
        = {Committed(proof.payload, proof.rootsPda)}
    BY <1>1, VerifierDecides
<1>. QED
    BY <1>1, <1>2, <1>4, <1>5

(* The fields of the script's state, at the stages that read them. *)
LEMMA SnapshotShape ==
    ASSUME SdkInv, sdk.stage = "snapshot"
    PROVE  /\ sdk.request \in Requests /\ sdk.request.seq = {}
           /\ sdk = [stage |-> "snapshot", request |-> sdk.request, seq |-> {}]
<1>1. AtSnapshot(sdk)
    BY DEF SdkInv, AtRest, AtValidation, AtProof, AtVerdict
<1>. QED
    BY <1>1 DEF AtSnapshot

LEMMA ValidationShape ==
    ASSUME SdkInv, sdk.stage = "validation"
    PROVE  sdk.request \in Requests /\ SeqFor(sdk.request, sdk.seq)
<1>1. AtValidation(sdk)
    BY DEF SdkInv, AtRest, AtSnapshot, AtProof, AtVerdict
<1>. QED
    BY <1>1 DEF AtValidation

LEMMA HeldShape ==
    ASSUME SdkInv, sdk.stage \in {"proved", "roots", "view", "verdict"}
    PROVE  /\ sdk.request \in Requests
           /\ SeqFor(sdk.request, sdk.seq) /\ ProofFor(sdk.request, sdk.proof)
<1>1. AtProof(sdk) \/ AtVerdict(sdk)
    BY DEF SdkInv, AtRest, AtSnapshot, AtValidation
<1>2. CASE AtProof(sdk)
    BY <1>2 DEF AtProof
<1>3. CASE AtVerdict(sdk)
    BY <1>3 DEF AtVerdict
<1>. QED
    BY <1>1, <1>2, <1>3

(* What the script submits is a transaction like any other. *)
LEMMA SdkStepIsChain == SdkInv /\ [SdkNext]_sdkVars => [ChainNext]_vars
<1>. SUFFICES ASSUME SdkInv, [SdkNext]_sdkVars PROVE [ChainNext]_vars
    OBVIOUS
<1>1. ASSUME NEW q \in Requests, Request(q) PROVE UNCHANGED vars
    BY <1>1 DEF Request
<1>2. CASE SeqArrives \/ ProofArrives \/ Throws
    BY <1>2 DEF SeqArrives, ProofArrives, Throws
<1>3. CASE preVerify \/ RootsArrive \/ ViewArrives \/ NetworkFails
    BY <1>3 DEF preVerify, RootsArrive, ViewArrives, NetworkFails
<1>4. CASE Submit
  <2>1. sdk.stage = "verdict"
    BY <1>4 DEF Submit, Verified
  <2>2. sdk.proof.payload \in PayloadType
    BY <2>1, HeldShape, ProofForShape
  <2>3. \E f \in Fixtures : AnySettle(f)
    BY <1>4, <2>2 DEF Submit, AnySettle
  <2>. QED
    BY <2>3 DEF ChainNext
<1>5. CASE Next /\ UNCHANGED sdk
    BY <1>5, NextIsChain
<1>6. CASE UNCHANGED sdkVars
    BY <1>6 DEF sdkVars, vars
<1>. QED
    BY <1>1, <1>2, <1>3, <1>4, <1>5, <1>6 DEF SdkNext

(* A script that does nothing keeps what it holds: a commitment stands.    *)
LEMMA SdkUntouched ==
    ASSUME SdkInv, UNCHANGED sdk, committed \subseteq committed'
    PROVE  SdkInv'
<1>1. AtRest(sdk) \/ AtSnapshot(sdk) \/ AtValidation(sdk) \/ AtProof(sdk) \/ AtVerdict(sdk)
    BY DEF SdkInv
<1>2. (AtRest(sdk) \/ AtSnapshot(sdk) \/ AtValidation(sdk) \/ AtProof(sdk) \/ AtVerdict(sdk))'
    BY <1>1 DEF AtRest, AtSnapshot, AtValidation, AtProof, AtVerdict
<1>3. Verified' => Committed(sdk.proof.payload, sdk.proof.rootsPda)'
    BY DEF SdkInv, Verified, Committed
<1>. QED
    BY <1>2, <1>3 DEF SdkInv

LEMMA SdkFetches ==
    ASSUME SdkInv, (\E q \in Requests : Request(q)) \/ SeqArrives \/ ProofArrives \/ Throws
    PROVE  SdkInv'
<1>1. ASSUME NEW q \in Requests, Request(q) PROVE SdkInv'
  <2>1. CASE q.seq = {}
    <3>1. sdk' = [stage |-> "snapshot", request |-> q, seq |-> {}]
        BY <1>1, <2>1 DEF Request
    <3>. QED
        BY <2>1, <3>1 DEF SdkInv, AtSnapshot, Verified
  <2>2. CASE q.seq # {}
    <3>1. sdk' = [stage |-> "validation", request |-> q, seq |-> q.seq]
        BY <1>1, <2>2 DEF Request
    <3>2. AtValidation(sdk')
        BY <2>2, <3>1, RequestKeys DEF AtValidation, SeqFor
    <3>. QED
        BY <3>1, <3>2 DEF SdkInv, AtValidation, Verified
  <2>. QED
    BY <2>1, <2>2
<1>2. CASE SeqArrives
  <2>1. PICK r \in FinalRecords : sdk' = [sdk EXCEPT !.stage = "validation", !.seq = {r}]
    BY <1>2 DEF SeqArrives, DiscoveredRecords
  <2>2. sdk.stage = "snapshot"
    BY <1>2 DEF SeqArrives
  <2>3. sdk' = [stage |-> "validation", request |-> sdk.request, seq |-> {r}]
    BY <2>1, <2>2, SnapshotShape
  <2>4. AtValidation(sdk')
    BY <2>2, <2>3, SnapshotShape, RequestAssumption DEF AtValidation, SeqFor
  <2>. QED
    BY <2>3, <2>4 DEF SdkInv, AtValidation, Verified
<1>3. CASE ProofArrives
  <2>. DEFINE q == sdk.request
              seq == sdk.seq
  <2>1. sdk.stage = "validation"
    BY <1>3 DEF ProofArrives
  <2>2. PICK payload \in Payloads :
           /\ Len(payload.stats) = Len(StatKeys(q.stat_keys)) /\ HasRootsAccount(payload)
           /\ sdk' = [stage |-> "proved", request |-> q, seq |-> seq,
                      proof |-> ProofOf(payload)]
    BY <1>3 DEF ProofArrives
  <2>3. q \in Requests /\ SeqFor(q, seq)
    BY <2>1, ValidationShape
  <2>. HIDE DEF q, seq
  <2>4. ProofFor(q, ProofOf(payload))
    BY <2>2, Inputs DEF ProofFor
  <2>5. AtProof(sdk')
    BY <2>2, <2>3, <2>4 DEF AtProof
  <2>. QED
    BY <2>2, <2>5 DEF SdkInv, AtProof, Verified
<1>4. CASE Throws
  <2>1. sdk' = [stage |-> "threw"]
    BY <1>4 DEF Throws
  <2>. QED
    BY <2>1 DEF SdkInv, AtRest, Verified
<1>. QED
    BY <1>1, <1>2, <1>3, <1>4

LEMMA SdkJudges ==
    ASSUME SdkInv, preVerify \/ RootsArrive \/ ViewArrives \/ NetworkFails
    PROVE  SdkInv'
<1>. DEFINE q == sdk.request
            seq == sdk.seq
            proof == sdk.proof
<1>1. sdk.stage \in {"proved", "roots", "view", "verdict"} /\ UNCHANGED vars
    BY DEF preVerify, RootsArrive, ViewArrives, NetworkFails
<1>2. q \in Requests /\ SeqFor(q, seq) /\ ProofFor(q, proof)
    BY <1>1, HeldShape
<1>3. \/ \E stage \in {"roots", "view"} :
            sdk' = [stage |-> stage, request |-> q, seq |-> seq, proof |-> proof]
      \/ \E verified \in BOOLEAN :
            /\ verified => Committed(proof.payload, proof.rootsPda)
            /\ sdk' = [stage |-> "verdict", request |-> q, seq |-> seq, proof |-> proof,
                       verified |-> verified]
  <2>1. CASE preVerify \/ RootsArrive \/ NetworkFails
    BY <2>1 DEF preVerify, RootsArrive, NetworkFails, Dry, Verdict
  <2>2. CASE ViewArrives
    <3>1. PICK verified \in {Committed(proof.payload, proof.rootsPda)} :
            sdk' = [stage |-> "verdict", request |-> q, seq |-> seq, proof |-> proof,
                    verified |-> verified]
        BY <1>2, <2>2, ProofForShape DEF ViewArrives, Verdict
    <3>2. Committed(proof.payload, proof.rootsPda) \in BOOLEAN
        BY DEF Committed
    <3>. QED
        BY <3>1, <3>2
  <2>. QED
    BY <2>1, <2>2
<1>. HIDE DEF q, seq, proof
<1>4. CASE \E stage \in {"roots", "view"} :
              sdk' = [stage |-> stage, request |-> q, seq |-> seq, proof |-> proof]
  <2>1. AtProof(sdk') /\ sdk'.stage # "verdict"
    BY <1>2, <1>4 DEF AtProof
  <2>. QED
    BY <2>1 DEF SdkInv, AtProof, Verified
<1>5. ASSUME NEW verified \in BOOLEAN,
             verified => Committed(proof.payload, proof.rootsPda),
             sdk' = [stage |-> "verdict", request |-> q, seq |-> seq, proof |-> proof,
                     verified |-> verified]
      PROVE  SdkInv'
  <2>1. AtVerdict(sdk')
    BY <1>2, <1>5 DEF AtVerdict
  <2>2. sdk'.proof = proof /\ (sdk'.verified <=> verified)
    BY <1>5
  <2>3. committed' = committed
    BY <1>1 DEF vars
  <2>4. Verified' => Committed(sdk.proof.payload, sdk.proof.rootsPda)'
    BY <1>5, <2>2, <2>3 DEF Verified, Committed
  <2>. QED
    BY <2>1, <2>4 DEF SdkInv, AtVerdict
<1>. QED
    BY <1>3, <1>4, <1>5

LEMMA SdkInvHolds ==
    /\ SdkInit => SdkInv
    /\ SdkInv /\ [SdkNext]_sdkVars => SdkInv'
<1>1. SdkInit => SdkInv
    BY DEF SdkInit, SdkInv, AtRest, Verified
<1>2. ASSUME SdkInv, [SdkNext]_sdkVars PROVE SdkInv'
  <2>1. committed \subseteq committed'
    BY <1>2, SdkStepIsChain, CommittedGrows
  <2>2. CASE UNCHANGED sdk
    BY <1>2, <2>1, <2>2, SdkUntouched
  <2>3. CASE ~UNCHANGED sdk
    <3>1. \/ (\E q \in Requests : Request(q)) \/ SeqArrives \/ ProofArrives \/ Throws
          \/ preVerify \/ RootsArrive \/ ViewArrives \/ NetworkFails
        BY <1>2, <2>3 DEF SdkNext, sdkVars, Submit
    <3>. QED
        BY <1>2, <3>1, SdkFetches, SdkJudges
  <2>. QED
    BY <2>2, <2>3
<1>. QED
    BY <1>1, <1>2

LEMMA InvJudgesCommitted == SdkInv => VerdictIsCommitted
<1>. SUFFICES ASSUME SdkInv, Verified PROVE VerdictIsCommitted
    BY DEF VerdictIsCommitted
<1>1. sdk.request \in Requests /\ ProofFor(sdk.request, sdk.proof)
    BY HeldShape DEF Verified
<1>2. Committed(sdk.proof.payload, sdk.proof.rootsPda)
    BY DEF SdkInv
<1>. QED
    BY <1>1, <1>2, ProofForShape DEF VerdictIsCommitted

(* An answer to the default request is of the two goals of a final record. *)
LEMMA DefaultAnswer ==
    ASSUME SdkInv, Verified, ~ChoseItself(sdk.request), AnswersRequest(sdk.proof.payload),
           HasRootsAccount(sdk.proof.payload)
    PROVE  GoalStatsOnly(sdk.proof.payload.stats)
<1>. DEFINE q == sdk.request
            payload == sdk.proof.payload
<1>1. q \in Requests /\ SeqFor(q, sdk.seq)
    BY HeldShape DEF Verified
<1>2. q.seq = {} /\ StatKeys(q.stat_keys) = DEFAULT_STAT_KEYS
    BY DEF ChoseItself
<1>3. PICK r \in sdk.seq :
         HasStats(r, DEFAULT_STAT_KEYS) /\ payload = buildValidationPayload(r, DEFAULT_STAT_KEYS)
    BY <1>2 DEF AnswersRequest
<1>4. r \in Records /\ HasFinalGoals(r)
    BY <1>1, <1>2, <1>3, RequestAssumption DEF SeqFor, HasFinalGoals
<1>5. HasRootsAccount(r)
    BY <1>3 DEF HasRootsAccount, buildValidationPayload
<1>6. Provable(r, DEFAULT_STAT_KEYS)
    BY <1>1, <1>2, <1>3, <1>4, <1>5, RequestKeys DEF Provable
<1>. QED
    BY <1>3, <1>4, <1>6, FinalGoals

LEMMA InvCoversResolve == SdkInv => VerdictCoversResolve
<1>. SUFFICES ASSUME SdkInv, Verified PROVE VerdictCoversResolve
    BY DEF VerdictCoversResolve
<1>. DEFINE q == sdk.request
            payload == sdk.proof.payload
<1>1. /\ payload \in PayloadType /\ HasRootsAccount(payload)
      /\ sdk.proof = ProofOf(payload) /\ Committed(payload, sdk.proof.rootsPda)
    BY HeldShape, ProofForShape DEF SdkInv, Verified
<1>2. ASSUME ~ChoseItself(q), AnswersRequest(payload) PROVE GoalStatsOnly(payload.stats)
    BY <1>1, <1>2, DefaultAnswer
<1>3. ASSUME GoalStatsOnly(payload.stats), payload.min_timestamp # 0,
             payload.fixture_id = q.fixture_id
      PROVE  PassesGates(sdk.proof, q.fixture_id)
  <2>1. payload.min_timestamp \in Int /\ deriveEpochDay(payload.min_timestamp) \in Nat
    BY <1>1, Inputs DEF PayloadType, HasRootsAccount
  <2>. DEFINE ts == payload.min_timestamp
  <2>2. ts \in Int /\ ts \div MILLIS_PER_DAY \in Nat
    BY <2>1 DEF deriveEpochDay
  <2>. HIDE DEF ts
  <2>3. ts >= 0
    BY <2>2, Inputs, SMTT(30)
  <2>4. payload.min_timestamp > 0
    BY <1>3, <2>2, <2>3 DEF ts
  <2>. QED
    BY <1>1, <1>3, <2>4, GoalsPassGates
<1>4. AnswersRequest(payload) => payload.fixture_id = q.fixture_id
    BY DEF AnswersRequest, buildValidationPayload
<1>. QED
    BY <1>2, <1>3, <1>4 DEF VerdictCoversResolve

THEOREM SdkKeepsInv == SdkSpec => []SdkInv
    BY SdkInvHolds, PTL DEF SdkSpec

(* A TRUE of preVerify is a cryptographic match, and stays one while the   *)
(* user holds it: whatever record and stats were asked for and whatever    *)
(* TxLINE answered, every stat of the payload is a leaf of one committed   *)
(* record of the payload's fixture, under the roots account of the proof.  *)
THEOREM VerdictAlwaysCommitted == SdkSpec => []VerdictIsCommitted
    BY SdkKeepsInv, InvJudgesCommitted, PTL

(* A proof with a TRUE passes every gate of resolve, unless the user chose *)
(* another record or other stats than the SDK does, or TxLINE answered     *)
(* another request than the user's, or the record has the timestamp 0.     *)
THEOREM VerdictAlwaysCoversResolve == SdkSpec => []VerdictCoversResolve
    BY SdkKeepsInv, InvCoversResolve, PTL

(* The market is settled on committed final scores also by those who       *)
(* submit what preVerify has verified.                                     *)
THEOREM SdkSettlesOnCommittedScores == SdkSpec => [](TypeOK /\ OutcomeProved)
<1>1. SdkInit => TypeOK /\ OutcomeProved
    BY InitTypeOK DEF SdkInit, Init, OutcomeProved, AbsentMarket
<1>2. SdkInv /\ TypeOK /\ OutcomeProved /\ [SdkNext]_sdkVars => (TypeOK /\ OutcomeProved)'
    BY SdkStepIsChain, NextTypeOK, NextOutcomeProved
<1>. QED
    BY <1>1, <1>2, SdkKeepsInv, PTL DEF SdkSpec

-----------------------------------------------------------------------------
(* SettlementFlow: what the tabs hold.  A proof in a tab, wherever it came  *)
(* from, is that of a final record of the fixture it is used for.           *)

FinalProof(f, proof) ==
    \E e \in Entries :
        /\ e.finalised
        /\ e.record.fixture_id = f
        /\ Provable(e.record, DEFAULT_STAT_KEYS)
        /\ proof = SettlementProof(e.record, DEFAULT_STAT_KEYS)

(* Committed, in a set C of committed records. *)
CommittedIn(C, proof) ==
    \E r \in C :
        /\ r.fixture_id = proof.payload.fixture_id
        /\ r.min_timestamp = proof.payload.min_timestamp
        /\ proof.rootsPda = EpochDay(r.min_timestamp)
        /\ \A i \in 1..Len(proof.payload.stats) : proof.payload.stats[i] \in r.stats

(* The feed of a fixture holds records of that fixture. *)
FeedAt(f, entries) ==
    /\ entries \in Seq(Entries)
    /\ \A i \in DOMAIN entries : entries[i].record.fixture_id = f

InStage(x, stages) == \E stage \in stages : x = [stage |-> stage]
HasProof(f, x) ==
    \E proof : FinalProof(f, proof) /\ x = [stage |-> x.stage, proof |-> proof]

CacheAt(f, entries, x) ==
    \/ InStage(x, {"none", "snapshot"})
    \/ \E i \in DOMAIN entries :
          entries[i].finalised /\ x = [stage |-> "validation", seq |-> i]
    \/ x.stage = "ready" /\ HasProof(f, x)

(* A card sends what the verifier has said TRUE of. *)
CardAt(f, C, x) ==
    \/ InStage(x, {"idle", "fetch", "failed", "done"})
    \/ /\ x.stage \in {"preverify", "send"}
       /\ HasProof(f, x)
       /\ x.stage = "send" => CommittedIn(C, x.proof)

(* A panel is that of a resolved market, and says verified of committed     *)
(* stats only.                                                              *)
PanelAt(f, C, mk, x) ==
    \/ x = [stage |-> "idle"]
    \/ /\ mk.state = "Resolved"
       /\ \/ InStage(x, {"fetch", "failed"})
          \/ x.stage = "preverify" /\ HasProof(f, x)
          \/ \E proof : \E verified \in BOOLEAN :
                /\ FinalProof(f, proof)
                /\ verified => CommittedIn(C, proof)
                /\ x = [stage |-> "shown", proof |-> proof, verified |-> verified]

Grid(view) == DOMAIN view = Tabs /\ \A t \in Tabs : DOMAIN view[t] = Fixtures

FlowInv ==
    /\ TypeOK
    /\ OutcomeProved
    /\ DOMAIN feed = Fixtures /\ \A f \in Fixtures : FeedAt(f, feed[f])
    /\ Grid(cache) /\ Grid(card) /\ Grid(panel)
    /\ \A t \in Tabs, f \in Fixtures :
          /\ CacheAt(f, feed[f], cache[t][f])
          /\ CardAt(f, committed, card[t][f])
          /\ PanelAt(f, committed, market[f], panel[t][f])

LEMMA GridUpdate ==
    ASSUME NEW view, Grid(view), NEW t \in Tabs, NEW f \in Fixtures, NEW x, NEW next,
           next = [view EXCEPT ![t][f] = x]
    PROVE  /\ Grid(next)
           /\ next[t][f] = x
           /\ \A u \in Tabs, g \in Fixtures :
                 next[u][g] = view[u][g] \/ (u = t /\ g = f /\ next[u][g] = x)
<1>1. /\ DOMAIN next = Tabs
      /\ next[t] = [view[t] EXCEPT ![f] = x]
      /\ \A u \in Tabs \ {t} : next[u] = view[u]
    BY DEF Grid
<1>2. /\ DOMAIN next[t] = Fixtures /\ next[t][f] = x
      /\ \A g \in Fixtures \ {f} : next[t][g] = view[t][g]
    BY <1>1 DEF Grid
<1>. QED
    BY <1>1, <1>2 DEF Grid

LEMMA FinalProofShape ==
    ASSUME NEW f, NEW proof, FinalProof(f, proof)
    PROVE  /\ proof.payload \in PayloadType
           /\ PassesGates(proof, f)
           /\ Verifies(proof) <=> CommittedIn(committed, proof)
<1>1. PICK e \in Entries :
        /\ e.finalised
        /\ e.record.fixture_id = f
        /\ Provable(e.record, DEFAULT_STAT_KEYS)
        /\ proof = SettlementProof(e.record, DEFAULT_STAT_KEYS)
    BY DEF FinalProof
<1>2. HasFinalGoals(e.record) /\ e.record.min_timestamp > 0
    BY <1>1, FeedAssumption DEF HasFinalGoals
<1>. DEFINE payload == buildValidationPayload(e.record, DEFAULT_STAT_KEYS)
<1>3. /\ payload \in PayloadType /\ HasRootsAccount(payload)
      /\ payload.fixture_id = f /\ payload.min_timestamp > 0
      /\ GoalStatsOnly(payload.stats)
    BY <1>1, <1>2, PayloadOf, FinalGoals
<1>4. proof = ProofOf(payload)
    BY <1>1 DEF SettlementProof
<1>. HIDE DEF payload
<1>5. PassesGates(proof, f) /\ proof.payload \in PayloadType
    BY <1>3, <1>4, GoalsPassGates, ProofIsCanonical
<1>6. Committed(proof.payload, proof.rootsPda) <=> CommittedIn(committed, proof)
    BY DEF Committed, CommittedIn
<1>. QED
    BY <1>3, <1>4, <1>5, <1>6, VerifierDecides

(* More records on the feed and on chain take nothing from a tab. *)
LEMMA CacheStands ==
    ASSUME NEW f, NEW x, NEW entries, NEW more, CacheAt(f, entries, x),
           \A i \in DOMAIN entries : i \in DOMAIN more /\ more[i] = entries[i]
    PROVE  CacheAt(f, more, x)
    BY DEF CacheAt

LEMMA CardStands ==
    ASSUME NEW f, NEW x, NEW C, NEW D, CardAt(f, C, x), C \subseteq D
    PROVE  CardAt(f, D, x)
    BY DEF CardAt, CommittedIn

LEMMA PanelStands ==
    ASSUME NEW f, NEW x, NEW C, NEW D, NEW mk, NEW nk, PanelAt(f, C, mk, x), C \subseteq D,
           mk.state = "Resolved" => nk.state = "Resolved"
    PROVE  PanelAt(f, D, nk, x)
<1>1. \A proof : CommittedIn(C, proof) => CommittedIn(D, proof)
    BY DEF CommittedIn
<1>2. CASE x = [stage |-> "idle"]
    BY <1>2 DEF PanelAt
<1>3. CASE x # [stage |-> "idle"]
    BY <1>1, <1>3 DEF PanelAt
<1>. QED
    BY <1>2, <1>3

LEMMA ProofOfView ==
    ASSUME NEW f, NEW x, HasProof(f, x)
    PROVE  FinalProof(f, x.proof) /\ x = [stage |-> x.stage, proof |-> x.proof]
    BY DEF HasProof

LEMMA ProofInView ==
    ASSUME NEW f, NEW proof, FinalProof(f, proof), NEW stage
    PROVE  HasProof(f, [stage |-> stage, proof |-> proof])
    BY DEF HasProof

LEMMA CacheShape ==
    ASSUME NEW f, NEW entries, NEW x, CacheAt(f, entries, x)
    PROVE  /\ x.stage = "validation" => x.seq \in DOMAIN entries /\ entries[x.seq].finalised
           /\ x.stage = "ready" => FinalProof(f, x.proof)
<1>1. CASE x.stage = "ready"
    BY <1>1, ProofOfView DEF CacheAt, InStage
<1>2. CASE x.stage # "ready"
    BY <1>2 DEF CacheAt, InStage
<1>. QED
    BY <1>1, <1>2

LEMMA CardShape ==
    ASSUME NEW f, NEW C, NEW x, CardAt(f, C, x)
    PROVE  /\ x.stage \in {"preverify", "send"} =>
                 FinalProof(f, x.proof) /\ x = [stage |-> x.stage, proof |-> x.proof]
           /\ x.stage = "send" => CommittedIn(C, x.proof)
    BY ProofOfView DEF CardAt, InStage

LEMMA PanelShape ==
    ASSUME NEW f, NEW C, NEW mk, NEW x, PanelAt(f, C, mk, x)
    PROVE  /\ x.stage # "idle" => mk.state = "Resolved"
           /\ x.stage \in {"preverify", "shown"} => FinalProof(f, x.proof)
           /\ x.stage = "shown" /\ x.verified => CommittedIn(C, x.proof)
<1>1. CASE x.stage = "preverify"
    BY <1>1, ProofOfView DEF PanelAt, InStage
<1>2. CASE x.stage # "preverify"
    BY <1>2 DEF PanelAt, InStage
<1>. QED
    BY <1>1, <1>2

LEMMA FirstOf ==
    ASSUME NEW T \in SUBSET Nat, T # {}
    PROVE  \E t \in T : \A u \in T : t <= u
<1>1. PICK t \in T : \A u \in T : ~(<<u, t>> \in OpToRel(<, Nat))
    BY NatLessThanWellFounded, WFMin
<1>2. \A u \in T : ~(u < t)
    BY <1>1 DEF OpToRel
<1>. QED
    BY <1>2

(* discoverFinalisedSeq takes one of the records it considers. *)
LEMMA HighestOf ==
    ASSUME NEW n \in Nat, NEW S \in SUBSET (1..n), S # {}
    PROVE  Highest(S) \in S
<1>. DEFINE T == {n - i : i \in S}
<1>0. \A i \in S : i \in Nat /\ n - i \in Nat
    OBVIOUS
<1>1. T \in SUBSET Nat /\ T # {}
    BY <1>0
<1>2. PICK t \in T : \A u \in T : t <= u
    BY <1>1, FirstOf
<1>3. PICK i \in S : t = n - i
    OBVIOUS
<1>4. ASSUME NEW j \in S PROVE j <= i
    BY <1>0, <1>2, <1>3
<1>. QED
    BY <1>4 DEF Highest

-----------------------------------------------------------------------------
(* A transaction a card sends is one like any other. *)
LEMMA FlowStepIsChain == FlowInv /\ [FlowNext]_flowVars => [ChainNext]_vars
<1>. SUFFICES ASSUME FlowInv, [FlowNext]_flowVars PROVE [ChainNext]_vars
    OBVIOUS
<1>1. ASSUME NEW t \in Tabs, NEW f \in Fixtures,
             \/ SnapshotArrives(t, f) \/ ValidationArrives(t, f) \/ FetchFails(t, f)
             \/ CardRun(t, f) \/ CardPreVerifies(t, f) \/ CardFails(t, f)
             \/ PanelLoad(t, f) \/ PanelVerifies(t, f) \/ Reload(t)
      PROVE  UNCHANGED vars
    BY <1>1 DEF SnapshotArrives, ValidationArrives, FetchFails, CardRun, CardPreVerifies,
                CardFails, PanelLoad, PanelVerifies, Reload
<1>2. ASSUME NEW t \in Tabs, NEW f \in Fixtures, CardSends(t, f) PROVE ChainNext
  <2>. DEFINE proof == card[t][f].proof
  <2>1. card[t][f].stage = "send" /\ Resolve(f, proof.payload, proof.strategy, proof.rootsPda)
    BY <1>2 DEF CardSends
  <2>2. proof.payload \in PayloadType
    BY <2>1, CardShape, FinalProofShape DEF FlowInv
  <2>3. AnySettle(f)
    BY <2>1, <2>2 DEF AnySettle
  <2>. QED
    BY <2>3 DEF ChainNext
<1>3. ASSUME NEW f \in Fixtures, NEW e \in Entries, FeedAppends(f, e) PROVE UNCHANGED vars
    BY <1>3 DEF FeedAppends
<1>4. ASSUME NEW f \in Fixtures, FeedCommits(f) PROVE ChainNext
  <2>1. PICK i \in DOMAIN feed[f] : PublishScores(feed[f][i].record)
    BY <1>4 DEF FeedCommits
  <2>2. feed[f][i] \in Entries
    BY DEF FlowInv, FeedAt
  <2>. QED
    BY <2>1, <2>2, FeedAssumption DEF Publish, ChainNext
<1>5. CASE MarketStep
  <2>1. [Next]_vars
    BY <1>5 DEF MarketStep, Next
  <2>. QED
    BY <2>1, NextIsChain
<1>6. CASE UNCHANGED flowVars
    BY <1>6 DEF flowVars
<1>7. ASSUME NEW t \in Tabs, Reload(t) PROVE UNCHANGED vars
    BY <1>7 DEF Reload
<1>. QED
    BY <1>1, <1>2, <1>3, <1>4, <1>5, <1>6, <1>7 DEF FlowNext

(* The invariant survives a step in which the feeds only grow and every    *)
(* cell that changes gets something lawful.                                *)
LEMMA FlowKeeps ==
    ASSUME FlowInv, [ChainNext]_vars,
           DOMAIN feed' = Fixtures,
           \A f \in Fixtures :
               /\ FeedAt(f, feed'[f])
               /\ \A i \in DOMAIN feed[f] : i \in DOMAIN feed'[f] /\ feed'[f][i] = feed[f][i],
           Grid(cache'), Grid(card'), Grid(panel'),
           \A t \in Tabs, f \in Fixtures :
               /\ cache'[t][f] = cache[t][f] \/ CacheAt(f, feed[f], cache'[t][f])
               /\ card'[t][f] = card[t][f] \/ CardAt(f, committed, card'[t][f])
               /\ panel'[t][f] = panel[t][f] \/ PanelAt(f, committed, market[f], panel'[t][f])
    PROVE  FlowInv'
<1>1. TypeOK' /\ OutcomeProved'
    BY NextTypeOK, NextOutcomeProved DEF FlowInv
<1>2. committed \subseteq committed'
    BY CommittedGrows
<1>3. \A f \in Fixtures : market[f].state = "Resolved" => market'[f].state = "Resolved"
    BY StepKeepsResolved DEF FlowInv, FinalStep
<1>4. ASSUME NEW t \in Tabs, NEW f \in Fixtures
      PROVE  /\ CacheAt(f, feed'[f], cache'[t][f])
             /\ CardAt(f, committed', card'[t][f])
             /\ PanelAt(f, committed', market'[f], panel'[t][f])
  <2>1. /\ CacheAt(f, feed[f], cache'[t][f])
        /\ CardAt(f, committed, card'[t][f])
        /\ PanelAt(f, committed, market[f], panel'[t][f])
    BY DEF FlowInv
  <2>2. CacheAt(f, feed'[f], cache'[t][f])
    BY <2>1, CacheStands
  <2>3. CardAt(f, committed', card'[t][f])
    BY <1>2, <2>1, CardStands
  <2>4. PanelAt(f, committed', market'[f], panel'[t][f])
    BY <1>2, <1>3, <2>1, PanelStands
  <2>. QED
    BY <2>2, <2>3, <2>4
<1>. QED
    BY <1>1, <1>4 DEF FlowInv

(* A view of which one cell changes, or none. *)
OneCell(view, next, t, f, x) ==
    /\ Grid(next)
    /\ \A u \in Tabs, g \in Fixtures :
          next[u][g] = view[u][g] \/ (u = t /\ g = f /\ next[u][g] = x)

LEMMA CellOf ==
    ASSUME NEW view, Grid(view), NEW t \in Tabs, NEW f \in Fixtures, NEW x, NEW next,
           next = [view EXCEPT ![t][f] = x] \/ next = view
    PROVE  OneCell(view, next, t, f, x)
    BY GridUpdate DEF OneCell

LEMMA WhenFetchedCell ==
    ASSUME NEW view, Grid(view), NEW t \in Tabs, NEW f \in Fixtures, NEW x
    PROVE  /\ OneCell(view, WhenFetched(view, t, f, x), t, f, x)
           /\ view[t][f].stage # "fetch" => WhenFetched(view, t, f, x) = view
    BY CellOf DEF WhenFetched

(* Steps of a tab: the tab's three cells for one fixture, at most, change. *)
LEMMA CellsKeep ==
    ASSUME FlowInv, [ChainNext]_vars, UNCHANGED feed,
           NEW t \in Tabs, NEW f \in Fixtures, NEW x, NEW y, NEW z,
           OneCell(cache, cache', t, f, x),
           OneCell(card, card', t, f, y),
           OneCell(panel, panel', t, f, z),
           cache' = cache \/ CacheAt(f, feed[f], x),
           card' = card \/ CardAt(f, committed, y),
           panel' = panel \/ PanelAt(f, committed, market[f], z)
    PROVE  FlowInv'
<1>1. DOMAIN feed' = Fixtures /\ \A g \in Fixtures : FeedAt(g, feed'[g])
    BY DEF FlowInv
<1>2. Grid(cache') /\ Grid(card') /\ Grid(panel')
    BY DEF OneCell
<1>3. ASSUME NEW u \in Tabs, NEW g \in Fixtures
      PROVE  /\ cache'[u][g] = cache[u][g] \/ CacheAt(g, feed[g], cache'[u][g])
             /\ card'[u][g] = card[u][g] \/ CardAt(g, committed, card'[u][g])
             /\ panel'[u][g] = panel[u][g] \/ PanelAt(g, committed, market[g], panel'[u][g])
    BY DEF OneCell
<1>. QED
    BY <1>1, <1>2, <1>3, FlowKeeps

LEMMA SnapshotKeeps ==
    ASSUME FlowInv, NEW t \in Tabs, NEW f \in Fixtures, SnapshotArrives(t, f)
    PROVE  FlowInv'
<1>1. PICK seqs \in Snapshots(f) :
        /\ FinalisedSeqs(f, seqs) # {}
        /\ cache' = [cache EXCEPT ![t][f] =
                       [stage |-> "validation", seq |-> Highest(FinalisedSeqs(f, seqs))]]
    BY DEF SnapshotArrives
<1>. DEFINE S == FinalisedSeqs(f, seqs)
            x == [stage |-> "validation", seq |-> Highest(S)]
<1>2. feed[f] \in Seq(Entries) /\ seqs \in SUBSET DOMAIN feed[f]
    BY <1>1 DEF FlowInv, FeedAt, Snapshots
<1>3. S \in SUBSET (1..Len(feed[f])) /\ S # {} /\ Len(feed[f]) \in Nat
    BY <1>1, <1>2 DEF FinalisedSeqs
<1>4. Highest(S) \in S
    BY <1>3, HighestOf
<1>5. CacheAt(f, feed[f], x)
    BY <1>2, <1>3, <1>4 DEF CacheAt, FinalisedSeqs
<1>6. cache' = [cache EXCEPT ![t][f] = x]
    BY <1>1
<1>. HIDE DEF x
<1>7. OneCell(cache, cache', t, f, x) /\ OneCell(card, card', t, f, x) /\ OneCell(panel, panel', t, f, x)
    BY <1>6, CellOf DEF FlowInv, SnapshotArrives
<1>8. UNCHANGED <<vars, feed, card, panel>>
    BY DEF SnapshotArrives
<1>. QED
    BY <1>5, <1>7, <1>8, CellsKeep

LEMMA ValidationKeeps ==
    ASSUME FlowInv, NEW t \in Tabs, NEW f \in Fixtures, ValidationArrives(t, f)
    PROVE  FlowInv'
<1>. DEFINE record == feed[f][cache[t][f].seq].record
            proof == SettlementProof(record, DEFAULT_STAT_KEYS)
            x == [stage |-> "ready", proof |-> proof]
            y == [stage |-> "preverify", proof |-> proof]
<1>1. /\ cache[t][f].stage = "validation"
      /\ HasStats(record, DEFAULT_STAT_KEYS) /\ HasRootsAccount(record)
      /\ cache' = [cache EXCEPT ![t][f] = x]
      /\ card' = WhenFetched(card, t, f, y)
      /\ panel' = WhenFetched(panel, t, f, y)
      /\ UNCHANGED <<vars, feed>>
    BY DEF ValidationArrives
<1>2. cache[t][f].seq \in DOMAIN feed[f] /\ feed[f][cache[t][f].seq].finalised
    BY <1>1, CacheShape DEF FlowInv
<1>3. feed[f][cache[t][f].seq] \in Entries /\ record.fixture_id = f
    BY <1>2 DEF FlowInv, FeedAt
<1>4. DEFAULT_STAT_KEYS \in Seq(Nat)
    BY DEF DEFAULT_STAT_KEYS, STAT_KEY_P1_GOALS, STAT_KEY_P2_GOALS
<1>5. Provable(record, DEFAULT_STAT_KEYS)
    BY <1>1, <1>3, <1>4, FeedAssumption DEF Provable
<1>6. FinalProof(f, proof)
    BY <1>2, <1>3, <1>5 DEF FinalProof
<1>. HIDE DEF proof
<1>7. HasProof(f, x) /\ HasProof(f, y)
    BY <1>6, ProofInView
<1>8. CacheAt(f, feed[f], x) /\ CardAt(f, committed, y)
    BY <1>7 DEF CacheAt, CardAt
<1>9. ASSUME panel' # panel PROVE PanelAt(f, committed, market[f], y)
  <2>1. panel[t][f].stage = "fetch"
    BY <1>1, <1>9, WhenFetchedCell DEF FlowInv
  <2>2. market[f].state = "Resolved"
    BY <2>1, PanelShape DEF FlowInv
  <2>. QED
    BY <1>7, <2>2 DEF PanelAt
<1>. HIDE DEF x, y
<1>10. OneCell(cache, cache', t, f, x) /\ OneCell(card, card', t, f, y) /\ OneCell(panel, panel', t, f, y)
    BY <1>1, CellOf, WhenFetchedCell DEF FlowInv
<1>. QED
    BY <1>1, <1>8, <1>9, <1>10, CellsKeep

LEMMA FetchFailureKeeps ==
    ASSUME FlowInv, NEW t \in Tabs, NEW f \in Fixtures, FetchFails(t, f)
    PROVE  FlowInv'
<1>. DEFINE y == [stage |-> "failed"]
<1>1. /\ cache' = [cache EXCEPT ![t][f] = NoEntry]
      /\ card' = WhenFetched(card, t, f, y)
      /\ panel' = WhenFetched(panel, t, f, y)
      /\ UNCHANGED <<vars, feed>>
    BY DEF FetchFails
<1>2. CacheAt(f, feed[f], NoEntry) /\ CardAt(f, committed, y)
    BY DEF CacheAt, CardAt, InStage, NoEntry
<1>3. ASSUME panel' # panel PROVE PanelAt(f, committed, market[f], y)
  <2>1. panel[t][f].stage = "fetch"
    BY <1>1, <1>3, WhenFetchedCell DEF FlowInv
  <2>2. market[f].state = "Resolved"
    BY <2>1, PanelShape DEF FlowInv
  <2>. QED
    BY <2>2 DEF PanelAt, InStage
<1>. HIDE DEF y
<1>4. OneCell(cache, cache', t, f, NoEntry) /\ OneCell(card, card', t, f, y) /\ OneCell(panel, panel', t, f, y)
    BY <1>1, CellOf, WhenFetchedCell DEF FlowInv
<1>. QED
    BY <1>1, <1>2, <1>3, <1>4, CellsKeep

(* What a view gets when it asks for the proof. *)
LEMMA AskedCell ==
    ASSUME FlowInv, NEW t \in Tabs, NEW f \in Fixtures
    PROVE  \E z : /\ \/ z = [stage |-> "fetch"]
                     \/ z.stage = "preverify" /\ HasProof(f, z)
                  /\ \A view : Ask(view, t, f) = [view EXCEPT ![t][f] = z]
<1>1. CacheAt(f, feed[f], cache[t][f])
    BY DEF FlowInv
<1>2. CASE cache[t][f].stage = "ready"
  <2>. DEFINE z == [stage |-> "preverify", proof |-> cache[t][f].proof]
  <2>1. HasProof(f, z)
    BY <1>1, <1>2, CacheShape, ProofInView
  <2>2. \A view : Ask(view, t, f) = [view EXCEPT ![t][f] = z]
    BY <1>2 DEF Ask
  <2>. QED
    BY <2>1, <2>2
<1>3. CASE cache[t][f].stage # "ready"
  <2>1. \A view : Ask(view, t, f) = [view EXCEPT ![t][f] = [stage |-> "fetch"]]
    BY <1>3 DEF Ask
  <2>. QED
    BY <2>1
<1>. QED
    BY <1>2, <1>3

LEMMA GetProofCell ==
    ASSUME FlowInv, NEW t \in Tabs, NEW f \in Fixtures, getProof(t, f)
    PROVE  /\ OneCell(cache, cache', t, f, [stage |-> "snapshot"])
           /\ CacheAt(f, feed[f], [stage |-> "snapshot"])
    BY CellOf DEF FlowInv, getProof, CacheAt, InStage

LEMMA CardRunKeeps ==
    ASSUME FlowInv, NEW t \in Tabs, NEW f \in Fixtures, CardRun(t, f)
    PROVE  FlowInv'
<1>1. card' = Ask(card, t, f) /\ getProof(t, f) /\ UNCHANGED <<vars, feed, panel>>
    BY DEF CardRun
<1>2. PICK z : /\ z = [stage |-> "fetch"] \/ (z.stage = "preverify" /\ HasProof(f, z))
               /\ card' = [card EXCEPT ![t][f] = z]
    BY <1>1, AskedCell
<1>3. CardAt(f, committed, z)
    BY <1>2 DEF CardAt, InStage
<1>4. OneCell(card, card', t, f, z) /\ OneCell(panel, panel', t, f, z)
    BY <1>1, <1>2, CellOf DEF FlowInv
<1>. QED
    BY <1>1, <1>3, <1>4, GetProofCell, CellsKeep

LEMMA PanelLoadKeeps ==
    ASSUME FlowInv, NEW t \in Tabs, NEW f \in Fixtures, PanelLoad(t, f)
    PROVE  FlowInv'
<1>1. /\ panel' = Ask(panel, t, f) /\ getProof(t, f) /\ UNCHANGED <<vars, feed, card>>
      /\ market[f].state = "Resolved"
    BY DEF PanelLoad
<1>2. PICK z : /\ z = [stage |-> "fetch"] \/ (z.stage = "preverify" /\ HasProof(f, z))
               /\ panel' = [panel EXCEPT ![t][f] = z]
    BY <1>1, AskedCell
<1>3. PanelAt(f, committed, market[f], z)
    BY <1>1, <1>2 DEF PanelAt, InStage
<1>4. OneCell(card, card', t, f, z) /\ OneCell(panel, panel', t, f, z)
    BY <1>1, <1>2, CellOf DEF FlowInv
<1>. QED
    BY <1>1, <1>3, <1>4, GetProofCell, CellsKeep

(* The card: only what verifies is sent, and what is sent stays committed. *)
LEMMA CardStepKeeps ==
    ASSUME FlowInv, [ChainNext]_vars, NEW t \in Tabs, NEW f \in Fixtures,
           CardPreVerifies(t, f) \/ CardFails(t, f) \/ CardSends(t, f)
    PROVE  FlowInv'
<1>1. UNCHANGED <<feed, cache, panel>>
    BY DEF CardPreVerifies, CardFails, CardSends
<1>2. CardAt(f, committed, card[t][f])
    BY DEF FlowInv
<1>3. \E z : CardAt(f, committed, z) /\ card' = [card EXCEPT ![t][f] = z]
  <2>1. ASSUME NEW stage \in {"idle", "failed", "done"},
               card' = [card EXCEPT ![t][f] = [stage |-> stage]]
        PROVE  \E z : CardAt(f, committed, z) /\ card' = [card EXCEPT ![t][f] = z]
    BY <2>1 DEF CardAt, InStage
  <2>2. ASSUME card[t][f].stage = "preverify", Verifies(card[t][f].proof),
               card' = [card EXCEPT ![t][f].stage = "send"]
        PROVE  \E z : CardAt(f, committed, z) /\ card' = [card EXCEPT ![t][f] = z]
    <3>. DEFINE proof == card[t][f].proof
                z == [stage |-> "send", proof |-> proof]
    <3>1. FinalProof(f, proof) /\ card[t][f] = [stage |-> "preverify", proof |-> proof]
        BY <1>2, <2>2, CardShape
    <3>2. CommittedIn(committed, proof)
        BY <2>2, <3>1, FinalProofShape
    <3>3. [card[t][f] EXCEPT !.stage = "send"] = z
        BY <3>1
    <3>4. card' = [card EXCEPT ![t][f] = [card[t][f] EXCEPT !.stage = "send"]]
        BY <2>2 DEF FlowInv, Grid
    <3>5. HasProof(f, z)
        BY <3>1, ProofInView
    <3>6. CardAt(f, committed, z)
        BY <3>2, <3>5 DEF CardAt
    <3>. QED
        BY <3>3, <3>4, <3>6
  <2>. QED
    BY <2>1, <2>2 DEF CardPreVerifies, CardFails, CardSends
<1>4. PICK z : CardAt(f, committed, z) /\ card' = [card EXCEPT ![t][f] = z]
    BY <1>3
<1>5. OneCell(cache, cache', t, f, z) /\ OneCell(card, card', t, f, z) /\ OneCell(panel, panel', t, f, z)
    BY <1>1, <1>4, CellOf DEF FlowInv
<1>. QED
    BY <1>1, <1>4, <1>5, CellsKeep

LEMMA PanelVerifiesKeeps ==
    ASSUME FlowInv, NEW t \in Tabs, NEW f \in Fixtures, PanelVerifies(t, f)
    PROVE  FlowInv'
<1>. DEFINE proof == panel[t][f].proof
            z(verified) == [stage |-> "shown", proof |-> proof, verified |-> verified]
<1>1. /\ panel[t][f].stage \in {"preverify", "shown"}
      /\ \E verified \in {FALSE, Verifies(proof)} : panel' = [panel EXCEPT ![t][f] = z(verified)]
      /\ UNCHANGED <<vars, feed, cache, card>>
    BY DEF PanelVerifies
<1>2. FinalProof(f, proof) /\ market[f].state = "Resolved"
    BY <1>1, PanelShape DEF FlowInv
<1>3. Verifies(proof) \in BOOLEAN
    BY DEF Verifies
<1>4. PICK verified \in BOOLEAN : /\ verified => Verifies(proof)
                                  /\ panel' = [panel EXCEPT ![t][f] = z(verified)]
    BY <1>1, <1>3
<1>5. verified => CommittedIn(committed, proof)
    BY <1>2, <1>4, FinalProofShape
<1>6. PanelAt(f, committed, market[f], z(verified))
    BY <1>2, <1>5 DEF PanelAt
<1>. HIDE DEF z
<1>7. /\ OneCell(cache, cache', t, f, z(verified))
      /\ OneCell(card, card', t, f, z(verified))
      /\ OneCell(panel, panel', t, f, z(verified))
    BY <1>1, <1>4, CellOf DEF FlowInv
<1>. QED
    BY <1>1, <1>6, <1>7, CellsKeep

Blank(x) == [f \in Fixtures |-> x]

Wiped(view, next, x) ==
    /\ Grid(next)
    /\ \A u \in Tabs, f \in Fixtures : next[u][f] = view[u][f] \/ next[u][f] = x

LEMMA ReloadedView ==
    ASSUME NEW view, Grid(view), NEW t \in Tabs, NEW x, NEW next,
           next = [view EXCEPT ![t] = Blank(x)]
    PROVE  Wiped(view, next, x)
<1>1. /\ DOMAIN next = Tabs
      /\ next[t] = [f \in Fixtures |-> x]
      /\ \A u \in Tabs \ {t} : next[u] = view[u]
    BY DEF Grid, Blank
<1>. QED
    BY <1>1 DEF Grid, Wiped

LEMMA ReloadKeeps ==
    ASSUME FlowInv, NEW t \in Tabs, Reload(t)
    PROVE  FlowInv'
<1>. DEFINE idle == [stage |-> "idle"]
<1>1. /\ cache' = [cache EXCEPT ![t] = Blank(NoEntry)]
      /\ card' = [card EXCEPT ![t] = Blank(idle)]
      /\ panel' = [panel EXCEPT ![t] = Blank(idle)]
      /\ UNCHANGED <<vars, feed>>
    BY DEF Reload, Blank
<1>2. ASSUME NEW f \in Fixtures
      PROVE  /\ CacheAt(f, feed[f], NoEntry) /\ CardAt(f, committed, idle)
             /\ PanelAt(f, committed, market[f], idle)
    BY DEF CacheAt, CardAt, PanelAt, InStage, NoEntry
<1>. HIDE DEF idle
<1>3. /\ Grid(cache) /\ Grid(card) /\ Grid(panel)
      /\ DOMAIN feed = Fixtures /\ \A f \in Fixtures : FeedAt(f, feed[f])
    BY DEF FlowInv
<1>4. Wiped(cache, cache', NoEntry) /\ Wiped(card, card', idle) /\ Wiped(panel, panel', idle)
    BY <1>1, <1>3, ReloadedView
<1>5. ASSUME NEW u \in Tabs, NEW f \in Fixtures
      PROVE  /\ cache'[u][f] = cache[u][f] \/ CacheAt(f, feed[f], cache'[u][f])
             /\ card'[u][f] = card[u][f] \/ CardAt(f, committed, card'[u][f])
             /\ panel'[u][f] = panel[u][f] \/ PanelAt(f, committed, market[f], panel'[u][f])
    BY <1>2, <1>4 DEF Wiped
<1>. QED
    BY <1>1, <1>3, <1>4, <1>5, FlowKeeps DEF Wiped

(* The feed and the chain go on while the tabs stand still. *)
LEMMA FeedKeeps ==
    ASSUME FlowInv, [ChainNext]_vars, UNCHANGED tabs,
           \/ UNCHANGED feed
           \/ \E f \in Fixtures, e \in Entries : FeedAppends(f, e)
    PROVE  FlowInv'
<1>. DEFINE Grown ==
               /\ DOMAIN feed' = Fixtures
               /\ \A f \in Fixtures :
                     /\ FeedAt(f, feed'[f])
                     /\ \A i \in DOMAIN feed[f] :
                           i \in DOMAIN feed'[f] /\ feed'[f][i] = feed[f][i]
<1>1. Grown
  <2>1. DOMAIN feed = Fixtures /\ \A f \in Fixtures : FeedAt(f, feed[f])
    BY DEF FlowInv
  <2>2. CASE UNCHANGED feed
    BY <2>1, <2>2
  <2>3. ASSUME NEW g \in Fixtures, NEW e \in Entries, FeedAppends(g, e)
        PROVE  Grown
    <3>1. e.record.fixture_id = g /\ feed' = [feed EXCEPT ![g] = Append(feed[g], e)]
        BY <2>3 DEF FeedAppends
    <3>2. feed[g] \in Seq(Entries) /\ \A i \in DOMAIN feed[g] : feed[g][i].record.fixture_id = g
        BY <2>1 DEF FeedAt
    <3>3. /\ Append(feed[g], e) \in Seq(Entries)
          /\ \A i \in DOMAIN feed[g] :
                i \in DOMAIN Append(feed[g], e) /\ Append(feed[g], e)[i] = feed[g][i]
          /\ \A i \in DOMAIN Append(feed[g], e) :
                i \in DOMAIN feed[g] \/ Append(feed[g], e)[i] = e
        BY <3>2
    <3>4. FeedAt(g, Append(feed[g], e))
        BY <3>1, <3>2, <3>3 DEF FeedAt
    <3>. QED
        BY <2>1, <3>1, <3>3, <3>4
  <2>. QED
    BY <2>2, <2>3
<1>2. Grid(cache') /\ Grid(card') /\ Grid(panel')
    BY DEF FlowInv, tabs, Grid
<1>3. UNCHANGED <<cache, card, panel>>
    BY DEF tabs
<1>. QED
    BY <1>1, <1>2, <1>3, FlowKeeps

LEMMA FlowInvHolds ==
    /\ FlowInit => FlowInv
    /\ FlowInv /\ [FlowNext]_flowVars => FlowInv'
<1>1. ASSUME FlowInit PROVE FlowInv
  <2>1. TypeOK /\ OutcomeProved
    BY <1>1, InitTypeOK DEF FlowInit, Init, OutcomeProved, AbsentMarket
  <2>2. <<>> \in Seq(Entries) /\ DOMAIN <<>> = {}
    OBVIOUS
  <2>3. DOMAIN feed = Fixtures /\ \A f \in Fixtures : FeedAt(f, feed[f])
    BY <1>1, <2>2 DEF FlowInit, FeedAt
  <2>4. Grid(cache) /\ Grid(card) /\ Grid(panel)
    BY <1>1 DEF FlowInit, Grid
  <2>5. ASSUME NEW t \in Tabs, NEW f \in Fixtures
        PROVE  /\ CacheAt(f, feed[f], cache[t][f])
               /\ CardAt(f, committed, card[t][f])
               /\ PanelAt(f, committed, market[f], panel[t][f])
    BY <1>1 DEF FlowInit, CacheAt, CardAt, PanelAt, InStage, NoEntry
  <2>. QED
    BY <2>1, <2>3, <2>4, <2>5 DEF FlowInv
<1>2. ASSUME FlowInv, [FlowNext]_flowVars PROVE FlowInv'
  <2>1. [ChainNext]_vars
    BY <1>2, FlowStepIsChain
  <2>2. ASSUME NEW t \in Tabs, NEW f \in Fixtures,
               \/ SnapshotArrives(t, f) \/ ValidationArrives(t, f) \/ FetchFails(t, f)
               \/ CardRun(t, f) \/ CardPreVerifies(t, f) \/ CardFails(t, f)
               \/ CardSends(t, f)
               \/ PanelLoad(t, f) \/ PanelVerifies(t, f)
        PROVE  FlowInv'
    BY <1>2, <2>1, <2>2, SnapshotKeeps, ValidationKeeps, FetchFailureKeeps, CardRunKeeps,
       CardStepKeeps, PanelLoadKeeps, PanelVerifiesKeeps
  <2>3. ASSUME NEW t \in Tabs, Reload(t) PROVE FlowInv'
    BY <1>2, <2>3, ReloadKeeps
  <2>4. ASSUME NEW f \in Fixtures, NEW e \in Entries, FeedAppends(f, e) PROVE FlowInv'
    BY <1>2, <2>1, <2>4, FeedKeeps DEF FeedAppends
  <2>5. CASE (\E f \in Fixtures : FeedCommits(f)) \/ MarketStep \/ UNCHANGED flowVars
    <3>1. UNCHANGED <<feed, tabs>>
        BY <2>5 DEF FeedCommits, MarketStep, flowVars, tabs
    <3>. QED
        BY <1>2, <2>1, <3>1, FeedKeeps
  <2>. QED
    BY <1>2, <2>2, <2>3, <2>4, <2>5 DEF FlowNext
<1>. QED
    BY <1>1, <1>2

LEMMA InvSendsAccepted == FlowInv => SentProofsAreAccepted
    BY CardShape, FinalProofShape DEF FlowInv, SentProofsAreAccepted

(* What the panel calls verified, and what the market is settled on, are    *)
(* both outcomes of committed final scores.                                 *)
LEMMA InvPanelAgrees == FlowInv => PanelAgreesWithOnlyFinal
<1>. SUFFICES ASSUME FlowInv, NEW t \in Tabs, NEW f \in Fixtures,
                     ShowsVerified(t, f), Cardinality(FinalOutcomes(f)) = 1
              PROVE  ShownOutcome(panel[t][f].proof) = market[f].outcome
    BY DEF PanelAgreesWithOnlyFinal
<1>. DEFINE proof == panel[t][f].proof
<1>1. FinalProof(f, proof) /\ CommittedIn(committed, proof) /\ market[f].state = "Resolved"
    BY PanelShape DEF FlowInv, ShowsVerified
<1>2. \A p1, p2 : OutcomeOf(p1, p2) \in Outcomes
    BY DEF OutcomeOf, Outcomes, COUNT, P1Win, P2Win, Draw
<1>3. ShownOutcome(proof) \in FinalOutcomes(f)
  <2>. HIDE DEF proof
  <2>1. /\ proof.payload \in PayloadType
        /\ proof.payload.fixture_id = f /\ GoalStatsOnly(proof.payload.stats)
    BY <1>1, FinalProofShape DEF PassesGates
  <2>2. Committed(proof.payload, proof.rootsPda)
    BY <1>1 DEF Committed, CommittedIn
  <2>3. \E r \in committed : \E s1, s2 \in r.stats :
           /\ IsFinalScore(r, f, s1.value, s2.value)
           /\ ShownOutcome(proof) = OutcomeOf(s1.value, s2.value)
    BY <2>1, <2>2, GoalsProveScore DEF ShownOutcome
  <2>. QED
    BY <1>2, <2>3 DEF FinalOutcomes
<1>4. market[f].outcome \in FinalOutcomes(f)
    BY <1>1, <1>2 DEF FlowInv, OutcomeProved, FinalOutcomes
<1>5. IsFiniteSet(FinalOutcomes(f))
  <2>1. IsFiniteSet(Outcomes)
    <3>1. Outcomes = 0..2
        BY DEF Outcomes, COUNT
    <3>2. 0 \in Int /\ 2 \in Int
        OBVIOUS
    <3>3. IsFiniteSet(0..2)
        BY <3>2, FS_Interval
    <3>. QED
        BY <3>1, <3>3
  <2>. QED
    BY <2>1, FS_Subset DEF FinalOutcomes
<1>6. PICK k : FinalOutcomes(f) = {k}
    BY <1>5, FS_Singleton
<1>. QED
    BY <1>3, <1>4, <1>6

THEOREM FlowKeepsInv == FlowSpec => []FlowInv
    BY FlowInvHolds, PTL DEF FlowSpec

(* What the app has verified the program accepts: whatever the feed, the    *)
(* cache and the other tabs do, the proof a card is about to send passes    *)
(* every gate of resolve.                                                   *)
THEOREM SentProofsAlwaysAccepted == FlowSpec => []SentProofsAreAccepted
    BY FlowKeepsInv, InvSendsAccepted, PTL

(* While only one final outcome is committed, a panel that says verified    *)
(* shows a score with the outcome the market was settled on.                *)
THEOREM PanelAlwaysAgrees == FlowSpec => []PanelAgreesWithOnlyFinal
    BY FlowKeepsInv, InvPanelAgrees, PTL

(* The markets the app settles, it settles on committed final scores.       *)
THEOREM FlowSettlesOnCommittedScores == FlowSpec => []OutcomeProved
<1>1. FlowInv => OutcomeProved
    BY DEF FlowInv
<1>. QED
    BY <1>1, FlowKeepsInv, PTL

(* The app gives the program no new ways: with its cards and tabs at work,  *)
(* funds still move only as promised and a resolved market stays as it is   *)
(* (place.rs, claim.rs, resolve.rs).                                        *)
THEOREM FlowKeepsFundsInPlace == FlowSpec => FundsMoveOnlyAsPromised /\ ResolvedIsFinal
<1>1. FlowInv /\ [FlowNext]_flowVars => VaultStep /\ FinalStep
    BY FlowStepIsChain, StepMovesFunds, StepKeepsResolved DEF FlowInv
<1>. QED
    BY <1>1, FlowKeepsInv, PTL DEF FlowSpec, FundsMoveOnlyAsPromised, ResolvedIsFinal

-----------------------------------------------------------------------------
(* DevnetScript: what the chain holds at each call of the script *)

Over == {"stopped", "summary"}
BeforeFunds == {"market", "create", "state", "fund1"}
BeforeStakes == BeforeFunds \cup {"fund2", "place1"}
Betting == {"place2", "tampered", "resolve", "claim"}
AfterClaim == {"loser", "again"}
AfterSettling == {"claim", "loser", "again"}
BothStaked == {"tampered", "resolve", "claim", "loser", "again"}
Calls == BeforeStakes \cup Betting \cup AfterClaim

(* Below, pos and wal are the positions in the market of the script and the *)
(* wallets, mk is the market, mi the mint, and c the call the script awaits. *)

Untouched(pos, wal, o) == IsFresh(pos[o]) /\ \A m \in Mints : wal[m][o] = 0

HasStake(p, k, a, claimed) ==
    p.market = Fixture /\ p.outcome = k /\ p.amount = a /\ p.claimed = claimed

(* The bettors of the invocations to come have done nothing.                *)
Ahead(r, pos, wal) == \A o \in 1..(2 * MaxRuns) : o > 2 * r => Untouched(pos, wal, o)

OnMarket(c, r, mi, mk) ==
    /\ c = "create" => mi = r
    /\ c \in Calls \ {"market", "create"} => mk.state # "Absent" /\ mi = mk.mint
    /\ c \in AfterSettling => mk.state = "Resolved" /\ mk.outcome = P2Win

Winner(c, mi, mk, pos, wal, o) ==
    /\ c \in BeforeFunds => Untouched(pos, wal, o)
    /\ c \in {"fund2", "place1"} => IsFresh(pos[o]) /\ wal[mi][o] = FUNDING
    /\ c \in Betting => /\ HasStake(pos[o], P2Win, STAKE1, FALSE)
                        /\ wal[mi][o] = FUNDING - STAKE1
    /\ c \in AfterClaim => /\ HasStake(pos[o], P2Win, STAKE1, TRUE)
                           /\ wal[mi][o] = FUNDING - STAKE1 + Payout(mk, pos[o])

Loser(c, pos, o) ==
    /\ c \in BeforeStakes \cup {"place2"} => IsFresh(pos[o])
    /\ c \in BothStaked => HasStake(pos[o], P1Win, STAKE2, FALSE)

ScriptAt(c, r, mi, mk, pos, wal) ==
    /\ r \in 0..MaxRuns
    /\ c \in Calls \cup Over
    /\ c \in Calls => r # 0
    /\ Ahead(r, pos, wal)
    /\ OnMarket(c, r, mi, mk)
    /\ Winner(c, mi, mk, pos, wal, 2 * r - 1)
    /\ Loser(c, pos, 2 * r)

Escrowed ==
    TypeOK /\ AccountsAgree /\ PoolsMatchPositions /\ EscrowExact /\ TokensConserved

ScriptInv ==
    /\ Escrowed
    /\ committed = Records
    /\ ScriptAt(pc, run, mint, market[Fixture], position[Fixture], wallet)

LEMMA ScriptInputs ==
    /\ Fixture \in Fixtures /\ FinalRecord \in Records
    /\ MaxRuns \in Nat /\ FUNDING \in Nat /\ CLOSE_DELAY \in Nat \ {0}
    /\ STAKE1 \in Nat \ {0} /\ STAKE2 \in Nat \ {0}
    /\ STAKE1 <= FUNDING /\ STAKE2 <= FUNDING
    /\ 1..(2 * MaxRuns) \subseteq Owners
    /\ 1..MaxRuns \subseteq Mints
    BY ScriptAssumption, CountsAssumption DEF Owners, Mints

(* Others do to the market what leaves it the market of the script, and     *)
(* what they do is none of the bettors' business.                           *)
Goes(mk, next) ==
    /\ mk.state # "Absent" => next.state # "Absent" /\ next.mint = mk.mint
    /\ mk.state = "Resolved" => next = mk

Spared(pos, wal, pos2, wal2, S) ==
    \A o \in S : pos2[o] = pos[o] /\ \A m \in Mints : wal2[m][o] = wal[m][o]

LEMMA FrameAt ==
    ASSUME NEW c, NEW r, NEW mi, NEW mk, NEW pos, NEW wal, NEW mk2, NEW pos2, NEW wal2,
           ScriptAt(c, r, mi, mk, pos, wal), Goes(mk, mk2),
           mk.state # "Absent" => mk.mint \in Mints,
           Spared(pos, wal, pos2, wal2, 1..(2 * MaxRuns))
    PROVE  ScriptAt(c, r, mi, mk2, pos2, wal2)
<1>1. r \in 0..MaxRuns /\ MaxRuns \in Nat
    BY ScriptInputs DEF ScriptAt
<1>2. Ahead(r, pos2, wal2)
    BY DEF ScriptAt, Ahead, Spared, Untouched
<1>3. OnMarket(c, r, mi, mk2)
    BY DEF ScriptAt, OnMarket, Goes, AfterSettling, Calls, AfterClaim, Betting
<1>4. CASE c \in Calls
  <2>1. 2 * r - 1 \in 1..(2 * MaxRuns) /\ 2 * r \in 1..(2 * MaxRuns)
    BY <1>1, <1>4 DEF ScriptAt
  <2>2. /\ pos2[2 * r - 1] = pos[2 * r - 1] /\ pos2[2 * r] = pos[2 * r]
        /\ \A m \in Mints : wal2[m][2 * r - 1] = wal[m][2 * r - 1]
    BY <2>1 DEF Spared
  <2>3. c \in {"fund2", "place1"} \cup Betting \cup AfterClaim => mi \in Mints
    BY <1>4 DEF ScriptAt, OnMarket, Calls, Betting, AfterClaim
  <2>4. c \in AfterClaim => mk2 = mk
    BY DEF ScriptAt, OnMarket, Goes, AfterSettling, AfterClaim
  <2>. DEFINE o == 2 * r - 1
  <2>5. Winner(c, mi, mk2, pos2, wal2, o)
    <3>1. Winner(c, mi, mk, pos, wal, o)
        BY DEF ScriptAt
    <3>2. pos2[o] = pos[o] /\ \A m \in Mints : wal2[m][o] = wal[m][o]
        BY <2>2
    <3>. HIDE DEF o
    <3>. QED
        BY <2>3, <2>4, <3>1, <3>2 DEF Winner, Untouched
  <2>6. Loser(c, pos2, 2 * r)
    BY <2>2 DEF ScriptAt, Loser
  <2>. QED
    BY <1>2, <1>3, <2>5, <2>6 DEF ScriptAt
<1>5. CASE c \notin Calls
    BY <1>2, <1>3, <1>5 DEF ScriptAt, Winner, Loser, Calls, BeforeStakes, BeforeFunds,
                            Betting, AfterClaim, BothStaked
<1>. QED
    BY <1>4, <1>5

(* What a step of the chain does to a market. *)
LEMMA MarketGoes ==
    ASSUME TypeOK, AccountsAgree, [ChainNext]_vars, NEW f \in Fixtures
    PROVE  Goes(market[f], market'[f])
<1>1. market[f].state = "Resolved" => market'[f] = market[f]
    BY StepKeepsResolved DEF FinalStep
<1>2. CASE AnyCreate
  <2>1. PICK g \in Fixtures, m \in Mints, ts \in Int : CreateMarket(g, m, ts)
    BY <1>2 DEF AnyCreate
  <2>2. Created(g, m, ts)
    BY <2>1, CreateEffect
  <2>. QED
    BY <1>1, <2>2 DEF Created, Goes
<1>3. CASE AnyBet
  <2>1. PICK o \in Owners, g \in Fixtures, m \in Mints, k \in 0..COUNT, amount \in Nat :
           Place(o, g, m, k, amount)
    BY <1>3 DEF AnyBet
  <2>2. Placed(g, k, amount)
    BY <2>1, PlaceEffect
  <2>. QED
    BY <1>1, <2>2 DEF Placed, Goes
<1>4. ASSUME NEW g \in Fixtures, AnySettle(g) PROVE Goes(market[f], market'[f])
  <2>1. PICK payload \in PayloadType : \E strategy, roots : Resolve(g, payload, strategy, roots)
    BY <1>4 DEF AnySettle
  <2>2. PICK k : ResolvedTo(g, k)
    BY <2>1, ResolveEffect
  <2>3. market[g] \in MarketType
    BY DEF TypeOK
  <2>. QED
    BY <1>1, <2>2, <2>3 DEF ResolvedTo, Goes, MarketType
<1>5. ASSUME NEW o \in Owners, NEW g \in Fixtures, Collect(o, g)
      PROVE  market' = market
    BY <1>5 DEF Collect, Claim
<1>6. CASE Tick \/ AnyIssue \/ Publish \/ UNCHANGED vars
    BY <1>6 DEF Tick, AnyIssue, MintTo, Publish, PublishScores, vars, Goes
<1>. QED
    BY <1>1, <1>2, <1>3, <1>4, <1>5, <1>6 DEF ChainNext, Goes

LEMMA EscrowStays ==
    ASSUME Escrowed, [ChainNext]_vars
    PROVE  Escrowed'
    BY NextTypeOK, NextAccountsAgree, NextPoolsMatch, NextEscrowExact, NextConserves DEF Escrowed

(* A step that leaves the script alone, and the bettors. *)
LEMMA SparedKeeps ==
    ASSUME ScriptInv, [ChainNext]_vars, committed' = committed, UNCHANGED script,
           Spared(position[Fixture], wallet, position'[Fixture], wallet', 1..(2 * MaxRuns))
    PROVE  ScriptInv'
<1>1. Escrowed'
    BY EscrowStays DEF ScriptInv
<1>2. /\ Goes(market[Fixture], market'[Fixture])
      /\ market[Fixture].state # "Absent" => market[Fixture].mint \in Mints
    BY MarketGoes, ScriptInputs DEF ScriptInv, Escrowed, AccountsAgree, MarketAgrees
<1>3. ScriptAt(pc, run, mint, market'[Fixture], position'[Fixture], wallet')
    BY <1>2, FrameAt DEF ScriptInv
<1>. QED
    BY <1>1, <1>3 DEF ScriptInv, script
(* The wallets: only the owner named by a transaction gains or loses.       *)
LEMMA MintWallet ==
    ASSUME TypeOK, NEW m \in Mints, NEW o \in Owners, NEW amount \in Nat, MintTo(m, o, amount)
    PROVE  /\ wallet'[m][o] = wallet[m][o] + amount
           /\ \A p \in Owners \ {o}, n \in Mints : wallet'[n][p] = wallet[n][p]
           /\ UNCHANGED <<now, market, position, vault, committed>>
    BY DEF MintTo, TypeOK

LEMMA PlaceWallet ==
    ASSUME TypeOK, NEW o \in Owners, NEW f \in Fixtures, NEW m \in Mints, NEW k,
           NEW amount, Place(o, f, m, k, amount)
    PROVE  /\ wallet'[m][o] = wallet[m][o] - amount
           /\ \A p \in Owners \ {o}, n \in Mints : wallet'[n][p] = wallet[n][p]
           /\ committed' = committed
    BY DEF Place, DepositToVault, TypeOK

LEMMA ClaimWallet ==
    ASSUME TypeOK, NEW o \in Owners, NEW f \in Fixtures, NEW m \in Mints, Claim(o, f, m)
    PROVE  /\ wallet'[m][o] = wallet[m][o] + Payout(market[f], position[f][o])
           /\ \A p \in Owners \ {o}, n \in Mints : wallet'[n][p] = wallet[n][p]
<1>. DEFINE payout == Payout(market[f], position[f][o])
<1>1. wallet' = [wallet EXCEPT ![m][o] = @ + payout]
    BY DEF Claim, WithdrawFromVault
<1>. HIDE DEF payout
<1>2. /\ wallet'[m][o] = wallet[m][o] + payout
      /\ \A p \in Owners \ {o}, n \in Mints : wallet'[n][p] = wallet[n][p]
    BY <1>1 DEF TypeOK
<1>. QED
    BY <1>2 DEF payout

LEMMA OthersSpare ==
    ASSUME ScriptInv, OthersStep
    PROVE  ScriptInv'
<1>0. TypeOK /\ AccountsAgree /\ Fixture \in Fixtures /\ UNCHANGED script
    BY ScriptInputs DEF ScriptInv, Escrowed, OthersStep
<1>o. Others \subseteq Owners /\ Others \cap 1..(2 * MaxRuns) = {} /\ OthersMints \subseteq Mints
    BY ScriptInputs, Inputs DEF Others, Owners, OthersMints, Mints
<1>m. market[Fixture].state # "Absent" => market[Fixture].mint \in Mints
    BY <1>0 DEF AccountsAgree, MarketAgrees
<1>. DEFINE Spares == Spared(position[Fixture], wallet, position'[Fixture], wallet', 1..(2 * MaxRuns))
<1>1. ASSUME UNCHANGED <<position, wallet>> PROVE Spares
    BY <1>1 DEF Spared
<1>2. ASSUME NEW m \in OthersMints, CreateMarket(Fixture, m, now + 1)
      PROVE  Spares /\ committed' = committed /\ ChainNext
  <2>1. now + 1 \in Int /\ m \in Mints
    BY <1>0, <1>o DEF TypeOK
  <2>2. AnyCreate
    BY <1>0, <1>2, <2>1 DEF AnyCreate
  <2>. QED
    BY <1>1, <1>2, <2>2 DEF CreateMarket, tokens, ChainNext
<1>3. ASSUME Tick PROVE Spares /\ committed' = committed /\ ChainNext
    BY <1>1, <1>3 DEF Tick, tokens, ChainNext
<1>4. ASSUME Settle(Fixture) PROVE Spares /\ committed' = committed /\ ChainNext
  <2>1. AnySettle(Fixture)
    BY <1>4, Inputs DEF Settle, AnySettle
  <2>. QED
    BY <1>0, <1>1, <1>4, <2>1 DEF Settle, Resolve, tokens, ChainNext
<1>5. ASSUME NEW o \in Others, NEW k \in Outcomes, NEW amount \in Amounts,
             Place(o, Fixture, market[Fixture].mint, k, amount)
      PROVE  Spares /\ committed' = committed /\ ChainNext
  <2>1. o \in Owners /\ o \notin 1..(2 * MaxRuns) /\ 1..(2 * MaxRuns) \subseteq Owners
    BY <1>o, ScriptInputs
  <2>2. market[Fixture].mint \in Mints /\ k \in 0..COUNT /\ amount \in Nat
    BY <1>5, <1>m, Inputs DEF Place, AcceptsStakes, Outcomes, COUNT
  <2>3. AnyBet
    BY <1>0, <1>5, <2>1, <2>2 DEF AnyBet
  <2>4. /\ \A p \in Owners \ {o}, n \in Mints : wallet'[n][p] = wallet[n][p]
        /\ committed' = committed
    BY <1>0, <1>5, <2>1, <2>2, PlaceWallet
  <2>5. \A p \in Owners \ {o} : position'[Fixture][p] = position[Fixture][p]
    <3>1. PlacedBy(o, Fixture, k, amount)
        BY <1>0, <1>5, <2>1, <2>2, PlacePosition
    <3>. QED
        BY <3>1 DEF PlacedBy
  <2>6. Spares
    BY <2>1, <2>4, <2>5 DEF Spared
  <2>. QED
    BY <2>3, <2>4, <2>6 DEF ChainNext
<1>6. ASSUME NEW o \in Others, Collect(o, Fixture)
      PROVE  Spares /\ committed' = committed /\ ChainNext
  <2>1. o \in Owners /\ o \notin 1..(2 * MaxRuns) /\ 1..(2 * MaxRuns) \subseteq Owners
    BY <1>o, ScriptInputs
  <2>2. PICK m \in Mints : Claim(o, Fixture, m)
    BY <1>6 DEF Collect
  <2>3. \A p \in Owners \ {o}, n \in Mints : wallet'[n][p] = wallet[n][p]
    BY <1>0, <2>1, <2>2, ClaimWallet
  <2>4. /\ \A p \in Owners \ {o} : position'[Fixture][p] = position[Fixture][p]
        /\ committed' = committed
    BY <1>0, <2>1, <2>2, ClaimEffect DEF Claimed
  <2>5. Spares
    BY <2>1, <2>3, <2>4 DEF Spared
  <2>. QED
    BY <1>0, <1>6, <2>1, <2>4, <2>5 DEF ChainNext
<1>7. ASSUME NEW o \in Others, NEW amount \in MintAmounts, market[Fixture].state # "Absent",
             MintTo(market[Fixture].mint, o, amount)
      PROVE  Spares /\ committed' = committed /\ ChainNext
  <2>1. o \in Owners /\ o \notin 1..(2 * MaxRuns) /\ 1..(2 * MaxRuns) \subseteq Owners
    BY <1>o, ScriptInputs
  <2>2. market[Fixture].mint \in Mints /\ amount \in Nat
    BY <1>7, <1>m, Inputs
  <2>3. AnyIssue
    BY <1>7, <2>1, <2>2 DEF AnyIssue
  <2>4. /\ \A p \in Owners \ {o}, n \in Mints : wallet'[n][p] = wallet[n][p]
        /\ UNCHANGED <<position, committed>>
    BY <1>0, <1>7, <2>1, <2>2, MintWallet
  <2>5. Spares
    BY <2>1, <2>4 DEF Spared
  <2>. QED
    BY <2>3, <2>4, <2>5 DEF ChainNext
<1>8. Spares /\ committed' = committed /\ ChainNext
    BY <1>2, <1>3, <1>4, <1>5, <1>6, <1>7 DEF OthersStep
<1>. QED
    BY <1>0, <1>8, SparedKeeps
-----------------------------------------------------------------------------
(* The calls of the script *)

LEMMA Bettors ==
    ASSUME ScriptInv, pc \in Calls
    PROVE  /\ run \in 1..MaxRuns /\ run \in Mints
           /\ Bettor1 \in Owners /\ Bettor2 \in Owners /\ Bettor1 # Bettor2
           /\ Bettor1 <= 2 * run /\ Bettor2 <= 2 * run
<1>1. run \in 1..MaxRuns
    BY ScriptInputs DEF ScriptInv, ScriptAt
<1>2. Bettor1 \in 1..(2 * MaxRuns) /\ Bettor2 \in 1..(2 * MaxRuns)
    BY <1>1, ScriptInputs DEF Bettor1, Bettor2
<1>3. Bettor1 # Bettor2 /\ Bettor1 <= 2 * run /\ Bettor2 <= 2 * run
    BY <1>1, ScriptInputs DEF Bettor1, Bettor2
<1>. QED
    BY <1>1, <1>2, <1>3, ScriptInputs

LEMMA ScriptMint ==
    ASSUME ScriptInv, pc \in Calls \ {"market", "create"}
    PROVE  mint \in Mints /\ mint = market[Fixture].mint
    BY ScriptInputs DEF ScriptInv, Escrowed, AccountsAgree, MarketAgrees, ScriptAt, OnMarket

(* What a bettor of the running invocation does leaves those of the next    *)
(* ones alone.                                                              *)
LEMMA AheadStays ==
    ASSUME NEW r \in 0..MaxRuns, NEW o, o <= 2 * r,
           NEW pos, NEW wal, NEW pos2, NEW wal2, Ahead(r, pos, wal),
           Spared(pos, wal, pos2, wal2, Owners \ {o})
    PROVE  Ahead(r, pos2, wal2)
<1>1. ASSUME NEW p \in 1..(2 * MaxRuns), p > 2 * r PROVE p \in Owners \ {o}
    BY <1>1, ScriptInputs
<1>. QED
    BY <1>1 DEF Ahead, Spared, Untouched

LEMMA CallKeeps ==
    ASSUME ScriptInv, [ChainNext]_vars, committed' = committed,
           ScriptAt(pc', run', mint', market'[Fixture], position'[Fixture], wallet')
    PROVE  ScriptInv'
    BY EscrowStays DEF ScriptInv

LEMMA QuietCall ==
    ASSUME ScriptInv, UNCHANGED vars,
           ScriptAt(pc', run', mint', market[Fixture], position[Fixture], wallet)
    PROVE  ScriptInv'
    BY CallKeeps DEF vars

LEMMA InvokeKeeps ==
    ASSUME ScriptInv, Invoke
    PROVE  ScriptInv'
<1>. DEFINE pos == position[Fixture]
<1>1. /\ run \in 0..MaxRuns /\ run < MaxRuns /\ run' = run + 1 /\ pc' = "market"
      /\ Ahead(run, pos, wallet) /\ UNCHANGED vars
    BY DEF Invoke, ScriptInv, ScriptAt
<1>. HIDE DEF pos
<1>2. run' \in 1..MaxRuns /\ MaxRuns \in Nat
    BY <1>1, ScriptInputs
<1>3. Ahead(run', pos, wallet)
    BY <1>1, <1>2 DEF Ahead
<1>4. Untouched(pos, wallet, 2 * run' - 1) /\ Untouched(pos, wallet, 2 * run')
  <2>1. 2 * run' - 1 \in 1..(2 * MaxRuns) /\ 2 * run' - 1 > 2 * run
    BY <1>1, <1>2
  <2>2. 2 * run' \in 1..(2 * MaxRuns) /\ 2 * run' > 2 * run
    BY <1>1, <1>2
  <2>. QED
    BY <1>1, <2>1, <2>2 DEF Ahead
<1>5. OnMarket(pc', run', mint', market[Fixture])
    BY <1>1 DEF OnMarket, AfterSettling
<1>6. Winner(pc', mint', market[Fixture], pos, wallet, 2 * run' - 1)
    BY <1>1, <1>4 DEF Winner, BeforeFunds, Betting, AfterClaim
<1>7. Loser(pc', pos, 2 * run')
    BY <1>1, <1>4 DEF Loser, Untouched, BothStaked
<1>8. pc' \in Calls
    BY <1>1 DEF Calls, BeforeStakes, BeforeFunds
<1>9. ScriptAt(pc', run', mint', market[Fixture], pos, wallet)
    BY <1>2, <1>3, <1>5, <1>6, <1>7, <1>8 DEF ScriptAt
<1>. QED
    BY <1>1, <1>9, QuietCall DEF pos

(* An invocation that is over holds nothing. *)
LEMMA EndKeeps ==
    ASSUME ScriptInv, UNCHANGED vars, run' = run, pc' \in Over
    PROVE  ScriptInv'
<1>. DEFINE pos == position[Fixture]
            mk == market[Fixture]
<1>1. ScriptAt(pc, run, mint, mk, pos, wallet)
    BY DEF ScriptInv
<1>. HIDE DEF pos, mk
<1>2. ScriptAt(pc', run', mint', mk, pos, wallet)
    BY <1>1 DEF ScriptAt, OnMarket, Winner, Loser, Over, Calls, BeforeStakes, BeforeFunds,
                Betting, AfterClaim, BothStaked, AfterSettling
<1>. QED
    BY <1>2, QuietCall DEF pos, mk

LEMMA LooksKeep ==
    ASSUME ScriptInv, FindsMarket \/ CreatesMint \/ ReadsState
    PROVE  ScriptInv'
<1>. DEFINE pos == position[Fixture]
            mk == market[Fixture]
<1>1. ScriptAt(pc, run, mint, mk, pos, wallet) /\ UNCHANGED vars
    BY DEF ScriptInv, FindsMarket, CreatesMint, ReadsState
<1>2. CASE ReadsState /\ pc' = "summary"
    BY <1>1, <1>2, EndKeeps DEF ReadsState, At, Over
<1>3. CASE ~(ReadsState /\ pc' = "summary")
  <2>1. /\ pc \in {"market", "state"} /\ pc' \in {"create", "state", "fund1"} /\ run' = run
        /\ pc' = "create" => mint' = run
        /\ pc' # "create" => mk.state # "Absent" /\ mint' = mk.mint
    BY <1>1, <1>3 DEF FindsMarket, CreatesMint, ReadsState, At, ScriptAt, OnMarket,
                      Calls, BeforeStakes, BeforeFunds
  <2>. HIDE DEF pos, mk
  <2>2. ScriptAt(pc', run', mint', mk, pos, wallet)
    BY <1>1, <2>1 DEF ScriptAt, OnMarket, Winner, Loser, Over, Calls, BeforeStakes,
                      BeforeFunds, Betting, AfterClaim, BothStaked, AfterSettling
  <2>. QED
    BY <1>1, <2>2, QuietCall DEF pos, mk
<1>. QED
    BY <1>2, <1>3

LEMMA CreateKeeps ==
    ASSUME ScriptInv, CreatesMarket
    PROVE  ScriptInv'
<1>. DEFINE pos == position[Fixture]
            mk == market[Fixture]
<1>1. /\ pc = "create" /\ pc' = "state" /\ UNCHANGED <<run, mint>>
      /\ CreateMarket(Fixture, mint, now + CLOSE_DELAY)
    BY DEF CreatesMarket, At
<1>2. ScriptAt(pc, run, mint, mk, pos, wallet) /\ TypeOK /\ Fixture \in Fixtures
    BY ScriptInputs DEF ScriptInv, Escrowed
<1>3. pc \in Calls
    BY <1>1 DEF Calls, BeforeStakes, BeforeFunds
<1>4. mint = run /\ mint \in Mints
    BY <1>1, <1>2, <1>3, Bettors DEF ScriptAt, OnMarket
<1>5. now + CLOSE_DELAY \in Int
    BY <1>2, ScriptInputs DEF TypeOK
<1>6. Created(Fixture, mint, now + CLOSE_DELAY)
    BY <1>1, <1>2, <1>4, <1>5, CreateEffect
<1>7. ChainNext /\ committed' = committed
    BY <1>1, <1>2, <1>4, <1>5, <1>6 DEF ChainNext, AnyCreate, Created
<1>8. /\ market'[Fixture].state = "Open" /\ market'[Fixture].mint = mint
      /\ UNCHANGED <<position, wallet>>
    BY <1>6 DEF Created
<1>. HIDE DEF pos, mk
<1>9. ScriptAt(pc', run', mint', market'[Fixture], pos, wallet)
    BY <1>1, <1>2, <1>8 DEF ScriptAt, OnMarket, Winner, Loser, Over, Calls, BeforeStakes,
                            BeforeFunds, Betting, AfterClaim, BothStaked, AfterSettling
<1>. QED
    BY <1>7, <1>8, <1>9, CallKeeps DEF pos
LEMMA FundsKeep ==
    ASSUME ScriptInv,
           Funds(Bettor1, "fund1", "fund2") \/ Funds(Bettor2, "fund2", "place1")
    PROVE  ScriptInv'
<1>. DEFINE pos == position[Fixture]
            mk == market[Fixture]
<1>1. /\ pc \in {"fund1", "fund2"} /\ pc' = (IF pc = "fund1" THEN "fund2" ELSE "place1")
      /\ UNCHANGED <<run, mint>>
      /\ MintTo(mint, IF pc = "fund1" THEN Bettor1 ELSE Bettor2, FUNDING)
    BY DEF Funds, At
<1>. DEFINE o == IF pc = "fund1" THEN Bettor1 ELSE Bettor2
<1>2. ScriptAt(pc, run, mint, mk, pos, wallet) /\ TypeOK
    BY DEF ScriptInv, Escrowed
<1>3. pc \in Calls \ {"market", "create"}
    BY <1>1 DEF Calls, BeforeStakes, BeforeFunds
<1>4. mint \in Mints /\ o \in Owners /\ o <= 2 * run /\ FUNDING \in Nat
    BY <1>3, ScriptMint, Bettors, ScriptInputs
<1>5. /\ wallet'[mint][o] = wallet[mint][o] + FUNDING
      /\ \A p \in Owners \ {o}, n \in Mints : wallet'[n][p] = wallet[n][p]
      /\ UNCHANGED <<now, market, position, vault, committed>>
    BY <1>1, <1>2, <1>4, MintWallet
<1>6. ChainNext
    BY <1>1, <1>4 DEF ChainNext, AnyIssue
<1>7. Ahead(run, pos, wallet')
    BY <1>2, <1>4, <1>5, AheadStays DEF Spared, ScriptAt
<1>8. Winner(pc', mint, mk, pos, wallet', 2 * run - 1)
  <2>1. CASE pc = "fund1"
    <3>1. IsFresh(pos[Bettor1]) /\ wallet[mint][Bettor1] = 0
        BY <1>2, <1>4, <2>1 DEF ScriptAt, Winner, Untouched, BeforeFunds, Bettor1
    <3>2. wallet'[mint][Bettor1] = FUNDING
        BY <1>4, <1>5, <2>1, <3>1
    <3>. QED
        BY <1>1, <2>1, <3>1, <3>2 DEF Winner, Bettor1, BeforeFunds, Betting, AfterClaim
  <2>2. CASE pc = "fund2"
    <3>1. IsFresh(pos[Bettor1]) /\ wallet[mint][Bettor1] = FUNDING
        BY <1>2, <2>2 DEF ScriptAt, Winner, Bettor1
    <3>2. Bettor1 \in Owners \ {o}
        BY <1>3, <2>2, Bettors
    <3>3. wallet'[mint][Bettor1] = FUNDING
        BY <1>4, <1>5, <3>1, <3>2
    <3>. QED
        BY <1>1, <2>2, <3>1, <3>3 DEF Winner, Bettor1, BeforeFunds, Betting, AfterClaim
  <2>. QED
    BY <1>1, <2>1, <2>2
<1>. HIDE DEF pos, mk
<1>9. ScriptAt(pc', run', mint', mk, pos, wallet')
    BY <1>1, <1>2, <1>7, <1>8 DEF ScriptAt, OnMarket, Loser, Over, Calls, BeforeStakes,
                            BeforeFunds, Betting, AfterClaim, BothStaked, AfterSettling
<1>. QED
    BY <1>5, <1>6, <1>9, CallKeeps DEF pos, mk

LEMMA FreshIsEmpty ==
    ASSUME AccountsAgree, NEW o \in Owners, IsFresh(position[Fixture][o])
    PROVE  position[Fixture][o].amount = 0
    BY ScriptInputs DEF AccountsAgree, PositionAgrees, FreshPosition

LEMMA BetsKeep ==
    ASSUME ScriptInv,
           \/ Bets(Bettor1, P2Win, STAKE1, "place1", "place2")
           \/ Bets(Bettor2, P1Win, STAKE2, "place2", "tampered")
    PROVE  ScriptInv'
<1>. DEFINE pos == position[Fixture]
            mk == market[Fixture]
            o == IF pc = "place1" THEN Bettor1 ELSE Bettor2
            k == IF pc = "place1" THEN P2Win ELSE P1Win
            stake == IF pc = "place1" THEN STAKE1 ELSE STAKE2
<1>1. /\ pc \in {"place1", "place2"} /\ pc' = (IF pc = "place1" THEN "place2" ELSE "tampered")
      /\ UNCHANGED <<run, mint>>
      /\ Place(o, Fixture, mint, k, stake)
    BY DEF Bets, At
<1>2. /\ ScriptAt(pc, run, mint, mk, pos, wallet) /\ TypeOK /\ AccountsAgree
      /\ Fixture \in Fixtures
    BY ScriptInputs DEF ScriptInv, Escrowed
<1>3. pc \in Calls \ {"market", "create"}
    BY <1>1 DEF Calls, BeforeStakes, BeforeFunds, Betting
<1>4. /\ mint \in Mints /\ o \in Owners /\ o <= 2 * run
      /\ k \in 0..COUNT /\ stake \in Nat
    BY <1>3, ScriptMint, Bettors, ScriptInputs DEF P1Win, P2Win, COUNT
<1>5. /\ wallet'[mint][o] = wallet[mint][o] - stake
      /\ \A p \in Owners \ {o}, n \in Mints : wallet'[n][p] = wallet[n][p]
      /\ committed' = committed
    BY <1>1, <1>2, <1>4, PlaceWallet
<1>6. /\ AnyBet
      /\ PlacedBy(o, Fixture, k, stake)
    BY <1>1, <1>2, <1>4, PlacePosition DEF AnyBet
<1>7. [ChainNext]_vars /\ Goes(mk, market'[Fixture])
    BY <1>2, <1>6, MarketGoes DEF ChainNext
<1>8. /\ \A p \in Owners \ {o} : position'[Fixture][p] = pos[p]
      /\ IsFresh(pos[o]) => HasStake(position'[Fixture][o], k, stake, FALSE)
  <2>1. IsFresh(pos[o]) => pos[o].amount = 0
    BY <1>2, <1>4, FreshIsEmpty
  <2>. QED
    BY <1>6, <2>1 DEF PlacedBy, HasStake
<1>. HIDE DEF pos, mk, o, k, stake
<1>9. Ahead(run, position'[Fixture], wallet')
    BY <1>2, <1>4, <1>5, <1>8, AheadStays DEF Spared, ScriptAt
<1>10. CASE pc = "place1"
  <2>1. o = 2 * run - 1 /\ k = P2Win /\ stake = STAKE1
    BY <1>10 DEF o, k, stake, Bettor1
  <2>2. IsFresh(pos[o]) /\ wallet[mint][o] = FUNDING
    BY <1>2, <1>10, <2>1 DEF ScriptAt, Winner
  <2>3. Winner(pc', mint, market'[Fixture], position'[Fixture], wallet', o)
    BY <1>1, <1>5, <1>8, <1>10, <2>1, <2>2 DEF Winner, BeforeFunds, Betting, AfterClaim
  <2>4. Bettor2 \in Owners \ {o} /\ Bettor2 = 2 * run
    BY <1>3, <2>1, Bettors DEF Bettor1, Bettor2
  <2>5. Loser(pc', position'[Fixture], 2 * run)
    BY <1>1, <1>2, <1>8, <1>10, <2>4 DEF ScriptAt, Loser, BeforeStakes, BothStaked
  <2>6. ScriptAt(pc', run', mint', market'[Fixture], position'[Fixture], wallet')
    BY <1>1, <1>2, <1>3, <1>7, <1>9, <1>10, <2>1, <2>3, <2>5
       DEF ScriptAt, OnMarket, Goes, Calls, Betting, AfterSettling
  <2>. QED
    BY <1>5, <1>7, <2>6, CallKeeps
<1>11. CASE pc = "place2"
  <2>1. o = 2 * run /\ k = P1Win /\ stake = STAKE2
    BY <1>11 DEF o, k, stake, Bettor2
  <2>2. IsFresh(pos[o])
    BY <1>2, <1>11, <2>1 DEF ScriptAt, Loser
  <2>3. Loser(pc', position'[Fixture], o)
    BY <1>1, <1>8, <1>11, <2>1, <2>2 DEF Loser, BeforeStakes, BeforeFunds, BothStaked
  <2>4. Bettor1 \in Owners \ {o} /\ Bettor1 = 2 * run - 1
    BY <1>3, <2>1, Bettors DEF Bettor1, Bettor2
  <2>5. Winner(pc', mint, market'[Fixture], position'[Fixture], wallet', 2 * run - 1)
    BY <1>1, <1>2, <1>4, <1>5, <1>8, <1>11, <2>4
       DEF ScriptAt, Winner, BeforeFunds, Betting, AfterClaim
  <2>6. ScriptAt(pc', run', mint', market'[Fixture], position'[Fixture], wallet')
    BY <1>1, <1>2, <1>3, <1>7, <1>9, <1>11, <2>1, <2>3, <2>5
       DEF ScriptAt, OnMarket, Goes, Calls, Betting, AfterSettling
  <2>. QED
    BY <1>5, <1>7, <2>6, CallKeeps
<1>. QED
    BY <1>1, <1>10, <1>11

(* [4/5].  The genuine proof is of the two goal stats of the final record.  *)
LEMMA GenuineStats ==
    /\ genuine.payload = [fixture_id |-> Fixture, min_timestamp |-> FinalRecord.min_timestamp,
                          stats |-> genuine.payload.stats]
    /\ genuine.rootsPda = EpochDay(FinalRecord.min_timestamp)
    /\ Len(genuine.payload.stats) = 2
    /\ genuine.payload.stats[1] = LeafOf(FinalRecord, STAT_KEY_P1_GOALS)
    /\ genuine.payload.stats[2] = LeafOf(FinalRecord, STAT_KEY_P2_GOALS)
    /\ genuine.payload.stats \in Seq(Stats)
    /\ genuine.payload.stats[1].key = STAT_KEY_P1_GOALS
    /\ genuine.payload.stats[2].key = STAT_KEY_P2_GOALS
<1>. DEFINE keys == DEFAULT_STAT_KEYS
            stats == [i \in DOMAIN keys |-> LeafOf(FinalRecord, keys[i])]
<1>1. /\ genuine.payload = [fixture_id |-> FinalRecord.fixture_id,
                            min_timestamp |-> FinalRecord.min_timestamp, stats |-> stats]
      /\ genuine.rootsPda = deriveEpochDay(FinalRecord.min_timestamp)
    BY DEF genuine, SettlementProof, ProofOf, buildValidationPayload
<1>2. /\ DOMAIN keys = 1..2 /\ keys[1] = STAT_KEY_P1_GOALS /\ keys[2] = STAT_KEY_P2_GOALS
    BY DEF DEFAULT_STAT_KEYS
<1>. HIDE DEF keys
<1>3. /\ stats[1] = LeafOf(FinalRecord, STAT_KEY_P1_GOALS)
      /\ stats[2] = LeafOf(FinalRecord, STAT_KEY_P2_GOALS)
    BY <1>2
<1>4. /\ \E s \in FinalRecord.stats : s.key = STAT_KEY_P1_GOALS
      /\ \E s \in FinalRecord.stats : s.key = STAT_KEY_P2_GOALS
    BY <1>2, ScriptAssumption DEF HasStats, keys
<1>5. /\ stats[1] \in FinalRecord.stats /\ stats[1].key = STAT_KEY_P1_GOALS
      /\ stats[2] \in FinalRecord.stats /\ stats[2].key = STAT_KEY_P2_GOALS
    BY <1>3, <1>4, LeafIsAStat
<1>6. FinalRecord.stats \subseteq Stats /\ FinalRecord.fixture_id = Fixture
    BY ScriptAssumption, Inputs DEF RecordType
<1>7. stats \in [1..2 -> Stats]
    BY <1>2, <1>3, <1>5, <1>6
<1>. HIDE DEF stats
<1>8. stats \in Seq(Stats) /\ Len(stats) = 2
    BY <1>7, SequenceOf
<1>. QED
    BY <1>1, <1>3, <1>5, <1>6, <1>8 DEF EpochDay, deriveEpochDay

(* The tampered proof claims the goals the other way round, which nothing   *)
(* committed at the time of the record does: whatever else may be wrong     *)
(* with it, the verifier's answer is FALSE.                                 *)
LEMMA TamperedIsFalse == committed = Records => ~Accepts(tampered)
<1>. SUFFICES ASSUME committed = Records, Accepts(tampered) PROVE FALSE
    OBVIOUS
<1>. DEFINE stats == genuine.payload.stats
            swapped == [i \in 1..2 |-> [stats[i] EXCEPT !.value = stats[3 - i].value]]
<1>1. /\ stats \in Seq(Stats) /\ Len(stats) = 2
      /\ stats[1] = LeafOf(FinalRecord, STAT_KEY_P1_GOALS)
      /\ stats[2] = LeafOf(FinalRecord, STAT_KEY_P2_GOALS)
      /\ stats[1].key = STAT_KEY_P1_GOALS
    BY GenuineStats
<1>2. stats[1] \in Stats
    BY <1>1
<1>3. swapped[1].key = STAT_KEY_P1_GOALS /\ swapped[1].value = stats[2].value
    BY <1>1, <1>2 DEF Stats
<1>4. /\ tampered.payload.fixture_id = Fixture
      /\ tampered.payload.min_timestamp = FinalRecord.min_timestamp
      /\ tampered.payload.stats = swapped
      /\ tampered.rootsPda = EpochDay(FinalRecord.min_timestamp)
  <2>1. genuine = [payload |-> genuine.payload, strategy |-> genuine.strategy,
                   rootsPda |-> genuine.rootsPda]
    BY DEF genuine, SettlementProof, ProofOf
  <2>2. tampered = [genuine EXCEPT !.payload.stats = swapped,
                                   !.strategy = ExactEquality(swapped)]
    BY DEF tampered
  <2>. HIDE DEF swapped
  <2>3. /\ tampered.payload = [genuine.payload EXCEPT !.stats = swapped]
        /\ tampered.rootsPda = genuine.rootsPda
    BY <2>1, <2>2
  <2>. QED
    BY <2>3, GenuineStats
<1>. HIDE DEF stats, swapped
<1>5. Len(swapped) = 2
    BY <1>4 DEF Accepts, PassesGates, GoalStatsOnly
<1>6. swapped[1].period = FINALISED_PERIOD
    BY <1>4 DEF Accepts, PassesGates, GoalStatsOnly
<1>7. Committed(tampered.payload, tampered.rootsPda)
  <2>1. /\ PinsEveryStat(tampered.strategy, tampered.payload.stats)
        /\ tampered.rootsPda # ForeignAccount
    BY <1>4, Inputs DEF Accepts, PassesGates, InRootsRange, ForeignAccount, EpochDay
  <2>2. ValidateStatV2(tampered.payload, tampered.strategy, tampered.rootsPda)
            = {Committed(tampered.payload, tampered.rootsPda)}
    BY <2>1 DEF ValidateStatV2
  <2>. QED
    BY <2>2, Zenon DEF Accepts, Verifies
<1>8. PICK r \in Records : /\ r.fixture_id = Fixture
                           /\ r.min_timestamp = FinalRecord.min_timestamp
                           /\ swapped[1] \in r.stats
    BY <1>4, <1>5, <1>7 DEF Committed
<1>9. stats[2].value = LeafOf(FinalRecord, STAT_KEY_P1_GOALS).value
    BY <1>3, <1>6, <1>8, OneScoreAssumption
<1>10. stats[1] \in Stats /\ stats[2] \in Stats
    BY <1>1
<1>. QED
    BY <1>1, <1>9, <1>10, ScriptAssumption DEF Stats
LEMMA TamperedKeeps ==
    ASSUME ScriptInv, TamperedIsRejected
    PROVE  ScriptInv'
<1>. DEFINE pos == position[Fixture]
            mk == market[Fixture]
<1>1. UNCHANGED vars
  <2>1. ~Accepts(tampered)
    BY TamperedIsFalse DEF ScriptInv
  <2>2. ~Resolve(Fixture, tampered.payload, tampered.strategy, tampered.rootsPda)
    BY <2>1 DEF Resolve, Accepts, PassesGates, Verifies
  <2>. QED
    BY <2>2 DEF TamperedIsRejected
<1>2. /\ pc = "tampered" /\ pc' = "resolve" /\ UNCHANGED <<run, mint>>
      /\ ScriptAt(pc, run, mint, mk, pos, wallet)
    BY DEF TamperedIsRejected, At, ScriptInv
<1>. HIDE DEF pos, mk
<1>3. ScriptAt(pc', run', mint', mk, pos, wallet)
    BY <1>2 DEF ScriptAt, OnMarket, Winner, Loser, Over, Calls, BeforeStakes,
                BeforeFunds, Betting, AfterClaim, BothStaked, AfterSettling
<1>. QED
    BY <1>1, <1>3, QuietCall DEF pos, mk

LEMMA ResolvesKeeps ==
    ASSUME ScriptInv, Resolves
    PROVE  ScriptInv'
<1>. DEFINE pos == position[Fixture]
            mk == market[Fixture]
            stats == genuine.payload.stats
            k == OutcomeOf(Goals(stats, STAT_KEY_P1_GOALS), Goals(stats, STAT_KEY_P2_GOALS))
<1>1. /\ pc = "resolve" /\ pc' = "claim" /\ UNCHANGED <<run, mint>>
      /\ Resolve(Fixture, genuine.payload, genuine.strategy, genuine.rootsPda)
    BY DEF Resolves, At
<1>2. /\ ScriptAt(pc, run, mint, mk, pos, wallet) /\ TypeOK /\ AccountsAgree
      /\ Fixture \in Fixtures
    BY ScriptInputs DEF ScriptInv, Escrowed
<1>3. genuine.payload \in PayloadType
    BY <1>2, GenuineStats, ScriptInputs, Inputs DEF PayloadType, RecordType
<1>4. ResolvedTo(Fixture, k)
    BY <1>1, <1>2, <1>3, ResolveEffect
<1>5. k = P2Win
  <2>1. /\ Goals(stats, STAT_KEY_P1_GOALS) = LeafOf(FinalRecord, STAT_KEY_P1_GOALS).value
        /\ Goals(stats, STAT_KEY_P2_GOALS) = LeafOf(FinalRecord, STAT_KEY_P2_GOALS).value
    BY GenuineStats DEF Goals, STAT_KEY_P1_GOALS, STAT_KEY_P2_GOALS
  <2>2. stats[1] \in Stats /\ stats[2] \in Stats
    BY GenuineStats
  <2>3. /\ LeafOf(FinalRecord, STAT_KEY_P1_GOALS).value \in Int
        /\ LeafOf(FinalRecord, STAT_KEY_P2_GOALS).value \in Int
    BY <2>2, GenuineStats DEF Stats
  <2>. QED
    BY <2>1, <2>3, ScriptAssumption DEF OutcomeOf
<1>6. AnySettle(Fixture)
    BY <1>1, <1>3 DEF AnySettle
<1>7. ChainNext /\ committed' = committed
    BY <1>2, <1>4, <1>6 DEF ChainNext, ResolvedTo
<1>8. /\ market'[Fixture].state = "Resolved" /\ market'[Fixture].outcome = P2Win
      /\ market'[Fixture].mint = mk.mint
      /\ UNCHANGED <<position, wallet>>
  <2>1. mk \in MarketType
    BY <1>2 DEF TypeOK
  <2>. QED
    BY <1>4, <1>5, <2>1 DEF ResolvedTo, MarketType
<1>. HIDE DEF pos, mk, stats, k
<1>9. ScriptAt(pc', run', mint', market'[Fixture], pos, wallet)
    BY <1>1, <1>2, <1>8 DEF ScriptAt, OnMarket, Winner, Loser, Over, Calls, BeforeStakes,
                            BeforeFunds, Betting, AfterClaim, BothStaked, AfterSettling
<1>. QED
    BY <1>7, <1>8, <1>9, CallKeeps DEF pos

(* [5/5] *)

LEMMA ClaimsKeeps ==
    ASSUME ScriptInv, Claims
    PROVE  ScriptInv'
<1>. DEFINE pos == position[Fixture]
            mk == market[Fixture]
            o == Bettor1
            payout == Payout(mk, pos[o])
<1>1. /\ pc = "claim" /\ pc' = "loser" /\ UNCHANGED <<run, mint>>
      /\ Claim(o, Fixture, mint)
    BY DEF Claims, At
<1>2. /\ ScriptAt(pc, run, mint, mk, pos, wallet) /\ TypeOK /\ AccountsAgree
      /\ Fixture \in Fixtures
    BY ScriptInputs DEF ScriptInv, Escrowed
<1>3. pc \in Calls \ {"market", "create"}
    BY <1>1 DEF Calls, Betting
<1>4. mint \in Mints /\ o \in Owners /\ o <= 2 * run
    BY <1>3, ScriptMint, Bettors
<1>5. /\ wallet'[mint][o] = wallet[mint][o] + payout
      /\ \A p \in Owners \ {o}, n \in Mints : wallet'[n][p] = wallet[n][p]
    BY <1>1, <1>2, <1>4, ClaimWallet
<1>6. Claimed(o, Fixture, payout)
    BY <1>1, <1>2, <1>4, ClaimEffect
<1>7. ChainNext /\ UNCHANGED <<market, committed>>
    BY <1>1, <1>2, <1>4, <1>6 DEF ChainNext, Collect, Claimed
<1>8. /\ position'[Fixture][o] = [pos[o] EXCEPT !.claimed = TRUE]
      /\ \A p \in Owners \ {o} : position'[Fixture][p] = pos[p]
    BY <1>6 DEF Claimed
<1>9. pos[o] \in PositionType
    BY <1>2, <1>4 DEF TypeOK
<1>. HIDE DEF payout
<1>10. HasStake(pos[o], P2Win, STAKE1, FALSE) /\ wallet[mint][o] = FUNDING - STAKE1
    BY <1>1, <1>2 DEF ScriptAt, Winner, Betting, Bettor1
<1>11. /\ HasStake(position'[Fixture][o], P2Win, STAKE1, TRUE)
       /\ position'[Fixture][o].amount = pos[o].amount
       /\ position'[Fixture][o].outcome = pos[o].outcome
    BY <1>8, <1>9, <1>10 DEF HasStake, PositionType
<1>12. Payout(mk, position'[Fixture][o]) = payout
    BY <1>11 DEF Payout, payout
<1>13. Ahead(run, position'[Fixture], wallet')
    BY <1>2, <1>4, <1>5, <1>8, AheadStays DEF Spared, ScriptAt
<1>14. Winner(pc', mint, mk, position'[Fixture], wallet', 2 * run - 1)
    BY <1>1, <1>5, <1>10, <1>11, <1>12 DEF Winner, BeforeFunds, Betting, Bettor1
<1>15. Loser(pc', position'[Fixture], 2 * run)
  <2>1. Bettor2 \in Owners \ {o}
    BY <1>3, Bettors
  <2>. QED
    BY <1>1, <1>2, <1>8, <2>1 DEF ScriptAt, Loser, BeforeStakes, BeforeFunds, BothStaked, Bettor2
<1>. HIDE DEF pos, mk, o
<1>16. ScriptAt(pc', run', mint', mk, position'[Fixture], wallet')
    BY <1>1, <1>2, <1>13, <1>14, <1>15
       DEF ScriptAt, OnMarket, Calls, Betting, AfterClaim, AfterSettling
<1>. QED
    BY <1>7, <1>16, CallKeeps DEF mk

(* Once the market is resolved, the winner's stake is in the winning pool.  *)
LEMMA PotIsWon ==
    ASSUME ScriptInv, pc \in AfterSettling
    PROVE  /\ market[Fixture].state = "Resolved" /\ market[Fixture].outcome = P2Win
           /\ WinningPool(market[Fixture]) \in Nat /\ WinningPool(market[Fixture]) >= STAKE1
<1>. DEFINE mk == market[Fixture]
            won == Stakes(Fixture, P2Win)
<1>1. /\ mk.state = "Resolved" /\ mk.outcome = P2Win
      /\ HasStake(position[Fixture][Bettor1], P2Win, STAKE1, position[Fixture][Bettor1].claimed)
    BY DEF ScriptInv, ScriptAt, OnMarket, Winner, HasStake, AfterSettling, AfterClaim, Betting, Bettor1
<1>2. Fixture \in Fixtures /\ P2Win \in Outcomes /\ TypeOK /\ PoolsMatchPositions
    BY ScriptInputs DEF ScriptInv, Escrowed, P2Win, Outcomes, COUNT
<1>3. Bettor1 \in 1..NumOwners
    BY Bettors DEF Calls, AfterSettling, AfterClaim, Betting, Owners
<1>4. \A o \in 1..NumOwners : won[o] \in Nat
    BY <1>2, StakesType
<1>5. won[Bettor1] = STAKE1
    BY <1>1, <1>3 DEF Stakes, IsStaked, HasStake, Owners
<1>6. mk.pools[P2Win] = SumUpTo(won, NumOwners)
    BY <1>2 DEF PoolsMatchPositions, Total
<1>. HIDE DEF won
<1>7. STAKE1 <= SumUpTo(won, NumOwners) /\ SumUpTo(won, NumOwners) \in Nat
    BY <1>3, <1>4, <1>5, SummandBound, SumIsNat, Inputs
<1>. QED
    BY <1>1, <1>6, <1>7, ScriptInputs DEF WinningPool

LEMMA ClaimsAreRejected ==
    ASSUME ScriptInv
    PROVE  /\ pc = "loser" => ~MayClaim(Fixture, Bettor2)
           /\ pc = "again" => ~MayClaim(Fixture, Bettor1)
<1>1. ASSUME pc = "loser" PROVE ~MayClaim(Fixture, Bettor2)
  <2>1. pc \in AfterSettling
    BY <1>1 DEF AfterSettling
  <2>2. position[Fixture][Bettor2].outcome = P1Win
    BY <1>1 DEF ScriptInv, ScriptAt, Loser, HasStake, BothStaked, Bettor2
  <2>3. WinningPool(market[Fixture]) # 0 /\ market[Fixture].outcome = P2Win
    BY <2>1, PotIsWon, ScriptInputs
  <2>. QED
    BY <2>2, <2>3 DEF MayClaim, IsEntitled, P1Win, P2Win
<1>2. ASSUME pc = "again" PROVE ~MayClaim(Fixture, Bettor1)
    BY <1>2 DEF ScriptInv, ScriptAt, Winner, HasStake, AfterClaim, Bettor1, MayClaim
<1>. QED
    BY <1>1, <1>2

LEMMA RejectionsKeep ==
    ASSUME ScriptInv, LoserIsRejected \/ SecondClaimIsRejected
    PROVE  ScriptInv'
<1>. DEFINE pos == position[Fixture]
            mk == market[Fixture]
<1>1. UNCHANGED vars
    BY ClaimsAreRejected DEF LoserIsRejected, SecondClaimIsRejected, At, Claim
<1>2. CASE LoserIsRejected
  <2>1. /\ pc = "loser" /\ pc' = "again" /\ UNCHANGED <<run, mint>>
        /\ ScriptAt(pc, run, mint, mk, pos, wallet)
    BY <1>2 DEF LoserIsRejected, At, ScriptInv
  <2>. HIDE DEF pos, mk
  <2>2. ScriptAt(pc', run', mint', mk, pos, wallet)
    BY <2>1 DEF ScriptAt, OnMarket, Winner, Loser, Over, Calls, BeforeStakes,
                BeforeFunds, Betting, AfterClaim, BothStaked, AfterSettling
  <2>. QED
    BY <1>1, <2>2, QuietCall DEF pos, mk
<1>3. CASE SecondClaimIsRejected
    BY <1>1, <1>3, EndKeeps DEF SecondClaimIsRejected, At, Over
<1>. QED
    BY <1>2, <1>3

LEMMA ScriptInitInv == ScriptInit => ScriptInv
<1>. SUFFICES ASSUME ScriptInit PROVE ScriptInv
    OBVIOUS
<1>1. Uncalled
    BY DEF ScriptInit, Uncalled
<1>2. TypeOK
  <2>1. AbsentMarket \in MarketType
    BY Inputs DEF AbsentMarket, MarketType, NoKey, NoOutcome, Outcomes, COUNT
  <2>2. FreshPosition \in PositionType
    BY Inputs DEF FreshPosition, PositionType, NoKey, Outcomes, COUNT
  <2>3. market \in [Fixtures -> MarketType] /\ position \in [Fixtures -> [Owners -> PositionType]]
    BY <2>1, <2>2 DEF ScriptInit
  <2>4. vault \in [Fixtures -> 0..MAX_U64] /\ now \in Nat /\ committed \subseteq Records
    BY Inputs DEF ScriptInit
  <2>5. wallet \in [Mints -> [Owners -> 0..MAX_U64]]
    BY Inputs DEF ScriptInit
  <2>6. supply \in [Mints -> 0..MAX_U64]
    BY Inputs DEF ScriptInit
  <2>. QED
    BY <2>3, <2>4, <2>5, <2>6 DEF TypeOK
<1>3. TokensConserved
  <2>. SUFFICES ASSUME NEW m \in Mints PROVE ConservedIn(m)
    BY DEF TokensConserved, ConservedIn, HeldIn
  <2>1. \A o \in 1..NumOwners : wallet[m][o] = 0
    BY Inputs DEF ScriptInit, Owners
  <2>2. \A f \in 1..NumFixtures : HeldIn(m)[f] = 0
    BY Inputs DEF ScriptInit, HeldIn, Fixtures
  <2>3. Total(wallet[m]) = 0 /\ SumUpTo(HeldIn(m), NumFixtures) = 0
    BY <2>1, <2>2, SumOfZeroes, Inputs DEF Total
  <2>. QED
    BY <2>3 DEF ScriptInit, ConservedIn
<1>4. Escrowed
    BY <1>1, <1>2, <1>3, UncalledAgree, UncalledPoolsMatch, UncalledEscrowExact DEF Escrowed
<1>. DEFINE pos == position[Fixture]
            mk == market[Fixture]
<1>5. \A o \in Owners : Untouched(pos, wallet, o)
    BY ScriptInputs DEF ScriptInit, Untouched, IsFresh, FreshPosition
<1>6. Ahead(run, pos, wallet)
    BY <1>5, ScriptInputs DEF Ahead
<1>7. run = 0 /\ pc = "stopped" /\ committed = Records
    BY DEF ScriptInit
<1>. HIDE DEF pos, mk
<1>8. ScriptAt(pc, run, mint, mk, pos, wallet)
    BY <1>6, <1>7, ScriptInputs
       DEF ScriptAt, OnMarket, Winner, Loser, Over, Calls, BeforeStakes,
           BeforeFunds, Betting, AfterClaim, BothStaked, AfterSettling
<1>. QED
    BY <1>4, <1>7, <1>8 DEF ScriptInv, pos, mk

LEMMA ScriptNextInv == ScriptInv /\ [ScriptNext]_scriptVars => ScriptInv'
<1>. SUFFICES ASSUME ScriptInv, [ScriptNext]_scriptVars PROVE ScriptInv'
    OBVIOUS
<1>1. CASE Invoke
    BY <1>1, InvokeKeeps
<1>2. CASE ScriptStep
    BY <1>2, LooksKeep, CreateKeeps, FundsKeep, BetsKeep, TamperedKeeps, ResolvesKeeps,
       ClaimsKeeps, RejectionsKeep DEF ScriptStep
<1>3. CASE Refused \/ Crash
  <2>1. Stops
    BY <1>3 DEF Refused, Crash
  <2>. QED
    BY <2>1, EndKeeps DEF Stops, Over
<1>4. CASE OthersStep
    BY <1>4, OthersSpare
<1>5. CASE UNCHANGED scriptVars
    BY <1>5, QuietCall DEF scriptVars, script, ScriptInv, vars
<1>. QED
    BY <1>1, <1>2, <1>3, <1>4, <1>5 DEF ScriptNext

(* At every call, however often the script was killed before and whatever   *)
(* others have done since, its market and its bettors are where the script  *)
(* left them.                                                               *)
THEOREM ScriptKeepsInv == ScriptSpec => []ScriptInv
    BY ScriptInitInv, ScriptNextInv, PTL DEF ScriptSpec

(* Nothing the script does, killed or not, creates or loses a token.        *)
THEOREM ScriptConservesTokens == ScriptSpec => []TokensConserved
<1>1. ScriptInv => TokensConserved
    BY DEF ScriptInv, Escrowed
<1>. QED
    BY <1>1, ScriptKeepsInv, PTL

(* No transaction that the script submits to see it rejected succeeds       *)
(* (e2e-devnet.ts:72-77): the tampered proof claims what is not committed,  *)
(* the loser staked on another side than the winning one, which the winner  *)
(* has backed, and a position that has claimed stays claimed.               *)
THEOREM RejectionsAlwaysHold == ScriptSpec => []RejectionsHold
<1>1. ASSUME ScriptInv PROVE RejectionsHold
  <2>1. ~Accepts(tampered)
    BY <1>1, TamperedIsFalse DEF ScriptInv
  <2>. QED
    BY <1>1, <2>1, ClaimsAreRejected DEF RejectionsHold
<1>. QED
    BY <1>1, ScriptKeepsInv, PTL

LEMMA SumOfOne ==
    ASSUME NEW n \in Nat, NEW a, NEW j \in 1..n, a[j] \in Nat,
           \A i \in 1..n : i # j => a[i] = 0
    PROVE  SumUpTo(a, n) = a[j]
<1>. DEFINE zero == [i \in 1..n |-> 0]
<1>1. \A i \in 1..n : zero[i] = 0
    OBVIOUS
<1>. HIDE DEF zero
<1>2. SumUpTo(zero, n) = 0
    BY <1>1, SumOfZeroes
<1>3. SumUpTo(a, n) = SumUpTo(zero, n) - zero[j] + a[j]
  <2>1. \A i \in 1..n : zero[i] \in Nat /\ a[i] \in Nat
    BY <1>1
  <2>2. \A i \in 1..n : i # j => zero[i] = a[i]
    BY <1>1
  <2>. QED
    BY <2>1, <2>2, SumUpdate, SMTT(30)
<1>. QED
    BY <1>1, <1>2, <1>3

LEMMA ExactQuotient ==
    ASSUME NEW w \in Nat \ {0}, NEW t \in Nat
    PROVE  (w * t) \div w = t
<1>. DEFINE x == w * t
            q == x \div w
<1>1. x \in Nat /\ t * w <= x
    OBVIOUS
<1>2. t <= q
    BY <1>1, QuotientBound
<1>3. q \in Nat /\ q * w <= x
  <2>. HIDE DEF x
  <2>. QED
    BY <1>1
<1>. HIDE DEF q
<1>4. ASSUME t + 1 <= q PROVE FALSE
  <2>1. (t + 1) * w <= q * w
    BY <1>3, <1>4
  <2>2. (t + 1) * w = w * t + w
    OBVIOUS
  <2>. DEFINE y == q * w
              z == (t + 1) * w
  <2>3. y \in Int /\ z \in Int /\ y <= x /\ z <= y /\ z = x + w
    BY <1>3, <2>1, <2>2
  <2>. HIDE DEF x, y, z
  <2>. QED
    BY <1>1, <2>3
<1>5. q = t
    BY <1>2, <1>3, <1>4
<1>. QED
    BY <1>5 DEF q

(* When nobody but the two bettors has staked, the winner is paid the whole *)
(* pot, and nothing stays behind.                                           *)
LEMMA PotIsEmptied ==
    ASSUME ScriptInv, pc \in AfterClaim,
           \A o \in Owners : IsStaked(Fixture, o) => o \in {Bettor1, Bettor2}
    PROVE  /\ Payout(market[Fixture], position[Fixture][Bettor1]) = STAKE1 + STAKE2
           /\ vault[Fixture] = 0
<1>. DEFINE mk == market[Fixture]
            pos == position[Fixture]
            n == NumOwners
<1>0. /\ TypeOK /\ AccountsAgree /\ PoolsMatchPositions /\ EscrowExact
      /\ Fixture \in Fixtures /\ NumOwners \in Nat
      /\ STAKE1 \in Nat \ {0} /\ STAKE2 \in Nat
    BY ScriptInputs, Inputs DEF ScriptInv, Escrowed
<1>1. Bettor1 \in 1..NumOwners /\ Bettor2 \in 1..NumOwners /\ Bettor1 # Bettor2
    BY Bettors DEF Calls, AfterClaim, Owners
<1>2. /\ HasStake(pos[Bettor1], P2Win, STAKE1, TRUE)
      /\ HasStake(pos[Bettor2], P1Win, STAKE2, FALSE)
    BY DEF ScriptInv, ScriptAt, Winner, Loser, AfterClaim, BothStaked, Bettor1, Bettor2
<1>3. mk.state = "Resolved" /\ mk.outcome = P2Win
    BY PotIsWon DEF AfterSettling, AfterClaim
<1>4. \A k \in Outcomes : mk.pools[k] = SumUpTo(Stakes(Fixture, k), NumOwners)
    BY <1>0 DEF PoolsMatchPositions, Total
<1>5. /\ P1Win \in Outcomes /\ Draw \in Outcomes /\ P2Win \in Outcomes
      /\ P1Win # P2Win /\ P1Win # Draw /\ Draw # P2Win
    BY DEF P1Win, Draw, P2Win, Outcomes, COUNT
<1>6. mk.pools[P2Win] = STAKE1
  <2>1. Stakes(Fixture, P2Win)[Bettor1] = STAKE1
    BY <1>1, <1>2 DEF Stakes, IsStaked, HasStake, Owners
  <2>2. \A o \in 1..NumOwners : o # Bettor1 => Stakes(Fixture, P2Win)[o] = 0
    BY <1>2, <1>5 DEF Stakes, IsStaked, HasStake, Owners
  <2>. QED
    BY <1>0, <1>1, <1>4, <1>5, <2>1, <2>2, SumOfOne
<1>7. mk.pools[P1Win] = STAKE2
  <2>1. Stakes(Fixture, P1Win)[Bettor2] = STAKE2
    BY <1>1, <1>2 DEF Stakes, IsStaked, HasStake, Owners
  <2>2. \A o \in 1..NumOwners : o # Bettor2 => Stakes(Fixture, P1Win)[o] = 0
    BY <1>2, <1>5 DEF Stakes, IsStaked, HasStake, Owners
  <2>. QED
    BY <1>0, <1>1, <1>4, <1>5, <2>1, <2>2, SumOfOne
<1>8. mk.pools[Draw] = 0
  <2>1. \A o \in 1..NumOwners : Stakes(Fixture, Draw)[o] = 0
    BY <1>2, <1>5 DEF Stakes, IsStaked, HasStake, Owners
  <2>. QED
    BY <1>0, <1>4, <1>5, <2>1, SumOfZeroes
<1>9. TotalPool(mk) = STAKE1 + STAKE2 /\ WinningPool(mk) = STAKE1
    BY <1>0, <1>3, <1>6, <1>7, <1>8 DEF TotalPool, WinningPool
<1>10. Payout(mk, pos[Bettor1]) = STAKE1 + STAKE2
  <2>1. (STAKE1 * (STAKE1 + STAKE2)) \div STAKE1 = STAKE1 + STAKE2
    <3>1. STAKE1 + STAKE2 \in Nat
        BY <1>0
    <3>. QED
        BY <1>0, <3>1, ExactQuotient
  <2>. QED
    BY <1>0, <1>2, <1>9, <2>1 DEF Payout, HasStake
<1>11. Total(Paid(Fixture)) = STAKE1 + STAKE2
  <2>1. Paid(Fixture)[Bettor1] = STAKE1 + STAKE2
    BY <1>1, <1>2, <1>10 DEF Paid, HasStake, Owners
  <2>2. ASSUME NEW o \in 1..NumOwners, o # Bettor1 PROVE Paid(Fixture)[o] = 0
    <3>1. PositionAgrees(Fixture, o) /\ o \in Owners
        BY <1>0, <2>2 DEF AccountsAgree, Owners
    <3>2. ~position[Fixture][o].claimed
        BY <1>2, <2>2, <3>1 DEF PositionAgrees, HasStake
    <3>. QED
        BY <3>1, <3>2 DEF Paid
  <2>3. Paid(Fixture)[Bettor1] \in Nat
    BY <1>0, <2>1
  <2>. QED
    BY <1>0, <1>1, <2>1, <2>2, <2>3, SumOfOne DEF Total
<1>12. vault[Fixture] = 0
  <2>1. vault[Fixture] + Total(Paid(Fixture)) = TotalPool(mk) /\ vault[Fixture] \in Int
    BY <1>0, Inputs DEF EscrowExact, TypeOK
  <2>. QED
    BY <1>0, <1>9, <1>11, <2>1
<1>. QED
    BY <1>10, <1>12

(* The winner claims the whole pot pro-rata (e2e-devnet.ts:11): its balance *)
(* has not shrunk, whoever else has staked, and if nobody has, it holds the *)
(* other bettor's stake and the vault is empty.                             *)
THEOREM WinnerAlwaysTakesPot == ScriptSpec => []WinnerTakesPot
<1>1. ASSUME ScriptInv, pc \in AfterClaim
      PROVE  /\ wallet[mint][Bettor1] >= FUNDING
             /\ (\A o \in Owners : IsStaked(Fixture, o) => o \in {Bettor1, Bettor2})
                   => wallet[mint][Bettor1] = FUNDING + STAKE2 /\ vault[Fixture] = 0
  <2>. DEFINE mk == market[Fixture]
              p == position[Fixture][Bettor1]
              payout == Payout(mk, p)
  <2>1. /\ wallet[mint][Bettor1] = FUNDING - STAKE1 + payout
        /\ p.amount = STAKE1
    BY <1>1 DEF ScriptInv, ScriptAt, Winner, AfterClaim, Bettor1, HasStake
  <2>2. mk \in MarketType /\ p \in PositionType
    BY <1>1, Bettors, ScriptInputs DEF ScriptInv, Escrowed, TypeOK, Calls
  <2>3. mk.outcome # NoOutcome
    BY <1>1, PotIsWon DEF AfterSettling, AfterClaim, P2Win, NoOutcome
  <2>4. payout \in Nat /\ STAKE1 <= payout
    BY <2>1, <2>2, <2>3, PayoutType, PayoutCoversStake
  <2>5. ASSUME \A o \in Owners : IsStaked(Fixture, o) => o \in {Bettor1, Bettor2}
        PROVE  payout = STAKE1 + STAKE2 /\ vault[Fixture] = 0
    BY <1>1, <2>5, PotIsEmptied
  <2>. HIDE DEF payout
  <2>. QED
    BY <2>1, <2>4, <2>5, ScriptInputs
<1>2. ScriptInv => WinnerTakesPot
    BY <1>1 DEF WinnerTakesPot, AfterClaim
<1>. QED
    BY <1>2, ScriptKeepsInv, PTL
=============================================================================
