----------------------------- MODULE PreVerify -----------------------------
(***************************************************************************)
(* A user of the SDK outside the web app (packages/sdk/src/index.ts): it   *)
(* fetches a proof with getSettlementProof, of the final record of a       *)
(* fixture or of any record and stats it names, dry-runs it with preVerify *)
(* as often as it likes, and submits it to the program.  Meanwhile anybody *)
(* acts on the market, and txoracle commits records.                       *)
(*                                                                         *)
(* An action is what runs between two awaits.  preVerify reads the roots   *)
(* account first and simulates validate_stat_v2 after that; an error of    *)
(* either, the network's included, is the verdict FALSE.  It throws only   *)
(* without a fee payer, before the first of them (Throws).                 *)
(*                                                                         *)
(* External: the TxLINE server, which knows which records are final, and   *)
(* may serve a record before txoracle has committed it.  What it answers   *)
(* to a request for a proof need not be what was asked for: the SDK counts *)
(* the stats of the answer and takes the rest, the fixture, the stats'     *)
(* keys and the timestamp included, from it.                               *)
(***************************************************************************)
EXTENDS SdkProof

CONSTANTS
    FinalRecords,  (* the records whose action is game_finalised            *)
    Requests       (* the parameters getSettlementProof is called with      *)

(* A record stands for its seq: seq is the set of the one record whose seq *)
(* is given, or empty.  A final record has both full-match goal stats,     *)
(* with the period of a finalised record.                                  *)
RequestType == [fixture_id : Fixtures, seq : SUBSET Records, stat_keys : Seq(Nat)]

ASSUME RequestAssumption ==
    /\ FinalRecords \subseteq Records
    /\ \A q \in Requests : q \in RequestType /\ Cardinality(q.seq) <= 1
    /\ \A r \in FinalRecords, key \in {STAT_KEY_P1_GOALS, STAT_KEY_P2_GOALS} :
          /\ \E s \in r.stats : s.key = key
          /\ \A s \in r.stats : s.key = key => s.period = FINALISED_PERIOD

VARIABLE sdk    (* what the user's script is at *)

sdkVars == <<vars, sdk>>

-----------------------------------------------------------------------------
(* getSettlementProof *)

Ended == sdk.stage \in {"idle", "threw", "proved", "verdict"}

Request(q) ==
    /\ Ended
    /\ sdk' = [stage |-> IF q.seq = {} THEN "snapshot" ELSE "validation",
               request |-> q, seq |-> q.seq]
    /\ UNCHANGED vars

(* Mutant: the record with the highest seq, whatever its action. *)
LatestRecords(f) == {r \in Records : r.fixture_id = f}

(* The records of which one is the newest final one of a snapshot. *)
DiscoveredRecords(f) == {r \in FinalRecords : r.fixture_id = f}

SeqArrives ==
    /\ sdk.stage = "snapshot"
    /\ \E r \in DiscoveredRecords(sdk.request.fixture_id) :
          sdk' = [sdk EXCEPT !.stage = "validation", !.seq = {r}]
    /\ UNCHANGED vars

(* The answer that proves what the script has asked for. *)
AnswersRequest(payload) ==
    LET statKeys == StatKeys(sdk.request.stat_keys)
    IN  \E r \in sdk.seq :
           /\ r.fixture_id = sdk.request.fixture_id
           /\ HasStats(r, statKeys)
           /\ payload = buildValidationPayload(r, statKeys)

(* Any answer with as many stats as were asked for makes a proof. *)
ProofArrives ==
    /\ sdk.stage = "validation"
    /\ \E payload \in Payloads :
          /\ Len(payload.stats) = Len(StatKeys(sdk.request.stat_keys))
          /\ HasRootsAccount(payload)
          /\ sdk' = [stage |-> "proved", request |-> sdk.request, seq |-> sdk.seq,
                     proof |-> ProofOf(payload)]
    /\ UNCHANGED vars

(* No answer, no final record, a malformed response, or no fee payer. *)
Throws ==
    /\ sdk.stage \in {"snapshot", "validation", "proved", "verdict"}
    /\ sdk' = [stage |-> "threw"]
    /\ UNCHANGED vars

-----------------------------------------------------------------------------
(* preVerify *)

Dry(stage) ==
    [stage |-> stage, request |-> sdk.request, seq |-> sdk.seq, proof |-> sdk.proof]
Verdict(verified) ==
    [stage |-> "verdict", request |-> sdk.request, seq |-> sdk.seq, proof |-> sdk.proof,
     verified |-> verified]

preVerify ==
    /\ sdk.stage \in {"proved", "verdict"}
    /\ sdk' = Dry("roots")
    /\ UNCHANGED vars

(* txoracle has a roots account for a day on which it has committed. *)
RootsExist(day) == \E r \in committed : EpochDay(r.min_timestamp) = day

RootsArrive ==
    /\ sdk.stage = "roots"
    /\ sdk' = IF RootsExist(sdk.proof.rootsPda) THEN Dry("view") ELSE Verdict(FALSE)
    /\ UNCHANGED vars

ViewArrives ==
    /\ sdk.stage = "view"
    /\ \E verified \in ValidateStatV2(sdk.proof.payload, sdk.proof.strategy,
                                      sdk.proof.rootsPda) :
          sdk' = Verdict(verified)
    /\ UNCHANGED vars

NetworkFails ==
    /\ sdk.stage \in {"roots", "view"}
    /\ sdk' = Verdict(FALSE)
    /\ UNCHANGED vars

-----------------------------------------------------------------------------
(* The user submits what it has verified. *)
Verified == sdk.stage = "verdict" /\ sdk.verified

Submit ==
    /\ Verified
    /\ \E f \in Fixtures :
          Resolve(f, sdk.proof.payload, sdk.proof.strategy, sdk.proof.rootsPda)
    /\ UNCHANGED sdk

SdkInit == Init /\ sdk = [stage |-> "idle"]

SdkNext ==
    \/ \E q \in Requests : Request(q)
    \/ SeqArrives \/ ProofArrives \/ Throws
    \/ preVerify \/ RootsArrive \/ ViewArrives \/ NetworkFails
    \/ Submit
    \/ Next /\ UNCHANGED sdk

SdkSpec == SdkInit /\ [][SdkNext]_sdkVars

-----------------------------------------------------------------------------
(* Correctness *)

(* A TRUE is a cryptographic match (verify.ts:8), for whatever record and  *)
(* stats were asked for and whatever TxLINE has answered: every stat of    *)
(* the payload, at the value claimed, is a leaf of one record of the       *)
(* payload's fixture that txoracle has committed under the roots account   *)
(* of the proof.                                                           *)
VerdictIsCommitted ==
    Verified =>
        /\ Committed(sdk.proof.payload, sdk.proof.rootsPda)
        /\ sdk.proof.strategy.discrete_predicates # <<>>

(* What the program asks beyond that is named here in full: a proof with a *)
(* TRUE can be refused only for the timestamp 0, for the stats or the      *)
(* period that the user chose itself, or, when TxLINE has answered another *)
(* request than the script's, for the stats or the fixture it answered     *)
(* with.  A proof of the record and the stats the SDK chooses by default   *)
(* is only refused for the timestamp 0.                                    *)
ChoseItself(q) == q.seq # {} \/ StatKeys(q.stat_keys) # DEFAULT_STAT_KEYS

VerdictCoversResolve ==
    Verified =>
        \/ PassesGates(sdk.proof, sdk.request.fixture_id)
        \/ sdk.proof.payload.min_timestamp = 0
        \/ /\ ChoseItself(sdk.request) \/ ~AnswersRequest(sdk.proof.payload)
           /\ ~GoalStatsOnly(sdk.proof.payload.stats)
        \/ /\ ~AnswersRequest(sdk.proof.payload)
           /\ sdk.proof.payload.fixture_id # sdk.request.fixture_id
=============================================================================
