--------------------------- MODULE SettlementFlow ---------------------------
(***************************************************************************)
(* How a market gets settled from the web app: the resolve card and the    *)
(* proof panel of a browser tab, the SDK's getSettlementProof behind the   *)
(* tab's proof cache, the TxLINE feed, and the program txsettle_market,    *)
(* whose actions and gates are those of TxsettleMarket.  Other people may  *)
(* settle the same market at any time (Settle).                            *)
(*                                                                         *)
(* A tab runs on one JavaScript thread, and an action is what runs between *)
(* two awaits.  Any await on the network may throw instead (the Fails      *)
(* actions), which for the RPC node means that withRetry has given up.     *)
(*                                                                         *)
(* External: the TxLINE feed, which appends records of the score of a      *)
(* fixture, of which some are game_finalised, and serves snapshots and     *)
(* proofs of them.  Here a proof is of the record and the stats asked for, *)
(* which the SDK does not check: PreVerify lets TxLINE answer with others. *)
(***************************************************************************)
EXTENDS SdkProof

CONSTANTS
    Tabs,      (* the browser tabs                                          *)
    Entries,   (* the records the feed may append                           *)
    MaxFeed    (* bound of the length of a fixture's feed                   *)

(* One record of the feed: whether its action is game_finalised, whether   *)
(* its seq is a number, and the score record it stands for.  The seq of a  *)
(* record is its place in the feed.                                        *)
EntryType == [finalised : BOOLEAN, numbered : BOOLEAN, record : RecordType]

(* What the app relies on: a game_finalised record has both full-match     *)
(* goal stats, with the period of a finalised record, at a time after the  *)
(* epoch.                                                                  *)
ASSUME FeedAssumption ==
    /\ MaxFeed \in Nat
    /\ Entries \subseteq EntryType
    /\ \A e \in Entries :
          /\ e.record \in Records
          /\ e.finalised =>
                /\ e.record.min_timestamp > 0
                /\ \A key \in {STAT_KEY_P1_GOALS, STAT_KEY_P2_GOALS} :
                      /\ \E s \in e.record.stats : s.key = key
                      /\ \A s \in e.record.stats :
                            s.key = key => s.period = FINALISED_PERIOD

VARIABLES
    feed,     (* the feed of every fixture                                  *)
    cache,    (* proofCache of every tab: the fetch or the proof kept       *)
    card,     (* the resolve card of every market in every tab              *)
    panel     (* the proof panel of every market in every tab               *)

tabs == <<cache, card, panel>>
flowVars == <<vars, feed, cache, card, panel>>

-----------------------------------------------------------------------------
(* discoverFinalisedSeq, in packages/sdk/src/proof.ts *)

NoEntry == [stage |-> "none"]

(* Mutant: the action of a record is not looked at. *)
NumberedSeqs(f, seqs) == {i \in seqs : feed[f][i].numbered}

(* The seqs discoverFinalisedSeq considers, in the records it is given. *)
FinalisedSeqs(f, seqs) ==
    {i \in seqs : feed[f][i].finalised /\ feed[f][i].numbered}

Highest(S) == CHOOSE i \in S : \A j \in S : j <= i

(* A snapshot holds the latest record of each action, and maybe more. *)
Snapshots(f) ==
    LET Latest(finalised) ==
            LET S == {i \in DOMAIN feed[f] : feed[f][i].finalised = finalised}
            IN  IF S = {} THEN {} ELSE {Highest(S)}
    IN  {S \in SUBSET DOMAIN feed[f] : Latest(TRUE) \cup Latest(FALSE) \subseteq S}

-----------------------------------------------------------------------------
(* getProof: the proof of a fixture is fetched once in a tab, and whoever  *)
(* asks meanwhile shares the fetch.  A fetch that fails is forgotten, and  *)
(* takes the card and the panel that wait for it with it.                  *)

NoFetch(t, f) == cache[t][f].stage = "none"
getProof(t, f) ==
    cache' = IF NoFetch(t, f)
             THEN [cache EXCEPT ![t][f] = [stage |-> "snapshot"]] ELSE cache

WhenFetched(view, t, f, next) ==
    IF view[t][f].stage = "fetch" THEN [view EXCEPT ![t][f] = next] ELSE view

(* The snapshot has arrived, and the proof of its final record is asked. *)
SnapshotArrives(t, f) ==
    /\ cache[t][f].stage = "snapshot"
    /\ \E seqs \in Snapshots(f) :
          /\ FinalisedSeqs(f, seqs) # {}
          /\ cache' = [cache EXCEPT ![t][f] =
                         [stage |-> "validation", seq |-> Highest(FinalisedSeqs(f, seqs))]]
    /\ UNCHANGED <<vars, feed, card, panel>>

ValidationArrives(t, f) ==
    /\ cache[t][f].stage = "validation"
    /\ LET record == feed[f][cache[t][f].seq].record
           proof == SettlementProof(record, DEFAULT_STAT_KEYS)
       IN  /\ HasStats(record, DEFAULT_STAT_KEYS)
           /\ HasRootsAccount(record)
           /\ cache' = [cache EXCEPT ![t][f] = [stage |-> "ready", proof |-> proof]]
           /\ card' = WhenFetched(card, t, f, [stage |-> "preverify", proof |-> proof])
           /\ panel' = WhenFetched(panel, t, f, [stage |-> "preverify", proof |-> proof])
    /\ UNCHANGED <<vars, feed>>

(* Mutant: the rejected promise stays in the cache. *)
FetchFailureIsCached(t, f) ==
    /\ cache[t][f].stage \in {"snapshot", "validation"}
    /\ cache' = [cache EXCEPT ![t][f] = [stage |-> "rejected"]]
    /\ card' = WhenFetched(card, t, f, [stage |-> "failed"])
    /\ panel' = WhenFetched(panel, t, f, [stage |-> "failed"])
    /\ UNCHANGED <<vars, feed>>

(* No game_finalised record, no proof, or no answer. *)
FetchFails(t, f) ==
    /\ cache[t][f].stage \in {"snapshot", "validation"}
    /\ cache' = [cache EXCEPT ![t][f] = NoEntry]
    /\ card' = WhenFetched(card, t, f, [stage |-> "failed"])
    /\ panel' = WhenFetched(panel, t, f, [stage |-> "failed"])
    /\ UNCHANGED <<vars, feed>>

-----------------------------------------------------------------------------
(* A view asks for the proof: it has it at once when the tab keeps one.    *)
Ask(view, t, f) ==
    [view EXCEPT ![t][f] =
        IF cache[t][f].stage = "ready"
        THEN [stage |-> "preverify", proof |-> cache[t][f].proof] ELSE [stage |-> "fetch"]]

-----------------------------------------------------------------------------
(* resolve-card.tsx.  The card is shown for a market that was open when    *)
(* the page read it, which it may no longer be.                            *)

CardRun(t, f) ==
    /\ market[f].state # "Absent"
    /\ card[t][f].stage \in {"idle", "failed", "done"}
    /\ card' = Ask(card, t, f)
    /\ getProof(t, f)
    /\ UNCHANGED <<vars, feed, panel>>

(* preVerifyProof: a roots account that does not exist yet fails the       *)
(* simulation, which is a FALSE.  Without a wallet the card stops here.    *)
CardPreVerifies(t, f) ==
    /\ card[t][f].stage = "preverify"
    /\ Verifies(card[t][f].proof)
    /\ card' \in {[card EXCEPT ![t][f].stage = "send"],
                  [card EXCEPT ![t][f] = [stage |-> "idle"]]}
    /\ UNCHANGED <<vars, feed, cache, panel>>

(* The proof is rejected, the user declines to sign, the transaction fails *)
(* or is never confirmed.                                                  *)
CardFails(t, f) ==
    /\ card[t][f].stage \in {"preverify", "send"}
    /\ card' = [card EXCEPT ![t][f] = [stage |-> "failed"]]
    /\ UNCHANGED <<vars, feed, cache, panel>>

(* resolveMarket: the transaction succeeds, though its answer may be lost. *)
CardSends(t, f) ==
    /\ card[t][f].stage = "send"
    /\ LET proof == card[t][f].proof
       IN  Resolve(f, proof.payload, proof.strategy, proof.rootsPda)
    /\ \E stage \in {"done", "failed"} :
          card' = [card EXCEPT ![t][f] = [stage |-> stage]]
    /\ UNCHANGED <<feed, cache, panel>>

-----------------------------------------------------------------------------
(* proof-panel.tsx, shown for a resolved market.  It loads again when the  *)
(* wallet changes, and verifies again on request.                          *)

PanelLoad(t, f) ==
    /\ market[f].state = "Resolved"
    /\ panel[t][f].stage \in {"idle", "failed", "shown"}
    /\ panel' = Ask(panel, t, f)
    /\ getProof(t, f)
    /\ UNCHANGED <<vars, feed, card>>

PanelVerifies(t, f) ==
    /\ panel[t][f].stage \in {"preverify", "shown"}
    /\ \E verified \in {FALSE, Verifies(panel[t][f].proof)} :
          panel' = [panel EXCEPT ![t][f] =
                      [stage |-> "shown", proof |-> panel[t][f].proof,
                       verified |-> verified]]
    /\ UNCHANGED <<vars, feed, cache, card>>

-----------------------------------------------------------------------------
(* A reload of the page forgets everything the tab kept. *)
Reload(t) ==
    /\ \E f \in Fixtures : cache[t][f] # NoEntry
    /\ cache' = [cache EXCEPT ![t] = [f \in Fixtures |-> NoEntry]]
    /\ card' = [card EXCEPT ![t] = [f \in Fixtures |-> [stage |-> "idle"]]]
    /\ panel' = [panel EXCEPT ![t] = [f \in Fixtures |-> [stage |-> "idle"]]]
    /\ UNCHANGED <<vars, feed>>

FeedAppends(f, e) ==
    /\ Len(feed[f]) < MaxFeed
    /\ e.record.fixture_id = f
    /\ feed' = [feed EXCEPT ![f] = Append(@, e)]
    /\ UNCHANGED <<vars, tabs>>

(* txoracle commits what the feed has published. *)
FeedCommits(f) ==
    /\ \E i \in DOMAIN feed[f] : PublishScores(feed[f][i].record)
    /\ UNCHANGED <<feed, tabs>>

(* Whatever else happens to the markets, a resolution by others included. *)
MarketStep ==
    /\ \/ Create \/ Bet \/ Tick \/ Issue
       \/ \E f \in Fixtures : Settle(f)
       \/ \E o \in Owners, f \in Fixtures : Collect(o, f)
    /\ UNCHANGED <<feed, tabs>>

-----------------------------------------------------------------------------
FlowInit ==
    /\ Init
    /\ feed = [f \in Fixtures |-> <<>>]
    /\ cache = [t \in Tabs |-> [f \in Fixtures |-> NoEntry]]
    /\ card = [t \in Tabs |-> [f \in Fixtures |-> [stage |-> "idle"]]]
    /\ panel = [t \in Tabs |-> [f \in Fixtures |-> [stage |-> "idle"]]]

FlowNext ==
    \/ \E t \in Tabs, f \in Fixtures :
          \/ SnapshotArrives(t, f) \/ ValidationArrives(t, f) \/ FetchFails(t, f)
          \/ CardRun(t, f) \/ CardPreVerifies(t, f) \/ CardFails(t, f)
          \/ CardSends(t, f)
          \/ PanelLoad(t, f) \/ PanelVerifies(t, f)
    \/ \E t \in Tabs : Reload(t)
    \/ \E f \in Fixtures, e \in Entries : FeedAppends(f, e)
    \/ \E f \in Fixtures : FeedCommits(f)
    \/ MarketStep

FlowSpec == FlowInit /\ [][FlowNext]_flowVars

(* In every tab somebody keeps running the card, with a wallet, and        *)
(* neither the network nor the wallet fails at the same step for ever; and *)
(* txoracle commits what the feed has published.                           *)
FairFlowSpec ==
    /\ FlowSpec
    /\ \A t \in Tabs, f \in Fixtures :
          /\ WF_flowVars(CardRun(t, f))
          /\ SF_flowVars(SnapshotArrives(t, f))
          /\ SF_flowVars(ValidationArrives(t, f))
          /\ SF_flowVars(CardPreVerifies(t, f) /\ card'[t][f].stage = "send")
          /\ SF_flowVars(CardSends(t, f))
    /\ \A f \in Fixtures : WF_flowVars(FeedCommits(f))

-----------------------------------------------------------------------------
(* Correctness *)

(* What the app has verified the program accepts: a card that is about to  *)
(* send its transaction holds a proof that passes every gate of resolve,   *)
(* so that it can only fail because somebody else has settled the market.  *)
SentProofsAreAccepted ==
    \A t \in Tabs, f \in Fixtures :
        card[t][f].stage = "send" =>
            LET proof == card[t][f].proof
            IN  PassesGates(proof, f) /\ Verifies(proof)

(* The outcome of the score that a verified panel shows. *)
ShownOutcome(proof) ==
    OutcomeOf(Goals(proof.payload.stats, STAT_KEY_P1_GOALS),
              Goals(proof.payload.stats, STAT_KEY_P2_GOALS))

ShowsVerified(t, f) == panel[t][f].stage = "shown" /\ panel[t][f].verified

FinalOutcomes(f) ==
    {k \in Outcomes :
        \E r \in committed : \E s1, s2 \in r.stats :
            IsFinalScore(r, f, s1.value, s2.value) /\ k = OutcomeOf(s1.value, s2.value)}

(* As long as txoracle has committed one final outcome only, a panel that  *)
(* says verified shows a score with the outcome the market was settled on, *)
(* whoever settled it and from whatever cache the panel took its proof.    *)
PanelAgreesWithOnlyFinal ==
    \A t \in Tabs, f \in Fixtures :
        ShowsVerified(t, f) /\ Cardinality(FinalOutcomes(f)) = 1 =>
            ShownOutcome(panel[t][f].proof) = market[f].outcome

(* A match that is final gets its market settled, however often a fetch, a *)
(* simulation or a transaction fails on the way, provided that its newest  *)
(* final record has a seq: a snapshot need not hold an older one.          *)
FinalHasSeq(f) ==
    LET S == {i \in DOMAIN feed[f] : feed[f][i].finalised}
    IN  S # {} /\ feed[f][Highest(S)].numbered

FinalisedMarketSettles ==
    \A f \in Fixtures :
        market[f].state = "Open" /\ FinalHasSeq(f)
            ~> market[f].state = "Resolved" \/ ~FinalHasSeq(f)

(* What the panel claims of a resolved market (proof-panel.tsx:19-23):     *)
(* that it renders the proof of its outcome.  The run that checks it shows *)
(* that a corrected final score breaks it.                                 *)
PanelProvesOutcome ==
    \A t \in Tabs, f \in Fixtures :
        ShowsVerified(t, f) => ShownOutcome(panel[t][f].proof) = market[f].outcome
=============================================================================
