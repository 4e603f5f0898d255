---------------------------- MODULE DevnetScript ----------------------------
(***************************************************************************)
(* scripts/e2e-devnet.ts: one invocation takes a market of a finished      *)
(* fixture through its whole life (create, two bets, a tampered proof, the *)
(* genuine one, the claims), on a chain where anybody else acts on the     *)
(* same market.  The script is "safe to re-run": an invocation that ends   *)
(* early is followed by another, which finds what is on chain and has      *)
(* nothing else of the one before, neither its bettors' keys nor its mint. *)
(*                                                                         *)
(* An action is one awaited call that matters, with the code up to the     *)
(* next one.  A call the chain refuses ends the invocation (Refused), and  *)
(* so does a kill or an error of the network, between any two calls        *)
(* (Crash).  A transaction that lands although its answer is lost is the   *)
(* step followed by a Crash.                                               *)
(*                                                                         *)
(* What the code does for the bettors' SOL and token accounts is left out: *)
(* it keeps no state the script comes back to.                             *)
(***************************************************************************)
EXTENDS SdkProof

CONSTANTS
    Fixture,     (* FIXTURE_ID                                              *)
    FinalRecord, (* the record its proof is fetched from                    *)
    MaxRuns,     (* bound of the number of invocations                      *)
    MaxCrashes,  (* bound of the number of crashes                          *)
    MaxGiven,    (* bound of the tokens another bettor is given             *)
    CLOSE_DELAY, (* how long after the creation the market closes           *)
    FUNDING,     (* what each bettor is minted                              *)
    STAKE1, STAKE2  (* what the two bettors place                           *)

(* The bettors of invocation r are the owners 2r-1 and 2r, and the mint it *)
(* may create is r.  Other people are the owners, and have the mints, that *)
(* come after these.                                                       *)
ASSUME ScriptAssumption ==
    /\ Fixture \in Fixtures
    /\ FinalRecord \in Records
    /\ FinalRecord.fixture_id = Fixture
    /\ HasStats(FinalRecord, DEFAULT_STAT_KEYS)
    /\ LeafOf(FinalRecord, STAT_KEY_P1_GOALS).value < LeafOf(FinalRecord, STAT_KEY_P2_GOALS).value
    /\ {MaxRuns, MaxCrashes, MaxGiven} \subseteq Nat
    /\ CLOSE_DELAY \in Nat \ {0}
    /\ FUNDING \in Nat
    /\ {STAKE1, STAKE2} \subseteq 1..FUNDING
    /\ 2 * MaxRuns <= NumOwners
    /\ MaxRuns <= NumMints

(* txoracle: what it commits of the fixture at the time of FinalRecord     *)
(* does not tell of another final score.                                   *)
ASSUME OneScoreAssumption ==
    \A r \in Records : \A s \in r.stats :
        /\ r.fixture_id = Fixture
        /\ r.min_timestamp = FinalRecord.min_timestamp
        /\ s.period = FINALISED_PERIOD
        /\ s.key = STAT_KEY_P1_GOALS
        => s.value = LeafOf(FinalRecord, STAT_KEY_P1_GOALS).value

VARIABLES
    pc,       (* the call the running invocation awaits, or how it ended    *)
    run,      (* the number of invocations so far                           *)
    mint,     (* the variable mint of the invocation                        *)
    crashes   (* the number of crashes so far                               *)

script == <<pc, run, mint, crashes>>
scriptVars == <<vars, script>>

Bettor1 == 2 * run - 1
Bettor2 == 2 * run
Others == (2 * MaxRuns + 1)..NumOwners
OthersMints == (MaxRuns + 1)..NumMints

(* Only the script's wallet mints what an invocation has created. *)
IsMintAuthority(m) == m \in 1..run

Running == pc \notin {"stopped", "summary"}
At(call, next) == pc = call /\ pc' = next /\ UNCHANGED <<run, crashes>>

-----------------------------------------------------------------------------
(* [1/5], [2/5] *)

genuine == SettlementProof(FinalRecord, DEFAULT_STAT_KEYS)

Invoke ==
    /\ ~Running
    /\ run < MaxRuns
    /\ run' = run + 1
    /\ mint' = NoKey
    /\ pc' = "market"
    /\ UNCHANGED <<vars, crashes>>

FindsMarket ==
    /\ market[Fixture].state # "Absent"
    /\ At("market", "state")
    /\ mint' = market[Fixture].mint
    /\ UNCHANGED vars

CreatesMint ==
    /\ market[Fixture].state = "Absent"
    /\ At("market", "create")
    /\ mint' = run
    /\ UNCHANGED vars

CreatesMarket ==
    /\ At("create", "state")
    /\ CreateMarket(Fixture, mint, now + CLOSE_DELAY)
    /\ UNCHANGED mint

-----------------------------------------------------------------------------
(* [3/5] *)

(* Mutant: the state of the market is not looked at. *)
NeverSkips ==
    /\ At("state", "fund1")
    /\ UNCHANGED <<vars, mint>>

(* A market that is resolved takes the script to its summary. *)
ReadsState ==
    /\ At("state", IF market[Fixture].state = "Resolved" THEN "summary" ELSE "fund1")
    /\ UNCHANGED <<vars, mint>>

Funds(bettor, call, next) ==
    /\ At(call, next)
    /\ IsMintAuthority(mint)
    /\ MintTo(mint, bettor, FUNDING)
    /\ UNCHANGED mint

Bets(bettor, outcome, stake, call, next) ==
    /\ At(call, next)
    /\ Place(bettor, Fixture, mint, outcome, stake)
    /\ UNCHANGED mint

-----------------------------------------------------------------------------
(* [4/5] *)

(* withStatValues: the proof of the final record with the goals swapped,   *)
(* and equalityStrategy, which pins the values claimed.                    *)
tampered ==
    LET stats == genuine.payload.stats
        swapped == [i \in 1..2 |-> [stats[i] EXCEPT !.value = stats[3 - i].value]]
    IN  [genuine EXCEPT !.payload.stats = swapped, !.strategy = ExactEquality(swapped)]

Accepts(p) ==
    /\ market[Fixture].state = "Open"
    /\ PassesGates(p, Fixture)
    /\ Verifies(p)

(* Everything about the tampered proof is in order but its values: the     *)
(* refusal that the script waits for is ProofRejected.                     *)
RejectsProof(p) ==
    /\ market[Fixture].state = "Open"
    /\ PassesGates(p, Fixture)
    /\ ~Verifies(p)

(* expectProgramError catches the very error it throws when a transaction  *)
(* succeeds, and finds the codes it looks for in its text: a success ends  *)
(* nothing either, it only shows on chain.                                 *)
TamperedIsRejected ==
    /\ At("tampered", "resolve")
    /\ IF RejectsProof(tampered)
       THEN UNCHANGED vars
       ELSE Resolve(Fixture, tampered.payload, tampered.strategy, tampered.rootsPda)
    /\ UNCHANGED mint

Resolves ==
    /\ At("resolve", "claim")
    /\ Resolve(Fixture, genuine.payload, genuine.strategy, genuine.rootsPda)
    /\ UNCHANGED mint

-----------------------------------------------------------------------------
(* [5/5] *)

Claims ==
    /\ At("claim", "loser")
    /\ Claim(Bettor1, Fixture, mint)
    /\ UNCHANGED mint

(* A claim that is refused with NotAWinner, and one with AlreadyClaimed. *)
NotAWinner(o) ==
    /\ market[Fixture].state = "Resolved"
    /\ ~position[Fixture][o].claimed
    /\ ~IsEntitled(market[Fixture], position[Fixture][o])
AlreadyClaimed(o) ==
    market[Fixture].state = "Resolved" /\ position[Fixture][o].claimed

LoserIsRejected ==
    /\ At("loser", "again")
    /\ IF NotAWinner(Bettor2) THEN UNCHANGED vars ELSE Claim(Bettor2, Fixture, mint)
    /\ UNCHANGED mint

SecondClaimIsRejected ==
    /\ At("again", "summary")
    /\ IF AlreadyClaimed(Bettor1) THEN UNCHANGED vars ELSE Claim(Bettor1, Fixture, mint)
    /\ UNCHANGED mint

ScriptStep ==
    \/ FindsMarket \/ CreatesMint \/ CreatesMarket
    \/ ReadsState
    \/ Funds(Bettor1, "fund1", "fund2") \/ Funds(Bettor2, "fund2", "place1")
    \/ Bets(Bettor1, P2Win, STAKE1, "place1", "place2")
    \/ Bets(Bettor2, P1Win, STAKE2, "place2", "tampered")
    \/ TamperedIsRejected \/ Resolves
    \/ Claims \/ LoserIsRejected \/ SecondClaimIsRejected

-----------------------------------------------------------------------------
(* The end of an invocation *)

Stops == pc' = "stopped" /\ UNCHANGED <<vars, run, mint>>

Refused ==
    /\ Running
    /\ ~ENABLED ScriptStep
    /\ Stops
    /\ UNCHANGED crashes

Crash ==
    /\ Running
    /\ crashes < MaxCrashes
    /\ crashes' = crashes + 1
    /\ Stops

(* What other people do: they have neither the bettors' keys nor the       *)
(* authority over the script's mints, whose tokens they may be given.      *)
OthersStep ==
    /\ \/ \E m \in OthersMints : CreateMarket(Fixture, m, now + 1)
       \/ Tick
       \/ Settle(Fixture)
       \/ \E o \in Others, k \in Outcomes, amount \in Amounts :
             Place(o, Fixture, market[Fixture].mint, k, amount)
       \/ \E o \in Others : Collect(o, Fixture)
       \/ \E o \in Others, amount \in MintAmounts :
             /\ market[Fixture].state # "Absent"
             /\ position[Fixture][o].amount + wallet[market[Fixture].mint][o] + amount
                   <= MaxGiven
             /\ MintTo(market[Fixture].mint, o, amount)
    /\ UNCHANGED script

(* The fixture has finished: txoracle has committed its records. *)
ScriptInit ==
    /\ now = 0
    /\ market = [f \in Fixtures |-> AbsentMarket]
    /\ position = [f \in Fixtures |-> [o \in Owners |-> FreshPosition]]
    /\ vault = [f \in Fixtures |-> 0]
    /\ wallet = [m \in Mints |-> [o \in Owners |-> 0]]
    /\ supply = [m \in Mints |-> 0]
    /\ committed = Records
    /\ pc = "stopped"
    /\ run = 0
    /\ mint = NoKey
    /\ crashes = 0

ScriptNext ==
    \/ Invoke
    \/ ScriptStep
    \/ Refused
    \/ Crash
    \/ OthersStep

ScriptSpec == ScriptInit /\ [][ScriptNext]_scriptVars

(* Somebody invokes the script again until it has got to its summary, and  *)
(* an invocation that is not killed goes on.                               *)
FairScriptSpec ==
    /\ ScriptSpec
    /\ WF_scriptVars(Invoke)
    /\ WF_scriptVars(ScriptStep \/ Refused)

-----------------------------------------------------------------------------
(* Correctness *)

(* Whatever others do between two calls, no transaction that the script    *)
(* submits to see it rejected succeeds: not the tampered proof, not the    *)
(* loser's claim, not the second claim of the winner.  The script itself   *)
(* would not notice one that did (e2e-devnet.ts:72-77).                    *)
RejectionsHold ==
    /\ pc = "tampered" => ~Accepts(tampered)
    /\ pc = "loser" => ~MayClaim(Fixture, Bettor2)
    /\ pc = "again" => ~MayClaim(Fixture, Bettor1)

(* The winner claims the whole pot pro-rata (e2e-devnet.ts:11): once it    *)
(* has claimed, its balance has not shrunk, whoever else has staked; and   *)
(* if nobody else has, no earlier invocation included, it has the other    *)
(* bettor's stake and the vault is empty.                                  *)
WinnerTakesPot ==
    pc \in {"loser", "again"} =>
        LET balance == wallet[mint][Bettor1]
        IN  /\ balance >= FUNDING
            /\ (\A o \in Owners : IsStaked(Fixture, o) => o \in {Bettor1, Bettor2})
                  => balance = FUNDING + STAKE2 /\ vault[Fixture] = 0

(* Re-running gets somewhere: unless the market has been created by others, *)
(* with a mint the script has no authority over, or has closed before      *)
(* anybody resolved it, some invocation gets to the summary, although      *)
(* those before it were killed at any point or overtaken by others.        *)
Stuck ==
    /\ market[Fixture].state = "Open"
    /\ market[Fixture].mint \in OthersMints \/ now >= market[Fixture].close_ts

RerunsEnd == <>(pc = "summary" \/ Stuck)
=============================================================================
