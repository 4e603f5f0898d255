--------------------------- MODULE TxsettleMarket ---------------------------
(***************************************************************************)
(* The Solana program txsettle_market: one parimutuel 1X2 market per       *)
(* TxLINE fixture.  Anybody creates a market, bettors place stakes into an *)
(* escrow vault while it is open, anybody resolves it with a Merkle proof  *)
(* of the final score, and the holders of a winning position claim.        *)
(*                                                                         *)
(* An action is one successful transaction.  A transaction whose handler   *)
(* returns an error, or whose CPI aborts, is rolled back by the runtime    *)
(* and leaves no trace, so every require!, checked_* and account           *)
(* constraint of a handler is a conjunct of its action.                    *)
(*                                                                         *)
(* External to the program: the clock (Tick), the SPL token program (the   *)
(* balances wallet, vault and supply), the mint authority (MintTo), and    *)
(* txoracle, which commits score records under daily Merkle roots          *)
(* (PublishScores) and verifies proofs against them (ValidateStatV2).      *)
(***************************************************************************)
EXTENDS PrefixSums, Sequences, FiniteSets

CONSTANTS
    NumFixtures,     (* fixtures are numbered 1..NumFixtures                *)
    NumOwners,       (* bettors are numbered 1..NumOwners                   *)
    NumMints,        (* SPL mints are numbered 1..NumMints                  *)
    Amounts,         (* the amounts tried as a stake, zero included         *)
    MintAmounts,     (* the amounts the mint authority issues at a time     *)
    InitialBalance,  (* the balance every token account starts with         *)
    MAX_U64,         (* u64::MAX                                            *)
    MAX_U16,         (* u16::MAX                                            *)
    MILLIS_PER_DAY,  (* length of the day a roots account stands for        *)
    MaxTime,         (* bound of the clock                                  *)
    Records,         (* the score records txoracle may commit               *)
    MaxCommits,      (* bound of the number of committed records            *)
    Payloads,        (* the proof payloads a resolver may submit            *)
    Strategies       (* the strategies a resolver may submit                *)

Fixtures == 1..NumFixtures
Owners == 1..NumOwners
Mints == 1..NumMints

(* Outcome, index-aligned with the pools; NoOutcome is Option::None. *)
P1Win == 0
Draw == 1
P2Win == 2
COUNT == 3
Outcomes == 0..(COUNT - 1)
NoOutcome == -1

STAT_KEY_P1_GOALS == 1
STAT_KEY_P2_GOALS == 2
FINALISED_PERIOD == 100

(* Mutant: the product of claim is taken in u64. *)
ProductInU64 == MAX_U64

(* u128::MAX, for a u128 twice as wide as a u64. *)
MAX_U128 == (MAX_U64 + 1) * (MAX_U64 + 1) - 1

(* Pubkey::default(), in a field that holds a market or a mint. *)
NoKey == 0

Stats == [key : Nat, period : Nat, value : Int]

(* What a resolver submits.  min_timestamp is fixture_summary.update_stats *)
(* .min_timestamp.  Of a strategy only what the handler looks at is kept:  *)
(* whether there are geometric targets or a distance predicate, and the    *)
(* discrete predicates with their kind, index, comparison and threshold.   *)
PayloadType == [fixture_id : Fixtures, min_timestamp : Int, stats : Seq(Stats)]
PredicateType == [kind : {"Single", "Binary"}, index : Nat,
                  comparison : {"EqualTo", "GreaterThan", "LessThan"},
                  threshold : Int]
StrategyType == [geometric_targets : BOOLEAN, distance_predicate : BOOLEAN,
                 discrete_predicates : Seq(PredicateType)]

(* What txoracle commits: the stat leaves of one record of a fixture. *)
RecordType == [fixture_id : Fixtures, min_timestamp : Nat,
               stats : SUBSET Stats]

ASSUME CountsAssumption ==
    /\ NumFixtures \in Nat
    /\ NumOwners \in Nat
    /\ NumMints \in Nat
    /\ MaxCommits \in Nat
    /\ MaxTime \in Nat

ASSUME WidthAssumption ==
    /\ MAX_U64 \in Nat \ {0}
    /\ MAX_U16 \in Nat
    /\ MILLIS_PER_DAY \in Nat \ {0}

(* The supply of a mint is a u64, so the balances of its accounts fit. *)
ASSUME TokensAssumption ==
    /\ Amounts \subseteq Nat
    /\ MintAmounts \subseteq Nat
    /\ InitialBalance \in Nat
    /\ NumOwners * InitialBalance <= MAX_U64

ASSUME ProofsAssumption ==
    /\ Records \subseteq RecordType
    /\ Payloads \subseteq PayloadType
    /\ Strategies \subseteq StrategyType

VARIABLES
    now,        (* Clock::unix_timestamp                                    *)
    market,     (* the Market account of every fixture                      *)
    position,   (* the Position account of every market and owner           *)
    vault,      (* balance of the escrow token account of every market      *)
    wallet,     (* balance of every owner's token account of every mint     *)
    supply,     (* supply of every mint                                     *)
    committed   (* the records txoracle has committed                       *)

vars == <<now, market, position, vault, wallet, supply, committed>>
tokens == <<vault, wallet, supply>>

-----------------------------------------------------------------------------
(* State of the accounts *)

MarketType == [mint : 0..NumMints, close_ts : Int,
               state : {"Absent", "Open", "Resolved"},
               outcome : Outcomes \cup {NoOutcome},
               pools : [Outcomes -> 0..MAX_U64]]

PositionType == [market : 0..NumFixtures, outcome : Outcomes,
                 amount : 0..MAX_U64, claimed : BOOLEAN]

AbsentMarket == [mint |-> NoKey, close_ts |-> 0, state |-> "Absent",
                 outcome |-> NoOutcome, pools |-> [k \in Outcomes |-> 0]]

(* init_if_needed hands place a zeroed account. *)
FreshPosition == [market |-> NoKey, outcome |-> 0, amount |-> 0,
                  claimed |-> FALSE]

(* Market::total_pool, before its overflow check. *)
TotalPool(m) == m.pools[P1Win] + m.pools[Draw] + m.pools[P2Win]

Init ==
    /\ now = 0
    /\ market = [f \in Fixtures |-> AbsentMarket]
    /\ position = [f \in Fixtures |-> [o \in Owners |-> FreshPosition]]
    /\ vault = [f \in Fixtures |-> 0]
    /\ wallet = [m \in Mints |-> [o \in Owners |-> InitialBalance]]
    /\ supply = [m \in Mints |-> NumOwners * InitialBalance]
    /\ committed = {}

-----------------------------------------------------------------------------
(* create_market *)

CreateMarket(f, m, close_ts) ==
    /\ market[f].state = "Absent"
    /\ close_ts > now
    /\ market' = [market EXCEPT ![f] =
                    [mint |-> m, close_ts |-> close_ts, state |-> "Open",
                     outcome |-> NoOutcome, pools |-> [k \in Outcomes |-> 0]]]
    /\ UNCHANGED <<now, position, tokens, committed>>

-----------------------------------------------------------------------------
(* place *)

IsFresh(p) == p.market = NoKey

(* Mutant: the Position account is initialised by every place. *)
OpenedByEveryPlace(p, f, k) ==
    [market |-> f, outcome |-> k, amount |-> 0, claimed |-> FALSE]

(* The position place adds to: a fresh account is filled in, and a position *)
(* that exists keeps its side.                                              *)
OpenedPosition(p, f, k) ==
    IF IsFresh(p)
    THEN [market |-> f, outcome |-> k, amount |-> 0, claimed |-> FALSE]
    ELSE p

(* Mutant: OutcomeSwitch is not required. *)
AnySide(p, k) == TRUE

SameSide(p, k) == IsFresh(p) \/ p.outcome = k

(* Mutants: place forgets the close, or the state. *)
AcceptsUntilResolved(mk) == mk.state = "Open"
AcceptsUntilClosed(mk) == mk.state # "Absent" /\ now < mk.close_ts

AcceptsStakes(mk) == mk.state = "Open" /\ now < mk.close_ts

(* transfer_checked from the owner's token account of mint m; the vault's  *)
(* balance is a u64.                                                       *)
DepositToVault(m, o, f, amount) ==
    /\ wallet[m][o] >= amount
    /\ vault[f] + amount <= MAX_U64
    /\ wallet' = [wallet EXCEPT ![m][o] = @ - amount]
    /\ vault' = [vault EXCEPT ![f] = @ + amount]
    /\ UNCHANGED supply

Place(o, f, m, k, amount) ==
    LET opened == OpenedPosition(position[f][o], f, k)
    IN  /\ k < COUNT
        /\ amount > 0
        /\ AcceptsStakes(market[f])
        /\ m = market[f].mint
        /\ SameSide(position[f][o], k)
        /\ DepositToVault(m, o, f, amount)
        /\ opened.amount + amount <= MAX_U64
        /\ position' = [position EXCEPT ![f][o] =
                          [opened EXCEPT !.amount = @ + amount]]
        /\ market[f].pools[k] + amount <= MAX_U64
        /\ market' = [market EXCEPT ![f].pools[k] = @ + amount]
        /\ UNCHANGED <<now, committed>>

-----------------------------------------------------------------------------
(* resolve *)

(* Mutant: gate (b) without StatNotFinal. *)
GoalStatsOfAnyPeriod(stats) ==
    /\ Len(stats) = 2
    /\ {stats[1].key, stats[2].key} = {STAT_KEY_P1_GOALS, STAT_KEY_P2_GOALS}

(* Gate (b): exactly the two full-match goal stats of a finalised record. *)
GoalStatsOnly(stats) ==
    /\ Len(stats) = 2
    /\ \A i \in 1..2 : stats[i].period = FINALISED_PERIOD
    /\ {stats[1].key, stats[2].key} = {STAT_KEY_P1_GOALS, STAT_KEY_P2_GOALS}

Goals(stats, key) == IF stats[1].key = key THEN stats[1].value
                                           ELSE stats[2].value

(* The strategy pins every proved stat to the value the payload claims.  *)
(* The index of a predicate counts the stats from 0.                     *)
PinsEveryStat(strategy, stats) ==
    /\ ~strategy.geometric_targets
    /\ ~strategy.distance_predicate
    /\ Len(strategy.discrete_predicates) = Len(stats)
    /\ \A i \in 1..Len(stats) :
          LET p == strategy.discrete_predicates[i]
          IN  /\ p.kind = "Single"
              /\ p.index = i - 1
              /\ p.threshold = stats[i].value
              /\ p.comparison = "EqualTo"

(* Gate (c): the roots account of a day.  A roots account is numbered by   *)
(* its day, find_program_address being injective; ForeignAccount stands    *)
(* for any account that is not a daily_scores_roots account of txoracle.   *)
ForeignAccount == MAX_U16 + 1
RootsAccounts == 0..ForeignAccount
EpochDay(min_timestamp) == min_timestamp \div MILLIS_PER_DAY
InRootsRange(min_timestamp) ==
    min_timestamp > 0 /\ EpochDay(min_timestamp) <= MAX_U16
IsRootsAccountOf(roots, min_timestamp) == roots = EpochDay(min_timestamp)

(* txoracle: the payload is a record's, with stats that are leaves of it,  *)
(* committed under the roots account the verifier was given.               *)
Committed(payload, roots) ==
    \E r \in committed :
        /\ r.fixture_id = payload.fixture_id
        /\ r.min_timestamp = payload.min_timestamp
        /\ roots = EpochDay(r.min_timestamp)
        /\ \A i \in 1..Len(payload.stats) : payload.stats[i] \in r.stats

(* txoracle: the Booleans validate_stat_v2 may return.  resolve.rs relies  *)
(* on no more than this: on a canonical roots account, and for a strategy  *)
(* that pins every stat, TRUE means that the stats are committed leaves.   *)
(* With an account that is no roots account, or a looser strategy, the     *)
(* answer may be anything.  An abort of the verifier aborts resolve, like  *)
(* the answer FALSE does.                                                  *)
ValidateStatV2(payload, strategy, roots) ==
    IF roots = ForeignAccount \/ ~PinsEveryStat(strategy, payload.stats)
    THEN BOOLEAN
    ELSE {Committed(payload, roots)}

(* Mutant: outcomes numbered from 1. *)
OutcomeFromOne(p1_goals, p2_goals) ==
    IF p1_goals > p2_goals THEN P1Win + 1
    ELSE IF p2_goals > p1_goals THEN P2Win + 1 ELSE Draw + 1

(* Gate (e). *)
OutcomeOf(p1_goals, p2_goals) ==
    IF p1_goals > p2_goals THEN P1Win
    ELSE IF p2_goals > p1_goals THEN P2Win ELSE Draw

Resolve(f, payload, strategy, roots) ==
    /\ market[f].state = "Open"
    /\ payload.fixture_id = f
    /\ GoalStatsOnly(payload.stats)
    /\ PinsEveryStat(strategy, payload.stats)
    /\ InRootsRange(payload.min_timestamp)
    /\ IsRootsAccountOf(roots, payload.min_timestamp)
    /\ \E verified \in ValidateStatV2(payload, strategy, roots) : verified
    /\ market' = [market EXCEPT
                    ![f].outcome = OutcomeOf(Goals(payload.stats, STAT_KEY_P1_GOALS),
                                             Goals(payload.stats, STAT_KEY_P2_GOALS)),
                    ![f].state = "Resolved"]
    /\ UNCHANGED <<now, position, tokens, committed>>

-----------------------------------------------------------------------------
(* claim *)

WinningPool(mk) == mk.pools[mk.outcome]

(* NotAWinner does not apply when nobody backed the outcome. *)
IsEntitled(mk, p) == WinningPool(mk) = 0 \/ p.outcome = mk.outcome

(* Mutants: rounded up, divided before multiplied, and without the stake. *)
PayoutRoundedUp(mk, p) ==
    IF WinningPool(mk) = 0
    THEN p.amount
    ELSE (p.amount * TotalPool(mk) + WinningPool(mk) - 1) \div WinningPool(mk)
PayoutByRatio(mk, p) ==
    IF WinningPool(mk) = 0
    THEN p.amount
    ELSE p.amount * (TotalPool(mk) \div WinningPool(mk))
PayoutOfOthersStakes(mk, p) ==
    IF WinningPool(mk) = 0
    THEN p.amount
    ELSE (p.amount * (TotalPool(mk) - WinningPool(mk))) \div WinningPool(mk)

(* The stake back when nobody backed the outcome, otherwise the share of   *)
(* the whole pot, rounded down.                                            *)
Payout(mk, p) ==
    IF WinningPool(mk) = 0
    THEN p.amount
    ELSE (p.amount * TotalPool(mk)) \div WinningPool(mk)

(* Every checked operation on the way to the payout succeeds. *)
PayoutFits(mk, p) ==
    WinningPool(mk) # 0 =>
        /\ TotalPool(mk) <= MAX_U64
        /\ p.amount * TotalPool(mk) <= MAX_U128
        /\ Payout(mk, p) <= MAX_U64

WithdrawFromVault(m, o, f, amount) ==
    /\ vault[f] >= amount
    /\ wallet[m][o] + amount <= MAX_U64
    /\ vault' = [vault EXCEPT ![f] = @ - amount]
    /\ wallet' = [wallet EXCEPT ![m][o] = @ + amount]
    /\ UNCHANGED supply

(* Mutants: without AlreadyClaimed, and without NotAWinner. *)
MayClaimAgain(f, o) ==
    /\ market[f].state = "Resolved"
    /\ position[f][o].market = f
    /\ market[f].outcome # NoOutcome
    /\ IsEntitled(market[f], position[f][o])
MayClaimOnEitherSide(f, o) ==
    /\ market[f].state = "Resolved"
    /\ position[f][o].market = f
    /\ ~position[f][o].claimed
    /\ market[f].outcome # NoOutcome

(* A position that may claim: its account exists (the account constraint), *)
(* it has not claimed, and the resolved market owes it something.          *)
MayClaim(f, o) ==
    /\ market[f].state = "Resolved"
    /\ position[f][o].market = f
    /\ ~position[f][o].claimed
    /\ market[f].outcome # NoOutcome
    /\ IsEntitled(market[f], position[f][o])

(* Mutant: the mint account is not the market's. *)
ClaimInAnyMint(o, f, m) ==
    /\ MayClaim(f, o)
    /\ PayoutFits(market[f], position[f][o])
    /\ WithdrawFromVault(m, o, f, Payout(market[f], position[f][o]))
    /\ position' = [position EXCEPT ![f][o].claimed = TRUE]
    /\ UNCHANGED <<now, market, committed>>

Claim(o, f, m) ==
    /\ MayClaim(f, o)
    /\ m = market[f].mint
    /\ PayoutFits(market[f], position[f][o])
    /\ WithdrawFromVault(m, o, f, Payout(market[f], position[f][o]))
    /\ position' = [position EXCEPT ![f][o].claimed = TRUE]
    /\ UNCHANGED <<now, market, committed>>

-----------------------------------------------------------------------------
(* The environment *)

Tick ==
    /\ now < MaxTime
    /\ now' = now + 1
    /\ UNCHANGED <<market, position, tokens, committed>>

(* The faucet's mint authority.  The token program keeps the supply of a   *)
(* mint a u64.                                                             *)
MintTo(m, o, amount) ==
    /\ supply[m] + amount <= MAX_U64
    /\ wallet[m][o] + amount <= MAX_U64
    /\ supply' = [supply EXCEPT ![m] = @ + amount]
    /\ wallet' = [wallet EXCEPT ![m][o] = @ + amount]
    /\ UNCHANGED <<now, market, position, vault, committed>>

(* txoracle commits in-play records, the finalised one, and corrections of *)
(* it, in any order and at any time.                                       *)
PublishScores(r) ==
    /\ r \notin committed
    /\ Cardinality(committed) < MaxCommits
    /\ committed' = committed \cup {r}
    /\ UNCHANGED <<now, market, position, tokens>>

-----------------------------------------------------------------------------
Create == \E f \in Fixtures, m \in Mints, close_ts \in 0..MaxTime :
             CreateMarket(f, m, close_ts)

Bet == \E o \in Owners, f \in Fixtures, m \in Mints, k \in 0..COUNT,
          amount \in Amounts : Place(o, f, m, k, amount)

Settle(f) == \E payload \in Payloads, strategy \in Strategies,
                roots \in RootsAccounts : Resolve(f, payload, strategy, roots)

Collect(o, f) == \E m \in Mints : Claim(o, f, m)

Issue == \E m \in Mints, o \in Owners, amount \in MintAmounts :
            MintTo(m, o, amount)

Publish == \E r \in Records : PublishScores(r)

Next ==
    \/ Create
    \/ Bet
    \/ \E f \in Fixtures : Settle(f)
    \/ \E o \in Owners, f \in Fixtures : Collect(o, f)
    \/ Tick
    \/ Issue
    \/ Publish

Spec == Init /\ [][Next]_vars

(* resolve is permissionless and every bettor claims for itself: somebody  *)
(* keeps submitting the proof, and a winner keeps asking for its payout.   *)
Fairness ==
    /\ \A f \in Fixtures : WF_vars(Settle(f))
    /\ \A o \in Owners, f \in Fixtures : WF_vars(Collect(o, f))

FairSpec == Spec /\ Fairness

-----------------------------------------------------------------------------
(* Correctness.  The amounts the properties talk about, as functions of    *)
(* the owners of the positions of a market.                                *)

IsStaked(f, o) == position[f][o].market = f

Stakes(f, k) ==
    [o \in Owners |-> IF IsStaked(f, o) /\ position[f][o].outcome = k
                      THEN position[f][o].amount ELSE 0]

(* What the market still owes, and what it has paid. *)
Owed(f) ==
    [o \in Owners |-> IF MayClaim(f, o)
                      THEN Payout(market[f], position[f][o]) ELSE 0]

Paid(f) ==
    [o \in Owners |-> IF position[f][o].claimed
                      THEN Payout(market[f], position[f][o]) ELSE 0]

Total(a) == SumUpTo(a, NumOwners)

(* The accounts hold values of their fields' types. *)
TypeOK ==
    /\ now \in Nat
    /\ market \in [Fixtures -> MarketType]
    /\ position \in [Fixtures -> [Owners -> PositionType]]
    /\ vault \in [Fixtures -> 0..MAX_U64]
    /\ wallet \in [Mints -> [Owners -> 0..MAX_U64]]
    /\ supply \in [Mints -> 0..MAX_U64]
    /\ committed \subseteq Records

(* The accounts agree with each other: a market has an outcome exactly     *)
(* when it is resolved, nothing is staked in a market that does not exist, *)
(* a Position account belongs to the market its address derives from, and  *)
(* only a position the resolved market owes something has claimed.         *)
MarketAgrees(f) ==
    /\ market[f].state = "Absent" => market[f] = AbsentMarket
    /\ market[f].state # "Absent" => market[f].mint \in Mints
    /\ market[f].outcome # NoOutcome <=> market[f].state = "Resolved"

PositionAgrees(f, o) ==
    /\ position[f][o].market \in {NoKey, f}
    /\ IsFresh(position[f][o]) => position[f][o] = FreshPosition
    /\ IsStaked(f, o) => market[f].state # "Absent"
    /\ position[f][o].claimed =>
          /\ market[f].state = "Resolved"
          /\ IsStaked(f, o)
          /\ IsEntitled(market[f], position[f][o])

AccountsAgree ==
    /\ \A f \in Fixtures : MarketAgrees(f)
    /\ \A f \in Fixtures, o \in Owners : PositionAgrees(f, o)

(* The pools, which place maintains and claim divides by, are at every     *)
(* moment the sums of the positions backing each outcome.                  *)
PoolsMatchPositions ==
    \A f \in Fixtures, k \in Outcomes :
        market[f].pools[k] = Total(Stakes(f, k))

(* The vault holds exactly what was staked less what claim has paid: no    *)
(* handler loses or creates escrowed tokens.                               *)
EscrowExact ==
    \A f \in Fixtures : vault[f] + Total(Paid(f)) = TotalPool(market[f])

(* Whatever the order in which the winners claim, the vault covers all the *)
(* payouts that claim still owes.                                          *)
Solvency ==
    \A f \in Fixtures : Total(Owed(f)) <= vault[f]

(* Rounding every payout down leaves less than one base unit per winner in *)
(* the vault, and nothing at all when every stake is handed back.          *)
DustBound ==
    \A f \in Fixtures :
        market[f].state = "Resolved" =>
            LET dust == vault[f] - Total(Owed(f))
                winners == {o \in Owners : /\ IsStaked(f, o)
                                           /\ position[f][o].outcome = market[f].outcome}
            IN  IF WinningPool(market[f]) = 0 THEN dust = 0
                ELSE dust < Cardinality(winners)

(* A claim the program should honour cannot fail: none of the checked u64  *)
(* and u128 operations overflows, and neither token transfer bounces.      *)
ClaimNeverFails ==
    \A f \in Fixtures, o \in Owners :
        MayClaim(f, o) =>
            LET payout == Payout(market[f], position[f][o])
            IN  /\ PayoutFits(market[f], position[f][o])
                /\ payout <= vault[f]
                /\ wallet[market[f].mint][o] + payout <= MAX_U64

(* Being right never costs anything: a position that may claim gets at     *)
(* least its stake.                                                        *)
WinnerNeverLoses ==
    \A f \in Fixtures, o \in Owners :
        MayClaim(f, o) =>
            Payout(market[f], position[f][o]) >= position[f][o].amount

(* The outcome of a market is that of a final score of its own fixture     *)
(* that txoracle has committed: of a record that holds both full-match     *)
(* goal stats with the period of a finalised record.                       *)
GoalStat(key, goals) ==
    [key |-> key, period |-> FINALISED_PERIOD, value |-> goals]

IsFinalScore(r, f, p1_goals, p2_goals) ==
    /\ r.fixture_id = f
    /\ GoalStat(STAT_KEY_P1_GOALS, p1_goals) \in r.stats
    /\ GoalStat(STAT_KEY_P2_GOALS, p2_goals) \in r.stats

OutcomeProved ==
    \A f \in Fixtures :
        market[f].state = "Resolved" =>
            \E r \in committed : \E s1, s2 \in r.stats :
                /\ IsFinalScore(r, f, s1.value, s2.value)
                /\ market[f].outcome = OutcomeOf(s1.value, s2.value)

(* Tokens are neither created nor destroyed: the owners' balances and the  *)
(* vaults of a mint add up to its supply.                                  *)
TokensConserved ==
    \A m \in Mints :
        Total(wallet[m])
        + SumUpTo([f \in Fixtures |-> IF market[f].mint = m THEN vault[f] ELSE 0],
                  NumFixtures) = supply[m]

(* Funds enter a vault only while the market is open for stakes, and leave *)
(* it only as the payout of one position that had not claimed, to that     *)
(* position's owner, once the market is resolved (state.rs:5-6).           *)
VaultStep ==
    \A f \in Fixtures :
        /\ vault'[f] > vault[f] =>
              market[f].state = "Open" /\ now < market[f].close_ts
        /\ vault'[f] < vault[f] =>
              \E o \in Owners :
                  /\ MayClaim(f, o)
                  /\ position'[f][o].claimed
                  /\ vault[f] - vault'[f] = Payout(market[f], position[f][o])
                  /\ wallet' = [wallet EXCEPT ![market[f].mint][o] =
                                  @ + vault[f] - vault'[f]]
FundsMoveOnlyAsPromised == [][VaultStep]_vars

(* A resolved market is final: its outcome and pools, and the sides and    *)
(* stakes of its positions, never change again, so that what a position is *)
(* paid does not depend on when it claims; and a claim is never undone.    *)
FinalStep ==
    \A f \in Fixtures :
        market[f].state = "Resolved" =>
            /\ market'[f] = market[f]
            /\ \A o \in Owners :
                  \E claimed \in {TRUE, position[f][o].claimed} :
                      position'[f][o] = [position[f][o] EXCEPT !.claimed = claimed]
ResolvedIsFinal == [][FinalStep]_vars

(* A bettor's position only ever grows, on the side first chosen, and only *)
(* by what its owner pays into the vault in the same step.                 *)
PositionStep ==
    \A f \in Fixtures, o \in Owners :
        /\ IsStaked(f, o) =>
              position'[f][o].outcome = position[f][o].outcome /\ IsStaked(f, o)'
        /\ position'[f][o].amount # position[f][o].amount =>
              LET staked == position'[f][o].amount - position[f][o].amount
              IN  /\ staked > 0
                  /\ vault'[f] = vault[f] + staked
                  /\ wallet'[market[f].mint][o] = wallet[market[f].mint][o] - staked
PositionsOnlyGrow == [][PositionStep]_vars

(* A final score a resolver could prove is on chain. *)
FinalScoreProvable(f) ==
    \E payload \in Payloads, strategy \in Strategies, roots \in RootsAccounts :
        /\ payload.fixture_id = f
        /\ GoalStatsOnly(payload.stats)
        /\ PinsEveryStat(strategy, payload.stats)
        /\ InRootsRange(payload.min_timestamp)
        /\ Committed(payload, roots)

(* Once a final score is on chain every stake gets its due: the market     *)
(* resolves, and each position is paid unless it lost.  No other claim and *)
(* no state of the token accounts can hold a payout up for ever.           *)
EveryStakeGetsItsDue ==
    \A f \in Fixtures, o \in Owners :
        (IsStaked(f, o) /\ FinalScoreProvable(f)) ~>
            /\ market[f].state = "Resolved"
            /\ position[f][o].claimed \/ ~IsEntitled(market[f], position[f][o])
=============================================================================
