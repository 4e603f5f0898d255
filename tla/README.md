# txsettle, specified and verified

TLA+ models of [txsettle](../src/README.md): a parimutuel 1X2 prediction market on Solana
that settles on Merkle proofs of the final score, its TypeScript SDK, its web app and its
devnet script. TLC checks the models on small instances; TLAPS proves the safety properties
of the market program (for every number of fixtures, bettors and mints, every stake and every
integer width), that it implements an abstract parimutuel market, and the safety of everything
around it: the SDK, the web app's cards, page, caches and searches, the faucet, and the devnet
script. Every invariant and every action property that a passing run checks is also a theorem.

## 1. Inventory

| part | code | state | operations |
|---|---|---|---|
| market program | `programs/txsettle_market` | one `Market` account and one vault per fixture, one `Position` per market and bettor | `create_market`, `place`, `resolve`, `claim` |
| TxLINE client | `packages/sdk/src/txline.ts` | the guest JWT, the renewal under way | `get` (retry once on 401/403), `renewJwt` |
| proof building | `packages/sdk/src/proof.ts` | none | `getSettlementProof`, `discoverFinalisedSeq`, `deriveEpochDay` |
| pre-verification | `apps/web/lib/settlement.ts`, `packages/sdk/src/verify.ts` | none (what the caller's script keeps) | `preVerify`, simulation of `validate_stat_v2` |
| fixtures cache | `apps/web/lib/fixtures.ts`, `components/markets-section.tsx` | per tab: the load that is kept, what the page shows of names and markets | `getFixtures`, the list of markets and its retry |
| settlement views | `apps/web/lib/settlement.ts`, `components/resolve-card.tsx`, `components/proof-panel.tsx` | per tab: the proof cache, the step of the card, the proof and verdict of the panel | `run`, `load`, `verify` |
| faucet | `apps/web/app/api/faucet/route.ts`, `lib/rpc.ts` | in memory: times of the drips of every wallet and IP | `POST`, with retries |
| settlement search | `apps/web/lib/settlement.ts` (`findResolveTx`) | localStorage: the transaction found for a market | search, at every load of a proof panel |
| market page | `components/market-detail.tsx`, `place-bet.tsx`, `claim-card.tsx`, `lib/markets.ts` | what was last read of the market, the position and the funds | load, refresh, place, claim |
| devnet script | `scripts/e2e-devnet.ts` | keys and mint of one invocation, in memory | create, fund, two bets, tampered proof, resolve, claims |

How they interact: the web app calls TxLINE through the SDK, whose calls share one JWT; it
builds a proof, simulates the verifier of the external program *txoracle*, and sends
`resolve`, which calls txoracle again and reads its verdict from the return data. Anybody
else may send `resolve` too. The faucet mints the token that stakes are denominated in.
Everything else between the parts is state on the chain, read late and written by anyone.

What is hard, and what makes each part correct:

* **market program.** Every transaction is atomic, but anybody may send any of them at any
  time. The pools, the positions and the vault are three records of the same money;
  payouts are rounded one by one and paid in any order; the proof, the strategy and the
  roots account all come from a caller nobody trusts. Correct means: the three records
  agree, the vault covers what is owed, an outcome is a committed final score, nothing
  changes after the resolution, and no claim that is due can fail.
* **faucet.** The check and the record lie on the two sides of an await of many seconds; a
  transaction that seems to have failed may have landed; the map is pruned while it is
  used. Correct means: the map counts exactly the drips that still count, and nobody who has
  been served is admitted again. That a wallet gets one drip per cooldown is what the comments
  say, and not so.
* **TxLINE client.** Calls that are refused meet renewals other calls have started. Correct
  means: nobody retries with the JWT that was refused, the JWT never gets older, and a
  failed renewal is forgotten.
* **fixtures cache.** A load is two calls of the client, is shared by all pages of a tab, and is
  given up when one call fails while the other goes on. Correct means: no page waits for a
  load that has been given up or is handed an old failure, and a page hears of its load if
  TxLINE answers.
* **pre-verification.** A verdict is made of two reads at different times, of a proof that may be
  of any record, and not of the one asked for, and is acted on later. Correct means: TRUE speaks
  of published data, and what the program asks beyond it is known in full.
* **devnet script.** It may be killed between any two calls and run again, on a market anybody acts
  on. Correct means: what it submits to see it rejected is rejected in every state, the
  winner gets what it says, and some later invocation gets to the end.
* **settlement flow.** Cached proofs, a feed that may correct itself, and rival resolvers.
  Correct means: what the app has verified the program accepts, what a panel shows agrees
  with the outcome, and a finished match gets settled whatever fails on the way.
* **settlement search.** The history of a market holds failed attempts of rival resolvers and
  transactions about other markets, and a search sees only the newest page of it. Correct
  means: what is found settled the market, and a settlement within the page is found. The
  first holds only of transactions that deal with one market.
* **market page.** Nothing is pushed to the page and no read is cancelled: what it shows mixes
  states of different times. Correct means: what it offers is honoured all the same. That
  the position shown is the connected wallet's is what the cards say, and not always so.

`PROJECT.json` lists the hazards one by one, at the line where they bite.

## 2. The modules

| module | models | its proofs / instances |
|---|---|---|
| `PrefixSums` | the sum of an account function over accounts `1..n` | `EscrowProofs` |
| `TxsettleMarket` | the market program and its environment | `TxsettleMarketProofs`, `EscrowProofs`, `PromiseProofs`; `MCTxsettleMarket` |
| `Parimutuel` | what a market promises, without accounts, proofs or clock | |
| `MarketRefinement` | that the program keeps the promise | `PromiseProofs`; `MCTxsettleMarket` |
| `SdkProof` | what the SDK makes of a score record, and the gates it meets | (part of the next three) |
| `PreVerify` | a user of the SDK: `getSettlementProof`, `preVerify`, submission | `SdkProofs`; `MCPreVerify` |
| `SettlementFlow` | the tabs, the SDK and the feed, on top of `TxsettleMarket` | `SdkProofs`; `MCSettlementFlow` |
| `DevnetScript` | the devnet script, its kills and re-runs, and other people | `SdkProofs`; `MCDevnetScript` |
| `Faucet` | the faucet's route handler | `FaucetProofs`; `MCFaucet` |
| `TxLineClient` | the REST client and its shared JWT | `FixturesProofs`; (run within `MCFixtures`) |
| `Fixtures` | the fixtures cache and the pages that use it, over `TxLineClient` | `FixturesProofs`; `MCFixtures` |
| `ResolveTxSearch` | `findResolveTx` and the ledger it searches | `ResolveTxSearchProofs`; `MCResolveTxSearch` |
| `MarketPage` | the page of a market and its cards, on top of `TxsettleMarket` | `MarketPageProofs`; `MCMarketPage` |

Operators marked *Mutant* in a comment are wrong versions of the operator that follows
them. No specification uses them: they are put in its place to see that a property fails.

### TxsettleMarket

An action is one successful transaction. A handler that returns an error, or a CPI that
aborts, is rolled back, so every `require!`, `checked_*` and account constraint is a
conjunct of the action, and a failed transaction is no step. `create_market`, `place`,
`resolve` and `claim` are `CreateMarket`, `Place`, `Resolve` and `Claim`, with their
arguments chosen in `Create`, `Bet`, `Settle` and `Collect`. `market`, `position` and
`vault` are the accounts of the program; `wallet` and `supply` are the token program's.

* Keys are numbers. A PDA is identified by its seeds, so `position[f][o]` is the account of
  seeds `["pos", market f, owner o]`, and a roots account is the number of its day;
  `ForeignAccount` stands for every account that is not one. `owner`, `vault` and `bump` fields
  only repeat what the seeds say, and are left out.
* The conversions are modelled by what they do: the integer division that makes a day of a
  timestamp and its `u16` range, the widths of `checked_add` and `checked_mul` and of
  `u64::try_from`. `MAX_U128` is the largest value of twice as many bits as `MAX_U64`.
* txoracle is external. `ValidateStatV2` is all that `resolve.rs` relies on: on a canonical
  roots account, with a strategy that pins every stat, TRUE means the stats are leaves of a
  committed record. With a looser strategy, or another account, it may answer anything.
* Each owner has one token account per mint. The handlers accept any token account of the
  owner's, which changes nothing the properties see.

### Faucet

The handler is atomic between two awaits. `Arrive` runs from the body to the first
`sendAndConfirmTransaction`, `Confirm` from its success to the answer, `Fail` is a throw of an
attempt and `Resend` the end of a back-off. An attempt is a transaction of its own that may
land before, after or without the answer the handler gets. The map keeps the drips of a key as a
set of times, each named by its request, where the code keeps a list of times: the code only filters and
counts the list, never looks at its order, and two drips in one millisecond are two there as here.

### TxLineClient

`Start` is `getJwt` with the first request or the renewal, `Retry` the branch on 401/403,
`Finish` the rest of `get`, and `Settle` the end of the POST in `renewJwt`, with its `finally`
and the calls that await it. Those run in one batch of microtasks, in which no answer can
arrive. The server hands out JWTs `1, 2, ...`, and lets any of them expire at any moment.

### Fixtures

The state of the client is that of `TxLineClient`, and every step of the composition is a step
of the client or leaves it alone. A load `l` is a call of `loadFixtures`, and `CallsOf[l]` its two
snapshots. `PromisesSettle` is what JavaScript does in the turn in which a call settles:
`Promise.all` of the load, the `catch` that clears `fixturesPromise`, and the page's `then` or `catch`.
`OpenList` and `RetryList` are `MarketsSection`, `OpenMarket` and `AskAgain` a page of one market,
which asks again whenever it has read the market. Which fixtures a snapshot holds is left out.

### SdkProof, PreVerify

`SettlementProof` is the end of `getSettlementProof` when the server has proved what it was asked
for: it builds the very payload, strategy and roots account that `Resolve` of TxsettleMarket checks,
so that SDK and program are compared with each other. `ProofOf` is its last part, from a payload on. `PreVerify` splits `getSettlementProof` (snapshot, validation) and `preVerify` (roots
account, view) at their awaits; `Requests` are its parameters, with a `seq` and stat keys or without. `SeqArrives` and `ProofArrives` are the two answers
of TxLINE, `RootsArrive` and `ViewArrives` those of the RPC node. `buildValidationPayload` only counts
the stats of the answer, so `ProofArrives` takes any payload with as many stats as were asked for:
of another record, another fixture, other keys, or of nothing that was ever committed. An error
in `preVerify` is the verdict FALSE. In between, anybody takes the steps of TxsettleMarket.

### DevnetScript

`pc` is the call the invocation awaits. The script's own calls are `Place`, `Resolve`, `Claim` ... of
TxsettleMarket; one that is not enabled is refused, which ends the invocation (`Refused`), as does
`Crash`. `expectProgramError` goes on whatever happens, and so do `TamperedIsRejected`, `LoserIsRejected`
and `SecondClaimIsRejected`: if the call can succeed, it does. A new invocation (`Invoke`) has new
bettors and, if it creates the market, a new mint; others have their own. `OneScoreAssumption` says of
txoracle that what it has committed at the time of the record the script proves tells of one final
score only: with two, the tampered proof might be a true one.

### SettlementFlow

`cache`, `card` and `panel` are `proofCache`, `ResolveCard` and `ProofPanel` of a tab, each with
the stage its code has reached. `MarketStep` lets all others act on the market. TxLINE
proves what it is asked for here, as it does for the script; `PreVerify` is where it need not. A
change of wallet while a panel loads shares the fetch under way, and is not a step.

### ResolveTxSearch

`SearchStart` runs to the first await or answers from localStorage, `SignaturesArrive` and `TxArrives`
are the two awaits of the loop, and `SearchFails` a throw of either. `Candidates` is the page of
signatures without the failed ones. A transaction is the set of markets it lists and the
set of those it resolves; a node knows a prefix of the ledger and may lack a transaction.

### MarketPage

`publicKey`, `view`, `marketError` and `shown` are the wallet and the states of `MarketDetail`; `reads` is a
bag, since two reads of the same thing may be under way. A read is asked, served and
arrives in three steps, in any order with others. `LoadUser` is the effect React runs when the
wallet or the market changes, `RefreshAll` the cards' `onDone`, with the wallet it captured. `shown`
also remembers whose position it is, which the code does not, for the properties. A card waits for one
transaction at a time (`sent`), but only for as long as it is on the page: an error, or a market that
turns out to be resolved, unmounts it (`Unmount`), and when it comes back it is idle while what it had
sent is still under way (`left`) and will refresh the page when it succeeds.
The funds only keep a user from sending what would fail, and are left out.

### Parimutuel and MarketRefinement

`Parimutuel` knows bets, a result, payments and a pot; every amount is computed from the bets.
`MarketRefinement` maps the bets to positions, the pot to the vault, a payment to a claimed
position. Accounts, pools, mints, the clock and the proofs are hidden.

## 3. What the runs check

| run | shows | bounds |
|---|---|---|
| `Funds` | type, agreement of the accounts, pools, escrow, solvency, dust, no failing claim, no losing winner; funds move as promised, resolved is final, positions only grow; the program implements `Parimutuel`; every stake gets its due | 1 fixture, 3 bettors with 3 units, stakes 0, 1, 2, any of three results, widths that just hold the supply, fair resolve and claims |
| `Resolution` | the outcome is a committed final score; a TRUE of `preVerify` is committed, and covers the gates of `resolve` but for what is named | 2 fixtures; in-play, final, corrected, foreign and epoch-0 records; every payload, strategy and roots account anybody may submit; 6 requests to the SDK, each answered with any of the payloads |
| `DevnetScript` | what must be rejected is; the winner takes the pot; tokens are conserved; re-runs get to the end | 3 invocations, 1 crash, 1 other bettor with a token and a mint of its own, an in-play record beside the final one |
| `Faucet` | the record is exact; who was served waits | 3 requests with 1 retry each, 2 wallets, 2 IPs, 2 ticks and a cooldown of 2, pruning above 1 entry, 1 restart |
| `OneDrip` | *violated*: one drip per wallet | 2 requests, 1 retry |
| `TxLineClient` | renewals are shared, live, and never stale; names or a reason; a page hears of its load | 2 loads of 2 calls each, 2 JWTs, the list and a page of a market |
| `Settlement` | sent proofs are accepted; panels agree with the only final score; a finished match gets settled | 1 tab, a feed of 3 records with in-play, final, unnumbered and corrected ones |
| `PanelOutcome` | *violated*: a verified panel proves the outcome | as `Settlement` |
| `ResolveTxSearch` | a found transaction settled a market; a recent settlement is found | 2 searches, 2 markets, 3 transactions, a page of 2 signatures |
| `ForeignResolve` | *violated*: a found transaction resolved this market | as `ResolveTxSearch` |
| `MarketPage` | offers are honoured; locked bets keep their side | 2 bettors with 2 units, one of them the user, the other of whom stakes once; 2 reads and 2 transactions under way |
| `OwnPosition` | *violated*: a page at rest shows the connected wallet's position | as `MarketPage`, with 2 wallets and 1 transaction under way |

Why these bounds: rounding dust needs a pool that does not divide the pot and a second
winner, for which three bettors and stakes of 1 and 2 suffice; a third bettor makes the order
of the claims matter, and a supply of 9 with `MAX_U64 = 9` puts every sum at its limit. The
gates of `resolve` need a record of each kind beside the good one, and a second fixture and
record to be confused with; that tokens of one mint are not paid for another needs several mints,
and `DevnetScript` has one for each invocation and one of others. Three drips are needed for a prune between two others; four calls
let one start a renewal, a second share it, and the other two belong to a load that starts while a
failed one still runs. Three invocations of the script are one that is killed, one that meets what that
left, and one more after others have come in between. With a page of 2 signatures
and 3 transactions a settlement may be the last of the page or just off it. Two units let
the position grow between two reads, and two reads under way may arrive in the other order; two
transactions under way are a card that has been mounted again and sends while what it sent before has
not ended (`RivalStakesOnce` keeps the run small: only the page's wallet needs to stake twice); one
connected wallet is enough for the two properties, which are about its own position. All runs set
`CHECK_DEADLOCK FALSE`: the clock, the supply, the feed and the requests are bounded, and a
system with nothing left to do stops. `Faucet` treats wallets, IPs and requests as
interchangeable and `ResolveTxSearch` searches and markets, which they are; neither has a
liveness property.

### Fairness

`Funds`: weak fairness of each market's `Settle` and of each position's `Collect`. Anybody may
send `resolve`, and a bettor keeps claiming. Both stay enabled until they succeed, which is
what the property is about.

`TxLineClient` (`FairFixturesSpec`): weak fairness of the client's own steps, which run as soon as
JavaScript gets to them. Nothing is assumed of TxLINE: that requests under way are answered or fail some
time (`ServerAnswers`) is a hypothesis of `PageHears`. Nothing is assumed of the read of the markets
either, and nothing claimed of it: `withRetry` bounds its attempts and not their time, so it may hang.

`DevnetScript` (`FairScriptSpec`): somebody invokes the script until one invocation has got through, and an
invocation that is not killed takes its next step or is refused. Kills are bounded.

`Settlement`: somebody keeps running the card (weak), and no step of it fails every time
it is tried (strong, since a failure disables the step until the next try); txoracle commits
what the feed has published.

### Disagreements between the code and its comments

Four are shown by a run that must find a violation:

1. **One drip per wallet** (`route.ts:7` and `:22`). `OneDrip`: two requests that arrive before
   either is recorded both mint. With a single request the property fails as well: a lost
   answer makes `withRetry` (`rpc.ts`, "Read-path resilience") send a second mint. What does hold is `ServedMustWait`: nobody who has
   *already been answered* is admitted within the cooldown.
2. **The proof of the outcome** (`proof-panel.tsx:20`, `:71`). `PanelOutcome`: the SDK proves the newest
   `game_finalised` record, which a test says may repeat, and the market keeps the outcome of
   the one it was settled with. With a correction in between, a panel shows a verified score
   that contradicts the outcome beside it. `PanelAgreesWithOnlyFinal` is what holds.
3. **The settlement transaction** (`settlement.ts:90`). `ForeignResolve`: `findResolveTx` takes the newest
   transaction of the market with *any* resolve instruction, so one that claims from this
   market and resolves another is shown, and stored, as its settlement. `FoundTxSettled` is what holds.
4. **Your position** (`claim-card.tsx:64`, `place-bet.tsx:37`). `OwnPosition`: when the wallet changes, an answer for
   the wallet before may arrive last, and stays: the page shows a stranger's position, and
   the picker is locked to its side. `LockedBetsKeepSide` and `OffersAreHonoured` hold of the position's owner.

Four more were met while modelling, and are part of the models:

5. **"The exact same check"** (`verify.ts:8`). `resolve` asks more than the verifier: the stats must be the two
   full-match goal stats of a finalised period, and the timestamp positive. With a `seq` or
   stat keys of one's own a TRUE says nothing of these; and since the SDK does not compare the answer of
   TxLINE with what it asked for, a TRUE may be of another record or fixture altogether.
   `VerdictCoversResolve` names all the exceptions.
6. **"Safe to re-run"** (`e2e-devnet.ts:16`). A later invocation does get to the end (`RerunsEnd`), but the bettors of a
   killed one were keys in memory: what they had staked and won is lost, and `WinnerTakesPot`
   needs the condition that nobody else, earlier invocations included, has staked.
7. **`expectProgramError`** (`e2e-devnet.ts:68`). It catches the error it throws itself when a transaction
   succeeds, and that error's text names the codes it looks for, so a success is printed as a
   rejection. `RejectionsHold` shows that none succeeds.
8. **"The whole tournament"** (`fixtures.ts:30`). Two snapshots from 30 days back to 29 days ahead miss the ends of a
   tournament that is longer than that. Which fixtures a snapshot holds is not modelled.

## 4. What is proved

Every property of a passing run but the four liveness properties is a theorem. The theorems hold for all
values of the constants that satisfy the named assumptions of the modules. Those of `TxsettleMarket`:
the counts are naturals, the widths positive, the initial supply of a mint fits a `u64`, and
records, payloads and strategies have their types.

### The program

The lemmas are about `ChainNext`: any instruction with any arguments, where `Next` lets
the environment choose from the sets TLC enumerates. The script, the page and the SDK's users take
steps of the program too, and some with arguments of their own; what is proved of `ChainNext` serves them
all, and what the program promises carries over to them (`FlowKeepsFundsInPlace`, `PageKeepsFundsInPlace`,
`ScriptConservesTokens`).

* `TxsettleMarketProofs`: `TypeCorrect`, `AccountsAlwaysAgree`, `OutcomeAlwaysProved`,
  `FundsAlwaysMoveAsPromised`, `ResolvedAlwaysFinal`, `PositionsAlwaysGrow`. `TypeOK` is inductive by itself
  and is the base of the others. `AccountsAgree` is inductive with it; each action has a lemma that says
  what it does to the one market and position it touches. `OutcomeProved` rests on
  `ResolveProvesScore`: the gates leave only `TRUE` of a pinned strategy on a canonical roots
  account, which is `Committed`. The action properties follow from type and agreement.
* `EscrowProofs` begins with lemmas about `SumUpTo` (congruence, one changed summand, addition,
  monotonicity, scaling, constants), from a lemma of induction over an interval stated for *sets*. From
  them `FloorSharesFit`: if the stakes of the winners add up to `w`, the rounded shares
  `(s[i] * t) \div w` add up to at most `t`; and `FloorSharesNearlyFill`: if there are any, they fall
  short of it by less than one unit for each. `PoolsAlwaysMatch` and `EscrowAlwaysExact` are by induction on
  top of `TypeOK` and `AccountsAgree`. That the accounts agree is needed: that an unresolved market has paid
  nothing, and that a position that has not been created holds nothing, are parts of it.
  `AlwaysSolvent` is not inductive and follows from the other two: what is paid and what is
  owed are shares of one pot at disjoint sets of owners, so their total is at most the pot by
  `FloorSharesFit`, and the vault is the pot less what is paid. `WinnersNeverLose` follows because a winning pool is
  at most the whole pot.
* `PromiseProofs`: `TokensAlwaysConserved`, by induction: wallets and the vaults of a mint's markets add up
  to its supply. `ClaimsNeverFail` needs one more invariant, `PotFits`: a pot fits a `u64`, which holds while
  the vault holds all of it and is frozen from then on. Then the `u128` product fits, the payout is at most the vault
  by solvency, and the wallet takes it because wallet and vault are parts of one supply. `DustAlwaysBounded`
  follows from the exact escrow and `FloorSharesNearlyFill`. `ProgramKeepsPromise` is that `TxsettleMarket`
  implements `Parimutuel`, with the invariant `AccountsInv`: type, agreement, pools and escrow,
  and `StakesArePositive`. It is needed because the promise computes
  stakes from the bets where the program keeps pools, and because only a positive stake is due
  anything. `Create` maps to a stutter, `Place` to `Bet`, `Resolve` to `Decide`, `Claim` to `Pay`, the clock to `Close`.

### Those who settle with the SDK (`SdkProofs`)

All three users share a few lemmas about `SettlementProof`: its strategy pins every stat, so the verifier
says TRUE of it exactly if its stats are committed leaves; its roots account is the canonical one of
its timestamp; and of a final record it has the shape `Resolve` asks for. `committed` only grows.

* `PreVerify`: `VerdictAlwaysCommitted`, `VerdictAlwaysCoversResolve`, `SdkSettlesOnCommittedScores`. `SdkInv` says,
  stage by stage, which request the script is at, that the record asked for is a final one of the fixture if
  no `seq` was given, that a proof is `ProofOf` *some* payload with as many stats as were asked for, and that a
  TRUE is committed. Whether the payload answers the request only decides which exceptions apply.
* `SettlementFlow`: `SentProofsAlwaysAccepted`, `PanelAlwaysAgrees`, `FlowSettlesOnCommittedScores`, `FlowKeepsFundsInPlace`. `FlowInv` says of
  every cached or fetched proof that it is that of *some* finalised record of the fixture, since
  the feed may correct itself afterwards; of a card about to send, and of a verified panel, that the proof
  is committed; and of the outcome that it is proved. That two committed final outcomes of a fixture are
  the same when there is only one is what ties panel and market together.
* `DevnetScript`: `RejectionsAlwaysHold`, `WinnerAlwaysTakesPot`, `ScriptConservesTokens`. `ScriptInv` says what the two bettors of the running
  invocation have in the market and in their wallets at each call, that bettors of invocations to come have done nothing,
  and that market and mint belong together; escrow, pools, agreement and conservation are part of it. Others move the market in between, so
  one lemma shows that whatever spares the bettors and keeps the market's mint and result keeps it. The pot then goes to
  the winner because a sum with one non-zero summand is that summand, and the vault is the pot less what is paid.

### The market page (`MarketPageProofs`)

`OffersAlwaysHonoured`, `LockedBetsAlwaysKeepSide`, `PageKeepsFundsInPlace`. `PageInv` says that whatever the page shows, reads or sends
is the *past* of the program: a market once seen resolved is the market of now, a position once seen has
kept its side and lost no stake. Each step of the program keeps the past a past, by
`ResolvedIsFinal` and `PositionsOnlyGrow`; the page only moves it around. That a payout computed from an old
position is no more than that of the position of now is monotonicity of a floored share.

### The faucet (`FaucetProofs`)

`FaucetTypeCorrect`, `RecordAlwaysExact`, `ServedAlwaysWait`. `FaucetInv` adds to the type that every answer 200 belongs to a
request that is served, at a time that has been, that the live drips of the map are those answers, key by key, and that a
back-off leaves an attempt. The exactness of the map is kept by a prune because the entries
it removes have nothing live, and by a tick because a drip that has expired stays expired.

### TxLINE client, fixtures cache, settlement search

* `FixturesProofs`: of the client `ClientTypeCorrect`, `RenewalAlwaysLive`, `RetriesAlwaysNewer`, `JwtAlwaysForward`, for any number of calls.
  None of them is inductive. What they rest on is `Fresh`: only the renewal kept is under way, its JWT is newer
  than the client's, and that one is at least as new as any a call was sent or refused with.
  `PagesUseTheClient`, that the composition implements `TxLineClient`, from which its
  invariants carry over (`PagesRenewOnce`); and `NamesAlwaysOrReason`, with the invariant that the load a page
  waits for is pending and the one that is kept.
* `ResolveTxSearchProofs`: `FoundAlwaysSettled` and `RecentAlwaysFound`, for any ledger, page size and number of
  searches. The invariant `SearchInv` says that a search that has missed no answer has all the
  resolves of its page still to look at, and that a ledger that grows changes no page already read.

### Only model-checked

Liveness under fairness, which the prover does not reach: `EveryStakeGetsItsDue`, `FinalisedMarketSettles`, `RerunsEnd`,
`PageHears`. The four properties the code violates have their counterexamples from TLC and no theorem.
`PrefixSums` sums with a recursive function; that its value is a sum is its definition and not
proved, only what follows from it by induction over an interval.

## 5. What is not modelled

* Failed transactions, fees and rent, and their balance in SOL.
* Tokens sent to a vault past the program, the freeze authority of a mint, and closed token
  accounts: all of them are powers of others over SPL accounts the program has no code for.
* A market whose match never gets a final record. Its stakes stay in the vault for ever; the
  liveness properties are stated under the condition that a final score can be proved.
* In the feed: that a final record lacks a goal stat, or in `SettlementFlow` dates from before the
  epoch (`FeedAssumption`); `PreVerify` has one that does.
* In `SettlementFlow` and `DevnetScript`: a TxLINE that answers with a proof of something else than it was
  asked for. `PreVerify` has one.
* A read of the RPC node that never ends: `withRetry` (`lib/rpc.ts`) has no timeout, and a list or a page
  whose read hangs keeps its spinner.
* On the market page: the funds and the faucet's button (`MarketPage` says why; four reads under way
  instead of two are also out of TLC's reach here), and an RPC node that answers with a state older
  than the question.
* Which fixtures a snapshot of TxLINE holds, and on which day it is taken.
* A resolve made by CPI from another program, which `findResolveTx` does not see.
* In the devnet script: the SOL it hands out and the token accounts it opens.
* Presentation and configuration, tests, generated interfaces: none of them keeps state of its own.

## 6. Plan

Done: every part of the system that keeps state, the market page but for its funds, the promise and
the refinement with its proof, and a theorem for every safety property. What could still be added:

1. Small abstract specifications for the faucet (a limiter that admits a request or not) and for the fixtures
   cache (one load at a time), with their refinement proofs, and what follows for the faucet from `ServedMustWait`:
   a bound on what one wallet can have minted.
2. What of the liveness is safety: that a claim that is due stays due until it is paid, that a market that can be settled
   stays so until it is, and that a script that is not killed is never refused before its end unless others got in its way.
3. The funds on the market page, a node that lags behind, and two tabs in `SettlementFlow`.
