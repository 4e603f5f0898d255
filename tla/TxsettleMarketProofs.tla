------------------------ MODULE TxsettleMarketProofs ------------------------
(***************************************************************************)
(* Proofs about TxsettleMarket, for every number of fixtures, owners and   *)
(* mints, every width of the machine integers, and every set of records,   *)
(* payloads and strategies.                                                *)
(***************************************************************************)
EXTENDS TxsettleMarket, TLAPS

(* The typed inputs of the actions. *)
LEMMA Inputs ==
    /\ NumFixtures \in Nat /\ NumOwners \in Nat /\ NumMints \in Nat
    /\ MaxTime \in Nat
    /\ MAX_U64 \in Nat \ {0} /\ MAX_U16 \in Nat
    /\ MILLIS_PER_DAY \in Nat \ {0}
    /\ Amounts \subseteq Nat /\ MintAmounts \subseteq Nat
    /\ InitialBalance \in Nat
    /\ NumOwners * InitialBalance \in Nat
    /\ NumOwners * InitialBalance <= MAX_U64
    /\ NumOwners # 0 => InitialBalance <= MAX_U64
    /\ Records \subseteq RecordType
    /\ Payloads \subseteq PayloadType
    /\ Strategies \subseteq StrategyType
<1>1. NumOwners \in Nat /\ InitialBalance \in Nat
    BY CountsAssumption, TokensAssumption
<1>2. NumOwners * InitialBalance \in Nat
    BY <1>1
<1>3. NumOwners # 0 => InitialBalance <= NumOwners * InitialBalance
    BY <1>1
<1>. QED
    BY <1>1, <1>2, <1>3, CountsAssumption, WidthAssumption, TokensAssumption, ProofsAssumption

-----------------------------------------------------------------------------
(* A transaction may carry any amount, close, payload, strategy and account. *)
(* Next tries those of the constants; the web app and the scripts send      *)
(* others.  The proofs are about every transaction there could be, so that  *)
(* they carry over to whatever drives the program.                          *)

AnyCreate == \E f \in Fixtures, m \in Mints, close_ts \in Int :
                CreateMarket(f, m, close_ts)

AnyBet == \E o \in Owners, f \in Fixtures, m \in Mints, k \in 0..COUNT,
             amount \in Nat : Place(o, f, m, k, amount)

AnySettle(f) == \E payload \in PayloadType : \E strategy, roots :
                   Resolve(f, payload, strategy, roots)

AnyIssue == \E m \in Mints, o \in Owners, amount \in Nat : MintTo(m, o, amount)

ChainNext ==
    \/ AnyCreate
    \/ AnyBet
    \/ \E f \in Fixtures : AnySettle(f)
    \/ \E o \in Owners, f \in Fixtures : Collect(o, f)
    \/ Tick
    \/ AnyIssue
    \/ Publish

LEMMA NextIsChain == [Next]_vars => [ChainNext]_vars
<1>1. Create => AnyCreate
    BY Inputs DEF Create, AnyCreate
<1>2. Bet => AnyBet
    BY Inputs DEF Bet, AnyBet
<1>3. ASSUME NEW f \in Fixtures PROVE Settle(f) => AnySettle(f)
    BY Inputs DEF Settle, AnySettle
<1>4. Issue => AnyIssue
    BY Inputs DEF Issue, AnyIssue
<1>. QED
    BY <1>1, <1>2, <1>3, <1>4 DEF Next, ChainNext

-----------------------------------------------------------------------------
(* Type correctness, one lemma per action *)

LEMMA InitTypeOK == Init => TypeOK
<1>. SUFFICES ASSUME Init PROVE TypeOK
    OBVIOUS
<1>1. AbsentMarket \in MarketType
    BY Inputs DEF AbsentMarket, MarketType, NoKey, NoOutcome, Outcomes, COUNT
<1>2. FreshPosition \in PositionType
    BY Inputs DEF FreshPosition, PositionType, NoKey, Outcomes, COUNT
<1>3. market \in [Fixtures -> MarketType] /\ position \in [Fixtures -> [Owners -> PositionType]]
    BY <1>1, <1>2 DEF Init
<1>4. vault \in [Fixtures -> 0..MAX_U64] /\ now \in Nat /\ committed \subseteq Records
    BY Inputs DEF Init
<1>5. wallet \in [Mints -> [Owners -> 0..MAX_U64]]
    BY Inputs DEF Init, Owners
<1>6. supply \in [Mints -> 0..MAX_U64]
    BY Inputs DEF Init
<1>. QED
    BY <1>3, <1>4, <1>5, <1>6 DEF TypeOK

LEMMA CreateTypeOK ==
    ASSUME TypeOK, NEW f \in Fixtures, NEW m \in Mints, NEW close_ts \in Int,
           CreateMarket(f, m, close_ts)
    PROVE  TypeOK'
<1>1. market' \in [Fixtures -> MarketType]
    BY Inputs DEF TypeOK, CreateMarket, MarketType, Mints, NoOutcome, Outcomes, COUNT
<1>. QED
    BY <1>1 DEF TypeOK, CreateMarket, tokens

LEMMA PlaceTypeOK ==
    ASSUME TypeOK, NEW o \in Owners, NEW f \in Fixtures, NEW m \in Mints,
           NEW k \in 0..COUNT, NEW amount \in Nat, Place(o, f, m, k, amount)
    PROVE  TypeOK'
<1>. DEFINE opened == OpenedPosition(position[f][o], f, k)
<1>0. amount \in Nat /\ k \in Outcomes
    BY Inputs DEF Place, Outcomes, COUNT
<1>1. opened \in PositionType
    BY <1>0, Inputs DEF TypeOK, OpenedPosition, PositionType, Fixtures
<1>2. [opened EXCEPT !.amount = @ + amount] \in PositionType
    BY <1>0, <1>1, Inputs DEF PositionType, Place
<1>3. position' \in [Fixtures -> [Owners -> PositionType]]
    BY <1>2 DEF TypeOK, Place
<1>4. [market[f] EXCEPT !.pools[k] = @ + amount] \in MarketType
  <2>1. market[f] \in MarketType
    BY DEF TypeOK
  <2>2. market[f].pools \in [Outcomes -> 0..MAX_U64]
    BY <2>1 DEF MarketType
  <2>3. market[f].pools[k] + amount \in 0..MAX_U64
    BY <1>0, <2>2, Inputs DEF Place
  <2>4. [market[f].pools EXCEPT ![k] = @ + amount] \in [Outcomes -> 0..MAX_U64]
    BY <2>2, <2>3
  <2>5. [market[f] EXCEPT !.pools = [market[f].pools EXCEPT ![k] = @ + amount]] \in MarketType
    BY <2>1, <2>4 DEF MarketType
  <2>. QED
    BY <2>1, <2>5 DEF MarketType
<1>5. market' \in [Fixtures -> MarketType]
  <2>1. market' = [market EXCEPT ![f] = [market[f] EXCEPT !.pools[k] = @ + amount]]
    BY DEF Place, TypeOK
  <2>. QED BY <2>1, <1>4 DEF TypeOK
<1>6. vault' \in [Fixtures -> 0..MAX_U64]
    BY <1>0, Inputs DEF TypeOK, Place, DepositToVault
<1>7. wallet' \in [Mints -> [Owners -> 0..MAX_U64]]
    BY <1>0, Inputs DEF TypeOK, Place, DepositToVault
<1>. QED
    BY <1>3, <1>5, <1>6, <1>7 DEF TypeOK, Place, DepositToVault

LEMMA ResolveTypeOK ==
    ASSUME TypeOK, NEW f \in Fixtures, NEW payload \in PayloadType,
           NEW strategy, NEW roots,
           Resolve(f, payload, strategy, roots)
    PROVE  TypeOK'
<1>. DEFINE outcome == OutcomeOf(Goals(payload.stats, STAT_KEY_P1_GOALS),
                                 Goals(payload.stats, STAT_KEY_P2_GOALS))
<1>1. outcome \in Outcomes
    BY DEF OutcomeOf, Outcomes, COUNT, P1Win, P2Win, Draw
<1>. HIDE DEF outcome
<1>2. market[f] \in MarketType
    BY DEF TypeOK
<1>3. [market[f] EXCEPT !.outcome = outcome, !.state = "Resolved"] \in MarketType
    BY <1>1, <1>2 DEF MarketType
<1>4. market' = [market EXCEPT ![f] = [market[f] EXCEPT !.outcome = outcome, !.state = "Resolved"]]
    BY <1>2 DEF Resolve, TypeOK, MarketType, outcome
<1>5. market' \in [Fixtures -> MarketType]
    BY <1>3, <1>4 DEF TypeOK
<1>. QED
    BY <1>5 DEF TypeOK, Resolve, tokens

LEMMA PayoutType ==
    ASSUME NEW mk \in MarketType, NEW p \in PositionType, mk.outcome # NoOutcome
    PROVE  Payout(mk, p) \in Nat /\ TotalPool(mk) \in Nat /\ WinningPool(mk) \in Nat
<1>1. mk.pools \in [Outcomes -> 0..MAX_U64] /\ mk.outcome \in Outcomes
    BY DEF MarketType
<1>2. \A k \in Outcomes : mk.pools[k] \in Nat
    BY <1>1, Inputs
<1>3. TotalPool(mk) \in Nat
    BY <1>2 DEF TotalPool, P1Win, Draw, P2Win, Outcomes, COUNT
<1>4. WinningPool(mk) \in Nat
    BY <1>1, <1>2 DEF WinningPool
<1>5. p.amount \in Nat
    BY Inputs DEF PositionType
<1>6. p.amount * TotalPool(mk) \in Nat
    BY <1>3, <1>5
<1>7. WinningPool(mk) # 0 => (p.amount * TotalPool(mk)) \div WinningPool(mk) \in Nat
    BY <1>4, <1>6
<1>. QED
    BY <1>3, <1>4, <1>5, <1>7 DEF Payout

LEMMA ClaimTypeOK ==
    ASSUME TypeOK, NEW o \in Owners, NEW f \in Fixtures, NEW m \in Mints,
           Claim(o, f, m)
    PROVE  TypeOK'
<1>. DEFINE payout == Payout(market[f], position[f][o])
<1>1. market[f] \in MarketType /\ position[f][o] \in PositionType
    BY DEF TypeOK
<1>2. payout \in Nat
    BY <1>1, PayoutType DEF Claim, MayClaim
<1>. HIDE DEF payout
<1>3. WithdrawFromVault(m, o, f, payout)
    BY DEF Claim, payout
<1>4. vault' \in [Fixtures -> 0..MAX_U64] /\ wallet' \in [Mints -> [Owners -> 0..MAX_U64]]
    BY <1>2, <1>3, Inputs DEF TypeOK, WithdrawFromVault
<1>5. [position[f][o] EXCEPT !.claimed = TRUE] \in PositionType
    BY <1>1 DEF PositionType
<1>6. position' = [position EXCEPT ![f] = [position[f] EXCEPT ![o] = [position[f][o] EXCEPT !.claimed = TRUE]]]
    BY DEF Claim, TypeOK
<1>7. position' \in [Fixtures -> [Owners -> PositionType]]
    BY <1>5, <1>6 DEF TypeOK
<1>. QED
    BY <1>3, <1>4, <1>7 DEF TypeOK, Claim, WithdrawFromVault

LEMMA MintToTypeOK ==
    ASSUME TypeOK, NEW m \in Mints, NEW o \in Owners, NEW amount \in Nat,
           MintTo(m, o, amount)
    PROVE  TypeOK'
<1>. amount \in Nat
    BY Inputs
<1>1. supply' \in [Mints -> 0..MAX_U64]
    BY Inputs DEF TypeOK, MintTo
<1>2. wallet' \in [Mints -> [Owners -> 0..MAX_U64]]
    BY Inputs DEF TypeOK, MintTo
<1>. QED
    BY <1>1, <1>2 DEF TypeOK, MintTo

LEMMA NextTypeOK == TypeOK /\ [ChainNext]_vars => TypeOK'
<1>. SUFFICES ASSUME TypeOK, [ChainNext]_vars PROVE TypeOK'
    OBVIOUS
<1>1. CASE AnyCreate
    BY <1>1, CreateTypeOK DEF AnyCreate
<1>2. CASE AnyBet
    BY <1>2, PlaceTypeOK DEF AnyBet
<1>3. CASE \E f \in Fixtures : AnySettle(f)
    BY <1>3, ResolveTypeOK DEF AnySettle
<1>4. CASE \E o \in Owners, f \in Fixtures : Collect(o, f)
    BY <1>4, ClaimTypeOK DEF Collect
<1>5. CASE Tick
    BY <1>5 DEF Tick, TypeOK, tokens
<1>6. CASE AnyIssue
    BY <1>6, MintToTypeOK DEF AnyIssue
<1>7. CASE Publish
    BY <1>7 DEF Publish, PublishScores, TypeOK, tokens
<1>8. CASE UNCHANGED vars
    BY <1>8 DEF vars, tokens, TypeOK
<1>. QED
    BY <1>1, <1>2, <1>3, <1>4, <1>5, <1>6, <1>7, <1>8 DEF ChainNext

(* Every account keeps a value of its type: no balance, pool or position    *)
(* leaves the range of a u64, whatever transactions are submitted.          *)
THEOREM TypeCorrect == Spec => []TypeOK
<1>. QED
    BY InitTypeOK, NextTypeOK, NextIsChain, PTL DEF Spec

-----------------------------------------------------------------------------
(* The accounts agree, one lemma per action that changes them *)

(* A program that nobody has called yet. *)
Uncalled ==
    /\ market = [f \in Fixtures |-> AbsentMarket]
    /\ position = [f \in Fixtures |-> [o \in Owners |-> FreshPosition]]
    /\ vault = [f \in Fixtures |-> 0]

LEMMA InitUncalled == Init => Uncalled
    BY DEF Init, Uncalled

LEMMA UncalledAgree == Uncalled => AccountsAgree
<1>. SUFFICES ASSUME Uncalled PROVE AccountsAgree
    OBVIOUS
<1>1. ASSUME NEW f \in Fixtures PROVE MarketAgrees(f)
    BY DEF Uncalled, MarketAgrees, AbsentMarket
<1>2. ASSUME NEW f \in Fixtures, NEW o \in Owners PROVE PositionAgrees(f, o)
    BY DEF Uncalled, PositionAgrees, FreshPosition, IsFresh, IsStaked, NoKey, Fixtures
<1>. QED
    BY <1>1, <1>2 DEF AccountsAgree

(* A market and a position that an action leaves alone still agree. *)
LEMMA UntouchedAgree ==
    ASSUME NEW f \in Fixtures, UNCHANGED market[f]
    PROVE  /\ MarketAgrees(f) => MarketAgrees(f)'
           /\ \A o \in Owners : UNCHANGED position[f][o] /\ PositionAgrees(f, o)
                                  => PositionAgrees(f, o)'
    BY DEF MarketAgrees, PositionAgrees, IsStaked

(* What the actions do to the market they are about, and to its positions. *)
Created(f, m, close_ts) ==
    /\ market[f].state = "Absent"
    /\ market'[f] = [mint |-> m, close_ts |-> close_ts, state |-> "Open",
                     outcome |-> NoOutcome, pools |-> [k \in Outcomes |-> 0]]
    /\ \A g \in Fixtures \ {f} : market'[g] = market[g]
    /\ UNCHANGED <<position, vault, wallet, supply, committed, now>>

Placed(f, k, amount) ==
    /\ amount \in Nat \ {0} /\ k \in Outcomes
    /\ market[f].state = "Open"
    /\ market'[f].state = "Open"
    /\ market'[f].outcome = market[f].outcome
    /\ market'[f].mint = market[f].mint
    /\ market'[f].close_ts = market[f].close_ts
    /\ market'[f].pools = [market[f].pools EXCEPT ![k] = @ + amount]
    /\ \A g \in Fixtures \ {f} : market'[g] = market[g]
    /\ vault'[f] = vault[f] + amount
    /\ \A g \in Fixtures \ {f} : vault'[g] = vault[g]

PlacedBy(o, f, k, amount) ==
    /\ amount \in Nat /\ position[f][o].amount \in Nat
    /\ position'[f][o].market = f
    /\ position'[f][o].outcome = k
    /\ position'[f][o].amount = position[f][o].amount + amount
    /\ position'[f][o].claimed = FALSE
    /\ position[f][o].claimed = FALSE
    /\ IsStaked(f, o) => position[f][o].outcome = k
    /\ \A p \in Owners \ {o} : position'[f][p] = position[f][p]
    /\ \A g \in Fixtures \ {f} : position'[g] = position[g]

ResolvedTo(f, k) ==
    /\ k \in Outcomes
    /\ market[f].state = "Open"
    /\ market'[f] = [market[f] EXCEPT !.outcome = k, !.state = "Resolved"]
    /\ \A g \in Fixtures \ {f} : market'[g] = market[g]
    /\ UNCHANGED <<position, vault, wallet, supply, committed, now>>

Claimed(o, f, payout) ==
    /\ MayClaim(f, o)
    /\ position'[f][o] = [position[f][o] EXCEPT !.claimed = TRUE]
    /\ \A p \in Owners \ {o} : position'[f][p] = position[f][p]
    /\ \A g \in Fixtures \ {f} : position'[g] = position[g]
    /\ payout \in Nat
    /\ payout <= vault[f]
    /\ vault'[f] = vault[f] - payout
    /\ \A g \in Fixtures \ {f} : vault'[g] = vault[g]
    /\ UNCHANGED <<market, committed, now>>

LEMMA PlaceEffect ==
    ASSUME TypeOK, NEW o \in Owners, NEW f \in Fixtures, NEW m \in Mints,
           NEW k \in 0..COUNT, NEW amount \in Nat, Place(o, f, m, k, amount)
    PROVE  Placed(f, k, amount)
<1>1. amount \in Nat \ {0} /\ k \in Outcomes
    BY Inputs DEF Place, Outcomes, COUNT
<1>2. market[f].state = "Open"
    BY DEF Place, AcceptsStakes
<1>3. market' = [market EXCEPT ![f] = [market[f] EXCEPT !.pools = [market[f].pools EXCEPT ![k] = @ + amount]]]
  <2>1. market' = [market EXCEPT ![f] = [market[f] EXCEPT !.pools[k] = @ + amount]]
    BY DEF Place, TypeOK
  <2>2. market[f] \in MarketType
    BY DEF TypeOK
  <2>. QED
    BY <2>1, <2>2 DEF MarketType
<1>5. vault' = [vault EXCEPT ![f] = @ + amount]
    BY DEF Place, DepositToVault
<1>6. market[f] \in MarketType
    BY DEF TypeOK
<1>7. market'[f] = [market[f] EXCEPT !.pools = [market[f].pools EXCEPT ![k] = @ + amount]]
    BY <1>3 DEF TypeOK
<1>8. /\ market'[f].state = "Open"
      /\ market'[f].outcome = market[f].outcome
      /\ market'[f].mint = market[f].mint
      /\ market'[f].close_ts = market[f].close_ts
      /\ market'[f].pools = [market[f].pools EXCEPT ![k] = @ + amount]
    BY <1>2, <1>6, <1>7 DEF MarketType
<1>9. \A g \in Fixtures \ {f} : market'[g] = market[g]
    BY <1>3 DEF TypeOK
<1>11. /\ vault'[f] = vault[f] + amount
       /\ \A g \in Fixtures \ {f} : vault'[g] = vault[g]
    BY <1>5 DEF TypeOK
<1>. QED
    BY <1>1, <1>2, <1>8, <1>9, <1>11 DEF Placed

LEMMA ResolveEffect ==
    ASSUME TypeOK, NEW f \in Fixtures, NEW payload \in PayloadType,
           NEW strategy, NEW roots,
           Resolve(f, payload, strategy, roots)
    PROVE  ResolvedTo(f, OutcomeOf(Goals(payload.stats, STAT_KEY_P1_GOALS),
                                   Goals(payload.stats, STAT_KEY_P2_GOALS)))
<1>. DEFINE k == OutcomeOf(Goals(payload.stats, STAT_KEY_P1_GOALS),
                           Goals(payload.stats, STAT_KEY_P2_GOALS))
<1>1. k \in Outcomes
    BY DEF OutcomeOf, Outcomes, COUNT, P1Win, P2Win, Draw
<1>. HIDE DEF k
<1>2. market[f] \in MarketType
    BY DEF TypeOK
<1>3. market' = [market EXCEPT ![f] = [market[f] EXCEPT !.outcome = k, !.state = "Resolved"]]
    BY <1>2 DEF Resolve, TypeOK, MarketType, k
<1>4. /\ market'[f] = [market[f] EXCEPT !.outcome = k, !.state = "Resolved"]
      /\ \A g \in Fixtures \ {f} : market'[g] = market[g]
    BY <1>3 DEF TypeOK
<1>5. market[f].state = "Open" /\ UNCHANGED <<position, vault, wallet, supply, committed, now>>
    BY DEF Resolve, tokens
<1>. QED
    BY <1>1, <1>4, <1>5 DEF k, ResolvedTo

LEMMA ClaimEffect ==
    ASSUME TypeOK, NEW o \in Owners, NEW f \in Fixtures, NEW m \in Mints,
           Claim(o, f, m)
    PROVE  Claimed(o, f, Payout(market[f], position[f][o]))
<1>1. position' = [position EXCEPT ![f] = [position[f] EXCEPT ![o] = [position[f][o] EXCEPT !.claimed = TRUE]]]
    BY DEF Claim, TypeOK
<1>2. /\ position'[f][o] = [position[f][o] EXCEPT !.claimed = TRUE]
      /\ \A p \in Owners \ {o} : position'[f][p] = position[f][p]
      /\ \A g \in Fixtures \ {f} : position'[g] = position[g]
    BY <1>1 DEF TypeOK
<1>3. market[f] \in MarketType /\ position[f][o] \in PositionType
    BY DEF TypeOK
<1>4. MayClaim(f, o) /\ market[f].outcome # NoOutcome
    BY DEF Claim, MayClaim
<1>5. Payout(market[f], position[f][o]) \in Nat
    BY <1>3, <1>4, PayoutType
<1>6. WithdrawFromVault(m, o, f, Payout(market[f], position[f][o]))
    BY DEF Claim
<1>7. UNCHANGED <<market, committed, now>>
    BY DEF Claim
<1>. DEFINE payout == Payout(market[f], position[f][o])
<1>. HIDE DEF payout
<1>8. /\ payout <= vault[f]
      /\ vault'[f] = vault[f] - payout
      /\ \A g \in Fixtures \ {f} : vault'[g] = vault[g]
    BY <1>5, <1>6, Inputs DEF WithdrawFromVault, TypeOK, payout
<1>. QED
    BY <1>2, <1>4, <1>5, <1>7, <1>8 DEF payout, Claimed

LEMMA CreateEffect ==
    ASSUME TypeOK, NEW f \in Fixtures, NEW m \in Mints, NEW close_ts \in Int,
           CreateMarket(f, m, close_ts)
    PROVE  Created(f, m, close_ts)
    BY DEF CreateMarket, TypeOK, tokens, Created

-----------------------------------------------------------------------------
LEMMA CreateAccountsAgree ==
    ASSUME TypeOK, AccountsAgree,
           NEW f \in Fixtures, NEW m \in Mints, NEW close_ts \in Int,
           CreateMarket(f, m, close_ts)
    PROVE  AccountsAgree'
<1>c. Created(f, m, close_ts)
    BY CreateEffect
<1>1. /\ market[f].state = "Absent"
      /\ market'[f] = [mint |-> m, close_ts |-> close_ts, state |-> "Open",
                       outcome |-> NoOutcome, pools |-> [k \in Outcomes |-> 0]]
      /\ \A g \in Fixtures \ {f} : market'[g] = market[g]
      /\ position' = position
    BY <1>c DEF Created
<1>2. MarketAgrees(f)'
    BY <1>1 DEF MarketAgrees
<1>3. ASSUME NEW o \in Owners PROVE PositionAgrees(f, o)'
  <2>1. PositionAgrees(f, o)
    BY DEF AccountsAgree
  <2>. QED
    BY <1>1, <2>1 DEF PositionAgrees, IsStaked
<1>. QED
    BY <1>1, <1>2, <1>3, UntouchedAgree DEF AccountsAgree

LEMMA PlacePosition ==
    ASSUME TypeOK, AccountsAgree, NEW o \in Owners, NEW f \in Fixtures, NEW m \in Mints,
           NEW k \in 0..COUNT, NEW amount \in Nat, Place(o, f, m, k, amount)
    PROVE  PlacedBy(o, f, k, amount)
<1>. DEFINE opened == OpenedPosition(position[f][o], f, k)
<1>1. position[f][o] \in PositionType /\ PositionAgrees(f, o)
    BY DEF TypeOK, AccountsAgree
<1>2. market[f].state = "Open" /\ k \in Outcomes
    BY PlaceEffect DEF Placed
<1>3. position[f][o].claimed = FALSE
    BY <1>1, <1>2 DEF PositionAgrees, PositionType
<1>4. opened = [market |-> f, outcome |-> k, amount |-> position[f][o].amount, claimed |-> FALSE]
  <2>1. CASE IsFresh(position[f][o])
    <3>1. position[f][o].amount = 0
      BY <1>1, <2>1 DEF PositionAgrees, FreshPosition
    <3>2. opened = [market |-> f, outcome |-> k, amount |-> 0, claimed |-> FALSE]
      BY <2>1 DEF OpenedPosition
    <3>. QED
      BY <3>1, <3>2
  <2>2. CASE ~IsFresh(position[f][o])
    <3>1. position[f][o].market = f /\ position[f][o].outcome = k
      BY <1>1, <2>2 DEF PositionAgrees, IsFresh, Place, SameSide
    <3>. QED
      BY <1>1, <1>3, <2>2, <3>1 DEF OpenedPosition, PositionType
  <2>. QED
    BY <2>1, <2>2
<1>5. position' = [position EXCEPT ![f] = [position[f] EXCEPT ![o] = [opened EXCEPT !.amount = @ + amount]]]
    BY DEF Place, TypeOK
<1>. HIDE DEF opened
<1>6. position'[f][o] = [opened EXCEPT !.amount = @ + amount]
    BY <1>5 DEF TypeOK
<1>7. /\ \A p \in Owners \ {o} : position'[f][p] = position[f][p]
      /\ \A g \in Fixtures \ {f} : position'[g] = position[g]
    BY <1>5 DEF TypeOK
<1>8. (IsStaked(f, o) => position[f][o].outcome = k)
  <2>1. f # NoKey
    BY DEF Fixtures, NoKey
  <2>. QED
    BY <2>1 DEF IsStaked, Place, SameSide, IsFresh
<1>9. amount \in Nat /\ position[f][o].amount \in Nat
    BY <1>1, Inputs DEF PositionType
<1>. QED
    BY <1>3, <1>4, <1>6, <1>7, <1>8, <1>9 DEF PlacedBy

LEMMA PlaceAccountsAgree ==
    ASSUME TypeOK, AccountsAgree, NEW o \in Owners, NEW f \in Fixtures, NEW m \in Mints,
           NEW k \in 0..COUNT, NEW amount \in Nat, Place(o, f, m, k, amount)
    PROVE  AccountsAgree'
<1>m. Placed(f, k, amount)
    BY PlaceEffect
<1>1. /\ market[f].state = "Open"
      /\ market'[f].state = "Open"
      /\ market'[f].outcome = market[f].outcome
      /\ market'[f].mint = market[f].mint
      /\ \A g \in Fixtures \ {f} : market'[g] = market[g]
    BY <1>m DEF Placed
<1>p. PlacedBy(o, f, k, amount)
    BY PlacePosition
<1>2. /\ position'[f][o].market = f
      /\ position'[f][o].claimed = FALSE
      /\ \A p \in Owners \ {o} : position'[f][p] = position[f][p]
      /\ \A g \in Fixtures \ {f} : position'[g] = position[g]
    BY <1>p DEF PlacedBy
<1>3. /\ MarketAgrees(f)
      /\ \A p \in Owners : PositionAgrees(f, p)
    BY DEF AccountsAgree
<1>4. MarketAgrees(f)'
    BY <1>1, <1>3 DEF MarketAgrees
<1>5. f # NoKey
    BY DEF Fixtures, NoKey
<1>6. PositionAgrees(f, o)'
    BY <1>1, <1>2, <1>5 DEF PositionAgrees, IsStaked, IsFresh
<1>7. ASSUME NEW p \in Owners \ {o} PROVE PositionAgrees(f, p)'
    BY <1>1, <1>2, <1>3 DEF PositionAgrees, IsStaked
<1>. QED
    BY <1>1, <1>2, <1>4, <1>6, <1>7, UntouchedAgree DEF AccountsAgree

LEMMA ResolveAccountsAgree ==
    ASSUME TypeOK, AccountsAgree, NEW f \in Fixtures, NEW payload \in PayloadType,
           NEW strategy, NEW roots,
           Resolve(f, payload, strategy, roots)
    PROVE  AccountsAgree'
<1>r. ResolvedTo(f, OutcomeOf(Goals(payload.stats, STAT_KEY_P1_GOALS), Goals(payload.stats, STAT_KEY_P2_GOALS)))
    BY ResolveEffect
<1>1. /\ market[f].state = "Open"
      /\ \E k \in Outcomes :
            market'[f] = [market[f] EXCEPT !.outcome = k, !.state = "Resolved"]
      /\ \A g \in Fixtures \ {f} : market'[g] = market[g]
      /\ position' = position
    BY <1>r DEF ResolvedTo
<1>2. PICK k \in Outcomes :
          market'[f] = [market[f] EXCEPT !.outcome = k, !.state = "Resolved"]
    BY <1>1
<1>3. market[f] \in MarketType /\ k # NoOutcome
    BY DEF TypeOK, Outcomes, NoOutcome, COUNT
<1>4. /\ market'[f].state = "Resolved"
      /\ market'[f].outcome = k
      /\ market'[f].mint = market[f].mint
    BY <1>2, <1>3 DEF MarketType
<1>5. /\ MarketAgrees(f)
      /\ \A p \in Owners : PositionAgrees(f, p)
    BY DEF AccountsAgree
<1>6. MarketAgrees(f)'
    BY <1>1, <1>3, <1>4, <1>5 DEF MarketAgrees
<1>7. ASSUME NEW p \in Owners PROVE PositionAgrees(f, p)'
    BY <1>1, <1>4, <1>5 DEF PositionAgrees, IsStaked
<1>. QED
    BY <1>1, <1>6, <1>7, UntouchedAgree DEF AccountsAgree

LEMMA ClaimAccountsAgree ==
    ASSUME TypeOK, AccountsAgree, NEW o \in Owners, NEW f \in Fixtures, NEW m \in Mints,
           Claim(o, f, m)
    PROVE  AccountsAgree'
<1>c. Claimed(o, f, Payout(market[f], position[f][o]))
    BY ClaimEffect
<1>1. /\ MayClaim(f, o)
      /\ position'[f][o] = [position[f][o] EXCEPT !.claimed = TRUE]
      /\ \A p \in Owners \ {o} : position'[f][p] = position[f][p]
      /\ \A g \in Fixtures \ {f} : position'[g] = position[g]
      /\ market' = market
    BY <1>c DEF Claimed
<1>2. position[f][o] \in PositionType
    BY DEF TypeOK
<1>3. /\ position'[f][o].market = position[f][o].market
      /\ position'[f][o].outcome = position[f][o].outcome
    BY <1>1, <1>2 DEF PositionType
<1>4. f # NoKey
    BY DEF Fixtures, NoKey
<1>5. PositionAgrees(f, o)'
    BY <1>1, <1>3, <1>4 DEF PositionAgrees, IsStaked, IsFresh, IsEntitled, MayClaim, WinningPool
<1>. QED
    BY <1>1, <1>5, UntouchedAgree DEF AccountsAgree

LEMMA NextAccountsAgree == TypeOK /\ AccountsAgree /\ [ChainNext]_vars => AccountsAgree'
<1>. SUFFICES ASSUME TypeOK, AccountsAgree, [ChainNext]_vars PROVE AccountsAgree'
    OBVIOUS
<1>1. CASE AnyCreate
    BY <1>1, CreateAccountsAgree DEF AnyCreate
<1>2. CASE AnyBet
    BY <1>2, PlaceAccountsAgree DEF AnyBet
<1>3. CASE \E f \in Fixtures : AnySettle(f)
    BY <1>3, ResolveAccountsAgree DEF AnySettle
<1>4. CASE \E o \in Owners, f \in Fixtures : Collect(o, f)
    BY <1>4, ClaimAccountsAgree DEF Collect
<1>5. CASE UNCHANGED <<market, position>>
    BY <1>5, UntouchedAgree DEF AccountsAgree
<1>6. Tick \/ AnyIssue \/ Publish \/ UNCHANGED vars => UNCHANGED <<market, position>>
    BY DEF Tick, AnyIssue, MintTo, Publish, PublishScores, vars
<1>. QED
    BY <1>1, <1>2, <1>3, <1>4, <1>5, <1>6 DEF ChainNext

(* The accounts always agree: in particular a market has an outcome exactly *)
(* when it is resolved, and nothing is claimed that is not owed.            *)
THEOREM AccountsAlwaysAgree == Spec => []AccountsAgree
<1>1. Init => AccountsAgree
    BY InitUncalled, UncalledAgree
<1>. QED
    BY <1>1, TypeCorrect, NextAccountsAgree, NextIsChain, PTL DEF Spec

-----------------------------------------------------------------------------
(* The outcome *)

(* Committed stats that pass gate (b) are a final score. *)
LEMMA GoalsProveScore ==
    ASSUME NEW f \in Fixtures, NEW payload \in PayloadType, NEW roots,
           payload.fixture_id = f, GoalStatsOnly(payload.stats),
           Committed(payload, roots)
    PROVE  \E r \in committed : \E s1, s2 \in r.stats :
              /\ IsFinalScore(r, f, s1.value, s2.value)
              /\ OutcomeOf(Goals(payload.stats, STAT_KEY_P1_GOALS),
                           Goals(payload.stats, STAT_KEY_P2_GOALS))
                 = OutcomeOf(s1.value, s2.value)
<1>. DEFINE stats == payload.stats
<1>1. PICK r \in committed : /\ r.fixture_id = payload.fixture_id
                             /\ \A i \in 1..Len(stats) : stats[i] \in r.stats
    BY DEF Committed
<1>2. /\ Len(stats) = 2
      /\ \A i \in 1..2 : stats[i].period = FINALISED_PERIOD
      /\ {stats[1].key, stats[2].key} = {STAT_KEY_P1_GOALS, STAT_KEY_P2_GOALS}
    BY DEF GoalStatsOnly
<1>3. stats \in Seq(Stats)
    BY Inputs DEF PayloadType
<1>4. stats[1] \in Stats /\ stats[2] \in Stats
    BY <1>2, <1>3
<1>5. stats[1] \in r.stats /\ stats[2] \in r.stats
    BY <1>1, <1>2
<1>6. \/ stats[1].key = 1 /\ stats[2].key = 2
      \/ stats[1].key = 2 /\ stats[2].key = 1
    BY <1>2 DEF STAT_KEY_P1_GOALS, STAT_KEY_P2_GOALS
<1>7. \A i \in {1, 2} : stats[i] = GoalStat(stats[i].key, stats[i].value)
    BY <1>2, <1>4 DEF GoalStat, Stats
<1>8. r.fixture_id = f
    BY <1>1
<1>. HIDE DEF stats
<1>9. CASE stats[1].key = 1 /\ stats[2].key = 2
  <2>1. IsFinalScore(r, f, stats[1].value, stats[2].value)
    BY <1>5, <1>7, <1>8, <1>9 DEF IsFinalScore, STAT_KEY_P1_GOALS, STAT_KEY_P2_GOALS
  <2>2. Goals(stats, STAT_KEY_P1_GOALS) = stats[1].value /\ Goals(stats, STAT_KEY_P2_GOALS) = stats[2].value
    BY <1>9 DEF Goals, STAT_KEY_P1_GOALS, STAT_KEY_P2_GOALS
  <2>. QED
    BY <2>1, <2>2, <1>5 DEF stats
<1>10. CASE stats[1].key = 2 /\ stats[2].key = 1
  <2>1. IsFinalScore(r, f, stats[2].value, stats[1].value)
    BY <1>5, <1>7, <1>8, <1>10 DEF IsFinalScore, STAT_KEY_P1_GOALS, STAT_KEY_P2_GOALS
  <2>2. Goals(stats, STAT_KEY_P1_GOALS) = stats[2].value /\ Goals(stats, STAT_KEY_P2_GOALS) = stats[1].value
    BY <1>10 DEF Goals, STAT_KEY_P1_GOALS, STAT_KEY_P2_GOALS
  <2>. QED
    BY <2>1, <2>2, <1>5 DEF stats
<1>. QED
    BY <1>6, <1>9, <1>10

(* The gates of resolve, and a TRUE of the verifier on a canonical roots   *)
(* account for a strategy that pins the stats, leave only final scores.    *)
LEMMA ResolveProvesScore ==
    ASSUME NEW f \in Fixtures, NEW payload \in PayloadType,
           NEW strategy, NEW roots,
           Resolve(f, payload, strategy, roots)
    PROVE  \E r \in committed : \E s1, s2 \in r.stats :
              /\ IsFinalScore(r, f, s1.value, s2.value)
              /\ OutcomeOf(Goals(payload.stats, STAT_KEY_P1_GOALS),
                           Goals(payload.stats, STAT_KEY_P2_GOALS))
                 = OutcomeOf(s1.value, s2.value)
<1>1. EpochDay(payload.min_timestamp) # ForeignAccount
  <2>1. payload.min_timestamp \in Int
    BY DEF PayloadType
  <2>2. EpochDay(payload.min_timestamp) \in Int
    BY <2>1, Inputs DEF EpochDay
  <2>. QED
    BY <2>2, Inputs DEF Resolve, InRootsRange, ForeignAccount
<1>2. Committed(payload, roots)
    BY <1>1 DEF Resolve, ValidateStatV2, IsRootsAccountOf
<1>. QED
    BY <1>2, GoalsProveScore DEF Resolve

OutcomeProvedFor(f) ==
    market[f].state = "Resolved" =>
        \E r \in committed : \E s1, s2 \in r.stats :
            /\ IsFinalScore(r, f, s1.value, s2.value)
            /\ market[f].outcome = OutcomeOf(s1.value, s2.value)

LEMMA UntouchedOutcome ==
    ASSUME NEW f \in Fixtures, UNCHANGED market[f], committed \subseteq committed',
           OutcomeProvedFor(f)
    PROVE  OutcomeProvedFor(f)'
    BY DEF OutcomeProvedFor, IsFinalScore

LEMMA NextOutcomeProved == TypeOK /\ OutcomeProved /\ [ChainNext]_vars => OutcomeProved'
<1>. SUFFICES ASSUME TypeOK, OutcomeProved, [ChainNext]_vars, NEW f \in Fixtures
              PROVE  OutcomeProvedFor(f)'
    BY DEF OutcomeProved, OutcomeProvedFor
<1>0. OutcomeProvedFor(f)
    BY DEF OutcomeProved, OutcomeProvedFor
<1>1. ASSUME NEW g \in Fixtures, NEW m \in Mints, NEW close_ts \in Int,
             CreateMarket(g, m, close_ts)
      PROVE  OutcomeProvedFor(f)'
  <2>c. Created(g, m, close_ts)
    BY <1>1, CreateEffect
  <2>0. market'[g] = [mint |-> m, close_ts |-> close_ts, state |-> "Open",
                      outcome |-> NoOutcome, pools |-> [k \in Outcomes |-> 0]]
    BY <2>c DEF Created
  <2>1. market'[g].state = "Open" /\ \A h \in Fixtures \ {g} : market'[h] = market[h]
    BY <2>c DEF Created
  <2>2. committed' = committed
    BY <2>c DEF Created
  <2>. QED
    BY <1>0, <2>1, <2>2, UntouchedOutcome DEF OutcomeProvedFor
<1>2. ASSUME NEW o \in Owners, NEW g \in Fixtures, NEW m \in Mints,
             NEW k \in 0..COUNT, NEW amount \in Nat, Place(o, g, m, k, amount)
      PROVE  OutcomeProvedFor(f)'
  <2>m. Placed(g, k, amount)
    BY <1>2, PlaceEffect
  <2>1. \A h \in Fixtures \ {g} : market'[h] = market[h]
    BY <2>m DEF Placed
  <2>3. market'[g].state = "Open"
    BY <2>m DEF Placed
  <2>4. committed' = committed
    BY <1>2 DEF Place
  <2>. QED
    BY <1>0, <2>1, <2>3, <2>4, UntouchedOutcome DEF OutcomeProvedFor
<1>3. ASSUME NEW g \in Fixtures, NEW payload \in PayloadType, NEW strategy,
             NEW roots, Resolve(g, payload, strategy, roots)
      PROVE  OutcomeProvedFor(f)'
  <2>. DEFINE k == OutcomeOf(Goals(payload.stats, STAT_KEY_P1_GOALS),
                             Goals(payload.stats, STAT_KEY_P2_GOALS))
  <2>r. ResolvedTo(g, k)
    BY <1>3, ResolveEffect
  <2>0. market'[g] = [market[g] EXCEPT !.outcome = k, !.state = "Resolved"]
    BY <2>r DEF ResolvedTo
  <2>1. /\ \A h \in Fixtures \ {g} : market'[h] = market[h]
        /\ committed' = committed
    BY <2>r DEF ResolvedTo
  <2>2. market[g] \in MarketType
    BY DEF TypeOK
  <2>3. market'[g].outcome = k
    BY <2>0, <2>2 DEF MarketType
  <2>4. \E r \in committed : \E s1, s2 \in r.stats :
            IsFinalScore(r, g, s1.value, s2.value) /\ k = OutcomeOf(s1.value, s2.value)
    BY <1>3, ResolveProvesScore
  <2>. HIDE DEF k
  <2>5. OutcomeProvedFor(g)'
    BY <2>1, <2>3, <2>4 DEF OutcomeProvedFor, IsFinalScore
  <2>. QED
    BY <1>0, <2>1, <2>5, UntouchedOutcome
<1>4. ASSUME NEW o \in Owners, NEW g \in Fixtures, NEW m \in Mints, Claim(o, g, m)
      PROVE  OutcomeProvedFor(f)'
    BY <1>0, <1>4, UntouchedOutcome DEF Claim
<1>5. CASE Tick \/ AnyIssue \/ Publish \/ UNCHANGED vars
  <2>1. UNCHANGED market /\ committed \subseteq committed'
    BY <1>5 DEF Tick, AnyIssue, MintTo, Publish, PublishScores, vars
  <2>. QED
    BY <1>0, <2>1, UntouchedOutcome
<1>. QED
    BY <1>1, <1>2, <1>3, <1>4, <1>5 DEF ChainNext, AnyCreate, AnyBet, AnySettle, Collect

(* No market is ever resolved to anything but the result of a final score   *)
(* of its own fixture that txoracle has committed, whatever payloads,       *)
(* strategies and roots accounts are submitted to resolve.                  *)
THEOREM OutcomeAlwaysProved == Spec => []OutcomeProved
<1>1. Init => OutcomeProved
    BY DEF Init, OutcomeProved, AbsentMarket
<1>. QED
    BY <1>1, TypeCorrect, NextOutcomeProved, NextIsChain, PTL DEF Spec

-----------------------------------------------------------------------------
(* What a step may do *)

LEMMA StepMovesFunds == TypeOK /\ [ChainNext]_vars => VaultStep
<1>. SUFFICES ASSUME TypeOK, [ChainNext]_vars PROVE VaultStep
    OBVIOUS
<1>0. \A f \in Fixtures : vault[f] \in Nat
    BY Inputs DEF TypeOK
<1>1. ASSUME NEW o \in Owners, NEW g \in Fixtures, NEW m \in Mints,
             NEW k \in 0..COUNT, NEW amount \in Nat, Place(o, g, m, k, amount)
      PROVE  VaultStep
  <2>1. amount \in Nat
    BY Inputs
  <2>2. vault' = [vault EXCEPT ![g] = @ + amount] /\ AcceptsStakes(market[g])
    BY <1>1 DEF Place, DepositToVault
  <2>. QED
    BY <1>0, <2>1, <2>2 DEF AcceptsStakes, VaultStep, TypeOK
<1>2. ASSUME NEW o \in Owners, NEW g \in Fixtures, NEW m \in Mints, Claim(o, g, m)
      PROVE  VaultStep
  <2>. DEFINE payout == Payout(market[g], position[g][o])
  <2>c. Claimed(o, g, payout)
    BY <1>2, ClaimEffect
  <2>1. /\ MayClaim(g, o)
        /\ position'[g][o] = [position[g][o] EXCEPT !.claimed = TRUE]
        /\ payout \in Nat
        /\ vault'[g] = vault[g] - payout
        /\ \A f \in Fixtures \ {g} : vault'[f] = vault[f]
    BY <2>c DEF Claimed
  <2>2. wallet' = [wallet EXCEPT ![market[g].mint][o] = @ + payout]
    BY <1>2 DEF Claim, WithdrawFromVault
  <2>3. position'[g][o].claimed
    BY <2>1 DEF TypeOK, PositionType
  <2>. HIDE DEF payout
  <2>4. vault[g] - vault'[g] = payout
    BY <1>0, <2>1
  <2>5. market[g].mint \in Mints /\ wallet[market[g].mint][o] \in Nat
    BY <1>2, Inputs DEF Claim, TypeOK
  <2>6. vault'[g] \in Nat
    BY <1>0, <2>1, Inputs, NextTypeOK DEF TypeOK
  <2>7. wallet[market[g].mint][o] + payout = wallet[market[g].mint][o] + vault[g] - vault'[g]
    BY <1>0, <2>1, <2>4, <2>5, <2>6
  <2>8. wallet' = [wallet EXCEPT ![market[g].mint][o] = @ + vault[g] - vault'[g]]
    BY <2>2, <2>7 DEF payout
  <2>9. ASSUME NEW f \in Fixtures, vault'[f] # vault[f] PROVE f = g
    BY <2>1, <2>9
  <2>10. /\ vault[g] - vault'[g] = Payout(market[g], position[g][o])
         /\ MayClaim(g, o)
         /\ position'[g][o].claimed
    BY <2>1, <2>3, <2>4 DEF payout
  <2>11. vault'[g] <= vault[g]
    BY <1>0, <2>1
  <2>12. ASSUME NEW f \in Fixtures PROVE ~(vault'[f] > vault[f])
    BY <1>0, <2>1, <2>6, <2>11
  <2>13. ASSUME NEW f \in Fixtures, vault'[f] < vault[f] PROVE f = g
    BY <1>0, <2>9, <2>13
  <2>14. \E p \in Owners :
            /\ MayClaim(g, p)
            /\ position'[g][p].claimed
            /\ vault[g] - vault'[g] = Payout(market[g], position[g][p])
            /\ wallet' = [wallet EXCEPT ![market[g].mint][p] = @ + vault[g] - vault'[g]]
    BY <2>8, <2>10
  <2>. QED
    BY <2>12, <2>13, <2>14 DEF VaultStep
<1>3. CASE UNCHANGED vault
    BY <1>0, <1>3 DEF VaultStep
<1>4. AnyCreate \/ (\E f \in Fixtures : AnySettle(f)) \/ Tick \/ AnyIssue \/ Publish \/ UNCHANGED vars
        => UNCHANGED vault
    BY DEF AnyCreate, CreateMarket, AnySettle, Resolve, Tick, AnyIssue, MintTo, Publish,
           PublishScores, tokens, vars
<1>. QED
    BY <1>1, <1>2, <1>3, <1>4 DEF ChainNext, AnyBet, Collect

(* Tokens enter a vault only as a stake in an open market, and leave it     *)
(* only as the payout owed to one position of the resolved market, to that  *)
(* position's owner (what state.rs:5-6 promises).                           *)
THEOREM FundsAlwaysMoveAsPromised == Spec => FundsMoveOnlyAsPromised
<1>. QED
    BY TypeCorrect, StepMovesFunds, NextIsChain, PTL DEF Spec, FundsMoveOnlyAsPromised

-----------------------------------------------------------------------------
LEMMA StepKeepsResolved == TypeOK /\ [ChainNext]_vars => FinalStep
<1>. SUFFICES ASSUME TypeOK, [ChainNext]_vars, NEW f \in Fixtures, market[f].state = "Resolved"
              PROVE  /\ market'[f] = market[f]
                     /\ \A o \in Owners :
                           \E claimed \in {TRUE, position[f][o].claimed} :
                               position'[f][o] = [position[f][o] EXCEPT !.claimed = claimed]
    BY DEF FinalStep
<1>. DEFINE Kept(o) == \E claimed \in {TRUE, position[f][o].claimed} :
                          position'[f][o] = [position[f][o] EXCEPT !.claimed = claimed]
<1>0. ASSUME NEW o \in Owners, position'[f][o] = position[f][o] PROVE Kept(o)
    BY <1>0 DEF TypeOK, PositionType
<1>1. ASSUME NEW g \in Fixtures, NEW m \in Mints, NEW close_ts \in Int,
             CreateMarket(g, m, close_ts)
      PROVE  market'[f] = market[f] /\ \A o \in Owners : Kept(o)
  <2>c. Created(g, m, close_ts)
    BY <1>1, CreateEffect
  <2>1. market[g].state = "Absent" /\ \A h \in Fixtures \ {g} : market'[h] = market[h]
    BY <2>c DEF Created
  <2>2. position' = position
    BY <2>c DEF Created
  <2>. QED
    BY <1>0, <2>1, <2>2
<1>2. ASSUME NEW p \in Owners, NEW g \in Fixtures, NEW m \in Mints,
             NEW k \in 0..COUNT, NEW amount \in Nat, Place(p, g, m, k, amount)
      PROVE  market'[f] = market[f] /\ \A o \in Owners : Kept(o)
  <2>m. Placed(g, k, amount)
    BY <1>2, PlaceEffect
  <2>1. market[g].state = "Open" /\ \A h \in Fixtures \ {g} : market'[h] = market[h]
    BY <2>m DEF Placed
  <2>2. f # g
    BY <2>1
  <2>3. position'[f] = position[f]
    BY <1>2, <2>2 DEF Place, TypeOK
  <2>. QED
    BY <1>0, <2>1, <2>2, <2>3
<1>3. ASSUME NEW g \in Fixtures, NEW payload \in PayloadType, NEW strategy,
             NEW roots, Resolve(g, payload, strategy, roots)
      PROVE  market'[f] = market[f] /\ \A o \in Owners : Kept(o)
  <2>r. ResolvedTo(g, OutcomeOf(Goals(payload.stats, STAT_KEY_P1_GOALS), Goals(payload.stats, STAT_KEY_P2_GOALS)))
    BY <1>3, ResolveEffect
  <2>1. market[g].state = "Open" /\ \A h \in Fixtures \ {g} : market'[h] = market[h]
    BY <2>r DEF ResolvedTo
  <2>2. position' = position
    BY <2>r DEF ResolvedTo
  <2>. QED
    BY <1>0, <2>1, <2>2
<1>4. ASSUME NEW p \in Owners, NEW g \in Fixtures, NEW m \in Mints, Claim(p, g, m)
      PROVE  market'[f] = market[f] /\ \A o \in Owners : Kept(o)
  <2>c. Claimed(p, g, Payout(market[g], position[g][p]))
    BY <1>4, ClaimEffect
  <2>1. /\ position'[g][p] = [position[g][p] EXCEPT !.claimed = TRUE]
        /\ \A q \in Owners \ {p} : position'[g][q] = position[g][q]
        /\ \A h \in Fixtures \ {g} : position'[h] = position[h]
        /\ market' = market
    BY <2>c DEF Claimed
  <2>2. ASSUME NEW o \in Owners PROVE Kept(o)
    <3>1. CASE f = g /\ o = p
      BY <2>1, <3>1
    <3>2. CASE f # g \/ o # p
      <4>1. position'[f][o] = position[f][o]
        BY <2>1, <3>2
      <4>. QED
        BY <1>0, <4>1
    <3>. QED
      BY <3>1, <3>2
  <2>. QED
    BY <2>1, <2>2
<1>5. CASE Tick \/ AnyIssue \/ Publish \/ UNCHANGED vars
  <2>1. UNCHANGED <<market, position>>
    BY <1>5 DEF Tick, AnyIssue, MintTo, Publish, PublishScores, vars
  <2>. QED
    BY <1>0, <2>1
<1>. QED
    BY <1>1, <1>2, <1>3, <1>4, <1>5 DEF ChainNext, AnyCreate, AnyBet, AnySettle, Collect

(* Once resolved, a market and the sides and stakes of its positions never  *)
(* change again and no claim is undone: what a position is paid does not    *)
(* depend on when, or after whom, it claims.                                *)
THEOREM ResolvedAlwaysFinal == Spec => ResolvedIsFinal
<1>. QED
    BY TypeCorrect, StepKeepsResolved, NextIsChain, PTL DEF Spec, ResolvedIsFinal

-----------------------------------------------------------------------------
(* Positions *)

LEMMA StepGrowsPositions == TypeOK /\ AccountsAgree /\ [ChainNext]_vars => PositionStep
<1>. SUFFICES ASSUME TypeOK, AccountsAgree, [ChainNext]_vars PROVE PositionStep
    OBVIOUS
<1>1. ASSUME NEW o \in Owners, NEW f \in Fixtures, NEW m \in Mints,
             NEW k \in 0..COUNT, NEW amount \in Nat, Place(o, f, m, k, amount)
      PROVE  PositionStep
  <2>1. Placed(f, k, amount)
    BY <1>1, PlaceEffect
  <2>2. PlacedBy(o, f, k, amount)
    BY <1>1, PlacePosition
  <2>3. /\ m = market[f].mint
        /\ wallet' = [wallet EXCEPT ![m][o] = @ - amount]
    BY <1>1 DEF Place, DepositToVault
  <2>4. wallet'[market[f].mint][o] = wallet[market[f].mint][o] - amount
    BY <2>3 DEF TypeOK
  <2>5. /\ position'[f][o].amount - position[f][o].amount = amount
        /\ amount > 0 /\ vault'[f] = vault[f] + amount
    BY <2>1, <2>2 DEF Placed, PlacedBy
  <2>6. /\ IsStaked(f, o) => position'[f][o].outcome = position[f][o].outcome
        /\ IsStaked(f, o)'
    BY <2>2 DEF PlacedBy, IsStaked
  <2>7. ASSUME NEW g \in Fixtures, NEW p \in Owners, g # f \/ p # o
        PROVE  position'[g][p] = position[g][p]
    BY <2>2, <2>7 DEF PlacedBy
  <2>. QED
    BY <2>4, <2>5, <2>6, <2>7 DEF PositionStep, IsStaked
<1>2. ASSUME NEW o \in Owners, NEW f \in Fixtures, NEW m \in Mints, Claim(o, f, m)
      PROVE  PositionStep
  <2>1. \A g \in Fixtures, p \in Owners :
           /\ position'[g][p].market = position[g][p].market
           /\ position'[g][p].outcome = position[g][p].outcome
           /\ position'[g][p].amount = position[g][p].amount
    BY <1>2 DEF Claim, TypeOK, PositionType
  <2>. QED
    BY <2>1 DEF PositionStep, IsStaked
<1>3. CASE UNCHANGED position
    BY <1>3 DEF PositionStep, IsStaked
<1>4. AnyCreate \/ (\E f \in Fixtures : AnySettle(f)) \/ Tick \/ AnyIssue \/ Publish \/ UNCHANGED vars
        => UNCHANGED position
    BY DEF AnyCreate, CreateMarket, AnySettle, Resolve, Tick, AnyIssue, MintTo, Publish,
           PublishScores, vars
<1>. QED
    BY <1>1, <1>2, <1>3, <1>4 DEF ChainNext, AnyBet, Collect

(* A position keeps its side, and grows by exactly what its owner pays     *)
(* into the vault in the same transaction.                                 *)
THEOREM PositionsAlwaysGrow == Spec => PositionsOnlyGrow
<1>. QED
    BY StepGrowsPositions, TypeCorrect, AccountsAlwaysAgree, NextIsChain, PTL DEF Spec, PositionsOnlyGrow
=============================================================================
