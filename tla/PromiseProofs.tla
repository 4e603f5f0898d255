--------------------------- MODULE PromiseProofs ----------------------------
(***************************************************************************)
(* What follows from the escrow: tokens are conserved, no claim that is    *)
(* due can fail, and what rounding leaves in a vault is bounded by the     *)
(* number of winners.  And the program keeps the promise of Parimutuel,    *)
(* for every number of fixtures and owners and every width of the machine  *)
(* integers: the initial accounts are an empty book, and every transaction *)
(* is a step of the promise or changes nothing in it.                      *)
(***************************************************************************)
EXTENDS MarketRefinement, EscrowProofs

-----------------------------------------------------------------------------
(* Tokens are conserved *)

(* What the vaults hold of a mint, market by market. *)
HeldIn(m) == [f \in Fixtures |-> IF market[f].mint = m THEN vault[f] ELSE 0]

ConservedIn(m) == Total(wallet[m]) + SumUpTo(HeldIn(m), NumFixtures) = supply[m]

LEMMA BalanceTypes ==
    ASSUME TypeOK, NEW m \in Mints
    PROVE  /\ \A o \in 1..NumOwners : wallet[m][o] \in Nat
           /\ \A f \in 1..NumFixtures : HeldIn(m)[f] \in Nat
           /\ Total(wallet[m]) \in Nat
           /\ SumUpTo(HeldIn(m), NumFixtures) \in Nat
           /\ supply[m] \in 0..MAX_U64
<1>1. \A o \in 1..NumOwners : wallet[m][o] \in Nat
    BY Inputs DEF TypeOK, Owners
<1>2. \A f \in 1..NumFixtures : HeldIn(m)[f] \in Nat
    BY Inputs DEF TypeOK, HeldIn, Fixtures
<1>3. Total(wallet[m]) \in Nat
    BY <1>1, Inputs, SumIsNat DEF Total
<1>4. SumUpTo(HeldIn(m), NumFixtures) \in Nat
    BY <1>2, Inputs, SumIsNat
<1>. QED
    BY <1>1, <1>2, <1>3, <1>4 DEF TypeOK

(* A step that changes one balance changes the sum of the balances by as   *)
(* much.                                                                    *)
LEMMA BalanceUpdate ==
    ASSUME TypeOK, TypeOK', NEW m \in Mints, NEW o \in Owners,
           \A p \in Owners \ {o} : wallet'[m][p] = wallet[m][p]
    PROVE  Total(wallet'[m]) = Total(wallet[m]) - wallet[m][o] + wallet'[m][o]
<1>1. \A i \in 1..NumOwners : wallet[m][i] \in Nat
    BY Inputs DEF TypeOK, Owners
<1>2. \A i \in 1..NumOwners : wallet'[m][i] \in Nat
    BY Inputs DEF TypeOK, Owners
<1>3. \A i \in 1..NumOwners : i # o => wallet[m][i] = wallet'[m][i]
    BY DEF Owners
<1>4. NumOwners \in Nat /\ o \in 1..NumOwners
    BY Inputs DEF Owners
<1>. DEFINE a == wallet[m]
            b == wallet'[m]
<1>5. /\ \A i \in 1..NumOwners : a[i] \in Nat /\ b[i] \in Nat
      /\ \A i \in 1..NumOwners : i # o => a[i] = b[i]
    BY <1>1, <1>2, <1>3
<1>. HIDE DEF a, b
<1>6. SumUpTo(b, NumOwners) = SumUpTo(a, NumOwners) - a[o] + b[o]
    BY <1>4, <1>5, SumUpdate
<1>. QED
    BY <1>6 DEF Total, a, b

LEMMA InitConserves == Init => TokensConserved
<1>. SUFFICES ASSUME Init, NEW m \in Mints PROVE ConservedIn(m)
    BY DEF TokensConserved, ConservedIn, HeldIn
<1>1. Total(wallet[m]) = NumOwners * InitialBalance
  <2>1. \A o \in 1..NumOwners : wallet[m][o] = InitialBalance
    BY DEF Init, Owners
  <2>. QED
    BY <2>1, Inputs, SumOfConstant DEF Total
<1>2. SumUpTo(HeldIn(m), NumFixtures) = 0
  <2>1. \A f \in 1..NumFixtures : HeldIn(m)[f] = 0
    BY DEF Init, HeldIn, Fixtures
  <2>. QED
    BY <2>1, Inputs, SumOfZeroes
<1>. QED
    BY <1>1, <1>2, Inputs DEF ConservedIn, Init

(* A market that does not exist yet holds nothing. *)
LEMMA AbsentHoldsNothing ==
    ASSUME TypeOK, AccountsAgree, EscrowExact,
           NEW f \in Fixtures, market[f].state = "Absent"
    PROVE  vault[f] = 0
<1>1. TotalPool(market[f]) = 0
    BY DEF AccountsAgree, MarketAgrees, AbsentMarket, TotalPool, P1Win, Draw, P2Win,
       Outcomes, COUNT
<1>2. Total(Paid(f)) = 0
    BY UnresolvedUnclaimed, NothingPaid
<1>3. vault[f] \in Nat
    BY Inputs DEF TypeOK
<1>. QED
    BY <1>1, <1>2, <1>3 DEF EscrowExact

(* A step that changes what one market holds changes their sum by as much. *)
LEMMA VaultUpdate ==
    \A h, k : \A f \in 1..NumFixtures :
        /\ \A i \in 1..NumFixtures : h[i] \in Nat /\ k[i] \in Nat
        /\ \A i \in 1..NumFixtures : i # f => h[i] = k[i]
        => SumUpTo(k, NumFixtures) = SumUpTo(h, NumFixtures) - h[f] + k[f]
<1>. NumFixtures \in Nat
    BY Inputs
<1>. QED
    BY SumUpdate

(* Moving d tokens from an owner to the vault of a market, or back, changes *)
(* the two sums by the same amount.                                         *)
LEMMA TransferConserves ==
    ASSUME TypeOK, TypeOK', NEW m \in Mints, ConservedIn(m),
           NEW o \in Owners, NEW f \in Fixtures, NEW d \in Int,
           \A g \in Fixtures : market'[g].mint = market[g].mint,
           wallet'[m][o] = wallet[m][o] - (IF market[f].mint = m THEN d ELSE 0),
           \A p \in Owners \ {o} : wallet'[m][p] = wallet[m][p],
           vault'[f] = vault[f] + d,
           \A g \in Fixtures \ {f} : vault'[g] = vault[g],
           supply' = supply
    PROVE  ConservedIn(m)'
<1>. DEFINE h == HeldIn(m)
            k == HeldIn(m)'
            e == IF market[f].mint = m THEN d ELSE 0
<1>1. Total(wallet'[m]) = Total(wallet[m]) - wallet[m][o] + wallet'[m][o]
    BY BalanceUpdate
<1>2. \A i \in 1..NumFixtures : h[i] \in Nat /\ k[i] \in Nat
    BY Inputs DEF TypeOK, HeldIn, Fixtures
<1>3. \A i \in 1..NumFixtures : i # f => h[i] = k[i]
    BY DEF HeldIn, Fixtures
<1>4. e \in Int /\ wallet'[m][o] = wallet[m][o] - e /\ k[f] = h[f] + e
  <2>1. vault[f] \in Nat
    BY Inputs DEF TypeOK
  <2>. QED
    BY <2>1 DEF HeldIn
<1>5. f \in 1..NumFixtures /\ NumFixtures \in Nat
    BY Inputs DEF Fixtures
<1>6. Total(wallet[m]) + SumUpTo(h, NumFixtures) = supply[m]
    BY DEF ConservedIn
<1>7. Total(wallet[m]) \in Nat /\ SumUpTo(h, NumFixtures) \in Nat /\ wallet[m][o] \in Nat
    BY BalanceTypes DEF Owners
<1>. HIDE DEF h, k, e
<1>8. SumUpTo(k, NumFixtures) = SumUpTo(h, NumFixtures) - h[f] + k[f]
    BY <1>2, <1>3, <1>5, VaultUpdate
<1>9. h[f] \in Nat
    BY <1>2, <1>5
<1>10. Total(wallet'[m]) + SumUpTo(k, NumFixtures) = supply[m]
    BY <1>1, <1>4, <1>6, <1>7, <1>8, <1>9
<1>. QED
    BY <1>10 DEF ConservedIn, Total, k

LEMMA CreateConserves ==
    ASSUME TypeOK, AccountsAgree, EscrowExact, NEW m \in Mints, ConservedIn(m),
           NEW f \in Fixtures, NEW n \in Mints, NEW close_ts \in Int,
           CreateMarket(f, n, close_ts)
    PROVE  ConservedIn(m)'
<1>1. Created(f, n, close_ts)
    BY CreateEffect
<1>2. vault[f] = 0
    BY <1>1, AbsentHoldsNothing DEF Created
<1>3. \A g \in Fixtures : HeldIn(m)'[g] = HeldIn(m)[g]
    BY <1>1, <1>2 DEF Created, HeldIn
<1>4. SumUpTo(HeldIn(m)', NumFixtures) = SumUpTo(HeldIn(m), NumFixtures)
    BY <1>3, Inputs, SumCongruence DEF Fixtures
<1>. QED
    BY <1>1, <1>4 DEF Created, ConservedIn, Total

LEMMA PlaceConserves ==
    ASSUME TypeOK, TypeOK', NEW m \in Mints, ConservedIn(m),
           NEW o \in Owners, NEW f \in Fixtures, NEW n \in Mints, NEW k \in 0..COUNT,
           NEW amount \in Nat, Place(o, f, n, k, amount)
    PROVE  ConservedIn(m)'
<1>1. Placed(f, k, amount)
    BY PlaceEffect
<1>2. /\ n = market[f].mint
      /\ wallet' = [wallet EXCEPT ![n][o] = @ - amount]
      /\ supply' = supply
    BY DEF Place, DepositToVault
<1>3. amount \in Nat /\ \A p \in Owners : wallet[m][p] \in Nat
    BY Inputs DEF TypeOK
<1>4. /\ wallet'[m][o] = wallet[m][o] - (IF market[f].mint = m THEN amount ELSE 0)
      /\ \A p \in Owners \ {o} : wallet'[m][p] = wallet[m][p]
    BY <1>2, <1>3 DEF TypeOK
<1>5. \A g \in Fixtures : market'[g].mint = market[g].mint
    BY <1>1 DEF Placed
<1>6. vault'[f] = vault[f] + amount /\ \A g \in Fixtures \ {f} : vault'[g] = vault[g]
    BY <1>1 DEF Placed
<1>7. amount \in Int
    BY <1>3
<1>. QED
    BY <1>2, <1>4, <1>5, <1>6, <1>7, TransferConserves

LEMMA ClaimConserves ==
    ASSUME TypeOK, TypeOK', NEW m \in Mints, ConservedIn(m),
           NEW o \in Owners, NEW f \in Fixtures, NEW n \in Mints, Claim(o, f, n)
    PROVE  ConservedIn(m)'
<1>. DEFINE payout == Payout(market[f], position[f][o])
<1>1. Claimed(o, f, payout)
    BY ClaimEffect
<1>2. /\ n = market[f].mint
      /\ wallet' = [wallet EXCEPT ![n][o] = @ + payout]
      /\ supply' = supply
    BY DEF Claim, WithdrawFromVault
<1>3. payout \in Nat /\ vault[f] \in Nat /\ \A p \in Owners : wallet[m][p] \in Nat
    BY <1>1, Inputs DEF Claimed, TypeOK
<1>4. /\ market' = market
      /\ vault'[f] = vault[f] - payout
      /\ \A g \in Fixtures \ {f} : vault'[g] = vault[g]
    BY <1>1 DEF Claimed
<1>. HIDE DEF payout
<1>. DEFINE d == -payout
<1>5. d \in Int /\ vault'[f] = vault[f] + d
    BY <1>3, <1>4
<1>6. /\ wallet'[m][o] = wallet[m][o] - (IF market[f].mint = m THEN d ELSE 0)
      /\ \A p \in Owners \ {o} : wallet'[m][p] = wallet[m][p]
    BY <1>2, <1>3 DEF TypeOK
<1>. HIDE DEF d
<1>. QED
    BY <1>2, <1>4, <1>5, <1>6, TransferConserves

LEMMA MintToConserves ==
    ASSUME TypeOK, TypeOK', NEW m \in Mints, ConservedIn(m),
           NEW n \in Mints, NEW o \in Owners, NEW amount \in Nat,
           MintTo(n, o, amount)
    PROVE  ConservedIn(m)'
<1>1. /\ supply' = [supply EXCEPT ![n] = @ + amount]
      /\ wallet' = [wallet EXCEPT ![n][o] = @ + amount]
      /\ UNCHANGED <<market, vault>>
    BY DEF MintTo
<1>2. HeldIn(m)' = HeldIn(m)
    BY <1>1 DEF HeldIn
<1>3. CASE m # n
  <2>1. wallet'[m] = wallet[m] /\ supply'[m] = supply[m]
    BY <1>1, <1>3 DEF TypeOK
  <2>. QED
    BY <1>2, <2>1 DEF ConservedIn, Total
<1>4. CASE m = n
  <2>1. amount \in Nat /\ supply'[m] = supply[m] + amount
    BY <1>1, <1>4, Inputs DEF TypeOK
  <2>2. /\ wallet'[m][o] = wallet[m][o] + amount
        /\ \A p \in Owners \ {o} : wallet'[m][p] = wallet[m][p]
    BY <1>1, <1>4 DEF TypeOK
  <2>3. Total(wallet'[m]) = Total(wallet[m]) - wallet[m][o] + wallet'[m][o]
    BY <2>2, BalanceUpdate
  <2>4. /\ Total(wallet[m]) \in Nat /\ SumUpTo(HeldIn(m), NumFixtures) \in Nat
        /\ wallet[m][o] \in Nat /\ supply[m] \in Nat
    BY BalanceTypes, Inputs DEF Owners
  <2>5. Total(wallet[m]) + SumUpTo(HeldIn(m), NumFixtures) = supply[m]
    BY DEF ConservedIn
  <2>6. Total(wallet'[m]) + SumUpTo(HeldIn(m), NumFixtures) = supply'[m]
    BY <2>1, <2>2, <2>3, <2>4, <2>5
  <2>. QED
    BY <1>2, <2>6 DEF ConservedIn, Total
<1>. QED
    BY <1>3, <1>4

LEMMA NextConserves ==
    TypeOK /\ TypeOK' /\ AccountsAgree /\ EscrowExact /\ TokensConserved /\ [ChainNext]_vars
        => TokensConserved'
<1>. SUFFICES ASSUME TypeOK, TypeOK', AccountsAgree, EscrowExact, TokensConserved,
                     [ChainNext]_vars, NEW m \in Mints
              PROVE  ConservedIn(m)'
    BY DEF TokensConserved, ConservedIn, HeldIn
<1>0. ConservedIn(m)
    BY DEF TokensConserved, ConservedIn, HeldIn
<1>1. CASE AnyCreate
    BY <1>0, <1>1, CreateConserves DEF AnyCreate
<1>2. CASE AnyBet
    BY <1>0, <1>2, PlaceConserves DEF AnyBet
<1>3. ASSUME NEW f \in Fixtures, NEW payload \in PayloadType, NEW strategy,
             NEW roots, Resolve(f, payload, strategy, roots)
      PROVE  ConservedIn(m)'
  <2>1. ResolvedTo(f, OutcomeOf(Goals(payload.stats, STAT_KEY_P1_GOALS),
                                Goals(payload.stats, STAT_KEY_P2_GOALS)))
    BY <1>3, ResolveEffect
  <2>2. market[f] \in MarketType
    BY DEF TypeOK
  <2>3. market'[f].mint = market[f].mint
    BY <2>1, <2>2 DEF ResolvedTo, MarketType
  <2>4. HeldIn(m)' = HeldIn(m)
    BY <2>1, <2>3 DEF ResolvedTo, HeldIn
  <2>. QED
    BY <1>0, <2>1, <2>4 DEF ResolvedTo, ConservedIn, Total
<1>4. ASSUME NEW o \in Owners, NEW f \in Fixtures, Collect(o, f)
      PROVE  ConservedIn(m)'
    BY <1>0, <1>4, ClaimConserves DEF Collect
<1>5. CASE AnyIssue
    BY <1>0, <1>5, MintToConserves DEF AnyIssue
<1>6. CASE Tick \/ Publish \/ UNCHANGED vars
  <2>1. UNCHANGED <<market, vault, wallet, supply>>
    BY <1>6 DEF Tick, Publish, PublishScores, tokens, vars
  <2>. QED
    BY <1>0, <2>1 DEF ConservedIn, HeldIn, Total
<1>. QED
    BY <1>1, <1>2, <1>3, <1>4, <1>5, <1>6 DEF ChainNext, AnySettle

(* The balances of the owners and of the vaults of a mint add up to its    *)
(* supply: place and claim create and destroy no token.                    *)
THEOREM TokensAlwaysConserved == Spec => []TokensConserved
<1>. QED
    BY InitConserves, NextConserves, TypeCorrect, AccountsAlwaysAgree, EscrowAlwaysExact,
       NextIsChain, PTL DEF Spec

-----------------------------------------------------------------------------
(* No claim fails *)

(* The pot of a market is a u64 in spite of its three pools: it was once   *)
(* all in the vault, as long as the market was open.                        *)
PotFits == \A f \in Fixtures : TotalPool(market[f]) <= MAX_U64

LEMMA OpenPotIsInVault ==
    ASSUME TypeOK, AccountsAgree, EscrowExact, NEW f \in Fixtures,
           market[f].state # "Resolved"
    PROVE  TotalPool(market[f]) <= MAX_U64
<1>1. Total(Paid(f)) = 0
    BY UnresolvedUnclaimed, NothingPaid
<1>2. vault[f] \in 0..MAX_U64
    BY DEF TypeOK
<1>3. vault[f] + Total(Paid(f)) = TotalPool(market[f])
    BY DEF EscrowExact
<1>. QED
    BY <1>1, <1>2, <1>3, Inputs

LEMMA InitPotFits == TypeOK /\ AccountsAgree /\ EscrowExact /\ Init => PotFits
<1>. SUFFICES ASSUME TypeOK, AccountsAgree, EscrowExact, Init, NEW f \in Fixtures
              PROVE  TotalPool(market[f]) <= MAX_U64
    BY DEF PotFits
<1>1. market[f].state # "Resolved"
    BY DEF Init, AbsentMarket
<1>. QED
    BY <1>1, OpenPotIsInVault

LEMMA NextPotFits ==
    TypeOK /\ TypeOK' /\ AccountsAgree' /\ EscrowExact' /\ PotFits /\ [ChainNext]_vars
        => PotFits'
<1>. SUFFICES ASSUME TypeOK, TypeOK', AccountsAgree', EscrowExact', PotFits,
                     [ChainNext]_vars, NEW f \in Fixtures
              PROVE  TotalPool(market'[f]) <= MAX_U64
    BY DEF PotFits
<1>0. TotalPool(market[f]) <= MAX_U64
    BY DEF PotFits
<1>1. CASE market'[f].state # "Resolved"
  <2>1. Total(Paid(f))' = 0
    BY <1>1, NothingPaidNext DEF AccountsAgree, PositionAgrees
  <2>2. vault'[f] \in 0..MAX_U64
    BY DEF TypeOK
  <2>3. vault'[f] + Total(Paid(f))' = TotalPool(market'[f])
    BY DEF EscrowExact
  <2>. QED
    BY <2>1, <2>2, <2>3, Inputs
<1>2. CASE market[f].state = "Resolved"
    BY <1>0, <1>2, StepKeepsResolved DEF FinalStep
<1>3. CASE market[f].state # "Resolved" /\ market'[f].state = "Resolved"
  <2>1. market'[f].pools = market[f].pools
    <3>1. ASSUME NEW g \in Fixtures, NEW m \in Mints, NEW close_ts \in Int,
                 CreateMarket(g, m, close_ts)
          PROVE  market'[f].state = market[f].state \/ market'[f].state = "Open"
      <4>1. Created(g, m, close_ts)
        BY <3>1, CreateEffect
      <4>. QED
        BY <4>1 DEF Created
    <3>2. ASSUME NEW o \in Owners, NEW g \in Fixtures, NEW m \in Mints,
                 NEW k \in 0..COUNT, NEW amount \in Nat, Place(o, g, m, k, amount)
          PROVE  market'[f].state = market[f].state
      <4>1. Placed(g, k, amount)
        BY <3>2, PlaceEffect
      <4>. QED
        BY <4>1 DEF Placed
    <3>3. ASSUME NEW g \in Fixtures, NEW payload \in PayloadType, NEW strategy,
                 NEW roots, Resolve(g, payload, strategy, roots)
          PROVE  market'[f].pools = market[f].pools
        BY <3>3 DEF Resolve, TypeOK, MarketType
    <3>4. ASSUME NEW o \in Owners, NEW g \in Fixtures, Collect(o, g)
          PROVE  market'[f].pools = market[f].pools
        BY <3>4 DEF Collect, Claim
    <3>5. CASE Tick \/ AnyIssue \/ Publish \/ UNCHANGED vars
        BY <3>5 DEF Tick, AnyIssue, MintTo, Publish, PublishScores, vars
    <3>. QED
        BY <1>3, <3>1, <3>2, <3>3, <3>4, <3>5 DEF ChainNext, AnyCreate, AnyBet, AnySettle
  <2>. QED
    BY <1>0, <2>1 DEF TotalPool
<1>. QED
    BY <1>1, <1>2, <1>3

LEMMA PotAlwaysFits == Spec => []PotFits
<1>. QED
    BY InitPotFits, NextPotFits, TypeCorrect, AccountsAlwaysAgree, EscrowAlwaysExact,
       NextIsChain, PTL DEF Spec

LEMMA ProductFits ==
    ASSUME NEW a \in 0..MAX_U64, NEW t \in 0..MAX_U64
    PROVE  a * t <= MAX_U128
<1>. DEFINE M == MAX_U64
<1>1. M \in Nat /\ a \in Nat /\ t \in Nat /\ a <= M /\ t <= M
    BY Inputs
<1>. HIDE DEF M
<1>2. a * t <= M * M
  <2>1. a * t <= M * t
    BY <1>1
  <2>2. M * t <= M * M
    BY <1>1
  <2>3. a * t \in Nat /\ M * t \in Nat /\ M * M \in Nat
    BY <1>1
  <2>. QED
    BY <2>1, <2>2, <2>3
<1>3. (M + 1) * (M + 1) - 1 = M * M + 2 * M
    BY <1>1
<1>4. M * M <= M * M + 2 * M
    BY <1>1
<1>5. a * t \in Nat /\ M * M \in Nat
    BY <1>1
<1>. QED
    BY <1>1, <1>2, <1>3, <1>4, <1>5 DEF MAX_U128, M

LEMMA DueClaimSucceeds ==
    TypeOK /\ AccountsAgree /\ PoolsMatchPositions /\ EscrowExact /\ TokensConserved
        /\ PotFits
        => ClaimNeverFails
<1>. SUFFICES ASSUME TypeOK, AccountsAgree, PoolsMatchPositions, EscrowExact,
                     TokensConserved, PotFits,
                     NEW f \in Fixtures, NEW o \in Owners, MayClaim(f, o)
              PROVE  /\ PayoutFits(market[f], position[f][o])
                     /\ Payout(market[f], position[f][o]) <= vault[f]
                     /\ wallet[market[f].mint][o] + Payout(market[f], position[f][o]) <= MAX_U64
    BY DEF ClaimNeverFails
<1>. DEFINE payout == Payout(market[f], position[f][o])
            m == market[f].mint
<1>1. market[f] \in MarketType /\ position[f][o] \in PositionType
      /\ market[f].outcome # NoOutcome
    BY DEF TypeOK, MayClaim
<1>2. payout \in Nat /\ TotalPool(market[f]) \in Nat
    BY <1>1, PayoutType
<1>3. vault[f] \in 0..MAX_U64 /\ MAX_U64 \in Nat /\ o \in 1..NumOwners /\ NumOwners \in Nat
    BY Inputs DEF TypeOK, Owners
<1>4. payout <= vault[f]
  <2>1. market[f].state = "Resolved"
    BY DEF MayClaim
  <2>2. \A p \in 1..NumOwners : Owed(f)[p] \in Nat
    BY <2>1, DueIsOwedOrPaid
  <2>3. Owed(f)[o] = payout
    BY DEF Owed
  <2>4. Owed(f)[o] <= Total(Owed(f))
    BY <1>3, <2>2, SummandBound DEF Total
  <2>5. Total(Owed(f)) <= vault[f] /\ Total(Owed(f)) \in Nat
    BY <2>1, DueIsOwedOrPaid, EscrowCoversOwed DEF Solvency
  <2>. HIDE DEF payout
  <2>. QED
    BY <1>2, <1>3, <2>3, <2>4, <2>5
<1>5. PayoutFits(market[f], position[f][o])
  <2>1. position[f][o].amount \in 0..MAX_U64 /\ TotalPool(market[f]) \in 0..MAX_U64
    BY <1>1, <1>2, <1>3 DEF PositionType, PotFits
  <2>2. position[f][o].amount * TotalPool(market[f]) <= MAX_U128
    BY <2>1, ProductFits
  <2>3. payout <= MAX_U64
    <3>. HIDE DEF payout
    <3>. QED
      BY <1>2, <1>3, <1>4
  <2>. QED
    BY <1>3, <2>1, <2>2, <2>3 DEF PayoutFits
<1>6. wallet[m][o] + payout <= MAX_U64
  <2>1. m \in Mints
    BY DEF AccountsAgree, MarketAgrees, MayClaim
  <2>. DEFINE w == Total(wallet[m])
              h == SumUpTo(HeldIn(m), NumFixtures)
  <2>2. w \in Nat /\ h \in Nat /\ supply[m] \in 0..MAX_U64
        /\ (\A i \in 1..NumOwners : wallet[m][i] \in Nat)
        /\ (\A g \in 1..NumFixtures : HeldIn(m)[g] \in Nat)
    BY <2>1, BalanceTypes
  <2>3. wallet[m][o] <= w
    BY <1>3, <2>2, SummandBound DEF Total
  <2>4. vault[f] <= h
    <3>1. f \in 1..NumFixtures /\ NumFixtures \in Nat /\ HeldIn(m)[f] = vault[f]
      BY Inputs DEF Fixtures, HeldIn
    <3>2. HeldIn(m)[f] <= SumUpTo(HeldIn(m), NumFixtures)
      BY <2>2, <3>1, SummandBound
    <3>. QED
      BY <3>1, <3>2
  <2>5. w + h = supply[m]
    BY <2>1 DEF TokensConserved, HeldIn
  <2>6. wallet[m][o] \in Nat
    BY <1>3, <2>2
  <2>. HIDE DEF payout, w, h, m
  <2>. QED
    BY <1>2, <1>3, <1>4, <2>2, <2>3, <2>4, <2>5, <2>6
<1>. QED
    BY <1>4, <1>5, <1>6

(* A claim that is due never fails: the product of claim fits a u128, the  *)
(* quotient and the pot a u64, the vault covers it, and the owner's token  *)
(* account takes it.                                                       *)
THEOREM ClaimsNeverFail == Spec => []ClaimNeverFails
<1>. QED
    BY DueClaimSucceeds, TypeCorrect, AccountsAlwaysAgree, PoolsAlwaysMatch,
       EscrowAlwaysExact, TokensAlwaysConserved, PotAlwaysFits, PTL

-----------------------------------------------------------------------------
(* What rounding leaves *)

LEMMA RoundingLeavesDust ==
    TypeOK /\ AccountsAgree /\ PoolsMatchPositions /\ EscrowExact => DustBound
<1>. DEFINE Winners(f) == {o \in Owners : /\ IsStaked(f, o)
                                          /\ position[f][o].outcome = market[f].outcome}
<1>. SUFFICES ASSUME TypeOK, AccountsAgree, PoolsMatchPositions, EscrowExact,
                     NEW f \in Fixtures, market[f].state = "Resolved"
              PROVE  IF WinningPool(market[f]) = 0
                     THEN vault[f] - Total(Owed(f)) = 0
                     ELSE vault[f] - Total(Owed(f)) < Cardinality(Winners(f))
    BY DEF DustBound
<1>. DEFINE mk == market[f]
            t == TotalPool(mk)
            won == Stakes(f, mk.outcome)
            one == [o \in 1..NumOwners |-> IF o \in Winners(f) THEN 1 ELSE 0]
            due == Due(f)
<1>1. mk \in MarketType /\ mk.outcome \in Outcomes /\ mk.outcome # NoOutcome
    BY DEF TypeOK, MarketType, AccountsAgree, MarketAgrees
<1>2. t \in Nat /\ vault[f] \in Nat /\ NumOwners \in Nat
    BY <1>1, PoolTypes, Inputs DEF TypeOK
<1>3. /\ Total(Owed(f)) \in Nat /\ Total(Paid(f)) \in Nat
      /\ Total(due) = Total(Owed(f)) + Total(Paid(f))
    BY DueIsOwedOrPaid
<1>4. vault[f] + Total(Paid(f)) = t
    BY DEF EscrowExact
<1>5. vault[f] - Total(Owed(f)) = t - Total(due)
  <2>. HIDE DEF t, due
  <2>. QED
    BY <1>2, <1>3, <1>4
<1>6. CASE WinningPool(mk) = 0
  <2>1. Total(due) = t
    BY <1>1, <1>6, StakesAreHandedBack
  <2>. QED
    BY <1>2, <1>5, <1>6, <2>1
<1>7. CASE WinningPool(mk) # 0
  <2>1. SumUpTo(won, NumOwners) = WinningPool(mk)
    BY <1>1 DEF WinningPool, PoolsMatchPositions, Total
  <2>2. \A o \in 1..NumOwners : won[o] \in Nat
    BY <1>1, StakesType
  <2>3. \A o \in 1..NumOwners : one[o] \in {0, 1} /\ (one[o] = 0 => won[o] = 0)
    BY DEF Stakes, Owners
  <2>4. \A o \in 1..NumOwners : due[o] = (won[o] * t) \div WinningPool(mk)
    BY <1>1, <1>7, DueIsShare
  <2>5. SumUpTo(one, NumOwners) = Cardinality({o \in 1..NumOwners : o \in Winners(f)})
    BY <1>2, SumOfOnes
  <2>6. {o \in 1..NumOwners : o \in Winners(f)} = Winners(f)
    BY DEF Owners
  <2>7. SumUpTo(due, NumOwners) \in Nat
    BY <1>3 DEF Total
  <2>8. SumUpTo(one, NumOwners) \in Nat
    <3>1. \A o \in 1..NumOwners : one[o] \in Nat
      BY <2>3
    <3>. HIDE DEF one
    <3>. QED
      BY <1>2, <3>1, SumIsNat
  <2>. HIDE DEF won, one, due, t
  <2>9. t < SumUpTo(due, NumOwners) + SumUpTo(one, NumOwners)
    BY <1>2, <1>7, <2>1, <2>2, <2>3, <2>4, FloorSharesNearlyFill
  <2>10. t - SumUpTo(due, NumOwners) < SumUpTo(one, NumOwners)
    BY <1>2, <2>7, <2>8, <2>9
  <2>. QED
    BY <1>5, <1>7, <2>5, <2>6, <2>10 DEF Total
<1>. QED
    BY <1>6, <1>7

(* What rounding leaves in the vault of a resolved market is less than one *)
(* base unit per winner, and nothing when the stakes are handed back.      *)
THEOREM DustAlwaysBounded == Spec => []DustBound
<1>. QED
    BY RoundingLeavesDust, TypeCorrect, AccountsAlwaysAgree, PoolsAlwaysMatch,
       EscrowAlwaysExact, PTL

-----------------------------------------------------------------------------
(* The refinement *)

(* Beyond the invariants of the escrow, the refinement rests on this: only *)
(* an account that place has filled in holds a stake, and it holds one.    *)
StakesArePositive == \A f \in Fixtures, o \in Owners :
                        IsStaked(f, o) => position[f][o].amount > 0

AccountsInv ==
    TypeOK /\ AccountsAgree /\ PoolsMatchPositions /\ EscrowExact /\ StakesArePositive

LEMMA InitStakesPositive == Init => StakesArePositive
<1>. SUFFICES ASSUME Init, NEW f \in Fixtures, NEW o \in Owners PROVE ~IsStaked(f, o)
    BY DEF StakesArePositive
<1>. QED
    BY DEF Init, FreshPosition, IsStaked, NoKey, Fixtures

LEMMA NextStakesPositive ==
    TypeOK /\ AccountsAgree /\ StakesArePositive /\ [ChainNext]_vars => StakesArePositive'
<1>. SUFFICES ASSUME TypeOK, AccountsAgree, StakesArePositive, [ChainNext]_vars
              PROVE  StakesArePositive'
    OBVIOUS
<1>1. ASSUME NEW o \in Owners, NEW f \in Fixtures, NEW m \in Mints,
             NEW k \in 0..COUNT, NEW amount \in Nat, Place(o, f, m, k, amount)
      PROVE  StakesArePositive'
  <2>1. Placed(f, k, amount) /\ PlacedBy(o, f, k, amount)
    BY <1>1, PlaceEffect, PlacePosition
  <2>2. position'[f][o].amount > 0
    BY <2>1 DEF Placed, PlacedBy
  <2>3. ASSUME NEW g \in Fixtures, NEW p \in Owners, g # f \/ p # o
        PROVE  position'[g][p] = position[g][p]
    BY <2>1, <2>3 DEF PlacedBy
  <2>. QED
    BY <2>2, <2>3 DEF StakesArePositive, IsStaked
<1>2. ASSUME NEW o \in Owners, NEW f \in Fixtures, NEW m \in Mints, Claim(o, f, m)
      PROVE  StakesArePositive'
  <2>1. \A g \in Fixtures, p \in Owners :
           /\ position'[g][p].market = position[g][p].market
           /\ position'[g][p].amount = position[g][p].amount
    BY <1>2 DEF Claim, TypeOK, PositionType
  <2>. QED
    BY <2>1 DEF StakesArePositive, IsStaked
<1>3. CASE UNCHANGED position
    BY <1>3 DEF StakesArePositive, IsStaked
<1>4. AnyCreate \/ (\E f \in Fixtures : AnySettle(f)) \/ Tick \/ AnyIssue \/ Publish \/ UNCHANGED vars
        => UNCHANGED position
    BY DEF AnyCreate, CreateMarket, AnySettle, Resolve, Tick, AnyIssue, MintTo, Publish,
           PublishScores, vars
<1>. QED
    BY <1>1, <1>2, <1>3, <1>4 DEF ChainNext, AnyBet, Collect

LEMMA AccountsInvariant == Spec => []AccountsInv
<1>1. TypeOK /\ AccountsAgree /\ PoolsMatchPositions /\ EscrowExact /\ StakesArePositive
        => AccountsInv
    BY DEF AccountsInv
<1>. QED
    BY <1>1, InitStakesPositive, NextStakesPositive, TypeCorrect, AccountsAlwaysAgree,
       PoolsAlwaysMatch, EscrowAlwaysExact, NextIsChain, PTL DEF Spec

-----------------------------------------------------------------------------
(* The amounts of the promise, which are sums of bets, are the pools.      *)

LEMMA SidesAreOutcomes == Promise!Sides = Outcomes /\ Promise!Undecided = NoOutcome
    BY DEF Promise!Sides, Outcomes, COUNT, Promise!Undecided, NoOutcome

LEMMA BooksAreMarkets == Promise!Books = Fixtures /\ Promise!Bettors = Owners
    BY DEF Promise!Books, Promise!Bettors, Fixtures, Owners

LEMMA SumsAgree ==
    ASSUME NEW a, NEW n
    PROVE  Promise!SumUpTo(a, n) = SumUpTo(a, n)
    BY DEF Promise!SumUpTo, SumUpTo

LEMMA ClosedOf == \A f \in Fixtures : ClosedByClock[f] <=> HasClosed(f)
    BY Zenon DEF ClosedByClock

LEMMA BetOf ==
    ASSUME NEW f \in Fixtures, NEW o \in Owners
    PROVE  /\ BetsOfPositions[f][o].side = position[f][o].outcome
           /\ BetsOfPositions[f][o].stake = position[f][o].amount
    BY DEF BetsOfPositions

LEMMA StakedOnIsPool ==
    ASSUME AccountsInv, NEW f \in Fixtures, NEW k \in Outcomes
    PROVE  Promise!StakedOn(f, k) = market[f].pools[k]
<1>. DEFINE b == [p \in Promise!Bettors |->
                    IF BetsOfPositions[f][p].side = k THEN BetsOfPositions[f][p].stake ELSE 0]
            s == Stakes(f, k)
<1>1. ASSUME NEW o \in Owners PROVE b[o] = s[o]
  <2>1. ~IsStaked(f, o) => position[f][o].amount = 0
    BY DEF AccountsInv, AccountsAgree, PositionAgrees, IsStaked, IsFresh, FreshPosition
  <2>. QED
    BY <2>1, BetOf, BooksAreMarkets DEF Stakes
<1>2. SumUpTo(s, NumOwners) = market[f].pools[k]
    BY DEF AccountsInv, PoolsMatchPositions, Total
<1>3. Promise!StakedOn(f, k) = SumUpTo(b, NumOwners)
    BY SumsAgree DEF Promise!StakedOn
<1>. HIDE DEF b, s
<1>4. SumUpTo(b, NumOwners) = SumUpTo(s, NumOwners)
    BY <1>1, Inputs, SumCongruence DEF Owners
<1>. QED
    BY <1>2, <1>3, <1>4

LEMMA StakedIsPot ==
    ASSUME AccountsInv, NEW f \in Fixtures
    PROVE  Promise!Staked(f) = TotalPool(market[f])
<1>. DEFINE b == [p \in Promise!Bettors |-> BetsOfPositions[f][p].stake]
            s0 == Stakes(f, P1Win)
            s1 == Stakes(f, Draw)
            s2 == Stakes(f, P2Win)
            s01 == [o \in 1..NumOwners |-> s0[o] + s1[o]]
<1>0. TypeOK /\ AccountsAgree /\ PoolsMatchPositions
    BY DEF AccountsInv
<1>1. P1Win \in Outcomes /\ Draw \in Outcomes /\ P2Win \in Outcomes /\ NumOwners \in Nat
    BY Inputs DEF P1Win, Draw, P2Win, Outcomes, COUNT
<1>2. \A o \in 1..NumOwners : s0[o] \in Nat /\ s1[o] \in Nat /\ s2[o] \in Nat
    BY <1>0, <1>1, StakesType
<1>3. \A o \in 1..NumOwners : s01[o] \in Nat /\ s01[o] = s0[o] + s1[o]
    BY <1>2
<1>4. ASSUME NEW o \in 1..NumOwners PROVE b[o] = s01[o] + s2[o]
  <2>1. o \in Owners /\ position[f][o] \in PositionType /\ PositionAgrees(f, o)
    BY <1>0 DEF TypeOK, AccountsAgree, Owners
  <2>2. b[o] = position[f][o].amount
    BY <2>1, BetOf, BooksAreMarkets
  <2>3. position[f][o].amount \in Nat /\ position[f][o].outcome \in {P1Win, Draw, P2Win}
    BY <2>1, Inputs DEF PositionType, P1Win, Draw, P2Win, Outcomes, COUNT
  <2>4. ~IsStaked(f, o) => position[f][o].amount = 0
    BY <2>1 DEF PositionAgrees, IsStaked, IsFresh, FreshPosition
  <2>. QED
    BY <2>1, <2>2, <2>3, <2>4 DEF Stakes, P1Win, Draw, P2Win
<1>5. /\ SumUpTo(s0, NumOwners) = market[f].pools[P1Win]
      /\ SumUpTo(s1, NumOwners) = market[f].pools[Draw]
      /\ SumUpTo(s2, NumOwners) = market[f].pools[P2Win]
    BY <1>0, <1>1 DEF PoolsMatchPositions, Total
<1>6. Promise!Staked(f) = SumUpTo(b, NumOwners)
    BY SumsAgree DEF Promise!Staked
<1>. HIDE DEF b, s0, s1, s2, s01
<1>7. SumUpTo(s01, NumOwners) = SumUpTo(s0, NumOwners) + SumUpTo(s1, NumOwners)
    BY <1>1, <1>2, <1>3, SumAddition
<1>8. SumUpTo(b, NumOwners) = SumUpTo(s01, NumOwners) + SumUpTo(s2, NumOwners)
    BY <1>1, <1>2, <1>3, <1>4, SumAddition
<1>. QED
    BY <1>5, <1>6, <1>7, <1>8 DEF TotalPool

(* What claim computes from the pools is the share of the promise.         *)
LEMMA PayoutIsShare ==
    ASSUME AccountsInv, NEW f \in Fixtures, NEW o \in Owners, market[f].outcome # NoOutcome
    PROVE  /\ Promise!Share(f, o) = Payout(market[f], position[f][o])
           /\ IsDue(f, o) => Promise!IsDue(f, o)
<1>1. ResultOfMarket[f] = market[f].outcome /\ market[f].outcome \in Outcomes
    BY DEF ResultOfMarket, AccountsInv, TypeOK, MarketType
<1>2. Promise!StakedOn(f, ResultOfMarket[f]) = WinningPool(market[f])
    BY <1>1, StakedOnIsPool DEF WinningPool
<1>3. Promise!Staked(f) = TotalPool(market[f])
    BY StakedIsPot
<1>4. Promise!Share(f, o) = Payout(market[f], position[f][o])
    BY <1>2, <1>3, BetOf DEF Promise!Share, Payout
<1>5. ASSUME IsDue(f, o) PROVE Promise!IsDue(f, o)
  <2>1. BetsOfPositions[f][o].stake > 0
    BY <1>5, BetOf DEF IsDue, AccountsInv, StakesArePositive
  <2>2. WinningPool(market[f]) = 0 \/ BetsOfPositions[f][o].side = ResultOfMarket[f]
    BY <1>1, <1>5, BetOf DEF IsDue, IsEntitled
  <2>. QED
    BY <1>2, <2>1, <2>2 DEF Promise!IsDue
<1>. QED
    BY <1>4, <1>5

-----------------------------------------------------------------------------
(* The initial accounts, and every action. *)

LEMMA InitIsEmptyBook == Init => Promise!Init
<1>. SUFFICES ASSUME Init PROVE Promise!Init
    OBVIOUS
<1>1. \A f \in Fixtures, o \in Owners : position[f][o] = FreshPosition
    BY DEF Init
<1>2. \A f \in Fixtures : market[f] = AbsentMarket
    BY DEF Init
<1>3. BetsOfPositions = [b \in Fixtures |-> [p \in Owners |-> Promise!NoBet]]
    BY <1>1 DEF BetsOfPositions, FreshPosition, Promise!NoBet
<1>4. ClosedByClock = [b \in Fixtures |-> FALSE]
  <2>1. \A f \in Fixtures : HasClosed(f) = FALSE
    BY <1>2 DEF HasClosed, AbsentMarket
  <2>. QED
    BY <2>1, Zenon DEF ClosedByClock
<1>5. ResultOfMarket = [b \in Fixtures |-> Promise!Undecided]
    BY <1>2 DEF ResultOfMarket, AbsentMarket, NoOutcome, Promise!Undecided
<1>6. PaidToPositions = [b \in Fixtures |-> [p \in Owners |-> Promise!Unpaid]]
    BY <1>1 DEF PaidToPositions, FreshPosition, Promise!Unpaid
<1>7. vault = [b \in Fixtures |-> 0]
    BY DEF Init
<1>. QED
    BY <1>3, <1>4, <1>5, <1>6, <1>7, BooksAreMarkets DEF Promise!Init

(* A step that changes none of the accounts the promise is about. *)
LEMMA SameBook ==
    ASSUME UNCHANGED <<position, market, vault, now>>
    PROVE  UNCHANGED Promise!vars
    BY DEF Promise!vars, BetsOfPositions, ClosedByClock, HasClosed, ResultOfMarket, PaidToPositions

LEMMA CreateIsStutter ==
    ASSUME AccountsInv, NEW f \in Fixtures, NEW m \in Mints, NEW close_ts \in Int,
           CreateMarket(f, m, close_ts)
    PROVE  UNCHANGED Promise!vars
<1>1. /\ market[f].state = "Absent"
      /\ market'[f] = [mint |-> m, close_ts |-> close_ts, state |-> "Open",
                       outcome |-> NoOutcome, pools |-> [k \in Outcomes |-> 0]]
      /\ \A g \in Fixtures \ {f} : market'[g] = market[g]
      /\ position' = position /\ vault' = vault /\ now' = now
    BY CreateEffect DEF AccountsInv, Created
<1>2. close_ts > now /\ now \in Nat
    BY DEF CreateMarket, AccountsInv, TypeOK
<1>3. market[f].outcome = NoOutcome
    BY <1>1 DEF AccountsInv, AccountsAgree, MarketAgrees, AbsentMarket
<1>4. \A o \in Owners : ~position[f][o].claimed
    BY <1>1, UnresolvedUnclaimed DEF AccountsInv
<1>5. UNCHANGED BetsOfPositions
    BY <1>1 DEF BetsOfPositions
<1>6. UNCHANGED ResultOfMarket
    BY <1>1, <1>3 DEF ResultOfMarket
<1>7. UNCHANGED ClosedByClock
  <2>1. ASSUME NEW g \in Fixtures
        PROVE  (market'[g].state # "Absent" /\ now' >= market'[g].close_ts)
                 <=> (market[g].state # "Absent" /\ now >= market[g].close_ts)
    BY <1>1, <1>2
  <2>. QED
    BY <2>1 DEF ClosedByClock, HasClosed
<1>8. UNCHANGED PaidToPositions
    BY <1>1, <1>4 DEF PaidToPositions
<1>. QED
    BY <1>1, <1>5, <1>6, <1>7, <1>8 DEF Promise!vars

LEMMA PlaceIsBet ==
    ASSUME AccountsInv, NEW o \in Owners, NEW f \in Fixtures, NEW m \in Mints,
           NEW k \in 0..COUNT, NEW amount \in Nat, Place(o, f, m, k, amount)
    PROVE  Promise!Bet(f, o)
<1>0. TypeOK /\ AccountsAgree
    BY DEF AccountsInv
<1>1. Placed(f, k, amount) /\ PlacedBy(o, f, k, amount)
    BY <1>0, PlaceEffect, PlacePosition
<1>2. now < market[f].close_ts /\ market[f].state = "Open" /\ now' = now
    BY DEF Place, AcceptsStakes
<1>3. market[f].close_ts \in Int /\ now \in Int
    BY <1>0 DEF TypeOK, MarketType
<1>4. ~ClosedByClock[f]
  <2>1. ~HasClosed(f)
    BY <1>2, <1>3 DEF HasClosed
  <2>. QED
    BY <2>1, ClosedOf
<1>5. ResultOfMarket[f] = Promise!Undecided
  <2>1. market[f].outcome = NoOutcome
    BY <1>0, <1>2 DEF AccountsAgree, MarketAgrees
  <2>. QED
    BY <2>1, SidesAreOutcomes DEF ResultOfMarket
<1>6. amount \in 1..MAX_U64
  <2>1. vault[f] + amount <= MAX_U64
    BY DEF Place, DepositToVault
  <2>2. amount \in Nat \ {0} /\ vault[f] \in Nat
    BY <1>0, <1>1, Inputs DEF Placed, TypeOK
  <2>. QED
    BY <2>1, <2>2, Inputs
<1>7. k \in Promise!Sides
    BY <1>1, SidesAreOutcomes DEF Placed
<1>8. BetsOfPositions[f][o].stake = 0 \/ BetsOfPositions[f][o].side = k
  <2>1. ~IsStaked(f, o) => position[f][o].amount = 0
    BY <1>0 DEF AccountsAgree, PositionAgrees, IsStaked, IsFresh, FreshPosition
  <2>. QED
    BY <1>1, <2>1, BetOf DEF PlacedBy
<1>9. BetsOfPositions' = [BetsOfPositions EXCEPT ![f][o] =
                            [side |-> k, stake |-> @.stake + amount]]
  <2>. DEFINE new == [side |-> k, stake |-> position[f][o].amount + amount]
              B == BetsOfPositions
  <2>1. B[f][o].stake = position[f][o].amount
    BY BetOf
  <2>2. ASSUME NEW g \in Fixtures, NEW p \in Owners
        PROVE  B'[g][p] = IF g = f /\ p = o THEN new ELSE B[g][p]
    BY <1>1 DEF PlacedBy, BetsOfPositions
  <2>3. /\ B = [g \in Fixtures |-> [p \in Owners |-> B[g][p]]]
        /\ B' = [g \in Fixtures |-> [p \in Owners |-> B'[g][p]]]
    BY DEF BetsOfPositions
  <2>. HIDE DEF B, new
  <2>4. B' = [B EXCEPT ![f] = [B[f] EXCEPT ![o] = new]]
    BY <2>2, <2>3
  <2>. QED
    BY <2>1, <2>4 DEF B, new
<1>10. vault' = [vault EXCEPT ![f] = @ + amount]
    BY DEF Place, DepositToVault
<1>11. UNCHANGED ClosedByClock
    BY <1>1, <1>2 DEF Placed, ClosedByClock, HasClosed
<1>12. UNCHANGED ResultOfMarket
    BY <1>1 DEF Placed, ResultOfMarket
<1>13. UNCHANGED PaidToPositions
  <2>1. \A p \in Owners : ~position[f][p].claimed /\ ~position'[f][p].claimed
    BY <1>0, <1>1, <1>2, UnresolvedUnclaimed DEF PlacedBy
  <2>2. \A g \in Fixtures \ {f} : market'[g] = market[g] /\ position'[g] = position[g]
    BY <1>1 DEF Placed, PlacedBy
  <2>. QED
    BY <2>1, <2>2 DEF PaidToPositions
<1>. QED
    BY <1>4, <1>5, <1>6, <1>7, <1>8, <1>9, <1>10, <1>11, <1>12, <1>13 DEF Promise!Bet

LEMMA ResolveIsDecide ==
    ASSUME AccountsInv, NEW f \in Fixtures, NEW payload \in PayloadType,
           NEW strategy, NEW roots,
           Resolve(f, payload, strategy, roots)
    PROVE  Promise!Decide(f)
<1>0. TypeOK /\ AccountsAgree
    BY DEF AccountsInv
<1>. DEFINE k == OutcomeOf(Goals(payload.stats, STAT_KEY_P1_GOALS),
                           Goals(payload.stats, STAT_KEY_P2_GOALS))
<1>1. ResolvedTo(f, k)
    BY <1>0, ResolveEffect
<1>. HIDE DEF k
<1>2. market[f] \in MarketType
    BY <1>0 DEF TypeOK
<1>3. /\ k \in Outcomes /\ market[f].state = "Open"
      /\ market'[f].outcome = k /\ market'[f].state = "Resolved"
      /\ market'[f].close_ts = market[f].close_ts
      /\ \A g \in Fixtures \ {f} : market'[g] = market[g]
      /\ UNCHANGED <<position, vault, now>>
    BY <1>1, <1>2 DEF ResolvedTo, MarketType
<1>4. ResultOfMarket[f] = Promise!Undecided
    BY <1>0, <1>3, SidesAreOutcomes DEF ResultOfMarket, AccountsAgree, MarketAgrees
<1>5. ResultOfMarket' = [ResultOfMarket EXCEPT ![f] = k]
    BY <1>3 DEF ResultOfMarket
<1>6. UNCHANGED BetsOfPositions
    BY <1>3 DEF BetsOfPositions
<1>7. UNCHANGED ClosedByClock
    BY <1>3 DEF ClosedByClock, HasClosed
<1>8. UNCHANGED PaidToPositions
  <2>1. \A p \in Owners : ~position[f][p].claimed
    BY <1>0, <1>3, UnresolvedUnclaimed
  <2>. QED
    BY <1>3, <2>1 DEF PaidToPositions
<1>. QED
    BY <1>3, <1>4, <1>5, <1>6, <1>7, <1>8, SidesAreOutcomes DEF Promise!Decide

LEMMA ClaimIsPay ==
    ASSUME AccountsInv, NEW o \in Owners, NEW f \in Fixtures, NEW m \in Mints,
           Claim(o, f, m)
    PROVE  Promise!Pay(f, o)
<1>0. TypeOK /\ AccountsAgree
    BY DEF AccountsInv
<1>. DEFINE payout == Payout(market[f], position[f][o])
<1>1. Claimed(o, f, payout)
    BY <1>0, ClaimEffect
<1>2. MayClaim(f, o) /\ market[f].outcome # NoOutcome /\ IsDue(f, o)
    BY DEF Claim, MayClaim, IsDue, IsStaked
<1>3. Promise!Share(f, o) = payout /\ Promise!IsDue(f, o)
    BY <1>2, PayoutIsShare
<1>4. ResultOfMarket[f] # Promise!Undecided
    BY <1>2, SidesAreOutcomes DEF ResultOfMarket
<1>5. PaidToPositions[f][o] = Promise!Unpaid
    BY <1>2 DEF MayClaim, PaidToPositions, Promise!Unpaid
<1>6. payout <= vault[f] /\ vault' = [vault EXCEPT ![f] = @ - payout]
    BY <1>1 DEF Claimed, Claim, WithdrawFromVault
<1>7. /\ market' = market /\ now' = now
      /\ \A g \in Fixtures, p \in Owners :
            /\ position'[g][p].outcome = position[g][p].outcome
            /\ position'[g][p].amount = position[g][p].amount
            /\ position'[g][p].claimed <=> (position[g][p].claimed \/ (g = f /\ p = o))
  <2>1. /\ market' = market /\ position[f][o] \in PositionType /\ now' = now
        /\ position'[f][o] = [position[f][o] EXCEPT !.claimed = TRUE]
    BY <1>0, <1>1 DEF Claimed, Claim, TypeOK
  <2>2. \A g \in Fixtures, p \in Owners :
            g # f \/ p # o => position'[g][p] = position[g][p]
    BY <1>1 DEF Claimed
  <2>3. /\ position'[f][o].outcome = position[f][o].outcome
        /\ position'[f][o].amount = position[f][o].amount
        /\ position'[f][o].claimed = TRUE
    BY <2>1 DEF PositionType
  <2>. QED
    BY <2>1, <2>2, <2>3, Zenon
<1>8. UNCHANGED <<BetsOfPositions, ClosedByClock, ResultOfMarket>>
    BY <1>7 DEF BetsOfPositions, ClosedByClock, HasClosed, ResultOfMarket
<1>9. PaidToPositions' = [PaidToPositions EXCEPT ![f][o] = payout]
  <2>. DEFINE P == PaidToPositions
  <2>1. ASSUME NEW g \in Fixtures, NEW p \in Owners
        PROVE  P'[g][p] = IF g = f /\ p = o THEN payout ELSE P[g][p]
    <3>1. Payout(market'[g], position'[g][p]) = Payout(market[g], position[g][p])
      BY <1>7 DEF Payout
    <3>2. /\ P'[g][p] = IF position'[g][p].claimed
                        THEN Payout(market'[g], position'[g][p]) ELSE -1
          /\ P[g][p] = IF position[g][p].claimed
                       THEN Payout(market[g], position[g][p]) ELSE -1
      BY DEF PaidToPositions
    <3>. HIDE DEF P
    <3>. QED
      BY <1>7, <3>1, <3>2
  <2>2. /\ P = [g \in Fixtures |-> [p \in Owners |-> P[g][p]]]
        /\ P' = [g \in Fixtures |-> [p \in Owners |-> P'[g][p]]]
    BY DEF PaidToPositions
  <2>. HIDE DEF P, payout
  <2>3. P' = [P EXCEPT ![f] = [P[f] EXCEPT ![o] = payout]]
    BY <2>1, <2>2
  <2>. QED
    BY <2>3 DEF P
<1>. HIDE DEF payout
<1>. QED
    BY <1>3, <1>4, <1>5, <1>6, <1>8, <1>9 DEF Promise!Pay

LEMMA TickIsClose ==
    ASSUME AccountsInv, Tick
    PROVE  Promise!Close
<1>1. now \in Nat /\ now' = now + 1 /\ UNCHANGED <<market, position, vault>>
    BY DEF Tick, tokens, AccountsInv, TypeOK
<1>2. \A f \in Fixtures : market[f].close_ts \in Int
    BY DEF AccountsInv, TypeOK, MarketType
<1>3. ClosedByClock' \in [Fixtures -> BOOLEAN]
  <2>1. \A f \in Fixtures : HasClosed(f)' \in BOOLEAN
    BY DEF HasClosed
  <2>. QED
    BY <2>1, Zenon DEF ClosedByClock
<1>4. \A f \in Fixtures : ClosedByClock[f] => ClosedByClock'[f]
  <2>1. ASSUME NEW f \in Fixtures, HasClosed(f) PROVE HasClosed(f)'
    BY <1>1, <1>2, <2>1 DEF HasClosed
  <2>2. ASSUME NEW f \in Fixtures PROVE ClosedByClock'[f] <=> HasClosed(f)'
    BY Zenon DEF ClosedByClock
  <2>. QED
    BY <2>1, <2>2, ClosedOf, Zenon
<1>5. UNCHANGED <<BetsOfPositions, ResultOfMarket, PaidToPositions, vault>>
    BY <1>1 DEF BetsOfPositions, ResultOfMarket, PaidToPositions
<1>. QED
    BY <1>3, <1>4, <1>5, BooksAreMarkets DEF Promise!Close

LEMMA StepKeepsPromise ==
    AccountsInv /\ [ChainNext]_vars => [Promise!Next]_(Promise!vars)
<1>. SUFFICES ASSUME AccountsInv, [ChainNext]_vars
              PROVE  Promise!Next \/ UNCHANGED Promise!vars
    OBVIOUS
<1>1. CASE AnyCreate
    BY <1>1, CreateIsStutter DEF AnyCreate
<1>2. CASE AnyBet
    BY <1>2, PlaceIsBet, BooksAreMarkets DEF AnyBet, Promise!Next
<1>3. ASSUME NEW f \in Fixtures, AnySettle(f) PROVE Promise!Next
    BY <1>3, ResolveIsDecide, BooksAreMarkets DEF AnySettle, Promise!Next
<1>4. ASSUME NEW o \in Owners, NEW f \in Fixtures, Collect(o, f) PROVE Promise!Next
    BY <1>4, ClaimIsPay, BooksAreMarkets DEF Collect, Promise!Next
<1>5. CASE Tick
    BY <1>5, TickIsClose DEF Promise!Next
<1>6. CASE AnyIssue \/ Publish \/ UNCHANGED vars
  <2>1. UNCHANGED <<position, market, vault, now>>
    BY <1>6 DEF AnyIssue, MintTo, Publish, PublishScores, tokens, vars
  <2>. QED
    BY <2>1, SameBook
<1>. QED
    BY <1>1, <1>2, <1>3, <1>4, <1>5, <1>6 DEF ChainNext

(* The program implements the parimutuel promise: whatever transactions    *)
(* are sent, in whatever order, bettors get no more and no less than the   *)
(* bets themselves entitle them to.                                        *)
THEOREM ProgramKeepsPromise == Spec => KeepsPromise
<1>. QED
    BY InitIsEmptyBook, StepKeepsPromise, AccountsInvariant, NextIsChain, PTL
       DEF Spec, KeepsPromise, Promise!Spec
=============================================================================
