-------------------------- MODULE MarketPageProofs --------------------------
(***************************************************************************)
(* Proofs about MarketPage, for every set of wallets and every number of   *)
(* reads and transactions under way.                                       *)
(*                                                                         *)
(* What the page shows, and what an answer under way will have it show, is *)
(* the past.  The program makes the past worth something: a resolved       *)
(* market never changes, and a position keeps its side and only grows.     *)
(* The invariant says no more of an old value than that, so that it        *)
(* survives any step of anybody, however late the value arrives.           *)
(***************************************************************************)
EXTENDS MarketPage, EscrowProofs

(* The bags of reads *)

LEMMA BagMembers ==
    /\ \A B1, B2 : DOMAIN (B1 (+) B2) = DOMAIN B1 \cup DOMAIN B2
    /\ \A B1, B2 : DOMAIN (B1 (-) B2) \subseteq DOMAIN B1
    /\ \A S : DOMAIN SetToBag(S) = S
    /\ DOMAIN EmptyBag = {}
    /\ \A B : BagToSet(B) = DOMAIN B
<1>1. \A B1, B2 : DOMAIN (B1 (+) B2) = DOMAIN B1 \cup DOMAIN B2
    BY DEF (+)
<1>2. \A B1, B2 : DOMAIN (B1 (-) B2) \subseteq DOMAIN B1
    BY DEF (-)
<1>3. \A S : DOMAIN SetToBag(S) = S
    BY DEF SetToBag
<1>4. DOMAIN EmptyBag = {}
    BY <1>3 DEF EmptyBag
<1>5. \A B : BagToSet(B) = DOMAIN B
    BY DEF BagToSet
<1>. QED
    BY <1>1, <1>2, <1>3, <1>4, <1>5

-----------------------------------------------------------------------------
(* The past of the market and of its positions *)

WasMarket(v, mk) == v.state = "Resolved" => v = mk

(* Position p once held a stake of amount a, and more since, on side k.     *)
Held(p, k, a) == p.market = Page /\ p.outcome = k /\ a \in Nat /\ a <= p.amount

WasShown(s, positions) ==
    \/ s = None
    \/ /\ s.owner \in Owners /\ s.outcome \in Outcomes
       /\ Held(positions[s.owner], s.outcome, s.amount)

WasRead(r, mk, positions) ==
    /\ r.kind = "position" => r.owner \in Owners
    /\ r.served /\ r.kind = "market" => WasMarket(r.value, mk)
    /\ r.served /\ r.kind = "position" =>
          \/ IsFresh(r.value)
          \/ /\ r.value.outcome \in Outcomes
             /\ Held(positions[r.owner], r.value.outcome, r.value.amount)

(* A transaction a card waits for, and what the picker took its side from. *)
WasSent(tx, positions) ==
    /\ tx.card \in {"bet", "claim", "resolve"}
    /\ tx.owner \in Wallets
    /\ tx.card = "bet" =>
          /\ tx.outcome \in Outcomes /\ tx.amount \in Nat
          /\ tx.lockedBy = tx.owner =>
                positions[tx.owner].market = Page /\ positions[tx.owner].outcome = tx.outcome

AreSent(sentBy, leftBy) ==
    \A tx \in sentBy \cup DOMAIN leftBy : WasSent(tx, position[Page])

PageInv ==
    /\ TypeOK /\ AccountsAgree
    /\ publicKey \in Wallets \cup {Nobody}
    /\ WasMarket(view, market[Page])
    /\ WasShown(shown, position[Page])
    /\ \A r \in DOMAIN reads : WasRead(r, market[Page], position[Page])
    /\ \A tx \in sent \cup DOMAIN left : WasSent(tx, position[Page])

(* The page sends transactions like any other. *)
LEMMA PageStepIsChain == PageInv /\ [PageNext]_pageVars => [ChainNext]_vars
<1>. SUFFICES ASSUME PageInv, [PageNext]_pageVars PROVE [ChainNext]_vars
    OBVIOUS
<1>0. Page \in Fixtures
    BY PageAssumption
<1>1. ASSUME NEW w, Connect(w) PROVE UNCHANGED vars
    BY <1>1 DEF Connect
<1>2. ASSUME NEW r, Serve(r) \/ MarketArrives(r) \/ PositionArrives(r) \/ ReadFails(r)
      PROVE  UNCHANGED vars
    BY <1>2 DEF Serve, MarketArrives, PositionArrives, ReadFails
<1>3. ASSUME NEW picked, NEW amount, ClickBet(picked, amount) PROVE UNCHANGED vars
    BY <1>3 DEF ClickBet, Send
<1>4. CASE RetryLoad \/ ClickClaim \/ ClickResolve
    BY <1>4 DEF RetryLoad, ClickClaim, ClickResolve, Send
<1>5. ASSUME NEW tx \in sent \cup BagToSet(left), Succeeds(tx) PROVE ChainNext
  <2>1. WasSent(tx, position[Page])
    BY BagMembers DEF PageInv
  <2>2. market[Page].state # "Absent" => market[Page].mint \in Mints
    BY <1>0 DEF PageInv, AccountsAgree, MarketAgrees
  <2>3. CASE tx.card = "resolve" /\ Settle(Page)
    <3>1. Next
        BY <1>0, <2>3 DEF Next
    <3>2. AnySettle(Page)
        BY <2>3, Inputs DEF Settle, AnySettle
    <3>. QED
        BY <1>0, <3>2 DEF ChainNext
  <2>4. CASE tx.card = "bet" /\ Place(tx.owner, Page, market[Page].mint, tx.outcome, tx.amount)
    <3>1. market[Page].mint \in Mints
        BY <2>2, <2>4 DEF Place, AcceptsStakes
    <3>2. tx.owner \in Owners /\ tx.amount \in Nat /\ tx.outcome \in 0..COUNT
        BY <2>1, <2>4, PageAssumption DEF WasSent, Outcomes, COUNT
    <3>3. AnyBet
        BY <1>0, <2>4, <3>1, <3>2 DEF AnyBet
    <3>. QED
        BY <3>3 DEF ChainNext
  <2>5. CASE tx.card = "claim" /\ Claim(tx.owner, Page, market[Page].mint)
    <3>1. market[Page].mint \in Mints
        BY <2>2, <2>5 DEF Claim, MayClaim
    <3>2. tx.owner \in Owners
        BY <2>1, PageAssumption DEF WasSent
    <3>3. Collect(tx.owner, Page)
        BY <2>5, <3>1 DEF Collect
    <3>. QED
        BY <1>0, <3>2, <3>3 DEF ChainNext
  <2>. QED
    BY <1>5, <2>3, <2>4, <2>5 DEF Succeeds, Executes
<1>6. ASSUME NEW tx, Fails(tx) PROVE UNCHANGED vars
    BY <1>6 DEF Fails
<1>7. CASE MarketStep
    BY <1>7, NextIsChain DEF MarketStep
<1>8. CASE UNCHANGED pageVars
    BY <1>8 DEF pageVars
<1>. QED
    BY <1>1, <1>2, <1>3, <1>4, <1>5, <1>6, <1>7, <1>8 DEF PageNext

-----------------------------------------------------------------------------
(* The past stays the past *)

LEMMA PositionsKeep ==
    ASSUME TypeOK, TypeOK', PositionStep, NEW o \in Owners, position[Page][o].market = Page
    PROVE  /\ position'[Page][o].market = Page
           /\ position'[Page][o].outcome = position[Page][o].outcome
           /\ position'[Page][o].amount >= position[Page][o].amount
<1>1. Page \in Fixtures
    BY PageAssumption
<1>2. /\ position'[Page][o].outcome = position[Page][o].outcome
      /\ position'[Page][o].market = Page
    BY <1>1 DEF PositionStep, IsStaked
<1>3. position[Page][o].amount \in Nat /\ position'[Page][o].amount \in Nat
    BY <1>1, Inputs DEF TypeOK, PositionType
<1>4. \/ position'[Page][o].amount = position[Page][o].amount
      \/ position'[Page][o].amount - position[Page][o].amount > 0
    BY <1>1 DEF PositionStep
<1>. QED
    BY <1>2, <1>3, <1>4

LEMMA PastStands ==
    ASSUME PageInv, [ChainNext]_vars
    PROVE  /\ TypeOK' /\ AccountsAgree'
           /\ \A v : WasMarket(v, market[Page]) => WasMarket(v, market'[Page])
           /\ \A s : WasShown(s, position[Page]) => WasShown(s, position'[Page])
           /\ \A r : WasRead(r, market[Page], position[Page])
                        => WasRead(r, market'[Page], position'[Page])
           /\ \A tx : WasSent(tx, position[Page]) => WasSent(tx, position'[Page])
<1>0. TypeOK /\ AccountsAgree /\ Page \in Fixtures
    BY PageAssumption DEF PageInv
<1>1. TypeOK' /\ AccountsAgree' /\ PositionStep
    BY <1>0, NextTypeOK, NextAccountsAgree, StepGrowsPositions
<1>2. market[Page].state = "Resolved" => market'[Page] = market[Page]
    BY <1>0, StepKeepsResolved DEF FinalStep
<1>3. \A o \in Owners : position[Page][o].market = Page =>
          /\ position'[Page][o].market = Page
          /\ position'[Page][o].outcome = position[Page][o].outcome
          /\ position'[Page][o].amount >= position[Page][o].amount
    BY <1>0, <1>1, PositionsKeep
<1>4. \A v : WasMarket(v, market[Page]) => WasMarket(v, market'[Page])
    BY <1>2 DEF WasMarket
<1>5. ASSUME NEW o \in Owners, NEW k, NEW a, Held(position[Page][o], k, a)
      PROVE  Held(position'[Page][o], k, a)
  <2>1. position[Page][o].amount \in Nat /\ position'[Page][o].amount \in Nat
    BY <1>0, <1>1, Inputs DEF TypeOK, PositionType
  <2>. QED
    BY <1>3, <1>5, <2>1 DEF Held
<1>6. ASSUME NEW s, WasShown(s, position[Page]) PROVE WasShown(s, position'[Page])
    BY <1>5, <1>6 DEF WasShown
<1>7. ASSUME NEW r, WasRead(r, market[Page], position[Page])
      PROVE  WasRead(r, market'[Page], position'[Page])
    BY <1>4, <1>5, <1>7 DEF WasRead
<1>8. ASSUME NEW tx, WasSent(tx, position[Page]) PROVE WasSent(tx, position'[Page])
    BY <1>3, <1>8, PageAssumption DEF WasSent
<1>. QED
    BY <1>1, <1>4, <1>6, <1>7, <1>8

(* The invariant survives a step in which whatever changes on the page      *)
(* changes to something that was true before the step.                      *)
LEMMA PageKeeps ==
    ASSUME PageInv, [ChainNext]_vars,
           publicKey' \in Wallets \cup {Nobody},
           WasMarket(view', market[Page]),
           WasShown(shown', position[Page]),
           \A r \in DOMAIN reads' : WasRead(r, market[Page], position[Page]),
           AreSent(sent', left')
    PROVE  PageInv'
    BY PastStands DEF PageInv, AreSent

-----------------------------------------------------------------------------
(* What is asked, and what arrives *)

AreReads(bag) == \A r \in DOMAIN bag : WasRead(r, market[Page], position[Page])

LEMMA NewReads ==
    /\ AreReads(MarketReads)
    /\ \A w \in Wallets \cup {Nobody} : AreReads(UserReads(w))
    /\ \A B1, B2 : AreReads(B1) /\ AreReads(B2) => AreReads(B1 (+) B2)
    /\ \A B1, B2 : AreReads(B1) => AreReads(B1 (-) B2)
<1>1. WasRead(Ask("market", Nobody), market[Page], position[Page])
    BY DEF WasRead, Ask
<1>2. ASSUME NEW w \in Wallets
      PROVE  WasRead(Ask("position", w), market[Page], position[Page])
    BY PageAssumption DEF WasRead, Ask
<1>3. AreReads(MarketReads)
    BY <1>1, BagMembers DEF AreReads, MarketReads
<1>4. ASSUME NEW w \in Wallets \cup {Nobody} PROVE AreReads(UserReads(w))
    BY <1>2, BagMembers DEF AreReads, UserReads
<1>5. ASSUME NEW B1, NEW B2, AreReads(B1), AreReads(B2) PROVE AreReads(B1 (+) B2)
  <2>1. DOMAIN (B1 (+) B2) = DOMAIN B1 \cup DOMAIN B2
    BY BagMembers
  <2>. QED
    BY <1>5, <2>1 DEF AreReads
<1>6. \A B1, B2 : AreReads(B1) => AreReads(B1 (-) B2)
    BY BagMembers DEF AreReads
<1>. QED
    BY <1>3, <1>4, <1>5, <1>6

LEMMA LoadUserKeeps ==
    ASSUME NEW w \in Wallets \cup {Nobody}, NEW v, NEW others, AreReads(others),
           WasShown(shown, position[Page]), LoadUser(w, v, others)
    PROVE  AreReads(reads') /\ WasShown(shown', position[Page])
    BY NewReads DEF LoadUser, Begin, WasShown

(* What a card had sent is still what it was when the card leaves the page. *)
LEMMA UnmountKeeps ==
    ASSUME AreSent(sent, left), NEW v, NEW error, Unmount(v, error)
    PROVE  AreSent(sent', left')
<1>. DEFINE gone == {tx \in sent : ~OnPage(tx.card, v, error)}
<1>1. sent' = sent \ gone /\ left' = left (+) SetToBag(gone) /\ gone \subseteq sent
    BY DEF Unmount
<1>. HIDE DEF gone
<1>2. DOMAIN (left (+) SetToBag(gone)) = DOMAIN left \cup DOMAIN SetToBag(gone)
    BY BagMembers
<1>3. DOMAIN left' = DOMAIN left \cup gone
    BY <1>1, <1>2, BagMembers
<1>. QED
    BY <1>1, <1>3 DEF AreSent

LEMMA EndKeeps ==
    ASSUME AreSent(sent, left), NEW tx, Ends(tx)
    PROVE  AreSent(sent', left')
<1>1. sent' \subseteq sent
    BY DEF Ends
<1>2. DOMAIN left' \subseteq DOMAIN left
    BY BagMembers DEF Ends
<1>. QED
    BY <1>1, <1>2 DEF AreSent

(* The node answers with the present, which is soon the past. *)
LEMMA ServedRead ==
    ASSUME PageInv, NEW r, WasRead(r, market[Page], position[Page])
    PROVE  WasRead([kind |-> r.kind, owner |-> r.owner, served |-> TRUE,
                    value |-> ValueOf(r)], market[Page], position[Page])
<1>1. CASE r.kind = "market"
    BY <1>1 DEF WasRead, WasMarket, ValueOf
<1>2. CASE r.kind = "position"
  <2>. DEFINE p == position[Page][r.owner]
  <2>1. r.owner \in Owners /\ Page \in Fixtures /\ ValueOf(r) = p
    BY <1>2, PageAssumption DEF WasRead, ValueOf
  <2>2. p \in PositionType /\ p.market \in {NoKey, Page}
    BY <2>1 DEF PageInv, TypeOK, AccountsAgree, PositionAgrees
  <2>3. p.outcome \in Outcomes /\ p.amount \in Nat
    BY <2>2, Inputs DEF PositionType
  <2>4. IsFresh(p) \/ Held(p, p.outcome, p.amount)
    BY <2>2, <2>3 DEF IsFresh, Held
  <2>. HIDE DEF p
  <2>. QED
    BY <1>2, <2>1, <2>3, <2>4 DEF WasRead, p
<1>3. CASE r.kind \notin {"market", "position"}
    BY <1>3 DEF WasRead
<1>. QED
    BY <1>1, <1>2, <1>3

LEMMA ReadsKeep ==
    ASSUME PageInv, NEW r,
           Serve(r) \/ MarketArrives(r) \/ PositionArrives(r) \/ ReadFails(r)
    PROVE  /\ AreReads(reads') /\ WasShown(shown', position[Page])
           /\ WasMarket(view', market[Page])
           /\ AreSent(sent', left')
           /\ UNCHANGED publicKey
<1>1. WasRead(r, market[Page], position[Page])
    BY BagMembers DEF PageInv, Serve, MarketArrives, PositionArrives, ReadFails, Arrived, BagIn
<1>2. /\ AreReads(reads) /\ AreReads(Without(r))
      /\ WasShown(shown, position[Page]) /\ WasMarket(view, market[Page])
      /\ publicKey \in Wallets \cup {Nobody} /\ AreSent(sent, left)
  <2>1. AreReads(reads) /\ AreSent(sent, left)
    BY DEF PageInv, AreReads, AreSent
  <2>. QED
    BY <2>1, NewReads DEF PageInv, Without
<1>3. CASE Serve(r)
  <2>. DEFINE answer == [kind |-> r.kind, owner |-> r.owner, served |-> TRUE,
                         value |-> ValueOf(r)]
  <2>1. /\ reads' = Without(r) (+) SetToBag({answer})
        /\ UNCHANGED <<vars, page, transactions>>
    BY <1>3 DEF Serve, Without
  <2>2. WasRead(answer, market[Page], position[Page])
    BY <1>1, ServedRead
  <2>. HIDE DEF answer
  <2>3. AreReads(SetToBag({answer}))
    BY <2>2, BagMembers DEF AreReads
  <2>. QED
    BY <1>2, <2>1, <2>3, NewReads DEF page, transactions, AreSent
<1>4. CASE MarketArrives(r)
  <2>1. r.served /\ r.kind = "market"
    BY <1>4 DEF MarketArrives, Arrived
  <2>2. WasMarket(r.value, market[Page])
    BY <1>1, <2>1 DEF WasRead
  <2>3. CASE r.value = AbsentMarket
    BY <1>2, <1>4, <2>3, UnmountKeeps DEF MarketArrives
  <2>4. CASE r.value # AbsentMarket
    <3>1. /\ view' = r.value /\ LoadUser(publicKey, r.value, Without(r))
          /\ Unmount(r.value, marketError) /\ UNCHANGED publicKey
        BY <1>4, <2>4 DEF MarketArrives
    <3>. QED
        BY <1>2, <2>2, <3>1, LoadUserKeeps, UnmountKeeps
  <2>. QED
    BY <2>3, <2>4
<1>5. CASE PositionArrives(r)
  <2>1. r.served /\ r.kind = "position"
    BY <1>5 DEF PositionArrives, Arrived
  <2>2. WasShown(shown', position[Page])
    <3>1. CASE IsFresh(r.value)
        BY <1>5, <3>1 DEF PositionArrives, WasShown
    <3>2. CASE ~IsFresh(r.value)
        BY <1>1, <1>5, <2>1, <3>2 DEF PositionArrives, WasRead, WasShown
    <3>. QED
        BY <3>1, <3>2
  <2>. QED
    BY <1>2, <1>5, <2>2 DEF PositionArrives, transactions, AreSent
<1>6. CASE ReadFails(r)
  <2>1. shown' = None \/ shown' = shown
    BY <1>6 DEF ReadFails, MarketFails, PositionFails
  <2>2. CASE MarketFails(r)
    BY <1>2, <1>6, <2>1, <2>2, UnmountKeeps DEF ReadFails, MarketFails, WasShown
  <2>3. CASE PositionFails(r)
    BY <1>2, <1>6, <2>1, <2>3 DEF ReadFails, PositionFails, WasShown, transactions, AreSent
  <2>. QED
    BY <1>6, <2>2, <2>3 DEF ReadFails
<1>. QED
    BY <1>3, <1>4, <1>5, <1>6

-----------------------------------------------------------------------------
(* What the cards send *)

LEMMA BetKeeps ==
    ASSUME PageInv, NEW picked \in Outcomes, NEW amount \in Amounts,
           ClickBet(picked, amount)
    PROVE  AreSent(sent', left')
<1>. DEFINE tx == [card |-> "bet", owner |-> publicKey, outcome |-> Selected(picked),
                   amount |-> amount, lockedBy |-> shown.owner]
<1>1. sent' = sent \cup {tx} /\ left' = left /\ publicKey # Nobody
    BY DEF ClickBet, Send
<1>2. publicKey \in Wallets /\ amount \in Nat
    BY <1>1, Inputs DEF PageInv
<1>3. WasShown(shown, position[Page])
    BY DEF PageInv
<1>4. CASE shown = None
  <2>1. shown.owner = Nobody /\ Selected(picked) = picked
    BY <1>4 DEF None, Selected
  <2>. QED
    BY <1>1, <1>2, <2>1 DEF PageInv, WasSent, AreSent
<1>5. CASE shown # None
  <2>1. /\ Selected(picked) = shown.outcome /\ shown.outcome \in Outcomes
        /\ position[Page][shown.owner].market = Page
        /\ position[Page][shown.owner].outcome = shown.outcome
    BY <1>3, <1>5 DEF Selected, WasShown, Held
  <2>2. WasSent(tx, position[Page])
    BY <1>2, <2>1 DEF WasSent
  <2>. HIDE DEF tx
  <2>. QED
    BY <1>1, <2>2 DEF PageInv, AreSent
<1>. QED
    BY <1>4, <1>5

LEMMA ClickKeeps ==
    ASSUME PageInv, ClickClaim \/ ClickResolve
    PROVE  AreSent(sent', left')
<1>1. publicKey \in Wallets
    BY DEF PageInv, ClickClaim, ClickResolve
<1>2. ASSUME NEW card \in {"claim", "resolve"}
      PROVE  WasSent([card |-> card, owner |-> publicKey], position[Page])
    BY <1>1 DEF WasSent
<1>. QED
    BY <1>2 DEF PageInv, ClickClaim, ClickResolve, Send, AreSent

LEMMA PageInvHolds ==
    /\ PageInit => PageInv
    /\ PageInv /\ [PageNext]_pageVars => PageInv'
<1>1. ASSUME PageInit PROVE PageInv
  <2>1. TypeOK /\ AccountsAgree
    BY <1>1, InitTypeOK, InitUncalled, UncalledAgree DEF PageInit
  <2>2. AreReads(reads) /\ sent \cup DOMAIN left = {}
    BY <1>1, NewReads, BagMembers DEF PageInit
  <2>. QED
    BY <1>1, <2>1, <2>2 DEF PageInit, PageInv, AreReads, WasMarket, WasShown, AbsentMarket
<1>2. ASSUME PageInv, [PageNext]_pageVars PROVE PageInv'
  <2>1. [ChainNext]_vars
    BY <1>2, PageStepIsChain
  <2>2. /\ publicKey \in Wallets \cup {Nobody} /\ WasMarket(view, market[Page])
        /\ WasShown(shown, position[Page]) /\ AreReads(reads)
        /\ AreSent(sent, left)
    BY <1>2 DEF PageInv, AreReads, AreSent
  <2>. DEFINE Lawful ==
                /\ publicKey' \in Wallets \cup {Nobody} /\ WasMarket(view', market[Page])
                /\ WasShown(shown', position[Page]) /\ AreReads(reads')
                /\ AreSent(sent', left')
  <2>3. Lawful
    <3>1. ASSUME NEW w \in Wallets \cup {Nobody}, Connect(w) PROVE Lawful
        BY <2>2, <3>1, LoadUserKeeps DEF Connect, transactions, AreSent
    <3>2. CASE RetryLoad
        BY <2>2, <3>2, NewReads DEF RetryLoad, Begin, transactions, AreSent
    <3>3. ASSUME NEW r, Serve(r) \/ MarketArrives(r) \/ PositionArrives(r) \/ ReadFails(r)
          PROVE  Lawful
        BY <1>2, <2>2, <3>3, ReadsKeep
    <3>4. ASSUME NEW picked \in Outcomes, NEW amount \in Amounts, ClickBet(picked, amount)
          PROVE  Lawful
        BY <1>2, <2>2, <3>4, BetKeeps DEF ClickBet, Send, page
    <3>5. CASE ClickClaim \/ ClickResolve
        BY <1>2, <2>2, <3>5, ClickKeeps DEF ClickClaim, ClickResolve, Send, page
    <3>6. ASSUME NEW tx \in sent \cup BagToSet(left), Succeeds(tx) PROVE Lawful
      <4>1. /\ reads' = (reads (+) MarketReads) (+) UserReads(tx.owner)
            /\ UNCHANGED <<publicKey, view, shown>> /\ Ends(tx)
        BY <3>6 DEF Succeeds, RefreshAll, Begin
      <4>2. tx.owner \in Wallets
        BY <2>2, BagMembers DEF AreSent, WasSent
      <4>3. AreReads(reads (+) MarketReads) /\ AreReads(UserReads(tx.owner))
        BY <2>2, <4>2, NewReads
      <4>4. AreReads(reads')
        BY <4>1, <4>3, NewReads
      <4>. QED
        BY <2>2, <4>1, <4>4, EndKeeps
    <3>7. ASSUME NEW tx, Fails(tx) PROVE Lawful
        BY <2>2, <3>7, EndKeeps DEF Fails, page
    <3>8. CASE MarketStep \/ UNCHANGED pageVars
        BY <2>2, <3>8 DEF MarketStep, pageVars, page, transactions, AreSent
    <3>. QED
        BY <1>2, <3>1, <3>2, <3>3, <3>4, <3>5, <3>6, <3>7, <3>8 DEF PageNext
  <2>. QED
    BY <1>2, <2>1, <2>3, PageKeeps DEF AreReads
<1>. QED
    BY <1>1, <1>2
(* Whatever the page shows and has under way is the past of the program. *)
THEOREM PageKeepsInv == PageSpec => []PageInv
<1>1. PageInv /\ [PageNext]_pageVars => PageInv'
    BY PageInvHolds
<1>2. PageInit => PageInv
    BY PageInvHolds
<1>. QED
    BY <1>1, <1>2, PTL DEF PageSpec

-----------------------------------------------------------------------------
(* The promises of the cards *)

LEMMA QuotientGrows ==
    ASSUME NEW a \in Nat, NEW b \in Nat, NEW t \in Nat, NEW w \in Nat \ {0}, a <= b
    PROVE  (a * t) \div w <= (b * t) \div w
<1>. DEFINE n == a * t
<1>. DEFINE q == n \div w
<1>1. n \in Nat /\ b * t \in Nat /\ n <= b * t
    OBVIOUS
<1>. HIDE DEF n
<1>2. q \in Nat /\ q * w <= n
    BY <1>1
<1>. HIDE DEF q
<1>3. q * w <= b * t
  <2>. DEFINE x == q * w
  <2>. DEFINE y == b * t
  <2>1. x \in Int /\ y \in Int /\ x <= n /\ n <= y /\ n \in Int
    BY <1>1, <1>2
  <2>. HIDE DEF x, y
  <2>2. x <= y
    BY <2>1
  <2>. QED
    BY <2>2 DEF x, y
<1>4. q <= (b * t) \div w
    BY <1>1, <1>2, <1>3, QuotientBound
<1>. QED
    BY <1>4 DEF q, n

(* What the claim card offers is claimed already, or may be claimed and     *)
(* pays at least what the card says (claim-card.tsx), although the market   *)
(* and the position were read at different times and may both be old: only  *)
(* a resolved market is offered, which is the market of now, and the side   *)
(* of a position is its side of now, with no less behind it.                *)
THEOREM OffersAlwaysHonoured == PageSpec => []OffersAreHonoured
<1>1. ASSUME PageInv PROVE OffersAreHonoured
  <2>. SUFFICES ASSUME OffersClaim, ~position[Page][shown.owner].claimed
                PROVE  /\ MayClaim(Page, shown.owner)
                       /\ Payout(market[Page], position[Page][shown.owner])
                             >= estimatePayout(view, shown)
    BY DEF OffersAreHonoured
  <2>. DEFINE mk == market[Page]
  <2>. DEFINE p == position[Page][shown.owner]
  <2>1. Page \in Fixtures /\ shown.owner \in Owners /\ TypeOK /\ AccountsAgree
    BY <1>1, PageAssumption DEF PageInv, OffersClaim, WasShown
  <2>2. view = mk /\ mk.state = "Resolved"
    BY <1>1 DEF PageInv, OffersClaim, Shown, OnPage, WasMarket
  <2>3. Held(p, shown.outcome, shown.amount)
    BY <1>1 DEF PageInv, OffersClaim, WasShown
  <2>4. mk.outcome # NoOutcome
    BY <2>1, <2>2 DEF AccountsAgree, MarketAgrees
  <2>5. IsEntitled(mk, p)
    BY <2>2, <2>3 DEF OffersClaim, IsEntitled, Held
  <2>6. MayClaim(Page, shown.owner)
    BY <2>2, <2>3, <2>4, <2>5 DEF MayClaim, Held
  <2>7. mk \in MarketType /\ p \in PositionType
    BY <2>1 DEF TypeOK
  <2>. HIDE DEF mk, p
  <2>8. p.amount \in Nat /\ shown.amount \in Nat /\ shown.amount <= p.amount
    BY <2>3, <2>7, Inputs DEF PositionType, Held
  <2>9. WinningPool(mk) \in Nat /\ TotalPool(mk) \in Nat
    <3>1. mk.outcome \in Outcomes
        BY <2>4, <2>7 DEF MarketType
    <3>. QED
        BY <2>7, <3>1, PoolTypes DEF WinningPool
  <2>10. Payout(mk, p) >= estimatePayout(mk, shown)
    <3>1. CASE WinningPool(mk) = 0
        BY <2>8, <3>1 DEF Payout, estimatePayout
    <3>2. CASE WinningPool(mk) # 0
      <4>. DEFINE w == WinningPool(mk)
      <4>. DEFINE t == TotalPool(mk)
      <4>1. shown.outcome = mk.outcome
        BY <2>2, <3>2 DEF OffersClaim
      <4>2. w \in Nat \ {0} /\ t \in Nat
        BY <2>9, <3>2
      <4>. HIDE DEF w, t
      <4>3. (shown.amount * t) \div w <= (p.amount * t) \div w
        BY <2>8, <4>2, QuotientGrows
      <4>4. /\ Payout(mk, p) = (p.amount * t) \div w
            /\ estimatePayout(mk, shown) = (shown.amount * t) \div w
        BY <3>2, <4>1 DEF Payout, estimatePayout, w, t
      <4>5. (shown.amount * t) \div w \in Int /\ (p.amount * t) \div w \in Int
        BY <2>8, <4>2
      <4>. QED
        BY <4>3, <4>4, <4>5
    <3>. QED
        BY <3>1, <3>2
  <2>. QED
    BY <2>2, <2>6, <2>10 DEF mk, p
<1>. QED
    BY <1>1, PageKeepsInv, PTL

(* A bet whose side the picker took from the sender's own position          *)
(* (place-bet.tsx) is on the side the program has for that position: a      *)
(* position never changes sides, however late the bet and however old the   *)
(* position on the page.                                                    *)
THEOREM LockedBetsAlwaysKeepSide == PageSpec => []LockedBetsKeepSide
<1>1. PageInv => LockedBetsKeepSide
  <2>1. BagToSet(left) = DOMAIN left
    BY BagMembers
  <2>. QED
    BY <2>1 DEF PageInv, LockedBetsKeepSide, WasSent, SameSide
<1>. QED
    BY <1>1, PageKeepsInv, PTL

(* However outdated the page its users look at, funds move only as          *)
(* promised, a resolved market stays as it is, and positions only grow      *)
(* (place.rs, claim.rs, resolve.rs).                                        *)
THEOREM PageKeepsFundsInPlace ==
    PageSpec => FundsMoveOnlyAsPromised /\ ResolvedIsFinal /\ PositionsOnlyGrow
<1>1. PageInv /\ [PageNext]_pageVars => VaultStep /\ FinalStep /\ PositionStep
    BY PageStepIsChain, StepMovesFunds, StepKeepsResolved, StepGrowsPositions DEF PageInv
<1>. QED
    BY <1>1, PageKeepsInv, PTL
       DEF PageSpec, FundsMoveOnlyAsPromised, ResolvedIsFinal, PositionsOnlyGrow
=============================================================================
