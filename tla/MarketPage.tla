----------------------------- MODULE MarketPage -----------------------------
(***************************************************************************)
(* The page of one market in a browser tab: what it has read of the market *)
(* and of the connected wallet's position, and what its cards offer and    *)
(* send on the strength of that.  The market is an account of              *)
(* TxsettleMarket, which other people act on at any time.                  *)
(*                                                                         *)
(* The page runs on one JavaScript thread, and an action is what runs      *)
(* between two awaits, with the React effects it triggers.  A read is      *)
(* asked, served by the RPC node at some later time (Serve) and arrives    *)
(* later still; reads are never cancelled and arrive in any order, or      *)
(* fail for good once withRetry gives up.  A transaction that fails        *)
(* towards the page may land all the same: it is then one of the bets and  *)
(* claims that MarketStep makes for anybody.                               *)
(*                                                                         *)
(* The funds of the wallet are left out.  They are read along with the     *)
(* position, may be as outdated as that, and only keep the user from       *)
(* sending a transaction which may fail anyway (Fails): one of a wallet    *)
(* without funds, or with the token account of the wallet before.  So is   *)
(* the faucet's button, whose success reads everything again.              *)
(***************************************************************************)
EXTENDS TxsettleMarket, Bags

CONSTANTS
    Page,      (* the fixture of the market the page shows                  *)
    Wallets,   (* the owners whose wallet may be connected in the tab       *)
    MaxReads,  (* bound of the number of reads under way                    *)
    MaxSent    (* bound of the number of transactions the page waits for    *)

ASSUME PageAssumption ==
    /\ Page \in Fixtures
    /\ Wallets \subseteq Owners
    /\ MaxReads \in Nat
    /\ MaxSent \in Nat

Nobody == 0
None == [owner |-> Nobody]

VARIABLES
    publicKey,    (* the connected wallet, or Nobody                        *)
    view,         (* the market as last read, AbsentMarket before that      *)
    marketError,  (* whether an error is shown in the place of the page     *)
    shown,        (* the position as last read, and whose it is, or None    *)
    reads,        (* the reads under way, a bag                             *)
    sent,         (* the transactions the cards wait for                    *)
    left          (* those of cards that have left the page since, a bag    *)

transactions == <<sent, left>>
page == <<publicKey, view, marketError, shown>>
pageVars == <<vars, page, reads, transactions>>

-----------------------------------------------------------------------------
(* market-detail.tsx *)

Ask(kind, owner) == [kind |-> kind, owner |-> owner, served |-> FALSE]

(* What loadMarket and loadUser ask for; the latter asks nothing without a *)
(* wallet or a market.                                                     *)
MarketReads == SetToBag({Ask("market", Nobody)})
UserReads(w) ==
    IF w = Nobody THEN EmptyBag ELSE SetToBag({Ask("position", w)})

Begin(bag) == reads' = bag /\ BagCardinality(bag) <= MaxReads

(* loadUser as the effect of a change of the wallet or of the market: what *)
(* was shown before stays until an answer arrives.                         *)
LoadUser(w, v, others) ==
    IF w = Nobody \/ v = AbsentMarket
    THEN /\ shown' = None
         /\ reads' = others
    ELSE /\ Begin(others (+) UserReads(w))
         /\ UNCHANGED shown

Connect(w) ==
    /\ w # publicKey
    /\ publicKey' = w
    /\ LoadUser(w, view, reads)
    /\ UNCHANGED <<vars, view, marketError, transactions>>

(* Try again, beside the message that the market could not be loaded. *)
RetryLoad ==
    /\ marketError
    /\ marketError' = FALSE
    /\ Begin(reads (+) MarketReads)
    /\ UNCHANGED <<vars, publicKey, view, shown, transactions>>

(* The node answers with the state of the chain at this time. *)
ValueOf(r) == IF r.kind = "market" THEN market[Page] ELSE position[Page][r.owner]

Serve(r) ==
    /\ BagIn(r, reads)
    /\ ~r.served
    /\ reads' = (reads (-) SetToBag({r})) (+)
                    SetToBag({[kind |-> r.kind, owner |-> r.owner, served |-> TRUE,
                               value |-> ValueOf(r)]})
    /\ UNCHANGED <<vars, page, transactions>>

Arrived(r, kind) == BagIn(r, reads) /\ r.kind = kind /\ r.served
Without(r) == reads (-) SetToBag({r})

(* An error takes the place of the page, and a market that is no longer    *)
(* open has other cards than one that is.                                  *)
OnPage(card, v, error) ==
    /\ ~error
    /\ v.state = IF card = "claim" THEN "Resolved" ELSE "Open"

(* A card that leaves the page keeps nothing: it is mounted anew when it   *)
(* comes back, while what it had sent is still under way.                  *)
Unmount(v, error) ==
    LET gone == {tx \in sent : ~OnPage(tx.card, v, error)}
    IN  /\ sent' = sent \ gone
        /\ left' = left (+) SetToBag(gone)

(* fetchMarket throws for an account that does not exist. *)
MarketArrives(r) ==
    /\ Arrived(r, "market")
    /\ IF r.value = AbsentMarket
       THEN /\ marketError' = TRUE
            /\ reads' = Without(r)
            /\ Unmount(view, TRUE)
            /\ UNCHANGED <<view, shown>>
       ELSE /\ view' = r.value
            /\ LoadUser(publicKey, r.value, Without(r))
            /\ Unmount(r.value, marketError)
            /\ UNCHANGED marketError
    /\ UNCHANGED <<vars, publicKey>>

(* fetchNullable: no account is no position. *)
PositionArrives(r) ==
    /\ Arrived(r, "position")
    /\ shown' = IF IsFresh(r.value) THEN None
                ELSE [owner |-> r.owner, outcome |-> r.value.outcome,
                      amount |-> r.value.amount, claimed |-> r.value.claimed]
    /\ reads' = Without(r)
    /\ UNCHANGED <<vars, publicKey, view, marketError, transactions>>

(* An error hides the market, and takes a position for none. *)
MarketFails(r) ==
    /\ r.kind = "market"
    /\ marketError' = TRUE
    /\ Unmount(view, TRUE)
    /\ UNCHANGED shown

PositionFails(r) ==
    /\ r.kind = "position"
    /\ shown' = None
    /\ UNCHANGED <<marketError, transactions>>

ReadFails(r) ==
    /\ BagIn(r, reads)
    /\ reads' = Without(r)
    /\ MarketFails(r) \/ PositionFails(r)
    /\ UNCHANGED <<vars, publicKey, view>>

(* refreshAll of the render in which w was the connected wallet. *)
RefreshAll(w) ==
    /\ marketError' = FALSE
    /\ Begin(reads (+) MarketReads (+) UserReads(w))
    /\ UNCHANGED <<publicKey, view, shown>>

-----------------------------------------------------------------------------
(* The cards.  Each waits for one transaction at a time, for as long as it *)
(* stays on the page.                                                      *)

Shown(card) == OnPage(card, view, marketError)

Send(tx) ==
    /\ \A other \in sent : other.card # tx.card
    /\ Cardinality(sent) + BagCardinality(left) < MaxSent
    /\ sent' = sent \cup {tx}
    /\ UNCHANGED <<vars, page, reads, left>>

(* Mutant: the picker is not locked. *)
SelectedFreely(picked) == picked

(* place-bet.tsx.  The outcome sent when the user has picked one: a shown  *)
(* position locks the picker.                                              *)
Selected(picked) == IF shown = None THEN picked ELSE shown.outcome

(* bettingOpen also asks the browser's clock, which need not agree with    *)
(* the chain's and is not modelled: after the close, place refuses.        *)
ClickBet(picked, amount) ==
    /\ Shown("bet")
    /\ publicKey # Nobody
    /\ amount > 0
    /\ Send([card |-> "bet", owner |-> publicKey,
             outcome |-> Selected(picked), amount |-> amount, lockedBy |-> shown.owner])

(* What the claim card says a position is worth. *)
estimatePayout(mk, p) ==
    IF WinningPool(mk) = 0 THEN p.amount
    ELSE IF p.outcome # mk.outcome THEN 0
    ELSE (p.amount * TotalPool(mk)) \div WinningPool(mk)

(* Mutant: a losing position may claim. *)
OffersToLosers ==
    /\ Shown("claim")
    /\ shown # None
    /\ ~shown.claimed

(* claim-card.tsx: whether it offers to claim. *)
OffersClaim ==
    /\ Shown("claim")
    /\ shown # None
    /\ ~shown.claimed
    /\ WinningPool(view) = 0 \/ shown.outcome = view.outcome

ClickClaim ==
    /\ OffersClaim
    /\ publicKey # Nobody
    /\ Send([card |-> "claim", owner |-> publicKey])

(* resolve-card.tsx, whose way to the proof SettlementFlow models. *)
ClickResolve ==
    /\ Shown("resolve")
    /\ publicKey # Nobody
    /\ Send([card |-> "resolve", owner |-> publicKey])

Executes(tx) ==
    \/ tx.card = "resolve" /\ Settle(Page)
    \/ /\ tx.card = "bet"
       /\ Place(tx.owner, Page, market[Page].mint, tx.outcome, tx.amount)
    \/ /\ tx.card = "claim"
       /\ Claim(tx.owner, Page, market[Page].mint)

(* A transaction ends for the card that waits for it, or for nobody. *)
Ends(tx) ==
    \/ tx \in sent /\ sent' = sent \ {tx} /\ UNCHANGED left
    \/ BagIn(tx, left) /\ left' = left (-) SetToBag({tx}) /\ UNCHANGED sent

(* The page reads everything again, whether the card is still on it or not. *)
Succeeds(tx) == Ends(tx) /\ Executes(tx) /\ RefreshAll(tx.owner)

(* Declined, refused by the program, lost, or its answer lost. *)
Fails(tx) == Ends(tx) /\ UNCHANGED <<vars, page, reads>>

-----------------------------------------------------------------------------
(* Whatever anybody does to the market. *)
MarketStep == Next /\ UNCHANGED <<page, reads, transactions>>

PageInit ==
    /\ Init
    /\ publicKey = Nobody
    /\ view = AbsentMarket
    /\ marketError = FALSE
    /\ shown = None
    /\ reads = MarketReads
    /\ sent = {}
    /\ left = EmptyBag

PageNext ==
    \/ \E w \in Wallets \cup {Nobody} : Connect(w)
    \/ RetryLoad
    \/ \E r \in BagToSet(reads) :
          Serve(r) \/ MarketArrives(r) \/ PositionArrives(r) \/ ReadFails(r)
    \/ \E picked \in Outcomes, amount \in Amounts : ClickBet(picked, amount)
    \/ ClickClaim \/ ClickResolve
    \/ \E tx \in sent \cup BagToSet(left) : Succeeds(tx) \/ Fails(tx)
    \/ MarketStep

PageSpec == PageInit /\ [][PageNext]_pageVars

-----------------------------------------------------------------------------
(* Correctness *)

(* An offer is honoured: although the market and the position on the page  *)
(* were read at different times, and may both be old, what the claim card  *)
(* offers the owner of the position it shows is claimed already, or may be *)
(* claimed and pays at least what the card says.                           *)
OffersAreHonoured ==
    OffersClaim =>
        \/ position[Page][shown.owner].claimed
        \/ /\ MayClaim(Page, shown.owner)
           /\ Payout(market[Page], position[Page][shown.owner])
                 >= estimatePayout(view, shown)

(* A bet whose side the picker took from the sender's own position,        *)
(* however old, is on the side the program has for that position.          *)
LockedBetsKeepSide ==
    \A tx \in sent \cup BagToSet(left) :
        tx.card = "bet" /\ tx.lockedBy = tx.owner =>
            SameSide(position[Page][tx.owner], tx.outcome)

(* What the claim card's title says (claim-card.tsx:64), "Your position",  *)
(* and the picker relies on: once nothing is under way any more, the       *)
(* position shown is the connected wallet's.  The run that checks it shows *)
(* that a late answer for the wallet before is kept.                       *)
AtRestShowsOwnPosition ==
    reads = EmptyBag /\ shown # None /\ publicKey # Nobody => shown.owner = publicKey
=============================================================================
