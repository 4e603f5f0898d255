------------------------------ MODULE Fixtures ------------------------------
(***************************************************************************)
(* The names of the teams: fixtures.ts and the pages that ask it for them, *)
(* over the TxLINE client.  A load fetches two snapshots of fixtures in    *)
(* parallel and fails as soon as one of them does, while the other goes    *)
(* on; all the pages of a tab share one load, and a load that fails makes  *)
(* room for another.                                                       *)
(*                                                                         *)
(* The pages are the list of markets, which also reads the markets from    *)
(* the RPC node, and those that show one market and ask for the names once *)
(* they have read it (MarketPage models the rest of them).  An action is   *)
(* one of the client, or what a page does between two awaits, with the     *)
(* promises that settle in the same turn: Promise.all, the catch that      *)
(* clears fixturesPromise, and the then or catch of the page.  The calls   *)
(* that the proof cache makes of the same client are to the model like     *)
(* those of a load that the page has left behind.                          *)
(***************************************************************************)
EXTENDS TxLineClient

CONSTANTS
    Loads,     (* the calls of loadFixtures whose promises are held         *)
    CallsOf,   (* the two calls of the client that a load makes             *)
    List,      (* the list of markets                                       *)
    Pages      (* the pages of the app, the list included                   *)

ASSUME LoadsAssumption ==
    /\ CallsOf \in [Loads -> SUBSET Calls]
    /\ \A l1, l2 \in Loads : l1 # l2 => CallsOf[l1] \cap CallsOf[l2] = {}
    /\ \A l \in Loads : CallsOf[l] # {}
    /\ List \in Pages

NoLoad == 0
NoPage == "nowhere"
ASSUME NoneAssumption == NoLoad \notin Loads /\ NoPage \notin Pages

VARIABLES
    fixturesPromise,  (* the load that is kept, or NoLoad                   *)
    load,             (* what has become of every load                      *)
    page,             (* the page the tab shows, or NoPage                  *)
    names,            (* what it knows of the names                         *)
    markets           (* what the list shows of the markets                 *)

fixtures == <<fixturesPromise, load, names>>
fixturesVars == <<vars, fixtures, page, markets>>

(* A page that has just been opened: it shows the names or the bare ids,   *)
(* waits for some loads, and has been told of the failure of one or not.   *)
Opened == [shown |-> FALSE, waits |-> {}, told |-> FALSE]

-----------------------------------------------------------------------------
(* fixtures.ts *)

(* Mutant: a load fails only when both its calls have. *)
AllOfOrNone(l, pc) ==
    IF \A c \in CallsOf[l] : pc[c] = "threw" THEN "rejected"
    ELSE IF \A c \in CallsOf[l] : pc[c] = "returned" THEN "fulfilled"
    ELSE "pending"

(* What Promise.all makes of the calls of a load, now at pc. *)
AllOf(l, pc) ==
    IF \E c \in CallsOf[l] : pc[c] = "threw" THEN "rejected"
    ELSE IF \A c \in CallsOf[l] : pc[c] = "returned" THEN "fulfilled"
    ELSE "pending"

(* Mutant: a load that failed is kept. *)
KeepsRejected(loads) == fixturesPromise

(* The catch of getFixtures: a failure is not cached. *)
Kept(loads) ==
    IF fixturesPromise # NoLoad /\ loads[fixturesPromise] = "rejected"
    THEN NoLoad
    ELSE fixturesPromise

(* What the page knows once the loads have become loads. *)
Hears(loads) ==
    [waits |-> {l \in names.waits : loads[l] = "pending"},
     shown |-> names.shown \/ \E l \in names.waits : loads[l] = "fulfilled",
     told  |-> names.told \/ \E l \in names.waits : loads[l] = "rejected"]

(* The promises settle when the calls of the client have. *)
PromisesSettle ==
    LET pc == [c \in Calls |-> call'[c].pc]
        loads == [l \in Loads |-> IF load[l] = "pending" THEN AllOf(l, pc) ELSE load[l]]
    IN  /\ load' = loads
        /\ fixturesPromise' = Kept(loads)
        /\ names' = Hears(loads)

(* A step that the client takes by itself, and an answer that it gets. *)
ClientStep ==
    /\ \E c \in Calls : Retry(c) \/ Finish(c) \/ Settle(c)
    /\ PromisesSettle
    /\ UNCHANGED <<page, markets>>

AnswerStep ==
    /\ \E c \in Calls : AnswerRequest(c) \/ IssueJwt(c) \/ RefuseJwt(c)
    /\ UNCHANGED <<fixtures, page, markets>>

ExpireStep ==
    /\ \E token \in valid : Expire(token)
    /\ UNCHANGED <<fixtures, page, markets>>

(* A load whose calls have ended and that nobody holds makes room for one. *)
IsFree(l) ==
    /\ l # fixturesPromise
    /\ \A c \in CallsOf[l] : Ended(c)

(* A page that knows this much of the names calls getFixtures. *)
getFixtures(known) ==
    \/ /\ fixturesPromise # NoLoad
       /\ names' =
             IF load[fixturesPromise] = "fulfilled" THEN [known EXCEPT !.shown = TRUE]
             ELSE IF load[fixturesPromise] = "rejected" THEN known
             ELSE [known EXCEPT !.waits = @ \cup {fixturesPromise}]
       /\ UNCHANGED <<vars, fixturesPromise, load>>
    \/ /\ fixturesPromise = NoLoad
       /\ \E l \in {l \in Loads : IsFree(l)} :
             /\ Start(CallsOf[l])
             /\ fixturesPromise' = l
             /\ load' = [load EXCEPT ![l] = "pending"]
             /\ names' = [known EXCEPT !.waits = @ \cup {l}]

-----------------------------------------------------------------------------
(* markets-section.tsx *)

(* The effect of mounting the list, and the button of its error message. *)
OpenList ==
    /\ page = NoPage
    /\ page' = List
    /\ markets' = "loading"
    /\ getFixtures(Opened)

RetryList ==
    /\ page = List
    /\ markets = "error"
    /\ markets' = "loading"
    /\ getFixtures(names)
    /\ UNCHANGED page

(* fetchMarkets ends, for good or for bad, if it ever does: withRetry      *)
(* bounds the number of its attempts and not the time that one may take.   *)
MarketsArrive ==
    /\ markets = "loading"
    /\ markets' \in {"shown", "error"}
    /\ UNCHANGED <<vars, fixtures, page>>

-----------------------------------------------------------------------------
(* market-detail.tsx: a page of one market, which asks for the names every *)
(* time it has read the market.                                            *)
OpenMarket(p) ==
    /\ page = NoPage
    /\ p # List
    /\ page' = p
    /\ getFixtures(Opened)
    /\ UNCHANGED markets

AskAgain ==
    /\ page \notin {NoPage, List}
    /\ getFixtures(names)
    /\ UNCHANGED <<page, markets>>

(* The user leaves the page: what its promises do is dropped. *)
Leave ==
    /\ page # NoPage
    /\ page' = NoPage
    /\ names' = Opened
    /\ markets' = "closed"
    /\ UNCHANGED <<vars, fixturesPromise, load>>

-----------------------------------------------------------------------------
FixturesInit ==
    /\ Init
    /\ fixturesPromise = NoLoad
    /\ load = [l \in Loads |-> "rejected"]
    /\ page = NoPage
    /\ names = Opened
    /\ markets = "closed"

FixturesNext ==
    \/ ClientStep
    \/ AnswerStep \/ ExpireStep
    \/ OpenList \/ RetryList \/ MarketsArrive
    \/ \E p \in Pages : OpenMarket(p)
    \/ AskAgain \/ Leave

FixturesSpec == FixturesInit /\ [][FixturesNext]_fixturesVars

(* The client's own steps do not wait for anything.  Nothing is assumed of *)
(* the user or of the RPC node, which may leave fetchMarkets hanging.      *)
FairFixturesSpec == FixturesSpec /\ WF_fixturesVars(ClientStep)

(* As long as requests are under way, some are answered or fail. *)
ServerAnswers == WF_fixturesVars(AnswerStep)

-----------------------------------------------------------------------------
(* Correctness *)

(* A page waits for no load but the one that is kept, never for one that   *)
(* was given up and whose other call is still under way; and it shows bare *)
(* ids for no other reason than a failure since it was opened: no page is  *)
(* given a failure of before ("never cache a failure", fixtures.ts).       *)
NamesOrReason ==
    page # NoPage =>
        /\ names.waits \subseteq {fixturesPromise}
        /\ names.shown \/ names.waits # {} \/ names.told

(* If TxLINE answers, well or badly, the page gets the names or is told    *)
(* that it will not, whatever renewals of other calls it had to wait for.  *)
PageHears == ServerAnswers => (names.waits # {} ~> names.waits = {})
=============================================================================
