--------------------------- MODULE ResolveTxSearch ---------------------------
(***************************************************************************)
(* findResolveTx: the proof panel looks for the transaction that resolved  *)
(* a market.  It walks the newest signatures of the market's account until *)
(* it meets a transaction with a resolve instruction, and keeps what it    *)
(* found in localStorage, which all the searches of a browser share.       *)
(*                                                                         *)
(* A search is split at its awaits, and other searches and transactions    *)
(* come in between.  Any await may throw (SearchFails), and localStorage   *)
(* may be unavailable.                                                     *)
(*                                                                         *)
(* External: the ledger, to which anybody adds transactions that list some *)
(* markets and resolve some of these, perhaps through a failed resolve,    *)
(* and of which an RPC node knows the oldest transactions only, and may    *)
(* not have all of them at hand.  A resolve that another program makes by  *)
(* CPI is not among the instructions a search looks at, and is left out.   *)
(***************************************************************************)
EXTENDS Integers, Sequences, FiniteSets

CONSTANTS
    Searches,  (* the calls that may be under way at the same time          *)
    Markets,   (* the markets                                               *)
    LIMIT,     (* how many signatures a search asks for                     *)
    MaxTxs     (* bound of the length of the ledger                         *)

ASSUME SearchAssumption == LIMIT \in Nat /\ MaxTxs \in Nat

VARIABLES
    history,   (* the transactions of the ledger, the oldest first          *)
    stored,    (* localStorage: the transaction found for every market      *)
    search     (* what every search is at                                   *)

vars == <<history, stored, search>>

None == 0

(* A transaction that failed has left no trace but its signature. *)
Transactions ==
    {tx \in [ok : BOOLEAN, touches : (SUBSET Markets) \ {{}}, resolves : SUBSET Markets] :
        tx.resolves \subseteq tx.touches}

Resolutions(m) == {i \in DOMAIN history : history[i].ok /\ m \in history[i].resolves}
IsResolved(m) == Resolutions(m) # {}

Init ==
    /\ history = <<>>
    /\ stored = [m \in Markets |-> None]
    /\ search = [s \in Searches |-> [stage |-> "idle"]]

-----------------------------------------------------------------------------
(* The signatures of a market's account among the first n transactions. *)
Signatures(m, n) == {i \in 1..n : m \in history[i].touches}

Newest(S, limit) == {i \in S : Cardinality({j \in S : j > i}) < limit}

(* Mutants: entries with an error are looked at, and the page of           *)
(* signatures misses one.                                                  *)
CandidatesWithErrors(m, n) == Newest(Signatures(m, n), LIMIT)
CandidatesOfShortPage(m, n) ==
    {i \in Newest(Signatures(m, n), LIMIT - 1) : history[i].ok}

(* What the loop goes through. *)
Candidates(m, n) == {i \in Newest(Signatures(m, n), LIMIT) : history[i].ok}

(* The instruction is recognised by its program and its discriminator. *)
IsResolve(i) == history[i].resolves # {}

(* The search goes on with the candidates it has left, the newest first.   *)
(* It remembers for the properties how far the node's ledger reached, and  *)
(* whether an answer was missing.                                          *)
Scan(m, left, seen, missing) ==
    IF left = {}
    THEN [stage |-> "done", market |-> m, found |-> None, seen |-> seen, missing |-> missing]
    ELSE [stage |-> "scan", market |-> m, left |-> left, seen |-> seen, missing |-> missing]

Found(m, i) == [stage |-> "done", market |-> m, found |-> i]

-----------------------------------------------------------------------------
(* The panel is shown for a resolved market. *)
SearchStart(s, m) ==
    /\ search[s].stage \in {"idle", "done"}
    /\ IsResolved(m)
    /\ \/ /\ stored[m] # None
          /\ search' = [search EXCEPT ![s] = Found(m, stored[m])]
       \/ search' = [search EXCEPT ![s] = [stage |-> "signatures", market |-> m]]
    /\ UNCHANGED <<history, stored>>

SignaturesArrive(s) ==
    /\ search[s].stage = "signatures"
    /\ \E n \in 0..Len(history) :
          search' = [search EXCEPT ![s] =
                       Scan(search[s].market, Candidates(search[s].market, n), n, FALSE)]
    /\ UNCHANGED <<history, stored>>

TxArrives(s) ==
    /\ search[s].stage = "scan"
    /\ LET m == search[s].market
           i == CHOOSE i \in search[s].left : \A j \in search[s].left : j <= i
           Goes(missing) ==
               /\ search' = [search EXCEPT ![s] =
                               Scan(m, @.left \ {i}, @.seen, @.missing \/ missing)]
               /\ UNCHANGED stored
       IN  \/ Goes(TRUE)
           \/ ~IsResolve(i) /\ Goes(FALSE)
           \/ /\ IsResolve(i)
              /\ search' = [search EXCEPT ![s] = Found(m, i)]
              /\ stored' \in {stored, [stored EXCEPT ![m] = i]}
    /\ UNCHANGED history

SearchFails(s) ==
    /\ search[s].stage \in {"signatures", "scan"}
    /\ search' = [search EXCEPT ![s] = [stage |-> "idle"]]
    /\ UNCHANGED <<history, stored>>

(* Anybody sends a transaction; resolve succeeds once for a market. *)
Submit(tx) ==
    /\ Len(history) < MaxTxs
    /\ tx.ok => \A m \in tx.resolves : ~IsResolved(m)
    /\ history' = Append(history, tx)
    /\ UNCHANGED <<stored, search>>

-----------------------------------------------------------------------------
Next ==
    \/ \E s \in Searches, m \in Markets : SearchStart(s, m)
    \/ \E s \in Searches : SignaturesArrive(s) \/ TxArrives(s) \/ SearchFails(s)
    \/ \E tx \in Transactions : Submit(tx)

Spec == Init /\ [][Next]_vars

-----------------------------------------------------------------------------
(* Correctness *)

(* What the panel may show or a later search may be given: a market and    *)
(* the transaction taken for its settlement.                               *)
Findings ==
    {[market |-> search[s].market, tx |-> search[s].found] :
        s \in {s \in Searches : search[s].stage = "done" /\ search[s].found # None}}
    \cup {[market |-> m, tx |-> stored[m]] : m \in {m \in Markets : stored[m] # None}}

(* A transaction found or stored for a market succeeded, resolved some     *)
(* market, and resolved this one unless it deals with several at once.     *)
(* Failed attempts to resolve, which rival resolvers leave in the history, *)
(* are never taken for the settlement.                                     *)
FoundTxSettled ==
    \A finding \in Findings :
        LET tx == history[finding.tx]
        IN  /\ tx.ok
            /\ tx.resolves # {}
            /\ tx.touches = {finding.market} => finding.tx \in Resolutions(finding.market)

(* A search that had all its answers comes back empty only if the node did *)
(* not know the settlement yet, or LIMIT signatures of the market are      *)
(* newer than it.                                                          *)
FindsRecentSettlement ==
    \A s \in Searches :
        search[s].stage = "done" /\ search[s].found = None /\ ~search[s].missing =>
            \A r \in Resolutions(search[s].market) :
                \/ r > search[s].seen
                \/ Cardinality({i \in Signatures(search[s].market, search[s].seen) : i > r})
                      >= LIMIT

(* What findResolveTx says it does (settlement.ts:90): it finds the        *)
(* transaction that resolved the market.  The run that checks it shows     *)
(* that it may find one that resolved another.                             *)
FoundTxResolvedIt == \A finding \in Findings : finding.tx \in Resolutions(finding.market)
=============================================================================
