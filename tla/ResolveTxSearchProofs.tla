----------------------- MODULE ResolveTxSearchProofs -----------------------
(***************************************************************************)
(* Whatever the ledger, the node's view of it, the failures of its answers *)
(* and the searches that share localStorage: a search never takes a failed *)
(* or a foreign transaction of the market alone for its settlement, and    *)
(* comes back empty only when it could not have found it.                  *)
(***************************************************************************)
EXTENDS ResolveTxSearch, FiniteSetTheorems, WellFoundedInduction, TLAPS

(* Transaction i is one that a search for market m may take for its        *)
(* settlement.                                                             *)
Settles(m, i) ==
    /\ i \in DOMAIN history
    /\ history[i].ok
    /\ m \in history[i].touches
    /\ history[i].resolves # {}

(* The candidates among the first n transactions hold no resolve for m     *)
(* outside of left.                                                        *)
NoneOutside(m, n, left) == \A i \in Candidates(m, n) \ left : ~IsResolve(i)

AtIdle(x) == x = [stage |-> "idle"]
AtSignatures(x) == \E m \in Markets : x = [stage |-> "signatures", market |-> m]
AtFound(x) ==
    \E m \in Markets, i \in Nat \ {None} : Settles(m, i) /\ x = Found(m, i)
AtScan(x) ==
    \E m \in Markets, n \in 0..Len(history), missing \in BOOLEAN, left \in SUBSET Nat :
        /\ left \subseteq Candidates(m, n)
        /\ missing \/ NoneOutside(m, n, left)
        /\ x = Scan(m, left, n, missing)

Lawful(x) == AtIdle(x) \/ AtSignatures(x) \/ AtScan(x) \/ AtFound(x)

(* Every finding stands, and a search that has missed no answer has left   *)
(* every resolve of the node's page to be looked at.                       *)
SearchInv ==
    /\ history \in Seq(Transactions)
    /\ stored \in [Markets -> Nat]
    /\ \A m \in Markets : stored[m] # None => Settles(m, stored[m])
    /\ DOMAIN search = Searches
    /\ \A s \in Searches : Lawful(search[s])

-----------------------------------------------------------------------------
(* What the four shapes of a search say of its fields. *)

LEMMA ScanShape ==
    ASSUME NEW m, NEW left, NEW n, NEW missing
    PROVE  /\ left = {} => Scan(m, left, n, missing) =
                [stage |-> "done", market |-> m, found |-> None, seen |-> n, missing |-> missing]
           /\ left # {} => Scan(m, left, n, missing) =
                [stage |-> "scan", market |-> m, left |-> left, seen |-> n, missing |-> missing]
    BY DEF Scan

LEMMA SigningShape ==
    ASSUME NEW x, x.stage = "signatures", Lawful(x)
    PROVE  AtSignatures(x)
<1>1. ~AtIdle(x) /\ ~AtFound(x)
    BY DEF AtIdle, AtFound, Found
<1>2. ASSUME AtScan(x) PROVE FALSE
  <2>1. PICK m \in Markets, n \in 0..Len(history), missing \in BOOLEAN, left \in SUBSET Nat :
          x = Scan(m, left, n, missing)
    BY <1>2 DEF AtScan
  <2>2. x.stage \in {"done", "scan"}
    BY <2>1, ScanShape
  <2>. QED
    BY <2>2
<1>. QED
    BY <1>1, <1>2 DEF Lawful

LEMMA ScanningShape ==
    ASSUME NEW x, x.stage = "scan", Lawful(x)
    PROVE  /\ x.market \in Markets /\ x.seen \in 0..Len(history) /\ x.missing \in BOOLEAN
           /\ x.left # {} /\ x.left \subseteq Candidates(x.market, x.seen)
           /\ x.missing \/ NoneOutside(x.market, x.seen, x.left)
<1>1. AtScan(x)
    BY DEF Lawful, AtIdle, AtSignatures, AtFound, Found
<1>2. PICK m \in Markets, n \in 0..Len(history), missing \in BOOLEAN, left \in SUBSET Nat :
        /\ left \subseteq Candidates(m, n)
        /\ missing \/ NoneOutside(m, n, left)
        /\ x = Scan(m, left, n, missing)
    BY <1>1 DEF AtScan
<1>3. left # {}
    BY <1>2, ScanShape
<1>4. /\ x.market = m /\ x.left = left /\ x.seen = n /\ x.missing = missing
    BY <1>2, <1>3, ScanShape
<1>. QED
    BY <1>2, <1>3, <1>4

LEMMA DoneShape ==
    ASSUME NEW x, x.stage = "done", Lawful(x)
    PROVE  \/ /\ x.market \in Markets /\ x.found # None /\ Settles(x.market, x.found)
           \/ /\ x.market \in Markets /\ x.found = None /\ x.seen \in 0..Len(history)
              /\ x.missing \/ NoneOutside(x.market, x.seen, {})
<1>1. CASE AtFound(x)
    BY <1>1 DEF AtFound, Found
<1>2. CASE AtScan(x)
  <2>1. PICK m \in Markets, n \in 0..Len(history), missing \in BOOLEAN, left \in SUBSET Nat :
          /\ left \subseteq Candidates(m, n)
          /\ missing \/ NoneOutside(m, n, left)
          /\ x = Scan(m, left, n, missing)
    BY <1>2 DEF AtScan
  <2>2. left = {}
    BY <2>1, ScanShape
  <2>3. x = [stage |-> "done", market |-> m, found |-> None, seen |-> n, missing |-> missing]
    BY <2>1, <2>2, ScanShape
  <2>. QED
    BY <2>1, <2>2, <2>3
<1>. QED
    BY <1>1, <1>2 DEF Lawful, AtIdle, AtSignatures

(* A nonempty set of positions has a last one, which TxArrives looks at.   *)
LEMMA FirstOf ==
    ASSUME NEW T \in SUBSET Nat, T # {}
    PROVE  \E t \in T : \A u \in T : t <= u
<1>1. PICK t \in T : \A u \in T : ~(<<u, t>> \in OpToRel(<, Nat))
    BY NatLessThanWellFounded, WFMin
<1>2. \A u \in T : ~(u < t)
    BY <1>1 DEF OpToRel
<1>. QED
    BY <1>2

LEMMA LastOf ==
    ASSUME NEW n \in Nat, NEW S \in SUBSET (1..n), S # {}
    PROVE  \E i \in S : \A j \in S : j <= i
<1>. DEFINE T == {n - i : i \in S}
<1>0. \A i \in S : i \in Nat /\ i <= n
    OBVIOUS
<1>1. T \in SUBSET Nat /\ T # {}
  <2>1. \A i \in S : n - i \in Nat
    BY <1>0
  <2>. QED
    BY <2>1
<1>2. PICK t \in T : \A u \in T : t <= u
    BY <1>1, FirstOf
<1>3. PICK i \in S : t = n - i
    OBVIOUS
<1>4. ASSUME NEW j \in S PROVE j <= i
    BY <1>0, <1>2, <1>3
<1>. QED
    BY <1>4

-----------------------------------------------------------------------------
(* The ledger grows at its end, which disturbs nothing that a search has   *)
(* already seen.                                                           *)

LEMMA LedgerGrows ==
    ASSUME NEW tx \in Transactions, history \in Seq(Transactions),
           history' = Append(history, tx)
    PROVE  /\ history' \in Seq(Transactions)
           /\ Len(history') = Len(history) + 1
           /\ \A i \in DOMAIN history : i \in DOMAIN history' /\ history'[i] = history[i]
    OBVIOUS

LEMMA PageStands ==
    ASSUME NEW tx \in Transactions, history \in Seq(Transactions),
           history' = Append(history, tx),
           NEW m \in Markets, NEW n \in 0..Len(history)
    PROVE  Candidates(m, n)' = Candidates(m, n)
<1>1. \A i \in 1..n : history'[i] = history[i]
    BY LedgerGrows
<1>2. Signatures(m, n)' = Signatures(m, n)
    BY <1>1 DEF Signatures
<1>3. Signatures(m, n) \subseteq 1..n
    BY DEF Signatures
<1>. QED
    BY <1>1, <1>2, <1>3 DEF Candidates, Newest

LEMMA FindingsStand ==
    ASSUME NEW tx \in Transactions, history \in Seq(Transactions),
           history' = Append(history, tx),
           NEW m, NEW i, Settles(m, i)
    PROVE  Settles(m, i)'
    BY LedgerGrows DEF Settles

LEMMA CandidatesTouch ==
    ASSUME NEW m \in Markets, history \in Seq(Transactions),
           NEW n \in 0..Len(history), NEW i \in Candidates(m, n)
    PROVE  i \in 1..n /\ i \in DOMAIN history /\ history[i].ok /\ m \in history[i].touches
<1>1. i \in Signatures(m, n) /\ history[i].ok
    BY DEF Candidates, Newest
<1>. QED
    BY <1>1 DEF Signatures

-----------------------------------------------------------------------------
(* Every step keeps the invariant. *)

LEMMA InitSearchInv == Init => SearchInv
<1>. SUFFICES ASSUME Init PROVE SearchInv
    OBVIOUS
<1>1. \A s \in Searches : AtIdle(search[s])
    BY DEF Init, AtIdle
<1>. QED
    BY <1>1 DEF Init, SearchInv, None, Lawful

(* While the ledger stands still, so does what a search may be at.         *)
LEMMA LawfulStands ==
    ASSUME history' = history
    PROVE  /\ \A m, i : Settles(m, i)' <=> Settles(m, i)
           /\ \A x : Lawful(x)' <=> Lawful(x)
<1>1. \A m, i : Settles(m, i)' <=> Settles(m, i)
    BY DEF Settles
<1>2. \A m, n : Candidates(m, n)' = Candidates(m, n)
    BY DEF Candidates, Newest, Signatures
<1>3. \A m, n, left : NoneOutside(m, n, left)' <=> NoneOutside(m, n, left)
    BY <1>2 DEF NoneOutside, IsResolve
<1>4. ASSUME NEW x PROVE AtScan(x)' <=> AtScan(x)
  <2>. DEFINE ScanOf(m, n, missing, left) ==
                 /\ left \subseteq Candidates(m, n)
                 /\ missing \/ NoneOutside(m, n, left)
                 /\ x = Scan(m, left, n, missing)
  <2>1. ASSUME NEW m, NEW n, NEW missing, NEW left
        PROVE  ScanOf(m, n, missing, left)' <=> ScanOf(m, n, missing, left)
    <3>1. Scan(m, left, n, missing)' = Scan(m, left, n, missing)
        BY DEF Scan
    <3>. QED
        BY <1>2, <1>3, <3>1
  <2>2. AtScan(x) <=> \E m \in Markets, n \in 0..Len(history), missing \in BOOLEAN,
                         left \in SUBSET Nat : ScanOf(m, n, missing, left)
    BY DEF AtScan
  <2>3. AtScan(x)' <=> \E m \in Markets, n \in 0..Len(history), missing \in BOOLEAN,
                          left \in SUBSET Nat : ScanOf(m, n, missing, left)'
    BY DEF AtScan
  <2>. HIDE DEF ScanOf
  <2>. QED
    BY <2>1, <2>2, <2>3
<1>5. ASSUME NEW x PROVE AtFound(x)' <=> AtFound(x)
    BY <1>1 DEF AtFound, Found
<1>. QED
    BY <1>1, <1>4, <1>5 DEF Lawful, AtIdle, AtSignatures

(* What is left to show of a step that changes one search and perhaps      *)
(* stores what it found.                                                   *)
LEMMA OneSearchMoves ==
    ASSUME SearchInv, NEW s \in Searches, history' = history,
           \A t \in Searches \ {s} : search'[t] = search[t],
           DOMAIN search' = Searches, Lawful(search'[s]),
           stored' \in [Markets -> Nat],
           \A m \in Markets : stored'[m] # None => Settles(m, stored'[m])
    PROVE  SearchInv'
<1>1. \A t \in Searches : Lawful(search'[t])
    BY DEF SearchInv
<1>2. \A t \in Searches : Lawful(search[t])'
    BY <1>1, LawfulStands
<1>3. \A m \in Markets : stored'[m] # None => Settles(m, stored[m])'
    BY LawfulStands
<1>. QED
    BY <1>2, <1>3 DEF SearchInv

LEMMA StartKeeps ==
    ASSUME SearchInv, NEW s \in Searches, NEW m \in Markets, SearchStart(s, m)
    PROVE  SearchInv'
<1>1. CASE stored[m] # None /\ search' = [search EXCEPT ![s] = Found(m, stored[m])]
  <2>1. AtFound(Found(m, stored[m]))
    BY <1>1 DEF SearchInv, AtFound, None
  <2>2. search'[s] = Found(m, stored[m])
    BY <1>1 DEF SearchInv
  <2>. QED
    BY <1>1, <2>1, <2>2, OneSearchMoves DEF SearchInv, SearchStart, Lawful
<1>2. CASE search' = [search EXCEPT ![s] = [stage |-> "signatures", market |-> m]]
  <2>1. search'[s] = [stage |-> "signatures", market |-> m]
    BY <1>2 DEF SearchInv
  <2>2. Lawful(search'[s])
    BY <2>1 DEF Lawful, AtSignatures
  <2>. QED
    BY <1>2, <2>2, OneSearchMoves DEF SearchInv, SearchStart
<1>. QED
    BY <1>1, <1>2 DEF SearchStart

LEMMA SignaturesKeep ==
    ASSUME SearchInv, NEW s \in Searches, SignaturesArrive(s)
    PROVE  SearchInv'
<1>1. PICK n \in 0..Len(history) :
        search' = [search EXCEPT ![s] =
                     Scan(search[s].market, Candidates(search[s].market, n), n, FALSE)]
    BY DEF SignaturesArrive
<1>2. search[s].market \in Markets
  <2>1. AtSignatures(search[s])
    BY SigningShape DEF SearchInv, SignaturesArrive
  <2>. QED
    BY <2>1 DEF AtSignatures
<1>. DEFINE m == search[s].market
<1>3. Candidates(m, n) \in SUBSET Nat /\ NoneOutside(m, n, Candidates(m, n))
    BY DEF Candidates, Newest, Signatures, NoneOutside
<1>4. AtScan(Scan(m, Candidates(m, n), n, FALSE))
    BY <1>2, <1>3 DEF AtScan
<1>5. search'[s] = Scan(m, Candidates(m, n), n, FALSE)
    BY <1>1 DEF SearchInv
<1>. HIDE DEF m
<1>. QED
    BY <1>1, <1>4, <1>5, OneSearchMoves DEF SearchInv, SignaturesArrive, Lawful

LEMMA TxKeeps ==
    ASSUME SearchInv, NEW s \in Searches, TxArrives(s)
    PROVE  SearchInv'
<1>. DEFINE m == search[s].market
            n == search[s].seen
            left == search[s].left
            missing == search[s].missing
            i == CHOOSE i \in search[s].left : \A j \in search[s].left : j <= i
<1>0. search[s].stage = "scan" /\ history' = history /\ Lawful(search[s])
    BY DEF SearchInv, TxArrives
<1>1. /\ m \in Markets /\ n \in 0..Len(history) /\ missing \in BOOLEAN
      /\ left # {} /\ left \subseteq Candidates(m, n)
      /\ missing \/ NoneOutside(m, n, left)
    BY <1>0, ScanningShape
<1>2. Candidates(m, n) \in SUBSET (1..n) /\ n \in Nat
    BY <1>1 DEF Candidates, Newest, Signatures, SearchInv
<1>3. i \in left
  <2>1. \E k \in left : \A j \in left : j <= k
    BY <1>1, <1>2, LastOf
  <2>. QED
    BY <2>1
<1>4. /\ DOMAIN search' = Searches
      /\ \A t \in Searches \ {s} : search'[t] = search[t]
      /\ \/ \E also \in BOOLEAN :
               /\ also \/ ~IsResolve(i)
               /\ search'[s] = Scan(m, left \ {i}, n, missing \/ also)
               /\ stored' = stored
         \/ /\ IsResolve(i)
            /\ search'[s] = Found(m, i)
            /\ stored' \in {stored, [stored EXCEPT ![m] = i]}
    BY DEF TxArrives, SearchInv
<1>. HIDE DEF m, n, left, missing, i
<1>5. ASSUME NEW also \in BOOLEAN, also \/ ~IsResolve(i),
             search'[s] = Scan(m, left \ {i}, n, missing \/ also), stored' = stored
      PROVE  SearchInv'
  <2>1. left \ {i} \in SUBSET Nat /\ left \ {i} \subseteq Candidates(m, n)
    BY <1>1, <1>2
  <2>2. (missing \/ also) \/ NoneOutside(m, n, left \ {i})
    BY <1>1, <1>5 DEF NoneOutside
  <2>3. (missing \/ also) \in BOOLEAN
    OBVIOUS
  <2>4. AtScan(search'[s])
    BY <1>1, <1>5, <2>1, <2>2, <2>3 DEF AtScan
  <2>. QED
    BY <1>0, <1>4, <1>5, <2>4, OneSearchMoves DEF SearchInv, Lawful
<1>6. ASSUME IsResolve(i), search'[s] = Found(m, i),
             stored' \in {stored, [stored EXCEPT ![m] = i]}
      PROVE  SearchInv'
  <2>1. Settles(m, i) /\ i \in Nat \ {None}
    BY <1>1, <1>2, <1>3, <1>6, CandidatesTouch DEF SearchInv, Settles, IsResolve, None
  <2>2. AtFound(search'[s])
    BY <1>1, <1>6, <2>1 DEF AtFound
  <2>3. /\ stored' \in [Markets -> Nat]
        /\ \A k \in Markets : stored'[k] # None => Settles(k, stored'[k])
    BY <1>1, <1>6, <2>1 DEF SearchInv
  <2>. QED
    BY <1>0, <1>4, <2>2, <2>3, OneSearchMoves DEF Lawful
<1>. QED
    BY <1>4, <1>5, <1>6

LEMMA FailureKeeps ==
    ASSUME SearchInv, NEW s \in Searches, SearchFails(s)
    PROVE  SearchInv'
<1>1. AtIdle(search'[s])
    BY DEF SearchInv, SearchFails, AtIdle
<1>. QED
    BY <1>1, OneSearchMoves DEF SearchInv, SearchFails, Lawful

LEMMA SubmitKeeps ==
    ASSUME SearchInv, NEW tx \in Transactions, Submit(tx)
    PROVE  SearchInv'
<1>1. history \in Seq(Transactions) /\ history' = Append(history, tx)
    BY DEF SearchInv, Submit
<1>2. history' \in Seq(Transactions) /\ Len(history') = Len(history) + 1
    BY <1>1, LedgerGrows
<1>3. ASSUME NEW x, AtFound(x) PROVE AtFound(x)'
    BY <1>1, <1>3, FindingsStand DEF AtFound, Found
<1>4. ASSUME NEW x, AtScan(x) PROVE AtScan(x)'
  <2>1. PICK m \in Markets, n \in 0..Len(history), missing \in BOOLEAN, left \in SUBSET Nat :
          /\ left \subseteq Candidates(m, n)
          /\ missing \/ NoneOutside(m, n, left)
          /\ x = Scan(m, left, n, missing)
    BY <1>4 DEF AtScan
  <2>2. n \in 0..Len(history') /\ Candidates(m, n)' = Candidates(m, n)
    BY <1>1, <1>2, <2>1, PageStands
  <2>3. NoneOutside(m, n, left) => NoneOutside(m, n, left)'
    BY <1>1, <2>1, <2>2, LedgerGrows, CandidatesTouch DEF NoneOutside, IsResolve
  <2>4. x = Scan(m, left, n, missing)'
    BY <2>1 DEF Scan
  <2>. QED
    BY <2>1, <2>2, <2>3, <2>4 DEF AtScan
<1>5. ASSUME NEW x, Lawful(x) PROVE Lawful(x)'
    BY <1>3, <1>4, <1>5 DEF Lawful, AtIdle, AtSignatures
<1>6. \A m \in Markets : stored'[m] # None => Settles(m, stored[m])'
    BY <1>1, FindingsStand DEF SearchInv, Submit
<1>. QED
    BY <1>2, <1>5, <1>6 DEF SearchInv, Submit

LEMMA SearchInvariant == Spec => []SearchInv
<1>1. SearchInv /\ [Next]_vars => SearchInv'
  <2>. SUFFICES ASSUME SearchInv, [Next]_vars PROVE SearchInv'
    OBVIOUS
  <2>1. CASE UNCHANGED vars
    <3>1. history' = history /\ stored' = stored /\ search' = search
      BY <2>1 DEF vars
    <3>. QED
      BY <3>1, LawfulStands DEF SearchInv
  <2>. QED
    BY <2>1, StartKeeps, SignaturesKeep, TxKeeps, FailureKeeps, SubmitKeeps DEF Next
<1>. QED
    BY <1>1, InitSearchInv, PTL DEF Spec

-----------------------------------------------------------------------------
(* Whatever is taken for a settlement succeeded and resolved a market, and *)
(* this one if it concerns no other: rival failed attempts never pass.     *)
THEOREM FoundAlwaysSettled == Spec => []FoundTxSettled
<1>1. SearchInv => FoundTxSettled
  <2>. SUFFICES ASSUME SearchInv, NEW finding \in Findings
                PROVE  /\ history[finding.tx].ok
                       /\ history[finding.tx].resolves # {}
                       /\ history[finding.tx].touches = {finding.market}
                             => finding.tx \in Resolutions(finding.market)
    BY DEF FoundTxSettled
  <2>1. finding.market \in Markets /\ Settles(finding.market, finding.tx)
    <3>1. CASE \E s \in Searches :
                 /\ search[s].stage = "done" /\ search[s].found # None
                 /\ finding = [market |-> search[s].market, tx |-> search[s].found]
      BY <3>1, DoneShape DEF SearchInv
    <3>2. CASE \E m \in Markets : stored[m] # None /\ finding = [market |-> m, tx |-> stored[m]]
      BY <3>2 DEF SearchInv
    <3>. QED
      BY <3>1, <3>2 DEF Findings
  <2>2. history[finding.tx].resolves \subseteq history[finding.tx].touches
    BY <2>1 DEF Settles, SearchInv, Transactions
  <2>. QED
    BY <2>1, <2>2 DEF Settles, Resolutions
<1>. QED
    BY <1>1, SearchInvariant, PTL

(* A settlement the node knew, among the newest LIMIT signatures of the    *)
(* market, is found by every search that gets all of its answers.          *)
THEOREM RecentAlwaysFound == Spec => []FindsRecentSettlement
<1>1. SearchInv => FindsRecentSettlement
  <2>. SUFFICES ASSUME SearchInv, NEW s \in Searches,
                       search[s].stage = "done", search[s].found = None, ~search[s].missing,
                       NEW r \in Resolutions(search[s].market), r <= search[s].seen
                PROVE  Cardinality({i \in Signatures(search[s].market, search[s].seen) : i > r})
                          >= LIMIT
    BY DoneShape DEF FindsRecentSettlement, SearchInv, Resolutions
  <2>. DEFINE m == search[s].market
              n == search[s].seen
              page == Signatures(m, n)
              newer == {i \in page : i > r}
  <2>1. m \in Markets /\ n \in 0..Len(history) /\ NoneOutside(m, n, {})
    BY DoneShape DEF SearchInv
  <2>2. /\ r \in DOMAIN history /\ history[r].ok /\ m \in history[r].resolves
        /\ history[r] \in Transactions
    BY DEF Resolutions, SearchInv
  <2>3. r \in page
    BY <2>1, <2>2 DEF Signatures, Transactions, SearchInv
  <2>4. r \notin Candidates(m, n)
    BY <2>1, <2>2 DEF NoneOutside, IsResolve
  <2>5. ~(Cardinality(newer) < LIMIT)
    BY <2>2, <2>3, <2>4 DEF Candidates, Newest
  <2>6. newer \in SUBSET (1..n) /\ n \in Nat
    BY <2>1 DEF Signatures, SearchInv
  <2>. HIDE DEF newer
  <2>7. Cardinality(newer) \in Nat
    <3>1. IsFiniteSet(1..n)
      BY <2>6, FS_Interval
    <3>2. IsFiniteSet(newer)
      BY <2>6, <3>1, FS_Subset
    <3>. QED
      BY <3>2, FS_CardinalityType
  <2>. QED
    BY <2>5, <2>7, SearchAssumption DEF newer
<1>. QED
    BY <1>1, SearchInvariant, PTL
=============================================================================
