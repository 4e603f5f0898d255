----------------------------- MODULE Parimutuel -----------------------------
(***************************************************************************)
(* What a parimutuel market promises its bettors, without accounts, pools, *)
(* proofs or clocks.  A book collects bets until it is closed, is given a  *)
(* result once, and then pays each bet at most once.  Every amount is      *)
(* defined from the bets themselves, never from a running total.           *)
(***************************************************************************)
EXTENDS PrefixSums

CONSTANTS NumBooks, NumBettors, MaxStake

Books == 1..NumBooks
Bettors == 1..NumBettors
Sides == 0..2
Undecided == -1
Unpaid == -1

VARIABLES
    bet,      (* the side and the stake of every bettor's bet in every book *)
    closed,   (* whether a book has stopped taking bets                     *)
    result,   (* the side that won, or Undecided                            *)
    paid,     (* what every bettor was paid, or Unpaid                      *)
    pot       (* the money a book holds                                     *)

vars == <<bet, closed, result, paid, pot>>

NoBet == [side |-> 0, stake |-> 0]

Staked(b) == SumUpTo([p \in Bettors |-> bet[b][p].stake], NumBettors)

StakedOn(b, k) ==
    SumUpTo([p \in Bettors |-> IF bet[b][p].side = k THEN bet[b][p].stake ELSE 0],
            NumBettors)

(* A bettor is due the stake if nobody backed the result, and otherwise,   *)
(* having backed it, a share of everything staked in proportion to the     *)
(* stake, rounded down.                                                    *)
IsDue(b, p) ==
    /\ bet[b][p].stake > 0
    /\ StakedOn(b, result[b]) = 0 \/ bet[b][p].side = result[b]

Share(b, p) ==
    IF StakedOn(b, result[b]) = 0
    THEN bet[b][p].stake
    ELSE (bet[b][p].stake * Staked(b)) \div StakedOn(b, result[b])

Init ==
    /\ bet = [b \in Books |-> [p \in Bettors |-> NoBet]]
    /\ closed = [b \in Books |-> FALSE]
    /\ result = [b \in Books |-> Undecided]
    /\ paid = [b \in Books |-> [p \in Bettors |-> Unpaid]]
    /\ pot = [b \in Books |-> 0]

Bet(b, p) ==
    /\ ~closed[b]
    /\ result[b] = Undecided
    /\ \E k \in Sides, amount \in 1..MaxStake :
          /\ bet[b][p].stake = 0 \/ bet[b][p].side = k
          /\ bet' = [bet EXCEPT ![b][p] = [side |-> k, stake |-> @.stake + amount]]
          /\ pot' = [pot EXCEPT ![b] = @ + amount]
    /\ UNCHANGED <<closed, result, paid>>

Close ==
    /\ closed' \in [Books -> BOOLEAN]
    /\ \A b \in Books : closed[b] => closed'[b]
    /\ UNCHANGED <<bet, result, paid, pot>>

Decide(b) ==
    /\ result[b] = Undecided
    /\ \E k \in Sides : result' = [result EXCEPT ![b] = k]
    /\ UNCHANGED <<bet, closed, paid, pot>>

(* The pot covers the share: whoever asks first, nobody is left short. *)
Pay(b, p) ==
    /\ result[b] # Undecided
    /\ IsDue(b, p)
    /\ paid[b][p] = Unpaid
    /\ Share(b, p) <= pot[b]
    /\ paid' = [paid EXCEPT ![b][p] = Share(b, p)]
    /\ pot' = [pot EXCEPT ![b] = @ - Share(b, p)]
    /\ UNCHANGED <<bet, closed, result>>

Next ==
    \/ \E b \in Books, p \in Bettors : Bet(b, p) \/ Pay(b, p)
    \/ \E b \in Books : Decide(b)
    \/ Close

Spec == Init /\ [][Next]_vars
=============================================================================
