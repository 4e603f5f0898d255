----------------------------- MODULE PrefixSums -----------------------------
(***************************************************************************)
(* Sums over accounts.  The accounts of the market program (positions,     *)
(* vaults, token accounts) are numbered 1..n, so that the total of an      *)
(* account function is a primitive recursive function, which TLC evaluates *)
(* and TLAPS can reason about; the folds of the community modules are      *)
(* defined over arbitrary sets and would put the sums out of the provers'  *)
(* reach.                                                                  *)
(***************************************************************************)
EXTENDS Integers

(* S is the table of the partial sums of a up to n. *)
IsPartialSums(S, a, n) ==
    S = [i \in 0..n |-> IF i = 0 THEN 0 ELSE S[i-1] + a[i]]

(* The sum a[1] + ... + a[n]. *)
SumUpTo(a, n) ==
    LET S[i \in 0..n] == IF i = 0 THEN 0 ELSE S[i-1] + a[i]
    IN  S[n]
=============================================================================
