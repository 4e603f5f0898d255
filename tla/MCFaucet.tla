------------------------------ MODULE MCFaucet ------------------------------
(***************************************************************************)
(* Instances of Faucet for TLC.  The requests are interchangeable, and so  *)
(* are the wallets and the IPs.                                            *)
(***************************************************************************)
EXTENDS Faucet, TLC

Interchangeable ==
    Permutations(Requests) \cup Permutations(Wallets) \cup Permutations(Ips)
=============================================================================
