------------------------- MODULE MCResolveTxSearch -------------------------
(***************************************************************************)
(* Instances of ResolveTxSearch for TLC.  The searches are interchangeable *)
(* and so are the markets.                                                 *)
(***************************************************************************)
EXTENDS ResolveTxSearch, TLC

Interchangeable == Permutations(Searches) \cup Permutations(Markets)
=============================================================================
