----------------------------- MODULE MCFixtures -----------------------------
(***************************************************************************)
(* Instances of Fixtures for TLC: two loads of two calls each, so that one *)
(* may start while the calls of a failed one still run.                    *)
(***************************************************************************)
EXTENDS Fixtures

CONSTANTS back1, ahead1, back2, ahead2

SnapshotsOf == [l \in 1..2 |-> IF l = 1 THEN {back1, ahead1} ELSE {back2, ahead2}]
=============================================================================
