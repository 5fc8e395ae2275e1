------------------------------ MODULE MCTksWeb ------------------------------
(* Instances of TksWeb for TLC. *)
EXTENDS TksWeb

CONSTANTS r1, r2, editor, updater

Targets == [r \in Readers |-> IF r = r1 THEN "info" ELSE "network"]
=============================================================================
