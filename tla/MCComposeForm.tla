---------------------------- MODULE MCComposeForm ----------------------------
(* Instances of ComposeForm for TLC: rows shorter and longer than a header. *)
EXTENDS ComposeForm

CONSTANTS r1, r2, r3, r4

MCRowLength == [r \in Requests |-> IF r = r1 THEN 1 ELSE 3]
=============================================================================
