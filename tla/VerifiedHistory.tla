--------------------------- MODULE VerifiedHistory ---------------------------
(***************************************************************************)
(* What the coverage tables promise a reader of `gmcli coverage`: a set of *)
(* milliseconds that somebody really traversed, and a certificate that the *)
(* source has nothing older.  Traversing is the only thing that adds       *)
(* milliseconds, and it is also the only thing that withdraws the          *)
(* certificate, because a page that came back shows there was more.        *)
(* `turn` alternates with every traversal, so that a step which withdraws  *)
(* the certificate cannot pass for the traversal of a page seen before.    *)
(***************************************************************************)
EXTENDS Naturals

CONSTANT Time

VARIABLES covered, certified, turn

vars == <<covered, certified, turn>>

Init == covered = {} /\ certified = FALSE /\ turn = 0

Traverse(interval) ==
    /\ interval # {}
    /\ covered' = covered \cup interval
    /\ certified' = FALSE
    /\ turn' = 1 - turn

Certify == certified' = TRUE /\ UNCHANGED <<covered, turn>>

Next == Certify \/ \E interval \in SUBSET Time : Traverse(interval)

Spec == Init /\ [][Next]_vars
=============================================================================
