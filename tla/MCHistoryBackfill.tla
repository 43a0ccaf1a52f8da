------------------------- MODULE MCHistoryBackfill --------------------------
(* HistoryBackfill on small histories.                                     *)
EXTENDS HistoryBackfill, TLC

\* Timestamps with a gap, so that pages overlap, touch and leave holes.
SpreadTs == <<1, 2, 4, 5>>

\* The two latest messages are of one millisecond.
TieTs == <<1, 3, 3>>

\* Passes run the same code.
PassSymmetry == Permutations(Pass)
=============================================================================
