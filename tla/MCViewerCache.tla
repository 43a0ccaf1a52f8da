--------------------------- MODULE MCViewerCache ---------------------------
(* From the first archive to the second a conversation goes and its        *)
(* message moves to the other, whose own message is new on the way back.   *)
EXTENDS ViewerCache, TLC

CONSTANTS a, b, m1, m2

Archive(convs, c1, c2) == [convs |-> convs, where |-> (m1 :> c1 @@ m2 :> c2)]

SmallSnapshots == {Archive({a, b}, a, b), Archive({b}, b, None)}

\* After a torn read nothing more is promised of the cache.
Untorn == ~torn

Processes == Permutations(Writer) \cup Permutations(Reader)
=============================================================================
