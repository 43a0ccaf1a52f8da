----------------------- MODULE MCConversationIdentity -----------------------
(* One correspondent under two names and under a list without her number,  *)
(* and a group that she is in too.                                         *)
EXTENDS ConversationIdentity

CONSTANTS ann1, ann2, bare, group, m1, m2

SmallNumbers == [j \in Json \cup {Unknown} |->
                    CASE j \in {ann1, ann2} -> {"ann"}
                      [] j = group -> {"ann", "bob"}
                      [] OTHER -> {}]
SmallGroups  == [j \in Json \cup {Unknown} |-> j = group]
SmallSent    == [m \in Message |-> IF m = m1 THEN ann1 ELSE group]
=============================================================================
