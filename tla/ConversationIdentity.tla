------------------------ MODULE ConversationIdentity ------------------------
(***************************************************************************)
(* One conversation ID of the phone, which the phone may use again for     *)
(* other people: UpsertConversation and preserveReusedConversationID       *)
(* (internal/store/conversations.go), UpsertMessage (messages.go) and the  *)
(* coverage row.  No command gives a conversation an alias, so the UPDATE  *)
(* of aliases is left out.                                                 *)
(*                                                                         *)
(* Rows of the conversations table are "active", which has the ID itself,  *)
(* and for each participants JSON that was preserved the row whose ID is   *)
(* "legacy:", the ID and a digest of that JSON; such a row is named by its *)
(* JSON.                                                                   *)
(***************************************************************************)
EXTENDS FiniteSets

CONSTANTS
    Json,        \* participants_json values the phone has for the ID
    Unknown,     \* '[]': a list of nobody, and the column's default
    Numbers,     \* numbers in a JSON, own ones excepted; some have none
    IsGroup,     \* the flag that comes with it
    Message,
    Sent,        \* the JSON the phone had for the ID when m was sent
    None         \* no row, nobody, nowhere

Row   == {"active"} \cup Json \cup {Unknown}
Place == Row \cup {None}

ASSUME NamesAssumption == Unknown \notin Json /\ None \notin Row /\ "active" \notin Json \cup {Unknown}
ASSUME JsonAssumption ==
    /\ Numbers[Unknown] = {} /\ DOMAIN IsGroup = Json \cup {Unknown}
    /\ Sent \in [Message -> Json]

VARIABLES
    phone,       \* the JSON the phone now has for the ID
    announced,   \* history: the row has the numbers of those people
    row,         \* participants_json of the active row, or None
    legacy,      \* the preserved rows
    place,       \* the conversation_id of each message
    orderly,     \* history: messages first stored while announced, until a
                 \* list without numbers is stored over the one they came to
    coverage,    \* per row: None, "open", or whom an exhaustion is about
    pass, proof  \* a backfill: control, and whose history ended

tables  == <<row, legacy, place, coverage>>
history == <<announced, orderly>>
vars    == <<phone, tables, history, pass, proof>>

Init ==
    /\ phone \in Json
    /\ announced = FALSE
    /\ row = None
    /\ legacy = {}
    /\ place = [m \in Message |-> None]
    /\ orderly = {}
    /\ coverage = [r \in Row |-> None]
    /\ pass = "idle" /\ proof = None

In(r) == {m \in Message : place[m] = r}

-----------------------------------------------------------------------------

\* Mutant: the rule for groups is applied to all.
DisjointMutant(old, new) ==
    /\ Numbers[old] # {} /\ Numbers[new] # {}
    /\ Numbers[old] \cap Numbers[new] = {}

\* conversationIdentityChanged: a direct conversation by its exact numbers, a
\* group when it has no member left.
IdentityChanged(old, new) ==
    /\ Numbers[old] # {} /\ Numbers[new] # {}
    /\ \/ IsGroup[old] # IsGroup[new]
       \/ ~IsGroup[old] /\ Numbers[old] # Numbers[new]
       \/ IsGroup[old] /\ Numbers[old] \cap Numbers[new] = {}

SamePeople(i, j) == Numbers[i] = Numbers[j] /\ IsGroup[i] = IsGroup[j]

\* Mutant: the messages move, but the INSERT of their new row is gone.
NoRowMutant ==
    /\ place' = [m \in Message |-> IF place[m] = "active" THEN row ELSE place[m]]
    /\ coverage' = [coverage EXCEPT ![row] = coverage["active"], !["active"] = None]
    /\ UNCHANGED legacy

\* preserveReusedConversationID: everything that refers to the active row is
\* moved to the new row, which must not exist yet.
Preserve ==
    /\ legacy' = legacy \cup {row}
    /\ place' = [m \in Message |-> IF place[m] = "active" THEN row ELSE place[m]]
    /\ coverage' = [coverage EXCEPT ![row] = coverage["active"], !["active"] = None]

Reused(j) == row # None /\ IdentityChanged(row, j) /\ In("active") # {}

\* What an event may say of the people who have the ID: their list, or one
\* that names nobody or has no number (participantsJSON).
Incoming == {phone} \cup {j \in Json \cup {Unknown} : Numbers[j] = {}}

\* A conversation event, a listing or GetConversation, as one transaction,
\* which fails and changes nothing when the row to preserve into exists.
UpsertConversation(j) ==
    /\ j \in Incoming
    /\ \/ Reused(j) /\ row \notin legacy /\ Preserve
       \/ ~Reused(j) /\ UNCHANGED <<legacy, place, coverage>>
    /\ row' = j
    /\ announced' = (Numbers[j] # {})
    /\ orderly' = IF Numbers[j] # {} THEN orderly ELSE orderly \ In("active")
    /\ UNCHANGED <<phone, pass, proof>>

\* Mutant: a message follows the conversation it is delivered in.
StealMutant(m) ==
    /\ Sent[m] = phone
    /\ row' = IF row = None THEN Unknown ELSE row
    /\ place' = [place EXCEPT ![m] = "active"]
    /\ orderly' = IF place[m] = None /\ announced THEN orderly \cup {m} ELSE orderly
    /\ UNCHANGED <<phone, legacy, coverage, announced, pass, proof>>

\* A message, live or fetched: its conversation is created without names if
\* there is none, and a message stored elsewhere is refused.  The caller goes
\* on, whether or not it could store the conversation before.
UpsertMessage(m) ==
    /\ Sent[m] = phone
    /\ row' = IF row = None THEN Unknown ELSE row
    /\ place' = IF place[m] = None THEN [place EXCEPT ![m] = "active"] ELSE place
    /\ orderly' = IF place[m] = None /\ announced THEN orderly \cup {m} ELSE orderly
    /\ UNCHANGED <<phone, legacy, coverage, announced, pass, proof>>

-----------------------------------------------------------------------------
(* A backfill of the ID, reduced to what it writes to the coverage row.    *)

StartCoverage ==
    /\ pass = "idle"
    /\ row # None
    /\ coverage' = [coverage EXCEPT !["active"] = IF @ = None THEN "open" ELSE @]
    /\ pass' = "fetch"
    /\ UNCHANGED <<phone, row, legacy, place, history, proof>>

\* The history of the people the phone now has for the ID ends.
FetchEmptyPage ==
    /\ pass = "fetch"
    /\ pass' = "finish"
    /\ proof' = phone
    /\ UNCHANGED <<phone, tables, history>>

\* The UPDATE finds no row when the conversation was replaced meanwhile.
FinishCoverage ==
    /\ pass = "finish"
    /\ coverage' = [coverage EXCEPT !["active"] = IF @ = None THEN @ ELSE proof]
    /\ pass' = "idle" /\ proof' = None
    /\ UNCHANGED <<phone, row, legacy, place, history>>

\* External: the phone gives the ID to somebody, or changes a name.
Reassign(j) ==
    /\ phone' = j
    /\ announced' = (announced /\ SamePeople(phone, j))
    /\ UNCHANGED <<tables, orderly, pass, proof>>

Next ==
    \/ \E j \in Json \cup {Unknown} : UpsertConversation(j)
    \/ \E m \in Message : UpsertMessage(m)
    \/ StartCoverage \/ FetchEmptyPage \/ FinishCoverage
    \/ \E j \in Json : Reassign(j)

Spec == Init /\ [][Next]_vars

-----------------------------------------------------------------------------
(* Properties.                                                             *)

\* Types, and rows that exist for what refers to them (foreign keys).
TypeOK ==
    /\ phone \in Json /\ announced \in BOOLEAN
    /\ row \in Json \cup {Unknown, None}
    /\ legacy \subseteq Json \cup {Unknown}
    /\ place \in [Message -> {None} \cup legacy \cup (IF row = None THEN {} ELSE {"active"})]
    /\ orderly \subseteq Message
    /\ coverage \in [Row -> {None, "open"} \cup Json]
    /\ \A r \in Row \ {"active"} : coverage[r] # None => r \in legacy
    /\ row = None => coverage["active"] = None
    /\ pass \in {"idle", "fetch", "finish"} /\ proof \in Json \cup {None}

\* The code takes two groups that have a member in common for one whose
\* membership has changed.  Where they are one:
GroupsApart ==
    \A i, j \in Json :
        (IsGroup[i] /\ IsGroup[j] /\ Numbers[i] \cap Numbers[j] # {}) => Numbers[i] = Numbers[j]

\* A message that was stored while its conversation was there with its
\* numbers is found among the people it was exchanged with, however often the
\* phone uses the ID again and whatever else arrives under it, unless a list
\* without numbers is stored over theirs: from then on the row says nothing of
\* whose messages it has, and the next people who get the ID get those too
\* (conversations.go:107).  Groups that share a member are one group to the
\* code, so it holds where there are none (GroupsApart), as in the instance.
OrderlyStayWithTheirPeople ==
    \A m \in orderly :
        LET j == IF place[m] = "active" THEN row ELSE place[m]
        IN  place[m] # None /\ SamePeople(j, Sent[m])

\* No step loses a message, although a conversation is deleted under it
\* (ON DELETE CASCADE), and a preserved conversation never changes again, nor
\* does what coverage says of it, though a backfill of the ID is under way.
PreservedForGood ==
    [][/\ \A m \in Message :
            /\ place[m] # None => place'[m] # None
            /\ place[m] \in legacy => place'[m] = place[m]
       /\ \A r \in legacy : r \in legacy' /\ coverage'[r] = coverage[r]]_vars
=============================================================================
