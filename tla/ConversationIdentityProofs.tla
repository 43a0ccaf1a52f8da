------------------- MODULE ConversationIdentityProofs ----------------------
(***************************************************************************)
(* Proofs about ConversationIdentity, for any participant lists, numbers   *)
(* and messages: that every reference keeps its row, that what has been    *)
(* preserved never changes, and that messages stay with their people.      *)
(***************************************************************************)
EXTENDS ConversationIdentity, TLAPS

USE NamesAssumption

-----------------------------------------------------------------------------
(* Types and references.                                                   *)

\* The tables and the control have their types, and no message, coverage row
\* or preserved row refers to a conversation that is not there.
THEOREM TypeCorrect == Spec => []TypeOK
<1>1. Init => TypeOK
  BY DEF Init, TypeOK, Row
<1>2. ASSUME TypeOK, [Next]_vars
      PROVE  TypeOK'
  <2> USE <1>2 DEF TypeOK
  <2>1. ASSUME NEW j \in Json \cup {Unknown}, UpsertConversation(j)
        PROVE  TypeOK'
    <3>1. CASE Reused(j) /\ row \notin legacy /\ Preserve
      <4> USE <2>1, <3>1 DEF UpsertConversation, Preserve, Reused
      <4>1. row \in Json \cup {Unknown} /\ row \in Row /\ "active" \in Row /\ row # "active"
        BY DEF Row
      <4>2. legacy' \subseteq Json \cup {Unknown} /\ row' \in Json \cup {Unknown}
        BY <4>1
      <4>3. place' \in [Message -> {None} \cup legacy' \cup {"active"}]
        BY <4>1
      <4>4. coverage' \in [Row -> {None, "open"} \cup Json]
        BY <4>1
      <4>5. ASSUME NEW r \in Row \ {"active"}, coverage'[r] # None
            PROVE  r \in legacy'
        BY <4>1, <4>5
      <4>6. row' # None
        BY DEF Row
      <4> QED BY <4>2, <4>3, <4>4, <4>5, <4>6
    <3>2. CASE ~Reused(j) /\ UNCHANGED <<legacy, place, coverage>>
      <4>1. row' \in Json \cup {Unknown} /\ row' # None
        BY <2>1 DEF UpsertConversation, Row
      <4>2. place' \in [Message -> {None} \cup legacy' \cup {"active"}]
        BY <3>2
      <4> QED BY <2>1, <3>2, <4>1, <4>2 DEF UpsertConversation
    <3> QED BY <2>1, <3>1, <3>2 DEF UpsertConversation
  <2>2. ASSUME NEW m \in Message, UpsertMessage(m)
        PROVE  TypeOK'
    <3>1. row' \in Json \cup {Unknown} /\ row' # None
      BY <2>2 DEF UpsertMessage, Row
    <3>2. place' \in [Message -> {None} \cup legacy' \cup {"active"}]
      BY <2>2 DEF UpsertMessage
    <3> QED BY <2>2, <3>1, <3>2 DEF UpsertMessage
  <2>3. CASE StartCoverage
    BY <2>3 DEF StartCoverage, history, Row
  <2>4. CASE FetchEmptyPage
    BY <2>4 DEF FetchEmptyPage, tables, history
  <2>5. CASE FinishCoverage
    <3>1. coverage["active"] # None => proof \in {None, "open"} \cup Json
      OBVIOUS
    <3>2. coverage' \in [Row -> {None, "open"} \cup Json]
      BY <2>5, <3>1 DEF FinishCoverage, Row
    <3> QED BY <2>5, <3>2 DEF FinishCoverage, history, Row
  <2>6. ASSUME NEW j \in Json, Reassign(j)
        PROVE  TypeOK'
    BY <2>6 DEF Reassign, tables
  <2>7. CASE UNCHANGED vars
    BY <2>7 DEF vars, tables, history
  <2> QED BY <2>1, <2>2, <2>3, <2>4, <2>5, <2>6, <2>7 DEF Next
<1> QED BY <1>1, <1>2, PTL DEF Spec

-----------------------------------------------------------------------------
(* What is preserved.                                                      *)

\* Property PreservedForGood: no message is lost, and neither a preserved
\* conversation nor its messages nor its coverage change again.
THEOREM Preserved == Spec => PreservedForGood
<1> DEFINE Kept ==
      /\ \A m \in Message :
            /\ place[m] # None => place'[m] # None
            /\ place[m] \in legacy => place'[m] = place[m]
      /\ \A r \in legacy : r \in legacy' /\ coverage'[r] = coverage[r]
<1>1. ASSUME TypeOK, [Next]_vars
      PROVE  Kept
  <2> USE <1>1 DEF TypeOK
  <2>0. "active" \notin legacy /\ legacy \subseteq Row
    BY DEF Row
  <2>1. ASSUME NEW j \in Json \cup {Unknown}, UpsertConversation(j)
        PROVE  Kept
    BY <2>0, <2>1 DEF UpsertConversation, Preserve, Reused, Row
  <2>2. ASSUME NEW m \in Message, UpsertMessage(m)
        PROVE  Kept
    BY <2>0, <2>2 DEF UpsertMessage, Row
  <2>3. CASE StartCoverage \/ FetchEmptyPage \/ FinishCoverage
    BY <2>0, <2>3 DEF StartCoverage, FetchEmptyPage, FinishCoverage, tables, history
  <2>4. ASSUME NEW j \in Json, Reassign(j)
        PROVE  Kept
    BY <2>4 DEF Reassign, tables
  <2>5. CASE UNCHANGED vars
    BY <2>5 DEF vars, tables
  <2> QED BY <2>1, <2>2, <2>3, <2>4, <2>5 DEF Next
<1> QED BY <1>1, TypeCorrect, PTL DEF Spec, PreservedForGood

-----------------------------------------------------------------------------
(* Messages and their people.                                              *)

\* The row that a message is in.
PeopleOf(m) == IF place[m] = "active" THEN row ELSE place[m]

\* While announced, the active row has the numbers of the people the phone has
\* for the ID, under one name or another.
AnnouncedInv ==
    announced => row \in Json /\ Numbers[row] # {} /\ SamePeople(row, phone)

\* An orderly message is among people who have numbers.
OrderlyInv == \A m \in orderly : Numbers[Sent[m]] # {}

\* What makes the property inductive.
PeopleInv == TypeOK /\ AnnouncedInv /\ OrderlyInv /\ OrderlyStayWithTheirPeople

\* A list with numbers that is stored over another with numbers, without being
\* a reuse of the ID, is of the same people.
LEMMA RenamedOnly ==
    ASSUME GroupsApart, NEW i \in Json, NEW j \in Json,
           Numbers[i] # {}, Numbers[j] # {}, ~IdentityChanged(i, j)
    PROVE  SamePeople(i, j)
BY DEF GroupsApart, IdentityChanged, SamePeople

\* Property OrderlyStayWithTheirPeople, where no two groups share a member:
\* a message that was stored while its conversation was there with its numbers
\* stays with the people it was exchanged with, however often the phone uses
\* the ID again, until a list without numbers is stored over theirs.
THEOREM StayWithTheirPeople ==
    ASSUME GroupsApart
    PROVE  Spec => []OrderlyStayWithTheirPeople
<1>1. Init => PeopleInv
  BY DEF Init, PeopleInv, TypeOK, Row, AnnouncedInv, OrderlyInv, OrderlyStayWithTheirPeople
<1>2. ASSUME PeopleInv, TypeOK', [Next]_vars
      PROVE  PeopleInv'
  <2> USE <1>2 DEF PeopleInv, TypeOK
  <2>0. \A m \in orderly : m \in Message /\ Sent[m] \in Json
    BY JsonAssumption
  <2>1. ASSUME NEW i \in Json \cup {Unknown}, UpsertConversation(i)
        PROVE  PeopleInv'
    <3>1. AnnouncedInv' /\ OrderlyInv'
      BY <2>1, JsonAssumption DEF UpsertConversation, Incoming, AnnouncedInv, OrderlyInv, SamePeople
    <3>2. ASSUME NEW m \in orderly, Reused(i) /\ Preserve
          PROVE  place'[m] # None /\ place'[m] # "active" /\ SamePeople(place'[m], Sent[m])
      BY <2>0, <3>2 DEF Preserve, Reused, OrderlyStayWithTheirPeople, Row
    <3>3. ASSUME NEW m \in orderly', ~Reused(i), UNCHANGED <<legacy, place, coverage>>
          PROVE  place'[m] # None /\ SamePeople(IF place'[m] = "active" THEN row' ELSE place'[m], Sent[m])
      <4>0. m \in orderly /\ m \in Message /\ row' = i /\ i \in Incoming
        BY <2>0, <2>1, <3>3 DEF UpsertConversation
      <4>1. CASE place[m] = "active"
        <5>1. row # None /\ SamePeople(row, Sent[m])
          BY <4>0, <4>1 DEF OrderlyStayWithTheirPeople
        <5>2. row \in Json /\ Numbers[row] # {}
          BY <4>0, <5>1, JsonAssumption DEF SamePeople, OrderlyInv
        <5>3. i \in Json /\ Numbers[i] # {}
          BY <2>1, <3>3, <4>0, <4>1, JsonAssumption DEF UpsertConversation, In
        <5>4. ~IdentityChanged(row, i)
          BY <3>3, <4>0, <4>1, <5>1 DEF Reused, In
        <5>5. SamePeople(row, i)
          BY <5>2, <5>3, <5>4, RenamedOnly
        <5> QED BY <3>3, <4>0, <4>1, <5>1, <5>5 DEF SamePeople, Row
      <4>2. CASE place[m] # "active"
        BY <3>3, <4>0, <4>2 DEF OrderlyStayWithTheirPeople
      <4> QED BY <4>1, <4>2
    <3>4. orderly' \subseteq orderly
      BY <2>1 DEF UpsertConversation
    <3>5. OrderlyStayWithTheirPeople'
      BY <2>1, <3>2, <3>3, <3>4 DEF UpsertConversation, OrderlyStayWithTheirPeople
    <3> QED BY <3>1, <3>5
  <2>2. ASSUME NEW m \in Message, UpsertMessage(m)
        PROVE  PeopleInv'
    <3>1. row # None => row' = row
      BY <2>2 DEF UpsertMessage
    <3>2. AnnouncedInv' /\ OrderlyInv'
      BY <2>2, <3>1 DEF UpsertMessage, AnnouncedInv, OrderlyInv, SamePeople, Row
    <3>3. ASSUME NEW n \in orderly
          PROVE  place'[n] = place[n] /\ (place[n] = "active" => row # None)
      BY <2>0, <2>2 DEF UpsertMessage, OrderlyStayWithTheirPeople
    <3>4. ASSUME place[m] = None, announced
          PROVE  place'[m] = "active" /\ "active" # None /\ SamePeople(row', Sent[m])
      BY <2>2, <3>1, <3>4 DEF UpsertMessage, AnnouncedInv, SamePeople, Row
    <3>5. ASSUME NEW n \in orderly'
          PROVE  place'[n] # None /\ SamePeople(IF place'[n] = "active" THEN row' ELSE place'[n], Sent[n])
      <4>1. CASE n \in orderly
        BY <3>1, <3>3, <4>1 DEF OrderlyStayWithTheirPeople
      <4>2. CASE n \notin orderly
        <5>1. n = m /\ place[m] = None /\ announced
          BY <2>2, <3>5, <4>2 DEF UpsertMessage
        <5> QED BY <3>4, <5>1
      <4> QED BY <4>1, <4>2
    <3>6. OrderlyStayWithTheirPeople'
      BY <3>5 DEF OrderlyStayWithTheirPeople
    <3> QED BY <3>2, <3>6
  <2>3. CASE StartCoverage \/ FetchEmptyPage \/ FinishCoverage
    BY <2>3 DEF StartCoverage, FetchEmptyPage, FinishCoverage, tables, history,
                AnnouncedInv, OrderlyInv, OrderlyStayWithTheirPeople
  <2>4. ASSUME NEW j \in Json, Reassign(j)
        PROVE  PeopleInv'
    BY <2>4 DEF Reassign, tables, AnnouncedInv, OrderlyInv, OrderlyStayWithTheirPeople, SamePeople
  <2>5. CASE UNCHANGED vars
    BY <2>5 DEF vars, tables, history, AnnouncedInv, OrderlyInv, OrderlyStayWithTheirPeople
  <2> QED BY <2>1, <2>2, <2>3, <2>4, <2>5 DEF Next
<1>3. PeopleInv => OrderlyStayWithTheirPeople
  BY DEF PeopleInv
<1> QED BY <1>1, <1>2, <1>3, TypeCorrect, PTL DEF Spec
=============================================================================
