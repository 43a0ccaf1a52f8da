---------------------------- MODULE CoverageProofs ----------------------------
(***************************************************************************)
(* What the coverage tables of a conversation prove.  First the interval   *)
(* arithmetic of RecordConversationCoveragePage, for segment tables of any *)
(* size; then the invariants of CoverageLedger and its refinement of       *)
(* VerifiedHistory, each inductive together with LedgerTypeOK; then        *)
(* HistoryBackfill, which drives that ledger, for any number of passes,    *)
(* any page size and any request budget, also when several messages of the *)
(* conversation are of one millisecond.                                    *)
(***************************************************************************)
EXTENDS HistoryBackfill, CoverageLedger, WellFoundedInduction, TLAPS

\* A non-empty set of naturals has a least element, which is its Min.
LEMMA MinOfNat ==
    ASSUME NEW S \in SUBSET Nat, S # {}
    PROVE  Min(S) \in S /\ \A x \in S : Min(S) <= x
PROOF
<1> DEFINE Less == {ss \in Nat \X Nat : ss[1] < ss[2]}
<1>1. IsWellFoundedOn(Less, Nat)
  <2>1. OpToRel(<, Nat) = Less
    BY DEF OpToRel
  <2> QED BY <2>1, NatLessThanWellFounded
<1>2. PICK n \in S : \A m \in S : <<m, n>> \notin Less
  <2> HIDE DEF Less
  <2> QED BY <1>1, WFMin
<1>3. ASSUME NEW m \in S PROVE n <= m
  <2>1. m \in Nat /\ n \in Nat
    OBVIOUS
  <2>2. m < n => <<m, n>> \in Less
    BY <2>1
  <2> QED BY <1>2, <2>1, <2>2
<1> QED BY <1>3 DEF Min

\* A bounded non-empty set of naturals has a greatest element, its Max.
LEMMA MaxOfNat ==
    ASSUME NEW S \in SUBSET Nat, S # {}, NEW N \in Nat, \A x \in S : x <= N
    PROVE  Max(S) \in S /\ \A x \in S : x <= Max(S)
PROOF
<1> DEFINE T == {N - x : x \in S}
<1>1. T \in SUBSET Nat /\ T # {}
  <2>1. \A x \in S : x \in Nat /\ N - x \in Nat
    OBVIOUS
  <2> QED BY <2>1
<1>2. Min(T) \in T /\ \A y \in T : Min(T) <= y
  <2> HIDE DEF T
  <2> QED BY <1>1, MinOfNat
<1>3. PICK n \in S : Min(T) = N - n
  BY <1>2
<1>4. ASSUME NEW x \in S PROVE x <= n
  <2>1. N - x \in T
    OBVIOUS
  <2>2. N - n <= N - x
    BY <1>2, <1>3, <2>1
  <2>3. x \in Nat /\ n \in Nat
    OBVIOUS
  <2> QED BY <2>2, <2>3
<1>5. n \in S /\ \A x \in S : n >= x
  BY <1>4
<1> QED BY <1>5 DEF Max

-----------------------------------------------------------------------------
(* The segment table.                                                      *)

\* The bounds, as the leaves below need them.
LEMMA Bounds ==
    /\ MaxTime \in Nat /\ MaxClock \in Nat /\ MaxClock # 0
    /\ Time = 0 .. MaxTime /\ Clock = 0 .. MaxClock
    /\ NoRow \notin CoverageRow /\ NoTime \notin Time
PROOF
BY LimitsAssumption, NullAssumption DEF Time, Clock

\* What the merged segment is: it reaches over the page and over every segment
\* the page touches, no further than one of them does, and it is dated no
\* later than any of them.
LEMMA MergedBounds ==
    ASSUME NEW S \in SUBSET Segment,
           NEW s \in Time, NEW e \in Time, s < e, NEW now \in Clock
    PROVE  LET m == Merged(S, s, e, now) IN
           /\ m \in Segment
           /\ m.start <= s /\ e <= m.end /\ m.verifiedAt <= now
           /\ \A g \in Touching(S, s, e) :
                 m.start <= g.start /\ g.end <= m.end /\ m.verifiedAt <= g.verifiedAt
           /\ m.start = s \/ \E g \in Touching(S, s, e) : g.start = m.start
           /\ m.end = e \/ \E g \in Touching(S, s, e) : g.end = m.end
PROOF
<1> USE Bounds
<1> DEFINE old    == Touching(S, s, e)
           starts == {s} \cup {g.start : g \in old}
           ends   == {e} \cup {g.end : g \in old}
           dates  == {now} \cup {g.verifiedAt : g \in old}
           m      == Merged(S, s, e, now)
<1>1. \A g \in old : g.start \in Time /\ g.end \in Time /\ g.verifiedAt \in Clock
  BY DEF Touching, Segment
<1>2. /\ starts \in SUBSET Time /\ s \in starts
      /\ ends \in SUBSET Time /\ e \in ends
      /\ dates \in SUBSET Clock /\ now \in dates
  BY <1>1
<1>3. Min(starts) \in starts /\ \A x \in starts : Min(starts) <= x
  <2> HIDE DEF starts
  <2> QED BY <1>2, MinOfNat
<1>4. Max(ends) \in ends /\ \A x \in ends : x <= Max(ends)
  <2> HIDE DEF ends
  <2>1. ends \in SUBSET Nat /\ ends # {} /\ \A x \in ends : x <= MaxTime
    BY <1>2
  <2> QED BY <2>1, MaxOfNat
<1>5. Min(dates) \in dates /\ \A x \in dates : Min(dates) <= x
  <2> HIDE DEF dates
  <2> QED BY <1>2, MinOfNat
<1>6. m = [start |-> Min(starts), end |-> Max(ends), verifiedAt |-> Min(dates)]
  BY DEF Merged
<1>7. m.start = Min(starts) /\ m.end = Max(ends) /\ m.verifiedAt = Min(dates)
  BY <1>6
<1>8. m.start <= s /\ e <= m.end /\ m.verifiedAt <= now
  BY <1>2, <1>3, <1>4, <1>5, <1>7
<1>9. \A g \in old : m.start <= g.start /\ g.end <= m.end /\ m.verifiedAt <= g.verifiedAt
  <2>1. \A g \in old : g.start \in starts /\ g.end \in ends /\ g.verifiedAt \in dates
    OBVIOUS
  <2> HIDE DEF starts, ends, dates, m
  <2> QED BY <2>1, <1>3, <1>4, <1>5, <1>7
<1>10. /\ m.start = s \/ \E g \in old : g.start = m.start
       /\ m.end = e \/ \E g \in old : g.end = m.end
  BY <1>3, <1>4, <1>7
<1>11. m \in Segment
  <2>1. m.start \in Time /\ m.end \in Time /\ m.verifiedAt \in Clock
    BY <1>2, <1>3, <1>4, <1>5, <1>7
  <2>2. m.start < m.end
    BY <1>8, <2>1
  <2> HIDE DEF m, starts, ends, dates
  <2> QED BY <1>6, <1>7, <2>1, <2>2 DEF Segment
<1> HIDE DEF m, old
<1>12. /\ m \in Segment
       /\ m.start <= s /\ e <= m.end /\ m.verifiedAt <= now
       /\ \A g \in old :
             m.start <= g.start /\ g.end <= m.end /\ m.verifiedAt <= g.verifiedAt
       /\ m.start = s \/ \E g \in old : g.start = m.start
       /\ m.end = e \/ \E g \in old : g.end = m.end
  BY <1>8, <1>9, <1>10, <1>11
<1> QED BY <1>12 DEF m, old

\* Merging claims nothing new: a millisecond of the merged segment belongs to
\* the page or to a segment the page touches.
LEMMA MergedSpan ==
    ASSUME NEW S \in SUBSET Segment,
           NEW s \in Time, NEW e \in Time, s < e, NEW now \in Clock
    PROVE  \A t \in Span(Merged(S, s, e, now)) :
              t \in s .. (e - 1) \/ \E g \in Touching(S, s, e) : t \in Span(g)
PROOF
<1> USE Bounds
<1> DEFINE m == Merged(S, s, e, now)
<1>1. /\ m \in Segment
      /\ m.start <= s /\ e <= m.end /\ m.verifiedAt <= now
      /\ \A g \in Touching(S, s, e) :
            m.start <= g.start /\ g.end <= m.end /\ m.verifiedAt <= g.verifiedAt
      /\ m.start = s \/ \E g \in Touching(S, s, e) : g.start = m.start
      /\ m.end = e \/ \E g \in Touching(S, s, e) : g.end = m.end
  BY MergedBounds
<1> SUFFICES ASSUME NEW t \in Span(m)
             PROVE  t \in s .. (e - 1) \/ \E g \in Touching(S, s, e) : t \in Span(g)
  OBVIOUS
<1> HIDE DEF m
<1>2. m.start \in Time /\ m.end \in Time
  BY <1>1 DEF Segment
<1>3. t \in Nat /\ m.start <= t /\ t < m.end
  BY <1>2 DEF Span
<1>4. \A g \in Touching(S, s, e) : /\ g.start \in Nat /\ g.end \in Nat
                                   /\ g.start <= e /\ s <= g.end
  BY DEF Touching, Segment
<1>5. CASE t < s
  <2>1. PICK g \in Touching(S, s, e) : g.start = m.start
    BY <1>1, <1>2, <1>3, <1>5
  <2>2. g.start <= t /\ t <= g.end - 1
    BY <2>1, <1>3, <1>4, <1>5
  <2>3. t \in Span(g)
    BY <2>2, <1>3, <1>4 DEF Span
  <2> QED BY <2>3
<1>6. CASE e <= t
  <2>1. PICK g \in Touching(S, s, e) : g.end = m.end
    BY <1>1, <1>2, <1>3, <1>6
  <2>2. g.start <= t /\ t <= g.end - 1
    BY <2>1, <1>3, <1>4, <1>6
  <2>3. t \in Span(g)
    BY <2>2, <1>3, <1>4 DEF Span
  <2> QED BY <2>3
<1> QED BY <1>3, <1>5, <1>6

\* Recording a page adds exactly the page to what the table covers.
LEMMA RecordCovers ==
    ASSUME NEW S \in SUBSET Segment,
           NEW s \in Time, NEW e \in Time, s < e, NEW now \in Clock
    PROVE  Covered(RecordSegment(S, s, e, now)) = Covered(S) \cup (s .. (e - 1))
PROOF
<1> USE Bounds
<1> DEFINE m == Merged(S, s, e, now)
           old == Touching(S, s, e)
           R == RecordSegment(S, s, e, now)
<1>1. R = (S \ old) \cup {m}
  BY DEF RecordSegment
<1>2. /\ m \in Segment /\ m.start <= s /\ e <= m.end
      /\ \A g \in old : m.start <= g.start /\ g.end <= m.end
  BY MergedBounds
<1>3. \A t \in Span(m) : t \in s .. (e - 1) \/ \E g \in old : t \in Span(g)
  BY MergedSpan
<1>4. old \subseteq S
  BY DEF Touching
<1>5. \A g \in S : g.start \in Time /\ g.end \in Time
  BY DEF Segment
<1> HIDE DEF m, old, R
<1>6. m.start \in Time /\ m.end \in Time
  BY <1>2 DEF Segment
<1>7. s .. (e - 1) \subseteq Span(m)
  BY <1>2, <1>6 DEF Span
<1>8. \A g \in old : Span(g) \subseteq Span(m)
  BY <1>2, <1>4, <1>5, <1>6 DEF Span
<1>9. ASSUME NEW t \in Covered(R) PROVE t \in Covered(S) \cup (s .. (e - 1))
  <2>1. PICK g \in R : t \in Span(g)
    BY DEF Covered
  <2>2. CASE g \in S \ old
    BY <2>1, <2>2 DEF Covered
  <2>3. CASE g = m
    BY <2>1, <2>3, <1>3, <1>4 DEF Covered
  <2> QED BY <1>1, <2>2, <2>3
<1>10. ASSUME NEW t \in Covered(S) \cup (s .. (e - 1)) PROVE t \in Covered(R)
  <2>1. CASE t \in s .. (e - 1)
    BY <2>1, <1>1, <1>7 DEF Covered
  <2>2. CASE t \in Covered(S)
    <3>1. PICK g \in S : t \in Span(g)
      BY <2>2 DEF Covered
    <3>2. CASE g \in old
      BY <3>1, <3>2, <1>1, <1>8 DEF Covered
    <3>3. CASE g \notin old
      BY <3>1, <3>3, <1>1 DEF Covered
    <3> QED BY <3>2, <3>3
  <2> QED BY <2>1, <2>2
<1>11. Covered(R) = Covered(S) \cup (s .. (e - 1))
  BY <1>9, <1>10
<1> QED BY <1>11 DEF R

\* Recording a page keeps the table well typed.
LEMMA RecordType ==
    ASSUME NEW S \in SUBSET Segment,
           NEW s \in Time, NEW e \in Time, s < e, NEW now \in Clock
    PROVE  RecordSegment(S, s, e, now) \subseteq Segment
PROOF
<1> USE Bounds
<1>1. Merged(S, s, e, now) \in Segment
  BY MergedBounds
<1> QED BY <1>1 DEF RecordSegment

\* An empty table covers nothing.
LEMMA CoveredEmpty == Covered({}) = {}
PROOF
BY DEF Covered

-----------------------------------------------------------------------------
(* The ledger.                                                             *)

\* Each store operation returns a row of the table's type: a first attempt,
LEMMA StartType ==
    ASSUME NEW r \in CoverageRow \cup {NoRow}
    PROVE  StartConversationCoverage(r) \in CoverageRow
PROOF
<1>1. 0 \in Clock
  BY Bounds
<1> QED BY <1>1, Bounds
           DEF StartConversationCoverage, CoverageRow, CoverageStatus, TerminalReason

\* ... also when the row is missing, which UPDATE leaves so,
LEMMA RecordRowType ==
    ASSUME NEW r \in CoverageRow \cup {NoRow}
    PROVE  RecordRow(r) \in CoverageRow \cup {NoRow}
PROOF
BY Bounds DEF RecordRow, CoverageRow, CoverageStatus

\* ... and with any of the arguments history.go passes.
LEMMA FinishType ==
    ASSUME NEW r \in CoverageRow \cup {NoRow},
           NEW status \in CoverageStatus, NEW reason \in TerminalReason,
           NEW h \in Time \cup {NoTime}, NEW now \in Clock
    PROVE  FinishConversationCoverage(r, status, reason, h, now)
              \in CoverageRow \cup {NoRow}
PROOF
BY Bounds DEF FinishConversationCoverage, CoverageRow

\* A FinishCall is a FinishAttempt of one of the calls in history.go.
LEMMA FinishCalls ==
    ASSUME FinishCall
    PROVE  \E status \in CoverageStatus, reason \in TerminalReason, h \in Time \cup {NoTime} :
              /\ FinishAttempt(status, reason, h)
              /\ status = "source_exhausted" =>
                    h \in Time /\ reason \in {"empty_page", "no_older_messages"}
PROOF
BY DEF FinishCall, CoverageStatus, TerminalReason

-----------------------------------------------------------------------------

\* The tables and the clock keep their types, whatever the order of calls.
THEOREM LedgerTypeCorrect == LedgerSpec => []LedgerTypeOK
PROOF
<1>1. LedgerInit => LedgerTypeOK
  BY Bounds DEF LedgerInit, LedgerTypeOK, Segment
<1>2. LedgerTypeOK /\ [LedgerNext]_ledger => LedgerTypeOK'
  <2> SUFFICES ASSUME LedgerTypeOK, [LedgerNext]_ledger
               PROVE  LedgerTypeOK'
    OBVIOUS
  <2> USE DEF LedgerTypeOK
  <2>1. CASE Start
    BY <2>1, StartType DEF Start
  <2>2. ASSUME NEW s \in Time, NEW e \in Time, Page(s, e)
        PROVE  LedgerTypeOK'
    <3>1. segments' \subseteq Segment
      BY <2>2, Bounds, RecordType DEF Page
    <3>2. row' \in CoverageRow \cup {NoRow}
      BY <2>2, RecordRowType DEF Page
    <3>3. lastSeen' \in [Time -> Clock]
      BY <2>2 DEF Page
    <3>4. turn' \in 0 .. 1
      BY <2>2 DEF Page
    <3> QED BY <2>2, <3>1, <3>2, <3>3, <3>4 DEF Page
  <2>3. CASE FinishCall
    <3>1. PICK status \in CoverageStatus, reason \in TerminalReason, h \in Time \cup {NoTime} :
             FinishAttempt(status, reason, h)
      BY <2>3, FinishCalls
    <3> QED BY <3>1, FinishType DEF FinishAttempt
  <2>4. CASE Tick
    BY <2>4, Bounds DEF Tick
  <2>5. CASE UNCHANGED ledger
    BY <2>5 DEF ledger
  <2> QED BY <2>1, <2>2, <2>3, <2>4, <2>5 DEF LedgerNext
<1> QED BY <1>1, <1>2, PTL DEF LedgerSpec

-----------------------------------------------------------------------------

\* Segments that neither touch the page nor each other do not touch the merged
\* segment either.
LEMMA RecordNormalForm ==
    ASSUME NEW S \in SUBSET Segment,
           \A g, h \in S : g = h \/ Apart(g, h),
           NEW s \in Time, NEW e \in Time, s < e, NEW now \in Clock
    PROVE  \A g, h \in RecordSegment(S, s, e, now) : g = h \/ Apart(g, h)
PROOF
<1> DEFINE m   == Merged(S, s, e, now)
           old == Touching(S, s, e)
<1>1. /\ m \in Segment
      /\ m.start <= s /\ e <= m.end /\ m.verifiedAt <= now
      /\ \A g \in old :
            m.start <= g.start /\ g.end <= m.end /\ m.verifiedAt <= g.verifiedAt
      /\ m.start = s \/ \E g \in old : g.start = m.start
      /\ m.end = e \/ \E g \in old : g.end = m.end
  BY Bounds, MergedBounds
<1>2. RecordSegment(S, s, e, now) = (S \ old) \cup {m}
  BY DEF RecordSegment
<1>3. \A g \in S : g.start \in Nat /\ g.end \in Nat /\ g.start < g.end
  BY Bounds DEF Segment
<1>4. \A g \in old : g \in S /\ g.start <= e /\ s <= g.end
  BY DEF Touching
<1>5. \A g \in S \ old : ~(g.start <= e /\ s <= g.end)
  BY DEF Touching
<1> HIDE DEF m, old
<1>6. m.start \in Nat /\ m.end \in Nat
  BY <1>1, Bounds DEF Segment
<1>7. s \in Nat /\ e \in Nat
  BY Bounds
<1>8. ASSUME NEW g \in S \ old
      PROVE  Apart(g, m) /\ Apart(m, g)
  <2>1. e < g.start \/ g.end < s
    BY <1>3, <1>5, <1>7
  <2>2. CASE e < g.start
    <3>1. m.end = e \/ \E h \in old : h.end = m.end
      BY <1>1
    <3>2. ASSUME NEW h \in old, h.end = m.end
          PROVE  m.end < g.start
      <4>1. h \in S /\ h.start <= e /\ h # g
        BY <1>4
      <4>2. g.end < h.start \/ h.end < g.start
        BY <4>1 DEF Apart
      <4> QED BY <2>2, <3>2, <4>1, <4>2, <1>3, <1>7
    <3>3. m.end < g.start
      BY <2>2, <3>1, <3>2
    <3> QED BY <3>3 DEF Apart
  <2>3. CASE g.end < s
    <3>1. m.start = s \/ \E h \in old : h.start = m.start
      BY <1>1
    <3>2. ASSUME NEW h \in old, h.start = m.start
          PROVE  g.end < m.start
      <4>1. h \in S /\ s <= h.end /\ h # g
        BY <1>4
      <4>2. g.end < h.start \/ h.end < g.start
        BY <4>1 DEF Apart
      <4> QED BY <2>3, <3>2, <4>1, <4>2, <1>3, <1>7
    <3>3. g.end < m.start
      BY <2>3, <3>1, <3>2
    <3> QED BY <3>3 DEF Apart
  <2> QED BY <2>1, <2>2, <2>3
<1> QED BY <1>2, <1>8

\* The segment table is in normal form in every reachable state.
THEOREM SegmentsNormalForm == LedgerSpec => []NormalForm
PROOF
<1>1. LedgerInit => NormalForm
  BY DEF LedgerInit, NormalForm
<1>2. LedgerTypeOK /\ NormalForm /\ [LedgerNext]_ledger => NormalForm'
  <2> SUFFICES ASSUME LedgerTypeOK, NormalForm, [LedgerNext]_ledger
               PROVE  NormalForm'
    OBVIOUS
  <2>1. ASSUME NEW s \in Time, NEW e \in Time, Page(s, e)
        PROVE  NormalForm'
    <3>1. s < e /\ segments' = RecordSegment(segments, s, e, clock)
      BY <2>1 DEF Page
    <3>2. segments \in SUBSET Segment /\ clock \in Clock
      BY DEF LedgerTypeOK
    <3>3. \A g, h \in segments : g = h \/ Apart(g, h)
      BY DEF NormalForm
    <3>4. \A g, h \in segments' : g = h \/ Apart(g, h)
      BY <3>1, <3>2, <3>3, RecordNormalForm
    <3> QED BY <3>4 DEF NormalForm, Apart
  <2>2. CASE UNCHANGED segments
    BY <2>2 DEF NormalForm, Apart
  <2>3. Start \/ FinishCall \/ Tick \/ UNCHANGED ledger => UNCHANGED segments
    BY DEF Start, FinishCall, FinishAttempt, Tick, ledger
  <2> QED BY <2>1, <2>2, <2>3 DEF LedgerNext
<1> QED BY <1>1, <1>2, LedgerTypeCorrect, PTL DEF LedgerSpec

-----------------------------------------------------------------------------

\* verified_at never overstates how recently a segment was traversed.
THEOREM ClaimsAreWeakest == LedgerSpec => []WeakestClaim
PROOF
<1>1. LedgerInit => WeakestClaim
  BY DEF LedgerInit, WeakestClaim
<1>2. LedgerTypeOK /\ WeakestClaim /\ [LedgerNext]_ledger => WeakestClaim'
  <2> SUFFICES ASSUME LedgerTypeOK, WeakestClaim, [LedgerNext]_ledger
               PROVE  WeakestClaim'
    OBVIOUS
  <2>1. ASSUME NEW s \in Time, NEW e \in Time, Page(s, e)
        PROVE  WeakestClaim'
    <3> DEFINE m   == Merged(segments, s, e, clock)
               old == Touching(segments, s, e)
    <3>1. /\ s < e /\ segments' = (segments \ old) \cup {m}
          /\ \A t \in Time :
                lastSeen'[t] = IF t \in s .. (e - 1) THEN clock ELSE lastSeen[t]
      BY <2>1 DEF Page, RecordSegment
    <3>2. segments \in SUBSET Segment /\ clock \in Clock
      BY DEF LedgerTypeOK
    <3>3. /\ m \in Segment
          /\ m.start <= s /\ e <= m.end /\ m.verifiedAt <= clock
          /\ \A g \in old :
                m.start <= g.start /\ g.end <= m.end /\ m.verifiedAt <= g.verifiedAt
          /\ m.start = s \/ \E g \in old : g.start = m.start
          /\ m.end = e \/ \E g \in old : g.end = m.end
      BY <3>1, <3>2, Bounds, MergedBounds
    <3>4. \A t \in Span(m) : t \in s .. (e - 1) \/ \E g \in old : t \in Span(g)
      BY <3>1, <3>2, Bounds, MergedSpan
    <3>5. \A g \in segments : /\ g.start \in Time /\ g.end \in Time
                              /\ g.verifiedAt \in Clock
                              /\ (g \notin old => ~(g.start <= e /\ g.end >= s))
      BY <3>2 DEF Segment, Touching
    <3>6. old \subseteq segments
      BY DEF Touching
    <3> HIDE DEF m, old
    <3>7. m.start \in Time /\ m.end \in Time /\ m.verifiedAt \in Clock
      BY <3>3 DEF Segment
    <3>8. \A t \in Time : lastSeen[t] \in Nat
      BY Bounds DEF LedgerTypeOK
    <3>9. ASSUME NEW g \in segments \ old, NEW t \in Span(g)
          PROVE  lastSeen'[t] >= g.verifiedAt
      <4>1. t \in Time /\ t \notin s .. (e - 1)
        BY <3>5, Bounds DEF Span
      <4>2. lastSeen[t] >= g.verifiedAt
        BY DEF WeakestClaim
      <4> QED BY <3>1, <4>1, <4>2
    <3>10. ASSUME NEW t \in Span(m)
           PROVE  lastSeen'[t] >= m.verifiedAt
      <4>1. t \in Time
        BY <3>7, Bounds DEF Span
      <4>2. CASE t \in s .. (e - 1)
        BY <4>1, <4>2, <3>1, <3>2, <3>3, <3>7, Bounds
      <4>3. CASE t \notin s .. (e - 1)
        <5>1. PICK g \in old : t \in Span(g)
          BY <4>3, <3>4
        <5>2. lastSeen[t] >= g.verifiedAt /\ g.verifiedAt \in Clock
          BY <5>1, <3>5, <3>6 DEF WeakestClaim
        <5>3. m.verifiedAt <= g.verifiedAt /\ lastSeen'[t] = lastSeen[t]
          BY <4>1, <4>3, <3>1, <3>3
        <5> QED BY <5>2, <5>3, <3>7, <3>8, <4>1, Bounds
      <4> QED BY <4>2, <4>3
    <3> QED BY <3>1, <3>9, <3>10 DEF WeakestClaim, Span
  <2>2. CASE UNCHANGED <<segments, lastSeen>>
    BY <2>2 DEF WeakestClaim, Span
  <2>3. Start \/ FinishCall \/ Tick \/ UNCHANGED ledger => UNCHANGED <<segments, lastSeen>>
    BY DEF Start, FinishCall, FinishAttempt, Tick, ledger
  <2> QED BY <2>1, <2>2, <2>3 DEF LedgerNext
<1> QED BY <1>1, <1>2, LedgerTypeCorrect, PTL DEF LedgerSpec

\* The segment table claims exactly what was traversed.
THEOREM ClaimsAreExact == LedgerSpec => []ClaimsWhatWasTraversed
PROOF
<1>1. LedgerInit => ClaimsWhatWasTraversed
  BY CoveredEmpty DEF LedgerInit, ClaimsWhatWasTraversed
<1>2. LedgerTypeOK /\ ClaimsWhatWasTraversed /\ [LedgerNext]_ledger => ClaimsWhatWasTraversed'
  <2> SUFFICES ASSUME LedgerTypeOK, ClaimsWhatWasTraversed, [LedgerNext]_ledger
               PROVE  ClaimsWhatWasTraversed'
    OBVIOUS
  <2>1. ASSUME NEW s \in Time, NEW e \in Time, Page(s, e)
        PROVE  ClaimsWhatWasTraversed'
    <3>1. s < e /\ segments' = RecordSegment(segments, s, e, clock)
      BY <2>1 DEF Page
    <3>2. \A t \in Time :
             lastSeen'[t] = IF t \in s .. (e - 1) THEN clock ELSE lastSeen[t]
      BY <2>1 DEF Page
    <3>3. segments \in SUBSET Segment /\ clock \in Clock
      BY DEF LedgerTypeOK
    <3>4. Covered(segments') = Covered(segments) \cup (s .. (e - 1))
      BY <3>1, <3>3, Bounds, RecordCovers
    <3>5. \A t \in Time : t \in Covered(segments') <=> lastSeen'[t] # 0
      BY <3>2, <3>4 DEF ClaimsWhatWasTraversed, LedgerTypeOK
    <3> QED BY <3>5 DEF ClaimsWhatWasTraversed, Covered, Span
  <2>2. CASE UNCHANGED <<segments, lastSeen>>
    BY <2>2 DEF ClaimsWhatWasTraversed, Covered, Span
  <2>3. Start \/ FinishCall \/ Tick \/ UNCHANGED ledger => UNCHANGED <<segments, lastSeen>>
    BY DEF Start, FinishCall, FinishAttempt, Tick, ledger
  <2> QED BY <2>1, <2>2, <2>3 DEF LedgerNext
<1> QED BY <1>1, <1>2, LedgerTypeCorrect, PTL DEF LedgerSpec

\* An exhausted conversation always carries its evidence.
THEOREM ExhaustionHasEvidence == LedgerSpec => []ExhaustedHasEvidence
PROOF
<1>1. LedgerInit => ExhaustedHasEvidence
  BY DEF LedgerInit, ExhaustedHasEvidence
<1>2. LedgerTypeOK /\ ExhaustedHasEvidence /\ [LedgerNext]_ledger => ExhaustedHasEvidence'
  <2> SUFFICES ASSUME LedgerTypeOK, ExhaustedHasEvidence, [LedgerNext]_ledger
               PROVE  ExhaustedHasEvidence'
    OBVIOUS
  <2>0. row \in CoverageRow \cup {NoRow} /\ clock # 0
    BY DEF LedgerTypeOK
  <2>1. CASE Start
    BY <2>0, <2>1 DEF Start, StartConversationCoverage, ExhaustedHasEvidence, CoverageRow
  <2>2. ASSUME NEW s \in Time, NEW e \in Time, Page(s, e)
        PROVE  ExhaustedHasEvidence'
    BY <2>0, <2>2 DEF Page, RecordRow, ExhaustedHasEvidence, CoverageRow
  <2>3. CASE FinishCall
    <3>1. PICK status \in CoverageStatus, reason \in TerminalReason, h \in Time \cup {NoTime} :
             /\ FinishAttempt(status, reason, h)
             /\ status = "source_exhausted" =>
                   h \in Time /\ reason \in {"empty_page", "no_older_messages"}
      BY <2>3, FinishCalls
    <3> QED BY <2>0, <3>1, Bounds
            DEF FinishAttempt, FinishConversationCoverage, ExhaustedHasEvidence, CoverageRow
  <2>4. CASE Tick \/ UNCHANGED ledger
    BY <2>4 DEF Tick, ledger, ExhaustedHasEvidence
  <2> QED BY <2>1, <2>2, <2>3, <2>4 DEF LedgerNext
<1> QED BY <1>1, <1>2, LedgerTypeCorrect, PTL DEF LedgerSpec

-----------------------------------------------------------------------------

\* The tables implement the abstract ledger of VerifiedHistory: a page that
\* is recorded traverses its interval, a finish certifies or does nothing, and
\* every other call is invisible.
THEOREM LedgerRefinesVerifiedHistory == LedgerSpec => ImplementsVerifiedHistory
PROOF
<1> DEFINE exhausted == row # NoRow /\ row.status = "source_exhausted"
<1>1. LedgerInit => Abstract!Init
  BY CoveredEmpty DEF LedgerInit, Abstract!Init
<1>2. LedgerTypeOK /\ [LedgerNext]_ledger => [Abstract!Next]_Abstract!vars
  <2> SUFFICES ASSUME LedgerTypeOK, [LedgerNext]_ledger
               PROVE  [Abstract!Next]_Abstract!vars
    OBVIOUS
  <2>0. row \in CoverageRow \cup {NoRow}
    BY DEF LedgerTypeOK
  <2>1. ASSUME NEW s \in Time, NEW e \in Time, Page(s, e)
        PROVE  Abstract!Next
    <3>1. /\ s < e /\ segments' = RecordSegment(segments, s, e, clock)
          /\ segments \in SUBSET Segment /\ clock \in Clock
      BY <2>1 DEF Page, LedgerTypeOK
    <3>2. Covered(segments') = Covered(segments) \cup (s .. (e - 1))
      BY <3>1, Bounds, RecordCovers
    <3>3. ~exhausted'
      BY <2>0, <2>1 DEF Page, RecordRow, CoverageRow
    <3>4. s .. (e - 1) \in SUBSET Time
      BY Bounds
    <3>5. Covered(segments)' = Covered(segments) \cup (s .. (e - 1))
      BY <3>2 DEF Covered, Span
    <3>6. s .. (e - 1) # {} /\ turn' = 1 - turn
      <4>1. s \in Nat /\ e \in Nat /\ s < e
        BY <3>1, Bounds
      <4>2. s \in s .. (e - 1)
        BY <4>1
      <4>3. turn' = 1 - turn
        BY <2>1 DEF Page
      <4> QED BY <4>2, <4>3
    <3>7. Abstract!Traverse(s .. (e - 1))
      BY <3>3, <3>5, <3>6 DEF Abstract!Traverse
    <3> QED BY <3>4, <3>7 DEF Abstract!Next
  <2>2. CASE Start
    <3>1. exhausted' = exhausted /\ UNCHANGED <<segments, turn>>
      BY <2>0, <2>2 DEF Start, StartConversationCoverage, CoverageRow
    <3> QED BY <3>1 DEF Abstract!vars, Covered, Span
  <2>3. CASE FinishCall
    <3>1. PICK status \in CoverageStatus, reason \in TerminalReason, h \in Time \cup {NoTime} :
             FinishAttempt(status, reason, h)
      BY <2>3, FinishCalls
    <3>2. UNCHANGED <<segments, turn>> /\ (exhausted => exhausted')
      <4>1. row' = FinishConversationCoverage(row, status, reason, h, clock)
        BY <3>1 DEF FinishAttempt
      <4>2. exhausted => /\ row'.status = "source_exhausted"
                         /\ row' \in CoverageRow
        BY <2>0, <4>1, FinishType DEF FinishConversationCoverage, CoverageRow, LedgerTypeOK
      <4> QED BY <3>1, <4>2, Bounds DEF FinishAttempt
    <3>3. UNCHANGED Covered(segments) /\ UNCHANGED turn
      BY <3>2 DEF Covered, Span
    <3>4. CASE exhausted'
      BY <3>3, <3>4 DEF Abstract!Next, Abstract!Certify
    <3>5. CASE ~exhausted'
      BY <3>2, <3>3, <3>5 DEF Abstract!vars
    <3> QED BY <3>2, <3>4, <3>5
  <2>4. CASE Tick \/ UNCHANGED ledger
    BY <2>4 DEF Tick, ledger, Abstract!vars, Covered, Span
  <2> QED BY <2>1, <2>2, <2>3, <2>4 DEF LedgerNext
<1> QED BY <1>1, <1>2, LedgerTypeCorrect, PTL DEF LedgerSpec, ImplementsVerifiedHistory, Abstract!Spec

-----------------------------------------------------------------------------
(* The backfill.                                                           *)

Loaded == {"import", "record"}

\* The page a pass holds reaches back from its cursor, without a gap.
Contiguous(p) ==
    /\ page[p] \subseteq 1 .. newest /\ pending[p] \subseteq page[p]
    /\ next[p] \in {NoCursor, cursor[p]} \cup page[p]
    /\ page[p] = {} => cursor[p] \in {NoCursor, 1}
    /\ page[p] # {} => \E lo, hi \in Message :
          /\ lo <= hi /\ page[p] = lo .. hi
          /\ cursor[p] # NoCursor =>
                hi \in {cursor[p] - 1, cursor[p]} /\ (lo < cursor[p] \/ cursor[p] = 1)

\* What a pass has imported without an error is in the archive, and so is the
\* message its cursor names.
Honest(p) ==
    /\ pc[p] \in {"start", "oldest", "fetch"} => left[p] > 0
    /\ pc[p] \in Loaded => Contiguous(p)
    /\ cursor[p] # NoCursor => cursor[p] \in archived
    /\ pc[p] = "import" /\ ~fatal[p] => page[p] \ pending[p] \subseteq archived
    /\ pc[p] = "record" => page[p] \subseteq archived

PassInv == \A p \in Pass : Honest(p)

\* No two of the first n messages are of the millisecond t.
Alone(t, n) == \A l, m \in 1 .. n : Ts[l] = t /\ Ts[m] = t => l = m

\* Of n messages that the relay holds one begins at t, and if it is alone there,
\* all with a timestamp up to t are in A.
AllTo(t, n, A) ==
    /\ t # 0 => \E c \in 1 .. n : Ts[c] = t
    /\ Alone(t, n) => \A m \in 1 .. n : Ts[m] \in 1 .. t => m \in A

\* The claims of the tables, of messages to come as well, and of a pass that
\* is about to write its verdict.
ClaimInv ==
    /\ \A m \in Message : Ts[m] \in Covered(segments) => \E n \in archived : Ts[n] = Ts[m]
    /\ row # NoRow /\ row.historyStart # NoTime => AllTo(row.historyStart, newest, archived)
    /\ \A p \in Pass : verdict[p].historyStart # NoTime =>
          AllTo(verdict[p].historyStart, newest, archived)

-----------------------------------------------------------------------------

\* A response: where its page lies, and what its cursor may name.
LEMMA PageShape ==
    ASSUME TypeOK, NEW c \in Cursor, c # NoCursor => c \in 1 .. newest,
           NEW messages \in Pages(c), NEW n \in NextCursors(c, messages)
    PROVE  /\ messages \subseteq 1 .. newest /\ 1 .. newest \subseteq Message
           /\ n \in {NoCursor, c} \cup messages
           /\ messages = {} => c \in {NoCursor, 1}
           /\ messages # {} => \E lo, hi \in Message :
                 /\ lo <= hi /\ messages = lo .. hi
                 /\ c # NoCursor => hi \in {c - 1, c} /\ (lo < c \/ c = 1)
<1> DEFINE top == IF c = NoCursor THEN newest ELSE c - 1
<1>1. newest \in Nat /\ newest <= MaxMessage /\ MaxMessage \in Nat /\ PageSize \in Nat \ {0} /\ c \in Nat
  BY BoundsAssumption DEF TypeOK, Cursor, Message, NoCursor
<1>2. top \in Nat /\ top <= newest /\ (c # NoCursor => c = top + 1 /\ c <= newest)
  BY <1>1 DEF NoCursor
<1>3. 1 .. newest \subseteq Message
  BY <1>1 DEF Message
<1>4. /\ messages \subseteq 1 .. newest
      /\ messages = {} => c \in {NoCursor, 1}
      /\ messages # {} => \E lo, hi \in Message :
            /\ lo <= hi /\ messages = lo .. hi
            /\ c # NoCursor => hi \in {c - 1, c} /\ (lo < c \/ c = 1)
  <2>1. CASE top = 0
    <3>1. messages = {} \/ (c # NoCursor /\ messages = {c})
      BY <2>1 DEF Pages
    <3>2. c \in {NoCursor, 1}
      BY <1>2, <2>1
    <3>3. CASE messages = {}
      BY <3>2, <3>3
    <3>4. CASE c # NoCursor /\ messages = {c}
      <4>1. c = 1 /\ {c} = 1 .. 1 /\ 1 <= newest
        BY <1>2, <2>1, <3>4
      <4>2. 1 \in Message /\ 1 <= 1 /\ 1 \in 1 .. newest
        BY <1>1, <4>1 DEF Message
      <4> QED BY <3>4, <4>1, <4>2
    <3> QED BY <3>1, <3>3, <3>4
  <2>2. CASE top # 0
    <3>1. PICK lo \in 1 .. top :
             messages = lo .. top \/ (c # NoCursor /\ messages = lo .. c)
      BY <2>2 DEF Pages
    <3>2. lo \in Message /\ top \in Message
      <4>1. lo \in 1 .. newest /\ top \in 1 .. newest
        BY <1>1, <1>2, <2>2
      <4> QED BY <1>3, <4>1
    <3>3. CASE messages = lo .. top
      BY <1>1, <1>2, <3>1, <3>2, <3>3
    <3>4. CASE c # NoCursor /\ messages = lo .. c
      <4>1. c \in Message /\ lo <= c /\ lo < c
        BY <1>1, <1>2, <1>3, <3>1, <3>4
      <4> QED BY <1>1, <1>2, <3>1, <3>2, <3>4, <4>1
    <3> QED BY <3>1, <3>3, <3>4
  <2> QED BY <2>1, <2>2
<1>5. n \in {NoCursor, c} \cup messages
  <2>1. messages # {} => Min(messages) \in messages
    BY <1>4, MinOfNat
  <2> QED BY <2>1 DEF NextCursors
<1> QED BY <1>3, <1>4, <1>5

\* A pass that ends forgets its locals.
LEMMA ForgetType ==
    ASSUME TypeOK, NEW p \in Pass, Forget(p), UNCHANGED <<newest, known, archived, segments>>,
           row' \in CoverageRow \cup {NoRow}
    PROVE  TypeOK'
<1>1. 0 \in 0 .. Requests /\ NoCursor \in Cursor
  BY BoundsAssumption DEF Cursor
<1>2. NoVerdict \in [status : CoverageStatus, reason : TerminalReason, historyStart : Time \cup {NoTime}]
  BY DEF NoVerdict, CoverageStatus, TerminalReason
<1> QED BY <1>1, <1>2 DEF TypeOK, Forget, Goto, Control

\* The verdicts have their type.
LEMMA VerdictType ==
    ASSUME TypeOK, NEW p \in Pass, NEW status \in CoverageStatus, NEW reason \in TerminalReason,
           NEW h \in Time \cup {NoTime}, Conclude(p, Verdict(status, reason, h))
    PROVE  /\ pc' \in [Pass -> Control]
           /\ verdict' \in [Pass -> [status : CoverageStatus, reason : TerminalReason,
                                     historyStart : Time \cup {NoTime}]]
BY DEF TypeOK, Conclude, Verdict, Goto, Control

\* The row keeps its type through each method of the store.
LEMMA RowTypes ==
    ASSUME TypeOK
    PROVE  /\ StartConversationCoverage(row) \in CoverageRow
           /\ RecordRow(row) \in CoverageRow \cup {NoRow}
           /\ \A p \in Pass : FinishConversationCoverage(row, verdict[p].status, verdict[p].reason, verdict[p].historyStart, 1)
                               \in CoverageRow \cup {NoRow}
<1>1. 1 \in Clock /\ 0 \in Clock
  BY BoundsAssumption DEF Clock
<1>2. row = NoRow \/ row \in CoverageRow
  BY DEF TypeOK
<1> USE DEF CoverageRow
<1>3. StartConversationCoverage(row) \in CoverageRow
  BY <1>1, <1>2 DEF StartConversationCoverage, CoverageStatus, TerminalReason
<1>4. RecordRow(row) \in CoverageRow \cup {NoRow}
  BY <1>2 DEF RecordRow, CoverageStatus
<1>5. ASSUME NEW p \in Pass
      PROVE  FinishConversationCoverage(row, verdict[p].status, verdict[p].reason, verdict[p].historyStart, 1)
                \in CoverageRow \cup {NoRow}
  <2>1. verdict[p].status \in CoverageStatus /\ verdict[p].reason \in TerminalReason
        /\ verdict[p].historyStart \in Time \cup {NoTime}
    BY DEF TypeOK
  <2> QED BY <1>1, <1>2, <2>1 DEF FinishConversationCoverage
<1> QED BY <1>3, <1>4, <1>5

\* The cursor of a pass is a message that has arrived.
LEMMA CursorArrived ==
    ASSUME TypeOK, PassInv, NEW p \in Pass, cursor[p] # NoCursor
    PROVE  cursor[p] \in 1 .. newest /\ cursor[p] \in Message
<1>1. cursor[p] \in archived /\ archived \subseteq 1 .. newest /\ newest <= MaxMessage
      /\ newest \in Nat /\ MaxMessage \in Nat
  BY BoundsAssumption DEF PassInv, Honest, TypeOK
<1>2. cursor[p] \in 1 .. newest
  BY <1>1
<1> QED BY <1>1, <1>2 DEF Message

\* A page with a timestamp claims an interval of milliseconds.
LEMMA BoundsType ==
    ASSUME TypeOK, PassInv, NEW p \in Pass, pc[p] = "record", NEW b \in HistoryPageBounds(page[p], cursor[p])
    PROVE  /\ b[1] \in Time /\ b[2] \in Time /\ b[1] < b[2]
           /\ \E m \in Stamped(page[p]) : b[1] = Ts[m]
           /\ \E m \in page[p] \cup ({cursor[p]} \ {NoCursor}) : b[2] = Ts[m] + 1
<1> DEFINE messages == page[p]
           c == cursor[p]
           stamps == {Ts[m] : m \in Stamped(messages)}
           ends == {Max(stamps) + 1} \cup (IF c = NoCursor THEN {} ELSE {Ts[c] + 1})
<1>1. messages \subseteq Message /\ (c # NoCursor => c \in Message)
  <2>1. newest \in 0 .. MaxMessage /\ messages \subseteq 1 .. newest /\ MaxMessage \in Nat
    BY BoundsAssumption DEF TypeOK, PassInv, Honest, Loaded, Contiguous
  <2> QED BY <2>1, CursorArrived DEF Message
<1>2. \A m \in Message : Ts[m] \in 0 .. MaxTs
  BY TsAssumption
<1>3. MaxTs \in Nat
  BY BoundsAssumption
<1>4. Stamped(messages) # {} /\ b = <<Min(stamps), Max(ends)>> /\ Stamped(messages) \subseteq messages
  BY DEF HistoryPageBounds, Stamped
<1>5. stamps \in SUBSET Nat /\ stamps # {} /\ \A x \in stamps : x <= MaxTs
  BY <1>1, <1>2, <1>3, <1>4
<1> HIDE DEF stamps
<1>6. Min(stamps) \in stamps /\ \A x \in stamps : Min(stamps) <= x
  BY <1>5, MinOfNat
<1>7. Max(stamps) \in stamps /\ \A x \in stamps : x <= Max(stamps)
  BY <1>3, <1>5, MaxOfNat
<1>8. ends \in SUBSET Nat /\ ends # {} /\ \A x \in ends : x <= MaxTs + 1
  <2>1. Max(stamps) + 1 \in Nat /\ Max(stamps) + 1 <= MaxTs + 1
    <3>1. Max(stamps) \in Nat /\ Max(stamps) <= MaxTs
      BY <1>5, <1>7
    <3> QED BY <1>3, <3>1
  <2>2. c # NoCursor => Ts[c] + 1 \in Nat /\ Ts[c] + 1 <= MaxTs + 1
    BY <1>1, <1>2, <1>3
  <2> QED BY <2>1, <2>2
<1> HIDE DEF ends
<1>9. Max(ends) \in ends /\ \A x \in ends : x <= Max(ends)
  <2>1. MaxTs + 1 \in Nat
    BY <1>3
  <2> QED BY <1>8, <2>1, MaxOfNat
<1>10. Min(stamps) < Max(ends) /\ Min(stamps) \in Time /\ Max(ends) \in Time
  <2>1. Max(stamps) + 1 \in ends
    BY DEF ends
  <2>2. Min(stamps) \in Nat /\ Min(stamps) <= Max(stamps) /\ Min(stamps) <= MaxTs /\ Max(stamps) \in Nat
    BY <1>5, <1>6, <1>7
  <2>3. Max(ends) \in Nat /\ Max(stamps) + 1 <= Max(ends) /\ Max(ends) <= MaxTs + 1
    BY <1>8, <1>9, <2>1
  <2> QED BY BoundsAssumption, <1>3, <2>2, <2>3 DEF Time
<1>11. \E m \in Stamped(page[p]) : Min(stamps) = Ts[m]
  BY <1>6 DEF stamps
<1>12. \E m \in messages \cup ({c} \ {NoCursor}) : Max(ends) = Ts[m] + 1
  BY <1>4, <1>7, <1>9 DEF stamps, ends
<1> QED BY <1>4, <1>10, <1>11, <1>12

\* A page that is recorded leaves segments, none of them empty.
LEMMA SegmentTypes ==
    ASSUME TypeOK, NEW s \in Time, NEW e \in Time, s < e
    PROVE  /\ RecordSegment(segments, s, e, 1) \subseteq Segment
           /\ Covered(RecordSegment(segments, s, e, 1)) = Covered(segments) \cup (s .. (e - 1))
<1>1. segments \in SUBSET Segment /\ 1 \in Clock
  BY Bounds DEF TypeOK
<1> QED BY <1>1, RecordType, RecordCovers

-----------------------------------------------------------------------------

\* Each step of a pass keeps the types.
LEMMA PassTypes ==
    ASSUME TypeOK, PassInv, NEW p \in Pass, PassStep(p)
    PROVE  TypeOK'
<1>1. CASE StartCoverage(p)
  BY <1>1, RowTypes DEF StartCoverage, TypeOK, Goto, Control, locals
<1>2. CASE StartCoverageFails(p)
  BY <1>2, ForgetType DEF StartCoverageFails, store, TypeOK
<1>3. CASE ReadOldest(p)
  <2>1. OldestArchived \subseteq Cursor
    <3>1. archived \subseteq 1 .. newest /\ newest \in 0 .. MaxMessage /\ MaxMessage \in Nat
      BY BoundsAssumption DEF TypeOK
    <3>2. archived \subseteq Message
      BY <3>1 DEF Message
    <3> QED BY <3>2 DEF OldestArchived, Cursor
  <2> QED BY <1>3, <2>1 DEF ReadOldest, store, TypeOK, Goto, Control
<1>4. CASE FetchPage(p)
  <2>0. PICK messages \in Pages(cursor[p]) : \E n \in NextCursors(cursor[p], messages) :
           /\ page' = [page EXCEPT ![p] = messages] /\ pending' = [pending EXCEPT ![p] = messages]
           /\ next' = [next EXCEPT ![p] = n]
    BY <1>4 DEF FetchPage
  <2>1. PICK n \in NextCursors(cursor[p], messages) :
           /\ page' = [page EXCEPT ![p] = messages] /\ pending' = [pending EXCEPT ![p] = messages]
           /\ next' = [next EXCEPT ![p] = n]
    BY <2>0
  <2>2. messages \in SUBSET Message /\ n \in Cursor
    <3>1. cursor[p] \in Cursor /\ (cursor[p] # NoCursor => cursor[p] \in 1 .. newest)
      BY CursorArrived DEF TypeOK
    <3>2. messages \subseteq Message /\ n \in {NoCursor, cursor[p]} \cup messages
      BY <3>1, PageShape
    <3> QED BY <3>1, <3>2 DEF Cursor
  <2>3. left[p] - 1 \in 0 .. Requests
    BY <1>4, BoundsAssumption DEF FetchPage, PassInv, Honest, TypeOK
  <2> QED BY <1>4, <2>1, <2>2, <2>3 DEF FetchPage, store, TypeOK, Goto, Control
<1>5. CASE FetchFails(p)
  <2>1. "failed" \in CoverageStatus /\ "error" \in TerminalReason
    BY DEF CoverageStatus, TerminalReason
  <2> QED BY <1>5, <2>1, VerdictType DEF FetchFails, store, TypeOK
<1>6. CASE ImportMessage(p)
  <2>1. pending[p] \subseteq 1 .. newest
    BY <1>6 DEF ImportMessage, PassInv, Honest, Loaded, Contiguous
  <2> QED BY <1>6, <2>1 DEF ImportMessage, Persist, TypeOK
<1>7. CASE CheckFatal(p)
  <2>1. fatal' \in [Pass -> BOOLEAN]
    BY <1>7 DEF CheckFatal, TypeOK
  <2>2. CASE fatal[p]
    <3>1. "failed" \in CoverageStatus /\ "persistence_or_connection_error" \in TerminalReason
      BY DEF CoverageStatus, TerminalReason
    <3> QED BY <1>7, <2>1, <2>2, <3>1, VerdictType DEF CheckFatal, store, TypeOK
  <2>3. CASE ~fatal[p]
    BY <1>7, <2>1, <2>3 DEF CheckFatal, store, TypeOK, Goto, Control
  <2> QED BY <2>2, <2>3
<1>8. CASE RecordEmptyPage(p)
  <2> DEFINE h == IF cursor[p] = NoCursor THEN 0 ELSE Ts[cursor[p]]
  <2>1. h \in 0 .. MaxTs /\ MaxTs \in Nat
    BY BoundsAssumption, TsAssumption, CursorArrived
  <2>2. h \in Time /\ 0 \in Time /\ h + 1 \in Time /\ 0 < h + 1
    BY <2>1, BoundsAssumption DEF Time
  <2>3. segments' \subseteq Segment /\ row' \in CoverageRow \cup {NoRow}
    <3>1. \/ segments' = RecordSegment(segments, 0, h + 1, 1) /\ row' = RecordRow(row)
          \/ UNCHANGED <<row, segments>>
      BY <1>8 DEF RecordEmptyPage
    <3> HIDE DEF h
    <3> QED BY <2>2, <3>1, SegmentTypes, RowTypes DEF TypeOK
  <2>4. "source_exhausted" \in CoverageStatus /\ "empty_page" \in TerminalReason
    BY DEF CoverageStatus, TerminalReason
  <2>5. Conclude(p, Verdict("source_exhausted", "empty_page", h))
        /\ UNCHANGED <<newest, known, archived, cursor, page, pending, next, left, fatal>>
    BY <1>8 DEF RecordEmptyPage
  <2> HIDE DEF h
  <2> QED BY <2>2, <2>3, <2>4, <2>5, VerdictType DEF TypeOK
<1>9. CASE RecordPage(p)
  <2>1. segments' \subseteq Segment /\ row' \in CoverageRow \cup {NoRow}
    <3>1. CASE HistoryPageBounds(page[p], cursor[p]) = {}
      BY <1>9, <3>1 DEF RecordPage, TypeOK
    <3>2. CASE HistoryPageBounds(page[p], cursor[p]) # {}
      <4>1. PICK b \in HistoryPageBounds(page[p], cursor[p]) :
               segments' = RecordSegment(segments, b[1], b[2], 1) /\ row' = RecordRow(row)
        BY <1>9, <3>2 DEF RecordPage
      <4>2. b[1] \in Time /\ b[2] \in Time /\ b[1] < b[2]
        BY <1>9, BoundsType DEF RecordPage
      <4> QED BY <4>1, <4>2, SegmentTypes, RowTypes
    <3> QED BY <3>1, <3>2
  <2>2. PICK n : Advance(p, cursor[p], n) /\ n \in {next[p]} \cup OldestMessageCursor(page[p])
    BY <1>9 DEF RecordPage
  <2>3. n \in Cursor
    BY <2>2 DEF OldestMessageCursor, Stamped, Cursor, TypeOK
  <2>4. cursor[p] # NoCursor => Ts[cursor[p]] \in Time
    BY CursorArrived, TsAssumption, BoundsAssumption DEF Time
  <2>5. /\ pc' \in [Pass -> Control] /\ cursor' \in [Pass -> Cursor]
        /\ verdict' \in [Pass -> [status : CoverageStatus, reason : TerminalReason,
                                  historyStart : Time \cup {NoTime}]]
    <3>1. /\ {"source_exhausted", "partial"} \subseteq CoverageStatus
          /\ {"no_older_messages", "missing_cursor", "request_budget"} \subseteq TerminalReason
      BY DEF CoverageStatus, TerminalReason
    <3>2. cursor' \in [Pass -> Cursor]
      BY <2>2, <2>3 DEF Advance, TypeOK
    <3>3. \/ /\ cursor[p] # NoCursor
             /\ Conclude(p, Verdict("source_exhausted", "no_older_messages", Ts[cursor[p]]))
          \/ Conclude(p, Verdict("partial", "missing_cursor", NoTime))
          \/ Conclude(p, Verdict("partial", "request_budget", NoTime))
          \/ Goto(p, "fetch") /\ UNCHANGED verdict
      BY <2>2 DEF Advance
    <3>4. CASE Goto(p, "fetch") /\ UNCHANGED verdict
      BY <3>2, <3>4 DEF Goto, Control, TypeOK
    <3> QED BY <2>4, <3>1, <3>2, <3>3, <3>4, VerdictType
  <2> QED BY <1>9, <2>1, <2>5 DEF RecordPage, TypeOK
<1>10. CASE Finish(p)
  BY <1>10, ForgetType, RowTypes DEF Finish
<1> QED BY <1>1, <1>2, <1>3, <1>4, <1>5, <1>6, <1>7, <1>8, <1>9, <1>10 DEF PassStep

\* Every step keeps the type of the state.
LEMMA TypeStep == TypeOK /\ PassInv /\ [Next]_vars => TypeOK'
<1> SUFFICES ASSUME TypeOK, PassInv, [Next]_vars PROVE TypeOK'
  OBVIOUS
<1>1. CASE Arrive
  BY <1>1, BoundsAssumption DEF Arrive, TypeOK, store, locals
<1>2. CASE LiveMessage
  BY <1>2 DEF LiveMessage, Persist, TypeOK, locals
<1>3. ASSUME NEW p \in Pass, Begin(p) PROVE TypeOK'
  <2>1. known' \in BOOLEAN /\ fatal' \in [Pass -> BOOLEAN]
    BY <1>3 DEF Begin, TypeOK
  <2>2. Requests \in 0 .. Requests
    BY BoundsAssumption
  <2> QED BY <1>3, <2>1, <2>2 DEF Begin, TypeOK, Goto, Control
<1>4. ASSUME NEW p \in Pass, PumpFails(p) PROVE TypeOK'
  BY <1>4 DEF PumpFails, TypeOK, store, locals
<1>5. ASSUME NEW p \in Pass, Abandon(p) PROVE TypeOK'
  BY <1>5, ForgetType DEF Abandon, store, TypeOK
<1>6. CASE UNCHANGED vars
  BY <1>6 DEF vars, store, locals, TypeOK
<1> QED BY <1>1, <1>2, <1>3, <1>4, <1>5, <1>6, PassTypes DEF Next

-----------------------------------------------------------------------------

\* The archive only grows, and so does the relay's history.
LEMMA Growth ==
    ASSUME TypeOK, [Next]_vars
    PROVE  archived \subseteq archived' /\ 1 .. newest \subseteq 1 .. newest'
<1>1. archived \subseteq archived'
  BY DEF Next, PassStep, Arrive, LiveMessage, Begin, StartCoverage, StartCoverageFails, ReadOldest, FetchPage,
         FetchFails, ImportMessage, CheckFatal, RecordEmptyPage, RecordPage, Finish, PumpFails, Abandon,
         Persist, vars, store
<1>2. newest' \in {newest, newest + 1}
  BY DEF Next, PassStep, Arrive, LiveMessage, Begin, StartCoverage, StartCoverageFails, ReadOldest, FetchPage,
         FetchFails, ImportMessage, CheckFatal, RecordEmptyPage, RecordPage, Finish, PumpFails, Abandon, vars
<1>3. newest \in Nat
  BY BoundsAssumption DEF TypeOK
<1> QED BY <1>1, <1>2, <1>3

\* The steps of others leave a pass honest.
LEMMA OthersStayHonest ==
    ASSUME NEW q \in Pass, Honest(q), archived \subseteq archived', 1 .. newest \subseteq 1 .. newest',
           pc'[q] = pc[q], cursor'[q] = cursor[q], page'[q] = page[q], pending'[q] = pending[q],
           next'[q] = next[q], left'[q] = left[q], fatal'[q] = fatal[q]
    PROVE  Honest(q)'
BY DEF Honest, Contiguous, Loaded

\* A pass that has returned has nothing left to be honest about.
LEMMA ForgetHonest ==
    ASSUME TypeOK, NEW p \in Pass, Forget(p)
    PROVE  Honest(p)'
BY DEF Forget, Goto, Honest, Loaded, TypeOK

\* What a pass itself does keeps its page contiguous and its imports archived.
LEMMA HonestStep ==
    ASSUME TypeOK, PassInv, NEW p \in Pass, Begin(p) \/ PassStep(p) \/ Abandon(p),
           archived \subseteq archived', 1 .. newest \subseteq 1 .. newest'
    PROVE  Honest(p)'
<1> Honest(p)
  BY DEF PassInv
<1>1. CASE Begin(p)
  BY <1>1, BoundsAssumption DEF Begin, Goto, Honest, Loaded, TypeOK
<1>2. CASE StartCoverageFails(p) \/ Finish(p) \/ Abandon(p)
  BY <1>2, ForgetHonest DEF StartCoverageFails, Finish, Abandon
<1>3. CASE StartCoverage(p)
  BY <1>3 DEF StartCoverage, Goto, Honest, Loaded, TypeOK, locals
<1>4. CASE ReadOldest(p)
  BY <1>4 DEF ReadOldest, OldestArchived, Goto, Honest, Loaded, TypeOK, store
<1>5. CASE FetchPage(p)
  <2>1. PICK messages \in Pages(cursor[p]) : \E n \in NextCursors(cursor[p], messages) :
           /\ page' = [page EXCEPT ![p] = messages] /\ pending' = [pending EXCEPT ![p] = messages]
           /\ next' = [next EXCEPT ![p] = n]
    BY <1>5 DEF FetchPage
  <2>2. PICK n \in NextCursors(cursor[p], messages) :
           /\ page' = [page EXCEPT ![p] = messages] /\ pending' = [pending EXCEPT ![p] = messages]
           /\ next' = [next EXCEPT ![p] = n]
    BY <2>1
  <2>3. /\ pc'[p] = "import" /\ page'[p] = messages /\ pending'[p] = messages /\ next'[p] = n
        /\ UNCHANGED <<newest, cursor, archived>>
    BY <1>5, <2>2 DEF FetchPage, Goto, TypeOK, store
  <2>4. cursor[p] \in Cursor /\ (cursor[p] # NoCursor => cursor[p] \in 1 .. newest)
    BY CursorArrived DEF TypeOK
  <2>5. Contiguous(p)'
    BY <2>3, <2>4, PageShape DEF Contiguous
  <2> QED BY <2>3, <2>5 DEF Honest
<1>6. CASE FetchFails(p)
  BY <1>6 DEF FetchFails, Conclude, Goto, Honest, Loaded, TypeOK, store
<1>7. CASE ImportMessage(p)
  <2>1. PICK m \in pending[p] :
           /\ pending' = [pending EXCEPT ![p] = @ \ {m}]
           /\ \/ Persist(m) /\ UNCHANGED fatal
              \/ fatal' = [fatal EXCEPT ![p] = TRUE]
    BY <1>7 DEF ImportMessage
  <2>2. /\ pc[p] = "import" /\ UNCHANGED <<newest, pc, cursor, page, next, left>>
        /\ pending'[p] = pending[p] \ {m} /\ (m \in archived' \/ fatal'[p])
        /\ (~fatal'[p] => ~fatal[p])
    BY <1>7, <2>1 DEF ImportMessage, Persist, TypeOK
  <2>3. Contiguous(p)'
    BY <2>2 DEF Honest, Loaded, Contiguous
  <2> QED BY <2>2, <2>3 DEF Honest
<1>8. CASE CheckFatal(p)
  BY <1>8 DEF CheckFatal, Conclude, Goto, Honest, Loaded, Contiguous, TypeOK, store
<1>9. CASE RecordEmptyPage(p)
  BY <1>9 DEF RecordEmptyPage, Conclude, Goto, Honest, Loaded, TypeOK
<1>10. CASE RecordPage(p)
  <2>1. PICK n : /\ Advance(p, cursor[p], n)
                 /\ \/ n = next[p] /\ CursorMovesBackward(cursor[p], n)
                    \/ n \in OldestMessageCursor(page[p])
    BY <1>10 DEF RecordPage
  <2>2. /\ page[p] \subseteq archived /\ next[p] \in {NoCursor, cursor[p]} \cup page[p]
        /\ cursor[p] # NoCursor => cursor[p] \in archived
    BY <1>10 DEF RecordPage, Honest, Loaded, Contiguous
  <2>3. n \in archived \/ n = NoCursor
    BY <2>1, <2>2 DEF CursorMovesBackward, OldestMessageCursor, Stamped
  <2>4. CASE UNCHANGED cursor /\ pc' = [pc EXCEPT ![p] = "finish"]
    BY <1>10, <2>2, <2>4 DEF RecordPage, Honest, Loaded, TypeOK
  <2>5. CASE n # NoCursor /\ cursor' = [cursor EXCEPT ![p] = n]
             /\ IF left[p] = 0 THEN pc' = [pc EXCEPT ![p] = "finish"] ELSE pc' = [pc EXCEPT ![p] = "fetch"]
    <3>1. left'[p] = left[p] /\ left[p] \in Nat /\ archived' = archived
      BY <1>10, BoundsAssumption DEF RecordPage, TypeOK
    <3>2. cursor'[p] = n /\ n \in archived
      BY <2>3, <2>5 DEF TypeOK
    <3>3. pc'[p] = "finish" \/ (pc'[p] = "fetch" /\ left[p] > 0)
      BY <2>5, <3>1 DEF TypeOK
    <3> QED BY <3>1, <3>2, <3>3 DEF Honest, Loaded
  <2> QED BY <2>1, <2>4, <2>5 DEF Advance, Conclude, Goto
<1> QED BY <1>1, <1>2, <1>3, <1>4, <1>5, <1>6, <1>7, <1>8, <1>9, <1>10 DEF PassStep

\* What a step of one pass leaves alone.
LEMMA OnlyOwnLocals ==
    ASSUME TypeOK, NEW p \in Pass, NEW q \in Pass, q # p, Begin(p) \/ PassStep(p) \/ Abandon(p)
    PROVE  /\ pc'[q] = pc[q] /\ cursor'[q] = cursor[q] /\ page'[q] = page[q] /\ pending'[q] = pending[q]
           /\ next'[q] = next[q] /\ left'[q] = left[q] /\ fatal'[q] = fatal[q] /\ verdict'[q] = verdict[q]
BY DEF PassStep, Begin, StartCoverage, StartCoverageFails, ReadOldest, FetchPage, FetchFails, ImportMessage,
       CheckFatal, RecordEmptyPage, RecordPage, Advance, Finish, Abandon, Forget, Conclude, Goto, locals, TypeOK

\* No step, of this pass or of another, disturbs what a pass relies on.
LEMMA PassInvStep == TypeOK /\ PassInv /\ [Next]_vars => PassInv'
<1> SUFFICES ASSUME TypeOK, PassInv, [Next]_vars, NEW q \in Pass PROVE Honest(q)'
  BY DEF PassInv
<1>0. Honest(q) /\ archived \subseteq archived' /\ 1 .. newest \subseteq 1 .. newest'
  BY Growth DEF PassInv
<1>1. CASE Arrive \/ LiveMessage \/ UNCHANGED vars
  BY <1>0, <1>1, OthersStayHonest DEF Arrive, LiveMessage, vars, locals
<1>2. ASSUME NEW p \in Pass, PumpFails(p) PROVE Honest(q)'
  <2>1. UNCHANGED <<pc, locals>> /\ (fatal[q] => fatal'[q])
    BY <1>2 DEF PumpFails, TypeOK
  <2> QED BY <1>0, <2>1 DEF locals, Honest, Contiguous, Loaded
<1>3. ASSUME NEW p \in Pass, Begin(p) \/ PassStep(p) \/ Abandon(p) PROVE Honest(q)'
  <2>1. CASE q = p
    BY <1>0, <1>3, <2>1, HonestStep
  <2>2. CASE q # p
    BY <1>0, <1>3, <2>2, OnlyOwnLocals, OthersStayHonest
  <2> QED BY <2>1, <2>2
<1> QED BY <1>1, <1>2, <1>3 DEF Next

-----------------------------------------------------------------------------

\* Timestamps are numbers and follow the order of the relay.
LEMMA InTime ==
    ASSUME NEW m \in Message, NEW n \in Message
    PROVE  Ts[m] \in Nat /\ Ts[n] \in Nat /\ m \in Nat /\ n \in Nat /\ (m <= n => Ts[m] <= Ts[n])
<1>1. Ts[m] \in 0 .. MaxTs /\ Ts[n] \in 0 .. MaxTs /\ MaxTs \in Nat
  BY TsAssumption, BoundsAssumption
<1>2. m \in Nat /\ n \in Nat
  BY BoundsAssumption DEF Message
<1> QED BY <1>1, <1>2, TsAssumption

\* What the relay holds, and what of it is archived, are messages.
LEMMA Held ==
    ASSUME TypeOK
    PROVE  /\ newest \in Nat /\ newest <= MaxMessage /\ MaxMessage \in Nat
           /\ 1 .. newest \subseteq Message /\ archived \subseteq 1 .. newest
<1>1. newest \in 0 .. MaxMessage /\ MaxMessage \in Nat /\ archived \subseteq 1 .. newest
  BY BoundsAssumption DEF TypeOK
<1> QED BY <1>1 DEF Message

\* A page at hand brings one message of each millisecond that it claims.
LEMMA PageClaims ==
    ASSUME TypeOK, PassInv, NEW p \in Pass, pc[p] = "record",
           NEW b \in HistoryPageBounds(page[p], cursor[p]), NEW m \in Message, Ts[m] \in b[1] .. (b[2] - 1)
    PROVE  \E n \in archived : Ts[n] = Ts[m]
<1>1. PICK l \in page[p] : b[1] = Ts[l]
  BY BoundsType DEF Stamped
<1>2. PICK h \in page[p] \cup ({cursor[p]} \ {NoCursor}) : b[2] = Ts[h] + 1
  BY BoundsType
<1>3. /\ page[p] \subseteq archived /\ (cursor[p] # NoCursor => cursor[p] \in archived)
      /\ Contiguous(p) /\ page[p] # {}
  BY <1>1 DEF PassInv, Honest, Loaded
<1>4. archived \subseteq Message
  BY Held
<1>5. l \in Message /\ h \in Message /\ l \in archived /\ h \in archived
  BY <1>1, <1>2, <1>3, <1>4
<1>6. /\ Ts[l] \in Nat /\ Ts[m] \in Nat /\ Ts[h] \in Nat
      /\ l \in Nat /\ m \in Nat /\ h \in Nat
  BY <1>5, InTime
<1>7. Ts[l] <= Ts[m] /\ Ts[m] <= Ts[h]
  <2>1. b[1] = Ts[l] /\ b[2] - 1 = Ts[h]
    BY <1>1, <1>2, <1>6
  <2> QED BY <1>6, <2>1
<1>8. PICK lo, hi \in Message :
         /\ lo <= hi /\ page[p] = lo .. hi
         /\ cursor[p] # NoCursor => hi \in {cursor[p] - 1, cursor[p]} /\ (lo < cursor[p] \/ cursor[p] = 1)
  BY <1>3 DEF Contiguous
<1>9. lo \in Nat /\ hi \in Nat /\ lo \in page[p] /\ lo <= l
  <2>1. lo \in Nat /\ hi \in Nat
    BY <1>8, InTime
  <2> QED BY <1>1, <1>8, <2>1
<1>10. CASE m \in page[p]
  BY <1>3, <1>10
<1>11. CASE m < lo
  <2>1. m <= lo /\ Ts[m] <= Ts[lo] /\ Ts[lo] <= Ts[l] /\ Ts[lo] \in Nat
    BY <1>5, <1>6, <1>8, <1>9, <1>11, InTime
  <2>2. Ts[lo] = Ts[m]
    BY <1>6, <1>7, <2>1
  <2> QED BY <1>3, <1>9, <2>2
<1>12. CASE hi < m
  <2>1. h <= m
    <3>1. CASE h \in page[p]
      BY <1>6, <1>8, <1>9, <1>12, <3>1
    <3>2. CASE h = cursor[p] /\ cursor[p] # NoCursor
      BY <1>6, <1>8, <1>9, <1>12, <3>2
    <3> QED BY <1>2, <3>1, <3>2
  <2>2. Ts[h] <= Ts[m]
    BY <1>5, <2>1, InTime
  <2>3. Ts[h] = Ts[m]
    BY <1>6, <1>7, <2>2
  <2> QED BY <1>5, <2>3
<1>13. m \in page[p] \/ m < lo \/ hi < m
  BY <1>6, <1>8, <1>9
<1> QED BY <1>10, <1>11, <1>12, <1>13

\* The first message is of the earliest millisecond.
LEMMA FirstIsEarliest ==
    ASSUME NEW m \in Message
    PROVE  1 \in Message /\ Ts[1] <= Ts[m]
<1>1. m \in 1 .. MaxMessage /\ MaxMessage \in Nat
  BY BoundsAssumption DEF Message
<1>2. 1 \in Message /\ 1 <= m
  BY <1>1 DEF Message
<1> QED BY <1>2, InTime

\* A pass whose cursor is the first message has archived all.
LEMMA FirstIsAll ==
    ASSUME TypeOK, PassInv, NEW p \in Pass, cursor[p] = 1
    PROVE  AllTo(Ts[1], newest, archived)
<1>1. 1 \in archived /\ 1 \in 1 .. newest
  BY CursorArrived DEF PassInv, Honest, NoCursor
<1>2. ASSUME Alone(Ts[1], newest), NEW m \in 1 .. newest, Ts[m] \in 1 .. Ts[1] PROVE m \in archived
  <2>1. m \in Message
    BY Held
  <2>2. 1 \in Message /\ Ts[1] <= Ts[m]
    BY <2>1, FirstIsEarliest
  <2>3. Ts[1] \in Nat /\ Ts[m] \in Nat
    BY <2>1, <2>2, InTime
  <2>4. Ts[m] = Ts[1]
    BY <1>2, <2>2, <2>3
  <2>5. m = 1
    BY <1>1, <1>2, <2>4 DEF Alone
  <2> QED BY <1>1, <2>5
<1> QED BY <1>1, <1>2 DEF AllTo

\* A page that leads on to nothing older than the cursor leaves nothing older
\* to fetch, if no other message is of the cursor's millisecond.
LEMMA NothingOlder ==
    ASSUME TypeOK, PassInv, NEW p \in Pass, pc[p] = "record", page[p] # {},
           cursor[p] # NoCursor, NEW n,
           \/ n = next[p] /\ CursorMovesBackward(cursor[p], n)
           \/ n \in OldestMessageCursor(page[p]),
           ~CursorMovesBackward(cursor[p], n)
    PROVE  AllTo(Ts[cursor[p]], newest, archived)
<1> DEFINE c == cursor[p]
<1>1. c \in 1 .. newest /\ c \in Message /\ c \in archived
  BY CursorArrived DEF PassInv, Honest
<1>2. CASE c = 1
  BY <1>2, FirstIsAll
<1>3. CASE c # 1
  <2>1. PICK lo, hi \in Message : lo <= hi /\ page[p] = lo .. hi /\ lo < c /\ hi \in {c - 1, c}
    BY <1>3 DEF PassInv, Honest, Loaded, Contiguous
  <2>2. page[p] \subseteq Message
    BY Held DEF PassInv, Honest, Loaded, Contiguous
  <2> SUFFICES ASSUME Alone(Ts[c], newest), NEW m \in 1 .. newest, Ts[m] \in 1 .. Ts[c], m # c
               PROVE  FALSE
    BY <1>1 DEF AllTo
  <2>3. m \in Message /\ Ts[m] # Ts[c]
    BY <1>1, Held DEF Alone
  <2>4. m \in Nat /\ c \in Nat /\ lo \in Nat /\ hi \in Nat /\ Ts[m] \in Nat /\ Ts[c] \in Nat
    BY <1>1, <2>1, <2>3, InTime
  <2>5. m < c
    <3>1. c <= m => Ts[c] <= Ts[m]
      BY <1>1, <2>3, InTime
    <3>2. Ts[m] <= Ts[c]
      BY <2>4
    <3> QED BY <2>3, <2>4, <3>1, <3>2
  <2>6. ASSUME NEW x \in lo .. c - 1 PROVE Ts[x] = 0
    <3>1. x \in page[p] /\ x \in 1 .. newest /\ x # c /\ x <= c
      <4>1. x \in lo .. hi
        BY <2>1, <2>4
      <4>2. x \in page[p] /\ x # c /\ x <= c
        BY <2>1, <2>4, <4>1
      <4>3. c <= newest /\ newest \in Nat /\ 1 <= x /\ x \in Nat
        BY <1>1, <2>2, <4>2 DEF Message, TypeOK
      <4>4. x \in 1 .. newest
        BY <2>4, <4>2, <4>3
      <4> QED BY <4>2, <4>4
    <3>2. x \in Message /\ Ts[x] # Ts[c]
      BY <1>1, <2>2, <3>1 DEF Alone
    <3>3. Ts[x] \in Nat /\ Ts[x] <= Ts[c]
      BY <1>1, <3>1, <3>2, InTime
    <3> SUFFICES ASSUME Ts[x] > 0 PROVE FALSE
      BY <3>3
    <3>4. x \in Stamped(page[p])
      BY <3>1 DEF Stamped
    <3>5. n \in Stamped(page[p]) /\ Ts[n] <= Ts[x]
      BY <3>4 DEF OldestMessageCursor
    <3>6. n \in Message
      BY <2>2, <3>5 DEF Stamped
    <3>7. Ts[n] < Ts[c]
      BY <2>4, <3>2, <3>3, <3>5, <3>6, InTime
    <3>8. n # NoCursor
      BY <3>6, BoundsAssumption DEF Message, NoCursor
    <3> QED BY <3>7, <3>8 DEF CursorMovesBackward
  <2>7. Ts[lo] = 0
    BY <2>1, <2>4, <2>6
  <2>8. Ts[m] = 0
    <3>1. CASE lo <= m
      BY <2>4, <2>5, <2>6, <3>1
    <3>2. CASE m <= lo
      BY <2>1, <2>3, <2>4, <2>7, <3>2, InTime
    <3> QED BY <2>4, <3>1, <3>2
  <2> QED BY <2>4, <2>8
<1> QED BY <1>2, <1>3

\* A beginning stays one while messages arrive and are archived.
LEMMA AllToStays ==
    ASSUME TypeOK, TypeOK', [Next]_vars, NEW t \in Nat, AllTo(t, newest, archived)
    PROVE  AllTo(t, newest', archived')
<1>1. archived \subseteq archived' /\ 1 .. newest \subseteq 1 .. newest'
  BY Growth
<1>2. t # 0 => \E c \in 1 .. newest' : Ts[c] = t
  BY <1>1 DEF AllTo
<1>3. ASSUME Alone(t, newest'), NEW m \in 1 .. newest', Ts[m] \in 1 .. t PROVE m \in archived'
  <2>1. CASE m \in 1 .. newest
    BY <1>1, <1>3, <2>1 DEF AllTo, Alone
  <2>2. CASE m \notin 1 .. newest
    <3>1. t # 0
      BY <1>3
    <3>2. PICK c \in 1 .. newest : Ts[c] = t
      BY <3>1 DEF AllTo
    <3>3. newest \in Nat /\ newest' \in Nat /\ c \in Message /\ m \in Message
      <4>1. 1 .. newest \subseteq Message /\ newest \in Nat
        BY Held
      <4>2. newest' \in 0 .. MaxMessage /\ MaxMessage \in Nat
        BY BoundsAssumption DEF TypeOK
      <4>3. 1 .. newest' \subseteq Message /\ newest' \in Nat
        BY <4>2 DEF Message
      <4> QED BY <4>1, <4>3
    <3>4. c <= m /\ c # m
      BY <2>2, <3>3
    <3>5. Ts[c] <= Ts[m] /\ Ts[m] \in Nat
      BY <3>3, <3>4, InTime
    <3>6. Ts[m] = t
      BY <1>3, <3>2, <3>5
    <3> QED BY <1>1, <1>3, <3>2, <3>4, <3>6 DEF Alone
  <2> QED BY <2>1, <2>2
<1> QED BY <1>2, <1>3 DEF AllTo

\* A page's verdict on the beginning is right.
LEMMA VerdictClaims ==
    ASSUME TypeOK, PassInv, ClaimInv, NEW p \in Pass, PassStep(p),
           verdict'[p] # verdict[p], verdict'[p].historyStart # NoTime
    PROVE  AllTo(verdict'[p].historyStart, newest, archived)
<1>2. CASE Forget(p)
  BY <1>2 DEF Forget, NoVerdict, TypeOK
<1>3. CASE FetchFails(p) \/ CheckFatal(p)
  BY <1>3 DEF FetchFails, CheckFatal, Conclude, Verdict, TypeOK
<1>4. CASE RecordEmptyPage(p)
  <2> DEFINE h == IF cursor[p] = NoCursor THEN 0 ELSE Ts[cursor[p]]
  <2>1. verdict'[p].historyStart = h
    BY <1>4 DEF RecordEmptyPage, Conclude, Verdict, TypeOK
  <2>2. CASE cursor[p] = NoCursor
    BY <2>1, <2>2 DEF AllTo
  <2>3. CASE cursor[p] # NoCursor
    <3>1. cursor[p] = 1
      BY <1>4, <2>3 DEF RecordEmptyPage, PassInv, Honest, Loaded, Contiguous
    <3> QED BY <2>1, <2>3, <3>1, FirstIsAll
  <2> QED BY <2>2, <2>3
<1>5. CASE RecordPage(p)
  <2>1. PICK n : /\ Advance(p, cursor[p], n)
                 /\ \/ n = next[p] /\ CursorMovesBackward(cursor[p], n)
                    \/ n \in OldestMessageCursor(page[p])
    BY <1>5 DEF RecordPage
  <2>2. CASE cursor[p] # NoCursor /\ ~CursorMovesBackward(cursor[p], n)
    <3>1. verdict'[p].historyStart = Ts[cursor[p]]
      BY <2>1, <2>2 DEF Advance, Conclude, Verdict, TypeOK
    <3> QED BY <1>5, <2>1, <2>2, <3>1, NothingOlder DEF RecordPage
  <2>3. CASE ~(cursor[p] # NoCursor /\ ~CursorMovesBackward(cursor[p], n))
    BY <2>1, <2>3 DEF Advance, Conclude, Verdict, TypeOK
  <2> QED BY <2>2, <2>3
<1>6. CASE StartCoverage(p) \/ ReadOldest(p) \/ FetchPage(p) \/ ImportMessage(p)
  BY <1>6 DEF StartCoverage, ReadOldest, FetchPage, ImportMessage, locals
<1> QED BY <1>2, <1>3, <1>4, <1>5, <1>6 DEF PassStep, StartCoverageFails, Finish

\* The row's beginning is what it was, or a verdict's.
LEMMA RowClaims ==
    ASSUME TypeOK, ClaimInv, NEW p \in Pass, PassStep(p), row' # NoRow, row'.historyStart # NoTime
    PROVE  AllTo(row'.historyStart, newest, archived)
<1>1. row = NoRow \/ row \in CoverageRow
  BY DEF TypeOK
<1>2. CASE row' = row \/ row' = RecordRow(row)
  BY <1>1, <1>2 DEF RecordRow, ClaimInv, CoverageRow
<1>3. CASE StartCoverage(p)
  BY <1>1, <1>3 DEF StartCoverage, StartConversationCoverage, ClaimInv, CoverageRow
<1>4. CASE Finish(p)
  <2>1. /\ row # NoRow
        /\ row'.historyStart = IF verdict[p].historyStart = NoTime THEN row.historyStart ELSE verdict[p].historyStart
    BY <1>1, <1>4 DEF Finish, FinishConversationCoverage, CoverageRow
  <2> QED BY <2>1 DEF ClaimInv
<1>5. CASE RecordEmptyPage(p) \/ RecordPage(p)
  BY <1>2, <1>5 DEF RecordEmptyPage, RecordPage
<1> QED BY <1>2, <1>3, <1>4, <1>5 DEF PassStep, StartCoverageFails, ReadOldest, FetchPage, FetchFails,
           ImportMessage, CheckFatal, store

\* What the segments claim is archived after a step of a pass.
LEMMA SegmentClaims ==
    ASSUME TypeOK, PassInv, ClaimInv, NEW p \in Pass, PassStep(p),
           NEW m \in Message, Ts[m] \in Covered(segments')
    PROVE  \E n \in archived : Ts[n] = Ts[m]
<1>1. CASE segments' = segments
  BY <1>1 DEF ClaimInv
<1>2. CASE RecordEmptyPage(p) /\ segments' # segments
  <2> DEFINE h == Ts[cursor[p]]
  <2>1. cursor[p] # NoCursor /\ segments' = RecordSegment(segments, 0, h + 1, 1)
    BY <1>2 DEF RecordEmptyPage
  <2>2. h \in 0 .. MaxTs /\ MaxTs \in Nat
    BY <2>1, CursorArrived, TsAssumption, BoundsAssumption
  <2>3. 0 \in Time /\ h + 1 \in Time /\ 0 < h + 1 /\ (h + 1) - 1 = h
    BY <2>2, BoundsAssumption DEF Time
  <2>4. cursor[p] = 1
    BY <1>2, <2>1 DEF RecordEmptyPage, PassInv, Honest, Loaded, Contiguous
  <2>5. 1 \in archived /\ Ts[1] <= Ts[m] /\ h = Ts[1]
    BY <2>1, <2>4, FirstIsEarliest DEF PassInv, Honest
  <2> HIDE DEF h
  <2>6. Covered(segments') = Covered(segments) \cup (0 .. h)
    BY <2>1, <2>3, SegmentTypes
  <2>7. CASE Ts[m] \in 0 .. h
    BY <2>2, <2>5, <2>7
  <2> QED BY <2>6, <2>7 DEF ClaimInv
<1>3. CASE RecordPage(p) /\ segments' # segments
  <2>1. PICK b \in HistoryPageBounds(page[p], cursor[p]) : segments' = RecordSegment(segments, b[1], b[2], 1)
    BY <1>3 DEF RecordPage
  <2>2. b[1] \in Time /\ b[2] \in Time /\ b[1] < b[2]
    BY <1>3, BoundsType DEF RecordPage
  <2>3. Covered(segments') = Covered(segments) \cup (b[1] .. (b[2] - 1))
    BY <2>1, <2>2, SegmentTypes
  <2>4. Ts[m] \in b[1] .. (b[2] - 1) => \E n \in archived : Ts[n] = Ts[m]
    BY <1>3, PageClaims DEF RecordPage
  <2> QED BY <2>3, <2>4 DEF ClaimInv
<1> QED BY <1>1, <1>2, <1>3 DEF PassStep, StartCoverage, StartCoverageFails, ReadOldest, FetchPage, FetchFails,
           ImportMessage, CheckFatal, Finish, store

\* Every step leaves beginnings that were right before it.
LEMMA BeginningsOf ==
    ASSUME TypeOK, PassInv, ClaimInv, [Next]_vars
    PROVE  /\ row' # NoRow /\ row'.historyStart # NoTime => AllTo(row'.historyStart, newest, archived)
           /\ \A q \in Pass : verdict'[q].historyStart # NoTime =>
                 AllTo(verdict'[q].historyStart, newest, archived)
           /\ \A m \in Message : Ts[m] \in Covered(segments') => \E n \in archived : Ts[n] = Ts[m]
<1>1. CASE UNCHANGED <<row, segments, verdict>>
  BY <1>1 DEF ClaimInv
<1>2. ASSUME NEW p \in Pass, Begin(p) \/ PumpFails(p) PROVE UNCHANGED <<row, segments, verdict>>
  BY <1>2 DEF Begin, PumpFails, store, locals
<1>3. ASSUME NEW p \in Pass, Abandon(p)
      PROVE  UNCHANGED <<row, segments>> /\ \A q \in Pass : verdict'[q] \in {verdict[q], NoVerdict}
  BY <1>3 DEF Abandon, Forget, store, TypeOK
<1>4. ASSUME NEW p \in Pass, PassStep(p), NEW q \in Pass, verdict'[q].historyStart # NoTime
      PROVE  AllTo(verdict'[q].historyStart, newest, archived)
  <2>1. CASE verdict'[q] = verdict[q]
    BY <1>4, <2>1 DEF ClaimInv
  <2>2. CASE verdict'[q] # verdict[q]
    BY <1>4, <2>2, OnlyOwnLocals, VerdictClaims
  <2> QED BY <2>1, <2>2
<1>5. ASSUME NEW p \in Pass, PassStep(p)
      PROVE  /\ row' # NoRow /\ row'.historyStart # NoTime => AllTo(row'.historyStart, newest, archived)
             /\ \A m \in Message : Ts[m] \in Covered(segments') => \E n \in archived : Ts[n] = Ts[m]
  BY <1>5, RowClaims, SegmentClaims
<1>6. NoVerdict.historyStart = NoTime
  BY DEF NoVerdict
<1>7. CASE \E p \in Pass : Abandon(p)
  BY <1>3, <1>6, <1>7 DEF ClaimInv
<1>8. CASE \E p \in Pass : PassStep(p)
  BY <1>4, <1>5, <1>8
<1> QED BY <1>1, <1>2, <1>7, <1>8 DEF Next, Arrive, LiveMessage, vars, store, locals

\* Claims stay backed by archived messages.
LEMMA ClaimStep ==
    ASSUME TypeOK, PassInv, ClaimInv, [Next]_vars
    PROVE  ClaimInv'
<1>1. TypeOK' /\ archived \subseteq archived'
  BY TypeStep, Growth
<1>2. \A t \in Nat : AllTo(t, newest, archived) => AllTo(t, newest', archived')
  BY <1>1, AllToStays
<1>3. Time \subseteq Nat
  BY Bounds
<1>4. row' # NoRow => row'.historyStart \in Time \cup {NoTime}
  BY <1>1 DEF TypeOK, CoverageRow
<1>5. \A q \in Pass : verdict'[q].historyStart \in Time \cup {NoTime}
  BY <1>1 DEF TypeOK
<1>6. row' # NoRow /\ row'.historyStart # NoTime => AllTo(row'.historyStart, newest', archived')
  BY <1>2, <1>3, <1>4, BeginningsOf
<1>7. \A q \in Pass : verdict'[q].historyStart # NoTime => AllTo(verdict'[q].historyStart, newest', archived')
  BY <1>2, <1>3, <1>5, BeginningsOf
<1>8. \A m \in Message : Ts[m] \in Covered(segments') => \E n \in archived' : Ts[n] = Ts[m]
  BY <1>1, BeginningsOf
<1> QED BY <1>6, <1>7, <1>8 DEF ClaimInv, AllTo, Alone

-----------------------------------------------------------------------------

\* Nothing is claimed and no pass runs at first.
LEMMA InitInv == Init => TypeOK /\ PassInv /\ ClaimInv
<1> SUFFICES ASSUME Init PROVE TypeOK /\ PassInv /\ ClaimInv
  OBVIOUS
<1>1. TypeOK
  <2>1. 0 \in 0 .. MaxMessage /\ 0 \in 0 .. Requests
    BY BoundsAssumption
  <2>2. NoVerdict \in [status : CoverageStatus, reason : TerminalReason, historyStart : Time \cup {NoTime}]
    BY DEF NoVerdict, CoverageStatus, TerminalReason
  <2> QED BY <2>1, <2>2 DEF Init, TypeOK, Control, Cursor
<1>2. PassInv
  BY DEF Init, PassInv, Honest, Loaded
<1>3. ClaimInv
  BY CoveredEmpty DEF Init, ClaimInv, NoVerdict
<1> QED BY <1>1, <1>2, <1>3

\* The invariant of the passes, which needs no assumption on timestamps.
LEMMA Invariance == Spec => [](TypeOK /\ PassInv)
<1>1. TypeOK /\ PassInv /\ [Next]_vars => (TypeOK /\ PassInv)'
  BY TypeStep, PassInvStep
<1> QED BY <1>1, InitInv, PTL DEF Spec

\* Tables and passes keep their types: no pass asks for more pages than its
\* budget, and nothing is archived that the relay never held.
THEOREM TypeCorrect == Spec => []TypeOK
<1> QED BY Invariance, PTL

\* The claims of the tables hold too, also when messages share a millisecond.
LEMMA Claims == Spec => [](TypeOK /\ ClaimInv)
<1>1. TypeOK /\ PassInv /\ ClaimInv /\ [Next]_vars => (TypeOK /\ PassInv /\ ClaimInv)'
  BY TypeStep, PassInvStep, ClaimStep
<1> QED BY <1>1, InitInv, PTL DEF Spec

\* Coverage is evidence, however many passes race, fail and die: of each claimed
\* millisecond that the relay has messages of, one is in the archive, which is
\* all there is of it unless several messages share it.
THEOREM Sound == Spec => []CoverageSound
<1>1. TypeOK /\ ClaimInv => CoverageSound
  BY Held DEF ClaimInv, CoverageSound
<1> QED BY <1>1, Claims, PTL

\* ... and every message with a timestamp up to the recorded beginning of history
\* is, unless several are of that very millisecond.
THEOREM StartSound == Spec => []HistoryStartSound
<1>1. TypeOK /\ ClaimInv => HistoryStartSound
  BY DEF ClaimInv, AllTo, Alone, HistoryStartSound
<1> QED BY <1>1, Claims, PTL

\* An exhaustion proof is withdrawn only by a page that was traversed and is in
\* the archive, whatever the timestamps.
THEOREM WithdrawnByAPage == Spec => OnlyAPageWithdrawsExhaustion
<1> DEFINE Withdrawal == \E p \in Pass : /\ pc[p] = "record" /\ pc'[p] \in {"fetch", "finish"}
                                        /\ page[p] \subseteq archived
<1>1. ASSUME TypeOK, PassInv, [Next]_vars, Exhausted, ~Exhausted'
      PROVE  Withdrawal
  <2>1. row \in CoverageRow /\ row # NoRow /\ row.status = "source_exhausted" /\ row' # row
    BY <1>1 DEF Exhausted, TypeOK
  <2>2. PICK p \in Pass : StartCoverage(p) \/ Finish(p) \/ RecordEmptyPage(p) \/ RecordPage(p)
    BY <1>1, <2>1 DEF Next, PassStep, Arrive, LiveMessage, Begin, StartCoverageFails, ReadOldest, FetchPage,
           FetchFails, ImportMessage, CheckFatal, PumpFails, Abandon, vars, store
  <2>3. ~StartCoverage(p)
    BY <2>1 DEF StartCoverage, StartConversationCoverage
  <2>4. ~Finish(p)
    <3>1. ASSUME Finish(p)
          PROVE  row' # NoRow /\ row'.status = "source_exhausted"
      <4>1. row' = FinishConversationCoverage(row, verdict[p].status, verdict[p].reason, verdict[p].historyStart, 1)
        BY <3>1 DEF Finish
      <4>2. row'.status = "source_exhausted"
        BY <2>1, <4>1 DEF FinishConversationCoverage
      <4>3. row' \in CoverageRow
        <5>1. verdict[p] \in [status : CoverageStatus, reason : TerminalReason, historyStart : Time \cup {NoTime}]
          BY <1>1 DEF TypeOK
        <5> QED BY BoundsAssumption, <2>1, <4>1, <5>1 DEF FinishConversationCoverage, CoverageRow, Clock
      <4> QED BY <4>2, <4>3, NullAssumption
    <3> QED BY <1>1, <3>1 DEF Exhausted
  <2>5. pc[p] = "record" /\ pc'[p] \in {"fetch", "finish"}
    BY <1>1, <2>2, <2>3, <2>4 DEF RecordEmptyPage, RecordPage, Advance, Conclude, Goto, TypeOK
  <2>6. page[p] \subseteq archived
    BY <1>1, <2>5 DEF PassInv, Honest
  <2> QED BY <2>5, <2>6
<1>2. TypeOK /\ PassInv /\ [Next]_vars => [WithdrawnByPage]_vars
  BY <1>1 DEF WithdrawnByPage
<1> QED BY <1>2, Invariance, PTL DEF Spec, OnlyAPageWithdrawsExhaustion

-----------------------------------------------------------------------------
(* The backfill and the ledger.                                            *)

\* What a call of the ledger does to the tables, at the one moment that the
\* backfill's clock shows.
StoreCall ==
    \/ row' = StartConversationCoverage(row) /\ UNCHANGED segments
    \/ \E s, e \in Time :
          s < e /\ segments' = RecordSegment(segments, s, e, 1) /\ row' = RecordRow(row)
    \/ \E status \in CoverageStatus, reason \in TerminalReason, h \in Time \cup {NoTime} :
          row' = FinishConversationCoverage(row, status, reason, h, 1) /\ UNCHANGED segments

\* Every step is a call of the store, or leaves the tables alone.
LEMMA StepsAreCalls ==
    ASSUME TypeOK, PassInv, [Next]_vars
    PROVE  [StoreCall]_<<row, segments>>
<1>1. ASSUME NEW p \in Pass, RecordEmptyPage(p)
      PROVE  [StoreCall]_<<row, segments>>
  <2> DEFINE h == IF cursor[p] = NoCursor THEN 0 ELSE Ts[cursor[p]]
  <2>1. h \in 0 .. MaxTs /\ MaxTs \in Nat
    BY BoundsAssumption, TsAssumption, CursorArrived
  <2>2. 0 \in Time /\ h + 1 \in Time /\ 0 < h + 1
    BY <2>1, BoundsAssumption DEF Time
  <2>3. \/ segments' = RecordSegment(segments, 0, h + 1, 1) /\ row' = RecordRow(row)
        \/ UNCHANGED <<row, segments>>
    BY <1>1 DEF RecordEmptyPage
  <2> HIDE DEF h
  <2> QED BY <2>2, <2>3 DEF StoreCall
<1>2. ASSUME NEW p \in Pass, RecordPage(p)
      PROVE  [StoreCall]_<<row, segments>>
  <2>1. \/ UNCHANGED <<row, segments>>
        \/ \E b \in HistoryPageBounds(page[p], cursor[p]) :
              segments' = RecordSegment(segments, b[1], b[2], 1) /\ row' = RecordRow(row)
    BY <1>2 DEF RecordPage
  <2>2. \A b \in HistoryPageBounds(page[p], cursor[p]) : b[1] \in Time /\ b[2] \in Time /\ b[1] < b[2]
    BY <1>2, BoundsType DEF RecordPage
  <2> QED BY <2>1, <2>2 DEF StoreCall
<1>3. ASSUME NEW p \in Pass, Finish(p)
      PROVE  StoreCall
  <2>1. verdict[p] \in [status : CoverageStatus, reason : TerminalReason,
                        historyStart : Time \cup {NoTime}]
    BY DEF TypeOK
  <2> QED BY <1>3, <2>1 DEF Finish, StoreCall
<1>4. ASSUME NEW p \in Pass, StartCoverage(p)
      PROVE  StoreCall
  BY <1>4 DEF StartCoverage, StoreCall
<1>5. ASSUME ~ \E p \in Pass : StartCoverage(p) \/ Finish(p) \/ RecordEmptyPage(p) \/ RecordPage(p)
      PROVE  UNCHANGED <<row, segments>>
  BY <1>5 DEF Next, PassStep, Arrive, LiveMessage, Begin, StartCoverageFails, ReadOldest,
     FetchPage, FetchFails, ImportMessage, CheckFatal, PumpFails, Abandon, vars, store
<1> QED BY <1>1, <1>2, <1>3, <1>4, <1>5

\* Whatever passes, live events and crashes do, the coverage tables change by
\* calls of the ledger alone: with intervals that are not empty, and statuses
\* and reasons that the schema allows (internal/store/coverage.go:50-150).
THEOREM BackfillDrivesTheLedger == Spec => [][StoreCall]_<<row, segments>>
<1> QED BY StepsAreCalls, Invariance, PTL DEF Spec

\* So the segments that racing passes leave behind are in normal form too:
\* none overlaps or touches another.
THEOREM BackfillNormalForm == Spec => []NormalForm
<1>1. Init => NormalForm
  BY DEF Init, NormalForm
<1>2. TypeOK /\ NormalForm /\ [StoreCall]_<<row, segments>> => NormalForm'
  <2> SUFFICES ASSUME TypeOK, NormalForm, [StoreCall]_<<row, segments>>
               PROVE  NormalForm'
    OBVIOUS
  <2>1. ASSUME NEW s \in Time, NEW e \in Time, s < e, segments' = RecordSegment(segments, s, e, 1)
        PROVE  NormalForm'
    <3>1. segments \in SUBSET Segment /\ 1 \in Clock /\ \A g, h \in segments : g = h \/ Apart(g, h)
      BY BoundsAssumption DEF TypeOK, Clock, NormalForm
    <3>2. \A g, h \in segments' : g = h \/ Apart(g, h)
      BY <2>1, <3>1, RecordNormalForm
    <3> QED BY <3>2 DEF NormalForm, Apart
  <2>2. CASE UNCHANGED segments
    BY <2>2 DEF NormalForm, Apart
  <2> QED BY <2>1, <2>2 DEF StoreCall
<1> QED BY <1>1, <1>2, BackfillDrivesTheLedger, TypeCorrect, PTL DEF Spec
===============================================================================
