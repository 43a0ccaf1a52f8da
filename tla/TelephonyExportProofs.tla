------------------------ MODULE TelephonyExportProofs ------------------------
(***************************************************************************)
(* The invariants of TelephonyExport, for every history of the phone, any  *)
(* number of exporters and any limit of open files.                        *)
(***************************************************************************)
EXTENDS TelephonyExport, WellFoundedInduction, SequenceTheorems, TLAPS

-----------------------------------------------------------------------------
(* Sequences and maps.                                                     *)

\* Induction over the steps of a loop, for sets.
LEMMA LoopInduction ==
    ASSUME NEW N \in Nat, NEW T, 0 \in T, \A i \in 1 .. N : i - 1 \in T => i \in T
    PROVE  N \in T
PROOF
<1> DEFINE Below == {ss \in Nat \X Nat : ss[1] < ss[2]}
           Out == {n \in 0 .. N : n \notin T}
<1>1. IsWellFoundedOn(Below, Nat)
  <2>1. OpToRel(<, Nat) = Below
    BY DEF OpToRel
  <2> QED BY <2>1, NatLessThanWellFounded
<1> SUFFICES ASSUME Out # {} PROVE FALSE
  OBVIOUS
<1>2. PICK n \in Out : \A m \in Out : <<m, n>> \notin Below
  <2>1. Out \subseteq Nat
    OBVIOUS
  <2> HIDE DEF Below, Out
  <2> QED BY <1>1, <2>1, WFMin
<1>3. n \in 1 .. N /\ n - 1 \in 0 .. N /\ <<n - 1, n>> \in Below
  OBVIOUS
<1> QED BY <1>2, <1>3

\* A sequence, of whatever it holds.
IsSeq(s) == s \in Seq(ToSet(s))

\* The length, domain and range of a sequence.
LEMMA SequenceFacts ==
    ASSUME NEW s, IsSeq(s)
    PROVE  /\ Len(s) \in Nat /\ DOMAIN s = 1 .. Len(s)
           /\ \A r : r \in ToSet(s) <=> \E i \in 1 .. Len(s) : s[i] = r
PROOF
<1>1. Len(s) \in Nat /\ DOMAIN s = 1 .. Len(s)
  BY LenProperties DEF IsSeq
<1> QED BY <1>1 DEF ToSet

\* A sequence over some set is one.
LEMMA SequenceOfSet ==
    ASSUME NEW S, NEW s \in Seq(S)
    PROVE  IsSeq(s) /\ ToSet(s) \subseteq S
PROOF
<1>1. /\ s \in [1 .. Len(s) -> S] /\ Len(s) \in Nat /\ DOMAIN s = 1 .. Len(s)
  BY LenProperties
<1>2. s \in [1 .. Len(s) -> ToSet(s)]
  BY <1>1 DEF ToSet
<1>3. IsSeq(s)
  BY <1>1, <1>2 DEF IsSeq
<1>4. ToSet(s) \subseteq S
  BY <1>1 DEF ToSet
<1> QED BY <1>3, <1>4

\* The empty sequence holds nothing.
LEMMA EmptyIsSeq == IsSeq(<<>>) /\ ToSet(<<>>) = {} /\ Len(<<>>) = 0 /\ DOMAIN <<>> = {}
PROOF BY DEF IsSeq, ToSet

\* A table of n rows, each made of its number.
LEMMA RowsAreSeq ==
    ASSUME NEW n \in Nat, NEW s, DOMAIN s = 1 .. n, s = [i \in 1 .. n |-> s[i]]
    PROVE  IsSeq(s) /\ Len(s) = n
PROOF
<1>1. s \in [1 .. n -> ToSet(s)]
  BY DEF ToSet
<1> QED BY <1>1 DEF IsSeq

\* What Append makes.
LEMMA AppendFacts ==
    ASSUME NEW s, IsSeq(s), NEW r
    PROVE  LET t == Append(s, r) IN
           /\ IsSeq(t) /\ Len(t) = Len(s) + 1
           /\ \A i \in 1 .. Len(s) : t[i] = s[i]
           /\ t[Len(s) + 1] = r
           /\ ToSet(t) = ToSet(s) \cup {r}
PROOF
<1> DEFINE t == Append(s, r)
           S == ToSet(s) \cup {r}
<1>1. s \in Seq(S)
  BY SeqMonotonic DEF IsSeq
<1>2. /\ t \in Seq(S) /\ Len(t) = Len(s) + 1
      /\ \A i \in 1 .. Len(s) : t[i] = s[i]
      /\ t[Len(s) + 1] = r
  BY <1>1, AppendProperties
<1>3. Len(s) \in Nat
  BY SequenceFacts
<1>4. IsSeq(t)
  BY <1>2, SequenceOfSet
<1>5. ToSet(t) = S
  <2>1. ASSUME NEW x \in S PROVE x \in ToSet(t)
    <3>1. \E i \in 1 .. Len(t) : t[i] = x
      <4> HIDE DEF t
      <4> QED BY <1>2, <1>3, SequenceFacts
    <3> QED BY <3>1, <1>4, SequenceFacts
  <2> QED BY <2>1, <1>2, SequenceOfSet
<1> QED BY <1>2, <1>4, <1>5

\* What \o makes.
LEMMA ConcatFacts ==
    ASSUME NEW s, IsSeq(s), NEW t, IsSeq(t)
    PROVE  LET u == s \o t IN
           /\ IsSeq(u) /\ Len(u) = Len(s) + Len(t)
           /\ \A i \in 1 .. Len(s) : u[i] = s[i]
           /\ \A i \in 1 .. Len(t) : u[Len(s) + i] = t[i]
           /\ \A i \in 1 .. Len(u) : i > Len(s) => i - Len(s) \in 1 .. Len(t) /\ u[i] = t[i - Len(s)]
           /\ ToSet(u) = ToSet(s) \cup ToSet(t)
PROOF
<1> DEFINE u == s \o t
           S == ToSet(s) \cup ToSet(t)
<1>1. s \in Seq(S) /\ t \in Seq(S)
  BY SeqMonotonic DEF IsSeq
<1>2. /\ u \in Seq(S) /\ Len(u) = Len(s) + Len(t)
      /\ \A i \in 1 .. Len(s) + Len(t) : u[i] = IF i <= Len(s) THEN s[i] ELSE t[i - Len(s)]
  BY <1>1, ConcatProperties
<1>3. Len(s) \in Nat /\ Len(t) \in Nat
  BY SequenceFacts
<1>4. /\ \A i \in 1 .. Len(s) : u[i] = s[i]
      /\ \A i \in 1 .. Len(t) : u[Len(s) + i] = t[i]
      /\ \A i \in 1 .. Len(u) : i > Len(s) => i - Len(s) \in 1 .. Len(t) /\ u[i] = t[i - Len(s)]
  <2> HIDE DEF u
  <2>1. ASSUME NEW i \in 1 .. Len(t) PROVE u[Len(s) + i] = t[i]
    <3>1. Len(s) + i \in 1 .. Len(s) + Len(t) /\ ~ (Len(s) + i <= Len(s)) /\ (Len(s) + i) - Len(s) = i
      BY <1>3
    <3> QED BY <3>1, <1>2
  <2> QED BY <1>2, <1>3, <2>1
<1>5. IsSeq(u) /\ ToSet(u) \subseteq S
  BY <1>2, SequenceOfSet
<1>6. ASSUME NEW x \in S PROVE x \in ToSet(u)
  <2> HIDE DEF u
  <2>1. CASE x \in ToSet(s)
    <3>1. PICK i \in 1 .. Len(s) : s[i] = x
      BY <2>1, SequenceFacts
    <3>2. i \in 1 .. Len(u) /\ u[i] = x
      BY <3>1, <1>2, <1>3, <1>4
    <3> QED BY <3>2, <1>5, SequenceFacts
  <2>2. CASE x \in ToSet(t)
    <3>1. PICK i \in 1 .. Len(t) : t[i] = x
      BY <2>2, SequenceFacts
    <3>2. Len(s) + i \in 1 .. Len(u) /\ u[Len(s) + i] = x
      BY <3>1, <1>2, <1>3, <1>4
    <3> QED BY <3>2, <1>5, SequenceFacts
  <2> QED BY <2>1, <2>2
<1> HIDE DEF u
<1>7. ToSet(u) = S
  BY <1>5, <1>6
<1> QED BY <1>2, <1>4, <1>5, <1>7 DEF u

\* Reading one record moves it from what is to be read to what has been.
LEMMA ReadOne ==
    ASSUME NEW s, IsSeq(s), NEW t, IsSeq(t), t # <<>>
    PROVE  /\ s \o t = Append(s, Head(t)) \o Tail(t)
           /\ IsSeq(Tail(t)) /\ Len(Tail(t)) = Len(t) - 1
           /\ Head(t) = t[1] /\ Head(t) \in ToSet(t)
           /\ ToSet(t) = {Head(t)} \cup ToSet(Tail(t))
PROOF
<1> DEFINE S == ToSet(s) \cup ToSet(t)
<1>1. s \in Seq(S) /\ t \in Seq(S)
  BY SeqMonotonic DEF IsSeq
<1>2. /\ Head(t) \in S /\ Tail(t) \in Seq(S) /\ t = <<Head(t)>> \o Tail(t)
      /\ Len(Tail(t)) = Len(t) - 1 /\ Head(t) = t[1]
  BY <1>1, HeadTailProperties, LenProperties
<1>3. <<Head(t)>> \in Seq(S)
  BY <1>2
<1>4. Append(s, Head(t)) = s \o <<Head(t)>>
  BY <1>1, <1>2, AppendIsConcat
<1>5. s \o (<<Head(t)>> \o Tail(t)) = (s \o <<Head(t)>>) \o Tail(t)
  BY <1>1, <1>2, <1>3, ConcatAssociative
<1>6. s \o t = Append(s, Head(t)) \o Tail(t)
  BY <1>2, <1>4, <1>5
<1>7. IsSeq(Tail(t)) /\ IsSeq(<<Head(t)>>) /\ ToSet(<<Head(t)>>) = {Head(t)}
  <2>1. IsSeq(Tail(t)) /\ IsSeq(<<Head(t)>>)
    BY <1>2, <1>3, SequenceOfSet
  <2>2. \A x : ToSet(<<x>>) = {x}
    BY DEF ToSet
  <2> QED BY <2>1, <2>2
<1>8. ToSet(t) = {Head(t)} \cup ToSet(Tail(t))
  BY <1>2, <1>7, ConcatFacts
<1> QED BY <1>2, <1>6, <1>7, <1>8

\* The stream is read to its end when nothing is left.
LEMMA NothingToRead == ASSUME NEW s, IsSeq(s) PROVE s \o <<>> = s
PROOF BY ConcatEmptySeq DEF IsSeq

\* What the loop of Filed computes.
LEMMA FiledInSteps ==
    ASSUME NEW s, IsSeq(s), NEW T, NEW p
    PROVE  \E f : /\ f[0] = <<>>
                  /\ \A i \in 1 .. Len(s) :
                        f[i] = IF FileOf(s[i], T) = p THEN Append(f[i - 1], s[i]) ELSE f[i - 1]
                  /\ Filed(s, T, p) = f[Len(s)]
PROOF
<1> DEFINE Longer(g, i) == IF FileOf(s[i], T) = p THEN Append(g[i - 1], s[i]) ELSE g[i - 1]
           F(n, f) == f = [i \in 0 .. n |-> IF i = 0 THEN <<>> ELSE Longer(f, i)]
           Done == {n \in Nat : \E f : F(n, f)}
           N == Len(s)
<1>0. N \in Nat
  BY SequenceFacts
<1>1. 0 \in Done
  <2>1. F(0, [i \in 0 .. 0 |-> <<>>])
    OBVIOUS
  <2> QED BY <2>1
<1>2. ASSUME NEW n \in 1 .. N, n - 1 \in Done PROVE n \in Done
  <2>1. PICK f : F(n - 1, f)
    BY <1>2
  <2>2. n \in Nat /\ n - 1 \in Nat
    BY <1>0
  <2> DEFINE g == [i \in 0 .. n |-> IF i <= n - 1 THEN f[i] ELSE Longer(f, n)]
  <2>3. ASSUME NEW i \in 0 .. n PROVE g[i] = IF i = 0 THEN <<>> ELSE Longer(g, i)
    <3>1. \A k \in 0 .. n - 1 : g[k] = f[k] /\ f[k] = IF k = 0 THEN <<>> ELSE Longer(f, k)
      <4>1. \A k \in 0 .. n - 1 : f[k] = IF k = 0 THEN <<>> ELSE Longer(f, k)
        <5> HIDE DEF Longer
        <5> QED BY <2>1
      <4>2. \A k \in 0 .. n - 1 : g[k] = f[k]
        <5> HIDE DEF Longer
        <5> QED BY <2>2
      <4> QED BY <4>1, <4>2
    <3>2. CASE i <= n - 1
      <4>1. i \in 0 .. n - 1 /\ (i # 0 => i - 1 \in 0 .. n - 1)
        BY <3>2, <2>2
      <4> HIDE DEF g
      <4> QED BY <4>1, <3>1
    <3>3. CASE ~ (i <= n - 1)
      <4>1. i = n /\ i # 0 /\ i - 1 \in 0 .. n - 1
        BY <3>3, <2>2
      <4>2. g[i] = Longer(f, i)
        BY <4>1, <3>3
      <4> HIDE DEF g
      <4> QED BY <4>1, <4>2, <3>1
    <3> QED BY <3>2, <3>3
  <2>4. F(n, g)
    BY <2>3
  <2> HIDE DEF F
  <2> QED BY <2>2, <2>4
<1>3. N \in Done
  <2> HIDE DEF Done, N
  <2> QED BY <1>0, <1>1, <1>2, LoopInduction
<1>4. \E f : F(N, f)
  BY <1>3
<1> DEFINE f == CHOOSE f : F(N, f)
<1>5. F(N, f)
  BY <1>4
<1>6. Filed(s, T, p) = f[N]
  BY DEF Filed
<1>7. f[0] = <<>> /\ \A i \in 1 .. N : f[i] = Longer(f, i)
  <2>1. \A i \in 0 .. N : f[i] = IF i = 0 THEN <<>> ELSE Longer(f, i)
    <3> HIDE DEF f, N, Longer
    <3> QED BY <1>5
  <2> HIDE DEF f, N, Longer
  <2> QED BY <1>0, <2>1
<1> HIDE DEF f
<1> QED BY <1>6, <1>7

\* Nothing is filed of nothing, and one record more is filed at the end of its
\* own file, under a map that files the earlier ones in the same way.
LEMMA FiledOfNone == ASSUME NEW T, NEW p PROVE Filed(<<>>, T, p) = <<>>
PROOF
<1>1. IsSeq(<<>>) /\ Len(<<>>) = 0
  BY EmptyIsSeq
<1>2. \E f : f[0] = <<>> /\ Filed(<<>>, T, p) = f[Len(<<>>)]
  BY <1>1, FiledInSteps
<1> QED BY <1>1, <1>2

\* Where two streams agree on what belongs into a file, so do their files; one
\* record more adds that record or nothing.
LEMMA FiledAlike ==
    ASSUME NEW s, IsSeq(s), NEW t, IsSeq(t), Len(s) <= Len(t), NEW T, NEW U, NEW p,
           \A i \in 1 .. Len(s) : s[i] = t[i] /\ (FileOf(s[i], T) = p <=> FileOf(t[i], U) = p)
    PROVE  /\ Len(t) = Len(s) => Filed(t, U, p) = Filed(s, T, p)
           /\ Len(t) = Len(s) + 1 => Filed(t, U, p) =
                 IF FileOf(t[Len(t)], U) = p THEN Append(Filed(s, T, p), t[Len(t)]) ELSE Filed(s, T, p)
PROOF
<1> DEFINE N == Len(s)
           M == Len(t)
<1>0. N \in Nat /\ M \in Nat
  BY SequenceFacts
<1>1. PICK f : /\ f[0] = <<>>
               /\ \A i \in 1 .. N : f[i] = IF FileOf(s[i], T) = p THEN Append(f[i - 1], s[i]) ELSE f[i - 1]
               /\ Filed(s, T, p) = f[N]
  BY FiledInSteps
<1>2. PICK g : /\ g[0] = <<>>
               /\ \A i \in 1 .. M : g[i] = IF FileOf(t[i], U) = p THEN Append(g[i - 1], t[i]) ELSE g[i - 1]
               /\ Filed(t, U, p) = g[M]
  BY FiledInSteps
<1> DEFINE Same == {i \in 0 .. N : f[i] = g[i]}
<1>3. 0 \in Same
  BY <1>0, <1>1, <1>2
<1>4. ASSUME NEW i \in 1 .. N, i - 1 \in Same PROVE i \in Same
  <2>1. f[i - 1] = g[i - 1] /\ i \in 0 .. N /\ i \in 1 .. M
    BY <1>0, <1>4
  <2>2. s[i] = t[i] /\ (FileOf(s[i], T) = p <=> FileOf(t[i], U) = p)
    BY <1>4
  <2>3. f[i] = g[i]
    BY <2>1, <2>2, <1>1, <1>2, <1>4
  <2> QED BY <2>1, <2>3
<1>5. N \in Same
  <2> HIDE DEF Same, N
  <2> QED BY <1>0, <1>3, <1>4, LoopInduction
<1>6. f[N] = g[N]
  BY <1>5
<1>7. ASSUME M = N + 1
      PROVE g[M] = IF FileOf(t[M], U) = p THEN Append(g[N], t[M]) ELSE g[N]
  <2>1. M \in 1 .. M /\ M - 1 = N
    BY <1>0, <1>7
  <2> QED BY <2>1, <1>2
<1> HIDE DEF N, M
<1>8. M = N => Filed(t, U, p) = Filed(s, T, p)
  BY <1>1, <1>2, <1>6
<1>9. M = N + 1 => Filed(t, U, p) = IF FileOf(t[M], U) = p THEN Append(Filed(s, T, p), t[M]) ELSE Filed(s, T, p)
  BY <1>1, <1>2, <1>6, <1>7
<1> QED BY <1>8, <1>9 DEF N, M

\* A file holds the records that belong into it.
LEMMA FiledHolds ==
    ASSUME NEW s, IsSeq(s), NEW T, NEW p
    PROVE  /\ IsSeq(Filed(s, T, p))
           /\ ToSet(Filed(s, T, p)) = {r \in ToSet(s) : FileOf(r, T) = p}
PROOF
<1> DEFINE N == Len(s)
<1>0. N \in Nat /\ DOMAIN s = 1 .. N
  BY SequenceFacts
<1>1. PICK f : /\ f[0] = <<>>
               /\ \A i \in 1 .. N : f[i] = IF FileOf(s[i], T) = p THEN Append(f[i - 1], s[i]) ELSE f[i - 1]
               /\ Filed(s, T, p) = f[N]
  BY FiledInSteps
<1> DEFINE Upto(n) == {s[i] : i \in {k \in 1 .. n : FileOf(s[k], T) = p}}
           Right == {n \in 0 .. N : IsSeq(f[n]) /\ ToSet(f[n]) = Upto(n)}
<1>2. 0 \in Right
  <2>1. Upto(0) = {}
    OBVIOUS
  <2> QED BY <2>1, <1>0, <1>1, EmptyIsSeq
<1>3. ASSUME NEW n \in 1 .. N, n - 1 \in Right PROVE n \in Right
  <2>1. IsSeq(f[n - 1]) /\ ToSet(f[n - 1]) = Upto(n - 1)
    BY <1>3
  <2>2. n \in 0 .. N /\ 1 .. n = (1 .. n - 1) \cup {n}
    BY <1>0
  <2>3. CASE FileOf(s[n], T) = p
    <3>1. Upto(n) = Upto(n - 1) \cup {s[n]}
      BY <2>2, <2>3
    <3>2. f[n] = Append(f[n - 1], s[n])
      BY <2>3, <1>1
    <3>3. IsSeq(f[n]) /\ ToSet(f[n]) = ToSet(f[n - 1]) \cup {s[n]}
      <4> HIDE DEF Upto, Right
      <4> QED BY <3>2, <2>1, AppendFacts
    <3> HIDE DEF Upto
    <3> QED BY <3>1, <3>3, <2>1, <2>2
  <2>4. CASE FileOf(s[n], T) # p
    <3>1. Upto(n) = Upto(n - 1)
      BY <2>2, <2>4
    <3>2. f[n] = f[n - 1]
      BY <2>4, <1>1
    <3> HIDE DEF Upto
    <3> QED BY <3>1, <3>2, <2>1, <2>2
  <2> QED BY <2>3, <2>4
<1>4. N \in Right
  <2> HIDE DEF Right, N
  <2> QED BY <1>0, <1>2, <1>3, LoopInduction
<1>5. Upto(N) = {r \in ToSet(s) : FileOf(r, T) = p}
  BY <1>0 DEF ToSet
<1> QED BY <1>1, <1>4, <1>5

\* What is flattened holds the rows of each part.
LEMMA FlattenHolds ==
    ASSUME NEW n \in Nat, NEW q, q = [i \in 1 .. n |-> q[i]], \A i \in 1 .. n : IsSeq(q[i])
    PROVE  /\ IsSeq(FlattenSeq(q))
           /\ \A r : r \in ToSet(FlattenSeq(q)) <=> \E i \in 1 .. n : r \in ToSet(q[i])
PROOF
<1>0. Len(q) = n
  OBVIOUS
<1>1. CASE n = 0
  <2>1. q = <<>> /\ FlattenSeq(q) = q
    BY <1>0, <1>1 DEF FlattenSeq
  <2> QED BY <2>1, <1>1, EmptyIsSeq
<1>2. CASE n # 0
  <2> DEFINE Longer(g, i) == IF i = 1 THEN q[i] ELSE g[i - 1] \o q[i]
             F(m, f) == f = [i \in 1 .. m |-> Longer(f, i)]
             Done == {m \in Nat : \E f : F(m, f)}
  <2>1. 0 \in Done
    <3>1. F(0, [i \in 1 .. 0 |-> <<>>])
      OBVIOUS
    <3> QED BY <3>1
  <2>2. ASSUME NEW m \in 1 .. n, m - 1 \in Done PROVE m \in Done
    <3>1. PICK f : F(m - 1, f)
      BY <2>2
    <3> DEFINE g == [i \in 1 .. m |-> IF i <= m - 1 THEN f[i] ELSE Longer(f, m)]
    <3>2. ASSUME NEW i \in 1 .. m PROVE g[i] = Longer(g, i)
      <4>1. \A k \in 1 .. m - 1 : g[k] = f[k] /\ f[k] = Longer(f, k)
        <5>1. \A k \in 1 .. m - 1 : f[k] = Longer(f, k)
          <6> HIDE DEF Longer
          <6> QED BY <3>1
        <5>2. \A k \in 1 .. m - 1 : g[k] = f[k]
          <6> HIDE DEF Longer
          <6> QED OBVIOUS
        <5> QED BY <5>1, <5>2
      <4>2. CASE i <= m - 1
        <5>1. i \in 1 .. m - 1 /\ (i # 1 => i - 1 \in 1 .. m - 1)
          BY <4>2
        <5> HIDE DEF g
        <5> QED BY <5>1, <4>1
      <4>3. CASE ~ (i <= m - 1)
        <5>1. i = m /\ (i # 1 => i - 1 \in 1 .. m - 1)
          BY <4>3
        <5>2. g[i] = Longer(f, i)
          BY <5>1, <4>3
        <5> HIDE DEF g
        <5> QED BY <5>1, <5>2, <4>1
      <4> QED BY <4>2, <4>3
    <3>3. F(m, g)
      BY <3>2
    <3> HIDE DEF F
    <3> QED BY <3>3
  <2>3. n \in Done
    <3> HIDE DEF Done
    <3> QED BY <2>1, <2>2, LoopInduction
  <2> DEFINE f == CHOOSE f : F(n, f)
  <2>4. F(n, f)
    BY <2>3
  <2>5. FlattenSeq(q) = f[n]
    BY <1>0, <1>2 DEF FlattenSeq
  <2> HIDE DEF f
  <2> DEFINE Right == {m \in 0 .. n : m = 0 \/ (/\ IsSeq(f[m])
                                                /\ \A r : r \in ToSet(f[m]) <=> \E i \in 1 .. m : r \in ToSet(q[i]))}
  <2>6. 0 \in Right
    OBVIOUS
  <2>7. ASSUME NEW m \in 1 .. n, m - 1 \in Right PROVE m \in Right
    <3>1. CASE m = 1
      BY <3>1, <2>4
    <3>2. CASE m # 1
      <4>1. IsSeq(f[m - 1]) /\ \A r : r \in ToSet(f[m - 1]) <=> \E i \in 1 .. m - 1 : r \in ToSet(q[i])
        BY <3>2, <2>7
      <4>2. f[m] = f[m - 1] \o q[m] /\ IsSeq(q[m])
        BY <3>2, <2>4
      <4>3. IsSeq(f[m]) /\ ToSet(f[m]) = ToSet(f[m - 1]) \cup ToSet(q[m])
        BY <4>1, <4>2, ConcatFacts
      <4>4. 1 .. m = (1 .. m - 1) \cup {m} /\ m \in 0 .. n
        BY <3>2
      <4> QED BY <4>1, <4>3, <4>4
    <3> QED BY <3>1, <3>2
  <2>8. n \in Right
    <3> HIDE DEF Right
    <3> QED BY <2>6, <2>7, LoopInduction
  <2> QED BY <2>5, <2>8, <1>2
<1> QED BY <1>1, <1>2

-----------------------------------------------------------------------------
(* What the helper sends.                                                  *)

TypesOf == <<{"metadata"}, {"sms"}, {"mms"}, {"mms_address"}, {"mms_part", "mms_part_data"},
             {"thread"}, {"canonical_address"}, {"summary"}>>

Types == {"metadata", "sms", "mms", "mms_address", "mms_part", "mms_part_data",
          "thread", "canonical_address", "summary"}

\* The queries of the helper, in their order.
LEMMA QueriesAre ==
    /\ Len(Queries) = 8
    /\ Queries[1] = "metadata" /\ Queries[2] = "sms" /\ Queries[3] = "mms" /\ Queries[4] = "address"
    /\ Queries[5] = "part" /\ Queries[6] = "thread" /\ Queries[7] = "canonical" /\ Queries[8] = "summary"
PROOF BY DEF Queries

\* The types of record that each query sends.
LEMMA TypesAre ==
    /\ TypesOf[1] = {"metadata"} /\ TypesOf[2] = {"sms"} /\ TypesOf[3] = {"mms"}
    /\ TypesOf[4] = {"mms_address"} /\ TypesOf[5] = {"mms_part", "mms_part_data"}
    /\ TypesOf[6] = {"thread"} /\ TypesOf[7] = {"canonical_address"} /\ TypesOf[8] = {"summary"}
PROOF BY DEF TypesOf

HasMms(at, rows)   == \A m \in ToSet(at.mms) : Record("mms", m.thread, m.id, 0, 0) \in ToSet(rows)
HasParts(at, rows) == \A p \in ToSet(at.parts) : ToSet(PartRows(p)) \subseteq ToSet(rows)

\* What one query of the phone brings.
Answers(rows, q, at) ==
    /\ IsSeq(rows)
    /\ \A r \in ToSet(rows) : r.type \in TypesOf[q]
    /\ q = 1 => Len(rows) = 1
    /\ q = 3 => /\ HasMms(at, rows)
                /\ \A i, k \in 1 .. Len(rows) : rows[i].id = rows[k].id => i = k
    /\ q = 5 => HasParts(at, rows)
    /\ q = 8 => Len(rows) = 1

\* A stream of one record.
LEMMA OneRow ==
    ASSUME NEW r PROVE IsSeq(<<r>>) /\ Len(<<r>>) = 1 /\ ToSet(<<r>>) = {r}
PROOF
<1>1. <<r>> \in Seq({r}) /\ Len(<<r>>) = 1
  OBVIOUS
<1>2. IsSeq(<<r>>)
  BY <1>1, SequenceOfSet
<1>3. ToSet(<<r>>) = {r}
  BY DEF ToSet
<1> QED BY <1>1, <1>2, <1>3

\* What is sent of a part belongs to the MMS of the part.
LEMMA PartRowsAre ==
    ASSUME NEW p
    PROVE  /\ IsSeq(PartRows(p))
           /\ \A r \in ToSet(PartRows(p)) : r.type \in {"mms_part", "mms_part_data"} /\ r.mms = p.mms
PROOF
<1> DEFINE a == Record("mms_part", 0, p.id, p.mms, 0)
           b == Record("mms_part_data", 0, p.id, p.mms, p.data)
<1>1. /\ a.type = "mms_part" /\ a.mms = p.mms
      /\ b.type = "mms_part_data" /\ b.mms = p.mms
  BY DEF Record
<1>2. PartRows(p) = <<a>> \o IF IncludePartData /\ p.data # 0 THEN <<b>> ELSE <<>>
  BY DEF PartRows
<1> HIDE DEF a, b
<1>3. CASE IncludePartData /\ p.data # 0
  <2>1. PartRows(p) = <<a>> \o <<b>>
    BY <1>2, <1>3
  <2>2. /\ IsSeq(<<a>>) /\ IsSeq(<<b>>)
        /\ ToSet(<<a>>) = {a} /\ ToSet(<<b>>) = {b}
    BY OneRow
  <2>3. IsSeq(PartRows(p)) /\ ToSet(PartRows(p)) = {a} \cup {b}
    BY <2>1, <2>2, ConcatFacts
  <2> QED BY <2>3, <1>1
<1>4. CASE ~ (IncludePartData /\ p.data # 0)
  <2>1. PartRows(p) = <<a>> \o <<>>
    BY <1>2, <1>4
  <2>2. PartRows(p) = <<a>>
    BY <2>1, OneRow, NothingToRead
  <2> QED BY <2>2, <1>1, OneRow
<1> QED BY <1>3, <1>4

\* The rows of a table, one for each of its rows.
LEMMA TableRows ==
    ASSUME NEW table, Listed(table), NEW s, s = [i \in DOMAIN table |-> s[i]]
    PROVE  /\ IsSeq(s) /\ Len(s) = Len(table)
           /\ \A r : r \in ToSet(s) <=> \E i \in 1 .. Len(table) : r = s[i]
           /\ \A x : x \in ToSet(table) <=> \E i \in 1 .. Len(table) : x = table[i]
PROOF
<1>1. IsSeq(s) /\ Len(s) = Len(table)
  BY RowsAreSeq DEF Listed
<1> QED BY <1>1, SequenceFacts DEF Listed, ToSet

\* Each query is answered by rows of its own kind.
LEMMA RowsAnswer ==
    ASSUME NEW h \in Histories, NEW n \in 1 .. Len(h), NEW q \in 1 .. 8, NEW ids, IsSeq(ids)
    PROVE  Answers(Rows(h[n], Queries[q], ids), q, h[n])
PROOF
<1> DEFINE at == h[n]
           rows == Rows(at, Queries[q], ids)
<1>1. /\ Listed(at.sms) /\ Listed(at.mms) /\ Listed(at.parts) /\ Listed(at.threads)
      /\ \A i, k \in DOMAIN at.mms : at.mms[i].id = at.mms[k].id => i = k
  BY HistoriesAssumption
<1> SUFFICES Answers(rows, q, at)
  OBVIOUS
<1> HIDE DEF at
<1>2. CASE q = 1
  <2>1. rows = <<Record("metadata", 0, 0, 0, 0)>>
    BY <1>2, QueriesAre DEF Rows
  <2>2. Record("metadata", 0, 0, 0, 0).type = "metadata"
    BY DEF Record
  <2> HIDE DEF rows
  <2> QED BY <1>2, <2>1, <2>2, OneRow, TypesAre DEF Answers
<1>3. CASE q = 2
  <2>1. rows = [i \in DOMAIN at.sms |-> Record("sms", at.sms[i].thread, at.sms[i].id, 0, 0)]
    BY <1>3, QueriesAre DEF Rows
  <2>2. \A i \in DOMAIN at.sms : rows[i].type = "sms"
    BY <2>1 DEF Record
  <2>3. DOMAIN at.sms = 1 .. Len(at.sms) /\ rows = [i \in DOMAIN at.sms |-> rows[i]]
    BY <1>1, <2>1 DEF Listed
  <2> HIDE DEF rows
  <2>4. /\ IsSeq(rows)
        /\ \A r : r \in ToSet(rows) <=> \E i \in 1 .. Len(at.sms) : r = rows[i]
    BY <1>1, <2>3, TableRows
  <2>5. \A r \in ToSet(rows) : r.type = "sms"
    BY <2>2, <2>3, <2>4
  <2> QED BY <1>3, <2>4, <2>5, TypesAre DEF Answers
<1>4. CASE q = 3
  <2>1. rows = [i \in DOMAIN at.mms |-> Record("mms", at.mms[i].thread, at.mms[i].id, 0, 0)]
    BY <1>4, QueriesAre DEF Rows
  <2>2. \A i \in DOMAIN at.mms : rows[i].type = "mms" /\ rows[i].id = at.mms[i].id
    BY <2>1 DEF Record
  <2>8. \A i \in DOMAIN at.mms : rows[i] = Record("mms", at.mms[i].thread, at.mms[i].id, 0, 0)
    BY <2>1
  <2>3. DOMAIN at.mms = 1 .. Len(at.mms) /\ rows = [i \in DOMAIN at.mms |-> rows[i]]
    BY <1>1, <2>1 DEF Listed
  <2> HIDE DEF rows
  <2>4. /\ IsSeq(rows) /\ Len(rows) = Len(at.mms)
        /\ \A r : r \in ToSet(rows) <=> \E i \in 1 .. Len(at.mms) : r = rows[i]
        /\ \A x : x \in ToSet(at.mms) <=> \E i \in 1 .. Len(at.mms) : x = at.mms[i]
    BY <1>1, <2>3, TableRows
  <2>5. ASSUME NEW r \in ToSet(rows) PROVE r.type = "mms"
    <3>1. PICK i \in 1 .. Len(at.mms) : r = rows[i]
      BY <2>4
    <3> QED BY <3>1, <2>2, <2>3
  <2>6. HasMms(at, rows)
    <3> SUFFICES ASSUME NEW m \in ToSet(at.mms)
                 PROVE  Record("mms", m.thread, m.id, 0, 0) \in ToSet(rows)
      BY DEF HasMms
    <3>1. PICK i \in 1 .. Len(at.mms) : m = at.mms[i]
      BY <2>4
    <3>2. rows[i] = Record("mms", m.thread, m.id, 0, 0)
      BY <3>1, <2>8, <2>3
    <3> QED BY <3>2, <2>4
  <2>7. \A i, k \in 1 .. Len(rows) : rows[i].id = rows[k].id => i = k
    BY <2>2, <2>3, <2>4, <1>1
  <2> QED BY <1>4, <2>4, <2>5, <2>6, <2>7, TypesAre DEF Answers
<1>5. CASE q = 4
  <2> DEFINE of(i) == IF ids[i] \in at.addressed THEN <<Record("mms_address", 0, 0, ids[i], 0)>> ELSE <<>>
             all == [i \in 1 .. Len(ids) |-> of(i)]
  <2>1. DOMAIN ids = 1 .. Len(ids) /\ Len(ids) \in Nat
    BY SequenceFacts
  <2>2. rows = FlattenSeq(all)
    BY <1>5, <2>1, QueriesAre DEF Rows
  <2>3. ASSUME NEW i \in 1 .. Len(ids)
        PROVE IsSeq(of(i)) /\ \A r \in ToSet(of(i)) : r.type = "mms_address"
    <3>1. Record("mms_address", 0, 0, ids[i], 0).type = "mms_address"
      BY DEF Record
    <3> QED BY <3>1, OneRow, EmptyIsSeq
  <2>4. \A i \in 1 .. Len(ids) : IsSeq(all[i]) /\ \A r \in ToSet(all[i]) : r.type = "mms_address"
    <3> HIDE DEF of
    <3> QED BY <2>3
  <2>5. all = [i \in 1 .. Len(ids) |-> all[i]]
    <3> HIDE DEF of
    <3> QED OBVIOUS
  <2> HIDE DEF all
  <2>6. /\ IsSeq(FlattenSeq(all))
        /\ \A r : r \in ToSet(FlattenSeq(all)) <=> \E i \in 1 .. Len(ids) : r \in ToSet(all[i])
    <3> HIDE DEF rows, of
    <3> QED BY <2>1, <2>4, <2>5, FlattenHolds
  <2> HIDE DEF rows
  <2>7. IsSeq(rows) /\ \A r \in ToSet(rows) : r.type = "mms_address"
    <3> HIDE DEF of
    <3> QED BY <2>2, <2>4, <2>6
  <2> QED BY <1>5, <2>7, TypesAre DEF Answers
<1>6. CASE q = 5
  <2> DEFINE all == [i \in 1 .. Len(at.parts) |-> PartRows(at.parts[i])]
  <2>1. DOMAIN at.parts = 1 .. Len(at.parts) /\ Len(at.parts) \in Nat
    BY <1>1 DEF Listed
  <2>2. rows = FlattenSeq(all)
    BY <1>6, <2>1, QueriesAre DEF Rows
  <2>3. \A i \in 1 .. Len(at.parts) :
           /\ all[i] = PartRows(at.parts[i]) /\ IsSeq(all[i])
           /\ \A r \in ToSet(all[i]) : r.type \in {"mms_part", "mms_part_data"}
    BY PartRowsAre
  <2>4. all = [i \in 1 .. Len(at.parts) |-> all[i]]
    OBVIOUS
  <2> HIDE DEF all
  <2>5. /\ IsSeq(rows)
        /\ \A r : r \in ToSet(rows) <=> \E i \in 1 .. Len(at.parts) : r \in ToSet(all[i])
    <3> HIDE DEF rows
    <3> QED BY <2>1, <2>2, <2>3, <2>4, FlattenHolds
  <2> HIDE DEF rows
  <2>6. \A r \in ToSet(rows) : r.type \in {"mms_part", "mms_part_data"}
    BY <2>3, <2>5
  <2>7. HasParts(at, rows)
    <3>1. \A p \in ToSet(at.parts) : \E i \in 1 .. Len(at.parts) : p = at.parts[i]
      BY <2>1 DEF ToSet
    <3> QED BY <3>1, <2>3, <2>5 DEF HasParts
  <2> QED BY <1>6, <2>5, <2>6, <2>7, TypesAre DEF Answers
<1>7. CASE q = 6
  <2>1. rows = [i \in DOMAIN at.threads |-> Record("thread", at.threads[i], 0, 0, 0)]
    BY <1>7, QueriesAre DEF Rows
  <2>2. \A i \in DOMAIN at.threads : rows[i].type = "thread"
    BY <2>1 DEF Record
  <2>3. DOMAIN at.threads = 1 .. Len(at.threads) /\ rows = [i \in DOMAIN at.threads |-> rows[i]]
    BY <1>1, <2>1 DEF Listed
  <2> HIDE DEF rows
  <2>4. /\ IsSeq(rows)
        /\ \A r : r \in ToSet(rows) <=> \E i \in 1 .. Len(at.threads) : r = rows[i]
    BY <1>1, <2>3, TableRows
  <2>5. \A r \in ToSet(rows) : r.type = "thread"
    BY <2>2, <2>3, <2>4
  <2> QED BY <1>7, <2>4, <2>5, TypesAre DEF Answers
<1>8. CASE q = 7
  <2>1. rows = <<Record("canonical_address", 0, 0, 0, 0)>>
    BY <1>8, QueriesAre DEF Rows
  <2>2. Record("canonical_address", 0, 0, 0, 0).type = "canonical_address"
    BY DEF Record
  <2> HIDE DEF rows
  <2> QED BY <1>8, <2>1, <2>2, OneRow, TypesAre DEF Answers
<1>9. CASE q = 8
  <2>1. rows = <<Record("summary", 0, 0, 0, 0)>>
    BY <1>9, QueriesAre DEF Rows
  <2>2. Record("summary", 0, 0, 0, 0).type = "summary"
    BY DEF Record
  <2> HIDE DEF rows
  <2> QED BY <1>9, <2>1, <2>2, OneRow, TypesAre DEF Answers
<1> HIDE DEF rows
<1> QED BY <1>2, <1>3, <1>4, <1>5, <1>6, <1>7, <1>8, <1>9

\* The parts and addresses of a message come after it, and no message twice.
Orderly(sent) ==
    /\ \A i \in 1 .. Len(sent) : sent[i].type \in Types
    /\ \A i, k \in 1 .. Len(sent) : i < k /\ sent[k].type = "mms" => sent[i].type \notin OfMms
    /\ \A i, k \in 1 .. Len(sent) :
          sent[i].type = "mms" /\ sent[k].type = "mms" /\ sent[i].id = sent[k].id => i = k

\* What has been sent into the directory a by a phone in state n of h, query q
\* being the next.
SentUpTo(h, n, a, q) ==
    /\ IsSeq(a.sent) /\ Orderly(a.sent)
    /\ a.from \in 1 .. n /\ a.until \in a.from .. n
    /\ \A r \in ToSet(a.sent) : \E k \in 1 .. q - 1 : r.type \in TypesOf[k]
    /\ q > 1 => a.sent # <<>> /\ a.sent[1].type = "metadata"
    /\ q > 3 => \E i \in a.from .. a.until : HasMms(h[i], a.sent)
    /\ q > 5 => \E i \in a.from .. a.until : HasParts(h[i], a.sent)
    /\ q = 9 => /\ a.sent[Len(a.sent)].type = "summary"
                /\ \A i \in 1 .. Len(a.sent) - 1 : a.sent[i].type # "summary"

\* What has been read of an orderly stream is orderly.
LEMMA OrderlyPrefix ==
    ASSUME NEW s, IsSeq(s), NEW t, IsSeq(t), Orderly(s \o t)
    PROVE  Orderly(s)
PROOF
<1>1. Len(s) \in Nat /\ Len(t) \in Nat
  BY SequenceFacts
<1> DEFINE u == s \o t
<1>2. Len(u) = Len(s) + Len(t) /\ \A i \in 1 .. Len(s) : u[i] = s[i]
  BY ConcatFacts
<1> HIDE DEF u
<1>3. \A i \in 1 .. Len(s) : i \in 1 .. Len(u) /\ u[i] = s[i]
  BY <1>1, <1>2
<1>4. Orderly(u)
  BY DEF u
<1> QED BY <1>3, <1>4 DEF Orderly

\* The MMS come with query 3, what belongs to them with 4 and 5, the summary last.
LEMMA KindsOfTypes ==
    /\ \A q \in 1 .. 8 : TypesOf[q] \subseteq Types
    /\ \A q \in 1 .. 8 : "mms" \in TypesOf[q] => q = 3
    /\ \A q \in 1 .. 8 : "summary" \in TypesOf[q] => q = 8
    /\ \A q \in 1 .. 8 : \A x \in TypesOf[q] : x \in OfMms => q \in {4, 5}
    /\ \A x \in TypesOf[3] : x = "mms"
    /\ \A x \in TypesOf[8] : x = "summary"
    /\ \A x \in TypesOf[1] : x = "metadata"
PROOF
<1>1. \A q \in 1 .. 8 : q = 1 \/ q = 2 \/ q = 3 \/ q = 4 \/ q = 5 \/ q = 6 \/ q = 7 \/ q = 8
  OBVIOUS
<1>2. \A q \in 1 .. 8 : TypesOf[q] \subseteq Types
  BY <1>1, TypesAre DEF Types
<1>3. \A q \in 1 .. 8 : "mms" \in TypesOf[q] => q = 3
  BY <1>1, TypesAre
<1>4. \A q \in 1 .. 8 : "summary" \in TypesOf[q] => q = 8
  BY <1>1, TypesAre
<1>5. \A q \in 1 .. 8 : \A x \in TypesOf[q] : x \in OfMms => q \in {4, 5}
  BY <1>1, TypesAre DEF OfMms
<1> QED BY <1>2, <1>3, <1>4, <1>5, TypesAre

\* The answer of the next query goes to the end.
LEMMA QueryAdds ==
    ASSUME NEW h, NEW at \in Nat, NEW q \in 1 .. 8, NEW a, SentUpTo(h, at, a, q),
           NEW rows, Answers(rows, q, h[at]),
           NEW b, b.sent = a.sent \o rows, b.from = a.from, b.until = at
    PROVE  SentUpTo(h, at, b, q + 1)
PROOF
<1> DEFINE s == a.sent
           u == s \o rows
           n == Len(s)
           m == Len(rows)
<1>1. /\ IsSeq(s) /\ Orderly(s)
      /\ a.from \in 1 .. at /\ a.until \in a.from .. at
      /\ \A r \in ToSet(s) : \E k \in 1 .. q - 1 : r.type \in TypesOf[k]
      /\ q > 1 => s # <<>> /\ s[1].type = "metadata"
      /\ q > 3 => \E i \in a.from .. a.until : HasMms(h[i], s)
      /\ q > 5 => \E i \in a.from .. a.until : HasParts(h[i], s)
  BY DEF SentUpTo
<1>2. /\ IsSeq(rows) /\ \A r \in ToSet(rows) : r.type \in TypesOf[q]
      /\ q = 1 => m = 1
      /\ q = 3 => HasMms(h[at], rows) /\ \A i, k \in 1 .. m : rows[i].id = rows[k].id => i = k
      /\ q = 5 => HasParts(h[at], rows)
      /\ q = 8 => m = 1
  BY DEF Answers
<1>3. n \in Nat /\ m \in Nat /\ DOMAIN s = 1 .. n /\ DOMAIN rows = 1 .. m
  BY <1>1, <1>2, SequenceFacts
<1>4. /\ IsSeq(u) /\ Len(u) = n + m
      /\ \A i \in 1 .. n : u[i] = s[i]
      /\ \A i \in 1 .. m : u[n + i] = rows[i]
      /\ \A i \in 1 .. Len(u) : i > n => i - n \in 1 .. m /\ u[i] = rows[i - n]
      /\ ToSet(u) = ToSet(s) \cup ToSet(rows)
  BY <1>1, <1>2, ConcatFacts
<1> HIDE DEF u, n, m
<1>5. /\ \A i \in 1 .. n : s[i] \in ToSet(s)
      /\ \A i \in 1 .. m : rows[i] \in ToSet(rows)
  BY <1>3 DEF ToSet
<1> DEFINE Before(x) == \E k \in 1 .. q - 1 : x \in TypesOf[k]
<1>6. ASSUME NEW i \in 1 .. Len(u)
      PROVE  \/ i \in 1 .. n /\ u[i] = s[i] /\ Before(u[i].type)
             \/ i > n /\ i - n \in 1 .. m /\ u[i] = rows[i - n] /\ u[i].type \in TypesOf[q]
  <2>1. CASE i <= n
    <3>1. i \in 1 .. n
      BY <2>1, <1>3
    <3> QED BY <3>1, <1>1, <1>4, <1>5
  <2>2. CASE ~ (i <= n)
    <3>1. i > n
      BY <2>2, <1>3
    <3>2. i - n \in 1 .. m /\ u[i] = rows[i - n]
      BY <3>1, <1>4
    <3>3. rows[i - n] \in ToSet(rows)
      BY <3>2, <1>5
    <3> QED BY <3>1, <3>2, <3>3, <1>2
  <2> QED BY <2>1, <2>2
<1>7. \A x : Before(x) => /\ x \in Types
                          /\ x = "mms" => q > 3
                          /\ x \in OfMms => q > 4
                          /\ x # "summary"
  BY KindsOfTypes
<1> HIDE DEF Before
<1>8. Orderly(u)
  <2>1. \A i \in 1 .. Len(u) : u[i].type \in Types
    BY <1>6, <1>7, KindsOfTypes
  <2>2. ASSUME NEW i \in 1 .. Len(u), NEW k \in 1 .. Len(u), i < k, u[k].type = "mms"
        PROVE  u[i].type \notin OfMms
    <3>1. CASE k \in 1 .. n
      <4>1. i \in 1 .. n
        BY <3>1, <1>3, <2>2
      <4> QED BY <4>1, <3>1, <2>2, <1>1, <1>4 DEF Orderly, n
    <3>2. CASE k \notin 1 .. n
      <4>1. q = 3
        BY <3>2, <1>6, <2>2, KindsOfTypes
      <4> QED BY <4>1, <1>6, <1>7, KindsOfTypes
    <3> QED BY <3>1, <3>2
  <2>3. ASSUME NEW i \in 1 .. Len(u), NEW k \in 1 .. Len(u),
               u[i].type = "mms", u[k].type = "mms", u[i].id = u[k].id
        PROVE  i = k
    <3>1. CASE q = 3
      <4>1. i > n /\ k > n
        BY <3>1, <2>3, <1>6, <1>7
      <4>2. /\ i - n \in 1 .. m /\ u[i] = rows[i - n]
            /\ k - n \in 1 .. m /\ u[k] = rows[k - n]
        BY <4>1, <1>4
      <4>3. i - n = k - n
        BY <4>2, <3>1, <2>3, <1>2 DEF m
      <4> QED BY <4>3, <1>3
    <3>2. CASE q # 3
      <4>1. i \in 1 .. n /\ k \in 1 .. n
        BY <3>2, <2>3, <1>6, KindsOfTypes
      <4> QED BY <4>1, <2>3, <1>1, <1>4 DEF Orderly, n
    <3> QED BY <3>1, <3>2
  <2> QED BY <2>1, <2>2, <2>3 DEF Orderly
<1>9. b.from \in 1 .. at /\ b.until \in b.from .. at /\ a.until \in a.from .. b.until
  BY <1>1
<1>10. \A r \in ToSet(u) : \E k \in 1 .. (q + 1) - 1 : r.type \in TypesOf[k]
  BY <1>1, <1>2, <1>4
<1>11. u # <<>> /\ u[1].type = "metadata"
  <2>1. CASE q = 1
    <3>1. \A i \in 1 .. n : FALSE
      BY <2>1, <1>1, <1>5
    <3>2. n = 0
      BY <3>1, <1>3
    <3>3. m = 1
      BY <2>1, <1>2
    <3>4. Len(u) = 1
      BY <3>2, <3>3, <1>4
    <3>5. u[1].type \in TypesOf[1]
      BY <3>2, <3>4, <2>1, <1>6
    <3> QED BY <3>4, <3>5, KindsOfTypes, EmptyIsSeq
  <2>2. CASE q # 1
    <3>1. s # <<>> /\ s[1].type = "metadata"
      BY <2>2, <1>1
    <3>2. n # 0
      BY <3>1, <1>1 DEF n, IsSeq
    <3>3. 1 \in 1 .. n /\ Len(u) # 0
      BY <3>2, <1>3, <1>4
    <3> QED BY <3>1, <3>3, <1>4, EmptyIsSeq
  <2> QED BY <2>1, <2>2
<1>12. /\ \A x : HasMms(x, s) \/ HasMms(x, rows) => HasMms(x, u)
       /\ \A x : HasParts(x, s) \/ HasParts(x, rows) => HasParts(x, u)
  BY <1>4 DEF HasMms, HasParts
<1>13. q + 1 > 3 => \E i \in b.from .. b.until : HasMms(h[i], u)
  <2>1. CASE q = 3
    <3>1. at \in b.from .. b.until /\ HasMms(h[at], rows)
      BY <2>1, <1>2, <1>9
    <3> QED BY <3>1, <1>12
  <2>2. CASE q > 3
    <3>1. PICK i \in a.from .. a.until : HasMms(h[i], s)
      BY <2>2, <1>1
    <3>2. i \in b.from .. b.until
      BY <1>9
    <3> QED BY <3>1, <3>2, <1>12
  <2> QED BY <2>1, <2>2
<1>14. q + 1 > 5 => \E i \in b.from .. b.until : HasParts(h[i], u)
  <2>1. CASE q = 5
    <3>1. at \in b.from .. b.until /\ HasParts(h[at], rows)
      BY <2>1, <1>2, <1>9
    <3> QED BY <3>1, <1>12
  <2>2. CASE q > 5
    <3>1. PICK i \in a.from .. a.until : HasParts(h[i], s)
      BY <2>2, <1>1
    <3>2. i \in b.from .. b.until
      BY <1>9
    <3> QED BY <3>1, <3>2, <1>12
  <2> QED BY <2>1, <2>2
<1>15. q + 1 = 9 => /\ u[Len(u)].type = "summary"
                    /\ \A i \in 1 .. Len(u) - 1 : u[i].type # "summary"
  <2> SUFFICES ASSUME q = 8
               PROVE  u[Len(u)].type = "summary" /\ \A i \in 1 .. Len(u) - 1 : u[i].type # "summary"
    OBVIOUS
  <2>1. Len(u) = n + 1 /\ Len(u) \in 1 .. Len(u)
    BY <1>2, <1>3, <1>4
  <2>2. u[Len(u)].type \in TypesOf[8]
    BY <2>1, <1>3, <1>6
  <2>3. \A i \in 1 .. Len(u) - 1 : i \in 1 .. Len(u) /\ ~ (i > n)
    BY <2>1, <1>3
  <2> QED BY <2>2, <2>3, <1>6, <1>7, KindsOfTypes
<1>16. b.sent = u
  BY DEF u
<1> HIDE DEF s
<1> QED BY <1>4, <1>8, <1>9, <1>10, <1>11, <1>13, <1>14, <1>15, <1>16 DEF SentUpTo

-----------------------------------------------------------------------------
(* What segmentRaw makes of it.                                            *)

\* The thread of a message is known once the message has been read.
LEMMA ThreadsGrow ==
    ASSUME NEW s, IsSeq(s), NEW r
    PROVE  /\ r.type # "mms" => ThreadsOf(Append(s, r)) = ThreadsOf(s)
           /\ (r.type = "mms" /\ \A x \in ToSet(s) : x.type = "mms" => x.id # r.id)
              => ThreadsOf(Append(s, r)) = With(ThreadsOf(s), r.id, r.thread)
PROOF
<1> DEFINE mms == {x \in ToSet(s) : x.type = "mms"}
           mmsNow == {x \in ToSet(Append(s, r)) : x.type = "mms"}
           old(m) == (CHOOSE x \in mms : x.id = m).thread
           new(m) == (CHOOSE x \in mmsNow : x.id = m).thread
           f == ThreadsOf(s)
           g == ThreadsOf(Append(s, r))
           u == With(f, r.id, r.thread)
<1>1. ToSet(Append(s, r)) = ToSet(s) \cup {r}
  BY AppendFacts
<1>2. f = [m \in {x.id : x \in mms} |-> old(m)]
  BY DEF ThreadsOf
<1>3. g = [m \in {x.id : x \in mmsNow} |-> new(m)]
  BY DEF ThreadsOf
<1> HIDE DEF f, g
<1>4. ASSUME r.type # "mms" PROVE g = f
  <2>1. mmsNow = mms
    BY <1>1, <1>4
  <2> HIDE DEF mms, mmsNow
  <2>2. \A m : old(m) = new(m)
    BY <2>1
  <2> HIDE DEF old, new
  <2> QED BY <2>1, <2>2, <1>2, <1>3
<1>5. ASSUME r.type = "mms", \A x \in ToSet(s) : x.type = "mms" => x.id # r.id PROVE g = u
  <2>1. mmsNow = mms \cup {r} /\ \A x \in mms : x.id # r.id
    BY <1>1, <1>5
  <2> HIDE DEF mms, mmsNow
  <2>2. new(r.id) = r.thread
    <3>1. (CHOOSE x \in mmsNow : x.id = r.id) = r
      BY <2>1
    <3> QED BY <3>1
  <2>3. ASSUME NEW m, m # r.id PROVE new(m) = old(m)
    <3>1. \A x : x \in mmsNow /\ x.id = m <=> x \in mms /\ x.id = m
      BY <2>1, <2>3
    <3>2. (CHOOSE x \in mmsNow : x.id = m) = (CHOOSE x \in mms : x.id = m)
      BY <3>1
    <3> QED BY <3>2
  <2> HIDE DEF old, new
  <2>4. /\ u = [k \in DOMAIN u |-> u[k]] /\ DOMAIN u = DOMAIN f \cup {r.id}
        /\ u[r.id] = r.thread /\ \A k \in DOMAIN f : k # r.id => u[k] = f[k]
    BY DEF With
  <2> HIDE DEF u
  <2>5. DOMAIN f = {x.id : x \in mms} /\ DOMAIN g = {x.id : x \in mms} \cup {r.id}
    BY <1>2, <1>3, <2>1
  <2>6. ASSUME NEW m \in DOMAIN g PROVE g[m] = u[m]
    <3>1. CASE m = r.id
      BY <3>1, <2>2, <2>4, <2>6, <1>3
    <3>2. CASE m # r.id
      <4>1. m \in DOMAIN f
        BY <3>2, <2>5, <2>6
      <4>2. f[m] = old(m) /\ g[m] = new(m)
        BY <4>1, <1>2, <1>3, <2>6
      <4> QED BY <4>1, <4>2, <3>2, <2>3, <2>4
    <3> QED BY <3>1, <3>2
  <2>7. g = [m \in DOMAIN g |-> g[m]] /\ DOMAIN g = DOMAIN u
    BY <1>3, <2>4, <2>5
  <2> QED BY <2>4, <2>6, <2>7
<1> QED BY <1>4, <1>5 DEF f, g

\* The thread of a message that was sent.
LEMMA ThreadsKnow ==
    ASSUME NEW s, IsSeq(s)
    PROVE  /\ DOMAIN ThreadsOf(s) = {x.id : x \in {r \in ToSet(s) : r.type = "mms"}}
           /\ \A m \in DOMAIN ThreadsOf(s) :
                 \E r \in ToSet(s) : r.type = "mms" /\ r.id = m /\ r.thread = ThreadsOf(s)[m]
           /\ Orderly(s) => \A r \in ToSet(s) : r.type = "mms" => ThreadsOf(s)[r.id] = r.thread
PROOF
<1> DEFINE mms == {r \in ToSet(s) : r.type = "mms"}
           of(m) == CHOOSE x \in mms : x.id = m
<1>1. ThreadsOf(s) = [m \in {x.id : x \in mms} |-> of(m).thread]
  BY DEF ThreadsOf
<1>2. \A m \in {x.id : x \in mms} : of(m) \in mms /\ of(m).id = m
  <2> HIDE DEF mms
  <2> QED OBVIOUS
<1>3. Orderly(s) => \A x, y \in mms : x.id = y.id => x = y
  <2>1. DOMAIN s = 1 .. Len(s)
    BY SequenceFacts
  <2> QED BY <2>1 DEF Orderly, ToSet
<1>4. Orderly(s) => \A r \in mms : ThreadsOf(s)[r.id] = r.thread
  <2> HIDE DEF mms, of
  <2> QED BY <1>1, <1>2, <1>3
<1>5. \A m \in DOMAIN ThreadsOf(s) : of(m) \in mms /\ of(m).id = m /\ of(m).thread = ThreadsOf(s)[m]
  <2> HIDE DEF mms, of
  <2> QED BY <1>1, <1>2
<1> HIDE DEF of
<1> QED BY <1>1, <1>4, <1>5

\* The file of a record, by its type (segmentRaw's switch).
LEMMA PathsAre ==
    ASSUME NEW r, r.type \in Types, NEW T
    PROVE  LET p == FileOf(r, T) IN
           /\ ~ IsMedia(p)
           /\ r.type \in OfThread => p = ThreadFile(r.thread)
           /\ (r.type \in OfMms /\ r.mms \in DOMAIN T) => p = ThreadFile(T[r.mms])
           /\ (r.type \in OfMms /\ r.mms \notin DOMAIN T) => p = Orphaned
           /\ r.type = "canonical_address" => p = CanonicalAddresses
           /\ r.type \in {"metadata", "summary"} => p = Metadata
PROOF
<1>1. /\ ~ IsMedia(Orphaned) /\ ~ IsMedia(CanonicalAddresses) /\ ~ IsMedia(Metadata)
      /\ \A t : ~ IsMedia(ThreadFile(t))
  BY DEF IsMedia, Orphaned, CanonicalAddresses, Metadata, ThreadFile
<1>2. r.type \in OfThread => FileOf(r, T) = ThreadFile(r.thread)
  BY DEF FileOf, OfThread, OfMms
<1>3. (r.type \in OfMms /\ r.mms \in DOMAIN T) => FileOf(r, T) = ThreadFile(T[r.mms])
  BY DEF FileOf, OfThread, OfMms
<1>4. (r.type \in OfMms /\ r.mms \notin DOMAIN T) => FileOf(r, T) = Orphaned
  BY DEF FileOf, OfThread, OfMms
<1>5. r.type = "canonical_address" => FileOf(r, T) = CanonicalAddresses
  BY DEF FileOf, OfThread, OfMms
<1>6. r.type \in {"metadata", "summary"} => FileOf(r, T) = Metadata
  BY DEF FileOf, OfThread, OfMms
<1>7. r.type \in OfThread \/ r.type \in OfMms \/ r.type = "canonical_address" \/ r.type \in {"metadata", "summary"}
  BY DEF Types, OfThread, OfMms
<1> QED BY <1>1, <1>2, <1>3, <1>4, <1>5, <1>6, <1>7

\* No two of the files an export writes share a path.
LEMMA PathsDiffer ==
    /\ \A t, u : ThreadFile(t) = ThreadFile(u) => t = u
    /\ \A t : IsThread(ThreadFile(t)) /\ ThreadFile(t)[2] = t
    /\ ~ IsThread(Metadata) /\ ~ IsThread(CanonicalAddresses) /\ ~ IsThread(Orphaned)
    /\ Metadata # CanonicalAddresses /\ Metadata # Orphaned /\ CanonicalAddresses # Orphaned
    /\ \A c : IsMedia(MediaFile(c)) /\ MediaFile(c)[2] = c
PROOF BY DEF ThreadFile, IsThread, IsMedia, MediaFile, Metadata, CanonicalAddresses, Orphaned

\* A file of records holds what it may hold, in an order in which it may.
SortedFile(p, file) ==
    IF IsThread(p) THEN ThreadIsValid(file, p[2])
    ELSE \/ p = Metadata /\ HasType(file, {"metadata", "summary"})
         \/ p = CanonicalAddresses /\ HasType(file, {"canonical_address"})
         \/ p = Orphaned /\ HasType(file, OfMms)

Filing(read, files) ==
    LET threads == ThreadsOf(read) IN
    /\ \A p \in DOMAIN files : ~ IsMedia(p) =>
          /\ files[p] = Filed(read, threads, p)
          /\ \E r \in ToSet(read) : FileOf(r, threads) = p
          /\ SortedFile(p, files[p])
    /\ \A r \in ToSet(read) : FileOf(r, threads) \in DOMAIN files

Media(read, files) ==
    /\ \A p \in DOMAIN files : IsMedia(p) =>
          /\ files[p] = <<p[2]>>
          /\ \E r \in ToSet(read) : r.type = "mms_part_data" /\ p = MediaFile(r.data)
    /\ \A r \in ToSet(read) : r.type = "mms_part_data" => MediaFile(r.data) \in DOMAIN files

Counts(files, records) ==
    /\ DOMAIN records = {p \in DOMAIN files : ~ IsMedia(p)}
    /\ \A p \in DOMAIN records : records[p] = Len(files[p])

\* What has been read is filed, each record where it belongs.
FiledUp(read, files, s) ==
    /\ s.mmsThreads = ThreadsOf(read)
    /\ Filing(read, files) /\ Media(read, files) /\ Counts(files, s.records)

\* A record at the end of its file, which stays valid.
LEMMA FileStaysValid ==
    ASSUME NEW s, IsSeq(s), Orderly(s), NEW T, T = ThreadsOf(s), NEW r, r.type \in Types,
           NEW key, key = FileOf(r, T), NEW old, old = Filed(s, T, key),
           SortedFile(key, old) \/ old = <<>>
    PROVE  SortedFile(key, Append(old, r))
PROOF
<1> DEFINE file == Append(old, r)
           n == Len(old)
<1>1. IsSeq(old) /\ ToSet(old) = {x \in ToSet(s) : FileOf(x, T) = key}
  BY FiledHolds
<1>2. /\ Len(file) = n + 1 /\ DOMAIN file = 1 .. n + 1 /\ n \in Nat /\ DOMAIN old = 1 .. n
      /\ \A i \in 1 .. n : file[i] = old[i]
      /\ file[n + 1] = r
  BY <1>1, AppendFacts, SequenceFacts
<1>3. \A i \in DOMAIN file : i \in 1 .. n \/ i = n + 1
  BY <1>2
<1> HIDE DEF file
<1>4. ASSUME NEW types, HasType(old, types), r.type \in types PROVE HasType(file, types)
  BY <1>2, <1>3, <1>4 DEF HasType
<1>5. ASSUME NEW types, old = <<>> PROVE HasType(old, types)
  BY <1>5, EmptyIsSeq DEF HasType
<1>6. CASE r.type \in OfThread
  <2>1. key = ThreadFile(r.thread) /\ IsThread(key) /\ key[2] = r.thread
    BY <1>6, PathsAre, PathsDiffer
  <2>2. \A i \in 1 .. n : old = <<>> => FALSE
    BY EmptyIsSeq, <1>2
  <2>3. ThreadIsValid(old, key[2]) \/ old = <<>>
    BY <2>1 DEF SortedFile
  <2>4. ThreadIsValid(file, key[2])
    <3> SUFFICES ASSUME NEW i \in DOMAIN file
                 PROVE  \/ file[i].type \in OfThread /\ file[i].thread = key[2]
                        \/ file[i].type \in OfMms
                           /\ \E j \in 1 .. i - 1 : file[j].type = "mms" /\ file[j].id = file[i].mms
      BY DEF ThreadIsValid
    <3>1. CASE i = n + 1
      BY <3>1, <1>2, <1>6, <2>1
    <3>2. CASE i \in 1 .. n
      <4>1. ThreadIsValid(old, key[2])
        BY <3>2, <2>2, <2>3
      <4>2. \A j \in 1 .. i - 1 : file[j] = old[j]
        BY <3>2, <1>2
      <4> QED BY <4>1, <4>2, <3>2, <1>2 DEF ThreadIsValid
    <3> QED BY <3>1, <3>2, <1>3
  <2> QED BY <2>1, <2>4 DEF SortedFile, file
<1>7. CASE r.type \in OfMms /\ r.mms \in DOMAIN T
  <2>1. key = ThreadFile(T[r.mms]) /\ IsThread(key) /\ key[2] = T[r.mms]
    BY <1>7, PathsAre, PathsDiffer
  <2>2. PICK x \in ToSet(s) : x.type = "mms" /\ x.id = r.mms /\ x.thread = T[r.mms]
    BY <1>7, ThreadsKnow
  <2>3. x.type \in Types /\ x.type \in OfThread
    BY <2>2 DEF Types, OfThread
  <2>4. FileOf(x, T) = key
    BY <2>1, <2>2, <2>3, PathsAre
  <2>5. x \in ToSet(old)
    BY <1>1, <2>4
  <2>6. PICK m \in 1 .. n : old[m] = x
    BY <2>5, <1>1, SequenceFacts
  <2>7. ThreadIsValid(old, key[2])
    BY <2>1, <2>6, <1>2, EmptyIsSeq DEF SortedFile
  <2>8. ThreadIsValid(file, key[2])
    <3> SUFFICES ASSUME NEW i \in DOMAIN file
                 PROVE  \/ file[i].type \in OfThread /\ file[i].thread = key[2]
                        \/ file[i].type \in OfMms
                           /\ \E j \in 1 .. i - 1 : file[j].type = "mms" /\ file[j].id = file[i].mms
      BY DEF ThreadIsValid
    <3>1. CASE i = n + 1
      <4>1. m \in 1 .. i - 1 /\ file[m] = x /\ file[i] = r
        BY <3>1, <2>6, <1>2
      <4> QED BY <4>1, <2>2, <1>7
    <3>2. CASE i \in 1 .. n
      <4>2. \A j \in 1 .. i - 1 : file[j] = old[j]
        BY <3>2, <1>2
      <4> QED BY <2>7, <4>2, <3>2, <1>2 DEF ThreadIsValid
    <3> QED BY <3>1, <3>2, <1>3
  <2> QED BY <2>1, <2>8 DEF SortedFile, file
<1>8. CASE r.type \in OfMms /\ r.mms \notin DOMAIN T
  <2>1. key = Orphaned
    BY <1>8, PathsAre
  <2>2. HasType(old, OfMms)
    BY <2>1, <1>5, PathsDiffer DEF SortedFile
  <2> QED BY <2>1, <2>2, <1>4, <1>8, PathsDiffer DEF SortedFile, file
<1>9. CASE r.type = "canonical_address"
  <2>1. key = CanonicalAddresses
    BY <1>9, PathsAre
  <2>2. HasType(old, {"canonical_address"})
    BY <2>1, <1>5, PathsDiffer DEF SortedFile
  <2>3. HasType(file, {"canonical_address"})
    BY <2>2, <1>4, <1>9
  <2> QED BY <2>1, <2>3, PathsDiffer DEF SortedFile, file
<1>10. CASE r.type \in {"metadata", "summary"}
  <2>1. key = Metadata
    BY <1>10, PathsAre
  <2>2. HasType(old, {"metadata", "summary"})
    BY <2>1, <1>5, PathsDiffer DEF SortedFile
  <2>3. HasType(file, {"metadata", "summary"})
    BY <2>2, <1>4, <1>10
  <2> QED BY <2>1, <2>3, PathsDiffer DEF SortedFile, file
<1>11. r.type \in OfThread \/ r.type \in OfMms \/ r.type = "canonical_address" \/ r.type \in {"metadata", "summary"}
  BY DEF Types, OfThread, OfMms
<1> QED BY <1>6, <1>7, <1>8, <1>9, <1>10, <1>11

\* A record more does not move those that were filed.
LEMMA FiledOneMore ==
    ASSUME NEW s, IsSeq(s), NEW r, Orderly(Append(s, r))
    PROVE  LET T == ThreadsOf(s)
               U == ThreadsOf(Append(s, r))
           IN  /\ Orderly(s) /\ r.type \in Types
               /\ U = IF r.type = "mms" THEN With(T, r.id, r.thread) ELSE T
               /\ \A x \in ToSet(s) : x.type \in Types /\ FileOf(x, U) = FileOf(x, T)
               /\ FileOf(r, U) = FileOf(r, T)
               /\ \A p : Filed(Append(s, r), U, p) =
                     IF p = FileOf(r, T) THEN Append(Filed(s, T, p), r) ELSE Filed(s, T, p)
PROOF
<1> DEFINE T == ThreadsOf(s)
           t == Append(s, r)
           U == ThreadsOf(t)
           n == Len(s)
<1>1. /\ IsSeq(t) /\ Len(t) = n + 1 /\ n \in Nat /\ DOMAIN s = 1 .. n
      /\ \A i \in 1 .. n : t[i] = s[i]
      /\ t[n + 1] = r
  BY AppendFacts, SequenceFacts
<1>2. Orderly(t)
  OBVIOUS
<1> HIDE DEF t
<1>3. /\ n + 1 \in 1 .. Len(t)
      /\ \A i \in 1 .. n : i \in 1 .. Len(t) /\ i < n + 1 /\ t[i] = s[i]
  BY <1>1
<1>4. Orderly(s) /\ r.type \in Types
  BY <1>1, <1>2, <1>3 DEF Orderly
<1>5. /\ \A i \in 1 .. n : s[i].type \in Types
      /\ r.type = "mms" => \A i \in 1 .. n : s[i].type \notin OfMms
      /\ r.type = "mms" => \A i \in 1 .. n : s[i].type = "mms" => s[i].id # r.id
  BY <1>1, <1>2, <1>3 DEF Orderly
<1>6. /\ \A x \in ToSet(s) : x.type \in Types
      /\ r.type = "mms" => \A x \in ToSet(s) : x.type \notin OfMms /\ (x.type = "mms" => x.id # r.id)
  BY <1>5, <1>1 DEF ToSet
<1>7. U = IF r.type = "mms" THEN With(T, r.id, r.thread) ELSE T
  BY <1>6, ThreadsGrow DEF t
<1> HIDE DEF T, U
<1>8. ASSUME NEW x \in ToSet(s) PROVE FileOf(x, U) = FileOf(x, T)
  <2>1. CASE r.type = "mms"
    <3>1. x.type \in Types /\ x.type \notin OfMms
      BY <2>1, <1>6
    <3>2. \/ x.type \in OfThread \/ x.type = "canonical_address" \/ x.type \in {"metadata", "summary"}
      BY <3>1 DEF Types, OfThread, OfMms
    <3> QED BY <3>1, <3>2, PathsAre
  <2>2. CASE r.type # "mms"
    BY <2>2, <1>7
  <2> QED BY <2>1, <2>2
<1>9. FileOf(r, U) = FileOf(r, T)
  <2>1. CASE r.type = "mms"
    <3>1. r.type \in OfThread
      BY <2>1 DEF OfThread
    <3> QED BY <3>1, <1>4, PathsAre
  <2>2. CASE r.type # "mms"
    BY <2>2, <1>7
  <2> QED BY <2>1, <2>2
<1>10. ASSUME NEW p
       PROVE  Filed(t, U, p) = IF p = FileOf(r, T) THEN Append(Filed(s, T, p), r) ELSE Filed(s, T, p)
  <2>1. \A i \in 1 .. Len(s) : s[i] = t[i] /\ (FileOf(s[i], T) = p <=> FileOf(t[i], U) = p)
    BY <1>1, <1>8 DEF ToSet
  <2>2. Len(s) <= Len(t) /\ Len(t) = Len(s) + 1
    BY <1>1
  <2>3. Filed(t, U, p) = IF FileOf(t[Len(t)], U) = p THEN Append(Filed(s, T, p), t[Len(t)]) ELSE Filed(s, T, p)
    BY <1>1, <2>1, <2>2, FiledAlike
  <2>4. t[Len(t)] = r
    BY <1>1
  <2> QED BY <2>3, <2>4, <1>9
<1> QED BY <1>4, <1>6, <1>7, <1>8, <1>9, <1>10 DEF T, U, t

\* A sequence without elements is empty.
LEMMA NothingInIt == ASSUME NEW s, IsSeq(s), ToSet(s) = {} PROVE s = <<>>
PROOF BY EmptySeq DEF IsSeq

\* What a file holds before a record is written to it.
LEMMA FileSoFar ==
    ASSUME NEW read, IsSeq(read), NEW files, Filing(read, files), NEW key, ~ IsMedia(key)
    PROVE  LET old == At(files, key, <<>>) IN
           /\ old = Filed(read, ThreadsOf(read), key)
           /\ IsSeq(old)
           /\ key \in DOMAIN files => SortedFile(key, old)
           /\ key \notin DOMAIN files => old = <<>>
PROOF
<1> DEFINE T == ThreadsOf(read)
<1>1. /\ IsSeq(Filed(read, T, key))
      /\ ToSet(Filed(read, T, key)) = {x \in ToSet(read) : FileOf(x, T) = key}
  BY FiledHolds
<1>2. CASE key \in DOMAIN files
  <2>1. files[key] = Filed(read, T, key) /\ SortedFile(key, files[key]) /\ At(files, key, <<>>) = files[key]
    BY <1>2 DEF Filing, At
  <2> QED BY <2>1, <1>1, <1>2
<1>3. CASE key \notin DOMAIN files
  <2>1. \A x \in ToSet(read) : FileOf(x, T) # key
    BY <1>3 DEF Filing
  <2>2. Filed(read, T, key) = <<>> /\ At(files, key, <<>>) = <<>>
    BY <2>1, <1>1, <1>3, NothingInIt DEF At
  <2> QED BY <2>2, <1>3, EmptyIsSeq
<1> QED BY <1>2, <1>3

\* No record goes to a media file.
LEMMA RecordsAreNotMedia == ASSUME NEW r, NEW T PROVE ~ IsMedia(FileOf(r, T))
PROOF
<1>1. /\ ~ IsMedia(Orphaned) /\ ~ IsMedia(CanonicalAddresses) /\ ~ IsMedia(Metadata)
      /\ \A t : ~ IsMedia(ThreadFile(t))
  BY DEF IsMedia, Orphaned, CanonicalAddresses, Metadata, ThreadFile
<1> QED BY <1>1 DEF FileOf

\* outputFiles.openFile: with its count, a file goes on where it ended, open or not.
LEMMA OpenedGoesOn ==
    ASSUME NEW read, IsSeq(read), NEW files, NEW s, FiledUp(read, files, s),
           NEW key, ~ IsMedia(key), NEW open
    PROVE  Opened(At(files, key, <<>>), open, At(s.records, key, 0)) = At(files, key, <<>>)
PROOF
<1> DEFINE old == At(files, key, <<>>)
<1>1. Filing(read, files) /\ Counts(files, s.records)
  BY DEF FiledUp
<1>2. IsSeq(old) /\ (key \notin DOMAIN files => old = <<>>)
  BY <1>1, FileSoFar
<1>3. At(s.records, key, 0) = 0 => old = <<>>
  <2>1. CASE key \in DOMAIN files
    <3>1. key \in DOMAIN s.records /\ s.records[key] = Len(files[key]) /\ old = files[key]
      BY <2>1, <1>1 DEF Counts, At
    <3>2. At(s.records, key, 0) = Len(old)
      BY <3>1 DEF At
    <3> HIDE DEF old
    <3> QED BY <3>2, <1>2, EmptySeq DEF IsSeq
  <2>2. CASE key \notin DOMAIN files
    BY <2>2, <1>2
  <2> QED BY <2>1, <2>2
<1> QED BY <1>3 DEF Opened

\* Store: a record at the end of its file, and a part's content in a file.
WithContent(files, r) ==
    IF r.type = "mms_part_data" THEN With(files, MediaFile(r.data), <<r.data>>) ELSE files
Stored(files, r, key) == With(WithContent(files, r), key, Append(At(files, key, <<>>), r))

Noted(s, r, key, t) ==
    /\ t.mmsThreads = IF r.type = "mms" THEN With(s.mmsThreads, r.id, r.thread) ELSE s.mmsThreads
    /\ t.records = With(s.records, key, At(s.records, key, 0) + 1)

\* The content of a part gets its file.
LEMMA WithContentFacts ==
    ASSUME NEW files, NEW r, NEW media, media = WithContent(files, r)
    PROVE  /\ r.type = "mms_part_data" =>
                /\ DOMAIN media = DOMAIN files \cup {MediaFile(r.data)}
                /\ media[MediaFile(r.data)] = <<r.data>>
                /\ \A p \in DOMAIN files : p # MediaFile(r.data) => media[p] = files[p]
           /\ r.type # "mms_part_data" => media = files
PROOF BY DEF WithContent, With

\* The count of a file grows with the file.
LEMMA NotedFacts ==
    ASSUME NEW s, NEW r, NEW key, NEW t, Noted(s, r, key, t)
    PROVE  /\ DOMAIN t.records = DOMAIN s.records \cup {key}
           /\ t.records[key] = At(s.records, key, 0) + 1
           /\ \A p \in DOMAIN s.records : p # key => t.records[p] = s.records[p]
PROOF BY DEF Noted, With

\* segmentRaw's loop: with one record more written where it belongs, all that
\* was read is filed up still.
LEMMA FiledUpOneMore ==
    ASSUME NEW read, IsSeq(read), NEW r, Orderly(Append(read, r)),
           NEW files, NEW s, FiledUp(read, files, s),
           NEW key, key = FileOf(r, s.mmsThreads),
           NEW t, Noted(s, r, key, t)
    PROVE  FiledUp(Append(read, r), Stored(files, r, key), t)
PROOF
<1> DEFINE media == WithContent(files, r)
           after == Stored(files, r, key)
<1> DEFINE T == ThreadsOf(read)
           all == Append(read, r)
           U == ThreadsOf(all)
           old == At(files, key, <<>>)
           file == Append(old, r)
<1>1. s.mmsThreads = T /\ Filing(read, files) /\ Media(read, files) /\ Counts(files, s.records)
  BY DEF FiledUp
<1>2. /\ Orderly(read) /\ r.type \in Types
      /\ U = IF r.type = "mms" THEN With(T, r.id, r.thread) ELSE T
      /\ \A x \in ToSet(read) : x.type \in Types /\ FileOf(x, U) = FileOf(x, T)
      /\ FileOf(r, U) = FileOf(r, T)
      /\ \A p : Filed(all, U, p) =
            IF p = FileOf(r, T) THEN Append(Filed(read, T, p), r) ELSE Filed(read, T, p)
  BY FiledOneMore
<1>3. key = FileOf(r, T) /\ t.mmsThreads = U
  BY <1>1, <1>2 DEF Noted
<1>4. ~ IsMedia(key)
  BY <1>2, <1>3, PathsAre
<1>5. /\ old = Filed(read, T, key) /\ IsSeq(old)
      /\ key \in DOMAIN files => SortedFile(key, old)
      /\ key \notin DOMAIN files => old = <<>>
  BY <1>1, <1>4, FileSoFar
<1>6. SortedFile(key, file)
  BY <1>2, <1>3, <1>5, FileStaysValid
<1>7. ToSet(all) = ToSet(read) \cup {r}
  BY AppendFacts
<1>8. Len(file) = Len(old) + 1
  BY <1>5, AppendFacts
<1>9. /\ DOMAIN after = DOMAIN media \cup {key} /\ after[key] = file
      /\ \A p \in DOMAIN media : p # key => after[p] = media[p]
  <2>1. media = WithContent(files, r) /\ after = Stored(files, r, key) /\ file = Append(At(files, key, <<>>), r)
    OBVIOUS
  <2> HIDE DEF media, after, file
  <2>2. after = With(media, key, file)
    BY <2>1 DEF Stored
  <2> QED BY <2>2 DEF With
<1>10. /\ r.type = "mms_part_data" =>
            /\ DOMAIN media = DOMAIN files \cup {MediaFile(r.data)}
            /\ media[MediaFile(r.data)] = <<r.data>>
            /\ \A p \in DOMAIN files : p # MediaFile(r.data) => media[p] = files[p]
       /\ r.type # "mms_part_data" => media = files
  BY WithContentFacts
<1>11. /\ \A c : IsMedia(MediaFile(c)) /\ MediaFile(c)[2] = c
  BY PathsDiffer
<1> HIDE DEF T, U, all, old, file, media, after
<1>12. Filing(all, after)
  <2>1. ASSUME NEW p \in DOMAIN after, ~ IsMedia(p)
        PROVE  /\ after[p] = Filed(all, U, p)
               /\ \E x \in ToSet(all) : FileOf(x, U) = p
               /\ SortedFile(p, after[p])
    <3>1. CASE p = key
      BY <3>1, <1>2, <1>3, <1>5, <1>6, <1>7, <1>9 DEF file
    <3>2. CASE p # key
      <4>1. p \in DOMAIN files /\ after[p] = files[p]
        BY <3>2, <2>1, <1>9, <1>10, <1>11
      <4>2. /\ files[p] = Filed(read, T, p)
            /\ \E x \in ToSet(read) : FileOf(x, T) = p
            /\ SortedFile(p, files[p])
        BY <4>1, <2>1, <1>1 DEF Filing, T
      <4>3. Filed(all, U, p) = Filed(read, T, p)
        BY <3>2, <1>2, <1>3
      <4> QED BY <4>1, <4>2, <4>3, <1>2, <1>7
    <3> QED BY <3>1, <3>2
  <2>2. ASSUME NEW x \in ToSet(all) PROVE FileOf(x, U) \in DOMAIN after
    <3>1. CASE x = r
      BY <3>1, <1>2, <1>3, <1>9
    <3>2. CASE x \in ToSet(read)
      <4>1. FileOf(x, T) \in DOMAIN files
        BY <3>2, <1>1 DEF Filing, T
      <4> QED BY <4>1, <3>2, <1>2, <1>9, <1>10
    <3> QED BY <3>1, <3>2, <2>2, <1>7
  <2> QED BY <2>1, <2>2 DEF Filing, U
<1>13. Media(all, after)
  <2>1. ASSUME NEW p \in DOMAIN after, IsMedia(p)
        PROVE  /\ after[p] = <<p[2]>>
               /\ \E x \in ToSet(all) : x.type = "mms_part_data" /\ p = MediaFile(x.data)
    <3>1. p # key /\ p \in DOMAIN media /\ after[p] = media[p]
      BY <2>1, <1>4, <1>9
    <3>2. CASE r.type = "mms_part_data" /\ p = MediaFile(r.data)
      BY <3>1, <3>2, <1>7, <1>10, <1>11
    <3>3. CASE ~ (r.type = "mms_part_data" /\ p = MediaFile(r.data))
      <4>1. p \in DOMAIN files /\ media[p] = files[p]
        BY <3>1, <3>3, <1>10
      <4> QED BY <4>1, <3>1, <2>1, <1>1, <1>7 DEF Media
    <3> QED BY <3>2, <3>3
  <2>2. ASSUME NEW x \in ToSet(all), x.type = "mms_part_data" PROVE MediaFile(x.data) \in DOMAIN after
    <3>1. CASE x = r
      BY <3>1, <2>2, <1>9, <1>10
    <3>2. CASE x \in ToSet(read)
      BY <3>2, <2>2, <1>1, <1>9, <1>10 DEF Media
    <3> QED BY <3>1, <3>2, <2>2, <1>7
  <2> QED BY <2>1, <2>2 DEF Media
<1>14. Counts(after, t.records)
  <2>1. /\ DOMAIN s.records = {p \in DOMAIN files : ~ IsMedia(p)}
        /\ \A p \in DOMAIN s.records : s.records[p] = Len(files[p])
    BY <1>1 DEF Counts
  <2>2. /\ DOMAIN t.records = DOMAIN s.records \cup {key}
        /\ t.records[key] = At(s.records, key, 0) + 1
        /\ \A p \in DOMAIN s.records : p # key => t.records[p] = s.records[p]
    BY NotedFacts
  <2>3. {p \in DOMAIN after : ~ IsMedia(p)} = {p \in DOMAIN files : ~ IsMedia(p)} \cup {key}
    BY <1>4, <1>9, <1>10, <1>11
  <2>4. At(s.records, key, 0) = Len(old)
    <3>1. CASE key \in DOMAIN files
      BY <3>1, <1>4, <2>1 DEF At, old
    <3>2. CASE key \notin DOMAIN files
      BY <3>2, <1>5, <2>1, EmptyIsSeq DEF At
    <3> QED BY <3>1, <3>2
  <2>5. t.records[key] = Len(after[key])
    BY <2>2, <2>4, <1>8, <1>9
  <2>6. ASSUME NEW p \in DOMAIN t.records, p # key PROVE t.records[p] = Len(after[p])
    <3>1. p \in DOMAIN s.records /\ p \in DOMAIN files /\ ~ IsMedia(p)
      BY <2>1, <2>2, <2>6
    <3>2. after[p] = files[p]
      BY <3>1, <2>6, <1>9, <1>10, <1>11
    <3> QED BY <3>1, <3>2, <2>1, <2>2, <2>6
  <2> QED BY <2>1, <2>2, <2>3, <2>5, <2>6 DEF Counts
<1> QED BY <1>3, <1>12, <1>13, <1>14 DEF FiledUp, U, all, after

\* Nothing is filed at first.
LEMMA FiledUpAtFirst == FiledUp(<<>>, <<>>, NoSegment)
PROOF
<1>1. DOMAIN <<>> = {} /\ ToSet(<<>>) = {}
  BY EmptyIsSeq
<1>2. NoSegment.mmsThreads = <<>> /\ NoSegment.records = <<>>
  BY DEF NoSegment
<1>3. ThreadsOf(<<>>) = <<>>
  <2> DEFINE T == ThreadsOf(<<>>)
  <2>1. T = [m \in {} |-> (CHOOSE r \in {x \in ToSet(<<>>) : x.type = "mms"} : r.id = m).thread]
    BY <1>1 DEF ThreadsOf
  <2>2. T = [m \in {} |-> T[m]] /\ DOMAIN T = {} /\ 1 .. 0 = {}
    BY <2>1
  <2> HIDE DEF T
  <2>3. IsSeq(T) /\ ToSet(T) = {}
    BY <2>2, RowsAreSeq DEF ToSet
  <2> QED BY <2>3, NothingInIt DEF T
<1> QED BY <1>1, <1>2, <1>3 DEF FiledUp, Filing, Media, Counts

-----------------------------------------------------------------------------
(* What an export makes, once it is sealed.                                *)

\* The files are those that the manifest lists.
Intact(a) ==
    /\ DOMAIN a.files = DOMAIN a.manifest
    /\ \A p \in DOMAIN a.files : a.files[p] = a.manifest[p].sha256

\* As long as it is intact it verifies, and it has lost nothing.
Fine(h, a) == Intact(a) => /\ Verify(a) /\ Lossless(a) /\ Steady(h, a)
                        /\ \A p \in DOMAIN a.files : a.files[p] # <<>>

\* A record that was sent is in its file.
LEMMA IsInItsFile ==
    ASSUME NEW sent, IsSeq(sent), Orderly(sent), NEW files, Filing(sent, files), NEW r \in ToSet(sent)
    PROVE  LET p == FileOf(r, ThreadsOf(sent)) IN
           /\ p \in DOMAIN files /\ ~ IsMedia(p)
           /\ r \in ToSet(files[p]) /\ \E i \in DOMAIN files[p] : files[p][i] = r
PROOF
<1> DEFINE T == ThreadsOf(sent)
           p == FileOf(r, T)
<1>1. r.type \in Types
  <2>1. PICK i \in 1 .. Len(sent) : sent[i] = r
    BY SequenceFacts
  <2> QED BY <2>1 DEF Orderly
<1>2. p \in DOMAIN files /\ ~ IsMedia(p)
  BY <1>1, PathsAre DEF Filing
<1>3. files[p] = Filed(sent, T, p)
  BY <1>2 DEF Filing
<1>4. ToSet(Filed(sent, T, p)) = {x \in ToSet(sent) : FileOf(x, T) = p}
  BY FiledHolds
<1> HIDE DEF p
<1>5. r \in ToSet(files[p])
  BY <1>3, <1>4 DEF p
<1>6. \E i \in DOMAIN files[p] : files[p][i] = r
  BY <1>5 DEF ToSet
<1> QED BY <1>2, <1>5, <1>6 DEF p

\* What is in a file was sent.
LEMMA WasSent ==
    ASSUME NEW sent, IsSeq(sent), NEW files, Filing(sent, files),
           NEW p \in DOMAIN files, ~ IsMedia(p), NEW i \in DOMAIN files[p]
    PROVE  files[p][i] \in ToSet(sent)
PROOF
<1> DEFINE file == files[p]
<1>1. file = Filed(sent, ThreadsOf(sent), p)
  BY DEF Filing
<1>2. ToSet(file) \subseteq ToSet(sent)
  BY <1>1, FiledHolds
<1>3. file[i] \in ToSet(file)
  BY DEF ToSet
<1> QED BY <1>2, <1>3

\* The media files that verification looks for are those that were written.
LEMMA ReferencesAre ==
    ASSUME NEW sent, IsSeq(sent), Orderly(sent), NEW files, Filing(sent, files), Media(sent, files)
    PROVE  References(files) = {p \in DOMAIN files : IsMedia(p)}
PROOF
<1> DEFINE Plain == {q \in DOMAIN files : ~ IsMedia(q)}
           Data(p) == {k \in DOMAIN files[p] : files[p][k].type = "mms_part_data"}
           Of(p) == {MediaFile(files[p][i].data) : i \in Data(p)}
           All == UNION {Of(p) : p \in Plain}
<1>1. References(files) = All
  BY DEF References
<1>2. \A x : x \in All <=> \E p \in Plain : \E i \in Data(p) : x = MediaFile(files[p][i].data)
  OBVIOUS
<1>3. ASSUME NEW x \in All PROVE x \in DOMAIN files /\ IsMedia(x)
  <2>1. PICK p \in Plain : \E i \in Data(p) : x = MediaFile(files[p][i].data)
    BY <1>2
  <2>2. PICK i \in Data(p) : x = MediaFile(files[p][i].data)
    BY <2>1
  <2>3. files[p][i] \in ToSet(sent) /\ files[p][i].type = "mms_part_data"
    BY WasSent
  <2> QED BY <2>2, <2>3, PathsDiffer DEF Media
<1>4. ASSUME NEW x \in DOMAIN files, IsMedia(x) PROVE x \in All
  <2>1. PICK r \in ToSet(sent) : r.type = "mms_part_data" /\ x = MediaFile(r.data)
    BY <1>4 DEF Media
  <2> DEFINE p == FileOf(r, ThreadsOf(sent))
  <2>2. p \in DOMAIN files /\ ~ IsMedia(p) /\ \E i \in DOMAIN files[p] : files[p][i] = r
    BY IsInItsFile
  <2> HIDE DEF p
  <2>3. PICK i \in DOMAIN files[p] : files[p][i] = r
    BY <2>2
  <2>4. p \in Plain /\ i \in Data(p)
    BY <2>1, <2>2, <2>3
  <2> HIDE DEF Plain, Data, All
  <2> QED BY <2>1, <2>3, <2>4, <1>2
<1> HIDE DEF All
<1> QED BY <1>1, <1>3, <1>4

\* A directory that has been filled and sealed is intact, verifies and is whole.
LEMMA WhatIsMade ==
    ASSUME NEW h, NEW at, NEW a, SentUpTo(h, at, a, 9), NEW s, FiledUp(a.sent, a.files, s),
           NEW b, b.sealed, b.manifest = Manifest(a.files, s.records), b.files = a.files,
           b.sent = a.sent, b.from = a.from, b.until = a.until
    PROVE  Intact(b) /\ Fine(h, b)
PROOF
<1> DEFINE sent == a.sent
           files == a.files
           T == ThreadsOf(sent)
           n == Len(sent)
<1>1. /\ IsSeq(sent) /\ Orderly(sent)
      /\ a.from \in 1 .. at /\ a.until \in a.from .. at
      /\ sent # <<>> /\ sent[1].type = "metadata"
      /\ \E i \in a.from .. a.until : HasMms(h[i], sent)
      /\ \E i \in a.from .. a.until : HasParts(h[i], sent)
      /\ sent[n].type = "summary"
  BY DEF SentUpTo
<1>2. Filing(sent, files) /\ Media(sent, files) /\ Counts(files, s.records)
  BY DEF FiledUp
<1>3. n \in Nat /\ n # 0 /\ DOMAIN sent = 1 .. n
  BY <1>1, SequenceFacts, EmptySeq DEF IsSeq
<1>4. sent[1] \in ToSet(sent) /\ sent[n] \in ToSet(sent)
  BY <1>3 DEF ToSet
<1>5. /\ b.sealed /\ b.manifest = Manifest(files, s.records) /\ b.files = files
      /\ b.sent = sent /\ b.from = a.from /\ b.until = a.until
  OBVIOUS
<1> HIDE DEF sent, files, n
<1>6. /\ DOMAIN b.manifest = DOMAIN files
      /\ \A p \in DOMAIN files : /\ b.manifest[p].sha256 = files[p]
                                 /\ b.manifest[p].records = At(s.records, p, 0)
  BY <1>5 DEF Manifest
<1>7. Intact(b)
  BY <1>5, <1>6 DEF Intact
<1>8. ASSUME NEW p \in DOMAIN files, IsMedia(p)
      PROVE  files[p] = <<p[2]>> /\ files[p] # <<>>
  <2>1. files[p] = <<p[2]>>
    BY <1>2, <1>8 DEF Media
  <2> QED BY <2>1
<1>9. ASSUME NEW p \in DOMAIN files, ~ IsMedia(p)
      PROVE  /\ Len(files[p]) = At(s.records, p, 0) /\ SortedFile(p, files[p])
             /\ files[p] # <<>> /\ files[p] = Filed(sent, T, p)
  <2>1. Len(files[p]) = At(s.records, p, 0)
    BY <1>2, <1>9 DEF Counts, At
  <2>2. SortedFile(p, files[p]) /\ files[p] = Filed(sent, T, p) /\ \E r \in ToSet(sent) : FileOf(r, T) = p
    BY <1>2, <1>9 DEF Filing
  <2>3. ToSet(files[p]) # {}
    BY <2>2, <1>1, FiledHolds
  <2> QED BY <2>1, <2>2, <2>3, EmptyIsSeq
<1>10. ASSUME NEW p \in DOMAIN files, ~ IsMedia(p)
       PROVE  IF IsThread(p) THEN ThreadIsValid(files[p], p[2]) ELSE GlobalIsValid(p, files[p])
  <2>1. CASE IsThread(p)
    BY <2>1, <1>9, <1>10 DEF SortedFile
  <2>2. CASE ~ IsThread(p) /\ p = Metadata
    <3>1. HasType(files[p], {"metadata", "summary"})
      BY <2>2, <1>9, <1>10, PathsDiffer DEF SortedFile
    <3>2. FileOf(sent[1], T) = p /\ FileOf(sent[n], T) = p
      <4>1. sent[1].type \in Types /\ sent[n].type \in Types
        BY <1>1 DEF Types
      <4> QED BY <4>1, <2>2, <1>1, PathsAre
    <3>3. \E i \in DOMAIN files[p] : files[p][i] = sent[1]
      BY <3>2, <1>1, <1>2, <1>4, IsInItsFile
    <3>4. \E i \in DOMAIN files[p] : files[p][i] = sent[n]
      BY <3>2, <1>1, <1>2, <1>4, IsInItsFile
    <3>5. \A type \in {"metadata", "summary"} : \E i \in DOMAIN files[p] : files[p][i].type = type
      BY <3>3, <3>4, <1>1
    <3> QED BY <3>1, <3>5, <2>2, PathsDiffer DEF GlobalIsValid
  <2>3. CASE ~ IsThread(p) /\ p = CanonicalAddresses
    BY <2>3, <1>9, <1>10, PathsDiffer DEF SortedFile, GlobalIsValid
  <2>4. CASE ~ IsThread(p) /\ p = Orphaned
    BY <2>4, <1>9, <1>10, PathsDiffer DEF SortedFile, GlobalIsValid
  <2> QED BY <2>1, <2>2, <2>3, <2>4, <1>9, <1>10 DEF SortedFile
<1>11. Verify(b)
  <2>1. References(files) = {p \in DOMAIN files : IsMedia(p)}
    BY <1>1, <1>2, ReferencesAre
  <2> QED BY <2>1, <1>5, <1>6, <1>8, <1>9, <1>10 DEF Verify
<1>12. Lossless(b)
  <2>1. Last(sent).type = "summary"
    BY <1>1 DEF Last, n
  <2>2. \A i \in DOMAIN sent : FileOf(sent[i], T) \in DOMAIN files
    BY <1>2 DEF Filing, ToSet
  <2> QED BY <2>1, <2>2, <1>1, <1>5, <1>9 DEF Lossless
<1>13. Steady(h, b)
  <2> DEFINE states == {h[i] : i \in a.from .. a.until}
             first == h[a.from]
  <2>1. PICK i \in a.from .. a.until : HasMms(h[i], sent)
    BY <1>1
  <2>2. PICK k \in a.from .. a.until : HasParts(h[k], sent)
    BY <1>1
  <2>3. h[i] \in states /\ h[k] \in states
    OBVIOUS
  <2>4. ASSUME NEW m \in ToSet(first.mms), \A x \in states : m \in ToSet(x.mms)
        PROVE  LET p == ThreadFile(m.thread) IN
               /\ p \in DOMAIN files
               /\ Record("mms", m.thread, m.id, 0, 0) \in ToSet(files[p])
               /\ \A r \in ToSet(sent) : (r.type \in OfMms /\ r.mms = m.id) => r \in ToSet(files[p])
    <3> DEFINE p == ThreadFile(m.thread)
               mms == Record("mms", m.thread, m.id, 0, 0)
    <3>1. mms \in ToSet(sent)
      BY <2>1, <2>3, <2>4 DEF HasMms
    <3>2. mms.type = "mms" /\ mms.id = m.id /\ mms.thread = m.thread
      BY DEF Record
    <3> HIDE DEF mms
    <3>3. mms.type \in Types /\ mms.type \in OfThread
      BY <3>2 DEF Types, OfThread
    <3>4. FileOf(mms, T) = p
      BY <3>2, <3>3, PathsAre
    <3>5. p \in DOMAIN files /\ mms \in ToSet(files[p])
      BY <3>1, <3>4, <1>1, <1>2, IsInItsFile
    <3>6. ASSUME NEW r \in ToSet(sent), r.type \in OfMms, r.mms = m.id PROVE r \in ToSet(files[p])
      <4>1. m.id \in DOMAIN T /\ T[m.id] = m.thread
        <5>1. DOMAIN T = {y.id : y \in {r0 \in ToSet(sent) : r0.type = "mms"}}
          BY <1>1, ThreadsKnow
        <5>2. \A y \in ToSet(sent) : y.type = "mms" => T[y.id] = y.thread
          BY <1>1, ThreadsKnow
        <5> QED BY <5>1, <5>2, <3>1, <3>2
      <4>2. r.type \in Types
        BY <3>6 DEF Types, OfMms
      <4>3. FileOf(r, T) = p
        BY <4>1, <4>2, <3>6, PathsAre
      <4> QED BY <4>3, <1>1, <1>2, IsInItsFile
    <3> QED BY <3>5, <3>6 DEF mms
  <2>5. ASSUME NEW part \in ToSet(first.parts), \A x \in states : part \in ToSet(x.parts),
               NEW r \in ToSet(PartRows(part))
        PROVE  r \in ToSet(sent) /\ r.type \in OfMms /\ r.mms = part.mms
    <3>1. r \in ToSet(sent)
      BY <2>2, <2>3, <2>5 DEF HasParts
    <3> QED BY <3>1, PartRowsAre DEF OfMms
  <2> HIDE DEF states, first
  <2>6. ASSUME NEW m \in ToSet(first.mms), \A x \in states : m \in ToSet(x.mms)
        PROVE  /\ ThreadFile(m.thread) \in DOMAIN files
               /\ LET file == ToSet(files[ThreadFile(m.thread)]) IN
                  /\ Record("mms", m.thread, m.id, 0, 0) \in file
                  /\ \A part \in ToSet(first.parts) :
                        (part.mms = m.id /\ \A x \in states : part \in ToSet(x.parts))
                        => ToSet(PartRows(part)) \subseteq file
    BY <2>4, <2>5, <2>6
  <2> QED BY <2>6, <1>5 DEF Steady, states, first
<1>14. \A p \in DOMAIN files : files[p] # <<>>
  BY <1>8, <1>9
<1> QED BY <1>5, <1>7, <1>11, <1>12, <1>13, <1>14 DEF Fine

-----------------------------------------------------------------------------
(* The files that are open.                                                *)

\* A set of positions has a first one.
LEMMA HasFirst ==
    ASSUME NEW n \in Nat, NEW I, I \subseteq 1 .. n, I # {}
    PROVE  Min(I) \in I
PROOF
<1> DEFINE Below == {ss \in Nat \X Nat : ss[1] < ss[2]}
<1>1. IsWellFoundedOn(Below, Nat)
  <2>1. OpToRel(<, Nat) = Below
    BY DEF OpToRel
  <2> QED BY <2>1, NatLessThanWellFounded
<1>2. I \subseteq Nat
  OBVIOUS
<1>3. \E x \in I : \A y \in I : <<y, x>> \notin Below
  <2> HIDE DEF Below
  <2> QED BY <1>1, <1>2, WFMin
<1>4. ASSUME NEW x \in I, NEW y \in I, <<y, x>> \notin Below PROVE x <= y
  <2>1. <<y, x>> \in Nat \X Nat /\ x \in Nat /\ y \in Nat
    BY <1>2
  <2>2. ~ (y < x)
    BY <2>1, <1>4
  <2> QED BY <2>1, <2>2
<1>5. \E x \in I : \A y \in I : x <= y
  <2> HIDE DEF Below
  <2> QED BY <1>3, <1>4
<1> QED BY <1>5 DEF Min

\* At most MaxOpenFiles files are open, whatever is used next.
LEMMA UsedIsBounded ==
    ASSUME NEW recent, IsSeq(recent), Len(recent) <= MaxOpenFiles, NEW key
    PROVE  IsSeq(Used(recent, key)) /\ Len(Used(recent, key)) <= MaxOpenFiles
PROOF
<1> DEFINE n == Len(recent)
           S == ToSet(recent)
<1>1. n \in Nat /\ recent \in Seq(S) /\ MaxOpenFiles \in Nat /\ MaxOpenFiles # 0 /\ n <= MaxOpenFiles
  BY SequenceFacts, LimitAssumption DEF IsSeq
<1>2. IsSeq(<<key>>) /\ Len(<<key>>) = 1
  BY OneRow
<1> HIDE DEF S
<1>3. CASE Contains(recent, key)
  <2> DEFINE I == {i \in 1 .. n : recent[i] = key}
             m == Min(I)
             left == SubSeq(recent, 1, m - 1)
             right == SubSeq(recent, m + 1, n)
  <2>1. I # {} /\ \E i \in 1 .. n : recent[i] = key
    BY <1>3 DEF Contains
  <2>2. m \in 1 .. n
    BY <2>1, <1>1, HasFirst
  <2>3. SelectInSeq(recent, LAMBDA v : v = key) = m
    BY <2>1 DEF SelectInSeq
  <2>4. RemoveFirst(recent, key) = left \o right
    BY <2>1, <2>3 DEF RemoveFirst, RemoveAt
  <2> HIDE DEF m
  <2>5. left \in Seq(S) /\ Len(left) = m - 1
    BY <1>1, <2>2, SubSeqProperties
  <2>6. right \in Seq(S) /\ Len(right) = n - m
    BY <1>1, <2>2, SubSeqProperties
  <2>7. IsSeq(left) /\ IsSeq(right)
    BY <2>5, <2>6, SequenceOfSet
  <2> HIDE DEF left, right
  <2>8. IsSeq(left \o right) /\ Len(left \o right) = n - 1
    <3>1. IsSeq(left \o right) /\ Len(left \o right) = Len(left) + Len(right)
      BY <2>7, ConcatFacts
    <3>2. (m - 1) + (n - m) = n - 1
      BY <1>1, <2>2
    <3> QED BY <3>1, <3>2, <2>5, <2>6
  <2>9. IsSeq(<<key>> \o (left \o right)) /\ Len(<<key>> \o (left \o right)) = n
    BY <1>1, <1>2, <2>8, ConcatFacts
  <2>10. Used(recent, key) = <<key>> \o (left \o right)
    BY <1>3, <2>4 DEF Used
  <2> QED BY <2>9, <2>10, <1>1
<1>4. CASE ~ Contains(recent, key)
  <2> DEFINE rest == IF n >= MaxOpenFiles THEN Front(recent) ELSE recent
  <2>1. IsSeq(rest) /\ Len(rest) <= MaxOpenFiles - 1
    <3>1. CASE n >= MaxOpenFiles
      <4>1. Front(recent) \in Seq(S) /\ Len(Front(recent)) = n - 1
        <5>1. n - 1 \in Int /\ 1 \in Int /\ \A i \in 1 .. n - 1 : recent[i] \in S
          BY <1>1
        <5>2. SubSeq(recent, 1, n - 1) \in Seq(S)
              /\ Len(SubSeq(recent, 1, n - 1)) = IF 1 <= n - 1 THEN (n - 1) - 1 + 1 ELSE 0
          BY <5>1, SubSeqProperties
        <5>3. n >= 1
          BY <1>1, <3>1
        <5>4. Front(recent) = SubSeq(recent, 1, n - 1)
          BY DEF Front
        <5> HIDE DEF n
        <5>5. (IF 1 <= n - 1 THEN (n - 1) - 1 + 1 ELSE 0) = n - 1
          BY <1>1, <5>3
        <5> QED BY <5>2, <5>4, <5>5
      <4> QED BY <4>1, <3>1, <1>1, SequenceOfSet
    <3>2. CASE ~ (n >= MaxOpenFiles)
      BY <3>2, <1>1
    <3> QED BY <3>1, <3>2
  <2>2. Used(recent, key) = <<key>> \o rest
    BY <1>4 DEF Used
  <2> HIDE DEF rest
  <2>3. IsSeq(<<key>> \o rest) /\ Len(<<key>> \o rest) = 1 + Len(rest) /\ Len(rest) \in Nat
    BY <1>2, <2>1, ConcatFacts, SequenceFacts
  <2> QED BY <2>1, <2>2, <2>3, <1>1
<1> QED BY <1>3, <1>4

-----------------------------------------------------------------------------
(* The inductive invariant.                                                *)

Fields == {"sealed", "manifest", "files", "by", "sent", "from", "until", "checked"}

Pcs == {"idle", "reading", "waiting", "manifest", "verifying", "preserving", "placing",
        "restoring", "checking", "rolling back", "removing", "done", "failed", "dead"}

Filling == {"reading", "waiting", "manifest"}
Sealed  == {"verifying", "preserving", "placing"}

\* An archive that an export has sealed is fine, and intact unless the disk has
\* lost a file; one of an earlier day is lossless if it verifies.
Sound(h, lost, a) ==
    /\ DOMAIN a = Fields
    /\ a.by \in Exporter /\ a.sealed => Fine(h, a) /\ (~ lost => Intact(a))
    /\ a.by \notin Exporter /\ Verify(a) => Lossless(a)

Typed ==
    /\ history \in Histories /\ now \in 1 .. Len(history)
    /\ DOMAIN pc = Exporter /\ DOMAIN helper = Exporter /\ DOMAIN pipe = Exporter
    /\ DOMAIN segment = Exporter /\ DOMAIN had = Exporter /\ DOMAIN result = Exporter
    /\ DOMAIN trouble = Exporter

AllSound == \A d \in DOMAIN dir : Sound(history, decayed, dir[d])

HelperIs(h) ==
    /\ DOMAIN h = {"state", "query", "ids"}
    /\ h.state \in {"none", "running", "exited", "failed"}
    /\ h.query \in 0 .. 9 /\ IsSeq(h.ids)
    /\ h.state = "running" => h.query # 0

\* What an exporter can rely on about its own helper, directories and result.
Own(e) ==
    /\ pc[e] \in Pcs /\ HelperIs(helper[e])
    /\ IsSeq(pipe[e]) /\ IsSeq(segment[e].recent) /\ Len(segment[e].recent) <= MaxOpenFiles
    /\ helper[e].state = "running" => pc[e] \in {"reading", "waiting"}
    /\ helper[e].state = "failed" => trouble[e]
    /\ result[e] = "ok" <=> pc[e] = "done"
    /\ pc[e] \in Filling \cup Sealed =>
          /\ Tmp(e) \in DOMAIN dir /\ dir[Tmp(e)].by = e
          /\ dir[Tmp(e)].sealed <=> pc[e] \in Sealed
    /\ pc[e] \in {"idle", "checking", "rolling back", "removing", "done", "failed"} =>
          Tmp(e) \notin DOMAIN dir
    /\ Old(e) \in DOMAIN dir =>
          e \in forced /\ pc[e] \notin {"idle", "preserving"} \cup Filling \cup {"verifying"}
    /\ pc[e] = "preserving" => e \in forced
    /\ pc[e] = "idle" => segment[e] = NoSegment /\ pipe[e] = <<>>

\* What has been sent has been filed, or is still in the pipe.
Flows(h, n, a, read, pending, s, q) ==
    /\ IsSeq(read) /\ a.sent = read \o pending
    /\ SentUpTo(h, n, a, q) /\ FiledUp(read, a.files, s)

Stream(e) ==
    /\ pc[e] = "reading" =>
          \E read : Flows(history, now, dir[Tmp(e)], read, pipe[e], segment[e], helper[e].query)
    /\ pc[e] = "waiting" => helper[e].query = 9 /\ pipe[e] = <<>>
    /\ pc[e] \in {"waiting", "manifest"} =>
          SentUpTo(history, now, dir[Tmp(e)], 9) /\ FiledUp(dir[Tmp(e)].sent, dir[Tmp(e)].files, segment[e])

\* An export on its own.
Mine(e) == Exists(Destination) /\ dir[Destination].by = e

Alone(e) ==
    /\ Exists(Old(e)) => dir[Old(e)].by # e
    /\ pc[e] \in {"idle", "preserving", "verifying"} \cup Filling => ~ Mine(e)
    /\ pc[e] \in {"verifying"} \cup Filling /\ e \notin forced => ~ Exists(Destination)
    /\ pc[e] \in {"placing", "restoring"} => ~ Exists(Destination)
    /\ pc[e] \in {"checking", "rolling back", "removing", "done"} => Mine(e)
    /\ pc[e] = "checking" => dir[Destination].sealed
    /\ pc[e] \in {"removing", "done"} => Good(Destination)
    /\ pc[e] = "rolling back" => decayed
    /\ pc[e] = "restoring" => trouble[e] \/ decayed
    /\ pc[e] = "failed" => /\ trouble[e] \/ decayed \/ result[e] = "refused"
                           /\ Mine(e) => trouble[e]

OnItsOwn(e) == \A o \in Exporter \ {e} : pc[o] = "idle"

\* A good archive that nobody is about to remove.
Firm ==
    \/ Secure(Destination)
    \/ \E w \in Exporter : Secure(Old(w)) /\ pc[w] # "removing"

ExportInv == Typed /\ AllSound /\ \A e \in Exporter : Own(e) /\ Stream(e)
AloneInv  == \A e \in Exporter : OnItsOwn(e) => Alone(e)
KeptInv   == (\E e \in Exporter : pc[e] = "removing") => Firm \/ taken

-----------------------------------------------------------------------------
(* What one exporter leaves alone.                                         *)

\* The temporary and the old directory of an exporter are its own.
LEMMA DirectoriesDiffer ==
    /\ \A e : Destination # Tmp(e) /\ Destination # Old(e)
    /\ \A e, o : Tmp(e) # Old(o)
    /\ \A e, o : Tmp(e) = Tmp(o) \/ Old(e) = Old(o) => e = o
PROOF BY DEF Destination, Tmp, Old

Same(d) == (d \in DOMAIN dir' <=> d \in DOMAIN dir) /\ (d \in DOMAIN dir => dir'[d] = dir[d])

Gone(d) == d \notin DOMAIN dir'

Moved(from, to) == from \in DOMAIN dir /\ to \in DOMAIN dir' /\ dir'[to] = dir[from]

\* Another exporter's entry of f is what it was.
Touches(f, g, e) == DOMAIN g = DOMAIN f /\ \A o \in Exporter : o # e => g[o] = f[o]

Elsewhere(e) == \A d : d \notin {Destination, Tmp(e), Old(e)} => Same(d)

\* A step of e: its own entries, its directories and the destination.
StepOf(e) ==
    /\ history' = history /\ now' = now /\ forced' = forced
    /\ Touches(pc, pc', e) /\ Touches(helper, helper', e) /\ Touches(pipe, pipe', e)
    /\ Touches(segment, segment', e) /\ Touches(had, had', e) /\ Touches(result, result', e)
    /\ Touches(trouble, trouble', e)
    /\ Elsewhere(e)

\* An update of one exporter's entry touches no other's.
LEMMA Touching ==
    ASSUME NEW f, DOMAIN f = Exporter, NEW e \in Exporter, NEW g
    PROVE  /\ g = f => Touches(f, g, e) /\ g[e] = f[e]
           /\ \A x : g = [f EXCEPT ![e] = x] => Touches(f, g, e) /\ g[e] = x
PROOF BY DEF Touches

\* The command ends, and its temporary directory is gone.
LEMMA Ending ==
    ASSUME Typed, NEW e \in Exporter, NEW says, NEW directories, End(e, directories, says)
    PROVE  /\ Touches(pc, pc', e) /\ pc'[e] = "failed"
           /\ Touches(result, result', e) /\ result'[e] = says
           /\ Gone(Tmp(e))
           /\ dir' = Without(directories, Tmp(e))
PROOF
<1>1. DOMAIN pc = Exporter /\ DOMAIN result = Exporter
  BY DEF Typed
<1>2. pc' = [pc EXCEPT ![e] = "failed"] /\ result' = [result EXCEPT ![e] = says] /\ dir' = Without(directories, Tmp(e))
  BY DEF End, Goto
<1>3. Gone(Tmp(e))
  BY <1>2 DEF Without, Gone
<1> QED BY <1>1, <1>2, <1>3, Touching

\* Only the temporary directory goes.
OnlyTmp(e) == \A d : d # Tmp(e) => Same(d)

\* The same, when no directory was moved.
LEMMA EndingHere ==
    ASSUME Typed, NEW e \in Exporter, NEW says, End(e, dir, says)
    PROVE  /\ Touches(pc, pc', e) /\ pc'[e] = "failed"
           /\ Touches(result, result', e) /\ result'[e] = says
           /\ Gone(Tmp(e)) /\ OnlyTmp(e)
PROOF
<1>1. dir' = Without(dir, Tmp(e))
  BY Ending
<1>3. Touches(pc, pc', e) /\ pc'[e] = "failed" /\ Gone(Tmp(e))
  BY Ending
<1>4. Touches(result, result', e) /\ result'[e] = says
  BY Ending
<1>2. OnlyTmp(e)
  BY <1>1 DEF OnlyTmp, Same, Without
<1> QED BY <1>2, <1>3, <1>4

\* The temporary directory is neither the destination nor an old archive.
LEMMA OnlyTmpIsMine ==
    ASSUME NEW e \in Exporter
    PROVE  /\ OnlyTmp(e) => Elsewhere(e) /\ Same(Destination) /\ Same(Old(e))
           /\ dir' = dir => OnlyTmp(e) /\ Same(Tmp(e))
PROOF BY DirectoriesDiffer DEF OnlyTmp, Elsewhere, Same

\* No exporter disturbs what another one relies on about its own directories.
LEMMA OthersKeepTheirs ==
    ASSUME ExportInv, NEW e \in Exporter, StepOf(e), NEW o \in Exporter, o # e
    PROVE  Own(o)' /\ Stream(o)'
PROOF
<1>1. Own(o) /\ Stream(o)
  BY DEF ExportInv
<1>2. /\ pc'[o] = pc[o] /\ helper'[o] = helper[o] /\ pipe'[o] = pipe[o] /\ segment'[o] = segment[o]
      /\ result'[o] = result[o] /\ trouble'[o] = trouble[o]
      /\ history' = history /\ now' = now /\ forced' = forced
  BY DEF StepOf, Touches
<1>3. Same(Tmp(o)) /\ Same(Old(o))
  BY DirectoriesDiffer DEF StepOf, Elsewhere
<1>4. Own(o)'
  BY <1>1, <1>2, <1>3 DEF Own, Same
<1>5. Stream(o)'
  <2>1. pc[o] \in Filling => Tmp(o) \in DOMAIN dir
    BY <1>1 DEF Own
  <2>2. pc[o] \in Filling => dir'[Tmp(o)] = dir[Tmp(o)]
    BY <2>1, <1>3 DEF Same
  <2> QED BY <1>1, <1>2, <2>2 DEF Stream, Filling
<1> QED BY <1>4, <1>5

-----------------------------------------------------------------------------
(* What a step of an exporter keeps.                                       *)

AloneStep(e) == OnItsOwn(e) /\ Alone(e) => Alone(e)'

FirmStep(e) ==
    /\ Firm => Firm' \/ taken'
    /\ taken => taken'
    /\ pc'[e] = "removing" => pc[e] = "removing" \/ Firm'

Keeps(e) == StepOf(e) /\ AllSound' /\ Own(e)' /\ Stream(e)' /\ AloneStep(e) /\ FirmStep(e)

\* Archives that only move stay what they are.
LEMMA SoundStays ==
    ASSUME AllSound, history' = history, decayed' = decayed,
           \A d \in DOMAIN dir' : \E x \in DOMAIN dir : dir'[d] = dir[x]
    PROVE  AllSound'
PROOF BY DEF AllSound

\* Archives stay sound when one temporary directory stays or goes.
LEMMA SameIsSound ==
    ASSUME AllSound, history' = history, decayed' = decayed, NEW e,
           OnlyTmp(e), Same(Tmp(e)) \/ Gone(Tmp(e))
    PROVE  AllSound'
PROOF
<1>1. ASSUME NEW d \in DOMAIN dir' PROVE d \in DOMAIN dir /\ dir'[d] = dir[d]
  BY DEF OnlyTmp, Same, Gone
<1> QED BY <1>1, SoundStays

\* One directory gets new contents.
LEMMA NewIsSound ==
    ASSUME AllSound, history' = history, decayed' = decayed, NEW e,
           OnlyTmp(e), Sound(history, decayed, dir'[Tmp(e)])
    PROVE  AllSound'
PROOF
<1>1. ASSUME NEW d \in DOMAIN dir' PROVE Sound(history, decayed, dir'[d])
  <2>1. CASE d = Tmp(e)
    BY <2>1
  <2>2. CASE d # Tmp(e)
    BY <2>2 DEF OnlyTmp, Same, AllSound
  <2> QED BY <2>1, <2>2
<1> QED BY <1>1 DEF AllSound

\* What is not touched stays secure.
LEMMA SecureStays == ASSUME NEW d, Same(d) PROVE Secure(d) => Secure(d)'
PROOF BY DEF Same, Secure, Good, Exists

\* Nobody touches what is firm.
LEMMA FirmStays ==
    ASSUME NEW e \in Exporter, StepOf(e), Same(Destination), Same(Old(e)),
           pc'[e] = "removing" => pc[e] = "removing", taken' = taken
    PROVE  FirmStep(e)
PROOF
<1>1. \A w \in Exporter : Same(Old(w))
  BY DirectoriesDiffer DEF StepOf, Elsewhere
<1>2. \A w \in Exporter : pc[w] # "removing" => pc'[w] # "removing"
  BY DEF StepOf, Touches
<1>3. Firm => Firm'
  <2>1. Secure(Destination) => Firm'
    BY SecureStays DEF Firm
  <2>2. ASSUME NEW w \in Exporter, Secure(Old(w)), pc[w] # "removing" PROVE Firm'
    <3>1. Secure(Old(w))' /\ pc'[w] # "removing"
      BY <1>1, <1>2, <2>2, SecureStays
    <3> QED BY <3>1 DEF Firm
  <2> QED BY <2>1, <2>2 DEF Firm
<1> QED BY <1>3 DEF FirmStep

\* An export that ends without having moved anything.
LEMMA EndsWell ==
    ASSUME ExportInv, NEW e \in Exporter, NEW says, says # "ok", End(e, dir, says),
           history' = history, now' = now, forced' = forced, segment' = segment, had' = had,
           decayed' = decayed, taken' = taken,
           Touches(helper, helper', e), Touches(pipe, pipe', e), Touches(trouble, trouble', e),
           HelperIs(helper'[e]), helper'[e].state # "running", IsSeq(pipe'[e]),
           helper'[e].state = "failed" => trouble'[e],
           OnItsOwn(e) /\ Alone(e) =>
               /\ trouble'[e] \/ decayed \/ says = "refused"
               /\ Mine(e) => trouble'[e]
    PROVE  Keeps(e)
PROOF
<1>1. Typed /\ Own(e) /\ AllSound
  BY DEF ExportInv
<1>2. /\ Touches(pc, pc', e) /\ pc'[e] = "failed"
      /\ Touches(result, result', e) /\ result'[e] = says
      /\ Gone(Tmp(e)) /\ OnlyTmp(e)
  BY <1>1, EndingHere
<1>3. Elsewhere(e) /\ Same(Destination) /\ Same(Old(e))
  BY <1>2, OnlyTmpIsMine
<1>4. StepOf(e)
  <2>1. Touches(segment, segment', e) /\ Touches(had, had', e)
    BY DEF Touches
  <2> QED BY <2>1, <1>2, <1>3 DEF StepOf
<1>5. AllSound'
  BY <1>1, <1>2, SameIsSound
<1>6. Own(e)'
  BY <1>1, <1>2, <1>3 DEF Own, Same, Gone, Pcs, Filling, Sealed
<1>7. Stream(e)'
  BY <1>2 DEF Stream
<1>8. AloneStep(e)
  <2> SUFFICES ASSUME OnItsOwn(e), Alone(e) PROVE Alone(e)'
    BY DEF AloneStep
  <2> QED BY <1>2, <1>3 DEF Alone, Mine, Exists, Same, Filling
<1>9. FirmStep(e)
  BY <1>2, <1>3, <1>4, FirmStays
<1> QED BY <1>4, <1>5, <1>6, <1>7, <1>8, <1>9 DEF Keeps

\* Every exporter has its entry; to leave a variable alone touches nobody.
LEMMA DomainsAre ==
    ASSUME Typed
    PROVE  /\ DOMAIN pc = Exporter /\ DOMAIN helper = Exporter /\ DOMAIN pipe = Exporter
           /\ DOMAIN segment = Exporter /\ DOMAIN had = Exporter /\ DOMAIN result = Exporter
           /\ DOMAIN trouble = Exporter
           /\ \A e : /\ Touches(pc, pc, e) /\ Touches(helper, helper, e) /\ Touches(pipe, pipe, e)
                     /\ Touches(segment, segment, e) /\ Touches(had, had, e)
                     /\ Touches(result, result, e) /\ Touches(trouble, trouble, e)
PROOF BY DEF Typed, Touches

\* A step that leaves all directories alone.
LEMMA StaysPut ==
    ASSUME ExportInv, NEW e \in Exporter, dir' = dir,
           history' = history, now' = now, forced' = forced, decayed' = decayed, taken' = taken,
           Touches(pc, pc', e), Touches(helper, helper', e), Touches(pipe, pipe', e),
           Touches(segment, segment', e), Touches(had, had', e), Touches(result, result', e),
           Touches(trouble, trouble', e),
           pc'[e] = "removing" => pc[e] = "removing",
           Own(e)', Stream(e)', AloneStep(e)
    PROVE  Keeps(e)
PROOF
<1>1. OnlyTmp(e) /\ Same(Tmp(e)) /\ Elsewhere(e) /\ Same(Destination) /\ Same(Old(e))
  BY OnlyTmpIsMine
<1>2. StepOf(e)
  BY <1>1 DEF StepOf
<1>3. AllSound'
  BY <1>1, SameIsSound DEF ExportInv
<1>4. FirmStep(e)
  BY <1>1, <1>2, FirmStays
<1> QED BY <1>2, <1>3, <1>4 DEF Keeps

\* An export that fails while it reads.
LEMMA AbortsKeeps ==
    ASSUME ExportInv, NEW e \in Exporter, Aborts(e) PROVE Keeps(e)
PROOF
<1>1. Typed /\ Own(e)
  BY DEF ExportInv
<1>2. /\ End(e, dir, "failed") /\ trouble' = [trouble EXCEPT ![e] = TRUE]
      /\ helper' = [helper EXCEPT ![e] = NoHelper] /\ pipe' = [pipe EXCEPT ![e] = <<>>]
      /\ history' = history /\ now' = now /\ forced' = forced /\ segment' = segment /\ had' = had
      /\ decayed' = decayed /\ taken' = taken
  BY DEF Aborts, Trouble, phone, mishaps
<1>3. /\ Touches(helper, helper', e) /\ helper'[e] = NoHelper
      /\ Touches(pipe, pipe', e) /\ pipe'[e] = <<>>
      /\ Touches(trouble, trouble', e) /\ trouble'[e] = TRUE
  BY <1>1, <1>2, DomainsAre, Touching
<1>4. HelperIs(NoHelper) /\ NoHelper.state = "none"
  BY EmptyIsSeq DEF HelperIs, NoHelper
<1> QED BY <1>2, <1>3, <1>4, EmptyIsSeq, EndsWell

\* An export whose stream ends without a summary.
LEMMA EndOfStreamKeeps ==
    ASSUME ExportInv, NEW e \in Exporter, EndOfStream(e) PROVE Keeps(e)
PROOF
<1>1. Typed /\ Own(e)
  BY DEF ExportInv
<1>2. /\ helper[e].state = "failed" /\ End(e, dir, "failed")
      /\ trouble' = trouble /\ helper' = helper /\ pipe' = pipe
      /\ history' = history /\ now' = now /\ forced' = forced /\ segment' = segment /\ had' = had
      /\ decayed' = decayed /\ taken' = taken
  BY DEF EndOfStream, phone, stream, mishaps
<1>3. /\ Touches(helper, helper', e) /\ Touches(pipe, pipe', e) /\ Touches(trouble, trouble', e)
  BY <1>1, <1>2, DomainsAre
<1>4. HelperIs(helper[e]) /\ IsSeq(pipe[e]) /\ trouble[e]
  BY <1>1, <1>2 DEF Own
<1> QED BY <1>2, <1>3, <1>4, EndsWell

\* The helper is done.
LEMMA HelperExitsKeeps ==
    ASSUME ExportInv, NEW e \in Exporter, HelperExits(e) PROVE Keeps(e)
PROOF
<1>1. Typed /\ Own(e) /\ Stream(e)
  BY DEF ExportInv
<1> DEFINE h == [helper[e] EXCEPT !.state = "exited"]
<1>2. /\ helper[e].state = "running" /\ helper' = [helper EXCEPT ![e] = h]
      /\ pc' = pc /\ dir' = dir /\ pipe' = pipe /\ segment' = segment
      /\ had' = had /\ result' = result /\ trouble' = trouble
      /\ history' = history /\ now' = now /\ forced' = forced
      /\ decayed' = decayed /\ taken' = taken
  BY DEF HelperExits, phone, outcome, mishaps
<1>3. Touches(helper, helper', e) /\ helper'[e] = h
  <2> HIDE DEF h
  <2> QED BY <1>1, <1>2, DomainsAre, Touching
<1>4. HelperIs(h) /\ h.state = "exited" /\ h.query = helper[e].query
  BY <1>1 DEF Own, HelperIs
<1> HIDE DEF h
<1>5. Own(e)'
  BY <1>1, <1>2, <1>3, <1>4 DEF Own
<1>6. Stream(e)'
  BY <1>1, <1>2, <1>3, <1>4 DEF Stream
<1>7. AloneStep(e)
  BY <1>2 DEF AloneStep, Alone, Mine, Exists, Good
<1>8. /\ Touches(pc, pc', e) /\ Touches(pipe, pipe', e) /\ Touches(segment, segment', e)
      /\ Touches(had, had', e) /\ Touches(result, result', e) /\ Touches(trouble, trouble', e)
  BY <1>1, <1>2, DomainsAre
<1> QED BY <1>2, <1>3, <1>5, <1>6, <1>7, <1>8, StaysPut

\* The helper fails.
LEMMA HelperFailsKeeps ==
    ASSUME ExportInv, NEW e \in Exporter, HelperFails(e) PROVE Keeps(e)
PROOF
<1>1. Typed /\ Own(e) /\ Stream(e)
  BY DEF ExportInv
<1> DEFINE h == [helper[e] EXCEPT !.state = "failed"]
<1>2. /\ helper[e].state = "running" /\ helper' = [helper EXCEPT ![e] = h]
      /\ pc' = pc /\ dir' = dir /\ pipe' = pipe /\ segment' = segment
      /\ had' = had /\ result' = result /\ trouble' = [trouble EXCEPT ![e] = TRUE]
      /\ history' = history /\ now' = now /\ forced' = forced
      /\ decayed' = decayed /\ taken' = taken
  BY DEF HelperFails, Trouble, phone, mishaps
<1>3. Touches(helper, helper', e) /\ helper'[e] = h /\ Touches(trouble, trouble', e) /\ trouble'[e] = TRUE
  <2> HIDE DEF h
  <2> QED BY <1>1, <1>2, DomainsAre, Touching
<1>4. HelperIs(h) /\ h.state = "failed" /\ h.query = helper[e].query
  BY <1>1 DEF Own, HelperIs
<1> HIDE DEF h
<1>5. Own(e)'
  BY <1>1, <1>2, <1>3, <1>4 DEF Own
<1>6. Stream(e)'
  BY <1>1, <1>2, <1>3, <1>4 DEF Stream
<1>7. AloneStep(e)
  BY <1>2, <1>3 DEF AloneStep, Alone, Mine, Exists, Good
<1>8. /\ Touches(pc, pc', e) /\ Touches(pipe, pipe', e) /\ Touches(segment, segment', e)
      /\ Touches(had, had', e) /\ Touches(result, result', e)
  BY <1>1, <1>2, DomainsAre
<1> QED BY <1>2, <1>3, <1>5, <1>6, <1>7, <1>8, StaysPut

\* The exporter is killed.
LEMMA DiesKeeps ==
    ASSUME ExportInv, NEW e \in Exporter, Dies(e) PROVE Keeps(e)
PROOF
<1>1. Typed /\ Own(e) /\ Stream(e)
  BY DEF ExportInv
<1>2. /\ pc[e] \notin {"idle", "done", "failed", "dead"}
      /\ pc' = [pc EXCEPT ![e] = "dead"]
      /\ helper' = [helper EXCEPT ![e] = NoHelper] /\ pipe' = [pipe EXCEPT ![e] = <<>>]
      /\ dir' = dir /\ segment' = segment /\ had' = had /\ result' = result /\ trouble' = trouble
      /\ history' = history /\ now' = now /\ forced' = forced
      /\ decayed' = decayed /\ taken' = taken
  BY DEF Dies, Goto, phone, outcome, mishaps
<1>3. /\ Touches(pc, pc', e) /\ pc'[e] = "dead"
      /\ Touches(helper, helper', e) /\ helper'[e] = NoHelper
      /\ Touches(pipe, pipe', e) /\ pipe'[e] = <<>>
  BY <1>1, <1>2, DomainsAre, Touching
<1>4. HelperIs(NoHelper) /\ NoHelper.state = "none" /\ IsSeq(<<>>)
  BY EmptyIsSeq DEF HelperIs, NoHelper
<1>5. Own(e)'
  BY <1>1, <1>2, <1>3, <1>4 DEF Own, Pcs, Filling, Sealed
<1>6. Stream(e)'
  BY <1>3 DEF Stream
<1>7. AloneStep(e)
  BY <1>2, <1>3 DEF AloneStep, Alone, Mine, Exists, Good, Filling
<1>8. /\ Touches(segment, segment', e) /\ Touches(had, had', e)
      /\ Touches(result, result', e) /\ Touches(trouble, trouble', e)
  BY <1>1, <1>2, DomainsAre
<1> QED BY <1>2, <1>3, <1>5, <1>6, <1>7, <1>8, StaysPut

\* The helper has ended, or is killed.
LEMMA WaitKeeps ==
    ASSUME ExportInv, NEW e \in Exporter, Wait(e) PROVE Keeps(e)
PROOF
<1>1. Typed /\ Own(e) /\ Stream(e)
  BY DEF ExportInv
<1>2. /\ pc[e] = "waiting" /\ helper' = [helper EXCEPT ![e] = NoHelper]
      /\ pipe' = pipe /\ segment' = segment /\ had' = had /\ trouble' = trouble
      /\ history' = history /\ now' = now /\ forced' = forced
      /\ decayed' = decayed /\ taken' = taken
  BY DEF Wait, phone, mishaps
<1>3. /\ Touches(helper, helper', e) /\ helper'[e] = NoHelper
      /\ Touches(pipe, pipe', e) /\ Touches(segment, segment', e) /\ Touches(had, had', e)
      /\ Touches(trouble, trouble', e)
  BY <1>1, <1>2, DomainsAre, Touching
<1>4. HelperIs(NoHelper) /\ NoHelper.state = "none" /\ IsSeq(<<>>)
  BY EmptyIsSeq DEF HelperIs, NoHelper
<1>5. CASE helper[e].state = "failed"
  <2>1. End(e, dir, "failed")
    BY <1>5 DEF Wait
  <2>2. trouble[e] /\ IsSeq(pipe[e])
    BY <1>1, <1>5 DEF Own
  <2> QED BY <2>1, <2>2, <1>2, <1>3, <1>4, EndsWell
<1>6. CASE helper[e].state # "failed"
  <2>1. pc' = [pc EXCEPT ![e] = "manifest"] /\ dir' = dir /\ result' = result
    BY <1>6 DEF Wait, Goto
  <2>2. Touches(pc, pc', e) /\ pc'[e] = "manifest" /\ Touches(result, result', e)
    BY <2>1, <1>1, DomainsAre, Touching
  <2>3. Own(e)'
    BY <2>1, <2>2, <1>1, <1>2, <1>3, <1>4 DEF Own, Pcs, Filling, Sealed
  <2>4. Stream(e)'
    BY <2>1, <2>2, <1>1, <1>2 DEF Stream
  <2>5. AloneStep(e)
    BY <2>1, <2>2, <1>2 DEF AloneStep, Alone, Mine, Exists, Good, Filling
  <2> QED BY <2>1, <2>2, <2>3, <2>4, <2>5, <1>2, <1>3, StaysPut
<1> QED BY <1>5, <1>6

\* A directory of the exporter gets new contents, and nothing else happens.
LEMMA Rewritten ==
    ASSUME NEW e \in Exporter, Tmp(e) \in DOMAIN dir, NEW b, dir' = [dir EXCEPT ![Tmp(e)] = b]
    PROVE  OnlyTmp(e) /\ Tmp(e) \in DOMAIN dir' /\ dir'[Tmp(e)] = b
PROOF BY DEF OnlyTmp, Same

\* The manifest seals what was read, which is intact and fine.
LEMMA WriteManifestKeeps ==
    ASSUME ExportInv, NEW e \in Exporter, WriteManifest(e) PROVE Keeps(e)
PROOF
<1> DEFINE a == dir[Tmp(e)]
           M == Manifest(a.files, segment[e].records)
           b == [a EXCEPT !.manifest = M, !.sealed = TRUE]
<1>1. Typed /\ AllSound /\ Own(e) /\ Stream(e)
  BY DEF ExportInv
<1>2. /\ pc[e] = "manifest" /\ pc' = [pc EXCEPT ![e] = "verifying"]
      /\ dir' = [dir EXCEPT ![Tmp(e)].manifest = M, ![Tmp(e)].sealed = TRUE]
      /\ helper' = helper /\ pipe' = pipe /\ segment' = segment
      /\ had' = had /\ result' = result /\ trouble' = trouble
      /\ history' = history /\ now' = now /\ forced' = forced
      /\ decayed' = decayed /\ taken' = taken
  BY DEF WriteManifest, Goto, phone, stream, outcome, mishaps
<1>3. Tmp(e) \in DOMAIN dir /\ a.by = e /\ DOMAIN a = Fields
  BY <1>1, <1>2 DEF Own, Filling, AllSound, Sound
<1>4. dir' = [dir EXCEPT ![Tmp(e)] = b]
  <2> HIDE DEF M
  <2> QED BY <1>2
<1>5. OnlyTmp(e) /\ Tmp(e) \in DOMAIN dir' /\ dir'[Tmp(e)] = b
  <2> HIDE DEF b
  <2> QED BY <1>3, <1>4, Rewritten
<1>6. /\ DOMAIN b = Fields /\ b.sealed /\ b.manifest = M /\ b.files = a.files
      /\ b.sent = a.sent /\ b.from = a.from /\ b.until = a.until /\ b.by = e
  <2> HIDE DEF M, a
  <2> QED BY <1>3 DEF Fields
<1>7. SentUpTo(history, now, a, 9) /\ FiledUp(a.sent, a.files, segment[e])
  BY <1>1, <1>2 DEF Stream
<1> HIDE DEF b
<1>8. Intact(b) /\ Fine(history, b)
  BY <1>6, <1>7, WhatIsMade
<1> HIDE DEF a, M
<1>9. Sound(history, decayed, b)
  BY <1>6, <1>8 DEF Sound
<1>10. AllSound'
  BY <1>1, <1>2, <1>5, <1>9, NewIsSound
<1>11. /\ Touches(pc, pc', e) /\ pc'[e] = "verifying"
       /\ Touches(helper, helper', e) /\ Touches(pipe, pipe', e) /\ Touches(segment, segment', e)
       /\ Touches(had, had', e) /\ Touches(result, result', e) /\ Touches(trouble, trouble', e)
  BY <1>1, <1>2, DomainsAre, Touching
<1>12. Elsewhere(e) /\ Same(Destination) /\ Same(Old(e))
  BY <1>5, OnlyTmpIsMine
<1>13. StepOf(e)
  BY <1>2, <1>11, <1>12 DEF StepOf
<1>14. Own(e)'
  BY <1>1, <1>2, <1>5, <1>6, <1>11, <1>12 DEF Own, Pcs, Filling, Sealed, Same
<1>15. Stream(e)'
  BY <1>11 DEF Stream
<1>16. AloneStep(e)
  BY <1>2, <1>11, <1>12 DEF AloneStep, Alone, Mine, Exists, Same, Filling
<1>17. FirmStep(e)
  BY <1>2, <1>11, <1>12, <1>13, FirmStays
<1> QED BY <1>10, <1>13, <1>14, <1>15, <1>16, <1>17 DEF Keeps

\* An export begins with an empty directory, or is refused.
LEMMA StartKeeps ==
    ASSUME ExportInv, NEW e \in Exporter, Start(e) PROVE Keeps(e)
PROOF
<1>1. Typed /\ AllSound /\ Own(e) /\ Stream(e)
  BY DEF ExportInv
<1>2. /\ pc[e] = "idle"
      /\ pipe' = pipe /\ segment' = segment /\ had' = had /\ trouble' = trouble
      /\ history' = history /\ now' = now /\ forced' = forced
      /\ decayed' = decayed /\ taken' = taken
  BY DEF Start, phone, mishaps
<1>3. /\ Touches(pipe, pipe', e) /\ Touches(segment, segment', e) /\ Touches(had, had', e)
      /\ Touches(trouble, trouble', e)
  BY <1>1, <1>2, DomainsAre
<1>4. CASE e \notin forced /\ Exists(Destination)
  <2>1. End(e, dir, "refused") /\ helper' = helper
    BY <1>4 DEF Start
  <2>2. /\ Touches(helper, helper', e) /\ HelperIs(helper'[e]) /\ helper'[e].state # "running"
        /\ IsSeq(pipe[e])
        /\ helper'[e].state = "failed" => trouble[e]
    BY <2>1, <1>1, <1>2, DomainsAre DEF Own
  <2>3. OnItsOwn(e) /\ Alone(e) => ~ Mine(e)
    BY <1>2 DEF Alone
  <2> QED BY <2>1, <2>2, <2>3, <1>2, <1>3, EndsWell
<1>5. CASE ~ (e \notin forced /\ Exists(Destination))
  <2> DEFINE h == [NoHelper EXCEPT !.state = "running", !.query = 1]
             b == NewDirectory(e)
  <2>1. /\ dir' = With(dir, Tmp(e), b) /\ helper' = [helper EXCEPT ![e] = h]
        /\ pc' = [pc EXCEPT ![e] = "reading"] /\ result' = result
    BY <1>5 DEF Start, Goto
  <2>2. HelperIs(h) /\ h.query = 1 /\ h.state = "running"
    BY EmptyIsSeq DEF HelperIs, NoHelper
  <2>3. /\ DOMAIN b = Fields /\ b.sealed = FALSE /\ b.files = <<>> /\ b.by = e /\ b.sent = <<>>
        /\ b.from = now /\ b.until = now
    BY DEF NewDirectory, Fields
  <2> HIDE DEF h, b
  <2>4. /\ Touches(helper, helper', e) /\ helper'[e] = h /\ Touches(pc, pc', e) /\ pc'[e] = "reading"
        /\ Touches(result, result', e)
    BY <2>1, <1>1, DomainsAre, Touching
  <2>5. OnlyTmp(e) /\ Tmp(e) \in DOMAIN dir' /\ dir'[Tmp(e)] = b
    BY <2>1 DEF With, OnlyTmp, Same
  <2>6. Elsewhere(e) /\ Same(Destination) /\ Same(Old(e))
    BY <2>5, OnlyTmpIsMine
  <2>7. StepOf(e)
    BY <2>4, <2>6, <1>2, <1>3 DEF StepOf
  <2>8. AllSound'
    <3>1. Sound(history, decayed, b)
      BY <2>3 DEF Sound
    <3> QED BY <3>1, <2>5, <1>1, <1>2, NewIsSound
  <2>9. Own(e)'
    <3>1. /\ dir'[Tmp(e)].by = e /\ dir'[Tmp(e)].sealed = FALSE /\ Tmp(e) \in DOMAIN dir'
      BY <2>3, <2>5
    <3>2. Old(e) \notin DOMAIN dir' /\ result'[e] # "ok"
      BY <2>1, <2>6, <1>1, <1>2 DEF Own, Same
    <3>3. IsSeq(pipe'[e]) /\ IsSeq(segment'[e].recent) /\ Len(segment'[e].recent) <= MaxOpenFiles
      BY <1>1, <1>2 DEF Own
    <3>4. helper'[e].state = "running" /\ HelperIs(helper'[e])
      BY <2>2, <2>4
    <3> QED BY <3>1, <3>2, <3>3, <3>4, <2>4 DEF Own, Pcs, Filling, Sealed
  <2>10. Stream(e)'
    <3>1. SentUpTo(history, now, b, 1)
      <4>1. Orderly(<<>>)
        BY EmptyIsSeq DEF Orderly
      <4>2. now \in 1 .. now
        BY <1>1, HistoriesAssumption DEF Typed
      <4> QED BY <4>1, <4>2, <2>3, EmptyIsSeq DEF SentUpTo
    <3>2. segment[e] = NoSegment /\ pipe[e] = <<>>
      BY <1>1, <1>2 DEF Own
    <3>3. FiledUp(<<>>, b.files, segment[e])
      BY <3>2, <2>3, FiledUpAtFirst
    <3>4. Flows(history, now, b, <<>>, pipe[e], segment[e], 1)
      BY <3>1, <3>2, <3>3, <2>3, EmptyIsSeq, NothingToRead DEF Flows
    <3>5. Flows(history', now', dir'[Tmp(e)], <<>>, pipe'[e], segment'[e], helper'[e].query)
      BY <3>4, <2>2, <2>4, <2>5, <1>2
    <3> QED BY <3>5, <2>4 DEF Stream
  <2>11. AloneStep(e)
    BY <2>4, <2>6, <1>2, <1>5 DEF AloneStep, Alone, Mine, Exists, Same, Filling
  <2>12. FirmStep(e)
    BY <2>4, <2>6, <2>7, <1>2, FirmStays
  <2> QED BY <2>7, <2>8, <2>9, <2>10, <2>11, <2>12 DEF Keeps
<1> QED BY <1>4, <1>5

\* The verification before the installation.
LEMMA VerifyNewKeeps ==
    ASSUME ExportInv, NEW e \in Exporter, VerifyNew(e) PROVE Keeps(e)
PROOF
<1>1. Typed /\ AllSound /\ Own(e) /\ Stream(e)
  BY DEF ExportInv
<1>2. /\ pc[e] = "verifying"
      /\ helper' = helper /\ pipe' = pipe /\ segment' = segment /\ had' = had /\ trouble' = trouble
      /\ history' = history /\ now' = now /\ forced' = forced
      /\ decayed' = decayed /\ taken' = taken
  BY DEF VerifyNew, phone, stream, mishaps
<1>3. /\ Touches(helper, helper', e) /\ Touches(pipe, pipe', e) /\ Touches(segment, segment', e)
      /\ Touches(had, had', e) /\ Touches(trouble, trouble', e)
  BY <1>1, <1>2, DomainsAre
<1>4. CASE Good(Tmp(e))
  <2> DEFINE next == IF e \in forced THEN "preserving" ELSE "placing"
  <2>1. pc' = [pc EXCEPT ![e] = next] /\ dir' = dir /\ result' = result
    BY <1>4 DEF VerifyNew, Goto
  <2>2. /\ next \in {"preserving", "placing"}
        /\ next = "preserving" <=> e \in forced
    OBVIOUS
  <2> HIDE DEF next
  <2>3. Touches(pc, pc', e) /\ pc'[e] = next /\ Touches(result, result', e)
    BY <2>1, <1>1, DomainsAre, Touching
  <2>4. Own(e)'
    BY <2>1, <2>2, <2>3, <1>1, <1>2 DEF Own, Pcs, Filling, Sealed
  <2>5. Stream(e)'
    BY <2>2, <2>3 DEF Stream
  <2>6. AloneStep(e)
    BY <2>1, <2>2, <2>3, <1>2 DEF AloneStep, Alone, Mine, Exists, Filling
  <2>7. pc'[e] # "removing"
    BY <2>2, <2>3
  <2> QED BY <2>1, <2>3, <2>4, <2>5, <2>6, <2>7, <1>2, <1>3, StaysPut
<1>5. CASE ~ Good(Tmp(e))
  <2>1. End(e, dir, "failed")
    BY <1>5 DEF VerifyNew
  <2>2. /\ HelperIs(helper[e]) /\ helper[e].state # "running" /\ IsSeq(pipe[e])
        /\ helper[e].state = "failed" => trouble[e]
    BY <1>1, <1>2 DEF Own
  <2>3. decayed
    <3>1. Tmp(e) \in DOMAIN dir /\ dir[Tmp(e)].by = e /\ dir[Tmp(e)].sealed
      BY <1>1, <1>2 DEF Own, Sealed
    <3>2. Sound(history, decayed, dir[Tmp(e)])
      BY <3>1, <1>1 DEF AllSound
    <3>3. ~ Verify(dir[Tmp(e)])
      BY <3>1, <1>5 DEF Good, Exists
    <3> QED BY <3>1, <3>2, <3>3 DEF Sound, Fine
  <2>4. Alone(e) => ~ Mine(e)
    BY <1>2 DEF Alone
  <2> QED BY <2>1, <2>2, <2>3, <2>4, <1>2, <1>3, EndsWell
<1> QED BY <1>4, <1>5

\* A query adds rows of its kind to the stream.
LEMMA QueryKeeps ==
    ASSUME ExportInv, NEW e \in Exporter, Query(e) PROVE Keeps(e)
PROOF
<1> DEFINE a == dir[Tmp(e)]
           q == helper[e].query
           rows == Rows(history[now], Queries[q], helper[e].ids)
           ids == IF Queries[q] = "mms" THEN [i \in DOMAIN rows |-> rows[i].id] ELSE helper[e].ids
           h == [helper[e] EXCEPT !.query = q + 1, !.ids = ids]
           b == [a EXCEPT !.sent = a.sent \o rows, !.until = now]
<1>1. Typed /\ AllSound /\ Own(e) /\ Stream(e)
  BY DEF ExportInv
<1>2. /\ helper[e].state = "running" /\ q <= 8 /\ pipe[e] = <<>>
      /\ pipe' = [pipe EXCEPT ![e] = rows]
      /\ pc' = pc /\ segment' = segment /\ had' = had /\ result' = result /\ trouble' = trouble
      /\ history' = history /\ now' = now /\ forced' = forced
      /\ decayed' = decayed /\ taken' = taken
  BY QueriesAre DEF Query, phone, outcome, mishaps
<1>3. HelperIs(helper[e]) /\ pc[e] = "reading"
  <2>1. HelperIs(helper[e]) /\ pc[e] \in {"reading", "waiting"}
    BY <1>1, <1>2 DEF Own
  <2>2. pc[e] = "waiting" => q = 9
    BY <1>1 DEF Stream
  <2> QED BY <2>1, <2>2, <1>2
<1>4. q \in 1 .. 8 /\ IsSeq(helper[e].ids) /\ DOMAIN helper[e] = {"state", "query", "ids"}
  BY <1>2, <1>3 DEF HelperIs
<1>5. /\ helper' = [helper EXCEPT ![e] = h]
      /\ dir' = [dir EXCEPT ![Tmp(e)] = b]
  <2>1. /\ helper' = [helper EXCEPT ![e].query = q + 1, ![e].ids = ids]
        /\ dir' = [dir EXCEPT ![Tmp(e)].sent = a.sent \o rows, ![Tmp(e)].until = now]
    BY DEF Query
  <2> HIDE DEF q, ids, rows
  <2> QED BY <2>1
<1>6. Answers(rows, q, history[now])
  BY <1>1, <1>4, RowsAnswer DEF Typed
<1> HIDE DEF rows
<1>7. IsSeq(rows)
  BY <1>6 DEF Answers
<1>8. IsSeq(ids)
  <2>1. CASE Queries[q] = "mms"
    <3> DEFINE f == [i \in DOMAIN rows |-> rows[i].id]
    <3>1. DOMAIN rows = 1 .. Len(rows) /\ Len(rows) \in Nat
      BY <1>7, SequenceFacts
    <3>2. DOMAIN f = 1 .. Len(rows) /\ f = [i \in 1 .. Len(rows) |-> f[i]]
      BY <3>1
    <3>3. ids = f
      BY <2>1
    <3> HIDE DEF f, ids
    <3> QED BY <3>1, <3>2, <3>3, RowsAreSeq
  <2>2. CASE Queries[q] # "mms"
    BY <2>2, <1>4
  <2> QED BY <2>1, <2>2
<1> HIDE DEF ids
<1>9. HelperIs(h) /\ h.query = q + 1 /\ h.state = "running"
  <2>1. DOMAIN h = {"state", "query", "ids"} /\ h.query = q + 1 /\ h.ids = ids /\ h.state = "running"
    <3> HIDE DEF q
    <3> QED BY <1>2, <1>4
  <2> HIDE DEF h, q
  <2> QED BY <2>1, <1>4, <1>8 DEF HelperIs
<1> HIDE DEF h
<1>10. Tmp(e) \in DOMAIN dir /\ a.by = e /\ a.sealed = FALSE /\ DOMAIN a = Fields
  <2>1. Tmp(e) \in DOMAIN dir /\ a.by = e /\ ~ a.sealed
    BY <1>1, <1>3 DEF Own, Filling, Sealed
  <2>2. DOMAIN a = Fields
    BY <2>1, <1>1 DEF AllSound, Sound
  <2> QED BY <2>1, <2>2
<1>11. /\ DOMAIN b = Fields /\ b.by = e /\ b.sealed = FALSE /\ b.files = a.files
       /\ b.sent = a.sent \o rows /\ b.from = a.from /\ b.until = now
  <2> HIDE DEF a
  <2> QED BY <1>10 DEF Fields
<1> HIDE DEF b
<1>12. OnlyTmp(e) /\ Tmp(e) \in DOMAIN dir' /\ dir'[Tmp(e)] = b
  BY <1>5, <1>10, Rewritten
<1>13. PICK read : Flows(history, now, a, read, pipe[e], segment[e], q)
  BY <1>1, <1>3 DEF Stream
<1>14. /\ IsSeq(read) /\ a.sent = read \o pipe[e]
       /\ SentUpTo(history, now, a, q) /\ FiledUp(read, a.files, segment[e])
  BY <1>13 DEF Flows
<1> HIDE DEF a, q
<1>15. b.sent = read \o rows
  BY <1>2, <1>11, <1>14, NothingToRead
<1>16. now \in Nat
  BY <1>1, HistoriesAssumption DEF Typed
<1>17. SentUpTo(history, now, b, q + 1)
  BY <1>4, <1>6, <1>11, <1>14, <1>16, QueryAdds
<1>18. /\ Touches(helper, helper', e) /\ helper'[e] = h
       /\ Touches(pipe, pipe', e) /\ pipe'[e] = rows
       /\ Touches(pc, pc', e) /\ Touches(segment, segment', e) /\ Touches(had, had', e)
       /\ Touches(result, result', e) /\ Touches(trouble, trouble', e)
  BY <1>1, <1>2, <1>5, DomainsAre, Touching
<1>19. Elsewhere(e) /\ Same(Destination) /\ Same(Old(e))
  BY <1>12, OnlyTmpIsMine
<1>20. StepOf(e)
  BY <1>2, <1>18, <1>19 DEF StepOf
<1>21. AllSound'
  <2>1. Sound(history, decayed, b)
    BY <1>11 DEF Sound
  <2> QED BY <2>1, <1>1, <1>2, <1>12, NewIsSound
<1>22. Own(e)'
  <2>1. /\ dir'[Tmp(e)].by = e /\ dir'[Tmp(e)].sealed = FALSE /\ Tmp(e) \in DOMAIN dir'
    BY <1>11, <1>12
  <2>2. Old(e) \notin DOMAIN dir' /\ result'[e] # "ok"
    BY <1>1, <1>2, <1>3, <1>19 DEF Own, Same, Filling
  <2>3. IsSeq(pipe'[e]) /\ IsSeq(segment'[e].recent) /\ Len(segment'[e].recent) <= MaxOpenFiles
    BY <1>1, <1>2, <1>7, <1>18 DEF Own
  <2>4. helper'[e].state = "running" /\ HelperIs(helper'[e]) /\ pc'[e] = "reading"
    BY <1>2, <1>3, <1>9, <1>18
  <2> QED BY <2>1, <2>2, <2>3, <2>4 DEF Own, Pcs, Filling, Sealed
<1>23. Stream(e)'
  <2>1. Flows(history, now, b, read, rows, segment[e], q + 1)
    BY <1>11, <1>14, <1>15, <1>17 DEF Flows
  <2>2. Flows(history', now', dir'[Tmp(e)], read, pipe'[e], segment'[e], helper'[e].query)
    BY <2>1, <1>2, <1>9, <1>12, <1>18
  <2>3. pc'[e] = "reading"
    BY <1>2, <1>3
  <2> QED BY <2>2, <2>3 DEF Stream
<1>24. AloneStep(e)
  BY <1>2, <1>3, <1>19 DEF AloneStep, Alone, Mine, Exists, Same, Filling
<1>25. FirmStep(e)
  BY <1>2, <1>19, <1>20, FirmStays
<1> QED BY <1>20, <1>21, <1>22, <1>23, <1>24, <1>25 DEF Keeps

\* The summary is the last record of all.
JustRead(h, n, a, q, t, m, r, rest) ==
    /\ q \in 0 .. 9 /\ SentUpTo(h, n, a, q)
    /\ IsSeq(t) /\ m \in Nat /\ Len(t) = m + 1 /\ t[m + 1] = r
    /\ IsSeq(rest) /\ a.sent = t \o rest

\* Once the summary has been read, all queries are over and nothing is left in
\* the pipe.
LEMMA SummaryIsLast ==
    ASSUME NEW h, NEW n, NEW a, NEW q, NEW t, NEW m, NEW r, NEW rest,
           JustRead(h, n, a, q, t, m, r, rest), r.type = "summary"
    PROVE  q = 9 /\ rest = <<>>
PROOF
<1> DEFINE s == a.sent
<1>0. /\ q \in 0 .. 9 /\ SentUpTo(h, n, a, q)
      /\ IsSeq(t) /\ m \in Nat /\ Len(t) = m + 1 /\ t[m + 1] = r
      /\ IsSeq(rest) /\ a.sent = t \o rest
  BY DEF JustRead
<1>1. /\ IsSeq(s) /\ \A x \in ToSet(s) : \E k \in 1 .. q - 1 : x.type \in TypesOf[k]
      /\ q = 9 => \A i \in 1 .. Len(s) - 1 : s[i].type # "summary"
  BY <1>0 DEF SentUpTo
<1>2. IsSeq(t) /\ Len(t) = m + 1 /\ t[m + 1] = r
  BY <1>0
<1>3. m \in Nat /\ Len(rest) \in Nat
  BY <1>0, SequenceFacts
<1>4. s = t \o rest /\ IsSeq(rest) /\ q \in 0 .. 9
  BY <1>0
<1> HIDE DEF s
<1>5. Len(s) = Len(t) + Len(rest) /\ \A i \in 1 .. Len(t) : s[i] = t[i]
  BY <1>2, <1>4, ConcatFacts
<1>6. s[m + 1] = r /\ m + 1 \in 1 .. Len(s)
  BY <1>2, <1>3, <1>5
<1>7. r \in ToSet(s)
  BY <1>1, <1>6, SequenceFacts
<1>8. PICK k \in 1 .. q - 1 : "summary" \in TypesOf[k]
  BY <1>1, <1>7
<1>9. q = 9
  BY <1>4, <1>8, KindsOfTypes
<1>10. ~ (m + 1 \in 1 .. Len(s) - 1)
  BY <1>1, <1>6, <1>9
<1>11. Len(rest) = 0
  BY <1>2, <1>3, <1>5, <1>10
<1> QED BY <1>4, <1>9, <1>11, EmptySeq DEF IsSeq

\* A record is read and filed, or the export ends.
LEMMA ReadKeeps ==
    ASSUME ExportInv, NEW e \in Exporter, Read(e) PROVE Keeps(e)
PROOF
<1> DEFINE r == Head(pipe[e])
           a == dir[Tmp(e)]
           s == segment[e]
           key == FileOf(r, s.mmsThreads)
           t == [mmsThreads |-> IF r.type = "mms" THEN With(s.mmsThreads, r.id, r.thread) ELSE s.mmsThreads,
                 records    |-> With(s.records, key, At(s.records, key, 0) + 1),
                 recent     |-> Used(s.recent, key)]
           b == [a EXCEPT !.files = Stored(a.files, r, key)]
<1>1. Typed /\ AllSound /\ Own(e) /\ Stream(e)
  BY DEF ExportInv
<1>2. /\ pc[e] = "reading" /\ pipe[e] # <<>> /\ had' = had
      /\ history' = history /\ now' = now /\ forced' = forced
      /\ decayed' = decayed /\ taken' = taken
  BY DEF Read, phone, mishaps
<1>3. CASE r.type \in OfThread /\ r.thread = 0
  <2>1. /\ End(e, dir, "failed") /\ trouble' = [trouble EXCEPT ![e] = TRUE]
        /\ helper' = [helper EXCEPT ![e] = NoHelper] /\ pipe' = [pipe EXCEPT ![e] = <<>>]
        /\ segment' = segment
    BY <1>3 DEF Read, Trouble
  <2>2. /\ Touches(helper, helper', e) /\ helper'[e] = NoHelper
        /\ Touches(pipe, pipe', e) /\ pipe'[e] = <<>>
        /\ Touches(trouble, trouble', e) /\ trouble'[e] = TRUE
    BY <1>1, <2>1, DomainsAre, Touching
  <2>3. HelperIs(NoHelper) /\ NoHelper.state = "none"
    BY EmptyIsSeq DEF HelperIs, NoHelper
  <2> QED BY <2>1, <2>2, <2>3, <1>2, EmptyIsSeq, EndsWell
<1>4. CASE ~ (r.type \in OfThread /\ r.thread = 0)
  <2>1. /\ Store(e, r, key) /\ pipe' = [pipe EXCEPT ![e] = Tail(pipe[e])]
        /\ IF r.type = "summary" THEN pc' = [pc EXCEPT ![e] = "waiting"] ELSE pc' = pc
        /\ helper' = helper /\ result' = result /\ trouble' = trouble
    BY <1>4 DEF Read, Segment, Goto
  <2>2. /\ dir' = [dir EXCEPT ![Tmp(e)] = b]
        /\ segment' = [segment EXCEPT ![e] = t]
    <3> DEFINE open == Contains(s.recent, key)
    <3>1. Opened(At(a.files, key, <<>>), open, At(s.records, key, 0)) = At(a.files, key, <<>>)
      <4>1. PICK read : IsSeq(read) /\ FiledUp(read, a.files, s)
        BY <1>1, <1>2 DEF Stream, Flows
      <4>2. ~ IsMedia(key)
        BY RecordsAreNotMedia
      <4> HIDE DEF a, s, key, open
      <4> QED BY <4>1, <4>2, OpenedGoesOn
    <3>2. /\ dir' = [dir EXCEPT ![Tmp(e)].files = Stored(a.files, r, key)]
          /\ segment' = [segment EXCEPT ![e] = t]
      BY <2>1, <3>1 DEF Store, Stored, WithContent
    <3> HIDE DEF t, key, r
    <3> QED BY <3>2
  <2> HIDE DEF r
  <2>3. Noted(s, r, key, t) /\ t.recent = Used(s.recent, key)
    <3> HIDE DEF key, s
    <3> QED BY DEF Noted
  <2>4. IsSeq(t.recent) /\ Len(t.recent) <= MaxOpenFiles
    <3>1. IsSeq(s.recent) /\ Len(s.recent) <= MaxOpenFiles
      BY <1>1 DEF Own
    <3> HIDE DEF t, s, key
    <3> QED BY <3>1, <2>3, UsedIsBounded
  <2>5. Tmp(e) \in DOMAIN dir /\ a.by = e /\ a.sealed = FALSE /\ DOMAIN a = Fields
    <3>1. Tmp(e) \in DOMAIN dir /\ a.by = e /\ ~ a.sealed
      BY <1>1, <1>2 DEF Own, Filling, Sealed
    <3>2. DOMAIN a = Fields
      BY <3>1, <1>1 DEF AllSound, Sound
    <3> QED BY <3>1, <3>2
  <2>6. PICK read : Flows(history, now, a, read, pipe[e], s, helper[e].query)
    BY <1>1, <1>2 DEF Stream
  <2> DEFINE q == helper[e].query
             more == Append(read, r)
             rest == Tail(pipe[e])
  <2>7. /\ IsSeq(read) /\ a.sent = read \o pipe[e]
        /\ SentUpTo(history, now, a, q) /\ FiledUp(read, a.files, s)
    BY <2>6 DEF Flows
  <2>8. IsSeq(pipe[e]) /\ q \in 0 .. 9 /\ HelperIs(helper[e])
    BY <1>1 DEF Own, HelperIs
  <2>9. a.sent = more \o rest /\ IsSeq(rest) /\ IsSeq(more)
    <3>1. read \o pipe[e] = Append(read, Head(pipe[e])) \o Tail(pipe[e]) /\ IsSeq(Tail(pipe[e]))
      BY <2>7, <2>8, <1>2, ReadOne
    <3> QED BY <3>1, <2>7, AppendFacts DEF r
  <2> HIDE DEF rest, q
  <2>10. Orderly(more)
    <3>1. Orderly(more \o rest)
      BY <2>7, <2>9 DEF SentUpTo
    <3> HIDE DEF more
    <3> QED BY <3>1, <2>9, OrderlyPrefix
  <2>11. FiledUp(more, Stored(a.files, r, key), t)
    <3>1. key = FileOf(r, s.mmsThreads)
      OBVIOUS
    <3> HIDE DEF t, s, key, a
    <3> QED BY <3>1, <2>3, <2>7, <2>10, FiledUpOneMore
  <2>12. /\ DOMAIN b = Fields /\ b.by = e /\ b.sealed = FALSE /\ b.files = Stored(a.files, r, key)
         /\ b.sent = a.sent /\ b.from = a.from /\ b.until = a.until
    <3> HIDE DEF a, key
    <3> QED BY <2>5 DEF Fields
  <2> HIDE DEF t, b
  <2>13. OnlyTmp(e) /\ Tmp(e) \in DOMAIN dir' /\ dir'[Tmp(e)] = b
    BY <2>2, <2>5, Rewritten
  <2> HIDE DEF key, a
  <2>14. SentUpTo(history, now, b, q)
    BY <2>7, <2>12 DEF SentUpTo
  <2>15. FiledUp(more, b.files, t)
    BY <2>11, <2>12
  <2>16. /\ Touches(pipe, pipe', e) /\ pipe'[e] = rest
         /\ Touches(segment, segment', e) /\ segment'[e] = t
         /\ Touches(pc, pc', e)
         /\ pc'[e] = IF r.type = "summary" THEN "waiting" ELSE "reading"
         /\ Touches(helper, helper', e) /\ Touches(had, had', e)
         /\ Touches(result, result', e) /\ Touches(trouble, trouble', e)
    <3>1. Touches(pipe, pipe', e) /\ pipe'[e] = rest
      BY <2>1, <1>1, DomainsAre, Touching DEF rest
    <3>2. Touches(segment, segment', e) /\ segment'[e] = t
      BY <2>2, <1>1, DomainsAre, Touching
    <3>3. Touches(pc, pc', e) /\ pc'[e] = IF r.type = "summary" THEN "waiting" ELSE "reading"
      BY <2>1, <1>1, <1>2, DomainsAre, Touching
    <3>4. /\ Touches(helper, helper', e) /\ Touches(had, had', e)
          /\ Touches(result, result', e) /\ Touches(trouble, trouble', e)
      BY <2>1, <1>1, <1>2, DomainsAre
    <3> QED BY <3>1, <3>2, <3>3, <3>4
  <2>17. Elsewhere(e) /\ Same(Destination) /\ Same(Old(e))
    BY <2>13, OnlyTmpIsMine
  <2>18. StepOf(e)
    BY <1>2, <2>16, <2>17 DEF StepOf
  <2>19. AllSound'
    <3>1. Sound(history, decayed, b)
      BY <2>12 DEF Sound
    <3> QED BY <3>1, <1>1, <1>2, <2>13, NewIsSound
  <2>20. pc'[e] \in {"reading", "waiting"}
    BY <2>16
  <2>21. Own(e)'
    <3>1. /\ dir'[Tmp(e)].by = e /\ dir'[Tmp(e)].sealed = FALSE /\ Tmp(e) \in DOMAIN dir'
      BY <2>12, <2>13
    <3>2. Old(e) \notin DOMAIN dir' /\ result'[e] # "ok"
      BY <1>1, <1>2, <2>1, <2>17 DEF Own, Same, Filling
    <3>3. IsSeq(pipe'[e]) /\ IsSeq(segment'[e].recent) /\ Len(segment'[e].recent) <= MaxOpenFiles
      BY <2>4, <2>9, <2>16
    <3>4. HelperIs(helper'[e]) /\ helper'[e].state = "failed" => trouble'[e]
      BY <1>1, <2>1, <2>8 DEF Own
    <3>5. HelperIs(helper'[e])
      BY <2>1, <2>8
    <3> QED BY <3>1, <3>2, <3>3, <3>4, <3>5, <2>20 DEF Own, Pcs, Filling, Sealed
  <2>22. Stream(e)'
    <3>1. CASE r.type = "summary"
      <4>1. q = 9 /\ rest = <<>>
        <5> DEFINE m == Len(read)
        <5>1. Len(more) = m + 1 /\ more[m + 1] = r /\ m \in Nat
          BY <2>7, AppendFacts, SequenceFacts
        <5> HIDE DEF more, m
        <5>2. JustRead(history, now, a, q, more, m, r, rest)
          BY <5>1, <2>7, <2>8, <2>9 DEF JustRead
        <5> QED BY <5>2, <3>1, SummaryIsLast
      <4>2. b.sent = more
        BY <4>1, <2>9, <2>12, NothingToRead
      <4>3. SentUpTo(history, now, b, 9) /\ FiledUp(b.sent, b.files, t)
        BY <4>1, <4>2, <2>14, <2>15
      <4>4. /\ pc'[e] = "waiting" /\ helper'[e].query = 9 /\ pipe'[e] = <<>>
            /\ SentUpTo(history', now', dir'[Tmp(e)], 9)
            /\ FiledUp(dir'[Tmp(e)].sent, dir'[Tmp(e)].files, segment'[e])
        BY <4>1, <4>3, <3>1, <1>2, <2>1, <2>13, <2>16 DEF q
      <4> QED BY <4>4 DEF Stream
    <3>2. CASE r.type # "summary"
      <4>1. Flows(history, now, b, more, rest, t, q)
        BY <2>9, <2>12, <2>14, <2>15 DEF Flows
      <4>2. Flows(history', now', dir'[Tmp(e)], more, pipe'[e], segment'[e], helper'[e].query)
        BY <4>1, <1>2, <2>1, <2>13, <2>16 DEF q
      <4>3. pc'[e] = "reading"
        BY <3>2, <2>16
      <4> QED BY <4>2, <4>3 DEF Stream
    <3> QED BY <3>1, <3>2
  <2>23. AloneStep(e)
    BY <1>2, <2>17, <2>20 DEF AloneStep, Alone, Mine, Exists, Same, Filling
  <2>24. FirmStep(e)
    BY <1>2, <2>17, <2>18, <2>20, FirmStays
  <2> QED BY <2>18, <2>19, <2>21, <2>22, <2>23, <2>24 DEF Keeps
<1> QED BY <1>3, <1>4

-----------------------------------------------------------------------------
(* The installation.                                                       *)

\* Every directory is one that was there.
OnlyMoves == \A d \in DOMAIN dir' : \E x \in DOMAIN dir : dir'[d] = dir[x]

\* What a rename does.
LEMMA Renaming ==
    ASSUME NEW from, NEW to, from # to, from \in DOMAIN dir, dir' = Renamed(from, to)
    PROVE  /\ Gone(from) /\ Moved(from, to) /\ OnlyMoves
           /\ \A d : d \notin {from, to} => Same(d)
PROOF
<1>1. /\ DOMAIN dir' = (DOMAIN dir \ {from}) \cup {to} /\ dir'[to] = dir[from]
      /\ \A d \in DOMAIN dir' : d # to => dir'[d] = dir[d]
  BY DEF Renamed, With, Without
<1>2. \A d \in DOMAIN dir' : d \in DOMAIN dir \/ d = to
  BY <1>1
<1> QED BY <1>1, <1>2 DEF Gone, Moved, OnlyMoves, Same

\* The same, and one directory goes.
LEMMA RenamingAndRemoving ==
    ASSUME NEW from, NEW to, from # to, from \in DOMAIN dir, NEW more, more # from,
           dir' = Without(Renamed(from, to), more)
    PROVE  /\ Gone(from) /\ Gone(more) /\ OnlyMoves
           /\ to # more => Moved(from, to)
           /\ \A d : d \notin {from, to, more} => Same(d)
PROOF
<1> DEFINE r == Renamed(from, to)
<1>1. /\ DOMAIN r = (DOMAIN dir \ {from}) \cup {to} /\ r[to] = dir[from]
      /\ \A d \in DOMAIN r : d # to => r[d] = dir[d]
  BY DEF Renamed, With, Without
<1>2. dir' = Without(r, more)
  OBVIOUS
<1> HIDE DEF r
<1>3. DOMAIN dir' = DOMAIN r \ {more} /\ \A d \in DOMAIN dir' : dir'[d] = r[d]
  BY <1>2 DEF Without
<1>4. Gone(from) /\ Gone(more)
  BY <1>1, <1>3 DEF Gone
<1>5. to # more => Moved(from, to)
  BY <1>1, <1>3 DEF Moved
<1>6. OnlyMoves
  <2>1. ASSUME NEW d \in DOMAIN dir' PROVE \E x \in DOMAIN dir : dir'[d] = dir[x]
    <3>1. dir'[d] = r[d] /\ d \in DOMAIN r
      BY <1>3
    <3>2. CASE d = to
      BY <3>1, <3>2, <1>1
    <3>3. CASE d # to
      BY <3>1, <3>3, <1>1
    <3> QED BY <3>2, <3>3
  <2> QED BY <2>1 DEF OnlyMoves
<1>7. ASSUME NEW d, d \notin {from, to, more} PROVE Same(d)
  BY <1>1, <1>3, <1>7 DEF Same
<1> QED BY <1>4, <1>5, <1>6, <1>7

\* A secure archive is secure where it is moved to.
LEMMA MovedIsSecure == ASSUME NEW x, NEW y, Moved(x, y) PROVE Secure(x) => Secure(y)'
PROOF BY DEF Moved, Secure, Good, Exists

\* Something firm is left when the destination and the exporter's old archive
\* are accounted for.
LEMMA FirmMoves ==
    ASSUME NEW e \in Exporter, StepOf(e), taken => taken',
           pc'[e] = "removing" => pc[e] = "removing" \/ Firm',
           Secure(Destination) => Firm' \/ taken',
           Secure(Old(e)) /\ pc[e] # "removing" => Firm' \/ taken'
    PROVE  FirmStep(e)
PROOF
<1>1. ASSUME NEW w \in Exporter, w # e, Secure(Old(w)), pc[w] # "removing" PROVE Firm'
  <2>1. Same(Old(w)) /\ pc'[w] # "removing"
    BY <1>1, DirectoriesDiffer DEF StepOf, Elsewhere, Touches
  <2>2. Secure(Old(w))'
    BY <2>1, <1>1, SecureStays
  <2> QED BY <2>1, <2>2 DEF Firm
<1>2. Firm => Firm' \/ taken'
  BY <1>1 DEF Firm
<1> QED BY <1>2 DEF FirmStep

\* What every step of the installation does.
Installs(e) ==
    /\ history' = history /\ now' = now /\ forced' = forced
    /\ helper' = helper /\ pipe' = pipe /\ segment' = segment
    /\ Touches(pc, pc', e) /\ Touches(had, had', e)
    /\ Touches(result, result', e) /\ Touches(trouble, trouble', e)
    /\ Elsewhere(e)
    /\ trouble[e] => trouble'[e]

\* What an exporter relies on, after a step of the installation.
LEMMA InstallsWell ==
    ASSUME ExportInv, NEW e \in Exporter, Installs(e),
           pc[e] \notin {"reading", "waiting"},
           pc'[e] \in {"placing", "restoring", "checking", "rolling back", "removing", "done", "failed"},
           result'[e] = "ok" <=> pc'[e] = "done",
           pc'[e] = "placing" => pc[e] \in Sealed /\ Same(Tmp(e)),
           pc'[e] \in {"checking", "rolling back", "removing", "done", "failed"} => Gone(Tmp(e)),
           Old(e) \in DOMAIN dir' => e \in forced
    PROVE  StepOf(e) /\ Own(e)' /\ Stream(e)'
PROOF
<1>1. Typed /\ Own(e)
  BY DEF ExportInv
<1>2. StepOf(e)
  <2>1. Touches(helper, helper', e) /\ Touches(pipe, pipe', e) /\ Touches(segment, segment', e)
    BY <1>1, DomainsAre DEF Installs
  <2> QED BY <2>1 DEF Installs, StepOf
<1>3. Stream(e)'
  BY DEF Stream
<1>4. Own(e)'
  <2>1. /\ helper'[e] = helper[e] /\ pipe'[e] = pipe[e] /\ segment'[e] = segment[e]
        /\ forced' = forced
        /\ trouble[e] => trouble'[e]
    BY DEF Installs
  <2>2. pc'[e] \in Sealed => Tmp(e) \in DOMAIN dir' /\ dir'[Tmp(e)].by = e /\ dir'[Tmp(e)].sealed
    <3> SUFFICES ASSUME pc'[e] \in Sealed
                 PROVE  Tmp(e) \in DOMAIN dir' /\ dir'[Tmp(e)].by = e /\ dir'[Tmp(e)].sealed
      OBVIOUS
    <3>1. pc[e] \in Sealed /\ Same(Tmp(e))
      BY DEF Sealed
    <3> QED BY <3>1, <1>1 DEF Own, Same
  <2>3. pc'[e] \in Pcs /\ pc'[e] \notin {"idle", "preserving", "verifying"} \cup Filling
    BY DEF Pcs, Filling
  <2>4. /\ HelperIs(helper[e]) /\ helper[e].state # "running" /\ IsSeq(pipe[e])
        /\ IsSeq(segment[e].recent) /\ Len(segment[e].recent) <= MaxOpenFiles
        /\ helper[e].state = "failed" => trouble[e]
    BY <1>1 DEF Own
  <2>5. pc'[e] \in {"idle", "checking", "rolling back", "removing", "done", "failed"} =>
           Tmp(e) \notin DOMAIN dir'
    BY <2>3 DEF Gone
  <2> QED BY <2>1, <2>2, <2>3, <2>4, <2>5 DEF Own
<1> QED BY <1>2, <1>3, <1>4

\* The old archive is moved aside.
LEMMA PreserveKeeps ==
    ASSUME ExportInv, NEW e \in Exporter, Preserve(e) PROVE Keeps(e)
PROOF
<1>1. Typed /\ Own(e) /\ AllSound
  BY DEF ExportInv
<1>2. /\ pc[e] = "preserving" /\ history' = history /\ now' = now /\ forced' = forced
      /\ helper' = helper /\ pipe' = pipe /\ segment' = segment
      /\ decayed' = decayed /\ taken' = taken
  BY DEF Preserve, phone, stream, mishaps
<1>3. /\ Touches(helper, helper', e) /\ Touches(pipe, pipe', e)
      /\ HelperIs(helper[e]) /\ helper[e].state # "running" /\ IsSeq(pipe[e])
      /\ helper[e].state = "failed" => trouble[e]
      /\ e \in forced /\ Old(e) \notin DOMAIN dir
      /\ pc[e] \in Sealed
  BY <1>1, <1>2, DomainsAre DEF Own, Sealed
<1>4. Alone(e) => ~ Mine(e)
  BY <1>2 DEF Alone
<1>5. CASE /\ had' = [had EXCEPT ![e] = Exists(Destination)]
           /\ dir' = IF Exists(Destination) THEN Renamed(Destination, Old(e)) ELSE dir
           /\ Goto(e, "placing")
           /\ UNCHANGED <<result, trouble>>
  <2>1. /\ Touches(had, had', e) /\ Touches(pc, pc', e) /\ pc'[e] = "placing"
        /\ result' = result /\ trouble' = trouble
        /\ Touches(result, result', e) /\ Touches(trouble, trouble', e)
    BY <1>1, <1>5, DomainsAre, Touching DEF Goto
  <2>2. CASE Exists(Destination)
    <3>1. dir' = Renamed(Destination, Old(e)) /\ Destination \in DOMAIN dir
      BY <1>5, <2>2 DEF Exists
    <3>2. /\ Gone(Destination) /\ Moved(Destination, Old(e)) /\ OnlyMoves
          /\ \A d : d \notin {Destination, Old(e)} => Same(d)
      BY <3>1, DirectoriesDiffer, Renaming
    <3>3. Elsewhere(e) /\ Same(Tmp(e))
      BY <3>2, DirectoriesDiffer DEF Elsewhere
    <3>4. Installs(e)
      BY <1>2, <2>1, <3>3 DEF Installs
    <3>5. StepOf(e) /\ Own(e)' /\ Stream(e)'
      <4>1. result'[e] # "ok"
        BY <1>1, <1>2, <2>1 DEF Own
      <4> QED BY <4>1, <3>3, <3>4, <1>2, <1>3, <2>1, InstallsWell
    <3>6. AllSound'
      BY <1>1, <1>2, <3>2, SoundStays DEF OnlyMoves
    <3>7. AloneStep(e)
      BY <1>4, <2>1, <3>2 DEF AloneStep, Alone, Mine, Exists, Gone, Moved, Filling
    <3>8. Secure(Destination) => Firm'
      BY <3>2, <2>1, MovedIsSecure DEF Firm
    <3>9. ~ Secure(Old(e))
      BY <1>3 DEF Secure, Good, Exists
    <3>10. FirmStep(e)
      BY <3>5, <3>8, <3>9, <1>2, <2>1, FirmMoves
    <3> QED BY <3>5, <3>6, <3>7, <3>10 DEF Keeps
  <2>3. CASE ~ Exists(Destination)
    <3>1. dir' = dir
      BY <1>5, <2>3
    <3>2. OnlyTmp(e) /\ Same(Tmp(e)) /\ Elsewhere(e)
      BY <3>1, OnlyTmpIsMine
    <3>3. Installs(e)
      BY <1>2, <2>1, <3>2 DEF Installs
    <3>4. Own(e)' /\ Stream(e)'
      <4>1. result'[e] # "ok"
        BY <1>1, <1>2, <2>1 DEF Own
      <4> QED BY <4>1, <3>2, <3>3, <1>2, <1>3, <2>1, InstallsWell
    <3>5. AloneStep(e)
      BY <2>3, <2>1, <3>1, <1>3 DEF AloneStep, Alone, Mine, Exists, Filling
    <3>6. /\ Touches(segment, segment', e)
      BY <1>1, <1>2, DomainsAre
    <3> QED BY <3>1, <3>4, <3>5, <3>6, <1>2, <1>3, <2>1, StaysPut
  <2> QED BY <2>2, <2>3
<1>6. CASE End(e, dir, "failed") /\ Trouble(e) /\ UNCHANGED had
  <2>1. Touches(trouble, trouble', e) /\ trouble'[e] = TRUE /\ had' = had /\ End(e, dir, "failed")
    BY <1>1, <1>6, DomainsAre, Touching DEF Trouble
  <2> QED BY <2>1, <1>2, <1>3, <1>4, EndsWell
<1> QED BY <1>5, <1>6 DEF Preserve

\* The new archive is moved into place.
LEMMA PlaceKeeps ==
    ASSUME ExportInv, NEW e \in Exporter, Place(e) PROVE Keeps(e)
PROOF
<1>1. Typed /\ Own(e) /\ AllSound
  BY DEF ExportInv
<1>2. /\ pc[e] = "placing" /\ history' = history /\ now' = now /\ forced' = forced
      /\ helper' = helper /\ pipe' = pipe /\ segment' = segment /\ had' = had
      /\ decayed' = decayed /\ taken' = taken
  BY DEF Place, phone, stream, mishaps
<1>3. /\ Touches(helper, helper', e) /\ Touches(pipe, pipe', e) /\ Touches(had, had', e)
      /\ Touches(segment, segment', e)
      /\ HelperIs(helper[e]) /\ helper[e].state # "running" /\ IsSeq(pipe[e])
      /\ helper[e].state = "failed" => trouble[e]
      /\ result[e] # "ok"
      /\ Old(e) \in DOMAIN dir => e \in forced
      /\ Tmp(e) \in DOMAIN dir /\ dir[Tmp(e)].by = e /\ dir[Tmp(e)].sealed
  BY <1>1, <1>2, DomainsAre DEF Own, Sealed
<1>4. Alone(e) => ~ Exists(Destination)
  BY <1>2 DEF Alone
<1>5. CASE /\ CanRename(Tmp(e), Destination) /\ dir' = Renamed(Tmp(e), Destination)
           /\ Goto(e, "checking") /\ UNCHANGED <<result, trouble>>
  <2>1. /\ Touches(pc, pc', e) /\ pc'[e] = "checking"
        /\ result' = result /\ trouble' = trouble
        /\ Touches(result, result', e) /\ Touches(trouble, trouble', e)
    BY <1>1, <1>5, DomainsAre, Touching DEF Goto
  <2>2. /\ Gone(Tmp(e)) /\ Moved(Tmp(e), Destination) /\ OnlyMoves
        /\ \A d : d \notin {Tmp(e), Destination} => Same(d)
    BY <1>3, <1>5, DirectoriesDiffer, Renaming
  <2>3. Elsewhere(e) /\ Same(Old(e))
    BY <2>2, DirectoriesDiffer DEF Elsewhere
  <2>4. Installs(e)
    BY <1>2, <1>3, <2>1, <2>3 DEF Installs
  <2>5. StepOf(e) /\ Own(e)' /\ Stream(e)'
    <3>1. Old(e) \in DOMAIN dir' => e \in forced
      BY <1>3, <2>3 DEF Same
    <3> QED BY <3>1, <1>2, <1>3, <2>1, <2>2, <2>4, InstallsWell
  <2>6. AllSound'
    BY <1>1, <1>2, <2>2, SoundStays DEF OnlyMoves
  <2>7. AloneStep(e)
    BY <1>3, <2>1, <2>2, <2>3 DEF AloneStep, Alone, Mine, Exists, Moved, Same, Filling
  <2>8. ~ Secure(Destination)
    BY <1>5 DEF CanRename, Secure, Good
  <2>9. Secure(Old(e)) => Firm'
    BY <2>1, <2>3, SecureStays DEF Firm
  <2>10. FirmStep(e)
    BY <2>5, <2>8, <2>9, <1>2, <2>1, FirmMoves
  <2> QED BY <2>5, <2>6, <2>7, <2>10 DEF Keeps
<1>6. CASE /\ IF had[e] THEN Goto(e, "restoring") /\ UNCHANGED <<dir, result>>
                        ELSE End(e, dir, "failed")
           /\ IF CanRename(Tmp(e), Destination) THEN Trouble(e) ELSE UNCHANGED trouble
  <2>1. Touches(trouble, trouble', e) /\ trouble[e] => trouble'[e]
    BY <1>1, <1>6, DomainsAre, Touching DEF Trouble
  <2>2. Touches(trouble, trouble', e)
    BY <1>1, <1>6, DomainsAre, Touching DEF Trouble
  <2>3. ~ Exists(Destination) => trouble'[e]
    <3>1. ~ Exists(Destination) => trouble' = [trouble EXCEPT ![e] = TRUE]
      BY <1>3, <1>6 DEF CanRename, Exists, Trouble
    <3> QED BY <3>1, <1>1, DomainsAre, Touching
  <2>4. CASE had[e]
    <3>1. pc' = [pc EXCEPT ![e] = "restoring"] /\ dir' = dir /\ result' = result
      BY <1>6, <2>4 DEF Goto
    <3>2. /\ Touches(pc, pc', e) /\ pc'[e] = "restoring" /\ Touches(result, result', e)
      BY <3>1, <1>1, DomainsAre, Touching
    <3>3. OnlyTmp(e) /\ Elsewhere(e)
      BY <3>1, OnlyTmpIsMine
    <3>4. Installs(e)
      BY <1>2, <1>3, <2>1, <2>2, <3>2, <3>3 DEF Installs
    <3>5. Own(e)' /\ Stream(e)'
      BY <1>2, <1>3, <3>1, <3>2, <3>4, InstallsWell
    <3>6. AloneStep(e)
      BY <1>2, <1>4, <2>3, <3>1, <3>2 DEF AloneStep, Alone, Mine, Exists, Filling
    <3> QED BY <1>2, <1>3, <2>2, <3>1, <3>2, <3>5, <3>6, StaysPut
  <2>5. CASE ~ had[e]
    <3>1. End(e, dir, "failed")
      BY <1>6, <2>5
    <3>2. Alone(e) => ~ Mine(e)
      BY <1>4 DEF Mine
    <3> QED BY <3>1, <3>2, <1>2, <1>3, <1>4, <2>1, <2>2, <2>3, EndsWell
  <2> QED BY <2>4, <2>5
<1> QED BY <1>5, <1>6 DEF Place

\* The old archive is moved back.
LEMMA RestoreKeeps ==
    ASSUME ExportInv, NEW e \in Exporter, Restore(e) PROVE Keeps(e)
PROOF
<1>1. Typed /\ Own(e) /\ AllSound
  BY DEF ExportInv
<1>2. /\ pc[e] = "restoring" /\ history' = history /\ now' = now /\ forced' = forced
      /\ helper' = helper /\ pipe' = pipe /\ segment' = segment /\ had' = had
      /\ decayed' = decayed /\ taken' = taken
  BY DEF Restore, phone, stream, mishaps
<1>3. /\ Touches(helper, helper', e) /\ Touches(pipe, pipe', e) /\ Touches(had, had', e)
      /\ Touches(segment, segment', e)
      /\ HelperIs(helper[e]) /\ helper[e].state # "running" /\ IsSeq(pipe[e])
      /\ helper[e].state = "failed" => trouble[e]
  BY <1>1, <1>2, DomainsAre DEF Own
<1>4. Alone(e) => ~ Exists(Destination) /\ (trouble[e] \/ decayed)
  BY <1>2 DEF Alone
<1>5. CASE /\ CanRename(Old(e), Destination)
           /\ End(e, Renamed(Old(e), Destination), "failed")
           /\ UNCHANGED trouble
  <2>1. /\ Touches(pc, pc', e) /\ pc'[e] = "failed"
        /\ Touches(result, result', e) /\ result'[e] = "failed"
        /\ dir' = Without(Renamed(Old(e), Destination), Tmp(e))
    BY <1>1, <1>5, Ending
  <2>2. trouble' = trouble /\ Touches(trouble, trouble', e) /\ Old(e) \in DOMAIN dir
    BY <1>1, <1>5, DomainsAre DEF CanRename, Exists
  <2>3. /\ Gone(Old(e)) /\ Gone(Tmp(e)) /\ OnlyMoves /\ Moved(Old(e), Destination)
        /\ \A d : d \notin {Old(e), Destination, Tmp(e)} => Same(d)
    BY <2>1, <2>2, DirectoriesDiffer, RenamingAndRemoving
  <2>4. Elsewhere(e)
    BY <2>3 DEF Elsewhere
  <2>5. Installs(e)
    BY <1>2, <1>3, <2>1, <2>2, <2>4 DEF Installs
  <2>6. StepOf(e) /\ Own(e)' /\ Stream(e)'
    <3>1. Old(e) \notin DOMAIN dir'
      BY <2>3 DEF Gone
    <3> QED BY <3>1, <1>2, <2>1, <2>3, <2>5, InstallsWell
  <2>7. AllSound'
    BY <1>1, <1>2, <2>3, SoundStays DEF OnlyMoves
  <2>8. AloneStep(e)
    <3> SUFFICES ASSUME Alone(e) PROVE Alone(e)'
      BY DEF AloneStep
    <3>1. dir[Old(e)].by # e
      BY <2>2 DEF Alone, Exists
    <3>2. ~ Exists(Old(e))' /\ ~ Mine(e)'
      BY <3>1, <2>3 DEF Mine, Exists, Gone, Moved
    <3> QED BY <3>2, <1>2, <1>4, <2>1, <2>2 DEF Alone, Filling
  <2>9. ~ Secure(Destination)
    BY <1>5 DEF CanRename, Secure, Good
  <2>10. Secure(Old(e)) => Firm'
    BY <2>3, MovedIsSecure DEF Firm
  <2>11. FirmStep(e)
    BY <2>1, <2>6, <2>9, <2>10, <1>2, FirmMoves
  <2> QED BY <2>6, <2>7, <2>8, <2>11 DEF Keeps
<1>6. CASE /\ End(e, dir, "remains")
           /\ IF CanRename(Old(e), Destination) THEN Trouble(e) ELSE UNCHANGED trouble
  <2>1. Touches(trouble, trouble', e)
    BY <1>1, <1>6, DomainsAre, Touching DEF Trouble
  <2>2. trouble[e] => trouble'[e]
    BY <1>1, <1>6, DomainsAre, Touching DEF Trouble
  <2>3. Alone(e) => ~ Mine(e)
    BY <1>4 DEF Mine
  <2> QED BY <1>6, <2>1, <2>2, <2>3, <1>2, <1>3, <1>4, EndsWell
<1> QED BY <1>5, <1>6 DEF Restore

\* That an archive was looked at changes nothing in it.
LEMMA LookingIsSafe ==
    ASSUME NEW a, DOMAIN a = Fields
    PROVE  LET b == [a EXCEPT !.checked = TRUE] IN
           /\ \A h, lost : Sound(h, lost, a) => Sound(h, lost, b)
           /\ b.by = a.by /\ b.checked = TRUE
           /\ b.sealed = a.sealed
           /\ Verify(a) => Verify(b)
PROOF
<1> DEFINE b == [a EXCEPT !.checked = TRUE]
<1>1. /\ DOMAIN b = Fields /\ b.by = a.by /\ b.sealed = a.sealed /\ b.manifest = a.manifest
      /\ b.files = a.files /\ b.sent = a.sent /\ b.from = a.from /\ b.until = a.until
      /\ b.checked = TRUE
  BY DEF Fields
<1> HIDE DEF b
<1>2. Verify(b) <=> Verify(a)
  BY <1>1 DEF Verify
<1>3. (Lossless(b) <=> Lossless(a)) /\ (Intact(b) <=> Intact(a))
  BY <1>1 DEF Lossless, Intact
<1>4. \A h : Steady(h, b) <=> Steady(h, a)
  BY <1>1 DEF Steady
<1>5. \A h : Fine(h, b) <=> Fine(h, a)
  BY <1>1, <1>2, <1>3, <1>4 DEF Fine
<1>6. \A h, lost : Sound(h, lost, a) => Sound(h, lost, b)
  BY <1>1, <1>2, <1>3, <1>5 DEF Sound
<1> QED BY <1>1, <1>2, <1>6 DEF b

\* The verification after the installation.
LEMMA CheckKeeps ==
    ASSUME ExportInv, NEW e \in Exporter, Check(e) PROVE Keeps(e)
PROOF
<1>1. Typed /\ Own(e) /\ AllSound
  BY DEF ExportInv
<1>2. /\ pc[e] = "checking" /\ history' = history /\ now' = now /\ forced' = forced
      /\ helper' = helper /\ pipe' = pipe /\ segment' = segment /\ had' = had
      /\ result' = result /\ trouble' = trouble
      /\ decayed' = decayed /\ taken' = taken
  BY DEF Check, phone, stream, outcome, mishaps
<1>3. /\ Touches(helper, helper', e) /\ Touches(pipe, pipe', e) /\ Touches(had, had', e)
      /\ Touches(segment, segment', e) /\ Touches(result, result', e) /\ Touches(trouble, trouble', e)
      /\ result[e] # "ok" /\ Tmp(e) \notin DOMAIN dir
      /\ Old(e) \in DOMAIN dir => e \in forced
  BY <1>1, <1>2, DomainsAre DEF Own
<1>4. CASE Good(Destination)
  <2> DEFINE a == dir[Destination]
             b == [a EXCEPT !.checked = TRUE]
  <2>1. /\ pc' = [pc EXCEPT ![e] = "removing"]
        /\ dir' = [dir EXCEPT ![Destination].checked = TRUE]
    BY <1>4 DEF Check, Goto
  <2>2. Destination \in DOMAIN dir /\ Verify(a) /\ Sound(history, decayed, a) /\ DOMAIN a = Fields
    BY <1>1, <1>4 DEF Good, Exists, AllSound, Sound
  <2>3. /\ Sound(history, decayed, b) /\ b.by = a.by /\ b.checked = TRUE /\ Verify(b)
    BY <2>2, LookingIsSafe
  <2>4. DOMAIN dir' = DOMAIN dir /\ dir'[Destination] = b /\ \A d : d # Destination => Same(d)
    BY <2>1, <2>2 DEF Same
  <2> HIDE DEF b
  <2>5. Elsewhere(e) /\ Same(Tmp(e)) /\ Same(Old(e))
    BY <2>4, DirectoriesDiffer DEF Elsewhere
  <2>6. Touches(pc, pc', e) /\ pc'[e] = "removing"
    BY <2>1, <1>1, DomainsAre, Touching
  <2>7. Installs(e)
    BY <1>2, <1>3, <2>5, <2>6 DEF Installs
  <2>8. StepOf(e) /\ Own(e)' /\ Stream(e)'
    BY <1>2, <1>3, <2>4, <2>6, <2>7, InstallsWell DEF Gone
  <2>9. AllSound'
    <3>1. ASSUME NEW d \in DOMAIN dir' PROVE Sound(history, decayed, dir'[d])
      <4>1. CASE d = Destination
        BY <4>1, <2>3, <2>4
      <4>2. CASE d # Destination
        BY <4>2, <2>4, <1>1 DEF AllSound, Same
      <4> QED BY <4>1, <4>2
    <3> QED BY <3>1, <1>2 DEF AllSound
  <2>10. Secure(Destination)'
    BY <2>2, <2>3, <2>4 DEF Secure, Good, Exists
  <2>11. Firm'
    BY <2>10 DEF Firm
  <2>12. FirmStep(e)
    BY <1>2, <2>11 DEF FirmStep
  <2>13. AloneStep(e)
    <3> SUFFICES ASSUME Alone(e) PROVE Alone(e)'
      BY DEF AloneStep
    <3>1. Mine(e)'
      BY <1>2, <2>2, <2>3, <2>4 DEF Alone, Mine, Exists
    <3>2. Good(Destination)'
      BY <2>10 DEF Secure
    <3>3. Exists(Old(e))' => dir'[Old(e)].by # e
      BY <2>5 DEF Alone, Exists, Same
    <3> QED BY <3>1, <3>2, <3>3, <2>6 DEF Alone, Filling
  <2> QED BY <2>8, <2>9, <2>12, <2>13 DEF Keeps
<1>5. CASE ~ Good(Destination)
  <2>1. pc' = [pc EXCEPT ![e] = "rolling back"] /\ dir' = dir
    BY <1>5 DEF Check, Goto
  <2>2. Touches(pc, pc', e) /\ pc'[e] = "rolling back"
    BY <2>1, <1>1, DomainsAre, Touching
  <2>3. OnlyTmp(e) /\ Elsewhere(e) /\ Gone(Tmp(e))
    BY <2>1, <1>3, OnlyTmpIsMine DEF Gone
  <2>4. Installs(e)
    BY <1>2, <1>3, <2>2, <2>3 DEF Installs
  <2>5. Own(e)' /\ Stream(e)'
    BY <1>2, <1>3, <2>1, <2>2, <2>3, <2>4, InstallsWell
  <2>6. Alone(e) => decayed
    <3> SUFFICES ASSUME Alone(e) PROVE decayed
      OBVIOUS
    <3>1. Destination \in DOMAIN dir /\ dir[Destination].by = e /\ dir[Destination].sealed
      BY <1>2 DEF Alone, Mine, Exists
    <3>2. Sound(history, decayed, dir[Destination])
      BY <3>1, <1>1 DEF AllSound
    <3>3. ~ Verify(dir[Destination])
      BY <3>1, <1>5 DEF Good, Exists
    <3> QED BY <3>1, <3>2, <3>3 DEF Sound, Fine
  <2>7. AloneStep(e)
    BY <1>2, <2>1, <2>2, <2>6 DEF AloneStep, Alone, Mine, Exists, Filling
  <2> QED BY <1>2, <1>3, <2>1, <2>2, <2>5, <2>7, StaysPut
<1> QED BY <1>4, <1>5

\* What is in place is taken back.
LEMMA RollBackKeeps ==
    ASSUME ExportInv, NEW e \in Exporter, RollBack(e) PROVE Keeps(e)
PROOF
<1>1. Typed /\ Own(e) /\ AllSound
  BY DEF ExportInv
<1>2. /\ pc[e] = "rolling back" /\ history' = history /\ now' = now /\ forced' = forced
      /\ helper' = helper /\ pipe' = pipe /\ segment' = segment /\ had' = had
      /\ decayed' = decayed
  BY DEF RollBack, phone, stream
<1>3. /\ Touches(helper, helper', e) /\ Touches(pipe, pipe', e) /\ Touches(had, had', e)
      /\ Touches(segment, segment', e)
      /\ HelperIs(helper[e]) /\ helper[e].state # "running" /\ IsSeq(pipe[e])
      /\ helper[e].state = "failed" => trouble[e]
      /\ result[e] # "ok" /\ Tmp(e) \notin DOMAIN dir
      /\ Old(e) \in DOMAIN dir => e \in forced
  BY <1>1, <1>2, DomainsAre DEF Own
<1>4. Alone(e) => decayed
  BY <1>2 DEF Alone
<1>5. CASE /\ CanRename(Destination, Tmp(e))
           /\ IF had[e] THEN /\ dir' = Renamed(Destination, Tmp(e))
                             /\ Goto(e, "restoring") /\ UNCHANGED result
                        ELSE End(e, Renamed(Destination, Tmp(e)), "failed")
           /\ taken' = (taken \/ dir[Destination].checked)
           /\ UNCHANGED trouble
  <2>1. trouble' = trouble /\ Touches(trouble, trouble', e) /\ Destination \in DOMAIN dir
    BY <1>1, <1>5, DomainsAre DEF CanRename, Exists
  <2>2. (taken => taken') /\ (Secure(Destination) => taken')
    BY <1>5 DEF Secure
  <2>3. /\ Touches(pc, pc', e) /\ Touches(result, result', e) /\ result'[e] # "ok"
        /\ \/ pc'[e] = "restoring"
           \/ pc'[e] = "failed" /\ Gone(Tmp(e))
        /\ Gone(Destination) /\ OnlyMoves
        /\ \A d : d \notin {Destination, Tmp(e)} => Same(d)
    <3>1. CASE had[e]
      <4>1. /\ pc' = [pc EXCEPT ![e] = "restoring"] /\ result' = result
            /\ dir' = Renamed(Destination, Tmp(e))
        BY <1>5, <3>1 DEF Goto
      <4>2. Touches(pc, pc', e) /\ pc'[e] = "restoring" /\ Touches(result, result', e)
        BY <4>1, <1>1, DomainsAre, Touching
      <4>3. /\ Gone(Destination) /\ OnlyMoves
            /\ \A d : d \notin {Destination, Tmp(e)} => Same(d)
        BY <4>1, <2>1, DirectoriesDiffer, Renaming
      <4> QED BY <4>1, <4>2, <4>3, <1>3
    <3>2. CASE ~ had[e]
      <4>1. /\ Touches(pc, pc', e) /\ pc'[e] = "failed"
            /\ Touches(result, result', e) /\ result'[e] = "failed" /\ Gone(Tmp(e))
            /\ dir' = Without(Renamed(Destination, Tmp(e)), Tmp(e))
        BY <1>1, <1>5, <3>2, Ending
      <4>2. /\ Gone(Destination) /\ OnlyMoves
            /\ \A d : d \notin {Destination, Tmp(e)} => Same(d)
        BY <4>1, <2>1, DirectoriesDiffer, RenamingAndRemoving
      <4> QED BY <4>1, <4>2
    <3> QED BY <3>1, <3>2
  <2>4. Elsewhere(e) /\ Same(Old(e))
    BY <2>3, DirectoriesDiffer DEF Elsewhere
  <2>5. Installs(e)
    BY <1>2, <1>3, <2>1, <2>3, <2>4 DEF Installs
  <2>6. StepOf(e) /\ Own(e)' /\ Stream(e)'
    <3>1. Old(e) \in DOMAIN dir' => e \in forced
      BY <1>3, <2>4 DEF Same
    <3> QED BY <3>1, <1>2, <2>3, <2>5, InstallsWell
  <2>7. AllSound'
    BY <1>1, <1>2, <2>3, SoundStays DEF OnlyMoves
  <2>8. AloneStep(e)
    BY <1>2, <1>4, <2>1, <2>3, <2>4 DEF AloneStep, Alone, Mine, Exists, Gone, Same, Filling
  <2>9. Secure(Old(e)) => Firm'
    <3>1. pc'[e] # "removing"
      BY <2>3
    <3> QED BY <3>1, <2>4, SecureStays DEF Firm
  <2>10. pc'[e] # "removing"
    BY <2>3
  <2>11. FirmStep(e)
    BY <2>2, <2>6, <2>9, <2>10, FirmMoves
  <2> QED BY <2>6, <2>7, <2>8, <2>11 DEF Keeps
<1>6. CASE /\ End(e, dir, IF had[e] THEN "remains" ELSE "failed")
           /\ IF CanRename(Destination, Tmp(e)) THEN Trouble(e) ELSE UNCHANGED trouble
           /\ UNCHANGED taken
  <2>1. Touches(trouble, trouble', e)
    BY <1>1, <1>6, DomainsAre, Touching DEF Trouble
  <2>2. trouble[e] => trouble'[e]
    BY <1>1, <1>6, DomainsAre, Touching DEF Trouble
  <2>3. Mine(e) => trouble'[e]
    <3>1. Mine(e) => trouble' = [trouble EXCEPT ![e] = TRUE]
      BY <1>3, <1>6 DEF Mine, CanRename, Exists, Trouble
    <3> QED BY <3>1, <1>1, DomainsAre, Touching
  <2> DEFINE says == IF had[e] THEN "remains" ELSE "failed"
  <2>4. End(e, dir, says) /\ says # "ok" /\ taken' = taken
    BY <1>6
  <2> HIDE DEF says
  <2> QED BY <2>1, <2>2, <2>3, <2>4, <1>2, <1>3, <1>4, EndsWell
<1> QED BY <1>5, <1>6 DEF RollBack

\* The old archive is removed.
LEMMA RemoveOldKeeps ==
    ASSUME ExportInv, NEW e \in Exporter, RemoveOld(e) PROVE Keeps(e)
PROOF
<1>1. Typed /\ Own(e) /\ AllSound
  BY DEF ExportInv
<1>2. /\ pc[e] = "removing" /\ history' = history /\ now' = now /\ forced' = forced
      /\ helper' = helper /\ pipe' = pipe /\ segment' = segment /\ had' = had
      /\ decayed' = decayed /\ taken' = taken
  BY DEF RemoveOld, phone, stream, mishaps
<1>3. /\ Touches(helper, helper', e) /\ Touches(pipe, pipe', e) /\ Touches(had, had', e)
      /\ Touches(segment, segment', e)
      /\ result[e] # "ok" /\ Tmp(e) \notin DOMAIN dir
      /\ Old(e) \in DOMAIN dir => e \in forced
  BY <1>1, <1>2, DomainsAre DEF Own
<1>4. CASE /\ Goto(e, "done") /\ dir' = Without(dir, Old(e))
           /\ result' = [result EXCEPT ![e] = "ok"] /\ UNCHANGED trouble
  <2>1. /\ Touches(pc, pc', e) /\ pc'[e] = "done"
        /\ Touches(result, result', e) /\ result'[e] = "ok"
        /\ trouble' = trouble /\ Touches(trouble, trouble', e)
    BY <1>1, <1>4, DomainsAre, Touching DEF Goto
  <2>2. Gone(Old(e)) /\ \A d : d # Old(e) => Same(d)
    BY <1>4 DEF Without, Gone, Same
  <2>3. OnlyMoves
    BY <1>4 DEF Without, OnlyMoves
  <2>4. Elsewhere(e) /\ Same(Destination) /\ Gone(Tmp(e))
    BY <1>3, <2>2, DirectoriesDiffer DEF Elsewhere, Same, Gone
  <2>5. Installs(e)
    BY <1>2, <1>3, <2>1, <2>4 DEF Installs
  <2>6. StepOf(e) /\ Own(e)' /\ Stream(e)'
    <3>1. Old(e) \notin DOMAIN dir'
      BY <2>2 DEF Gone
    <3> QED BY <3>1, <1>2, <2>1, <2>4, <2>5, InstallsWell
  <2>7. AllSound'
    BY <1>1, <1>2, <2>3, SoundStays DEF OnlyMoves
  <2>8. AloneStep(e)
    BY <1>2, <2>1, <2>2, <2>4 DEF AloneStep, Alone, Mine, Good, Exists, Gone, Same, Filling
  <2>9. Secure(Destination) => Firm'
    BY <2>4, SecureStays DEF Firm
  <2>10. FirmStep(e)
    BY <1>2, <2>1, <2>6, <2>9, FirmMoves
  <2> QED BY <2>6, <2>7, <2>8, <2>10 DEF Keeps
<1>5. CASE /\ had[e] /\ Exists(Old(e))
           /\ End(e, [dir EXCEPT ![Old(e)] = Debris(@)], "failed") /\ Trouble(e)
  <2> DEFINE a == dir[Old(e)]
             b == Debris(a)
             left == [dir EXCEPT ![Old(e)] = b]
  <2>1. /\ Touches(pc, pc', e) /\ pc'[e] = "failed"
        /\ Touches(result, result', e) /\ result'[e] = "failed" /\ Gone(Tmp(e))
        /\ dir' = Without(left, Tmp(e))
    BY <1>1, <1>5, Ending
  <2>2. Old(e) \in DOMAIN dir /\ DOMAIN a = Fields
    BY <1>1, <1>5 DEF Exists, AllSound, Sound
  <2>3. DOMAIN b = Fields /\ b.sealed = FALSE /\ b.by = a.by
    BY <2>2 DEF Debris, Fields
  <2> HIDE DEF b
  <2>4. DOMAIN left = DOMAIN dir /\ left[Old(e)] = b /\ \A d \in DOMAIN dir : d # Old(e) => left[d] = dir[d]
    BY <2>2
  <2> HIDE DEF left
  <2>5. DOMAIN dir' = DOMAIN dir /\ \A d \in DOMAIN dir' : dir'[d] = left[d]
    BY <2>1, <2>4, <1>3 DEF Without
  <2>6. dir'[Old(e)] = b /\ \A d : d # Old(e) => Same(d)
    BY <2>2, <2>4, <2>5 DEF Same
  <2>7. Touches(trouble, trouble', e) /\ trouble'[e] = TRUE
    BY <1>1, <1>5, DomainsAre, Touching DEF Trouble
  <2>8. Elsewhere(e) /\ Same(Destination)
    BY <2>6, DirectoriesDiffer DEF Elsewhere
  <2>9. Installs(e)
    BY <1>2, <1>3, <2>1, <2>7, <2>8 DEF Installs
  <2>10. StepOf(e) /\ Own(e)' /\ Stream(e)'
    BY <1>2, <1>3, <2>1, <2>2, <2>9, InstallsWell
  <2>11. AllSound'
    <3>1. ASSUME NEW d \in DOMAIN dir' PROVE Sound(history, decayed, dir'[d])
      <4>1. CASE d = Old(e)
        <5>1. ~ Verify(b)
          BY <2>3 DEF Verify
        <5> QED BY <4>1, <5>1, <2>3, <2>6 DEF Sound
      <4>2. CASE d # Old(e)
        BY <4>2, <2>5, <2>6, <1>1 DEF AllSound, Same
      <4> QED BY <4>1, <4>2
    <3> QED BY <3>1, <1>2 DEF AllSound
  <2>12. AloneStep(e)
    BY <1>2, <2>1, <2>2, <2>3, <2>6, <2>7, <2>8 DEF AloneStep, Alone, Mine, Exists, Same, Filling
  <2>13. Secure(Destination) => Firm'
    BY <2>8, SecureStays DEF Firm
  <2>14. FirmStep(e)
    BY <1>2, <2>1, <2>10, <2>13, FirmMoves
  <2> QED BY <2>10, <2>11, <2>12, <2>14 DEF Keeps
<1> QED BY <1>4, <1>5 DEF RemoveOld

-----------------------------------------------------------------------------
(* The disk and the phone.                                                 *)

\* What has lost a file is not intact, and so claims nothing.
LEMMA DecayIsSeen ==
    ASSUME NEW h, NEW lost, ~ lost, NEW a, DOMAIN a = Fields, Sound(h, lost, a), a.by \in Exporter,
           NEW p \in DOMAIN a.files
    PROVE  LET b == [a EXCEPT !.files[p] = <<>>] IN
           Sound(h, TRUE, b) /\ b.by = a.by /\ b.sealed = a.sealed
PROOF
<1> DEFINE f == [a.files EXCEPT ![p] = <<>>]
           b == [a EXCEPT !.files = f]
<1>1. b = [a EXCEPT !.files[p] = <<>>]
  OBVIOUS
<1>2. DOMAIN f = DOMAIN a.files /\ f[p] = <<>>
  OBVIOUS
<1> HIDE DEF f
<1>3. /\ DOMAIN b = Fields /\ b.by = a.by /\ b.sealed = a.sealed
      /\ b.manifest = a.manifest /\ b.files = f
  BY DEF Fields
<1> HIDE DEF b
<1>4. a.sealed => ~ Intact(b)
  <2> SUFFICES ASSUME a.sealed, Intact(b) PROVE FALSE
    OBVIOUS
  <2>1. Intact(a) /\ a.files[p] # <<>>
    BY DEF Sound, Fine
  <2>2. a.files[p] = a.manifest[p].sha256
    BY <2>1 DEF Intact
  <2>3. f[p] = a.manifest[p].sha256
    BY <1>2, <1>3 DEF Intact
  <2> QED BY <1>2, <2>1, <2>2, <2>3
<1>5. Sound(h, TRUE, b)
  BY <1>3, <1>4 DEF Sound, Fine
<1> QED BY <1>1, <1>3, <1>5

\* The disk loses a file.
LEMMA DecaysKeeps ==
    ASSUME ExportInv, NEW e \in Exporter, Decays(e) PROVE Keeps(e)
PROOF
<1> DEFINE d == IF pc[e] = "checking" THEN Destination ELSE Tmp(e)
           a == dir[d]
<1>1. Typed /\ Own(e) /\ AllSound
  BY DEF ExportInv
<1>2. /\ pc[e] \in {"verifying", "preserving", "placing", "checking"}
      /\ ~ decayed /\ d \in DOMAIN dir /\ a.by = e /\ ~ a.checked
      /\ decayed' = TRUE /\ taken' = taken
      /\ history' = history /\ now' = now /\ forced' = forced /\ pc' = pc
      /\ helper' = helper /\ pipe' = pipe /\ segment' = segment
      /\ had' = had /\ result' = result /\ trouble' = trouble
  BY DEF Decays, phone, stream, outcome, Exists
<1>3. PICK p \in DOMAIN a.files : dir' = [dir EXCEPT ![d].files[p] = <<>>]
  BY DEF Decays
<1> DEFINE b == [a EXCEPT !.files[p] = <<>>]
<1>4. Sound(history, TRUE, b) /\ b.by = a.by /\ b.sealed = a.sealed
  <2>1. Sound(history, decayed, a) /\ DOMAIN a = Fields
    BY <1>1, <1>2 DEF AllSound, Sound
  <2> HIDE DEF a, d
  <2> QED BY <2>1, <1>2, DecayIsSeen
<1>5. DOMAIN dir' = DOMAIN dir /\ dir'[d] = b /\ \A x : x # d => Same(x)
  <2>1. dir' = [dir EXCEPT ![d] = b]
    BY <1>3
  <2> HIDE DEF b, d
  <2> QED BY <2>1, <1>2 DEF Same
<1> HIDE DEF b
<1>6. d \in {Destination, Tmp(e)}
  OBVIOUS
<1>7. Elsewhere(e) /\ Same(Old(e))
  <2> HIDE DEF d, a
  <2> QED BY <1>5, <1>6, DirectoriesDiffer DEF Elsewhere
<1>8. /\ Touches(pc, pc', e) /\ Touches(helper, helper', e) /\ Touches(pipe, pipe', e)
      /\ Touches(segment, segment', e) /\ Touches(had, had', e)
      /\ Touches(result, result', e) /\ Touches(trouble, trouble', e)
  BY <1>1, <1>2, DomainsAre
<1>9. StepOf(e)
  BY <1>2, <1>7, <1>8 DEF StepOf
<1>10. AllSound'
  <2>1. ASSUME NEW x \in DOMAIN dir' PROVE Sound(history, TRUE, dir'[x])
    <3>1. CASE x = d
      BY <3>1, <1>4, <1>5
    <3>2. CASE x # d
      <4>1. Sound(history, decayed, dir[x]) /\ dir'[x] = dir[x]
        BY <3>2, <1>1, <1>5 DEF AllSound, Same
      <4> QED BY <4>1 DEF Sound
    <3> QED BY <3>1, <3>2
  <2> QED BY <2>1, <1>2 DEF AllSound
<1>11. /\ Tmp(e) \in DOMAIN dir' <=> Tmp(e) \in DOMAIN dir
       /\ Tmp(e) \in DOMAIN dir => dir'[Tmp(e)].by = dir[Tmp(e)].by /\ dir'[Tmp(e)].sealed = dir[Tmp(e)].sealed
  <2>1. CASE d = Tmp(e)
    BY <2>1, <1>4, <1>5
  <2>2. CASE d # Tmp(e)
    <3> HIDE DEF d
    <3> QED BY <2>2, <1>5 DEF Same
  <2> QED BY <2>1, <2>2
<1>12. /\ Destination \in DOMAIN dir' <=> Destination \in DOMAIN dir
       /\ Destination \in DOMAIN dir =>
             dir'[Destination].by = dir[Destination].by /\ dir'[Destination].sealed = dir[Destination].sealed
  <2>1. CASE d = Destination
    BY <2>1, <1>4, <1>5
  <2>2. CASE d # Destination
    <3> HIDE DEF d
    <3> QED BY <2>2, <1>5 DEF Same
  <2> QED BY <2>1, <2>2
<1>13. Secure(Destination) => Firm'
  <2>1. Secure(Destination) => d # Destination
    BY <1>2 DEF Secure
  <2> HIDE DEF d
  <2>2. d # Destination => Same(Destination)
    BY <1>5
  <2> QED BY <2>1, <2>2, SecureStays DEF Firm
<1> HIDE DEF d, a
<1>14. Own(e)'
  BY <1>1, <1>2, <1>7, <1>11 DEF Own, Same
<1>15. Stream(e)'
  BY <1>2 DEF Stream
<1>16. AloneStep(e)
  BY <1>2, <1>7, <1>12 DEF AloneStep, Alone, Mine, Exists, Same, Filling
<1>17. FirmStep(e)
  <2>1. Secure(Old(e)) => Firm'
    BY <1>2, <1>7, SecureStays DEF Firm
  <2> QED BY <2>1, <1>2, <1>9, <1>13, FirmMoves
<1> QED BY <1>9, <1>10, <1>14, <1>15, <1>16, <1>17 DEF Keeps

\* What was sent was sent by any later time.
LEMMA SentUpToLater ==
    ASSUME NEW h, NEW n \in Nat, NEW a, NEW q, SentUpTo(h, n, a, q)
    PROVE  SentUpTo(h, n + 1, a, q)
PROOF
<1>1. a.from \in 1 .. n + 1 /\ a.until \in a.from .. n + 1
  BY DEF SentUpTo
<1> DEFINE m == n + 1
<1>2. a.from \in 1 .. m /\ a.until \in a.from .. m
  BY <1>1
<1> HIDE DEF m
<1>3. SentUpTo(h, m, a, q)
  BY <1>2 DEF SentUpTo
<1> QED BY <1>3 DEF m

\* The phone changes.
LEMMA ChangesKeeps ==
    ASSUME ExportInv, Changes
    PROVE  /\ ExportInv'
           /\ dir' = dir /\ pc' = pc /\ taken' = taken /\ trouble' = trouble
           /\ result' = result /\ decayed' = decayed /\ forced' = forced
PROOF
<1>1. /\ now < Len(history) /\ now' = now + 1 /\ history' = history /\ forced' = forced
      /\ dir' = dir /\ pc' = pc /\ helper' = helper /\ pipe' = pipe /\ segment' = segment
      /\ had' = had /\ result' = result /\ trouble' = trouble
      /\ decayed' = decayed /\ taken' = taken
  BY DEF Changes, stream, outcome, mishaps
<1>2. Typed /\ AllSound /\ now \in Nat /\ Len(history) \in Nat
  BY HistoriesAssumption DEF ExportInv, Typed
<1>3. Typed'
  BY <1>1, <1>2 DEF Typed
<1>4. AllSound'
  BY <1>1, <1>2 DEF AllSound
<1>5. ASSUME NEW e \in Exporter PROVE Own(e)' /\ Stream(e)'
  <2>1. Own(e) /\ Stream(e)
    BY DEF ExportInv
  <2>2. Own(e)'
    BY <2>1, <1>1 DEF Own
  <2>3. pc[e] = "reading" =>
          \E read : Flows(history, now + 1, dir[Tmp(e)], read, pipe[e], segment[e], helper[e].query)
    BY <2>1, <1>2, SentUpToLater DEF Stream, Flows
  <2>4. pc[e] \in {"waiting", "manifest"} => SentUpTo(history, now + 1, dir[Tmp(e)], 9)
    BY <2>1, <1>2, SentUpToLater DEF Stream
  <2> DEFINE m == now + 1
  <2>5. now' = m
    BY <1>1
  <2>6. Stream(e)'
    <3>1. pc[e] = "reading" =>
            \E read : Flows(history, m, dir[Tmp(e)], read, pipe[e], segment[e], helper[e].query)
      BY <2>3
    <3>2. pc[e] \in {"waiting", "manifest"} => SentUpTo(history, m, dir[Tmp(e)], 9)
      BY <2>4
    <3> HIDE DEF m
    <3> QED BY <2>1, <2>5, <3>1, <3>2, <1>1 DEF Stream
  <2> QED BY <2>2, <2>6
<1> QED BY <1>1, <1>3, <1>4, <1>5 DEF ExportInv

-----------------------------------------------------------------------------
(* The invariants hold.                                                    *)

ExportStep(e) == Start(e) \/ Export(e) \/ Aborts(e) \/ Helper(e) \/ Dies(e) \/ Decays(e)

\* Every step of an exporter or of its helper keeps what there is to keep.
LEMMA EveryStepKeeps ==
    ASSUME ExportInv, NEW e \in Exporter, ExportStep(e) PROVE Keeps(e)
PROOF
<1>1. CASE Export(e)
  BY <1>1, ReadKeeps, EndOfStreamKeeps, WaitKeeps, WriteManifestKeeps, VerifyNewKeeps,
     PreserveKeeps, PlaceKeeps, RestoreKeeps, CheckKeeps, RollBackKeeps, RemoveOldKeeps DEF Export
<1>2. CASE Helper(e)
  BY <1>2, QueryKeeps, HelperExitsKeeps, HelperFailsKeeps DEF Helper
<1> QED BY <1>1, <1>2, StartKeeps, AbortsKeeps, DiesKeeps, DecaysKeeps DEF ExportStep

\* Who has begun does not become idle again.
LEMMA NobodyStartsOver ==
    ASSUME ExportInv, NEW e \in Exporter, ExportStep(e) PROVE pc'[e] # "idle"
PROOF
<1>1. DOMAIN pc = Exporter /\ (helper[e].state = "running" => pc[e] # "idle")
  BY DEF ExportInv, Typed, Own
<1>2. ASSUME NEW next, Goto(e, next), next # "idle" PROVE pc'[e] # "idle"
  BY <1>1, <1>2 DEF Goto
<1>3. ASSUME NEW directories, NEW says, End(e, directories, says) PROVE pc'[e] # "idle"
  BY <1>2, <1>3 DEF End
<1>4. CASE Start(e)
  BY <1>2, <1>3, <1>4 DEF Start
<1>5. CASE Read(e) \/ EndOfStream(e) \/ Wait(e)
  BY <1>2, <1>3, <1>5 DEF Read, EndOfStream, Wait
<1>6. CASE WriteManifest(e) \/ VerifyNew(e) \/ Preserve(e) \/ Place(e)
  <2>1. ASSUME VerifyNew(e) PROVE pc'[e] # "idle"
    <3> DEFINE next == IF e \in forced THEN "preserving" ELSE "placing"
    <3>1. next # "idle"
      OBVIOUS
    <3>2. Goto(e, next) \/ End(e, dir, "failed")
      BY <2>1 DEF VerifyNew
    <3> HIDE DEF next
    <3> QED BY <3>1, <3>2, <1>2, <1>3
  <2> QED BY <2>1, <1>2, <1>3, <1>6 DEF WriteManifest, Preserve, Place
<1>7. CASE Restore(e) \/ Check(e) \/ RollBack(e) \/ RemoveOld(e)
  BY <1>2, <1>3, <1>7 DEF Restore, Check, RollBack, RemoveOld
<1>8. CASE Aborts(e) \/ Dies(e)
  BY <1>2, <1>3, <1>8 DEF Aborts, Dies
<1>9. CASE Helper(e)
  BY <1>1, <1>9 DEF Helper, Query, HelperExits, HelperFails, outcome, mishaps
<1>10. CASE Decays(e)
  BY <1>10 DEF Decays
<1> QED BY <1>4, <1>5, <1>6, <1>7, <1>8, <1>9, <1>10 DEF ExportStep, Export

Inv == ExportInv /\ AloneInv /\ KeptInv

\* The invariant holds at first.
LEMMA InvAtFirst == Init => Inv
PROOF
<1> SUFFICES ASSUME Init PROVE Inv
  OBVIOUS
<1>1. /\ history \in Histories /\ now = 1 /\ pc = [e \in Exporter |-> "idle"]
      /\ helper = [e \in Exporter |-> NoHelper] /\ pipe = [e \in Exporter |-> <<>>]
      /\ segment = [e \in Exporter |-> NoSegment] /\ had = [e \in Exporter |-> FALSE]
      /\ result = [e \in Exporter |-> "none"] /\ trouble = [e \in Exporter |-> FALSE]
      /\ \/ dir = <<>>
         \/ \E old \in OldArchives : dir = [d \in {Destination} |-> old]
  BY DEF Init
<1>2. \A d \in DOMAIN dir : d = Destination /\ dir[d] \in OldArchives
  <2>1. CASE dir = <<>>
    BY <2>1, EmptyIsSeq
  <2>2. CASE \E old \in OldArchives : dir = [d \in {Destination} |-> old]
    BY <2>2
  <2> QED BY <2>1, <2>2, <1>1
<1>3. Typed
  BY <1>1, HistoriesAssumption DEF Typed
<1>4. AllSound
  BY <1>2, OldArchivesAssumption DEF AllSound, Sound, Fields
<1>5. HelperIs(NoHelper) /\ NoHelper.state = "none"
  BY EmptyIsSeq DEF HelperIs, NoHelper
<1>6. IsSeq(NoSegment.recent) /\ Len(NoSegment.recent) <= MaxOpenFiles
  BY EmptyIsSeq, LimitAssumption DEF NoSegment
<1>7. ASSUME NEW e \in Exporter PROVE Own(e) /\ Stream(e) /\ Alone(e)
  <2>1. /\ pc[e] = "idle" /\ helper[e] = NoHelper /\ pipe[e] = <<>> /\ segment[e] = NoSegment
        /\ result[e] = "none"
    BY <1>1
  <2>2. Tmp(e) \notin DOMAIN dir /\ Old(e) \notin DOMAIN dir
    BY <1>2, DirectoriesDiffer
  <2>3. Own(e)
    BY <2>1, <2>2, <1>5, <1>6, EmptyIsSeq DEF Own, Pcs, Filling, Sealed
  <2>4. Stream(e)
    BY <2>1 DEF Stream
  <2>5. ~ Mine(e)
    BY <1>2, OldArchivesAssumption DEF Mine, Exists
  <2>6. Alone(e)
    BY <2>1, <2>2, <2>5 DEF Alone, Exists, Filling
  <2> QED BY <2>3, <2>4, <2>6
<1>8. KeptInv
  BY <1>1 DEF KeptInv
<1> QED BY <1>3, <1>4, <1>7, <1>8 DEF Inv, ExportInv, AloneInv

\* No step disturbs the type of the state.
LEMMA TypedStays == ASSUME Typed, NEW e \in Exporter, StepOf(e) PROVE Typed'
PROOF BY DEF Typed, StepOf, Touches

\* The invariant is kept by every step of an exporter.
LEMMA StepKeepsInv ==
    ASSUME Inv, NEW e \in Exporter, ExportStep(e)
    PROVE  Inv' /\ Keeps(e)
PROOF
<1>1. ExportInv /\ Keeps(e) /\ pc'[e] # "idle"
  BY EveryStepKeeps, NobodyStartsOver DEF Inv
<1>2. StepOf(e) /\ AllSound' /\ Own(e)' /\ Stream(e)' /\ AloneStep(e) /\ FirmStep(e)
  BY <1>1 DEF Keeps
<1>3. ExportInv'
  <2>1. \A o \in Exporter : Own(o)' /\ Stream(o)'
    BY <1>1, <1>2, OthersKeepTheirs
  <2>2. Typed'
    BY <1>1, <1>2, TypedStays DEF ExportInv
  <2> QED BY <2>1, <2>2, <1>2 DEF ExportInv
<1>4. AloneInv'
  <2>1. ASSUME NEW o \in Exporter, OnItsOwn(o)' PROVE Alone(o)'
    <3>1. o = e
      BY <1>1, <2>1 DEF OnItsOwn
    <3>2. OnItsOwn(e)
      BY <3>1, <2>1, <1>2 DEF OnItsOwn, StepOf, Touches
    <3> QED BY <3>1, <3>2, <1>2 DEF Inv, AloneInv, AloneStep
  <2> QED BY <2>1 DEF AloneInv
<1>5. KeptInv'
  <2> SUFFICES ASSUME NEW o \in Exporter, pc'[o] = "removing" PROVE Firm' \/ taken'
    BY DEF KeptInv
  <2>1. pc[o] = "removing" => Firm' \/ taken'
    BY <1>2 DEF Inv, KeptInv, FirmStep
  <2>2. o # e => pc[o] = "removing"
    BY <1>2 DEF StepOf, Touches
  <2> QED BY <2>1, <2>2, <1>2 DEF FirmStep
<1> QED BY <1>1, <1>3, <1>4, <1>5 DEF Inv

\* It is kept by the phone, and when nothing happens.
LEMMA OthersKeepInv ==
    ASSUME Inv, Changes \/ UNCHANGED vars
    PROVE  Inv' /\ dir' = dir
PROOF
<1>1. /\ ExportInv' /\ dir' = dir /\ pc' = pc /\ taken' = taken /\ trouble' = trouble
      /\ result' = result /\ decayed' = decayed /\ forced' = forced
  <2>1. CASE Changes
    BY <2>1, ChangesKeeps DEF Inv
  <2>2. CASE UNCHANGED vars
    <3>1. /\ history' = history /\ now' = now /\ forced' = forced
          /\ dir' = dir /\ pc' = pc /\ helper' = helper /\ pipe' = pipe /\ segment' = segment
          /\ had' = had /\ result' = result /\ trouble' = trouble
          /\ decayed' = decayed /\ taken' = taken
      BY <2>2 DEF vars, phone, stream, outcome, mishaps
    <3> QED BY <3>1 DEF Inv, ExportInv, Typed, AllSound, Own, Stream
  <2> QED BY <2>1, <2>2
<1>2. AloneInv'
  BY <1>1 DEF Inv, AloneInv, OnItsOwn, Alone, Mine, Exists, Good
<1>3. KeptInv'
  BY <1>1 DEF Inv, KeptInv, Firm, Secure, Good, Exists
<1> QED BY <1>1, <1>2, <1>3 DEF Inv

\* The steps there are.
LEMMA NextIs == Next <=> Changes \/ \E e \in Exporter : ExportStep(e)
PROOF BY DEF Next, ExportStep

\* The inductive invariant holds: for every history of the phone, any number of
\* exporters and any limit of open files.
THEOREM ExportInvariant == Spec => []Inv
PROOF
<1>1. Inv /\ [Next]_vars => Inv'
  BY StepKeepsInv, OthersKeepInv, NextIs
<1> QED BY <1>1, InvAtFirst, PTL DEF Spec

\* The state keeps its type: at most MaxOpenFiles files are open (segmentRaw's
\* outputFiles), and a command says that all went well exactly when it is done.
THEOREM ExportTypeCorrect == Spec => []TypeOK
PROOF
<1>1. Inv => TypeOK
  <2> SUFFICES ASSUME Inv PROVE TypeOK
    OBVIOUS
  <2>1. now \in 1 .. Len(history)
    BY DEF Inv, ExportInv, Typed
  <2>2. ASSUME NEW e \in Exporter
        PROVE  /\ Len(segment[e].recent) <= MaxOpenFiles
               /\ result[e] = "ok" <=> pc[e] = "done"
               /\ Exists(Old(e)) => e \in forced
    BY DEF Inv, ExportInv, Own, Exists
  <2> QED BY <2>1, <2>2 DEF TypeOK
<1> QED BY <1>1, ExportInvariant, PTL

\* Verification compares every file with its checksum.
LEMMA VerifiedIsIntact == ASSUME NEW a, Verify(a) PROVE a.sealed /\ Intact(a)
PROOF BY DEF Verify, Intact

\* Whatever verifies has every record the phone has sent, each in its file and
\* in the order of the stream, though the disk may have lost files (Verify).
THEOREM VerifiedArchivesAreLossless == Spec => []VerifiedIsLossless
PROOF
<1>1. Inv => VerifiedIsLossless
  <2> SUFFICES ASSUME Inv, NEW d \in DOMAIN dir, Verify(dir[d]) PROVE Lossless(dir[d])
    BY DEF VerifiedIsLossless
  <2>1. Sound(history, decayed, dir[d])
    BY DEF Inv, ExportInv, AllSound
  <2>2. dir[d].sealed /\ Intact(dir[d])
    BY VerifiedIsIntact
  <2> QED BY <2>1, <2>2 DEF Sound, Fine
<1> QED BY <1>1, ExportInvariant, PTL

\* A message that is on the phone during all of an export is whole in the
\* archive, though the provider changes between the queries (TelephonyExport.java).
THEOREM SteadyMessagesAreWhole == Spec => []SteadyIsWhole
PROOF
<1>1. Inv => SteadyIsWhole
  <2> SUFFICES ASSUME Inv, NEW d \in DOMAIN dir, Verify(dir[d]), dir[d].by \in Exporter
               PROVE  Steady(history, dir[d])
    BY DEF SteadyIsWhole
  <2>1. Sound(history, decayed, dir[d])
    BY DEF Inv, ExportInv, AllSound
  <2>2. dir[d].sealed /\ Intact(dir[d])
    BY VerifiedIsIntact
  <2> QED BY <2>1, <2>2 DEF Sound, Fine
<1> QED BY <1>1, ExportInvariant, PTL

\* An export without competition either has put a good archive in place or has
\* failed for a cause and left none of its own (installDirectoryWithVerifier).
THEOREM InstallationIsAllOrNothing == Spec => []AllOrNothing
PROOF
<1>1. Inv => AllOrNothing
  <2> SUFFICES ASSUME Inv, NEW e \in Exporter, pc[e] \in {"done", "failed"},
                      \A o \in Exporter \ {e} : pc[o] = "idle"
               PROVE  IF result[e] = "ok"
                      THEN Mine(e) /\ Good(Destination)
                      ELSE /\ trouble[e] \/ decayed \/ result[e] = "refused"
                           /\ Mine(e) => trouble[e]
    BY DEF AllOrNothing, Mine
  <2>1. Alone(e)
    BY DEF Inv, AloneInv, OnItsOwn
  <2>2. result[e] = "ok" <=> pc[e] = "done"
    BY DEF Inv, ExportInv, Own
  <2> QED BY <2>1, <2>2 DEF Alone
<1> QED BY <1>1, ExportInvariant, PTL

\* Through races, failures and kills a good archive stays, in place or aside
\* (installDirectoryWithVerifier's two renames and its rollback).
THEOREM GoodArchivesAreNeverLost == Spec => NeverLost
PROOF
<1>1. Inv /\ [Next]_vars => [Kept => Kept' \/ taken']_vars
  <2> SUFFICES ASSUME Inv, [Next]_vars, Kept PROVE Kept' \/ taken'
    OBVIOUS
  <2>1. Firm \/ taken
    BY DEF Inv, KeptInv, Kept, Firm
  <2>2. ASSUME NEW e \in Exporter, ExportStep(e) PROVE Kept' \/ taken'
    <3>1. FirmStep(e)
      BY <2>2, StepKeepsInv DEF Keeps
    <3>2. Firm' => Kept'
      BY DEF Firm, Kept
    <3> QED BY <2>1, <3>1, <3>2 DEF FirmStep
  <2>3. CASE Changes \/ UNCHANGED vars
    BY <2>3, OthersKeepInv DEF Kept, Secure, Good, Exists
  <2> QED BY <2>2, <2>3, NextIs
<1> QED BY <1>1, ExportInvariant, PTL DEF Spec, NeverLost
=============================================================================
