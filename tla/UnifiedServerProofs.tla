------------------------- MODULE UnifiedServerProofs -------------------------
(***************************************************************************)
(* What the merge of UnifiedArchive makes of any finite set of records,    *)
(* and the invariants of UnifiedServer, for every history of the archives, *)
(* every number of requests and every page length.                         *)
(***************************************************************************)
EXTENDS UnifiedServer, WellFoundedInduction, FiniteSetTheorems, TLAPS

-----------------------------------------------------------------------------
(* Sorting and going through a sequence.                                   *)

\* Induction, for sets.
LEMMA SetOfAllNaturals ==
    ASSUME NEW T \in SUBSET Nat, 0 \in T, \A n \in T : n + 1 \in T
    PROVE  T = Nat
PROOF
<1> DEFINE Below == {ss \in Nat \X Nat : ss[1] < ss[2]}
<1>1. IsWellFoundedOn(Below, Nat)
  <2>1. OpToRel(<, Nat) = Below
    BY DEF OpToRel
  <2> QED BY <2>1, NatLessThanWellFounded
<1> SUFFICES ASSUME Nat \ T # {} PROVE FALSE
  OBVIOUS
<1>2. PICK n \in Nat \ T : \A m \in Nat \ T : <<m, n>> \notin Below
  <2> HIDE DEF Below
  <2> QED BY <1>1, WFMin
<1>3. n # 0 /\ n - 1 \in Nat /\ n = (n - 1) + 1 /\ <<n - 1, n>> \in Below
  OBVIOUS
<1> QED BY <1>2, <1>3

Orders(before, S) ==
    /\ \A x, y, z \in S : <<x, y>> \in before /\ <<y, z>> \in before => <<x, z>> \in before
    /\ \A x \in S : <<x, x>> \notin before
    /\ \A x, y \in S : x = y \/ <<x, y>> \in before \/ <<y, x>> \in before

Enumerates(s, S) ==
    /\ s \in Seq(S) /\ Len(s) = Cardinality(S)
    /\ \A x \in S : \E i \in 1 .. Len(s) : s[i] = x
    /\ \A i, k \in 1 .. Len(s) : s[i] = s[k] => i = k

\* A finite set put in order has every element of it, once, each before the next.
LEMMA InOrderIsSorted ==
    ASSUME NEW S, IsFiniteSet(S), NEW before, Orders(before, S)
    PROVE  LET s == InOrder(S, before) IN
           /\ Enumerates(s, S)
           /\ \A i, k \in 1 .. Len(s) : i < k => <<s[i], s[k]>> \in before
PROOF
<1> DEFINE Lower(x) == {y \in S : <<y, x>> \in before}
           n == Cardinality(S)
           rank == [x \in S |-> Cardinality(Lower(x))]
<1>1. n \in Nat
  BY FS_CardinalityType
<1>2. ASSUME NEW x \in S PROVE rank[x] \in 0 .. n - 1 /\ IsFiniteSet(Lower(x))
  <2>1. Lower(x) \subseteq S /\ Lower(x) # S
    BY DEF Orders
  <2>2. IsFiniteSet(Lower(x)) /\ Cardinality(Lower(x)) <= n /\ Cardinality(Lower(x)) # n
    <3> HIDE DEF Lower
    <3> QED BY <2>1, FS_Subset
  <2>3. Cardinality(Lower(x)) \in Nat
    <3> HIDE DEF Lower
    <3> QED BY <2>2, FS_CardinalityType
  <2> QED BY <2>2, <2>3, <1>1
<1>3. ASSUME NEW x \in S, NEW y \in S, <<x, y>> \in before PROVE rank[x] < rank[y]
  <2>1. Lower(x) \subseteq Lower(y) /\ Lower(x) # Lower(y)
    BY <1>3 DEF Orders
  <2>2. IsFiniteSet(Lower(y))
    BY <1>2
  <2>3. Cardinality(Lower(x)) <= Cardinality(Lower(y)) /\ Cardinality(Lower(x)) # Cardinality(Lower(y))
    <3> HIDE DEF Lower
    <3> QED BY <2>1, <2>2, FS_Subset
  <2>4. rank[x] \in Nat /\ rank[y] \in Nat
    BY <1>1, <1>2
  <2> QED BY <2>3, <2>4
<1>4. rank \in Injection(S, 0 .. n - 1)
  <2>1. rank \in [S -> 0 .. n - 1]
    BY <1>2
  <2>2. ASSUME NEW x \in S, NEW y \in S, rank[x] = rank[y] PROVE x = y
    <3>1. rank[x] \in Nat /\ rank[y] \in Nat
      BY <1>1, <1>2
    <3>2. ~ (rank[x] < rank[y]) /\ ~ (rank[y] < rank[x])
      BY <3>1, <2>2
    <3> HIDE DEF rank
    <3> QED BY <3>2, <1>3 DEF Orders
  <2> HIDE DEF rank
  <2> QED BY <2>1, <2>2 DEF Injection, IsInjective
<1>5. rank \in Surjection(S, 0 .. n - 1)
  <2>1. IsFiniteSet(0 .. n - 1) /\ Cardinality(0 .. n - 1) = n
    BY <1>1, FS_Interval
  <2> HIDE DEF rank
  <2> QED BY <1>4, <2>1, FS_Injection
<1> DEFINE s == InOrder(S, before)
<1>6. s = [i \in 1 .. n |-> CHOOSE x \in S : rank[x] = i - 1]
  <2>1. \A i \in 1 .. n : (CHOOSE x \in S : rank[x] = i - 1) = (CHOOSE x \in S : Cardinality(Lower(x)) = i - 1)
    OBVIOUS
  <2> QED BY <2>1 DEF InOrder
<1> HIDE DEF rank, s
<1>7. ASSUME NEW i \in 1 .. n PROVE s[i] \in S /\ rank[s[i]] = i - 1
  <2>1. i - 1 \in 0 .. n - 1
    BY <1>1
  <2>2. \E x \in S : rank[x] = i - 1
    BY <2>1, <1>5 DEF Surjection
  <2> QED BY <2>2, <1>6
<1>8. s \in Seq(S) /\ Len(s) = n
  <2>1. s \in [1 .. n -> S]
    BY <1>6, <1>7
  <2> QED BY <2>1, <1>1
<1>9. ASSUME NEW x \in S PROVE \E i \in 1 .. n : s[i] = x
  <2>1. rank[x] \in 0 .. n - 1
    BY <1>2
  <2>2. rank[x] + 1 \in 1 .. n
    BY <2>1, <1>1
  <2>3. rank[s[rank[x] + 1]] = rank[x] /\ s[rank[x] + 1] \in S
    BY <2>1, <2>2, <1>7
  <2>4. s[rank[x] + 1] = x
    BY <2>3, <1>4 DEF Injection, IsInjective
  <2> QED BY <2>2, <2>4
<1>10. ASSUME NEW i \in 1 .. n, NEW k \in 1 .. n, i < k PROVE <<s[i], s[k]>> \in before
  <2>1. rank[s[i]] < rank[s[k]] /\ s[i] \in S /\ s[k] \in S
    BY <1>7, <1>10
  <2>2. rank[s[i]] \in Nat /\ rank[s[k]] \in Nat
    BY <1>7, <1>1
  <2>3. s[i] # s[k] /\ <<s[k], s[i]>> \notin before
    BY <2>1, <2>2, <1>3
  <2> QED BY <2>1, <2>3 DEF Orders
<1>11. ASSUME NEW i \in 1 .. n, NEW k \in 1 .. n, s[i] = s[k] PROVE i = k
  BY <1>7, <1>11, <1>1
<1> QED BY <1>1, <1>8, <1>9, <1>10, <1>11 DEF s, Enumerates

\* Induction over the steps of a loop.
LEMMA LoopInduction ==
    ASSUME NEW N \in Nat, NEW T, 0 \in T, \A i \in 1 .. N : i - 1 \in T => i \in T
    PROVE  N \in T
PROOF
<1> DEFINE U == {n \in Nat : n <= N => n \in T}
<1>1. U \in SUBSET Nat /\ 0 \in U
  OBVIOUS
<1>2. ASSUME NEW n \in U PROVE n + 1 \in U
  <2>1. n \in Nat /\ (n <= N => n \in T)
    OBVIOUS
  <2>2. ASSUME n + 1 <= N PROVE n + 1 \in T
    <3>1. n + 1 \in 1 .. N /\ (n + 1) - 1 = n /\ n \in T
      BY <2>1, <2>2
    <3> QED BY <3>1
  <2> QED BY <2>1, <2>2
<1>3. U = Nat
  <2> HIDE DEF U
  <2> QED BY <1>1, <1>2, SetOfAllNaturals
<1> QED BY <1>3

\* What the loop of MergeGroup computes.
LEMMA GroupIsTakenInSteps ==
    ASSUME NEW merged, NEW group, Len(SortMessages(group)) \in Nat
    PROVE  LET candidates == SortMessages(group) IN
           \E taken :
               /\ taken[0] = [merged |-> merged, used |-> {}]
               /\ \A i \in 1 .. Len(candidates) :
                     taken[i] = Take(Len(merged), taken[i - 1], candidates[i])
               /\ MergeGroup(merged, group) = taken[Len(candidates)].merged
PROOF
<1> DEFINE cs == SortMessages(group)
           begin == [merged |-> merged, used |-> {}]
           F(n, f) == f = [i \in 0 .. n |-> IF i = 0 THEN begin
                                           ELSE Take(Len(merged), f[i - 1], cs[i])]
           T == {n \in Nat : \E f : F(n, f)}
<1> HIDE DEF cs, begin
<1>1. 0 \in T
  <2>1. F(0, [i \in 0 .. 0 |-> begin])
    OBVIOUS
  <2> QED BY <2>1
<1>2. ASSUME NEW n \in T PROVE n + 1 \in T
  <2>1. PICK f : F(n, f)
    OBVIOUS
  <2> n \in Nat
    OBVIOUS
  <2>2. F(n + 1, [i \in 0 .. n + 1 |-> IF i <= n THEN f[i] ELSE Take(Len(merged), f[n], cs[n + 1])])
    BY <2>1
  <2>3. n + 1 \in Nat
    OBVIOUS
  <2> HIDE DEF F
  <2> QED BY <2>2, <2>3
<1>3. T = Nat
  <2>1. T \in SUBSET Nat
    OBVIOUS
  <2> HIDE DEF T
  <2> QED BY <1>1, <1>2, <2>1, SetOfAllNaturals
<1>4. \E f : F(Len(cs), f)
  BY <1>3 DEF cs
<1> DEFINE taken == CHOOSE f : F(Len(cs), f)
<1>5. F(Len(cs), taken)
  BY <1>4
<1>6. MergeGroup(merged, group) = taken[Len(cs)].merged
  BY DEF MergeGroup, cs, begin
<1>7. /\ taken[0] = begin
      /\ \A i \in 1 .. Len(cs) : taken[i] = Take(Len(merged), taken[i - 1], cs[i])
  <2> HIDE DEF taken
  <2>1. Len(cs) \in Nat
    BY DEF cs
  <2> QED BY <1>5, <2>1
<1> HIDE DEF taken
<1> QED BY <1>6, <1>7 DEF cs, begin

\* What the loop of MergeCrossSource computes.
LEMMA ArchivesAreMergedInSteps ==
    ASSUME NEW messages, Len(Archives(messages)) \in Nat
    PROVE  LET keys == Archives(messages) IN
           \E merged :
               /\ merged[0] = <<>>
               /\ \A i \in 1 .. Len(keys) :
                     merged[i] = MergeGroup(merged[i - 1], {m \in messages : Archive(m) = keys[i]})
               /\ MergeCrossSource(messages) = SortMessages(ToSet(merged[Len(keys)]))
PROOF
<1> DEFINE keys == Archives(messages)
           Group(k) == {m \in messages : Archive(m) = k}
           F(n, f) == f = [i \in 0 .. n |-> IF i = 0 THEN <<>> ELSE MergeGroup(f[i - 1], Group(keys[i]))]
           T == {n \in Nat : \E f : F(n, f)}
<1> HIDE DEF keys
<1>1. 0 \in T
  <2>1. F(0, [i \in 0 .. 0 |-> <<>>])
    OBVIOUS
  <2> QED BY <2>1
<1>2. ASSUME NEW n \in T PROVE n + 1 \in T
  <2>1. PICK f : F(n, f)
    OBVIOUS
  <2> n \in Nat
    OBVIOUS
  <2>2. F(n + 1, [i \in 0 .. n + 1 |-> IF i <= n THEN f[i] ELSE MergeGroup(f[n], Group(keys[n + 1]))])
    <3> HIDE DEF Group
    <3> QED BY <2>1
  <2>3. n + 1 \in Nat
    OBVIOUS
  <2> HIDE DEF F
  <2> QED BY <2>2, <2>3
<1>3. T = Nat
  <2>1. T \in SUBSET Nat
    OBVIOUS
  <2> HIDE DEF T
  <2> QED BY <1>1, <1>2, <2>1, SetOfAllNaturals
<1>4. \E f : F(Len(keys), f)
  BY <1>3 DEF keys
<1> DEFINE merged == CHOOSE f : F(Len(keys), f)
<1>5. F(Len(keys), merged)
  BY <1>4
<1>6. MergeCrossSource(messages) = SortMessages(ToSet(merged[Len(keys)]))
  BY DEF MergeCrossSource, keys
<1>7. /\ merged[0] = <<>>
      /\ \A i \in 1 .. Len(keys) : merged[i] = MergeGroup(merged[i - 1], Group(keys[i]))
  <2> HIDE DEF merged, Group
  <2>1. Len(keys) \in Nat
    BY DEF keys
  <2> QED BY <1>5, <2>1
<1> HIDE DEF merged
<1> QED BY <1>6, <1>7 DEF keys

-----------------------------------------------------------------------------
(* mergeCrossSource.                                                       *)

\* Records as the loaders make them, of one source each, which is no other's.
FromArchives(R) ==
    /\ IsFiniteSet(R)
    /\ \A r \in R :
          /\ r = [conv |-> r.conv, ts |-> r.ts, mine |-> r.mine, body |-> r.body,
                  attachments |-> r.attachments, sources |-> <<r.sources[1]>>]
          /\ r.ts \in Int
          /\ r.sources[1].platform \in Int /\ r.sources[1].dir \in Int
    /\ \A r, s \in R :
          /\ r.sources[1] = s.sources[1] => r = s
          /\ HashOrder(r.sources[1]) \in Int
          /\ HashOrder(r.sources[1]) = HashOrder(s.sources[1]) => r.sources[1] = s.sources[1]

\* What can be made of records: messages of any of their sources.
MessagesOver(R) ==
    [conv : {r.conv : r \in R}, ts : {r.ts : r \in R}, mine : {r.mine : r \in R},
     body : {r.body : r \in R}, attachments : SUBSET UNION {r.attachments : r \in R},
     sources : Seq({r.sources[1] : r \in R})]

\* A record is a message of its own, with itself as the one source.
LEMMA RecordIsMessage ==
    ASSUME NEW R, FromArchives(R), NEW r \in R
    PROVE  /\ r \in MessagesOver(R)
           /\ r.sources = <<r.sources[1]>> /\ Sources(r) = {r.sources[1]}
PROOF
<1> DEFINE src == r.sources[1]
<1>1. r = [conv |-> r.conv, ts |-> r.ts, mine |-> r.mine, body |-> r.body,
           attachments |-> r.attachments, sources |-> <<src>>]
  BY DEF FromArchives
<1>2. src \in {q.sources[1] : q \in R}
  OBVIOUS
<1> HIDE DEF src
<1>3. <<src>> \in Seq({q.sources[1] : q \in R})
  BY <1>2
<1>4. r.sources = <<src>>
  BY <1>1
<1>5. r \in MessagesOver(R)
  <2> DEFINE C == {q.conv : q \in R}
             T == {q.ts : q \in R}
             M == {q.mine : q \in R}
             B == {q.body : q \in R}
             A == SUBSET UNION {q.attachments : q \in R}
             S == Seq({q.sources[1] : q \in R})
  <2>1. r.conv \in C /\ r.ts \in T /\ r.mine \in M /\ r.body \in B /\ r.attachments \in A
    OBVIOUS
  <2>2. MessagesOver(R) = [conv : C, ts : T, mine : M, body : B, attachments : A, sources : S]
    BY DEF MessagesOver
  <2>3. <<src>> \in S
    BY <1>3
  <2> HIDE DEF C, T, M, B, A, S
  <2> QED BY <1>1, <2>1, <2>2, <2>3
<1>6. Sources(r) = {src}
  BY <1>4 DEF Sources, ToSet
<1> QED BY <1>4, <1>5, <1>6 DEF src

\* What two messages are joined into is a message, with the time, the
\* conversation and the key of the first.
LEMMA JoinedIsMessage ==
    ASSUME NEW R, NEW m \in MessagesOver(R), NEW c \in MessagesOver(R), NEW j, j = Joined(m, c)
    PROVE  j \in MessagesOver(R) /\ j.ts = m.ts /\ j.conv = m.conv /\ MergeKey(j) = MergeKey(m)
PROOF
<1>1. m.sources \o c.sources \in Seq({r.sources[1] : r \in R})
  BY DEF MessagesOver
<1>2. m.attachments \cup c.attachments \in SUBSET UNION {r.attachments : r \in R}
  BY DEF MessagesOver
<1> QED BY <1>1, <1>2 DEF MessagesOver, Joined, MergeKey

\* The distance of two times is a natural number.
LEMMA DistanceIsNatural ==
    ASSUME NEW m, NEW ts \in Int, m.ts \in Int
    PROVE  Distance(m, ts) \in Nat
PROOF BY DEF Distance

Near(ms, positions, ts) == {p \in positions : Distance(ms[p], ts) <= MergeWindow}

\* The match is one of the positions in the window; if one position is in the
\* window, it is the match.
LEMMA ClosestMatchIsNear ==
    ASSUME NEW ms, NEW positions, IsFiniteSet(positions), NEW ts \in Int,
           \A p \in positions : ms[p].ts \in Int
    PROVE  /\ ClosestMatch(ms, positions, ts) \in Near(ms, positions, ts) \cup {0}
           /\ \A x : Near(ms, positions, ts) = {x} => ClosestMatch(ms, positions, ts) = x
PROOF
<1> DEFINE near == {p \in positions : Distance(ms[p], ts) <= MergeWindow}
           best == {p \in near : \A q \in near : Distance(ms[p], ts) <= Distance(ms[q], ts)}
<1>1. ClosestMatch(ms, positions, ts) = IF Cardinality(best) = 1 THEN CHOOSE p \in best : TRUE ELSE 0
  BY DEF ClosestMatch
<1>0. Near(ms, positions, ts) = near
  BY DEF Near
<1>2. IsFiniteSet(best)
  <2>1. best \in SUBSET positions
    OBVIOUS
  <2> HIDE DEF best
  <2> QED BY <2>1, FS_Subset
<1>3. best \subseteq near /\ near \subseteq positions
  OBVIOUS
<1>4. ASSUME NEW x, near = {x} PROVE best = {x}
  <2>1. x \in positions
    BY <1>4
  <2>2. Distance(ms[x], ts) \in Nat
    BY <2>1, DistanceIsNatural
  <2>3. Distance(ms[x], ts) <= Distance(ms[x], ts)
    BY <2>2
  <2> QED BY <1>4, <2>3
<1>5. ASSUME Cardinality(best) = 1 PROVE (CHOOSE p \in best : TRUE) \in near
  <2>1. PICK x : best = {x}
    <3> HIDE DEF best
    <3> QED BY <1>2, <1>5, FS_Singleton
  <2> HIDE DEF best
  <2> QED BY <2>1, <1>3
<1>6. ASSUME NEW x, near = {x} PROVE ClosestMatch(ms, positions, ts) = x
  <2>1. Cardinality(best) = 1
    <3>1. best = {x}
      BY <1>4, <1>6
    <3> QED BY <3>1, FS_Singleton
  <2>2. (CHOOSE p \in best : TRUE) = x
    BY <1>4, <1>6
  <2> QED BY <1>1, <2>1, <2>2
<1>7. \/ ClosestMatch(ms, positions, ts) = 0
      \/ ClosestMatch(ms, positions, ts) \in near
  <2> HIDE DEF best, near
  <2> QED BY <1>1, <1>5
<1> QED BY <1>0, <1>6, <1>7

Held(r, m) == r.sources[1] \in Sources(m)

\* Two records of different archives that no third could be mistaken for.
Unmistakable(r, s, R) ==
    /\ Archive(r) # Archive(s) /\ Alike(r, s)
    /\ \A t \in R \ {r, s} : ~Alike(t, r) /\ ~Alike(t, s)

\* The loop invariant of the merge: the messages ms are made of the records P,
\* out of all the records R of a conversation.
Merges(ms, P, R) ==
    /\ ms \in Seq(MessagesOver(R))
    /\ \A p \in DOMAIN ms : \A s \in Sources(ms[p]) : \E r \in P : r.sources[1] = s
    /\ \A p \in DOMAIN ms, r \in P :
          Held(r, ms[p]) => /\ r.conv = ms[p].conv /\ MergeKey(r) = MergeKey(ms[p])
                            /\ Distance(r, ms[p].ts) <= MergeWindow
    /\ \A p \in DOMAIN ms : /\ ms[p].sources # <<>>
                            /\ \E r \in P : r.sources[1] = ms[p].sources[1] /\ r.ts = ms[p].ts
    /\ \A r \in P : \E p \in DOMAIN ms : Held(r, ms[p])
    /\ \A p, q \in DOMAIN ms, r \in P : Held(r, ms[p]) /\ Held(r, ms[q]) => p = q
    /\ \A p \in DOMAIN ms : \A k, l \in DOMAIN ms[p].sources :
          ms[p].sources[k] = ms[p].sources[l] => k = l
    /\ \A p \in DOMAIN ms, r, s \in P :
          Held(r, ms[p]) /\ Held(s, ms[p]) /\ Archive(r) = Archive(s) => r = s
    /\ \A p \in DOMAIN ms :
          ms[p].attachments = UNION {r.attachments : r \in {x \in P : Held(x, ms[p])}}
    /\ \A r, s \in P : Unmistakable(r, s, R) =>
          \E p \in DOMAIN ms : Held(r, ms[p]) /\ Held(s, ms[p])

\* Two records are alike in both directions.
LEMMA AlikeIsSymmetric ==
    ASSUME NEW r, NEW s, r.ts \in Int, s.ts \in Int
    PROVE  Alike(r, s) <=> Alike(s, r)
PROOF
<1>1. Distance(r, s.ts) = Distance(s, r.ts)
  BY DEF Distance
<1> QED BY <1>1 DEF Alike

\* So is a pair that nothing else can be taken for.
LEMMA UnmistakableIsSymmetric ==
    ASSUME NEW R, FromArchives(R), NEW r \in R, NEW s \in R
    PROVE  Unmistakable(r, s, R) <=> Unmistakable(s, r, R)
PROOF
<1>1. r.ts \in Int /\ s.ts \in Int
  BY DEF FromArchives
<1>2. R \ {r, s} = R \ {s, r}
  OBVIOUS
<1> QED BY <1>1, <1>2, AlikeIsSymmetric DEF Unmistakable

\* The next record becomes a message of its own.
LEMMA AppendMerges ==
    ASSUME NEW R, FromArchives(R), NEW P \in SUBSET R, NEW ms, Merges(ms, P, R),
           NEW c \in R \ P, \A s \in P : ~ Unmistakable(c, s, R)
    PROVE  LET new == Append(ms, c) IN
           /\ Merges(new, P \cup {c}, R)
           /\ \A q \in DOMAIN ms : new[q] = ms[q]
           /\ Len(new) = Len(ms) + 1
PROOF
<1> DEFINE new == Append(ms, c)
           n == Len(ms)
<1>1. ms \in Seq(MessagesOver(R)) /\ DOMAIN ms = 1 .. n /\ n \in Nat
  BY DEF Merges
<1>2. c \in MessagesOver(R) /\ Sources(c) = {c.sources[1]} /\ c.sources = <<c.sources[1]>>
  BY RecordIsMessage
<1>3. /\ new \in Seq(MessagesOver(R)) /\ DOMAIN new = 1 .. n + 1 /\ Len(new) = n + 1
      /\ \A q \in 1 .. n : new[q] = ms[q]
      /\ new[n + 1] = c
  <2> HIDE DEF Merges
  <2> QED BY <1>1, <1>2
<1> HIDE DEF new, n
<1>4. ASSUME NEW r \in P \cup {c}, NEW q \in 1 .. n + 1
      PROVE  Held(r, new[q]) <=> (r = c /\ q = n + 1) \/ (r \in P /\ q \in 1 .. n /\ Held(r, ms[q]))
  <2>1. \A x \in R : x.sources[1] = c.sources[1] => x = c
    BY DEF FromArchives
  <2>2. \A i \in 1 .. n : c.sources[1] \notin Sources(ms[i])
    <3>1. \A i \in 1 .. n : \A x \in Sources(ms[i]) : \E t \in P : t.sources[1] = x
      BY <1>1 DEF Merges
    <3>2. c \notin P /\ P \subseteq R
      OBVIOUS
    <3> QED BY <2>1, <3>1, <3>2
  <2>3. q = n + 1 \/ q \in 1 .. n
    BY <1>1
  <2>4. n + 1 \notin 1 .. n
    BY <1>1
  <2> QED BY <2>1, <2>2, <2>3, <2>4, <1>2, <1>3 DEF Held
<1>5. \A q \in 1 .. n + 1 : q = n + 1 \/ q \in 1 .. n
  BY <1>1
<1>6. n + 1 \in 1 .. n + 1 /\ n + 1 \notin 1 .. n /\ 1 .. n \subseteq 1 .. n + 1
  BY <1>1
<1>7. Merges(new, P \cup {c}, R)
  <2>1. \A p \in DOMAIN new : \A s \in Sources(new[p]) : \E r \in P \cup {c} : r.sources[1] = s
    BY <1>1, <1>2, <1>3, <1>5 DEF Merges
  <2>2. \A p \in DOMAIN new, r \in P \cup {c} :
           Held(r, new[p]) => /\ r.conv = new[p].conv /\ MergeKey(r) = MergeKey(new[p])
                              /\ Distance(r, new[p].ts) <= MergeWindow
    <3>1. Distance(c, c.ts) <= MergeWindow
      BY WindowAssumption DEF FromArchives, Distance
    <3> QED BY <1>1, <1>3, <1>4, <1>5, <3>1 DEF Merges
  <2>3. \A p \in DOMAIN new :
           /\ new[p].sources # <<>>
           /\ \E r \in P \cup {c} : r.sources[1] = new[p].sources[1] /\ r.ts = new[p].ts
    <3>1. c.sources # <<>>
      BY <1>2
    <3> QED BY <1>1, <1>3, <1>5, <3>1 DEF Merges
  <2>4. \A r \in P \cup {c} : \E p \in DOMAIN new : Held(r, new[p])
    BY <1>1, <1>3, <1>4, <1>6 DEF Merges
  <2>5. \A p, q \in DOMAIN new, r \in P \cup {c} : Held(r, new[p]) /\ Held(r, new[q]) => p = q
    BY <1>1, <1>3, <1>4 DEF Merges
  <2>6. \A p \in DOMAIN new : \A k, l \in DOMAIN new[p].sources :
           new[p].sources[k] = new[p].sources[l] => k = l
    <3>1. \A k \in DOMAIN c.sources : k = 1
      BY <1>2
    <3> QED BY <1>1, <1>3, <1>5, <3>1 DEF Merges
  <2>7. \A p \in DOMAIN new, r, s \in P \cup {c} :
           Held(r, new[p]) /\ Held(s, new[p]) /\ Archive(r) = Archive(s) => r = s
    BY <1>1, <1>3, <1>4, <1>6 DEF Merges
  <2>8. ASSUME NEW p \in DOMAIN new
        PROVE  new[p].attachments = UNION {r.attachments : r \in {x \in P \cup {c} : Held(x, new[p])}}
    <3>1. CASE p = n + 1
      <4>1. {x \in P \cup {c} : Held(x, new[p])} = {c}
        BY <1>4, <1>6, <3>1
      <4>2. c.attachments = UNION {r.attachments : r \in {c}}
        OBVIOUS
      <4> QED BY <4>1, <4>2, <1>3, <3>1
    <3>2. CASE p \in 1 .. n
      <4>1. {x \in P \cup {c} : Held(x, new[p])} = {x \in P : Held(x, ms[p])}
        BY <1>4, <1>6, <3>2
      <4> QED BY <4>1, <1>1, <1>3, <3>2 DEF Merges
    <3> QED BY <3>1, <3>2, <1>3, <1>5
  <2>9. ASSUME NEW r \in P \cup {c}, NEW s \in P \cup {c}, Unmistakable(r, s, R)
        PROVE  \E p \in DOMAIN new : Held(r, new[p]) /\ Held(s, new[p])
    <3>1. r \in P /\ s \in P
      <4>1. r # s
        BY <2>9 DEF Unmistakable
      <4>2. Unmistakable(s, r, R)
        BY <2>9, UnmistakableIsSymmetric
      <4> QED BY <4>1, <4>2, <2>9
    <3>2. PICK p \in 1 .. n : Held(r, ms[p]) /\ Held(s, ms[p])
      BY <3>1, <2>9, <1>1 DEF Merges
    <3> QED BY <3>1, <3>2, <1>3, <1>4, <1>6
  <2> QED BY <1>3, <2>1, <2>2, <2>3, <2>4, <2>5, <2>6, <2>7, <2>8, <2>9 DEF Merges
<1> QED BY <1>1, <1>3, <1>7 DEF new, n

\* The next record may join message p, and what is then so.
MayJoin(ms, p, c, P, R) ==
    /\ FromArchives(R) /\ P \in SUBSET R /\ Merges(ms, P, R)
    /\ c \in R \ P /\ p \in DOMAIN ms
    /\ c.conv = ms[p].conv /\ MergeKey(c) = MergeKey(ms[p])
    /\ Distance(c, ms[p].ts) <= MergeWindow
    /\ \A r \in P : Held(r, ms[p]) => Archive(r) # Archive(c)
    /\ \A s \in P : Unmistakable(c, s, R) => Held(s, ms[p])

HasJoined(new, ms, p, c, P, R) ==
    /\ Merges(new, P \cup {c}, R)
    /\ Len(new) = Len(ms)
    /\ \A q \in DOMAIN ms : /\ new[q].ts = ms[q].ts
                            /\ \A r \in P : Held(r, new[q]) <=> Held(r, ms[q])
                            /\ Held(c, new[q]) <=> q = p

\* The next record joins a message that no record of its archive has joined.
LEMMA JoinMerges ==
    ASSUME NEW ms, NEW p, NEW c, NEW P, NEW R, MayJoin(ms, p, c, P, R)
    PROVE  HasJoined([ms EXCEPT ![p] = Joined(@, c)], ms, p, c, P, R)
PROOF
<1>0. /\ FromArchives(R) /\ P \in SUBSET R /\ Merges(ms, P, R)
      /\ c \in R \ P /\ p \in DOMAIN ms
      /\ c.conv = ms[p].conv /\ MergeKey(c) = MergeKey(ms[p])
      /\ Distance(c, ms[p].ts) <= MergeWindow
      /\ \A r \in P : Held(r, ms[p]) => Archive(r) # Archive(c)
      /\ \A s \in P : Unmistakable(c, s, R) => Held(s, ms[p])
  BY DEF MayJoin
<1> USE <1>0
<1> DEFINE new == [ms EXCEPT ![p] = Joined(@, c)]
           n == Len(ms)
<1>1. ms \in Seq(MessagesOver(R)) /\ DOMAIN ms = 1 .. n /\ n \in Nat
  BY DEF Merges
<1>2. c \in MessagesOver(R) /\ Sources(c) = {c.sources[1]} /\ c.sources = <<c.sources[1]>>
  BY RecordIsMessage
<1>3. ms[p] \in MessagesOver(R)
  BY <1>1
<1> DEFINE j == Joined(ms[p], c)
<1>4. /\ j \in MessagesOver(R)
      /\ j.ts = ms[p].ts /\ j.conv = ms[p].conv /\ MergeKey(j) = MergeKey(ms[p])
      /\ j.sources = ms[p].sources \o c.sources
      /\ j.attachments = ms[p].attachments \cup c.attachments
  <2>1. j = Joined(ms[p], c)
    OBVIOUS
  <2> HIDE DEF j
  <2>2. j \in MessagesOver(R) /\ j.ts = ms[p].ts /\ j.conv = ms[p].conv /\ MergeKey(j) = MergeKey(ms[p])
    BY <1>2, <1>3, <2>1, JoinedIsMessage
  <2>3. j.sources = ms[p].sources \o c.sources /\ j.attachments = ms[p].attachments \cup c.attachments
    BY <1>2, <1>3, <2>1 DEF MessagesOver, Joined
  <2> QED BY <1>2, <1>3, <2>1, <2>2, <2>3
<1>5. /\ new \in Seq(MessagesOver(R)) /\ DOMAIN new = 1 .. n /\ Len(new) = n
      /\ \A q \in 1 .. n : q # p => new[q] = ms[q]
      /\ new[p] = j
  <2> HIDE DEF Merges, j
  <2>1. new = [ms EXCEPT ![p] = j]
    BY DEF j
  <2> HIDE DEF new
  <2> QED BY <1>1, <1>4, <2>1
<1> HIDE DEF j
<1>6. /\ new[p].ts = ms[p].ts /\ new[p].conv = ms[p].conv /\ MergeKey(new[p]) = MergeKey(ms[p])
      /\ new[p].attachments = ms[p].attachments \cup c.attachments
  BY <1>4, <1>5
<1> DEFINE l == Len(ms[p].sources)
<1>7. /\ l \in Nat /\ l >= 1 /\ DOMAIN ms[p].sources = 1 .. l
      /\ DOMAIN new[p].sources = 1 .. l + 1
      /\ \A k \in 1 .. l : new[p].sources[k] = ms[p].sources[k]
      /\ new[p].sources[l + 1] = c.sources[1]
      /\ new[p].sources # <<>>
  <2>1. ms[p].sources \in Seq({r.sources[1] : r \in R})
    BY <1>3 DEF MessagesOver
  <2>2. ms[p].sources # <<>>
    BY DEF Merges
  <2>3. new[p].sources = ms[p].sources \o <<c.sources[1]>>
    BY <1>2, <1>4, <1>5
  <2>4. c.sources[1] \in {r.sources[1] : r \in R}
    OBVIOUS
  <2> QED BY <2>1, <2>2, <2>3, <2>4
<1> HIDE DEF new, n, l
<1>8. Sources(new[p]) = Sources(ms[p]) \cup {c.sources[1]}
  <2>1. \A k \in 1 .. l + 1 : k \in 1 .. l \/ k = l + 1
    BY <1>7
  <2>2. l + 1 \in 1 .. l + 1 /\ 1 .. l \subseteq 1 .. l + 1
    BY <1>7
  <2>3. ASSUME NEW x
        PROVE  (\E k \in 1 .. l + 1 : new[p].sources[k] = x)
               <=> (\E k \in 1 .. l : ms[p].sources[k] = x) \/ x = c.sources[1]
    BY <1>7, <2>1, <2>2
  <2>4. /\ Sources(new[p]) = {new[p].sources[k] : k \in 1 .. l + 1}
        /\ Sources(ms[p]) = {ms[p].sources[k] : k \in 1 .. l}
    BY <1>7 DEF Sources, ToSet
  <2> QED BY <2>3, <2>4
<1>9. p \in 1 .. n
  BY <1>1
<1>10. ASSUME NEW r \in P \cup {c}, NEW q \in 1 .. n
       PROVE  Held(r, new[q]) <=> (r = c /\ q = p) \/ (r \in P /\ Held(r, ms[q]))
  <2>1. \A x \in R : x.sources[1] = c.sources[1] => x = c
    BY DEF FromArchives
  <2>2. \A i \in 1 .. n : c.sources[1] \notin Sources(ms[i])
    <3>1. \A i \in 1 .. n : \A x \in Sources(ms[i]) : \E t \in P : t.sources[1] = x
      BY <1>1 DEF Merges
    <3>2. c \notin P /\ P \subseteq R
      OBVIOUS
    <3> QED BY <2>1, <3>1, <3>2
  <2>3. CASE q = p
    BY <2>1, <2>2, <2>3, <1>8 DEF Held
  <2>4. CASE q # p
    BY <2>1, <2>2, <2>4, <1>5 DEF Held
  <2> QED BY <2>3, <2>4
<1>11. \A q \in 1 .. n : new[q].ts = ms[q].ts /\ new[q].conv = ms[q].conv /\ MergeKey(new[q]) = MergeKey(ms[q])
  BY <1>5, <1>6
<1>12. Merges(new, P \cup {c}, R)
  <2>1. \A q \in DOMAIN new : \A s \in Sources(new[q]) : \E r \in P \cup {c} : r.sources[1] = s
    <3>1. \A q \in 1 .. n : \A s \in Sources(ms[q]) : \E r \in P : r.sources[1] = s
      BY <1>1 DEF Merges
    <3>2. \A q \in 1 .. n : \A s \in Sources(new[q]) : s \in Sources(ms[q]) \/ s = c.sources[1]
      BY <1>5, <1>8
    <3>3. DOMAIN new = 1 .. n
      BY <1>1, <1>5
    <3> QED BY <3>1, <3>2, <3>3
  <2>2. \A q \in DOMAIN new, r \in P \cup {c} :
           Held(r, new[q]) => /\ r.conv = new[q].conv /\ MergeKey(r) = MergeKey(new[q])
                              /\ Distance(r, new[q].ts) <= MergeWindow
    BY <1>1, <1>5, <1>10, <1>11 DEF Merges
  <2>3. \A q \in DOMAIN new :
           /\ new[q].sources # <<>>
           /\ \E r \in P \cup {c} : r.sources[1] = new[q].sources[1] /\ r.ts = new[q].ts
    <3>1. new[p].sources[1] = ms[p].sources[1]
      BY <1>7
    <3>2. \A q \in 1 .. n : new[q].sources[1] = ms[q].sources[1] /\ new[q].sources # <<>>
      BY <3>1, <1>1, <1>5, <1>7 DEF Merges
    <3> QED BY <1>1, <1>5, <1>11, <3>2 DEF Merges
  <2>4. \A r \in P \cup {c} : \E q \in DOMAIN new : Held(r, new[q])
    BY <1>1, <1>5, <1>9, <1>10 DEF Merges
  <2>5. \A q, i \in DOMAIN new, r \in P \cup {c} : Held(r, new[q]) /\ Held(r, new[i]) => q = i
    BY <1>1, <1>5, <1>10 DEF Merges
  <2>6. \A q \in DOMAIN new : \A k, i \in DOMAIN new[q].sources :
           new[q].sources[k] = new[q].sources[i] => k = i
    <3>1. c.sources[1] \notin Sources(ms[p])
      BY <1>9, <1>10 DEF Held, Merges, FromArchives
    <3>2. \A k \in 1 .. l : ms[p].sources[k] # c.sources[1]
      BY <3>1, <1>7 DEF Sources, ToSet
    <3>3. \A k \in 1 .. l + 1 : k \in 1 .. l \/ k = l + 1
      BY <1>7
    <3>4. \A k, i \in 1 .. l : ms[p].sources[k] = ms[p].sources[i] => k = i
      BY <1>7 DEF Merges
    <3>5. \A k, i \in DOMAIN new[p].sources : new[p].sources[k] = new[p].sources[i] => k = i
      BY <3>2, <3>3, <3>4, <1>7
    <3> QED BY <3>5, <1>1, <1>5 DEF Merges
  <2>7. \A q \in DOMAIN new, r, s \in P \cup {c} :
           Held(r, new[q]) /\ Held(s, new[q]) /\ Archive(r) = Archive(s) => r = s
    BY <1>1, <1>5, <1>10 DEF Merges
  <2>8. ASSUME NEW q \in DOMAIN new
        PROVE  new[q].attachments = UNION {r.attachments : r \in {x \in P \cup {c} : Held(x, new[q])}}
    <3>1. CASE q = p
      <4>1. {x \in P \cup {c} : Held(x, new[p])} = {x \in P : Held(x, ms[p])} \cup {c}
        BY <1>9, <1>10
      <4>2. ms[p].attachments = UNION {r.attachments : r \in {x \in P : Held(x, ms[p])}}
        BY DEF Merges
      <4>3. ASSUME NEW H
            PROVE  UNION {r.attachments : r \in H \cup {c}}
                   = (UNION {r.attachments : r \in H}) \cup c.attachments
        OBVIOUS
      <4> QED BY <4>1, <4>2, <4>3, <1>6, <3>1
    <3>2. CASE q # p
      <4>1. {x \in P \cup {c} : Held(x, new[q])} = {x \in P : Held(x, ms[q])}
        BY <1>5, <1>10, <3>2
      <4> QED BY <4>1, <1>1, <1>5, <3>2 DEF Merges
    <3> QED BY <3>1, <3>2
  <2>9. ASSUME NEW r \in P \cup {c}, NEW s \in P \cup {c}, Unmistakable(r, s, R)
        PROVE  \E q \in DOMAIN new : Held(r, new[q]) /\ Held(s, new[q])
    <3>1. r # s
      BY <2>9 DEF Unmistakable
    <3>2. Unmistakable(s, r, R)
      BY <2>9, UnmistakableIsSymmetric
    <3>3. CASE r \in P /\ s \in P
      <4>1. PICK q \in 1 .. n : Held(r, ms[q]) /\ Held(s, ms[q])
        BY <3>3, <2>9, <1>1 DEF Merges
      <4> QED BY <4>1, <3>3, <1>5, <1>10
    <3>4. CASE r = c /\ s \in P
      BY <3>4, <2>9, <1>5, <1>9, <1>10
    <3>5. CASE s = c /\ r \in P
      BY <3>2, <3>5, <1>5, <1>9, <1>10
    <3> QED BY <3>1, <3>3, <3>4, <3>5
  <2> QED BY <1>5, <2>1, <2>2, <2>3, <2>4, <2>5, <2>6, <2>7, <2>8, <2>9 DEF Merges
<1>13. \A q \in 1 .. n : /\ \A r \in P : Held(r, new[q]) <=> Held(r, ms[q])
                         /\ Held(c, new[q]) <=> q = p
  BY <1>10
<1> QED BY <1>1, <1>5, <1>11, <1>12, <1>13 DEF new, n, HasJoined

\* Within the loop over the candidates of an archive: P is of the archives before
\* it, Q of what it has given so far, and the first n messages were there before.
Taking(acc, n, P, Q, R) ==
    /\ acc = [merged |-> acc.merged, used |-> acc.used]
    /\ Merges(acc.merged, P \cup Q, R)
    /\ n \in Nat /\ n <= Len(acc.merged) /\ acc.used \in SUBSET (1 .. n)
    /\ \A p \in 1 .. n : p \in acc.used <=> \E r \in Q : Held(r, acc.merged[p])
    /\ \A p \in 1 .. n : \E r \in P : Held(r, acc.merged[p]) /\ r.ts = acc.merged[p].ts
    /\ \A r \in P : \E p \in 1 .. n : Held(r, acc.merged[p])

\* Taking a candidate of one archive into what the archives before it, and the
\* candidates before it, have become keeps the promises of a merge.
LEMMA TakeMerges ==
    ASSUME NEW R, FromArchives(R), \A r, s \in R : r.conv = s.conv,
           NEW P \in SUBSET R, NEW Q \in SUBSET R, NEW c \in R, c \notin P \cup Q,
           \A r \in P : Archive(r) # Archive(c), \A r \in Q : Archive(r) = Archive(c),
           NEW acc, NEW n, Taking(acc, n, P, Q, R)
    PROVE  Taking(Take(n, acc, c), n, P, Q \cup {c}, R)
PROOF
<1> DEFINE ms == acc.merged
           same == {i \in 1 .. n : MergeKey(ms[i]) = MergeKey(c)}
           free == same \ acc.used
           near == {i \in free : Distance(ms[i], c.ts) <= MergeWindow}
           p == ClosestMatch(ms, free, c.ts)
<1>1. /\ n \in Nat /\ acc.used \in SUBSET (1 .. n) /\ Merges(ms, P \cup Q, R)
      /\ acc = [merged |-> ms, used |-> acc.used] /\ n <= Len(ms)
      /\ ms \in Seq(MessagesOver(R))
  BY DEF Taking, Merges
<1>2. 1 .. n \subseteq DOMAIN ms /\ DOMAIN ms = 1 .. Len(ms) /\ Len(ms) \in Nat
  BY <1>1
<1>3. \A i \in 1 .. n : ms[i].ts \in Int
  <2>1. \A i \in 1 .. n : \E r \in R : r.ts = ms[i].ts
    BY DEF Taking
  <2> QED BY <2>1 DEF FromArchives
<1>4. c.ts \in Int
  BY DEF FromArchives
<1>5. /\ p = 0 \/ (p \in free /\ Distance(ms[p], c.ts) <= MergeWindow)
      /\ \A x : near = {x} => p = x
  <2>1. IsFiniteSet(free)
    <3>1. IsFiniteSet(1 .. n) /\ free \in SUBSET (1 .. n)
      BY <1>1, FS_Interval
    <3> HIDE DEF free
    <3> QED BY <3>1, FS_Subset
  <2>2. near = Near(ms, free, c.ts)
    BY DEF Near
  <2>3. \A i \in free : ms[i].ts \in Int
    BY <1>3
  <2> HIDE DEF free, near, ms
  <2>4. p \in near \cup {0} /\ \A x : near = {x} => p = x
    BY <1>4, <2>1, <2>2, <2>3, ClosestMatchIsNear
  <2> QED BY <2>4 DEF near
<1>6. \A i \in 1 .. n : Distance(ms[i], c.ts) = Distance(c, ms[i].ts)
  BY <1>3, <1>4 DEF Distance
<1>7. Take(n, acc, c) = IF p = 0 THEN [acc EXCEPT !.merged = Append(@, c)]
                        ELSE [acc EXCEPT !.merged[p] = Joined(@, c), !.used = @ \cup {p}]
  BY DEF Take
<1>8. ASSUME NEW s \in P, Unmistakable(c, s, R)
      PROVE  p \in 1 .. n /\ Held(s, ms[p])
  <2>1. /\ Alike(c, s) /\ c # s
        /\ \A t \in R : Alike(t, c) \/ Alike(t, s) => t = c \/ t = s
    BY <1>8 DEF Unmistakable
  <2>2. PICK x \in 1 .. n : Held(s, ms[x])
    BY DEF Taking
  <2>3. \A i \in 1 .. n, r \in P \cup Q :
           Held(r, ms[i]) => MergeKey(r) = MergeKey(ms[i]) /\ Distance(r, ms[i].ts) <= MergeWindow
    BY <1>1, <1>2 DEF Merges
  <2>4. PICK h \in P : Held(h, ms[x]) /\ h.ts = ms[x].ts
    BY DEF Taking
  <2>5. h = s
    <3>1. MergeKey(s) = MergeKey(h) /\ Distance(s, h.ts) <= MergeWindow
      BY <2>2, <2>3, <2>4
    <3>2. Alike(s, h)
      BY <3>1 DEF Alike
    <3>3. Alike(h, s)
      BY <3>2, AlikeIsSymmetric DEF FromArchives
    <3> QED BY <2>1, <3>3
  <2>6. MergeKey(ms[x]) = MergeKey(c)
    BY <2>1, <2>2, <2>3 DEF Alike
  <2>7. x \notin acc.used
    <3> SUFFICES ASSUME NEW q \in Q, Held(q, ms[x]) PROVE FALSE
      BY DEF Taking
    <3>1. MergeKey(q) = MergeKey(s) /\ Distance(q, s.ts) <= MergeWindow
      BY <2>2, <2>3, <2>4, <2>5
    <3>2. Alike(q, s)
      BY <3>1 DEF Alike
    <3> QED BY <2>1, <3>2
  <2>8. Distance(ms[x], c.ts) <= MergeWindow
    BY <2>1, <2>4, <2>5, <1>6 DEF Alike
  <2>9. ASSUME NEW y \in near PROVE y = x
    <3>1. PICK g \in P : Held(g, ms[y]) /\ g.ts = ms[y].ts
      BY DEF Taking
    <3>2. MergeKey(g) = MergeKey(c) /\ Distance(c, g.ts) <= MergeWindow
      BY <2>3, <3>1, <1>6
    <3>3. Alike(c, g)
      BY <3>2 DEF Alike
    <3>4. Alike(g, c)
      BY <3>3, AlikeIsSymmetric DEF FromArchives
    <3>5. g = s
      BY <2>1, <3>4
    <3>6. Held(s, ms[y]) /\ Held(s, ms[x])
      BY <2>2, <3>1, <3>5
    <3> QED BY <3>6, <1>1, <1>2 DEF Merges
  <2>10. near = {x}
    BY <2>6, <2>7, <2>8, <2>9
  <2> HIDE DEF p, near
  <2> QED BY <2>2, <2>10, <1>5
<1>9. ASSUME NEW s \in Q PROVE ~ Unmistakable(c, s, R)
  BY DEF Unmistakable
<1>10. P \cup (Q \cup {c}) = (P \cup Q) \cup {c} /\ P \cup Q \in SUBSET R
  OBVIOUS
<1>11. CASE p = 0
  <2> DEFINE new == Append(ms, c)
  <2>1. /\ Merges(new, (P \cup Q) \cup {c}, R)
        /\ \A q \in DOMAIN ms : new[q] = ms[q]
        /\ Len(new) = Len(ms) + 1
    <3>1. \A s \in P \cup Q : ~ Unmistakable(c, s, R)
      <4>1. 0 \notin 1 .. n
        BY <1>1
      <4> QED BY <1>8, <1>9, <1>11, <4>1
    <3> DEFINE PQ == P \cup Q
    <3>2. PQ \in SUBSET R /\ c \in R \ PQ /\ Merges(ms, PQ, R)
      BY <1>1
    <3>3. \A s \in PQ : ~ Unmistakable(c, s, R)
      BY <3>1
    <3> HIDE DEF ms, PQ
    <3>4. /\ Merges(Append(ms, c), PQ \cup {c}, R)
          /\ \A q \in DOMAIN ms : Append(ms, c)[q] = ms[q]
          /\ Len(Append(ms, c)) = Len(ms) + 1
      BY <3>2, <3>3, AppendMerges
    <3> QED BY <3>4 DEF PQ
  <2>2. Take(n, acc, c) = [merged |-> new, used |-> acc.used]
    BY <1>1, <1>7, <1>11
  <2>3. \A i \in 1 .. n : new[i] = ms[i] /\ ~ Held(c, ms[i])
    <3>1. \A i \in DOMAIN ms : \A x \in Sources(ms[i]) : \E t \in P \cup Q : t.sources[1] = x
      BY <1>1 DEF Merges
    <3>2. \A t \in P \cup Q : t.sources[1] # c.sources[1]
      BY DEF FromArchives
    <3> QED BY <1>2, <2>1, <3>1, <3>2 DEF Held
  <2> HIDE DEF new, p, near, free, same
  <2>4. n <= Len(new)
    BY <1>1, <1>2, <2>1
  <2>5. /\ \A i \in 1 .. n : i \in acc.used <=> \E r \in Q \cup {c} : Held(r, new[i])
        /\ \A i \in 1 .. n : \E r \in P : Held(r, new[i]) /\ r.ts = new[i].ts
        /\ \A r \in P : \E i \in 1 .. n : Held(r, new[i])
    BY <2>3 DEF Taking
  <2> DEFINE next == Take(n, acc, c)
  <2>6. next.merged = new /\ next.used = acc.used /\ next = [merged |-> next.merged, used |-> next.used]
    BY <2>2
  <2>7. Merges(next.merged, P \cup (Q \cup {c}), R)
    BY <1>10, <2>1, <2>6
  <2> HIDE DEF next
  <2>8. Taking(next, n, P, Q \cup {c}, R)
    BY <1>1, <2>4, <2>5, <2>6, <2>7 DEF Taking
  <2> QED BY <2>8 DEF next
<1>12. CASE p # 0
  <2> DEFINE new == [ms EXCEPT ![p] = Joined(@, c)]
  <2>1. /\ p \in 1 .. n /\ p \notin acc.used /\ MergeKey(c) = MergeKey(ms[p])
        /\ Distance(c, ms[p].ts) <= MergeWindow
    BY <1>5, <1>6, <1>12
  <2> HIDE DEF p, near, free, same
  <2>2. /\ Merges(new, (P \cup Q) \cup {c}, R)
        /\ Len(new) = Len(ms)
        /\ \A q \in DOMAIN ms : /\ new[q].ts = ms[q].ts
                                /\ \A r \in P \cup Q : Held(r, new[q]) <=> Held(r, ms[q])
                                /\ Held(c, new[q]) <=> q = p
    <3>1. c.conv = ms[p].conv
      <4>1. PICK h \in P : Held(h, ms[p])
        BY <2>1 DEF Taking
      <4>2. h.conv = ms[p].conv
        BY <4>1, <2>1, <1>1, <1>2 DEF Merges
      <4> QED BY <4>2
    <3>2. \A r \in P \cup Q : Held(r, ms[p]) => Archive(r) # Archive(c)
      <4>1. \A r \in Q : ~ Held(r, ms[p])
        BY <2>1 DEF Taking
      <4> QED BY <4>1
    <3>3. \A s \in P \cup Q : Unmistakable(c, s, R) => Held(s, ms[p])
      BY <1>8, <1>9
    <3>4. p \in DOMAIN ms /\ c \in R \ (P \cup Q) /\ new = [ms EXCEPT ![p] = Joined(@, c)]
      BY <1>2, <2>1
    <3> DEFINE PQ == P \cup Q
    <3>5. MayJoin(ms, p, c, PQ, R)
      BY <1>1, <2>1, <3>1, <3>2, <3>3, <3>4 DEF MayJoin
    <3> HIDE DEF ms, PQ, new
    <3>6. HasJoined(new, ms, p, c, PQ, R)
      BY <3>5, JoinMerges DEF new
    <3> QED BY <3>6 DEF PQ, HasJoined
  <2>3. Take(n, acc, c) = [merged |-> new, used |-> acc.used \cup {p}]
    BY <1>1, <1>7, <1>12
  <2> HIDE DEF new
  <2>4. acc.used \cup {p} \in SUBSET (1 .. n)
    BY <1>1, <2>1
  <2>5. /\ \A i \in 1 .. n : i \in acc.used \cup {p} <=> \E r \in Q \cup {c} : Held(r, new[i])
        /\ \A i \in 1 .. n : \E r \in P : Held(r, new[i]) /\ r.ts = new[i].ts
        /\ \A r \in P : \E i \in 1 .. n : Held(r, new[i])
    BY <1>2, <2>2 DEF Taking
  <2> DEFINE next == Take(n, acc, c)
  <2>6. /\ next.merged = new /\ next.used = acc.used \cup {p}
        /\ next = [merged |-> next.merged, used |-> next.used]
    BY <2>3
  <2>7. Merges(next.merged, P \cup (Q \cup {c}), R)
    BY <1>10, <2>2, <2>6
  <2> HIDE DEF next
  <2>8. Taking(next, n, P, Q \cup {c}, R)
    BY <1>1, <2>2, <2>4, <2>5, <2>6, <2>7 DEF Taking
  <2> QED BY <2>8 DEF next
<1> QED BY <1>11, <1>12

Sortable(S) ==
    /\ IsFiniteSet(S)
    /\ \A m \in S : m.ts \in Int /\ HashOrder(m.sources[1]) \in Int
    /\ \A m, n \in S : HashOrder(m.sources[1]) = HashOrder(n.sources[1]) => m = n

\* sortMessages enumerates the messages it is given, in their order.
LEMMA MessagesAreSorted ==
    ASSUME NEW S, Sortable(S)
    PROVE  LET s == SortMessages(S) IN
           /\ Enumerates(s, S)
           /\ \A i, k \in 1 .. Len(s) : i < k => Precedes(s[i], s[k])
PROOF
<1> DEFINE before == {mn \in S \X S : Precedes(mn[1], mn[2])}
           s == SortMessages(S)
<1>1. \A x, y \in S : <<x, y>> \in before <=> Precedes(x, y)
  OBVIOUS
<1>2. Orders(before, S)
  <2> HIDE DEF before
  <2> QED BY <1>1 DEF Orders, Sortable, Precedes
<1>3. s = InOrder(S, before)
  BY DEF SortMessages
<1> HIDE DEF before, s
<1>4. /\ Enumerates(s, S)
      /\ \A i, k \in 1 .. Len(s) : i < k => <<s[i], s[k]>> \in before
  BY <1>2, <1>3, InOrderIsSorted DEF Sortable
<1>5. \A i \in 1 .. Len(s) : s[i] \in S
  BY <1>4 DEF Enumerates
<1> QED BY <1>1, <1>4, <1>5 DEF s

\* Merging the records of one more archive keeps the promises of a merge.
LEMMA GroupMerges ==
    ASSUME NEW R, FromArchives(R), \A r, s \in R : r.conv = s.conv,
           NEW P \in SUBSET R, NEW group \in SUBSET R, NEW a,
           \A r \in P : Archive(r) # a, \A r \in group : Archive(r) = a,
           NEW merged, Merges(merged, P, R)
    PROVE  Merges(MergeGroup(merged, group), P \cup group, R)
PROOF
<1> DEFINE cs == SortMessages(group)
           n == Len(merged)
           Taken(i) == {cs[k] : k \in 1 .. i}
<1>1. Sortable(group)
  <2>1. IsFiniteSet(group)
    BY FS_Subset DEF FromArchives
  <2> QED BY <2>1 DEF FromArchives, Sortable
<1>2. /\ cs \in Seq(group) /\ Len(cs) \in Nat
      /\ \A x \in group : \E i \in 1 .. Len(cs) : cs[i] = x
      /\ \A i, k \in 1 .. Len(cs) : cs[i] = cs[k] => i = k
  <2>1. Enumerates(cs, group)
    BY <1>1, MessagesAreSorted
  <2> HIDE DEF cs
  <2> QED BY <2>1 DEF Enumerates
<1> HIDE DEF cs
<1>3. PICK taken :
          /\ taken[0] = [merged |-> merged, used |-> {}]
          /\ \A i \in 1 .. Len(cs) : taken[i] = Take(n, taken[i - 1], cs[i])
          /\ MergeGroup(merged, group) = taken[Len(cs)].merged
  <2>1. Len(SortMessages(group)) \in Nat
    BY <1>2 DEF cs
  <2>2. \E taken :
           /\ taken[0] = [merged |-> merged, used |-> {}]
           /\ \A i \in 1 .. Len(SortMessages(group)) :
                 taken[i] = Take(Len(merged), taken[i - 1], SortMessages(group)[i])
           /\ MergeGroup(merged, group) = taken[Len(SortMessages(group))].merged
    BY <2>1, GroupIsTakenInSteps
  <2> QED BY <2>2 DEF cs
<1>4. Taking(taken[0], n, P, Taken(0), R)
  <2> DEFINE acc == [merged |-> merged, used |-> {}]
  <2>1. Taken(0) = {} /\ P \cup Taken(0) = P
    OBVIOUS
  <2>2. n \in Nat /\ DOMAIN merged = 1 .. n
    BY DEF Merges
  <2>3. \A p \in 1 .. n : \E r \in P : Held(r, merged[p]) /\ r.ts = merged[p].ts
    <3>1. \A p \in 1 .. n : merged[p].sources[1] \in Sources(merged[p])
      <4> TAKE p \in 1 .. n
      <4>1. merged[p].sources \in Seq({r.sources[1] : r \in R}) /\ merged[p].sources # <<>>
        <5>1. merged[p] \in MessagesOver(R)
          BY <2>2 DEF Merges
        <5>2. merged[p].sources # <<>>
          BY <2>2 DEF Merges
        <5> QED BY <5>1, <5>2 DEF MessagesOver
      <4>2. 1 \in DOMAIN merged[p].sources
        BY <4>1
      <4> QED BY <4>2 DEF Sources, ToSet
    <3>2. \A p \in 1 .. n : \E r \in P : r.sources[1] = merged[p].sources[1] /\ r.ts = merged[p].ts
      BY <2>2 DEF Merges
    <3> QED BY <3>1, <3>2 DEF Held
  <2>4. \A r \in P : \E p \in 1 .. n : Held(r, merged[p])
    BY <2>2 DEF Merges
  <2>5. acc.merged = merged /\ acc.used = {} /\ acc = [merged |-> acc.merged, used |-> acc.used]
    OBVIOUS
  <2> HIDE DEF acc, n
  <2>6. Taking(acc, n, P, {}, R)
    <3>1. Merges(acc.merged, P \cup {}, R)
      BY <2>5
    <3>2. n <= Len(acc.merged)
      BY <2>2, <2>5 DEF n
    <3> QED BY <2>2, <2>3, <2>4, <2>5, <3>1, <3>2 DEF Taking
  <2> QED BY <2>1, <2>6, <1>3 DEF acc
<1>5. ASSUME NEW i \in 1 .. Len(cs), Taking(taken[i - 1], n, P, Taken(i - 1), R)
      PROVE  Taking(taken[i], n, P, Taken(i), R)
  <2> DEFINE Q == Taken(i - 1)
  <2>1. Q \in SUBSET group /\ cs[i] \in group
    BY <1>2
  <2>2. cs[i] \notin P \cup Q
    <3>1. \A k \in 1 .. i - 1 : k \in 1 .. Len(cs) /\ k # i
      BY <1>2
    <3>2. cs[i] \notin Q
      BY <1>2, <3>1
    <3>3. cs[i] \notin P
      BY <2>1
    <3> QED BY <3>2, <3>3
  <2>3. Taken(i) = Q \cup {cs[i]}
    <3>1. \A k : k \in 1 .. i <=> k \in 1 .. i - 1 \/ k = i
      BY <1>2
    <3> QED BY <3>1
  <2>4. /\ cs[i] \in R /\ Q \in SUBSET R
        /\ \A r \in P : Archive(r) # Archive(cs[i])
        /\ \A r \in Q : Archive(r) = Archive(cs[i])
    BY <2>1
  <2>5. Taking(taken[i - 1], n, P, Q, R)
    BY <1>5
  <2> HIDE DEF Q, n, Taken
  <2>6. Taking(Take(n, taken[i - 1], cs[i]), n, P, Q \cup {cs[i]}, R)
    BY <2>2, <2>4, <2>5, TakeMerges
  <2> QED BY <1>3, <2>3, <2>6
<1>6. Taking(taken[Len(cs)], n, P, Taken(Len(cs)), R)
  <2> DEFINE T == {i \in 0 .. Len(cs) : Taking(taken[i], n, P, Taken(i), R)}
  <2>1. 0 \in T
    BY <1>2, <1>4
  <2>2. ASSUME NEW i \in 1 .. Len(cs), i - 1 \in T PROVE i \in T
    <3>1. i \in 0 .. Len(cs) /\ Taking(taken[i - 1], n, P, Taken(i - 1), R)
      BY <1>2, <2>2
    <3> QED BY <3>1, <1>5
  <2>3. Len(cs) \in T
    <3> HIDE DEF T
    <3> QED BY <1>2, <2>1, <2>2, LoopInduction
  <2> QED BY <2>3
<1>7. Taken(Len(cs)) = group
  BY <1>2
<1> QED BY <1>3, <1>6, <1>7 DEF Taking

\* mergeCrossSource goes over each archive once.
LEMMA ArchivesAreEnumerated ==
    ASSUME NEW R, FromArchives(R)
    PROVE  Enumerates(Archives(R), {Archive(r) : r \in R})
PROOF
<1> DEFINE all == {Archive(r) : r \in R}
           before == {ab \in all \X all : \/ ab[1][1] < ab[2][1]
                                          \/ ab[1][1] = ab[2][1] /\ ab[1][2] < ab[2][2]}
<1>1. IsFiniteSet(all)
  <2>1. [r \in R |-> Archive(r)] \in Surjection(R, all)
    BY DEF Surjection
  <2>2. IsFiniteSet(R)
    BY DEF FromArchives
  <2> HIDE DEF all
  <2> QED BY <2>1, <2>2, FS_Surjection
<1>2. \A a \in all : a = <<a[1], a[2]>> /\ a[1] \in Int /\ a[2] \in Int
  BY DEF FromArchives, Archive
<1>3. \A a, b \in all :
         <<a, b>> \in before <=> a[1] < b[1] \/ (a[1] = b[1] /\ a[2] < b[2])
  OBVIOUS
<1>4. Archives(R) = InOrder(all, before)
  BY DEF Archives
<1> HIDE DEF all, before
<1>5. Orders(before, all)
  BY <1>2, <1>3 DEF Orders
<1>6. Enumerates(InOrder(all, before), all)
  BY <1>1, <1>5, InOrderIsSorted
<1> QED BY <1>4, <1>6 DEF all

\* The order in which messages are kept does not matter to what they are made of.
LEMMA SortedMerges ==
    ASSUME NEW R, FromArchives(R), NEW P \in SUBSET R, NEW ms, Merges(ms, P, R)
    PROVE  LET s == SortMessages(ToSet(ms)) IN
           /\ Merges(s, P, R)
           /\ \A i, k \in DOMAIN s : i < k => Precedes(s[i], s[k])
PROOF
<1> DEFINE s == SortMessages(ToSet(ms))
<1>1. ms \in Seq(MessagesOver(R)) /\ DOMAIN ms = 1 .. Len(ms) /\ Len(ms) \in Nat
  BY DEF Merges
<1>2. \A p \in DOMAIN ms : \E r \in P : /\ r.sources[1] = ms[p].sources[1] /\ r.ts = ms[p].ts
                                       /\ Held(r, ms[p])
  <2> TAKE p \in DOMAIN ms
  <2>1. ms[p] \in MessagesOver(R)
    BY <1>1
  <2>2. ms[p].sources # <<>> /\ \E r \in P : r.sources[1] = ms[p].sources[1] /\ r.ts = ms[p].ts
    BY DEF Merges
  <2>3. ms[p].sources[1] \in Sources(ms[p])
    <3>1. 1 \in DOMAIN ms[p].sources
      BY <2>1, <2>2 DEF MessagesOver
    <3> QED BY <3>1 DEF Sources, ToSet
  <2> QED BY <2>2, <2>3 DEF Held
<1>3. \A p, q \in DOMAIN ms :
         HashOrder(ms[p].sources[1]) = HashOrder(ms[q].sources[1]) => p = q
  <2> TAKE p, q \in DOMAIN ms
  <2> HAVE HashOrder(ms[p].sources[1]) = HashOrder(ms[q].sources[1])
  <2>1. PICK r \in P : r.sources[1] = ms[p].sources[1] /\ Held(r, ms[p])
    BY <1>2
  <2>2. PICK t \in P : t.sources[1] = ms[q].sources[1] /\ Held(t, ms[q])
    BY <1>2
  <2>3. r = t
    BY <2>1, <2>2 DEF FromArchives
  <2> QED BY <2>1, <2>2, <2>3 DEF Merges
<1>4. ToSet(ms) = {ms[p] : p \in DOMAIN ms}
  BY DEF ToSet
<1>5. Sortable(ToSet(ms))
  <2>1. IsFiniteSet(ToSet(ms))
    <3>1. IsFiniteSet(1 .. Len(ms))
      BY <1>1, FS_Interval
    <3>2. ms \in Surjection(1 .. Len(ms), ToSet(ms))
      BY <1>1, <1>4 DEF Surjection
    <3> QED BY <3>1, <3>2, FS_Surjection
  <2>2. \A p \in DOMAIN ms : ms[p].ts \in Int /\ HashOrder(ms[p].sources[1]) \in Int
    BY <1>2 DEF FromArchives
  <2> QED BY <1>3, <1>4, <2>1, <2>2 DEF Sortable
<1>6. /\ Enumerates(s, ToSet(ms))
      /\ \A i, k \in 1 .. Len(s) : i < k => Precedes(s[i], s[k])
  BY <1>5, MessagesAreSorted
<1> HIDE DEF s
<1>7. /\ s \in Seq(ToSet(ms)) /\ DOMAIN s = 1 .. Len(s)
      /\ \A x \in ToSet(ms) : \E i \in DOMAIN s : s[i] = x
      /\ \A i, k \in DOMAIN s : s[i] = s[k] => i = k
  BY <1>6 DEF Enumerates
<1>8. /\ \A i \in DOMAIN s : \E p \in DOMAIN ms : s[i] = ms[p]
      /\ \A p \in DOMAIN ms : \E i \in DOMAIN s : s[i] = ms[p]
  <2>1. \A i \in DOMAIN s : s[i] \in ToSet(ms)
    BY <1>7
  <2>2. \A p \in DOMAIN ms : ms[p] \in ToSet(ms)
    BY <1>4
  <2>3. \A x \in ToSet(ms) : \E p \in DOMAIN ms : x = ms[p]
    BY <1>4
  <2> QED BY <1>7, <2>1, <2>2, <2>3, Zenon
<1>9. Merges(s, P, R)
  <2>1. s \in Seq(MessagesOver(R))
    <3>1. ToSet(ms) \subseteq MessagesOver(R)
      BY <1>1, <1>4
    <3> QED BY <1>7, <3>1
  <2>2. \A p, q \in DOMAIN s, r \in P : Held(r, s[p]) /\ Held(r, s[q]) => p = q
    <3>1. \A p, q \in DOMAIN ms, r \in P : Held(r, ms[p]) /\ Held(r, ms[q]) => p = q
      BY DEF Merges
    <3> QED BY <1>7, <1>8, <3>1
  <2>3. /\ \A p \in DOMAIN s : \A x \in Sources(s[p]) : \E r \in P : r.sources[1] = x
        /\ \A p \in DOMAIN s, r \in P :
              Held(r, s[p]) => /\ r.conv = s[p].conv /\ MergeKey(r) = MergeKey(s[p])
                               /\ Distance(r, s[p].ts) <= MergeWindow
    <3>1. /\ \A p \in DOMAIN ms : \A x \in Sources(ms[p]) : \E r \in P : r.sources[1] = x
          /\ \A p \in DOMAIN ms, r \in P :
                Held(r, ms[p]) => /\ r.conv = ms[p].conv /\ MergeKey(r) = MergeKey(ms[p])
                                  /\ Distance(r, ms[p].ts) <= MergeWindow
      BY DEF Merges
    <3>2. ASSUME NEW p \in DOMAIN s
          PROVE  /\ \A x \in Sources(s[p]) : \E r \in P : r.sources[1] = x
                 /\ \A r \in P : Held(r, s[p]) => /\ r.conv = s[p].conv /\ MergeKey(r) = MergeKey(s[p])
                                                  /\ Distance(r, s[p].ts) <= MergeWindow
      <4>1. PICK q \in DOMAIN ms : s[p] = ms[q]
        BY <1>8
      <4> QED BY <3>1, <4>1
    <3> QED BY <3>2
  <2>4. \A p \in DOMAIN s : /\ s[p].sources # <<>>
                            /\ \E r \in P : r.sources[1] = s[p].sources[1] /\ r.ts = s[p].ts
    <3>1. \A p \in DOMAIN ms : /\ ms[p].sources # <<>>
                               /\ \E r \in P : r.sources[1] = ms[p].sources[1] /\ r.ts = ms[p].ts
      BY DEF Merges
    <3> TAKE i \in DOMAIN s
    <3>2. PICK p \in DOMAIN ms : s[i] = ms[p]
      BY <1>8
    <3> QED BY <3>1, <3>2
  <2>5. \A r \in P : \E p \in DOMAIN s : Held(r, s[p])
    <3> TAKE r \in P
    <3>1. PICK p \in DOMAIN ms : Held(r, ms[p])
      BY DEF Merges
    <3> QED BY <1>8, <3>1
  <2>6. \A p \in DOMAIN s : \A k, l \in DOMAIN s[p].sources :
           s[p].sources[k] = s[p].sources[l] => k = l
    <3>1. \A p \in DOMAIN ms : \A k, l \in DOMAIN ms[p].sources :
             ms[p].sources[k] = ms[p].sources[l] => k = l
      BY DEF Merges
    <3> TAKE i \in DOMAIN s
    <3>2. PICK p \in DOMAIN ms : s[i] = ms[p]
      BY <1>8
    <3> QED BY <3>1, <3>2
  <2>7. \A p \in DOMAIN s, r, t \in P :
           Held(r, s[p]) /\ Held(t, s[p]) /\ Archive(r) = Archive(t) => r = t
    <3>1. \A p \in DOMAIN ms, r, t \in P :
             Held(r, ms[p]) /\ Held(t, ms[p]) /\ Archive(r) = Archive(t) => r = t
      BY DEF Merges
    <3> TAKE i \in DOMAIN s
    <3>2. PICK p \in DOMAIN ms : s[i] = ms[p]
      BY <1>8
    <3> QED BY <3>1, <3>2
  <2>8. \A p \in DOMAIN s :
           s[p].attachments = UNION {r.attachments : r \in {x \in P : Held(x, s[p])}}
    <3> TAKE i \in DOMAIN s
    <3>1. PICK p \in DOMAIN ms : s[i] = ms[p]
      BY <1>8
    <3>2. ms[p].attachments = UNION {r.attachments : r \in {x \in P : Held(x, ms[p])}}
      BY DEF Merges
    <3> QED BY <3>1, <3>2
  <2>9. \A r, t \in P : Unmistakable(r, t, R) =>
           \E p \in DOMAIN s : Held(r, s[p]) /\ Held(t, s[p])
    <3> TAKE r, t \in P
    <3> HAVE Unmistakable(r, t, R)
    <3>1. PICK p \in DOMAIN ms : Held(r, ms[p]) /\ Held(t, ms[p])
      BY DEF Merges
    <3> QED BY <3>1, <1>8
  <2> QED BY <2>1, <2>2, <2>3, <2>4, <2>5, <2>6, <2>7, <2>8, <2>9 DEF Merges
<1> QED BY <1>6, <1>7, <1>9 DEF s

\* What mergeCrossSource makes of the records of a conversation.
LEMMA ConversationIsMerged ==
    ASSUME NEW R, FromArchives(R), \A r, s \in R : r.conv = s.conv
    PROVE  LET d == MergeCrossSource(R) IN
           /\ Merges(d, R, R)
           /\ \A i, k \in DOMAIN d : i < k => Precedes(d[i], d[k])
PROOF
<1> DEFINE keys == Archives(R)
           Of(i) == {r \in R : Archive(r) = keys[i]}
           Upto(i) == {r \in R : \E k \in 1 .. i : Archive(r) = keys[k]}
<1>1. Enumerates(keys, {Archive(r) : r \in R})
  BY ArchivesAreEnumerated
<1> HIDE DEF keys
<1>2. /\ Len(keys) \in Nat
      /\ \A r \in R : \E i \in 1 .. Len(keys) : keys[i] = Archive(r)
      /\ \A i, k \in 1 .. Len(keys) : keys[i] = keys[k] => i = k
  <2> DEFINE all == {Archive(r) : r \in R}
  <2>1. \A r \in R : Archive(r) \in all
    OBVIOUS
  <2>2. Enumerates(keys, all)
    BY <1>1
  <2> HIDE DEF all
  <2> QED BY <2>1, <2>2 DEF Enumerates
<1>3. PICK merged :
          /\ merged[0] = <<>>
          /\ \A i \in 1 .. Len(keys) : merged[i] = MergeGroup(merged[i - 1], Of(i))
          /\ MergeCrossSource(R) = SortMessages(ToSet(merged[Len(keys)]))
  <2>1. Len(Archives(R)) \in Nat
    BY <1>2 DEF keys
  <2>2. \E merged :
           /\ merged[0] = <<>>
           /\ \A i \in 1 .. Len(Archives(R)) :
                 merged[i] = MergeGroup(merged[i - 1], {m \in R : Archive(m) = Archives(R)[i]})
           /\ MergeCrossSource(R) = SortMessages(ToSet(merged[Len(Archives(R))]))
    BY <2>1, ArchivesAreMergedInSteps
  <2> QED BY <2>2 DEF keys
<1>4. Merges(<<>>, {}, R)
  BY DEF Merges
<1>5. ASSUME NEW i \in 1 .. Len(keys), Merges(merged[i - 1], Upto(i - 1), R)
      PROVE  Merges(merged[i], Upto(i), R)
  <2>1. \A k \in 1 .. i - 1 : k \in 1 .. Len(keys) /\ k # i
    BY <1>2
  <2>2. /\ Upto(i - 1) \in SUBSET R /\ Of(i) \in SUBSET R
        /\ \A r \in Upto(i - 1) : Archive(r) # keys[i]
        /\ \A r \in Of(i) : Archive(r) = keys[i]
    BY <1>2, <2>1
  <2>3. Upto(i) = Upto(i - 1) \cup Of(i)
    <3>1. \A k : k \in 1 .. i <=> k \in 1 .. i - 1 \/ k = i
      BY <1>2
    <3> QED BY <3>1
  <2> HIDE DEF Upto, Of
  <2>4. Merges(MergeGroup(merged[i - 1], Of(i)), Upto(i - 1) \cup Of(i), R)
    BY <1>5, <2>2, GroupMerges
  <2> QED BY <1>3, <2>3, <2>4
<1>6. Merges(merged[Len(keys)], Upto(Len(keys)), R)
  <2> DEFINE T == {i \in 0 .. Len(keys) : Merges(merged[i], Upto(i), R)}
  <2>1. 0 \in T
    <3>1. Upto(0) = {}
      OBVIOUS
    <3>2. 0 \in 0 .. Len(keys)
      BY <1>2
    <3> HIDE DEF Upto
    <3> QED BY <3>1, <3>2, <1>3, <1>4
  <2>2. ASSUME NEW i \in 1 .. Len(keys), i - 1 \in T PROVE i \in T
    <3>1. i \in 0 .. Len(keys) /\ Merges(merged[i - 1], Upto(i - 1), R)
      BY <1>2, <2>2
    <3> QED BY <3>1, <1>5
  <2>3. Len(keys) \in T
    <3> HIDE DEF T
    <3> QED BY <1>2, <2>1, <2>2, LoopInduction
  <2> QED BY <2>3
<1>7. Upto(Len(keys)) = R
  BY <1>2
<1> DEFINE ms == merged[Len(keys)]
<1>8. Merges(ms, R, R) /\ MergeCrossSource(R) = SortMessages(ToSet(ms))
  BY <1>3, <1>6, <1>7
<1> HIDE DEF ms
<1> QED BY <1>8, SortedMerges

\* A dataset keeps its promises, whatever records it is made of.
LEMMA DatasetIsRight ==
    ASSUME NEW convs, NEW R, FromArchives(R)
    PROVE  LET d == Dataset(convs, R) IN
           /\ EachRecordOnce(d, R)
           /\ RecordsOfAMessageAgree(d, R)
           /\ UnmistakablePairIsOne(d, R)
           /\ \A c \in DOMAIN d : /\ d[c] \in Seq(MessagesOver(R))
                                  /\ \A i, k \in DOMAIN d[c] : i < k => Precedes(d[c][i], d[c][k])
                                  /\ \A i \in DOMAIN d[c] :
                                        \E r \in R : r.sources[1] = d[c][i].sources[1]
                                  /\ \A i, k \in DOMAIN d[c] :
                                        Sources(d[c][i]) \cap Sources(d[c][k]) # {} => i = k
PROOF
<1> DEFINE d == Dataset(convs, R)
           Of(c) == {m \in R : m.conv = c}
<1>1. DOMAIN d = convs \cup {m.conv : m \in R} /\ \A c \in DOMAIN d : d[c] = MergeCrossSource(Of(c))
  BY DEF Dataset
<1>2. ASSUME NEW c PROVE FromArchives(Of(c))
  <2>1. Of(c) \in SUBSET R
    OBVIOUS
  <2>2. IsFiniteSet(Of(c))
    <3> HIDE DEF Of
    <3> QED BY <2>1, FS_Subset DEF FromArchives
  <2> HIDE DEF Of
  <2> QED BY <2>1, <2>2 DEF FromArchives
<1>3. ASSUME NEW c \in DOMAIN d
      PROVE  /\ Merges(d[c], Of(c), Of(c))
             /\ \A i, k \in DOMAIN d[c] : i < k => Precedes(d[c][i], d[c][k])
  <2>1. FromArchives(Of(c)) /\ d[c] = MergeCrossSource(Of(c))
    BY <1>1, <1>2
  <2>2. \A r, s \in Of(c) : r.conv = s.conv
    OBVIOUS
  <2> HIDE DEF Of, d
  <2> QED BY <2>1, <2>2, ConversationIsMerged
<1> HIDE DEF d
<1>4. ASSUME NEW c \in DOMAIN d, NEW i \in DOMAIN d[c], NEW r \in R
      PROVE  Held(r, d[c][i]) => r \in Of(c)
  <2> SUFFICES ASSUME Held(r, d[c][i]) PROVE r.conv = c
    OBVIOUS
  <2>1. \A s \in Sources(d[c][i]) : \E t \in Of(c) : t.sources[1] = s
    <3> HIDE DEF Of
    <3> QED BY <1>3 DEF Merges
  <2>2. PICK t \in Of(c) : t.sources[1] = r.sources[1]
    BY <2>1 DEF Held
  <2> QED BY <2>2 DEF FromArchives
<1>5. \A e : e \in Entries(d) <=> \E c \in DOMAIN d : \E i \in DOMAIN d[c] : e = <<c, i>>
  BY DEF Entries
<1>6. \A r \in R : r.conv \in DOMAIN d
  BY <1>1
<1>7. ASSUME NEW r \in R
      PROVE  Cardinality({e \in Entries(d) : r.sources[1] \in Sources(Entry(d, e))}) = 1
  <2>1. r.conv \in DOMAIN d /\ r \in Of(r.conv)
    BY <1>6
  <2>2. PICK p \in DOMAIN d[r.conv] : Held(r, d[r.conv][p])
    <3> HIDE DEF Of
    <3> QED BY <1>3, <2>1 DEF Merges
  <2>3. ASSUME NEW e \in Entries(d), r.sources[1] \in Sources(Entry(d, e))
        PROVE  e = <<r.conv, p>>
    <3>1. PICK c \in DOMAIN d : \E i \in DOMAIN d[c] : e = <<c, i>>
      BY <1>5
    <3>2. PICK i \in DOMAIN d[c] : e = <<c, i>>
      BY <3>1
    <3>3. Held(r, d[c][i])
      BY <2>3, <3>2 DEF Entry, Held
    <3>4. c = r.conv
      BY <1>4, <3>3
    <3>5. i = p
      BY <1>3, <2>1, <2>2, <3>3, <3>4 DEF Merges
    <3> QED BY <3>2, <3>4, <3>5
  <2>4. <<r.conv, p>> \in Entries(d) /\ r.sources[1] \in Sources(Entry(d, <<r.conv, p>>))
    BY <1>5, <2>1, <2>2 DEF Entry, Held
  <2>5. {e \in Entries(d) : r.sources[1] \in Sources(Entry(d, e))} = {<<r.conv, p>>}
    BY <2>3, <2>4
  <2> QED BY <2>5, FS_Singleton
<1>8. ASSUME NEW e \in Entries(d)
      PROVE  Len(Entry(d, e).sources) = Cardinality(Sources(Entry(d, e)))
  <2>1. PICK c \in DOMAIN d : \E i \in DOMAIN d[c] : e = <<c, i>>
    BY <1>5
  <2>2. PICK i \in DOMAIN d[c] : e = <<c, i>>
    BY <2>1
  <2> DEFINE f == d[c][i].sources
  <2>3. f \in Seq({r.sources[1] : r \in Of(c)})
    <3>1. d[c][i] \in MessagesOver(Of(c))
      BY <1>3, <2>2 DEF Merges
    <3> QED BY <3>1 DEF MessagesOver
  <2>4. \A k, l \in DOMAIN f : f[k] = f[l] => k = l
    BY <1>3 DEF Merges
  <2> HIDE DEF f
  <2>5. f \in Bijection(1 .. Len(f), ToSet(f)) /\ Len(f) \in Nat
    BY <2>3, <2>4 DEF ToSet, Bijection, Injection, Surjection, IsInjective
  <2>6. Cardinality(ToSet(f)) = Len(f)
    BY <2>5, FS_CountingElements DEF ExistsBijection
  <2> QED BY <2>2, <2>6 DEF Entry, Sources, f
<1>9. EachRecordOnce(d, R)
  BY <1>6, <1>7, <1>8 DEF EachRecordOnce
<1>10. RecordsOfAMessageAgree(d, R)
  <2> SUFFICES ASSUME NEW e \in Entries(d)
      PROVE  LET m   == Entry(d, e)
                 all == {r \in R : r.sources[1] \in Sources(m)}
             IN  /\ \A r \in all : /\ r.conv = e[1] /\ MergeKey(r) = MergeKey(m)
                                   /\ Distance(r, m.ts) <= MergeWindow
                 /\ \A r, s \in all : Archive(r) = Archive(s) => r = s
                 /\ m.attachments = UNION {r.attachments : r \in all}
    BY DEF RecordsOfAMessageAgree
  <2>1. PICK c \in DOMAIN d : \E i \in DOMAIN d[c] : e = <<c, i>>
    BY <1>5
  <2>2. PICK i \in DOMAIN d[c] : e = <<c, i>>
    BY <2>1
  <2> DEFINE m == d[c][i]
             all == {x \in Of(c) : Held(x, m)}
  <2>3. {r \in R : r.sources[1] \in Sources(m)} = all
    BY <1>4 DEF Held
  <2>4. m.attachments = UNION {r.attachments : r \in all}
    <3> HIDE DEF Of
    <3> QED BY <1>3 DEF Merges
  <2>5. \A r \in all : r.conv = c /\ MergeKey(r) = MergeKey(m) /\ Distance(r, m.ts) <= MergeWindow
    <3>1. \A r \in Of(c) : Held(r, m) => MergeKey(r) = MergeKey(m) /\ Distance(r, m.ts) <= MergeWindow
      <4> HIDE DEF Of
      <4> QED BY <1>3 DEF Merges
    <3> QED BY <3>1
  <2>6. \A r, s \in all : Archive(r) = Archive(s) => r = s
    <3> HIDE DEF Of
    <3> QED BY <1>3 DEF Merges
  <2>7. Entry(d, e) = m /\ e[1] = c
    BY <2>2 DEF Entry
  <2> HIDE DEF m, all
  <2> QED BY <2>3, <2>4, <2>5, <2>6, <2>7
<1>11. UnmistakablePairIsOne(d, R)
  <2> SUFFICES ASSUME NEW r \in R, NEW s \in R, Unmistakable(r, s, R)
      PROVE  \E e \in Entries(d) : {r.sources[1], s.sources[1]} \subseteq Sources(Entry(d, e))
    BY DEF UnmistakablePairIsOne, Unmistakable
  <2>1. r \in Of(r.conv) /\ s \in Of(r.conv) /\ r.conv \in DOMAIN d
    BY <1>6 DEF Unmistakable, Alike
  <2>2. Unmistakable(r, s, Of(r.conv))
    BY DEF Unmistakable
  <2>3. PICK p \in DOMAIN d[r.conv] : Held(r, d[r.conv][p]) /\ Held(s, d[r.conv][p])
    <3> DEFINE c == r.conv
    <3>1. Merges(d[c], Of(c), Of(c)) /\ r \in Of(c) /\ s \in Of(c) /\ Unmistakable(r, s, Of(c))
      BY <1>3, <2>1, <2>2
    <3>2. \E p \in DOMAIN d[c] : Held(r, d[c][p]) /\ Held(s, d[c][p])
      <4> HIDE DEF Of, c
      <4> QED BY <3>1 DEF Merges
    <3> QED BY <3>2
  <2>4. <<r.conv, p>> \in Entries(d)
    BY <1>5, <2>1
  <2> QED BY <2>3, <2>4 DEF Entry, Held
<1>12. ASSUME NEW c \in DOMAIN d
       PROVE  /\ d[c] \in Seq(MessagesOver(R))
              /\ \A i \in DOMAIN d[c] : \E r \in R : r.sources[1] = d[c][i].sources[1]
  <2>1. d[c] \in Seq(MessagesOver(Of(c)))
    BY <1>3 DEF Merges
  <2>2. MessagesOver(Of(c)) \subseteq MessagesOver(R)
    <3>1. \A m \in MessagesOver(Of(c)) : m \in MessagesOver(R)
      BY DEF MessagesOver
    <3> QED BY <3>1
  <2> HIDE DEF Of
  <2>3. \A i \in DOMAIN d[c] : \E r \in Of(c) : r.sources[1] = d[c][i].sources[1]
    BY <1>3 DEF Merges
  <2>4. Of(c) \subseteq R
    BY DEF Of
  <2> QED BY <2>1, <2>2, <2>3, <2>4
<1>13. ASSUME NEW c \in DOMAIN d, NEW i \in DOMAIN d[c], NEW k \in DOMAIN d[c],
              NEW src \in Sources(d[c][i]) \cap Sources(d[c][k])
       PROVE  i = k
  <2> HIDE DEF Of
  <2>1. PICK t \in Of(c) : t.sources[1] = src
    BY <1>3 DEF Merges
  <2>2. Held(t, d[c][i]) /\ Held(t, d[c][k])
    BY <2>1 DEF Held
  <2> QED BY <1>3, <2>2 DEF Merges
<1> QED BY <1>3, <1>9, <1>10, <1>11, <1>12, <1>13 DEF d

-----------------------------------------------------------------------------
(* The state and the mutex.                                                *)

Over    == {"idle", "ok", "failed", "conflict"}
Reading == {"verifyRelay", "conversations", "relayMessages", "verifyTelephony", "rows"}

Fields == {"pc", "at", "self", "people", "loaded", "began", "clean", "due"}

JobShape(x) ==
    /\ DOMAIN x = Fields
    /\ x.pc \in Over \cup Reading \cup {"command", "swap", "metadata"}
    /\ x.clean \in BOOLEAN

\* What makes TypeOK and SyncIsServed inductive: a request reads the state that
\* its own export left, and until the first view is served only Startup runs.
ServerInv ==
    /\ history \in Histories /\ now \in 1 .. Len(history)
    /\ job = [j \in Job |-> job[j]]
    /\ \A j \in Job : JobShape(job[j])
    /\ \A j \in Job : job[j].pc \in Reading \cup {"swap"} => job[j].began \in 1 .. now
    /\ \A j \in Request : job[j].pc \in Reading \cup {"swap"} => job[j].began = job[j].due
    /\ served = None \/ served.began \in 1 .. now
    /\ lock \in Request \cup {None}
    /\ \A j \in Request : lock = j <=> job[j].pc \notin Over
    /\ served # None => job[Startup].pc \in Over
    /\ \A j \in Request : job[j].pc # "idle" => job[Startup].pc \in Over
    /\ \A j \in Request : job[j].pc = "metadata" => served.began >= job[j].due
    /\ job[Startup].pc \notin {"command", "metadata"}
    /\ DOMAIN walk = {"pc", "conv", "newer", "cursor", "got", "seen", "steady"}
    /\ walk.pc \in {"none", "check", "list", "oldest", "newest", "gone"}

\* The jobs are Startup and the requests.
LEMMA Jobs ==
    /\ Startup \in Job /\ Request \subseteq Job /\ Startup \notin Request /\ None \notin Job
    /\ \A k \in Job : k \in Request \/ k = Startup
BY ServerAssumption DEF Job

\* The invariant holds when the server starts.
LEMMA ServerInvAtStart == Init => ServerInv
PROOF
<1> SUFFICES ASSUME Init PROVE ServerInv
  OBVIOUS
<1> DEFINE first == [Idle EXCEPT !.pc = "verifyRelay", !.began = 1]
<1>1. JobShape(Idle) /\ Idle.pc = "idle"
  BY DEF JobShape, Fields, Idle, Over
<1>2. JobShape(first) /\ first.pc = "verifyRelay" /\ first.began = 1
  BY <1>1 DEF JobShape, Fields, Reading
<1> HIDE DEF first
<1>3. job = [j \in Job |-> IF j = Startup THEN first ELSE Idle]
  BY DEF Init, first
<1>4. \A j \in Job : job[j] = IF j = Startup THEN first ELSE Idle
  BY <1>3
<1>5. now \in 1 .. Len(history) /\ 1 \in 1 .. now
  BY HistoriesAssumption DEF Init
<1>6. walk.pc = "none" /\ DOMAIN walk = {"pc", "conv", "newer", "cursor", "got", "seen", "steady"}
  BY DEF Init, NoWalk
<1> QED BY <1>1, <1>2, <1>3, <1>4, <1>5, <1>6, Jobs DEF Init, ServerInv, Over, Reading

\* One job becomes x, and nothing that the invariant forbids.
StepTo(j, x) ==
    /\ JobShape(x) /\ job' = [job EXCEPT ![j] = x]
    /\ UNCHANGED <<history, now, served, walk>>
    /\ x.pc # "metadata"
    /\ x.pc \in Reading \cup {"swap"} => x.began \in 1 .. now /\ (j \in Request => x.began = x.due)
    /\ j = Startup => x.pc # "command" /\ (x.pc \in Over \/ job[j].pc \notin Over)
    /\ j \in Request => job[Startup].pc \in Over
    /\ lock' \in Request \cup {None}
    /\ \A k \in Request : lock' = k <=> (IF k = j THEN x.pc ELSE job[k].pc) \notin Over

\* Such a step keeps the invariant.
LEMMA StepToKeepsServerInv == ASSUME ServerInv, NEW j \in Job, NEW x, StepTo(j, x) PROVE ServerInv'
PROOF
<1>1. job' = [job EXCEPT ![j] = x] /\ UNCHANGED <<history, now, served, walk>>
  BY DEF StepTo
<1>2. \A k \in Job : job'[k] = IF k = j THEN x ELSE job[k]
  BY <1>1 DEF ServerInv
<1>3. job' = [k \in Job |-> job'[k]]
  BY <1>1, <1>2 DEF ServerInv
<1> QED BY <1>1, <1>2, <1>3, Jobs DEF ServerInv, StepTo

\* The end of a job releases the mutex that it holds.
LEMMA FailKeepsServerInv ==
    ASSUME ServerInv, NEW j \in Job, NEW result \in {"ok", "failed"}, End(j, result),
           UNCHANGED <<history, now, served, walk>>, job[j].pc \notin Over
    PROVE  ServerInv'
PROOF
<1> DEFINE x == [Idle EXCEPT !.pc = result]
<1>1. JobShape(x) /\ x.pc = result
  BY DEF JobShape, Fields, Idle, Over
<1>2. job' = [job EXCEPT ![j] = x] /\ lock' = IF lock = j THEN None ELSE lock
  BY DEF End
<1> HIDE DEF x
<1>3. j \in Request => lock = j /\ job[Startup].pc \in Over
  BY DEF ServerInv, Over
<1>4. /\ lock' \in Request \cup {None}
      /\ \A k \in Request : lock' = k <=> (IF k = j THEN x.pc ELSE job[k].pc) \notin Over
  BY <1>1, <1>2, <1>3, Jobs DEF ServerInv, Over
<1>5. StepTo(j, x)
  BY <1>1, <1>2, <1>3, <1>4 DEF StepTo, Over, Reading
<1> QED BY <1>5, StepToKeepsServerInv

\* The next step of a job that reads.
GoesOn(j, x) ==
    /\ JobShape(x) /\ x.pc \in Reading \cup {"swap"}
    /\ x.began = job[j].began /\ x.due = job[j].due /\ x.clean = job[j].clean

\* It keeps the invariant.
LEMMA ContinueKeepsServerInv ==
    ASSUME ServerInv, NEW j \in Job, job[j].pc \in Reading, NEW x, GoesOn(j, x), Continue(j, x)
    PROVE  ServerInv'
PROOF
<1>1. job' = [job EXCEPT ![j] = x] /\ UNCHANGED <<history, now, served, lock, walk>>
  BY DEF Continue
<1>2. job[j].pc \notin Over /\ x.pc \notin Over /\ x.pc \notin {"command", "metadata"}
  BY DEF GoesOn, Over, Reading
<1>3. j \in Request => job[Startup].pc \in Over
  BY <1>2 DEF ServerInv, Over
<1>4. \A k \in Request : lock = k <=> (IF k = j THEN x.pc ELSE job[k].pc) \notin Over
  BY <1>2 DEF ServerInv
<1>5. /\ lock' \in Request \cup {None} /\ lock' = lock
      /\ x.began \in 1 .. now /\ (j \in Request => x.began = x.due)
  BY <1>1 DEF ServerInv, GoesOn
<1>6. StepTo(j, x)
  BY <1>1, <1>2, <1>3, <1>4, <1>5 DEF StepTo, GoesOn
<1> QED BY <1>6, StepToKeepsServerInv

\* A step of a job that reads: it fails or goes on.
LEMMA Proceeding ==
    ASSUME NEW j \in Job, NEW dirs, NEW again \in Reading, NEW next \in Reading \cup {"swap"},
           NEW y, GoesOn(j, y), Proceed(j, dirs, again, next, y)
    PROVE  \E x : GoesOn(j, x) /\ Continue(j, x)
PROOF
<1> DEFINE more == [y EXCEPT !.pc = again, !.at = @ + 1]
           done == [y EXCEPT !.pc = next, !.at = 1]
<1>1. GoesOn(j, more) /\ GoesOn(j, done)
  BY DEF GoesOn, JobShape, Fields
<1> HIDE DEF more, done
<1>2. Continue(j, IF job[j].at < Len(dirs) THEN more ELSE done)
  BY DEF Proceed, more, done
<1> QED BY <1>1, <1>2

\* A step of a refresh before its merge.
Read(j) ==
    \/ VerifyRelay(j) \/ LoadConversations(j) \/ LoadRelayMessages(j)
    \/ VerifyTelephony(j) \/ LoadTelephonyMessages(j) \/ LoadFails(j)

\* It fails, or goes on to another.
LEMMA ReadingGoesOn ==
    ASSUME ServerInv, NEW j \in Job, Read(j)
    PROVE  job[j].pc \in Reading /\ (Fail(j) \/ \E x : GoesOn(j, x) /\ Continue(j, x))
PROOF
<1>1. JobShape(job[j])
  BY DEF ServerInv
<1>2. CASE VerifyRelay(j)
  <2> DEFINE x == [job[j] EXCEPT !.pc = "conversations"]
  <2>1. job[j].pc \in Reading /\ (Fail(j) \/ Continue(j, x))
    BY <1>2 DEF VerifyRelay, Reading
  <2>2. GoesOn(j, x)
    BY <1>1 DEF GoesOn, JobShape, Fields, Reading
  <2> HIDE DEF x
  <2> QED BY <2>1, <2>2
<1>3. CASE LoadConversations(j)
  <2> DEFINE a == Disk.relay[RelayDir(j)]
             y == [job[j] EXCEPT !.self   = CHOOSE n \in a.me \cap Number : TRUE,
                                 !.people = Append(@, a.people)]
  <2>1. job[j].pc \in Reading /\ (Fail(j) \/ Proceed(j, RelayDirs, "verifyRelay", "relayMessages", y))
    BY <1>3 DEF LoadConversations, Reading
  <2>2. GoesOn(j, y)
    <3> HIDE DEF a
    <3> QED BY <1>1, <2>1 DEF GoesOn, JobShape, Fields, Reading
  <2> HIDE DEF y
  <2> QED BY <2>1, <2>2, Proceeding DEF Reading
<1>4. CASE LoadRelayMessages(j)
  <2> DEFINE more == RelayRecords(RelayDir(j), Disk.relay[RelayDir(j)], job[j].people[job[j].at], job[j].self)
             y == [job[j] EXCEPT !.loaded = @ \cup more]
  <2>1. job[j].pc \in Reading /\ (Fail(j) \/ Proceed(j, RelayDirs, "relayMessages", "verifyTelephony", y))
    BY <1>4 DEF LoadRelayMessages, Reading
  <2>2. GoesOn(j, y)
    <3> HIDE DEF more
    <3> QED BY <1>1, <2>1 DEF GoesOn, JobShape, Fields, Reading
  <2> HIDE DEF y
  <2> QED BY <2>1, <2>2, Proceeding DEF Reading
<1>5. CASE VerifyTelephony(j)
  <2> DEFINE x == [job[j] EXCEPT !.pc = "rows"]
  <2>1. job[j].pc \in Reading /\ (Fail(j) \/ Continue(j, x))
    BY <1>5 DEF VerifyTelephony, Reading
  <2>2. GoesOn(j, x)
    BY <1>1 DEF GoesOn, JobShape, Fields, Reading
  <2> HIDE DEF x
  <2> QED BY <2>1, <2>2
<1>6. CASE LoadTelephonyMessages(j)
  <2> DEFINE more == TelephonyRecords(TelephonyDir(j), Disk.telephony[TelephonyDir(j)], job[j].self)
             y == [job[j] EXCEPT !.loaded = @ \cup more]
  <2>1. job[j].pc \in Reading /\ Proceed(j, TelephonyDirs, "verifyTelephony", "swap", y)
    BY <1>6 DEF LoadTelephonyMessages, Reading
  <2>2. GoesOn(j, y)
    <3> HIDE DEF more
    <3> QED BY <1>1, <2>1 DEF GoesOn, JobShape, Fields, Reading
  <2> HIDE DEF y
  <2> QED BY <2>1, <2>2, Proceeding DEF Reading
<1>7. CASE LoadFails(j)
  BY <1>7 DEF LoadFails, Reading
<1> QED BY <1>2, <1>3, <1>4, <1>5, <1>6, <1>7 DEF Read

\* The merge serves what a job has read.
LEMMA SwapKeepsServerInv == ASSUME ServerInv, NEW j \in Job, Swap(j) PROVE ServerInv'
PROOF
<1> DEFINE dataset == Dataset(RelayConversations(job[j].people, job[j].self), job[j].loaded)
<1>1. /\ job[j].pc = "swap" /\ UNCHANGED <<history, now>>
      /\ served' = [dataset |-> dataset, began |-> job[j].began, clean |-> job[j].clean]
      /\ walk' = [walk EXCEPT !.steady = @ \cap KeyedIn(dataset, walk.conv)]
      /\ IF j = Startup THEN End(j, "ok")
         ELSE job' = [job EXCEPT ![j].pc = "metadata"] /\ UNCHANGED lock
  BY DEF Swap
<1> HIDE DEF dataset
<1>2. JobShape(job[j]) /\ job[j].began \in 1 .. now /\ job[j].pc \notin Over
  BY <1>1 DEF ServerInv, Over
<1>3. served'.began = job[j].began /\ served'.began \in 1 .. now'
  BY <1>1, <1>2
<1>4. walk'.pc = walk.pc /\ DOMAIN walk' = DOMAIN walk
  BY <1>1 DEF ServerInv
<1>6. CASE j = Startup
  <2> DEFINE x == [Idle EXCEPT !.pc = "ok"]
  <2>1. JobShape(x) /\ x.pc = "ok"
    BY DEF JobShape, Fields, Idle, Over
  <2>2. job' = [job EXCEPT ![j] = x] /\ lock' = lock
    BY <1>1, <1>6, Jobs DEF End, ServerInv
  <2> HIDE DEF x
  <2>3. \A k \in Job : job'[k] = IF k = j THEN x ELSE job[k]
    BY <2>2 DEF ServerInv
  <2>4. job' = [k \in Job |-> job'[k]]
    BY <2>2, <2>3 DEF ServerInv
  <2>5. \A k \in Request : job[k].pc = "idle"
    BY <1>2, <1>6 DEF ServerInv
  <2>6. \A k \in Request : job'[k] = job[k] /\ job'[k].pc = "idle"
    BY <2>3, <2>5, <1>6, Jobs
  <2> QED BY <1>1, <1>3, <1>4, <1>6, <2>1, <2>2, <2>3, <2>4, <2>6, Jobs DEF ServerInv, Over, Reading
<1>7. CASE j # Startup
  <2> DEFINE x == [job[j] EXCEPT !.pc = "metadata"]
  <2>1. JobShape(x) /\ x.pc = "metadata" /\ x.due = job[j].due
    BY <1>2 DEF JobShape, Fields
  <2>2. job' = [job EXCEPT ![j] = x] /\ lock' = lock
    BY <1>1, <1>7
  <2> HIDE DEF x
  <2>3. \A k \in Job : job'[k] = IF k = j THEN x ELSE job[k]
    BY <2>2 DEF ServerInv
  <2>4. job' = [k \in Job |-> job'[k]]
    BY <2>2, <2>3 DEF ServerInv
  <2>5. j \in Request /\ job[j].began = job[j].due /\ lock = j
    BY <1>1, <1>2, <1>7, Jobs DEF ServerInv
  <2>6. \A k \in Request : k # j => job[k].pc \in Over
    BY <2>5 DEF ServerInv
  <2>7. served'.began >= x.due
    BY <1>2, <1>3, <2>1, <2>5
  <2>8. \A k \in Request : job'[k].pc = "metadata" => served'.began >= job'[k].due
    BY <2>3, <2>6, <2>7, Jobs DEF Over
  <2> QED BY <1>1, <1>3, <1>4, <1>7, <2>1, <2>2, <2>3, <2>4, <2>5, <2>6, <2>8, Jobs DEF ServerInv, Over, Reading
<1> QED BY <1>6, <1>7

\* What an export leaves of a refresh: it may have to give up its claim that
\* nothing was replaced.
Kept(x, y) ==
    /\ JobShape(y) /\ y.pc = x.pc /\ y.at = x.at /\ y.self = x.self /\ y.people = x.people
    /\ y.loaded = x.loaded /\ y.began = x.began /\ y.due = x.due
    /\ y.clean => x.clean /\ x.pc \notin Reading

\* This is what Torn does.  (A job that is over has nothing to give up.)
LEMMA TornKeeps ==
    ASSUME ServerInv
    PROVE  /\ Torn(job) = [k \in Job |-> Torn(job)[k]]
           /\ \A k \in Job : /\ Kept(job[k], Torn(job)[k])
                             /\ job[k].pc = "swap" => Torn(job)[k].clean = job[k].clean
PROOF
<1>1. Torn(job) = [k \in Job |-> Torn(job)[k]]
  BY DEF Torn
<1>2. ASSUME NEW k \in Job
      PROVE  /\ Kept(job[k], Torn(job)[k])
             /\ job[k].pc = "swap" => Torn(job)[k].clean = job[k].clean
  <2>1. JobShape(job[k])
    BY DEF ServerInv
  <2>2. CASE job[k].pc \in {"idle", "command", "swap", "metadata"}
    <3>1. Torn(job)[k] = job[k]
      BY <2>2 DEF Torn
    <3> QED BY <2>1, <2>2, <3>1 DEF Kept, Reading
  <2>3. CASE job[k].pc \notin {"idle", "command", "swap", "metadata"}
    <3> DEFINE y == [job[k] EXCEPT !.clean = FALSE]
    <3>1. Torn(job)[k] = y
      BY <2>3 DEF Torn
    <3>2. Kept(job[k], y)
      BY <2>1 DEF Kept, JobShape, Fields
    <3> HIDE DEF y
    <3> QED BY <2>3, <3>1, <3>2
  <2> QED BY <2>2, <2>3
<1> QED BY <1>1, <1>2

\* An export keeps the invariant.
LEMMA ExportKeepsServerInv == ASSUME ServerInv, Export PROVE ServerInv'
PROOF
<1>1. job' = Torn(job) /\ UNCHANGED <<history, served, lock, walk>> /\ now < Len(history) /\ now' = now + 1
  BY DEF Export, Exported
<1>2. /\ job' = [k \in Job |-> job'[k]]
      /\ \A k \in Job : JobShape(job'[k]) /\ job'[k].pc = job[k].pc /\ job'[k].began = job[k].began /\ job'[k].due = job[k].due
  BY <1>1, TornKeeps DEF Kept
<1>3. now' \in 1 .. Len(history') /\ \A b \in 1 .. now : b \in 1 .. now'
  BY <1>1, HistoriesAssumption DEF ServerInv
<1> QED BY <1>1, <1>2, <1>3, Jobs DEF ServerInv

\* So do the steps of a sync.
LEMMA CommandKeepsServerInv == ASSUME ServerInv, NEW j \in Request, Command(j) PROVE ServerInv'
PROOF
<1> DEFINE jobs == IF now' = now THEN job ELSE Torn(job)
           x == [jobs[j] EXCEPT !.pc = "verifyRelay", !.began = now', !.due = now']
<1>1. /\ job[j].pc = "command" /\ UNCHANGED <<history, served, lock, walk>>
      /\ now' = (IF now < Len(history) THEN now + 1 ELSE now)
  BY DEF Command, Exported
<1>2. job' = [jobs EXCEPT ![j] = x]
  BY DEF Command
<1>3. /\ jobs = [k \in Job |-> jobs[k]]
      /\ \A k \in Job : JobShape(jobs[k]) /\ jobs[k].pc = job[k].pc /\ jobs[k].began = job[k].began /\ jobs[k].due = job[k].due
  <2>1. CASE now' = now
    BY <2>1 DEF ServerInv
  <2>2. CASE now' # now
    BY <2>2, TornKeeps DEF Kept
  <2> QED BY <2>1, <2>2
<1>4. JobShape(x) /\ x.pc = "verifyRelay" /\ x.began = now' /\ x.due = now'
  BY <1>3, Jobs DEF JobShape, Fields, Reading
<1> HIDE DEF x, jobs
<1>5. \A k \in Job : job'[k] = IF k = j THEN x ELSE jobs[k]
  BY <1>2, <1>3
<1>6. job' = [k \in Job |-> job'[k]]
  BY <1>2, <1>3, <1>5
<1>7. now' \in 1 .. Len(history') /\ now' \in 1 .. now' /\ \A b \in 1 .. now : b \in 1 .. now'
  BY <1>1, HistoriesAssumption DEF ServerInv
<1>8. job[Startup].pc \in Over /\ lock = j
  BY <1>1 DEF ServerInv, Over
<1>9. /\ \A k \in Job : JobShape(job'[k])
      /\ \A k \in Job : k # j => job'[k].pc = job[k].pc /\ job'[k].began = job[k].began /\ job'[k].due = job[k].due
      /\ job'[j].pc = "verifyRelay" /\ job'[j].began = now' /\ job'[j].due = now'
  BY <1>3, <1>4, <1>5, Jobs
<1>10. \A k \in Request : lock' = k <=> job'[k].pc \notin Over
  BY <1>1, <1>8, <1>9, Jobs DEF ServerInv, Over
<1>11. /\ \A k \in Job : job'[k].pc \in Reading \cup {"swap"} => job'[k].began \in 1 .. now'
       /\ \A k \in Request : job'[k].pc \in Reading \cup {"swap"} => job'[k].began = job'[k].due
       /\ \A k \in Request : job'[k].pc = "metadata" => served'.began >= job'[k].due
  <2>1. \A k \in Job : job[k].pc \in Reading \cup {"swap"} => job[k].began \in 1 .. now
    BY DEF ServerInv
  <2>2. \A k \in Job : job'[k].pc \in Reading \cup {"swap"} => job'[k].began \in 1 .. now'
    <3> TAKE k \in Job
    <3>1. CASE k = j
      BY <1>7, <1>9, <3>1
    <3>2. CASE k # j
      BY <1>7, <1>9, <2>1, <3>2
    <3> QED BY <3>1, <3>2
  <2>3. \A k \in Request : job[k].pc \in Reading \cup {"swap"} => job[k].began = job[k].due
    BY DEF ServerInv
  <2>4. \A k \in Request : job'[k].pc \in Reading \cup {"swap"} => job'[k].began = job'[k].due
    BY <1>9, <2>3, Jobs
  <2>5. \A k \in Request : job[k].pc = "metadata" => served.began >= job[k].due
    BY DEF ServerInv
  <2>6. \A k \in Request : job'[k].pc = "metadata" => served'.began >= job'[k].due
    BY <1>1, <1>9, <2>5, Jobs
  <2> QED BY <2>2, <2>4, <2>6
<1> QED BY <1>1, <1>6, <1>7, <1>8, <1>9, <1>10, <1>11, Jobs DEF ServerInv

\* TryLock.
LEMMA BeginKeepsServerInv == ASSUME ServerInv, NEW j \in Request, Begin(j) PROVE ServerInv'
PROOF
<1>1. served # None /\ job[j].pc = "idle" /\ UNCHANGED <<history, now, served, walk>>
  BY DEF Begin
<1>2. JobShape(job[j]) /\ job[Startup].pc \in Over
  BY <1>1, Jobs DEF ServerInv
<1>3. CASE lock = None
  <2> DEFINE x == [job[j] EXCEPT !.pc = "command"]
  <2>1. job' = [job EXCEPT ![j] = x] /\ lock' = j
    BY <1>3 DEF Begin
  <2>2. JobShape(x) /\ x.pc = "command"
    BY <1>2 DEF JobShape, Fields
  <2> HIDE DEF x
  <2>3. \A k \in Request : lock' = k <=> (IF k = j THEN x.pc ELSE job[k].pc) \notin Over
    BY <1>3, <2>1, <2>2, Jobs DEF ServerInv, Over
  <2>4. StepTo(j, x)
    BY <1>1, <1>2, <2>1, <2>2, <2>3, Jobs DEF StepTo, Reading
  <2> QED BY <2>4, StepToKeepsServerInv, Jobs
<1>4. CASE lock # None
  <2> DEFINE x == [job[j] EXCEPT !.pc = "conflict"]
  <2>1. job' = [job EXCEPT ![j] = x] /\ lock' = lock
    BY <1>4 DEF Begin
  <2>2. JobShape(x) /\ x.pc = "conflict"
    BY <1>2 DEF JobShape, Fields, Over
  <2> HIDE DEF x
  <2>3. lock' \in Request \cup {None} /\ \A k \in Request : lock' = k <=> (IF k = j THEN x.pc ELSE job[k].pc) \notin Over
    BY <1>1, <2>1, <2>2 DEF ServerInv, Over
  <2>4. StepTo(j, x)
    BY <1>1, <1>2, <2>1, <2>2, <2>3, Jobs DEF StepTo, Reading
  <2> QED BY <2>4, StepToKeepsServerInv, Jobs
<1> QED BY <1>3, <1>4

\* The client changes only its own state.
LEMMA BrowseKeepsServerInv == ASSUME ServerInv, Browse PROVE ServerInv'
PROOF
<1>1. UNCHANGED <<history, now, served, lock, job>>
  BY DEF Browse, OpenConversation, GetConversation, ListMessages, TurnBack
<1>2. /\ DOMAIN walk' = {"pc", "conv", "newer", "cursor", "got", "seen", "steady"}
      /\ walk'.pc \in {"none", "check", "list", "oldest", "newest", "gone"}
  <2>1. DOMAIN walk = {"pc", "conv", "newer", "cursor", "got", "seen", "steady"}
    BY DEF ServerInv
  <2>2. CASE GetConversation
    BY <2>1, <2>2 DEF GetConversation
  <2>3. CASE TurnBack
    BY <2>1, <2>3 DEF TurnBack
  <2>4. ASSUME NEW c, OpenConversation(c)
        PROVE  /\ DOMAIN walk' = {"pc", "conv", "newer", "cursor", "got", "seen", "steady"} /\ walk'.pc = "check"
    <3> DEFINE ks == KeyedIn(served.dataset, c)
    <3>1. walk' = [NoWalk EXCEPT !.pc = "check", !.conv = c, !.steady = ks]
      BY <2>4 DEF OpenConversation
    <3>2. DOMAIN NoWalk = {"pc", "conv", "newer", "cursor", "got", "seen", "steady"}
      BY DEF NoWalk
    <3> HIDE DEF ks
    <3> QED BY <3>1, <3>2
  <2>5. CASE ListMessages
    <3>1. \E pc \in {"gone", "check", "oldest", "newest"} : \E got, seen, cursor :
              \/ walk' = [walk EXCEPT !.pc = pc]
              \/ walk' = [walk EXCEPT !.got = got, !.seen = seen, !.cursor = cursor, !.pc = pc]
      <4> DEFINE messages == served.dataset[walk.conv]
                 ks   == [i \in DOMAIN messages |-> Key(messages[i])]
                 page == IF walk.newer THEN PageAfter(ks, walk.cursor) ELSE PageBefore(ks, walk.cursor)
                 part == SubSeq(ks, page.first, page.last)
                 more == IF walk.newer THEN page.last < Len(ks) ELSE page.first > 1
                 got  == IF walk.newer THEN walk.got \o part ELSE part \o walk.got
                 seen == walk.seen \cup Keyed(ToSet(SubSeq(messages, page.first, page.last)))
                 next == IF part = <<>> THEN walk.cursor ELSE IF walk.newer THEN Last(part) ELSE Head(part)
                 pc   == IF more /\ part # <<>> THEN "check" ELSE IF walk.newer THEN "newest" ELSE "oldest"
      <4>1. \/ walk' = [walk EXCEPT !.pc = "gone"]
            \/ walk' = [walk EXCEPT !.got = got, !.seen = seen, !.cursor = next, !.pc = pc]
        BY <2>5 DEF ListMessages
      <4>2. pc \in {"gone", "check", "oldest", "newest"}
        OBVIOUS
      <4> HIDE DEF got, seen, next, pc
      <4> QED BY <4>1, <4>2
    <3> QED BY <2>1, <3>1
  <2> QED BY <2>2, <2>3, <2>4, <2>5 DEF Browse
<1> QED BY <1>1, <1>2 DEF ServerInv

\* The invariant of the state and the mutex.
THEOREM ServerInvariant == Spec => []ServerInv
PROOF
<1>1. ASSUME ServerInv, [Next]_vars PROVE ServerInv'
  <2>1. ASSUME NEW j \in Job, Read(j) PROVE ServerInv'
    <3>1. CASE Fail(j)
      <4>1. End(j, "failed") /\ UNCHANGED <<history, now, served, walk>>
        BY <3>1 DEF Fail
      <4>2. job[j].pc \notin Over
        BY <1>1, <2>1, ReadingGoesOn DEF Over, Reading
      <4> QED BY <1>1, <4>1, <4>2, FailKeepsServerInv
    <3>2. CASE \E x : GoesOn(j, x) /\ Continue(j, x)
      BY <1>1, <2>1, <3>2, ReadingGoesOn, ContinueKeepsServerInv
    <3> QED BY <1>1, <2>1, <3>1, <3>2, ReadingGoesOn
  <2>2. ASSUME NEW j \in Request, CommandFails(j) \/ Metadata(j) PROVE ServerInv'
    <3>1. /\ End(j, "failed") \/ End(j, "ok")
          /\ UNCHANGED <<history, now, served, walk>> /\ job[j].pc \notin Over
      BY <2>2 DEF CommandFails, Metadata, Fail, Over
    <3> QED BY <1>1, <3>1, FailKeepsServerInv, Jobs
  <2>3. CASE UNCHANGED vars
    BY <1>1, <2>3 DEF vars, ServerInv
  <2>4. ASSUME NEW j \in Job, ExportedAtFails(j) PROVE ServerInv'
    <3>1. End(j, "failed") /\ UNCHANGED <<history, now, served, walk>> /\ job[j].pc \notin Over
      BY <2>4 DEF ExportedAtFails, Fail, Over
    <3> QED BY <1>1, <3>1, FailKeepsServerInv
  <2> QED BY <1>1, <2>1, <2>2, <2>3, <2>4, SwapKeepsServerInv, BeginKeepsServerInv, CommandKeepsServerInv,
             ExportKeepsServerInv, BrowseKeepsServerInv, Jobs
          DEF Next, Refresh, Read, Sync
<1> QED BY <1>1, ServerInvAtStart, PTL DEF Spec

\* The state has its type, and the mutex of archiveSyncer is held by the sync
\* that runs and by no other.
THEOREM TypeCorrect == Spec => []TypeOK
PROOF
<1>1. ServerInv => TypeOK
  BY DEF ServerInv, TypeOK, Over
<1> QED BY <1>1, ServerInvariant, PTL

\* A sync that succeeds leaves behind a view no older than the export it made.
THEOREM SyncIsAlwaysServed == Spec => []SyncIsServed
PROOF
<1>1. ServerInv => SyncIsServed
  BY DEF ServerInv, SyncIsServed
<1> QED BY <1>1, ServerInvariant, PTL

-----------------------------------------------------------------------------
(* What a refresh has read.                                                *)

\* The least of some numbers.
LEMMA LeastOf ==
    ASSUME NEW S \in SUBSET Nat, S # {}
    PROVE  \E n \in S : \A m \in S : n <= m
PROOF
<1> DEFINE Below == {ss \in Nat \X Nat : ss[1] < ss[2]}
<1>1. IsWellFoundedOn(Below, Nat)
  <2>1. OpToRel(<, Nat) = Below
    BY DEF OpToRel
  <2> QED BY <2>1, NatLessThanWellFounded
<1>2. PICK n \in S : \A m \in S : <<m, n>> \notin Below
  <2> HIDE DEF Below
  <2> QED BY <1>1, WFMin
<1>3. ASSUME NEW m \in S PROVE n <= m
  <2>1. ~ (m < n)
    BY <1>2
  <2> QED BY <2>1
<1> QED BY <1>3

\* Each directory given is taken once.
LEMMA DirectoriesOnce ==
    ASSUME NEW dirs \in Seq(Int) \ {<<>>}
    PROVE  LET s == WithoutRepeats(dirs) IN
           /\ s \in Seq(Int) /\ Len(s) \in Nat \ {0}
           /\ \A i \in 1 .. Len(s) : s[i] \in ToSet(dirs)
           /\ \A d \in ToSet(dirs) : \E i \in 1 .. Len(s) : s[i] = d
           /\ \A i, k \in 1 .. Len(s) : s[i] = s[k] => i = k
PROOF
<1> DEFINE first == {i \in DOMAIN dirs : \A k \in DOMAIN dirs : dirs[k] = dirs[i] => i <= k}
           before == {ik \in first \X first : ik[1] < ik[2]}
           order == InOrder(first, before)
           s == [i \in DOMAIN order |-> dirs[order[i]]]
<1>1. DOMAIN dirs = 1 .. Len(dirs) /\ Len(dirs) \in Nat /\ first \subseteq 1 .. Len(dirs)
  OBVIOUS
<1>2. IsFiniteSet(first)
  <2>1. IsFiniteSet(1 .. Len(dirs))
    BY <1>1, FS_Interval
  <2> HIDE DEF first
  <2> QED BY <1>1, <2>1, FS_Subset
<1>3. Orders(before, first)
  <2> HIDE DEF first
  <2> QED BY <1>1 DEF Orders
<1>4. Enumerates(order, first)
  <2> HIDE DEF first, before, order
  <2>1. \A S, b : IsFiniteSet(S) /\ Orders(b, S) => Enumerates(InOrder(S, b), S)
    BY InOrderIsSorted
  <2> QED BY <1>2, <1>3, <2>1 DEF order
<1>5. \A i \in DOMAIN dirs : \E k \in first : dirs[k] = dirs[i]
  <2> TAKE i \in DOMAIN dirs
  <2> DEFINE same == {k \in DOMAIN dirs : dirs[k] = dirs[i]}
  <2>1. same \in SUBSET Nat /\ same # {}
    BY <1>1
  <2>2. PICK k \in same : \A m \in same : k <= m
    <3> HIDE DEF same
    <3> QED BY <2>1, LeastOf
  <2>3. k \in first /\ dirs[k] = dirs[i]
    BY <2>2
  <2> QED BY <2>3
<1>6. \A i, k \in first : dirs[i] = dirs[k] => i = k
  BY <1>1
<1>7. WithoutRepeats(dirs) = s
  BY DEF WithoutRepeats
<1> HIDE DEF first, order
<1>8. order \in Seq(first) /\ DOMAIN order = 1 .. Len(order) /\ Len(order) \in Nat
  BY <1>4 DEF Enumerates
<1>9. s \in Seq(Int) /\ Len(s) = Len(order) /\ \A i \in 1 .. Len(order) : order[i] \in first /\ s[i] = dirs[order[i]]
  <2>1. \A i \in 1 .. Len(order) : order[i] \in first /\ s[i] = dirs[order[i]]
    BY <1>8
  <2>2. \A k \in first : dirs[k] \in Int
    BY <1>1
  <2>3. s = [i \in 1 .. Len(order) |-> s[i]]
    BY <1>8
  <2> HIDE DEF s
  <2>4. s \in [1 .. Len(order) -> Int]
    BY <2>1, <2>2, <2>3
  <2> QED BY <1>8, <2>1, <2>4
<1>10. \A i \in 1 .. Len(s) : s[i] \in ToSet(dirs)
  BY <1>1, <1>9 DEF ToSet
<1>11. \A d \in ToSet(dirs) : \E i \in 1 .. Len(s) : s[i] = d
  <2> TAKE d \in ToSet(dirs)
  <2>1. PICK k \in DOMAIN dirs : dirs[k] = d
    BY DEF ToSet
  <2>2. PICK l \in first : dirs[l] = d
    BY <1>5, <2>1
  <2>3. PICK i \in 1 .. Len(order) : order[i] = l
    BY <1>4 DEF Enumerates
  <2> HIDE DEF s
  <2> QED BY <1>9, <2>2, <2>3
<1>12. \A i, k \in 1 .. Len(s) : s[i] = s[k] => i = k
  BY <1>4, <1>6, <1>9 DEF Enumerates
<1>13. ToSet(dirs) # {} /\ Len(s) \in Nat
  BY <1>1, <1>8, <1>9 DEF ToSet
<1>14. Len(s) # 0
  BY <1>11, <1>13
<1> HIDE DEF s
<1> QED BY <1>7, <1>9, <1>10, <1>11, <1>12, <1>13, <1>14

\* What a directory has, with the records of one archive.
Batch(R, platform, dir) ==
    /\ FromArchives(R)
    /\ \A r \in R : /\ r.sources[1] \in AllSources
                    /\ r.sources[1].platform = platform /\ r.sources[1].dir = dir

\* The archive of a directory in some state of the disk.
LEMMA RelayBatch ==
    ASSUME NEW h \in Histories, NEW i \in 1 .. Len(h), NEW d \in ToSet(Relays), NEW people, NEW self
    PROVE  Batch(RelayRecords(d, h[i].relay[d], people, self), Relay, d)
PROOF
<1> DEFINE M == {r \in h[i].relay[d].messages : r.conv \in DOMAIN people}
           R == RelayRecords(d, h[i].relay[d], people, self)
<1>1. R = {RelayMessage(d, people, m, self) : m \in M}
  BY DEF RelayRecords
<1>2. /\ IsFiniteSet(h[i].relay[d].messages)
      /\ \A m \in h[i].relay[d].messages : m.ts \in Int
      /\ \A m, n \in h[i].relay[d].messages : m.id = n.id => m = n
  BY HistoriesAssumption
<1>3. IsFiniteSet(M) /\ M \subseteq h[i].relay[d].messages
  <2>1. M \subseteq h[i].relay[d].messages
    OBVIOUS
  <2> HIDE DEF M
  <2> QED BY <1>2, <2>1, FS_Subset
<1> HIDE DEF M
<1>4. IsFiniteSet(R)
  <2> DEFINE f == [m \in M |-> RelayMessage(d, people, m, self)]
  <2>1. f \in Surjection(M, R)
    BY <1>1 DEF Surjection
  <2> HIDE DEF f, R
  <2> QED BY <1>3, <2>1, FS_Surjection
<1>5. d \in Int
  BY ServerAssumption DEF ToSet
<1>6. ASSUME NEW m \in M
      PROVE  LET r == RelayMessage(d, people, m, self) IN
             /\ r = [conv |-> r.conv, ts |-> r.ts, mine |-> r.mine, body |-> r.body,
                     attachments |-> r.attachments, sources |-> <<r.sources[1]>>]
             /\ r.ts = m.ts
             /\ r.sources[1] = Source(Relay, d, "message", m.id)
  BY DEF RelayMessage
<1>7. ASSUME NEW m \in M PROVE Source(Relay, d, "message", m.id) \in AllSources
  <2>1. Source(Relay, d, "message", m.id) \in SourcesOf(h[i])
    BY <1>3 DEF SourcesOf
  <2> QED BY <2>1 DEF AllSources
<1>8. ASSUME NEW m
      PROVE  /\ Source(Relay, d, "message", m.id).platform = Relay
             /\ Source(Relay, d, "message", m.id).dir = d
             /\ Source(Relay, d, "message", m.id).id = m.id
  BY DEF Source
<1>9. ASSUME NEW r \in R
      PROVE  /\ r = [conv |-> r.conv, ts |-> r.ts, mine |-> r.mine, body |-> r.body,
                     attachments |-> r.attachments, sources |-> <<r.sources[1]>>]
             /\ r.ts \in Int /\ r.sources[1] \in AllSources
             /\ r.sources[1].platform = Relay /\ r.sources[1].dir = d
  <2>1. PICK m \in M : r = RelayMessage(d, people, m, self)
    BY <1>1
  <2> HIDE DEF R
  <2> QED BY <1>2, <1>3, <1>6, <1>7, <1>8, <2>1
<1>10. ASSUME NEW r \in R, NEW s \in R, r.sources[1] = s.sources[1] PROVE r = s
  <2>1. PICK m \in M : r = RelayMessage(d, people, m, self)
    BY <1>1
  <2>2. PICK n \in M : s = RelayMessage(d, people, n, self)
    BY <1>1
  <2>3. r.sources[1] = Source(Relay, d, "message", m.id) /\ s.sources[1] = Source(Relay, d, "message", n.id)
    BY <1>6, <2>1, <2>2
  <2>4. m.id = n.id
    BY <1>8, <1>10, <2>3
  <2>5. m = n
    BY <1>2, <1>3, <2>4
  <2> QED BY <2>1, <2>2, <2>5
<1> HIDE DEF R
<1>11. Relay \in Int
  BY DEF Relay
<1> QED BY <1>4, <1>5, <1>9, <1>10, <1>11, HashAssumption DEF Batch, FromArchives, R

\* The records of a Telephony archive are of that archive, each with a source
\* of its own.
LEMMA TelephonyBatch ==
    ASSUME NEW h \in Histories, NEW i \in 1 .. Len(h), NEW d \in ToSet(Telephonies), NEW self
    PROVE  Batch(TelephonyRecords(d, h[i].telephony[d], self), Telephony, d)
PROOF
<1> DEFINE M == {r \in h[i].telephony[d].rows : HasMessage(r)}
           R == TelephonyRecords(d, h[i].telephony[d], self)
<1>1. R = {TelephonyMessage(d, row, self) : row \in M}
  BY DEF TelephonyRecords
<1>2. /\ IsFiniteSet(h[i].telephony[d].rows)
      /\ \A r \in h[i].telephony[d].rows : r.date \in Int
      /\ \A r, s \in h[i].telephony[d].rows : r.type = s.type /\ r.id = s.id => r = s
  BY HistoriesAssumption
<1>3. IsFiniteSet(M) /\ M \subseteq h[i].telephony[d].rows
  <2>1. M \subseteq h[i].telephony[d].rows
    OBVIOUS
  <2> HIDE DEF M
  <2> QED BY <1>2, <2>1, FS_Subset
<1> HIDE DEF M
<1>4. IsFiniteSet(R)
  <2> DEFINE f == [m \in M |-> TelephonyMessage(d, m, self)]
  <2>1. f \in Surjection(M, R)
    BY <1>1 DEF Surjection
  <2> HIDE DEF f, R
  <2> QED BY <1>3, <2>1, FS_Surjection
<1>5. d \in Int
  BY ServerAssumption DEF ToSet
<1>6. ASSUME NEW m \in M
      PROVE  LET r == TelephonyMessage(d, m, self) IN
             /\ r = [conv |-> r.conv, ts |-> r.ts, mine |-> r.mine, body |-> r.body,
                     attachments |-> r.attachments, sources |-> <<r.sources[1]>>]
             /\ r.ts = Date(m)
             /\ r.sources[1] = Source(Telephony, d, m.type, m.id)
  BY DEF TelephonyMessage
<1>7. ASSUME NEW m \in M PROVE Source(Telephony, d, m.type, m.id) \in AllSources /\ Date(m) \in Int
  <2>1. Source(Telephony, d, m.type, m.id) \in SourcesOf(h[i])
    BY <1>3 DEF SourcesOf
  <2>2. m.date \in Int
    BY <1>2, <1>3
  <2>3. Date(m) \in Int
    BY <2>2, WindowAssumption DEF Date
  <2> QED BY <2>1, <2>3 DEF AllSources
<1>8. ASSUME NEW m
      PROVE  LET s == Source(Telephony, d, m.type, m.id) IN
             s.platform = Telephony /\ s.dir = d /\ s.type = m.type /\ s.id = m.id
  BY DEF Source
<1>9. ASSUME NEW r \in R
      PROVE  /\ r = [conv |-> r.conv, ts |-> r.ts, mine |-> r.mine, body |-> r.body,
                     attachments |-> r.attachments, sources |-> <<r.sources[1]>>]
             /\ r.ts \in Int /\ r.sources[1] \in AllSources
             /\ r.sources[1].platform = Telephony /\ r.sources[1].dir = d
  <2>1. PICK m \in M : r = TelephonyMessage(d, m, self)
    BY <1>1
  <2> HIDE DEF R
  <2> QED BY <1>6, <1>7, <1>8, <2>1
<1>10. ASSUME NEW r \in R, NEW s \in R, r.sources[1] = s.sources[1] PROVE r = s
  <2>1. PICK m \in M : r = TelephonyMessage(d, m, self)
    BY <1>1
  <2>2. PICK n \in M : s = TelephonyMessage(d, n, self)
    BY <1>1
  <2>3. r.sources[1] = Source(Telephony, d, m.type, m.id) /\ s.sources[1] = Source(Telephony, d, n.type, n.id)
    BY <1>6, <2>1, <2>2
  <2>4. Source(Telephony, d, m.type, m.id) = Source(Telephony, d, n.type, n.id)
    BY <1>10, <2>3
  <2>5. m.type = n.type /\ m.id = n.id
    <3> HIDE DEF M
    <3> QED BY <2>4 DEF Source
  <2>6. m = n
    BY <1>2, <1>3, <2>5
  <2> QED BY <2>1, <2>2, <2>6
<1> HIDE DEF R
<1>11. Telephony \in Int
  BY DEF Telephony
<1> QED BY <1>4, <1>5, <1>9, <1>10, <1>11, HashAssumption DEF Batch, FromArchives, R

\* What a refresh has loaded when it has read this many directories of each kind.
LoadedFrom(R, heard, filed) ==
    /\ FromArchives(R)
    /\ \A r \in R :
          /\ r.sources[1] \in AllSources
          /\ \/ /\ r.sources[1].platform = Relay
                /\ \E i \in 1 .. heard : r.sources[1].dir = RelayDirs[i]
             \/ /\ r.sources[1].platform = Telephony
                /\ \E i \in 1 .. filed : r.sources[1].dir = TelephonyDirs[i]

\* Records of different archives are different records.
LEMMA UnionOfArchives ==
    ASSUME NEW R, NEW S, FromArchives(R), FromArchives(S),
           \A r \in R, s \in S : r.sources[1] # s.sources[1],
           \A r \in R \cup S : r.sources[1] \in AllSources
    PROVE  FromArchives(R \cup S)
PROOF
<1> DEFINE T == R \cup S
<1>1. IsFiniteSet(T)
  BY FS_Union DEF FromArchives
<1>2. \A r \in T : r \in R \/ r \in S
  OBVIOUS
<1>3. \A r \in T : r.sources[1] \in AllSources
  OBVIOUS
<1> HIDE DEF T
<1>4. \A r \in T :
          /\ r = [conv |-> r.conv, ts |-> r.ts, mine |-> r.mine, body |-> r.body,
                  attachments |-> r.attachments, sources |-> <<r.sources[1]>>]
          /\ r.ts \in Int
          /\ r.sources[1].platform \in Int /\ r.sources[1].dir \in Int
  BY <1>2 DEF FromArchives
<1>5. \A r, s \in T : r.sources[1] = s.sources[1] => r = s
  BY <1>2 DEF FromArchives
<1>6. \A r, s \in T :
          /\ HashOrder(r.sources[1]) \in Int
          /\ HashOrder(r.sources[1]) = HashOrder(s.sources[1]) => r.sources[1] = s.sources[1]
  BY <1>3, HashAssumption
<1>7. FromArchives(T)
  BY <1>1, <1>4, <1>5, <1>6 DEF FromArchives
<1> QED BY <1>7 DEF T

\* The directories of a kind.
LEMMA Directories ==
    /\ Len(RelayDirs) \in Nat \ {0} /\ Len(TelephonyDirs) \in Nat \ {0}
    /\ \A i \in 1 .. Len(RelayDirs) : RelayDirs[i] \in ToSet(Relays)
    /\ \A i \in 1 .. Len(TelephonyDirs) : TelephonyDirs[i] \in ToSet(Telephonies)
    /\ \A d \in ToSet(Relays) : \E i \in 1 .. Len(RelayDirs) : RelayDirs[i] = d
    /\ \A d \in ToSet(Telephonies) : \E i \in 1 .. Len(TelephonyDirs) : TelephonyDirs[i] = d
    /\ \A i, k \in 1 .. Len(RelayDirs) : RelayDirs[i] = RelayDirs[k] => i = k
    /\ \A i, k \in 1 .. Len(TelephonyDirs) : TelephonyDirs[i] = TelephonyDirs[k] => i = k
PROOF
<1>1. Relays \in Seq(Int) \ {<<>>} /\ Telephonies \in Seq(Int) \ {<<>>}
  BY ServerAssumption
<1> QED BY <1>1, DirectoriesOnce DEF RelayDirs, TelephonyDirs

\* The next relay archive.
LEMMA OneMoreRelay ==
    ASSUME NEW R, NEW n \in 1 .. Len(RelayDirs), LoadedFrom(R, n - 1, 0),
           NEW B, Batch(B, Relay, RelayDirs[n])
    PROVE  LoadedFrom(R \cup B, n, 0)
PROOF
<1>1. n \in Nat /\ \A i \in 1 .. n - 1 : i \in 1 .. n /\ i \in 1 .. Len(RelayDirs) /\ i # n
  BY Directories
<1>2. n \in 1 .. n
  BY <1>1
<1>3. \A r \in R : r.sources[1].platform = Relay /\ \E i \in 1 .. n - 1 : r.sources[1].dir = RelayDirs[i]
  BY DEF LoadedFrom
<1>4. \A r \in R, s \in B : r.sources[1] # s.sources[1]
  BY <1>1, <1>3, Directories DEF Batch
<1>5. \A r \in R \cup B : r.sources[1] \in AllSources
  BY DEF LoadedFrom, Batch
<1>6. FromArchives(R \cup B)
  BY <1>4, <1>5, UnionOfArchives DEF LoadedFrom, Batch
<1>7. \A r \in R \cup B : r.sources[1].platform = Relay /\ \E i \in 1 .. n : r.sources[1].dir = RelayDirs[i]
  BY <1>1, <1>2, <1>3 DEF Batch
<1> QED BY <1>5, <1>6, <1>7 DEF LoadedFrom

\* The next Telephony archive.
LEMMA OneMoreTelephony ==
    ASSUME NEW R, NEW n \in 1 .. Len(TelephonyDirs), LoadedFrom(R, Len(RelayDirs), n - 1),
           NEW B, Batch(B, Telephony, TelephonyDirs[n])
    PROVE  LoadedFrom(R \cup B, Len(RelayDirs), n)
PROOF
<1>1. n \in Nat /\ \A i \in 1 .. n - 1 : i \in 1 .. n /\ i \in 1 .. Len(TelephonyDirs) /\ i # n
  BY Directories
<1>2. n \in 1 .. n
  BY <1>1
<1> DEFINE FromRelay(r) == r.sources[1].platform = Relay /\ \E i \in 1 .. Len(RelayDirs) : r.sources[1].dir = RelayDirs[i]
           FromPhone(r, k) == r.sources[1].platform = Telephony /\ \E i \in 1 .. k : r.sources[1].dir = TelephonyDirs[i]
<1>3. \A r \in R : FromRelay(r) \/ FromPhone(r, n - 1)
  BY DEF LoadedFrom
<1>4. \A r \in R, s \in B : r.sources[1] # s.sources[1]
  BY <1>1, <1>3, Directories DEF Batch, Relay, Telephony
<1>5. \A r \in R \cup B : r.sources[1] \in AllSources
  BY DEF LoadedFrom, Batch
<1>6. FromArchives(R \cup B)
  BY <1>4, <1>5, UnionOfArchives DEF LoadedFrom, Batch
<1>7. \A r \in R \cup B : FromRelay(r) \/ FromPhone(r, n)
  BY <1>1, <1>2, <1>3 DEF Batch
<1> QED BY <1>5, <1>6, <1>7 DEF LoadedFrom

\* How many relay archives a refresh knows the conversations of, how many it
\* has the messages of, and how many Telephony archives.
Told(x)  == IF x.pc \in {"verifyRelay", "conversations"} THEN x.at - 1 ELSE Len(RelayDirs)
Heard(x) == IF x.pc \in {"verifyRelay", "conversations"} THEN 0
            ELSE IF x.pc = "relayMessages" THEN x.at - 1 ELSE Len(RelayDirs)
Filed(x) == IF x.pc \in {"verifyTelephony", "rows"} THEN x.at - 1
            ELSE IF x.pc = "swap" THEN Len(TelephonyDirs) ELSE 0

RelayRecordsOf(disk, i, self) ==
    RelayRecords(RelayDirs[i], disk.relay[RelayDirs[i]], disk.relay[RelayDirs[i]].people, self)

TelephonyRecordsOf(disk, i, self) ==
    TelephonyRecords(TelephonyDirs[i], disk.telephony[TelephonyDirs[i]], self)

\* These archives verify and have this owner.
OwnedBy(disk, told, filed, self) ==
    /\ \A i \in 1 .. told : /\ disk.relay[RelayDirs[i]].verified
                            /\ disk.relay[RelayDirs[i]].me \cap Number = {self}
    /\ \A i \in 1 .. filed : disk.telephony[TelephonyDirs[i]].verified

\* What has been read of this state of the disk.
ReadUpTo(disk, told, heard, filed, self, people, loaded) ==
    /\ OwnedBy(disk, told, filed, self)
    /\ people = [i \in 1 .. told |-> disk.relay[RelayDirs[i]].people]
    /\ loaded = (UNION {RelayRecordsOf(disk, i, self) : i \in 1 .. heard})
                \cup (UNION {TelephonyRecordsOf(disk, i, self) : i \in 1 .. filed})

\* What a refresh has read that nothing was replaced under.
ReadOf(disk, x) ==
    /\ ReadUpTo(disk, Told(x), Heard(x), Filed(x), x.self, x.people, x.loaded)
    /\ x.pc = "conversations" => disk.relay[RelayDirs[x.at]].verified
    /\ x.pc = "rows" => disk.telephony[TelephonyDirs[x.at]].verified

\* The position of a refresh in its rounds.
Placed(x) ==
    /\ x.pc \in {"verifyRelay", "conversations", "relayMessages"} => x.at \in 1 .. Len(RelayDirs)
    /\ x.pc \in {"verifyTelephony", "rows"} => x.at \in 1 .. Len(TelephonyDirs)
    /\ x.pc \in {"idle", "command"} => x.at = 1 /\ x.people = <<>> /\ x.loaded = {}

\* A job has read what its position says; if it is clean, then of one state of
\* the disk, which is still in place while it reads.
ReadsIn(x, archives, moment) ==
    /\ Placed(x)
    /\ x.pc \in Reading \cup {"swap"} => LoadedFrom(x.loaded, Heard(x), Filed(x))
    /\ x.pc \in Reading /\ x.clean => x.began = moment
    /\ x.pc \in Reading \cup {"swap"} /\ x.clean => ReadOf(archives[x.began], x)

JobReads(x) == ReadsIn(x, history, now)

\* A view is of records like these; if nothing was replaced, of all the records
\* of a disk whose archives verify and have one owner.
ViewIsOf(view) ==
    /\ \E R : /\ FromArchives(R) /\ \A r \in R : r.sources[1] \in AllSources
              /\ \E convs : view.dataset = Dataset(convs, R)
    /\ view.clean =>
          LET disk == history[view.began] IN
          /\ \E convs : view.dataset = Dataset(convs, Records(disk))
          /\ FromArchives(Records(disk))
          /\ \E owner : OwnedBy(disk, Len(RelayDirs), Len(TelephonyDirs), owner)

\* What makes the properties of a view inductive.
ViewInv ==
    /\ \A j \in Job : JobReads(job[j])
    /\ served # None => ViewIsOf(served)


\* One more relay archive says who its conversations are with.
LEMMA OneMoreTold ==
    ASSUME NEW disk, NEW n \in 1 .. Len(RelayDirs), NEW self, NEW people, NEW loaded,
           ReadUpTo(disk, n - 1, 0, 0, self, people, loaded),
           disk.relay[RelayDirs[n]].verified,
           IsFiniteSet(disk.relay[RelayDirs[n]].me \cap Number),
           Cardinality(disk.relay[RelayDirs[n]].me \cap Number) = 1,
           self \in (disk.relay[RelayDirs[n]].me \cap Number) \cup {None}
    PROVE  ReadUpTo(disk, n, 0, 0, CHOOSE m \in disk.relay[RelayDirs[n]].me \cap Number : TRUE,
                    Append(people, disk.relay[RelayDirs[n]].people), loaded)
PROOF
<1> DEFINE mine == disk.relay[RelayDirs[n]].me \cap Number
           owner == CHOOSE m \in mine : TRUE
           more == Append(people, disk.relay[RelayDirs[n]].people)
           P == [i \in 1 .. n |-> disk.relay[RelayDirs[i]].people]
<1>1. n \in Nat \ {0} /\ n - 1 \in Nat /\ (n - 1) + 1 = n
  BY Directories
<1>2. mine = {owner} /\ owner \in Number
  <2>1. \E m : mine = {m}
    BY FS_Singleton
  <2> QED BY <2>1
<1>3. OwnedBy(disk, n, 0, owner)
  <2>1. \A i \in 1 .. n - 1 : /\ disk.relay[RelayDirs[i]].verified
                              /\ disk.relay[RelayDirs[i]].me \cap Number = {self}
    BY DEF ReadUpTo, OwnedBy
  <2>2. ASSUME NEW i \in 1 .. n - 1 PROVE self = owner
    <3>1. self \in Number
      BY <2>1
    <3> QED BY <1>2, <3>1, ServerAssumption
  <2>3. \A i \in 1 .. n : i = n \/ i \in 1 .. n - 1
    BY <1>1
  <2>4. \A i \in 1 .. n : disk.relay[RelayDirs[i]].verified /\ disk.relay[RelayDirs[i]].me \cap Number = {owner}
    <3> HIDE DEF owner
    <3> QED BY <1>2, <2>1, <2>2, <2>3
  <2> QED BY <2>4 DEF OwnedBy
<1>4. more = P
  <2> DEFINE q == disk.relay[RelayDirs[n]].people
  <2>1. people = [i \in 1 .. n - 1 |-> disk.relay[RelayDirs[i]].people]
    BY DEF ReadUpTo
  <2>2. people \in Seq({P[i] : i \in 1 .. n}) /\ Len(people) = n - 1
    <3> DEFINE S == {P[i] : i \in 1 .. n}
    <3>1. people \in [1 .. n - 1 -> S]
      BY <1>1, <2>1
    <3> HIDE DEF S
    <3>2. people \in Seq(S) /\ Len(people) = n - 1
      BY <1>1, <3>1
    <3> QED BY <3>2 DEF S
  <2>3. P[n] = q /\ q \in {P[i] : i \in 1 .. n}
    BY <1>1
  <2>4. /\ more \in Seq({P[i] : i \in 1 .. n}) /\ Len(more) = n /\ more[n] = q
        /\ \A i \in 1 .. n - 1 : more[i] = people[i]
    <3> HIDE DEF q, P
    <3> QED BY <1>1, <2>2, <2>3 DEF q
  <2>5. \A i \in 1 .. n : more[i] = P[i]
    <3>1. \A i \in 1 .. n : i = n \/ i \in 1 .. n - 1
      BY <1>1
    <3> HIDE DEF more
    <3> QED BY <2>1, <2>3, <2>4, <3>1
  <2>6. DOMAIN more = 1 .. n /\ DOMAIN P = 1 .. n
    BY <2>4
  <2>7. more = [i \in 1 .. n |-> more[i]]
    <3> HIDE DEF more, P
    <3> QED BY <2>4, <2>6
  <2> QED BY <2>5, <2>7
<1>5. loaded = {}
  BY DEF ReadUpTo
<1> HIDE DEF owner, more
<1> QED BY <1>3, <1>4, <1>5 DEF ReadUpTo, owner, more

\* Its messages are read.
LEMMA OneMoreHeard ==
    ASSUME NEW disk, NEW n \in 1 .. Len(RelayDirs), NEW self, NEW people, NEW loaded,
           ReadUpTo(disk, Len(RelayDirs), n - 1, 0, self, people, loaded)
    PROVE  ReadUpTo(disk, Len(RelayDirs), n, 0, self, people,
                    loaded \cup RelayRecords(RelayDirs[n], disk.relay[RelayDirs[n]], people[n], self))
PROOF
<1> DEFINE F(i) == RelayRecordsOf(disk, i, self)
<1>1. n \in Nat \ {0} /\ \A i : i \in 1 .. n <=> i = n \/ i \in 1 .. n - 1
  BY Directories
<1>2. RelayRecords(RelayDirs[n], disk.relay[RelayDirs[n]], people[n], self) = F(n)
  BY DEF ReadUpTo, RelayRecordsOf
<1>3. loaded = UNION {F(i) : i \in 1 .. n - 1}
  BY DEF ReadUpTo
<1>4. loaded \cup F(n) = UNION {F(i) : i \in 1 .. n}
  <2> HIDE DEF F
  <2> QED BY <1>1, <1>3
<1>5. loaded \cup F(n) = (UNION {F(i) : i \in 1 .. n})
                         \cup (UNION {TelephonyRecordsOf(disk, i, self) : i \in 1 .. 0})
  BY <1>4
<1> QED BY <1>2, <1>5 DEF ReadUpTo

\* A Telephony archive is read.
LEMMA OneMoreFiled ==
    ASSUME NEW disk, NEW n \in 1 .. Len(TelephonyDirs), NEW self, NEW people, NEW loaded,
           ReadUpTo(disk, Len(RelayDirs), Len(RelayDirs), n - 1, self, people, loaded),
           disk.telephony[TelephonyDirs[n]].verified
    PROVE  ReadUpTo(disk, Len(RelayDirs), Len(RelayDirs), n, self, people,
                    loaded \cup TelephonyRecords(TelephonyDirs[n], disk.telephony[TelephonyDirs[n]], self))
PROOF
<1> DEFINE F(i) == TelephonyRecordsOf(disk, i, self)
           R == UNION {RelayRecordsOf(disk, i, self) : i \in 1 .. Len(RelayDirs)}
<1>1. n \in Nat \ {0} /\ \A i : i \in 1 .. n <=> i = n \/ i \in 1 .. n - 1
  BY Directories
<1>2. TelephonyRecords(TelephonyDirs[n], disk.telephony[TelephonyDirs[n]], self) = F(n)
  BY DEF TelephonyRecordsOf
<1>3. loaded = R \cup (UNION {F(i) : i \in 1 .. n - 1})
  BY DEF ReadUpTo
<1>4. loaded \cup F(n) = R \cup (UNION {F(i) : i \in 1 .. n})
  <2> HIDE DEF F, R
  <2> QED BY <1>1, <1>3
<1>5. OwnedBy(disk, Len(RelayDirs), n, self)
  BY <1>1 DEF ReadUpTo, OwnedBy
<1> QED BY <1>2, <1>4, <1>5 DEF ReadUpTo

\* Before a refresh has begun, and as it begins, it has read nothing.
LEMMA NothingRead ==
    ASSUME NEW x, x.pc \in Over \cup {"command", "verifyRelay"}, x.at = 1, x.people = <<>>, x.loaded = {},
           NEW archives, NEW moment, x.pc = "verifyRelay" => x.began = moment
    PROVE  ReadsIn(x, archives, moment)
PROOF
<1>1. Placed(x)
  BY Directories DEF Placed, Over
<1>2. LoadedFrom({}, 0, 0)
  BY FS_EmptySet DEF LoadedFrom, FromArchives
<1>3. x.pc = "verifyRelay" => Told(x) = 0 /\ Heard(x) = 0 /\ Filed(x) = 0
  BY DEF Told, Heard, Filed
<1>4. ASSUME NEW disk PROVE ReadUpTo(disk, 0, 0, 0, x.self, x.people, x.loaded)
  <2>1. <<>> = [i \in 1 .. 0 |-> disk.relay[RelayDirs[i]].people]
    <3>1. 1 .. 0 = {}
      OBVIOUS
    <3> QED BY <3>1
  <2> QED BY <2>1 DEF ReadUpTo, OwnedBy
<1>5. x.pc = "verifyRelay" => \A disk : ReadOf(disk, x)
  BY <1>3, <1>4 DEF ReadOf
<1> QED BY <1>1, <1>2, <1>3, <1>5 DEF ReadsIn, Over, Reading

\* One job takes a step.
LEMMA JobStepKeepsViewInv ==
    ASSUME ServerInv, ViewInv, NEW j \in Job, NEW x, JobReads(x), job' = [job EXCEPT ![j] = x],
           UNCHANGED <<history, now, served>>
    PROVE  ViewInv'
PROOF
<1>1. \A k \in Job : job'[k] = IF k = j THEN x ELSE job[k]
  BY DEF ServerInv
<1>2. \A y : JobReads(y)' <=> JobReads(y)
  BY DEF JobReads, ReadsIn
<1>3. \A k \in Job : JobReads(job[k])
  BY DEF ViewInv
<1>4. \A k \in Job : JobReads(job'[k])
  BY <1>1, <1>3
<1>5. \A k \in Job : JobReads(job[k])'
  BY <1>4 DEF JobReads, ReadsIn
<1>6. (served # None => ViewIsOf(served))'
  BY DEF ViewInv, ViewIsOf
<1> QED BY <1>5, <1>6 DEF ViewInv

\* A refresh verifies a relay archive.
LEMMA VerifyRelayReads ==
    ASSUME ServerInv, NEW j \in Job, JobReads(job[j]), job[j].pc = "verifyRelay",
           Disk.relay[RelayDir(j)].verified
    PROVE  JobReads([job[j] EXCEPT !.pc = "conversations"])
PROOF
<1> DEFINE y == job[j]
           x == [y EXCEPT !.pc = "conversations"]
<1>1. /\ x.pc = "conversations" /\ x.at = y.at /\ x.self = y.self /\ x.people = y.people
      /\ x.loaded = y.loaded /\ x.began = y.began /\ x.clean = y.clean
  BY DEF ServerInv, JobShape, Fields
<1> HIDE DEF x
<1>2. Told(x) = Told(y) /\ Heard(x) = Heard(y) /\ Filed(x) = Filed(y)
  BY <1>1 DEF Told, Heard, Filed
<1>3. Placed(x)
  BY <1>1 DEF JobReads, ReadsIn, Placed
<1>4. LoadedFrom(x.loaded, Heard(x), Filed(x))
  BY <1>1, <1>2 DEF JobReads, ReadsIn, Reading
<1>5. ASSUME x.clean PROVE x.began = now /\ ReadOf(history[x.began], x)
  <2>1. y.began = now /\ ReadOf(history[y.began], y)
    BY <1>1, <1>5 DEF JobReads, ReadsIn, Reading
  <2>2. history[now].relay[RelayDirs[x.at]].verified
    BY <1>1 DEF Disk, RelayDir
  <2> QED BY <1>1, <1>2, <2>1, <2>2 DEF ReadOf
<1>6. JobReads(x)
  BY <1>1, <1>3, <1>4, <1>5 DEF JobReads, ReadsIn
<1> QED BY <1>6 DEF x

\* It learns who the conversations of an archive are with.
LEMMA ConversationsAreRead ==
    ASSUME ServerInv, NEW j \in Job, JobReads(job[j]), job[j].pc = "conversations",
           Cardinality(Disk.relay[RelayDir(j)].me \cap Number) = 1,
           job[j].self \in (Disk.relay[RelayDir(j)].me \cap Number) \cup {None},
           NEW x, x.self = CHOOSE m \in Disk.relay[RelayDir(j)].me \cap Number : TRUE,
           x.people = Append(job[j].people, Disk.relay[RelayDir(j)].people),
           x.loaded = job[j].loaded, x.began = job[j].began, x.clean = job[j].clean,
           \/ job[j].at < Len(RelayDirs) /\ x.pc = "verifyRelay" /\ x.at = job[j].at + 1
           \/ ~ (job[j].at < Len(RelayDirs)) /\ x.pc = "relayMessages" /\ x.at = 1
    PROVE  JobReads(x)
PROOF
<1> DEFINE a == Disk.relay[RelayDir(j)]
           mine == a.me \cap Number
           y == job[j]
           n == y.at
<1>1. n \in 1 .. Len(RelayDirs) /\ Len(RelayDirs) \in Nat \ {0}
  BY Directories DEF JobReads, ReadsIn, Placed
<1>2. Told(y) = n - 1 /\ Heard(y) = 0 /\ Filed(y) = 0
  BY DEF Told, Heard, Filed
<1>3. Told(x) = n /\ Heard(x) = 0 /\ Filed(x) = 0
  BY <1>1 DEF Told, Heard, Filed
<1>4. Placed(x)
  BY <1>1 DEF Placed
<1>5. LoadedFrom(x.loaded, Heard(x), Filed(x))
  BY <1>2, <1>3 DEF JobReads, ReadsIn, Reading
<1>6. ASSUME x.clean PROVE x.began = now /\ ReadOf(history[x.began], x)
  <2>1. y.began = now /\ ReadOf(Disk, y)
    BY <1>6 DEF JobReads, ReadsIn, Reading, Disk
  <2>2. ReadUpTo(Disk, n - 1, 0, 0, y.self, y.people, y.loaded) /\ a.verified /\ a = Disk.relay[RelayDirs[n]]
    BY <1>2, <2>1 DEF ReadOf, RelayDir
  <2>3. IsFiniteSet(mine)
    <3>1. RelayDirs[n] \in ToSet(Relays)
      BY <1>1, Directories
    <3>2. IsFiniteSet(a.me)
      <4>1. history \in Histories /\ now \in 1 .. Len(history)
        BY DEF ServerInv
      <4>2. IsFiniteSet(history[now].relay[RelayDirs[n]].me)
        BY <3>1, <4>1, HistoriesAssumption, Zenon
      <4> QED BY <2>2, <4>2 DEF Disk
    <3> QED BY <3>2, FS_Subset
  <2>4. ReadUpTo(Disk, n, 0, 0, x.self, x.people, x.loaded)
    <3>1. n \in 1 .. Len(RelayDirs) /\ Disk.relay[RelayDirs[n]].verified
          /\ mine = Disk.relay[RelayDirs[n]].me \cap Number
      BY <1>1, <2>2
    <3> DEFINE D == Disk.relay[RelayDirs[n]].me \cap Number
    <3>3. IsFiniteSet(D) /\ Cardinality(D) = 1 /\ y.self \in D \cup {None}
      BY <2>3, <3>1
    <3>2. ReadUpTo(Disk, n, 0, 0, CHOOSE m \in D : TRUE,
                   Append(y.people, Disk.relay[RelayDirs[n]].people), y.loaded)
      BY <2>2, <3>1, <3>3, OneMoreTold, Zenon
    <3> QED BY <2>2, <3>1, <3>2
  <2>5. x.pc # "conversations" /\ x.pc # "rows"
    OBVIOUS
  <2> QED BY <1>3, <2>1, <2>4, <2>5 DEF ReadOf, Disk
<1> QED BY <1>4, <1>5, <1>6 DEF JobReads, ReadsIn

\* It reads the messages of a relay archive.
LEMMA RelayMessagesAreRead ==
    ASSUME ServerInv, NEW j \in Job, JobReads(job[j]), job[j].pc = "relayMessages",
           NEW x, x.self = job[j].self, x.people = job[j].people,
           x.loaded = job[j].loaded \cup RelayRecords(RelayDir(j), Disk.relay[RelayDir(j)],
                                                      job[j].people[job[j].at], job[j].self),
           x.began = job[j].began, x.clean = job[j].clean,
           \/ job[j].at < Len(RelayDirs) /\ x.pc = "relayMessages" /\ x.at = job[j].at + 1
           \/ ~ (job[j].at < Len(RelayDirs)) /\ x.pc = "verifyTelephony" /\ x.at = 1
    PROVE  JobReads(x)
PROOF
<1> DEFINE y == job[j]
           n == y.at
           B == RelayRecords(RelayDirs[n], Disk.relay[RelayDirs[n]], y.people[n], y.self)
<1>1. n \in 1 .. Len(RelayDirs) /\ Len(RelayDirs) \in Nat \ {0} /\ Len(TelephonyDirs) \in Nat \ {0}
  BY Directories DEF JobReads, ReadsIn, Placed
<1>2. Told(y) = Len(RelayDirs) /\ Heard(y) = n - 1 /\ Filed(y) = 0
  BY DEF Told, Heard, Filed
<1>3. Told(x) = Len(RelayDirs) /\ Heard(x) = n /\ Filed(x) = 0
  BY <1>1 DEF Told, Heard, Filed
<1>4. Placed(x)
  BY <1>1 DEF Placed
<1>5. x.loaded = y.loaded \cup B
  BY DEF RelayDir
<1>6. Batch(B, Relay, RelayDirs[n])
  <2>1. RelayDirs[n] \in ToSet(Relays)
    BY <1>1, Directories
  <2> QED BY <2>1, RelayBatch DEF ServerInv, Disk
<1> HIDE DEF B
<1>7. LoadedFrom(x.loaded, Heard(x), Filed(x))
  <2>1. LoadedFrom(y.loaded, n - 1, 0)
    BY <1>2 DEF JobReads, ReadsIn, Reading
  <2>2. n \in 1 .. Len(RelayDirs)
    BY <1>1
  <2>3. LoadedFrom(y.loaded \cup B, n, 0)
    BY <1>6, <2>1, <2>2, OneMoreRelay, Zenon
  <2> QED BY <1>3, <1>5, <2>3
<1>8. ASSUME x.clean PROVE x.began = now /\ ReadOf(history[x.began], x)
  <2>1. y.began = now /\ ReadOf(Disk, y)
    BY <1>8 DEF JobReads, ReadsIn, Reading, Disk
  <2>2. ReadUpTo(Disk, Len(RelayDirs), n - 1, 0, y.self, y.people, y.loaded)
    BY <1>2, <2>1 DEF ReadOf
  <2>3. ReadUpTo(Disk, Len(RelayDirs), n, 0, x.self, x.people, x.loaded)
    <3>1. n \in 1 .. Len(RelayDirs)
      BY <1>1
    <3>2. ReadUpTo(Disk, Len(RelayDirs), n, 0, y.self, y.people, y.loaded \cup B)
      BY <2>2, <3>1, OneMoreHeard, Zenon DEF B
    <3> QED BY <1>5, <3>2
  <2> QED BY <1>3, <2>1, <2>3 DEF ReadOf, Disk
<1> QED BY <1>4, <1>7, <1>8 DEF JobReads, ReadsIn

\* It verifies a Telephony archive.
LEMMA VerifyTelephonyReads ==
    ASSUME ServerInv, NEW j \in Job, JobReads(job[j]), job[j].pc = "verifyTelephony",
           Disk.telephony[TelephonyDir(j)].verified
    PROVE  JobReads([job[j] EXCEPT !.pc = "rows"])
PROOF
<1> DEFINE y == job[j]
           x == [y EXCEPT !.pc = "rows"]
<1>1. /\ x.pc = "rows" /\ x.at = y.at /\ x.self = y.self /\ x.people = y.people
      /\ x.loaded = y.loaded /\ x.began = y.began /\ x.clean = y.clean
  BY DEF ServerInv, JobShape, Fields
<1> HIDE DEF x
<1>2. Told(x) = Told(y) /\ Heard(x) = Heard(y) /\ Filed(x) = Filed(y)
  BY <1>1 DEF Told, Heard, Filed
<1>3. Placed(x)
  BY <1>1 DEF JobReads, ReadsIn, Placed
<1>4. LoadedFrom(x.loaded, Heard(x), Filed(x))
  BY <1>1, <1>2 DEF JobReads, ReadsIn, Reading
<1>5. ASSUME x.clean PROVE x.began = now /\ ReadOf(history[x.began], x)
  <2>1. y.began = now /\ ReadOf(history[y.began], y)
    BY <1>1, <1>5 DEF JobReads, ReadsIn, Reading
  <2>2. history[now].telephony[TelephonyDirs[x.at]].verified
    BY <1>1 DEF Disk, TelephonyDir
  <2> QED BY <1>1, <1>2, <2>1, <2>2 DEF ReadOf
<1>6. JobReads(x)
  BY <1>1, <1>3, <1>4, <1>5 DEF JobReads, ReadsIn
<1> QED BY <1>6 DEF x

\* It reads the rows of a Telephony archive.
LEMMA RowsAreRead ==
    ASSUME ServerInv, NEW j \in Job, JobReads(job[j]), job[j].pc = "rows",
           NEW x, x.self = job[j].self, x.people = job[j].people,
           x.loaded = job[j].loaded \cup TelephonyRecords(TelephonyDir(j),
                                         Disk.telephony[TelephonyDir(j)], job[j].self),
           x.began = job[j].began, x.clean = job[j].clean,
           \/ job[j].at < Len(TelephonyDirs) /\ x.pc = "verifyTelephony" /\ x.at = job[j].at + 1
           \/ ~ (job[j].at < Len(TelephonyDirs)) /\ x.pc = "swap" /\ x.at = 1
    PROVE  JobReads(x)
PROOF
<1> DEFINE y == job[j]
           n == y.at
           B == TelephonyRecords(TelephonyDirs[n], Disk.telephony[TelephonyDirs[n]], y.self)
<1>1. n \in 1 .. Len(TelephonyDirs) /\ Len(TelephonyDirs) \in Nat \ {0}
  BY Directories DEF JobReads, ReadsIn, Placed
<1>2. Told(y) = Len(RelayDirs) /\ Heard(y) = Len(RelayDirs) /\ Filed(y) = n - 1
  BY DEF Told, Heard, Filed
<1>3. Told(x) = Len(RelayDirs) /\ Heard(x) = Len(RelayDirs) /\ Filed(x) = n
  BY <1>1 DEF Told, Heard, Filed
<1>4. Placed(x)
  BY <1>1 DEF Placed
<1>5. x.loaded = y.loaded \cup B
  BY DEF TelephonyDir
<1>6. Batch(B, Telephony, TelephonyDirs[n])
  <2>1. TelephonyDirs[n] \in ToSet(Telephonies)
    BY <1>1, Directories
  <2> QED BY <2>1, TelephonyBatch DEF ServerInv, Disk
<1> HIDE DEF B
<1>7. LoadedFrom(x.loaded, Heard(x), Filed(x))
  <2>1. LoadedFrom(y.loaded, Len(RelayDirs), n - 1)
    BY <1>2 DEF JobReads, ReadsIn, Reading
  <2>2. n \in 1 .. Len(TelephonyDirs)
    BY <1>1
  <2>3. LoadedFrom(y.loaded \cup B, Len(RelayDirs), n)
    BY <1>6, <2>1, <2>2, OneMoreTelephony, Zenon
  <2> QED BY <1>3, <1>5, <2>3
<1>8. ASSUME x.clean PROVE (x.pc \in Reading => x.began = now) /\ ReadOf(history[x.began], x)
  <2>1. y.began = now /\ ReadOf(Disk, y)
    BY <1>8 DEF JobReads, ReadsIn, Reading, Disk
  <2>2. ReadUpTo(Disk, Len(RelayDirs), Len(RelayDirs), n - 1, y.self, y.people, y.loaded)
        /\ Disk.telephony[TelephonyDirs[n]].verified
    BY <1>2, <2>1 DEF ReadOf
  <2>3. ReadUpTo(Disk, Len(RelayDirs), Len(RelayDirs), n, x.self, x.people, x.loaded)
    <3>1. n \in 1 .. Len(TelephonyDirs)
      BY <1>1
    <3>2. ReadUpTo(Disk, Len(RelayDirs), Len(RelayDirs), n, y.self, y.people, y.loaded \cup B)
      BY <2>2, <3>1, OneMoreFiled, Zenon DEF B
    <3> QED BY <1>5, <3>2
  <2> QED BY <1>3, <2>1, <2>3 DEF ReadOf, Disk
<1> QED BY <1>4, <1>7, <1>8 DEF JobReads, ReadsIn

\* What a failed or finished job has read.
LEMMA EndKeepsViewInv ==
    ASSUME ServerInv, ViewInv, NEW j \in Job, NEW result \in {"ok", "failed"}, End(j, result),
           UNCHANGED <<history, now, served>>
    PROVE  ViewInv'
PROOF
<1> DEFINE x == [Idle EXCEPT !.pc = result]
<1>1. x.pc = result /\ x.at = 1 /\ x.people = <<>> /\ x.loaded = {}
  BY DEF Idle
<1>2. job' = [job EXCEPT ![j] = x]
  BY DEF End
<1> HIDE DEF x
<1>3. JobReads(x)
  BY <1>1, NothingRead DEF Over, JobReads
<1> QED BY <1>2, <1>3, JobStepKeepsViewInv

\* Where a job proceeds to, with what it has read until then.
ProceedsTo(j, dirs, again, next, y, x) ==
    /\ Continue(j, x)
    /\ x.self = y.self /\ x.people = y.people /\ x.loaded = y.loaded
    /\ x.began = y.began /\ x.clean = y.clean
    /\ \/ job[j].at < Len(dirs) /\ x.pc = again /\ x.at = job[j].at + 1
       \/ ~ (job[j].at < Len(dirs)) /\ x.pc = next /\ x.at = 1

\* A refresh that goes on reads the next directory, or starts what comes next.
LEMMA ProceedTo ==
    ASSUME NEW j \in Job, NEW dirs, NEW again \in Reading, NEW next \in Reading \cup {"swap"},
           NEW y, JobShape(y), y.at = job[j].at, Proceed(j, dirs, again, next, y)
    PROVE  \E x : ProceedsTo(j, dirs, again, next, y, x)
PROOF
<1> DEFINE more == [y EXCEPT !.pc = again, !.at = @ + 1]
           done == [y EXCEPT !.pc = next, !.at = 1]
           x == IF job[j].at < Len(dirs) THEN more ELSE done
<1>1. /\ more.self = y.self /\ more.people = y.people /\ more.loaded = y.loaded
      /\ more.began = y.began /\ more.clean = y.clean /\ more.pc = again /\ more.at = y.at + 1
  BY DEF JobShape, Fields
<1>2. /\ done.self = y.self /\ done.people = y.people /\ done.loaded = y.loaded
      /\ done.began = y.began /\ done.clean = y.clean /\ done.pc = next /\ done.at = 1
  BY DEF JobShape, Fields
<1>3. Continue(j, x)
  BY DEF Proceed
<1> HIDE DEF more, done
<1>4. /\ x.self = y.self /\ x.people = y.people /\ x.loaded = y.loaded
      /\ x.began = y.began /\ x.clean = y.clean
      /\ \/ job[j].at < Len(dirs) /\ x.pc = again /\ x.at = job[j].at + 1
         \/ ~ (job[j].at < Len(dirs)) /\ x.pc = next /\ x.at = 1
  BY <1>1, <1>2
<1> HIDE DEF x
<1>5. ProceedsTo(j, dirs, again, next, y, x)
  BY <1>3, <1>4 DEF ProceedsTo
<1> QED BY <1>5

\* A step of a refresh before its merge.
LEMMA ReadKeepsViewInv ==
    ASSUME ServerInv, ViewInv, NEW j \in Job, Read(j)
    PROVE  ViewInv'
PROOF
<1> USE DEF Reading
<1>1. JobReads(job[j]) /\ JobShape(job[j])
  BY DEF ViewInv, ServerInv
<1>2. ASSUME NEW x, Continue(j, x), JobReads(x) PROVE ViewInv'
  BY <1>2, JobStepKeepsViewInv DEF Continue
<1>3. ASSUME Fail(j) PROVE ViewInv'
  BY <1>3, EndKeepsViewInv DEF Fail
<1>4. CASE VerifyRelay(j)
  <2> DEFINE x == [job[j] EXCEPT !.pc = "conversations"]
  <2>1. job[j].pc = "verifyRelay" /\ (Fail(j) \/ (Disk.relay[RelayDir(j)].verified /\ Continue(j, x)))
    BY <1>4 DEF VerifyRelay
  <2> HIDE DEF x
  <2>2. Disk.relay[RelayDir(j)].verified => JobReads(x)
    BY <1>1, <2>1, VerifyRelayReads DEF x
  <2> QED BY <1>2, <1>3, <2>1, <2>2
<1>5. CASE LoadConversations(j)
  <2> DEFINE a == Disk.relay[RelayDir(j)]
             mine == a.me \cap Number
             owner == CHOOSE n \in mine : TRUE
             more == Append(job[j].people, a.people)
             y == [job[j] EXCEPT !.self = owner, !.people = more]
  <2>1. /\ job[j].pc = "conversations"
        /\ \/ Fail(j)
           \/ /\ Cardinality(mine) = 1 /\ job[j].self \in mine \cup {None}
              /\ Proceed(j, RelayDirs, "verifyRelay", "relayMessages", y)
    BY <1>5 DEF LoadConversations
  <2>2. /\ JobShape(y) /\ y.at = job[j].at /\ y.self = owner /\ y.people = more
        /\ y.loaded = job[j].loaded /\ y.began = job[j].began /\ y.clean = job[j].clean
    <3> HIDE DEF owner, more
    <3> QED BY <1>1, <2>1 DEF JobShape, Fields
  <2> HIDE DEF y
  <2>3. ASSUME Cardinality(mine) = 1, job[j].self \in mine \cup {None},
               Proceed(j, RelayDirs, "verifyRelay", "relayMessages", y)
        PROVE  ViewInv'
    <3>1. PICK x : ProceedsTo(j, RelayDirs, "verifyRelay", "relayMessages", y, x)
      <4>1. JobShape(y) /\ y.at = job[j].at /\ Proceed(j, RelayDirs, "verifyRelay", "relayMessages", y)
        BY <2>2, <2>3
      <4> QED BY <4>1, ProceedTo
    <3>2. x.self = owner /\ x.people = more
      BY <2>2, <3>1 DEF ProceedsTo
    <3>3. x.loaded = job[j].loaded /\ x.began = job[j].began /\ x.clean = job[j].clean
      BY <2>2, <3>1 DEF ProceedsTo
    <3>4. JobReads(x)
      BY <1>1, <2>1, <2>3, <3>1, <3>2, <3>3, ConversationsAreRead, Zenon DEF ProceedsTo
    <3> QED BY <1>2, <3>1, <3>4 DEF ProceedsTo
  <2> QED BY <1>3, <2>1, <2>3
<1>6. CASE LoadRelayMessages(j)
  <2> DEFINE all == job[j].loaded \cup RelayRecords(RelayDir(j), Disk.relay[RelayDir(j)],
                                                    job[j].people[job[j].at], job[j].self)
             y == [job[j] EXCEPT !.loaded = all]
  <2>1. /\ job[j].pc = "relayMessages"
        /\ Fail(j) \/ Proceed(j, RelayDirs, "relayMessages", "verifyTelephony", y)
    BY <1>6 DEF LoadRelayMessages
  <2>2. /\ JobShape(y) /\ y.at = job[j].at /\ y.self = job[j].self /\ y.people = job[j].people
        /\ y.loaded = all /\ y.began = job[j].began /\ y.clean = job[j].clean
    <3> HIDE DEF all
    <3> QED BY <1>1, <2>1 DEF JobShape, Fields
  <2> HIDE DEF y
  <2>3. ASSUME Proceed(j, RelayDirs, "relayMessages", "verifyTelephony", y) PROVE ViewInv'
    <3>1. PICK x : ProceedsTo(j, RelayDirs, "relayMessages", "verifyTelephony", y, x)
      <4>1. JobShape(y) /\ y.at = job[j].at /\ Proceed(j, RelayDirs, "relayMessages", "verifyTelephony", y)
        BY <2>2, <2>3
      <4> QED BY <4>1, ProceedTo
    <3>2. x.loaded = all
      BY <2>2, <3>1 DEF ProceedsTo
    <3>3. x.self = job[j].self /\ x.people = job[j].people /\ x.began = job[j].began /\ x.clean = job[j].clean
      BY <2>2, <3>1 DEF ProceedsTo
    <3>4. JobReads(x)
      BY <1>1, <2>1, <3>1, <3>2, <3>3, RelayMessagesAreRead, Zenon DEF ProceedsTo
    <3> QED BY <1>2, <3>1, <3>4 DEF ProceedsTo
  <2> QED BY <1>3, <2>1, <2>3
<1>7. CASE VerifyTelephony(j)
  <2> DEFINE x == [job[j] EXCEPT !.pc = "rows"]
  <2>1. job[j].pc = "verifyTelephony" /\ (Fail(j) \/ (Disk.telephony[TelephonyDir(j)].verified /\ Continue(j, x)))
    BY <1>7 DEF VerifyTelephony
  <2> HIDE DEF x
  <2>2. Disk.telephony[TelephonyDir(j)].verified => JobReads(x)
    BY <1>1, <2>1, VerifyTelephonyReads DEF x
  <2> QED BY <1>2, <1>3, <2>1, <2>2
<1>8. CASE LoadTelephonyMessages(j)
  <2> DEFINE all == job[j].loaded \cup TelephonyRecords(TelephonyDir(j),
                                           Disk.telephony[TelephonyDir(j)], job[j].self)
             y == [job[j] EXCEPT !.loaded = all]
  <2>1. job[j].pc = "rows" /\ Proceed(j, TelephonyDirs, "verifyTelephony", "swap", y)
    BY <1>8 DEF LoadTelephonyMessages
  <2>2. /\ JobShape(y) /\ y.at = job[j].at /\ y.self = job[j].self /\ y.people = job[j].people
        /\ y.loaded = all /\ y.began = job[j].began /\ y.clean = job[j].clean
    <3> HIDE DEF all
    <3> QED BY <1>1, <2>1 DEF JobShape, Fields
  <2> HIDE DEF y
  <2>3. PICK x : ProceedsTo(j, TelephonyDirs, "verifyTelephony", "swap", y, x)
    <3>1. JobShape(y) /\ y.at = job[j].at /\ Proceed(j, TelephonyDirs, "verifyTelephony", "swap", y)
      BY <2>1, <2>2
    <3> QED BY <3>1, ProceedTo
  <2>4. x.loaded = all
    BY <2>2, <2>3 DEF ProceedsTo
  <2>5. x.self = job[j].self /\ x.people = job[j].people /\ x.began = job[j].began /\ x.clean = job[j].clean
    BY <2>2, <2>3 DEF ProceedsTo
  <2>6. JobReads(x)
    BY <1>1, <2>1, <2>3, <2>4, <2>5, RowsAreRead, Zenon DEF ProceedsTo
  <2> QED BY <1>2, <2>3, <2>6 DEF ProceedsTo
<1>9. CASE LoadFails(j)
  BY <1>3, <1>9 DEF LoadFails
<1> QED BY <1>4, <1>5, <1>6, <1>7, <1>8, <1>9 DEF Read

\* When all directories have been read, all records have been.
LEMMA AllIsRead ==
    ASSUME NEW disk, NEW self, NEW people, NEW loaded,
           ReadUpTo(disk, Len(RelayDirs), Len(RelayDirs), Len(TelephonyDirs), self, people, loaded)
    PROVE  loaded = Records(disk)
PROOF
<1> DEFINE owner == CHOOSE n \in disk.relay[RelayDirs[1]].me \cap Number : TRUE
           F(d) == RelayRecords(d, disk.relay[d], disk.relay[d].people, self)
           G(d) == TelephonyRecords(d, disk.telephony[d], self)
<1>1. owner = self
  <2>1. 1 \in 1 .. Len(RelayDirs)
    BY Directories
  <2>2. disk.relay[RelayDirs[1]].me \cap Number = {self}
    BY <2>1 DEF ReadUpTo, OwnedBy
  <2> QED BY <2>2
<1>2. loaded = (UNION {F(RelayDirs[i]) : i \in 1 .. Len(RelayDirs)})
               \cup (UNION {G(TelephonyDirs[i]) : i \in 1 .. Len(TelephonyDirs)})
  BY DEF ReadUpTo, RelayRecordsOf, TelephonyRecordsOf
<1>3. Records(disk) = (UNION {F(d) : d \in ToSet(Relays)}) \cup (UNION {G(d) : d \in ToSet(Telephonies)})
  BY <1>1 DEF Records
<1> HIDE DEF F, G
<1>4. UNION {F(RelayDirs[i]) : i \in 1 .. Len(RelayDirs)} = UNION {F(d) : d \in ToSet(Relays)}
  BY Directories
<1>5. UNION {G(TelephonyDirs[i]) : i \in 1 .. Len(TelephonyDirs)} = UNION {G(d) : d \in ToSet(Telephonies)}
  BY Directories
<1> QED BY <1>2, <1>3, <1>4, <1>5

\* The view that a refresh leaves.
LEMMA SwapServes == ASSUME ServerInv, ViewInv, NEW j \in Job, Swap(j) PROVE ViewIsOf(served)'
PROOF
<1> DEFINE y == job[j]
           convs == RelayConversations(y.people, y.self)
           view == [dataset |-> Dataset(convs, y.loaded), began |-> y.began, clean |-> y.clean]
<1>1. /\ y.pc = "swap" /\ UNCHANGED <<history, now>> /\ served' = view
  BY DEF Swap
<1>2. JobReads(y) /\ JobShape(y)
  BY DEF ViewInv, ServerInv
<1>3. LoadedFrom(y.loaded, Len(RelayDirs), Len(TelephonyDirs))
  BY <1>1, <1>2 DEF JobReads, ReadsIn, Heard, Filed
<1>4. ASSUME y.clean
      PROVE  /\ y.loaded = Records(history[y.began])
             /\ \E owner : OwnedBy(history[y.began], Len(RelayDirs), Len(TelephonyDirs), owner)
  <2>1. ReadUpTo(history[y.began], Len(RelayDirs), Len(RelayDirs), Len(TelephonyDirs), y.self, y.people, y.loaded)
    BY <1>1, <1>2, <1>4 DEF JobReads, ReadsIn, ReadOf, Told, Heard, Filed
  <2>2. y.loaded = Records(history[y.began])
    BY <2>1, AllIsRead, Zenon
  <2> QED BY <2>1, <2>2 DEF ReadUpTo
<1>5. view.dataset = Dataset(convs, y.loaded) /\ view.began = y.began /\ view.clean = y.clean
  OBVIOUS
<1> HIDE DEF view, convs
<1>6. ViewIsOf(view)
  <2>1. FromArchives(y.loaded) /\ \A r \in y.loaded : r.sources[1] \in AllSources
    BY <1>3 DEF LoadedFrom
  <2> QED BY <1>4, <1>5, <2>1 DEF ViewIsOf
<1> QED BY <1>1, <1>6 DEF ViewIsOf

\* The job that left it is at its end.
LEMMA SwapKeepsViewInv == ASSUME ServerInv, ViewInv, NEW j \in Job, Swap(j) PROVE ViewInv'
PROOF
<1> DEFINE y == job[j]
<1>1. /\ y.pc = "swap" /\ UNCHANGED <<history, now>>
      /\ IF j = Startup THEN End(j, "ok")
         ELSE job' = [job EXCEPT ![j].pc = "metadata"] /\ UNCHANGED lock
  BY DEF Swap
<1>2. JobReads(y) /\ JobShape(y)
  BY DEF ViewInv, ServerInv
<1>7. PICK x : JobReads(x) /\ job' = [job EXCEPT ![j] = x]
  <2>1. CASE j = Startup
    <3> DEFINE x == [Idle EXCEPT !.pc = "ok"]
    <3>1. x.pc = "ok" /\ x.at = 1 /\ x.people = <<>> /\ x.loaded = {}
      BY DEF Idle
    <3>2. job' = [job EXCEPT ![j] = x]
      BY <1>1, <2>1 DEF End
    <3> HIDE DEF x
    <3>3. JobReads(x)
      BY <3>1, NothingRead DEF Over, JobReads
    <3> QED BY <3>2, <3>3
  <2>2. CASE j # Startup
    <3> DEFINE x == [y EXCEPT !.pc = "metadata"]
    <3>1. x.pc = "metadata"
      BY <1>2 DEF JobShape, Fields
    <3>2. job' = [job EXCEPT ![j] = x]
      BY <1>1, <2>2
    <3> HIDE DEF x
    <3>3. JobReads(x)
      BY <3>1 DEF JobReads, ReadsIn, Placed, Reading
    <3> QED BY <3>2, <3>3
  <2> QED BY <2>1, <2>2
<1>8. \A k \in Job : job'[k] = IF k = j THEN x ELSE job[k]
  BY <1>7 DEF ServerInv
<1>9. \A k \in Job : JobReads(job'[k])
  BY <1>7, <1>8 DEF ViewInv
<1>10. \A k \in Job : JobReads(job[k])'
  BY <1>1, <1>9 DEF JobReads
<1>11. (served # None => ViewIsOf(served))'
  BY SwapServes
<1> QED BY <1>10, <1>11 DEF ViewInv

\* What a torn refresh still knows.
LEMMA TornReads ==
    ASSUME NEW x, JobReads(x), NEW y, Kept(x, y), x.pc = "swap" => y.clean = x.clean,
           NEW moment
    PROVE  ReadsIn(y, history, moment)
PROOF
<1>1. /\ y.pc = x.pc /\ y.at = x.at /\ y.self = x.self /\ y.people = x.people
      /\ y.loaded = x.loaded /\ y.began = x.began
      /\ y.pc \in Reading => ~ y.clean
      /\ x.pc = "swap" => y.clean = x.clean
  BY DEF Kept, JobShape
<1>2. Told(y) = Told(x) /\ Heard(y) = Heard(x) /\ Filed(y) = Filed(x)
  BY <1>1 DEF Told, Heard, Filed
<1>3. Placed(y)
  BY <1>1 DEF JobReads, ReadsIn, Placed
<1>4. \A disk : ReadOf(disk, y) <=> ReadOf(disk, x)
  BY <1>1, <1>2 DEF ReadOf
<1> QED BY <1>1, <1>2, <1>3, <1>4 DEF JobReads, ReadsIn

\* An export.
LEMMA ExportKeepsViewInv == ASSUME ServerInv, ViewInv, Export PROVE ViewInv'
PROOF
<1>1. job' = Torn(job) /\ UNCHANGED <<history, served>>
  BY DEF Export
<1>2. \A k \in Job : ReadsIn(job'[k], history, now')
  BY <1>1, TornKeeps, TornReads DEF ViewInv
<1>3. \A k \in Job : JobReads(job[k])'
  BY <1>1, <1>2 DEF JobReads
<1>4. (served # None => ViewIsOf(served))'
  BY <1>1 DEF ViewInv, ViewIsOf
<1> QED BY <1>3, <1>4 DEF ViewInv

\* The commands of a sync have run.
LEMMA CommandKeepsViewInv == ASSUME ServerInv, ViewInv, NEW j \in Request, Command(j) PROVE ViewInv'
PROOF
<1> DEFINE jobs == IF now' = now THEN job ELSE Torn(job)
           x == [jobs[j] EXCEPT !.pc = "verifyRelay", !.began = now', !.due = now']
<1>1. job[j].pc = "command" /\ UNCHANGED <<history, served>>
  BY DEF Command
<1>2. job' = [jobs EXCEPT ![j] = x]
  BY DEF Command
<1>3. /\ jobs = [k \in Job |-> jobs[k]]
      /\ \A k \in Job : ReadsIn(jobs[k], history, now')
      /\ JobShape(jobs[j]) /\ jobs[j].at = job[j].at /\ jobs[j].people = job[j].people
      /\ jobs[j].loaded = job[j].loaded
  <2>1. CASE now' = now
    BY <2>1, Jobs DEF ServerInv, ViewInv, JobReads
  <2>2. CASE now' # now
    <3>1. jobs = Torn(job)
      BY <2>2
    <3>2. \A k \in Job : JobReads(job[k])
      BY DEF ViewInv
    <3> HIDE DEF jobs
    <3>3. \A k \in Job : ReadsIn(jobs[k], history, now')
      BY <3>1, <3>2, TornKeeps, TornReads
    <3>4. Kept(job[j], jobs[j])
      BY <3>1, TornKeeps, Jobs
    <3> QED BY <3>1, <3>3, <3>4, TornKeeps DEF Kept
  <2> QED BY <2>1, <2>2
<1>4. /\ x.pc = "verifyRelay" /\ x.began = now' /\ x.at = job[j].at /\ x.people = job[j].people
      /\ x.loaded = job[j].loaded
  BY <1>3 DEF JobShape, Fields
<1> HIDE DEF x, jobs
<1>5. job[j].at = 1 /\ job[j].people = <<>> /\ job[j].loaded = {}
  BY <1>1, Jobs DEF ViewInv, JobReads, ReadsIn, Placed
<1>6. ReadsIn(x, history, now')
  BY <1>4, <1>5, NothingRead
<1>7. \A k \in Job : job'[k] = IF k = j THEN x ELSE jobs[k]
  BY <1>2, <1>3
<1>8. \A k \in Job : JobReads(job[k])'
  BY <1>1, <1>3, <1>6, <1>7 DEF JobReads
<1>9. (served # None => ViewIsOf(served))'
  BY <1>1 DEF ViewInv, ViewIsOf
<1> QED BY <1>8, <1>9 DEF ViewInv

\* A sync request that gets the lock, or is refused, reads nothing.
LEMMA BeginKeepsViewInv == ASSUME ServerInv, ViewInv, NEW j \in Request, Begin(j) PROVE ViewInv'
PROOF
<1>1. job[j].pc = "idle" /\ UNCHANGED <<history, now, served>>
  BY DEF Begin
<1>2. PICK pc \in {"command", "conflict"} : job' = [job EXCEPT ![j].pc = pc]
  BY DEF Begin
<1> DEFINE x == [job[j] EXCEPT !.pc = pc]
<1>3. job' = [job EXCEPT ![j] = x]
  BY <1>2
<1>4. x.pc = pc /\ x.at = job[j].at /\ x.people = job[j].people /\ x.loaded = job[j].loaded
  BY Jobs DEF ServerInv, JobShape, Fields
<1> HIDE DEF x
<1>5. job[j].at = 1 /\ job[j].people = <<>> /\ job[j].loaded = {}
  BY <1>1, Jobs DEF ViewInv, JobReads, ReadsIn, Placed
<1>6. JobReads(x)
  BY <1>4, <1>5, NothingRead DEF JobReads, Over
<1> QED BY <1>1, <1>3, <1>6, Jobs, JobStepKeepsViewInv

\* The invariant holds when the server starts.
LEMMA ViewInvAtStart == Init => ViewInv
PROOF
<1> SUFFICES ASSUME Init PROVE ViewInv
  OBVIOUS
<1> DEFINE first == [Idle EXCEPT !.pc = "verifyRelay", !.began = 1]
<1>1. Idle.pc = "idle" /\ Idle.at = 1 /\ Idle.people = <<>> /\ Idle.loaded = {}
  BY DEF Idle
<1>2. /\ first.pc = "verifyRelay" /\ first.at = 1 /\ first.people = <<>> /\ first.loaded = {}
      /\ first.began = now
  <2>1. DOMAIN Idle = Fields
    BY DEF Idle, Fields
  <2> QED BY <1>1, <2>1 DEF Init, Fields
<1> HIDE DEF first
<1>3. job = [j \in Job |-> IF j = Startup THEN first ELSE Idle]
  BY DEF Init, first
<1>4. JobReads(Idle) /\ JobReads(first)
  BY <1>1, <1>2, NothingRead DEF JobReads, Over
<1>5. \A k \in Job : JobReads(job[k])
  BY <1>3, <1>4
<1> QED BY <1>5 DEF ViewInv, Init

\* What the server has read and serves is of the archives.
THEOREM ViewInvariant == Spec => []ViewInv
PROOF
<1>1. ASSUME ServerInv, ViewInv, [Next]_vars PROVE ViewInv'
  <2>1. ASSUME NEW j \in Request, CommandFails(j) \/ Metadata(j) PROVE ViewInv'
    <3>1. /\ End(j, "failed") \/ End(j, "ok")
          /\ UNCHANGED <<history, now, served>>
      BY <2>1 DEF CommandFails, Metadata, Fail
    <3> QED BY <1>1, <3>1, EndKeepsViewInv, Jobs
  <2>5. ASSUME NEW j \in Job, ExportedAtFails(j) PROVE ViewInv'
    BY <1>1, <2>5, EndKeepsViewInv DEF ExportedAtFails, Fail
  <2>2. CASE UNCHANGED <<history, now, served, job>>
    BY <1>1, <2>2 DEF ViewInv, JobReads, ViewIsOf
  <2>3. CASE Browse
    BY <2>2, <2>3 DEF Browse, OpenConversation, GetConversation, ListMessages, TurnBack
  <2>4. CASE UNCHANGED vars
    BY <2>2, <2>4 DEF vars
  <2> QED BY <1>1, <2>1, <2>3, <2>4, <2>5, ReadKeepsViewInv, SwapKeepsViewInv, BeginKeepsViewInv,
             CommandKeepsViewInv, ExportKeepsViewInv, Jobs
          DEF Next, Refresh, Read, Sync
<1> QED BY <1>1, ServerInvariant, ViewInvAtStart, PTL DEF Spec

\* A view that nothing was replaced under has every record of the archives
\* once, whatever order mergeCrossSource takes them in.
THEOREM NothingIsLost == Spec => []NothingLostNorTwice
PROOF
<1>1. ViewInv => NothingLostNorTwice
  BY DatasetIsRight DEF ViewInv, ViewIsOf, NothingLostNorTwice, Quiet
<1> QED BY <1>1, ViewInvariant, PTL

\* Only records that could be one message are shown as one.
THEOREM OnlyTheSameMerges == Spec => []OnlyTheSameMerge
PROOF
<1>1. ViewInv => OnlyTheSameMerge
  BY DatasetIsRight DEF ViewInv, ViewIsOf, OnlyTheSameMerge, Quiet
<1> QED BY <1>1, ViewInvariant, PTL

\* What two archives unmistakably have in common is shown as one.
THEOREM SeenByBothIsAlwaysOne == Spec => []SeenByBothIsOne
PROOF
<1>1. ViewInv => SeenByBothIsOne
  BY DatasetIsRight DEF ViewInv, ViewIsOf, SeenByBothIsOne, Quiet
<1> QED BY <1>1, ViewInvariant, PTL

-----------------------------------------------------------------------------
(* Owners.                                                                 *)

\* The first n relay archives had this owner, each when it was read.
OwnedSince(began, moment, n, self) ==
    \A i \in 1 .. n : \E k \in began .. moment :
        history[k].relay[RelayDirs[i]].me \cap Number = {self}

\* So did those that a job has read.
OwnsBy(x, moment) ==
    x.pc \in Reading \cup {"swap"} => OwnedSince(x.began, moment, Told(x), x.self)

\* What makes the first half of ServedIsOfOneOwner inductive.
OwnersInv ==
    /\ \A j \in Job : OwnsBy(job[j], now)
    /\ served # None => \E self : OwnedSince(served.began, now, Len(RelayDirs), self)

\* A job knows no more of owners than before.
SameOwner(x, y) ==
    y.pc \in Reading \cup {"swap"} =>
        \/ Told(y) = 0
        \/ /\ x.pc \in Reading \cup {"swap"} /\ y.began = x.began /\ y.self = x.self
           /\ Told(y) = Told(x)

\* Later it is still so.
LEMMA OwnersStay ==
    ASSUME NEW began \in Int, NEW n, NEW self, OwnedSince(began, now, n, self), NEW moment \in Int,
           now \in Int, moment >= now
    PROVE  OwnedSince(began, moment, n, self)
PROOF
<1>1. \A k \in began .. now : k \in began .. moment
  OBVIOUS
<1> QED BY <1>1 DEF OwnedSince

\* A step of one job, or of time, after which no job knows more.
LEMMA SameOwnersStay ==
    ASSUME ServerInv, OwnersInv, ServerInv', UNCHANGED <<history, served>>, now' >= now,
           \A k \in Job : SameOwner(job[k], job'[k])
    PROVE  OwnersInv'
PROOF
<1>1. now \in Int /\ now' \in Int /\ history' = history
  BY DEF ServerInv
<1>2. ASSUME NEW k \in Job, job'[k].pc \in Reading \cup {"swap"}
      PROVE  OwnedSince(job'[k].began, now', Told(job'[k]), job'[k].self)
  <2> DEFINE x == job[k]
             y == job'[k]
  <2> HIDE DEF x, y
  <2>1. SameOwner(x, y) /\ y.pc \in Reading \cup {"swap"} /\ OwnsBy(x, now)
    BY <1>2 DEF x, y, OwnersInv
  <2>2. CASE Told(y) = 0
    BY <2>2 DEF OwnedSince, y
  <2>3. CASE Told(y) # 0
    <3>1. /\ x.pc \in Reading \cup {"swap"} /\ y.began = x.began /\ y.self = x.self
          /\ Told(y) = Told(x)
      BY <2>1, <2>3 DEF SameOwner
    <3>2. OwnedSince(x.began, now, Told(x), x.self)
      BY <2>1, <3>1 DEF OwnsBy
    <3>3. x.began \in Int
      BY <3>1 DEF ServerInv, x
    <3>4. OwnedSince(x.began, now', Told(x), x.self)
      BY <1>1, <3>2, <3>3, OwnersStay
    <3> QED BY <3>1, <3>4 DEF y
  <2> QED BY <2>2, <2>3
<1>3. \A k \in Job : OwnsBy(job[k], now)'
  BY <1>1, <1>2 DEF OwnsBy, OwnedSince, Told
<1>4. ASSUME served # None PROVE \E self : OwnedSince(served.began, now', Len(RelayDirs), self)
  <2>1. PICK self : OwnedSince(served.began, now, Len(RelayDirs), self)
    BY <1>4 DEF OwnersInv
  <2>2. served.began \in Int
    BY <1>4 DEF ServerInv
  <2> QED BY <1>1, <2>1, <2>2, OwnersStay
<1>5. (served # None => \E self : OwnedSince(served.began, now, Len(RelayDirs), self))'
  BY <1>4 DEF OwnedSince
<1> QED BY <1>3, <1>5 DEF OwnersInv

\* A job that goes on without asking for owners.
LEMMA JobKeepsOwners ==
    ASSUME ServerInv, OwnersInv, ServerInv', NEW j \in Job, NEW x, job' = [job EXCEPT ![j] = x],
           SameOwner(job[j], x), UNCHANGED <<history, now, served>>
    PROVE  OwnersInv'
PROOF
<1>1. \A k \in Job : job'[k] = IF k = j THEN x ELSE job[k]
  BY DEF ServerInv
<1>2. \A k \in Job : SameOwner(job[k], job[k])
  BY DEF SameOwner
<1>3. now' >= now
  BY DEF ServerInv
<1> QED BY <1>1, <1>2, <1>3, SameOwnersStay

\* A job that has read of one owner more.
LEMMA JobOwns ==
    ASSUME ServerInv, OwnersInv, NEW j \in Job, NEW x, job' = [job EXCEPT ![j] = x],
           OwnsBy(x, now), UNCHANGED <<history, now, served>>
    PROVE  OwnersInv'
PROOF
<1>1. \A k \in Job : job'[k] = IF k = j THEN x ELSE job[k]
  BY DEF ServerInv
<1>2. \A k \in Job : OwnsBy(job'[k], now)
  BY <1>1 DEF OwnersInv
<1>3. \A k \in Job : OwnsBy(job[k], now)'
  BY <1>2 DEF OwnsBy, OwnedSince, Told
<1>4. (served # None => \E self : OwnedSince(served.began, now, Len(RelayDirs), self))'
  BY DEF OwnersInv, OwnedSince
<1> QED BY <1>3, <1>4 DEF OwnersInv

\* The next relay archive has the owner of those before it.
LEMMA OneMoreOwned ==
    ASSUME ServerInv, NEW j \in Job, Placed(job[j]), OwnsBy(job[j], now), job[j].pc = "conversations",
           Cardinality(Disk.relay[RelayDir(j)].me \cap Number) = 1,
           job[j].self \in (Disk.relay[RelayDir(j)].me \cap Number) \cup {None},
           NEW x, x.self = CHOOSE m \in Disk.relay[RelayDir(j)].me \cap Number : TRUE,
           x.began = job[j].began,
           \/ job[j].at < Len(RelayDirs) /\ x.pc = "verifyRelay" /\ x.at = job[j].at + 1
           \/ ~ (job[j].at < Len(RelayDirs)) /\ x.pc = "relayMessages" /\ x.at = 1
    PROVE  OwnsBy(x, now)
PROOF
<1> DEFINE y == job[j]
           n == y.at
           mine == Disk.relay[RelayDirs[n]].me \cap Number
           owner == CHOOSE m \in mine : TRUE
<1>1. n \in 1 .. Len(RelayDirs) /\ Len(RelayDirs) \in Nat \ {0}
  BY Directories DEF Placed
<1>2. Told(y) = n - 1 /\ Told(x) = n
  BY <1>1 DEF Told
<1>3. y.began \in 1 .. now /\ now \in 1 .. Len(history) /\ history \in Histories /\ x.began = y.began
  BY DEF ServerInv, Reading
<1>4. now \in y.began .. now
  BY <1>3
<1>5. IsFiniteSet(mine)
  <2>1. RelayDirs[n] \in ToSet(Relays)
    BY <1>1, Directories
  <2>2. IsFiniteSet(history[now].relay[RelayDirs[n]].me)
    BY <1>3, <2>1, HistoriesAssumption, Zenon
  <2>3. IsFiniteSet(Disk.relay[RelayDirs[n]].me)
    BY <2>2 DEF Disk
  <2>4. mine \in SUBSET Disk.relay[RelayDirs[n]].me
    OBVIOUS
  <2> HIDE DEF mine
  <2> QED BY <2>3, <2>4, FS_Subset
<1>6. Cardinality(mine) = 1 /\ y.self \in mine \cup {None} /\ x.self = owner
  BY DEF RelayDir
<1>7. mine = {owner} /\ owner \in Number
  <2>1. \E m : mine = {m}
    BY <1>5, <1>6, FS_Singleton
  <2> HIDE DEF mine
  <2>2. mine \subseteq Number
    BY DEF mine
  <2> QED BY <2>1, <2>2
<1>8. ASSUME NEW i \in 1 .. n
      PROVE  \E k \in y.began .. now : history[k].relay[RelayDirs[i]].me \cap Number = {owner}
  <2>1. CASE i = n
    BY <1>4, <1>7, <2>1 DEF Disk
  <2>2. CASE i # n
    <3>1. i \in 1 .. n - 1
      BY <1>1, <2>2
    <3>2. PICK k \in y.began .. now : history[k].relay[RelayDirs[i]].me \cap Number = {y.self}
      BY <1>2, <3>1 DEF OwnsBy, OwnedSince, Reading
    <3>3. y.self \in Number
      BY <3>2
    <3>4. y.self = owner
      <4> HIDE DEF mine, owner
      <4> QED BY <1>6, <1>7, <3>3, ServerAssumption
    <3> QED BY <3>2, <3>4
  <2> QED BY <2>1, <2>2
<1>9. OwnedSince(x.began, now, Told(x), x.self)
  <2> HIDE DEF owner, mine
  <2> QED BY <1>2, <1>3, <1>6, <1>8 DEF OwnedSince
<1> QED BY <1>9 DEF OwnsBy

\* A step of a refresh before its merge.
LEMMA ReadKeepsOwners ==
    ASSUME ServerInv, ViewInv, OwnersInv, ServerInv', NEW j \in Job, Read(j)
    PROVE  OwnersInv'
PROOF
<1> USE DEF Reading
<1>1. JobShape(job[j]) /\ Placed(job[j]) /\ OwnsBy(job[j], now)
  BY DEF ServerInv, ViewInv, JobReads, ReadsIn, OwnersInv
<1>2. ASSUME NEW x, Continue(j, x), SameOwner(job[j], x) PROVE OwnersInv'
  BY <1>2, JobKeepsOwners DEF Continue
<1>3. ASSUME Fail(j) PROVE OwnersInv'
  <2> DEFINE x == [Idle EXCEPT !.pc = "failed"]
  <2>1. x.pc = "failed"
    BY DEF Idle
  <2>2. job' = [job EXCEPT ![j] = x] /\ UNCHANGED <<history, now, served>>
    BY <1>3 DEF Fail, End
  <2> HIDE DEF x
  <2>3. SameOwner(job[j], x)
    BY <2>1 DEF SameOwner
  <2> QED BY <2>2, <2>3, JobKeepsOwners
<1>4. CASE VerifyRelay(j)
  <2> DEFINE x == [job[j] EXCEPT !.pc = "conversations"]
  <2>1. job[j].pc = "verifyRelay" /\ (Fail(j) \/ Continue(j, x))
    BY <1>4 DEF VerifyRelay
  <2>2. x.pc = "conversations" /\ x.at = job[j].at /\ x.began = job[j].began /\ x.self = job[j].self
    BY <1>1 DEF JobShape, Fields
  <2> HIDE DEF x
  <2>3. SameOwner(job[j], x)
    BY <2>1, <2>2 DEF SameOwner, Told
  <2> QED BY <1>2, <1>3, <2>1, <2>3
<1>5. CASE LoadConversations(j)
  <2> DEFINE a == Disk.relay[RelayDir(j)]
             mine == a.me \cap Number
             owner == CHOOSE n \in mine : TRUE
             more == Append(job[j].people, a.people)
             y == [job[j] EXCEPT !.self = owner, !.people = more]
  <2>1. /\ job[j].pc = "conversations"
        /\ \/ Fail(j)
           \/ /\ Cardinality(mine) = 1 /\ job[j].self \in mine \cup {None}
              /\ Proceed(j, RelayDirs, "verifyRelay", "relayMessages", y)
    BY <1>5 DEF LoadConversations
  <2>2. JobShape(y) /\ y.at = job[j].at /\ y.self = owner /\ y.began = job[j].began
    <3> HIDE DEF owner, more
    <3> QED BY <1>1, <2>1 DEF JobShape, Fields
  <2> HIDE DEF y
  <2>3. ASSUME Cardinality(mine) = 1, job[j].self \in mine \cup {None},
               Proceed(j, RelayDirs, "verifyRelay", "relayMessages", y)
        PROVE  OwnersInv'
    <3>1. PICK x : ProceedsTo(j, RelayDirs, "verifyRelay", "relayMessages", y, x)
      BY <2>2, <2>3, ProceedTo
    <3>2. x.self = owner /\ x.began = job[j].began
      BY <2>2, <3>1 DEF ProceedsTo
    <3>3. OwnsBy(x, now)
      BY <1>1, <2>1, <2>3, <3>1, <3>2, OneMoreOwned, Zenon DEF ProceedsTo
    <3>4. job' = [job EXCEPT ![j] = x] /\ UNCHANGED <<history, now, served>>
      BY <3>1 DEF ProceedsTo, Continue
    <3> QED BY <3>3, <3>4, JobOwns
  <2> QED BY <1>3, <2>1, <2>3
<1>6. CASE LoadRelayMessages(j)
  <2> DEFINE all == job[j].loaded \cup RelayRecords(RelayDir(j), Disk.relay[RelayDir(j)],
                                                    job[j].people[job[j].at], job[j].self)
             y == [job[j] EXCEPT !.loaded = all]
  <2>1. /\ job[j].pc = "relayMessages"
        /\ Fail(j) \/ Proceed(j, RelayDirs, "relayMessages", "verifyTelephony", y)
    BY <1>6 DEF LoadRelayMessages
  <2>2. JobShape(y) /\ y.at = job[j].at /\ y.self = job[j].self /\ y.began = job[j].began
    <3> HIDE DEF all
    <3> QED BY <1>1, <2>1 DEF JobShape, Fields
  <2> HIDE DEF y
  <2>3. ASSUME Proceed(j, RelayDirs, "relayMessages", "verifyTelephony", y) PROVE OwnersInv'
    <3>1. PICK x : ProceedsTo(j, RelayDirs, "relayMessages", "verifyTelephony", y, x)
      BY <2>2, <2>3, ProceedTo
    <3>2. SameOwner(job[j], x) /\ Continue(j, x)
      BY <2>1, <2>2, <3>1 DEF ProceedsTo, SameOwner, Told
    <3> QED BY <1>2, <3>2
  <2> QED BY <1>3, <2>1, <2>3
<1>7. CASE VerifyTelephony(j)
  <2> DEFINE x == [job[j] EXCEPT !.pc = "rows"]
  <2>1. job[j].pc = "verifyTelephony" /\ (Fail(j) \/ Continue(j, x))
    BY <1>7 DEF VerifyTelephony
  <2>2. x.pc = "rows" /\ x.began = job[j].began /\ x.self = job[j].self
    BY <1>1 DEF JobShape, Fields
  <2> HIDE DEF x
  <2>3. SameOwner(job[j], x)
    BY <2>1, <2>2 DEF SameOwner, Told
  <2> QED BY <1>2, <1>3, <2>1, <2>3
<1>8. CASE LoadTelephonyMessages(j)
  <2> DEFINE all == job[j].loaded \cup TelephonyRecords(TelephonyDir(j),
                                           Disk.telephony[TelephonyDir(j)], job[j].self)
             y == [job[j] EXCEPT !.loaded = all]
  <2>1. job[j].pc = "rows" /\ Proceed(j, TelephonyDirs, "verifyTelephony", "swap", y)
    BY <1>8 DEF LoadTelephonyMessages
  <2>2. JobShape(y) /\ y.at = job[j].at /\ y.self = job[j].self /\ y.began = job[j].began
    <3> HIDE DEF all
    <3> QED BY <1>1, <2>1 DEF JobShape, Fields
  <2> HIDE DEF y
  <2>3. PICK x : ProceedsTo(j, TelephonyDirs, "verifyTelephony", "swap", y, x)
    BY <2>1, <2>2, ProceedTo
  <2>4. SameOwner(job[j], x) /\ Continue(j, x)
    BY <2>1, <2>2, <2>3 DEF ProceedsTo, SameOwner, Told
  <2> QED BY <1>2, <2>4
<1>9. CASE LoadFails(j)
  BY <1>3, <1>9 DEF LoadFails
<1> QED BY <1>4, <1>5, <1>6, <1>7, <1>8, <1>9 DEF Read

\* The view that a refresh leaves is of the owner it found.
LEMMA SwapKeepsOwners == ASSUME ServerInv, OwnersInv, NEW j \in Job, Swap(j) PROVE OwnersInv'
PROOF
<1> DEFINE y == job[j]
<1>1. /\ y.pc = "swap" /\ UNCHANGED <<history, now>> /\ served'.began = y.began
      /\ IF j = Startup THEN End(j, "ok")
         ELSE job' = [job EXCEPT ![j].pc = "metadata"] /\ UNCHANGED lock
  BY DEF Swap
<1>2. PICK x : job' = [job EXCEPT ![j] = x] /\ x.pc \in {"ok", "metadata"}
  <2>1. [Idle EXCEPT !.pc = "ok"].pc = "ok" /\ [y EXCEPT !.pc = "metadata"].pc = "metadata"
    BY DEF Idle, ServerInv, JobShape, Fields
  <2>2. \/ job' = [job EXCEPT ![j] = [Idle EXCEPT !.pc = "ok"]]
        \/ job' = [job EXCEPT ![j] = [y EXCEPT !.pc = "metadata"]]
    BY <1>1 DEF End
  <2> QED BY <2>1, <2>2
<1>3. \A k \in Job : job'[k] = IF k = j THEN x ELSE job[k]
  BY <1>2 DEF ServerInv
<1>4. \A k \in Job : OwnsBy(job[k], now)'
  BY <1>1, <1>2, <1>3 DEF OwnersInv, OwnsBy, OwnedSince, Reading, Told
<1>5. OwnedSince(y.began, now, Len(RelayDirs), y.self)
  BY <1>1 DEF OwnersInv, OwnsBy, Told
<1>6. (\E self : OwnedSince(served.began, now, Len(RelayDirs), self))'
  BY <1>1, <1>5 DEF OwnedSince
<1> QED BY <1>4, <1>6 DEF OwnersInv

\* Other steps tell nothing of owners.
LEMMA OthersKeepOwners ==
    ASSUME ServerInv, ViewInv, OwnersInv, ServerInv',
           \/ Export
           \/ \E j \in Request : Sync(j)
           \/ \E j \in Job : ExportedAtFails(j)
    PROVE  OwnersInv'
PROOF
<1>1. now \in Int /\ now' \in Int
  BY DEF ServerInv
<1>2. ASSUME NEW j \in Job, NEW x, job' = [job EXCEPT ![j] = x], UNCHANGED <<history, now, served>>,
             x.pc \in Over \cup {"command"}
      PROVE  OwnersInv'
  <2>1. SameOwner(job[j], x)
    BY <1>2 DEF SameOwner, Over, Reading
  <2> QED BY <1>2, <2>1, JobKeepsOwners
<1>3. ASSUME NEW j \in Job, NEW result \in {"ok", "failed"}, End(j, result), UNCHANGED <<history, now, served>>
      PROVE  OwnersInv'
  <2>1. [Idle EXCEPT !.pc = result].pc = result
    BY DEF Idle
  <2> QED BY <1>2, <1>3, <2>1 DEF End, Over
<1>4. \A k \in Job : /\ SameOwner(job[k], job[k])
                     /\ SameOwner(job[k], Torn(job)[k])
  BY TornKeeps DEF SameOwner, Kept, Told
<1>5. CASE Export
  <2>1. job' = Torn(job) /\ UNCHANGED <<history, served>> /\ now' >= now
    BY <1>1, <1>5 DEF Export, Exported
  <2> QED BY <1>4, <2>1, SameOwnersStay
<1>6. ASSUME NEW j \in Request, Command(j) PROVE OwnersInv'
  <2> DEFINE jobs == IF now' = now THEN job ELSE Torn(job)
             x == [jobs[j] EXCEPT !.pc = "verifyRelay", !.began = now', !.due = now']
  <2>1. UNCHANGED <<history, served>> /\ now' >= now /\ job[j].pc = "command"
    BY <1>1, <1>6 DEF Command, Exported
  <2>2. job' = [jobs EXCEPT ![j] = x]
    BY <1>6 DEF Command
  <2>3. /\ jobs = [k \in Job |-> jobs[k]] /\ \A k \in Job : SameOwner(job[k], jobs[k])
        /\ JobShape(jobs[j]) /\ jobs[j].at = job[j].at
    <3>1. CASE now' = now
      BY <1>4, <3>1, Jobs DEF ServerInv
    <3>2. CASE now' # now
      BY <1>4, <3>2, TornKeeps, Jobs DEF Kept
    <3> QED BY <3>1, <3>2
  <2>4. job[j].at = 1
    BY <2>1, Jobs DEF ViewInv, JobReads, ReadsIn, Placed
  <2>5. x.pc = "verifyRelay" /\ x.at = 1
    BY <2>3, <2>4 DEF JobShape, Fields
  <2> HIDE DEF jobs, x
  <2>6. Told(x) = 0
    BY <2>5 DEF Told
  <2>7. \A k \in Job : job'[k] = IF k = j THEN x ELSE jobs[k]
    BY <2>2, <2>3
  <2>8. \A k \in Job : SameOwner(job[k], job'[k])
    BY <2>3, <2>6, <2>7 DEF SameOwner
  <2> QED BY <2>1, <2>8, SameOwnersStay
<1>7. ASSUME NEW j \in Request, Begin(j) PROVE OwnersInv'
  <2>1. PICK pc \in {"command", "conflict"} : job' = [job EXCEPT ![j].pc = pc]
    BY <1>7 DEF Begin
  <2> DEFINE x == [job[j] EXCEPT !.pc = pc]
  <2>2. job' = [job EXCEPT ![j] = x] /\ UNCHANGED <<history, now, served>>
    BY <1>7, <2>1 DEF Begin
  <2>3. x.pc = pc
    BY Jobs DEF ServerInv, JobShape, Fields
  <2> HIDE DEF x
  <2> QED BY <1>2, <2>2, <2>3, Jobs DEF Over
<1>8. ASSUME NEW j \in Request, CommandFails(j) \/ Metadata(j) PROVE OwnersInv'
  BY <1>3, <1>8, Jobs DEF CommandFails, Metadata, Fail
<1>9. ASSUME NEW j \in Job, ExportedAtFails(j) PROVE OwnersInv'
  BY <1>3, <1>9 DEF ExportedAtFails, Fail
<1> QED BY <1>5, <1>6, <1>7, <1>8, <1>9 DEF Sync

\* The owners of what is read and served.
THEOREM OwnersInvariant == Spec => []OwnersInv
PROOF
<1>1. Init => OwnersInv
  <2> SUFFICES ASSUME Init PROVE OwnersInv
    OBVIOUS
  <2> DEFINE first == [Idle EXCEPT !.pc = "verifyRelay", !.began = 1]
  <2>1. first.pc = "verifyRelay" /\ first.at = 1 /\ Idle.pc = "idle"
    BY DEF Idle
  <2> HIDE DEF first
  <2>2. \A j \in Job : job[j] \in {first, Idle}
    BY DEF Init, first
  <2>3. Told(first) = 0
    BY <2>1 DEF Told
  <2>4. OwnsBy(first, now) /\ OwnsBy(Idle, now)
    BY <2>1, <2>3 DEF OwnsBy, OwnedSince, Reading
  <2> QED BY <2>2, <2>4 DEF OwnersInv, Init
<1>2. ASSUME ServerInv, ViewInv, OwnersInv, ServerInv', [Next]_vars PROVE OwnersInv'
  <2>1. CASE UNCHANGED <<history, now, served, job>>
    BY <1>2, <2>1 DEF OwnersInv, OwnsBy, OwnedSince, Told
  <2>2. CASE Browse
    BY <2>1, <2>2 DEF Browse, OpenConversation, GetConversation, ListMessages, TurnBack
  <2>3. CASE UNCHANGED vars
    BY <2>1, <2>3 DEF vars
  <2>4. ASSUME NEW j \in Job, Refresh(j) PROVE OwnersInv'
    BY <1>2, <2>4, ReadKeepsOwners, SwapKeepsOwners, OthersKeepOwners DEF Refresh, Read
  <2> QED BY <1>2, <2>2, <2>3, <2>4, OthersKeepOwners DEF Next
<1> QED BY <1>1, <1>2, ServerInvariant, ViewInvariant, PTL DEF Spec

\* The relay archives of a view are of one owner, whatever was replaced while it
\* was read, and each archive of a view that nothing was replaced under verifies.
THEOREM OnlyOneOwnerIsServed == Spec => []ServedIsOfOneOwner
PROOF
<1>1. OwnersInv /\ ServerInv /\ ViewInv => ServedIsOfOneOwner
  <2> SUFFICES ASSUME OwnersInv, ServerInv, ViewInv PROVE ServedIsOfOneOwner
    OBVIOUS
  <2>1. ASSUME served # None
        PROVE  \E owner \in Number : \A d \in ToSet(Relays) : \E i \in served.began .. now :
                   history[i].relay[d].me \cap Number = {owner}
    <3>1. PICK self : OwnedSince(served.began, now, Len(RelayDirs), self)
      BY <2>1 DEF OwnersInv
    <3>2. \A d \in ToSet(Relays) : \E i \in served.began .. now :
              history[i].relay[d].me \cap Number = {self}
      <4> SUFFICES ASSUME NEW d \in ToSet(Relays)
                   PROVE  \E i \in served.began .. now : history[i].relay[d].me \cap Number = {self}
        OBVIOUS
      <4>1. PICK n \in 1 .. Len(RelayDirs) : RelayDirs[n] = d
        BY Directories
      <4> QED BY <3>1, <4>1 DEF OwnedSince
    <3>3. 1 \in 1 .. Len(RelayDirs)
      BY Directories
    <3>4. self \in Number
      BY <3>1, <3>3 DEF OwnedSince
    <3> QED BY <3>2, <3>4
  <2>2. ASSUME Quiet
        PROVE  LET disk == history[served.began] IN
               /\ \A d \in ToSet(Relays)      : disk.relay[d].verified
               /\ \A d \in ToSet(Telephonies) : disk.telephony[d].verified
    <3> DEFINE disk == history[served.began]
    <3>1. PICK owner : OwnedBy(disk, Len(RelayDirs), Len(TelephonyDirs), owner)
      BY <2>2 DEF ViewInv, ViewIsOf, Quiet
    <3> QED BY <3>1, Directories DEF OwnedBy
  <2> QED BY <2>1, <2>2 DEF ServedIsOfOneOwner
<1> QED BY <1>1, OwnersInvariant, ServerInvariant, ViewInvariant, PTL


-----------------------------------------------------------------------------
(* Pages.                                                                  *)

ClientKey == [ts : Int, id : AllSources]

Sorted(s) == \A i, k \in 1 .. Len(s) : i < k => Less(s[i], s[k])

\* The order of messages is one, since no two have one hash.
LEMMA LessOrders ==
    /\ \A k \in ClientKey : ~ Less(k, k)
    /\ \A k, l, m \in ClientKey : Less(k, l) /\ Less(l, m) => Less(k, m)
    /\ \A k, l \in ClientKey : k = l \/ Less(k, l) \/ Less(l, k)
PROOF
<1>1. \A k \in ClientKey : k.ts \in Int /\ k.id \in AllSources /\ HashOrder(k.id) \in Int
  BY HashAssumption DEF ClientKey
<1>2. \A k, l \in ClientKey : k.ts = l.ts /\ k.id = l.id => k = l
  BY DEF ClientKey
<1>3. \A k, l \in ClientKey : HashOrder(k.id) = HashOrder(l.id) => k.id = l.id
  BY <1>1, HashAssumption
<1> QED BY <1>1, <1>2, <1>3 DEF Less

\* The records of one set of messages, with the keys of the messages.
OneKeyEach(pairs) == \A p, q \in pairs : p[1] = q[1] => p = q

\* The keys of a conversation, in order; each record has one key, of a message
\* that is at one place.
LEMMA KeysAreSorted ==
    ASSUME NEW view, ViewIsOf(view), NEW c \in DOMAIN view.dataset
    PROVE  LET messages == view.dataset[c]
               ks == [i \in DOMAIN messages |-> Key(messages[i])]
               pairs == KeyedIn(view.dataset, c)
           IN  /\ ks \in Seq(ClientKey) /\ Sorted(ks)
               /\ DOMAIN messages = 1 .. Len(ks)
               /\ \A p \in pairs : p[2] \in ToSet(ks)
               /\ OneKeyEach(pairs)
               /\ \A p \in pairs : \A i \in 1 .. Len(ks) :
                     ks[i] = p[2] => p \in Sources(messages[i]) \X {ks[i]}
               /\ \A i \in 1 .. Len(ks) : Sources(messages[i]) \X {ks[i]} \subseteq pairs
PROOF
<1>1. PICK R : /\ FromArchives(R) /\ \A r \in R : r.sources[1] \in AllSources
               /\ \E convs : view.dataset = Dataset(convs, R)
  BY DEF ViewIsOf
<1> DEFINE ms == view.dataset[c]
           ks == [i \in DOMAIN ms |-> Key(ms[i])]
           pairs == KeyedIn(view.dataset, c)
<1>2. /\ ms \in Seq(MessagesOver(R))
      /\ \A i, k \in DOMAIN ms : i < k => Precedes(ms[i], ms[k])
      /\ \A i \in DOMAIN ms : \E r \in R : r.sources[1] = ms[i].sources[1]
      /\ \A i, k \in DOMAIN ms : Sources(ms[i]) \cap Sources(ms[k]) # {} => i = k
  BY <1>1, DatasetIsRight
<1> HIDE DEF ms
<1>3. DOMAIN ms = 1 .. Len(ms) /\ Len(ms) \in Nat
  BY <1>2
<1>4. ASSUME NEW i \in 1 .. Len(ms) PROVE Key(ms[i]) \in ClientKey
  <2>1. ms[i].sources[1] \in AllSources
    BY <1>1, <1>2, <1>3
  <2>2. ms[i].ts \in {r.ts : r \in R}
    <3> DEFINE T == {r.ts : r \in R}
               C == {r.conv : r \in R}
               M == {r.mine : r \in R}
               B == {r.body : r \in R}
               A == SUBSET UNION {r.attachments : r \in R}
               S == Seq({r.sources[1] : r \in R})
    <3>1. MessagesOver(R) = [conv : C, ts : T, mine : M, body : B, attachments : A, sources : S]
      BY DEF MessagesOver
    <3>2. ms[i] \in MessagesOver(R)
      BY <1>2, <1>3
    <3> HIDE DEF T, C, M, B, A, S
    <3>3. ms[i].ts \in T
      BY <3>1, <3>2
    <3> QED BY <3>3 DEF T
  <2>3. ms[i].ts \in Int
    BY <1>1, <2>2 DEF FromArchives
  <2> QED BY <2>1, <2>3 DEF Key, ClientKey
<1>5. ks \in Seq(ClientKey) /\ Len(ks) = Len(ms) /\ \A i \in 1 .. Len(ms) : ks[i] = Key(ms[i])
  <2>1. ks \in [1 .. Len(ms) -> ClientKey]
    BY <1>3, <1>4
  <2> QED BY <1>3, <2>1
<1>6. \A m, n : Precedes(m, n) => Less(Key(m), Key(n))
  BY DEF Precedes, Less, Key
<1>7. Sorted(ks)
  <2> HIDE DEF ks
  <2> QED BY <1>2, <1>3, <1>5, <1>6 DEF Sorted
<1>8. \A p : p \in pairs <=> \E i \in 1 .. Len(ks) : p \in Sources(ms[i]) \X {ks[i]}
  <2>1. pairs = UNION {Sources(m) \X {Key(m)} : m \in {ms[i] : i \in 1 .. Len(ms)}}
    BY <1>3 DEF KeyedIn, Keyed, ToSet, ms
  <2> HIDE DEF ks, pairs
  <2>2. \A i \in 1 .. Len(ks) : ks[i] = Key(ms[i])
    BY <1>5
  <2> QED BY <1>5, <2>1, <2>2
<1> HIDE DEF ks, pairs
<1>9. \A i, k \in 1 .. Len(ks) : ks[i] = ks[k] => i = k
  <2> SUFFICES ASSUME NEW i \in 1 .. Len(ks), NEW k \in 1 .. Len(ks), ks[i] = ks[k] PROVE i = k
    OBVIOUS
  <2>1. ks[i] \in ClientKey /\ ~ (i < k) /\ ~ (k < i)
    BY <1>5, <1>7, LessOrders DEF Sorted
  <2> QED BY <2>1, <1>5, <1>3
<1>10. \A p \in pairs : p[2] \in ToSet(ks)
  <2>1. DOMAIN ks = 1 .. Len(ks)
    BY <1>5
  <2> QED BY <1>8, <2>1 DEF ToSet
<1>11. OneKeyEach(pairs)
  <2> SUFFICES ASSUME NEW p \in pairs, NEW q \in pairs, p[1] = q[1] PROVE p = q
    BY DEF OneKeyEach
  <2>1. PICK i \in 1 .. Len(ks) : p \in Sources(ms[i]) \X {ks[i]}
    BY <1>8
  <2>2. PICK k \in 1 .. Len(ks) : q \in Sources(ms[k]) \X {ks[k]}
    BY <1>8
  <2>3. i = k
    BY <1>2, <1>3, <1>5, <2>1, <2>2
  <2> QED BY <2>1, <2>2, <2>3
<1>12. \A p \in pairs : \A i \in 1 .. Len(ks) : ks[i] = p[2] => p \in Sources(ms[i]) \X {ks[i]}
  BY <1>8, <1>9
<1>13. \A i \in 1 .. Len(ks) : Sources(ms[i]) \X {ks[i]} \subseteq pairs
  BY <1>8
<1> QED BY <1>3, <1>5, <1>7, <1>10, <1>11, <1>12, <1>13 DEF ms, ks, pairs

\* What sort.Search counts is a position.
LEMMA CountIsPosition ==
    ASSUME NEW n \in Nat, NEW S \in SUBSET (1 .. n), \A i \in S : \A k \in 1 .. n : k < i => k \in S
    PROVE  Cardinality(S) \in 0 .. n /\ S = 1 .. Cardinality(S)
PROOF
<1> DEFINE T == {i \in 1 .. n + 1 : i \notin S}
<1>1. T \in SUBSET Nat /\ T # {}
  <2>1. n + 1 \in T
    OBVIOUS
  <2> QED BY <2>1
<1>2. PICK x \in T : \A m \in T : x <= m
  <2> HIDE DEF T
  <2> QED BY <1>1, LeastOf
<1>3. x \in 1 .. n + 1 /\ x \notin S
  OBVIOUS
<1>4. \A i \in 1 .. x - 1 : i \in S
  <2> TAKE i \in 1 .. x - 1
  <2>1. i \in 1 .. n + 1 /\ i < x
    BY <1>3
  <2> QED BY <1>2, <2>1
<1>5. \A i \in S : i \in 1 .. x - 1
  <2> TAKE i \in S
  <2>1. i \in 1 .. n /\ ~ (x < i) /\ i # x
    BY <1>3
  <2> QED BY <1>3, <2>1
<1>6. S = 1 .. x - 1
  BY <1>4, <1>5
<1>7. Cardinality(1 .. x - 1) = x - 1
  BY <1>3, FS_Interval
<1> QED BY <1>3, <1>6, <1>7

\* A page of a sequence.
LEMMA PartOf ==
    ASSUME NEW K, NEW ks \in Seq(K), NEW a \in Nat \ {0}, NEW b \in Nat, a <= b + 1, b <= Len(ks)
    PROVE  LET part == SubSeq(ks, a, b) IN
           /\ part \in Seq(K) /\ Len(part) = b - a + 1
           /\ \A i \in 1 .. Len(part) : part[i] = ks[a + i - 1]
           /\ \A i \in a .. b : part[i - a + 1] = ks[i]
OBVIOUS

\* One sorted sequence after another.
LEMMA SortedTogether ==
    ASSUME NEW s \in Seq(ClientKey), NEW t \in Seq(ClientKey), Sorted(s), Sorted(t),
           \A i \in 1 .. Len(s) : \A k \in 1 .. Len(t) : Less(s[i], t[k])
    PROVE  /\ s \o t \in Seq(ClientKey) /\ Sorted(s \o t)
           /\ Len(s \o t) = Len(s) + Len(t)
           /\ \A i \in 1 .. Len(s) : (s \o t)[i] = s[i]
           /\ \A i \in 1 .. Len(t) : (s \o t)[Len(s) + i] = t[i]
PROOF
<1> DEFINE u == s \o t
<1>1. /\ u \in Seq(ClientKey) /\ Len(u) = Len(s) + Len(t)
      /\ \A i \in 1 .. Len(s) : u[i] = s[i]
      /\ \A i \in 1 .. Len(t) : u[Len(s) + i] = t[i]
      /\ Len(s) \in Nat /\ Len(t) \in Nat
  OBVIOUS
<1> HIDE DEF u
<1>2. \A i \in 1 .. Len(u) : i \in 1 .. Len(s) \/ \E k \in 1 .. Len(t) : i = Len(s) + k
  <2> TAKE i \in 1 .. Len(u)
  <2>1. i \in 1 .. Len(s) \/ (i - Len(s) \in 1 .. Len(t) /\ i = Len(s) + (i - Len(s)))
    BY <1>1
  <2> QED BY <2>1
<1>3. ASSUME NEW i \in 1 .. Len(u), NEW k \in 1 .. Len(u), i < k PROVE Less(u[i], u[k])
  <2>1. CASE i \in 1 .. Len(s) /\ k \in 1 .. Len(s)
    BY <1>1, <1>3, <2>1 DEF Sorted
  <2>2. CASE i \in 1 .. Len(s) /\ k \notin 1 .. Len(s)
    BY <1>1, <1>2, <2>2
  <2>3. CASE i \notin 1 .. Len(s)
    <3>1. PICK l \in 1 .. Len(t) : i = Len(s) + l
      BY <1>2, <2>3
    <3>2. k \notin 1 .. Len(s)
      BY <1>1, <1>3, <3>1
    <3>3. PICK m \in 1 .. Len(t) : k = Len(s) + m
      BY <1>2, <3>2
    <3>4. l < m
      BY <1>1, <1>3, <3>1, <3>3
    <3> QED BY <1>1, <3>1, <3>3, <3>4 DEF Sorted
  <2> QED BY <2>1, <2>2, <2>3
<1>4. Sorted(u)
  BY <1>3 DEF Sorted
<1> QED BY <1>1, <1>4 DEF u

\* Where a client that has gone through got continues, going to older messages
\* or to newer ones.
At(got, newer, cursor) ==
    IF got = <<>> THEN cursor = None ELSE cursor = IF newer THEN got[Len(got)] ELSE got[1]

\* What is ahead of it.
Ahead(got, newer, cursor, k) ==
    got = <<>> \/ (IF newer THEN Less(cursor, k) ELSE Less(k, cursor))

\* What a page does for it: got becomes more, it is at next, and whatever was
\* ahead is in the page or, unless this was the last one, still ahead.
Advances(ks, got, newer, cursor, part, more, next, last) ==
    /\ more \in Seq(ClientKey) /\ Sorted(more) /\ At(more, newer, next)
    /\ got # <<>> => more # <<>>
    /\ \A k \in ToSet(ks) :
          Ahead(got, newer, cursor, k) =>
              k \in ToSet(part) \/ (~ last /\ Ahead(more, newer, next, k))

\* The positions of a page.
IsPage(ks, page) ==
    /\ page.first \in Nat \ {0} /\ page.last \in Nat
    /\ page.first <= page.last + 1 /\ page.last <= Len(ks)

\* A sorted sequence and where it stands.
MayAdvance(ks, got, newer, cursor) ==
    /\ ks \in Seq(ClientKey) /\ Sorted(ks)
    /\ got \in Seq(ClientKey) /\ Sorted(got) /\ At(got, newer, cursor)

\* A page of older messages.
LEMMA OlderPage ==
    ASSUME NEW ks, NEW got, NEW cursor, MayAdvance(ks, got, FALSE, cursor)
    PROVE  LET page == PageBefore(ks, cursor)
               part == SubSeq(ks, page.first, page.last)
           IN  IsPage(ks, page) /\
               Advances(ks, got, FALSE, cursor, part, part \o got,
                        IF part = <<>> THEN cursor ELSE Head(part),
                        ~ (page.first > 1 /\ part # <<>>))
PROOF
<1> DEFINE page == PageBefore(ks, cursor)
           part == SubSeq(ks, page.first, page.last)
           more == part \o got
           next == IF part = <<>> THEN cursor ELSE Head(part)
           n == Len(ks)
           S == {i \in DOMAIN ks : Less(ks[i], cursor)}
           end == IF cursor = None THEN n ELSE Cardinality(S)
<1>1. /\ ks \in Seq(ClientKey) /\ Sorted(ks) /\ n \in Nat /\ DOMAIN ks = 1 .. n
      /\ got \in Seq(ClientKey) /\ Sorted(got) /\ Len(got) \in Nat
      /\ IF got = <<>> THEN cursor = None ELSE cursor = got[1]
  BY DEF MayAdvance, At
<1>2. got # <<>> => cursor \in ClientKey /\ cursor # None
  <2>1. got # <<>> => got[1] \in ClientKey
    BY <1>1
  <2>2. None \notin ClientKey
    BY ServerAssumption DEF ClientKey
  <2> QED BY <1>1, <2>1, <2>2
<1>3. /\ end \in 0 .. n
      /\ \A i \in 1 .. n : i \in 1 .. end <=> (got = <<>> \/ Less(ks[i], cursor))
  <2>1. CASE got = <<>>
    BY <1>1, <2>1
  <2>2. CASE got # <<>>
    <3>1. S \in SUBSET (1 .. n)
      BY <1>1
    <3>2. \A i \in S : \A k \in 1 .. n : k < i => k \in S
      <4> SUFFICES ASSUME NEW i \in S, NEW k \in 1 .. n, k < i PROVE Less(ks[k], cursor)
        BY <1>1
      <4>1. Less(ks[k], ks[i]) /\ Less(ks[i], cursor) /\ ks[k] \in ClientKey /\ ks[i] \in ClientKey
        BY <1>1 DEF Sorted
      <4> QED BY <1>2, <2>2, <4>1, LessOrders
    <3>3. \A i \in 1 .. n : i \in S <=> Less(ks[i], cursor)
      BY <1>1
    <3> HIDE DEF S
    <3>4. Cardinality(S) \in 0 .. n /\ S = 1 .. Cardinality(S)
      BY <1>1, <3>1, <3>2, CountIsPosition
    <3> QED BY <1>2, <2>2, <3>3, <3>4
  <2> QED BY <2>1, <2>2
<1> HIDE DEF S
<1>4. page.first = (IF end > Limit THEN end - Limit + 1 ELSE 1) /\ page.last = end
  BY DEF PageBefore, S
<1> DEFINE a == page.first
<1> HIDE DEF end, page
<1>5. a \in Nat \ {0} /\ a <= end + 1 /\ end <= n /\ (end > 0 => a <= end)
  BY <1>1, <1>3, <1>4, ServerAssumption
<1>6. /\ part \in Seq(ClientKey) /\ Len(part) = end - a + 1
      /\ \A i \in 1 .. Len(part) : part[i] = ks[a + i - 1]
      /\ \A i \in a .. end : part[i - a + 1] = ks[i]
  <2>1. end \in Nat
    BY <1>1, <1>3
  <2> HIDE DEF a, n
  <2>2. end <= Len(ks)
    BY <1>5 DEF n
  <2>3. LET p == SubSeq(ks, a, end) IN
           /\ p \in Seq(ClientKey) /\ Len(p) = end - a + 1
           /\ \A i \in 1 .. Len(p) : p[i] = ks[a + i - 1]
           /\ \A i \in a .. end : p[i - a + 1] = ks[i]
    BY <1>1, <1>5, <2>1, <2>2, PartOf
  <2>4. part = SubSeq(ks, a, end)
    BY <1>4 DEF a
  <2> HIDE DEF part
  <2> QED BY <2>3, <2>4
<1> HIDE DEF part, a
<1>7. \A i \in 1 .. Len(part) : a + i - 1 \in 1 .. n /\ a + i - 1 \in 1 .. end /\ part[i] \in ClientKey
  BY <1>1, <1>3, <1>5, <1>6
<1>8. Sorted(part)
  <2> SUFFICES ASSUME NEW i \in 1 .. Len(part), NEW k \in 1 .. Len(part), i < k PROVE Less(part[i], part[k])
    BY DEF Sorted
  <2>1. a + i - 1 < a + k - 1
    BY <1>5
  <2> QED BY <1>1, <1>6, <1>7, <2>1 DEF Sorted
<1>9. \A i \in 1 .. Len(part) : \A k \in 1 .. Len(got) : Less(part[i], got[k])
  <2> SUFFICES ASSUME NEW i \in 1 .. Len(part), NEW k \in 1 .. Len(got) PROVE Less(part[i], got[k])
    OBVIOUS
  <2>1. got # <<>> /\ cursor = got[1] /\ got[1] \in ClientKey /\ got[k] \in ClientKey
    BY <1>1
  <2>2. Less(part[i], cursor)
    BY <1>3, <1>6, <1>7, <2>1
  <2>3. k = 1 \/ Less(got[1], got[k])
    BY <1>1 DEF Sorted
  <2> QED BY <1>7, <2>1, <2>2, <2>3, LessOrders
<1>10. /\ more \in Seq(ClientKey) /\ Sorted(more)
       /\ Len(more) = Len(part) + Len(got)
       /\ \A i \in 1 .. Len(part) : more[i] = part[i]
       /\ \A i \in 1 .. Len(got) : more[Len(part) + i] = got[i]
  BY <1>1, <1>6, <1>8, <1>9, SortedTogether
<1> HIDE DEF more
<1>11. Len(part) \in Nat /\ DOMAIN more = 1 .. Len(more) /\ DOMAIN got = 1 .. Len(got)
       /\ (part = <<>> <=> Len(part) = 0)
  BY <1>1, <1>6, <1>10
<1>13. At(more, FALSE, next)
  <2>1. CASE part = <<>>
    <3>1. more = got
      BY <1>1, <2>1 DEF more
    <3> QED BY <1>1, <2>1, <3>1 DEF At
  <2>2. CASE part # <<>>
    <3>1. 1 \in 1 .. Len(part) /\ more[1] = part[1] /\ more # <<>> /\ Head(part) = part[1]
      BY <1>1, <1>6, <1>10, <1>11, <2>2
    <3> QED BY <2>2, <3>1 DEF At
  <2> QED BY <2>1, <2>2
<1>14. got # <<>> => more # <<>>
  BY <1>1, <1>10, <1>11
<1>15. ASSUME NEW k \in ToSet(ks), Ahead(got, FALSE, cursor, k)
       PROVE  k \in ToSet(part) \/ ((page.first > 1 /\ part # <<>>) /\ Ahead(more, FALSE, next, k))
  <2>1. PICK i \in 1 .. n : k = ks[i]
    BY <1>1 DEF ToSet
  <2>2. i \in 1 .. end
    BY <1>3, <1>15, <2>1 DEF Ahead
  <2>3. a <= end /\ part # <<>>
    BY <1>3, <1>5, <1>6, <1>11, <2>2
  <2>4. CASE a <= i
    <3>1. i - a + 1 \in 1 .. Len(part) /\ part[i - a + 1] = k
      BY <1>3, <1>5, <1>6, <2>1, <2>2, <2>4
    <3>2. DOMAIN part = 1 .. Len(part)
      BY <1>6
    <3> QED BY <3>1, <3>2 DEF ToSet
  <2>5. CASE i < a
    <3>1. a \in 1 .. n /\ Less(ks[i], ks[a])
      BY <1>1, <1>3, <1>5, <2>2, <2>3, <2>5 DEF Sorted
    <3>2. Head(part) = ks[a]
      <4>1. 1 \in 1 .. Len(part) /\ a + 1 - 1 = a
        BY <1>5, <1>6, <1>11, <2>3
      <4>2. Head(part) = part[1]
        BY <1>6, <2>3
      <4> QED BY <1>6, <4>1, <4>2
    <3>3. Less(k, next)
      BY <2>1, <2>3, <3>1, <3>2
    <3>4. a > 1
      BY <1>5, <2>2, <2>5
    <3> QED BY <2>3, <3>3, <3>4 DEF Ahead, a
  <2>6. a <= i \/ i < a
    BY <1>5
  <2> QED BY <2>4, <2>5, <2>6, Zenon
<1> HIDE DEF next
<1>16. Advances(ks, got, FALSE, cursor, part, more, next, ~ (page.first > 1 /\ part # <<>>))
  BY <1>10, <1>13, <1>14, <1>15 DEF Advances
<1>17. IsPage(ks, page)
  BY <1>1, <1>3, <1>4, <1>5 DEF IsPage, a, n
<1> QED BY <1>16, <1>17 DEF more, next, part, page

\* A page of newer messages.
LEMMA NewerPage ==
    ASSUME NEW ks, NEW got, NEW cursor, MayAdvance(ks, got, TRUE, cursor), got # <<>>
    PROVE  LET page == PageAfter(ks, cursor)
               part == SubSeq(ks, page.first, page.last)
           IN  IsPage(ks, page) /\
               Advances(ks, got, TRUE, cursor, part, got \o part,
                        IF part = <<>> THEN cursor ELSE Last(part),
                        ~ (page.last < Len(ks) /\ part # <<>>))
PROOF
<1> DEFINE page == PageAfter(ks, cursor)
           part == SubSeq(ks, page.first, page.last)
           more == got \o part
           next == IF part = <<>> THEN cursor ELSE Last(part)
           n == Len(ks)
           S == {i \in DOMAIN ks : ~ Less(cursor, ks[i])}
           start == Cardinality(S)
<1>1. /\ ks \in Seq(ClientKey) /\ Sorted(ks) /\ n \in Nat /\ DOMAIN ks = 1 .. n
      /\ got \in Seq(ClientKey) /\ Sorted(got) /\ Len(got) \in Nat \ {0}
      /\ cursor = got[Len(got)]
  BY DEF MayAdvance, At
<1>2. cursor \in ClientKey
  BY <1>1
<1>3. /\ start \in 0 .. n
      /\ \A i \in 1 .. n : i \in 1 .. start <=> ~ Less(cursor, ks[i])
  <2>1. S \in SUBSET (1 .. n)
    BY <1>1
  <2>2. \A i \in S : \A k \in 1 .. n : k < i => k \in S
    <3> SUFFICES ASSUME NEW i \in S, NEW k \in 1 .. n, k < i PROVE ~ Less(cursor, ks[k])
      BY <1>1
    <3>1. Less(ks[k], ks[i]) /\ ~ Less(cursor, ks[i]) /\ ks[k] \in ClientKey /\ ks[i] \in ClientKey
      BY <1>1 DEF Sorted
    <3> QED BY <1>2, <3>1, LessOrders
  <2>3. \A i \in 1 .. n : i \in S <=> ~ Less(cursor, ks[i])
    BY <1>1
  <2> HIDE DEF S
  <2>4. Cardinality(S) \in 0 .. n /\ S = 1 .. Cardinality(S)
    BY <1>1, <2>1, <2>2, CountIsPosition
  <2> QED BY <2>3, <2>4
<1>4. page.first = start + 1 /\ page.last = (IF start + Limit > n THEN n ELSE start + Limit)
  BY DEF PageAfter
<1> DEFINE a == page.first
           b == page.last
<1> HIDE DEF start, page
<1>5. /\ a \in Nat \ {0} /\ b \in Nat /\ a <= b + 1 /\ b <= n /\ a = start + 1
      /\ start < n => a <= b
  BY <1>1, <1>3, <1>4, ServerAssumption
<1>6. /\ part \in Seq(ClientKey) /\ Len(part) = b - a + 1
      /\ \A i \in 1 .. Len(part) : part[i] = ks[a + i - 1]
      /\ \A i \in a .. b : part[i - a + 1] = ks[i]
  <2> HIDE DEF a, b, n
  <2>2. b <= Len(ks)
    BY <1>5 DEF n
  <2>3. LET p == SubSeq(ks, a, b) IN
           /\ p \in Seq(ClientKey) /\ Len(p) = b - a + 1
           /\ \A i \in 1 .. Len(p) : p[i] = ks[a + i - 1]
           /\ \A i \in a .. b : p[i - a + 1] = ks[i]
    <3>1. ks \in Seq(ClientKey) /\ a \in Nat \ {0} /\ b \in Nat /\ a <= b + 1 /\ b <= Len(ks)
      BY <1>1, <1>5, <2>2
    <3> QED BY <3>1, PartOf
  <2>4. part = SubSeq(ks, a, b)
    BY DEF a, b
  <2> HIDE DEF part
  <2> QED BY <2>3, <2>4
<1> HIDE DEF part, a, b
<1>7. \A i \in 1 .. Len(part) : a + i - 1 \in 1 .. n /\ a + i - 1 > start /\ part[i] \in ClientKey
  BY <1>1, <1>3, <1>5, <1>6
<1>8. Sorted(part)
  <2> SUFFICES ASSUME NEW i \in 1 .. Len(part), NEW k \in 1 .. Len(part), i < k PROVE Less(part[i], part[k])
    BY DEF Sorted
  <2>1. a + i - 1 < a + k - 1
    BY <1>5
  <2> QED BY <1>1, <1>6, <1>7, <2>1 DEF Sorted
<1>9. \A i \in 1 .. Len(got) : \A k \in 1 .. Len(part) : Less(got[i], part[k])
  <2> SUFFICES ASSUME NEW i \in 1 .. Len(got), NEW k \in 1 .. Len(part) PROVE Less(got[i], part[k])
    OBVIOUS
  <2>1. got[i] \in ClientKey /\ Len(got) \in 1 .. Len(got)
    BY <1>1
  <2>2. Less(cursor, part[k])
    <3>1. a + k - 1 \in 1 .. n /\ ~ (a + k - 1 \in 1 .. start)
      BY <1>3, <1>7
    <3> QED BY <1>3, <1>6, <3>1
  <2>3. i = Len(got) \/ Less(got[i], cursor)
    BY <1>1, <2>1 DEF Sorted
  <2> QED BY <1>1, <1>2, <1>7, <2>1, <2>2, <2>3, LessOrders
<1>10. /\ more \in Seq(ClientKey) /\ Sorted(more)
       /\ Len(more) = Len(got) + Len(part)
       /\ \A i \in 1 .. Len(got) : more[i] = got[i]
       /\ \A i \in 1 .. Len(part) : more[Len(got) + i] = part[i]
  BY <1>1, <1>6, <1>8, <1>9, SortedTogether
<1> HIDE DEF more
<1>11. Len(part) \in Nat /\ DOMAIN more = 1 .. Len(more) /\ DOMAIN got = 1 .. Len(got)
       /\ (part = <<>> <=> Len(part) = 0)
  BY <1>1, <1>6, <1>10
<1>13. more # <<>>
  BY <1>1, <1>10, <1>11
<1>14. part # <<>> => Last(part) = ks[b] /\ b \in 1 .. n
  <2> SUFFICES ASSUME part # <<>> PROVE Last(part) = ks[b] /\ b \in 1 .. n
    OBVIOUS
  <2>1. Len(part) \in 1 .. Len(part) /\ a + Len(part) - 1 = b
    BY <1>5, <1>6, <1>11
  <2>2. Last(part) = part[Len(part)]
    BY DEF Last
  <2> QED BY <1>6, <1>7, <2>1, <2>2
<1>15. At(more, TRUE, next)
  <2>1. CASE part = <<>>
    <3>1. more = got
      BY <1>1, <2>1 DEF more
    <3> QED BY <1>1, <1>13, <2>1, <3>1 DEF At
  <2>2. CASE part # <<>>
    <3>1. Len(part) \in 1 .. Len(part) /\ more[Len(more)] = part[Len(part)] /\ Last(part) = part[Len(part)]
      BY <1>1, <1>6, <1>10, <1>11, <2>2 DEF Last
    <3> QED BY <1>13, <2>2, <3>1 DEF At
  <2> QED BY <2>1, <2>2
<1>16. ASSUME NEW k \in ToSet(ks), Ahead(got, TRUE, cursor, k)
       PROVE  k \in ToSet(part) \/ ((page.last < n /\ part # <<>>) /\ Ahead(more, TRUE, next, k))
  <2>1. PICK i \in 1 .. n : k = ks[i]
    BY <1>1 DEF ToSet
  <2>2. i > start
    <3>1. ~ (i \in 1 .. start)
      BY <1>3, <1>16, <2>1 DEF Ahead
    <3> QED BY <1>1, <1>3, <3>1
  <2>3. a <= b /\ a <= i /\ part # <<>>
    BY <1>1, <1>3, <1>5, <1>6, <1>11, <2>2
  <2>4. CASE i <= b
    <3>1. i - a + 1 \in 1 .. Len(part) /\ part[i - a + 1] = k
      BY <1>3, <1>5, <1>6, <2>1, <2>3, <2>4
    <3>2. DOMAIN part = 1 .. Len(part)
      BY <1>6
    <3> QED BY <3>1, <3>2 DEF ToSet
  <2>5. CASE b < i
    <3>1. Less(ks[b], ks[i])
      BY <1>1, <1>14, <2>3, <2>5 DEF Sorted
    <3>2. Less(next, k)
      BY <1>14, <2>1, <2>3, <3>1
    <3>3. b < n
      BY <1>1, <1>5, <2>5
    <3> QED BY <1>13, <2>3, <3>2, <3>3 DEF Ahead, b
  <2>6. i <= b \/ b < i
    BY <1>5
  <2> QED BY <2>4, <2>5, <2>6, Zenon
<1> HIDE DEF next
<1>17. Advances(ks, got, TRUE, cursor, part, more, next, ~ (page.last < n /\ part # <<>>))
  BY <1>10, <1>13, <1>15, <1>16 DEF Advances
<1>18. IsPage(ks, page)
  BY <1>5 DEF IsPage, a, b, n
<1> QED BY <1>17, <1>18 DEF more, next, part, page

\* What a page shows of the records of a conversation: those of its messages.
LEMMA PageShows ==
    ASSUME NEW view, ViewIsOf(view), NEW c \in DOMAIN view.dataset, NEW page,
           IsPage([i \in DOMAIN view.dataset[c] |-> Key(view.dataset[c][i])], page)
    PROVE  LET messages == view.dataset[c]
               ks == [i \in DOMAIN messages |-> Key(messages[i])]
               shown == Keyed(ToSet(SubSeq(messages, page.first, page.last)))
               pairs == KeyedIn(view.dataset, c)
           IN  /\ shown \subseteq pairs
               /\ \A p \in pairs : p[2] \in ToSet(SubSeq(ks, page.first, page.last)) => p \in shown
PROOF
<1> DEFINE ms == view.dataset[c]
           ks == [i \in DOMAIN ms |-> Key(ms[i])]
           a == page.first
           b == page.last
           part == SubSeq(ms, a, b)
           shown == Keyed(ToSet(part))
           pairs == KeyedIn(view.dataset, c)
<1>1. /\ ks \in Seq(ClientKey) /\ DOMAIN ms = 1 .. Len(ks)
      /\ \A p \in pairs : \A i \in 1 .. Len(ks) : ks[i] = p[2] => p \in Sources(ms[i]) \X {ks[i]}
      /\ \A i \in 1 .. Len(ks) : Sources(ms[i]) \X {ks[i]} \subseteq pairs
  BY KeysAreSorted
<1>2. \A i \in 1 .. Len(ks) : ks[i] = Key(ms[i])
  BY <1>1
<1>3. a \in Nat \ {0} /\ b \in Nat /\ a <= b + 1 /\ b <= Len(ks)
  BY DEF IsPage
<1> HIDE DEF a, b, pairs
<1>4. ms = [i \in 1 .. Len(ks) |-> ms[i]]
  <2>1. \E convs, R : FromArchives(R) /\ view.dataset = Dataset(convs, R)
    BY DEF ViewIsOf
  <2>2. \E R : ms \in Seq(MessagesOver(R))
    BY <2>1, DatasetIsRight
  <2> HIDE DEF ms, ks
  <2> QED BY <1>1, <2>2
<1>5. \A i \in a .. b : i \in 1 .. Len(ks)
  BY <1>1, <1>3
<1>6. ToSet(part) = {ms[i] : i \in a .. b}
  <2> DEFINE K == {ms[i] : i \in 1 .. Len(ks)}
             n == Len(ks)
  <2>1. ms \in Seq(K) /\ Len(ms) = n
    <3>1. ms \in [1 .. n -> K] /\ n \in Nat
      BY <1>1, <1>4
    <3> HIDE DEF ms, K, n, ks
    <3> QED BY <3>1
  <2>2. b <= Len(ms)
    BY <1>3, <2>1
  <2> HIDE DEF K, n, ms, ks
  <2>3. LET q == SubSeq(ms, a, b) IN
        /\ q \in Seq(K) /\ Len(q) = b - a + 1
        /\ \A i \in 1 .. Len(q) : q[i] = ms[a + i - 1]
        /\ \A i \in a .. b : q[i - a + 1] = ms[i]
    BY <1>3, <2>1, <2>2, PartOf
  <2> HIDE DEF part
  <2>4. /\ part \in Seq(K) /\ Len(part) = b - a + 1
        /\ \A i \in 1 .. Len(part) : part[i] = ms[a + i - 1]
        /\ \A i \in a .. b : part[i - a + 1] = ms[i]
    BY <2>3 DEF part
  <2>5. \A i \in 1 .. Len(part) : a + i - 1 \in a .. b
    BY <1>3, <2>4
  <2>6. \A i \in a .. b : i - a + 1 \in 1 .. Len(part)
    BY <1>3, <2>4
  <2>7. DOMAIN part = 1 .. Len(part)
    BY <2>4
  <2>8. ToSet(part) = {part[i] : i \in 1 .. Len(part)}
    BY <2>7 DEF ToSet
  <2>9. ASSUME NEW i \in 1 .. Len(part) PROVE part[i] \in {ms[k] : k \in a .. b}
    BY <2>4, <2>5
  <2>10. ASSUME NEW k \in a .. b PROVE ms[k] \in {part[i] : i \in 1 .. Len(part)}
    BY <2>4, <2>6
  <2> QED BY <2>8, <2>9, <2>10
<1>7. \A p : p \in shown <=> \E i \in a .. b : p \in Sources(ms[i]) \X {ks[i]}
  <2>1. \A p : p \in shown <=> \E m \in ToSet(part) : p \in Sources(m) \X {Key(m)}
    BY DEF Keyed
  <2> HIDE DEF ms, ks, part, shown
  <2> QED BY <1>2, <1>5, <1>6, <2>1
<1>8. \A k \in ToSet(SubSeq(ks, a, b)) : \E i \in a .. b : k = ks[i]
  <2> HIDE DEF ks
  <2>1. LET q == SubSeq(ks, a, b) IN
        /\ q \in Seq(ClientKey) /\ Len(q) = b - a + 1
        /\ \A i \in 1 .. Len(q) : q[i] = ks[a + i - 1]
    BY <1>1, <1>3, PartOf
  <2> DEFINE q == SubSeq(ks, a, b)
  <2>2. q \in Seq(ClientKey) /\ Len(q) = b - a + 1 /\ \A i \in 1 .. Len(q) : q[i] = ks[a + i - 1]
    BY <2>1
  <2> HIDE DEF q
  <2>3. \A i \in 1 .. Len(q) : a + i - 1 \in a .. b
    BY <1>3, <2>2
  <2>4. DOMAIN q = 1 .. Len(q)
    BY <2>2
  <2>5. \A k \in ToSet(q) : \E i \in a .. b : k = ks[i]
    BY <2>2, <2>3, <2>4 DEF ToSet
  <2> QED BY <2>5 DEF q
<1> HIDE DEF ms, ks, part, shown
<1>9. shown \subseteq pairs
  BY <1>1, <1>5, <1>7
<1>10. \A p \in pairs : p[2] \in ToSet(SubSeq(ks, a, b)) => p \in shown
  BY <1>1, <1>5, <1>7, <1>8
<1> QED BY <1>9, <1>10 DEF ms, ks, a, b, part, shown, pairs

\* No steady record has been shown in another message than its own.
Steady(steady, seen) == \A p \in steady, q \in seen : p[1] = q[1] => p = q

\* What makes PagesShowEachOnce inductive: a record that was there all along
\* has been shown or is still ahead.
WalkOf(w, view) ==
    /\ w.pc # "none" => ViewIsOf(view) /\ w.steady \subseteq KeyedIn(view.dataset, w.conv)
    /\ w.pc = "none" => w.steady = {}
    /\ w.got \in Seq(ClientKey) /\ Sorted(w.got)
    /\ w.newer \in BOOLEAN /\ (w.newer => w.got # <<>>)
    /\ At(w.got, w.newer, w.cursor)
    /\ Steady(w.steady, w.seen)
    /\ w.pc \in {"check", "list"} =>
          \A p \in w.steady : p \in w.seen \/ Ahead(w.got, w.newer, w.cursor, p[2])
    /\ w.pc \in {"oldest", "newest"} => w.steady \subseteq w.seen

WalkInv == WalkOf(walk, served)

WalkFields == {"pc", "conv", "newer", "cursor", "got", "seen", "steady"}

\* A client opens a conversation.
LEMMA OpenKeepsWalkInv == ASSUME ServerInv, ViewInv, NEW c, OpenConversation(c) PROVE WalkInv'
PROOF
<1> DEFINE ks == KeyedIn(served.dataset, c)
           w == [NoWalk EXCEPT !.pc = "check", !.conv = c, !.steady = ks]
<1>1. served # None /\ walk' = w /\ UNCHANGED <<history, served>>
  BY DEF OpenConversation
<1>2. DOMAIN NoWalk = WalkFields
  BY DEF NoWalk, WalkFields
<1>3. NoWalk.newer = FALSE /\ NoWalk.cursor = None /\ NoWalk.got = <<>> /\ NoWalk.seen = {}
  BY DEF NoWalk
<1> HIDE DEF ks
<1>4. /\ w.pc = "check" /\ w.conv = c /\ w.steady = ks /\ w.newer = FALSE /\ w.cursor = None
      /\ w.got = <<>> /\ w.seen = {}
  BY <1>2, <1>3 DEF WalkFields
<1> HIDE DEF w
<1>5. ViewIsOf(served)
  BY <1>1 DEF ViewInv
<1>6. <<>> \in Seq(ClientKey) /\ Sorted(<<>>) /\ At(<<>>, FALSE, None) /\ \A k : Ahead(<<>>, FALSE, None, k)
  BY DEF Sorted, At, Ahead
<1>7. WalkOf(w, served)
  BY <1>4, <1>5, <1>6 DEF WalkOf, Steady, ks
<1> QED BY <1>1, <1>7 DEF WalkInv, WalkOf, ViewIsOf

\* It looks whether the conversation is still there.
LEMMA GetKeepsWalkInv == ASSUME ServerInv, WalkInv, GetConversation PROVE WalkInv'
PROOF
<1>1. PICK pc \in {"list", "gone"} : walk' = [walk EXCEPT !.pc = pc]
  BY DEF GetConversation
<1> DEFINE w == [walk EXCEPT !.pc = pc]
<1>2. walk.pc = "check" /\ UNCHANGED <<history, served>> /\ walk' = w
  BY <1>1 DEF GetConversation
<1>3. /\ w.pc = pc /\ w.conv = walk.conv /\ w.steady = walk.steady /\ w.newer = walk.newer
      /\ w.cursor = walk.cursor /\ w.got = walk.got /\ w.seen = walk.seen
  BY DEF ServerInv
<1> HIDE DEF w
<1>4. WalkOf(w, served)
  BY <1>2, <1>3 DEF WalkInv, WalkOf
<1> QED BY <1>2, <1>4 DEF WalkInv, WalkOf, ViewIsOf

\* It has a page.
LEMMA ListKeepsWalkInv == ASSUME ServerInv, WalkInv, ListMessages PROVE WalkInv'
PROOF
<1>1. walk.pc = "list" /\ UNCHANGED <<history, served>> /\ ViewIsOf(served)
  BY DEF ListMessages, WalkInv, WalkOf
<1>2. DOMAIN walk = WalkFields
  BY DEF ServerInv, WalkFields
<1>3. CASE walk.conv \notin DOMAIN served.dataset
  <2> DEFINE w == [walk EXCEPT !.pc = "gone"]
  <2>1. walk' = w
    BY <1>3 DEF ListMessages
  <2>2. /\ w.pc = "gone" /\ w.conv = walk.conv /\ w.steady = walk.steady /\ w.newer = walk.newer
        /\ w.cursor = walk.cursor /\ w.got = walk.got /\ w.seen = walk.seen
    BY <1>2 DEF WalkFields
  <2> HIDE DEF w
  <2>3. WalkOf(w, served)
    BY <1>1, <2>2 DEF WalkInv, WalkOf
  <2> QED BY <1>1, <2>1, <2>3 DEF WalkInv, WalkOf, ViewIsOf
<1>4. CASE walk.conv \in DOMAIN served.dataset
  <2> DEFINE messages == served.dataset[walk.conv]
             ks   == [i \in DOMAIN messages |-> Key(messages[i])]
             page == IF walk.newer THEN PageAfter(ks, walk.cursor) ELSE PageBefore(ks, walk.cursor)
             part == SubSeq(ks, page.first, page.last)
             more == IF walk.newer THEN page.last < Len(ks) ELSE page.first > 1
             got  == IF walk.newer THEN walk.got \o part ELSE part \o walk.got
             shown == Keyed(ToSet(SubSeq(messages, page.first, page.last)))
             seen == walk.seen \cup shown
             next == IF part = <<>> THEN walk.cursor ELSE IF walk.newer THEN Last(part) ELSE Head(part)
             last == ~ (more /\ part # <<>>)
             pc   == IF more /\ part # <<>> THEN "check" ELSE IF walk.newer THEN "newest" ELSE "oldest"
             pairs == KeyedIn(served.dataset, walk.conv)
             w    == [walk EXCEPT !.got = got, !.seen = seen, !.cursor = next, !.pc = pc]
  <2>1. walk' = w
    BY <1>4 DEF ListMessages
  <2>2. /\ ks \in Seq(ClientKey) /\ Sorted(ks)
        /\ \A p \in pairs : p[2] \in ToSet(ks)
        /\ OneKeyEach(pairs)
    BY <1>1, <1>4, KeysAreSorted
  <2>11. IsPage(ks, page) => /\ shown \subseteq pairs
                             /\ \A p \in pairs : p[2] \in ToSet(part) => p \in shown
    <3> SUFFICES ASSUME IsPage(ks, page)
                 PROVE  /\ shown \subseteq pairs
                        /\ \A p \in pairs : p[2] \in ToSet(part) => p \in shown
      OBVIOUS
    <3> HIDE DEF page
    <3> QED BY <1>1, <1>4, PageShows
  <2> HIDE DEF ks
  <2>3. MayAdvance(ks, walk.got, walk.newer, walk.cursor) /\ walk.newer \in BOOLEAN
        /\ (walk.newer => walk.got # <<>>)
    BY <2>2 DEF MayAdvance, WalkInv, WalkOf
  <2>4. IsPage(ks, page) /\ Advances(ks, walk.got, walk.newer, walk.cursor, part, got, next, last)
    <3>1. CASE walk.newer = TRUE
      <4> DEFINE p == PageAfter(ks, walk.cursor)
                 q == SubSeq(ks, p.first, p.last)
      <4>1. /\ IsPage(ks, p)
            /\ Advances(ks, walk.got, TRUE, walk.cursor, q, walk.got \o q,
                     IF q = <<>> THEN walk.cursor ELSE Last(q), ~ (p.last < Len(ks) /\ q # <<>>))
        BY <2>3, <3>1, NewerPage
      <4> HIDE DEF p
      <4>2. page = p /\ part = q
        BY <3>1 DEF p
      <4> HIDE DEF page, part, q
      <4>3. got = walk.got \o q /\ next = (IF q = <<>> THEN walk.cursor ELSE Last(q))
            /\ last = ~ (p.last < Len(ks) /\ q # <<>>)
        BY <3>1, <4>2
      <4> HIDE DEF got, next, last
      <4> QED BY <3>1, <4>1, <4>2, <4>3
    <3>2. CASE walk.newer = FALSE
      <4> DEFINE p == PageBefore(ks, walk.cursor)
                 q == SubSeq(ks, p.first, p.last)
      <4>1. /\ IsPage(ks, p)
            /\ Advances(ks, walk.got, FALSE, walk.cursor, q, q \o walk.got,
                     IF q = <<>> THEN walk.cursor ELSE Head(q), ~ (p.first > 1 /\ q # <<>>))
        BY <2>3, <3>2, OlderPage
      <4> HIDE DEF p
      <4>2. page = p /\ part = q
        BY <3>2 DEF p
      <4> HIDE DEF page, part, q
      <4>3. got = q \o walk.got /\ next = (IF q = <<>> THEN walk.cursor ELSE Head(q))
            /\ last = ~ (p.first > 1 /\ q # <<>>)
        BY <3>2, <4>2
      <4> HIDE DEF got, next, last
      <4> QED BY <3>2, <4>1, <4>2, <4>3
    <3> QED BY <2>3, <3>1, <3>2
  <2>5. pc \in {"check", "newest", "oldest"} /\ (pc = "check" <=> ~ last)
    OBVIOUS
  <2> HIDE DEF page, more, next, last, pc
  <2>12. /\ shown \subseteq pairs
         /\ \A p \in pairs : p[2] \in ToSet(part) => p \in shown
    BY <2>4, <2>11
  <2> HIDE DEF part, got, shown, pairs
  <2>6. /\ w.pc = pc /\ w.conv = walk.conv /\ w.steady = walk.steady /\ w.newer = walk.newer
        /\ w.cursor = next /\ w.got = got /\ w.seen = seen
    <3> HIDE DEF seen
    <3> QED BY <1>2 DEF WalkFields
  <2> HIDE DEF w
  <2>7. /\ walk.steady \subseteq pairs
        /\ \A p \in walk.steady : p \in walk.seen \/ Ahead(walk.got, walk.newer, walk.cursor, p[2])
        /\ Steady(walk.steady, walk.seen)
    BY <1>1 DEF WalkInv, WalkOf, pairs
  <2>8. \A p \in walk.steady : p \in seen \/ (~ last /\ Ahead(got, walk.newer, next, p[2]))
    <3> SUFFICES ASSUME NEW p \in walk.steady, p \notin seen
                 PROVE  ~ last /\ Ahead(got, walk.newer, next, p[2])
      OBVIOUS
    <3>1. p \in pairs /\ p \notin walk.seen /\ p \notin shown
      BY <2>7
    <3>2. p[2] \in ToSet(ks) /\ p[2] \notin ToSet(part)
      BY <2>2, <2>12, <3>1
    <3>3. Ahead(walk.got, walk.newer, walk.cursor, p[2])
      BY <2>7, <3>1
    <3> QED BY <2>4, <3>2, <3>3 DEF Advances
  <2>13. Steady(walk.steady, seen)
    <3> SUFFICES ASSUME NEW p \in walk.steady, NEW q \in seen, p[1] = q[1] PROVE p = q
      BY DEF Steady
    <3>1. CASE q \in walk.seen
      BY <2>7, <3>1 DEF Steady
    <3>2. CASE q \in shown
      BY <2>2, <2>7, <2>12, <3>2 DEF OneKeyEach
    <3> QED BY <3>1, <3>2
  <2>9. got \in Seq(ClientKey) /\ Sorted(got) /\ At(got, walk.newer, next) /\ (walk.newer => got # <<>>)
    BY <2>3, <2>4 DEF Advances
  <2> HIDE DEF seen
  <2>10. WalkOf(w, served)
    BY <1>1, <2>3, <2>5, <2>6, <2>7, <2>8, <2>9, <2>13 DEF WalkOf, pairs
  <2> QED BY <1>1, <2>1, <2>10 DEF WalkInv, WalkOf, ViewIsOf
<1> QED BY <1>3, <1>4

\* It turns back from the oldest message.
LEMMA TurnBackKeepsWalkInv == ASSUME ServerInv, WalkInv, TurnBack PROVE WalkInv'
PROOF
<1> DEFINE h == Head(walk.got)
           steady == {p \in KeyedIn(served.dataset, walk.conv) : Less(h, p[2])}
           w == [walk EXCEPT !.pc = "check", !.newer = TRUE, !.got = <<h>>, !.cursor = h,
                             !.seen = {}, !.steady = steady]
<1>1. walk.pc = "oldest" /\ walk.got # <<>> /\ UNCHANGED <<history, served>> /\ walk' = w
  BY DEF TurnBack
<1>2. DOMAIN walk = WalkFields
  BY DEF ServerInv, WalkFields
<1>3. walk.got \in Seq(ClientKey) /\ ViewIsOf(served)
  BY <1>1 DEF WalkInv, WalkOf
<1>4. h \in ClientKey
  BY <1>1, <1>3
<1>5. steady \subseteq KeyedIn(served.dataset, walk.conv) /\ \A p \in steady : Less(h, p[2])
  OBVIOUS
<1> HIDE DEF h, steady
<1>6. /\ w.pc = "check" /\ w.conv = walk.conv /\ w.steady = steady /\ w.newer = TRUE
      /\ w.cursor = h /\ w.got = <<h>> /\ w.seen = {}
  BY <1>2 DEF WalkFields
<1> HIDE DEF w
<1>7. <<h>> \in Seq(ClientKey) /\ Sorted(<<h>>) /\ <<h>> # <<>> /\ At(<<h>>, TRUE, h)
  BY <1>4 DEF Sorted, At
<1>8. \A p \in steady : Ahead(<<h>>, TRUE, h, p[2])
  BY <1>5 DEF Ahead
<1>9. WalkOf(w, served)
  BY <1>3, <1>5, <1>6, <1>7, <1>8 DEF WalkOf, Steady
<1> QED BY <1>1, <1>9 DEF WalkInv, WalkOf, ViewIsOf

\* The view is replaced under it.
LEMMA SwapKeepsWalkInv == ASSUME ServerInv, ViewInv, WalkInv, NEW j \in Job, Swap(j) PROVE WalkInv'
PROOF
<1> DEFINE dataset == Dataset(RelayConversations(job[j].people, job[j].self), job[j].loaded)
           ks == KeyedIn(dataset, walk.conv)
           w == [walk EXCEPT !.steady = @ \cap ks]
<1>1. walk' = w /\ served'.dataset = dataset
  BY DEF Swap
<1>2. ViewIsOf(served)'
  BY SwapServes
<1>3. DOMAIN walk = WalkFields
  BY DEF ServerInv, WalkFields
<1> HIDE DEF ks
<1>4. /\ w.pc = walk.pc /\ w.conv = walk.conv /\ w.steady = walk.steady \cap ks /\ w.newer = walk.newer
      /\ w.cursor = walk.cursor /\ w.got = walk.got /\ w.seen = walk.seen
  BY <1>3 DEF WalkFields
<1> HIDE DEF w
<1>5. w.steady \subseteq KeyedIn(served'.dataset, w.conv) /\ w.steady \subseteq walk.steady
  BY <1>1, <1>4 DEF ks
<1>6. Steady(w.steady, w.seen)
  BY <1>4, <1>5 DEF WalkInv, WalkOf, Steady
<1> HIDE DEF dataset
<1> QED BY <1>1, <1>2, <1>4, <1>5, <1>6 DEF WalkInv, WalkOf

\* What a client has in hand is in order, and nothing of it was passed over.
THEOREM WalkInvariant == Spec => []WalkInv
PROOF
<1>1. Init => WalkInv
  <2> SUFFICES ASSUME Init PROVE WalkInv
    OBVIOUS
  <2>1. /\ walk.pc = "none" /\ walk.newer = FALSE /\ walk.cursor = None /\ walk.got = <<>>
        /\ walk.steady = {} /\ walk.seen = {}
    BY DEF Init, NoWalk
  <2>2. <<>> \in Seq(ClientKey) /\ Sorted(<<>>) /\ At(<<>>, FALSE, None)
    BY DEF Sorted, At
  <2> QED BY <2>1, <2>2 DEF WalkInv, WalkOf, Steady
<1>2. ASSUME ServerInv, ViewInv, WalkInv, [Next]_vars PROVE WalkInv'
  <2>1. CASE UNCHANGED <<history, served, walk>>
    BY <1>2, <2>1 DEF WalkInv, WalkOf, ViewIsOf
  <2>2. ASSUME NEW j \in Job, Read(j) PROVE WalkInv'
    BY <1>2, <2>1, <2>2, ReadingGoesOn DEF Fail, Continue
  <2>3. ASSUME NEW j \in Request, Sync(j) PROVE WalkInv'
    BY <2>1, <2>3 DEF Sync, Begin, Command, CommandFails, Metadata, Fail
  <2>4. CASE Export
    BY <2>1, <2>4 DEF Export
  <2>5. CASE Browse
    BY <1>2, <2>5, OpenKeepsWalkInv, GetKeepsWalkInv, ListKeepsWalkInv, TurnBackKeepsWalkInv DEF Browse
  <2>6. CASE UNCHANGED vars
    BY <2>1, <2>6 DEF vars
  <2>7. ASSUME NEW j \in Job, ExportedAtFails(j) PROVE WalkInv'
    BY <2>1, <2>7 DEF ExportedAtFails, Fail
  <2> QED BY <1>2, <2>2, <2>3, <2>4, <2>5, <2>6, <2>7, SwapKeepsWalkInv DEF Next, Refresh, Read
<1> QED BY <1>1, <1>2, ServerInvariant, ViewInvariant, PTL DEF Spec

\* Going through a conversation page by page shows its messages in order, and
\* each record once that its message, while views replace each other, keeps its
\* timestamp and its first record with.
THEOREM PagesAlwaysShowEachOnce == Spec => []PagesShowEachOnce
PROOF
<1>1. WalkInv => PagesShowEachOnce
  BY DEF WalkInv, WalkOf, Steady, PagesShowEachOnce, Sorted
<1> QED BY <1>1, WalkInvariant, PTL
=============================================================================
