--------------------------- MODULE UnifiedArchive ---------------------------
(***************************************************************************)
(* The conversation view over relay archives and Android Telephony         *)
(* archives (internal/unifiedarchive/unified.go): what a record becomes,   *)
(* which conversation it belongs to, and which records are one message.    *)
(*                                                                         *)
(* A body is a sequence of lines, taken up to what mergeKey takes it up    *)
(* to: line ends do not matter and no body is an empty one.  SHA-256 has   *)
(* no collisions: a conversation is known by its numbers, a message by its *)
(* first source, and HashOrder is the order of the hashes.  Names, labels  *)
(* and previews are left out.                                              *)
(***************************************************************************)
EXTENDS Integers, FiniteSets, Sequences, SequencesExt

CONSTANTS
    Number,          \* E.164 numbers; any other address is a short code or an email
    MergeWindow,     \* mergeWindowMS
    SecondsBelow,    \* MMS dates below it are in seconds
    PerSecond,       \* what they are multiplied by
    HashOrder(_)     \* a number for each source, in the order of unifiedMessageID

ASSUME WindowAssumption ==
    MergeWindow \in Nat /\ SecondsBelow \in Nat /\ PerSecond \in Nat \ {0}

\* A finite set as a sequence, by a relation that orders it.
InOrder(S, before) ==
    [i \in 1 .. Cardinality(S) |->
        CHOOSE x \in S : Cardinality({y \in S : <<y, x>> \in before}) = i - 1]

\* Platforms as mergeCrossSource orders them.
Relay     == 0
Telephony == 1

-----------------------------------------------------------------------------
(* Records.  A relay archive has the numbers of its owner, the people of   *)
(* each conversation and messages; a Telephony archive has rows.           *)

CanonicalNumbers(addresses, self) == (addresses \cap Number) \ {self}

\* A conversation is the set of its correspondents, or where it was found if
\* none has a number.
CanonicalConversationID(numbers, fallback) ==
    [numbers |-> numbers, origin |-> IF numbers = {} THEN fallback ELSE <<>>]

Source(platform, dir, type, id) ==
    [platform |-> platform, dir |-> dir, type |-> type, id |-> id]

RelayMessage(dir, people, m, self) ==
    [conv        |-> CanonicalConversationID(CanonicalNumbers(people[m.conv], self),
                                             <<Relay, dir, m.conv>>),
     ts          |-> m.ts,
     mine        |-> m.mine,
     body        |-> m.body,
     attachments |-> IF m.media THEN {<<Relay, m.id>>} ELSE {},
     sources     |-> <<Source(Relay, dir, "message", m.id)>>]

\* A row that has a message in it: an sms row needs an address.
HasMessage(row) == row.type = "sms" => row.addresses # {}

\* The provider counts SMS in milliseconds and MMS in seconds.
Date(row) == IF row.type = "mms" /\ row.date > 0 /\ row.date < SecondsBelow
             THEN row.date * PerSecond ELSE row.date

\* Parts in the order of their seq and _id: the text parts are the body, the
\* layout is dropped, the others are attachments.
PartsInOrder(parts) ==
    InOrder(parts, {pq \in parts \X parts :
                       \/ pq[1].seq < pq[2].seq
                       \/ pq[1].seq = pq[2].seq /\ pq[1].id < pq[2].id})

MmsBody(parts) ==
    LET texts == SelectSeq(PartsInOrder(parts), LAMBDA p : p.kind = "text")
    IN  [i \in 1 .. Len(texts) |-> texts[i].line]

MmsAttachments(parts) ==
    {<<Telephony, p.id>> : p \in {q \in parts : q.kind \notin {"text", "smil"}}}

\* Box 1 is the inbox.  An sms row has its text in line and no parts.
TelephonyMessage(dir, row, self) ==
    LET mms == row.type = "mms" IN
    [conv        |-> CanonicalConversationID(CanonicalNumbers(row.addresses, self),
                                             <<Telephony, dir, row.thread>>),
     ts          |-> Date(row),
     mine        |-> row.box # 1,
     body        |-> IF mms THEN MmsBody(row.parts) ELSE row.body,
     attachments |-> IF mms THEN MmsAttachments(row.parts) ELSE {},
     sources     |-> <<Source(Telephony, dir, row.type, row.id)>>]

-----------------------------------------------------------------------------
(* mergeCrossSource.                                                       *)

Precedes(m, n) ==
    \/ m.ts < n.ts
    \/ m.ts = n.ts /\ HashOrder(m.sources[1]) < HashOrder(n.sources[1])

\* Messages are distinct, so their set has one order.
SortMessages(messages) ==
    InOrder(messages, {mn \in messages \X messages : Precedes(mn[1], mn[2])})

MergeKey(m) == <<m.mine, m.body>>

Distance(m, ts) == IF m.ts < ts THEN ts - m.ts ELSE m.ts - ts

\* Mutant: the window has shrunk to nothing.
NoSkewMutant(merged, positions, ts) ==
    LET same == {p \in positions : merged[p].ts = ts}
    IN  IF Cardinality(same) = 1 THEN CHOOSE p \in same : TRUE ELSE 0

\* The one position in the window that is closest, or 0.
ClosestMatch(merged, positions, ts) ==
    LET near == {p \in positions : Distance(merged[p], ts) <= MergeWindow}
        best == {p \in near : \A q \in near : Distance(merged[p], ts) <= Distance(merged[q], ts)}
    IN  IF Cardinality(best) = 1 THEN CHOOSE p \in best : TRUE ELSE 0

\* One message of what were two records.
Joined(m, c) == [m EXCEPT !.sources     = @ \o c.sources,
                          !.attachments = @ \cup c.attachments]

\* Mutant: a message may be matched twice by one archive.
ReuseMutant(indexed, acc, c) ==
    LET same == {i \in 1 .. indexed : MergeKey(acc.merged[i]) = MergeKey(c)}
        p    == ClosestMatch(acc.merged, same, c.ts)
    IN  IF p = 0 THEN [acc EXCEPT !.merged = Append(@, c)]
        ELSE [acc EXCEPT !.merged[p] = Joined(@, c)]

\* The next message of an archive joins one of the messages indexed before this
\* archive that none of it has joined, or is added after them.
Take(indexed, acc, c) ==
    LET same == {i \in 1 .. indexed : MergeKey(acc.merged[i]) = MergeKey(c)}
        p    == ClosestMatch(acc.merged, same \ acc.used, c.ts)
    IN  IF p = 0 THEN [acc EXCEPT !.merged = Append(@, c)]
        ELSE [acc EXCEPT !.merged[p] = Joined(@, c), !.used = @ \cup {p}]

MergeGroup(merged, group) ==
    LET candidates == SortMessages(group)
        taken[i \in 0 .. Len(candidates)] ==
            IF i = 0 THEN [merged |-> merged, used |-> {}]
            ELSE Take(Len(merged), taken[i - 1], candidates[i])
    IN  taken[Len(candidates)].merged

Archive(m) == <<m.sources[1].platform, m.sources[1].dir>>

\* Relay archives come first, then by directory.
Archives(messages) ==
    LET all == {Archive(m) : m \in messages}
    IN  InOrder(all, {ab \in all \X all :
                         \/ ab[1][1] < ab[2][1]
                         \/ ab[1][1] = ab[2][1] /\ ab[1][2] < ab[2][2]})

MergeCrossSource(messages) ==
    LET keys == Archives(messages)
        merged[i \in 0 .. Len(keys)] ==
            IF i = 0 THEN <<>>
            ELSE MergeGroup(merged[i - 1], {m \in messages : Archive(m) = keys[i]})
    IN  SortMessages(ToSet(merged[Len(keys)]))

\* The builds of OpenMany: the conversations that relay archives list, with or
\* without messages, and those that messages began.
Dataset(convs, messages) ==
    [c \in convs \cup {m.conv : m \in messages} |->
        MergeCrossSource({m \in messages : m.conv = c})]

-----------------------------------------------------------------------------
(* What is promised of a dataset made of these messages, one per record.   *)

Sources(m) == ToSet(m.sources)

\* Two records that could be one message.
Alike(r, s) == /\ r.conv = s.conv /\ MergeKey(r) = MergeKey(s)
               /\ Distance(r, s.ts) <= MergeWindow

Entries(dataset) ==
    UNION {{<<c, i>> : i \in DOMAIN dataset[c]} : c \in DOMAIN dataset}

Entry(dataset, e) == dataset[e[1]][e[2]]

\* Every record is in one message of its conversation, and in no other.
EachRecordOnce(dataset, records) ==
    /\ \A r \in records : r.conv \in DOMAIN dataset
    /\ \A r \in records :
          Cardinality({e \in Entries(dataset) : r.sources[1] \in Sources(Entry(dataset, e))}) = 1
    /\ \A e \in Entries(dataset) :
          Len(Entry(dataset, e).sources) = Cardinality(Sources(Entry(dataset, e)))

\* The records of a message are of different archives, of the conversation, of
\* one direction and text, and within the window of the one it is dated by;
\* nothing attached to them is lost.
RecordsOfAMessageAgree(dataset, records) ==
    \A e \in Entries(dataset) :
        LET m   == Entry(dataset, e)
            all == {r \in records : r.sources[1] \in Sources(m)}
        IN  /\ \A r \in all : /\ r.conv = e[1] /\ MergeKey(r) = MergeKey(m)
                              /\ Distance(r, m.ts) <= MergeWindow
            /\ \A r, s \in all : Archive(r) = Archive(s) => r = s
            /\ m.attachments = UNION {r.attachments : r \in all}

\* Two records of different archives that no third could be mistaken for are
\* one message.
UnmistakablePairIsOne(dataset, records) ==
    \A r, s \in records :
        (/\ Archive(r) # Archive(s) /\ Alike(r, s)
         /\ \A t \in records \ {r, s} : ~Alike(t, r) /\ ~Alike(t, s))
        => \E e \in Entries(dataset) :
              {r.sources[1], s.sources[1]} \subseteq Sources(Entry(dataset, e))
=============================================================================
