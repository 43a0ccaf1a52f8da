-------------------------- MODULE MCUnifiedServer ---------------------------
(* Two relay and two Telephony archives of the phone of "me".              *)
EXTENDS UnifiedServer, TLC

Numbers == {"ann", "bob", "me", "you"}

\* An order of hashes that is not that of archives or records.
MCHashOrder(s) == 100 * ((7 * s.id) % 11) + 10 * s.dir + 2 * s.platform
                  + (IF s.type = "mms" THEN 1 ELSE 0)

RelayArchive(people, messages) ==
    [verified |-> TRUE, me |-> {"me"}, people |-> people, messages |-> messages]

TelephonyArchive(rows) == [verified |-> TRUE, rows |-> rows]

Text(id, conv, ts, body) ==
    [id |-> id, conv |-> conv, ts |-> ts, mine |-> FALSE, body |-> body, media |-> FALSE]

Sms(id, address, ts, box, body) ==
    [type |-> "sms", id |-> id, thread |-> 1, addresses |-> address, date |-> ts,
     box |-> box, body |-> body]

Mms(id, addresses, date, parts) ==
    [type |-> "mms", id |-> id, thread |-> 1, addresses |-> addresses, date |-> date,
     box |-> 1, parts |-> parts]

WithAnn == 1 :> {"ann", "me"}
NoRelay == RelayArchive(<<>>, {})
NoRows  == TelephonyArchive({})

\* Up to two records of one short text, at any times.
Times == {f \in UNION {[1 .. n -> 1 .. 5] : n \in 0 .. 2} :
             \A i, j \in DOMAIN f : i < j => f[i] <= f[j]}

Heard(f) == {Text(i, 1, f[i], <<"ok">>) : i \in DOMAIN f}
Kept(f)  == TelephonyArchive({Sms(i, {"ann"}, f[i], 1, <<"ok">>) : i \in DOMAIN f})

\* Every way in which three archives can have up to two of it each.
Coincidences ==
    {<<[relay     |-> <<RelayArchive(WithAnn, Heard(f)), NoRelay>>,
        telephony |-> <<Kept(g), Kept(h)>>]>> : f, g, h \in Times}

-----------------------------------------------------------------------------
(* Archives that grow, shrink, or do not go together.                      *)

Part(id, seq, kind, line) == [id |-> id, seq |-> seq, kind |-> kind, line |-> line]

\* Two lines, the later part first, with a picture and the layout.
Picture == {Part(1, 2, "text", "b"), Part(2, 1, "text", "a"),
            Part(3, 0, "smil", ""), Part(4, 0, "image", "")}

First  == Text(1, 1, 2, <<"ok">>)
Second == [Text(2, 1, 3, <<"ok">>) EXCEPT !.mine = TRUE]
Third  == [Text(3, 1, 9, <<"a", "b">>) EXCEPT !.media = TRUE]

Phone == TelephonyArchive({Sms(1, {"ann"}, 3, 1, <<"ok">>), Sms(2, {"ann"}, 3, 2, <<"ok">>),
                           Sms(3, {"short"}, 4, 1, <<"code">>), Sms(4, {}, 4, 3, <<"draft">>),
                           Mms(1, {"ann", "me"}, 4, Picture)})

\* The relay learns of what the phone has had all along, in two exports.
Catches ==
    LET at(messages) == [relay     |-> <<RelayArchive(WithAnn, messages), NoRelay>>,
                         telephony |-> <<Phone, NoRows>>]
    IN  <<at({First}), at({First, Second}), at({First, Second, Third})>>

\* A group, a note to self, and a conversation that goes; the other relay
\* archive has the same correspondent under another ID.
Goes ==
    LET at(convs, messages) ==
            [relay     |-> <<RelayArchive(convs, messages),
                             RelayArchive(5 :> {"ann"}, {Text(8, 5, 4, <<"ok">>)})>>,
             telephony |-> <<NoRows, NoRows>>]
        group == Text(4, 2, 1, <<"hi">>)
        note  == Text(5, 3, 2, <<"milk">>)
    IN  <<at(WithAnn @@ 2 :> {"ann", "bob"} @@ 3 :> {"me"}, {First, group, note}),
          at(WithAnn @@ 3 :> {"me"}, {First, note})>>

OtherOwner == <<[relay |-> <<RelayArchive(WithAnn, {First}), [NoRelay EXCEPT !.me = {"you"}]>>,
                 telephony |-> <<Phone, NoRows>>]>>
TwoOwners  == <<[relay |-> <<[NoRelay EXCEPT !.me = {"me", "you"}], NoRelay>>,
                 telephony |-> <<NoRows, NoRows>>]>>
Damaged(s) == <<s[1], [s[1] EXCEPT !.relay[2].verified = FALSE],
                [s[1] EXCEPT !.telephony[1].verified = FALSE]>>

MCHistories == Coincidences
               \cup {Catches, Goes, OtherOwner, TwoOwners, Damaged(Catches)}

GivenRelays      == <<1, 2, 1>>
GivenTelephonies == <<1, 1, 2>>

\* Syncs are explored where there is something to export.
SyncsThatMatter == Len(history) = 1 => \A j \in Request : job[j].pc = "idle"

Requests == Permutations(Request)
=============================================================================
