------------------------- MODULE MCTelephonyExport --------------------------
(* A phone that changes under one export, and two exports of a phone that   *)
(* does not.                                                                *)
EXTENDS TelephonyExport, TLC

Row(id, thread)       == [id |-> id, thread |-> thread]
Part(id, mms, data)   == [id |-> id, mms |-> mms, data |-> data]

\* Two threads whose messages alternate, one MMS with two parts of the same
\* content and one without any.
Before == [sms |-> <<Row(1, 1), Row(2, 2), Row(3, 1)>>, mms |-> <<Row(1, 1)>>, addressed |-> {1, 2},
           parts |-> <<Part(1, 1, 7), Part(2, 1, 7), Part(3, 1, 0)>>, threads |-> <<1, 2>>]

\* An MMS arrives; the first one is deleted, and one of its parts stays behind.
Arrived == [Before EXCEPT !.mms = Append(@, Row(2, 3)), !.parts = Append(@, Part(4, 2, 8)),
                          !.threads = Append(@, 3)]
Deleted == [Arrived EXCEPT !.mms = <<Row(2, 3)>>, !.addressed = {2},
                           !.parts = <<Part(2, 1, 7), Part(4, 2, 8)>>]

NoThread == [Before EXCEPT !.sms = Append(@, Row(4, 0))]
NoPhone  == [sms |-> <<>>, mms |-> <<>>, addressed |-> {}, parts |-> <<>>, threads |-> <<>>]

MCHistories == {<<Before, Arrived, Deleted>>, <<NoThread>>, <<NoPhone>>}

\* An archive of an earlier day.
Earlier ==
    LET sent  == <<Record("metadata", 0, 0, 0, 0), Record("sms", 1, 1, 0, 0),
                   Record("summary", 0, 0, 0, 0)>>
        files == Metadata :> <<sent[1], sent[3]>> @@ ThreadFile(1) :> <<sent[2]>>
    IN  [sealed |-> TRUE, manifest |-> Manifest(files, Metadata :> 2 @@ ThreadFile(1) :> 1),
         files |-> files, by |-> 0, sent |-> sent, from |-> 1, until |-> 0, checked |-> TRUE]

MCOldArchives == {Earlier}

\* Competition is explored over the phone that holds nothing.
CompetitionThatMatters ==
    history = <<NoPhone>> \/ \A e \in Exporter : e = 1 \/ pc[e] = "idle"
=============================================================================
