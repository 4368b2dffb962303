--------------------------- MODULE MCRecordReview ---------------------------
(* Instances of RecordReviewHistory for TLC. A behaviour stays in one lane: *)
(* the operations that are looked at together.                              *)
EXTENDS RecordReviewHistory, TLC

TwoIds == {1, 2}

Set(n, v) == [name |-> n, value |-> v]

CONSTANTS good, poor, p1, p2, h1, h2, Lanes

\* The extraction finds a number, a subject or both.
SomeFinds       == {<<Set("go_number", good), Set("subject", good)>>, <<Set("subject", good)>>}
SomeCorrections == {Set("go_number", good), Set("go_number", poor), Set("subject", poor)}

\* A revision asks for two changes.
RevisedChanges == {<<Set("subject", poor), Set("budget", poor)>>}

Permuted == Permutations({h1, h2}) \cup Permutations({p1, p2})

VARIABLE lane

\* ids: the records there may be. names: the fields it is about. rows: how many rows corrections may
\* give a field. revs: the revisions there may be.
Lane(parsed, ids, names, rowsMax, revs, ops) ==
    [parsed |-> parsed, ids |-> ids, names |-> names, rows |-> rowsMax, revs |-> revs, ops |-> ops]

Desk == {"parse", "correct", "approve", "reject", "recompute"}

AllLanes == {
    Lane(FALSE, {1}, Names, MaxRows, {}, Desk),
    Lane(FALSE, {1, 2}, IdNames, 2, {}, {"parse", "correct"}),
    Lane(FALSE, {1, 2}, IdNames, 2, {}, {"parse", "recompute"}),
    Lane(TRUE, {1}, Names, MaxRows, {1, 2}, {"request", "submit", "approve_revision"}),
    Lane(TRUE, {1}, Names, MaxRows, {1}, {"request", "submit", "approve_revision", "reject_revision"})}

\* A record that was parsed, with its number and its identity, and approved.
Parsed ==
    /\ rec = [r \in Records |->
                IF r = 1 THEN [status |-> "approved", override |-> FALSE, version |-> 1,
                               id |-> [go |-> [n \in IdNames |-> good], own |-> FALSE]]
                ELSE Null]
    /\ lastRec = 1
    /\ rows = [r \in Records |-> [n \in Names |->
                IF r = 1 THEN <<[value |-> good, by |-> 0, from |-> Null]>> ELSE <<>>]]
    /\ rev = [v \in Revisions |-> Null] /\ lastRev = 0
    /\ call = [h \in Handlers |-> Idle]

MCInit ==
    /\ lane \in Lanes
    /\ IF lane.parsed THEN Parsed ELSE Init
    /\ tied = {}

Parsing == {h \in Busy : call[h].op = "parse"}
Requesting == {h \in Busy : call[h].op = "request"}
Correcting(r) == {h \in Busy : call[h].op = "correct" /\ call[h].rec = r}
Starts(h) == At(h, "idle") /\ h \in Busy'

MCNext ==
    /\ HistoryNext
    /\ UNCHANGED lane
    /\ \A h \in Handlers : Starts(h) =>
          /\ call'[h].op \in lane.ops
          /\ call'[h].op = "parse" => lastRec + Cardinality(Parsing') \in lane.ids
          /\ call'[h].op = "request" => lastRev + Cardinality(Requesting') \in lane.revs
          /\ call'[h].op = "correct" =>
                LET r == call'[h].rec
                    n == Head(call'[h].todo).name
                IN  n \in lane.names /\ Len(rows[r][n]) + Cardinality(Correcting(r)) < lane.rows

MCSpec == MCInit /\ [][MCNext]_<<historyVars, lane>>
=============================================================================
