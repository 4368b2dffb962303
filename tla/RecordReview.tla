---------------------------- MODULE RecordReview ----------------------------
(***************************************************************************)
(* What people do with a record on the server: the corrections and         *)
(* decisions of review.py, the identity computed from its fields           *)
(* (go_identity.py) and the revisions of published records                 *)
(* (operations/republish.py), from the insertion of the record by          *)
(* extract_and_store on.                                                   *)
(*                                                                         *)
(* As in DocumentArchive an action is one SQL statement, or a read with    *)
(* the reads before it that only return columns nobody changes.            *)
(* Records are not deleted here; DocumentArchive deletes them.             *)
(***************************************************************************)
EXTENDS Naturals, Sequences, FiniteSets

CONSTANTS
    Records,    \* primary keys the table go_records may hand out
    Revisions,  \* primary keys the table go_record_revisions may hand out
    Names,      \* the fields that vary; the others are extracted once, are valid and stay
    Values,     \* what a field may say
    Parsable,   \* the values that parse as a number or a date
    Finds,      \* the lists of [name, value] extract_metadata may find in a document
    Corrections,  \* the [name, value] a reviewer may correct to
    Changes,    \* the lists of [name, value] a revision may ask for
    People,
    Handlers,   \* threads of the server
    MaxRows,    \* bound on the rows of one field
    Routes,     \* the operations in use
    Crashes,    \* whether the server may stop
    Null

CoreFields     == {"go_number", "go_date", "department", "subject"}
OptionalFields == {"budget", "district", "scheme_name"}
EditableFields == {"subject", "budget", "district", "scheme_name"}
IdentityFields == {"go_number", "go_date"}

Ops == {"parse", "correct", "approve", "reject", "recompute",
        "request", "submit", "approve_revision", "reject_revision"}

Change == [name : Names, value : Values]

ASSUME KeysAssumption == Records \subseteq Nat \ {0} /\ Revisions \subseteq Nat \ {0}
ASSUME NamesAssumption == Names \subseteq CoreFields \cup OptionalFields
ASSUME ValuesAssumption == Parsable \subseteq Values
ASSUME FindsAssumption ==
    /\ Finds \subseteq Seq(Change)
    /\ \A f \in Finds : \A i, j \in DOMAIN f : f[i].name = f[j].name => i = j
ASSUME ChangesAssumption ==
    /\ Corrections \subseteq Change
    /\ Changes \subseteq Seq(Change) \ {<<>>}
    /\ \A c \in Changes : \A i \in DOMAIN c : c[i].name \in EditableFields
ASSUME ReviewAssumption == MaxRows \in Nat /\ Crashes \in BOOLEAN /\ Routes \subseteq Ops

VARIABLES
    rec,      \* go_records: id -> its row, or Null
    lastRec,
    rows,     \* go_fields: record -> field -> its rows, in the order of their ids
    rev,      \* go_record_revisions: id -> its row, or Null
    lastRev,
    call      \* thread -> the call it is executing

reviewVars == <<rec, lastRec, rows, rev, lastRev, call>>

\* by is the row that superseded this one, 0 while it is live; from is the revision in
\* whose name it was written, which the audit trail keeps.
FieldRows == [value : Values, by : Nat, from : Revisions \cup {Null}]

\* canonical_go_id, and with it go_url_slug: the values it was made from; own says that the
\* record's own id was appended. Records of different departments never meet.
IdNames    == Names \cap IdentityFields
Identities == [go : [IdNames -> Parsable], own : BOOLEAN]

\* override: approved although fields were missing, which the audit trail keeps.
Recs == [status : {"pending", "approved", "rejected"}, override : BOOLEAN,
         version : Nat, id : Identities \cup {Null}]

Open == {"REVISION_DRAFT", "REVISION_PENDING_REVIEW"}

Revs == [rec : Records, version : Nat, status : Open \cup {"REPUBLISHED", "REJECTED"},
         by : People, changes : Changes]

ASSUME NullAssumption == Null \notin Recs \cup Revs \cup Identities \cup Values \cup Revisions

Calls == [op : Ops,
          pc : {"idle", "insert_record", "insert_fields", "field_read", "insert_row", "supersede",
                "id_read", "id_check", "id_write", "decide_read", "decide_write",
                "request_read", "request_write", "submit_read", "submit_write",
                "revision_read", "record_read", "version_write", "revision_write"},
          rec : Records \cup {Null}, rev : Revisions \cup {Null}, who : People \cup {Null},
          todo : Seq(Change), left : SUBSET Records, flag : BOOLEAN, old : Nat, new : Nat,
          id : Identities \cup {Null}]

Idle == [op |-> "parse", pc |-> "idle", rec |-> Null, rev |-> Null, who |-> Null, todo |-> <<>>,
         left |-> {}, flag |-> FALSE, old |-> 0, new |-> 0, id |-> Null]

Init ==
    /\ rec = [r \in Records |-> Null] /\ lastRec = 0
    /\ rows = [r \in Records |-> [n \in Names |-> <<>>]]
    /\ rev = [v \in Revisions |-> Null] /\ lastRev = 0
    /\ call = [h \in Handlers |-> Idle]

Live(r, n) == {k \in 1 .. Len(rows[r][n]) : rows[r][n][k].by = 0}

\* What a SELECT of the live value may return: any of them, NULL when there is none.
LiveValues(r, n) ==
    IF Live(r, n) = {} THEN {Null} ELSE {rows[r][n][k].value : k \in Live(r, n)}

Missing(r) == {n \in Names \cap CoreFields : Live(r, n) = {}}

Become(h, c) == call' = [call EXCEPT ![h] = c]
Goto(h, pc)  == Become(h, [call[h] EXCEPT !.pc = pc])
Done(h)      == Become(h, Idle)
At(h, pc)    == call[h].pc = pc

revisions == <<rev, lastRev>>
records   == <<rec, lastRec>>

-----------------------------------------------------------------------------
(* A call arrives on a free thread.                                        *)

Busy == {h \in Handlers : ~At(h, "idle")}

\* Bounds: a call that inserts arrives only while there is room for what it inserts.
RecordRoom   == lastRec + 1 + Cardinality({h \in Busy : call[h].op = "parse"}) \in Records
RevisionRoom == lastRev + 1 + Cardinality({h \in Busy : call[h].op = "request"}) \in Revisions
RowRoom(r, n) == Len(rows[r][n]) + Cardinality(Busy) < MaxRows

Arrive(h, c) ==
    /\ At(h, "idle")
    /\ c.op \in Routes
    /\ Become(h, c)
    /\ UNCHANGED <<records, rows, revisions>>

\* A document was extracted, with these fields.
ArriveParse(h, found) ==
    /\ RecordRoom
    /\ Arrive(h, [Idle EXCEPT !.op = "parse", !.pc = "insert_record", !.todo = found])

\* page: a source page was given with the correction.
ArriveCorrect(h, r, change, page) ==
    /\ rec[r] # Null /\ RowRoom(r, change.name)
    /\ Arrive(h, [Idle EXCEPT !.op = "correct", !.pc = "field_read", !.rec = r, !.todo = <<change>>,
                              !.flag = page])

\* override: approve although a core field is missing.
ArriveDecide(h, op, r, override) ==
    /\ rec[r] # Null
    /\ override => op = "approve"
    /\ Arrive(h, [Idle EXCEPT !.op = op, !.pc = "decide_read", !.rec = r, !.flag = override])

ArriveRequest(h, r, p, changes) ==
    /\ rec[r] # Null /\ RevisionRoom
    /\ Arrive(h, [Idle EXCEPT !.op = "request", !.pc = "request_read", !.rec = r, !.who = p,
                              !.todo = changes])

ArriveSubmit(h, v) ==
    /\ rev[v] # Null
    /\ Arrive(h, [Idle EXCEPT !.op = "submit", !.pc = "submit_read", !.rev = v])

ArriveRevision(h, op, v, p) ==
    /\ rev[v] # Null
    /\ op = "approve_revision" =>
          \A i \in DOMAIN rev[v].changes : RowRoom(rev[v].rec, rev[v].changes[i].name)
    /\ Arrive(h, [Idle EXCEPT !.op = op, !.pc = "revision_read", !.rev = v, !.who = p])

\* backfill_all and migrate_department_code: list records, then recompute one after the other.
Recompute(c, ids) ==
    IF ids = {} THEN Idle
    ELSE [c EXCEPT !.pc = "id_read", !.left = ids,
                   !.rec = CHOOSE r \in ids : \A q \in ids : r <= q]

ArriveRecompute(h, ids) ==
    /\ ids # {}
    /\ Arrive(h, Recompute([Idle EXCEPT !.op = "recompute"], ids))

-----------------------------------------------------------------------------
(* extract_and_store                                                       *)

InsertRecord(h) ==
    /\ At(h, "insert_record")
    /\ lastRec + 1 \in Records
    /\ lastRec' = lastRec + 1
    /\ rec' = [rec EXCEPT ![lastRec + 1] = [status |-> "pending", override |-> FALSE,
                                            version |-> 1, id |-> Null]]
    /\ Become(h, [call[h] EXCEPT !.rec = lastRec + 1,
                    !.pc = IF call[h].todo = <<>> THEN "id_read" ELSE "insert_fields"])
    /\ UNCHANGED <<rows, revisions>>

AppendRow(r, change, v) ==
    rows' = [rows EXCEPT ![r][change.name] =
               Append(@, [value |-> change.value, by |-> 0, from |-> v])]

\* One field after the other, then the identity.
InsertField(h) ==
    LET rest == Tail(call[h].todo)
    IN  /\ At(h, "insert_fields")
        /\ AppendRow(call[h].rec, Head(call[h].todo), Null)
        /\ Become(h, [call[h] EXCEPT !.todo = rest,
                        !.pc = IF rest = <<>> THEN "id_read" ELSE "insert_fields"])
        /\ UNCHANGED <<records, revisions>>

-----------------------------------------------------------------------------
(* correct_field, of a reviewer or in the loop of approve_revision         *)

\* Mutant of NextChange: one change and no more.
NextChangeNone(h, c) ==
    IF c.op = "correct" THEN Done(h)
    ELSE Become(h, [c EXCEPT !.todo = <<>>, !.old = 0, !.new = 0, !.pc = "version_write"])

\* The change is made, or was there already: the next one, or what follows the last.
NextChange(h, c) ==
    LET rest == Tail(c.todo)
    IN  IF c.op = "correct" THEN Done(h)
        ELSE Become(h, [c EXCEPT !.todo = rest, !.old = 0, !.new = 0,
                          !.pc = IF rest = <<>> THEN "version_write" ELSE "field_read"])

\* A field that was never extracted needs a page, which a revision does not have: its
\* approval ends with an error. The row read is any live one.
FieldRead(h) ==
    LET c      == call[h]
        change == Head(c.todo)
        live   == Live(c.rec, change.name)
    IN  /\ At(h, "field_read")
        /\ \/ live = {} /\ ~c.flag /\ Done(h)
           \/ live = {} /\ c.flag /\ Become(h, [c EXCEPT !.pc = "insert_row", !.old = 0])
           \/ \E k \in live :
                IF rows[c.rec][change.name][k].value = change.value
                  THEN NextChange(h, c)
                  ELSE Become(h, [c EXCEPT !.pc = "insert_row", !.old = k])
        /\ UNCHANGED <<records, rows, revisions>>

\* After a row the identity is computed again if the field is part of it.
AfterRow(h, c) ==
    IF Head(c.todo).name \in IdentityFields THEN Become(h, [c EXCEPT !.pc = "id_read", !.old = 0, !.new = 0])
    ELSE NextChange(h, c)

\* Mutant of InsertRow: the row corrected is written over.
InsertRowInPlace(h) ==
    LET c      == call[h]
        change == Head(c.todo)
    IN  /\ At(h, "insert_row")
        /\ IF c.old = 0 THEN AppendRow(c.rec, change, c.rev)
           ELSE rows' = [rows EXCEPT ![c.rec][change.name][c.old].value = change.value]
        /\ AfterRow(h, c)
        /\ UNCHANGED <<records, revisions>>

InsertRow(h) ==
    LET c      == call[h]
        change == Head(c.todo)
        row    == Len(rows[c.rec][change.name]) + 1
    IN  /\ At(h, "insert_row")
        /\ AppendRow(c.rec, change, c.rev)
        /\ IF c.old = 0 THEN AfterRow(h, c)
           ELSE Become(h, [c EXCEPT !.pc = "supersede", !.new = row])
        /\ UNCHANGED <<records, revisions>>

\* Mutant of Supersede: the two rows are swapped.
SupersedeNew(h) ==
    LET c == call[h]
    IN  /\ At(h, "supersede")
        /\ rows' = [rows EXCEPT ![c.rec][Head(c.todo).name][c.new].by = c.old]
        /\ AfterRow(h, c)
        /\ UNCHANGED <<records, revisions>>

\* The UPDATE does not look whether the row was superseded since.
Supersede(h) ==
    LET c == call[h]
    IN  /\ At(h, "supersede")
        /\ rows' = [rows EXCEPT ![c.rec][Head(c.todo).name][c.old].by = c.new]
        /\ AfterRow(h, c)
        /\ UNCHANGED <<records, revisions>>

-----------------------------------------------------------------------------
(* compute_identity                                                        *)

AfterIdentity(h, c) ==
    CASE c.op = "recompute" -> Become(h, Recompute(c, c.left \ {c.rec}))
      [] c.op = "parse"     -> Done(h)
      [] OTHER              -> NextChange(h, c)

IdRead(h) ==
    LET r == call[h].rec
    IN  /\ At(h, "id_read")
        /\ \E go \in [IdNames -> Values \cup {Null}] :
             /\ \A n \in IdNames : go[n] \in LiveValues(r, n)
             /\ IF \A n \in IdNames : go[n] \in Parsable
                  THEN Become(h, [call[h] EXCEPT !.pc = "id_check", !.id = [go |-> go, own |-> FALSE]])
                  ELSE Become(h, [call[h] EXCEPT !.pc = "id_write", !.id = Null])
        /\ UNCHANGED <<records, rows, revisions>>

\* Mutant of IdCheck: no other record is looked at.
IdCheckNever(h) ==
    /\ At(h, "id_check")
    /\ Goto(h, "id_write")
    /\ UNCHANGED <<records, rows, revisions>>

\* The identity of another record gets the record's own id appended.
IdCheck(h) ==
    LET c       == call[h]
        collide == \E r \in Records \ {c.rec} : rec[r] # Null /\ rec[r].id = c.id
    IN  /\ At(h, "id_check")
        /\ Become(h, [c EXCEPT !.pc = "id_write", !.id.own = collide])
        /\ UNCHANGED <<records, rows, revisions>>

IdWrite(h) ==
    LET c == call[h]
    IN  /\ At(h, "id_write")
        /\ rec' = [rec EXCEPT ![c.rec].id = c.id]
        /\ AfterIdentity(h, [c EXCEPT !.id = Null])
        /\ UNCHANGED <<lastRec, rows, revisions>>

-----------------------------------------------------------------------------
(* approve and reject; the routes for many records call them in a loop     *)

\* Mutant of DecideRead: what is missing is not looked at.
DecideReadAnyhow(h) ==
    /\ At(h, "decide_read")
    /\ Goto(h, "decide_write")
    /\ UNCHANGED <<records, rows, revisions>>

DecideRead(h) ==
    LET c       == call[h]
        missing == Missing(c.rec) # {}
    IN  /\ At(h, "decide_read")
        /\ IF c.op = "approve" /\ missing /\ ~c.flag
             THEN Done(h)
             ELSE Become(h, [c EXCEPT !.pc = "decide_write", !.flag = c.op = "approve" /\ missing])
        /\ UNCHANGED <<records, rows, revisions>>

\* Whatever was decided before is written over.
DecideWrite(h) ==
    LET c == call[h]
    IN  /\ At(h, "decide_write")
        /\ rec' = [rec EXCEPT ![c.rec].status = IF c.op = "approve" THEN "approved" ELSE "rejected",
                              ![c.rec].override = c.flag]
        /\ Done(h)
        /\ UNCHANGED <<lastRec, rows, revisions>>

-----------------------------------------------------------------------------
(* Revisions                                                               *)

RequestRead(h) ==
    LET c == call[h]
    IN  /\ At(h, "request_read")
        /\ IF rec[c.rec].status = "approved"
             THEN Become(h, [c EXCEPT !.pc = "request_write", !.new = rec[c.rec].version + 1])
             ELSE Done(h)
        /\ UNCHANGED <<records, rows, revisions>>

RequestWrite(h) ==
    LET c == call[h]
    IN  /\ At(h, "request_write")
        /\ lastRev + 1 \in Revisions
        /\ lastRev' = lastRev + 1
        /\ rev' = [rev EXCEPT ![lastRev + 1] =
                     [rec |-> c.rec, version |-> c.new, status |-> "REVISION_DRAFT",
                      by |-> c.who, changes |-> c.todo]]
        /\ Done(h)
        /\ UNCHANGED <<records, rows>>

SetRevision(v, s) == rev' = [rev EXCEPT ![v].status = s]

SubmitRead(h) ==
    /\ At(h, "submit_read")
    /\ IF rev[call[h].rev].status = "REVISION_DRAFT" THEN Goto(h, "submit_write") ELSE Done(h)
    /\ UNCHANGED <<records, rows, revisions>>

SubmitWrite(h) ==
    /\ At(h, "submit_write")
    /\ SetRevision(call[h].rev, "REVISION_PENDING_REVIEW")
    /\ Done(h)
    /\ UNCHANGED <<records, rows, lastRev>>

\* Whoever asked for a revision does not approve it.
RevisionRead(h) ==
    LET c == call[h]
        v == rev[c.rev]
    IN  /\ At(h, "revision_read")
        /\ IF v.status \notin Open \/ (c.op = "approve_revision" /\ c.who = v.by) THEN Done(h)
           ELSE IF c.op = "reject_revision" THEN Become(h, [c EXCEPT !.pc = "revision_write", !.who = Null])
           ELSE Become(h, [c EXCEPT !.pc = "record_read", !.who = Null, !.rec = v.rec, !.todo = v.changes])
        /\ UNCHANGED <<records, rows, revisions>>

\* The guardrails: a number, a date, the PDF. The status of the record is not among them.
RecordRead(h, available) ==
    /\ At(h, "record_read")
    /\ IF rec[call[h].rec].id # Null /\ available THEN Goto(h, "field_read") ELSE Done(h)
    /\ UNCHANGED <<records, rows, revisions>>

\* Mutant of VersionWrite: counts up from the version the record has.
VersionWriteNext(h) ==
    LET c == call[h]
    IN  /\ At(h, "version_write")
        /\ rec' = [rec EXCEPT ![c.rec].version = @ + 1]
        /\ Goto(h, "revision_write")
        /\ UNCHANGED <<lastRec, rows, revisions>>

VersionWrite(h) ==
    LET c == call[h]
    IN  /\ At(h, "version_write")
        /\ rec' = [rec EXCEPT ![c.rec].version = rev[c.rev].version]
        /\ Goto(h, "revision_write")
        /\ UNCHANGED <<lastRec, rows, revisions>>

RevisionWrite(h) ==
    LET c == call[h]
    IN  /\ At(h, "revision_write")
        /\ SetRevision(c.rev, IF c.op = "approve_revision" THEN "REPUBLISHED" ELSE "REJECTED")
        /\ Done(h)
        /\ UNCHANGED <<records, rows, lastRev>>

-----------------------------------------------------------------------------
Crash ==
    /\ Crashes
    /\ call' = [h \in Handlers |-> Idle]
    /\ UNCHANGED <<records, rows, revisions>>

Known == {r \in Records : rec[r] # Null}

Arrivals(h) ==
    \/ \E f \in Finds : ArriveParse(h, f)
    \/ \E r \in Records, b \in BOOLEAN :
         \/ \E change \in Corrections : ArriveCorrect(h, r, change, b)
         \/ \E op \in {"approve", "reject"} : ArriveDecide(h, op, r, b)
    \/ \E ids \in {Known, {r \in Known : rec[r].id = Null}} : ArriveRecompute(h, ids)
    \/ \E r \in Records, p \in People, c \in Changes : ArriveRequest(h, r, p, c)
    \/ \E v \in Revisions :
         \/ ArriveSubmit(h, v)
         \/ \E op \in {"approve_revision", "reject_revision"}, p \in People : ArriveRevision(h, op, v, p)

Statements(h) ==
    \/ InsertRecord(h) \/ InsertField(h)
    \/ FieldRead(h) \/ InsertRow(h) \/ Supersede(h)
    \/ IdRead(h) \/ IdCheck(h) \/ IdWrite(h)
    \/ DecideRead(h) \/ DecideWrite(h)
    \/ RequestRead(h) \/ RequestWrite(h) \/ SubmitRead(h) \/ SubmitWrite(h)
    \/ RevisionRead(h) \/ (\E b \in BOOLEAN : RecordRead(h, b)) \/ VersionWrite(h) \/ RevisionWrite(h)

Next ==
    \/ \E h \in Handlers : Arrivals(h) \/ Statements(h)
    \/ Crash

Spec == Init /\ [][Next]_reviewVars

-----------------------------------------------------------------------------
TypeOK ==
    /\ rec \in [Records -> Recs \cup {Null}] /\ lastRec \in Nat
    /\ rows \in [Records -> [Names -> Seq(FieldRows)]]
    /\ rev \in [Revisions -> Revs \cup {Null}] /\ lastRev \in Nat
    /\ call \in [Handlers -> Calls]

\* The value a field got last is live: a row is only superseded by a later one of the same
\* field, whoever corrects at the same time, so no correction makes a field disappear.
LatestLives ==
    \A r \in Records, n \in Names :
        \A k \in DOMAIN rows[r][n] : LET by == rows[r][n][k].by
                                     IN  by # 0 => k < by /\ by <= Len(rows[r][n])

\* A record approved without the override has every core field, then and ever after (the
\* check of approve, made one statement before the decision is written).
ApprovedComplete ==
    \A r \in Known : rec[r].status = "approved" /\ ~rec[r].override => Missing(r) = {}

\* Nothing in an identity is fabricated: the record had each of its values, and no record
\* has one without a number and a date (go_identity.py).
NothingFabricated ==
    \A r \in Known : rec[r].id # Null =>
        \A n \in IdNames : \E k \in DOMAIN rows[r][n] : rows[r][n][k].value = rec[r].id.go[n]

HasBeen(r, change) == \E k \in DOMAIN rows[r][change.name] : rows[r][change.name][k].value = change.value
Applied(v) == \A i \in DOMAIN rev[v].changes : HasBeen(rev[v].rec, rev[v].changes[i])

\* A revision shown as republished was applied as a whole, even when an approval died half way
\* and was repeated, or two reviewers approved it at once.
RepublishedApplied ==
    \A v \in Revisions : rev[v] # Null /\ rev[v].status = "REPUBLISHED" => Applied(v)

\* The version a citizen is shown is that of a revision whose changes were applied.
VersionExplained ==
    \A r \in Known : rec[r].version > 1 =>
        \E v \in Revisions : /\ rev[v] # Null /\ rev[v].rec = r
                             /\ rev[v].version = rec[r].version /\ Applied(v)

=============================================================================
