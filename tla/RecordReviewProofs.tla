-------------------------- MODULE RecordReviewProofs --------------------------
(***************************************************************************)
(* Theorems about RecordReview, for any number of records, fields,         *)
(* revisions and threads, and every interleaving of statements.            *)
(*                                                                         *)
(* Nothing here is guarded by a lock or a transaction: a handler reads,    *)
(* and writes a statement later. What saves the properties is that the     *)
(* tables only grow (Grows): a row of a field keeps its value, and a field *)
(* that has a row keeps a live one, because the newest row is never        *)
(* superseded. So what a handler read (Knows) still holds when it writes.  *)
(***************************************************************************)
EXTENDS RecordReviewHistory, WellFoundedInduction, SequenceTheorems, TLAPS

Tables ==
    /\ rec \in [Records -> Recs \cup {Null}] /\ lastRec \in Nat
    /\ rows \in [Records -> [Names -> Seq(FieldRows)]]
    /\ rev \in [Revisions -> Revs \cup {Null}] /\ lastRev \in Nat

Keys ==
    /\ \A r \in Records : rec[r] # Null => r <= lastRec
    /\ \A v \in Revisions : rev[v] # Null => v <= lastRev

RevsOfRecords == \A v \in Revisions : rev[v] # Null => rec[rev[v].rec] # Null

Complete(r)     == \A n \in Names \cap CoreFields : DOMAIN rows[r][n] # {}
Had(r, id)      == \A n \in IdNames : \E k \in DOMAIN rows[r][n] : rows[r][n][k].value = id.go[n]
Explained(r, n) == \E v \in Revisions : /\ rev[v] # Null /\ rev[v].rec = r
                                        /\ rev[v].version = n /\ Applied(v)

\* What the columns of a record say is true of its fields and its revisions.
Truth(r) ==
    /\ rec[r].status = "approved" /\ ~rec[r].override => Complete(r)
    /\ rec[r].id # Null => Had(r, rec[r].id)
    /\ rec[r].version > 1 => Explained(r, rec[r].version)

Stored ==
    /\ Tables /\ Keys /\ RevsOfRecords /\ LatestLives /\ RepublishedApplied
    /\ \A r \in Records : rec[r] # Null => Truth(r)

IdPcs     == {"id_read", "id_check", "id_write"}
ChangePcs == {"field_read", "insert_row", "supersede"}
DecidePcs == {"decide_read", "decide_write"}
AskPcs    == {"request_read", "request_write"}
RecordPcs == IdPcs \cup ChangePcs \cup DecidePcs \cup AskPcs \cup {"insert_fields", "record_read", "version_write"}
RevPcs    == {"submit_read", "submit_write", "revision_read", "revision_write"}

\* A change of a field is on its way, of a reviewer or of a revision.
Changing(c) == c.pc \in ChangePcs \/ (c.pc \in IdPcs /\ c.op \notin {"recompute", "parse"})

\* A revision is being applied.
Revising(c) ==
    /\ c.op = "approve_revision"
    /\ c.pc \in ChangePcs \cup IdPcs \cup {"record_read", "version_write", "revision_write"}

\* The rows a handler refers to exist, and its operation is one that gets there.
Refers(c) ==
    /\ c.pc \in RecordPcs => c.rec \in Records /\ rec[c.rec] # Null
    /\ c.pc \in RevPcs \/ Revising(c) => c.rev \in Revisions /\ rev[c.rev] # Null
    /\ Revising(c) => rev[c.rev].rec = c.rec
    /\ c.pc \in {"insert_record", "insert_fields"} => c.op = "parse"
    /\ Changing(c) => c.op \in {"correct", "approve_revision"}
    /\ c.pc = "revision_read" => c.op \in {"approve_revision", "reject_revision"}
    /\ c.pc \in {"record_read", "version_write"} => c.op = "approve_revision"

Holds(c) ==
    /\ Changing(c) \/ c.pc \in {"insert_fields", "record_read"} => c.todo # <<>>
    /\ c.pc \in IdPcs /\ c.op = "recompute" => \A r \in c.left : rec[r] # Null
    /\ c.pc \in AskPcs => c.todo \in Changes /\ c.who \in People
    /\ c.pc = "id_check" => c.id # Null /\ ~c.id.own

\* Every change of the revision was made or is still to be made.
Pending(c) ==
    \A i \in DOMAIN rev[c.rev].changes :
        \/ HasBeen(c.rec, rev[c.rev].changes[i])
        \/ \E j \in DOMAIN c.todo : c.todo[j] = rev[c.rev].changes[i]

\* What it has read and still relies on.
Knows(c) ==
    /\ c.pc = "insert_row" => c.old = 0 \/ c.old \in DOMAIN rows[c.rec][Head(c.todo).name]
    /\ c.pc = "supersede" => /\ c.old \in DOMAIN rows[c.rec][Head(c.todo).name]
                             /\ c.new \in DOMAIN rows[c.rec][Head(c.todo).name]
                             /\ c.old < c.new
    /\ c.pc = "decide_write" /\ c.op = "approve" /\ ~c.flag => Complete(c.rec)
    /\ c.pc \in {"id_check", "id_write"} /\ c.id # Null => Had(c.rec, c.id)
    /\ Revising(c) /\ c.pc \in ChangePcs \cup IdPcs \cup {"record_read"} => Pending(c)
    /\ Revising(c) /\ c.pc \in {"supersede"} \cup IdPcs => HasBeen(c.rec, Head(c.todo))
    /\ Revising(c) /\ c.pc \in {"version_write", "revision_write"} => Applied(c.rev)

Promise(c) == Refers(c) /\ Holds(c) /\ Knows(c)

Promises == call \in [Handlers -> Calls] /\ \A h \in Handlers : Promise(call[h])

Inv == Stored /\ Promises

RecsStay == \A r \in Records : rec[r] # Null => rec'[r] # Null

RevsStay ==
    \A v \in Revisions : rev[v] # Null =>
        /\ rev'[v] # Null
        /\ rev'[v].rec = rev[v].rec /\ rev'[v].version = rev[v].version /\ rev'[v].changes = rev[v].changes

RowsStay ==
    \A r \in Records, n \in Names : \A k \in DOMAIN rows[r][n] :
        k \in DOMAIN rows'[r][n] /\ rows'[r][n][k].value = rows[r][n][k].value

Grows == RecsStay /\ RevsStay /\ RowsStay

-----------------------------------------------------------------------------
(* What was said of a field stays said, and with it every promise.         *)

LEMMA NameFacts == IdNames \subseteq Names /\ \A x \in Change : x.name \in Names /\ x.value \in Values
  BY DEF IdNames, Change

LEMMA HasBeenLasts ==
    ASSUME RowsStay, NEW r \in Records, NEW x \in Change, HasBeen(r, x)
    PROVE  HasBeen(r, x)'
  BY NameFacts DEF RowsStay, HasBeen

LEMMA CompleteLasts ==
    ASSUME RowsStay, NEW r \in Records, Complete(r)
    PROVE  Complete(r)'
  <1>1. SUFFICES ASSUME NEW n \in Names \cap CoreFields PROVE DOMAIN rows'[r][n] # {}
    BY DEF Complete
  <1>2. PICK k \in DOMAIN rows[r][n] : TRUE
    BY DEF Complete
  <1>3. QED
    BY <1>2 DEF RowsStay

LEMMA HadLasts ==
    ASSUME RowsStay, NEW r \in Records, NEW id, Had(r, id)
    PROVE  Had(r, id)'
  <1>1. SUFFICES ASSUME NEW n \in IdNames
                 PROVE  \E k \in DOMAIN rows'[r][n] : rows'[r][n][k].value = id.go[n]
    BY DEF Had
  <1>2. PICK k \in DOMAIN rows[r][n] : rows[r][n][k].value = id.go[n]
    BY DEF Had
  <1>3. n \in Names
    BY NameFacts
  <1>4. QED
    BY <1>2, <1>3 DEF RowsStay

\* The changes of a revision, and the record it is of.
LEMMA RevFacts ==
    ASSUME Tables, NEW v \in Revisions, rev[v] # Null
    PROVE  /\ rev[v].rec \in Records /\ rev[v].changes \in Seq(Change) /\ rev[v].changes # <<>>
           /\ rev[v].changes \in Changes /\ rev[v].version \in Nat
           /\ \A i \in DOMAIN rev[v].changes : rev[v].changes[i] \in Change
  <1>1. rev[v] \in Revs
    BY DEF Tables
  <1>2. rev[v].rec \in Records /\ rev[v].changes \in Changes /\ rev[v].version \in Nat
    BY <1>1 DEF Revs
  <1>3. rev[v].changes \in Seq(Change) /\ rev[v].changes # <<>>
    BY <1>2, ChangesAssumption
  <1>4. \A i \in DOMAIN rev[v].changes : rev[v].changes[i] \in Change
    BY <1>3, LenProperties
  <1>5. QED
    BY <1>2, <1>3, <1>4

LEMMA AppliedLasts ==
    ASSUME Tables, Grows, NEW v \in Revisions, rev[v] # Null, Applied(v)
    PROVE  Applied(v)'
  <1>1. rev'[v].rec = rev[v].rec /\ rev'[v].changes = rev[v].changes
    BY DEF Grows, RevsStay
  <1>2. rev[v].rec \in Records /\ \A i \in DOMAIN rev[v].changes : rev[v].changes[i] \in Change
    BY RevFacts
  <1>3. \A i \in DOMAIN rev[v].changes : HasBeen(rev[v].rec, rev[v].changes[i])
    BY DEF Applied
  <1>4. SUFFICES ASSUME NEW i \in DOMAIN rev'[v].changes PROVE HasBeen(rev[v].rec, rev[v].changes[i])'
    BY DEF Applied
  <1>5. PICK r \in Records, x \in Change : r = rev[v].rec /\ x = rev[v].changes[i] /\ i \in DOMAIN rev[v].changes
    BY <1>1, <1>2
  <1>6. HasBeen(r, x)
    BY <1>3, <1>5
  <1>7. HasBeen(r, x)'
    BY <1>6, HasBeenLasts DEF Grows
  <1>8. QED
    BY <1>1, <1>5, <1>7 DEF HasBeen

LEMMA ExplainedLasts ==
    ASSUME Tables, Grows, NEW r \in Records, NEW n, Explained(r, n)
    PROVE  Explained(r, n)'
  <1>1. PICK v \in Revisions : rev[v] # Null /\ rev[v].rec = r /\ rev[v].version = n /\ Applied(v)
    BY DEF Explained
  <1>2. Applied(v)'
    BY <1>1, AppliedLasts
  <1>3. QED
    BY <1>1, <1>2 DEF Explained, Grows, RevsStay

\* The first of the changes, and the others.
LEMMA HeadAndRest ==
    ASSUME NEW s \in Seq(Change), s # <<>>
    PROVE  /\ Head(s) \in Change /\ Head(s) = s[1] /\ Tail(s) \in Seq(Change)
           /\ \A j \in DOMAIN s : j = 1 \/ (j - 1 \in DOMAIN Tail(s) /\ Tail(s)[j - 1] = s[j])
           /\ Tail(s) = <<>> => \A j \in DOMAIN s : j = 1
  <1>1. /\ Head(s) \in Change /\ Tail(s) \in Seq(Change) /\ Len(Tail(s)) = Len(s) - 1
        /\ \A i \in 1 .. Len(Tail(s)) : Tail(s)[i] = s[i + 1]
    BY HeadTailProperties
  <1>2. Head(s) = s[1]
    OBVIOUS
  <1>3. DOMAIN s = 1 .. Len(s) /\ Len(s) \in Nat
    BY LenProperties
  <1>4. DOMAIN Tail(s) = 1 .. Len(Tail(s))
    BY <1>1, LenProperties
  <1>5. \A j \in DOMAIN s : j = 1 \/ (j - 1 \in DOMAIN Tail(s) /\ Tail(s)[j - 1] = s[j])
    <2>1. SUFFICES ASSUME NEW j \in 1 .. Len(s), j # 1
                   PROVE  j - 1 \in 1 .. Len(Tail(s)) /\ Tail(s)[j - 1] = s[j]
      BY <1>3, <1>4
    <2>2. j - 1 \in 1 .. Len(Tail(s)) /\ (j - 1) + 1 = j
      BY <1>1, <1>3, <2>1
    <2>3. Tail(s)[j - 1] = s[(j - 1) + 1]
      BY <1>1, <2>2
    <2>4. QED
      BY <2>2, <2>3
  <1>6. Tail(s) = <<>> => \A j \in DOMAIN s : j = 1
    <2>1. ASSUME Tail(s) = <<>> PROVE Len(s) = 1
      BY <1>1, <1>3, <2>1, EmptySeq
    <2>2. QED
      BY <1>3, <2>1
  <1>7. QED
    BY <1>1, <1>2, <1>5, <1>6

\* A handler that has made its change, or found it made.
AtRow(c) ==
    /\ c.op \in {"correct", "approve_revision"} /\ c.todo # <<>>
    /\ c.rec \in Records /\ rec[c.rec] # Null
    /\ c.op = "approve_revision" =>
         /\ c.rev \in Revisions /\ rev[c.rev] # Null /\ rev[c.rev].rec = c.rec
         /\ Pending(c) /\ HasBeen(c.rec, Head(c.todo))

LEMMA PendingLasts ==
    ASSUME Tables, Grows, NEW c \in Calls, c.rec \in Records, c.rev \in Revisions, rev[c.rev] # Null, Pending(c)
    PROVE  Pending(c)'
  <1>1. PICK v \in Revisions : v = c.rev
    OBVIOUS
  <1>2. rev'[v].changes = rev[v].changes
    BY <1>1 DEF Grows, RevsStay
  <1>3. SUFFICES ASSUME NEW i \in DOMAIN rev'[v].changes
                 PROVE  \/ HasBeen(c.rec, rev[c.rev].changes[i])'
                        \/ \E j \in DOMAIN c.todo : c.todo[j] = rev'[v].changes[i]
    BY <1>1 DEF Pending
  <1>4. CASE \E j \in DOMAIN c.todo : c.todo[j] = rev[v].changes[i]
    BY <1>2, <1>4
  <1>5. CASE HasBeen(c.rec, rev[v].changes[i])
    <2>1. rev[v].changes[i] \in Change
      BY <1>1, <1>2, RevFacts
    <2>2. PICK x \in Change : x = rev[v].changes[i]
      BY <2>1
    <2>3. HasBeen(c.rec, x)'
      BY <1>5, <2>2, HasBeenLasts DEF Grows
    <2>4. QED
      BY <1>1, <1>2, <2>2, <2>3 DEF HasBeen
  <1>6. QED
    BY <1>1, <1>2, <1>4, <1>5 DEF Pending

LEMMA HeadChange ==
    ASSUME NEW c \in Calls, c.todo # <<>>
    PROVE  c.todo \in Seq(Change) /\ Head(c.todo) \in Change /\ Head(c.todo).name \in Names
  <1>1. c.todo \in Seq(Change)
    BY DEF Calls
  <1>2. QED
    BY <1>1, HeadAndRest, NameFacts

LEMMA AtRowLasts ==
    ASSUME Tables, Grows, NEW c \in Calls, AtRow(c)
    PROVE  AtRow(c)'
  <1>1. Head(c.todo) \in Change
    BY HeadChange DEF AtRow
  <1>2. ASSUME c.op = "approve_revision" PROVE Pending(c)' /\ HasBeen(c.rec, Head(c.todo))'
    <2>1. Pending(c)'
      BY <1>2, PendingLasts DEF AtRow
    <2>2. HasBeen(c.rec, Head(c.todo))'
      BY <1>1, <1>2, HasBeenLasts DEF AtRow, Grows
    <2>3. QED
      BY <2>1, <2>2
  <1>3. QED
    BY <1>2 DEF AtRow, Grows, RecsStay, RevsStay

\* A promise survives a step that only lets the tables grow.
LEMMA Stable ==
    ASSUME Tables, Grows, NEW c \in Calls, Promise(c)
    PROVE  Promise(c)'
  <1>1. Refers(c)'
    BY DEF Promise, Refers, Revising, Changing, Grows, RecsStay, RevsStay
  <1>2. Holds(c)'
    BY DEF Promise, Holds, Changing, Grows, RecsStay, Calls
  <1>3. c.pc \in RecordPcs => c.rec \in Records
    BY DEF Promise, Refers
  <1>4. Changing(c) => Head(c.todo) \in Change /\ Head(c.todo).name \in Names
    BY HeadChange DEF Promise, Holds
  <1>5. c.pc = "insert_row" => c.old = 0 \/ c.old \in DOMAIN rows'[c.rec][Head(c.todo).name]
    BY <1>3, <1>4 DEF Promise, Knows, Changing, ChangePcs, RecordPcs, Grows, RowsStay
  <1>6. c.pc = "supersede" => /\ c.old \in DOMAIN rows'[c.rec][Head(c.todo).name]
                              /\ c.new \in DOMAIN rows'[c.rec][Head(c.todo).name]
                              /\ c.old < c.new
    BY <1>3, <1>4 DEF Promise, Knows, Changing, ChangePcs, RecordPcs, Grows, RowsStay
  <1>7. c.pc = "decide_write" /\ c.op = "approve" /\ ~c.flag => Complete(c.rec)'
    BY <1>3, CompleteLasts DEF Promise, Knows, RecordPcs, DecidePcs, Grows
  <1>8. c.pc \in {"id_check", "id_write"} /\ c.id # Null => Had(c.rec, c.id)'
    BY <1>3, HadLasts DEF Promise, Knows, RecordPcs, IdPcs, Grows
  <1>9. Revising(c) /\ c.pc \in ChangePcs \cup IdPcs \cup {"record_read"} => Pending(c)'
    BY <1>3, PendingLasts DEF Promise, Knows, Refers, RecordPcs
  <1>10. Revising(c) /\ c.pc \in {"supersede"} \cup IdPcs => HasBeen(c.rec, Head(c.todo))'
    <2>1. Revising(c) /\ c.pc \in {"supersede"} \cup IdPcs => Changing(c)
      BY DEF Changing, Revising, ChangePcs
    <2>2. QED
      BY <1>3, <1>4, <2>1, HasBeenLasts DEF Promise, Knows, RecordPcs, ChangePcs, Grows
  <1>11. Revising(c) /\ c.pc \in {"version_write", "revision_write"} => Applied(c.rev)'
    BY AppliedLasts DEF Promise, Knows, Refers
  <1>12. Knows(c)'
    BY <1>5, <1>6, <1>7, <1>8, <1>9, <1>10, <1>11 DEF Knows, Revising
  <1>13. QED
    BY <1>1, <1>2, <1>12 DEF Promise

LEMMA OthersStable ==
    ASSUME Inv, Grows, NEW g \in Handlers, call'[g] = call[g]
    PROVE  Promise(call[g])'
  <1>1. PICK b \in Calls : b = call[g]
    BY DEF Inv, Promises
  <1>2. Promise(b)
    BY <1>1 DEF Inv, Promises
  <1>3. Promise(b)'
    BY <1>2, Stable DEF Inv, Stored
  <1>4. call'[g] = b
    BY <1>1
  <1>5. QED
    BY <1>3, <1>4 DEF Promise, Refers, Holds, Knows, Changing, Revising, Pending

\* A step of one handler that keeps its own promise keeps all.
LEMMA MovesThen ==
    ASSUME Inv, Stored', Grows, NEW h \in Handlers, NEW c \in Calls, Become(h, c), Promise(c)'
    PROVE  Inv'
  <1>1. call' \in [Handlers -> Calls]
    BY DEF Inv, Promises, Become
  <1>2. ASSUME NEW g \in Handlers PROVE Promise(call[g])'
    <2>1. CASE g = h
      <3>1. call'[g] = c
        BY <2>1 DEF Inv, Promises, Become
      <3>2. QED
        BY <3>1 DEF Promise, Refers, Holds, Knows, Changing, Revising, Pending
    <2>2. CASE g # h
      <3>1. call'[g] = call[g]
        BY <2>2 DEF Inv, Promises, Become
      <3>2. QED
        BY <3>1, OthersStable
    <2>3. QED
      BY <2>1, <2>2
  <1>3. QED
    BY <1>1, <1>2 DEF Inv, Promises

LEMMA Moves ==
    ASSUME Inv, Stored', Grows, NEW h \in Handlers, NEW c \in Calls, Become(h, c), Promise(c)
    PROVE  Inv'
  BY Stable, MovesThen DEF Inv, Stored

LEMMA IdleFine == Idle \in Calls /\ Promise(Idle)
  <1>1. <<>> \in Seq(Change)
    BY EmptySeq
  <1>2. Idle \in Calls
    BY <1>1 DEF Idle, Calls, Ops
  <1>3. Promise(Idle)
    BY DEF Idle, Promise, Refers, Holds, Knows, Changing, Revising, IdPcs, ChangePcs, DecidePcs, AskPcs, RecordPcs, RevPcs
  <1>4. QED
    BY <1>2, <1>3

LEMMA DoneStep ==
    ASSUME Inv, Stored', Grows, NEW h \in Handlers, Done(h)
    PROVE  Inv'
  BY IdleFine, Moves DEF Done

LEMMA Own ==
    ASSUME Inv, NEW h \in Handlers
    PROVE  \E b \in Calls : b = call[h] /\ Promise(b)
  BY DEF Inv, Promises

-----------------------------------------------------------------------------
(* What a statement does to the tables.                                    *)

LEMMA RowsTyped ==
    ASSUME Tables, NEW r \in Records, NEW n \in Names
    PROVE  /\ rows[r][n] \in Seq(FieldRows) /\ Len(rows[r][n]) \in Nat
           /\ DOMAIN rows[r][n] = 1 .. Len(rows[r][n])
           /\ \A k \in DOMAIN rows[r][n] : rows[r][n][k] \in FieldRows
  <1>1. rows[r][n] \in Seq(FieldRows)
    BY DEF Tables
  <1>2. QED
    BY <1>1, LenProperties

\* A field that has rows has a live one: the newest.
LEMMA LiveRows ==
    ASSUME Tables, LatestLives, NEW r \in Records, NEW n \in Names
    PROVE  Live(r, n) # {} <=> DOMAIN rows[r][n] # {}
  <1> DEFINE s == rows[r][n]
             m == Len(rows[r][n])
  <1>1. m \in Nat /\ DOMAIN s = 1 .. m /\ \A k \in DOMAIN s : s[k] \in FieldRows
    BY RowsTyped
  <1>2. ASSUME DOMAIN s # {} PROVE Live(r, n) # {}
    <2>1. m \in 1 .. m
      BY <1>1, <1>2
    <2>2. s[m].by # 0 => m < s[m].by /\ s[m].by <= m
      BY <1>1, <2>1 DEF LatestLives
    <2>3. s[m].by \in Nat
      BY <1>1, <2>1 DEF FieldRows
    <2>4. s[m].by = 0
      BY <1>1, <2>2, <2>3
    <2>5. QED
      BY <2>1, <2>4 DEF Live
  <1>3. ASSUME Live(r, n) # {} PROVE DOMAIN s # {}
    BY <1>1, <1>3 DEF Live
  <1>4. QED
    BY <1>2, <1>3

LEMMA MissingNothing ==
    ASSUME Tables, LatestLives, NEW r \in Records
    PROVE  Missing(r) = {} <=> Complete(r)
  BY LiveRows DEF Missing, Complete

LEMMA TruthLasts ==
    ASSUME Tables, Grows, NEW r \in Records, Truth(r), rec[r] \in Recs, UNCHANGED rec[r]
    PROVE  Truth(r)'
  <1>1. PICK x \in Recs : x = rec[r] /\ x = rec'[r]
    OBVIOUS
  <1>2. x.status = "approved" /\ ~x.override => Complete(r)'
    BY <1>1, CompleteLasts DEF Truth, Grows
  <1>3. x.id # Null => Had(r, x.id)'
    BY <1>1, HadLasts DEF Truth, Grows
  <1>4. x.version > 1 => Explained(r, x.version)'
    BY <1>1, ExplainedLasts DEF Truth
  <1>5. QED
    BY <1>1, <1>2, <1>3, <1>4 DEF Truth, Had, Explained

\* What the tables say of records and revisions that did not change stays true.
LEMMA Unchanged ==
    ASSUME Stored, Grows
    PROVE  /\ \A r \in Records : rec[r] # Null /\ rec'[r] = rec[r] => Truth(r)'
           /\ \A v \in Revisions : rev[v] # Null /\ rev[v].status = "REPUBLISHED" => Applied(v)'
  <1>1. ASSUME NEW r \in Records, rec[r] # Null, rec'[r] = rec[r] PROVE Truth(r)'
    BY <1>1, TruthLasts DEF Stored, Tables
  <1>2. ASSUME NEW v \in Revisions, rev[v] # Null, rev[v].status = "REPUBLISHED" PROVE Applied(v)'
    BY <1>2, AppliedLasts DEF Stored, RepublishedApplied
  <1>3. QED
    BY <1>1, <1>2

LEMMA RevsOfRecordsLast ==
    ASSUME Tables, RevsOfRecords, Grows, UNCHANGED rev
    PROVE  RevsOfRecords'
  <1>1. SUFFICES ASSUME NEW v \in Revisions, rev[v] # Null PROVE rec'[rev[v].rec] # Null
    BY DEF RevsOfRecords
  <1>2. rev[v].rec \in Records /\ rec[rev[v].rec] # Null
    BY <1>1, RevFacts DEF RevsOfRecords
  <1>3. QED
    BY <1>2 DEF Grows, RecsStay

LEMMA Quiet ==
    ASSUME Inv, UNCHANGED <<records, rows, revisions>>
    PROVE  Stored' /\ Grows
  <1> USE DEF records, revisions
  <1>1. Grows
    BY DEF Grows, RecsStay, RevsStay, RowsStay
  <1>2. Tables' /\ Keys'
    BY DEF Inv, Stored, Tables, Keys
  <1>3. LatestLives'
    BY DEF Inv, Stored, LatestLives
  <1>4. QED
    BY <1>1, <1>2, <1>3, Unchanged, RevsOfRecordsLast DEF Inv, Stored, RepublishedApplied

\* Rows are appended or superseded.
LEMMA RowsChange ==
    ASSUME Inv, rows' \in [Records -> [Names -> Seq(FieldRows)]], RowsStay, LatestLives', UNCHANGED <<records, revisions>>
    PROVE  Stored' /\ Grows
  <1> USE DEF records, revisions
  <1>1. Grows
    BY DEF Grows, RecsStay, RevsStay
  <1>2. Tables' /\ Keys'
    BY DEF Inv, Stored, Tables, Keys
  <1>3. QED
    BY <1>1, <1>2, Unchanged, RevsOfRecordsLast DEF Inv, Stored, RepublishedApplied

\* The row of a record, or a new one.
LEMMA RecChange ==
    ASSUME Inv, NEW r \in Records, NEW row \in Recs, rec' = [rec EXCEPT ![r] = row],
           row.status = "approved" /\ ~row.override => Complete(r),
           row.id # Null => Had(r, row.id),
           row.version > 1 => Explained(r, row.version),
           lastRec' \in Nat, lastRec <= lastRec', r <= lastRec', UNCHANGED <<rows, revisions>>
    PROVE  Stored' /\ Grows
  <1> USE DEF revisions
  <1>a. row # Null
    BY NullAssumption
  <1>b. rec \in [Records -> Recs \cup {Null}] /\ lastRec \in Nat
    BY DEF Inv, Stored, Tables
  <1>1. rec' \in [Records -> Recs \cup {Null}] /\ rec'[r] = row /\ \A q \in Records : q # r => rec'[q] = rec[q]
    BY <1>b
  <1>2. Grows
    BY <1>a, <1>1 DEF Grows, RecsStay, RevsStay, RowsStay
  <1>3. Tables'
    BY <1>1 DEF Inv, Stored, Tables
  <1>4. Keys'
    <2>1. ASSUME NEW q \in Records, rec'[q] # Null PROVE q <= lastRec'
      <3>1. CASE q = r
        BY <3>1
      <3>2. CASE q # r
        <4>1. q <= lastRec
          BY <1>1, <2>1, <3>2 DEF Inv, Stored, Keys
        <4>2. q \in Nat
          BY KeysAssumption
        <4>3. QED
          BY <1>b, <4>1, <4>2
      <3>3. QED
        BY <3>1, <3>2
    <2>2. QED
      BY <2>1 DEF Inv, Stored, Keys
  <1>5. LatestLives'
    BY DEF Inv, Stored, LatestLives
  <1>6. Tables /\ RowsStay /\ Stored
    BY <1>2 DEF Grows, Inv, Stored
  <1>7. Truth(r)'
    <2>1. row.status = "approved" /\ ~row.override => Complete(r)'
      BY <1>6, CompleteLasts
    <2>2. row.id # Null => Had(r, row.id)'
      BY <1>6, HadLasts
    <2>3. row.version > 1 => Explained(r, row.version)'
      BY <1>2, <1>6, ExplainedLasts
    <2>4. QED
      BY <1>1, <2>1, <2>2, <2>3 DEF Truth, Had, Explained
  <1>8. ASSUME NEW q \in Records, rec'[q] # Null PROVE Truth(q)'
    <2>1. CASE q = r
      BY <1>7, <2>1
    <2>2. CASE q # r
      BY <1>1, <1>2, <1>6, <1>8, <2>2, Unchanged
    <2>3. QED
      BY <2>1, <2>2
  <1>9. RepublishedApplied'
    BY <1>2, <1>6, Unchanged DEF RepublishedApplied
  <1>10. RevsOfRecords'
    BY <1>2, <1>6, RevsOfRecordsLast DEF Stored
  <1>11. QED
    BY <1>2, <1>3, <1>4, <1>5, <1>8, <1>9, <1>10 DEF Stored

\* The row of a revision, or a new one.
LEMMA RevChange ==
    ASSUME Inv, NEW v \in Revisions, NEW row \in Revs, rev' = [rev EXCEPT ![v] = row],
           rev[v] # Null => row.rec = rev[v].rec /\ row.version = rev[v].version /\ row.changes = rev[v].changes,
           row.status = "REPUBLISHED" => rev[v] # Null /\ Applied(v),
           rec[row.rec] # Null,
           lastRev' \in Nat, lastRev <= lastRev', v <= lastRev', UNCHANGED <<rows, records>>
    PROVE  Stored' /\ Grows
  <1> USE DEF records
  <1>a. row # Null
    BY NullAssumption
  <1>b. rev \in [Revisions -> Revs \cup {Null}] /\ lastRev \in Nat
    BY DEF Inv, Stored, Tables
  <1>1. rev' \in [Revisions -> Revs \cup {Null}] /\ rev'[v] = row /\ \A q \in Revisions : q # v => rev'[q] = rev[q]
    BY <1>b
  <1>2. Grows
    BY <1>a, <1>1 DEF Grows, RecsStay, RevsStay, RowsStay
  <1>3. Tables'
    BY <1>1 DEF Inv, Stored, Tables
  <1>4. Keys'
    <2>1. ASSUME NEW q \in Revisions, rev'[q] # Null PROVE q <= lastRev'
      <3>1. CASE q = v
        BY <3>1
      <3>2. CASE q # v
        <4>1. q <= lastRev
          BY <1>1, <2>1, <3>2 DEF Inv, Stored, Keys
        <4>2. q \in Nat
          BY KeysAssumption
        <4>3. QED
          BY <1>b, <4>1, <4>2
      <3>3. QED
        BY <3>1, <3>2
    <2>2. QED
      BY <2>1 DEF Inv, Stored, Keys
  <1>5. LatestLives'
    BY DEF Inv, Stored, LatestLives
  <1>6. Tables /\ Stored
    BY DEF Inv, Stored
  <1>7. RepublishedApplied'
    <2>1. ASSUME NEW q \in Revisions, rev'[q] # Null, rev'[q].status = "REPUBLISHED" PROVE Applied(q)'
      <3>1. CASE q = v
        BY <1>1, <1>2, <1>6, <2>1, <3>1, AppliedLasts
      <3>2. CASE q # v
        BY <1>1, <1>2, <1>6, <2>1, <3>2, Unchanged
      <3>3. QED
        BY <3>1, <3>2
    <2>2. QED
      BY <2>1 DEF RepublishedApplied
  <1>8. \A q \in Records : rec'[q] # Null => Truth(q)'
    BY <1>2, <1>6, Unchanged
  <1>9. RevsOfRecords'
    BY <1>1, <1>6 DEF Stored, RevsOfRecords
  <1>10. QED
    BY <1>2, <1>3, <1>4, <1>5, <1>7, <1>8, <1>9 DEF Stored

\* A row is appended: the rows before it stay, and what it says has been said.
LEMMA AppendedRow ==
    ASSUME Inv, NEW r \in Records, NEW x \in Change, NEW v \in Revisions \cup {Null}, AppendRow(r, x, v),
           UNCHANGED <<records, revisions>>
    PROVE  /\ Stored' /\ Grows /\ HasBeen(r, x)'
           /\ Len(rows[r][x.name]) + 1 \in DOMAIN rows'[r][x.name]
           /\ \A k \in DOMAIN rows[r][x.name] : k < Len(rows[r][x.name]) + 1
  <1>a. PICK n \in Names : n = x.name
    BY NameFacts
  <1>b. PICK row \in FieldRows : row = [value |-> x.value, by |-> 0, from |-> v]
    BY NameFacts, Zenon DEF FieldRows
  <1>c. row.by = 0 /\ row.value = x.value
    BY <1>b
  <1> DEFINE s == rows[r][n]
             t == Append(rows[r][n], row)
             m == Len(rows[r][n])
  <1>d. Tables
    BY DEF Inv, Stored
  <1>1. s \in Seq(FieldRows) /\ m \in Nat /\ DOMAIN s = 1 .. m
    BY <1>d, RowsTyped
  <1>2. t \in Seq(FieldRows) /\ Len(t) = m + 1 /\ \A k \in 1 .. m : t[k] = s[k]
    BY <1>1
  <1>3. t[m + 1] = row
    BY <1>1
  <1>4. DOMAIN t = 1 .. m + 1
    BY <1>2, LenProperties
  <1> HIDE DEF t
  <1>5. rows' = [rows EXCEPT ![r][n] = t]
    BY <1>a, <1>b DEF AppendRow, t
  <1>6. rows \in [Records -> [Names -> Seq(FieldRows)]]
    BY <1>d DEF Tables
  <1>7. /\ rows' \in [Records -> [Names -> Seq(FieldRows)]]
        /\ rows'[r][n] = t
        /\ \A q \in Records, o \in Names : q # r \/ o # n => rows'[q][o] = rows[q][o]
    BY <1>2, <1>5, <1>6
  <1>8. RowsStay
    <2>1. SUFFICES ASSUME NEW q \in Records, NEW o \in Names, NEW k \in DOMAIN rows[q][o]
                   PROVE  k \in DOMAIN rows'[q][o] /\ rows'[q][o][k].value = rows[q][o][k].value
      BY DEF RowsStay
    <2>2. CASE q = r /\ o = n
      <3>1. k \in 1 .. m /\ k \in 1 .. m + 1
        BY <1>1, <2>2
      <3>2. t[k] = s[k]
        BY <1>2, <3>1
      <3>3. QED
        BY <1>4, <1>7, <2>2, <3>1, <3>2
    <2>3. CASE q # r \/ o # n
      BY <1>7, <2>3
    <2>4. QED
      BY <2>2, <2>3
  <1>9. LatestLives'
    <2>1. SUFFICES ASSUME NEW q \in Records, NEW o \in Names, NEW k \in DOMAIN rows'[q][o], rows'[q][o][k].by # 0
                   PROVE  k < rows'[q][o][k].by /\ rows'[q][o][k].by <= Len(rows'[q][o])
      BY DEF LatestLives
    <2>2. CASE q = r /\ o = n
      <3>1. k \in 1 .. m + 1 /\ k # m + 1
        BY <1>3, <1>4, <1>7, <1>c, <2>1, <2>2
      <3>2. k \in DOMAIN s /\ t[k] = s[k]
        BY <1>1, <1>2, <3>1
      <3>3. s[k].by # 0
        BY <1>7, <2>1, <2>2, <3>2
      <3>4. k < s[k].by /\ s[k].by <= m
        BY <3>2, <3>3 DEF Inv, Stored, LatestLives
      <3>5. s[k].by \in Nat
        BY <1>d, <3>2, RowsTyped DEF FieldRows
      <3>6. s[k].by <= m + 1
        BY <1>1, <3>4, <3>5
      <3>7. QED
        BY <1>2, <1>7, <2>2, <3>2, <3>4, <3>6
    <2>3. CASE q # r \/ o # n
      BY <1>7, <2>1, <2>3 DEF Inv, Stored, LatestLives
    <2>4. QED
      BY <2>2, <2>3
  <1>10. Stored' /\ Grows
    BY <1>7, <1>8, <1>9, RowsChange
  <1>11. m + 1 \in DOMAIN rows'[r][n] /\ rows'[r][n][m + 1].value = x.value
    BY <1>1, <1>3, <1>4, <1>7, <1>c
  <1>12. HasBeen(r, x)'
    BY <1>11, <1>a DEF HasBeen
  <1>13. \A k \in DOMAIN s : k < m + 1
    BY <1>1
  <1>14. QED
    BY <1>10, <1>11, <1>12, <1>13, <1>a

\* The rows of one field are replaced.
LEMMA PutRows ==
    ASSUME NEW S, NEW f \in [Records -> [Names -> S]], NEW r \in Records, NEW n \in Names, NEW t \in S
    PROVE  /\ [f EXCEPT ![r][n] = t] \in [Records -> [Names -> S]]
           /\ [f EXCEPT ![r][n] = t][r][n] = t
           /\ \A q \in Records, o \in Names : q # r \/ o # n => [f EXCEPT ![r][n] = t][q][o] = f[q][o]
  OBVIOUS

MarkRow(r, n, old, new) == rows' = [rows EXCEPT ![r][n][old].by = new]

\* A row is superseded by a later one of the same field.
LEMMA SupersededRow ==
    ASSUME Inv, NEW r \in Records, NEW n \in Names, NEW old \in DOMAIN rows[r][n], NEW new \in DOMAIN rows[r][n],
           old < new, MarkRow(r, n, old, new), UNCHANGED <<records, revisions>>
    PROVE  Stored' /\ Grows
  <1>d. Tables
    BY DEF Inv, Stored
  <1> DEFINE s == rows[r][n]
             m == Len(rows[r][n])
  <1>1. s \in Seq(FieldRows) /\ m \in Nat /\ DOMAIN s = 1 .. m /\ \A k \in DOMAIN s : s[k] \in FieldRows
    BY <1>d, RowsTyped
  <1>2. new \in Nat /\ old \in Nat /\ new <= m
    BY <1>1
  <1>3. [s[old] EXCEPT !.by = new] \in FieldRows
    BY <1>1, <1>2 DEF FieldRows
  <1>4. PICK row \in FieldRows : row = [s[old] EXCEPT !.by = new]
    BY <1>3, Zenon
  <1>5. row.by = new /\ row.value = s[old].value
    BY <1>1, <1>4 DEF FieldRows
  <1> DEFINE t == [s EXCEPT ![old] = row]
  <1>6. /\ t \in Seq(FieldRows) /\ Len(t) = m
        /\ \A j \in 1 .. m : t[j] = IF j = old THEN row ELSE s[j]
    BY <1>1, ExceptSeq
  <1>7. DOMAIN t = 1 .. m
    BY <1>6, LenProperties
  <1>8. t[old] = row /\ \A j \in 1 .. m : j # old => t[j] = s[j]
    BY <1>1, <1>6
  <1>9. rows \in [Records -> [Names -> Seq(FieldRows)]]
    BY <1>d DEF Tables
  <1>10. rows' = [rows EXCEPT ![r][n] = t]
    BY <1>4 DEF MarkRow
  <1>t. t \in Seq(FieldRows)
    BY <1>6
  <1> HIDE DEF t
  <1>11. /\ rows' \in [Records -> [Names -> Seq(FieldRows)]]
         /\ rows'[r][n] = t
         /\ \A q \in Records, o \in Names : q # r \/ o # n => rows'[q][o] = rows[q][o]
    BY <1>t, <1>9, <1>10, PutRows
  <1>12. RowsStay
    <2>1. SUFFICES ASSUME NEW q \in Records, NEW o \in Names, NEW k \in DOMAIN rows[q][o]
                   PROVE  k \in DOMAIN rows'[q][o] /\ rows'[q][o][k].value = rows[q][o][k].value
      BY DEF RowsStay
    <2>2. CASE q = r /\ o = n
      BY <1>1, <1>5, <1>7, <1>8, <1>11, <2>2
    <2>3. CASE q # r \/ o # n
      BY <1>11, <2>3
    <2>4. QED
      BY <2>2, <2>3
  <1>13. LatestLives'
    <2>1. SUFFICES ASSUME NEW q \in Records, NEW o \in Names, NEW k \in DOMAIN rows'[q][o], rows'[q][o][k].by # 0
                   PROVE  k < rows'[q][o][k].by /\ rows'[q][o][k].by <= Len(rows'[q][o])
      BY DEF LatestLives
    <2>2. CASE q = r /\ o = n /\ k = old
      BY <1>2, <1>5, <1>6, <1>8, <1>11, <2>1, <2>2
    <2>3. CASE q = r /\ o = n /\ k # old
      <3>1. k \in DOMAIN s /\ t[k] = s[k] /\ s[k].by # 0
        BY <1>1, <1>7, <1>8, <1>11, <2>1, <2>3
      <3>2. k < s[k].by /\ s[k].by <= m
        BY <3>1 DEF Inv, Stored, LatestLives
      <3>3. QED
        BY <1>6, <1>11, <2>3, <3>1, <3>2
    <2>4. CASE q # r \/ o # n
      BY <1>11, <2>1, <2>4 DEF Inv, Stored, LatestLives
    <2>5. QED
      BY <2>2, <2>3, <2>4
  <1>14. QED
    BY <1>11, <1>12, <1>13, RowsChange

-----------------------------------------------------------------------------
(* How a change goes on.                                                   *)

\* The change was made: the next one, or what follows the last.
LEMMA NextChangeStep ==
    ASSUME Inv, Stored', Grows, NEW h \in Handlers, NEW c \in Calls, AtRow(c)', NextChange(h, c)
    PROVE  Inv'
  <1>1. c.op \in {"correct", "approve_revision"} /\ c.todo # <<>> /\ c.todo \in Seq(Change)
    BY HeadChange DEF AtRow
  <1>2. CASE c.op = "correct"
    BY <1>2, DoneStep DEF NextChange
  <1>3. CASE c.op = "approve_revision"
    <2> DEFINE rest == Tail(c.todo)
    <2>1. /\ Head(c.todo) = c.todo[1] /\ rest \in Seq(Change)
          /\ \A j \in DOMAIN c.todo : j = 1 \/ (j - 1 \in DOMAIN rest /\ rest[j - 1] = c.todo[j])
          /\ rest = <<>> => \A j \in DOMAIN c.todo : j = 1
      BY <1>1, HeadAndRest
    <2>2. /\ c.rec \in Records /\ rec'[c.rec] # Null
          /\ c.rev \in Revisions /\ rev'[c.rev] # Null /\ rev'[c.rev].rec = c.rec
      BY <1>3 DEF AtRow
    <2>3. /\ HasBeen(c.rec, Head(c.todo))'
          /\ \A i \in DOMAIN rev'[c.rev].changes :
               \/ HasBeen(c.rec, rev[c.rev].changes[i])'
               \/ \E j \in DOMAIN c.todo : c.todo[j] = rev'[c.rev].changes[i]
      BY <1>3 DEF AtRow, Pending
    <2>4. ASSUME NEW i \in DOMAIN rev'[c.rev].changes, c.todo[1] = rev'[c.rev].changes[i]
          PROVE  HasBeen(c.rec, rev[c.rev].changes[i])'
      <3>1. PICK x \in Change : x = Head(c.todo) /\ x = rev'[c.rev].changes[i]
        BY <1>1, <2>1, <2>4, HeadChange
      <3>2. HasBeen(c.rec, x)'
        BY <2>3, <3>1 DEF HasBeen
      <3>3. QED
        BY <3>1, <3>2 DEF HasBeen
    <2>5. CASE rest = <<>>
      <3>1. [c EXCEPT !.todo = rest, !.old = 0, !.new = 0, !.pc = "version_write"] \in Calls
        BY <2>1 DEF Calls
      <3>2. PICK d \in Calls : d = [c EXCEPT !.todo = rest, !.old = 0, !.new = 0, !.pc = "version_write"]
        BY <3>1, Zenon
      <3>3. d.pc = "version_write" /\ d.rec = c.rec /\ d.rev = c.rev /\ d.op = "approve_revision"
        BY <1>3, <3>2 DEF Calls
      <3>4. \A i \in DOMAIN rev'[c.rev].changes : HasBeen(c.rec, rev[c.rev].changes[i])'
        BY <2>1, <2>3, <2>4, <2>5
      <3>5. Applied(c.rev)'
        BY <2>2, <3>4 DEF Applied, HasBeen
      <3>6. Promise(d)'
        BY <2>2, <3>3, <3>5 DEF Applied, Promise, Refers, Holds, Knows, Changing, Revising, IdPcs, ChangePcs, DecidePcs,
       AskPcs, RecordPcs, RevPcs
      <3>7. Become(h, d)
        BY <1>3, <2>5, <3>2 DEF NextChange
      <3>8. QED
        BY <3>6, <3>7, MovesThen
    <2>6. CASE rest # <<>>
      <3>1. [c EXCEPT !.todo = rest, !.old = 0, !.new = 0, !.pc = "field_read"] \in Calls
        BY <2>1 DEF Calls
      <3>2. PICK d \in Calls : d = [c EXCEPT !.todo = rest, !.old = 0, !.new = 0, !.pc = "field_read"]
        BY <3>1, Zenon
      <3>3. d.pc = "field_read" /\ d.rec = c.rec /\ d.rev = c.rev /\ d.op = "approve_revision" /\ d.todo = rest
        BY <1>3, <3>2 DEF Calls
      <3>4. ASSUME NEW i \in DOMAIN rev'[c.rev].changes
            PROVE  \/ HasBeen(c.rec, rev[c.rev].changes[i])'
                   \/ \E j \in DOMAIN rest : rest[j] = rev'[c.rev].changes[i]
        <4>1. CASE HasBeen(c.rec, rev[c.rev].changes[i])'
          BY <4>1
        <4>2. ASSUME NEW j \in DOMAIN c.todo, c.todo[j] = rev'[c.rev].changes[i]
              PROVE  \/ HasBeen(c.rec, rev[c.rev].changes[i])'
                     \/ \E k \in DOMAIN rest : rest[k] = rev'[c.rev].changes[i]
          <5>1. CASE j = 1
            BY <2>4, <4>2, <5>1
          <5>2. CASE j - 1 \in DOMAIN rest /\ rest[j - 1] = c.todo[j]
            BY <4>2, <5>2
          <5>3. QED
            BY <2>1, <5>1, <5>2
        <4>3. QED
          BY <2>3, <4>1, <4>2
      <3> HIDE DEF rest
      <3>5. Pending(d)'
        <4>1. SUFFICES ASSUME NEW i \in DOMAIN rev'[d.rev].changes
                       PROVE  \/ HasBeen(d.rec, rev[d.rev].changes[i])'
                              \/ \E j \in DOMAIN d.todo : d.todo[j] = rev'[d.rev].changes[i]
          BY DEF Pending
        <4>2. \/ HasBeen(c.rec, rev[c.rev].changes[i])'
              \/ \E j \in DOMAIN rest : rest[j] = rev'[c.rev].changes[i]
          BY <3>3, <3>4
        <4>3. CASE HasBeen(c.rec, rev[c.rev].changes[i])'
          BY <3>3, <4>3 DEF HasBeen
        <4>4. CASE \E j \in DOMAIN rest : rest[j] = rev'[c.rev].changes[i]
          BY <3>3, <4>4
        <4>5. QED
          BY <4>2, <4>3, <4>4
      <3>6. Promise(d)'
        BY <2>2, <2>6, <3>3, <3>5 DEF Promise, Refers, Holds, Knows, Changing, Revising, IdPcs, ChangePcs, DecidePcs,
       AskPcs, RecordPcs, RevPcs
      <3>7. Become(h, d)
        BY <1>3, <2>6, <3>2 DEF NextChange, rest
      <3>8. QED
        BY <3>6, <3>7, MovesThen
    <2>7. QED
      BY <2>5, <2>6
  <1>4. QED
    BY <1>1, <1>2, <1>3

\* After a row the identity is computed again if the field is part of it.
LEMMA AfterRowStep ==
    ASSUME Inv, Stored', Grows, NEW h \in Handlers, NEW c \in Calls, AtRow(c)', AfterRow(h, c)
    PROVE  Inv'
  <1>1. CASE NextChange(h, c)
    BY <1>1, NextChangeStep
  <1>2. CASE Become(h, [c EXCEPT !.pc = "id_read", !.old = 0, !.new = 0])
    <2>1. [c EXCEPT !.pc = "id_read", !.old = 0, !.new = 0] \in Calls
      BY DEF Calls
    <2>2. PICK d \in Calls : d = [c EXCEPT !.pc = "id_read", !.old = 0, !.new = 0]
      BY <2>1, Zenon
    <2>3. d.pc = "id_read" /\ d.rec = c.rec /\ d.rev = c.rev /\ d.op = c.op /\ d.todo = c.todo
      BY <2>2 DEF Calls
    <2>4. ASSUME c.op = "approve_revision" PROVE Pending(d)' /\ HasBeen(d.rec, Head(d.todo))'
      <3>1. Pending(c)' /\ HasBeen(c.rec, Head(c.todo))'
        BY <2>4 DEF AtRow
      <3>2. Pending(d)'
        <4>1. SUFFICES ASSUME NEW i \in DOMAIN rev'[d.rev].changes
                       PROVE  \/ HasBeen(d.rec, rev[d.rev].changes[i])'
                              \/ \E j \in DOMAIN d.todo : d.todo[j] = rev'[d.rev].changes[i]
          BY DEF Pending
        <4>2. \/ HasBeen(c.rec, rev[c.rev].changes[i])'
              \/ \E j \in DOMAIN c.todo : c.todo[j] = rev'[c.rev].changes[i]
          BY <2>3, <3>1 DEF Pending
        <4>3. CASE HasBeen(c.rec, rev[c.rev].changes[i])'
          BY <2>3, <4>3 DEF HasBeen
        <4>4. CASE \E j \in DOMAIN c.todo : c.todo[j] = rev'[c.rev].changes[i]
          BY <2>3, <4>4
        <4>5. QED
          BY <4>2, <4>3, <4>4
      <3>3. QED
        BY <2>3, <3>1, <3>2 DEF HasBeen
    <2>a. Promise(d)'
      BY <2>3, <2>4 DEF AtRow, Promise, Refers, Holds, Knows, Changing, Revising, IdPcs, ChangePcs, DecidePcs,
       AskPcs, RecordPcs, RevPcs
    <2>5. Become(h, d)
      BY <1>2, <2>2
    <2>6. QED
      BY <2>a, <2>5, MovesThen
  <1>3. QED
    BY <1>1, <1>2 DEF AfterRow

\* The least of a set of keys.
LEMMA LeastMember ==
    ASSUME NEW S \in SUBSET Nat, S # {}
    PROVE  (CHOOSE x \in S : \A y \in S : x <= y) \in S
  <1>1. OpToRel(<, Nat) = {z \in Nat \X Nat : z[1] < z[2]}
    BY DEF OpToRel
  <1>2. PICK R : R = {z \in Nat \X Nat : z[1] < z[2]} /\ IsWellFoundedOn(R, Nat)
    BY <1>1, NatLessThanWellFounded, Zenon
  <1>3. PICK x \in S : \A y \in S : ~ (<<y, x>> \in R)
    BY <1>2, WFMin
  <1>4. \A y \in S : x <= y
    <2>1. ASSUME NEW y \in S, y < x PROVE <<y, x>> \in R
      BY <1>2, <2>1
    <2>2. \A y \in S : x \in Nat /\ y \in Nat /\ ~(y < x)
      BY <1>3, <2>1
    <2>3. QED
      BY <2>2
  <1>5. QED
    BY <1>4

\* The next record whose identity is computed, or the end of the call.
LEMMA RecomputeStep ==
    ASSUME Inv, Stored', Grows, NEW h \in Handlers, NEW c \in Calls, c.op = "recompute",
           NEW ids \in SUBSET Records, \A r \in ids : rec[r] # Null, Become(h, Recompute(c, ids))
    PROVE  Inv'
  <1>1. CASE ids = {}
    BY <1>1, DoneStep DEF Recompute, Done
  <1>2. CASE ids # {}
    <2>1. ids \in SUBSET Nat
      BY KeysAssumption
    <2>2. PICK r \in ids : r = CHOOSE x \in ids : \A y \in ids : x <= y
      BY <1>2, <2>1, LeastMember, Zenon
    <2>3. [c EXCEPT !.pc = "id_read", !.left = ids, !.rec = r] \in Calls
      BY DEF Calls
    <2>4. PICK d \in Calls : d = [c EXCEPT !.pc = "id_read", !.left = ids, !.rec = r]
      BY <2>3, Zenon
    <2>5. d.pc = "id_read" /\ d.left = ids /\ d.rec = r /\ d.op = "recompute"
      BY <2>4 DEF Calls
    <2>6. Promise(d)
      BY <2>5 DEF Promise, Refers, Holds, Knows, Changing, Revising, IdPcs, ChangePcs, DecidePcs,
       AskPcs, RecordPcs, RevPcs
    <2>7. Become(h, d)
      BY <1>2, <2>2, <2>4 DEF Recompute
    <2>8. QED
      BY <2>6, <2>7, Moves
  <1>3. QED
    BY <1>1, <1>2

-----------------------------------------------------------------------------
(* One lemma for each action.                                              *)

LEMMA Reads ==
    ASSUME Inv, UNCHANGED <<records, rows, revisions>>, NEW h \in Handlers, NEW d \in Calls,
           Become(h, d), Promise(d)
    PROVE  Inv'
  BY Quiet, Moves

LEMMA ReadsDone ==
    ASSUME Inv, UNCHANGED <<records, rows, revisions>>, NEW h \in Handlers, Done(h)
    PROVE  Inv'
  BY Quiet, DoneStep

LEMMA CrashStep ==
    ASSUME Inv, Crash
    PROVE  Inv'
  <1>1. Stored' /\ Grows
    BY Quiet DEF Crash
  <1>2. PICK d \in Calls : d = Idle /\ Promise(d)
    BY IdleFine
  <1>3. Promise(d)'
    BY <1>1, <1>2, Stable DEF Inv, Stored
  <1>4. call' \in [Handlers -> Calls] /\ \A g \in Handlers : call'[g] = d
    BY <1>2 DEF Crash
  <1>5. ASSUME NEW g \in Handlers PROVE Promise(call[g])'
    <2>1. call'[g] = d
      BY <1>4
    <2>2. QED
      BY <1>3, <2>1 DEF Promise, Refers, Holds, Knows, Changing, Revising, Pending
  <1>6. QED
    BY <1>1, <1>4, <1>5 DEF Inv, Promises

LEMMA ArrivalStep ==
    ASSUME Inv, NEW h \in Handlers, Arrivals(h)
    PROVE  Inv'
  <1> USE DEF Ops
  <1>0. PICK i \in Calls : i = Idle
    BY IdleFine
  <1>1. ASSUME NEW f \in Finds, ArriveParse(h, f) PROVE Inv'
    <2>1. f \in Seq(Change)
      BY FindsAssumption
    <2>2. [i EXCEPT !.op = "parse", !.pc = "insert_record", !.todo = f] \in Calls
      BY <2>1 DEF Calls
    <2>3. PICK d \in Calls : d = [i EXCEPT !.op = "parse", !.pc = "insert_record", !.todo = f]
      BY <2>2, Zenon
    <2>4. d.pc = "insert_record" /\ d.op = "parse"
      BY <2>3 DEF Calls
    <2>5. Promise(d)
      BY <2>4 DEF Promise, Refers, Holds, Knows, Changing, Revising, IdPcs, ChangePcs, DecidePcs,
           AskPcs, RecordPcs, RevPcs
    <2>6. Become(h, d) /\ UNCHANGED <<records, rows, revisions>>
      BY <1>0, <1>1, <2>3 DEF ArriveParse, Arrive
    <2>7. QED
      BY <2>5, <2>6, Reads
  <1>2. ASSUME NEW r \in Records, NEW b \in BOOLEAN, NEW x \in Corrections, ArriveCorrect(h, r, x, b) PROVE Inv'
    <2>1. <<x>> \in Seq(Change) /\ <<x>> # <<>>
      BY ChangesAssumption
    <2>2. PICK todo \in Seq(Change) : todo = <<x>> /\ todo # <<>>
      BY <2>1, Zenon
    <2>3. [i EXCEPT !.op = "correct", !.pc = "field_read", !.rec = r, !.todo = todo, !.flag = b] \in Calls
      BY DEF Calls
    <2>4. PICK d \in Calls : d = [i EXCEPT !.op = "correct", !.pc = "field_read", !.rec = r, !.todo = todo, !.flag = b]
      BY <2>3, Zenon
    <2>5. d.pc = "field_read" /\ d.op = "correct" /\ d.rec = r /\ d.todo = todo
      BY <2>4 DEF Calls
    <2>6. rec[r] # Null /\ Become(h, d) /\ UNCHANGED <<records, rows, revisions>>
      BY <1>0, <1>2, <2>2, <2>4 DEF ArriveCorrect, Arrive
    <2>7. Promise(d)
      BY <2>2, <2>5, <2>6 DEF Promise, Refers, Holds, Knows, Changing, Revising, IdPcs, ChangePcs, DecidePcs,
           AskPcs, RecordPcs, RevPcs
    <2>8. QED
      BY <2>6, <2>7, Reads
  <1>3. ASSUME NEW r \in Records, NEW b \in BOOLEAN, NEW op \in {"approve", "reject"}, ArriveDecide(h, op, r, b)
        PROVE Inv'
    <2>1. [i EXCEPT !.op = op, !.pc = "decide_read", !.rec = r, !.flag = b] \in Calls
      BY DEF Calls
    <2>2. PICK d \in Calls : d = [i EXCEPT !.op = op, !.pc = "decide_read", !.rec = r, !.flag = b]
      BY <2>1, Zenon
    <2>3. d.pc = "decide_read" /\ d.rec = r /\ d.op = op
      BY <2>2 DEF Calls
    <2>4. rec[r] # Null /\ Become(h, d) /\ UNCHANGED <<records, rows, revisions>>
      BY <1>0, <1>3, <2>2 DEF ArriveDecide, Arrive
    <2>5. Promise(d)
      BY <2>3, <2>4 DEF Promise, Refers, Holds, Knows, Changing, Revising, IdPcs, ChangePcs, DecidePcs,
           AskPcs, RecordPcs, RevPcs
    <2>6. QED
      BY <2>4, <2>5, Reads
  <1>4. ASSUME NEW ids \in {Known, {r \in Known : rec[r].id = Null}}, ArriveRecompute(h, ids) PROVE Inv'
    <2>1. [i EXCEPT !.op = "recompute"] \in Calls
      BY DEF Calls
    <2>2. PICK c \in Calls : c = [i EXCEPT !.op = "recompute"]
      BY <2>1, Zenon
    <2>3. c.op = "recompute"
      BY <2>2 DEF Calls
    <2>4. ids \in SUBSET Records /\ \A r \in ids : rec[r] # Null
      BY DEF Known
    <2>5. Become(h, Recompute(c, ids)) /\ UNCHANGED <<records, rows, revisions>>
      BY <1>0, <1>4, <2>2 DEF ArriveRecompute, Arrive
    <2>6. QED
      BY <2>3, <2>4, <2>5, Quiet, RecomputeStep
  <1>5. ASSUME NEW r \in Records, NEW p \in People, NEW x \in Changes, ArriveRequest(h, r, p, x) PROVE Inv'
    <2>1. x \in Seq(Change)
      BY ChangesAssumption
    <2>2. [i EXCEPT !.op = "request", !.pc = "request_read", !.rec = r, !.who = p, !.todo = x] \in Calls
      BY <2>1 DEF Calls
    <2>3. PICK d \in Calls : d = [i EXCEPT !.op = "request", !.pc = "request_read", !.rec = r, !.who = p, !.todo = x]
      BY <2>2, Zenon
    <2>4. d.pc = "request_read" /\ d.rec = r /\ d.who = p /\ d.todo = x /\ d.op = "request"
      BY <2>3 DEF Calls
    <2>5. rec[r] # Null /\ Become(h, d) /\ UNCHANGED <<records, rows, revisions>>
      BY <1>0, <1>5, <2>3 DEF ArriveRequest, Arrive
    <2>6. Promise(d)
      BY <2>4, <2>5 DEF Promise, Refers, Holds, Knows, Changing, Revising, IdPcs, ChangePcs, DecidePcs,
           AskPcs, RecordPcs, RevPcs
    <2>7. QED
      BY <2>5, <2>6, Reads
  <1>6. ASSUME NEW v \in Revisions, ArriveSubmit(h, v) PROVE Inv'
    <2>1. [i EXCEPT !.op = "submit", !.pc = "submit_read", !.rev = v] \in Calls
      BY DEF Calls
    <2>2. PICK d \in Calls : d = [i EXCEPT !.op = "submit", !.pc = "submit_read", !.rev = v]
      BY <2>1, Zenon
    <2>3. d.pc = "submit_read" /\ d.rev = v /\ d.op = "submit"
      BY <2>2 DEF Calls
    <2>4. rev[v] # Null /\ Become(h, d) /\ UNCHANGED <<records, rows, revisions>>
      BY <1>0, <1>6, <2>2 DEF ArriveSubmit, Arrive
    <2>5. Promise(d)
      BY <2>3, <2>4 DEF Promise, Refers, Holds, Knows, Changing, Revising, IdPcs, ChangePcs, DecidePcs,
           AskPcs, RecordPcs, RevPcs
    <2>6. QED
      BY <2>4, <2>5, Reads
  <1>7. ASSUME NEW v \in Revisions, NEW op \in {"approve_revision", "reject_revision"}, NEW p \in People,
               ArriveRevision(h, op, v, p)
        PROVE Inv'
    <2>1. [i EXCEPT !.op = op, !.pc = "revision_read", !.rev = v, !.who = p] \in Calls
      BY DEF Calls
    <2>2. PICK d \in Calls : d = [i EXCEPT !.op = op, !.pc = "revision_read", !.rev = v, !.who = p]
      BY <2>1, Zenon
    <2>3. d.pc = "revision_read" /\ d.rev = v /\ d.op = op
      BY <2>2 DEF Calls
    <2>4. rev[v] # Null /\ Become(h, d) /\ UNCHANGED <<records, rows, revisions>>
      BY <1>0, <1>7, <2>2 DEF ArriveRevision, Arrive
    <2>5. Promise(d)
      BY <2>3, <2>4 DEF Promise, Refers, Holds, Knows, Changing, Revising, IdPcs, ChangePcs, DecidePcs,
           AskPcs, RecordPcs, RevPcs
    <2>6. QED
      BY <2>4, <2>5, Reads
  <1>8. QED
    BY <1>1, <1>2, <1>3, <1>4, <1>5, <1>6, <1>7 DEF Arrivals

LEMMA InsertRecordStep ==
    ASSUME Inv, NEW h \in Handlers, InsertRecord(h)
    PROVE  Inv'
  <1>1. PICK b \in Calls : b = call[h] /\ Promise(b)
    BY Own
  <1>2. PICK r \in Records : r = lastRec + 1
    BY DEF InsertRecord
  <1>3. b.pc = "insert_record" /\ b.op = "parse"
    BY <1>1 DEF InsertRecord, At, Promise, Refers
  <1>4. [status |-> "pending", override |-> FALSE, version |-> 1, id |-> Null] \in Recs
    BY DEF Recs
  <1>5. PICK row \in Recs : row = [status |-> "pending", override |-> FALSE, version |-> 1, id |-> Null]
    BY <1>4, Zenon
  <1>6. row.status = "pending" /\ row.version = 1 /\ row.id = Null
    BY <1>5
  <1>7. rec' = [rec EXCEPT ![r] = row] /\ lastRec' = r /\ UNCHANGED <<rows, revisions>>
    BY <1>2, <1>5 DEF InsertRecord
  <1>8. lastRec \in Nat /\ lastRec <= r /\ r \in Nat
    BY <1>2 DEF Inv, Stored, Tables
  <1>9. Stored' /\ Grows
    <2>1. ~(row.version > 1) /\ row.status # "approved" /\ r <= r
      BY <1>6, <1>8
    <2>2. QED
      BY <1>6, <1>7, <1>8, <2>1, RecChange
  <1>10. rec'[r] # Null
    BY <1>7, NullAssumption DEF Inv, Stored, Tables
  <1>11. CASE b.todo = <<>>
    <2>1. [b EXCEPT !.rec = r, !.pc = "id_read"] \in Calls
      BY DEF Calls
    <2>2. PICK d \in Calls : d = [b EXCEPT !.rec = r, !.pc = "id_read"]
      BY <2>1, Zenon
    <2>3. d.pc = "id_read" /\ d.rec = r /\ d.op = "parse"
      BY <1>3, <2>2 DEF Calls
    <2>4. Promise(d)'
      BY <1>10, <2>3 DEF Promise, Refers, Holds, Knows, Changing, Revising, IdPcs, ChangePcs, DecidePcs,
           AskPcs, RecordPcs, RevPcs
    <2>5. Become(h, d)
      BY <1>1, <1>2, <1>11, <2>2 DEF InsertRecord
    <2>6. QED
      BY <1>9, <2>4, <2>5, MovesThen
  <1>12. CASE b.todo # <<>>
    <2>1. [b EXCEPT !.rec = r, !.pc = "insert_fields"] \in Calls
      BY DEF Calls
    <2>2. PICK d \in Calls : d = [b EXCEPT !.rec = r, !.pc = "insert_fields"]
      BY <2>1, Zenon
    <2>3. d.pc = "insert_fields" /\ d.rec = r /\ d.op = "parse" /\ d.todo # <<>>
      BY <1>3, <1>12, <2>2 DEF Calls
    <2>4. Promise(d)'
      BY <1>10, <2>3 DEF Promise, Refers, Holds, Knows, Changing, Revising, IdPcs, ChangePcs, DecidePcs,
           AskPcs, RecordPcs, RevPcs
    <2>5. Become(h, d)
      BY <1>1, <1>2, <1>12, <2>2 DEF InsertRecord
    <2>6. QED
      BY <1>9, <2>4, <2>5, MovesThen
  <1>13. QED
    BY <1>11, <1>12

LEMMA InsertFieldStep ==
    ASSUME Inv, NEW h \in Handlers, InsertField(h)
    PROVE  Inv'
  <1>1. PICK b \in Calls : b = call[h] /\ Promise(b)
    BY Own
  <1>2. b.pc = "insert_fields" /\ b.op = "parse" /\ b.todo # <<>> /\ b.rec \in Records /\ rec[b.rec] # Null
    BY <1>1 DEF InsertField, At, Promise, Refers, Holds, Knows, Changing, Revising, IdPcs, ChangePcs, DecidePcs,
           AskPcs, RecordPcs, RevPcs
  <1>3. PICK x \in Change, rest \in Seq(Change) : x = Head(b.todo) /\ rest = Tail(b.todo)
    BY <1>2, HeadChange, HeadAndRest
  <1>4. AppendRow(b.rec, x, Null) /\ UNCHANGED <<records, revisions>>
    BY <1>1, <1>3 DEF InsertField
  <1>5. Stored' /\ Grows
    BY <1>2, <1>4, AppendedRow
  <1>6. CASE rest = <<>>
    <2>1. [b EXCEPT !.todo = rest, !.pc = "id_read"] \in Calls
      BY DEF Calls
    <2>2. PICK d \in Calls : d = [b EXCEPT !.todo = rest, !.pc = "id_read"]
      BY <2>1, Zenon
    <2>3. d.pc = "id_read" /\ d.rec = b.rec /\ d.op = "parse"
      BY <1>2, <2>2 DEF Calls
    <2>4. Promise(d)
      BY <1>2, <2>3 DEF Promise, Refers, Holds, Knows, Changing, Revising, IdPcs, ChangePcs, DecidePcs,
           AskPcs, RecordPcs, RevPcs
    <2>5. Become(h, d)
      BY <1>1, <1>3, <1>6, <2>2 DEF InsertField
    <2>6. QED
      BY <1>5, <2>4, <2>5, Moves
  <1>7. CASE rest # <<>>
    <2>1. [b EXCEPT !.todo = rest, !.pc = "insert_fields"] \in Calls
      BY DEF Calls
    <2>2. PICK d \in Calls : d = [b EXCEPT !.todo = rest, !.pc = "insert_fields"]
      BY <2>1, Zenon
    <2>3. d.pc = "insert_fields" /\ d.rec = b.rec /\ d.op = "parse" /\ d.todo # <<>>
      BY <1>2, <1>7, <2>2 DEF Calls
    <2>4. Promise(d)
      BY <1>2, <2>3 DEF Promise, Refers, Holds, Knows, Changing, Revising, IdPcs, ChangePcs, DecidePcs,
           AskPcs, RecordPcs, RevPcs
    <2>5. Become(h, d)
      BY <1>1, <1>3, <1>7, <2>2 DEF InsertField
    <2>6. QED
      BY <1>5, <2>4, <2>5, Moves
  <1>8. QED
    BY <1>6, <1>7

\* Two calls with the same record, revision and work have the same pending.
LEMMA SamePending ==
    ASSUME NEW b \in Calls, NEW d \in Calls, d.rec = b.rec, d.rev = b.rev, d.todo = b.todo
    PROVE  /\ Pending(b) => Pending(d)
           /\ Pending(b)' => Pending(d)'
           /\ HasBeen(b.rec, Head(b.todo)) => HasBeen(d.rec, Head(d.todo))
           /\ HasBeen(b.rec, Head(b.todo))' => HasBeen(d.rec, Head(d.todo))'
  <1>1. ASSUME Pending(b) PROVE Pending(d)
    <2>1. SUFFICES ASSUME NEW i \in DOMAIN rev[d.rev].changes
                   PROVE  \/ HasBeen(d.rec, rev[d.rev].changes[i])
                          \/ \E j \in DOMAIN d.todo : d.todo[j] = rev[d.rev].changes[i]
      BY DEF Pending
    <2>2. \/ HasBeen(b.rec, rev[b.rev].changes[i])
          \/ \E j \in DOMAIN b.todo : b.todo[j] = rev[b.rev].changes[i]
      BY <1>1 DEF Pending
    <2>3. CASE HasBeen(b.rec, rev[b.rev].changes[i])
      BY <2>3 DEF HasBeen
    <2>4. CASE \E j \in DOMAIN b.todo : b.todo[j] = rev[b.rev].changes[i]
      BY <2>4
    <2>5. QED
      BY <2>2, <2>3, <2>4
  <1>2. ASSUME Pending(b)' PROVE Pending(d)'
    <2>1. SUFFICES ASSUME NEW i \in DOMAIN rev'[d.rev].changes
                   PROVE  \/ HasBeen(d.rec, rev[d.rev].changes[i])'
                          \/ \E j \in DOMAIN d.todo : d.todo[j] = rev'[d.rev].changes[i]
      BY DEF Pending
    <2>2. \/ HasBeen(b.rec, rev[b.rev].changes[i])'
          \/ \E j \in DOMAIN b.todo : b.todo[j] = rev'[b.rev].changes[i]
      BY <1>2 DEF Pending
    <2>3. CASE HasBeen(b.rec, rev[b.rev].changes[i])'
      BY <2>3 DEF HasBeen
    <2>4. CASE \E j \in DOMAIN b.todo : b.todo[j] = rev'[b.rev].changes[i]
      BY <2>4
    <2>5. QED
      BY <2>2, <2>3, <2>4
  <1>3. HasBeen(b.rec, Head(b.todo)) => HasBeen(d.rec, Head(d.todo))
    BY DEF HasBeen
  <1>4. HasBeen(b.rec, Head(b.todo))' => HasBeen(d.rec, Head(d.todo))'
    BY DEF HasBeen
  <1>5. QED
    BY <1>1, <1>2, <1>3, <1>4

\* A call about to make a change, what it asks and where.
LEMMA AtChange ==
    ASSUME NEW b \in Calls, Promise(b), b.pc \in ChangePcs
    PROVE  /\ b.op \in {"correct", "approve_revision"} /\ b.todo # <<>>
           /\ b.rec \in Records /\ rec[b.rec] # Null
           /\ Head(b.todo) \in Change /\ Head(b.todo).name \in Names
           /\ b.op = "approve_revision" =>
                b.rev \in Revisions /\ rev[b.rev] # Null /\ rev[b.rev].rec = b.rec /\ Pending(b)
  <1>1. b.todo # <<>>
    BY DEF Promise, Holds, Changing
  <1>2. QED
    BY <1>1, HeadChange DEF Promise, Refers, Knows, Changing, Revising, RecordPcs

LEMMA FieldReadStep ==
    ASSUME Inv, NEW h \in Handlers, FieldRead(h)
    PROVE  Inv'
  <1>1. PICK b \in Calls : b = call[h] /\ Promise(b)
    BY Own
  <1>2. b.pc = "field_read" /\ UNCHANGED <<records, rows, revisions>>
    BY <1>1 DEF FieldRead, At
  <1>3. /\ b.op \in {"correct", "approve_revision"} /\ b.todo # <<>>
        /\ b.rec \in Records /\ rec[b.rec] # Null
        /\ Head(b.todo) \in Change /\ Head(b.todo).name \in Names
        /\ b.op = "approve_revision" =>
             b.rev \in Revisions /\ rev[b.rev] # Null /\ rev[b.rev].rec = b.rec /\ Pending(b)
    BY <1>1, <1>2, AtChange DEF ChangePcs
  <1>4. PICK x \in Change : x = Head(b.todo)
    BY <1>3
  <1>5. ASSUME NEW old \in Nat, old = 0 \/ old \in DOMAIN rows[b.rec][x.name],
               Become(h, [b EXCEPT !.pc = "insert_row", !.old = old])
        PROVE  Inv'
    <2>1. [b EXCEPT !.pc = "insert_row", !.old = old] \in Calls
      BY DEF Calls
    <2>2. PICK d \in Calls : d = [b EXCEPT !.pc = "insert_row", !.old = old]
      BY <2>1, Zenon
    <2>3. /\ d.pc = "insert_row" /\ d.rec = b.rec /\ d.rev = b.rev /\ d.op = b.op /\ d.todo = b.todo
          /\ d.old = old
      BY <2>2 DEF Calls
    <2>4. d.op = "approve_revision" => Pending(d)
      BY <1>3, <2>3, SamePending
    <2>5. d.old = 0 \/ d.old \in DOMAIN rows[d.rec][Head(d.todo).name]
      BY <1>4, <1>5, <2>3
    <2>6. Promise(d)
      BY <1>3, <2>3, <2>4, <2>5 DEF Promise, Refers, Holds, Knows, Changing, Revising, IdPcs, ChangePcs, DecidePcs,
           AskPcs, RecordPcs, RevPcs
    <2>7. QED
      BY <1>2, <1>5, <2>2, <2>6, Reads
  <1>6. CASE Done(h)
    BY <1>2, <1>6, ReadsDone
  <1>7. CASE Become(h, [b EXCEPT !.pc = "insert_row", !.old = 0])
    BY <1>5, <1>7
  <1>8. ASSUME NEW k \in Live(b.rec, x.name),
               IF rows[b.rec][x.name][k].value = x.value
                 THEN NextChange(h, b) ELSE Become(h, [b EXCEPT !.pc = "insert_row", !.old = k])
        PROVE  Inv'
    <2>1. k \in DOMAIN rows[b.rec][x.name] /\ k \in Nat
      <3>1. DOMAIN rows[b.rec][x.name] = 1 .. Len(rows[b.rec][x.name]) /\ Len(rows[b.rec][x.name]) \in Nat
        BY <1>3, <1>4, RowsTyped DEF Inv, Stored
      <3>2. QED
        BY <1>8, <3>1 DEF Live
    <2>2. CASE rows[b.rec][x.name][k].value = x.value
      <3>1. HasBeen(b.rec, Head(b.todo))
        BY <1>4, <2>1, <2>2 DEF HasBeen
      <3>2. AtRow(b)
        BY <1>3, <3>1 DEF AtRow
      <3>3. Stored' /\ Grows
        BY <1>2, Quiet
      <3>4. AtRow(b)'
        BY <3>2, <3>3, AtRowLasts DEF Inv, Stored
      <3>5. QED
        BY <1>8, <2>2, <3>3, <3>4, NextChangeStep
    <2>3. CASE rows[b.rec][x.name][k].value # x.value
      BY <1>5, <1>8, <2>1, <2>3
    <2>4. QED
      BY <2>2, <2>3
  <1>9. \/ Done(h)
        \/ Become(h, [b EXCEPT !.pc = "insert_row", !.old = 0])
        \/ \E k \in Live(b.rec, x.name) :
             IF rows[b.rec][x.name][k].value = x.value
               THEN NextChange(h, b) ELSE Become(h, [b EXCEPT !.pc = "insert_row", !.old = k])
    BY <1>1, <1>4 DEF FieldRead
  <1>10. QED
    BY <1>6, <1>7, <1>8, <1>9

LEMMA InsertRowStep ==
    ASSUME Inv, NEW h \in Handlers, InsertRow(h)
    PROVE  Inv'
  <1>1. PICK b \in Calls : b = call[h] /\ Promise(b)
    BY Own
  <1>2. b.pc = "insert_row" /\ UNCHANGED <<records, revisions>>
    BY <1>1 DEF InsertRow, At
  <1>3. /\ b.op \in {"correct", "approve_revision"} /\ b.todo # <<>>
        /\ b.rec \in Records /\ rec[b.rec] # Null
        /\ Head(b.todo) \in Change /\ Head(b.todo).name \in Names
        /\ b.op = "approve_revision" =>
             b.rev \in Revisions /\ rev[b.rev] # Null /\ rev[b.rev].rec = b.rec /\ Pending(b)
    BY <1>1, <1>2, AtChange DEF ChangePcs
  <1>4. PICK x \in Change : x = Head(b.todo)
    BY <1>3
  <1>5. b.rev \in Revisions \cup {Null}
    BY DEF Calls
  <1>6. AppendRow(b.rec, x, b.rev)
    BY <1>1, <1>4 DEF InsertRow
  <1>7. /\ Stored' /\ Grows /\ HasBeen(b.rec, x)'
        /\ Len(rows[b.rec][x.name]) + 1 \in DOMAIN rows'[b.rec][x.name]
        /\ \A k \in DOMAIN rows[b.rec][x.name] : k < Len(rows[b.rec][x.name]) + 1
    BY <1>2, <1>3, <1>5, <1>6, AppendedRow
  <1>8. b.op = "approve_revision" => Pending(b)'
    BY <1>3, <1>7, PendingLasts DEF Inv, Stored
  <1>9. HasBeen(b.rec, Head(b.todo))'
    BY <1>4, <1>7 DEF HasBeen
  <1>10. /\ rec'[b.rec] # Null
         /\ b.op = "approve_revision" => b.rev \in Revisions /\ rev'[b.rev] # Null /\ rev'[b.rev].rec = b.rec
    BY <1>2, <1>3 DEF records, revisions
  <1>11. CASE b.old = 0
    <2>1. AtRow(b)'
      BY <1>3, <1>8, <1>9, <1>10 DEF AtRow
    <2>2. AfterRow(h, b)
      BY <1>1, <1>11 DEF InsertRow
    <2>3. QED
      BY <1>7, <2>1, <2>2, AfterRowStep
  <1>12. CASE b.old # 0
    <2>1. PICK new \in Nat : new = Len(rows[b.rec][x.name]) + 1
      BY <1>3, <1>4, RowsTyped DEF Inv, Stored
    <2>2. [b EXCEPT !.pc = "supersede", !.new = new] \in Calls
      BY DEF Calls
    <2>3. PICK d \in Calls : d = [b EXCEPT !.pc = "supersede", !.new = new]
      BY <2>2, Zenon
    <2>4. /\ d.pc = "supersede" /\ d.rec = b.rec /\ d.rev = b.rev /\ d.op = b.op /\ d.todo = b.todo
          /\ d.old = b.old /\ d.new = new
      BY <2>3 DEF Calls
    <2>5. b.old \in DOMAIN rows[b.rec][x.name]
      BY <1>1, <1>2, <1>4, <1>12 DEF Promise, Knows
    <2>6. b.old \in DOMAIN rows'[b.rec][x.name]
      BY <1>3, <1>4, <1>7, <2>5 DEF Grows, RowsStay
    <2>7. /\ d.old \in DOMAIN rows'[d.rec][Head(d.todo).name]
          /\ d.new \in DOMAIN rows'[d.rec][Head(d.todo).name]
          /\ d.old < d.new
      BY <1>4, <1>7, <2>1, <2>4, <2>5, <2>6
    <2>8. HasBeen(d.rec, Head(d.todo))' /\ (d.op = "approve_revision" => Pending(d)')
      BY <1>8, <1>9, <2>4, SamePending
    <2>9. Promise(d)'
      BY <1>3, <1>10, <2>4, <2>7, <2>8 DEF Promise, Refers, Holds, Knows, Changing, Revising, IdPcs, ChangePcs, DecidePcs,
           AskPcs, RecordPcs, RevPcs
    <2>10. Become(h, d)
      BY <1>1, <1>4, <1>12, <2>1, <2>3 DEF InsertRow
    <2>11. QED
      BY <1>7, <2>9, <2>10, MovesThen
  <1>13. QED
    BY <1>11, <1>12

LEMMA SupersedeStep ==
    ASSUME Inv, NEW h \in Handlers, Supersede(h)
    PROVE  Inv'
  <1>1. PICK b \in Calls : b = call[h] /\ Promise(b)
    BY Own
  <1>2. b.pc = "supersede" /\ UNCHANGED <<records, revisions>>
    BY <1>1 DEF Supersede, At
  <1>3. /\ b.op \in {"correct", "approve_revision"} /\ b.todo # <<>>
        /\ b.rec \in Records /\ rec[b.rec] # Null
        /\ Head(b.todo) \in Change /\ Head(b.todo).name \in Names
        /\ b.op = "approve_revision" =>
             b.rev \in Revisions /\ rev[b.rev] # Null /\ rev[b.rev].rec = b.rec /\ Pending(b)
    BY <1>1, <1>2, AtChange DEF ChangePcs
  <1>4. PICK n \in Names : n = Head(b.todo).name
    BY <1>3
  <1>5. b.old \in DOMAIN rows[b.rec][n] /\ b.new \in DOMAIN rows[b.rec][n] /\ b.old < b.new
    BY <1>1, <1>2, <1>4 DEF Promise, Knows
  <1>6. MarkRow(b.rec, n, b.old, b.new)
    BY <1>1, <1>4 DEF Supersede, MarkRow
  <1>7. Stored' /\ Grows
    BY <1>2, <1>3, <1>5, <1>6, SupersededRow
  <1>8. AtRow(b)
    BY <1>1, <1>2, <1>3 DEF AtRow, Promise, Knows, Revising, ChangePcs
  <1>9. AtRow(b)'
    BY <1>7, <1>8, AtRowLasts DEF Inv, Stored
  <1>10. AfterRow(h, b)
    BY <1>1 DEF Supersede
  <1>11. QED
    BY <1>7, <1>9, <1>10, AfterRowStep

\* A call goes on computing the identity.
LEMMA IdGoesOn ==
    ASSUME NEW b \in Calls, NEW d \in Calls, Promise(b), b.pc \in IdPcs, d.pc \in {"id_check", "id_write"},
           d.op = b.op, d.rec = b.rec, d.rev = b.rev, d.todo = b.todo, d.left = b.left,
           d.pc = "id_check" => d.id # Null /\ ~d.id.own,
           d.id # Null => Had(b.rec, d.id)
    PROVE  Promise(d)
  <1>1. Revising(b) => Pending(d) /\ HasBeen(d.rec, Head(d.todo))
    BY SamePending DEF Promise, Knows
  <1>2. Revising(d) <=> Revising(b)
    BY DEF Revising, IdPcs
  <1>3. Changing(d) <=> Changing(b)
    BY DEF Changing, IdPcs, ChangePcs
  <1>4. Refers(d)
    BY <1>2, <1>3 DEF Promise, Refers, IdPcs, ChangePcs, DecidePcs, AskPcs, RecordPcs, RevPcs
  <1>5. Holds(d)
    BY <1>3 DEF Promise, Holds, IdPcs, AskPcs
  <1>6. d.id # Null => Had(d.rec, d.id)
    BY DEF Had
  <1>7. Knows(d)
    BY <1>1, <1>2, <1>6 DEF Knows, IdPcs
  <1>8. QED
    BY <1>4, <1>5, <1>7 DEF Promise

LEMMA IdReadStep ==
    ASSUME Inv, NEW h \in Handlers, IdRead(h)
    PROVE  Inv'
  <1>1. PICK b \in Calls : b = call[h] /\ Promise(b)
    BY Own
  <1>2. b.pc = "id_read" /\ UNCHANGED <<records, rows, revisions>>
    BY <1>1 DEF IdRead, At
  <1>3. b.rec \in Records
    BY <1>1, <1>2 DEF Promise, Refers, RecordPcs, IdPcs
  <1>4. PICK go \in [IdNames -> Values \cup {Null}] :
          /\ \A n \in IdNames : go[n] \in LiveValues(b.rec, n)
          /\ IF \A n \in IdNames : go[n] \in Parsable
               THEN Become(h, [b EXCEPT !.pc = "id_check", !.id = [go |-> go, own |-> FALSE]])
               ELSE Become(h, [b EXCEPT !.pc = "id_write", !.id = Null])
    BY <1>1 DEF IdRead
  <1>5. CASE \A n \in IdNames : go[n] \in Parsable
    <2>1. [go |-> go, own |-> FALSE] \in Identities
      BY <1>5 DEF Identities
    <2>2. PICK id \in Identities : id = [go |-> go, own |-> FALSE]
      BY <2>1, Zenon
    <2>3. id # Null /\ id.go = go /\ ~id.own
      BY <2>2, NullAssumption
    <2>4. Had(b.rec, id)
      <3>1. SUFFICES ASSUME NEW n \in IdNames
                     PROVE  \E k \in DOMAIN rows[b.rec][n] : rows[b.rec][n][k].value = go[n]
        BY <2>3 DEF Had
      <3>2. go[n] # Null
        BY <1>5, ValuesAssumption, NullAssumption
      <3>3. PICK k \in Live(b.rec, n) : rows[b.rec][n][k].value = go[n]
        BY <1>4, <3>2 DEF LiveValues
      <3>4. DOMAIN rows[b.rec][n] = 1 .. Len(rows[b.rec][n])
        BY <1>3, NameFacts, RowsTyped DEF Inv, Stored
      <3>5. QED
        BY <3>3, <3>4 DEF Live
    <2>5. [b EXCEPT !.pc = "id_check", !.id = id] \in Calls
      BY DEF Calls
    <2>6. PICK d \in Calls : d = [b EXCEPT !.pc = "id_check", !.id = id]
      BY <2>5, Zenon
    <2>7. /\ d.pc = "id_check" /\ d.id = id
          /\ d.op = b.op /\ d.rec = b.rec /\ d.rev = b.rev /\ d.todo = b.todo /\ d.left = b.left
      BY <2>6 DEF Calls
    <2>a. d.id # Null /\ ~d.id.own /\ Had(b.rec, d.id)
      BY <2>3, <2>4, <2>7 DEF Had
    <2>8. Promise(d)
      BY <1>1, <1>2, <2>7, <2>a, IdGoesOn DEF IdPcs
    <2>9. Become(h, d)
      BY <1>4, <1>5, <2>2, <2>6
    <2>10. QED
      BY <1>2, <2>8, <2>9, Reads
  <1>6. CASE ~ \A n \in IdNames : go[n] \in Parsable
    <2>1. [b EXCEPT !.pc = "id_write", !.id = Null] \in Calls
      BY DEF Calls
    <2>2. PICK d \in Calls : d = [b EXCEPT !.pc = "id_write", !.id = Null]
      BY <2>1, Zenon
    <2>3. /\ d.pc = "id_write" /\ d.id = Null
          /\ d.op = b.op /\ d.rec = b.rec /\ d.rev = b.rev /\ d.todo = b.todo /\ d.left = b.left
      BY <2>2 DEF Calls
    <2>4. Promise(d)
      BY <1>1, <1>2, <2>3, IdGoesOn DEF IdPcs
    <2>5. Become(h, d)
      BY <1>4, <1>6, <2>2
    <2>6. QED
      BY <1>2, <2>4, <2>5, Reads
  <1>7. QED
    BY <1>5, <1>6

LEMMA IdCheckStep ==
    ASSUME Inv, NEW h \in Handlers, IdCheck(h)
    PROVE  Inv'
  <1>1. PICK b \in Calls : b = call[h] /\ Promise(b)
    BY Own
  <1>2. b.pc = "id_check" /\ UNCHANGED <<records, rows, revisions>>
    BY <1>1 DEF IdCheck, At
  <1>3. b.id # Null /\ Had(b.rec, b.id)
    BY <1>1, <1>2 DEF Promise, Holds, Knows
  <1>4. b.id \in Identities
    BY <1>3 DEF Calls
  <1>5. PICK own \in BOOLEAN : Become(h, [b EXCEPT !.pc = "id_write", !.id.own = own])
    BY <1>1 DEF IdCheck
  <1>6. [b.id EXCEPT !.own = own] \in Identities /\ [b.id EXCEPT !.own = own].go = b.id.go
    BY <1>4 DEF Identities
  <1>7. PICK id \in Identities : id = [b.id EXCEPT !.own = own] /\ id.go = b.id.go
    BY <1>6, Zenon
  <1>8. [b EXCEPT !.pc = "id_write", !.id = id] \in Calls
    BY DEF Calls
  <1>9. PICK d \in Calls : d = [b EXCEPT !.pc = "id_write", !.id = id]
    BY <1>8, Zenon
  <1>10. /\ d.pc = "id_write" /\ d.id = id
         /\ d.op = b.op /\ d.rec = b.rec /\ d.rev = b.rev /\ d.todo = b.todo /\ d.left = b.left
    BY <1>9 DEF Calls
  <1>11. Had(b.rec, d.id)
    BY <1>3, <1>7, <1>10 DEF Had
  <1>12. Promise(d)
    BY <1>1, <1>2, <1>10, <1>11, IdGoesOn DEF IdPcs
  <1>13. Become(h, d)
    BY <1>5, <1>7, <1>9
  <1>14. QED
    BY <1>2, <1>12, <1>13, Reads

LEMMA IdWriteStep ==
    ASSUME Inv, NEW h \in Handlers, IdWrite(h)
    PROVE  Inv'
  <1>1. PICK b \in Calls : b = call[h] /\ Promise(b)
    BY Own
  <1>2. b.pc = "id_write" /\ UNCHANGED <<lastRec, rows, revisions>>
    BY <1>1 DEF IdWrite, At
  <1>3. b.rec \in Records /\ rec[b.rec] # Null /\ (b.id # Null => Had(b.rec, b.id))
    BY <1>1, <1>2 DEF Promise, Refers, Knows, RecordPcs, IdPcs
  <1>4. PICK r \in Records : r = b.rec
    BY <1>3
  <1>5. rec[r] \in Recs /\ b.id \in Identities \cup {Null}
    BY <1>3, <1>4 DEF Inv, Stored, Tables, Calls
  <1>6. [rec[r] EXCEPT !.id = b.id] \in Recs
    BY <1>5 DEF Recs
  <1>7. PICK row \in Recs : row = [rec[r] EXCEPT !.id = b.id]
    BY <1>6, Zenon
  <1>8. /\ row.status = rec[r].status /\ row.override = rec[r].override /\ row.version = rec[r].version
        /\ row.id = b.id
    BY <1>5, <1>7 DEF Recs
  <1>9. rec' = [rec EXCEPT ![r] = row]
    BY <1>1, <1>4, <1>7 DEF IdWrite
  <1>10. Truth(r) /\ r <= lastRec /\ lastRec \in Nat
    BY <1>3, <1>4 DEF Inv, Stored, Keys, Tables
  <1>11. Stored' /\ Grows
    <2>1. row.status = "approved" /\ ~row.override => Complete(r)
      BY <1>8, <1>10 DEF Truth
    <2>2. row.id # Null => Had(r, row.id)
      BY <1>3, <1>4, <1>8 DEF Had
    <2>3. row.version > 1 => Explained(r, row.version)
      BY <1>8, <1>10 DEF Truth, Explained
    <2>4. lastRec' \in Nat /\ lastRec <= lastRec' /\ r <= lastRec'
      BY <1>2, <1>10
    <2>5. QED
      BY <1>2, <1>9, <2>1, <2>2, <2>3, <2>4, RecChange
  <1>12. [b EXCEPT !.id = Null] \in Calls
    BY DEF Calls
  <1>13. PICK e \in Calls : e = [b EXCEPT !.id = Null]
    BY <1>12, Zenon
  <1>14. e.op = b.op /\ e.rec = b.rec /\ e.rev = b.rev /\ e.todo = b.todo /\ e.left = b.left
    BY <1>13 DEF Calls
  <1>15. AfterIdentity(h, e)
    BY <1>1, <1>13 DEF IdWrite
  <1>16. CASE e.op = "recompute"
    <2>1. Become(h, Recompute(e, e.left \ {e.rec}))
      BY <1>15, <1>16 DEF AfterIdentity
    <2>2. e.left \in SUBSET Records /\ \A q \in e.left : rec[q] # Null
      BY <1>1, <1>2, <1>14, <1>16 DEF Promise, Holds, IdPcs, Calls
    <2>3. PICK ids \in SUBSET Records : ids = e.left \ {e.rec}
      BY <2>2
    <2>4. QED
      BY <1>11, <1>16, <2>1, <2>2, <2>3, RecomputeStep
  <1>17. CASE e.op = "parse"
    BY <1>11, <1>15, <1>17, DoneStep DEF AfterIdentity
  <1>18. CASE e.op \notin {"recompute", "parse"}
    <2>1. Changing(b)
      BY <1>2, <1>14, <1>18 DEF Changing, IdPcs
    <2>2. /\ b.op \in {"correct", "approve_revision"} /\ b.todo # <<>>
          /\ b.op = "approve_revision" =>
               b.rev \in Revisions /\ rev[b.rev] # Null /\ rev[b.rev].rec = b.rec
               /\ Pending(b) /\ HasBeen(b.rec, Head(b.todo))
      BY <1>1, <1>2, <2>1 DEF Promise, Refers, Holds, Knows, Revising, IdPcs
    <2>3. AtRow(e)
      BY <1>3, <1>14, <2>2, SamePending DEF AtRow
    <2>4. AtRow(e)'
      BY <1>11, <2>3, AtRowLasts DEF Inv, Stored
    <2>5. NextChange(h, e)
      BY <1>15, <1>18 DEF AfterIdentity
    <2>6. QED
      BY <1>11, <2>4, <2>5, NextChangeStep
  <1>19. QED
    BY <1>16, <1>17, <1>18

LEMMA DecideReadStep ==
    ASSUME Inv, NEW h \in Handlers, DecideRead(h)
    PROVE  Inv'
  <1>1. PICK b \in Calls : b = call[h] /\ Promise(b)
    BY Own
  <1>2. b.pc = "decide_read" /\ UNCHANGED <<records, rows, revisions>>
    BY <1>1 DEF DecideRead, At
  <1>3. b.rec \in Records /\ rec[b.rec] # Null
    BY <1>1, <1>2 DEF Promise, Refers, RecordPcs, DecidePcs
  <1>4. PICK flag \in BOOLEAN : flag = (b.op = "approve" /\ Missing(b.rec) # {})
    OBVIOUS
  <1>5. CASE Done(h)
    BY <1>2, <1>5, ReadsDone
  <1>6. CASE Become(h, [b EXCEPT !.pc = "decide_write", !.flag = flag])
    <2>1. [b EXCEPT !.pc = "decide_write", !.flag = flag] \in Calls
      BY DEF Calls
    <2>2. PICK d \in Calls : d = [b EXCEPT !.pc = "decide_write", !.flag = flag]
      BY <2>1, Zenon
    <2>3. d.pc = "decide_write" /\ d.rec = b.rec /\ d.op = b.op /\ d.flag = flag
      BY <2>2 DEF Calls
    <2>4. d.op = "approve" /\ ~d.flag => Complete(b.rec)
      BY <1>3, <1>4, <2>3, MissingNothing DEF Inv, Stored
    <2>5. d.op = "approve" /\ ~d.flag => Complete(d.rec)
      BY <2>3, <2>4 DEF Complete
    <2>6. Promise(d)
      BY <1>3, <2>3, <2>5 DEF Promise, Refers, Holds, Knows, Changing, Revising, IdPcs, ChangePcs, DecidePcs,
           AskPcs, RecordPcs, RevPcs
    <2>7. QED
      BY <1>2, <1>6, <2>2, <2>6, Reads
  <1>7. Done(h) \/ Become(h, [b EXCEPT !.pc = "decide_write", !.flag = flag])
    BY <1>1, <1>4 DEF DecideRead
  <1>8. QED
    BY <1>5, <1>6, <1>7

LEMMA DecideWriteStep ==
    ASSUME Inv, NEW h \in Handlers, DecideWrite(h)
    PROVE  Inv'
  <1>1. PICK b \in Calls : b = call[h] /\ Promise(b)
    BY Own
  <1>2. b.pc = "decide_write" /\ UNCHANGED <<lastRec, rows, revisions>> /\ Done(h)
    BY <1>1 DEF DecideWrite, At
  <1>3. b.rec \in Records /\ rec[b.rec] # Null /\ (b.op = "approve" /\ ~b.flag => Complete(b.rec))
    BY <1>1, <1>2 DEF Promise, Refers, Knows, RecordPcs, DecidePcs
  <1>4. PICK r \in Records : r = b.rec
    BY <1>3
  <1>5. PICK status \in {"approved", "rejected"} : status = IF b.op = "approve" THEN "approved" ELSE "rejected"
    OBVIOUS
  <1>6. rec[r] \in Recs /\ b.flag \in BOOLEAN
    BY <1>3, <1>4 DEF Inv, Stored, Tables, Calls
  <1>7. [rec[r] EXCEPT !.status = status, !.override = b.flag] \in Recs
    BY <1>6 DEF Recs
  <1>8. PICK row \in Recs : row = [rec[r] EXCEPT !.status = status, !.override = b.flag]
    BY <1>7, Zenon
  <1>9. /\ row.status = status /\ row.override = b.flag /\ row.version = rec[r].version
        /\ row.id = rec[r].id
    BY <1>6, <1>8 DEF Recs
  <1>10. rec' = [rec EXCEPT ![r].status = status, ![r].override = b.flag]
    BY <1>1, <1>4, <1>5 DEF DecideWrite
  <1>11. rec' = [rec EXCEPT ![r] = row]
    BY <1>8, <1>10 DEF Inv, Stored, Tables
  <1>12. Truth(r) /\ r <= lastRec /\ lastRec \in Nat
    BY <1>3, <1>4 DEF Inv, Stored, Keys, Tables
  <1>13. Stored' /\ Grows
    <2>1. row.status = "approved" /\ ~row.override => Complete(r)
      BY <1>3, <1>4, <1>5, <1>9 DEF Complete
    <2>2. row.id # Null => Had(r, row.id)
      BY <1>9, <1>12 DEF Truth, Had
    <2>3. row.version > 1 => Explained(r, row.version)
      BY <1>9, <1>12 DEF Truth, Explained
    <2>4. lastRec' \in Nat /\ lastRec <= lastRec' /\ r <= lastRec'
      BY <1>2, <1>12
    <2>5. QED
      BY <1>2, <1>11, <2>1, <2>2, <2>3, <2>4, RecChange
  <1>14. QED
    BY <1>2, <1>13, DoneStep

LEMMA RequestReadStep ==
    ASSUME Inv, NEW h \in Handlers, RequestRead(h)
    PROVE  Inv'
  <1>1. PICK b \in Calls : b = call[h] /\ Promise(b)
    BY Own
  <1>2. b.pc = "request_read" /\ UNCHANGED <<records, rows, revisions>>
    BY <1>1 DEF RequestRead, At
  <1>3. /\ b.rec \in Records /\ rec[b.rec] # Null
        /\ b.todo \in Changes /\ b.who \in People
    BY <1>1, <1>2 DEF Promise, Refers, Holds, RecordPcs, AskPcs
  <1>4. PICK new \in Nat : new = rec[b.rec].version + 1
    BY <1>3 DEF Inv, Stored, Tables, Recs
  <1>5. CASE Done(h)
    BY <1>2, <1>5, ReadsDone
  <1>6. CASE Become(h, [b EXCEPT !.pc = "request_write", !.new = new])
    <2>1. [b EXCEPT !.pc = "request_write", !.new = new] \in Calls
      BY DEF Calls
    <2>2. PICK d \in Calls : d = [b EXCEPT !.pc = "request_write", !.new = new]
      BY <2>1, Zenon
    <2>3. d.pc = "request_write" /\ d.rec = b.rec /\ d.todo = b.todo /\ d.who = b.who
      BY <2>2 DEF Calls
    <2>4. Promise(d)
      BY <1>3, <2>3 DEF Promise, Refers, Holds, Knows, Changing, Revising, IdPcs, ChangePcs, DecidePcs,
           AskPcs, RecordPcs, RevPcs
    <2>5. QED
      BY <1>2, <1>6, <2>2, <2>4, Reads
  <1>7. Done(h) \/ Become(h, [b EXCEPT !.pc = "request_write", !.new = new])
    BY <1>1, <1>4 DEF RequestRead
  <1>8. QED
    BY <1>5, <1>6, <1>7

LEMMA RequestWriteStep ==
    ASSUME Inv, NEW h \in Handlers, RequestWrite(h)
    PROVE  Inv'
  <1>1. PICK b \in Calls : b = call[h] /\ Promise(b)
    BY Own
  <1>2. b.pc = "request_write" /\ UNCHANGED <<records, rows>> /\ Done(h)
    BY <1>1 DEF RequestWrite, At
  <1>3. /\ b.rec \in Records /\ rec[b.rec] # Null
        /\ b.todo \in Changes /\ b.who \in People /\ b.new \in Nat
    BY <1>1, <1>2 DEF Promise, Refers, Holds, RecordPcs, AskPcs, Calls
  <1>4. PICK v \in Revisions : v = lastRev + 1
    BY DEF RequestWrite
  <1>5. [rec |-> b.rec, version |-> b.new, status |-> "REVISION_DRAFT", by |-> b.who, changes |-> b.todo] \in Revs
    BY <1>3 DEF Revs, Open
  <1>6. PICK row \in Revs : row = [rec |-> b.rec, version |-> b.new, status |-> "REVISION_DRAFT",
                                   by |-> b.who, changes |-> b.todo]
    BY <1>5, Zenon
  <1>7. row.status = "REVISION_DRAFT" /\ row.rec = b.rec
    BY <1>6
  <1>8. rev' = [rev EXCEPT ![v] = row] /\ lastRev' = v
    BY <1>1, <1>4, <1>6 DEF RequestWrite
  <1>9. v \in Nat /\ lastRev \in Nat /\ lastRev <= v /\ v <= v /\ ~(v <= lastRev)
    BY <1>4 DEF Inv, Stored, Tables
  <1>10. rev[v] = Null
    BY <1>9 DEF Inv, Stored, Keys
  <1>11. Stored' /\ Grows
    BY <1>2, <1>3, <1>7, <1>8, <1>9, <1>10, RevChange
  <1>12. QED
    BY <1>2, <1>11, DoneStep

LEMMA SubmitReadStep ==
    ASSUME Inv, NEW h \in Handlers, SubmitRead(h)
    PROVE  Inv'
  <1>1. PICK b \in Calls : b = call[h] /\ Promise(b)
    BY Own
  <1>2. b.pc = "submit_read" /\ UNCHANGED <<records, rows, revisions>>
    BY <1>1 DEF SubmitRead, At
  <1>3. b.rev \in Revisions /\ rev[b.rev] # Null
    BY <1>1, <1>2 DEF Promise, Refers, RevPcs
  <1>4. CASE Done(h)
    BY <1>2, <1>4, ReadsDone
  <1>5. CASE Become(h, [b EXCEPT !.pc = "submit_write"])
    <2>1. [b EXCEPT !.pc = "submit_write"] \in Calls
      BY DEF Calls
    <2>2. PICK d \in Calls : d = [b EXCEPT !.pc = "submit_write"]
      BY <2>1, Zenon
    <2>3. d.pc = "submit_write" /\ d.rev = b.rev
      BY <2>2 DEF Calls
    <2>4. Promise(d)
      BY <1>3, <2>3 DEF Promise, Refers, Holds, Knows, Changing, Revising, IdPcs, ChangePcs, DecidePcs,
           AskPcs, RecordPcs, RevPcs
    <2>5. QED
      BY <1>2, <1>5, <2>2, <2>4, Reads
  <1>6. Done(h) \/ Become(h, [b EXCEPT !.pc = "submit_write"])
    BY <1>1 DEF SubmitRead, Goto
  <1>7. QED
    BY <1>4, <1>5, <1>6

\* A revision gets another status.
LEMMA StatusStep ==
    ASSUME Inv, NEW v \in Revisions, NEW s \in Open \cup {"REPUBLISHED", "REJECTED"}, SetRevision(v, s),
           rev[v] # Null, s = "REPUBLISHED" => Applied(v),
           NEW h \in Handlers, Done(h), UNCHANGED <<records, rows, lastRev>>
    PROVE  Inv'
  <1>1. rev[v] \in Revs
    BY DEF Inv, Stored, Tables
  <1>2. [rev[v] EXCEPT !.status = s] \in Revs
    BY <1>1 DEF Revs
  <1>3. PICK row \in Revs : row = [rev[v] EXCEPT !.status = s]
    BY <1>2, Zenon
  <1>4. row.status = s /\ row.rec = rev[v].rec /\ row.version = rev[v].version /\ row.changes = rev[v].changes
    BY <1>1, <1>3 DEF Revs
  <1>5. rev' = [rev EXCEPT ![v] = row]
    BY <1>3 DEF SetRevision
  <1>6. lastRev' \in Nat /\ lastRev <= lastRev' /\ v <= lastRev'
    BY DEF Inv, Stored, Tables, Keys
  <1>7. Stored' /\ Grows
    <2>1. rec[row.rec] # Null
      BY <1>4 DEF Inv, Stored, RevsOfRecords
    <2>2. QED
      BY <1>4, <1>5, <1>6, <2>1, RevChange
  <1>8. QED
    BY <1>7, DoneStep

LEMMA SubmitWriteStep ==
    ASSUME Inv, NEW h \in Handlers, SubmitWrite(h)
    PROVE  Inv'
  <1>1. PICK b \in Calls : b = call[h] /\ Promise(b)
    BY Own
  <1>2. b.pc = "submit_write" /\ UNCHANGED <<records, rows, lastRev>> /\ Done(h)
    BY <1>1 DEF SubmitWrite, At
  <1>3. b.rev \in Revisions /\ rev[b.rev] # Null
    BY <1>1, <1>2 DEF Promise, Refers, RevPcs
  <1>4. SetRevision(b.rev, "REVISION_PENDING_REVIEW") /\ "REVISION_PENDING_REVIEW" \in Open
    BY <1>1 DEF SubmitWrite, Open
  <1>5. QED
    BY <1>2, <1>3, <1>4, StatusStep

LEMMA RevisionReadStep ==
    ASSUME Inv, NEW h \in Handlers, RevisionRead(h)
    PROVE  Inv'
  <1>1. PICK b \in Calls : b = call[h] /\ Promise(b)
    BY Own
  <1>2. b.pc = "revision_read" /\ UNCHANGED <<records, rows, revisions>>
    BY <1>1 DEF RevisionRead, At
  <1>3. /\ b.rev \in Revisions /\ rev[b.rev] # Null
        /\ b.op \in {"approve_revision", "reject_revision"}
    BY <1>1, <1>2 DEF Promise, Refers, RevPcs
  <1>4. /\ rev[b.rev].rec \in Records /\ rev[b.rev].changes \in Seq(Change) /\ rev[b.rev].changes # <<>>
    BY <1>3, RevFacts DEF Inv, Stored
  <1>5. rec[rev[b.rev].rec] # Null
    BY <1>3 DEF Inv, Stored, RevsOfRecords
  <1>6. CASE Done(h)
    BY <1>2, <1>6, ReadsDone
  <1>7. CASE b.op = "reject_revision" /\ Become(h, [b EXCEPT !.pc = "revision_write", !.who = Null])
    <2>1. [b EXCEPT !.pc = "revision_write", !.who = Null] \in Calls
      BY DEF Calls
    <2>2. PICK d \in Calls : d = [b EXCEPT !.pc = "revision_write", !.who = Null]
      BY <2>1, Zenon
    <2>3. d.pc = "revision_write" /\ d.rev = b.rev /\ d.op = "reject_revision"
      BY <1>7, <2>2 DEF Calls
    <2>4. Promise(d)
      BY <1>3, <2>3 DEF Promise, Refers, Holds, Knows, Changing, Revising, IdPcs, ChangePcs, DecidePcs,
           AskPcs, RecordPcs, RevPcs
    <2>5. QED
      BY <1>2, <1>7, <2>2, <2>4, Reads
  <1>8. ASSUME b.op = "approve_revision",
               Become(h, [b EXCEPT !.pc = "record_read", !.who = Null, !.rec = rev[b.rev].rec,
                                   !.todo = rev[b.rev].changes])
        PROVE  Inv'
    <2>1. PICK r \in Records, todo \in Seq(Change) : r = rev[b.rev].rec /\ todo = rev[b.rev].changes /\ todo # <<>>
      BY <1>4
    <2>2. [b EXCEPT !.pc = "record_read", !.who = Null, !.rec = r, !.todo = todo] \in Calls
      BY DEF Calls
    <2>3. PICK d \in Calls : d = [b EXCEPT !.pc = "record_read", !.who = Null, !.rec = r, !.todo = todo]
      BY <2>2, Zenon
    <2>4. d.pc = "record_read" /\ d.rev = b.rev /\ d.op = "approve_revision" /\ d.rec = r /\ d.todo = todo
      BY <1>8, <2>3 DEF Calls
    <2>5. Pending(d)
      BY <2>1, <2>4 DEF Pending
    <2>6. Promise(d)
      BY <1>3, <1>5, <2>1, <2>4, <2>5 DEF Promise, Refers, Holds, Knows, Changing, Revising, IdPcs, ChangePcs, DecidePcs,
           AskPcs, RecordPcs, RevPcs
    <2>7. Become(h, d)
      BY <1>8, <2>1, <2>3
    <2>8. QED
      BY <1>2, <2>6, <2>7, Reads
  <1>9. \/ Done(h)
        \/ b.op = "reject_revision" /\ Become(h, [b EXCEPT !.pc = "revision_write", !.who = Null])
        \/ b.op # "reject_revision"
           /\ Become(h, [b EXCEPT !.pc = "record_read", !.who = Null, !.rec = rev[b.rev].rec,
                                  !.todo = rev[b.rev].changes])
    BY <1>1 DEF RevisionRead
  <1>10. QED
    BY <1>3, <1>6, <1>7, <1>8, <1>9

LEMMA RecordReadStep ==
    ASSUME Inv, NEW h \in Handlers, NEW available \in BOOLEAN, RecordRead(h, available)
    PROVE  Inv'
  <1>1. PICK b \in Calls : b = call[h] /\ Promise(b)
    BY Own
  <1>2. b.pc = "record_read" /\ UNCHANGED <<records, rows, revisions>>
    BY <1>1 DEF RecordRead, At
  <1>3. b.op = "approve_revision"
    BY <1>1, <1>2 DEF Promise, Refers
  <1>4. /\ b.rec \in Records /\ rec[b.rec] # Null /\ b.todo # <<>>
        /\ b.rev \in Revisions /\ rev[b.rev] # Null /\ rev[b.rev].rec = b.rec /\ Pending(b)
    BY <1>1, <1>2, <1>3 DEF Promise, Refers, Holds, Knows, Revising, RecordPcs
  <1>5. CASE Done(h)
    BY <1>2, <1>5, ReadsDone
  <1>6. CASE Become(h, [b EXCEPT !.pc = "field_read"])
    <2>1. [b EXCEPT !.pc = "field_read"] \in Calls
      BY DEF Calls
    <2>2. PICK d \in Calls : d = [b EXCEPT !.pc = "field_read"]
      BY <2>1, Zenon
    <2>3. /\ d.pc = "field_read" /\ d.op = "approve_revision"
          /\ d.rec = b.rec /\ d.rev = b.rev /\ d.todo = b.todo
      BY <1>3, <2>2 DEF Calls
    <2>4. Pending(d)
      BY <1>4, <2>3, SamePending
    <2>5. Promise(d)
      BY <1>4, <2>3, <2>4 DEF Promise, Refers, Holds, Knows, Changing, Revising, IdPcs, ChangePcs, DecidePcs,
           AskPcs, RecordPcs, RevPcs
    <2>6. QED
      BY <1>2, <1>6, <2>2, <2>5, Reads
  <1>7. Done(h) \/ Become(h, [b EXCEPT !.pc = "field_read"])
    BY <1>1 DEF RecordRead, Goto
  <1>8. QED
    BY <1>5, <1>6, <1>7

LEMMA VersionWriteStep ==
    ASSUME Inv, NEW h \in Handlers, VersionWrite(h)
    PROVE  Inv'
  <1>1. PICK b \in Calls : b = call[h] /\ Promise(b)
    BY Own
  <1>2. b.pc = "version_write" /\ UNCHANGED <<lastRec, rows, revisions>>
    BY <1>1 DEF VersionWrite, At
  <1>3. b.op = "approve_revision"
    BY <1>1, <1>2 DEF Promise, Refers
  <1>4. /\ b.rec \in Records /\ rec[b.rec] # Null
        /\ b.rev \in Revisions /\ rev[b.rev] # Null /\ rev[b.rev].rec = b.rec /\ Applied(b.rev)
    BY <1>1, <1>2, <1>3 DEF Promise, Refers, Knows, Revising, RecordPcs
  <1>5. PICK r \in Records, v \in Revisions : r = b.rec /\ v = b.rev
    BY <1>4
  <1>6. PICK n \in Nat : n = rev[v].version
    BY <1>4, <1>5, RevFacts DEF Inv, Stored
  <1>7. rec[r] \in Recs
    BY <1>4, <1>5 DEF Inv, Stored, Tables
  <1>8. [rec[r] EXCEPT !.version = n] \in Recs
    BY <1>7 DEF Recs
  <1>9. PICK row \in Recs : row = [rec[r] EXCEPT !.version = n]
    BY <1>8, Zenon
  <1>10. /\ row.status = rec[r].status /\ row.override = rec[r].override /\ row.version = n
         /\ row.id = rec[r].id
    BY <1>7, <1>9 DEF Recs
  <1>11. rec' = [rec EXCEPT ![r] = row]
    BY <1>1, <1>5, <1>6, <1>9 DEF VersionWrite
  <1>12. Truth(r) /\ r <= lastRec /\ lastRec \in Nat
    BY <1>4, <1>5 DEF Inv, Stored, Keys, Tables
  <1>13. Stored' /\ Grows
    <2>1. row.status = "approved" /\ ~row.override => Complete(r)
      BY <1>10, <1>12 DEF Truth
    <2>2. row.id # Null => Had(r, row.id)
      BY <1>10, <1>12 DEF Truth, Had
    <2>3. Applied(v)
      BY <1>4, <1>5 DEF Applied
    <2>4. Explained(r, row.version)
      BY <1>4, <1>5, <1>6, <1>10, <2>3 DEF Explained
    <2>5. lastRec' \in Nat /\ lastRec <= lastRec' /\ r <= lastRec'
      BY <1>2, <1>12
    <2>6. QED
      BY <1>2, <1>11, <2>1, <2>2, <2>4, <2>5, RecChange
  <1>14. [b EXCEPT !.pc = "revision_write"] \in Calls
    BY DEF Calls
  <1>15. PICK d \in Calls : d = [b EXCEPT !.pc = "revision_write"]
    BY <1>14, Zenon
  <1>16. d.pc = "revision_write" /\ d.op = "approve_revision" /\ d.rec = b.rec /\ d.rev = b.rev
    BY <1>3, <1>15 DEF Calls
  <1>17. Applied(d.rev)
    BY <1>4, <1>16 DEF Applied
  <1>18. Promise(d)
    BY <1>4, <1>16, <1>17 DEF Promise, Refers, Holds, Knows, Changing, Revising, IdPcs, ChangePcs, DecidePcs,
           AskPcs, RecordPcs, RevPcs
  <1>19. Become(h, d)
    BY <1>1, <1>15 DEF VersionWrite, Goto
  <1>20. QED
    BY <1>13, <1>18, <1>19, Moves

LEMMA RevisionWriteStep ==
    ASSUME Inv, NEW h \in Handlers, RevisionWrite(h)
    PROVE  Inv'
  <1>1. PICK b \in Calls : b = call[h] /\ Promise(b)
    BY Own
  <1>2. b.pc = "revision_write" /\ UNCHANGED <<records, rows, lastRev>> /\ Done(h)
    BY <1>1 DEF RevisionWrite, At
  <1>3. b.rev \in Revisions /\ rev[b.rev] # Null
    BY <1>1, <1>2 DEF Promise, Refers, RevPcs
  <1>4. PICK s \in {"REPUBLISHED", "REJECTED"} : s = IF b.op = "approve_revision" THEN "REPUBLISHED" ELSE "REJECTED"
    OBVIOUS
  <1>5. SetRevision(b.rev, s)
    BY <1>1, <1>4 DEF RevisionWrite
  <1>6. PICK v \in Revisions : v = b.rev
    BY <1>3
  <1>7. s = "REPUBLISHED" => Applied(v)
    <2>1. b.op = "approve_revision" => Applied(b.rev)
      BY <1>1, <1>2 DEF Promise, Knows, Revising
    <2>2. QED
      BY <1>4, <1>6, <2>1 DEF Applied
  <1>8. QED
    BY <1>2, <1>3, <1>5, <1>6, <1>7, StatusStep

-----------------------------------------------------------------------------
(* The theorems.                                                           *)

LEMMA InitInv ==
    ASSUME Init
    PROVE  Inv
  <1>1. Tables
    <2>1. <<>> \in Seq(FieldRows)
      BY EmptySeq
    <2>2. QED
      BY <2>1 DEF Init, Tables
  <1>2. Keys /\ RevsOfRecords /\ RepublishedApplied /\ \A r \in Records : rec[r] # Null => Truth(r)
    BY DEF Init, Keys, RevsOfRecords, RepublishedApplied
  <1>3. LatestLives
    <2>1. SUFFICES ASSUME NEW r \in Records, NEW n \in Names PROVE DOMAIN rows[r][n] = {}
      BY DEF LatestLives
    <2>2. rows[r][n] = <<>>
      BY DEF Init
    <2>3. QED
      BY <2>2, EmptySeq, RowsTyped, <1>1
  <1>4. Promises
    <2>1. PICK d \in Calls : d = Idle /\ Promise(d)
      BY IdleFine
    <2>2. call \in [Handlers -> Calls] /\ \A h \in Handlers : call[h] = d
      BY <2>1 DEF Init
    <2>3. QED
      BY <2>1, <2>2 DEF Promises
  <1>5. QED
    BY <1>1, <1>2, <1>3, <1>4 DEF Inv, Stored

LEMMA StepInv ==
    ASSUME Inv, [Next]_reviewVars
    PROVE  Inv'
  <1>1. CASE UNCHANGED reviewVars
    <2>1. Stored' /\ Grows
      BY <1>1, Quiet DEF reviewVars, records, revisions
    <2>2. UNCHANGED call
      BY <1>1 DEF reviewVars
    <2>3. QED
      BY <2>1, <2>2, OthersStable DEF Inv, Promises
  <1>2. CASE Crash
    BY <1>2, CrashStep
  <1>3. ASSUME NEW h \in Handlers, Arrivals(h) PROVE Inv'
    BY <1>3, ArrivalStep
  <1>4. ASSUME NEW h \in Handlers, Statements(h) PROVE Inv'
    BY <1>4, InsertRecordStep, InsertFieldStep, FieldReadStep, InsertRowStep, SupersedeStep,
       IdReadStep, IdCheckStep, IdWriteStep, DecideReadStep, DecideWriteStep,
       RequestReadStep, RequestWriteStep, SubmitReadStep, SubmitWriteStep,
       RevisionReadStep, RecordReadStep, VersionWriteStep, RevisionWriteStep DEF Statements
  <1>5. QED
    BY <1>1, <1>2, <1>3, <1>4 DEF Next

\* Every reachable state keeps the tables true and every call's promise.
THEOREM Invariance == Spec => []Inv
  BY InitInv, StepInv, PTL DEF Spec

\* The tables and the calls have their types.
THEOREM TypeCorrect == Spec => []TypeOK
  <1>1. Inv => TypeOK
    BY DEF Inv, Stored, Promises, Tables, TypeOK
  <1>2. QED
    BY <1>1, Invariance, PTL

\* However many people correct one field at once, the value it got last is live: no UPDATE of
\* correct_field supersedes the newest row.
THEOREM NewestRowLives == Spec => []LatestLives
  <1>1. Inv => LatestLives
    BY DEF Inv, Stored
  <1>2. QED
    BY <1>1, Invariance, PTL

\* The check approve makes before it writes holds when it writes, and ever after, whatever
\* other threads correct, decide or republish meanwhile.
THEOREM ApprovalIsComplete == Spec => []ApprovedComplete
  <1>1. ASSUME Inv PROVE ApprovedComplete
    <2>1. SUFFICES ASSUME NEW r \in Records, rec[r] # Null, rec[r].status = "approved" /\ ~rec[r].override
                   PROVE  Missing(r) = {}
      BY DEF ApprovedComplete, Known
    <2>2. Complete(r)
      BY <1>1, <2>1 DEF Inv, Stored, Truth
    <2>3. QED
      BY <1>1, <2>2, MissingNothing DEF Inv, Stored
  <1>2. QED
    BY <1>1, Invariance, PTL

\* compute_identity makes an identity of values the record had.
THEOREM IdentityIsFound == Spec => []NothingFabricated
  <1>1. ASSUME Inv PROVE NothingFabricated
    <2>1. SUFFICES ASSUME NEW r \in Records, rec[r] # Null, rec[r].id # Null
                   PROVE  \A n \in IdNames : \E k \in DOMAIN rows[r][n] : rows[r][n][k].value = rec[r].id.go[n]
      BY DEF NothingFabricated, Known
    <2>2. Had(r, rec[r].id)
      BY <1>1, <2>1 DEF Inv, Stored, Truth
    <2>3. QED
      BY <2>2 DEF Had
  <1>2. QED
    BY <1>1, Invariance, PTL

\* approve_revision shows no revision as republished before it made every change of it, even
\* when it was stopped half way, repeated, or made by two reviewers at once.
THEOREM RepublishedMeansApplied == Spec => []RepublishedApplied
  <1>1. Inv => RepublishedApplied
    BY DEF Inv, Stored
  <1>2. QED
    BY <1>1, Invariance, PTL

\* The version approve_revision writes is of a revision it has applied.
THEOREM VersionHasRevision == Spec => []VersionExplained
  <1>1. ASSUME Inv PROVE VersionExplained
    <2>1. SUFFICES ASSUME NEW r \in Records, rec[r] # Null, rec[r].version > 1
                   PROVE  Explained(r, rec[r].version)
      BY DEF VersionExplained, Known, Explained
    <2>2. QED
      BY <1>1, <2>1 DEF Inv, Stored, Truth
  <1>2. QED
    BY <1>1, Invariance, PTL

-----------------------------------------------------------------------------
(* Identities. The history variable looks on: RecordReviewHistory takes the *)
(* steps of RecordReview. What the SELECT of compute_identity saw holds     *)
(* when it writes, except of the records that are tied: another call that   *)
(* writes this identity in between is about to write it already when the    *)
(* SELECT is made, or looks for it while this one is about to (Ties).       *)

LEMMA HistoryIsReview == HistorySpec => Spec
  <1>1. [HistoryNext]_historyVars => [Next]_reviewVars
    BY DEF HistoryNext, historyVars
  <1>2. HistoryInit => Init
    BY DEF HistoryInit
  <1>3. QED
    BY <1>1, <1>2, PTL DEF HistorySpec, Spec

\* What a call is about to write is free, apart from records that are tied to its own.
Free(c) ==
    c.pc = "id_write" /\ c.id # Null /\ ~ c.id.own =>
        \A q \in Records \ {c.rec} : rec[q] # Null /\ rec[q].id = c.id => {q, c.rec} \subseteq tied

Ties == \A r \in Records : Tied(r) => r \in tied

Unshared == IdsUnique /\ Ties /\ \A h \in Handlers : Free(call[h])

\* A step of RecordReview that the history follows.
Tying == Inv /\ Inv' /\ Unshared /\ tied' = tied \cup {r \in Records : Tied(r)'}

Moving(h) == \A g \in Handlers : g # h => call'[g] = call[g]

LEMMA Gets ==
    ASSUME Inv, NEW h \in Handlers, NEW c, Become(h, c)
    PROVE  call'[h] = c /\ Moving(h)
  BY DEF Inv, Promises, Become, Moving

LEMMA ThenIdle ==
    ASSUME Inv, NEW h \in Handlers, Done(h)
    PROVE  call'[h].pc = "idle"
  <1>1. Idle.pc = "idle"
    BY DEF Idle
  <1>2. QED
    BY <1>1, Gets DEF Done

LEMMA ThenNext ==
    ASSUME Inv, NEW h \in Handlers, NEW c \in Calls, NextChange(h, c)
    PROVE  call'[h].pc # "id_write"
  <1>1. CASE Done(h)
    BY <1>1, ThenIdle
  <1>2. ASSUME NEW pc \in {"version_write", "field_read"},
               Become(h, [c EXCEPT !.todo = Tail(c.todo), !.old = 0, !.new = 0, !.pc = pc])
        PROVE  call'[h].pc # "id_write"
    <2>1. [c EXCEPT !.todo = Tail(c.todo), !.old = 0, !.new = 0, !.pc = pc].pc = pc
      BY DEF Calls
    <2>2. QED
      BY <1>2, <2>1, Gets
  <1>3. QED
    BY <1>1, <1>2 DEF NextChange

LEMMA ThenAfterRow ==
    ASSUME Inv, NEW h \in Handlers, NEW c \in Calls, AfterRow(h, c)
    PROVE  call'[h].pc # "id_write"
  <1>1. [c EXCEPT !.pc = "id_read", !.old = 0, !.new = 0].pc = "id_read"
    BY DEF Calls
  <1>2. CASE Become(h, [c EXCEPT !.pc = "id_read", !.old = 0, !.new = 0])
    BY <1>1, <1>2, Gets
  <1>3. QED
    BY <1>2, ThenNext DEF AfterRow

LEMMA ThenRecompute ==
    ASSUME Inv, NEW h \in Handlers, NEW c \in Calls, NEW ids, Become(h, Recompute(c, ids))
    PROVE  call'[h].pc # "id_write"
  <1>1. CASE ids = {}
    BY <1>1, ThenIdle DEF Recompute, Done
  <1>2. CASE ids # {}
    <2>1. PICK r : r = CHOOSE x \in ids : \A q \in ids : x <= q
      OBVIOUS
    <2>2. [c EXCEPT !.pc = "id_read", !.left = ids, !.rec = r].pc = "id_read"
      BY DEF Calls
    <2>3. Become(h, [c EXCEPT !.pc = "id_read", !.left = ids, !.rec = r])
      BY <1>2, <2>1 DEF Recompute
    <2>4. QED
      BY <2>2, <2>3, Gets
  <1>3. QED
    BY <1>1, <1>2

LEMMA OneMoves ==
    ASSUME Inv, NEW h \in Handlers, Arrivals(h) \/ Statements(h)
    PROVE  Moving(h)
  <1>1. ASSUME NEW c, Become(h, c) PROVE Moving(h)
    BY <1>1, Gets
  <1>2. ASSUME Done(h) PROVE Moving(h)
    BY <1>1, <1>2 DEF Done
  <1>3. ASSUME NEW pc, Goto(h, pc) PROVE Moving(h)
    BY <1>1, <1>3 DEF Goto
  <1>4. ASSUME NEW c, NextChange(h, c) PROVE Moving(h)
    BY <1>1, <1>2, <1>4 DEF NextChange
  <1>5. ASSUME NEW c, AfterRow(h, c) PROVE Moving(h)
    BY <1>1, <1>4, <1>5 DEF AfterRow
  <1>6. ASSUME NEW c, AfterIdentity(h, c) PROVE Moving(h)
    BY <1>1, <1>2, <1>4, <1>6 DEF AfterIdentity
  <1>7. CASE Arrivals(h)
    BY <1>1, <1>7 DEF Arrivals, Arrive, ArriveParse, ArriveCorrect, ArriveDecide, ArriveRecompute, ArriveRequest,
                     ArriveSubmit, ArriveRevision
  <1>8. CASE InsertRecord(h) \/ InsertField(h) \/ FieldRead(h) \/ InsertRow(h) \/ Supersede(h)
    <2>1. CASE InsertRecord(h) \/ InsertField(h)
      BY <1>1, <2>1 DEF InsertRecord, InsertField
    <2>2. CASE FieldRead(h)
      BY <1>1, <1>2, <1>4, <2>2 DEF FieldRead
    <2>3. CASE InsertRow(h)
      BY <1>1, <1>5, <2>3 DEF InsertRow
    <2>4. CASE Supersede(h)
      BY <1>5, <2>4 DEF Supersede
    <2>5. QED
      BY <1>8, <2>1, <2>2, <2>3, <2>4
  <1>9. CASE IdRead(h) \/ IdCheck(h) \/ IdWrite(h)
    BY <1>1, <1>6, <1>9 DEF IdRead, IdCheck, IdWrite
  <1>10. CASE DecideRead(h) \/ DecideWrite(h) \/ RequestRead(h) \/ RequestWrite(h) \/ SubmitRead(h) \/ SubmitWrite(h)
    BY <1>1, <1>2, <1>3, <1>10 DEF DecideRead, DecideWrite, RequestRead, RequestWrite, SubmitRead, SubmitWrite
  <1>11. CASE RevisionRead(h) \/ (\E b \in BOOLEAN : RecordRead(h, b)) \/ VersionWrite(h) \/ RevisionWrite(h)
    BY <1>1, <1>2, <1>3, <1>11 DEF RevisionRead, RecordRead, VersionWrite, RevisionWrite
  <1>12. QED
    BY <1>7, <1>8, <1>9, <1>10, <1>11 DEF Statements

\* Identities are written to no record.
SameIds ==
    \A q \in Records : rec'[q] # Null => \/ rec'[q].id = Null
                                         \/ rec[q] # Null /\ rec'[q].id = rec[q].id

LEMMA UniqueStays ==
    ASSUME Tying, SameIds
    PROVE  IdsUnique'
  <1>1. ASSUME NEW q \in Records \ tied', NEW r \in Records, rec'[q] # Null, rec'[r] # Null,
               q # r, rec'[q].id # Null, rec'[q].id = rec'[r].id
        PROVE  rec'[q].id.own
    <2>1. rec[q] # Null /\ rec[r] # Null /\ rec'[q].id = rec[q].id /\ rec'[r].id = rec[r].id
      BY <1>1 DEF SameIds
    <2>2. rec[q].id # Null /\ rec[q].id = rec[r].id /\ q \notin tied
      BY <1>1, <2>1 DEF Tying
    <2>3. QED
      BY <1>1, <2>1, <2>2 DEF Tying, Unshared, IdsUnique, Known
  <1>2. QED
    BY <1>1 DEF IdsUnique, Known

LEMMA FreeStays ==
    ASSUME Tying, SameIds, NEW c, Free(c)
    PROVE  Free(c)'
  BY DEF Tying, SameIds, Free

LEMMA OthersStayFree ==
    ASSUME Tying, NEW h \in Handlers, Moving(h), SameIds, NEW g \in Handlers, g # h
    PROVE  Free(call[g])'
  <1>1. PICK c : c = call[g] /\ call'[g] = c
    BY DEF Moving
  <1>2. Free(c)'
    BY <1>1, FreeStays DEF Tying, Unshared
  <1>3. QED
    BY <1>1, <1>2 DEF Free

\* Ties become history as they arise, so uniqueness and the calls are what remains to be seen.
LEMMA UnsharedThen ==
    ASSUME Tying, IdsUnique', \A g \in Handlers : Free(call[g])'
    PROVE  Unshared'
  BY DEF Tying, Unshared, Ties

\* A step that writes no identity, and is not about to.
LEMMA UnsharedKept ==
    ASSUME Inv, Tying, NEW h \in Handlers, Moving(h), SameIds,
           call'[h].pc = "id_write" => call'[h].id = Null
    PROVE  Unshared'
  <1>1. Free(call[h])'
    BY DEF Free
  <1>2. \A g \in Handlers : Free(call[g])'
    BY <1>1, OthersStayFree
  <1>3. QED
    BY <1>2, UniqueStays, UnsharedThen

LEMMA UnsharedArrival ==
    ASSUME Inv, Tying, NEW h \in Handlers, Moving(h), Arrivals(h)
    PROVE  Unshared'
  <1>1. PICK i \in Calls : i = Idle
    BY IdleFine
  <1>2. PICK c : Arrive(h, c) /\ c.pc # "id_write"
    <2>1. ASSUME NEW f \in Finds, ArriveParse(h, f) PROVE \E c : Arrive(h, c) /\ c.pc # "id_write"
      <3>1. [i EXCEPT !.op = "parse", !.pc = "insert_record", !.todo = f].pc = "insert_record"
        BY DEF Calls
      <3>2. QED
        BY <1>1, <2>1, <3>1 DEF ArriveParse
    <2>2. ASSUME NEW r \in Records, NEW b \in BOOLEAN, NEW x \in Corrections, ArriveCorrect(h, r, x, b)
          PROVE  \E c : Arrive(h, c) /\ c.pc # "id_write"
      <3>1. [i EXCEPT !.op = "correct", !.pc = "field_read", !.rec = r, !.todo = <<x>>, !.flag = b].pc = "field_read"
        BY DEF Calls
      <3>2. QED
        BY <1>1, <2>2, <3>1 DEF ArriveCorrect
    <2>3. ASSUME NEW r \in Records, NEW b \in BOOLEAN, NEW op \in {"approve", "reject"}, ArriveDecide(h, op, r, b)
          PROVE  \E c : Arrive(h, c) /\ c.pc # "id_write"
      <3>1. [i EXCEPT !.op = op, !.pc = "decide_read", !.rec = r, !.flag = b].pc = "decide_read"
        BY DEF Calls
      <3>2. QED
        BY <1>1, <2>3, <3>1 DEF ArriveDecide
    <2>4. ASSUME NEW ids, ArriveRecompute(h, ids) PROVE \E c : Arrive(h, c) /\ c.pc # "id_write"
      <3>1. [i EXCEPT !.op = "recompute"] \in Calls
        BY DEF Calls, Ops
      <3>2. PICK b \in Calls : b = [i EXCEPT !.op = "recompute"]
        BY <3>1, Zenon
      <3>3. Arrive(h, Recompute(b, ids))
        BY <1>1, <2>4, <3>2 DEF ArriveRecompute
      <3>4. call'[h].pc # "id_write" /\ call'[h] = Recompute(b, ids)
        BY <3>3, ThenRecompute, Gets DEF Arrive
      <3>5. QED
        BY <3>3, <3>4
    <2>5. ASSUME NEW r \in Records, NEW p \in People, NEW x \in Changes, ArriveRequest(h, r, p, x)
          PROVE  \E c : Arrive(h, c) /\ c.pc # "id_write"
      <3>1. [i EXCEPT !.op = "request", !.pc = "request_read", !.rec = r, !.who = p, !.todo = x].pc = "request_read"
        BY DEF Calls
      <3>2. QED
        BY <1>1, <2>5, <3>1 DEF ArriveRequest
    <2>6. ASSUME NEW v \in Revisions, ArriveSubmit(h, v) PROVE \E c : Arrive(h, c) /\ c.pc # "id_write"
      <3>1. [i EXCEPT !.op = "submit", !.pc = "submit_read", !.rev = v].pc = "submit_read"
        BY DEF Calls
      <3>2. QED
        BY <1>1, <2>6, <3>1 DEF ArriveSubmit
    <2>7. ASSUME NEW v \in Revisions, NEW op \in {"approve_revision", "reject_revision"}, NEW p \in People,
                 ArriveRevision(h, op, v, p)
          PROVE  \E c : Arrive(h, c) /\ c.pc # "id_write"
      <3>1. [i EXCEPT !.op = op, !.pc = "revision_read", !.rev = v, !.who = p].pc = "revision_read"
        BY DEF Calls
      <3>2. QED
        BY <1>1, <2>7, <3>1 DEF ArriveRevision
    <2>8. QED
      BY <2>1, <2>2, <2>3, <2>4, <2>5, <2>6, <2>7 DEF Arrivals
  <1>3. call'[h].pc # "id_write" /\ rec' = rec
    BY <1>2, Gets DEF Arrive, records
  <1>4. QED
    BY <1>3, UnsharedKept DEF SameIds

\* The statements that only read, or write rows and revisions.
LEMMA UnsharedReads ==
    ASSUME Inv, Tying, NEW h \in Handlers, Moving(h), UNCHANGED rec, call'[h].pc # "id_write"
    PROVE  Unshared'
  BY UnsharedKept DEF SameIds

\* The rows of records are written without their identity.
LEMMA UnsharedRecord ==
    ASSUME Inv, Tying, NEW h \in Handlers, Moving(h), call'[h].pc # "id_write",
           NEW r \in Records, NEW row, rec' = [rec EXCEPT ![r] = row],
           \/ row.id = Null
           \/ rec[r] # Null /\ row.id = rec[r].id
    PROVE  Unshared'
  <1>1. rec'[r] = row /\ \A q \in Records : q # r => rec'[q] = rec[q]
    BY DEF Inv, Stored, Tables
  <1>2. QED
    BY <1>1, UnsharedKept DEF SameIds

LEMMA UnsharedStatement ==
    ASSUME Inv, Tying, NEW h \in Handlers, Moving(h), Statements(h)
    PROVE  Unshared'
  <1>0. PICK b \in Calls : b = call[h] /\ Promise(b)
    BY Own
  <1> USE DEF records
  <1>1. ASSUME NEW pc \in {"idle", "field_read", "insert_row", "supersede", "id_read", "id_check", "decide_write",
                           "request_write", "submit_write", "record_read", "revision_write", "insert_fields",
                           "version_write"},
               NEW d, d.pc = pc, Become(h, d)
        PROVE  call'[h].pc # "id_write"
    BY <1>1, Gets
  <1>2. CASE InsertRecord(h)
    <2>1. ASSUME NEW pc \in {"id_read", "insert_fields"}, Become(h, [b EXCEPT !.rec = lastRec + 1, !.pc = pc])
          PROVE  call'[h].pc # "id_write"
      <3>1. [b EXCEPT !.rec = lastRec + 1, !.pc = pc].pc = pc
        BY DEF Calls
      <3>2. QED
        BY <1>1, <2>1, <3>1
    <2>2. call'[h].pc # "id_write"
      BY <1>0, <1>2, <2>1 DEF InsertRecord
    <2>3. PICK row : row = [status |-> "pending", override |-> FALSE, version |-> 1, id |-> Null]
      OBVIOUS
    <2>4. lastRec + 1 \in Records /\ rec' = [rec EXCEPT ![lastRec + 1] = row]
      BY <1>2, <2>3 DEF InsertRecord
    <2>5. row.id = Null
      BY <2>3
    <2>6. QED
      BY <2>2, <2>4, <2>5, UnsharedRecord
  <1>3. CASE InsertField(h)
    <2>1. ASSUME NEW pc \in {"id_read", "insert_fields"}, Become(h, [b EXCEPT !.todo = Tail(b.todo), !.pc = pc])
          PROVE  call'[h].pc # "id_write"
      <3>1. [b EXCEPT !.todo = Tail(b.todo), !.pc = pc].pc = pc
        BY DEF Calls
      <3>2. QED
        BY <1>1, <2>1, <3>1
    <2>2. call'[h].pc # "id_write" /\ UNCHANGED rec
      BY <1>0, <1>3, <2>1 DEF InsertField
    <2>3. QED
      BY <2>2, UnsharedReads
  <1>4. CASE FieldRead(h)
    <2>1. ASSUME NEW k, Become(h, [b EXCEPT !.pc = "insert_row", !.old = k])
          PROVE  call'[h].pc # "id_write"
      <3>1. [b EXCEPT !.pc = "insert_row", !.old = k].pc = "insert_row"
        BY DEF Calls
      <3>2. QED
        BY <1>1, <2>1, <3>1
    <2>2. call'[h].pc # "id_write" /\ UNCHANGED rec
      BY <1>0, <1>4, <2>1, ThenIdle, ThenNext DEF FieldRead
    <2>3. QED
      BY <2>2, UnsharedReads
  <1>5. CASE InsertRow(h)
    <2>1. ASSUME NEW k, Become(h, [b EXCEPT !.pc = "supersede", !.new = k])
          PROVE  call'[h].pc # "id_write"
      <3>1. [b EXCEPT !.pc = "supersede", !.new = k].pc = "supersede"
        BY DEF Calls
      <3>2. QED
        BY <1>1, <2>1, <3>1
    <2>2. call'[h].pc # "id_write" /\ UNCHANGED rec
      BY <1>0, <1>5, <2>1, ThenAfterRow DEF InsertRow
    <2>3. QED
      BY <2>2, UnsharedReads
  <1>6. CASE Supersede(h)
    <2>1. call'[h].pc # "id_write" /\ UNCHANGED rec
      BY <1>0, <1>6, ThenAfterRow DEF Supersede
    <2>2. QED
      BY <2>1, UnsharedReads
  <1>7. CASE IdRead(h)
    <2>1. ASSUME NEW id, Become(h, [b EXCEPT !.pc = "id_check", !.id = id])
          PROVE  call'[h].pc # "id_write"
      <3>1. [b EXCEPT !.pc = "id_check", !.id = id].pc = "id_check"
        BY DEF Calls
      <3>2. QED
        BY <1>1, <2>1, <3>1
    <2>2. ASSUME Become(h, [b EXCEPT !.pc = "id_write", !.id = Null]) PROVE call'[h].id = Null
      <3>1. [b EXCEPT !.pc = "id_write", !.id = Null].id = Null
        BY DEF Calls
      <3>2. QED
        BY <2>2, <3>1, Gets
    <2>3. (call'[h].pc = "id_write" => call'[h].id = Null) /\ UNCHANGED rec
      BY <1>0, <1>7, <2>1, <2>2 DEF IdRead
    <2>4. QED
      BY <2>3, UnsharedKept DEF SameIds
  <1>8. CASE IdCheck(h)
    <2>1. b.id \in Identities /\ ~b.id.own
      BY <1>0, <1>8 DEF IdCheck, At, Promise, Holds, Calls
    <2>2. PICK own \in BOOLEAN : /\ own = \E q \in Records \ {b.rec} : rec[q] # Null /\ rec[q].id = b.id
                                 /\ Become(h, [b EXCEPT !.pc = "id_write", !.id.own = own])
      BY <1>0, <1>8 DEF IdCheck
    <2>3. PICK id : id = [b.id EXCEPT !.own = own]
      OBVIOUS
    <2>4. PICK d : d = [b EXCEPT !.pc = "id_write", !.id = id]
      OBVIOUS
    <2>5. d.id = id /\ d.rec = b.rec
      BY <2>4 DEF Calls
    <2>6. id.own = own /\ (b.id.own = own => id = b.id)
      BY <2>1, <2>3 DEF Identities
    <2>7. call'[h] = d
      BY <2>2, <2>3, <2>4, Gets
    <2>8. ~own => \A q \in Records \ {b.rec} : rec[q] # Null => rec[q].id # id
      BY <2>1, <2>2, <2>6 DEF Identities
    <2>9. SameIds /\ rec' = rec
      BY <1>8 DEF IdCheck, SameIds
    <2>10. Free(d)'
      BY <2>5, <2>6, <2>8, <2>9 DEF Free
    <2>11. Free(call[h])'
      BY <2>7, <2>10 DEF Free
    <2>12. \A g \in Handlers : Free(call[g])'
      BY <2>9, <2>11, OthersStayFree
    <2>13. QED
      BY <2>9, <2>12, UniqueStays, UnsharedThen
  <1>9. CASE IdWrite(h)
    <2>1. b.rec \in Records /\ rec[b.rec] # Null /\ b.pc = "id_write"
      BY <1>0, <1>9 DEF IdWrite, At, Promise, Refers, RecordPcs, IdPcs
    <2>2. PICK row : row = [rec[b.rec] EXCEPT !.id = b.id]
      OBVIOUS
    <2>3. rec[b.rec] \in Recs
      BY <2>1 DEF Inv, Stored, Tables
    <2>4. row.id = b.id
      BY <2>2, <2>3 DEF Recs
    <2>5. rec' = [rec EXCEPT ![b.rec] = row]
      BY <1>0, <1>9, <2>2 DEF IdWrite
    <2>6. rec'[b.rec] = row /\ \A q \in Records : q # b.rec => rec'[q] = rec[q]
      BY <2>1, <2>5 DEF Inv, Stored, Tables
    <2>7. b.id # Null /\ ~ b.id.own =>
            \A q \in Records \ {b.rec} : rec[q] # Null /\ rec[q].id = b.id => {q, b.rec} \subseteq tied
      BY <1>0, <2>1 DEF Tying, Unshared, Free
    <2>8. ASSUME NEW q \in Records \ tied', NEW r \in Records, rec'[q] # Null, rec'[r] # Null,
                 q # r, rec'[q].id # Null, rec'[q].id = rec'[r].id
          PROVE  rec'[q].id.own
      <3>a. q \notin tied
        BY <2>8 DEF Tying
      <3>1. CASE q = b.rec
        BY <2>4, <2>6, <2>7, <2>8, <3>1, <3>a
      <3>2. CASE r = b.rec
        BY <2>4, <2>6, <2>7, <2>8, <3>2, <3>a
      <3>3. CASE q # b.rec /\ r # b.rec
        BY <2>6, <2>8, <3>3, <3>a DEF Tying, Unshared, IdsUnique, Known
      <3>4. QED
        BY <3>1, <3>2, <3>3
    <2>9. IdsUnique'
      BY <2>8 DEF IdsUnique, Known
    <2>10. [b EXCEPT !.id = Null] \in Calls
      BY DEF Calls
    <2>11. PICK e \in Calls : e = [b EXCEPT !.id = Null]
      BY <2>10, Zenon
    <2>12. AfterIdentity(h, e)
      BY <1>0, <1>9, <2>11 DEF IdWrite
    <2>13. call'[h].pc # "id_write"
      BY <2>12, ThenRecompute, ThenIdle, ThenNext DEF AfterIdentity
    <2>14. ASSUME NEW g \in Handlers
           PROVE  Free(call[g])'
      <3>1. CASE g = h
        BY <2>13, <3>1 DEF Free
      <3>2. CASE g # h
        <4>1. PICK c \in Calls : c = call[g] /\ call'[g] = c /\ Promise(c) /\ Free(c)
          BY <3>2, Own DEF Moving, Tying, Unshared
        <4>2. ASSUME c.pc = "id_write", c.id # Null, ~ c.id.own, NEW q \in Records \ {c.rec}, rec'[q] # Null,
                     rec'[q].id = c.id
              PROVE  {q, c.rec} \subseteq tied
          <5>1. CASE q # b.rec
            BY <2>6, <4>1, <4>2, <5>1 DEF Free
          <5>2. CASE q = b.rec
            <6>1. c.rec \in Records
              BY <4>1, <4>2 DEF Promise, Refers, RecordPcs, IdPcs
            <6>2. b.id = c.id /\ b.rec # c.rec
              BY <2>4, <2>6, <4>2, <5>2
            <6>3. Tied(b.rec) /\ Tied(c.rec)
              BY <1>0, <2>1, <4>1, <4>2, <6>2 DEF Tied, At
            <6>4. QED
              BY <2>1, <5>2, <6>1, <6>3 DEF Tying, Unshared, Ties
          <5>3. QED
            BY <5>1, <5>2
        <4>3. Free(c)'
          BY <4>2 DEF Free, Tying
        <4>4. QED
          BY <4>1, <4>3 DEF Free
      <3>3. QED
        BY <3>1, <3>2
    <2>15. QED
      BY <2>9, <2>14, UnsharedThen
  <1>10. CASE DecideRead(h)
    <2>1. ASSUME NEW flag, Become(h, [b EXCEPT !.pc = "decide_write", !.flag = flag])
          PROVE  call'[h].pc # "id_write"
      <3>1. [b EXCEPT !.pc = "decide_write", !.flag = flag].pc = "decide_write"
        BY DEF Calls
      <3>2. QED
        BY <1>1, <2>1, <3>1
    <2>2. call'[h].pc # "id_write" /\ UNCHANGED rec
      BY <1>0, <1>10, <2>1, ThenIdle DEF DecideRead
    <2>3. QED
      BY <2>2, UnsharedReads
  <1>11. CASE DecideWrite(h)
    <2>1. b.rec \in Records /\ rec[b.rec] # Null
      BY <1>0, <1>11 DEF DecideWrite, At, Promise, Refers, RecordPcs, DecidePcs
    <2>2. rec[b.rec] \in Recs
      BY <2>1 DEF Inv, Stored, Tables
    <2>3. PICK status : rec' = [rec EXCEPT ![b.rec].status = status, ![b.rec].override = b.flag]
      BY <1>0, <1>11 DEF DecideWrite
    <2>4. PICK row : row = [rec[b.rec] EXCEPT !.status = status, !.override = b.flag]
      OBVIOUS
    <2>5. rec' = [rec EXCEPT ![b.rec] = row]
      BY <2>1, <2>3, <2>4 DEF Inv, Stored, Tables
    <2>6. row.id = rec[b.rec].id
      BY <2>2, <2>4 DEF Recs
    <2>7. call'[h].pc # "id_write"
      BY <1>11, ThenIdle DEF DecideWrite
    <2>8. QED
      BY <2>1, <2>5, <2>6, <2>7, UnsharedRecord
  <1>12. CASE RequestRead(h)
    <2>1. ASSUME NEW n, Become(h, [b EXCEPT !.pc = "request_write", !.new = n])
          PROVE  call'[h].pc # "id_write"
      <3>1. [b EXCEPT !.pc = "request_write", !.new = n].pc = "request_write"
        BY DEF Calls
      <3>2. QED
        BY <1>1, <2>1, <3>1
    <2>2. call'[h].pc # "id_write" /\ UNCHANGED rec
      BY <1>0, <1>12, <2>1, ThenIdle DEF RequestRead
    <2>3. QED
      BY <2>2, UnsharedReads
  <1>13. CASE RequestWrite(h) \/ SubmitWrite(h) \/ RevisionWrite(h)
    <2>1. call'[h].pc # "id_write" /\ UNCHANGED rec
      BY <1>13, ThenIdle DEF RequestWrite, SubmitWrite, RevisionWrite
    <2>2. QED
      BY <2>1, UnsharedReads
  <1>14. ASSUME NEW pc \in {"submit_write", "field_read", "revision_write"}, Goto(h, pc)
         PROVE  call'[h].pc # "id_write"
    <2>1. [b EXCEPT !.pc = pc].pc = pc
      BY DEF Calls
    <2>2. QED
      BY <1>0, <1>1, <1>14, <2>1 DEF Goto
  <1>15. CASE SubmitRead(h) \/ \E available \in BOOLEAN : RecordRead(h, available)
    <2>1. call'[h].pc # "id_write" /\ UNCHANGED rec
      BY <1>14, <1>15, ThenIdle DEF SubmitRead, RecordRead
    <2>2. QED
      BY <2>1, UnsharedReads
  <1>16. CASE RevisionRead(h)
    <2>1. [b EXCEPT !.pc = "revision_write", !.who = Null].pc = "revision_write"
      BY DEF Calls
    <2>2. ASSUME NEW r, NEW todo, Become(h, [b EXCEPT !.pc = "record_read", !.who = Null, !.rec = r, !.todo = todo])
          PROVE  call'[h].pc # "id_write"
      <3>1. [b EXCEPT !.pc = "record_read", !.who = Null, !.rec = r, !.todo = todo].pc = "record_read"
        BY DEF Calls
      <3>2. QED
        BY <1>1, <2>2, <3>1
    <2>3. call'[h].pc # "id_write" /\ UNCHANGED rec
      BY <1>0, <1>1, <1>16, <2>1, <2>2, ThenIdle DEF RevisionRead
    <2>4. QED
      BY <2>3, UnsharedReads
  <1>17. CASE VersionWrite(h)
    <2>1. b.rec \in Records /\ rec[b.rec] # Null
      BY <1>0, <1>17 DEF VersionWrite, At, Promise, Refers, RecordPcs
    <2>2. rec[b.rec] \in Recs
      BY <2>1 DEF Inv, Stored, Tables
    <2>3. PICK n : rec' = [rec EXCEPT ![b.rec].version = n]
      BY <1>0, <1>17 DEF VersionWrite
    <2>4. PICK row : row = [rec[b.rec] EXCEPT !.version = n]
      OBVIOUS
    <2>5. rec' = [rec EXCEPT ![b.rec] = row]
      BY <2>3, <2>4
    <2>6. row.id = rec[b.rec].id
      BY <2>2, <2>4 DEF Recs
    <2>7. call'[h].pc # "id_write"
      BY <1>14, <1>17 DEF VersionWrite
    <2>8. QED
      BY <2>1, <2>5, <2>6, <2>7, UnsharedRecord
  <1>18. QED
    BY <1>2, <1>3, <1>4, <1>5, <1>6, <1>7, <1>8, <1>9, <1>10, <1>11, <1>12, <1>13, <1>15, <1>16, <1>17 DEF Statements

\* However many people parse, correct and compute again at the same time, and whenever the server
\* stops: a record shares its canonical id, hence its permanent URL, with no other, unless the id
\* has the record's number appended or the identity was being written to two records at once.
THEOREM OneUrlPerRecord == HistorySpec => []IdsUnique
  <1>1. ASSUME HistoryInit PROVE Unshared
    <2>1. \A r \in Records : rec[r] = Null
      BY <1>1 DEF HistoryInit, Init
    <2>2. \A h \in Handlers : call[h].pc = "idle"
      BY <1>1 DEF HistoryInit, Init, Idle
    <2>3. QED
      BY <2>1, <2>2 DEF Unshared, IdsUnique, Known, Ties, Tied, Free, At
  <1>2. ASSUME Inv, Inv', Unshared, [HistoryNext]_historyVars PROVE Unshared'
    <2>1. CASE UNCHANGED historyVars
      BY <1>2, <2>1 DEF historyVars, reviewVars, Unshared, IdsUnique, Known, Ties, Tied, Free, At
    <2>2. CASE HistoryNext
      <3>1. Tying
        BY <1>2, <2>2 DEF HistoryNext, Tying
      <3>2. CASE Crash
        <4>1. \A h \in Handlers : call'[h].pc # "id_write"
          BY <3>2 DEF Crash, Idle
        <4>2. SameIds
          BY <3>2 DEF Crash, records, SameIds
        <4>3. \A h \in Handlers : Free(call[h])'
          BY <4>1 DEF Free
        <4>4. QED
          BY <3>1, <4>2, <4>3, UniqueStays, UnsharedThen
      <3>3. ASSUME NEW h \in Handlers, Arrivals(h) PROVE Unshared'
        BY <1>2, <3>1, <3>3, OneMoves, UnsharedArrival
      <3>4. ASSUME NEW h \in Handlers, Statements(h) PROVE Unshared'
        BY <1>2, <3>1, <3>4, OneMoves, UnsharedStatement
      <3>5. QED
        BY <2>2, <3>2, <3>3, <3>4 DEF HistoryNext, Next
    <2>3. QED
      BY <1>2, <2>1, <2>2
  <1>3. Unshared => IdsUnique
    BY DEF Unshared
  <1>4. QED
    BY <1>1, <1>2, <1>3, HistoryIsReview, Invariance, PTL DEF HistorySpec

=============================================================================
