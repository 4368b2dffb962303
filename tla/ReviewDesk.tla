------------------------------ MODULE ReviewDesk ------------------------------
(* The review centre: the queues that pending records are sorted into        *)
(* (operations/triage.py, operations/review.py), the pages that decide or    *)
(* reprocess a selection of a queue (workbench/app.py), escalations, backlog *)
(* campaigns (operations/backlog_campaigns.py), the removal of duplicates    *)
(* (operations/dedup.py) and the numbers the dashboards compute from the     *)
(* same rows by queries of their own (operations/quality.py).                *)
(* Each reviewer makes one request at a time; a statement is a transaction.  *)
EXTENDS Naturals, Sequences, FiniteSets, FiniteSetsExt

CONSTANTS
    Reviewers,
    Papers,         \* archived documents
    DepartmentOf,   \* the department of the source of each
    Failing,        \* those with a row of extraction_failures
    Shapes,         \* what an extraction may make of a document, see ShapeRows
    MaxEntries,     \* bound on go_records
    MaxRows,        \* bound on the rows of go_fields of a record and field
    MaxEscalations, \* bound on escalations
    MaxCampaigns,   \* bound on backlog_campaigns
    TableSize,      \* how many departments the dashboard's table has (5)
    Absent

VARIABLES
    entry,       \* go_records: paper, shape, status, and whether it was approved with a gap, or Absent
    rows,        \* per record and core field: its rows of go_fields in order
    lastEntry,   \* the AUTOINCREMENT counter of go_records
    available,   \* the documents whose PDF can be served
    escalation,  \* escalations in order, Absent when deleted
    campaign,    \* backlog_campaigns in order
    desk,        \* per reviewer: the request it waits for
    stripped     \* the records whose fields a cleanup has deleted, for the properties

recordTables == <<entry, rows, lastEntry>>
deskVars == <<recordTables, available, escalation, campaign, desk, stripped>>

Entries == 1..MaxEntries
Statuses == {"pending", "approved", "rejected"}
CoreFields == {"go_number", "go_date", "department", "subject"}

\* A row of go_fields: extracted with a confidence below 0.7 or not, or superseded.
RowKinds == {"weak", "strong", "out"}
Extracted == {"weak", "strong", "none"}

DocumentTypes == {"GO", "Circular", "Press Release", "Tender Notice", "Notification", "Advertisement", "Letter", "Unknown"}

\* The fields found, how many of the three optional ones, the confidence of the extraction and of its last OCR
\* run in percent, whether pages needed OCR, and what the subject and the first page read like.
ShapeRows == [found : [CoreFields -> Extracted], optional : 0..3, confidence : 0..100,
              ocr : 0..100 \cup {Absent}, scanned : BOOLEAN, words : DocumentTypes]

ASSUME DeskAssumption ==
    /\ Absent \notin Papers /\ Absent \notin [paper : Papers, shape : Shapes, status : Statuses, gap : BOOLEAN]
    /\ Shapes \subseteq ShapeRows
    /\ TableSize \in Nat /\ MaxEntries \in Nat /\ MaxRows \in Nat /\ MaxEscalations \in Nat /\ MaxCampaigns \in Nat

Blank == [f \in CoreFields |-> <<>>]
FreeDesk == [pc |-> "idle", op |-> "none", queue |-> "none", todo |-> {}, at |-> 0, paper |-> Absent, field |-> "subject",
             row |-> 0, override |-> FALSE, gap |-> FALSE, skipped |-> {}, failed |-> {}, processed |-> {}]

DeskInit ==
    /\ entry = [r \in Entries |-> Absent] /\ rows = [r \in Entries |-> Blank] /\ lastEntry = 0
    /\ available = Papers /\ escalation = <<>> /\ campaign = <<>>
    /\ desk = [p \in Reviewers |-> FreeDesk] /\ stripped = {}

Waits(p, pc) == desk[p].pc = pc
Sit(p, d) == desk' = [desk EXCEPT ![p] = d]
Leave(p) == Sit(p, FreeDesk)

Exists(r) == entry[r] # Absent
Pending == {r \in Entries : Exists(r) /\ entry[r].status = "pending"}
InForceRows(r, f) == {i \in DOMAIN rows[r][f] : rows[r][f][i] # "out"}
InForce(r) == {f \in CoreFields : InForceRows(r, f) # {}}

\* An extraction of that shape inserts a row for each field it found.
WithFields(existing, shape) ==
    [f \in CoreFields |-> IF shape.found[f] = "none" THEN existing[f] ELSE Append(existing[f], shape.found[f])]

-----------------------------------------------------------------------------
(* Triage, over the fields that were in force when they were read.          *)

ReviewerQueues == {"ocr_issues", "likely_non_go", "needs_correction", "ready_for_approval"}
TypedQueues == {"extraction", "ocr", "metadata", "failure"}
Workbenches == {"critical_extraction_failure", "missing_metadata"}
CriticalMissingThreshold == 3
OcrMinConfidence == 35

DocumentType(r, present) == IF "go_number" \in present THEN "GO" ELSE entry[r].shape.words
PoorOcr(r) == entry[r].shape.ocr # Absent /\ entry[r].shape.ocr < OcrMinConfidence

Segment(r, present) ==
    IF Cardinality(CoreFields \ present) >= CriticalMissingThreshold THEN "critical_extraction_failure"
    ELSE IF PoorOcr(r) THEN "ocr_issues"
    ELSE IF DocumentType(r, present) # "GO" THEN "likely_non_go"
    ELSE IF present # CoreFields THEN "needs_correction"
    ELSE "ready_for_approval"

\* The queues that one SELECT lists.
Typed(r, queue) ==
    \/ queue = "extraction"
    \/ queue = "ocr" /\ entry[r].shape.scanned
    \/ queue = "failure" /\ entry[r].paper \in Failing
    \/ /\ queue = "metadata" /\ ~ entry[r].shape.scanned
       /\ \E f \in CoreFields : \E i \in InForceRows(r, f) : rows[r][f][i] = "weak"

QueueSize(queue) ==
    IF queue \in TypedQueues THEN Cardinality({r \in Pending : Typed(r, queue)})
    ELSE Cardinality({r \in Pending : Segment(r, InForce(r)) = queue})

NotReady == {r \in Pending : Segment(r, InForce(r)) # "ready_for_approval"}
Department(r) == DepartmentOf[entry[r].paper]
Blockers(department) == {r \in NotReady : Department(r) = department}
Blocked == {Department(r) : r \in NotReady}

\* The table of departments may be any of these: those with the most blockers, as many as it has room
\* for, and of two with equally many either.
DepartmentTables ==
    {T \in SUBSET Blocked :
        /\ Cardinality(T) = IF Cardinality(Blocked) <= TableSize THEN Cardinality(Blocked) ELSE TableSize
        /\ \A d \in Blocked \ T, t \in T : Cardinality(Blockers(d)) <= Cardinality(Blockers(t))}

\* What its numbers add up to.
NeedAttention(T) == Cardinality({x \in T \X Entries : x[2] \in Blockers(x[1])})

-----------------------------------------------------------------------------
(* Quality, times ten so that one decimal place stays.                       *)

Weight == [go_number |-> 200, go_date |-> 150, department |-> 150, subject |-> 150,
           pdf_availability |-> 150, ocr_confidence |-> 100, metadata_completeness |-> 100]

Earned(present) == [f \in CoreFields |-> IF f \in present THEN Weight[f] ELSE 0]

QualityScore(r) ==
    LET core == Earned(InForce(r))
        shape == entry[r].shape
    IN core["go_number"] + core["go_date"] + core["department"] + core["subject"]
       + (IF entry[r].paper \in available THEN Weight["pdf_availability"] ELSE 0)
       + (shape.confidence * Weight["ocr_confidence"]) \div 100
       + (2 * shape.optional * Weight["metadata_completeness"] + 3) \div 6

QualityCategory(score) ==
    IF score >= 900 THEN "Excellent" ELSE IF score >= 750 THEN "Good" ELSE IF score >= 500 THEN "Needs Review" ELSE "Poor"

\* What citizens see of it.
ConfidenceLabel(score) ==
    IF score >= 850 THEN "High Confidence" ELSE IF score >= 600 THEN "Medium Confidence" ELSE "Review Recommended"

\* The join of a record with its rows in force.
Joined(r) == UNION {{f} \X InForceRows(r, f) : f \in CoreFields}

\* Mutant: the joined rows are counted, not the names they carry.
SuccessfulRows(r) == Cardinality(Joined(r)) = Cardinality(CoreFields)

\* COUNT(DISTINCT field_name) over the join.
Successful(r) == Cardinality({x[1] : x \in Joined(r)}) = Cardinality(CoreFields)

MissingMetadata == {r \in Pending : InForce(r) # CoreFields \/ entry[r].paper \notin available}

PendingOf(d) == {r \in Pending : entry[r].paper = d}
Newest(S) == CHOOSE r \in S : \A q \in S : q <= r

\* What a cleanup would remove: all but the newest pending record of a document.
Duplicates == {r \in Pending : r # Newest(PendingOf(entry[r].paper))}

\* The funnel adds up, document by document, by a query of its own, what is pending but one (a sum of pairs).
FunnelDuplicates == Cardinality({x \in Papers \X Entries : x[2] < Cardinality(PendingOf(x[1]))})

-----------------------------------------------------------------------------
(* Listing a queue and selecting from it.                                   *)

\* A typed queue is one SELECT; a smart one reads the pending records first.
ListQueue(p, queue) ==
    /\ Waits(p, "idle") /\ Pending # {}
    /\ IF queue \in TypedQueues
       THEN Sit(p, [FreeDesk EXCEPT !.pc = "select", !.queue = queue, !.todo = {r \in Pending : Typed(r, queue)}])
       ELSE Sit(p, [FreeDesk EXCEPT !.pc = "list_fields", !.queue = queue, !.todo = Pending])
    /\ UNCHANGED <<recordTables, available, escalation, campaign, stripped>>

ListFields(p) ==
    LET d == desk[p]
        Listed(r) == IF d.queue = "missing_metadata"
                     THEN InForce(r) # CoreFields \/ entry[r].paper \notin available
                     ELSE Segment(r, InForce(r)) = d.queue
    IN
    /\ Waits(p, "list_fields")
    /\ Sit(p, [d EXCEPT !.pc = "select", !.todo = {r \in d.todo : Listed(r)}])
    /\ UNCHANGED <<recordTables, available, escalation, campaign, stripped>>

\* The bulk actions of its page.
Offered(queue) ==
    IF queue \in Workbenches THEN {"reprocess"}
    ELSE IF queue \in {"failure", "ocr_issues", "ready_for_approval"} THEN {"approve"}
    ELSE {"approve", "reject"}

\* Later, one of the bulk actions for what is ticked: nothing, on a page that stays unused.
Submit(p, op, ticked) ==
    /\ Waits(p, "select") /\ ticked \subseteq desk[p].todo
    /\ op \in Offered(desk[p].queue)
    /\ IF ticked = {} THEN Leave(p) ELSE Sit(p, [desk[p] EXCEPT !.pc = "next", !.op = op, !.todo = ticked])
    /\ UNCHANGED <<recordTables, available, escalation, campaign, stripped>>

\* The page of one record, which alone offers the override, or the failure workbench.
Decide(p, op, r, override) ==
    /\ Waits(p, "idle") /\ Exists(r) /\ (override => op = "approve")
    /\ Sit(p, [FreeDesk EXCEPT !.pc = "next", !.op = op, !.todo = {r}, !.override = override])
    /\ UNCHANGED <<recordTables, available, escalation, campaign, stripped>>

-----------------------------------------------------------------------------
(* The loop over a selection: nothing that happens to one record stops it.  *)

Onward(d) == [d EXCEPT !.pc = "next", !.at = 0, !.paper = Absent, !.row = 0, !.gap = FALSE]
Skip(d, r) == [Onward(d) EXCEPT !.todo = @ \ {r}, !.skipped = @ \cup {r}]
Fail(d) == [Onward(d) EXCEPT !.failed = @ \cup {d.at}]
Process(d) == [Onward(d) EXCEPT !.processed = @ \cup {d.at}]

FirstRead == [approve |-> "read_fields", reject |-> "write_status", reprocess |-> "insert_entry"]

RequireRecord(p, r) ==
    LET d == desk[p] IN
    /\ Waits(p, "next") /\ r \in d.todo
    /\ IF Exists(r)
       THEN Sit(p, [d EXCEPT !.pc = FirstRead[d.op], !.at = r, !.paper = entry[r].paper, !.todo = @ \ {r}])
       ELSE Sit(p, Skip(d, r))
    /\ UNCHANGED <<recordTables, available, escalation, campaign, stripped>>

\* get_summary, and the gate: a record with a gap is skipped unless the reviewer overrides it.
ReadFields(p) ==
    LET d == desk[p]
        missing == CoreFields \ InForce(d.at)
    IN /\ Waits(p, "read_fields")
       /\ IF ~ Exists(d.at) \/ (missing # {} /\ ~ d.override)
          THEN Sit(p, Skip(d, d.at))
          ELSE Sit(p, [d EXCEPT !.pc = "write_status", !.gap = missing # {}])
       /\ UNCHANGED <<recordTables, available, escalation, campaign, stripped>>

\* The UPDATE; it finds nothing when the record has been removed since, and the record counts as processed.
WriteStatus(p) ==
    LET d == desk[p]
        status == IF d.op = "approve" THEN "approved" ELSE "rejected"
    IN /\ Waits(p, "write_status")
       /\ entry' = IF Exists(d.at)
                   THEN [entry EXCEPT ![d.at].status = status, ![d.at].gap = d.op = "approve" /\ d.gap]
                   ELSE entry
       /\ Sit(p, Process(d))
       /\ UNCHANGED <<rows, lastEntry, available, escalation, campaign, stripped>>

\* parse_document makes a new record and leaves the old one; it raises, before or after.
ParseFails(p) ==
    /\ Waits(p, "insert_entry") \/ Waits(p, "insert_fields")
    /\ Sit(p, Fail(desk[p]))
    /\ UNCHANGED <<recordTables, available, escalation, campaign, stripped>>

InsertEntry(p, shape) ==
    /\ Waits(p, "insert_entry") /\ lastEntry < MaxEntries
    /\ lastEntry' = lastEntry + 1
    /\ entry' = [entry EXCEPT ![lastEntry + 1] =
                     [paper |-> desk[p].paper, shape |-> shape, status |-> "pending", gap |-> FALSE]]
    /\ Sit(p, [desk[p] EXCEPT !.pc = "insert_fields", !.row = lastEntry + 1])
    /\ UNCHANGED <<rows, available, escalation, campaign, stripped>>

InsertFields(p) ==
    LET d == desk[p] IN
    /\ Waits(p, "insert_fields")
    /\ IF Exists(d.row)
       THEN rows' = [rows EXCEPT ![d.row] = WithFields(@, entry[d.row].shape)] /\ Sit(p, Process(d))
       ELSE Sit(p, Fail(d)) /\ UNCHANGED rows
    /\ UNCHANGED <<entry, lastEntry, available, escalation, campaign, stripped>>

\* The page with the three counts.
ShowCounts(p) ==
    /\ Waits(p, "next") /\ desk[p].todo = {}
    /\ Leave(p)
    /\ UNCHANGED <<recordTables, available, escalation, campaign, stripped>>

-----------------------------------------------------------------------------
(* A correction: the new row first, then the old one is superseded.         *)

\* The oldest row in force, or 0.
Current(r, f) == IF InForceRows(r, f) = {} THEN 0 ELSE CHOOSE i \in InForceRows(r, f) : \A j \in InForceRows(r, f) : i <= j

WithOut(r, f, i) == IF i \in DOMAIN rows[r][f] THEN [rows EXCEPT ![r][f][i] = "out"] ELSE rows

CorrectField(p, r, f) ==
    /\ Waits(p, "idle") /\ Exists(r) /\ Len(rows[r][f]) < MaxRows
    /\ Sit(p, [FreeDesk EXCEPT !.pc = "find_current", !.op = "correct", !.at = r, !.field = f])
    /\ UNCHANGED <<recordTables, available, escalation, campaign, stripped>>

\* Mutant: the row in force is superseded before there is another.
ReadCurrentSupersedes(p) ==
    LET d == desk[p] IN
    /\ Waits(p, "find_current")
    /\ rows' = WithOut(d.at, d.field, Current(d.at, d.field))
    /\ Sit(p, [d EXCEPT !.pc = "insert_row", !.row = Current(d.at, d.field)])
    /\ UNCHANGED <<entry, lastEntry, available, escalation, campaign, stripped>>

\* Without a row in force the reviewer has to name a page, and does.
ReadCurrent(p) ==
    LET d == desk[p] IN
    /\ Waits(p, "find_current")
    /\ Sit(p, [d EXCEPT !.pc = "insert_row", !.row = Current(d.at, d.field)])
    /\ UNCHANGED <<recordTables, available, escalation, campaign, stripped>>

InsertRow(p) ==
    LET d == desk[p] IN
    /\ Waits(p, "insert_row")
    /\ IF Exists(d.at) /\ Len(rows[d.at][d.field]) < MaxRows
       THEN /\ rows' = [rows EXCEPT ![d.at][d.field] = Append(@, "strong")]
            /\ IF d.row = 0 THEN Leave(p) ELSE Sit(p, [d EXCEPT !.pc = "supersede"])
       ELSE Leave(p) /\ UNCHANGED rows
    /\ UNCHANGED <<entry, lastEntry, available, escalation, campaign, stripped>>

Supersede(p) ==
    LET d == desk[p] IN
    /\ Waits(p, "supersede")
    /\ rows' = WithOut(d.at, d.field, d.row)
    /\ Leave(p)
    /\ UNCHANGED <<entry, lastEntry, available, escalation, campaign, stripped>>

-----------------------------------------------------------------------------
(* Escalations, a flag beside the record.                                   *)

Escalate(p, r) ==
    /\ Waits(p, "idle") /\ Exists(r)
    /\ Sit(p, [FreeDesk EXCEPT !.pc = "insert_escalation", !.op = "escalate", !.at = r])
    /\ UNCHANGED <<recordTables, available, escalation, campaign, stripped>>

InsertEscalation(p) ==
    /\ Waits(p, "insert_escalation")
    /\ escalation' = IF Exists(desk[p].at) /\ Len(escalation) < MaxEscalations
                     THEN Append(escalation, [entry |-> desk[p].at, resolved |-> FALSE]) ELSE escalation
    /\ Leave(p)
    /\ UNCHANGED <<recordTables, available, campaign, stripped>>

ResolveEscalation(p, e) ==
    /\ Waits(p, "idle") /\ escalation[e] # Absent
    /\ Sit(p, [FreeDesk EXCEPT !.pc = "resolve", !.op = "resolve", !.row = e])
    /\ UNCHANGED <<recordTables, available, escalation, campaign, stripped>>

WriteResolved(p) ==
    LET e == desk[p].row IN
    /\ Waits(p, "resolve")
    /\ escalation' = IF escalation[e] = Absent THEN escalation ELSE [escalation EXCEPT ![e].resolved = TRUE]
    /\ Leave(p)
    /\ UNCHANGED <<recordTables, available, campaign, stripped>>

-----------------------------------------------------------------------------
(* Backlog campaigns.                                                       *)

Running == {c \in DOMAIN campaign : ~ campaign[c].ended}
ActiveCampaign == CHOOSE c \in Running : \A d \in Running : d <= c

StartCampaign(p, target) ==
    /\ Waits(p, "idle") /\ Running = {} /\ Len(campaign) < MaxCampaigns
    /\ Sit(p, [FreeDesk EXCEPT !.pc = "count_backlog", !.op = "campaign", !.row = target])
    /\ UNCHANGED <<recordTables, available, escalation, campaign, stripped>>

CountBacklog(p) ==
    /\ Waits(p, "count_backlog")
    /\ Sit(p, [desk[p] EXCEPT !.pc = "insert_campaign", !.at = QueueSize("extraction")])
    /\ UNCHANGED <<recordTables, available, escalation, campaign, stripped>>

InsertCampaign(p) ==
    LET d == desk[p] IN
    /\ Waits(p, "insert_campaign")
    /\ campaign' = Append(campaign, [start |-> d.at, target |-> d.row, ended |-> FALSE])
    /\ Leave(p)
    /\ UNCHANGED <<recordTables, available, escalation, stripped>>

EndCampaign(p, c) ==
    /\ Waits(p, "idle")
    /\ campaign' = [campaign EXCEPT ![c].ended = TRUE]
    /\ UNCHANGED <<recordTables, available, escalation, desk, stripped>>

\* The reduction in percent that the dashboard shows.
Progress(c, current) ==
    LET reduced == IF current < c.start THEN c.start - current ELSE 0
        denominator == IF c.target < c.start THEN c.start - c.target ELSE 1
    IN Min({(reduced * 100) \div denominator, 100})

-----------------------------------------------------------------------------
(* The removal of duplicates, the PDFs, a crash.                            *)

CleanUp(p) ==
    /\ Waits(p, "idle") /\ Duplicates # {}
    /\ Sit(p, [FreeDesk EXCEPT !.pc = "drop_escalations", !.op = "cleanup", !.todo = Duplicates])
    /\ UNCHANGED <<recordTables, available, escalation, campaign, stripped>>

DropEscalations(p, r) ==
    LET d == desk[p] IN
    /\ Waits(p, "drop_escalations") /\ r \in d.todo
    /\ IF Exists(r)
       THEN /\ escalation' = [e \in DOMAIN escalation |->
                 IF escalation[e] # Absent /\ escalation[e].entry = r THEN Absent ELSE escalation[e]]
            /\ Sit(p, [d EXCEPT !.pc = "drop_fields", !.at = r, !.todo = @ \ {r}])
       ELSE Sit(p, [d EXCEPT !.todo = @ \ {r}]) /\ UNCHANGED escalation
    /\ UNCHANGED <<recordTables, available, campaign, stripped>>

DropFields(p) ==
    /\ Waits(p, "drop_fields")
    /\ rows' = [rows EXCEPT ![desk[p].at] = Blank]
    /\ stripped' = stripped \cup {desk[p].at}
    /\ Sit(p, [desk[p] EXCEPT !.pc = "drop_entry"])
    /\ UNCHANGED <<entry, lastEntry, available, escalation, campaign>>

Escalated(r) == \E e \in DOMAIN escalation : escalation[e] # Absent /\ escalation[e].entry = r

\* A field or an escalation that came in between refers to the record: the cleanup ends there with a 500.
DropEntry(p) ==
    LET d == desk[p] IN
    /\ Waits(p, "drop_entry")
    /\ IF Exists(d.at) /\ (Escalated(d.at) \/ rows[d.at] # Blank)
       THEN Leave(p) /\ UNCHANGED entry
       ELSE /\ entry' = [entry EXCEPT ![d.at] = Absent]
            /\ Sit(p, [d EXCEPT !.pc = "drop_escalations", !.at = 0])
    /\ UNCHANGED <<rows, lastEntry, available, escalation, campaign, stripped>>

CleanedUp(p) ==
    /\ Waits(p, "drop_escalations") /\ desk[p].todo = {}
    /\ Leave(p)
    /\ UNCHANGED <<recordTables, available, escalation, campaign, stripped>>

\* A redeploy without a persistent disk loses the files that have no blob; a backfill stores them again.
PdfLost(d) ==
    /\ d \in available /\ available' = available \ {d}
    /\ UNCHANGED <<recordTables, escalation, campaign, desk, stripped>>

PdfStored(d) ==
    /\ d \notin available /\ available' = available \cup {d}
    /\ UNCHANGED <<recordTables, escalation, campaign, desk, stripped>>

\* The browser is closed, or the server stops.
Interrupted(p) ==
    /\ ~ Waits(p, "idle")
    /\ Leave(p)
    /\ UNCHANGED <<recordTables, available, escalation, campaign, stripped>>

Batch(p) ==
    \/ \E queue \in TypedQueues \cup ReviewerQueues \cup Workbenches : ListQueue(p, queue)
    \/ ListFields(p)
    \/ \E op \in {"approve", "reject", "reprocess"} :
          \/ \E ticked \in SUBSET Entries : Submit(p, op, ticked)
          \/ \E r \in Entries : \E override \in BOOLEAN : Decide(p, op, r, override)
    \/ \E r \in Entries : RequireRecord(p, r)
    \/ ReadFields(p) \/ WriteStatus(p) \/ ParseFails(p) \/ InsertFields(p) \/ ShowCounts(p)
    \/ \E shape \in Shapes : InsertEntry(p, shape)

Edit(p) ==
    \/ \E r \in Entries : (\E f \in CoreFields : CorrectField(p, r, f)) \/ Escalate(p, r)
    \/ ReadCurrent(p) \/ InsertRow(p) \/ Supersede(p) \/ InsertEscalation(p) \/ WriteResolved(p)
    \/ \E e \in DOMAIN escalation : ResolveEscalation(p, e)

Manage(p) ==
    \/ \E target \in 0..MaxEntries : StartCampaign(p, target)
    \/ \E c \in DOMAIN campaign : EndCampaign(p, c)
    \/ CountBacklog(p) \/ InsertCampaign(p)
    \/ CleanUp(p) \/ DropFields(p) \/ DropEntry(p) \/ CleanedUp(p)
    \/ \E r \in Entries : DropEscalations(p, r)

DeskNext ==
    \/ \E p \in Reviewers : Batch(p) \/ Edit(p) \/ Manage(p) \/ Interrupted(p)
    \/ \E d \in Papers : PdfLost(d) \/ PdfStored(d)

DeskSpec == DeskInit /\ [][DeskNext]_deskVars

-----------------------------------------------------------------------------
(* Properties.                                                              *)

\* The tables hold what their columns allow, ids are handed out in order, and what refers to a record finds it.
DeskTypeOK ==
    /\ \A r \in Entries : Exists(r) =>
          /\ r <= lastEntry
          /\ entry[r] \in [paper : Papers, shape : Shapes, status : Statuses, gap : BOOLEAN]
    /\ \A r \in Entries, f \in CoreFields : rows[r][f] \in Seq(RowKinds) /\ (rows[r][f] # <<>> => Exists(r))
    /\ \A e \in DOMAIN escalation : escalation[e] # Absent => Exists(escalation[e].entry)
    /\ lastEntry \in 0..MaxEntries /\ available \subseteq Papers

\* What the review centre lists as ready for approval can be approved: from the moment the page was read until the
\* selection is worked off, whoever corrects, decides or reprocesses meanwhile, a batch skips a record of that
\* queue only when a cleanup has deleted its fields (triage.py:132, app.py:918).
ReadyIsApprovable ==
    \A p \in Reviewers :
        desk[p].queue = "ready_for_approval" => \A r \in desk[p].skipped : r \in stripped \/ ~ Exists(r)

\* A record approved without an override counts as extracted in full and is not recommended for review; a critical
\* one is, and never scores well; one that is ready scores well and is not among the missing, unless its PDF is.
LabelEarned(r) ==
    LET score == QualityScore(r)
        segment == Segment(r, InForce(r))
    IN /\ entry[r].status = "approved" /\ ~ entry[r].gap /\ r \notin stripped
              => Successful(r) /\ ConfidenceLabel(score) # "Review Recommended"
       /\ segment = "critical_extraction_failure"
              => /\ ~ Successful(r) /\ ConfidenceLabel(score) = "Review Recommended"
                 /\ QualityCategory(score) \in {"Poor", "Needs Review"}
       /\ segment = "ready_for_approval" /\ entry[r].paper \in available
              => r \notin MissingMetadata /\ QualityCategory(score) \in {"Good", "Excellent"}
LabelsEarned == \A r \in Entries : Exists(r) => LabelEarned(r)

\* An active campaign that started above its target has reached 100 percent exactly when the backlog is down to it.
ProgressShown ==
    Running # {} /\ campaign[ActiveCampaign].target < campaign[ActiveCampaign].start
        => (Progress(campaign[ActiveCampaign], Cardinality(Pending)) = 100
               <=> Cardinality(Pending) <= campaign[ActiveCampaign].target)

\* The table of departments never shows more than the backlog that is not ready, and all of it only while no
\* more departments have blockers than it has room for.
TablesAgree ==
    LET open == Cardinality(Pending) - QueueSize("ready_for_approval")
    IN \A T \in DepartmentTables :
          /\ NeedAttention(T) <= open
          /\ NeedAttention(T) = open <=> Cardinality(Blocked) <= TableSize

\* The gate, the triage, the score and the label that citizens see are computed from the same rows by separate code
\* (quality.py:372, triage.py:124, review.py:269), and so are the numbers of the dashboards: labels are earned,
\* duplicates are counted as the cleanup counts them, the table of departments accounts for the backlog that is not
\* ready as far as it reaches, and a campaign's progress is that of the backlog.
NumbersAgree ==
    /\ LabelsEarned /\ ProgressShown /\ TablesAgree
    /\ FunnelDuplicates = Cardinality(Duplicates)

=============================================================================
