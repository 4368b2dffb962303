------------------------------- MODULE Evaluation ------------------------------
(* The golden set and the benchmark of the extractor against it              *)
(* (certification/golden.py, benchmark.py, failures.py, calibration.py):     *)
(* people state what a document says, field by field, and a run compares     *)
(* that with what the extractor stored, counts per field, and keeps every    *)
(* mismatch and how often each confidence was right.  Workers are threads of *)
(* the web server or commands of the CLI.  Each statement is its own         *)
(* transaction, and a worker may die between any two of them.                *)
EXTENDS Naturals, Sequences, FiniteSets, FiniteSetsExt

CONSTANTS
    Workers,
    Docs,            \* archived documents
    Fields,          \* SCORED_FIELDS
    Values,          \* what a field may say
    Findings,        \* what an extraction may find: a machine row or None for every field
    Category,        \* of each document: whether it is scanned, Tamil, full of tables
    Target,          \* TARGETS: the accuracy that a field has to reach, in percent
    MaxAnnotations,  \* bound on golden_annotations
    MaxRuns,         \* bound on certification_benchmark_runs
    None

ASSUME EvalAssumption ==
    /\ None \notin Docs /\ None \notin Fields /\ None \notin Values
    /\ None \notin [value : Values, confidence : 0 .. 100, cited : BOOLEAN]
    /\ None \notin [Fields -> [value : Values, confidence : 0 .. 100, cited : BOOLEAN] \cup {None}]
    /\ Findings \subseteq [Fields -> [value : Values, confidence : 0 .. 100, cited : BOOLEAN] \cup {None}]
    /\ Category \in [Docs -> [scanned : BOOLEAN, tamil : BOOLEAN, tables : BOOLEAN]]
    /\ Target \in [Fields -> 90 .. 100]
    /\ MaxAnnotations \in Nat /\ MaxRuns \in Nat

VARIABLES
    golden,      \* golden_documents
    annotation,  \* golden_annotations, in the order of their ids
    text,        \* the documents with a row of extractions
    row,         \* per document: its record, the row in force of every field, or None
    runs,        \* certification_benchmark_runs
    failure,     \* extraction_failures
    snapshot,    \* calibration_snapshots
    answered,    \* the runs whose request was answered, for the properties
    job          \* per worker: what it is doing

annotationTables == <<golden, annotation>>
extractionTables == <<text, row>>
runTables == <<runs, failure, snapshot, answered>>
evalVars == <<annotationTables, extractionTables, runTables, job>>

MachineRows == [value : Values, confidence : 0 .. 100, cited : BOOLEAN]
Types == {"hallucination", "ocr", "tamil", "reference", "table", "budget", "district", "other"}

Unemployed ==
    [pc |-> "free", op |-> "none", doc |-> None, field |-> None, value |-> None, current |-> 0, run |-> 0,
     todo |-> {}, expected |-> None, marks |-> {}, scored |-> 0, skipped |-> 0]

EvalInit ==
    /\ golden = {} /\ annotation = <<>>
    /\ text = {} /\ row = [d \in Docs |-> None]
    /\ runs = <<>> /\ failure = {} /\ snapshot = {} /\ answered = {}
    /\ job = [w \in Workers |-> Unemployed]

At(w, pc) == job[w].pc = pc
Goto(w, j) == job' = [job EXCEPT ![w] = j]
Finish(w) == Goto(w, Unemployed)

-----------------------------------------------------------------------------
(* The golden set.                                                          *)

LookUpGolden(w, d) ==
    /\ At(w, "free") /\ d \notin golden
    /\ Goto(w, [Unemployed EXCEPT !.pc = "insert_golden", !.op = "golden", !.doc = d])
    /\ UNCHANGED <<annotationTables, extractionTables, runTables>>

\* document_id is UNIQUE: of two that add a document the second fails.
InsertGolden(w) ==
    /\ At(w, "insert_golden")
    /\ golden' = golden \cup {job[w].doc}
    /\ Finish(w)
    /\ UNCHANGED <<annotation, extractionTables, runTables>>

Live(d, f) == {i \in DOMAIN annotation : annotation[i].doc = d /\ annotation[i].field = f /\ annotation[i].next = 0}

\* annotate_field reads one annotation in force; the same value again changes nothing.
FindCurrent(w, d, f, v) ==
    /\ At(w, "free") /\ d \in golden
    /\ \E c \in IF Live(d, f) = {} THEN {0} ELSE Live(d, f) :
         /\ c # 0 => annotation[c].value # v
         /\ Goto(w, [Unemployed EXCEPT !.pc = "insert_annotation", !.op = "annotate", !.doc = d, !.field = f,
                                       !.value = v, !.current = c])
    /\ UNCHANGED <<annotationTables, extractionTables, runTables>>

InsertAnnotation(w) ==
    LET j == job[w] IN
    /\ At(w, "insert_annotation") /\ Len(annotation) < MaxAnnotations
    /\ annotation' = Append(annotation, [doc |-> j.doc, field |-> j.field, value |-> j.value, next |-> 0])
    /\ IF j.current = 0 THEN Finish(w)
       ELSE Goto(w, [j EXCEPT !.pc = "supersede", !.run = Len(annotation) + 1])
    /\ UNCHANGED <<golden, extractionTables, runTables>>

\* Mutant: every other annotation of the field is superseded.
SupersededOthers(j, i) ==
    i # j.run /\ annotation[i].doc = j.doc /\ annotation[i].field = j.field /\ annotation[i].next = 0

\* Whether the writer of annotation j.run supersedes annotation i: only the one it read.
Superseded(j, i) == i = j.current

SupersedeAnnotation(w) ==
    /\ At(w, "supersede")
    /\ annotation' = [i \in DOMAIN annotation |->
                        IF Superseded(job[w], i) THEN [annotation[i] EXCEPT !.next = job[w].run] ELSE annotation[i]]
    /\ Finish(w)
    /\ UNCHANGED <<golden, extractionTables, runTables>>

-----------------------------------------------------------------------------
(* The rows of the extractor.                                               *)

\* extract_document stores the text of a document; the record and each of its fields are statements of
\* their own. Bound: a document is extracted once here; that it may be reprocessed is in DocumentArchive.
Ingest(w, d) ==
    /\ At(w, "free") /\ d \notin text
    /\ text' = text \cup {d}
    /\ Goto(w, [Unemployed EXCEPT !.pc = "look_up_record", !.op = "ingest", !.doc = d])
    /\ UNCHANGED <<annotationTables, row, runTables>>

Stored(w) == IF job[w].op = "benchmark" THEN Goto(w, [job[w] EXCEPT !.pc = "load"]) ELSE Finish(w)

\* extract_and_store does nothing when this version of the extractor has a record.
LookUpRecord(w) ==
    /\ At(w, "look_up_record")
    /\ IF row[job[w].doc] # None THEN Stored(w) ELSE Goto(w, [job[w] EXCEPT !.pc = "insert_record"])
    /\ UNCHANGED <<annotationTables, extractionTables, runTables>>

\* A record that another worker inserted meanwhile violates UNIQUE and ends the request or the whole run.
InsertRecord(w) ==
    LET d == job[w].doc IN
    /\ At(w, "insert_record")
    /\ IF row[d] # None
       THEN Finish(w) /\ UNCHANGED row
       ELSE /\ row' = [row EXCEPT ![d] = [f \in Fields |-> None]]
            /\ \E found \in Findings : Goto(w, [job[w] EXCEPT !.pc = "insert_field", !.value = found])
    /\ UNCHANGED <<annotationTables, text, runTables>>

InsertField(w) ==
    LET j == job[w]
        left == {f \in Fields : j.value[f] # None}
    IN /\ At(w, "insert_field")
       /\ IF left = {}
          THEN Stored(w) /\ UNCHANGED row
          ELSE \E f \in left :
                 /\ row' = [row EXCEPT ![j.doc][f] = j.value[f]]
                 /\ Goto(w, [j EXCEPT !.value[f] = None])
       /\ UNCHANGED <<annotationTables, text, runTables>>

\* correct_field: its INSERT. load_fields takes the newest row that is not superseded, so the new row is in
\* force at once, and superseding the one that was read, a statement of its own in RecordReview, changes
\* nothing here.
Correct(w, d, f, v) ==
    /\ At(w, "free") /\ row[d] # None
    /\ row' = [row EXCEPT ![d][f] = [value |-> v, confidence |-> 100, cited |-> FALSE]]
    /\ UNCHANGED <<annotationTables, text, runTables, job>>

-----------------------------------------------------------------------------
(* run_full_certification.                                                  *)

BeginBenchmark(w) ==
    /\ At(w, "free") /\ golden # {}
    /\ Goto(w, [Unemployed EXCEPT !.pc = "annotations", !.op = "benchmark", !.todo = golden])
    /\ UNCHANGED <<annotationTables, extractionTables, runTables>>

\* get_annotations: where several are in force the newest counts.
Annotations(d) == [f \in {g \in Fields : Live(d, g) # {}} |-> annotation[Max(Live(d, f))].value]

Complete(d) == \A f \in Fields : Live(d, f) # {}

ReadAnnotations(w, d) ==
    LET j == job[w] IN
    /\ At(w, "annotations") /\ d \in j.todo
    /\ IF Complete(d) /\ d \in text
       THEN Goto(w, [j EXCEPT !.pc = "look_up_record", !.doc = d, !.todo = @ \ {d}, !.expected = Annotations(d)])
       ELSE Goto(w, [j EXCEPT !.todo = @ \ {d}, !.skipped = @ + 1])
    /\ UNCHANGED <<annotationTables, extractionTables, runTables>>

\* values_match is modelled as equality: Values are the values that it tells apart.
Outcome(m) ==
    CASE m.expected = None /\ m.actual = None -> "tn"
      [] m.expected = None /\ m.actual # None -> "hallucinated"
      [] m.expected # None /\ m.actual = None -> "missed"
      [] OTHER -> IF m.actual.value = m.expected THEN "tp" ELSE "wrong"

Score(w) ==
    LET j == job[w] IN
    /\ At(w, "load")
    /\ Goto(w, [j EXCEPT !.pc = "annotations", !.scored = @ + 1,
                         !.marks = @ \cup {[doc |-> j.doc, field |-> f, expected |-> j.expected[f],
                                            actual |-> row[j.doc][f]] : f \in DOMAIN j.expected}])
    /\ UNCHANGED <<annotationTables, extractionTables, runTables>>

Count(marks, f, outcomes) == Cardinality({m \in marks : m.field = f /\ Outcome(m) \in outcomes})

\* Mutant: a wrong value is no missed one.
FieldStatsWrongOnce(marks, f) ==
    [tp |-> Count(marks, f, {"tp"}), fp |-> Count(marks, f, {"wrong", "hallucinated"}),
     fn |-> Count(marks, f, {"missed"}), tn |-> Count(marks, f, {"tn"})]

FieldStats(marks, f) ==
    [tp |-> Count(marks, f, {"tp"}), fp |-> Count(marks, f, {"wrong", "hallucinated"}),
     fn |-> Count(marks, f, {"wrong", "missed"}), tn |-> Count(marks, f, {"tn"})]

Support(s) == s.tp + s.fp + s.fn + s.tn

\* phase2_targets_met: accuracy is (tp + tn) / support.
TargetsMet(stats) ==
    \A f \in Fields : 100 * (stats[f].tp + stats[f].tn) >= Target[f] * Support(stats[f])

InsertRun(w) ==
    LET j == job[w]
        stats == [f \in Fields |-> FieldStats(j.marks, f)]
    IN /\ At(w, "annotations") /\ j.todo = {} /\ Len(runs) < MaxRuns
       /\ runs' = Append(runs, [scored |-> j.scored, skipped |-> j.skipped, stats |-> stats,
                                met |-> TargetsMet(stats)])
       /\ Goto(w, [j EXCEPT !.pc = "failures", !.run = Len(runs) + 1, !.doc = None, !.expected = None,
                            !.todo = {m \in j.marks : Outcome(m) \in {"wrong", "missed", "hallucinated"}}])
       /\ UNCHANGED <<annotationTables, extractionTables, failure, snapshot, answered>>

\* classify: the likeliest cause first.
FailureType(m) ==
    LET c == Category[m.doc] IN
    CASE Outcome(m) = "hallucinated" -> "hallucination"
      [] Outcome(m) # "hallucinated" /\ c.scanned -> "ocr"
      [] Outcome(m) # "hallucinated" /\ ~ c.scanned /\ c.tamil -> "tamil"
      [] OTHER -> IF m.field \in {"go_number", "go_date"} /\ m.actual # None /\ m.actual.cited THEN "reference"
                  ELSE IF c.tables /\ m.field \in {"budget", "district"} THEN "table"
                  ELSE IF m.field \in {"budget", "district"} THEN m.field
                  ELSE "other"

RecordFailure(w) ==
    LET j == job[w] IN
    /\ At(w, "failures")
    /\ \/ \E m \in j.todo :
            /\ failure' = failure \cup
                 {[run |-> j.run, doc |-> m.doc, field |-> m.field, expected |-> m.expected,
                   actual |-> IF m.actual = None THEN None ELSE m.actual.value, type |-> FailureType(m)]}
            /\ Goto(w, [j EXCEPT !.todo = @ \ {m}])
       \/ /\ j.todo = {} /\ UNCHANGED failure
          /\ Goto(w, [j EXCEPT !.pc = "calibrate", !.todo = {m \in j.marks : m.actual # None}])
    /\ UNCHANGED <<annotationTables, extractionTables, runs, snapshot, answered>>

\* _bucket_for, with the quotients of the floating-point division: 0.3 / 0.1 is less than 3.
Bucket(c) ==
    IF c \in {30, 60, 70} THEN c \div 10 - 1
    ELSE IF c = 100 THEN 9
    ELSE c \div 10

\* compute_calibration groups the observations by field and bucket; one row for each.
Calibrate(w) ==
    LET j == job[w] IN
    /\ At(w, "calibrate")
    /\ \/ \E m \in j.todo :
            LET group == {o \in j.todo : o.field = m.field
                                         /\ Bucket(o.actual.confidence) = Bucket(m.actual.confidence)}
            IN /\ snapshot' = snapshot \cup
                    {[run |-> j.run, field |-> m.field, bucket |-> Bucket(m.actual.confidence),
                      predictions |-> Cardinality(group),
                      correct |-> Cardinality({o \in group : Outcome(o) = "tp"})]}
               /\ Goto(w, [j EXCEPT !.todo = @ \ group])
               /\ UNCHANGED answered
       \/ /\ j.todo = {} /\ answered' = answered \cup {j.run}
          /\ Finish(w) /\ UNCHANGED snapshot
    /\ UNCHANGED <<annotationTables, extractionTables, runs, failure>>

\* A deployment or an operator ends the worker between two statements.
Killed(w) ==
    /\ ~ At(w, "free") /\ Finish(w)
    /\ UNCHANGED <<annotationTables, extractionTables, runTables>>

EvalStep(w) ==
    \/ InsertGolden(w) \/ InsertAnnotation(w) \/ SupersedeAnnotation(w)
    \/ LookUpRecord(w) \/ InsertRecord(w) \/ InsertField(w)
    \/ \E d \in Docs : ReadAnnotations(w, d)
    \/ Score(w) \/ InsertRun(w) \/ RecordFailure(w) \/ Calibrate(w)

EvalNext ==
    \E w \in Workers :
        \/ EvalStep(w) \/ BeginBenchmark(w) \/ Killed(w)
        \/ \E d \in Docs : LookUpGolden(w, d) \/ Ingest(w, d)
        \/ \E d \in Docs, f \in Fields, v \in Values \cup {None} : FindCurrent(w, d, f, v)
        \/ \E d \in Docs, f \in Fields, v \in Values : Correct(w, d, f, v)

EvalSpec == EvalInit /\ [][EvalNext]_evalVars

-----------------------------------------------------------------------------
(* Properties.                                                              *)

EvalTypeOK ==
    /\ golden \subseteq Docs /\ text \subseteq Docs
    /\ \A i \in DOMAIN annotation :
         /\ annotation[i].doc \in golden /\ annotation[i].field \in Fields
         /\ annotation[i].value \in Values \cup {None} /\ annotation[i].next \in 0 .. Len(annotation)
    /\ \A d \in Docs : row[d] # None => d \in text /\ row[d] \in [Fields -> MachineRows \cup {None}]
    /\ \A x \in failure : x.run \in DOMAIN runs /\ x.type \in Types
    /\ \A x \in snapshot : x.run \in DOMAIN runs /\ x.bucket \in 0 .. 9

\* However annotators overlap and wherever one is interrupted, the newest judgement about a field is in force,
\* so that it is the one the benchmark reads: whatever is superseded is so by a later one of the same field.
LatestAnnotationLives ==
    \A i \in DOMAIN annotation :
        LET k == annotation[i].next
            Same(n) == annotation[n].doc = annotation[i].doc /\ annotation[n].field = annotation[i].field
        IN k # 0 => k > i /\ Same(k)

\* A run that was answered accounts for every field of every document it scored, though annotators, reviewers
\* and the pipeline go on while it reads: each field is right or has its failure row; the counts, the failures
\* and the calibration tell the same story; a failure contradicts what somebody annotated; and targets of at
\* least 90 % are not met with more than a tenth of the documents failed.
AccountedFor(r, f) ==
    LET s == runs[r].stats[f]
        fails == {x \in failure : x.run = r /\ x.field = f}
        buckets == {x \in snapshot : x.run = r /\ x.field = f}
    IN /\ s.tp + s.tn + Cardinality(fails) = runs[r].scored
       /\ s.fp = Cardinality({x \in fails : x.actual # None})
       /\ s.fn = Cardinality({x \in fails : x.expected # None})
       /\ Cardinality(UNION {{x} \X (1 .. x.predictions) : x \in buckets}) = s.tp + s.fp
       /\ Cardinality(UNION {{x} \X (1 .. x.correct) : x \in buckets}) = s.tp
       /\ runs[r].met => 10 * Cardinality(fails) <= runs[r].scored
       /\ \A x \in fails :
            /\ x.type = "hallucination" <=> x.expected = None
            /\ \E i \in DOMAIN annotation :
                 annotation[i].doc = x.doc /\ annotation[i].field = f /\ annotation[i].value = x.expected
RunAccounts == \A r \in answered : \A f \in Fields : AccountedFor(r, f)
=============================================================================
