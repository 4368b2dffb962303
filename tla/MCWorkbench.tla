----------------------------- MODULE MCWorkbench -----------------------------
(* Instances of Accounts, Evaluation and ReviewDesk for TLC.  A behaviour    *)
(* stays in one scene: who works, on what, one request at a time or several. *)
EXTENDS Workbench, TLC

CONSTANTS b1, b2, w1, w2, admin, clerk, envkey, otherkey, doc1, doc2, v1, v2, c1, order1, Scenes

VARIABLE scene

Seen(v, c, cited) == [value |-> v, confidence |-> c, cited |-> cited]
BudgetOrNumber(number, budget) == [f \in Fields |-> IF f = "go_number" THEN number ELSE budget]
MCFields == {"go_number", "budget"}
MCFindings == {BudgetOrNumber(Seen(v1, 95, FALSE), Seen(v1, 60, FALSE)),
               BudgetOrNumber(Seen(v2, 70, TRUE), None)}
MCCategory == [d \in Docs |-> [scanned |-> FALSE, tamil |-> FALSE, tables |-> d = doc2]]
MCTarget == [f \in Fields |-> IF f = "go_number" THEN 99 ELSE 95]

AllScenes == {"staff", "keys", "citizens", "reset", "annotators", "benchmark", "batch", "desk"}

\* An extraction finds everything, or a weak number and no subject, or next to nothing.
Whole == [found |-> [f \in CoreFields |-> "strong"], optional |-> 1, confidence |-> 40, ocr |-> 80,
          scanned |-> TRUE, words |-> "GO"]
Gap == [found |-> [f \in CoreFields |-> CASE f = "go_number" -> "weak" [] f = "subject" -> "none" [] OTHER -> "strong"],
        optional |-> 3, confidence |-> 100, ocr |-> Absent, scanned |-> FALSE, words |-> "GO"]
Poor == [found |-> [f \in CoreFields |-> IF f = "go_number" THEN "strong" ELSE "none"], optional |-> 3,
         confidence |-> 100, ocr |-> 20, scanned |-> TRUE, words |-> "Letter"]
MCShapes == {Whole, Gap, Poor}
MCDepartment == [d \in Papers |-> IF d = doc1 THEN "health" ELSE "education"]

\* The administrator's account, alone.
Administered == [u \in Users |-> IF u = admin THEN [role |-> "platform_admin", active |-> TRUE] ELSE Null]

Asks(ops) == \A b \in Browsers : request[b].op \in ops \cup {"none"}
CitizenOps == {"login", "register", "citizen_login", "toggle", "download"}

\* What a step of a scene may do.  Staff: accounts, with two browsers.  Keys: agent keys
\* and restarts.  Citizens: two browsers, with a purge.  Reset: two browsers, one of which the administrator
\* may use to start over; engagement, which a reset keeps, is left out.
AccountStep ==
    CASE scene = "staff" ->
             Asks({"login", "setup", "add", "active"})' /\ UNCHANGED <<key, citizenTables, log, event, record>>
      [] scene = "keys" -> Asks({"login"})' /\ UNCHANGED <<citizenTables, log, event, record>>
      [] scene = "citizens" -> Asks(CitizenOps)' /\ UNCHANGED <<user, key, record, searches>>
      [] OTHER ->
             Asks(CitizenOps \cup {"reset"})' /\ request'[b2].op \notin {"login", "reset"}
             /\ UNCHANGED <<user, key>> /\ Len(event') = 0

\* Annotators: two people, one field of one document, with interruptions.  Benchmark: one worker runs it while
\* the other annotates budgets, ingests and, meanwhile, corrects the number of the first document.
EvalScene ==
    CASE scene = "annotators" ->
             /\ \A w \in Workers : job'[w].doc \in {doc1, None} /\ job'[w].field \in {"budget", None}
             /\ UNCHANGED <<extractionTables, runTables>>
      [] OTHER ->
             /\ answered = {} /\ UNCHANGED golden
             /\ job'[w1].op \in {"none", "benchmark"} /\ job'[w2].op \in {"none", "annotate", "ingest"}
             /\ job'[w2].op = "annotate" => job'[w2].field = "budget" /\ job'[w2].value = v1
             /\ IF job' = job /\ row' # row
                THEN row'[doc2] = row[doc2] /\ row'[doc1]["budget"] = row[doc1]["budget"]
                     /\ row'[doc1]["go_number"].value = v1 /\ job[w1] # Unemployed
                ELSE TRUE

\* Batch: one approves what is listed as ready, the other corrects a subject, reprocesses and removes duplicates.
\* Desk: one decides, on the record's page or from the list of weak fields, the other runs a campaign and removes
\* duplicates and resolves what the first escalated of the first record; the PDF of the first document comes and goes.
DeskScene ==
    CASE scene = "batch" ->
             /\ desk'[w1].op \in {"none", "approve"} /\ desk'[w2].op \in {"none", "correct", "reprocess", "cleanup"}
             /\ desk'[w1].queue \in {"none", "ready_for_approval"} /\ desk'[w2].queue = "none"
             /\ desk'[w1].op = "approve" => desk'[w1].queue = "ready_for_approval"
             /\ entry'[3] # Absent => entry'[3].shape = Gap
             /\ desk'[w2].field = "subject" /\ (desk'[w2].op = "correct" => desk'[w2].at = 2)
             /\ UNCHANGED <<available, escalation, campaign>>
      [] OTHER ->
             /\ desk'[w1].op \in {"none", "approve", "reject", "escalate"} /\ desk'[w1].queue \in {"none", "metadata"}
             /\ desk'[w2].op \in {"none", "resolve", "cleanup", "campaign"} /\ desk'[w2].queue = "none"
             /\ desk'[w1].op = "escalate" => desk'[w1].at = 1
             /\ desk'[w2].op = "campaign" => desk'[w2].row = 1
             /\ doc2 \in available' /\ (UNCHANGED available \/ desk[w2].op = "none")

Note(d, f, v) == [doc |-> d, field |-> f, value |-> v, next |-> 0]

Noted == <<Note(doc1, "go_number", v1), Note(doc1, "budget", None), Note(doc2, "go_number", v2)>>

Made(d, shape) == [paper |-> d, shape |-> shape, status |-> "pending", gap |-> FALSE]

\* Two records, of one document or of two; in the desk's case the second may lack nearly everything.
DeskStart ==
    \E d \in Papers :
        LET second == IF scene = "desk" /\ d = doc2 THEN Poor ELSE Gap IN
        /\ entry = [r \in Entries |-> CASE r = 1 -> Made(doc1, Whole) [] r = 2 -> Made(d, second) [] OTHER -> Absent]
        /\ rows = [r \in Entries |-> CASE r = 1 -> WithFields(Blank, Whole) [] r = 2 -> WithFields(Blank, second) [] OTHER -> Blank]
        /\ lastEntry = 2 /\ available = Papers /\ escalation = <<>> /\ campaign = <<>>
        /\ desk = [p \in Reviewers |-> FreeDesk] /\ stripped = {}

\* Staff and keys start on an empty database, to which later deployments bring an administrator and a key;
\* the benchmark starts with one document annotated in full and one in part.
Start(s) ==
    CASE s \in {"staff", "keys"} -> AccountInit /\ EvalInit
      [] s \in {"citizens", "reset"} ->
             /\ user = Administered /\ key = [k \in Keys |-> Null]
             /\ session = [b \in Browsers |-> Null] /\ visit = [b \in Browsers |-> Null]
             /\ citizen = {} /\ saved = {} /\ searches = [c \in Citizens |-> 0]
             /\ log = <<>> /\ event = <<>> /\ record = Records
             /\ request = [b \in Browsers |-> Ready]
             /\ EvalInit
      [] s \in {"annotators", "batch", "desk"} -> AccountInit /\ EvalInit
      [] OTHER ->
             /\ AccountInit
             /\ golden = Docs /\ annotation = Noted /\ text = {doc1} /\ row = [d \in Docs |-> None]
             /\ runs = <<>> /\ failure = {} /\ snapshot = {} /\ answered = {}
             /\ job = [w \in Workers |-> Unemployed]

MCInit ==
    /\ scene \in Scenes
    /\ Start(scene)
    /\ IF scene \in {"batch", "desk"} THEN DeskStart ELSE DeskInit

MCNext ==
    /\ UNCHANGED scene
    /\ \/ scene \in {"staff", "keys", "citizens", "reset"} /\ AccountNext /\ AccountStep /\ UNCHANGED <<evalVars, deskVars>>
       \/ scene \in {"annotators", "benchmark"} /\ EvalNext /\ EvalScene /\ UNCHANGED <<accountVars, deskVars>>
       \/ scene \in {"batch", "desk"} /\ DeskNext /\ DeskScene /\ UNCHANGED <<accountVars, evalVars>>

MCSpec == MCInit /\ [][MCNext]_<<accountVars, evalVars, deskVars, scene>>

=============================================================================
