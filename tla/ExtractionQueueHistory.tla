----------------------- MODULE ExtractionQueueHistory -----------------------
(***************************************************************************)
(* ExtractionQueue with two history variables, which no step looks at. An  *)
(* enqueue looks for a pending request in one statement and inserts in a   *)
(* later one, and a report or a yield writes on the strength of a status it*)
(* read before. `doubled' holds the subjects that may have two requests    *)
(* for that reason, until none of them is pending any more. Every other    *)
(* subject has one at most, however the threads interleave. `overtaken'    *)
(* holds the threads about to act on something another has made untrue.    *)
(***************************************************************************)
EXTENDS ExtractionQueue

VARIABLES doubled, overtaken

historyVars == <<vars, doubled, overtaken>>

\* What is never pending twice: a resync, the OCR recovery of one scope.
Singular == (Kinds \ {"extraction"}) \X (Scopes \cup {Null})

PendingOf(s)   == {i \in Ids : Has(i, Pending) /\ Subject(i) = s}
InsertingOf(s) == {h \in Handlers : call[h].pc = "insert" /\ <<call[h].kind, call[h].scope>> = s}

\* Two calls found no pending request of the subject, and neither has inserted its own yet.
Together(s) == \E g, h \in InsertingOf(s) : g # h

\* A late report or yield makes a request pending that had ended.
Revived(s) == \E i \in PendingOf(s)' : Has(i, Terminal)

Drained(s) == PendingOf(s) = {} /\ InsertingOf(s) = {}

\* What a thread has established when it reaches its next statement, and what is
\* still true then unless another thread got in between.
Mine(c) == Exists(c.id) /\ row[c.id].claimant = c.by

Promise(c) ==
    /\ /\ c.pc \notin {"idle", "replied"}
       /\ c.op \in {"claim", "progress", "yield", "complete"}
       => c.by \in Agents
    /\ c.pc \in {"select", "update", "load"} => c.op = "claim"
    /\ c.pc = "require" => c.op \in {"progress", "yield", "complete"}
    /\ c.pc \in {"report_read", "report_write", "yield_read", "yield_write", "complete_read",
                 "complete_write"} =>
          c.op \in {"progress", "yield", "complete"} /\ Mine(c)
    /\ c.pc \in {"find", "delete"} => c.kind # "extraction"
    /\ c.pc = "insert" =>
          \/ c.kind = "extraction"
          \/ \A i \in Ids : Has(i, Pending) => ~SameSubject(i, c)
    /\ c.pc = "update" => OldestQueued(c.id)
    /\ c.pc \in {"report_write", "yield_write"} => c.seen = row[c.id].status
    /\ c.pc \in {"complete_write", "cancel_write"} => Has(c.id, Pending)

\* Another's step, not its own, took the ground from under the thread, and nothing it
\* read since has given it back.
Loses(h) == call'[h] = call[h] /\ Promise(call[h]) /\ ~Promise(call[h])'

HistoryInit == Init /\ doubled = {} /\ overtaken = {}
HistoryNext ==
    /\ Next
    /\ doubled' = {s \in Singular : (s \in doubled /\ ~ Drained(s)') \/ Together(s)' \/ Revived(s)}
    /\ overtaken' = {h \in Handlers : ~Promise(call[h])' /\ (h \in overtaken \/ Loses(h))}
HistorySpec == HistoryInit /\ [][HistoryNext]_historyVars

\* A resync, or an OCR recovery of one scope, is pending at most once (the enqueue_* functions reuse a
\* pending one "instead of piling up duplicates"). Not when two of them were enqueued at once, or one
\* that had ended was revived by a late report, until all of them have ended.
OnePendingPerSubject ==
    \A s \in Singular \ doubled : \A i, j \in PendingOf(s) : i = j

\* The queue's promise, with any number of threads: whatever a thread does to the table that
\* acts on what still holds is one operation of RequestLifecycle, in full: requests are handed
\* out oldest first, have an owner while they are worked on, go back to the queue from their
\* owner, end once. What departs from it is done by a thread another has overtaken.
StepsOfLifecycle ==
    [][(\A h \in overtaken : call'[h] = call[h]) => [Abstract!Next]_(Abstract!vars)]_historyVars

=============================================================================
