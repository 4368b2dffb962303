--------------------------- MODULE ExtractionQueue ---------------------------
(***************************************************************************)
(* The queue of extraction requests on the server:                         *)
(* operations/extraction_queue.py and the routes that call it              *)
(* (workbench/agent_routes.py, workbench/operations_routes.py,             *)
(* operations/reset.py).                                                   *)
(*                                                                         *)
(* Routes are synchronous functions run by a pool of threads, each with a  *)
(* connection in autocommit mode, so one SQL statement is one atomic step  *)
(* and a handler is a sequence of them.  A thread (Handlers) runs one call *)
(* at a time; call[h].pc names the statement it executes next.             *)
(***************************************************************************)
EXTENDS Naturals, FiniteSets

CONSTANTS
    Ids,       \* primary keys the table may hand out
    Agents,    \* agent keys
    Handlers,  \* threads of the server
    Scopes,    \* department filters an OCR recovery may be limited to
    MaxDone,   \* bound on the counter sources_completed
    Routes,    \* the operations in use and the kinds of request enqueued
    Null

ASSUME IdsAssumption == Ids \subseteq Nat \ {0}
ASSUME NullAssumption == Null \notin Agents \cup Scopes \cup Ids \cup Nat
ASSUME MaxDoneAssumption == MaxDone \in Nat

Ops   == {"enqueue", "claim", "progress", "yield", "complete", "cancel", "reset"}
Kinds == {"extraction", "resync_all", "ocr_recovery"}

ASSUME RoutesAssumption == Routes \subseteq Ops \cup Kinds

VARIABLES
    row,     \* extraction_requests: id -> its row, or Null when there is none
    lastId,  \* the AUTOINCREMENT counter of the table
    call     \* thread -> the call it is executing

vars == <<row, lastId, call>>

Active    == {"CLAIMED", "RUNNING"}
Terminal  == {"COMPLETED", "FAILED"}
Pending   == {"QUEUED"} \cup Active
Statuses  == Pending \cup Terminal
NoAnswer  == {"403", "404", "400", "500", "none", "ok"}
Done      == 0 .. MaxDone

Rows == [kind : Kinds, scope : Scopes \cup {Null}, status : Statuses,
         claimant : Agents \cup {Null}, started : BOOLEAN, cancelled : BOOLEAN,
         done : Done]

ASSUME RowsAssumption == Null \notin Rows

Calls == [op : Ops, pc : {"idle", "find", "insert", "delete", "select", "update",
                          "load", "require", "report_read", "report_write",
                          "yield_read", "yield_write", "complete_read",
                          "complete_write", "cancel_read", "cancel_write", "replied"},
          by : Agents \cup {Null}, id : Ids \cup {Null}, kind : Kinds,
          scope : Scopes \cup {Null}, done : Done \cup {Null}, ok : BOOLEAN,
          seen : Statuses \cup {Null}, reply : Statuses \cup NoAnswer]

Idle == [op |-> "claim", pc |-> "idle", by |-> Null, id |-> Null, kind |-> "extraction",
         scope |-> Null, done |-> Null, ok |-> FALSE, seen |-> Null, reply |-> "none"]

Init ==
    /\ row = [i \in Ids |-> Null]
    /\ lastId = 0
    /\ call = [h \in Handlers |-> Idle]

Exists(i) == row[i] # Null
Known == {i \in Ids : i <= lastId}
Has(i, statuses) == Exists(i) /\ row[i].status \in statuses

-----------------------------------------------------------------------------
(* A call arrives on a free thread.                                        *)

Arrive(h, c) ==
    /\ call[h].pc = "idle"
    /\ c.op \in Routes
    /\ call' = [call EXCEPT ![h] = c]
    /\ UNCHANGED <<row, lastId>>

\* Ids bounds the number of rows: a call that will insert one starts only when
\* an id is left for it beside the inserts already under way.
Inserting == {h \in Handlers : call[h].pc \in {"find", "insert", "delete"}}
RoomToInsert == \A n \in 0 .. Cardinality(Inserting) : lastId + 1 + n \in Ids

\* The three enqueue_* functions: a plain extraction is inserted outright.
ArriveEnqueue(h, kind, scope) ==
    /\ RoomToInsert
    /\ kind \in Routes
    /\ scope # Null => kind = "ocr_recovery"
    /\ Arrive(h, [Idle EXCEPT !.op = "enqueue", !.kind = kind, !.scope = scope,
                    !.pc = IF kind = "extraction" THEN "insert" ELSE "find"])

ArriveClaim(h, a) ==
    Arrive(h, [Idle EXCEPT !.op = "claim", !.pc = "select", !.by = a])

ArriveProgress(h, a, i, done) ==
    Arrive(h, [Idle EXCEPT !.op = "progress", !.pc = "require", !.by = a, !.id = i, !.done = done])

ArriveYield(h, a, i, done) ==
    Arrive(h, [Idle EXCEPT !.op = "yield", !.pc = "require", !.by = a, !.id = i, !.done = done])

ArriveComplete(h, a, i, done, ok) ==
    Arrive(h, [Idle EXCEPT !.op = "complete", !.pc = "require", !.by = a, !.id = i,
                 !.done = done, !.ok = ok])

ArriveCancel(h, i) ==
    Arrive(h, [Idle EXCEPT !.op = "cancel", !.pc = "cancel_read", !.id = i])

\* reset_for_production deletes the table, then queues a resync_all request.
ArriveReset(h) ==
    /\ RoomToInsert
    /\ Arrive(h, [Idle EXCEPT !.op = "reset", !.pc = "delete", !.kind = "resync_all"])

-----------------------------------------------------------------------------
(* The statements of the handlers.                                         *)

\* The statements that name a request by its id.
Addressed == {"update", "load", "require", "report_read", "report_write", "yield_read",
              "yield_write", "complete_read", "complete_write", "cancel_read", "cancel_write"}

Goto(h, pc) == call' = [call EXCEPT ![h].pc = pc]
Reply(h, answer) == call' = [call EXCEPT ![h].pc = "replied", ![h].reply = answer]
Look(h, pc) == call' = [call EXCEPT ![h].seen = row[call[h].id].status, ![h].pc = pc]

SameSubject(i, c) == row[i].kind = c.kind /\ row[i].scope = c.scope

\* Fault: a request already claimed is not seen as pending.
FindPendingQueuedOnly(h) ==
    /\ call[h].pc = "find"
    /\ IF \E i \in Ids : Has(i, {"QUEUED"}) /\ SameSubject(i, call[h])
       THEN Reply(h, "ok")
       ELSE Goto(h, "insert")
    /\ UNCHANGED <<row, lastId>>

\* enqueue_resync_all_request and enqueue_ocr_recovery_request return a pending
\* request of the same kind and scope rather than insert another.
FindPending(h) ==
    /\ call[h].pc = "find"
    /\ IF \E i \in Ids : Has(i, Pending) /\ SameSubject(i, call[h])
       THEN Reply(h, "ok")
       ELSE Goto(h, "insert")
    /\ UNCHANGED <<row, lastId>>

NewRow(c) == [kind |-> c.kind, scope |-> c.scope, status |-> "QUEUED", claimant |-> Null,
              started |-> FALSE, cancelled |-> FALSE, done |-> 0]

Insert(h) ==
    /\ call[h].pc = "insert"
    /\ lastId + 1 \in Ids
    /\ row' = [row EXCEPT ![lastId + 1] = NewRow(call[h])]
    /\ lastId' = lastId + 1
    /\ Reply(h, "ok")

\* Fault: the ids start again with the table.
ResetDeleteRestarts(h) ==
    /\ call[h].pc = "delete"
    /\ row' = [i \in Ids |-> Null]
    /\ lastId' = 0
    /\ Goto(h, "find")

ResetDelete(h) ==
    /\ call[h].pc = "delete"
    /\ row' = [i \in Ids |-> Null]
    /\ Goto(h, "find")
    /\ UNCHANGED lastId

\* claim_next: the oldest queued request is selected, then taken if still queued.
OldestQueued(i) == Has(i, {"QUEUED"}) /\ \A j \in Ids : Has(j, {"QUEUED"}) => i <= j

ClaimSelect(h) ==
    /\ call[h].pc = "select"
    /\ \E i \in Ids :
          /\ OldestQueued(i)
          /\ call' = [call EXCEPT ![h].id = i, ![h].pc = "update"]
    /\ UNCHANGED <<row, lastId>>

ClaimNothing(h) ==
    /\ call[h].pc = "select"
    /\ ~\E i \in Ids : Has(i, {"QUEUED"})
    /\ Reply(h, "none")
    /\ UNCHANGED <<row, lastId>>

\* Fault: the UPDATE does not repeat the condition status = 'QUEUED'.
ClaimUpdateUnchecked(h) ==
    /\ call[h].pc = "update"
    /\ Exists(call[h].id)
    /\ row' = [row EXCEPT ![call[h].id].status = "CLAIMED", ![call[h].id].claimant = call[h].by]
    /\ Goto(h, "load")
    /\ UNCHANGED lastId

ClaimUpdate(h) ==
    /\ call[h].pc = "update"
    /\ Has(call[h].id, {"QUEUED"})
    /\ row' = [row EXCEPT ![call[h].id].status = "CLAIMED", ![call[h].id].claimant = call[h].by]
    /\ Goto(h, "load")
    /\ UNCHANGED lastId

ClaimLost(h) ==
    /\ call[h].pc = "update"
    /\ ~Has(call[h].id, {"QUEUED"})
    /\ Reply(h, "none")
    /\ UNCHANGED <<row, lastId>>

\* The row is read once more to build the answer; a reset may have deleted it.
ClaimLoad(h) ==
    /\ call[h].pc = "load"
    /\ IF Exists(call[h].id)
       THEN call' = [call EXCEPT ![h].pc = "replied", ![h].reply = "ok",
                                 ![h].kind = row[call[h].id].kind]
       ELSE Reply(h, "none")
    /\ UNCHANGED <<row, lastId>>

\* _require_claiming_agent, then the first statement of the operation proper.
FirstStatement(c) ==
    CASE c.op = "yield" -> "yield_read"
      [] c.op = "complete" /\ c.done = Null -> "complete_read"
      [] OTHER -> "report_read"

Require(h) ==
    /\ call[h].pc = "require"
    /\ IF ~Exists(call[h].id) THEN Reply(h, "404")
       ELSE IF row[call[h].id].claimant # call[h].by THEN Reply(h, "403")
       ELSE Goto(h, FirstStatement(call[h]))
    /\ UNCHANGED <<row, lastId>>

\* report_progress is the body of /progress and the first part of /complete.
AfterReport(h, answer) ==
    IF call[h].op = "complete" THEN Goto(h, "complete_read") ELSE Reply(h, answer)

ReportRead(h) ==
    /\ call[h].pc = "report_read"
    /\ IF ~Exists(call[h].id)
       THEN Reply(h, IF call[h].op = "complete" THEN "500" ELSE "404")
       ELSE IF Has(call[h].id, Terminal)
       THEN AfterReport(h, row[call[h].id].status)
       ELSE Look(h, "report_write")
    /\ UNCHANGED <<row, lastId>>

\* The columns a report sets: the status only if the read above saw CLAIMED.
Reported(r, c) ==
    [r EXCEPT !.done = IF c.done = Null THEN @ ELSE c.done,
              !.status = IF c.seen = "CLAIMED" THEN "RUNNING" ELSE @,
              !.started = @ \/ c.seen = "CLAIMED"]

\* An UPDATE ... WHERE id = ?, without effect when the row is gone.
UpdateRow(i, r) == row' = IF Exists(i) THEN [row EXCEPT ![i] = r] ELSE row

ReportWrite(h) ==
    /\ call[h].pc = "report_write"
    /\ UpdateRow(call[h].id, Reported(row[call[h].id], call[h]))
    /\ AfterReport(h, IF call[h].seen = "CLAIMED" THEN "RUNNING" ELSE call[h].seen)
    /\ UNCHANGED lastId

YieldRead(h) ==
    /\ call[h].pc = "yield_read"
    /\ IF ~Exists(call[h].id) THEN Reply(h, "404")
       ELSE IF Has(call[h].id, Terminal) THEN Reply(h, row[call[h].id].status)
       ELSE Look(h, "yield_write")
    /\ UNCHANGED <<row, lastId>>

YieldWrite(h) ==
    /\ call[h].pc = "yield_write"
    /\ UpdateRow(call[h].id,
                 [row[call[h].id] EXCEPT !.status = "QUEUED", !.claimant = Null,
                    !.done = IF call[h].done = Null THEN @ ELSE call[h].done])
    /\ Reply(h, "QUEUED")
    /\ UNCHANGED lastId

\* Fault: a completion overwrites whatever the request ended with before.
CompleteReadUnguarded(h) ==
    /\ call[h].pc = "complete_read"
    /\ Goto(h, "complete_write")
    /\ UNCHANGED <<row, lastId>>

CompleteRead(h) ==
    /\ call[h].pc = "complete_read"
    /\ IF Has(call[h].id, Terminal) THEN Reply(h, "ok") ELSE Goto(h, "complete_write")
    /\ UNCHANGED <<row, lastId>>

CompleteWrite(h) ==
    /\ call[h].pc = "complete_write"
    /\ UpdateRow(call[h].id,
                 [row[call[h].id] EXCEPT !.status = IF call[h].ok THEN "COMPLETED" ELSE "FAILED",
                    !.cancelled = FALSE])
    /\ Reply(h, "ok")
    /\ UNCHANGED lastId

CancelRead(h) ==
    /\ call[h].pc = "cancel_read"
    /\ IF ~Exists(call[h].id) THEN Reply(h, "404")
       ELSE IF Has(call[h].id, Terminal) THEN Reply(h, "400")
       ELSE Goto(h, "cancel_write")
    /\ UNCHANGED <<row, lastId>>

CancelWrite(h) ==
    /\ call[h].pc = "cancel_write"
    /\ UpdateRow(call[h].id, [row[call[h].id] EXCEPT !.status = "FAILED", !.cancelled = TRUE])
    /\ Reply(h, "ok")
    /\ UNCHANGED lastId

\* The answer is sent and the thread is free again.
Return(h) ==
    /\ call[h].pc = "replied"
    /\ call' = [call EXCEPT ![h] = Idle]
    /\ UNCHANGED <<row, lastId>>

\* A restart of the server process stops every handler between two statements.
ServerCrash ==
    /\ call' = [h \in Handlers |-> Idle]
    /\ UNCHANGED <<row, lastId>>

-----------------------------------------------------------------------------
Statement(h) ==
    \/ FindPending(h) \/ Insert(h) \/ ResetDelete(h)
    \/ ClaimSelect(h) \/ ClaimNothing(h) \/ ClaimUpdate(h) \/ ClaimLost(h) \/ ClaimLoad(h)
    \/ Require(h) \/ ReportRead(h) \/ ReportWrite(h)
    \/ YieldRead(h) \/ YieldWrite(h)
    \/ CompleteRead(h) \/ CompleteWrite(h)
    \/ CancelRead(h) \/ CancelWrite(h)

\* Any caller may address any id that was handed out: the ids are in the URLs.
Arrival(h) ==
    \/ \E kind \in Kinds, scope \in Scopes \cup {Null} : ArriveEnqueue(h, kind, scope)
    \/ ArriveReset(h)
    \/ \E a \in Agents : ArriveClaim(h, a)
    \/ \E i \in Known :
          \/ ArriveCancel(h, i)
          \/ \E a \in Agents, done \in Done \cup {Null} :
                \/ ArriveProgress(h, a, i, done)
                \/ ArriveYield(h, a, i, done)
                \/ \E ok \in BOOLEAN : ArriveComplete(h, a, i, done, ok)

Next ==
    \/ \E h \in Handlers : Arrival(h) \/ Statement(h) \/ Return(h)
    \/ ServerCrash

Spec == Init /\ [][Next]_vars

-----------------------------------------------------------------------------
(* Properties.                                                             *)

\* Every variable has its type, no row has an id that was never handed out, a
\* thread addresses an id that was, and one about to write what it computed from
\* a read saw a request that was not finished (the terminal-state guards).
FreshIds == \A i \in Ids : i > lastId => row[i] = Null
Guarded == \A h \in Handlers :
    /\ call[h].pc \in Addressed => call[h].id \in Known
    /\ call[h].pc \in {"report_write", "yield_write"} => call[h].seen \in Pending

TypeOK ==
    /\ row \in [Ids -> Rows \cup {Null}]
    /\ lastId \in Nat
    /\ call \in [Handlers -> Calls]
    /\ FreshIds
    /\ Guarded

\* A queued request belongs to nobody: nothing puts a request back in the queue
\* and leaves its old claim on it, however the handlers interleave.
QueuedUnclaimed == \A i \in Ids : Has(i, {"QUEUED"}) => row[i].claimant = Null

\* A request changes hands only by going back to the queue: no statement of any
\* handler, racing with any other, takes it from one agent and gives it to another.
Claimant(i) == IF Exists(i) THEN row[i].claimant ELSE Null
Released(i) == IF Exists(i) THEN row[i].status = "QUEUED" ELSE TRUE
HandOver == [][\A i \in Ids : Claimant(i) # Null /\ Claimant(i)' # Claimant(i)
                                => Claimant(i)' = Null /\ Released(i)']_vars

\* A finished request keeps its outcome until a reset deletes it: "a stray late
\* progress post must never overwrite 'Cancelled by admin'" (report_progress).
TerminalIsFinal == [][\A i \in Ids : Has(i, Terminal) /\ Exists(i)'
                          => row'[i].status = row[i].status
                             /\ row'[i].cancelled = row[i].cancelled]_vars

\* The request table as RequestLifecycle sees it.
Lifecycle(i) ==
    IF Exists(i) THEN row[i].status ELSE IF i <= lastId THEN "WIPED" ELSE "NONE"
Subject(i) == IF Exists(i) THEN <<row[i].kind, row[i].scope>> ELSE Null

Abstract == INSTANCE RequestLifecycle WITH
    Subjects   <- Kinds \X (Scopes \cup {Null}),
    Repeatable <- {"extraction"} \X (Scopes \cup {Null}),
    status     <- [i \in Ids |-> Lifecycle(i)],
    owner      <- [i \in Ids |-> Claimant(i)],
    subject    <- [i \in Ids |-> Subject(i)]

\* With one thread the statements of a handler are not interleaved with others,
\* and the queue keeps the whole promise of RequestLifecycle.
ImplementsLifecycle == Abstract!Spec
=============================================================================
