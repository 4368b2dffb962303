------------------------ MODULE ExtractionQueueProofs ------------------------
(***************************************************************************)
(* Theorems about ExtractionQueue for every set of requests, agents and    *)
(* server threads: its type invariant, who owns a request while handlers   *)
(* interleave, that a subject is pending once unless two calls met at it,  *)
(* and that each step is one of RequestLifecycle unless its thread acts on *)
(* what another has changed since it read it.                              *)
(***************************************************************************)
EXTENDS ExtractionQueueHistory, TLAPS

\* A call as it arrives: at the first statement of its handler.
Fresh(c) ==
    /\ c \in Calls
    /\ c.pc \in {"insert", "find", "select", "require", "cancel_read", "delete"}
    /\ c.pc \in {"require", "cancel_read"} => c.id \in Known
    /\ c.op \in {"claim", "progress", "yield", "complete"} => c.by \in Agents
    /\ c.pc = "insert" => c.kind = "extraction"
    /\ c.pc \in {"find", "delete"} => c.kind # "extraction"
    /\ c.pc = "select" <=> c.op = "claim"
    /\ c.pc = "require" <=> c.op \in {"progress", "yield", "complete"}
    /\ c.pc = "cancel_read" <=> c.op = "cancel"

\* Whatever arrives is a fresh call on an idle thread, and touches nothing else.
LEMMA ArrivalIsFresh ==
    ASSUME NEW h \in Handlers, Arrival(h)
    PROVE  \E c : Fresh(c) /\ Arrive(h, c)
  <1> USE NullAssumption DEF Fresh, Idle, Calls, Ops, Kinds, Known
  <1>1. CASE \E kind \in Kinds, scope \in Scopes \cup {Null} : ArriveEnqueue(h, kind, scope)
    <2>1. PICK kind \in Kinds, scope \in Scopes \cup {Null} : ArriveEnqueue(h, kind, scope)
      BY <1>1
    <2> DEFINE c == [Idle EXCEPT !.op = "enqueue", !.kind = kind, !.scope = scope,
                       !.pc = IF kind = "extraction" THEN "insert" ELSE "find"]
    <2>2. Fresh(c)
      BY DEF NoAnswer
    <2>3. Arrive(h, c)
      BY <2>1 DEF ArriveEnqueue
    <2> HIDE DEF c
    <2>4. QED
      BY <2>2, <2>3
  <1>2. CASE ArriveReset(h)
    <2> DEFINE c == [Idle EXCEPT !.op = "reset", !.pc = "delete", !.kind = "resync_all"]
    <2>1. Fresh(c)
      BY DEF NoAnswer
    <2>2. Arrive(h, c)
      BY <1>2 DEF ArriveReset
    <2> HIDE DEF c
    <2>3. QED
      BY <2>1, <2>2
  <1>3. CASE \E a \in Agents : ArriveClaim(h, a)
    <2>1. PICK a \in Agents : ArriveClaim(h, a)
      BY <1>3
    <2> DEFINE c == [Idle EXCEPT !.op = "claim", !.pc = "select", !.by = a]
    <2>2. Fresh(c)
      BY DEF NoAnswer
    <2>3. Arrive(h, c)
      BY <2>1 DEF ArriveClaim
    <2> HIDE DEF c
    <2>4. QED
      BY <2>2, <2>3
  <1>4. CASE \E i \in Known : ArriveCancel(h, i)
    <2>1. PICK i \in Known : ArriveCancel(h, i)
      BY <1>4
    <2> DEFINE c == [Idle EXCEPT !.op = "cancel", !.pc = "cancel_read", !.id = i]
    <2>2. Fresh(c)
      BY DEF NoAnswer
    <2>3. Arrive(h, c)
      BY <2>1 DEF ArriveCancel
    <2> HIDE DEF c
    <2>4. QED
      BY <2>2, <2>3
  <1>5. CASE \E i \in Known, a \in Agents, done \in Done \cup {Null} :
                ArriveProgress(h, a, i, done) \/ ArriveYield(h, a, i, done)
    <2>1. PICK i \in Known, a \in Agents, done \in Done \cup {Null} :
                ArriveProgress(h, a, i, done) \/ ArriveYield(h, a, i, done)
      BY <1>5
    <2> DEFINE c(op) == [Idle EXCEPT !.op = op, !.pc = "require", !.by = a, !.id = i, !.done = done]
    <2>2. Fresh(c("progress")) /\ Fresh(c("yield"))
      BY DEF NoAnswer
    <2>3. Arrive(h, c("progress")) \/ Arrive(h, c("yield"))
      BY <2>1 DEF ArriveProgress, ArriveYield
    <2> HIDE DEF c
    <2>4. QED
      BY <2>2, <2>3
  <1>6. CASE \E i \in Known, a \in Agents, done \in Done \cup {Null}, ok \in BOOLEAN :
                ArriveComplete(h, a, i, done, ok)
    <2>1. PICK i \in Known, a \in Agents, done \in Done \cup {Null}, ok \in BOOLEAN :
                ArriveComplete(h, a, i, done, ok)
      BY <1>6
    <2> DEFINE c == [Idle EXCEPT !.op = "complete", !.pc = "require", !.by = a, !.id = i,
                       !.done = done, !.ok = ok]
    <2>2. Fresh(c)
      BY DEF NoAnswer
    <2>3. Arrive(h, c)
      BY <2>1 DEF ArriveComplete
    <2> HIDE DEF c
    <2>4. QED
      BY <2>2, <2>3
  <1>7. QED
    BY <1>1, <1>2, <1>3, <1>4, <1>5, <1>6 DEF Arrival

-----------------------------------------------------------------------------
(* Types.                                                                  *)

\* The assignments the UPDATE statements make keep the type of a row.
LEMMA RowType ==
    ASSUME NEW r \in Rows
    PROVE  /\ \A s \in Statuses, b \in BOOLEAN :
                 [r EXCEPT !.status = s, !.cancelled = b] \in Rows
           /\ \A s \in Statuses, a \in Agents \cup {Null} :
                 [r EXCEPT !.status = s, !.claimant = a] \in Rows
           /\ \A s \in Statuses, a \in Agents \cup {Null}, d \in Done :
                 [r EXCEPT !.status = s, !.claimant = a, !.done = d] \in Rows
           /\ \A s \in Statuses, b \in BOOLEAN, d \in Done :
                 [r EXCEPT !.done = d, !.status = s, !.started = b] \in Rows
  BY DEF Rows

\* A report keeps the type of the row and its claim, and starts it at most.
LEMMA ReportedType ==
    ASSUME NEW r \in Rows, NEW c \in Calls
    PROVE  /\ Reported(r, c) \in Rows
           /\ Reported(r, c).claimant = r.claimant
           /\ Reported(r, c).status = IF c.seen = "CLAIMED" THEN "RUNNING" ELSE r.status
           /\ Reported(r, c).kind = r.kind /\ Reported(r, c).scope = r.scope
  <1> DEFINE d == IF c.done = Null THEN r.done ELSE c.done
             s == IF c.seen = "CLAIMED" THEN "RUNNING" ELSE r.status
             b == r.started \/ c.seen = "CLAIMED"
  <1>1. d \in Done /\ s \in Statuses
    BY DEF Rows, Calls, Statuses, Pending, Active
  <1>2. b \in BOOLEAN
    BY DEF Rows
  <1>3. Reported(r, c) = [r EXCEPT !.done = d, !.status = s, !.started = b]
    BY DEF Reported, Rows
  <1> HIDE DEF d, s, b
  <1>4. [r EXCEPT !.done = d, !.status = s, !.started = b] \in Rows
    BY <1>1, <1>2, RowType, Zenon
  <1>5. Reported(r, c).status = s
    BY <1>3 DEF Rows
  <1>6. QED
    BY <1>3, <1>4, <1>5 DEF Rows, s

\* An UPDATE by id keeps the type of the table when the row it writes has its type.
LEMMA UpdateRowType ==
    ASSUME TypeOK, NEW i \in Known, NEW r, UpdateRow(i, r), UNCHANGED lastId,
           Exists(i) => r \in Rows
    PROVE  row' \in [Ids -> Rows \cup {Null}] /\ FreshIds'
  BY IdsAssumption DEF TypeOK, UpdateRow, Exists, Known, FreshIds

\* An answer ends a handler at any statement.
LEMMA ReplyType ==
    ASSUME TypeOK, NEW h \in Handlers, NEW answer \in Statuses \cup NoAnswer,
           Reply(h, answer), lastId' \in Nat, lastId <= lastId'
    PROVE  call' \in [Handlers -> Calls] /\ Guarded'
  <1> DEFINE c == [call[h] EXCEPT !.pc = "replied", !.reply = answer]
  <1>1. c \in Calls /\ c.pc = "replied"
    BY ZenonT(60) DEF TypeOK, Calls
  <1>2. call' = [call EXCEPT ![h] = c]
    BY DEF TypeOK, Reply
  <1>3. ASSUME NEW i \in Known PROVE i \in Known'
    <2>1. i \in Nat /\ lastId \in Nat
      BY IdsAssumption DEF TypeOK, Known
    <2>2. QED
      BY <2>1 DEF Known
  <1> HIDE DEF c
  <1>4. call' \in [Handlers -> Calls]
    BY <1>1, <1>2 DEF TypeOK
  <1>5. ASSUME NEW g \in Handlers
        PROVE  /\ call'[g].pc \in Addressed => call'[g].id \in Known'
               /\ call'[g].pc \in {"report_write", "yield_write"} => call'[g].seen \in Pending
    <2>1. CASE g = h
      BY <1>1, <1>2, <2>1 DEF TypeOK, Addressed
    <2>2. CASE g # h
      BY <1>2, <1>3, <2>2 DEF TypeOK, Guarded
    <2>3. QED
      BY <2>1, <2>2
  <1>6. QED
    BY <1>4, <1>5 DEF Guarded

\* A handler goes on to a statement that needs no read remembered, with its id.
LEMMA GotoType ==
    ASSUME TypeOK, NEW h \in Handlers, UNCHANGED lastId,
           NEW pc \in {"find", "insert", "load", "report_read", "yield_read",
                       "complete_read", "complete_write", "cancel_write"},
           Goto(h, pc), pc \in Addressed => call[h].id \in Known
    PROVE  call' \in [Handlers -> Calls] /\ Guarded'
  BY DEF TypeOK, Goto, Calls, Guarded, Known, Addressed

\* A handler remembers the status of a request that it found unfinished.
LEMMA LookType ==
    ASSUME TypeOK, NEW h \in Handlers, UNCHANGED lastId,
           NEW pc \in {"report_write", "yield_write"}, Look(h, pc),
           call[h].id \in Known, Has(call[h].id, Pending)
    PROVE  call' \in [Handlers -> Calls] /\ Guarded'
  <1> DEFINE c == [call[h] EXCEPT !.seen = row[call[h].id].status, !.pc = pc]
  <1>1. c \in Calls /\ c.pc = pc /\ c.id \in Known /\ c.seen \in Pending
    BY ZenonT(60) DEF TypeOK, Calls, Has, Statuses
  <1>2. call' = [call EXCEPT ![h] = c]
    BY DEF TypeOK, Look
  <1> HIDE DEF c
  <1>3. QED
    BY <1>1, <1>2 DEF TypeOK, Guarded, Addressed, Known

\* The table, the calls and the counter keep their types, and what TypeOK says of
\* threads and ids, in every statement of a handler.
LEMMA StatementType ==
    ASSUME TypeOK, NEW h \in Handlers, Statement(h)
    PROVE  TypeOK'
  <1> USE IdsAssumption, NullAssumption, MaxDoneAssumption
  <1> DEFINE i == call[h].id
  <1>a. /\ row \in [Ids -> Rows \cup {Null}] /\ lastId \in Nat
        /\ call \in [Handlers -> Calls] /\ FreshIds /\ Guarded
    BY DEF TypeOK
  <1>b. call[h].pc \in Addressed => i \in Known
    BY <1>a DEF Guarded
  <1>c. \A j \in Ids : Exists(j) => row[j] \in Rows
    BY <1>a DEF Exists
  <1>d. \A answer \in NoAnswer \cup Terminal \cup {"QUEUED", "RUNNING"} :
            answer \in Statuses \cup NoAnswer
    BY DEF Statuses, Terminal, Pending, Active
  <1>e. call[h] \in Calls
    BY <1>a
  <1>q. ASSUME row' \in [Ids -> Rows \cup {Null}], lastId' \in Nat, FreshIds',
               call' \in [Handlers -> Calls], Guarded'
        PROVE  TypeOK'
    BY <1>q DEF TypeOK
  <1>r. ASSUME UNCHANGED <<row, lastId>>, call' \in [Handlers -> Calls], Guarded'
        PROVE  TypeOK'
    BY <1>a, <1>r, <1>q DEF FreshIds
  <1>1. CASE FindPending(h)
    <2>1. Reply(h, "ok") \/ Goto(h, "insert")
      BY <1>1 DEF FindPending
    <2>2. UNCHANGED <<row, lastId>>
      BY <1>1 DEF FindPending
    <2>3. call' \in [Handlers -> Calls] /\ Guarded'
      BY <2>1, <2>2, <1>a, ReplyType, GotoType DEF NoAnswer, Addressed
    <2>4. QED
      BY <2>2, <2>3, <1>r
  <1>2. CASE Insert(h)
    <2>1. NewRow(call[h]) \in Rows
      BY <1>e DEF NewRow, Rows, Calls, Statuses, Pending, Done
    <2>2. row' \in [Ids -> Rows \cup {Null}] /\ lastId' \in Nat /\ FreshIds'
      BY <1>2, <2>1, <1>a DEF Insert, FreshIds
    <2>3. Reply(h, "ok") /\ lastId <= lastId'
      BY <1>2, <1>a DEF Insert
    <2>4. QED
      BY <2>2, <2>3, <1>q, ReplyType DEF NoAnswer
  <1>3. CASE ResetDelete(h)
    <2>1. Goto(h, "find") /\ UNCHANGED lastId
      BY <1>3 DEF ResetDelete
    <2>2. row' \in [Ids -> Rows \cup {Null}] /\ FreshIds'
      BY <1>3 DEF ResetDelete, FreshIds
    <2>3. QED
      BY <2>1, <2>2, <1>a, <1>q, GotoType DEF Addressed
  <1>4. CASE ClaimSelect(h)
    <2>1. PICK j \in Ids : /\ OldestQueued(j)
                           /\ call' = [call EXCEPT ![h].id = j, ![h].pc = "update"]
      BY <1>4 DEF ClaimSelect
    <2>2. j \in Known
      BY <2>1, <1>a DEF OldestQueued, Has, Exists, Known, FreshIds
    <2>3. call' \in [Handlers -> Calls] /\ Guarded' /\ UNCHANGED <<row, lastId>>
      BY <1>4, <2>1, <2>2, <1>a DEF ClaimSelect, Calls, Guarded, Known, Addressed
    <2>4. QED
      BY <2>3, <1>r
  <1>5. CASE ClaimNothing(h) \/ ClaimLost(h)
    <2>1. Reply(h, "none") /\ UNCHANGED <<row, lastId>>
      BY <1>5 DEF ClaimNothing, ClaimLost
    <2>2. QED
      BY <2>1, <1>a, <1>r, ReplyType DEF NoAnswer
  <1>6. CASE ClaimUpdate(h)
    <2>1. Goto(h, "load") /\ UNCHANGED lastId /\ i \in Known /\ Exists(i)
      BY <1>6, <1>b DEF ClaimUpdate, Has, Addressed
    <2>2. row' = [row EXCEPT ![i] = [row[i] EXCEPT !.status = "CLAIMED", !.claimant = call[h].by]]
      BY <1>6 DEF ClaimUpdate
    <2>3. [row[i] EXCEPT !.status = "CLAIMED", !.claimant = call[h].by] \in Rows
      BY <2>1, <1>c, <1>e, RowType DEF Known, Calls, Statuses, Pending, Active
    <2>4. row' \in [Ids -> Rows \cup {Null}] /\ FreshIds'
      BY <2>1, <2>2, <2>3, <1>a DEF FreshIds, Known
    <2>5. QED
      BY <2>1, <2>4, <1>a, <1>q, GotoType
  <1>7. CASE ClaimLoad(h)
    <2>1. UNCHANGED <<row, lastId>> /\ i \in Known
      BY <1>7, <1>b DEF ClaimLoad, Addressed
    <2>2. CASE Exists(i)
      <3>1. row[i].kind \in Kinds
        BY <2>1, <2>2, <1>c DEF Known, Rows
      <3> DEFINE c == [call[h] EXCEPT !.pc = "replied", !.reply = "ok", !.kind = row[i].kind]
      <3>2. call' = [call EXCEPT ![h] = c]
        BY <1>7, <2>2, <1>a DEF ClaimLoad
      <3>3. c \in Calls /\ c.pc = "replied"
        BY <3>1, <1>e, ZenonT(60) DEF Calls, NoAnswer
      <3> HIDE DEF c
      <3>4. call' \in [Handlers -> Calls] /\ Guarded'
        BY <2>1, <3>2, <3>3, <1>a DEF Guarded, Known, Addressed
      <3>5. QED
        BY <2>1, <3>4, <1>r
    <2>3. CASE ~Exists(i)
      <3>1. Reply(h, "none")
        BY <1>7, <2>3 DEF ClaimLoad
      <3>2. QED
        BY <2>1, <3>1, <1>a, <1>r, ReplyType DEF NoAnswer
    <2>4. QED
      BY <2>2, <2>3
  <1>8. CASE Require(h)
    <2>1. UNCHANGED <<row, lastId>> /\ i \in Known
      BY <1>8, <1>b DEF Require, Addressed
    <2>2. \/ Reply(h, "404") \/ Reply(h, "403") \/ Goto(h, FirstStatement(call[h]))
      BY <1>8 DEF Require
    <2>3. FirstStatement(call[h]) \in {"report_read", "yield_read", "complete_read"}
      BY DEF FirstStatement
    <2>4. QED
      BY <2>1, <2>2, <2>3, <1>a, <1>r, ReplyType, GotoType DEF NoAnswer
  <1>9. CASE ReportRead(h)
    <2>1. UNCHANGED <<row, lastId>> /\ i \in Known
      BY <1>9, <1>b DEF ReportRead, Addressed
    <2>2. \/ Reply(h, "404") \/ Reply(h, "500") \/ Goto(h, "complete_read")
          \/ Has(i, Terminal) /\ Reply(h, row[i].status)
          \/ Exists(i) /\ ~Has(i, Terminal) /\ Look(h, "report_write")
      BY <1>9 DEF ReportRead, AfterReport
    <2>3. Exists(i) /\ ~Has(i, Terminal) => Has(i, Pending)
      BY <2>1, <1>c DEF Has, Known, Rows, Statuses
    <2>4. Has(i, Terminal) => row[i].status \in Statuses \cup NoAnswer
      BY <1>d DEF Has
    <2>5. "404" \in Statuses \cup NoAnswer /\ "500" \in Statuses \cup NoAnswer
      BY DEF NoAnswer
    <2>6. call' \in [Handlers -> Calls] /\ Guarded'
      BY <2>1, <2>2, <2>3, <2>4, <2>5, <1>a, ReplyType, GotoType, LookType
    <2>7. QED
      BY <2>1, <2>6, <1>r
  <1>10. CASE ReportWrite(h)
    <2> DEFINE r == Reported(row[i], call[h])
    <2>1. UpdateRow(i, r) /\ UNCHANGED lastId /\ i \in Known
      BY <1>10, <1>b DEF ReportWrite, Addressed
    <2>2. Exists(i) => r \in Rows
      BY <2>1, <1>c, <1>e, ReportedType DEF Known
    <2>3. row' \in [Ids -> Rows \cup {Null}] /\ FreshIds'
      BY <2>1, <2>2, UpdateRowType
    <2>4. \/ Goto(h, "complete_read")
          \/ Reply(h, IF call[h].seen = "CLAIMED" THEN "RUNNING" ELSE call[h].seen)
      BY <1>10 DEF ReportWrite, AfterReport
    <2>5. call[h].seen \in Pending
      BY <1>10, <1>a DEF ReportWrite, Guarded
    <2>6. (IF call[h].seen = "CLAIMED" THEN "RUNNING" ELSE call[h].seen) \in Statuses
      BY <2>5 DEF Statuses, Pending, Active
    <2>7. QED
      BY <2>1, <2>3, <2>4, <2>6, <1>a, <1>q, ReplyType, GotoType
  <1>11. CASE YieldRead(h)
    <2>1. UNCHANGED <<row, lastId>> /\ i \in Known
      BY <1>11, <1>b DEF YieldRead, Addressed
    <2>2. \/ Reply(h, "404")
          \/ Has(i, Terminal) /\ Reply(h, row[i].status)
          \/ Exists(i) /\ ~Has(i, Terminal) /\ Look(h, "yield_write")
      BY <1>11 DEF YieldRead
    <2>3. Exists(i) /\ ~Has(i, Terminal) => Has(i, Pending)
      BY <2>1, <1>c DEF Has, Known, Rows, Statuses
    <2>4. Has(i, Terminal) => row[i].status \in Statuses \cup NoAnswer
      BY <1>d DEF Has
    <2>5. "404" \in Statuses \cup NoAnswer
      BY DEF NoAnswer
    <2>6. call' \in [Handlers -> Calls] /\ Guarded'
      BY <2>1, <2>2, <2>3, <2>4, <2>5, <1>a, ReplyType, LookType
    <2>7. QED
      BY <2>1, <2>6, <1>r
  <1>12. CASE YieldWrite(h)
    <2> DEFINE d == IF call[h].done = Null THEN row[i].done ELSE call[h].done
               r == [row[i] EXCEPT !.status = "QUEUED", !.claimant = Null, !.done = d]
    <2>1. UpdateRow(i, r) /\ UNCHANGED lastId /\ i \in Known /\ Reply(h, "QUEUED")
      BY <1>12, <1>b DEF YieldWrite, Addressed
    <2>2. Exists(i) => d \in Done
      BY <2>1, <1>c, <1>e DEF Known, Rows, Calls
    <2>3. Exists(i) => r \in Rows
      <3> HIDE DEF d
      <3>1. QED
        BY <2>1, <2>2, <1>c, RowType DEF Known, Statuses, Pending
    <2>4. row' \in [Ids -> Rows \cup {Null}] /\ FreshIds'
      BY <2>1, <2>3, UpdateRowType
    <2>5. QED
      BY <2>1, <2>4, <1>a, <1>d, <1>q, ReplyType
  <1>13. CASE CompleteRead(h)
    <2>1. (Reply(h, "ok") \/ Goto(h, "complete_write")) /\ UNCHANGED <<row, lastId>> /\ i \in Known
      BY <1>13, <1>b DEF CompleteRead, Addressed
    <2>2. QED
      BY <2>1, <1>a, <1>r, ReplyType, GotoType DEF NoAnswer
  <1>14. CASE CompleteWrite(h)
    <2> DEFINE s == IF call[h].ok THEN "COMPLETED" ELSE "FAILED"
               r == [row[i] EXCEPT !.status = s, !.cancelled = FALSE]
    <2>1. UpdateRow(i, r) /\ UNCHANGED lastId /\ i \in Known /\ Reply(h, "ok")
      BY <1>14, <1>b DEF CompleteWrite, Addressed
    <2>2. s \in Statuses
      BY DEF Statuses, Terminal
    <2>3. Exists(i) => r \in Rows
      <3> HIDE DEF s
      <3>1. QED
        BY <2>1, <2>2, <1>c, RowType DEF Known
    <2>4. row' \in [Ids -> Rows \cup {Null}] /\ FreshIds'
      BY <2>1, <2>3, UpdateRowType
    <2>5. QED
      BY <2>1, <2>4, <1>a, <1>q, ReplyType DEF NoAnswer
  <1>15. CASE CancelRead(h)
    <2>1. /\ Reply(h, "404") \/ Reply(h, "400") \/ Goto(h, "cancel_write")
          /\ UNCHANGED <<row, lastId>> /\ i \in Known
      BY <1>15, <1>b DEF CancelRead, Addressed
    <2>2. QED
      BY <2>1, <1>a, <1>r, ReplyType, GotoType DEF NoAnswer
  <1>16. CASE CancelWrite(h)
    <2> DEFINE r == [row[i] EXCEPT !.status = "FAILED", !.cancelled = TRUE]
    <2>1. UpdateRow(i, r) /\ UNCHANGED lastId /\ i \in Known /\ Reply(h, "ok")
      BY <1>16, <1>b DEF CancelWrite, Addressed
    <2>2. Exists(i) => r \in Rows
      BY <2>1, <1>c, RowType DEF Known, Statuses, Terminal
    <2>3. row' \in [Ids -> Rows \cup {Null}] /\ FreshIds'
      BY <2>1, <2>2, UpdateRowType
    <2>4. QED
      BY <2>1, <2>3, <1>a, <1>q, ReplyType DEF NoAnswer
  <1>17. QED
    BY <1>1, <1>2, <1>3, <1>4, <1>5, <1>6, <1>7, <1>8, <1>9, <1>10, <1>11, <1>12, <1>13, <1>14,
       <1>15, <1>16 DEF Statement

LEMMA TypeStep == TypeOK /\ [Next]_vars => TypeOK'
  <1> SUFFICES ASSUME TypeOK, [Next]_vars PROVE TypeOK'
    OBVIOUS
  <1> USE IdsAssumption, NullAssumption, MaxDoneAssumption
  <1>1. ASSUME NEW h \in Handlers, Arrival(h) PROVE TypeOK'
    <2>1. PICK c : Fresh(c) /\ Arrive(h, c)
      BY <1>1, ArrivalIsFresh
    <2>2. QED
      BY <2>1 DEF TypeOK, Fresh, Arrive, FreshIds, Guarded, Addressed, Known
  <1>2. ASSUME NEW h \in Handlers, Return(h) PROVE TypeOK'
    BY <1>2 DEF TypeOK, Return, Idle, Calls, Ops, Kinds, NoAnswer, FreshIds, Guarded, Addressed,
       Known
  <1>3. CASE ServerCrash
    BY <1>3 DEF TypeOK, ServerCrash, Idle, Calls, Ops, Kinds, NoAnswer, FreshIds, Guarded,
       Addressed, Known
  <1>4. CASE UNCHANGED vars
    BY <1>4 DEF TypeOK, vars, FreshIds, Guarded, Known
  <1>5. QED
    BY <1>1, <1>2, <1>3, <1>4, StatementType DEF Next

LEMMA TypeInit == Init => TypeOK
  BY DEF Init, TypeOK, Idle, Calls, Ops, Kinds, NoAnswer, FreshIds, Guarded, Addressed

\* Under every interleaving of handlers and crashes of the server: tables and calls
\* keep their types, ids are handed out once, and no handler writes over a request
\* that it saw finished (the terminal-state guards of report_progress, yield_request).
THEOREM TypeCorrect == Spec => []TypeOK
  BY TypeInit, TypeStep, PTL DEF Spec

-----------------------------------------------------------------------------
(* Ownership.                                                              *)

\* All a step can do to the request i: nothing, create it, delete it, hand it out,
\* take it back, or report, complete or cancel it without touching the claim.
Untouched(i) == row'[i] = row[i]
Created(i)   == row[i] = Null /\ i \notin Known /\ row'[i].claimant = Null
Deleted(i)   == row'[i] = Null
HandedOut(i) == /\ Has(i, {"QUEUED"}) /\ row'[i].status = "CLAIMED"
                /\ \E h \in Handlers :
                      ClaimUpdate(h) /\ call[h].id = i /\ row'[i].claimant = call[h].by
TakenBack(i) == /\ row'[i].status = "QUEUED" /\ row'[i].claimant = Null
                /\ \E h \in Handlers : YieldWrite(h) /\ call[h].id = i
Recorded(i)  == /\ row'[i].claimant = row[i].claimant
                /\ row'[i].status = row[i].status \/ row'[i].status # "QUEUED"
                /\ Exists(i)
Effect(i) == Untouched(i) \/ Created(i) \/ Deleted(i) \/ HandedOut(i) \/ TakenBack(i) \/ Recorded(i)

\* An UPDATE by id either writes its row or finds none, and leaves the others alone.
LEMMA UpdateEffect ==
    ASSUME TypeOK, NEW k, NEW r, UpdateRow(k, r), NEW i \in Ids
    PROVE  Untouched(i) \/ (i = k /\ row[i] \in Rows /\ Exists(i) /\ row'[i] = r)
  BY DEF TypeOK, UpdateRow, Exists, Untouched

LEMMA StatementEffect ==
    ASSUME TypeOK, NEW h \in Handlers, Statement(h), NEW i \in Ids
    PROVE  Effect(i)
  <1> USE NullAssumption DEF Effect
  <1>1. CASE UNCHANGED row
    BY <1>1 DEF Untouched
  <1>2. CASE Insert(h)
    <2>1. row'[i] = row[i] \/ (row[i] = Null /\ i = lastId + 1 /\ row'[i] = NewRow(call[h]))
      BY <1>2, IdsAssumption DEF Insert, TypeOK, FreshIds
    <2>2. lastId + 1 \notin Known
      BY DEF Known, TypeOK
    <2>3. QED
      BY <2>1, <2>2 DEF NewRow, Untouched, Created
  <1>3. CASE ResetDelete(h)
    BY <1>3 DEF ResetDelete, Deleted
  <1>4. CASE ClaimUpdate(h)
    BY <1>4 DEF ClaimUpdate, TypeOK, Rows, HandedOut, Untouched, Has, Exists
  <1>5. CASE ReportWrite(h)
    <2> DEFINE r == Reported(row[i], call[h])
    <2>1. Untouched(i) \/ (row[i] \in Rows /\ Exists(i) /\ row'[i] = r)
      BY <1>5, UpdateEffect DEF ReportWrite
    <2>2. ASSUME row[i] \in Rows
          PROVE  /\ r.claimant = row[i].claimant
                 /\ r.status = row[i].status \/ r.status = "RUNNING"
      BY <2>2 DEF Reported, Rows
    <2>3. QED
      BY <2>1, <2>2 DEF Recorded
  <1>6. CASE YieldWrite(h)
    <2> DEFINE k == call[h].id
               d == IF call[h].done = Null THEN row[k].done ELSE call[h].done
               r == [row[k] EXCEPT !.status = "QUEUED", !.claimant = Null, !.done = d]
    <2>1. UpdateRow(k, r)
      BY <1>6 DEF YieldWrite
    <2>2. ASSUME row[k] \in Rows PROVE r.status = "QUEUED" /\ r.claimant = Null
      <3> HIDE DEF d
      <3>1. QED
        BY <2>2 DEF Rows
    <2> HIDE DEF r
    <2>3. QED
      BY <1>6, <2>1, <2>2, UpdateEffect DEF TakenBack
  <1>7. CASE CompleteWrite(h)
    <2> DEFINE k == call[h].id
               s == IF call[h].ok THEN "COMPLETED" ELSE "FAILED"
               r == [row[k] EXCEPT !.status = s, !.cancelled = FALSE]
    <2>1. UpdateRow(k, r)
      BY <1>7 DEF CompleteWrite
    <2>2. s # "QUEUED"
      OBVIOUS
    <2>3. ASSUME row[k] \in Rows PROVE r.status = s /\ r.claimant = row[k].claimant
      <3> HIDE DEF s
      <3>1. QED
        BY <2>3 DEF Rows
    <2> HIDE DEF r, s
    <2>4. QED
      BY <2>1, <2>2, <2>3, UpdateEffect DEF Recorded
  <1>8. CASE CancelWrite(h)
    <2> DEFINE r == [row[i] EXCEPT !.status = "FAILED", !.cancelled = TRUE]
    <2>1. Untouched(i) \/ (row[i] \in Rows /\ Exists(i) /\ row'[i] = r)
      BY <1>8, UpdateEffect, ZenonT(60) DEF CancelWrite
    <2>2. ASSUME row[i] \in Rows PROVE r.status = "FAILED" /\ r.claimant = row[i].claimant
      BY <2>2 DEF Rows
    <2>3. QED
      BY <2>1, <2>2 DEF Recorded
  <1>9. QED
    BY <1>1, <1>2, <1>3, <1>4, <1>5, <1>6, <1>7, <1>8
    DEF Statement, FindPending, ClaimSelect, ClaimNothing, ClaimLost, ClaimLoad, Require,
        ReportRead, YieldRead, CompleteRead, CancelRead

LEMMA StepEffect ==
    ASSUME TypeOK, [Next]_vars, NEW i \in Ids
    PROVE  Effect(i)
  <1>1. ASSUME NEW h \in Handlers, Arrival(h) PROVE UNCHANGED row
    BY <1>1, ArrivalIsFresh DEF Arrive
  <1>2. CASE UNCHANGED row
    BY <1>2 DEF Effect, Untouched
  <1>3. QED
    BY <1>1, <1>2, StatementEffect DEF Next, vars, Return, ServerCrash

\* No interleaving of handlers leaves a claim on a request in the queue.
THEOREM QueuedUnclaimedCorrect == Spec => []QueuedUnclaimed
  <1> USE DEF QueuedUnclaimed, Has, Exists
  <1>1. Init => QueuedUnclaimed
    BY DEF Init
  <1>2. TypeOK /\ QueuedUnclaimed /\ [Next]_vars => QueuedUnclaimed'
    BY StepEffect
    DEF Effect, Untouched, Created, Deleted, HandedOut, TakenBack, Recorded
  <1>3. QED
    BY <1>1, <1>2, TypeCorrect, PTL DEF Spec

\* A request never passes from one agent to another except through the queue: it is
\* the UPDATE's own condition (claim_next) that makes the race of two claims safe.
THEOREM HandOverCorrect == Spec => HandOver
  <1>1. ASSUME TypeOK, QueuedUnclaimed, [Next]_vars, NEW i \in Ids
        PROVE  Claimant(i) # Null /\ Claimant(i)' # Claimant(i)
                  => Claimant(i)' = Null /\ Released(i)'
    BY <1>1, StepEffect
    DEF Claimant, Released, QueuedUnclaimed, Has, Exists,
        Effect, Untouched, Created, Deleted, HandedOut, TakenBack, Recorded
  <1>2. TypeOK /\ QueuedUnclaimed /\ [Next]_vars
          => [\A i \in Ids : Claimant(i) # Null /\ Claimant(i)' # Claimant(i)
                               => Claimant(i)' = Null /\ Released(i)']_vars
    BY <1>1
  <1>3. QED
    BY <1>2, TypeCorrect, QueuedUnclaimedCorrect, PTL DEF Spec, HandOver

-----------------------------------------------------------------------------
(***************************************************************************)
(* What is pending once. A call that is about to insert found no pending   *)
(* request of its subject; while it is the only one to insert, and no      *)
(* request that had ended is revived, none appears (Clear).                *)
(***************************************************************************)

LEMMA HistoryIsQueue == HistorySpec => Spec
  <1>1. [HistoryNext]_historyVars => [Next]_vars
    BY DEF HistoryNext, historyVars
  <1>2. HistoryInit => Init
    BY DEF HistoryInit
  <1>3. QED
    BY <1>1, <1>2, PTL DEF HistorySpec, Spec

Clear(s) ==
    /\ \A i, j \in PendingOf(s) : i = j
    /\ InsertingOf(s) # {} => PendingOf(s) = {}
    /\ ~ Together(s)

Cleared == \A s \in Singular \ doubled : Clear(s)

\* A step that the history follows.
Following ==
    /\ TypeOK
    /\ doubled' = {s \in Singular : (s \in doubled /\ ~ Drained(s)') \/ Together(s)' \/ Revived(s)}

\* No statement changes what a request is about.
LEMMA SubjectStays ==
    ASSUME TypeOK, NEW h \in Handlers, Statement(h), NEW i \in Ids, Exists(i)'
    PROVE  \/ Exists(i) /\ Subject(i)' = Subject(i)
           \/ Insert(h) /\ i = lastId + 1 /\ row'[i] = NewRow(call[h])
  <1> USE NullAssumption
  <1>a. row[i] \in Rows \cup {Null}
    BY DEF TypeOK
  <1>1. CASE UNCHANGED row
    BY <1>1 DEF Exists, Subject
  <1>2. ASSUME NEW k, NEW r, UpdateRow(k, r), row[i] \in Rows /\ i = k => r.kind = row[i].kind /\ r.scope = row[i].scope
        PROVE  Exists(i) /\ Subject(i)' = Subject(i)
    <2>1. Untouched(i) \/ (i = k /\ row[i] \in Rows /\ Exists(i) /\ row'[i] = r)
      BY <1>2, UpdateEffect
    <2>2. QED
      BY <1>2, <2>1 DEF Untouched, Exists, Subject
  <1>3. CASE Insert(h)
    <2>1. row'[i] = row[i] \/ (i = lastId + 1 /\ row'[i] = NewRow(call[h]))
      BY <1>3 DEF Insert, TypeOK
    <2>2. QED
      BY <1>3, <2>1 DEF Exists, Subject
  <1>4. CASE ResetDelete(h)
    BY <1>4 DEF ResetDelete, Exists
  <1>5. CASE ClaimUpdate(h)
    BY <1>5, <1>a DEF ClaimUpdate, TypeOK, Rows, Has, Exists, Subject
  <1>6. CASE ReportWrite(h)
    <2> DEFINE r == Reported(row[call[h].id], call[h])
    <2>1. row[i] \in Rows /\ i = call[h].id => r.kind = row[i].kind /\ r.scope = row[i].scope
      BY DEF Reported, Rows
    <2> HIDE DEF r
    <2>2. UpdateRow(call[h].id, r)
      BY <1>6 DEF ReportWrite, r
    <2>3. QED
      BY <1>2, <2>1, <2>2
  <1>7. CASE YieldWrite(h)
    <2> DEFINE k == call[h].id
               d == IF call[h].done = Null THEN row[k].done ELSE call[h].done
               r == [row[k] EXCEPT !.status = "QUEUED", !.claimant = Null, !.done = d]
    <2>1. UpdateRow(k, r)
      BY <1>7 DEF YieldWrite
    <2>2. row[i] \in Rows /\ i = k => r.kind = row[i].kind /\ r.scope = row[i].scope
      <3> HIDE DEF d
      <3>1. QED
        BY DEF Rows
    <2> HIDE DEF r
    <2>3. QED
      BY <1>2, <2>1, <2>2
  <1>8. CASE CompleteWrite(h)
    <2> DEFINE k == call[h].id
               s == IF call[h].ok THEN "COMPLETED" ELSE "FAILED"
               r == [row[k] EXCEPT !.status = s, !.cancelled = FALSE]
    <2>1. UpdateRow(k, r)
      BY <1>8 DEF CompleteWrite
    <2>2. row[i] \in Rows /\ i = k => r.kind = row[i].kind /\ r.scope = row[i].scope
      <3> HIDE DEF s
      <3>1. QED
        BY DEF Rows
    <2> HIDE DEF r
    <2>3. QED
      BY <1>2, <2>1, <2>2
  <1>9. CASE CancelWrite(h)
    <2> DEFINE k == call[h].id
               r == [row[k] EXCEPT !.status = "FAILED", !.cancelled = TRUE]
    <2>1. UpdateRow(k, r)
      BY <1>9 DEF CancelWrite
    <2>2. row[i] \in Rows /\ i = k => r.kind = row[i].kind /\ r.scope = row[i].scope
      BY DEF Rows
    <2> HIDE DEF r
    <2>3. QED
      BY <1>2, <2>1, <2>2
  <1>10. QED
    BY <1>1, <1>3, <1>4, <1>5, <1>6, <1>7, <1>8, <1>9
    DEF Statement, FindPending, ClaimSelect, ClaimNothing, ClaimLost, ClaimLoad, Require,
        ReportRead, YieldRead, CompleteRead, CancelRead

\* A statement that inserts nothing makes nothing pending, but for what it revives.
LEMMA PendingShrinks ==
    ASSUME TypeOK, NEW h \in Handlers, Statement(h), ~ Insert(h), NEW s, ~ Revived(s)
    PROVE  PendingOf(s)' \subseteq PendingOf(s)
  <1>1. SUFFICES ASSUME NEW i \in Ids, Exists(i)', row'[i].status \in Pending, Subject(i)' = s
                 PROVE  Has(i, Pending) /\ Subject(i) = s
    BY DEF PendingOf, Has, Exists
  <1>2. Exists(i) /\ Subject(i) = s
    BY <1>1, SubjectStays
  <1>3. ~ Has(i, Terminal)
    BY <1>1 DEF Revived, PendingOf, Has, Exists
  <1>4. row[i].status \in Statuses
    BY <1>2 DEF TypeOK, Exists, Rows
  <1>5. QED
    BY <1>2, <1>3, <1>4 DEF Has, Statuses

\* The row that an insert adds is about the subject of the call.
LEMMA PendingGrows ==
    ASSUME TypeOK, NEW h \in Handlers, Insert(h), NEW s
    PROVE  /\ PendingOf(s)' \subseteq PendingOf(s) \cup {lastId + 1}
           /\ <<call[h].kind, call[h].scope>> # s => PendingOf(s)' \subseteq PendingOf(s)
  <1>1. ASSUME NEW i \in Ids
        PROVE  row'[i] = row[i] \/ (i = lastId + 1 /\ row'[i] = NewRow(call[h]))
    BY DEF Insert, TypeOK
  <1>2. PICK r : r = NewRow(call[h]) /\ r.kind = call[h].kind /\ r.scope = call[h].scope
    <2>1. NewRow(call[h]).kind = call[h].kind /\ NewRow(call[h]).scope = call[h].scope
      BY DEF NewRow
    <2>2. QED
      BY <2>1
  <1>3. ASSUME NEW i \in PendingOf(s)'
        PROVE  i \in PendingOf(s) \/ (i = lastId + 1 /\ <<call[h].kind, call[h].scope>> = s)
    <2>1. i \in Ids /\ row'[i] # Null /\ row'[i].status \in Pending /\ <<row'[i].kind, row'[i].scope>> = s
      BY <1>3 DEF PendingOf, Has, Exists, Subject
    <2>2. CASE row'[i] = row[i]
      BY <2>1, <2>2 DEF PendingOf, Has, Exists, Subject
    <2>3. CASE i = lastId + 1 /\ row'[i] = r
      BY <1>2, <2>1, <2>3
    <2>4. QED
      BY <1>1, <1>2, <2>1, <2>2, <2>3
  <1>4. QED
    BY <1>3

\* Who is about to insert: those that were, and one that has just found nothing pending.
LEMMA InsertingMoves ==
    ASSUME TypeOK, NEW h \in Handlers, Statement(h), NEW s
    PROVE  \/ InsertingOf(s)' \subseteq InsertingOf(s)
           \/ UNCHANGED row /\ PendingOf(s) = {}
  <1>a. call \in [Handlers -> Calls] /\ call[h] \in Calls
    BY DEF TypeOK
  <1>1. ASSUME \A g \in Handlers : g # h => call'[g] = call[g], call'[h].pc # "insert"
        PROVE  InsertingOf(s)' \subseteq InsertingOf(s)
    BY <1>1 DEF InsertingOf
  <1>2. ASSUME NEW answer, Reply(h, answer)
        PROVE  InsertingOf(s)' \subseteq InsertingOf(s)
    <2>1. call'[h].pc = "replied" /\ \A g \in Handlers : g # h => call'[g] = call[g]
      BY <1>2, <1>a DEF Reply, Calls
    <2>2. QED
      BY <1>1, <2>1
  <1>3. ASSUME NEW pc, pc # "insert", Goto(h, pc) \/ Look(h, pc)
        PROVE  InsertingOf(s)' \subseteq InsertingOf(s)
    <2>1. call'[h].pc = pc /\ \A g \in Handlers : g # h => call'[g] = call[g]
      BY <1>3, <1>a DEF Goto, Look, Calls
    <2>2. QED
      BY <1>1, <1>3, <2>1
  <1>4. CASE FindPending(h)
    <2>1. CASE Reply(h, "ok")
      BY <1>2, <2>1
    <2>2. CASE Goto(h, "insert") /\ ~ \E i \in Ids : Has(i, Pending) /\ SameSubject(i, call[h])
      <3>1. /\ call'[h].kind = call[h].kind /\ call'[h].scope = call[h].scope
            /\ \A g \in Handlers : g # h => call'[g] = call[g]
        BY <2>2, <1>a DEF Goto, Calls
      <3>2. CASE <<call[h].kind, call[h].scope>> = s
        BY <1>4, <2>2, <3>2 DEF FindPending, PendingOf, SameSubject, Subject, Has, Exists
      <3>3. CASE <<call[h].kind, call[h].scope>> # s
        BY <3>1, <3>3 DEF InsertingOf
      <3>4. QED
        BY <3>2, <3>3
    <2>3. QED
      BY <1>4, <2>1, <2>2 DEF FindPending
  <1>5. CASE ClaimSelect(h)
    <2>1. PICK i : call' = [call EXCEPT ![h].id = i, ![h].pc = "update"]
      BY <1>5 DEF ClaimSelect
    <2>2. call'[h].pc = "update" /\ \A g \in Handlers : g # h => call'[g] = call[g]
      BY <2>1, <1>a DEF Calls
    <2>3. QED
      BY <1>1, <2>2
  <1>6. CASE ClaimLoad(h)
    <2>1. CASE Reply(h, "none")
      BY <1>2, <2>1
    <2>2. CASE call' = [call EXCEPT ![h].pc = "replied", ![h].reply = "ok", ![h].kind = row[call[h].id].kind]
      <3>1. call'[h].pc = "replied" /\ \A g \in Handlers : g # h => call'[g] = call[g]
        BY <2>2, <1>a DEF Calls
      <3>2. QED
        BY <1>1, <3>1
    <2>3. QED
      BY <1>6, <2>1, <2>2 DEF ClaimLoad
  <1>7. CASE Require(h)
    <2>1. FirstStatement(call[h]) # "insert"
      BY DEF FirstStatement
    <2>2. QED
      BY <1>2, <1>3, <1>7, <2>1 DEF Require
  <1>8. CASE ReportRead(h) \/ ReportWrite(h)
    BY <1>2, <1>3, <1>8 DEF ReportRead, ReportWrite, AfterReport
  <1>9. CASE YieldRead(h) \/ CompleteRead(h) \/ CancelRead(h) \/ ResetDelete(h) \/ ClaimUpdate(h)
    BY <1>2, <1>3, <1>9 DEF YieldRead, CompleteRead, CancelRead, ResetDelete, ClaimUpdate
  <1>10. CASE Insert(h) \/ ClaimNothing(h) \/ ClaimLost(h) \/ YieldWrite(h) \/ CompleteWrite(h) \/ CancelWrite(h)
    BY <1>2, <1>10 DEF Insert, ClaimNothing, ClaimLost, YieldWrite, CompleteWrite, CancelWrite
  <1>11. QED
    BY <1>4, <1>5, <1>6, <1>7, <1>8, <1>9, <1>10 DEF Statement

\* A subject with nothing pending and nobody about to insert is clear.
LEMMA DrainedClear ==
    ASSUME NEW s, Drained(s)'
    PROVE  Clear(s)'
  BY DEF Drained, Clear, Together

\* Nothing was added: nothing pending, nobody about to insert.
LEMMA ClearShrinks ==
    ASSUME NEW s, Clear(s), PendingOf(s)' \subseteq PendingOf(s), InsertingOf(s)' \subseteq InsertingOf(s)
    PROVE  Clear(s)'
  BY DEF Clear, Together

LEMMA StatementClear ==
    ASSUME Following, Cleared, NEW h \in Handlers, Statement(h), NEW s \in Singular \ doubled'
    PROVE  Clear(s)'
  <1>1. ~ Together(s)' /\ ~ Revived(s) /\ (s \notin doubled \/ Drained(s)')
    BY DEF Following
  <1>2. CASE Drained(s)'
    BY <1>2, DrainedClear
  <1>3. CASE Clear(s) /\ Insert(h) /\ <<call[h].kind, call[h].scope>> = s
    <2>1. h \in InsertingOf(s)
      BY <1>3 DEF Insert, InsertingOf
    <2>2. PendingOf(s)' \subseteq {lastId + 1}
      BY <1>3, <2>1, PendingGrows DEF Clear, Following
    <2>3. InsertingOf(s)' = {}
      <3>1. \A g \in InsertingOf(s) : g = h
        BY <1>3, <2>1 DEF Clear, Together
      <3>2. call'[h].pc = "replied" /\ \A g \in Handlers : g # h => call'[g] = call[g]
        BY <1>3 DEF Insert, Reply, Following, TypeOK, Calls
      <3>3. QED
        BY <3>1, <3>2 DEF InsertingOf
    <2>4. QED
      BY <1>1, <2>2, <2>3 DEF Clear
  <1>4. CASE Clear(s) /\ Insert(h) /\ <<call[h].kind, call[h].scope>> # s
    <2>1. PendingOf(s)' \subseteq PendingOf(s)
      BY <1>4, PendingGrows DEF Following
    <2>2. call'[h].pc = "replied" /\ \A g \in Handlers : g # h => call'[g] = call[g]
      BY <1>4 DEF Insert, Reply, Following, TypeOK, Calls
    <2>3. InsertingOf(s)' \subseteq InsertingOf(s)
      BY <2>2 DEF InsertingOf
    <2>4. QED
      BY <1>4, <2>1, <2>3, ClearShrinks
  <1>5. CASE Clear(s) /\ ~ Insert(h)
    <2>1. PendingOf(s)' \subseteq PendingOf(s)
      BY <1>1, <1>5, PendingShrinks DEF Following
    <2>2. CASE InsertingOf(s)' \subseteq InsertingOf(s)
      BY <1>5, <2>1, <2>2, ClearShrinks
    <2>3. CASE PendingOf(s) = {}
      BY <1>1, <2>1, <2>3 DEF Clear
    <2>4. QED
      BY <2>2, <2>3, InsertingMoves DEF Following
  <1>6. QED
    BY <1>1, <1>2, <1>3, <1>4, <1>5 DEF Cleared

\* What arrives is not about to insert what is pending once; a thread that becomes free is not at all.
LEMMA OtherClear ==
    ASSUME Following, Cleared, NEW s \in Singular \ doubled', UNCHANGED row, InsertingOf(s)' \subseteq InsertingOf(s)
    PROVE  Clear(s)'
  <1>1. s \notin doubled \/ Drained(s)'
    BY DEF Following
  <1>2. PendingOf(s)' = PendingOf(s)
    BY DEF PendingOf, Has, Exists, Subject
  <1>3. QED
    BY <1>1, <1>2, DrainedClear, ClearShrinks DEF Cleared

LEMMA StepCleared ==
    ASSUME Cleared, TypeOK, [HistoryNext]_historyVars
    PROVE  Cleared'
  <1>1. CASE UNCHANGED historyVars
    BY <1>1 DEF historyVars, vars, Cleared, Clear, Together, PendingOf, InsertingOf, Has, Exists, Subject
  <1>2. CASE HistoryNext
    <2>1. Following
      BY <1>2 DEF HistoryNext, Following
    <2>2. SUFFICES ASSUME NEW s \in Singular \ doubled'
                   PROVE  Clear(s)'
      BY DEF Cleared
    <2>3. ASSUME NEW h \in Handlers, Arrival(h) PROVE Clear(s)'
      <3>1. PICK c : Fresh(c) /\ Arrive(h, c)
        BY <2>3, ArrivalIsFresh
      <3>2. call'[h] = c /\ \A g \in Handlers : g # h => call'[g] = call[g]
        BY <3>1 DEF Arrive, TypeOK
      <3>3. c.pc = "insert" => <<c.kind, c.scope>> # s
        BY <3>1 DEF Fresh, Singular
      <3>4. InsertingOf(s)' \subseteq InsertingOf(s)
        BY <3>2, <3>3 DEF InsertingOf
      <3>5. QED
        BY <2>1, <3>1, <3>4, OtherClear DEF Arrive
    <2>4. ASSUME NEW h \in Handlers, Statement(h) PROVE Clear(s)'
      BY <2>1, <2>4, StatementClear
    <2>5. ASSUME NEW h \in Handlers, Return(h) PROVE Clear(s)'
      <3>1. call'[h].pc = "idle" /\ \A g \in Handlers : g # h => call'[g] = call[g]
        BY <2>5 DEF Return, TypeOK, Idle
      <3>2. InsertingOf(s)' \subseteq InsertingOf(s)
        BY <3>1 DEF InsertingOf
      <3>3. QED
        BY <2>1, <2>5, <3>2, OtherClear DEF Return
    <2>6. CASE ServerCrash
      <3>1. InsertingOf(s)' = {}
        BY <2>6 DEF ServerCrash, InsertingOf, Idle
      <3>2. QED
        BY <2>1, <2>6, <3>1, OtherClear DEF ServerCrash
    <2>7. QED
      BY <1>2, <2>3, <2>4, <2>5, <2>6 DEF HistoryNext, Next
  <1>3. QED
    BY <1>1, <1>2

\* However the threads interleave, and whenever the server stops: a resync, and an OCR recovery of one
\* scope, are pending at most once (enqueue_* look for a pending one before they insert), unless two of
\* them were enqueued at once or one that had ended was revived, and until all of those have ended.
THEOREM OnePendingCorrect == HistorySpec => []OnePendingPerSubject
  <1>1. HistoryInit => Cleared
    BY DEF HistoryInit, Init, Cleared, Clear, Together, PendingOf, InsertingOf, Has, Exists, Idle
  <1>2. Cleared => OnePendingPerSubject
    BY DEF Cleared, Clear, OnePendingPerSubject
  <1>3. TypeOK /\ Cleared /\ [HistoryNext]_historyVars => Cleared'
    BY StepCleared
  <1>4. QED
    BY <1>1, <1>2, <1>3, HistoryIsQueue, TypeCorrect, PTL DEF HistorySpec

-----------------------------------------------------------------------------
(***************************************************************************)
(* What the queue promises however many threads interleave. A thread that  *)
(* nobody has overtaken has its promise: what it established still holds   *)
(* at its next statement. Its own statements keep the promise, and another *)
(* thread that breaks it is what `overtaken' records.                      *)
(***************************************************************************)

Grounded == \A h \in Handlers \ overtaken : Promise(call[h])

\* A handler that has answered owes nothing.
LEMMA ReplyPromise ==
    ASSUME TypeOK, NEW h \in Handlers, NEW answer, Reply(h, answer)
    PROVE  Promise(call[h])'
  BY DEF TypeOK, Promise, Reply, Calls

\* Each statement of a handler keeps the promise to the next.
LEMMA StatementPromise ==
    ASSUME TypeOK, QueuedUnclaimed, NEW h \in Handlers, Promise(call[h]), Statement(h)
    PROVE  Promise(call[h])'
  <1> USE NullAssumption
  <1> DEFINE c == call[h]
  <1>a. /\ c \in Calls /\ Promise(c)
        /\ call \in [Handlers -> Calls] /\ row \in [Ids -> Rows \cup {Null}]
        /\ c.pc \in Addressed => c.id \in Ids
    BY DEF TypeOK, Guarded, Known
  <1>b. \A i \in Ids : Exists(i) => row[i] \in Rows /\ row[i].status \in Statuses
    BY <1>a DEF Exists, Rows
  <1>c. \A i \in Ids : Exists(i) /\ ~Has(i, Terminal) => Has(i, Pending)
    BY <1>b DEF Has, Statuses
  <1>1. CASE FindPending(h)
    BY <1>1, <1>a, ReplyPromise
    DEF FindPending, Goto, Promise, Calls, Has, Exists, SameSubject
  <1>2. CASE ResetDelete(h)
    BY <1>2, <1>a DEF ResetDelete, Goto, Promise, Calls
  <1>3. CASE ClaimSelect(h)
    BY <1>3, <1>a DEF ClaimSelect, Promise, Calls, OldestQueued, Has, Exists
  <1>4. CASE ClaimUpdate(h)
    BY <1>4, <1>a DEF ClaimUpdate, Goto, Promise, Calls
  <1>5. CASE Require(h)
    BY <1>5, <1>a, ReplyPromise DEF Require, Goto, Promise, Calls, FirstStatement, Mine, Exists
  <1>6. CASE ReportRead(h)
    BY <1>6, <1>a, <1>b, ReplyPromise
    DEF ReportRead, AfterReport, Look, Goto, Promise, Calls, Mine, Exists
  <1>7. CASE ReportWrite(h)
    <2> DEFINE i == c.id
               r == Reported(row[i], c)
    <2>1. /\ UpdateRow(i, r) /\ i \in Ids /\ Mine(c)
          /\ c.op \in {"progress", "yield", "complete"} /\ c.by \in Agents
      BY <1>7, <1>a DEF ReportWrite, Promise, Addressed
    <2>2. row'[i] = r /\ row[i] \in Rows
      BY <2>1, <1>a DEF UpdateRow, Mine, Exists
    <2>3. row'[i] # Null /\ row'[i].claimant = c.by
      BY <2>1, <2>2, <1>a, ReportedType, RowsAssumption DEF Mine
    <2>4. CASE Goto(h, "complete_read")
      BY <2>1, <2>3, <2>4, <1>a DEF Goto, Promise, Mine, Exists, Calls
    <2>5. QED
      BY <1>7, <2>4, ReplyPromise DEF ReportWrite, AfterReport
  <1>8. CASE YieldRead(h)
    BY <1>8, <1>a, <1>b, ReplyPromise DEF YieldRead, Look, Promise, Calls, Mine, Exists
  <1>9. CASE CompleteRead(h)
    BY <1>9, <1>a, <1>c, ReplyPromise
    DEF CompleteRead, Goto, Promise, Calls, Mine, Addressed, Has, Exists
  <1>10. CASE CancelRead(h)
    BY <1>10, <1>a, <1>c, ReplyPromise DEF CancelRead, Goto, Promise, Calls, Addressed, Has, Exists
  <1>11. CASE ClaimLoad(h)
    BY <1>11, <1>a, ReplyPromise DEF ClaimLoad, Promise, Calls
  <1>12. QED
    BY <1>1, <1>2, <1>3, <1>4, <1>5, <1>6, <1>7, <1>8, <1>9, <1>10, <1>11, ReplyPromise
    DEF Statement, Insert, ClaimNothing, ClaimLost, YieldWrite, CompleteWrite, CancelWrite

\* A statement moves its own thread, and no other.
LEMMA StatementMovesOne ==
    ASSUME TypeOK, NEW h \in Handlers, Statement(h)
    PROVE  call'[h] # call[h] /\ \A g \in Handlers : g # h => call'[g] = call[g]
  <1>a. call \in [Handlers -> Calls]
    BY DEF TypeOK
  <1>b. ASSUME NEW pc, pc # call[h].pc, Goto(h, pc) \/ Look(h, pc)
        PROVE  call'[h] # call[h] /\ \A g \in Handlers : g # h => call'[g] = call[g]
    BY <1>a, <1>b DEF Goto, Look, Calls
  <1>c. ASSUME NEW answer, call[h].pc # "replied", Reply(h, answer)
        PROVE  call'[h] # call[h] /\ \A g \in Handlers : g # h => call'[g] = call[g]
    BY <1>a, <1>c DEF Reply, Calls
  <1>1. CASE FindPending(h) \/ Insert(h) \/ ResetDelete(h)
    BY <1>1, <1>b, <1>c DEF FindPending, Insert, ResetDelete
  <1>2. CASE ClaimSelect(h) \/ ClaimLoad(h)
    <2>1. CASE ClaimSelect(h)
      <3>1. PICK i \in Ids : call' = [call EXCEPT ![h].id = i, ![h].pc = "update"]
        BY <2>1 DEF ClaimSelect
      <3>2. QED
        BY <2>1, <3>1, <1>a DEF ClaimSelect, Calls
    <2>2. CASE ClaimLoad(h) /\ Exists(call[h].id)
      <3> DEFINE kind == row[call[h].id].kind
      <3>1. call' = [call EXCEPT ![h].pc = "replied", ![h].reply = "ok", ![h].kind = kind]
        BY <2>2 DEF ClaimLoad
      <3>2. call[h].pc = "load"
        BY <2>2 DEF ClaimLoad
      <3> HIDE DEF kind
      <3>3. QED
        BY <3>1, <3>2, <1>a DEF Calls
    <2>3. CASE ClaimLoad(h) /\ ~Exists(call[h].id)
      BY <2>3, <1>c DEF ClaimLoad
    <2>4. QED
      BY <1>2, <2>1, <2>2, <2>3
  <1>3. CASE ClaimNothing(h) \/ ClaimUpdate(h) \/ ClaimLost(h)
    BY <1>3, <1>b, <1>c DEF ClaimNothing, ClaimUpdate, ClaimLost
  <1>4. CASE Require(h)
    BY <1>4, <1>b, <1>c DEF Require, FirstStatement
  <1>5. CASE ReportRead(h) \/ ReportWrite(h)
    BY <1>5, <1>b, <1>c DEF ReportRead, ReportWrite, AfterReport
  <1>6. CASE YieldRead(h) \/ YieldWrite(h)
    BY <1>6, <1>b, <1>c DEF YieldRead, YieldWrite
  <1>7. CASE CompleteRead(h) \/ CompleteWrite(h)
    BY <1>7, <1>b, <1>c DEF CompleteRead, CompleteWrite
  <1>8. CASE CancelRead(h) \/ CancelWrite(h)
    BY <1>8, <1>b, <1>c DEF CancelRead, CancelWrite
  <1>9. QED
    BY <1>1, <1>2, <1>3, <1>4, <1>5, <1>6, <1>7, <1>8 DEF Statement

LEMMA GroundedStep ==
    ASSUME TypeOK, QueuedUnclaimed, Grounded, [HistoryNext]_historyVars
    PROVE  Grounded'
  <1> SUFFICES ASSUME NEW g \in Handlers, ~Promise(call[g])'
               PROVE  g \in overtaken'
    BY DEF Grounded
  <1>a. call \in [Handlers -> Calls] /\ (g \in overtaken \/ Promise(call[g]))
    BY DEF TypeOK, Grounded
  <1>1. CASE UNCHANGED historyVars
    BY <1>1, <1>a DEF historyVars, vars, Promise, Mine, Exists, Has, OldestQueued, SameSubject
  <1>2. CASE HistoryNext /\ g \in overtaken
    BY <1>2 DEF HistoryNext
  <1>3. CASE HistoryNext /\ Promise(call[g])
    <2>1. ASSUME NEW h \in Handlers, Arrival(h) PROVE call'[g] = call[g]
      <3>1. PICK c : Fresh(c) /\ Arrive(h, c)
        BY <2>1, ArrivalIsFresh
      <3>2. ~ Fresh(call'[g])
        BY DEF Fresh, Promise
      <3>3. QED
        BY <3>1, <3>2, <1>a DEF Arrive
    <2>2. ASSUME NEW h \in Handlers, Return(h) PROVE call'[g] = call[g]
      BY <2>2, <1>a DEF Return, Promise, Idle
    <2>3. ~ ServerCrash
      BY DEF ServerCrash, Promise, Idle
    <2>4. ASSUME NEW h \in Handlers, Statement(h) PROVE call'[g] = call[g]
      BY <1>3, <2>4, StatementPromise, StatementMovesOne
    <2>5. Loses(g)
      BY <1>3, <2>1, <2>2, <2>3, <2>4 DEF HistoryNext, Next, Loses
    <2>6. QED
      BY <1>3, <2>5 DEF HistoryNext
  <1>4. QED
    BY <1>a, <1>1, <1>2, <1>3

-----------------------------------------------------------------------------
(* Each statement is a step of RequestLifecycle, or changes nothing it sees. *)

StatusSeen  == [i \in Ids |-> Lifecycle(i)]
OwnerSeen   == [i \in Ids |-> Claimant(i)]
SubjectSeen == [i \in Ids |-> Subject(i)]
Seen == <<StatusSeen, OwnerSeen, SubjectSeen>>

\* What an UPDATE that makes r of the row k is in the abstract table.
Updated(k, r) ==
    /\ StatusSeen' = [StatusSeen EXCEPT ![k] = r.status]
    /\ OwnerSeen' = [OwnerSeen EXCEPT ![k] = r.claimant]
    /\ r.claimant = row[k].claimant => OwnerSeen' = OwnerSeen
    /\ r.status = row[k].status => StatusSeen' = StatusSeen
    /\ SubjectSeen' = SubjectSeen
    /\ StatusSeen[k] = row[k].status

LEMMA UpdateSeen ==
    ASSUME TypeOK, NEW k \in Ids, Exists(k), NEW r \in Rows, UNCHANGED lastId,
           row' = [row EXCEPT ![k] = r], r.kind = row[k].kind, r.scope = row[k].scope
    PROVE  Updated(k, r)
  BY RowsAssumption
  DEF TypeOK, StatusSeen, OwnerSeen, SubjectSeen, Lifecycle, Claimant, Subject, Exists, Updated

LEMMA StatementSimulates ==
    ASSUME TypeOK, QueuedUnclaimed, NEW h \in Handlers, Promise(call[h]), Statement(h)
    PROVE  Abstract!Next \/ UNCHANGED Seen
  <1> USE NullAssumption, RowsAssumption
  <1> DEFINE c == call[h]
             k == c.id
  <1>a. /\ c \in Calls /\ Promise(c)
        /\ row \in [Ids -> Rows \cup {Null}]
        /\ c.pc \in Addressed => k \in Ids
    BY DEF TypeOK, Guarded, Known
  <1>b. Exists(k) /\ k \in Ids => row[k] \in Rows
    BY <1>a DEF Exists
  <1>c. ASSUME k \in Ids, Mine(c), c.by \in Agents, row[k].status \in Pending
        PROVE  row[k].status \in Active
    BY <1>c DEF Mine, QueuedUnclaimed, Has, Pending
  <1>1. CASE UNCHANGED <<row, lastId>>
    BY <1>1 DEF Seen, StatusSeen, OwnerSeen, SubjectSeen, Lifecycle, Claimant, Subject, Exists
  <1>2. CASE Insert(h)
    <2>0. PICK i \in Ids : i = lastId + 1
      BY <1>2 DEF Insert
    <2>1. /\ i = lastId + 1 /\ NewRow(c) \in Rows /\ lastId \in Nat /\ \A j \in Ids : j \in Nat
          /\ \A j \in Ids : j > lastId => row[j] = Null
      BY <2>0, <1>2, <1>a, IdsAssumption, MaxDoneAssumption
      DEF Insert, TypeOK, FreshIds, NewRow, Rows, Calls, Statuses, Pending, Done
    <2>2. row' = [row EXCEPT ![i] = NewRow(c)] /\ lastId' = i
      BY <1>2, <2>0 DEF Insert
    <2>3. c.kind = "extraction" \/ \A j \in Ids : Has(j, Pending) => ~SameSubject(j, c)
      BY <1>2, <1>a DEF Insert, Promise
    <2> DEFINE s == <<c.kind, c.scope>>
    <2>4. StatusSeen[i] = "NONE" /\ \A j \in Ids : j < i => StatusSeen[j] # "NONE"
      BY <2>1, <1>a DEF StatusSeen, Lifecycle, Exists, Rows, Statuses, Pending, Active, Terminal
    <2>5. /\ StatusSeen' = [StatusSeen EXCEPT ![i] = "QUEUED"]
          /\ OwnerSeen' = OwnerSeen
          /\ SubjectSeen' = [SubjectSeen EXCEPT ![i] = s]
      <3> DEFINE r == NewRow(c)
      <3>1. r # Null /\ r.status = "QUEUED" /\ r.claimant = Null /\ <<r.kind, r.scope>> = s
        BY <2>1 DEF NewRow
      <3>2. row'[i] = r /\ \A j \in Ids : j # i => row'[j] = row[j]
        BY <2>1, <2>2, <1>a
      <3> HIDE DEF r
      <3>3. ASSUME NEW j \in Ids, j # i
            PROVE  /\ Lifecycle(j)' = Lifecycle(j) /\ Claimant(j)' = Claimant(j)
                   /\ Subject(j)' = Subject(j)
        <4>1. (j <= lastId)' <=> j <= lastId
          BY <2>1, <2>2, <3>3
        <4>2. QED
          BY <3>2, <3>3, <4>1 DEF Lifecycle, Claimant, Subject, Exists
      <3>4. /\ Lifecycle(i)' = "QUEUED" /\ Claimant(i)' = Null /\ Subject(i)' = s
            /\ Claimant(i) = Null
        BY <2>1, <3>1, <3>2 DEF Lifecycle, Claimant, Subject, Exists
      <3> HIDE DEF s
      <3>5. QED
        BY <2>1, <3>3, <3>4 DEF StatusSeen, OwnerSeen, SubjectSeen
    <2>6. /\ s \in Kinds \X (Scopes \cup {Null})
          /\ c.kind = "extraction" => s \in {"extraction"} \X (Scopes \cup {Null})
      BY <1>a DEF Calls
    <2>7. ASSUME c.kind # "extraction"
          PROVE  \A j \in Ids : StatusSeen[j] \in Pending => SubjectSeen[j] # s
      BY <2>3, <2>7
      DEF StatusSeen, SubjectSeen, Lifecycle, Subject, Has, SameSubject, Pending, Active
    <2> HIDE DEF s
    <2>8. Abstract!Enqueue(i, s)
      BY <2>4, <2>5, <2>6, <2>7
      DEF Abstract!Enqueue, Abstract!Pending, Abstract!Queued, Abstract!Active, Pending, Active,
          StatusSeen, OwnerSeen, SubjectSeen, Lifecycle, Claimant, Subject, Exists
    <2>9. QED
      BY <2>1, <2>6, <2>8 DEF Abstract!Next
  <1>3. CASE ResetDelete(h)
    <2>1. Abstract!Wipe
      BY <1>3, IdsAssumption
      DEF ResetDelete, Abstract!Wipe, Lifecycle, Claimant, Subject, Exists, TypeOK, FreshIds, Rows,
          Statuses, Pending, Active, Terminal
    <2>2. QED
      BY <2>1 DEF Abstract!Next
  <1>4. CASE ClaimUpdate(h)
    <2> DEFINE r == [row[k] EXCEPT !.status = "CLAIMED", !.claimant = c.by]
    <2>1. /\ k \in Ids /\ Exists(k) /\ row[k].status = "QUEUED" /\ row[k] \in Rows
          /\ c.by \in Agents /\ OldestQueued(k)
      BY <1>4, <1>a, <1>b DEF ClaimUpdate, Promise, Addressed, Has
    <2>2. /\ r \in Rows /\ r.status = "CLAIMED" /\ r.claimant = c.by
          /\ r.kind = row[k].kind /\ r.scope = row[k].scope
      BY <2>1 DEF Rows, Statuses, Pending, Active
    <2>3. row' = [row EXCEPT ![k] = r] /\ UNCHANGED lastId
      BY <1>4 DEF ClaimUpdate
    <2> HIDE DEF r
    <2>u. Updated(k, r)
      BY <2>1, <2>2, <2>3, UpdateSeen, Zenon
    <2>4. /\ StatusSeen' = [StatusSeen EXCEPT ![k] = "CLAIMED"] /\ StatusSeen[k] = "QUEUED"
          /\ OwnerSeen' = [OwnerSeen EXCEPT ![k] = c.by] /\ SubjectSeen' = SubjectSeen
      BY <2>1, <2>2, <2>u DEF Updated
    <2>5. \A j \in Ids : StatusSeen[j] = "QUEUED" => k <= j
      BY <2>1 DEF OldestQueued, StatusSeen, Lifecycle, Has
    <2>6. Abstract!Claim(k, c.by)
      BY <2>4, <2>5
      DEF Abstract!Claim, StatusSeen, OwnerSeen, SubjectSeen, Lifecycle, Claimant, Subject, Exists
    <2>7. QED
      BY <2>1, <2>6 DEF Abstract!Next
  <1>5. CASE ReportWrite(h)
    <2> DEFINE r == Reported(row[k], c)
    <2>1. /\ k \in Ids /\ Exists(k) /\ row[k] \in Rows /\ c.by \in Agents
          /\ c.seen = row[k].status /\ c.seen \in Pending
      BY <1>5, <1>a, <1>b DEF ReportWrite, Promise, Addressed, Mine, TypeOK, Guarded
    <2>2. /\ r \in Rows /\ r.claimant = row[k].claimant
          /\ r.status = IF c.seen = "CLAIMED" THEN "RUNNING" ELSE row[k].status
          /\ r.kind = row[k].kind /\ r.scope = row[k].scope
      BY <2>1, <1>a, ReportedType
    <2>3. row' = [row EXCEPT ![k] = r] /\ UNCHANGED lastId
      BY <1>5, <2>1 DEF ReportWrite, UpdateRow
    <2> HIDE DEF r
    <2>u. Updated(k, r)
      BY <2>1, <2>2, <2>3, UpdateSeen, Zenon
    <2>4. CASE c.seen = "CLAIMED"
      <3>1. /\ StatusSeen' = [StatusSeen EXCEPT ![k] = "RUNNING"] /\ StatusSeen[k] = "CLAIMED"
            /\ OwnerSeen' = OwnerSeen /\ SubjectSeen' = SubjectSeen
        BY <2>1, <2>2, <2>4, <2>u DEF Updated
      <3>2. Abstract!Start(k)
        BY <3>1
        DEF Abstract!Start, StatusSeen, OwnerSeen, SubjectSeen, Lifecycle, Claimant, Subject, Exists
      <3>3. QED
        BY <2>1, <3>2 DEF Abstract!Next
    <2>5. CASE c.seen # "CLAIMED"
      BY <2>1, <2>2, <2>5, <2>u DEF Updated, Seen
    <2>6. QED
      BY <2>4, <2>5
  <1>6. CASE YieldWrite(h)
    <2> DEFINE d == IF c.done = Null THEN row[k].done ELSE c.done
               r == [row[k] EXCEPT !.status = "QUEUED", !.claimant = Null, !.done = d]
    <2>1. /\ k \in Ids /\ Mine(c) /\ row[k] \in Rows /\ c.by \in Agents
          /\ row[k].status \in Active /\ Exists(k)
      BY <1>6, <1>a, <1>b, <1>c DEF YieldWrite, Promise, Addressed, Mine, TypeOK, Guarded
    <2>2. d \in Done
      BY <2>1, <1>a DEF Rows, Calls
    <2>3. row' = [row EXCEPT ![k] = r] /\ UNCHANGED lastId
      BY <1>6, <2>1 DEF YieldWrite, UpdateRow
    <2> HIDE DEF d
    <2>4. /\ r \in Rows /\ r.claimant = Null /\ r.status = "QUEUED"
          /\ r.kind = row[k].kind /\ r.scope = row[k].scope
      BY <2>1, <2>2 DEF Rows, Statuses, Pending
    <2> HIDE DEF r
    <2>u. Updated(k, r)
      BY <2>1, <2>3, <2>4, UpdateSeen, Zenon
    <2>5. /\ StatusSeen' = [StatusSeen EXCEPT ![k] = "QUEUED"] /\ StatusSeen[k] \in Active
          /\ OwnerSeen' = [OwnerSeen EXCEPT ![k] = Null] /\ SubjectSeen' = SubjectSeen
      BY <2>1, <2>4, <2>u DEF Updated
    <2>6. Abstract!Yield(k)
      BY <2>5
      DEF Abstract!Yield, Abstract!Active, Active, StatusSeen, OwnerSeen, SubjectSeen, Lifecycle,
          Claimant, Subject, Exists
    <2>7. QED
      BY <2>1, <2>6 DEF Abstract!Next
  <1>7. CASE CompleteWrite(h)
    <2> DEFINE s == IF c.ok THEN "COMPLETED" ELSE "FAILED"
               r == [row[k] EXCEPT !.status = s, !.cancelled = FALSE]
    <2>1. /\ k \in Ids /\ Mine(c) /\ row[k] \in Rows /\ c.by \in Agents
          /\ row[k].status \in Active /\ Exists(k)
      BY <1>7, <1>a, <1>b, <1>c DEF CompleteWrite, Promise, Addressed, Mine, Has
    <2>2. s \in Terminal /\ s \in Statuses
      BY DEF Terminal, Statuses
    <2>3. row' = [row EXCEPT ![k] = r] /\ UNCHANGED lastId
      BY <1>7, <2>1 DEF CompleteWrite, UpdateRow
    <2> HIDE DEF s
    <2>4. /\ r \in Rows /\ r.claimant = row[k].claimant /\ r.status = s
          /\ r.kind = row[k].kind /\ r.scope = row[k].scope
      BY <2>1, <2>2 DEF Rows
    <2> HIDE DEF r
    <2>u. Updated(k, r)
      BY <2>1, <2>3, <2>4, UpdateSeen, Zenon
    <2>5. /\ StatusSeen' = [StatusSeen EXCEPT ![k] = s] /\ StatusSeen[k] \in Active
          /\ OwnerSeen' = OwnerSeen /\ SubjectSeen' = SubjectSeen
      BY <2>1, <2>4, <2>u DEF Updated
    <2>6. Abstract!Finish(k, s)
      BY <2>5
      DEF Abstract!Finish, Abstract!Active, Active, StatusSeen, OwnerSeen, SubjectSeen, Lifecycle,
          Claimant, Subject, Exists
    <2>7. QED
      BY <2>1, <2>2, <2>6 DEF Abstract!Next, Abstract!Terminal, Terminal
  <1>8. CASE CancelWrite(h)
    <2> DEFINE r == [row[k] EXCEPT !.status = "FAILED", !.cancelled = TRUE]
    <2>1. k \in Ids /\ Exists(k) /\ row[k].status \in Pending /\ row[k] \in Rows
      BY <1>8, <1>a, <1>b DEF CancelWrite, Promise, Addressed, Has
    <2>2. r \in Rows /\ r.status = "FAILED" /\ r.claimant = row[k].claimant
          /\ r.kind = row[k].kind /\ r.scope = row[k].scope
      BY <2>1 DEF Rows, Statuses, Terminal
    <2>3. row' = [row EXCEPT ![k] = r] /\ UNCHANGED lastId
      BY <1>8, <2>1 DEF CancelWrite, UpdateRow
    <2> HIDE DEF r
    <2>u. Updated(k, r)
      BY <2>1, <2>2, <2>3, UpdateSeen, Zenon
    <2>4. /\ StatusSeen' = [StatusSeen EXCEPT ![k] = "FAILED"] /\ StatusSeen[k] \in Pending
          /\ OwnerSeen' = OwnerSeen /\ SubjectSeen' = SubjectSeen
      BY <2>1, <2>2, <2>u DEF Updated
    <2>5. Abstract!Cancel(k)
      BY <2>4
      DEF Abstract!Cancel, Abstract!Pending, Abstract!Queued, Abstract!Active, Pending, Active,
          StatusSeen, OwnerSeen, SubjectSeen, Lifecycle, Claimant, Subject, Exists
    <2>6. QED
      BY <2>1, <2>5 DEF Abstract!Next
  <1>9. QED
    BY <1>1, <1>2, <1>3, <1>4, <1>5, <1>6, <1>7, <1>8
    DEF Statement, FindPending, ClaimSelect, ClaimNothing, ClaimLost, ClaimLoad, Require,
        ReportRead, YieldRead, CompleteRead, CancelRead

LEMMA SeenStays ==
    ASSUME UNCHANGED <<row, lastId>>
    PROVE  UNCHANGED Seen
  BY DEF Seen, StatusSeen, OwnerSeen, SubjectSeen, Lifecycle, Claimant, Subject, Exists

LEMMA StepSimulates ==
    ASSUME TypeOK, QueuedUnclaimed, Grounded, [HistoryNext]_historyVars,
           \A h \in overtaken : call'[h] = call[h]
    PROVE  [Abstract!Next]_(Abstract!vars)
  <1>1. ASSUME NEW h \in Handlers, Arrival(h) PROVE UNCHANGED <<row, lastId>>
    BY <1>1, ArrivalIsFresh DEF Arrive
  <1>2. ASSUME NEW h \in Handlers, Statement(h) PROVE Abstract!Next \/ UNCHANGED Seen
    <2>1. h \notin overtaken
      BY <1>2, StatementMovesOne
    <2>2. QED
      BY <1>2, <2>1, StatementSimulates DEF Grounded
  <1>3. Abstract!Next \/ UNCHANGED Seen
    <2>1. CASE UNCHANGED <<row, lastId>>
      BY <2>1, SeenStays
    <2>2. CASE \E h \in Handlers : Statement(h)
      BY <2>2, <1>2
    <2>3. QED
      BY <1>1, <2>1, <2>2 DEF HistoryNext, Next, historyVars, vars, Return, ServerCrash
  <1>4. QED
    BY <1>3 DEF Abstract!vars, Seen, StatusSeen, OwnerSeen, SubjectSeen

\* However many threads interleave and whenever the server stops: a step is an operation of
\* RequestLifecycle, or nothing that it sees, unless the thread that takes it acts on what
\* another has made untrue since it read it. Within one handler the guards of
\* extraction_queue.py are complete; between two nothing keeps them true.
THEOREM StepsOfLifecycleCorrect == HistorySpec => StepsOfLifecycle
  <1>1. HistoryInit => Grounded
    BY DEF HistoryInit, Init, Grounded, Promise, Idle
  <1>2. TypeOK /\ QueuedUnclaimed /\ Grounded /\ [HistoryNext]_historyVars => Grounded'
    BY GroundedStep
  <1>3. TypeOK /\ QueuedUnclaimed /\ Grounded /\ [HistoryNext]_historyVars
        => [(\A h \in overtaken : call'[h] = call[h]) => [Abstract!Next]_(Abstract!vars)]_historyVars
    BY StepSimulates
  <1>4. QED
    BY <1>1, <1>2, <1>3, HistoryIsQueue, TypeCorrect, QueuedUnclaimedCorrect, PTL
    DEF HistorySpec, StepsOfLifecycle

=============================================================================
