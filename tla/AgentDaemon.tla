----------------------------- MODULE AgentDaemon -----------------------------
(***************************************************************************)
(* The local extraction agents (cli.py: cmd_agent_daemon and the requests  *)
(* it runs) working against the server's request queue (ExtractionQueue).  *)
(*                                                                         *)
(* An agent is one single-threaded process with its own database.  It      *)
(* polls for a request and works through its sources.  A round of a source *)
(* is a pass of discovery with a batch of downloads, and then a loop that  *)
(* parses one document after the other; a progress report follows each.    *)
(* Between rounds the agent looks at its time budget, and hands the        *)
(* request back when that is spent; it posts the completion behind the     *)
(* last source.  Posts and answers can be lost, callers give up, either    *)
(* side can crash, and most posts are retried.                             *)
(***************************************************************************)
EXTENDS ExtractionQueue

CONSTANTS
    NSources,   \* number of sources in the scope of a request
    Unreadable, \* the sources whose documents cannot be parsed
    MaxWork,    \* bound on the documents of a source that await parsing
    ExhaustedAfter, \* _DISCOVERY_EXHAUSTED_AFTER, 2 in the code
    Attempts,   \* attempts of _post_with_retry, 3 in the code
    MaxFaults,  \* bound on lost exchanges and crashes
    Failing,    \* what may fail: the posts that may be lost, "agent", "server"
    Abandon     \* may a caller give up on a call the server is still executing?

\* What an agent posts, and the posts that go through _post_with_retry.
Posts == {"claim", "start", "round", "next", "yield", "complete", "fail"}
Retried == Posts \ {"claim", "fail"}

ASSUME NSourcesAssumption == NSources \in Nat \ {0} /\ NSources <= MaxDone
ASSUME AttemptsAssumption == Attempts \in Nat \ {0}
ASSUME ExhaustedAssumption == ExhaustedAfter \in Nat \ {0}
ASSUME BoundsAssumption == MaxWork \in Nat /\ MaxFaults \in Nat
ASSUME FailingAssumption == Failing \subseteq Posts \cup {"agent", "server"}
ASSUME ThreadsAssumption == Null \notin Handlers
ASSUME AbandonAssumption == Abandon \in BOOLEAN

Sources == 1 .. NSources

ASSUME UnreadableAssumption == Unreadable \subseteq Sources

VARIABLES
    agent,  \* agent -> where its loop stands
    work,   \* agent -> source -> documents it has downloaded that have no record yet
    faults  \* faults so far

local == <<agent, work, faults>>
daemonVars == <<row, lastId, call, agent, work, faults>>

\* pc: the post to make or being waited for, or what the agent does between posts;
\* at: the source it is at; done, failed: the sources that worked and that did not;
\* empty: the passes of discovery in a row that found nothing at this source;
\* fresh: this round downloaded or parsed a document, or pushed one again;
\* thread: the server thread that serves the post, Null before it is sent.
AgentStates == [pc : Posts \cup {"work", "parse", "cleanup"}, id : Ids \cup {Null},
                kind : Kinds, at : 1 .. NSources + 1, done : 0 .. NSources,
                failed : SUBSET Sources, empty : 0 .. ExhaustedAfter, fresh : BOOLEAN,
                tries : 0 .. Attempts, thread : Handlers \cup {Null}]

Polling == [pc |-> "claim", id |-> Null, kind |-> "extraction", at |-> 1, done |-> 0,
            failed |-> {}, empty |-> 0, fresh |-> FALSE, tries |-> 0, thread |-> Null]

DaemonInit ==
    /\ Init
    /\ agent = [a \in Agents |-> Polling]
    /\ work = [a \in Agents |-> [s \in Sources |-> 0]]
    /\ faults = 0

Become(a, state) == agent' = [agent EXCEPT ![a] = state]

At(a, pc) == [agent[a] EXCEPT !.pc = pc, !.tries = 0, !.thread = Null]
Found(s, empty, fresh) == [s EXCEPT !.empty = empty, !.fresh = fresh]
Past(s, after) == [s EXCEPT !.at = after, !.done = @ + 1]

-----------------------------------------------------------------------------
(* Between posts.                                                          *)

Idling(a, pc) == agent[a].pc = pc /\ agent[a].thread = Null
InScope(a) == agent[a].at <= NSources
Local(a) == UNCHANGED <<row, lastId, call, faults>>

\* A round: a pass of discovery, until enough of them in a row found nothing, a batch
\* of downloads and the report on them.  Any pass may find more: a listing is open-ended.
Round(a) ==
    /\ Idling(a, "work") /\ InScope(a)
    /\ agent[a].kind = "extraction"
    /\ \E n \in work[a][agent[a].at] .. MaxWork,
          e \in IF agent[a].empty = ExhaustedAfter
                THEN {ExhaustedAfter} ELSE {0, agent[a].empty + 1} :
          /\ work' = [work EXCEPT ![a][agent[a].at] = n]
          /\ Become(a, Found(At(a, "round"), e, n > work[a][agent[a].at]))
    /\ Local(a)

\* The loop behind it parses and reports the oldest document without a record until there
\* is none.  One whose parse fails stays without: it is the oldest the next time as well.
Parse(a) ==
    /\ Idling(a, "parse") /\ InScope(a)
    /\ work[a][agent[a].at] > 0
    /\ IF agent[a].at \in Unreadable
       THEN Become(a, At(a, "round")) /\ UNCHANGED work
       ELSE /\ work' = [work EXCEPT ![a][agent[a].at] = @ - 1]
            /\ Become(a, Found(At(a, "round"), agent[a].empty, TRUE))
    /\ Local(a)

\* Nothing is left to parse: the source is drained if discovery is over and the round
\* brought nothing; otherwise there will be another, after a look at the budget.
SourceDry(a) == agent[a].empty = ExhaustedAfter /\ ~agent[a].fresh

\* Fault: after a round the next one begins without a look at the budget.
RoundEndsUnlooked(a) ==
    /\ Idling(a, "parse") /\ InScope(a)
    /\ work[a][agent[a].at] = 0 /\ ~SourceDry(a)
    /\ \E e \in {0, ExhaustedAfter} :
          Become(a, Found(At(a, "round"), e, FALSE))
    /\ Local(a) /\ UNCHANGED work

RoundEnds(a) ==
    /\ Idling(a, "parse") /\ InScope(a)
    /\ work[a][agent[a].at] = 0 /\ ~SourceDry(a)
    /\ Become(a, Found(At(a, "work"), agent[a].empty, FALSE))
    /\ Local(a) /\ UNCHANGED work

FinishSource(a) ==
    /\ Idling(a, "parse") /\ InScope(a)
    /\ work[a][agent[a].at] = 0 /\ SourceDry(a)
    /\ Become(a, Past(Found(At(a, "next"), 0, FALSE), agent[a].at + 1))
    /\ Local(a) /\ UNCHANGED work

\* A resync or an OCR recovery pushes documents again, batch by batch.
PushBatch(a) ==
    /\ Idling(a, "work") /\ InScope(a)
    /\ agent[a].kind # "extraction" /\ ~agent[a].fresh
    /\ Become(a, Found(At(a, "round"), agent[a].empty, TRUE))
    /\ Local(a) /\ UNCHANGED work

AllPushed(a) ==
    /\ Idling(a, "work") /\ InScope(a)
    /\ agent[a].kind # "extraction"
    /\ Become(a, Past(At(a, "next"), NSources + 1))
    /\ Local(a) /\ UNCHANGED work

\* An exception inside the loop over the sources costs the request that source only.
SkipSource(a, s) ==
    [Found(At(a, "work"), 0, FALSE) EXCEPT !.failed = @ \cup {s}, !.at = s + 1]

SourceFails(a) ==
    /\ Idling(a, "work") \/ Idling(a, "parse")
    /\ InScope(a)
    /\ agent[a].kind = "extraction"
    /\ Become(a, SkipSource(a, agent[a].at))
    /\ Local(a) /\ UNCHANGED work

\* Fault: a slice that ends on its time budget is reported as a completion.
BudgetSpentCompletes(a) ==
    /\ Idling(a, "work") /\ InScope(a)
    /\ agent[a].kind = "extraction"
    /\ Become(a, At(a, "complete"))
    /\ Local(a) /\ UNCHANGED work

\* The time budget is looked at before a source and after a round of one, never in the
\* parse loop.  It is wall-clock time: anything may have used it up.
BudgetSpent(a) ==
    /\ Idling(a, "work") /\ InScope(a)
    /\ agent[a].kind = "extraction"
    /\ Become(a, At(a, "yield"))
    /\ Local(a) /\ UNCHANGED work

AllSourcesTried(a) ==
    /\ Idling(a, "work") /\ ~InScope(a)
    /\ Become(a, At(a, "complete"))
    /\ Local(a) /\ UNCHANGED work

\* An exception anywhere else ends in one post that fails the request: no source in
\* scope, a resync that breaks off, a cleanup of expired evidence that does.
RequestFails(a) ==
    /\ \/ Idling(a, "start") /\ agent[a].tries = 0
       \/ Idling(a, "work") /\ agent[a].kind # "extraction"
       \/ Idling(a, "cleanup")
    /\ Become(a, At(a, "fail"))
    /\ Local(a) /\ UNCHANGED work

CleanedUp(a) ==
    /\ Idling(a, "cleanup")
    /\ Become(a, Polling)
    /\ Local(a) /\ UNCHANGED work

LocalStep(a) ==
    \/ Round(a) \/ Parse(a) \/ RoundEnds(a) \/ FinishSource(a)
    \/ PushBatch(a) \/ AllPushed(a)
    \/ SourceFails(a) \/ BudgetSpent(a) \/ AllSourcesTried(a) \/ RequestFails(a) \/ CleanedUp(a)

-----------------------------------------------------------------------------
(* Posts and their answers.                                                *)

\* Only a request that failed on every source, with no document at all in the
\* agent's database, completes as a failure.
MayReport(a, ok) ==
    IF agent[a].pc = "fail" THEN ~ok
    ELSE ok \/ (agent[a].done = 0 /\ agent[a].failed # {})

Call(a, h) ==
    LET i == agent[a].id
        done == agent[a].done
    IN \/ agent[a].pc = "claim" /\ ArriveClaim(h, a)
       \/ agent[a].pc \in {"start", "round", "next"} /\ ArriveProgress(h, a, i, done)
       \/ agent[a].pc = "yield" /\ ArriveYield(h, a, i, done)
       \/ /\ agent[a].pc \in {"complete", "fail"}
          /\ \E ok \in BOOLEAN : MayReport(a, ok) /\ ArriveComplete(h, a, i, Null, ok)

Post(a, h) ==
    /\ agent[a].thread = Null
    /\ Call(a, h)
    /\ agent' = [agent EXCEPT ![a].thread = h]
    /\ UNCHANGED <<work, faults>>

\* Fault: a report is posted without a look at the status it comes back with.
CancelledUnseen(answer) == FALSE

\* A report answered with a status that is neither CLAIMED nor RUNNING raises
\* RequestCancelled; an answer that carries no status (403, 404) does not.
Cancelled(answer) == answer \in Statuses \ Active

\* Where a report leaves off: a source is reported on between its pass and its parses.
Resumes(a) == IF agent[a].pc = "round" /\ agent[a].kind = "extraction" THEN "parse" ELSE "work"

\* The state of a after its post is answered by call c.
Answered(a, c) ==
    CASE agent[a].pc = "claim" /\ c.reply = "ok" ->
            [Polling EXCEPT !.pc = "start", !.id = c.id, !.kind = c.kind]
      [] agent[a].pc \in {"start", "round", "next"} /\ ~Cancelled(c.reply) ->
            At(a, Resumes(a))
      [] agent[a].pc \in {"yield", "complete"} -> At(a, "cleanup")
      [] OTHER -> Polling

Receive(a) ==
    LET h == agent[a].thread IN
    /\ h # Null
    /\ call[h].pc = "replied"
    /\ Become(a, Answered(a, call[h]))
    /\ call' = [call EXCEPT ![h] = Idle]
    /\ UNCHANGED <<row, lastId, work, faults>>

-----------------------------------------------------------------------------
(* Faults.                                                                 *)

Fault == faults < MaxFaults /\ faults' = faults + 1 /\ UNCHANGED <<row, lastId, work>>

\* The state of a after an exchange failed: a retry, or the exception it raises.
Lost(a) ==
    LET s == agent[a] IN
    CASE s.pc \in Retried /\ s.tries + 1 < Attempts ->
            [s EXCEPT !.tries = @ + 1, !.thread = Null]
      [] s.pc \in {"claim", "fail"} -> Polling
      [] s.pc = "round" /\ s.kind = "extraction" /\ s.tries + 1 >= Attempts ->
            SkipSource(a, s.at)
      [] s.pc = "next" /\ s.kind = "extraction" /\ s.tries + 1 >= Attempts ->
            SkipSource(a, s.at - 1)
      [] OTHER -> At(a, "fail")

\* The post does not reach the server.
PostLost(a) ==
    /\ agent[a].thread = Null
    /\ agent[a].pc \in Failing
    /\ Fault
    /\ Become(a, Lost(a))
    /\ UNCHANGED call

Freed(h) == IF call[h].pc = "replied" THEN [call EXCEPT ![h] = Idle] ELSE call
MayGiveUp(h) == Abandon \/ call[h].pc = "replied"

\* The answer does not reach the agent, or too late: the handler carries on.
AnswerLost(a) ==
    LET h == agent[a].thread IN
    /\ h # Null
    /\ agent[a].pc \in Failing
    /\ MayGiveUp(h)
    /\ Fault
    /\ Become(a, Lost(a))
    /\ call' = Freed(h)

\* The agent's process ends; the scheduled task starts it again, polling.
AgentCrash(a) ==
    LET h == agent[a].thread IN
    /\ "agent" \in Failing
    /\ agent[a] # Polling
    /\ h # Null => MayGiveUp(h)
    /\ Fault
    /\ Become(a, Polling)
    /\ call' = IF h = Null THEN call ELSE Freed(h)

ServerDown ==
    /\ "server" \in Failing
    /\ \E h \in Handlers : call[h].pc # "idle"
    /\ faults < MaxFaults
    /\ faults' = faults + 1
    /\ agent' = [a \in Agents |-> IF agent[a].thread = Null THEN agent[a] ELSE Lost(a)]
    /\ ServerCrash
    /\ UNCHANGED work

-----------------------------------------------------------------------------
\* The administrators of the portal, from a browser.
Admin(h) ==
    /\ \/ \E kind \in Kinds, scope \in Scopes \cup {Null} : ArriveEnqueue(h, kind, scope)
       \/ \E i \in Known : ArriveCancel(h, i)
       \/ ArriveReset(h)
    /\ UNCHANGED local

\* The server executes a statement, or sends an answer no agent is waiting for.
Unattended(h) == \A a \in Agents : agent[a].thread # h
Server(h) == (Statement(h) \/ (Unattended(h) /\ Return(h))) /\ UNCHANGED local

Agent(a) == LocalStep(a) \/ Receive(a) \/ \E h \in Handlers : Post(a, h)

DaemonNext ==
    \/ \E a \in Agents : Agent(a) \/ PostLost(a) \/ AnswerLost(a) \/ AgentCrash(a)
    \/ \E h \in Handlers : Server(h) \/ Admin(h)
    \/ ServerDown

\* The server runs what it has accepted and gives every waiting post a thread in
\* the end; an agent keeps working, and its passes, downloads and parses end.  Time
\* passes: a budget that is looked at again and again is found spent.
Fairness ==
    /\ \A h \in Handlers : WF_daemonVars(Server(h))
    /\ \A a \in Agents : WF_daemonVars(LocalStep(a) \/ Receive(a))
    /\ \A a \in Agents : SF_daemonVars(\E h \in Handlers : Post(a, h))
    /\ \A a \in Agents : SF_daemonVars(BudgetSpent(a))

DaemonSafety == DaemonInit /\ [][DaemonNext]_daemonVars
DaemonSpec == DaemonSafety /\ Fairness

-----------------------------------------------------------------------------
(* Properties.                                                             *)

\* Every variable has its type; an agent holds a request exactly when it is past
\* its claim, and the thread it waits for serves its own post about that request.
OpOf(pc) == CASE pc = "claim" -> "claim"
              [] pc = "yield" -> "yield"
              [] pc \in {"complete", "fail"} -> "complete"
              [] OTHER -> "progress"

Serving(a, c) ==
    /\ c.pc # "idle" /\ c.by = a /\ c.op = OpOf(agent[a].pc)
    /\ agent[a].pc # "claim" => c.id = agent[a].id

DaemonTypeOK ==
    /\ TypeOK
    /\ agent \in [Agents -> AgentStates]
    /\ work \in [Agents -> [Sources -> 0 .. MaxWork]]
    /\ faults \in 0 .. MaxFaults
    /\ \A a \in Agents :
          /\ agent[a].id = Null <=> agent[a].pc = "claim"
          /\ agent[a].thread # Null => Serving(a, call[agent[a].thread])

\* The states in which an agent works on request i; its completion is the last of them.
Working(a, i) ==
    agent[a].id = i /\ agent[a].pc \in {"start", "work", "parse", "round", "next", "complete"}

\* Every source of request i was worked through or given up with an error by a.
SourcesTried(a, i) ==
    /\ agent[a].id = i /\ agent[a].kind = "extraction" /\ ~InScope(a)
    /\ \A s \in Sources \ agent[a].failed : work[a][s] = 0

\* A request an agent was handed is the one its id names: neither a reset nor what was
\* enqueued after it puts another kind of work behind the id an agent posts about.
IdsNameOneRequest ==
    \A a \in Agents : agent[a].id # Null /\ Exists(agent[a].id)
                          => row[agent[a].id].kind = agent[a].kind

\* An agent whose parse loop cannot end: it is at a document it cannot parse.
AtUnreadable(a) ==
    /\ agent[a].kind = "extraction" /\ agent[a].pc \in {"parse", "round"}
    /\ agent[a].at \in Unreadable /\ work[a][agent[a].at] > 0

\* No slice lasts for ever: an agent that has a request gives it up, hands it back or
\* completes it, however much there is to find, whatever is lost and whoever crashes
\* (the time budget of _run_claimed_request).  Not while it is at an unreadable document.
SlicesEnd == \A a \in Agents : agent[a].id # Null ~> agent[a].id = Null \/ AtUnreadable(a)

\* A cancelled request stops the agent it belongs to, at an unreadable document too ("so a
\* cancelled request stops within one report", _report_progress), unless it does not stay
\* cancelled.
CancelledOf(a, i) ==
    agent[a].id = i /\ Has(i, {"FAILED"}) /\ row[i].cancelled /\ row[i].claimant = a
CancelStops == \A a \in Agents, i \in Ids : CancelledOf(a, i) ~> ~CancelledOf(a, i)
=============================================================================
