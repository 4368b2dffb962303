-------------------------- MODULE AgentDaemonProofs --------------------------
(***************************************************************************)
(* The agents and the queue together, for every number of agents,          *)
(* requests, server threads, retries, abandoned calls and faults: the type *)
(* invariant of the composition; that with the agents hidden it is a       *)
(* behaviour of ExtractionQueue, whose theorems therefore hold of it; that *)
(* an id names one request; who works on a request; and what a COMPLETED   *)
(* extraction means.                                                       *)
(***************************************************************************)
EXTENDS AgentDaemonHistory, ExtractionQueueProofs

USE NSourcesAssumption, AttemptsAssumption, ExhaustedAssumption, BoundsAssumption, FailingAssumption

-----------------------------------------------------------------------------
(* What an agent does by itself.                                           *)

WorkPcs == {"start", "work", "parse", "round", "next", "complete"}

\* A state of the loop: the counters fit the position, and it has a request that
\* was handed out exactly when it is past its claim.
LoopOK(s) ==
    /\ s \in AgentStates
    /\ s.done < s.at
    /\ s.pc \in {"round", "parse"} => s.at <= NSources
    /\ s.pc = "next" => s.at >= 2
    /\ s.id = Null <=> s.pc = "claim"
    /\ s.id # Null => s.id \in Known

\* From s the agent goes on, between posts, in t: with the request it has, working
\* on it only if it was, or polling again.
Continues(s, t) ==
    /\ LoopOK(t) /\ t.thread = Null
    /\ t.pc # "claim" => t.id = s.id /\ t.kind = s.kind
    /\ t.pc \in WorkPcs => s.pc \in WorkPcs

LEMMA PollingOK == LoopOK(Polling) /\ Polling.thread = Null /\ Polling.pc = "claim"
  <1>1. 0 \in 0 .. ExhaustedAfter /\ 0 \in 0 .. Attempts /\ 0 \in 0 .. NSources /\ 1 \in 1 .. NSources + 1
    OBVIOUS
  <1>2. QED
    BY <1>1 DEF LoopOK, Polling, AgentStates, Posts, Kinds, Sources

LEMMA PollingContinues == ASSUME NEW s PROVE Continues(s, Polling)
  BY PollingOK DEF Continues, WorkPcs

\* The numbers an agent may hold, as plain memberships.
LEMMA Numbers ==
    /\ 0 \in 0 .. Attempts /\ 1 \in 1 .. NSources + 1 /\ 0 \in 0 .. NSources
    /\ 0 \in 0 .. ExhaustedAfter /\ ExhaustedAfter \in 0 .. ExhaustedAfter
    /\ \A s \in Sources : s \in 1 .. NSources + 1 /\ s + 1 \in 1 .. NSources + 1
    /\ \A n \in 1 .. NSources + 1 : n <= NSources => n \in Sources
  BY DEF Sources

\* State t is at pc, between posts, with what s holds.
Stands(s, t, pc) ==
    /\ t \in AgentStates
    /\ t.pc = pc /\ t.thread = Null
    /\ t.id = s.id /\ t.kind = s.kind /\ t.at = s.at /\ t.done = s.done /\ t.failed = s.failed

LEMMA AtStands ==
    ASSUME NEW a \in Agents, agent[a] \in AgentStates, NEW pc \in Posts \cup {"work", "parse", "cleanup"}
    PROVE  Stands(agent[a], At(a, pc), pc)
  BY Numbers DEF At, AgentStates, Stands

LEMMA FoundStands ==
    ASSUME NEW a \in Agents, agent[a] \in AgentStates, NEW pc \in Posts \cup {"work", "parse", "cleanup"},
           NEW empty \in 0 .. ExhaustedAfter, NEW fresh \in BOOLEAN
    PROVE  Stands(agent[a], Found(At(a, pc), empty, fresh), pc)
  <1> DEFINE s == At(a, pc)
  <1>1. Stands(agent[a], s, pc)
    BY AtStands
  <1> HIDE DEF s
  <1>2. Stands(agent[a], Found(s, empty, fresh), pc)
    BY <1>1 DEF Found, AgentStates, Stands
  <1>3. QED
    BY <1>2 DEF s

\* The agent moves on to another post, or back to its work.
LEMMA StandsContinues ==
    ASSUME NEW s, NEW t, NEW pc, LoopOK(s), s.pc # "claim", Stands(s, t, pc),
           pc \in {"work", "parse", "round", "yield", "complete", "fail", "cleanup"},
           pc \in {"round", "parse"} => s.at <= NSources,
           pc \in WorkPcs => s.pc \in WorkPcs
    PROVE  Continues(s, t)
  <1>1. LoopOK(t)
    BY DEF LoopOK, Stands
  <1>2. QED
    BY <1>1 DEF Continues, Stands

LEMMA AtContinues ==
    ASSUME NEW a \in Agents, LoopOK(agent[a]), agent[a].pc # "claim",
           NEW pc \in {"work", "parse", "yield", "complete", "fail", "cleanup"},
           pc = "parse" => agent[a].at <= NSources,
           pc \in WorkPcs => agent[a].pc \in WorkPcs
    PROVE  Continues(agent[a], At(a, pc))
  <1>1. pc \in Posts \cup {"work", "parse", "cleanup"}
    BY DEF Posts
  <1>2. Stands(agent[a], At(a, pc), pc)
    BY <1>1, AtStands DEF LoopOK
  <1>3. QED
    BY <1>2, StandsContinues

\* It goes on with its source, in a round or after one.
LEMMA FoundContinues ==
    ASSUME NEW a \in Agents, LoopOK(agent[a]), agent[a].pc \in {"work", "parse"}, InScope(a),
           NEW pc \in {"work", "round"}, NEW empty \in 0 .. ExhaustedAfter, NEW fresh \in BOOLEAN
    PROVE  Continues(agent[a], Found(At(a, pc), empty, fresh))
  <1>1. pc \in Posts \cup {"work", "parse", "cleanup"}
    BY DEF Posts
  <1>2. Stands(agent[a], Found(At(a, pc), empty, fresh), pc)
    BY <1>1, FoundStands DEF LoopOK
  <1>3. QED
    BY <1>2, StandsContinues DEF InScope, WorkPcs

\* What giving a source up makes of an agent.
LEMMA SkipStands ==
    ASSUME NEW a \in Agents, LoopOK(agent[a]), NEW k \in Sources
    PROVE  LET t == SkipSource(a, k) IN
           /\ t \in AgentStates /\ t.pc = "work" /\ t.thread = Null
           /\ t.id = agent[a].id /\ t.kind = agent[a].kind /\ t.done = agent[a].done
           /\ t.at = k + 1 /\ t.failed = agent[a].failed \cup {k}
  <1> DEFINE s == Found(At(a, "work"), 0, FALSE)
             f == agent[a].failed \cup {k}
             t == [s EXCEPT !.failed = f, !.at = k + 1]
  <1>1. Stands(agent[a], s, "work")
    BY FoundStands, Numbers DEF LoopOK
  <1>2. SkipSource(a, k) = t
    BY <1>1 DEF SkipSource, AgentStates, Stands
  <1> HIDE DEF s
  <1>3. f \in SUBSET Sources
    BY DEF AgentStates, LoopOK
  <1>4. k + 1 \in 1 .. NSources + 1
    BY Numbers
  <1>5. f = agent[a].failed \cup {k}
    OBVIOUS
  <1> HIDE DEF f
  <1>6. /\ t \in AgentStates /\ t.pc = "work" /\ t.thread = Null
        /\ t.id = agent[a].id /\ t.kind = agent[a].kind /\ t.done = agent[a].done
        /\ t.at = k + 1 /\ t.failed = f
    BY <1>1, <1>3, <1>4 DEF AgentStates, Stands
  <1> HIDE DEF t
  <1>7. QED
    BY <1>2, <1>5, <1>6

LEMMA SkipContinues ==
    ASSUME NEW a \in Agents, LoopOK(agent[a]), agent[a].pc \in WorkPcs,
           NEW k \in Sources, k + 1 >= agent[a].at
    PROVE  Continues(agent[a], SkipSource(a, k))
  <1> DEFINE t == SkipSource(a, k)
  <1>1. /\ t \in AgentStates /\ t.pc = "work" /\ t.thread = Null
        /\ t.id = agent[a].id /\ t.kind = agent[a].kind /\ t.done = agent[a].done
        /\ t.at = k + 1
    BY SkipStands
  <1> HIDE DEF t
  <1>2. LoopOK(t)
    BY <1>1 DEF LoopOK, WorkPcs, AgentStates, Sources
  <1>3. Continues(agent[a], t)
    BY <1>1, <1>2 DEF Continues
  <1>4. QED
    BY <1>3 DEF t

\* It is done with a source, or with all of them.
LEMMA NextContinues ==
    ASSUME NEW a \in Agents, LoopOK(agent[a]), agent[a].pc \in WorkPcs, InScope(a),
           NEW s, Stands(agent[a], s, "next"), NEW after \in {agent[a].at + 1, NSources + 1}
    PROVE  /\ Continues(agent[a], Past(s, after))
           /\ Past(s, after).pc = "next" /\ Past(s, after).at = after
           /\ Past(s, after).failed = agent[a].failed /\ Past(s, after).kind = agent[a].kind
  <1> DEFINE d == agent[a].done + 1
             t == Past(s, after)
  <1>1. t = [s EXCEPT !.at = after, !.done = d]
    BY DEF AgentStates, Stands, Past
  <1>2. agent[a].at \in 1 .. NSources + 1 /\ agent[a].done \in 0 .. NSources
    BY DEF LoopOK, AgentStates
  <1>3. after \in 1 .. NSources + 1 /\ d \in 0 .. NSources /\ d = agent[a].done + 1
    BY <1>2 DEF LoopOK, InScope
  <1> HIDE DEF d, t
  <1>4. /\ t \in AgentStates /\ t.pc = "next" /\ t.thread = Null
        /\ t.id = agent[a].id /\ t.kind = agent[a].kind /\ t.failed = agent[a].failed
        /\ t.at = after /\ t.done = agent[a].done + 1
    BY <1>1, <1>3 DEF AgentStates, Stands
  <1>5. LoopOK(t)
    BY <1>2, <1>4 DEF LoopOK, InScope, WorkPcs
  <1>6. Continues(agent[a], t)
    BY <1>4, <1>5 DEF Continues
  <1>7. QED
    BY <1>4, <1>6 DEF t

LEMMA NextSourceStands ==
    ASSUME NEW a \in Agents, LoopOK(agent[a])
    PROVE  Stands(agent[a], At(a, "next"), "next") /\ Stands(agent[a], Found(At(a, "next"), 0, FALSE), "next")
  BY AtStands, FoundStands, Numbers DEF LoopOK, Posts

LEMMA LocalContinues ==
    ASSUME NEW a \in Agents, LoopOK(agent[a]), LocalStep(a)
    PROVE  /\ \E t : Become(a, t) /\ Continues(agent[a], t)
           /\ agent[a].thread = Null
           /\ UNCHANGED <<row, lastId, call, faults>>
  <1>a. agent[a].empty \in 0 .. ExhaustedAfter /\ agent[a].empty + 1 \in Nat
    BY DEF LoopOK, AgentStates
  <1>1. CASE Round(a)
    <2>1. PICK n \in work[a][agent[a].at] .. MaxWork,
               e \in IF agent[a].empty = ExhaustedAfter THEN {ExhaustedAfter} ELSE {0, agent[a].empty + 1} :
             Become(a, Found(At(a, "round"), e, n > work[a][agent[a].at]))
      BY <1>1 DEF Round
    <2>2. e \in 0 .. ExhaustedAfter
      BY <1>a
    <2>3. (n > work[a][agent[a].at]) \in BOOLEAN
      OBVIOUS
    <2>4. Continues(agent[a], Found(At(a, "round"), e, n > work[a][agent[a].at]))
      BY <1>1, <2>2, <2>3, FoundContinues DEF Round, Idling
    <2>5. QED
      BY <1>1, <2>1, <2>4 DEF Round, Idling, Local
  <1>2. CASE Parse(a)
    <2>1. \/ Become(a, At(a, "round")) \/ Become(a, Found(At(a, "round"), agent[a].empty, TRUE))
      BY <1>2 DEF Parse
    <2>2. Stands(agent[a], At(a, "round"), "round")
      BY AtStands DEF LoopOK, Posts
    <2>3. Continues(agent[a], At(a, "round"))
      BY <1>2, <2>2, StandsContinues DEF Parse, Idling, InScope, WorkPcs
    <2>4. Continues(agent[a], Found(At(a, "round"), agent[a].empty, TRUE))
      BY <1>2, <1>a, FoundContinues DEF Parse, Idling
    <2>5. QED
      BY <1>2, <2>1, <2>3, <2>4 DEF Parse, Idling, Local
  <1>3. CASE RoundEnds(a)
    BY <1>3, <1>a, FoundContinues DEF RoundEnds, Idling, Local
  <1>4. CASE PushBatch(a)
    BY <1>4, <1>a, FoundContinues DEF PushBatch, Idling, Local
  <1>5. CASE FinishSource(a)
    <2> DEFINE t == Past(Found(At(a, "next"), 0, FALSE), agent[a].at + 1)
    <2>1. Stands(agent[a], Found(At(a, "next"), 0, FALSE), "next")
      BY NextSourceStands
    <2>2. Continues(agent[a], t)
      BY <1>5, <2>1, NextContinues DEF FinishSource, Idling, WorkPcs
    <2>3. QED
      BY <1>5, <2>2 DEF FinishSource, Idling, Local
  <1>6. CASE AllPushed(a)
    BY <1>6, NextSourceStands, NextContinues DEF AllPushed, Idling, Local, WorkPcs
  <1>7. CASE SourceFails(a)
    <2>1. agent[a].at \in Sources /\ agent[a].at + 1 >= agent[a].at
      BY <1>7 DEF SourceFails, InScope, LoopOK, AgentStates, Sources
    <2>2. Continues(agent[a], SkipSource(a, agent[a].at))
      BY <1>7, <2>1, SkipContinues DEF SourceFails, Idling, WorkPcs
    <2>3. QED
      BY <1>7, <2>2 DEF SourceFails, Idling, Local
  <1>8. CASE BudgetSpent(a) \/ AllSourcesTried(a) \/ RequestFails(a)
    BY <1>8, AtContinues DEF BudgetSpent, AllSourcesTried, RequestFails, Idling, Local, WorkPcs
  <1>9. CASE CleanedUp(a)
    BY <1>9, PollingContinues DEF CleanedUp, Idling, Local
  <1>10. QED
    BY <1>1, <1>2, <1>3, <1>4, <1>5, <1>6, <1>7, <1>8, <1>9 DEF LocalStep

\* A failed exchange is tried again, or costs the source or the request.
LEMMA LostContinues ==
    ASSUME NEW a \in Agents, LoopOK(agent[a])
    PROVE  Continues(agent[a], Lost(a))
  <1> DEFINE s == agent[a]
  <1>1. CASE s.pc \in Retried /\ s.tries + 1 < Attempts
    <2> DEFINE n == s.tries + 1
               t == [s EXCEPT !.tries = n, !.thread = Null]
    <2>a. ~(s.tries + 1 >= Attempts) /\ s.pc \notin {"claim", "fail"}
      BY <1>1 DEF LoopOK, AgentStates, Retried
    <2>1. Lost(a) = t
      BY <1>1, <2>a, Zenon DEF Lost
    <2>2. n \in 0 .. Attempts
      BY <1>1 DEF LoopOK, AgentStates
    <2> HIDE DEF n
    <2>3. /\ t \in AgentStates /\ t.pc = s.pc /\ t.thread = Null /\ t.id = s.id /\ t.kind = s.kind
          /\ t.at = s.at /\ t.done = s.done
      BY <2>2 DEF LoopOK, AgentStates
    <2> HIDE DEF t
    <2>4. Continues(s, t)
      BY <2>3 DEF LoopOK, Continues
    <2>5. QED
      BY <2>1, <2>4
  <1>2. CASE s.pc \in {"claim", "fail"}
    <2>1. Lost(a) = Polling
      BY <1>2 DEF Lost, Retried
    <2>2. QED
      BY <2>1, PollingContinues
  <1>3. CASE s.pc = "round" /\ s.kind = "extraction" /\ ~(s.tries + 1 < Attempts)
    <2>1. Lost(a) = SkipSource(a, s.at) /\ s.at \in Sources /\ s.at + 1 >= s.at
      BY <1>3 DEF Lost, LoopOK, AgentStates, Sources
    <2>2. QED
      BY <1>3, <2>1, SkipContinues DEF WorkPcs
  <1>4. CASE s.pc = "next" /\ s.kind = "extraction" /\ ~(s.tries + 1 < Attempts)
    <2>1. /\ Lost(a) = SkipSource(a, s.at - 1) /\ s.at - 1 \in Sources
          /\ (s.at - 1) + 1 >= s.at
      BY <1>4 DEF Lost, LoopOK, AgentStates, Sources
    <2>2. QED
      BY <1>4, <2>1, SkipContinues DEF WorkPcs
  <1>5. CASE Lost(a) = At(a, "fail") /\ s.pc # "claim"
    BY <1>5, AtContinues DEF WorkPcs
  <1>6. QED
    BY <1>1, <1>2, <1>3, <1>4, <1>5 DEF Lost, LoopOK, AgentStates

\* An answer either hands out a request to an agent that polls or is one to go on from.
Granted(a, i) ==
    /\ agent[a].pc = "claim" /\ agent[a].thread # Null
    /\ call[agent[a].thread].id = i
    /\ \/ call[agent[a].thread].pc = "load"
       \/ call[agent[a].thread].pc = "replied" /\ call[agent[a].thread].reply = "ok"

Takes(a, t) ==
    /\ LoopOK(t) /\ t.thread = Null /\ t.pc = "start"
    /\ Granted(a, t.id)
    /\ call[agent[a].thread].pc = "replied" /\ t.kind = call[agent[a].thread].kind

LEMMA AnsweredContinues ==
    ASSUME NEW a \in Agents, LoopOK(agent[a]), agent[a].thread # Null,
           call \in [Handlers -> Calls], call[agent[a].thread].pc = "replied",
           agent[a].pc = "claim" /\ call[agent[a].thread].reply = "ok"
               => call[agent[a].thread].id \in Known
    PROVE  LET t == Answered(a, call[agent[a].thread]) IN Continues(agent[a], t) \/ Takes(a, t)
  <1> DEFINE c == call[agent[a].thread]
             t == Answered(a, c)
  <1>1. CASE agent[a].pc = "claim" /\ c.reply = "ok"
    <2> DEFINE u == [Polling EXCEPT !.pc = "start", !.id = c.id, !.kind = c.kind]
    <2>1. t = u
      BY <1>1 DEF Answered
    <2>2. c.kind \in Kinds /\ c.id \in Ids /\ c.id \in Known /\ c.id # Null
      BY <1>1, NullAssumption DEF Calls, Known, LoopOK, AgentStates
    <2>3. Polling \in AgentStates /\ Polling.at = 1 /\ Polling.done = 0 /\ Polling.thread = Null
      BY PollingOK DEF LoopOK, Polling
    <2>4. /\ u \in AgentStates /\ u.pc = "start" /\ u.thread = Null /\ u.id = c.id
          /\ u.at = 1 /\ u.done = 0 /\ u.kind = c.kind
      BY <2>2, <2>3 DEF AgentStates, Posts
    <2> HIDE DEF u
    <2>5. LoopOK(u)
      BY <2>2, <2>4 DEF LoopOK
    <2>6. Takes(a, u)
      BY <1>1, <2>4, <2>5 DEF Takes, Granted
    <2>7. QED
      BY <2>1, <2>6
  <1>2. CASE agent[a].pc \in {"start", "round", "next"} /\ t = At(a, Resumes(a))
    <2>1. Resumes(a) \in {"work", "parse"} /\ (Resumes(a) = "parse" => agent[a].at <= NSources)
      BY DEF Resumes, LoopOK
    <2>2. QED
      BY <1>2, <2>1, AtContinues DEF WorkPcs
  <1>3. CASE agent[a].pc \in {"yield", "complete"}
    <2>1. t = At(a, "cleanup")
      BY <1>3 DEF Answered
    <2>2. QED
      BY <1>3, <2>1, AtContinues DEF WorkPcs
  <1>4. CASE t = Polling
    BY <1>4, PollingContinues
  <1>5. QED
    BY <1>1, <1>2, <1>3, <1>4 DEF Answered
-----------------------------------------------------------------------------
(* What an agent posts, and what the server makes of it.                   *)

\* The steps of an agent that end an exchange or take place between two: it goes on
\* in t, and the thread it waited for, if any, is idle or, given up, still busy.
Ends(a, t) ==
    /\ Become(a, t)
    /\ Continues(agent[a], t) \/ Takes(a, t)
    /\ \/ agent[a].thread = Null /\ UNCHANGED call
       \/ agent[a].thread # Null /\ call' = [call EXCEPT ![agent[a].thread] = Idle]
       \/ Abandon /\ UNCHANGED call
    /\ UNCHANGED <<row, lastId>>

\* The call that arrives is the one the agent's position asks for.
Posted(a, h, c) ==
    /\ Fresh(c) /\ c.by = a /\ c.op = OpOf(agent[a].pc)
    /\ agent[a].pc # "claim" => c.id = agent[a].id
    /\ agent[a].pc = "fail" => ~c.ok
    /\ Arrive(h, c)
    /\ agent[a].thread = Null
    /\ agent' = [agent EXCEPT ![a].thread = h]

LEMMA PostIsFresh ==
    ASSUME NEW a \in Agents, NEW h \in Handlers, LoopOK(agent[a]), Post(a, h)
    PROVE  \E c : Posted(a, h, c)
  <1> USE NullAssumption
  <1> DEFINE i == agent[a].id
             d == agent[a].done
  <1>1. d \in Done /\ (agent[a].pc # "claim" => i \in Known)
    BY MaxDoneAssumption DEF LoopOK, AgentStates, Done
  <1>2. agent[a].thread = Null /\ agent' = [agent EXCEPT ![a].thread = h]
    BY DEF Post
  <1> HIDE DEF i, d
  <1>3. CASE agent[a].pc = "claim" /\ ArriveClaim(h, a)
    <2> DEFINE c == [Idle EXCEPT !.op = "claim", !.pc = "select", !.by = a]
    <2>1. Fresh(c) /\ c.by = a /\ c.op = "claim"
      BY DEF Fresh, Idle, Calls, Ops, Kinds, NoAnswer
    <2>2. Arrive(h, c)
      BY <1>3 DEF ArriveClaim
    <2> HIDE DEF c
    <2>3. QED
      BY <1>2, <1>3, <2>1, <2>2 DEF Posted, OpOf
  <1>4. CASE agent[a].pc \in {"start", "round", "next"} /\ ArriveProgress(h, a, i, d)
    <2> DEFINE c == [Idle EXCEPT !.op = "progress", !.pc = "require", !.by = a, !.id = i, !.done = d]
    <2>1. Fresh(c) /\ c.by = a /\ c.op = "progress" /\ c.id = i
      BY <1>1, <1>4 DEF Fresh, Idle, Calls, Ops, Kinds, NoAnswer, Known
    <2>2. Arrive(h, c)
      BY <1>4 DEF ArriveProgress
    <2> HIDE DEF c
    <2>3. QED
      BY <1>2, <1>4, <2>1, <2>2 DEF Posted, OpOf, i
  <1>5. CASE agent[a].pc = "yield" /\ ArriveYield(h, a, i, d)
    <2> DEFINE c == [Idle EXCEPT !.op = "yield", !.pc = "require", !.by = a, !.id = i, !.done = d]
    <2>1. Fresh(c) /\ c.by = a /\ c.op = "yield" /\ c.id = i
      BY <1>1, <1>5 DEF Fresh, Idle, Calls, Ops, Kinds, NoAnswer, Known
    <2>2. Arrive(h, c)
      BY <1>5 DEF ArriveYield
    <2> HIDE DEF c
    <2>3. QED
      BY <1>2, <1>5, <2>1, <2>2 DEF Posted, OpOf, i
  <1>6. CASE agent[a].pc \in {"complete", "fail"} /\ \E ok \in BOOLEAN : MayReport(a, ok) /\ ArriveComplete(h, a, i, Null, ok)
    <2>0. PICK ok \in BOOLEAN : MayReport(a, ok) /\ ArriveComplete(h, a, i, Null, ok)
      BY <1>6
    <2> DEFINE c == [Idle EXCEPT !.op = "complete", !.pc = "require", !.by = a, !.id = i,
                       !.done = Null, !.ok = ok]
    <2>1. Fresh(c) /\ c.by = a /\ c.op = "complete" /\ c.id = i /\ c.ok = ok
      BY <1>1, <1>6 DEF Fresh, Idle, Calls, Ops, Kinds, NoAnswer, Known
    <2>2. Arrive(h, c)
      BY <2>0 DEF ArriveComplete
    <2> HIDE DEF c
    <2>3. agent[a].pc = "fail" => ~ok
      BY <2>0 DEF MayReport
    <2>4. QED
      BY <1>2, <1>6, <2>1, <2>2, <2>3 DEF Posted, OpOf, i
  <1>7. QED
    BY <1>3, <1>4, <1>5, <1>6 DEF Post, Call, i, d

LEMMA AdminIsFresh ==
    ASSUME NEW h \in Handlers, Admin(h)
    PROVE  \E c : Fresh(c) /\ c.op \in {"enqueue", "cancel", "reset"} /\ c.by = Null /\ Arrive(h, c)
  <1> USE NullAssumption DEF Fresh, Idle, Calls, Ops, Kinds, Known, NoAnswer
  <1>1. CASE \E kind \in Kinds, scope \in Scopes \cup {Null} : ArriveEnqueue(h, kind, scope)
    <2>1. PICK kind \in Kinds, scope \in Scopes \cup {Null} : ArriveEnqueue(h, kind, scope)
      BY <1>1
    <2> DEFINE c == [Idle EXCEPT !.op = "enqueue", !.kind = kind, !.scope = scope,
                       !.pc = IF kind = "extraction" THEN "insert" ELSE "find"]
    <2>2. Fresh(c) /\ c.op = "enqueue" /\ c.by = Null
      OBVIOUS
    <2>3. Arrive(h, c)
      BY <2>1 DEF ArriveEnqueue
    <2> HIDE DEF c
    <2>4. QED
      BY <2>2, <2>3
  <1>2. CASE ArriveReset(h)
    <2> DEFINE c == [Idle EXCEPT !.op = "reset", !.pc = "delete", !.kind = "resync_all"]
    <2>1. Fresh(c) /\ c.op = "reset" /\ c.by = Null
      OBVIOUS
    <2>2. Arrive(h, c)
      BY <1>2 DEF ArriveReset
    <2> HIDE DEF c
    <2>3. QED
      BY <2>1, <2>2
  <1>3. CASE \E i \in Known : ArriveCancel(h, i)
    <2>1. PICK i \in Known : ArriveCancel(h, i)
      BY <1>3
    <2> DEFINE c == [Idle EXCEPT !.op = "cancel", !.pc = "cancel_read", !.id = i]
    <2>2. Fresh(c) /\ c.op = "cancel" /\ c.by = Null
      OBVIOUS
    <2>3. Arrive(h, c)
      BY <2>1 DEF ArriveCancel
    <2> HIDE DEF c
    <2>4. QED
      BY <2>2, <2>3
  <1>4. QED
    BY <1>1, <1>2, <1>3 DEF Admin

\* A statement moves its own call on: towards the claim or the yield it is part of.
ClaimPcs == {"select", "update", "load"}
YieldPcs == {"yield_read", "yield_write"}

Moves(h, c) ==
    /\ call' = [call EXCEPT ![h] = c]
    /\ c.op = call[h].op /\ c.by = call[h].by
    /\ c.pc # "idle" /\ call[h].pc \notin {"idle", "replied"}
    /\ call[h].pc # "select" => c.id = call[h].id
    /\ call[h].pc \in ClaimPcs => c.pc \in ClaimPcs \cup {"replied"}
    /\ call[h].pc \in {"select", "update"} /\ c.pc = "replied" => c.reply # "ok"
    /\ c.pc \in ClaimPcs => call[h].pc \in ClaimPcs
    /\ c.pc = "load" => ClaimUpdate(h)
    /\ c.pc \in YieldPcs =>
          \/ call[h].pc \in YieldPcs
          \/ /\ call[h].pc = "require" /\ call[h].op = "yield" /\ UNCHANGED row
             /\ Exists(call[h].id) /\ row[call[h].id].claimant = call[h].by

LEMMA StatementMoves ==
    ASSUME TypeOK, NEW h \in Handlers, Statement(h)
    PROVE  \E c : Moves(h, c)
  <1> DEFINE Turns(c) == /\ call' = [call EXCEPT ![h] = c] /\ c.op = call[h].op
                         /\ c.by = call[h].by /\ c.id = call[h].id
             c0(pc) == [call[h] EXCEPT !.pc = pc]
             c1(r) == [call[h] EXCEPT !.pc = "replied", !.reply = r]
             c2(pc) == [call[h] EXCEPT !.seen = row[call[h].id].status, !.pc = pc]
  <1>a. call \in [Handlers -> Calls] /\ call[h] \in Calls
    BY DEF TypeOK
  <1>1. ASSUME NEW pc, Goto(h, pc) PROVE \E c : Turns(c) /\ c.pc = pc
    <2>1. Turns(c0(pc)) /\ c0(pc).pc = pc
      BY <1>1, <1>a DEF Goto, Calls
    <2>2. QED
      BY <2>1, Zenon
  <1>2. ASSUME NEW r, Reply(h, r) PROVE \E c : Turns(c) /\ c.pc = "replied" /\ c.reply = r
    <2>1. Turns(c1(r)) /\ c1(r).pc = "replied" /\ c1(r).reply = r
      BY <1>2, <1>a DEF Reply, Calls
    <2>2. QED
      BY <2>1, Zenon
  <1>3. ASSUME NEW pc, Look(h, pc) PROVE \E c : Turns(c) /\ c.pc = pc
    <2>1. Turns(c2(pc)) /\ c2(pc).pc = pc
      BY <1>3, <1>a DEF Look, Calls
    <2>2. QED
      BY <2>1, Zenon
  <1> HIDE DEF c0, c1, c2
  <1> USE DEF ClaimPcs, YieldPcs, Moves
  <1>4. CASE FindPending(h)
    BY <1>4, <1>1, <1>2 DEF FindPending
  <1>5. CASE Insert(h) \/ ResetDelete(h)
    BY <1>5, <1>1, <1>2 DEF Insert, ResetDelete
  <1>6. CASE ClaimSelect(h)
    <2>1. PICK i \in Ids : call' = [call EXCEPT ![h].id = i, ![h].pc = "update"]
      BY <1>6 DEF ClaimSelect
    <2> DEFINE c == [call[h] EXCEPT !.id = i, !.pc = "update"]
    <2>2. Moves(h, c)
      BY <1>6, <2>1, <1>a DEF ClaimSelect, Calls
    <2>3. QED
      BY <2>2, Zenon
  <1>7. CASE ClaimNothing(h) \/ ClaimLost(h)
    BY <1>7, <1>2 DEF ClaimNothing, ClaimLost
  <1>8. CASE ClaimUpdate(h)
    BY <1>8, <1>1 DEF ClaimUpdate
  <1>9. CASE ClaimLoad(h)
    <2>1. CASE Exists(call[h].id)
      <3> DEFINE c == [call[h] EXCEPT !.pc = "replied", !.reply = "ok",
                                      !.kind = row[call[h].id].kind]
      <3>1. Moves(h, c)
        BY <1>9, <2>1, <1>a DEF ClaimLoad, Calls
      <3>2. QED
        BY <3>1, Zenon
    <2>2. CASE ~Exists(call[h].id)
      BY <1>9, <2>2, <1>2 DEF ClaimLoad
    <2>3. QED
      BY <2>1, <2>2
  <1>10. CASE Require(h)
    <2>1. FirstStatement(call[h]) \in {"yield_read", "complete_read", "report_read"}
          /\ (FirstStatement(call[h]) = "yield_read" => call[h].op = "yield")
      BY DEF FirstStatement
    <2>2. \/ Reply(h, "404") \/ Reply(h, "403")
          \/ /\ Goto(h, FirstStatement(call[h])) /\ Exists(call[h].id)
             /\ row[call[h].id].claimant = call[h].by
      BY <1>10 DEF Require
    <2>3. call[h].pc = "require" /\ UNCHANGED row
      BY <1>10 DEF Require
    <2>4. QED
      BY <2>1, <2>2, <2>3, <1>1, <1>2
  <1>11. CASE ReportRead(h)
    BY <1>11, <1>1, <1>2, <1>3 DEF ReportRead, AfterReport
  <1>12. CASE ReportWrite(h)
    BY <1>12, <1>1, <1>2 DEF ReportWrite, AfterReport
  <1>13. CASE YieldRead(h) \/ YieldWrite(h)
    BY <1>13, <1>1, <1>2, <1>3 DEF YieldRead, YieldWrite
  <1>14. CASE CompleteRead(h) \/ CompleteWrite(h)
    BY <1>14, <1>1, <1>2 DEF CompleteRead, CompleteWrite
  <1>15. CASE CancelRead(h) \/ CancelWrite(h)
    BY <1>15, <1>1, <1>2 DEF CancelRead, CancelWrite
  <1>16. QED
    BY <1>4, <1>5, <1>6, <1>7, <1>8, <1>9, <1>10, <1>11, <1>12, <1>13, <1>14, <1>15 DEF Statement
-----------------------------------------------------------------------------
(* The type invariant.                                                     *)

\* What the statements a call goes through say of it; a claim that was answered with
\* a request names one that exists or existed.
Shape(c) ==
    /\ c.pc \in ClaimPcs => c.op = "claim"
    /\ c.pc \in YieldPcs => c.op = "yield"
    /\ c.op = "yield" /\ c.pc # "idle" => c.by \in Agents
    /\ c.op = "claim" /\ c.pc # "idle" => c.pc \in ClaimPcs \cup {"replied"}
    /\ c.op = "claim" /\ c.pc = "replied" /\ c.reply = "ok" => c.id \in Known

AgentsOK ==
    \A a \in Agents :
        /\ LoopOK(agent[a])
        /\ agent[a].thread # Null => Serving(a, call[agent[a].thread])

Base ==
    /\ TypeOK /\ AgentsOK
    /\ agent \in [Agents -> AgentStates]
    /\ \A h \in Handlers : Shape(call[h])

\* The steps of the system, seen from the server.
Crashed == /\ ServerCrash
           /\ agent' = [a \in Agents |-> IF agent[a].thread = Null THEN agent[a] ELSE Lost(a)]

DaemonStep ==
    \/ \E a \in Agents, t \in AgentStates : Ends(a, t)
    \/ \E a \in Agents, h \in Handlers : \E c : Posted(a, h, c)
    \/ \E h \in Handlers : Statement(h) /\ UNCHANGED agent
    \/ \E h \in Handlers : Return(h) /\ Unattended(h) /\ UNCHANGED agent
    \/ \E h \in Handlers : \E c : /\ Fresh(c) /\ c.by = Null /\ Arrive(h, c)
                                 /\ c.op \in {"enqueue", "cancel", "reset"} /\ UNCHANGED agent
    \/ Crashed
    \/ UNCHANGED <<row, lastId, call, agent>>

LEMMA DaemonNextSteps ==
    ASSUME Base, [DaemonNext]_daemonVars
    PROVE  DaemonStep
  <1> USE NullAssumption
  <1>a. ASSUME NEW a \in Agents
        PROVE  /\ LoopOK(agent[a])
               /\ agent[a].thread # Null => agent[a].thread \in Handlers
               /\ agent[a].thread # Null => Serving(a, call[agent[a].thread])
    BY <1>a DEF Base, AgentsOK, AgentStates
  <1>b. ASSUME NEW a \in Agents, NEW t, Ends(a, t) PROVE DaemonStep
    BY <1>b DEF DaemonStep, Ends, Continues, Takes, LoopOK
  <1>1. ASSUME NEW a \in Agents, LocalStep(a) PROVE DaemonStep
    BY <1>1, <1>a, <1>b, LocalContinues DEF Ends
  <1>2. ASSUME NEW a \in Agents, Receive(a) PROVE DaemonStep
    <2> DEFINE h == agent[a].thread
               t == Answered(a, call[h])
    <2>1. h # Null /\ call[h].pc = "replied" /\ Become(a, t) /\ call' = [call EXCEPT ![h] = Idle]
          /\ UNCHANGED <<row, lastId>>
      BY <1>2 DEF Receive
    <2>2. agent[a].pc = "claim" /\ call[h].reply = "ok" => call[h].id \in Known
      BY <2>1, <1>a DEF Base, Shape, Serving, OpOf
    <2>3. Continues(agent[a], t) \/ Takes(a, t)
      BY <2>1, <2>2, <1>a, AnsweredContinues DEF Base, TypeOK
    <2>4. QED
      BY <2>1, <2>3, <1>b DEF Ends
  <1>3. ASSUME NEW a \in Agents, NEW h \in Handlers, Post(a, h) PROVE DaemonStep
    BY <1>3, <1>a, PostIsFresh DEF DaemonStep
  <1>4. ASSUME NEW a \in Agents, PostLost(a) PROVE DaemonStep
    BY <1>4, <1>a, <1>b, LostContinues DEF PostLost, Fault, Ends
  <1>5. ASSUME NEW a \in Agents, AnswerLost(a) PROVE DaemonStep
    BY <1>5, <1>a, <1>b, LostContinues DEF AnswerLost, Fault, Ends, Freed, MayGiveUp
  <1>6. ASSUME NEW a \in Agents, AgentCrash(a) PROVE DaemonStep
    BY <1>6, <1>a, <1>b, PollingContinues DEF AgentCrash, Fault, Ends, Freed, MayGiveUp
  <1>7. ASSUME NEW h \in Handlers, Server(h) PROVE DaemonStep
    BY <1>7 DEF Server, DaemonStep, local
  <1>8. ASSUME NEW h \in Handlers, Admin(h) PROVE DaemonStep
    BY <1>8, AdminIsFresh DEF Admin, DaemonStep, local
  <1>9. CASE ServerDown
    BY <1>9 DEF ServerDown, DaemonStep, Crashed
  <1>10. CASE UNCHANGED daemonVars
    BY <1>10 DEF daemonVars, DaemonStep
  <1>11. QED
    BY <1>1, <1>2, <1>3, <1>4, <1>5, <1>6, <1>7, <1>8, <1>9, <1>10 DEF DaemonNext, Agent

\* Each of them is a step of the request queue.
LEMMA DaemonStepQueues == ASSUME Base, [DaemonNext]_daemonVars PROVE [Next]_vars
  <1> USE NullAssumption
  <1>a. ASSUME NEW a \in Agents
        PROVE  /\ LoopOK(agent[a])
               /\ agent[a].thread # Null => agent[a].thread \in Handlers
    BY <1>a DEF Base, AgentsOK, AgentStates
  <1>b. ASSUME UNCHANGED <<row, lastId, call>> PROVE [Next]_vars
    BY <1>b DEF vars
  <1>c. ASSUME NEW h \in Handlers, call[h].pc = "replied", call' = [call EXCEPT ![h] = Idle],
               UNCHANGED <<row, lastId>>
        PROVE  [Next]_vars
    BY <1>c DEF Next, Return
  <1>d. ASSUME NEW h \in Handlers, call' = Freed(h), UNCHANGED <<row, lastId>> PROVE [Next]_vars
    BY <1>d, <1>b, <1>c DEF Freed
  <1>1. ASSUME NEW a \in Agents, LocalStep(a) PROVE [Next]_vars
    BY <1>1, <1>a, <1>b, LocalContinues
  <1>2. ASSUME NEW a \in Agents, Receive(a) PROVE [Next]_vars
    BY <1>2, <1>a, <1>c DEF Receive
  <1>3. ASSUME NEW a \in Agents, NEW h \in Handlers, Post(a, h) PROVE [Next]_vars
    <2> DEFINE i == agent[a].id
               d == agent[a].done
    <2>1. d \in Done /\ (agent[a].pc # "claim" => i \in Known)
      BY <1>a, MaxDoneAssumption DEF LoopOK, AgentStates, Done
    <2>2. Null \in Done \cup {Null}
      OBVIOUS
    <2> HIDE DEF i, d
    <2>3. Arrival(h)
      BY <1>3, <2>1, <2>2 DEF Post, Call, Arrival, i, d
    <2>4. QED
      BY <2>3 DEF Next
  <1>4. ASSUME NEW a \in Agents, PostLost(a) PROVE [Next]_vars
    BY <1>4, <1>b DEF PostLost, Fault
  <1>5. ASSUME NEW a \in Agents, AnswerLost(a) PROVE [Next]_vars
    BY <1>5, <1>a, <1>d DEF AnswerLost, Fault
  <1>6. ASSUME NEW a \in Agents, AgentCrash(a) PROVE [Next]_vars
    BY <1>6, <1>a, <1>b, <1>d DEF AgentCrash, Fault
  <1>7. ASSUME NEW h \in Handlers, Server(h) PROVE [Next]_vars
    BY <1>7 DEF Server, Next
  <1>8. ASSUME NEW h \in Handlers, Admin(h) PROVE [Next]_vars
    BY <1>8 DEF Admin, Next, Arrival
  <1>9. CASE ServerDown
    BY <1>9 DEF ServerDown, Next
  <1>10. CASE UNCHANGED daemonVars
    BY <1>10 DEF daemonVars, vars
  <1>11. QED
    BY <1>1, <1>2, <1>3, <1>4, <1>5, <1>6, <1>7, <1>8, <1>9, <1>10 DEF DaemonNext, Agent

LEMMA BaseInit == DaemonInit => Base
  <1> SUFFICES ASSUME DaemonInit PROVE Base
    OBVIOUS
  <1>1. TypeOK
    BY TypeInit DEF DaemonInit
  <1>2. agent = [a \in Agents |-> Polling]
    BY DEF DaemonInit
  <1>3. LoopOK(Polling) /\ Polling.thread = Null /\ Polling \in AgentStates
    BY PollingOK DEF LoopOK
  <1>4. \A h \in Handlers : Shape(call[h])
    BY DEF DaemonInit, Init, Shape, Idle, ClaimPcs, YieldPcs
  <1>5. QED
    BY <1>1, <1>2, <1>3, <1>4 DEF Base, AgentsOK

\* Ids once handed out stay so.
LEMMA KnownGrows == ASSUME TypeOK, [Next]_vars PROVE \A i \in Known : i \in Known'
  <1>1. lastId' = lastId \/ lastId' = lastId + 1
    <2>1. ASSUME NEW h \in Handlers, Arrival(h) PROVE UNCHANGED lastId
      BY <2>1, ArrivalIsFresh DEF Arrive
    <2>2. QED
      BY <2>1
      DEF Next, vars, Return, ServerCrash, Statement, FindPending, Insert, ResetDelete, ClaimSelect,
          ClaimNothing, ClaimUpdate, ClaimLost, ClaimLoad, Require, ReportRead, ReportWrite,
          YieldRead, YieldWrite, CompleteRead, CompleteWrite, CancelRead, CancelWrite
  <1>2. QED
    BY <1>1, IdsAssumption DEF Known, TypeOK

LEMMA BaseStep == ASSUME Base, [DaemonNext]_daemonVars PROVE Base'
  <1> USE NullAssumption, ThreadsAssumption
  <1>a. /\ TypeOK /\ call \in [Handlers -> Calls] /\ agent \in [Agents -> AgentStates]
        /\ DaemonStep /\ [Next]_vars
    BY DaemonNextSteps, DaemonStepQueues DEF Base, TypeOK
  <1>b. TypeOK' /\ call' \in [Handlers -> Calls] /\ \A i \in Known : i \in Known'
    BY <1>a, TypeStep, KnownGrows DEF TypeOK
  <1>c. ASSUME NEW s, LoopOK(s) PROVE LoopOK(s)' /\ s \in AgentStates
    BY <1>b, <1>c DEF LoopOK
  <1>d. ASSUME NEW a \in Agents
        PROVE  /\ agent[a] \in AgentStates
               /\ LoopOK(agent[a])
               /\ agent[a].thread # Null => agent[a].thread \in Handlers
               /\ agent[a].thread # Null => Serving(a, call[agent[a].thread])
    BY <1>d DEF Base, AgentsOK, AgentStates
  <1>e. ASSUME NEW h \in Handlers PROVE Shape(call[h]) /\ call[h] \in Calls
    BY <1>a, <1>e DEF Base
  <1> DEFINE Kept(k) == Shape(call[k])'
             Fine(b) == LoopOK(agent[b])' /\ (agent[b].thread # Null => Serving(b, call[agent[b].thread]))'
  <1>g. ASSUME agent' \in [Agents -> AgentStates], \A b \in Agents : Fine(b),
               \A k \in Handlers : Kept(k)
        PROVE  Base'
    BY <1>b, <1>g DEF Base, AgentsOK
  <1>h. ASSUME NEW k \in Handlers, call'[k] = call[k] \/ call'[k] = Idle PROVE Kept(k)
    BY <1>h, <1>b, <1>e DEF Shape, Idle, ClaimPcs, YieldPcs
  <1>i. ASSUME NEW k \in Handlers, NEW c, Fresh(c), call'[k] = c PROVE Kept(k)
    BY <1>i DEF Shape, Fresh, ClaimPcs, YieldPcs
  <1>j. ASSUME NEW b \in Agents, agent'[b] = agent[b],
               agent[b].thread # Null => call'[agent[b].thread] = call[agent[b].thread]
        PROVE  Fine(b)
    BY <1>j, <1>b, <1>d DEF LoopOK, Serving
  <1>k. ASSUME NEW b \in Agents, NEW t, agent'[b] = t, LoopOK(t), t.thread = Null PROVE Fine(b)
    BY <1>k, <1>c
  <1> HIDE DEF Kept
  <1>1. ASSUME NEW a \in Agents, NEW t \in AgentStates, Ends(a, t) PROVE Base'
    <2>1. agent' = [agent EXCEPT ![a] = t] /\ LoopOK(t) /\ t.thread = Null
      BY <1>1 DEF Ends, Become, Continues, Takes
    <2>2. \A k \in Handlers : call'[k] = call[k] \/ (k = agent[a].thread /\ call'[k] = Idle)
      BY <1>1, <1>a DEF Ends
    <2>3. ASSUME NEW b \in Agents, b # a, agent[b].thread # Null
          PROVE  agent[b].thread # agent[a].thread
      BY <2>3, <1>d DEF Serving
    <2>4. ASSUME NEW b \in Agents PROVE Fine(b)
      <3>1. CASE b = a
        BY <3>1, <2>1, <1>a, <1>k
      <3>2. CASE b # a
        BY <3>2, <2>1, <2>2, <2>3, <1>a, <1>d, <1>j
      <3>3. QED
        BY <3>1, <3>2
    <2> HIDE DEF Fine
    <2>5. QED
      BY <2>1, <2>2, <2>4, <1>a, <1>g, <1>h
  <1>2. ASSUME NEW a \in Agents, NEW h \in Handlers, NEW c, Posted(a, h, c) PROVE Base'
    <2> DEFINE t == [agent[a] EXCEPT !.thread = h]
    <2>1. /\ agent' = [agent EXCEPT ![a] = t] /\ call' = [call EXCEPT ![h] = c] /\ Fresh(c)
          /\ call[h].pc = "idle"
      BY <1>2, <1>a DEF Posted, Arrive
    <2>2. t \in AgentStates /\ LoopOK(t) /\ t.thread = h /\ t.pc = agent[a].pc /\ t.id = agent[a].id
      BY <1>d DEF LoopOK, AgentStates
    <2> HIDE DEF t
    <2>3. c.pc # "idle" /\ c.by = a /\ c.op = OpOf(t.pc) /\ (t.pc # "claim" => c.id = t.id)
      BY <1>2, <2>2 DEF Posted, Fresh
    <2>4. ASSUME NEW b \in Agents PROVE Fine(b)
      <3>1. CASE b = a
        <4>1. agent'[b] = t /\ call'[h] = c
          BY <3>1, <2>1, <1>a
        <4>2. LoopOK(agent[b])'
          BY <4>1, <2>2, <1>c
        <4>3. QED
          BY <3>1, <4>1, <4>2, <2>2, <2>3 DEF Serving
      <3>2. CASE b # a
        <4>1. agent[b].thread # h
          BY <2>1, <1>d DEF Serving
        <4>2. QED
          BY <3>2, <4>1, <2>1, <1>a, <1>d, <1>j
      <3>3. QED
        BY <3>1, <3>2
    <2> HIDE DEF Fine
    <2>5. agent' \in [Agents -> AgentStates]
      BY <2>1, <2>2, <1>a
    <2>6. QED
      BY <2>1, <2>4, <2>5, <1>a, <1>g, <1>h, <1>i
  <1>3. ASSUME NEW h \in Handlers, Statement(h), UNCHANGED agent PROVE Base'
    <2>1. PICK c : Moves(h, c)
      BY <1>3, <1>a, StatementMoves
    <2>2. /\ call' = [call EXCEPT ![h] = c] /\ call'[h] = c
          /\ \A k \in Handlers : k # h => call'[k] = call[k]
      BY <2>1, <1>a DEF Moves
    <2>3. Shape(call[h])'
      <3>1. c.pc = "replied" /\ c.op = "claim" /\ c.reply = "ok" => c.id \in Known
        <4>1. call[h].pc \in Addressed => call[h].id \in Known
          BY <1>a DEF TypeOK, Guarded
        <4>2. QED
          BY <4>1, <2>1, <1>e DEF Moves, Shape, ClaimPcs, Addressed
      <3>2. QED
        BY <3>1, <2>1, <2>2, <1>b, <1>e DEF Moves, Shape, ClaimPcs, YieldPcs
    <2>4. ASSUME NEW b \in Agents PROVE Fine(b)
      <3>1. CASE agent[b].thread = h
        <4>1. Serving(b, call[h]) /\ LoopOK(agent[b])
          BY <3>1, <1>d, NullAssumption
        <4>2. Serving(b, c)
          BY <4>1, <2>1, <1>e DEF Serving, Moves, Shape, ClaimPcs, OpOf
        <4>3. LoopOK(agent[b])'
          BY <4>1, <1>3, <1>b DEF LoopOK
        <4>4. QED
          BY <3>1, <4>2, <4>3, <2>2, <1>3 DEF Serving
      <3>2. CASE agent[b].thread # h
        BY <3>2, <2>2, <1>3, <1>d, <1>j
      <3>3. QED
        BY <3>1, <3>2
    <2> HIDE DEF Fine
    <2>5. QED
      BY <2>2, <2>3, <2>4, <1>3, <1>a, <1>g, <1>h DEF Kept
  <1>4. ASSUME NEW h \in Handlers, Return(h), Unattended(h), UNCHANGED agent PROVE Base'
    <2>1. call' = [call EXCEPT ![h] = Idle] /\ \A b \in Agents : agent[b].thread # h
      BY <1>4 DEF Return, Unattended
    <2>2. ASSUME NEW b \in Agents PROVE Fine(b)
      BY <2>1, <1>4, <1>a, <1>d, <1>j
    <2> HIDE DEF Fine
    <2>3. QED
      BY <2>1, <2>2, <1>4, <1>a, <1>g, <1>h
  <1>5. ASSUME NEW h \in Handlers, NEW c, Fresh(c), c.by = Null, Arrive(h, c),
               c.op \in {"enqueue", "cancel", "reset"}, UNCHANGED agent
        PROVE  Base'
    <2>1. call' = [call EXCEPT ![h] = c] /\ call[h].pc = "idle"
      BY <1>5 DEF Arrive
    <2>2. ASSUME NEW b \in Agents PROVE Fine(b)
      <3>1. agent[b].thread # h
        BY <2>1, <1>d DEF Serving
      <3>2. QED
        BY <2>1, <3>1, <1>5, <1>a, <1>d, <1>j
    <2> HIDE DEF Fine
    <2>3. QED
      BY <2>1, <2>2, <1>5, <1>a, <1>g, <1>h, <1>i
  <1>6. CASE Crashed
    <2>1. ASSUME NEW b \in Agents
          PROVE  /\ agent'[b] \in AgentStates
                 /\ \/ agent'[b] = agent[b] /\ agent[b].thread = Null
                    \/ LoopOK(agent'[b]) /\ agent'[b].thread = Null
      BY <1>6, <1>d, LostContinues DEF Crashed, Continues, LoopOK
    <2>2. ASSUME NEW b \in Agents PROVE Fine(b)
      BY <2>1, <1>j, <1>k
    <2>3. agent' \in [Agents -> AgentStates]
      BY <2>1, <1>6 DEF Crashed
    <2> HIDE DEF Fine
    <2>4. QED
      BY <2>2, <2>3, <1>6, <1>g, <1>h DEF Crashed, ServerCrash
  <1>7. CASE UNCHANGED <<row, lastId, call, agent>>
    BY <1>7, <1>a, <1>g, <1>h, <1>j
  <1>8. QED
    BY <1>a, <1>1, <1>2, <1>3, <1>4, <1>5, <1>6, <1>7 DEF DaemonStep

\* The documents an agent has to go through and the faults stay within their bounds.
Counters == work \in [Agents -> [Sources -> 0 .. MaxWork]] /\ faults \in 0 .. MaxFaults

LEMMA CountersStep == ASSUME Base, Counters, [DaemonNext]_daemonVars PROVE Counters'
  <1> USE DEF Counters
  <1>a. ASSUME NEW a \in Agents, InScope(a), NEW n \in 0 .. MaxWork,
               work' = [work EXCEPT ![a][agent[a].at] = n], faults' = faults
        PROVE  Counters'
    <2> DEFINE k == agent[a].at
               v == [work[a] EXCEPT ![k] = n]
    <2>1. k \in Sources
      BY <1>a DEF InScope, Base, AgentStates, Sources
    <2>2. v \in [Sources -> 0 .. MaxWork] /\ work' = [work EXCEPT ![a] = v]
      BY <1>a
    <2> HIDE DEF v
    <2>3. QED
      BY <1>a, <2>2
  <1>b. ASSUME NEW a \in Agents, InScope(a) PROVE work[a][agent[a].at] \in 0 .. MaxWork
    BY <1>b DEF InScope, Base, AgentStates, Sources
  <1>1. ASSUME NEW a \in Agents, Round(a) PROVE Counters'
    <2>1. PICK n \in work[a][agent[a].at] .. MaxWork : work' = [work EXCEPT ![a][agent[a].at] = n]
      BY <1>1 DEF Round
    <2>2. n \in 0 .. MaxWork
      BY <1>1, <1>b DEF Round
    <2>3. QED
      BY <1>1, <1>a, <2>1, <2>2 DEF Round, Local
  <1>2. ASSUME NEW a \in Agents, Parse(a) PROVE Counters'
    <2> DEFINE n == work[a][agent[a].at] - 1
    <2>1. n \in 0 .. MaxWork
      BY <1>2, <1>b DEF Parse
    <2>2. UNCHANGED work \/ work' = [work EXCEPT ![a][agent[a].at] = n]
      BY <1>2 DEF Parse
    <2> HIDE DEF n
    <2>3. QED
      BY <1>2, <1>a, <2>1, <2>2 DEF Parse, Local
  <1>3. CASE UNCHANGED work /\ faults' \in {faults, faults + 1} /\ (faults' = faults \/ faults < MaxFaults)
    BY <1>3
  <1>4. QED
    BY <1>1, <1>2, <1>3
    DEF DaemonNext, daemonVars, Agent, LocalStep, RoundEnds, PushBatch, AllPushed, FinishSource,
        SourceFails, BudgetSpent, AllSourcesTried, RequestFails, CleanedUp, Local, Receive, Post,
        PostLost, AnswerLost, AgentCrash, Fault, Server, Admin, local, ServerDown

LEMMA BaseInvariant == DaemonSafety => [](Base /\ Counters)
  <1>1. DaemonInit => Base /\ Counters
    <2>1. ASSUME DaemonInit PROVE Counters
      BY <2>1 DEF DaemonInit, Counters
    <2>2. QED
      BY <2>1, BaseInit
  <1>2. Base /\ Counters /\ [DaemonNext]_daemonVars => (Base /\ Counters)'
    BY BaseStep, CountersStep
  <1>3. QED
    BY <1>1, <1>2, PTL DEF DaemonSafety

\* Whatever is lost, retried, given up or crashes: an agent has a request exactly when
\* it is past its claim (_run_claimed_request), and the thread it waits for, if any,
\* serves its own post about that request.
THEOREM DaemonTypeCorrect == DaemonSafety => []DaemonTypeOK
  <1>1. Base /\ Counters => DaemonTypeOK
    BY DEF Base, Counters, DaemonTypeOK, AgentsOK, LoopOK
  <1>2. QED
    BY <1>1, BaseInvariant, PTL

\* The agents only ever use the queue as its callers may: with agents that retry, time
\* out and crash the queue behaves as one of ExtractionQueue's, and what is proved
\* of the queue alone holds.
THEOREM DaemonQueues == DaemonSafety => Spec
  <1>1. DaemonInit => Init
    BY DEF DaemonInit
  <1>2. Base /\ [DaemonNext]_daemonVars => [Next]_vars
    BY DaemonStepQueues
  <1>3. QED
    BY <1>1, <1>2, BaseInvariant, PTL DEF DaemonSafety, Spec

-----------------------------------------------------------------------------
(***************************************************************************)
(* Two agents never work on one request (ExclusiveWork), for every number  *)
(* of agents, requests, server threads, retries and faults, except on one  *)
(* that a yield put back after its caller had given it up (strayed).       *)
(*                                                                         *)
(* The claim in the table alone does not show it: an agent works on what   *)
(* it was once given.  The invariant follows a request from the UPDATE     *)
(* that hands it out, through the answer on its way, to the agent's last   *)
(* post (Holder), and shows that the claim stays with the holder as long:  *)
(* the only statement that clears it belongs to a yield; if somebody waits *)
(* for that, it is the holder, who is then not working, and if nobody does *)
(* the request has strayed.                                                *)
(*                                                                         *)
(* The second part (HonestCompletion) follows what the holder has done:    *)
(* every source it is past was worked through or given up (Tried), and a   *)
(* completion under way, with or without its caller, is of a request some  *)
(* agent got behind the last source of (Truthful).                         *)
(***************************************************************************)

USE NullAssumption, ThreadsAssumption

\* The request i is on its way to agent a, or a works on it.
Holder(a, i) == Working(a, i) \/ Granted(a, i)

\* A yield past its check that is waited for belongs to the claimant.
YieldHeld == \A h \in Handlers :
    call[h].pc \in YieldPcs /\ ~Unattended(h) /\ Exists(call[h].id) =>
        row[call[h].id].claimant = call[h].by \/ call[h].id \in strayed

Held == \A a \in Agents, i \in Ids \ strayed :
    Holder(a, i) => i \in Known /\ (Exists(i) => row[i].claimant = a)

OneHolder == \A a, b \in Agents, i \in Ids \ strayed : Holder(a, i) /\ Holder(b, i) => a = b

Exclusion == YieldHeld /\ Held /\ OneHolder

Strays == strayed' = strayed \cup {i \in Ids : \E h \in Handlers : StrayYield(h, i)}

LEMMA StraySteps ==
    /\ StrayInit => DaemonInit
    /\ [StrayNext]_strayVars => [DaemonNext]_daemonVars /\ (Strays \/ UNCHANGED <<daemonVars, strayed>>)
  BY DEF StrayInit, StrayNext, strayVars, Strays, daemonVars

\* A step that touches neither table nor claims makes nobody a holder.
LEMMA HoldersKept ==
    ASSUME Base, Exclusion, UNCHANGED <<row, lastId>>, strayed \subseteq strayed',
           \A a \in Agents, i \in Ids : Holder(a, i)' => Holder(a, i)
    PROVE  Held' /\ OneHolder'
  BY DEF Exclusion, Held, OneHolder, Known, Exists

LEMMA ExclusionInit == DaemonInit => Exclusion
  BY DEF DaemonInit, Init, Exclusion, YieldHeld, Held, OneHolder, Holder, Working,
         Granted, Polling, Idle, YieldPcs

\* What an agent does between posts, or with an answer.
LEMMA EndsExclusion ==
    ASSUME Base, Exclusion, strayed \subseteq strayed',
           NEW a \in Agents, NEW t \in AgentStates, Ends(a, t)
    PROVE  Exclusion'
  <1>1. /\ agent' = [agent EXCEPT ![a] = t] /\ t.thread = Null
        /\ Continues(agent[a], t) \/ Takes(a, t)
        /\ UNCHANGED <<row, lastId>>
        /\ agent \in [Agents -> AgentStates] /\ call \in [Handlers -> Calls]
    BY DEF Ends, Become, Continues, Takes, Base, TypeOK
  <1>2. \A k \in Handlers : call'[k] = call[k] \/ call'[k] = Idle
    BY <1>1 DEF Ends
  <1>3. \A k \in Handlers : Unattended(k) => Unattended(k)'
    BY <1>1 DEF Unattended
  <1>4. YieldHeld'
    BY <1>1, <1>2, <1>3 DEF Exclusion, YieldHeld, Idle, YieldPcs, Exists
  <1>5. ASSUME NEW b \in Agents, NEW i \in Ids, Holder(b, i)' PROVE Holder(b, i)
    <2>1. CASE b = a
      <3>1. agent'[b] = t
        BY <2>1, <1>1
      <3>2. Working(b, i)'
        BY <3>1, <1>1, <1>5 DEF Holder, Granted
      <3>3. t.id = i /\ t.pc \in WorkPcs
        BY <3>1, <3>2 DEF Working, WorkPcs
      <3>4. QED
        BY <2>1, <3>3, <1>1 DEF Continues, Takes, Holder, Working, WorkPcs
    <2>2. CASE b # a
      <3>1. agent'[b] = agent[b]
        BY <2>2, <1>1
      <3>2. agent[b].thread # Null => call'[agent[b].thread] \in {call[agent[b].thread], Idle}
        BY <1>1, <1>2 DEF AgentStates
      <3>3. QED
        BY <3>1, <3>2, <1>5 DEF Holder, Working, Granted, Idle
    <2>3. QED
      BY <2>1, <2>2
  <1>6. QED
    BY <1>1, <1>4, <1>5, HoldersKept DEF Exclusion

\* A call arrives, from an agent that posts (then it waits for it) or a browser.
LEMMA ArrivalExclusion ==
    ASSUME Base, Exclusion, strayed \subseteq strayed',
           NEW h \in Handlers, NEW c, Fresh(c), Arrive(h, c),
           \/ c.by = Null /\ UNCHANGED agent
           \/ /\ c.by \in Agents /\ agent[c.by].thread = Null
              /\ agent' = [agent EXCEPT ![c.by].thread = h]
    PROVE  Exclusion'
  <1>1. /\ call' = [call EXCEPT ![h] = c] /\ call[h].pc = "idle" /\ UNCHANGED <<row, lastId>>
        /\ agent \in [Agents -> AgentStates] /\ call \in [Handlers -> Calls]
    BY DEF Arrive, Base, TypeOK
  <1>2. ASSUME NEW b \in Agents
        PROVE  /\ agent'[b].pc = agent[b].pc /\ agent'[b].id = agent[b].id
               /\ \/ agent'[b].thread = agent[b].thread
                  \/ b = c.by /\ agent[b].thread = Null /\ agent'[b].thread = h
    BY <1>1, <1>2 DEF AgentStates
  <1>3. ASSUME NEW b \in Agents PROVE agent[b].thread # h
    BY <1>1, <1>3 DEF Base, AgentsOK, Serving
  <1>4. YieldHeld'
    <2>1. ASSUME NEW k \in Handlers, k # h, Unattended(k) PROVE Unattended(k)'
      BY <1>2, <2>1 DEF Unattended
    <2>2. QED
      BY <1>1, <2>1 DEF Exclusion, YieldHeld, YieldPcs, Exists, Fresh
  <1>5. ASSUME NEW b \in Agents, NEW i \in Ids, Holder(b, i)' PROVE Holder(b, i)
    <2>1. Working(b, i)' => Working(b, i)
      BY <1>2 DEF Working
    <2>2. ASSUME Granted(b, i)' PROVE Granted(b, i)
      <3>1. agent'[b].thread # h
        BY <1>1, <2>2 DEF Granted, Fresh
      <3>2. agent'[b].thread = agent[b].thread /\ agent[b].thread \in Handlers \cup {Null}
        BY <3>1, <1>1, <1>2 DEF AgentStates
      <3>3. QED
        BY <3>1, <3>2, <2>2, <1>1, <1>2 DEF Granted
    <2>3. QED
      BY <2>1, <2>2, <1>5 DEF Holder
  <1>6. QED
    BY <1>1, <1>4, <1>5, HoldersKept DEF Exclusion

\* An answer nobody waits for is sent.
LEMMA ReturnExclusion ==
    ASSUME Base, Exclusion, strayed \subseteq strayed',
           NEW h \in Handlers, Return(h), Unattended(h), UNCHANGED agent
    PROVE  Exclusion'
  <1>1. /\ call' = [call EXCEPT ![h] = Idle] /\ UNCHANGED <<row, lastId>>
        /\ agent \in [Agents -> AgentStates] /\ call \in [Handlers -> Calls]
        /\ \A b \in Agents : agent[b].thread # h
    BY DEF Return, Unattended, Base, TypeOK
  <1>2. YieldHeld'
    BY <1>1 DEF Exclusion, YieldHeld, Idle, YieldPcs, Exists, Unattended
  <1>3. ASSUME NEW b \in Agents, NEW i \in Ids, Holder(b, i)' PROVE Holder(b, i)
    BY <1>1, <1>3 DEF Holder, Working, Granted, AgentStates
  <1>4. QED
    BY <1>1, <1>2, <1>3, HoldersKept DEF Exclusion

\* The server restarts: no call is left, and nobody waits.
LEMMA CrashExclusion == ASSUME Base, Exclusion, strayed \subseteq strayed', Crashed PROVE Exclusion'
  <1>1. call' = [h \in Handlers |-> Idle] /\ UNCHANGED <<row, lastId>>
    BY DEF Crashed, ServerCrash
  <1>2. ASSUME NEW b \in Agents
        PROVE  agent'[b].thread = Null /\ (agent'[b] = agent[b] \/ Continues(agent[b], agent'[b]))
    BY LostContinues DEF Crashed, Base, AgentsOK, Continues
  <1>3. YieldHeld'
    BY <1>1 DEF YieldHeld, Idle, YieldPcs
  <1>4. ASSUME NEW b \in Agents, NEW i \in Ids, Holder(b, i)' PROVE Holder(b, i)
    BY <1>2, <1>4 DEF Holder, Working, Granted, Continues, WorkPcs
  <1>5. QED
    BY <1>1, <1>3, <1>4, HoldersKept DEF Exclusion

\* A statement makes one agent a holder: the UPDATE of its claim.
LEMMA StatementHolders ==
    ASSUME Base, NEW h \in Handlers, Statement(h), UNCHANGED agent,
           NEW a \in Agents, NEW i \in Ids, Holder(a, i)'
    PROVE  Holder(a, i) \/ (ClaimUpdate(h) /\ call[h].id = i /\ call[h].by = a)
  <1>1. PICK c : Moves(h, c)
    BY StatementMoves DEF Base
  <1>2. /\ call' = [call EXCEPT ![h] = c] /\ call \in [Handlers -> Calls]
        /\ agent[a].thread \in Handlers \cup {Null}
        /\ Shape(call[h])
    BY <1>1 DEF Moves, Base, TypeOK, AgentStates
  <1>3. Working(a, i)' => Working(a, i)
    BY DEF Working
  <1>4. ASSUME Granted(a, i)', agent[a].thread # h PROVE Granted(a, i)
    BY <1>2, <1>4 DEF Granted
  <1>5. ASSUME Granted(a, i)', agent[a].thread = h
        PROVE  Granted(a, i) \/ (ClaimUpdate(h) /\ call[h].id = i /\ call[h].by = a)
    <2>1. /\ agent[a].pc = "claim" /\ c.id = i
          /\ c.pc = "load" \/ (c.pc = "replied" /\ c.reply = "ok")
      BY <1>2, <1>5 DEF Granted
    <2>2. call[h].by = a /\ call[h].op = "claim"
      BY <1>5, <2>1 DEF Base, AgentsOK, Serving, OpOf
    <2>3. call[h].pc \in ClaimPcs
      BY <1>1, <1>2, <2>2 DEF Shape, Moves
    <2>4. CASE c.pc = "load"
      BY <1>1, <2>1, <2>2, <2>4 DEF Moves, ClaimUpdate
    <2>5. CASE c.pc = "replied" /\ c.reply = "ok"
      BY <1>1, <1>5, <2>1, <2>3, <2>5 DEF Moves, ClaimPcs, Granted
    <2>6. QED
      BY <2>1, <2>4, <2>5
  <1>6. QED
    BY <1>3, <1>4, <1>5 DEF Holder

LEMMA StatementExclusion ==
    ASSUME Base, QueuedUnclaimed, Exclusion, Strays, NEW h \in Handlers, Statement(h), UNCHANGED agent
    PROVE  Exclusion'
  <1>1. PICK c : Moves(h, c)
    BY StatementMoves DEF Base
  <1>2. /\ call' = [call EXCEPT ![h] = c] /\ call \in [Handlers -> Calls] /\ call[h] \in Calls
        /\ c.by = call[h].by /\ c.op = call[h].op /\ c.pc # "idle" /\ call[h].pc # "idle"
        /\ TypeOK /\ [Next]_vars /\ Shape(call[h])
    BY <1>1 DEF Moves, Base, TypeOK, Next
  <1>3. strayed \subseteq strayed' /\ \A k \in Handlers : Unattended(k)' <=> Unattended(k)
    BY DEF Strays, Unattended
  <1>4. ASSUME NEW k \in Handlers, call[k].pc \in YieldPcs, ~Unattended(k)
        PROVE  /\ call[k].by \in Agents /\ call[k].id \in Known
               /\ Exists(call[k].id) => row[call[k].id].claimant = call[k].by \/ call[k].id \in strayed
               /\ agent[call[k].by].thread = k
               /\ agent[call[k].by].pc = "yield"
    <2>1. /\ call[k].id \in Known
          /\ Exists(call[k].id) => row[call[k].id].claimant = call[k].by \/ call[k].id \in strayed
      BY <1>4 DEF Exclusion, YieldHeld, YieldPcs, Base, TypeOK, Guarded, Addressed
    <2>2. PICK b \in Agents : agent[b].thread = k
      BY <1>4 DEF Unattended
    <2>3. Serving(b, call[k]) /\ Shape(call[k])
      BY <2>2 DEF Base, AgentsOK
    <2>4. call[k].by = b /\ call[k].op = "yield" /\ call[k].op = OpOf(agent[b].pc)
      BY <1>4, <2>3 DEF Serving, Shape
    <2>5. QED
      BY <2>1, <2>2, <2>4 DEF OpOf
  \* The claim of i is cleared by nobody but an agent that yields i, or i strays.
  <1>5. ASSUME NEW i \in Ids, NEW a \in Agents, i \in Known, i \notin strayed',
               Exists(i) => row[i].claimant = a
        PROVE  \/ Exists(i)' => row'[i].claimant = a
               \/ /\ YieldWrite(h) /\ call[h].id = i /\ call[h].by = a
                  /\ agent[a].pc = "yield" /\ agent[a].thread = h
    <2>1. Effect(i)
      BY <1>2, StepEffect
    <2>2. CASE Untouched(i) \/ Created(i) \/ Deleted(i) \/ Recorded(i)
      BY <2>2, <1>5 DEF Untouched, Created, Deleted, Recorded, Exists
    <2>3. CASE HandedOut(i)
      BY <2>3, <1>5 DEF HandedOut, QueuedUnclaimed, Has
    <2>4. CASE TakenBack(i)
      <3>1. PICK k \in Handlers : YieldWrite(k) /\ call[k].id = i
        BY <2>4 DEF TakenBack
      <3>2. k = h
        <4>1. call'[k].pc = "replied" /\ call[k].pc = "yield_write"
          BY <3>1, <1>2 DEF YieldWrite, Reply, Calls
        <4>2. QED
          BY <4>1, <1>2
      <3>3. call[h].pc \in YieldPcs
        BY <3>1, <3>2 DEF YieldWrite, YieldPcs
      <3>4. ~Unattended(h) /\ i \notin strayed
        BY <3>1, <3>2, <1>3, <1>5 DEF Strays, StrayYield
      <3>5. CASE Exists(i)
        <4>1. call[h].by = a
          BY <3>1, <3>2, <3>3, <3>4, <3>5, <1>4, <1>5
        <4>2. QED
          BY <3>1, <3>2, <3>3, <3>4, <4>1, <1>4
      <3>6. CASE ~Exists(i)
        <4>1. UNCHANGED row
          BY <3>1, <3>6 DEF YieldWrite, UpdateRow
        <4>2. QED
          BY <3>6, <4>1 DEF Exists
      <3>7. QED
        BY <3>5, <3>6
    <2>5. QED
      BY <2>1, <2>2, <2>3, <2>4 DEF Effect
  <1>6. YieldHeld'
    <2> SUFFICES ASSUME NEW k \in Handlers, call'[k].pc \in YieldPcs, ~Unattended(k),
                        row'[call'[k].id] # Null, call'[k].id \notin strayed'
                 PROVE  row'[call'[k].id].claimant = call'[k].by
      BY <1>3 DEF YieldHeld, Exists
    <2>1. CASE call[k].pc \in YieldPcs
      <3>1. call'[k].by = call[k].by /\ call'[k].id = call[k].id
        BY <2>1, <1>1, <1>2 DEF Moves, YieldPcs
      <3>2. ~(YieldWrite(h) /\ k = h)
        <4>1. YieldWrite(h) => call'[h].pc = "replied"
          BY <1>2 DEF YieldWrite, Reply, Calls
        <4>2. QED
          BY <4>1 DEF YieldPcs
      <3>3. call[k].id \in Ids /\ ~(YieldWrite(h) /\ agent[call[k].by].thread = h)
        BY <2>1, <3>2, <1>4 DEF Known
      <3>4. QED
        BY <2>1, <3>1, <3>3, <1>3, <1>4, <1>5 DEF Exists
    <2>2. CASE call[k].pc \notin YieldPcs
      <3>1. k = h
        BY <2>2, <1>2
      <3>2. /\ call[h].pc = "require" /\ call[h].op = "yield" /\ UNCHANGED row /\ c.id = call[h].id
            /\ row[call[h].id].claimant = call[h].by /\ call'[k] = c
        BY <2>2, <3>1, <1>1, <1>2 DEF Moves
      <3>3. QED
        BY <3>1, <3>2, <1>2
    <2>3. QED
      BY <2>1, <2>2
  <1>7. ASSUME NEW a \in Agents, NEW i \in Ids \ strayed', Holder(a, i)'
        PROVE  i \in Known' /\ (Exists(i)' => row'[i].claimant = a)
    <2>1. CASE Holder(a, i)
      <3>1. i \in Known /\ (Exists(i) => row[i].claimant = a)
        BY <2>1, <1>3 DEF Exclusion, Held
      <3>2. i \in Known'
        BY <3>1, <1>2, KnownGrows
      <3>3. ~(agent[a].pc = "yield" /\ agent[a].thread = h)
        BY <2>1 DEF Holder, Working, Granted
      <3>4. QED
        BY <3>1, <3>2, <3>3, <1>5
    <2>2. CASE ClaimUpdate(h) /\ call[h].id = i /\ call[h].by = a
      <3>1. i \in Known
        BY <2>2, <1>2 DEF TypeOK, Guarded, Addressed, ClaimUpdate
      <3>2. row' = [row EXCEPT ![i].status = "CLAIMED", ![i].claimant = a] /\ row[i] \in Rows
        BY <2>2, <1>2 DEF ClaimUpdate, Has, Exists, TypeOK
      <3>3. row'[i].claimant = a
        BY <3>2, <1>2 DEF Rows, TypeOK
      <3>4. QED
        BY <3>1, <3>3, <1>2, KnownGrows
    <2>3. QED
      BY <2>1, <2>2, <1>7, StatementHolders
  <1>8. ASSUME NEW a \in Agents, NEW b \in Agents, NEW i \in Ids \ strayed', Holder(a, i)', Holder(b, i)'
        PROVE  a = b
    <2>1. ASSUME NEW d \in Agents, Holder(d, i) PROVE ~(ClaimUpdate(h) /\ call[h].id = i)
      BY <2>1, <1>3 DEF Exclusion, Held, ClaimUpdate, QueuedUnclaimed, Has
    <2>2. QED
      BY <1>3, <1>8, <2>1, StatementHolders DEF Exclusion, OneHolder
  <1>9. QED
    BY <1>6, <1>7, <1>8 DEF Exclusion, Held, OneHolder

LEMMA ExclusionStep ==
    ASSUME Base, QueuedUnclaimed, Exclusion, [StrayNext]_strayVars
    PROVE  Exclusion'
  <1>1. DaemonStep /\ (Strays \/ UNCHANGED <<daemonVars, strayed>>)
    BY DaemonNextSteps, StraySteps
  <1>2. CASE UNCHANGED <<daemonVars, strayed>>
    BY <1>2
    DEF daemonVars, Exclusion, YieldHeld, Held, OneHolder, Holder, Working, Granted, Exists, Known, Unattended
  <1>3. CASE Strays
    <2>1. strayed \subseteq strayed'
      BY <1>3 DEF Strays
    <2>2. ASSUME NEW a \in Agents, NEW h \in Handlers, NEW c, Posted(a, h, c) PROVE Exclusion'
      BY <2>1, <2>2, ArrivalExclusion DEF Posted
    <2>3. ASSUME UNCHANGED <<row, lastId, call, agent>> PROVE Exclusion'
      BY <2>1, <2>3
      DEF Exclusion, YieldHeld, Held, OneHolder, Holder, Working, Granted, Exists, Known, Unattended
    <2>4. QED
      BY <1>1, <1>3, <2>1, <2>2, <2>3, EndsExclusion, StatementExclusion, ReturnExclusion,
         ArrivalExclusion, CrashExclusion
      DEF DaemonStep
  <1>4. QED
    BY <1>1, <1>2, <1>3

LEMMA StrayIsDaemon == StraySpec => DaemonSafety
  BY StraySteps, PTL DEF StraySpec, DaemonSafety

\* Whatever is lost, given up, retried or crashes, two agents never work on the same request
\* that has not strayed: the conditional UPDATE of claim_next decides who gets it, and
\* _require_claiming_agent with the order of an agent's own posts keeps everybody else from
\* putting it back, except a yield nobody waits for.
THEOREM ExclusiveWorkCorrect == StraySpec => []ExclusiveWork
  <1>1. StrayInit => Exclusion
    BY StraySteps, ExclusionInit
  <1>2. Base /\ QueuedUnclaimed /\ Exclusion /\ [StrayNext]_strayVars => Exclusion'
    BY ExclusionStep
  <1>3. Exclusion => ExclusiveWork
    BY DEF Exclusion, OneHolder, Holder, ExclusiveWork
  <1>4. QED
    BY <1>1, <1>2, <1>3, StrayIsDaemon, BaseInvariant, DaemonQueues, QueuedUnclaimedCorrect, PTL
    DEF StraySpec

-----------------------------------------------------------------------------
(* A completion is honest.                                                 *)

\* An agent at source s.at has worked through or given up every source before it,
\* and completes only behind the last.
Tried(s, w) ==
    /\ s.kind = "extraction" => \A k \in Sources : k < s.at => k \in s.failed \/ w[k] = 0
    /\ s.pc = "complete" => s.at > NSources

AllTried == \A a \in Agents : Tried(agent[a], work[a])

LEMMA PollingTried == ASSUME NEW w PROVE Tried(Polling, w)
  BY DEF Tried, Polling, Sources

LEMMA StandsTried ==
    ASSUME NEW a \in Agents, LoopOK(agent[a]), NEW w, Tried(agent[a], w), NEW pc,
           NEW t, Stands(agent[a], t, pc), pc = "complete" => ~InScope(a)
    PROVE  Tried(t, w)
  <1>1. pc = "complete" => agent[a].at > NSources
    BY DEF InScope, AgentStates, LoopOK
  <1>2. QED
    BY <1>1 DEF Tried, Stands

\* Anything but a completion is always in place.
LEMMA OnTried ==
    ASSUME NEW a \in Agents, LoopOK(agent[a]), NEW w, Tried(agent[a], w)
    PROVE  /\ \A pc \in {"work", "parse", "round", "yield", "fail", "cleanup"} : Tried(At(a, pc), w)
           /\ \A pc \in {"work", "round"}, e \in 0 .. ExhaustedAfter, f \in BOOLEAN :
                 Tried(Found(At(a, pc), e, f), w)
  <1>1. ASSUME NEW pc \in {"work", "parse", "round", "yield", "fail", "cleanup"} PROVE Tried(At(a, pc), w)
    <2>1. pc \in Posts \cup {"work", "parse", "cleanup"} /\ pc # "complete"
      BY DEF Posts
    <2>2. Stands(agent[a], At(a, pc), pc)
      BY <2>1, AtStands DEF LoopOK
    <2>3. QED
      BY <2>1, <2>2, StandsTried
  <1>2. ASSUME NEW pc \in {"work", "round"}, NEW e \in 0 .. ExhaustedAfter, NEW f \in BOOLEAN
        PROVE  Tried(Found(At(a, pc), e, f), w)
    <2>1. pc \in Posts \cup {"work", "parse", "cleanup"} /\ pc # "complete"
      BY DEF Posts
    <2>2. Stands(agent[a], Found(At(a, pc), e, f), pc)
      BY <2>1, FoundStands DEF LoopOK
    <2>3. QED
      BY <2>1, <2>2, StandsTried
  <1>3. QED
    BY <1>1, <1>2

LEMMA SkipTried ==
    ASSUME NEW a \in Agents, LoopOK(agent[a]), NEW w, Tried(agent[a], w),
           NEW k \in Sources, k <= agent[a].at
    PROVE  Tried(SkipSource(a, k), w)
  <1> DEFINE t == SkipSource(a, k)
  <1>1. t.pc = "work" /\ t.at = k + 1 /\ t.failed = agent[a].failed \cup {k} /\ t.kind = agent[a].kind
    BY SkipStands
  <1> HIDE DEF t
  <1>2. ASSUME NEW j \in Sources, j < k + 1 PROVE j < agent[a].at \/ j = k
    BY <1>2 DEF Sources, AgentStates, LoopOK
  <1>3. Tried(t, w)
    BY <1>1, <1>2 DEF Tried
  <1>4. QED
    BY <1>3 DEF t

\* A source is left when nothing more is to be done in it.
LEMMA FinishTried ==
    ASSUME NEW a \in Agents, LoopOK(agent[a]), NEW w, Tried(agent[a], w), InScope(a),
           NEW after,
           \/ after = agent[a].at + 1 /\ w[agent[a].at] = 0
           \/ agent[a].kind # "extraction",
           NEW t, t.pc = "next", t.at = after, t.failed = agent[a].failed, t.kind = agent[a].kind
    PROVE  Tried(t, w)
  <1>1. ASSUME NEW j \in Sources, agent[a].kind = "extraction", j < after
        PROVE  j < agent[a].at \/ j = agent[a].at
    BY <1>1 DEF Sources, AgentStates, LoopOK
  <1>2. QED
    BY <1>1 DEF Tried

LEMMA LostTried ==
    ASSUME NEW a \in Agents, LoopOK(agent[a]), NEW w, Tried(agent[a], w)
    PROVE  Tried(Lost(a), w)
  <1> DEFINE s == agent[a]
  <1>1. CASE s.pc \in Retried /\ s.tries + 1 < Attempts
    <2> DEFINE n == s.tries + 1
               t == [s EXCEPT !.tries = n, !.thread = Null]
    <2>1. ~(s.tries + 1 >= Attempts) /\ s.pc \notin {"claim", "fail"}
      BY <1>1 DEF LoopOK, AgentStates, Retried
    <2>2. Lost(a) = t
      BY <1>1, <2>1, Zenon DEF Lost
    <2> HIDE DEF n
    <2>3. t.pc = s.pc /\ t.at = s.at /\ t.failed = s.failed /\ t.kind = s.kind
      BY DEF LoopOK, AgentStates
    <2> HIDE DEF t
    <2>4. QED
      BY <2>2, <2>3 DEF Tried
  <1>2. CASE s.pc \in {"claim", "fail"}
    <2>1. Lost(a) = Polling
      BY <1>2 DEF Lost, Retried
    <2>2. QED
      BY <2>1, PollingTried
  <1>3. CASE s.pc = "round" /\ s.kind = "extraction" /\ ~(s.tries + 1 < Attempts)
    <2>1. Lost(a) = SkipSource(a, s.at) /\ s.at \in Sources /\ s.at <= s.at
      BY <1>3 DEF Lost, LoopOK, AgentStates, Sources
    <2>2. QED
      BY <2>1, SkipTried
  <1>4. CASE s.pc = "next" /\ s.kind = "extraction" /\ ~(s.tries + 1 < Attempts)
    <2>1. /\ Lost(a) = SkipSource(a, s.at - 1) /\ s.at - 1 \in Sources
          /\ s.at - 1 <= s.at
      BY <1>4 DEF Lost, LoopOK, AgentStates, Sources
    <2>2. QED
      BY <2>1, SkipTried
  <1>5. CASE Lost(a) = At(a, "fail")
    BY <1>5, OnTried
  <1>6. QED
    BY <1>1, <1>2, <1>3, <1>4, <1>5 DEF Lost, LoopOK, AgentStates

LEMMA AnsweredTried ==
    ASSUME NEW a \in Agents, LoopOK(agent[a]), NEW w, Tried(agent[a], w), NEW c \in Calls
    PROVE  Tried(Answered(a, c), w)
  <1> DEFINE t == Answered(a, c)
  <1>1. CASE agent[a].pc = "claim" /\ c.reply = "ok"
    <2> DEFINE u == [Polling EXCEPT !.pc = "start", !.id = c.id, !.kind = c.kind]
    <2>1. t = u
      BY <1>1 DEF Answered
    <2>2. u.pc = "start" /\ u.at = 1
      BY DEF Polling
    <2> HIDE DEF u
    <2>3. QED
      BY <2>1, <2>2 DEF Tried, Sources
  <1>2. CASE t = At(a, Resumes(a)) \/ t = At(a, "cleanup")
    BY <1>2, OnTried DEF Resumes
  <1>3. CASE t = Polling
    BY <1>3, PollingTried
  <1>4. QED
    BY <1>1, <1>2, <1>3 DEF Answered

\* Finding or parsing documents of the source it is at leaves those before it as they are.
LEMMA WorkTried ==
    ASSUME NEW a \in Agents, LoopOK(agent[a]), InScope(a), NEW n, NEW t, Tried(t, work[a]),
           t.at = agent[a].at, work \in [Agents -> [Sources -> 0 .. MaxWork]],
           work' = [work EXCEPT ![a][agent[a].at] = n]
    PROVE  Tried(t, work'[a])
  <1>1. agent[a].at \in Sources
    BY DEF InScope, LoopOK, AgentStates, Sources
  <1>2. \A j \in Sources : j < agent[a].at => work'[a][j] = work[a][j]
    BY <1>1 DEF Sources
  <1>3. QED
    BY <1>2 DEF Tried

LEMMA TriedStep == ASSUME Base, Counters, AllTried, [DaemonNext]_daemonVars PROVE AllTried'
  <1> USE NullAssumption
  <1>a. /\ agent \in [Agents -> AgentStates] /\ work \in [Agents -> [Sources -> 0 .. MaxWork]]
        /\ call \in [Handlers -> Calls]
    BY DEF Base, Counters, TypeOK
  <1>b. ASSUME NEW a \in Agents
        PROVE  /\ LoopOK(agent[a]) /\ Tried(agent[a], work[a])
               /\ agent[a].empty \in 0 .. ExhaustedAfter /\ agent[a].empty + 1 \in Nat
    BY <1>b DEF Base, AgentsOK, AllTried, AgentStates
  <1>c. ASSUME NEW a \in Agents, NEW t, Become(a, t), Tried(t, work'[a]),
               \A b \in Agents : b # a => work'[b] = work[b]
        PROVE  AllTried'
    BY <1>a, <1>c DEF Become, AllTried
  <1>d. ASSUME NEW a \in Agents, NEW t, Become(a, t), UNCHANGED work, Tried(t, work[a])
        PROVE  AllTried'
    BY <1>c, <1>d
  <1>e. ASSUME NEW a \in Agents, InScope(a), NEW t, NEW pc, Stands(agent[a], t, pc), Become(a, t),
               Tried(t, work[a]), NEW n, work' = [work EXCEPT ![a][agent[a].at] = n]
        PROVE  AllTried'
    <2>1. Tried(t, work'[a])
      BY <1>a, <1>b, <1>e, WorkTried DEF Stands
    <2>2. \A b \in Agents : b # a => work'[b] = work[b]
      BY <1>a, <1>e
    <2>3. QED
      BY <1>c, <1>e, <2>1, <2>2
  <1>1. ASSUME NEW a \in Agents, Round(a) PROVE AllTried'
    <2>1. PICK n \in work[a][agent[a].at] .. MaxWork,
               e \in IF agent[a].empty = ExhaustedAfter THEN {ExhaustedAfter} ELSE {0, agent[a].empty + 1} :
             /\ work' = [work EXCEPT ![a][agent[a].at] = n]
             /\ Become(a, Found(At(a, "round"), e, n > work[a][agent[a].at]))
      BY <1>1 DEF Round
    <2>2. e \in 0 .. ExhaustedAfter /\ (n > work[a][agent[a].at]) \in BOOLEAN
      BY <1>b
    <2> DEFINE t == Found(At(a, "round"), e, n > work[a][agent[a].at])
    <2>3. Stands(agent[a], t, "round")
      BY <1>b, <2>2, FoundStands DEF Posts, LoopOK
    <2>4. Tried(t, work[a])
      BY <1>b, <2>3, StandsTried
    <2> HIDE DEF t
    <2>5. Become(a, t) /\ InScope(a)
      BY <1>1, <2>1 DEF t, Round
    <2>6. QED
      BY <1>e, <2>1, <2>3, <2>4, <2>5
  <1>2. ASSUME NEW a \in Agents, Parse(a) PROVE AllTried'
    <2>1. CASE Become(a, At(a, "round")) /\ UNCHANGED work
      BY <1>b, <1>d, <2>1, OnTried
    <2>2. CASE /\ work' = [work EXCEPT ![a][agent[a].at] = @ - 1]
               /\ Become(a, Found(At(a, "round"), agent[a].empty, TRUE))
      <3> DEFINE t == Found(At(a, "round"), agent[a].empty, TRUE)
      <3>1. Stands(agent[a], t, "round")
        BY <1>b, FoundStands DEF Posts, LoopOK
      <3>3. Become(a, t) /\ InScope(a)
        BY <1>2, <2>2 DEF Parse
      <3> HIDE DEF t
      <3>2. Tried(t, work[a])
        BY <1>b, <3>1, StandsTried
      <3>4. QED
        BY <1>e, <2>2, <3>1, <3>2, <3>3
    <2>3. QED
      BY <1>2, <2>1, <2>2 DEF Parse
  <1>3. ASSUME NEW a \in Agents, RoundEnds(a) \/ PushBatch(a) PROVE AllTried'
    BY <1>3, <1>b, <1>d, OnTried DEF RoundEnds, PushBatch
  <1>4. ASSUME NEW a \in Agents, FinishSource(a) PROVE AllTried'
    <2> DEFINE t == Past(Found(At(a, "next"), 0, FALSE), agent[a].at + 1)
    <2>1. /\ InScope(a) /\ Idling(a, "parse") /\ work[a][agent[a].at] = 0
          /\ Become(a, t) /\ UNCHANGED work
      BY <1>4 DEF FinishSource
    <2>2. t.pc = "next" /\ t.at = agent[a].at + 1 /\ t.failed = agent[a].failed /\ t.kind = agent[a].kind
      <3>1. Stands(agent[a], Found(At(a, "next"), 0, FALSE), "next")
        BY <1>b, NextSourceStands
      <3>2. LoopOK(agent[a]) /\ agent[a].pc \in WorkPcs /\ InScope(a)
        BY <2>1, <1>b DEF Idling, WorkPcs
      <3>3. /\ Continues(agent[a], t)
            /\ t.pc = "next" /\ t.at = agent[a].at + 1 /\ t.failed = agent[a].failed /\ t.kind = agent[a].kind
        BY <3>1, <3>2, NextContinues
      <3>4. QED
        BY <3>3
    <2> HIDE DEF t
    <2>3. Tried(t, work[a])
      BY <2>1, <2>2, <1>b, FinishTried
    <2>4. QED
      BY <2>1, <2>3, <1>d
  <1>5. ASSUME NEW a \in Agents, AllPushed(a) PROVE AllTried'
    <2> DEFINE t == Past(At(a, "next"), NSources + 1)
    <2>1. /\ InScope(a) /\ Idling(a, "work") /\ agent[a].kind # "extraction"
          /\ Become(a, t) /\ UNCHANGED work
      BY <1>5 DEF AllPushed
    <2>2. t.pc = "next" /\ t.at = NSources + 1 /\ t.failed = agent[a].failed /\ t.kind = agent[a].kind
      <3>1. Stands(agent[a], At(a, "next"), "next")
        BY <1>b, NextSourceStands
      <3>2. LoopOK(agent[a]) /\ agent[a].pc \in WorkPcs /\ InScope(a)
        BY <2>1, <1>b DEF Idling, WorkPcs
      <3>3. /\ Continues(agent[a], t)
            /\ t.pc = "next" /\ t.at = NSources + 1 /\ t.failed = agent[a].failed /\ t.kind = agent[a].kind
        BY <3>1, <3>2, NextContinues
      <3>4. QED
        BY <3>3
    <2> HIDE DEF t
    <2>3. Tried(t, work[a])
      BY <2>1, <2>2, <1>b, FinishTried
    <2>4. QED
      BY <2>1, <2>3, <1>d
  <1>6. ASSUME NEW a \in Agents, SourceFails(a) PROVE AllTried'
    <2>1. agent[a].at \in Sources /\ agent[a].at <= agent[a].at
      BY <1>6, <1>a DEF SourceFails, InScope, AgentStates, Sources
    <2>2. QED
      BY <1>6, <2>1, <1>b, <1>d, SkipTried DEF SourceFails
  <1>7. ASSUME NEW a \in Agents, BudgetSpent(a) \/ AllSourcesTried(a) \/ RequestFails(a)
        PROVE  AllTried'
    <2>1. CASE BudgetSpent(a)
      BY <2>1, <1>b, <1>d, OnTried DEF BudgetSpent
    <2>2. CASE AllSourcesTried(a)
      <3>1. Stands(agent[a], At(a, "complete"), "complete")
        BY <1>b, AtStands DEF Posts, LoopOK
      <3>2. Tried(At(a, "complete"), work[a])
        BY <2>2, <3>1, <1>b, StandsTried DEF AllSourcesTried
      <3>3. QED
        BY <2>2, <3>2, <1>d DEF AllSourcesTried
    <2>3. CASE RequestFails(a)
      BY <2>3, <1>b, <1>d, OnTried DEF RequestFails
    <2>4. QED
      BY <1>7, <2>1, <2>2, <2>3
  <1>8. ASSUME NEW a \in Agents, CleanedUp(a) PROVE AllTried'
    BY <1>8, <1>d, PollingTried DEF CleanedUp
  <1>9. ASSUME NEW a \in Agents, Receive(a) PROVE AllTried'
    <2>1. call[agent[a].thread] \in Calls
      BY <1>9, <1>a DEF Receive, AgentStates
    <2>2. QED
      BY <1>9, <2>1, <1>b, <1>d, AnsweredTried DEF Receive
  <1>10. ASSUME NEW a \in Agents, NEW h \in Handlers, Post(a, h) PROVE AllTried'
    <2> DEFINE t == [agent[a] EXCEPT !.thread = h]
    <2>1. Become(a, t) /\ UNCHANGED work
      BY <1>10 DEF Post, Become
    <2>2. t.pc = agent[a].pc /\ t.at = agent[a].at /\ t.failed = agent[a].failed /\ t.kind = agent[a].kind
      BY <1>a DEF AgentStates
    <2> HIDE DEF t
    <2>3. Tried(t, work[a])
      BY <2>2, <1>b DEF Tried
    <2>4. QED
      BY <2>1, <2>3, <1>d
  <1>11. ASSUME NEW a \in Agents, PostLost(a) \/ AnswerLost(a) PROVE AllTried'
    BY <1>11, <1>b, <1>d, LostTried DEF PostLost, AnswerLost, Fault
  <1>12. ASSUME NEW a \in Agents, AgentCrash(a) PROVE AllTried'
    BY <1>12, <1>d, PollingTried DEF AgentCrash, Fault
  <1>13. CASE ServerDown
    BY <1>13, <1>a, <1>b, LostTried DEF ServerDown, AllTried
  <1>14. CASE UNCHANGED <<agent, work>>
    BY <1>14 DEF AllTried
  <1>15. QED
    BY <1>1, <1>2, <1>3, <1>4, <1>5, <1>6, <1>7, <1>8, <1>9, <1>10, <1>11, <1>12, <1>13, <1>14
    DEF DaemonNext, daemonVars, Agent, LocalStep, Server, Admin, local

\* What a claim was answered with, or an agent was given, is the kind of that request.
Named(x) == Exists(x.id) => row[x.id].kind = x.kind

CompletePcs == {"complete_read", "complete_write"}

CallHonest(c) ==
    /\ c.pc \in CompletePcs => c.op = "complete"
    /\ c.op = "complete" /\ c.pc # "idle" => c.id \in Known
    /\ c.op = "claim" /\ c.pc = "replied" /\ c.reply = "ok" => Named(c)

Honest ==
    /\ \A h \in Handlers : CallHonest(call[h])
    /\ \A a \in Agents : agent[a].id # Null => Named(agent[a])

\* The kind of a request never changes, and a deleted one never comes back.
LEMMA KindStays ==
    ASSUME TypeOK, NEW h \in Handlers, Statement(h), NEW i \in Known, Exists(i)'
    PROVE  Exists(i) /\ row'[i].kind = row[i].kind
  <1>a. i \in Ids /\ row \in [Ids -> Rows \cup {Null}] /\ call[h] \in Calls /\ i <= lastId
    BY DEF TypeOK, Known
  <1>1. CASE UNCHANGED row
    BY <1>1 DEF Exists
  <1>2. CASE Insert(h)
    <2>1. i # lastId + 1
      BY <1>a, IdsAssumption DEF TypeOK
    <2>2. QED
      BY <1>2, <1>a, <2>1 DEF Insert, Exists
  <1>3. CASE ResetDelete(h)
    BY <1>3, <1>a DEF ResetDelete, Exists
  <1>4. CASE ClaimUpdate(h)
    BY <1>4, <1>a DEF ClaimUpdate, Exists, Rows, Has
  <1>5. CASE ReportWrite(h)
    <2>1. UpdateRow(call[h].id, Reported(row[call[h].id], call[h]))
      BY <1>5 DEF ReportWrite
    <2>2. Untouched(i) \/ (row[i] \in Rows /\ Exists(i) /\ row'[i] = Reported(row[i], call[h]))
      BY <2>1, <1>a, UpdateEffect
    <2>3. QED
      BY <2>2, <1>a, ReportedType DEF Untouched, Exists
  <1>6. CASE YieldWrite(h)
    <2> DEFINE k == call[h].id
               d == IF call[h].done = Null THEN row[k].done ELSE call[h].done
               r == [row[k] EXCEPT !.status = "QUEUED", !.claimant = Null, !.done = d]
    <2>1. UpdateRow(k, r)
      BY <1>6 DEF YieldWrite
    <2>2. ASSUME row[k] \in Rows PROVE r.kind = row[k].kind
      <3> HIDE DEF d
      <3>1. QED
        BY <2>2 DEF Rows
    <2> HIDE DEF r
    <2>3. Untouched(i) \/ (i = k /\ row[i] \in Rows /\ Exists(i) /\ row'[i] = r)
      BY <2>1, <1>a, UpdateEffect
    <2>4. QED
      BY <2>2, <2>3 DEF Untouched, Exists
  <1>7. CASE CompleteWrite(h)
    <2> DEFINE k == call[h].id
               st == IF call[h].ok THEN "COMPLETED" ELSE "FAILED"
               r == [row[k] EXCEPT !.status = st, !.cancelled = FALSE]
    <2>1. UpdateRow(k, r)
      BY <1>7 DEF CompleteWrite
    <2>2. ASSUME row[k] \in Rows PROVE r.kind = row[k].kind
      <3> HIDE DEF st
      <3>1. QED
        BY <2>2 DEF Rows
    <2> HIDE DEF r
    <2>3. Untouched(i) \/ (i = k /\ row[i] \in Rows /\ Exists(i) /\ row'[i] = r)
      BY <2>1, <1>a, UpdateEffect
    <2>4. QED
      BY <2>2, <2>3 DEF Untouched, Exists
  <1>8. CASE CancelWrite(h)
    <2> DEFINE k == call[h].id
               r == [row[k] EXCEPT !.status = "FAILED", !.cancelled = TRUE]
    <2>1. UpdateRow(k, r)
      BY <1>8 DEF CancelWrite
    <2>2. ASSUME row[k] \in Rows PROVE r.kind = row[k].kind
      BY <2>2 DEF Rows
    <2> HIDE DEF r
    <2>3. Untouched(i) \/ (i = k /\ row[i] \in Rows /\ Exists(i) /\ row'[i] = r)
      BY <2>1, <1>a, UpdateEffect
    <2>4. QED
      BY <2>2, <2>3 DEF Untouched, Exists
  <1>9. QED
    BY <1>1, <1>2, <1>3, <1>4, <1>5, <1>6, <1>7, <1>8
    DEF Statement, FindPending, ClaimSelect, ClaimNothing, ClaimLost, ClaimLoad, Require,
        ReportRead, YieldRead, CompleteRead, CancelRead

\* One statement shows a request as COMPLETED: the last of a completion that says so.
LEMMA CompletedBy ==
    ASSUME TypeOK, NEW h \in Handlers, Statement(h), NEW i \in Ids,
           Has(i, {"COMPLETED"})', ~Has(i, {"COMPLETED"})
    PROVE  CompleteWrite(h) /\ call[h].id = i /\ call[h].ok /\ Exists(i)
  <1>a. row \in [Ids -> Rows \cup {Null}] /\ call[h] \in Calls
    BY DEF TypeOK
  <1>0. row'[i] # Null /\ row'[i].status = "COMPLETED" /\ ~Untouched(i)
    BY DEF Has, Exists, Untouched
  <1>2. CASE Insert(h)
    BY <1>0, <1>2, <1>a DEF Insert, NewRow, Untouched
  <1>3. CASE ResetDelete(h)
    BY <1>0, <1>3 DEF ResetDelete
  <1>4. CASE ClaimUpdate(h)
    <2>1. row'[i] = [row[i] EXCEPT !.status = "CLAIMED", !.claimant = call[h].by] /\ row[i] \in Rows
      BY <1>0, <1>4, <1>a DEF ClaimUpdate, Untouched, Has, Exists
    <2>2. QED
      BY <2>1, <1>0 DEF Rows
  <1>5. CASE ReportWrite(h)
    <2>1. UpdateRow(call[h].id, Reported(row[call[h].id], call[h]))
      BY <1>5 DEF ReportWrite
    <2>2. row[i] \in Rows /\ Exists(i) /\ row'[i] = Reported(row[i], call[h])
      BY <2>1, <1>0, UpdateEffect
    <2>3. row'[i].status = IF call[h].seen = "CLAIMED" THEN "RUNNING" ELSE row[i].status
      BY <2>2, <1>a, ReportedType
    <2>4. QED
      BY <1>0, <2>2, <2>3 DEF Has
  <1>6. CASE YieldWrite(h)
    <2> DEFINE k == call[h].id
               d == IF call[h].done = Null THEN row[k].done ELSE call[h].done
               r == [row[k] EXCEPT !.status = "QUEUED", !.claimant = Null, !.done = d]
    <2>1. UpdateRow(k, r)
      BY <1>6 DEF YieldWrite
    <2>2. ASSUME row[k] \in Rows PROVE r.status = "QUEUED"
      <3> HIDE DEF d
      <3>1. QED
        BY <2>2 DEF Rows
    <2> HIDE DEF r
    <2>3. QED
      BY <1>0, <2>1, <2>2, UpdateEffect
  <1>7. CASE CompleteWrite(h)
    <2> DEFINE k == call[h].id
               st == IF call[h].ok THEN "COMPLETED" ELSE "FAILED"
               r == [row[k] EXCEPT !.status = st, !.cancelled = FALSE]
    <2>1. UpdateRow(k, r)
      BY <1>7 DEF CompleteWrite
    <2>2. ASSUME row[k] \in Rows PROVE r.status = st
      <3> HIDE DEF st
      <3>1. QED
        BY <2>2 DEF Rows
    <2> HIDE DEF r
    <2>3. i = k /\ row[i] \in Rows /\ Exists(i) /\ row'[i] = r
      BY <1>0, <2>1, UpdateEffect
    <2>4. QED
      BY <1>0, <1>7, <2>2, <2>3
  <1>8. CASE CancelWrite(h)
    <2> DEFINE k == call[h].id
               r == [row[k] EXCEPT !.status = "FAILED", !.cancelled = TRUE]
    <2>1. UpdateRow(k, r)
      BY <1>8 DEF CancelWrite
    <2>2. ASSUME row[k] \in Rows PROVE r.status = "FAILED"
      BY <2>2 DEF Rows
    <2> HIDE DEF r
    <2>3. QED
      BY <1>0, <2>1, <2>2, UpdateEffect
  <1>9. QED
    BY <1>0, <1>2, <1>3, <1>4, <1>5, <1>6, <1>7, <1>8
    DEF Statement, FindPending, ClaimSelect, ClaimNothing, ClaimLost, ClaimLoad, Require,
        ReportRead, YieldRead, CompleteRead, CancelRead, Untouched

\* What the next state of a call keeps and learns.
Tells(h, c) ==
    /\ call' = [call EXCEPT ![h] = c]
    /\ c.op = call[h].op /\ c.ok = call[h].ok
    /\ c.pc # "idle" /\ call[h].pc \notin {"idle", "replied"}
    /\ call[h].op # "claim" => c.id = call[h].id
    /\ c.pc \in CompletePcs => call[h].op = "complete" \/ call[h].pc \in CompletePcs
    /\ call[h].pc \in ClaimPcs /\ c.pc = "replied" /\ c.reply = "ok" =>
          UNCHANGED row /\ c.kind = row[c.id].kind

LEMMA StatementTells ==
    ASSUME TypeOK, NEW h \in Handlers, Statement(h), Shape(call[h])
    PROVE  \E c : Tells(h, c)
  <1> DEFINE Turns(c) == /\ call' = [call EXCEPT ![h] = c] /\ c.op = call[h].op
                         /\ c.by = call[h].by /\ c.id = call[h].id /\ c.ok = call[h].ok
             c0(pc) == [call[h] EXCEPT !.pc = pc]
             c1(r) == [call[h] EXCEPT !.pc = "replied", !.reply = r]
             c2(pc) == [call[h] EXCEPT !.seen = row[call[h].id].status, !.pc = pc]
  <1>a. call \in [Handlers -> Calls] /\ call[h] \in Calls
    BY DEF TypeOK
  <1>1. ASSUME NEW pc, Goto(h, pc) PROVE \E c : Turns(c) /\ c.pc = pc
    <2>1. Turns(c0(pc)) /\ c0(pc).pc = pc
      BY <1>1, <1>a DEF Goto, Calls
    <2>2. QED
      BY <2>1, Zenon
  <1>2. ASSUME NEW r, Reply(h, r) PROVE \E c : Turns(c) /\ c.pc = "replied" /\ c.reply = r
    <2>1. Turns(c1(r)) /\ c1(r).pc = "replied" /\ c1(r).reply = r
      BY <1>2, <1>a DEF Reply, Calls
    <2>2. QED
      BY <2>1, Zenon
  <1>3. ASSUME NEW pc, Look(h, pc) PROVE \E c : Turns(c) /\ c.pc = pc
    <2>1. Turns(c2(pc)) /\ c2(pc).pc = pc
      BY <1>3, <1>a DEF Look, Calls
    <2>2. QED
      BY <2>1, Zenon
  <1> HIDE DEF c0, c1, c2
  <1> USE DEF ClaimPcs, CompletePcs, Tells, Shape
  <1>4. CASE FindPending(h)
    BY <1>4, <1>1, <1>2 DEF FindPending
  <1>5. CASE Insert(h) \/ ResetDelete(h)
    BY <1>5, <1>1, <1>2 DEF Insert, ResetDelete
  <1>6. CASE ClaimSelect(h)
    <2>1. PICK i \in Ids : call' = [call EXCEPT ![h].id = i, ![h].pc = "update"]
      BY <1>6 DEF ClaimSelect
    <2> DEFINE c == [call[h] EXCEPT !.id = i, !.pc = "update"]
    <2>2. Tells(h, c)
      BY <1>6, <2>1, <1>a DEF ClaimSelect, Calls
    <2>3. QED
      BY <2>2, Zenon
  <1>7. CASE ClaimNothing(h) \/ ClaimLost(h)
    BY <1>7, <1>2 DEF ClaimNothing, ClaimLost
  <1>8. CASE ClaimUpdate(h)
    BY <1>8, <1>1 DEF ClaimUpdate
  <1>9. CASE ClaimLoad(h)
    <2>1. CASE Exists(call[h].id)
      <3> DEFINE c == [call[h] EXCEPT !.pc = "replied", !.reply = "ok",
                                      !.kind = row[call[h].id].kind]
      <3>1. Tells(h, c)
        BY <1>9, <2>1, <1>a DEF ClaimLoad, Calls
      <3>2. QED
        BY <3>1, Zenon
    <2>2. CASE ~Exists(call[h].id)
      BY <1>9, <2>2, <1>2 DEF ClaimLoad
    <2>3. QED
      BY <2>1, <2>2
  <1>10. CASE Require(h)
    <2>1. /\ FirstStatement(call[h]) \in CompletePcs => call[h].op = "complete"
          /\ FirstStatement(call[h]) \in {"yield_read", "complete_read", "report_read"}
      BY DEF FirstStatement
    <2>2. \/ Reply(h, "404") \/ Reply(h, "403") \/ Goto(h, FirstStatement(call[h]))
      BY <1>10 DEF Require
    <2>3. call[h].pc = "require"
      BY <1>10 DEF Require
    <2>4. QED
      BY <2>1, <2>2, <2>3, <1>1, <1>2
  <1>11. CASE ReportRead(h)
    BY <1>11, <1>1, <1>2, <1>3 DEF ReportRead, AfterReport
  <1>12. CASE ReportWrite(h)
    BY <1>12, <1>1, <1>2 DEF ReportWrite, AfterReport
  <1>13. CASE YieldRead(h) \/ YieldWrite(h)
    BY <1>13, <1>1, <1>2, <1>3 DEF YieldRead, YieldWrite
  <1>14. CASE CompleteRead(h) \/ CompleteWrite(h)
    BY <1>14, <1>1, <1>2 DEF CompleteRead, CompleteWrite
  <1>15. CASE CancelRead(h) \/ CancelWrite(h)
    BY <1>15, <1>1, <1>2 DEF CancelRead, CancelWrite
  <1>16. QED
    BY <1>4, <1>5, <1>6, <1>7, <1>8, <1>9, <1>10, <1>11, <1>12, <1>13, <1>14, <1>15 DEF Statement

LEMMA HonestInit == DaemonInit => Honest /\ AllTried
  <1> SUFFICES ASSUME DaemonInit PROVE Honest /\ AllTried
    OBVIOUS
  <1>1. AllTried
    BY PollingTried DEF DaemonInit, AllTried
  <1>2. \A h \in Handlers : CallHonest(call[h])
    BY DEF DaemonInit, Init, CallHonest, CompletePcs, Idle
  <1>3. \A a \in Agents : agent[a].id = Null
    BY DEF DaemonInit, Polling
  <1>4. QED
    BY <1>1, <1>2, <1>3 DEF Honest

\* No step of the system gives a known request another kind.
LEMMA KindsStay ==
    ASSUME Base, [DaemonNext]_daemonVars, NEW i \in Known, Exists(i)'
    PROVE  Exists(i) /\ row'[i].kind = row[i].kind
  <1>1. CASE UNCHANGED row
    BY <1>1 DEF Exists
  <1>2. CASE \E h \in Handlers : Statement(h)
    BY <1>2, KindStays DEF Base
  <1>3. QED
    BY <1>1, <1>2, DaemonNextSteps
    DEF DaemonStep, Ends, Posted, Arrive, Return, Crashed, ServerCrash

\* What becomes of a call: it ends, it is a new one, or it is moved on.
LEMMA CallSteps ==
    ASSUME Base, [DaemonNext]_daemonVars, NEW k \in Handlers
    PROVE  \/ call'[k] \in {call[k], Idle}
           \/ \E a \in Agents, c \in {call'[k]} : Posted(a, k, c)
           \/ Fresh(call'[k]) /\ call'[k].op \in {"enqueue", "cancel", "reset"}
           \/ Statement(k) /\ Tells(k, call'[k])
  <1>a. call \in [Handlers -> Calls] /\ DaemonStep
    BY DaemonNextSteps DEF Base, TypeOK
  <1>1. ASSUME NEW a \in Agents, NEW t \in AgentStates, Ends(a, t) PROVE call'[k] \in {call[k], Idle}
    BY <1>1, <1>a DEF Ends
  <1>2. ASSUME NEW a \in Agents, NEW h \in Handlers, NEW c, Posted(a, h, c)
        PROVE  call'[k] = call[k] \/ (h = k /\ call'[k] = c)
    BY <1>2, <1>a DEF Posted, Arrive
  <1>3. ASSUME NEW h \in Handlers, Statement(h)
        PROVE  call'[k] = call[k] \/ (h = k /\ Tells(k, call'[k]))
    <2>1. PICK c : Tells(h, c)
      BY <1>3, StatementTells DEF Base
    <2>2. call' = [call EXCEPT ![h] = c]
      BY <2>1 DEF Tells
    <2>3. QED
      BY <1>a, <2>1, <2>2
  <1>4. ASSUME NEW h \in Handlers, Return(h) PROVE call'[k] \in {call[k], Idle}
    BY <1>4, <1>a DEF Return
  <1>5. ASSUME NEW h \in Handlers, NEW c, Fresh(c), Arrive(h, c), c.op \in {"enqueue", "cancel", "reset"}
        PROVE  call'[k] = call[k] \/ (Fresh(call'[k]) /\ call'[k].op \in {"enqueue", "cancel", "reset"})
    BY <1>5, <1>a DEF Arrive
  <1>6. CASE Crashed
    BY <1>6 DEF Crashed, ServerCrash
  <1>7. QED
    BY <1>a, <1>1, <1>2, <1>3, <1>4, <1>5, <1>6 DEF DaemonStep

\* What becomes of an agent's request: kept with its kind, dropped, or handed out.
LEMMA AgentSteps ==
    ASSUME Base, [DaemonNext]_daemonVars, NEW b \in Agents, agent'[b].id # Null
    PROVE  \/ agent'[b].id = agent[b].id /\ agent'[b].kind = agent[b].kind
           \/ Takes(b, agent'[b])
  <1>a. agent \in [Agents -> AgentStates] /\ DaemonStep
    BY DaemonNextSteps DEF Base
  <1>1. ASSUME NEW s, NEW t, Continues(s, t), t.id # Null PROVE t.id = s.id /\ t.kind = s.kind
    BY <1>1 DEF Continues, LoopOK
  <1>2. ASSUME NEW a \in Agents, NEW t \in AgentStates, Ends(a, t)
        PROVE  agent'[b] = agent[b] \/ Continues(agent[b], agent'[b]) \/ Takes(b, agent'[b])
    BY <1>2, <1>a DEF Ends, Become
  <1>3. ASSUME NEW a \in Agents, NEW h \in Handlers, NEW c, Posted(a, h, c)
        PROVE  agent'[b].id = agent[b].id /\ agent'[b].kind = agent[b].kind
    BY <1>3, <1>a DEF Posted, AgentStates
  <1>4. CASE Crashed
    <2>1. LoopOK(agent[b])
      BY DEF Base, AgentsOK
    <2>2. agent'[b] = agent[b] \/ Continues(agent[b], agent'[b])
      BY <1>4, <2>1, LostContinues DEF Crashed
    <2>3. QED
      BY <2>2, <1>1
  <1>5. QED
    BY <1>a, <1>1, <1>2, <1>3, <1>4 DEF DaemonStep

LEMMA HonestStep == ASSUME Base, Honest, [DaemonNext]_daemonVars PROVE Honest'
  <1>a. /\ TypeOK /\ call \in [Handlers -> Calls] /\ [Next]_vars
        /\ agent \in [Agents -> AgentStates]
    BY DaemonStepQueues DEF Base, TypeOK
  <1>b. \A i \in Known : i \in Known'
    BY <1>a, KnownGrows
  <1>1. ASSUME NEW k \in Handlers PROVE CallHonest(call[k])'
    <2>a. CallHonest(call[k]) /\ Shape(call[k])
      BY DEF Honest, Base
    <2>1. CASE call'[k] = call[k]
      <3>1. call[k].op = "claim" /\ call[k].pc = "replied" /\ call[k].reply = "ok" => Named(call[k])'
        <4>1. ASSUME call[k].op = "claim", call[k].pc = "replied", call[k].reply = "ok"
              PROVE  row'[call[k].id] # Null => row'[call[k].id].kind = call[k].kind
          BY <4>1, <2>a, KindsStay DEF CallHonest, Shape, Named, Exists
        <4>2. QED
          BY <4>1, <2>1 DEF Named, Exists
      <3>2. QED
        BY <2>1, <2>a, <1>b, <3>1 DEF CallHonest
    <2>2. CASE call'[k] = Idle
      BY <2>2 DEF CallHonest, Idle, CompletePcs
    <2>3. CASE Fresh(call'[k]) /\ call'[k].op # "complete"
      BY <2>3 DEF CallHonest, CompletePcs, Fresh
    <2>4. CASE \E a \in Agents, c \in {call'[k]} : Posted(a, k, c)
      <3>1. PICK a \in Agents : Posted(a, k, call'[k])
        BY <2>4
      <3>2. LoopOK(agent[a]) /\ Fresh(call'[k])
        BY <3>1 DEF Posted, Base, AgentsOK
      <3>3. call'[k].op = "complete" => call'[k].id \in Known
        BY <3>1, <3>2 DEF Posted, OpOf, LoopOK
      <3>4. QED
        BY <3>2, <3>3, <1>b DEF CallHonest, CompletePcs, Fresh
    <2>5. CASE Statement(k) /\ Tells(k, call'[k])
      <3> DEFINE c == call'[k]
      <3>1. c.pc \in CompletePcs => c.op = "complete"
        BY <2>5, <2>a DEF Tells, CallHonest
      <3>2. c.op = "complete" => c.id \in Known
        BY <2>5, <2>a DEF Tells, CallHonest
      <3>3. c.op = "claim" /\ c.pc = "replied" /\ c.reply = "ok" => UNCHANGED row /\ c.kind = row[c.id].kind
        BY <2>5, <2>a DEF Tells, Shape
      <3>4. QED
        BY <3>1, <3>2, <3>3, <1>b DEF CallHonest, Named, Exists
    <2>6. QED
      BY <2>1, <2>2, <2>3, <2>4, <2>5, CallSteps
  <1>2. ASSUME NEW b \in Agents, agent'[b].id # Null PROVE Named(agent[b])'
    <2> DEFINE i == agent'[b].id
    <2>a. LoopOK(agent[b]) /\ (agent[b].thread # Null => agent[b].thread \in Handlers
                                  /\ Serving(b, call[agent[b].thread]))
      BY <1>a DEF Base, AgentsOK, AgentStates
    <2>1. i \in Known /\ (Exists(i) => row[i].kind = agent'[b].kind)
      <3>1. CASE agent'[b].id = agent[b].id /\ agent'[b].kind = agent[b].kind
        BY <1>2, <2>a, <3>1 DEF Honest, Named, LoopOK
      <3>2. CASE Takes(b, agent'[b])
        <4> DEFINE c == call[agent[b].thread]
        <4>1. /\ agent[b].thread \in Handlers /\ c.op = "claim" /\ c.pc = "replied" /\ c.reply = "ok"
              /\ i = c.id /\ agent'[b].kind = c.kind
          BY <3>2, <2>a DEF Takes, Granted, Serving, OpOf
        <4>2. Named(c) /\ c.id \in Known
          BY <4>1 DEF Honest, CallHonest, Base, Shape
        <4>3. QED
          BY <4>1, <4>2 DEF Named
      <3>3. QED
        BY <1>2, <3>1, <3>2, AgentSteps
    <2>2. \A j \in Known : row'[j] # Null => Exists(j) /\ row'[j].kind = row[j].kind
      BY KindsStay DEF Exists
    <2>3. QED
      BY <2>1, <2>2 DEF Named, Exists
  <1>3. QED
    BY <1>1, <1>2 DEF Honest

LEMMA HonestInvariant == DaemonSafety => [](Honest /\ AllTried)
  <1>1. Base /\ Counters /\ Honest /\ AllTried /\ [DaemonNext]_daemonVars => (Honest /\ AllTried)'
    BY HonestStep, TriedStep
  <1>2. QED
    BY <1>1, HonestInit, BaseInvariant, PTL DEF DaemonSafety

\* The request an agent posts about is the one it was handed, whoever resets the table and
\* enqueues others meanwhile: AUTOINCREMENT never gives an id twice.
THEOREM IdsNameOneRequestCorrect == DaemonSafety => []IdsNameOneRequest
  <1>1. Honest => IdsNameOneRequest
    BY DEF Honest, Named, IdsNameOneRequest
  <1>2. QED
    BY <1>1, HonestInvariant, PTL

\* A completion under way, waited for or not, that reports success on an extraction.
Truthful(c) ==
    c.op = "complete" /\ c.pc # "idle" /\ c.ok /\ Exists(c.id) /\ row[c.id].kind = "extraction"
        => c.id \in tried

Finishing ==
    /\ \A h \in Handlers : Truthful(call[h])
    /\ \A a \in Agents, i \in Ids : SourcesTried(a, i) => i \in tried
    /\ HonestCompletion

LEMMA FinishingInit == StrayInit => Finishing
  BY DEF StrayInit, DaemonInit, Init, Finishing, Truthful, Idle, SourcesTried, Polling,
         HonestCompletion, Has, Exists

\* An agent that posts a success has got behind the last source.
LEMMA CompletesTried ==
    ASSUME Base, AllTried, NEW a \in Agents, agent[a].pc = "complete", agent[a].kind = "extraction"
    PROVE  SourcesTried(a, agent[a].id)
  <1>1. Tried(agent[a], work[a]) /\ agent[a].at \in Nat
    BY DEF AllTried, Base, AgentStates
  <1>2. agent[a].at > NSources /\ \A s \in Sources : s < agent[a].at
    BY <1>1 DEF Tried, Sources
  <1>3. QED
    BY <1>1, <1>2 DEF Tried, SourcesTried, InScope

LEMMA FinishingStep ==
    ASSUME Base, Honest, AllTried, Finishing, [StrayNext]_strayVars
    PROVE  Finishing'
  <1>a. [DaemonNext]_daemonVars /\ TypeOK /\ tried \subseteq tried' /\ row \in [Ids -> Rows \cup {Null}]
    BY StraySteps DEF StrayNext, strayVars, Base, TypeOK
  <1>1. ASSUME NEW a \in Agents, NEW i \in Ids, SourcesTried(a, i)' PROVE i \in tried'
    <2>1. CASE StrayNext
      BY <1>1, <2>1 DEF StrayNext
    <2>2. CASE UNCHANGED strayVars
      BY <1>1, <2>2 DEF strayVars, daemonVars, SourcesTried, InScope, Finishing
    <2>3. QED
      BY <2>1, <2>2
  <1>2. ASSUME NEW k \in Handlers PROVE Truthful(call[k])'
    <2> DEFINE c == call'[k]
    <2> SUFFICES ASSUME c.op = "complete", c.pc # "idle", c.ok, row'[c.id] # Null,
                        row'[c.id].kind = "extraction"
                 PROVE  c.id \in tried
      BY <1>a DEF Truthful, Exists
    <2>1. CASE c \in {call[k], Idle}
      <3>1. c = call[k]
        BY <2>1 DEF Idle
      <3>2. c.id \in Known
        BY <3>1 DEF Honest, CallHonest
      <3>3. Exists(c.id) /\ row[c.id].kind = "extraction"
        BY <1>a, <3>2, KindsStay DEF Exists
      <3>4. QED
        BY <3>1, <3>3 DEF Finishing, Truthful
    <2>2. CASE \E a \in Agents, d \in {call'[k]} : Posted(a, k, d)
      <3>1. PICK a \in Agents : Posted(a, k, c)
        BY <2>2
      <3>2. agent[a].pc = "complete" /\ agent[a].id = c.id /\ UNCHANGED row
        BY <3>1 DEF Posted, OpOf, Arrive
      <3>3. agent[a].id # Null /\ agent[a].id \in Ids
        BY <3>2 DEF Base, AgentsOK, LoopOK, Known
      <3>4. agent[a].kind = "extraction"
        BY <3>2, <3>3 DEF Honest, Named, Exists
      <3>5. QED
        BY <3>2, <3>3, <3>4, CompletesTried DEF Finishing
    <2>3. CASE Statement(k) /\ Tells(k, c)
      <3>1. call[k].op = "complete" /\ call[k].pc # "idle" /\ call[k].ok /\ c.id = call[k].id
        BY <2>3 DEF Tells
      <3>2. c.id \in Known
        BY <3>1 DEF Honest, CallHonest
      <3>3. Exists(c.id) /\ row[c.id].kind = "extraction"
        BY <1>a, <3>2, KindsStay DEF Exists
      <3>4. QED
        BY <3>1, <3>3 DEF Finishing, Truthful
    <2>4. QED
      BY <1>a, <2>1, <2>2, <2>3, CallSteps
  <1>3. HonestCompletion'
    <2> SUFFICES ASSUME NEW i \in Ids, Has(i, {"COMPLETED"})', row'[i].kind = "extraction"
                 PROVE  i \in tried
      BY <1>a DEF HonestCompletion
    <2>1. CASE Has(i, {"COMPLETED"})
      <3>1. i \in Known
        BY <2>1, <1>a, IdsAssumption DEF TypeOK, FreshIds, Has, Known, Exists
      <3>2. row[i].kind = "extraction"
        BY <1>a, <3>1, KindsStay DEF Has
      <3>3. QED
        BY <2>1, <3>2 DEF Finishing, HonestCompletion
    <2>2. CASE ~Has(i, {"COMPLETED"})
      <3>1. PICK h \in Handlers : Statement(h)
        <4>1. ~UNCHANGED row
          BY <2>2 DEF Has, Exists
        <4>2. QED
          BY <1>a, <4>1, DaemonNextSteps
          DEF DaemonStep, Ends, Posted, Arrive, Return, Crashed, ServerCrash
      <3>2. CompleteWrite(h) /\ call[h].id = i /\ call[h].ok /\ Exists(i)
        BY <1>a, <2>2, <3>1, CompletedBy
      <3>3. call[h].pc = "complete_write" /\ call[h].op = "complete" /\ i \in Known
        BY <3>2 DEF CompleteWrite, Honest, CallHonest, CompletePcs
      <3>4. row[i].kind = "extraction"
        BY <1>a, <3>3, KindsStay DEF Has
      <3>5. QED
        BY <3>2, <3>3, <3>4 DEF Finishing, Truthful
    <2>3. QED
      BY <2>1, <2>2
  <1>4. QED
    BY <1>1, <1>2, <1>3 DEF Finishing

\* COMPLETED is never shown with sources left ("never COMPLETED while sources remain",
\* _run_claimed_request): some agent has worked through or given up with an error every
\* source of the request, however many slices, retries and faults lie between, and however
\* late its completion is carried out.
THEOREM HonestCompletionCorrect == StraySpec => []HonestCompletion
  <1>1. Base /\ Honest /\ AllTried /\ Finishing /\ [StrayNext]_strayVars => Finishing'
    BY FinishingStep
  <1>2. Finishing => HonestCompletion
    BY DEF Finishing
  <1>3. QED
    BY <1>1, <1>2, FinishingInit, StrayIsDaemon, BaseInvariant, HonestInvariant, PTL DEF StraySpec
=============================================================================
