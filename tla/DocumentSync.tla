---------------------------- MODULE DocumentSync ----------------------------
(***************************************************************************)
(* The agents' side of document synchronisation, composed with the archive *)
(* of the server: cli.py _sync_documents, _resync_ocr_gaps, cmd_sync and   *)
(* the resync-all request, operations/ocr_recovery.py.                     *)
(*                                                                         *)
(* An agent is one thread with a database of its own. It posts a document  *)
(* right after it downloaded it and again when OCR found text in it. What  *)
(* it remembers of a document on the server is two columns:                *)
(* agent_synced_at and agent_sync_error.                                   *)
(***************************************************************************)
EXTENDS DocumentArchive

CONSTANTS
    Agents,
    Rounds,  \* bound on the operator's commands
    Faults   \* bound on lost posts and answers, timeouts and crashes

ASSUME AgentsAssumption == Null \notin Handlers
ASSUME BoundsAssumption == Rounds \in Nat /\ Faults \in Nat

VARIABLES
    local,   \* agent -> URL -> the document in its database, or Null
    todo,    \* agent -> the documents its batch has still to push
    post,    \* agent -> [url, thread] of the post it waits for, or Null
    rounds,
    faults

syncVars == <<archiveVars, local, todo, post, rounds, faults>>
agentVars == <<local, todo, post>>

\* ocr is the text its own OCR found; ran is ran_at, in whole seconds, against
\* agent_synced_at.
Locals == [content : Contents, ocr : {"none", "poor", "good"},
           synced : BOOLEAN, error : BOOLEAN, ran : {"before", "same", "after"}]

ASSUME LocalsAssumption == Null \notin Locals

SyncInit ==
    /\ Init
    /\ local = [a \in Agents |-> [u \in Urls |-> Null]]
    /\ todo = [a \in Agents |-> {}]
    /\ post = [a \in Agents |-> Null]
    /\ rounds = 0 /\ faults = 0

Has(a, u) == local[a][u] # Null
Free(a)   == post[a] = Null /\ todo[a] = {}
Unsent(docs, retry) == {u \in Urls : docs[u] # Null /\ ~docs[u].synced /\ (retry \/ ~docs[u].error)}

Update(a, u, l) == local' = [local EXCEPT ![a][u] = l]
Synced(l) == [l EXCEPT !.synced = TRUE, !.error = FALSE, !.ran = "before"]
Failed(l) == [l EXCEPT !.error = TRUE]

-----------------------------------------------------------------------------
(* Between posts                                                           *)

\* What the site serves may differ from agent to agent: it changes over time.
Download(a, u, c) ==
    /\ Free(a) /\ ~Has(a, u)
    /\ Update(a, u, [content |-> c, ocr |-> "none", synced |-> FALSE, error |-> FALSE,
                     ran |-> "before"])
    /\ UNCHANGED <<archiveVars, todo, post, rounds, faults>>

\* The agent's own run_parsing; it has Tesseract. Parsing a document with a text layer changes
\* nothing here.
ParseLocally(a, u, o, ran) ==
    LET l == local[a][u]
    IN  /\ Free(a) /\ Has(a, u)
        /\ l.content \in Scanned /\ l.ocr = "none"
        /\ o # "none"
        /\ IF l.synced THEN ran \in {"same", "after"} ELSE ran = "before"
        /\ Update(a, u, [l EXCEPT !.ocr = o, !.ran = ran])
        /\ UNCHANGED <<archiveVars, todo, post, rounds, faults>>

\* find_unsynced_ocr_gaps and reset_for_resync, then the batch of _sync_documents.
\* (Mutant of ReopenGaps: the document stays synced, as before the OCR recovery was written.)
ReopenNothing(docs) == docs

ReopenGaps(docs) ==
    [u \in Urls |-> IF docs[u] # Null /\ docs[u].synced /\ docs[u].ran = "after"
                      THEN [docs[u] EXCEPT !.synced = FALSE] ELSE docs[u]]

StartBatch(a) ==
    LET docs == ReopenGaps(local[a])
    IN  /\ Free(a)
        /\ Unsent(docs, FALSE) # {}
        /\ local' = [local EXCEPT ![a] = docs]
        /\ todo' = [todo EXCEPT ![a] = Unsent(docs, FALSE)]
        /\ UNCHANGED <<archiveVars, post, rounds, faults>>

\* cmd_sync --retry-failed
RetryFailed(a) ==
    /\ Free(a)
    /\ rounds < Rounds /\ rounds' = rounds + 1
    /\ todo' = [todo EXCEPT ![a] = Unsent(local[a], TRUE)]
    /\ UNCHANGED <<archiveVars, local, post, faults>>

\* The request resync_all, and cmd_sync --resync-all.
ResyncAll(a) ==
    LET docs == [u \in Urls |-> IF Has(a, u)
                   THEN [local[a][u] EXCEPT !.synced = FALSE, !.error = FALSE] ELSE Null]
    IN  /\ Free(a)
        /\ rounds < Rounds /\ rounds' = rounds + 1
        /\ local' = [local EXCEPT ![a] = docs]
        /\ todo' = [todo EXCEPT ![a] = Unsent(docs, FALSE)]
        /\ UNCHANGED <<archiveVars, post, faults>>

-----------------------------------------------------------------------------
(* Posts                                                                   *)

Push(a, h, u) ==
    /\ post[a] = Null /\ u \in todo[a]
    /\ ArriveBytes(h, "sync", u, local[a][u].content, local[a][u].ocr)
    /\ post' = [post EXCEPT ![a] = [url |-> u, thread |-> h]]
    /\ UNCHANGED <<local, todo, rounds, faults>>

\* The exchange about u is over for the agent.
Over(a, u, l) ==
    /\ Update(a, u, l)
    /\ todo' = [todo EXCEPT ![a] = @ \ {u}]
    /\ post' = [post EXCEPT ![a] = Null]
    /\ UNCHANGED rounds

Fault == faults < Faults /\ faults' = faults + 1

\* Mutant of Answered: the status is not looked at.
AnsweredAnyhow(a) ==
    /\ post[a] # Null
    /\ Return(post[a].thread)
    /\ Over(a, post[a].url, Synced(local[a][post[a].url]))
    /\ UNCHANGED faults

\* Any status but 200 is an error.
Answered(a) ==
    /\ post[a] # Null
    /\ LET u == post[a].url
           h == post[a].thread
       IN  /\ Return(h)
           /\ Over(a, u, IF call[h].reply = "ok" THEN Synced(local[a][u]) ELSE Failed(local[a][u]))
    /\ UNCHANGED faults

\* The post does not reach the server.
PostLost(a, u) ==
    /\ Fault
    /\ post[a] = Null /\ u \in todo[a]
    /\ Over(a, u, Failed(local[a][u]))
    /\ UNCHANGED archiveVars

\* The client gives up after 120 seconds, wherever the server is by then.
GiveUp(a) ==
    /\ Fault
    /\ post[a] # Null
    /\ Over(a, post[a].url, Failed(local[a][post[a].url]))
    /\ UNCHANGED archiveVars

\* Nobody waits for the answer any more.
Discard(h) ==
    /\ \A a \in Agents : post[a] # Null => post[a].thread # h
    /\ Return(h)
    /\ UNCHANGED <<agentVars, rounds, faults>>

AgentCrash(a) ==
    /\ Fault
    /\ todo' = [todo EXCEPT ![a] = {}]
    /\ post' = [post EXCEPT ![a] = Null]
    /\ UNCHANGED <<archiveVars, local, rounds>>

\* Every agent that waits for an answer gets an error.
ServerCrash(kept) ==
    LET waiting(a, u) == post[a] # Null /\ post[a].url = u
    IN  /\ Fault
        /\ Crash(kept)
        /\ local' = [a \in Agents |-> [u \in Urls |->
                       IF waiting(a, u) THEN Failed(local[a][u]) ELSE local[a][u]]]
        /\ todo' = [a \in Agents |-> {u \in todo[a] : ~waiting(a, u)}]
        /\ post' = [a \in Agents |-> Null]
        /\ UNCHANGED rounds

\* Meanwhile a crawl on the server registers links.
Elsewhere(u) == Discover(u) /\ UNCHANGED <<agentVars, rounds, faults>>

\* Reviewers decide records and staff start a cleanup on the same server.
Visit(h) ==
    /\ \/ \E r \in RecIds, op \in {"approve", "reject"} :
            r <= lastRec /\ ArriveAbout(h, op, "decide_read", r)
       \/ ArriveCleanup(h)
    /\ UNCHANGED <<agentVars, rounds, faults>>

Server(h) == Statements(h) /\ UNCHANGED <<agentVars, rounds, faults>>

SyncNext ==
    \/ \E a \in Agents, u \in Urls :
         \/ \E c \in Contents : Download(a, u, c)
         \/ \E o \in OcrTexts, ran \in {"before", "same", "after"} : ParseLocally(a, u, o, ran)
         \/ \E h \in Handlers : Push(a, h, u)
         \/ PostLost(a, u)
    \/ \E a \in Agents : StartBatch(a) \/ RetryFailed(a) \/ ResyncAll(a) \/ Answered(a)
                         \/ GiveUp(a) \/ AgentCrash(a)
    \/ \E h \in Handlers : Visit(h) \/ Server(h) \/ Discard(h)
    \/ \E u \in Urls : Elsewhere(u)
    \/ \E kept \in {disk, {}} : ServerCrash(kept)

\* The agent's loop goes on, a thread executes what it began, and a post finds a free
\* thread in the end.
Fairness ==
    /\ \A a \in Agents :
         /\ WF_syncVars(StartBatch(a)) /\ WF_syncVars(Answered(a))
         /\ \A u \in Urls : SF_syncVars(\E h \in Handlers : Push(a, h, u))
    /\ \A h \in Handlers : WF_syncVars(Server(h)) /\ WF_syncVars(Discard(h))

SyncSpec == SyncInit /\ [][SyncNext]_syncVars /\ Fairness

-----------------------------------------------------------------------------
SyncTypeOK ==
    /\ TypeOK
    /\ local \in [Agents -> [Urls -> Locals \cup {Null}]]
    /\ todo \in [Agents -> SUBSET Urls]
    /\ post \in [Agents -> [url : Urls, thread : Handlers] \cup {Null}]
    /\ rounds \in 0 .. Rounds /\ faults \in 0 .. Faults

Archived(u, c) == {d \in DocsOf(u) : doc[d].content = c /\ doc[d].blob = c}

\* What an agent believes synced the server holds durably, with a record of it, whatever was
\* lost or crashed: nobody will ever push that document again.
SyncedIsDurable ==
    \A a \in Agents, u \in Urls : Has(a, u) /\ local[a][u].synced =>
        \E d \in Archived(u, local[a][u].content) : RecsOf(d) # {}

HasText(u, c) == \E d \in Archived(u, c) : \E r \in RecsOf(d) : ~rec[r].needsOcr

\* A document decided before its text arrived: no push reopens it (pipeline.py can_recover).
DecidedWithout(u, c) ==
    \E d \in Archived(u, c) : \E r \in Newest(RecsOf(d)) :
        rec[r].status # "pending" /\ rec[r].needsOcr

\* Text an agent found reaches a record on the server, whatever reviewers and cleanups do
\* meanwhile, unless the agent keeps an error that an operator can see and retry. Two losses
\* nobody sees are excepted, no more: the record was decided while it lacked the text, and
\* the OCR ended in the very second of the sync.
TextArrives ==
    \A a \in Agents, u \in Urls :
        (Has(a, u) /\ local[a][u].ocr = "good" /\ local[a][u].ran # "same")
          ~> LET c == local[a][u].content
             IN  Has(a, u) /\ (local[a][u].error \/ HasText(u, c) \/ DecidedWithout(u, c))
=============================================================================
