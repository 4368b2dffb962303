------------------------- MODULE DocumentSyncProofs -------------------------
(***************************************************************************)
(* What an agent believes synced the server holds durably                  *)
(* (SyncedIsDurable), for any number of agents, documents, threads, lost   *)
(* posts, timeouts and crashes of either side.                             *)
(*                                                                         *)
(* The archive together with the agents behaves like the archive alone, so *)
(* that what DocumentArchiveProofs shows of its steps can be used here.    *)
(* What remains is the exchange: the answer an agent takes is the answer   *)
(* to the bytes it has (Attended), from a thread nobody else waits for     *)
(* (Apart).                                                                *)
(***************************************************************************)
EXTENDS DocumentSync, DocumentArchiveProofs

\* A document in an agent's database; its text is one a post may carry.
LocalOK ==
    /\ local \in [Agents -> [Urls -> Locals \cup {Null}]]
    /\ \A a \in Agents, u \in Urls : Has(a, u) => local[a][u].ocr \in OcrTexts
    /\ \A a \in Agents, u \in Urls : Has(a, u) /\ local[a][u].ocr # "none" => local[a][u].content \in Scanned

TodoOK ==
    /\ todo \in [Agents -> SUBSET Urls]
    /\ \A a \in Agents : \A u \in todo[a] : Has(a, u)

\* The thread agent a waits for serves a sync of the bytes a has.
Serves(a, u, h) ==
    /\ Has(a, u)
    /\ call[h].op = "sync" /\ call[h].pc # "idle"
    /\ call[h].url = u /\ call[h].content = local[a][u].content

Attended ==
    /\ post \in [Agents -> [url : Urls, thread : Handlers] \cup {Null}]
    /\ \A a \in Agents : post[a] # Null => Serves(a, post[a].url, post[a].thread)

Apart == \A a, b \in Agents : post[a] # Null /\ post[b] # Null /\ post[a].thread = post[b].thread => a = b

Durable(u, c) == \E d \in Archived(u, c) : RecsOf(d) # {}

SyncInv == Inv /\ LocalOK /\ TodoOK /\ Attended /\ Apart /\ SyncedIsDurable

-----------------------------------------------------------------------------
(* Of the archive                                                          *)

\* What is durable stays durable: a blob is not lost, and a record goes only when a newer one is there.
LEMMA DurableStays ==
    ASSUME Grows, NEW u \in Urls, NEW c \in Contents, Durable(u, c)
    PROVE  Durable(u, c)'
  <1>1. PICK d \in DocIds : doc[d] # Null /\ doc[d].url = u /\ doc[d].content = c /\ doc[d].blob = c /\ RecsOf(d) # {}
    BY DEF Durable, Archived, DocsOf
  <1>2. doc'[d] # Null /\ doc'[d].url = u /\ doc'[d].content = c /\ doc'[d].blob = c
    BY <1>1 DEF Grows, DocsGrow
  <1>3. PICK r \in RecIds : rec[r] # Null /\ rec[r].doc = d
    BY <1>1 DEF RecsOf
  <1>4. \E q \in RecIds : rec'[q] # Null /\ rec'[q].doc = d
    BY <1>3 DEF Grows, RecsGrow
  <1>5. RecsOf(d)' # {}
    BY <1>4 DEF RecsOf
  <1>6. QED
    BY <1>1, <1>2, <1>5 DEF Durable, Archived, DocsOf

\* A thread that executes a sync goes on with the same sync, or has answered it.
KeepsSync(b, c) == b.op = "sync" =>
    c.op = "sync" /\ c.pc # "idle" /\ c.url = b.url /\ c.content = b.content

LEMMA ReplyKeeps ==
    ASSUME NEW h \in Handlers, call[h] \in Calls, NEW r, Reply(h, r)
    PROVE  \E c : Become(h, c) /\ KeepsSync(call[h], c)
  <1>1. CASE call[h].op = "sync"
    <2>1. Become(h, [call[h] EXCEPT !.pc = "replied", !.reply = r])
      BY <1>1 DEF Reply
    <2>2. KeepsSync(call[h], [call[h] EXCEPT !.pc = "replied", !.reply = r])
      BY DEF KeepsSync, Calls
    <2>3. QED
      BY <2>1, <2>2
  <1>2. CASE call[h].op # "sync"
    BY <1>2 DEF Reply, KeepsSync
  <1>3. QED
    BY <1>1, <1>2

LEMMA GotoKeeps ==
    ASSUME NEW h \in Handlers, call[h] \in Calls, NEW pc, pc # "idle", Goto(h, pc)
    PROVE  \E c : Become(h, c) /\ KeepsSync(call[h], c)
  <1>1. Become(h, [call[h] EXCEPT !.pc = pc])
    BY DEF Goto
  <1>2. KeepsSync(call[h], [call[h] EXCEPT !.pc = pc])
    BY DEF KeepsSync, Calls
  <1>3. QED
    BY <1>1, <1>2

LEMMA FinishKeeps ==
    ASSUME NEW h \in Handlers, NEW e \in Calls, e.op = call[h].op, KeepsSync(call[h], e), Finish(h, e)
    PROVE  \E c : Become(h, c) /\ KeepsSync(call[h], c)
  <1>1. CASE e.op = "sync"
    <2>1. Become(h, [e EXCEPT !.pc = "blob"])
      BY <1>1 DEF Finish
    <2>2. KeepsSync(call[h], [e EXCEPT !.pc = "blob"])
      BY DEF KeepsSync, Calls
    <2>3. QED
      BY <2>1, <2>2
  <1>2. CASE e.op # "sync"
    BY <1>2 DEF Finish, KeepsSync
  <1>3. QED
    BY <1>1, <1>2

LEMMA StatementKeeps ==
    ASSUME Inv, NEW h \in Handlers, Statements(h)
    PROVE  \E c : Become(h, c) /\ KeepsSync(call[h], c)
  <1>a. call[h] \in Calls /\ HasUrl(call[h])
    BY DEF Inv, Promises, Promise
  <1>1. CASE FindLink(h) \/ InsertLink(h) \/ Store(h)
    BY <1>a, <1>1, ReplyKeeps, GotoKeeps DEF FindLink, InsertLink, Store
  <1>2. ASSUME NEW content \in Contents, Fetched(h, content) PROVE \E c : Become(h, c) /\ KeepsSync(call[h], c)
    BY <1>a, <1>2 DEF Fetched, KeepsSync, HasUrl, At
  <1>3. CASE FetchRejected(h) \/ FetchFailed(h) \/ StoreBlob(h)
    BY <1>a, <1>3, ReplyKeeps DEF FetchRejected, FetchFailed, StoreBlob
  <1>4. CASE FindLatest(h)
    <2>1. ASSUME NEW d, Become(h, [call[h] EXCEPT !.pc = "set_downloaded", !.doc = d])
          PROVE  \E c : Become(h, c) /\ KeepsSync(call[h], c)
      <3>1. KeepsSync(call[h], [call[h] EXCEPT !.pc = "set_downloaded", !.doc = d])
        BY <1>a DEF KeepsSync, Calls
      <3>2. QED
        BY <2>1, <3>1
    <2>2. ASSUME NEW d, Become(h, [call[h] EXCEPT !.pc = "insert_doc", !.doc = d, !.isNew = TRUE])
          PROVE  \E c : Become(h, c) /\ KeepsSync(call[h], c)
      <3>1. KeepsSync(call[h], [call[h] EXCEPT !.pc = "insert_doc", !.doc = d, !.isNew = TRUE])
        BY <1>a DEF KeepsSync, Calls
      <3>2. QED
        BY <2>2, <3>1
    <2>3. CASE Become(h, [call[h] EXCEPT !.pc = "insert_doc", !.isNew = TRUE])
      <3>1. KeepsSync(call[h], [call[h] EXCEPT !.pc = "insert_doc", !.isNew = TRUE])
        BY <1>a DEF KeepsSync, Calls
      <3>2. QED
        BY <2>3, <3>1
    <2>4. QED
      BY <1>4, <2>1, <2>2, <2>3 DEF FindLatest
  <1>5. CASE InsertDocument(h)
    <2>1. KeepsSync(call[h], [call[h] EXCEPT !.pc = "set_downloaded", !.doc = lastDoc + 1])
      BY <1>a DEF KeepsSync, Calls
    <2>2. QED
      BY <1>a, <1>5, <2>1, ReplyKeeps DEF InsertDocument
  <1>6. CASE SetDownloaded(h)
    <2>1. CASE call[h].op = "acquire"
      BY <1>6, <2>1 DEF SetDownloaded, KeepsSync
    <2>2. ASSUME NEW pc \in {"extract", "look_up"}, Become(h, [call[h] EXCEPT !.pc = pc, !.isNew = FALSE])
          PROVE  \E c : Become(h, c) /\ KeepsSync(call[h], c)
      <3>1. KeepsSync(call[h], [call[h] EXCEPT !.pc = pc, !.isNew = FALSE])
        BY <1>a DEF KeepsSync, Calls
      <3>2. QED
        BY <2>2, <3>1
    <2>3. QED
      BY <1>6, <2>1, <2>2 DEF SetDownloaded
  <1>7. CASE LookUp(h)
    <2>1. ASSUME NEW r, Become(h, [call[h] EXCEPT !.pc = "extract", !.todo = {r}])
          PROVE  \E c : Become(h, c) /\ KeepsSync(call[h], c)
      <3>1. KeepsSync(call[h], [call[h] EXCEPT !.pc = "extract", !.todo = {r}])
        BY <1>a DEF KeepsSync, Calls
      <3>2. QED
        BY <2>1, <3>1
    <2>2. ASSUME NEW r \in RecIds, Finish(h, [call[h] EXCEPT !.rec = r])
          PROVE  \E c : Become(h, c) /\ KeepsSync(call[h], c)
      <3> DEFINE e == [call[h] EXCEPT !.rec = r]
      <3>1. e \in Calls /\ e.op = call[h].op /\ (call[h].pc # "idle" => KeepsSync(call[h], e))
        BY <1>a DEF KeepsSync, Calls
      <3>2. call[h].pc # "idle"
        BY <1>7 DEF LookUp, At
      <3> HIDE DEF e
      <3>3. Finish(h, e)
        BY <2>2 DEF e
      <3>4. QED
        BY <3>1, <3>2, <3>3, FinishKeeps
    <2>3. CASE Goto(h, "extract")
      BY <1>a, <2>3, GotoKeeps
    <2>4. QED
      BY <1>7, <2>1, <2>2, <2>3 DEF LookUp, Newest, RecsOf
  <1>8. CASE Extract(h)
    <2>1. ASSUME NEW weak, Become(h, [call[h] EXCEPT !.pc = "insert_record", !.needsOcr = weak])
          PROVE  \E c : Become(h, c) /\ KeepsSync(call[h], c)
      <3>1. KeepsSync(call[h], [call[h] EXCEPT !.pc = "insert_record", !.needsOcr = weak])
        BY <1>a DEF KeepsSync, Calls
      <3>2. QED
        BY <2>1, <3>1
    <2>2. QED
      BY <1>a, <1>8, <2>1, ReplyKeeps DEF Extract
  <1>9. CASE InsertRecord(h)
    <2>1. KeepsSync(call[h], [call[h] EXCEPT !.pc = "insert_fields", !.rec = lastRec + 1, !.needsOcr = FALSE])
      BY <1>a DEF KeepsSync, Calls
    <2>2. QED
      BY <1>9, <2>1 DEF InsertRecord
  <1>10. CASE InsertFields(h)
    BY <1>a, <1>10, ReplyKeeps, GotoKeeps DEF InsertFields
  <1>11. CASE SetParsed(h)
    <2>1. call[h].pc # "idle"
      BY <1>11 DEF SetParsed, At
    <2>2. KeepsSync(call[h], call[h])
      BY <2>1 DEF KeepsSync
    <2>3. QED
      BY <1>a, <1>11, <2>2, GotoKeeps, FinishKeeps DEF SetParsed
  <1>12. CASE ReprocessRead(h) \/ (\E b \in BOOLEAN : DecideRead(h, b)) \/ DecideWrite(h) \/ DecideMark(h)
    <2>1. call[h].op # "sync"
      BY <1>a, <1>12 DEF HasUrl, ReprocessRead, DecideRead, DecideWrite, DecideMark, At, Deciding
    <2>2. \E c : Become(h, c)
      BY <1>12 DEF ReprocessRead, DecideRead, DecideWrite, DecideMark, Goto, Reply
    <2>3. QED
      BY <2>1, <2>2 DEF KeepsSync
  <1>13. CASE ListDuplicates(h)
    <2>1. call[h].op = "cleanup"
      BY <1>a, <1>13 DEF HasUrl, ListDuplicates, At
    <2>2. \E c : Become(h, c)
      BY <1>13 DEF ListDuplicates, Reply
    <2>3. QED
      BY <2>1, <2>2 DEF KeepsSync
  <1>14. CASE DropFields(h)
    <2>1. PICK r : Become(h, [call[h] EXCEPT !.pc = "drop_record", !.drop = r])
      BY <1>14 DEF DropFields
    <2>2. KeepsSync(call[h], [call[h] EXCEPT !.pc = "drop_record", !.drop = r])
      BY <1>a DEF KeepsSync, Calls
    <2>3. QED
      BY <2>1, <2>2
  <1>15. CASE DropRecord(h)
    <2> DEFINE c == [call[h] EXCEPT !.todo = call[h].todo \ {call[h].drop}, !.drop = Null]
               e == [c EXCEPT !.pc = "drop_fields"]
    <2>1. call[h].pc = "drop_record"
      BY <1>15 DEF DropRecord, At
    <2>2. c \in Calls /\ c.op = call[h].op /\ KeepsSync(call[h], c) /\ KeepsSync(call[h], e)
      BY <1>a, <2>1, ZenonT(60) DEF KeepsSync, Calls
    <2>3. Reply(h, "500") \/ Finish(h, c) \/ Become(h, e)
      BY <1>15 DEF DropRecord
    <2> HIDE DEF c, e
    <2>4. QED
      BY <1>a, <2>2, <2>3, ReplyKeeps, FinishKeeps
  <1>16. QED
    BY <1>1, <1>2, <1>3, <1>4, <1>5, <1>6, <1>7, <1>8, <1>9, <1>10, <1>11, <1>12, <1>13, <1>14, <1>15
       DEF Statements

\* A statement of one thread leaves what every sync is about alone, and no sync is over before it is answered.
LEMMA SyncKept ==
    ASSUME Inv, NEW h \in Handlers, Statements(h), NEW g \in Handlers, call[g].op = "sync", call[g].pc # "idle"
    PROVE  /\ call'[g].op = "sync" /\ call'[g].pc # "idle"
           /\ call'[g].url = call[g].url /\ call'[g].content = call[g].content
  <1>1. PICK c : Become(h, c) /\ KeepsSync(call[h], c)
    BY StatementKeeps
  <1>2. call \in [Handlers -> Calls]
    BY DEF Inv, Promises
  <1>3. QED
    BY <1>1, <1>2 DEF Become, KeepsSync

-----------------------------------------------------------------------------
(* Of the agents                                                           *)

\* An agent forgets no document and no bytes, and believes none synced that it did not.
LocalMoves == \A a \in Agents, u \in Urls :
    /\ Has(a, u) => Has(a, u)' /\ local'[a][u].content = local[a][u].content
    /\ Has(a, u)' /\ local'[a][u].synced => Has(a, u) /\ local[a][u].synced

\* The row of one document changes.
LEMMA UpdateOne ==
    ASSUME LocalOK, NEW a \in Agents, NEW u \in Urls, NEW l \in Locals, Update(a, u, l),
           l.ocr \in OcrTexts, l.ocr # "none" => l.content \in Scanned,
           Has(a, u) => l.content = local[a][u].content
    PROVE  /\ LocalOK'
           /\ \A b \in Agents, v \in Urls : Has(b, v) => Has(b, v)' /\ local'[b][v].content = local[b][v].content
           /\ (l.synced => Has(a, u) /\ local[a][u].synced) => LocalMoves
  <1>1. l # Null
    BY LocalsAssumption
  <1>2. local'[a][u] = l /\ \A b \in Agents, v \in Urls : b # a \/ v # u => local'[b][v] = local[b][v]
    BY DEF Update, LocalOK
  <1>3. local' \in [Agents -> [Urls -> Locals \cup {Null}]]
    BY DEF Update, LocalOK
  <1>4. LocalOK'
    BY <1>1, <1>2, <1>3 DEF LocalOK, Has
  <1>5. QED
    BY <1>1, <1>2, <1>4 DEF LocalMoves, Has

\* Many rows change, in columns of the synchronisation only.
LEMMA UpdateMany ==
    ASSUME LocalOK, local' \in [Agents -> [Urls -> Locals \cup {Null}]],
           \A a \in Agents, u \in Urls :
              IF Has(a, u) THEN /\ local'[a][u] # Null
                                /\ local'[a][u].content = local[a][u].content
                                /\ local'[a][u].ocr = local[a][u].ocr
                                /\ local'[a][u].synced => local[a][u].synced
              ELSE local'[a][u] = Null
    PROVE  LocalOK' /\ LocalMoves
  BY DEF LocalOK, LocalMoves, Has

\* Nothing an agent has changes.
LEMMA NoUpdate ==
    ASSUME LocalOK, UNCHANGED local
    PROVE  LocalOK' /\ LocalMoves
  BY DEF LocalOK, LocalMoves, Has

\* The documents to push are still there.
LEMMA TodoStays ==
    ASSUME TodoOK, \A a \in Agents, u \in Urls : Has(a, u) => Has(a, u)',
           todo' \in [Agents -> SUBSET Urls], \A a \in Agents : todo'[a] \subseteq todo[a]
    PROVE  TodoOK'
  BY DEF TodoOK

\* The row of a document, with its bytes known.
LEMMA RowOf ==
    ASSUME LocalOK, NEW a \in Agents, NEW u \in Urls, Has(a, u)
    PROVE  /\ local[a][u] \in Locals /\ local[a][u].content \in Contents /\ local[a][u].ocr \in OcrTexts
           /\ Failed(local[a][u]) \in Locals /\ Synced(local[a][u]) \in Locals
           /\ Failed(local[a][u]).content = local[a][u].content /\ Failed(local[a][u]).ocr = local[a][u].ocr
           /\ Failed(local[a][u]).synced = local[a][u].synced
           /\ Synced(local[a][u]).content = local[a][u].content /\ Synced(local[a][u]).ocr = local[a][u].ocr
  <1>1. local[a][u] \in Locals
    BY DEF LocalOK, Has
  <1>2. QED
    BY <1>1 DEF LocalOK, Locals, Failed, Synced

\* Posts that are still waited for keep being served.
LEMMA StillWaiting ==
    ASSUME Attended, Apart, post' \in [Agents -> [url : Urls, thread : Handlers] \cup {Null}],
           \A a \in Agents, u \in Urls : Has(a, u) => Has(a, u)' /\ local'[a][u].content = local[a][u].content,
           \A a \in Agents : post'[a] # Null =>
              /\ post'[a] = post[a]
              /\ call'[post[a].thread].op = "sync" /\ call'[post[a].thread].pc # "idle"
              /\ call'[post[a].thread].url = call[post[a].thread].url
              /\ call'[post[a].thread].content = call[post[a].thread].content
    PROVE  Attended' /\ Apart'
  <1>1. Apart'
    BY DEF Apart
  <1>2. ASSUME NEW a \in Agents, post'[a] # Null
        PROVE  Serves(a, post[a].url, post[a].thread)' /\ post'[a] = post[a]
    <2>1. PICK p \in [url : Urls, thread : Handlers] : p = post[a] /\ p = post'[a]
      BY <1>2 DEF Attended
    <2>2. p.url \in Urls /\ p.thread \in Handlers /\ Serves(a, p.url, p.thread)
      BY <1>2, <2>1 DEF Attended
    <2>3. Serves(a, p.url, p.thread)'
      BY <1>2, <2>1, <2>2 DEF Serves
    <2>4. QED
      BY <2>1, <2>3 DEF Serves
  <1>3. QED
    BY <1>1, <1>2 DEF Attended, Serves

\* Nobody starts to believe anything new: what is durable stays so.
LEMMA BeliefStays ==
    ASSUME SyncedIsDurable, LocalOK, Grows, LocalMoves
    PROVE  SyncedIsDurable'
  <1>1. SUFFICES ASSUME NEW a \in Agents, NEW u \in Urls, Has(a, u)', local'[a][u].synced
                 PROVE  (\E d \in Archived(u, local[a][u].content) : RecsOf(d) # {})'
    BY DEF SyncedIsDurable
  <1>2. PICK c \in Contents : c = local[a][u].content /\ c = local'[a][u].content /\ Has(a, u) /\ local[a][u].synced
    BY <1>1, RowOf DEF LocalMoves
  <1>3. Durable(u, c)
    BY <1>2 DEF SyncedIsDurable, Durable
  <1>4. Durable(u, c)'
    BY <1>3, DurableStays
  <1>5. QED
    BY <1>2, <1>4 DEF Durable

LEMMA WaitingUndisturbed ==
    ASSUME Attended, Apart, UNCHANGED call, post' \in [Agents -> [url : Urls, thread : Handlers] \cup {Null}],
           \A a \in Agents, u \in Urls : Has(a, u) => Has(a, u)' /\ local'[a][u].content = local[a][u].content,
           \A a \in Agents : post'[a] # Null => post'[a] = post[a]
    PROVE  Attended' /\ Apart'
  <1>1. ASSUME NEW a \in Agents, post'[a] # Null
        PROVE  call[post[a].thread].op = "sync" /\ call[post[a].thread].pc # "idle"
    BY <1>1 DEF Attended, Serves
  <1>2. QED
    BY <1>1, StillWaiting

\* A step of the agents that leaves the archive alone.
LEMMA AwayFromArchive ==
    ASSUME SyncInv, UNCHANGED archiveVars, LocalOK', LocalMoves, TodoOK',
           post' \in [Agents -> [url : Urls, thread : Handlers] \cup {Null}],
           \A a \in Agents : post'[a] # Null => post'[a] = post[a]
    PROVE  SyncInv' /\ [Next]_archiveVars
  <1>1. Inv' /\ Grows /\ UNCHANGED call
    BY NextStep DEF SyncInv, archiveVars
  <1>2. Attended' /\ Apart'
    BY <1>1, WaitingUndisturbed DEF SyncInv, LocalMoves
  <1>3. SyncedIsDurable'
    BY <1>1, BeliefStays DEF SyncInv
  <1>4. QED
    BY <1>1, <1>2, <1>3 DEF SyncInv

LEMMA DownloadStep ==
    ASSUME SyncInv, NEW a \in Agents, NEW u \in Urls, NEW c \in Contents, Download(a, u, c)
    PROVE  SyncInv' /\ [Next]_archiveVars
  <1> DEFINE l == [content |-> c, ocr |-> "none", synced |-> FALSE, error |-> FALSE, ran |-> "before"]
  <1>1. l \in Locals /\ ~l.synced /\ l.ocr = "none"
    BY DEF Locals
  <1>2. Update(a, u, l) /\ ~Has(a, u)
    BY DEF Download
  <1> HIDE DEF l
  <1>3. LocalOK' /\ LocalMoves
    BY <1>1, <1>2, UpdateOne, OcrTextsAssumption DEF SyncInv
  <1>4. TodoOK'
    BY <1>3, TodoStays DEF Download, SyncInv, TodoOK, LocalMoves
  <1>5. QED
    BY <1>3, <1>4, AwayFromArchive DEF Download, SyncInv, Attended

LEMMA ParseLocallyStep ==
    ASSUME SyncInv, NEW a \in Agents, NEW u \in Urls, NEW o \in OcrTexts,
           NEW ran \in {"before", "same", "after"}, ParseLocally(a, u, o, ran)
    PROVE  SyncInv' /\ [Next]_archiveVars
  <1>1. local[a][u] \in Locals /\ Has(a, u)
    BY RowOf DEF ParseLocally, SyncInv
  <1>2. Update(a, u, [local[a][u] EXCEPT !.ocr = o, !.ran = ran])
    BY DEF ParseLocally
  <1> DEFINE l == [local[a][u] EXCEPT !.ocr = o, !.ran = ran]
  <1>3. o \in {"none", "poor", "good"}
    BY OcrTextsAssumption
  <1>4. /\ l \in Locals /\ l.synced = local[a][u].synced /\ l.ocr = o
        /\ l.content = local[a][u].content
    BY <1>1, <1>3 DEF Locals
  <1>5. o # "none" => local[a][u].content \in Scanned
    BY DEF ParseLocally
  <1>6. Update(a, u, l)
    BY <1>2
  <1> HIDE DEF l
  <1>7. LocalOK' /\ LocalMoves
    BY <1>1, <1>4, <1>5, <1>6, UpdateOne DEF SyncInv
  <1>8. TodoOK'
    BY <1>7, TodoStays DEF ParseLocally, SyncInv, TodoOK, LocalMoves
  <1>9. QED
    BY <1>7, <1>8, AwayFromArchive DEF ParseLocally, SyncInv, Attended

\* The documents of a batch are documents the agent has.
LEMMA BatchOK ==
    ASSUME LocalOK, TodoOK, NEW a \in Agents, NEW docs \in [Urls -> Locals \cup {Null}],
           NEW retry \in BOOLEAN, local' = [local EXCEPT ![a] = docs],
           \A u \in Urls : IF Has(a, u) THEN /\ docs[u] # Null
                                             /\ docs[u].content = local[a][u].content
                                             /\ docs[u].ocr = local[a][u].ocr
                                             /\ docs[u].synced => local[a][u].synced
                           ELSE docs[u] = Null,
           todo' = [todo EXCEPT ![a] = Unsent(docs, retry)]
    PROVE  LocalOK' /\ LocalMoves /\ TodoOK'
  <1>1. local'[a] = docs /\ \A b \in Agents : b # a => local'[b] = local[b]
    BY DEF LocalOK
  <1>2. local' \in [Agents -> [Urls -> Locals \cup {Null}]]
    BY DEF LocalOK
  <1>3. LocalOK' /\ LocalMoves
    <2>1. ASSUME NEW b \in Agents, NEW u \in Urls
          PROVE  IF Has(b, u) THEN /\ local'[b][u] # Null
                                   /\ local'[b][u].content = local[b][u].content
                                   /\ local'[b][u].ocr = local[b][u].ocr
                                   /\ local'[b][u].synced => local[b][u].synced
                 ELSE local'[b][u] = Null
      BY <1>1 DEF Has
    <2>2. QED
      BY <1>2, <2>1, UpdateMany
  <1>4. todo' \in [Agents -> SUBSET Urls]
    BY DEF TodoOK, Unsent
  <1>5. ASSUME NEW b \in Agents, NEW u \in todo'[b] PROVE Has(b, u)'
    <2>1. CASE b = a
      BY <1>1, <2>1, <1>5 DEF Unsent, TodoOK, Has
    <2>2. CASE b # a
      BY <1>1, <2>2, <1>5 DEF TodoOK, Has
    <2>3. QED
      BY <2>1, <2>2
  <1>6. QED
    BY <1>3, <1>4, <1>5 DEF TodoOK

LEMMA StartBatchStep ==
    ASSUME SyncInv, NEW a \in Agents, StartBatch(a)
    PROVE  SyncInv' /\ [Next]_archiveVars
  <1> DEFINE docs == ReopenGaps(local[a])
  <1>1. local[a] \in [Urls -> Locals \cup {Null}]
    BY DEF SyncInv, LocalOK
  <1>2. ASSUME NEW u \in Urls
        PROVE  /\ docs[u] \in Locals \cup {Null}
               /\ IF Has(a, u) THEN /\ docs[u] # Null
                                    /\ docs[u].content = local[a][u].content
                                    /\ docs[u].ocr = local[a][u].ocr
                                    /\ docs[u].synced => local[a][u].synced
                  ELSE docs[u] = Null
    <2>1. CASE Has(a, u)
      <3>1. local[a][u] \in Locals
        BY <1>1, <2>1 DEF Has
      <3> DEFINE l == [local[a][u] EXCEPT !.synced = FALSE]
      <3>2. /\ l \in Locals /\ l # Null /\ l.content = local[a][u].content /\ l.ocr = local[a][u].ocr
            /\ l.synced = FALSE
        BY <3>1, LocalsAssumption DEF Locals
      <3> HIDE DEF l
      <3>3. docs[u] = l \/ docs[u] = local[a][u]
        BY DEF ReopenGaps, l
      <3>4. QED
        BY <2>1, <3>1, <3>2, <3>3 DEF Has
    <2>2. CASE ~Has(a, u)
      BY <2>2 DEF ReopenGaps, Has
    <2>3. QED
      BY <2>1, <2>2
  <1>3. docs = [u \in Urls |-> docs[u]]
    BY DEF ReopenGaps
  <1>4. local' = [local EXCEPT ![a] = docs] /\ todo' = [todo EXCEPT ![a] = Unsent(docs, FALSE)]
    BY DEF StartBatch
  <1> HIDE DEF docs
  <1>5. docs \in [Urls -> Locals \cup {Null}]
    BY <1>2, <1>3
  <1>6. LocalOK' /\ LocalMoves /\ TodoOK'
    BY <1>2, <1>4, <1>5, BatchOK DEF SyncInv
  <1>7. QED
    BY <1>6, AwayFromArchive DEF StartBatch, SyncInv, Attended

LEMMA ResyncAllStep ==
    ASSUME SyncInv, NEW a \in Agents, ResyncAll(a)
    PROVE  SyncInv' /\ [Next]_archiveVars
  <1> DEFINE docs == [u \in Urls |-> IF Has(a, u)
                        THEN [local[a][u] EXCEPT !.synced = FALSE, !.error = FALSE] ELSE Null]
  <1>1. ASSUME NEW u \in Urls
        PROVE  /\ docs[u] \in Locals \cup {Null}
               /\ IF Has(a, u) THEN /\ docs[u] # Null
                                    /\ docs[u].content = local[a][u].content
                                    /\ docs[u].ocr = local[a][u].ocr
                                    /\ docs[u].synced => local[a][u].synced
                  ELSE docs[u] = Null
    <2>1. CASE Has(a, u)
      <3>1. local[a][u] \in Locals
        BY <2>1, RowOf DEF SyncInv
      <3> DEFINE l == [local[a][u] EXCEPT !.synced = FALSE, !.error = FALSE]
      <3>2. /\ l \in Locals /\ l # Null /\ l.content = local[a][u].content /\ l.ocr = local[a][u].ocr
            /\ l.synced = FALSE
        BY <3>1, LocalsAssumption DEF Locals
      <3> HIDE DEF l
      <3>3. docs[u] = l
        BY <2>1 DEF l
      <3>4. QED
        BY <2>1, <3>2, <3>3
    <2>2. CASE ~Has(a, u)
      BY <2>2
    <2>3. QED
      BY <2>1, <2>2
  <1>2. docs = [u \in Urls |-> docs[u]]
    OBVIOUS
  <1>3. local' = [local EXCEPT ![a] = docs] /\ todo' = [todo EXCEPT ![a] = Unsent(docs, FALSE)]
    BY DEF ResyncAll
  <1> HIDE DEF docs
  <1>4. docs \in [Urls -> Locals \cup {Null}]
    BY <1>1, <1>2
  <1>5. LocalOK' /\ LocalMoves /\ TodoOK'
    BY <1>1, <1>3, <1>4, BatchOK DEF SyncInv
  <1>6. QED
    BY <1>5, AwayFromArchive DEF ResyncAll, SyncInv, Attended

LEMMA RetryFailedStep ==
    ASSUME SyncInv, NEW a \in Agents, RetryFailed(a)
    PROVE  SyncInv' /\ [Next]_archiveVars
  <1>1. LocalOK' /\ LocalMoves
    BY NoUpdate DEF RetryFailed, SyncInv
  <1>2. TodoOK'
    BY DEF RetryFailed, SyncInv, TodoOK, Unsent, Has
  <1>3. QED
    BY <1>1, <1>2, AwayFromArchive DEF RetryFailed, SyncInv, Attended

-----------------------------------------------------------------------------
(* Posts                                                                   *)

\* An exchange that failed leaves the agent with an error, and nobody waiting.
LEMMA FailedExchange ==
    ASSUME SyncInv, NEW a \in Agents, NEW u \in Urls, Has(a, u), UNCHANGED archiveVars,
           Over(a, u, Failed(local[a][u]))
    PROVE  SyncInv' /\ [Next]_archiveVars
  <1> DEFINE l == Failed(local[a][u])
  <1>1. /\ local[a][u] \in Locals /\ l \in Locals /\ l.ocr = local[a][u].ocr /\ l.ocr \in OcrTexts
        /\ l.content = local[a][u].content /\ l.synced = local[a][u].synced
    BY RowOf DEF SyncInv
  <1>2. Update(a, u, l)
    BY DEF Over
  <1>3. l.ocr # "none" => l.content \in Scanned
    BY <1>1 DEF SyncInv, LocalOK
  <1> HIDE DEF l
  <1>4. LocalOK' /\ LocalMoves
    BY <1>1, <1>2, <1>3, UpdateOne DEF SyncInv
  <1>5. TodoOK'
    BY <1>4, TodoStays DEF Over, SyncInv, TodoOK, LocalMoves
  <1>6. /\ post' \in [Agents -> [url : Urls, thread : Handlers] \cup {Null}]
        /\ \A b \in Agents : post'[b] # Null => post'[b] = post[b]
    BY DEF Over, SyncInv, Attended
  <1>7. QED
    BY <1>4, <1>5, <1>6, AwayFromArchive

LEMMA PostLostStep ==
    ASSUME SyncInv, NEW a \in Agents, NEW u \in Urls, PostLost(a, u)
    PROVE  SyncInv' /\ [Next]_archiveVars
  <1>1. Has(a, u)
    BY DEF PostLost, SyncInv, TodoOK
  <1>2. QED
    BY <1>1, FailedExchange DEF PostLost

LEMMA GiveUpStep ==
    ASSUME SyncInv, NEW a \in Agents, GiveUp(a)
    PROVE  SyncInv' /\ [Next]_archiveVars
  <1>1. post[a].url \in Urls /\ Has(a, post[a].url)
    BY DEF GiveUp, SyncInv, Attended, Serves
  <1>2. QED
    BY <1>1, FailedExchange DEF GiveUp

LEMMA AgentCrashStep ==
    ASSUME SyncInv, NEW a \in Agents, AgentCrash(a)
    PROVE  SyncInv' /\ [Next]_archiveVars
  <1>1. LocalOK' /\ LocalMoves
    BY NoUpdate DEF AgentCrash, SyncInv
  <1>2. TodoOK'
    BY <1>1, TodoStays DEF AgentCrash, SyncInv, TodoOK, LocalMoves
  <1>3. /\ post' \in [Agents -> [url : Urls, thread : Handlers] \cup {Null}]
        /\ \A b \in Agents : post'[b] # Null => post'[b] = post[b]
    BY DEF AgentCrash, SyncInv, Attended
  <1>4. QED
    BY <1>1, <1>2, <1>3, AwayFromArchive DEF AgentCrash

LEMMA PushStep ==
    ASSUME SyncInv, NEW a \in Agents, NEW h \in Handlers, NEW u \in Urls, Push(a, h, u)
    PROVE  SyncInv' /\ [Next]_archiveVars
  <1>1. Has(a, u) /\ post[a] = Null
    BY DEF Push, SyncInv, TodoOK
  <1>2. PICK b \in Contents, o \in OcrTexts : b = local[a][u].content /\ o = local[a][u].ocr
    BY <1>1, RowOf DEF SyncInv
  <1>3. ArriveBytes(h, "sync", u, b, o)
    BY <1>2 DEF Push
  <1>4. Arrivals(h)
    BY <1>3 DEF Arrivals
  <1>5. Next
    BY <1>4 DEF Next
  <1>6. Inv' /\ Grows
    BY <1>5, NextStep DEF SyncInv
  <1>7. LocalOK' /\ LocalMoves
    BY NoUpdate DEF Push, SyncInv
  <1>8. TodoOK'
    BY <1>7, TodoStays DEF Push, SyncInv, TodoOK, LocalMoves
  <1>9. SyncedIsDurable'
    BY <1>6, <1>7, BeliefStays DEF SyncInv
  <1> DEFINE c == [Idle EXCEPT !.op = "sync", !.pc = "find_link", !.url = u, !.content = b, !.ocr = o]
  <1>10. call[h].pc = "idle" /\ call' = [call EXCEPT ![h] = c]
    BY <1>3 DEF ArriveBytes, Arrive, At, Become
  <1>11. c.op = "sync" /\ c.pc # "idle" /\ c.url = u /\ c.content = b
    BY DEF Idle
  <1> HIDE DEF c
  <1>12. call'[h] = c /\ \A g \in Handlers : g # h => call'[g] = call[g]
    BY <1>10 DEF SyncInv, Inv, Promises
  <1>13. post' = [post EXCEPT ![a] = [url |-> u, thread |-> h]] /\ UNCHANGED local
    BY DEF Push
  <1>14. /\ post' \in [Agents -> [url : Urls, thread : Handlers] \cup {Null}]
         /\ post'[a] = [url |-> u, thread |-> h]
         /\ \A e \in Agents : e # a => post'[e] = post[e]
    BY <1>13 DEF SyncInv, Attended
  <1>15. ASSUME NEW e \in Agents, e # a, post[e] # Null
         PROVE  post[e].thread \in Handlers /\ post[e].thread # h
    BY <1>10, <1>15 DEF SyncInv, Attended, Serves
  <1>16. Attended'
    <2>1. ASSUME NEW e \in Agents, post'[e] # Null
          PROVE  /\ Has(e, post'[e].url)
                 /\ call'[post'[e].thread].op = "sync" /\ call'[post'[e].thread].pc # "idle"
                 /\ call'[post'[e].thread].url = post'[e].url
                 /\ call'[post'[e].thread].content = local[e][post'[e].url].content
      <3>1. CASE e = a
        BY <1>1, <1>2, <1>11, <1>12, <1>14, <3>1
      <3>2. CASE e # a
        <4>1. post'[e] = post[e] /\ post[e] # Null
          BY <1>14, <2>1, <3>2
        <4>2. Serves(e, post[e].url, post[e].thread)
          BY <4>1 DEF SyncInv, Attended
        <4>3. call'[post[e].thread] = call[post[e].thread]
          BY <1>12, <1>15, <3>2, <4>1
        <4>4. QED
          BY <4>1, <4>2, <4>3 DEF Serves
      <3>3. QED
        BY <3>1, <3>2
    <2>2. QED
      BY <1>13, <1>14, <2>1 DEF Attended, Serves, Has
  <1>17. Apart'
    BY <1>14, <1>15 DEF SyncInv, Apart
  <1>18. QED
    BY <1>5, <1>6, <1>7, <1>8, <1>9, <1>16, <1>17 DEF SyncInv

\* The answer an agent takes is the answer to its own post, and tells the truth.
LEMMA AnsweredStep ==
    ASSUME SyncInv, NEW a \in Agents, Answered(a)
    PROVE  SyncInv' /\ [Next]_archiveVars
  <1>1. PICK u \in Urls, h \in Handlers : post[a].url = u /\ post[a].thread = h /\ Serves(a, u, h)
    BY DEF Answered, SyncInv, Attended
  <1>2. Return(h) /\ Has(a, u)
    BY <1>1 DEF Answered, Serves
  <1>3. Next
    BY <1>2 DEF Next
  <1>4. Inv' /\ Grows
    BY <1>3, NextStep DEF SyncInv
  <1>5. PICK l \in {Synced(local[a][u]), Failed(local[a][u])} :
          /\ Over(a, u, l)
          /\ l = Failed(local[a][u]) \/ call[h].reply = "ok"
    BY <1>1 DEF Answered
  <1>6. /\ l \in Locals /\ l.ocr = local[a][u].ocr /\ l.content = local[a][u].content
        /\ l.ocr \in OcrTexts /\ local[a][u].content \in Contents
    BY <1>2, RowOf DEF SyncInv
  <1>7. l.ocr # "none" => l.content \in Scanned
    BY <1>2, <1>6 DEF SyncInv, LocalOK
  <1>8. Update(a, u, l) /\ todo' = [todo EXCEPT ![a] = @ \ {u}] /\ post' = [post EXCEPT ![a] = Null]
    BY <1>5 DEF Over
  <1>9. /\ LocalOK'
        /\ \A b \in Agents, v \in Urls : Has(b, v) => Has(b, v)' /\ local'[b][v].content = local[b][v].content
        /\ (l.synced => local[a][u].synced) => LocalMoves
    BY <1>2, <1>6, <1>7, <1>8, UpdateOne DEF SyncInv
  <1>10. TodoOK'
    BY <1>8, <1>9, TodoStays DEF SyncInv, TodoOK
  <1>11. post' \in [Agents -> [url : Urls, thread : Handlers] \cup {Null}]
    BY <1>8 DEF SyncInv, Attended
  <1>12. ASSUME NEW b \in Agents, post'[b] # Null
         PROVE  post'[b] = post[b] /\ call'[post[b].thread] = call[post[b].thread]
                /\ Serves(b, post[b].url, post[b].thread)
    <2>1. b # a /\ post'[b] = post[b] /\ post[b] # Null
      BY <1>8, <1>12 DEF SyncInv, Attended
    <2>2. post[b].thread # h /\ post[b].thread \in Handlers
      BY <1>1, <2>1 DEF SyncInv, Apart, Attended, Answered
    <2>3. call'[post[b].thread] = call[post[b].thread]
      BY <1>2, <2>2 DEF Return, Become, SyncInv, Inv, Promises
    <2>4. QED
      BY <2>1, <2>3 DEF SyncInv, Attended
  <1>13. Attended' /\ Apart'
    <2>1. ASSUME NEW b \in Agents, post'[b] # Null
          PROVE  /\ post'[b] = post[b]
                 /\ call'[post[b].thread].op = "sync" /\ call'[post[b].thread].pc # "idle"
                 /\ call'[post[b].thread].url = call[post[b].thread].url
                 /\ call'[post[b].thread].content = call[post[b].thread].content
      BY <1>12, <2>1 DEF Serves
    <2>2. QED
      BY <1>9, <1>11, <2>1, StillWaiting DEF SyncInv
  <1>14. SyncedIsDurable'
    <2>1. CASE l.synced => local[a][u].synced
      BY <1>4, <1>9, <2>1, BeliefStays DEF SyncInv
    <2>2. CASE l.synced /\ ~local[a][u].synced
      <3>1. call[h].reply = "ok"
        BY <1>2, <1>5, <2>2, RowOf DEF SyncInv
      <3>2. PICK b \in Calls : b = call[h] /\ Promise(b) /\ Success(b)
        BY <1>2, <3>1 DEF SyncInv, Inv, Promises, Return, At, Success
      <3>3. /\ b.doc \in DocIds /\ doc[b.doc] # Null
            /\ doc[b.doc].url = b.url /\ doc[b.doc].content = b.content /\ doc[b.doc].blob = b.content
        BY <3>2 DEF Promise, HasDoc, Holding
      <3>4. PICK q \in RecIds : rec[q] # Null /\ rec[q].doc = b.doc
        BY <3>2 DEF Promise, HasRec, Knowing
      <3>5. b.url = u /\ b.content = local[a][u].content
        BY <1>1, <3>2 DEF Serves
      <3>6. PICK c \in Contents : c = local[a][u].content
        BY <1>6
      <3>7. Durable(u, c)
        BY <3>3, <3>4, <3>5, <3>6 DEF Durable, Archived, DocsOf, RecsOf
      <3>8. Durable(u, c)'
        BY <1>4, <3>7, DurableStays
      <3>9. /\ local'[a][u] = l
            /\ \A e \in Agents, v \in Urls : e # a \/ v # u => local'[e][v] = local[e][v]
        BY <1>8 DEF Update, SyncInv, LocalOK
      <3>10. SUFFICES ASSUME NEW e \in Agents, NEW v \in Urls, Has(e, v)', local'[e][v].synced
                      PROVE  (\E d \in Archived(v, local[e][v].content) : RecsOf(d) # {})'
        BY DEF SyncedIsDurable
      <3>11. CASE e = a /\ v = u
        BY <1>6, <3>6, <3>8, <3>9, <3>11 DEF Durable
      <3>12. CASE e # a \/ v # u
        <4>1. local'[e][v] = local[e][v] /\ Has(e, v) /\ local[e][v].synced
          BY <3>9, <3>10, <3>12 DEF Has
        <4>2. PICK k \in Contents : k = local[e][v].content /\ k = local'[e][v].content
          BY <4>1, RowOf DEF SyncInv
        <4>3. Durable(v, k)
          BY <4>1, <4>2 DEF SyncInv, SyncedIsDurable, Durable
        <4>4. Durable(v, k)'
          BY <1>4, <4>3, DurableStays
        <4>5. QED
          BY <4>2, <4>4 DEF Durable
      <3>13. QED
        BY <3>11, <3>12
    <2>3. QED
      BY <2>1, <2>2 DEF SyncInv
  <1>15. QED
    BY <1>3, <1>4, <1>9, <1>10, <1>13, <1>14 DEF SyncInv

LEMMA ServerCrashStep ==
    ASSUME SyncInv, NEW kept \in {disk, {}}, ServerCrash(kept)
    PROVE  SyncInv' /\ [Next]_archiveVars
  <1>1. Next
    BY DEF ServerCrash, Next
  <1>2. Inv' /\ Grows
    BY <1>1, NextStep DEF SyncInv
  <1>3. ASSUME NEW a \in Agents, NEW u \in Urls
        PROVE  /\ local'[a][u] \in Locals \cup {Null}
               /\ IF Has(a, u) THEN /\ local'[a][u] # Null
                                    /\ local'[a][u].content = local[a][u].content
                                    /\ local'[a][u].ocr = local[a][u].ocr
                                    /\ local'[a][u].synced => local[a][u].synced
                  ELSE local'[a][u] = Null
    <2>1. /\ local'[a][u] = Failed(local[a][u]) \/ local'[a][u] = local[a][u]
          /\ ~(post[a] # Null /\ post[a].url = u) => local'[a][u] = local[a][u]
      BY DEF ServerCrash
    <2>2. CASE Has(a, u)
      <3>1. /\ local[a][u] \in Locals /\ Failed(local[a][u]) \in Locals
            /\ Failed(local[a][u]).content = local[a][u].content /\ Failed(local[a][u]).ocr = local[a][u].ocr
            /\ Failed(local[a][u]).synced = local[a][u].synced
        BY <2>2, RowOf DEF SyncInv
      <3>2. QED
        BY <2>1, <2>2, <3>1, LocalsAssumption
    <2>3. CASE ~Has(a, u)
      <3>1. ~(post[a] # Null /\ post[a].url = u)
        BY <2>3 DEF SyncInv, Attended, Serves
      <3>2. QED
        BY <2>1, <2>3, <3>1 DEF Has
    <2>4. QED
      BY <2>2, <2>3
  <1>4. \E f : local' = [a \in Agents |-> [u \in Urls |-> f[a][u]]]
    <2>1. local' = [a \in Agents |-> [u \in Urls |-> local'[a][u]]]
      BY DEF ServerCrash
    <2>2. QED
      BY <2>1
  <1>5. local' \in [Agents -> [Urls -> Locals \cup {Null}]]
    BY <1>3, <1>4
  <1>6. LocalOK' /\ LocalMoves
    BY <1>3, <1>5, UpdateMany DEF SyncInv
  <1>7. TodoOK'
    <2>1. /\ todo' \in [Agents -> SUBSET Urls]
          /\ \A a \in Agents : todo'[a] \subseteq todo[a]
      BY DEF ServerCrash, SyncInv, TodoOK
    <2>2. QED
      BY <1>6, <2>1, TodoStays DEF SyncInv, LocalMoves
  <1>8. Attended' /\ Apart'
    BY DEF ServerCrash, Attended, Apart
  <1>9. SyncedIsDurable'
    BY <1>2, <1>6, BeliefStays DEF SyncInv
  <1>10. QED
    BY <1>1, <1>2, <1>6, <1>7, <1>8, <1>9 DEF SyncInv

\* A step of the archive by itself disturbs no exchange when it keeps the calls waited for.
LEMMA ArchiveAlone ==
    ASSUME SyncInv, Next, UNCHANGED agentVars,
           \A a \in Agents : post[a] # Null =>
              /\ call'[post[a].thread].op = "sync" /\ call'[post[a].thread].pc # "idle"
              /\ call'[post[a].thread].url = call[post[a].thread].url
              /\ call'[post[a].thread].content = call[post[a].thread].content
    PROVE  SyncInv' /\ [Next]_archiveVars
  <1>1. Inv' /\ Grows
    BY NextStep DEF SyncInv
  <1>2. UNCHANGED <<local, todo, post>>
    BY DEF agentVars
  <1>3. LocalOK' /\ LocalMoves
    BY <1>2, NoUpdate DEF SyncInv
  <1>4. TodoOK'
    BY <1>2 DEF SyncInv, TodoOK, Has
  <1>5. Attended' /\ Apart'
    <2>1. post' \in [Agents -> [url : Urls, thread : Handlers] \cup {Null}]
      BY <1>2 DEF SyncInv, Attended
    <2>2. QED
      BY <1>2, <1>3, <2>1, StillWaiting DEF SyncInv, LocalMoves
  <1>6. SyncedIsDurable'
    BY <1>1, <1>3, BeliefStays DEF SyncInv
  <1>7. QED
    BY <1>1, <1>3, <1>4, <1>5, <1>6 DEF SyncInv

LEMMA ServerStep ==
    ASSUME SyncInv, NEW h \in Handlers, Server(h)
    PROVE  SyncInv' /\ [Next]_archiveVars
  <1>1. Statements(h) /\ Next /\ UNCHANGED agentVars
    BY DEF Server, Next
  <1>2. ASSUME NEW a \in Agents, post[a] # Null
        PROVE  /\ call'[post[a].thread].op = "sync" /\ call'[post[a].thread].pc # "idle"
               /\ call'[post[a].thread].url = call[post[a].thread].url
               /\ call'[post[a].thread].content = call[post[a].thread].content
    <2>1. /\ post[a].thread \in Handlers
          /\ call[post[a].thread].op = "sync" /\ call[post[a].thread].pc # "idle"
      BY <1>2 DEF SyncInv, Attended, Serves
    <2>2. QED
      BY <1>1, <2>1, SyncKept DEF SyncInv
  <1>3. QED
    BY <1>1, <1>2, ArchiveAlone

LEMMA DiscardStep ==
    ASSUME SyncInv, NEW h \in Handlers, Discard(h)
    PROVE  SyncInv' /\ [Next]_archiveVars
  <1>1. Return(h) /\ Next /\ UNCHANGED agentVars
    BY DEF Discard, Next
  <1>2. ASSUME NEW a \in Agents, post[a] # Null
        PROVE  /\ call'[post[a].thread].op = "sync" /\ call'[post[a].thread].pc # "idle"
               /\ call'[post[a].thread].url = call[post[a].thread].url
               /\ call'[post[a].thread].content = call[post[a].thread].content
    <2>1. /\ post[a].thread \in Handlers /\ post[a].thread # h
          /\ call[post[a].thread].op = "sync" /\ call[post[a].thread].pc # "idle"
      BY <1>2 DEF SyncInv, Attended, Serves, Discard
    <2>2. call'[post[a].thread] = call[post[a].thread]
      BY <1>1, <2>1 DEF Return, Become, SyncInv, Inv, Promises
    <2>3. QED
      BY <2>1, <2>2
  <1>3. QED
    BY <1>1, <1>2, ArchiveAlone

\* A call arrives on an idle thread: nobody waits for that one.
LEMMA VisitStep ==
    ASSUME SyncInv, NEW h \in Handlers, Visit(h)
    PROVE  SyncInv' /\ [Next]_archiveVars
  <1>1. Arrivals(h) /\ Next /\ UNCHANGED agentVars
    BY DEF Visit, Arrivals, Next
  <1>2. PICK c : Arrive(h, c)
    BY DEF Visit, ArriveAbout, ArriveCleanup
  <1>3. ASSUME NEW a \in Agents, post[a] # Null
        PROVE  /\ call'[post[a].thread].op = "sync" /\ call'[post[a].thread].pc # "idle"
               /\ call'[post[a].thread].url = call[post[a].thread].url
               /\ call'[post[a].thread].content = call[post[a].thread].content
    <2>1. /\ post[a].thread \in Handlers /\ post[a].thread # h
          /\ call[post[a].thread].op = "sync" /\ call[post[a].thread].pc # "idle"
      BY <1>2, <1>3 DEF SyncInv, Attended, Serves, Arrive, At
    <2>2. call'[post[a].thread] = call[post[a].thread]
      BY <1>2, <2>1 DEF Arrive, Become, SyncInv, Inv, Promises
    <2>3. QED
      BY <2>1, <2>2
  <1>4. QED
    BY <1>1, <1>3, ArchiveAlone

LEMMA ElsewhereStep ==
    ASSUME SyncInv, NEW u \in Urls, Elsewhere(u)
    PROVE  SyncInv' /\ [Next]_archiveVars
  <1>1. Discover(u) /\ Next /\ UNCHANGED <<agentVars, call>>
    BY DEF Elsewhere, Next, Discover
  <1>2. \A a \in Agents : post[a] # Null =>
           call'[post[a].thread].op = "sync" /\ call'[post[a].thread].pc # "idle"
    BY <1>1 DEF SyncInv, Attended, Serves
  <1>3. QED
    BY <1>1, <1>2, ArchiveAlone

-----------------------------------------------------------------------------
(* The invariant, and the theorems                                         *)

LEMMA SyncStart == SyncInit => SyncInv
  <1>1. SUFFICES ASSUME SyncInit PROVE SyncInv
    OBVIOUS
  <1>2. Inv
    BY <1>1, IdleInit DEF SyncInit
  <1>3. LocalOK /\ TodoOK /\ Attended /\ Apart /\ SyncedIsDurable
    BY <1>1 DEF SyncInit, LocalOK, TodoOK, Attended, Apart, SyncedIsDurable, Has
  <1>4. QED
    BY <1>2, <1>3 DEF SyncInv

LEMMA SyncStep ==
    ASSUME SyncInv, [SyncNext]_syncVars
    PROVE  SyncInv' /\ [Next]_archiveVars
  <1>1. ASSUME NEW a \in Agents, NEW u \in Urls,
               \/ \E c \in Contents : Download(a, u, c)
               \/ \E o \in OcrTexts, ran \in {"before", "same", "after"} : ParseLocally(a, u, o, ran)
               \/ \E h \in Handlers : Push(a, h, u)
               \/ PostLost(a, u)
        PROVE  SyncInv' /\ [Next]_archiveVars
    BY <1>1, DownloadStep, ParseLocallyStep, PushStep, PostLostStep
  <1>2. ASSUME NEW a \in Agents,
               StartBatch(a) \/ RetryFailed(a) \/ ResyncAll(a) \/ Answered(a) \/ GiveUp(a) \/ AgentCrash(a)
        PROVE  SyncInv' /\ [Next]_archiveVars
    BY <1>2, StartBatchStep, RetryFailedStep, ResyncAllStep, AnsweredStep, GiveUpStep, AgentCrashStep
  <1>3. ASSUME NEW h \in Handlers, Visit(h) \/ Server(h) \/ Discard(h) PROVE SyncInv' /\ [Next]_archiveVars
    BY <1>3, VisitStep, ServerStep, DiscardStep
  <1>4. ASSUME NEW u \in Urls, Elsewhere(u) PROVE SyncInv' /\ [Next]_archiveVars
    BY <1>4, ElsewhereStep
  <1>5. ASSUME NEW kept \in {disk, {}}, ServerCrash(kept) PROVE SyncInv' /\ [Next]_archiveVars
    BY <1>5, ServerCrashStep
  <1>6. CASE UNCHANGED syncVars
    <2>1. UNCHANGED archiveVars /\ UNCHANGED <<local, todo, post>>
      BY <1>6 DEF syncVars
    <2>2. LocalOK' /\ LocalMoves
      BY <2>1, NoUpdate DEF SyncInv
    <2>3. TodoOK'
      BY <2>1 DEF SyncInv, TodoOK, Has
    <2>4. QED
      BY <2>1, <2>2, <2>3, AwayFromArchive DEF SyncInv, Attended
  <1>7. QED
    BY <1>1, <1>2, <1>3, <1>4, <1>5, <1>6 DEF SyncNext

Counted == rounds \in 0 .. Rounds /\ faults \in 0 .. Faults

\* At most one of the two counters goes up, within its bound.
Counting ==
    \/ UNCHANGED <<rounds, faults>>
    \/ rounds < Rounds /\ rounds' = rounds + 1 /\ UNCHANGED faults
    \/ faults < Faults /\ faults' = faults + 1 /\ UNCHANGED rounds

LEMMA CountedStep == Counted /\ [SyncNext]_syncVars => Counted'
  <1> SUFFICES ASSUME Counted, [SyncNext]_syncVars PROVE Counted'
    OBVIOUS
  <1>1. Counting
    <2>1. ASSUME NEW a \in Agents, NEW u \in Urls,
                 \/ \E c \in Contents : Download(a, u, c)
                 \/ \E o \in OcrTexts, ran \in {"before", "same", "after"} : ParseLocally(a, u, o, ran)
                 \/ \E h \in Handlers : Push(a, h, u)
                 \/ PostLost(a, u)
          PROVE  Counting
      BY <2>1 DEF Download, ParseLocally, Push, PostLost, Fault, Over, Counting
    <2>2. ASSUME NEW a \in Agents,
                 StartBatch(a) \/ RetryFailed(a) \/ ResyncAll(a) \/ Answered(a) \/ GiveUp(a) \/ AgentCrash(a)
          PROVE  Counting
      BY <2>2 DEF StartBatch, RetryFailed, ResyncAll, Answered, GiveUp, AgentCrash, Fault, Over, Counting
    <2>3. ASSUME NEW h \in Handlers, Visit(h) \/ Server(h) \/ Discard(h) PROVE Counting
      BY <2>3 DEF Visit, Server, Discard, Counting
    <2>4. ASSUME NEW u \in Urls, Elsewhere(u) PROVE Counting
      BY <2>4 DEF Elsewhere, Counting
    <2>5. ASSUME NEW kept \in {disk, {}}, ServerCrash(kept) PROVE Counting
      BY <2>5 DEF ServerCrash, Fault, Counting
    <2>6. CASE UNCHANGED syncVars
      BY <2>6 DEF syncVars, Counting
    <2>7. QED
      BY <2>1, <2>2, <2>3, <2>4, <2>5, <2>6 DEF SyncNext
  <1>2. Rounds \in Nat /\ Faults \in Nat
    BY BoundsAssumption
  <1>3. QED
    BY <1>1, <1>2 DEF Counted, Counting

\* The agents' two columns, batches and posts keep their types beside those of the archive,
\* and a post waits for a thread of the server.
THEOREM SyncTypeCorrect == SyncSpec => []SyncTypeOK
  <1>1. SyncInv /\ Counted => SyncTypeOK
    BY DEF SyncInv, Inv, Stored, Tables, Promises, TypeOK, LocalOK, TodoOK, Attended, Counted, SyncTypeOK
  <1>2. SyncInit => Counted
    BY BoundsAssumption DEF SyncInit, Counted
  <1>3. SyncInv /\ [SyncNext]_syncVars => SyncInv'
    BY SyncStep
  <1>4. QED
    BY <1>1, <1>2, <1>3, CountedStep, SyncStart, PTL DEF SyncSpec

\* The server's archive behaves with the agents as it does alone: what DocumentArchiveProofs
\* shows of the archive holds while agents sync, fail and crash.
THEOREM SyncArchives == SyncSpec => Spec
  <1>1. SyncInit => Init
    BY DEF SyncInit
  <1>2. SyncInv /\ [SyncNext]_syncVars => SyncInv' /\ [Next]_archiveVars
    BY SyncStep
  <1>3. QED
    BY <1>1, <1>2, SyncStart, PTL DEF SyncSpec, Spec

\* What an agent believes synced (agent_synced_at) the server holds durably, with a record
\* of it: whatever post, answer, thread, agent or server fails in between (cli.py
\* _sync_documents, pipeline.py).
THEOREM SyncedIsDurableCorrect == SyncSpec => []SyncedIsDurable
  <1>1. SyncInv => SyncedIsDurable
    BY DEF SyncInv
  <1>2. SyncInv /\ [SyncNext]_syncVars => SyncInv'
    BY SyncStep
  <1>3. QED
    BY <1>1, <1>2, SyncStart, PTL DEF SyncSpec

=============================================================================
