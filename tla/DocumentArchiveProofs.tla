------------------------ MODULE DocumentArchiveProofs ------------------------
(***************************************************************************)
(* Theorems about DocumentArchive, for any number of URLs, contents,       *)
(* documents, records and threads, and every interleaving of statements.   *)
(*                                                                         *)
(* The inductive invariant has two parts.  Stored speaks of the tables;    *)
(* Promise(c) says what a handler at c.pc already knows of them and later  *)
(* relies on.  Grows says what a step may do to the tables: documents are  *)
(* only added, and a record goes only when a newer one is there.  Every    *)
(* promise survives a step that Grows, so that a step of one handler has   *)
(* to keep the promise of that handler only.                               *)
(***************************************************************************)
EXTENDS DocumentArchive, TLAPS

Tables ==
    /\ link \in [Urls -> LinkStatuses]
    /\ doc \in [DocIds -> Docs \cup {Null}] /\ lastDoc \in Nat
    /\ rec \in [RecIds -> Recs \cup {Null}] /\ lastRec \in Nat
    /\ disk \subseteq Contents

\* Ids are handed out in order, and a record is of a document that is there.
Keys ==
    /\ \A d \in DocIds : doc[d] # Null => d <= lastDoc
    /\ \A r \in RecIds : rec[r] # Null => r <= lastRec /\ doc[rec[r].doc] # Null

Stored == Tables /\ Keys /\ Lineage /\ LinkIsTrue

\* The handler has the row of its document, and knows a record of it.
Inside(c)  == c.pc \in Dropping /\ c.op # "cleanup"
Success(c) == c.pc = "replied" /\ c.reply = "ok"
Holding(c) == c.pc \in Parsing \cup {"set_downloaded", "look_up", "blob"} \/ Inside(c) \/ Success(c)
Knowing(c) == c.pc \in {"insert_fields", "set_parsed", "blob"} \/ Inside(c) \/ Success(c)

HasUrl(c) ==
    /\ c.pc \in Storing => c.url \in Urls
    /\ c.pc \in Storing \ {"fetch"} => c.content \in Contents
    /\ c.pc \in {"reprocess_read"} \cup Deciding => c.rec \in RecIds /\ c.op # "sync"
    /\ c.pc \in Storing \cup {"look_up", "reprocess_read"} => c.todo = {}
    /\ c.pc \in Storing \ {"insert_doc", "set_downloaded"} => c.doc = Null
    /\ c.pc = "fetch" => c.op # "sync"
    /\ c.pc = "list" => c.op = "cleanup"
    /\ c.pc \in {"blob", "replied"} => c.op = "sync"

HasPrior(c) == c.pc = "insert_doc" /\ c.doc # Null =>
    doc[c.doc] # Null /\ doc[c.doc].url = c.url /\ doc[c.doc].content # c.content

HasDoc(c) == Holding(c) =>
    /\ c.doc \in DocIds /\ doc[c.doc] # Null
    /\ c.url = doc[c.doc].url /\ c.content = doc[c.doc].content
    /\ Success(c) => doc[c.doc].blob = c.content

HasRec(c) == Knowing(c) =>
    /\ c.rec \in RecIds /\ c.rec <= lastRec
    /\ \E q \in RecIds : c.rec <= q /\ rec[q] # Null /\ rec[q].doc = c.doc

\* What is to be deleted is older than the record the handler makes, or than one that is there.
MayDrop(c) == \A r \in c.todo :
    /\ c.pc \in Parsing => r <= lastRec /\ (rec[r] # Null => rec[r].doc = c.doc)
    /\ c.pc \in {"insert_fields", "set_parsed"} => r < c.rec
    /\ c.pc \in Dropping =>
         /\ r <= lastRec
         /\ rec[r] # Null => \E q \in RecIds : r < q /\ rec[q] # Null /\ rec[q].doc = rec[r].doc

Promise(c) ==
    /\ HasUrl(c) /\ HasPrior(c) /\ HasDoc(c) /\ HasRec(c) /\ MayDrop(c)
    /\ c.pc = "drop_record" => c.drop \in c.todo

Promises == call \in [Handlers -> Calls] /\ \A h \in Handlers : Promise(call[h])

Inv == Stored /\ Promises

DocsGrow ==
    /\ lastDoc <= lastDoc'
    /\ \A d \in DocIds : doc[d] # Null =>
         /\ doc'[d] # Null
         /\ doc'[d].url = doc[d].url /\ doc'[d].content = doc[d].content
         /\ doc[d].blob = doc[d].content => doc'[d].blob = doc[d].content

RecsGrow ==
    /\ lastRec <= lastRec'
    /\ \A r \in RecIds : rec[r] # Null =>
         \/ rec'[r] # Null /\ rec'[r].doc = rec[r].doc
         \/ /\ rec'[r] = Null
            /\ \E q \in RecIds : r < q /\ rec'[q] # Null /\ rec'[q].doc = rec[r].doc
    /\ \A r \in RecIds : r <= lastRec /\ rec'[r] # Null => rec[r] # Null

Grows == DocsGrow /\ RecsGrow

-----------------------------------------------------------------------------
\* A record that is there, or a newer one of the same document, stays.
LEMMA StillReplaced ==
    ASSUME RecsGrow, NEW d, NEW from \in Nat, RecIds \subseteq Nat,
           NEW q \in RecIds, from <= q, rec[q] # Null, rec[q].doc = d
    PROVE  \E p \in RecIds : from <= p /\ rec'[p] # Null /\ rec'[p].doc = d
  <1>1. CASE rec'[q] # Null /\ rec'[q].doc = rec[q].doc
    BY <1>1
  <1>2. CASE \E p \in RecIds : q < p /\ rec'[p] # Null /\ rec'[p].doc = rec[q].doc
    <2>1. PICK p \in RecIds : q < p /\ rec'[p] # Null /\ rec'[p].doc = rec[q].doc
      BY <1>2
    <2>2. from <= p
      BY <2>1
    <2>3. QED
      BY <2>1, <2>2
  <1>3. QED
    BY <1>1, <1>2 DEF RecsGrow

\* A promise survives a step that only lets the tables grow.
LEMMA Stable ==
    ASSUME Stored, Tables', Grows, NEW c \in Calls, Promise(c)
    PROVE  Promise(c)'
  <1>a. RecIds \subseteq Nat /\ DocIds \subseteq Nat /\ Null \notin DocIds \cup RecIds
    BY IdsAssumption, NullAssumption
  <1>b. c.todo \subseteq RecIds /\ c.doc \in DocIds \cup {Null}
    BY DEF Calls
  <1>1. HasUrl(c)'
    BY DEF HasUrl, Promise
  <1>2. HasPrior(c)'
    <2>1. SUFFICES ASSUME c.pc = "insert_doc", c.doc # Null
                   PROVE  doc'[c.doc] # Null /\ doc'[c.doc].url = c.url /\ doc'[c.doc].content # c.content
      BY DEF HasPrior
    <2>2. c.doc \in DocIds
      BY <2>1, <1>b
    <2>3. doc[c.doc] # Null /\ doc[c.doc].url = c.url /\ doc[c.doc].content # c.content
      BY <2>1 DEF Promise, HasPrior
    <2>4. QED
      BY <2>2, <2>3 DEF Grows, DocsGrow
  <1>3. HasDoc(c)'
    <2>1. SUFFICES ASSUME Holding(c)
                   PROVE  /\ c.doc \in DocIds /\ doc'[c.doc] # Null
                          /\ c.url = doc'[c.doc].url /\ c.content = doc'[c.doc].content
                          /\ Success(c) => doc'[c.doc].blob = c.content
      BY DEF HasDoc, Holding, Inside, Success
    <2>2. /\ c.doc \in DocIds /\ doc[c.doc] # Null
          /\ c.url = doc[c.doc].url /\ c.content = doc[c.doc].content
          /\ Success(c) => doc[c.doc].blob = c.content
      BY <2>1 DEF Promise, HasDoc
    <2>3. /\ doc'[c.doc] # Null
          /\ doc'[c.doc].url = doc[c.doc].url /\ doc'[c.doc].content = doc[c.doc].content
          /\ doc[c.doc].blob = doc[c.doc].content => doc'[c.doc].blob = doc[c.doc].content
      BY <2>2 DEF Grows, DocsGrow
    <2>4. QED
      BY <2>2, <2>3
  <1>4. HasRec(c)'
    <2>1. SUFFICES ASSUME Knowing(c)
                   PROVE  /\ c.rec \in RecIds /\ c.rec <= lastRec'
                          /\ \E q \in RecIds : c.rec <= q /\ rec'[q] # Null /\ rec'[q].doc = c.doc
      BY DEF HasRec, Knowing, Inside, Success
    <2>2. c.rec \in RecIds /\ c.rec <= lastRec
      BY <2>1 DEF Promise, HasRec
    <2>3. PICK q \in RecIds : c.rec <= q /\ rec[q] # Null /\ rec[q].doc = c.doc
      BY <2>1 DEF Promise, HasRec
    <2>4. \E p \in RecIds : c.rec <= p /\ rec'[p] # Null /\ rec'[p].doc = c.doc
      BY <2>2, <2>3, <1>a, StillReplaced DEF Grows
    <2>5. c.rec \in Nat /\ lastRec \in Nat /\ lastRec' \in Nat /\ lastRec <= lastRec'
      BY <2>2, <1>a DEF Grows, RecsGrow, Stored, Tables
    <2>6. c.rec <= lastRec'
      BY <2>2, <2>5
    <2>7. QED
      BY <2>2, <2>4, <2>6
  <1>5. MayDrop(c)'
    <2>1. SUFFICES ASSUME NEW r \in c.todo
            PROVE  /\ c.pc \in Parsing => r <= lastRec' /\ (rec'[r] # Null => rec'[r].doc = c.doc)
                   /\ c.pc \in {"insert_fields", "set_parsed"} => r < c.rec
                   /\ c.pc \in Dropping =>
                        /\ r <= lastRec'
                        /\ rec'[r] # Null => \E q \in RecIds : r < q /\ rec'[q] # Null
                                                               /\ rec'[q].doc = rec'[r].doc
      BY DEF MayDrop
    <2>2. r \in RecIds /\ r \in Nat /\ lastRec \in Nat /\ lastRec' \in Nat /\ lastRec <= lastRec'
      BY <1>a, <1>b DEF Stored, Tables, Grows, RecsGrow
    <2>3. c.pc \in {"insert_fields", "set_parsed"} => r < c.rec
      BY DEF Promise, MayDrop
    <2>4. ASSUME r <= lastRec, rec'[r] # Null PROVE rec[r] # Null /\ rec'[r].doc = rec[r].doc
      BY <2>2, <2>4 DEF Grows, RecsGrow
    <2>5. c.pc \in Parsing => r <= lastRec' /\ (rec'[r] # Null => rec'[r].doc = c.doc)
      BY <2>2, <2>4 DEF Promise, MayDrop
    <2>6. ASSUME c.pc \in Dropping, rec'[r] # Null
          PROVE  \E q \in RecIds : r < q /\ rec'[q] # Null /\ rec'[q].doc = rec'[r].doc
      <3>1. r <= lastRec
        BY <2>6 DEF Promise, MayDrop
      <3>2. rec[r] # Null /\ rec'[r].doc = rec[r].doc
        BY <2>4, <2>6, <3>1
      <3>3. PICK q \in RecIds : r < q /\ rec[q] # Null /\ rec[q].doc = rec[r].doc
        BY <2>6, <3>2 DEF Promise, MayDrop
      <3>4. r + 1 \in Nat /\ r + 1 <= q
        BY <2>2, <3>3, <1>a
      <3>5. PICK p \in RecIds : r + 1 <= p /\ rec'[p] # Null /\ rec'[p].doc = rec[r].doc
        BY <3>3, <3>4, <1>a, StillReplaced DEF Grows
      <3>6. r < p
        BY <3>5, <2>2, <1>a
      <3>7. QED
        BY <3>2, <3>5, <3>6
    <2>7. c.pc \in Dropping => r <= lastRec'
      BY <2>2 DEF Promise, MayDrop
    <2>8. QED
      BY <2>3, <2>5, <2>6, <2>7
  <1>6. QED
    BY <1>1, <1>2, <1>3, <1>4, <1>5 DEF Promise

\* A step of one handler that keeps its own promise keeps all.
LEMMA Becoming ==
    ASSUME Inv, Stored', Grows, NEW h \in Handlers, NEW c \in Calls,
           call' = [call EXCEPT ![h] = c], Promise(c)'
    PROVE  Inv'
  <1>1. call' \in [Handlers -> Calls]
    BY DEF Inv, Promises
  <1>2. ASSUME NEW g \in Handlers PROVE Promise(call[g])'
    <2>1. CASE g = h
      <3>1. call'[g] = c
        BY <2>1 DEF Inv, Promises
      <3>2. QED
        BY <3>1 DEF Promise, HasUrl, HasPrior, HasDoc, HasRec, MayDrop, Holding, Knowing, Inside, Success
    <2>2. CASE g # h
      <3>1. call'[g] = call[g]
        BY <2>2 DEF Inv, Promises
      <3>2. PICK b \in Calls : b = call[g]
        BY DEF Inv, Promises
      <3>3. Promise(b)
        BY <3>2 DEF Inv, Promises
      <3>4. Promise(b)'
        BY <3>3, Stable DEF Inv, Stored
      <3>5. call'[g] = b
        BY <3>1, <3>2
      <3>6. QED
        BY <3>4, <3>5 DEF Promise, HasUrl, HasPrior, HasDoc, HasRec, MayDrop, Holding, Knowing, Inside, Success
    <2>3. QED
      BY <2>1, <2>2
  <1>3. QED
    BY <1>1, <1>2 DEF Inv, Promises


\* A step that leaves the tables alone needs a promise that held before.
LEMMA Quiet ==
    ASSUME Inv, UNCHANGED <<link, documents, records>>, disk' \subseteq Contents
    PROVE  Stored' /\ Grows
  <1>1. Stored'
    BY DEF Inv, Stored, Tables, Keys, Lineage, LinkIsTrue, DocsOf, RecsOf, documents, records
  <1>2. Grows
    BY DEF Inv, Stored, Tables, Grows, DocsGrow, RecsGrow, documents, records
  <1>3. QED
    BY <1>1, <1>2

LEMMA QuietStep ==
    ASSUME Inv, NEW h \in Handlers, NEW c \in Calls, call' = [call EXCEPT ![h] = c], Promise(c),
           UNCHANGED <<link, documents, records>>, disk' \subseteq Contents
    PROVE  Inv' /\ Grows
  <1>1. Stored' /\ Grows
    BY Quiet
  <1>2. Promise(c)'
    BY <1>1, Stable DEF Inv, Stored
  <1>3. QED
    BY <1>1, <1>2, Becoming

-----------------------------------------------------------------------------
(* Arrivals and steps that only read                                       *)

LEMMA IdleFine == Idle \in Calls /\ Promise(Idle)
  BY OcrTextsAssumption DEF Idle, Calls, Ops, Parsing, Dropping, Storing, Deciding, Promise, HasUrl, HasPrior,
     HasDoc, HasRec, MayDrop, Holding, Knowing, Inside, Success

LEMMA IdleInit == Init => Inv
  <1> SUFFICES ASSUME Init PROVE Inv
    OBVIOUS
  <1>1. Tables
    BY DEF Init, Tables, LinkStatuses
  <1>2. Keys /\ Lineage /\ LinkIsTrue
    BY DEF Init, Keys, Lineage, LinkIsTrue
  <1>3. Promises
    BY IdleFine DEF Init, Promises
  <1>4. QED
    BY <1>1, <1>2, <1>3 DEF Inv, Stored

LEMMA ArrivalStep ==
    ASSUME Inv, NEW h \in Handlers, Arrivals(h)
    PROVE  Inv' /\ Grows
  <1> USE DEF Idle, Calls, Ops, Parsing, Dropping, Storing, Deciding
  <1>a. ASSUME NEW c \in Calls, Promise(c), Arrive(h, c) PROVE Inv' /\ Grows
    BY <1>a, QuietStep DEF Arrive, Become, Inv, Stored, Tables
  <1>1. ASSUME NEW op \in {"sync", "ingest"}, NEW u \in Urls, NEW b \in Contents, NEW o \in OcrTexts,
               ArriveBytes(h, op, u, b, o)
        PROVE  Inv' /\ Grows
    <2> DEFINE c == [Idle EXCEPT !.op = op, !.pc = "find_link", !.url = u, !.content = b, !.ocr = o]
    <2>1. c \in Calls
      BY OcrTextsAssumption
    <2>2. Promise(c)
      BY <2>1 DEF Promise, HasUrl, HasPrior, HasDoc, HasRec, MayDrop, Holding, Knowing, Inside, Success
    <2>3. Arrive(h, c)
      BY <1>1 DEF ArriveBytes
    <2> HIDE DEF c
    <2>4. QED
      BY <2>1, <2>2, <2>3, <1>a
  <1>2. ASSUME NEW u \in Urls, ArriveAcquire(h, u) PROVE Inv' /\ Grows
    <2> DEFINE c == [Idle EXCEPT !.op = "acquire", !.pc = "fetch", !.url = u]
    <2>1. c \in Calls
      BY OcrTextsAssumption
    <2>2. Promise(c)
      BY <2>1 DEF Promise, HasUrl, HasPrior, HasDoc, HasRec, MayDrop, Holding, Knowing, Inside, Success
    <2>3. Arrive(h, c)
      BY <1>2 DEF ArriveAcquire
    <2> HIDE DEF c
    <2>4. QED
      BY <2>1, <2>2, <2>3, <1>a
  <1>3. ASSUME NEW d \in DocIds, ArriveParse(h, d) PROVE Inv' /\ Grows
    <2> DEFINE c == [Idle EXCEPT !.op = "parse", !.pc = "extract", !.doc = d, !.url = doc[d].url,
                                 !.content = doc[d].content]
    <2>1. doc[d] # Null /\ doc[d].url \in Urls /\ doc[d].content \in Contents
      BY <1>3 DEF ArriveParse, Inv, Stored, Tables, Docs
    <2>2. c \in Calls
      BY <2>1, OcrTextsAssumption
    <2>3. Promise(c)
      BY <2>1, <2>2 DEF Promise, HasUrl, HasPrior, HasDoc, HasRec, MayDrop, Holding, Knowing, Inside, Success
    <2>4. Arrive(h, c)
      BY <1>3 DEF ArriveParse
    <2> HIDE DEF c
    <2>5. QED
      BY <2>2, <2>3, <2>4, <1>a
  <1>4. ASSUME NEW r \in RecIds, NEW op \in {"reprocess", "approve", "reject"},
               NEW pc \in {"reprocess_read", "decide_read"}, ArriveAbout(h, op, pc, r)
        PROVE  Inv' /\ Grows
    <2> DEFINE c == [Idle EXCEPT !.op = op, !.pc = pc, !.rec = r]
    <2>1. c \in Calls
      BY OcrTextsAssumption
    <2>2. Promise(c)
      BY <2>1 DEF Promise, HasUrl, HasPrior, HasDoc, HasRec, MayDrop, Holding, Knowing, Inside, Success
    <2>3. Arrive(h, c)
      BY <1>4 DEF ArriveAbout
    <2> HIDE DEF c
    <2>4. QED
      BY <2>1, <2>2, <2>3, <1>a
  <1>5. CASE ArriveCleanup(h)
    <2> DEFINE c == [Idle EXCEPT !.op = "cleanup", !.pc = "list"]
    <2>1. c \in Calls
      BY OcrTextsAssumption
    <2>2. Promise(c)
      BY <2>1 DEF Promise, HasUrl, HasPrior, HasDoc, HasRec, MayDrop, Holding, Knowing, Inside, Success
    <2>3. Arrive(h, c)
      BY <1>5 DEF ArriveCleanup
    <2> HIDE DEF c
    <2>4. QED
      BY <2>1, <2>2, <2>3, <1>a
  <1>6. QED
    BY <1>1, <1>2, <1>3, <1>4, <1>5 DEF Arrivals

\* A step keeps the invariant when the promise it makes held before.
LEMMA Keeping ==
    ASSUME Inv, Stored', Grows, NEW h \in Handlers, NEW c \in Calls, Promise(c), Become(h, c)
    PROVE  Inv' /\ Grows
  <1>1. Promise(c)'
    BY Stable DEF Inv, Stored
  <1>2. QED
    BY <1>1, Becoming DEF Become

\* A refusal promises nothing.
LEMMA Refusing ==
    ASSUME Inv, Stored', Grows, NEW h \in Handlers, NEW r \in {"400", "404", "500"}, Reply(h, r)
    PROVE  Inv' /\ Grows
  <1>1. PICK b \in Calls : b = call[h]
    BY DEF Inv, Promises
  <1>2. CASE b.op = "sync"
    <2> DEFINE c == [b EXCEPT !.pc = "replied", !.reply = r]
    <2>1. c \in Calls
      BY DEF Calls
    <2>2. Promise(c)
      BY <1>2, <2>1 DEF Promise, HasUrl, HasPrior, HasDoc, HasRec, MayDrop, Holding, Knowing, Inside,
         Success, Calls, Parsing, Dropping, Storing, Deciding
    <2>3. Become(h, c)
      BY <1>1, <1>2 DEF Reply
    <2> HIDE DEF c
    <2>4. QED
      BY <2>1, <2>2, <2>3, Keeping
  <1>3. CASE b.op # "sync"
    BY <1>1, <1>3, IdleFine, Keeping DEF Reply
  <1>4. QED
    BY <1>2, <1>3

\* What a call that has its record goes on to.
LEMMA Finishing ==
    ASSUME Inv, Stored', Grows, NEW h \in Handlers, NEW c \in Calls, HasDoc(c), Holding(c),
           c.rec \in RecIds, c.rec <= lastRec,
           \E q \in RecIds : c.rec <= q /\ rec[q] # Null /\ rec[q].doc = c.doc,
           Finish(h, c)
    PROVE  Inv' /\ Grows
  <1>1. CASE c.op = "sync"
    <2> DEFINE d == [c EXCEPT !.pc = "blob"]
    <2>1. d \in Calls
      BY DEF Calls
    <2>2. Promise(d)
      BY <1>1, <2>1 DEF Promise, HasUrl, HasPrior, HasDoc, HasRec, MayDrop, Holding, Knowing, Inside,
         Success, Calls, Parsing, Dropping, Storing, Deciding
    <2>3. Become(h, d)
      BY <1>1 DEF Finish
    <2> HIDE DEF d
    <2>4. QED
      BY <2>1, <2>2, <2>3, Keeping
  <1>2. CASE c.op # "sync"
    BY <1>2, IdleFine, Keeping DEF Finish
  <1>3. QED
    BY <1>1, <1>2

\* Only the status of one link changes, to one that is true.
LEMMA LinkWrite ==
    ASSUME Inv, UNCHANGED <<documents, records, disk>>, NEW u \in Urls, NEW s \in LinkStatuses,
           link' = [link EXCEPT ![u] = s],
           s \in {"downloaded", "parsed", "verified"} => DocsOf(u) # {},
           s \in {"parsed", "verified"} => \E d \in DocsOf(u) : RecsOf(d) # {}
    PROVE  Stored' /\ Grows
  <1>1. UNCHANGED <<doc, lastDoc, rec, lastRec, disk>>
    BY DEF documents, records
  <1>2. Tables'
    BY <1>1 DEF Inv, Stored, Tables
  <1>3. Keys' /\ Lineage'
    BY <1>1 DEF Inv, Stored, Keys, Lineage
  <1>4. LinkIsTrue'
    <2>1. ASSUME NEW v \in Urls
          PROVE  /\ link'[v] \in {"downloaded", "parsed", "verified"} => DocsOf(v) # {}
                 /\ link'[v] \in {"parsed", "verified"} => \E d \in DocsOf(v) : RecsOf(d) # {}
      BY DEF Inv, Stored, Tables, LinkIsTrue
    <2>2. QED
      BY <1>1, <2>1 DEF LinkIsTrue, DocsOf, RecsOf
  <1>5. Grows
    BY <1>1 DEF Inv, Stored, Tables, Grows, DocsGrow, RecsGrow
  <1>6. QED
    BY <1>2, <1>3, <1>4, <1>5 DEF Stored

\* Only one record that is there changes, and stays a record of its document.
LEMMA RecordWrite ==
    ASSUME Inv, UNCHANGED <<link, documents, lastRec, disk>>, NEW r \in RecIds, rec[r] # Null,
           NEW x \in Recs, x.doc = rec[r].doc, rec' = [rec EXCEPT ![r] = x]
    PROVE  Stored' /\ Grows
  <1>1. UNCHANGED <<doc, lastDoc>> /\ RecIds \subseteq Nat
    BY IdsAssumption DEF documents
  <1>2. Tables /\ Tables' /\ x # Null
    BY <1>1, RowsAssumption DEF Inv, Stored, Tables
  <1>3. \A q \in RecIds : (rec[q] # Null <=> rec'[q] # Null) /\ rec'[q].doc = rec[q].doc
    BY <1>2 DEF Tables
  <1>4. Keys' /\ Lineage'
    BY <1>1, <1>3 DEF Inv, Stored, Keys, Lineage
  <1>5. LinkIsTrue'
    BY <1>1, <1>3 DEF Inv, Stored, LinkIsTrue, DocsOf, RecsOf
  <1>6. Grows
    BY <1>1, <1>2, <1>3 DEF Tables, Grows, DocsGrow, RecsGrow
  <1>7. QED
    BY <1>2, <1>4, <1>5, <1>6 DEF Stored

-----------------------------------------------------------------------------
(* Archiving                                                               *)

LEMMA DiscoverStep ==
    ASSUME Inv, NEW u \in Urls, Discover(u)
    PROVE  Inv' /\ Grows
  <1>1. Stored' /\ Grows
    BY LinkWrite DEF Discover, LinkStatuses
  <1>2. ASSUME NEW h \in Handlers PROVE Promise(call[h])'
    <2>1. PICK b \in Calls : b = call[h] /\ b = call'[h]
      BY DEF Discover, Inv, Promises
    <2>2. Promise(b)
      BY <2>1 DEF Inv, Promises
    <2>3. Promise(b)'
      BY <1>1, <2>2, Stable DEF Inv, Stored
    <2>4. QED
      BY <2>1, <2>3 DEF Promise, HasUrl, HasPrior, HasDoc, HasRec, MayDrop, Holding, Knowing, Inside, Success
  <1>3. QED
    BY <1>1, <1>2 DEF Discover, Inv, Promises

LEMMA FindLinkStep ==
    ASSUME Inv, NEW h \in Handlers, FindLink(h)
    PROVE  Inv' /\ Grows
  <1>1. PICK b \in Calls : b = call[h] /\ Promise(b) /\ b.pc = "find_link"
    BY DEF Inv, Promises, FindLink, At
  <1>2. ASSUME NEW pc \in {"insert_link", "store"}, Goto(h, pc) PROVE Inv' /\ Grows
    <2> DEFINE c == [b EXCEPT !.pc = pc]
    <2>1. c \in Calls
      BY DEF Calls, Storing
    <2>2. Promise(c)
      BY <1>1, <2>1 DEF Promise, HasUrl, HasPrior, HasDoc, HasRec, MayDrop, Holding, Knowing, Inside,
         Success, Calls, Parsing, Dropping, Storing, Deciding
    <2>3. Become(h, c)
      BY <1>1, <1>2 DEF Goto
    <2> HIDE DEF c
    <2>4. QED
      BY <2>1, <2>2, <2>3, QuietStep DEF FindLink, Become, Inv, Stored, Tables
  <1>3. QED
    BY <1>2 DEF FindLink

LEMMA InsertLinkStep ==
    ASSUME Inv, NEW h \in Handlers, InsertLink(h)
    PROVE  Inv' /\ Grows
  <1>1. PICK b \in Calls : b = call[h] /\ Promise(b) /\ b.pc = "insert_link"
    BY DEF Inv, Promises, InsertLink, At
  <1>2. b.url \in Urls
    BY <1>1 DEF Promise, HasUrl, Storing
  <1>3. CASE link[b.url] = "none"
    <2> DEFINE c == [b EXCEPT !.pc = "store"]
    <2>1. Stored' /\ Grows
      BY <1>1, <1>2, <1>3, LinkWrite DEF InsertLink, LinkStatuses
    <2>2. c \in Calls
      BY DEF Calls, Storing
    <2>3. Promise(c)
      BY <1>1, <2>2 DEF Promise, HasUrl, HasPrior, HasDoc, HasRec, MayDrop, Holding, Knowing, Inside,
         Success, Calls, Parsing, Dropping, Storing, Deciding
    <2>4. Become(h, c)
      BY <1>1, <1>3 DEF InsertLink, Goto
    <2> HIDE DEF c
    <2>5. QED
      BY <2>1, <2>2, <2>3, <2>4, Keeping
  <1>4. CASE link[b.url] # "none"
    BY <1>1, <1>4, Quiet, Refusing DEF InsertLink, Inv, Stored, Tables
  <1>5. QED
    BY <1>3, <1>4

LEMMA FetchStep ==
    ASSUME Inv, NEW h \in Handlers, (\E c \in Contents : Fetched(h, c)) \/ FetchRejected(h) \/ FetchFailed(h)
    PROVE  Inv' /\ Grows
  <1>1. PICK b \in Calls : b = call[h] /\ Promise(b) /\ b.pc = "fetch"
    BY DEF Inv, Promises, Fetched, FetchRejected, FetchFailed, At
  <1>2. ASSUME NEW content \in Contents, Fetched(h, content) PROVE Inv' /\ Grows
    <2> DEFINE c == [b EXCEPT !.pc = "store", !.content = content]
    <2>1. c \in Calls
      BY DEF Calls, Storing
    <2>2. Promise(c)
      BY <1>1, <2>1 DEF Promise, HasUrl, HasPrior, HasDoc, HasRec, MayDrop, Holding, Knowing, Inside,
         Success, Calls, Parsing, Dropping, Storing, Deciding
    <2>3. Become(h, c)
      BY <1>1, <1>2 DEF Fetched
    <2> HIDE DEF c
    <2>4. QED
      BY <1>2, <2>1, <2>2, <2>3, QuietStep DEF Fetched, Become, Inv, Stored, Tables
  <1>3. CASE FetchRejected(h)
    <2>1. b.url \in Urls
      BY <1>1 DEF Promise, HasUrl, Storing
    <2>2. Stored' /\ Grows
      BY <1>1, <1>3, <2>1, LinkWrite DEF FetchRejected, LinkStatuses
    <2>3. QED
      BY <1>3, <2>2, Refusing DEF FetchRejected
  <1>4. CASE FetchFailed(h)
    BY <1>4, Quiet, Refusing DEF FetchFailed, Inv, Stored, Tables
  <1>5. QED
    BY <1>2, <1>3, <1>4

LEMMA StoreStep ==
    ASSUME Inv, NEW h \in Handlers, Store(h)
    PROVE  Inv' /\ Grows
  <1>1. PICK b \in Calls : b = call[h] /\ Promise(b) /\ b.pc = "store"
    BY DEF Inv, Promises, Store, At
  <1> DEFINE c == [b EXCEPT !.pc = "latest"]
  <1>2. c \in Calls
    BY DEF Calls, Storing
  <1>3. Promise(c)
    BY <1>1, <1>2 DEF Promise, HasUrl, HasPrior, HasDoc, HasRec, MayDrop, Holding, Knowing, Inside,
       Success, Calls, Parsing, Dropping, Storing, Deciding
  <1>4. Become(h, c)
    BY <1>1 DEF Store, Goto
  <1>5. disk' \subseteq Contents
    BY <1>1 DEF Store, Promise, HasUrl, Storing, Inv, Stored, Tables
  <1> HIDE DEF c
  <1>6. QED
    BY <1>2, <1>3, <1>4, <1>5, QuietStep DEF Store, Become

LEMMA FindLatestStep ==
    ASSUME Inv, NEW h \in Handlers, FindLatest(h)
    PROVE  Inv' /\ Grows
  <1>1. PICK b \in Calls : b = call[h] /\ Promise(b) /\ b.pc = "latest"
    BY DEF Inv, Promises, FindLatest, At
  <1>2. b.url \in Urls /\ b.content \in Contents /\ b.todo = {} /\ b.doc = Null
    BY <1>1 DEF Promise, HasUrl, Storing
  <1>a. ASSUME NEW c \in Calls, Promise(c), Become(h, c) PROVE Inv' /\ Grows
    BY <1>a, QuietStep DEF FindLatest, Become, Inv, Stored, Tables
  <1>3. CASE Become(h, [b EXCEPT !.pc = "insert_doc", !.isNew = TRUE])
    <2> DEFINE c == [b EXCEPT !.pc = "insert_doc", !.isNew = TRUE]
    <2>1. c \in Calls
      BY DEF Calls, Storing
    <2>2. Promise(c)
      BY <1>1, <1>2, <2>1 DEF Promise, HasUrl, HasPrior, HasDoc, HasRec, MayDrop, Holding, Knowing, Inside,
         Success, Calls, Parsing, Dropping, Storing, Deciding
    <2>3. QED
      BY <1>3, <2>1, <2>2, <1>a
  <1>4. ASSUME NEW d \in DocsOf(b.url), doc[d].content = b.content,
               Become(h, [b EXCEPT !.pc = "set_downloaded", !.doc = d])
        PROVE  Inv' /\ Grows
    <2> DEFINE c == [b EXCEPT !.pc = "set_downloaded", !.doc = d]
    <2>1. d \in DocIds /\ doc[d] # Null /\ doc[d].url = b.url
      BY DEF DocsOf
    <2>2. c \in Calls
      BY <2>1 DEF Calls, Storing
    <2>3. Promise(c)
      BY <1>1, <1>2, <1>4, <2>1, <2>2 DEF Promise, HasUrl, HasPrior, HasDoc, HasRec, MayDrop, Holding, Knowing,
         Inside, Success, Calls, Parsing, Dropping, Storing, Deciding
    <2>4. QED
      BY <1>4, <2>2, <2>3, <1>a
  <1>5. ASSUME NEW d \in DocsOf(b.url), doc[d].content # b.content,
               Become(h, [b EXCEPT !.pc = "insert_doc", !.doc = d, !.isNew = TRUE])
        PROVE  Inv' /\ Grows
    <2> DEFINE c == [b EXCEPT !.pc = "insert_doc", !.doc = d, !.isNew = TRUE]
    <2>1. d \in DocIds /\ doc[d] # Null /\ doc[d].url = b.url
      BY DEF DocsOf
    <2>2. c \in Calls
      BY <2>1 DEF Calls, Storing
    <2>3. Promise(c)
      BY <1>1, <1>2, <1>5, <2>1, <2>2 DEF Promise, HasUrl, HasPrior, HasDoc, HasRec, MayDrop, Holding, Knowing,
         Inside, Success, Calls, Parsing, Dropping, Storing, Deciding
    <2>4. QED
      BY <1>5, <2>2, <2>3, <1>a
  <1>6. QED
    BY <1>1, <1>3, <1>4, <1>5 DEF FindLatest, Latest

LEMMA InsertDocumentStep ==
    ASSUME Inv, NEW h \in Handlers, InsertDocument(h)
    PROVE  Inv' /\ Grows
  <1>1. PICK b \in Calls : b = call[h] /\ Promise(b) /\ b.pc = "insert_doc"
    BY DEF Inv, Promises, InsertDocument, At
  <1>2. /\ b.url \in Urls /\ b.content \in Contents /\ b.todo = {} /\ b.doc \in DocIds \cup {Null}
        /\ b.doc # Null => /\ doc[b.doc] # Null /\ doc[b.doc].url = b.url
                          /\ doc[b.doc].content # b.content
    BY <1>1 DEF Promise, HasUrl, HasPrior, Storing, Calls
  <1>3. CASE Reply(h, "500") /\ UNCHANGED documents
    BY <1>3, Quiet, Refusing DEF InsertDocument, Inv, Stored, Tables
  <1>4. CASE lastDoc + 1 \in DocIds /\ lastDoc' = lastDoc + 1
    <2>2. Tables /\ Keys /\ Lineage /\ LinkIsTrue /\ DocIds \subseteq Nat /\ Null \notin DocIds
      BY IdsAssumption, NullAssumption DEF Inv, Stored
    <2>n. PICK n \in DocIds : n = lastDoc + 1 /\ lastDoc' = n
      BY <1>4
    <2>a. lastDoc \in Nat /\ n \in Nat /\ n \in DocIds /\ n = lastDoc + 1 /\ lastDoc' = n /\ n # lastDoc
      BY <2>n, <2>2 DEF Tables
    <2> DEFINE v   == IF b.doc = Null THEN 1 ELSE doc[b.doc].version + 1
               row == [url |-> b.url, content |-> b.content, version |-> v, supersedes |-> b.doc, blob |-> Null]
               c   == [b EXCEPT !.pc = "set_downloaded", !.doc = n]
    <2>1. /\ doc' = [doc EXCEPT ![n] = row] /\ Become(h, c)
          /\ UNCHANGED <<link, rec, lastRec, disk>>
      BY <1>1, <2>a DEF InsertDocument, documents, records
    <2>b. doc[n] = Null
      <3>1. SUFFICES ASSUME doc[n] # Null PROVE FALSE
        OBVIOUS
      <3>2. n <= lastDoc
        BY <2>a, <3>1, <2>2 DEF Keys
      <3>3. QED
        BY <2>a, <3>2
    <2>3. n \in DocIds /\ n \in Nat /\ lastDoc \in Nat /\ doc[n] = Null
      BY <2>a, <2>b
    <2>4. v \in Nat
      <3>1. CASE b.doc = Null
        BY <3>1
      <3>2. CASE b.doc # Null
        <4>1. doc[b.doc] \in Docs
          BY <1>2, <2>2, <3>2 DEF Tables
        <4>2. doc[b.doc].version \in Nat
          BY <4>1 DEF Docs
        <4>3. QED
          BY <3>2, <4>2
      <3>3. QED
        BY <3>1, <3>2
    <2>5. row \in Docs /\ row # Null
      BY <1>2, <2>4, RowsAssumption DEF Docs
    <2>6. /\ row.url = b.url /\ row.content = b.content /\ row.supersedes = b.doc
          /\ b.doc = Null => row.version = 1
          /\ b.doc # Null => row.version = doc[b.doc].version + 1
      OBVIOUS
    <2> HIDE DEF row, v
    <2>7. doc'[n] = row /\ \A d \in DocIds : d # n => doc'[d] = doc[d]
      BY <2>1, <2>2, <2>3 DEF Tables
    <2>8. Tables' /\ Keys'
      <3>1. Tables'
        BY <2>1, <2>2, <2>a, <2>5 DEF Tables
      <3>2. \A d \in DocIds : doc'[d] # Null => d <= n
        <4>1. TAKE d \in DocIds
        <4>2. HAVE doc'[d] # Null
        <4>3. d # n => d <= lastDoc
          BY <2>2, <2>7, <4>2 DEF Keys
        <4>4. d \in Nat
          BY <2>2
        <4>5. QED
          BY <2>a, <4>3, <4>4
      <3>3. \A r \in RecIds : rec'[r] # Null => r <= lastRec /\ doc'[rec[r].doc] # Null
        <4>1. TAKE r \in RecIds
        <4>2. HAVE rec'[r] # Null
        <4>3. rec[r] # Null /\ rec[r].doc \in DocIds
          BY <2>1, <2>2, <4>2 DEF Tables, Recs
        <4>4. QED
          BY <2>2, <2>5, <2>7, <4>3 DEF Keys
      <3>4. Keys'
        <4>1. \A d \in DocIds : doc'[d] # Null => d <= lastDoc'
          BY <2>a, <3>2
        <4>2. \A r \in RecIds : rec'[r] # Null => r <= lastRec' /\ doc'[rec'[r].doc] # Null
          BY <2>1, <3>3
        <4>3. QED
          BY <4>1, <4>2 DEF Keys
      <3>5. QED
        BY <3>1, <3>4
    <2>9. Lineage'
      <3>1. SUFFICES ASSUME NEW d \in DocIds, doc'[d] # Null
              PROVE IF doc'[d].supersedes = Null THEN doc'[d].version = 1
                    ELSE /\ doc'[d].supersedes < d /\ doc'[doc'[d].supersedes] # Null
                         /\ doc'[doc'[d].supersedes].url = doc'[d].url
                         /\ doc'[doc'[d].supersedes].content # doc'[d].content
                         /\ doc'[d].version = doc'[doc'[d].supersedes].version + 1
        BY DEF Lineage
      <3>2. CASE d = n
        <4>1. CASE b.doc = Null
          BY <2>6, <2>7, <3>2, <4>1
        <4>2. CASE b.doc # Null
          <5>1. b.doc \in DocIds /\ b.doc <= lastDoc /\ b.doc < n /\ b.doc # n
            <6>1. b.doc \in DocIds /\ b.doc \in Nat
              BY <1>2, <2>2, <4>2
            <6>2. b.doc <= lastDoc
              BY <1>2, <2>2, <4>2, <6>1 DEF Keys
            <6>3. QED
              BY <2>a, <6>1, <6>2
          <5>2. doc'[b.doc] = doc[b.doc] /\ doc'[d] = row
            BY <2>7, <3>2, <5>1
          <5>3. QED
            BY <1>2, <2>6, <3>2, <4>2, <5>1, <5>2
        <4>3. QED
          BY <4>1, <4>2
      <3>3. CASE d # n
        <4>1. doc'[d] = doc[d] /\ doc[d] # Null
          BY <2>7, <3>1, <3>3
        <4>2. doc[d].supersedes # Null => doc[d].supersedes \in DocIds /\ doc[d].supersedes # n
          <5>1. doc[d] \in Docs
            BY <2>2, <4>1 DEF Tables
          <5>2. doc[d].supersedes \in DocIds \cup {Null}
            BY <5>1 DEF Docs
          <5>3. doc[d].supersedes # Null => doc[doc[d].supersedes] # Null
            BY <2>2, <4>1 DEF Lineage
          <5>4. QED
            BY <2>3, <5>2, <5>3
        <4>3. CASE doc[d].supersedes = Null
          BY <2>2, <4>1, <4>3 DEF Lineage
        <4>4. CASE doc[d].supersedes # Null
          <5>1. doc'[doc[d].supersedes] = doc[doc[d].supersedes]
            BY <2>7, <4>2, <4>4
          <5>2. QED
            BY <2>2, <4>1, <4>4, <5>1 DEF Lineage
        <4>5. QED
          BY <4>3, <4>4
      <3>4. QED
        BY <3>2, <3>3
    <2>10. LinkIsTrue'
      <3>1. \A d \in DocIds : doc[d] # Null => doc'[d] = doc[d]
        BY <2>3, <2>7
      <3>2. \A u \in Urls : DocsOf(u) \subseteq DocsOf(u)'
        BY <3>1 DEF DocsOf
      <3>3. \A d \in DocIds : RecsOf(d)' = RecsOf(d)
        BY <2>1 DEF RecsOf
      <3>4. \A u \in Urls : DocsOf(u) \subseteq DocIds
        BY DEF DocsOf
      <3>5. QED
        BY <2>1, <2>2, <3>2, <3>3, <3>4 DEF LinkIsTrue
    <2>11. Grows
      <3>1. DocsGrow
        BY <2>a, <2>b, <2>7 DEF DocsGrow
      <3>2. RecsGrow
        BY <2>1, <2>2 DEF Tables, RecsGrow
      <3>3. QED
        BY <3>1, <3>2 DEF Grows
    <2>12. c \in Calls
      <3>1. n \in DocIds
        BY <2>a
      <3>2. QED
        BY <3>1 DEF Calls, Storing
    <2>c. /\ c.pc = "set_downloaded" /\ c.op = b.op /\ c.doc = n /\ c.url = b.url /\ c.content = b.content
          /\ c.todo = {}
      BY <1>2 DEF Calls
    <2>d. n \in DocIds /\ doc'[n] # Null /\ doc'[n].url = b.url /\ doc'[n].content = b.content
      BY <2>a, <2>5, <2>6, <2>7
    <2> HIDE DEF c
    <2>13. Promise(c)'
      BY <1>2, <2>c, <2>d DEF Promise, HasUrl, HasPrior, HasDoc, HasRec, MayDrop, Holding, Knowing, Inside,
         Success, Parsing, Dropping, Storing, Deciding
    <2>14. QED
      BY <2>1, <2>8, <2>9, <2>10, <2>11, <2>12, <2>13, Becoming DEF Become, Stored
  <1>5. QED
    BY <1>3, <1>4 DEF InsertDocument

LEMMA SetDownloadedStep ==
    ASSUME Inv, NEW h \in Handlers, SetDownloaded(h)
    PROVE  Inv' /\ Grows
  <1>1. PICK b \in Calls : b = call[h] /\ Promise(b) /\ b.pc = "set_downloaded"
    BY DEF Inv, Promises, SetDownloaded, At
  <1>2. /\ b.url \in Urls /\ b.todo = {} /\ b.doc \in DocIds /\ doc[b.doc] # Null /\ b.url = doc[b.doc].url
    BY <1>1 DEF Promise, HasUrl, HasDoc, Holding, Storing
  <1>3. Stored' /\ Grows
    BY <1>1, <1>2, LinkWrite DEF SetDownloaded, LinkStatuses, DocsOf
  <1>4. CASE b.op = "acquire"
    BY <1>1, <1>3, <1>4, IdleFine, Keeping DEF SetDownloaded
  <1>5. ASSUME NEW pc \in {"extract", "look_up"}, Become(h, [b EXCEPT !.pc = pc, !.isNew = FALSE])
        PROVE  Inv' /\ Grows
    <2> DEFINE c == [b EXCEPT !.pc = pc, !.isNew = FALSE]
    <2>1. c \in Calls
      BY DEF Calls, Parsing
    <2>2. Promise(c)
      BY <1>1, <1>2, <2>1 DEF Promise, HasUrl, HasPrior, HasDoc, HasRec, MayDrop, Holding, Knowing, Inside,
         Success, Calls, Parsing, Dropping, Storing, Deciding
    <2> HIDE DEF c
    <2>3. Become(h, c)
      BY <1>5 DEF c
    <2>4. QED
      BY <1>3, <2>1, <2>2, <2>3, Keeping
  <1>6. QED
    BY <1>1, <1>4, <1>5 DEF SetDownloaded

-----------------------------------------------------------------------------
(* Parsing                                                                 *)

LEMMA LookUpStep ==
    ASSUME Inv, NEW h \in Handlers, LookUp(h)
    PROVE  Inv' /\ Grows
  <1>1. PICK b \in Calls : b = call[h] /\ Promise(b) /\ b.pc = "look_up"
    BY DEF Inv, Promises, LookUp, At
  <1>2. b.todo = {} /\ HasDoc(b) /\ Holding(b)
    BY <1>1 DEF Promise, HasUrl, Holding
  <1>3. Stored' /\ Grows
    BY Quiet DEF LookUp, Inv, Stored, Tables
  <1>4. CASE Goto(h, "extract")
    <2> DEFINE c == [b EXCEPT !.pc = "extract"]
    <2>1. c \in Calls
      BY DEF Calls, Parsing
    <2>2. Promise(c)
      BY <1>1, <1>2, <2>1 DEF Promise, HasUrl, HasPrior, HasDoc, HasRec, MayDrop, Holding, Knowing, Inside,
         Success, Calls, Parsing, Dropping, Storing, Deciding
    <2>3. Become(h, c)
      BY <1>1, <1>4 DEF Goto
    <2> HIDE DEF c
    <2>4. QED
      BY <1>3, <2>1, <2>2, <2>3, Keeping
  <1>5. ASSUME NEW r \in RecsOf(b.doc), Become(h, [b EXCEPT !.pc = "extract", !.todo = {r}])
        PROVE  Inv' /\ Grows
    <2> DEFINE c == [b EXCEPT !.pc = "extract", !.todo = {r}]
    <2>1. r \in RecIds /\ r <= lastRec /\ rec[r].doc = b.doc
      BY DEF RecsOf, Inv, Stored, Keys
    <2>2. c \in Calls
      BY <2>1 DEF Calls, Parsing
    <2>3. Promise(c)
      BY <1>1, <1>2, <2>1, <2>2 DEF Promise, HasUrl, HasPrior, HasDoc, HasRec, MayDrop, Holding, Knowing, Inside,
         Success, Calls, Parsing, Dropping, Storing, Deciding
    <2> HIDE DEF c
    <2>4. Become(h, c)
      BY <1>5 DEF c
    <2>5. QED
      BY <1>3, <2>2, <2>3, <2>4, Keeping
  <1>6. ASSUME NEW r \in RecsOf(b.doc), Finish(h, [b EXCEPT !.rec = r])
        PROVE  Inv' /\ Grows
    <2> DEFINE c == [b EXCEPT !.rec = r]
    <2>1. r \in RecIds /\ r <= lastRec /\ rec[r] # Null /\ rec[r].doc = b.doc /\ r <= r
      BY IdsAssumption DEF RecsOf, Inv, Stored, Keys
    <2>2. c \in Calls /\ c.rec = r /\ c.doc = b.doc
      BY <2>1 DEF Calls
    <2>3. HasDoc(c) /\ Holding(c)
      BY <1>1, <1>2, <2>2 DEF Calls, HasDoc, Holding, Inside, Success
    <2> HIDE DEF c
    <2>4. Finish(h, c)
      BY <1>6 DEF c
    <2>5. QED
      BY <1>3, <2>1, <2>2, <2>3, <2>4, Finishing
  <1>7. QED
    BY <1>1, <1>4, <1>5, <1>6 DEF LookUp, Newest

LEMMA ExtractStep ==
    ASSUME Inv, NEW h \in Handlers, Extract(h)
    PROVE  Inv' /\ Grows
  <1>1. PICK b \in Calls : b = call[h] /\ Promise(b) /\ b.pc = "extract"
    BY DEF Inv, Promises, Extract, At
  <1>2. b.doc \in DocIds /\ doc[b.doc] # Null /\ b.content = doc[b.doc].content
    BY <1>1 DEF Promise, HasDoc, Holding, Parsing
  <1>3. b.content \in Contents /\ disk \subseteq Contents
    BY <1>2 DEF Inv, Stored, Tables, Docs
  <1>4. Stored' /\ Grows
    BY <1>1, <1>3, Quiet DEF Extract
  <1>5. CASE Reply(h, "500")
    BY <1>4, <1>5, Refusing
  <1>6. ASSUME NEW weak \in BOOLEAN, Become(h, [b EXCEPT !.pc = "insert_record", !.needsOcr = weak])
        PROVE  Inv' /\ Grows
    <2> DEFINE c == [b EXCEPT !.pc = "insert_record", !.needsOcr = weak]
    <2>1. c \in Calls
      BY DEF Calls, Parsing
    <2>2. Promise(c)
      BY <1>1, <1>2, <2>1 DEF Promise, HasUrl, HasPrior, HasDoc, HasRec, MayDrop, Holding, Knowing, Inside,
         Success, Calls, Parsing, Dropping, Storing, Deciding
    <2> HIDE DEF c
    <2>3. Become(h, c)
      BY <1>6 DEF c
    <2>4. QED
      BY <1>4, <2>1, <2>2, <2>3, Keeping
  <1>7. StillWeak(b.content, b.ocr) \subseteq BOOLEAN
    BY DEF StillWeak
  <1>8. QED
    BY <1>1, <1>5, <1>6, <1>7 DEF Extract

LEMMA InsertRecordStep ==
    ASSUME Inv, NEW h \in Handlers, InsertRecord(h)
    PROVE  Inv' /\ Grows
  <1>1. PICK b \in Calls : b = call[h] /\ Promise(b) /\ b.pc = "insert_record"
    BY DEF Inv, Promises, InsertRecord, At
  <1>2. /\ b.doc \in DocIds /\ doc[b.doc] # Null /\ HasDoc(b) /\ b.needsOcr \in BOOLEAN
        /\ \A r \in b.todo : r <= lastRec /\ (rec[r] # Null => rec[r].doc = b.doc)
        /\ b.todo \subseteq RecIds
    BY <1>1 DEF Promise, HasDoc, MayDrop, Holding, Parsing, Calls
  <1>3. Tables /\ Keys /\ Lineage /\ LinkIsTrue /\ RecIds \subseteq Nat
    BY IdsAssumption DEF Inv, Stored
  <1>4. PICK n \in RecIds : n = lastRec + 1 /\ lastRec' = n
    BY DEF InsertRecord
  <1> DEFINE row == [doc |-> b.doc, needsOcr |-> b.needsOcr, fields |-> FALSE, status |-> "pending"]
             c   == [b EXCEPT !.pc = "insert_fields", !.rec = n, !.needsOcr = FALSE]
  <1>a. rec' = [rec EXCEPT ![n] = row]
    BY <1>1, <1>4 DEF InsertRecord
  <1>b. Become(h, c)
    BY <1>1, <1>4 DEF InsertRecord
  <1>c. UNCHANGED <<link, doc, lastDoc, disk>>
    BY DEF InsertRecord, documents
  <1>d. b.doc \in DocIds /\ b.needsOcr \in BOOLEAN
    BY <1>2
  <1>e. row \in Recs /\ row.doc = b.doc
    BY <1>d DEF Recs
  <1>6. row \in Recs /\ row # Null /\ row.doc = b.doc
    BY <1>e, RowsAssumption
  <1>7. c \in Calls
    BY DEF Calls, Parsing
  <1>8. c.pc = "insert_fields" /\ c.rec = n /\ c.doc = b.doc /\ c.url = b.url /\ c.content = b.content /\ c.todo = b.todo
    BY DEF Calls
  <1> HIDE DEF row, c
  <1>5. rec' = [rec EXCEPT ![n] = row] /\ Become(h, c) /\ UNCHANGED <<link, doc, lastDoc, disk>>
    BY <1>a, <1>b, <1>c
  <1>9. lastRec \in Nat /\ n \in Nat /\ n # lastRec /\ lastRec <= n /\ ~(n <= lastRec)
    BY <1>3, <1>4 DEF Tables
  <1>10. rec[n] = Null
    BY <1>3, <1>9 DEF Keys
  <1>11. rec'[n] = row /\ \A r \in RecIds : r # n => rec'[r] = rec[r]
    BY <1>3, <1>5 DEF Tables
  <1>12. Tables'
    BY <1>3, <1>4, <1>5, <1>6, <1>9 DEF Tables
  <1>13. Keys'
    <2>1. ASSUME NEW r \in RecIds, rec'[r] # Null PROVE r <= n /\ doc[rec'[r].doc] # Null
      <3>1. CASE r = n
        BY <1>2, <1>6, <1>9, <1>11, <3>1
      <3>2. CASE r # n
        <4>1. r <= lastRec /\ doc[rec[r].doc] # Null /\ r \in Nat
          BY <1>3, <1>11, <2>1, <3>2 DEF Keys
        <4>2. QED
          BY <1>4, <1>9, <1>11, <3>2, <4>1
      <3>3. QED
        BY <3>1, <3>2
    <2>2. \A d \in DocIds : doc[d] # Null => d <= lastDoc
      BY <1>3 DEF Keys
    <2>3. QED
      BY <1>4, <1>5, <2>1, <2>2 DEF Keys
  <1>14. Lineage'
    BY <1>3, <1>5 DEF Lineage
  <1>15. LinkIsTrue'
    <2>1. \A d \in DocIds : RecsOf(d) \subseteq RecsOf(d)'
      BY <1>10, <1>11 DEF RecsOf
    <2>2. \A u \in Urls : DocsOf(u)' = DocsOf(u) /\ DocsOf(u) \subseteq DocIds
      BY <1>5 DEF DocsOf
    <2>3. QED
      BY <1>3, <1>5, <2>1, <2>2 DEF LinkIsTrue
  <1>16. Grows
    <2>1. DocsGrow
      BY <1>3, <1>5 DEF DocsGrow, Tables
    <2>2. RecsGrow
      BY <1>3, <1>4, <1>9, <1>10, <1>11 DEF RecsGrow
    <2>3. QED
      BY <2>1, <2>2 DEF Grows
  <1>17. Promise(c)'
    <2>1. HasUrl(c)' /\ HasPrior(c)' /\ (c.pc = "drop_record" => c.drop \in c.todo)
      BY <1>8 DEF HasUrl, HasPrior, Storing, Deciding
    <2>2. HasDoc(c)'
      BY <1>1, <1>2, <1>5, <1>8 DEF HasDoc, Holding, Parsing, Success
    <2>3. HasRec(c)'
      BY <1>4, <1>6, <1>8, <1>9, <1>11 DEF HasRec
    <2>4. ASSUME NEW r \in b.todo
          PROVE  r <= n /\ r < n /\ (rec'[r] # Null => rec'[r].doc = b.doc)
      <3>1. r \in RecIds /\ r \in Nat /\ r <= lastRec /\ (rec[r] # Null => rec[r].doc = b.doc)
        BY <1>2, <1>3
      <3>2. r < n
        BY <1>4, <1>9, <3>1
      <3>3. QED
        BY <1>9, <1>11, <3>1, <3>2
    <2>5. MayDrop(c)'
      BY <1>4, <1>8, <2>4 DEF MayDrop, Dropping
    <2>6. QED
      BY <2>1, <2>2, <2>3, <2>5 DEF Promise
  <1>18. QED
    BY <1>5, <1>7, <1>12, <1>13, <1>14, <1>15, <1>16, <1>17, Becoming DEF Become, Stored

LEMMA InsertFieldsStep ==
    ASSUME Inv, NEW h \in Handlers, InsertFields(h)
    PROVE  Inv' /\ Grows
  <1>1. PICK b \in Calls : b = call[h] /\ Promise(b) /\ b.pc = "insert_fields"
    BY DEF Inv, Promises, InsertFields, At
  <1>2. b.rec \in RecIds
    BY <1>1 DEF Promise, HasRec, Knowing
  <1>3. CASE rec[b.rec] = Null
    BY <1>1, <1>3, Quiet, Refusing DEF InsertFields, records, Inv, Stored, Tables
  <1>4. CASE rec[b.rec] # Null
    <2> DEFINE c == [b EXCEPT !.pc = "set_parsed"]
               x == [rec[b.rec] EXCEPT !.fields = TRUE]
    <2>1. rec[b.rec] \in Recs
      BY <1>2, <1>4 DEF Inv, Stored, Tables
    <2>2. x \in Recs /\ x.doc = rec[b.rec].doc
      BY <2>1 DEF Recs
    <2>3. rec' = [rec EXCEPT ![b.rec] = x]
      BY <1>1, <1>4 DEF InsertFields
    <2> HIDE DEF x
    <2>4. Stored' /\ Grows
      BY <1>2, <1>4, <2>2, <2>3, RecordWrite DEF InsertFields
    <2>5. c \in Calls
      BY DEF Calls, Parsing
    <2>6. Promise(c)
      BY <1>1, <2>5 DEF Promise, HasUrl, HasPrior, HasDoc, HasRec, MayDrop, Holding, Knowing, Inside,
         Success, Calls, Parsing, Dropping, Storing, Deciding
    <2>7. Become(h, c)
      BY <1>1, <1>4 DEF InsertFields, Goto
    <2> HIDE DEF c
    <2>8. QED
      BY <2>4, <2>5, <2>6, <2>7, Keeping
  <1>5. QED
    BY <1>3, <1>4

LEMMA SetParsedStep ==
    ASSUME Inv, NEW h \in Handlers, SetParsed(h)
    PROVE  Inv' /\ Grows
  <1>1. PICK b \in Calls : b = call[h] /\ Promise(b) /\ b.pc = "set_parsed"
    BY DEF Inv, Promises, SetParsed, At
  <1>2. /\ b.doc \in DocIds /\ doc[b.doc] # Null /\ b.url = doc[b.doc].url /\ HasDoc(b) /\ Holding(b)
        /\ b.rec \in RecIds /\ b.rec <= lastRec
    BY <1>1 DEF Promise, HasDoc, HasRec, Holding, Knowing, Parsing
  <1>3. PICK q \in RecIds : b.rec <= q /\ rec[q] # Null /\ rec[q].doc = b.doc
    BY <1>1 DEF Promise, HasRec, Knowing
  <1>4. b.url \in Urls
    BY <1>2 DEF Inv, Stored, Tables, Docs
  <1>5. b.doc \in DocsOf(b.url) /\ q \in RecsOf(b.doc)
    BY <1>2, <1>3 DEF DocsOf, RecsOf
  <1>6. Stored' /\ Grows
    BY <1>1, <1>4, <1>5, LinkWrite DEF SetParsed, LinkStatuses
  <1>7. CASE b.todo = {}
    BY <1>1, <1>2, <1>3, <1>6, <1>7, Finishing DEF SetParsed
  <1>8. CASE b.todo # {}
    <2> DEFINE c == [b EXCEPT !.pc = "drop_fields"]
    <2>1. c \in Calls
      BY DEF Calls, Dropping
    <2>2. /\ c.pc = "drop_fields" /\ c.todo = b.todo /\ c.doc = b.doc /\ c.rec = b.rec
          /\ c.url = b.url /\ c.content = b.content
      BY DEF Calls
    <2>3. Become(h, c)
      BY <1>1, <1>8 DEF SetParsed, Goto
    <2> HIDE DEF c
    <2>4. ASSUME NEW r \in b.todo
          PROVE  r <= lastRec /\ (rec[r] # Null => \E p \in RecIds : r < p /\ rec[p] # Null /\ rec[p].doc = rec[r].doc)
      <3>1. /\ r <= lastRec /\ r < b.rec /\ r \in RecIds
            /\ rec[r] # Null => rec[r].doc = b.doc
        BY <1>1 DEF Promise, MayDrop, Parsing, Calls
      <3>2. r \in Nat /\ b.rec \in Nat /\ q \in Nat
        BY <1>2, <3>1, IdsAssumption
      <3>3. r < q
        BY <1>3, <3>1, <3>2
      <3>4. QED
        BY <1>3, <3>1, <3>3
    <2>5. MayDrop(c)
      BY <2>2, <2>4 DEF MayDrop, Parsing
    <2>6. HasRec(c)
      BY <1>2, <1>3, <2>2 DEF HasRec
    <2>7. HasDoc(c)
      BY <1>1, <1>2, <2>2 DEF HasDoc, Success
    <2>8. Promise(c)
      BY <2>2, <2>5, <2>6, <2>7 DEF Promise, HasUrl, HasPrior, Storing, Deciding
    <2>9. QED
      BY <1>6, <2>1, <2>3, <2>8, Keeping
  <1>9. QED
    BY <1>7, <1>8

LEMMA StoreBlobStep ==
    ASSUME Inv, NEW h \in Handlers, StoreBlob(h)
    PROVE  Inv' /\ Grows
  <1>1. PICK b \in Calls : b = call[h] /\ Promise(b) /\ b.pc = "blob"
    BY DEF Inv, Promises, StoreBlob, At
  <1>2. /\ b.doc \in DocIds /\ doc[b.doc] # Null /\ b.url = doc[b.doc].url /\ b.content = doc[b.doc].content
        /\ b.op = "sync" /\ b.rec \in RecIds /\ b.rec <= lastRec
        /\ \E q \in RecIds : b.rec <= q /\ rec[q] # Null /\ rec[q].doc = b.doc
    BY <1>1 DEF Promise, HasUrl, HasDoc, HasRec, Holding, Knowing
  <1>3. Tables /\ Keys /\ Lineage /\ LinkIsTrue
    BY DEF Inv, Stored
  <1>4. doc[b.doc] \in Docs
    BY <1>2, <1>3 DEF Tables
  <1> DEFINE row == [doc[b.doc] EXCEPT !.blob = b.content]
             c   == [b EXCEPT !.pc = "replied", !.reply = "ok"]
  <1>5. row \in Docs /\ row # Null
    BY <1>2, <1>4, RowsAssumption DEF Docs
  <1>6. /\ row.url = doc[b.doc].url /\ row.content = doc[b.doc].content /\ row.version = doc[b.doc].version
        /\ row.supersedes = doc[b.doc].supersedes /\ row.blob = b.content
    BY <1>4 DEF Docs
  <1>7. doc' = [doc EXCEPT ![b.doc] = row] /\ Become(h, c) /\ UNCHANGED <<link, lastDoc, rec, lastRec, disk>>
    BY <1>1, <1>2 DEF StoreBlob, Reply, records
  <1>8. c \in Calls
    BY DEF Calls
  <1>9. /\ c.pc = "replied" /\ c.reply = "ok" /\ c.op = b.op /\ c.doc = b.doc /\ c.rec = b.rec
        /\ c.url = b.url /\ c.content = b.content
    BY DEF Calls
  <1> HIDE DEF row, c
  <1>10. ASSUME NEW d \in DocIds
         PROVE  /\ (doc[d] # Null) <=> (doc'[d] # Null)
                /\ doc'[d].url = doc[d].url /\ doc'[d].content = doc[d].content
                /\ doc'[d].version = doc[d].version /\ doc'[d].supersedes = doc[d].supersedes
                /\ doc[d] # Null => (doc[d].blob = doc[d].content => doc'[d].blob = doc[d].content)
    BY <1>2, <1>3, <1>5, <1>6, <1>7 DEF Tables
  <1>11. doc'[b.doc] = row
    BY <1>2, <1>3, <1>7 DEF Tables
  <1>12. Tables'
    BY <1>3, <1>5, <1>7 DEF Tables
  <1>13. Keys'
    <2>1. \A r \in RecIds : rec[r] # Null => rec[r].doc \in DocIds
      BY <1>3 DEF Tables, Recs
    <2>2. QED
      BY <1>3, <1>7, <1>10, <2>1 DEF Keys
  <1>14. Lineage'
    <2>1. \A d \in DocIds : doc[d] # Null => doc[d].supersedes \in DocIds \cup {Null}
      BY <1>3 DEF Tables, Docs
    <2>2. SUFFICES ASSUME NEW d \in DocIds, doc'[d] # Null
            PROVE IF doc'[d].supersedes = Null THEN doc'[d].version = 1
                  ELSE /\ doc'[d].supersedes < d /\ doc'[doc'[d].supersedes] # Null
                       /\ doc'[doc'[d].supersedes].url = doc'[d].url
                       /\ doc'[doc'[d].supersedes].content # doc'[d].content
                       /\ doc'[d].version = doc'[doc'[d].supersedes].version + 1
      BY DEF Lineage
    <2>3. doc[d] # Null /\ doc'[d].supersedes = doc[d].supersedes
      BY <1>10, <2>2
    <2>4. CASE doc[d].supersedes = Null
      BY <1>3, <1>10, <2>3, <2>4 DEF Lineage
    <2>5. CASE doc[d].supersedes # Null
      <3>1. doc[d].supersedes \in DocIds /\ doc[doc[d].supersedes] # Null
        BY <1>3, <2>1, <2>3, <2>5 DEF Lineage
      <3>2. QED
        BY <1>3, <1>10, <2>3, <2>5, <3>1 DEF Lineage
    <2>6. QED
      BY <2>4, <2>5
  <1>15. LinkIsTrue'
    <2>1. \A u \in Urls, d \in DocIds : d \in DocsOf(u)' <=> d \in DocsOf(u)
      BY <1>10 DEF DocsOf
    <2>2. \A d \in DocIds : RecsOf(d)' = RecsOf(d)
      BY <1>7 DEF RecsOf
    <2>3. \A u \in Urls : DocsOf(u) \subseteq DocIds
      BY DEF DocsOf
    <2>4. QED
      BY <1>3, <1>7, <2>1, <2>2, <2>3 DEF LinkIsTrue
  <1>16. Grows
    <2>1. DocsGrow
      BY <1>3, <1>7, <1>10 DEF DocsGrow, Tables
    <2>2. RecsGrow
      BY <1>3, <1>7 DEF RecsGrow, Tables
    <2>3. QED
      BY <2>1, <2>2 DEF Grows
  <1>17. Promise(c)'
    <2>1. HasDoc(c)'
      BY <1>2, <1>5, <1>6, <1>9, <1>11 DEF HasDoc
    <2>2. HasRec(c)'
      BY <1>2, <1>7, <1>9 DEF HasRec
    <2>3. QED
      BY <1>2, <1>9, <2>1, <2>2 DEF Promise, HasUrl, HasPrior, MayDrop, Storing, Deciding, Parsing, Dropping
  <1>18. QED
    BY <1>7, <1>8, <1>12, <1>13, <1>14, <1>15, <1>16, <1>17, Becoming DEF Become, Stored

LEMMA ReprocessReadStep ==
    ASSUME Inv, NEW h \in Handlers, ReprocessRead(h)
    PROVE  Inv' /\ Grows
  <1>1. PICK b \in Calls : b = call[h] /\ Promise(b) /\ b.pc = "reprocess_read"
    BY DEF Inv, Promises, ReprocessRead, At
  <1>2. b.rec \in RecIds /\ b.todo = {}
    BY <1>1 DEF Promise, HasUrl
  <1>3. Stored' /\ Grows
    BY Quiet DEF ReprocessRead, Inv, Stored, Tables
  <1>4. CASE Reply(h, "404")
    BY <1>3, <1>4, Refusing
  <1>5. CASE rec[b.rec] # Null
    <2>1. PICK d \in DocIds : d = rec[b.rec].doc /\ doc[d] # Null
      BY <1>2, <1>5 DEF Inv, Stored, Tables, Keys, Recs
    <2>2. PICK u \in Urls, content \in Contents : u = doc[d].url /\ content = doc[d].content
      BY <2>1 DEF Inv, Stored, Tables, Docs
    <2> DEFINE c == [b EXCEPT !.pc = "extract", !.doc = d, !.url = u, !.content = content]
    <2>3. c \in Calls
      BY DEF Calls, Parsing
    <2>4. Promise(c)
      BY <1>1, <1>2, <2>1, <2>2 DEF Promise, HasUrl, HasPrior, HasDoc, HasRec, MayDrop, Holding, Knowing, Inside,
         Success, Calls, Parsing, Dropping, Storing, Deciding
    <2>5. Become(h, c)
      BY <1>1, <1>5, <2>1, <2>2 DEF ReprocessRead
    <2> HIDE DEF c
    <2>6. QED
      BY <1>3, <2>3, <2>4, <2>5, Keeping
  <1>6. QED
    BY <1>1, <1>4, <1>5 DEF ReprocessRead

-----------------------------------------------------------------------------
(* Removing                                                                *)

LEMMA ListDuplicatesStep ==
    ASSUME Inv, NEW h \in Handlers, ListDuplicates(h)
    PROVE  Inv' /\ Grows
  <1>1. PICK b \in Calls : b = call[h] /\ Promise(b) /\ b.pc = "list"
    BY DEF Inv, Promises, ListDuplicates, At
  <1>2. b.op = "cleanup"
    BY <1>1 DEF Promise, HasUrl
  <1>3. Stored' /\ Grows
    BY Quiet DEF ListDuplicates, Inv, Stored, Tables
  <1>4. CASE Reply(h, "ok")
    BY <1>1, <1>2, <1>3, <1>4, IdleFine, Keeping DEF Reply
  <1>5. CASE ~Reply(h, "ok")
    <2>1. PICK todo : /\ todo = UNION {Duplicates(d) : d \in {e \in DocIds : doc[e] # Null}}
                      /\ Become(h, [b EXCEPT !.pc = "drop_fields", !.todo = todo])
      BY <1>1, <1>5 DEF ListDuplicates
    <2> DEFINE c == [b EXCEPT !.pc = "drop_fields", !.todo = todo]
    <2>2. ASSUME NEW r \in todo
          PROVE  /\ r \in RecIds /\ r <= lastRec
                 /\ \E q \in RecIds : r < q /\ rec[q] # Null /\ rec[q].doc = rec[r].doc
      <3>1. PICK d \in DocIds : r \in Duplicates(d)
        BY <2>1
      <3>2. r \in RecIds /\ rec[r] # Null /\ rec[r].doc = d
        BY <3>1 DEF Duplicates, RecsOf
      <3>3. PICK q \in RecIds : ~(q <= r) /\ rec[q] # Null /\ rec[q].doc = d
        BY <3>1 DEF Duplicates, RecsOf, Newest
      <3>4. r < q
        BY <3>2, <3>3, IdsAssumption
      <3>5. QED
        BY <3>2, <3>3, <3>4 DEF Inv, Stored, Keys
    <2>3. todo \in SUBSET RecIds
      BY <2>2
    <2>4. c \in Calls
      BY <2>3 DEF Calls, Dropping
    <2>5. c.pc = "drop_fields" /\ c.op = "cleanup" /\ c.todo = todo
      BY <1>2 DEF Calls
    <2>6. Become(h, c)
      BY <2>1
    <2> HIDE DEF c
    <2>7. MayDrop(c)
      BY <2>2, <2>5 DEF MayDrop, Parsing
    <2>8. Promise(c)
      BY <2>5, <2>7 DEF Promise, HasUrl, HasPrior, HasDoc, HasRec, Holding, Knowing, Inside, Success,
         Parsing, Storing, Deciding
    <2>9. QED
      BY <1>3, <2>4, <2>6, <2>8, Keeping
  <1>6. QED
    BY <1>4, <1>5

LEMMA DropFieldsStep ==
    ASSUME Inv, NEW h \in Handlers, DropFields(h)
    PROVE  Inv' /\ Grows
  <1>1. PICK b \in Calls : b = call[h] /\ Promise(b) /\ b.pc = "drop_fields"
    BY DEF Inv, Promises, DropFields, At
  <1>2. PICK r \in b.todo :
          /\ rec' = IF rec[r] = Null THEN rec ELSE [rec EXCEPT ![r].fields = FALSE]
          /\ Become(h, [b EXCEPT !.pc = "drop_record", !.drop = r])
    BY <1>1 DEF DropFields
  <1>3. r \in RecIds
    BY DEF Calls
  <1>4. Stored' /\ Grows
    <2>1. CASE rec[r] = Null
      BY <1>2, <2>1, Quiet DEF DropFields, records, Inv, Stored, Tables
    <2>2. CASE rec[r] # Null
      <3> DEFINE x == [rec[r] EXCEPT !.fields = FALSE]
      <3>1. rec[r] \in Recs
        BY <1>3, <2>2 DEF Inv, Stored, Tables
      <3>2. x \in Recs /\ x.doc = rec[r].doc
        BY <3>1 DEF Recs
      <3>3. rec' = [rec EXCEPT ![r] = x]
        BY <1>2, <2>2
      <3> HIDE DEF x
      <3>4. QED
        BY <1>3, <2>2, <3>2, <3>3, RecordWrite DEF DropFields
    <2>3. QED
      BY <2>1, <2>2
  <1> DEFINE c == [b EXCEPT !.pc = "drop_record", !.drop = r]
  <1>5. c \in Calls
    BY <1>3 DEF Calls, Dropping
  <1>6. Promise(c)
    BY <1>1, <1>5 DEF Promise, HasUrl, HasPrior, HasDoc, HasRec, MayDrop, Holding, Knowing, Inside,
         Success, Calls, Parsing, Dropping, Storing, Deciding
  <1>7. Become(h, c)
    BY <1>2
  <1> HIDE DEF c
  <1>8. QED
    BY <1>4, <1>5, <1>6, <1>7, Keeping

LEMMA DropRecordStep ==
    ASSUME Inv, NEW h \in Handlers, DropRecord(h)
    PROVE  Inv' /\ Grows
  <1>1. PICK b \in Calls : b = call[h] /\ Promise(b) /\ b.pc = "drop_record"
    BY DEF Inv, Promises, DropRecord, At
  <1>2. PICK r \in b.todo : r = b.drop
    BY <1>1 DEF Promise
  <1>3. /\ r \in RecIds
        /\ rec[r] # Null => \E q \in RecIds : r < q /\ rec[q] # Null /\ rec[q].doc = rec[r].doc
    BY <1>1 DEF Promise, MayDrop, Dropping, Calls
  <1>4. Tables /\ Keys /\ Lineage /\ LinkIsTrue /\ RecIds \subseteq Nat
    BY IdsAssumption DEF Inv, Stored
  <1>5. CASE Reply(h, "500") /\ UNCHANGED rec
    BY <1>5, Quiet, Refusing DEF DropRecord, records, Inv, Stored, Tables
  <1>6. CASE rec' = [rec EXCEPT ![r] = Null]
    <2>1. UNCHANGED <<link, doc, lastDoc, lastRec, disk>>
      BY DEF DropRecord, documents
    <2>2. rec'[r] = Null /\ \A q \in RecIds : q # r => rec'[q] = rec[q]
      BY <1>3, <1>4, <1>6 DEF Tables
    <2>3. ASSUME rec[r] # Null
          PROVE  \E q \in RecIds : r < q /\ q # r /\ rec'[q] # Null /\ rec'[q].doc = rec[r].doc
      <3>1. PICK q \in RecIds : r < q /\ rec[q] # Null /\ rec[q].doc = rec[r].doc
        BY <1>3, <2>3
      <3>2. q # r
        BY <1>3, <1>4, <3>1
      <3>3. QED
        BY <2>2, <3>1, <3>2
    <2>4. Tables'
      BY <1>4, <1>6, <2>1 DEF Tables
    <2>5. Keys' /\ Lineage'
      BY <1>4, <2>1, <2>2 DEF Keys, Lineage
    <2>6. LinkIsTrue'
      <3>1. \A d \in DocIds : RecsOf(d) # {} => RecsOf(d)' # {}
        <4>1. TAKE d \in DocIds
        <4>2. HAVE RecsOf(d) # {}
        <4>3. PICK q \in RecIds : rec[q] # Null /\ rec[q].doc = d
          BY <4>2 DEF RecsOf
        <4>4. \E p \in RecIds : rec'[p] # Null /\ rec'[p].doc = d
          BY <2>2, <2>3, <4>3
        <4>5. QED
          BY <4>4 DEF RecsOf
      <3>2. \A u \in Urls : DocsOf(u)' = DocsOf(u) /\ DocsOf(u) \subseteq DocIds
        BY <2>1 DEF DocsOf
      <3>3. QED
        BY <1>4, <2>1, <3>1, <3>2 DEF LinkIsTrue
    <2>7. Grows
      <3>1. DocsGrow
        BY <1>4, <2>1 DEF DocsGrow, Tables
      <3>2. RecsGrow
        BY <1>4, <2>1, <2>2, <2>3 DEF RecsGrow, Tables
      <3>3. QED
        BY <3>1, <3>2 DEF Grows
    <2>8. Stored'
      BY <2>4, <2>5, <2>6 DEF Stored
    <2> DEFINE c == [b EXCEPT !.todo = b.todo \ {r}, !.drop = Null]
               e == [c EXCEPT !.pc = "drop_fields"]
    <2>9. c \in Calls /\ e \in Calls
      BY ZenonT(60) DEF Calls, Dropping
    <2>10. /\ c.pc = "drop_record" /\ c.op = b.op /\ c.doc = b.doc /\ c.rec = b.rec
           /\ c.url = b.url /\ c.content = b.content
           /\ e.pc = "drop_fields" /\ e.op = b.op /\ e.doc = b.doc /\ e.rec = b.rec
           /\ e.url = b.url /\ e.content = b.content /\ e.todo \subseteq b.todo
      BY <1>1 DEF Calls
    <2>11. Reply(h, "500") \/ Finish(h, c) \/ Become(h, e)
      BY <1>1, <1>2 DEF DropRecord
    <2> HIDE DEF c, e
    <2>12. CASE Reply(h, "500")
      BY <2>7, <2>8, <2>12, Refusing
    <2>13. CASE Finish(h, c)
      <3>1. CASE b.op = "cleanup"
        BY <2>7, <2>8, <2>10, <2>13, <3>1, IdleFine, Keeping DEF Finish
      <3>2. CASE b.op # "cleanup"
        <4>1. HasDoc(b) /\ HasRec(b) /\ Inside(b)
          BY <1>1, <3>2 DEF Promise, Inside, Dropping
        <4>2. HasDoc(c) /\ Holding(c)
          BY <1>1, <2>10, <4>1 DEF HasDoc, Holding, Inside, Success
        <4>3. /\ c.rec \in RecIds /\ c.rec <= lastRec
              /\ \E q \in RecIds : c.rec <= q /\ rec[q] # Null /\ rec[q].doc = c.doc
          BY <2>10, <4>1 DEF HasRec, Knowing
        <4>4. QED
          BY <2>7, <2>8, <2>9, <2>13, <4>2, <4>3, Finishing
      <3>3. QED
        BY <3>1, <3>2
    <2>14. CASE Become(h, e)
      <3>1. HasDoc(e) /\ HasRec(e) /\ MayDrop(e)
        BY <1>1, <2>10 DEF Promise, HasDoc, HasRec, MayDrop, Holding, Knowing, Inside, Success, Dropping, Parsing
      <3>2. Promise(e)
        BY <2>10, <3>1 DEF Promise, HasUrl, HasPrior, Storing, Deciding
      <3>3. QED
        BY <2>7, <2>8, <2>9, <2>14, <3>2, Keeping
    <2>15. QED
      BY <2>11, <2>12, <2>13, <2>14
  <1>7. QED
    BY <1>1, <1>2, <1>5, <1>6 DEF DropRecord

-----------------------------------------------------------------------------
(* Deciding                                                                *)

LEMMA DecideReadStep ==
    ASSUME Inv, NEW h \in Handlers, NEW override \in BOOLEAN, DecideRead(h, override)
    PROVE  Inv' /\ Grows
  <1>1. PICK b \in Calls : b = call[h] /\ Promise(b) /\ b.pc = "decide_read"
    BY DEF Inv, Promises, DecideRead, At
  <1>2. Stored' /\ Grows
    BY Quiet DEF DecideRead, Inv, Stored, Tables
  <1>3. ASSUME NEW r \in {"400", "404"}, Reply(h, r) PROVE Inv' /\ Grows
    BY <1>2, <1>3, Refusing
  <1>4. CASE Goto(h, "decide_write")
    <2> DEFINE c == [b EXCEPT !.pc = "decide_write"]
    <2>1. c \in Calls
      BY DEF Calls, Deciding
    <2>2. Promise(c)
      BY <1>1, <2>1 DEF Promise, HasUrl, HasPrior, HasDoc, HasRec, MayDrop, Holding, Knowing, Inside,
         Success, Calls, Parsing, Dropping, Storing, Deciding
    <2>3. Become(h, c)
      BY <1>1, <1>4 DEF Goto
    <2> HIDE DEF c
    <2>4. QED
      BY <1>2, <2>1, <2>2, <2>3, Keeping
  <1>5. QED
    BY <1>3, <1>4 DEF DecideRead

LEMMA DecideWriteStep ==
    ASSUME Inv, NEW h \in Handlers, DecideWrite(h)
    PROVE  Inv' /\ Grows
  <1>1. PICK b \in Calls : b = call[h] /\ Promise(b) /\ b.pc = "decide_write"
    BY DEF Inv, Promises, DecideWrite, At
  <1>2. b.rec \in RecIds
    BY <1>1 DEF Promise, HasUrl, Deciding
  <1>3. Stored' /\ Grows
    <2>1. CASE rec[b.rec] = Null
      BY <1>1, <2>1, Quiet DEF DecideWrite, records, Inv, Stored, Tables
    <2>2. CASE rec[b.rec] # Null
      <3>1. PICK s \in {"approved", "rejected"} : rec' = [rec EXCEPT ![b.rec].status = s]
        BY <1>1, <2>2 DEF DecideWrite
      <3> DEFINE x == [rec[b.rec] EXCEPT !.status = s]
      <3>2. rec[b.rec] \in Recs
        BY <1>2, <2>2 DEF Inv, Stored, Tables
      <3>3. x \in Recs /\ x.doc = rec[b.rec].doc
        BY <3>2 DEF Recs
      <3>4. rec' = [rec EXCEPT ![b.rec] = x]
        BY <3>1
      <3> HIDE DEF x
      <3>5. QED
        BY <1>2, <2>2, <3>3, <3>4, RecordWrite DEF DecideWrite
    <2>3. QED
      BY <2>1, <2>2
  <1> DEFINE c == [b EXCEPT !.pc = "decide_mark"]
  <1>4. c \in Calls
    BY DEF Calls, Deciding
  <1>5. Promise(c)
    BY <1>1, <1>4 DEF Promise, HasUrl, HasPrior, HasDoc, HasRec, MayDrop, Holding, Knowing, Inside,
         Success, Calls, Parsing, Dropping, Storing, Deciding
  <1>6. Become(h, c)
    BY <1>1 DEF DecideWrite, Goto
  <1> HIDE DEF c
  <1>7. QED
    BY <1>3, <1>4, <1>5, <1>6, Keeping

LEMMA DecideMarkStep ==
    ASSUME Inv, NEW h \in Handlers, DecideMark(h)
    PROVE  Inv' /\ Grows
  <1>1. PICK b \in Calls : b = call[h] /\ Promise(b) /\ b.pc = "decide_mark"
    BY DEF Inv, Promises, DecideMark, At
  <1>2. b.rec \in RecIds
    BY <1>1 DEF Promise, HasUrl, Deciding
  <1>3. Stored' /\ Grows
    <2>1. CASE rec[b.rec] = Null
      BY <1>1, <2>1, Quiet DEF DecideMark, Inv, Stored, Tables
    <2>2. CASE rec[b.rec] # Null
      <3>1. PICK d \in DocIds : d = rec[b.rec].doc /\ doc[d] # Null
        BY <1>2, <2>2 DEF Inv, Stored, Tables, Keys, Recs
      <3>2. PICK u \in Urls : u = doc[d].url
        BY <3>1 DEF Inv, Stored, Tables, Docs
      <3>3. d \in DocsOf(u) /\ b.rec \in RecsOf(d)
        BY <1>2, <2>2, <3>1, <3>2 DEF DocsOf, RecsOf
      <3>4. PICK s \in {"verified", "rejected"} : link' = [link EXCEPT ![u] = s]
        BY <1>1, <2>2, <3>1, <3>2 DEF DecideMark
      <3>5. s \in LinkStatuses /\ DocsOf(u) # {} /\ \E e \in DocsOf(u) : RecsOf(e) # {}
        BY <3>3 DEF LinkStatuses
      <3>6. UNCHANGED <<documents, records, disk>>
        BY DEF DecideMark
      <3>7. QED
        BY <3>4, <3>5, <3>6, LinkWrite
    <2>3. QED
      BY <2>1, <2>2
  <1>4. b.op # "sync"
    BY <1>1 DEF Promise, HasUrl, Deciding
  <1>5. Become(h, Idle)
    BY <1>1, <1>4 DEF DecideMark, Reply
  <1>6. QED
    BY <1>3, <1>5, IdleFine, Keeping

-----------------------------------------------------------------------------
(* The invariant, and the theorems                                         *)

LEMMA CrashStep ==
    ASSUME Inv, NEW kept \in {disk, {}}, Crash(kept)
    PROVE  Inv' /\ Grows
  <1>1. Stored' /\ Grows
    BY Quiet DEF Crash, Inv, Stored, Tables
  <1>2. Promise(Idle)'
    BY IdleFine, <1>1, Stable DEF Inv, Stored
  <1>3. ASSUME NEW h \in Handlers PROVE Promise(call[h])'
    <2>1. call'[h] = Idle
      BY DEF Crash
    <2>2. QED
      BY <1>2, <2>1 DEF Promise, HasUrl, HasPrior, HasDoc, HasRec, MayDrop, Holding, Knowing, Inside, Success
  <1>4. call' \in [Handlers -> Calls]
    BY IdleFine DEF Crash
  <1>5. QED
    BY <1>1, <1>3, <1>4 DEF Inv, Promises

LEMMA StatementStep ==
    ASSUME Inv, NEW h \in Handlers, Statements(h)
    PROVE  Inv' /\ Grows
  <1>1. CASE FindLink(h)
    BY <1>1, FindLinkStep
  <1>2. CASE InsertLink(h)
    BY <1>2, InsertLinkStep
  <1>3. CASE (\E c \in Contents : Fetched(h, c)) \/ FetchRejected(h) \/ FetchFailed(h)
    BY <1>3, FetchStep
  <1>4. CASE Store(h)
    BY <1>4, StoreStep
  <1>5. CASE FindLatest(h)
    BY <1>5, FindLatestStep
  <1>6. CASE InsertDocument(h)
    BY <1>6, InsertDocumentStep
  <1>7. CASE SetDownloaded(h)
    BY <1>7, SetDownloadedStep
  <1>8. CASE LookUp(h)
    BY <1>8, LookUpStep
  <1>9. CASE Extract(h)
    BY <1>9, ExtractStep
  <1>10. CASE InsertRecord(h)
    BY <1>10, InsertRecordStep
  <1>11. CASE InsertFields(h)
    BY <1>11, InsertFieldsStep
  <1>12. CASE SetParsed(h)
    BY <1>12, SetParsedStep
  <1>13. CASE StoreBlob(h)
    BY <1>13, StoreBlobStep
  <1>14. CASE ReprocessRead(h)
    BY <1>14, ReprocessReadStep
  <1>15. CASE ListDuplicates(h)
    BY <1>15, ListDuplicatesStep
  <1>16. CASE DropFields(h)
    BY <1>16, DropFieldsStep
  <1>17. CASE DropRecord(h)
    BY <1>17, DropRecordStep
  <1>18. ASSUME NEW b \in BOOLEAN, DecideRead(h, b) PROVE Inv' /\ Grows
    BY <1>18, DecideReadStep
  <1>19. CASE DecideWrite(h)
    BY <1>19, DecideWriteStep
  <1>20. CASE DecideMark(h)
    BY <1>20, DecideMarkStep
  <1>21. QED
    BY <1>1, <1>2, <1>3, <1>4, <1>5, <1>6, <1>7, <1>8, <1>9, <1>10, <1>11, <1>12, <1>13, <1>14, <1>15, <1>16,
       <1>17, <1>18, <1>19, <1>20 DEF Statements

LEMMA ReturnStep ==
    ASSUME Inv, NEW h \in Handlers, Return(h)
    PROVE  Inv' /\ Grows
  BY IdleFine, QuietStep DEF Return, Become, Inv, Stored, Tables

\* What every step does: it keeps the invariant, and the tables only grow.
LEMMA NextStep ==
    ASSUME Inv, [Next]_archiveVars
    PROVE  Inv' /\ Grows
  <1>1. ASSUME NEW h \in Handlers, Arrivals(h) \/ Statements(h) \/ Return(h) PROVE Inv' /\ Grows
    BY <1>1, ArrivalStep, StatementStep, ReturnStep
  <1>2. ASSUME NEW u \in Urls, Discover(u) PROVE Inv' /\ Grows
    BY <1>2, DiscoverStep
  <1>3. ASSUME NEW kept \in {disk, {}}, Crash(kept) PROVE Inv' /\ Grows
    BY <1>3, CrashStep
  <1>4. CASE UNCHANGED archiveVars
    <2>1. UNCHANGED <<link, doc, lastDoc, rec, lastRec, disk, call>>
      BY <1>4 DEF archiveVars
    <2>2. Stored' /\ Grows
      BY <2>1, Quiet DEF documents, records, Inv, Stored, Tables
    <2>3. Promises'
      BY <2>1 DEF Inv, Promises, Promise, HasUrl, HasPrior, HasDoc, HasRec, MayDrop, Holding, Knowing, Inside,
         Success
    <2>4. QED
      BY <2>2, <2>3 DEF Inv
  <1>5. QED
    BY <1>1, <1>2, <1>3, <1>4 DEF Next

LEMMA Invariance == Spec => []Inv
  <1>1. Inv /\ [Next]_archiveVars => Inv'
    BY NextStep
  <1>2. QED
    BY <1>1, IdleInit, PTL DEF Spec

\* Every statement of every handler leaves the tables and the calls well-typed: ids are
\* keys handed out, statuses those the tables' CHECK constraints allow.
THEOREM ArchiveTypeCorrect == Spec => []TypeOK
  <1>1. Inv => TypeOK
    BY DEF Inv, Stored, Tables, Promises, TypeOK
  <1>2. QED
    BY <1>1, Invariance, PTL

\* Whatever syncs, retries, reprocesses and cleanups run side by side, a record is deleted
\* only while a newer record of the same document stays (dedup.py, pipeline.py).
THEOREM NewestKeptCorrect == Spec => NewestKept
  <1> DEFINE Kept == \A r \in RecIds : rec[r] # Null /\ rec'[r] = Null =>
                       \E q \in RecIds : q > r /\ rec'[q] # Null /\ rec'[q].doc = rec[r].doc
  <1>1. Inv /\ [Next]_archiveVars => Kept
    <2>1. SUFFICES ASSUME Inv, [Next]_archiveVars, NEW r \in RecIds, rec[r] # Null, rec'[r] = Null
                   PROVE  \E q \in RecIds : q > r /\ rec'[q] # Null /\ rec'[q].doc = rec[r].doc
      OBVIOUS
    <2>2. RecsGrow
      BY <2>1, NextStep DEF Grows
    <2>3. PICK q \in RecIds : r < q /\ rec'[q] # Null /\ rec'[q].doc = rec[r].doc
      BY <2>1, <2>2 DEF RecsGrow
    <2>4. q > r
      BY <2>3, IdsAssumption
    <2>5. QED
      BY <2>3, <2>4
  <1>2. QED
    BY <1>1, Invariance, PTL DEF Spec, NewestKept

\* The versions of a URL form chains: each supersedes an older row of the same URL with
\* other bytes and counts up from it by one (repository.py, record_document).
THEOREM LineageCorrect == Spec => []Lineage
  <1>1. Inv => Lineage
    BY DEF Inv, Stored
  <1>2. QED
    BY <1>1, Invariance, PTL

\* The status a link shows is never ahead of what was archived and parsed, although it is
\* written by statements of its own (repository.py set_status, pipeline.py, review.py).
THEOREM LinkIsTrueCorrect == Spec => []LinkIsTrue
  <1>1. Inv => LinkIsTrue
    BY DEF Inv, Stored
  <1>2. QED
    BY <1>1, Invariance, PTL

\* A sync answered with success has its bytes durably stored, and a record of them, or of
\* a retry that replaced it, is there: what the agent relies on when it forgets the file.
THEOREM AnswerIsTrueCorrect == Spec => []AnswerIsTrue
  <1>1. Inv => AnswerIsTrue
    <2>1. SUFFICES ASSUME Inv, NEW h \in Handlers, At(h, "replied"), call[h].reply = "ok"
            PROVE  /\ doc[call[h].doc].url = call[h].url
                   /\ doc[call[h].doc].content = call[h].content
                   /\ doc[call[h].doc].blob = call[h].content
                   /\ \E r \in RecsOf(call[h].doc) : r >= call[h].rec
      BY DEF AnswerIsTrue
    <2>2. PICK b \in Calls : b = call[h] /\ Promise(b) /\ Success(b)
      BY <2>1 DEF Inv, Promises, At, Success
    <2>3. /\ doc[b.doc].url = b.url /\ doc[b.doc].content = b.content /\ doc[b.doc].blob = b.content
      BY <2>2 DEF Promise, HasDoc, Holding
    <2>4. b.rec \in RecIds /\ \E q \in RecIds : b.rec <= q /\ rec[q] # Null /\ rec[q].doc = b.doc
      BY <2>2 DEF Promise, HasRec, Knowing
    <2>5. PICK q \in RecIds : b.rec <= q /\ rec[q] # Null /\ rec[q].doc = b.doc
      BY <2>4
    <2>6. q \in RecsOf(b.doc) /\ q >= b.rec
      BY <2>4, <2>5, IdsAssumption DEF RecsOf
    <2>7. QED
      BY <2>2, <2>3, <2>6
  <1>2. QED
    BY <1>1, Invariance, PTL

=============================================================================
