--------------------------- MODULE DocumentArchive ---------------------------
(***************************************************************************)
(* The archive of documents on the server and the records parsed from      *)
(* them: repository.py, acquisition.py, pipeline.py, the decisions of      *)
(* review.py, operations/dedup.py and the routes that call them.           *)
(*                                                                         *)
(* Handlers are threads with connections in autocommit mode: an action is  *)
(* one SQL statement, or several that touch only rows no other handler     *)
(* reads.  call[h].pc names the statement thread h executes next.          *)
(*                                                                         *)
(* A URL stands for a (source_id, url) pair, a content for the bytes of a  *)
(* PDF and their SHA256.                                                   *)
(***************************************************************************)
EXTENDS Naturals, FiniteSets

CONSTANTS
    Urls,
    Contents,
    Scanned,    \* the contents without a text layer: they need OCR
    DocIds,     \* primary keys the table documents may hand out
    RecIds,     \* primary keys the table go_records may hand out
    Handlers,   \* threads of the server
    Tesseract,  \* whether OCR is installed on the server
    OcrTexts,   \* the OCR text a sync may bring: "none", "poor" (too poor to replace a page), "good"
    Routes,     \* the operations in use
    Crashes,    \* whether the server may stop
    Null

Ops == {"sync", "ingest", "acquire", "parse", "reprocess", "approve", "reject", "cleanup"}

ASSUME ContentsAssumption == Scanned \subseteq Contents
ASSUME IdsAssumption == DocIds \subseteq Nat \ {0} /\ RecIds \subseteq Nat \ {0}
ASSUME NullAssumption == Null \notin Urls \cup Contents \cup DocIds \cup RecIds
ASSUME ServerAssumption == Tesseract \in BOOLEAN /\ Crashes \in BOOLEAN /\ Routes \subseteq Ops
ASSUME OcrTextsAssumption == "none" \in OcrTexts /\ OcrTexts \subseteq {"none", "poor", "good"}

VARIABLES
    link,     \* discovered_documents: URL -> its status, "none" when there is no row
    doc,      \* documents: id -> its row, or Null
    lastDoc,
    rec,      \* go_records with its extraction: id -> its row, or Null
    lastRec,
    disk,     \* the contents in the content-addressed directory
    call      \* thread -> the call it is executing

archiveVars == <<link, doc, lastDoc, rec, lastRec, disk, call>>

LinkStatuses == {"none", "new", "downloaded", "parsed", "verified", "rejected"}

Docs == [url : Urls, content : Contents, version : Nat, supersedes : DocIds \cup {Null},
         blob : Contents \cup {Null}]

\* needsOcr is a column of the extraction the record was made from; fields says whether
\* the rows of go_fields are there.
Recs == [doc : DocIds, needsOcr : BOOLEAN, fields : BOOLEAN,
         status : {"pending", "approved", "rejected"}]

ASSUME RowsAssumption == Null \notin Docs \cup Recs

Parsing  == {"extract", "insert_record", "insert_fields", "set_parsed"}
Dropping == {"drop_fields", "drop_record"}
Storing  == {"find_link", "insert_link", "fetch", "store", "latest", "insert_doc",
             "set_downloaded"}
Deciding == {"decide_read", "decide_write", "decide_mark"}

Calls == [op : Ops,
          pc : {"idle", "replied", "look_up", "blob", "reprocess_read", "list"}
               \cup Parsing \cup Dropping \cup Storing \cup Deciding,
          url : Urls \cup {Null}, content : Contents \cup {Null}, ocr : OcrTexts,
          doc : DocIds \cup {Null}, isNew : BOOLEAN, rec : RecIds \cup {Null},
          needsOcr : BOOLEAN, todo : SUBSET RecIds, drop : RecIds \cup {Null},
          reply : {"none", "ok", "400", "404", "500"}]

Idle == [op |-> "sync", pc |-> "idle", url |-> Null, content |-> Null, ocr |-> "none",
         doc |-> Null, isNew |-> FALSE, rec |-> Null, needsOcr |-> FALSE, todo |-> {},
         drop |-> Null, reply |-> "none"]

Init ==
    /\ link = [u \in Urls |-> "none"]
    /\ doc = [d \in DocIds |-> Null] /\ lastDoc = 0
    /\ rec = [r \in RecIds |-> Null] /\ lastRec = 0
    /\ disk = {}
    /\ call = [h \in Handlers |-> Idle]

DocsOf(u) == {d \in DocIds : doc[d] # Null /\ doc[d].url = u}
RecsOf(d) == {r \in RecIds : rec[r] # Null /\ rec[r].doc = d}
Newest(ids) == {i \in ids : \A j \in ids : j <= i}
Latest(ids) == {d \in ids : \A e \in ids : doc[e].version <= doc[d].version}

Become(h, c) == call' = [call EXCEPT ![h] = c]
Goto(h, pc)  == Become(h, [call[h] EXCEPT !.pc = pc])
\* Of the answers only those to a sync matter later: the agent acts on them.
Reply(h, r)  == Become(h, IF call[h].op = "sync" THEN [call[h] EXCEPT !.pc = "replied", !.reply = r]
                                                 ELSE Idle)
At(h, pc)    == call[h].pc = pc

\* Mutant of Finish: answers before the bytes are durable.
FinishEarly(h, c) == Become(h, IF c.op = "sync" THEN [c EXCEPT !.pc = "replied", !.reply = "ok"] ELSE Idle)

\* What is left when the record is there: a sync makes the bytes durable, nothing else does.
Finish(h, c) == Become(h, IF c.op = "sync" THEN [c EXCEPT !.pc = "blob"] ELSE Idle)

documents == <<doc, lastDoc>>
records   == <<rec, lastRec>>

-----------------------------------------------------------------------------
(* A call arrives on a free thread.                                        *)

\* Bound: a call that may insert a record arrives only while an id is left for it.
Inserts == {"sync", "ingest", "parse", "reprocess"}
Room    == lastRec + 1 + Cardinality({h \in Handlers : call[h].op \in Inserts /\ ~At(h, "idle")})
             \in RecIds

Arrive(h, c) ==
    /\ At(h, "idle")
    /\ c.op \in Routes
    /\ c.op \in Inserts => Room
    /\ Become(h, c)
    /\ UNCHANGED <<link, documents, records, disk>>

\* An agent posts a document (sync), or an operator ingests a file. Only pages without
\* a text layer come with OCR text.
ArriveBytes(h, op, u, c, o) ==
    /\ o # "none" => op = "sync" /\ c \in Scanned
    /\ Arrive(h, [Idle EXCEPT !.op = op, !.pc = "find_link", !.url = u, !.content = c, !.ocr = o])

\* The link was listed by pending_downloads.
ArriveAcquire(h, u) ==
    /\ link[u] = "new"
    /\ Arrive(h, [Idle EXCEPT !.op = "acquire", !.pc = "fetch", !.url = u])

\* run_parsing lists the documents no record was made from.
ArriveParse(h, d) ==
    /\ doc[d] # Null
    /\ RecsOf(d) = {}
    /\ Arrive(h, [Idle EXCEPT !.op = "parse", !.pc = "extract", !.doc = d, !.url = doc[d].url,
                              !.content = doc[d].content])

ArriveAbout(h, op, pc, r) ==
    Arrive(h, [Idle EXCEPT !.op = op, !.pc = pc, !.rec = r])

ArriveCleanup(h) == Arrive(h, [Idle EXCEPT !.op = "cleanup", !.pc = "list"])

Return(h) ==
    /\ At(h, "replied")
    /\ Become(h, Idle)
    /\ UNCHANGED <<link, documents, records, disk>>

-----------------------------------------------------------------------------
(* Archiving: ingest_document_bytes up to the document's row, acquire_one. *)

\* A crawl registers a link: _register_link.
Discover(u) ==
    /\ link[u] = "none"
    /\ link' = [link EXCEPT ![u] = "new"]
    /\ UNCHANGED <<documents, records, disk, call>>

FindLink(h) ==
    /\ At(h, "find_link")
    /\ Goto(h, IF link[call[h].url] = "none" THEN "insert_link" ELSE "store")
    /\ UNCHANGED <<link, documents, records, disk>>

\* UNIQUE (source_id, url)
InsertLink(h) ==
    /\ At(h, "insert_link")
    /\ IF link[call[h].url] = "none"
         THEN link' = [link EXCEPT ![call[h].url] = "new"] /\ Goto(h, "store")
         ELSE UNCHANGED link /\ Reply(h, "500")
    /\ UNCHANGED <<documents, records, disk>>

Fetched(h, c) ==
    /\ At(h, "fetch")
    /\ Become(h, [call[h] EXCEPT !.pc = "store", !.content = c])
    /\ UNCHANGED <<link, documents, records, disk>>

\* No answer, or an answer that is not a PDF.
FetchRejected(h) ==
    /\ At(h, "fetch")
    /\ link' = [link EXCEPT ![call[h].url] = "rejected"]
    /\ Reply(h, "400")
    /\ UNCHANGED <<documents, records, disk>>

\* A status other than 200: the link stays as it is.
FetchFailed(h) ==
    /\ At(h, "fetch")
    /\ Reply(h, "400")
    /\ UNCHANGED <<link, documents, records, disk>>

Store(h) ==
    /\ At(h, "store")
    /\ disk' = disk \cup {call[h].content}
    /\ Goto(h, "latest")
    /\ UNCHANGED <<link, documents, records>>

\* record_document looks at the latest version only.
FindLatest(h) ==
    /\ At(h, "latest")
    /\ LET ds == Latest(DocsOf(call[h].url))
       IN  \/ /\ ds = {}
              /\ Become(h, [call[h] EXCEPT !.pc = "insert_doc", !.isNew = TRUE])
           \/ \E d \in ds :
                IF doc[d].content = call[h].content
                  THEN Become(h, [call[h] EXCEPT !.pc = "set_downloaded", !.doc = d])
                  ELSE Become(h, [call[h] EXCEPT !.pc = "insert_doc", !.doc = d, !.isNew = TRUE])
    /\ UNCHANGED <<link, documents, records, disk>>

\* Mutants of InsertDocument: the link to the row superseded is forgotten; the version is
\* not counted up.
InsertDocumentUnlinked(h) ==
    /\ At(h, "insert_doc")
    /\ \A d \in DocsOf(call[h].url) : doc[d].content # call[h].content
    /\ lastDoc + 1 \in DocIds
    /\ lastDoc' = lastDoc + 1
    /\ doc' = [doc EXCEPT ![lastDoc + 1] =
                 [url |-> call[h].url, content |-> call[h].content,
                  version |-> IF call[h].doc = Null THEN 1 ELSE doc[call[h].doc].version + 1,
                  supersedes |-> Null, blob |-> Null]]
    /\ Become(h, [call[h] EXCEPT !.pc = "set_downloaded", !.doc = lastDoc + 1])
    /\ UNCHANGED <<link, records, disk>>

\* UNIQUE (discovered_id, sha256): the content may be that of an older version, or have
\* been inserted since. call[h].doc is the version FindLatest saw.
InsertDocument(h) ==
    LET prior == call[h].doc
        clash == \E d \in DocsOf(call[h].url) : doc[d].content = call[h].content
    IN  /\ At(h, "insert_doc")
        /\ \/ clash /\ Reply(h, "500") /\ UNCHANGED documents
           \/ /\ ~clash
              /\ lastDoc + 1 \in DocIds  \* bound; with an id for each URL and content it always holds
              /\ lastDoc' = lastDoc + 1
              /\ doc' = [doc EXCEPT ![lastDoc + 1] =
                           [url |-> call[h].url, content |-> call[h].content,
                            version |-> IF prior = Null THEN 1 ELSE doc[prior].version + 1,
                            supersedes |-> prior, blob |-> Null]]
              /\ Become(h, [call[h] EXCEPT !.pc = "set_downloaded", !.doc = lastDoc + 1])
        /\ UNCHANGED <<link, records, disk>>

\* set_status reads, then writes unless the value is there already; both amount to one write.
SetDownloaded(h) ==
    /\ At(h, "set_downloaded")
    /\ link' = [link EXCEPT ![call[h].url] = "downloaded"]
    /\ Become(h, IF call[h].op = "acquire" THEN Idle
                 ELSE [call[h] EXCEPT !.pc = IF call[h].isNew THEN "extract" ELSE "look_up",
                                      !.isNew = FALSE])
    /\ UNCHANGED <<documents, records, disk>>

-----------------------------------------------------------------------------
(* Parsing: the rest of ingest_document_bytes, and parse_document.         *)

CanRecover(r, ocr) == rec[r].status = "pending" /\ rec[r].needsOcr /\ ocr # "none"

\* The bytes were archived before: the newest record made from them is kept, unless it
\* lacks the text this call brings.
LookUp(h) ==
    LET newest == Newest(RecsOf(call[h].doc))
    IN  /\ At(h, "look_up")
        /\ \/ newest = {} /\ Goto(h, "extract")
           \/ \E r \in newest :
                IF CanRecover(r, call[h].ocr)
                  THEN Become(h, [call[h] EXCEPT !.pc = "extract", !.todo = {r}])
                  ELSE Finish(h, [call[h] EXCEPT !.rec = r])
        /\ UNCHANGED <<link, documents, records, disk>>

\* Whether pages without text remain: text supplied is merged, otherwise OCR is run if installed.
StillWeak(c, ocr) ==
    IF c \notin Scanned THEN {FALSE}
    ELSE IF ocr # "none" THEN {ocr = "poor"}
    ELSE IF Tesseract THEN BOOLEAN ELSE {TRUE}

\* extract_document, the OCR and the categories: rows of an extraction only this handler
\* knows. The file may be gone, and every backend may fail on it: ExtractionError.
Extract(h) ==
    LET c     == call[h].content
        there == c \in disk \/ doc[call[h].doc].blob = c
    IN  /\ At(h, "extract")
        /\ disk' = IF there THEN disk \cup {c} ELSE disk
        /\ \/ Reply(h, "500")
           \/ /\ there
              /\ \E weak \in StillWeak(c, call[h].ocr) :
                   Become(h, [call[h] EXCEPT !.pc = "insert_record", !.needsOcr = weak])
        /\ UNCHANGED <<link, documents, records>>

InsertRecord(h) ==
    /\ At(h, "insert_record")
    /\ lastRec + 1 \in RecIds
    /\ lastRec' = lastRec + 1
    /\ rec' = [rec EXCEPT ![lastRec + 1] = [doc |-> call[h].doc, needsOcr |-> call[h].needsOcr,
                                            fields |-> FALSE, status |-> "pending"]]
    /\ Become(h, [call[h] EXCEPT !.pc = "insert_fields", !.rec = lastRec + 1, !.needsOcr = FALSE])
    /\ UNCHANGED <<link, documents, disk>>

\* A record that is gone makes the rows of its fields violate their foreign key.
InsertFields(h) ==
    /\ At(h, "insert_fields")
    /\ IF rec[call[h].rec] = Null
         THEN UNCHANGED rec /\ Reply(h, "500")
         ELSE rec' = [rec EXCEPT ![call[h].rec].fields = TRUE] /\ Goto(h, "set_parsed")
    /\ UNCHANGED <<link, documents, lastRec, disk>>

SetParsed(h) ==
    /\ At(h, "set_parsed")
    /\ link' = [link EXCEPT ![call[h].url] = "parsed"]
    /\ IF call[h].todo # {} THEN Goto(h, "drop_fields") ELSE Finish(h, call[h])
    /\ UNCHANGED <<documents, records, disk>>

\* The durable copy; store_blob overwrites.
StoreBlob(h) ==
    /\ At(h, "blob")
    /\ doc' = [doc EXCEPT ![call[h].doc].blob = call[h].content]
    /\ Reply(h, "ok")
    /\ UNCHANGED <<link, lastDoc, records, disk>>

ReprocessRead(h) ==
    LET r == call[h].rec
    IN  /\ At(h, "reprocess_read")
        /\ IF rec[r] = Null
             THEN Reply(h, "404")
             ELSE LET d == rec[r].doc
                  IN  Become(h, [call[h] EXCEPT !.pc = "extract", !.doc = d, !.url = doc[d].url,
                                                !.content = doc[d].content])
        /\ UNCHANGED <<link, documents, records, disk>>

-----------------------------------------------------------------------------
(* Removing: delete_record_and_its_extraction, run_cleanup.                *)

\* Mutants of Duplicates: nothing is kept; the oldest is kept.
AllPending(d) == LET pending == {r \in RecsOf(d) : rec[r].status = "pending"}
                 IN  IF Cardinality(pending) > 1 THEN pending ELSE {}
ButOldest(d)  == LET pending == {r \in RecsOf(d) : rec[r].status = "pending"}
                 IN  {r \in pending : \E q \in pending : q < r}

Duplicates(d) == LET pending == {r \in RecsOf(d) : rec[r].status = "pending"}
                 IN  pending \ Newest(pending)

ListDuplicates(h) ==
    LET todo == UNION {Duplicates(d) : d \in {e \in DocIds : doc[e] # Null}}
    IN  /\ At(h, "list")
        /\ IF todo = {} THEN Reply(h, "ok")
                        ELSE Become(h, [call[h] EXCEPT !.pc = "drop_fields", !.todo = todo])
        /\ UNCHANGED <<link, documents, records, disk>>

\* The rows that hang off one record of the list.
DropFields(h) ==
    /\ At(h, "drop_fields")
    /\ \E r \in call[h].todo :
         /\ rec' = IF rec[r] = Null THEN rec ELSE [rec EXCEPT ![r].fields = FALSE]
         /\ Become(h, [call[h] EXCEPT !.pc = "drop_record", !.drop = r])
    /\ UNCHANGED <<link, documents, lastRec, disk>>

\* Fields inserted in between keep the record from being deleted.
DropRecord(h) ==
    LET r    == call[h].drop
        left == call[h].todo \ {r}
    IN  /\ At(h, "drop_record")
        /\ IF rec[r] # Null /\ rec[r].fields
             THEN UNCHANGED rec /\ Reply(h, "500")
             ELSE /\ rec' = [rec EXCEPT ![r] = Null]
                  /\ LET c == [call[h] EXCEPT !.todo = left, !.drop = Null]
                     IN  IF left = {} THEN Finish(h, c)
                                      ELSE Become(h, [c EXCEPT !.pc = "drop_fields"])
        /\ UNCHANGED <<link, documents, lastRec, disk>>

-----------------------------------------------------------------------------
(* Decisions of a reviewer: approve, reject.                               *)

\* The override lets a record through whose core fields are missing.
DecideRead(h, override) ==
    LET r == call[h].rec
    IN  /\ At(h, "decide_read")
        /\ IF rec[r] = Null THEN Reply(h, "404")
           ELSE IF call[h].op = "approve" /\ ~override /\ ~(rec[r].fields /\ ~rec[r].needsOcr)
             THEN Reply(h, "400")
             ELSE Goto(h, "decide_write")
        /\ UNCHANGED <<link, documents, records, disk>>

\* The UPDATE does not look at the status, and changes nothing when the record is gone.
DecideWrite(h) ==
    LET r == call[h].rec
        s == IF call[h].op = "approve" THEN "approved" ELSE "rejected"
    IN  /\ At(h, "decide_write")
        /\ rec' = IF rec[r] = Null THEN rec ELSE [rec EXCEPT ![r].status = s]
        /\ Goto(h, "decide_mark")
        /\ UNCHANGED <<link, documents, lastRec, disk>>

DecideMark(h) ==
    LET r == call[h].rec
        s == IF call[h].op = "approve" THEN "verified" ELSE "rejected"
    IN  /\ At(h, "decide_mark")
        /\ link' = IF rec[r] = Null THEN link ELSE [link EXCEPT ![doc[rec[r].doc].url] = s]
        /\ Reply(h, "ok")
        /\ UNCHANGED <<documents, records, disk>>

-----------------------------------------------------------------------------
\* The process dies; a redeploy also loses the disk.
Crash(kept) ==
    /\ Crashes
    /\ call' = [h \in Handlers |-> Idle]
    /\ disk' = kept
    /\ UNCHANGED <<link, documents, records>>

Arrivals(h) ==
    \/ \E op \in {"sync", "ingest"}, u \in Urls, c \in Contents, o \in OcrTexts :
         ArriveBytes(h, op, u, c, o)
    \/ \E u \in Urls : ArriveAcquire(h, u)
    \/ \E d \in DocIds : ArriveParse(h, d)
    \/ \E r \in RecIds : r <= lastRec /\ ArriveAbout(h, "reprocess", "reprocess_read", r)
    \/ \E r \in RecIds, op \in {"approve", "reject"} :
         r <= lastRec /\ ArriveAbout(h, op, "decide_read", r)
    \/ ArriveCleanup(h)

Statements(h) ==
    \/ FindLink(h) \/ InsertLink(h)
    \/ (\E c \in Contents : Fetched(h, c)) \/ FetchRejected(h) \/ FetchFailed(h)
    \/ Store(h) \/ FindLatest(h) \/ InsertDocument(h) \/ SetDownloaded(h)
    \/ LookUp(h) \/ Extract(h) \/ InsertRecord(h) \/ InsertFields(h) \/ SetParsed(h)
    \/ StoreBlob(h) \/ ReprocessRead(h)
    \/ ListDuplicates(h) \/ DropFields(h) \/ DropRecord(h)
    \/ (\E b \in BOOLEAN : DecideRead(h, b)) \/ DecideWrite(h) \/ DecideMark(h)

Next ==
    \/ \E h \in Handlers : Arrivals(h) \/ Statements(h) \/ Return(h)
    \/ \E u \in Urls : Discover(u)
    \/ \E kept \in {disk, {}} : Crash(kept)

Spec == Init /\ [][Next]_archiveVars

-----------------------------------------------------------------------------
TypeOK ==
    /\ link \in [Urls -> LinkStatuses]
    /\ doc \in [DocIds -> Docs \cup {Null}] /\ lastDoc \in Nat
    /\ rec \in [RecIds -> Recs \cup {Null}] /\ lastRec \in Nat
    /\ disk \subseteq Contents
    /\ call \in [Handlers -> Calls]

\* A record goes only when a newer one of the same document is there: whatever syncs,
\* retries and cleanups run side by side, a document never loses its last record.
NewestKept ==
    [][\A r \in RecIds : rec[r] # Null /\ rec'[r] = Null =>
          \E q \in RecIds : q > r /\ rec'[q] # Null /\ rec'[q].doc = rec[r].doc]_archiveVars

\* A version supersedes an older row of the same URL with other bytes, by one number.
Lineage ==
    \A d \in DocIds : doc[d] # Null =>
        IF doc[d].supersedes = Null THEN doc[d].version = 1
        ELSE LET p == doc[d].supersedes
             IN  /\ p < d /\ doc[p] # Null
                 /\ doc[p].url = doc[d].url /\ doc[p].content # doc[d].content
                 /\ doc[d].version = doc[p].version + 1

\* What the list of links says was archived, was: a status past "new" and not rejected
\* has a document, and "parsed" and "verified" have a record.
LinkIsTrue ==
    \A u \in Urls :
        /\ link[u] \in {"downloaded", "parsed", "verified"} => DocsOf(u) # {}
        /\ link[u] \in {"parsed", "verified"} => \E d \in DocsOf(u) : RecsOf(d) # {}

\* A sync answered 200 has archived these bytes durably, and a record of them is there, the
\* one named in the answer or one that replaced it.
AnswerIsTrue ==
    \A h \in Handlers : call[h].op = "sync" /\ At(h, "replied") /\ call[h].reply = "ok" =>
        LET d == call[h].doc
        IN  /\ doc[d].url = call[h].url
            /\ doc[d].content = call[h].content /\ doc[d].blob = call[h].content
            /\ \E r \in RecsOf(d) : r >= call[h].rec

\* Bytes that differ from the latest version become the latest version (schema.sql): when a
\* sync has been answered, the latest version is what it brought.
ChangeIsNewVersion ==
    \A h \in Handlers : call[h].op = "sync" /\ At(h, "replied") =>
        \A d \in Latest(DocsOf(call[h].url)) : doc[d].content = call[h].content
=============================================================================
