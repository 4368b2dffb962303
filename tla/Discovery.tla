------------------------------ MODULE Discovery ------------------------------
(* From an official source to an archived order: the crawler registers every *)
(* document link it finds (discovery/crawler.py, discovery/adapters), the    *)
(* download engine archives what is new (acquisition.py) and the parser      *)
(* makes records (pipeline.py).  A process is one command, one click on      *)
(* "diagnose" or one nightly run; each statement is its own transaction.     *)
EXTENDS Fetching, Sequences, FiniteSets

CONSTANTS
    Sources,    \* rows of the registry; a set of naturals, crawled in this order
    Pages,      \* listing pages of the portals
    Docs,       \* document addresses
    Handlers,   \* processes
    Root,       \* the address of a source: a function of Sources to Pages
    Adapter,    \* the adapter of a source
    Anchors,    \* the anchors of a page, in order (external: the portals)
    MaxPages,   \* pages a crawl fetches at most
    Limit,      \* documents one download or parse run takes at most
    MaxRuns,    \* bound on crawl_runs
    Crashes     \* whether a process may die between two statements

AnchorRows == [to : Pages \cup Docs, approved : BOOLEAN, row : BOOLEAN, next : BOOLEAN, listing : BOOLEAN]

ASSUME DiscoveryAssumption ==
    /\ Sources \subseteq Nat
    /\ Root \in [Sources -> Pages] /\ Anchors \in [Pages -> Seq(AnchorRows)]
    /\ MaxPages \in Nat /\ Limit \in Nat /\ MaxRuns \in Nat /\ Crashes \in BOOLEAN

VARIABLES
    source,     \* sources: the columns a crawl reads and writes
    run,        \* crawl_runs, by id
    evidence,   \* crawl_evidences: for every run the requests it logged
    disc,       \* discovered_documents, by id
    archived,   \* ids of disc with a row in documents
    recorded,   \* ids of disc whose document has a go_records row of this extractor
    call,       \* per process: the command it is in
    agenda      \* per process: the commands it still makes

discVars == <<source, run, evidence, disc, archived, recorded, call, agenda>>

(***************************************************************************)
(* Adapters: what one page yields.  An anchor leads to a document or to a   *)
(* page; `row` says it stands in a table, `next` that it looks like a link  *)
(* to the next page, `listing` like a department listing.                  *)
(***************************************************************************)
Usable(a) == a.approved

\* The elements of s at the positions I, in order.
Those(s, I) == [n \in 1 .. Cardinality(I) |-> s[CHOOSE i \in I : Cardinality({k \in I : k <= i}) = n]]

Elements(s) == {s[i] : i \in DOMAIN s}
Without(s, S) == Those(s, {i \in DOMAIN s : s[i] \notin S})
To(s) == [i \in DOMAIN s |-> s[i].to]

\* The anchors whose address did not occur before.
FirstOf(s) == Those(s, {i \in DOMAIN s : \A k \in 1 .. i - 1 : s[k].to # s[i].to})

ToDocuments(s) == {i \in DOMAIN s : Usable(s[i]) /\ s[i].to \in Docs}
ToPages(s) == {i \in DOMAIN s : Usable(s[i]) /\ s[i].to \in Pages}

\* GenericLinksAdapter.parse.
GenericDocuments(p) == LET s == FirstOf(Anchors[p]) IN To(Those(s, ToDocuments(s)))
GenericFollow(p) == LET s == FirstOf(Anchors[p]) IN To(Those(s, {i \in ToPages(s) : s[i].next}))

\* TnGoPortalAdapter.parse: the rows of the tables first, then what the generic harvester adds.
InRows(p) == LET s == Anchors[p] IN To(FirstOf(Those(s, {i \in ToDocuments(s) : s[i].row})))
PortalDocuments(p) == InRows(p) \o Without(GenericDocuments(p), Elements(InRows(p)))
Listings(p) == LET s == Anchors[p] IN To(FirstOf(Those(s, {i \in ToPages(s) : s[i].to # p /\ s[i].listing})))
PortalFollow(p) == GenericFollow(p) \o Without(Listings(p), Elements(GenericFollow(p)))

Adapters == {"generic_links", "tn_go_portal"}
\* What a page yields to the adapter of a source.
DocumentsOn == [s \in Sources |-> [p \in Pages |->
    IF Adapter[s] = "generic_links" THEN GenericDocuments(p) ELSE PortalDocuments(p)]]
FollowOn == [s \in Sources |-> [p \in Pages |->
    IF Adapter[s] = "generic_links" THEN GenericFollow(p) ELSE PortalFollow(p)]]

(***************************************************************************)
(* State.                                                                   *)
(***************************************************************************)
Statuses == {"new", "downloaded", "parsed", "verified", "rejected"}
Commands == {"crawl_all", "crawl_due", "crawl_one", "download", "parse"}
SourceRows == [active : BOOLEAN, verify : BOOLEAN, fallback : BOOLEAN, frequency : {"daily", "manual"},
               last : {"never", "recent", "old"}, status : {"none", "ok", "error"}]
\* `cfg` is not a column: the source as the crawl read it.
RunRows == [source : Sources, status : {"running", "ok", "error"}, pages : 0 .. MaxPages,
            links : Nat, fresh : Nat, known : Nat, cfg : SourceRows]
Requested == [page : Pages, kind : {"response", "FetchError"}, verified : BOOLEAN, found : BOOLEAN]
DiscRows == [source : Sources, url : Docs, status : Statuses, first : Nat]

Idle == [pc |-> "idle", todo |-> {}, rows |-> <<>>, run |-> 0, queue |-> <<>>, visited |-> {},
         links |-> <<>>, follow |-> <<>>, pages |-> 0, seen |-> 0, fresh |-> 0, known |-> 0,
         outcome |-> "ok", batch |-> <<>>, status |-> "new"]

TypeOK ==
    /\ source \in [Sources -> SourceRows]
    /\ run \in Seq(RunRows) /\ Len(run) <= MaxRuns /\ DOMAIN evidence = DOMAIN run
    /\ \A r \in DOMAIN evidence : evidence[r] \in Seq(Requested)
    /\ disc \in Seq(DiscRows)
    /\ archived \subseteq DOMAIN disc /\ recorded \subseteq archived
    /\ \A h \in Handlers : call[h].pages \in 0 .. MaxPages

\* Nobody crawls yet; some documents may be known from before.
DiscInit ==
    /\ source \in [Sources -> SourceRows]
    /\ run = <<>> /\ evidence = <<>>
    /\ disc \in Seq(DiscRows) /\ archived = {} /\ recorded = {}
    /\ \A i, j \in DOMAIN disc :
         /\ disc[i].status = "new" /\ disc[i].first = 0
         /\ disc[i].source = disc[j].source /\ disc[i].url = disc[j].url => i = j
    /\ call = [h \in Handlers |-> Idle] /\ agenda \in [Handlers -> Seq(Commands)]

At(h, pc) == call[h].pc = pc
Go(h, c) == call' = [call EXCEPT ![h] = c]
OnFile(s, d) == \E i \in DOMAIN disc : disc[i].source = s /\ disc[i].url = d

(***************************************************************************)
(* Commands.                                                                *)
(***************************************************************************)
Due(s) == source[s].active /\ source[s].frequency # "manual" /\ source[s].last # "recent"
Active == {s \in Sources : source[s].active}

\* The sources crawl_all takes: all that are active, those of them that are due, or one whatever it is.
Chosen(command, S) ==
    \/ command = "crawl_all" /\ S = Active
    \/ command = "crawl_due" /\ S = {s \in Active : Due(s)}
    \/ command = "crawl_one" /\ \E s \in Sources : S = {s}

Begin(h, command) ==
    /\ At(h, "idle") /\ agenda[h] # <<>> /\ Head(agenda[h]) = command
    /\ agenda' = [agenda EXCEPT ![h] = Tail(@)]

BeginCrawl(h) ==
    /\ \E command \in {"crawl_all", "crawl_due", "crawl_one"}, S \in SUBSET Sources :
         /\ Begin(h, command)
         /\ Chosen(command, S)
         /\ Go(h, [Idle EXCEPT !.pc = "source", !.todo = S, !.rows = source])
    /\ UNCHANGED <<source, run, evidence, disc, archived, recorded>>

Pending(S) == {i \in DOMAIN disc : disc[i].status = "new" /\ disc[i].source \in S}
\* Mutant: the parser takes what was discovered, archived or not.
UnparsedDiscovered(S) == {i \in DOMAIN disc \ recorded : disc[i].source \in S}

Unparsed(S) == {i \in archived \ recorded : disc[i].source \in S}

\* The first Limit of the ids, in order.
Firsts(I) == LET taken == {i \in I : Cardinality({k \in I : k <= i}) <= Limit} IN
    Those([i \in I |-> i], taken)

\* pending_downloads and the query of run_parsing, of one source or of all.
BeginBatch(h) ==
    /\ \E S \in {Sources} \cup {{s} : s \in Sources} :
         \/ Begin(h, "download") /\ Go(h, [Idle EXCEPT !.pc = "fetch", !.batch = Firsts(Pending(S))])
         \/ Begin(h, "parse") /\ Go(h, [Idle EXCEPT !.pc = "extract", !.batch = Firsts(Unparsed(S))])
    /\ UNCHANGED <<source, run, evidence, disc, archived, recorded>>

(***************************************************************************)
(* crawl_source.                                                            *)
(***************************************************************************)
NextSource(h) == CHOOSE s \in call[h].todo : \A t \in call[h].todo : s <= t
Row(h) == call[h].rows[run[call[h].run].source]
Here(h) == run[call[h].run].source

StartRun(h) ==
    /\ At(h, "source") /\ call[h].todo # {} /\ Len(run) < MaxRuns
    /\ LET s == NextSource(h) IN
       /\ run' = Append(run, [source |-> s, status |-> "running", pages |-> 0, links |-> 0, fresh |-> 0,
                              known |-> 0, cfg |-> call[h].rows[s]])
       /\ Go(h, IF Adapter[s] \in Adapters
                THEN [Idle EXCEPT !.pc = "page", !.todo = call[h].todo \ {s}, !.rows = call[h].rows,
                                  !.run = Len(run) + 1, !.queue = <<Root[s]>>]
                ELSE [Idle EXCEPT !.pc = "close", !.todo = call[h].todo \ {s}, !.rows = call[h].rows,
                                  !.run = Len(run) + 1, !.outcome = "error"])
    /\ evidence' = Append(evidence, <<>>)
    /\ UNCHANGED <<source, disc, archived, recorded, agenda>>

NoSourceLeft(h) ==
    /\ At(h, "source") /\ call[h].todo = {}
    /\ Go(h, Idle)
    /\ UNCHANGED <<source, run, evidence, disc, archived, recorded, agenda>>

MorePages(h) == call[h].queue # <<>> /\ call[h].pages < MaxPages

SkipVisited(h) ==
    /\ At(h, "page") /\ MorePages(h) /\ Head(call[h].queue) \in call[h].visited
    /\ Go(h, [call[h] EXCEPT !.queue = Tail(@)])
    /\ UNCHANGED <<source, run, evidence, disc, archived, recorded, agenda>>

\* What a crawl can see of a request under the settings of its source; computed once for all conditions.
View(got, verify, fallback) ==
    [verify |-> verify, fallback |-> fallback, kind |-> got.kind, verified |-> got.verified,
     found |-> got.kind = "response" /\ got.code = 200]
SeenUnder(verify, fallback) == {View(Get(n, verify, fallback, TRUE), verify, fallback) : n \in Conditions}
Seen == UNION {UNION {SeenUnder(verify, fallback) : fallback \in BOOLEAN} : verify \in BOOLEAN}

Unvisited(h) == Head(call[h].queue) \notin call[h].visited

\* One request and its evidence.  A page that is not a 200 counts as fetched and yields nothing; one in a
\* charset nobody knows (LookupError) counts as fetched and ends the run; an exception that is neither a
\* FetchError nor a LookupError ends the command, and the run stays as it is.
FetchPage(h) ==
    /\ At(h, "page") /\ MorePages(h) /\ Unvisited(h)
    /\ LET p == Head(call[h].queue)
           c == [call[h] EXCEPT !.queue = Tail(@), !.visited = @ \cup {p}]
       IN \E got \in Seen :
            /\ got.verify = Row(h).verify /\ got.fallback = Row(h).fallback
            /\ evidence' = IF got.kind = "escaped" THEN evidence
                           ELSE [evidence EXCEPT ![c.run] = Append(@,
                                    [page |-> p, kind |-> got.kind, verified |-> got.verified, found |-> got.found])]
            /\ \/ got.kind = "escaped" /\ Go(h, Idle)
               \/ got.kind = "FetchError" /\ Go(h, [c EXCEPT !.pc = "close", !.outcome = "error"])
               \/ got.kind = "response" /\ ~ got.found /\ Go(h, [c EXCEPT !.pages = @ + 1])
               \/ got.found /\ Go(h, [c EXCEPT !.pc = "close", !.pages = @ + 1, !.outcome = "error"])
               \/ got.found /\ Go(h, [c EXCEPT !.pc = "link", !.pages = @ + 1, !.links = DocumentsOn[Here(h)][p],
                                               !.seen = @ + Len(DocumentsOn[Here(h)][p]),
                                               !.follow = FollowOn[Here(h)][p]])
    /\ UNCHANGED <<source, run, disc, archived, recorded, agenda>>

\* _register_link: look the address up, then insert it unless it was on file.
LookUpLink(h) ==
    /\ At(h, "link") /\ call[h].links # <<>>
    /\ Go(h, IF OnFile(Here(h), Head(call[h].links))
             THEN [call[h] EXCEPT !.links = Tail(@), !.known = @ + 1]
             ELSE [call[h] EXCEPT !.pc = "insert"])
    /\ UNCHANGED <<source, run, evidence, disc, archived, recorded, agenda>>

\* Mutant: the address is inserted however often it is on file already.
InsertLinkAgain(h) ==
    /\ At(h, "insert")
    /\ disc' = Append(disc, [source |-> Here(h), url |-> Head(call[h].links), status |-> "new", first |-> call[h].run])
    /\ Go(h, [call[h] EXCEPT !.pc = "link", !.links = Tail(@)])
    /\ UNCHANGED <<source, run, evidence, archived, recorded, agenda>>

\* UNIQUE(source_id, url): if another crawl was faster, the statement raises and the command ends.
InsertLink(h) ==
    /\ At(h, "insert")
    /\ IF OnFile(Here(h), Head(call[h].links))
       THEN /\ Go(h, Idle)
            /\ UNCHANGED disc
       ELSE /\ disc' = Append(disc, [source |-> Here(h), url |-> Head(call[h].links), status |-> "new",
                                     first |-> call[h].run])
            /\ Go(h, [call[h] EXCEPT !.pc = "link", !.links = Tail(@), !.fresh = @ + 1])
    /\ UNCHANGED <<source, run, evidence, archived, recorded, agenda>>

FollowLinks(h) ==
    /\ At(h, "link") /\ call[h].links = <<>>
    /\ Go(h, [call[h] EXCEPT !.pc = "page", !.follow = <<>>,
                  !.queue = @ \o Without(call[h].follow, call[h].visited)])
    /\ UNCHANGED <<source, run, evidence, disc, archived, recorded, agenda>>

\* Mutant: the run is closed as if nothing had failed.
CloseRunOk(h) ==
    /\ At(h, "close") \/ (At(h, "page") /\ ~ MorePages(h))
    /\ run' = [run EXCEPT ![call[h].run] =
                 [@ EXCEPT !.status = "ok", !.pages = call[h].pages, !.links = call[h].seen,
                           !.fresh = call[h].fresh, !.known = call[h].known]]
    /\ Go(h, [call[h] EXCEPT !.pc = "mark"])
    /\ UNCHANGED <<source, evidence, disc, archived, recorded, agenda>>

CloseRun(h) ==
    /\ At(h, "close") \/ (At(h, "page") /\ ~ MorePages(h))
    /\ run' = [run EXCEPT ![call[h].run] =
                 [@ EXCEPT !.status = call[h].outcome, !.pages = call[h].pages, !.links = call[h].seen,
                           !.fresh = call[h].fresh, !.known = call[h].known]]
    /\ Go(h, [call[h] EXCEPT !.pc = "mark"])
    /\ UNCHANGED <<source, evidence, disc, archived, recorded, agenda>>

\* registry.mark_crawled.
MarkCrawled(h) ==
    /\ At(h, "mark")
    /\ source' = [source EXCEPT ![Here(h)] = [@ EXCEPT !.last = "recent", !.status = call[h].outcome]]
    /\ Go(h, [Idle EXCEPT !.pc = "source", !.todo = call[h].todo, !.rows = call[h].rows])
    /\ UNCHANGED <<run, evidence, disc, archived, recorded, agenda>>

(***************************************************************************)
(* acquire_pending, run_parsing and set_status.                             *)
(***************************************************************************)
Advance(h) == [call[h] EXCEPT !.batch = Tail(@)]
Subject(h) == Head(call[h].batch)
ToStatus(h, status) == Go(h, [call[h] EXCEPT !.pc = "status", !.status = status])

\* What a download sees: like a crawl, with the default of verified certificates.
Fetched == {[kind |-> g.kind, found |-> g.kind = "response" /\ g.code = 200] :
              g \in {Get(n, TRUE, FALSE, TRUE) : n \in Conditions}}

\* Mutant: the document is called downloaded before its bytes are kept.
AcquireLater(h) ==
    /\ At(h, "fetch") /\ call[h].batch # <<>>
    /\ \/ disc[Subject(h)].status = "new" /\ disc' = [disc EXCEPT ![Subject(h)].status = "downloaded"]
          /\ UNCHANGED <<archived, call>>
       \/ disc[Subject(h)].status = "downloaded" /\ archived' = archived \cup {Subject(h)}
          /\ Go(h, Advance(h)) /\ UNCHANGED disc
    /\ UNCHANGED <<source, run, evidence, recorded, agenda>>

\* acquire_one up to the archive.  A policy or network error and bytes that are no PDF reject the document;
\* another code leaves it new; a damaged archive or an unclassified error ends the whole batch.
Acquire(h) ==
    /\ At(h, "fetch") /\ call[h].batch # <<>>
    /\ \E got \in Fetched, bytes \in {"pdf", "other", "damaged"} :
         \/ /\ got.kind = "FetchError" \/ (got.found /\ bytes = "other")
            /\ ToStatus(h, "rejected")
            /\ UNCHANGED archived
         \/ /\ got.kind = "response" /\ ~ got.found
            /\ Go(h, Advance(h))
            /\ UNCHANGED archived
         \/ /\ got.found /\ bytes = "pdf"
            /\ archived' = archived \cup {Subject(h)}
            /\ ToStatus(h, "downloaded")
         \/ /\ got.kind = "escaped" \/ (got.found /\ bytes = "damaged")
            /\ Go(h, Idle)
            /\ UNCHANGED archived
    /\ UNCHANGED <<source, run, evidence, disc, recorded, agenda>>

\* parse_document up to its record; a document that cannot be parsed is noted and the batch goes on.
Parse(h) ==
    /\ At(h, "extract") /\ call[h].batch # <<>>
    /\ \/ /\ recorded' = recorded \cup {Subject(h)}
          /\ ToStatus(h, "parsed")
       \/ /\ Go(h, Advance(h))
          /\ UNCHANGED recorded
    /\ UNCHANGED <<source, run, evidence, disc, archived, agenda>>

Back(h) == IF call[h].status = "parsed" THEN "extract" ELSE "fetch"

\* set_status reads the row, and writes it when the status differs from what it read.
ReadStatus(h) ==
    /\ At(h, "status")
    /\ Go(h, IF disc[Subject(h)].status = call[h].status
             THEN [Advance(h) EXCEPT !.pc = Back(h)]
             ELSE [call[h] EXCEPT !.pc = "write"])
    /\ UNCHANGED <<source, run, evidence, disc, archived, recorded, agenda>>

\* Mutant: the batch does not move on.
WriteStatusStays(h) ==
    /\ At(h, "write")
    /\ disc' = [disc EXCEPT ![Subject(h)].status = call[h].status]
    /\ Go(h, [call[h] EXCEPT !.pc = Back(h)])
    /\ UNCHANGED <<source, run, evidence, archived, recorded, agenda>>

WriteStatus(h) ==
    /\ At(h, "write")
    /\ disc' = [disc EXCEPT ![Subject(h)].status = call[h].status]
    /\ Go(h, [Advance(h) EXCEPT !.pc = Back(h)])
    /\ UNCHANGED <<source, run, evidence, archived, recorded, agenda>>

BatchDone(h) ==
    /\ call[h].pc \in {"fetch", "extract"} /\ call[h].batch = <<>>
    /\ Go(h, Idle)
    /\ UNCHANGED <<source, run, evidence, disc, archived, recorded, agenda>>

(***************************************************************************)
(* The registry, time and crashes.                                          *)
(***************************************************************************)
SetActive(s) ==
    /\ \E active \in BOOLEAN \ {source[s].active} : source' = [source EXCEPT ![s].active = active]
    /\ UNCHANGED <<run, evidence, disc, archived, recorded, call, agenda>>

SetSslConfig(s) ==
    /\ \E verify, fallback \in BOOLEAN :
         source' = [source EXCEPT ![s] = [@ EXCEPT !.verify = verify, !.fallback = fallback]]
    /\ UNCHANGED <<run, evidence, disc, archived, recorded, call, agenda>>

\* The crawl interval of a source elapses.
Elapse(s) ==
    /\ source[s].last = "recent"
    /\ source' = [source EXCEPT ![s].last = "old"]
    /\ UNCHANGED <<run, evidence, disc, archived, recorded, call, agenda>>

Crash(h) ==
    /\ Crashes /\ ~ At(h, "idle")
    /\ Go(h, Idle)
    /\ UNCHANGED <<source, run, evidence, disc, archived, recorded, agenda>>

Work(h) ==
    \/ StartRun(h) \/ NoSourceLeft(h) \/ SkipVisited(h) \/ FetchPage(h) \/ LookUpLink(h) \/ InsertLink(h)
    \/ FollowLinks(h) \/ CloseRun(h) \/ MarkCrawled(h)
    \/ Acquire(h) \/ Parse(h) \/ ReadStatus(h) \/ WriteStatus(h) \/ BatchDone(h)

DiscNext ==
    \/ \E h \in Handlers : BeginCrawl(h) \/ BeginBatch(h) \/ Work(h) \/ Crash(h)
    \/ \E s \in Sources : SetActive(s) \/ SetSslConfig(s) \/ Elapse(s)

DiscSpec == DiscInit /\ [][DiscNext]_discVars

DiscFairness == \A h \in Handlers : WF_discVars(Work(h))

(***************************************************************************)
(* Properties.                                                              *)
(***************************************************************************)
Finished(r) == run[r].status # "running"
PagesSeen(r) == {i \in DOMAIN evidence[r] : evidence[r][i].found}

\* A document is discovered once: no two rows of one source and address, and every row is in the count of
\* new documents of exactly the run that inserted it.
DiscoveredOnce ==
    /\ \A i, j \in DOMAIN disc : disc[i].source = disc[j].source /\ disc[i].url = disc[j].url => i = j
    /\ \A r \in DOMAIN run : Finished(r) => run[r].fresh = Cardinality({i \in DOMAIN disc : disc[i].first = r})

\* What a finished run says of itself agrees with the requests it logged: it counted every response, a
\* request that failed is the last one and made the run an error, every link was new or known, and every
\* approved document link of every page that a crawl which ended ok could read is on file for its source.
RunMatchesEvidence ==
    \A r \in DOMAIN run : Finished(r) =>
        /\ run[r].pages = Cardinality({i \in DOMAIN evidence[r] : evidence[r][i].kind = "response"})
        /\ \A i \in DOMAIN evidence[r] : evidence[r][i].kind = "FetchError" => i = Len(evidence[r])
        /\ (\E i \in DOMAIN evidence[r] : evidence[r][i].kind = "FetchError") => run[r].status = "error"
        /\ run[r].status = "ok" =>
             /\ run[r].fresh + run[r].known = run[r].links
             /\ \A i \in PagesSeen(r) : \A d \in Elements(DocumentsOn[run[r].source][evidence[r][i].page]) :
                    OnFile(run[r].source, d)

\* A page was read without verifying the certificate only if the source, as the crawl read it, allowed it.
BypassAllowed ==
    \A r \in DOMAIN run : \A i \in DOMAIN evidence[r] :
        evidence[r][i].kind = "response" /\ ~ evidence[r][i].verified => run[r].cfg.fallback \/ ~ run[r].cfg.verify

\* A status is never ahead of what exists: downloaded documents are archived, parsed ones have a record,
\* with two downloads, a parser and crashes in any order.
StatusEarned ==
    \A i \in DOMAIN disc :
        /\ disc[i].status \in {"downloaded", "parsed"} => i \in archived
        /\ disc[i].status = "parsed" => i \in recorded

\* Every command ends: cyclic listings, visited pages and documents that cannot be had stop no crawl and
\* no batch.
CommandsEnd == \A h \in Handlers : ~ At(h, "idle") ~> At(h, "idle")

=============================================================================
