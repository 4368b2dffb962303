---------------------------- MODULE Publication ----------------------------
(***************************************************************************)
(* From a registered source to a published district: the versioned         *)
(* registry of sources (registry.py, operations/sources.py), their         *)
(* certification (certification/sources.py), the states, districts and     *)
(* departments (operations/geography.py, departments.py) and the gates in  *)
(* front of publication (operations/publication.py).                       *)
(*                                                                         *)
(* An action is one SQL statement of a handler, or a read with the reads   *)
(* before it that only return columns nobody changes. What certification   *)
(* crawls and downloads is in Discovery and DocumentArchive; here it is the*)
(* outcome of the five checks. What ingest and review do to the documents  *)
(* and records of a department is in DocumentArchive and RecordReview;     *)
(* here it is whether there are any (`filed', `approved').                 *)
(***************************************************************************)
EXTENDS Naturals, FiniteSets, FiniteSetsExt

CONSTANTS
    Sources,     \* primary keys the table sources may hand out
    States,
    Districts,
    Buckets,     \* the buckets of categorize.py in use
    Departments,
    StateOf,     \* district -> the state it is added under
    BucketOf,    \* department -> the bucket it is added with, or Null
    Scopes,      \* the [state, district] an administrator may register a source for
    Outcomes,    \* the outcomes of the five checks that happen
    Texts,       \* what the editable columns of a source may say, on an approved host
    Handlers,    \* threads of the server, and the command line
    MaxVersion,  \* bound on the versions of a source
    Routes,      \* the operations in use
    Crashes,     \* whether the server may stop
    Null

Results == {"CERTIFIED", "PARTIALLY_CERTIFIED", "FAILED"}
Certs   == Results \cup {"PENDING"}

STATE_STATUSES     == <<"NEW", "CONFIGURED", "ACTIVE", "RETIRED">>
DISTRICT_STATUSES  == <<"NEW", "CONFIGURED", "CERTIFYING", "CERTIFIED", "PUBLISHED">>
LIFECYCLE_STATUSES == <<"NEW", "TESTED", "CERTIFIED", "ACTIVE", "RETIRED">>

Members(order) == {order[i] : i \in DOMAIN order}

\* a comes before b in the order.
Before(order, a, b) == \E i, j \in DOMAIN order : i < j /\ order[i] = a /\ order[j] = b

AnyScope == [state : States \cup {Null}, district : Districts \cup {Null}]
NoScope  == [state |-> Null, district |-> Null]

Ops == {"register", "create", "edit", "clone", "retire", "disable", "test", "certify", "certify_cli",
        "refresh", "add_state", "state_status", "state_active", "add_district", "district_status",
        "publish", "unpublish", "add_department", "department_active",
        "publish_department", "unpublish_department", "file", "approve"}

\* A check that depends on another one fails with it.
Checks == {k \in [connectivity : BOOLEAN, authenticity : BOOLEAN, discovery : BOOLEAN,
                  download : BOOLEAN, stability : BOOLEAN] :
              /\ k.discovery => k.connectivity
              /\ k.download => k.discovery
              /\ k.stability => k.connectivity}

ASSUME SourcesAssumption == Sources \subseteq Nat \ {0}
ASSUME GeographyAssumption ==
    /\ StateOf \in [Districts -> States]
    /\ BucketOf \in [Departments -> Buckets \cup {Null}]
    /\ Scopes \subseteq AnyScope
ASSUME RegistryAssumption == Outcomes \subseteq Checks /\ MaxVersion \in Nat /\ Crashes \in BOOLEAN /\ Routes \subseteq Ops

VARIABLES
    src,       \* sources: id -> its row, or Null
    lastSrc,
    versions,  \* the rows of source_versions
    certs,     \* the rows of source_certifications: their source and result
    state,     \* states: -> its row, or Null
    dist,      \* districts
    dept,      \* departments
    filed,     \* whether documents of a source are filed under a bucket: now, before or never
    approved,  \* whether records of a bucket are approved
    call       \* thread -> the call it is executing

vars == <<src, lastSrc, versions, certs, state, dist, dept, filed, approved, call>>

registry  == <<src, lastSrc, versions, certs>>
geography == <<state, dist, dept>>
evidence  == <<filed, approved>>

Rows == [scope : AnyScope, text : Texts, active : BOOLEAN, lifecycle : Members(LIFECYCLE_STATUSES),
         cert : Certs, version : Nat]

VersionRows == [src : Sources, version : Nat, text : Texts, active : BOOLEAN]

StateRows      == [status : Members(STATE_STATUSES), active : BOOLEAN]
DistrictRows   == [status : Members(DISTRICT_STATUSES), cert : Certs, published : BOOLEAN]
DepartmentRows == [active : BOOLEAN, published : BOOLEAN]

Times == {"never", "now", "before"}

ASSUME NullAssumption ==
    /\ Null \notin Rows \cup StateRows \cup DistrictRows \cup DepartmentRows
    /\ Null \notin Sources \cup States \cup Districts \cup Departments \cup Buckets \cup Texts

\* What a handler has read and still uses: text and version of a source, the status it saw,
\* the result or status it is going to write, the sources and districts it has still to visit.
Calls == [op : Ops,
          pc : {"idle", "set_scope", "version_read", "version_insert", "edit_read", "edit_write",
                "clone_read", "insert_source", "test_read", "test_write", "certify_read", "certify_insert", "certify_write",
                "lifecycle_read", "lifecycle_write", "affected_read", "refresh_read", "refresh_before",
                "refresh_write", "advance_read", "status_read", "status_write",
                "state_read", "state_write", "publish_read", "publish_count", "publish_write",
                "covered_read", "approved_read", "department_write"},
          src : Sources \cup {Null}, scope : AnyScope, text : Texts \cup {Null}, version : Nat,
          on : BOOLEAN, state : States \cup {Null}, dist : Districts \cup {Null},
          dept : Departments \cup {Null},
          want : Certs \cup Members(STATE_STATUSES) \cup Members(DISTRICT_STATUSES) \cup {Null},
          seen : Certs \cup {Null}, srcs : SUBSET Sources, dists : SUBSET Districts]

Idle == [op |-> "edit", pc |-> "idle", src |-> Null, scope |-> NoScope, text |-> Null, version |-> 0,
         on |-> FALSE, state |-> Null, dist |-> Null, dept |-> Null, want |-> Null, seen |-> Null,
         srcs |-> {}, dists |-> {}]

Init ==
    /\ src = [s \in Sources |-> Null] /\ lastSrc = 0
    /\ versions = {} /\ certs = {}
    /\ state = [t \in States |-> Null]
    /\ dist = [d \in Districts |-> Null]
    /\ dept = [p \in Departments |-> Null]
    /\ filed = [x \in Sources \X Buckets |-> "never"]
    /\ approved = [b \in Buckets |-> "never"]
    /\ call = [h \in Handlers |-> Idle]

Registered   == {s \in Sources : src[s] # Null}
Become(h, c) == call' = [call EXCEPT ![h] = c]
Goto(h, pc)  == Become(h, [call[h] EXCEPT !.pc = pc])
Done(h)      == Become(h, Idle)
At(h, pc)    == call[h].pc = pc

SetSource(s, row) == src' = [src EXCEPT ![s] = row]

-----------------------------------------------------------------------------
(* A call arrives on a free thread.                                        *)

Arrive(h, op, c) ==
    /\ At(h, "idle")
    /\ Become(h, [c EXCEPT !.op = op])
    /\ UNCHANGED <<registry, geography, evidence>>

\* Bound: a call that registers a source arrives while ids are left for all that are on their way.
Inserting == {h \in Handlers : call[h].pc \in {"insert_source", "clone_read"}}
SourceRoom == lastSrc + 1 + Cardinality(Inserting) \in Sources

ArriveAdd(h, text, scope) ==
    /\ SourceRoom
    /\ \/ Arrive(h, "register", [Idle EXCEPT !.pc = "insert_source", !.text = text])
       \/ Arrive(h, "create", [Idle EXCEPT !.pc = "insert_source", !.text = text, !.scope = scope])

ArriveClone(h, s) == SourceRoom /\ Arrive(h, "clone", [Idle EXCEPT !.pc = "clone_read", !.src = s])

ArriveEdit(h, s, text) ==
    /\ src[s].version < MaxVersion
    /\ Arrive(h, "edit", [Idle EXCEPT !.pc = "edit_read", !.src = s, !.text = text])

ArriveTest(h, s) == Arrive(h, "test", [Idle EXCEPT !.pc = "test_read", !.src = s])

\* The page certifies one source, the command line one or every active source.
ArriveCertify(h, s) ==
    \/ Arrive(h, "certify", [Idle EXCEPT !.pc = "certify_read", !.srcs = {s}, !.src = s])
    \/ \E ss \in {{s}, {t \in Registered : src[t].active}} \ {{}} :
          Arrive(h, "certify_cli", [Idle EXCEPT !.pc = "certify_read", !.srcs = ss, !.src = Min(ss)])

ArriveRefresh(h, d) == Arrive(h, "refresh", [Idle EXCEPT !.pc = "refresh_read", !.dists = {d}, !.dist = d])

ArriveDistrictStatus(h, d, status) ==
    Arrive(h, "district_status", [Idle EXCEPT !.pc = "status_read", !.dist = d, !.dists = {d}, !.want = status])

ArriveStateStatus(h, t, status) ==
    Arrive(h, "state_status", [Idle EXCEPT !.pc = "state_read", !.state = t, !.want = status])

ArrivePublish(h, d) == Arrive(h, "publish", [Idle EXCEPT !.pc = "publish_read", !.dist = d])

ArrivePublishDepartment(h, p) ==
    /\ BucketOf[p] # Null
    /\ Arrive(h, "publish_department", [Idle EXCEPT !.pc = "covered_read", !.dept = p])

-----------------------------------------------------------------------------
(* The registry of sources.                                                *)

\* add_source. The name is UNIQUE: a duplicate fails and leaves nothing.
InsertSource(h) ==
    LET s == lastSrc + 1
    IN  /\ At(h, "insert_source")
        /\ \/ /\ s \in Sources
              /\ SetSource(s, [scope |-> NoScope, text |-> call[h].text, active |-> TRUE,
                               lifecycle |-> "NEW", cert |-> "PENDING", version |-> 1])
              /\ lastSrc' = s
              /\ IF call[h].op = "register"
                 THEN Done(h)
                 ELSE Become(h, [call[h] EXCEPT !.pc = "set_scope", !.src = s])
           \/ Done(h) /\ UNCHANGED <<src, lastSrc>>
        /\ UNCHANGED <<versions, certs, geography, evidence>>

SetScope(h) ==
    /\ At(h, "set_scope")
    /\ SetSource(call[h].src, [src[call[h].src] EXCEPT !.scope = call[h].scope])
    /\ Goto(h, "version_read")
    /\ UNCHANGED <<lastSrc, versions, certs, geography, evidence>>

\* _write_version: what the row says now goes into the history under the number it has now.
VersionRead(h) ==
    LET row == src[call[h].src]
    IN  /\ At(h, "version_read")
        /\ Become(h, [call[h] EXCEPT !.pc = "version_insert", !.text = row.text,
                                     !.version = row.version, !.on = row.active])
        /\ UNCHANGED <<registry, geography, evidence>>

\* UNIQUE (source_id, version): the statement fails when the number is taken, and the call with it.
VersionInsert(h) ==
    LET c == call[h]
    IN  /\ At(h, "version_insert")
        /\ versions' = IF \E v \in versions : v.src = c.src /\ v.version = c.version
                       THEN versions
                       ELSE versions \cup {[src |-> c.src, version |-> c.version, text |-> c.text, active |-> c.on]}
        /\ Done(h)
        /\ UNCHANGED <<src, lastSrc, certs, geography, evidence>>

EditRead(h) ==
    /\ At(h, "edit_read")
    /\ Become(h, [call[h] EXCEPT !.pc = "edit_write", !.version = src[call[h].src].version + 1])
    /\ UNCHANGED <<registry, geography, evidence>>

\* Mutant of EditWrite: an edit leaves no version.
EditWriteOnly(h) ==
    LET c == call[h]
    IN  /\ At(h, "edit_write")
        /\ SetSource(c.src, [src[c.src] EXCEPT !.text = c.text, !.version = c.version])
        /\ Done(h)
        /\ UNCHANGED <<lastSrc, versions, certs, geography, evidence>>

EditWrite(h) ==
    LET c == call[h]
    IN  /\ At(h, "edit_write")
        /\ SetSource(c.src, [src[c.src] EXCEPT !.text = c.text, !.version = c.version])
        /\ Goto(h, "version_read")
        /\ UNCHANGED <<lastSrc, versions, certs, geography, evidence>>

\* clone_source: the clone is created as create_source does, with what was read here.
CloneRead(h) ==
    LET row == src[call[h].src]
    IN  /\ At(h, "clone_read")
        /\ Become(h, [call[h] EXCEPT !.pc = "insert_source", !.text = row.text, !.scope = row.scope])
        /\ UNCHANGED <<registry, geography, evidence>>

Retire(h, s) ==
    /\ At(h, "idle")
    /\ SetSource(s, [src[s] EXCEPT !.lifecycle = "RETIRED", !.active = FALSE])
    /\ UNCHANGED <<lastSrc, versions, certs, geography, evidence, call>>

\* Only the command line deactivates, and nothing activates again.
Disable(h, s) ==
    /\ At(h, "idle")
    /\ SetSource(s, [src[s] EXCEPT !.active = FALSE])
    /\ UNCHANGED <<lastSrc, versions, certs, geography, evidence, call>>

\* quick_test_source: the lifecycle is read, then the page is fetched, then the lifecycle written.
TestRead(h) ==
    /\ At(h, "test_read")
    /\ \E ok \in BOOLEAN :
          IF ok /\ Before(LIFECYCLE_STATUSES, src[call[h].src].lifecycle, "TESTED")
          THEN Goto(h, "test_write")
          ELSE Done(h)
    /\ UNCHANGED <<registry, geography, evidence>>

TestWrite(h) ==
    /\ At(h, "test_write")
    /\ SetSource(call[h].src, [src[call[h].src] EXCEPT !.lifecycle = "TESTED"])
    /\ Done(h)
    /\ UNCHANGED <<lastSrc, versions, certs, geography, evidence>>

-----------------------------------------------------------------------------
(* Certification of a source, and what it refreshes.                       *)

\* Mutant of Verdict: a source on which nothing was found is left for later.
VerdictLater(k) ==
    IF ~k.connectivity \/ ~k.authenticity THEN "FAILED"
    ELSE IF ~k.discovery THEN "PENDING"
    ELSE IF k.download /\ k.stability THEN "CERTIFIED"
    ELSE "PARTIALLY_CERTIFIED"

Verdict(k) ==
    IF ~k.connectivity \/ ~k.authenticity \/ ~k.discovery THEN "FAILED"
    ELSE IF k.download /\ k.stability THEN "CERTIFIED"
    ELSE "PARTIALLY_CERTIFIED"

CertifyRead(h) ==
    /\ At(h, "certify_read")
    /\ \E k \in Outcomes :
          Become(h, [call[h] EXCEPT !.pc = "certify_insert", !.want = Verdict(k)])
    /\ UNCHANGED <<registry, geography, evidence>>

CertifyInsert(h) ==
    LET c == call[h]
    IN  /\ At(h, "certify_insert")
        /\ certs' = certs \cup {[src |-> c.src, result |-> c.want]}
        /\ Goto(h, "certify_write")
        /\ UNCHANGED <<src, lastSrc, versions, geography, evidence>>

\* The page goes on with the lifecycle; the command line with the next source, without it.
CertifyWrite(h) ==
    LET c == call[h]
        rest == {s \in c.srcs : s > c.src}
    IN  /\ At(h, "certify_write")
        /\ SetSource(c.src, [src[c.src] EXCEPT !.cert = c.want])
        /\ \/ /\ c.op = "certify"
              /\ Goto(h, IF c.want = "CERTIFIED" THEN "lifecycle_read" ELSE "affected_read")
           \/ c.op = "certify_cli" /\ rest = {} /\ Goto(h, "affected_read")
           \/ /\ c.op = "certify_cli" /\ rest # {}
              /\ Become(h, [c EXCEPT !.pc = "certify_read", !.src = Min(rest), !.want = Null])
        /\ UNCHANGED <<lastSrc, versions, certs, geography, evidence>>

LifecycleRead(h) ==
    /\ At(h, "lifecycle_read")
    /\ Goto(h, IF Before(LIFECYCLE_STATUSES, src[call[h].src].lifecycle, "CERTIFIED")
               THEN "lifecycle_write" ELSE "affected_read")
    /\ UNCHANGED <<registry, geography, evidence>>

LifecycleWrite(h) ==
    /\ At(h, "lifecycle_write")
    /\ SetSource(call[h].src, [src[call[h].src] EXCEPT !.lifecycle = "CERTIFIED"])
    /\ Goto(h, "affected_read")
    /\ UNCHANGED <<lastSrc, versions, certs, geography, evidence>>

\* Mutant of Affected: a source of a whole state is forgotten.
AffectedOwn(s) == {d \in Districts : dist[d] # Null /\ src[s].scope.district = d}

\* districts_affected_by_source
Affected(s) ==
    {d \in Districts : /\ dist[d] # Null
                       /\ \/ src[s].scope.district = d
                          \/ src[s].scope.district = Null /\ src[s].scope.state = StateOf[d]}

\* The next district to refresh, or the end of the call.
Visit(h, ds) ==
    \/ ds = {} /\ Done(h)
    \/ \E d \in ds : Become(h, [call[h] EXCEPT !.pc = "refresh_read", !.dists = ds, !.dist = d,
                                               !.want = Null, !.seen = Null])

AffectedRead(h) ==
    /\ At(h, "affected_read")
    /\ Visit(h, UNION {Affected(s) : s \in call[h].srcs})
    /\ UNCHANGED <<registry, geography, evidence>>

-----------------------------------------------------------------------------
(* Districts.                                                              *)

\* applicable_sources
Applicable(d) ==
    {s \in Registered : /\ src[s].active
                        /\ \/ src[s].scope.district = d
                           \/ src[s].scope.district = Null /\ src[s].scope.state = StateOf[d]}

\* What refresh_district_certification makes of the results of its sources.
Computed(d) ==
    LET results == {src[s].cert : s \in Applicable(d)}
    IN  IF results = {"CERTIFIED"} THEN "CERTIFIED"
        ELSE IF results \cap {"CERTIFIED", "PARTIALLY_CERTIFIED"} # {} THEN "PARTIALLY_CERTIFIED"
        ELSE IF results = {"FAILED"} THEN "FAILED"
        ELSE "PENDING"

SetDistrict(d, row) == dist' = [dist EXCEPT ![d] = row]

RefreshRead(h) ==
    /\ At(h, "refresh_read")
    /\ Become(h, [call[h] EXCEPT !.pc = "refresh_before", !.want = Computed(call[h].dist)])
    /\ UNCHANGED <<registry, geography, evidence>>

RefreshBefore(h) ==
    /\ At(h, "refresh_before")
    /\ Become(h, [call[h] EXCEPT !.pc = "refresh_write", !.seen = dist[call[h].dist].cert])
    /\ UNCHANGED <<registry, geography, evidence>>

RefreshWrite(h) ==
    LET c == call[h]
    IN  /\ At(h, "refresh_write")
        /\ SetDistrict(c.dist, [dist[c.dist] EXCEPT !.cert = c.want])
        /\ IF c.want = "CERTIFIED" /\ c.seen # "CERTIFIED"
           THEN Goto(h, "advance_read")
           ELSE Visit(h, c.dists \ {c.dist})
        /\ UNCHANGED <<registry, state, dept, evidence>>

\* A district that has just become certified moves on, unless it is there already.
AdvanceRead(h) ==
    LET c == call[h]
    IN  /\ At(h, "advance_read")
        /\ IF Before(DISTRICT_STATUSES, dist[c.dist].status, "CERTIFIED")
           THEN Goto(h, "status_read")
           ELSE Visit(h, c.dists \ {c.dist})
        /\ UNCHANGED <<registry, geography, evidence>>

\* set_district_status. Going back is an error, which also ends a refresh of several districts.
StatusRead(h) ==
    LET c == call[h]
    IN  /\ At(h, "status_read")
        /\ IF Before(DISTRICT_STATUSES, c.want, dist[c.dist].status) THEN Done(h) ELSE Goto(h, "status_write")
        /\ UNCHANGED <<registry, geography, evidence>>

StatusWrite(h) ==
    LET c == call[h]
    IN  /\ At(h, "status_write")
        /\ SetDistrict(c.dist, [dist[c.dist] EXCEPT !.status = c.want])
        /\ Visit(h, c.dists \ {c.dist})
        /\ UNCHANGED <<registry, state, dept, evidence>>

\* A code that is taken fails and leaves nothing.
AddDistrict(h, d) ==
    /\ At(h, "idle")
    /\ dist[d] = Null /\ state[StateOf[d]] # Null
    /\ SetDistrict(d, [status |-> "NEW", cert |-> "PENDING", published |-> FALSE])
    /\ UNCHANGED <<registry, state, dept, evidence, call>>

-----------------------------------------------------------------------------
(* States.                                                                 *)

AddState(h, t) ==
    /\ At(h, "idle")
    /\ state[t] = Null
    /\ state' = [state EXCEPT ![t] = [status |-> "NEW", active |-> TRUE]]
    /\ UNCHANGED <<registry, dist, dept, evidence, call>>

\* Forward only, except that a state may be retired from anywhere.
StateRead(h) ==
    LET c == call[h]
    IN  /\ At(h, "state_read")
        /\ IF c.want # "RETIRED" /\ Before(STATE_STATUSES, c.want, state[c.state].status)
           THEN Done(h) ELSE Goto(h, "state_write")
        /\ UNCHANGED <<registry, geography, evidence>>

StateWrite(h) ==
    LET c == call[h]
    IN  /\ At(h, "state_write")
        /\ state' = [state EXCEPT ![c.state].status = c.want]
        /\ Done(h)
        /\ UNCHANGED <<registry, dist, dept, evidence>>

SetStateActive(h, t, on) ==
    /\ At(h, "idle")
    /\ state' = [state EXCEPT ![t].active = on]
    /\ UNCHANGED <<registry, dist, dept, evidence, call>>

-----------------------------------------------------------------------------
(* Departments.                                                            *)

\* add_department returns the department of that name when there is one.
AddDepartment(h, p) ==
    /\ At(h, "idle")
    /\ dept[p] = Null
    /\ dept' = [dept EXCEPT ![p] = [active |-> TRUE, published |-> FALSE]]
    /\ UNCHANGED <<registry, state, dist, evidence, call>>

SetDepartmentActive(h, p, on) ==
    /\ At(h, "idle")
    /\ dept' = [dept EXCEPT ![p].active = on]
    /\ UNCHANGED <<registry, state, dist, evidence, call>>

-----------------------------------------------------------------------------
(* Publication.                                                            *)

\* Mutant of PublishRead: it is enough that certification did not fail.
PublishReadPartial(h) ==
    /\ At(h, "publish_read")
    /\ IF dist[call[h].dist].cert \in {"CERTIFIED", "PARTIALLY_CERTIFIED"}
       THEN Goto(h, "publish_count") ELSE Done(h)
    /\ UNCHANGED <<registry, geography, evidence>>

PublishRead(h) ==
    /\ At(h, "publish_read")
    /\ IF dist[call[h].dist].cert = "CERTIFIED" THEN Goto(h, "publish_count") ELSE Done(h)
    /\ UNCHANGED <<registry, geography, evidence>>

PublishCount(h) ==
    /\ At(h, "publish_count")
    /\ IF \E b \in Buckets : approved[b] = "now" THEN Goto(h, "publish_write") ELSE Done(h)
    /\ UNCHANGED <<registry, geography, evidence>>

PublishWrite(h) ==
    LET d == call[h].dist
    IN  /\ At(h, "publish_write")
        /\ SetDistrict(d, [dist[d] EXCEPT !.published = TRUE, !.status = "PUBLISHED"])
        /\ Done(h)
        /\ UNCHANGED <<registry, state, dept, evidence>>

\* Whatever the status of the district was, it is CERTIFIED afterwards.
Unpublish(h, d) ==
    /\ At(h, "idle")
    /\ SetDistrict(d, [dist[d] EXCEPT !.published = FALSE, !.status = "CERTIFIED"])
    /\ UNCHANGED <<registry, state, dept, evidence, call>>

\* _department_is_certified: a certified source has a document in the bucket.
Covered(b) == \E s \in Registered : src[s].cert = "CERTIFIED" /\ filed[<<s, b>>] = "now"

CoveredRead(h) ==
    /\ At(h, "covered_read")
    /\ IF Covered(BucketOf[call[h].dept]) THEN Goto(h, "approved_read") ELSE Done(h)
    /\ UNCHANGED <<registry, geography, evidence>>

ApprovedRead(h) ==
    /\ At(h, "approved_read")
    /\ IF approved[BucketOf[call[h].dept]] = "now" THEN Goto(h, "department_write") ELSE Done(h)
    /\ UNCHANGED <<registry, geography, evidence>>

DepartmentWrite(h) ==
    /\ At(h, "department_write")
    /\ dept' = [dept EXCEPT ![call[h].dept].published = TRUE]
    /\ Done(h)
    /\ UNCHANGED <<registry, state, dist, evidence>>

UnpublishDepartment(h, p) ==
    /\ At(h, "idle")
    /\ dept' = [dept EXCEPT ![p].published = FALSE]
    /\ UNCHANGED <<registry, state, dist, evidence, call>>

-----------------------------------------------------------------------------
(* What goes on besides.                                                   *)

\* Documents are filed under buckets, and deleted or filed anew.
File(s, b) ==
    /\ filed' = [filed EXCEPT ![<<s, b>>] = IF @ = "now" THEN "before" ELSE "now"]
    /\ UNCHANGED <<registry, geography, approved, call>>

\* Records are approved, and the decision is taken back or the record deleted.
Approve(b) ==
    /\ approved' = [approved EXCEPT ![b] = IF @ = "now" THEN "before" ELSE "now"]
    /\ UNCHANGED <<registry, geography, filed, call>>

\* The process stops and every call with it.
Crash ==
    /\ \E h \in Handlers : ~At(h, "idle")
    /\ call' = [h \in Handlers |-> Idle]
    /\ UNCHANGED <<registry, geography, evidence>>

Existing(table) == {k \in DOMAIN table : table[k] # Null}

Arrivals(h) ==
    \/ \E text \in Texts, scope \in Scopes : ArriveAdd(h, text, scope)
    \/ \E s \in Registered :
          \/ ArriveClone(h, s) \/ ArriveTest(h, s) \/ ArriveCertify(h, s)
          \/ \E text \in Texts : ArriveEdit(h, s, text)
    \/ \E d \in Existing(dist) :
          \/ ArriveRefresh(h, d) \/ ArrivePublish(h, d)
          \/ \E status \in Members(DISTRICT_STATUSES) : ArriveDistrictStatus(h, d, status)
    \/ \E t \in Existing(state), status \in Members(STATE_STATUSES) : ArriveStateStatus(h, t, status)
    \/ \E p \in Existing(dept) : ArrivePublishDepartment(h, p)

\* The operations that are one statement.
Statements(h, routes) ==
    \/ "retire" \in routes /\ \E s \in Registered : Retire(h, s)
    \/ "disable" \in routes /\ \E s \in Registered : Disable(h, s)
    \/ "add_state" \in routes /\ \E t \in States : AddState(h, t)
    \/ "state_active" \in routes /\ \E t \in Existing(state), on \in BOOLEAN : SetStateActive(h, t, on)
    \/ "add_district" \in routes /\ \E d \in Districts : AddDistrict(h, d)
    \/ "unpublish" \in routes /\ \E d \in Existing(dist) : Unpublish(h, d)
    \/ "add_department" \in routes /\ \E p \in Departments : AddDepartment(h, p)
    \/ "unpublish_department" \in routes /\ \E p \in Existing(dept) : UnpublishDepartment(h, p)
    \/ /\ "department_active" \in routes
       /\ \E p \in Existing(dept), on \in BOOLEAN : SetDepartmentActive(h, p, on)

Registering(h) ==
    \/ InsertSource(h) \/ SetScope(h) \/ VersionRead(h) \/ VersionInsert(h)
    \/ EditRead(h) \/ EditWrite(h) \/ CloneRead(h) \/ TestRead(h) \/ TestWrite(h)

Certifying(h) ==
    \/ CertifyRead(h) \/ CertifyInsert(h) \/ CertifyWrite(h)
    \/ LifecycleRead(h) \/ LifecycleWrite(h) \/ AffectedRead(h)
    \/ RefreshRead(h) \/ RefreshBefore(h) \/ RefreshWrite(h) \/ AdvanceRead(h)

Publishing(h) ==
    \/ StatusRead(h) \/ StatusWrite(h) \/ StateRead(h) \/ StateWrite(h)
    \/ PublishRead(h) \/ PublishCount(h) \/ PublishWrite(h)
    \/ CoveredRead(h) \/ ApprovedRead(h) \/ DepartmentWrite(h)

\* One step of a system that takes these calls.
Step(routes, crashes) ==
    \/ \E h \in Handlers :
          \/ Arrivals(h) /\ call'[h].op \in routes
          \/ Statements(h, routes)
          \/ Registering(h) \/ Certifying(h) \/ Publishing(h)
    \/ "file" \in routes /\ \E s \in Registered, b \in Buckets : File(s, b)
    \/ "approve" \in routes /\ \E b \in Buckets : Approve(b)
    \/ crashes /\ Crash

Next == Step(Routes, Crashes)

Spec == Init /\ [][Next]_vars

-----------------------------------------------------------------------------
(* Properties.                                                             *)

\* The tables and the calls hold what their columns allow.
TypeOK ==
    /\ src \in [Sources -> Rows \cup {Null}] /\ lastSrc \in Nat
    /\ \A s \in Sources : src[s] # Null => s <= lastSrc
    /\ versions \subseteq VersionRows
    /\ certs \subseteq [src : Sources, result : Results]
    /\ state \in [States -> StateRows \cup {Null}]
    /\ dist \in [Districts -> DistrictRows \cup {Null}]
    /\ dept \in [Departments -> DepartmentRows \cup {Null}]
    /\ filed \in [Sources \X Buckets -> Times]
    /\ approved \in [Buckets -> Times]
    /\ call \in [Handlers -> Calls]

Covers(s, d) ==
    /\ src[s] # Null
    /\ \/ src[s].scope.district = d
       \/ src[s].scope.district = Null /\ src[s].scope.state = StateOf[d]

OnRecord(s) == [src |-> s, result |-> "CERTIFIED"] \in certs

\* "No publication without certification", "without approval" (publication.py:3): however the
\* certifications, refreshes and publications of several people overlap, a district that is
\* published has a source that passed a certification which is on record, and a record was approved;
\* for a department one of the sources that passed had a document in its bucket, and a record of
\* the bucket was approved.
PublishedHasEvidence ==
    /\ \A d \in Districts :
         dist[d] # Null /\ dist[d].published =>
             /\ \E s \in Sources : Covers(s, d) /\ OnRecord(s)
             /\ \E b \in Buckets : approved[b] # "never"
    /\ \A p \in Departments :
         dept[p] # Null /\ dept[p].published =>
             /\ BucketOf[p] # Null
             /\ approved[BucketOf[p]] # "never"
             /\ \E s \in Sources : OnRecord(s) /\ filed[<<s, BucketOf[p]>>] # "never"

=============================================================================
