-------------------------- MODULE PublicationProofs --------------------------
(***************************************************************************)
(* Theorems about Publication, for any number of sources, districts,       *)
(* departments and threads, and every interleaving of statements.          *)
(*                                                                         *)
(* The argument is that evidence lasts: a certification that was recorded  *)
(* stays recorded, a source that covers a district goes on covering it,    *)
(* and that a record was once approved does not become false (Grows). So   *)
(* what a handler has read before it publishes (Knows) still holds when it *)
(* writes, whatever the others do in between. The one step that could take *)
(* a source away from a district is the one that gives a new source its    *)
(* scope; Scoping says that it had none before, and that nobody else is    *)
(* about to give it one.                                                   *)
(*                                                                         *)
(* Two more are about the history variables of PublicationHistory. A       *)
(* district that reads CERTIFIED over a source that failed is on the list  *)
(* of exactly one call (Settled, Undivided), and what that call has        *)
(* computed is still true when it writes (Attentive), unless the district  *)
(* is shaken. What a source says is in its history, or exactly one call is *)
(* about to put it there (Whole), under a number that is not taken         *)
(* (Keeping), unless the source is torn.                                   *)
(***************************************************************************)
EXTENDS PublicationHistory, WellFoundedInduction, TLAPS

Tables ==
    /\ src \in [Sources -> Rows \cup {Null}] /\ lastSrc \in Nat
    /\ \A s \in Sources : src[s] # Null => s <= lastSrc
    /\ versions \subseteq VersionRows
    /\ certs \subseteq [src : Sources, result : Results]
    /\ state \in [States -> StateRows \cup {Null}]
    /\ dist \in [Districts -> DistrictRows \cup {Null}]
    /\ dept \in [Departments -> DepartmentRows \cup {Null}]
    /\ filed \in [Sources \X Buckets -> Times]
    /\ approved \in [Buckets -> Times]

Backed(d)    == \E s \in Sources : Covers(s, d) /\ OnRecord(s)
SomeApproved == \E b \in Buckets : approved[b] # "never"
SomeFiled(b) == \E s \in Sources : OnRecord(s) /\ filed[<<s, b>>] # "never"

\* What reads CERTIFIED has a certification on record.
Truth ==
    /\ \A s \in Sources : src[s] # Null /\ src[s].cert = "CERTIFIED" => OnRecord(s)
    /\ \A d \in Districts : dist[d] # Null /\ dist[d].cert = "CERTIFIED" => Backed(d)

Stored == Tables /\ Truth /\ PublishedHasEvidence

CertifyPcs    == {"certify_read", "certify_insert", "certify_write"}
SourcePcs     == CertifyPcs \cup {"set_scope", "version_read", "version_insert", "edit_read", "edit_write",
                                  "clone_read", "test_read", "test_write", "lifecycle_read", "lifecycle_write"}
VisitPcs      == {"refresh_read", "refresh_before", "refresh_write", "advance_read", "status_read", "status_write"}
PublishPcs    == {"publish_read", "publish_count", "publish_write"}
StatePcs      == {"state_read", "state_write"}
DepartmentPcs == {"covered_read", "approved_read", "department_write"}

\* The rows a handler refers to exist.
Refers(c) ==
    /\ c.pc \in SourcePcs => c.src \in Sources /\ src[c.src] # Null
    /\ c.pc \in CertifyPcs => \A s \in c.srcs : src[s] # Null
    /\ c.pc \in VisitPcs \cup PublishPcs => c.dist \in Districts /\ dist[c.dist] # Null
    /\ c.pc \in VisitPcs => \A d \in c.dists : dist[d] # Null
    /\ c.pc \in StatePcs => c.state \in States /\ state[c.state] # Null
    /\ c.pc \in DepartmentPcs => c.dept \in Departments /\ dept[c.dept] # Null /\ BucketOf[c.dept] # Null

\* What it is going to write is what the column allows.
Holds(c) ==
    /\ c.pc \in {"insert_source", "edit_read", "edit_write", "version_insert"} => c.text \in Texts
    /\ c.pc \in {"certify_insert", "certify_write"} => c.want \in Results
    /\ c.pc \in {"refresh_before", "refresh_write"} => c.want \in Certs
    /\ c.pc = "advance_read" => c.want = "CERTIFIED"
    /\ c.pc \in {"status_read", "status_write"} => c.want \in Members(DISTRICT_STATUSES)
    /\ c.pc \in StatePcs => c.want \in Members(STATE_STATUSES)

\* What it has read and still relies on.
Knows(c) ==
    /\ c.pc = "certify_write" /\ c.want = "CERTIFIED" => OnRecord(c.src)
    /\ c.pc \in {"refresh_before", "refresh_write"} /\ c.want = "CERTIFIED" => Backed(c.dist)
    /\ c.pc \in {"publish_count", "publish_write"} => Backed(c.dist)
    /\ c.pc = "publish_write" => SomeApproved
    /\ c.pc \in {"approved_read", "department_write"} => SomeFiled(BucketOf[c.dept])
    /\ c.pc = "department_write" => approved[BucketOf[c.dept]] # "never"

Promise(c) == Refers(c) /\ Holds(c) /\ Knows(c)

Promises == call \in [Handlers -> Calls] /\ \A h \in Handlers : Promise(call[h])

\* A source that waits for its scope has none, and one thread only is about to write it.
Scoping ==
    \A h \in Handlers : call[h].pc = "set_scope" =>
        /\ src[call[h].src].scope = NoScope
        /\ \A g \in Handlers : g # h /\ call[g].pc = "set_scope" => call[g].src # call[h].src

Inv == Stored /\ Promises /\ Scoping

RowsStay ==
    /\ \A s \in Sources : src[s] # Null => src'[s] # Null
    /\ \A t \in States : state[t] # Null => state'[t] # Null
    /\ \A d \in Districts : dist[d] # Null => dist'[d] # Null
    /\ \A p \in Departments : dept[p] # Null => dept'[p] # Null

EvidenceStays ==
    /\ certs \subseteq certs'
    /\ \A s \in Sources, d \in Districts : Covers(s, d) => Covers(s, d)'
    /\ \A b \in Buckets : approved[b] # "never" => approved'[b] # "never"
    /\ \A s \in Sources, b \in Buckets : filed[<<s, b>>] # "never" => filed'[<<s, b>>] # "never"

Grows == RowsStay /\ EvidenceStays

ScopesStay == \A s \in Sources : src[s] # Null => src'[s].scope = src[s].scope

-----------------------------------------------------------------------------
(* Evidence lasts, and with it every promise.                              *)

LEMMA BackedLasts ==
    ASSUME EvidenceStays, NEW d \in Districts, Backed(d)
    PROVE  Backed(d)'
  <1>1. PICK s \in Sources : Covers(s, d) /\ OnRecord(s)
    BY DEF Backed
  <1>2. Covers(s, d)'
    BY <1>1 DEF EvidenceStays
  <1>3. OnRecord(s)'
    BY <1>1 DEF EvidenceStays, OnRecord
  <1>4. QED
    BY <1>2, <1>3 DEF Backed

LEMMA FiledLasts ==
    ASSUME EvidenceStays, NEW b \in Buckets, SomeFiled(b)
    PROVE  SomeFiled(b)'
  BY DEF EvidenceStays, SomeFiled, OnRecord

LEMMA ApprovedLasts ==
    ASSUME EvidenceStays, SomeApproved
    PROVE  SomeApproved'
  BY DEF EvidenceStays, SomeApproved

\* A promise survives a step that only lets the tables grow.
LEMMA Stable ==
    ASSUME Grows, NEW c \in Calls, Promise(c)
    PROVE  Promise(c)'
  <1>1. Refers(c)'
    BY DEF Promise, Refers, Grows, RowsStay, Calls
  <1>2. Holds(c)'
    BY DEF Promise, Holds
  <1>3. Knows(c)'
    <2>1. ASSUME c.dist \in Districts, Backed(c.dist) PROVE Backed(c.dist)'
      BY <2>1, BackedLasts DEF Grows
    <2>2. ASSUME c.pc \in DepartmentPcs, SomeFiled(BucketOf[c.dept]) PROVE SomeFiled(BucketOf[c.dept])'
      <3>1. BucketOf[c.dept] \in Buckets
        BY <2>2, GeographyAssumption DEF Promise, Refers
      <3>2. QED
        BY <2>2, <3>1, FiledLasts DEF Grows
    <2>3. ASSUME c.pc = "department_write", approved[BucketOf[c.dept]] # "never"
          PROVE  approved'[BucketOf[c.dept]] # "never"
      <3>1. BucketOf[c.dept] \in Buckets
        BY <2>3, GeographyAssumption DEF Promise, Refers, DepartmentPcs
      <3>2. QED
        BY <2>3, <3>1 DEF Grows, EvidenceStays
    <2>4. c.pc = "certify_write" /\ c.want = "CERTIFIED" => OnRecord(c.src)'
      BY DEF Promise, Knows, OnRecord, Grows, EvidenceStays
    <2>5. c.pc \in {"refresh_before", "refresh_write", "publish_count", "publish_write"} => c.dist \in Districts
      BY DEF Promise, Refers, VisitPcs, PublishPcs
    <2>6. /\ c.pc \in {"refresh_before", "refresh_write"} /\ c.want = "CERTIFIED" => Backed(c.dist)'
          /\ c.pc \in {"publish_count", "publish_write"} => Backed(c.dist)'
      BY <2>1, <2>5 DEF Promise, Knows
    <2>7. c.pc = "publish_write" => SomeApproved'
      BY ApprovedLasts DEF Promise, Knows, Grows
    <2>8. c.pc \in {"approved_read", "department_write"} => SomeFiled(BucketOf[c.dept])'
      BY <2>2 DEF Promise, Knows, DepartmentPcs
    <2>9. c.pc = "department_write" => approved'[BucketOf[c.dept]] # "never"
      BY <2>3 DEF Promise, Knows
    <2>10. QED
      BY <2>4, <2>6, <2>7, <2>8, <2>9 DEF Knows
  <1>4. QED
    BY <1>1, <1>2, <1>3 DEF Promise

LEMMA OthersStable ==
    ASSUME Inv, Grows, NEW g \in Handlers, call'[g] = call[g]
    PROVE  Promise(call[g])'
  <1>1. PICK b \in Calls : b = call[g]
    BY DEF Inv, Promises
  <1>2. Promise(b)
    BY <1>1 DEF Inv, Promises
  <1>3. Promise(b)'
    BY <1>2, Stable
  <1>4. call'[g] = b
    BY <1>1
  <1>5. QED
    BY <1>3, <1>4 DEF Promise, Refers, Holds, Knows

\* A handler that waits to give a source its scope refers to a row that is there.
LEMMA ScopingRefers ==
    ASSUME Inv, NEW g \in Handlers, call[g].pc = "set_scope"
    PROVE  call[g].src \in Sources /\ src[call[g].src] # Null
  BY DEF Inv, Promises, Promise, Refers, SourcePcs

\* A step of one handler that keeps its own promise keeps all.
LEMMA Becoming ==
    ASSUME Inv, Stored', Grows, Scoping', NEW h \in Handlers, NEW c \in Calls,
           Become(h, c), Promise(c)'
    PROVE  Inv' /\ Grows
  <1>1. call' \in [Handlers -> Calls]
    BY DEF Inv, Promises, Become
  <1>2. ASSUME NEW g \in Handlers PROVE Promise(call[g])'
    <2>1. CASE g = h
      <3>1. call'[g] = c
        BY <2>1 DEF Inv, Promises, Become
      <3>2. QED
        BY <3>1 DEF Promise, Refers, Holds, Knows
    <2>2. CASE g # h
      <3>1. call'[g] = call[g]
        BY <2>2 DEF Inv, Promises, Become
      <3>2. QED
        BY <3>1, OthersStable
    <2>3. QED
      BY <2>1, <2>2
  <1>3. QED
    BY <1>1, <1>2 DEF Inv, Promises

\* The same when no source gets its scope and the handler does not wait to give one.
LEMMA MovesThen ==
    ASSUME Inv, Stored', Grows, ScopesStay, NEW h \in Handlers, NEW c \in Calls, c.pc # "set_scope",
           Become(h, c), Promise(c)'
    PROVE  Inv' /\ Grows
  <1>1. ASSUME NEW g \in Handlers, call'[g].pc = "set_scope"
        PROVE  call'[g] = call[g] /\ src'[call[g].src].scope = NoScope
    <2>1. call'[g] = call[g]
      BY <1>1 DEF Inv, Promises, Become
    <2>2. src[call[g].src].scope = NoScope
      BY <1>1, <2>1 DEF Inv, Scoping
    <2>3. call[g].src \in Sources /\ src[call[g].src] # Null
      BY <1>1, <2>1, ScopingRefers
    <2>4. QED
      BY <2>1, <2>2, <2>3 DEF ScopesStay
  <1>2. ASSUME NEW f \in Handlers, NEW g \in Handlers, g # f, call'[f].pc = "set_scope", call'[g].pc = "set_scope"
        PROVE  call'[g].src # call'[f].src
    BY <1>1, <1>2 DEF Inv, Scoping
  <1>3. Scoping'
    BY <1>1, <1>2 DEF Scoping
  <1>4. QED
    BY <1>3, Becoming

LEMMA Moves ==
    ASSUME Inv, Stored', Grows, ScopesStay, NEW h \in Handlers, NEW c \in Calls, c.pc # "set_scope",
           Become(h, c), Promise(c)
    PROVE  Inv' /\ Grows
  BY Stable, MovesThen

\* A step of no handler.
LEMMA Stays ==
    ASSUME Inv, Stored', Grows, ScopesStay, UNCHANGED call
    PROVE  Inv' /\ Grows
  <1>1. \A g \in Handlers : Promise(call[g])'
    BY OthersStable
  <1>2. Scoping'
    BY ScopingRefers DEF Inv, Scoping, ScopesStay
  <1>3. QED
    BY <1>1, <1>2 DEF Inv, Promises

-----------------------------------------------------------------------------
(* What a statement does to the tables.                                    *)

LEMMA Quiet ==
    ASSUME Inv, UNCHANGED <<registry, geography, evidence>>
    PROVE  Stored' /\ Grows /\ ScopesStay
  <1> USE DEF registry, geography, evidence
  <1>1. Tables'
    BY DEF Inv, Stored, Tables
  <1>2. Truth' /\ PublishedHasEvidence'
    BY DEF Inv, Stored, Truth, PublishedHasEvidence, Backed, Covers, OnRecord
  <1>3. Grows /\ ScopesStay
    BY DEF Grows, RowsStay, EvidenceStays, ScopesStay, Covers
  <1>4. QED
    BY <1>1, <1>2, <1>3 DEF Stored

\* One column of a source, other than its scope.
LEMMA SourceChange ==
    ASSUME Inv, NEW s \in Sources, src[s] # Null, NEW row \in Rows, row.scope = src[s].scope,
           row.cert = "CERTIFIED" => OnRecord(s), SetSource(s, row),
           UNCHANGED <<lastSrc, versions, certs, geography, evidence>>
    PROVE  Stored' /\ Grows /\ ScopesStay
  <1> USE DEF geography, evidence
  <1>a. row # Null
    BY NullAssumption
  <1>b. src' = [src EXCEPT ![s] = row] /\ src \in [Sources -> Rows \cup {Null}]
    BY DEF Inv, Stored, Tables, SetSource
  <1>1. src' \in [Sources -> Rows \cup {Null}] /\ src'[s] = row /\ \A z \in Sources : z # s => src'[z] = src[z]
    BY <1>b
  <1>2. \A z \in Sources : (src'[z] # Null <=> src[z] # Null) /\ (src[z] # Null => src'[z].scope = src[z].scope)
    BY <1>a, <1>1
  <1>3. \A z \in Sources, d \in Districts : Covers(z, d)' <=> Covers(z, d)
    BY <1>2 DEF Covers
  <1>4. Tables'
    BY <1>1, <1>2 DEF Inv, Stored, Tables
  <1>5. \A z \in Sources : OnRecord(z)' <=> OnRecord(z)
    BY DEF OnRecord
  <1>6. \A z \in Sources : src'[z] # Null /\ src'[z].cert = "CERTIFIED" => OnRecord(z)'
    BY <1>1, <1>2, <1>5 DEF Inv, Stored, Truth
  <1>7. \A d \in Districts : Backed(d)' <=> Backed(d)
    BY <1>3, <1>5 DEF Backed
  <1>8. Truth'
    BY <1>6, <1>7 DEF Inv, Stored, Truth
  <1>9. PublishedHasEvidence'
    BY <1>3, <1>5 DEF Inv, Stored, PublishedHasEvidence
  <1>10. Grows /\ ScopesStay
    BY <1>2, <1>3 DEF Grows, RowsStay, EvidenceStays, ScopesStay
  <1>11. QED
    BY <1>4, <1>8, <1>9, <1>10 DEF Stored

\* The row of a district, or a new one.
LEMMA DistrictChange ==
    ASSUME Inv, NEW d \in Districts, NEW row \in DistrictRows, row.cert = "CERTIFIED" => Backed(d),
           row.published => Backed(d) /\ SomeApproved, SetDistrict(d, row),
           UNCHANGED <<registry, state, dept, evidence>>
    PROVE  Stored' /\ Grows /\ ScopesStay
  <1> USE DEF registry, evidence
  <1>a. row # Null
    BY NullAssumption
  <1>b. dist' = [dist EXCEPT ![d] = row] /\ dist \in [Districts -> DistrictRows \cup {Null}]
    BY DEF Inv, Stored, Tables, SetDistrict
  <1>1. dist' \in [Districts -> DistrictRows \cup {Null}] /\ dist'[d] = row /\ \A e \in Districts : e # d => dist'[e] = dist[e]
    BY <1>b
  <1>2. \A s \in Sources, e \in Districts : Covers(s, e)' <=> Covers(s, e)
    BY DEF Covers
  <1>3. \A s \in Sources : OnRecord(s)' <=> OnRecord(s)
    BY DEF OnRecord
  <1>4. \A e \in Districts : Backed(e)' <=> Backed(e)
    BY <1>2, <1>3 DEF Backed
  <1>5. Tables'
    BY <1>1 DEF Inv, Stored, Tables
  <1>6. Truth'
    BY <1>1, <1>3, <1>4 DEF Inv, Stored, Truth
  <1>7. PublishedHasEvidence'
    <2>1. ASSUME NEW e \in Districts, dist'[e] # Null, dist'[e].published
          PROVE  Backed(e) /\ SomeApproved
      <3>1. CASE e = d
        BY <1>1, <2>1, <3>1
      <3>2. CASE e # d
        BY <1>1, <2>1, <3>2 DEF Inv, Stored, PublishedHasEvidence, Backed, SomeApproved
      <3>3. QED
        BY <3>1, <3>2
    <2>2. \A p \in Departments :
            dept'[p] # Null /\ dept'[p].published =>
                /\ BucketOf[p] # Null /\ approved'[BucketOf[p]] # "never"
                /\ \E s \in Sources : OnRecord(s)' /\ filed'[<<s, BucketOf[p]>>] # "never"
      BY <1>3 DEF Inv, Stored, PublishedHasEvidence
    <2>3. \A e \in Districts :
            dist'[e] # Null /\ dist'[e].published =>
                /\ \E s \in Sources : Covers(s, e)' /\ OnRecord(s)'
                /\ \E b \in Buckets : approved'[b] # "never"
      BY <1>2, <1>3, <2>1 DEF Backed, SomeApproved
    <2>4. QED
      BY <2>2, <2>3 DEF PublishedHasEvidence
  <1>8. Grows /\ ScopesStay
    BY <1>a, <1>1, <1>2 DEF Grows, RowsStay, EvidenceStays, ScopesStay
  <1>9. QED
    BY <1>5, <1>6, <1>7, <1>8 DEF Stored

\* The row of a department, or a new one.
LEMMA DepartmentChange ==
    ASSUME Inv, NEW p \in Departments, NEW row \in DepartmentRows,
           row.published => BucketOf[p] # Null /\ approved[BucketOf[p]] # "never" /\ SomeFiled(BucketOf[p]),
           dept' = [dept EXCEPT ![p] = row], UNCHANGED <<registry, state, dist, evidence>>
    PROVE  Stored' /\ Grows /\ ScopesStay
  <1> USE DEF registry, evidence
  <1>a. row # Null
    BY NullAssumption
  <1>b. dept \in [Departments -> DepartmentRows \cup {Null}]
    BY DEF Inv, Stored, Tables
  <1>1. dept' \in [Departments -> DepartmentRows \cup {Null}] /\ dept'[p] = row
        /\ \A q \in Departments : q # p => dept'[q] = dept[q]
    BY <1>b
  <1>2. \A s \in Sources, e \in Districts : Covers(s, e)' <=> Covers(s, e)
    BY DEF Covers
  <1>3. \A s \in Sources : OnRecord(s)' <=> OnRecord(s)
    BY DEF OnRecord
  <1>4. Tables'
    BY <1>1 DEF Inv, Stored, Tables
  <1>5. Truth'
    BY <1>2, <1>3 DEF Inv, Stored, Truth, Backed
  <1>6. PublishedHasEvidence'
    <2>1. ASSUME NEW q \in Departments, dept'[q] # Null, dept'[q].published
          PROVE  BucketOf[q] # Null /\ approved[BucketOf[q]] # "never" /\ SomeFiled(BucketOf[q])
      <3>1. CASE q = p
        BY <1>1, <2>1, <3>1
      <3>2. CASE q # p
        BY <1>1, <2>1, <3>2 DEF Inv, Stored, PublishedHasEvidence, SomeFiled
      <3>3. QED
        BY <3>1, <3>2
    <2>2. \A q \in Departments :
            dept'[q] # Null /\ dept'[q].published =>
                /\ BucketOf[q] # Null /\ approved'[BucketOf[q]] # "never"
                /\ \E s \in Sources : OnRecord(s)' /\ filed'[<<s, BucketOf[q]>>] # "never"
      BY <1>3, <2>1 DEF SomeFiled
    <2>3. \A e \in Districts :
            dist'[e] # Null /\ dist'[e].published =>
                /\ \E s \in Sources : Covers(s, e)' /\ OnRecord(s)'
                /\ \E b \in Buckets : approved'[b] # "never"
      BY <1>2, <1>3 DEF Inv, Stored, PublishedHasEvidence
    <2>4. QED
      BY <2>2, <2>3 DEF PublishedHasEvidence
  <1>7. Grows /\ ScopesStay
    BY <1>a, <1>1, <1>2 DEF Grows, RowsStay, EvidenceStays, ScopesStay
  <1>8. QED
    BY <1>4, <1>5, <1>6, <1>7 DEF Stored

\* The row of a state, or a new one.
LEMMA StateChange ==
    ASSUME Inv, NEW t \in States, NEW row \in StateRows, state' = [state EXCEPT ![t] = row],
           UNCHANGED <<registry, dist, dept, evidence>>
    PROVE  Stored' /\ Grows /\ ScopesStay
  <1> USE DEF registry, evidence
  <1>a. row # Null
    BY NullAssumption
  <1>b. state \in [States -> StateRows \cup {Null}]
    BY DEF Inv, Stored, Tables
  <1>1. Tables'
    BY <1>b DEF Inv, Stored, Tables
  <1>2. Truth' /\ PublishedHasEvidence'
    BY DEF Inv, Stored, Truth, PublishedHasEvidence, Backed, Covers, OnRecord
  <1>3. Grows /\ ScopesStay
    BY <1>a, <1>b DEF Grows, RowsStay, EvidenceStays, ScopesStay, Covers
  <1>4. QED
    BY <1>1, <1>2, <1>3 DEF Stored

\* A row of the history, or a certification.
LEMMA RecordChange ==
    ASSUME Inv, versions' \subseteq VersionRows, certs' \subseteq [src : Sources, result : Results],
           certs \subseteq certs', UNCHANGED <<src, lastSrc, geography, evidence>>
    PROVE  Stored' /\ Grows /\ ScopesStay
  <1> USE DEF geography, evidence
  <1>1. Tables'
    BY DEF Inv, Stored, Tables
  <1>2. \A s \in Sources, e \in Districts : Covers(s, e)' <=> Covers(s, e)
    BY DEF Covers
  <1>3. \A s \in Sources : OnRecord(s) => OnRecord(s)'
    BY DEF OnRecord
  <1>4. Truth' /\ PublishedHasEvidence'
    BY <1>2, <1>3 DEF Inv, Stored, Truth, PublishedHasEvidence, Backed
  <1>5. Grows /\ ScopesStay
    BY <1>2 DEF Grows, RowsStay, EvidenceStays, ScopesStay
  <1>6. QED
    BY <1>1, <1>4, <1>5 DEF Stored

\* Documents and records come and go; that there were some stays true.
LEMMA EvidenceChange ==
    ASSUME Inv, filed' \in [Sources \X Buckets -> Times], approved' \in [Buckets -> Times],
           \A b \in Buckets : approved[b] # "never" => approved'[b] # "never",
           \A s \in Sources, b \in Buckets : filed[<<s, b>>] # "never" => filed'[<<s, b>>] # "never",
           UNCHANGED <<registry, geography>>
    PROVE  Stored' /\ Grows /\ ScopesStay
  <1> USE DEF registry, geography
  <1>1. Tables'
    BY DEF Inv, Stored, Tables
  <1>2. \A s \in Sources, e \in Districts : Covers(s, e)' <=> Covers(s, e)
    BY DEF Covers
  <1>3. \A s \in Sources : OnRecord(s) <=> OnRecord(s)'
    BY DEF OnRecord
  <1>4. Truth'
    BY <1>2, <1>3 DEF Inv, Stored, Truth, Backed
  <1>5. \A p \in Departments : BucketOf[p] # Null => BucketOf[p] \in Buckets
    BY GeographyAssumption
  <1>6. PublishedHasEvidence'
    BY <1>2, <1>3, <1>5 DEF Inv, Stored, PublishedHasEvidence
  <1>7. Grows /\ ScopesStay
    BY <1>2 DEF Grows, RowsStay, EvidenceStays, ScopesStay
  <1>8. QED
    BY <1>1, <1>4, <1>6, <1>7 DEF Stored

LEMMA QuietStep ==
    ASSUME Inv, NEW h \in Handlers, NEW c \in Calls, c.pc # "set_scope", Become(h, c), Promise(c),
           UNCHANGED <<registry, geography, evidence>>
    PROVE  Inv' /\ Grows
  BY Quiet, Moves

LEMMA IdleFine == Idle \in Calls /\ Promise(Idle) /\ Idle.pc # "set_scope"
  BY DEF Idle, Calls, Ops, NoScope, AnyScope, Promise, Refers, Holds, Knows, SourcePcs, CertifyPcs, VisitPcs,
     PublishPcs, StatePcs, DepartmentPcs

-----------------------------------------------------------------------------
(* A call arrives.                                                         *)

\* The least of a set of keys is one of them.
LEMMA LeastMember ==
    ASSUME NEW S \in SUBSET Nat, S # {}
    PROVE  Min(S) \in S
  <1>1. OpToRel(<, Nat) = {z \in Nat \X Nat : z[1] < z[2]}
    BY DEF OpToRel
  <1>2. PICK R : R = {z \in Nat \X Nat : z[1] < z[2]} /\ IsWellFoundedOn(R, Nat)
    BY <1>1, NatLessThanWellFounded, Zenon
  <1>3. PICK x \in S : \A y \in S : ~ (<<y, x>> \in R)
    BY <1>2, WFMin
  <1>4. \A y \in S : x <= y
    <2>1. ASSUME NEW y \in S, y < x PROVE <<y, x>> \in R
      BY <1>2, <2>1
    <2>2. \A y \in S : x \in Nat /\ y \in Nat /\ ~(y < x)
      BY <1>3, <2>1
    <2>3. QED
      BY <2>2
  <1>5. QED
    BY <1>4 DEF Min

\* The call that asks for a status of a district is a call.
LEMMA StatusAsked ==
    ASSUME NEW c \in Calls, NEW d \in Districts, NEW status \in Members(DISTRICT_STATUSES)
    PROVE  [c EXCEPT !.pc = "status_read", !.dist = d, !.dists = {d}, !.want = status,
                     !.op = "district_status"] \in Calls
  BY ZenonT(60) DEF Calls, Ops

LEMMA ArrivalStep ==
    ASSUME Inv, NEW h \in Handlers, Arrivals(h)
    PROVE  Inv' /\ Grows
  <1>1. ASSUME NEW text \in Texts, NEW scope \in Scopes,
               Arrive(h, "create", [Idle EXCEPT !.pc = "insert_source", !.text = text, !.scope = scope])
        PROVE Inv' /\ Grows
    <2> DEFINE c == [Idle EXCEPT !.pc = "insert_source", !.text = text, !.scope = scope, !.op = "create"]
    <2>1. scope \in AnyScope
      BY <1>1, NullAssumption, GeographyAssumption DEF NoScope, AnyScope
    <2>2. c \in Calls
      BY <2>1, IdleFine, ZenonT(60) DEF Calls, Ops
    <2>3. Promise(c) /\ c.pc # "set_scope"
      BY <2>1 DEF Idle, Promise, Refers, Holds, Knows, SourcePcs, CertifyPcs, VisitPcs, PublishPcs, StatePcs, DepartmentPcs
    <2>4. Become(h, c) /\ UNCHANGED <<registry, geography, evidence>>
      BY <1>1 DEF Arrive
    <2> HIDE DEF c
    <2>5. QED
      BY <2>2, <2>3, <2>4, QuietStep
  <1>2. ASSUME NEW s \in Registered, ArriveClone(h, s) PROVE Inv' /\ Grows
    <2> DEFINE c == [Idle EXCEPT !.pc = "clone_read", !.src = s, !.op = "clone"]
    <2>1. src[s] # Null /\ s \in Sources
      BY <1>2, NullAssumption, GeographyAssumption DEF Inv, Stored, Tables, Rows, Existing, Registered, ArriveClone
    <2>2. c \in Calls
      BY <2>1, IdleFine, ZenonT(60) DEF Calls, Ops
    <2>3. Promise(c) /\ c.pc # "set_scope"
      BY <2>1 DEF Idle, Promise, Refers, Holds, Knows, SourcePcs, CertifyPcs, VisitPcs, PublishPcs, StatePcs, DepartmentPcs
    <2>4. Become(h, c) /\ UNCHANGED <<registry, geography, evidence>>
      BY <1>2 DEF Arrive, ArriveClone
    <2> HIDE DEF c
    <2>5. QED
      BY <2>2, <2>3, <2>4, QuietStep
  <1>3. ASSUME NEW s \in Registered, NEW text \in Texts, ArriveEdit(h, s, text) PROVE Inv' /\ Grows
    <2> DEFINE c == [Idle EXCEPT !.pc = "edit_read", !.src = s, !.text = text, !.op = "edit"]
    <2>1. src[s] # Null /\ s \in Sources /\ text \in Texts
      BY <1>3, NullAssumption, GeographyAssumption DEF Inv, Stored, Tables, Rows, Existing, Registered, ArriveEdit
    <2>2. c \in Calls
      BY <2>1, IdleFine, ZenonT(60) DEF Calls, Ops
    <2>3. Promise(c) /\ c.pc # "set_scope"
      BY <2>1 DEF Idle, Promise, Refers, Holds, Knows, SourcePcs, CertifyPcs, VisitPcs, PublishPcs, StatePcs, DepartmentPcs
    <2>4. Become(h, c) /\ UNCHANGED <<registry, geography, evidence>>
      BY <1>3 DEF Arrive, ArriveEdit
    <2> HIDE DEF c
    <2>5. QED
      BY <2>2, <2>3, <2>4, QuietStep
  <1>4. ASSUME NEW s \in Registered, ArriveTest(h, s) PROVE Inv' /\ Grows
    <2> DEFINE c == [Idle EXCEPT !.pc = "test_read", !.src = s, !.op = "test"]
    <2>1. src[s] # Null /\ s \in Sources
      BY <1>4, NullAssumption, GeographyAssumption DEF Inv, Stored, Tables, Rows, Existing, Registered, ArriveTest
    <2>2. c \in Calls
      BY <2>1, IdleFine, ZenonT(60) DEF Calls, Ops
    <2>3. Promise(c) /\ c.pc # "set_scope"
      BY <2>1 DEF Idle, Promise, Refers, Holds, Knows, SourcePcs, CertifyPcs, VisitPcs, PublishPcs, StatePcs, DepartmentPcs
    <2>4. Become(h, c) /\ UNCHANGED <<registry, geography, evidence>>
      BY <1>4 DEF Arrive, ArriveTest
    <2> HIDE DEF c
    <2>5. QED
      BY <2>2, <2>3, <2>4, QuietStep
  <1>5. ASSUME NEW op \in {"certify", "certify_cli"}, NEW ss \in SUBSET Registered, NEW s \in ss,
               Arrive(h, op, [Idle EXCEPT !.pc = "certify_read", !.srcs = ss, !.src = s])
        PROVE Inv' /\ Grows
    <2> DEFINE c == [Idle EXCEPT !.pc = "certify_read", !.srcs = ss, !.src = s, !.op = op]
    <2>1. ss \subseteq Sources /\ s \in Sources /\ (\A z \in ss : src[z] # Null) /\ s \in ss /\ op \in {"certify", "certify_cli"}
      BY <1>5, NullAssumption, GeographyAssumption DEF Inv, Stored, Tables, Rows, Existing, Registered
    <2>2. c \in Calls
      BY <2>1, IdleFine, ZenonT(60) DEF Calls, Ops
    <2>3. Promise(c) /\ c.pc # "set_scope"
      BY <2>1 DEF Idle, Promise, Refers, Holds, Knows, SourcePcs, CertifyPcs, VisitPcs, PublishPcs, StatePcs, DepartmentPcs
    <2>4. Become(h, c) /\ UNCHANGED <<registry, geography, evidence>>
      BY <1>5 DEF Arrive
    <2> HIDE DEF c
    <2>5. QED
      BY <2>2, <2>3, <2>4, QuietStep
  <1>6. ASSUME NEW d \in Existing(dist), ArriveRefresh(h, d) PROVE Inv' /\ Grows
    <2> DEFINE c == [Idle EXCEPT !.pc = "refresh_read", !.dists = {d}, !.dist = d, !.op = "refresh"]
    <2>1. d \in Districts /\ dist[d] # Null
      BY <1>6, NullAssumption, GeographyAssumption DEF Inv, Stored, Tables, Rows, Existing, Registered, ArriveRefresh
    <2>2. c \in Calls
      BY <2>1, IdleFine, ZenonT(60) DEF Calls, Ops
    <2>3. Promise(c) /\ c.pc # "set_scope"
      BY <2>1 DEF Idle, Promise, Refers, Holds, Knows, SourcePcs, CertifyPcs, VisitPcs, PublishPcs, StatePcs, DepartmentPcs
    <2>4. Become(h, c) /\ UNCHANGED <<registry, geography, evidence>>
      BY <1>6 DEF Arrive, ArriveRefresh
    <2> HIDE DEF c
    <2>5. QED
      BY <2>2, <2>3, <2>4, QuietStep
  <1>7. ASSUME NEW d \in Existing(dist), ArrivePublish(h, d) PROVE Inv' /\ Grows
    <2> DEFINE c == [Idle EXCEPT !.pc = "publish_read", !.dist = d, !.op = "publish"]
    <2>1. d \in Districts /\ dist[d] # Null
      BY <1>7, NullAssumption, GeographyAssumption DEF Inv, Stored, Tables, Rows, Existing, Registered, ArrivePublish
    <2>2. c \in Calls
      BY <2>1, IdleFine, ZenonT(60) DEF Calls, Ops
    <2>3. Promise(c) /\ c.pc # "set_scope"
      BY <2>1 DEF Idle, Promise, Refers, Holds, Knows, SourcePcs, CertifyPcs, VisitPcs, PublishPcs, StatePcs, DepartmentPcs
    <2>4. Become(h, c) /\ UNCHANGED <<registry, geography, evidence>>
      BY <1>7 DEF Arrive, ArrivePublish
    <2> HIDE DEF c
    <2>5. QED
      BY <2>2, <2>3, <2>4, QuietStep
  <1>8. ASSUME NEW d \in Existing(dist), NEW status \in Members(DISTRICT_STATUSES),
               ArriveDistrictStatus(h, d, status)
        PROVE Inv' /\ Grows
    <2> DEFINE c == [Idle EXCEPT !.pc = "status_read", !.dist = d, !.dists = {d}, !.want = status,
                                   !.op = "district_status"]
    <2>1. d \in Districts /\ dist[d] # Null /\ status \in Members(DISTRICT_STATUSES)
      BY <1>8, NullAssumption, GeographyAssumption DEF Inv, Stored, Tables, Rows, Existing, Registered, ArriveDistrictStatus
    <2>2. c \in Calls
      BY <2>1, IdleFine, StatusAsked, Zenon
    <2>3. Promise(c) /\ c.pc # "set_scope"
      BY <2>1 DEF Idle, Promise, Refers, Holds, Knows, SourcePcs, CertifyPcs, VisitPcs, PublishPcs, StatePcs, DepartmentPcs
    <2>4. Become(h, c) /\ UNCHANGED <<registry, geography, evidence>>
      BY <1>8 DEF Arrive, ArriveDistrictStatus
    <2> HIDE DEF c
    <2>5. QED
      BY <2>2, <2>3, <2>4, QuietStep
  <1>9. ASSUME NEW t \in Existing(state), NEW status \in Members(STATE_STATUSES),
               ArriveStateStatus(h, t, status)
        PROVE Inv' /\ Grows
    <2> DEFINE c == [Idle EXCEPT !.pc = "state_read", !.state = t, !.want = status, !.op = "state_status"]
    <2>1. t \in States /\ state[t] # Null /\ status \in Members(STATE_STATUSES)
      BY <1>9, NullAssumption, GeographyAssumption DEF Inv, Stored, Tables, Rows, Existing, Registered, ArriveStateStatus
    <2>2. c \in Calls
      BY <2>1, IdleFine, ZenonT(60) DEF Calls, Ops
    <2>3. Promise(c) /\ c.pc # "set_scope"
      BY <2>1 DEF Idle, Promise, Refers, Holds, Knows, SourcePcs, CertifyPcs, VisitPcs, PublishPcs, StatePcs, DepartmentPcs
    <2>4. Become(h, c) /\ UNCHANGED <<registry, geography, evidence>>
      BY <1>9 DEF Arrive, ArriveStateStatus
    <2> HIDE DEF c
    <2>5. QED
      BY <2>2, <2>3, <2>4, QuietStep
  <1>10. ASSUME NEW p \in Existing(dept), ArrivePublishDepartment(h, p) PROVE Inv' /\ Grows
    <2> DEFINE c == [Idle EXCEPT !.pc = "covered_read", !.dept = p, !.op = "publish_department"]
    <2>1. p \in Departments /\ dept[p] # Null /\ BucketOf[p] # Null
      BY <1>10, NullAssumption, GeographyAssumption DEF Inv, Stored, Tables, Rows, Existing, Registered, ArrivePublishDepartment
    <2>2. c \in Calls
      BY <2>1, IdleFine, ZenonT(60) DEF Calls, Ops
    <2>3. Promise(c) /\ c.pc # "set_scope"
      BY <2>1 DEF Idle, Promise, Refers, Holds, Knows, SourcePcs, CertifyPcs, VisitPcs, PublishPcs, StatePcs, DepartmentPcs
    <2>4. Become(h, c) /\ UNCHANGED <<registry, geography, evidence>>
      BY <1>10 DEF Arrive, ArrivePublishDepartment
    <2> HIDE DEF c
    <2>5. QED
      BY <2>2, <2>3, <2>4, QuietStep
  <1>11. ASSUME NEW text \in Texts, Arrive(h, "register", [Idle EXCEPT !.pc = "insert_source", !.text = text]) PROVE Inv' /\ Grows
    <2> DEFINE c == [Idle EXCEPT !.pc = "insert_source", !.text = text, !.op = "register"]
    <2>1. c \in Calls
      BY IdleFine, ZenonT(60) DEF Calls, Ops
    <2>2. Promise(c) /\ c.pc # "set_scope"
      BY DEF Idle, Promise, Refers, Holds, Knows, SourcePcs, CertifyPcs, VisitPcs, PublishPcs, StatePcs, DepartmentPcs
    <2>3. Become(h, c) /\ UNCHANGED <<registry, geography, evidence>>
      BY <1>11 DEF Arrive
    <2> HIDE DEF c
    <2>4. QED
      BY <2>1, <2>2, <2>3, QuietStep
  <1>12. ASSUME NEW s \in Registered, ArriveCertify(h, s) PROVE Inv' /\ Grows
    <2>1. CASE Arrive(h, "certify", [Idle EXCEPT !.pc = "certify_read", !.srcs = {s}, !.src = s])
      BY <2>1, <1>5
    <2>2. ASSUME NEW ss \in {{s}, {t \in Registered : src[t].active}} \ {{}},
                 Arrive(h, "certify_cli", [Idle EXCEPT !.pc = "certify_read", !.srcs = ss, !.src = Min(ss)])
          PROVE  Inv' /\ Grows
      <3>1. ss \in SUBSET Registered /\ ss # {} /\ ss \in SUBSET Nat
        BY SourcesAssumption DEF Registered
      <3>2. Min(ss) \in ss
        BY <3>1, LeastMember
      <3>3. QED
        BY <2>2, <3>1, <3>2, <1>5
    <2>3. QED
      BY <1>12, <2>1, <2>2 DEF ArriveCertify
  <1>13. QED
    BY <1>2, <1>3, <1>4, <1>6, <1>7, <1>8, <1>9, <1>10, <1>1, <1>11, <1>12 DEF Arrivals, ArriveAdd

-----------------------------------------------------------------------------
(* The registry of sources.                                                *)

\* What the handler that moves has read.
LEMMA Own ==
    ASSUME Inv, NEW h \in Handlers
    PROVE  \E b \in Calls : b = call[h] /\ Promise(b)
  BY DEF Inv, Promises

LEMMA DoneStep ==
    ASSUME Inv, Stored', Grows, ScopesStay, NEW h \in Handlers, Done(h)
    PROVE  Inv' /\ Grows
  BY IdleFine, Moves DEF Done

LEMMA SourceNew ==
    ASSUME Inv, NEW s \in Sources, s = lastSrc + 1, NEW text \in Texts,
           SetSource(s, [scope |-> NoScope, text |-> text, active |-> TRUE,
                         lifecycle |-> "NEW", cert |-> "PENDING", version |-> 1]),
           lastSrc' = s, UNCHANGED <<versions, certs, geography, evidence>>
    PROVE  Stored' /\ Grows /\ ScopesStay /\ src[s] = Null /\ src'[s] # Null /\ src'[s].scope = NoScope
  <1> USE DEF geography, evidence
  <1> DEFINE row == [scope |-> NoScope, text |-> text, active |-> TRUE,
                     lifecycle |-> "NEW", cert |-> "PENDING", version |-> 1]
  <1>a. row \in Rows /\ row.scope = NoScope /\ row.cert = "PENDING"
    BY DEF Rows, NoScope, AnyScope, Certs, Members, LIFECYCLE_STATUSES
  <1>b. src' = [src EXCEPT ![s] = row]
    BY DEF SetSource
  <1> HIDE DEF row
  <1>c. row # Null
    BY <1>a, NullAssumption
  <1>d. src \in [Sources -> Rows \cup {Null}] /\ lastSrc \in Nat /\ \A z \in Sources : src[z] # Null => z <= lastSrc
    BY DEF Inv, Stored, Tables
  <1>1. src[s] = Null
    BY <1>d, SourcesAssumption
  <1>2. src' \in [Sources -> Rows \cup {Null}] /\ src'[s] = row /\ \A z \in Sources : z # s => src'[z] = src[z]
    BY <1>a, <1>b, <1>d
  <1>3. \A z \in Sources : src[z] # Null => src'[z] = src[z]
    BY <1>1, <1>2
  <1>4. Tables'
    <2>1. \A z \in Sources : src'[z] # Null => z <= lastSrc'
      BY <1>d, <1>2, SourcesAssumption
    <2>2. lastSrc' \in Nat
      BY SourcesAssumption
    <2>3. QED
      BY <1>2, <2>1, <2>2 DEF Inv, Stored, Tables
  <1>5. \A z \in Sources, d \in Districts : Covers(z, d) => Covers(z, d)'
    BY <1>3 DEF Covers
  <1>6. \A z \in Sources : OnRecord(z)' <=> OnRecord(z)
    BY DEF OnRecord
  <1>7. \A d \in Districts : Backed(d) => Backed(d)'
    BY <1>5, <1>6 DEF Backed
  <1>8. \A z \in Sources : src'[z] # Null /\ src'[z].cert = "CERTIFIED" => OnRecord(z)'
    BY <1>a, <1>2, <1>6 DEF Inv, Stored, Truth
  <1>9. Truth'
    BY <1>7, <1>8 DEF Inv, Stored, Truth
  <1>10. PublishedHasEvidence'
    BY <1>5, <1>6 DEF Inv, Stored, PublishedHasEvidence
  <1>11. Grows /\ ScopesStay
    BY <1>c, <1>3, <1>5 DEF Grows, RowsStay, EvidenceStays, ScopesStay
  <1>12. QED
    BY <1>a, <1>c, <1>1, <1>2, <1>4, <1>9, <1>10, <1>11 DEF Stored

LEMMA InsertSourceStep ==
    ASSUME Inv, NEW h \in Handlers, InsertSource(h)
    PROVE  Inv' /\ Grows
  <1> DEFINE s == lastSrc + 1
  <1>1. PICK b \in Calls : b = call[h] /\ Promise(b)
    BY Own
  <1>2. b.pc = "insert_source" /\ b.text \in Texts
    BY <1>1 DEF InsertSource, At, Promise, Holds
  <1>3. CASE Done(h) /\ UNCHANGED <<src, lastSrc>>
    <2>1. UNCHANGED <<registry, geography, evidence>>
      BY <1>3 DEF InsertSource, registry
    <2>2. QED
      BY <1>3, <2>1, Quiet, DoneStep
  <1>4. CASE ~(Done(h) /\ UNCHANGED <<src, lastSrc>>)
    <2>1. /\ s \in Sources
          /\ SetSource(s, [scope |-> NoScope, text |-> b.text, active |-> TRUE,
                           lifecycle |-> "NEW", cert |-> "PENDING", version |-> 1])
          /\ lastSrc' = s
          /\ UNCHANGED <<versions, certs, geography, evidence>>
          /\ \/ Done(h)
             \/ Become(h, [b EXCEPT !.pc = "set_scope", !.src = s])
      BY <1>1, <1>4 DEF InsertSource
    <2>2. Stored' /\ Grows /\ ScopesStay /\ src[s] = Null /\ src'[s] # Null /\ src'[s].scope = NoScope
      BY <1>2, <2>1, SourceNew
    <2>3. CASE Done(h)
      BY <2>2, <2>3, DoneStep
    <2>4. CASE Become(h, [b EXCEPT !.pc = "set_scope", !.src = s])
      <3> DEFINE c == [b EXCEPT !.pc = "set_scope", !.src = s]
      <3>1. PICK k \in Sources : k = s
        BY <2>1
      <3>a. [b EXCEPT !.pc = "set_scope", !.src = k] \in Calls
        BY DEF Calls
      <3>2. PICK d \in Calls : d = [b EXCEPT !.pc = "set_scope", !.src = k]
        BY <3>a, Zenon
      <3>3. d.pc = "set_scope" /\ d.src = k
        BY <3>2 DEF Calls
      <3>4. Become(h, d)
        BY <2>4, <3>1, <3>2
      <3>5. src[k] = Null /\ src'[k] # Null /\ src'[k].scope = NoScope
        BY <2>2, <3>1
      <3>6. Promise(d)'
        BY <3>3, <3>5 DEF Promise, Refers, Holds, Knows, SourcePcs, CertifyPcs, VisitPcs, PublishPcs, StatePcs,
           DepartmentPcs
      <3> HIDE DEF s, c
      <3>7. ASSUME NEW g \in Handlers, g # h, call'[g].pc = "set_scope"
            PROVE  call'[g] = call[g] /\ call[g].src # k /\ src'[call[g].src].scope = NoScope
        <4>1. call'[g] = call[g]
          BY <3>4, <3>7 DEF Inv, Promises, Become
        <4>2. call[g].src \in Sources /\ src[call[g].src] # Null
          BY <3>7, <4>1, ScopingRefers
        <4>3. src[call[g].src].scope = NoScope
          BY <3>7, <4>1 DEF Inv, Scoping
        <4>4. QED
          BY <2>2, <3>5, <4>1, <4>2, <4>3 DEF ScopesStay
      <3>8. call'[h] = d
        BY <3>4 DEF Inv, Promises, Become
      <3>9. ASSUME NEW f \in Handlers, call'[f].pc = "set_scope"
            PROVE  src'[call'[f].src].scope = NoScope
        BY <3>3, <3>5, <3>7, <3>8, <3>9
      <3>10. ASSUME NEW f \in Handlers, NEW g \in Handlers, g # f, call'[f].pc = "set_scope", call'[g].pc = "set_scope"
             PROVE  call'[g].src # call'[f].src
        <4>1. CASE f = h
          BY <3>3, <3>7, <3>8, <3>10, <4>1
        <4>2. CASE g = h
          BY <3>3, <3>7, <3>8, <3>10, <4>2
        <4>3. CASE f # h /\ g # h
          BY <3>7, <3>10, <4>3 DEF Inv, Scoping
        <4>4. QED
          BY <4>1, <4>2, <4>3
      <3>11. Scoping'
        BY <3>9, <3>10 DEF Scoping
      <3>12. QED
        BY <2>2, <3>4, <3>6, <3>11, Becoming
    <2>5. QED
      BY <2>1, <2>3, <2>4
  <1>5. QED
    BY <1>3, <1>4

LEMMA SetScopeStep ==
    ASSUME Inv, NEW h \in Handlers, SetScope(h)
    PROVE  Inv' /\ Grows
  <1> USE DEF geography, evidence
  <1>1. PICK b \in Calls : b = call[h] /\ Promise(b)
    BY Own
  <1>2. PICK s \in Sources : s = b.src /\ src[s] # Null /\ src[s].scope = NoScope
    BY <1>1 DEF SetScope, At, Promise, Refers, SourcePcs, Inv, Scoping
  <1>3. b.scope \in AnyScope /\ b.pc = "set_scope"
    BY <1>1 DEF Calls, SetScope, At
  <1>4. src[s] \in Rows
    BY <1>2 DEF Inv, Stored, Tables
  <1>5. PICK row \in Rows : row = [src[s] EXCEPT !.scope = b.scope]
    BY <1>3, <1>4 DEF Rows
  <1>6. row # Null /\ row.cert = src[s].cert
    BY <1>4, <1>5, NullAssumption DEF Rows
  <1>7. src' = [src EXCEPT ![s] = row] /\ UNCHANGED <<lastSrc, versions, certs, geography, evidence>>
    BY <1>1, <1>2, <1>5 DEF SetScope, SetSource
  <1>8. src' \in [Sources -> Rows \cup {Null}] /\ src'[s] = row /\ \A z \in Sources : z # s => src'[z] = src[z]
    BY <1>7 DEF Inv, Stored, Tables
  <1>9. \A d \in Districts : ~Covers(s, d)
    <2>1. \A d \in Districts : d # Null /\ StateOf[d] # Null
      BY NullAssumption, GeographyAssumption
    <2>2. src[s].scope.district = Null /\ src[s].scope.state = Null
      BY <1>2 DEF NoScope
    <2>3. QED
      BY <2>1, <2>2 DEF Covers
  <1>10. \A z \in Sources, d \in Districts : Covers(z, d) => Covers(z, d)'
    <2>1. ASSUME NEW z \in Sources, NEW d \in Districts, Covers(z, d) PROVE Covers(z, d)'
      <3>1. z # s
        BY <1>9, <2>1
      <3>2. src'[z] = src[z]
        BY <1>8, <3>1
      <3>3. QED
        BY <2>1, <3>2 DEF Covers
    <2>2. QED
      BY <2>1
  <1>11. \A z \in Sources : OnRecord(z)' <=> OnRecord(z)
    BY <1>7 DEF OnRecord
  <1>12. Tables'
    BY <1>2, <1>7, <1>8 DEF Inv, Stored, Tables
  <1>13. \A z \in Sources : src'[z] # Null /\ src'[z].cert = "CERTIFIED" => OnRecord(z)'
    BY <1>2, <1>6, <1>8, <1>11 DEF Inv, Stored, Truth
  <1>14. \A d \in Districts : Backed(d) => Backed(d)'
    BY <1>10, <1>11 DEF Backed
  <1>15. Truth'
    BY <1>7, <1>13, <1>14 DEF Inv, Stored, Truth
  <1>16. PublishedHasEvidence'
    BY <1>7, <1>10, <1>11 DEF Inv, Stored, PublishedHasEvidence
  <1>17. Grows
    BY <1>6, <1>7, <1>8, <1>10 DEF Grows, RowsStay, EvidenceStays
  <1>a. [b EXCEPT !.pc = "version_read"] \in Calls
    BY DEF Calls
  <1>18. PICK c \in Calls : c = [b EXCEPT !.pc = "version_read"]
    BY <1>a, Zenon
  <1>19. c.pc = "version_read" /\ c.src = s
    BY <1>2, <1>18 DEF Calls
  <1>20. Become(h, c)
    BY <1>1, <1>18 DEF SetScope, Goto
  <1>21. Promise(c)'
    BY <1>6, <1>8, <1>19 DEF Promise, Refers, Holds, Knows, SourcePcs, CertifyPcs, VisitPcs, PublishPcs, StatePcs,
       DepartmentPcs
  <1>22. ASSUME NEW g \in Handlers, call'[g].pc = "set_scope"
         PROVE  call'[g] = call[g] /\ src'[call[g].src].scope = NoScope
    <2>1. g # h
      BY <1>19, <1>20, <1>22 DEF Inv, Promises, Become
    <2>2. call'[g] = call[g]
      BY <1>20, <2>1 DEF Inv, Promises, Become
    <2>3. call[g].src # s /\ src[call[g].src].scope = NoScope
      BY <1>1, <1>2, <1>3, <1>22, <2>1, <2>2 DEF Inv, Scoping
    <2>4. call[g].src \in Sources
      BY <1>22, <2>2, ScopingRefers
    <2>5. QED
      BY <1>8, <2>2, <2>3, <2>4
  <1>23. Scoping'
    BY <1>22 DEF Inv, Scoping
  <1>24. QED
    BY <1>12, <1>15, <1>16, <1>17, <1>20, <1>21, <1>23, Becoming DEF Stored

\* The names the code writes are in the orders it declares.
LEMMA StatusNames ==
    /\ \A x \in {"TESTED", "CERTIFIED", "RETIRED"} : x \in Members(LIFECYCLE_STATUSES)
    /\ \A x \in {"NEW", "CERTIFIED", "PUBLISHED"} : x \in Members(DISTRICT_STATUSES)
    /\ "NEW" \in Members(STATE_STATUSES)
  BY DEF Members, LIFECYCLE_STATUSES, DISTRICT_STATUSES, STATE_STATUSES

LEMMA VersionReadStep ==
    ASSUME Inv, NEW h \in Handlers, VersionRead(h)
    PROVE  Inv' /\ Grows
  <1>1. PICK b \in Calls : b = call[h] /\ Promise(b)
    BY Own
  <1>2. b.pc = "version_read"
    BY <1>1 DEF VersionRead, At
  <1>r. src[b.src] \in Rows /\ b.src \in Sources /\ src[b.src] # Null
    BY <1>1, <1>2 DEF Promise, Refers, SourcePcs, CertifyPcs, Inv, Stored, Tables
  <1>f. PICK text \in Texts, version \in Nat, on \in BOOLEAN, scope \in AnyScope :
          src[b.src].text = text /\ src[b.src].version = version /\ src[b.src].active = on /\ src[b.src].scope = scope
    BY <1>r, Zenon DEF Rows
  <1>3. [b EXCEPT !.pc = "version_insert", !.text = text, !.version = version, !.on = on] \in Calls
    BY ZenonT(60) DEF Calls
  <1>4. PICK c \in Calls : c = [b EXCEPT !.pc = "version_insert", !.text = text, !.version = version, !.on = on]
    BY <1>3, Zenon
  <1>5. Promise(c) /\ c.pc # "set_scope"
    BY <1>1, <1>2, <1>4, <1>r, <1>f DEF Calls, Promise, Refers, Holds, Knows, SourcePcs, CertifyPcs, VisitPcs, PublishPcs, StatePcs,
       DepartmentPcs
  <1>6. Become(h, c) /\ UNCHANGED <<registry, geography, evidence>>
    BY <1>1, <1>f, <1>4 DEF VersionRead, Goto
  <1>7. QED
    BY <1>4, <1>5, <1>6, QuietStep

LEMMA EditReadStep ==
    ASSUME Inv, NEW h \in Handlers, EditRead(h)
    PROVE  Inv' /\ Grows
  <1>1. PICK b \in Calls : b = call[h] /\ Promise(b)
    BY Own
  <1>2. b.pc = "edit_read"
    BY <1>1 DEF EditRead, At
  <1>r. src[b.src] \in Rows /\ b.src \in Sources /\ src[b.src] # Null
    BY <1>1, <1>2 DEF Promise, Refers, SourcePcs, CertifyPcs, Inv, Stored, Tables
  <1>f. PICK text \in Texts, version \in Nat, on \in BOOLEAN, scope \in AnyScope :
          src[b.src].text = text /\ src[b.src].version = version /\ src[b.src].active = on /\ src[b.src].scope = scope
    BY <1>r, Zenon DEF Rows
  <1>n. PICK next \in Nat : next = version + 1
    OBVIOUS
  <1>3. [b EXCEPT !.pc = "edit_write", !.version = next] \in Calls
    BY ZenonT(60) DEF Calls
  <1>4. PICK c \in Calls : c = [b EXCEPT !.pc = "edit_write", !.version = next]
    BY <1>3, Zenon
  <1>5. Promise(c) /\ c.pc # "set_scope"
    BY <1>1, <1>2, <1>4, <1>r, <1>f DEF Calls, Promise, Refers, Holds, Knows, SourcePcs, CertifyPcs, VisitPcs, PublishPcs, StatePcs,
       DepartmentPcs
  <1>6. Become(h, c) /\ UNCHANGED <<registry, geography, evidence>>
    BY <1>1, <1>f, <1>n, <1>4 DEF EditRead, Goto
  <1>7. QED
    BY <1>4, <1>5, <1>6, QuietStep

LEMMA CloneReadStep ==
    ASSUME Inv, NEW h \in Handlers, CloneRead(h)
    PROVE  Inv' /\ Grows
  <1>1. PICK b \in Calls : b = call[h] /\ Promise(b)
    BY Own
  <1>2. b.pc = "clone_read"
    BY <1>1 DEF CloneRead, At
  <1>r. src[b.src] \in Rows /\ b.src \in Sources /\ src[b.src] # Null
    BY <1>1, <1>2 DEF Promise, Refers, SourcePcs, CertifyPcs, Inv, Stored, Tables
  <1>f. PICK text \in Texts, version \in Nat, on \in BOOLEAN, scope \in AnyScope :
          src[b.src].text = text /\ src[b.src].version = version /\ src[b.src].active = on /\ src[b.src].scope = scope
    BY <1>r, Zenon DEF Rows
  <1>3. [b EXCEPT !.pc = "insert_source", !.text = text, !.scope = scope] \in Calls
    BY DEF Calls
  <1>4. PICK c \in Calls : c = [b EXCEPT !.pc = "insert_source", !.text = text, !.scope = scope]
    BY <1>3, Zenon
  <1>5. Promise(c) /\ c.pc # "set_scope"
    BY <1>1, <1>2, <1>4, <1>r, <1>f DEF Calls, Promise, Refers, Holds, Knows, SourcePcs, CertifyPcs, VisitPcs, PublishPcs, StatePcs,
       DepartmentPcs
  <1>6. Become(h, c) /\ UNCHANGED <<registry, geography, evidence>>
    BY <1>1, <1>f, <1>4 DEF CloneRead, Goto
  <1>7. QED
    BY <1>4, <1>5, <1>6, QuietStep

LEMMA VersionInsertStep ==
    ASSUME Inv, NEW h \in Handlers, VersionInsert(h)
    PROVE  Inv' /\ Grows
  <1>1. PICK b \in Calls : b = call[h] /\ Promise(b)
    BY Own
  <1>2. b.pc = "version_insert"
    BY <1>1 DEF VersionInsert, At
  <1>3. b.src \in Sources /\ b.text \in Texts /\ b.version \in Nat /\ b.on \in BOOLEAN
    BY <1>1, <1>2 DEF Calls, Promise, Refers, Holds, SourcePcs
  <1>4. [src |-> b.src, version |-> b.version, text |-> b.text, active |-> b.on] \in VersionRows
    BY <1>3 DEF VersionRows
  <1>5. versions' \subseteq VersionRows
    BY <1>1, <1>4 DEF VersionInsert, Inv, Stored, Tables
  <1>6. Stored' /\ Grows /\ ScopesStay
    BY <1>5, RecordChange DEF VersionInsert, Inv, Stored, Tables
  <1>7. QED
    BY <1>6, DoneStep DEF VersionInsert

LEMMA EditWriteStep ==
    ASSUME Inv, NEW h \in Handlers, EditWrite(h)
    PROVE  Inv' /\ Grows
  <1>1. PICK b \in Calls : b = call[h] /\ Promise(b)
    BY Own
  <1>2. b.pc = "edit_write"
    BY <1>1 DEF EditWrite, At
  <1>r. src[b.src] \in Rows /\ b.src \in Sources /\ src[b.src] # Null
    BY <1>1, <1>2 DEF Promise, Refers, SourcePcs, CertifyPcs, Inv, Stored, Tables
  <1>f. PICK text \in Texts, version \in Nat, on \in BOOLEAN, scope \in AnyScope :
          src[b.src].text = text /\ src[b.src].version = version /\ src[b.src].active = on /\ src[b.src].scope = scope
    BY <1>r, Zenon DEF Rows
  <1>a. [src[b.src] EXCEPT !.text = b.text, !.version = b.version] \in Rows
    BY <1>1, <1>2, <1>r DEF Rows, Calls, Promise, Holds
  <1>3. PICK row \in Rows : row = [src[b.src] EXCEPT !.text = b.text, !.version = b.version]
    BY <1>a, Zenon
  <1>4. row.scope = src[b.src].scope
    BY <1>r, <1>3 DEF Rows
  <1>5. row.cert = "CERTIFIED" => OnRecord(b.src)
    BY <1>r, <1>3 DEF Rows, Inv, Stored, Truth
  <1>6. SetSource(b.src, row) /\ UNCHANGED <<lastSrc, versions, certs, geography, evidence>>
    BY <1>1, <1>3 DEF EditWrite
  <1>7. Stored' /\ Grows /\ ScopesStay
    BY <1>r, <1>4, <1>5, <1>6, SourceChange
  <1>8. [b EXCEPT !.pc = "version_read"] \in Calls
    BY <1>1, <1>2 DEF Calls
  <1>9. PICK c \in Calls : c = [b EXCEPT !.pc = "version_read"]
    BY <1>8, Zenon
  <1>10. Promise(c) /\ c.pc # "set_scope"
    BY <1>1, <1>2, <1>9, <1>r DEF Calls, Promise, Refers, Holds, Knows, SourcePcs, CertifyPcs, VisitPcs, PublishPcs, StatePcs,
       DepartmentPcs
  <1>11. Become(h, c)
    BY <1>1, <1>9 DEF EditWrite, Goto
  <1>12. QED
    BY <1>7, <1>9, <1>10, <1>11, Moves

LEMMA TestWriteStep ==
    ASSUME Inv, NEW h \in Handlers, TestWrite(h)
    PROVE  Inv' /\ Grows
  <1>1. PICK b \in Calls : b = call[h] /\ Promise(b)
    BY Own
  <1>2. b.pc = "test_write"
    BY <1>1 DEF TestWrite, At
  <1>r. src[b.src] \in Rows /\ b.src \in Sources /\ src[b.src] # Null
    BY <1>1, <1>2 DEF Promise, Refers, SourcePcs, CertifyPcs, Inv, Stored, Tables
  <1>f. PICK text \in Texts, version \in Nat, on \in BOOLEAN, scope \in AnyScope :
          src[b.src].text = text /\ src[b.src].version = version /\ src[b.src].active = on /\ src[b.src].scope = scope
    BY <1>r, Zenon DEF Rows
  <1>a. [src[b.src] EXCEPT !.lifecycle = "TESTED"] \in Rows
    BY <1>r, StatusNames DEF Rows
  <1>3. PICK row \in Rows : row = [src[b.src] EXCEPT !.lifecycle = "TESTED"]
    BY <1>a, Zenon
  <1>4. row.scope = src[b.src].scope
    BY <1>r, <1>3 DEF Rows
  <1>5. row.cert = "CERTIFIED" => OnRecord(b.src)
    BY <1>r, <1>3 DEF Rows, Inv, Stored, Truth
  <1>6. SetSource(b.src, row) /\ UNCHANGED <<lastSrc, versions, certs, geography, evidence>>
    BY <1>1, <1>3 DEF TestWrite
  <1>7. Stored' /\ Grows /\ ScopesStay
    BY <1>r, <1>4, <1>5, <1>6, SourceChange
  <1>8. QED
    BY <1>7, DoneStep DEF TestWrite

LEMMA TestReadStep ==
    ASSUME Inv, NEW h \in Handlers, TestRead(h)
    PROVE  Inv' /\ Grows
  <1>1. PICK b \in Calls : b = call[h] /\ Promise(b)
    BY Own
  <1>2. b.pc = "test_read"
    BY <1>1 DEF TestRead, At
  <1>3. UNCHANGED <<registry, geography, evidence>>
    BY DEF TestRead
  <1>4. CASE Goto(h, "test_write")
    <2>1. [b EXCEPT !.pc = "test_write"] \in Calls
      BY <1>1, <1>2 DEF Calls
    <2>2. PICK c \in Calls : c = [b EXCEPT !.pc = "test_write"]
      BY <2>1, Zenon
    <2>3. Promise(c) /\ c.pc # "set_scope"
      BY <1>1, <1>2, <2>2 DEF Calls, Promise, Refers, Holds, Knows, SourcePcs, CertifyPcs, VisitPcs, PublishPcs, StatePcs,
       DepartmentPcs
    <2>4. Become(h, c)
      BY <1>1, <1>4, <2>2 DEF Goto
    <2>5. QED
      BY <1>3, <2>2, <2>3, <2>4, QuietStep
  <1>5. CASE Done(h)
    BY <1>3, <1>5, Quiet, DoneStep
  <1>6. QED
    BY <1>4, <1>5 DEF TestRead

LEMMA RegisteringStep ==
    ASSUME Inv, NEW h \in Handlers, Registering(h)
    PROVE  Inv' /\ Grows
  BY InsertSourceStep, SetScopeStep, VersionReadStep, VersionInsertStep, EditReadStep, EditWriteStep, CloneReadStep,
     TestReadStep, TestWriteStep DEF Registering

-----------------------------------------------------------------------------
(* Certification of a source, and what it refreshes.                       *)

LEMMA CertifyReadStep ==
    ASSUME Inv, NEW h \in Handlers, CertifyRead(h)
    PROVE  Inv' /\ Grows
  <1>1. PICK b \in Calls : b = call[h] /\ Promise(b)
    BY Own
  <1>2. b.pc = "certify_read"
    BY <1>1 DEF CertifyRead, At
  <1>3. PICK k \in Outcomes : Become(h, [b EXCEPT !.pc = "certify_insert", !.want = Verdict(k)])
    BY <1>1 DEF CertifyRead
  <1>4. PICK want \in Results : want = Verdict(k)
    BY DEF Verdict, Results
  <1>5. [b EXCEPT !.pc = "certify_insert", !.want = want] \in Calls
    BY DEF Calls, Certs
  <1>6. PICK c \in Calls : c = [b EXCEPT !.pc = "certify_insert", !.want = want]
    BY <1>5, Zenon
  <1>7. Promise(c) /\ c.pc # "set_scope"
    BY <1>1, <1>2, <1>6 DEF Calls, Promise, Refers, Holds, Knows, SourcePcs, CertifyPcs, VisitPcs, PublishPcs, StatePcs,
       DepartmentPcs, Certs
  <1>8. Become(h, c) /\ UNCHANGED <<registry, geography, evidence>>
    BY <1>3, <1>4, <1>6 DEF CertifyRead
  <1>9. QED
    BY <1>7, <1>8, QuietStep

LEMMA CertifyInsertStep ==
    ASSUME Inv, NEW h \in Handlers, CertifyInsert(h)
    PROVE  Inv' /\ Grows
  <1>1. PICK b \in Calls : b = call[h] /\ Promise(b)
    BY Own
  <1>2. b.pc = "certify_insert"
    BY <1>1 DEF CertifyInsert, At
  <1>3. b.src \in Sources /\ b.want \in Results
    BY <1>1, <1>2 DEF Promise, Refers, Holds, SourcePcs, CertifyPcs
  <1>4. certs' = certs \cup {[src |-> b.src, result |-> b.want]} /\ UNCHANGED <<src, lastSrc, versions, geography, evidence>>
    BY <1>1 DEF CertifyInsert
  <1>5. certs' \subseteq [src : Sources, result : Results] /\ certs \subseteq certs'
    BY <1>3, <1>4 DEF Inv, Stored, Tables
  <1>6. Stored' /\ Grows /\ ScopesStay
    BY <1>4, <1>5, RecordChange DEF Inv, Stored, Tables
  <1>7. [b EXCEPT !.pc = "certify_write"] \in Calls
    BY DEF Calls
  <1>8. PICK c \in Calls : c = [b EXCEPT !.pc = "certify_write"]
    BY <1>7, Zenon
  <1>9. c.pc = "certify_write" /\ c.src = b.src /\ c.srcs = b.srcs /\ c.want = b.want
    BY <1>8 DEF Calls
  <1>10. Refers(c)' /\ Holds(c)'
    <2>1. src[b.src] # Null /\ \A s \in b.srcs : src[s] # Null
      BY <1>1, <1>2 DEF Promise, Refers, SourcePcs, CertifyPcs
    <2>2. QED
      BY <1>3, <1>4, <1>9, <2>1 DEF Refers, Holds, SourcePcs, CertifyPcs, VisitPcs, PublishPcs, StatePcs, DepartmentPcs
  <1>11. Knows(c)'
    BY <1>4, <1>9 DEF Knows, OnRecord
  <1>12. Become(h, c)
    BY <1>1, <1>8 DEF CertifyInsert, Goto
  <1>13. QED
    BY <1>6, <1>9, <1>10, <1>11, <1>12, MovesThen DEF Promise

LEMMA CertifyWriteStep ==
    ASSUME Inv, NEW h \in Handlers, CertifyWrite(h)
    PROVE  Inv' /\ Grows
  <1>1. PICK b \in Calls : b = call[h] /\ Promise(b)
    BY Own
  <1>2. b.pc = "certify_write"
    BY <1>1 DEF CertifyWrite, At
  <1>r. src[b.src] \in Rows /\ b.src \in Sources /\ src[b.src] # Null
    BY <1>1, <1>2 DEF Promise, Refers, SourcePcs, CertifyPcs, Inv, Stored, Tables
  <1>w. b.want \in Results /\ (b.want = "CERTIFIED" => OnRecord(b.src)) /\ \A s \in b.srcs : src[s] # Null
    BY <1>1, <1>2 DEF Promise, Refers, Holds, Knows, CertifyPcs
  <1>a. [src[b.src] EXCEPT !.cert = b.want] \in Rows
    BY <1>r, <1>w DEF Rows, Certs
  <1>3. PICK row \in Rows : row = [src[b.src] EXCEPT !.cert = b.want]
    BY <1>a, Zenon
  <1>4. row.scope = src[b.src].scope /\ row.cert = b.want
    BY <1>r, <1>3 DEF Rows
  <1>5. SetSource(b.src, row) /\ UNCHANGED <<lastSrc, versions, certs, geography, evidence>>
    BY <1>1, <1>3 DEF CertifyWrite
  <1>6. Stored' /\ Grows /\ ScopesStay
    BY <1>r, <1>w, <1>4, <1>5, SourceChange
  <1>7. ASSUME NEW pc \in {"lifecycle_read", "affected_read"}, Goto(h, pc) PROVE Inv' /\ Grows
    <2>1. [b EXCEPT !.pc = pc] \in Calls
      BY DEF Calls
    <2>2. PICK c \in Calls : c = [b EXCEPT !.pc = pc]
      BY <2>1, Zenon
    <2>3. Promise(c) /\ c.pc # "set_scope"
      BY <1>1, <1>2, <2>2 DEF Calls, Promise, Refers, Holds, Knows, SourcePcs, CertifyPcs, VisitPcs, PublishPcs, StatePcs,
       DepartmentPcs
    <2>4. Become(h, c)
      BY <1>1, <1>7, <2>2 DEF Goto
    <2>5. QED
      BY <1>6, <2>3, <2>4, Moves
  <1>8. ASSUME NEW s \in b.srcs, Become(h, [b EXCEPT !.pc = "certify_read", !.src = s, !.want = Null])
        PROVE  Inv' /\ Grows
    <2>1. s \in Sources /\ src[s] # Null
      BY <1>w DEF Calls
    <2>2. [b EXCEPT !.pc = "certify_read", !.src = s, !.want = Null] \in Calls
      BY <2>1 DEF Calls
    <2>3. PICK c \in Calls : c = [b EXCEPT !.pc = "certify_read", !.src = s, !.want = Null]
      BY <2>2, Zenon
    <2>4. Promise(c) /\ c.pc # "set_scope"
      BY <1>w, <1>2, <2>1, <2>3 DEF Calls, Promise, Refers, Holds, Knows, SourcePcs, CertifyPcs, VisitPcs, PublishPcs, StatePcs,
       DepartmentPcs
    <2>5. Become(h, c)
      BY <1>8, <2>3
    <2>6. QED
      BY <1>6, <2>4, <2>5, Moves
  <1>9. CASE b.op = "certify"
    <2>1. Goto(h, "lifecycle_read") \/ Goto(h, "affected_read")
      BY <1>1, <1>9 DEF CertifyWrite
    <2>2. QED
      BY <2>1, <1>7
  <1>10. CASE b.op # "certify"
    <2> DEFINE rest == {s \in b.srcs : s > b.src}
    <2>1. \/ Goto(h, "affected_read")
          \/ rest # {} /\ Become(h, [b EXCEPT !.pc = "certify_read", !.src = Min(rest), !.want = Null])
      BY <1>1, <1>10 DEF CertifyWrite
    <2>2. rest \in SUBSET Nat
      BY SourcesAssumption DEF Calls
    <2>3. rest # {} => Min(rest) \in b.srcs
      BY <2>2, LeastMember
    <2>4. QED
      BY <2>1, <2>3, <1>7, <1>8
  <1>11. QED
    BY <1>9, <1>10

LEMMA LifecycleReadStep ==
    ASSUME Inv, NEW h \in Handlers, LifecycleRead(h)
    PROVE  Inv' /\ Grows
  <1>1. PICK b \in Calls : b = call[h] /\ Promise(b)
    BY Own
  <1>2. b.pc = "lifecycle_read"
    BY <1>1 DEF LifecycleRead, At
  <1>3. UNCHANGED <<registry, geography, evidence>>
    BY DEF LifecycleRead
  <1>4. ASSUME NEW pc \in {"lifecycle_write", "affected_read"}, Goto(h, pc) PROVE Inv' /\ Grows
    <2>1. [b EXCEPT !.pc = pc] \in Calls
      BY DEF Calls
    <2>2. PICK c \in Calls : c = [b EXCEPT !.pc = pc]
      BY <2>1, Zenon
    <2>3. Promise(c) /\ c.pc # "set_scope"
      BY <1>1, <1>2, <2>2 DEF Calls, Promise, Refers, Holds, Knows, SourcePcs, CertifyPcs, VisitPcs, PublishPcs, StatePcs,
       DepartmentPcs
    <2>4. Become(h, c)
      BY <1>1, <1>4, <2>2 DEF Goto
    <2>5. QED
      BY <1>3, <2>3, <2>4, QuietStep
  <1>5. QED
    BY <1>4 DEF LifecycleRead

LEMMA LifecycleWriteStep ==
    ASSUME Inv, NEW h \in Handlers, LifecycleWrite(h)
    PROVE  Inv' /\ Grows
  <1>1. PICK b \in Calls : b = call[h] /\ Promise(b)
    BY Own
  <1>2. b.pc = "lifecycle_write"
    BY <1>1 DEF LifecycleWrite, At
  <1>r. src[b.src] \in Rows /\ b.src \in Sources /\ src[b.src] # Null
    BY <1>1, <1>2 DEF Promise, Refers, SourcePcs, CertifyPcs, Inv, Stored, Tables
  <1>a. [src[b.src] EXCEPT !.lifecycle = "CERTIFIED"] \in Rows
    BY <1>r, StatusNames DEF Rows
  <1>3. PICK row \in Rows : row = [src[b.src] EXCEPT !.lifecycle = "CERTIFIED"]
    BY <1>a, Zenon
  <1>4. row.scope = src[b.src].scope
    BY <1>r, <1>3 DEF Rows
  <1>5. row.cert = "CERTIFIED" => OnRecord(b.src)
    BY <1>r, <1>3 DEF Rows, Inv, Stored, Truth
  <1>6. SetSource(b.src, row) /\ UNCHANGED <<lastSrc, versions, certs, geography, evidence>>
    BY <1>1, <1>3 DEF LifecycleWrite
  <1>7. Stored' /\ Grows /\ ScopesStay
    BY <1>r, <1>4, <1>5, <1>6, SourceChange
  <1>8. [b EXCEPT !.pc = "affected_read"] \in Calls
    BY DEF Calls
  <1>9. PICK c \in Calls : c = [b EXCEPT !.pc = "affected_read"]
    BY <1>8, Zenon
  <1>10. Promise(c) /\ c.pc # "set_scope"
    BY <1>1, <1>2, <1>9 DEF Calls, Promise, Refers, Holds, Knows, SourcePcs, CertifyPcs, VisitPcs, PublishPcs, StatePcs,
       DepartmentPcs
  <1>11. Become(h, c)
    BY <1>1, <1>9 DEF LifecycleWrite, Goto
  <1>12. QED
    BY <1>7, <1>9, <1>10, <1>11, Moves

\* The next district of a call, or its end, after whatever the call did to the tables.
LEMMA VisitStep ==
    ASSUME Inv, Stored', Grows, ScopesStay, NEW h \in Handlers, NEW ds \in SUBSET Districts,
           \A d \in ds : dist[d] # Null, Visit(h, ds)
    PROVE  Inv' /\ Grows
  <1>1. CASE Done(h)
    BY <1>1, DoneStep
  <1>2. ASSUME NEW d \in ds,
               Become(h, [call[h] EXCEPT !.pc = "refresh_read", !.dists = ds, !.dist = d, !.want = Null, !.seen = Null])
        PROVE  Inv' /\ Grows
    <2>1. PICK b \in Calls : b = call[h]
      BY Own
    <2>2. [b EXCEPT !.pc = "refresh_read", !.dists = ds, !.dist = d, !.want = Null, !.seen = Null] \in Calls
      BY DEF Calls
    <2>3. PICK c \in Calls : c = [b EXCEPT !.pc = "refresh_read", !.dists = ds, !.dist = d, !.want = Null, !.seen = Null]
      BY <2>2, Zenon
    <2>4. c.pc = "refresh_read" /\ c.dists = ds /\ c.dist = d
      BY <2>3 DEF Calls
    <2>5. Promise(c)
      BY <2>4 DEF Promise, Refers, Holds, Knows, SourcePcs, CertifyPcs, VisitPcs, PublishPcs, StatePcs,
       DepartmentPcs
    <2>6. Become(h, c)
      BY <1>2, <2>1, <2>3
    <2>7. QED
      BY <2>4, <2>5, <2>6, Moves
  <1>3. QED
    BY <1>1, <1>2 DEF Visit

LEMMA AffectedReadStep ==
    ASSUME Inv, NEW h \in Handlers, AffectedRead(h)
    PROVE  Inv' /\ Grows
  <1> DEFINE ds == UNION {Affected(s) : s \in call[h].srcs}
  <1>1. ds \in SUBSET Districts /\ \A d \in ds : dist[d] # Null
    BY DEF Affected
  <1>2. Visit(h, ds) /\ UNCHANGED <<registry, geography, evidence>>
    BY DEF AffectedRead
  <1> HIDE DEF ds
  <1>3. QED
    BY <1>1, <1>2, Quiet, VisitStep

-----------------------------------------------------------------------------
(* Districts and states.                                                   *)

\* A district reads CERTIFIED only when one of its sources passed.
LEMMA ComputedBacked ==
    ASSUME Inv, NEW d \in Districts, Computed(d) = "CERTIFIED"
    PROVE  Backed(d)
  <1>1. {src[s].cert : s \in Applicable(d)} = {"CERTIFIED"}
    BY DEF Computed
  <1>2. PICK s \in Applicable(d) : src[s].cert = "CERTIFIED"
    BY <1>1
  <1>3. s \in Sources /\ src[s] # Null /\ Covers(s, d)
    BY DEF Applicable, Registered, Covers
  <1>4. OnRecord(s)
    BY <1>2, <1>3 DEF Inv, Stored, Truth
  <1>5. QED
    BY <1>3, <1>4 DEF Backed

LEMMA RefreshReadStep ==
    ASSUME Inv, NEW h \in Handlers, RefreshRead(h)
    PROVE  Inv' /\ Grows
  <1>1. PICK b \in Calls : b = call[h] /\ Promise(b)
    BY Own
  <1>2. b.pc = "refresh_read"
    BY <1>1 DEF RefreshRead, At
  <1>r. b.dist \in Districts /\ dist[b.dist] # Null /\ dist[b.dist] \in DistrictRows
    BY <1>1, <1>2 DEF Promise, Refers, VisitPcs, PublishPcs, Inv, Stored, Tables
  <1>a. PICK want \in Certs : want = Computed(b.dist)
    BY DEF Computed, Certs, Results
  <1>b. want = "CERTIFIED" => Backed(b.dist)
    BY <1>a, <1>r, ComputedBacked
  <1>3. [b EXCEPT !.pc = "refresh_before", !.want = want] \in Calls
    BY DEF Calls
  <1>4. PICK c \in Calls : c = [b EXCEPT !.pc = "refresh_before", !.want = want]
    BY <1>3, Zenon
  <1>5. Promise(c) /\ c.pc # "set_scope"
    BY <1>1, <1>2, <1>4, <1>b DEF Calls, Promise, Refers, Holds, Knows, SourcePcs, CertifyPcs, VisitPcs, PublishPcs, StatePcs,
       DepartmentPcs
  <1>6. Become(h, c) /\ UNCHANGED <<registry, geography, evidence>>
    BY <1>1, <1>a, <1>4 DEF RefreshRead
  <1>7. QED
    BY <1>4, <1>5, <1>6, QuietStep

LEMMA RefreshBeforeStep ==
    ASSUME Inv, NEW h \in Handlers, RefreshBefore(h)
    PROVE  Inv' /\ Grows
  <1>1. PICK b \in Calls : b = call[h] /\ Promise(b)
    BY Own
  <1>2. b.pc = "refresh_before"
    BY <1>1 DEF RefreshBefore, At
  <1>r. b.dist \in Districts /\ dist[b.dist] # Null /\ dist[b.dist] \in DistrictRows
    BY <1>1, <1>2 DEF Promise, Refers, VisitPcs, PublishPcs, Inv, Stored, Tables
  <1>a. PICK seen \in Certs : seen = dist[b.dist].cert
    BY <1>r DEF DistrictRows
  <1>3. [b EXCEPT !.pc = "refresh_write", !.seen = seen] \in Calls
    BY DEF Calls
  <1>4. PICK c \in Calls : c = [b EXCEPT !.pc = "refresh_write", !.seen = seen]
    BY <1>3, Zenon
  <1>5. Promise(c) /\ c.pc # "set_scope"
    BY <1>1, <1>2, <1>4 DEF Calls, Promise, Refers, Holds, Knows, SourcePcs, CertifyPcs, VisitPcs, PublishPcs, StatePcs,
       DepartmentPcs
  <1>6. Become(h, c) /\ UNCHANGED <<registry, geography, evidence>>
    BY <1>1, <1>a, <1>4 DEF RefreshBefore
  <1>7. QED
    BY <1>4, <1>5, <1>6, QuietStep

LEMMA RefreshWriteStep ==
    ASSUME Inv, NEW h \in Handlers, RefreshWrite(h)
    PROVE  Inv' /\ Grows
  <1>1. PICK b \in Calls : b = call[h] /\ Promise(b)
    BY Own
  <1>2. b.pc = "refresh_write"
    BY <1>1 DEF RefreshWrite, At
  <1>r. b.dist \in Districts /\ dist[b.dist] # Null /\ dist[b.dist] \in DistrictRows
    BY <1>1, <1>2 DEF Promise, Refers, VisitPcs, PublishPcs, Inv, Stored, Tables
  <1>v. b.dists \ {b.dist} \in SUBSET Districts /\ \A d \in b.dists \ {b.dist} : dist[d] # Null
    BY <1>1, <1>2 DEF Promise, Refers, VisitPcs, Calls
  <1>w. b.want \in Certs /\ (b.want = "CERTIFIED" => Backed(b.dist))
    BY <1>1, <1>2 DEF Promise, Holds, Knows
  <1>a. [dist[b.dist] EXCEPT !.cert = b.want] \in DistrictRows
    BY <1>r, <1>w DEF DistrictRows
  <1>3. PICK row \in DistrictRows : row = [dist[b.dist] EXCEPT !.cert = b.want]
    BY <1>a, Zenon
  <1>4. row.cert = "CERTIFIED" => Backed(b.dist)
    BY <1>r, <1>w, <1>3 DEF DistrictRows
  <1>5. row.published => Backed(b.dist) /\ SomeApproved
    BY <1>r, <1>3 DEF DistrictRows, Inv, Stored, PublishedHasEvidence, Backed, SomeApproved
  <1>6. SetDistrict(b.dist, row) /\ UNCHANGED <<registry, state, dept, evidence>>
    BY <1>1, <1>3 DEF RefreshWrite
  <1>7. Stored' /\ Grows /\ ScopesStay
    BY <1>r, <1>4, <1>5, <1>6, DistrictChange
  <1>8. CASE b.want = "CERTIFIED" /\ Goto(h, "advance_read")
    <2>1. [b EXCEPT !.pc = "advance_read"] \in Calls
      BY DEF Calls
    <2>2. PICK c \in Calls : c = [b EXCEPT !.pc = "advance_read"]
      BY <2>1, Zenon
    <2>3. Promise(c) /\ c.pc # "set_scope"
      BY <1>1, <1>2, <1>8, <2>2 DEF Calls, Promise, Refers, Holds, Knows, SourcePcs, CertifyPcs, VisitPcs, PublishPcs, StatePcs,
       DepartmentPcs
    <2>4. Become(h, c)
      BY <1>1, <1>8, <2>2 DEF Goto
    <2>5. QED
      BY <1>7, <2>3, <2>4, Moves
  <1>9. CASE Visit(h, b.dists \ {b.dist})
    BY <1>7, <1>9, <1>v, VisitStep
  <1>10. QED
    BY <1>1, <1>8, <1>9 DEF RefreshWrite

LEMMA AdvanceReadStep ==
    ASSUME Inv, NEW h \in Handlers, AdvanceRead(h)
    PROVE  Inv' /\ Grows
  <1>1. PICK b \in Calls : b = call[h] /\ Promise(b)
    BY Own
  <1>2. b.pc = "advance_read"
    BY <1>1 DEF AdvanceRead, At
  <1>v. b.dists \ {b.dist} \in SUBSET Districts /\ \A d \in b.dists \ {b.dist} : dist[d] # Null
    BY <1>1, <1>2 DEF Promise, Refers, VisitPcs, Calls
  <1>3. UNCHANGED <<registry, geography, evidence>>
    BY DEF AdvanceRead
  <1>4. CASE Goto(h, "status_read")
    <2>1. [b EXCEPT !.pc = "status_read"] \in Calls
      BY DEF Calls
    <2>2. PICK c \in Calls : c = [b EXCEPT !.pc = "status_read"]
      BY <2>1, Zenon
    <2>3. c.want \in Members(DISTRICT_STATUSES)
      BY <1>1, <1>2, <2>2, StatusNames DEF Calls, Promise, Holds
    <2>4. Promise(c) /\ c.pc # "set_scope"
      BY <1>1, <1>2, <2>2, <2>3 DEF Calls, Promise, Refers, Holds, Knows, SourcePcs, CertifyPcs, VisitPcs, PublishPcs, StatePcs,
       DepartmentPcs
    <2>5. Become(h, c)
      BY <1>1, <1>4, <2>2 DEF Goto
    <2>6. QED
      BY <1>3, <2>4, <2>5, QuietStep
  <1>5. CASE Visit(h, b.dists \ {b.dist})
    BY <1>3, <1>5, <1>v, Quiet, VisitStep
  <1>6. QED
    BY <1>1, <1>4, <1>5 DEF AdvanceRead

LEMMA StatusReadStep ==
    ASSUME Inv, NEW h \in Handlers, StatusRead(h)
    PROVE  Inv' /\ Grows
  <1>1. PICK b \in Calls : b = call[h] /\ Promise(b)
    BY Own
  <1>2. b.pc = "status_read"
    BY <1>1 DEF StatusRead, At
  <1>3. UNCHANGED <<registry, geography, evidence>>
    BY DEF StatusRead
  <1>4. ASSUME NEW pc \in {"status_write"}, Goto(h, pc) PROVE Inv' /\ Grows
    <2>1. [b EXCEPT !.pc = pc] \in Calls
      BY DEF Calls
    <2>2. PICK c \in Calls : c = [b EXCEPT !.pc = pc]
      BY <2>1, Zenon
    <2>3. Promise(c) /\ c.pc # "set_scope"
      BY <1>1, <1>2, <2>2 DEF Calls, Promise, Refers, Holds, Knows, SourcePcs, CertifyPcs, VisitPcs, PublishPcs, StatePcs,
       DepartmentPcs
    <2>4. Become(h, c)
      BY <1>1, <1>4, <2>2 DEF Goto
    <2>5. QED
      BY <1>3, <2>3, <2>4, QuietStep
  <1>5. CASE Done(h)
    BY <1>3, <1>5, Quiet, DoneStep
  <1>6. QED
    BY <1>1, <1>4, <1>5 DEF StatusRead

LEMMA StatusWriteStep ==
    ASSUME Inv, NEW h \in Handlers, StatusWrite(h)
    PROVE  Inv' /\ Grows
  <1>1. PICK b \in Calls : b = call[h] /\ Promise(b)
    BY Own
  <1>2. b.pc = "status_write"
    BY <1>1 DEF StatusWrite, At
  <1>r. b.dist \in Districts /\ dist[b.dist] # Null /\ dist[b.dist] \in DistrictRows
    BY <1>1, <1>2 DEF Promise, Refers, VisitPcs, PublishPcs, Inv, Stored, Tables
  <1>v. b.dists \ {b.dist} \in SUBSET Districts /\ \A d \in b.dists \ {b.dist} : dist[d] # Null
    BY <1>1, <1>2 DEF Promise, Refers, VisitPcs, Calls
  <1>w. b.want \in Members(DISTRICT_STATUSES)
    BY <1>1, <1>2 DEF Promise, Holds
  <1>a. [dist[b.dist] EXCEPT !.status = b.want] \in DistrictRows
    BY <1>r, <1>w DEF DistrictRows
  <1>3. PICK row \in DistrictRows : row = [dist[b.dist] EXCEPT !.status = b.want]
    BY <1>a, Zenon
  <1>4. row.cert = "CERTIFIED" => Backed(b.dist)
    BY <1>r, <1>3 DEF DistrictRows, Inv, Stored, Truth
  <1>5. row.published => Backed(b.dist) /\ SomeApproved
    BY <1>r, <1>3 DEF DistrictRows, Inv, Stored, PublishedHasEvidence, Backed, SomeApproved
  <1>6. SetDistrict(b.dist, row) /\ UNCHANGED <<registry, state, dept, evidence>>
    BY <1>1, <1>3 DEF StatusWrite
  <1>7. Stored' /\ Grows /\ ScopesStay
    BY <1>r, <1>4, <1>5, <1>6, DistrictChange
  <1>8. QED
    BY <1>1, <1>7, <1>v, VisitStep DEF StatusWrite

LEMMA StateReadStep ==
    ASSUME Inv, NEW h \in Handlers, StateRead(h)
    PROVE  Inv' /\ Grows
  <1>1. PICK b \in Calls : b = call[h] /\ Promise(b)
    BY Own
  <1>2. b.pc = "state_read"
    BY <1>1 DEF StateRead, At
  <1>3. UNCHANGED <<registry, geography, evidence>>
    BY DEF StateRead
  <1>4. ASSUME NEW pc \in {"state_write"}, Goto(h, pc) PROVE Inv' /\ Grows
    <2>1. [b EXCEPT !.pc = pc] \in Calls
      BY DEF Calls
    <2>2. PICK c \in Calls : c = [b EXCEPT !.pc = pc]
      BY <2>1, Zenon
    <2>3. Promise(c) /\ c.pc # "set_scope"
      BY <1>1, <1>2, <2>2 DEF Calls, Promise, Refers, Holds, Knows, SourcePcs, CertifyPcs, VisitPcs, PublishPcs, StatePcs,
       DepartmentPcs
    <2>4. Become(h, c)
      BY <1>1, <1>4, <2>2 DEF Goto
    <2>5. QED
      BY <1>3, <2>3, <2>4, QuietStep
  <1>5. CASE Done(h)
    BY <1>3, <1>5, Quiet, DoneStep
  <1>6. QED
    BY <1>1, <1>4, <1>5 DEF StateRead

LEMMA StateWriteStep ==
    ASSUME Inv, NEW h \in Handlers, StateWrite(h)
    PROVE  Inv' /\ Grows
  <1>1. PICK b \in Calls : b = call[h] /\ Promise(b)
    BY Own
  <1>2. b.pc = "state_write"
    BY <1>1 DEF StateWrite, At
  <1>3. b.state \in States /\ state[b.state] \in StateRows /\ b.want \in Members(STATE_STATUSES)
    BY <1>1, <1>2 DEF Promise, Refers, Holds, StatePcs, Inv, Stored, Tables
  <1>4. [state[b.state] EXCEPT !.status = b.want] \in StateRows
    BY <1>3 DEF StateRows
  <1>5. PICK row \in StateRows : row = [state[b.state] EXCEPT !.status = b.want]
    BY <1>4, Zenon
  <1>6. state' = [state EXCEPT ![b.state] = row] /\ UNCHANGED <<registry, dist, dept, evidence>>
    BY <1>1, <1>3, <1>5 DEF StateWrite, Inv, Stored, Tables
  <1>7. Stored' /\ Grows /\ ScopesStay
    BY <1>3, <1>6, StateChange
  <1>8. QED
    BY <1>7, DoneStep DEF StateWrite

LEMMA CertifyingStep ==
    ASSUME Inv, NEW h \in Handlers, Certifying(h)
    PROVE  Inv' /\ Grows
  BY CertifyReadStep, CertifyInsertStep, CertifyWriteStep, LifecycleReadStep, LifecycleWriteStep, AffectedReadStep,
     RefreshReadStep, RefreshBeforeStep, RefreshWriteStep, AdvanceReadStep DEF Certifying

-----------------------------------------------------------------------------
(* Publication.                                                            *)

LEMMA PublishReadStep ==
    ASSUME Inv, NEW h \in Handlers, PublishRead(h)
    PROVE  Inv' /\ Grows
  <1>1. PICK b \in Calls : b = call[h] /\ Promise(b)
    BY Own
  <1>2. b.pc = "publish_read"
    BY <1>1 DEF PublishRead, At
  <1>3. UNCHANGED <<registry, geography, evidence>>
    BY DEF PublishRead
  <1>4. CASE dist[b.dist].cert = "CERTIFIED" /\ Goto(h, "publish_count")
    <2>1. Backed(b.dist)
      BY <1>1, <1>2, <1>4 DEF Promise, Refers, PublishPcs, Inv, Stored, Truth
    <2>2. [b EXCEPT !.pc = "publish_count"] \in Calls
      BY DEF Calls
    <2>3. PICK c \in Calls : c = [b EXCEPT !.pc = "publish_count"]
      BY <2>2, Zenon
    <2>4. Promise(c) /\ c.pc # "set_scope"
      BY <1>1, <1>2, <2>1, <2>3 DEF Calls, Promise, Refers, Holds, Knows, SourcePcs, CertifyPcs, VisitPcs, PublishPcs, StatePcs,
       DepartmentPcs
    <2>5. Become(h, c)
      BY <1>1, <1>4, <2>3 DEF Goto
    <2>6. QED
      BY <1>3, <2>4, <2>5, QuietStep
  <1>5. CASE Done(h)
    BY <1>3, <1>5, Quiet, DoneStep
  <1>6. QED
    BY <1>1, <1>4, <1>5 DEF PublishRead

LEMMA PublishCountStep ==
    ASSUME Inv, NEW h \in Handlers, PublishCount(h)
    PROVE  Inv' /\ Grows
  <1>1. PICK b \in Calls : b = call[h] /\ Promise(b)
    BY Own
  <1>2. b.pc = "publish_count"
    BY <1>1 DEF PublishCount, At
  <1>3. UNCHANGED <<registry, geography, evidence>>
    BY DEF PublishCount
  <1>4. CASE (\E x \in Buckets : approved[x] = "now") /\ Goto(h, "publish_write")
    <2>1. SomeApproved
      BY <1>4 DEF SomeApproved
    <2>2. [b EXCEPT !.pc = "publish_write"] \in Calls
      BY DEF Calls
    <2>3. PICK c \in Calls : c = [b EXCEPT !.pc = "publish_write"]
      BY <2>2, Zenon
    <2>4. Promise(c) /\ c.pc # "set_scope"
      BY <1>1, <1>2, <2>1, <2>3 DEF Calls, Promise, Refers, Holds, Knows, SourcePcs, CertifyPcs, VisitPcs, PublishPcs, StatePcs,
       DepartmentPcs
    <2>5. Become(h, c)
      BY <1>1, <1>4, <2>3 DEF Goto
    <2>6. QED
      BY <1>3, <2>4, <2>5, QuietStep
  <1>5. CASE Done(h)
    BY <1>3, <1>5, Quiet, DoneStep
  <1>6. QED
    BY <1>1, <1>4, <1>5 DEF PublishCount

LEMMA PublishWriteStep ==
    ASSUME Inv, NEW h \in Handlers, PublishWrite(h)
    PROVE  Inv' /\ Grows
  <1>1. PICK b \in Calls : b = call[h] /\ Promise(b)
    BY Own
  <1>2. b.pc = "publish_write"
    BY <1>1 DEF PublishWrite, At
  <1>r. b.dist \in Districts /\ dist[b.dist] # Null /\ dist[b.dist] \in DistrictRows
    BY <1>1, <1>2 DEF Promise, Refers, VisitPcs, PublishPcs, Inv, Stored, Tables
  <1>w. Backed(b.dist) /\ SomeApproved
    BY <1>1, <1>2 DEF Promise, Knows
  <1>a. [dist[b.dist] EXCEPT !.published = TRUE, !.status = "PUBLISHED"] \in DistrictRows
    BY <1>r, StatusNames DEF DistrictRows
  <1>3. PICK row \in DistrictRows : row = [dist[b.dist] EXCEPT !.published = TRUE, !.status = "PUBLISHED"]
    BY <1>a, Zenon
  <1>4. row.cert = "CERTIFIED" => Backed(b.dist)
    BY <1>w
  <1>5. row.published => Backed(b.dist) /\ SomeApproved
    BY <1>w
  <1>6. SetDistrict(b.dist, row) /\ UNCHANGED <<registry, state, dept, evidence>>
    BY <1>1, <1>3 DEF PublishWrite
  <1>7. Stored' /\ Grows /\ ScopesStay
    BY <1>r, <1>4, <1>5, <1>6, DistrictChange
  <1>8. QED
    BY <1>7, DoneStep DEF PublishWrite

LEMMA CoveredReadStep ==
    ASSUME Inv, NEW h \in Handlers, CoveredRead(h)
    PROVE  Inv' /\ Grows
  <1>1. PICK b \in Calls : b = call[h] /\ Promise(b)
    BY Own
  <1>2. b.pc = "covered_read"
    BY <1>1 DEF CoveredRead, At
  <1>3. UNCHANGED <<registry, geography, evidence>>
    BY DEF CoveredRead
  <1>4. CASE Covered(BucketOf[b.dept]) /\ Goto(h, "approved_read")
    <2>1. SomeFiled(BucketOf[b.dept])
      BY <1>4 DEF Covered, SomeFiled, Registered, Inv, Stored, Truth
    <2>2. [b EXCEPT !.pc = "approved_read"] \in Calls
      BY DEF Calls
    <2>3. PICK c \in Calls : c = [b EXCEPT !.pc = "approved_read"]
      BY <2>2, Zenon
    <2>4. Promise(c) /\ c.pc # "set_scope"
      BY <1>1, <1>2, <2>1, <2>3 DEF Calls, Promise, Refers, Holds, Knows, SourcePcs, CertifyPcs, VisitPcs, PublishPcs, StatePcs,
       DepartmentPcs
    <2>5. Become(h, c)
      BY <1>1, <1>4, <2>3 DEF Goto
    <2>6. QED
      BY <1>3, <2>4, <2>5, QuietStep
  <1>5. CASE Done(h)
    BY <1>3, <1>5, Quiet, DoneStep
  <1>6. QED
    BY <1>1, <1>4, <1>5 DEF CoveredRead

LEMMA ApprovedReadStep ==
    ASSUME Inv, NEW h \in Handlers, ApprovedRead(h)
    PROVE  Inv' /\ Grows
  <1>1. PICK b \in Calls : b = call[h] /\ Promise(b)
    BY Own
  <1>2. b.pc = "approved_read"
    BY <1>1 DEF ApprovedRead, At
  <1>3. UNCHANGED <<registry, geography, evidence>>
    BY DEF ApprovedRead
  <1>4. CASE approved[BucketOf[b.dept]] = "now" /\ Goto(h, "department_write")
    <2>1. approved[BucketOf[b.dept]] # "never"
      BY <1>4
    <2>2. [b EXCEPT !.pc = "department_write"] \in Calls
      BY DEF Calls
    <2>3. PICK c \in Calls : c = [b EXCEPT !.pc = "department_write"]
      BY <2>2, Zenon
    <2>4. Promise(c) /\ c.pc # "set_scope"
      BY <1>1, <1>2, <2>1, <2>3 DEF Calls, Promise, Refers, Holds, Knows, SourcePcs, CertifyPcs, VisitPcs, PublishPcs, StatePcs,
       DepartmentPcs
    <2>5. Become(h, c)
      BY <1>1, <1>4, <2>3 DEF Goto
    <2>6. QED
      BY <1>3, <2>4, <2>5, QuietStep
  <1>5. CASE Done(h)
    BY <1>3, <1>5, Quiet, DoneStep
  <1>6. QED
    BY <1>1, <1>4, <1>5 DEF ApprovedRead

LEMMA DepartmentWriteStep ==
    ASSUME Inv, NEW h \in Handlers, DepartmentWrite(h)
    PROVE  Inv' /\ Grows
  <1>1. PICK b \in Calls : b = call[h] /\ Promise(b)
    BY Own
  <1>2. b.pc = "department_write"
    BY <1>1 DEF DepartmentWrite, At
  <1>3. /\ b.dept \in Departments /\ dept[b.dept] \in DepartmentRows
        /\ BucketOf[b.dept] # Null /\ approved[BucketOf[b.dept]] # "never" /\ SomeFiled(BucketOf[b.dept])
    BY <1>1, <1>2 DEF Promise, Refers, Knows, DepartmentPcs, Inv, Stored, Tables
  <1>4. [dept[b.dept] EXCEPT !.published = TRUE] \in DepartmentRows
    BY <1>3 DEF DepartmentRows
  <1>5. PICK row \in DepartmentRows : row = [dept[b.dept] EXCEPT !.published = TRUE]
    BY <1>4, Zenon
  <1>6. dept' = [dept EXCEPT ![b.dept] = row] /\ UNCHANGED <<registry, state, dist, evidence>>
    BY <1>1, <1>3, <1>5 DEF DepartmentWrite, Inv, Stored, Tables
  <1>7. Stored' /\ Grows /\ ScopesStay
    BY <1>3, <1>6, DepartmentChange
  <1>8. QED
    BY <1>7, DoneStep DEF DepartmentWrite

LEMMA PublishingStep ==
    ASSUME Inv, NEW h \in Handlers, Publishing(h)
    PROVE  Inv' /\ Grows
  BY StatusReadStep, StatusWriteStep, StateReadStep, StateWriteStep, PublishReadStep, PublishCountStep, PublishWriteStep,
     CoveredReadStep, ApprovedReadStep, DepartmentWriteStep DEF Publishing

-----------------------------------------------------------------------------
(* Operations of one statement, and what goes on besides.                  *)

LEMMA RetireStep ==
    ASSUME Inv, NEW h \in Handlers, NEW s \in Registered, Retire(h, s)
    PROVE  Inv' /\ Grows
  <1>1. s \in Sources /\ src[s] # Null /\ src[s] \in Rows
    BY DEF Registered, Inv, Stored, Tables
  <1>2. [src[s] EXCEPT !.lifecycle = "RETIRED", !.active = FALSE] \in Rows
    BY <1>1, StatusNames DEF Rows
  <1>3. PICK row \in Rows : row = [src[s] EXCEPT !.lifecycle = "RETIRED", !.active = FALSE]
    BY <1>2, Zenon
  <1>4. row.scope = src[s].scope /\ (row.cert = "CERTIFIED" => OnRecord(s))
    BY <1>1, <1>3 DEF Rows, Inv, Stored, Truth
  <1>5. SetSource(s, row) /\ UNCHANGED <<lastSrc, versions, certs, geography, evidence, call>>
    BY <1>3 DEF Retire
  <1>6. QED
    BY <1>1, <1>4, <1>5, SourceChange, Stays

LEMMA DisableStep ==
    ASSUME Inv, NEW h \in Handlers, NEW s \in Registered, Disable(h, s)
    PROVE  Inv' /\ Grows
  <1>1. s \in Sources /\ src[s] # Null /\ src[s] \in Rows
    BY DEF Registered, Inv, Stored, Tables
  <1>2. [src[s] EXCEPT !.active = FALSE] \in Rows
    BY <1>1 DEF Rows
  <1>3. PICK row \in Rows : row = [src[s] EXCEPT !.active = FALSE]
    BY <1>2, Zenon
  <1>4. row.scope = src[s].scope /\ (row.cert = "CERTIFIED" => OnRecord(s))
    BY <1>1, <1>3 DEF Rows, Inv, Stored, Truth
  <1>5. SetSource(s, row) /\ UNCHANGED <<lastSrc, versions, certs, geography, evidence, call>>
    BY <1>3 DEF Disable
  <1>6. QED
    BY <1>1, <1>4, <1>5, SourceChange, Stays

LEMMA AddStateStep ==
    ASSUME Inv, NEW h \in Handlers, NEW t \in States, AddState(h, t)
    PROVE  Inv' /\ Grows
  <1>2. [status |-> "NEW", active |-> TRUE] \in StateRows
    BY StatusNames DEF StateRows
  <1>3. PICK row \in StateRows : row = [status |-> "NEW", active |-> TRUE]
    BY <1>2, Zenon
  <1>5. state' = [state EXCEPT ![t] = row] /\ UNCHANGED <<registry, dist, dept, evidence, call>>
    BY <1>3 DEF AddState, Inv, Stored, Tables
  <1>6. QED
    BY <1>5, StateChange, Stays

LEMMA SetStateActiveStep ==
    ASSUME Inv, NEW h \in Handlers, NEW t \in Existing(state), NEW on \in BOOLEAN, SetStateActive(h, t, on)
    PROVE  Inv' /\ Grows
  <1>1. t \in States /\ state[t] \in StateRows
    BY DEF Existing, Inv, Stored, Tables
  <1>2. [state[t] EXCEPT !.active = on] \in StateRows
    BY <1>1 DEF StateRows
  <1>3. PICK row \in StateRows : row = [state[t] EXCEPT !.active = on]
    BY <1>2, Zenon
  <1>5. state' = [state EXCEPT ![t] = row] /\ UNCHANGED <<registry, dist, dept, evidence, call>>
    BY <1>1, <1>3 DEF SetStateActive, Inv, Stored, Tables
  <1>6. QED
    BY <1>1, <1>5, StateChange, Stays

LEMMA AddDistrictStep ==
    ASSUME Inv, NEW h \in Handlers, NEW d \in Districts, AddDistrict(h, d)
    PROVE  Inv' /\ Grows
  <1>2. [status |-> "NEW", cert |-> "PENDING", published |-> FALSE] \in DistrictRows
    BY StatusNames DEF DistrictRows, Certs
  <1>3. PICK row \in DistrictRows : row = [status |-> "NEW", cert |-> "PENDING", published |-> FALSE]
    BY <1>2, Zenon
  <1>4. row.cert # "CERTIFIED" /\ ~row.published
    BY <1>3 DEF DistrictRows
  <1>5. SetDistrict(d, row) /\ UNCHANGED <<registry, state, dept, evidence, call>>
    BY <1>3 DEF AddDistrict, Inv, Stored, Tables
  <1>6. QED
    BY <1>4, <1>5, DistrictChange, Stays

LEMMA UnpublishStep ==
    ASSUME Inv, NEW h \in Handlers, NEW d \in Existing(dist), Unpublish(h, d)
    PROVE  Inv' /\ Grows
  <1>1. d \in Districts /\ dist[d] # Null /\ dist[d] \in DistrictRows
    BY DEF Existing, Inv, Stored, Tables
  <1>2. [dist[d] EXCEPT !.published = FALSE, !.status = "CERTIFIED"] \in DistrictRows
    BY <1>1, StatusNames DEF DistrictRows
  <1>3. PICK row \in DistrictRows : row = [dist[d] EXCEPT !.published = FALSE, !.status = "CERTIFIED"]
    BY <1>2, Zenon
  <1>4. (row.cert = "CERTIFIED" => Backed(d)) /\ ~row.published
    BY <1>1, <1>3 DEF DistrictRows, Inv, Stored, Truth
  <1>5. SetDistrict(d, row) /\ UNCHANGED <<registry, state, dept, evidence, call>>
    BY <1>1, <1>3 DEF Unpublish, Inv, Stored, Tables
  <1>6. QED
    BY <1>1, <1>4, <1>5, DistrictChange, Stays

LEMMA AddDepartmentStep ==
    ASSUME Inv, NEW h \in Handlers, NEW p \in Departments, AddDepartment(h, p)
    PROVE  Inv' /\ Grows
  <1>2. [active |-> TRUE, published |-> FALSE] \in DepartmentRows
    BY DEF DepartmentRows
  <1>3. PICK row \in DepartmentRows : row = [active |-> TRUE, published |-> FALSE]
    BY <1>2, Zenon
  <1>4. ~row.published
    BY <1>3 DEF DepartmentRows
  <1>5. dept' = [dept EXCEPT ![p] = row] /\ UNCHANGED <<registry, state, dist, evidence, call>>
    BY <1>3 DEF AddDepartment, Inv, Stored, Tables
  <1>6. QED
    BY <1>4, <1>5, DepartmentChange, Stays

LEMMA UnpublishDepartmentStep ==
    ASSUME Inv, NEW h \in Handlers, NEW p \in Existing(dept), UnpublishDepartment(h, p)
    PROVE  Inv' /\ Grows
  <1>1. p \in Departments /\ dept[p] # Null /\ dept[p] \in DepartmentRows
    BY DEF Existing, Inv, Stored, Tables
  <1>2. [dept[p] EXCEPT !.published = FALSE] \in DepartmentRows
    BY <1>1 DEF DepartmentRows
  <1>3. PICK row \in DepartmentRows : row = [dept[p] EXCEPT !.published = FALSE]
    BY <1>2, Zenon
  <1>4. ~row.published
    BY <1>1, <1>3 DEF DepartmentRows
  <1>5. dept' = [dept EXCEPT ![p] = row] /\ UNCHANGED <<registry, state, dist, evidence, call>>
    BY <1>1, <1>3 DEF UnpublishDepartment, Inv, Stored, Tables
  <1>6. QED
    BY <1>1, <1>4, <1>5, DepartmentChange, Stays

LEMMA SetDepartmentActiveStep ==
    ASSUME Inv, NEW h \in Handlers, NEW p \in Existing(dept), NEW on \in BOOLEAN, SetDepartmentActive(h, p, on)
    PROVE  Inv' /\ Grows
  <1>1. p \in Departments /\ dept[p] # Null /\ dept[p] \in DepartmentRows
    BY DEF Existing, Inv, Stored, Tables
  <1>2. [dept[p] EXCEPT !.active = on] \in DepartmentRows
    BY <1>1 DEF DepartmentRows
  <1>3. PICK row \in DepartmentRows : row = [dept[p] EXCEPT !.active = on]
    BY <1>2, Zenon
  <1>4. row.published =>
          BucketOf[p] # Null /\ approved[BucketOf[p]] # "never" /\ SomeFiled(BucketOf[p])
    BY <1>1, <1>3 DEF DepartmentRows, Inv, Stored, PublishedHasEvidence, SomeFiled
  <1>5. dept' = [dept EXCEPT ![p] = row] /\ UNCHANGED <<registry, state, dist, evidence, call>>
    BY <1>1, <1>3 DEF SetDepartmentActive, Inv, Stored, Tables
  <1>6. QED
    BY <1>1, <1>4, <1>5, DepartmentChange, Stays

LEMMA StatementsStep ==
    ASSUME Inv, NEW h \in Handlers, NEW routes, Statements(h, routes)
    PROVE  Inv' /\ Grows
  BY RetireStep, DisableStep, AddStateStep, SetStateActiveStep, AddDistrictStep, UnpublishStep, AddDepartmentStep,
     UnpublishDepartmentStep, SetDepartmentActiveStep DEF Statements

LEMMA FileStep ==
    ASSUME Inv, NEW s \in Registered, NEW b \in Buckets, File(s, b)
    PROVE  Inv' /\ Grows
  <1>1. s \in Sources /\ filed \in [Sources \X Buckets -> Times] /\ <<s, b>> \in Sources \X Buckets
    BY DEF Registered, Inv, Stored, Tables
  <1>2. PICK v \in {"now", "before"} : filed' = [filed EXCEPT ![<<s, b>>] = v]
    <2>1. CASE filed[<<s, b>>] = "now"
      BY <1>1, <2>1 DEF File
    <2>2. CASE filed[<<s, b>>] # "now"
      BY <1>1, <2>2 DEF File
    <2>3. QED
      BY <2>1, <2>2
  <1>3. filed' \in [Sources \X Buckets -> Times]
    BY <1>1, <1>2 DEF Times
  <1>4. \A x \in Sources \X Buckets : filed[x] # "never" => filed'[x] # "never"
    BY <1>1, <1>2
  <1>5. \A z \in Sources, y \in Buckets : filed[<<z, y>>] # "never" => filed'[<<z, y>>] # "never"
    BY <1>4
  <1>6. UNCHANGED <<registry, geography, approved, call>>
    BY DEF File
  <1>7. Stored' /\ Grows /\ ScopesStay
    BY <1>3, <1>5, <1>6, EvidenceChange DEF Inv, Stored, Tables
  <1>8. QED
    BY <1>6, <1>7, Stays

LEMMA ApproveStep ==
    ASSUME Inv, NEW b \in Buckets, Approve(b)
    PROVE  Inv' /\ Grows
  <1>1. approved \in [Buckets -> Times]
    BY DEF Inv, Stored, Tables
  <1>2. PICK v \in {"now", "before"} : approved' = [approved EXCEPT ![b] = v]
    <2>1. CASE approved[b] = "now"
      BY <1>1, <2>1 DEF Approve
    <2>2. CASE approved[b] # "now"
      BY <1>1, <2>2 DEF Approve
    <2>3. QED
      BY <2>1, <2>2
  <1>3. approved' \in [Buckets -> Times] /\ \A x \in Buckets : approved[x] # "never" => approved'[x] # "never"
    BY <1>1, <1>2 DEF Times
  <1>4. UNCHANGED <<registry, geography, filed, call>>
    BY DEF Approve
  <1>5. Stored' /\ Grows /\ ScopesStay
    BY <1>3, <1>4, EvidenceChange DEF Inv, Stored, Tables
  <1>6. QED
    BY <1>4, <1>5, Stays

LEMMA CrashStep ==
    ASSUME Inv, Crash
    PROVE  Inv' /\ Grows
  <1>1. Stored' /\ Grows
    BY Quiet DEF Crash
  <1>2. PICK c \in Calls : c = Idle /\ Promise(c) /\ c.pc # "set_scope"
    BY IdleFine, Zenon
  <1>3. call' = [h \in Handlers |-> c]
    BY <1>2 DEF Crash
  <1>4. Promise(c)'
    BY <1>1, <1>2, Stable
  <1>5. \A h \in Handlers : Promise(call[h])'
    BY <1>3, <1>4 DEF Promise, Refers, Holds, Knows
  <1>6. Promises' /\ Scoping'
    BY <1>2, <1>3, <1>5 DEF Promises, Scoping
  <1>7. QED
    BY <1>1, <1>6 DEF Inv

LEMMA InitInv == Init => Inv
  <1> SUFFICES ASSUME Init PROVE Inv
    OBVIOUS
  <1>1. Tables
    BY DEF Init, Tables, Times
  <1>2. Truth /\ PublishedHasEvidence
    BY DEF Init, Truth, PublishedHasEvidence
  <1>3. PICK c \in Calls : c = Idle /\ Promise(c) /\ c.pc # "set_scope"
    BY IdleFine, Zenon
  <1>4. call = [h \in Handlers |-> c]
    BY <1>3 DEF Init
  <1>5. Promises /\ Scoping
    BY <1>3, <1>4 DEF Promises, Scoping
  <1>6. QED
    BY <1>1, <1>2, <1>5 DEF Inv, Stored

\* Whatever operations the system takes, and whether it may stop.
LEMMA StepInv ==
    ASSUME Inv, NEW routes, NEW crashes, Step(routes, crashes)
    PROVE  Inv' /\ Grows
  <1>1. ASSUME NEW h \in Handlers, Arrivals(h) PROVE Inv' /\ Grows
    BY <1>1, ArrivalStep
  <1>2. ASSUME NEW h \in Handlers, Statements(h, routes) PROVE Inv' /\ Grows
    BY <1>2, StatementsStep
  <1>3. ASSUME NEW h \in Handlers, Registering(h) \/ Certifying(h) \/ Publishing(h) PROVE Inv' /\ Grows
    BY <1>3, RegisteringStep, CertifyingStep, PublishingStep
  <1>4. ASSUME NEW s \in Registered, NEW b \in Buckets, File(s, b) PROVE Inv' /\ Grows
    BY <1>4, FileStep
  <1>5. ASSUME NEW b \in Buckets, Approve(b) PROVE Inv' /\ Grows
    BY <1>5, ApproveStep
  <1>6. QED
    BY <1>1, <1>2, <1>3, <1>4, <1>5, CrashStep DEF Step

LEMMA StutterInv ==
    ASSUME Inv, UNCHANGED vars
    PROVE  Inv' /\ Grows
  <1>1. UNCHANGED <<registry, geography, evidence>> /\ UNCHANGED call
    BY DEF vars, registry, geography, evidence
  <1>2. QED
    BY <1>1, Quiet, Stays

THEOREM Invariance == Spec => []Inv
  <1>1. Inv /\ [Next]_vars => Inv'
    BY StepInv, StutterInv DEF Next
  <1>2. QED
    BY <1>1, InitInv, PTL DEF Spec

\* The tables and the calls of Publication always hold what their columns allow.
THEOREM PublicationTypeCorrect == Spec => []TypeOK
  <1>1. Inv => TypeOK
    BY DEF Inv, Stored, Tables, Promises, TypeOK
  <1>2. QED
    BY <1>1, Invariance, PTL

\* Whatever the number of people who certify, refresh, register, approve and publish at the same
\* time, and whenever the server stops: what is published has a source that passed a certification
\* on record and records that were approved (operations/publication.py).
THEOREM PublishedEvidence == Spec => []PublishedHasEvidence
  <1>1. Inv => PublishedHasEvidence
    BY DEF Inv, Stored
  <1>2. QED
    BY <1>1, Invariance, PTL

-----------------------------------------------------------------------------
(* The history variables look on: PublicationHistory takes the steps of Publication, so what is proved above holds   *)
(* of it too.                                                                                                         *)

LEMMA HistoryIsStep ==
    ASSUME HistoryNext
    PROVE  Next
  <1>1. CASE Step(Routes, FALSE)
    BY <1>1 DEF Step, Next
  <1>2. CASE Crashes /\ Crash
    BY <1>2 DEF Step, Next
  <1>3. QED
    BY <1>1, <1>2 DEF HistoryNext, HistoryStep

THEOREM HistoryImplements == HistorySpec => Spec
  <1>1. [HistoryNext]_historyVars => [Next]_vars
    BY HistoryIsStep DEF historyVars
  <1>2. HistoryInit => Init
    BY DEF HistoryInit
  <1>3. QED
    BY <1>1, <1>2, PTL DEF HistorySpec, Spec

-----------------------------------------------------------------------------
(* The certification of a district.  One that reads CERTIFIED over a source that failed is on the list of the call   *)
(* that let the source fail, until the call has refreshed it (Settled). No other call has it to refresh (Undivided),  *)
(* so what that call has computed stays true until it is written (Attentive). All of this of the districts that are  *)
(* not shaken; for one that is, it begins anew with the refresh that heals it.                                        *)

OwingPcs     == CertifyPcs \cup {"lifecycle_read", "lifecycle_write", "affected_read"} \cup VisitPcs
AttentivePcs == CertifyPcs \cup VisitPcs

\* The source speaks against the district.
Bad(s, d) == Covers(s, d) /\ src[s].active /\ src[s].cert \in Failed

Reads(d) == dist[d] # Null /\ dist[d].cert = "CERTIFIED"
Wrong(d) == Reads(d) /\ \E s \in Sources : Bad(s, d)

Settled   == \A d \in Districts \ shaken : Wrong(d) => \E h \in Handlers : Owes(call[h], d)
Undivided == \A d \in Districts \ shaken : ~ Crossed(d)

\* What a call has read, and what it goes by.
Attentive(c) ==
    /\ c.pc \in CertifyPcs => c.src \in c.srcs
    /\ c.pc \in VisitPcs => c.dist \in c.dists
    /\ c.pc \in {"refresh_before", "refresh_write"} /\ c.want = "CERTIFIED" /\ c.dist \notin shaken =>
          \A s \in Sources : ~ Bad(s, c.dist)

CalmInv == Inv /\ Settled /\ Undivided /\ \A h \in Handlers : Attentive(call[h])

Shakes == shaken' = {d \in Districts : \/ d \in shaken /\ ~ Reread(d)
                                       \/ Crossed(d)' \/ GivenUp(d) \/ JoinedLate(d)}

\* A step of Publication that the history follows.
Turning == CalmInv /\ Inv' /\ Grows /\ Shakes

\* Nothing gets worse.
Mild ==
    /\ \A s \in Sources, d \in Districts : Bad(s, d)' => Bad(s, d)
    /\ \A d \in Districts : Reads(d)' => Reads(d)

\* What a call has to refresh it goes on having, until it works it off itself.
LEMMA StillOwed ==
    ASSUME Grows, NEW c \in Calls, NEW d \in Districts, Owes(c, d)
    PROVE  Owes(c, d)'
  <1>1. dist'[d] # Null /\ \A s \in c.srcs : Covers(s, d) => Covers(s, d)'
    BY DEF Grows, RowsStay, EvidenceStays, Owes, Calls
  <1>2. QED
    BY <1>1 DEF Owes

LEMMA OneMoves ==
    ASSUME Inv, NEW h \in Handlers, NEW c, Become(h, c)
    PROVE  call'[h] = c /\ \A g \in Handlers : g # h => call'[g] = call[g]
  BY DEF Inv, Promises, Become

\* One call goes on. What it owed before it owes afterwards, or the district is in order; a source that now speaks
\* against a district did so before, or the call has the district to refresh.
LEMMA Turn ==
    ASSUME Turning, NEW h \in Handlers, NEW c, Become(h, c), Attentive(c)',
           \A d \in Districts : Reread(d) => Owes(c, d)',
           \A d \in Districts \ shaken' : Wrong(d)' => Reads(d) \/ Owes(c, d)',
           \A d \in Districts \ shaken' : Wrong(d)' /\ Owes(call[h], d) => Owes(c, d)',
           \A d \in Districts \ shaken', s \in Sources : dist'[d] # Null /\ Bad(s, d)' => Bad(s, d) \/ Owes(c, d)'
    PROVE  CalmInv'
  <1>0. Inv
    BY DEF Turning, CalmInv
  <1>1. call'[h] = c /\ \A g \in Handlers : g # h => call'[g] = call[g]
    BY <1>0, OneMoves
  <1>2. ASSUME NEW d \in Districts \ shaken'
        PROVE  ~ Crossed(d)' /\ (d \in shaken => Owes(c, d)')
    BY DEF Turning, Shakes
  <1>3. ASSUME NEW g \in Handlers, g # h, NEW d \in Districts, Owes(call[g], d)
        PROVE  Owes(call[g], d)'
    <2>1. PICK b \in Calls : b = call[g] /\ call'[g] = b
      BY <1>0, <1>1, <1>3 DEF Inv, Promises
    <2>2. Owes(b, d)'
      BY <1>3, <2>1, StillOwed DEF Turning
    <2>3. QED
      BY <2>1, <2>2 DEF Owes
  <1>4. ASSUME NEW d \in Districts, Owes(c, d)'
        PROVE  Owes(call[h], d)'
    BY <1>1, <1>4 DEF Owes
  <1>5. ASSUME NEW d \in Districts \ shaken', Wrong(d)'
        PROVE  \E g \in Handlers : Owes(call[g], d)'
    <2>1. CASE Owes(c, d)'
      BY <1>4, <2>1
    <2>2. CASE ~ Owes(c, d)'
      <3>1. d \notin shaken /\ Reads(d) /\ ~ Owes(call[h], d)
        BY <1>2, <1>5, <2>2
      <3>2. PICK s \in Sources : Bad(s, d)'
        BY <1>5 DEF Wrong
      <3>3. dist'[d] # Null
        BY <1>5 DEF Wrong, Reads
      <3>4. Bad(s, d)
        BY <2>2, <3>2, <3>3
      <3>5. PICK g \in Handlers : Owes(call[g], d)
        BY <3>1, <3>4 DEF Turning, CalmInv, Settled, Wrong
      <3>6. QED
        BY <1>3, <3>1, <3>5
    <2>3. QED
      BY <2>1, <2>2
  <1>6. ASSUME NEW g \in Handlers
        PROVE  Attentive(call[g])'
    <2>1. CASE g = h
      BY <1>1, <2>1 DEF Attentive
    <2>2. CASE g # h
      <3>1. PICK b \in Calls : b = call[g] /\ call'[g] = b /\ Promise(b) /\ Attentive(b)
        BY <1>0, <1>1, <2>2, Own DEF Turning, CalmInv
      <3>2. ASSUME b.pc \in {"refresh_before", "refresh_write"}, b.want = "CERTIFIED", b.dist \notin shaken',
                   NEW s \in Sources, Bad(s, b.dist)'
            PROVE  FALSE
        <4>1. PICK d \in Districts : d = b.dist /\ dist[d] # Null /\ d \in b.dists
          BY <3>1, <3>2 DEF Promise, Refers, Attentive, VisitPcs
        <4>2. Owes(b, d)
          BY <3>2, <4>1 DEF Owes
        <4>3. Owes(call[g], d)' /\ dist'[d] # Null
          BY <1>3, <2>2, <3>1, <4>2 DEF Owes
        <4>4. ~ Owes(c, d)'
          <5>1. ~ Crossed(d)'
            BY <1>2, <3>2, <4>1
          <5>2. QED
            BY <1>4, <2>2, <4>3, <5>1 DEF Crossed
        <4>5. d \notin shaken /\ Bad(s, d)
          BY <1>2, <3>2, <4>1, <4>3, <4>4
        <4>6. QED
          BY <3>1, <3>2, <4>1, <4>5 DEF Attentive
      <3>3. Attentive(b)'
        BY <3>1, <3>2 DEF Attentive
      <3>4. QED
        BY <3>1, <3>3 DEF Attentive
    <2>3. QED
      BY <2>1, <2>2
  <1>7. Settled' /\ Undivided'
    BY <1>2, <1>5 DEF Settled, Undivided
  <1>8. QED
    BY <1>6, <1>7 DEF CalmInv, Turning

\* Only the call that begins a refresh rereads.
LEMMA NoReread ==
    ASSUME Inv, NEW h \in Handlers, NEW c, Become(h, c), ~ (call[h].pc = "refresh_read" /\ c.pc = "refresh_before")
    PROVE  \A d \in Districts : ~ Reread(d)
  <1>1. call'[h] = c /\ \A g \in Handlers : g # h => call'[g] = call[g]
    BY OneMoves
  <1>2. QED
    BY <1>1 DEF Reread, At

\* A call that owes nothing.
LEMMA Aside ==
    ASSUME Turning, NEW h \in Handlers, NEW c, Become(h, c), call[h].pc \notin OwingPcs, Attentive(c)', Mild
    PROVE  CalmInv'
  <1>1. \A d \in Districts : ~ Reread(d)
    BY NoReread DEF Turning, CalmInv, OwingPcs, VisitPcs
  <1>2. \A d \in Districts : ~ Owes(call[h], d)
    BY DEF Owes, OwingPcs, CertifyPcs, VisitPcs
  <1>3. \A d \in Districts : Wrong(d)' => Reads(d)
    BY DEF Wrong, Mild
  <1>4. \A d \in Districts, s \in Sources : Bad(s, d)' => Bad(s, d)
    BY DEF Mild
  <1>5. QED
    BY <1>1, <1>2, <1>3, <1>4, Turn

\* A statement of its own, or what goes on besides.
LEMMA Unmoved ==
    ASSUME Turning, UNCHANGED call, Mild
    PROVE  CalmInv'
  <1>1. \A d \in Districts \ shaken' : d \notin shaken /\ ~ Crossed(d)'
    BY DEF Turning, Shakes, Reread, At
  <1>2. ASSUME NEW d \in Districts \ shaken', Wrong(d)'
        PROVE  \E g \in Handlers : Owes(call[g], d)'
    <2>1. Wrong(d)
      BY <1>2 DEF Wrong, Mild
    <2>2. PICK g \in Handlers : Owes(call[g], d)
      BY <1>1, <2>1 DEF Turning, CalmInv, Settled
    <2>3. PICK b \in Calls : b = call[g] /\ call'[g] = b
      BY DEF Turning, CalmInv, Inv, Promises
    <2>4. Owes(b, d)'
      BY <2>2, <2>3, StillOwed DEF Turning
    <2>5. QED
      BY <2>3, <2>4 DEF Owes
  <1>3. ASSUME NEW g \in Handlers
        PROVE  Attentive(call[g])'
    <2>1. PICK b \in Calls : b = call[g] /\ call'[g] = b /\ Promise(b) /\ Attentive(b)
      BY Own DEF Turning, CalmInv
    <2>2. b.pc \in {"refresh_before", "refresh_write"} => b.dist \in Districts
      BY <2>1 DEF Promise, Refers, VisitPcs
    <2>3. Attentive(b)'
      BY <1>1, <2>1, <2>2 DEF Attentive, Mild
    <2>4. QED
      BY <2>1, <2>3 DEF Attentive
  <1>4. Settled' /\ Undivided'
    BY <1>1, <1>2 DEF Settled, Undivided
  <1>5. QED
    BY <1>3, <1>4 DEF CalmInv, Turning

LEMMA SameMild ==
    ASSUME UNCHANGED <<src, dist>>
    PROVE  Mild
  BY DEF Mild, Bad, Reads, Covers

\* Calls that have nothing to do with certification.
LEMMA NotAttentive ==
    ASSUME NEW c, c.pc \notin AttentivePcs
    PROVE  Attentive(c) /\ Attentive(c)'
  BY DEF Attentive, AttentivePcs, VisitPcs

LEMMA LeavesAlone ==
    ASSUME Turning, NEW h \in Handlers, NEW c, Become(h, c), call[h].pc \notin OwingPcs, c.pc \notin AttentivePcs, Mild
    PROVE  CalmInv'
  BY NotAttentive, Aside

LEMMA SourceMild ==
    ASSUME Inv, NEW s \in Sources, NEW row, src' = [src EXCEPT ![s] = row], UNCHANGED dist,
           \/ row.cert = "PENDING"
           \/ src[s] # Null /\ row.scope = src[s].scope /\ row.cert = src[s].cert /\ (row.active => src[s].active)
    PROVE  Mild
  <1>1. src'[s] = row /\ \A z \in Sources : z # s => src'[z] = src[z]
    BY DEF Inv, Stored, Tables
  <1>2. ASSUME NEW z \in Sources, NEW d \in Districts, Bad(z, d)'
        PROVE  Bad(z, d)
    <2>1. CASE z = s
      BY <1>1, <1>2, <2>1 DEF Bad, Covers, Failed
    <2>2. CASE z # s
      BY <1>1, <1>2, <2>2 DEF Bad, Covers
    <2>3. QED
      BY <2>1, <2>2
  <1>3. QED
    BY <1>2 DEF Mild, Reads

LEMMA DistrictMild ==
    ASSUME Inv, NEW d \in Districts, NEW row, dist' = [dist EXCEPT ![d] = row], UNCHANGED src,
           row.cert # "CERTIFIED" \/ (dist[d] # Null /\ row.cert = dist[d].cert)
    PROVE  Mild
  <1>1. dist'[d] = row /\ \A e \in Districts : e # d => dist'[e] = dist[e]
    BY DEF Inv, Stored, Tables
  <1>2. \A e \in Districts : Reads(e)' => Reads(e)
    BY <1>1 DEF Reads
  <1>3. QED
    BY <1>2 DEF Mild, Bad, Covers

\* Where a call goes on, its other columns stay.
LEMMA Onwards ==
    ASSUME Inv, NEW h \in Handlers, NEW pc, NEW c, c = [call[h] EXCEPT !.pc = pc]
    PROVE  /\ c.pc = pc /\ c.op = call[h].op /\ c.src = call[h].src /\ c.srcs = call[h].srcs /\ c.dist = call[h].dist
           /\ c.dists = call[h].dists /\ c.want = call[h].want
  <1>1. PICK b \in Calls : b = call[h]
    BY Own
  <1>2. QED
    BY <1>1 DEF Calls

LEMMA IdleAtLast == Idle.pc = "idle" /\ "idle" \notin AttentivePcs /\ Attentive(Idle)'
  BY DEF Idle, AttentivePcs, CertifyPcs, VisitPcs, Attentive

\* Calls that read, and those that write neither sources nor districts.
LEMMA ReadersSettle ==
    ASSUME Turning, NEW h \in Handlers,
           \/ VersionRead(h) \/ VersionInsert(h) \/ EditRead(h) \/ CloneRead(h) \/ TestRead(h)
           \/ StateRead(h) \/ StateWrite(h) \/ PublishRead(h) \/ PublishCount(h)
           \/ CoveredRead(h) \/ ApprovedRead(h) \/ DepartmentWrite(h)
    PROVE  CalmInv'
  <1>0. Inv /\ \E b \in Calls : b = call[h]
    BY Own DEF Turning, CalmInv
  <1>1. PICK b \in Calls : b = call[h]
    BY <1>0
  <1>2. ASSUME NEW pc, pc \notin AttentivePcs, Goto(h, pc) \/ Done(h)
        PROVE  \E c : Become(h, c) /\ c.pc \notin AttentivePcs
    <2>1. CASE Goto(h, pc)
      <3>1. PICK c : c = [call[h] EXCEPT !.pc = pc]
        OBVIOUS
      <3>2. c.pc = pc
        BY <1>0, <3>1, Onwards
      <3>3. QED
        BY <1>2, <2>1, <3>1, <3>2 DEF Goto
    <2>2. CASE Done(h)
      BY <2>2, IdleAtLast DEF Done
    <2>3. QED
      BY <1>2, <2>1, <2>2
  <1>3. UNCHANGED <<src, dist>>
    BY DEF VersionRead, VersionInsert, EditRead, CloneRead, TestRead, StateRead, StateWrite, PublishRead, PublishCount,
           CoveredRead, ApprovedRead, DepartmentWrite, registry, geography
  <1>4. call[h].pc \notin OwingPcs
    BY DEF VersionRead, VersionInsert, EditRead, CloneRead, TestRead, StateRead, StateWrite, PublishRead, PublishCount,
           CoveredRead, ApprovedRead, DepartmentWrite, At, OwingPcs, CertifyPcs, VisitPcs
  <1>5. \E c : Become(h, c) /\ c.pc \notin AttentivePcs
    <2>1. CASE VersionRead(h)
      <3>1. PICK c : Become(h, c) /\ c = [b EXCEPT !.pc = "version_insert", !.text = src[b.src].text,
                                               !.version = src[b.src].version, !.on = src[b.src].active]
        BY <1>1, <2>1 DEF VersionRead
      <3>2. c.pc = "version_insert"
        BY <1>1, <3>1 DEF Calls
      <3>3. QED
        BY <3>1, <3>2 DEF AttentivePcs, CertifyPcs, VisitPcs
    <2>2. CASE EditRead(h)
      <3>1. PICK c : Become(h, c) /\ c = [b EXCEPT !.pc = "edit_write", !.version = src[b.src].version + 1]
        BY <1>1, <2>2 DEF EditRead
      <3>2. c.pc = "edit_write"
        BY <1>1, <3>1 DEF Calls
      <3>3. QED
        BY <3>1, <3>2 DEF AttentivePcs, CertifyPcs, VisitPcs
    <2>3. CASE CloneRead(h)
      <3>1. PICK c : Become(h, c) /\ c = [b EXCEPT !.pc = "insert_source", !.text = src[b.src].text, !.scope = src[b.src].scope]
        BY <1>1, <2>3 DEF CloneRead
      <3>2. c.pc = "insert_source"
        BY <1>1, <3>1 DEF Calls
      <3>3. QED
        BY <3>1, <3>2 DEF AttentivePcs, CertifyPcs, VisitPcs
    <2>4. CASE VersionInsert(h) \/ StateWrite(h) \/ DepartmentWrite(h)
      BY <2>4, IdleAtLast DEF VersionInsert, StateWrite, DepartmentWrite, Done
    <2>5. CASE TestRead(h)
      <3>1. Goto(h, "test_write") \/ Done(h)
        BY <2>5 DEF TestRead
      <3>2. "test_write" \notin AttentivePcs
        BY DEF AttentivePcs, CertifyPcs, VisitPcs
      <3>3. QED
        BY <1>2, <3>1, <3>2
    <2>6. CASE StateRead(h) \/ PublishRead(h) \/ PublishCount(h) \/ CoveredRead(h) \/ ApprovedRead(h)
      <3>1. \E pc \in {"state_write", "publish_count", "publish_write", "approved_read", "department_write"} :
                Goto(h, pc) \/ Done(h)
        BY <2>6 DEF StateRead, PublishRead, PublishCount, CoveredRead, ApprovedRead
      <3>2. \A pc \in {"state_write", "publish_count", "publish_write", "approved_read", "department_write"} :
                pc \notin AttentivePcs
        BY DEF AttentivePcs, CertifyPcs, VisitPcs
      <3>3. QED
        BY <1>2, <3>1, <3>2
    <2>7. QED
      BY <2>1, <2>2, <2>3, <2>4, <2>5, <2>6
  <1>6. PICK c : Become(h, c) /\ c.pc \notin AttentivePcs
    BY <1>5
  <1>7. QED
    BY <1>3, <1>4, <1>6, SameMild, LeavesAlone

LEMMA Arrived ==
    ASSUME Turning, NEW h \in Handlers, NEW c, At(h, "idle"), Become(h, c),
           UNCHANGED <<registry, geography, evidence>>, Attentive(c)'
    PROVE  CalmInv'
  <1>1. call[h].pc \notin OwingPcs
    BY DEF At, OwingPcs, CertifyPcs, VisitPcs
  <1>2. UNCHANGED <<src, dist>>
    BY DEF registry, geography
  <1>3. QED
    BY <1>1, <1>2, SameMild, Aside

\* A call that arrives knows nothing yet.
Fresh(c) ==
    \/ c.pc \in {"insert_source", "clone_read", "edit_read", "test_read", "state_read", "publish_read", "covered_read"}
    \/ c.pc = "certify_read" /\ c.src \in c.srcs
    \/ c.pc \in {"refresh_read", "status_read"} /\ c.dist \in c.dists

Arriving(h) ==
    /\ At(h, "idle") /\ UNCHANGED <<registry, geography, evidence>>
    /\ \E c \in Calls : Become(h, c) /\ Fresh(c)

LEMMA ArrivesAs ==
    ASSUME NEW h \in Handlers, NEW op \in Ops, NEW c \in Calls, Arrive(h, op, c), Fresh(c)
    PROVE  Arriving(h)
  <1>1. PICK e : e = [c EXCEPT !.op = op]
    OBVIOUS
  <1>2. e \in Calls /\ e.pc = c.pc /\ e.src = c.src /\ e.srcs = c.srcs /\ e.dists = c.dists /\ e.dist = c.dist
    BY <1>1 DEF Calls
  <1>3. At(h, "idle") /\ Become(h, e) /\ UNCHANGED <<registry, geography, evidence>>
    BY <1>1 DEF Arrive
  <1>4. QED
    BY <1>2, <1>3 DEF Arriving, Fresh

\* Whatever is asked for.
LEMMA Arrival ==
    ASSUME Inv, NEW h \in Handlers, Arrivals(h)
    PROVE  Arriving(h)
  <1>1. ASSUME NEW text \in Texts, Arrive(h, "register", [Idle EXCEPT !.pc = "insert_source", !.text = text]) PROVE Arriving(h)
    <2>1. text \in Texts
      BY <1>1, GeographyAssumption DEF Registered, Existing, Inv, Stored, Tables
    <2>2. PICK c : c = [Idle EXCEPT !.pc = "insert_source", !.text = text]
      OBVIOUS
    <2>3. c \in Calls /\ c.pc = "insert_source"
      BY <2>1, <2>2, IdleFine, ZenonT(60) DEF Calls
    <2>4. Arrive(h, "register", c)
      BY <1>1, <2>2
    <2>5. QED
      BY <2>3, <2>4, ArrivesAs DEF Fresh, Ops
  <1>2. ASSUME NEW text \in Texts, NEW scope \in Scopes,
               Arrive(h, "create", [Idle EXCEPT !.pc = "insert_source", !.text = text, !.scope = scope])
        PROVE  Arriving(h)
    <2>1. text \in Texts /\ scope \in AnyScope
      BY <1>2, GeographyAssumption DEF Registered, Existing, Inv, Stored, Tables
    <2>2. PICK c : c = [Idle EXCEPT !.pc = "insert_source", !.text = text, !.scope = scope]
      OBVIOUS
    <2>3. c \in Calls /\ c.pc = "insert_source"
      BY <2>1, <2>2, IdleFine, ZenonT(60) DEF Calls
    <2>4. Arrive(h, "create", c)
      BY <1>2, <2>2
    <2>5. QED
      BY <2>3, <2>4, ArrivesAs DEF Fresh, Ops
  <1>3. ASSUME NEW s \in Registered, ArriveClone(h, s) PROVE Arriving(h)
    <2>1. s \in Sources
      BY <1>3, GeographyAssumption DEF Registered, Existing, Inv, Stored, Tables
    <2>2. PICK c : c = [Idle EXCEPT !.pc = "clone_read", !.src = s]
      OBVIOUS
    <2>3. c \in Calls /\ c.pc = "clone_read"
      BY <2>1, <2>2, IdleFine, ZenonT(60) DEF Calls
    <2>4. Arrive(h, "clone", c)
      BY <1>3, <2>2 DEF ArriveClone
    <2>5. QED
      BY <2>3, <2>4, ArrivesAs DEF Fresh, Ops
  <1>4. ASSUME NEW s \in Registered, NEW text \in Texts, ArriveEdit(h, s, text) PROVE Arriving(h)
    <2>1. s \in Sources /\ text \in Texts
      BY <1>4, GeographyAssumption DEF Registered, Existing, Inv, Stored, Tables
    <2>2. PICK c : c = [Idle EXCEPT !.pc = "edit_read", !.src = s, !.text = text]
      OBVIOUS
    <2>3. c \in Calls /\ c.pc = "edit_read"
      BY <2>1, <2>2, IdleFine, ZenonT(60) DEF Calls
    <2>4. Arrive(h, "edit", c)
      BY <1>4, <2>2 DEF ArriveEdit
    <2>5. QED
      BY <2>3, <2>4, ArrivesAs DEF Fresh, Ops
  <1>5. ASSUME NEW s \in Registered, ArriveTest(h, s) PROVE Arriving(h)
    <2>1. s \in Sources
      BY <1>5, GeographyAssumption DEF Registered, Existing, Inv, Stored, Tables
    <2>2. PICK c : c = [Idle EXCEPT !.pc = "test_read", !.src = s]
      OBVIOUS
    <2>3. c \in Calls /\ c.pc = "test_read"
      BY <2>1, <2>2, IdleFine, ZenonT(60) DEF Calls
    <2>4. Arrive(h, "test", c)
      BY <1>5, <2>2 DEF ArriveTest
    <2>5. QED
      BY <2>3, <2>4, ArrivesAs DEF Fresh, Ops
  <1>6. ASSUME NEW d \in Existing(dist), ArriveRefresh(h, d) PROVE Arriving(h)
    <2>1. d \in Districts
      BY <1>6, GeographyAssumption DEF Registered, Existing, Inv, Stored, Tables
    <2>2. PICK c : c = [Idle EXCEPT !.pc = "refresh_read", !.dists = {d}, !.dist = d]
      OBVIOUS
    <2>3. c \in Calls /\ c.pc = "refresh_read" /\ c.dist \in c.dists
      <3>1. [Idle EXCEPT !.pc = "refresh_read", !.dists = {d}, !.dist = d] \in Calls
        BY <2>1, IdleFine, ZenonT(60) DEF Calls
      <3>2. QED
        BY <2>2, <3>1 DEF Calls, Idle
    <2>4. Arrive(h, "refresh", c)
      BY <1>6, <2>2 DEF ArriveRefresh
    <2>5. QED
      BY <2>3, <2>4, ArrivesAs DEF Fresh, Ops
  <1>7. ASSUME NEW d \in Existing(dist), ArrivePublish(h, d) PROVE Arriving(h)
    <2>1. d \in Districts
      BY <1>7, GeographyAssumption DEF Registered, Existing, Inv, Stored, Tables
    <2>2. PICK c : c = [Idle EXCEPT !.pc = "publish_read", !.dist = d]
      OBVIOUS
    <2>3. c \in Calls /\ c.pc = "publish_read"
      BY <2>1, <2>2, IdleFine, ZenonT(60) DEF Calls
    <2>4. Arrive(h, "publish", c)
      BY <1>7, <2>2 DEF ArrivePublish
    <2>5. QED
      BY <2>3, <2>4, ArrivesAs DEF Fresh, Ops
  <1>8. ASSUME NEW t \in Existing(state), NEW status \in Members(STATE_STATUSES), ArriveStateStatus(h, t, status) PROVE Arriving(h)
    <2>1. t \in States /\ status \in Members(STATE_STATUSES)
      BY <1>8, GeographyAssumption DEF Registered, Existing, Inv, Stored, Tables
    <2>2. PICK c : c = [Idle EXCEPT !.pc = "state_read", !.state = t, !.want = status]
      OBVIOUS
    <2>3. c \in Calls /\ c.pc = "state_read"
      BY <2>1, <2>2, IdleFine, ZenonT(60) DEF Calls
    <2>4. Arrive(h, "state_status", c)
      BY <1>8, <2>2 DEF ArriveStateStatus
    <2>5. QED
      BY <2>3, <2>4, ArrivesAs DEF Fresh, Ops
  <1>9. ASSUME NEW p \in Existing(dept), ArrivePublishDepartment(h, p) PROVE Arriving(h)
    <2>1. p \in Departments
      BY <1>9, GeographyAssumption DEF Registered, Existing, Inv, Stored, Tables
    <2>2. PICK c : c = [Idle EXCEPT !.pc = "covered_read", !.dept = p]
      OBVIOUS
    <2>3. c \in Calls /\ c.pc = "covered_read"
      BY <2>1, <2>2, IdleFine, ZenonT(60) DEF Calls
    <2>4. Arrive(h, "publish_department", c)
      BY <1>9, <2>2 DEF ArrivePublishDepartment
    <2>5. QED
      BY <2>3, <2>4, ArrivesAs DEF Fresh, Ops
  <1>10. ASSUME NEW d \in Existing(dist), NEW status \in Members(DISTRICT_STATUSES), ArriveDistrictStatus(h, d, status)
         PROVE  Arriving(h)
    <2>1. d \in Districts
      BY DEF Existing, Inv, Stored, Tables
    <2>2. PICK c : c = [Idle EXCEPT !.pc = "status_read", !.dist = d, !.dists = {d}, !.want = status]
      OBVIOUS
    <2>3. c \in Calls /\ c.pc = "status_read" /\ c.dist \in c.dists
      <3>1. status \in Certs \cup Members(STATE_STATUSES) \cup Members(DISTRICT_STATUSES) \cup {Null}
        OBVIOUS
      <3>2. [Idle EXCEPT !.pc = "status_read", !.dist = d, !.dists = {d}, !.want = status] \in Calls
        BY <2>1, <3>1, IdleFine, ZenonT(60) DEF Calls
      <3>3. QED
        BY <2>2, <3>2 DEF Calls, Idle
    <2>4. Arrive(h, "district_status", c)
      BY <1>10, <2>2 DEF ArriveDistrictStatus
    <2>5. QED
      BY <2>3, <2>4, ArrivesAs DEF Fresh, Ops
  <1>11. ASSUME NEW op \in {"certify", "certify_cli"}, NEW ss \in SUBSET Registered, NEW s \in ss,
                Arrive(h, op, [Idle EXCEPT !.pc = "certify_read", !.srcs = ss, !.src = s])
         PROVE  Arriving(h)
    <2>1. ss \subseteq Sources /\ s \in Sources
      BY DEF Registered
    <2>2. PICK c : c = [Idle EXCEPT !.pc = "certify_read", !.srcs = ss, !.src = s]
      OBVIOUS
    <2>3. c \in Calls /\ c.pc = "certify_read" /\ c.src \in c.srcs
      <3>1. [Idle EXCEPT !.pc = "certify_read", !.srcs = ss, !.src = s] \in Calls
        BY <2>1, IdleFine, ZenonT(60) DEF Calls
      <3>2. QED
        BY <2>2, <3>1 DEF Calls, Idle
    <2>4. Arrive(h, op, c)
      BY <1>11, <2>2
    <2>5. QED
      BY <2>3, <2>4, ArrivesAs DEF Fresh, Ops
  <1>12. ASSUME NEW s \in Registered, ArriveCertify(h, s) PROVE Arriving(h)
    <2>1. CASE Arrive(h, "certify", [Idle EXCEPT !.pc = "certify_read", !.srcs = {s}, !.src = s])
      BY <2>1, <1>11
    <2>2. ASSUME NEW ss \in {{s}, {t \in Registered : src[t].active}} \ {{}},
                 Arrive(h, "certify_cli", [Idle EXCEPT !.pc = "certify_read", !.srcs = ss, !.src = Min(ss)])
          PROVE  Arriving(h)
      <3>1. ss \in SUBSET Registered /\ ss # {} /\ ss \in SUBSET Nat
        BY SourcesAssumption DEF Registered
      <3>2. Min(ss) \in ss
        BY <3>1, LeastMember
      <3>3. QED
        BY <2>2, <3>1, <3>2, <1>11
    <2>3. QED
      BY <1>12, <2>1, <2>2 DEF ArriveCertify
  <1>13. QED
    BY <1>1, <1>2, <1>3, <1>4, <1>5, <1>6, <1>7, <1>8, <1>9, <1>10, <1>12 DEF Arrivals, ArriveAdd

LEMMA ArrivalSettles ==
    ASSUME Turning, NEW h \in Handlers, Arrivals(h)
    PROVE  CalmInv'
  <1>1. Arriving(h)
    BY Arrival DEF Turning, CalmInv
  <1>2. PICK c \in Calls : Become(h, c) /\ Fresh(c)
    BY <1>1 DEF Arriving
  <1>3. Attentive(c)'
    BY <1>2 DEF Fresh, Attentive, CertifyPcs, VisitPcs
  <1>4. QED
    BY <1>1, <1>2, <1>3, Arrived DEF Arriving

LEMMA Ends ==
    ASSUME Turning, NEW h \in Handlers, call[h].pc \notin OwingPcs, Done(h), Mild
    PROVE  CalmInv'
  <1>1. Idle.pc \notin AttentivePcs /\ Become(h, Idle)
    BY IdleAtLast DEF Done
  <1>2. QED
    BY <1>1, LeavesAlone

\* A new source waits for its certification.
LEMMA InsertSourceSettles ==
    ASSUME Turning, NEW h \in Handlers, InsertSource(h)
    PROVE  CalmInv'
  <1>0. Inv /\ call[h].pc \notin OwingPcs
    BY DEF Turning, CalmInv, InsertSource, At, OwingPcs, CertifyPcs, VisitPcs
  <1>1. CASE Done(h) /\ UNCHANGED src
    <2>1. UNCHANGED <<src, dist>>
      BY <1>1 DEF InsertSource, geography
    <2>2. QED
      BY <1>0, <1>1, <2>1, SameMild, Ends
  <1>2. CASE ~ (Done(h) /\ UNCHANGED src)
    <2>1. PICK s : s = lastSrc + 1
      OBVIOUS
    <2>2. PICK row : row = [scope |-> NoScope, text |-> call[h].text, active |-> TRUE,
                            lifecycle |-> "NEW", cert |-> "PENDING", version |-> 1]
      OBVIOUS
    <2>3. /\ s \in Sources /\ src' = [src EXCEPT ![s] = row] /\ UNCHANGED dist
          /\ \/ Done(h)
             \/ Become(h, [call[h] EXCEPT !.pc = "set_scope", !.src = s])
      BY <1>2, <2>1, <2>2 DEF InsertSource, SetSource, geography
    <2>4. row.cert = "PENDING"
      BY <2>2
    <2>5. Mild
      BY <1>0, <2>3, <2>4, SourceMild
    <2>6. CASE Become(h, [call[h] EXCEPT !.pc = "set_scope", !.src = s])
      <3>1. PICK b \in Calls : b = call[h]
        BY <1>0, Own
      <3>2. PICK c : c = [b EXCEPT !.pc = "set_scope", !.src = s]
        OBVIOUS
      <3>3. c.pc = "set_scope" /\ c.src = s
        BY <3>2 DEF Calls
      <3>4. Become(h, c)
        BY <2>6, <3>1, <3>2
      <3>5. Attentive(c)'
        BY <3>3 DEF Attentive, CertifyPcs, VisitPcs
      <3>6. QED
        BY <1>0, <2>5, <3>3, <3>4, <3>5, Aside
    <2>7. QED
      BY <1>0, <2>3, <2>5, <2>6, Ends
  <1>3. QED
    BY <1>1, <1>2

LEMMA Continues ==
    ASSUME Turning, NEW h \in Handlers, call[h].pc \notin OwingPcs,
           NEW pc, pc \notin AttentivePcs, Goto(h, pc), Mild
    PROVE  CalmInv'
  <1>1. PICK c : c = [call[h] EXCEPT !.pc = pc]
    OBVIOUS
  <1>2. c.pc = pc /\ Become(h, c)
    BY <1>1, Onwards DEF Turning, CalmInv, Goto
  <1>3. QED
    BY <1>2, LeavesAlone

\* It counts towards its districts with the scope it is given: one for which it fails is shaken (JoinedLate).
LEMMA SetScopeSettles ==
    ASSUME Turning, NEW h \in Handlers, SetScope(h)
    PROVE  CalmInv'
  <1>0. Inv /\ call[h].pc \notin OwingPcs /\ "version_read" \notin AttentivePcs
    BY DEF Turning, CalmInv, SetScope, At, OwingPcs, AttentivePcs, CertifyPcs, VisitPcs
  <1>1. PICK b \in Calls : b = call[h] /\ Promise(b)
    BY <1>0, Own
  <1>2. b.src \in Sources /\ src[b.src] # Null /\ src[b.src] \in Rows
    BY <1>0, <1>1 DEF SetScope, At, Promise, Refers, SourcePcs, Inv, Stored, Tables
  <1>3. PICK row : row = [src[b.src] EXCEPT !.scope = b.scope]
    OBVIOUS
  <1>4. row.cert = src[b.src].cert /\ row.active = src[b.src].active
    BY <1>2, <1>3 DEF Rows
  <1>5. src' = [src EXCEPT ![b.src] = row] /\ UNCHANGED dist
    BY <1>1, <1>3 DEF SetScope, SetSource, geography
  <1>6. src'[b.src] = row /\ \A z \in Sources : z # b.src => src'[z] = src[z]
    BY <1>0, <1>2, <1>5 DEF Inv, Stored, Tables
  <1>7. ASSUME NEW d \in Districts \ shaken', NEW s \in Sources, Bad(s, d)'
        PROVE  Bad(s, d)
    <2>1. CASE s = b.src
      <3>1. ~ JoinedLate(d)
        BY DEF Turning, Shakes
      <3>2. src[s] # Null /\ src[s].active /\ src[s].cert \in Failed /\ Covers(s, d)'
        BY <1>2, <1>4, <1>6, <1>7, <2>1 DEF Bad
      <3>3. QED
        BY <3>1, <3>2 DEF JoinedLate, Registered, Bad
    <2>2. CASE s # b.src
      BY <1>6, <1>7, <2>2 DEF Bad, Covers
    <2>3. QED
      BY <2>1, <2>2
  <1>8. PICK c : Become(h, c) /\ c.pc = "version_read"
    <2>1. PICK c : c = [b EXCEPT !.pc = "version_read"]
      OBVIOUS
    <2>2. c.pc = "version_read" /\ Become(h, c)
      BY <1>1, <2>1 DEF Calls, SetScope, Goto
    <2>3. QED
      BY <2>2
  <1>9. Attentive(c)'
    BY <1>0, <1>8, NotAttentive
  <1>10. \A d \in Districts : ~ Reread(d)
    BY <1>0, <1>8, NoReread
  <1>11. \A d \in Districts : ~ Owes(call[h], d)
    BY <1>0 DEF Owes, OwingPcs, CertifyPcs, VisitPcs
  <1>12. \A d \in Districts : Wrong(d)' => Reads(d)
    BY <1>5 DEF Wrong, Reads
  <1>13. QED
    BY <1>7, <1>8, <1>9, <1>10, <1>11, <1>12, Turn

LEMMA SourceKept ==
    ASSUME Inv, NEW s \in Sources, src[s] # Null, UNCHANGED dist,
           NEW text, NEW version, NEW lifecycle,
           \/ src' = [src EXCEPT ![s] = [src[s] EXCEPT !.text = text, !.version = version]]
           \/ src' = [src EXCEPT ![s] = [src[s] EXCEPT !.lifecycle = lifecycle]]
           \/ src' = [src EXCEPT ![s] = [src[s] EXCEPT !.lifecycle = lifecycle, !.active = FALSE]]
           \/ src' = [src EXCEPT ![s] = [src[s] EXCEPT !.active = FALSE]]
    PROVE  Mild
  <1>1. src[s] \in Rows
    BY DEF Inv, Stored, Tables
  <1>2. PICK row : /\ row \in {[src[s] EXCEPT !.text = text, !.version = version], [src[s] EXCEPT !.lifecycle = lifecycle],
                               [src[s] EXCEPT !.lifecycle = lifecycle, !.active = FALSE], [src[s] EXCEPT !.active = FALSE]}
                   /\ src' = [src EXCEPT ![s] = row]
    OBVIOUS
  <1>3. row.scope = src[s].scope /\ row.cert = src[s].cert /\ (row.active => src[s].active)
    BY <1>1, <1>2 DEF Rows
  <1>4. QED
    BY <1>2, <1>3, SourceMild

LEMMA WritersSettle ==
    ASSUME Turning, NEW h \in Handlers, EditWrite(h) \/ TestWrite(h)
    PROVE  CalmInv'
  <1>0. Inv /\ call[h].pc \notin OwingPcs /\ "version_read" \notin AttentivePcs
    BY DEF Turning, CalmInv, EditWrite, TestWrite, At, OwingPcs, AttentivePcs, CertifyPcs, VisitPcs
  <1>1. PICK s \in Sources : s = call[h].src /\ src[s] # Null
    BY <1>0, Own DEF EditWrite, TestWrite, At, Promise, Refers, SourcePcs
  <1>2. Mild
    <2>1. CASE EditWrite(h)
      <3>1. src' = [src EXCEPT ![s] = [src[s] EXCEPT !.text = call[h].text, !.version = call[h].version]] /\ UNCHANGED dist
        BY <1>1, <2>1 DEF EditWrite, SetSource, geography
      <3>2. QED
        BY <1>0, <1>1, <3>1, SourceKept
    <2>2. CASE TestWrite(h)
      <3>1. src' = [src EXCEPT ![s] = [src[s] EXCEPT !.lifecycle = "TESTED"]] /\ UNCHANGED dist
        BY <1>1, <2>2 DEF TestWrite, SetSource, geography
      <3>2. QED
        BY <1>0, <1>1, <3>1, SourceKept
    <2>3. QED
      BY <2>1, <2>2
  <1>3. QED
    BY <1>0, <1>2, Ends, Continues DEF EditWrite, TestWrite

LEMMA PublishWriteSettles ==
    ASSUME Turning, NEW h \in Handlers, PublishWrite(h)
    PROVE  CalmInv'
  <1>0. Inv /\ call[h].pc \notin OwingPcs
    BY DEF Turning, CalmInv, PublishWrite, At, OwingPcs, CertifyPcs, VisitPcs
  <1>1. PICK d \in Districts : d = call[h].dist /\ dist[d] # Null
    BY <1>0, Own DEF PublishWrite, At, Promise, Refers, PublishPcs
  <1>2. dist[d] \in DistrictRows
    BY <1>0, <1>1 DEF Inv, Stored, Tables
  <1>3. PICK row : row = [dist[d] EXCEPT !.published = TRUE, !.status = "PUBLISHED"]
    OBVIOUS
  <1>4. row.cert = dist[d].cert
    BY <1>2, <1>3 DEF DistrictRows
  <1>5. dist' = [dist EXCEPT ![d] = row] /\ UNCHANGED src /\ Done(h)
    BY <1>1, <1>3 DEF PublishWrite, SetDistrict, registry
  <1>6. Mild
    BY <1>0, <1>1, <1>4, <1>5, DistrictMild
  <1>7. QED
    BY <1>0, <1>5, <1>6, Ends

-----------------------------------------------------------------------------
(* Operations that are one statement.                                      *)

LEMMA RetireSettles ==
    ASSUME Turning, NEW h \in Handlers, NEW s \in Registered, Retire(h, s) \/ Disable(h, s)
    PROVE  CalmInv'
  <1>1. Inv /\ s \in Sources /\ src[s] # Null
    BY DEF Turning, CalmInv, Registered
  <1>2. UNCHANGED dist /\ UNCHANGED call
    BY DEF Retire, Disable, geography
  <1>3. \/ src' = [src EXCEPT ![s] = [src[s] EXCEPT !.lifecycle = "RETIRED", !.active = FALSE]]
        \/ src' = [src EXCEPT ![s] = [src[s] EXCEPT !.active = FALSE]]
    BY DEF Retire, Disable, SetSource
  <1>4. Mild
    BY <1>1, <1>2, <1>3, SourceKept
  <1>5. QED
    BY <1>2, <1>4, Unmoved

LEMMA DistrictStatementSettles ==
    ASSUME Turning, NEW h \in Handlers, NEW d \in Districts,
           AddDistrict(h, d) \/ (dist[d] # Null /\ Unpublish(h, d))
    PROVE  CalmInv'
  <1>1. Inv /\ UNCHANGED src /\ UNCHANGED call
    BY DEF Turning, CalmInv, AddDistrict, Unpublish, registry
  <1>2. PICK row : /\ dist' = [dist EXCEPT ![d] = row]
                   /\ \/ dist[d] = Null /\ row.cert = "PENDING"
                      \/ dist[d] # Null /\ row.cert = dist[d].cert
    <2>1. CASE AddDistrict(h, d)
      <3>1. PICK row : row = [status |-> "NEW", cert |-> "PENDING", published |-> FALSE]
        OBVIOUS
      <3>2. dist' = [dist EXCEPT ![d] = row] /\ dist[d] = Null /\ row.cert = "PENDING"
        BY <2>1, <3>1 DEF AddDistrict, SetDistrict
      <3>3. QED
        BY <3>2
    <2>2. CASE dist[d] # Null /\ Unpublish(h, d)
      <3>1. PICK row : row = [dist[d] EXCEPT !.published = FALSE, !.status = "CERTIFIED"]
        OBVIOUS
      <3>2. dist[d] \in DistrictRows
        BY <1>1, <2>2 DEF Inv, Stored, Tables
      <3>3. dist' = [dist EXCEPT ![d] = row] /\ row.cert = dist[d].cert
        BY <2>2, <3>1, <3>2 DEF Unpublish, SetDistrict, DistrictRows
      <3>4. QED
        BY <2>2, <3>3
    <2>3. QED
      BY <2>1, <2>2
  <1>3. Mild
    BY <1>1, <1>2, DistrictMild
  <1>4. QED
    BY <1>1, <1>3, Unmoved

LEMMA ElsewhereSettles ==
    ASSUME Turning, UNCHANGED <<src, dist, call>>
    PROVE  CalmInv'
  <1>1. Mild
    BY SameMild
  <1>2. QED
    BY <1>1, Unmoved

LEMMA StatementsSettle ==
    ASSUME Turning, NEW h \in Handlers, NEW routes, Statements(h, routes)
    PROVE  CalmInv'
  <1>1. ASSUME \/ \E t \in States : AddState(h, t)
               \/ \E t \in Existing(state), on \in BOOLEAN : SetStateActive(h, t, on)
               \/ \E p \in Departments : AddDepartment(h, p)
               \/ \E p \in Existing(dept) : UnpublishDepartment(h, p)
               \/ \E p \in Existing(dept), on \in BOOLEAN : SetDepartmentActive(h, p, on)
        PROVE  CalmInv'
    <2>1. UNCHANGED <<src, dist, call>>
      BY <1>1 DEF AddState, SetStateActive, AddDepartment, UnpublishDepartment, SetDepartmentActive, registry
    <2>2. QED
      BY <2>1, ElsewhereSettles
  <1>2. ASSUME NEW d \in Existing(dist), Unpublish(h, d)
        PROVE  CalmInv'
    <2>1. d \in Districts /\ dist[d] # Null
      BY DEF Existing, Turning, CalmInv, Inv, Stored, Tables
    <2>2. QED
      BY <1>2, <2>1, DistrictStatementSettles
  <1>3. QED
    BY <1>1, <1>2, RetireSettles, DistrictStatementSettles DEF Statements


-----------------------------------------------------------------------------
(* Certification keeps its list, and works it off.                         *)

LEMMA KeepsList ==
    ASSUME Turning, NEW h \in Handlers, NEW c, Become(h, c), Attentive(c)',
           call[h].pc \in CertifyPcs \cup {"lifecycle_read", "lifecycle_write"},
           c.pc \in CertifyPcs \cup {"lifecycle_read", "lifecycle_write", "affected_read"}, c.srcs = call[h].srcs,
           UNCHANGED dist, \A s \in Sources, d \in Districts : Bad(s, d)' => Bad(s, d) \/ s \in c.srcs
    PROVE  CalmInv'
  <1>1. \A d \in Districts : ~ Reread(d)
    BY NoReread DEF Turning, CalmInv, CertifyPcs
  <1>2. \A d \in Districts : Wrong(d)' => Reads(d)
    BY DEF Wrong, Reads
  <1>3. ASSUME NEW d \in Districts, Owes(call[h], d)
        PROVE  Owes(c, d)'
    <2>1. PICK b \in Calls : b = call[h]
      BY Own DEF Turning, CalmInv
    <2>2. Owes(b, d)'
      BY <1>3, <2>1, StillOwed DEF Turning
    <2>3. b.pc \in {"certify_read", "certify_insert", "certify_write", "lifecycle_read", "lifecycle_write"} /\ b.srcs = c.srcs
      BY <2>1 DEF CertifyPcs
    <2>4. QED
      BY <2>2, <2>3 DEF Owes, CertifyPcs
  <1>4. ASSUME NEW d \in Districts, NEW s \in Sources, dist'[d] # Null, Bad(s, d)'
        PROVE  Bad(s, d) \/ Owes(c, d)'
    BY <1>4 DEF Owes, Bad, CertifyPcs
  <1>5. QED
    BY <1>1, <1>2, <1>3, <1>4, Turn

LEMMA CertifyReadSettles ==
    ASSUME Turning, NEW h \in Handlers, CertifyRead(h) \/ CertifyInsert(h)
    PROVE  CalmInv'
  <1>0. Inv
    BY DEF Turning, CalmInv
  <1>1. PICK b \in Calls : b = call[h] /\ Promise(b) /\ Attentive(b)
    BY <1>0, Own DEF Turning, CalmInv
  <1>2. b.pc \in CertifyPcs /\ b.pc # "idle" /\ b.src \in b.srcs
    BY <1>1 DEF CertifyRead, CertifyInsert, At, CertifyPcs, Attentive
  <1>3. PICK c : Become(h, c) /\ c.pc \in {"certify_insert", "certify_write"} /\ c.src = b.src /\ c.srcs = b.srcs
    <2>1. CASE CertifyRead(h)
      <3>1. PICK k \in Outcomes : Become(h, [b EXCEPT !.pc = "certify_insert", !.want = Verdict(k)])
        BY <1>1, <2>1 DEF CertifyRead
      <3>2. PICK c : c = [b EXCEPT !.pc = "certify_insert", !.want = Verdict(k)]
        OBVIOUS
      <3>3. c.pc = "certify_insert" /\ c.src = b.src /\ c.srcs = b.srcs
        BY <3>2 DEF Calls
      <3>4. QED
        BY <3>1, <3>2, <3>3
    <2>2. CASE CertifyInsert(h)
      <3>1. PICK c : c = [b EXCEPT !.pc = "certify_write"]
        OBVIOUS
      <3>2. c.pc = "certify_write" /\ c.src = b.src /\ c.srcs = b.srcs /\ Become(h, c)
        BY <1>1, <2>2, <3>1 DEF Calls, CertifyInsert, Goto
      <3>3. QED
        BY <3>2
    <2>3. QED
      BY <2>1, <2>2
  <1>4. Attentive(c)'
    BY <1>2, <1>3 DEF Attentive, CertifyPcs, VisitPcs
  <1>5. UNCHANGED <<src, dist>>
    BY DEF CertifyRead, CertifyInsert, registry, geography
  <1>6. \A s \in Sources, d \in Districts : Bad(s, d)' => Bad(s, d)
    BY <1>5, SameMild DEF Mild
  <1>7. c.pc \in CertifyPcs /\ call[h].pc \in CertifyPcs /\ c.srcs = call[h].srcs
    BY <1>1, <1>2, <1>3 DEF CertifyPcs
  <1>8. QED
    BY <1>3, <1>4, <1>5, <1>6, <1>7, KeepsList

\* The result may put a district in the wrong: it is on the list.
LEMMA CertifyWriteSettles ==
    ASSUME Turning, NEW h \in Handlers, CertifyWrite(h)
    PROVE  CalmInv'
  <1>0. Inv
    BY DEF Turning, CalmInv
  <1>1. PICK b \in Calls : b = call[h] /\ Promise(b) /\ Attentive(b)
    BY <1>0, Own DEF Turning, CalmInv
  <1>2. b.pc = "certify_write" /\ b.src \in b.srcs /\ b.src \in Sources
    BY <1>1 DEF CertifyWrite, At, CertifyPcs, Attentive, Calls
  <1>3. PICK c : Become(h, c) /\ c.pc \in {"certify_read", "lifecycle_read", "affected_read"} /\ c.srcs = b.srcs
                 /\ (c.pc = "certify_read" => c.src \in b.srcs)
    <2>1. ASSUME NEW pc \in {"lifecycle_read", "affected_read"}, Goto(h, pc)
          PROVE  \E c : /\ Become(h, c) /\ c.pc \in {"certify_read", "lifecycle_read", "affected_read"} /\ c.srcs = b.srcs
                        /\ (c.pc = "certify_read" => c.src \in b.srcs)
      <3>1. PICK c : c = [b EXCEPT !.pc = pc]
        OBVIOUS
      <3>2. c.pc = pc /\ c.srcs = b.srcs /\ Become(h, c)
        BY <1>1, <2>1, <3>1 DEF Calls, Goto
      <3>3. QED
        BY <3>2
    <2>2. CASE b.op = "certify"
      <3>1. Goto(h, "lifecycle_read") \/ Goto(h, "affected_read")
        BY <1>1, <2>2 DEF CertifyWrite
      <3>2. QED
        BY <2>1, <3>1
    <2>3. CASE b.op # "certify"
      <3> DEFINE rest == {s \in b.srcs : s > b.src}
      <3>1. \/ Goto(h, "affected_read")
            \/ rest # {} /\ Become(h, [b EXCEPT !.pc = "certify_read", !.src = Min(rest), !.want = Null])
        BY <1>1, <2>3 DEF CertifyWrite
      <3>2. rest \in SUBSET Nat
        BY SourcesAssumption DEF Calls
      <3>3. rest # {} => Min(rest) \in b.srcs
        BY <3>2, LeastMember
      <3>4. ASSUME NEW s \in b.srcs, Become(h, [b EXCEPT !.pc = "certify_read", !.src = s, !.want = Null])
            PROVE  \E c : /\ Become(h, c) /\ c.pc \in {"certify_read", "lifecycle_read", "affected_read"} /\ c.srcs = b.srcs
                          /\ (c.pc = "certify_read" => c.src \in b.srcs)
        <4>1. PICK c : c = [b EXCEPT !.pc = "certify_read", !.src = s, !.want = Null]
          OBVIOUS
        <4>2. c.pc = "certify_read" /\ c.srcs = b.srcs /\ c.src = s
          BY <4>1 DEF Calls
        <4>3. QED
          BY <3>4, <4>1, <4>2
      <3>5. QED
        BY <2>1, <3>1, <3>3, <3>4
    <2>4. QED
      BY <2>2, <2>3
  <1>4. Attentive(c)'
    BY <1>3 DEF Attentive, CertifyPcs, VisitPcs
  <1>5. \A z \in Sources : z # b.src => src'[z] = src[z]
    BY <1>0, <1>1 DEF CertifyWrite, SetSource, Inv, Stored, Tables
  <1>6. UNCHANGED dist
    BY DEF CertifyWrite, geography
  <1>7. \A s \in Sources, d \in Districts : Bad(s, d)' => Bad(s, d) \/ s \in c.srcs
    BY <1>2, <1>3, <1>5, <1>6 DEF Bad, Covers
  <1>8. /\ c.pc \in CertifyPcs \cup {"lifecycle_read", "lifecycle_write", "affected_read"} /\ c.srcs = call[h].srcs
        /\ call[h].pc \in CertifyPcs \cup {"lifecycle_read", "lifecycle_write"}
    BY <1>1, <1>2, <1>3 DEF CertifyPcs
  <1>9. QED
    BY <1>3, <1>4, <1>6, <1>7, <1>8, KeepsList

LEMMA LifecycleSettles ==
    ASSUME Turning, NEW h \in Handlers, LifecycleRead(h) \/ LifecycleWrite(h)
    PROVE  CalmInv'
  <1>0. Inv
    BY DEF Turning, CalmInv
  <1>1. PICK b \in Calls : b = call[h] /\ Promise(b)
    BY <1>0, Own
  <1>2. b.pc \in {"lifecycle_read", "lifecycle_write"}
    BY <1>1 DEF LifecycleRead, LifecycleWrite, At
  <1>3. PICK pc \in {"lifecycle_write", "affected_read"} : Goto(h, pc)
    BY DEF LifecycleRead, LifecycleWrite
  <1>4. PICK c : c = [b EXCEPT !.pc = pc]
    OBVIOUS
  <1>5. c.pc = pc /\ c.srcs = b.srcs /\ Become(h, c)
    BY <1>1, <1>3, <1>4 DEF Calls, Goto
  <1>6. Attentive(c)'
    BY <1>5 DEF Attentive, CertifyPcs, VisitPcs
  <1>7. Mild
    <2>1. CASE LifecycleRead(h)
      <3>1. UNCHANGED <<src, dist>>
        BY <2>1 DEF LifecycleRead, registry, geography
      <3>2. QED
        BY <3>1, SameMild
    <2>2. CASE LifecycleWrite(h)
      <3>1. PICK s \in Sources : s = b.src /\ src[s] # Null
        BY <1>1, <1>2 DEF Promise, Refers, SourcePcs
      <3>2. src' = [src EXCEPT ![s] = [src[s] EXCEPT !.lifecycle = "CERTIFIED"]] /\ UNCHANGED dist
        BY <1>1, <2>2, <3>1 DEF LifecycleWrite, SetSource, geography
      <3>3. QED
        BY <1>0, <3>1, <3>2, SourceKept
    <2>3. QED
      BY <2>1, <2>2
  <1>8. /\ c.pc \in CertifyPcs \cup {"lifecycle_read", "lifecycle_write", "affected_read"} /\ c.srcs = call[h].srcs
        /\ call[h].pc \in CertifyPcs \cup {"lifecycle_read", "lifecycle_write"}
    BY <1>1, <1>2, <1>5
  <1>9. UNCHANGED dist
    BY DEF LifecycleRead, LifecycleWrite, geography
  <1>10. QED
    BY <1>5, <1>6, <1>7, <1>8, <1>9, KeepsList DEF Mild

\* The next district of the list, or the end of the call when there is none.
LEMMA VisitsOn ==
    ASSUME Turning, NEW h \in Handlers, call[h].pc # "refresh_read", UNCHANGED src, NEW ds, Visit(h, ds),
           \A d \in Districts \ shaken' : Wrong(d)' => Reads(d) \/ d \in ds,
           \A d \in Districts \ shaken' : Wrong(d)' /\ Owes(call[h], d) => d \in ds
    PROVE  CalmInv'
  <1>1. \A d \in Districts, s \in Sources : Bad(s, d)' => Bad(s, d)
    BY DEF Bad, Covers
  <1>2. CASE ds = {} /\ Done(h)
    <2>1. Attentive(Idle)' /\ Become(h, Idle)
      BY <1>2, IdleAtLast DEF Done
    <2>2. \A d \in Districts : ~ Reread(d)
      BY <2>1, NoReread DEF Turning, CalmInv
    <2>3. QED
      BY <1>1, <1>2, <2>1, <2>2, Turn
  <1>3. ASSUME NEW d \in ds,
               Become(h, [call[h] EXCEPT !.pc = "refresh_read", !.dists = ds, !.dist = d, !.want = Null, !.seen = Null])
        PROVE  CalmInv'
    <2>1. PICK b \in Calls : b = call[h]
      BY Own DEF Turning, CalmInv
    <2>2. PICK c : c = [b EXCEPT !.pc = "refresh_read", !.dists = ds, !.dist = d, !.want = Null, !.seen = Null]
      OBVIOUS
    <2>3. c.pc = "refresh_read" /\ c.dists = ds /\ c.dist = d /\ Become(h, c)
      BY <1>3, <2>1, <2>2 DEF Calls
    <2>4. Attentive(c)'
      BY <2>3 DEF Attentive, CertifyPcs, VisitPcs
    <2>5. \A e \in Districts : ~ Reread(e)
      BY <2>3, NoReread DEF Turning, CalmInv
    <2>6. \A e \in Districts : Wrong(e)' /\ e \in ds => Owes(c, e)'
      BY <2>3 DEF Owes, Wrong, Reads
    <2>7. QED
      BY <1>1, <2>3, <2>4, <2>5, <2>6, Turn
  <1>4. QED
    BY <1>2, <1>3 DEF Visit

\* Every district that counts a source of the call is on the list.
LEMMA AffectedReadSettles ==
    ASSUME Turning, NEW h \in Handlers, AffectedRead(h)
    PROVE  CalmInv'
  <1> DEFINE ds == UNION {Affected(s) : s \in call[h].srcs}
  <1>1. call[h].pc = "affected_read" /\ UNCHANGED <<src, dist>> /\ Visit(h, ds)
    BY DEF AffectedRead, At, registry, geography
  <1>2. ASSUME NEW d \in Districts, Owes(call[h], d)
        PROVE  d \in ds
    <2>1. PICK s \in call[h].srcs : Covers(s, d) /\ dist[d] # Null
      BY <1>1, <1>2 DEF Owes
    <2>2. d \in Affected(s)
      BY <2>1 DEF Covers, Affected
    <2>3. QED
      BY <2>1, <2>2
  <1> HIDE DEF ds
  <1>3. \A d \in Districts : Wrong(d)' => Reads(d)
    BY <1>1 DEF Wrong, Reads
  <1>4. QED
    BY <1>1, <1>2, <1>3, VisitsOn

-----------------------------------------------------------------------------
(* A refresh: what it computes from is what the sources still say when it writes.                                     *)

\* A district is computed CERTIFIED when every active source that covers it passed.
LEMMA ComputedOfAll ==
    ASSUME NEW d \in Districts, Computed(d) = "CERTIFIED"
    PROVE  \A s \in Sources : ~ Bad(s, d)
  <1>1. {src[s].cert : s \in Applicable(d)} = {"CERTIFIED"}
    BY DEF Computed
  <1>2. ASSUME NEW s \in Sources, Covers(s, d), src[s].active
        PROVE  src[s].cert = "CERTIFIED"
    <2>1. s \in Applicable(d)
      BY <1>2 DEF Covers, Applicable, Registered
    <2>2. QED
      BY <1>1, <2>1
  <1>3. QED
    BY <1>2 DEF Bad, Failed

\* The call stays with its district, and keeps the list.
LEMMA StaysWithDistrict ==
    ASSUME Turning, NEW h \in Handlers, NEW c, Become(h, c), UNCHANGED <<src, dist>>, Attentive(c)',
           call[h].pc \in {"refresh_read", "refresh_before"}, c.pc \in {"refresh_before", "refresh_write"},
           c.dists = call[h].dists
    PROVE  CalmInv'
  <1>1. \A d \in Districts : Owes(call[h], d) => Owes(c, d)'
    BY DEF Owes
  <1>2. ASSUME NEW d \in Districts, Reread(d)
        PROVE  Owes(c, d)'
    <2>1. call'[h] = c /\ \A g \in Handlers : g # h => call'[g] = call[g]
      BY OneMoves DEF Turning, CalmInv
    <2>2. call[h].dist = d /\ call[h].pc = "refresh_read"
      BY <1>2, <2>1 DEF Reread, At
    <2>3. call[h].dist \in call[h].dists /\ dist[d] # Null
      BY <2>2, Own DEF Turning, CalmInv, Attentive, Promise, Refers, VisitPcs
    <2>4. QED
      BY <1>1, <2>2, <2>3 DEF Owes
  <1>3. Mild
    BY SameMild
  <1>4. QED
    BY <1>1, <1>2, <1>3, Turn DEF Mild, Wrong

\* Where a call goes when it turns to the next district.
LEMMA VisitMoves ==
    ASSUME Inv, NEW h \in Handlers, NEW ds, Visit(h, ds)
    PROVE  \E c : Become(h, c) /\ c.pc # "refresh_before"
  <1>1. CASE Done(h)
    BY <1>1, IdleAtLast DEF Done
  <1>2. ASSUME NEW d \in ds,
               Become(h, [call[h] EXCEPT !.pc = "refresh_read", !.dists = ds, !.dist = d, !.want = Null, !.seen = Null])
        PROVE  \E c : Become(h, c) /\ c.pc # "refresh_before"
    <2>1. PICK b \in Calls : b = call[h]
      BY Own
    <2>2. PICK c : c = [b EXCEPT !.pc = "refresh_read", !.dists = ds, !.dist = d, !.want = Null, !.seen = Null]
      OBVIOUS
    <2>3. c.pc = "refresh_read" /\ Become(h, c)
      BY <1>2, <2>1, <2>2 DEF Calls
    <2>4. QED
      BY <2>3
  <1>3. QED
    BY <1>1, <1>2 DEF Visit

LEMMA RefreshReadSettles ==
    ASSUME Turning, NEW h \in Handlers, RefreshRead(h)
    PROVE  CalmInv'
  <1>0. Inv
    BY DEF Turning, CalmInv
  <1>1. PICK b \in Calls : b = call[h] /\ Promise(b) /\ Attentive(b)
    BY <1>0, Own DEF Turning, CalmInv
  <1>2. b.pc = "refresh_read" /\ b.dist \in Districts /\ b.dist \in b.dists
    BY <1>1 DEF RefreshRead, At, Promise, Refers, Attentive, VisitPcs
  <1>3. PICK want \in Certs : want = Computed(b.dist)
    BY DEF Computed, Certs, Results
  <1>4. PICK c : c = [b EXCEPT !.pc = "refresh_before", !.want = want]
    OBVIOUS
  <1>5. c.pc = "refresh_before" /\ c.want = want /\ c.dist = b.dist /\ c.dists = b.dists
    BY <1>4 DEF Calls
  <1>6. Become(h, c) /\ UNCHANGED <<src, dist>>
    BY <1>1, <1>3, <1>4 DEF RefreshRead, registry, geography
  <1>7. want = "CERTIFIED" => \A s \in Sources : ~ Bad(s, b.dist)
    BY <1>2, <1>3, ComputedOfAll
  <1>8. Attentive(c)'
    BY <1>2, <1>5, <1>6, <1>7 DEF Attentive, CertifyPcs, VisitPcs, Bad, Covers
  <1>9. QED
    BY <1>1, <1>2, <1>5, <1>6, <1>8, StaysWithDistrict

LEMMA RefreshBeforeSettles ==
    ASSUME Turning, NEW h \in Handlers, RefreshBefore(h)
    PROVE  CalmInv'
  <1>0. Inv
    BY DEF Turning, CalmInv
  <1>1. PICK b \in Calls : b = call[h] /\ Promise(b) /\ Attentive(b)
    BY <1>0, Own DEF Turning, CalmInv
  <1>2. b.pc = "refresh_before" /\ b.dist \in Districts /\ b.dist \in b.dists
    BY <1>1 DEF RefreshBefore, At, Promise, Refers, Attentive, VisitPcs
  <1>3. PICK c : c = [b EXCEPT !.pc = "refresh_write", !.seen = dist[b.dist].cert]
    OBVIOUS
  <1>4. c.pc = "refresh_write" /\ c.want = b.want /\ c.dist = b.dist /\ c.dists = b.dists
    BY <1>3 DEF Calls
  <1>5. Become(h, c) /\ UNCHANGED <<src, dist>>
    BY <1>1, <1>3 DEF RefreshBefore, registry, geography
  <1>6. b.want = "CERTIFIED" /\ b.dist \notin shaken' => \A s \in Sources : ~ Bad(s, b.dist)
    <2>1. \A d \in Districts : ~ Reread(d)
      BY <1>0, <1>1, <1>2, <1>5, NoReread
    <2>2. b.dist \notin shaken' => b.dist \notin shaken
      BY <1>2, <2>1 DEF Turning, Shakes
    <2>3. QED
      BY <1>1, <1>2, <2>2 DEF Attentive
  <1>7. Attentive(c)'
    BY <1>2, <1>4, <1>5, <1>6 DEF Attentive, CertifyPcs, VisitPcs, Bad, Covers
  <1>8. QED
    BY <1>1, <1>2, <1>4, <1>5, <1>7, StaysWithDistrict

\* What is written is true of the district, whose sources nobody else certifies meanwhile.
LEMMA RefreshWriteSettles ==
    ASSUME Turning, NEW h \in Handlers, RefreshWrite(h)
    PROVE  CalmInv'
  <1>0. Inv
    BY DEF Turning, CalmInv
  <1>1. PICK b \in Calls : b = call[h] /\ Promise(b) /\ Attentive(b)
    BY <1>0, Own DEF Turning, CalmInv
  <1>2. b.pc = "refresh_write" /\ b.dist \in Districts /\ dist[b.dist] # Null /\ dist[b.dist] \in DistrictRows
        /\ b.dist \in b.dists
    BY <1>0, <1>1 DEF RefreshWrite, At, Promise, Refers, Attentive, VisitPcs, Inv, Stored, Tables
  <1>3. PICK row : row = [dist[b.dist] EXCEPT !.cert = b.want]
    OBVIOUS
  <1>4. row.cert = b.want
    BY <1>2, <1>3 DEF DistrictRows
  <1>5. dist' = [dist EXCEPT ![b.dist] = row] /\ UNCHANGED src
    BY <1>1, <1>3 DEF RefreshWrite, SetDistrict, registry
  <1>6. dist'[b.dist] = row /\ \A d \in Districts : d # b.dist => dist'[d] = dist[d]
    BY <1>0, <1>2, <1>5 DEF Inv, Stored, Tables
  <1>7. PICK c : Become(h, c) /\ c.pc # "refresh_before"
    <2>1. CASE Goto(h, "advance_read")
      <3>1. PICK c : c = [call[h] EXCEPT !.pc = "advance_read"]
        OBVIOUS
      <3>2. QED
        BY <1>0, <2>1, <3>1, Onwards DEF Goto
    <2>2. CASE Visit(h, b.dists \ {b.dist})
      BY <1>0, <2>2, VisitMoves
    <2>3. QED
      BY <1>1, <2>1, <2>2 DEF RefreshWrite
  <1>8. \A d \in Districts : ~ Reread(d)
    BY <1>0, <1>7, NoReread
  <1>9. ASSUME NEW d \in Districts \ shaken', Wrong(d)'
        PROVE  d # b.dist /\ Reads(d)
    <2>1. PICK s \in Sources : Bad(s, d)'
      BY <1>9 DEF Wrong
    <2>2. Bad(s, d) /\ d \notin shaken
      BY <1>5, <1>8, <2>1 DEF Bad, Covers, Turning, Shakes
    <2>3. ASSUME d = b.dist PROVE FALSE
      <3>1. b.want = "CERTIFIED"
        BY <1>4, <1>6, <1>9, <2>3 DEF Wrong, Reads
      <3>2. QED
        BY <1>1, <1>2, <2>2, <2>3, <3>1 DEF Attentive
    <2>4. QED
      BY <1>6, <1>9, <2>3 DEF Wrong, Reads
  <1>10. \A d \in Districts : Owes(call[h], d) => d \in b.dists
    BY <1>1, <1>2 DEF Owes
  <1>11. CASE Goto(h, "advance_read")
    <2>1. PICK a : a = [b EXCEPT !.pc = "advance_read"]
      OBVIOUS
    <2>2. a.pc = "advance_read" /\ a.dist = b.dist /\ a.dists = b.dists /\ Become(h, a)
      BY <1>1, <1>11, <2>1 DEF Calls, Goto
    <2>3. Attentive(a)'
      BY <1>2, <2>2 DEF Attentive, CertifyPcs, VisitPcs
    <2>4. \A d \in Districts \ shaken' : Wrong(d)' /\ Owes(call[h], d) => Owes(a, d)'
      BY <1>9, <1>10, <2>2 DEF Owes, Wrong, Reads
    <2>5. \A d \in Districts, s \in Sources : Bad(s, d)' => Bad(s, d)
      BY <1>5 DEF Bad, Covers
    <2>6. QED
      BY <1>8, <1>9, <2>2, <2>3, <2>4, <2>5, Turn
  <1>12. CASE Visit(h, b.dists \ {b.dist})
    <2>1. \A d \in Districts \ shaken' : Wrong(d)' /\ Owes(call[h], d) => d \in b.dists \ {b.dist}
      BY <1>9, <1>10
    <2>2. call[h].pc # "refresh_read"
      BY <1>1, <1>2
    <2>3. QED
      BY <1>5, <1>9, <1>12, <2>1, <2>2, VisitsOn
  <1>13. QED
    BY <1>1, <1>11, <1>12 DEF RefreshWrite

\* The district that was refreshed may move on; the others wait, or are shaken when there is an error (GivenUp).
LEMMA StatusSettles ==
    ASSUME Turning, NEW h \in Handlers, AdvanceRead(h) \/ StatusRead(h) \/ StatusWrite(h)
    PROVE  CalmInv'
  <1>0. Inv
    BY DEF Turning, CalmInv
  <1>1. PICK b \in Calls : b = call[h] /\ Promise(b) /\ Attentive(b)
    BY <1>0, Own DEF Turning, CalmInv
  <1>2. /\ b.pc \in {"advance_read", "status_read", "status_write"} /\ b.dist \in b.dists
        /\ b.dist \in Districts /\ dist[b.dist] # Null /\ dist[b.dist] \in DistrictRows
    BY <1>0, <1>1 DEF AdvanceRead, StatusRead, StatusWrite, At, Promise, Refers, Attentive, VisitPcs, Inv, Stored, Tables
  <1>3. Mild /\ UNCHANGED src
    <2>1. CASE AdvanceRead(h) \/ StatusRead(h)
      <3>1. UNCHANGED <<src, dist>>
        BY <2>1 DEF AdvanceRead, StatusRead, registry, geography
      <3>2. QED
        BY <3>1, SameMild
    <2>2. CASE StatusWrite(h)
      <3>1. PICK row : row = [dist[b.dist] EXCEPT !.status = b.want]
        OBVIOUS
      <3>2. row.cert = dist[b.dist].cert
        BY <1>2, <3>1 DEF DistrictRows
      <3>3. dist' = [dist EXCEPT ![b.dist] = row] /\ UNCHANGED src
        BY <1>1, <2>2, <3>1 DEF StatusWrite, SetDistrict, registry
      <3>4. QED
        BY <1>0, <1>2, <3>2, <3>3, DistrictMild
    <2>3. QED
      BY <2>1, <2>2
  <1>4. /\ \A d \in Districts : Wrong(d)' => Reads(d)
        /\ \A d \in Districts, s \in Sources : Bad(s, d)' => Bad(s, d)
    BY <1>3 DEF Wrong, Mild
  <1>5. \A d \in Districts : Owes(call[h], d) => d \in b.dists \ {b.dist}
    BY <1>1, <1>2 DEF Owes
  <1>6. call[h].pc # "refresh_read"
    BY <1>1, <1>2
  <1>7. CASE Visit(h, b.dists \ {b.dist})
    BY <1>3, <1>4, <1>5, <1>6, <1>7, VisitsOn
  <1>8. ASSUME NEW pc \in {"status_read", "status_write"}, Goto(h, pc)
        PROVE  CalmInv'
    <2>1. PICK c : c = [b EXCEPT !.pc = pc]
      OBVIOUS
    <2>2. c.pc = pc /\ c.dist = b.dist /\ c.dists = b.dists /\ Become(h, c)
      BY <1>1, <1>8, <2>1 DEF Calls, Goto
    <2>3. Attentive(c)'
      BY <1>2, <2>2 DEF Attentive, CertifyPcs, VisitPcs
    <2>4. \A d \in Districts : ~ Reread(d)
      BY <1>0, <1>6, <2>2, NoReread
    <2>5. \A d \in Districts : Wrong(d)' /\ Owes(call[h], d) => Owes(c, d)'
      BY <1>5, <2>2 DEF Owes, Wrong, Reads
    <2>6. QED
      BY <1>4, <2>2, <2>3, <2>4, <2>5, Turn
  <1>9. CASE StatusRead(h) /\ Done(h)
    <2>1. Attentive(Idle)' /\ Become(h, Idle) /\ Idle.pc = "idle"
      BY <1>9, IdleAtLast DEF Done
    <2>2. call'[h] = Idle
      BY <1>0, <2>1, OneMoves
    <2>3. \A d \in Districts : Owes(call[h], d) => GivenUp(d)
      BY <1>9, <2>1, <2>2 DEF GivenUp, StatusRead
    <2>4. \A d \in Districts \ shaken' : ~ Owes(call[h], d)
      BY <2>3 DEF Turning, Shakes
    <2>5. \A d \in Districts : ~ Reread(d)
      BY <1>0, <1>6, <2>1, NoReread
    <2>6. QED
      BY <1>4, <2>1, <2>4, <2>5, Turn
  <1>10. CASE AdvanceRead(h)
    BY <1>1, <1>7, <1>8, <1>10 DEF AdvanceRead
  <1>11. QED
    BY <1>1, <1>7, <1>8, <1>9, <1>10 DEF StatusRead, StatusWrite

\* Nobody is left at work; a district that a call still had to refresh is shaken.
LEMMA CrashSettles ==
    ASSUME CalmInv, Inv', Crash,
           shaken' = shaken \cup {d \in Districts : \E h \in Handlers : Owes(call[h], d)}
    PROVE  CalmInv'
  <1>1. UNCHANGED <<src, dist>> /\ \A h \in Handlers : call'[h].pc = "idle"
    BY IdleAtLast DEF Crash, registry, geography
  <1>2. Mild
    BY <1>1, SameMild
  <1>3. \A d \in Districts \ shaken' : ~ Wrong(d)'
    BY <1>2 DEF CalmInv, Settled, Mild, Wrong
  <1>4. \A d : \A h \in Handlers : ~ Owes(call[h], d)'
    BY <1>1 DEF Owes
  <1>5. Settled' /\ Undivided'
    BY <1>3, <1>4 DEF Settled, Undivided, Crossed
  <1>6. \A h \in Handlers : Attentive(call[h])'
    BY <1>1 DEF Attentive, CertifyPcs, VisitPcs
  <1>7. QED
    BY <1>5, <1>6 DEF CalmInv

-----------------------------------------------------------------------------
(* Every step.                                                             *)

LEMMA InitCalm == HistoryInit => CalmInv
  <1> SUFFICES ASSUME HistoryInit PROVE CalmInv
    OBVIOUS
  <1>1. \A h \in Handlers : call[h].pc = "idle"
    BY IdleAtLast DEF HistoryInit, Init
  <1>2. Settled
    BY DEF HistoryInit, Init, Settled, Wrong, Reads
  <1>3. Undivided
    BY <1>1 DEF Undivided, Crossed, Owes
  <1>4. \A h \in Handlers : Attentive(call[h])
    BY <1>1 DEF Attentive, CertifyPcs, VisitPcs
  <1>5. QED
    BY <1>2, <1>3, <1>4, InitInv DEF CalmInv, HistoryInit

LEMMA StepCalm ==
    ASSUME CalmInv, HistoryNext
    PROVE  CalmInv'
  <1>1. CASE Step(Routes, FALSE) /\ Shakes
    <2>1. Turning
      BY <1>1, StepInv DEF Turning, CalmInv
    <2>2. ASSUME NEW h \in Handlers, Arrivals(h) PROVE CalmInv'
      BY <2>1, <2>2, ArrivalSettles
    <2>3. ASSUME NEW h \in Handlers, Statements(h, Routes) PROVE CalmInv'
      BY <2>1, <2>3, StatementsSettle
    <2>4. ASSUME NEW h \in Handlers, Registering(h) PROVE CalmInv'
      BY <2>1, <2>4, InsertSourceSettles, SetScopeSettles, WritersSettle, ReadersSettle DEF Registering
    <2>5. ASSUME NEW h \in Handlers, Certifying(h) PROVE CalmInv'
      BY <2>1, <2>5, CertifyReadSettles, CertifyWriteSettles, LifecycleSettles, AffectedReadSettles, RefreshReadSettles,
         RefreshBeforeSettles, RefreshWriteSettles, StatusSettles DEF Certifying
    <2>6. ASSUME NEW h \in Handlers, Publishing(h) PROVE CalmInv'
      BY <2>1, <2>6, StatusSettles, ReadersSettle, PublishWriteSettles DEF Publishing
    <2>7. ASSUME NEW s, NEW b, File(s, b) \/ Approve(b) PROVE CalmInv'
      <3>1. UNCHANGED <<src, dist, call>>
        BY <2>7 DEF File, Approve, registry, geography
      <3>2. QED
        BY <2>1, <3>1, ElsewhereSettles
    <2>8. QED
      BY <1>1, <2>2, <2>3, <2>4, <2>5, <2>6, <2>7 DEF Step
  <1>2. CASE Crash /\ shaken' = shaken \cup {d \in Districts : \E h \in Handlers : Owes(call[h], d)}
    <2>1. Inv'
      BY <1>2, CrashStep DEF CalmInv
    <2>2. QED
      BY <1>2, <2>1, CrashSettles
  <1>3. QED
    BY <1>1, <1>2 DEF HistoryNext, HistoryStep, Shakes

LEMMA StutterCalm ==
    ASSUME CalmInv, UNCHANGED historyVars
    PROVE  CalmInv'
  <1>1. Inv'
    BY StutterInv DEF CalmInv, historyVars
  <1>2. UNCHANGED <<src, dist, call, shaken>>
    BY DEF historyVars, vars
  <1>3. Settled' /\ Undivided' /\ \A h \in Handlers : Attentive(call[h])'
    BY <1>2 DEF CalmInv, Settled, Undivided, Attentive, Wrong, Reads, Bad, Covers, Crossed, Owes
  <1>4. QED
    BY <1>1, <1>3 DEF CalmInv

\* However many people certify, refresh, register and publish at the same time, and whenever the
\* server stops: a district that reads CERTIFIED owes it to no source that failed its last
\* certification once nobody has it still to refresh (app.py:1271), unless two calls had it to
\* refresh at once or one gave it up, since the last refresh that had it to itself.
THEOREM FailureStaysShown == HistorySpec => []FailureShows
  <1>1. CalmInv /\ [HistoryNext]_historyVars => CalmInv'
    BY StepCalm, StutterCalm
  <1>2. CalmInv => FailureShows
    <2>1. SUFFICES ASSUME CalmInv, NEW d \in Districts \ shaken, dist[d] # Null, dist[d].cert = "CERTIFIED",
                          \A h \in Handlers : ~ Owes(call[h], d), NEW s \in Applicable(d), src[s].cert \in Failed
                   PROVE  FALSE
      BY DEF FailureShows
    <2>2. s \in Sources /\ Bad(s, d)
      BY <2>1 DEF Applicable, Registered, Covers, Bad
    <2>3. QED
      BY <2>1, <2>2 DEF CalmInv, Settled, Wrong, Reads
  <1>3. QED
    BY <1>1, <1>2, InitCalm, PTL DEF HistorySpec


-----------------------------------------------------------------------------
(* The history of a source.  What a source says is in its history, or the one call that wrote it is about to put it   *)
(* there, under a number that no version has yet (Whole). All of this of the sources that are not torn: that another  *)
(* call writes a source too is what tears it, so what one call has read of the row it writes or puts into the history *)
(* is what the row says (Keeping). A source that is torn becomes whole with a version whose number is beyond all.     *)

WritingPcs == {"set_scope", "edit_write", "version_read", "version_insert"}

\* The call is about to put into the history what the source says.
Pending(c, s) == c.pc \in {"set_scope", "version_read", "version_insert"} /\ c.src = s

Numbered(s) == \A v \in versions : v.src = s => v.version <= src[s].version
Below(s)    == \A v \in versions : v.src = s => v.version < src[s].version

Whole(s) ==
    /\ ~ Overlaid(s)
    /\ (\E v \in versions : v.src = s) => InHistory(s) \/ \E h \in Handlers : Pending(call[h], s)
    /\ Numbered(s)

\* What a call has read of the row it writes or puts into the history.
Keeping(c) ==
    c.src \notin torn =>
        /\ c.pc = "edit_write" => c.version = src[c.src].version + 1
        /\ c.pc \in {"set_scope", "version_read", "version_insert"} => Below(c.src)
        /\ c.pc = "version_insert" => c.text = src[c.src].text /\ c.version = src[c.src].version

HistoryInv ==
    /\ Inv
    /\ \A v \in versions : src[v.src] # Null
    /\ \A s \in Registered \ torn : Whole(s)
    /\ \A h \in Handlers : Keeping(call[h])

\* What every step does: no edit is lossy, and the history is as complete afterwards.
KeepsHistory == HistoryInv' /\ EditKept

Tears == torn' = {s \in Sources : (s \in torn /\ ~ Reversioned(s)) \/ Overlaid(s)'}

\* A step of Publication that the history follows.
Editing == HistoryInv /\ Inv' /\ Grows /\ Tears

\* The source says what it said, under the number it had, and its history stays.
SameRow(s) ==
    /\ src'[s] # Null <=> src[s] # Null
    /\ src'[s].text = src[s].text /\ src'[s].version = src[s].version
    /\ \A v : v.src = s => (v \in versions' <=> v \in versions)

\* No source changes what it says.
SameText ==
    \A s \in Sources : /\ src'[s] # Null <=> src[s] # Null
                       /\ src[s] # Null => src'[s].text = src[s].text /\ src'[s].version = src[s].version

\* What holds of a source that says what it said goes on holding.
LEMMA SameRowKeeps ==
    ASSUME NEW s \in Sources, SameRow(s)
    PROVE  /\ InHistory(s) => InHistory(s)'
           /\ Numbered(s) => Numbered(s)'
           /\ Below(s) => Below(s)'
           /\ (\E v \in versions' : v.src = s) => \E v \in versions : v.src = s
  BY DEF SameRow, InHistory, Numbered, Below

\* Whoever rereads what it puts into the history is the call that goes on.
LEMMA OneReversions ==
    ASSUME Inv, NEW h \in Handlers, NEW c, Become(h, c), NEW s, Reversioned(s)
    PROVE  call[h].pc = "version_read" /\ c.pc = "version_insert" /\ call[h].src = s /\ Below(s)
  <1>1. call'[h] = c /\ \A g \in Handlers : g # h => call'[g] = call[g]
    BY OneMoves
  <1>2. QED
    BY <1>1 DEF Reversioned, At, Below

\* One call goes on. Every source says what it said, or is new, or the call writes it; one that is not torn afterwards
\* is as it was, or is whole by what the call does.
LEMMA Passes ==
    ASSUME Editing, NEW h \in Handlers, NEW c, Become(h, c), Keeping(c)', \A v \in versions' : src'[v.src] # Null,
           \A s \in Sources : Reversioned(s) => c.src = s,
           \A s \in Sources : src[s] = Null \/ SameRow(s) \/ Writes(c, s) \/ Writes(call[h], s),
           \A s \in Sources \ torn' : src'[s] # Null =>
               \/ SameRow(s) /\ ~ Reversioned(s) /\ (Pending(call[h], s) => Pending(c, s))
               \/ ((\E v \in versions' : v.src = s) => InHistory(s)' \/ Pending(c, s)) /\ Numbered(s)'
    PROVE  HistoryInv'
  <1>0. Inv
    BY DEF Editing, HistoryInv
  <1>1. call'[h] = c /\ \A g \in Handlers : g # h => call'[g] = call[g]
    BY <1>0, OneMoves
  <1>2. ASSUME NEW s \in Sources \ torn'
        PROVE  ~ Overlaid(s)' /\ (s \in torn => Reversioned(s))
    BY DEF Editing, Tears
  <1>3. ASSUME NEW s \in Sources \ torn', src'[s] # Null
        PROVE  Whole(s)'
    <2>1. CASE SameRow(s) /\ ~ Reversioned(s) /\ (Pending(call[h], s) => Pending(c, s))
      <3>1. s \notin torn /\ s \in Registered
        BY <1>2, <1>3, <2>1 DEF SameRow, Registered
      <3>2. Whole(s)
        BY <3>1 DEF Editing, HistoryInv
      <3>3. ASSUME NEW g \in Handlers, Pending(call[g], s) PROVE Pending(call'[g], s)
        BY <1>1, <2>1, <3>3
      <3>4. (\E v \in versions' : v.src = s) => InHistory(s)' \/ \E g \in Handlers : Pending(call'[g], s)
        BY <2>1, <3>2, <3>3, SameRowKeeps DEF Whole
      <3>5. Numbered(s)'
        BY <2>1, <3>2, SameRowKeeps DEF Whole
      <3>6. QED
        BY <1>2, <3>4, <3>5 DEF Whole, Pending
    <2>2. CASE ((\E v \in versions' : v.src = s) => InHistory(s)' \/ Pending(c, s)) /\ Numbered(s)'
      <3>1. Pending(c, s) => \E g \in Handlers : Pending(call'[g], s)
        BY <1>1
      <3>2. QED
        BY <1>2, <2>2, <3>1 DEF Whole, Pending
    <2>3. QED
      BY <1>3, <2>1, <2>2
  <1>4. ASSUME NEW g \in Handlers
        PROVE  Keeping(call[g])'
    <2>1. CASE g = h
      BY <1>1, <2>1 DEF Keeping
    <2>2. CASE g # h
      <3>1. PICK b \in Calls : b = call[g] /\ call'[g] = b /\ Promise(b) /\ Keeping(b)
        BY <1>0, <1>1, <2>2, Own DEF Editing, HistoryInv
      <3>2. CASE b.pc \in WritingPcs /\ b.src \notin torn'
        <4>1. PICK s \in Sources \ torn' : s = b.src /\ src[s] # Null
          BY <3>1, <3>2 DEF Promise, Refers, SourcePcs, WritingPcs
        <4>2. Writes(call[g], s) /\ Writes(call'[g], s)
          BY <3>1, <3>2, <4>1 DEF Writes, WritingPcs
        <4>3. ~ Writes(c, s)
          BY <1>1, <1>2, <2>2, <4>1, <4>2 DEF Overlaid, Writes
        <4>4. s \notin torn
          <5>1. ASSUME Reversioned(s) PROVE FALSE
            <6>1. c.pc = "version_insert" /\ c.src = s
              BY <1>0, <5>1, OneReversions
            <6>2. QED
              BY <4>3, <6>1 DEF Writes
          <5>2. QED
            BY <1>2, <5>1
        <4>5. ~ Writes(call[h], s)
          <5>1. ~ Overlaid(s)
            BY <4>1, <4>4 DEF Editing, HistoryInv, Whole, Registered
          <5>2. QED
            BY <2>2, <4>2, <5>1 DEF Overlaid
        <4>6. SameRow(s)
          BY <4>1, <4>3, <4>5
        <4>7. Keeping(b)'
          <5>1. Below(s) => Below(s)'
            BY <4>6, SameRowKeeps
          <5>2. QED
            BY <3>1, <4>1, <4>4, <4>6, <5>1 DEF Keeping, SameRow
        <4>8. QED
          BY <3>1, <4>7 DEF Keeping
      <3>3. CASE ~ (b.pc \in WritingPcs /\ b.src \notin torn')
        BY <3>1, <3>3 DEF Keeping, WritingPcs
      <3>4. QED
        BY <3>2, <3>3
    <2>3. QED
      BY <2>1, <2>2
  <1>5. QED
    BY <1>3, <1>4 DEF HistoryInv, Editing, Registered

\* Who keeps the texts keeps the rows, when no version comes.
LEMMA SameRows ==
    ASSUME Inv, SameText, UNCHANGED versions
    PROVE  /\ \A s \in Sources : src[s] = Null \/ SameRow(s)
           /\ \A s \in Sources : src'[s] # Null => SameRow(s)
           /\ EditKept
  BY DEF SameText, SameRow, EditKept, Registered

\* The rows of the history stay with sources that are there.
LEMMA OfSources ==
    ASSUME Editing, UNCHANGED versions
    PROVE  \A v \in versions' : src'[v.src] # Null
  <1>1. \A v \in versions : v.src \in Sources /\ src[v.src] # Null
    BY DEF Editing, HistoryInv, Inv, Stored, Tables, VersionRows
  <1>2. QED
    BY <1>1 DEF Editing, Grows, RowsStay

\* A call that does not write the history.
LEMMA Aloof ==
    ASSUME Editing, NEW h \in Handlers, NEW c, Become(h, c), Keeping(c)', call[h].pc \notin WritingPcs,
           UNCHANGED versions, SameText
    PROVE  KeepsHistory
  <1>0. Inv
    BY DEF Editing, HistoryInv
  <1>1. \A s \in Sources : ~ Reversioned(s) /\ ~ Pending(call[h], s)
    BY <1>0, OneReversions DEF Pending, WritingPcs
  <1>2. /\ \A s \in Sources : src[s] = Null \/ SameRow(s)
        /\ \A s \in Sources : src'[s] # Null => SameRow(s)
        /\ EditKept
    BY <1>0, SameRows
  <1>3. HistoryInv'
    BY <1>1, <1>2, OfSources, Passes
  <1>4. QED
    BY <1>2, <1>3 DEF KeepsHistory

\* A statement of its own.
LEMMA StandsStill ==
    ASSUME Editing, UNCHANGED <<versions, call>>, SameText
    PROVE  KeepsHistory
  <1>0. Inv
    BY DEF Editing, HistoryInv
  <1>1. /\ \A s \in Sources : src[s] = Null \/ SameRow(s)
        /\ \A s \in Sources : src'[s] # Null => SameRow(s)
        /\ EditKept
    BY <1>0, SameRows
  <1>2. \A s \in Sources \ torn' : s \notin torn /\ ~ Overlaid(s)'
    BY DEF Editing, Tears, Reversioned, At
  <1>3. ASSUME NEW s \in Sources \ torn', src'[s] # Null
        PROVE  Whole(s)'
    <2>1. SameRow(s) /\ Whole(s)
      BY <1>1, <1>2, <1>3 DEF SameRow, Registered, Editing, HistoryInv
    <2>2. QED
      BY <1>2, <2>1, SameRowKeeps DEF Whole, Pending
  <1>4. ASSUME NEW g \in Handlers
        PROVE  Keeping(call[g])'
    <2>1. PICK b \in Calls : b = call[g] /\ call'[g] = b /\ Promise(b) /\ Keeping(b)
      BY <1>0, Own DEF Editing, HistoryInv
    <2>2. CASE b.pc \in WritingPcs /\ b.src \notin torn'
      <3>1. PICK s \in Sources \ torn' : s = b.src /\ src[s] # Null
        BY <2>1, <2>2 DEF Promise, Refers, SourcePcs, WritingPcs
      <3>2. SameRow(s) /\ s \notin torn
        BY <1>1, <1>2, <3>1
      <3>3. Keeping(b)'
        BY <2>1, <3>1, <3>2, SameRowKeeps DEF Keeping, SameRow
      <3>4. QED
        BY <2>1, <3>3 DEF Keeping
    <2>3. CASE ~ (b.pc \in WritingPcs /\ b.src \notin torn')
      BY <2>1, <2>3 DEF Keeping, WritingPcs
    <2>4. QED
      BY <2>2, <2>3
  <1>5. HistoryInv'
    BY <1>3, <1>4, OfSources DEF HistoryInv, Editing, Registered
  <1>6. QED
    BY <1>1, <1>5 DEF KeepsHistory

\* A call that has nothing to do with the history, before the step and after it.
Unconcerned(h) == call[h].pc \notin WritingPcs /\ \E c : Become(h, c) /\ c.pc \notin WritingPcs

LEMMA LeavesHistory ==
    ASSUME Editing, NEW h \in Handlers, Unconcerned(h), UNCHANGED versions, SameText
    PROVE  KeepsHistory
  <1>1. PICK c : Become(h, c) /\ c.pc \notin WritingPcs
    BY DEF Unconcerned
  <1>2. Keeping(c)' /\ call[h].pc \notin WritingPcs
    BY <1>1 DEF Unconcerned, Keeping, WritingPcs
  <1>3. QED
    BY <1>1, <1>2, Aloof

\* The texts stay where the row keeps its columns.
LEMMA TextsStay ==
    ASSUME Inv, \/ UNCHANGED src
                \/ \E s \in Sources, lifecycle \in Members(LIFECYCLE_STATUSES), cert \in Certs, scope \in AnyScope :
                      /\ src[s] # Null
                      /\ \/ src' = [src EXCEPT ![s] = [src[s] EXCEPT !.lifecycle = lifecycle]]
                         \/ src' = [src EXCEPT ![s] = [src[s] EXCEPT !.lifecycle = lifecycle, !.active = FALSE]]
                         \/ src' = [src EXCEPT ![s] = [src[s] EXCEPT !.active = FALSE]]
                         \/ src' = [src EXCEPT ![s] = [src[s] EXCEPT !.cert = cert]]
                         \/ src' = [src EXCEPT ![s] = [src[s] EXCEPT !.scope = scope]]
    PROVE  SameText
  <1>1. CASE UNCHANGED src
    BY <1>1 DEF SameText
  <1>2. ASSUME NEW s \in Sources, src[s] # Null, NEW lifecycle \in Members(LIFECYCLE_STATUSES),
               NEW cert \in Certs, NEW scope \in AnyScope,
               \/ src' = [src EXCEPT ![s] = [src[s] EXCEPT !.lifecycle = lifecycle]]
               \/ src' = [src EXCEPT ![s] = [src[s] EXCEPT !.lifecycle = lifecycle, !.active = FALSE]]
               \/ src' = [src EXCEPT ![s] = [src[s] EXCEPT !.active = FALSE]]
               \/ src' = [src EXCEPT ![s] = [src[s] EXCEPT !.cert = cert]]
               \/ src' = [src EXCEPT ![s] = [src[s] EXCEPT !.scope = scope]]
        PROVE  SameText
    <2>1. src[s] \in Rows
      BY <1>2 DEF Inv, Stored, Tables
    <2>2. PICK row : /\ row \in {[src[s] EXCEPT !.lifecycle = lifecycle],
                                 [src[s] EXCEPT !.lifecycle = lifecycle, !.active = FALSE],
                                 [src[s] EXCEPT !.active = FALSE], [src[s] EXCEPT !.cert = cert],
                                 [src[s] EXCEPT !.scope = scope]}
                     /\ src' = [src EXCEPT ![s] = row]
      BY <1>2
    <2>3. row \in Rows /\ row.text = src[s].text /\ row.version = src[s].version
      BY <2>1, <2>2 DEF Rows
    <2>4. src'[s] = row /\ \A z \in Sources : z # s => src'[z] = src[z]
      BY <2>2 DEF Inv, Stored, Tables
    <2>5. row # Null
      BY <2>3, NullAssumption
    <2>6. QED
      BY <1>2, <2>3, <2>4, <2>5 DEF SameText
  <1>3. QED
    BY <1>1, <1>2

\* Where a call goes by name.
LEMMA Onward ==
    ASSUME Inv, NEW h \in Handlers, call[h].pc \notin WritingPcs,
           \/ Done(h)
           \/ \E pc : pc \notin WritingPcs /\ Goto(h, pc)
           \/ \E ds : Visit(h, ds)
    PROVE  Unconcerned(h)
  <1>1. PICK b \in Calls : b = call[h]
    BY Own
  <1>2. CASE Done(h)
    BY <1>2 DEF Unconcerned, Done, Idle, WritingPcs
  <1>3. ASSUME NEW pc, pc \notin WritingPcs, Goto(h, pc) PROVE Unconcerned(h)
    <2>1. PICK c : c = [b EXCEPT !.pc = pc]
      OBVIOUS
    <2>2. c.pc = pc /\ Become(h, c)
      BY <1>1, <1>3, <2>1 DEF Calls, Goto
    <2>3. QED
      BY <1>3, <2>2 DEF Unconcerned
  <1>4. ASSUME NEW ds, NEW d,
               Become(h, [call[h] EXCEPT !.pc = "refresh_read", !.dists = ds, !.dist = d, !.want = Null, !.seen = Null])
        PROVE  Unconcerned(h)
    <2>1. PICK c : c = [b EXCEPT !.pc = "refresh_read", !.dists = ds, !.dist = d, !.want = Null, !.seen = Null]
      OBVIOUS
    <2>2. c.pc = "refresh_read" /\ Become(h, c)
      BY <1>1, <1>4, <2>1 DEF Calls
    <2>3. QED
      BY <2>2 DEF Unconcerned, WritingPcs
  <1>5. QED
    BY <1>2, <1>3, <1>4 DEF Visit

LEMMA SomeColumns == "PENDING" \in Certs /\ NoScope \in AnyScope
  <1>1. NoScope \in AnyScope
    BY DEF NoScope, AnyScope
  <1>2. QED
    BY <1>1 DEF Certs

LEMMA PublishingKeeps ==
    ASSUME Editing, NEW h \in Handlers, Publishing(h) \/ TestRead(h) \/ TestWrite(h)
    PROVE  KeepsHistory
  <1>0. Inv
    BY DEF Editing, HistoryInv
  <1>1. call[h].pc \notin WritingPcs /\ UNCHANGED versions
    BY DEF Publishing, TestRead, TestWrite, StatusRead, StatusWrite, StateRead, StateWrite, PublishRead, PublishCount,
           PublishWrite, CoveredRead, ApprovedRead, DepartmentWrite, At, WritingPcs, registry
  <1>2. \/ Done(h)
        \/ \E pc \in {"test_write", "status_write", "state_write", "publish_count", "publish_write", "approved_read",
                      "department_write"} : Goto(h, pc)
        \/ \E ds : Visit(h, ds)
    BY DEF Publishing, TestRead, TestWrite, StatusRead, StatusWrite, StateRead, StateWrite, PublishRead, PublishCount,
           PublishWrite, CoveredRead, ApprovedRead, DepartmentWrite
  <1>3. Unconcerned(h)
    <2>1. \A pc \in {"test_write", "status_write", "state_write", "publish_count", "publish_write", "approved_read",
                     "department_write"} : pc \notin WritingPcs
      BY DEF WritingPcs
    <2>2. QED
      BY <1>0, <1>1, <1>2, <2>1, Onward
  <1>4. SameText
    <2>1. CASE ~ TestWrite(h)
      <3>1. UNCHANGED src
        BY <2>1 DEF Publishing, TestRead, StatusRead, StatusWrite, StateRead, StateWrite, PublishRead, PublishCount,
               PublishWrite, CoveredRead, ApprovedRead, DepartmentWrite, registry
      <3>2. QED
        BY <1>0, <3>1, TextsStay
    <2>2. CASE TestWrite(h)
      <3>1. PICK s \in Sources : s = call[h].src /\ src[s] # Null
        BY <1>0, <2>2, Own DEF TestWrite, At, Promise, Refers, SourcePcs
      <3>2. src' = [src EXCEPT ![s] = [src[s] EXCEPT !.lifecycle = "TESTED"]]
        BY <2>2, <3>1 DEF TestWrite, SetSource
      <3>3. QED
        BY <1>0, <3>1, <3>2, StatusNames, SomeColumns, TextsStay
    <2>3. QED
      BY <2>1, <2>2
  <1>5. QED
    BY <1>1, <1>3, <1>4, LeavesHistory

LEMMA CertifyingKeeps ==
    ASSUME Editing, NEW h \in Handlers, Certifying(h)
    PROVE  KeepsHistory
  <1>0. Inv
    BY DEF Editing, HistoryInv
  <1>1. PICK b \in Calls : b = call[h] /\ Promise(b)
    BY <1>0, Own
  <1>2. call[h].pc \notin WritingPcs /\ UNCHANGED versions
    BY DEF Certifying, CertifyRead, CertifyInsert, CertifyWrite, LifecycleRead, LifecycleWrite, AffectedRead, RefreshRead,
           RefreshBefore, RefreshWrite, AdvanceRead, At, WritingPcs, registry
  <1>3. Unconcerned(h)
    <2>1. ASSUME NEW pc \in {"certify_write", "lifecycle_read", "lifecycle_write", "affected_read", "advance_read",
                             "status_read"}, Goto(h, pc)
          PROVE  Unconcerned(h)
      <3>1. pc \notin WritingPcs
        BY DEF WritingPcs
      <3>2. QED
        BY <1>0, <1>2, <2>1, <3>1, Onward
    <2>2. ASSUME NEW ds, Visit(h, ds) PROVE Unconcerned(h)
      BY <1>0, <1>2, <2>2, Onward
    <2>3. ASSUME NEW c, Become(h, c), c.pc \in {"certify_read", "certify_insert", "refresh_before", "refresh_write"}
          PROVE  Unconcerned(h)
      BY <1>2, <2>3 DEF Unconcerned, WritingPcs
    <2>4. CASE CertifyRead(h)
      <3>1. PICK k \in Outcomes : Become(h, [b EXCEPT !.pc = "certify_insert", !.want = Verdict(k)])
        BY <1>1, <2>4 DEF CertifyRead
      <3>2. [b EXCEPT !.pc = "certify_insert", !.want = Verdict(k)].pc = "certify_insert"
        BY DEF Calls
      <3>3. QED
        BY <2>3, <3>1, <3>2
    <2>5. CASE RefreshRead(h)
      <3>1. Become(h, [b EXCEPT !.pc = "refresh_before", !.want = Computed(b.dist)])
        BY <1>1, <2>5 DEF RefreshRead
      <3>2. [b EXCEPT !.pc = "refresh_before", !.want = Computed(b.dist)].pc = "refresh_before"
        BY DEF Calls
      <3>3. QED
        BY <2>3, <3>1, <3>2
    <2>6. CASE RefreshBefore(h)
      <3>1. Become(h, [b EXCEPT !.pc = "refresh_write", !.seen = dist[b.dist].cert])
        BY <1>1, <2>6 DEF RefreshBefore
      <3>2. [b EXCEPT !.pc = "refresh_write", !.seen = dist[b.dist].cert].pc = "refresh_write"
        BY DEF Calls
      <3>3. QED
        BY <2>3, <3>1, <3>2
    <2>7. CASE CertifyWrite(h)
      <3> DEFINE rest == {s \in b.srcs : s > b.src}
      <3>1. \/ Goto(h, "lifecycle_read") \/ Goto(h, "affected_read")
            \/ Become(h, [b EXCEPT !.pc = "certify_read", !.src = Min(rest), !.want = Null])
        BY <1>1, <2>7 DEF CertifyWrite
      <3>2. [b EXCEPT !.pc = "certify_read", !.src = Min(rest), !.want = Null].pc = "certify_read"
        BY DEF Calls
      <3> HIDE DEF rest
      <3>3. QED
        BY <2>1, <2>3, <3>1, <3>2
    <2>8. CASE CertifyInsert(h) \/ LifecycleRead(h) \/ LifecycleWrite(h)
      <3>1. \E pc \in {"certify_write", "lifecycle_write", "affected_read"} : Goto(h, pc)
        BY <2>8 DEF CertifyInsert, LifecycleRead, LifecycleWrite
      <3>2. QED
        BY <2>1, <3>1
    <2>9. CASE AffectedRead(h) \/ RefreshWrite(h) \/ AdvanceRead(h)
      <3>1. Goto(h, "advance_read") \/ Goto(h, "status_read") \/ \E ds : Visit(h, ds)
        BY <2>9 DEF AffectedRead, RefreshWrite, AdvanceRead
      <3>2. QED
        BY <2>1, <2>2, <3>1
    <2>10. QED
      BY <2>4, <2>5, <2>6, <2>7, <2>8, <2>9 DEF Certifying
  <1>4. SameText
    <2>1. CASE ~ (CertifyWrite(h) \/ LifecycleWrite(h))
      <3>1. UNCHANGED src
        BY <2>1 DEF Certifying, CertifyRead, CertifyInsert, LifecycleRead, AffectedRead, RefreshRead, RefreshBefore,
               RefreshWrite, AdvanceRead, registry
      <3>2. QED
        BY <1>0, <3>1, TextsStay
    <2>2. CASE CertifyWrite(h) \/ LifecycleWrite(h)
      <3>1. PICK s \in Sources : s = b.src /\ src[s] # Null
        BY <1>1, <2>2 DEF CertifyWrite, LifecycleWrite, At, Promise, Refers, SourcePcs, CertifyPcs
      <3>2. CertifyWrite(h) => b.want \in Certs
        BY <1>1 DEF CertifyWrite, At, Promise, Holds, Certs
      <3>3. \/ src' = [src EXCEPT ![s] = [src[s] EXCEPT !.lifecycle = "CERTIFIED"]]
            \/ b.want \in Certs /\ src' = [src EXCEPT ![s] = [src[s] EXCEPT !.cert = b.want]]
        BY <1>1, <2>2, <3>1, <3>2 DEF CertifyWrite, LifecycleWrite, SetSource
      <3>4. PICK cert \in Certs, scope \in AnyScope : cert = b.want \/ b.want \notin Certs
        BY SomeColumns
      <3>5. "CERTIFIED" \in Members(LIFECYCLE_STATUSES)
        BY StatusNames
      <3>6. QED
        BY <1>0, <3>1, <3>3, <3>4, <3>5, TextsStay
    <2>3. QED
      BY <2>1, <2>2
  <1>5. QED
    BY <1>2, <1>3, <1>4, LeavesHistory

-----------------------------------------------------------------------------
(* The operations that write what a source says, and its history.          *)

LEMMA ArrivalKeeps ==
    ASSUME Editing, NEW h \in Handlers, Arrivals(h)
    PROVE  KeepsHistory
  <1>0. Inv
    BY DEF Editing, HistoryInv
  <1>1. Arriving(h)
    BY <1>0, Arrival
  <1>2. PICK c \in Calls : Become(h, c) /\ Fresh(c)
    BY <1>1 DEF Arriving
  <1>3. Unconcerned(h)
    BY <1>1, <1>2 DEF Fresh, WritingPcs, Arriving, At, Unconcerned
  <1>4. UNCHANGED versions /\ UNCHANGED src
    BY <1>1 DEF Arriving, registry
  <1>5. QED
    BY <1>0, <1>3, <1>4, TextsStay, LeavesHistory

\* A new source has no history yet.
LEMMA InsertSourceKeeps ==
    ASSUME Editing, NEW h \in Handlers, InsertSource(h)
    PROVE  KeepsHistory
  <1>0. Inv /\ UNCHANGED versions
    BY DEF Editing, HistoryInv, InsertSource
  <1>1. PICK b \in Calls : b = call[h] /\ Promise(b)
    BY <1>0, Own
  <1>2. b.pc = "insert_source" /\ call[h].pc \notin WritingPcs
    BY <1>1 DEF InsertSource, At, WritingPcs
  <1>3. CASE Done(h) /\ UNCHANGED src
    <2>1. SameText /\ Unconcerned(h)
      BY <1>0, <1>2, <1>3, TextsStay, Onward
    <2>2. QED
      BY <1>0, <2>1, LeavesHistory
  <1>4. CASE ~ (Done(h) /\ UNCHANGED src)
    <2>1. PICK s, row : s = lastSrc + 1 /\ row = [scope |-> NoScope, text |-> b.text, active |-> TRUE,
                                                 lifecycle |-> "NEW", cert |-> "PENDING", version |-> 1]
      OBVIOUS
    <2>2. /\ s \in Sources /\ src' = [src EXCEPT ![s] = row]
          /\ Done(h) \/ Become(h, [b EXCEPT !.pc = "set_scope", !.src = s])
      BY <1>1, <1>2, <1>4, <2>1 DEF InsertSource, SetSource
    <2>3. src[s] = Null
      <3>1. lastSrc \in Nat /\ (src[s] # Null => s <= lastSrc)
        BY <1>0, <2>2 DEF Inv, Stored, Tables
      <3>2. QED
        BY <2>1, <3>1
    <2>4. \A z \in Sources : z # s => src'[z] = src[z]
      BY <1>0, <2>2 DEF Inv, Stored, Tables
    <2>5. \A v \in versions : v.src # s
      BY <2>3 DEF Editing, HistoryInv
    <2>6. PICK c : Become(h, c) /\ (c.pc \in WritingPcs => c.pc = "set_scope" /\ c.src = s)
      <3>1. CASE Done(h)
        BY <3>1, IdleAtLast DEF Done, WritingPcs
      <3>2. CASE Become(h, [b EXCEPT !.pc = "set_scope", !.src = s])
        <4>1. PICK c : c = [b EXCEPT !.pc = "set_scope", !.src = s]
          OBVIOUS
        <4>2. c.pc = "set_scope" /\ c.src = s /\ Become(h, c)
          BY <3>2, <4>1 DEF Calls
        <4>3. QED
          BY <4>2
      <3>3. QED
        BY <2>2, <3>1, <3>2
    <2>7. Keeping(c)'
      BY <1>0, <2>5, <2>6 DEF Keeping, Below, WritingPcs
    <2>8. \A z \in Sources : ~ Reversioned(z) /\ ~ Pending(call[h], z)
      BY <1>0, <1>2, <2>6, OneReversions DEF Pending, WritingPcs
    <2>9. \A z \in Sources : z # s => SameRow(z)
      BY <1>0, <2>4 DEF SameRow
    <2>10. (\A v \in versions' : v.src # s) /\ Numbered(s)'
      BY <1>0, <2>5 DEF Numbered
    <2>11. HistoryInv'
      <3>1. \A z \in Sources : src[z] = Null \/ SameRow(z)
        BY <2>3, <2>9
      <3>2. \A z \in Sources : \/ SameRow(z) /\ ~ Reversioned(z) /\ (Pending(call[h], z) => Pending(c, z))
                               \/ ~ (\E v \in versions' : v.src = z) /\ Numbered(z)'
        BY <2>8, <2>9, <2>10
      <3>3. \A v \in versions' : src'[v.src] # Null
        BY <1>0, OfSources
      <3>4. QED
        BY <2>6, <2>7, <2>8, <3>1, <3>2, <3>3, Passes
    <2>12. EditKept
      BY <2>3, <2>4 DEF EditKept, Registered
    <2>13. QED
      BY <2>11, <2>12 DEF KeepsHistory
  <1>5. QED
    BY <1>3, <1>4

LEMMA EditReadKeeps ==
    ASSUME Editing, NEW h \in Handlers, EditRead(h) \/ CloneRead(h)
    PROVE  KeepsHistory
  <1>0. Inv
    BY DEF Editing, HistoryInv
  <1>1. PICK b \in Calls : b = call[h]
    BY <1>0, Own
  <1>2. call[h].pc \notin WritingPcs /\ UNCHANGED <<src, versions>>
    BY DEF EditRead, CloneRead, At, WritingPcs, registry
  <1>3. SameText
    BY <1>0, <1>2, TextsStay
  <1>4. PICK c : Become(h, c) /\ Keeping(c)'
    <2>1. CASE EditRead(h)
      <3>1. PICK c : c = [b EXCEPT !.pc = "edit_write", !.version = src[b.src].version + 1]
        OBVIOUS
      <3>2. Become(h, c)
        BY <1>1, <2>1, <3>1 DEF EditRead
      <3>3. c.pc = "edit_write" /\ c.src = b.src /\ c.version = src[b.src].version + 1
        BY <3>1 DEF Calls
      <3>4. QED
        BY <1>2, <3>2, <3>3 DEF Keeping
    <2>2. CASE CloneRead(h)
      <3>1. PICK c : c = [b EXCEPT !.pc = "insert_source", !.text = src[b.src].text, !.scope = src[b.src].scope]
        OBVIOUS
      <3>2. Become(h, c) /\ c.pc = "insert_source"
        BY <1>1, <2>2, <3>1 DEF CloneRead, Calls
      <3>3. QED
        BY <3>2 DEF Keeping
    <2>3. QED
      BY <2>1, <2>2
  <1>5. QED
    BY <1>2, <1>3, <1>4, Aloof

LEMMA SetScopeKeeps ==
    ASSUME Editing, NEW h \in Handlers, SetScope(h)
    PROVE  KeepsHistory
  <1>0. Inv /\ UNCHANGED versions
    BY DEF Editing, HistoryInv, SetScope
  <1>1. PICK b \in Calls : b = call[h] /\ Promise(b) /\ Keeping(b)
    BY <1>0, Own DEF Editing, HistoryInv
  <1>2. PICK s \in Sources : s = b.src /\ src[s] # Null /\ b.pc = "set_scope"
    BY <1>1 DEF SetScope, At, Promise, Refers, SourcePcs
  <1>3. SameText
    <2>1. src' = [src EXCEPT ![s] = [src[s] EXCEPT !.scope = b.scope]] /\ b.scope \in AnyScope
      BY <1>1, <1>2 DEF SetScope, SetSource, Calls
    <2>2. PICK cert \in Certs, lifecycle \in Members(LIFECYCLE_STATUSES) : TRUE
      BY SomeColumns, StatusNames
    <2>3. QED
      BY <1>0, <1>2, <2>1, <2>2, TextsStay
  <1>4. PICK c : Become(h, c) /\ c.pc = "version_read" /\ c.src = s
    <2>1. PICK c : c = [b EXCEPT !.pc = "version_read"]
      OBVIOUS
    <2>2. QED
      BY <1>1, <1>2, <2>1 DEF SetScope, Goto, Calls
  <1>5. /\ \A z \in Sources : src[z] = Null \/ SameRow(z)
        /\ \A z \in Sources : src'[z] # Null => SameRow(z)
        /\ EditKept
    BY <1>0, <1>3, SameRows
  <1>6. \A z \in Sources : ~ Reversioned(z) /\ (Pending(call[h], z) => Pending(c, z))
    BY <1>0, <1>1, <1>2, <1>4, OneReversions DEF Pending
  <1>7. Keeping(c)'
    <2>1. s \notin torn' => s \notin torn
      BY <1>6 DEF Editing, Tears
    <2>2. s \notin torn => Below(s)
      BY <1>1, <1>2 DEF Keeping
    <2>3. Below(s) => Below(s)'
      BY <1>2, <1>5, SameRowKeeps
    <2>4. QED
      BY <1>4, <2>1, <2>2, <2>3 DEF Keeping
  <1>8. HistoryInv'
    BY <1>0, <1>4, <1>5, <1>6, <1>7, OfSources, Passes
  <1>9. QED
    BY <1>5, <1>8 DEF KeepsHistory

\* A torn source is whole again when its version is beyond all others.
LEMMA VersionReadKeeps ==
    ASSUME Editing, NEW h \in Handlers, VersionRead(h)
    PROVE  KeepsHistory
  <1>0. Inv /\ UNCHANGED <<src, versions>>
    BY DEF Editing, HistoryInv, VersionRead, registry
  <1>1. PICK b \in Calls : b = call[h] /\ Promise(b) /\ Keeping(b)
    BY <1>0, Own DEF Editing, HistoryInv
  <1>2. PICK s \in Sources : s = b.src /\ src[s] # Null /\ b.pc = "version_read"
    BY <1>1 DEF VersionRead, At, Promise, Refers, SourcePcs
  <1>3. PICK c : /\ Become(h, c) /\ c.pc = "version_insert" /\ c.src = s
                 /\ c.text = src[s].text /\ c.version = src[s].version
    <2>1. PICK c : c = [b EXCEPT !.pc = "version_insert", !.text = src[s].text, !.version = src[s].version,
                                 !.on = src[s].active]
      OBVIOUS
    <2>2. Become(h, c)
      <3>1. call[h] = b /\ src[call[h].src] = src[s]
        BY <1>1, <1>2
      <3>2. Become(h, [b EXCEPT !.pc = "version_insert", !.text = src[s].text, !.version = src[s].version,
                                !.on = src[s].active])
        BY <3>1 DEF VersionRead
      <3>3. QED
        BY <2>1, <3>2
    <2>3. c.pc = "version_insert" /\ c.src = b.src /\ c.text = src[s].text /\ c.version = src[s].version
      BY <1>1, <2>1 DEF Calls
    <2>4. QED
      BY <1>2, <2>2, <2>3
  <1>4. /\ \A z \in Sources : src[z] = Null \/ SameRow(z)
        /\ \A z \in Sources : src'[z] # Null => SameRow(z)
        /\ EditKept
    BY <1>0, TextsStay, SameRows
  <1>5. ASSUME NEW z \in Sources, Reversioned(z) PROVE z = s /\ Below(z)
    BY <1>0, <1>1, <1>2, <1>3, <1>5, OneReversions
  <1>6. \A z \in Sources : Pending(call[h], z) => Pending(c, z)
    BY <1>1, <1>2, <1>3 DEF Pending
  <1>7. Keeping(c)'
    <2>1. s \notin torn' => s \notin torn \/ Reversioned(s)
      BY DEF Editing, Tears
    <2>2. s \notin torn => Below(s)
      BY <1>1, <1>2 DEF Keeping
    <2>3. Below(s) => Below(s)'
      BY <1>0 DEF Below
    <2>4. QED
      BY <1>0, <1>3, <1>5, <2>1, <2>2, <2>3 DEF Keeping
  <1>8. ASSUME NEW z \in Sources, src'[z] # Null
        PROVE  \/ SameRow(z) /\ ~ Reversioned(z) /\ (Pending(call[h], z) => Pending(c, z))
               \/ Pending(c, z) /\ Numbered(z)'
    <2>1. CASE ~ Reversioned(z)
      BY <1>4, <1>6, <1>8, <2>1
    <2>2. CASE Reversioned(z)
      <3>1. z = s /\ Below(s) /\ src[s] \in Rows
        BY <1>0, <1>2, <1>5, <2>2 DEF Inv, Stored, Tables
      <3>2. \A v \in versions : v.version \in Nat
        BY <1>0 DEF Inv, Stored, Tables, VersionRows
      <3>3. src[s].version \in Nat
        BY <3>1 DEF Rows
      <3>4. Numbered(s)'
        BY <1>0, <3>1, <3>2, <3>3 DEF Numbered, Below
      <3>5. QED
        BY <1>3, <3>1, <3>4 DEF Pending
    <2>3. QED
      BY <2>1, <2>2
  <1>9. HistoryInv'
    BY <1>0, <1>3, <1>4, <1>5, <1>7, <1>8, OfSources, Passes
  <1>10. QED
    BY <1>4, <1>9 DEF KeepsHistory

\* What the source says is in its history now: the number was free.
LEMMA VersionInsertKeeps ==
    ASSUME Editing, NEW h \in Handlers, VersionInsert(h)
    PROVE  KeepsHistory
  <1>0. Inv /\ UNCHANGED src /\ Become(h, Idle)
    BY DEF Editing, HistoryInv, VersionInsert, Done
  <1>1. PICK b \in Calls : b = call[h] /\ Promise(b) /\ Keeping(b)
    BY <1>0, Own DEF Editing, HistoryInv
  <1>2. PICK s \in Sources : s = b.src /\ src[s] # Null /\ b.pc = "version_insert" /\ src[s] \in Rows
    BY <1>0, <1>1 DEF VersionInsert, At, Promise, Refers, SourcePcs, Inv, Stored, Tables
  <1>3. src[s].version \in Nat /\ \A v \in versions : v.version \in Nat
    BY <1>0, <1>2 DEF Inv, Stored, Tables, VersionRows, Rows
  <1>4. PICK new : new = [src |-> s, version |-> b.version, text |-> b.text, active |-> b.on]
    OBVIOUS
  <1>5. new.src = s /\ new.version = b.version /\ new.text = b.text
    BY <1>4
  <1>6. versions' = IF \E v \in versions : v.src = s /\ v.version = b.version THEN versions ELSE versions \cup {new}
    BY <1>1, <1>2, <1>4 DEF VersionInsert
  <1>7. \A v \in versions' : v \in versions \/ v = new
    BY <1>6
  <1>8. \A z \in Sources : ~ Reversioned(z)
    BY <1>0, <1>1, <1>2, OneReversions
  <1>9. ASSUME NEW z \in Sources, z # s
        PROVE  SameRow(z) /\ ~ Pending(call[h], z)
    BY <1>0, <1>1, <1>2, <1>5, <1>6, <1>9 DEF SameRow, Pending
  <1>10. ASSUME s \notin torn'
         PROVE  InHistory(s)' /\ Numbered(s)'
    <2>1. s \notin torn
      BY <1>8, <1>10 DEF Editing, Tears
    <2>2. Below(s) /\ b.text = src[s].text /\ b.version = src[s].version
      BY <1>1, <1>2, <2>1 DEF Keeping
    <2>3. ~ \E v \in versions : v.src = s /\ v.version = b.version
      BY <1>3, <2>2 DEF Below
    <2>4. versions' = versions \cup {new}
      BY <1>6, <2>3
    <2>5. InHistory(s)'
      BY <1>0, <1>5, <2>2, <2>4 DEF InHistory
    <2>6. Numbered(s)'
      <3>1. ASSUME NEW v \in versions', v.src = s PROVE v.version <= src[s].version
        BY <1>3, <1>5, <1>7, <2>2, <3>1 DEF Below
      <3>2. QED
        BY <1>0, <3>1 DEF Numbered
    <2>7. QED
      BY <2>5, <2>6
  <1>11. HistoryInv'
    <2>1. Keeping(Idle)'
      BY IdleAtLast DEF Keeping
    <2>2. \A z \in Sources : SameRow(z) \/ Writes(call[h], z)
      BY <1>1, <1>2, <1>9 DEF Writes
    <2>3. \A z \in Sources \ torn' : \/ SameRow(z) /\ ~ Reversioned(z) /\ (Pending(call[h], z) => Pending(Idle, z))
                                     \/ InHistory(z)' /\ Numbered(z)'
      BY <1>8, <1>9, <1>10
    <2>4. \A v \in versions' : src'[v.src] # Null
      BY <1>0, <1>2, <1>5, <1>7 DEF Editing, HistoryInv
    <2>5. QED
      BY <1>0, <1>8, <2>1, <2>2, <2>3, <2>4, Passes
  <1>12. EditKept
    BY <1>0 DEF EditKept
  <1>13. QED
    BY <1>11, <1>12 DEF KeepsHistory

\* What is replaced is in the history: nobody else writes the source, and this call has nothing to put there yet.
LEMMA EditWriteKeeps ==
    ASSUME Editing, NEW h \in Handlers, EditWrite(h)
    PROVE  KeepsHistory
  <1>0. Inv /\ UNCHANGED versions
    BY DEF Editing, HistoryInv, EditWrite
  <1>1. PICK b \in Calls : b = call[h] /\ Promise(b) /\ Keeping(b)
    BY <1>0, Own DEF Editing, HistoryInv
  <1>2. PICK s \in Sources : s = b.src /\ src[s] # Null /\ b.pc = "edit_write" /\ src[s] \in Rows
    BY <1>0, <1>1 DEF EditWrite, At, Promise, Refers, SourcePcs, Inv, Stored, Tables
  <1>3. src[s].version \in Nat /\ \A v \in versions : v.version \in Nat
    BY <1>0, <1>2 DEF Inv, Stored, Tables, VersionRows, Rows
  <1>4. PICK row : row = [src[s] EXCEPT !.text = b.text, !.version = b.version]
    OBVIOUS
  <1>5. row.version = b.version
    BY <1>2, <1>4 DEF Rows
  <1>6. src' = [src EXCEPT ![s] = row]
    BY <1>1, <1>2, <1>4 DEF EditWrite, SetSource
  <1>7. src'[s] = row /\ \A z \in Sources : z # s => src'[z] = src[z]
    BY <1>0, <1>6 DEF Inv, Stored, Tables
  <1>8. PICK c : Become(h, c) /\ c.pc = "version_read" /\ c.src = s
    <2>1. PICK c : c = [b EXCEPT !.pc = "version_read"]
      OBVIOUS
    <2>2. QED
      BY <1>1, <1>2, <2>1 DEF EditWrite, Goto, Calls
  <1>9. \A z \in Sources : ~ Reversioned(z)
    BY <1>0, <1>1, <1>2, <1>8, OneReversions
  <1>10. ASSUME NEW z \in Sources, z # s
         PROVE  SameRow(z) /\ ~ Pending(call[h], z)
    BY <1>0, <1>1, <1>2, <1>7, <1>10 DEF SameRow, Pending
  <1>11. ASSUME s \notin torn'
         PROVE  Below(s)' /\ Numbered(s)'
    <2>1. s \notin torn
      BY <1>9, <1>11 DEF Editing, Tears
    <2>2. Whole(s) /\ b.version = src[s].version + 1
      BY <1>1, <1>2, <2>1 DEF Keeping, Editing, HistoryInv, Registered
    <2>3. \A v \in versions : v.src = s => v.version < b.version /\ v.version <= b.version
      BY <1>3, <2>2 DEF Whole, Numbered
    <2>4. QED
      BY <1>0, <1>5, <1>7, <2>3 DEF Below, Numbered
  <1>12. HistoryInv'
    <2>1. Keeping(c)'
      BY <1>8, <1>11 DEF Keeping
    <2>2. \A z \in Sources : SameRow(z) \/ Writes(call[h], z)
      BY <1>1, <1>2, <1>10 DEF Writes
    <2>3. \A z \in Sources \ torn' : \/ SameRow(z) /\ ~ Reversioned(z) /\ (Pending(call[h], z) => Pending(c, z))
                                     \/ Pending(c, z) /\ Numbered(z)'
      BY <1>8, <1>9, <1>10, <1>11 DEF Pending
    <2>4. QED
      BY <1>0, <1>8, <1>9, <2>1, <2>2, <2>3, OfSources, Passes
  <1>13. EditKept
    <2>1. ASSUME s \notin torn, \E v \in versions : v.src = s
          PROVE  InHistory(s)
      <3>1. Whole(s)
        BY <1>2, <2>1 DEF Editing, HistoryInv, Registered
      <3>2. ASSUME NEW g \in Handlers, Pending(call[g], s) PROVE FALSE
        <4>1. g # h
          BY <1>1, <1>2, <3>2 DEF Pending
        <4>2. Writes(call[g], s) /\ Writes(call[h], s)
          BY <1>1, <1>2, <3>2 DEF Pending, Writes
        <4>3. QED
          BY <3>1, <4>1, <4>2 DEF Whole, Overlaid
      <3>3. QED
        BY <2>1, <3>1, <3>2 DEF Whole
    <2>2. QED
      BY <1>7, <2>1 DEF EditKept, Registered
  <1>14. QED
    BY <1>12, <1>13 DEF KeepsHistory

LEMMA StatementsKeep ==
    ASSUME Editing, NEW h \in Handlers, Statements(h, Routes)
    PROVE  KeepsHistory
  <1>0. Inv
    BY DEF Editing, HistoryInv
  <1>1. ASSUME NEW s \in Registered, Retire(h, s) \/ Disable(h, s) PROVE KeepsHistory
    <2>1. s \in Sources /\ src[s] # Null /\ UNCHANGED <<versions, call>>
      BY <1>1 DEF Registered, Retire, Disable
    <2>2. \/ src' = [src EXCEPT ![s] = [src[s] EXCEPT !.lifecycle = "RETIRED", !.active = FALSE]]
          \/ src' = [src EXCEPT ![s] = [src[s] EXCEPT !.active = FALSE]]
      BY <1>1 DEF Retire, Disable, SetSource
    <2>3. SameText
      BY <1>0, <2>1, <2>2, StatusNames, SomeColumns, TextsStay
    <2>4. QED
      BY <2>1, <2>3, StandsStill
  <1>2. ASSUME ~ \E s \in Registered : Retire(h, s) \/ Disable(h, s) PROVE KeepsHistory
    <2>1. UNCHANGED src /\ UNCHANGED <<versions, call>>
      BY <1>2 DEF Statements, AddState, SetStateActive, AddDistrict, Unpublish, AddDepartment, UnpublishDepartment,
             SetDepartmentActive, registry
    <2>2. QED
      BY <1>0, <2>1, TextsStay, StandsStill
  <1>3. QED
    BY <1>1, <1>2

\* Nobody is left at work; a source that a call was writing is torn.
LEMMA CrashKeeps ==
    ASSUME HistoryInv, Inv', Crash,
           torn' = torn \cup {s \in Sources : \E h \in Handlers : Writes(call[h], s)}
    PROVE  KeepsHistory
  <1>1. UNCHANGED <<src, versions>> /\ \A h \in Handlers : call'[h].pc = "idle"
    BY IdleAtLast DEF Crash, registry
  <1>2. ASSUME NEW s \in Registered \ torn'
        PROVE  Whole(s)'
    <2>1. s \notin torn /\ Whole(s)
      BY DEF HistoryInv
    <2>2. \A h \in Handlers : ~ Pending(call[h], s)
      BY DEF Pending, Writes, Registered
    <2>3. ~ Overlaid(s)'
      BY <1>1 DEF Overlaid, Writes
    <2>4. QED
      BY <1>1, <2>1, <2>2, <2>3 DEF Whole, InHistory, Numbered
  <1>3. \A h \in Handlers : Keeping(call[h])'
    BY <1>1 DEF Keeping
  <1>4. QED
    BY <1>1, <1>2, <1>3 DEF HistoryInv, KeepsHistory, EditKept, Registered

-----------------------------------------------------------------------------
(* Every step.                                                             *)

LEMMA InitHistory == HistoryInit => HistoryInv
  <1> SUFFICES ASSUME HistoryInit PROVE HistoryInv
    OBVIOUS
  <1>1. \A h \in Handlers : call[h].pc = "idle"
    BY IdleAtLast DEF HistoryInit, Init
  <1>2. Registered = {} /\ versions = {}
    BY DEF HistoryInit, Init, Registered
  <1>3. QED
    BY <1>1, <1>2, InitInv DEF HistoryInv, Keeping, HistoryInit

LEMMA StepHistory ==
    ASSUME HistoryInv, HistoryNext
    PROVE  KeepsHistory
  <1>1. CASE Step(Routes, FALSE) /\ Tears
    <2>1. Editing
      BY <1>1, StepInv DEF Editing, HistoryInv
    <2>2. ASSUME NEW h \in Handlers, Arrivals(h) PROVE KeepsHistory
      BY <2>1, <2>2, ArrivalKeeps
    <2>3. ASSUME NEW h \in Handlers, Statements(h, Routes) PROVE KeepsHistory
      BY <2>1, <2>3, StatementsKeep
    <2>4. ASSUME NEW h \in Handlers, Registering(h) PROVE KeepsHistory
      BY <2>1, <2>4, InsertSourceKeeps, EditReadKeeps, SetScopeKeeps, VersionReadKeeps, VersionInsertKeeps,
         EditWriteKeeps, PublishingKeeps DEF Registering
    <2>5. ASSUME NEW h \in Handlers, Certifying(h) \/ Publishing(h) PROVE KeepsHistory
      BY <2>1, <2>5, CertifyingKeeps, PublishingKeeps
    <2>6. ASSUME NEW s, NEW b, File(s, b) \/ Approve(b) PROVE KeepsHistory
      <3>1. UNCHANGED src /\ UNCHANGED <<versions, call>>
        BY <2>6 DEF File, Approve, registry
      <3>2. QED
        BY <2>1, <3>1, TextsStay, StandsStill DEF Editing, HistoryInv
    <2>7. QED
      BY <1>1, <2>2, <2>3, <2>4, <2>5, <2>6 DEF Step
  <1>2. CASE Crash /\ torn' = torn \cup {s \in Sources : \E h \in Handlers : Writes(call[h], s)}
    <2>1. Inv'
      BY <1>2, CrashStep DEF HistoryInv
    <2>2. QED
      BY <1>2, <2>1, CrashKeeps
  <1>3. QED
    BY <1>1, <1>2 DEF HistoryNext, HistoryStep, Tears

LEMMA StutterHistory ==
    ASSUME HistoryInv, UNCHANGED historyVars
    PROVE  HistoryInv'
  <1>1. Inv'
    BY StutterInv DEF HistoryInv, historyVars
  <1>2. UNCHANGED <<src, versions, call, torn>>
    BY DEF historyVars, vars
  <1>3. /\ \A v \in versions' : src'[v.src] # Null
        /\ \A s \in Registered' \ torn' : Whole(s)'
        /\ \A h \in Handlers : Keeping(call[h])'
    BY <1>2 DEF HistoryInv, Registered, Whole, Overlaid, Writes, InHistory, Pending, Numbered, Below, Keeping
  <1>4. QED
    BY <1>1, <1>3 DEF HistoryInv

\* "No edit is ever silently lossy" (schema_phase3.sql:91), however many people edit, create and
\* register at the same time, and whenever the server stops: what an edit replaces is in the history
\* of the source, unless two edits of the source overlapped or one was cut off since the last
\* version with a number of its own, and unless the source never had a version, as the command line
\* registers them.
THEOREM EditsLeaveHistory == HistorySpec => EditsKept
  <1>1. HistoryInv /\ [HistoryNext]_historyVars => HistoryInv' /\ [EditKept]_historyVars
    BY StepHistory, StutterHistory DEF KeepsHistory
  <1>2. QED
    BY <1>1, InitHistory, PTL DEF HistorySpec, EditsKept

=============================================================================
