-------------------------- MODULE AcquisitionProofs --------------------------
(***************************************************************************)
(* Theorems about Acquisition, for any number of portals, documents,       *)
(* processes and jobs, any anchors on the pages, any way a request ends,   *)
(* and every interleaving of statements and crashes.                       *)
(*                                                                         *)
(* A diagnostic job keeps its row and its tests in step (Counts).  For a   *)
(* crawl the invariant says what its process has counted so far of the run *)
(* it owns (Tallies), that no two processes own a run (Apart), and that a  *)
(* run which is finished says the same of itself (Tells): the step that    *)
(* closes a run hands the one to the other.  For a batch it says what has  *)
(* been reached with the document at its head (Reached).                   *)
(***************************************************************************)
EXTENDS Acquisition, FiniteSetTheorems, SequenceTheorems, WellFoundedInduction, TLAPS

-----------------------------------------------------------------------------
(* What the fetcher returns.                                               *)

Stages   == ALL_STAGES \cup {NoStage}
Levels   == {"HIGH", "MEDIUM", "LOW"}
Probes   == {p \in [last : Stages, stage : Stages, cause : ALL_ROOT_CAUSES \cup {NoStage}, confidence : Levels] :
               p.stage # NoStage => p.cause # NoStage}
Whys     == [last : Stages, stage : Stages, cause : ALL_ROOT_CAUSES, confidence : Levels]
Outcomes == [kind : {"response", "FetchError", "escaped"}, code : Nat, verified : BOOLEAN, why : Whys]

\* A page is read without verification only where that is allowed.
Careful(o, verify, fallback) ==
    o \in Outcomes /\ (o.kind = "response" /\ ~ o.verified => fallback \/ ~ verify)

LEMMA ClassifyType ==
    ASSUME NEW url, NEW enforce \in BOOLEAN, NEW end
    PROVE  Probe(url, enforce, end) \in Probes
  <1>1. ClassifyDns(end) \in Probes
    BY DEF ClassifyDns, Failed, Probes, Stages, Levels, ALL_STAGES, ALL_ROOT_CAUSES, NoStage
  <1>2. ClassifyTcp(end) \in Probes
    BY DEF ClassifyTcp, Failed, Probes, Stages, Levels, ALL_STAGES, ALL_ROOT_CAUSES, NoStage
  <1>3. ClassifyTls(end) \in Probes
    BY DEF ClassifyTls, Failed, Probes, Stages, Levels, ALL_STAGES, ALL_ROOT_CAUSES, NoStage
  <1>4. /\ Failed("REQUEST_CREATED", "POLICY_VALIDATION", "POLICY_BLOCKED", "HIGH") \in Probes
        /\ Failed("TLS_HANDSHAKE", NoStage, NoStage, "HIGH") \in Probes
    BY DEF Failed, Probes, Stages, Levels, ALL_STAGES, ALL_ROOT_CAUSES, NoStage
  <1>5. QED
    BY <1>1, <1>2, <1>3, <1>4, Zenon DEF Probe

LEMMA AnsweredType ==
    ASSUME NEW enforce \in BOOLEAN, NEW verify \in BOOLEAN, NEW answer, answer.code \in Codes
    PROVE  /\ Answered(enforce, verify, answer) \in Outcomes
           /\ Answered(enforce, verify, answer).kind # "escaped"
           /\ Answered(enforce, verify, answer).verified \in {TRUE, verify}
  <1>1. ClassifyResponse(answer.code) \in Whys
    BY DEF ClassifyResponse, ClassifyStatus, Failed, Whys, Stages, Levels, ALL_STAGES, ALL_ROOT_CAUSES, NoStage
  <1>2. Dropped("UNKNOWN_FAILURE") \in Whys /\ Unclassified \in Whys
        /\ Failed("HTTP_RESPONSE_RECEIVED", "REDIRECT_VALIDATION", "REDIRECT_POLICY_BLOCKED", "HIGH") \in Whys
    BY DEF Dropped, Unclassified, Failed, Whys, Stages, Levels, ALL_STAGES, ALL_ROOT_CAUSES, NoStage
  <1>3. answer.code \in Nat
    BY DEF Codes
  <1>4. QED
    BY <1>1, <1>2, <1>3 DEF Answered, Raised, Returned, Outcomes

LEMMA ConnectionFailedCareful ==
    ASSUME NEW enforce \in BOOLEAN, NEW verify \in BOOLEAN, NEW fallback \in BOOLEAN, NEW probe \in Probes,
           NEW second, second.answer.code \in Codes
    PROVE  Careful(ConnectionFailed(enforce, verify, fallback, probe, second), verify, fallback)
  <1>1. CASE MayBypass(probe, verify, fallback)
    <2> DEFINE a == Answered(enforce, FALSE, second.answer)
    <2>1. a \in Outcomes
      BY AnsweredType
    <2>2. Raised(0, FALSE, Failed(probe.last, "TLS_HANDSHAKE", "TLS_HANDSHAKE_FAILED", "HIGH")) \in Outcomes
      BY DEF Raised, Failed, Outcomes, Probes, Whys, Stages, Levels, ALL_STAGES, ALL_ROOT_CAUSES, NoStage
    <2> HIDE DEF a
    <2>3. Fallback(enforce, probe, second) \in Outcomes
      BY <2>1, <2>2 DEF Fallback, a
    <2>4. QED
      BY <1>1, <2>3 DEF ConnectionFailed, Careful, MayBypass
  <1>2. CASE ~ MayBypass(probe, verify, fallback)
    <2>1. [probe EXCEPT !.cause = IF @ = NoStage THEN "UNKNOWN_FAILURE" ELSE @] \in Whys
      BY DEF Probes, Whys, Stages, Levels, ALL_STAGES, ALL_ROOT_CAUSES, NoStage
    <2>2. QED
      BY <1>2, <2>1 DEF ConnectionFailed, Raised, Careful, Outcomes
  <1>3. QED
    BY <1>1, <1>2

LEMMA GetCareful ==
    ASSUME NEW n \in Conditions, NEW verify \in BOOLEAN, NEW fallback \in BOOLEAN, NEW enforce \in BOOLEAN
    PROVE  Careful(Get(n, verify, fallback, enforce), verify, fallback)
  <1> DEFINE probe == Probe(n.url, enforce, n.probe)
  <1>1. probe \in Probes
    BY ClassifyType
  <1>2. n.first.answer.code \in Codes /\ n.second.answer.code \in Codes
    BY DEF Conditions, Requests, Fails, Answer, NoAnswer, Answers, Codes
  <1>3. Careful(Answered(enforce, verify, n.first.answer), verify, fallback)
    BY <1>2, AnsweredType DEF Careful
  <1>4. Careful(ConnectionFailed(enforce, verify, fallback, probe, n.second), verify, fallback)
    BY <1>1, <1>2, ConnectionFailedCareful
  <1>5. /\ Dropped("READ_TIMEOUT") \in Whys /\ Dropped("REMOTE_SERVER_DROPPED_CONNECTION") \in Whys
        /\ Unclassified \in Whys /\ Failed("REQUEST_CREATED", "POLICY_VALIDATION", "POLICY_BLOCKED", "HIGH") \in Whys
    BY DEF Dropped, Unclassified, Failed, Whys, Stages, Levels, ALL_STAGES, ALL_ROOT_CAUSES, NoStage
  <1>6. ClassifyConnectTimeout(probe) \in Whys
    BY <1>1 DEF ClassifyConnectTimeout, Failed, Probes, ConnectPhase, Whys, Stages, Levels, ALL_STAGES, ALL_ROOT_CAUSES, NoStage
  <1>7. \A why \in Whys : Careful(Raised(0, TRUE, why), verify, fallback)
    BY DEF Careful, Raised, Outcomes
  <1>8. Careful(Escaped, verify, fallback)
    BY <1>5 DEF Careful, Escaped, Outcomes
  <1> HIDE DEF probe
  <1>9. QED
    BY <1>3, <1>4, <1>5, <1>6, <1>7, <1>8, Zenon DEF Get, probe

-----------------------------------------------------------------------------
(* Diagnostics.                                                            *)

All == Controls \cup Targets \cup Tested

\* The row of a job and what its thread has written agree.
Counts(j) ==
    /\ job[j].status \in {"absent", "QUEUED"} =>
          job[j].total = 0 /\ job[j].completed = 0 /\ test[j] = <<>> /\ left[j] = <<>>
    /\ job[j].status = "RUNNING" /\ job[j].total = 0 => job[j].completed = 0 /\ test[j] = <<>> /\ left[j] = <<>>
    /\ job[j].status = "RUNNING" /\ job[j].total # 0 =>
          /\ job[j].completed + Len(left[j]) = job[j].total
          /\ Len(test[j]) = job[j].completed \/ (Len(test[j]) = job[j].completed + 1 /\ left[j] # <<>>)

DiagTypes ==
    /\ job \in [Jobs -> [status : JobStatuses, total : Nat, completed : Nat]]
    /\ test \in [Jobs -> Seq(Tests)] /\ left \in [Jobs -> Seq(All)] /\ alive \subseteq Jobs

DiagInv ==
    /\ DiagTypes
    /\ \A j \in alive : job[j].status \in {"QUEUED", "RUNNING"}
    /\ \A j \in Jobs : Counts(j)
    /\ CompletedIsWhole

\* Each element of a finite set can be lined up.
LEMMA InSomeOrderSeq ==
    ASSUME NEW S, IsFiniteSet(S)
    PROVE  InSomeOrder(S) \in Seq(S)
  <1>1. Cardinality(S) \in Nat /\ ExistsBijection(1 .. Cardinality(S), S)
    BY FS_CardinalityType
  <1>2. PICK f \in [1 .. Cardinality(S) -> S] : \A x \in S : \E i \in 1 .. Cardinality(S) : f[i] = x
    BY <1>1 DEF ExistsBijection, Bijection, Surjection
  <1>3. {f[i] : i \in DOMAIN f} = S
    BY <1>2
  <1>4. InSomeOrder(S) \in [1 .. Cardinality(S) -> S]
    BY <1>3 DEF InSomeOrder
  <1>5. QED
    BY <1>1, <1>4, IsASeq

LEMMA DiagInitInv == DiagInit => DiagInv
  BY DEF DiagInit, DiagInv, DiagTypes, Counts, CompletedIsWhole, JobStatuses

LEMMA FindingsType ==
    ASSUME NEW f \in Findings
    PROVE  f.success \in BOOLEAN /\ f.ok \in BOOLEAN /\ f.cause \in ALL_ROOT_CAUSES \cup {""}
  <1>1. PICK enforce \in BOOLEAN, n \in Conditions : f = Found(Get(n, TRUE, TRUE, enforce), enforce)
    BY Zenon DEF Findings
  <1>2. Get(n, TRUE, TRUE, enforce) \in Outcomes
    BY GetCareful DEF Careful
  <1>3. PICK got \in Outcomes : f = Found(got, enforce)
    BY <1>1, <1>2, Zenon
  <1>4. QED
    BY <1>3 DEF Found, Outcomes, Whys

\* A job that shows COMPLETED is whole.
Whole(j) ==
    job[j].status = "COMPLETED" =>
        job[j].completed = job[j].total /\ Len(test[j]) = job[j].total /\ Unconcluded(j) = {}

\* A step that leaves the row, the tests and the targets of a job alone keeps what is said of it.
LEMMA OtherJobs ==
    ASSUME NEW k, job'[k] = job[k], test'[k] = test[k], left'[k] = left[k], Counts(k), Whole(k)
    PROVE  Counts(k)' /\ Whole(k)'
  <1>1. Counts(k)'
    BY DEF Counts
  <1>2. Unconcluded(k)' = Unconcluded(k)
    BY DEF Unconcluded
  <1>3. QED
    BY <1>1, <1>2 DEF Whole

\* One job is written: what holds of it afterwards, and of the jobs that live, is all there is to show.
LEMMA OneJob ==
    ASSUME DiagInv, NEW j \in Jobs, DiagTypes', Counts(j)', Whole(j)',
           \A k \in Jobs \ {j} : job'[k] = job[k] /\ test'[k] = test[k] /\ left'[k] = left[k],
           alive' \subseteq alive \cup {j}, j \in alive' => job'[j].status \in {"QUEUED", "RUNNING"}
    PROVE  DiagInv'
  <1>1. \A k \in Jobs : Counts(k)' /\ Whole(k)'
    BY OtherJobs DEF DiagInv, CompletedIsWhole, Whole
  <1>2. \A k \in alive' : job'[k].status \in {"QUEUED", "RUNNING"}
    BY DEF DiagInv, DiagTypes
  <1>3. QED
    BY <1>1, <1>2 DEF DiagInv, CompletedIsWhole, Whole

\* A living job that still has targets is in the middle of its tests.
LEMMA Testing ==
    ASSUME DiagInv, NEW j \in alive, left[j] # <<>>
    PROVE  j \in Jobs /\ job[j].status = "RUNNING" /\ job[j].total # 0
  BY DEF DiagInv, DiagTypes, Counts

LEMMA DiagStep == DiagInv /\ [DiagNext]_diagVars => DiagInv'
  <1> SUFFICES ASSUME DiagInv, [DiagNext]_diagVars
               PROVE  DiagInv'
    OBVIOUS
  <1> USE DEF DiagTypes, JobStatuses
  <1>0. DiagTypes /\ \A j \in Jobs : job[j] \in [status : JobStatuses, total : Nat, completed : Nat]
                     /\ test[j] \in Seq(Tests) /\ left[j] \in Seq(All) /\ Counts(j) /\ Whole(j)
    BY DEF DiagInv, CompletedIsWhole, Whole
  <1>1. ASSUME NEW j \in Jobs, StartJob(j)
        PROVE  DiagInv'
    <2>1. DiagTypes'
      BY <1>0, <1>1 DEF StartJob
    <2>2. Counts(j)' /\ Whole(j)'
      BY <1>0, <1>1 DEF StartJob, Counts, Whole
    <2>3. QED
      BY <1>0, <1>1, <2>1, <2>2, OneJob, ZenonT(60) DEF StartJob
  <1>2. ASSUME NEW j \in alive, JobRuns(j)
        PROVE  DiagInv'
    <2>1. DiagTypes'
      BY <1>0, <1>2 DEF JobRuns
    <2>2. Counts(j)' /\ Whole(j)'
      BY <1>0, <1>2 DEF JobRuns, Counts, Whole
    <2>3. QED
      BY <1>0, <1>2, <2>1, <2>2, OneJob, ZenonT(60) DEF JobRuns
  <1>3. ASSUME NEW j \in alive, Plan(j)
        PROVE  DiagInv'
    <2>1. PICK active \in SUBSET Tested :
            LET all == InSomeOrder(Controls \cup Targets) \o InSomeOrder(active) IN
              left' = [left EXCEPT ![j] = all] /\ job' = [job EXCEPT ![j].total = Len(all)]
      BY <1>3 DEF Plan
    <2> DEFINE all == InSomeOrder(Controls \cup Targets) \o InSomeOrder(active)
    <2>2. IsFiniteSet(Controls \cup Targets) /\ IsFiniteSet(active)
      BY DiagnosticsAssumption, FS_Union, FS_Subset
    <2>3. InSomeOrder(Controls \cup Targets) \in Seq(All) /\ InSomeOrder(active) \in Seq(All)
      <3>1. InSomeOrder(Controls \cup Targets) \in Seq(Controls \cup Targets) /\ InSomeOrder(active) \in Seq(active)
        BY <2>2, InSomeOrderSeq
      <3>2. QED
        BY <3>1 DEF All
    <2>4. all \in Seq(All) /\ Len(all) \in Nat
      BY <2>3
    <2> HIDE DEF all
    <2>5. left' = [left EXCEPT ![j] = all] /\ job' = [job EXCEPT ![j].total = Len(all)]
      BY <2>1 DEF all
    <2>6. DiagTypes'
      BY <1>0, <1>3, <2>4, <2>5, ZenonT(60) DEF Plan
    <2>7. Counts(j)' /\ Whole(j)'
      BY <1>0, <1>3, <2>4, <2>5 DEF Plan, Counts, Whole
    <2>8. \A k \in Jobs \ {j} : job'[k] = job[k] /\ test'[k] = test[k] /\ left'[k] = left[k]
      BY <1>0, <1>3, <2>5 DEF Plan
    <2>9. alive' = alive /\ job'[j].status = "RUNNING"
      BY <1>0, <1>3, <2>5 DEF Plan
    <2>10. QED
      BY <1>0, <2>6, <2>7, <2>8, <2>9, OneJob
  <1>4. ASSUME NEW j \in alive, TestTarget(j)
        PROVE  DiagInv'
    <2>1. PICK f \in Findings : test' = [test EXCEPT ![j] = Append(@,
             [target |-> Head(left[j]), success |-> f.success, ok |-> f.ok, cause |-> f.cause,
              conclusion |-> "none"])]
      BY <1>4 DEF TestTarget
    <2> DEFINE row == [target |-> Head(left[j]), success |-> f.success, ok |-> f.ok, cause |-> f.cause,
                       conclusion |-> "none"]
    <2>2. Head(left[j]) \in All
      BY <1>0, <1>4 DEF TestTarget
    <2>3. row \in Tests
      BY <2>2, FindingsType DEF Tests, All, Conclusions
    <2> HIDE DEF row
    <2>4. test' = [test EXCEPT ![j] = Append(@, row)] /\ UNCHANGED <<job, left, alive>> /\ left[j] # <<>>
          /\ Len(test[j]) = job[j].completed
      BY <1>4, <2>1 DEF TestTarget, row
    <2>5. DiagTypes'
      BY <1>0, <2>3, <2>4
    <2>6. Counts(j)' /\ Whole(j)'
      BY <1>0, <2>3, <2>4, Testing DEF Counts, Whole
    <2>7. QED
      BY <1>0, <2>4, <2>5, <2>6, OneJob, Testing
  <1>5. ASSUME NEW j \in alive, CountTarget(j)
        PROVE  DiagInv'
    <2>1. DiagTypes'
      <3>1. Tail(left[j]) \in Seq(All) /\ job[j].completed + 1 \in Nat
        BY <1>0, <1>5 DEF CountTarget
      <3>2. left' \in [Jobs -> Seq(All)]
        BY <1>0, <1>5, <3>1 DEF CountTarget
      <3>3. job' \in [Jobs -> [status : JobStatuses, total : Nat, completed : Nat]]
        BY <1>0, <1>5, <3>1 DEF CountTarget
      <3>4. QED
        BY <1>0, <1>5, <3>2, <3>3 DEF CountTarget
    <2>2. Counts(j)' /\ Whole(j)'
      BY <1>0, <1>5, Testing DEF CountTarget, Counts, Whole
    <2>3. QED
      BY <1>0, <1>5, <2>1, <2>2, OneJob, Testing, ZenonT(60) DEF CountTarget
  <1>6. ASSUME NEW j \in alive, ConcludeNext(j)
        PROVE  DiagInv'
    <2>1. PICK i \in DOMAIN test[j] : test' = [test EXCEPT ![j][i].conclusion = Conclude(j, test[j][i])]
      BY <1>6 DEF ConcludeNext, Unconcluded
    <2>2. Conclude(j, test[j][i]) \in Conclusions
      BY DEF Conclude, Conclusions
    <2>3. test[j][i] \in Tests
      BY <1>0, <2>1
    <2>4. test'[j] \in Seq(Tests) /\ Len(test'[j]) = Len(test[j])
      <3>1. test'[j] = [test[j] EXCEPT ![i] = [@ EXCEPT !.conclusion = Conclude(j, test[j][i])]]
        BY <1>0, <2>1
      <3>2. [test[j][i] EXCEPT !.conclusion = Conclude(j, test[j][i])] \in Tests
        BY <2>2, <2>3 DEF Tests
      <3>3. QED
        <4>1. test[j] \in Seq(Tests) /\ i \in 1 .. Len(test[j])
          BY <1>0, <2>1
        <4>2. QED
          BY <4>1, <3>1, <3>2, ExceptSeq
    <2>5. DiagTypes' /\ \A k \in Jobs \ {j} : test'[k] = test[k]
      BY <1>0, <1>6, <2>1, <2>4 DEF ConcludeNext
    <2>6. Counts(j)' /\ Whole(j)'
      BY <1>0, <1>6, <2>4 DEF ConcludeNext, Planned, Counts, Whole
    <2>7. QED
      BY <1>0, <1>6, <2>5, <2>6, OneJob DEF ConcludeNext, Planned
  <1>7. ASSUME NEW j \in alive, JobCompleted(j)
        PROVE  DiagInv'
    <2>1. DiagTypes'
      BY <1>0, <1>7 DEF JobCompleted
    <2>2. Counts(j)'
      BY <1>0, <1>7 DEF JobCompleted, Counts
    <2>3. Unconcluded(j)' = {}
      BY <1>7 DEF JobCompleted, Unconcluded
    <2>4. Whole(j)'
      BY <1>0, <1>7, <2>3 DEF JobCompleted, Planned, Counts, Whole
    <2>5. QED
      BY <1>0, <1>7, <2>1, <2>2, <2>4, OneJob DEF JobCompleted
  <1>8. ASSUME NEW j \in alive, JobFails(j)
        PROVE  DiagInv'
    <2>1. DiagTypes'
      <3>1. left' \in [Jobs -> Seq(All)]
        BY <1>0, <1>8 DEF JobFails
      <3>2. job' \in [Jobs -> [status : JobStatuses, total : Nat, completed : Nat]]
        BY <1>0, <1>8 DEF JobFails
      <3>3. QED
        BY <1>0, <1>8, <3>1, <3>2 DEF JobFails
    <2>2. Counts(j)' /\ Whole(j)'
      BY <1>0, <1>8 DEF JobFails, Counts, Whole
    <2>3. QED
      BY <1>0, <1>8, <2>1, <2>2, OneJob DEF JobFails
  <1>9. ASSUME Redeploy \/ UNCHANGED diagVars
        PROVE  DiagInv'
    <2>1. \A k \in Jobs : Counts(k)' /\ Whole(k)'
      BY <1>0, <1>9, OtherJobs DEF Redeploy, diagVars
    <2>2. DiagTypes' /\ \A k \in alive' : job'[k].status \in {"QUEUED", "RUNNING"}
      BY <1>0, <1>9 DEF Redeploy, diagVars, DiagInv
    <2>3. QED
      BY <2>1, <2>2 DEF DiagInv, CompletedIsWhole, Whole
  <1>10. QED
    BY <1>1, <1>2, <1>3, <1>4, <1>5, <1>6, <1>7, <1>8, <1>9 DEF DiagNext, JobStep

\* The rows of jobs and tests hold what their columns allow: a test names a target, a root cause of the
\* closed list or none, and a conclusion.
THEOREM DiagTypesHold == DiagSpec => []DiagTypeOK
  <1>1. DiagInv => DiagTypeOK
    BY DEF DiagInv, DiagTypes, DiagTypeOK
  <1>2. QED
    BY <1>1, DiagInitInv, DiagStep, PTL DEF DiagSpec

\* A job that shows COMPLETED tested, counted and concluded everything it announced.
THEOREM CompletedWhole == AcquisitionSpec => []CompletedIsWhole
  <1>1. DiagInv => CompletedIsWhole
    BY DEF DiagInv
  <1>2. QED
    BY <1>1, DiagInitInv, DiagStep, PTL DEF AcquisitionSpec, DiagSpec

-----------------------------------------------------------------------------
(* The crawler: what is picked from a sequence.                            *)

\* The members of a finite set of naturals have the ranks 1, 2, ... up to their number.
LEMMA Ranks ==
    ASSUME NEW I \in SUBSET Nat, IsFiniteSet(I)
    PROVE  \A n \in 1 .. Cardinality(I) : \E i \in I : Cardinality({k \in I : k <= i}) = n
  <1> DEFINE Upto(i) == {k \in I : k <= i}
             f == [i \in I |-> Cardinality(Upto(i))]
             N == 1 .. Cardinality(I)
  <1>1. Cardinality(I) \in Nat
    BY FS_CardinalityType
  <1>2. \A i \in I : IsFiniteSet(Upto(i)) /\ Cardinality(Upto(i)) \in Nat /\ Cardinality(Upto(i)) <= Cardinality(I)
    <2> SUFFICES ASSUME NEW i \in I PROVE IsFiniteSet(Upto(i)) /\ Cardinality(Upto(i)) \in Nat
                                           /\ Cardinality(Upto(i)) <= Cardinality(I)
      OBVIOUS
    <2>1. Upto(i) \in SUBSET I
      OBVIOUS
    <2> HIDE DEF Upto
    <2>2. QED
      BY <2>1, FS_Subset, FS_CardinalityType
  <1>3. \A i \in I : Cardinality(Upto(i)) # 0
    <2> SUFFICES ASSUME NEW i \in I PROVE Cardinality(Upto(i)) # 0
      OBVIOUS
    <2>1. i \in Upto(i)
      OBVIOUS
    <2> HIDE DEF Upto
    <2>2. QED
      BY <1>2, <2>1, FS_EmptySet
  <1>4. \A i, j \in I : i # j => Cardinality(Upto(i)) # Cardinality(Upto(j))
    <2>1. ASSUME NEW i \in I, NEW j \in I, i < j PROVE Cardinality(Upto(i)) # Cardinality(Upto(j))
      <3>1. \A k \in I : k <= i => k <= j
        BY <2>1
      <3> i \in Nat /\ j \in Nat /\ ~ (j <= i) /\ j <= j
        BY <2>1
      <3>2. Upto(i) \in SUBSET Upto(j) /\ j \in Upto(j) /\ j \notin Upto(i)
        BY <3>1, Zenon
      <3> HIDE DEF Upto
      <3>3. QED
        BY <1>2, <3>2, FS_Subset
    <2> HIDE DEF Upto
    <2>2. \A i, j \in I : i # j => i < j \/ j < i
      OBVIOUS
    <2>3. QED
      BY <2>1, <2>2
  <1> HIDE DEF Upto
  <1>5. f \in [I -> N] /\ \A i \in I : f[i] = Cardinality(Upto(i))
    BY <1>1, <1>2, <1>3
  <1>6. IsFiniteSet(N) /\ Cardinality(N) = Cardinality(I)
    BY <1>1, FS_Interval
  <1> HIDE DEF f, N
  <1>7. f \in Injection(I, N)
    BY <1>4, <1>5 DEF Injection, IsInjective
  <1>8. f \in Surjection(I, N)
    BY <1>6, <1>7, FS_Injection
  <1>9. \A n \in N : \E i \in I : f[i] = n
    BY <1>8 DEF Surjection
  <1>10. QED
    BY <1>5, <1>9 DEF Upto, N

\* What is picked from a sequence is picked from it.
LEMMA ThoseSeq ==
    ASSUME NEW S, NEW s, NEW I \in SUBSET Nat, IsFiniteSet(I), \A i \in I : s[i] \in S
    PROVE  Those(s, I) \in Seq(S)
  <1> DEFINE at(n) == CHOOSE i \in I : Cardinality({k \in I : k <= i}) = n
  <1>1. Cardinality(I) \in Nat
    BY FS_CardinalityType
  <1>2. \A n \in 1 .. Cardinality(I) : at(n) \in I
    BY Ranks
  <1> HIDE DEF at
  <1>3. \A n \in 1 .. Cardinality(I) : s[at(n)] \in S
    BY <1>2
  <1>4. Those(s, I) = [n \in 1 .. Cardinality(I) |-> s[at(n)]]
    BY DEF Those, at
  <1>5. Those(s, I) \in [1 .. Cardinality(I) -> S]
    BY <1>3, <1>4
  <1>6. QED
    BY <1>1, <1>5, SeqDef

LEMMA Positions ==
    ASSUME NEW S, NEW s \in Seq(S), NEW I \in SUBSET DOMAIN s
    PROVE  I \in SUBSET Nat /\ IsFiniteSet(I) /\ \A i \in I : s[i] \in S
  <1>1. DOMAIN s = 1 .. Len(s) /\ Len(s) \in Nat
    OBVIOUS
  <1>2. IsFiniteSet(1 .. Len(s))
    BY <1>1, FS_Interval
  <1>3. QED
    BY <1>1, <1>2, FS_Subset

LEMMA PickedSeq ==
    ASSUME NEW S, NEW s \in Seq(S), NEW I \in SUBSET DOMAIN s
    PROVE  Those(s, I) \in Seq(S)
  BY Positions, ThoseSeq

LEMMA WithoutSeq ==
    ASSUME NEW S, NEW s \in Seq(S), NEW X
    PROVE  Without(s, X) \in Seq(S)
  <1>1. {i \in DOMAIN s : s[i] \notin X} \in SUBSET DOMAIN s
    OBVIOUS
  <1>2. QED
    BY <1>1, PickedSeq, Zenon DEF Without

LEMMA FirstOfSeq ==
    ASSUME NEW S, NEW s \in Seq(S)
    PROVE  FirstOf(s) \in Seq(S)
  <1>1. {i \in DOMAIN s : \A k \in 1 .. i - 1 : s[k].to # s[i].to} \in SUBSET DOMAIN s
    OBVIOUS
  <1>2. QED
    BY <1>1, PickedSeq, Zenon DEF FirstOf

\* The anchors of s at I that lead to T, and where they lead.
LEMMA LinksTo ==
    ASSUME NEW s \in Seq(AnchorRows), NEW T, NEW I \in SUBSET DOMAIN s, \A i \in I : s[i].to \in T
    PROVE  To(Those(s, I)) \in Seq(T) /\ To(FirstOf(Those(s, I))) \in Seq(T)
  <1> DEFINE A == {a \in AnchorRows : a.to \in T}
  <1>1. I \in SUBSET Nat /\ IsFiniteSet(I) /\ \A i \in I : s[i] \in A
    BY Positions
  <1>2. Those(s, I) \in Seq(A)
    BY <1>1, ThoseSeq
  <1>3. FirstOf(Those(s, I)) \in Seq(A)
    BY <1>2, FirstOfSeq
  <1>4. \A t \in Seq(A) : To(t) \in Seq(T)
    <2> SUFFICES ASSUME NEW t \in Seq(A) PROVE To(t) \in Seq(T)
      OBVIOUS
    <2>1. Len(t) \in Nat /\ DOMAIN t = 1 .. Len(t) /\ \A i \in 1 .. Len(t) : t[i].to \in T
      OBVIOUS
    <2>2. [i \in 1 .. Len(t) |-> t[i].to] \in [1 .. Len(t) -> T]
      BY <2>1
    <2>3. QED
      BY <2>1, <2>2, SeqDef DEF To
  <1>5. QED
    BY <1>2, <1>3, <1>4

\* A page yields documents to register and pages to follow.
LEMMA PageYields ==
    ASSUME NEW s \in Sources, NEW p \in Pages
    PROVE  DocumentsOn[s][p] \in Seq(Docs) /\ FollowOn[s][p] \in Seq(Pages)
  <1> DEFINE a == Anchors[p]
             f == FirstOf(a)
  <1>1. a \in Seq(AnchorRows)
    BY DiscoveryAssumption
  <1>2. f \in Seq(AnchorRows)
    BY <1>1, FirstOfSeq
  <1> HIDE DEF a, f
  <1>3. GenericDocuments(p) \in Seq(Docs) /\ GenericFollow(p) \in Seq(Pages)
    <2>1. ToDocuments(f) \in SUBSET DOMAIN f /\ \A i \in ToDocuments(f) : f[i].to \in Docs
      BY DEF ToDocuments
    <2>2. {i \in ToPages(f) : f[i].next} \in SUBSET DOMAIN f /\ \A i \in {i \in ToPages(f) : f[i].next} : f[i].to \in Pages
      BY DEF ToPages
    <2>3. To(Those(f, ToDocuments(f))) \in Seq(Docs) /\ To(Those(f, {i \in ToPages(f) : f[i].next})) \in Seq(Pages)
      BY <1>2, <2>1, <2>2, LinksTo
    <2>4. QED
      BY <2>3 DEF GenericDocuments, GenericFollow, f, a
  <1>4. PortalDocuments(p) \in Seq(Docs)
    <2>1. {i \in ToDocuments(a) : a[i].row} \in SUBSET DOMAIN a /\ \A i \in {i \in ToDocuments(a) : a[i].row} : a[i].to \in Docs
      BY DEF ToDocuments
    <2>2. InRows(p) \in Seq(Docs)
      BY <1>1, <2>1, LinksTo DEF InRows, a
    <2>3. Without(GenericDocuments(p), Elements(InRows(p))) \in Seq(Docs)
      BY <1>3, WithoutSeq
    <2>4. QED
      BY <2>2, <2>3, ConcatProperties DEF PortalDocuments
  <1>5. PortalFollow(p) \in Seq(Pages)
    <2>1. {i \in ToPages(a) : a[i].to # p /\ a[i].listing} \in SUBSET DOMAIN a
          /\ \A i \in {i \in ToPages(a) : a[i].to # p /\ a[i].listing} : a[i].to \in Pages
      BY DEF ToPages
    <2>2. Listings(p) \in Seq(Pages)
      BY <1>1, <2>1, LinksTo DEF Listings, a
    <2>3. Without(Listings(p), Elements(GenericFollow(p))) \in Seq(Pages)
      BY <2>2, WithoutSeq
    <2>4. QED
      BY <1>3, <2>3, ConcatProperties DEF PortalFollow
  <1>6. QED
    BY <1>3, <1>4, <1>5 DEF DocumentsOn, FollowOn

-----------------------------------------------------------------------------
(* The crawler: the invariant.                                             *)

Pcs == {"idle", "source", "page", "link", "insert", "close", "mark", "fetch", "extract", "status", "write"}
Calls == [pc : Pcs, todo : SUBSET Sources, rows : [Sources -> SourceRows] \cup {<<>>}, run : Nat,
          queue : Seq(Pages), visited : SUBSET Pages, links : Seq(Docs), follow : Seq(Pages), pages : 0 .. MaxPages,
          seen : Nat, fresh : Nat, known : Nat, outcome : {"ok", "error"}, batch : Seq(Nat), status : Statuses]

DiscTypes ==
    /\ source \in [Sources -> SourceRows]
    /\ run \in Seq(RunRows) /\ Len(run) <= MaxRuns
    /\ evidence \in Seq(Seq(Requested)) /\ Len(evidence) = Len(run)
    /\ disc \in Seq(DiscRows) /\ archived \subseteq DOMAIN disc /\ recorded \subseteq archived
    /\ call \in [Handlers -> Calls]

\* A process whose run is still open, and one that crawls at all.
Open(h) == call[h].pc \in {"page", "link", "insert", "close"}
Crawling(h) == Open(h) \/ call[h].pc = "mark"

NewIn(r) == {i \in DOMAIN disc : disc[i].first = r}
\* Every document link of the pages a run could read is on file, but for the links in rest.
Harvested(r, rest) ==
    \A i \in PagesSeen(r) : \A d \in Elements(DocumentsOn[run[r].source][evidence[r][i].page]) :
        OnFile(run[r].source, d) \/ d \in rest

Responses(r) == {i \in DOMAIN evidence[r] : evidence[r][i].kind = "response"}

\* A crawl owns its run, and crawls by the settings the run keeps.
Owns(h) ==
    /\ Crawling(h) \/ call[h].pc = "source" => call[h].rows \in [Sources -> SourceRows]
    /\ Crawling(h) => call[h].run \in DOMAIN run
    /\ Open(h) => run[call[h].run].status = "running" /\ run[call[h].run].cfg = Row(h)

\* What a crawl has counted so far agrees with the requests it logged and the rows it inserted, and what it
\* found is on file or still to be looked up.
Tallies(h) ==
    Open(h) =>
        LET c == call[h] r == call[h].run IN
        /\ c.pc = "page" => c.links = <<>>
        /\ c.pc = "insert" => c.links # <<>>
        /\ c.pc = "close" <=> c.outcome = "error"
        /\ c.pages = Cardinality(Responses(r)) /\ c.fresh = Cardinality(NewIn(r))
        /\ \A i \in DOMAIN evidence[r] : evidence[r][i].kind = "FetchError" => i = Len(evidence[r]) /\ c.pc = "close"
        /\ c.outcome = "ok" =>
             /\ c.seen = c.fresh + c.known + Len(c.links)
             /\ Harvested(r, Elements(c.links))

\* How far a batch has come with its documents, the first of them above all.
Reached(h) ==
    LET c == call[h] IN
    /\ c.pc \in {"fetch", "extract", "status", "write"} => Elements(c.batch) \subseteq DOMAIN disc
    /\ c.pc = "extract" => Elements(c.batch) \subseteq archived
    /\ c.pc \in {"status", "write"} =>
         /\ c.batch # <<>> /\ c.status \in {"rejected", "downloaded", "parsed"}
         /\ c.status = "downloaded" => Head(c.batch) \in archived
         /\ c.status = "parsed" => Elements(c.batch) \subseteq archived /\ Head(c.batch) \in recorded

Promise(h) == Owns(h) /\ Tallies(h) /\ Reached(h)

\* No two crawls share a run.
Apart == \A g, h \in Handlers : g # h /\ Open(g) /\ Open(h) => call[g].run # call[h].run

\* A finished run is truthful, and every request of a run kept to its settings.
Told(r) ==
    /\ \A i \in DOMAIN evidence[r] :
        evidence[r][i].kind = "response" /\ ~ evidence[r][i].verified => run[r].cfg.fallback \/ ~ run[r].cfg.verify
    /\ Finished(r) =>
        /\ run[r].fresh = Cardinality(NewIn(r))
        /\ run[r].pages = Cardinality(Responses(r))
        /\ \A i \in DOMAIN evidence[r] : evidence[r][i].kind = "FetchError" => i = Len(evidence[r])
        /\ (\E i \in DOMAIN evidence[r] : evidence[r][i].kind = "FetchError") => run[r].status = "error"
        /\ run[r].status = "ok" =>
             /\ run[r].fresh + run[r].known = run[r].links
             /\ Harvested(r, {})

\* discovered_documents keeps its constraints.
Registered ==
    /\ \A i, j \in DOMAIN disc : disc[i].source = disc[j].source /\ disc[i].url = disc[j].url => i = j
    /\ \A i \in DOMAIN disc : disc[i].first <= Len(run)
    /\ StatusEarned

DiscInv ==
    /\ DiscTypes /\ Registered /\ Apart
    /\ \A h \in Handlers : Promise(h)
    /\ \A r \in DOMAIN run : Told(r)

-----------------------------------------------------------------------------
(* The crawler: what a step leaves of what others rely on.                 *)

\* Rows of runs and documents stay, and so does what has been archived and recorded.
Kept ==
    /\ \A r \in DOMAIN run : r \in DOMAIN run' /\ run'[r].source = run[r].source /\ run'[r].cfg = run[r].cfg
    /\ \A s, d : OnFile(s, d) => OnFile(s, d)'
    /\ DOMAIN disc \subseteq DOMAIN disc' /\ archived \subseteq archived' /\ recorded \subseteq recorded'

\* A process writes only to the run it has open.
Elsewhere(h) ==
    \A r \in DOMAIN run : ~ (Open(h) /\ r = call[h].run) =>
        run'[r] = run[r] /\ evidence'[r] = evidence[r] /\ NewIn(r)' = NewIn(r)

LEMMA OthersKeepPromises ==
    ASSUME DiscInv, NEW h \in Handlers, NEW g \in Handlers \ {h}, call'[g] = call[g], Kept, Elsewhere(h)
    PROVE  Promise(g)'
  <1> DEFINE r == call[g].run
  <1>1. Promise(g) /\ (Open(h) /\ Open(g) => call[h].run # r)
    BY DEF DiscInv, Apart
  <1>2. Owns(g)'
    <2>1. Owns(g) /\ (Open(g) => r \in DOMAIN run /\ run'[r] = run[r])
      BY <1>1 DEF Promise, Owns, Crawling, Elsewhere
    <2>2. Crawling(g)' = Crawling(g) /\ Open(g)' = Open(g)
      BY DEF Crawling, Open
    <2>3. QED
      BY <2>1, <2>2 DEF Owns, Kept, Row, Crawling
  <1>3. Tallies(g)'
    <2> SUFFICES ASSUME Open(g) PROVE Tallies(g)'
      BY DEF Tallies, Open
    <2>1. r \in DOMAIN run /\ run'[r] = run[r] /\ evidence'[r] = evidence[r] /\ NewIn(r)' = NewIn(r)
      BY <1>1 DEF Promise, Owns, Crawling, Elsewhere
    <2>2. Responses(r)' = Responses(r) /\ PagesSeen(r)' = PagesSeen(r)
      BY <2>1 DEF Responses, PagesSeen
    <2>3. Tallies(g)
      BY <1>1 DEF Promise
    <2> HIDE DEF r
    <2>4. \A s, d : OnFile(s, d) => OnFile(s, d)'
      BY DEF Kept
    <2>5. QED
      BY <2>1, <2>2, <2>3, <2>4 DEF Tallies, Harvested, r
  <1>4. Reached(g)'
    BY <1>1 DEF Promise, Reached, Kept
  <1>5. QED
    BY <1>2, <1>3, <1>4 DEF Promise

LEMMA RunsStayTold ==
    ASSUME DiscInv, NEW h \in Handlers, Kept, Elsewhere(h), NEW r \in DOMAIN run, ~ (Open(h) /\ r = call[h].run)
    PROVE  Told(r)'
  <1>1. run'[r] = run[r] /\ evidence'[r] = evidence[r] /\ NewIn(r)' = NewIn(r)
    BY DEF Elsewhere
  <1>2. Responses(r)' = Responses(r) /\ PagesSeen(r)' = PagesSeen(r)
    BY <1>1 DEF Responses, PagesSeen
  <1>3. Told(r) /\ \A s, d : OnFile(s, d) => OnFile(s, d)'
    BY DEF DiscInv, Kept
  <1>4. QED
    BY <1>1, <1>2, <1>3 DEF Told, Finished, Harvested

\* One process moves: what is left to show is its own promise and what it says of the run it writes.
LEMMA OneProcess ==
    ASSUME DiscInv, NEW h \in Handlers, \A g \in Handlers \ {h} : call'[g] = call[g],
           DiscTypes', Registered', Kept, Elsewhere(h), Promise(h)',
           Open(h)' => (Open(h) /\ call'[h].run = call[h].run) \/ call'[h].run \notin DOMAIN run,
           \A r \in DOMAIN run' : r \notin DOMAIN run \/ (Open(h) /\ r = call[h].run) => Told(r)'
    PROVE  DiscInv'
  <1>1. \A g \in Handlers : Promise(g)'
    BY OthersKeepPromises
  <1>2. \A r \in DOMAIN run' : Told(r)'
    <2>1. \A r \in DOMAIN run : ~ (Open(h) /\ r = call[h].run) => Told(r)'
      BY RunsStayTold
    <2>2. QED
      BY <2>1
  <1>3. Apart'
    <2>1. \A g \in Handlers \ {h} : Open(g)' = Open(g) /\ (Open(g) => call[g].run \in DOMAIN run)
      BY DEF Open, DiscInv, Promise, Owns, Crawling
    <2>2. Apart
      BY DEF DiscInv
    <2>3. \A g \in Handlers \ {h} : Open(g)' /\ Open(h)' => call'[g].run # call'[h].run
      BY <2>1, <2>2 DEF Apart
    <2>4. \A g, k \in Handlers \ {h} : g # k /\ Open(g)' /\ Open(k)' => call'[g].run # call'[k].run
      BY <2>1, <2>2 DEF Apart
    <2>5. QED
      BY <2>3, <2>4 DEF Apart
  <1>4. QED
    BY <1>1, <1>2, <1>3 DEF DiscInv

\* A step that writes no table, and neither opens a run nor changes to another.
LEMMA OnlyCall ==
    ASSUME DiscInv, NEW h \in Handlers, NEW c \in Calls, call' = [call EXCEPT ![h] = c],
           UNCHANGED <<source, run, evidence, disc, archived, recorded>>, Promise(h)',
           Open(h)' => Open(h) /\ call'[h].run = call[h].run
    PROVE  DiscInv'
  <1>1. DiscTypes'
    BY DEF DiscInv, DiscTypes
  <1>2. Registered'
    BY DEF DiscInv, Registered, StatusEarned
  <1>3. Kept
    BY DEF Kept, OnFile
  <1>4. \A r \in DOMAIN run : NewIn(r)' = NewIn(r)
    BY DEF NewIn
  <1>5. \A r \in DOMAIN run : Told(r)'
    <2> SUFFICES ASSUME NEW r \in DOMAIN run PROVE Told(r)'
      OBVIOUS
    <2>1. Told(r) /\ NewIn(r)' = NewIn(r) /\ Responses(r)' = Responses(r) /\ PagesSeen(r)' = PagesSeen(r)
      BY <1>4 DEF DiscInv, Responses, PagesSeen
    <2>2. QED
      BY <1>3, <2>1 DEF Told, Finished, Harvested, Kept
  <1>6. Elsewhere(h) /\ \A g \in Handlers \ {h} : call'[g] = call[g]
    BY <1>4 DEF Elsewhere, DiscInv, DiscTypes
  <1>7. QED
    BY <1>1, <1>2, <1>3, <1>5, <1>6, OneProcess

-----------------------------------------------------------------------------
(* The crawler: one process at a time.                                     *)

LEMMA IdleCall == Idle \in Calls
  <1>1. 0 \in 0 .. MaxPages /\ 0 \in Nat
    BY DiscoveryAssumption
  <1>2. <<>> \in Seq(Pages) /\ <<>> \in Seq(Docs) /\ <<>> \in Seq(Nat)
    OBVIOUS
  <1>3. QED
    BY <1>1, <1>2 DEF Idle, Calls, Pcs, Statuses

\* What the process that moves knows.
LEMMA Mine ==
    ASSUME DiscInv, NEW h \in Handlers
    PROVE  /\ DiscTypes /\ Registered /\ Promise(h) /\ call[h] \in Calls /\ DOMAIN call = Handlers
           /\ DOMAIN run = 1 .. Len(run) /\ Len(run) \in Nat /\ DOMAIN evidence = 1 .. Len(run)
           /\ Crawling(h) => /\ call[h].run \in DOMAIN run /\ run[call[h].run] \in RunRows /\ Here(h) \in Sources
                             /\ evidence[call[h].run] \in Seq(Requested)
                             /\ call[h].rows \in [Sources -> SourceRows] /\ Row(h) \in SourceRows
  <1>1. DiscTypes /\ Registered /\ Promise(h) /\ call[h] \in Calls /\ DOMAIN call = Handlers
    BY DEF DiscInv, DiscTypes
  <1>2. DOMAIN run = 1 .. Len(run) /\ Len(run) \in Nat /\ DOMAIN evidence = 1 .. Len(run)
    BY <1>1 DEF DiscTypes
  <1>3. ASSUME Crawling(h)
        PROVE  /\ call[h].run \in DOMAIN run /\ run[call[h].run] \in RunRows /\ Here(h) \in Sources
               /\ evidence[call[h].run] \in Seq(Requested)
               /\ call[h].rows \in [Sources -> SourceRows] /\ Row(h) \in SourceRows
    <2>1. call[h].run \in DOMAIN run /\ call[h].rows \in [Sources -> SourceRows]
      BY <1>1, <1>3 DEF Promise, Owns
    <2>2. run[call[h].run] \in RunRows /\ evidence[call[h].run] \in Seq(Requested)
      BY <1>1, <1>2, <2>1 DEF DiscTypes
    <2>3. run[call[h].run].source \in Sources
      BY <2>2 DEF RunRows
    <2>4. QED
      BY <2>1, <2>2, <2>3 DEF Here, Row
  <1>4. QED
    BY <1>1, <1>2, <1>3

\* A process that becomes idle, or turns to its next source, promises little.
LEMMA Rests ==
    ASSUME NEW h \in Handlers,
           \/ call'[h].pc = "idle"
           \/ call'[h].pc = "source" /\ call'[h].rows \in [Sources -> SourceRows]
    PROVE  Promise(h)' /\ ~ Open(h)'
  BY DEF Promise, Owns, Tallies, Reached, Open, Crawling

LEMMA Ends ==
    ASSUME DiscInv, NEW h \in Handlers, Go(h, Idle), UNCHANGED <<source, run, evidence, disc, archived, recorded>>
    PROVE  DiscInv'
  <1>1. call' = [call EXCEPT ![h] = Idle] /\ call'[h] = Idle
    BY Mine DEF Go
  <1>2. Promise(h)' /\ ~ Open(h)'
    BY <1>1, Rests DEF Idle
  <1>3. QED
    BY <1>1, <1>2, IdleCall, OnlyCall

LEMMA StepBeginCrawl ==
    ASSUME DiscInv, NEW h \in Handlers, BeginCrawl(h)
    PROVE  DiscInv'
  <1>1. PICK S \in SUBSET Sources : Go(h, [Idle EXCEPT !.pc = "source", !.todo = S, !.rows = source])
    BY DEF BeginCrawl
  <1> DEFINE c == [Idle EXCEPT !.pc = "source", !.todo = S, !.rows = source]
  <1>2. c \in Calls /\ c.pc = "source" /\ c.rows = source
    BY Mine, IdleCall DEF Idle, Calls, Pcs, DiscTypes
  <1>3. call' = [call EXCEPT ![h] = c] /\ UNCHANGED <<source, run, evidence, disc, archived, recorded>>
    BY <1>1 DEF Go, BeginCrawl
  <1> HIDE DEF c
  <1>4. call'[h] = c
    BY <1>3, Mine
  <1>5. Promise(h)' /\ ~ Open(h)'
    BY <1>2, <1>4, Mine, Rests DEF DiscTypes
  <1>6. QED
    BY <1>2, <1>3, <1>5, OnlyCall

LEMMA StepNoSourceLeft ==
    ASSUME DiscInv, NEW h \in Handlers, NoSourceLeft(h)
    PROVE  DiscInv'
  BY Ends DEF NoSourceLeft

LEMMA StepBatchDone ==
    ASSUME DiscInv, NEW h \in Handlers, BatchDone(h)
    PROVE  DiscInv'
  BY Ends DEF BatchDone

LEMMA StepCrash ==
    ASSUME DiscInv, NEW h \in Handlers, Crash(h)
    PROVE  DiscInv'
  BY Ends DEF Crash

\* The ids a batch takes are among those it may take.
LEMMA FirstsSeq ==
    ASSUME NEW n \in Nat, NEW I \in SUBSET (1 .. n)
    PROVE  Firsts(I) \in Seq(I)
  <1> DEFINE taken == {i \in I : Cardinality({k \in I : k <= i}) <= Limit}
             id == [i \in I |-> i]
  <1>1. taken \in SUBSET I /\ \A i \in I : id[i] \in I
    OBVIOUS
  <1> HIDE DEF taken, id
  <1>2. IsFiniteSet(taken) /\ taken \in SUBSET Nat /\ \A i \in taken : id[i] \in I
    <2>1. IsFiniteSet(1 .. n)
      BY FS_Interval
    <2>2. taken \in SUBSET (1 .. n) /\ taken \in SUBSET Nat /\ \A i \in taken : id[i] \in I
      BY <1>1
    <2>3. QED
      BY <2>1, <2>2, FS_Subset
  <1>3. Those(id, taken) \in Seq(I)
    BY <1>1, <1>2, ThoseSeq
  <1>4. QED
    BY <1>3 DEF Firsts, taken, id

LEMMA StepBeginBatch ==
    ASSUME DiscInv, NEW h \in Handlers, BeginBatch(h)
    PROVE  DiscInv'
  <1>1. PICK S : \/ Go(h, [Idle EXCEPT !.pc = "fetch", !.batch = Firsts(Pending(S))])
                 \/ Go(h, [Idle EXCEPT !.pc = "extract", !.batch = Firsts(Unparsed(S))])
    BY DEF BeginBatch
  <1>2. DOMAIN disc = 1 .. Len(disc) /\ Len(disc) \in Nat /\ archived \subseteq DOMAIN disc
    BY Mine DEF DiscTypes
  <1>3. Pending(S) \in SUBSET (1 .. Len(disc)) /\ Unparsed(S) \in SUBSET (1 .. Len(disc)) /\ Unparsed(S) \subseteq archived
    BY <1>2 DEF Pending, Unparsed
  <1>4. Firsts(Pending(S)) \in Seq(Pending(S)) /\ Firsts(Unparsed(S)) \in Seq(Unparsed(S))
    BY <1>2, <1>3, FirstsSeq
  <1>5. PICK b \in Seq(Nat), pc \in {"fetch", "extract"} :
            /\ Go(h, [Idle EXCEPT !.pc = pc, !.batch = b])
            /\ Elements(b) \subseteq DOMAIN disc
            /\ pc = "extract" => Elements(b) \subseteq archived
    <2>1. Firsts(Pending(S)) \in Seq(Nat) /\ Firsts(Unparsed(S)) \in Seq(Nat)
      BY <1>3, <1>4, SeqMonotonic
    <2>2. Elements(Firsts(Pending(S))) \subseteq DOMAIN disc /\ Elements(Firsts(Unparsed(S))) \subseteq archived
      BY <1>2, <1>3, <1>4 DEF Elements
    <2>3. CASE Go(h, [Idle EXCEPT !.pc = "fetch", !.batch = Firsts(Pending(S))])
      BY <2>1, <2>2, <2>3
    <2>4. CASE Go(h, [Idle EXCEPT !.pc = "extract", !.batch = Firsts(Unparsed(S))])
      BY <1>2, <2>1, <2>2, <2>4
    <2>5. QED
      BY <1>1, <2>3, <2>4
  <1> DEFINE c == [Idle EXCEPT !.pc = pc, !.batch = b]
  <1>6. c \in Calls /\ c.pc = pc /\ c.batch = b
    BY IdleCall DEF Idle, Calls, Pcs
  <1>7. call' = [call EXCEPT ![h] = c] /\ UNCHANGED <<source, run, evidence, disc, archived, recorded>>
    BY <1>5 DEF Go, BeginBatch
  <1> HIDE DEF c
  <1>8. call'[h] = c
    BY <1>7, Mine
  <1>9. Promise(h)' /\ ~ Open(h)'
    BY <1>5, <1>6, <1>7, <1>8 DEF Promise, Owns, Tallies, Reached, Open, Crawling
  <1>10. QED
    BY <1>6, <1>7, <1>9, OnlyCall

-----------------------------------------------------------------------------
(* The crawler: downloads and parsing.                                     *)

LEMMA HeadAndTail ==
    ASSUME NEW S, NEW s \in Seq(S), s # <<>>
    PROVE  /\ Head(s) \in S /\ Tail(s) \in Seq(S) /\ Len(s) \in Nat /\ Len(s) # 0 /\ Len(Tail(s)) = Len(s) - 1
           /\ Elements(s) = {Head(s)} \cup Elements(Tail(s))
  <1>1. /\ Head(s) \in S /\ Tail(s) \in Seq(S) /\ Len(s) \in Nat /\ Len(s) # 0 /\ Len(Tail(s)) = Len(s) - 1
        /\ Head(s) = s[1] /\ \A i \in 1 .. Len(s) - 1 : Tail(s)[i] = s[i + 1]
    BY HeadTailProperties
  <1>2. DOMAIN s = 1 .. Len(s) /\ DOMAIN Tail(s) = 1 .. Len(s) - 1
    BY <1>1
  <1>3. \A i \in DOMAIN s : s[i] \in {Head(s)} \cup Elements(Tail(s))
    <2> SUFFICES ASSUME NEW i \in DOMAIN s PROVE s[i] \in {Head(s)} \cup Elements(Tail(s))
      OBVIOUS
    <2>1. CASE i = 1
      BY <1>1, <2>1
    <2>2. CASE i # 1
      <3>1. i - 1 \in 1 .. Len(s) - 1 /\ s[i] = Tail(s)[i - 1]
        BY <1>1, <1>2, <2>2
      <3>2. QED
        BY <1>2, <3>1 DEF Elements
    <2>3. QED
      BY <2>1, <2>2
  <1>4. {Head(s)} \cup Elements(Tail(s)) \subseteq Elements(s)
    <2>1. 1 \in DOMAIN s /\ \A i \in DOMAIN Tail(s) : i + 1 \in DOMAIN s
      BY <1>1, <1>2
    <2>2. QED
      BY <1>1, <1>2, <2>1 DEF Elements
  <1>5. QED
    BY <1>1, <1>3, <1>4 DEF Elements

\* A step of a batch: statuses change, the archive and the records grow.
LEMMA BatchStep ==
    ASSUME DiscInv, NEW h \in Handlers, ~ Crawling(h), NEW c \in Calls, call' = [call EXCEPT ![h] = c],
           c.pc \in {"idle", "fetch", "extract", "status", "write"}, UNCHANGED <<source, run, evidence>>,
           disc' \in Seq(DiscRows), DOMAIN disc' = DOMAIN disc,
           \A i \in DOMAIN disc : disc'[i].source = disc[i].source /\ disc'[i].url = disc[i].url
                                  /\ disc'[i].first = disc[i].first,
           archived \subseteq archived', archived' \subseteq DOMAIN disc,
           recorded \subseteq recorded', recorded' \subseteq archived', StatusEarned', Reached(h)'
    PROVE  DiscInv'
  <1>1. DiscTypes'
    BY Mine DEF DiscTypes
  <1>2. Registered'
    BY Mine DEF Registered
  <1>3. Kept
    BY DEF Kept, OnFile
  <1>4. Elsewhere(h)
    BY DEF Elsewhere, NewIn
  <1>5. call'[h] = c /\ \A g \in Handlers \ {h} : call'[g] = call[g]
    BY Mine DEF DiscTypes
  <1>6. ~ Open(h) /\ ~ Open(h)' /\ Promise(h)'
    BY <1>5 DEF Promise, Owns, Tallies, Crawling, Open
  <1>7. QED
    BY <1>1, <1>2, <1>3, <1>4, <1>5, <1>6, OneProcess

\* The document a batch is at.
LEMMA AtSubject ==
    ASSUME DiscInv, NEW h \in Handlers, call[h].pc \in {"fetch", "extract", "status", "write"}, call[h].batch # <<>>
    PROVE  /\ ~ Crawling(h) /\ DOMAIN disc = 1 .. Len(disc) /\ Subject(h) \in DOMAIN disc
           /\ disc[Subject(h)] \in DiscRows /\ disc \in Seq(DiscRows)
           /\ call[h].pc = "extract" => Subject(h) \in archived
           /\ Advance(h) \in Calls /\ Advance(h).pc = call[h].pc
           /\ Elements(Advance(h).batch) \subseteq Elements(call[h].batch)
           /\ Elements(call[h].batch) \subseteq DOMAIN disc
           /\ archived \subseteq DOMAIN disc /\ recorded \subseteq archived
  <1>1. call[h] \in Calls /\ DiscTypes /\ Reached(h)
    BY Mine DEF Promise
  <1>2. /\ Head(call[h].batch) \in Elements(call[h].batch) /\ Tail(call[h].batch) \in Seq(Nat)
        /\ Elements(Tail(call[h].batch)) \subseteq Elements(call[h].batch)
    <2>1. call[h].batch \in Seq(Nat)
      BY <1>1 DEF Calls
    <2>2. QED
      BY <2>1, HeadAndTail
  <1>3. Elements(call[h].batch) \subseteq DOMAIN disc /\ (call[h].pc = "extract" => Elements(call[h].batch) \subseteq archived)
    BY <1>1 DEF Reached
  <1>4. /\ Advance(h) \in Calls /\ Advance(h).pc = call[h].pc /\ Advance(h).batch = Tail(call[h].batch)
    BY <1>1, <1>2 DEF Advance, Calls
  <1>5. DOMAIN disc = 1 .. Len(disc) /\ disc \in Seq(DiscRows) /\ archived \subseteq DOMAIN disc /\ recorded \subseteq archived
    BY <1>1 DEF DiscTypes
  <1>6. Subject(h) \in DOMAIN disc /\ (call[h].pc = "extract" => Subject(h) \in archived)
    BY <1>2, <1>3 DEF Subject
  <1>7. disc[Subject(h)] \in DiscRows
    BY <1>5, <1>6
  <1>8. QED
    BY <1>2, <1>3, <1>4, <1>5, <1>6, <1>7 DEF Crawling, Open

\* A batch goes on to its next document, or ends.
LEMMA MovesOn ==
    ASSUME DiscInv, NEW h \in Handlers, call[h].pc \in {"fetch", "extract"}, call[h].batch # <<>>,
           UNCHANGED <<source, run, evidence, disc, archived, recorded>>, Go(h, Idle) \/ Go(h, Advance(h))
    PROVE  DiscInv'
  <1>1. CASE Go(h, Idle)
    BY <1>1, Ends
  <1>2. CASE Go(h, Advance(h))
    <2> DEFINE c == Advance(h)
    <2>1. c \in Calls /\ call' = [call EXCEPT ![h] = c] /\ call'[h] = c
      BY <1>2, AtSubject, Mine DEF Go
    <2>2. c.pc = call[h].pc /\ Elements(c.batch) \subseteq Elements(call[h].batch)
      BY AtSubject
    <2> HIDE DEF c
    <2>3. Reached(h)
      BY Mine DEF Promise
    <2>4. Promise(h)' /\ ~ Open(h)'
      BY <2>1, <2>2, <2>3 DEF Promise, Owns, Tallies, Reached, Open, Crawling
    <2>5. QED
      BY <2>1, <2>4, OnlyCall
  <1>3. QED
    BY <1>1, <1>2

\* A batch gives the document at its head a status it has earned.
LEMMA GivesStatus ==
    ASSUME DiscInv, NEW h \in Handlers, call[h].pc \in {"fetch", "extract"}, call[h].batch # <<>>,
           NEW status \in {"rejected", "downloaded", "parsed"}, ToStatus(h, status),
           UNCHANGED <<source, run, evidence, disc>>,
           archived' \in {archived, archived \cup {Subject(h)}},
           recorded' = recorded \/ (recorded' = recorded \cup {Subject(h)} /\ call[h].pc = "extract"),
           status = "downloaded" => Subject(h) \in archived',
           status = "parsed" => call[h].pc = "extract" /\ Subject(h) \in recorded'
    PROVE  DiscInv'
  <1> DEFINE c == [call[h] EXCEPT !.pc = "status", !.status = status]
  <1>1. c \in Calls /\ c.pc = "status" /\ c.status = status /\ c.batch = call[h].batch
    <2>1. call[h] \in Calls
      BY Mine
    <2>2. QED
      BY <2>1 DEF Calls, Pcs, Statuses
  <1>2. call' = [call EXCEPT ![h] = c] /\ call'[h] = c
    BY Mine DEF ToStatus, Go
  <1> HIDE DEF c
  <1>3. archived \subseteq archived' /\ archived' \subseteq DOMAIN disc /\ recorded \subseteq recorded' /\ recorded' \subseteq archived'
    BY AtSubject
  <1>4. StatusEarned'
    BY <1>3, Mine DEF Registered, StatusEarned
  <1>5. call[h].pc = "extract" => Elements(call[h].batch) \subseteq archived
    BY Mine DEF Promise, Reached
  <1>6. Reached(h)'
    BY <1>1, <1>2, <1>3, <1>5, AtSubject DEF Reached, Subject
  <1>7. disc \in Seq(DiscRows) /\ ~ Crawling(h)
    BY AtSubject
  <1>8. QED
    BY <1>1, <1>2, <1>3, <1>4, <1>6, <1>7, BatchStep

LEMMA StepAcquire ==
    ASSUME DiscInv, NEW h \in Handlers, Acquire(h)
    PROVE  DiscInv'
  <1>1. call[h].pc = "fetch" /\ call[h].batch # <<>> /\ UNCHANGED <<source, run, evidence, disc, recorded>>
    BY DEF Acquire, At
  <1>2. \/ ToStatus(h, "rejected") /\ UNCHANGED archived
        \/ Go(h, Advance(h)) /\ UNCHANGED archived
        \/ archived' = archived \cup {Subject(h)} /\ ToStatus(h, "downloaded")
        \/ Go(h, Idle) /\ UNCHANGED archived
    BY DEF Acquire
  <1>3. CASE ToStatus(h, "rejected") /\ UNCHANGED archived
    BY <1>1, <1>3, GivesStatus
  <1>4. CASE archived' = archived \cup {Subject(h)} /\ ToStatus(h, "downloaded")
    BY <1>1, <1>4, GivesStatus
  <1>5. CASE (Go(h, Advance(h)) \/ Go(h, Idle)) /\ UNCHANGED archived
    BY <1>1, <1>5, MovesOn
  <1>6. QED
    BY <1>2, <1>3, <1>4, <1>5

LEMMA StepParse ==
    ASSUME DiscInv, NEW h \in Handlers, Parse(h)
    PROVE  DiscInv'
  <1>1. call[h].pc = "extract" /\ call[h].batch # <<>> /\ UNCHANGED <<source, run, evidence, disc, archived>>
    BY DEF Parse, At
  <1>2. CASE recorded' = recorded \cup {Subject(h)} /\ ToStatus(h, "parsed")
    BY <1>1, <1>2, GivesStatus
  <1>3. CASE Go(h, Advance(h)) /\ UNCHANGED recorded
    BY <1>1, <1>3, MovesOn
  <1>4. QED
    BY <1>2, <1>3 DEF Parse

\* The next document of a batch, after the status of this one is settled.
LEMMA NextInBatch ==
    ASSUME DiscInv, NEW h \in Handlers, call[h].pc \in {"status", "write"}
    PROVE  LET c == [Advance(h) EXCEPT !.pc = Back(h)] IN
           /\ call[h].batch # <<>> /\ call[h].status \in {"rejected", "downloaded", "parsed"}
           /\ c \in Calls /\ c.pc \in {"fetch", "extract"}
           /\ Elements(c.batch) \subseteq DOMAIN disc
           /\ c.pc = "extract" => Elements(c.batch) \subseteq archived
  <1> DEFINE c == [Advance(h) EXCEPT !.pc = Back(h)]
  <1>1. Reached(h)
    BY Mine DEF Promise
  <1>2. call[h].batch # <<>> /\ call[h].status \in {"rejected", "downloaded", "parsed"}
    BY <1>1 DEF Reached
  <1>3. Advance(h) \in Calls /\ Back(h) \in {"fetch", "extract"}
    BY <1>2, AtSubject DEF Back
  <1>4. c \in Calls /\ c.pc = Back(h) /\ c.batch = Advance(h).batch
    BY <1>3 DEF Calls, Pcs
  <1> HIDE DEF c
  <1>5. Elements(c.batch) \subseteq Elements(call[h].batch) /\ Elements(call[h].batch) \subseteq DOMAIN disc
    BY <1>2, <1>4, AtSubject
  <1>6. c.pc = "extract" => call[h].status = "parsed"
    BY <1>4 DEF Back
  <1>7. call[h].status = "parsed" => Elements(call[h].batch) \subseteq archived
    BY <1>1 DEF Reached
  <1>8. QED
    BY <1>2, <1>3, <1>4, <1>5, <1>6, <1>7 DEF c

LEMMA StepReadStatus ==
    ASSUME DiscInv, NEW h \in Handlers, ReadStatus(h)
    PROVE  DiscInv'
  <1>1. call[h].pc = "status" /\ UNCHANGED <<source, run, evidence, disc, archived, recorded>>
    BY DEF ReadStatus, At
  <1>2. Reached(h) /\ call[h] \in Calls
    BY Mine DEF Promise
  <1>3. CASE Go(h, [Advance(h) EXCEPT !.pc = Back(h)])
    <2> DEFINE c == [Advance(h) EXCEPT !.pc = Back(h)]
    <2>1. /\ c \in Calls /\ c.pc \in {"fetch", "extract"}
          /\ Elements(c.batch) \subseteq DOMAIN disc
          /\ c.pc = "extract" => Elements(c.batch) \subseteq archived
      BY <1>1, NextInBatch
    <2>2. call' = [call EXCEPT ![h] = c] /\ call'[h] = c
      BY <1>3, Mine DEF Go
    <2> HIDE DEF c
    <2>3. Promise(h)' /\ ~ Open(h)'
      BY <1>1, <2>1, <2>2 DEF Promise, Owns, Tallies, Reached, Open, Crawling
    <2>4. QED
      BY <1>1, <2>1, <2>2, <2>3, OnlyCall
  <1>4. CASE Go(h, [call[h] EXCEPT !.pc = "write"])
    <2> DEFINE c == [call[h] EXCEPT !.pc = "write"]
    <2>1. c \in Calls /\ c.pc = "write" /\ c.batch = call[h].batch /\ c.status = call[h].status
      BY <1>2 DEF Calls, Pcs
    <2>2. call' = [call EXCEPT ![h] = c] /\ call'[h] = c
      BY <1>4, Mine DEF Go
    <2> HIDE DEF c
    <2>3. Promise(h)' /\ ~ Open(h)'
      BY <1>1, <1>2, <2>1, <2>2 DEF Promise, Owns, Tallies, Reached, Open, Crawling
    <2>4. QED
      BY <1>1, <2>1, <2>2, <2>3, OnlyCall
  <1>5. QED
    BY <1>3, <1>4 DEF ReadStatus

LEMMA StepWriteStatus ==
    ASSUME DiscInv, NEW h \in Handlers, WriteStatus(h)
    PROVE  DiscInv'
  <1> DEFINE c == [Advance(h) EXCEPT !.pc = Back(h)]
             x == Subject(h)
             status == call[h].status
  <1>1. /\ call[h].pc = "write" /\ UNCHANGED <<source, run, evidence, archived, recorded>>
        /\ disc' = [disc EXCEPT ![x].status = status] /\ call' = [call EXCEPT ![h] = c] /\ call'[h] = c
    BY Mine DEF WriteStatus, At, Go
  <1>2. /\ call[h].batch # <<>> /\ status \in {"rejected", "downloaded", "parsed"}
        /\ c \in Calls /\ c.pc \in {"fetch", "extract"}
        /\ Elements(c.batch) \subseteq DOMAIN disc
        /\ c.pc = "extract" => Elements(c.batch) \subseteq archived
    BY <1>1, NextInBatch
  <1>3. /\ ~ Crawling(h) /\ x \in DOMAIN disc /\ disc[x] \in DiscRows /\ disc \in Seq(DiscRows)
        /\ DOMAIN disc = 1 .. Len(disc) /\ archived \subseteq DOMAIN disc /\ recorded \subseteq archived
    BY <1>1, <1>2, AtSubject
  <1>4. (status = "downloaded" => x \in archived) /\ (status = "parsed" => x \in archived /\ x \in recorded)
    BY <1>1, <1>3, Mine DEF Promise, Reached, Subject
  <1> HIDE DEF c, x, status
  <1>5. [disc[x] EXCEPT !.status = status] \in DiscRows
    BY <1>2, <1>3 DEF DiscRows, Statuses
  <1>6. disc' = [disc EXCEPT ![x] = [disc[x] EXCEPT !.status = status]]
    BY <1>1, <1>3
  <1>7. disc' \in Seq(DiscRows) /\ DOMAIN disc' = DOMAIN disc
    BY <1>3, <1>5, <1>6, ExceptSeq
  <1>8. /\ \A i \in DOMAIN disc : disc'[i].source = disc[i].source /\ disc'[i].url = disc[i].url
                                  /\ disc'[i].first = disc[i].first
        /\ \A i \in DOMAIN disc : disc'[i].status = disc[i].status \/ (i = x /\ disc'[i].status = status)
    BY <1>3, <1>6 DEF DiscRows
  <1>9. StatusEarned'
    BY <1>1, <1>4, <1>7, <1>8, Mine DEF Registered, StatusEarned
  <1>10. Reached(h)'
    BY <1>1, <1>2, <1>7 DEF Reached
  <1>11. QED
    BY <1>1, <1>2, <1>3, <1>7, <1>8, <1>9, <1>10, BatchStep

-----------------------------------------------------------------------------
(* The crawler: a crawl.                                                   *)

LEMMA LeastMember ==
    ASSUME NEW S \in SUBSET Nat, S # {}
    PROVE  (CHOOSE s \in S : \A t \in S : s <= t) \in S
  <1>1. OpToRel(<, Nat) = {z \in Nat \X Nat : z[1] < z[2]}
    BY DEF OpToRel
  <1>2. PICK R : R = {z \in Nat \X Nat : z[1] < z[2]} /\ IsWellFoundedOn(R, Nat)
    BY <1>1, NatLessThanWellFounded, Zenon
  <1>3. PICK x \in S : \A y \in S : ~ (<<y, x>> \in R)
    BY <1>2, WFMin
  <1>4. \A y \in S : x <= y
    <2>1. ASSUME NEW y \in S, y < x PROVE <<y, x>> \in R
      BY <1>2, <2>1
    <2>2. \A y \in S : x \in Nat /\ y \in Nat /\ ~(y < x)
      BY <1>3, <2>1
    <2>3. QED
      BY <2>2
  <1>5. QED
    BY <1>3, <1>4

\* One more index.
LEMMA OneMore ==
    ASSUME NEW n \in Nat, NEW I \in SUBSET (1 .. n)
    PROVE  Cardinality(I) \in Nat /\ Cardinality(I \cup {n + 1}) = Cardinality(I) + 1
  <1>1. IsFiniteSet(1 .. n) /\ n + 1 \notin I
    BY FS_Interval
  <1>2. IsFiniteSet(I)
    BY <1>1, FS_Subset
  <1>3. QED
    BY <1>1, <1>2, FS_AddElement, FS_CardinalityType

LEMMA StepStartRun ==
    ASSUME DiscInv, NEW h \in Handlers, StartRun(h)
    PROVE  DiscInv'
  <1>0. PICK r : r = Len(run) + 1
    OBVIOUS
  <1> DEFINE s == NextSource(h)
             row == [source |-> s, status |-> "running", pages |-> 0, links |-> 0, fresh |-> 0,
                     known |-> 0, cfg |-> call[h].rows[s]]
             c == IF Adapter[s] \in Adapters
                  THEN [Idle EXCEPT !.pc = "page", !.todo = call[h].todo \ {s}, !.rows = call[h].rows,
                                    !.run = r, !.queue = <<Root[s]>>]
                  ELSE [Idle EXCEPT !.pc = "close", !.todo = call[h].todo \ {s}, !.rows = call[h].rows,
                                    !.run = r, !.outcome = "error"]
  <1>1. /\ call[h].pc = "source" /\ call[h].todo # {} /\ Len(run) < MaxRuns /\ run' = Append(run, row)
        /\ Go(h, c) /\ evidence' = Append(evidence, <<>>) /\ UNCHANGED <<source, disc, archived, recorded>>
    BY <1>0 DEF StartRun, At
  <1>2. /\ call[h] \in Calls /\ call[h].rows \in [Sources -> SourceRows] /\ ~ Open(h)
        /\ DOMAIN run = 1 .. Len(run) /\ Len(run) \in Nat /\ DOMAIN evidence = 1 .. Len(run)
        /\ DiscTypes /\ Registered /\ r \in Nat /\ r \notin DOMAIN run
    BY <1>0, <1>1, Mine DEF Promise, Owns, Open
  <1>3. s \in Sources /\ call[h].todo \subseteq Sources
    <2>1. call[h].todo \in SUBSET Nat /\ call[h].todo \subseteq Sources
      BY <1>2, DiscoveryAssumption DEF Calls
    <2>2. QED
      BY <1>1, <2>1, LeastMember DEF NextSource
  <1>4. call[h].rows[s] \in SourceRows /\ <<Root[s]>> \in Seq(Pages) /\ 0 \in 0 .. MaxPages
    <2>1. Root[s] \in Pages /\ MaxPages \in Nat
      BY <1>3, DiscoveryAssumption
    <2>2. QED
      BY <1>2, <1>3, <2>1
  <1> HIDE DEF s
  <1>5. row \in RunRows
    BY <1>3, <1>4 DEF RunRows
  <1>6. /\ c \in Calls /\ c.run = r /\ c.rows = call[h].rows /\ c.links = <<>> /\ c.pages = 0 /\ c.fresh = 0
        /\ c.seen = 0 /\ c.known = 0
        /\ \/ c.pc = "page" /\ c.outcome = "ok"
           \/ c.pc = "close" /\ c.outcome = "error"
    <2>1. r \in Nat /\ call[h].todo \ {s} \in SUBSET Sources
      BY <1>2, <1>3
    <2>2. CASE Adapter[s] \in Adapters
      BY <1>2, <1>4, <2>1, <2>2, IdleCall DEF Idle, Calls, Pcs
    <2>3. CASE Adapter[s] \notin Adapters
      BY <1>2, <1>4, <2>1, <2>3, IdleCall DEF Idle, Calls, Pcs
    <2>4. QED
      BY <2>2, <2>3
  <1>7. row.source = s /\ row.status = "running" /\ row.cfg = call[h].rows[s]
    OBVIOUS
  <1> HIDE DEF c, row
  <1>8. call' = [call EXCEPT ![h] = c] /\ call'[h] = c /\ \A g \in Handlers \ {h} : call'[g] = call[g]
    BY <1>1, <1>2, Mine DEF Go
  <1>9. /\ DOMAIN run' = 1 .. r /\ run'[r] = row /\ \A x \in DOMAIN run : run'[x] = run[x]
        /\ evidence'[r] = <<>> /\ \A x \in DOMAIN run : evidence'[x] = evidence[x]
        /\ DOMAIN evidence' = 1 .. r
        /\ Len(run') = r
    BY <1>0, <1>1, <1>2 DEF DiscTypes
  <1>10. DiscTypes'
    <2>1. run' \in Seq(RunRows) /\ Len(run') <= MaxRuns
      BY <1>1, <1>2, <1>5, <1>9, DiscoveryAssumption DEF DiscTypes
    <2>2. evidence' \in Seq(Seq(Requested)) /\ Len(evidence') = Len(run')
      BY <1>1, <1>2, <1>9 DEF DiscTypes
    <2>3. call' \in [Handlers -> Calls]
      BY <1>2, <1>6, <1>8 DEF DiscTypes
    <2>4. QED
      BY <1>1, <1>2, <2>1, <2>2, <2>3 DEF DiscTypes
  <1>11. Registered'
    <2>1. StatusEarned'
      BY <1>1, <1>2 DEF Registered, StatusEarned
    <2>2. \A i \in DOMAIN disc : disc[i].first <= r
      <3>1. \A i \in DOMAIN disc : disc[i] \in DiscRows
        BY <1>2 DEF DiscTypes
      <3>2. \A i \in DOMAIN disc : disc[i].first \in Nat /\ disc[i].first <= Len(run)
        BY <1>2, <3>1 DEF Registered, DiscRows
      <3>3. QED
        BY <1>0, <1>2, <3>2
    <2>3. QED
      BY <1>1, <1>2, <1>9, <2>1, <2>2 DEF Registered
  <1>12. Kept
    BY <1>1, <1>2, <1>9 DEF Kept, OnFile
  <1>13. Elsewhere(h)
    BY <1>1, <1>9 DEF Elsewhere, NewIn
  <1>14. Responses(call[h].run)' = {} /\ PagesSeen(call[h].run)' = {}
    BY <1>6, <1>8, <1>9 DEF Responses, PagesSeen
  <1>15. NewIn(call[h].run)' = {}
    <2>1. \A i \in DOMAIN disc : disc[i] \in DiscRows
      BY <1>2 DEF DiscTypes
    <2>2. \A i \in DOMAIN disc : disc[i].first # r
      BY <1>0, <1>2, <2>1 DEF Registered, DiscRows
    <2>3. QED
      BY <1>1, <1>6, <1>8, <2>2 DEF NewIn
  <1>17. Told(r)'
    BY <1>7, <1>9 DEF Told, Finished
  <1>18. Owns(h)'
    BY <1>0, <1>2, <1>6, <1>7, <1>8, <1>9 DEF Owns, Crawling, Open, Row
  <1>19. Tallies(h)'
    <2>1. Cardinality({}) = 0 /\ Len(<<>>) = 0
      BY FS_EmptySet
    <2>2. call'[h].run = r /\ call'[h].links = <<>>
          /\ (\/ call'[h].pc = "page" /\ call'[h].outcome = "ok"
              \/ call'[h].pc = "close" /\ call'[h].outcome = "error")
      BY <1>6, <1>8
    <2>3. call'[h].pages = Cardinality(Responses(call[h].run)') /\ call'[h].fresh = Cardinality(NewIn(call[h].run)')
      BY <1>6, <1>8, <1>14, <1>15, <2>1
    <2>4. call'[h].seen = call'[h].fresh + call'[h].known + Len(call'[h].links)
      BY <1>6, <1>8, <2>1
    <2>5. \A X : Harvested(call[h].run, X)'
      BY <1>14 DEF Harvested
    <2>6. \A i \in DOMAIN evidence'[call'[h].run] : FALSE
      BY <1>9, <2>2
    <2>7. QED
      BY <2>2, <2>3, <2>4, <2>5, <2>6 DEF Tallies
  <1>20. Reached(h)'
    BY <1>6, <1>8 DEF Reached
  <1>21. \A x \in DOMAIN run' : x \notin DOMAIN run => x = r
    BY <1>0, <1>2, <1>9
  <1>22. QED
    BY <1>21, <1>6, <1>8, <1>9, <1>10, <1>11, <1>12, <1>13, <1>17, <1>18, <1>19, <1>20, <1>2, OneProcess DEF Promise

\* A crawl goes on without a statement that writes.
LEMMA StaysOpen ==
    ASSUME DiscInv, NEW h \in Handlers, Open(h), call[h].pc # "close", NEW c \in Calls, call' = [call EXCEPT ![h] = c],
           UNCHANGED <<source, run, evidence, disc, archived, recorded>>,
           c.pc \in {"page", "link", "insert"}, c.run = call[h].run, c.rows = call[h].rows, c.pages = call[h].pages,
           c.fresh = call[h].fresh, c.outcome = call[h].outcome,
           c.pc = "page" => c.links = <<>>, c.pc = "insert" => c.links # <<>>,
           call[h].seen = call[h].fresh + call[h].known + Len(call[h].links) => c.seen = c.fresh + c.known + Len(c.links),
           \A d \in Elements(call[h].links) : OnFile(Here(h), d) \/ d \in Elements(c.links)
    PROVE  DiscInv'
  <1>1. call'[h] = c /\ Owns(h) /\ Tallies(h) /\ call[h] \in Calls
    BY Mine DEF Promise
  <1>2. Owns(h)' /\ Open(h)'
    BY <1>1 DEF Owns, Crawling, Open, Row
  <1>3. Reached(h)'
    BY <1>1 DEF Reached
  <1> DEFINE r == call[h].run
  <1>4. Responses(r)' = Responses(r) /\ PagesSeen(r)' = PagesSeen(r) /\ NewIn(r)' = NewIn(r)
        /\ \A s, d : OnFile(s, d)' = OnFile(s, d)
    BY <1>1 DEF Responses, PagesSeen, NewIn, OnFile
  <1>6. run[r].source = Here(h)
    BY DEF Here
  <1> HIDE DEF r
  <1>7. Tallies(h)'
    BY <1>1, <1>4, <1>6, ZenonT(60) DEF Tallies, Harvested, Open, r
  <1>8. QED
    BY <1>1, <1>2, <1>3, <1>7, OnlyCall DEF Promise

LEMMA StepSkipVisited ==
    ASSUME DiscInv, NEW h \in Handlers, SkipVisited(h)
    PROVE  DiscInv'
  <1> DEFINE c == [call[h] EXCEPT !.queue = Tail(@)]
  <1>1. /\ call[h].pc = "page" /\ call[h].queue # <<>> /\ Go(h, c) /\ Open(h)
        /\ UNCHANGED <<source, run, evidence, disc, archived, recorded>>
    BY DEF SkipVisited, At, MorePages, Open
  <1>2. call[h] \in Calls /\ Tallies(h)
    BY Mine DEF Promise
  <1>3. Tail(call[h].queue) \in Seq(Pages)
    BY <1>1, <1>2 DEF Calls
  <1>4. c \in Calls /\ c = [call[h] EXCEPT !.queue = Tail(call[h].queue)]
    BY <1>2, <1>3 DEF Calls
  <1>5. /\ c.pc = "page" /\ c.run = call[h].run /\ c.rows = call[h].rows /\ c.pages = call[h].pages
        /\ c.fresh = call[h].fresh /\ c.outcome = call[h].outcome /\ c.links = call[h].links
        /\ c.seen = call[h].seen /\ c.known = call[h].known
    BY <1>1, <1>2 DEF Calls
  <1>6. call' = [call EXCEPT ![h] = c] /\ call[h].links = <<>>
    BY <1>1, <1>2 DEF Go, Tallies
  <1> HIDE DEF c
  <1>7. QED
    BY <1>1, <1>4, <1>5, <1>6, StaysOpen

LEMMA StepFollowLinks ==
    ASSUME DiscInv, NEW h \in Handlers, FollowLinks(h)
    PROVE  DiscInv'
  <1> DEFINE q == call[h].queue \o Without(call[h].follow, call[h].visited)
             c == [call[h] EXCEPT !.pc = "page", !.follow = <<>>, !.queue = q]
  <1>1. /\ call[h].pc = "link" /\ call[h].links = <<>> /\ Go(h, c) /\ Open(h)
        /\ UNCHANGED <<source, run, evidence, disc, archived, recorded>>
    BY DEF FollowLinks, At, Open
  <1>2. call[h] \in Calls
    BY Mine
  <1>3. q \in Seq(Pages)
    <2>1. call[h].queue \in Seq(Pages) /\ call[h].follow \in Seq(Pages)
      BY <1>2 DEF Calls
    <2>2. QED
      BY <2>1, WithoutSeq, ConcatProperties
  <1> HIDE DEF q
  <1>4. c \in Calls
    <2>1. <<>> \in Seq(Pages)
      OBVIOUS
    <2>2. QED
      BY <1>2, <1>3, <2>1, ZenonT(60) DEF Calls, Pcs
  <1>5. /\ c.pc = "page" /\ c.run = call[h].run /\ c.rows = call[h].rows /\ c.pages = call[h].pages
        /\ c.fresh = call[h].fresh /\ c.outcome = call[h].outcome /\ c.links = call[h].links
        /\ c.seen = call[h].seen /\ c.known = call[h].known
    BY <1>2 DEF Calls
  <1>6. call' = [call EXCEPT ![h] = c]
    BY <1>1 DEF Go
  <1> HIDE DEF c
  <1>7. QED
    BY <1>1, <1>4, <1>5, <1>6, StaysOpen

LEMMA StepLookUpLink ==
    ASSUME DiscInv, NEW h \in Handlers, LookUpLink(h)
    PROVE  DiscInv'
  <1>1. /\ call[h].pc = "link" /\ call[h].links # <<>> /\ Open(h)
        /\ UNCHANGED <<source, run, evidence, disc, archived, recorded>>
    BY DEF LookUpLink, At, Open
  <1>2. call[h] \in Calls /\ call[h].links \in Seq(Docs) /\ call[h].known \in Nat /\ call[h].seen \in Nat
        /\ call[h].fresh \in Nat
    BY Mine DEF Calls
  <1>3. /\ Tail(call[h].links) \in Seq(Docs) /\ Len(call[h].links) \in Nat
        /\ Len(Tail(call[h].links)) = Len(call[h].links) - 1
        /\ Elements(call[h].links) = {Head(call[h].links)} \cup Elements(Tail(call[h].links))
    BY <1>1, <1>2, HeadAndTail
  <1>4. CASE OnFile(Here(h), Head(call[h].links))
    <2> DEFINE c == [call[h] EXCEPT !.links = Tail(call[h].links), !.known = call[h].known + 1]
    <2>1. call' = [call EXCEPT ![h] = c]
      BY <1>4 DEF LookUpLink, Go
    <2>2. c \in Calls
      <3>1. call[h].known + 1 \in Nat
        BY <1>2
      <3>2. QED
        BY <1>2, <1>3, <3>1, ZenonT(60) DEF Calls
    <2>3. /\ c.pc = "link" /\ c.run = call[h].run /\ c.rows = call[h].rows /\ c.pages = call[h].pages
          /\ c.fresh = call[h].fresh /\ c.outcome = call[h].outcome /\ c.links = Tail(call[h].links)
          /\ c.seen = call[h].seen /\ c.known = call[h].known + 1
      BY <1>1, <1>2 DEF Calls
    <2> HIDE DEF c
    <2>4. call[h].seen = call[h].fresh + call[h].known + Len(call[h].links) => c.seen = c.fresh + c.known + Len(c.links)
      <3>1. Len(c.links) = Len(call[h].links) - 1
        BY <1>3, <2>3
      <3>2. call[h].seen = call[h].fresh + call[h].known + Len(call[h].links)
              => call[h].seen = call[h].fresh + (call[h].known + 1) + (Len(call[h].links) - 1)
        <4>1. call[h].seen \in Nat /\ call[h].fresh \in Nat /\ call[h].known \in Nat /\ Len(call[h].links) \in Nat
          BY <1>2, <1>3
        <4>2. QED
          BY <4>1, SMTT(30)
      <3>3. QED
        BY <2>3, <3>1, <3>2
    <2>5. QED
      BY <1>1, <1>3, <1>4, <2>1, <2>2, <2>3, <2>4, StaysOpen
  <1>5. CASE ~ OnFile(Here(h), Head(call[h].links))
    <2> DEFINE c == [call[h] EXCEPT !.pc = "insert"]
    <2>1. call' = [call EXCEPT ![h] = c]
      BY <1>5 DEF LookUpLink, Go
    <2>2. c \in Calls
      BY <1>2 DEF Calls, Pcs
    <2>3. /\ c.pc = "insert" /\ c.run = call[h].run /\ c.rows = call[h].rows /\ c.pages = call[h].pages
          /\ c.fresh = call[h].fresh /\ c.outcome = call[h].outcome /\ c.links = call[h].links
          /\ c.seen = call[h].seen /\ c.known = call[h].known
      BY <1>1, <1>2 DEF Calls
    <2> HIDE DEF c
    <2>4. QED
      BY <1>1, <2>1, <2>2, <2>3, StaysOpen
  <1>6. QED
    BY <1>4, <1>5

\* What a crawl sees of a request.
LEMMA SeenType ==
    ASSUME NEW got \in Seen
    PROVE  /\ got.kind \in {"response", "FetchError", "escaped"} /\ got.verified \in BOOLEAN /\ got.found \in BOOLEAN
           /\ got.found => got.kind = "response"
           /\ got.kind = "response" /\ ~ got.verified => got.fallback \/ ~ got.verify
  <1>0. PICK verify \in BOOLEAN, fallback \in BOOLEAN : got \in SeenUnder(verify, fallback)
    BY DEF Seen
  <1>1. PICK n \in Conditions : got = View(Get(n, verify, fallback, TRUE), verify, fallback)
    BY <1>0 DEF SeenUnder
  <1>2. Careful(Get(n, verify, fallback, TRUE), verify, fallback)
    BY GetCareful
  <1>3. PICK o \in Outcomes : Careful(o, verify, fallback) /\ got = View(o, verify, fallback)
    BY <1>1, <1>2, Zenon DEF Careful
  <1>4. /\ got.kind = o.kind /\ got.verified = o.verified /\ got.found = (o.kind = "response" /\ o.code = 200)
        /\ got.fallback = fallback /\ got.verify = verify
    BY <1>3 DEF View
  <1>5. o.kind \in {"response", "FetchError", "escaped"} /\ o.verified \in BOOLEAN
    BY DEF Outcomes
  <1>6. got.found \in BOOLEAN
    BY <1>4, Zenon
  <1>7. QED
    BY <1>3, <1>4, <1>5, <1>6 DEF Careful

LEMMA NoElements == Elements(<<>>) = {}
  <1>1. <<>> \in Seq({}) /\ Len(<<>>) = 0
    BY EmptySeq
  <1>2. DOMAIN <<>> = 1 .. 0
    BY <1>1, LenProperties
  <1>3. QED
    BY <1>2 DEF Elements

\* A request is logged, and its outcome is counted.
LEMMA Logged ==
    ASSUME DiscInv, NEW h \in Handlers, call[h].pc = "page", NEW c \in Calls, call' = [call EXCEPT ![h] = c],
           UNCHANGED <<source, run, disc, archived, recorded>>, NEW e \in Requested,
           evidence' = [evidence EXCEPT ![call[h].run] = Append(@, e)],
           e.kind = "response" /\ ~ e.verified => Row(h).fallback \/ ~ Row(h).verify,
           c.run = call[h].run, c.rows = call[h].rows, c.fresh = call[h].fresh, c.known = call[h].known,
           e.found => e.kind = "response",
           c.outcome \in {"ok", "error"}, c.outcome = "error" => c.pc = "close",
           e.kind = "response" => c.pages = call[h].pages + 1,
           e.kind = "FetchError" => c.pages = call[h].pages /\ c.outcome = "error",
           e.kind = "response" /\ ~ e.found /\ c.outcome = "ok" =>
               c.pc = "page" /\ c.links = call[h].links /\ c.seen = call[h].seen,
           e.found /\ c.outcome = "ok" =>
               c.pc = "link" /\ c.links = DocumentsOn[Here(h)][e.page] /\ c.seen = call[h].seen + Len(c.links)
    PROVE  DiscInv'
  <1> DEFINE E == evidence[call[h].run]
             n == Len(E)
  <1>0. PICK r : r = call[h].run
    OBVIOUS
  <1>1. /\ Open(h) /\ call[h] \in Calls /\ Owns(h) /\ Tallies(h) /\ DiscTypes /\ Registered /\ call'[h] = c
        /\ DOMAIN run = 1 .. Len(run) /\ Len(run) \in Nat /\ DOMAIN evidence = 1 .. Len(run)
        /\ r \in DOMAIN run /\ E \in Seq(Requested) /\ \A g \in Handlers \ {h} : call'[g] = call[g]
    BY <1>0, Mine DEF Open, Crawling, Promise
  <1>2. /\ call[h].links = <<>> /\ call[h].outcome = "ok" /\ \A i \in DOMAIN E : E[i].kind # "FetchError"
        /\ call[h].pages = Cardinality(Responses(r)) /\ call[h].fresh = Cardinality(NewIn(r))
        /\ call[h].seen = call[h].fresh + call[h].known + Len(<<>>) /\ Harvested(r, Elements(<<>>))
        /\ run[r].status = "running" /\ run[r].cfg = Row(h) /\ run[r].source = Here(h)
    <2>1. call[h].outcome = "ok"
      BY <1>1 DEF Tallies, Calls
    <2>2. call[h].links = <<>>
      BY <1>1 DEF Tallies
    <2>3. QED
      BY <1>0, <1>1, <2>1, <2>2 DEF Tallies, Owns, Here
  <1>3. /\ evidence'[r] = Append(E, e) /\ \A x \in DOMAIN run \ {r} : evidence'[x] = evidence[x]
        /\ n \in Nat /\ DOMAIN E = 1 .. n /\ DOMAIN Append(E, e) = 1 .. n + 1 /\ Len(Append(E, e)) = n + 1
        /\ Append(E, e)[n + 1] = e /\ \A i \in 1 .. n : Append(E, e)[i] = E[i]
    BY <1>0, <1>1
  <1> HIDE DEF n
  <1>4. PICK F : F = Append(E, e)
    OBVIOUS
  <1>5. DiscTypes'
    <2>1. Append(E, e) \in Seq(Requested)
      BY <1>1
    <2>2. evidence' \in Seq(Seq(Requested)) /\ Len(evidence') = Len(evidence)
      <3>1. evidence \in Seq(Seq(Requested)) /\ r \in 1 .. Len(evidence)
        BY <1>1 DEF DiscTypes
      <3>2. evidence' = [evidence EXCEPT ![r] = F] /\ F \in Seq(Requested)
        BY <1>0, <1>4, <2>1
      <3>3. PICK T : T = Seq(Requested)
        OBVIOUS
      <3>4. evidence \in Seq(T) /\ F \in T
        BY <3>1, <3>2, <3>3
      <3>5. evidence' \in Seq(T) /\ Len(evidence') = Len(evidence)
        <4>1. r \in 1 .. Len(evidence)
          BY <3>1
        <4>2. /\ [evidence EXCEPT ![r] = F] \in Seq(T)
              /\ Len([evidence EXCEPT ![r] = F]) = Len(evidence)
          BY <3>4, <4>1, ExceptSeq
        <4>3. QED
          BY <3>2, <4>2
      <3>6. QED
        BY <3>3, <3>5
    <2>3. QED
      BY <1>1, <2>2 DEF DiscTypes
  <1>6. Registered' /\ Kept
    BY <1>1 DEF Registered, StatusEarned, Kept, OnFile
  <1>7. \A x : NewIn(x)' = NewIn(x)
    BY DEF NewIn
  <1>8. Elsewhere(h)
    BY <1>0, <1>1, <1>3, <1>7 DEF Elsewhere
  <1>9. Told(r)'
    <2>1. ASSUME NEW i \in DOMAIN Append(E, e), Append(E, e)[i].kind = "response", ~ Append(E, e)[i].verified
          PROVE  Row(h).fallback \/ ~ Row(h).verify
      <3>1. CASE i = n + 1
        BY <1>3, <2>1, <3>1
      <3>2. CASE i # n + 1
        <4>1. i \in 1 .. n
          BY <1>3, <3>2
        <4>2. E[i].kind = "response" /\ ~ E[i].verified
          BY <1>3, <2>1, <4>1
        <4>3. Told(r)
          BY <1>1 DEF DiscInv
        <4>4. QED
          BY <1>0, <1>2, <1>3, <4>1, <4>2, <4>3 DEF Told
      <3>3. QED
        BY <3>1, <3>2
    <2>2. QED
      BY <1>2, <1>3, <2>1, ZenonT(60) DEF Told, Finished
  <1>10. Owns(h)'
    BY <1>0, <1>1, <1>2 DEF Owns, Crawling, Open, Row
  <1>11. Reached(h)'
    <2>1. c.pc \in {"page", "link", "close"}
      BY DEF Requested
    <2>2. QED
      BY <1>1, <2>1 DEF Reached
  <1>12. Open(h)'
    BY <1>1 DEF Open, Requested
  <1>13. Responses(r) \in SUBSET (1 .. n) /\ PagesSeen(r) \subseteq 1 .. n
    BY <1>0, <1>3 DEF Responses, PagesSeen
  <1>14. /\ e.kind = "response" => Responses(r)' = Responses(r) \cup {n + 1}
         /\ e.kind # "response" => Responses(r)' = Responses(r)
    <2>1. Responses(r) = {i \in 1 .. n : E[i].kind = "response"}
      BY <1>0, <1>3 DEF Responses
    <2>2. Responses(r)' = {i \in 1 .. n + 1 : Append(E, e)[i].kind = "response"}
      BY <1>3 DEF Responses
    <2>3. /\ \A i \in 1 .. n : Append(E, e)[i] = E[i]
          /\ Append(E, e)[n + 1] = e
      BY <1>3
    <2>4. \A i : i \in 1 .. n + 1 <=> i \in 1 .. n \/ i = n + 1
      BY <1>3
    <2>5. n + 1 \notin 1 .. n
      BY <1>3
    <2>6. \A i : i \in Responses(r)' <=> i \in Responses(r) \/ (i = n + 1 /\ e.kind = "response")
      BY ONLY <2>1, <2>2, <2>3, <2>4, <2>5
    <2>7. QED
      BY ONLY <2>6
  <1>15. PagesSeen(r)' \subseteq PagesSeen(r) \cup {i \in {n + 1} : e.found}
    <2>1. PagesSeen(r) = {i \in 1 .. n : E[i].found}
      BY <1>0, <1>3 DEF PagesSeen
    <2>2. PagesSeen(r)' = {i \in 1 .. n + 1 : Append(E, e)[i].found}
      BY <1>3 DEF PagesSeen
    <2>3. /\ \A i \in 1 .. n : Append(E, e)[i] = E[i]
          /\ Append(E, e)[n + 1] = e
      BY <1>3
    <2>4. \A i : i \in 1 .. n + 1 <=> i \in 1 .. n \/ i = n + 1
      BY <1>3
    <2>5. n + 1 \notin 1 .. n
      BY <1>3
    <2>6. \A i : i \in PagesSeen(r)' <=> i \in PagesSeen(r) \/ (i = n + 1 /\ e.found)
      BY ONLY <2>1, <2>2, <2>3, <2>4, <2>5
    <2>7. QED
      BY ONLY <2>6
  <1>16. Tallies(h)'
    <2>1. call'[h] = c /\ c.run = r /\ call'[h].run = r
      BY <1>0, <1>1
    <2>2. c.pages = Cardinality(Responses(r)') /\ c.fresh = Cardinality(NewIn(r)')
      <3>1. Cardinality(Responses(r)) \in Nat /\ Cardinality(Responses(r) \cup {n + 1}) = Cardinality(Responses(r)) + 1
        BY <1>3, <1>13, OneMore
      <3>2. e.kind \in {"response", "FetchError"}
        BY DEF Requested
      <3>3. QED
        BY <1>2, <1>7, <1>14, <3>1, <3>2
    <2>3. \A i \in DOMAIN evidence'[r] : evidence'[r][i].kind = "FetchError" => i = Len(evidence'[r]) /\ c.pc = "close"
      BY <1>2, <1>3
    <2>4. c.outcome = "ok" => c.seen = c.fresh + c.known + Len(c.links)
      <3> SUFFICES ASSUME c.outcome = "ok" PROVE c.seen = c.fresh + c.known + Len(c.links)
        OBVIOUS
      <3>1. call[h].fresh \in Nat /\ call[h].known \in Nat /\ Len(<<>>) = 0 /\ c.links \in Seq(Docs) /\ call[h].seen \in Nat
        BY <1>1 DEF Calls
      <3>2. Len(c.links) \in Nat /\ call[h].seen = call[h].fresh + call[h].known
        BY <1>2, <3>1
      <3>3. CASE e.found
        BY <3>1, <3>2, <3>3
      <3>4. CASE ~ e.found
        BY <1>2, <3>1, <3>2, <3>4 DEF Requested
      <3>5. QED
        BY <3>3, <3>4
    <2>5. ASSUME c.outcome = "ok"
          PROVE  Harvested(r, Elements(c.links))'
      <3> SUFFICES ASSUME NEW i \in PagesSeen(r)', NEW d \in Elements(DocumentsOn[run[r].source][evidence'[r][i].page])
                   PROVE  OnFile(run[r].source, d) \/ d \in Elements(c.links)
        BY DEF Harvested, OnFile
      <3>1. CASE i \in PagesSeen(r)
        <4>1. evidence'[r][i] = evidence[r][i]
          BY <1>0, <1>3, <1>13, <3>1
        <4>2. Elements(<<>>) = {}
          BY NoElements
        <4>3. Harvested(r, Elements(<<>>)) /\ d \in Elements(DocumentsOn[run[r].source][evidence[r][i].page])
          BY <1>2, <4>1
        <4>4. OnFile(run[r].source, d) \/ d \in Elements(<<>>)
          BY <3>1, <4>3 DEF Harvested
        <4>5. QED
          BY <4>2, <4>4
      <3>2. CASE i \notin PagesSeen(r)
        <4>1. i = n + 1 /\ e.found
          BY <1>15, <3>2
        <4>2. evidence'[r][i] = e
          BY <1>3, <4>1
        <4>3. QED
          BY <1>2, <2>5, <4>1, <4>2
      <3>3. QED
        BY <3>1, <3>2
    <2>6. (c.pc = "page" => c.links = <<>>) /\ c.pc # "insert" /\ (c.pc = "close" <=> c.outcome = "error")
      BY <1>2 DEF Requested
    <2>7. QED
      BY <2>1, <2>2, <2>3, <2>4, <2>5, <2>6 DEF Tallies
  <1>17. QED
    BY <1>0, <1>1, <1>5, <1>6, <1>8, <1>9, <1>10, <1>11, <1>12, <1>16, OneProcess DEF Promise

LEMMA StepFetchPage ==
    ASSUME DiscInv, NEW h \in Handlers, FetchPage(h)
    PROVE  DiscInv'
  <1> DEFINE p == Head(call[h].queue)
             s == Here(h)
             b == [call[h] EXCEPT !.queue = Tail(@), !.visited = @ \cup {p}]
             e(got) == [page |-> p, kind |-> got.kind, verified |-> got.verified, found |-> got.found]
             failed == [b EXCEPT !.pc = "close", !.outcome = "error"]
             empty == [b EXCEPT !.pages = @ + 1]
             garbled == [b EXCEPT !.pc = "close", !.pages = @ + 1, !.outcome = "error"]
             read == [b EXCEPT !.pc = "link", !.pages = @ + 1, !.links = DocumentsOn[s][p],
                               !.seen = @ + Len(DocumentsOn[s][p]), !.follow = FollowOn[s][p]]
  <1>1. /\ call[h].pc = "page" /\ call[h].queue # <<>> /\ call[h].pages < MaxPages /\ Open(h) /\ Crawling(h)
        /\ UNCHANGED <<source, run, disc, archived, recorded>>
    BY DEF FetchPage, At, MorePages, Open, Crawling
  <1>2. PICK got \in Seen :
          /\ got.verify = Row(h).verify /\ got.fallback = Row(h).fallback
          /\ evidence' = IF got.kind = "escaped" THEN evidence
                         ELSE [evidence EXCEPT ![b.run] = Append(@, e(got))]
          /\ \/ got.kind = "escaped" /\ Go(h, Idle)
             \/ got.kind = "FetchError" /\ Go(h, failed)
             \/ got.kind = "response" /\ ~ got.found /\ Go(h, empty)
             \/ got.found /\ Go(h, garbled)
             \/ got.found /\ Go(h, read)
    BY DEF FetchPage
  <1>3. /\ call[h] \in Calls /\ s \in Sources /\ call[h].queue \in Seq(Pages) /\ call[h].visited \subseteq Pages
        /\ call[h].pages \in Nat /\ call[h].pages + 1 \in 0 .. MaxPages /\ call[h].seen \in Nat
    <2>1. call[h] \in Calls /\ s \in Sources
      BY <1>1, Mine
    <2>2. call[h].queue \in Seq(Pages) /\ call[h].visited \subseteq Pages /\ call[h].pages \in 0 .. MaxPages /\ call[h].seen \in Nat
      BY <2>1 DEF Calls
    <2>3. QED
      BY <1>1, <2>1, <2>2, DiscoveryAssumption
  <1>4. p \in Pages /\ Tail(call[h].queue) \in Seq(Pages)
    BY <1>1, <1>3
  <1>5. /\ DocumentsOn[s][p] \in Seq(Docs) /\ FollowOn[s][p] \in Seq(Pages)
        /\ call[h].seen + Len(DocumentsOn[s][p]) \in Nat
    <2>1. DocumentsOn[s][p] \in Seq(Docs) /\ FollowOn[s][p] \in Seq(Pages)
      BY <1>3, <1>4, PageYields
    <2>2. Len(DocumentsOn[s][p]) \in Nat
      BY <2>1, SMTT(30)
    <2>3. call[h].seen \in Nat
      BY <1>3
    <2>4. QED
      BY <2>1, <2>2, <2>3, SMTT(30)
  <1> HIDE DEF p, s
  <1>6. b \in Calls
    <2>1. call[h].visited \cup {p} \in SUBSET Pages
      BY <1>3, <1>4
    <2>2. b = [call[h] EXCEPT !.queue = Tail(call[h].queue), !.visited = call[h].visited \cup {p}]
      BY <1>3 DEF Calls
    <2>3. QED
      BY <1>3, <1>4, <2>1, <2>2, ZenonT(60) DEF Calls
  <1>7. /\ b.pc = "page" /\ b.run = call[h].run /\ b.rows = call[h].rows /\ b.links = call[h].links
        /\ b.pages = call[h].pages /\ b.seen = call[h].seen /\ b.fresh = call[h].fresh /\ b.known = call[h].known
        /\ b.outcome = call[h].outcome
    BY <1>1, <1>3 DEF Calls
  <1> HIDE DEF b
  <1>8. /\ failed \in Calls /\ failed.pc = "close" /\ failed.outcome = "error" /\ failed.run = b.run
        /\ failed.rows = b.rows /\ failed.pages = b.pages /\ failed.fresh = b.fresh /\ failed.known = b.known
    BY <1>6 DEF Calls, Pcs
  <1>9. /\ empty \in Calls /\ empty.pc = b.pc /\ empty.outcome = b.outcome /\ empty.run = b.run
        /\ empty.rows = b.rows /\ empty.pages = b.pages + 1 /\ empty.fresh = b.fresh /\ empty.known = b.known
        /\ empty.links = b.links /\ empty.seen = b.seen
    <2>1. b.pages + 1 \in 0 .. MaxPages
      BY <1>3, <1>7
    <2>2. QED
      BY <1>6, <2>1 DEF Calls
  <1>g. /\ garbled \in Calls /\ garbled.pc = "close" /\ garbled.outcome = "error" /\ garbled.run = b.run
        /\ garbled.rows = b.rows /\ garbled.pages = b.pages + 1 /\ garbled.fresh = b.fresh
        /\ garbled.known = b.known
    <2>1. b.pages + 1 \in 0 .. MaxPages
      BY <1>3, <1>7
    <2>2. QED
      BY <1>6, <2>1 DEF Calls, Pcs
  <1>10. /\ read \in Calls /\ read.pc = "link" /\ read.outcome = b.outcome /\ read.run = b.run
         /\ read.rows = b.rows /\ read.pages = b.pages + 1 /\ read.fresh = b.fresh /\ read.known = b.known
         /\ read.links = DocumentsOn[s][p] /\ read.seen = b.seen + Len(DocumentsOn[s][p])
    <2>1. read = [b EXCEPT !.pc = "link", !.pages = b.pages + 1, !.links = DocumentsOn[s][p],
                           !.seen = b.seen + Len(DocumentsOn[s][p]), !.follow = FollowOn[s][p]]
      BY <1>6 DEF Calls
    <2>2. b.pages + 1 \in 0 .. MaxPages /\ b.seen + Len(DocumentsOn[s][p]) \in Nat
      BY <1>3, <1>5, <1>7
    <2>3. read \in Calls
      BY <1>5, <1>6, <2>1, <2>2, ZenonT(60) DEF Calls, Pcs
    <2>4. QED
      BY <1>6, <2>1, <2>3 DEF Calls
  <1> HIDE DEF failed, empty, garbled, read
  <1>11. /\ got.kind \in {"response", "FetchError", "escaped"} /\ got.verified \in BOOLEAN /\ got.found \in BOOLEAN
         /\ got.found => got.kind = "response"
         /\ got.kind = "response" /\ ~ got.verified => Row(h).fallback \/ ~ Row(h).verify
    BY <1>2, SeenType
  <1>14. CASE got.kind = "escaped"
    <2>1. Go(h, Idle) /\ UNCHANGED evidence
      BY <1>2, <1>11, <1>14
    <2>2. QED
      BY <1>1, <2>1, Ends
  <1>15. CASE got.kind # "escaped"
    <2>1. PICK x : x = e(got)
      OBVIOUS
    <2>2. /\ x \in Requested /\ x.kind = got.kind /\ x.verified = got.verified /\ x.found = got.found /\ x.page = p
      BY <1>4, <1>11, <1>15, <2>1 DEF Requested
    <2>3. evidence' = [evidence EXCEPT ![call[h].run] = Append(@, x)]
      BY <1>2, <1>7, <1>15, <2>1
    <2>4. call[h].outcome = "ok"
      BY <1>1, <1>3, Mine DEF Promise, Tallies, Calls
    <2>5. CASE got.kind = "FetchError"
      <3>1. call' = [call EXCEPT ![h] = failed]
        BY <1>2, <1>11, <2>5 DEF Go
      <3>2. QED
        BY <1>1, <1>7, <1>8, <1>11, <2>2, <2>3, <2>5, <3>1, Logged, ZenonT(60)
    <2>6. CASE got.kind = "response" /\ ~ got.found
      <3>1. call' = [call EXCEPT ![h] = empty]
        BY <1>2, <1>11, <2>6 DEF Go
      <3>2. /\ empty \in Calls /\ empty.run = call[h].run /\ empty.rows = call[h].rows
            /\ empty.fresh = call[h].fresh /\ empty.known = call[h].known
            /\ empty.pages = call[h].pages + 1 /\ empty.outcome = "ok"
            /\ empty.pc = "page" /\ empty.links = call[h].links /\ empty.seen = call[h].seen
        BY <1>7, <1>9, <2>4
      <3>3. x.kind = "response" /\ ~ x.found /\ (~ x.verified => Row(h).fallback \/ ~ Row(h).verify)
        BY <1>11, <2>2, <2>6
      <3>4. QED
        BY <1>1, <2>2, <2>3, <3>1, <3>2, <3>3, Logged
    <2>9. CASE got.found /\ Go(h, garbled)
      <3>1. call' = [call EXCEPT ![h] = garbled] /\ got.kind = "response"
        BY <1>11, <2>9 DEF Go
      <3>2. /\ garbled \in Calls /\ garbled.run = call[h].run /\ garbled.rows = call[h].rows
            /\ garbled.fresh = call[h].fresh /\ garbled.known = call[h].known
            /\ garbled.pages = call[h].pages + 1 /\ garbled.outcome = "error" /\ garbled.pc = "close"
        BY <1>7, <1>g
      <3>3. x.kind = "response" /\ x.found /\ (~ x.verified => Row(h).fallback \/ ~ Row(h).verify)
        BY <1>11, <2>2, <2>9
      <3>4. QED
        BY <1>1, <2>2, <2>3, <3>1, <3>2, <3>3, Logged
    <2>7. CASE got.found /\ Go(h, read)
      <3>1. call' = [call EXCEPT ![h] = read] /\ got.kind = "response"
        BY <1>11, <2>7 DEF Go
      <3>2. /\ read \in Calls /\ read.run = call[h].run /\ read.rows = call[h].rows
            /\ read.fresh = call[h].fresh /\ read.known = call[h].known
            /\ read.pages = call[h].pages + 1 /\ read.outcome = "ok"
            /\ read.pc = "link" /\ read.links = DocumentsOn[Here(h)][x.page] /\ read.seen = call[h].seen + Len(read.links)
        BY <1>7, <1>10, <2>2, <2>4 DEF s
      <3>3. x.kind = "response" /\ x.found /\ (~ x.verified => Row(h).fallback \/ ~ Row(h).verify)
        BY <1>11, <2>2, <2>7
      <3>4. QED
        BY <1>1, <2>2, <2>3, <3>1, <3>2, <3>3, Logged
    <2>8. QED
      BY <1>2, <1>11, <1>15, <2>5, <2>6, <2>7, <2>9
  <1>16. QED
    BY <1>14, <1>15

LEMMA StepInsertLink ==
    ASSUME DiscInv, NEW h \in Handlers, InsertLink(h)
    PROVE  DiscInv'
  <1>1. CASE OnFile(Here(h), Head(call[h].links))
    BY <1>1, Ends DEF InsertLink
  <1>2. CASE ~ OnFile(Here(h), Head(call[h].links))
    <2>0. PICK r, s, d, n : r = call[h].run /\ s = Here(h) /\ d = Head(call[h].links) /\ n = Len(disc)
      OBVIOUS
    <2>c. PICK c : c = [call[h] EXCEPT !.pc = "link", !.links = Tail(call[h].links), !.fresh = call[h].fresh + 1]
      OBVIOUS
    <2> DEFINE row == [source |-> s, url |-> d, status |-> "new", first |-> r]
      <2>1. /\ call[h].pc = "insert" /\ disc' = Append(disc, row) /\ call' = [call EXCEPT ![h] = c]
          /\ UNCHANGED <<source, run, evidence, archived, recorded>> /\ ~ OnFile(s, d) /\ Open(h) /\ Crawling(h)
      BY <1>2, <2>0, <2>c DEF InsertLink, At, Go, Open, Crawling
    <2>2. /\ call[h] \in Calls /\ Owns(h) /\ Tallies(h) /\ DiscTypes /\ Registered
          /\ r \in DOMAIN run /\ DOMAIN run = 1 .. Len(run) /\ Len(run) \in Nat /\ s \in Sources /\ r \in Nat
          /\ \A g \in Handlers \ {h} : call'[g] = call[g]
      BY <2>0, <2>1, Mine DEF Promise
    <2>3. /\ call[h].links \in Seq(Docs) /\ call[h].links # <<>> /\ call[h].outcome = "ok"
          /\ call[h].fresh = Cardinality(NewIn(r)) /\ call[h].pages = Cardinality(Responses(r))
          /\ call[h].seen = call[h].fresh + call[h].known + Len(call[h].links)
          /\ Harvested(r, Elements(call[h].links)) /\ run[r].source = s /\ run[r].status = "running"
      <3>1. call[h].outcome = "ok" /\ call[h].links \in Seq(Docs)
        BY <2>1, <2>2 DEF Tallies, Calls
      <3>2. QED
        BY <2>0, <2>1, <2>2, <3>1 DEF Tallies, Owns, Here
    <2>4. /\ d \in Docs /\ Tail(call[h].links) \in Seq(Docs) /\ Len(Tail(call[h].links)) = Len(call[h].links) - 1
          /\ Len(call[h].links) \in Nat /\ Elements(call[h].links) = {d} \cup Elements(Tail(call[h].links))
      BY <2>0, <2>3, HeadAndTail
    <2>5. row \in DiscRows
      BY <2>2, <2>4 DEF DiscRows, Statuses
    <2>6. /\ call[h].fresh \in Nat /\ call[h].known \in Nat /\ call[h].seen \in Nat
      BY <2>2 DEF Calls
    <2>7. /\ c \in Calls /\ c.pc = "link" /\ c.run = r /\ c.rows = call[h].rows /\ c.fresh = call[h].fresh + 1
          /\ c.known = call[h].known /\ c.seen = call[h].seen /\ c.links = Tail(call[h].links)
          /\ c.outcome = "ok" /\ c.pages = call[h].pages
      <3>1. call[h].fresh + 1 \in Nat
        BY <2>6
      <3>2. c \in Calls
        BY <2>c, <2>2, <2>4, <3>1, ZenonT(60) DEF Calls, Pcs
      <3>3. QED
        BY <2>c, <2>0, <2>2, <2>3, <3>2 DEF Calls
    <2>8. call'[h] = c
      BY <2>1, Mine
    <2>9. row.source = s /\ row.url = d /\ row.status = "new" /\ row.first = r
      OBVIOUS
    <2> HIDE DEF row
    <2>10. /\ disc \in Seq(DiscRows) /\ n \in Nat /\ DOMAIN disc = 1 .. n /\ disc' \in Seq(DiscRows) /\ Len(disc') = n + 1
           /\ DOMAIN disc' = 1 .. n + 1 /\ disc'[n + 1] = row /\ \A i \in 1 .. n : disc'[i] = disc[i]
      BY <2>0, <2>1, <2>2, <2>5 DEF DiscTypes
    <2>11. DiscTypes'
      <3>1. call' \in [Handlers -> Calls]
        BY <2>1, <2>2, <2>7 DEF DiscTypes
      <3>2. archived \subseteq DOMAIN disc'
        BY <2>2, <2>10 DEF DiscTypes
      <3>3. QED
        BY <2>1, <2>2, <2>10, <3>1, <3>2 DEF DiscTypes
    <2>12. Registered'
      <3>1. \A i, j \in DOMAIN disc' : disc'[i].source = disc'[j].source /\ disc'[i].url = disc'[j].url => i = j
        <4>1. \A i \in 1 .. n : ~ (disc[i].source = s /\ disc[i].url = d)
          BY <2>1, <2>10 DEF OnFile
        <4>2. \A i \in DOMAIN disc' : i \in 1 .. n \/ i = n + 1
          BY <2>10
        <4>3. \A i, j \in 1 .. n : disc[i].source = disc[j].source /\ disc[i].url = disc[j].url => i = j
          BY <2>2, <2>10 DEF Registered
        <4>4. QED
          BY <2>9, <2>10, <4>1, <4>2, <4>3
      <3>2. \A i \in DOMAIN disc' : disc'[i].first <= Len(run)
        <4>1. \A i \in 1 .. n : disc[i].first <= Len(run)
          BY <2>2, <2>10 DEF Registered
        <4>2. r <= Len(run)
          BY <2>2
        <4>3. QED
          BY <2>9, <2>10, <4>1, <4>2
      <3>3. StatusEarned'
        <4>1. \A i \in 1 .. n : /\ disc[i].status \in {"downloaded", "parsed"} => i \in archived
                                /\ disc[i].status = "parsed" => i \in recorded
          BY <2>2, <2>10 DEF Registered, StatusEarned
        <4>2. \A i \in DOMAIN disc' : i \in 1 .. n \/ i = n + 1
          BY <2>10
        <4>3. QED
          BY <2>1, <2>9, <2>10, <4>1, <4>2 DEF StatusEarned
      <3>4. QED
        BY <2>1, <3>1, <3>2, <3>3 DEF Registered
    <2>13. \A x, y : OnFile(x, y) => OnFile(x, y)'
      BY <2>10 DEF OnFile
    <2>14. OnFile(s, d)'
      BY <2>9, <2>10 DEF OnFile
    <2>15. Kept
      BY <2>1, <2>10, <2>13 DEF Kept
    <2>16. /\ NewIn(r) \in SUBSET (1 .. n) /\ NewIn(r)' = NewIn(r) \cup {n + 1}
           /\ \A x \in DOMAIN run \ {r} : NewIn(x)' = NewIn(x)
      BY <2>9, <2>10 DEF NewIn
    <2>17. Elsewhere(h)
      BY <2>0, <2>1, <2>16 DEF Elsewhere
    <2>18. Told(r)'
      <3>1. Told(r)
        BY <2>2 DEF DiscInv
      <3>2. QED
        BY <2>1, <2>3, <3>1 DEF Told, Finished
    <2>19. Owns(h)' /\ Open(h)' /\ Reached(h)'
      BY <2>1, <2>2, <2>0, <2>7, <2>8 DEF Owns, Crawling, Open, Row, Reached
    <2>20. Tallies(h)'
      <3>1. Responses(r)' = Responses(r) /\ PagesSeen(r)' = PagesSeen(r)
        BY <2>1 DEF Responses, PagesSeen
      <3>2. c.pages = Cardinality(Responses(r)') /\ c.fresh = Cardinality(NewIn(r)')
        BY <2>3, <2>7, <2>10, <2>16, <3>1, OneMore
      <3>3. \A i \in DOMAIN evidence[r] : evidence[r][i].kind = "FetchError" => FALSE
        BY <2>0, <2>1, <2>2 DEF Tallies
      <3>4. c.seen = c.fresh + c.known + Len(c.links)
        <4>1. call[h].seen = (call[h].fresh + 1) + call[h].known + (Len(call[h].links) - 1)
          <5>1. call[h].seen = call[h].fresh + call[h].known + Len(call[h].links) /\ Len(call[h].links) \in Nat
            BY <2>3, <2>4
          <5>2. QED
            BY <2>6, <5>1, SMTT(30)
        <4>2. Len(c.links) = Len(call[h].links) - 1
          BY <2>4, <2>7
        <4>3. QED
          BY <2>7, <4>1, <4>2
      <3>5. Harvested(r, Elements(c.links))'
        <4> SUFFICES ASSUME NEW i \in PagesSeen(r), NEW x \in Elements(DocumentsOn[run[r].source][evidence[r][i].page])
                     PROVE  OnFile(run[r].source, x)' \/ x \in Elements(c.links)
          BY <2>1, <3>1 DEF Harvested
        <4>1. OnFile(s, x) \/ x = d \/ x \in Elements(c.links)
          BY <2>3, <2>4, <2>7 DEF Harvested
        <4>2. run'[r].source = s
          BY <2>1, <2>3
        <4>3. QED
          BY <2>13, <2>14, <4>1, <4>2
      <3>6. QED
        BY <2>1, <2>7, <2>8, <3>2, <3>3, <3>4, <3>5 DEF Tallies
    <2>21. QED
      BY <2>0, <2>1, <2>2, <2>7, <2>8, <2>11, <2>12, <2>15, <2>17, <2>18, <2>19, <2>20, OneProcess DEF Promise
  <1>3. QED
    BY <1>1, <1>2

LEMMA StepCloseRun ==
    ASSUME DiscInv, NEW h \in Handlers, CloseRun(h)
    PROVE  DiscInv'
  <1>0. PICK r, c : r = call[h].run /\ c = [call[h] EXCEPT !.pc = "mark"]
    OBVIOUS
  <1> DEFINE row == [run[r] EXCEPT !.status = call[h].outcome, !.pages = call[h].pages, !.links = call[h].seen,
                                   !.fresh = call[h].fresh, !.known = call[h].known]
  <1>1. /\ Open(h) /\ Crawling(h) /\ call' = [call EXCEPT ![h] = c] /\ run' = [run EXCEPT ![r] = row]
        /\ UNCHANGED <<source, evidence, disc, archived, recorded>>
        /\ call[h].pc = "close" \/ call[h].pc = "page"
    BY <1>0 DEF CloseRun, At, Go, Open, Crawling
  <1>2. /\ call[h] \in Calls /\ Owns(h) /\ Tallies(h) /\ DiscTypes /\ Registered /\ call'[h] = c
        /\ r \in DOMAIN run /\ run[r] \in RunRows /\ DOMAIN run = 1 .. Len(run) /\ Len(run) \in Nat
        /\ call[h].rows \in [Sources -> SourceRows] /\ \A g \in Handlers \ {h} : call'[g] = call[g]
    BY <1>0, <1>1, Mine DEF Promise
  <1>3. /\ c \in Calls /\ c.pc = "mark" /\ c.run = r /\ c.rows = call[h].rows
    BY <1>0, <1>2 DEF Calls, Pcs
  <1>4. /\ call[h].outcome \in {"ok", "error"} /\ call[h].pages \in 0 .. MaxPages
        /\ call[h].seen \in Nat /\ call[h].fresh \in Nat /\ call[h].known \in Nat
    BY <1>2 DEF Calls
  <1>5. /\ row \in RunRows /\ row.source = run[r].source /\ row.cfg = run[r].cfg /\ row.status = call[h].outcome
        /\ row.pages = call[h].pages /\ row.links = call[h].seen /\ row.fresh = call[h].fresh /\ row.known = call[h].known
    BY <1>2, <1>4 DEF RunRows
  <1> HIDE DEF row
  <1>6. /\ run' \in Seq(RunRows) /\ Len(run') = Len(run) /\ DOMAIN run' = DOMAIN run
        /\ run'[r] = row /\ \A x \in DOMAIN run \ {r} : run'[x] = run[x]
    <2>1. run \in Seq(RunRows) /\ r \in 1 .. Len(run)
      BY <1>2 DEF DiscTypes
    <2>2. /\ [run EXCEPT ![r] = row] \in Seq(RunRows)
          /\ Len([run EXCEPT ![r] = row]) = Len(run)
      BY <1>5, <2>1, ExceptSeq
    <2>3. QED
      BY <1>1, <2>1, <2>2
  <1>7. DiscTypes'
    <2>1. call' \in [Handlers -> Calls]
      BY <1>1, <1>2, <1>3 DEF DiscTypes
    <2>2. QED
      BY <1>1, <1>2, <1>6, <2>1 DEF DiscTypes
  <1>8. Registered'
    BY <1>1, <1>2, <1>6 DEF Registered, StatusEarned
  <1>9. Kept
    BY <1>1, <1>5, <1>6 DEF Kept, OnFile
  <1>10. \A x : NewIn(x)' = NewIn(x) /\ Responses(x)' = Responses(x) /\ PagesSeen(x)' = PagesSeen(x)
    BY <1>1 DEF NewIn, Responses, PagesSeen
  <1>11. Elsewhere(h)
    BY <1>0, <1>1, <1>6, <1>10 DEF Elsewhere
  <1>12. Promise(h)' /\ ~ Open(h)'
    BY <1>2, <1>3, <1>6 DEF Promise, Owns, Tallies, Reached, Crawling, Open
  <1>13. Told(r)'
    <2>1. Told(r)
      BY <1>2 DEF DiscInv
    <2>2. /\ \A i \in DOMAIN evidence[r] :
              evidence[r][i].kind = "response" /\ ~ evidence[r][i].verified => row.cfg.fallback \/ ~ row.cfg.verify
      BY <1>5, <2>1 DEF Told
    <2>3. /\ row.fresh = Cardinality(NewIn(r)) /\ row.pages = Cardinality(Responses(r))
          /\ \A i \in DOMAIN evidence[r] :
               evidence[r][i].kind = "FetchError" => i = Len(evidence[r]) /\ row.status = "error"
      BY <1>0, <1>1, <1>2, <1>5 DEF Tallies
    <2>4. ASSUME row.status = "ok"
          PROVE  row.fresh + row.known = row.links /\ Harvested(r, {})
      <3>1. call[h].links = <<>> /\ call[h].outcome = "ok"
        BY <1>1, <1>2, <1>5, <2>4 DEF Tallies
      <3>2. /\ call[h].seen = call[h].fresh + call[h].known + Len(<<>>) /\ Harvested(r, Elements(<<>>))
        BY <1>0, <1>1, <1>2, <3>1 DEF Tallies
      <3>3. Len(<<>>) = 0 /\ Elements(<<>>) = {}
        BY NoElements
      <3>4. PICK k : k = call[h].fresh + call[h].known
        OBVIOUS
      <3>5. k \in Nat
        BY <1>4, <3>4
      <3>6. call[h].seen = k + 0
        BY <3>2, <3>3, <3>4
      <3>7. call[h].seen = k
        BY <3>5, <3>6
      <3>8. row.fresh + row.known = row.links
        BY <1>5, <3>4, <3>7
      <3>9. Harvested(r, {})
        BY ONLY <3>2, <3>3
      <3>10. QED
        BY <3>8, <3>9
    <2>5. Harvested(r, {}) => Harvested(r, {})'
      BY <1>1, <1>5, <1>6, <1>9, <1>10 DEF Harvested, Kept
    <2>6. QED
      BY <1>1, <1>6, <1>10, <2>2, <2>3, <2>4, <2>5 DEF Told
  <1>14. QED
    BY <1>0, <1>2, <1>6, <1>7, <1>8, <1>9, <1>11, <1>12, <1>13, OneProcess

\* Only the registry changes, or nothing that concerns a run.
LEMMA OnlySources ==
    ASSUME DiscInv, source' \in [Sources -> SourceRows], UNCHANGED <<run, evidence, disc, archived, recorded, call>>
    PROVE  DiscInv'
  <1>1. DiscTypes' /\ Registered' /\ Apart'
    BY DEF DiscInv, DiscTypes, Registered, StatusEarned, Apart, Open
  <1>2. ASSUME NEW h \in Handlers
        PROVE  Promise(h)'
    <2>1. Promise(h)
      BY DEF DiscInv
    <2>2. Owns(h)' /\ Reached(h)'
      BY <2>1 DEF Promise, Owns, Reached, Open, Crawling, Row
    <2>3. \A r, X : NewIn(r)' = NewIn(r) /\ Responses(r)' = Responses(r) /\ PagesSeen(r)' = PagesSeen(r)
                    /\ Harvested(r, X)' = Harvested(r, X)
      BY DEF NewIn, Responses, PagesSeen, Harvested, OnFile
    <2>4. Tallies(h)'
      BY <2>1, <2>3 DEF Promise, Tallies, Open
    <2>5. QED
      BY <2>2, <2>4 DEF Promise
  <1>3. ASSUME NEW r \in DOMAIN run
        PROVE  Told(r)'
    <2>1. Told(r)
      BY DEF DiscInv
    <2>2. NewIn(r)' = NewIn(r) /\ Responses(r)' = Responses(r) /\ Harvested(r, {})' = Harvested(r, {})
      BY DEF NewIn, Responses, PagesSeen, Harvested, OnFile
    <2>3. QED
      BY <2>1, <2>2 DEF Told, Finished
  <1>4. QED
    BY <1>1, <1>2, <1>3 DEF DiscInv

LEMMA StepMarkCrawled ==
    ASSUME DiscInv, NEW h \in Handlers, MarkCrawled(h)
    PROVE  DiscInv'
  <1>0. PICK s, c : /\ s = Here(h)
                    /\ c = [Idle EXCEPT !.pc = "source", !.todo = call[h].todo, !.rows = call[h].rows]
    OBVIOUS
  <1>1. /\ call[h].pc = "mark" /\ Crawling(h) /\ call' = [call EXCEPT ![h] = c]
        /\ source' = [source EXCEPT ![s] = [@ EXCEPT !.last = "recent", !.status = call[h].outcome]]
        /\ UNCHANGED <<run, evidence, disc, archived, recorded>>
    BY <1>0 DEF MarkCrawled, At, Go, Crawling
  <1>2. /\ call[h] \in Calls /\ s \in Sources /\ call[h].rows \in [Sources -> SourceRows] /\ call'[h] = c
        /\ DiscTypes /\ Registered /\ \A g \in Handlers \ {h} : call'[g] = call[g]
    BY <1>0, <1>1, Mine
  <1>3. c \in Calls /\ c.pc = "source" /\ c.rows = call[h].rows
    <2>1. call[h].todo \in SUBSET Sources
      BY <1>2 DEF Calls
    <2>2. QED
      BY <1>0, <1>2, <2>1, IdleCall, ZenonT(60) DEF Idle, Calls, Pcs
  <1>4. source' \in [Sources -> SourceRows]
    <2>1. source \in [Sources -> SourceRows] /\ source[s] \in SourceRows /\ call[h].outcome \in {"ok", "error"}
      BY <1>2 DEF DiscTypes, Calls
    <2>2. [source[s] EXCEPT !.last = "recent", !.status = call[h].outcome] \in SourceRows
      BY <2>1 DEF SourceRows
    <2>3. QED
      BY <1>1, <1>2, <2>1, <2>2
  <1>5. Promise(h)' /\ ~ Open(h)' /\ ~ Open(h)
    BY <1>1, <1>2, <1>3, Rests DEF Open
  <1>6. DiscTypes'
    <2>1. call' \in [Handlers -> Calls]
      BY <1>1, <1>2, <1>3 DEF DiscTypes
    <2>2. QED
      BY <1>1, <1>2, <1>4, <2>1 DEF DiscTypes
  <1>7. Registered' /\ Kept /\ Elsewhere(h)
    BY <1>1, <1>2 DEF Registered, StatusEarned, Kept, OnFile, Elsewhere, NewIn
  <1>8. QED
    BY <1>1, <1>2, <1>5, <1>6, <1>7, OneProcess

\* The registry is administered, and time passes.
LEMMA StepRegistry ==
    ASSUME DiscInv, NEW s \in Sources, SetActive(s) \/ SetSslConfig(s) \/ Elapse(s)
    PROVE  DiscInv'
  <1>1. source \in [Sources -> SourceRows] /\ source[s] \in SourceRows
    BY DEF DiscInv, DiscTypes
  <1>2. source' \in [Sources -> SourceRows]
    <2>1. CASE SetActive(s)
      BY <1>1, <2>1 DEF SetActive, SourceRows
    <2>2. CASE SetSslConfig(s)
      <3>1. PICK verify \in BOOLEAN, fallback \in BOOLEAN :
              source' = [source EXCEPT ![s] = [@ EXCEPT !.verify = verify, !.fallback = fallback]]
        BY <2>2 DEF SetSslConfig
      <3>2. [source[s] EXCEPT !.verify = verify, !.fallback = fallback] \in SourceRows
        BY <1>1 DEF SourceRows
      <3>3. QED
        BY <1>1, <3>1, <3>2
    <2>3. CASE Elapse(s)
      BY <1>1, <2>3 DEF Elapse, SourceRows
    <2>4. QED
      BY <2>1, <2>2, <2>3
  <1>3. UNCHANGED <<run, evidence, disc, archived, recorded, call>>
    BY DEF SetActive, SetSslConfig, Elapse
  <1>4. QED
    BY <1>2, <1>3, OnlySources

-----------------------------------------------------------------------------
(* The crawler: the theorems.                                              *)

LEMMA DiscInitInv == DiscInit => DiscInv
  <1> SUFFICES ASSUME DiscInit PROVE DiscInv
    OBVIOUS
  <1>1. /\ run = <<>> /\ Len(run) = 0 /\ DOMAIN run = {} /\ evidence = <<>>
        /\ call = [h \in Handlers |-> Idle]
    BY DEF DiscInit
  <1>2. DiscTypes
    BY <1>1, IdleCall, DiscoveryAssumption DEF DiscInit, DiscTypes
  <1>3. Registered
    BY <1>1 DEF DiscInit, Registered, StatusEarned
  <1>4. Apart /\ \A h \in Handlers : Promise(h)
    BY <1>1 DEF Apart, Promise, Owns, Tallies, Reached, Open, Crawling, Idle
  <1>5. QED
    BY <1>1, <1>2, <1>3, <1>4 DEF DiscInv

LEMMA DiscStep == DiscInv /\ [DiscNext]_discVars => DiscInv'
  <1> SUFFICES ASSUME DiscInv, [DiscNext]_discVars PROVE DiscInv'
    OBVIOUS
  <1>1. ASSUME NEW h \in Handlers, Work(h)
        PROVE  DiscInv'
    BY <1>1, StepStartRun, StepNoSourceLeft, StepSkipVisited, StepFetchPage, StepLookUpLink, StepInsertLink,
       StepFollowLinks, StepCloseRun, StepMarkCrawled, StepAcquire, StepParse, StepReadStatus, StepWriteStatus,
       StepBatchDone DEF Work
  <1>2. CASE UNCHANGED discVars
    BY <1>2, OnlySources DEF discVars, DiscInv, DiscTypes
  <1>3. QED
    BY <1>1, <1>2, StepBeginCrawl, StepBeginBatch, StepCrash, StepRegistry DEF DiscNext

LEMMA DiscInvariant == DiscSpec => []DiscInv
  BY DiscInitInv, DiscStep, PTL DEF DiscSpec

\* The tables of the crawler and of the diagnostics hold what their columns allow.
THEOREM TypesHold == AcquisitionSpec => []TypesOK
  <1>1. DiscInv => TypeOK
    <2> SUFFICES ASSUME DiscInv PROVE TypeOK
      OBVIOUS
    <2>1. DiscTypes
      BY DEF DiscInv
    <2>2. DOMAIN evidence = DOMAIN run /\ \A r \in DOMAIN evidence : evidence[r] \in Seq(Requested)
      BY <2>1 DEF DiscTypes
    <2>3. \A h \in Handlers : call[h].pages \in 0 .. MaxPages
      BY <2>1 DEF DiscTypes, Calls
    <2>4. QED
      BY <2>1, <2>2, <2>3 DEF TypeOK, DiscTypes
  <1>2. DiagInv => DiagTypeOK
    BY DEF DiagInv, DiagTypes, DiagTypeOK
  <1>3. QED
    BY <1>1, <1>2, DiscInitInv, DiscStep, DiagInitInv, DiagStep, PTL DEF AcquisitionSpec, DiscSpec, DiagSpec, TypesOK

\* However crawls, downloads and crashes interleave, a document has one row, and a finished run counted as
\* new exactly the rows that name it.
THEOREM DocumentsDiscoveredOnce == AcquisitionSpec => []DiscoveredOnce
  <1>1. DiscInv => DiscoveredOnce
    BY DEF DiscInv, Registered, Told, DiscoveredOnce, NewIn
  <1>2. QED
    BY <1>1, DiscInvariant, PTL DEF AcquisitionSpec

\* What a finished run says of itself agrees with the requests it logged and the documents on file.
THEOREM RunsMatchEvidence == AcquisitionSpec => []RunMatchesEvidence
  <1>1. DiscInv => RunMatchesEvidence
    <2> SUFFICES ASSUME DiscInv, NEW r \in DOMAIN run, Finished(r)
                 PROVE  /\ run[r].pages = Cardinality(Responses(r))
                        /\ \A i \in DOMAIN evidence[r] : evidence[r][i].kind = "FetchError" => i = Len(evidence[r])
                        /\ (\E i \in DOMAIN evidence[r] : evidence[r][i].kind = "FetchError") => run[r].status = "error"
                        /\ run[r].status = "ok" =>
                             /\ run[r].fresh + run[r].known = run[r].links
                             /\ Harvested(r, {})
      BY DEF RunMatchesEvidence, Responses, Harvested
    <2>1. Told(r)
      BY DEF DiscInv
    <2>2. QED
      BY <2>1 DEF Told
  <1>2. QED
    BY <1>1, DiscInvariant, PTL DEF AcquisitionSpec

\* No page is read unverified unless the settings the crawl read allow it, whatever the network does and
\* however the settings change meanwhile.
THEOREM BypassOnlyAllowed == AcquisitionSpec => []BypassAllowed
  <1>1. DiscInv => BypassAllowed
    BY DEF DiscInv, Told, BypassAllowed
  <1>2. QED
    BY <1>1, DiscInvariant, PTL DEF AcquisitionSpec

\* A document is called downloaded only with its bytes in the archive, and parsed only with its record.
THEOREM StatusesEarned == AcquisitionSpec => []StatusEarned
  <1>1. DiscInv => StatusEarned
    BY DEF DiscInv, Registered
  <1>2. QED
    BY <1>1, DiscInvariant, PTL DEF AcquisitionSpec

=============================================================================
