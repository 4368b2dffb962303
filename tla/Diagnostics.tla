----------------------------- MODULE Diagnostics -----------------------------
(* The network diagnostics of operations/network_diagnostics.py: a click     *)
(* starts a daemon thread with a connection of its own that tests every      *)
(* built-in target and every active source, writes its progress to a row the *)
(* pages poll, and draws a conclusion from the control targets.              *)
EXTENDS Fetching, Sequences, FiniteSets

CONSTANTS
    Jobs,       \* rows of network_diagnostic_runs, each with its thread
    Controls,   \* hosts that only tell whether egress works (CONTROL_TARGET_NAMES)
    Targets,    \* the other built-in targets
    Tested,     \* sources that may be active when a job starts
    Deploys     \* whether the server may be restarted

ASSUME DiagnosticsAssumption ==
    IsFiniteSet(Controls) /\ IsFiniteSet(Targets) /\ IsFiniteSet(Tested) /\ Deploys \in BOOLEAN

VARIABLES
    job,    \* network_diagnostic_runs
    test,   \* network_connectivity_tests: the rows a job wrote, in order
    left,   \* per thread: the targets not yet tested
    alive   \* the jobs whose thread exists

diagVars == <<job, test, left, alive>>

JobStatuses == {"absent", "QUEUED", "RUNNING", "COMPLETED", "FAILED"}
Over == {"COMPLETED", "FAILED"}
Conclusions == {"none", "healthy", "target", "global"}
\* EGRESS_PLAUSIBLE_CATEGORIES
Egress == {"DNS_RESOLUTION_FAILED", "TCP_CONNECTION_FAILED", "TLS_HANDSHAKE_FAILED",
           "CONNECT_TIMEOUT", "REMOTE_HOST_UNREACHABLE"}

\* A row of network_connectivity_tests; `ok` is the StageResult the thread keeps beside it.
Tests == [target : Controls \cup Targets \cup Tested, success : BOOLEAN, ok : BOOLEAN,
          cause : ALL_ROOT_CAUSES \cup {""}, conclusion : Conclusions]

DiagTypeOK ==
    /\ job \in [Jobs -> [status : JobStatuses, total : Nat, completed : Nat]]
    /\ \A j \in Jobs : \A i \in DOMAIN test[j] : test[j][i] \in Tests

DiagInit ==
    /\ job = [j \in Jobs |-> [status |-> "absent", total |-> 0, completed |-> 0]]
    /\ test = [j \in Jobs |-> <<>>]
    /\ left = [j \in Jobs |-> <<>>]
    /\ alive = {}

\* start_diagnostic_run: one job per click, whatever else runs.
StartJob(j) ==
    /\ job[j].status = "absent"
    /\ job' = [job EXCEPT ![j].status = "QUEUED"]
    /\ alive' = alive \cup {j}
    /\ UNCHANGED <<test, left>>

JobRuns(j) ==
    /\ job[j].status = "QUEUED"
    /\ job' = [job EXCEPT ![j].status = "RUNNING"]
    /\ UNCHANGED <<test, left, alive>>

\* Each of S once, in some order: the order of the rows does not matter to the conclusion.
InSomeOrder(S) == CHOOSE s \in [1 .. Cardinality(S) -> S] : {s[i] : i \in DOMAIN s} = S

\* run_all_diagnostics reads the active sources once and announces how many tests there will be.
Plan(j) ==
    /\ job[j].status = "RUNNING" /\ left[j] = <<>> /\ job[j].total = 0
    /\ \E active \in SUBSET Tested :
         LET all == InSomeOrder(Controls \cup Targets) \o InSomeOrder(active) IN
         /\ left' = [left EXCEPT ![j] = all]
         /\ job' = [job EXCEPT ![j].total = Len(all)]
    /\ UNCHANGED <<test, alive>>

\* run_diagnostic_test: certificates are verified at first, the fallback is always allowed, and every
\* exception becomes a FAILED row.  A result without a failure stage counts as ok.  Only a source is
\* held to the policy.  What a test can find, computed once for all conditions:
Found(got, enforce) ==
    [enforce |-> enforce, success |-> got.kind = "response", ok |-> got.kind = "response" \/ got.why.stage = NoStage,
     cause |-> IF got.kind = "response" THEN "" ELSE got.why.cause]
Findings == UNION {{Found(Get(n, TRUE, TRUE, enforce), enforce) : n \in Conditions} : enforce \in BOOLEAN}

\* The row of the test is written, then the counter of the job: two statements.
TestTarget(j) ==
    /\ left[j] # <<>> /\ Len(test[j]) = job[j].completed
    /\ \E f \in Findings :
         /\ f.enforce = (Head(left[j]) \in Tested)
         /\ test' = [test EXCEPT ![j] = Append(@,
             [target |-> Head(left[j]), success |-> f.success, ok |-> f.ok, cause |-> f.cause,
              conclusion |-> "none"])]
    /\ UNCHANGED <<job, left, alive>>

\* Mutant: the counter moves on without the row.
CountTargetEarly(j) ==
    /\ left[j] # <<>>
    /\ job' = [job EXCEPT ![j].completed = @ + 1]
    /\ left' = [left EXCEPT ![j] = Tail(@)]
    /\ UNCHANGED <<test, alive>>

CountTarget(j) ==
    /\ left[j] # <<>> /\ Len(test[j]) > job[j].completed
    /\ job' = [job EXCEPT ![j].completed = @ + 1]
    /\ left' = [left EXCEPT ![j] = Tail(@)]
    /\ UNCHANGED <<test, alive>>

\* The results the conclusion rests on are those of this run.
ControlRows(j) == {test[j][i] : i \in {i \in DOMAIN test[j] : test[j][i].target \in Controls}}

\* build_comparison_conclusion.
Conclude(j, row) ==
    IF \E c \in ControlRows(j) : ~ c.ok /\ c.cause \in Egress THEN "global"
    ELSE IF row.ok THEN "healthy" ELSE "target"

Planned(j) == job[j].status = "RUNNING" /\ job[j].total > 0 /\ left[j] = <<>>
Unconcluded(j) == {i \in DOMAIN test[j] : test[j][i].target \notin Controls /\ test[j][i].conclusion = "none"}

ConcludeNext(j) ==
    /\ Planned(j)
    /\ \E i \in Unconcluded(j) :
         /\ \A k \in Unconcluded(j) : i <= k
         /\ test' = [test EXCEPT ![j][i].conclusion = Conclude(j, test[j][i])]
    /\ UNCHANGED <<job, left, alive>>

JobCompleted(j) ==
    /\ Planned(j) /\ Unconcluded(j) = {}
    /\ job' = [job EXCEPT ![j].status = "COMPLETED"]
    /\ alive' = alive \ {j}
    /\ UNCHANGED <<test, left>>

\* A statement fails: the handler of the thread notes it on the row.
JobFails(j) ==
    /\ job[j].status \in {"QUEUED", "RUNNING"}
    /\ job' = [job EXCEPT ![j].status = "FAILED"]
    /\ left' = [left EXCEPT ![j] = <<>>]
    /\ alive' = alive \ {j}
    /\ UNCHANGED test

\* The server is deployed again: daemon threads vanish where they stand, and nothing resumes them.
Redeploy ==
    /\ Deploys /\ alive # {}
    /\ alive' = {}
    /\ UNCHANGED <<job, test, left>>

JobStep(j) ==
    /\ j \in alive
    /\ JobRuns(j) \/ Plan(j) \/ TestTarget(j) \/ CountTarget(j) \/ ConcludeNext(j) \/ JobCompleted(j)

DiagNext ==
    \/ \E j \in Jobs : StartJob(j) \/ JobStep(j) \/ (j \in alive /\ JobFails(j))
    \/ Redeploy

DiagSpec == DiagInit /\ [][DiagNext]_diagVars

(***************************************************************************)
(* Properties.                                                              *)
(***************************************************************************)
\* A job that shows COMPLETED counted every target it announced, and every target that is not a
\* control has its conclusion, whatever went wrong with the single requests.
CompletedIsWhole ==
    \A j \in Jobs : job[j].status = "COMPLETED" =>
        /\ job[j].completed = job[j].total /\ Len(test[j]) = job[j].total
        /\ Unconcluded(j) = {}

=============================================================================
