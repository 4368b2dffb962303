-------------------------- MODULE RequestLifecycle --------------------------
(***************************************************************************)
(* What operations/extraction_queue.py promises about one extraction       *)
(* request, as its callers see it: every operation is one indivisible      *)
(* step, a finished request never changes again, a request an agent is     *)
(* working on has an owner and a queued one has none, requests are handed  *)
(* out oldest first, and a request for a deduplicated subject is never     *)
(* queued twice.                                                           *)
(* ExtractionQueue implements this module when handlers run one at a time, *)
(* and, with any number, in every step that acts on what still holds.      *)
(***************************************************************************)
EXTENDS Naturals

CONSTANTS
    Ids,        \* primary keys of extraction_requests, a set of naturals
    Agents,     \* agent keys
    Subjects,   \* what a request is about: its kind and department scope
    Repeatable, \* the subjects any number of requests may be pending for
    Null

VARIABLES
    status,     \* request -> its status; "NONE" before, "WIPED" after its life
    owner,      \* request -> the agent key working on it, or Null
    subject     \* request -> its subject, or Null

vars == <<status, owner, subject>>

Queued   == {"QUEUED"}
Active   == {"CLAIMED", "RUNNING"}
Terminal == {"COMPLETED", "FAILED"}
Pending  == Queued \cup Active

Init ==
    /\ status  = [i \in Ids |-> "NONE"]
    /\ owner   = [i \in Ids |-> Null]
    /\ subject = [i \in Ids |-> Null]

Enqueue(i, s) ==
    /\ status[i] = "NONE"
    /\ \A j \in Ids : j < i => status[j] # "NONE"
    /\ s \in Repeatable \/ \A j \in Ids : status[j] \in Pending => subject[j] # s
    /\ status'  = [status EXCEPT ![i] = "QUEUED"]
    /\ subject' = [subject EXCEPT ![i] = s]
    /\ UNCHANGED owner

Claim(i, a) ==
    /\ status[i] = "QUEUED"
    /\ \A j \in Ids : status[j] = "QUEUED" => i <= j
    /\ status' = [status EXCEPT ![i] = "CLAIMED"]
    /\ owner'  = [owner EXCEPT ![i] = a]
    /\ UNCHANGED subject

Start(i) ==
    /\ status[i] = "CLAIMED"
    /\ status' = [status EXCEPT ![i] = "RUNNING"]
    /\ UNCHANGED <<owner, subject>>

Yield(i) ==
    /\ status[i] \in Active
    /\ status' = [status EXCEPT ![i] = "QUEUED"]
    /\ owner'  = [owner EXCEPT ![i] = Null]
    /\ UNCHANGED subject

Finish(i, outcome) ==
    /\ status[i] \in Active
    /\ status' = [status EXCEPT ![i] = outcome]
    /\ UNCHANGED <<owner, subject>>

Cancel(i) ==
    /\ status[i] \in Pending
    /\ status' = [status EXCEPT ![i] = "FAILED"]
    /\ UNCHANGED <<owner, subject>>

\* A production reset deletes every request there is.
Wipe ==
    /\ status'  = [i \in Ids |-> IF status[i] = "NONE" THEN "NONE" ELSE "WIPED"]
    /\ owner'   = [i \in Ids |-> Null]
    /\ subject' = [i \in Ids |-> Null]

Next ==
    \/ \E i \in Ids :
          \/ \E s \in Subjects : Enqueue(i, s)
          \/ \E a \in Agents : Claim(i, a)
          \/ Start(i)
          \/ Yield(i)
          \/ \E outcome \in Terminal : Finish(i, outcome)
          \/ Cancel(i)
    \/ Wipe

Spec == Init /\ [][Next]_vars
=============================================================================
