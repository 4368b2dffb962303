------------------------- MODULE AgentDaemonHistory -------------------------
(***************************************************************************)
(* AgentDaemon with two history variables, which no step looks at.         *)
(*                                                                         *)
(* An agent gives up on a call after 120 seconds and posts it again, while *)
(* the server goes on with the first one. `strayed' holds the requests     *)
(* that such a yield put back in the queue although its caller had given   *)
(* it up: nothing ties it to what the agent does by then.  `tried' holds   *)
(* the requests some agent has got behind the last source of.              *)
(***************************************************************************)
EXTENDS AgentDaemon

VARIABLES strayed, tried

strayVars == <<daemonVars, strayed, tried>>

\* Thread h executes the write of a yield that nobody waits for.
StrayYield(h, i) == YieldWrite(h) /\ Unattended(h) /\ call[h].id = i

StrayInit == DaemonInit /\ strayed = {} /\ tried = {}

StrayNext ==
    /\ DaemonNext
    /\ strayed' = strayed \cup {i \in Ids : \E h \in Handlers : StrayYield(h, i)}
    /\ tried' = tried \cup {i \in Ids : \E a \in Agents : SourcesTried(a, i)'}

StraySpec == StrayInit /\ [][StrayNext]_strayVars

\* Two agents never work on the same request, whatever is lost, given up, retried or
\* crashes: a request is claimed by one, and only a yield of that one puts it back.  Not
\* when a yield was carried out after its caller had given it up.
ExclusiveWork ==
    \A a, b \in Agents, i \in Ids \ strayed : Working(a, i) /\ Working(b, i) => a = b

\* COMPLETED is never shown with sources left: some agent had every source worked through
\* or given up with an error before ("never COMPLETED while sources remain",
\* _run_claimed_request), however late its completion is carried out.
HonestCompletion ==
    \A i \in Ids : Has(i, {"COMPLETED"}) /\ row[i].kind = "extraction" => i \in tried
=============================================================================
