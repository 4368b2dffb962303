------------------------- MODULE MCAgentDaemonHistory -------------------------
(* The safety run of AgentDaemon.  A behaviour stays in one lane: one request  *)
(* with every fault and retry, or several requests with a reset.               *)
EXTENDS MCAgentDaemon, AgentDaemonHistory

VARIABLE lane

\* With a reset nothing is found, no post is made twice and no call goes on without its caller.
LaneStep ==
    CASE lane = "retry" -> lastId' <= 1 /\ \A h \in Handlers : call'[h].op # "reset"
      [] lane = "reset" -> work' = work /\ \A a \in Agents : agent'[a].tries = 0
                         /\ \A h \in Handlers : call'[h].by # Null => ~Unattended(h)'

MCInit == StrayInit /\ lane \in {"retry", "reset"}
MCNext == StrayNext /\ lane' = lane /\ LaneStep
MCSpec == MCInit /\ [][MCNext]_<<strayVars, lane>>
=============================================================================
