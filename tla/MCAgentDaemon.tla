---------------------------- MODULE MCAgentDaemon ----------------------------
(* Instances of AgentDaemon for TLC.                                          *)
EXTENDS AgentDaemon, TLC

CONSTANTS a1, a2, h1, h2

MCIds1 == 1 .. 1
MCIds2 == 1 .. 2
Permuted == Permutations(Agents) \cup Permutations(Handlers)
\* Administrators enqueue extractions and reset; they cancel nothing.
SafetyRoutes == (Ops \cup {"extraction"}) \ {"cancel"}
NoReset == (Ops \cup Kinds) \ {"reset"}
Everything == Posts \cup {"agent", "server"}
=============================================================================
