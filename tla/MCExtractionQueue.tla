------------------------- MODULE MCExtractionQueue -------------------------
(* Instances of ExtractionQueueHistory for TLC. A behaviour stays in one    *)
(* lane: how many requests there may be, and what arrives.                  *)
EXTENDS ExtractionQueueHistory, TLC

CONSTANTS a1, a2, h1, h2, s1, Lanes

VARIABLE lane

TwoIds         == 1 .. 2
AgentsPermuted == Permutations(Agents)
Permuted       == Permutations(Agents) \cup Permutations(Handlers)

Lane(ids, routes) == [ids |-> ids, routes |-> routes]

AllRoutes  == Ops \cup Kinds
RaceRoutes == {"enqueue", "extraction", "claim", "progress", "cancel"}

RaceLane  == {Lane(1, RaceRoutes)}
WholeLane == {Lane(2, AllRoutes)}
AllLanes == {
    Lane(1, AllRoutes),
    Lane(2, {"enqueue", "ocr_recovery", "claim", "progress", "cancel"}),
    Lane(2, {"enqueue", "resync_all", "claim", "yield", "cancel"}),
    Lane(2, {"enqueue", "resync_all", "ocr_recovery", "reset", "cancel"})}

MCInit == HistoryInit /\ lane \in Lanes

Starts(h) == call[h].pc = "idle" /\ call'[h].pc # "idle"

MCNext ==
    /\ HistoryNext
    /\ UNCHANGED lane
    /\ \A h \in Handlers : Starts(h) =>
          /\ call'[h].op \in lane.routes
          /\ call'[h].op = "enqueue" => call'[h].kind \in lane.routes
          /\ h \in Inserting' => lastId + Cardinality(Inserting') <= lane.ids

MCSpec == MCInit /\ [][MCNext]_<<historyVars, lane>>
=============================================================================
