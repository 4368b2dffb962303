--------------------------- MODULE MCPublication ---------------------------
(* Instances of PublicationHistory for TLC. A behaviour stays in one lane:  *)
(* the operations, threads and crashes that are looked at together.         *)
EXTENDS PublicationHistory, TLC

CONSTANTS h1, h2, t1, d1, d2, p1, b1, x1, x2, Lanes

VARIABLE lane

MCSources   == 1 .. 2
InState     == [d \in Districts |-> t1]
MCBucketOf  == [p \in Departments |-> b1]
MCScopes    == {[state |-> t1, district |-> Null], [state |-> t1, district |-> d1]}
Permuted    == Permutations(Handlers)

Checked(c, d, s) == [connectivity |-> c, authenticity |-> TRUE, discovery |-> d, download |-> s, stability |-> s]
MCOutcomes  == {Checked(TRUE, TRUE, TRUE), Checked(TRUE, TRUE, FALSE), Checked(TRUE, FALSE, FALSE)}

\* stock: so many sources are registered and the districts exist, or Null: there is nothing yet;
\* sources, districts: what there may be; serial: one call at a time; crashes: the server may stop;
\* wants: the results certifications have and the statuses set by hand.
Lane(stock, sources, districts, serial, crashes, wants, ops) ==
    [stock |-> stock, sources |-> sources, districts |-> districts, serial |-> serial, crashes |-> crashes,
     wants |-> wants, ops |-> ops]

All == Certs \cup Members(STATE_STATUSES) \cup Members(DISTRICT_STATUSES) \cup {Null}
Few == {"CERTIFIED", "FAILED", "PUBLISHED", Null}

AllLanes == {
    Lane(1, 1, {d1}, FALSE, TRUE, Few, {"certify", "publish", "unpublish", "approve"}),
    Lane(1, 1, {d1}, TRUE, TRUE, All, {"certify", "retire", "publish", "unpublish", "approve"}),
    Lane(1, 1, {d1}, FALSE, FALSE, Few, {"certify", "publish_department", "unpublish_department", "file", "approve"}),
    Lane(1, 1, {d1}, FALSE, FALSE, All, {"certify", "refresh", "district_status"}),
    Lane(1, 1, {d1, d2}, FALSE, FALSE, Few, {"certify", "district_status"}),
    Lane(1, 1, {d1, d2}, TRUE, TRUE, Few, {"certify", "district_status"}),
    Lane(2, 2, {d1}, FALSE, FALSE, Few, {"certify"}),
    Lane(2, 2, {d1}, TRUE, FALSE, Few, {"certify_cli", "disable"}),
    Lane(0, 1, {d1}, FALSE, TRUE, Few, {"create", "certify"}),
    Lane(Null, 1, {d1}, TRUE, TRUE, All, {"create", "certify", "add_state", "add_district"}),
    Lane(Null, 2, {}, TRUE, FALSE, All, {"create", "clone", "edit", "retire"}),
    Lane(Null, 1, {}, FALSE, TRUE, All, {"create", "edit"}),
    Lane(Null, 1, {}, FALSE, TRUE, All, {"register", "edit", "test", "retire"}),
    Lane(Null, 0, {}, FALSE, TRUE, All, {"add_state", "state_status", "state_active", "add_department", "department_active"})}

\* Source 1 covers the state, source 2 one district of it.
StockScope(s) == [state |-> t1, district |-> IF s = 1 THEN Null ELSE d1]

Stocked(n) ==
    /\ src = [s \in Sources |-> IF s > n THEN Null
                                ELSE [scope |-> StockScope(s), text |-> x1, active |-> TRUE,
                                      lifecycle |-> "NEW", cert |-> "PENDING", version |-> 1]]
    /\ lastSrc = n
    /\ versions = {[src |-> s, version |-> 1, text |-> x1, active |-> TRUE] : s \in 1 .. n}
    /\ certs = {}
    /\ state = [t \in States |-> [status |-> "NEW", active |-> TRUE]]
    /\ dist = [d \in Districts |-> IF d \in lane.districts
                                  THEN [status |-> "NEW", cert |-> "PENDING", published |-> FALSE] ELSE Null]
    /\ dept = [p \in Departments |-> [active |-> TRUE, published |-> FALSE]]
    /\ filed = [x \in Sources \X Buckets |-> "never"]
    /\ approved = [b \in Buckets |-> "never"]
    /\ call = [h \in Handlers |-> Idle]

MCInit ==
    /\ lane \in Lanes
    /\ IF lane.stock = Null THEN Init ELSE Stocked(lane.stock)
    /\ shaken = {} /\ torn = {}

\* One call at a time.
Serial == \A g, h \in Handlers : At(g, "idle") \/ At(h, "idle") \/ g = h

MCNext ==
    /\ HistoryStep(lane.ops, lane.crashes)
    /\ lane.serial => Serial'
    /\ lastSrc' <= lane.sources /\ \A d \in Districts : dist'[d] # Null => d \in lane.districts
    /\ \A h \in Handlers :
          At(h, "idle") \/ call'[h].pc = "certify_insert" => call'[h].want \in lane.wants
    /\ UNCHANGED lane

MCSpec == MCInit /\ [][MCNext]_<<historyVars, lane>>
=============================================================================
