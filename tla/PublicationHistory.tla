------------------------- MODULE PublicationHistory -------------------------
(***************************************************************************)
(* Publication with two history variables, which no step looks at. The code*)
(* takes no lock between the statements of a request, so a certification   *)
(* that overtakes another can leave a district CERTIFIED over a source that*)
(* failed, and two edits at once can lose one of them. `shaken' and `torn' *)
(* say which districts and sources that may have happened to: those two    *)
(* calls worked on at once, or one call that was cut off. What the         *)
(* properties promise of all the others holds however busy the system is,  *)
(* and a refresh or an edit that has a district or a source to itself puts *)
(* it right again.                                                         *)
(***************************************************************************)
EXTENDS Publication

VARIABLES
    shaken,  \* districts whose certification may be older than that of their sources
    torn     \* sources what they say now may be missing in their history

historyVars == <<vars, shaken, torn>>

Failed == {"PARTIALLY_CERTIFIED", "FAILED"}

-----------------------------------------------------------------------------
(* The certification of a district.                                        *)

\* The call has the district still to refresh: it certifies a source that counts towards it, or the
\* district is on its list and its certification is not yet written.
Owes(c, d) ==
    /\ dist[d] # Null
    /\ \/ /\ c.pc \in {"certify_read", "certify_insert", "certify_write",
                       "lifecycle_read", "lifecycle_write", "affected_read"}
          /\ \E s \in c.srcs : Covers(s, d)
       \/ c.pc \in {"refresh_read", "refresh_before", "refresh_write"} /\ d \in c.dists
       \/ c.pc \in {"advance_read", "status_read", "status_write"} /\ d \in c.dists \ {c.dist}

Crossed(d) == \E g, h \in Handlers : g # h /\ Owes(call[g], d) /\ Owes(call[h], d)

\* A refresh of several districts ends with an error at one of them, before it comes to this one.
GivenUp(d) == \E h \in Handlers : At(h, "status_read") /\ call'[h].pc = "idle" /\ Owes(call[h], d)

\* A source that failed a certification is given its scope only now.
JoinedLate(d) == \E s \in Registered : ~ Covers(s, d) /\ Covers(s, d)' /\ src[s].cert \in Failed

\* A refresh of the district begins, which computes it from what all its sources say.
Reread(d) == \E h \in Handlers : At(h, "refresh_read") /\ call[h].dist = d /\ call'[h].pc = "refresh_before"

-----------------------------------------------------------------------------
(* The history of a source.                                                *)

\* The call writes what the source says, or is about to put it into the history.
Writes(c, s) == c.pc \in {"set_scope", "edit_write", "version_read", "version_insert"} /\ c.src = s

Overlaid(s) == \E g, h \in Handlers : g # h /\ Writes(call[g], s) /\ Writes(call[h], s)

\* What the source says is about to be put into the history, under a number beyond all others.
Reversioned(s) ==
    /\ \E h \in Handlers : At(h, "version_read") /\ call[h].src = s /\ call'[h].pc = "version_insert"
    /\ \A v \in versions : v.src = s => v.version < src[s].version

-----------------------------------------------------------------------------
HistoryInit == Init /\ shaken = {} /\ torn = {}

HistoryStep(routes, crashes) ==
    \/ /\ Step(routes, FALSE)
       /\ shaken' = {d \in Districts : \/ d \in shaken /\ ~ Reread(d)
                                       \/ Crossed(d)' \/ GivenUp(d) \/ JoinedLate(d)}
       /\ torn' = {s \in Sources : (s \in torn /\ ~ Reversioned(s)) \/ Overlaid(s)'}
    \/ /\ crashes /\ Crash
       /\ shaken' = shaken \cup {d \in Districts : \E h \in Handlers : Owes(call[h], d)}
       /\ torn' = torn \cup {s \in Sources : \E h \in Handlers : Writes(call[h], s)}

HistoryNext == HistoryStep(Routes, Crashes)

HistorySpec == HistoryInit /\ [][HistoryNext]_historyVars

-----------------------------------------------------------------------------
(* Properties.                                                             *)

\* A district that reads CERTIFIED owes it to no source that failed its last certification
\* (app.py:1271), from the moment nobody has it still to refresh: certification refreshes every
\* district the source counts toward. Not when two certifications or refreshes of the district
\* overlapped or one was cut off, until the next refresh that has the district to itself.
FailureShows ==
    \A d \in Districts \ shaken :
        /\ dist[d] # Null /\ dist[d].cert = "CERTIFIED"
        /\ \A h \in Handlers : ~ Owes(call[h], d)
        => \A s \in Applicable(d) : src[s].cert \notin Failed

\* What the source says is in its history, under the number it has.
InHistory(s) == \E v \in versions : v.src = s /\ v.version = src[s].version /\ v.text = src[s].text

\* "No edit is ever silently lossy" (schema_phase3.sql:91): what an edit replaces is in the history
\* of the source. Not when two edits of the source overlapped or one was cut off, until the next
\* version that one of them writes alone; and not for a source without any version, as the command
\* line registers them.
EditKept ==
    \A s \in Registered \ torn :
        src'[s].text # src[s].text /\ (\E v \in versions : v.src = s) => InHistory(s)

EditsKept == [][EditKept]_historyVars

=============================================================================
