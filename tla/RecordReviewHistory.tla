------------------------ MODULE RecordReviewHistory ------------------------
(***************************************************************************)
(* RecordReview with a history variable, which no step looks at. An        *)
(* identity is looked up in one statement and written in a later one, so of*)
(* two records whose identity is computed at once neither call need see the*)
(* other. `tied' holds the records that this happened to. Every other      *)
(* record has its URL for itself, whatever is computed at the same time.   *)
(***************************************************************************)
EXTENDS RecordReview

VARIABLE tied

historyVars == <<reviewVars, tied>>

\* Two calls are about to write the same identity, which each of them found to be free, to this
\* record and to another.
Tied(r) ==
    \E g, h \in Handlers :
        /\ At(g, "id_write") /\ At(h, "id_write")
        /\ call[g].rec = r /\ call[h].rec # r
        /\ call[g].id = call[h].id /\ call[g].id # Null /\ ~ call[g].id.own

HistoryInit == Init /\ tied = {}
HistoryNext == Next /\ tied' = tied \cup {r \in Records : Tied(r)'}
HistorySpec == HistoryInit /\ [][HistoryNext]_historyVars

\* A record shares its canonical id, hence its permanent URL, with no other (go_identity.py), unless
\* the id has the record's own number appended. Not those whose identity was computed at the same
\* time as that of another record with the same number and date.
IdsUnique ==
    \A q \in Known \ tied, r \in Known :
        q # r /\ rec[q].id # Null /\ rec[q].id = rec[r].id => rec[q].id.own

=============================================================================
