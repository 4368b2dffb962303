--------------------------- MODULE MCAcquisition ---------------------------
(* Instances of Acquisition for TLC.  A behaviour stays in one               *)
(* scene: what stands on the portals, what is on file, who does what.        *)
EXTENDS Acquisition, TLC

CONSTANTS h1, h2, p1, p2, p3, p4, p5, d1, d2, d3, google, home, Scenes

VARIABLE scene

\* The conditions a crawl meets; a job of Diagnostics meets all.
Link(to, row, next, listing) == [to |-> to, approved |-> TRUE, row |-> row, next |-> next, listing |-> listing]
Foreign(to) == [Link(to, FALSE, FALSE, FALSE) EXCEPT !.approved = FALSE]

\* The portal: page 1 lists both documents, one of them twice, and leads to pages 2 and 3; both lead to each
\* other and back.  The department site: pages 4 and 5 lead to each other and list the same documents.
MCAnchors == [p \in Pages |->
    CASE p = p1 -> <<Link(d1, FALSE, FALSE, FALSE), Link(d2, TRUE, FALSE, FALSE), Link(d1, TRUE, FALSE, FALSE),
                     Link(p2, FALSE, TRUE, FALSE), Link(p1, FALSE, TRUE, TRUE), Link(p3, FALSE, FALSE, TRUE)>>
      [] p = p2 -> <<Link(p1, FALSE, TRUE, FALSE), Link(p3, FALSE, TRUE, FALSE), Foreign(d3)>>
      [] p = p3 -> <<Link(d2, FALSE, FALSE, FALSE), Link(p2, FALSE, TRUE, TRUE), Link(p5, FALSE, TRUE, FALSE)>>
      [] p = p4 -> <<Link(d1, FALSE, FALSE, FALSE), Link(d1, TRUE, FALSE, FALSE), Link(p5, FALSE, TRUE, FALSE)>>
      [] OTHER -> <<Link(d2, TRUE, FALSE, FALSE), Link(p4, FALSE, TRUE, FALSE), Link(p3, FALSE, FALSE, TRUE)>>]

MCRoot == [s \in Sources |-> IF s = 1 THEN p4 ELSE p1]
MCAdapter == [s \in Sources |-> IF s = 1 THEN "generic_links" ELSE IF s = 2 THEN "tn_go_portal" ELSE "other"]
MCSources == {1, 2, 3}

Settings(active, frequency, last, verify, fallback) ==
    [active |-> active, verify |-> verify, fallback |-> fallback, frequency |-> frequency, last |-> last,
     status |-> "none"]
New(d) == [source |-> 1, url |-> d, status |-> "new", first |-> 0]

\* Two crawls of one source; one crawl of every source; two downloads and parsers over what is on file, with
\* crashes; a run of everything; crawls while an administrator works on the registry; a diagnostic job.
Scene(disc0, first, second, only, settings, what) ==
    [disc |-> disc0, agenda |-> [h \in Handlers |-> IF h = h1 THEN first ELSE second], only |-> only,
     settings |-> settings, what |-> what]
Either == BOOLEAN \X BOOLEAN
Lenient == {<<TRUE, TRUE>>}
Strict == {<<TRUE, FALSE>>}
AllScenes ==
    {Scene(<<>>, <<"crawl_one">>, <<"crawl_due">>, {1}, Strict, "calls"),
     Scene(<<>>, <<"crawl_all">>, <<>>, {1, 2, 3}, Either, "calls"),
     Scene(<<New(d1), New(d2)>>, <<"download", "parse">>, <<"download", "parse">>, {1}, Strict, "crashes"),
     Scene(<<New(d2)>>, <<"crawl_due", "download", "parse">>, <<>>, {2}, Lenient, "calls"),
     Scene(<<>>, <<"crawl_due">>, <<>>, {1}, Strict, "registry"),
     Scene(<<>>, <<"crawl_due", "crawl_due">>, <<>>, {3}, Strict, "registry"),
     Scene(<<>>, <<>>, <<>>, {1}, Strict, "jobs")}

MCInit ==
    /\ scene \in Scenes
    /\ disc = scene.disc /\ agenda = scene.agenda
    /\ \E set \in scene.settings : source = [s \in Sources |->
           Settings(s \in scene.only, "daily", "never", set[1], set[2])]
    /\ DiscInit /\ DiagInit

Administers == scene.what = "registry" /\ \E s \in scene.only : SetActive(s) \/ SetSslConfig(s) \/ Elapse(s)

MCNext ==
    /\ UNCHANGED scene
    /\ \/ /\ \/ \E h \in Handlers : BeginCrawl(h) \/ BeginBatch(h) \/ Work(h) \/ (scene.what = "crashes" /\ Crash(h))
             \/ Administers
          /\ UNCHANGED diagVars
       \/ scene.what = "jobs" /\ DiagNext /\ UNCHANGED discVars

MCSpec == MCInit /\ [][MCNext]_<<discVars, diagVars, scene>> /\ DiscFairness
=============================================================================
