------------------------------- MODULE GraphView -------------------------------
(***************************************************************************)
(* The graph of a vault in its tab: from the tab's mounting to its end.    *)
(* The engine builds the graph from three queries, between which it may *)
(* change; the view has it laid out, frame by frame, and then listens      *)
(* for changes and fetches the graph again, keeping every node in its      *)
(* place.  Nodes are told apart by what they stand for, edges and places   *)
(* refer to them by their number.                                          *)
(***************************************************************************)
EXTENDS Naturals, SequencesExt

CONSTANTS
  FileId,       \* notes and attachments, numbers in the order of their paths
  Elsewhere,    \* <<"ghost", name>> and <<"tag", name>>, names folded
  InitIndex,    \* the index the view finds: its files, and what each points to
  MaxChanges,   \* bound: changes of the index
  MaxRefreshes  \* bound: fetches after the first

FileNode == {"file"} \X FileId
Node == FileNode \union Elsewhere

ASSUME GraphAssumption ==
  /\ FileId \subseteq Nat /\ Elsewhere \subseteq {"ghost", "tag"} \X Nat
  /\ InitIndex \in [files : SUBSET FileId, points : SUBSET (FileId \X Node)]
  /\ {MaxChanges, MaxRefreshes} \subseteq Nat

VARIABLES
  db,                \* the rows of files, and those of links and tags
  told,              \* vault:file-changed is on its way
  view,              \* how far the view is
  listening,         \* its subscription
  refreshTimer,
  refreshGeneration, \* 0 is the fetch of start
  calls,             \* of graph_snapshot, unanswered
  graph,             \* the snapshot on show, and where its nodes are drawn
  laid,              \* the snapshot that is laid out
  behind,            \* a change went unheard, or a fetch failed; none was read since
  dbChanges

graphVars == <<db, told, view, listening, refreshTimer, refreshGeneration, calls, graph, laid,
               behind, dbChanges>>

NoGraph == [nodes |-> <<>>, edges |-> {}, places |-> <<>>]
NoRead == [files |-> {}, points |-> {}]

-------------------------------------------------------------------------------
(* build_model, of files read first, links next and tags last *)

Kind(n) == n[1]

(* Files by path, ghosts as the links come to them, tags by name.              *)
Precedes(points, m, n) ==
  LET rank(k) == CASE k = "file" -> 1 [] k = "ghost" -> 2 [] k = "tag" -> 3
      first(g) == CHOOSE f \in FileId : /\ <<f, g>> \in points
                                      /\ \A h \in FileId : <<h, g>> \in points => f <= h
  IN \/ rank(Kind(m)) < rank(Kind(n))
     \/ /\ Kind(m) = Kind(n)
        /\ IF Kind(m) = "ghost" /\ first(m) # first(n) THEN first(m) < first(n)
           ELSE m[2] < n[2]

(* A row whose note, or whose target, is not among the files has no edge.      *)
build_model(r) ==
  LET mine == {p \in r.points : p[1] \in r.files}
      found == ({"file"} \X r.files) \union {p[2] : p \in {q \in mine : Kind(q[2]) # "file"}}
      nodes == SetToSortSeq(found, LAMBDA m, n : Precedes(mine, m, n))
      Id(n) == CHOOSE i \in DOMAIN nodes : nodes[i] = n
  IN [nodes |-> nodes,
      edges |-> {<<Id(<<"file", p[1]>>), Id(p[2])>> : p \in {q \in mine : q[2] \in found}}]

Drawn(model, places) == [nodes |-> model.nodes, edges |-> model.edges, places |-> places]

-------------------------------------------------------------------------------
GraphInit ==
  /\ db = InitIndex /\ told = FALSE
  /\ view = "loading" /\ listening = "no" /\ refreshTimer = FALSE
  /\ refreshGeneration = 0 /\ calls = {[my |-> 0, at |-> "asked", read |-> NoRead]}
  /\ graph = NoGraph /\ laid = NoGraph
  /\ behind = FALSE /\ dbChanges = 0

(* A note comes or goes, its rows with it, or points to something else; the    *)
(* watcher tells when the index has it.                                      *)
IndexChanges ==
  /\ dbChanges < MaxChanges
  /\ dbChanges' = dbChanges + 1
  /\ \E f \in FileId :
       \/ db' = [files |-> db.files \ {f},
                 points |-> {p \in db.points : p[1] # f}]
       \/ db' = [db EXCEPT !.files = @ \union {f}]
       \/ /\ f \in db.files
          /\ \E n \in Node \ {<<"file", f>>} :
               db' = [db EXCEPT !.points =
                 IF <<f, n>> \in @ THEN @ \ {<<f, n>>} ELSE @ \union {<<f, n>>}]
  /\ db' # db
  /\ told' = TRUE
  /\ UNCHANGED <<view, listening, refreshTimer, refreshGeneration, calls, graph, laid,
                 behind>>

scheduleRefresh ==
  /\ told
  /\ told' = FALSE
  /\ refreshTimer' = (refreshTimer \/ (listening = "yes" /\ view = "ready"))
  /\ behind' = (behind \/ listening # "yes")
  /\ UNCHANGED <<db, view, listening, refreshGeneration, calls, graph, laid, dbChanges>>

-------------------------------------------------------------------------------
(* graph_snapshot *)

Becomes(c, d) == calls' = (calls \ {c}) \union {d}

ReadFiles(c) ==
  /\ c.at = "asked"
  /\ Becomes(c, [c EXCEPT !.at = "files", !.read.files = db.files])
  /\ behind' = (behind /\ c.my # refreshGeneration)
  /\ UNCHANGED <<db, told, view, listening, refreshTimer, refreshGeneration, graph,
                 laid, dbChanges>>

ReadRows(c, from, to, kinds) ==
  /\ c.at = from
  /\ Becomes(c, [c EXCEPT !.at = to,
                !.read.points = @ \union {p \in db.points : Kind(p[2]) \in kinds}])
  /\ UNCHANGED <<db, told, view, listening, refreshTimer, refreshGeneration, graph,
                 laid, behind, dbChanges>>

ReadLinks(c) == ReadRows(c, "files", "links", {"file", "ghost"})
ReadTags(c) == ReadRows(c, "links", "read", {"tag"})

(* The vault closes, the plugin is off, or a query fails.                     *)
SnapshotFails(c) ==
  /\ calls' = calls \ {c}
  /\ IF c.my = 0 /\ view = "loading"
     THEN view' = "error" /\ UNCHANGED behind
     ELSE behind' = TRUE /\ UNCHANGED view
  /\ UNCHANGED <<db, told, listening, refreshTimer, refreshGeneration, graph, laid,
                 dbChanges>>

-------------------------------------------------------------------------------
(* The view *)

(* Once: when the vault changes, releaseVault has closed the tab before.      *)
start(c) ==
  /\ c.my = 0 /\ c.at = "read" /\ view = "loading"
  /\ calls' = calls \ {c}
  /\ view' = "laying-out"
  /\ graph' = Drawn(build_model(c.read), <<>>)
  /\ laid' = graph'
  /\ UNCHANGED <<db, told, listening, refreshTimer, refreshGeneration, behind, dbChanges>>

(* A frame places the nodes of the snapshot that was sent.                    *)
Frame ==
  /\ view = "laying-out"
  /\ graph' = [graph EXCEPT !.places = laid.nodes]
  /\ UNCHANGED <<db, told, view, listening, refreshTimer, refreshGeneration, calls,
                 laid, behind, dbChanges>>

(* Then the view subscribes, which takes a while; a layout that fails or is    *)
(* cancelled leaves an error.                                                *)
LayoutEnds ==
  /\ view = "laying-out"
  /\ \/ /\ view' = "ready" /\ listening' = "asking"
        /\ graph' = [graph EXCEPT !.places = laid.nodes]
     \/ view' = "error" /\ UNCHANGED <<listening, graph>>
  /\ UNCHANGED <<db, told, refreshTimer, refreshGeneration, calls, laid, behind, dbChanges>>

(* Subscribed; a view that is gone by now lets go again.                      *)
Subscribed ==
  /\ listening = "asking"
  /\ listening' = IF view = "gone" THEN "no" ELSE "yes"
  /\ UNCHANGED <<db, told, view, refreshTimer, refreshGeneration, calls, graph, laid,
                 behind, dbChanges>>

SubscribeFails ==
  /\ listening = "asking"
  /\ listening' = "no"
  /\ UNCHANGED <<db, told, view, refreshTimer, refreshGeneration, calls, graph, laid,
                 behind, dbChanges>>

refresh ==
  /\ refreshTimer /\ refreshGeneration < MaxRefreshes
  /\ refreshTimer' = FALSE
  /\ refreshGeneration' = refreshGeneration + 1
  /\ calls' = calls \union {[my |-> refreshGeneration', at |-> "asked", read |-> NoRead]}
  /\ UNCHANGED <<db, told, view, listening, graph, laid, behind, dbChanges>>

(* Fault: a node is drawn where the one of its number was. *)
ShowsByNumber(c) ==
  LET model == build_model(c.read)
      place(i) == IF i \in DOMAIN graph.places THEN graph.places[i] ELSE model.nodes[i]
  IN IF view = "ready" /\ c.my = refreshGeneration
     THEN Drawn(model, [i \in DOMAIN model.nodes |-> place(i)]) ELSE graph

(* reconcilePositions finds a place by what a node stands for; an answer that   *)
(* is not the last one's is dropped.                                         *)
Shows(c) ==
  LET model == build_model(c.read)
  IN IF view = "ready" /\ c.my = refreshGeneration THEN Drawn(model, model.nodes) ELSE graph

Refreshed(c) ==
  /\ c.my > 0 /\ c.at = "read"
  /\ calls' = calls \ {c}
  /\ graph' = Shows(c)
  /\ UNCHANGED <<db, told, view, listening, refreshTimer, refreshGeneration, laid,
                 behind, dbChanges>>

(* The tab is closed.                                                        *)
stop ==
  /\ view # "gone"
  /\ view' = "gone"
  /\ graph' = NoGraph /\ refreshTimer' = FALSE
  /\ listening' = IF listening = "yes" THEN "no" ELSE listening
  /\ UNCHANGED <<db, told, refreshGeneration, calls, laid, behind, dbChanges>>

GraphNext ==
  \/ IndexChanges \/ scheduleRefresh \/ Frame \/ LayoutEnds \/ Subscribed \/ SubscribeFails
  \/ refresh \/ stop
  \/ \E c \in calls : \/ ReadFiles(c) \/ ReadLinks(c) \/ ReadTags(c) \/ SnapshotFails(c)
                      \/ start(c) \/ Refreshed(c)

GraphSpec == GraphInit /\ [][GraphNext]_graphVars

-------------------------------------------------------------------------------
(* When nothing is under way the graph on show is that of the index, whatever *)
(* changed between the queries and between the fetches, and every place is    *)
(* that of its node; a tab that was closed listens no more.  A change that    *)
(* came before the view listened, or whose fetch failed, is exempt: nothing    *)
(* fetches it until the next one.                                            *)
GraphSettles ==
  /\ view = "ready" => graph.places = graph.nodes
  /\ view = "ready" /\ ~ told /\ ~ refreshTimer /\ calls = {} /\ ~ behind
       => LET model == build_model(db) IN graph = Drawn(model, model.nodes)
  /\ view = "gone" => listening # "yes"

================================================================================
