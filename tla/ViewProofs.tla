------------------------------ MODULE ViewProofs ------------------------------
(***************************************************************************)
(* What the index and the notes are shown as.  The graph of a vault and    *)
(* the panel of unlinked mentions come to show what they say, for any      *)
(* number of notes, changes and fetches; the table cache answers fresh     *)
(* tables and stays under its ceiling, for any number of files, sheets and *)
(* loads, any ceiling and any sizes; and the two executors of the query    *)
(* language agree on every relation and sort what they found, for any      *)
(* number of records and any texts and numbers.                            *)
(***************************************************************************)
EXTENDS GraphView, MentionPanel, TableCache, QueryLanguage, PendingRewritesProofs, TLAPS

-------------------------------------------------------------------------------
(* The graph *)

Index == [files : SUBSET FileId, points : SUBSET (FileId \X Node)]
Snapshot == [my : Nat, at : {"asked", "files", "links", "read"}, read : Index]

(* What a call has read is what the index has. *)
IsCurrent(c) ==
  /\ c.at # "asked" => c.read.files = db.files
  /\ c.at = "links" => c.read.points = {p \in db.points : Kind(p[2]) \in {"file", "ghost"}}
  /\ c.at = "read" => c.read.points = db.points

Shown ==
  LET model == build_model(db)
  IN graph.nodes = model.nodes /\ graph.edges = model.edges

GraphTypes ==
  /\ db \in Index
  /\ calls \subseteq Snapshot
  /\ refreshGeneration \in Nat
  /\ graph = Drawn(graph, graph.places)

(* Calls have numbers of their own, and none is ahead of the last one's; the
   files are read first. *)
CallsInv ==
  /\ \A c, d \in calls : c.my = d.my => c = d
  /\ \A c \in calls : /\ c.my <= refreshGeneration
                      /\ c.at \in {"asked", "files"} => c.read.points = {}

(* Nothing is fetched again before the view is ready, and only a view that is
   listens. *)
ViewInv ==
  /\ view \in {"loading", "laying-out"} =>
       refreshGeneration = 0 /\ ~refreshTimer /\ listening = "no"
  /\ view = "laying-out" => laid.nodes = graph.nodes
  /\ view = "ready" => graph.places = graph.nodes
  /\ listening = "asking" => view \in {"ready", "gone"}
  /\ listening = "yes" => view = "ready"

(* With no change on its way the last call is still to come and has missed
   nothing, or its answer is on show. *)
LastCallInv ==
  view \in {"loading", "laying-out", "ready"} /\ ~told /\ ~refreshTimer /\ ~behind =>
    \/ \E c \in calls : c.my = refreshGeneration /\ IsCurrent(c)
    \/ Shown /\ \A c \in calls : c.my # refreshGeneration

GraphInv == GraphTypes /\ CallsInv /\ ViewInv /\ LastCallInv

LEMMA KindsOfNodes ==
  \A p \in FileId \X Node : Kind(p[2]) \in {"file", "ghost", "tag"}
<1>1. \A n \in Node : n[1] \in {"file", "ghost", "tag"}
  BY GraphAssumption DEF Node, FileNode
<1> QED BY <1>1 DEF Kind

THEOREM GraphKept == GraphSpec => []GraphInv
<1> USE GraphAssumption
<1>1. GraphInit => GraphInv
  <2> SUFFICES ASSUME GraphInit PROVE GraphInv
    OBVIOUS
  <2>1. GraphTypes
    BY DEF GraphInit, GraphTypes, Index, Snapshot, NoRead, NoGraph, Drawn
  <2>2. CallsInv /\ ViewInv
    BY DEF GraphInit, CallsInv, ViewInv, NoRead
  <2>3. LastCallInv
    BY DEF GraphInit, LastCallInv, IsCurrent, NoRead
  <2> QED BY <2>1, <2>2, <2>3 DEF GraphInv
<1>2. GraphInv /\ [GraphNext]_graphVars => GraphInv'
  <2> SUFFICES ASSUME GraphInv, [GraphNext]_graphVars PROVE GraphInv'
    OBVIOUS
  <2>t. /\ db \in Index /\ calls \subseteq Snapshot /\ refreshGeneration \in Nat
        /\ graph = Drawn(graph, graph.places)
        /\ CallsInv /\ ViewInv /\ LastCallInv
    BY DEF GraphInv, GraphTypes
  <2>1. CASE IndexChanges
    <3>1. db' \in Index
      <4>1. \A f \in FileId : [files |-> db.files \ {f}, points |-> {p \in db.points : p[1] # f}] \in Index
        BY <2>t DEF Index
      <4>2. \A f \in FileId : [db EXCEPT !.files = @ \union {f}] \in Index
        BY <2>t DEF Index
      <4>3. \A f \in FileId : \A n \in Node :
              [db EXCEPT !.points = IF <<f, n>> \in @ THEN @ \ {<<f, n>>} ELSE @ \union {<<f, n>>}] \in Index
        BY <2>t DEF Index
      <4> QED BY <2>1, <4>1, <4>2, <4>3 DEF IndexChanges
    <3> QED
      BY <2>1, <2>t, <3>1
      DEF IndexChanges, GraphInv, GraphTypes, CallsInv, ViewInv, LastCallInv, Drawn
  <2>2. CASE scheduleRefresh
    BY <2>2, <2>t
    DEF scheduleRefresh, GraphInv, GraphTypes, CallsInv, ViewInv, LastCallInv, Drawn
  <2>3. CASE Frame
    <3>1. graph' = [graph EXCEPT !.places = laid.nodes] /\ view = "laying-out"
          /\ UNCHANGED <<db, told, view, listening, refreshTimer, refreshGeneration, calls, laid, behind>>
      BY <2>3 DEF Frame
    <3>2. graph'.nodes = graph.nodes /\ graph'.edges = graph.edges
          /\ graph' = Drawn(graph', graph'.places)
      BY <2>t, <3>1 DEF Drawn
    <3> QED
      BY <2>t, <3>1, <3>2
      DEF GraphInv, GraphTypes, CallsInv, ViewInv, LastCallInv, IsCurrent, Shown
  <2>4. CASE LayoutEnds
    <3>1. /\ UNCHANGED <<db, told, refreshTimer, refreshGeneration, calls, laid, behind>>
          /\ view = "laying-out"
          /\ \/ /\ view' = "ready" /\ listening' = "asking"
                /\ graph' = [graph EXCEPT !.places = laid.nodes]
             \/ view' = "error" /\ UNCHANGED <<listening, graph>>
      BY <2>4 DEF LayoutEnds
    <3>2. /\ graph'.nodes = graph.nodes /\ graph'.edges = graph.edges
          /\ graph' = Drawn(graph', graph'.places)
          /\ view' = "ready" => graph'.places = laid.nodes
      BY <2>t, <3>1 DEF Drawn
    <3> QED
      BY <2>t, <3>1, <3>2
      DEF GraphInv, GraphTypes, CallsInv, ViewInv, LastCallInv, IsCurrent, Shown
  <2>5. CASE Subscribed \/ SubscribeFails
    <3>1. UNCHANGED <<db, told, view, refreshTimer, refreshGeneration, calls, graph, laid, behind>>
      BY <2>5 DEF Subscribed, SubscribeFails
    <3>2. ViewInv'
      BY <2>5, <2>t, <3>1 DEF Subscribed, SubscribeFails, ViewInv
    <3> QED
      BY <2>t, <3>1, <3>2
      DEF GraphInv, GraphTypes, CallsInv, LastCallInv, IsCurrent, Shown, Drawn
  <2>6. CASE refresh
    <3>0. PICK c : c = [my |-> refreshGeneration + 1, at |-> "asked", read |-> NoRead]
      OBVIOUS
    <3>1. /\ calls' = calls \union {c} /\ refreshGeneration' = refreshGeneration + 1
          /\ refreshTimer /\ ~refreshTimer'
          /\ UNCHANGED <<db, told, view, listening, graph, laid, behind>>
      BY <2>6, <3>0 DEF refresh
    <3>2. c \in Snapshot /\ c.my = refreshGeneration + 1 /\ IsCurrent(c)' /\ c.read.points = {}
      BY <2>t, <3>0 DEF Snapshot, NoRead, Index, IsCurrent
    <3>3. \A d \in calls : d.my \in Nat /\ d.my <= refreshGeneration
      BY <2>t DEF Snapshot, CallsInv
    <3>4. GraphTypes'
      BY <2>t, <3>1, <3>2 DEF GraphTypes, Drawn
    <3>5. CallsInv'
      BY <2>t, <3>1, <3>2, <3>3 DEF CallsInv
    <3>6. ViewInv'
      BY <2>t, <3>1 DEF ViewInv
    <3>7. LastCallInv'
      BY <3>1, <3>2 DEF LastCallInv
    <3> QED BY <3>4, <3>5, <3>6, <3>7 DEF GraphInv
  <2>7. CASE stop
    BY <2>7, <2>t
    DEF stop, NoGraph, GraphInv, GraphTypes, CallsInv, ViewInv, LastCallInv, Drawn
  <2>8. ASSUME NEW c \in calls, ReadFiles(c) PROVE GraphInv'
    <3>0. PICK d : d = [c EXCEPT !.at = "files", !.read.files = db.files]
      OBVIOUS
    <3>1. /\ calls' = (calls \ {c}) \union {d} /\ c.at = "asked"
          /\ behind' = (behind /\ c.my # refreshGeneration)
          /\ UNCHANGED <<db, told, view, listening, refreshTimer, refreshGeneration, graph, laid>>
      BY <2>8, <3>0 DEF ReadFiles, Becomes
    <3>2. d \in Snapshot /\ d.my = c.my /\ d.at = "files" /\ d.read.files = db.files
          /\ d.read.points = c.read.points
      BY <2>t, <3>0 DEF Snapshot, Index
    <3>3. c.my \in Nat /\ \A e \in calls : e.my \in Nat
      BY <2>t DEF Snapshot
    <3>4. GraphTypes'
      BY <2>t, <3>1, <3>2 DEF GraphTypes, Drawn
    <3>5. CallsInv'
      BY <2>t, <3>1, <3>2 DEF CallsInv
    <3>6. ViewInv'
      BY <2>t, <3>1 DEF ViewInv
    <3>7. LastCallInv'
      <4>1. CASE c.my = refreshGeneration
        BY <2>t, <3>1, <3>2, <4>1 DEF LastCallInv, IsCurrent
      <4>2. CASE c.my # refreshGeneration
        BY <2>t, <3>1, <3>2, <4>2 DEF LastCallInv, IsCurrent, Shown
      <4> QED BY <4>1, <4>2
    <3> QED BY <3>4, <3>5, <3>6, <3>7 DEF GraphInv
  <2>9. ASSUME NEW c \in calls, NEW from, NEW to, NEW kinds,
               \/ from = "files" /\ to = "links" /\ kinds = {"file", "ghost"}
               \/ from = "links" /\ to = "read" /\ kinds = {"tag"},
               ReadRows(c, from, to, kinds)
        PROVE  GraphInv'
    <3>0. PICK d : d = [c EXCEPT !.at = to,
                          !.read.points = @ \union {p \in db.points : Kind(p[2]) \in kinds}]
      OBVIOUS
    <3>1. /\ calls' = (calls \ {c}) \union {d} /\ c.at = from
          /\ UNCHANGED <<db, told, view, listening, refreshTimer, refreshGeneration, graph, laid, behind>>
      BY <2>9, <3>0 DEF ReadRows, Becomes
    <3>2. d \in Snapshot /\ d.my = c.my /\ d.at = to /\ d.read.files = c.read.files
          /\ d.read.points = c.read.points \union {p \in db.points : Kind(p[2]) \in kinds}
      BY <2>9, <2>t, <3>0 DEF Snapshot, Index
    <3>3. c.my \in Nat /\ \A e \in calls : e.my \in Nat
      BY <2>t DEF Snapshot
    <3>4. GraphTypes'
      BY <2>t, <3>1, <3>2 DEF GraphTypes, Drawn
    <3>5. CallsInv'
      BY <2>9, <2>t, <3>1, <3>2 DEF CallsInv
    <3>6. ViewInv'
      BY <2>t, <3>1 DEF ViewInv
    <3>7. IsCurrent(c) => IsCurrent(d)'
      <4>1. CASE from = "files"
        <5>1. to = "links" /\ kinds = {"file", "ghost"} /\ c.read.points = {}
          BY <2>9, <2>t, <3>1, <4>1 DEF CallsInv
        <5> QED BY <3>1, <3>2, <4>1, <5>1 DEF IsCurrent
      <4>2. CASE from = "links"
        <5>1. \A p \in db.points : Kind(p[2]) \in {"file", "ghost", "tag"}
          BY <2>t, KindsOfNodes DEF Index
        <5>2. to = "read" /\ kinds = {"tag"}
          BY <2>9, <4>2
        <5> QED BY <3>1, <3>2, <4>2, <5>1, <5>2 DEF IsCurrent
      <4> QED BY <2>9, <4>1, <4>2
    <3>8. LastCallInv'
      BY <2>t, <3>1, <3>2, <3>7 DEF LastCallInv, IsCurrent, Shown
    <3> QED BY <3>4, <3>5, <3>6, <3>8 DEF GraphInv
  <2>10. ASSUME NEW c \in calls, SnapshotFails(c) PROVE GraphInv'
    BY <2>10, <2>t
    DEF SnapshotFails, GraphInv, GraphTypes, CallsInv, ViewInv, LastCallInv, Drawn
(* The last call is answered. *)
  <2>11. ASSUME NEW c \in calls, c.at = "read", c.my = refreshGeneration,
                LastCallInv, view \in {"loading", "ready"},
                ~told /\ ~refreshTimer /\ ~behind
         PROVE  c.read = db
    <3>1. IsCurrent(c)
      BY <2>11, <2>t DEF LastCallInv, CallsInv
    <3>2. c.read \in Index /\ c.read.files = db.files /\ c.read.points = db.points
      BY <2>11, <2>t, <3>1 DEF IsCurrent, Snapshot
    <3> QED BY <2>t, <3>2 DEF Index
  <2>12. ASSUME NEW c \in calls, start(c) PROVE GraphInv'
    <3> DEFINE model == build_model(c.read)
    <3>1. /\ calls' = calls \ {c} /\ c.my = 0 /\ c.at = "read"
          /\ view = "loading" /\ view' = "laying-out"
          /\ graph' = Drawn(model, <<>>) /\ laid' = graph'
          /\ UNCHANGED <<db, told, listening, refreshTimer, refreshGeneration, behind>>
      BY <2>12 DEF start
    <3>2. refreshGeneration = 0
      BY <2>t, <3>1 DEF ViewInv
    <3>3. ~told /\ ~refreshTimer /\ ~behind => model = build_model(db)
      BY <2>11, <2>t, <3>1, <3>2
    <3> HIDE DEF model
    <3>4. graph'.nodes = model.nodes /\ graph'.edges = model.edges
          /\ graph' = Drawn(graph', graph'.places)
      BY <3>1 DEF Drawn
    <3>5. GraphTypes' /\ CallsInv' /\ ViewInv'
      BY <2>t, <3>1, <3>4 DEF GraphTypes, CallsInv, ViewInv
    <3>6. \A d \in calls' : d.my # refreshGeneration'
      BY <2>t, <3>1, <3>2 DEF CallsInv
    <3>7. LastCallInv'
      BY <3>1, <3>3, <3>4, <3>6 DEF LastCallInv, Shown
    <3> QED BY <3>5, <3>7 DEF GraphInv
  <2>13. ASSUME NEW c \in calls, Refreshed(c) PROVE GraphInv'
    <3> DEFINE model == build_model(c.read)
    <3>1. /\ calls' = calls \ {c} /\ c.my > 0 /\ c.at = "read"
          /\ graph' = IF view = "ready" /\ c.my = refreshGeneration
                      THEN Drawn(model, model.nodes) ELSE graph
          /\ UNCHANGED <<db, told, view, listening, refreshTimer, refreshGeneration, laid, behind>>
      BY <2>13 DEF Refreshed, Shows
    <3>2. CASE view = "ready" /\ c.my = refreshGeneration
      <4>1. ~told /\ ~refreshTimer /\ ~behind => model = build_model(db)
        BY <2>11, <2>t, <3>1, <3>2
      <4> HIDE DEF model
      <4>2. graph'.nodes = model.nodes /\ graph'.edges = model.edges
            /\ graph'.places = model.nodes /\ graph' = Drawn(graph', graph'.places)
        BY <3>1, <3>2 DEF Drawn
      <4>3. GraphTypes' /\ CallsInv' /\ ViewInv'
        BY <2>t, <3>1, <3>2, <4>2 DEF GraphTypes, CallsInv, ViewInv
      <4>4. \A d \in calls' : d.my # refreshGeneration'
        BY <2>t, <3>1, <3>2 DEF CallsInv
      <4>5. LastCallInv'
        BY <3>1, <3>2, <4>1, <4>2, <4>4 DEF LastCallInv, Shown
      <4> QED BY <4>3, <4>5 DEF GraphInv
    <3>3. CASE ~(view = "ready" /\ c.my = refreshGeneration)
      <4>1. UNCHANGED graph
        BY <3>1, <3>3
      <4> HIDE DEF model
      <4>2. GraphTypes' /\ CallsInv' /\ ViewInv'
        BY <2>t, <3>1, <4>1 DEF GraphTypes, CallsInv, ViewInv, Drawn
      <4>3. view \in {"loading", "laying-out", "ready"} => c.my # refreshGeneration
        BY <2>t, <3>1, <3>3 DEF ViewInv
      <4>4. LastCallInv'
        BY <2>t, <3>1, <4>1, <4>3 DEF LastCallInv, IsCurrent, Shown
      <4> QED BY <4>2, <4>4 DEF GraphInv
    <3> QED BY <3>2, <3>3
  <2>14. CASE UNCHANGED graphVars
    BY <2>14, <2>t
    DEF graphVars, GraphInv, GraphTypes, CallsInv, ViewInv, LastCallInv, IsCurrent, Shown, Drawn
  <2> QED
    BY <2>1, <2>2, <2>3, <2>4, <2>5, <2>6, <2>7, <2>8, <2>9, <2>10, <2>12, <2>13, <2>14
    DEF GraphNext, ReadLinks, ReadTags
<1> QED BY <1>1, <1>2, PTL DEF GraphSpec

(* GraphSettles. *)
THEOREM GraphComesToRest == GraphSpec => []GraphSettles
<1>1. GraphInv => GraphSettles
  <2> SUFFICES ASSUME GraphInv PROVE GraphSettles
    OBVIOUS
  <2>1. view = "gone" => listening # "yes"
    BY DEF GraphInv, ViewInv
  <2>2. view = "ready" => graph.places = graph.nodes
    BY DEF GraphInv, ViewInv
  <2>3. ASSUME view = "ready", ~told, ~refreshTimer, calls = {}, ~behind
        PROVE  graph = Drawn(build_model(db), build_model(db).nodes)
    <3> DEFINE model == build_model(db)
    <3>1. graph.nodes = model.nodes /\ graph.edges = model.edges
      BY <2>3 DEF GraphInv, LastCallInv, Shown
    <3>2. graph = Drawn(graph, graph.places)
      BY DEF GraphInv, GraphTypes
    <3> HIDE DEF model
    <3>3. graph = Drawn(model, model.nodes)
      BY <2>2, <2>3, <3>1, <3>2 DEF Drawn
    <3> QED BY <3>3 DEF model
  <2> QED BY <2>1, <2>2, <2>3 DEF GraphSettles
<1> QED BY <1>1, GraphKept, PTL

-------------------------------------------------------------------------------
(* The panel of unlinked mentions *)

IsCall(l) == l = [pc |-> l.pc, my |-> l.my, at |-> l.at, of |-> l.of, read |-> l.read]

PanelTypes ==
  /\ token \in Nat
  /\ \A f \in fetches : f = [my |-> f.my, of |-> f.of] /\ f.my \in Nat
  /\ link = [c \in Call |-> link[c]]
  /\ \A c \in Call : link[c].my \in Nat /\ IsCall(link[c])

(* Fetches have numbers of their own, and none is ahead of the last one's.  What
   the last one was served is still shown, or a refresh is due. *)
FetchesInv ==
  /\ \A f, g \in fetches : f.my = g.my => f = g
  /\ \A f \in fetches : /\ f.my <= token
                        /\ f.my = token /\ ~due => f.of \in {Unserved, OnScreen}

(* Only a list that will be fetched again is cut short by a link. *)
LinksInv ==
  \A c \in Call : /\ link[c].my <= token
                  /\ link[c].pc = "written" /\ link[c].my = token => due

ListInv ==
  ~due /\ list # NoList =>
    \/ \E f \in fetches : f.my = token
    \/ list.at = find_mention_occurrences(OnScreen)

PanelInv == PanelTypes /\ FetchesInv /\ LinksInv /\ ListInv

(* A flush changes nothing a reader sees. *)
LEMMA FlushShowsTheSame ==
  ASSUME bytes_of' = OnScreen, stale' = FALSE
  PROVE  OnScreen' = OnScreen
BY DEF OnScreen

(* A step of one call of link_mention. *)
LEMMA LinkMoves ==
  ASSUME PanelTypes, LinksInv, NEW c \in Call, NEW l,
         link' = [link EXCEPT ![c] = l], IsCall(l), l.my \in Nat, l.my <= token,
         l.pc = "written" /\ l.my = token => due', due => due',
         UNCHANGED <<token, fetches>>
  PROVE  PanelTypes' /\ LinksInv'
<1>1. link' = [d \in Call |-> IF d = c THEN l ELSE link[d]]
  BY DEF PanelTypes
<1>2. PanelTypes'
  BY <1>1 DEF PanelTypes
<1>3. LinksInv'
  BY <1>1 DEF LinksInv
<1> QED BY <1>2, <1>3

LEMMA NoLinkIsACall == IsCall(NoLink) /\ NoLink.my = 0 /\ NoLink.pc = "idle"
BY DEF IsCall, NoLink

THEOREM PanelKept == MentionSpec => []PanelInv
<1>1. MentionInit => PanelInv
  BY NoLinkIsACall DEF MentionInit, PanelInv, PanelTypes, FetchesInv, LinksInv, ListInv
<1>2. PanelInv /\ [MentionNext]_mentionVars => PanelInv'
  <2> SUFFICES ASSUME PanelInv, [MentionNext]_mentionVars PROVE PanelInv'
    OBVIOUS
  <2>t. PanelTypes /\ FetchesInv /\ LinksInv /\ ListInv
    BY DEF PanelInv
(* What a change of the note that is announced leaves to show. *)
  <2>1. ASSUME due' = TRUE, UNCHANGED <<token, fetches, list, link>> PROVE PanelInv'
    BY <2>1, <2>t DEF PanelInv, PanelTypes, FetchesInv, LinksInv, ListInv
(* A step of a link that writes nothing. *)
  <2>2. ASSUME UNCHANGED <<token, fetches, list>>, due => due', OnScreen' = OnScreen,
               PanelTypes', LinksInv'
        PROVE  PanelInv'
    BY <2>2, <2>t DEF PanelInv, PanelTypes, FetchesInv, ListInv
  <2>3. UNCHANGED <<bytes_of, stale>> => OnScreen' = OnScreen
    BY DEF OnScreen
  <2>4. CASE rightSidebarRefresh
    <3>0. PICK g : g = [my |-> token + 1, of |-> Unserved]
      OBVIOUS
    <3>1. /\ due /\ ~due' /\ token' = token + 1 /\ fetches' = fetches \union {g}
          /\ g.my = token + 1 /\ g.of = Unserved /\ g = [my |-> g.my, of |-> g.of]
          /\ UNCHANGED <<bytes_of, stale, list, link, changes>>
      BY <2>4, <3>0 DEF rightSidebarRefresh
    <3>2. PanelTypes'
      BY <2>t, <3>1 DEF PanelTypes
    <3>3. FetchesInv'
      BY <2>t, <3>1 DEF PanelTypes, FetchesInv
    <3>4. LinksInv'
      <4>1. \A d \in Call : link[d].my \in Nat /\ link[d].my <= token
        BY <2>t DEF PanelTypes, LinksInv
      <4> QED BY <2>t, <3>1, <4>1 DEF PanelTypes, LinksInv
    <3>5. ListInv'
      BY <3>1 DEF ListInv
    <3> QED BY <3>2, <3>3, <3>4, <3>5 DEF PanelInv
  <2>5. CASE RenameOther \/ EditNote
    BY <2>1, <2>5 DEF RenameOther, EditNote
  <2>6. CASE FlushNote
    <3>1. UNCHANGED <<due, token, fetches, list, link>> /\ OnScreen' = OnScreen
      BY <2>6, FlushShowsTheSame DEF FlushNote
    <3> QED
      BY <2>2, <2>t, <3>1 DEF PanelTypes, LinksInv
  <2>7. ASSUME NEW c \in Call, handleLink(c) PROVE PanelInv'
    <3>1. PICK p \in list.at :
            link' = [link EXCEPT ![c] = [NoLink EXCEPT !.pc = "asked", !.my = token,
                                                       !.at = p, !.of = list.of]]
      BY <2>7 DEF handleLink
    <3>2. UNCHANGED <<bytes_of, stale, due, token, fetches, list>>
      BY <2>7 DEF handleLink
    <3>3. PICK l : l = [NoLink EXCEPT !.pc = "asked", !.my = token, !.at = p, !.of = list.of]
      OBVIOUS
    <3>4. link' = [link EXCEPT ![c] = l]
      BY <3>1, <3>3
    <3>5. IsCall(l) /\ l.my = token /\ l.pc = "asked"
      BY <3>3 DEF IsCall, NoLink
    <3>6. token \in Nat /\ token <= token
      BY <2>t DEF PanelTypes
    <3>7. PanelTypes' /\ LinksInv'
      BY <2>t, <3>2, <3>4, <3>5, <3>6, LinkMoves
    <3> QED BY <2>2, <2>3, <3>2, <3>7
  <2>8. ASSUME NEW c \in Call, flush_target_for_link_mention(c) PROVE PanelInv'
    <3>1. /\ link' = [link EXCEPT ![c].pc = "flushed"]
          /\ UNCHANGED <<token, fetches, list>>
          /\ due => due'
          /\ OnScreen' = OnScreen
      BY <2>8, FlushShowsTheSame DEF flush_target_for_link_mention
    <3>2. PanelTypes' /\ LinksInv'
      <4>1. PICK l : l = [link[c] EXCEPT !.pc = "flushed"]
        OBVIOUS
      <4>2. IsCall(l) /\ l.my = link[c].my /\ l.pc = "flushed"
        BY <2>t, <4>1 DEF PanelTypes, IsCall
      <4>3. link' = [link EXCEPT ![c] = l]
        BY <2>t, <3>1, <4>1 DEF PanelTypes
      <4>4. l.my \in Nat /\ l.my <= token
        BY <2>t, <4>2 DEF PanelTypes, LinksInv
      <4> QED BY <2>t, <3>1, <4>2, <4>3, <4>4, LinkMoves
    <3> QED BY <2>2, <3>1, <3>2
  <2>9. ASSUME NEW c \in Call, LinkReads(c) PROVE PanelInv'
    <3>1. /\ UNCHANGED <<bytes_of, stale, due, token, fetches, list>>
          /\ \/ link' = [link EXCEPT ![c] = NoLink]
             \/ link' = [link EXCEPT ![c] = [@ EXCEPT !.pc = "read", !.read = bytes_of]]
      BY <2>9 DEF LinkReads
    <3>2. PICK l : l = IF link' = [link EXCEPT ![c] = NoLink] THEN NoLink
                       ELSE [link[c] EXCEPT !.pc = "read", !.read = bytes_of]
      OBVIOUS
    <3>3. link' = [link EXCEPT ![c] = l]
      BY <2>t, <3>1, <3>2 DEF PanelTypes
    <3>4. IsCall(l) /\ l.my \in {0, link[c].my} /\ l.pc # "written"
      <4>1. CASE l = NoLink
        BY <4>1, NoLinkIsACall
      <4>2. CASE l = [link[c] EXCEPT !.pc = "read", !.read = bytes_of]
        <5>1. IsCall(link[c])
          BY <2>t DEF PanelTypes
        <5> QED BY <4>2, <5>1 DEF IsCall
      <4> QED BY <3>2, <4>1, <4>2
    <3>5. l.my \in Nat /\ l.my <= token
      BY <2>t, <3>4 DEF PanelTypes, LinksInv
    <3>6. PanelTypes' /\ LinksInv'
      BY <2>t, <3>1, <3>3, <3>4, <3>5, LinkMoves
    <3> QED BY <2>2, <2>3, <3>1, <3>6
  <2>10. ASSUME NEW c \in Call, LinkWrites(c) PROVE PanelInv'
    <3>1. /\ due' = TRUE /\ link' = [link EXCEPT ![c].pc = "written"]
          /\ UNCHANGED <<token, fetches, list>>
      BY <2>10 DEF LinkWrites
    <3>2. PanelTypes' /\ LinksInv'
      <4>1. PICK l : l = [link[c] EXCEPT !.pc = "written"]
        OBVIOUS
      <4>2. IsCall(l) /\ l.my = link[c].my
        BY <2>t, <4>1 DEF PanelTypes, IsCall
      <4>3. link' = [link EXCEPT ![c] = l]
        BY <2>t, <3>1, <4>1 DEF PanelTypes
      <4> QED BY <2>t, <3>1, <4>2, <4>3, LinkMoves DEF PanelTypes, LinksInv
    <3> QED BY <2>t, <3>1, <3>2 DEF PanelInv, FetchesInv, ListInv
  <2>11. ASSUME NEW c \in Call, mention_linked(c) PROVE PanelInv'
    <3>1. /\ link[c].pc = "written" /\ link' = [link EXCEPT ![c] = NoLink]
          /\ link[c].my # token \/ list = NoList => list' = list
          /\ UNCHANGED <<bytes_of, stale, due, token, fetches>>
      BY <2>11 DEF mention_linked
    <3>0. 0 \in Nat /\ 0 <= token
      BY <2>t DEF PanelTypes
    <3>2. PanelTypes' /\ LinksInv' /\ FetchesInv'
      <4>1. PanelTypes' /\ LinksInv'
        BY <2>t, <3>0, <3>1, LinkMoves, NoLinkIsACall
      <4> QED BY <2>t, <2>3, <3>1, <4>1 DEF FetchesInv
    <3>3. ListInv'
      <4>1. due \/ list' = list
        <5>1. link[c].my = token => due
          BY <2>t, <3>1 DEF LinksInv
        <5>2. link[c].my # token => list' = list
          BY <3>1
        <5> QED BY <5>1, <5>2
      <4> QED BY <2>t, <2>3, <3>1, <4>1 DEF ListInv
    <3> QED BY <3>2, <3>3 DEF PanelInv
  <2>12. ASSUME NEW f \in fetches, get_unlinked_mentions(f) PROVE PanelInv'
    <3>0. PICK g : g = [f EXCEPT !.of = OnScreen]
      OBVIOUS
    <3>1. /\ fetches' = (fetches \ {f}) \union {g}
          /\ UNCHANGED <<bytes_of, stale, due, token, list, link>>
      BY <2>12, <3>0 DEF get_unlinked_mentions
    <3>2. g.my = f.my /\ g.of = OnScreen /\ g = [my |-> g.my, of |-> g.of]
      BY <2>t, <3>0 DEF PanelTypes
    <3>3. PanelTypes' /\ FetchesInv' /\ LinksInv' /\ ListInv'
      BY <2>t, <2>3, <3>1, <3>2 DEF PanelTypes, FetchesInv, LinksInv, ListInv
    <3> QED BY <3>3 DEF PanelInv
  <2>13. ASSUME NEW f \in fetches, fetch_success(f) PROVE PanelInv'
    <3>0. PICK at : at = find_mention_occurrences(f.of)
      OBVIOUS
    <3>1. /\ f.of # Unserved /\ fetches' = fetches \ {f}
          /\ list' = IF f.my # token THEN list ELSE [of |-> f.of, at |-> at]
          /\ UNCHANGED <<bytes_of, stale, due, token, link>>
      BY <2>13, <3>0 DEF fetch_success
    <3>2. PanelTypes' /\ FetchesInv' /\ LinksInv'
      BY <2>t, <2>3, <3>1 DEF PanelTypes, FetchesInv, LinksInv
    <3>3. ListInv'
      BY <2>t, <2>3, <3>0, <3>1 DEF FetchesInv, ListInv
    <3> QED BY <3>2, <3>3 DEF PanelInv
  <2>14. ASSUME NEW f \in fetches, fetch_error(f) PROVE PanelInv'
    <3>1. /\ fetches' = fetches \ {f}
          /\ list' = IF f.my # token THEN list ELSE NoList
          /\ UNCHANGED <<bytes_of, stale, due, token, link>>
      BY <2>14 DEF fetch_error
    <3> QED
      BY <2>t, <2>3, <3>1 DEF PanelInv, PanelTypes, FetchesInv, LinksInv, ListInv
  <2>15. ASSUME NEW k \in DOMAIN bytes_of, create_block_ref(k) PROVE PanelInv'
    <3>1. /\ due' = (due \/ bytes_of' # bytes_of)
          /\ UNCHANGED <<stale, token, fetches, list, link>>
      BY <2>15 DEF create_block_ref
    <3>2. CASE bytes_of' = bytes_of
      BY <2>2, <2>3, <2>t, <3>1, <3>2 DEF PanelTypes, LinksInv
    <3>3. CASE bytes_of' # bytes_of
      BY <2>1, <3>1, <3>3
    <3> QED BY <3>2, <3>3
  <2>16. CASE UNCHANGED mentionVars
    BY <2>2, <2>3, <2>16, <2>t DEF mentionVars, PanelTypes, LinksInv
  <2> QED
    BY <2>4, <2>5, <2>6, <2>7, <2>8, <2>9, <2>10, <2>11, <2>12, <2>13, <2>14, <2>15, <2>16
    DEF MentionNext
<1> QED BY <1>1, <1>2, PTL DEF MentionSpec

(* PanelSettles: no late answer of an earlier fetch, and no link that was made
   from it, leaves the panel behind the text a reader is shown. *)
THEOREM PanelComesToRest == MentionSpec => []PanelSettles
<1>1. PanelInv => PanelSettles
  BY DEF PanelInv, ListInv, PanelSettles
<1> QED BY <1>1, PanelKept, PTL

-------------------------------------------------------------------------------
(* The cache *)

LoadState ==
  {Resting}
  \cup [at : {"stamped", "reading"}, key : Key, stamp : Version]
  \cup [at : {"read", "store", "forget", "done"}, key : Key, stamp : Version, text : Version]

(* The counter is left out: nothing here depends on it. *)
Typed ==
  /\ file \in [File -> Version]
  /\ entries \in [Key -> Entry \cup {None}]
  /\ clock \in Nat
  /\ load \in [Load -> LoadState]

(* The stamp of a load that has begun is one the file had before now; a text
   it has read or been given lies between the two, and is the stamp's own once
   the second look has found the stamp unchanged. *)
Ahead(r) ==
  /\ r.at \in {"stamped", "reading"} => r.stamp <= file[FileOf[r.key]]
  /\ r.at \in {"read", "forget", "done"} =>
       r.stamp <= r.text /\ r.text <= file[FileOf[r.key]]
  /\ r.at = "store" => r.text = r.stamp /\ r.stamp <= file[FileOf[r.key]]

CacheInv == Typed /\ EntriesAreTrue /\ \A l \in Load : Ahead(load[l])

(* One load that goes on, with the files as they are. *)
LEMMA LoadGoesOn ==
  ASSUME CacheInv, NEW l \in Load, NEW r \in LoadState, Ahead(r),
         load' = [load EXCEPT ![l] = r], file' = file,
         entries' \in [Key -> Entry \cup {None}], clock' \in Nat, EntriesAreTrue'
  PROVE  CacheInv'
<1>1. Typed'
  BY DEF CacheInv, Typed
<1>2. \A m \in Load : Ahead(load'[m])
  <2>1. \A m \in Load : load'[m] = IF m = l THEN r ELSE load[m]
    BY DEF CacheInv, Typed
  <2> QED BY <2>1 DEF CacheInv
<1>3. \A m \in Load : Ahead(load[m])'
  BY <1>2 DEF Ahead
<1> QED BY <1>1, <1>3 DEF CacheInv

(* What is known of a load by its stage. *)
LEMMA LoadShape ==
  ASSUME CacheInv, NEW l \in Load
  PROVE  /\ load[l].at \in {"stamped", "reading"} =>
              /\ load[l] \in [at : {"stamped", "reading"}, key : Key, stamp : Version]
              /\ FileOf[load[l].key] \in File
              /\ load[l].stamp <= file[FileOf[load[l].key]]
         /\ load[l].at \in {"read", "store", "forget", "done"} =>
              /\ load[l] \in [at : {"read", "store", "forget", "done"}, key : Key,
                               stamp : Version, text : Version]
              /\ FileOf[load[l].key] \in File
              /\ load[l].stamp <= load[l].text
              /\ load[l].text <= file[FileOf[load[l].key]]
         /\ load[l].at = "store" => load[l].text = load[l].stamp
<1>1. load[l] \in LoadState /\ Ahead(load[l])
  BY DEF CacheInv, Typed
<1> QED BY <1>1 DEF LoadState, Ahead, Resting, File, Version

(* An entry that is kept is the new one or was there before. *)
LEMMA KeepsSome ==
  ASSUME NEW l \in Load, NEW before, CacheInv, Keeps(l, before),
         load[l].at = "store"
  PROVE  /\ entries' \in [Key -> Entry \cup {None}]
         /\ clock' \in Nat
         /\ EntriesAreTrue'
<1> DEFINE k == load[l].key
           new == [stamp |-> load[l].stamp, text |-> load[l].text, used |-> clock + 1]
           with == [entries EXCEPT ![k] = new]
           sum == before + Bytes[new.text]
           out == Oldest(with, {r \in Key : with[r] # None}, sum)
<1>1. k \in Key /\ new \in Entry /\ new.text = new.stamp /\ new # None
  BY LoadShape, TableAssumption DEF CacheInv, Typed, Entry
<1>2. /\ with \in [Key -> Entry \cup {None}]
      /\ \A r \in Key : with[r] # None => with[r].text = with[r].stamp
  <2> HIDE DEF k, new
  <2> QED BY <1>1 DEF CacheInv, Typed, EntriesAreTrue
<1>3. CASE Bytes[new.text] > Ceiling
  <2>1. entries' = [entries EXCEPT ![k] = None] /\ clock' = clock
    BY <1>3 DEF Keeps
  <2> HIDE DEF k, new
  <2> QED BY <1>1, <2>1 DEF CacheInv, Typed, EntriesAreTrue
<1>4. CASE ~(Bytes[new.text] > Ceiling)
  <2>1. /\ entries' = [r \in Key |-> IF r \in out THEN None ELSE with[r]]
        /\ clock' = clock + 1
    BY <1>4 DEF Keeps
  <2> HIDE DEF k, new, with, out
  <2> QED BY <1>2, <2>1 DEF CacheInv, Typed, EntriesAreTrue
<1> QED BY <1>3, <1>4

(* What a load answers is never older than the load, and every entry is the
   table of the text its stamp stands for. *)
THEOREM CacheKept == TableSpec => []CacheInv
<1> USE TableAssumption
<1>1. TableInit => CacheInv
  BY DEF TableInit, CacheInv, Typed, EntriesAreTrue, Ahead, LoadState, Resting,
         Version, File
<1>2. CacheInv /\ [TableNext]_tableVars => CacheInv'
  <2> SUFFICES ASSUME CacheInv, [TableNext]_tableVars PROVE CacheInv'
    OBVIOUS
  <2>t. /\ \A f \in File : file[f] \in Version /\ file[f] \in Int
        /\ entries \in [Key -> Entry \cup {None}] /\ clock \in Nat
        /\ \A k \in Key : FileOf[k] \in File
        /\ Version \subseteq Int /\ EntriesAreTrue
    BY DEF CacheInv, Typed, File, Version
  <2>1. ASSUME NEW f \in File, FileChanges(f) PROVE CacheInv'
    <3>1. file' \in [File -> Version] /\ \A g \in File : file[g] <= file'[g]
      BY <2>1, <2>t DEF FileChanges, CacheInv, Typed, Version
    <3>2. ASSUME NEW l \in Load PROVE Ahead(load[l])'
      <4>1. load' = load /\ load[l] \in LoadState /\ Ahead(load[l])
        BY <2>1 DEF FileChanges, CacheInv, Typed
      <4>2. \A g \in File : file[g] \in Int /\ file'[g] \in Int
        BY <3>1, <2>t
      <4>3. CASE load[l].at = "rest"
        BY <4>1, <4>3 DEF Ahead
      <4>4. CASE load[l].at # "rest"
        <5> DEFINE now == file[FileOf[load[l].key]]
                   then == file'[FileOf[load[l].key]]
        <5>1. load[l].at \in {"stamped", "reading", "read", "store", "forget", "done"}
          BY <4>1, <4>4 DEF LoadState, Resting
        <5>2. load[l].stamp \in Int /\ now \in Int /\ then \in Int /\ now <= then
          BY <3>1, <4>2, <5>1, <2>t, LoadShape DEF Version
        <5>3. load[l].at \in {"read", "store", "forget", "done"}
                => load[l].text \in Int
          BY <2>t, LoadShape DEF Version
        <5> QED BY <4>1, <5>2, <5>3, LoadShape DEF Ahead
      <4> QED
        BY <4>3, <4>4
    <3> QED
      BY <2>1, <3>1, <3>2 DEF FileChanges, CacheInv, Typed, EntriesAreTrue
  <2>2. ASSUME NEW l \in Load, NEW k \in Key, Starts(l, k) PROVE CacheInv'
    <3> DEFINE r == [at |-> "stamped", key |-> k, stamp |-> file[FileOf[k]]]
    <3>0. r \in LoadState
      BY <2>t DEF LoadState
    <3>1. Ahead(r)
      <4> file[FileOf[k]] <= file[FileOf[k]]
        BY <2>t
      <4> QED BY DEF Ahead
    <3>2. /\ load' = [load EXCEPT ![l] = r] /\ file' = file
          /\ entries' = entries /\ clock' = clock
      BY <2>2 DEF Starts
    <3> HIDE DEF r
    <3> QED BY <3>0, <3>1, <3>2, <2>t, LoadGoesOn DEF EntriesAreTrue
  <2>3. ASSUME NEW l \in Load, hit(l) PROVE CacheInv'
    <3> DEFINE k == load[l].key
               e == entries[k]
               given == [at |-> "done", key |-> k, stamp |-> load[l].stamp,
                         text |-> e.text]
               reads == [at |-> "reading", key |-> k, stamp |-> load[l].stamp]
    <3>0. /\ load[l] \in [at : {"stamped", "reading"}, key : Key, stamp : Version]
          /\ load[l].stamp <= file[FileOf[k]]
          /\ file' = file /\ clock' \in Nat /\ k \in Key
      BY <2>3, <2>t, LoadShape DEF hit
    <3>1. CASE e # None /\ e.stamp = load[l].stamp
      <4>0. e \in Entry /\ e.text = e.stamp /\ e.text \in Version
        BY <3>0, <3>1, <2>t DEF EntriesAreTrue, Entry
      <4>1. given \in LoadState
        BY <3>0, <4>0 DEF LoadState
      <4>5. Ahead(given)
        <5> e.text = load[l].stamp /\ e.text \in Int
          BY <3>1, <4>0, <2>t
        <5> QED BY <3>0 DEF Ahead
      <4>2. /\ load' = [load EXCEPT ![l] = given]
            /\ entries' = [entries EXCEPT ![k] = [e EXCEPT !.used = clock']]
        BY <2>3, <3>1, <2>t DEF hit
      <4>3. /\ [e EXCEPT !.used = clock'] \in Entry
            /\ [e EXCEPT !.used = clock'].text = [e EXCEPT !.used = clock'].stamp
        BY <3>0, <4>0 DEF Entry
      <4>4. entries' \in [Key -> Entry \cup {None}] /\ EntriesAreTrue'
        <5> HIDE DEF k, e
        <5> QED BY <3>0, <4>2, <4>3, <2>t DEF EntriesAreTrue
      <4> HIDE DEF given
      <4> QED BY <3>0, <4>1, <4>2, <4>4, <4>5, LoadGoesOn
    <3>2. CASE ~(e # None /\ e.stamp = load[l].stamp)
      <4>1. /\ load' = [load EXCEPT ![l].at = "reading"]
            /\ entries' = [m \in Key |-> IF m \in {k} THEN None ELSE entries[m]]
        BY <2>3, <3>2 DEF hit, drop_entry
      <4>5. [load[l] EXCEPT !.at = "reading"] = reads
        BY <3>0
      <4>2. load' = [load EXCEPT ![l] = reads]
        BY <4>1, <4>5, Zenon
      <4>3. reads \in LoadState /\ Ahead(reads)
        BY <3>0 DEF LoadState, Ahead
      <4>4. entries' \in [Key -> Entry \cup {None}] /\ EntriesAreTrue'
        BY <4>1, <2>t DEF EntriesAreTrue
      <4> HIDE DEF reads
      <4> QED BY <3>0, <4>2, <4>3, <4>4, LoadGoesOn
    <3> QED BY <3>1, <3>2
  <2>4. ASSUME NEW l \in Load, ReadFile(l) PROVE CacheInv'
    <3> DEFINE r == [at |-> "read", key |-> load[l].key, stamp |-> load[l].stamp,
                     text |-> file[FileOf[load[l].key]]]
    <3>1. r \in LoadState /\ Ahead(r) /\ Resting \in LoadState /\ Ahead(Resting)
      BY <2>4, <2>t, LoadShape DEF ReadFile, LoadState, Ahead, Resting
    <3>2. /\ load' = [load EXCEPT ![l] = r] \/ load' = [load EXCEPT ![l] = Resting]
          /\ file' = file /\ entries' = entries /\ clock' = clock
      BY <2>4 DEF ReadFile
    <3> HIDE DEF r
    <3> QED BY <3>1, <3>2, <2>t, LoadGoesOn DEF EntriesAreTrue
  <2>5. ASSUME NEW l \in Load, LooksAgain(l) PROVE CacheInv'
    <3> DEFINE at == IF file[FileOf[load[l].key]] = load[l].stamp
                     THEN "store" ELSE "forget"
               r == [at |-> at, key |-> load[l].key, stamp |-> load[l].stamp,
                     text |-> load[l].text]
    <3>0. /\ load[l] \in [at : {"read", "store", "forget", "done"}, key : Key,
                           stamp : Version, text : Version]
          /\ file[FileOf[load[l].key]] \in Int
      BY <2>5, <2>t, LoadShape DEF LooksAgain
    <3>1. r \in LoadState /\ Ahead(r)
      BY <2>5, <3>0, <2>t, LoadShape DEF LooksAgain, LoadState, Ahead
    <3>2. /\ load' = [load EXCEPT ![l] = r]
          /\ file' = file /\ entries' = entries /\ clock' = clock
      <4>1. [load[l] EXCEPT !.at = at] = r
        BY <3>0
      <4>2. load' = [load EXCEPT ![l].at = at]
        BY <2>5 DEF LooksAgain
      <4> QED BY <2>5, <4>1, <4>2, Zenon DEF LooksAgain
    <3> HIDE DEF r
    <3> QED BY <3>1, <3>2, <2>t, LoadGoesOn DEF EntriesAreTrue
  <2>6. ASSUME NEW l \in Load, forget(l) \/ store(l) PROVE CacheInv'
    <3> DEFINE r == [at |-> "done", key |-> load[l].key, stamp |-> load[l].stamp,
                     text |-> load[l].text]
    <3>0. load[l] \in [at : {"read", "store", "forget", "done"}, key : Key,
                       stamp : Version, text : Version]
      BY <2>6, LoadShape DEF forget, store
    <3>1. r \in LoadState /\ Ahead(r)
      BY <2>6, <3>0, LoadShape DEF forget, store, LoadState, Ahead
    <3>2. load' = [load EXCEPT ![l] = r] /\ file' = file
      <4>1. [load[l] EXCEPT !.at = "done"] = r
        BY <3>0
      <4>2. load' = [load EXCEPT ![l].at = "done"] /\ file' = file
        BY <2>6 DEF forget, store
      <4> QED BY <4>1, <4>2, Zenon
    <3>3. /\ entries' \in [Key -> Entry \cup {None}] /\ clock' \in Nat
          /\ EntriesAreTrue'
      <4>1. CASE forget(l)
        BY <4>1, <2>t DEF forget, drop_entry, EntriesAreTrue
      <4>2. CASE store(l)
        BY <4>2, KeepsSome DEF store
      <4> QED BY <2>6, <4>1, <4>2
    <3> HIDE DEF r
    <3> QED BY <3>1, <3>2, <3>3, LoadGoesOn
  <2>7. CASE UNCHANGED tableVars
    BY <2>7 DEF tableVars, CacheInv, Typed, EntriesAreTrue, Ahead
  <2> QED BY <2>1, <2>2, <2>3, <2>4, <2>5, <2>6, <2>7 DEF TableNext
<1> QED BY <1>1, <1>2, PTL DEF TableSpec

(* No load answers a text from before it began. *)
THEOREM AnswersAreFresh == TableSpec => []Fresh
<1>1. CacheInv => Fresh
  BY LoadShape DEF Fresh
<1> QED BY <1>1, CacheKept, PTL

(* No entry has the table of another text than its stamp's. *)
THEOREM NoFalseEntry == TableSpec => []EntriesAreTrue
<1>1. CacheInv => EntriesAreTrue
  BY DEF CacheInv
<1> QED BY <1>1, CacheKept, PTL

-------------------------------------------------------------------------------
(* The bytes of the cache *)

(* The prover has no induction for a sum; a smallest counterexample takes its
   place, as it does in PendingRewritesProofs, whose first lemmas serve here. *)
AnyOf(S) == CHOOSE k \in S : TRUE
Sized(e, S) == IsFiniteSet(S) /\ \A k \in S : Bytes[e[k].text] \in Nat
EntryBytes(e, S) == MapThenSumSet(LAMBDA k : Bytes[e[k].text], S)
SameTexts(d, e, S) == \A k \in S : d[k].text = e[k].text

(* The function that sum is defined by. *)
Adds(f, e, R) ==
  f = [S \in SUBSET R |->
         IF S = {} THEN 0 ELSE Bytes[e[AnyOf(S)].text] + f[S \ {AnyOf(S)}]]

LEMMA BytesIs ==
  ASSUME NEW e, NEW R
  PROVE  EntryBytes(e, R) = (CHOOSE f : Adds(f, e, R))[R]
BY Zenon DEF EntryBytes, MapThenSumSet, MapThenFoldSet, Adds, AnyOf

LEMMA SizedParts ==
  ASSUME NEW e, NEW R, Sized(e, R), NEW S \in SUBSET R
  PROVE  /\ Sized(e, S) /\ IsFiniteSet(S) /\ Cardinality(S) \in Nat
         /\ Cardinality(S) <= Cardinality(R)
         /\ S # {} => AnyOf(S) \in S
<1>1. IsFiniteSet(S) /\ Cardinality(S) \in Nat /\ Cardinality(S) <= Cardinality(R)
  BY FS_Subset, FS_CardinalityType DEF Sized
<1>2. S # {} => AnyOf(S) \in S
  BY DEF AnyOf
<1> QED BY <1>1, <1>2 DEF Sized

(* A sum over a set whose elements are taken in the order of c. *)
Sums(f, w, c, R) ==
  f = [S \in SUBSET R |-> IF S = {} THEN 0 ELSE w[c[S]] + f[S \ {c[S]}]]

LEMMA SumExists ==
  ASSUME NEW R, IsFiniteSet(R), NEW w, NEW c,
         \A S \in SUBSET R : S # {} => c[S] \in S
  PROVE  \E f : Sums(f, w, c, R)
<1> DEFINE Small(n) == {S \in SUBSET R : Cardinality(S) <= n}
           UpTo(f, n) == f = [S \in Small(n) |->
                                IF S = {} THEN 0 ELSE w[c[S]] + f[S \ {c[S]}]]
           Bad == {n \in Nat : ~ \E f : UpTo(f, n)}
<1>1. \A S \in SUBSET R : /\ IsFiniteSet(S) /\ Cardinality(S) \in Nat
                          /\ Cardinality(S) <= Cardinality(R)
  BY FS_Subset, FS_CardinalityType
<1>r. Cardinality(R) \in Nat
  BY <1>1
<1>2. Bad = {}
  <2> SUFFICES ASSUME Bad # {} PROVE FALSE
    OBVIOUS
  <2>1. PICK n \in Bad : \A k \in Bad : n <= k
    BY LeastNumber
  <2>2. n \in Nat /\ ~ \E f : UpTo(f, n)
    BY <2>1
  <2>3. CASE n = 0
    <3>1. \A S \in Small(0) : S = {}
      BY <1>1, FS_EmptySet
    <3>2. PICK f : f = [S \in Small(0) |-> 0]
      OBVIOUS
    <3>3. UpTo(f, 0)
      BY <3>1, <3>2
    <3> QED BY <2>2, <2>3, <3>3
  <2>4. CASE n # 0
    <3>1. n - 1 \in Nat /\ n - 1 \notin Bad
      <4> HIDE DEF Bad
      <4> QED BY <2>1, <2>2, <2>4
    <3>2. PICK f : UpTo(f, n - 1)
      BY <3>1
    <3>3. PICK g : g = [S \in Small(n) |->
                          IF S = {} THEN 0 ELSE w[c[S]] + f[S \ {c[S]}]]
      OBVIOUS
    <3>4. \A S \in Small(n - 1) : S \in Small(n) /\ g[S] = f[S]
      <4>1. \A S \in Small(n - 1) : S \in Small(n)
        BY <1>1, <2>2
      <4>2. \A S \in Small(n - 1) :
              f[S] = IF S = {} THEN 0 ELSE w[c[S]] + f[S \ {c[S]}]
        BY <3>2
      <4> QED BY <3>3, <4>1, <4>2
    <3>5. ASSUME NEW S \in Small(n), S # {}
          PROVE  S \ {c[S]} \in Small(n - 1)
      <4>1. S \in SUBSET R /\ Cardinality(S) <= n /\ c[S] \in S
        BY <3>5
      <4>2. Cardinality(S \ {c[S]}) = Cardinality(S) - 1
        BY <1>1, <4>1, FS_RemoveElement
      <4> QED BY <1>1, <2>2, <4>1, <4>2
    <3>6. UpTo(g, n)
      <4> HIDE DEF Small
      <4>1. \A S \in Small(n) :
              g[S] = IF S = {} THEN 0 ELSE w[c[S]] + g[S \ {c[S]}]
        BY <3>3, <3>4, <3>5
      <4>2. g = [S \in Small(n) |-> g[S]]
        BY <3>3
      <4> QED BY <4>1, <4>2
    <3> QED BY <2>2, <3>6
  <2> QED BY <2>3, <2>4
<1>3. PICK f : UpTo(f, Cardinality(R))
  BY <1>r, <1>2
<1>4. Small(Cardinality(R)) = SUBSET R
  BY <1>1
<1>5. Sums(f, w, c, R)
  <2> HIDE DEF Small
  <2> QED BY <1>3, <1>4 DEF Sums
<1> QED BY <1>5

(* The numbers of bytes of a set of entries are such a sum. *)
LEMMA AddsExists ==
  ASSUME NEW e, NEW R, Sized(e, R)
  PROVE  \E f : Adds(f, e, R)
<1>1. PICK w : w = [k \in R |-> Bytes[e[k].text]]
  OBVIOUS
<1>2. PICK c : c = [S \in SUBSET R |-> AnyOf(S)]
  OBVIOUS
<1>3. \A S \in SUBSET R : S # {} => c[S] \in S
  BY <1>2, SizedParts
<1>4. PICK f : Sums(f, w, c, R)
  BY <1>3, SumExists DEF Sized
<1>5. \A S \in SUBSET R : S # {} => w[c[S]] = Bytes[e[AnyOf(S)].text] /\ c[S] = AnyOf(S)
  BY <1>1, <1>2, <1>3
<1>6. Adds(f, e, R)
  BY <1>4, <1>5 DEF Adds, Sums
<1> QED BY <1>6

(* A set is worth the same alone and on the way to a larger one, whatever the
   other fields of its entries. *)
LEMMA AddsAgree ==
  ASSUME NEW d, NEW e, NEW R, Sized(e, R), NEW S \in SUBSET R, NEW f, NEW g,
         Adds(f, e, R), Adds(g, d, S), SameTexts(d, e, S)
  PROVE  f[S] = g[S]
<1> DEFINE Bad == {U \in SUBSET S : f[U] # g[U]}
<1>1. SUFFICES ASSUME Bad # {} PROVE FALSE
  OBVIOUS
<1>2. \A U \in Bad : IsFiniteSet(U) /\ (U # {} => AnyOf(U) \in U)
  BY SizedParts
<1>3. PICK U \in Bad : \A T \in Bad : Cardinality(U) <= Cardinality(T)
  BY <1>1, <1>2, SmallestSet
<1>4. U \in SUBSET R /\ U \in SUBSET S /\ f[U] # g[U]
  BY <1>3
<1>5. /\ f[U] = IF U = {} THEN 0 ELSE Bytes[e[AnyOf(U)].text] + f[U \ {AnyOf(U)}]
      /\ g[U] = IF U = {} THEN 0 ELSE Bytes[d[AnyOf(U)].text] + g[U \ {AnyOf(U)}]
  BY <1>4 DEF Adds
<1>6. U # {} /\ AnyOf(U) \in U
  BY <1>2, <1>3, <1>4, <1>5
<1>7. U \ {AnyOf(U)} \notin Bad
  BY <1>2, <1>3, <1>6, OneLess
<1>8. f[U \ {AnyOf(U)}] = g[U \ {AnyOf(U)}]
  BY <1>4, <1>7
<1>9. d[AnyOf(U)].text = e[AnyOf(U)].text
  BY <1>4, <1>6 DEF SameTexts
<1> QED BY <1>4, <1>5, <1>6, <1>8, <1>9

LEMMA BytesSame ==
  ASSUME NEW d, NEW e, NEW S, Sized(e, S), SameTexts(d, e, S)
  PROVE  EntryBytes(d, S) = EntryBytes(e, S)
<1>1. Sized(d, S)
  BY DEF Sized, SameTexts
<1>2. PICK f : f = (CHOOSE h : Adds(h, e, S))
  OBVIOUS
<1>3. PICK g : g = (CHOOSE h : Adds(h, d, S))
  OBVIOUS
<1>4. Adds(f, e, S) /\ Adds(g, d, S)
  BY <1>1, <1>2, <1>3, AddsExists
<1>5. S \in SUBSET S
  OBVIOUS
<1>6. f[S] = g[S]
  BY <1>4, <1>5, AddsAgree
<1> QED BY <1>2, <1>3, <1>6, BytesIs

LEMMA BytesAny ==
  ASSUME NEW e, NEW R, Sized(e, R)
  PROVE  /\ R = {} => EntryBytes(e, R) = 0
         /\ R # {} => EntryBytes(e, R)
                        = Bytes[e[AnyOf(R)].text] + EntryBytes(e, R \ {AnyOf(R)})
<1>1. PICK S : S = R \ {AnyOf(R)}
  OBVIOUS
<1>2. S \in SUBSET R /\ Sized(e, S)
  BY <1>1, SizedParts
<1>3. PICK f : f = (CHOOSE h : Adds(h, e, R))
  OBVIOUS
<1>4. PICK g : g = (CHOOSE h : Adds(h, e, S))
  OBVIOUS
<1>5. Adds(f, e, R) /\ Adds(g, e, S)
  BY <1>2, <1>3, <1>4, AddsExists
<1>6. f[S] = g[S]
  <2>1. SameTexts(e, e, S)
    BY DEF SameTexts
  <2> QED BY <1>2, <1>5, <2>1, AddsAgree
<1>7. f[R] = IF R = {} THEN 0 ELSE Bytes[e[AnyOf(R)].text] + f[S]
  BY <1>1, <1>5 DEF Adds
<1>8. EntryBytes(e, R) = f[R] /\ EntryBytes(e, S) = g[S]
  BY <1>3, <1>4, BytesIs
<1> QED BY <1>1, <1>6, <1>7, <1>8

(* A sum of sizes is a size, and any entry can be taken out of it. *)
LEMMA BytesNat ==
  ASSUME NEW e, NEW R, Sized(e, R)
  PROVE  EntryBytes(e, R) \in Nat
<1> DEFINE Bad == {S \in SUBSET R : EntryBytes(e, S) \notin Nat}
<1>1. SUFFICES ASSUME Bad # {} PROVE FALSE
  OBVIOUS
<1>2. \A S \in Bad : IsFiniteSet(S) /\ Sized(e, S) /\ (S # {} => AnyOf(S) \in S)
  BY SizedParts
<1>3. PICK S \in Bad : \A T \in Bad : Cardinality(S) <= Cardinality(T)
  BY <1>1, <1>2, SmallestSet
<1>4. S \in SUBSET R /\ EntryBytes(e, S) \notin Nat /\ Sized(e, S)
  BY <1>2, <1>3
<1>5. S # {} /\ AnyOf(S) \in S
  <2>1. S = {} => EntryBytes(e, S) = 0
    BY <1>4, BytesAny
  <2>2. S # {}
    BY <1>4, <2>1
  <2> QED BY <1>2, <1>3, <2>2
<1>6. EntryBytes(e, S \ {AnyOf(S)}) \in Nat
  BY <1>2, <1>3, <1>4, <1>5, OneLess
<1>7. Bytes[e[AnyOf(S)].text] \in Nat
  BY <1>4, <1>5 DEF Sized
<1> QED BY <1>4, <1>5, <1>6, <1>7, BytesAny

LEMMA BytesWithout ==
  ASSUME NEW e, NEW R, Sized(e, R), NEW x \in R
  PROVE  EntryBytes(e, R) = Bytes[e[x].text] + EntryBytes(e, R \ {x})
<1> DEFINE Fails(S, k) == EntryBytes(e, S) # Bytes[e[k].text] + EntryBytes(e, S \ {k})
           Bad == {S \in SUBSET R : \E k \in S : Fails(S, k)}
<1>1. SUFFICES ASSUME Bad # {} PROVE FALSE
  OBVIOUS
<1>2. \A S \in SUBSET R : IsFiniteSet(S) /\ Sized(e, S) /\ (S # {} => AnyOf(S) \in S)
  BY SizedParts
<1>3. PICK S \in Bad : \A T \in Bad : Cardinality(S) <= Cardinality(T)
  BY <1>1, <1>2, SmallestSet
<1>4. PICK k \in S : Fails(S, k)
  BY <1>3
<1>5. PICK c : c = AnyOf(S)
  OBVIOUS
<1>6. c \in S /\ S \in SUBSET R
  BY <1>2, <1>3, <1>4, <1>5
<1>7. EntryBytes(e, S) = Bytes[e[c].text] + EntryBytes(e, S \ {c})
  BY <1>2, <1>4, <1>5, <1>6, BytesAny
<1>8. c # k
  BY <1>4, <1>7
<1>9. /\ S \ {c} \notin Bad /\ S \ {k} \notin Bad
  BY <1>2, <1>3, <1>4, <1>6, OneLess
<1>10. EntryBytes(e, S \ {c}) = Bytes[e[k].text] + EntryBytes(e, (S \ {c}) \ {k})
  BY <1>4, <1>6, <1>8, <1>9
<1>11. EntryBytes(e, S \ {k}) = Bytes[e[c].text] + EntryBytes(e, (S \ {k}) \ {c})
  BY <1>4, <1>6, <1>8, <1>9
<1>12. (S \ {c}) \ {k} = (S \ {k}) \ {c}
  OBVIOUS
<1>13. /\ Bytes[e[c].text] \in Nat /\ Bytes[e[k].text] \in Nat
       /\ EntryBytes(e, (S \ {k}) \ {c}) \in Nat
  <2>1. Sized(e, (S \ {k}) \ {c})
    BY <1>2, <1>6
  <2> QED BY <1>4, <1>6, <2>1, BytesNat DEF Sized
<1> HIDE DEF Bad
<1> QED BY <1>4, <1>7, <1>10, <1>11, <1>12, <1>13

LEMMA BytesOfParts ==
  ASSUME NEW e, NEW R, Sized(e, R), NEW P \in SUBSET R
  PROVE  EntryBytes(e, R) = EntryBytes(e, P) + EntryBytes(e, R \ P)
<1> DEFINE Bad == {S \in SUBSET P : EntryBytes(e, R) # EntryBytes(e, S) + EntryBytes(e, R \ S)}
<1>1. SUFFICES ASSUME Bad # {} PROVE FALSE
  OBVIOUS
<1>2. \A S \in SUBSET R : /\ IsFiniteSet(S) /\ Sized(e, S) /\ EntryBytes(e, S) \in Nat
  BY SizedParts, BytesNat
<1>3. PICK S \in Bad : \A T \in Bad : Cardinality(S) <= Cardinality(T)
  BY <1>1, <1>2, SmallestSet
<1>4. /\ S \in SUBSET P /\ S \in SUBSET R
      /\ EntryBytes(e, R) # EntryBytes(e, S) + EntryBytes(e, R \ S)
  BY <1>3
<1>5. CASE S = {}
  <2>1. EntryBytes(e, S) = 0
    BY <1>2, <1>4, <1>5, BytesAny
  <2>2. R \ S = R /\ EntryBytes(e, R) \in Nat
    BY <1>2, <1>5
  <2> HIDE DEF Bad
  <2> QED BY <1>4, <2>1, <2>2
<1>6. CASE S # {}
  <2>1. PICK x \in S : TRUE
    BY <1>6
  <2>2. PICK T : T = S \ {x}
    OBVIOUS
  <2>3. T \notin Bad
    BY <1>2, <1>3, <1>4, <2>1, <2>2, OneLess
  <2>4. EntryBytes(e, R) = EntryBytes(e, T) + EntryBytes(e, R \ T)
    BY <1>4, <2>2, <2>3
  <2>5. EntryBytes(e, S) = Bytes[e[x].text] + EntryBytes(e, T)
    BY <1>2, <1>4, <2>1, <2>2, BytesWithout
  <2>6. /\ R \ T \in SUBSET R /\ x \in R \ T /\ (R \ T) \ {x} = R \ S
        /\ T \in SUBSET R /\ R \ S \in SUBSET R
    BY <1>4, <2>1, <2>2
  <2>7. EntryBytes(e, R \ T) = Bytes[e[x].text] + EntryBytes(e, R \ S)
    BY <1>2, <2>6, BytesWithout
  <2>8. /\ Bytes[e[x].text] \in Nat /\ EntryBytes(e, T) \in Nat /\ EntryBytes(e, R \ S) \in Nat
    BY <1>2, <1>4, <2>1, <2>6 DEF Sized
  <2> HIDE DEF Bad
  <2> QED BY <1>4, <2>4, <2>5, <2>7, <2>8
<1> QED BY <1>5, <1>6

(* The counter is the bytes of the entries. *)
Held(e) == {k \in Key : e[k] # None}

CountInv ==
  /\ CacheInv
  /\ bytes = EntryBytes(entries, Held(entries)) /\ bytes <= Ceiling

LEMMA HeldSized ==
  ASSUME IsFiniteSet(Key), NEW e \in [Key -> Entry \cup {None}], NEW S \in SUBSET Held(e)
  PROVE  Sized(e, S) /\ EntryBytes(e, S) \in Nat
<1>1. Sized(e, S)
  BY TableAssumption, FS_Subset DEF Sized, Held, Entry
<1> QED BY <1>1, BytesNat

LEMMA BytesAreHeld ==
  ASSUME NEW S \in SUBSET Key
  PROVE  /\ BytesOf(S) = EntryBytes(entries, Held(entries) \cap S)
         /\ BytesOf(Key) = EntryBytes(entries, Held(entries))
<1>1. Taken(S) = Held(entries) \cap S /\ Taken(Key) = Held(entries)
  BY DEF Taken, Held
<1> QED BY <1>1 DEF BytesOf, EntryBytes

(* What is dropped leaves the counter. *)
LEMMA DropCounts ==
  ASSUME IsFiniteSet(Key), NEW e \in [Key -> Entry \cup {None}], NEW S \in SUBSET Key,
         NEW d, \A k \in Key : d[k] = IF k \in S THEN None ELSE e[k]
  PROVE  /\ Held(d) = Held(e) \ S
         /\ EntryBytes(d, Held(d)) = EntryBytes(e, Held(e)) - EntryBytes(e, Held(e) \cap S)
         /\ EntryBytes(d, Held(d)) \in Nat
         /\ EntryBytes(d, Held(d)) <= EntryBytes(e, Held(e))
<1>1. Held(d) = Held(e) \ S
  BY DEF Held
<1>2. /\ Held(d) \in SUBSET Held(e) /\ Held(e) \cap S \in SUBSET Held(e)
      /\ Held(e) \in SUBSET Held(e) /\ Held(e) \ (Held(e) \cap S) = Held(d)
  BY <1>1
<1>3. /\ Sized(e, Held(e)) /\ Sized(e, Held(d))
      /\ EntryBytes(e, Held(e)) \in Nat /\ EntryBytes(e, Held(d)) \in Nat
      /\ EntryBytes(e, Held(e) \cap S) \in Nat
  BY <1>2, HeldSized
<1>4. EntryBytes(e, Held(e)) = EntryBytes(e, Held(e) \cap S) + EntryBytes(e, Held(d))
  <2>1. PICK P \in SUBSET Held(e) : P = Held(e) \cap S
    OBVIOUS
  <2>2. EntryBytes(e, Held(e)) = EntryBytes(e, P) + EntryBytes(e, Held(e) \ P)
    BY <1>3, BytesOfParts
  <2>3. Held(e) \ P = Held(d)
    BY <1>2, <2>1
  <2> QED BY <2>1, <2>2, <2>3, Zenon
<1>5. EntryBytes(d, Held(d)) = EntryBytes(e, Held(d))
  <2>1. SameTexts(d, e, Held(d))
    BY DEF Held, SameTexts
  <2> QED BY <1>3, <2>1, BytesSame
<1> QED BY <1>1, <1>3, <1>4, <1>5

(* A step that drops entries of S keeps the counter. *)
LEMMA DropKeeps ==
  ASSUME IsFiniteSet(Key), CountInv, NEW S \in SUBSET Key, drop_entry(S)
  PROVE  bytes' = EntryBytes(entries', Held(entries')) /\ bytes' <= Ceiling
<1>1. /\ entries \in [Key -> Entry \cup {None}] /\ Ceiling \in Nat
      /\ entries' = [k \in Key |-> IF k \in S THEN None ELSE entries[k]]
      /\ bytes' = bytes - EntryBytes(entries, Held(entries) \cap S)
      /\ bytes = EntryBytes(entries, Held(entries)) /\ bytes <= Ceiling
  BY TableAssumption, BytesAreHeld DEF CountInv, CacheInv, Typed, drop_entry
<1>2. EntryBytes(entries, Held(entries)) \in Nat
  BY <1>1, HeldSized
<1>3. /\ EntryBytes(entries', Held(entries'))
           = EntryBytes(entries, Held(entries)) - EntryBytes(entries, Held(entries) \cap S)
      /\ EntryBytes(entries', Held(entries')) \in Nat
      /\ EntryBytes(entries', Held(entries')) <= EntryBytes(entries, Held(entries))
  BY <1>1, DropCounts
<1> QED BY <1>1, <1>2, <1>3

(* What is evicted is held, and what stays fits. *)
LEMMA OldestFits ==
  ASSUME IsFiniteSet(Key), clock \in Nat,
         NEW e \in [Key -> Entry \cup {None}], NEW sum, sum = EntryBytes(e, Held(e))
  PROVE  /\ Oldest(e, Held(e), sum) \in SUBSET Held(e)
         /\ sum - EntryBytes(e, Oldest(e, Held(e), sum)) <= Ceiling
<1> DEFINE older(t) == {k \in Held(e) : e[k].used < t}
           enough == {t \in 0..(clock + 2) : sum - EntryBytes(e, older(t)) <= Ceiling}
<1>1. Oldest(e, Held(e), sum) = IF enough = {} THEN Held(e) ELSE older(Min(enough))
  BY Zenon DEF Oldest, EntryBytes
<1>2. CASE enough = {}
  <2>1. EntryBytes(e, Held(e)) \in Nat
    BY HeldSized
  <2> HIDE DEF enough
  <2> QED BY <1>1, <1>2, <2>1, TableAssumption
<1>3. CASE enough # {}
  <2>1. enough \in SUBSET Nat
    OBVIOUS
  <2> HIDE DEF enough
  <2>2. \E n \in enough : \A k \in enough : n <= k
    BY <1>3, <2>1, LeastNumber
  <2>3. Min(enough) \in enough
    BY <2>2 DEF Min
  <2>4. sum - EntryBytes(e, older(Min(enough))) <= Ceiling
    BY <2>3 DEF enough
  <2> QED BY <1>1, <1>3, <2>4
<1> QED BY <1>2, <1>3

(* A table that is stored takes the place of the one that was there. *)
LEMMA StoreCounts ==
  ASSUME IsFiniteSet(Key), NEW e \in [Key -> Entry \cup {None}], NEW k \in Key,
         NEW new \in Entry, NEW with \in [Key -> Entry \cup {None}],
         with[k] = new, \A m \in Key \ {k} : with[m] = e[m]
  PROVE  EntryBytes(with, Held(with))
           = EntryBytes(e, Held(e)) - EntryBytes(e, Held(e) \cap {k}) + Bytes[new.text]
<1>1. PICK d \in [Key -> Entry \cup {None}] :
        \A m \in Key : d[m] = IF m \in {k} THEN None ELSE e[m]
  <2> WITNESS [m \in Key |-> IF m \in {k} THEN None ELSE e[m]]
                \in [Key -> Entry \cup {None}]
  <2> QED OBVIOUS
<1>2. /\ new # None
      /\ \A m \in Key : m # k => with[m] = e[m] /\ d[m] = e[m]
  BY <1>1, TableAssumption
<1>3. EntryBytes(d, Held(d)) = EntryBytes(e, Held(e)) - EntryBytes(e, Held(e) \cap {k})
  BY <1>1, DropCounts
<1>4. k \in Held(with) /\ Held(with) \ {k} = Held(d)
  BY <1>1, <1>2 DEF Held
<1>5. Sized(with, Held(with)) /\ Sized(with, Held(d)) /\ Sized(d, Held(d))
  <2>1. /\ Held(with) \in SUBSET Held(with) /\ Held(d) \in SUBSET Held(with)
        /\ Held(d) \in SUBSET Held(d)
    BY <1>4
  <2> QED BY <1>2, <2>1, HeldSized
<1>6. EntryBytes(with, Held(with)) = Bytes[new.text] + EntryBytes(with, Held(d))
  BY <1>2, <1>4, <1>5, BytesWithout
<1>7. EntryBytes(with, Held(d)) = EntryBytes(d, Held(d))
  <2>1. SameTexts(with, d, Held(d))
    BY <1>2, <1>4 DEF Held, SameTexts
  <2> QED BY <1>5, <2>1, BytesSame
<1>8. EntryBytes(d, Held(d)) \in Nat /\ Bytes[new.text] \in Nat
  <2>1. Held(d) \in SUBSET Held(d)
    OBVIOUS
  <2> QED BY <1>2, <2>1, HeldSized, TableAssumption DEF Entry
<1> QED BY <1>2, <1>3, <1>6, <1>7, <1>8

LEMMA KeepsCounts ==
  ASSUME IsFiniteSet(Key), CountInv, NEW l \in Load, load[l].at = "store",
         Keeps(l, bytes - BytesOf({load[l].key}))
  PROVE  bytes' = EntryBytes(entries', Held(entries')) /\ bytes' <= Ceiling
<1>1. PICK k : k = load[l].key
  OBVIOUS
<1>2. PICK new : new = [stamp |-> load[l].stamp, text |-> load[l].text, used |-> clock + 1]
  OBVIOUS
<1>3. PICK with : with = [entries EXCEPT ![k] = new]
  OBVIOUS
<1>4. PICK before : before = bytes - BytesOf({k})
  OBVIOUS
<1>5. PICK sum : sum = before + Bytes[new.text]
  OBVIOUS
<1>6. PICK out : out = Oldest(with, Held(with), sum)
  OBVIOUS
<1>7. /\ k \in Key /\ new \in Entry /\ clock \in Nat /\ Ceiling \in Nat
      /\ entries \in [Key -> Entry \cup {None}] /\ Bytes[new.text] \in Nat
      /\ bytes = EntryBytes(entries, Held(entries)) /\ bytes <= Ceiling
  BY <1>1, <1>2, LoadShape, TableAssumption DEF CountInv, CacheInv, Typed, Entry
<1>8. before = EntryBytes(entries, Held(entries)) - EntryBytes(entries, Held(entries) \cap {k})
  BY <1>4, <1>7, BytesAreHeld
<1>k. /\ {k} \in SUBSET Key /\ EntryBytes(entries, Held(entries)) \in Nat
      /\ EntryBytes(entries, Held(entries) \cap {k}) \in Nat
  <2>1. Held(entries) \cap {k} \in SUBSET Held(entries) /\ Held(entries) \in SUBSET Held(entries)
    OBVIOUS
  <2> QED BY <1>7, <2>1, HeldSized
<1>9. {r \in Key : with[r] # None} = Held(with)
  BY DEF Held
<1>10. IF Bytes[new.text] > Ceiling
       THEN entries' = [entries EXCEPT ![k] = None] /\ bytes' = before
       ELSE /\ entries' = [r \in Key |-> IF r \in out THEN None ELSE with[r]]
            /\ bytes' = sum - EntryBytes(with, out)
  <2>1. Keeps(l, before)
    BY <1>1, <1>4
  <2> DEFINE n == [stamp |-> load[l].stamp, text |-> load[l].text, used |-> clock + 1]
             w == [entries EXCEPT ![load[l].key] = n]
             t == before + Bytes[n.text]
             o == Oldest(w, {r \in Key : w[r] # None}, t)
  <2>2. IF Bytes[n.text] > Ceiling
        THEN entries' = [entries EXCEPT ![load[l].key] = None] /\ bytes' = before
        ELSE /\ entries' = [r \in Key |-> IF r \in o THEN None ELSE w[r]]
             /\ bytes' = t - EntryBytes(w, o)
    BY <2>1, Zenon DEF Keeps, EntryBytes
  <2>3. n = new /\ w = with
    BY <1>1, <1>2, <1>3
  <2>4. t = sum
    BY <1>5, <2>3
  <2>5. o = out
    BY <1>6, <1>9, <2>3, <2>4
  <2> HIDE DEF n, w, t, o
  <2> QED BY <1>1, <2>2, <2>3, <2>4, <2>5
<1>11. CASE Bytes[new.text] > Ceiling
  <2>1. entries' = [m \in Key |-> IF m \in {k} THEN None ELSE entries[m]]
    BY <1>7, <1>10, <1>11
  <2>2. /\ EntryBytes(entries', Held(entries')) = before
        /\ EntryBytes(entries', Held(entries')) \in Nat
        /\ EntryBytes(entries', Held(entries')) <= EntryBytes(entries, Held(entries))
    BY <1>7, <1>8, <1>k, <2>1, DropCounts
  <2>3. EntryBytes(entries, Held(entries)) \in Nat
    BY <1>7, HeldSized
  <2> QED BY <1>7, <1>10, <1>11, <2>2, <2>3
<1>12. CASE ~(Bytes[new.text] > Ceiling)
  <2>0. /\ with \in [Key -> Entry \cup {None}]
        /\ with[k] = new /\ \A m \in Key \ {k} : with[m] = entries[m]
    BY <1>3, <1>7
  <2>1. sum = EntryBytes(with, Held(with))
    <3>1. EntryBytes(with, Held(with))
            = EntryBytes(entries, Held(entries)) - EntryBytes(entries, Held(entries) \cap {k})
                + Bytes[new.text]
      BY <1>7, <2>0, StoreCounts
    <3> QED BY <1>5, <1>7, <1>8, <1>k, <3>1
  <2>2. out \in SUBSET Held(with) /\ sum - EntryBytes(with, out) <= Ceiling
    BY <1>6, <1>7, <2>0, <2>1, OldestFits
  <2>3. out \in SUBSET Key /\ Held(with) \cap out = out
    BY <2>2 DEF Held
  <2>4. entries' = [r \in Key |-> IF r \in out THEN None ELSE with[r]]
    BY <1>10, <1>12
  <2>5. EntryBytes(entries', Held(entries')) = sum - EntryBytes(with, out)
    BY <2>0, <2>1, <2>3, <2>4, DropCounts
  <2> QED BY <1>10, <1>12, <2>2, <2>5
<1> QED BY <1>11, <1>12

(* The counter is what the entries take, and stays under the ceiling, whatever
   is stored, replaced, evicted and forgotten by loads that run side by side. *)
THEOREM StaysUnderCeiling ==
  ASSUME IsFiniteSet(Key)
  PROVE  TableSpec => []UnderCeiling
<1>1. TableInit /\ CacheInv => CountInv
  <2> SUFFICES ASSUME TableInit, CacheInv PROVE CountInv
    OBVIOUS
  <2>1. Held(entries) = {} /\ bytes = 0 /\ Sized(entries, {})
    BY FS_EmptySet DEF TableInit, Held, Sized
  <2>2. EntryBytes(entries, {}) = 0
    BY <2>1, BytesAny
  <2> QED BY <2>1, <2>2, TableAssumption DEF CountInv
<1>2. CountInv /\ CacheInv' /\ [TableNext]_tableVars => CountInv'
  <2> SUFFICES ASSUME CountInv, CacheInv', [TableNext]_tableVars
               PROVE  bytes' = EntryBytes(entries', Held(entries')) /\ bytes' <= Ceiling
    BY DEF CountInv
  <2>t. entries \in [Key -> Entry \cup {None}] /\ CacheInv
    BY DEF CountInv, CacheInv, Typed
  <2>1. CASE UNCHANGED <<entries, bytes>>
    BY <2>1 DEF CountInv
  <2>2. ASSUME NEW l \in Load, hit(l)
        PROVE  bytes' = EntryBytes(entries', Held(entries')) /\ bytes' <= Ceiling
    <3>1. PICK k : k = load[l].key
      OBVIOUS
    <3>2. k \in Key
      BY <2>2, <2>t, <3>1, LoadShape DEF hit
    <3>3. CASE drop_entry({k})
      BY <3>2, <3>3, DropKeeps
    <3>4. CASE ~drop_entry({k})
      <4>1. /\ entries[k] # None /\ bytes' = bytes
            /\ entries' = [entries EXCEPT ![k].used = clock']
        BY <2>2, <3>1, <3>4 DEF hit
      <4>2. entries[k] \in Entry
        BY <2>t, <3>2, <4>1
      <4>3. PICK e : e = [entries[k] EXCEPT !.used = clock']
        OBVIOUS
      <4>4. e \in Entry /\ e.text = entries[k].text
        BY <2>t, <4>2, <4>3 DEF Entry, CacheInv, Typed
      <4>5. /\ entries' = [entries EXCEPT ![k] = e] /\ e # None
        BY <4>1, <4>3, <4>4, TableAssumption
      <4>6. Held(entries') = Held(entries) /\ \A m \in Key : entries'[m].text = entries[m].text
        BY <2>t, <3>2, <4>1, <4>4, <4>5 DEF Held
      <4>7. Sized(entries, Held(entries))
        BY <2>t, HeldSized
      <4>8. EntryBytes(entries', Held(entries)) = EntryBytes(entries, Held(entries))
        <5>1. SameTexts(entries', entries, Held(entries))
          BY <4>6 DEF Held, SameTexts
        <5> QED BY <4>7, <5>1, BytesSame
      <4> QED BY <4>1, <4>6, <4>8 DEF CountInv
    <3> QED BY <3>3, <3>4
  <2>3. ASSUME NEW l \in Load, forget(l)
        PROVE  bytes' = EntryBytes(entries', Held(entries')) /\ bytes' <= Ceiling
    <3>1. load[l].key \in Key
      BY <2>3, <2>t, LoadShape DEF forget
    <3> QED BY <2>3, <3>1, DropKeeps DEF forget
  <2>4. ASSUME NEW l \in Load, store(l)
        PROVE  bytes' = EntryBytes(entries', Held(entries')) /\ bytes' <= Ceiling
    BY <2>4, KeepsCounts DEF store
  <2> QED BY <2>1, <2>2, <2>3, <2>4
    DEF TableNext, tableVars, FileChanges, Starts, ReadFile, LooksAgain
<1>3. CountInv => UnderCeiling
  <2>1. Key \in SUBSET Key
    OBVIOUS
  <2> QED BY <2>1, BytesAreHeld DEF CountInv, UnderCeiling
<1> QED BY <1>1, <1>2, <1>3, CacheKept, PTL DEF TableSpec

-------------------------------------------------------------------------------
(* The query language *)

(* A value has the same text on both sides. *)
LEMMA SameText ==
    ASSUME NEW v \in Value
    PROVE  CastText(normalized(v)) = cell(v).text
<1>1. CASE v.kind = "missing" BY <1>1 DEF normalized, CastText, cell
<1>2. CASE v.kind = "num" BY <1>2 DEF normalized, CastText, cell
<1>3. CASE v.kind = "str" BY <1>3 DEF normalized, CastText, cell
<1>4. CASE v.kind = "bool" BY <1>4 DEF normalized, CastText, cell
<1> QED BY <1>1, <1>2, <1>3, <1>4 DEF Value, Literal, Missing

(* Only a missing value is an empty cell, and only a missing value is NULL. *)
LEMMA OnlyMissingIsEmpty ==
    ASSUME NEW v \in Value
    PROVE  /\ is_empty(cell(v)) <=> v.kind = "missing"
           /\ normalized(v).class = "null" <=> v.kind = "missing"
<1>1. CASE v.kind = "missing" BY <1>1 DEF normalized, cell, is_empty
<1>2. CASE v.kind = "num"
  <2>1. v.num \in Nums
    BY <1>2 DEF Value, Literal, Missing
  <2>2. NumText[v.num] # ""
    BY <2>1, QueryAssumption
  <2> QED BY <1>2, <2>2 DEF normalized, cell, is_empty
<1>3. CASE v.kind = "str"
  <2>1. v.text \in TextSet
    BY <1>3 DEF Value, Literal, Missing
  <2>2. v.text # ""
    BY <2>1, QueryAssumption
  <2> QED BY <1>3, <2>2 DEF normalized, cell, is_empty
<1>4. CASE v.kind = "bool"
  <2>1. BoolText(v.bool) # ""
    BY DEF BoolText
  <2> QED BY <1>4, <2>1 DEF normalized, cell, is_empty
<1> QED BY <1>1, <1>2, <1>3, <1>4 DEF Value, Literal, Missing

(* A condition finds a record in the index exactly when it finds its row. *)
LEMMA SameMatches ==
    ASSUME NEW v \in Value, NEW c \in Cond
    PROVE  SqlMatches(v, c) <=> cell_matches(cell(v), c)
<1>0. c.value \in Literal
  BY DEF Cond
<1>1. CASE v.kind = "missing"
  BY <1>1, OnlyMissingIsEmpty DEF SqlMatches, cell_matches
<1>2. CASE v.kind # "missing"
  <2> ~is_empty(cell(v))
    BY <1>2, OnlyMissingIsEmpty
  <2>1. CASE c.value.kind = "str"
    BY <2>1, <1>2, SameText DEF SqlMatches, cell_matches
  <2>2. CASE c.value.kind = "num"
    <3>1. CASE v.kind = "num"
      BY <3>1, <2>2 DEF SqlMatches, cell_matches, normalized, cell
    <3>2. CASE v.kind = "str"
      BY <3>2, <2>2 DEF SqlMatches, cell_matches, normalized, cell
    <3>3. CASE v.kind = "bool"
      BY <3>3, <2>2 DEF SqlMatches, cell_matches, normalized, cell
    <3> QED BY <1>2, <3>1, <3>2, <3>3 DEF Value, Literal, Missing
  <2>3. CASE c.value.kind = "bool"
    <3>1. CASE v.kind = "num"
      BY <3>1, <2>3 DEF SqlMatches, cell_matches, normalized, cell
    <3>2. CASE v.kind = "str"
      BY <3>2, <2>3 DEF SqlMatches, cell_matches, normalized, cell
    <3>3. CASE v.kind = "bool"
      BY <3>3, <2>3 DEF SqlMatches, cell_matches, normalized, cell
    <3> QED BY <1>2, <3>1, <3>2, <3>3 DEF Value, Literal, Missing
  <2> QED BY <1>0, <2>1, <2>2, <2>3 DEF Literal
<1> QED BY <1>1, <1>2

(* ORDER BY compares two values that are not missing as the table does. *)
LEMMA SameLess ==
    ASSUME NEW v \in Value, v.kind # "missing",
           NEW w \in Value, w.kind # "missing"
    PROVE  SqlLess(normalized(v), normalized(w))
             <=> compare_present(cell(v), cell(w))
<1>e. ~is_empty(cell(v)) /\ ~is_empty(cell(w))
  BY OnlyMissingIsEmpty
<1>1. CASE v.kind = "num" /\ w.kind = "num"
  BY <1>e, <1>1 DEF SqlLess, compare_present, sort_rank, normalized, cell
<1>2. ASSUME NEW u \in Value, u.kind = "str" \/ u.kind = "bool"
      PROVE  /\ normalized(u).class = "text"
             /\ normalized(u).text = cell(u).text
             /\ cell(u).num = {}
  <2>1. CASE u.kind = "str" BY <2>1 DEF normalized, cell
  <2>2. CASE u.kind = "bool" BY <2>2 DEF normalized, cell
  <2> QED BY <1>2, <2>1, <2>2
<1>3. ASSUME NEW u \in Value, u.kind = "num"
      PROVE  /\ normalized(u).class = "real"
             /\ cell(u).num # {}
  BY <1>3 DEF normalized, cell
<1>4. CASE v.kind # "num" /\ w.kind # "num"
  <2> v.kind \in {"str", "bool"} /\ w.kind \in {"str", "bool"}
    BY <1>4 DEF Value, Literal, Missing
  <2> QED BY <1>e, <1>2 DEF SqlLess, compare_present, sort_rank
<1>5. CASE v.kind = "num" /\ w.kind # "num"
  <2> w.kind \in {"str", "bool"}
    BY <1>5 DEF Value, Literal, Missing
  <2> QED BY <1>e, <1>2, <1>3, <1>5 DEF SqlLess, compare_present, sort_rank
<1>6. CASE v.kind # "num" /\ w.kind = "num"
  <2> v.kind \in {"str", "bool"}
    BY <1>6 DEF Value, Literal, Missing
  <2> QED BY <1>e, <1>2, <1>3, <1>6 DEF SqlLess, compare_present, sort_rank
<1> QED BY <1>1, <1>4, <1>5, <1>6

(* Two records are listed in the same order, also when they compare equal. *)
LEMMA SameOrder ==
    ASSUME NEW r \in [1..Rows -> Value], NEW q \in Query,
           NEW i \in 1..Rows, NEW j \in 1..Rows
    PROVE  OrderBy(r, q.sort, i, j) <=> compare_for_sort(r, q.sort, i, j)
<1>0. r[i] \in Value /\ r[j] \in Value
  OBVIOUS
<1>1. CASE r[i].kind = "missing" \/ r[j].kind = "missing"
  <2>1. sort_rank(cell(r[i])) < sort_rank(cell(r[j]))
          <=> r[i].kind # "missing" /\ r[j].kind = "missing"
    BY <1>0, <1>1, OnlyMissingIsEmpty DEF sort_rank
  <2> QED
    BY <1>0, <1>1, <2>1, OnlyMissingIsEmpty DEF OrderBy, compare_for_sort
<1>2. CASE r[i].kind # "missing" /\ r[j].kind # "missing"
  <2>1. /\ SqlLess(normalized(r[i]), normalized(r[j]))
             <=> compare_present(cell(r[i]), cell(r[j]))
        /\ SqlLess(normalized(r[j]), normalized(r[i]))
             <=> compare_present(cell(r[j]), cell(r[i]))
    BY <1>0, <1>2, SameLess
  <2> QED
    BY <1>0, <1>2, <2>1, OnlyMissingIsEmpty DEF OrderBy, compare_for_sort
<1> QED BY <1>1, <1>2

(* So the two answers are equal, whatever the relation and the query. *)
THEOREM SameAnswer ==
    ASSUME NEW r \in [1..Rows -> Value], NEW q \in Query
    PROVE  exec_index(r, q) = exec_table(r, q)
<1> DEFINE found == {i \in 1..Rows :
                       q.cond = NoCond \/ SqlMatches(r[i], q.cond)}
           rows  == {i \in 1..Rows :
                       q.cond = NoCond \/ cell_matches(cell(r[i]), q.cond)}
           order == {p \in found \X found : OrderBy(r, q.sort, p[1], p[2])}
           sorted == {p \in rows \X rows :
                        compare_for_sort(r, q.sort, p[1], p[2])}
<1>1. found = rows
  <2> q.cond \in Cond \cup {NoCond}
    BY DEF Query
  <2> QED BY SameMatches
<1>2. order = sorted
  <2>1. \A p \in found \X found : p[1] \in 1..Rows /\ p[2] \in 1..Rows
    OBVIOUS
  <2>2. \A p \in found \X found : OrderBy(r, q.sort, p[1], p[2])
          <=> compare_for_sort(r, q.sort, p[1], p[2])
    BY <2>1, SameOrder
  <2> HIDE DEF found, rows
  <2> QED BY <1>1, <2>2
<1>3. [i \in 1..Rows |-> CastText(normalized(r[i]))]
        = [i \in 1..Rows |-> cell(r[i]).text]
  BY SameText
<1> HIDE DEF found, rows, order, sorted
<1>4. exec_index(r, q)
        = Lines(found, order, [i \in 1..Rows |-> CastText(normalized(r[i]))])
  BY Zenon DEF exec_index, found, order
<1>5. exec_table(r, q)
        = Lines(rows, sorted, [i \in 1..Rows |-> cell(r[i]).text])
  BY Zenon DEF exec_table, rows, sorted
<1> QED BY <1>1, <1>2, <1>3, <1>4, <1>5

(* ExecutorsAgree holds in every state. *)
THEOREM Agreement == QuerySpec => []ExecutorsAgree
<1> DEFINE Asked == rel \in [1..Rows -> Value] /\ ExecutorsAgree
<1>1. QueryInit => Asked
  BY SameAnswer DEF QueryInit, NoQuery, Query, ExecutorsAgree
<1>2. Asked /\ [QueryNext]_queryVars => Asked'
  <2> SUFFICES ASSUME Asked, [QueryNext]_queryVars PROVE Asked'
    OBVIOUS
  <2>1. ASSUME NEW q \in Query, run(q) PROVE Asked'
    BY <2>1, SameAnswer DEF run, ExecutorsAgree
  <2>2. CASE UNCHANGED queryVars
    BY <2>2 DEF queryVars, ExecutorsAgree
  <2> QED BY <2>1, <2>2 DEF QueryNext
<1> QED BY <1>1, <1>2, PTL DEF QuerySpec

(* A strict order of finitely many records lists each of them once, and one
   before the other. *)
Orders(Before, found) ==
    /\ \A i \in found : <<i, i>> \notin Before
    /\ \A i, j \in found : i # j => <<i, j>> \in Before \/ <<j, i>> \in Before
    /\ \A i, j, k \in found : <<i, j>> \in Before /\ <<j, k>> \in Before => <<i, k>> \in Before

LEMMA LinesInOrder ==
    ASSUME NEW found, IsFiniteSet(found), NEW Before, Orders(Before, found), NEW text,
           NEW lines, lines = Lines(found, Before, text)
    PROVE  /\ lines = [k \in 1..Cardinality(found) |-> lines[k]]
           /\ Cardinality(found) \in Nat
           /\ \A k \in 1..Cardinality(found) : lines[k][1] \in found
           /\ \A i \in found : \E k \in 1..Cardinality(found) : lines[k][1] = i
           /\ \A k, l \in 1..Cardinality(found) :
                k < l => <<lines[k][1], lines[l][1]>> \in Before
<1> DEFINE n == Cardinality(found)
           Earlier(i) == {j \in found : <<j, i>> \in Before}
           Place(i) == 1 + Cardinality(Earlier(i))
           listed(k) == CHOOSE i \in found : Place(i) = k
           place == [i \in found |-> Place(i)]
<1>1. lines = [k \in 1..n |-> <<listed(k), text[listed(k)]>>]
  BY Zenon DEF Lines
<1>2. ASSUME NEW i \in found
      PROVE  Place(i) \in 1..n
  <2>1. Earlier(i) \in SUBSET (found \ {i}) /\ IsFiniteSet(found \ {i})
    BY FS_RemoveElement DEF Orders
  <2>2. /\ Cardinality(Earlier(i)) <= Cardinality(found \ {i}) /\ IsFiniteSet(Earlier(i))
    BY <2>1, FS_Subset
  <2>3. Cardinality(found \ {i}) = n - 1 /\ n \in Nat /\ Cardinality(Earlier(i)) \in Nat
    BY <2>2, FS_RemoveElement, FS_CardinalityType
  <2> HIDE DEF n, Earlier
  <2> QED BY <2>2, <2>3
<1>3. ASSUME NEW i \in found, NEW j \in found, <<i, j>> \in Before
      PROVE  Place(i) < Place(j)
  <2>1. Earlier(i) \in SUBSET (Earlier(j) \ {i}) /\ i \in Earlier(j) /\ IsFiniteSet(Earlier(j))
    BY <1>3, FS_Subset DEF Orders
  <2>2. /\ Cardinality(Earlier(j) \ {i}) = Cardinality(Earlier(j)) - 1
        /\ IsFiniteSet(Earlier(j) \ {i}) /\ Cardinality(Earlier(j)) \in Nat
    BY <2>1, FS_RemoveElement, FS_CardinalityType
  <2>3. Cardinality(Earlier(i)) <= Cardinality(Earlier(j) \ {i}) /\ IsFiniteSet(Earlier(i))
    BY <2>1, <2>2, FS_Subset
  <2>4. Cardinality(Earlier(i)) \in Nat
    BY <2>3, FS_CardinalityType
  <2> HIDE DEF Earlier
  <2> QED BY <2>2, <2>3, <2>4
<1>n. n \in Nat
  BY FS_CardinalityType
<1> HIDE DEF Place
<1>4. place \in [found -> 1..n] /\ \A i \in found : place[i] = Place(i)
  BY <1>2
<1>5. \A i, j \in found : place[i] = place[j] => i = j
  <2> SUFFICES ASSUME NEW i \in found, NEW j \in found, Place(i) = Place(j), i # j
               PROVE  FALSE
    BY <1>4
  <2>1. Place(i) \in Int /\ Place(j) \in Int
    BY <1>2
  <2>2. <<i, j>> \in Before \/ <<j, i>> \in Before
    BY DEF Orders
  <2> QED BY <1>3, <2>1, <2>2
<1> HIDE DEF place
<1>6. \A k \in 1..n : \E i \in found : place[i] = k
  <2>1. place \in Injection(found, 1..n)
    BY <1>4, <1>5 DEF Injection, IsInjective
  <2>2. IsFiniteSet(1..n) /\ Cardinality(1..n) = n
    BY <1>n, FS_Interval
  <2>3. place \in Surjection(found, 1..n)
    BY <2>1, <2>2, FS_Injection
  <2> QED BY <2>3 DEF Surjection
<1>7. ASSUME NEW k \in 1..n
      PROVE  listed(k) \in found /\ Place(listed(k)) = k
  BY <1>4, <1>6
<1>8. \A i \in found : \A k \in 1..n : Place(i) = k => listed(k) = i
  BY <1>4, <1>5, <1>7
<1> HIDE DEF listed
<1>9. ASSUME NEW k \in 1..n, NEW l \in 1..n, k < l
      PROVE  <<listed(k), listed(l)>> \in Before
  <2>1. /\ listed(k) \in found /\ listed(l) \in found
        /\ Place(listed(k)) = k /\ Place(listed(l)) = l
    BY <1>7
  <2>2. listed(k) # listed(l)
    BY <1>9, <2>1
  <2>3. <<listed(l), listed(k)>> \notin Before
    <3> SUFFICES ASSUME <<listed(l), listed(k)>> \in Before PROVE FALSE
      OBVIOUS
    <3>1. l < k
      BY <1>3, <2>1
    <3> QED BY <1>9, <1>n, <3>1
  <2> QED BY <2>1, <2>2, <2>3 DEF Orders
<1> HIDE DEF n
<1>10. \A k \in 1..n : lines[k][1] = listed(k)
  BY <1>1
<1>11. \A i \in found : \E k \in 1..n : lines[k][1] = i
  BY <1>2, <1>8, <1>10
<1>12. lines = [k \in 1..n |-> lines[k]]
  BY <1>1
<1> QED BY <1>7, <1>9, <1>10, <1>11, <1>12, <1>n DEF n

-------------------------------------------------------------------------------
(* What ORDER BY compares: the class of a value, and its number within it. *)
Class(v) == normalized(v).class
Rank(v) == CASE Class(v) = "real" -> normalized(v).num
             [] Class(v) = "text" -> TextRank(normalized(v).text)
             [] OTHER -> 0

LEMMA RankIsNumber ==
    ASSUME NEW v \in Value
    PROVE  /\ Class(v) \in {"null", "real", "text"} /\ Rank(v) \in Int
           /\ Class(v) = "null" <=> v = Missing
<1>1. \A t \in TextSet : TextRank(t) \in Int
  BY DEF TextRank, TextSet
<1>2. CASE v.kind = "missing"
  BY <1>2 DEF normalized, Class, Rank, Value, Literal, Missing
<1>3. CASE v.kind = "num"
  <2>1. v.num \in Nums /\ v # Missing
    BY <1>3 DEF Value, Literal, Missing
  <2>2. v.num \in Int
    BY <2>1, QueryAssumption
  <2> QED BY <1>3, <2>1, <2>2 DEF normalized, Class, Rank
<1>4. CASE v.kind = "str"
  <2>1. v.text \in TextSet /\ v # Missing
    BY <1>4 DEF Value, Literal, Missing
  <2> QED BY <1>1, <1>4, <2>1 DEF normalized, Class, Rank
<1>5. CASE v.kind = "bool"
  <2>1. v # Missing
    BY <1>5 DEF Missing
  <2>2. BoolText(v.bool) \in TextSet
    BY QueryAssumption DEF BoolText
  <2> QED BY <1>1, <1>5, <2>1, <2>2 DEF normalized, Class, Rank
<1> QED BY <1>2, <1>3, <1>4, <1>5 DEF Value, Literal, Missing

Less(v, w) ==
    \/ Class(v) = "real" /\ Class(w) = "text"
    \/ Class(v) = Class(w) /\ Class(v) # "null" /\ Rank(v) < Rank(w)

LEMMA SqlLessIs ==
    ASSUME NEW v \in Value, NEW w \in Value
    PROVE  SqlLess(normalized(v), normalized(w)) <=> Less(v, w)
BY RankIsNumber DEF SqlLess, Less, Class, Rank

(* OrderBy of two records, by what it compares. *)
Listed(r, sort, i, j) ==
    LET Before(a, b) == IF sort = "asc" THEN Less(a, b) ELSE Less(b, a)
    IN  \/ sort = "none" /\ i < j
        \/ /\ sort # "none"
           /\ \/ Class(r[i]) = "null" /\ Class(r[j]) = "null" /\ i < j
              \/ Class(r[i]) # "null" /\ Class(r[j]) = "null"
              \/ /\ Class(r[i]) # "null" /\ Class(r[j]) # "null"
                 /\ \/ Before(r[i], r[j])
                    \/ ~Before(r[j], r[i]) /\ i < j

LEMMA OrderByIs ==
    ASSUME NEW r \in [1..Rows -> Value], NEW sort, NEW i \in 1..Rows, NEW j \in 1..Rows
    PROVE  OrderBy(r, sort, i, j) <=> Listed(r, sort, i, j)
<1>1. /\ SqlLess(normalized(r[i]), normalized(r[j])) <=> Less(r[i], r[j])
      /\ SqlLess(normalized(r[j]), normalized(r[i])) <=> Less(r[j], r[i])
  BY SqlLessIs
<1> QED BY <1>1 DEF OrderBy, Listed, Class

LEMMA ListedOrders ==
    ASSUME NEW r \in [1..Rows -> Value], NEW sort, NEW found \in SUBSET (1..Rows)
    PROVE  Orders({p \in found \X found : OrderBy(r, sort, p[1], p[2])}, found)
<1>1. \A i, j \in found : OrderBy(r, sort, i, j) <=> Listed(r, sort, i, j)
  BY OrderByIs
<1>2. \A i \in found : /\ i \in Int /\ Rank(r[i]) \in Int
                       /\ Class(r[i]) \in {"null", "real", "text"}
  <2>1. \A i \in found : i \in 1..Rows
    OBVIOUS
  <2>2. \A i \in 1..Rows : i \in Int /\ r[i] \in Value
    <3>1. Rows \in Nat
      BY QueryAssumption
    <3> QED BY <3>1
  <2> QED BY <2>1, <2>2, RankIsNumber
<1>3. \A i \in found : ~Listed(r, sort, i, i)
  BY <1>2 DEF Listed, Less
<1>4. \A i, j \in found : i # j => Listed(r, sort, i, j) \/ Listed(r, sort, j, i)
  BY <1>2 DEF Listed, Less
<1>5. ASSUME NEW i \in found, NEW j \in found, NEW k \in found,
             Listed(r, sort, i, j), Listed(r, sort, j, k)
      PROVE  Listed(r, sort, i, k)
  <2>1. CASE sort = "none"
    BY <1>2, <1>5, <2>1 DEF Listed
  <2>2. CASE sort = "asc"
    BY <1>2, <1>5, <2>2 DEF Listed, Less
  <2>3. CASE sort \notin {"none", "asc"}
    BY <1>2, <1>5, <2>3 DEF Listed, Less
  <2> QED BY <2>1, <2>2, <2>3
<1> HIDE DEF Listed
<1> QED BY <1>1, <1>3, <1>4, <1>5 DEF Orders

(* The records that were found, each once, in the order of ORDER BY. *)
AnswerIs(r, q, lines) ==
    /\ lines = [k \in 1..Len(lines) |-> lines[k]] /\ Len(lines) \in Nat
    /\ \A k \in 1..Len(lines) : lines[k][1] \in 1..Rows
    /\ \A i \in 1..Rows : (\E k \in 1..Len(lines) : lines[k][1] = i)
                            <=> q.cond = NoCond \/ SqlMatches(r[i], q.cond)
    /\ \A k, l \in 1..Len(lines) :
         k < l => OrderBy(r, q.sort, lines[k][1], lines[l][1])

(* An answer has every record that was found once, in order, whatever the
   relation and the query. *)
THEOREM AnswersAreSorted ==
    ASSUME NEW r \in [1..Rows -> Value], NEW q
    PROVE  AnswerIs(r, q, exec_index(r, q))
<1> DEFINE found == {i \in 1..Rows : q.cond = NoCond \/ SqlMatches(r[i], q.cond)}
           order == {p \in found \X found : OrderBy(r, q.sort, p[1], p[2])}
<1>1. PICK text : text = [i \in 1..Rows |-> CastText(normalized(r[i]))]
  OBVIOUS
<1>2. PICK lines : lines = Lines(found, order, text)
  OBVIOUS
<1>3. exec_index(r, q) = lines
  <2>1. exec_index(r, q)
          = Lines(found, order, [i \in 1..Rows |-> CastText(normalized(r[i]))])
    BY Zenon DEF exec_index
  <2> QED BY <1>1, <1>2, <2>1
<1>4. IsFiniteSet(found) /\ Orders(order, found)
  <2>0. Rows \in Nat
    BY QueryAssumption
  <2>1. found \in SUBSET (1..Rows)
    OBVIOUS
  <2>2. IsFiniteSet(1..Rows)
    <3>1. Rows \in Int /\ 1 \in Int
      BY <2>0
    <3> QED BY <3>1, FS_Interval
  <2>3. IsFiniteSet(found)
    BY <2>1, <2>2, FS_Subset
  <2> HIDE DEF found
  <2>4. Orders(order, found)
    BY <2>1, ListedOrders
  <2> QED BY <2>3, <2>4
<1>5. \A i, j : <<i, j>> \in order => OrderBy(r, q.sort, i, j)
  OBVIOUS
<1>6. \A i : i \in found <=> i \in 1..Rows /\ (q.cond = NoCond \/ SqlMatches(r[i], q.cond))
  OBVIOUS
<1> HIDE DEF found, order
<1>7. /\ lines = [k \in 1..Cardinality(found) |-> lines[k]]
      /\ Cardinality(found) \in Nat
      /\ \A k \in 1..Cardinality(found) : lines[k][1] \in found
      /\ \A i \in found : \E k \in 1..Cardinality(found) : lines[k][1] = i
      /\ \A k, l \in 1..Cardinality(found) : k < l => <<lines[k][1], lines[l][1]>> \in order
  BY <1>2, <1>4, LinesInOrder
<1>8. Len(lines) = Cardinality(found)
  BY <1>7
<1>9. \A k, l \in 1..Len(lines) :
         k < l => OrderBy(r, q.sort, lines[k][1], lines[l][1])
  BY <1>5, <1>7, <1>8
<1> QED BY <1>3, <1>6, <1>7, <1>8, <1>9 DEF AnswerIs

(* MissingComesLast holds in every state: a record that lacks the key answers
   no comparison and is listed last whichever way the answer is sorted. *)
THEOREM MissingIsLast == QuerySpec => []MissingComesLast
<1> DEFINE Asked == rel \in [1..Rows -> Value] /\ AnswerIs(rel, query, index)
<1>1. QueryInit => Asked
  BY AnswersAreSorted DEF QueryInit
<1>2. Asked /\ [QueryNext]_queryVars => Asked'
  <2> SUFFICES ASSUME Asked, [QueryNext]_queryVars PROVE Asked'
    OBVIOUS
  <2>1. ASSUME NEW q \in Query, run(q) PROVE Asked'
    BY <2>1, AnswersAreSorted DEF run
  <2>2. CASE UNCHANGED queryVars
    BY <2>2 DEF queryVars
  <2> QED BY <2>1, <2>2 DEF QueryNext
<1>3. Asked => MissingComesLast
  <2> SUFFICES ASSUME Asked, NEW k \in DOMAIN index, rel[index[k][1]] = Missing
               PROVE  /\ query.cond = NoCond
                      /\ query.sort # "none" =>
                           \A l \in k..Len(index) : rel[index[l][1]] = Missing
    BY DEF MissingComesLast
  <2>1. DOMAIN index = 1..Len(index) /\ Len(index) \in Nat
    BY DEF AnswerIs
  <2>2. query.cond = NoCond
    BY <2>1 DEF AnswerIs, SqlMatches, Missing
  <2>3. ASSUME query.sort # "none", NEW l \in k..Len(index)
        PROVE  rel[index[l][1]] = Missing
    <3>1. CASE l = k
      BY <3>1
    <3>2. CASE l # k
      <4>1. l \in 1..Len(index) /\ k < l
        BY <2>1, <3>2
      <4>2. /\ OrderBy(rel, query.sort, index[k][1], index[l][1])
            /\ index[k][1] \in 1..Rows /\ index[l][1] \in 1..Rows
        BY <2>1, <4>1 DEF AnswerIs
      <4>3. Listed(rel, query.sort, index[k][1], index[l][1])
        BY <4>2, OrderByIs
      <4>4. Class(rel[index[k][1]]) = "null"
        BY <4>2, RankIsNumber
      <4>5. Class(rel[index[l][1]]) = "null"
        BY <2>3, <4>3, <4>4 DEF Listed
      <4> QED BY <4>2, <4>5, RankIsNumber
    <3> QED BY <3>1, <3>2
  <2> QED BY <2>2, <2>3
<1> QED BY <1>1, <1>2, <1>3, PTL DEF QuerySpec

-------------------------------------------------------------------------------
(* Positions in a text *)

(* The function the fold of Offset is defined by. *)
Widths(f, s) ==
  f = [S \in SUBSET DOMAIN s |->
         IF S = {} THEN 0 ELSE Width[s[Max(S)]] + f[S \ {Max(S)}]]

LEMMA OffsetIs ==
  ASSUME NEW t, NEW k
  PROVE  Offset(t, k) = (CHOOSE f : Widths(f, SubSeq(t, 1, k - 1)))[DOMAIN SubSeq(t, 1, k - 1)]
BY Zenon DEF Offset, FoldLeft, MapThenFoldSet, Widths

LEMMA MaxUpTo ==
  ASSUME NEW k \in Nat, k # 0
  PROVE  1..k # {} /\ Max(1..k) = k /\ (1..k) \ {k} = 1..(k - 1)
<1>1. k \in 1..k /\ 1..k \in SUBSET (1..k)
  OBVIOUS
<1>2. Max(1..k) \in 1..k /\ \A j \in 1..k : Max(1..k) >= j
  BY <1>1, MaxOf
<1> QED BY <1>1, <1>2

LEMMA WidthsExist ==
  ASSUME NEW s, NEW n \in Nat, DOMAIN s = 1..n, \A k \in 1..n : Width[s[k]] \in Nat
  PROVE  \E f : Widths(f, s)
<1> DEFINE R == 1..n
<1>0. IsFiniteSet(R)
  BY FS_Interval
<1>1. PICK w : w = [k \in R |-> Width[s[k]]]
  OBVIOUS
<1>2. PICK c : c = [S \in SUBSET R |-> Max(S)]
  OBVIOUS
<1>3. \A S \in SUBSET R : S # {} => c[S] \in S
  BY <1>2, MaxOf
<1>4. PICK f : Sums(f, w, c, R)
  BY <1>0, <1>3, SumExists
<1>5. \A S \in SUBSET R : S # {} => w[c[S]] = Width[s[Max(S)]] /\ c[S] = Max(S)
  BY <1>1, <1>2, <1>3
<1> HIDE DEF R
<1>6. Widths(f, s)
  BY <1>4, <1>5 DEF Widths, Sums, R
<1> QED BY <1>6

(* A prefix of the text counts the same whatever follows. *)
LEMMA WidthsAgree ==
  ASSUME NEW s, NEW r, NEW n \in Nat, NEW m \in Nat, n <= m,
         DOMAIN s = 1..m, DOMAIN r = 1..n, \A k \in 1..n : s[k] = r[k],
         NEW f, NEW g, Widths(f, s), Widths(g, r)
  PROVE  f[1..n] = g[1..n]
<1> DEFINE Bad == {k \in 0..n : f[1..k] # g[1..k]}
<1>1. SUFFICES ASSUME Bad # {} PROVE FALSE
  OBVIOUS
<1>2. PICK k \in Bad : \A j \in Bad : k <= j
  <2>1. Bad \in SUBSET Nat
    OBVIOUS
  <2> QED BY <1>1, <2>1, LeastNumber
<1>3. k \in 0..n /\ f[1..k] # g[1..k]
  BY <1>2
<1>4. /\ f[1..k] = IF 1..k = {} THEN 0 ELSE Width[s[Max(1..k)]] + f[(1..k) \ {Max(1..k)}]
      /\ g[1..k] = IF 1..k = {} THEN 0 ELSE Width[r[Max(1..k)]] + g[(1..k) \ {Max(1..k)}]
  <2>1. 1..k \in SUBSET (1..n) /\ 1..k \in SUBSET (1..m)
    BY <1>3
  <2> QED BY <2>1 DEF Widths
<1>5. 1..k # {}
  BY <1>3, <1>4
<1>6. Max(1..k) = k /\ (1..k) \ {k} = 1..(k - 1) /\ k \in 1..n
  <2>1. k \in Nat /\ k # 0 /\ k \in 1..n
    BY <1>3, <1>5
  <2> QED BY <2>1, MaxUpTo
<1>7. k - 1 \in 0..n /\ k - 1 \notin Bad
  <2> HIDE DEF Bad
  <2>1. k - 1 \in 0..n /\ ~(k <= k - 1)
    BY <1>6
  <2> QED BY <1>2, <2>1
<1>8. f[1..(k - 1)] = g[1..(k - 1)]
  BY <1>7
<1> QED BY <1>3, <1>4, <1>5, <1>6, <1>8

(* A position is the sum of what comes before it. *)
LEMMA OffsetNext ==
  ASSUME NEW t \in Seq(Word)
  PROVE  /\ Offset(t, 1) = 0
         /\ \A k \in 1..Len(t) : Offset(t, k + 1) = Width[t[k]] + Offset(t, k)
<1>w. \A k \in 1..Len(t) : Width[t[k]] \in Nat
  BY MentionAssumption
<1>1. ASSUME NEW n \in 0..Len(t)
      PROVE  /\ DOMAIN SubSeq(t, 1, n) = 1..n
             /\ \A k \in 1..n : SubSeq(t, 1, n)[k] = t[k]
             /\ \E f : /\ Widths(f, SubSeq(t, 1, n))
                       /\ Offset(t, n + 1) = f[1..n]
  <2>0. n \in Nat /\ n <= Len(t) /\ (n + 1) - 1 = n
    OBVIOUS
  <2>1. DOMAIN SubSeq(t, 1, n) = 1..n /\ \A k \in 1..n : SubSeq(t, 1, n)[k] = t[k]
    BY <2>0
  <2>2. PICK s : s = SubSeq(t, 1, n)
    OBVIOUS
  <2>3. PICK f : f = CHOOSE h : Widths(h, s)
    OBVIOUS
  <2>4. Widths(f, s)
    <3>1. \A k \in 1..n : Width[s[k]] \in Nat
      BY <1>w, <2>0, <2>1, <2>2
    <3> QED BY <2>0, <2>1, <2>2, <2>3, <3>1, WidthsExist
  <2>5. Offset(t, n + 1) = f[1..n]
    BY <2>0, <2>1, <2>2, <2>3, OffsetIs
  <2> QED BY <2>1, <2>2, <2>4, <2>5
<1>2. Offset(t, 1) = 0
  <2>1. 0 \in 0..Len(t) /\ 0 + 1 = 1 /\ 1..0 = {}
    OBVIOUS
  <2>2. PICK f : Widths(f, SubSeq(t, 1, 0)) /\ Offset(t, 1) = f[{}]
    BY <1>1, <2>1
  <2>3. f[{}] = 0
    BY <2>2 DEF Widths
  <2> QED BY <2>2, <2>3
<1>3. ASSUME NEW k \in 1..Len(t)
      PROVE  Offset(t, k + 1) = Width[t[k]] + Offset(t, k)
  <2>0. k \in 0..Len(t) /\ k - 1 \in 0..Len(t) /\ (k - 1) + 1 = k /\ k - 1 \in Nat /\ k \in Nat /\ k - 1 <= k /\ k # 0
        /\ k \in 1..k
    OBVIOUS
  <2>1. PICK s : s = SubSeq(t, 1, k)
    OBVIOUS
  <2>2. PICK r : r = SubSeq(t, 1, k - 1)
    OBVIOUS
  <2>3. PICK f : Widths(f, s) /\ Offset(t, k + 1) = f[1..k]
    BY <1>1, <2>0, <2>1
  <2>4. PICK g : Widths(g, r) /\ Offset(t, k) = g[1..(k - 1)]
    BY <1>1, <2>0, <2>2
  <2>5. /\ DOMAIN s = 1..k /\ DOMAIN r = 1..(k - 1) /\ s[k] = t[k]
        /\ \A j \in 1..(k - 1) : s[j] = r[j]
    <3>1. \A j \in 1..(k - 1) : j \in 1..k
      BY <2>0
    <3> QED BY <1>1, <2>0, <2>1, <2>2, <3>1
  <2>6. f[1..(k - 1)] = g[1..(k - 1)]
    BY <2>0, <2>3, <2>4, <2>5, WidthsAgree
  <2>7. f[1..k] = Width[s[Max(1..k)]] + f[(1..k) \ {Max(1..k)}]
    <3>1. 1..k \in SUBSET DOMAIN s /\ 1..k # {}
      BY <2>0, <2>5
    <3> QED BY <2>3, <3>1 DEF Widths
  <2>8. Max(1..k) = k /\ (1..k) \ {k} = 1..(k - 1)
    BY <2>0, MaxUpTo
  <2> QED BY <2>3, <2>4, <2>5, <2>6, <2>7, <2>8
<1> QED BY <1>2, <1>3

(* Positions grow with the words: no two words are at one, and none is in
   another. *)
LEMMA OffsetGrows ==
  ASSUME NEW t \in Seq(Word)
  PROVE  /\ \A k \in 1..Len(t) : Offset(t, k) \in Nat
         /\ \A j, k \in 1..Len(t) : j < k => Offset(t, j) + Width[t[j]] <= Offset(t, k)
<1>w. \A k \in 1..Len(t) : Width[t[k]] \in Nat
  BY MentionAssumption
<1>l. Len(t) \in Nat
  OBVIOUS
<1>n. Offset(t, 1) = 0 /\ \A k \in 1..Len(t) : Offset(t, k + 1) = Width[t[k]] + Offset(t, k)
  BY OffsetNext
<1> DEFINE Grown(k) == /\ Offset(t, k) \in Nat
                       /\ \A j \in 1..Len(t) : j < k => Offset(t, j) + Width[t[j]] <= Offset(t, k)
           Bad == {k \in 1..Len(t) : ~Grown(k)}
<1>1. SUFFICES ASSUME Bad # {} PROVE FALSE
  OBVIOUS
<1>2. PICK k \in Bad : \A j \in Bad : k <= j
  <2>1. Bad \in SUBSET Nat
    OBVIOUS
  <2> QED BY <1>1, <2>1, LeastNumber
<1>3. k \in 1..Len(t) /\ ~Grown(k)
  BY <1>2
<1>4. k # 1
  BY <1>n, <1>3
<1>5. k - 1 \in 1..Len(t) /\ (k - 1) + 1 = k /\ k - 1 \notin Bad
  <2> HIDE DEF Bad
  <2>1. k - 1 \in 1..Len(t) /\ (k - 1) + 1 = k /\ ~(k <= k - 1)
    BY <1>l, <1>3, <1>4
  <2> QED BY <1>2, <2>1
<1>6. Grown(k - 1)
  BY <1>5
<1>7. Offset(t, k) = Width[t[k - 1]] + Offset(t, k - 1) /\ Width[t[k - 1]] \in Nat
  BY <1>n, <1>w, <1>5
<1>8. Offset(t, k) \in Nat
  BY <1>6, <1>7
<1>9. ASSUME NEW j \in 1..Len(t), j < k
      PROVE  Offset(t, j) + Width[t[j]] <= Offset(t, k)
  <2>1. CASE j = k - 1
    BY <1>6, <1>7, <2>1
  <2>2. CASE j # k - 1
    <3>1. j < k - 1
      BY <1>3, <1>9, <2>2
    <3>2. Offset(t, j) + Width[t[j]] <= Offset(t, k - 1)
      BY <1>6, <3>1
    <3>3. Offset(t, j) \in Nat
      <4>1. j \notin Bad
        <5> HIDE DEF Bad
        <5> QED BY <1>2, <1>3, <1>9
      <4> QED BY <4>1
    <3> QED BY <1>w, <1>6, <1>7, <3>2, <3>3
  <2> QED BY <2>1, <2>2
<1> QED BY <1>3, <1>8, <1>9

(* The word at a position that spells the mention is the only one there. *)
LEMMA OneSpelling ==
  ASSUME NEW t \in Seq(Word), NEW at, NEW k \in Spelling(t, at),
         NEW j \in DOMAIN t, Offset(t, j) = at
  PROVE  k = j
<1>1. /\ k \in 1..Len(t) /\ j \in 1..Len(t) /\ Len(t) \in Nat
      /\ Offset(t, j) \in Nat /\ Offset(t, k) \in Nat
  BY OffsetGrows DEF Spelling
<1>2. /\ j < k => Offset(t, j) + Width[t[j]] <= Offset(t, k)
      /\ k < j => Offset(t, k) + Width[t[k]] <= Offset(t, j)
  BY <1>1, OffsetGrows
<1>3. /\ Width[t[j]] \in Nat \ {0} /\ Width[t[k]] \in Nat \ {0}
  BY <1>1, MentionAssumption
<1>4. t[k] = "linked" => Width[t[k]] > Opening
  <2>1. "mention" \in Word /\ "linked" \in Word
    BY DEF Word
  <2> QED BY <2>1, MentionAssumption DEF Opening
<1>5. CASE Offset(t, k) = at
  BY <1>1, <1>2, <1>3, <1>5
<1>6. CASE t[k] = "linked" /\ Offset(t, k) + Opening = at
  BY <1>1, <1>2, <1>3, <1>4, <1>6 DEF Opening
<1> QED BY <1>5, <1>6 DEF Spelling

(* While a link is made nothing is queued for the note once it was flushed, and
   what the call has read is what the file has. *)
ChosenInv ==
  /\ bytes_of \in Seq(Word) /\ stale \in BOOLEAN
  /\ \A c \in Call :
       /\ link[c].pc \in {"flushed", "read"} => ~stale
       /\ link[c].pc = "read" => link[c].read = bytes_of
       /\ link[c].of \in Seq(Word)
  /\ \A f \in fetches : f.of # Unserved => f.of \in Seq(Word)
  /\ list # NoList => list = [of |-> list.of, at |-> list.at] /\ list.of \in Seq(Word)

(* Texts that agree up to a word have it at one position. *)
LEMMA OffsetOfPrefix ==
  ASSUME NEW t \in Seq(Word), NEW u \in Seq(Word), NEW j \in DOMAIN t, j \in DOMAIN u,
         SubSeq(t, 1, j) = SubSeq(u, 1, j)
  PROVE  Offset(t, j) = Offset(u, j)
<1>1. /\ j \in 1..Len(t) /\ j \in 1..Len(u) /\ Len(t) \in Nat /\ Len(u) \in Nat
      /\ j \in Nat /\ j - 1 \in Nat
  OBVIOUS
<1>2. /\ SubSeq(t, 1, j) = [i \in 1..j |-> t[i]] /\ SubSeq(u, 1, j) = [i \in 1..j |-> u[i]]
      /\ SubSeq(t, 1, j - 1) = [i \in 1..(j - 1) |-> t[i]]
      /\ SubSeq(u, 1, j - 1) = [i \in 1..(j - 1) |-> u[i]]
  BY <1>1
<1>3. \A i \in 1..(j - 1) : i \in 1..j /\ t[i] = u[i]
  <2>1. \A i \in 1..j : t[i] = u[i]
    BY <1>2
  <2>2. \A n \in Nat : \A i \in 1..(n - 1) : i \in 1..n
    OBVIOUS
  <2>3. \A i \in 1..(j - 1) : i \in 1..j
    BY Zenon, <1>1, <2>2
  <2> QED BY Zenon, <2>1, <2>3
<1>4. SubSeq(t, 1, j - 1) = SubSeq(u, 1, j - 1)
  BY <1>2, <1>3
<1> QED BY <1>4 DEF Offset

LEMMA TextsOfWords ==
  ASSUME NEW t \in Seq(Word)
  PROVE  /\ Materialized(t) \in Seq(Word)
         /\ \A k : linked_at(t, k) \in Seq(Word)
         /\ \A at : mint_block_id(t, at) \in Seq(Word)
         /\ <<"word">> \o t \in Seq(Word)
         /\ t # <<>> => Tail(t) \in Seq(Word)
<1>1. {"mention", "linked", "nested", "new", "word", "end^id"} \subseteq Word
  BY DEF Word
<1>2. Materialized(t) \in Seq(Word)
  BY <1>1 DEF Materialized
<1>3. ASSUME NEW k, NEW w \in Word PROVE [t EXCEPT ![k] = w] \in Seq(Word)
  <2>1. t \in [1..Len(t) -> Word] /\ Len(t) \in Nat
    OBVIOUS
  <2>2. [t EXCEPT ![k] = w] \in [1..Len(t) -> Word]
    BY <2>1
  <2> QED BY <2>1, <2>2
<1>4. \A k : linked_at(t, k) \in Seq(Word)
  BY <1>1, <1>3 DEF linked_at
<1>5. \A at : mint_block_id(t, at) \in Seq(Word)
  BY <1>1, <1>3 DEF mint_block_id
<1> QED BY <1>1, <1>2, <1>4, <1>5

(* A link is put where the text says what it said when the mention was listed,
   and a reader sees nothing else change: where nobody changes the note while
   link_mention runs and one link is made at a time. *)
THEOREM LinkIsWhereListed ==
  ASSUME Unhurried, \A c, d \in Call : c = d
  PROVE  MentionSpec => LinksWhatWasChosen
<1> DEFINE Inv == PanelInv /\ ChosenInv
<1>1. MentionInit => ChosenInv
  <2> SUFFICES ASSUME MentionInit PROVE ChosenInv
    OBVIOUS
  <2>1. bytes_of \in Seq(Word) /\ stale \in BOOLEAN /\ list = NoList
    BY MentionAssumption DEF MentionInit
  <2>2. \A c \in Call : link[c].pc = "idle" /\ link[c].of \in Seq(Word)
    <3>1. <<>> \in Seq(Word)
      OBVIOUS
    <3>2. NoLink.pc = "idle" /\ NoLink.of = <<>>
      BY DEF NoLink
    <3> QED BY <3>1, <3>2 DEF MentionInit
  <2>3. \A f \in fetches : f.of = Unserved
    BY DEF MentionInit
  <2> QED BY <2>1, <2>2, <2>3 DEF ChosenInv
<1>2. PanelInv /\ PanelInv' /\ ChosenInv /\ [MentionNext]_mentionVars => ChosenInv'
  <2> SUFFICES ASSUME PanelInv, ChosenInv, [MentionNext]_mentionVars PROVE ChosenInv'
    OBVIOUS
  <2>t. /\ bytes_of \in Seq(Word) /\ stale \in BOOLEAN /\ OnScreen \in Seq(Word)
        /\ link = [c \in Call |-> link[c]] /\ \A c \in Call : IsCall(link[c])
    BY TextsOfWords DEF PanelInv, PanelTypes, ChosenInv, OnScreen
  <2>1. CASE UNCHANGED <<bytes_of, stale, link, fetches, list>>
    BY <2>1 DEF ChosenInv
  <2>2. CASE /\ NoLinkUnderWay /\ UNCHANGED <<link, fetches, list>>
             /\ bytes_of' \in Seq(Word) /\ stale' \in BOOLEAN
    BY <2>2 DEF ChosenInv, NoLinkUnderWay
  <2>3. ASSUME NEW c \in Call, handleLink(c) PROVE ChosenInv'
    <3>1. PICK p : link' = [link EXCEPT ![c] = [NoLink EXCEPT !.pc = "asked", !.my = token,
                                                  !.at = p, !.of = list.of]]
      BY <2>3 DEF handleLink
    <3> QED BY <2>3, <2>t, <3>1 DEF handleLink, ChosenInv, NoLink
  <2>4. ASSUME NEW c \in Call, flush_target_for_link_mention(c) PROVE ChosenInv'
    <3>1. link'[c].pc = "flushed"
      BY <2>4, <2>t DEF flush_target_for_link_mention, IsCall
    <3>2. \A d \in Call : link'[d].pc = "flushed"
      BY <3>1
    <3>3. link'[c].of = link[c].of
      <4>1. PICK l : l = link[c]
        OBVIOUS
      <4>2. l = [pc |-> l.pc, my |-> l.my, at |-> l.at, of |-> l.of, read |-> l.read]
        BY <2>t, <4>1 DEF IsCall
      <4>3. link'[c] = [l EXCEPT !.pc = "flushed"]
        BY <2>4, <2>t, <4>1 DEF flush_target_for_link_mention
      <4> QED BY <4>1, <4>2, <4>3
    <3>4. \A d \in Call : link'[d].of \in Seq(Word)
      BY <3>3 DEF ChosenInv
    <3>5. bytes_of' \in Seq(Word) /\ ~stale' /\ stale' \in BOOLEAN
          /\ UNCHANGED <<fetches, list>>
      BY <2>4, <2>t DEF flush_target_for_link_mention
    <3> QED BY <3>2, <3>4, <3>5 DEF ChosenInv
  <2>5. ASSUME NEW c \in Call, LinkReads(c) PROVE ChosenInv'
    <3>1. \/ link'[c] = NoLink
          \/ link'[c] = [link[c] EXCEPT !.pc = "read", !.read = bytes_of]
      BY <2>5, <2>t DEF LinkReads
    <3>2. /\ link'[c].pc = "idle" \/ (link'[c].pc = "read" /\ link'[c].read = bytes_of)
          /\ link'[c].of \in Seq(Word)
      <4>1. PICK l : l = link[c]
        OBVIOUS
      <4>2. l = [pc |-> l.pc, my |-> l.my, at |-> l.at, of |-> l.of, read |-> l.read]
        BY <2>t, <4>1 DEF IsCall
      <4>3. CASE link'[c] = NoLink
        BY <4>3 DEF NoLink
      <4>4. CASE link'[c] = [l EXCEPT !.pc = "read", !.read = bytes_of]
        <5>1. l.of \in Seq(Word)
          BY <4>1 DEF ChosenInv
        <5> QED BY <4>2, <4>4, <5>1
      <4> QED BY <3>1, <4>1, <4>3, <4>4
    <3> QED BY <2>5, <2>t, <3>2 DEF LinkReads, ChosenInv
  <2>6. ASSUME NEW c \in Call, LinkWrites(c) PROVE ChosenInv'
    <3>1. link'[c].pc = "written"
      BY <2>6, <2>t DEF LinkWrites, IsCall
    <3>2. \A d \in Call : link'[d].pc = "written"
      BY <3>1
    <3>3. bytes_of' \in Seq(Word)
      BY <2>6, <2>t, TextsOfWords DEF LinkWrites, ChosenInv
    <3> QED BY <2>6, <2>t, <3>2, <3>3 DEF LinkWrites, ChosenInv
  <2>7. ASSUME NEW c \in Call, mention_linked(c) PROVE ChosenInv'
    <3>1. link'[c].pc = "idle"
      BY <2>7, <2>t DEF mention_linked, NoLink
    <3>2. \A d \in Call : link'[d].pc = "idle"
      BY <3>1
    <3>3. \A d \in Call : link'[d].of \in Seq(Word)
      <4>1. link'[c].of = <<>>
        BY <2>7, <2>t DEF mention_linked, NoLink
      <4>2. <<>> \in Seq(Word)
        OBVIOUS
      <4> QED BY <4>1, <4>2
    <3>4. list' # NoList => list' = [of |-> list'.of, at |-> list'.at] /\ list'.of \in Seq(Word)
      <4>1. CASE list' = list
        BY <4>1 DEF ChosenInv
      <4>2. CASE list # NoList /\ list' = [list EXCEPT !.at = {p \in @ : p < link[c].at}]
        <5>1. PICK l : l = list
          OBVIOUS
        <5>2. l = [of |-> l.of, at |-> l.at] /\ l.of \in Seq(Word)
          BY <4>2, <5>1 DEF ChosenInv
        <5>3. PICK A : A = {p \in l.at : p < link[c].at}
          OBVIOUS
        <5>4. list' = [l EXCEPT !.at = A]
          BY <4>2, <5>1, <5>3
        <5> QED BY <5>2, <5>4
      <4> QED BY <2>7, <4>1, <4>2 DEF mention_linked
    <3>5. UNCHANGED <<bytes_of, stale, fetches>>
      BY <2>7 DEF mention_linked
    <3> QED BY <3>2, <3>3, <3>4, <3>5 DEF ChosenInv
  <2>8. ASSUME NEW f \in fetches,
               get_unlinked_mentions(f) \/ fetch_success(f) \/ fetch_error(f)
        PROVE  ChosenInv'
    <3>1. CASE get_unlinked_mentions(f)
      <4>1. [f EXCEPT !.of = OnScreen].of = OnScreen
        BY DEF PanelInv, PanelTypes
      <4> QED BY <2>t, <3>1, <4>1 DEF get_unlinked_mentions, ChosenInv
    <3>2. CASE fetch_success(f)
      <4>1. f.of \in Seq(Word)
        BY <3>2 DEF fetch_success, ChosenInv
      <4> QED BY <3>2, <4>1 DEF fetch_success, ChosenInv
    <3>3. CASE fetch_error(f)
      BY <3>3 DEF fetch_error, ChosenInv
    <3> QED BY <2>8, <3>1, <3>2, <3>3
  <2>9. ASSUME NEW k \in DOMAIN bytes_of, create_block_ref(k) PROVE ChosenInv'
    BY <2>2, <2>9, <2>t, TextsOfWords DEF create_block_ref, Peace
  <2>10. CASE RenameOther
    BY <2>2, <2>10, <2>t DEF RenameOther, Peace
  <2>11. CASE FlushNote
    BY <2>2, <2>11, <2>t DEF FlushNote, Peace
  <2>12. CASE EditNote
    BY <2>2, <2>12, <2>t, TextsOfWords DEF EditNote, Peace
  <2>13. CASE rightSidebarRefresh
    BY <2>13 DEF rightSidebarRefresh, ChosenInv
  <2>14. CASE UNCHANGED mentionVars
    BY <2>1, <2>14 DEF mentionVars
  <2> QED BY <2>3, <2>4, <2>5, <2>6, <2>7, <2>8, <2>9, <2>10, <2>11, <2>12, <2>13, <2>14
          DEF MentionNext
<1>3. ASSUME ChosenInv, NEW c \in Call, LinkWrites(c)
      PROVE  \E k \in DOMAIN OnScreen :
               /\ OnScreen' = linked_at(OnScreen, k)
               /\ \A j \in DOMAIN link[c].of :
                    /\ Offset(link[c].of, j) = link[c].at
                    /\ j \in DOMAIN OnScreen
                    /\ SubSeq(OnScreen, 1, j) = SubSeq(link[c].of, 1, j)
                    => k = j
  <2>1. /\ ~stale /\ stale' = stale /\ link[c].read = bytes_of /\ OnScreen = bytes_of
        /\ bytes_of \in Seq(Word)
    BY <1>3 DEF LinkWrites, ChosenInv, OnScreen
  <2>2. PICK k \in Spelling(bytes_of, link[c].at) : bytes_of' = linked_at(bytes_of, k)
    BY <1>3, <2>1 DEF LinkWrites
  <2>3. OnScreen' = linked_at(OnScreen, k) /\ k \in DOMAIN OnScreen
    BY <2>1, <2>2 DEF OnScreen, Spelling
  <2>4. ASSUME NEW j \in DOMAIN link[c].of, Offset(link[c].of, j) = link[c].at,
               j \in DOMAIN OnScreen,
               SubSeq(OnScreen, 1, j) = SubSeq(link[c].of, 1, j)
        PROVE  k = j
    <3>1. Offset(bytes_of, j) = link[c].at
      BY <1>3, <2>1, <2>4, OffsetOfPrefix DEF ChosenInv
    <3> QED BY <2>1, <2>2, <2>4, <3>1, OneSpelling
  <2> QED BY <2>3, <2>4
<1>4. ChosenInv /\ [MentionNext]_mentionVars =>
        [\A c \in Call : LinkWrites(c) =>
           \E k \in DOMAIN OnScreen :
             /\ OnScreen' = linked_at(OnScreen, k)
             /\ \A j \in DOMAIN link[c].of :
                  /\ Offset(link[c].of, j) = link[c].at
                  /\ j \in DOMAIN OnScreen
                  /\ SubSeq(OnScreen, 1, j) = SubSeq(link[c].of, 1, j)
                  => k = j]_mentionVars
  BY <1>3
<1> QED BY <1>1, <1>2, <1>4, PanelKept, PTL DEF MentionSpec, LinksWhatWasChosen

===============================================================================
