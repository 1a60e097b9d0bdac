----------------------------- MODULE GraphClient -----------------------------
(***************************************************************************)
(* vgraph/web/static/js/graph.js: the topology viewer in the browser.     *)
(* Its handlers run one at a time on the page's event loop, but every     *)
(* await lets other handlers and other responses run: the form handlers   *)
(* await their POST and then call loadGraph() without awaiting it, so     *)
(* several GET /api/graph requests may be in flight, and the backend's    *)
(* answers come back in any order.                                         *)
(*                                                                         *)
(* The backend is not part of this repository; it is modelled from the   *)
(* spec's description as a graph that requests change and read.  A graph  *)
(* is a record [node, edge] as in the Graphs module; weights, names and    *)
(* the force layout are display data and are left out.                     *)
(***************************************************************************)
EXTENDS Naturals, Sequences, FiniteSets, Graphs

CONSTANTS
  Ids,         \* node ids a user may type
  Server0,     \* the backend's graph when the page opens
  MaxSubmits   \* bound on the forms the user submits

ASSUME /\ IsDirectedGraph(Server0) /\ Server0.node \subseteq Ids
       /\ MaxSubmits \in Nat

NoGraph == [node |-> {}, edge |-> {}]
NoHighlight == [node |-> {}, edge |-> {}]
NoPath == <<>>                          \* a response without data.nodes
Null == "null"

Graph == [node : SUBSET Ids, edge : SUBSET (Ids \X Ids)]

VARIABLES
  server,           \* the backend's graph
  page,             \* "opening" until the load event has run initGraph
  loaded,           \* nodes and links hold D3 selections (not the initial [])
  drawn,            \* the graph of the elements in the svg
  hl,               \* the nodes and edges drawn in red
  highlightedPath,  \* graph.js's highlightedPath
  net,              \* requests sent, and responses not yet handled
  sent,             \* requests sent so far (ids)
  submits           \* forms submitted so far

vars == <<server, page, loaded, drawn, hl, highlightedPath, net, sent, submits>>

TypeOK ==
  /\ server \in Graph
  /\ page \in {"opening", "ready"}
  /\ loaded \in BOOLEAN
  /\ drawn \in Graph
  /\ hl \in Graph
  /\ highlightedPath \in {Null} \cup Seq(Ids)
  /\ \A m \in net : m.stage \in {"sent", "answered"}
  /\ sent \in Nat /\ submits \in 0..MaxSubmits

Init ==
  /\ server = Server0
  /\ page = "opening"
  /\ loaded = FALSE
  /\ drawn = NoGraph
  /\ hl = NoHighlight
  /\ highlightedPath = Null
  /\ net = {}
  /\ sent = 0
  /\ submits = 0

-----------------------------------------------------------------------------
(* fetch(): the request goes on the wire.                                  *)
Send(r) == [r EXCEPT !.id = sent] @@ [stage |-> "sent"]

(* loadGraph(): fetch('/api/graph'); the rest runs when it is answered.    *)
LoadGraph == net' = net \cup {Send([id |-> 0, kind |-> "graph"])}

(* The load event: initGraph() creates the svg and the simulation, then    *)
(* the first loadGraph().                                                  *)
PageLoad ==
  /\ page = "opening"
  /\ page' = "ready"
  /\ LoadGraph
  /\ sent' = sent + 1
  /\ UNCHANGED <<server, loaded, drawn, hl, highlightedPath, submits>>

(* A submit handler up to its await: the node, edge or path form.          *)
Submit(r) ==
  /\ submits < MaxSubmits
  /\ net' = net \cup {Send(r)}
  /\ sent' = sent + 1
  /\ submits' = submits + 1
  /\ UNCHANGED <<server, page, loaded, drawn, hl, highlightedPath>>

SubmitNode == \E n \in Ids : Submit([id |-> 0, kind |-> "node", n |-> n])
SubmitEdge == \E a, b \in Ids : Submit([id |-> 0, kind |-> "edge", from |-> a, to |-> b])
SubmitPath == \E a, b \in Ids : Submit([id |-> 0, kind |-> "path", from |-> a, to |-> b])

(* The backend handles one request: a node or an edge between existing     *)
(* nodes is added; a graph request is answered with the graph as it is     *)
(* now; a path request with some path of the graph now, or none.           *)
AddToServer(m) ==
  CASE m.kind = "node" -> [server EXCEPT !.node = @ \cup {m.n}]
    [] m.kind = "edge" /\ {m.from, m.to} \subseteq server.node ->
                          [server EXCEPT !.edge = @ \cup {<<m.from, m.to>>}]
    [] OTHER -> server

PathsBetween(G, a, b) ==
  {p \in BoundedSeq(G.node, Cardinality(G.node)) :
     /\ p # <<>> /\ p[1] = a /\ p[Len(p)] = b /\ IsInjective(p)
     /\ \A i \in 1..(Len(p) - 1) : <<p[i], p[i + 1]>> \in G.edge}

Serve(m) ==
  /\ m \in net /\ m.stage = "sent"
  /\ server' = AddToServer(m)
  /\ \E body \in CASE m.kind = "graph" -> {server}
                   [] m.kind = "path"  -> PathsBetween(server, m.from, m.to) \cup {NoPath}
                   [] OTHER            -> {NoPath} :
       net' = (net \ {m}) \cup {[m EXCEPT !.stage = "answered"] @@ [body |-> body]}
  /\ UNCHANGED <<page, loaded, drawn, hl, highlightedPath, sent, submits>>

(* Bug variant: the form handler does not reload after its POST           *)
(* (EveryAddedNodeShown must catch it).                                    *)
PostDoneNoReload(m) ==
  /\ m \in net /\ m.stage = "answered" /\ m.kind \in {"node", "edge"}
  /\ net' = net \ {m}
  /\ UNCHANGED <<server, page, loaded, drawn, hl, highlightedPath, sent, submits>>

(* A node or edge form resumes after its POST: loadGraph(), not awaited.   *)
PostDone(m) ==
  /\ m \in net /\ m.stage = "answered" /\ m.kind \in {"node", "edge"}
  /\ net' = (net \ {m}) \cup {Send([id |-> 0, kind |-> "graph"])}
  /\ sent' = sent + 1
  /\ UNCHANGED <<server, page, loaded, drawn, hl, highlightedPath, submits>>

(* highlightPath(pathNodes) on the drawn elements: every circle is reset,  *)
(* then those whose id is on the path and the links joining consecutive    *)
(* ids turn red.  Before the first load nodes is [], which is truthy, and  *)
(* nodes.selectAll throws: the caller's catch logs it and nothing changes. *)
HighlightOf(G, p) ==
  [node |-> G.node \cap {p[i] : i \in DOMAIN p},
   edge |-> {e \in G.edge : \E i \in 1..(Len(p) - 1) : e = <<p[i], p[i + 1]>>}]

(* Bug variant: the Response is drawn without awaiting response.json()    *)
(* (TypeOK must catch it).                                                 *)
GraphDoneUnparsed(m) ==
  /\ m \in net /\ m.stage = "answered" /\ m.kind = "graph"
  /\ net' = net \ {m}
  /\ IF page = "ready"
       THEN /\ loaded' = TRUE
            /\ drawn' = m
            /\ hl' = NoHighlight
            /\ highlightedPath' = Null
       ELSE UNCHANGED <<loaded, drawn, hl, highlightedPath>>
  /\ UNCHANGED <<server, page, sent, submits>>

(* updateGraph(data): every element, highlight included, is removed and   *)
(* the graph drawn anew; the highlightedPath it would re-apply is never    *)
(* set by anything.                                                        *)
UpdateGraph(G) ==
  /\ loaded' = TRUE
  /\ drawn' = G
  /\ hl' = IF highlightedPath # Null THEN HighlightOf(G, highlightedPath)
                                     ELSE NoHighlight

(* loadGraph() resumes with the graph: updateGraph, then                   *)
(* highlightedPath = null.  Before initGraph, svg is undefined and         *)
(* updateGraph throws at once; the catch logs it.                          *)
GraphDone(m) ==
  /\ m \in net /\ m.stage = "answered" /\ m.kind = "graph"
  /\ net' = net \ {m}
  /\ IF page = "ready"
       THEN /\ UpdateGraph(m.body)
            /\ highlightedPath' = Null
       ELSE UNCHANGED <<loaded, drawn, hl, highlightedPath>>
  /\ UNCHANGED <<server, page, sent, submits>>

(* The path form resumes with the answer: if data.nodes, highlightPath.    *)
PathDone(m) ==
  /\ m \in net /\ m.stage = "answered" /\ m.kind = "path"
  /\ net' = net \ {m}
  /\ hl' = IF m.body # NoPath /\ loaded THEN HighlightOf(drawn, m.body) ELSE hl
  /\ UNCHANGED <<server, page, loaded, drawn, highlightedPath, sent, submits>>

(* Every request is answered and the user submits nothing more.           *)
Idle ==
  /\ page = "ready" /\ net = {} /\ submits = MaxSubmits
  /\ UNCHANGED vars

Next ==
  \/ PageLoad
  \/ SubmitNode \/ SubmitEdge \/ SubmitPath
  \/ \E m \in net : Serve(m) \/ PostDone(m) \/ GraphDone(m) \/ PathDone(m)
  \/ Idle

(* The backend answers every request, and the page's event loop runs      *)
(* every handler whose response has arrived and fires the load event.      *)
Fairness ==
  /\ WF_vars(PageLoad)
  /\ WF_vars(\E m \in net : Serve(m))
  /\ WF_vars(\E m \in net : PostDone(m) \/ GraphDone(m) \/ PathDone(m))

Spec == Init /\ [][Next]_vars /\ Fairness

-----------------------------------------------------------------------------
(* A node the backend has (added by the node form, or there from the      *)
(* start) is drawn at some point, whether the page loaded before or after *)
(* the form was submitted: each submission's own reload follows its POST. *)
(* (It need not stay drawn: a stale reload may draw over it.)              *)
EveryAddedNodeShown ==
  \A n \in Ids : <>(n \in server.node) => <>(n \in drawn.node)

(* Once every request has been answered and handled, the screen shows the *)
(* backend's graph: the last change made is drawn.                         *)
DrawnGraphCurrent ==
  (page = "ready" /\ net = {}) => drawn = server

(* updateGraph's comment (graph.js line 120): "if there is a highlighted   *)
(* path, re-apply the highlight".  So a reload must keep red whatever of  *)
(* the highlighted path is still drawn after it.  highlightPath never     *)
(* stores its argument, and loadGraph sets highlightedPath to null.        *)
HighlightSurvivesReload ==
  [][(\E m \in net \ net' : m.kind = "graph" /\ m.stage = "answered") =>
       /\ hl.node \cap drawn'.node \subseteq hl'.node
       /\ hl.edge \cap drawn'.edge \subseteq hl'.edge]_vars

=============================================================================
