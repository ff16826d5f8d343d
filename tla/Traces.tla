------------------------------- MODULE Traces -------------------------------
(***************************************************************************)
(* The graph of one investigation: traces, each one JSON value, edited by  *)
(* requests that read the row, change the value and save the row           *)
(* (TracesService), and by a browser that keeps a copy, auto-saves it one  *)
(* second after the last edit and loads it again when an agent has written *)
(* (useInvestigationLoader, useInvestigation). Traces are added and deleted *)
(* by requests of their own, which the auto-save knows nothing of.          *)
(*                                                                         *)
(* Nothing is locked: of two edits that overlap the later save wins. save() *)
(* writes the value it read; it looks for the row first, and inserts it when *)
(* it was removed (or updates nothing, when it is removed only then).       *)
(***************************************************************************)
EXTENDS Naturals, FiniteSets, Sequences

CONSTANTS Traces, Gone,    \* trace ids; no such row
          Editors,         \* requests of agents, scripts and other browsers
          Transfers,       \* [tx, from, to, ledger]: a transaction row; ledger if it
                           \* carries its position (Bitcoin, Solana)
          Given,           \* those that have edges otherwise than by an import here:
                           \* from before, or drawn by hand
          MaxEdits,        \* bound: edits, additions and deletions in a behaviour
          MaxLoads,        \* bound: loads of the browser in flight
          MaxSaves         \* bound: auto-saves of the browser under way

VARIABLES
  data,    \* trace.data: [name, nodes, edges], or Gone
  unborn,  \* ids that no trace has had yet
  minted,  \* ids of nodes and edges, and names, handed out so far
  edits,   \* edits so far
  op,      \* the request of each editor, with what it has read
  view,    \* the browser's investigation, Gone before the first load
  past,    \* its undo stack: [view, fresh]
  future,  \* its redo stack
  fresh,   \* investigation === serverSnapshotRef.current
  timer,   \* what the pending timeout will save, or Gone
  loops,   \* auto-saves under way: [left, found, snap]
  loads,   \* loads under way: what the server has answered
  created, \* traces the browser has added, the answer under way: [trace, nodes]
  deleted, \* traces it has deleted, the request under way
  excuse   \* history: why the browser may differ from the server, if it does

history == <<past, future>>
shown   == <<view, history, fresh, timer>>
pending == <<loops, loads, created, deleted>>
browser == <<shown, pending>>
vars    == <<data, unborn, minted, edits, op, browser, excuse>>

Empty   == [name |-> 0, nodes |-> {}, edges |-> {}]
NoEdit  == [kind |-> "none", at |-> "none", trace |-> Gone, own |-> Gone, others |-> Gone]
Kinds   == {"import", "edit"}
Present(d) == {t \in Traces : d[t] # Gone}

Addrs == {r.from : r \in Transfers} \cup {r.to : r \in Transfers}
\* Whether the service added a node or an edge, comparing it with those of the trace,
\* or a user or caller wrote it, who may write anything.
Sources == {"service", "hand"}
TraceValues == [name  : Nat,
                nodes : SUBSET [id : Nat, addr : Addrs, by : Sources],
                edges : SUBSET [id : Nat, transfer : Transfers, from : Nat, to : Nat, by : Sources]]

ASSUME BoundsAssumption    == MaxEdits \in Nat
ASSUME TransfersAssumption == Given \subseteq Transfers /\ \A r \in Transfers : r.ledger \in BOOLEAN
ASSUME GoneAssumption      == Gone \notin TraceValues \cup [Traces -> TraceValues \cup {Gone}]

Nodes == [id : 1..minted, addr : Addrs, by : Sources]
Edges == [id : 1..minted, transfer : Transfers, from : 1..minted, to : 1..minted, by : Sources]
IsTrace(d) == d = Gone \/ (d.name \in 0..minted /\ d.nodes \subseteq Nodes /\ d.edges \subseteq Edges)
IsView(v)  == v = Gone \/ (DOMAIN v = Traces /\ \A t \in Traces : IsTrace(v[t]))

TypeOK ==
  /\ IsView(data) /\ IsView(view) /\ IsView(timer) /\ \A l \in loads : IsView(l)
  /\ unborn \subseteq Traces /\ minted \in Nat /\ edits \in 0..MaxEdits
  /\ \A e \in Editors : /\ op[e].kind \in Kinds \cup {"none"}
                        /\ op[e].at \in {"none", "siblings", "save"}
                        /\ IsTrace(op[e].own) /\ IsView(op[e].others)
  /\ \A i \in DOMAIN past : IsView(past[i].view) /\ past[i].fresh \in BOOLEAN
  /\ \A i \in DOMAIN future : IsView(future[i])
  /\ fresh \in BOOLEAN
  /\ \A l \in loops : l.found \in Traces \cup {Gone} /\ l.left \subseteq Traces /\ IsView(l.snap)
  /\ created \subseteq [trace : Traces, nodes : SUBSET (1..minted)] /\ deleted \subseteq Traces
  /\ excuse \subseteq {"undo", "traces", "overlap"}

Node(i, a)       == [id |-> i, addr |-> a, by |-> "service"]
Edge(i, r, f, g) == [id |-> i, transfer |-> r, from |-> f, to |-> g, by |-> "service"]

\* What one import makes of an empty trace.
Imported(r) == LET to == IF r.to = r.from THEN 1 ELSE 2 IN
  [name |-> 0, nodes |-> {Node(1, r.from), Node(to, r.to)}, edges |-> {Edge(3, r, 1, to)}]

\* Some traces are there; one of them may hold an import.
Init ==
  /\ unborn \in SUBSET Traces
  /\ \E first \in Traces, d \in {Empty} \cup {Imported(r) : r \in Given} :
       data = [t \in Traces |-> IF t \in unborn THEN Gone ELSE IF t = first THEN d ELSE Empty]
  /\ minted = 3 /\ edits = 0
  /\ op     = [e \in Editors |-> NoEdit]
  /\ view   = Gone /\ past = <<>> /\ future = <<>> /\ fresh = FALSE /\ timer = Gone
  /\ loops  = {} /\ loads = {} /\ created = {} /\ deleted = {} /\ excuse = {}

\* Reasons for a difference; beside an overlap no other counts.
Excuse(why)   == excuse' = IF "overlap" \in excuse \cup why THEN {"overlap"} ELSE excuse \cup why
Overlap(risk) == Excuse(IF risk THEN {"overlap"} ELSE {})

Edit == edits < MaxEdits /\ edits' = edits + 1

-----------------------------------------------------------------------------
(* What one request makes of the value it has read.                        *)

Touches(edge, id) == id \in {edge.from, edge.to}

DeleteNode(d, id) == [d EXCEPT !.nodes = {n \in @ : n.id # id}, !.edges = {e \in @ : ~Touches(e, id)}]
DeleteEdge(d, id) == [d EXCEPT !.edges = {e \in @ : e.id # id}]

Ids(items) == {x.id : x \in items}
Deletions(d) == {DeleteNode(d, id) : id \in Ids(d.nodes)} \cup {DeleteEdge(d, id) : id \in Ids(d.edges)}

\* A node or edge put by hand is new, or takes the place of the one with its id.
PutNode(d, n) == [d EXCEPT !.nodes = {m \in @ : m.id # n.id} \cup {n}]
PutEdge(d, e) == [d EXCEPT !.edges = {f \in @ : f.id # e.id} \cup {e}]

Readdressed(d) == UNION {{[n EXCEPT !.addr = a, !.by = "hand"] : a \in Addrs \ {n.addr}} : n \in d.nodes}
Repointed(d, ends) ==
  UNION {{[e EXCEPT !.from = p[1], !.to = p[2], !.by = "hand"] : p \in ends \X ends} : e \in d.edges}

\* Values one change away from d: another name (or label, colour, note, group), less,
\* or any node or edge, unchecked; its ends may be nodes of other traces.
Changes(d, id, ends) ==
  {[d EXCEPT !.name = id]} \cup Deletions(d)
    \cup {PutNode(d, n) : n \in Readdressed(d) \cup [id : {id}, addr : Addrs, by : {"hand"}]}
    \cup {PutEdge(d, e) : e \in Repointed(d, ends)
                         \cup [id : {id}, transfer : Given, from : ends, to : ends, by : {"hand"}]}

\* nodeAddressById: the address of a node of this trace, else the id itself.
AddressIn_Ids(d, id) == id
AddressIn(d, id) == IF \E n \in d.nodes : n.id = id
                    THEN (CHOOSE n \in d.nodes : n.id = id).addr ELSE id

edgeIdentityKey(r, from, to) == IF r.ledger THEN <<r.tx>> ELSE <<r.tx, from, to>>

existingTxKeys(d) ==
  {edgeIdentityKey(e.transfer, AddressIn(d, e.from), AddressIn(d, e.to)) : e \in d.edges}

NodesFor(nodes, a) == {n.id : n \in {m \in nodes : m.addr = a}}

Foreign(siblings) == UNION {siblings[t].nodes : t \in Present(siblings)}
Known(own, siblings, a) == NodesFor(own.nodes \cup Foreign(siblings), a) # {}

\* One new node for each unknown endpoint: one in all, if it is both endpoints.
NewId(r, a) == IF a = r.from THEN minted + 1 ELSE minted + 2
CreatedNodes(own, siblings, r) ==
  {Node(NewId(r, a), a) : a \in {b \in {r.from, r.to} : ~Known(own, siblings, b)}}

\* An endpoint resolves to a node of this trace, else of a sibling, else to a new one.
EndIds(own, siblings, r, a) ==
  IF NodesFor(own.nodes, a) # {} THEN NodesFor(own.nodes, a)
  ELSE IF Known(own, siblings, a) THEN NodesFor(Foreign(siblings), a)
  ELSE {NewId(r, a)}

Seen(own, r) == edgeIdentityKey(r, r.from, r.to) \in existingTxKeys(own)

\* An edge between two known addresses keeps the addresses.
Imports_Unresolved(own, siblings, r) ==
  {[own EXCEPT !.edges = @ \cup
      {Edge(minted + 3, r, r.from, r.to)}]}

\* importTransactions of one row. An edge with the same identity is not added again.
Imports(own, siblings, r) ==
  {[own EXCEPT !.nodes = @ \cup CreatedNodes(own, siblings, r),
               !.edges = IF Seen(own, r) THEN @ ELSE @ \cup
                 {Edge(minted + 3, r, ends[1], ends[2])}] :
     ends \in EndIds(own, siblings, r, r.from) \X EndIds(own, siblings, r, r.to)}

\* createGroup makes no node for an address that the trace has.
Grouped(own) ==
  {[own EXCEPT !.name = minted + 1, !.nodes = @ \cup {Node(minted + 1, a)}] :
     a \in {b \in Addrs : NodesFor(own.nodes, b) = {}}}

\* An import; createGroup, deleteNode, deleteEdge, remove, or an update or creation with
\* what the caller sends. A name stands for all that the other methods change.
Results(o) ==
  CASE o.kind = "import" -> UNION {Imports(o.own, o.others, r) : r \in Transfers}
    [] o.kind = "edit"   -> {Gone} \cup Grouped(o.own) \cup Changes(o.own, minted + 1, Ids(o.own.nodes))

-----------------------------------------------------------------------------
(* The requests of the editors.                                            *)

BeginEdit(e) ==
  /\ op[e] = NoEdit /\ Edit
  /\ \E t \in Present(data), k \in Kinds :
       op' = [op EXCEPT ![e] = [kind |-> k, trace |-> t, own |-> data[t], others |-> Gone,
                                at |-> IF k = "import" THEN "siblings" ELSE "save"]]
  /\ UNCHANGED <<data, unborn, minted, browser, excuse>>

\* The traces of the investigation, this one left out of the second read.
ReadSiblings(e) ==
  /\ op[e].at = "siblings"
  /\ op' = [op EXCEPT ![e].at = "save",
                      ![e].others = [data EXCEPT ![op[e].trace] = Gone]]
  /\ UNCHANGED <<data, unborn, minted, edits, browser, excuse>>

SaveTrace(e) ==
  /\ op[e].at = "save"
  /\ \/ \E d \in Results(op[e]) : data' = [data EXCEPT ![op[e].trace] = d]
     \/ data[op[e].trace] = Gone /\ UNCHANGED data
  /\ minted' = minted + 3
  /\ op' = [op EXCEPT ![e] = NoEdit]
  /\ Overlap(TRUE)
  /\ UNCHANGED <<unborn, edits, browser>>

\* Node or edge not found, an error or a crash: nothing is written.
AbandonEdit(e) ==
  /\ op[e] # NoEdit /\ op' = [op EXCEPT ![e] = NoEdit]
  /\ UNCHANGED <<data, unborn, minted, edits, browser, excuse>>

\* A trace with what the caller sends; the row is new and nothing is read for it.
Create ==
  /\ Edit /\ minted' = minted + 1
  /\ \E t \in unborn, d \in {Empty} \cup Changes(Empty, minted + 1, {}) :
       data' = [data EXCEPT ![t] = d] /\ unborn' = unborn \ {t}
  /\ Overlap(TRUE)
  /\ UNCHANGED <<op, browser>>

-----------------------------------------------------------------------------
(* The browser. Answers arrive when they arrive, in any order; meanwhile    *)
(* the user goes on editing.                                                *)

LoadInvestigation ==
  /\ Cardinality(loads) < MaxLoads /\ loads' = loads \cup {data}
  /\ Overlap(loops # {} \/ created # {} \/ deleted # {})
  /\ UNCHANGED <<data, unborn, minted, edits, op, shown, loops, created, deleted>>

LoadFails ==
  /\ \E l \in loads : loads' = loads \ {l}
  /\ UNCHANGED <<data, unborn, minted, edits, op, shown, loops, created, deleted, excuse>>

LoadArrives_KeepsTimer ==
  /\ \E l \in loads : view' = l /\ loads' = loads \ {l}
  /\ past' = <<>> /\ future' = <<>> /\ fresh' = TRUE
  /\ UNCHANGED <<data, unborn, minted, edits, op, timer, loops, created, deleted, excuse>>

\* setInvestigation drops the history; the effect clears the timeout and
\* does not arm it for the server's own snapshot.
LoadArrives ==
  /\ \E l \in loads : view' = l /\ loads' = loads \ {l}
  /\ past' = <<>> /\ future' = <<>> /\ fresh' = TRUE /\ timer' = Gone
  /\ UNCHANGED <<data, unborn, minted, edits, op, loops, created, deleted, excuse>>

\* The reducer has made another investigation: it can be undone, and the effect arms the timeout.
Shows(v) == view' = v /\ fresh' = FALSE /\ timer' = v
Recorded == past' = Append(past, [view |-> view, fresh |-> fresh])

ViewIds(v) == UNION {Ids(v[t].nodes) : t \in Present(v)}

\* Every edit of one trace; an action on several traces is as many edits.
UserEdit ==
  /\ view # Gone /\ Edit /\ minted' = minted + 1
  /\ \E t \in Present(view) : \E d \in Changes(view[t], minted + 1, ViewIds(view)) :
       Shows([view EXCEPT ![t] = d])
  /\ Recorded /\ future' = <<>>
  /\ UNCHANGED <<data, unborn, op, pending, excuse>>

\* Nodes and labels are moved without a record.
UserMove ==
  /\ view # Gone /\ Edit /\ minted' = minted + 1
  /\ \E t \in Present(view) : Shows([view EXCEPT ![t].name = minted + 1])
  /\ UNCHANGED <<data, unborn, op, history, pending, excuse>>

\* handleAddTrace and, for two nodes or more, handleExtractToTrace: POST /traces.
CreateTrace ==
  /\ view # Gone /\ Edit
  /\ \E t \in unborn, S \in {R \in SUBSET ViewIds(view) : Cardinality(R) # 1} :
       /\ data' = [data EXCEPT ![t] = Empty] /\ unborn' = unborn \ {t}
       /\ created' = created \cup {[trace |-> t, nodes |-> S]}
  /\ Overlap(loads # {})
  /\ UNCHANGED <<minted, op, shown, loops, loads, deleted>>

Own(items) == {[x EXCEPT !.by = "hand"] : x \in items}

\* EXTRACT_TO_TRACE: the nodes S and what lies between them move to the new trace t;
\* edges that lead out of S or into it are drawn again at its first node i (those with
\* one other end as one, which sums them up: here each by itself). A trace that a load
\* has brought meanwhile is listed twice; the later one, kept here, is saved last.
Extracted(v, t, S, i) ==
  LET nodes    == UNION {v[s].nodes : s \in Present(v)}
      edges    == UNION {v[s].edges : s \in Present(v)}
      within   == {e \in edges : e.from \in S /\ e.to \in S}
      crossing == {e \in edges : e.from \in S <=> e.to \notin S}
  IN [s \in Traces |->
        IF s = t THEN [Empty EXCEPT !.nodes = Own({n \in nodes : n.id \in S}),
                                    !.edges = Own(within \cup {[e EXCEPT !.from = IF @ \in S THEN i ELSE @,
                                                                        !.to = IF @ \in S THEN i ELSE @] : e \in crossing})]
        ELSE IF v[s] = Gone THEN Gone
        ELSE [v[s] EXCEPT !.nodes = {n \in @ : n.id \notin S},
                          !.edges = {e \in @ : e.from \notin S /\ e.to \notin S}]]

\* ADD_TRACE or EXTRACT_TO_TRACE. If the nodes are gone by now nothing changes, and
\* what is recorded (left out here) is the same object again.
CreateAnswered(c) ==
  /\ created' = created \ {c} /\ future' = <<>>
  /\ LET left == c.nodes \cap ViewIds(view) IN
       \/ c.nodes = {} /\ Shows([view EXCEPT ![c.trace] = Empty]) /\ Recorded /\ UNCHANGED excuse
       \/ \E i \in left : Shows(Extracted(view, c.trace, left, i)) /\ Recorded /\ UNCHANGED excuse
       \/ c.nodes # {} /\ left = {} /\ Excuse({"traces"}) /\ UNCHANGED <<view, past, fresh, timer>>
  /\ UNCHANGED <<data, unborn, minted, edits, op, loops, loads, deleted>>

\* The row is there, but the answer is lost.
CreateFails(c) ==
  /\ created' = created \ {c} /\ Overlap(TRUE)
  /\ UNCHANGED <<data, unborn, minted, edits, op, shown, loops, loads, deleted>>

\* DELETE_TRACE, and DELETE /traces/:id that nobody waits for.
DeleteTrace ==
  /\ view # Gone /\ Edit
  /\ \E t \in Present(view) : Shows([view EXCEPT ![t] = Gone]) /\ deleted' = deleted \cup {t}
  /\ Recorded /\ future' = <<>>
  /\ Overlap(loops # {} \/ loads # {})
  /\ UNCHANGED <<data, unborn, minted, op, loops, loads, created>>

DeleteArrives(t) ==
  /\ data' = [data EXCEPT ![t] = Gone] /\ deleted' = deleted \ {t}
  /\ UNCHANGED <<unborn, minted, edits, op, shown, loops, loads, created, excuse>>

DeleteFails(t) ==
  /\ deleted' = deleted \ {t} /\ Overlap(TRUE)
  /\ UNCHANGED <<data, unborn, minted, edits, op, shown, loops, loads, created>>

\* Undo and redo change what is shown and nothing else: not which traces there are.
OtherTraces(v) == IF Present(v) = Present(view) THEN {} ELSE {"traces"}

\* The object on the stack is the very object that was there: back at the
\* server's snapshot nothing is armed.
Undo ==
  /\ past # <<>>
  /\ LET last == past[Len(past)] IN
       /\ view' = last.view /\ fresh' = last.fresh
       /\ timer' = IF last.fresh THEN Gone ELSE last.view
       /\ Excuse(OtherTraces(last.view) \cup (IF last.fresh THEN {"undo"} ELSE {}))
  /\ past' = SubSeq(past, 1, Len(past) - 1) /\ future' = <<view>> \o future
  /\ UNCHANGED <<data, unborn, minted, edits, op, pending>>

Redo ==
  /\ future # <<>> /\ Shows(Head(future))
  /\ Recorded /\ future' = Tail(future)
  /\ Excuse(OtherTraces(Head(future)))
  /\ UNCHANGED <<data, unborn, minted, edits, op, pending>>

\* What is left of an auto-save: nothing, after the last trace.
Loop(left, snap) == IF left = {} THEN {} ELSE {[left |-> left, found |-> Gone, snap |-> snap]}

TimerFires ==
  /\ timer # Gone /\ timer' = Gone /\ Cardinality(loops) < MaxSaves
  /\ loops' = loops \cup Loop(Present(timer), timer)
  /\ Overlap(loops # {} \/ loads # {})
  /\ UNCHANGED <<data, unborn, minted, edits, op, view, history, fresh, loads, created, deleted>>

\* PATCH /traces/:id, of one trace after the other, finds the row; without it the
\* loop stops for good.
PatchFinds(l) ==
  /\ l.found = Gone
  /\ \E t \in l.left :
       \/ data[t] # Gone /\ loops' = (loops \ {l}) \cup {[l EXCEPT !.found = t]} /\ UNCHANGED excuse
       \/ data[t] = Gone /\ loops' = loops \ {l} /\ Overlap(TRUE)
  /\ UNCHANGED <<data, unborn, minted, edits, op, shown, loads, created, deleted>>

PatchSaves(l) ==
  /\ l.found # Gone
  /\ \/ data' = [data EXCEPT ![l.found] = l.snap[l.found]]
     \/ data[l.found] = Gone /\ UNCHANGED data
  /\ loops' = (loops \ {l}) \cup Loop(l.left \ {l.found}, l.snap)
  /\ UNCHANGED <<unborn, minted, edits, op, shown, loads, created, deleted, excuse>>

\* "Auto-save failed".
LoopFails(l) ==
  /\ loops' = loops \ {l} /\ Overlap(TRUE)
  /\ UNCHANGED <<data, unborn, minted, edits, op, shown, loads, created, deleted>>

-----------------------------------------------------------------------------
Serve(e) == BeginEdit(e) \/ ReadSiblings(e) \/ SaveTrace(e) \/ AbandonEdit(e)
Show     == LoadArrives \/ UserEdit \/ UserMove \/ DeleteTrace \/ Undo \/ Redo
            \/ \E c \in created : CreateAnswered(c)
Ask      == \/ LoadInvestigation \/ LoadFails \/ CreateTrace \/ TimerFires
            \/ \E c \in created : CreateFails(c)
            \/ \E t \in deleted : DeleteArrives(t) \/ DeleteFails(t)
            \/ \E l \in loops : PatchFinds(l) \/ PatchSaves(l) \/ LoopFails(l)
Browse   == Show \/ Ask

Next == Browse \/ Create \/ \E e \in Editors : Serve(e)

Spec == Init /\ [][Next]_vars
-----------------------------------------------------------------------------
(* Properties.                                                             *)

\* The node with this id in d is the one the service made for the address.
StandsFor(d, id, a) == \E n \in d.nodes : n.id = id /\ \A m \in d.nodes : m.id = id => m = Node(id, a)

\* The service can tell that e is its transfer: by the transfer's position on the
\* ledger, or by both ends being nodes of this trace that nobody has changed.
Recognised(d, e) ==
  /\ e.by = "service"
  /\ e.transfer.ledger \/ (StandsFor(d, e.from, e.transfer.from) /\ StandsFor(d, e.to, e.transfer.to))

(* importTransactions "Deduplicate by the same identity key" and            *)
(* createGroup: however requests overlap, overwrite each other, bring       *)
(* removed rows and undone values back, and whatever users add, move and    *)
(* repoint in between, the service never gives a trace two nodes of one     *)
(* address, nor a second edge for a transfer it can recognise. Nodes and    *)
(* edges written by hand are compared with nothing and may well be doubles. *)
NoDuplicateFact ==
  \A t \in Present(data) :
    /\ \A n, m \in data[t].nodes : n.by = "service" /\ m.by = "service" /\ n.addr = m.addr => n = m
    /\ \A e, f \in data[t].edges : Recognised(data[t], e) /\ Recognised(data[t], f)
                                     /\ e.transfer = f.transfer => e = f

Quiet == view # Gone /\ timer = Gone /\ loops = {} /\ loads = {} /\ created = {} /\ deleted = {}

(* Auto-save: whatever the user edits, adds, extracts, deletes, undoes and  *)
(* redoes, once nothing is pending the server holds what the browser shows; *)
(* unless somebody else saved, a request failed or overlapped another       *)
(* ("overlap"), an undo went back to the loaded snapshot ("undo"), or an    *)
(* undo or a redo, which ask the server for nothing, took a trace from the  *)
(* browser or brought one back, or the nodes of an extraction had left      *)
(* before its trace was made ("traces").                                    *)
SavedWhenQuiet == Quiet /\ excuse = {} => data = view

(* useInvestigationLoader.ts:42, "Auto-save skips it: writing a fresh       *)
(* snapshot straight back is redundant": at the loaded snapshot, an undo    *)
(* back to it included, the server holds what the browser shows.            *)
UndoSaved == Quiet /\ excuse \subseteq {"undo"} => data = view
=============================================================================
