---------------------------- MODULE Traces_proofs ----------------------------
(***************************************************************************)
(* What holds of every graph, whatever its traces, transfers, editors and   *)
(* the bounds on edits, loads and saves. Assumes BoundsAssumption,          *)
(* TransfersAssumption and GoneAssumption.                                  *)
(***************************************************************************)
EXTENDS Traces, TLAPS

-----------------------------------------------------------------------------
(* The invariant. Every copy of every trace, however old and whoever holds  *)
(* it, is a value without a duplicate of what the service has added.        *)

\* NoDuplicateFact of one value.
OneFactEach(d) ==
  /\ \A n, m \in d.nodes : n.by = "service" /\ m.by = "service" /\ n.addr = m.addr => n = m
  /\ \A e, f \in d.edges : Recognised(d, e) /\ Recognised(d, f) /\ e.transfer = f.transfer => e = f

NodeRecords(m) == [id : 1..m, addr : Addrs, by : Sources]
EdgeRecords(m) == [id : 1..m, transfer : Transfers, from : 1..m, to : 1..m, by : Sources]

\* The values a trace may have once m ids are minted.
Shape(m)  == [name : 0..m, nodes : SUBSET NodeRecords(m), edges : SUBSET EdgeRecords(m)]
Stored(m) == {d \in Shape(m) : OneFactEach(d)}
Views(m)  == [Traces -> Stored(m) \cup {Gone}]

\* Where the copies are: the rows, the browser's, and those of requests.
Server(m) == data \in Views(m)
Browser(m) ==
  /\ view \in Views(m) \cup {Gone} /\ timer \in Views(m) \cup {Gone} /\ loads \subseteq Views(m)
  /\ past \in Seq([view : Views(m), fresh : BOOLEAN]) /\ future \in Seq(Views(m))
  /\ created \subseteq [trace : Traces, nodes : SUBSET (1..m)]
  /\ view \in Views(m) \/ (past = <<>> /\ future = <<>> /\ created = {})
Saves(m) ==
  loops \subseteq [left : SUBSET Traces, found : Traces \cup {Gone}, snap : Views(m)]
Requests(m) ==
  /\ op \in [Editors -> [kind : Kinds \cup {"none"}, at : {"none", "siblings", "save"}, trace : Traces \cup {Gone},
                         own : Stored(m) \cup {Gone}, others : Views(m) \cup {Gone}]]
  /\ \A e \in Editors : op[e].at # "none" =>
       /\ op[e].kind \in Kinds /\ op[e].trace \in Traces /\ op[e].own \in Stored(m)
       /\ op[e].kind = "import" /\ op[e].at = "save" => op[e].others \in Views(m)

Graph(m) == Server(m) /\ Browser(m) /\ Saves(m) /\ Requests(m)

Counters == /\ minted \in Nat /\ edits \in 0..MaxEdits /\ fresh \in BOOLEAN
            /\ unborn \subseteq Traces /\ deleted \subseteq Traces
            /\ excuse \subseteq {"undo", "traces", "overlap"}

GraphInv == Counters /\ Graph(minted)

(* While nothing excuses a difference: a load under way has read what is    *)
(* there, and nothing else is under way; the browser's traces and the       *)
(* server's differ by those it is adding and deleting; and the one auto-save *)
(* has left to do what the server lacks of the copy it saves.               *)
Answers == /\ loads # {} => loops = {} /\ created = {} /\ deleted = {}
           /\ \A l \in loads : l = data

Copies == /\ timer \in {Gone, view}
          /\ view = Gone => loops = {} /\ created = {} /\ deleted = {}

Added == {c.trace : c \in created}
SameTraces == /\ view # Gone => /\ Present(data) = Present(view) \cup Added \cup deleted
                               /\ Added \cap Present(view) = {} /\ Added \cap deleted = {}
                               /\ deleted \cap Present(view) = {}
              /\ \A c, b \in created : c.trace = b.trace => c = b
              /\ unborn \cap Present(data) = {}

LoopOK(l) == /\ loops = {l} /\ l.left \subseteq Present(l.snap) /\ l.found \in l.left \cup {Gone}
             /\ Present(l.snap) \subseteq Present(data) \ deleted
             /\ \A t \in Present(l.snap) \ l.left : data[t] = l.snap[t]
             /\ timer = Gone => l.snap = view

Saved == view # Gone /\ timer = Gone /\ loops = {} => \A t \in Present(view) : data[t] = view[t]

SaveInv == excuse = {} => Answers /\ Copies /\ SameTraces /\ (\A l \in loops : LoopOK(l)) /\ Saved
-----------------------------------------------------------------------------
(* Values and what requests make of them.                                   *)

LEMMA ShapeForm ==
  ASSUME NEW m, NEW d \in Shape(m)
  PROVE  /\ d = [name |-> d.name, nodes |-> d.nodes, edges |-> d.edges]
         /\ d.name \in 0..m /\ d.nodes \subseteq NodeRecords(m) /\ d.edges \subseteq EdgeRecords(m)
  BY DEF Shape

LEMMA ShapeMake ==
  ASSUME NEW m, NEW x \in 0..m, NEW N, NEW E, N \subseteq NodeRecords(m), E \subseteq EdgeRecords(m)
  PROVE  [name |-> x, nodes |-> N, edges |-> E] \in Shape(m)
  BY DEF Shape

LEMMA GoneIsNoValue == ASSUME NEW m \in Nat PROVE Gone \notin Stored(m) /\ Gone \notin Views(m)
<1>1. 1..m \subseteq Nat /\ 0..m \subseteq Nat
  OBVIOUS
<1>2. NodeRecords(m) \subseteq [id : Nat, addr : Addrs, by : Sources]
  BY <1>1 DEF NodeRecords
<1>3. EdgeRecords(m) \subseteq [id : Nat, transfer : Transfers, from : Nat, to : Nat, by : Sources]
  BY <1>1 DEF EdgeRecords
<1>4. Shape(m) \subseteq TraceValues
  BY <1>1, <1>2, <1>3 DEF Shape, TraceValues
<1>5. Views(m) \subseteq [Traces -> TraceValues \cup {Gone}]
  BY <1>4 DEF Views, Stored
<1>6. QED BY <1>4, <1>5, GoneAssumption DEF Stored

\* Minting more ids keeps every value.
LEMMA RecordsGrow ==
  ASSUME NEW m \in Nat, NEW k \in Nat, m <= k
  PROVE  NodeRecords(m) \subseteq NodeRecords(k) /\ EdgeRecords(m) \subseteq EdgeRecords(k) /\ Shape(m) \subseteq Shape(k)
<1>1. 1..m \subseteq 1..k /\ 0..m \subseteq 0..k
  OBVIOUS
<1>2. NodeRecords(m) \subseteq NodeRecords(k)
  BY <1>1 DEF NodeRecords
<1>3. EdgeRecords(m) \subseteq EdgeRecords(k)
  BY <1>1 DEF EdgeRecords
<1>4. QED BY <1>1, <1>2, <1>3 DEF Shape

LEMMA StoredGrows ==
  ASSUME NEW m \in Nat, NEW k \in Nat, m <= k
  PROVE  Stored(m) \subseteq Stored(k) /\ Views(m) \subseteq Views(k)
<1>1. Stored(m) \subseteq Stored(k)
  BY RecordsGrow DEF Stored
<1>2. QED BY <1>1 DEF Views

\* A node stands for an address by the nodes that have its id, and by no others.
LEMMA StandsForSame ==
  ASSUME NEW d, NEW v, NEW id, \A n \in d.nodes \cup v.nodes : n.id = id => (n \in d.nodes <=> n \in v.nodes)
  PROVE  \A a : StandsFor(v, id, a) <=> StandsFor(d, id, a)
  BY DEF StandsFor

(* A value that has no node of the service and no recognised edge that      *)
(* another has not is as free of duplicates.                                *)
LEMMA Kept ==
  ASSUME NEW m, NEW k, NEW d \in Stored(m), NEW v \in Shape(k),
         \A n \in v.nodes : n.by = "service" => n \in d.nodes,
         \A e \in v.edges : e.by = "service" => e \in d.edges,
         \A e \in v.edges : e.by = "service" =>
           \A id \in {e.from, e.to} : \A a : StandsFor(v, id, a) => StandsFor(d, id, a)
  PROVE  v \in Stored(k)
<1>1. OneFactEach(d)
  BY DEF Stored
<1>2. ASSUME NEW e \in v.edges, Recognised(v, e) PROVE e \in d.edges /\ Recognised(d, e)
  BY <1>2 DEF Recognised
<1>3. \A n, c \in v.nodes : n.by = "service" /\ c.by = "service" /\ n.addr = c.addr => n = c
  BY <1>1 DEF OneFactEach
<1>4. \A e, f \in v.edges : Recognised(v, e) /\ Recognised(v, f) /\ e.transfer = f.transfer => e = f
  BY <1>1, <1>2 DEF OneFactEach
<1>5. QED BY <1>3, <1>4 DEF Stored, OneFactEach

\* The same with the nodes as they are.
LEMMA KeptNodes ==
  ASSUME NEW m, NEW d \in Stored(m), NEW v \in Shape(m), v.nodes = d.nodes,
         \A e \in v.edges : e.by = "service" => e \in d.edges
  PROVE  v \in Stored(m)
<1>1. \A id, a : StandsFor(v, id, a) => StandsFor(d, id, a)
  BY DEF StandsFor
<1>2. QED BY <1>1, Kept

\* Nobody adds to an empty trace by hand what the service could mistake.
LEMMA ByHandStored ==
  ASSUME NEW m \in Nat, NEW v \in Shape(m), \A n \in v.nodes : n.by # "service", \A e \in v.edges : e.by # "service"
  PROVE  v \in Stored(m)
  BY DEF Stored, OneFactEach, Recognised

LEMMA EmptyStored == ASSUME NEW m \in Nat PROVE Empty \in Stored(m)
<1>1. Empty \in Shape(m) /\ Empty.nodes = {} /\ Empty.edges = {}
  BY DEF Empty, Shape
<1>2. QED BY <1>1, ByHandStored

LEMMA RenameStored ==
  ASSUME NEW m, NEW d \in Stored(m), NEW x \in 0..m
  PROVE  [d EXCEPT !.name = x] \in Stored(m)
<1>1. d \in Shape(m)
  BY DEF Stored
<1>2. PICK a, M, F : d = [name |-> a, nodes |-> M, edges |-> F] /\ M \subseteq NodeRecords(m) /\ F \subseteq EdgeRecords(m)
  BY <1>1, ShapeForm
<1>3. PICK v : v = [name |-> x, nodes |-> M, edges |-> F]
  OBVIOUS
<1>4. v \in Shape(m) /\ v.nodes = d.nodes /\ v.edges = d.edges
  BY <1>2, <1>3, ShapeMake
<1>5. v \in Stored(m)
  BY <1>4, KeptNodes
<1>6. [d EXCEPT !.name = x] = v
  BY <1>2, <1>3
<1>7. QED BY <1>5, <1>6

LEMMA DeleteNodeStored ==
  ASSUME NEW m, NEW d \in Stored(m), NEW id PROVE DeleteNode(d, id) \in Stored(m)
<1>1. d \in Shape(m)
  BY DEF Stored
<1>2. PICK a, M, F : d = [name |-> a, nodes |-> M, edges |-> F] /\ a \in 0..m
                     /\ M \subseteq NodeRecords(m) /\ F \subseteq EdgeRecords(m)
  BY <1>1, ShapeForm
<1>3. PICK N, E : N = {n \in M : n.id # id} /\ E = {e \in F : ~Touches(e, id)}
  OBVIOUS
<1>4. PICK v : v = [name |-> a, nodes |-> N, edges |-> E]
  OBVIOUS
<1>5. v \in Shape(m) /\ v.nodes = N /\ v.edges = E /\ d.nodes = M /\ d.edges = F
  BY <1>2, <1>3, <1>4, ShapeMake
<1>6. ASSUME NEW e \in v.edges, NEW i \in {e.from, e.to} PROVE \A x : StandsFor(v, i, x) => StandsFor(d, i, x)
  <2>1. i # id
    BY <1>3, <1>5, <1>6 DEF Touches
  <2>2. QED BY <1>3, <1>5, <2>1, StandsForSame
<1>7. v \in Stored(m)
  BY <1>3, <1>5, <1>6, Kept
<1>8. DeleteNode(d, id) = v
  <2>1. DeleteNode(d, id) = [d EXCEPT !.nodes = N, !.edges = E]
    BY <1>3, <1>5 DEF DeleteNode
  <2>2. QED BY ONLY <2>1, <1>2, <1>4
<1>9. QED BY <1>7, <1>8

LEMMA DeleteEdgeStored ==
  ASSUME NEW m, NEW d \in Stored(m), NEW id PROVE DeleteEdge(d, id) \in Stored(m)
<1>1. d \in Shape(m)
  BY DEF Stored
<1>2. PICK a, M, F : d = [name |-> a, nodes |-> M, edges |-> F] /\ a \in 0..m
                     /\ M \subseteq NodeRecords(m) /\ F \subseteq EdgeRecords(m)
  BY <1>1, ShapeForm
<1>3. PICK E : E = {e \in F : e.id # id}
  OBVIOUS
<1>4. PICK v : v = [name |-> a, nodes |-> M, edges |-> E]
  OBVIOUS
<1>5. v \in Shape(m) /\ v.nodes = d.nodes /\ v.edges \subseteq d.edges
  BY <1>2, <1>3, <1>4, ShapeMake
<1>6. v \in Stored(m)
  BY <1>5, KeptNodes
<1>7. DeleteEdge(d, id) = v
  <2>1. d.edges = F
    BY ONLY <1>2
  <2>2. DeleteEdge(d, id) = [d EXCEPT !.edges = E]
    BY <1>3, <2>1 DEF DeleteEdge
  <2>3. QED BY ONLY <2>2, <1>2, <1>4
<1>8. QED BY <1>6, <1>7

\* A node put by hand hides the one it replaces: what ends there is not recognised.
LEMMA PutNodeStored ==
  ASSUME NEW m, NEW d \in Stored(m), NEW n \in NodeRecords(m), n.by = "hand" PROVE PutNode(d, n) \in Stored(m)
<1>1. d \in Shape(m)
  BY DEF Stored
<1>2. PICK a, M, F : d = [name |-> a, nodes |-> M, edges |-> F] /\ a \in 0..m
                     /\ M \subseteq NodeRecords(m) /\ F \subseteq EdgeRecords(m)
  BY <1>1, ShapeForm
<1>3. PICK N : N = {c \in M : c.id # n.id} \cup {n}
  OBVIOUS
<1>4. PICK v : v = [name |-> a, nodes |-> N, edges |-> F]
  OBVIOUS
<1>5. v \in Shape(m) /\ v.nodes = N /\ v.edges = F /\ d.nodes = M /\ d.edges = F
  BY <1>2, <1>3, <1>4, ShapeMake
<1>6. ASSUME NEW i, NEW x, StandsFor(v, i, x) PROVE StandsFor(d, i, x)
  <2>1. CASE i = n.id
    <3>1. n = Node(i, x)
      BY <1>3, <1>5, <1>6, <2>1 DEF StandsFor
    <3>2. QED BY <3>1 DEF Node
  <2>2. CASE i # n.id
    BY <1>3, <1>5, <1>6, <2>2, StandsForSame
  <2>3. QED BY <2>1, <2>2
<1>7. v \in Stored(m)
  BY <1>3, <1>5, <1>6, Kept
<1>8. PutNode(d, n) = v
  <2>1. PutNode(d, n) = [d EXCEPT !.nodes = N]
    BY <1>3, <1>5 DEF PutNode
  <2>2. QED BY ONLY <2>1, <1>2, <1>4
<1>9. QED BY <1>7, <1>8

LEMMA PutEdgeStored ==
  ASSUME NEW m, NEW d \in Stored(m), NEW e \in EdgeRecords(m), e.by = "hand" PROVE PutEdge(d, e) \in Stored(m)
<1>1. d \in Shape(m)
  BY DEF Stored
<1>2. PICK a, M, F : d = [name |-> a, nodes |-> M, edges |-> F] /\ a \in 0..m
                     /\ M \subseteq NodeRecords(m) /\ F \subseteq EdgeRecords(m)
  BY <1>1, ShapeForm
<1>3. PICK E : E = {f \in F : f.id # e.id} \cup {e}
  OBVIOUS
<1>4. PICK v : v = [name |-> a, nodes |-> M, edges |-> E]
  OBVIOUS
<1>5. v \in Shape(m) /\ v.nodes = d.nodes /\ v.edges = E /\ d.edges = F
  BY <1>2, <1>3, <1>4, ShapeMake
<1>6. v \in Stored(m)
  BY <1>3, <1>5, KeptNodes
<1>7. PutEdge(d, e) = v
  <2>1. PutEdge(d, e) = [d EXCEPT !.edges = E]
    BY <1>3, <1>5 DEF PutEdge
  <2>2. QED BY ONLY <2>1, <1>2, <1>4
<1>8. QED BY <1>6, <1>7

\* Whatever is changed by hand.
LEMMA ChangesStored ==
  ASSUME NEW k \in Nat, NEW d \in Stored(k), NEW id \in 1..k, NEW ends, ends \subseteq 1..k
  PROVE  Changes(d, id, ends) \subseteq Stored(k)
<1>1. d.nodes \subseteq NodeRecords(k) /\ d.edges \subseteq EdgeRecords(k)
  BY ShapeForm DEF Stored
<1>2. id \in 0..k
  OBVIOUS
<1>3. [d EXCEPT !.name = id] \in Stored(k)
  BY <1>2, RenameStored
<1>4. Deletions(d) \subseteq Stored(k)
  BY DeleteNodeStored, DeleteEdgeStored DEF Deletions
<1>5. ASSUME NEW n \in Readdressed(d) \cup [id : {id}, addr : Addrs, by : {"hand"}] PROVE PutNode(d, n) \in Stored(k)
  <2>1. n \in NodeRecords(k) /\ n.by = "hand"
    <3>1. CASE n \in Readdressed(d)
      <4>1. PICK c \in d.nodes : n \in {[c EXCEPT !.addr = a, !.by = "hand"] : a \in Addrs \ {c.addr}}
        BY ONLY <3>1 DEF Readdressed
      <4>3. PICK a \in Addrs : n = [c EXCEPT !.addr = a, !.by = "hand"]
        BY ONLY <4>1
      <4>2. c \in NodeRecords(k)
        BY <1>1
      <4>4. QED BY <4>2, <4>3 DEF NodeRecords, Sources
    <3>2. CASE n \in [id : {id}, addr : Addrs, by : {"hand"}]
      BY <3>2 DEF NodeRecords, Sources
    <3>3. QED BY <1>5, <3>1, <3>2
  <2>2. QED BY <2>1, PutNodeStored
<1>6. ASSUME NEW e \in Repointed(d, ends) \cup [id : {id}, transfer : Given, from : ends, to : ends, by : {"hand"}]
      PROVE  PutEdge(d, e) \in Stored(k)
  <2>1. e \in EdgeRecords(k) /\ e.by = "hand"
    <3>1. CASE e \in Repointed(d, ends)
      <4>1. PICK c \in d.edges : e \in {[c EXCEPT !.from = p[1], !.to = p[2], !.by = "hand"] : p \in ends \X ends}
        BY ONLY <3>1 DEF Repointed
      <4>2. PICK p \in ends \X ends : e = [c EXCEPT !.from = p[1], !.to = p[2], !.by = "hand"]
        BY ONLY <4>1
      <4>3. c \in EdgeRecords(k) /\ p[1] \in 1..k /\ p[2] \in 1..k
        BY <1>1
      <4>4. QED BY ONLY <4>2, <4>3 DEF EdgeRecords, Sources
    <3>2. CASE e \in [id : {id}, transfer : Given, from : ends, to : ends, by : {"hand"}]
      BY <3>2, TransfersAssumption DEF EdgeRecords, Sources
    <3>3. QED BY <1>6, <3>1, <3>2
  <2>2. QED BY <2>1, PutEdgeStored
<1>7. QED BY <1>3, <1>4, <1>5, <1>6 DEF Changes

(* New nodes of the service for addresses a value has not, with new ids: no *)
(* duplicates, and no edge is recognised that was not.                      *)
LEMMA NodesAddedStored ==
  ASSUME NEW m \in Nat, NEW k \in Nat, m < k, NEW d \in Stored(m), NEW C, NEW x \in 0..k,
         C \subseteq NodeRecords(k), \A c \in C : c.id \notin 1..m,
         \A n, c \in C : n.addr = c.addr => n = c,
         \A n \in d.nodes, c \in C : n.addr # c.addr,
         NEW v, v = [name |-> x, nodes |-> d.nodes \cup C, edges |-> d.edges]
  PROVE  v \in Stored(k) /\ \A e \in d.edges : Recognised(v, e) => Recognised(d, e)
<1>1. d \in Shape(m) /\ OneFactEach(d)
  BY DEF Stored
<1>2. d.nodes \subseteq NodeRecords(m) /\ d.edges \subseteq EdgeRecords(m)
  BY <1>1, ShapeForm
<1>3. d.nodes \subseteq NodeRecords(k) /\ d.edges \subseteq EdgeRecords(k)
  BY <1>2, RecordsGrow
<1>4. d.nodes \cup C \subseteq NodeRecords(k)
  BY <1>3
<1>5. v \in Shape(k) /\ v.nodes = d.nodes \cup C /\ v.edges = d.edges
  BY <1>3, <1>4, ShapeMake
<1>6. ASSUME NEW id \in 1..m, NEW a, StandsFor(v, id, a) PROVE StandsFor(d, id, a)
  BY <1>5, <1>6, StandsForSame
<1>7. ASSUME NEW e \in d.edges, Recognised(v, e) PROVE Recognised(d, e)
  <2>1. e.from \in 1..m /\ e.to \in 1..m
    BY <1>2 DEF EdgeRecords
  <2>2. QED BY <1>6, <1>7, <2>1 DEF Recognised
<1>8. \A e, f \in v.edges : Recognised(v, e) /\ Recognised(v, f) /\ e.transfer = f.transfer => e = f
  BY <1>1, <1>5, <1>7 DEF OneFactEach
<1>9. \A n, c \in v.nodes : n.by = "service" /\ c.by = "service" /\ n.addr = c.addr => n = c
  BY <1>1, <1>5 DEF OneFactEach
<1>10. v \in Stored(k)
  BY <1>5, <1>8, <1>9 DEF Stored, OneFactEach
<1>11. QED BY <1>7, <1>10

\* The address by which the service knows a node that stands for one.
LEMMA AddressOf == ASSUME NEW d, NEW id, NEW a, StandsFor(d, id, a) PROVE AddressIn(d, id) = a
<1>1. (\E n \in d.nodes : n.id = id) /\ \A n \in d.nodes : n.id = id => n = Node(id, a)
  BY DEF StandsFor
<1>2. (CHOOSE n \in d.nodes : n.id = id) = Node(id, a)
  BY <1>1
<1>3. QED BY <1>1, <1>2 DEF AddressIn, Node

\* A recognised edge has the key of its transfer.
LEMMA KeyOf == ASSUME NEW d, NEW e \in d.edges, Recognised(d, e) PROVE Seen(d, e.transfer)
<1>1. edgeIdentityKey(e.transfer, AddressIn(d, e.from), AddressIn(d, e.to)) \in existingTxKeys(d)
  BY DEF existingTxKeys
<1>2. CASE e.transfer.ledger
  BY <1>1, <1>2 DEF Seen, edgeIdentityKey
<1>3. CASE ~e.transfer.ledger
  <2>1. AddressIn(d, e.from) = e.transfer.from /\ AddressIn(d, e.to) = e.transfer.to
    BY <1>3, AddressOf DEF Recognised
  <2>2. QED BY <1>1, <2>1 DEF Seen
<1>4. QED BY <1>2, <1>3

(* An edge the service adds with a key that no edge has: none that it can    *)
(* recognise is of the same transfer.                                       *)
LEMMA EdgeAddedStored ==
  ASSUME NEW k \in Nat, NEW d \in Stored(k), NEW own, own.edges = d.edges,
         \A e \in d.edges : Recognised(d, e) => Recognised(own, e),
         NEW x \in EdgeRecords(k), ~Seen(own, x.transfer)
  PROVE  [name |-> d.name, nodes |-> d.nodes, edges |-> d.edges \cup {x}] \in Stored(k)
<1>1. d \in Shape(k) /\ OneFactEach(d)
  BY DEF Stored
<1>2. d.name \in 0..k /\ d.nodes \subseteq NodeRecords(k) /\ d.edges \cup {x} \subseteq EdgeRecords(k)
  BY <1>1, ShapeForm
<1>3. PICK v : v = [name |-> d.name, nodes |-> d.nodes, edges |-> d.edges \cup {x}]
  OBVIOUS
<1>4. v \in Shape(k) /\ v.nodes = d.nodes /\ v.edges = d.edges \cup {x}
  BY <1>2, <1>3, ShapeMake
<1>5. \A e : Recognised(v, e) <=> Recognised(d, e)
  BY <1>4 DEF Recognised, StandsFor
<1>6. \A e \in d.edges : Recognised(v, e) => e.transfer # x.transfer
  BY <1>5, KeyOf
<1>7. \A e, f \in v.edges : Recognised(v, e) /\ Recognised(v, f) /\ e.transfer = f.transfer => e = f
  BY <1>1, <1>4, <1>5, <1>6 DEF OneFactEach
<1>8. \A n, c \in v.nodes : n.by = "service" /\ c.by = "service" /\ n.addr = c.addr => n = c
  BY <1>1, <1>4 DEF OneFactEach
<1>9. v \in Stored(k)
  BY <1>4, <1>7, <1>8 DEF Stored, OneFactEach
<1>10. QED BY <1>3, <1>9

LEMMA ViewNodes ==
  ASSUME NEW m \in Nat, NEW v \in Views(m) PROVE \A t \in Present(v) : v[t] \in Stored(m) /\ v[t] # Gone /\ t \in Traces
  BY DEF Views, Present

LEMMA NodeIds == ASSUME NEW m \in Nat, NEW v \in Views(m) PROVE ViewIds(v) \subseteq 1..m
<1>1. \A t \in Present(v) : v[t].nodes \subseteq NodeRecords(m)
  BY ViewNodes, ShapeForm DEF Stored
<1>2. \A t \in Present(v) : Ids(v[t].nodes) \subseteq 1..m
  BY <1>1 DEF Ids, NodeRecords
<1>3. QED BY <1>2 DEF ViewIds

\* An import, with whatever it read of the siblings, yields a value again.
LEMMA ImportStored ==
  ASSUME minted \in Nat, NEW own \in Stored(minted), NEW siblings \in Views(minted),
         NEW r \in Transfers, NEW d \in Imports(own, siblings, r)
  PROVE  d \in Stored(minted + 3)
<1> DEFINE k == minted + 3
           C == CreatedNodes(own, siblings, r)
<1>1. k \in Nat /\ minted < k /\ minted <= k /\ r.from \in Addrs /\ r.to \in Addrs
  BY DEF Addrs
<1>2. own \in Shape(minted)
  BY DEF Stored
<1>3. PICK a, M, F : own = [name |-> a, nodes |-> M, edges |-> F] /\ a \in 0..minted
                     /\ M \subseteq NodeRecords(minted) /\ F \subseteq EdgeRecords(minted)
  BY <1>2, ShapeForm
<1>4. own.name = a /\ own.nodes = M /\ own.edges = F
  BY ONLY <1>3
<1>5. PICK ends \in EndIds(own, siblings, r, r.from) \X EndIds(own, siblings, r, r.to) :
        d = [own EXCEPT !.nodes = @ \cup CreatedNodes(own, siblings, r),
                        !.edges = IF Seen(own, r) THEN @ ELSE @ \cup {Edge(minted + 3, r, ends[1], ends[2])}]
  BY DEF Imports
<1>6. \A b : NewId(r, b) \in 1..k /\ NewId(r, b) \notin 1..minted
  BY DEF NewId
<1>7. /\ C \subseteq NodeRecords(k) /\ \A c \in C : c.id \notin 1..minted
      /\ \A n, c \in C : n.addr = c.addr => n = c
  <2> HIDE DEF k
  <2>1. QED BY <1>1, <1>6 DEF CreatedNodes, Node, NodeRecords, Sources
<1>8. \A n \in own.nodes, c \in C : n.addr # c.addr
  <2>1. \A c \in C : ~Known(own, siblings, c.addr)
    BY DEF CreatedNodes, Node
  <2>2. \A n \in own.nodes : Known(own, siblings, n.addr)
    BY DEF NodesFor, Known
  <2>3. QED BY <2>1, <2>2
<1>9. ASSUME NEW b \in {r.from, r.to}, NEW i \in EndIds(own, siblings, r, b) PROVE i \in 1..k
  <2>1. Foreign(siblings) \subseteq NodeRecords(minted)
    BY ViewNodes, ShapeForm DEF Foreign, Stored
  <2>2. NodesFor(own.nodes, b) \subseteq 1..minted /\ NodesFor(Foreign(siblings), b) \subseteq 1..minted
    BY <1>3, <1>4, <2>1 DEF NodesFor, NodeRecords
  <2>3. i \in 1..minted \/ i = NewId(r, b)
    BY <1>9, <2>2 DEF EndIds
  <2>4. QED BY <1>1, <1>6, <2>3
<1>10. PICK x : x = Edge(minted + 3, r, ends[1], ends[2])
  OBVIOUS
<1>11. x \in EdgeRecords(k) /\ x.transfer = r
  <2>1. ends[1] \in 1..k /\ ends[2] \in 1..k
    BY <1>5, <1>9
  <2>2. minted + 3 \in 1..k
    BY <1>1
  <2>3. QED BY <1>10, <2>1, <2>2 DEF Edge, EdgeRecords, Sources
<1> HIDE DEF k, C
<1>12. PICK w : w = [name |-> a, nodes |-> M \cup C, edges |-> F]
  OBVIOUS
<1>13. a \in 0..k
  BY <1>1, <1>3 DEF k
<1>14. w \in Stored(k) /\ \A e \in F : Recognised(w, e) => Recognised(own, e)
  <2>1. w = [name |-> a, nodes |-> own.nodes \cup C, edges |-> own.edges]
    BY <1>4, <1>12
  <2>0. /\ minted \in Nat /\ k \in Nat /\ minted < k /\ own \in Stored(minted) /\ a \in 0..k
        /\ C \subseteq NodeRecords(k) /\ (\A c \in C : c.id \notin 1..minted)
        /\ (\A n, c \in C : n.addr = c.addr => n = c) /\ (\A n \in own.nodes, c \in C : n.addr # c.addr)
    BY <1>1, <1>7, <1>8, <1>13
  <2>2. w \in Stored(k) /\ \A e \in own.edges : Recognised(w, e) => Recognised(own, e)
    BY ONLY <2>0, <2>1, NodesAddedStored
  <2>3. QED BY <1>4, <2>2
<1>15. d = [own EXCEPT !.nodes = M \cup C, !.edges = IF Seen(own, r) THEN F ELSE F \cup {x}]
  BY <1>4, <1>5, <1>10 DEF C
<1>16. CASE Seen(own, r)
  <2>1. d = [own EXCEPT !.nodes = M \cup C, !.edges = F]
    BY <1>15, <1>16
  <2>2. d = [name |-> a, nodes |-> M \cup C, edges |-> F]
    BY ONLY <1>3, <2>1
  <2>3. QED BY <1>12, <1>14, <2>2 DEF k
<1>17. CASE ~Seen(own, r)
  <2>1. w.name = a /\ w.nodes = M \cup C /\ w.edges = F
    BY ONLY <1>12
  <2>2. [name |-> w.name, nodes |-> w.nodes, edges |-> w.edges \cup {x}] \in Stored(k)
    BY <1>1, <1>4, <1>11, <1>14, <1>17, <2>1, EdgeAddedStored
  <2>5. d = [own EXCEPT !.nodes = M \cup C, !.edges = F \cup {x}]
    BY <1>15, <1>17
  <2>3. d = [name |-> a, nodes |-> M \cup C, edges |-> F \cup {x}]
    BY ONLY <1>3, <2>5
  <2>4. QED BY <2>1, <2>2, <2>3 DEF k
<1>18. QED BY <1>16, <1>17

LEMMA GroupStored ==
  ASSUME minted \in Nat, NEW own \in Stored(minted), NEW d \in Grouped(own) PROVE d \in Stored(minted + 3)
<1>1. own \in Shape(minted)
  BY DEF Stored
<1>2. PICK a, M, F : own = [name |-> a, nodes |-> M, edges |-> F] /\ a \in 0..minted
                     /\ M \subseteq NodeRecords(minted) /\ F \subseteq EdgeRecords(minted)
  BY <1>1, ShapeForm
<1>3. own.name = a /\ own.nodes = M /\ own.edges = F
  BY ONLY <1>2
<1>4. PICK b \in {c \in Addrs : NodesFor(own.nodes, c) = {}} :
        d = [own EXCEPT !.name = minted + 1, !.nodes = @ \cup {Node(minted + 1, b)}]
  BY DEF Grouped
<1>5. PICK C : C = {Node(minted + 1, b)}
  OBVIOUS
<1>6. PICK k : k = minted + 3
  OBVIOUS
<1>7. k \in Nat /\ minted < k /\ minted + 1 \in 0..k /\ minted + 1 \in 1..k /\ minted + 1 \notin 1..minted
  BY <1>6
<1>8. /\ C \subseteq NodeRecords(k) /\ \A c \in C : c.id \notin 1..minted
      /\ \A n, c \in C : n.addr = c.addr => n = c
  BY <1>4, <1>5, <1>7 DEF Node, NodeRecords, Sources
<1>9. \A n \in own.nodes, c \in C : n.addr # c.addr
  <2>1. \A n \in own.nodes : n.addr = b => n.id \in NodesFor(own.nodes, b)
    BY DEF NodesFor
  <2>2. NodesFor(own.nodes, b) = {} /\ \A c \in C : c.addr = b
    BY <1>4, <1>5 DEF Node
  <2>3. QED BY <2>1, <2>2
<1>10. PICK w : w = [name |-> minted + 1, nodes |-> M \cup C, edges |-> F]
  OBVIOUS
<1>11. w \in Stored(k)
  <2>1. w = [name |-> minted + 1, nodes |-> own.nodes \cup C, edges |-> own.edges]
    BY <1>3, <1>10
  <2>2. QED BY <1>7, <1>8, <1>9, <2>1, NodesAddedStored
<1>12. d = w
  <2>1. d = [own EXCEPT !.name = minted + 1, !.nodes = M \cup C]
    BY <1>3, <1>4, <1>5
  <2>2. d = [name |-> minted + 1, nodes |-> M \cup C, edges |-> F]
    BY ONLY <1>2, <2>1
  <2>3. QED BY <1>10, <2>2
<1>13. QED BY <1>6, <1>11, <1>12

\* What an editor may save, from what it read.
LEMMA ResultStored ==
  ASSUME minted \in Nat, NEW o, o.own \in Stored(minted), o.kind \in Kinds,
         o.kind = "import" => o.others \in Views(minted), NEW d \in Results(o)
  PROVE  d \in Stored(minted + 3) \cup {Gone}
<1>1. CASE o.kind = "import"
  <2>1. PICK r \in Transfers : d \in Imports(o.own, o.others, r)
    BY <1>1 DEF Results
  <2>2. QED BY <1>1, <2>1, ImportStored
<1>2. CASE o.kind = "edit"
  <2>1. d \in {Gone} \cup Grouped(o.own) \cup Changes(o.own, minted + 1, Ids(o.own.nodes))
    BY <1>2 DEF Results
  <2>2. minted + 3 \in Nat /\ minted <= minted + 3 /\ minted + 1 \in 1..(minted + 3) /\ 1..minted \subseteq 1..(minted + 3)
    OBVIOUS
  <2>3. Ids(o.own.nodes) \subseteq 1..minted
    BY ShapeForm DEF Ids, Stored, NodeRecords
  <2>4. o.own \in Stored(minted + 3) /\ Ids(o.own.nodes) \subseteq 1..(minted + 3)
    BY <2>2, <2>3, StoredGrows
  <2>5. Changes(o.own, minted + 1, Ids(o.own.nodes)) \subseteq Stored(minted + 3)
    BY <2>2, <2>4, ChangesStored
  <2>6. QED BY <2>1, <2>5, GroupStored
<1>3. QED BY <1>1, <1>2 DEF Kinds

\* An extraction moves nodes and edges, and what it moves is written by hand.
LEMMA ExtractedStored ==
  ASSUME NEW m \in Nat, NEW v \in Views(m), NEW t \in Traces, NEW S, NEW i \in 1..m
  PROVE  Extracted(v, t, S, i) \in Views(m) /\ Present(Extracted(v, t, S, i)) = Present(v) \cup {t}
<1>1. PICK N, E : N = UNION {v[s].nodes : s \in Present(v)} /\ E = UNION {v[s].edges : s \in Present(v)}
  OBVIOUS
<1>2. N \subseteq NodeRecords(m) /\ E \subseteq EdgeRecords(m)
  BY <1>1, ViewNodes, ShapeForm DEF Stored
<1>3. PICK W, X : /\ W = {e \in E : e.from \in S /\ e.to \in S}
                  /\ X = {e \in E : e.from \in S <=> e.to \notin S}
  OBVIOUS
<1>4. PICK Y : Y = {[e EXCEPT !.from = IF @ \in S THEN i ELSE @, !.to = IF @ \in S THEN i ELSE @] : e \in X}
  OBVIOUS
<1>5. Y \subseteq EdgeRecords(m)
  BY <1>2, <1>3, <1>4 DEF EdgeRecords
<1>6. PICK P, Q : P = Own({n \in N : n.id \in S}) /\ Q = Own(W \cup Y)
  OBVIOUS
<1>7. P \subseteq NodeRecords(m) /\ \A n \in P : n.by = "hand"
  <2>1. {n \in N : n.id \in S} \subseteq NodeRecords(m)
    BY <1>2
  <2>2. QED BY <1>6, <2>1 DEF Own, NodeRecords, Sources
<1>8. Q \subseteq EdgeRecords(m) /\ \A e \in Q : e.by = "hand"
  <2>1. W \cup Y \subseteq EdgeRecords(m)
    BY <1>2, <1>3, <1>5
  <2>2. QED BY <1>6, <2>1 DEF Own, EdgeRecords, Sources
<1>9. PICK h : h = [Empty EXCEPT !.nodes = P, !.edges = Q]
  OBVIOUS
<1>10. h \in Stored(m)
  <2>0. 0 \in 0..m
    OBVIOUS
  <2>1. h = [name |-> 0, nodes |-> P, edges |-> Q]
    BY ONLY <1>9 DEF Empty
  <2>2. h \in Shape(m) /\ h.nodes = P /\ h.edges = Q
    BY <1>7, <1>8, <2>0, <2>1, ShapeMake
  <2>3. QED BY <1>7, <1>8, <2>2, ByHandStored
<1>11. ASSUME NEW s \in Present(v)
       PROVE  [v[s] EXCEPT !.nodes = {n \in @ : n.id \notin S}, !.edges = {e \in @ : e.from \notin S /\ e.to \notin S}] \in Stored(m)
  <2>1. v[s] \in Stored(m) /\ v[s] \in Shape(m)
    BY ViewNodes DEF Stored
  <2>2. PICK a, M, F : v[s] = [name |-> a, nodes |-> M, edges |-> F] /\ a \in 0..m
                       /\ M \subseteq NodeRecords(m) /\ F \subseteq EdgeRecords(m)
    BY <2>1, ShapeForm
  <2>3. PICK L, G : L = {n \in M : n.id \notin S} /\ G = {e \in F : e.from \notin S /\ e.to \notin S}
    OBVIOUS
  <2>4. PICK w : w = [name |-> a, nodes |-> L, edges |-> G]
    OBVIOUS
  <2>5. w \in Shape(m) /\ w.nodes = L /\ w.edges = G /\ v[s].nodes = M /\ v[s].edges = F
    BY <2>2, <2>3, <2>4, ShapeMake
  <2>6. ASSUME NEW e \in w.edges, NEW j \in {e.from, e.to} PROVE \A x : StandsFor(w, j, x) => StandsFor(v[s], j, x)
    BY <2>3, <2>5, <2>6, StandsForSame
  <2>7. w \in Stored(m)
    BY <2>1, <2>3, <2>5, <2>6, Kept
  <2>8. [v[s] EXCEPT !.nodes = {n \in @ : n.id \notin S}, !.edges = {e \in @ : e.from \notin S /\ e.to \notin S}]
          = [v[s] EXCEPT !.nodes = L, !.edges = G]
    BY <2>3, <2>5
  <2>9. [v[s] EXCEPT !.nodes = L, !.edges = G] = w
    <3>1. PICK u, y : u = v[s] /\ y = [u EXCEPT !.nodes = L, !.edges = G]
      OBVIOUS
    <3>2. u = [name |-> a, nodes |-> M, edges |-> F] /\ y = [u EXCEPT !.nodes = L, !.edges = G]
      BY <2>2, <3>1
    <3>3. y = [name |-> a, nodes |-> L, edges |-> G]
      BY ONLY <3>2
    <3>4. QED BY <2>4, <3>1, <3>3
  <2>10. QED BY <2>7, <2>8, <2>9
<1>12. Extracted(v, t, S, i) =
         [s \in Traces |-> IF s = t THEN h ELSE IF v[s] = Gone THEN Gone
            ELSE [v[s] EXCEPT !.nodes = {n \in @ : n.id \notin S}, !.edges = {e \in @ : e.from \notin S /\ e.to \notin S}]]
  BY <1>1, <1>3, <1>4, <1>6, <1>9, Zenon DEF Extracted
<1>13. PICK z : z = [s \in Traces |->
                       [v[s] EXCEPT !.nodes = {n \in @ : n.id \notin S}, !.edges = {e \in @ : e.from \notin S /\ e.to \notin S}]]
  OBVIOUS
<1>14. \A s \in Present(v) : z[s] \in Stored(m)
  BY <1>11, <1>13 DEF Present
<1>15. Extracted(v, t, S, i) = [s \in Traces |-> IF s = t THEN h ELSE IF v[s] = Gone THEN Gone ELSE z[s]]
  BY <1>12, <1>13
<1>16. Extracted(v, t, S, i) \in Views(m)
  BY ONLY <1>10, <1>14, <1>15 DEF Views, Present
<1>17. Gone \notin Stored(m)
  BY GoneIsNoValue
<1>18. Present(Extracted(v, t, S, i)) = Present(v) \cup {t}
  BY ONLY <1>10, <1>14, <1>15, <1>17, t \in Traces DEF Present
<1>19. QED BY <1>16, <1>18

-----------------------------------------------------------------------------
(* Every step keeps the copies free of duplicates.                          *)

LEMMA SeqGrows ==
  ASSUME NEW S, NEW T, S \subseteq T, NEW s \in Seq(S) PROVE s \in Seq(T)
  OBVIOUS

LEMMA SeqAppend == ASSUME NEW S, NEW s \in Seq(S), NEW x \in S PROVE Append(s, x) \in Seq(S)
  OBVIOUS

LEMMA SeqPrepend == ASSUME NEW S, NEW s \in Seq(S), NEW x \in S PROVE <<x>> \o s \in Seq(S)
  OBVIOUS

LEMMA SeqItem == ASSUME NEW S, NEW s \in Seq(S), NEW i \in DOMAIN s PROVE s[i] \in S
  OBVIOUS

LEMMA SeqFirst == ASSUME NEW S, NEW s \in Seq(S), s # <<>> PROVE Head(s) \in S /\ Tail(s) \in Seq(S)
  OBVIOUS

LEMMA SeqLast == ASSUME NEW S, NEW s \in Seq(S), s # <<>> PROVE s[Len(s)] \in S
<1>1. Len(s) \in 1..Len(s)
  OBVIOUS
<1>2. QED BY <1>1

LEMMA SeqFront == ASSUME NEW S, NEW s \in Seq(S), s # <<>> PROVE SubSeq(s, 1, Len(s) - 1) \in Seq(S)
<1>1. Len(s) - 1 \in 0..Len(s)
  OBVIOUS
<1>2. QED BY <1>1

LEMMA ViewUpdate ==
  ASSUME NEW m, NEW v \in Views(m), NEW t \in Traces, NEW d \in Stored(m) \cup {Gone}
  PROVE  [v EXCEPT ![t] = d] \in Views(m)
  BY DEF Views

LEMMA GraphGrows ==
  ASSUME NEW m \in Nat, NEW k \in Nat, m <= k, Graph(m) PROVE Graph(k)
<1>1. Stored(m) \subseteq Stored(k) /\ Views(m) \subseteq Views(k)
  BY StoredGrows
<1>2. Server(k)
  BY <1>1 DEF Graph, Server
<1>3. Saves(k)
  BY <1>1 DEF Graph, Saves
<1>4. Browser(k)
  <2>1. [view : Views(m), fresh : BOOLEAN] \subseteq [view : Views(k), fresh : BOOLEAN]
    BY <1>1
  <2>2. past \in Seq([view : Views(k), fresh : BOOLEAN]) /\ future \in Seq(Views(k))
    <3>1. past \in Seq([view : Views(m), fresh : BOOLEAN]) /\ future \in Seq(Views(m))
      BY DEF Graph, Browser
    <3>2. past \in Seq([view : Views(k), fresh : BOOLEAN])
      BY ONLY <2>1, <3>1, SeqGrows
    <3>3. future \in Seq(Views(k))
      BY ONLY <1>1, <3>1, SeqGrows
    <3>4. QED BY <3>2, <3>3
  <2>3. 1..m \subseteq 1..k
    OBVIOUS
  <2>4. created \subseteq [trace : Traces, nodes : SUBSET (1..k)]
    BY <2>3 DEF Graph, Browser
  <2>5. QED BY <1>1, <2>2, <2>4 DEF Graph, Browser
<1>5. Requests(k)
  BY <1>1 DEF Graph, Requests
<1>6. QED BY <1>2, <1>3, <1>4, <1>5 DEF Graph

\* The requests of the editors.
LEMMA ServeStep ==
  ASSUME Counters, Graph(minted), NEW e \in Editors, Serve(e)
  PROVE  Graph(minted)'
<1>1. minted \in Nat
  BY DEF Counters
<1>2. CASE BeginEdit(e)
  <2>1. PICK t \in Present(data), k \in Kinds :
          op' = [op EXCEPT ![e] = [kind |-> k, trace |-> t, own |-> data[t], others |-> Gone,
                                   at |-> IF k = "import" THEN "siblings" ELSE "save"]]
    BY <1>2 DEF BeginEdit
  <2>2. t \in Traces /\ data[t] \in Stored(minted)
    BY <1>1, ViewNodes DEF Graph, Server
  <2>3. Requests(minted)'
    BY <1>2, <2>1, <2>2 DEF Graph, Requests, BeginEdit
  <2>4. Server(minted)' /\ Browser(minted)' /\ Saves(minted)'
    BY <1>2 DEF Graph, Server, Browser, Saves, BeginEdit, browser, shown, history, pending
  <2>5. QED BY <2>3, <2>4 DEF Graph
<1>3. CASE ReadSiblings(e)
  <2>1. op[e].trace \in Traces /\ op[e].kind \in Kinds /\ op[e].own \in Stored(minted)
    BY <1>3 DEF Graph, Requests, ReadSiblings
  <2>2. [data EXCEPT ![op[e].trace] = Gone] \in Views(minted)
    BY <2>1, ViewUpdate DEF Graph, Server
  <2>3. Requests(minted)'
    BY <1>3, <2>1, <2>2 DEF Graph, Requests, ReadSiblings
  <2>4. Server(minted)' /\ Browser(minted)' /\ Saves(minted)'
    BY <1>3 DEF Graph, Server, Browser, Saves, ReadSiblings, browser, shown, history, pending
  <2>5. QED BY <2>3, <2>4 DEF Graph
<1>4. CASE SaveTrace(e)
  <2>1. /\ op[e].trace \in Traces /\ op[e].kind \in Kinds /\ op[e].own \in Stored(minted)
        /\ op[e].kind = "import" => op[e].others \in Views(minted)
    BY <1>4 DEF Graph, Requests, SaveTrace
  <2>2. minted' = minted + 3 /\ minted + 3 \in Nat /\ minted <= minted + 3
    BY <1>1, <1>4 DEF SaveTrace
  <2>3. data' = data \/ \E d \in Stored(minted + 3) \cup {Gone} : data' = [data EXCEPT ![op[e].trace] = d]
    <3>1. CASE \E d \in Results(op[e]) : data' = [data EXCEPT ![op[e].trace] = d]
      BY <1>1, <2>1, <3>1, ResultStored
    <3>2. QED BY <1>4, <3>1 DEF SaveTrace
  <2>4. Graph(minted + 3)
    BY <1>1, <2>2, GraphGrows
  <2>5. Server(minted)'
    <3>1. data \in Views(minted + 3)
      BY <2>4 DEF Graph, Server
    <3>2. data' \in Views(minted + 3)
      BY ONLY <2>1, <2>3, <3>1, ViewUpdate
    <3>3. QED BY <2>2, <3>2 DEF Server
  <2>6. Requests(minted)'
    BY <1>4, <2>2, <2>4 DEF Graph, Requests, SaveTrace, NoEdit
  <2>7. Browser(minted)' /\ Saves(minted)'
    BY <1>4, <2>2, <2>4 DEF Graph, Browser, Saves, SaveTrace, browser, shown, history, pending
  <2>8. QED BY <2>5, <2>6, <2>7 DEF Graph
<1>5. CASE AbandonEdit(e)
  BY <1>5 DEF Graph, Server, Browser, Saves, Requests, AbandonEdit, NoEdit, browser, shown, history, pending
<1>6. QED BY <1>2, <1>3, <1>4, <1>5 DEF Serve

\* A trace that an editor adds is written by hand.
LEMMA CreateStep ==
  ASSUME Counters, Graph(minted), Create PROVE Graph(minted)'
<1>1. minted \in Nat /\ minted' = minted + 1 /\ minted + 1 \in Nat /\ minted <= minted + 1
      /\ minted + 1 \in 1..(minted + 1) /\ unborn \subseteq Traces
  BY DEF Counters, Create
<1>2. Graph(minted + 1)
  BY <1>1, GraphGrows
<1>3. PICK t \in unborn, d \in {Empty} \cup Changes(Empty, minted + 1, {}) : data' = [data EXCEPT ![t] = d]
  BY DEF Create
<1>4. d \in Stored(minted + 1)
  <2>1. Empty \in Stored(minted + 1)
    BY <1>1, EmptyStored
  <2>2. Changes(Empty, minted + 1, {}) \subseteq Stored(minted + 1)
    BY <1>1, <2>1, ChangesStored
  <2>3. QED BY <2>1, <2>2
<1>5. Server(minted)'
  BY <1>1, <1>2, <1>3, <1>4, ViewUpdate DEF Graph, Server
<1>6. Browser(minted)' /\ Saves(minted)' /\ Requests(minted)'
  BY <1>1, <1>2 DEF Graph, Browser, Saves, Requests, Create, browser, shown, history, pending
<1>7. QED BY <1>5, <1>6 DEF Graph

\* What an edit of the user shows.
LEMMA EditShows ==
  ASSUME Counters, Graph(minted), UserEdit \/ UserMove
  PROVE  \E t \in Present(view), d \in Stored(minted + 1) : Shows([view EXCEPT ![t] = d])
<1>1. minted \in Nat /\ minted + 1 \in Nat /\ minted <= minted + 1 /\ minted < minted + 1
      /\ minted + 1 \in 1..(minted + 1) /\ minted + 1 \in 0..(minted + 1) /\ 1..minted \subseteq 1..(minted + 1)
  BY DEF Counters
<1>2. view \in Views(minted)
  BY DEF Graph, Browser, UserEdit, UserMove
<1>3. \A t \in Present(view) : view[t] \in Stored(minted + 1)
  BY <1>1, <1>2, ViewNodes, StoredGrows
<1>4. ViewIds(view) \subseteq 1..(minted + 1)
  BY <1>1, <1>2, NodeIds
<1>5. CASE UserEdit
  <2>1. PICK t \in Present(view) : \E d \in Changes(view[t], minted + 1, ViewIds(view)) : Shows([view EXCEPT ![t] = d])
    BY <1>5 DEF UserEdit
  <2>2. Changes(view[t], minted + 1, ViewIds(view)) \subseteq Stored(minted + 1)
    BY <1>1, <1>3, <1>4, ChangesStored
  <2>3. QED BY <2>1, <2>2
<1>6. CASE UserMove
  <2>1. PICK t \in Present(view) : Shows([view EXCEPT ![t].name = minted + 1])
    BY <1>6 DEF UserMove
  <2>2. PICK d : d = [view[t] EXCEPT !.name = minted + 1]
    OBVIOUS
  <2>3. d \in Stored(minted + 1)
    BY <1>1, <1>3, <2>2, RenameStored
  <2>4. [view EXCEPT ![t].name = minted + 1] = [view EXCEPT ![t] = d]
    BY <2>2
  <2>5. QED BY <2>1, <2>3, <2>4
<1>7. QED BY <1>5, <1>6

\* Another investigation is shown, with what is on the stacks.
LEMMA ShowsBrowser ==
  ASSUME NEW k \in Nat, Browser(k), NEW v \in Views(k), Shows(v), minted' = k,
         UNCHANGED loads, created' \subseteq [trace : Traces, nodes : SUBSET (1..k)],
         past' \in Seq([view : Views(k), fresh : BOOLEAN]), future' \in Seq(Views(k))
  PROVE  Browser(minted)'
<1>1. view' = v /\ timer' = v
  BY DEF Shows
<1>2. QED BY <1>1 DEF Browser

LEMMA RecordedPast ==
  ASSUME NEW k, Browser(k), fresh \in BOOLEAN, view \in Views(k), Recorded
  PROVE  past' \in Seq([view : Views(k), fresh : BOOLEAN])
<1>1. [view |-> view, fresh |-> fresh] \in [view : Views(k), fresh : BOOLEAN]
  BY DEF Browser
<1>2. past \in Seq([view : Views(k), fresh : BOOLEAN])
  BY DEF Browser
<1>3. QED BY <1>1, <1>2, SeqAppend DEF Recorded

\* The browser: what arrives and what the user does.
LEMMA ShowStep ==
  ASSUME Counters, Graph(minted), Show
  PROVE  Graph(minted)'
<1>1. minted \in Nat /\ fresh \in BOOLEAN /\ Browser(minted) /\ minted <= minted
  BY DEF Counters, Graph
<1>2. CASE LoadArrives
  <2>1. Browser(minted)'
    <3>1. /\ view' \in loads /\ loads' \subseteq loads /\ past' = <<>> /\ future' = <<>> /\ timer' = Gone
          /\ UNCHANGED <<created, minted>>
      BY <1>2 DEF LoadArrives
    <3>2. QED BY <1>1, <3>1 DEF Browser
  <2>2. QED BY <1>2, <2>1 DEF Graph, Server, Saves, Requests, LoadArrives
<1>3. CASE UserEdit \/ UserMove
  <2>1. minted' = minted + 1 /\ minted + 1 \in Nat /\ minted <= minted + 1 /\ view # Gone /\ UNCHANGED <<data, op, pending>>
    BY <1>1, <1>3 DEF UserEdit, UserMove
  <2>2. Graph(minted + 1)
    BY <1>1, <2>1, GraphGrows
  <2>3. view \in Views(minted + 1) /\ Browser(minted + 1)
    BY <2>1, <2>2 DEF Graph, Browser
  <2>4. PICK t \in Present(view), d \in Stored(minted + 1) : Shows([view EXCEPT ![t] = d])
    BY <1>3, EditShows
  <2>5. [view EXCEPT ![t] = d] \in Views(minted + 1)
    BY <2>3, ViewUpdate DEF Present
  <2>6. past' \in Seq([view : Views(minted + 1), fresh : BOOLEAN]) /\ future' \in Seq(Views(minted + 1))
    <3>1. CASE UserMove
      BY <2>3, <3>1 DEF UserMove, Browser, history
    <3>2. CASE UserEdit
      <4>1. past' \in Seq([view : Views(minted + 1), fresh : BOOLEAN])
        BY <1>1, <2>3, <3>2, RecordedPast DEF UserEdit
      <4>2. QED BY <3>2, <4>1 DEF UserEdit
    <3>3. QED BY <1>3, <3>1, <3>2
  <2>7. UNCHANGED loads /\ created' \subseteq [trace : Traces, nodes : SUBSET (1..(minted + 1))]
    BY <2>1, <2>3 DEF pending, Browser
  <2>8. Browser(minted)'
    BY <2>1, <2>3, <2>4, <2>5, <2>6, <2>7, ShowsBrowser
  <2>9. QED BY <2>1, <2>2, <2>8 DEF Graph, Server, Saves, Requests, pending
<1>4. CASE DeleteTrace
  <2>1. view # Gone /\ view \in Views(minted) /\ UNCHANGED <<data, minted, op, loops, loads, created>>
    BY <1>1, <1>4 DEF DeleteTrace, Browser
  <2>2. PICK t \in Present(view) : Shows([view EXCEPT ![t] = Gone])
    BY <1>4 DEF DeleteTrace
  <2>3. [view EXCEPT ![t] = Gone] \in Views(minted)
    BY <2>1, ViewUpdate DEF Present
  <2>4. past' \in Seq([view : Views(minted), fresh : BOOLEAN]) /\ future' \in Seq(Views(minted))
    <3>1. past' \in Seq([view : Views(minted), fresh : BOOLEAN])
      BY <1>1, <1>4, <2>1, RecordedPast DEF DeleteTrace
    <3>2. QED BY <1>4, <3>1 DEF DeleteTrace
  <2>5. created' \subseteq [trace : Traces, nodes : SUBSET (1..minted)]
    BY <1>1, <2>1 DEF Browser
  <2>6. Browser(minted)'
    BY <1>1, <2>1, <2>2, <2>3, <2>4, <2>5, ShowsBrowser
  <2>7. QED BY <2>1, <2>6 DEF Graph, Server, Saves, Requests
<1>5. CASE Undo
  <2>1. /\ past # <<>> /\ past \in Seq([view : Views(minted), fresh : BOOLEAN]) /\ future \in Seq(Views(minted))
        /\ view \in Views(minted)
    BY <1>1, <1>5 DEF Undo, Browser
  <2>2. past[Len(past)] \in [view : Views(minted), fresh : BOOLEAN]
    BY <2>1, SeqLast
  <2>3. past' \in Seq([view : Views(minted), fresh : BOOLEAN])
    <3>1. past' = SubSeq(past, 1, Len(past) - 1)
      BY <1>5 DEF Undo
    <3>2. QED BY <2>1, <3>1, SeqFront
  <2>4. future' \in Seq(Views(minted))
    <3>1. future' = <<view>> \o future
      BY <1>5 DEF Undo
    <3>2. QED BY <2>1, <3>1, SeqPrepend
  <2>5. view' \in Views(minted) /\ timer' \in Views(minted) \cup {Gone} /\ UNCHANGED <<minted, loads, created>>
    BY <1>5, <2>2 DEF Undo, pending
  <2>6. Browser(minted)'
    BY <1>1, <2>3, <2>4, <2>5 DEF Browser
  <2>7. QED BY <1>5, <2>6 DEF Undo, Graph, Server, Saves, Requests, pending
<1>6. CASE Redo
  <2>1. future # <<>> /\ future \in Seq(Views(minted)) /\ view \in Views(minted)
    BY <1>1, <1>6 DEF Redo, Browser
  <2>2. Head(future) \in Views(minted) /\ Tail(future) \in Seq(Views(minted))
    BY <2>1, SeqFirst
  <2>3. past' \in Seq([view : Views(minted), fresh : BOOLEAN]) /\ future' \in Seq(Views(minted))
    <3>1. past' \in Seq([view : Views(minted), fresh : BOOLEAN])
      BY <1>1, <1>6, <2>1, RecordedPast DEF Redo
    <3>2. QED BY <1>6, <2>2, <3>1 DEF Redo
  <2>4. minted' = minted /\ UNCHANGED loads /\ created' \subseteq [trace : Traces, nodes : SUBSET (1..minted)]
    BY <1>1, <1>6 DEF Redo, pending, Browser
  <2>5. Shows(Head(future))
    BY <1>6 DEF Redo
  <2>6. Browser(minted)'
    BY <1>1, <2>2, <2>3, <2>4, <2>5, ShowsBrowser
  <2>7. QED BY <1>6, <2>6 DEF Redo, Graph, Server, Saves, Requests, pending
<1>7. ASSUME NEW c \in created, CreateAnswered(c) PROVE Graph(minted)'
  <2>1. /\ view \in Views(minted) /\ c \in [trace : Traces, nodes : SUBSET (1..minted)]
        /\ UNCHANGED <<data, minted, op, loops, loads>> /\ created' \subseteq created /\ future' = <<>>
    BY <1>1, <1>7 DEF CreateAnswered, Browser
  <2>2. created' \subseteq [trace : Traces, nodes : SUBSET (1..minted)] /\ future' \in Seq(Views(minted))
    BY <1>1, <2>1 DEF Browser
  <2>3. ASSUME UNCHANGED <<view, past, timer>> PROVE Browser(minted)'
    BY <1>1, <2>1, <2>2, <2>3 DEF Browser
  <2>4. ASSUME ~UNCHANGED <<view, past, timer>> PROVE Browser(minted)'
    <3>1. PICK v \in Views(minted) : Shows(v) /\ Recorded
      <4>1. CASE Shows([view EXCEPT ![c.trace] = Empty]) /\ Recorded
        <5>1. [view EXCEPT ![c.trace] = Empty] \in Views(minted)
          BY <1>1, <2>1, EmptyStored, ViewUpdate
        <5>2. QED BY <4>1, <5>1
      <4>2. ASSUME NEW i \in c.nodes \cap ViewIds(view), Recorded,
                   Shows(Extracted(view, c.trace, c.nodes \cap ViewIds(view), i))
            PROVE  \E v \in Views(minted) : Shows(v) /\ Recorded
        <5>1. i \in 1..minted /\ c.trace \in Traces
          BY <2>1
        <5>2. Extracted(view, c.trace, c.nodes \cap ViewIds(view), i) \in Views(minted)
          BY <1>1, <2>1, <5>1, ExtractedStored
        <5>3. QED BY <4>2, <5>2
      <4>3. QED BY <1>7, <2>4, <4>1, <4>2 DEF CreateAnswered
    <3>2. past' \in Seq([view : Views(minted), fresh : BOOLEAN])
      BY <1>1, <2>1, <3>1, RecordedPast
    <3>3. QED BY <1>1, <2>1, <2>2, <3>1, <3>2, ShowsBrowser
  <2>5. Browser(minted)'
    BY <2>3, <2>4
  <2>6. QED BY <2>1, <2>5 DEF Graph, Server, Saves, Requests
<1>8. QED BY <1>2, <1>3, <1>4, <1>5, <1>6, <1>7 DEF Show

\* What it asks of the server: loads, saves, additions and deletions.
LEMMA AskStep ==
  ASSUME Counters, Graph(minted), Ask
  PROVE  Graph(minted)'
<1>1. minted \in Nat /\ Browser(minted) /\ unborn \subseteq Traces /\ deleted \subseteq Traces
  BY DEF Counters, Graph
<1>2. CASE LoadInvestigation \/ LoadFails
  <2>1. loads' \subseteq loads \cup {data} /\ UNCHANGED <<data, minted, op, shown, loops, created>>
    BY <1>2 DEF LoadInvestigation, LoadFails
  <2>2. Browser(minted)'
    BY <1>1, <2>1 DEF Graph, Server, Browser, shown, history
  <2>3. QED BY <2>1, <2>2 DEF Graph, Server, Saves, Requests
<1>3. CASE CreateTrace
  <2>1. PICK t \in unborn, S \in {R \in SUBSET ViewIds(view) : Cardinality(R) # 1} :
          data' = [data EXCEPT ![t] = Empty] /\ created' = created \cup {[trace |-> t, nodes |-> S]}
    BY <1>3 DEF CreateTrace
  <2>2. view # Gone /\ view \in Views(minted) /\ UNCHANGED <<minted, op, shown, loops, loads>> /\ t \in Traces
    BY <1>1, <1>3 DEF CreateTrace, Browser
  <2>3. Server(minted)'
    BY <1>1, <2>1, <2>2, EmptyStored, ViewUpdate DEF Graph, Server
  <2>4. S \subseteq 1..minted
    BY <1>1, <2>2, NodeIds
  <2>5. [trace |-> t, nodes |-> S] \in [trace : Traces, nodes : SUBSET (1..minted)]
    BY <2>2, <2>4
  <2>6. Browser(minted)'
    BY <1>1, <2>1, <2>2, <2>5 DEF Browser, shown, history
  <2>7. QED BY <2>2, <2>3, <2>6 DEF Graph, Saves, Requests
<1>4. CASE TimerFires
  <2>1. timer \in Views(minted) \cup {Gone} /\ timer # Gone
    BY <1>1, <1>4 DEF TimerFires, Browser
  <2>2. Loop(Present(timer), timer) \subseteq [left : SUBSET Traces, found : Traces \cup {Gone}, snap : Views(minted)]
    BY <2>1 DEF Loop, Present
  <2>3. Saves(minted)'
    BY <1>4, <2>2 DEF TimerFires, Graph, Saves
  <2>4. QED BY <1>4, <2>3 DEF TimerFires, Graph, Server, Browser, Requests, history
<1>5. ASSUME NEW c \in created, CreateFails(c) PROVE Graph(minted)'
  BY <1>5 DEF CreateFails, Graph, Server, Browser, Saves, Requests, shown, history
<1>6. ASSUME NEW t \in deleted, DeleteArrives(t) PROVE Graph(minted)'
  <2>1. t \in Traces /\ data' = [data EXCEPT ![t] = Gone] /\ minted' = minted
    BY <1>1, <1>6 DEF DeleteArrives
  <2>2. Server(minted)'
    BY <2>1, ViewUpdate DEF Graph, Server
  <2>3. QED BY <1>6, <2>2 DEF DeleteArrives, Graph, Browser, Saves, Requests, shown, history
<1>7. ASSUME NEW t \in deleted, DeleteFails(t) PROVE Graph(minted)'
  BY <1>7 DEF DeleteFails, Graph, Server, Browser, Saves, Requests, shown, history
<1>8. ASSUME NEW l \in loops, PatchFinds(l) \/ PatchSaves(l) \/ LoopFails(l) PROVE Graph(minted)'
  <2>1. l \in [left : SUBSET Traces, found : Traces \cup {Gone}, snap : Views(minted)]
    BY DEF Graph, Saves
  <2>2. CASE PatchFinds(l)
    <3>1. UNCHANGED <<data, minted, op, shown, loads, created>>
      BY <2>2 DEF PatchFinds
    <3>2. loops' \subseteq loops \/ \E t \in l.left : loops' = (loops \ {l}) \cup {[l EXCEPT !.found = t]}
      BY <2>2 DEF PatchFinds
    <3>3. \A t \in l.left : [l EXCEPT !.found = t] \in [left : SUBSET Traces, found : Traces \cup {Gone}, snap : Views(minted)]
      BY <2>1
    <3>4. Saves(minted)'
      BY <3>1, <3>2, <3>3 DEF Graph, Saves
    <3>5. QED BY <3>1, <3>4 DEF Graph, Server, Browser, Requests, shown, history
  <2>3. CASE PatchSaves(l)
    <3>1. l.found \in Traces /\ UNCHANGED <<minted, op, shown, loads, created>>
      BY <2>1, <2>3 DEF PatchSaves
    <3>2. l.snap[l.found] \in Stored(minted) \cup {Gone}
      BY <2>1, <3>1 DEF Views
    <3>3. Server(minted)'
      <4>1. data' = data \/ data' = [data EXCEPT ![l.found] = l.snap[l.found]]
        BY <2>3 DEF PatchSaves
      <4>2. data \in Views(minted)
        BY DEF Graph, Server
      <4>3. [data EXCEPT ![l.found] = l.snap[l.found]] \in Views(minted)
        BY <3>1, <3>2, <4>2, ViewUpdate
      <4>4. QED BY <3>1, <4>1, <4>2, <4>3 DEF Server
    <3>4. Loop(l.left \ {l.found}, l.snap) \subseteq [left : SUBSET Traces, found : Traces \cup {Gone}, snap : Views(minted)]
      BY <2>1 DEF Loop
    <3>5. Saves(minted)'
      BY <2>3, <3>1, <3>4 DEF PatchSaves, Graph, Saves
    <3>6. QED BY <3>1, <3>3, <3>5 DEF Graph, Browser, Requests, shown, history
  <2>4. CASE LoopFails(l)
    BY <2>4 DEF LoopFails, Graph, Server, Browser, Saves, Requests, shown, history
  <2>5. QED BY <1>8, <2>2, <2>3, <2>4
<1>9. QED BY <1>2, <1>3, <1>4, <1>5, <1>6, <1>7, <1>8 DEF Ask

\* Before the first request: nothing, or one import.
LEMMA ImportedStored == ASSUME NEW r \in Transfers PROVE Imported(r) \in Stored(3)
<1>1. PICK to : to = IF r.to = r.from THEN 1 ELSE 2
  OBVIOUS
<1>2. PICK M, F : M = {Node(1, r.from), Node(to, r.to)} /\ F = {Edge(3, r, 1, to)}
  OBVIOUS
<1>3. Imported(r) = [name |-> 0, nodes |-> M, edges |-> F]
  BY <1>1, <1>2 DEF Imported
<1>4. 0 \in 0..3 /\ 1 \in 1..3 /\ 3 \in 1..3 /\ to \in 1..3 /\ (r.to = r.from => to = 1)
  BY <1>1
<1>5. r.from \in Addrs /\ r.to \in Addrs
  BY DEF Addrs
<1>6. M \subseteq NodeRecords(3)
  BY <1>2, <1>4, <1>5 DEF Node, NodeRecords, Sources
<1>7. F \subseteq EdgeRecords(3)
  BY <1>2, <1>4 DEF Edge, EdgeRecords, Sources
<1>8. Imported(r) \in Shape(3) /\ Imported(r).nodes = M /\ Imported(r).edges = F
  BY <1>3, <1>4, <1>6, <1>7, ShapeMake
<1>9. \A n, c \in M : n.addr = c.addr => n = c
  BY <1>2, <1>4 DEF Node
<1>10. \A e, f \in F : e = f
  BY <1>2
<1>11. QED BY <1>8, <1>9, <1>10 DEF Stored, OneFactEach

LEMMA GraphInit == Init => GraphInv
<1> SUFFICES ASSUME Init PROVE GraphInv
  OBVIOUS
<1>1. PICK first \in Traces, d \in {Empty} \cup {Imported(r) : r \in Given} :
        data = [t \in Traces |-> IF t \in unborn THEN Gone ELSE IF t = first THEN d ELSE Empty]
  BY DEF Init
<1>2. Empty \in Stored(3) /\ d \in Stored(3)
  BY EmptyStored, ImportedStored, TransfersAssumption
<1>3. Server(3)
  BY <1>1, <1>2 DEF Server, Views
<1>4. Browser(3) /\ Saves(3)
  BY DEF Init, Browser, Saves
<1>5. Requests(3)
  BY DEF Init, Requests, NoEdit
<1>6. Counters /\ minted = 3
  <2>1. /\ minted = 3 /\ edits = 0 /\ fresh = FALSE /\ excuse = {} /\ deleted = {} /\ unborn \subseteq Traces
    BY DEF Init
  <2>2. 0 \in 0..MaxEdits
    BY BoundsAssumption
  <2>3. QED BY <2>1, <2>2 DEF Counters
<1>7. QED BY <1>3, <1>4, <1>5, <1>6 DEF GraphInv, Graph

LEMMA ExcuseType ==
  ASSUME NEW why, why \subseteq {"undo", "traces", "overlap"}, excuse \subseteq {"undo", "traces", "overlap"}, Excuse(why)
  PROVE  excuse' \subseteq {"undo", "traces", "overlap"}
  BY DEF Excuse

LEMMA OverlapType ==
  ASSUME NEW risk, excuse \subseteq {"undo", "traces", "overlap"}, Overlap(risk)
  PROVE  excuse' \subseteq {"undo", "traces", "overlap"}
<1>1. PICK why : why \subseteq {"undo", "traces", "overlap"} /\ Excuse(why)
  BY DEF Overlap
<1>2. QED BY <1>1, ExcuseType

LEMMA CountersStep == GraphInv /\ [Next]_vars => Counters'
<1> SUFFICES ASSUME GraphInv, [Next]_vars PROVE Counters'
  OBVIOUS
<1>1. Counters /\ Graph(minted)
  BY DEF GraphInv
<1>2. CASE UNCHANGED vars
  BY <1>1, <1>2 DEF Counters, vars, browser, shown, pending
<1>3. edits' \in 0..MaxEdits
  <2>1. \/ Edit \/ UNCHANGED edits
    BY DEF Next, Browse, Show, Ask, Serve, BeginEdit, ReadSiblings, SaveTrace, AbandonEdit, Create, LoadInvestigation,
           LoadFails, LoadArrives, UserEdit, UserMove, CreateTrace, CreateAnswered, CreateFails, DeleteTrace,
           DeleteArrives, DeleteFails, Undo, Redo, TimerFires, PatchFinds, PatchSaves, LoopFails, vars
  <2>2. QED BY <1>1, <2>1, BoundsAssumption DEF Edit, Counters
<1>4. minted' \in Nat
  <2>1. \/ minted' = minted + 3 \/ minted' = minted + 1 \/ UNCHANGED minted
    BY DEF Next, Browse, Show, Ask, Serve, BeginEdit, ReadSiblings, SaveTrace, AbandonEdit, Create, LoadInvestigation,
           LoadFails, LoadArrives, UserEdit, UserMove, CreateTrace, CreateAnswered, CreateFails, DeleteTrace,
           DeleteArrives, DeleteFails, Undo, Redo, TimerFires, PatchFinds, PatchSaves, LoopFails, vars
  <2>2. QED BY <1>1, <2>1 DEF Counters
<1>5. unborn' \subseteq Traces
  <2>1. unborn' \subseteq unborn
    BY DEF Next, Browse, Show, Ask, Serve, BeginEdit, ReadSiblings, SaveTrace, AbandonEdit, Create, LoadInvestigation,
           LoadFails, LoadArrives, UserEdit, UserMove, CreateTrace, CreateAnswered, CreateFails, DeleteTrace,
           DeleteArrives, DeleteFails, Undo, Redo, TimerFires, PatchFinds, PatchSaves, LoopFails, vars
  <2>2. QED BY <1>1, <2>1 DEF Counters
<1>6. deleted' \subseteq Traces
  <2>1. deleted' \subseteq deleted \cup Present(view)
    BY DEF Next, Browse, Show, Ask, Serve, BeginEdit, ReadSiblings, SaveTrace, AbandonEdit, Create, LoadInvestigation,
           LoadFails, LoadArrives, UserEdit, UserMove, CreateTrace, CreateAnswered, CreateFails, DeleteTrace,
           DeleteArrives, DeleteFails, Undo, Redo, TimerFires, PatchFinds, PatchSaves, LoopFails, vars, browser, pending
  <2>2. QED BY <1>1, <2>1 DEF Counters, Present
<1>7. fresh' \in BOOLEAN
  <2>1. CASE Undo
    <3>1. past \in Seq([view : Views(minted), fresh : BOOLEAN]) /\ past # <<>>
      BY <1>1, <2>1 DEF Graph, Browser, Undo
    <3>2. past[Len(past)] \in [view : Views(minted), fresh : BOOLEAN]
      BY <3>1, SeqLast
    <3>3. QED BY <2>1, <3>2 DEF Undo
  <2>2. CASE ~Undo
    <3>1. fresh' \in BOOLEAN \/ UNCHANGED fresh
      BY <2>2 DEF Next, Browse, Show, Ask, Serve, BeginEdit, ReadSiblings, SaveTrace, AbandonEdit, Create, LoadInvestigation,
           LoadFails, LoadArrives, UserEdit, UserMove, CreateTrace, CreateAnswered, CreateFails, DeleteTrace,
           DeleteArrives, DeleteFails, Redo, TimerFires, PatchFinds, PatchSaves, LoopFails, Shows, vars, browser, shown
    <3>2. QED BY <1>1, <3>1 DEF Counters
  <2>3. QED BY <2>1, <2>2
<1>8. excuse' \subseteq {"undo", "traces", "overlap"}
  <2>1. \/ UNCHANGED excuse \/ \E risk \in BOOLEAN : Overlap(risk)
        \/ \E why \in SUBSET {"undo", "traces"} : Excuse(why)
    BY DEF Next, Browse, Show, Ask, Serve, BeginEdit, ReadSiblings, SaveTrace, AbandonEdit, Create, LoadInvestigation,
           LoadFails, LoadArrives, UserEdit, UserMove, CreateTrace, CreateAnswered, CreateFails, DeleteTrace,
           DeleteArrives, DeleteFails, Undo, Redo, TimerFires, PatchFinds, PatchSaves, LoopFails, OtherTraces, vars
  <2>2. QED BY <1>1, <2>1, ExcuseType, OverlapType DEF Counters
<1>9. QED BY <1>3, <1>4, <1>5, <1>6, <1>7, <1>8 DEF Counters

LEMMA GraphStep == GraphInv /\ [Next]_vars => GraphInv'
<1> SUFFICES ASSUME GraphInv, [Next]_vars PROVE GraphInv'
  OBVIOUS
<1>1. Counters /\ Counters' /\ Graph(minted)
  BY CountersStep DEF GraphInv
<1>2. Graph(minted)'
  <2>1. CASE UNCHANGED vars
    BY <1>1, <2>1 DEF Graph, Server, Browser, Saves, Requests, vars, browser, shown, history, pending
  <2>2. QED BY <1>1, <2>1, ServeStep, CreateStep, ShowStep, AskStep DEF Next, Browse
<1>3. QED BY <1>1, <1>2 DEF GraphInv

\* Every copy of a trace is a value without duplicates.
LEMMA GraphAlways == Spec => []GraphInv
  BY GraphInit, GraphStep, PTL DEF Spec

LEMMA ViewIsView == ASSUME minted \in Nat, NEW v \in Views(minted) PROVE IsView(v)
<1>1. ASSUME NEW t \in Traces PROVE IsTrace(v[t])
  <2>1. v[t] = Gone \/ v[t] \in Stored(minted)
    BY DEF Views
  <2>2. v[t] \in Stored(minted) => v[t].name \in 0..minted /\ v[t].nodes \subseteq Nodes /\ v[t].edges \subseteq Edges
    BY ShapeForm DEF Nodes, Edges, Stored, NodeRecords, EdgeRecords
  <2>3. QED BY <2>1, <2>2 DEF IsTrace
<1>2. QED BY <1>1 DEF IsView, Views

\* The state is well typed: the rows, the browser's copies and stacks, and what requests read.
THEOREM TypeCorrect == Spec => []TypeOK
<1>1. GraphInv => TypeOK
  <2> SUFFICES ASSUME GraphInv PROVE TypeOK
    OBVIOUS
  <2>1. minted \in Nat /\ Counters /\ Graph(minted)
    BY DEF GraphInv, Counters
  <2>2. \A v \in Views(minted) : IsView(v)
    BY <2>1, ViewIsView
  <2>3. IsView(Gone) /\ IsTrace(Gone)
    BY DEF IsView, IsTrace
  <2>4. /\ IsView(data) /\ IsView(view) /\ IsView(timer) /\ \A l \in loads : IsView(l)
        /\ created \subseteq [trace : Traces, nodes : SUBSET (1..minted)]
    BY <2>1, <2>2, <2>3 DEF Graph, Server, Browser
  <2>5. \A e \in Editors : /\ op[e].kind \in Kinds \cup {"none"}
                           /\ op[e].at \in {"none", "siblings", "save"}
                           /\ IsTrace(op[e].own) /\ IsView(op[e].others)
    <3>1. \A d \in Stored(minted) : IsTrace(d)
      BY <2>1, ShapeForm DEF IsTrace, Nodes, Edges, Stored, NodeRecords, EdgeRecords
    <3>2. QED BY <2>1, <2>2, <2>3, <3>1 DEF Graph, Requests
  <2>6. \A i \in DOMAIN past : IsView(past[i].view) /\ past[i].fresh \in BOOLEAN
    <3>1. \A i \in DOMAIN past : past[i] \in [view : Views(minted), fresh : BOOLEAN]
      BY <2>1, SeqItem DEF Graph, Browser
    <3>2. QED BY <2>2, <3>1
  <2>7. \A i \in DOMAIN future : IsView(future[i])
    <3>1. \A i \in DOMAIN future : future[i] \in Views(minted)
      BY <2>1, SeqItem DEF Graph, Browser
    <3>2. QED BY <2>2, <3>1
  <2>8. \A l \in loops : l.found \in Traces \cup {Gone} /\ l.left \subseteq Traces /\ IsView(l.snap)
    BY <2>1, <2>2 DEF Graph, Saves
  <2>9. QED BY <2>1, <2>4, <2>5, <2>6, <2>7, <2>8 DEF TypeOK, Counters
<1>2. QED BY <1>1, GraphAlways, PTL

\* However requests overlap, overwrite each other, bring removed rows back and mix with what
\* is written by hand: the service never gives a trace two nodes of one address, nor a second
\* edge for a transfer it can recognise.
THEOREM NoDuplicates == Spec => []NoDuplicateFact
<1>1. GraphInv => NoDuplicateFact
  <2> SUFFICES ASSUME GraphInv PROVE NoDuplicateFact
    OBVIOUS
  <2>1. \A t \in Present(data) : OneFactEach(data[t])
    BY ViewNodes DEF GraphInv, Counters, Graph, Server, Stored
  <2>2. QED BY <2>1 DEF NoDuplicateFact, OneFactEach
<1>2. QED BY <1>1, GraphAlways, PTL

-----------------------------------------------------------------------------
(* What the browser shows is saved.                                         *)

LEMMA ExcuseNone == ASSUME NEW why, Excuse(why), excuse' = {} PROVE excuse = {} /\ why = {}
  BY DEF Excuse

LEMMA OverlapNone == ASSUME NEW risk \in BOOLEAN, Overlap(risk), excuse' = {} PROVE excuse = {} /\ ~risk
<1>1. PICK why : why = (IF risk THEN {"overlap"} ELSE {})
  OBVIOUS
<1>2. Excuse(why)
  BY <1>1 DEF Overlap
<1>3. why = {}
  BY <1>2, ExcuseNone
<1>4. QED BY <1>1, <1>2, <1>3, ExcuseNone

LEMMA PresentUpdate ==
  ASSUME NEW v, DOMAIN v = Traces, NEW t \in Traces, NEW d
  PROVE  /\ d # Gone => Present([v EXCEPT ![t] = d]) = Present(v) \cup {t}
         /\ d = Gone => Present([v EXCEPT ![t] = d]) = Present(v) \ {t}
  BY DEF Present

LEMMA SaveInit == Init => SaveInv
<1> SUFFICES ASSUME Init PROVE SaveInv
  OBVIOUS
<1>1. unborn \cap Present(data) = {}
  BY DEF Init, Present
<1>2. loads = {} /\ loops = {} /\ created = {} /\ deleted = {} /\ view = Gone /\ timer = Gone
  BY DEF Init
<1>3. QED BY <1>1, <1>2 DEF SaveInv, Answers, Copies, SameTraces, Saved, Added

\* The server's answers, and its and the browser's requests.
LEMMA LoadSaves ==
  ASSUME GraphInv, SaveInv, excuse' = {}, LoadInvestigation \/ LoadFails \/ LoadArrives PROVE SaveInv'
<1>1. CASE LoadInvestigation
  <2>1. excuse = {} /\ loops = {} /\ created = {} /\ deleted = {}
    BY <1>1, OverlapNone DEF LoadInvestigation
  <2>2. UNCHANGED <<data, unborn, view, timer, loops, created, deleted>> /\ loads' = loads \cup {data}
    BY <1>1 DEF LoadInvestigation, shown
  <2>3. QED BY <2>1, <2>2 DEF SaveInv, Answers, Copies, SameTraces, Saved, Added, LoopOK, Present
<1>2. CASE LoadFails
  <2>1. excuse = {} /\ UNCHANGED <<data, unborn, view, timer, loops, created, deleted>> /\ loads' \subseteq loads
    BY <1>2 DEF LoadFails, shown
  <2>2. Answers' /\ Copies' /\ SameTraces' /\ Saved'
    BY <2>1 DEF SaveInv, Answers, Copies, SameTraces, Saved, Added, Present
  <2>3. \A l \in loops' : LoopOK(l)'
    BY <2>1 DEF SaveInv, LoopOK, Present
  <2>4. QED BY <2>2, <2>3 DEF SaveInv
<1>3. CASE LoadArrives
  <2>1. excuse = {} /\ loads # {} /\ view' \in loads /\ timer' = Gone /\ loads' \subseteq loads
        /\ UNCHANGED <<data, unborn, loops, created, deleted>>
    BY <1>3 DEF LoadArrives
  <2>2. view' = data /\ loops = {} /\ created = {} /\ deleted = {}
    BY <2>1 DEF SaveInv, Answers
  <2>3. Answers' /\ Copies' /\ Saved' /\ \A l \in loops' : LoopOK(l)'
    BY <2>1, <2>2 DEF SaveInv, Answers, Copies, Saved
  <2>4. SameTraces'
    BY <2>1, <2>2 DEF SaveInv, SameTraces, Added, Present
  <2>5. QED BY <2>3, <2>4 DEF SaveInv
<1>4. QED BY <1>1, <1>2, <1>3

\* Another investigation with the same traces is shown, and armed.
LEMMA ShowsSaves ==
  ASSUME SaveInv, excuse = {}, view # Gone, NEW v, v # Gone, Shows(v), Present(v) = Present(view),
         UNCHANGED <<data, unborn, loops, loads, created, deleted, excuse>>
  PROVE  SaveInv'
<1>1. view' = v /\ timer' = v
  BY DEF Shows
<1>2. Answers'
  BY DEF SaveInv, Answers
<1>3. Copies'
  BY <1>1 DEF SaveInv, Copies
<1>4. SameTraces'
  BY <1>1 DEF SaveInv, SameTraces, Added, Present
<1>5. \A l \in loops' : LoopOK(l)'
  BY <1>1 DEF SaveInv, LoopOK, Present
<1>6. Saved'
  BY <1>1 DEF Saved
<1>7. QED BY <1>2, <1>3, <1>4, <1>5, <1>6 DEF SaveInv

\* Edits, undo and redo, of what is there.
LEMMA EditSaves ==
  ASSUME GraphInv, SaveInv, excuse' = {}, UserEdit \/ UserMove \/ Undo \/ Redo PROVE SaveInv'
<1>1. minted \in Nat /\ minted + 1 \in Nat /\ Counters /\ Graph(minted) /\ Browser(minted)
  BY DEF GraphInv, Counters, Graph
<1>2. CASE UserEdit \/ UserMove
  <2>1. /\ excuse = {} /\ view # Gone /\ view \in Views(minted)
        /\ UNCHANGED <<data, unborn, loops, loads, created, deleted, excuse>>
    BY <1>1, <1>2 DEF UserEdit, UserMove, pending, Browser
  <2>2. PICK t \in Present(view), d \in Stored(minted + 1) : Shows([view EXCEPT ![t] = d])
    BY <1>1, <1>2, EditShows
  <2>3. PICK v : v = [view EXCEPT ![t] = d]
    OBVIOUS
  <2>4. DOMAIN view = Traces /\ t \in Traces /\ d # Gone
    BY <1>1, <2>1, GoneIsNoValue DEF Views, Present
  <2>5. Present(v) = Present(view)
    <3>1. Present(v) = Present(view) \cup {t}
      BY <2>3, <2>4, PresentUpdate
    <3>2. QED BY <3>1
  <2>6. v \in Views(minted + 1)
    <3>1. view \in Views(minted + 1)
      BY <1>1, <2>1, StoredGrows
    <3>2. QED BY <2>3, <2>4, <3>1, ViewUpdate
  <2>7. v # Gone
    BY <1>1, <2>6, GoneIsNoValue
  <2>8. Shows(v)
    BY <2>2, <2>3
  <2>9. QED BY <2>1, <2>5, <2>7, <2>8, ShowsSaves
<1>3. CASE Undo
  <2>1. /\ past # <<>> /\ past \in Seq([view : Views(minted), fresh : BOOLEAN]) /\ view \in Views(minted)
    BY <1>1, <1>3 DEF Undo, Browser
  <2>2. PICK last : last = past[Len(past)]
    OBVIOUS
  <2>3. last \in [view : Views(minted), fresh : BOOLEAN]
    BY <2>1, <2>2, SeqLast
  <2>4. Excuse(OtherTraces(last.view) \cup (IF last.fresh THEN {"undo"} ELSE {}))
    BY <1>3, <2>2 DEF Undo
  <2>5. excuse = {} /\ OtherTraces(last.view) = {} /\ ~last.fresh
    BY <2>4, ExcuseNone
  <2>6. Present(last.view) = Present(view)
    BY <2>5 DEF OtherTraces
  <2>7. Shows(last.view)
    BY <1>3, <2>2, <2>5 DEF Undo, Shows
  <2>8. UNCHANGED <<data, unborn, loops, loads, created, deleted, excuse>>
    BY <1>3, <2>5 DEF Undo, pending
  <2>9. last.view # Gone /\ view # Gone
    BY <1>1, <2>1, <2>3, GoneIsNoValue
  <2>10. QED BY <2>5, <2>6, <2>7, <2>8, <2>9, ShowsSaves
<1>4. CASE Redo
  <2>1. future # <<>> /\ future \in Seq(Views(minted)) /\ view \in Views(minted)
    BY <1>1, <1>4 DEF Redo, Browser
  <2>2. Head(future) \in Views(minted)
    BY <2>1, SeqFirst
  <2>3. excuse = {} /\ OtherTraces(Head(future)) = {}
    BY <1>4, ExcuseNone DEF Redo
  <2>4. Present(Head(future)) = Present(view)
    BY <2>3 DEF OtherTraces
  <2>5. Shows(Head(future)) /\ UNCHANGED <<data, unborn, loops, loads, created, deleted, excuse>>
    BY <1>4, <2>3 DEF Redo, pending
  <2>6. Head(future) # Gone /\ view # Gone
    BY <1>1, <2>1, <2>2, GoneIsNoValue
  <2>7. QED BY <2>3, <2>4, <2>5, <2>6, ShowsSaves
<1>5. QED BY <1>2, <1>3, <1>4

\* A trace is added: first where it is stored, then where it is shown.
LEMMA CreateSaves ==
  ASSUME GraphInv, SaveInv, excuse' = {}, CreateTrace PROVE SaveInv'
<1>1. excuse = {} /\ loads = {} /\ view # Gone /\ UNCHANGED <<view, timer, loops, loads, deleted>>
  <2>1. Overlap(loads # {}) /\ view # Gone /\ UNCHANGED <<view, timer, loops, loads, deleted>>
    BY DEF CreateTrace, shown
  <2>2. QED BY <2>1, OverlapNone
<1>2. PICK t, S : /\ t \in unborn /\ unborn' = unborn \ {t} /\ data' = [data EXCEPT ![t] = Empty]
                  /\ created' = created \cup {[trace |-> t, nodes |-> S]}
  BY DEF CreateTrace
<1>3. PICK c : c = [trace |-> t, nodes |-> S]
  OBVIOUS
<1>4. c.trace = t /\ created' = created \cup {c}
  BY <1>2, <1>3
<1>5. DOMAIN data = Traces /\ t \in Traces /\ Empty # Gone
  <2>1. minted \in Nat /\ data \in Views(minted) /\ unborn \subseteq Traces
    BY DEF GraphInv, Counters, Graph, Server
  <2>2. QED BY <1>2, <2>1, EmptyStored, GoneIsNoValue DEF Views
<1>6. Present(data') = Present(data) \cup {t} /\ t \notin Present(data)
  BY <1>1, <1>2, <1>5, PresentUpdate DEF SaveInv, SameTraces
<1>7. \A s \in Present(data) : data'[s] = data[s]
  BY <1>2, <1>5, <1>6 DEF Present
<1>8. /\ Present(data) = Present(view) \cup Added \cup deleted
      /\ Added \cap Present(view) = {} /\ Added \cap deleted = {} /\ deleted \cap Present(view) = {}
      /\ \A b, e \in created : b.trace = e.trace => b = e
      /\ unborn \cap Present(data) = {}
  BY <1>1 DEF SaveInv, SameTraces
<1>9. Added' = Added \cup {t} /\ Present(view)' = Present(view)
  BY <1>1, <1>4 DEF Added, Present
<1>10. \A b \in created : b.trace # t
  BY <1>6, <1>8 DEF Added
<1>11. Present(data)' = Present(data')
  BY DEF Present
<1>12. SameTraces'
  <2>1. \A b, e \in created' : b.trace = e.trace => b = e
    BY <1>4, <1>8, <1>10
  <2>2. unborn' \cap Present(data)' = {}
    BY <1>2, <1>6, <1>8, <1>11
  <2>3. Present(data)' = Present(view)' \cup Added' \cup deleted'
    BY ONLY <1>1, <1>6, <1>8, <1>9, <1>11
  <2>4. t \notin Present(view) /\ t \notin deleted
    BY ONLY <1>6, <1>8
  <2>5. Added' \cap Present(view)' = {} /\ Added' \cap deleted' = {} /\ deleted' \cap Present(view)' = {}
    BY ONLY <1>1, <1>8, <1>9, <2>4
  <2>6. QED BY <2>1, <2>2, <2>3, <2>5 DEF SameTraces
<1>13. Answers' /\ Copies'
  BY <1>1 DEF SaveInv, Answers, Copies
<1>14. \A l \in loops' : LoopOK(l)'
  BY <1>1, <1>6, <1>7, <1>11 DEF SaveInv, LoopOK, Present
<1>15. Saved'
  BY <1>1, <1>7, <1>8, <1>9 DEF SaveInv, Saved
<1>16. QED BY <1>12, <1>13, <1>14, <1>15 DEF SaveInv

LEMMA AnswerSaves ==
  ASSUME GraphInv, SaveInv, excuse' = {}, NEW c \in created, CreateAnswered(c) PROVE SaveInv'
<1>1. /\ minted \in Nat /\ view \in Views(minted) /\ DOMAIN view = Traces
      /\ c.trace \in Traces /\ c.nodes \subseteq 1..minted /\ c.nodes \cap ViewIds(view) \subseteq 1..minted
  BY DEF GraphInv, Counters, Graph, Browser, Views
<1>2. view # Gone
  BY <1>1, GoneIsNoValue
<1>3. PICK v \in Views(minted) : Shows(v) /\ Present(v) = Present(view) \cup {c.trace} /\ excuse' = excuse
  <2>1. CASE Shows([view EXCEPT ![c.trace] = Empty]) /\ excuse' = excuse
    <3>1. Empty \in Stored(minted) /\ Empty # Gone
      BY <1>1, EmptyStored, GoneIsNoValue
    <3>2. [view EXCEPT ![c.trace] = Empty] \in Views(minted)
      BY <1>1, <3>1, ViewUpdate
    <3>3. QED BY <1>1, <2>1, <3>1, <3>2, PresentUpdate
  <2>2. ASSUME NEW i \in c.nodes \cap ViewIds(view), Shows(Extracted(view, c.trace, c.nodes \cap ViewIds(view), i)),
               excuse' = excuse
        PROVE  \E v \in Views(minted) : Shows(v) /\ Present(v) = Present(view) \cup {c.trace} /\ excuse' = excuse
    <3>1. i \in 1..minted
      BY <1>1
    <3>2. QED BY <1>1, <2>2, <3>1, ExtractedStored
  <2>3. ~Excuse({"traces"})
    BY ExcuseNone
  <2>4. QED BY <2>1, <2>2, <2>3 DEF CreateAnswered
<1>4. view' = v /\ timer' = v /\ v # Gone /\ excuse = {}
  BY <1>1, <1>3, GoneIsNoValue DEF Shows
<1>5. created' = created \ {c} /\ UNCHANGED <<data, unborn, loops, loads, deleted>>
  BY DEF CreateAnswered
<1>6. /\ Present(data) = Present(view) \cup Added \cup deleted
      /\ Added \cap Present(view) = {} /\ Added \cap deleted = {} /\ deleted \cap Present(view) = {}
      /\ \A b, e \in created : b.trace = e.trace => b = e
      /\ unborn \cap Present(data) = {} /\ c.trace \in Added
  BY <1>2, <1>4 DEF SaveInv, SameTraces, Added
<1>7. Added' = Added \ {c.trace}
  BY <1>5, <1>6 DEF Added
<1>8. Present(view)' = Present(v) /\ Present(data)' = Present(data)
  BY <1>4, <1>5 DEF Present
<1>9. SameTraces'
  BY <1>3, <1>5, <1>6, <1>7, <1>8 DEF SameTraces
<1>10. Answers' /\ Copies' /\ Saved'
  BY <1>4, <1>5 DEF SaveInv, Answers, Copies, Saved
<1>11. \A l \in loops' : LoopOK(l)'
  BY <1>4, <1>5, <1>8 DEF SaveInv, LoopOK
<1>12. QED BY <1>9, <1>10, <1>11 DEF SaveInv

\* A trace is deleted: first where it is shown, then where it is stored.
LEMMA DeleteSaves ==
  ASSUME GraphInv, SaveInv, excuse' = {}, DeleteTrace PROVE SaveInv'
<1>1. /\ excuse = {} /\ loops = {} /\ loads = {} /\ view # Gone
      /\ UNCHANGED <<data, unborn, loops, loads, created>>
  <2>1. Overlap(loops # {} \/ loads # {}) /\ view # Gone /\ UNCHANGED <<data, unborn, loops, loads, created>>
    BY DEF DeleteTrace
  <2>2. excuse = {} /\ ~(loops # {} \/ loads # {})
    BY <2>1, OverlapNone
  <2>3. QED BY <2>1, <2>2
<1>2. minted \in Nat /\ view \in Views(minted) /\ DOMAIN view = Traces
  BY <1>1 DEF GraphInv, Counters, Graph, Browser, Views
<1>3. PICK t \in Present(view) : Shows([view EXCEPT ![t] = Gone]) /\ deleted' = deleted \cup {t}
  BY DEF DeleteTrace
<1>4. PICK v : v = [view EXCEPT ![t] = Gone]
  OBVIOUS
<1>5. t \in Traces /\ Present(v) = Present(view) \ {t} /\ v # Gone
  <2>1. t \in Traces
    BY DEF Present
  <2>2. v \in Views(minted)
    BY <1>2, <1>4, <2>1, ViewUpdate
  <2>3. QED BY <1>2, <1>4, <2>1, <2>2, PresentUpdate, GoneIsNoValue
<1>6. view' = v /\ timer' = v
  BY <1>3, <1>4 DEF Shows
<1>7. Present(view)' = Present(v) /\ Present(data)' = Present(data) /\ Added' = Added
  BY <1>1, <1>6 DEF Present, Added
<1>8. SameTraces'
  BY <1>1, <1>3, <1>5, <1>7 DEF SaveInv, SameTraces
<1>9. Answers' /\ Copies' /\ Saved' /\ \A l \in loops' : LoopOK(l)'
  BY <1>1, <1>5, <1>6 DEF SaveInv, Answers, Copies, Saved
<1>10. QED BY <1>8, <1>9 DEF SaveInv

LEMMA DeletedSaves ==
  ASSUME GraphInv, SaveInv, excuse' = {}, NEW t \in deleted, DeleteArrives(t) PROVE SaveInv'
<1>1. /\ excuse = {} /\ deleted' = deleted \ {t} /\ data' = [data EXCEPT ![t] = Gone]
      /\ UNCHANGED <<unborn, view, timer, loops, loads, created>>
  BY DEF DeleteArrives, shown
<1>2. DOMAIN data = Traces /\ t \in Traces
  BY DEF GraphInv, Counters, Graph, Server, Views
<1>3. Present(data)' = Present(data) \ {t}
  BY <1>1, <1>2 DEF Present
<1>4. \A s \in Present(data) : s # t => data'[s] = data[s]
  BY <1>1, <1>2 DEF Present
<1>5. loads = {} /\ view # Gone
  BY <1>1 DEF SaveInv, Answers, Copies
<1>6. /\ Present(data) = Present(view) \cup Added \cup deleted
      /\ Added \cap Present(view) = {} /\ Added \cap deleted = {} /\ deleted \cap Present(view) = {}
      /\ \A b, e \in created : b.trace = e.trace => b = e
      /\ unborn \cap Present(data) = {}
  BY <1>1, <1>5 DEF SaveInv, SameTraces
<1>7. Present(view)' = Present(view) /\ Added' = Added
  BY <1>1 DEF Present, Added
<1>8. SameTraces'
  <2>1. t \notin Present(view) /\ t \notin Added
    BY <1>6
  <2>2. Present(data)' = Present(view)' \cup Added' \cup deleted'
    BY ONLY <1>1, <1>3, <1>6, <1>7, <2>1
  <2>3. unborn' \cap Present(data)' = {}
    BY <1>1, <1>3, <1>6
  <2>4. QED BY <1>1, <1>6, <1>7, <2>2, <2>3 DEF SameTraces
<1>9. Answers' /\ Copies'
  BY <1>1, <1>5 DEF SaveInv, Answers, Copies
<1>10. Saved'
  BY <1>1, <1>4, <1>6, <1>7 DEF SaveInv, Saved
<1>11. \A l \in loops' : LoopOK(l)'
  BY <1>1, <1>3, <1>4 DEF SaveInv, LoopOK, Present
<1>12. QED BY <1>8, <1>9, <1>10, <1>11 DEF SaveInv

\* The auto-save: it starts with all of the copy.
LEMMA TimerSaves ==
  ASSUME GraphInv, SaveInv, excuse' = {}, TimerFires PROVE SaveInv'
<1>1. /\ excuse = {} /\ loops = {} /\ loads = {} /\ timer # Gone /\ timer' = Gone
      /\ loops' = loops \cup Loop(Present(timer), timer)
      /\ UNCHANGED <<data, unborn, view, loads, created, deleted>>
  <2>1. /\ Overlap(loops # {} \/ loads # {}) /\ timer # Gone /\ timer' = Gone
        /\ loops' = loops \cup Loop(Present(timer), timer) /\ UNCHANGED <<data, unborn, view, loads, created, deleted>>
    BY DEF TimerFires
  <2>2. excuse = {} /\ ~(loops # {} \/ loads # {})
    BY <2>1, OverlapNone
  <2>3. QED BY <2>1, <2>2
<1>2. timer = view /\ view # Gone
  BY <1>1 DEF SaveInv, Copies
<1>3. Present(view) \subseteq Present(data) \ deleted
  BY <1>1, <1>2 DEF SaveInv, SameTraces
<1>4. PICK l : l = [left |-> Present(view), found |-> Gone, snap |-> view]
  OBVIOUS
<1>5. l.left = Present(view) /\ l.found = Gone /\ l.snap = view
  BY <1>4
<1>6. Present(view)' = Present(view) /\ Present(data)' = Present(data) /\ Added' = Added
  BY <1>1 DEF Present, Added
<1>7. Answers' /\ Copies' /\ SameTraces'
  BY <1>1, <1>2, <1>6 DEF SaveInv, Answers, Copies, SameTraces
<1>8. CASE Present(view) = {}
  BY <1>1, <1>2, <1>6, <1>7, <1>8 DEF SaveInv, Saved, Loop
<1>9. CASE Present(view) # {}
  <2>1. loops' = {l}
    BY <1>1, <1>2, <1>4, <1>9 DEF Loop
  <2>2. Present(l.snap)' = Present(l.snap)
    BY DEF Present
  <2>3. LoopOK(l)'
    BY <1>1, <1>3, <1>5, <1>6, <2>1, <2>2 DEF LoopOK
  <2>4. QED BY <1>7, <2>1, <2>3 DEF SaveInv, Saved
<1>10. QED BY <1>8, <1>9

\* It finds the row of each trace in turn.
LEMMA FindSaves ==
  ASSUME GraphInv, SaveInv, excuse' = {}, NEW l \in loops, PatchFinds(l) PROVE SaveInv'
<1>1. ~Overlap(TRUE)
  BY OverlapNone
<1>2. PICK t \in l.left : loops' = (loops \ {l}) \cup {[l EXCEPT !.found = t]} /\ excuse' = excuse
  BY <1>1 DEF PatchFinds
<1>3. excuse = {} /\ UNCHANGED <<data, unborn, view, timer, loads, created, deleted>>
  BY <1>2 DEF PatchFinds, shown
<1>4. LoopOK(l) /\ loops = {l}
  BY <1>3 DEF SaveInv, LoopOK
<1>5. PICK k : k = [l EXCEPT !.found = t]
  OBVIOUS
<1>6. k.found = t /\ k.left = l.left /\ k.snap = l.snap
  BY <1>5 DEF GraphInv, Graph, Saves
<1>7. loops' = {k}
  BY <1>2, <1>4, <1>5
<1>8. LoopOK(k)'
  BY <1>2, <1>3, <1>4, <1>6, <1>7 DEF LoopOK, Present
<1>9. Answers' /\ Copies' /\ SameTraces'
  BY <1>3, <1>4, <1>7 DEF SaveInv, Answers, Copies, SameTraces, Added, Present
<1>10. QED BY <1>7, <1>8, <1>9 DEF SaveInv, Saved

\* What it has saved, and what it has left, is all of the copy.
LEMMA PatchSaved ==
  ASSUME GraphInv, SaveInv, excuse' = {}, NEW l \in loops, PatchSaves(l) PROVE SaveInv'
<1>1. excuse = {} /\ l.found # Gone /\ UNCHANGED <<unborn, view, timer, loads, created, deleted>>
      /\ loops' = (loops \ {l}) \cup Loop(l.left \ {l.found}, l.snap)
  BY DEF PatchSaves, shown
<1>2. LoopOK(l) /\ loops = {l}
  BY <1>1 DEF SaveInv, LoopOK
<1>3. PICK t : t = l.found
  OBVIOUS
<1>4. t \in l.left /\ t \in Present(l.snap) /\ t \in Present(data) /\ t \in Traces /\ DOMAIN data = Traces
  BY <1>1, <1>2, <1>3 DEF LoopOK, Present, GraphInv, Graph, Server, Views
<1>5. data' = [data EXCEPT ![t] = l.snap[t]] /\ l.snap[t] # Gone
  BY <1>3, <1>4 DEF PatchSaves, Present
<1>6. data'[t] = l.snap[t] /\ \A s \in Traces : s # t => data'[s] = data[s]
  BY <1>4, <1>5
<1>7. Present(data)' = Present(data)
  BY <1>4, <1>5, <1>6 DEF Present
<1>8. loads = {}
  BY <1>1, <1>2 DEF SaveInv, Answers
<1>9. view # Gone
  BY <1>1, <1>2 DEF SaveInv, Copies
<1>10. Present(view)' = Present(view) /\ Added' = Added
  BY <1>1 DEF Present, Added
<1>11. Answers' /\ Copies' /\ SameTraces'
  BY <1>1, <1>7, <1>8, <1>9, <1>10 DEF SaveInv, Answers, Copies, SameTraces
<1>12. PICK R : R = l.left \ {t}
  OBVIOUS
<1>13. \A s \in Present(l.snap) \ R : data'[s] = l.snap[s]
  BY <1>2, <1>4, <1>6, <1>12 DEF LoopOK, Present
<1>14. loops' = Loop(R, l.snap)
  BY <1>1, <1>2, <1>3, <1>12
<1>15. CASE R = {}
  <2>1. loops' = {}
    BY <1>14, <1>15 DEF Loop
  <2>2. Saved'
    <3>1. timer = Gone => l.snap = view
      BY <1>2 DEF LoopOK
    <3>2. QED BY <1>1, <1>10, <1>13, <1>15, <3>1 DEF Saved
  <2>3. QED BY <1>11, <2>1, <2>2 DEF SaveInv
<1>16. CASE R # {}
  <2>1. PICK k : k = [left |-> R, found |-> Gone, snap |-> l.snap]
    OBVIOUS
  <2>2. k.left = R /\ k.found = Gone /\ k.snap = l.snap /\ loops' = {k}
    BY <1>14, <1>16, <2>1 DEF Loop
  <2>3. Present(k.snap)' = Present(l.snap) /\ R \subseteq Present(l.snap)
    BY <1>2, <1>12, <2>2 DEF Present, LoopOK
  <2>4. LoopOK(k)'
    BY <1>1, <1>2, <1>7, <1>13, <2>2, <2>3 DEF LoopOK
  <2>5. QED BY <1>11, <2>2, <2>4 DEF SaveInv, Saved
<1>17. QED BY <1>15, <1>16

LEMMA SaveStep ==
  ASSUME GraphInv, SaveInv, [Next]_vars PROVE SaveInv'
<1> SUFFICES ASSUME excuse' = {} PROVE SaveInv'
  BY DEF SaveInv
<1>1. CASE UNCHANGED <<data, unborn, view, timer, loops, loads, created, deleted, excuse>>
  BY <1>1 DEF SaveInv, Answers, Copies, SameTraces, Added, LoopOK, Saved, Present
<1>2. CASE UNCHANGED vars
  BY <1>1, <1>2 DEF vars, browser, shown, pending
<1>3. ~Overlap(TRUE)
  BY OverlapNone
<1>4. ASSUME NEW e \in Editors, Serve(e) PROVE SaveInv'
  BY <1>1, <1>3, <1>4 DEF Serve, BeginEdit, ReadSiblings, SaveTrace, AbandonEdit, browser, shown, pending
<1>5. CASE Create
  BY <1>3, <1>5 DEF Create
<1>6. CASE Show
  BY <1>6, LoadSaves, EditSaves, AnswerSaves, DeleteSaves DEF Show
<1>7. CASE Ask
  BY <1>3, <1>7, LoadSaves, CreateSaves, TimerSaves, DeletedSaves, FindSaves, PatchSaved
  DEF Ask, CreateFails, DeleteFails, LoopFails
<1>8. QED BY <1>2, <1>4, <1>5, <1>6, <1>7 DEF Next, Browse

\* Once nothing is pending the server holds what the browser shows, whatever was edited, added,
\* extracted, deleted, undone and redone; unless one of the named reasons excuses a difference.
THEOREM EditsAreSaved == Spec => []SavedWhenQuiet
<1>1. GraphInv /\ SaveInv /\ [Next]_vars => SaveInv'
  BY SaveStep
<1>2. GraphInv /\ SaveInv => SavedWhenQuiet
  <2> SUFFICES ASSUME GraphInv, SaveInv, Quiet, excuse = {} PROVE data = view
    BY DEF SavedWhenQuiet
  <2>1. data \in Views(minted) /\ view \in Views(minted)
    BY DEF GraphInv, Graph, Server, Browser, Quiet
  <2>2. Present(data) = Present(view) /\ \A t \in Present(view) : data[t] = view[t]
    BY DEF Quiet, SaveInv, SameTraces, Added, Saved
  <2>3. \A t \in Traces : data[t] = view[t]
    BY <2>2 DEF Present
  <2>4. QED BY <2>1, <2>3 DEF Views
<1>3. QED BY SaveInit, <1>1, <1>2, GraphAlways, PTL DEF Spec
=============================================================================
