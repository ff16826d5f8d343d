--------------------------- MODULE DataRoom_proofs ---------------------------
(***************************************************************************)
(* What holds of every data room, whatever its files, folders, members,    *)
(* requests and overlapping moves: a row keeps its object, no row goes     *)
(* before its deletion is logged, and a tree that no folder deletion met   *)
(* in another request is whole. Assumes IdsAssumption, and for the last   *)
(* theorem, no cycle of folders, MembersAssumption.                        *)
(***************************************************************************)
EXTENDS DataRoom, FiniteSetTheorems, TLAPS

\* The steps at which a request has a file, and those at which it has a place.
WithFile  == {"checkFolder", "putObject", "insertRow", "logUpload", "openObject", "logRead",
              "removeRow", "deleteObject", "logDelete", "checkTarget", "saveFile"}
WithPlace == {"checkFolder", "putObject", "insertRow", "checkTarget", "saveFile",
              "insertFolder", "walk", "checkParent", "saveFolder"}
Uploading == {"checkFolder", "putObject", "insertRow"}
Checked   == {"putObject", "insertRow", "saveFile", "insertFolder", "saveFolder"}

\* A deletion gives the objects of these files back.
Doomed(r) == IF r.at = "deleteObject" THEN {r.file}
             ELSE IF r.at \in {"deleteFolders", "deleteObjects"} THEN r.batch ELSE {}

\* A request has what its step works on.
FormInv == \A b \in Members :
  /\ req[b].at \in WithFile  => req[b].file \in Files
  /\ req[b].at \in WithPlace => req[b].to \in Places

\* A file in a row or in a request has been drawn.
DrawnInv ==
  /\ \A f \in Files : row[f] # Absent => f \in drawn
  /\ \A b \in Members : req[b].batch \cup ({req[b].file} \cap Files) \subseteq drawn

\* The file of an upload has no row yet, and no other request knows it.
FreshInv == \A b \in Members : req[b].at \in Uploading =>
  /\ row[req[b].file] = Absent
  /\ \A c \in Members \ {b} : req[c].file # req[b].file /\ req[b].file \notin req[c].batch

\* A row is inserted after its object was put.
InsertInv == \A b \in Members : req[b].at = "insertRow" => req[b].file \in objects

\* An object is deleted when its row is gone, unless a move wrote it back.
DoomedInv == \A b \in Members : \A f \in Doomed(req[b]) : row[f] # Absent => f \in revived

\* A folder deletion removes rows it has logged.
LogInv == \A b \in Members : req[b].at = "deleteRows" =>
            \A f \in req[b].batch : <<"delete", f>> \in log

\* Until a folder deletion has overlapped another request, it runs alone.
AloneInv == ~clash => \A b, c \in Members : b # c /\ req[b].at \in Deleting => req[c] = Idle

\* ... so the folder a request has checked is still there,
TargetInv == ~clash => \A b \in Members : req[b].at \in Checked => HasFolder(req[b].to)

\* ... the search has the children of every folder it has left behind,
Queued(r, d) == \E i \in DOMAIN r.queue : r.queue[i] = d
GatherInv == ~clash => \A b \in Members : req[b].at = "gather" =>
  \A e \in Folders : parent[e] \in req[b].found =>
    e \in req[b].found \/ Queued(req[b], parent[e])

\* ... what it found has no children outside,
FoundInv == ~clash => \A b \in Members :
  req[b].at \in {"findFiles", "logAll", "deleteRows", "deleteFolders"} =>
    \A e \in Folders : parent[e] \in req[b].found => e \in req[b].found

\* ... and no file outside the batch.
BatchInv == ~clash => \A b \in Members :
  /\ req[b].at \in {"logAll", "deleteRows"} =>
       \A f \in Files : row[f] \in req[b].found => f \in req[b].batch
  /\ req[b].at = "deleteFolders" => \A f \in Files : row[f] \notin req[b].found

IInv == /\ TypeOK /\ FormInv /\ DrawnInv /\ FreshInv /\ InsertInv /\ DoomedInv /\ LogInv
        /\ RowHasObject
        /\ AloneInv /\ TargetInv /\ GatherInv /\ FoundInv /\ BatchInv /\ TreeWhole
-----------------------------------------------------------------------------
(* The shape of the steps: a request that begins, one that takes its next  *)
(* step, and the two that change lists of a request.                       *)

Starts == {"checkFolder", "openObject", "removeRow", "checkTarget", "insertFolder",
           "saveFolder", "walk", "gather"}
Begins(a) == \/ BeginUpload(a) \/ BeginChatUpload(a) \/ BeginRead(a) \/ BeginDeleteFile(a)
             \/ BeginMoveFile(a) \/ BeginMoveFolder(a) \/ BeginCreateFolder(a)
             \/ BeginDeleteFolder(a)

\* The requests other than that of a stay as they are.
Only(a) == /\ req' \in [Members -> Request]
           /\ \A b \in Members \ {a} : req'[b] = req[b]

(* What an idle member's request holds.                                    *)
LEMMA IdleForm ==
  /\ Idle \in Request
  /\ Idle.at = "idle" /\ Idle.file = Absent /\ Idle.to = Absent /\ Idle.batch = {}
  BY DEF Idle, Request, Steps

\* An idle member takes a first step, with no batch, and clash says whether
\* a deletion now overlaps another request.
BeginShape(a) ==
  /\ Only(a) /\ req[a] = Idle
  /\ req'[a].at \in Starts /\ req'[a].batch = {}
  /\ begun' \in Nat /\ clash' \in BOOLEAN /\ (clash => clash')
  /\ ~clash' => \A b \in Members \ {a} :
       req[b] = Idle \/ (req'[a].at \notin Deleting /\ req[b].at \notin Deleting)

\* Gathering takes the head of the queue and appends its children.
GatherShape(a) ==
  /\ Only(a) /\ req[a].at = "gather" /\ UNCHANGED <<begun, clash>>
  /\ req'[a].batch = req[a].batch /\ req'[a].file = req[a].file
  /\ \/ /\ req[a].queue = <<>> /\ req'[a].at = "findFiles"
        /\ req'[a].found = req[a].found
     \/ /\ req[a].queue # <<>> /\ req'[a].at = "gather"
        /\ \E s \in Children(Head(req[a].queue)) :
             /\ req'[a].queue = Tail(req[a].queue) \o s
             /\ req'[a].found = req[a].found \cup {s[i] : i \in DOMAIN s}

\* Deleting objects goes through the batch.
DeleteShape(a) ==
  /\ Only(a) /\ req[a].at = "deleteObjects" /\ UNCHANGED <<begun, clash>>
  /\ req'[a].at = "deleteObjects" \/ req'[a] = Idle
  /\ req'[a].batch \subseteq req[a].batch
  /\ req'[a].file \in {req[a].file, Absent}
  /\ \E S \in SUBSET req[a].batch : objects' = objects \ S

(* Beginning with a well-formed first step has the shape of a beginning.   *)
LEMMA BeginOnly ==
  ASSUME TypeOK, NEW a \in Members, NEW r \in Request, Begin(a, r),
         r.at \in Starts, r.batch = {}
  PROVE  BeginShape(a)
  <1>1. /\ Only(a) /\ req[a] = Idle /\ req'[a] = r
        /\ req'[a].at \in Starts /\ req'[a].batch = {} /\ begun' \in Nat
    BY DEF Begin, Only, TypeOK
  <1>2. clash' = (clash \/ \E b \in Members \ {a} :
                             req[b] # Idle /\ {r.at, req[b].at} \cap Deleting # {})
    BY DEF Begin
  <1>3. clash' \in BOOLEAN /\ (clash => clash')
    BY <1>2 DEF TypeOK
  <1>4. ASSUME ~clash', NEW b \in Members \ {a}, req[b] # Idle
        PROVE  r.at \notin Deleting /\ req[b].at \notin Deleting
    <2>1. {r.at, req[b].at} \cap Deleting = {}
      BY <1>2, <1>4
    <2> QED
      BY <2>1
  <1>5. ~clash' => \A b \in Members \ {a} :
          req[b] = Idle \/ (r.at \notin Deleting /\ req[b].at \notin Deleting)
    BY <1>4
  <1> QED
    BY <1>1, <1>3, <1>5 DEF BeginShape

(* Every operation begins with a well-formed first step.                   *)
LEMMA BeginForm ==
  ASSUME TypeOK, NEW a \in Members, Begins(a)
  PROVE  BeginShape(a) /\ UNCHANGED <<row, objects, log, revived>>
  <1> DEFINE First(r) == r \in Request /\ r.at \in Starts /\ r.batch = {}
             Form(r) == First(r) /\ Begin(a, r)
  <1> USE IdleForm DEF Starts, Steps, Request, Places
  <1>1. ASSUME BeginUpload(a) PROVE \E r : Form(r)
    <2> PICK f \in Files, d \in Seen :
          Begin(a, [Idle EXCEPT !.at = "checkFolder", !.file = f, !.to = d])
      BY <1>1 DEF BeginUpload
    <2> DEFINE r == [Idle EXCEPT !.at = "checkFolder", !.file = f, !.to = d]
    <2>1. First(r)
      BY DEF Seen
    <2> QED
      BY <2>1
  <1>2. ASSUME BeginChatUpload(a) PROVE \E r : Form(r)
    <2> PICK f \in Files, d \in Folders :
          Begin(a, [Idle EXCEPT !.at = "checkFolder", !.file = f, !.to = d])
      BY <1>2 DEF BeginChatUpload
    <2> DEFINE r == [Idle EXCEPT !.at = "checkFolder", !.file = f, !.to = d]
    <2>1. First(r)
      OBVIOUS
    <2> QED
      BY <2>1
  <1>3. ASSUME BeginRead(a) PROVE \E r : Form(r)
    <2> PICK f \in Files : Begin(a, [Idle EXCEPT !.at = "openObject", !.file = f])
      BY <1>3 DEF BeginRead
    <2> DEFINE r == [Idle EXCEPT !.at = "openObject", !.file = f]
    <2>1. First(r)
      OBVIOUS
    <2> QED
      BY <2>1
  <1>4. ASSUME BeginDeleteFile(a) PROVE \E r : Form(r)
    <2> PICK f \in Files : Begin(a, [Idle EXCEPT !.at = "removeRow", !.file = f])
      BY <1>4 DEF BeginDeleteFile
    <2> DEFINE r == [Idle EXCEPT !.at = "removeRow", !.file = f]
    <2>1. First(r)
      OBVIOUS
    <2> QED
      BY <2>1
  <1>5. ASSUME BeginMoveFile(a) PROVE \E r : Form(r)
    <2> PICK f \in Files, d \in Seen :
          Begin(a, [Idle EXCEPT !.at = "checkTarget", !.file = f, !.to = d])
      BY <1>5 DEF BeginMoveFile
    <2> DEFINE r == [Idle EXCEPT !.at = "checkTarget", !.file = f, !.to = d]
    <2>1. First(r)
      BY DEF Seen
    <2> QED
      BY <2>1
  <1>6. ASSUME BeginMoveFolder(a) PROVE \E r : Form(r)
    <2> PICK d \in Folders, p \in Seen :
          Begin(a, [Idle EXCEPT !.at = IF p = Root THEN "saveFolder" ELSE "walk",
                                !.folder = d, !.to = p, !.cursor = p])
      BY <1>6 DEF BeginMoveFolder
    <2> DEFINE r == [Idle EXCEPT !.at = IF p = Root THEN "saveFolder" ELSE "walk",
                                 !.folder = d, !.to = p, !.cursor = p]
    <2>1. First(r)
      BY DEF Seen
    <2> QED
      BY <2>1
  <1>7. ASSUME BeginCreateFolder(a) PROVE \E r : Form(r)
    <2> PICK p \in Seen : Begin(a, [Idle EXCEPT !.at = "insertFolder", !.to = p])
      BY <1>7 DEF BeginCreateFolder
    <2> DEFINE r == [Idle EXCEPT !.at = "insertFolder", !.to = p]
    <2>1. First(r)
      BY DEF Seen
    <2> QED
      BY <2>1
  <1>8. ASSUME BeginDeleteFolder(a) PROVE \E r : Form(r)
    <2> PICK d \in Folders :
          Begin(a, [Idle EXCEPT !.at = "gather", !.folder = d, !.queue = <<d>>, !.found = {d}])
      BY <1>8 DEF BeginDeleteFolder
    <2> DEFINE r == [Idle EXCEPT !.at = "gather", !.folder = d, !.queue = <<d>>, !.found = {d}]
    <2>0. <<d>> \in Seq(Folders) /\ {d} \in SUBSET Folders
      OBVIOUS
    <2>1. First(r)
      BY <2>0
    <2> QED
      BY <2>1
  <1>9. PICK r : Form(r)
    BY <1>1, <1>2, <1>3, <1>4, <1>5, <1>6, <1>7, <1>8 DEF Begins
  <1>10. UNCHANGED <<row, objects, log, revived>>
    BY DEF Begins, BeginUpload, BeginChatUpload, BeginRead, BeginDeleteFile, BeginMoveFile,
           BeginMoveFolder, BeginCreateFolder, BeginDeleteFolder
  <1> HIDE DEF Starts, Steps, Request, Places
  <1> QED
    BY <1>9, <1>10, BeginOnly

(* A step keeps what the request has read.                                 *)
LEMMA StepForm ==
  ASSUME TypeOK, NEW a \in Members, NEW from, NEW to \in Steps, Step(a, from, to)
  PROVE  /\ Only(a) /\ req[a].at = from /\ req'[a].at = to /\ UNCHANGED <<begun, clash>>
         /\ to = "idle" => req'[a] = Idle
         /\ to # "idle" => /\ req'[a].file = req[a].file /\ req'[a].to = req[a].to
                           /\ req'[a].found = req[a].found /\ req'[a].batch = req[a].batch
  BY IdleForm DEF TypeOK, Step, Request, Only

(* The children of a folder, each once.                                    *)
LEMMA ChildSeq ==
  ASSUME NEW d, NEW s \in Children(d)
  PROVE  /\ s \in Seq(Folders)
         /\ {s[i] : i \in DOMAIN s} = {e \in Folders : parent[e] = d}
  <1>1. PICK n \in 0..Cardinality(Folders) : s \in [1..n -> Folders]
    BY DEF Children
  <1>2. n \in Nat
    BY <1>1
  <1>3. s \in Seq(Folders)
    BY <1>1, <1>2
  <1> QED
    BY <1>3 DEF Children

(* Gather has its shape.                                                   *)
LEMMA GatherForm ==
  ASSUME TypeOK, NEW a \in Members, Gather(a)
  PROVE  GatherShape(a)
  <1>1. req \in [Members -> Request] /\ req[a] \in Request
    BY DEF TypeOK
  <1>2. CASE req[a].queue = <<>>
    <2>1. req' = [req EXCEPT ![a] = [req[a] EXCEPT !.at = "findFiles"]]
      BY <1>2 DEF Gather
    <2>2. [req[a] EXCEPT !.at = "findFiles"] \in Request
      BY <1>1 DEF Request, Steps
    <2> QED
      BY <1>1, <1>2, <2>1, <2>2 DEF GatherShape, Gather, Only, Request
  <1>3. CASE req[a].queue # <<>>
    <2>1. PICK s \in Children(Head(req[a].queue)) :
            req' = [req EXCEPT ![a].queue = Tail(req[a].queue) \o s,
                               ![a].found = @ \cup {s[i] : i \in DOMAIN s}]
      BY <1>3 DEF Gather
    <2> DEFINE r == [req[a] EXCEPT !.queue = Tail(req[a].queue) \o s,
                                   !.found = @ \cup {s[i] : i \in DOMAIN s}]
    <2>2. s \in Seq(Folders) /\ req[a].queue \in Seq(Folders) /\ req[a].found \subseteq Folders
      BY <1>1, ChildSeq DEF Request
    <2>3. Tail(req[a].queue) \o s \in Seq(Folders)
      BY <1>3, <2>2
    <2>4. {s[i] : i \in DOMAIN s} \subseteq Folders
      BY <2>2
    <2>5. r \in Request
      BY <1>1, <2>2, <2>3, <2>4 DEF Request
    <2>6. req' = [req EXCEPT ![a] = r]
      BY <1>1, <2>1
    <2>7. r.at = "gather" /\ r.batch = req[a].batch /\ r.file = req[a].file
      BY <1>1 DEF Request, Gather
    <2>8. /\ r.queue = Tail(req[a].queue) \o s
          /\ r.found = req[a].found \cup {s[i] : i \in DOMAIN s}
      BY <1>1 DEF Request
    <2> HIDE DEF r
    <2>9. req'[a] = r /\ Only(a)
      BY <1>1, <2>5, <2>6 DEF Only
    <2>10. req[a].at = "gather" /\ UNCHANGED <<begun, clash>>
      BY DEF Gather
    <2> QED
      BY <1>3, <2>7, <2>8, <2>9, <2>10 DEF GatherShape
  <1> QED
    BY <1>2, <1>3

(* DeleteObjects has its shape.                                            *)
LEMMA DeleteForm ==
  ASSUME TypeOK, NEW a \in Members, DeleteObjects(a)
  PROVE  DeleteShape(a)
  <1>1. req \in [Members -> Request] /\ req[a] \in Request
    BY DEF TypeOK
  <1>2. CASE req[a].batch = {} /\ req' = [req EXCEPT ![a] = Idle] /\ UNCHANGED objects
    BY <1>1, <1>2, IdleForm DEF DeleteShape, Only, DeleteObjects
  <1>3. ASSUME NEW f \in req[a].batch, req' = [req EXCEPT ![a].batch = @ \ {f}],
               objects' \in {objects, objects \ {f}}
        PROVE  /\ Only(a) /\ req'[a].at = "deleteObjects"
               /\ req'[a].batch \subseteq req[a].batch /\ req'[a].file = req[a].file
               /\ \E S \in SUBSET req[a].batch : objects' = objects \ S
    <2> DEFINE r == [req[a] EXCEPT !.batch = @ \ {f}]
    <2>1. r \in Request /\ r.at = "deleteObjects" /\ r.file = req[a].file
          /\ r.batch \subseteq req[a].batch
      BY <1>1 DEF Request, DeleteObjects
    <2>2. req' = [req EXCEPT ![a] = r]
      BY <1>1, <1>3
    <2> HIDE DEF r
    <2>3. req'[a] = r /\ Only(a)
      BY <1>1, <2>1, <2>2 DEF Only
    <2>4. \E S \in SUBSET req[a].batch : objects' = objects \ S
      <3>1. objects' = objects \ {} \/ objects' = objects \ {f}
        BY <1>3
      <3>2. {} \in SUBSET req[a].batch /\ {f} \in SUBSET req[a].batch
        BY <1>3
      <3> QED
        BY <3>1, <3>2
    <2> QED
      BY <2>1, <2>3, <2>4
  <1> QED
    BY <1>2, <1>3 DEF DeleteShape, DeleteObjects

\* One step of one member.
Act(a) == Put(a) \/ Read(a) \/ Delete(a) \/ Move(a) \/ Create(a) \/ Purge(a) \/ Stop(a)
\* TypeOK without req and clash.
Rest == /\ row     \in [Files -> Places \cup {Absent}]
        /\ parent  \in [Folders -> Places \cup {Absent}]
        /\ chat    \subseteq Folders
        /\ objects \subseteq Files
        /\ log     \subseteq {"upload", "read", "delete"} \X Files
        /\ drawn   \subseteq Files \cup Folders
        /\ begun   \in Nat
        /\ revived \subseteq Files

(* A request keeps the file and the place it began with.                   *)
LEMMA FormStep ==
  ASSUME NEW a \in Members, IInv, Act(a)
  PROVE  FormInv'
  <1>b. Gather(a) => GatherShape(a)
    BY GatherForm DEF IInv
  <1>c. DeleteObjects(a) => DeleteShape(a)
    BY DeleteForm DEF IInv
  <1> USE IdsAssumption, IdleForm DEF IInv, TypeOK, FormInv, WithFile, WithPlace, Seen,
          Request, Steps, Places
  <1>1. CASE BeginUpload(a)
    BY <1>1 DEF BeginUpload, Begin, Draw
  <1>2. CASE BeginChatUpload(a)
    BY <1>2 DEF BeginChatUpload, Begin
  <1>3. CASE CheckFolder(a)
    BY <1>3 DEF CheckFolder, Step
  <1>4. CASE PutObject(a)
    BY <1>4 DEF PutObject, Step
  <1>5. CASE InsertRow(a)
    BY <1>5 DEF InsertRow, Step
  <1>6. CASE LogUpload(a)
    BY <1>6 DEF LogUpload, Step
  <1>7. CASE BeginRead(a)
    BY <1>7 DEF BeginRead, Begin
  <1>8. CASE OpenObject(a)
    BY <1>8 DEF OpenObject, Step
  <1>9. CASE LogRead(a)
    BY <1>9 DEF LogRead, Step
  <1>10. CASE BeginDeleteFile(a)
    BY <1>10 DEF BeginDeleteFile, Begin
  <1>11. CASE RemoveRow(a)
    BY <1>11 DEF RemoveRow, Step
  <1>12. CASE DeleteObject(a)
    BY <1>12 DEF DeleteObject, Step
  <1>13. CASE LogDelete(a)
    BY <1>13 DEF LogDelete, Step
  <1>14. CASE BeginMoveFile(a)
    BY <1>14 DEF BeginMoveFile, Begin
  <1>15. CASE CheckTarget(a)
    BY <1>15 DEF CheckTarget, Step
  <1>16. CASE SaveFile(a)
    BY <1>16 DEF SaveFile, Step
  <1>17. CASE BeginMoveFolder(a)
    BY <1>17 DEF BeginMoveFolder, Begin
  <1>18. CASE Walk(a)
    BY <1>18 DEF Walk
  <1>19. CASE CheckParent(a)
    BY <1>19 DEF CheckParent, Step
  <1>20. CASE SaveFolder(a)
    BY <1>20 DEF SaveFolder, Step
  <1>21. CASE BeginCreateFolder(a)
    BY <1>21 DEF BeginCreateFolder, Begin
  <1>22. CASE InsertFolder(a)
    BY <1>22 DEF InsertFolder, Step, Draw
  <1>23. CASE BeginDeleteFolder(a)
    BY <1>23 DEF BeginDeleteFolder, Begin
  <1>24. CASE Gather(a)
    BY <1>24, <1>b DEF Gather, GatherShape, Only
  <1>25. CASE FindFiles(a)
    BY <1>25 DEF FindFiles
  <1>26. CASE LogAll(a)
    BY <1>26 DEF LogAll, Step
  <1>27. CASE DeleteRows(a)
    BY <1>27 DEF DeleteRows, Step
  <1>28. CASE DeleteFolders(a)
    BY <1>28 DEF DeleteFolders, Step
  <1>29. CASE DeleteObjects(a)
    BY <1>29, <1>c DEF DeleteObjects, DeleteShape, Only
  <1>30. CASE Stop(a)
    BY <1>30 DEF Stop
  <1> QED
    BY <1>1, <1>2, <1>3, <1>4, <1>5, <1>6, <1>7, <1>8, <1>9, <1>10, <1>11, <1>12, <1>13,
       <1>14, <1>15, <1>16, <1>17, <1>18, <1>19, <1>20, <1>21, <1>22, <1>23, <1>24,
       <1>25, <1>26, <1>27, <1>28, <1>29, <1>30
    DEF Act, Put, Read, Delete, Move, Create, Purge

(* What enters a row or a request is drawn, or was in a row.               *)
LEMMA DrawnStep ==
  ASSUME NEW a \in Members, IInv, Act(a)
  PROVE  DrawnInv'
  <1>b. Gather(a) => GatherShape(a)
    BY GatherForm DEF IInv
  <1>c. DeleteObjects(a) => DeleteShape(a)
    BY DeleteForm DEF IInv
  <1> USE IdsAssumption, IdleForm DEF IInv, TypeOK, FormInv, DrawnInv, WithFile,
          WithPlace, Request, Steps, Places
  <1>1. CASE BeginUpload(a)
    BY <1>1 DEF BeginUpload, Begin, Draw
  <1>2. CASE BeginChatUpload(a)
    BY <1>2 DEF BeginChatUpload, Begin
  <1>3. CASE CheckFolder(a)
    BY <1>3 DEF CheckFolder, Step
  <1>4. CASE PutObject(a)
    BY <1>4 DEF PutObject, Step
  <1>5. CASE InsertRow(a)
    BY <1>5 DEF InsertRow, Step
  <1>6. CASE LogUpload(a)
    BY <1>6 DEF LogUpload, Step
  <1>7. CASE BeginRead(a)
    BY <1>7 DEF BeginRead, Begin
  <1>8. CASE OpenObject(a)
    BY <1>8 DEF OpenObject, Step
  <1>9. CASE LogRead(a)
    BY <1>9 DEF LogRead, Step
  <1>10. CASE BeginDeleteFile(a)
    BY <1>10 DEF BeginDeleteFile, Begin
  <1>11. CASE RemoveRow(a)
    BY <1>11 DEF RemoveRow, Step
  <1>12. CASE DeleteObject(a)
    BY <1>12 DEF DeleteObject, Step
  <1>13. CASE LogDelete(a)
    BY <1>13 DEF LogDelete, Step
  <1>14. CASE BeginMoveFile(a)
    BY <1>14 DEF BeginMoveFile, Begin
  <1>15. CASE CheckTarget(a)
    BY <1>15 DEF CheckTarget, Step
  <1>16. CASE SaveFile(a)
    BY <1>16 DEF SaveFile, Step
  <1>17. CASE BeginMoveFolder(a)
    BY <1>17 DEF BeginMoveFolder, Begin
  <1>18. CASE Walk(a)
    BY <1>18 DEF Walk
  <1>19. CASE CheckParent(a)
    BY <1>19 DEF CheckParent, Step
  <1>20. CASE SaveFolder(a)
    BY <1>20 DEF SaveFolder, Step
  <1>21. CASE BeginCreateFolder(a)
    BY <1>21 DEF BeginCreateFolder, Begin
  <1>22. CASE InsertFolder(a)
    BY <1>22 DEF InsertFolder, Step, Draw
  <1>23. CASE BeginDeleteFolder(a)
    BY <1>23 DEF BeginDeleteFolder, Begin
  <1>24. CASE Gather(a)
    BY <1>24, <1>b DEF Gather, GatherShape, Only
  <1>25. CASE FindFiles(a)
    BY <1>25 DEF FindFiles
  <1>26. CASE LogAll(a)
    BY <1>26 DEF LogAll, Step
  <1>27. CASE DeleteRows(a)
    BY <1>27 DEF DeleteRows, Step
  <1>28. CASE DeleteFolders(a)
    BY <1>28 DEF DeleteFolders, Step
  <1>29. CASE DeleteObjects(a)
    <2>1. \A b \in Members : /\ req'[b].batch \subseteq req[b].batch
                             /\ req'[b].file \in {req[b].file, Absent}
      BY <1>29, <1>c DEF DeleteShape, Only
    <2> QED
      BY <1>29, <2>1 DEF DeleteObjects
  <1>30. CASE Stop(a)
    BY <1>30 DEF Stop
  <1> QED
    BY <1>1, <1>2, <1>3, <1>4, <1>5, <1>6, <1>7, <1>8, <1>9, <1>10, <1>11, <1>12, <1>13,
       <1>14, <1>15, <1>16, <1>17, <1>18, <1>19, <1>20, <1>21, <1>22, <1>23, <1>24,
       <1>25, <1>26, <1>27, <1>28, <1>29, <1>30
    DEF Act, Put, Read, Delete, Move, Create, Purge

(* The file of an upload is drawn once, and nobody sees it before its row. *)
LEMMA FreshStep ==
  ASSUME NEW a \in Members, IInv, Act(a)
  PROVE  FreshInv'
  <1>b. Gather(a) => GatherShape(a)
    BY GatherForm DEF IInv
  <1>c. DeleteObjects(a) => DeleteShape(a)
    BY DeleteForm DEF IInv
  <1> USE IdsAssumption, IdleForm DEF IInv, TypeOK, FormInv, DrawnInv, FreshInv,
          WithFile, WithPlace, Uploading, Request, Steps, Places
  <1>1. CASE BeginUpload(a)
    BY <1>1 DEF BeginUpload, Begin, Draw
  <1>2. CASE BeginChatUpload(a)
    BY <1>2 DEF BeginChatUpload, Begin
  <1>3. CASE CheckFolder(a)
    BY <1>3 DEF CheckFolder, Step
  <1>4. CASE PutObject(a)
    BY <1>4 DEF PutObject, Step
  <1>5. CASE InsertRow(a)
    BY <1>5 DEF InsertRow, Step
  <1>6. CASE LogUpload(a)
    BY <1>6 DEF LogUpload, Step
  <1>7. CASE BeginRead(a)
    BY <1>7 DEF BeginRead, Begin
  <1>8. CASE OpenObject(a)
    BY <1>8 DEF OpenObject, Step
  <1>9. CASE LogRead(a)
    BY <1>9 DEF LogRead, Step
  <1>10. CASE BeginDeleteFile(a)
    BY <1>10 DEF BeginDeleteFile, Begin
  <1>11. CASE RemoveRow(a)
    BY <1>11 DEF RemoveRow, Step
  <1>12. CASE DeleteObject(a)
    BY <1>12 DEF DeleteObject, Step
  <1>13. CASE LogDelete(a)
    BY <1>13 DEF LogDelete, Step
  <1>14. CASE BeginMoveFile(a)
    BY <1>14 DEF BeginMoveFile, Begin
  <1>15. CASE CheckTarget(a)
    BY <1>15 DEF CheckTarget, Step
  <1>16. CASE SaveFile(a)
    BY <1>16 DEF SaveFile, Step
  <1>17. CASE BeginMoveFolder(a)
    BY <1>17 DEF BeginMoveFolder, Begin
  <1>18. CASE Walk(a)
    BY <1>18 DEF Walk
  <1>19. CASE CheckParent(a)
    BY <1>19 DEF CheckParent, Step
  <1>20. CASE SaveFolder(a)
    BY <1>20 DEF SaveFolder, Step
  <1>21. CASE BeginCreateFolder(a)
    BY <1>21 DEF BeginCreateFolder, Begin
  <1>22. CASE InsertFolder(a)
    BY <1>22 DEF InsertFolder, Step, Draw
  <1>23. CASE BeginDeleteFolder(a)
    BY <1>23 DEF BeginDeleteFolder, Begin
  <1>24. CASE Gather(a)
    <2>1. \A b \in Members : /\ req'[b].batch = req[b].batch /\ req'[b].file = req[b].file
                             /\ req'[b].at \in Uploading => req[b].at \in Uploading
      BY <1>24, <1>b DEF GatherShape, Only
    <2> QED
      BY <1>24, <2>1 DEF Gather
  <1>25. CASE FindFiles(a)
    BY <1>25 DEF FindFiles
  <1>26. CASE LogAll(a)
    BY <1>26 DEF LogAll, Step
  <1>27. CASE DeleteRows(a)
    BY <1>27 DEF DeleteRows, Step
  <1>28. CASE DeleteFolders(a)
    BY <1>28 DEF DeleteFolders, Step
  <1>29. CASE DeleteObjects(a)
    <2>1. \A b \in Members : /\ req'[b].batch \subseteq req[b].batch
                             /\ req'[b].file \in {req[b].file, Absent}
                             /\ req'[b].at \in Uploading => req'[b] = req[b]
      BY <1>29, <1>c DEF DeleteShape, Only
    <2> QED
      BY <1>29, <2>1 DEF DeleteObjects
  <1>30. CASE Stop(a)
    BY <1>30 DEF Stop
  <1> QED
    BY <1>1, <1>2, <1>3, <1>4, <1>5, <1>6, <1>7, <1>8, <1>9, <1>10, <1>11, <1>12, <1>13,
       <1>14, <1>15, <1>16, <1>17, <1>18, <1>19, <1>20, <1>21, <1>22, <1>23, <1>24,
       <1>25, <1>26, <1>27, <1>28, <1>29, <1>30
    DEF Act, Put, Read, Delete, Move, Create, Purge

(* Objects are put before their rows and deleted after them.               *)
LEMMA ObjectStep ==
  ASSUME NEW a \in Members, IInv, Act(a)
  PROVE  (InsertInv /\ DoomedInv /\ RowHasObject)'
  <1>b. Gather(a) => GatherShape(a)
    BY GatherForm DEF IInv
  <1>c. DeleteObjects(a) => DeleteShape(a)
    BY DeleteForm DEF IInv
  <1> USE IdsAssumption, IdleForm DEF IInv, TypeOK, FormInv, FreshInv, InsertInv,
          DoomedInv, Doomed, RowHasObject, WithFile, WithPlace, Uploading, Request,
          Steps, Places
  <1>1. CASE BeginUpload(a)
    BY <1>1 DEF BeginUpload, Begin, Draw
  <1>2. CASE BeginChatUpload(a)
    BY <1>2 DEF BeginChatUpload, Begin
  <1>3. CASE CheckFolder(a)
    BY <1>3 DEF CheckFolder, Step
  <1>4. CASE PutObject(a)
    BY <1>4 DEF PutObject, Step
  <1>5. CASE InsertRow(a)
    BY <1>5 DEF InsertRow, Step
  <1>6. CASE LogUpload(a)
    BY <1>6 DEF LogUpload, Step
  <1>7. CASE BeginRead(a)
    BY <1>7 DEF BeginRead, Begin
  <1>8. CASE OpenObject(a)
    BY <1>8 DEF OpenObject, Step
  <1>9. CASE LogRead(a)
    BY <1>9 DEF LogRead, Step
  <1>10. CASE BeginDeleteFile(a)
    BY <1>10 DEF BeginDeleteFile, Begin
  <1>11. CASE RemoveRow(a)
    BY <1>11 DEF RemoveRow, Step
  <1>12. CASE DeleteObject(a)
    BY <1>12 DEF DeleteObject, Step
  <1>13. CASE LogDelete(a)
    BY <1>13 DEF LogDelete, Step
  <1>14. CASE BeginMoveFile(a)
    BY <1>14 DEF BeginMoveFile, Begin
  <1>15. CASE CheckTarget(a)
    BY <1>15 DEF CheckTarget, Step
  <1>16. CASE SaveFile(a)
    BY <1>16 DEF SaveFile, Step
  <1>17. CASE BeginMoveFolder(a)
    BY <1>17 DEF BeginMoveFolder, Begin
  <1>18. CASE Walk(a)
    BY <1>18 DEF Walk
  <1>19. CASE CheckParent(a)
    BY <1>19 DEF CheckParent, Step
  <1>20. CASE SaveFolder(a)
    BY <1>20 DEF SaveFolder, Step
  <1>21. CASE BeginCreateFolder(a)
    BY <1>21 DEF BeginCreateFolder, Begin
  <1>22. CASE InsertFolder(a)
    BY <1>22 DEF InsertFolder, Step, Draw
  <1>23. CASE BeginDeleteFolder(a)
    BY <1>23 DEF BeginDeleteFolder, Begin
  <1>24. CASE Gather(a)
    <2>1. \A b \in Members : /\ req'[b].at = "insertRow" => req'[b] = req[b]
                             /\ Doomed(req'[b]) \subseteq Doomed(req[b])
      BY <1>24, <1>b DEF GatherShape, Only
    <2> QED
      BY <1>24, <2>1 DEF Gather
  <1>25. CASE FindFiles(a)
    BY <1>25 DEF FindFiles
  <1>26. CASE LogAll(a)
    BY <1>26 DEF LogAll, Step
  <1>27. CASE DeleteRows(a)
    BY <1>27 DEF DeleteRows, Step
  <1>28. CASE DeleteFolders(a)
    BY <1>28 DEF DeleteFolders, Step
  <1>29. CASE DeleteObjects(a)
    <2>1. PICK S \in SUBSET req[a].batch : objects' = objects \ S
      BY <1>29, <1>c DEF DeleteShape
    <2>2. Doomed(req[a]) = req[a].batch
      BY <1>29 DEF DeleteObjects
    <2>3. \A b \in Members : /\ req'[b].at = "insertRow" => b # a /\ req'[b] = req[b]
                             /\ Doomed(req'[b]) \subseteq Doomed(req[b])
      BY <1>29, <1>c, <2>2 DEF DeleteShape, Only
    <2>4. UNCHANGED <<row, revived>>
      BY <1>29 DEF DeleteObjects
    <2>5. InsertInv'
      BY <2>1, <2>3
    <2>6. DoomedInv'
      BY <2>3, <2>4
    <2>7. RowHasObject'
      BY <2>1, <2>2, <2>4
    <2> QED
      BY <2>5, <2>6, <2>7
  <1>30. CASE Stop(a)
    BY <1>30 DEF Stop
  <1> QED
    BY <1>1, <1>2, <1>3, <1>4, <1>5, <1>6, <1>7, <1>8, <1>9, <1>10, <1>11, <1>12, <1>13,
       <1>14, <1>15, <1>16, <1>17, <1>18, <1>19, <1>20, <1>21, <1>22, <1>23, <1>24,
       <1>25, <1>26, <1>27, <1>28, <1>29, <1>30
    DEF Act, Put, Read, Delete, Move, Create, Purge

(* Only LogAll leads to deleteRows, and the log only grows.                *)
LEMMA LogStep ==
  ASSUME NEW a \in Members, IInv, Act(a)
  PROVE  LogInv'
  <1>a. Begins(a) => BeginShape(a) /\ UNCHANGED <<row, objects, log, revived>>
    BY BeginForm DEF IInv
  <1>b. Gather(a) => GatherShape(a)
    BY GatherForm DEF IInv
  <1>c. DeleteObjects(a) => DeleteShape(a)
    BY DeleteForm DEF IInv
  <1> USE IdsAssumption, IdleForm DEF IInv, TypeOK, LogInv, Request, Steps, Places
  <1>1. CASE Begins(a)
    BY <1>1, <1>a DEF BeginShape, Only, Starts
  <1>2. CASE CheckFolder(a)
    BY <1>2 DEF CheckFolder, Step
  <1>3. CASE PutObject(a)
    BY <1>3 DEF PutObject, Step
  <1>4. CASE InsertRow(a)
    BY <1>4 DEF InsertRow, Step
  <1>5. CASE LogUpload(a)
    BY <1>5 DEF LogUpload, Step
  <1>6. CASE OpenObject(a)
    BY <1>6 DEF OpenObject, Step
  <1>7. CASE LogRead(a)
    BY <1>7 DEF LogRead, Step
  <1>8. CASE RemoveRow(a)
    BY <1>8 DEF RemoveRow, Step
  <1>9. CASE DeleteObject(a)
    BY <1>9 DEF DeleteObject, Step
  <1>10. CASE LogDelete(a)
    BY <1>10 DEF LogDelete, Step
  <1>11. CASE CheckTarget(a)
    BY <1>11 DEF CheckTarget, Step
  <1>12. CASE SaveFile(a)
    BY <1>12 DEF SaveFile, Step
  <1>13. CASE Walk(a)
    BY <1>13 DEF Walk
  <1>14. CASE CheckParent(a)
    BY <1>14 DEF CheckParent, Step
  <1>15. CASE SaveFolder(a)
    BY <1>15 DEF SaveFolder, Step
  <1>16. CASE InsertFolder(a)
    BY <1>16 DEF InsertFolder, Step, Draw
  <1>17. CASE Gather(a)
    BY <1>17, <1>b DEF Gather, GatherShape, Only
  <1>18. CASE FindFiles(a)
    BY <1>18 DEF FindFiles
  <1>19. CASE LogAll(a)
    BY <1>19 DEF LogAll, Step
  <1>20. CASE DeleteRows(a)
    BY <1>20 DEF DeleteRows, Step
  <1>21. CASE DeleteFolders(a)
    BY <1>21 DEF DeleteFolders, Step
  <1>22. CASE DeleteObjects(a)
    BY <1>22, <1>c DEF DeleteObjects, DeleteShape, Only
  <1>23. CASE Stop(a)
    BY <1>23 DEF Stop
  <1> QED
    BY <1>1, <1>2, <1>3, <1>4, <1>5, <1>6, <1>7, <1>8, <1>9, <1>10, <1>11, <1>12, <1>13,
       <1>14, <1>15, <1>16, <1>17, <1>18, <1>19, <1>20, <1>21, <1>22, <1>23
    DEF Act, Put, Read, Delete, Move, Create, Purge, Begins

(* Where a deletion meets another request, one of the two sets clash.      *)
LEMMA AloneStep ==
  ASSUME NEW a \in Members, IInv, Act(a)
  PROVE  AloneInv'
  <1>a. Begins(a) => BeginShape(a) /\ UNCHANGED <<row, objects, log, revived>>
    BY BeginForm DEF IInv
  <1>b. Gather(a) => GatherShape(a)
    BY GatherForm DEF IInv
  <1>c. DeleteObjects(a) => DeleteShape(a)
    BY DeleteForm DEF IInv
  <1> USE IdsAssumption, IdleForm DEF IInv, TypeOK, AloneInv, Deleting, Request, Steps,
          Places
  <1>1. CASE Begins(a)
    <2>1. SUFFICES ASSUME ~clash', NEW b \in Members, NEW c \in Members, b # c,
                          req'[b].at \in Deleting
                   PROVE  req'[c] = Idle
      BY DEF AloneInv
    <2>2. ~clash
      BY <1>1, <1>a, <2>1 DEF BeginShape
    <2>3. CASE b = a
      BY <1>1, <1>a, <2>1, <2>3 DEF BeginShape, Only
    <2>4. CASE b # a
      BY <1>1, <1>a, <2>1, <2>2, <2>4 DEF BeginShape, Only
    <2> QED
      BY <2>3, <2>4
  <1>2. CASE CheckFolder(a)
    BY <1>2 DEF CheckFolder, Step
  <1>3. CASE PutObject(a)
    BY <1>3 DEF PutObject, Step
  <1>4. CASE InsertRow(a)
    BY <1>4 DEF InsertRow, Step
  <1>5. CASE LogUpload(a)
    BY <1>5 DEF LogUpload, Step
  <1>6. CASE OpenObject(a)
    BY <1>6 DEF OpenObject, Step
  <1>7. CASE LogRead(a)
    BY <1>7 DEF LogRead, Step
  <1>8. CASE RemoveRow(a)
    BY <1>8 DEF RemoveRow, Step
  <1>9. CASE DeleteObject(a)
    BY <1>9 DEF DeleteObject, Step
  <1>10. CASE LogDelete(a)
    BY <1>10 DEF LogDelete, Step
  <1>11. CASE CheckTarget(a)
    BY <1>11 DEF CheckTarget, Step
  <1>12. CASE SaveFile(a)
    BY <1>12 DEF SaveFile, Step
  <1>13. CASE Walk(a)
    BY <1>13 DEF Walk
  <1>14. CASE CheckParent(a)
    BY <1>14 DEF CheckParent, Step
  <1>15. CASE SaveFolder(a)
    BY <1>15 DEF SaveFolder, Step
  <1>16. CASE InsertFolder(a)
    BY <1>16 DEF InsertFolder, Step, Draw
  <1>17. CASE Gather(a)
    <2>1. SUFFICES ASSUME ~clash, NEW b \in Members, NEW c \in Members, b # c,
                          req'[b].at \in Deleting
                   PROVE  req'[c] = Idle
      BY <1>17, <1>b DEF AloneInv, GatherShape
    <2>2. c # a /\ req'[c] = req[c] /\ req[b].at \in Deleting
      BY <1>17, <1>b, <2>1 DEF GatherShape, Only
    <2> QED
      BY <2>1, <2>2
  <1>18. CASE FindFiles(a)
    BY <1>18 DEF FindFiles
  <1>19. CASE LogAll(a)
    BY <1>19 DEF LogAll, Step
  <1>20. CASE DeleteRows(a)
    BY <1>20 DEF DeleteRows, Step
  <1>21. CASE DeleteFolders(a)
    BY <1>21 DEF DeleteFolders, Step
  <1>22. CASE DeleteObjects(a)
    BY <1>22, <1>c DEF DeleteObjects, DeleteShape, Only
  <1>23. CASE Stop(a)
    BY <1>23 DEF Stop
  <1> QED
    BY <1>1, <1>2, <1>3, <1>4, <1>5, <1>6, <1>7, <1>8, <1>9, <1>10, <1>11, <1>12, <1>13,
       <1>14, <1>15, <1>16, <1>17, <1>18, <1>19, <1>20, <1>21, <1>22, <1>23
    DEF Act, Put, Read, Delete, Move, Create, Purge, Begins

(* Every variable but req and clash keeps its type.                        *)
LEMMA RestStep ==
  ASSUME NEW a \in Members, TypeOK, FormInv, Act(a)
  PROVE  Rest'
  <1>b. Gather(a) => GatherShape(a)
    BY GatherForm
  <1>c. DeleteObjects(a) => DeleteShape(a)
    BY DeleteForm
  <1> USE IdsAssumption, IdleForm DEF TypeOK, FormInv, WithFile, WithPlace, Rest, tree,
          Seen, Request, Steps, Places
  <1>1. CASE BeginUpload(a)
    BY <1>1 DEF BeginUpload, Begin, Draw
  <1>2. CASE BeginChatUpload(a)
    <2>1. /\ parent' \in [Folders -> Places \cup {Absent}] /\ chat' \subseteq Folders
          /\ drawn' \subseteq Files \cup Folders
      BY <1>2 DEF BeginChatUpload
    <2> QED
      BY <1>2, <2>1 DEF BeginChatUpload, Begin
  <1>3. CASE CheckFolder(a)
    BY <1>3 DEF CheckFolder, Step
  <1>4. CASE PutObject(a)
    BY <1>4 DEF PutObject, Step
  <1>5. CASE InsertRow(a)
    BY <1>5 DEF InsertRow, Step
  <1>6. CASE LogUpload(a)
    BY <1>6 DEF LogUpload, Step
  <1>7. CASE BeginRead(a)
    BY <1>7 DEF BeginRead, Begin
  <1>8. CASE OpenObject(a)
    BY <1>8 DEF OpenObject, Step
  <1>9. CASE LogRead(a)
    BY <1>9 DEF LogRead, Step
  <1>10. CASE BeginDeleteFile(a)
    BY <1>10 DEF BeginDeleteFile, Begin
  <1>11. CASE RemoveRow(a)
    BY <1>11 DEF RemoveRow, Step
  <1>12. CASE DeleteObject(a)
    BY <1>12 DEF DeleteObject, Step
  <1>13. CASE LogDelete(a)
    BY <1>13 DEF LogDelete, Step
  <1>14. CASE BeginMoveFile(a)
    BY <1>14 DEF BeginMoveFile, Begin
  <1>15. CASE CheckTarget(a)
    BY <1>15 DEF CheckTarget, Step
  <1>16. CASE SaveFile(a)
    BY <1>16 DEF SaveFile, Step
  <1>17. CASE BeginMoveFolder(a)
    BY <1>17 DEF BeginMoveFolder, Begin
  <1>18. CASE Walk(a)
    BY <1>18 DEF Walk
  <1>19. CASE CheckParent(a)
    BY <1>19 DEF CheckParent, Step
  <1>20. CASE SaveFolder(a)
    BY <1>20 DEF SaveFolder, Step
  <1>21. CASE BeginCreateFolder(a)
    BY <1>21 DEF BeginCreateFolder, Begin
  <1>22. CASE InsertFolder(a)
    BY <1>22 DEF InsertFolder, Step, Draw
  <1>23. CASE BeginDeleteFolder(a)
    BY <1>23 DEF BeginDeleteFolder, Begin
  <1>24. CASE Gather(a)
    BY <1>24, <1>b DEF Gather, GatherShape, Only
  <1>25. CASE FindFiles(a)
    BY <1>25 DEF FindFiles
  <1>26. CASE LogAll(a)
    BY <1>26 DEF LogAll, Step
  <1>27. CASE DeleteRows(a)
    BY <1>27 DEF DeleteRows, Step
  <1>28. CASE DeleteFolders(a)
    BY <1>28 DEF DeleteFolders, Step
  <1>29. CASE DeleteObjects(a)
    BY <1>29, <1>c DEF DeleteObjects, DeleteShape, Only
  <1>30. CASE Stop(a)
    BY <1>30 DEF Stop
  <1> QED
    BY <1>1, <1>2, <1>3, <1>4, <1>5, <1>6, <1>7, <1>8, <1>9, <1>10, <1>11, <1>12, <1>13,
       <1>14, <1>15, <1>16, <1>17, <1>18, <1>19, <1>20, <1>21, <1>22, <1>23, <1>24,
       <1>25, <1>26, <1>27, <1>28, <1>29, <1>30
    DEF Act, Put, Read, Delete, Move, Create, Purge

(* Only a request that begins may set clash.                               *)
LEMMA ClashStep ==
  ASSUME NEW a \in Members, TypeOK, ~Begins(a), Act(a)
  PROVE  clash' = clash
  <1>b. Gather(a) => GatherShape(a)
    BY GatherForm
  <1>c. DeleteObjects(a) => DeleteShape(a)
    BY DeleteForm
  <1> USE IdsAssumption, IdleForm DEF Step
  <1>1. CASE BeginUpload(a)
    BY <1>1 DEF Begins
  <1>2. CASE BeginChatUpload(a)
    BY <1>2 DEF Begins
  <1>3. CASE CheckFolder(a)
    BY <1>3 DEF CheckFolder
  <1>4. CASE PutObject(a)
    BY <1>4 DEF PutObject
  <1>5. CASE InsertRow(a)
    BY <1>5 DEF InsertRow
  <1>6. CASE LogUpload(a)
    BY <1>6 DEF LogUpload
  <1>7. CASE BeginRead(a)
    BY <1>7 DEF Begins
  <1>8. CASE OpenObject(a)
    BY <1>8 DEF OpenObject
  <1>9. CASE LogRead(a)
    BY <1>9 DEF LogRead
  <1>10. CASE BeginDeleteFile(a)
    BY <1>10 DEF Begins
  <1>11. CASE RemoveRow(a)
    BY <1>11 DEF RemoveRow
  <1>12. CASE DeleteObject(a)
    BY <1>12 DEF DeleteObject
  <1>13. CASE LogDelete(a)
    BY <1>13 DEF LogDelete
  <1>14. CASE BeginMoveFile(a)
    BY <1>14 DEF Begins
  <1>15. CASE CheckTarget(a)
    BY <1>15 DEF CheckTarget
  <1>16. CASE SaveFile(a)
    BY <1>16 DEF SaveFile
  <1>17. CASE BeginMoveFolder(a)
    BY <1>17 DEF Begins
  <1>18. CASE Walk(a)
    BY <1>18 DEF Walk
  <1>19. CASE CheckParent(a)
    BY <1>19 DEF CheckParent
  <1>20. CASE SaveFolder(a)
    BY <1>20 DEF SaveFolder
  <1>21. CASE BeginCreateFolder(a)
    BY <1>21 DEF Begins
  <1>22. CASE InsertFolder(a)
    BY <1>22 DEF InsertFolder
  <1>23. CASE BeginDeleteFolder(a)
    BY <1>23 DEF Begins
  <1>24. CASE Gather(a)
    BY <1>24 DEF Gather
  <1>25. CASE FindFiles(a)
    BY <1>25 DEF FindFiles
  <1>26. CASE LogAll(a)
    BY <1>26 DEF LogAll
  <1>27. CASE DeleteRows(a)
    BY <1>27 DEF DeleteRows
  <1>28. CASE DeleteFolders(a)
    BY <1>28 DEF DeleteFolders
  <1>29. CASE DeleteObjects(a)
    BY <1>29 DEF DeleteObjects
  <1>30. CASE Stop(a)
    BY <1>30 DEF Stop
  <1> QED
    BY <1>1, <1>2, <1>3, <1>4, <1>5, <1>6, <1>7, <1>8, <1>9, <1>10, <1>11, <1>12, <1>13,
       <1>14, <1>15, <1>16, <1>17, <1>18, <1>19, <1>20, <1>21, <1>22, <1>23, <1>24,
       <1>25, <1>26, <1>27, <1>28, <1>29, <1>30
    DEF Act, Put, Read, Delete, Move, Create, Purge

(* A step of one member leaves the requests of the others as they are.     *)
LEMMA OnlyStep ==
  ASSUME NEW a \in Members, TypeOK, Act(a)
  PROVE  Only(a)
  <1>a. Begins(a) => BeginShape(a) /\ UNCHANGED <<row, objects, log, revived>>
    BY BeginForm
  <1>b. Gather(a) => GatherShape(a)
    BY GatherForm
  <1>c. DeleteObjects(a) => DeleteShape(a)
    BY DeleteForm
  <1> USE IdsAssumption, IdleForm DEF TypeOK, Steps
  <1>1. CASE Begins(a)
    BY <1>1, <1>a DEF BeginShape, Only, Starts
  <1>2. CASE CheckFolder(a)
    BY <1>2, StepForm DEF CheckFolder
  <1>3. CASE PutObject(a)
    BY <1>3, StepForm DEF PutObject
  <1>4. CASE InsertRow(a)
    BY <1>4, StepForm DEF InsertRow
  <1>5. CASE LogUpload(a)
    BY <1>5, StepForm DEF LogUpload
  <1>6. CASE OpenObject(a)
    BY <1>6, StepForm DEF OpenObject
  <1>7. CASE LogRead(a)
    BY <1>7, StepForm DEF LogRead
  <1>8. CASE RemoveRow(a)
    BY <1>8, StepForm DEF RemoveRow
  <1>9. CASE DeleteObject(a)
    BY <1>9, StepForm DEF DeleteObject
  <1>10. CASE LogDelete(a)
    BY <1>10, StepForm DEF LogDelete
  <1>11. CASE CheckTarget(a)
    BY <1>11, StepForm DEF CheckTarget
  <1>12. CASE SaveFile(a)
    BY <1>12, StepForm DEF SaveFile
  <1>13. CASE Walk(a)
    <2>1. "checkParent" \in Steps /\ req[a] \in Request
      OBVIOUS
    <2> HIDE DEF Steps
    <2>2. \E r \in Request : req' = [req EXCEPT ![a] = r]
      <3>1. [req[a] EXCEPT !.at = "checkParent"] \in Request
        BY <2>1 DEF Request
      <3>2. parent[req[a].cursor] \in Folders =>
              [req[a] EXCEPT !.cursor = parent[req[a].cursor]] \in Request
        BY <2>1 DEF Request, Places
      <3> QED
        BY <1>13, <3>1, <3>2 DEF Walk
    <2> QED
      BY <2>2 DEF Only
  <1>14. CASE CheckParent(a)
    BY <1>14, StepForm DEF CheckParent
  <1>15. CASE SaveFolder(a)
    BY <1>15, StepForm DEF SaveFolder
  <1>16. CASE InsertFolder(a)
    BY <1>16, StepForm DEF InsertFolder
  <1>17. CASE Gather(a)
    BY <1>17, <1>b DEF Gather, GatherShape, Only
  <1>18. CASE FindFiles(a)
    <2>1. "logAll" \in Steps /\ req[a] \in Request
      OBVIOUS
    <2> DEFINE r == [req[a] EXCEPT !.at = "logAll",
                                   !.batch = {f \in Files : row[f] \in req[a].found}]
    <2>2. req' = [req EXCEPT ![a] = r]
      BY <1>18 DEF FindFiles
    <2> HIDE DEF Steps
    <2>3. r \in Request
      BY <2>1 DEF Request
    <2> HIDE DEF r
    <2> QED
      BY <2>2, <2>3 DEF Only
  <1>19. CASE LogAll(a)
    BY <1>19, StepForm DEF LogAll
  <1>20. CASE DeleteRows(a)
    BY <1>20, StepForm DEF DeleteRows
  <1>21. CASE DeleteFolders(a)
    BY <1>21, StepForm DEF DeleteFolders
  <1>22. CASE DeleteObjects(a)
    BY <1>22, <1>c DEF DeleteObjects, DeleteShape, Only
  <1>23. CASE Stop(a)
    BY <1>23 DEF Stop, Only
  <1> QED
    BY <1>1, <1>2, <1>3, <1>4, <1>5, <1>6, <1>7, <1>8, <1>9, <1>10, <1>11, <1>12, <1>13,
       <1>14, <1>15, <1>16, <1>17, <1>18, <1>19, <1>20, <1>21, <1>22, <1>23
    DEF Act, Put, Read, Delete, Move, Create, Purge, Begins

(* Who acts is busy, or begins.                                            *)
LEMMA BusyStep ==
  ASSUME NEW a \in Members, TypeOK, Act(a)
  PROVE  req[a] # Idle \/ Begins(a)
  <1>a. Begins(a) => BeginShape(a) /\ UNCHANGED <<row, objects, log, revived>>
    BY BeginForm
  <1>b. Gather(a) => GatherShape(a)
    BY GatherForm
  <1>c. DeleteObjects(a) => DeleteShape(a)
    BY DeleteForm
  <1> USE IdsAssumption, IdleForm DEF TypeOK, FormInv, Request, Steps, Places
  <1>1. CASE Begins(a)
    BY <1>1
  <1>2. CASE CheckFolder(a)
    BY <1>2 DEF CheckFolder, Step
  <1>3. CASE PutObject(a)
    BY <1>3 DEF PutObject, Step
  <1>4. CASE InsertRow(a)
    BY <1>4 DEF InsertRow, Step
  <1>5. CASE LogUpload(a)
    BY <1>5 DEF LogUpload, Step
  <1>6. CASE OpenObject(a)
    BY <1>6 DEF OpenObject, Step
  <1>7. CASE LogRead(a)
    BY <1>7 DEF LogRead, Step
  <1>8. CASE RemoveRow(a)
    BY <1>8 DEF RemoveRow, Step
  <1>9. CASE DeleteObject(a)
    BY <1>9 DEF DeleteObject, Step
  <1>10. CASE LogDelete(a)
    BY <1>10 DEF LogDelete, Step
  <1>11. CASE CheckTarget(a)
    BY <1>11 DEF CheckTarget, Step
  <1>12. CASE SaveFile(a)
    BY <1>12 DEF SaveFile, Step
  <1>13. CASE Walk(a)
    BY <1>13 DEF Walk
  <1>14. CASE CheckParent(a)
    BY <1>14 DEF CheckParent, Step
  <1>15. CASE SaveFolder(a)
    BY <1>15 DEF SaveFolder, Step
  <1>16. CASE InsertFolder(a)
    BY <1>16 DEF InsertFolder, Step, Draw
  <1>17. CASE Gather(a)
    BY <1>17, <1>b DEF Gather, GatherShape, Only
  <1>18. CASE FindFiles(a)
    BY <1>18 DEF FindFiles
  <1>19. CASE LogAll(a)
    BY <1>19 DEF LogAll, Step
  <1>20. CASE DeleteRows(a)
    BY <1>20 DEF DeleteRows, Step
  <1>21. CASE DeleteFolders(a)
    BY <1>21 DEF DeleteFolders, Step
  <1>22. CASE DeleteObjects(a)
    BY <1>22, <1>c DEF DeleteObjects, DeleteShape, Only
  <1>23. CASE Stop(a)
    BY <1>23 DEF Stop
  <1> QED
    BY <1>1, <1>2, <1>3, <1>4, <1>5, <1>6, <1>7, <1>8, <1>9, <1>10, <1>11, <1>12, <1>13,
       <1>14, <1>15, <1>16, <1>17, <1>18, <1>19, <1>20, <1>21, <1>22, <1>23
    DEF Act, Put, Read, Delete, Move, Create, Purge, Begins

(* Only DeleteFolders takes the row of a folder.                           *)
LEMMA ParentStays ==
  ASSUME NEW a \in Members, TypeOK, FormInv, ~DeleteFolders(a), Act(a)
  PROVE  \A d \in Folders : parent[d] # Absent => parent'[d] # Absent
  <1>b. Gather(a) => GatherShape(a)
    BY GatherForm
  <1>c. DeleteObjects(a) => DeleteShape(a)
    BY DeleteForm
  <1> USE IdsAssumption, IdleForm DEF TypeOK, FormInv, WithFile, WithPlace, tree,
          Request, Steps, Places
  <1>1. CASE BeginUpload(a)
    BY <1>1 DEF BeginUpload, Begin, Draw
  <1>2. CASE BeginChatUpload(a)
    BY <1>2 DEF BeginChatUpload, Begin
  <1>3. CASE CheckFolder(a)
    BY <1>3 DEF CheckFolder, Step
  <1>4. CASE PutObject(a)
    BY <1>4 DEF PutObject, Step
  <1>5. CASE InsertRow(a)
    BY <1>5 DEF InsertRow, Step
  <1>6. CASE LogUpload(a)
    BY <1>6 DEF LogUpload, Step
  <1>7. CASE BeginRead(a)
    BY <1>7 DEF BeginRead, Begin
  <1>8. CASE OpenObject(a)
    BY <1>8 DEF OpenObject, Step
  <1>9. CASE LogRead(a)
    BY <1>9 DEF LogRead, Step
  <1>10. CASE BeginDeleteFile(a)
    BY <1>10 DEF BeginDeleteFile, Begin
  <1>11. CASE RemoveRow(a)
    BY <1>11 DEF RemoveRow, Step
  <1>12. CASE DeleteObject(a)
    BY <1>12 DEF DeleteObject, Step
  <1>13. CASE LogDelete(a)
    BY <1>13 DEF LogDelete, Step
  <1>14. CASE BeginMoveFile(a)
    BY <1>14 DEF BeginMoveFile, Begin
  <1>15. CASE CheckTarget(a)
    BY <1>15 DEF CheckTarget, Step
  <1>16. CASE SaveFile(a)
    BY <1>16 DEF SaveFile, Step
  <1>17. CASE BeginMoveFolder(a)
    BY <1>17 DEF BeginMoveFolder, Begin
  <1>18. CASE Walk(a)
    BY <1>18 DEF Walk
  <1>19. CASE CheckParent(a)
    BY <1>19 DEF CheckParent, Step
  <1>20. CASE SaveFolder(a)
    BY <1>20 DEF SaveFolder, Step
  <1>21. CASE BeginCreateFolder(a)
    BY <1>21 DEF BeginCreateFolder, Begin
  <1>22. CASE InsertFolder(a)
    BY <1>22 DEF InsertFolder, Step, Draw
  <1>23. CASE BeginDeleteFolder(a)
    BY <1>23 DEF BeginDeleteFolder, Begin
  <1>24. CASE Gather(a)
    BY <1>24, <1>b DEF Gather, GatherShape, Only
  <1>25. CASE FindFiles(a)
    BY <1>25 DEF FindFiles
  <1>26. CASE LogAll(a)
    BY <1>26 DEF LogAll, Step
  <1>27. CASE DeleteRows(a)
    BY <1>27 DEF DeleteRows, Step
  <1>28. CASE DeleteFolders(a)
    BY <1>28 DEF DeleteFolders, Step
  <1>29. CASE DeleteObjects(a)
    BY <1>29, <1>c DEF DeleteObjects, DeleteShape, Only
  <1>30. CASE Stop(a)
    BY <1>30 DEF Stop
  <1> QED
    BY <1>1, <1>2, <1>3, <1>4, <1>5, <1>6, <1>7, <1>8, <1>9, <1>10, <1>11, <1>12, <1>13,
       <1>14, <1>15, <1>16, <1>17, <1>18, <1>19, <1>20, <1>21, <1>22, <1>23, <1>24,
       <1>25, <1>26, <1>27, <1>28, <1>29, <1>30
    DEF Act, Put, Read, Delete, Move, Create, Purge

(* A file row stays, goes, or moves to the place its request has checked.  *)
LEMMA RowMoves ==
  ASSUME NEW a \in Members, TypeOK, FormInv, Act(a)
  PROVE  \A f \in Files : row'[f] \in {row[f], Absent}
                            \/ (req[a].at \in Checked /\ row'[f] = req[a].to)
  <1>b. Gather(a) => GatherShape(a)
    BY GatherForm
  <1>c. DeleteObjects(a) => DeleteShape(a)
    BY DeleteForm
  <1> USE IdsAssumption, IdleForm DEF TypeOK, Checked, Request, Steps, Places
  <1>1. CASE BeginUpload(a)
    BY <1>1 DEF BeginUpload, Begin, Draw
  <1>2. CASE BeginChatUpload(a)
    BY <1>2 DEF BeginChatUpload, Begin
  <1>3. CASE CheckFolder(a)
    BY <1>3 DEF CheckFolder, Step
  <1>4. CASE PutObject(a)
    BY <1>4 DEF PutObject, Step
  <1>5. CASE InsertRow(a)
    BY <1>5 DEF InsertRow, Step
  <1>6. CASE LogUpload(a)
    BY <1>6 DEF LogUpload, Step
  <1>7. CASE BeginRead(a)
    BY <1>7 DEF BeginRead, Begin
  <1>8. CASE OpenObject(a)
    BY <1>8 DEF OpenObject, Step
  <1>9. CASE LogRead(a)
    BY <1>9 DEF LogRead, Step
  <1>10. CASE BeginDeleteFile(a)
    BY <1>10 DEF BeginDeleteFile, Begin
  <1>11. CASE RemoveRow(a)
    BY <1>11 DEF RemoveRow, Step
  <1>12. CASE DeleteObject(a)
    BY <1>12 DEF DeleteObject, Step
  <1>13. CASE LogDelete(a)
    BY <1>13 DEF LogDelete, Step
  <1>14. CASE BeginMoveFile(a)
    BY <1>14 DEF BeginMoveFile, Begin
  <1>15. CASE CheckTarget(a)
    BY <1>15 DEF CheckTarget, Step
  <1>16. CASE SaveFile(a)
    BY <1>16 DEF SaveFile, Step
  <1>17. CASE BeginMoveFolder(a)
    BY <1>17 DEF BeginMoveFolder, Begin
  <1>18. CASE Walk(a)
    BY <1>18 DEF Walk
  <1>19. CASE CheckParent(a)
    BY <1>19 DEF CheckParent, Step
  <1>20. CASE SaveFolder(a)
    BY <1>20 DEF SaveFolder, Step
  <1>21. CASE BeginCreateFolder(a)
    BY <1>21 DEF BeginCreateFolder, Begin
  <1>22. CASE InsertFolder(a)
    BY <1>22 DEF InsertFolder, Step, Draw
  <1>23. CASE BeginDeleteFolder(a)
    BY <1>23 DEF BeginDeleteFolder, Begin
  <1>24. CASE Gather(a)
    BY <1>24, <1>b DEF Gather, GatherShape, Only
  <1>25. CASE FindFiles(a)
    BY <1>25 DEF FindFiles
  <1>26. CASE LogAll(a)
    BY <1>26 DEF LogAll, Step
  <1>27. CASE DeleteRows(a)
    BY <1>27 DEF DeleteRows, Step
  <1>28. CASE DeleteFolders(a)
    BY <1>28 DEF DeleteFolders, Step
  <1>29. CASE DeleteObjects(a)
    BY <1>29, <1>c DEF DeleteObjects, DeleteShape, Only
  <1>30. CASE Stop(a)
    BY <1>30 DEF Stop
  <1> QED
    BY <1>1, <1>2, <1>3, <1>4, <1>5, <1>6, <1>7, <1>8, <1>9, <1>10, <1>11, <1>12, <1>13,
       <1>14, <1>15, <1>16, <1>17, <1>18, <1>19, <1>20, <1>21, <1>22, <1>23, <1>24,
       <1>25, <1>26, <1>27, <1>28, <1>29, <1>30
    DEF Act, Put, Read, Delete, Move, Create, Purge

(* So does a folder row; or it moves to the root.                          *)
LEMMA ParentMoves ==
  ASSUME NEW a \in Members, TypeOK, FormInv, Act(a)
  PROVE  \A d \in Folders : parent'[d] \in {parent[d], Root, Absent}
                              \/ (req[a].at \in Checked /\ parent'[d] = req[a].to)
  <1>b. Gather(a) => GatherShape(a)
    BY GatherForm
  <1>c. DeleteObjects(a) => DeleteShape(a)
    BY DeleteForm
  <1> USE IdsAssumption, IdleForm DEF TypeOK, Checked, tree, Request, Steps, Places
  <1>1. CASE BeginUpload(a)
    BY <1>1 DEF BeginUpload, Begin, Draw
  <1>2. CASE BeginChatUpload(a)
    BY <1>2 DEF BeginChatUpload, Begin
  <1>3. CASE CheckFolder(a)
    BY <1>3 DEF CheckFolder, Step
  <1>4. CASE PutObject(a)
    BY <1>4 DEF PutObject, Step
  <1>5. CASE InsertRow(a)
    BY <1>5 DEF InsertRow, Step
  <1>6. CASE LogUpload(a)
    BY <1>6 DEF LogUpload, Step
  <1>7. CASE BeginRead(a)
    BY <1>7 DEF BeginRead, Begin
  <1>8. CASE OpenObject(a)
    BY <1>8 DEF OpenObject, Step
  <1>9. CASE LogRead(a)
    BY <1>9 DEF LogRead, Step
  <1>10. CASE BeginDeleteFile(a)
    BY <1>10 DEF BeginDeleteFile, Begin
  <1>11. CASE RemoveRow(a)
    BY <1>11 DEF RemoveRow, Step
  <1>12. CASE DeleteObject(a)
    BY <1>12 DEF DeleteObject, Step
  <1>13. CASE LogDelete(a)
    BY <1>13 DEF LogDelete, Step
  <1>14. CASE BeginMoveFile(a)
    BY <1>14 DEF BeginMoveFile, Begin
  <1>15. CASE CheckTarget(a)
    BY <1>15 DEF CheckTarget, Step
  <1>16. CASE SaveFile(a)
    BY <1>16 DEF SaveFile, Step
  <1>17. CASE BeginMoveFolder(a)
    BY <1>17 DEF BeginMoveFolder, Begin
  <1>18. CASE Walk(a)
    BY <1>18 DEF Walk
  <1>19. CASE CheckParent(a)
    BY <1>19 DEF CheckParent, Step
  <1>20. CASE SaveFolder(a)
    BY <1>20 DEF SaveFolder, Step
  <1>21. CASE BeginCreateFolder(a)
    BY <1>21 DEF BeginCreateFolder, Begin
  <1>22. CASE InsertFolder(a)
    BY <1>22 DEF InsertFolder, Step, Draw
  <1>23. CASE BeginDeleteFolder(a)
    BY <1>23 DEF BeginDeleteFolder, Begin
  <1>24. CASE Gather(a)
    BY <1>24, <1>b DEF Gather, GatherShape, Only
  <1>25. CASE FindFiles(a)
    BY <1>25 DEF FindFiles
  <1>26. CASE LogAll(a)
    BY <1>26 DEF LogAll, Step
  <1>27. CASE DeleteRows(a)
    BY <1>27 DEF DeleteRows, Step
  <1>28. CASE DeleteFolders(a)
    BY <1>28 DEF DeleteFolders, Step
  <1>29. CASE DeleteObjects(a)
    BY <1>29, <1>c DEF DeleteObjects, DeleteShape, Only
  <1>30. CASE Stop(a)
    BY <1>30 DEF Stop
  <1> QED
    BY <1>1, <1>2, <1>3, <1>4, <1>5, <1>6, <1>7, <1>8, <1>9, <1>10, <1>11, <1>12, <1>13,
       <1>14, <1>15, <1>16, <1>17, <1>18, <1>19, <1>20, <1>21, <1>22, <1>23, <1>24,
       <1>25, <1>26, <1>27, <1>28, <1>29, <1>30
    DEF Act, Put, Read, Delete, Move, Create, Purge

(* A request enters Checked by finding the row of its place.               *)
LEMMA CheckStep ==
  ASSUME NEW a \in Members, TypeOK, Act(a)
  PROVE  req'[a].at \in Checked /\ req[a].at \notin Checked => HasFolder(req'[a].to)
  <1>b. Gather(a) => GatherShape(a)
    BY GatherForm
  <1>c. DeleteObjects(a) => DeleteShape(a)
    BY DeleteForm
  <1> USE IdsAssumption, IdleForm DEF TypeOK, Checked, Request, Steps, Places
  <1>1. CASE BeginUpload(a)
    BY <1>1 DEF BeginUpload, Begin, Draw
  <1>2. CASE BeginChatUpload(a)
    BY <1>2 DEF BeginChatUpload, Begin
  <1>3. CASE CheckFolder(a)
    BY <1>3 DEF CheckFolder, Step
  <1>4. CASE PutObject(a)
    BY <1>4 DEF PutObject, Step
  <1>5. CASE InsertRow(a)
    BY <1>5 DEF InsertRow, Step
  <1>6. CASE LogUpload(a)
    BY <1>6 DEF LogUpload, Step
  <1>7. CASE BeginRead(a)
    BY <1>7 DEF BeginRead, Begin
  <1>8. CASE OpenObject(a)
    BY <1>8 DEF OpenObject, Step
  <1>9. CASE LogRead(a)
    BY <1>9 DEF LogRead, Step
  <1>10. CASE BeginDeleteFile(a)
    BY <1>10 DEF BeginDeleteFile, Begin
  <1>11. CASE RemoveRow(a)
    BY <1>11 DEF RemoveRow, Step
  <1>12. CASE DeleteObject(a)
    BY <1>12 DEF DeleteObject, Step
  <1>13. CASE LogDelete(a)
    BY <1>13 DEF LogDelete, Step
  <1>14. CASE BeginMoveFile(a)
    BY <1>14 DEF BeginMoveFile, Begin
  <1>15. CASE CheckTarget(a)
    BY <1>15 DEF CheckTarget, Step
  <1>16. CASE SaveFile(a)
    BY <1>16 DEF SaveFile, Step
  <1>17. CASE BeginMoveFolder(a)
    BY <1>17 DEF BeginMoveFolder, Begin, HasFolder
  <1>18. CASE Walk(a)
    BY <1>18 DEF Walk
  <1>19. CASE CheckParent(a)
    BY <1>19 DEF CheckParent, Step
  <1>20. CASE SaveFolder(a)
    BY <1>20 DEF SaveFolder, Step
  <1>21. CASE BeginCreateFolder(a)
    BY <1>21 DEF BeginCreateFolder, Begin
  <1>22. CASE InsertFolder(a)
    BY <1>22 DEF InsertFolder, Step, Draw
  <1>23. CASE BeginDeleteFolder(a)
    BY <1>23 DEF BeginDeleteFolder, Begin
  <1>24. CASE Gather(a)
    BY <1>24, <1>b DEF Gather, GatherShape, Only
  <1>25. CASE FindFiles(a)
    BY <1>25 DEF FindFiles
  <1>26. CASE LogAll(a)
    BY <1>26 DEF LogAll, Step
  <1>27. CASE DeleteRows(a)
    BY <1>27 DEF DeleteRows, Step
  <1>28. CASE DeleteFolders(a)
    BY <1>28 DEF DeleteFolders, Step
  <1>29. CASE DeleteObjects(a)
    BY <1>29, <1>c DEF DeleteObjects, DeleteShape, Only
  <1>30. CASE Stop(a)
    BY <1>30 DEF Stop
  <1> QED
    BY <1>1, <1>2, <1>3, <1>4, <1>5, <1>6, <1>7, <1>8, <1>9, <1>10, <1>11, <1>12, <1>13,
       <1>14, <1>15, <1>16, <1>17, <1>18, <1>19, <1>20, <1>21, <1>22, <1>23, <1>24,
       <1>25, <1>26, <1>27, <1>28, <1>29, <1>30
    DEF Act, Put, Read, Delete, Move, Create, Purge

(* In Checked it keeps its place.                                          *)
LEMMA CheckedKeeps ==
  ASSUME NEW a \in Members, TypeOK, req[a].at \in Checked, req'[a].at \in Checked, Act(a)
  PROVE  req'[a].to = req[a].to
  <1>a. Begins(a) => BeginShape(a) /\ UNCHANGED <<row, objects, log, revived>>
    BY BeginForm
  <1>b. Gather(a) => GatherShape(a)
    BY GatherForm
  <1>c. DeleteObjects(a) => DeleteShape(a)
    BY DeleteForm
  <1> USE IdsAssumption, IdleForm DEF TypeOK, Checked, Request, Steps, Places
  <1>1. CASE Begins(a)
    BY <1>1, <1>a DEF BeginShape
  <1>2. CASE CheckFolder(a)
    BY <1>2 DEF CheckFolder, Step
  <1>3. CASE PutObject(a)
    BY <1>3 DEF PutObject, Step
  <1>4. CASE InsertRow(a)
    BY <1>4 DEF InsertRow, Step
  <1>5. CASE LogUpload(a)
    BY <1>5 DEF LogUpload, Step
  <1>6. CASE OpenObject(a)
    BY <1>6 DEF OpenObject, Step
  <1>7. CASE LogRead(a)
    BY <1>7 DEF LogRead, Step
  <1>8. CASE RemoveRow(a)
    BY <1>8 DEF RemoveRow, Step
  <1>9. CASE DeleteObject(a)
    BY <1>9 DEF DeleteObject, Step
  <1>10. CASE LogDelete(a)
    BY <1>10 DEF LogDelete, Step
  <1>11. CASE CheckTarget(a)
    BY <1>11 DEF CheckTarget, Step
  <1>12. CASE SaveFile(a)
    BY <1>12 DEF SaveFile, Step
  <1>13. CASE Walk(a)
    BY <1>13 DEF Walk
  <1>14. CASE CheckParent(a)
    BY <1>14 DEF CheckParent, Step
  <1>15. CASE SaveFolder(a)
    BY <1>15 DEF SaveFolder, Step
  <1>16. CASE InsertFolder(a)
    BY <1>16 DEF InsertFolder, Step, Draw
  <1>17. CASE Gather(a)
    BY <1>17, <1>b DEF Gather, GatherShape, Only
  <1>18. CASE FindFiles(a)
    BY <1>18 DEF FindFiles
  <1>19. CASE LogAll(a)
    BY <1>19 DEF LogAll, Step
  <1>20. CASE DeleteRows(a)
    BY <1>20 DEF DeleteRows, Step
  <1>21. CASE DeleteFolders(a)
    BY <1>21 DEF DeleteFolders, Step
  <1>22. CASE DeleteObjects(a)
    BY <1>22, <1>c DEF DeleteObjects, DeleteShape, Only
  <1>23. CASE Stop(a)
    BY <1>23 DEF Stop
  <1> QED
    BY <1>1, <1>2, <1>3, <1>4, <1>5, <1>6, <1>7, <1>8, <1>9, <1>10, <1>11, <1>12, <1>13,
       <1>14, <1>15, <1>16, <1>17, <1>18, <1>19, <1>20, <1>21, <1>22, <1>23
    DEF Act, Put, Read, Delete, Move, Create, Purge, Begins

(* The steps of a folder deletion.                                         *)
LEMMA SearchSteps ==
  ASSUME NEW a \in Members, TypeOK, Act(a)
  PROVE  \/ req'[a].at \notin Deleting
         \/ BeginDeleteFolder(a) \/ Gather(a) \/ FindFiles(a) \/ LogAll(a)
         \/ DeleteRows(a) \/ DeleteFolders(a) \/ DeleteObjects(a)
  <1>b. Gather(a) => GatherShape(a)
    BY GatherForm
  <1>c. DeleteObjects(a) => DeleteShape(a)
    BY DeleteForm
  <1> USE IdsAssumption, IdleForm DEF TypeOK, Deleting, Request
  <1>1. CASE BeginUpload(a)
    BY <1>1 DEF BeginUpload, Begin, Draw
  <1>2. CASE BeginChatUpload(a)
    BY <1>2 DEF BeginChatUpload, Begin
  <1>3. CASE CheckFolder(a)
    BY <1>3 DEF CheckFolder, Step
  <1>4. CASE PutObject(a)
    BY <1>4 DEF PutObject, Step
  <1>5. CASE InsertRow(a)
    BY <1>5 DEF InsertRow, Step
  <1>6. CASE LogUpload(a)
    BY <1>6 DEF LogUpload, Step
  <1>7. CASE BeginRead(a)
    BY <1>7 DEF BeginRead, Begin
  <1>8. CASE OpenObject(a)
    BY <1>8 DEF OpenObject, Step
  <1>9. CASE LogRead(a)
    BY <1>9 DEF LogRead, Step
  <1>10. CASE BeginDeleteFile(a)
    BY <1>10 DEF BeginDeleteFile, Begin
  <1>11. CASE RemoveRow(a)
    BY <1>11 DEF RemoveRow, Step
  <1>12. CASE DeleteObject(a)
    BY <1>12 DEF DeleteObject, Step
  <1>13. CASE LogDelete(a)
    BY <1>13 DEF LogDelete, Step
  <1>14. CASE BeginMoveFile(a)
    BY <1>14 DEF BeginMoveFile, Begin
  <1>15. CASE CheckTarget(a)
    BY <1>15 DEF CheckTarget, Step
  <1>16. CASE SaveFile(a)
    BY <1>16 DEF SaveFile, Step
  <1>17. CASE BeginMoveFolder(a)
    BY <1>17 DEF BeginMoveFolder, Begin
  <1>18. CASE Walk(a)
    BY <1>18 DEF Walk
  <1>19. CASE CheckParent(a)
    BY <1>19 DEF CheckParent, Step
  <1>20. CASE SaveFolder(a)
    BY <1>20 DEF SaveFolder, Step
  <1>21. CASE BeginCreateFolder(a)
    BY <1>21 DEF BeginCreateFolder, Begin
  <1>22. CASE InsertFolder(a)
    BY <1>22 DEF InsertFolder, Step, Draw
  <1>23. CASE BeginDeleteFolder(a)
    BY <1>23
  <1>24. CASE Gather(a)
    BY <1>24
  <1>25. CASE FindFiles(a)
    BY <1>25
  <1>26. CASE LogAll(a)
    BY <1>26
  <1>27. CASE DeleteRows(a)
    BY <1>27
  <1>28. CASE DeleteFolders(a)
    BY <1>28
  <1>29. CASE DeleteObjects(a)
    BY <1>29
  <1>30. CASE Stop(a)
    BY <1>30 DEF Stop
  <1> QED
    BY <1>1, <1>2, <1>3, <1>4, <1>5, <1>6, <1>7, <1>8, <1>9, <1>10, <1>11, <1>12, <1>13,
       <1>14, <1>15, <1>16, <1>17, <1>18, <1>19, <1>20, <1>21, <1>22, <1>23, <1>24,
       <1>25, <1>26, <1>27, <1>28, <1>29, <1>30
    DEF Act, Put, Read, Delete, Move, Create, Purge

(* Only DeleteRows and RemoveRow take the row of a file.                   *)
LEMMA RowGoes ==
  ASSUME NEW a \in Members, TypeOK, FormInv, NEW f \in Files, row[f] # Absent, row'[f] = Absent,
         Act(a)
  PROVE  \/ DeleteRows(a) /\ f \in req[a].batch
         \/ req[a].at = "removeRow" /\ req[a].file = f
  <1>b. Gather(a) => GatherShape(a)
    BY GatherForm
  <1>c. DeleteObjects(a) => DeleteShape(a)
    BY DeleteForm
  <1> USE IdsAssumption, IdleForm DEF FormInv, WithPlace, Step, TypeOK, Places
  <1>1. CASE BeginUpload(a)
    BY <1>1 DEF BeginUpload, Begin, Draw
  <1>2. CASE BeginChatUpload(a)
    BY <1>2 DEF BeginChatUpload, Begin
  <1>3. CASE CheckFolder(a)
    BY <1>3 DEF CheckFolder, Step
  <1>4. CASE PutObject(a)
    BY <1>4 DEF PutObject, Step
  <1>5. CASE InsertRow(a)
    BY <1>5 DEF InsertRow, Step
  <1>6. CASE LogUpload(a)
    BY <1>6 DEF LogUpload, Step
  <1>7. CASE BeginRead(a)
    BY <1>7 DEF BeginRead, Begin
  <1>8. CASE OpenObject(a)
    BY <1>8 DEF OpenObject, Step
  <1>9. CASE LogRead(a)
    BY <1>9 DEF LogRead, Step
  <1>10. CASE BeginDeleteFile(a)
    BY <1>10 DEF BeginDeleteFile, Begin
  <1>11. CASE RemoveRow(a)
    BY <1>11 DEF RemoveRow, Step
  <1>12. CASE DeleteObject(a)
    BY <1>12 DEF DeleteObject, Step
  <1>13. CASE LogDelete(a)
    BY <1>13 DEF LogDelete, Step
  <1>14. CASE BeginMoveFile(a)
    BY <1>14 DEF BeginMoveFile, Begin
  <1>15. CASE CheckTarget(a)
    BY <1>15 DEF CheckTarget, Step
  <1>16. CASE SaveFile(a)
    BY <1>16 DEF SaveFile, Step
  <1>17. CASE BeginMoveFolder(a)
    BY <1>17 DEF BeginMoveFolder, Begin
  <1>18. CASE Walk(a)
    BY <1>18 DEF Walk
  <1>19. CASE CheckParent(a)
    BY <1>19 DEF CheckParent, Step
  <1>20. CASE SaveFolder(a)
    BY <1>20 DEF SaveFolder, Step
  <1>21. CASE BeginCreateFolder(a)
    BY <1>21 DEF BeginCreateFolder, Begin
  <1>22. CASE InsertFolder(a)
    BY <1>22 DEF InsertFolder, Step, Draw
  <1>23. CASE BeginDeleteFolder(a)
    BY <1>23 DEF BeginDeleteFolder, Begin
  <1>24. CASE Gather(a)
    BY <1>24, <1>b DEF Gather, GatherShape, Only
  <1>25. CASE FindFiles(a)
    BY <1>25 DEF FindFiles
  <1>26. CASE LogAll(a)
    BY <1>26 DEF LogAll, Step
  <1>27. CASE DeleteRows(a)
    BY <1>27 DEF DeleteRows, Step
  <1>28. CASE DeleteFolders(a)
    BY <1>28 DEF DeleteFolders, Step
  <1>29. CASE DeleteObjects(a)
    BY <1>29, <1>c DEF DeleteObjects, DeleteShape, Only
  <1>30. CASE Stop(a)
    BY <1>30 DEF Stop
  <1> QED
    BY <1>1, <1>2, <1>3, <1>4, <1>5, <1>6, <1>7, <1>8, <1>9, <1>10, <1>11, <1>12, <1>13,
       <1>14, <1>15, <1>16, <1>17, <1>18, <1>19, <1>20, <1>21, <1>22, <1>23, <1>24,
       <1>25, <1>26, <1>27, <1>28, <1>29, <1>30
    DEF Act, Put, Read, Delete, Move, Create, Purge

\* t has all of s, and of q but its head.
Appended(q, s, t) ==
  /\ \A i \in DOMAIN q : q[i] = Head(q) \/ \E j \in DOMAIN t : t[j] = q[i]
  /\ \A i \in DOMAIN s : \E j \in DOMAIN t : t[j] = s[i]

(* A queue that gives its head and takes on s has all but the head.        *)
LEMMA QueueTail ==
  \A S : \A q, s \in Seq(S) : q # <<>> => Appended(q, s, Tail(q) \o s)
  <1> SUFFICES ASSUME NEW S, NEW q \in Seq(S), NEW s \in Seq(S), q # <<>>
               PROVE  Appended(q, s, Tail(q) \o s)
    OBVIOUS
  <1> DEFINE t == Tail(q) \o s
  <1>1. /\ Len(q) \in Nat /\ Len(q) > 0 /\ Len(s) \in Nat
        /\ Tail(q) \in Seq(S) /\ Len(Tail(q)) = Len(q) - 1
        /\ DOMAIN q = 1..Len(q) /\ DOMAIN s = 1..Len(s)
    OBVIOUS
  <1>2. t \in Seq(S) /\ Len(t) = Len(q) - 1 + Len(s) /\ DOMAIN t = 1..Len(t)
    BY <1>1
  <1>3. ASSUME NEW i \in DOMAIN q, i # 1 PROVE i - 1 \in DOMAIN t /\ t[i - 1] = q[i]
    BY <1>1, <1>2, <1>3
  <1>4. ASSUME NEW i \in DOMAIN s
        PROVE  Len(q) - 1 + i \in DOMAIN t /\ t[Len(q) - 1 + i] = s[i]
    BY <1>1, <1>2
  <1>7. Head(q) = q[1]
    BY <1>1
  <1>5. \A i \in DOMAIN q : q[i] = Head(q) \/ \E j \in DOMAIN t : t[j] = q[i]
    BY <1>3, <1>7
  <1>6. \A i \in DOMAIN s : \E j \in DOMAIN t : t[j] = s[i]
    BY <1>4
  <1> QED
    BY <1>5, <1>6 DEF Appended


(* Every step keeps the types.                                             *)
LEMMA TypeStep ==
  ASSUME IInv, NEW a \in Members, Act(a)
  PROVE  TypeOK'
  <1>1. Rest'
    BY RestStep DEF IInv
  <1>2. req' \in [Members -> Request]
    BY OnlyStep DEF IInv, Only
  <1>3. clash' \in BOOLEAN
    <2>1. CASE Begins(a)
      BY <2>1, BeginForm DEF IInv, BeginShape
    <2>2. CASE ~Begins(a)
      BY <2>2, ClashStep DEF IInv, TypeOK
    <2> QED
      BY <2>1, <2>2
  <1> QED
    BY <1>1, <1>2, <1>3 DEF Rest, TypeOK

-----------------------------------------------------------------------------
(* The tree while no deletion has met another request.                     *)

(* Whoever acts then, nobody else deletes, and a deletion acts alone.      *)
LEMMA Alone ==
  ASSUME IInv, NEW a \in Members, Act(a), ~clash'
  PROVE  /\ ~clash
         /\ \A b \in Members \ {a} :
              /\ req'[b] = req[b] /\ req[b].at \notin Deleting
              /\ req[a].at \in Deleting => req[b] = Idle
  <1>0. TypeOK /\ AloneInv
    BY DEF IInv
  <1>1. ~clash
    <2>1. CASE Begins(a)
      BY <2>1, <1>0, BeginForm DEF BeginShape
    <2>2. CASE ~Begins(a)
      BY <2>2, <1>0, ClashStep
    <2> QED
      BY <2>1, <2>2
  <1>2. ASSUME NEW b \in Members \ {a}
        PROVE  /\ req'[b] = req[b] /\ req[b].at \notin Deleting
               /\ req[a].at \in Deleting => req[b] = Idle
    <2>1. req'[b] = req[b]
      BY <1>0, OnlyStep DEF Only
    <2>2. req[a].at \in Deleting => req[b] = Idle
      BY <1>0, <1>1 DEF AloneInv
    <2>3. req[b].at \in Deleting => req[a] = Idle
      BY <1>0, <1>1 DEF AloneInv
    <2>4. req[b].at \notin Deleting
      <3>1. CASE Begins(a)
        BY <3>1, <1>0, BeginForm, IdleForm DEF BeginShape, Deleting
      <3>2. CASE ~Begins(a)
        BY <3>2, <1>0, <2>3, BusyStep
      <3> QED
        BY <3>1, <3>2
    <2> QED
      BY <2>1, <2>2, <2>4
  <1> QED
    BY <1>1, <1>2

(* A folder that is there stays unless a deletion takes it.                *)
StillThere(d) == d \in {Root} \cup {e \in Folders : parent'[e] # Absent}

LEMMA FolderStays ==
  ASSUME IInv, NEW a \in Members, Act(a), ~DeleteFolders(a)
  PROVE  \A d : HasFolder(d) => StillThere(d)
  BY ParentStays DEF IInv, HasFolder, StillThere

(* The place a request has checked stays while clash is FALSE.             *)
LEMMA TargetStep ==
  ASSUME IInv, NEW a \in Members, Act(a)
  PROVE  TargetInv'
  <1> SUFFICES ASSUME ~clash', NEW b \in Members, req'[b].at \in Checked
               PROVE  StillThere(req'[b].to)
    BY DEF TargetInv, HasFolder, StillThere
  <1>0. TypeOK /\ TargetInv
    BY DEF IInv
  <1>1. CASE DeleteFolders(a)
    <2>1. req[a].at = "deleteFolders" /\ req'[a].at = "deleteObjects"
      BY <1>0, <1>1, StepForm DEF DeleteFolders, Steps
    <2>2. b # a
      BY <2>1 DEF Checked
    <2>3. req'[b] = Idle
      BY <2>1, <2>2, Alone DEF Deleting
    <2> QED
      BY <2>3, IdleForm DEF Checked
  <1>2. CASE ~DeleteFolders(a)
    <2>1. HasFolder(req'[b].to)
      <3>1. CASE b # a
        BY <3>1, <1>0, Alone DEF TargetInv
      <3>2. CASE b = a /\ req[a].at \in Checked
        <4>1. req'[a].to = req[a].to
          BY <3>2, <1>0, CheckedKeeps
        <4> QED
          BY <3>2, <4>1, <1>0, Alone DEF TargetInv
      <3>3. CASE b = a /\ req[a].at \notin Checked
        BY <3>3, <1>0, CheckStep
      <3> QED
        BY <3>1, <3>2, <3>3
    <2> QED
      BY <1>2, <2>1, FolderStays
  <1> QED
    BY <1>1, <1>2

(* What a deletion has found and read stays true while it is alone.        *)
LEMMA SearchStep ==
  ASSUME IInv, NEW a \in Members, Act(a)
  PROVE  (GatherInv /\ FoundInv /\ BatchInv)'
  <1> SUFFICES ASSUME ~clash'
               PROVE  (GatherInv /\ FoundInv /\ BatchInv)'
    BY DEF GatherInv, FoundInv, BatchInv
  <1>0. /\ TypeOK /\ ~clash
        /\ req \in [Members -> Request] /\ req[a] \in Request
        /\ \A b \in Members \ {a} : req'[b].at \notin Deleting
    BY Alone DEF IInv, TypeOK
  <1>1. /\ req[a].at = "gather" => \A e \in Folders : parent[e] \in req[a].found =>
                                     e \in req[a].found \/ Queued(req[a], parent[e])
        /\ req[a].at \in {"findFiles", "logAll", "deleteRows", "deleteFolders"} =>
             \A e \in Folders : parent[e] \in req[a].found => e \in req[a].found
        /\ req[a].at \in {"logAll", "deleteRows"} =>
             \A f \in Files : row[f] \in req[a].found => f \in req[a].batch
    BY <1>0 DEF IInv, GatherInv, FoundInv, BatchInv
  <1> DEFINE Good ==
        /\ req'[a].at = "gather" => \A e \in Folders : parent'[e] \in req'[a].found =>
                                     e \in req'[a].found \/ Queued(req'[a], parent'[e])
        /\ req'[a].at \in {"findFiles", "logAll", "deleteRows", "deleteFolders"} =>
             \A e \in Folders : parent'[e] \in req'[a].found => e \in req'[a].found
        /\ req'[a].at \in {"logAll", "deleteRows"} =>
             \A f \in Files : row'[f] \in req'[a].found => f \in req'[a].batch
        /\ req'[a].at = "deleteFolders" => \A f \in Files : row'[f] \notin req'[a].found
  <1>2. SUFFICES Good
    BY <1>0 DEF GatherInv, FoundInv, BatchInv, Deleting
  <1>3. CASE req'[a].at \notin Deleting
    BY <1>3 DEF Deleting
  <1>4. CASE BeginDeleteFolder(a)
    <2>1. PICK d \in Folders :
            Begin(a, [Idle EXCEPT !.at = "gather", !.folder = d, !.queue = <<d>>,
                                  !.found = {d}])
      BY <1>4 DEF BeginDeleteFolder
    <2>2. req'[a].at = "gather" /\ req'[a].queue = <<d>> /\ req'[a].found = {d}
      BY <1>0, <2>1, IdleForm DEF Begin, Request
    <2>3. Queued(req'[a], d)
      BY <2>2 DEF Queued
    <2> QED
      BY <2>2, <2>3
  <1>5. CASE Gather(a)
    <2>1. GatherShape(a) /\ UNCHANGED parent
      BY <1>0, <1>5, GatherForm DEF Gather, tree
    <2>2. CASE req[a].queue = <<>> /\ req'[a].at = "findFiles" /\ req'[a].found = req[a].found
      <3>1. \A d : ~Queued(req[a], d)
        BY <2>2 DEF Queued
      <3> QED
        BY <1>1, <2>1, <2>2, <3>1 DEF GatherShape
    <2>3. CASE req[a].queue # <<>> /\ req'[a].at = "gather"
      <3>1. PICK s \in Children(Head(req[a].queue)) :
              /\ req'[a].queue = Tail(req[a].queue) \o s
              /\ req'[a].found = req[a].found \cup {s[i] : i \in DOMAIN s}
        BY <2>1, <2>3 DEF GatherShape
      <3>2. /\ s \in Seq(Folders) /\ req[a].queue \in Seq(Folders) /\ req[a].queue # <<>>
            /\ {s[i] : i \in DOMAIN s} = {e \in Folders : parent[e] = Head(req[a].queue)}
        BY <1>0, <2>3, ChildSeq DEF Request
      <3>4. /\ \A i \in DOMAIN req[a].queue :
                 \/ req[a].queue[i] = Head(req[a].queue)
                 \/ \E j \in DOMAIN req'[a].queue : req'[a].queue[j] = req[a].queue[i]
            /\ \A i \in DOMAIN s : \E j \in DOMAIN req'[a].queue : req'[a].queue[j] = s[i]
        <4>1. Appended(req[a].queue, s, Tail(req[a].queue) \o s)
          BY <3>2, QueueTail
        <4> QED
          BY <3>1, <4>1 DEF Appended
      <3>3. ASSUME NEW e \in Folders, parent'[e] \in req'[a].found
            PROVE  e \in req'[a].found \/ Queued(req'[a], parent'[e])
        <4>1. CASE parent[e] \in req[a].found /\ Queued(req[a], parent[e])
          <5>1. PICK i \in DOMAIN req[a].queue : req[a].queue[i] = parent[e]
            BY <4>1 DEF Queued
          <5>2. CASE parent[e] = Head(req[a].queue)
            BY <5>2, <3>1, <3>2
          <5>3. CASE parent[e] # Head(req[a].queue)
            BY <5>1, <5>3, <2>1, <3>4 DEF Queued
          <5> QED
            BY <5>2, <5>3
        <4>2. CASE parent[e] \in req[a].found /\ e \in req[a].found
          BY <4>2, <3>1
        <4>3. CASE parent[e] \in {s[i] : i \in DOMAIN s}
          <5>1. PICK i \in DOMAIN s : s[i] = parent[e]
            BY <4>3
          <5> QED
            BY <5>1, <2>1, <3>4 DEF Queued
        <4> QED
          BY <1>1, <2>1, <3>1, <3>3, <4>1, <4>2, <4>3 DEF GatherShape
      <3> QED
        BY <2>3, <3>3
    <2> QED
      BY <2>1, <2>2, <2>3 DEF GatherShape
  <1>6. CASE FindFiles(a)
    BY <1>0, <1>1, <1>6 DEF FindFiles, Request, tree
  <1>7. CASE LogAll(a)
    BY <1>0, <1>1, <1>7, StepForm DEF LogAll, tree, Steps
  <1>8. CASE DeleteRows(a)
    <2>1. /\ req[a].at = "deleteRows" /\ req'[a].at = "deleteFolders"
          /\ req'[a].found = req[a].found /\ UNCHANGED parent
      BY <1>0, <1>8, StepForm DEF DeleteRows, tree, Steps
    <2>2. ASSUME NEW f \in Files PROVE row'[f] \notin req[a].found
      <3>1. Absent \notin req[a].found
        BY <1>0, IdsAssumption DEF Request
      <3> QED
        BY <1>1, <1>8, <2>1, <3>1 DEF DeleteRows
    <2> QED
      BY <1>1, <2>1, <2>2
  <1>9. CASE DeleteFolders(a) \/ DeleteObjects(a)
    <2>1. req'[a].at \in {"deleteObjects", "idle"}
      BY <1>0, <1>9, StepForm, DeleteForm, IdleForm DEF DeleteFolders, DeleteShape, Steps
    <2> QED
      BY <2>1
  <1> QED
    BY <1>0, <1>3, <1>4, <1>5, <1>6, <1>7, <1>8, <1>9, SearchSteps

(* A row lands in a folder that was checked and is still there; a folder   *)
(* goes when nothing is in it.                                             *)
LEMMA WholeStep ==
  ASSUME IInv, NEW a \in Members, Act(a)
  PROVE  TreeWhole'
  <1> SUFFICES ASSUME ~clash'
               PROVE  /\ \A f \in Files : row'[f] # Absent => StillThere(row'[f])
                      /\ \A d \in Folders : parent'[d] # Absent => StillThere(parent'[d])
    BY DEF TreeWhole, HasFolder, StillThere
  <1>0. /\ TypeOK /\ FormInv /\ ~clash /\ req[a] \in Request
        /\ \A f \in Files : row[f] # Absent => HasFolder(row[f])
        /\ \A d \in Folders : parent[d] # Absent => HasFolder(parent[d])
    BY Alone DEF IInv, TypeOK, TreeWhole
  <1>1. CASE DeleteFolders(a)
    <2>1. /\ req[a].at = "deleteFolders" /\ UNCHANGED row
          /\ parent' = [d \in Folders |-> IF d \in req[a].found THEN Absent ELSE parent[d]]
      BY <1>1 DEF DeleteFolders, Step
    <2>2. /\ \A f \in Files : row[f] \notin req[a].found
          /\ \A e \in Folders : parent[e] \in req[a].found => e \in req[a].found
      BY <1>0, <2>1 DEF IInv, FoundInv, BatchInv
    <2>3. \A d : HasFolder(d) /\ d \notin req[a].found => StillThere(d)
      BY <2>1, IdsAssumption DEF HasFolder, StillThere
    <2> QED
      BY <1>0, <2>1, <2>2, <2>3
  <1>2. CASE ~DeleteFolders(a)
    <2>1. req[a].at \in Checked => HasFolder(req[a].to)
      BY <1>0 DEF IInv, TargetInv
    <2>2. HasFolder(Root)
      BY DEF HasFolder
    <2>3. ASSUME NEW f \in Files, row'[f] # Absent PROVE HasFolder(row'[f])
      BY <1>0, <2>1, <2>3, RowMoves
    <2>4. ASSUME NEW d \in Folders, parent'[d] # Absent PROVE HasFolder(parent'[d])
      BY <1>0, <2>1, <2>2, <2>4, ParentMoves
    <2> QED
      BY <1>2, <2>3, <2>4, FolderStays
  <1> QED
    BY <1>1, <1>2

-----------------------------------------------------------------------------
(* The initial states satisfy every part of IInv.                          *)
LEMMA InitIInv == Init => IInv
  <1> SUFFICES ASSUME Init PROVE IInv
    OBVIOUS
  <1> USE IdsAssumption, IdleForm DEF Init
  <1>1. TypeOK
    BY DEF TypeOK, Places
  <1>2. FormInv /\ DrawnInv /\ FreshInv /\ InsertInv /\ LogInv /\ AloneInv /\ TargetInv
    BY DEF FormInv, WithFile, WithPlace, DrawnInv, FreshInv, Uploading, InsertInv, LogInv,
           AloneInv, Deleting, TargetInv, Checked
  <1>3. DoomedInv /\ RowHasObject
    BY DEF DoomedInv, Doomed, RowHasObject
  <1>4. GatherInv /\ FoundInv /\ BatchInv
    BY DEF GatherInv, FoundInv, BatchInv
  <1>5. TreeWhole
    <2>1. \A d \in Folders : parent[d] # Absent => HasFolder(parent[d])
      BY DEF HasFolder, Places
    <2> QED
      BY <2>1 DEF TreeWhole
  <1> QED
    BY <1>1, <1>2, <1>3, <1>4, <1>5 DEF IInv

(* Every reachable state satisfies the inductive invariant.                *)
THEOREM Invariance == Spec => []IInv
  <1>1. IInv /\ [Next]_vars => IInv'
    <2> SUFFICES ASSUME IInv, [Next]_vars PROVE IInv'
      OBVIOUS
    <2>1. CASE UNCHANGED vars
      BY <2>1 DEF vars, tree, IInv, TypeOK, FormInv, DrawnInv, FreshInv, InsertInv, DoomedInv,
                  LogInv, RowHasObject, AloneInv, TargetInv, GatherInv, Queued, FoundInv,
                  BatchInv, TreeWhole, HasFolder
    <2>2. ASSUME NEW a \in Members, Act(a) PROVE IInv'
      BY <2>2, TypeStep, FormStep, DrawnStep, FreshStep, ObjectStep, LogStep, AloneStep,
         TargetStep, SearchStep, WholeStep DEF IInv
    <2> QED
      BY <2>1, <2>2 DEF Next, Act
  <1> QED
    BY InitIInv, <1>1, PTL DEF Spec

(* The variables keep their types: above all, no request holds a file or a *)
(* folder that is not one.                                                 *)
THEOREM TypeCorrect == Spec => []TypeOK
  <1>1. IInv => TypeOK
    BY DEF IInv
  <1> QED
    BY Invariance, <1>1, PTL

(* "Storage and database are always in lockstep", but for what a late move *)
(* wrote back: RowHasObject.                                               *)
THEOREM StorageHolds == Spec => []RowHasObject
  <1>1. IInv => RowHasObject
    BY DEF IInv
  <1> QED
    BY Invariance, <1>1, PTL

(* No row is left in a folder that is gone unless a folder deletion has    *)
(* overlapped another request, wherever requests stop: TreeWhole.          *)
THEOREM TreeStaysWhole == Spec => []TreeWhole
  <1>1. IInv => TreeWhole
    BY DEF IInv
  <1> QED
    BY Invariance, <1>1, PTL

(* "Custody is captured before removal": RemovalsLogged.                   *)
THEOREM LoggedFirst == Spec => RemovalsLogged
  <1> DEFINE Logged == \A f \in Files : row[f] # Absent /\ row'[f] = Absent =>
                 \/ <<"delete", f>> \in log
                 \/ \E a \in Members : req[a].at = "removeRow" /\ req[a].file = f
  <1>1. IInv /\ [Next]_vars => [Logged]_vars
    <2> SUFFICES ASSUME IInv, NEW a \in Members, Act(a), NEW f \in Files,
                        row[f] # Absent, row'[f] = Absent
                 PROVE  \/ <<"delete", f>> \in log
                        \/ req[a].at = "removeRow" /\ req[a].file = f
      BY DEF Next, Act
    <2>1. \/ DeleteRows(a) /\ f \in req[a].batch
          \/ req[a].at = "removeRow" /\ req[a].file = f
      BY RowGoes DEF IInv
    <2>2. CASE DeleteRows(a) /\ f \in req[a].batch
      BY <2>2 DEF IInv, LogInv, DeleteRows, Step
    <2> QED
      BY <2>1, <2>2
  <1> QED
    BY Invariance, <1>1, PTL DEF Spec, RemovalsLogged

-----------------------------------------------------------------------------
(* The tree stays a tree while folders move one at a time. A move that has  *)
(* climbed to its cursor has left a path behind that leads there and does   *)
(* not meet the folder it moves; folders that appear or go in between turn  *)
(* no path towards that folder, only another move could.                    *)

\* What is in the tree or in a request has been drawn.
TreeDrawn == \A d \in Folders :
  /\ parent[d] # Absent => d \in drawn
  /\ parent[d] \in Folders => parent[d] \in drawn
RefInv ==
  /\ TreeDrawn
  /\ \A b \in Members : ({req[b].folder, req[b].to, req[b].cursor} \cap Folders) \subseteq drawn

\* A move has a folder, and a walk stands at one.
MoveInv == \A b \in Members :
  /\ req[b].at \in Moving => req[b].folder \in Folders
  /\ req[b].at = "walk" => req[b].cursor \in Folders

OneMove == \A b, c \in Members : req[b].at \in Moving /\ req[c].at \in Moving => b = c

\* P is a path from r's target, without r's folder, that ends in the open or at E.
Path(r, P, E) ==
  /\ P \subseteq Folders \cap drawn /\ r.folder \notin P
  /\ r.to \in Folders => r.to \in P \cup E
  /\ \A d \in P : parent[d] \in Folders => parent[d] \in P \cup E

Climbed(r) ==
  /\ r.at = "walk" => \E P : Path(r, P, {r.cursor})
  /\ r.at \in {"checkParent", "saveFolder"} => \E P : Path(r, P, {})
PathInv == \A b \in Members : Climbed(req[b])

TreeInv == RefInv /\ MoveInv /\ OneMove /\ PathInv /\ Acyclic

(* What a step does to the tree: nothing, or one of four things.            *)
LEMMA ParentShape ==
  ASSUME NEW a \in Members, Act(a)
  PROVE  \/ parent' = parent
         \/ SaveFolder(a) \/ DeleteFolders(a) \/ InsertFolder(a) \/ BeginChatUpload(a)
  BY DEF Act, Put, Read, Delete, Move, Create, Purge, BeginUpload, CheckFolder, PutObject, InsertRow, LogUpload,
         BeginRead, OpenObject, LogRead, BeginDeleteFile, RemoveRow, DeleteObject, LogDelete, BeginMoveFile,
         CheckTarget, SaveFile, BeginMoveFolder, Walk, CheckParent, BeginCreateFolder, BeginDeleteFolder, Gather,
         FindFiles, LogAll, DeleteRows, DeleteObjects, Stop, tree

(* No id is given back.                                                     *)
LEMMA DrawnGrows ==
  ASSUME NEW a \in Members, Act(a)
  PROVE  drawn \subseteq drawn'
  BY DEF Act, Put, Read, Delete, Move, Create, Purge, BeginUpload, BeginChatUpload, CheckFolder, PutObject, InsertRow,
         LogUpload, BeginRead, OpenObject, LogRead, BeginDeleteFile, RemoveRow, DeleteObject, LogDelete, BeginMoveFile,
         CheckTarget, SaveFile, BeginMoveFolder, Walk, CheckParent, SaveFolder, BeginCreateFolder, InsertFolder,
         BeginDeleteFolder, Gather, FindFiles, LogAll, DeleteRows, DeleteFolders, DeleteObjects, Stop, Draw

(* A request names folders it has read or was given.                        *)
LEMMA RefStep ==
  ASSUME NEW a \in Members, IInv, RefInv, MoveInv, Act(a)
  PROVE  ({req'[a].folder, req'[a].to, req'[a].cursor} \cap Folders) \subseteq drawn'
  <1>a. \A d \in Folders : parent[d] # Absent => d \in drawn
    BY DEF RefInv, TreeDrawn
  <1>b. Root # Absent
    BY IdsAssumption
  <1> USE IdsAssumption DEF IInv, TypeOK, RefInv, TreeDrawn, Request, Idle, Seen, Places
  <1>1. CASE BeginUpload(a)
    BY <1>1 DEF BeginUpload, Begin, Draw
  <1>2. CASE BeginChatUpload(a)
    <2>1. PICK f \in Files, d \in Folders :
            /\ Begin(a, [Idle EXCEPT !.at = "checkFolder", !.file = f, !.to = d])
            /\ parent[d] = Root \/ d \in drawn'
      BY <1>2 DEF BeginChatUpload
    <2>2. d \in drawn \/ d \in drawn'
      BY ONLY <1>a, <1>b, <2>1
    <2>3. drawn \subseteq drawn'
      BY DrawnGrows
    <2>4. req'[a].folder = Absent /\ req'[a].to = d /\ req'[a].cursor = Absent
      BY <2>1 DEF Begin
    <2> QED
      BY <2>2, <2>3, <2>4
  <1>3. CASE CheckFolder(a)
    BY <1>3 DEF CheckFolder, Step
  <1>4. CASE PutObject(a)
    BY <1>4 DEF PutObject, Step
  <1>5. CASE InsertRow(a)
    BY <1>5 DEF InsertRow, Step
  <1>6. CASE LogUpload(a)
    BY <1>6 DEF LogUpload, Step
  <1>7. CASE BeginRead(a)
    BY <1>7 DEF BeginRead, Begin
  <1>8. CASE OpenObject(a)
    BY <1>8 DEF OpenObject, Step
  <1>9. CASE LogRead(a)
    BY <1>9 DEF LogRead, Step
  <1>10. CASE BeginDeleteFile(a)
    BY <1>10 DEF BeginDeleteFile, Begin
  <1>11. CASE RemoveRow(a)
    BY <1>11 DEF RemoveRow, Step
  <1>12. CASE DeleteObject(a)
    BY <1>12 DEF DeleteObject, Step
  <1>13. CASE LogDelete(a)
    BY <1>13 DEF LogDelete, Step
  <1>14. CASE BeginMoveFile(a)
    BY <1>14 DEF BeginMoveFile, Begin
  <1>15. CASE CheckTarget(a)
    BY <1>15 DEF CheckTarget, Step
  <1>16. CASE SaveFile(a)
    BY <1>16 DEF SaveFile, Step
  <1>17. CASE BeginMoveFolder(a)
    <2>1. PICK d \in Folders, p \in Seen :
            /\ parent[d] # Absent
            /\ Begin(a, [Idle EXCEPT !.at = IF p = Root THEN "saveFolder" ELSE "walk",
                                    !.folder = d, !.to = p, !.cursor = p])
      BY <1>17 DEF BeginMoveFolder
    <2>2. req'[a].folder = d /\ req'[a].to = p /\ req'[a].cursor = p
      BY <2>1 DEF Begin
    <2>3. d \in drawn
      BY ONLY <1>a, <2>1
    <2>4. drawn' = drawn
      BY <1>17 DEF BeginMoveFolder
    <2> QED
      BY <2>2, <2>3, <2>4
  <1>18. CASE Walk(a)
    <2>1. drawn' = drawn
      BY <1>18 DEF Walk
    <2>2. \/ req'[a] = Idle
          \/ /\ req'[a].folder = req[a].folder /\ req'[a].to = req[a].to
             /\ req'[a].cursor = req[a].cursor
                  \/ (parent[req[a].cursor] \in Folders /\ req'[a].cursor = parent[req[a].cursor])
      BY <1>18 DEF Walk
    <2>3. req[a].cursor \in Folders /\ parent[req[a].cursor] \in Folders => parent[req[a].cursor] \in drawn
      OBVIOUS
    <2>4. req[a].cursor \in Folders
      BY <1>18 DEF Walk, MoveInv
    <2> QED
      BY <2>1, <2>2, <2>3, <2>4
  <1>19. CASE CheckParent(a)
    BY <1>19 DEF CheckParent, Step
  <1>20. CASE SaveFolder(a)
    BY <1>20 DEF SaveFolder, Step
  <1>21. CASE BeginCreateFolder(a)
    BY <1>21 DEF BeginCreateFolder, Begin
  <1>22. CASE InsertFolder(a)
    BY <1>22 DEF InsertFolder, Step, Draw
  <1>23. CASE BeginDeleteFolder(a)
    <2>1. PICK d \in Folders :
            /\ parent[d] # Absent
            /\ Begin(a, [Idle EXCEPT !.at = "gather", !.folder = d, !.queue = <<d>>, !.found = {d}])
      BY <1>23 DEF BeginDeleteFolder
    <2>2. req'[a].folder = d /\ req'[a].to = Absent /\ req'[a].cursor = Absent
      BY <2>1 DEF Begin
    <2>3. d \in drawn
      BY ONLY <1>a, <2>1
    <2>4. drawn' = drawn
      BY <1>23 DEF BeginDeleteFolder
    <2> QED
      BY <2>2, <2>3, <2>4
  <1>24. CASE Gather(a)
    <2>1. req' = [req EXCEPT ![a].at = "findFiles"]
            \/ \E q, S : req' = [req EXCEPT ![a].queue = q, ![a].found = S]
      BY <1>24 DEF Gather
    <2>2. req'[a].folder = req[a].folder /\ req'[a].to = req[a].to /\ req'[a].cursor = req[a].cursor
      <3>1. req \in [Members -> Request] /\ req[a] \in Request
        OBVIOUS
      <3>2. CASE req' = [req EXCEPT ![a].at = "findFiles"]
        BY <3>1, <3>2
      <3>3. ASSUME NEW q, NEW S, req' = [req EXCEPT ![a].queue = q, ![a].found = S]
            PROVE  req'[a] = [req[a] EXCEPT !.queue = q, !.found = S]
        BY <3>1, <3>3
      <3>4. CASE \E q, S : req' = [req EXCEPT ![a].queue = q, ![a].found = S]
        <4>1. PICK q, S : req' = [req EXCEPT ![a].queue = q, ![a].found = S]
          BY <3>4
        <4>2. req'[a] = [req[a] EXCEPT !.queue = q, !.found = S]
          BY <3>3, <4>1
        <4> QED
          BY <3>1, <4>2
      <3> QED
        BY <2>1, <3>2, <3>4
    <2>3. drawn' = drawn
      BY <1>24 DEF Gather
    <2> QED
      BY <2>2, <2>3
  <1>25. CASE FindFiles(a)
    BY <1>25 DEF FindFiles
  <1>26. CASE LogAll(a)
    BY <1>26 DEF LogAll, Step
  <1>27. CASE DeleteRows(a)
    BY <1>27 DEF DeleteRows, Step
  <1>28. CASE DeleteFolders(a)
    BY <1>28 DEF DeleteFolders, Step
  <1>29. CASE DeleteObjects(a)
    BY <1>29 DEF DeleteObjects
  <1>30. CASE Stop(a)
    BY <1>30 DEF Stop
  <1> QED
    BY <1>1, <1>2, <1>3, <1>4, <1>5, <1>6, <1>7, <1>8, <1>9, <1>10, <1>11, <1>12, <1>13, <1>14, <1>15, <1>16, <1>17, <1>18, <1>19, <1>20, <1>21, <1>22, <1>23, <1>24, <1>25, <1>26, <1>27, <1>28, <1>29, <1>30
    DEF Act, Put, Read, Delete, Move, Create, Purge

(* Who is moving a folder has begun to, or takes the next step of a move.   *)
LEMMA MoveShape ==
  ASSUME NEW a \in Members, IInv, Act(a), req'[a].at \in Moving
  PROVE  BeginMoveFolder(a) \/ Walk(a) \/ CheckParent(a)
  <1> USE IdsAssumption DEF IInv, TypeOK, Request, Idle, Moving
  <1>1. CASE BeginUpload(a)
    BY <1>1 DEF BeginUpload, Begin, Draw
  <1>2. CASE BeginChatUpload(a)
    BY <1>2 DEF BeginChatUpload, Begin
  <1>3. CASE CheckFolder(a)
    BY <1>3 DEF CheckFolder, Step
  <1>4. CASE PutObject(a)
    BY <1>4 DEF PutObject, Step
  <1>5. CASE InsertRow(a)
    BY <1>5 DEF InsertRow, Step
  <1>6. CASE LogUpload(a)
    BY <1>6 DEF LogUpload, Step
  <1>7. CASE BeginRead(a)
    BY <1>7 DEF BeginRead, Begin
  <1>8. CASE OpenObject(a)
    BY <1>8 DEF OpenObject, Step
  <1>9. CASE LogRead(a)
    BY <1>9 DEF LogRead, Step
  <1>10. CASE BeginDeleteFile(a)
    BY <1>10 DEF BeginDeleteFile, Begin
  <1>11. CASE RemoveRow(a)
    BY <1>11 DEF RemoveRow, Step
  <1>12. CASE DeleteObject(a)
    BY <1>12 DEF DeleteObject, Step
  <1>13. CASE LogDelete(a)
    BY <1>13 DEF LogDelete, Step
  <1>14. CASE BeginMoveFile(a)
    BY <1>14 DEF BeginMoveFile, Begin
  <1>15. CASE CheckTarget(a)
    BY <1>15 DEF CheckTarget, Step
  <1>16. CASE SaveFile(a)
    BY <1>16 DEF SaveFile, Step
  <1>17. CASE BeginMoveFolder(a)
    BY <1>17 DEF BeginMoveFolder, Begin
  <1>18. CASE Walk(a)
    BY <1>18 DEF Walk
  <1>19. CASE CheckParent(a)
    BY <1>19 DEF CheckParent, Step
  <1>20. CASE SaveFolder(a)
    BY <1>20 DEF SaveFolder, Step
  <1>21. CASE BeginCreateFolder(a)
    BY <1>21 DEF BeginCreateFolder, Begin
  <1>22. CASE InsertFolder(a)
    BY <1>22 DEF InsertFolder, Step, Draw
  <1>23. CASE BeginDeleteFolder(a)
    BY <1>23 DEF BeginDeleteFolder, Begin
  <1>24. CASE Gather(a)
    <2>1. req'[a].at \in {"gather", "findFiles"}
      BY <1>24, GatherForm DEF GatherShape
    <2> QED
      BY <2>1
  <1>25. CASE FindFiles(a)
    BY <1>25 DEF FindFiles
  <1>26. CASE LogAll(a)
    BY <1>26 DEF LogAll, Step
  <1>27. CASE DeleteRows(a)
    BY <1>27 DEF DeleteRows, Step
  <1>28. CASE DeleteFolders(a)
    BY <1>28 DEF DeleteFolders, Step
  <1>29. CASE DeleteObjects(a)
    BY <1>29 DEF DeleteObjects
  <1>30. CASE Stop(a)
    BY <1>30 DEF Stop
  <1> QED
    BY <1>1, <1>2, <1>3, <1>4, <1>5, <1>6, <1>7, <1>8, <1>9, <1>10, <1>11, <1>12, <1>13, <1>14, <1>15, <1>16, <1>17, <1>18, <1>19, <1>20, <1>21, <1>22, <1>23, <1>24, <1>25, <1>26, <1>27, <1>28, <1>29, <1>30
    DEF Act, Put, Read, Delete, Move, Create, Purge

\* A move saves its folder under a target it knows.
Saves(a) ==
  /\ req[a].at = "saveFolder" /\ req[a].folder \in Folders \cap drawn /\ req[a].to \in {Root} \cup (Folders \cap drawn)
  /\ parent' = [parent EXCEPT ![req[a].folder] = req[a].to]

\* Some folders go.
Drops == \E D : parent' = [d \in Folders |-> IF d \in D THEN Absent ELSE parent[d]]

\* A folder appears under one that was drawn.
Adds(d, p) ==
  /\ d \in Folders \ drawn /\ d \in drawn' /\ p \in {Root} \cup (Folders \cap drawn)
  /\ parent' = [parent EXCEPT ![d] = p]

LEMMA TreeShape ==
  ASSUME NEW a \in Members, IInv, RefInv, MoveInv, Act(a)
  PROVE  parent' = parent \/ Saves(a) \/ Drops \/ \E d, p : Adds(d, p)
  <1>1. req[a] \in Request /\ req[a].at \in WithPlace => req[a].to \in Places
    BY DEF IInv, FormInv, TypeOK
  <1>2. \A d \in Folders : d \in {req[a].folder, req[a].to} => d \in drawn
    BY DEF RefInv
  <1>3. CASE SaveFolder(a)
    <2>1. req[a].at = "saveFolder" /\ (parent' = parent \/ parent' = [parent EXCEPT ![req[a].folder] = req[a].to])
      BY <1>3 DEF SaveFolder, Step
    <2>2. req[a].folder \in Folders /\ req[a].to \in Places
      BY <1>1, <2>1 DEF MoveInv, Moving, WithPlace, IInv, FormInv
    <2> QED
      BY <1>2, <2>1, <2>2 DEF Saves, Places
  <1>4. CASE DeleteFolders(a)
    BY <1>4 DEF DeleteFolders, Drops
  <1>5. CASE InsertFolder(a)
    <2>1. PICK d \in Folders : Draw(d) /\ parent' = [parent EXCEPT ![d] = req[a].to]
      BY <1>5 DEF InsertFolder
    <2>2. req[a].to \in Places
      BY <1>5 DEF InsertFolder, Step, IInv, FormInv, WithPlace
    <2>3. d \notin drawn /\ d \in drawn'
      BY <2>1 DEF Draw
    <2>4. Adds(d, req[a].to)
      BY <1>2, <2>1, <2>2, <2>3 DEF Adds, Places
    <2> QED
      BY <2>4
  <1>6. CASE BeginChatUpload(a)
    <2>1. parent' = parent \/ \E d \in Folders : d \notin drawn /\ d \in drawn' /\ parent' = [parent EXCEPT ![d] = Root]
      BY <1>6 DEF BeginChatUpload, tree
    <2>2. ASSUME NEW d \in Folders, d \notin drawn, d \in drawn', parent' = [parent EXCEPT ![d] = Root]
          PROVE  Adds(d, Root)
      BY <2>2 DEF Adds
    <2> QED
      BY <2>1, <2>2
  <1> QED
    BY <1>3, <1>4, <1>5, <1>6, ParentShape

LEMMA TreeDrawnStep ==
  ASSUME NEW a \in Members, IInv, RefInv, MoveInv, Act(a)
  PROVE  TreeDrawn'
  <1>1. parent \in [Folders -> Places \cup {Absent}] /\ drawn \subseteq drawn' /\ Absent \notin Folders /\ Root \notin Folders
    BY DrawnGrows, IdsAssumption DEF IInv, TypeOK
  <1>2. TreeDrawn
    BY DEF RefInv
  <1>3. CASE parent' = parent
    BY <1>1, <1>2, <1>3 DEF TreeDrawn
  <1>4. CASE Saves(a)
    BY <1>1, <1>2, <1>4 DEF TreeDrawn, Saves
  <1>5. CASE Drops
    BY <1>1, <1>2, <1>5 DEF TreeDrawn, Drops
  <1>6. ASSUME NEW d, NEW p, Adds(d, p) PROVE TreeDrawn'
    BY <1>1, <1>2, <1>6 DEF TreeDrawn, Adds
  <1> QED
    BY <1>3, <1>4, <1>5, <1>6, TreeShape

LEMMA MoveStep ==
  ASSUME NEW a \in Members, IInv, MoveInv, Act(a)
  PROVE  MoveInv'
  <1>1. \A b \in Members \ {a} : req'[b] = req[b]
    BY OnlyStep DEF IInv, Only
  <1>2. TypeOK
    BY DEF IInv
  <1>3. CASE BeginMoveFolder(a)
    <2>1. PICK d \in Folders, p \in Seen :
            Begin(a, [Idle EXCEPT !.at = IF p = Root THEN "saveFolder" ELSE "walk",
                                  !.folder = d, !.to = p, !.cursor = p])
      BY <1>3 DEF BeginMoveFolder
    <2>2. /\ req'[a].at = (IF p = Root THEN "saveFolder" ELSE "walk") /\ req'[a].folder = d /\ req'[a].cursor = p
      BY <1>2, <2>1 DEF Begin, Idle, TypeOK
    <2>3. p # Root => p \in Folders
      BY DEF Seen
    <2> QED
      BY <1>1, <2>2, <2>3 DEF MoveInv
  <1>4. CASE Walk(a)
    <2>1. \/ req'[a] = Idle
          \/ /\ req'[a].folder = req[a].folder
             /\ req'[a].at = "walk" => req'[a].cursor \in Folders
      BY <1>2, <1>4 DEF Walk, TypeOK, Request
    <2>2. req[a].folder \in Folders
      BY <1>4 DEF Walk, MoveInv, Moving
    <2> QED
      BY <1>1, <2>1, <2>2 DEF MoveInv, Idle, Moving
  <1>5. CASE CheckParent(a)
    <2>1. req[a].folder \in Folders
      BY <1>5 DEF CheckParent, Step, MoveInv, Moving
    <2>2. \/ req'[a] = Idle
          \/ req'[a].folder = req[a].folder /\ req'[a].at = "saveFolder"
      BY <1>2, <1>5 DEF CheckParent, Step, TypeOK, Request
    <2> QED
      BY <1>1, <2>1, <2>2 DEF MoveInv, Idle, Moving
  <1>6. CASE req'[a].at \notin Moving
    BY <1>1, <1>6 DEF MoveInv, Moving
  <1> QED
    BY <1>3, <1>4, <1>5, <1>6, MoveShape

LEMMA OneMoveStep ==
  ASSUME NEW a \in Members, IInv, OneMove, MovesAtOnce <= 1, Act(a)
  PROVE  OneMove'
  <1>1. \A b \in Members \ {a} : req'[b] = req[b]
    BY OnlyStep DEF IInv, Only
  <1>2. CASE BeginMoveFolder(a)
    <2> DEFINE M == {b \in Members : req[b].at \in Moving}
    <2>1. Cardinality(M) < MovesAtOnce
      BY <1>2 DEF BeginMoveFolder
    <2>2. IsFiniteSet(M)
      BY MembersAssumption, FS_Subset
    <2>3. Cardinality(M) \in Nat
      BY <2>2, FS_CardinalityType
    <2>4. Cardinality(M) = 0
      BY <2>1, <2>3, MembersAssumption
    <2>5. M = {}
      BY <2>2, <2>4, FS_EmptySet
    <2> QED
      BY <1>1, <2>5 DEF OneMove
  <1>3. CASE Walk(a) \/ CheckParent(a)
    <2>1. req[a].at \in Moving
      BY <1>3 DEF Walk, CheckParent, Step, Moving
    <2> QED
      BY <1>1, <2>1 DEF OneMove
  <1>4. CASE req'[a].at \notin Moving
    BY <1>1, <1>4 DEF OneMove
  <1> QED
    BY <1>2, <1>3, <1>4, MoveShape

(* A cycle would need a folder that a move has just put under one of its    *)
(* own members, and the path of that move leads out of them.                *)
LEMMA AcyclicStep ==
  ASSUME NEW a \in Members, IInv, TreeInv, Act(a)
  PROVE  Acyclic'
  <1>1. parent \in [Folders -> Places \cup {Absent}] /\ Absent \notin Folders /\ Root \notin Folders
    BY IdsAssumption DEF IInv, TypeOK
  <1>2. Acyclic /\ TreeDrawn
    BY DEF TreeInv, RefInv
  <1> SUFFICES ASSUME NEW S \in SUBSET Folders, S # {}, \A d \in S : parent'[d] \in S
               PROVE  FALSE
    BY DEF Acyclic
  <1>3. CASE parent' = parent
    BY <1>2, <1>3 DEF Acyclic
  <1>4. CASE Saves(a)
    <2> DEFINE f == req[a].folder
               t == req[a].to
    <2>1. f \in Folders /\ parent' = [parent EXCEPT ![f] = t] /\ req[a].at = "saveFolder"
      BY <1>4 DEF Saves
    <2>2. PICK P : Path(req[a], P, {})
      BY <2>1 DEF TreeInv, PathInv, Climbed
    <2>3. /\ f \notin P /\ (t \in Folders => t \in P)
          /\ \A d \in P : d \in Folders /\ (parent[d] \in Folders => parent[d] \in P)
      BY <2>2 DEF Path
    <2> HIDE DEF f, t
    <2>4. \A d \in S : d # f => parent[d] \in S
      BY <1>1, <2>1
    <2>5. CASE f \notin S
      BY <1>2, <2>4, <2>5 DEF Acyclic
    <2>6. CASE f \in S
      <3>1. t \in S
        BY <1>1, <2>1, <2>6
      <3>2. t \in S \cap P
        BY <2>3, <3>1
      <3>3. \A d \in S \cap P : parent[d] \in S \cap P
        BY <2>3, <2>4
      <3>4. S \cap P \in SUBSET Folders
        OBVIOUS
      <3> QED
        BY <1>2, <3>2, <3>3, <3>4 DEF Acyclic
    <2> QED
      BY <2>5, <2>6
  <1>5. CASE Drops
    <2>1. \A d \in S : parent[d] \in S
      BY <1>1, <1>5 DEF Drops
    <2> QED
      BY <1>2, <2>1 DEF Acyclic
  <1>6. ASSUME NEW d, NEW p, Adds(d, p) PROVE FALSE
    <2>1. d \notin drawn /\ p # d /\ parent' = [parent EXCEPT ![d] = p]
      BY <1>1, <1>6 DEF Adds
    <2>2. \A e \in S \ {d} : parent[e] \in S \ {d}
      <3> SUFFICES ASSUME NEW e \in S \ {d} PROVE parent[e] \in S \ {d}
        OBVIOUS
      <3>1. parent'[e] = parent[e] /\ parent[e] \in S
        BY <1>1, <2>1
      <3>2. parent[e] \in drawn
        BY <1>2, <3>1 DEF TreeDrawn
      <3> QED
        BY <2>1, <3>1, <3>2
    <2>3. S \ {d} # {}
      <3>1. CASE d \in S
        <4>1. parent'[d] = p /\ parent'[d] \in S
          BY <1>1, <1>6, <2>1, <3>1 DEF Adds
        <4> QED
          BY <2>1, <4>1
      <3>2. CASE d \notin S
        BY <3>2
      <3> QED
        BY <3>1, <3>2
    <2>4. S \ {d} \in SUBSET Folders
      OBVIOUS
    <2> QED
      BY <1>2, <2>2, <2>3, <2>4 DEF Acyclic
  <1> QED
    BY <1>3, <1>4, <1>5, <1>6, TreeShape DEF TreeInv

(* Only another move changes where a path leads.                            *)
LEMMA PathStays ==
  ASSUME NEW a \in Members, IInv, RefInv, MoveInv, Act(a), ~Saves(a), NEW r, NEW P, NEW E, Path(r, P, E)
  PROVE  Path(r, P, E)'
  <1>1. parent \in [Folders -> Places \cup {Absent}] /\ Absent \notin Folders /\ drawn \subseteq drawn'
    BY DrawnGrows, IdsAssumption DEF IInv, TypeOK
  <1>2. CASE parent' = parent
    BY <1>1, <1>2 DEF Path
  <1>3. CASE Drops
    BY <1>1, <1>3 DEF Path, Drops
  <1>4. ASSUME NEW d, NEW p, Adds(d, p) PROVE Path(r, P, E)'
    <2>1. \A e \in P : e # d /\ e \in Folders /\ parent'[e] = parent[e]
      BY <1>1, <1>4 DEF Path, Adds
    <2> QED
      BY <1>1, <2>1 DEF Path
  <1> QED
    BY <1>2, <1>3, <1>4, TreeShape

LEMMA PathStep ==
  ASSUME NEW a \in Members, IInv, TreeInv, Act(a)
  PROVE  PathInv'
  <1>1. \A b \in Members \ {a} : req'[b] = req[b]
    BY OnlyStep DEF IInv, Only
  <1>2. TypeOK
    BY DEF IInv
  <1>3. RefInv /\ MoveInv /\ OneMove /\ PathInv
    BY DEF TreeInv
  <1>4. ASSUME NEW b \in Members \ {a} PROVE Climbed(req[b])'
    <2>1. PICK r : r = req[b] /\ r = req'[b]
      BY <1>1
    <2>2. Climbed(r)
      BY <1>3, <2>1 DEF PathInv
    <2>3. CASE r.at \in Moving
      <3>1. ~Saves(a)
        BY <1>3, <2>1, <2>3 DEF OneMove, Saves, Moving
      <3>2. \A P, E : Path(r, P, E) => Path(r, P, E)'
        BY <1>3, <3>1, PathStays
      <3>3. r.at = "walk" => \E P : Path(r, P, {r.cursor})'
        BY <2>2, <3>2 DEF Climbed
      <3>4. r.at \in {"checkParent", "saveFolder"} => \E P : Path(r, P, {})'
        BY <2>2, <3>2 DEF Climbed
      <3>5. Climbed(r)'
        BY <3>3, <3>4 DEF Climbed
      <3> QED
        BY <2>1, <3>5
    <2>4. CASE r.at \notin Moving
      BY <2>1, <2>4 DEF Climbed, Moving
    <2> QED
      BY <2>3, <2>4
  <1>5. Climbed(req[a])'
    <2>1. CASE BeginMoveFolder(a)
      <3>1. PICK d \in Folders, p \in Seen :
              Begin(a, [Idle EXCEPT !.at = IF p = Root THEN "saveFolder" ELSE "walk",
                                    !.folder = d, !.to = p, !.cursor = p])
        BY <2>1 DEF BeginMoveFolder
      <3>2. PICK r : r = req'[a]
        OBVIOUS
      <3>3. r.at = (IF p = Root THEN "saveFolder" ELSE "walk") /\ r.to = p /\ r.cursor = p
        BY <1>2, <3>1, <3>2 DEF Begin, Idle, TypeOK
      <3>4. p = Root => Path(r, {}, {})'
        BY <3>3, IdsAssumption DEF Path
      <3>5. Path(r, {}, {r.cursor})'
        BY <3>3 DEF Path
      <3>6. Climbed(r)'
        BY <3>3, <3>4, <3>5 DEF Climbed
      <3> QED
        BY <3>2, <3>6
    <2>2. CASE Walk(a)
      <3>1. PICK r : r = req[a]
        OBVIOUS
      <3>2. r \in Request /\ r.at = "walk" /\ parent' = parent /\ drawn' = drawn
        BY <1>2, <2>2, <3>1 DEF Walk, TypeOK, tree
      <3>3. PICK P : Path(r, P, {r.cursor})
        BY <1>3, <3>1, <3>2 DEF PathInv, Climbed
      <3>4. r.cursor \in Folders /\ r.cursor \in drawn
        BY <1>3, <3>1, <3>2 DEF MoveInv, RefInv
      <3> DEFINE Q == P \cup {r.cursor}
      <3>5. CASE r.cursor = r.folder
        <4>1. req'[a].at = "idle"
          BY <1>2, <2>2, <3>1, <3>5 DEF Walk, TypeOK, Idle
        <4> QED
          BY <4>1 DEF Climbed
      <3>6. CASE r.cursor # r.folder /\ parent[r.cursor] \in Folders
        <4>1. PICK n : n = [r EXCEPT !.cursor = parent[r.cursor]]
          OBVIOUS
        <4>2. req'[a] = n
          BY <1>2, <2>2, <3>1, <3>6, <4>1 DEF Walk, TypeOK
        <4>3. n.at = "walk" /\ n.cursor = parent[r.cursor] /\ n.to = r.to /\ n.folder = r.folder
          BY <3>2, <4>1 DEF Request
        <4>4. Path(n, Q, {n.cursor})
          BY <3>3, <3>4, <3>6, <4>3 DEF Path
        <4>5. Path(n, Q, {n.cursor})'
          BY <3>2, <4>4 DEF Path
        <4>6. Climbed(n)'
          BY <4>3, <4>5 DEF Climbed
        <4> QED
          BY <4>2, <4>6
      <3>7. CASE r.cursor # r.folder /\ parent[r.cursor] \notin Folders
        <4>1. PICK n : n = [r EXCEPT !.at = "checkParent"]
          OBVIOUS
        <4>2. req'[a] = n
          BY <1>2, <2>2, <3>1, <3>7, <4>1 DEF Walk, TypeOK
        <4>3. n.at = "checkParent" /\ n.to = r.to /\ n.folder = r.folder
          BY <3>2, <4>1 DEF Request
        <4>4. Path(n, Q, {})
          BY <3>3, <3>4, <3>7, <4>3 DEF Path
        <4>5. Path(n, Q, {})'
          BY <3>2, <4>4 DEF Path
        <4>6. Climbed(n)'
          BY <4>3, <4>5 DEF Climbed
        <4> QED
          BY <4>2, <4>6
      <3> QED
        BY <3>5, <3>6, <3>7
    <2>3. CASE CheckParent(a)
      <3>1. PICK r, n : r = req[a] /\ n = req'[a]
        OBVIOUS
      <3>2. r.at = "checkParent" /\ parent' = parent /\ drawn' = drawn
        BY <2>3, <3>1 DEF CheckParent, Step, tree
      <3>3. n.at = "idle" \/ (n.at = "saveFolder" /\ n.to = r.to /\ n.folder = r.folder)
        BY <1>2, <2>3, <3>1 DEF CheckParent, Step, TypeOK, Request, Idle
      <3>4. PICK P : Path(r, P, {})
        BY <1>3, <3>1, <3>2 DEF PathInv, Climbed
      <3>5. n.at = "saveFolder" => Path(n, P, {})'
        BY <3>2, <3>3, <3>4 DEF Path
      <3>6. Climbed(n)'
        BY <3>3, <3>5 DEF Climbed
      <3> QED
        BY <3>1, <3>6
    <2>4. CASE req'[a].at \notin Moving
      BY <2>4 DEF Climbed, Moving
    <2> QED
      BY <2>1, <2>2, <2>3, <2>4, MoveShape
  <1> QED
    BY <1>4, <1>5 DEF PathInv

LEMMA RefInvStep ==
  ASSUME NEW a \in Members, IInv, RefInv, MoveInv, Act(a)
  PROVE  RefInv'
  <1>1. \A b \in Members \ {a} : req'[b] = req[b]
    BY OnlyStep DEF IInv, Only
  <1>2. drawn \subseteq drawn' /\ TreeDrawn'
    BY DrawnGrows, TreeDrawnStep
  <1>3. ({req'[a].folder, req'[a].to, req'[a].cursor} \cap Folders) \subseteq drawn'
    BY RefStep
  <1>4. ASSUME NEW b \in Members \ {a}
        PROVE  ({req'[b].folder, req'[b].to, req'[b].cursor} \cap Folders) \subseteq drawn'
    BY <1>1, <1>2 DEF RefInv
  <1> QED
    BY <1>2, <1>3, <1>4 DEF RefInv

LEMMA InitTree == Init => TreeInv
  <1> SUFFICES ASSUME Init PROVE TreeInv
    OBVIOUS
  <1>1. \A b \in Members : req[b] = Idle
    BY DEF Init
  <1>2. Idle.at = "idle" /\ Idle.folder = Absent /\ Idle.to = Absent /\ Idle.cursor = Absent
    BY DEF Idle
  <1>3. TreeDrawn
    BY IdsAssumption DEF Init, TreeDrawn, HasFolder, Places
  <1>4. RefInv
    BY <1>1, <1>2, <1>3, IdsAssumption DEF RefInv
  <1>5. MoveInv /\ OneMove /\ PathInv
    BY <1>1, <1>2 DEF MoveInv, OneMove, Moving, PathInv, Climbed
  <1> QED
    BY <1>4, <1>5 DEF TreeInv, Init

(* moveFolder's ancestry walk: while folder moves do not overlap, no folder *)
(* becomes its own ancestor, whatever else happens to the tree between the  *)
(* hops of the walk: NoFolderCycle.                                         *)
THEOREM TreeStaysATree ==
  ASSUME MovesAtOnce <= 1
  PROVE  Spec => []NoFolderCycle
  <1>1. IInv /\ TreeInv /\ [Next]_vars => TreeInv'
    <2> SUFFICES ASSUME IInv, TreeInv, [Next]_vars PROVE TreeInv'
      OBVIOUS
    <2>1. CASE UNCHANGED vars
      BY <2>1 DEF vars, tree, TreeInv, RefInv, TreeDrawn, MoveInv, OneMove, PathInv, Climbed, Path, Acyclic
    <2>2. ASSUME NEW a \in Members, Act(a) PROVE TreeInv'
      BY <2>2, RefInvStep, MoveStep, OneMoveStep, PathStep, AcyclicStep DEF TreeInv
    <2> QED
      BY <2>1, <2>2 DEF Next, Act
  <1>2. TreeInv => NoFolderCycle
    BY DEF TreeInv, NoFolderCycle
  <1> QED
    BY <1>1, <1>2, InitTree, Invariance, PTL DEF Spec
=============================================================================
