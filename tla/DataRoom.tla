------------------------------ MODULE DataRoom ------------------------------
(***************************************************************************)
(* The data room of one case (DataRoomService): its file rows, its folder  *)
(* tree, the object store and the access log. No operation holds a lock or *)
(* a transaction over its steps, and neither folder column is a foreign    *)
(* key, so the requests of several members interleave between any two      *)
(* awaits. A request may stop anywhere: an await throws or the process     *)
(* dies, and what it has written stays.                                    *)
(***************************************************************************)
EXTENDS Naturals, FiniteSets, Sequences

CONSTANTS Files, Folders,   \* ids, each drawn at most once (random UUIDs)
          Root, Absent,     \* the root of the tree; no such row
          Members,          \* each has one request at a time
          MaxRequests,      \* bound: requests in a behaviour
          MovesAtOnce       \* folder moves that may overlap

ASSUME IdsAssumption == Root \notin Folders /\ Absent \notin Files \cup Folders \cup {Root}
ASSUME MembersAssumption == IsFiniteSet(Members) /\ MovesAtOnce \in Nat

VARIABLES
  row,      \* data_room_files: the folder of each file, Absent if no row
  parent,   \* data_room_folders: the parent of each folder, Absent if no row
  chat,     \* the folders named "Chat uploads"
  objects,  \* the files whose object is in the store
  log,      \* data_room_access_log: <<action, file>>
  req,      \* the request of each member
  drawn,    \* ids handed out so far
  begun,    \* requests begun so far
  revived,  \* history: files a move wrote back after their row was deleted
  clash     \* history: a folder deletion has overlapped another request

tree == <<parent, chat>>
vars == <<row, tree, objects, log, req, drawn, begun, revived, clash>>

Places == Folders \cup {Root}
Steps  == {"idle", "checkFolder", "putObject", "insertRow", "logUpload",
           "openObject", "logRead", "removeRow", "deleteObject", "logDelete",
           "checkTarget", "saveFile", "insertFolder", "walk", "checkParent",
           "saveFolder", "gather", "findFiles", "logAll", "deleteRows",
           "deleteFolders", "deleteObjects"}

\* Where a request stands and what it has read so far.
Request == [at : Steps, file : Files \cup {Absent}, folder : Folders \cup {Absent},
            to : Places \cup {Absent}, cursor : Places \cup {Absent},
            queue : Seq(Folders), found : SUBSET Folders, batch : SUBSET Files]
Idle == [at |-> "idle", file |-> Absent, folder |-> Absent, to |-> Absent,
         cursor |-> Absent, queue |-> <<>>, found |-> {}, batch |-> {}]

TypeOK ==
  /\ row     \in [Files -> Places \cup {Absent}]
  /\ parent  \in [Folders -> Places \cup {Absent}]
  /\ chat    \subseteq Folders
  /\ objects \subseteq Files
  /\ log     \subseteq {"upload", "read", "delete"} \X Files
  /\ req     \in [Members -> Request]
  /\ drawn   \subseteq Files \cup Folders
  /\ begun   \in Nat
  /\ revived \subseteq Files
  /\ clash   \in BOOLEAN

HasFolder(d) == d \in {Root} \cup {e \in Folders : parent[e] # Absent}

\* No folder is above itself: among any folders there is one whose parent is not.
Acyclic == \A S \in SUBSET Folders : S # {} => \E d \in S : parent[d] \notin S

\* Any data room that finished requests leave: a forest, and files in it.
Init ==
  /\ parent \in [Folders -> Places \cup {Absent}]
  /\ Acyclic /\ \A d \in Folders : parent[d] \in Folders => HasFolder(parent[d])
  /\ row \in [Files -> Places \cup {Absent}]
  /\ \A f \in Files : row[f] # Absent => HasFolder(row[f])
  /\ chat    = {}
  /\ objects = {f \in Files : row[f] # Absent}
  /\ log     = {"upload"} \X objects
  /\ req     = [a \in Members |-> Idle]
  /\ drawn   = objects \cup {d \in Folders : parent[d] # Absent}
  /\ begun   = 0
  /\ revived = {}
  /\ clash   = FALSE

-----------------------------------------------------------------------------
(* A request begins with a read that may answer "not found"; every later   *)
(* step is one await.                                                      *)

Deleting == {"gather", "findFiles", "logAll", "deleteRows", "deleteFolders", "deleteObjects"}

Begin(a, r) ==
  /\ req[a] = Idle /\ begun < MaxRequests /\ begun' = begun + 1
  /\ req' = [req EXCEPT ![a] = r]
  /\ clash' = (clash \/ \E b \in Members \ {a} :
                 req[b] # Idle /\ {r.at, req[b].at} \cap Deleting # {})

Step(a, from, to) ==
  /\ req[a].at = from
  /\ req' = [req EXCEPT ![a] = IF to = "idle" THEN Idle ELSE [@ EXCEPT !.at = to]]
  /\ UNCHANGED <<begun, clash>>

\* What a caller can name: an id it has seen, its row there or gone.
Seen == {Root} \cup (Folders \cap drawn)
Draw(id) == id \notin drawn /\ drawn' = drawn \cup {id}

Moving == {"walk", "checkParent", "saveFolder"}

\* An await throws, or the process dies: the request ends where it is.
Stop(a) ==
  /\ req[a] # Idle /\ req' = [req EXCEPT ![a] = Idle]
  /\ UNCHANGED <<row, tree, objects, log, drawn, begun, revived, clash>>

-----------------------------------------------------------------------------
(* uploadFromStream, also behind importFromDrive and saveChatUpload.       *)

BeginUpload(a) ==
  /\ \E f \in Files, d \in Seen :
       Draw(f) /\ Begin(a, [Idle EXCEPT !.at = "checkFolder", !.file = f, !.to = d])
  /\ UNCHANGED <<row, tree, objects, log, revived>>

\* chatUploadsFolderId is one transaction behind an advisory lock.
BeginChatUpload(a) ==
  /\ \E f \in Files, d \in Folders :
       /\ f \notin drawn
       /\ Begin(a, [Idle EXCEPT !.at = "checkFolder", !.file = f, !.to = d])
       /\ \/ d \in chat /\ parent[d] = Root /\ drawn' = drawn \cup {f} /\ UNCHANGED tree
          \/ /\ \A e \in chat : parent[e] # Root
             /\ d \notin drawn /\ drawn' = drawn \cup {f, d}
             /\ parent' = [parent EXCEPT ![d] = Root] /\ chat' = chat \cup {d}
  /\ UNCHANGED <<row, objects, log, revived>>

CheckFolder(a) ==
  /\ Step(a, "checkFolder", IF HasFolder(req[a].to) THEN "putObject" ELSE "idle")
  /\ UNCHANGED <<row, tree, objects, log, drawn, revived>>

\* Goes on when the store refused the object.
PutObject_ErrorIgnored(a) ==
  /\ Step(a, "putObject", "insertRow")
  /\ objects' \in {objects, objects \cup {req[a].file}}
  /\ UNCHANGED <<row, tree, log, drawn, revived>>

PutObject(a) ==
  /\ Step(a, "putObject", "insertRow")
  /\ objects' = objects \cup {req[a].file}
  /\ UNCHANGED <<row, tree, log, drawn, revived>>

InsertRow(a) ==
  /\ Step(a, "insertRow", "logUpload")
  /\ row' = [row EXCEPT ![req[a].file] = req[a].to]
  /\ UNCHANGED <<tree, objects, log, drawn, revived>>

\* Logs the folder in the place of the file.
LogUpload_Folder(a) ==
  /\ Step(a, "logUpload", "idle")
  /\ log' = log \cup {<<"upload", req[a].to>>}
  /\ UNCHANGED <<row, tree, objects, drawn, revived>>

LogUpload(a) ==
  /\ Step(a, "logUpload", "idle")
  /\ log' = log \cup {<<"upload", req[a].file>>}
  /\ UNCHANGED <<row, tree, objects, drawn, revived>>

(* getFileForDownload, exportToDrive, getFileForAgentRead, -Redline and    *)
(* -Exhibit: find the row, open the object, log the read.                  *)

BeginRead(a) ==
  /\ \E f \in Files : row[f] # Absent /\ Begin(a, [Idle EXCEPT !.at = "openObject", !.file = f])
  /\ UNCHANGED <<row, tree, objects, log, drawn, revived>>

OpenObject(a) ==
  /\ Step(a, "openObject", IF req[a].file \in objects THEN "logRead" ELSE "idle")
  /\ UNCHANGED <<row, tree, objects, log, drawn, revived>>

LogRead(a) ==
  /\ Step(a, "logRead", "idle")
  /\ log' = log \cup {<<"read", req[a].file>>}
  /\ UNCHANGED <<row, tree, objects, drawn, revived>>

-----------------------------------------------------------------------------
(* deleteFile and moveFile.                                                *)

BeginDeleteFile(a) ==
  /\ \E f \in Files : row[f] # Absent /\ Begin(a, [Idle EXCEPT !.at = "removeRow", !.file = f])
  /\ UNCHANGED <<row, tree, objects, log, drawn, revived>>

RemoveRow(a) ==
  /\ Step(a, "removeRow", "deleteObject")
  /\ row' = [row EXCEPT ![req[a].file] = Absent]
  /\ UNCHANGED <<tree, objects, log, drawn, revived>>

DeleteObject(a) ==
  /\ Step(a, "deleteObject", "logDelete")
  /\ objects' = objects \ {req[a].file}
  /\ UNCHANGED <<row, tree, log, drawn, revived>>

LogDelete(a) ==
  /\ Step(a, "logDelete", "idle")
  /\ log' = log \cup {<<"delete", req[a].file>>}
  /\ UNCHANGED <<row, tree, objects, drawn, revived>>

BeginMoveFile(a) ==
  /\ \E f \in Files, d \in Seen :
       /\ row[f] # Absent
       /\ Begin(a, [Idle EXCEPT !.at = "checkTarget", !.file = f, !.to = d])
  /\ UNCHANGED <<row, tree, objects, log, drawn, revived>>

CheckTarget(a) ==
  /\ Step(a, "checkTarget", IF HasFolder(req[a].to) THEN "saveFile" ELSE "idle")
  /\ UNCHANGED <<row, tree, objects, log, drawn, revived>>

\* save() of an entity looks for its row: when that is gone it inserts the
\* entity again, and when it goes only then it updates nothing.
SaveFile(a) ==
  LET f == req[a].file IN
  /\ Step(a, "saveFile", "idle")
  /\ \/ /\ row' = [row EXCEPT ![f] = req[a].to]
        /\ revived' = IF row[f] = Absent THEN revived \cup {f} ELSE revived
     \/ row[f] = Absent /\ UNCHANGED <<row, revived>>
  /\ UNCHANGED <<tree, objects, log, drawn>>

-----------------------------------------------------------------------------
(* createFolder and moveFolder.                                            *)

BeginCreateFolder(a) ==
  /\ \E p \in Seen :
       HasFolder(p) /\ Begin(a, [Idle EXCEPT !.at = "insertFolder", !.to = p])
  /\ UNCHANGED <<row, tree, objects, log, drawn, revived>>

\* The name is the caller's, "Chat uploads" included.
InsertFolder(a) ==
  /\ Step(a, "insertFolder", "idle")
  /\ \E d \in Folders :
       /\ Draw(d)
       /\ parent' = [parent EXCEPT ![d] = req[a].to]
       /\ chat' \in {chat, chat \cup {d}}
  /\ UNCHANGED <<row, objects, log, revived>>

BeginMoveFolder(a) ==
  /\ Cardinality({b \in Members : req[b].at \in Moving}) < MovesAtOnce
  /\ \E d \in Folders, p \in Seen :
       /\ parent[d] # Absent
       /\ Begin(a, [Idle EXCEPT !.at = IF p = Root THEN "saveFolder" ELSE "walk",
                                !.folder = d, !.to = p, !.cursor = p])
  /\ UNCHANGED <<row, tree, objects, log, drawn, revived>>

\* Looks at the target alone, not at what is above it.
Walk_TargetOnly(a) ==
  LET r == req[a] IN
  /\ r.at = "walk"
  /\ req' = [req EXCEPT ![a] = IF r.to = r.folder THEN Idle ELSE [r EXCEPT !.at = "checkParent"]]
  /\ UNCHANGED <<row, tree, objects, log, drawn, begun, revived, clash>>

\* One hop of the walk up from the target, one read each.
Walk(a) ==
  LET r == req[a] IN
  /\ r.at = "walk"
  /\ req' = [req EXCEPT ![a] =
       IF r.cursor = r.folder THEN Idle
       ELSE IF parent[r.cursor] \in Folders THEN [r EXCEPT !.cursor = parent[r.cursor]]
       ELSE [r EXCEPT !.at = "checkParent"]]
  /\ UNCHANGED <<row, tree, objects, log, drawn, begun, revived, clash>>

CheckParent(a) ==
  /\ Step(a, "checkParent", IF HasFolder(req[a].to) THEN "saveFolder" ELSE "idle")
  /\ UNCHANGED <<row, tree, objects, log, drawn, revived>>

SaveFolder(a) ==
  /\ Step(a, "saveFolder", "idle")
  /\ \/ parent' = [parent EXCEPT ![req[a].folder] = req[a].to]
     \/ parent[req[a].folder] = Absent /\ UNCHANGED parent
  /\ UNCHANGED <<row, chat, objects, log, drawn, revived>>

-----------------------------------------------------------------------------
(* deleteFolder: gather the subtree, one read for the children of each     *)
(* folder; find its files; log, delete files, delete folders, and last the *)
(* objects, whose failures do not stop the loop.                           *)

BeginDeleteFolder(a) ==
  /\ \E d \in Folders :
       /\ parent[d] # Absent
       /\ Begin(a, [Idle EXCEPT !.at = "gather", !.folder = d, !.queue = <<d>>, !.found = {d}])
  /\ UNCHANGED <<row, tree, objects, log, drawn, revived>>

\* The children of d in any order.
Children(d) == {s \in UNION {[1..n -> Folders] : n \in 0..Cardinality(Folders)} :
                  /\ \A i, j \in DOMAIN s : s[i] = s[j] => i = j
                  /\ {s[i] : i \in DOMAIN s} = {e \in Folders : parent[e] = d}}

\* Looks at the children of the folder alone.
Gather_OneLevel(a) ==
  LET r == req[a] IN
  /\ r.at = "gather"
  /\ \E s \in Children(Head(r.queue)) :
       req' = [req EXCEPT ![a].at = "findFiles",
                          ![a].found = @ \cup {s[i] : i \in DOMAIN s}]
  /\ UNCHANGED <<row, tree, objects, log, drawn, begun, revived, clash>>

Gather(a) ==
  LET r == req[a] IN
  /\ r.at = "gather"
  /\ IF r.queue = <<>> THEN req' = [req EXCEPT ![a].at = "findFiles"]
     ELSE \E s \in Children(Head(r.queue)) :
            req' = [req EXCEPT ![a].queue = Tail(r.queue) \o s,
                               ![a].found = @ \cup {s[i] : i \in DOMAIN s}]
  /\ UNCHANGED <<row, tree, objects, log, drawn, begun, revived, clash>>

FindFiles(a) ==
  /\ req[a].at = "findFiles"
  /\ req' = [req EXCEPT ![a].at = "logAll", ![a].batch = {f \in Files : row[f] \in req[a].found}]
  /\ UNCHANGED <<row, tree, objects, log, drawn, begun, revived, clash>>

LogAll(a) ==
  /\ Step(a, "logAll", "deleteRows")
  /\ log' = log \cup ({"delete"} \X req[a].batch)
  /\ UNCHANGED <<row, tree, objects, drawn, revived>>

\* Deletes what is in the folders now, not what was found and logged.
DeleteRows_ByFolder(a) ==
  /\ Step(a, "deleteRows", "deleteFolders")
  /\ row' = [f \in Files |-> IF row[f] \in req[a].found THEN Absent ELSE row[f]]
  /\ UNCHANGED <<tree, objects, log, drawn, revived>>

DeleteRows(a) ==
  /\ Step(a, "deleteRows", "deleteFolders")
  /\ row' = [f \in Files |-> IF f \in req[a].batch THEN Absent ELSE row[f]]
  /\ UNCHANGED <<tree, objects, log, drawn, revived>>

DeleteFolders(a) ==
  /\ Step(a, "deleteFolders", "deleteObjects")
  /\ parent' = [d \in Folders |-> IF d \in req[a].found THEN Absent ELSE parent[d]]
  /\ UNCHANGED <<row, chat, objects, log, drawn, revived>>

\* The object of one file of the batch, or a failure that is only counted.
DeleteObjects(a) ==
  LET r == req[a] IN
  /\ r.at = "deleteObjects"
  /\ \/ r.batch = {} /\ req' = [req EXCEPT ![a] = Idle] /\ UNCHANGED objects
     \/ \E f \in r.batch :
          /\ req' = [req EXCEPT ![a].batch = @ \ {f}]
          /\ objects' \in {objects, objects \ {f}}
  /\ UNCHANGED <<row, tree, log, drawn, begun, revived, clash>>

-----------------------------------------------------------------------------
Put(a)    == \/ BeginUpload(a) \/ BeginChatUpload(a) \/ CheckFolder(a) \/ PutObject(a)
             \/ InsertRow(a) \/ LogUpload(a)
Read(a)   == BeginRead(a) \/ OpenObject(a) \/ LogRead(a)
Delete(a) == BeginDeleteFile(a) \/ RemoveRow(a) \/ DeleteObject(a) \/ LogDelete(a)
Move(a)   == \/ BeginMoveFile(a) \/ CheckTarget(a) \/ SaveFile(a)
             \/ BeginMoveFolder(a) \/ Walk(a) \/ CheckParent(a) \/ SaveFolder(a)
Create(a) == BeginCreateFolder(a) \/ InsertFolder(a)
Purge(a)  == \/ BeginDeleteFolder(a) \/ Gather(a) \/ FindFiles(a) \/ LogAll(a)
             \/ DeleteRows(a) \/ DeleteFolders(a) \/ DeleteObjects(a)

Next == \E a \in Members :
          Put(a) \/ Read(a) \/ Delete(a) \/ Move(a) \/ Create(a) \/ Purge(a) \/ Stop(a)

Spec == Init /\ [][Next]_vars
-----------------------------------------------------------------------------
(* Properties.                                                             *)

(* "Custody is captured before removal" (deleteFolder): no row goes before *)
(* its deletion is in the access log, whatever was uploaded or moved into  *)
(* the folder since it was searched. Only deleteFile logs last.            *)
RemovalsLogged ==
  [][\A f \in Files : row[f] # Absent /\ row'[f] = Absent =>
       \/ <<"delete", f>> \in log
       \/ \E a \in Members : req[a].at = "removeRow" /\ req[a].file = f]_vars

(* "Storage and database are always in lockstep": a row has its object,    *)
(* through uploads, deletions and folder deletions that overlap or stop    *)
(* half-way; only a move that wrote a deleted row back leaves one without. *)
RowHasObject == \A f \in Files : row[f] # Absent => f \in objects \cup revived

(* moveFolder's ancestry walk: no folder is its own ancestor, though the   *)
(* tree changes between the hops of the walk.                              *)
NoFolderCycle == Acyclic

(* "Never leaves half-removed database rows": every file and folder row    *)
(* sits at the root or in a folder that exists, wherever a deletion has    *)
(* stopped, unless it overlapped another request: a row put into a folder  *)
(* between the search and the delete is left behind.                       *)
TreeWhole ==
  clash \/ /\ \A f \in Files : row[f] # Absent => HasFolder(row[f])
           /\ \A d \in Folders : parent[d] # Absent => HasFolder(parent[d])
=============================================================================
