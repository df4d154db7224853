------------------------------ MODULE Folders ------------------------------
(***************************************************************************)
(* A workspace's folder tree under concurrent requests.                     *)
(*                                                                          *)
(* A create or a move is one READ COMMITTED transaction: it locks every     *)
(* folder of the workspace, reads the tree, decides in Go whether the       *)
(* change is legal, and writes.  The lock covers only the rows that existed  *)
(* when it was asked for, and a folder deleted while it waited is locked by *)
(* nobody.  A delete takes no lock of its own and cascades.                 *)
(*                                                                          *)
(* A request names folders its client has been shown, so they existed when  *)
(* it began.  Names are left out: a name that is taken is one more refusal, *)
(* and the unique index on siblings is what decides it.                     *)
(***************************************************************************)
EXTENDS Integers, FiniteSets, FiniteSetsExt

CONSTANTS Ids,        \* how many folders are ever created, numbered in the order of their ids
          Request,    \* transactions that can be open at once
          MaxDepth,   \* domain.MaxFolderDepth
          MaxFolders  \* domain.MaxFoldersPerWorkspace

Folder == 1..Ids
Top == 0
Nobody == "nobody"

ASSUME FoldersConstants == Ids \in Nat /\ MaxDepth \in Nat /\ Nobody \notin Request

VARIABLES
  stored,    \* the rows of the workspace
  unissued,  \* ids no folder has had yet
  parent,    \* parent_id of each row, Top for NULL
  lock,      \* the request holding each row's lock
  stage,     \* how far each request is
  what,      \* the folder a request moves, Top for one it creates
  dest,      \* the parent it asks for
  toLock     \* rows LockWorkspaceFolders has still to lock for it

folderVars == <<stored, unissued, parent, lock, stage, what, dest, toLock>>

(* A set of folders that holds the parent of each of its members. *)
Closed(par, S) == \A f \in S : par[f] \in S \union {Top}

(* The folders from f up to its root, f included: the least such set that f is in. *)
Chain(par, f) == {g \in Folder : \A S \in SUBSET Folder : f \in S /\ Closed(par, S) => g \in S}

Depth(f) == IF f = Top THEN 0 ELSE Cardinality(Chain(parent, f))
IsAncestor(a, f) == f # Top /\ a \in Chain(parent, f)
Subtree(f) == {g \in stored : IsAncestor(f, g)}
Height(f) == Max({Depth(g) - Depth(f) + 1 : g \in Subtree(f)})

FoldersInit ==
  /\ \E n \in 0..Ids : stored = 1..n /\ unissued = (n + 1)..Ids
  /\ parent \in [Folder -> {Top} \union Folder]
  /\ \A f \in Folder : parent[f] < f /\ (f \in unissued => parent[f] = Top)
  /\ \A f \in stored : Depth(f) <= MaxDepth
  /\ Cardinality(stored) <= MaxFolders
  /\ lock = [f \in Folder |-> Nobody]
  /\ stage = [q \in Request |-> "idle"]
  /\ what = [q \in Request |-> Top]
  /\ dest = [q \in Request |-> Top]
  /\ toLock = [q \in Request |-> {}]

(* Mutant: the tree is read and decided on without being locked. *)
LockWorkspaceFoldersUnlocked(q, f, d) ==
  /\ stage[q] = "idle"
  /\ d \in stored \union {Top}
  /\ stage' = [stage EXCEPT ![q] = "lock"]
  /\ what' = [what EXCEPT ![q] = f]
  /\ dest' = [dest EXCEPT ![q] = d]
  /\ UNCHANGED <<stored, unissued, parent, lock, toLock>>

(* A request begins, and LockWorkspaceFolders takes its snapshot of the rows. *)
LockWorkspaceFolders(q, f, d) ==
  /\ stage[q] = "idle"
  /\ d \in stored \union {Top}
  /\ stage' = [stage EXCEPT ![q] = "lock"]
  /\ what' = [what EXCEPT ![q] = f]
  /\ dest' = [dest EXCEPT ![q] = d]
  /\ toLock' = [toLock EXCEPT ![q] = stored]
  /\ UNCHANGED <<stored, unissued, parent, lock>>

CreateFolder(q, d) == LockWorkspaceFolders(q, Top, d)
MoveFolder(q, f, d) == f \in stored /\ LockWorkspaceFolders(q, f, d)

(* Mutant: the locking statement without its ORDER BY. *)
NextRowAny(q, f) == f \in toLock[q]

(* ORDER BY id: the rows are locked in the order of their ids. *)
NextRow(q, f) == f \in toLock[q] /\ \A g \in toLock[q] : f <= g

LockRow(q, f) ==
  /\ stage[q] = "lock"
  /\ NextRow(q, f)
  /\ lock[f] = Nobody
  /\ toLock' = [toLock EXCEPT ![q] = @ \ {f}]
  /\ lock' = [lock EXCEPT ![f] = IF f \in stored THEN q ELSE @]
  /\ UNCHANGED <<stored, unissued, parent, stage, what, dest>>

MayCreate(d) ==
  /\ d \in stored \union {Top}
  /\ Depth(d) + 1 <= MaxDepth
  /\ Cardinality(stored) < MaxFolders

(* Mutant: only the moved folder is measured, not the branch under it. *)
MayMoveAlone(f, d) ==
  /\ f \in stored
  /\ d \in stored \union {Top}
  /\ ~IsAncestor(f, d)
  /\ Depth(d) + 1 <= MaxDepth

(* MoveRefusal's three structural refusals, none of which applies. *)
MayMove(f, d) ==
  /\ f \in stored
  /\ d \in stored \union {Top}
  /\ ~IsAncestor(f, d)
  /\ Depth(d) + Height(f) <= MaxDepth

(* ListFolders reads the tree anew, and the decision is made on it. *)
DecideFolder(q) ==
  /\ stage[q] = "lock"
  /\ toLock[q] = {}
  /\ IF what[q] = Top THEN MayCreate(dest[q]) ELSE MayMove(what[q], dest[q])
  /\ stage' = [stage EXCEPT ![q] = "write"]
  /\ UNCHANGED <<stored, unissued, parent, lock, what, dest, toLock>>

EndsRequest(q) ==
  /\ stage' = [stage EXCEPT ![q] = "idle"]
  /\ what' = [what EXCEPT ![q] = Top]
  /\ dest' = [dest EXCEPT ![q] = Top]
  /\ toLock' = [toLock EXCEPT ![q] = {}]
  /\ lock' = [f \in Folder |-> IF lock[f] = q THEN Nobody ELSE lock[f]]

(* The deferred Rollback: a refusal, a taken name, a deadlock, a cancelled request. *)
RollbackRequest(q) ==
  /\ stage[q] # "idle"
  /\ EndsRequest(q)
  /\ UNCHANGED <<stored, unissued, parent>>

(* A row another request has locked is waited for, as the row written or as the parent it refers to. *)
Reachable(q, f) == f \in stored /\ lock[f] \in {Nobody, q}

Insert(q, f) ==
  /\ stage[q] = "write"
  /\ what[q] = Top
  /\ f \in unissued /\ \A g \in unissued : f <= g
  /\ dest[q] = Top \/ Reachable(q, dest[q])
  /\ stored' = stored \union {f}
  /\ unissued' = unissued \ {f}
  /\ parent' = [parent EXCEPT ![f] = dest[q]]
  /\ EndsRequest(q)

Update(q) ==
  /\ stage[q] = "write"
  /\ what[q] # Top
  /\ Reachable(q, what[q])
  /\ dest[q] = Top \/ Reachable(q, dest[q])
  /\ parent' = [parent EXCEPT ![what[q]] = dest[q]]
  /\ UNCHANGED <<stored, unissued>>
  /\ EndsRequest(q)

(* One DELETE on the pool: it waits for the locks on the branch, which goes as a whole. *)
(* The rows its cascade locks on the way are not kept: a delete that deadlocks with a   *)
(* create or a move makes one of them roll back, which both may do here at any time.    *)
DeleteFolder(f) ==
  /\ f \in stored
  /\ \A g \in Subtree(f) : lock[g] = Nobody
  /\ stored' = stored \ Subtree(f)
  /\ parent' = [g \in Folder |-> IF g \in Subtree(f) THEN Top ELSE parent[g]]
  /\ UNCHANGED <<unissued, lock, stage, what, dest, toLock>>

FoldersNext ==
  \/ \E q \in Request :
       \/ \E d \in Folder \union {Top} : CreateFolder(q, d)
       \/ \E f \in Folder, d \in Folder \union {Top} : MoveFolder(q, f, d)
       \/ \E f \in Folder : LockRow(q, f) \/ Insert(q, f)
       \/ DecideFolder(q)
       \/ RollbackRequest(q)
       \/ Update(q)
  \/ \E f \in Folder : DeleteFolder(f)

FoldersSpec == FoldersInit /\ [][FoldersNext]_folderVars

----------------------------------------------------------------------------

(* Moves, creates and deletes in any interleaving leave a forest: no folder is  *)
(* ever inside itself, so every folder is reachable from the top level.         *)
NoCycles == \A f \in stored : parent[f] = Top \/ ~IsAncestor(f, parent[f])

(* The depth cap holds for the tree as a whole although a create asks about the *)
(* parent's depth and a move about the branch's height, each on its own reading.*)
DepthBounded == \A f \in stored : Depth(f) <= MaxDepth

(* Requests queue rather than deadlock: no two wait for rows of one another.    *)
RequestsQueue ==
  \A q, r \in Request : q # r =>
    ~ \E f, g \in Folder : NextRow(q, f) /\ lock[f] = r /\ NextRow(r, g) /\ lock[g] = q

(* The tree as its paths, and the folders it ever had. *)
Path == [f \in Folder |-> IF f \in stored THEN Chain(parent, f) ELSE {}]
Used == Folder \ unissued

Tree == INSTANCE FolderTree WITH path <- Path, used <- Used

(* Requests that lock what they saw, decide and write do what they would have   *)
(* done one at a time: every write is a create, a move or a delete that is legal *)
(* in the tree it finds, and changes nothing but the branch it is about.        *)
ImplementsTree == Tree!Spec
============================================================================
