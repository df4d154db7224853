----------------------------- MODULE FolderTree -----------------------------
(***************************************************************************)
(* What a workspace's folders promise, whatever requests overlap: each      *)
(* create, move and delete happens to the whole tree at once.               *)
(*                                                                          *)
(* A folder is known by its path, the folders from it up to its root.  A    *)
(* create adds a leaf, a move hangs a whole branch somewhere outside itself *)
(* and a delete takes a whole branch away; none of them puts a folder       *)
(* deeper than MaxDepth, and a deleted folder does not come back.           *)
(*                                                                          *)
(* The number of folders is not promised: the cap on it is checked against  *)
(* a count that two creates in an empty workspace can both read.            *)
(***************************************************************************)
EXTENDS Naturals, FiniteSets

CONSTANTS Folder, MaxDepth

VARIABLES
  path,  \* the folders from each folder up to its root, none for one that does not exist
  used   \* folders ever created

vars == <<path, used>>

Present == {f \in Folder : f \in path[f]}

\* Every path is a chain of folders, each with its own path in it.
Forest ==
  /\ path \in [Folder -> SUBSET used]
  /\ \A f \in Folder, g \in Folder : g \in path[f] =>
       /\ f \in path[f] /\ path[g] \subseteq path[f]
       /\ f \in path[g] => f = g
       /\ \A h \in path[f] : g \in path[h] \/ h \in path[g]

Init ==
  /\ used \in SUBSET Folder
  /\ Forest
  /\ \A f \in Folder : Cardinality(path[f]) <= MaxDepth

\* Where a folder can be put: at the top level, or under a folder.
Places == {{}} \union {path[d] : d \in Present}

Create(f, up) ==
  /\ used' = used \union {f}
  /\ Cardinality({f} \union up) <= MaxDepth
  /\ path' = [path EXCEPT ![f] = {f} \union up]

\* The path of a folder in the branch of f once that branch hangs under up.
Hung(f, g, up) == {h \in path[g] : f \in path[h]} \union up

Move(f, up) ==
  /\ f \notin up
  /\ \A g \in Folder : f \in path[g] => Cardinality(Hung(f, g, up)) <= MaxDepth
  /\ path' = [g \in Folder |-> IF f \in path[g] THEN Hung(f, g, up) ELSE path[g]]
  /\ UNCHANGED used

Delete(f) ==
  /\ path' = [g \in Folder |-> IF f \in path[g] THEN {} ELSE path[g]]
  /\ UNCHANGED used

Next ==
  \/ UNCHANGED vars  \* a request reads, waits or gives up
  \/ \E f \in Present : Delete(f)
  \/ \E f \in Folder \ used, up \in Places : Create(f, up)
  \/ \E f \in Present, up \in Places : Move(f, up)

Spec == Init /\ [][Next]_vars
=============================================================================
