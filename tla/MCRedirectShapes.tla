-------------------------- MODULE MCRedirectShapes --------------------------
(***************************************************************************)
(* RedirectCache with two replicas and two aliases, in two shapes, one per     *)
(* behaviour, as the whole product is out of reach: two busy replicas and one  *)
(* alias in use, where the broadcast has somebody else to reach; or one busy   *)
(* replica and two aliases in a shard of one entry, where a domain-wide        *)
(* invalidation has more than one key to reach and the shard has to make room. *)
(***************************************************************************)
EXTENDS RedirectCache, TLC

CONSTANT Unused    \* the alias that two busy replicas leave alone

VARIABLE quiet     \* the replica that only listens; in the first shape there is none

NoReplica == "none"

ShapesInit == Init /\ quiet \in Replica \union {NoReplica}

\* Nobody asks for or edits the unused alias.
OneAlias ==
    /\ db'[Unused] = 0
    /\ \A q \in Req : req'[q].pc # "idle" => req'[q].a # Unused

\* The quiet replica does nothing but apply what it is sent, at once.
OneReplica ==
    /\ ed'[quiet] = "idle" /\ link'[quiet] = "open"
    /\ inbox[quiet] # <<>> => inbox'[quiet] = <<>>
    /\ \A q \in Req : q[1] = quiet => req'[q].pc = "idle"

ShapesNext ==
    /\ Next
    /\ IF quiet = NoReplica THEN OneAlias ELSE OneReplica
    /\ UNCHANGED quiet

ShapesSpec == ShapesInit /\ [][ShapesNext]_<<vars, quiet>>

Symmetry == Permutations(Replica)
=============================================================================
