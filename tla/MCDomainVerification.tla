------------------------ MODULE MCDomainVerification ------------------------
(* Model-checking instance of DomainVerification. *)
EXTENDS DomainVerification, TLC

Symmetry == Permutations(Hostname) \cup Permutations(Token)

\* No check is under way, no pass leads, and nothing waits to be broadcast.
AtRest(d) ==
  /\ failing = [e \in Domain |-> None]
  /\ pc = [a \in Actor |-> "idle"]
  /\ row = [a \in Actor |-> d]
  /\ seen = [a \in Actor |-> Nothing]
  /\ served = {}
  /\ anchored = {}
  /\ leader = {}
  /\ todo = [r \in Replica |-> <<>>]
  /\ lag = [r \in Replica |-> 0]
  /\ changed = {}
  /\ dirty = {}
  /\ warned = {}
  /\ reset = {}
  /\ faults = 0

\* Every row is live, with a hostname and a token of its own.
Registered ==
  /\ life = [d \in Domain |-> "live"]
  /\ reg \in {f \in [Domain -> Registration] :
                \A d, e \in Domain : d # e => f[d][1] # f[e][1] /\ f[d][2] # f[e][2]}

(***************************************************************************)
(* One row, registered, renamed and deleted from an empty table, with the  *)
(* on-demand check: the other rows are never registered.                   *)
(***************************************************************************)
LoneInit ==
  /\ Init
  /\ row = [a \in Actor |-> 1]

Lone == \A d \in Domain \ {1} : life[d] = "none"
LoneNext == Step({1}, Hostname, Token)

(***************************************************************************)
(* A batch of rows that one pass walks: rows already registered, any of    *)
(* them verified, any of their records published.  They may be deleted and *)
(* their records come and go, but no row is renamed and no request checks  *)
(* one, so that what a pass does to one row meets what befalls it at the   *)
(* next.                                                                   *)
(***************************************************************************)
BatchInit ==
  /\ Registered
  /\ verified \in SUBSET Domain
  /\ proved = verified
  /\ checked = [d \in Domain |-> IF d \in verified THEN d ELSE 0]
  /\ published \in SUBSET {reg[d] : d \in Domain}
  /\ AtRest(1)

BatchNext ==
  /\ Step(Domain, {}, {})
  /\ \A c \in Request : pc'[c] = "idle"

ShapesSpec ==
  /\ LoneInit \/ BatchInit
  /\ [][IF Lone THEN LoneNext ELSE BatchNext]_vars

(***************************************************************************)
(* The situation LapsedStops is about: some row is served, its record has  *)
(* been withdrawn, the other rows are registered and not served, and no    *)
(* record is published from here on.                                       *)
(***************************************************************************)
LapsedInit ==
  /\ Registered
  /\ \E s \in Domain :
       /\ verified = {s}
       /\ proved = {s}
       /\ checked = [d \in Domain |-> IF d = s THEN Cardinality(Domain) ELSE 0]
  /\ published = {}
  /\ \E d \in Domain : AtRest(d)

LapsedSpec == LapsedInit /\ [][Next /\ published' = {}]_vars /\ Fairness
=============================================================================
