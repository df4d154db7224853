----------------------------- MODULE Ownership -----------------------------
(***************************************************************************)
(* Who owns an organization, while its members are re-roled, removed, join  *)
(* by invitation and delete their own accounts, all at once.                *)
(*                                                                          *)
(* Each operation is one READ COMMITTED transaction.  What serialises them  *)
(* is row locks only: a statement that says FOR UPDATE reads the rows its   *)
(* own snapshot shows, locks them one by one, and looks again at a row it   *)
(* had to wait for, dropping it when it no longer qualifies.                *)
(*                                                                          *)
(* A member is one organization-wide membership, together with the account  *)
(* that holds it; somebody who is removed and invited again is another      *)
(* member, as the membership is another row.  A refusal, a cancelled        *)
(* request and a deadlock victim all end in the deferred Rollback.          *)
(***************************************************************************)
EXTENDS Integers

CONSTANTS N,     \* memberships ever, 1..N in the order of their row ids
          Txn    \* transactions that can be open at once

Member == 1..N
Idle == "idle"
NoTxn == "no transaction"
Role == {"owner", "admin", "viewer"}
Op == {"change", "remove", "delete", "redeem"}

ASSUME OwnershipConstants == N \in Nat \ {0} /\ NoTxn \notin Txn

VARIABLES
  role,      \* memberships.role_id of each row, "absent" before it is inserted, "gone" after it is deleted
  deleted,   \* users.deleted_at IS NOT NULL
  rowLock,   \* the transaction holding the membership's row lock
  userLock,  \* the transaction holding the user's row lock
  pc,        \* how far each transaction is
  op,        \* the operation a transaction performs
  target,    \* the member it is about
  grant,     \* the role it gives
  seen,      \* the target's role in the snapshot the owners were counted in
  todo,      \* owner rows its locking statement has still to lock
  counted,   \* owner rows it has locked and found to be owners
  blind      \* owners whose deletion had counted them as no owner at all

vars == <<role, deleted, rowLock, userLock, pc, op, target, grant, seen, todo, counted, blind>>
txnVars == <<op, target, grant, seen, todo, counted>>

Owners == {m \in Member : role[m] = "owner"}
Present == {m \in Member : role[m] \in Role}

Init ==
  /\ role \in [Member -> Role \union {"absent"}]
  /\ Owners # {}
  /\ deleted = {}
  /\ rowLock = [m \in Member |-> NoTxn]
  /\ userLock = [m \in Member |-> NoTxn]
  /\ pc = [t \in Txn |-> Idle]
  /\ op = [t \in Txn |-> "change"]
  /\ target = [t \in Txn |-> 1]
  /\ grant = [t \in Txn |-> "viewer"]
  /\ seen = [t \in Txn |-> "absent"]
  /\ todo = [t \in Txn |-> {}]
  /\ counted = [t \in Txn |-> {}]
  /\ blind = {}

(***************************************************************************)
(* A transaction opens with the statement that locks its subject.  While it *)
(* waits for that row it holds nothing, so it begins here when it gets it:   *)
(* GetMembership locks the membership, and finds none when the row was       *)
(* re-roled or deleted under it; LockUserForDeletion locks the account, and  *)
(* a second deletion finds no row.  An invitation is redeemed by an account  *)
(* that was live, and not a member, when the request began.                  *)
(***************************************************************************)
Begins(t, o, m, r, step) ==
  /\ pc[t] = Idle
  /\ pc' = [pc EXCEPT ![t] = step]
  /\ op' = [op EXCEPT ![t] = o]
  /\ target' = [target EXCEPT ![t] = m]
  /\ grant' = [grant EXCEPT ![t] = r]
  /\ UNCHANGED <<role, deleted, seen, todo, counted, blind>>

GetMembership(t, m) ==
  /\ m \in Present
  /\ rowLock[m] = NoTxn
  /\ rowLock' = [rowLock EXCEPT ![m] = t]
  /\ UNCHANGED userLock

ChangeRole(t, m, r) ==
  /\ r # role[m]
  /\ GetMembership(t, m)
  /\ Begins(t, "change", m, r, "judge")

Remove(t, m) ==
  /\ GetMembership(t, m)
  /\ Begins(t, "remove", m, "viewer", "judge")

Delete(t, m) ==
  /\ m \notin deleted
  /\ userLock[m] = NoTxn
  /\ userLock' = [userLock EXCEPT ![m] = t]
  /\ Begins(t, "delete", m, "viewer", "count")
  /\ UNCHANGED rowLock

Redeem(t, m, r) ==
  /\ role[m] = "absent" /\ m \notin deleted
  /\ Begins(t, "redeem", m, r, "insert")
  /\ UNCHANGED <<rowLock, userLock>>

Release(t, locks) == [m \in Member |-> IF locks[m] = t THEN NoTxn ELSE locks[m]]

Ends(t) ==
  /\ pc' = [pc EXCEPT ![t] = Idle]
  /\ rowLock' = Release(t, rowLock)
  /\ userLock' = Release(t, userLock)
  /\ op' = [op EXCEPT ![t] = "change"]
  /\ target' = [target EXCEPT ![t] = 1]
  /\ grant' = [grant EXCEPT ![t] = "viewer"]
  /\ seen' = [seen EXCEPT ![t] = "absent"]
  /\ todo' = [todo EXCEPT ![t] = {}]
  /\ counted' = [counted EXCEPT ![t] = {}]

(* The deferred Rollback: every refusal and every failure. *)
Rollback(t) ==
  /\ pc[t] # Idle
  /\ Ends(t)
  /\ UNCHANGED <<role, deleted, blind>>

Rank(r) == CASE r = "owner" -> 10 [] r = "admin" -> 20 [] OTHER -> 40

mayManage(actorRole, targetRole) ==
  \/ Rank(actorRole) <= Rank("owner")
  \/ Rank(targetRole) > Rank(actorRole)

(* Owners and admins hold members.write; nobody grants a role above their own. *)
Allowed(t, actorRole) ==
  /\ actorRole \in {"owner", "admin"}
  /\ mayManage(actorRole, role[target[t]])
  /\ op[t] = "change" => Rank(grant[t]) >= Rank(actorRole)

ChangesOwners(t) == "owner" \in {role[target[t]]} \union (IF op[t] = "change" THEN {grant[t]} ELSE {})

(* The actor's authority is read without a lock, and used after it. *)
Judge(t, actor) ==
  /\ pc[t] = "judge"
  /\ Allowed(t, role[actor])
  /\ pc' = [pc EXCEPT ![t] = IF ChangesOwners(t) THEN "count" ELSE "write"]
  /\ UNCHANGED <<role, deleted, rowLock, userLock, blind>>
  /\ UNCHANGED txnVars

(***************************************************************************)
(* The owner rows as the locking statement's snapshot shows them.  For an   *)
(* account that snapshot owns nothing, the deletion has nothing to lock.    *)
(***************************************************************************)
CountOwners(t) ==
  /\ pc[t] = "count"
  /\ pc' = [pc EXCEPT ![t] = "owners"]
  /\ seen' = [seen EXCEPT ![t] = role[target[t]]]
  /\ todo' = [todo EXCEPT ![t] =
                IF op[t] = "delete" /\ role[target[t]] # "owner" THEN {} ELSE Owners]
  /\ UNCHANGED <<role, deleted, rowLock, userLock, blind, op, target, grant, counted>>

(* Mutant: the deletion's locking statement without its ORDER BY. *)
InOrderAny(t, m) == m \in Member

(* Deletions take the rows in the order of their ids, LockOrganizationOwners in any order. *)
InOrder(t, m) == op[t] = "delete" => \A n \in todo[t] : m <= n

LockOwner(t, m) ==
  /\ pc[t] = "owners"
  /\ m \in todo[t]
  /\ InOrder(t, m)
  /\ rowLock[m] \in {NoTxn, t}
  /\ todo' = [todo EXCEPT ![t] = @ \ {m}]
  /\ rowLock' = [rowLock EXCEPT ![m] = IF role[m] \in Role THEN t ELSE @]
  /\ counted' = [counted EXCEPT ![t] = IF role[m] = "owner" THEN @ \union {m} ELSE @]
  /\ UNCHANGED <<role, deleted, userLock, pc, op, target, grant, seen, blind>>

(* Mutant: the owner who leaves is counted among the owners who stay. *)
GuardPassesWithTarget(t) ==
  CASE op[t] = "delete" -> ~ \E m \in Member : counted[t] = {m}
    [] OTHER -> counted[t] # {}

(***************************************************************************)
(* guardOwnerSet: somebody else stays an owner, or the change is a join.    *)
(* A deletion is refused when the organization comes back with a count of   *)
(* exactly one.                                                             *)
(***************************************************************************)
GuardPasses(t) ==
  CASE op[t] = "delete" -> ~ \E m \in Member : counted[t] = {m}
    [] op[t] = "change" /\ grant[t] = "owner" -> TRUE
    [] OTHER -> counted[t] \ {target[t]} # {}

Decide(t) ==
  /\ pc[t] = "owners"
  /\ todo[t] = {}
  /\ GuardPasses(t)
  /\ pc' = [pc EXCEPT ![t] = "write"]
  /\ UNCHANGED <<role, deleted, rowLock, userLock, blind>>
  /\ UNCHANGED txnVars

(* UpdateMembershipRole or DeleteMembership on the row held since GetMembership, and the commit. *)
CommitMember(t) ==
  /\ pc[t] = "write"
  /\ op[t] \in {"change", "remove"}
  /\ role' = [role EXCEPT ![target[t]] = IF op[t] = "change" THEN grant[t] ELSE "gone"]
  /\ Ends(t)
  /\ UNCHANGED <<deleted, blind>>

(***************************************************************************)
(* DeleteAccountDependents removes the membership whatever its role is now, *)
(* waiting for its row lock, and SoftDeleteUser ends the account.           *)
(***************************************************************************)
CommitDelete(t) ==
  /\ pc[t] = "write"
  /\ op[t] = "delete"
  /\ rowLock[target[t]] \in {NoTxn, t}
  /\ role' = [role EXCEPT ![target[t]] = IF @ \in Role THEN "gone" ELSE @]
  /\ deleted' = deleted \union {target[t]}
  /\ blind' = IF role[target[t]] = "owner" /\ seen[t] # "owner"
                THEN blind \union {target[t]} ELSE blind
  /\ Ends(t)

(* The insert's foreign key waits for the account's row, and asks only that it exists. *)
CommitRedeem(t) ==
  /\ pc[t] = "insert"
  /\ role[target[t]] = "absent"
  /\ userLock[target[t]] = NoTxn
  /\ role' = [role EXCEPT ![target[t]] = grant[t]]
  /\ Ends(t)
  /\ UNCHANGED <<deleted, blind>>

Next == \E t \in Txn :
  \/ \E m \in Member, r \in Role : ChangeRole(t, m, r) \/ Redeem(t, m, r)
  \/ \E m \in Member : Remove(t, m) \/ Delete(t, m)
  \/ Rollback(t)
  \/ \E actor \in Member : Judge(t, actor)
  \/ CountOwners(t)
  \/ \E m \in Member : LockOwner(t, m)
  \/ Decide(t)
  \/ CommitMember(t)
  \/ CommitDelete(t)
  \/ CommitRedeem(t)

Spec == Init /\ [][Next]_vars

----------------------------------------------------------------------------

TypeOK ==
  /\ role \in [Member -> Role \union {"absent", "gone"}]
  /\ deleted \subseteq Member
  /\ rowLock \in [Member -> Txn \union {NoTxn}]
  /\ userLock \in [Member -> Txn \union {NoTxn}]
  /\ pc \in [Txn -> {Idle, "judge", "count", "owners", "write", "insert"}]
  /\ op \in [Txn -> Op]
  /\ target \in [Txn -> Member]
  /\ grant \in [Txn -> Role]
  /\ seen \in [Txn -> Role \union {"absent", "gone"}]
  /\ todo \in [Txn -> SUBSET Member]
  /\ counted \in [Txn -> SUBSET Member]
  /\ blind \subseteq Member

(* An organization is left without an owner only by an account deletion that  *)
(* had counted its account as no owner: demotions, removals, deletions and     *)
(* redemptions racing one another never empty the owner set together.          *)
OwnersRemain == Owners # {} \/ blind # {}

(* What LockOrganizationsSolelyOwnedBy says of itself: an organization never   *)
(* loses its last owner, because a promotion blocks until the deletion ends.   *)
NeverOwnerless == Owners # {}

Waits(t) ==
  CASE pc[t] = "owners" /\ todo[t] # {} -> {rowLock[m] : m \in {n \in todo[t] : InOrder(t, n)}}
    [] pc[t] = "write" -> {rowLock[target[t]]}
    [] OTHER -> {}

(* Two accounts deleting themselves at once never wait for one another, since  *)
(* both take the owner rows in the order of their ids.                         *)
DeletionsDoNotDeadlock ==
  \A t, u \in Txn : t # u /\ op[t] = "delete" /\ op[u] = "delete" =>
    ~(u \in Waits(t) /\ t \in Waits(u))
============================================================================
