--------------------------- MODULE WorkspaceProofs ---------------------------
(***************************************************************************)
(* Ownership and Folders, proved for any number of memberships, folders,    *)
(* transactions and requests.                                               *)
(*                                                                          *)
(* Ownership: the types, that only a deletion that counted wrong leaves an  *)
(* organization without an owner, and that deletions do not wait for one    *)
(* another.  The argument is that what a transaction counted it holds.      *)
(*                                                                          *)
(* Folders: the tree stays a forest within its depth, and requests do not   *)
(* wait for one another.  The argument has two halves: what a move does to  *)
(* chains of parents, and that of two requests about rows that exist one    *)
(* covers the other's rows with its locks, so that what was decided is      *)
(* still so when it is written.  So every request is one step of the tree   *)
(* that FolderTree specifies.                                               *)
(***************************************************************************)
EXTENDS Ownership, Folders, FiniteSetTheorems, WellFoundedInduction, TLAPS

HoldsNothing(t) == \A m \in Member : rowLock[m] # t

(* Which operations are at which step, and when rows are left to lock. *)
Phases == \A t \in Txn :
  /\ pc[t] = "judge" => op[t] \in {"change", "remove"}
  /\ pc[t] \in {"count", "owners", "write"} => op[t] \in {"change", "remove", "delete"}
  /\ pc[t] # "owners" => todo[t] = {}
  /\ pc[t] \in {Idle, "insert"} => HoldsNothing(t)

(* A change or a removal holds its target's row from beginning to end. *)
TargetIsHeld == \A t \in Txn :
  pc[t] \in {"judge", "count", "owners", "write"} /\ op[t] \in {"change", "remove"} =>
    rowLock[target[t]] = t

(* Only rows that exist are locked. *)
LockedIsPresent == \A m \in Member : rowLock[m] # NoTxn => role[m] \in Role

(* What a transaction counted is still an owner, because it holds the row. *)
CountedIsHeld == \A t \in Txn : \A m \in counted[t] : rowLock[m] = t /\ role[m] = "owner"

(* A transaction about to take an owner away has counted another one. *)
MembersGuarded == \A t \in Txn :
  pc[t] = "write" /\ op[t] \in {"change", "remove"} /\ role[target[t]] = "owner"
    /\ ~(op[t] = "change" /\ grant[t] = "owner") => counted[t] \ {target[t]} # {}

DeletionsGuarded == \A t \in Txn :
  pc[t] = "write" /\ op[t] = "delete" => ~ \E m \in Member : counted[t] = {m}

(* A deletion that saw its account as an owner counts it, unless it stopped being one for good. *)
OwnIsCounted == \A t \in Txn :
  pc[t] \in {"owners", "write"} /\ op[t] = "delete" /\ seen[t] = "owner" =>
    /\ role[target[t]] # "absent"
    /\ \/ target[t] \in todo[t]
       \/ target[t] \in counted[t]
       \/ role[target[t]] = "gone"
       \/ rowLock[target[t]] = t /\ role[target[t]] # "owner"

(* A deletion takes its rows in order, and none at all when it saw no ownership. *)
LocksInOrder == \A t \in Txn : op[t] = "delete" =>
  /\ pc[t] = "count" => HoldsNothing(t)
  /\ pc[t] \in {"owners", "write"} /\ seen[t] # "owner" => HoldsNothing(t) /\ todo[t] = {}
  /\ pc[t] = "owners" => \A m \in todo[t], n \in Member : rowLock[n] = t => n < m

IInv ==
  /\ TypeOK
  /\ Phases
  /\ TargetIsHeld
  /\ LockedIsPresent
  /\ CountedIsHeld
  /\ MembersGuarded
  /\ DeletionsGuarded
  /\ OwnIsCounted
  /\ LocksInOrder
  /\ OwnersRemain

----------------------------------------------------------------------------
(* Types. *)

(* Ending a transaction keeps the types of what it resets. *)
LEMMA EndsTypes ==
  ASSUME TypeOK, NEW t \in Txn, Ends(t)
  PROVE  /\ rowLock' \in [Member -> Txn \union {NoTxn}] /\ userLock' \in [Member -> Txn \union {NoTxn}]
         /\ pc' \in [Txn -> {Idle, "judge", "count", "owners", "write", "insert"}] /\ op' \in [Txn -> Op]
         /\ target' \in [Txn -> Member] /\ grant' \in [Txn -> Role]
         /\ seen' \in [Txn -> Role \union {"absent", "gone"}]
         /\ todo' \in [Txn -> SUBSET Member] /\ counted' \in [Txn -> SUBSET Member]
  BY OwnershipConstants DEF TypeOK, Ends, Release, Member, Role, Op, Idle

(* Every step keeps every variable in its type. *)
LEMMA TypeStep == TypeOK /\ [Next]_vars => TypeOK'
<1> SUFFICES ASSUME TypeOK, [Next]_vars PROVE TypeOK'
  OBVIOUS
<1> USE OwnershipConstants DEF Member, Role, Op, Idle
<1>1. ASSUME NEW t \in Txn, NEW m \in Member, NEW r \in Role, ChangeRole(t, m, r) PROVE TypeOK'
  BY <1>1 DEF TypeOK, ChangeRole, GetMembership, Begins
<1>2. ASSUME NEW t \in Txn, NEW m \in Member, NEW r \in Role, Redeem(t, m, r) PROVE TypeOK'
  BY <1>2 DEF TypeOK, Redeem, Begins
<1>3. ASSUME NEW t \in Txn, NEW m \in Member, Remove(t, m) PROVE TypeOK'
  BY <1>3 DEF TypeOK, Remove, GetMembership, Begins
<1>4. ASSUME NEW t \in Txn, NEW m \in Member, Delete(t, m) PROVE TypeOK'
  BY <1>4 DEF TypeOK, Delete, Begins
<1>5. ASSUME NEW t \in Txn, Rollback(t) PROVE TypeOK'
  BY <1>5 DEF TypeOK, Rollback, Ends, Release
<1>6. ASSUME NEW t \in Txn, NEW a \in Member, Judge(t, a) PROVE TypeOK'
  BY <1>6 DEF TypeOK, Judge, txnVars
<1>7. ASSUME NEW t \in Txn, CountOwners(t) PROVE TypeOK'
  BY <1>7 DEF TypeOK, CountOwners, Owners
<1>8. ASSUME NEW t \in Txn, NEW m \in Member, LockOwner(t, m) PROVE TypeOK'
  BY <1>8 DEF TypeOK, LockOwner
<1>9. ASSUME NEW t \in Txn, Decide(t) PROVE TypeOK'
  BY <1>9 DEF TypeOK, Decide, txnVars
<1>10. ASSUME NEW t \in Txn, CommitMember(t) PROVE TypeOK'
  BY <1>10 DEF TypeOK, CommitMember, Ends, Release
<1>11. ASSUME NEW t \in Txn, CommitDelete(t) PROVE TypeOK'
  <2>1. target[t] \in Member
    BY DEF TypeOK
  <2>2. role' \in [Member -> Role \union {"absent", "gone"}]
    BY <1>11 DEF TypeOK, CommitDelete
  <2>3. deleted' \subseteq Member /\ blind' \subseteq Member
    BY <1>11, <2>1 DEF TypeOK, CommitDelete
  <2>4. QED
    BY <1>11, <2>2, <2>3, EndsTypes DEF TypeOK, CommitDelete
<1>12. ASSUME NEW t \in Txn, CommitRedeem(t) PROVE TypeOK'
  BY <1>12 DEF TypeOK, CommitRedeem, Ends, Release
<1>13. CASE UNCHANGED vars
  BY <1>13 DEF TypeOK, vars
<1>14. QED
  BY <1>1, <1>2, <1>3, <1>4, <1>5, <1>6, <1>7, <1>8, <1>9, <1>10, <1>11, <1>12, <1>13 DEF Next

----------------------------------------------------------------------------
(* One lemma for each action, one step for each conjunct.                   *)

(* A role change that begins holds its target's row and no other. *)
LEMMA ChangeRoleStep ==
  ASSUME IInv, TypeOK', NEW t \in Txn, NEW m \in Member, NEW r \in Role, ChangeRole(t, m, r)
  PROVE  IInv'
<1> USE OwnershipConstants DEF TypeOK, Idle, Role, Op
<1>1. Phases'
  BY DEF IInv, ChangeRole, GetMembership, Begins, Present, Phases, HoldsNothing
<1>2. TargetIsHeld'
  BY DEF IInv, ChangeRole, GetMembership, Begins, Present, TargetIsHeld
<1>3. LockedIsPresent'
  BY DEF IInv, ChangeRole, GetMembership, Begins, Present, LockedIsPresent
<1>4. CountedIsHeld'
  BY DEF IInv, ChangeRole, GetMembership, Begins, Present, CountedIsHeld
<1>5. MembersGuarded'
  BY DEF IInv, ChangeRole, GetMembership, Begins, Present, MembersGuarded
<1>6. DeletionsGuarded'
  BY DEF IInv, ChangeRole, GetMembership, Begins, Present, DeletionsGuarded
<1>7. OwnIsCounted'
  BY DEF IInv, ChangeRole, GetMembership, Begins, Present, OwnIsCounted
<1>8. LocksInOrder'
  BY DEF IInv, ChangeRole, GetMembership, Begins, Present, LocksInOrder, HoldsNothing
<1>9. OwnersRemain'
  BY DEF IInv, ChangeRole, GetMembership, Begins, Present, OwnersRemain, Owners
<1>10. QED
  BY <1>1, <1>2, <1>3, <1>4, <1>5, <1>6, <1>7, <1>8, <1>9 DEF IInv

(* A redemption that begins holds nothing. *)
LEMMA RedeemStep ==
  ASSUME IInv, TypeOK', NEW t \in Txn, NEW m \in Member, NEW r \in Role, Redeem(t, m, r)
  PROVE  IInv'
<1> USE OwnershipConstants DEF TypeOK, Idle, Role, Op
<1>1. Phases'
  BY DEF IInv, Redeem, Begins, Phases, HoldsNothing
<1>2. TargetIsHeld'
  BY DEF IInv, Redeem, Begins, TargetIsHeld
<1>3. LockedIsPresent'
  BY DEF IInv, Redeem, Begins, LockedIsPresent
<1>4. CountedIsHeld'
  BY DEF IInv, Redeem, Begins, CountedIsHeld
<1>5. MembersGuarded'
  BY DEF IInv, Redeem, Begins, MembersGuarded
<1>6. DeletionsGuarded'
  BY DEF IInv, Redeem, Begins, DeletionsGuarded
<1>7. OwnIsCounted'
  BY DEF IInv, Redeem, Begins, OwnIsCounted
<1>8. LocksInOrder'
  BY DEF IInv, Redeem, Begins, LocksInOrder, HoldsNothing
<1>9. OwnersRemain'
  BY DEF IInv, Redeem, Begins, OwnersRemain, Owners
<1>10. QED
  BY <1>1, <1>2, <1>3, <1>4, <1>5, <1>6, <1>7, <1>8, <1>9 DEF IInv

(* A removal that begins holds its target's row and no other. *)
LEMMA RemoveStep ==
  ASSUME IInv, TypeOK', NEW t \in Txn, NEW m \in Member, Remove(t, m)
  PROVE  IInv'
<1> USE OwnershipConstants DEF TypeOK, Idle, Role, Op
<1>1. Phases'
  BY DEF IInv, Remove, GetMembership, Begins, Present, Phases, HoldsNothing
<1>2. TargetIsHeld'
  BY DEF IInv, Remove, GetMembership, Begins, Present, TargetIsHeld
<1>3. LockedIsPresent'
  BY DEF IInv, Remove, GetMembership, Begins, Present, LockedIsPresent
<1>4. CountedIsHeld'
  BY DEF IInv, Remove, GetMembership, Begins, Present, CountedIsHeld
<1>5. MembersGuarded'
  BY DEF IInv, Remove, GetMembership, Begins, Present, MembersGuarded
<1>6. DeletionsGuarded'
  BY DEF IInv, Remove, GetMembership, Begins, Present, DeletionsGuarded
<1>7. OwnIsCounted'
  BY DEF IInv, Remove, GetMembership, Begins, Present, OwnIsCounted
<1>8. LocksInOrder'
  BY DEF IInv, Remove, GetMembership, Begins, Present, LocksInOrder, HoldsNothing
<1>9. OwnersRemain'
  BY DEF IInv, Remove, GetMembership, Begins, Present, OwnersRemain, Owners
<1>10. QED
  BY <1>1, <1>2, <1>3, <1>4, <1>5, <1>6, <1>7, <1>8, <1>9 DEF IInv

(* A deletion that begins holds the account and no membership. *)
LEMMA DeleteStep ==
  ASSUME IInv, TypeOK', NEW t \in Txn, NEW m \in Member, Delete(t, m)
  PROVE  IInv'
<1> USE OwnershipConstants DEF TypeOK, Idle, Role, Op
<1>1. Phases'
  BY DEF IInv, Delete, Begins, Phases, HoldsNothing
<1>2. TargetIsHeld'
  BY DEF IInv, Delete, Begins, TargetIsHeld
<1>3. LockedIsPresent'
  BY DEF IInv, Delete, Begins, LockedIsPresent
<1>4. CountedIsHeld'
  BY DEF IInv, Delete, Begins, CountedIsHeld
<1>5. MembersGuarded'
  BY DEF IInv, Delete, Begins, MembersGuarded
<1>6. DeletionsGuarded'
  BY DEF IInv, Delete, Begins, DeletionsGuarded
<1>7. OwnIsCounted'
  BY DEF IInv, Delete, Begins, OwnIsCounted
<1>8. LocksInOrder'
  BY DEF IInv, Delete, Begins, LocksInOrder, HoldsNothing, Phases
<1>9. OwnersRemain'
  BY DEF IInv, Delete, Begins, OwnersRemain, Owners
<1>10. QED
  BY <1>1, <1>2, <1>3, <1>4, <1>5, <1>6, <1>7, <1>8, <1>9 DEF IInv

(* A rollback releases rows of its own only, so what others counted stays held. *)
LEMMA RollbackStep ==
  ASSUME IInv, TypeOK', NEW t \in Txn, Rollback(t)
  PROVE  IInv'
<1> USE OwnershipConstants DEF TypeOK, Idle, Role, Op
<1>1. Phases'
  BY DEF IInv, Rollback, Ends, Release, Phases, HoldsNothing
<1>2. TargetIsHeld'
  BY DEF IInv, Rollback, Ends, Release, TargetIsHeld
<1>3. LockedIsPresent'
  BY DEF IInv, Rollback, Ends, Release, LockedIsPresent
<1>4. CountedIsHeld'
  BY DEF IInv, Rollback, Ends, Release, CountedIsHeld
<1>5. MembersGuarded'
  BY DEF IInv, Rollback, Ends, Release, MembersGuarded
<1>6. DeletionsGuarded'
  BY DEF IInv, Rollback, Ends, Release, DeletionsGuarded
<1>7. OwnIsCounted'
  BY DEF IInv, Rollback, Ends, Release, OwnIsCounted
<1>8. LocksInOrder'
  BY DEF IInv, Rollback, Ends, Release, LocksInOrder, HoldsNothing
<1>9. OwnersRemain'
  BY DEF IInv, Rollback, Ends, Release, OwnersRemain, Owners
<1>10. QED
  BY <1>1, <1>2, <1>3, <1>4, <1>5, <1>6, <1>7, <1>8, <1>9 DEF IInv

(* Judging goes past the guard only for a target that is no owner. *)
LEMMA JudgeStep ==
  ASSUME IInv, TypeOK', NEW t \in Txn, NEW a \in Member, Judge(t, a)
  PROVE  IInv'
<1> USE OwnershipConstants DEF TypeOK, Idle, Role, Op
<1>1. Phases'
  BY DEF IInv, Judge, txnVars, Allowed, ChangesOwners, Phases, HoldsNothing
<1>2. TargetIsHeld'
  BY DEF IInv, Judge, txnVars, Allowed, ChangesOwners, TargetIsHeld
<1>3. LockedIsPresent'
  BY DEF IInv, Judge, txnVars, Allowed, ChangesOwners, LockedIsPresent
<1>4. CountedIsHeld'
  BY DEF IInv, Judge, txnVars, Allowed, ChangesOwners, CountedIsHeld
<1>5. MembersGuarded'
  BY DEF IInv, Judge, txnVars, Allowed, ChangesOwners, MembersGuarded
<1>6. DeletionsGuarded'
  BY DEF IInv, Judge, txnVars, Allowed, ChangesOwners, DeletionsGuarded, Phases
<1>7. OwnIsCounted'
  BY DEF IInv, Judge, txnVars, Allowed, ChangesOwners, OwnIsCounted, Phases
<1>8. LocksInOrder'
  BY DEF IInv, Judge, txnVars, Allowed, ChangesOwners, LocksInOrder, HoldsNothing, Phases
<1>9. OwnersRemain'
  BY DEF IInv, Judge, txnVars, Allowed, ChangesOwners, OwnersRemain, Owners
<1>10. QED
  BY <1>1, <1>2, <1>3, <1>4, <1>5, <1>6, <1>7, <1>8, <1>9 DEF IInv

(* The snapshot of the owners contains the account's own row, if it shows it as an owner. *)
LEMMA CountOwnersStep ==
  ASSUME IInv, TypeOK', NEW t \in Txn, CountOwners(t)
  PROVE  IInv'
<1> USE OwnershipConstants DEF TypeOK, Idle, Role, Op
<1>1. Phases'
  BY DEF IInv, CountOwners, Owners, Phases, HoldsNothing
<1>2. TargetIsHeld'
  BY DEF IInv, CountOwners, Owners, TargetIsHeld
<1>3. LockedIsPresent'
  BY DEF IInv, CountOwners, Owners, LockedIsPresent
<1>4. CountedIsHeld'
  BY DEF IInv, CountOwners, Owners, CountedIsHeld
<1>5. MembersGuarded'
  BY DEF IInv, CountOwners, Owners, MembersGuarded
<1>6. DeletionsGuarded'
  BY DEF IInv, CountOwners, Owners, DeletionsGuarded
<1>7. OwnIsCounted'
  BY DEF IInv, CountOwners, Owners, OwnIsCounted
<1>8. LocksInOrder'
  BY DEF IInv, CountOwners, Owners, LocksInOrder, HoldsNothing
<1>9. OwnersRemain'
  BY DEF IInv, CountOwners, Owners, OwnersRemain
<1>10. QED
  BY <1>1, <1>2, <1>3, <1>4, <1>5, <1>6, <1>7, <1>8, <1>9 DEF IInv

(* A row is counted when it is held and an owner, and a deletion takes the least one left. *)
LEMMA LockOwnerStep ==
  ASSUME IInv, TypeOK', NEW t \in Txn, NEW m \in Member, LockOwner(t, m)
  PROVE  IInv'
<1> USE OwnershipConstants DEF TypeOK, Idle, Role, Op
<1>1. Phases'
  BY DEF IInv, LockOwner, InOrder, Phases, HoldsNothing
<1>2. TargetIsHeld'
  BY DEF IInv, LockOwner, InOrder, TargetIsHeld
<1>3. LockedIsPresent'
  BY DEF IInv, LockOwner, InOrder, LockedIsPresent
<1>4. CountedIsHeld'
  BY DEF IInv, LockOwner, InOrder, CountedIsHeld
<1>5. MembersGuarded'
  BY DEF IInv, LockOwner, InOrder, MembersGuarded
<1>6. DeletionsGuarded'
  BY DEF IInv, LockOwner, InOrder, DeletionsGuarded
<1>7. OwnIsCounted'
  BY DEF IInv, LockOwner, InOrder, OwnIsCounted
<1>8. LocksInOrder'
  <2>1. ASSUME NEW u \in Txn, op'[u] = "delete", pc'[u] = "count" PROVE HoldsNothing(u)'
    BY <2>1 DEF IInv, LocksInOrder, LockOwner, HoldsNothing
  <2>2. ASSUME NEW u \in Txn, op'[u] = "delete", pc'[u] \in {"owners", "write"}, seen'[u] # "owner"
        PROVE  HoldsNothing(u)' /\ todo'[u] = {}
    BY <2>2 DEF IInv, LocksInOrder, LockOwner, HoldsNothing
  <2>3. ASSUME NEW u \in Txn, op'[u] = "delete", pc'[u] = "owners",
               NEW k \in todo'[u], NEW n \in Member, rowLock'[n] = u
        PROVE  n < k
    <3>1. k \in todo[u] /\ k \in Int /\ n \in Int /\ m \in Int
      BY <2>3 DEF LockOwner, Member
    <3>2. CASE u # t
      BY <2>3, <3>1, <3>2 DEF IInv, LocksInOrder, LockOwner
    <3>3. CASE u = t /\ n # m
      BY <2>3, <3>1, <3>3 DEF IInv, LocksInOrder, LockOwner
    <3>4. CASE u = t /\ n = m
      <4>1. k # m /\ m <= k
        BY <2>3, <3>1, <3>4 DEF LockOwner, InOrder
      <4>2. QED
        BY <3>1, <3>4, <4>1
    <3>5. QED
      BY <3>2, <3>3, <3>4
  <2>4. QED
    BY <2>1, <2>2, <2>3 DEF LocksInOrder
<1>9. OwnersRemain'
  BY DEF IInv, LockOwner, InOrder, OwnersRemain, Owners
<1>10. QED
  BY <1>1, <1>2, <1>3, <1>4, <1>5, <1>6, <1>7, <1>8, <1>9 DEF IInv

(* The guard leaves another owner in what was counted. *)
LEMMA DecideStep ==
  ASSUME IInv, TypeOK', NEW t \in Txn, Decide(t)
  PROVE  IInv'
<1> USE OwnershipConstants DEF TypeOK, Idle, Role, Op
<1>1. Phases'
  BY DEF IInv, Decide, txnVars, GuardPasses, Phases, HoldsNothing
<1>2. TargetIsHeld'
  BY DEF IInv, Decide, txnVars, GuardPasses, TargetIsHeld
<1>3. LockedIsPresent'
  BY DEF IInv, Decide, txnVars, GuardPasses, LockedIsPresent
<1>4. CountedIsHeld'
  BY DEF IInv, Decide, txnVars, GuardPasses, CountedIsHeld
<1>5. MembersGuarded'
  BY DEF IInv, Decide, txnVars, GuardPasses, MembersGuarded
<1>6. DeletionsGuarded'
  BY DEF IInv, Decide, txnVars, GuardPasses, DeletionsGuarded
<1>7. OwnIsCounted'
  BY DEF IInv, Decide, txnVars, GuardPasses, OwnIsCounted
<1>8. LocksInOrder'
  BY DEF IInv, Decide, txnVars, GuardPasses, LocksInOrder, HoldsNothing
<1>9. OwnersRemain'
  BY DEF IInv, Decide, txnVars, GuardPasses, OwnersRemain, Owners
<1>10. QED
  BY <1>1, <1>2, <1>3, <1>4, <1>5, <1>6, <1>7, <1>8, <1>9 DEF IInv

(* A role change or removal leaves an owner: the one it counted besides its target. *)
LEMMA CommitMemberStep ==
  ASSUME IInv, TypeOK', NEW t \in Txn, CommitMember(t)
  PROVE  IInv'
<1> USE OwnershipConstants DEF TypeOK, Idle, Role, Op
<1>1. Phases'
  BY DEF IInv, CommitMember, Ends, Release, Phases, HoldsNothing
<1>2. TargetIsHeld'
  BY DEF IInv, CommitMember, Ends, Release, TargetIsHeld
<1>3. LockedIsPresent'
  BY DEF IInv, CommitMember, Ends, Release, LockedIsPresent, TargetIsHeld
<1>4. CountedIsHeld'
  BY DEF IInv, CommitMember, Ends, Release, CountedIsHeld, TargetIsHeld
<1>5. MembersGuarded'
  BY DEF IInv, CommitMember, Ends, Release, MembersGuarded, TargetIsHeld
<1>6. DeletionsGuarded'
  BY DEF IInv, CommitMember, Ends, Release, DeletionsGuarded
<1>7. OwnIsCounted'
  BY DEF IInv, CommitMember, Ends, Release, OwnIsCounted, TargetIsHeld, LockedIsPresent, CountedIsHeld
<1>8. LocksInOrder'
  BY DEF IInv, CommitMember, Ends, Release, LocksInOrder, HoldsNothing
<1>9. OwnersRemain'
  <2>1. CASE blind # {}
    BY <2>1 DEF CommitMember, OwnersRemain
  <2>2. CASE Owners # {} /\ role[target[t]] # "owner"
    BY <2>2 DEF CommitMember, OwnersRemain, Owners
  <2>3. CASE role[target[t]] = "owner" /\ op[t] = "change" /\ grant[t] = "owner"
    BY <2>3 DEF CommitMember, OwnersRemain, Owners
  <2>4. CASE role[target[t]] = "owner" /\ ~(op[t] = "change" /\ grant[t] = "owner")
    <3>1. PICK m \in counted[t] : m # target[t]
      BY <2>4 DEF IInv, MembersGuarded, CommitMember
    <3>2. m \in Member /\ role[m] = "owner"
      BY <3>1 DEF IInv, CountedIsHeld
    <3>3. role'[m] = "owner"
      BY <3>1, <3>2 DEF CommitMember
    <3>4. QED
      BY <3>2, <3>3 DEF OwnersRemain, Owners
  <2>5. QED
    BY <2>1, <2>2, <2>3, <2>4 DEF IInv, OwnersRemain
<1>10. QED
  BY <1>1, <1>2, <1>3, <1>4, <1>5, <1>6, <1>7, <1>8, <1>9 DEF IInv

(* A deletion leaves an owner, or is recorded as having counted blindly. *)
LEMMA CommitDeleteStep ==
  ASSUME IInv, TypeOK', NEW t \in Txn, CommitDelete(t)
  PROVE  IInv'
<1> USE OwnershipConstants DEF TypeOK, Idle, Role, Op
<1>1. Phases'
  BY DEF IInv, CommitDelete, Ends, Release, Phases, HoldsNothing
<1>2. TargetIsHeld'
  BY DEF IInv, CommitDelete, Ends, Release, TargetIsHeld
<1>3. LockedIsPresent'
  BY DEF IInv, CommitDelete, Ends, Release, LockedIsPresent
<1>4. CountedIsHeld'
  BY DEF IInv, CommitDelete, Ends, Release, CountedIsHeld
<1>5. MembersGuarded'
  BY DEF IInv, CommitDelete, Ends, Release, MembersGuarded
<1>6. DeletionsGuarded'
  BY DEF IInv, CommitDelete, Ends, Release, DeletionsGuarded
<1>7. OwnIsCounted'
  BY DEF IInv, CommitDelete, Ends, Release, OwnIsCounted
<1>8. LocksInOrder'
  BY DEF IInv, CommitDelete, Ends, Release, LocksInOrder, HoldsNothing
<1>9. OwnersRemain'
  <2>1. CASE blind # {}
    BY <2>1 DEF CommitDelete, OwnersRemain
  <2>2. CASE role[target[t]] = "owner" /\ seen[t] # "owner"
    BY <2>2 DEF CommitDelete, OwnersRemain
  <2>3. CASE Owners # {} /\ role[target[t]] # "owner"
    BY <2>3 DEF CommitDelete, OwnersRemain, Owners
  <2>4. CASE role[target[t]] = "owner" /\ seen[t] = "owner"
    <3>1. target[t] \in counted[t]
      BY <2>4 DEF IInv, OwnIsCounted, Phases, CommitDelete
    <3>2. counted[t] # {target[t]}
      BY <2>4 DEF IInv, DeletionsGuarded, CommitDelete
    <3>3. PICK m \in counted[t] : m # target[t]
      BY <3>1, <3>2
    <3>4. m \in Member /\ role[m] = "owner"
      BY <3>3 DEF IInv, CountedIsHeld
    <3>5. role'[m] = "owner"
      BY <3>3, <3>4 DEF CommitDelete
    <3>6. QED
      BY <3>4, <3>5 DEF OwnersRemain, Owners
  <2>5. Owners # {} \/ blind # {}
    BY DEF IInv, OwnersRemain
  <2>6. QED
    BY <2>1, <2>2, <2>3, <2>4, <2>5
<1>10. QED
  BY <1>1, <1>2, <1>3, <1>4, <1>5, <1>6, <1>7, <1>8, <1>9 DEF IInv

(* A redemption writes a row that nobody could hold or count. *)
LEMMA CommitRedeemStep ==
  ASSUME IInv, TypeOK', NEW t \in Txn, CommitRedeem(t)
  PROVE  IInv'
<1> USE OwnershipConstants DEF TypeOK, Idle, Role, Op
<1>1. Phases'
  BY DEF IInv, CommitRedeem, Ends, Release, Phases, HoldsNothing
<1>2. TargetIsHeld'
  BY DEF IInv, CommitRedeem, Ends, Release, TargetIsHeld
<1>3. LockedIsPresent'
  BY DEF IInv, CommitRedeem, Ends, Release, LockedIsPresent
<1>4. CountedIsHeld'
  BY DEF IInv, CommitRedeem, Ends, Release, CountedIsHeld
<1>5. MembersGuarded'
  BY DEF IInv, CommitRedeem, Ends, Release, MembersGuarded, TargetIsHeld, LockedIsPresent
<1>6. DeletionsGuarded'
  BY DEF IInv, CommitRedeem, Ends, Release, DeletionsGuarded
<1>7. OwnIsCounted'
  BY DEF IInv, CommitRedeem, Ends, Release, OwnIsCounted
<1>8. LocksInOrder'
  BY DEF IInv, CommitRedeem, Ends, Release, LocksInOrder, HoldsNothing
<1>9. OwnersRemain'
  BY DEF IInv, CommitRedeem, Ends, Release, OwnersRemain, Owners
<1>10. QED
  BY <1>1, <1>2, <1>3, <1>4, <1>5, <1>6, <1>7, <1>8, <1>9 DEF IInv

(* An organization starts with an owner and no transaction open. *)
LEMMA InitInv == Init => IInv
  BY OwnershipConstants DEF Init, IInv, TypeOK, Phases, HoldsNothing, TargetIsHeld, LockedIsPresent,
     CountedIsHeld, MembersGuarded, DeletionsGuarded, OwnIsCounted, LocksInOrder, OwnersRemain,
     Owners, Member, Role, Op, Idle

(* The invariant is inductive: one lemma for each action. *)
LEMMA StepInv == IInv /\ [Next]_vars => IInv'
<1> SUFFICES ASSUME IInv, [Next]_vars PROVE IInv'
  OBVIOUS
<1>1. TypeOK'
  BY TypeStep DEF IInv
<1>2. CASE UNCHANGED vars
  BY <1>2 DEF vars, IInv, TypeOK, Phases, HoldsNothing, TargetIsHeld, LockedIsPresent, CountedIsHeld,
     MembersGuarded, DeletionsGuarded, OwnIsCounted, LocksInOrder, OwnersRemain, Owners
<1>3. CASE Next
  BY <1>1, <1>3, ChangeRoleStep, RedeemStep, RemoveStep, DeleteStep, RollbackStep, JudgeStep,
     CountOwnersStep, LockOwnerStep, DecideStep, CommitMemberStep, CommitDeleteStep,
     CommitRedeemStep DEF Next
<1>4. QED
  BY <1>2, <1>3

(* The strengthening of OwnersRemain holds throughout. *)
THEOREM Inductive == Spec => []IInv
  BY InitInv, StepInv, PTL DEF Spec

(* Every variable of the team, account and invitation transactions keeps its type. *)
THEOREM TypeCorrect == Spec => []TypeOK
<1>1. IInv => TypeOK
  BY DEF IInv
<1>2. QED
  BY <1>1, Inductive, PTL

(* guardOwnerSet and LockOrganizationsSolelyOwnedBy, for any number of members   *)
(* and of open transactions: an organization loses its last owner only to a      *)
(* deletion that had counted its account as no owner.                            *)
THEOREM OwnersAlwaysRemain == Spec => []OwnersRemain
<1>1. IInv => OwnersRemain
  BY DEF IInv
<1>2. QED
  BY <1>1, Inductive, PTL

(* A deletion that waits for a row somebody holds, and holds one itself, is still locking owners. *)
LEMMA WaitingDeletion ==
  ASSUME IInv, NEW t \in Txn, NEW u \in Txn, op[t] = "delete", t # u, u \in Waits(t),
         NEW h \in Member, rowLock[h] = t
  PROVE  \E m \in todo[t] : rowLock[m] = u /\ \A n \in Member : rowLock[n] = t => n < m
<1> USE OwnershipConstants
<1>1. CASE pc[t] = "owners" /\ todo[t] # {}
  <2>1. PICK m \in todo[t] : rowLock[m] = u
    BY <1>1 DEF Waits
  <2>2. QED
    BY <1>1, <2>1 DEF IInv, LocksInOrder
<1>2. CASE pc[t] = "write"
  <2>1. rowLock[target[t]] = u
    BY <1>2 DEF Waits
  <2>2. seen[t] = "owner"
    BY <1>2 DEF IInv, LocksInOrder, HoldsNothing
  <2>3. todo[t] = {} /\ target[t] \in Member
    BY <1>2 DEF IInv, Phases, TypeOK
  <2>4. target[t] \in counted[t] \/ role[target[t]] = "gone" \/ rowLock[target[t]] = t
    BY <1>2, <2>2, <2>3 DEF IInv, OwnIsCounted
  <2>5. role[target[t]] \in Role
    BY <2>1, <2>3 DEF IInv, LockedIsPresent
  <2>6. QED
    BY <2>1, <2>4, <2>5 DEF IInv, CountedIsHeld, Role
<1>3. QED
  BY <1>1, <1>2 DEF Waits

(* What ORDER BY m.id in LockOrganizationsSolelyOwnedBy is for: two deletions      *)
(* never wait for one another, because each holds only rows below those it wants. *)
THEOREM DeletionsNeverDeadlock == Spec => []DeletionsDoNotDeadlock
<1>1. IInv => DeletionsDoNotDeadlock
  <2> SUFFICES ASSUME IInv, NEW t \in Txn, NEW u \in Txn, t # u, op[t] = "delete", op[u] = "delete",
                      u \in Waits(t), t \in Waits(u)
               PROVE  FALSE
    BY DEF DeletionsDoNotDeadlock
  <2>1. PICK h \in Member : rowLock[h] = t
    BY DEF Waits, IInv, TypeOK
  <2>2. PICK k \in Member : rowLock[k] = u
    BY DEF Waits, IInv, TypeOK
  <2>3. PICK m \in todo[t] : rowLock[m] = u /\ \A i \in Member : rowLock[i] = t => i < m
    BY <2>1, WaitingDeletion
  <2>4. PICK n \in todo[u] : rowLock[n] = t /\ \A i \in Member : rowLock[i] = u => i < n
    BY <2>2, WaitingDeletion
  <2>5. m \in Member /\ n \in Member
    BY <2>3, <2>4 DEF IInv, TypeOK
  <2>6. n < m /\ m < n
    BY <2>3, <2>4, <2>5
  <2>7. QED
    BY <2>5, <2>6 DEF Member
<1>2. QED
  BY <1>1, Inductive, PTL

----------------------------------------------------------------------------
(* Chains of parents. *)

Parents == [Folder -> Folder \union {Top}]

\* Folders are finitely many numbers, and the top level is none of them.
LEMMA TopIsNone == Top \notin Folder /\ Folder \subseteq Int /\ IsFiniteSet(Folder)
  BY FoldersConstants, FS_Interval DEF Top, Folder

\* A chain is the least closed set with its folder in it.
LEMMA ChainBasics ==
  ASSUME NEW par \in Parents, NEW f \in Folder
  PROVE  /\ f \in Chain(par, f)
         /\ Chain(par, f) \subseteq Folder
         /\ Closed(par, Chain(par, f))
         /\ \A S \in SUBSET Folder : f \in S /\ Closed(par, S) => Chain(par, f) \subseteq S
<1>1. f \in Chain(par, f) /\ Chain(par, f) \subseteq Folder
  BY DEF Chain
<1>2. \A S \in SUBSET Folder : f \in S /\ Closed(par, S) => Chain(par, f) \subseteq S
  BY DEF Chain
<1>3. ASSUME NEW g \in Chain(par, f), par[g] # Top PROVE par[g] \in Chain(par, f)
  <2>1. g \in Folder /\ par[g] \in Folder
    BY <1>1, <1>3 DEF Parents
  <2>2. ASSUME NEW S \in SUBSET Folder, f \in S, Closed(par, S) PROVE par[g] \in S
    BY <1>2, <1>3, <2>2 DEF Closed
  <2> QED
    BY <2>1, <2>2 DEF Chain
<1> QED
  BY <1>1, <1>2, <1>3 DEF Closed

\* The chain of an ancestor is part of the chain.
LEMMA ChainTransitive ==
  ASSUME NEW par \in Parents, NEW f \in Folder, NEW g \in Chain(par, f)
  PROVE  g \in Folder /\ Chain(par, g) \subseteq Chain(par, f)
  BY ChainBasics

\* A chain is the folder and its parent's chain.
LEMMA ChainUnfolds ==
  ASSUME NEW par \in Parents, NEW f \in Folder
  PROVE  Chain(par, f) = {f} \union (IF par[f] = Top THEN {} ELSE Chain(par, par[f]))
<1> DEFINE S == {f} \union (IF par[f] = Top THEN {} ELSE Chain(par, par[f]))
<1>0. par[f] # Top => par[f] \in Folder
  BY DEF Parents
<1>1. S \subseteq Chain(par, f)
  <2>1. f \in Chain(par, f) /\ Closed(par, Chain(par, f))
    BY ChainBasics
  <2>2. par[f] # Top => par[f] \in Chain(par, f)
    BY <2>1 DEF Closed
  <2>3. par[f] # Top => Chain(par, par[f]) \subseteq Chain(par, f)
    BY <2>2, ChainTransitive
  <2> QED
    BY <2>1, <2>3
<1>2. S \subseteq Folder /\ Closed(par, S)
  <2>1. par[f] # Top => Chain(par, par[f]) \subseteq Folder /\ Closed(par, Chain(par, par[f])) /\ par[f] \in Chain(par, par[f])
    BY <1>0, ChainBasics
  <2> QED
    BY <2>1 DEF Closed
<1>3. Chain(par, f) \subseteq S
  <2>1. \A T \in SUBSET Folder : f \in T /\ Closed(par, T) => Chain(par, f) \subseteq T
    BY ChainBasics
  <2>2. f \in S /\ S \in SUBSET Folder
    BY <1>2
  <2> HIDE DEF S
  <2> QED
    BY <1>2, <2>1, <2>2
<1> QED
  BY <1>1, <1>3

\* What happens outside a closed set changes no chain inside it.
LEMMA ChainLocal ==
  ASSUME NEW par \in Parents, NEW par2 \in Parents, NEW A \in SUBSET Folder,
         Closed(par, A), \A g \in A : par2[g] = par[g], NEW f \in A
  PROVE  Chain(par2, f) = Chain(par, f) /\ Chain(par, f) \subseteq A
<1>1. Closed(par2, A)
  BY DEF Closed
<1>2. Chain(par, f) \subseteq A /\ Chain(par2, f) \subseteq A
  BY <1>1, ChainBasics
<1>3. Closed(par, Chain(par2, f)) /\ Closed(par2, Chain(par, f))
  <2>1. Closed(par2, Chain(par2, f)) /\ Closed(par, Chain(par, f))
    BY ChainBasics
  <2> QED
    BY <1>2, <2>1 DEF Closed
<1>4. f \in Chain(par, f) /\ f \in Chain(par2, f) /\ Chain(par, f) \in SUBSET Folder /\ Chain(par2, f) \in SUBSET Folder
  BY ChainBasics
<1>5. Chain(par, f) \subseteq Chain(par2, f)
  BY <1>3, <1>4, ChainBasics
<1>6. Chain(par2, f) \subseteq Chain(par, f)
  BY <1>3, <1>4, ChainBasics
<1> QED
  BY <1>2, <1>5, <1>6

(* Depth, of any parents. *)
ChainSize(par, f) == IF f = Top THEN 0 ELSE Cardinality(Chain(par, f))

\* Chains are finite and have a folder.
LEMMA ChainSizes ==
  ASSUME NEW par \in Parents, NEW f \in Folder \union {Top}
  PROVE  /\ ChainSize(par, f) \in Nat
         /\ f # Top => IsFiniteSet(Chain(par, f)) /\ Cardinality(Chain(par, f)) = ChainSize(par, f) /\ ChainSize(par, f) >= 1
<1>1. CASE f = Top
  BY <1>1 DEF ChainSize
<1>2. CASE f # Top
  <2>1. Chain(par, f) \subseteq Folder /\ f \in Chain(par, f)
    BY <1>2, ChainBasics
  <2>2. IsFiniteSet(Chain(par, f))
    BY <2>1, TopIsNone, FS_Subset
  <2>3. Cardinality(Chain(par, f)) \in Nat
    BY <2>2, FS_CardinalityType
  <2>4. Cardinality(Chain(par, f)) # 0
    BY <2>1, <2>2, FS_EmptySet
  <2> QED
    BY <1>2, <2>2, <2>3, <2>4 DEF ChainSize
<1> QED
  BY <1>1, <1>2

\* A set of numbers with a bound has a greatest member.
LEMMA MaxExists ==
  ASSUME NEW S \in SUBSET Int, S # {}, NEW n \in Int, \A x \in S : x <= n
  PROVE  Max(S) \in S /\ \A y \in S : y <= Max(S)
<1> DEFINE T == {n - x : x \in S}
<1>1. T \subseteq Nat /\ T # {}
  <2>1. \A x \in S : x \in Int /\ n - x \in Nat
    OBVIOUS
  <2>2. PICK x \in S : TRUE
    OBVIOUS
  <2> QED
    BY <2>1, <2>2
<1>2. \E x \in T : \A y \in T : ~ (<<y, x>> \in OpToRel(<, Nat))
  <2> HIDE DEF T
  <2> QED
    BY <1>1, WFMin, NatLessThanWellFounded
<1>3. PICK x \in T : \A y \in T : x <= y
  <2>1. PICK x \in T : \A y \in T : ~ (<<y, x>> \in OpToRel(<, Nat))
    BY <1>2
  <2>2. \A y \in T : ~ (y < x)
    BY <1>1, <2>1 DEF OpToRel
  <2> HIDE DEF T
  <2> QED
    BY <1>1, <2>2
<1>4. PICK m \in S : x = n - m
  BY <1>3
<1>5. \A y \in S : m >= y
  <2> TAKE y \in S
  <2>1. x <= n - y
    BY <1>3
  <2> QED
    BY <1>4, <2>1
<1>6. Max(S) \in S /\ \A y \in S : Max(S) >= y
  BY <1>4, <1>5 DEF Max
<1> QED
  BY <1>6

(* No folder is on its own parent's chain. *)
Acyclic(par) == \A f \in Folder : par[f] = Top \/ f \notin Chain(par, par[f])

\* In a forest no two folders are above one another.
LEMMA ChainAntisymmetric ==
  ASSUME NEW par \in Parents, Acyclic(par), NEW f \in Folder, NEW g \in Chain(par, f), f \in Chain(par, g)
  PROVE  f = g
<1> SUFFICES ASSUME f # g PROVE FALSE
  OBVIOUS
<1>1. par[f] # Top /\ g \in Chain(par, par[f]) /\ par[f] \in Folder
  BY ChainUnfolds DEF Parents
<1>2. Chain(par, g) \subseteq Chain(par, par[f])
  BY <1>1, ChainTransitive
<1> QED
  BY <1>1, <1>2 DEF Acyclic

(* The part of a chain that is inside the branch of f. *)
BranchPart(par, f, g) == {h \in Chain(par, g) : f \in Chain(par, h)}

\* The folders outside a branch have their parents outside it.
LEMMA OutsideBranch ==
  ASSUME NEW par \in Parents, NEW f \in Folder
  PROVE  Closed(par, {g \in Folder : f \notin Chain(par, g)})
<1> SUFFICES ASSUME NEW g \in Folder, f \notin Chain(par, g), par[g] # Top
             PROVE  par[g] \in Folder /\ f \notin Chain(par, par[g])
  BY DEF Closed
<1> QED
  BY ChainUnfolds DEF Parents

\* The folders of a chain from the top of a branch down are as many as its members' depths say.
LEMMA BranchSize ==
  ASSUME NEW par \in Parents, Acyclic(par), NEW f \in Folder, NEW g \in Folder, f \in Chain(par, g)
  PROVE  /\ IsFiniteSet(BranchPart(par, f, g))
         /\ Cardinality(BranchPart(par, f, g)) \in Nat
         /\ Cardinality(BranchPart(par, f, g)) <= ChainSize(par, g) - ChainSize(par, f) + 1
<1> DEFINE B == BranchPart(par, f, g)
           C == Chain(par, f)
           D == Chain(par, g)
<1>1. B \subseteq D /\ C \subseteq D
  BY ChainTransitive DEF BranchPart
<1>2. B \intersect C \subseteq {f}
  <2> SUFFICES ASSUME NEW h \in B, h \in C PROVE h = f
    OBVIOUS
  <2>1. f \in Chain(par, h)
    BY DEF BranchPart
  <2> QED
    BY <2>1, ChainAntisymmetric
<1>3. /\ IsFiniteSet(D) /\ Cardinality(D) = ChainSize(par, g) /\ Cardinality(C) = ChainSize(par, f)
      /\ ChainSize(par, f) \in Nat /\ ChainSize(par, g) \in Nat
  BY ChainSizes, TopIsNone
<1> HIDE DEF B, C, D
<1>4. IsFiniteSet(B) /\ IsFiniteSet(C) /\ IsFiniteSet(B \union C) /\ Cardinality(B \union C) <= Cardinality(D)
  BY <1>1, <1>3, FS_Subset
<1>5. Cardinality(B \intersect C) <= 1 /\ Cardinality(B \intersect C) \in Nat
  <2>1. IsFiniteSet({f}) /\ Cardinality({f}) = 1
    BY FS_Singleton
  <2>2. IsFiniteSet(B \intersect C) /\ Cardinality(B \intersect C) <= Cardinality({f})
    BY <1>2, <2>1, FS_Subset
  <2> QED
    BY <2>1, <2>2, FS_CardinalityType
<1>6. Cardinality(B \union C) = Cardinality(B) + Cardinality(C) - Cardinality(B \intersect C)
  BY <1>4, FS_Union
<1>7. Cardinality(B) \in Nat /\ Cardinality(B \union C) \in Nat
  BY <1>4, FS_CardinalityType
<1>8. Cardinality(B) <= ChainSize(par, g) - ChainSize(par, f) + 1
  BY <1>3, <1>4, <1>5, <1>6, <1>7
<1> QED
  BY <1>4, <1>7, <1>8 DEF B

\* A branch put under a folder outside it leaves a forest, and every folder in it as deep as
\* the new parent and its place in the branch make it.
LEMMA MovedBranch ==
  ASSUME NEW par \in Parents, Acyclic(par), NEW f \in Folder, NEW d \in Folder \union {Top},
         d # Top => f \notin Chain(par, d),
         NEW par2 \in Parents, par2[f] = d, \A g \in Folder \ {f} : par2[g] = par[g]
  PROVE  /\ Acyclic(par2)
         /\ \A g \in Folder : f \notin Chain(par, g) => Chain(par2, g) = Chain(par, g)
         /\ \A g \in Folder : f \in Chain(par, g) =>
              ChainSize(par2, g) <= ChainSize(par, d) + (ChainSize(par, g) - ChainSize(par, f) + 1)
         /\ \A g \in Folder : f \in Chain(par, g) =>
              Chain(par2, g) \subseteq BranchPart(par, f, g) \union (IF d = Top THEN {} ELSE Chain(par, d))
<1>0. par2 \in Parents /\ par2[f] = d /\ \A g \in Folder : g # f => par2[g] = par[g]
  OBVIOUS
<1> DEFINE A == {g \in Folder : f \notin Chain(par, g)}
<1>1. Closed(par, A) /\ f \notin A
  BY OutsideBranch, ChainBasics
<1>2. ASSUME NEW g \in A PROVE Chain(par2, g) = Chain(par, g) /\ Chain(par, g) \subseteq A
  <2>1. \A h \in A : par2[h] = par[h]
    BY <1>0, <1>1
  <2> HIDE DEF A
  <2>2. A \in SUBSET Folder /\ par2 \in Parents /\ Closed(par, A)
    BY <1>0, <1>1 DEF A
  <2> QED
    BY <2>1, <2>2, ChainLocal
<1> DEFINE To == IF d = Top THEN {} ELSE Chain(par, d)
<1>3. To \subseteq A /\ (d # Top => d \in To) /\ \A h \in To : par[h] \in To \union {Top}
  <2>1. CASE d = Top
    BY <2>1
  <2>2. CASE d # Top
    <3>1. d \in A
      BY <2>2
    <3>2. d \in Chain(par, d) /\ Closed(par, Chain(par, d))
      BY <2>2, ChainBasics
    <3> QED
      BY <1>2, <2>2, <3>1, <3>2 DEF Closed
  <2> QED
    BY <2>1, <2>2
<1>4. ASSUME NEW g \in Folder, f \in Chain(par, g) PROVE Chain(par2, g) \subseteq BranchPart(par, f, g) \union To
  <2> DEFINE T == BranchPart(par, f, g) \union To
  <2>1. Chain(par, g) \subseteq Folder /\ g \in Chain(par, g) /\ Closed(par, Chain(par, g))
    BY ChainBasics
  <2>2. T \in SUBSET Folder /\ g \in T
    BY <1>3, <1>4, <2>1 DEF BranchPart
  <2>3. ASSUME NEW h \in BranchPart(par, f, g) PROVE par2[h] \in T \union {Top}
    <3>1. h \in Folder /\ h \in Chain(par, g) /\ f \in Chain(par, h)
      BY <2>1, <2>3 DEF BranchPart
    <3>2. CASE h = f
      BY <1>0, <1>3, <3>2
    <3>3. CASE h # f
      <4>1. par[h] # Top /\ f \in Chain(par, par[h])
        BY <3>1, <3>3, ChainUnfolds
      <4>2. par[h] \in Chain(par, g)
        BY <2>1, <3>1, <4>1 DEF Closed
      <4> QED
        BY <1>0, <3>1, <3>3, <4>1, <4>2 DEF BranchPart
    <3> QED
      BY <3>2, <3>3
  <2>4. ASSUME NEW h \in To PROVE par2[h] \in T \union {Top}
    BY <1>0, <1>1, <1>3, <2>4
  <2>5. Closed(par2, T)
    BY <2>3, <2>4 DEF Closed
  <2> HIDE DEF T
  <2>6. Chain(par2, g) \subseteq T
    BY <1>0, <2>2, <2>5, ChainBasics
  <2> QED
    BY <2>6 DEF T
<1>5. Acyclic(par2)
  <2> SUFFICES ASSUME NEW g \in Folder, par2[g] # Top PROVE g \notin Chain(par2, par2[g])
    BY DEF Acyclic
  <2>1. CASE g = f
    <3>1. par2[g] = d /\ d \in A
      BY <1>0, <2>1
    <3> QED
      BY <1>2, <2>1, <3>1
  <2>2. CASE g # f
    <3>1. par2[g] = par[g] /\ par[g] \in Folder /\ g \notin Chain(par, par[g])
      BY <1>0, <2>2 DEF Acyclic, Parents
    <3>2. CASE f \notin Chain(par, par[g])
      BY <1>2, <3>1, <3>2
    <3>3. CASE f \in Chain(par, par[g])
      <4>1. Chain(par2, par[g]) \subseteq BranchPart(par, f, par[g]) \union To
        BY <1>4, <3>1, <3>3
      <4>2. g \notin BranchPart(par, f, par[g])
        BY <3>1 DEF BranchPart
      <4>3. g \notin A
        BY <3>1, <3>3, ChainUnfolds
      <4> QED
        BY <1>3, <3>1, <4>1, <4>2, <4>3
    <3> QED
      BY <3>2, <3>3
  <2> QED
    BY <2>1, <2>2
<1>6. ASSUME NEW g \in Folder, f \in Chain(par, g)
      PROVE  ChainSize(par2, g) <= ChainSize(par, d) + (ChainSize(par, g) - ChainSize(par, f) + 1)
  <2>1. ChainSize(par2, g) = Cardinality(Chain(par2, g)) /\ ChainSize(par2, g) \in Nat
    BY <1>0, ChainSizes, TopIsNone
  <2>2. ChainSize(par, d) \in Nat /\ ChainSize(par, f) \in Nat /\ ChainSize(par, g) \in Nat
    BY ChainSizes
  <2>3. IsFiniteSet(To) /\ Cardinality(To) = ChainSize(par, d)
    <3>1. CASE d = Top
      BY <3>1, FS_EmptySet DEF ChainSize
    <3>2. CASE d # Top
      BY <3>2, ChainSizes
    <3> QED
      BY <3>1, <3>2
  <2> DEFINE B == BranchPart(par, f, g)
  <2>4. IsFiniteSet(B) /\ Cardinality(B) \in Nat /\ Cardinality(B) <= ChainSize(par, g) - ChainSize(par, f) + 1
    BY <1>6, BranchSize
  <2>5. Chain(par2, g) \subseteq B \union To
    BY <1>4, <1>6
  <2> HIDE DEF B, To
  <2>6. IsFiniteSet(B \union To) /\ Cardinality(B \union To) = Cardinality(B) + Cardinality(To) - Cardinality(B \intersect To)
    BY <2>3, <2>4, FS_Union
  <2>7. Cardinality(B \intersect To) \in Nat
    <3>1. IsFiniteSet(B \intersect To)
      BY <2>4, FS_Subset
    <3> QED
      BY <3>1, FS_CardinalityType
  <2>8. Cardinality(Chain(par2, g)) <= Cardinality(B \union To)
    BY <2>5, <2>6, FS_Subset
  <2>9. Cardinality(B \union To) \in Nat
    BY <2>6, FS_CardinalityType
  <2> QED
    BY <2>1, <2>2, <2>3, <2>4, <2>6, <2>7, <2>8, <2>9
<1> QED
  BY <1>0, <1>2, <1>4, <1>5, <1>6

\* The path of a folder in a branch that was moved: its place in the branch, and the new parent's path.
LEMMA MovedPath ==
  ASSUME NEW par \in Parents, Acyclic(par), NEW f \in Folder, NEW d \in Folder \union {Top},
         d # Top => f \notin Chain(par, d),
         NEW par2 \in Parents, par2[f] = d, \A g \in Folder \ {f} : par2[g] = par[g],
         NEW g \in Folder, f \in Chain(par, g)
  PROVE  Chain(par2, g) = BranchPart(par, f, g) \union (IF d = Top THEN {} ELSE Chain(par, d))
<1> DEFINE To == IF d = Top THEN {} ELSE Chain(par, d)
           C == Chain(par2, g)
<1>1. C \subseteq BranchPart(par, f, g) \union To
  BY MovedBranch
<1>2. g \in C /\ C \in SUBSET Folder /\ Closed(par2, C)
  BY ChainBasics
<1>3. f \in C
  <2> SUFFICES ASSUME f \notin C PROVE FALSE
    OBVIOUS
  <2>1. Closed(par, C)
    BY <1>2 DEF Closed
  <2> HIDE DEF C
  <2>2. Chain(par, g) \subseteq C
    BY <1>2, <2>1, ChainBasics
  <2> QED
    BY <2>2
<1>4. To \subseteq C
  <2>1. CASE d = Top
    BY <2>1
  <2>2. CASE d # Top
    <3>1. d \in C
      BY <1>2, <1>3, <2>2 DEF Closed
    <3>2. Chain(par2, d) \subseteq C
      BY <3>1, ChainTransitive
    <3>3. Chain(par2, d) = Chain(par, d)
      BY <2>2, MovedBranch
    <3> QED
      BY <2>2, <3>2, <3>3
  <2> QED
    BY <2>1, <2>2
<1>5. BranchPart(par, f, g) \subseteq C
  <2> DEFINE S == C \union Chain(par, f)
  <2>1. Closed(par, Chain(par, f)) /\ Chain(par, f) \subseteq Folder /\ f \in Chain(par, f)
    BY ChainBasics
  <2>2. S \in SUBSET Folder /\ g \in S
    BY <1>2, <2>1
  <2>3. Closed(par, S)
    <3>1. \A h \in C : h # f => par[h] \in C \union {Top}
      BY <1>2 DEF Closed
    <3> QED
      BY <2>1, <3>1 DEF Closed
  <2> HIDE DEF S
  <2>4. Chain(par, g) \subseteq S
    BY <2>2, <2>3, ChainBasics
  <2> SUFFICES ASSUME NEW h \in BranchPart(par, f, g) PROVE h \in C
    OBVIOUS
  <2>5. h \in Chain(par, g) /\ f \in Chain(par, h)
    BY DEF BranchPart
  <2>6. CASE h \in Chain(par, f)
    BY <1>3, <2>5, <2>6, ChainAntisymmetric
  <2> QED
    BY <2>4, <2>5, <2>6 DEF S
<1> QED
  BY <1>1, <1>4, <1>5

\* Two folders of a chain are one above the other.
LEMMA ChainLinear ==
  ASSUME NEW par \in Parents, NEW f \in Folder, NEW g \in Chain(par, f), NEW h \in Chain(par, f)
  PROVE  g \in Chain(par, h) \/ h \in Chain(par, g)
<1> DEFINE S == {x \in Chain(par, f) : g \in Chain(par, x) \/ x \in Chain(par, g)}
<1>1. Chain(par, f) \subseteq Folder /\ f \in Chain(par, f) /\ Closed(par, Chain(par, f))
  BY ChainBasics
<1>2. S \in SUBSET Folder /\ f \in S
  BY <1>1
<1>3. ASSUME NEW x \in S, par[x] # Top PROVE par[x] \in S
  <2>1. x \in Folder /\ par[x] \in Chain(par, f)
    BY <1>1, <1>3 DEF Closed
  <2>2. g \in Folder /\ Closed(par, Chain(par, g)) /\ g \in Chain(par, g)
    BY <1>1, ChainBasics
  <2>3. CASE x \in Chain(par, g)
    BY <1>3, <2>1, <2>2, <2>3 DEF Closed
  <2>4. CASE x \notin Chain(par, g)
    <3>1. g \in Chain(par, x) /\ g # x
      BY <1>3, <2>2, <2>4
    <3>2. g \in Chain(par, par[x])
      BY <1>3, <2>1, <3>1, ChainUnfolds
    <3> QED
      BY <2>1, <3>2
  <2> QED
    BY <2>3, <2>4
<1>4. Closed(par, S)
  BY <1>3 DEF Closed
<1> HIDE DEF S
<1>5. Chain(par, f) \subseteq S
  BY <1>2, <1>4, ChainBasics
<1> QED
  BY <1>5 DEF S

\* A forest without a branch is a forest, and nothing outside the branch is any deeper.
LEMMA PrunedBranch ==
  ASSUME NEW par \in Parents, Acyclic(par), NEW f \in Folder,
         NEW par2, par2 = [g \in Folder |-> IF f \in Chain(par, g) THEN Top ELSE par[g]]
  PROVE  /\ par2 \in Parents
         /\ Acyclic(par2)
         /\ \A g \in Folder : f \notin Chain(par, g) => Chain(par2, g) = Chain(par, g)
         /\ \A g \in Folder : f \notin Chain(par, g) => par[g] = Top \/ f \notin Chain(par, par[g])
<1>0. par2 \in Parents
  BY DEF Parents
<1> DEFINE A == {g \in Folder : f \notin Chain(par, g)}
<1>1. Closed(par, A)
  BY OutsideBranch
<1>2. ASSUME NEW g \in A PROVE Chain(par2, g) = Chain(par, g)
  <2>1. \A h \in A : par2[h] = par[h]
    OBVIOUS
  <2>2. A \in SUBSET Folder
    OBVIOUS
  <2> HIDE DEF A
  <2> QED
    BY <1>0, <1>1, <2>1, <2>2, ChainLocal
<1>3. \A g \in A : par[g] = Top \/ par[g] \in A
  BY <1>1 DEF Closed
<1>4. Acyclic(par2)
  BY <1>2, <1>3 DEF Acyclic
<1> QED
  BY <1>0, <1>2, <1>3, <1>4

----------------------------------------------------------------------------
(* The inductive invariant. *)

FolderTypes ==
  /\ stored \subseteq Folder /\ unissued \subseteq Folder \ stored
  /\ parent \in [Folder -> Folder \union {Top}]
  /\ lock \in [Folder -> Request \union {Nobody}]
  /\ stage \in [Request -> {"idle", "lock", "write"}]
  /\ what \in [Request -> Folder \union {Top}]
  /\ dest \in [Request -> Folder \union {Top}]
  /\ toLock \in [Request -> SUBSET Folder]

(* Only rows that exist have a parent, and it exists. *)
ParentsExist == \A f \in Folder : parent[f] # Top => f \in stored /\ parent[f] \in stored

(* The rows a request is about that still exist, and the rows it has locked or has still to lock. *)
Subjects(q) == {what[q], dest[q]} \intersect stored
Covers(q) == toLock[q] \union {f \in Folder : lock[f] = q}

LockPhase(q) ==
  /\ stage[q] # "lock" => toLock[q] = {}
  /\ stage[q] = "idle" => Covers(q) = {}
  /\ toLock[q] \intersect unissued = {} /\ {what[q], dest[q]} \intersect unissued = {}
  /\ \A f \in toLock[q], g \in Folder : lock[g] = q => g < f

LockPhases == \A q \in Request : LockPhase(q)

(* A request covers what it is about, and of any two one covers what the other is about. *)
SubjectsCovered == \A q, r \in Request : stage[q] # "idle" /\ stage[r] # "idle" =>
  Subjects(q) \subseteq Covers(r) \/ Subjects(r) \subseteq Covers(q)

(* What was decided is still so when it is written. *)
Fits(f, d) == \A g \in Subtree(f) : Depth(d) + (Depth(g) - Depth(f) + 1) <= MaxDepth

DecisionHolds(q) == stage[q] = "write" /\ dest[q] \in stored \union {Top} =>
  /\ what[q] = Top => Depth(dest[q]) + 1 <= MaxDepth
  /\ what[q] \in stored => ~IsAncestor(what[q], dest[q]) /\ Fits(what[q], dest[q])

DecisionsHold == \A q \in Request : DecisionHolds(q)

FoldersInv == FolderTypes /\ ParentsExist /\ LockPhases /\ SubjectsCovered /\ DecisionsHold
  /\ NoCycles /\ DepthBounded

\* The parents form a forest, of the chain lemmas' kind.
LEMMA IsForest ==
  ASSUME FoldersInv
  PROVE  /\ parent \in Parents /\ Acyclic(parent)
         /\ \A f \in Folder \union {Top} : Depth(f) = ChainSize(parent, f) /\ Depth(f) \in Nat
<1>1. parent \in Parents
  BY DEF FoldersInv, FolderTypes, Parents
<1>2. Acyclic(parent)
  BY DEF FoldersInv, ParentsExist, NoCycles, IsAncestor, Acyclic
<1>3. \A f \in Folder \union {Top} : Depth(f) = ChainSize(parent, f)
  BY DEF Depth, ChainSize
<1> QED
  BY <1>1, <1>2, <1>3, ChainSizes

\* A step that leaves the rows alone leaves the tree alone.
LEMMA TreeStill ==
  ASSUME FoldersInv, UNCHANGED <<stored, parent>>
  PROVE  /\ ParentsExist' /\ NoCycles' /\ DepthBounded'
         /\ \A f \in Folder \union {Top} : Depth(f)' = Depth(f)
         /\ \A f, d \in Folder \union {Top} : IsAncestor(f, d)' = IsAncestor(f, d)
         /\ \A f, d \in Folder \union {Top} : Fits(f, d)' = Fits(f, d)
  BY DEF FoldersInv, ParentsExist, NoCycles, DepthBounded, Depth, IsAncestor, Subtree, Fits

\* Of two decisions about to be written, at most one is about rows that exist.
LEMMA OneDecides ==
  ASSUME FoldersInv, NEW q \in Request, NEW r \in Request, q # r, stage[q] = "write", stage[r] = "write"
  PROVE  Subjects(q) = {} \/ Subjects(r) = {}
<1>1. Covers(q) \intersect Covers(r) = {}
  BY DEF FoldersInv, LockPhases, LockPhase, Covers
<1>2. Subjects(q) \subseteq Covers(q) /\ Subjects(r) \subseteq Covers(r)
  BY DEF FoldersInv, SubjectsCovered
<1>3. Subjects(q) \subseteq Covers(r) \/ Subjects(r) \subseteq Covers(q)
  BY DEF FoldersInv, SubjectsCovered
<1> QED
  BY <1>1, <1>2, <1>3

\* What MoveRefusal measures bounds every folder of the branch.
LEMMA HeightBounds ==
  ASSUME FoldersInv, NEW f \in stored, NEW d \in Folder \union {Top}, Depth(d) + Height(f) <= MaxDepth
  PROVE  Fits(f, d)
<1> DEFINE S == {Depth(g) - Depth(f) + 1 : g \in Subtree(f)}
<1>1. stored \subseteq Folder /\ Subtree(f) \subseteq stored
  BY DEF FoldersInv, FolderTypes, Subtree
<1>2. \A g \in Subtree(f) : Depth(g) \in Nat /\ Depth(g) <= MaxDepth
  BY <1>1, IsForest DEF FoldersInv, DepthBounded
<1>3. Depth(f) \in Nat /\ Depth(d) \in Nat
  BY <1>1, IsForest
<1>4. S \subseteq Int /\ \A x \in S : x <= MaxDepth + 1
  BY <1>2, <1>3, FoldersConstants
<1>5. f \in Subtree(f)
  BY <1>1, IsForest, ChainBasics, TopIsNone DEF Subtree, IsAncestor
<1>6. S # {}
  BY <1>5
<1>7. MaxDepth + 1 \in Int
  BY FoldersConstants
<1>8. Height(f) = Max(S)
  BY DEF Height
<1> HIDE DEF S
<1>9. Max(S) \in S /\ \A y \in S : y <= Max(S)
  BY <1>4, <1>6, <1>7, MaxExists
<1>10. ASSUME NEW g \in Subtree(f) PROVE Depth(d) + (Depth(g) - Depth(f) + 1) <= MaxDepth
  <2>1. Depth(g) - Depth(f) + 1 \in S
    BY DEF S
  <2>2. Max(S) \in Int /\ Depth(g) - Depth(f) + 1 <= Max(S) /\ Depth(g) - Depth(f) + 1 \in Int
    BY <1>4, <1>9, <2>1
  <2> QED
    BY <1>3, <1>8, <2>2, FoldersConstants
<1> QED
  BY <1>10 DEF Fits

\* The rows are listed to be locked.
LEMMA LockWorkspaceFoldersKept ==
  ASSUME FoldersInv, NEW q \in Request, NEW f \in stored \union {Top}, NEW d \in Folder \union {Top},
         LockWorkspaceFolders(q, f, d)
  PROVE  FoldersInv'
<1>1. FolderTypes'
  BY TopIsNone DEF FoldersInv, FolderTypes, LockWorkspaceFolders
<1>2. LockPhases'
  <2> SUFFICES ASSUME NEW r \in Request PROVE LockPhase(r)'
    BY DEF LockPhases
  <2>1. LockPhase(r) /\ stored \subseteq Folder /\ unissued \subseteq Folder \ stored
    BY DEF FoldersInv, FolderTypes, LockPhases
  <2>2. stage'[r] # "lock" => toLock'[r] = {}
    BY <2>1, TopIsNone DEF FoldersInv, FolderTypes, LockPhase, LockWorkspaceFolders
  <2>3. stage'[r] = "idle" => Covers(r)' = {}
    BY <2>1, TopIsNone DEF FoldersInv, FolderTypes, LockPhase, Covers, LockWorkspaceFolders
  <2>4. toLock'[r] \intersect unissued' = {} /\ {what'[r], dest'[r]} \intersect unissued' = {}
    <3>1. Top \notin unissued /\ unissued' = unissued /\ f \notin unissued /\ d \notin unissued
      BY <2>1, TopIsNone DEF LockWorkspaceFolders
    <3>2. CASE r = q
      <4>1. what'[r] = f /\ dest'[r] = d /\ toLock'[r] = stored
        BY <3>2 DEF FoldersInv, FolderTypes, LockWorkspaceFolders
      <4> QED
        BY <2>1, <3>1, <4>1
    <3>3. CASE r # q
      BY <2>1, <3>3 DEF FoldersInv, FolderTypes, LockPhase, LockWorkspaceFolders
    <3> QED
      BY <3>2, <3>3
  <2>5. \A f1 \in toLock'[r], g \in Folder : lock'[g] = r => g < f1
    BY <2>1, TopIsNone DEF FoldersInv, FolderTypes, LockPhase, Covers, LockWorkspaceFolders
  <2> QED
    BY <2>2, <2>3, <2>4, <2>5 DEF LockPhase
<1>3. SubjectsCovered'
  BY TopIsNone DEF FoldersInv, FolderTypes, SubjectsCovered, Subjects, Covers, LockWorkspaceFolders
<1>4. DecisionsHold'
  BY TreeStill DEF FoldersInv, FolderTypes, DecisionsHold, DecisionHolds, LockWorkspaceFolders
<1>5. ParentsExist'
  BY TreeStill DEF LockWorkspaceFolders
<1>6. NoCycles'
  BY TreeStill DEF LockWorkspaceFolders
<1>7. DepthBounded'
  BY TreeStill DEF LockWorkspaceFolders
<1> QED
  BY <1>1, <1>2, <1>3, <1>4, <1>5, <1>6, <1>7 DEF FoldersInv

\* A row is locked, or found deleted.
LEMMA LockRowKept ==
  ASSUME FoldersInv, NEW q \in Request, NEW f \in Folder, LockRow(q, f)
  PROVE  FoldersInv'
<1>1. FolderTypes'
  BY FoldersConstants DEF FoldersInv, FolderTypes, LockRow
<1>2. LockPhases'
  BY TopIsNone, FoldersConstants DEF FoldersInv, FolderTypes, LockPhases, LockPhase, Covers, LockRow, NextRow
<1>3. SubjectsCovered'
  BY FoldersConstants DEF FoldersInv, FolderTypes, SubjectsCovered, Subjects, Covers, LockRow, NextRow
<1>4. DecisionsHold'
  BY TreeStill DEF FoldersInv, FolderTypes, DecisionsHold, DecisionHolds, LockRow
<1>5. ParentsExist'
  BY TreeStill DEF LockRow
<1>6. NoCycles'
  BY TreeStill DEF LockRow
<1>7. DepthBounded'
  BY TreeStill DEF LockRow
<1> QED
  BY <1>1, <1>2, <1>3, <1>4, <1>5, <1>6, <1>7 DEF FoldersInv

\* The decision is made on the tree as it is.
LEMMA DecideFolderKept ==
  ASSUME FoldersInv, NEW q \in Request, DecideFolder(q)
  PROVE  FoldersInv'
<1>1. FolderTypes'
  BY DEF FoldersInv, FolderTypes, DecideFolder
<1>2. LockPhases'
  BY DEF FoldersInv, FolderTypes, LockPhases, LockPhase, Covers, DecideFolder
<1>3. SubjectsCovered'
  BY DEF FoldersInv, FolderTypes, SubjectsCovered, Subjects, Covers, DecideFolder
<1>4. DecisionsHold'
  <2> SUFFICES ASSUME NEW r \in Request PROVE DecisionHolds(r)'
    BY DEF DecisionsHold
  <2>1. what[r] \in Folder \union {Top} /\ dest[r] \in Folder \union {Top} /\ stored \subseteq Folder
    BY DEF FoldersInv, FolderTypes
  <2>2. stored' = stored /\ what' = what /\ dest' = dest /\ parent' = parent
    BY DEF DecideFolder
  <2>3. CASE r # q
    <3>1. stage'[r] = stage[r] /\ DecisionHolds(r)
      BY <2>3 DEF DecideFolder, FoldersInv, FolderTypes, DecisionsHold
    <3> QED
      BY <2>1, <2>2, <3>1, TreeStill DEF DecisionHolds
  <2>4. CASE r = q
    <3>1. IF what[q] = Top THEN MayCreate(dest[q]) ELSE MayMove(what[q], dest[q])
      BY DEF DecideFolder
    <3>2. what[q] = Top => Depth(dest[q]) + 1 <= MaxDepth
      BY <3>1 DEF MayCreate
    <3>3. what[q] \in stored => ~IsAncestor(what[q], dest[q]) /\ Fits(what[q], dest[q])
      BY <2>1, <2>4, <3>1, HeightBounds, TopIsNone DEF MayMove
    <3> QED
      BY <2>1, <2>2, <2>4, <3>2, <3>3, TreeStill DEF DecisionHolds
  <2> QED
    BY <2>3, <2>4
<1>5. ParentsExist'
  BY TreeStill DEF DecideFolder
<1>6. NoCycles'
  BY TreeStill DEF DecideFolder
<1>7. DepthBounded'
  BY TreeStill DEF DecideFolder
<1> QED
  BY <1>1, <1>2, <1>3, <1>4, <1>5, <1>6, <1>7 DEF FoldersInv

\* A request gives up.
LEMMA RollbackRequestKept ==
  ASSUME FoldersInv, NEW q \in Request, RollbackRequest(q)
  PROVE  FoldersInv'
<1>1. FolderTypes'
  BY DEF FoldersInv, FolderTypes, RollbackRequest, EndsRequest
<1>2. LockPhases'
  <2> SUFFICES ASSUME NEW r \in Request PROVE LockPhase(r)'
    BY DEF LockPhases
  <2>1. LockPhase(r) /\ stored \subseteq Folder /\ unissued \subseteq Folder \ stored
    BY DEF FoldersInv, FolderTypes, LockPhases
  <2>2. stage'[r] # "lock" => toLock'[r] = {}
    BY <2>1, TopIsNone, FoldersConstants DEF FoldersInv, FolderTypes, LockPhase, RollbackRequest, EndsRequest
  <2>3. stage'[r] = "idle" => Covers(r)' = {}
    BY <2>1, TopIsNone, FoldersConstants DEF FoldersInv, FolderTypes, LockPhase, Covers, RollbackRequest, EndsRequest
  <2>4. toLock'[r] \intersect unissued' = {} /\ {what'[r], dest'[r]} \intersect unissued' = {}
    <3>1. Top \notin unissued /\ unissued' = unissued
      BY <2>1, TopIsNone DEF RollbackRequest
    <3>2. CASE r = q
      <4>1. what'[r] = Top /\ dest'[r] = Top /\ toLock'[r] = {}
        BY <3>2 DEF FoldersInv, FolderTypes, RollbackRequest, EndsRequest
      <4> QED
        BY <3>1, <4>1
    <3>3. CASE r # q
      BY <2>1, <3>3 DEF FoldersInv, FolderTypes, LockPhase, RollbackRequest, EndsRequest
    <3> QED
      BY <3>2, <3>3
  <2>5. \A f1 \in toLock'[r], g \in Folder : lock'[g] = r => g < f1
    BY <2>1, TopIsNone, FoldersConstants DEF FoldersInv, FolderTypes, LockPhase, Covers, RollbackRequest, EndsRequest
  <2> QED
    BY <2>2, <2>3, <2>4, <2>5 DEF LockPhase
<1>3. SubjectsCovered'
  BY FoldersConstants DEF FoldersInv, FolderTypes, SubjectsCovered, Subjects, Covers, RollbackRequest, EndsRequest
<1>4. DecisionsHold'
  BY TreeStill DEF FoldersInv, FolderTypes, DecisionsHold, DecisionHolds, RollbackRequest, EndsRequest
<1>5. ParentsExist'
  BY TreeStill DEF RollbackRequest
<1>6. NoCycles'
  BY TreeStill DEF RollbackRequest
<1>7. DepthBounded'
  BY TreeStill DEF RollbackRequest
<1> QED
  BY <1>1, <1>2, <1>3, <1>4, <1>5, <1>6, <1>7 DEF FoldersInv

\* A request that ends gives back its locks and forgets what it was about.
LEMMA EndsKept ==
  ASSUME FoldersInv, NEW q \in Request, EndsRequest(q), stored' \ stored \subseteq unissued, unissued' \subseteq unissued
  PROVE  /\ lock' \in [Folder -> Request \union {Nobody}]
         /\ stage' \in [Request -> {"idle", "lock", "write"}]
         /\ what' \in [Request -> Folder \union {Top}] /\ dest' \in [Request -> Folder \union {Top}]
         /\ toLock' \in [Request -> SUBSET Folder]
         /\ LockPhases' /\ SubjectsCovered'
<1>1. /\ lock' \in [Folder -> Request \union {Nobody}]
      /\ stage' \in [Request -> {"idle", "lock", "write"}]
      /\ what' \in [Request -> Folder \union {Top}] /\ dest' \in [Request -> Folder \union {Top}]
      /\ toLock' \in [Request -> SUBSET Folder]
  BY DEF FoldersInv, FolderTypes, EndsRequest
<1>2. stage'[q] = "idle" /\ what'[q] = Top /\ dest'[q] = Top /\ toLock'[q] = {}
  BY DEF FoldersInv, FolderTypes, EndsRequest
<1>3. \A r \in Request \ {q} : stage'[r] = stage[r] /\ what'[r] = what[r] /\ dest'[r] = dest[r] /\ toLock'[r] = toLock[r]
  BY DEF FoldersInv, FolderTypes, EndsRequest
<1>4. \A g \in Folder : lock'[g] # q /\ \A r \in Request \ {q} : lock'[g] = r <=> lock[g] = r
  BY FoldersConstants DEF FoldersInv, FolderTypes, EndsRequest
<1>5. Covers(q)' = {} /\ \A r \in Request \ {q} : Covers(r)' = Covers(r)
  BY <1>2, <1>3, <1>4 DEF Covers
<1>6. LockPhases'
  <2> SUFFICES ASSUME NEW r \in Request PROVE LockPhase(r)'
    BY DEF LockPhases
  <2>1. LockPhase(r) /\ unissued \subseteq Folder
    BY DEF FoldersInv, FolderTypes, LockPhases
  <2>2. CASE r = q
    <3>1. Top \notin unissued'
      BY <2>1, TopIsNone
    <3> QED
      BY <1>2, <1>5, <2>2, <3>1 DEF LockPhase
  <2>3. CASE r # q
    BY <1>3, <1>4, <1>5, <2>1, <2>3 DEF LockPhase
  <2> QED
    BY <2>2, <2>3
<1>7. ASSUME NEW r \in Request, r # q PROVE Subjects(r)' \subseteq Subjects(r)
  <2>1. LockPhase(r)
    BY DEF FoldersInv, LockPhases
  <2> QED
    BY <1>3, <1>7, <2>1 DEF Subjects, LockPhase
<1>8. SubjectsCovered'
  BY <1>2, <1>3, <1>5, <1>7 DEF FoldersInv, SubjectsCovered
<1> QED
  BY <1>1, <1>6, <1>8

\* A folder no row has yet is on nobody's chain.
LEMMA FreshIsApart ==
  ASSUME FoldersInv, NEW f \in unissued
  PROVE  /\ f \in Folder /\ f \notin stored
         /\ \A g \in Folder : f \in Chain(parent, g) => g = f
<1>1. f \in Folder /\ f \notin stored
  BY DEF FoldersInv, FolderTypes
<1>2. Closed(parent, Folder \ {f})
  BY <1>1 DEF FoldersInv, FolderTypes, ParentsExist, Closed
<1>3. ASSUME NEW g \in Folder, g # f PROVE f \notin Chain(parent, g)
  <2>1. Chain(parent, g) \subseteq Folder \ {f}
    BY <1>2, <1>3, IsForest, ChainBasics
  <2> QED
    BY <2>1
<1> QED
  BY <1>1, <1>3

\* A folder is created.
LEMMA InsertKept ==
  ASSUME FoldersInv, NEW q \in Request, NEW f \in Folder, Insert(q, f)
  PROVE  FoldersInv'
<1> DEFINE d == dest[q]
<1>1. f \in unissued /\ f \notin stored /\ d \in stored \union {Top} /\ stored \subseteq Folder /\ d # f
  BY TopIsNone DEF Insert, Reachable, FoldersInv, FolderTypes
<1>2. parent \in Parents /\ Acyclic(parent)
  BY IsForest
<1>3. \A g \in Folder : f \in Chain(parent, g) => g = f
  BY <1>1, FreshIsApart
<1>4. parent' \in Parents /\ parent'[f] = d /\ \A g \in Folder \ {f} : parent'[g] = parent[g]
  BY <1>1, <1>2 DEF Insert, Parents
<1>5. /\ Acyclic(parent')
      /\ \A g \in Folder : f \notin Chain(parent, g) => Chain(parent', g) = Chain(parent, g)
      /\ \A g \in Folder : f \in Chain(parent, g) =>
           ChainSize(parent', g) <= ChainSize(parent, d) + (ChainSize(parent, g) - ChainSize(parent, f) + 1)
  <2>1. d # Top => f \notin Chain(parent, d)
    BY <1>1, <1>3
  <2> HIDE DEF d
  <2> QED
    BY <1>1, <1>2, <1>4, <2>1, MovedBranch
<1>6. ASSUME NEW g \in stored PROVE Chain(parent', g) = Chain(parent, g) /\ Depth(g)' = Depth(g)
  BY <1>1, <1>3, <1>5 DEF Depth
<1>7. DecisionHolds(q) /\ stage[q] = "write" /\ what[q] = Top
  BY DEF FoldersInv, DecisionsHold, Insert
<1>8. Depth(f)' <= MaxDepth
  <2>1. Depth(d) + 1 <= MaxDepth
    BY <1>1, <1>7 DEF DecisionHolds
  <2>2. ChainSize(parent', f) <= ChainSize(parent, d) + (ChainSize(parent, f) - ChainSize(parent, f) + 1)
    BY <1>2, <1>5, ChainBasics
  <2>3. /\ ChainSize(parent, d) = Depth(d)
        /\ ChainSize(parent, f) \in Nat /\ ChainSize(parent, d) \in Nat /\ ChainSize(parent', f) \in Nat
    BY <1>1, <1>2, <1>4, IsForest, ChainSizes
  <2>4. Depth(f)' = ChainSize(parent', f)
    BY DEF Depth, ChainSize
  <2> QED
    BY <2>1, <2>2, <2>3, <2>4, FoldersConstants
<1>9. stored' = stored \union {f} /\ unissued' = unissued \ {f} /\ EndsRequest(q)
  BY DEF Insert
<1>10. FolderTypes' /\ LockPhases' /\ SubjectsCovered'
  BY <1>1, <1>4, <1>9, EndsKept DEF FoldersInv, FolderTypes, Parents
<1>11. ParentsExist'
  BY <1>1, <1>4, <1>9 DEF FoldersInv, ParentsExist
<1>12. NoCycles'
  BY <1>1, <1>5, <1>9 DEF NoCycles, Acyclic, IsAncestor
<1>13. DepthBounded'
  BY <1>6, <1>8, <1>9 DEF FoldersInv, DepthBounded
<1>14. DecisionsHold'
  <2> SUFFICES ASSUME NEW r \in Request PROVE DecisionHolds(r)'
    BY DEF DecisionsHold
  <2>1. CASE r = q
    BY <2>1 DEF Insert, EndsRequest, DecisionHolds, FoldersInv, FolderTypes
  <2>2. CASE r # q
    <3>1. stage'[r] = stage[r] /\ what'[r] = what[r] /\ dest'[r] = dest[r] /\ DecisionHolds(r) /\ LockPhase(r)
      BY <2>2 DEF Insert, EndsRequest, FoldersInv, FolderTypes, DecisionsHold, LockPhases
    <3>2. what[r] # f /\ dest[r] # f
      BY <1>1, <3>1 DEF LockPhase
    <3> SUFFICES ASSUME stage[r] = "write", dest[r] \in stored \union {Top}
                 PROVE  /\ what[r] = Top => Depth(dest[r])' + 1 <= MaxDepth
                        /\ what[r] \in stored => ~IsAncestor(what[r], dest[r])' /\ Fits(what[r], dest[r])'
      BY <1>9, <3>1, <3>2 DEF DecisionHolds
    <3>3. Depth(dest[r])' = Depth(dest[r])
      BY <1>6, <3>1, TopIsNone DEF Depth
    <3>4. what[r] = Top => Depth(dest[r]) + 1 <= MaxDepth
      BY <3>1 DEF DecisionHolds
    <3>5. ASSUME what[r] \in stored PROVE ~IsAncestor(what[r], dest[r])' /\ Fits(what[r], dest[r])'
      <4>1. ~IsAncestor(what[r], dest[r]) /\ Fits(what[r], dest[r])
        BY <3>1, <3>5 DEF DecisionHolds
      <4>2. ~IsAncestor(what[r], dest[r])'
        BY <1>6, <3>1, <4>1 DEF IsAncestor
      <4>3. d = Top
        BY <1>1, <1>7, <2>2, <3>5, OneDecides DEF Subjects
      <4>4. Chain(parent', f) = {f}
        BY <1>1, <1>4, <4>3, ChainUnfolds
      <4>5. Subtree(what[r])' \subseteq Subtree(what[r])
        BY <1>6, <1>9, <3>1, <3>2, <4>4 DEF Subtree, IsAncestor
      <4>6. \A g \in Subtree(what[r])' : Depth(g)' = Depth(g)
        BY <1>6, <4>5 DEF Subtree
      <4>7. Depth(what[r])' = Depth(what[r])
        BY <1>6, <3>1, <3>5
      <4>8. Fits(what[r], dest[r])'
        BY <3>1, <3>3, <4>1, <4>5, <4>6, <4>7 DEF Fits
      <4> QED
        BY <4>2, <4>8
    <3> QED
      BY <3>3, <3>4, <3>5
  <2> QED
    BY <2>1, <2>2
<1> QED
  BY <1>10, <1>11, <1>12, <1>13, <1>14 DEF FoldersInv

\* A folder is moved.
LEMMA UpdateKept ==
  ASSUME FoldersInv, NEW q \in Request, Update(q)
  PROVE  FoldersInv'
<1> DEFINE f == what[q]
           d == dest[q]
<1>1. f \in stored /\ d \in stored \union {Top} /\ stored \subseteq Folder /\ stage[q] = "write"
  BY TopIsNone DEF Update, Reachable, FoldersInv, FolderTypes
<1>2. parent \in Parents /\ Acyclic(parent)
  BY IsForest
<1>3. ~IsAncestor(f, d) /\ Fits(f, d)
  BY <1>1 DEF FoldersInv, DecisionsHold, DecisionHolds
<1>4. parent' \in Parents /\ parent'[f] = d /\ \A g \in Folder \ {f} : parent'[g] = parent[g]
  BY <1>1, <1>2 DEF Update, Parents
<1>5. /\ Acyclic(parent')
      /\ \A g \in Folder : f \notin Chain(parent, g) => Chain(parent', g) = Chain(parent, g)
      /\ \A g \in Folder : f \in Chain(parent, g) =>
           ChainSize(parent', g) <= ChainSize(parent, d) + (ChainSize(parent, g) - ChainSize(parent, f) + 1)
  <2>1. d # Top => f \notin Chain(parent, d)
    BY <1>3 DEF IsAncestor
  <2> HIDE DEF d, f
  <2> QED
    BY <1>1, <1>2, <1>4, <2>1, MovedBranch
<1>6. stored' = stored /\ unissued' = unissued /\ EndsRequest(q)
  BY DEF Update
<1>7. FolderTypes' /\ LockPhases' /\ SubjectsCovered'
  BY <1>1, <1>4, <1>6, EndsKept DEF FoldersInv, FolderTypes, Parents
<1>8. ParentsExist'
  BY <1>1, <1>4, <1>6 DEF FoldersInv, ParentsExist
<1>9. NoCycles'
  BY <1>1, <1>5, <1>6 DEF NoCycles, Acyclic, IsAncestor
<1>10. DepthBounded'
  <2> SUFFICES ASSUME NEW g \in stored PROVE Depth(g)' <= MaxDepth
    BY <1>6 DEF DepthBounded
  <2>1. CASE f \notin Chain(parent, g)
    BY <1>1, <1>5, <2>1 DEF FoldersInv, DepthBounded, Depth
  <2>2. CASE f \in Chain(parent, g)
    <3>1. g \in Subtree(f)
      BY <1>1, <2>2, TopIsNone DEF Subtree, IsAncestor
    <3>2. Depth(d) + (Depth(g) - Depth(f) + 1) <= MaxDepth
      BY <1>3, <3>1 DEF Fits
    <3>3. ChainSize(parent', g) <= ChainSize(parent, d) + (ChainSize(parent, g) - ChainSize(parent, f) + 1)
      BY <1>1, <1>5, <2>2
    <3>4. /\ ChainSize(parent, d) = Depth(d) /\ ChainSize(parent, f) = Depth(f) /\ ChainSize(parent, g) = Depth(g)
          /\ Depth(d) \in Nat /\ Depth(f) \in Nat /\ Depth(g) \in Nat
      BY <1>1, IsForest
    <3>5. Depth(g)' = ChainSize(parent', g) /\ ChainSize(parent', g) \in Nat
      BY <1>1, <1>4, ChainSizes DEF Depth, ChainSize
    <3> HIDE DEF d, f
    <3> QED
      BY <3>2, <3>3, <3>4, <3>5, FoldersConstants
  <2> QED
    BY <2>1, <2>2
<1>11. DecisionsHold'
  <2> SUFFICES ASSUME NEW r \in Request PROVE DecisionHolds(r)'
    BY DEF DecisionsHold
  <2>1. CASE r = q
    BY <2>1 DEF Update, EndsRequest, DecisionHolds, FoldersInv, FolderTypes
  <2>2. CASE r # q
    <3>1. stage'[r] = stage[r] /\ what'[r] = what[r] /\ dest'[r] = dest[r] /\ DecisionHolds(r)
      BY <2>2 DEF Update, EndsRequest, FoldersInv, FolderTypes, DecisionsHold
    <3> SUFFICES ASSUME stage[r] = "write", dest[r] \in stored \union {Top}
                 PROVE  (what[r] = Top => Depth(dest[r])' + 1 <= MaxDepth) /\ what[r] \notin stored
      BY <1>6, <3>1 DEF DecisionHolds
    <3>2. Subjects(r) = {}
      BY <1>1, <2>2, OneDecides DEF Subjects
    <3>3. dest[r] = Top /\ what[r] \notin stored
      BY <3>2 DEF Subjects
    <3>4. Depth(dest[r])' = Depth(dest[r])
      BY <3>1, <3>3 DEF Depth
    <3> QED
      BY <3>1, <3>3, <3>4 DEF DecisionHolds
  <2> QED
    BY <2>1, <2>2
<1> QED
  BY <1>7, <1>8, <1>9, <1>10, <1>11 DEF FoldersInv

\* A branch is deleted.
LEMMA DeleteFolderKept ==
  ASSUME FoldersInv, NEW f \in Folder, DeleteFolder(f)
  PROVE  FoldersInv'
<1>1. parent \in Parents /\ Acyclic(parent) /\ f \in stored /\ stored \subseteq Folder
  BY IsForest DEF DeleteFolder, FoldersInv, FolderTypes
<1>2. Subtree(f) = {g \in Folder : f \in Chain(parent, g)}
  <2> SUFFICES ASSUME NEW g \in Folder, f \in Chain(parent, g) PROVE g \in stored
    BY <1>1, TopIsNone DEF Subtree, IsAncestor
  <2>1. CASE g = f
    BY <1>1, <2>1
  <2>2. CASE g # f
    <3>1. parent[g] # Top
      BY <1>1, <2>2, ChainUnfolds
    <3> QED
      BY <3>1 DEF FoldersInv, ParentsExist
  <2> QED
    BY <2>1, <2>2
<1>3. parent' = [g \in Folder |-> IF f \in Chain(parent, g) THEN Top ELSE parent[g]]
  BY <1>2 DEF DeleteFolder
<1>4. stored' = {g \in stored : f \notin Chain(parent, g)} /\ UNCHANGED <<unissued, lock, stage, what, dest, toLock>>
  BY <1>1, <1>2 DEF DeleteFolder
<1>5. /\ parent' \in Parents /\ Acyclic(parent')
      /\ \A g \in Folder : f \notin Chain(parent, g) => Chain(parent', g) = Chain(parent, g)
      /\ \A g \in Folder : f \notin Chain(parent, g) => parent[g] = Top \/ f \notin Chain(parent, parent[g])
  BY <1>1, <1>3, PrunedBranch
<1>6. ASSUME NEW g \in stored' \union {Top} PROVE Depth(g)' = Depth(g) /\ \A h : IsAncestor(h, g)' = IsAncestor(h, g)
  BY <1>1, <1>4, <1>5 DEF Depth, IsAncestor
<1>7. FolderTypes'
  BY <1>4, <1>5 DEF FoldersInv, FolderTypes, Parents
<1>8. LockPhases'
  BY <1>4 DEF FoldersInv, LockPhases, LockPhase, Covers
<1>9. SubjectsCovered'
  <2>1. \A r \in Request : Subjects(r)' \subseteq Subjects(r) /\ Covers(r)' = Covers(r)
    BY <1>4 DEF Subjects, Covers
  <2> QED
    BY <1>4, <2>1 DEF FoldersInv, SubjectsCovered
<1>10. ParentsExist'
  BY <1>3, <1>4, <1>5 DEF FoldersInv, ParentsExist
<1>11. NoCycles'
  BY <1>1, <1>4, <1>5 DEF NoCycles, Acyclic, IsAncestor
<1>12. DepthBounded'
  BY <1>4, <1>6 DEF FoldersInv, DepthBounded
<1>13. DecisionsHold'
  <2> SUFFICES ASSUME NEW r \in Request, stage[r] = "write", dest[r] \in stored' \union {Top}
               PROVE  /\ what[r] = Top => Depth(dest[r])' + 1 <= MaxDepth
                      /\ what[r] \in stored' => ~IsAncestor(what[r], dest[r])' /\ Fits(what[r], dest[r])'
    BY <1>4 DEF DecisionsHold, DecisionHolds
  <2>1. /\ what[r] = Top => Depth(dest[r]) + 1 <= MaxDepth
        /\ what[r] \in stored => ~IsAncestor(what[r], dest[r]) /\ Fits(what[r], dest[r])
    BY <1>4 DEF FoldersInv, DecisionsHold, DecisionHolds
  <2>2. Depth(dest[r])' = Depth(dest[r])
    BY <1>4, <1>6
  <2>3. ASSUME what[r] \in stored' PROVE ~IsAncestor(what[r], dest[r])' /\ Fits(what[r], dest[r])'
    <3>1. ~IsAncestor(what[r], dest[r])'
      BY <1>4, <1>6, <2>1, <2>3
    <3>2. Subtree(what[r])' \subseteq Subtree(what[r]) /\ Subtree(what[r])' \subseteq stored'
      BY <1>4, <1>6 DEF Subtree
    <3>3. \A g \in Subtree(what[r])' : Depth(g)' = Depth(g)
      BY <1>6, <3>2
    <3>4. Depth(what[r])' = Depth(what[r])
      BY <1>4, <1>6, <2>3
    <3>5. Fits(what[r], dest[r])
      BY <1>4, <2>1, <2>3
    <3>6. Fits(what[r], dest[r])'
      BY <1>4, <2>2, <3>2, <3>3, <3>4, <3>5 DEF Fits
    <3> QED
      BY <3>1, <3>6
  <2> QED
    BY <2>1, <2>2, <2>3
<1> QED
  BY <1>7, <1>8, <1>9, <1>10, <1>11, <1>12, <1>13 DEF FoldersInv

\* The tree the requests find.
LEMMA FoldersInvInitially == FoldersInit => FoldersInv
<1> SUFFICES ASSUME FoldersInit PROVE FoldersInv
  OBVIOUS
<1>1. PICK n \in 0..Ids : stored = 1..n /\ unissued = (n + 1)..Ids
  BY DEF FoldersInit
<1>2. stored \subseteq Folder /\ unissued \subseteq Folder \ stored
  BY <1>1, FoldersConstants DEF Folder
<1>3. FolderTypes
  BY <1>2, FoldersConstants DEF FolderTypes, FoldersInit
<1>4. parent \in Parents
  BY DEF FoldersInit, Parents
<1>5. ParentsExist
  BY <1>1, FoldersConstants DEF FoldersInit, ParentsExist, Folder, Top
<1>6. \A f \in Folder : f \notin Chain(parent, parent[f]) \/ parent[f] = Top
  <2> SUFFICES ASSUME NEW f \in Folder, parent[f] # Top PROVE f \notin Chain(parent, parent[f])
    OBVIOUS
  <2> DEFINE S == {g \in Folder : g < f}
  <2>1. parent[f] \in S /\ S \in SUBSET Folder
    BY TopIsNone DEF FoldersInit
  <2>2. Closed(parent, S)
    <3> SUFFICES ASSUME NEW g \in S, parent[g] # Top PROVE parent[g] \in S
      BY DEF Closed
    <3>1. g \in Int /\ f \in Int /\ g < f /\ parent[g] < g /\ parent[g] \in Folder /\ parent[g] \in Int
      BY <1>4, TopIsNone DEF FoldersInit, Parents
    <3> QED
      BY <3>1
  <2>3. Chain(parent, parent[f]) \subseteq S
    BY <1>4, <2>1, <2>2, ChainBasics
  <2>4. f \notin S
    BY TopIsNone
  <2> QED
    BY <2>3, <2>4
<1>7. NoCycles /\ DepthBounded
  BY <1>2, <1>6 DEF NoCycles, IsAncestor, DepthBounded, FoldersInit
<1>8. \A q \in Request : /\ stage[q] = "idle" /\ what[q] = Top /\ dest[q] = Top /\ toLock[q] = {}
                         /\ Covers(q) = {} /\ \A g \in Folder : lock[g] # q
  BY FoldersConstants DEF FoldersInit, Covers
<1>9. Top \notin unissued
  BY <1>2, TopIsNone
<1>10. LockPhases
  BY <1>8, <1>9 DEF LockPhases, LockPhase
<1>11. SubjectsCovered /\ DecisionsHold
  BY <1>8 DEF SubjectsCovered, DecisionsHold, DecisionHolds
<1> QED
  BY <1>3, <1>5, <1>7, <1>10, <1>11 DEF FoldersInv

\* Every step keeps all of it.
LEMMA FoldersInvKept == FoldersInv /\ [FoldersNext]_folderVars => FoldersInv'
<1> SUFFICES ASSUME FoldersInv, [FoldersNext]_folderVars PROVE FoldersInv'
  OBVIOUS
<1>1. CASE UNCHANGED folderVars
  BY <1>1 DEF folderVars, FoldersInv, FolderTypes, ParentsExist, LockPhases, LockPhase, Covers, SubjectsCovered,
     Subjects, DecisionsHold, DecisionHolds, Fits, Subtree, IsAncestor, Depth, NoCycles, DepthBounded
<1>2. ASSUME NEW q \in Request, NEW d \in Folder \union {Top}, CreateFolder(q, d) PROVE FoldersInv'
  BY <1>2, LockWorkspaceFoldersKept DEF CreateFolder
<1>3. ASSUME NEW q \in Request, NEW f \in Folder, NEW d \in Folder \union {Top}, MoveFolder(q, f, d) PROVE FoldersInv'
  BY <1>3, LockWorkspaceFoldersKept DEF MoveFolder
<1>4. ASSUME NEW q \in Request, NEW f \in Folder, LockRow(q, f) PROVE FoldersInv'
  BY <1>4, LockRowKept
<1>5. ASSUME NEW q \in Request, NEW f \in Folder, Insert(q, f) PROVE FoldersInv'
  BY <1>5, InsertKept
<1>6. ASSUME NEW q \in Request, DecideFolder(q) PROVE FoldersInv'
  BY <1>6, DecideFolderKept
<1>7. ASSUME NEW q \in Request, RollbackRequest(q) PROVE FoldersInv'
  BY <1>7, RollbackRequestKept
<1>8. ASSUME NEW q \in Request, Update(q) PROVE FoldersInv'
  BY <1>8, UpdateKept
<1>9. ASSUME NEW f \in Folder, DeleteFolder(f) PROVE FoldersInv'
  BY <1>9, DeleteFolderKept
<1> QED
  BY <1>1, <1>2, <1>3, <1>4, <1>5, <1>6, <1>7, <1>8, <1>9 DEF FoldersNext

\* It holds throughout.
LEMMA FoldersInvAlways == FoldersSpec => []FoldersInv
  BY FoldersInvInitially, FoldersInvKept, PTL DEF FoldersSpec

(* No interleaving of creates, moves and deletes puts a folder inside itself. *)
THEOREM TreeStaysAForest == FoldersSpec => []NoCycles
<1>1. FoldersInv => NoCycles
  BY DEF FoldersInv
<1> QED
  BY <1>1, FoldersInvAlways, PTL

(* No interleaving takes a folder below domain.MaxFolderDepth. *)
THEOREM DepthStaysBounded == FoldersSpec => []DepthBounded
<1>1. FoldersInv => DepthBounded
  BY DEF FoldersInv
<1> QED
  BY <1>1, FoldersInvAlways, PTL

(* LockWorkspaceFolders' ORDER BY id keeps two requests from waiting for each other. *)
THEOREM RequestsNeverDeadlock == FoldersSpec => []RequestsQueue
<1>1. FoldersInv => RequestsQueue
  <2> SUFFICES ASSUME FoldersInv, NEW q \in Request, NEW r \in Request, q # r, NEW f \in Folder, NEW g \in Folder,
                      NextRow(q, f), lock[f] = r, NextRow(r, g), lock[g] = q
               PROVE  FALSE
    BY DEF RequestsQueue
  <2>1. g < f /\ f < g
    BY DEF FoldersInv, LockPhases, LockPhase, NextRow
  <2> QED
    BY <2>1, TopIsNone
<1> QED
  BY <1>1, FoldersInvAlways, PTL

----------------------------------------------------------------------------
(***************************************************************************)
(* Refinement of FolderTree.  The write of a request is its one step: what  *)
(* it decided on under the locks still holds, by DecisionsHold.              *)
(***************************************************************************)

PathOf(d) == IF d = Top THEN {} ELSE Chain(parent, d)

\* The tree counts as its requests do.
LEMMA SameCount == \A S : Tree!Cardinality(S) = Cardinality(S)
  BY DEF Tree!Cardinality, Cardinality, Tree!IsFiniteSet, IsFiniteSet

\* What is above a row is a row.
LEMMA PathIsStored ==
  ASSUME FoldersInv, NEW f \in stored
  PROVE  /\ f \in Folder /\ Path[f] = Chain(parent, f) /\ f \in Path[f]
         /\ \A g \in Path[f] : g \in stored /\ Path[g] = Chain(parent, g)
<1>1. stored \subseteq Folder /\ parent \in Parents
  BY IsForest DEF FoldersInv, FolderTypes
<1>2. Closed(parent, stored)
  BY <1>1 DEF FoldersInv, ParentsExist, Closed
<1>3. Chain(parent, f) \subseteq stored /\ f \in Chain(parent, f)
  BY <1>1, <1>2, ChainBasics
<1> QED
  BY <1>1, <1>3 DEF Path

\* The folders that exist are the rows.
LEMMA PresentIsStored ==
  ASSUME FoldersInv
  PROVE  Tree!Present = stored
<1>1. \A f \in Folder : f \in Path[f] <=> f \in stored
  BY PathIsStored DEF Path
<1> QED
  BY <1>1 DEF Tree!Present, FoldersInv, FolderTypes

\* The top level and every row are places to put a folder.
LEMMA PlaceExists ==
  ASSUME FoldersInv, NEW d \in stored \union {Top}
  PROVE  PathOf(d) \in Tree!Places
<1>1. CASE d = Top
  BY <1>1 DEF PathOf, Tree!Places
<1>2. CASE d # Top
  <2>1. d \in Tree!Present
    BY <1>2, PresentIsStored
  <2>2. PathOf(d) = Path[d]
    BY <1>2, PathIsStored DEF PathOf
  <2> QED
    BY <2>1, <2>2 DEF Tree!Places
<1> QED
  BY <1>1, <1>2

\* The paths of the rows form a forest within its depth.
LEMMA PathsFormATree == FoldersInv => Tree!Init
<1> SUFFICES ASSUME FoldersInv PROVE Tree!Init
  OBVIOUS
<1>1. parent \in Parents /\ Acyclic(parent) /\ stored \subseteq Used
  BY IsForest DEF FoldersInv, FolderTypes, Used
<1>2. Path \in [Folder -> SUBSET Used]
  <2>1. \A f \in Folder : Path[f] \subseteq Used
    BY <1>1, PathIsStored DEF Path
  <2> QED
    BY <2>1 DEF Path
<1>3. ASSUME NEW f \in Folder, NEW g \in Folder, g \in Path[f]
      PROVE  /\ f \in Path[f] /\ Path[g] \subseteq Path[f]
             /\ f \in Path[g] => f = g
             /\ \A h \in Path[f] : g \in Path[h] \/ h \in Path[g]
  <2>1. f \in stored
    BY <1>3 DEF Path
  <2>2. /\ f \in Path[f] /\ Path[f] = Chain(parent, f) /\ Path[g] = Chain(parent, g)
        /\ \A h \in Path[f] : Path[h] = Chain(parent, h)
    BY <1>3, <2>1, PathIsStored
  <2>3. Path[g] \subseteq Path[f]
    BY <1>1, <1>3, <2>2, ChainTransitive
  <2>4. f \in Path[g] => f = g
    BY <1>1, <1>3, <2>2, ChainAntisymmetric
  <2>5. \A h \in Path[f] : g \in Path[h] \/ h \in Path[g]
    BY <1>1, <1>3, <2>2, ChainLinear
  <2> QED
    BY <2>2, <2>3, <2>4, <2>5
<1>4. ASSUME NEW f \in Folder PROVE Cardinality(Path[f]) <= MaxDepth
  <2>1. CASE f \in stored
    BY <2>1, PathIsStored, TopIsNone DEF FoldersInv, DepthBounded, Depth
  <2>2. CASE f \notin stored
    BY <2>2, FS_EmptySet, FoldersConstants DEF Path
  <2> QED
    BY <2>1, <2>2
<1> QED
  BY <1>2, <1>3, <1>4, SameCount DEF Tree!Init, Tree!Forest, Used

\* A folder is created.
LEMMA InsertRefines ==
  ASSUME FoldersInv, NEW q \in Request, NEW f \in Folder, Insert(q, f)
  PROVE  Tree!Next
<1>1. PICK d \in stored \union {Top} : d = dest[q]
  BY DEF Insert, Reachable
<1>2. /\ f \in unissued /\ f \notin stored /\ d # f /\ stored \subseteq Folder
      /\ \A g \in Folder : f \in Chain(parent, g) => g = f
  BY TopIsNone, FreshIsApart DEF Insert, FoldersInv, FolderTypes
<1>3. parent \in Parents /\ Acyclic(parent)
  BY IsForest
<1>4. parent' \in Parents /\ parent'[f] = d /\ \A g \in Folder \ {f} : parent'[g] = parent[g]
  BY <1>1, <1>2, <1>3 DEF Insert, Parents
<1>5. \A g \in Folder : g # f => Chain(parent', g) = Chain(parent, g)
  BY <1>2, <1>3, <1>4, MovedBranch, TopIsNone
<1>6. Chain(parent', f) = {f} \union PathOf(d)
  BY <1>2, <1>4, <1>5, ChainUnfolds DEF PathOf
<1>7. stored' = stored \union {f} /\ unissued' = unissued \ {f}
  BY DEF Insert
<1>8. Path' = [Path EXCEPT ![f] = {f} \union PathOf(d)]
  BY <1>2, <1>5, <1>6, <1>7 DEF Path
<1>9. Used' = Used \union {f} /\ f \in Folder \ Used
  BY <1>2, <1>7 DEF Used
<1>10. Cardinality({f} \union PathOf(d)) <= MaxDepth
  <2>1. DepthBounded'
    BY InsertKept DEF FoldersInv
  <2> QED
    BY <1>6, <1>7, <2>1, TopIsNone DEF DepthBounded, Depth
<1>11. PICK up \in Tree!Places : up = PathOf(d)
  BY PlaceExists
<1>12. Tree!Create(f, up)
  BY <1>8, <1>9, <1>10, <1>11, SameCount DEF Tree!Create
<1> QED
  BY <1>9, <1>12 DEF Tree!Next

\* A branch is moved.
LEMMA UpdateRefines ==
  ASSUME FoldersInv, NEW q \in Request, Update(q)
  PROVE  Tree!Next
<1>1. PICK f \in stored, d \in stored \union {Top} : f = what[q] /\ d = dest[q]
  BY DEF Update, Reachable
<1>2. f \in Folder /\ stored \subseteq Folder /\ parent \in Parents /\ Acyclic(parent)
  BY IsForest DEF FoldersInv, FolderTypes
<1>3. d # Top => f \notin Chain(parent, d)
  BY <1>1 DEF Update, FoldersInv, DecisionsHold, DecisionHolds, IsAncestor
<1>4. parent' \in Parents /\ parent'[f] = d /\ \A g \in Folder \ {f} : parent'[g] = parent[g]
  BY <1>1, <1>2 DEF Update, Parents
<1>5. UNCHANGED <<stored, Used>>
  BY DEF Update, Used
<1>6. ASSUME NEW g \in Folder, f \notin Path[g] PROVE Path'[g] = Path[g]
  <2>1. CASE g \in stored
    <3>1. Chain(parent', g) = Chain(parent, g)
      BY <1>2, <1>3, <1>4, <1>6, <2>1, MovedBranch DEF Path
    <3> QED
      BY <1>5, <3>1 DEF Path
  <2>2. CASE g \notin stored
    BY <1>5, <2>2 DEF Path
  <2> QED
    BY <2>1, <2>2
<1>7. ASSUME NEW g \in Folder, f \in Path[g]
      PROVE  /\ Path'[g] = {h \in Path[g] : f \in Path[h]} \union PathOf(d)
             /\ Cardinality(Path'[g]) <= MaxDepth
  <2>1. g \in stored
    BY <1>7 DEF Path
  <2>2. Path[g] = Chain(parent, g) /\ \A h \in Path[g] : Path[h] = Chain(parent, h)
    BY <2>1, PathIsStored
  <2>3. Chain(parent', g) = BranchPart(parent, f, g) \union PathOf(d)
    BY <1>2, <1>3, <1>4, <1>7, <2>2, MovedPath DEF PathOf
  <2>4. Path'[g] = Chain(parent', g)
    BY <1>5, <2>1 DEF Path
  <2>5. BranchPart(parent, f, g) = {h \in Path[g] : f \in Path[h]}
    BY <2>2 DEF BranchPart
  <2>6. Depth(g)' <= MaxDepth
    BY <1>5, <2>1, UpdateKept DEF FoldersInv, DepthBounded
  <2> QED
    BY <2>3, <2>4, <2>5, <2>6, TopIsNone DEF Depth
<1>8. PICK up \in Tree!Places : up = PathOf(d)
  BY PlaceExists
<1>9. f \notin up /\ f \in Tree!Present
  BY <1>1, <1>3, <1>8, PresentIsStored DEF PathOf
<1>10. \A g \in Folder : f \in Path[g] => Cardinality({h \in Path[g] : f \in Path[h]} \union up) <= MaxDepth
  BY <1>7, <1>8
<1>11. Path' = [g \in Folder |-> IF f \in Path[g] THEN {h \in Path[g] : f \in Path[h]} \union up ELSE Path[g]]
  <2>1. Path' = [g \in Folder |-> Path'[g]]
    BY DEF Path
  <2> QED
    BY <1>6, <1>7, <1>8, <2>1
<1>12. Tree!Move(f, up)
  BY <1>5, <1>9, <1>10, <1>11, SameCount DEF Tree!Move, Tree!Hung
<1> QED
  BY <1>9, <1>12 DEF Tree!Next

\* A branch is deleted.
LEMMA DeleteRefines ==
  ASSUME FoldersInv, NEW f \in Folder, DeleteFolder(f)
  PROVE  Tree!Next
<1>1. f \in stored /\ parent \in Parents /\ Acyclic(parent) /\ stored \subseteq Folder
  BY IsForest DEF DeleteFolder, FoldersInv, FolderTypes
<1>2. Subtree(f) = {g \in stored : f \in Path[g]}
  BY <1>1, PathIsStored, TopIsNone DEF Subtree, IsAncestor
<1>3. /\ stored' = {g \in stored : f \notin Path[g]} /\ UNCHANGED Used
      /\ \A g \in stored' : Chain(parent', g) = Chain(parent, g)
  <2>1. stored' = {g \in stored : f \notin Path[g]} /\ UNCHANGED Used
    BY <1>2 DEF DeleteFolder, Used
  <2>2. Closed(parent, stored')
    <3> SUFFICES ASSUME NEW g \in stored', parent[g] # Top PROVE parent[g] \in stored'
      BY DEF Closed
    <3>1. g \in stored /\ f \notin Chain(parent, g) /\ parent[g] \in stored
      BY <2>1, PathIsStored DEF FoldersInv, ParentsExist, Path
    <3>2. f \notin Chain(parent, parent[g])
      BY <1>1, <3>1, ChainUnfolds
    <3> QED
      BY <2>1, <3>1, <3>2, PathIsStored
  <2>3. parent' \in Parents /\ \A g \in stored' : parent'[g] = parent[g]
    BY <1>1, <1>2, <2>1 DEF DeleteFolder, Parents
  <2>4. stored' \in SUBSET Folder
    BY <1>1, <2>1
  <2> QED
    BY <1>1, <2>1, <2>2, <2>3, <2>4, ChainLocal
<1>4. Path' = [g \in Folder |-> IF f \in Path[g] THEN {} ELSE Path[g]]
  BY <1>1, <1>3 DEF Path
<1>5. f \in Tree!Present
  BY <1>1, PresentIsStored
<1>6. Tree!Delete(f)
  BY <1>3, <1>4 DEF Tree!Delete
<1> QED
  BY <1>5, <1>6 DEF Tree!Next

\* Every step of the requests is a step of the tree.
LEMMA TreeStep == FoldersInv /\ [FoldersNext]_folderVars => [Tree!Next]_Tree!vars
<1> SUFFICES ASSUME FoldersInv, [FoldersNext]_folderVars PROVE [Tree!Next]_Tree!vars
  OBVIOUS
<1>1. CASE UNCHANGED <<stored, unissued, parent>>
  BY <1>1 DEF Tree!vars, Path, Used
<1>2. ASSUME NEW q \in Request, NEW f \in Folder, Insert(q, f) PROVE Tree!Next
  BY <1>2, InsertRefines
<1>3. ASSUME NEW q \in Request, Update(q) PROVE Tree!Next
  BY <1>3, UpdateRefines
<1>4. ASSUME NEW f \in Folder, DeleteFolder(f) PROVE Tree!Next
  BY <1>4, DeleteRefines
<1> QED
  BY <1>1, <1>2, <1>3, <1>4 DEF FoldersNext, folderVars, CreateFolder, MoveFolder, LockWorkspaceFolders, LockRow,
     DecideFolder, RollbackRequest

(* CreateFolder, MoveFolder and DeleteFolder, as transactions that lock what     *)
(* they saw, decide and write later, change the tree as if each ran alone: a     *)
(* create adds a leaf, a move carries a whole branch to a place outside it, and   *)
(* a delete takes a whole branch, never past domain.MaxFolderDepth.               *)
THEOREM TreeChangesAreAtomic == FoldersSpec => ImplementsTree
<1>1. FoldersInit => Tree!Init
  BY FoldersInvInitially, PathsFormATree
<1> QED
  BY <1>1, TreeStep, FoldersInvAlways, PTL DEF FoldersSpec, ImplementsTree, Tree!Spec
==============================================================================
