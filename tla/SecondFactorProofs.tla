------------------------- MODULE SecondFactorProofs -------------------------
(***************************************************************************)
(* The promises of SecondFactor for any number of prompts, codes, requests,  *)
(* enrolments and time steps: one session a prompt, a factor accepted once   *)
(* and only in force, and recovery codes exactly while there is a factor.    *)
(*                                                                           *)
(* The argument is what each lock protects.  A sign-in past the prompt holds *)
(* its row, so the secret it read is still the account's: disabling waits    *)
(* for the prompts, and enrolling is for accounts without a secret.  An      *)
(* accepted step holds the account row, an accepted code its own row, until  *)
(* the commit that records it.  So a sign-in, whatever overlaps it, is one   *)
(* step of the account that SignIn specifies.                                *)
(***************************************************************************)
EXTENDS SecondFactor, TLAPS

Types ==
  /\ clock \in Nat /\ secret \in Nat /\ secrets \in Nat /\ lastStep \in Nat
  /\ secret <= secrets
  /\ issued \subseteq Code /\ codes \subseteq issued /\ spent \subseteq issued
  /\ prompt \in [Prompt -> {"absent", "open", "consumed", "lapsed", "deleted"}]
  /\ sessions \in [Prompt -> Nat]
  /\ accountLock \in Req \union {Unset}
  /\ promptLock \in [Prompt -> Req \union {Unset}]
  /\ codeLock \in [Code -> Req \union {Unset}]
  /\ at \in [Req -> {"idle", "supersede", "insert", "prompt", "factor", "spend", "mint"}]
  /\ job \in [Req -> {Unset, "login", "complete", "confirm", "regenerate", "disable"}]
  /\ token \in [Req -> Prompt \union {NoPrompt}]
  /\ saw \in [Req -> Nat]
  /\ shown \in [Req -> {"none", "step", "code"} \X Nat]
  /\ accepted \subseteq Nat \X Nat

\* r has been let past the lock it begins with.
Working(r) == at[r] \in {"factor", "spend"}
OnAccount(r) == Working(r) /\ job[r] \in {"confirm", "regenerate", "disable"}
Completing(r) == Working(r) /\ job[r] = "complete"
Presented(r) == at[r] = "spend" /\ job[r] \in {"complete", "disable"}

Phases == \A r \in Req :
  /\ at[r] \in {"prompt", "mint"} => job[r] = "complete"
  /\ at[r] = "factor" => job[r] \in {"complete", "disable"}
  /\ at[r] = "spend" => job[r] \in {"complete", "confirm", "regenerate", "disable"}
  /\ at[r] \in {"prompt", "mint"} \/ Completing(r) => token[r] \in Prompt
  /\ Presented(r) => shown[r][1] \in {"step", "code"}

\* Enrolling, regenerating and disabling hold the account row from their first statement.
AccountHeld == \A r \in Req : OnAccount(r) =>
  /\ accountLock = r
  /\ job[r] = "confirm" <=> secret = 0
  /\ saw[r] = secret

\* A sign-in that is past its prompt holds it, and the secret it read is in force.
PromptHeld == \A r \in Req : Completing(r) =>
  /\ promptLock[token[r]] = r
  /\ prompt[token[r]] \in {"open", "lapsed"}
  /\ saw[r] = secret /\ secret # 0

\* One that waits for its prompt will find it gone if the secret changes meanwhile.
PromptRead == \A r \in Req : at[r] = "prompt" =>
  /\ prompt[token[r]] # "absent"
  /\ prompt[token[r]] = "open" => saw[r] \in {0, secret}

\* A step that passed the replay guard stays ahead of it until the commit.
StepHeld == \A r \in Req : Presented(r) /\ shown[r][1] = "step" =>
  accountLock = r /\ lastStep < shown[r][2]

\* A step that was accepted is one the clock has.
StepShown == \A r \in Req : shown[r][1] = "step" => shown[r][2] \in 0..(MaxStep + 1)

\* A code that was matched stays unused and in its set until the commit.
CodeHeld == \A r \in Req : Presented(r) /\ shown[r][1] = "code" =>
  shown[r][2] \in codes /\ codeLock[shown[r][2]] = r

\* What was accepted is behind the replay guard, or no longer an unused code.
AcceptedIsPast == \A k, n \in Nat : <<k, n>> \in accepted =>
  /\ k <= secrets
  /\ k = 0 => n \in issued \ codes
  /\ k # 0 /\ k = secret => n <= lastStep

\* A prompt is spent before its session is minted, and by one request.
Minted ==
  /\ \A p \in Prompt : prompt[p] \in {"absent", "open", "lapsed"} =>
       sessions[p] = 0 /\ \A r \in Req : ~(at[r] = "mint" /\ token[r] = p)
  /\ \A r \in Req : at[r] = "mint" => sessions[token[r]] = 0
  /\ \A r, q \in Req : at[r] = "mint" /\ at[q] = "mint" /\ token[r] = token[q] => r = q
  /\ OneSessionPerPrompt

FactorInv ==
  /\ Types
  /\ Phases
  /\ AccountHeld
  /\ PromptHeld
  /\ PromptRead
  /\ StepHeld
  /\ CodeHeld
  /\ AcceptedIsPast
  /\ Minted
  /\ StepShown
  /\ FactorAndCodes

\* Nobody is enrolled, signing in or holding a lock at first.
LEMMA FactorInvInitially == FactorInit => FactorInv
  BY FactorConstants DEF FactorInit, FactorInv, Types, Phases, AccountHeld, PromptHeld, PromptRead, StepHeld,
     CodeHeld, AcceptedIsPast, Minted, OneSessionPerPrompt, StepShown, FactorAndCodes,
     Working, OnAccount, Completing, Presented, Nothing, NoPrompt, Unset

\* The factor r is about to have accepted is new, in force, and of the kind it showed.
LEMMA FactorIsGood == ASSUME FactorInv, NEW r \in Req, Presented(r)
                      PROVE  \/ /\ shown[r][1] = "step"
                                /\ Factor(r) = <<secret, shown[r][2]>>
                                /\ secret \in Nat \ {0} /\ saw[r] = secret
                                /\ shown[r][2] \in Nat /\ lastStep < shown[r][2]
                                /\ Factor(r) \notin accepted
                             \/ /\ shown[r][1] = "code"
                                /\ Factor(r) = <<0, shown[r][2]>>
                                /\ shown[r][2] \in codes
                                /\ Factor(r) \notin accepted
<1> USE DEF FactorInv
<1>1. shown[r][1] \in {"step", "code"} /\ shown[r][2] \in Nat
      BY DEF Types, Phases, Presented
<1>2. saw[r] = secret /\ secret # 0 /\ secret \in Nat /\ lastStep \in Nat
      BY DEF Types, Presented, AccountHeld, PromptHeld, OnAccount, Completing, Working
<1>3. CASE shown[r][1] = "step"
  <2>1. Factor(r) = <<secret, shown[r][2]>>
        BY <1>2, <1>3 DEF Factor
  <2>2. lastStep < shown[r][2]
        BY <1>3 DEF StepHeld
  <2>3. <<secret, shown[r][2]>> \notin accepted
        BY <1>1, <1>2, <2>2 DEF AcceptedIsPast
  <2> QED
        BY <1>1, <1>2, <1>3, <2>1, <2>2, <2>3
<1>4. CASE shown[r][1] = "code"
  <2>1. Factor(r) = <<0, shown[r][2]>>
        BY <1>4 DEF Factor
  <2>2. shown[r][2] \in codes
        BY <1>4 DEF CodeHeld
  <2>3. <<0, shown[r][2]>> \notin accepted
        BY <1>1, <2>2 DEF AcceptedIsPast
  <2> QED
        BY <1>4, <2>1, <2>2, <2>3
<1> QED
      BY <1>1, <1>3, <1>4

\* Time passing moves only the clock.
LEMMA TickKept ==
  ASSUME FactorInv, Tick
  PROVE  FactorInv'
<1> USE FactorConstants DEF FactorInv, account, factorLocks,
            Working, OnAccount, Completing, Presented, Nothing, NoPrompt
<1>1. Types'
      BY DEF Tick, Phases, Types
<1>2. Phases'
      BY DEF Tick, Types, Phases
<1>3. AccountHeld'
      BY DEF Tick, Types, Phases, AccountHeld
<1>4. PromptHeld'
      BY DEF Tick, Types, Phases, PromptHeld
<1>5. PromptRead'
      BY DEF Tick, Types, Phases, PromptRead
<1>6. StepHeld'
      BY DEF Tick, Types, Phases, StepHeld
<1>7. CodeHeld'
      BY DEF Tick, Types, Phases, CodeHeld
<1>8. AcceptedIsPast'
      BY DEF Tick, Types, Phases, AcceptedIsPast
<1>9. Minted'
      BY DEF Tick, Types, Phases, Minted, OneSessionPerPrompt
<1>10. StepShown'
      BY DEF Tick, Types, Phases, StepShown
<1>11. FactorAndCodes'
      BY DEF Tick, Types, Phases, FactorAndCodes
<1> QED
      BY <1>1, <1>2, <1>3, <1>4, <1>5, <1>6, <1>7, <1>8, <1>9, <1>10, <1>11

\* The purge passes over the prompts a sign-in holds.
LEMMA PurgePendingLoginsKept ==
  ASSUME FactorInv, PurgePendingLogins
  PROVE  FactorInv'
<1> USE FactorConstants DEF FactorInv, account, factorLocks,
            Working, OnAccount, Completing, Presented, Nothing, NoPrompt
<1>1. Types'
      BY DEF PurgePendingLogins, Phases, Types
<1>2. Phases'
      BY DEF PurgePendingLogins, Types, Phases
<1>3. AccountHeld'
      BY DEF PurgePendingLogins, Types, Phases, AccountHeld
<1>4. PromptHeld'
      BY DEF PurgePendingLogins, Types, Phases, PromptHeld
<1>5. PromptRead'
      BY DEF PurgePendingLogins, Types, Phases, PromptRead
<1>6. StepHeld'
      BY DEF PurgePendingLogins, Types, Phases, StepHeld
<1>7. CodeHeld'
      BY DEF PurgePendingLogins, Types, Phases, CodeHeld
<1>8. AcceptedIsPast'
      BY DEF PurgePendingLogins, Types, Phases, AcceptedIsPast
<1>9. Minted'
      BY DEF PurgePendingLogins, Types, Phases, Minted, OneSessionPerPrompt
<1>10. StepShown'
      BY DEF PurgePendingLogins, Types, Phases, StepShown
<1>11. FactorAndCodes'
      BY DEF PurgePendingLogins, Types, Phases, FactorAndCodes
<1> QED
      BY <1>1, <1>2, <1>3, <1>4, <1>5, <1>6, <1>7, <1>8, <1>9, <1>10, <1>11

\* A prompt that lapses under a sign-in that holds it may still be spent.
LEMMA LapseKept ==
  ASSUME FactorInv, NEW p \in Prompt, Lapse(p)
  PROVE  FactorInv'
<1> USE FactorConstants DEF FactorInv, account, factorLocks,
            Working, OnAccount, Completing, Presented, Nothing, NoPrompt
<1>1. Types'
      BY DEF Lapse, Phases, Types
<1>2. Phases'
      BY DEF Lapse, Types, Phases
<1>3. AccountHeld'
      BY DEF Lapse, Types, Phases, AccountHeld
<1>4. PromptHeld'
      BY DEF Lapse, Types, Phases, PromptHeld
<1>5. PromptRead'
      BY DEF Lapse, Types, Phases, PromptRead
<1>6. StepHeld'
      BY DEF Lapse, Types, Phases, StepHeld
<1>7. CodeHeld'
      BY DEF Lapse, Types, Phases, CodeHeld
<1>8. AcceptedIsPast'
      BY DEF Lapse, Types, Phases, AcceptedIsPast
<1>9. Minted'
      BY DEF Lapse, Types, Phases, Minted, OneSessionPerPrompt
<1>10. StepShown'
      BY DEF Lapse, Types, Phases, StepShown
<1>11. FactorAndCodes'
      BY DEF Lapse, Types, Phases, FactorAndCodes
<1> QED
      BY <1>1, <1>2, <1>3, <1>4, <1>5, <1>6, <1>7, <1>8, <1>9, <1>10, <1>11

\* A request that gives up releases what it held and records nothing.
LEMMA RollbackKept ==
  ASSUME FactorInv, NEW r \in Req, RollbackFactor(r)
  PROVE  FactorInv'
<1> USE FactorConstants DEF FactorInv, account, factorLocks,
            Working, OnAccount, Completing, Presented, Nothing, NoPrompt
<1>1. Types'
      BY DEF RollbackFactor, EndsFactor, Reaches, Phases, Types
<1>2. Phases'
      BY DEF RollbackFactor, EndsFactor, Reaches, Types, Phases
<1>3. AccountHeld'
      BY DEF RollbackFactor, EndsFactor, Reaches, Types, Phases, AccountHeld
<1>4. PromptHeld'
      BY DEF RollbackFactor, EndsFactor, Reaches, Types, Phases, PromptHeld
<1>5. PromptRead'
      BY DEF RollbackFactor, EndsFactor, Reaches, Types, Phases, PromptRead
<1>6. StepHeld'
      BY DEF RollbackFactor, EndsFactor, Reaches, Types, Phases, StepHeld
<1>7. CodeHeld'
      BY DEF RollbackFactor, EndsFactor, Reaches, Types, Phases, CodeHeld
<1>8. AcceptedIsPast'
      BY DEF RollbackFactor, EndsFactor, Reaches, Types, Phases, AcceptedIsPast
<1>9. Minted'
      BY DEF RollbackFactor, EndsFactor, Reaches, Types, Phases, Minted, OneSessionPerPrompt
<1>10. StepShown'
      BY DEF RollbackFactor, EndsFactor, Reaches, Types, Phases, StepShown
<1>11. FactorAndCodes'
      BY DEF RollbackFactor, EndsFactor, Reaches, Types, Phases, FactorAndCodes
<1> QED
      BY <1>1, <1>2, <1>3, <1>4, <1>5, <1>6, <1>7, <1>8, <1>9, <1>10, <1>11

\* A sign-in starts holding nothing.
LEMMA LoginKept ==
  ASSUME FactorInv, NEW r \in Req, Login(r)
  PROVE  FactorInv'
<1> USE FactorConstants DEF FactorInv, account, factorLocks,
            Working, OnAccount, Completing, Presented, Nothing, NoPrompt
<1>1. Types'
      BY DEF Login, Starts, Reaches, Phases, Types
<1>2. Phases'
      BY DEF Login, Starts, Reaches, Types, Phases
<1>3. AccountHeld'
      BY DEF Login, Starts, Reaches, Types, Phases, AccountHeld
<1>4. PromptHeld'
      BY DEF Login, Starts, Reaches, Types, Phases, PromptHeld
<1>5. PromptRead'
      BY DEF Login, Starts, Reaches, Types, Phases, PromptRead
<1>6. StepHeld'
      BY DEF Login, Starts, Reaches, Types, Phases, StepHeld
<1>7. CodeHeld'
      BY DEF Login, Starts, Reaches, Types, Phases, CodeHeld
<1>8. AcceptedIsPast'
      BY DEF Login, Starts, Reaches, Types, Phases, AcceptedIsPast
<1>9. Minted'
      BY DEF Login, Starts, Reaches, Types, Phases, Minted, OneSessionPerPrompt
<1>10. StepShown'
      BY DEF Login, Starts, Reaches, Types, Phases, StepShown
<1>11. FactorAndCodes'
      BY DEF Login, Starts, Reaches, Types, Phases, FactorAndCodes
<1> QED
      BY <1>1, <1>2, <1>3, <1>4, <1>5, <1>6, <1>7, <1>8, <1>9, <1>10, <1>11

\* Superseding waits for every prompt, so no sign-in is past its own.
LEMMA SupersedeKept ==
  ASSUME FactorInv, NEW r \in Req, Supersede(r)
  PROVE  FactorInv'
<1> USE FactorConstants DEF FactorInv, account, factorLocks,
            Working, OnAccount, Completing, Presented, Nothing, NoPrompt
<1>1. Types'
      BY DEF Supersede, Reaches, Phases, Types
<1>2. Phases'
      BY DEF Supersede, Reaches, Types, Phases
<1>3. AccountHeld'
      BY DEF Supersede, Reaches, Types, Phases, AccountHeld
<1>4. PromptHeld'
      BY DEF Supersede, Reaches, Types, Phases, PromptHeld
<1>5. PromptRead'
      BY DEF Supersede, Reaches, Types, Phases, PromptRead
<1>6. StepHeld'
      BY DEF Supersede, Reaches, Types, Phases, StepHeld
<1>7. CodeHeld'
      BY DEF Supersede, Reaches, Types, Phases, CodeHeld
<1>8. AcceptedIsPast'
      BY DEF Supersede, Reaches, Types, Phases, AcceptedIsPast
<1>9. Minted'
      BY DEF Supersede, Reaches, Types, Phases, Minted, OneSessionPerPrompt
<1>10. StepShown'
      BY DEF Supersede, Reaches, Types, Phases, StepShown
<1>11. FactorAndCodes'
      BY DEF Supersede, Reaches, Types, Phases, FactorAndCodes
<1> QED
      BY <1>1, <1>2, <1>3, <1>4, <1>5, <1>6, <1>7, <1>8, <1>9, <1>10, <1>11

\* A new prompt has no session, and nobody has presented it yet.
LEMMA CreatePendingKept ==
  ASSUME FactorInv, NEW r \in Req, NEW p \in Prompt, CreatePending(r, p)
  PROVE  FactorInv'
<1> USE FactorConstants DEF FactorInv, account, factorLocks,
            Working, OnAccount, Completing, Presented, Nothing, NoPrompt
<1>1. Types'
      BY DEF CreatePending, EndsFactor, Reaches, Phases, Types
<1>2. Phases'
      BY DEF CreatePending, EndsFactor, Reaches, Types, Phases
<1>3. AccountHeld'
      BY DEF CreatePending, EndsFactor, Reaches, Types, Phases, AccountHeld
<1>4. PromptHeld'
      BY DEF CreatePending, EndsFactor, Reaches, Types, Phases, PromptHeld
<1>5. PromptRead'
      BY DEF CreatePending, EndsFactor, Reaches, Types, Phases, PromptRead
<1>6. StepHeld'
      BY DEF CreatePending, EndsFactor, Reaches, Types, Phases, StepHeld
<1>7. CodeHeld'
      BY DEF CreatePending, EndsFactor, Reaches, Types, Phases, CodeHeld
<1>8. AcceptedIsPast'
      BY DEF CreatePending, EndsFactor, Reaches, Types, Phases, AcceptedIsPast
<1>9. Minted'
      BY DEF CreatePending, EndsFactor, Reaches, Types, Phases, Minted, OneSessionPerPrompt
<1>10. StepShown'
      BY DEF CreatePending, EndsFactor, Reaches, Types, Phases, StepShown
<1>11. FactorAndCodes'
      BY DEF CreatePending, EndsFactor, Reaches, Types, Phases, FactorAndCodes
<1> QED
      BY <1>1, <1>2, <1>3, <1>4, <1>5, <1>6, <1>7, <1>8, <1>9, <1>10, <1>11

\* A request presents a prompt and has read the secret in force.
LEMMA CompleteSecondFactorKept ==
  ASSUME FactorInv, NEW r \in Req, NEW p \in Prompt, CompleteSecondFactor(r, p)
  PROVE  FactorInv'
<1> USE FactorConstants DEF FactorInv, account, factorLocks,
            Working, OnAccount, Completing, Presented, Nothing, NoPrompt
<1>1. Types'
      BY DEF CompleteSecondFactor, Starts, Reaches, Phases, Types
<1>2. Phases'
      BY DEF CompleteSecondFactor, Starts, Reaches, Types, Phases
<1>3. AccountHeld'
      BY DEF CompleteSecondFactor, Starts, Reaches, Types, Phases, AccountHeld
<1>4. PromptHeld'
      BY DEF CompleteSecondFactor, Starts, Reaches, Types, Phases, PromptHeld
<1>5. PromptRead'
      BY DEF CompleteSecondFactor, Starts, Reaches, Types, Phases, PromptRead
<1>6. StepHeld'
      BY DEF CompleteSecondFactor, Starts, Reaches, Types, Phases, StepHeld
<1>7. CodeHeld'
      BY DEF CompleteSecondFactor, Starts, Reaches, Types, Phases, CodeHeld
<1>8. AcceptedIsPast'
      BY DEF CompleteSecondFactor, Starts, Reaches, Types, Phases, AcceptedIsPast
<1>9. Minted'
      BY DEF CompleteSecondFactor, Starts, Reaches, Types, Phases, Minted, OneSessionPerPrompt
<1>10. StepShown'
      BY DEF CompleteSecondFactor, Starts, Reaches, Types, Phases, StepShown
<1>11. FactorAndCodes'
      BY DEF CompleteSecondFactor, Starts, Reaches, Types, Phases, FactorAndCodes
<1> QED
      BY <1>1, <1>2, <1>3, <1>4, <1>5, <1>6, <1>7, <1>8, <1>9, <1>10, <1>11

\* Under the lock the prompt is open, so the secret read with it is in force.
LEMMA LockMFAPendingLoginKept ==
  ASSUME FactorInv, NEW r \in Req, LockMFAPendingLogin(r)
  PROVE  FactorInv'
<1> USE FactorConstants DEF FactorInv, account, factorLocks,
            Working, OnAccount, Completing, Presented, Nothing, NoPrompt
<1>1. Types'
      BY DEF LockMFAPendingLogin, Reaches, Phases, Types
<1>2. Phases'
      BY DEF LockMFAPendingLogin, Reaches, Types, Phases
<1>3. AccountHeld'
      BY DEF LockMFAPendingLogin, Reaches, Types, Phases, AccountHeld
<1>4. PromptHeld'
      BY DEF LockMFAPendingLogin, Reaches, Types, Phases, PromptRead, PromptHeld
<1>5. PromptRead'
      BY DEF LockMFAPendingLogin, Reaches, Types, Phases, PromptRead
<1>6. StepHeld'
      BY DEF LockMFAPendingLogin, Reaches, Types, Phases, StepHeld
<1>7. CodeHeld'
      BY DEF LockMFAPendingLogin, Reaches, Types, Phases, CodeHeld
<1>8. AcceptedIsPast'
      BY DEF LockMFAPendingLogin, Reaches, Types, Phases, AcceptedIsPast
<1>9. Minted'
      BY DEF LockMFAPendingLogin, Reaches, Types, Phases, Minted, OneSessionPerPrompt
<1>10. StepShown'
      BY DEF LockMFAPendingLogin, Reaches, Types, Phases, StepShown
<1>11. FactorAndCodes'
      BY DEF LockMFAPendingLogin, Reaches, Types, Phases, FactorAndCodes
<1> QED
      BY <1>1, <1>2, <1>3, <1>4, <1>5, <1>6, <1>7, <1>8, <1>9, <1>10, <1>11

\* The replay guard is passed under the account row.
LEMMA AcceptMFAStepKept ==
  ASSUME FactorInv, NEW r \in Req, NEW s \in 0..(MaxStep + 1), AcceptMFAStep(r, s)
  PROVE  FactorInv'
<1> USE FactorConstants DEF FactorInv, account, factorLocks,
            Working, OnAccount, Completing, Presented, Nothing, NoPrompt
<1>1. Types'
      BY DEF AcceptMFAStep, Reaches, Phases, Types
<1>2. Phases'
      BY DEF AcceptMFAStep, Reaches, Types, Phases
<1>3. AccountHeld'
      BY DEF AcceptMFAStep, Reaches, Types, Phases, AccountHeld
<1>4. PromptHeld'
      BY DEF AcceptMFAStep, Reaches, Types, Phases, PromptHeld
<1>5. PromptRead'
      BY DEF AcceptMFAStep, Reaches, Types, Phases, PromptRead
<1>6. StepHeld'
      BY DEF AcceptMFAStep, Reaches, Types, Phases, StepHeld
<1>7. CodeHeld'
      BY DEF AcceptMFAStep, Reaches, Types, Phases, CodeHeld
<1>8. AcceptedIsPast'
      BY DEF AcceptMFAStep, Reaches, Types, Phases, AcceptedIsPast
<1>9. Minted'
      BY DEF AcceptMFAStep, Reaches, Types, Phases, Minted, OneSessionPerPrompt
<1>10. StepShown'
      BY DEF AcceptMFAStep, Reaches, Types, Phases, StepShown
<1>11. FactorAndCodes'
      BY DEF AcceptMFAStep, Reaches, Types, Phases, FactorAndCodes
<1> QED
      BY <1>1, <1>2, <1>3, <1>4, <1>5, <1>6, <1>7, <1>8, <1>9, <1>10, <1>11

\* The matched code is unused and held.
LEMMA SpendMFARecoveryCodeKept ==
  ASSUME FactorInv, NEW r \in Req, NEW c \in Code, SpendMFARecoveryCode(r, c)
  PROVE  FactorInv'
<1> USE FactorConstants DEF FactorInv, account, factorLocks,
            Working, OnAccount, Completing, Presented, Nothing, NoPrompt
<1>1. Types'
      BY DEF SpendMFARecoveryCode, Reaches, Phases, Types
<1>2. Phases'
      BY DEF SpendMFARecoveryCode, Reaches, Types, Phases
<1>3. AccountHeld'
      BY DEF SpendMFARecoveryCode, Reaches, Types, Phases, AccountHeld
<1>4. PromptHeld'
      BY DEF SpendMFARecoveryCode, Reaches, Types, Phases, PromptHeld
<1>5. PromptRead'
      BY DEF SpendMFARecoveryCode, Reaches, Types, Phases, PromptRead
<1>6. StepHeld'
      BY DEF SpendMFARecoveryCode, Reaches, Types, Phases, StepHeld
<1>7. CodeHeld'
      BY DEF SpendMFARecoveryCode, Reaches, Types, Phases, CodeHeld
<1>8. AcceptedIsPast'
      BY DEF SpendMFARecoveryCode, Reaches, Types, Phases, AcceptedIsPast
<1>9. Minted'
      BY DEF SpendMFARecoveryCode, Reaches, Types, Phases, Minted, OneSessionPerPrompt
<1>10. StepShown'
      BY DEF SpendMFARecoveryCode, Reaches, Types, Phases, StepShown
<1>11. FactorAndCodes'
      BY DEF SpendMFARecoveryCode, Reaches, Types, Phases, FactorAndCodes
<1> QED
      BY <1>1, <1>2, <1>3, <1>4, <1>5, <1>6, <1>7, <1>8, <1>9, <1>10, <1>11

\* The commit of a sign-in: the factor was good, and the prompt is spent by one request.
LEMMA SpendPromptKept ==
  ASSUME FactorInv, NEW r \in Req, SpendPrompt(r)
  PROVE  FactorInv'
<1> USE FactorConstants DEF FactorInv, account, factorLocks,
            Working, OnAccount, Completing, Presented, Nothing, NoPrompt
<1>a. Presented(r)
      BY DEF SpendPrompt
<1>b. accepted' = accepted \union {Factor(r)}
      BY DEF SpendPrompt
<1>1. Types'
  <2>1. Factor(r) \in Nat \X Nat
        BY <1>a, FactorIsGood DEF Types
  <2>2. shown[r][2] \in Nat /\ (shown[r][1] = "code" => shown[r][2] \in codes)
        BY <1>a, FactorIsGood DEF Types
  <2>3. lastStep' \in Nat /\ codes' \subseteq issued' /\ spent' \subseteq issued'
        BY <2>2 DEF SpendPrompt, Types
  <2>4. accepted' \subseteq Nat \X Nat
        BY <1>b, <2>1 DEF Types
  <2> QED
        BY <2>3, <2>4 DEF SpendPrompt, Reaches, Types
<1>2. Phases'
      BY DEF SpendPrompt, Reaches, Types, Phases
<1>3. AccountHeld'
      BY DEF SpendPrompt, Reaches, Types, Phases, AccountHeld
<1>4. PromptHeld'
      BY DEF SpendPrompt, Reaches, Types, Phases, PromptHeld
<1>5. PromptRead'
      BY DEF SpendPrompt, Reaches, Types, Phases, PromptRead
<1>6. StepHeld'
      BY DEF SpendPrompt, Reaches, Types, Phases, StepHeld
<1>7. CodeHeld'
      BY DEF SpendPrompt, Reaches, Types, Phases, CodeHeld
<1>8. AcceptedIsPast'
      BY <1>a, <1>b, FactorIsGood DEF SpendPrompt, Reaches, Types, Phases, AcceptedIsPast
<1>9. Minted'
      BY DEF SpendPrompt, Reaches, Types, Phases, Minted, OneSessionPerPrompt
<1>10. StepShown'
      BY DEF SpendPrompt, Reaches, Types, Phases, StepShown
<1>11. FactorAndCodes'
      BY <1>a, FactorIsGood DEF SpendPrompt, Reaches, Types, Phases, FactorAndCodes
<1> QED
      BY <1>1, <1>2, <1>3, <1>4, <1>5, <1>6, <1>7, <1>8, <1>9, <1>10, <1>11

\* The only request that spent the prompt mints its session.
LEMMA MintSessionKept ==
  ASSUME FactorInv, NEW r \in Req, MintSession(r)
  PROVE  FactorInv'
<1> USE FactorConstants DEF FactorInv, account, factorLocks,
            Working, OnAccount, Completing, Presented, Nothing, NoPrompt
<1>1. Types'
      BY DEF MintSession, EndsFactor, Reaches, Phases, Types
<1>2. Phases'
      BY DEF MintSession, EndsFactor, Reaches, Types, Phases
<1>3. AccountHeld'
      BY DEF MintSession, EndsFactor, Reaches, Types, Phases, AccountHeld
<1>4. PromptHeld'
      BY DEF MintSession, EndsFactor, Reaches, Types, Phases, PromptHeld
<1>5. PromptRead'
      BY DEF MintSession, EndsFactor, Reaches, Types, Phases, PromptRead
<1>6. StepHeld'
      BY DEF MintSession, EndsFactor, Reaches, Types, Phases, StepHeld
<1>7. CodeHeld'
      BY DEF MintSession, EndsFactor, Reaches, Types, Phases, CodeHeld
<1>8. AcceptedIsPast'
      BY DEF MintSession, EndsFactor, Reaches, Types, Phases, AcceptedIsPast
<1>9. Minted'
      BY DEF MintSession, EndsFactor, Reaches, Types, Phases, Minted, OneSessionPerPrompt
<1>10. StepShown'
      BY DEF MintSession, EndsFactor, Reaches, Types, Phases, StepShown
<1>11. FactorAndCodes'
      BY DEF MintSession, EndsFactor, Reaches, Types, Phases, FactorAndCodes
<1> QED
      BY <1>1, <1>2, <1>3, <1>4, <1>5, <1>6, <1>7, <1>8, <1>9, <1>10, <1>11

\* The account row is taken with the secret it shows.
LEMMA LockUserMFAKept ==
  ASSUME FactorInv, NEW r \in Req, NEW j \in {"confirm", "regenerate", "disable"}, LockUserMFA(r, j)
  PROVE  FactorInv'
<1> USE FactorConstants DEF FactorInv, account, factorLocks,
            Working, OnAccount, Completing, Presented, Nothing, NoPrompt
<1>1. Types'
      BY DEF LockUserMFA, Reaches, Phases, Types
<1>2. Phases'
      BY DEF LockUserMFA, Reaches, Types, Phases
<1>3. AccountHeld'
      BY DEF LockUserMFA, Reaches, Types, Phases, AccountHeld
<1>4. PromptHeld'
      BY DEF LockUserMFA, Reaches, Types, Phases, PromptHeld
<1>5. PromptRead'
      BY DEF LockUserMFA, Reaches, Types, Phases, PromptRead
<1>6. StepHeld'
      BY DEF LockUserMFA, Reaches, Types, Phases, StepHeld
<1>7. CodeHeld'
      BY DEF LockUserMFA, Reaches, Types, Phases, CodeHeld
<1>8. AcceptedIsPast'
      BY DEF LockUserMFA, Reaches, Types, Phases, AcceptedIsPast
<1>9. Minted'
      BY DEF LockUserMFA, Reaches, Types, Phases, Minted, OneSessionPerPrompt
<1>10. StepShown'
      BY DEF LockUserMFA, Reaches, Types, Phases, StepShown
<1>11. FactorAndCodes'
      BY DEF LockUserMFA, Reaches, Types, Phases, FactorAndCodes
<1> QED
      BY <1>1, <1>2, <1>3, <1>4, <1>5, <1>6, <1>7, <1>8, <1>9, <1>10, <1>11

\* Enrolling finds no secret, so no sign-in is past its prompt.
LEMMA ConfirmEnrolmentKept ==
  ASSUME FactorInv, NEW r \in Req, NEW c \in Code, NEW s \in 0..(MaxStep + 1), ConfirmEnrolment(r, c, s)
  PROVE  FactorInv'
<1> USE FactorConstants DEF FactorInv, account, factorLocks,
            Working, OnAccount, Completing, Presented, Nothing, NoPrompt
<1>1. Types'
      BY DEF ConfirmEnrolment, EndsFactor, Reaches, Fresh, Phases, Types
<1>2. Phases'
      BY DEF ConfirmEnrolment, EndsFactor, Reaches, Fresh, Types, Phases
<1>3. AccountHeld'
      BY DEF ConfirmEnrolment, EndsFactor, Reaches, Fresh, Types, Phases, AccountHeld
<1>4. PromptHeld'
      BY DEF ConfirmEnrolment, EndsFactor, Reaches, Fresh, Types, Phases, AccountHeld, PromptHeld
<1>5. PromptRead'
      BY DEF ConfirmEnrolment, EndsFactor, Reaches, Fresh, Types, Phases, AccountHeld, PromptRead
<1>6. StepHeld'
      BY DEF ConfirmEnrolment, EndsFactor, Reaches, Fresh, Types, Phases, AccountHeld, StepHeld
<1>7. CodeHeld'
      BY DEF ConfirmEnrolment, EndsFactor, Reaches, Fresh, Types, Phases, CodeHeld
<1>8. AcceptedIsPast'
      BY DEF ConfirmEnrolment, EndsFactor, Reaches, Fresh, Types, Phases, AcceptedIsPast
<1>9. Minted'
      BY DEF ConfirmEnrolment, EndsFactor, Reaches, Fresh, Types, Phases, Minted, OneSessionPerPrompt
<1>10. StepShown'
      BY DEF ConfirmEnrolment, EndsFactor, Reaches, Fresh, Types, Phases, StepShown
<1>11. FactorAndCodes'
      BY DEF ConfirmEnrolment, EndsFactor, Reaches, Fresh, Types, Phases, FactorAndCodes
<1> QED
      BY <1>1, <1>2, <1>3, <1>4, <1>5, <1>6, <1>7, <1>8, <1>9, <1>10, <1>11

\* A new set replaces codes nobody is spending, for an account that has a factor.
LEMMA RegenerateRecoveryCodesKept ==
  ASSUME FactorInv, NEW r \in Req, NEW c \in Code, RegenerateRecoveryCodes(r, c)
  PROVE  FactorInv'
<1> USE FactorConstants DEF FactorInv, account, factorLocks,
            Working, OnAccount, Completing, Presented, Nothing, NoPrompt
<1>1. Types'
      BY DEF RegenerateRecoveryCodes, EndsFactor, Reaches, Fresh, CodesFree, Phases, Types
<1>2. Phases'
      BY DEF RegenerateRecoveryCodes, EndsFactor, Reaches, Fresh, CodesFree, Types, Phases
<1>3. AccountHeld'
      BY DEF RegenerateRecoveryCodes, EndsFactor, Reaches, Fresh, CodesFree, Types, Phases, AccountHeld
<1>4. PromptHeld'
      BY DEF RegenerateRecoveryCodes, EndsFactor, Reaches, Fresh, CodesFree, Types, Phases, PromptHeld
<1>5. PromptRead'
      BY DEF RegenerateRecoveryCodes, EndsFactor, Reaches, Fresh, CodesFree, Types, Phases, PromptRead
<1>6. StepHeld'
      BY DEF RegenerateRecoveryCodes, EndsFactor, Reaches, Fresh, CodesFree, Types, Phases, StepHeld
<1>7. CodeHeld'
      BY DEF RegenerateRecoveryCodes, EndsFactor, Reaches, Fresh, CodesFree, Types, Phases, CodeHeld
<1>8. AcceptedIsPast'
      BY DEF RegenerateRecoveryCodes, EndsFactor, Reaches, Fresh, CodesFree, Types, Phases, AcceptedIsPast
<1>9. Minted'
      BY DEF RegenerateRecoveryCodes, EndsFactor, Reaches, Fresh, CodesFree, Types, Phases, Minted, OneSessionPerPrompt
<1>10. StepShown'
      BY DEF RegenerateRecoveryCodes, EndsFactor, Reaches, Fresh, CodesFree, Types, Phases, StepShown
<1>11. FactorAndCodes'
      BY DEF RegenerateRecoveryCodes, EndsFactor, Reaches, Fresh, CodesFree, Types, Phases, AccountHeld, FactorAndCodes
<1> QED
      BY <1>1, <1>2, <1>3, <1>4, <1>5, <1>6, <1>7, <1>8, <1>9, <1>10, <1>11

\* Disabling waits for prompts and codes and leaves nothing to be presented.
LEMMA DisableKept ==
  ASSUME FactorInv, NEW r \in Req, Disable(r)
  PROVE  FactorInv'
<1> USE FactorConstants DEF FactorInv, account, factorLocks,
            Working, OnAccount, Completing, Presented, Nothing, NoPrompt
<1>a. Presented(r)
      BY DEF Disable
<1>b. accepted' = accepted \union {Factor(r)}
      BY DEF Disable
<1>1. Types'
      BY <1>a, <1>b, FactorIsGood DEF Disable, EndsFactor, Reaches, CodesFree, Phases, Types
<1>2. Phases'
      BY DEF Disable, EndsFactor, Reaches, CodesFree, Types, Phases
<1>3. AccountHeld'
      BY DEF Disable, EndsFactor, Reaches, CodesFree, Types, Phases, AccountHeld
<1>4. PromptHeld'
      BY DEF Disable, EndsFactor, Reaches, CodesFree, Types, Phases, PromptHeld
<1>5. PromptRead'
      BY DEF Disable, EndsFactor, Reaches, CodesFree, Types, Phases, PromptRead
<1>6. StepHeld'
      BY DEF Disable, EndsFactor, Reaches, CodesFree, Types, Phases, StepHeld
<1>7. CodeHeld'
      BY DEF Disable, EndsFactor, Reaches, CodesFree, Types, Phases, CodeHeld
<1>8. AcceptedIsPast'
  <2>1. secret' = 0 /\ codes' = {} /\ issued' = issued /\ secrets' = secrets
        BY DEF Disable
  <2>2. ASSUME NEW k \in Nat, NEW n \in Nat, <<k, n>> = Factor(r)
        PROVE  k <= secrets /\ (k = 0 => n \in issued)
        BY <1>a, <2>2, FactorIsGood DEF Types
  <2> QED
        BY <1>b, <2>1, <2>2 DEF AcceptedIsPast
<1>9. Minted'
      BY DEF Disable, EndsFactor, Reaches, CodesFree, Types, Phases, Minted, OneSessionPerPrompt
<1>10. StepShown'
      BY DEF Disable, EndsFactor, Reaches, CodesFree, Types, Phases, StepShown
<1>11. FactorAndCodes'
      BY DEF Disable, EndsFactor, Reaches, CodesFree, Types, Phases, FactorAndCodes
<1> QED
      BY <1>1, <1>2, <1>3, <1>4, <1>5, <1>6, <1>7, <1>8, <1>9, <1>10, <1>11

\* Every step keeps the invariant.
LEMMA FactorInvKept == FactorInv /\ [FactorNext]_factorVars => FactorInv'
<1> SUFFICES ASSUME FactorInv, [FactorNext]_factorVars PROVE FactorInv'
    OBVIOUS
<1>1. CASE Tick
      BY <1>1, TickKept
<1>2. CASE PurgePendingLogins
      BY <1>2, PurgePendingLoginsKept
<1>3. ASSUME NEW p \in Prompt, Lapse(p) PROVE FactorInv'
      BY <1>3, LapseKept
<1>4. ASSUME NEW r \in Req, RollbackFactor(r) \/ Login(r) \/ Supersede(r) \/ LockMFAPendingLogin(r)
             \/ SpendPrompt(r) \/ MintSession(r) \/ Disable(r)
      PROVE  FactorInv'
      BY <1>4, RollbackKept, LoginKept, SupersedeKept, LockMFAPendingLoginKept, SpendPromptKept,
         MintSessionKept, DisableKept
<1>5. ASSUME NEW r \in Req, NEW p \in Prompt, CreatePending(r, p) \/ CompleteSecondFactor(r, p)
      PROVE  FactorInv'
      BY <1>5, CreatePendingKept, CompleteSecondFactorKept
<1>6. ASSUME NEW r \in Req, NEW s \in 0..(MaxStep + 1), AcceptMFAStep(r, s) PROVE FactorInv'
      BY <1>6, AcceptMFAStepKept
<1>7. ASSUME NEW r \in Req, NEW c \in Code, SpendMFARecoveryCode(r, c) \/ RegenerateRecoveryCodes(r, c)
      PROVE  FactorInv'
      BY <1>7, SpendMFARecoveryCodeKept, RegenerateRecoveryCodesKept
<1>8. ASSUME NEW r \in Req, NEW j \in {"confirm", "regenerate", "disable"}, LockUserMFA(r, j)
      PROVE  FactorInv'
      BY <1>8, LockUserMFAKept
<1>9. ASSUME NEW r \in Req, NEW c \in Code, NEW s \in 0..(MaxStep + 1), ConfirmEnrolment(r, c, s)
      PROVE  FactorInv'
      BY <1>9, ConfirmEnrolmentKept
<1>10. CASE UNCHANGED factorVars
      BY <1>10 DEF factorVars, FactorInv, Types, Phases, AccountHeld, PromptHeld, PromptRead, StepHeld, CodeHeld,
         AcceptedIsPast, Minted, OneSessionPerPrompt, StepShown, FactorAndCodes, Working,
         OnAccount, Completing, Presented
<1> QED
      BY <1>1, <1>2, <1>3, <1>4, <1>5, <1>6, <1>7, <1>8, <1>9, <1>10 DEF FactorNext

\* The invariant holds in every reachable state.
LEMMA FactorInvAlways == FactorSpec => []FactorInv
  BY FactorInvInitially, FactorInvKept, PTL DEF FactorSpec

(* CompleteSecondFactor: however many requests present one pending sign-in and  *)
(* however they cross with new sign-ins, lapses and purges, it becomes at most  *)
(* one session.                                                                 *)
THEOREM PromptsAreSpentOnce == FactorSpec => []OneSessionPerPrompt
<1>1. FactorInv => OneSessionPerPrompt
      BY DEF FactorInv, Minted
<1> QED
      BY FactorInvAlways, <1>1, PTL

(* ConfirmEnrolment, RegenerateRecoveryCodes and Disable leave recovery codes   *)
(* exactly where there is a second factor, whatever a sign-in spends meanwhile. *)
THEOREM CodesFollowFactor == FactorSpec => []FactorAndCodes
<1>1. FactorInv => FactorAndCodes
      BY DEF FactorInv
<1> QED
      BY FactorInvAlways, <1>1, PTL

----------------------------------------------------------------------------
(***************************************************************************)
(* Refinement of SignIn.  A sign-in takes effect at its commit: what it      *)
(* looked at before is still so, by the invariant.                           *)
(***************************************************************************)

\* What is accepted at a commit is good in the state of the commit.
LEMMA FactorIsPromised ==
  ASSUME FactorInv, NEW r \in Req, Presented(r)
  PROVE  Factor(r) \in Promise!Factors /\ Promise!Good(Factor(r))
<1>1. secret # 0 /\ secret \in Nat /\ lastStep \in Nat
      BY DEF FactorInv, Types, Presented, AccountHeld, PromptHeld, OnAccount, Completing, Working
<1>2. CASE shown[r][1] = "step"
  <2>1. /\ Factor(r) = <<secret, shown[r][2]>> /\ Factor(r) \notin accepted
        /\ shown[r][2] \in Nat /\ lastStep < shown[r][2]
        BY <1>2, FactorIsGood
  <2>2. shown[r][2] \in 0..(MaxStep + 1)
        BY <1>2 DEF FactorInv, StepShown
  <2>3. ASSUME NEW g \in accepted, g[1] = secret PROVE g[2] < shown[r][2]
    <3>1. g = <<secret, g[2]>> /\ g[2] \in Nat
          BY <2>3 DEF FactorInv, Types
    <3>2. g[2] <= lastStep
          BY <1>1, <3>1 DEF FactorInv, AcceptedIsPast
    <3> QED
          BY <1>1, <2>1, <3>1, <3>2
  <2> QED
        BY <1>1, <2>1, <2>2, <2>3 DEF Promise!Factors, Promise!Good
<1>3. CASE shown[r][1] = "code"
  <2>1. Factor(r) = <<0, shown[r][2]>> /\ shown[r][2] \in codes /\ Factor(r) \notin accepted
        BY <1>3, FactorIsGood
  <2>2. shown[r][2] \in Code
        BY <2>1 DEF FactorInv, Types
  <2> QED
        BY <1>1, <2>1, <2>2 DEF Promise!Factors, Promise!Good
<1> QED
      BY <1>2, <1>3, FactorIsGood

\* Nothing is promised of an account nobody enrolled.
LEMMA SignInInitially == FactorInit => Promise!Init
  BY DEF FactorInit, Promise!Init, Earned

\* A request that is not at the minting step earns and loses nothing.
LEMMA EarnedStill ==
  ASSUME FactorInv, NEW r \in Req, at[r] # "mint", at'[r] # "mint",
         \A q \in Req \ {r} : at'[q] = at[q] /\ token'[q] = token[q]
  PROVE  Earned' = Earned
  BY DEF Earned

\* The steps that change nothing a client could tell.
LEMMA QuietStep ==
  ASSUME FactorInv,
         \/ Tick
         \/ \E r \in Req :
              \/ Login(r) \/ LockMFAPendingLogin(r)
              \/ \E p \in Prompt : CompleteSecondFactor(r, p)
              \/ \E s \in 0..(MaxStep + 1) : AcceptMFAStep(r, s)
              \/ \E c \in Code : SpendMFARecoveryCode(r, c)
              \/ \E j \in {"confirm", "regenerate", "disable"} : LockUserMFA(r, j)
  PROVE  UNCHANGED Promise!vars
<1>1. UNCHANGED <<account, prompt, sessions, accepted>>
      BY DEF Tick, Login, Starts, LockMFAPendingLogin, CompleteSecondFactor, AcceptMFAStep, SpendMFARecoveryCode,
         LockUserMFA
<1>2. Earned' = Earned
  <2>1. CASE Tick
        BY <2>1 DEF Tick, Earned
  <2>2. ASSUME NEW r \in Req,
               \/ Login(r) \/ LockMFAPendingLogin(r)
               \/ \E p \in Prompt : CompleteSecondFactor(r, p)
               \/ \E s \in 0..(MaxStep + 1) : AcceptMFAStep(r, s)
               \/ \E c \in Code : SpendMFARecoveryCode(r, c)
               \/ \E j \in {"confirm", "regenerate", "disable"} : LockUserMFA(r, j)
        PROVE  Earned' = Earned
    <3>1. at[r] # "mint" /\ at'[r] # "mint" /\ \A q \in Req \ {r} : at'[q] = at[q] /\ token'[q] = token[q]
          BY <2>2 DEF FactorInv, Types, Login, Starts, Reaches, LockMFAPendingLogin, CompleteSecondFactor,
             AcceptMFAStep, SpendMFARecoveryCode, LockUserMFA
    <3> QED
          BY <3>1, EarnedStill
  <2> QED
        BY <2>1, <2>2
<1> QED
      BY <1>1, <1>2 DEF account, Promise!vars

\* A prompt is opened, lapses, or is withdrawn.
LEMMA PromptStep ==
  ASSUME FactorInv,
         \/ PurgePendingLogins
         \/ \E p \in Prompt : Lapse(p)
         \/ \E r \in Req : Supersede(r) \/ \E p \in Prompt : CreatePending(r, p)
  PROVE  Promise!Next
<1>1. UNCHANGED <<account, sessions, accepted>>
      BY DEF PurgePendingLogins, Lapse, Supersede, CreatePending
<1>2. Earned' = Earned
  <2>1. CASE PurgePendingLogins \/ \E p \in Prompt : Lapse(p)
        BY <2>1 DEF PurgePendingLogins, Lapse, Earned
  <2>2. ASSUME NEW r \in Req, Supersede(r) \/ \E p \in Prompt : CreatePending(r, p) PROVE Earned' = Earned
    <3>1. at[r] # "mint" /\ at'[r] # "mint" /\ \A q \in Req \ {r} : at'[q] = at[q] /\ token'[q] = token[q]
          BY <2>2 DEF FactorInv, Types, Supersede, CreatePending, EndsFactor, Reaches
    <3> QED
          BY <3>1, EarnedStill
  <2> QED
        BY <2>1, <2>2
<1>3. UNCHANGED <<secret, secrets, codes, issued, accepted, Earned, sessions>>
      BY <1>1, <1>2 DEF account
<1>4. ASSUME NEW S \in SUBSET Prompt, \A p \in S : prompt[p] # "absent",
             prompt' = [p \in Prompt |-> IF p \in S THEN "deleted" ELSE prompt[p]]
      PROVE  Promise!Next
  <2>1. Promise!Withdraw(S)
        BY <1>3, <1>4 DEF Promise!Withdraw
  <2> QED
        BY <2>1 DEF Promise!Next
<1>5. CASE PurgePendingLogins
  <2> DEFINE S == {p \in Prompt : prompt[p] \in {"consumed", "lapsed"} /\ promptLock[p] = Unset}
  <2>1. prompt' = [p \in Prompt |-> IF p \in S THEN "deleted" ELSE prompt[p]] /\ \A p \in S : prompt[p] # "absent"
        BY <1>5 DEF PurgePendingLogins
  <2> QED
        BY <1>4, <2>1
<1>6. ASSUME NEW p \in Prompt, Lapse(p) PROVE Promise!Next
  <2>1. Promise!Lapse(p)
        BY <1>3, <1>6 DEF Lapse, Promise!Lapse
  <2> QED
        BY <2>1 DEF Promise!Next
<1>7. ASSUME NEW r \in Req, Supersede(r) PROVE Promise!Next
  <2> DEFINE S == {p \in Prompt : prompt[p] # "absent"}
  <2>1. prompt' = [p \in Prompt |-> IF p \in S THEN "deleted" ELSE prompt[p]]
        BY <1>7 DEF Supersede, FactorInv, Types
  <2>2. S \in SUBSET Prompt /\ \A p \in S : prompt[p] # "absent"
        OBVIOUS
  <2> HIDE DEF S
  <2> QED
        BY <1>4, <2>1, <2>2
<1>8. ASSUME NEW r \in Req, NEW p \in Prompt, CreatePending(r, p) PROVE Promise!Next
  <2>1. Promise!Open(p)
        BY <1>3, <1>8 DEF CreatePending, Promise!Open
  <2> QED
        BY <2>1 DEF Promise!Next
<1> QED
      BY <1>5, <1>6, <1>7, <1>8

\* The commit of a sign-in is the promised one.
LEMMA SpendPromptStep ==
  ASSUME FactorInv, NEW r \in Req, SpendPrompt(r)
  PROVE  Promise!Next
<1> DEFINE p == token[r]
<1>1. Presented(r) /\ Completing(r)
      BY DEF SpendPrompt, Presented, Completing, Working
<1>2. p \in Prompt
      BY <1>1 DEF FactorInv, Phases
<1>3. Factor(r) \in Promise!Factors /\ Promise!Good(Factor(r))
      BY <1>1, FactorIsPromised
<1>4. Earned' = Earned \union {p}
  <2>1. at[r] # "mint" /\ at'[r] = "mint" /\ token' = token /\ \A q \in Req \ {r} : at'[q] = at[q]
        BY DEF SpendPrompt, Reaches, FactorInv, Types
  <2> QED
        BY <1>2, <2>1 DEF Earned
<1>5. codes' = {c \in codes : Factor(r) # <<0, c>>}
  <2>1. CASE shown[r][1] = "step"
    <3>1. Factor(r) = <<secret, shown[r][2]>> /\ secret # 0
          BY <1>1, <2>1, FactorIsGood
    <3> QED
          BY <2>1, <3>1 DEF SpendPrompt
  <2>2. CASE shown[r][1] = "code"
    <3>1. Factor(r) = <<0, shown[r][2]>>
          BY <1>1, <2>2, FactorIsGood
    <3> QED
          BY <2>2, <3>1 DEF SpendPrompt
  <2> QED
        BY <1>1, <2>1, <2>2, FactorIsGood
<1>6. PICK q \in Prompt, f \in Promise!Factors : q = p /\ f = Factor(r)
      BY <1>2, <1>3
<1>7. Promise!Complete(q, f)
      BY <1>3, <1>4, <1>5, <1>6 DEF SpendPrompt, Promise!Complete
<1> QED
      BY <1>7 DEF Promise!Next

\* A request that ends at the minting step leaves nothing more to earn at its prompt.
LEMMA EarnedEnds ==
  ASSUME FactorInv, NEW r \in Req, at[r] = "mint", EndsFactor(r)
  PROVE  token[r] \in Earned /\ Earned' = Earned \ {token[r]}
<1>1. token[r] \in Prompt
      BY DEF FactorInv, Phases
<1>2. at'[r] = "idle" /\ \A q \in Req \ {r} : at'[q] = at[q] /\ token'[q] = token[q]
      BY DEF EndsFactor, Reaches, FactorInv, Types
<1>3. \A q \in Req \ {r} : at[q] = "mint" => token[q] # token[r]
      BY DEF FactorInv, Minted
<1> QED
      BY <1>1, <1>2, <1>3 DEF Earned

\* A session is minted for a prompt that earned it, or the request ends without.
LEMMA EndStep ==
  ASSUME FactorInv, NEW r \in Req, MintSession(r) \/ RollbackFactor(r)
  PROVE  Promise!Next
<1>1. UNCHANGED <<secret, secrets, codes, issued, prompt, accepted>> /\ EndsFactor(r)
      BY DEF MintSession, RollbackFactor, account
<1>2. CASE MintSession(r)
  <2>1. token[r] \in Earned /\ Earned' = Earned \ {token[r]}
        BY <1>1, <1>2, EarnedEnds DEF MintSession
  <2>2. PICK p \in Earned : p = token[r]
        BY <2>1
  <2>3. Promise!Mint(p)
        BY <1>1, <1>2, <2>1, <2>2 DEF MintSession, Promise!Mint
  <2> QED
        BY <2>3 DEF Promise!Next
<1>3. CASE RollbackFactor(r) /\ at[r] = "mint"
  <2>1. token[r] \in Earned /\ Earned' = Earned \ {token[r]}
        BY <1>1, <1>3, EarnedEnds
  <2>2. PICK p \in Earned : p = token[r]
        BY <2>1
  <2>3. Promise!Forfeit(p)
        BY <1>1, <1>3, <2>1, <2>2 DEF RollbackFactor, Promise!Forfeit
  <2> QED
        BY <2>3 DEF Promise!Next
<1>4. CASE RollbackFactor(r) /\ at[r] # "mint"
  <2>1. at'[r] # "mint" /\ \A q \in Req \ {r} : at'[q] = at[q] /\ token'[q] = token[q]
        BY <1>1 DEF EndsFactor, Reaches, FactorInv, Types
  <2>2. Earned' = Earned /\ sessions' = sessions
        BY <1>4, <2>1, EarnedStill DEF RollbackFactor
  <2>3. UNCHANGED Promise!vars
        BY <1>1, <2>2 DEF Promise!vars
  <2> QED
        BY <2>3 DEF Promise!Next
<1> QED
      BY <1>2, <1>3, <1>4

\* Enrolling, a new set of codes, and disabling.
LEMMA AccountStep ==
  ASSUME FactorInv, NEW r \in Req,
         \/ \E c \in Code, s \in 0..(MaxStep + 1) : ConfirmEnrolment(r, c, s)
         \/ \E c \in Code : RegenerateRecoveryCodes(r, c)
         \/ Disable(r)
  PROVE  Promise!Next
<1>1. EndsFactor(r) /\ at[r] = "spend" /\ sessions' = sessions
      BY DEF ConfirmEnrolment, RegenerateRecoveryCodes, Disable
<1>2. Earned' = Earned
  <2>1. at[r] # "mint" /\ at'[r] # "mint" /\ \A q \in Req \ {r} : at'[q] = at[q] /\ token'[q] = token[q]
        BY <1>1 DEF EndsFactor, Reaches, FactorInv, Types
  <2> QED
        BY <2>1, EarnedStill
<1>3. ASSUME NEW c \in Code, NEW s \in 0..(MaxStep + 1), ConfirmEnrolment(r, c, s) PROVE Promise!Next
  <2>1. secret = 0
        BY <1>3 DEF ConfirmEnrolment, FactorInv, AccountHeld, OnAccount, Working
  <2>2. codes = {} /\ c \in Code \ issued
        BY <1>3, <2>1 DEF ConfirmEnrolment, FactorInv, FactorAndCodes, Fresh
  <2>3. Promise!Enrol(c, s)
        BY <1>1, <1>2, <1>3, <2>1, <2>2 DEF ConfirmEnrolment, Promise!Enrol
  <2> QED
        BY <2>2, <2>3 DEF Promise!Next
<1>4. ASSUME NEW c \in Code, RegenerateRecoveryCodes(r, c) PROVE Promise!Next
  <2>1. secret # 0
        BY <1>4 DEF RegenerateRecoveryCodes, FactorInv, AccountHeld, OnAccount, Working
  <2>2. c \in Code \ issued
        BY <1>4 DEF RegenerateRecoveryCodes, Fresh
  <2>3. Promise!Regenerate(c)
        BY <1>1, <1>2, <1>4, <2>1 DEF RegenerateRecoveryCodes, Promise!Regenerate
  <2> QED
        BY <2>2, <2>3 DEF Promise!Next
<1>5. CASE Disable(r)
  <2>1. Factor(r) \in Promise!Factors /\ Promise!Good(Factor(r))
        BY <1>5, FactorIsPromised DEF Disable, Presented
  <2>2. Promise!Disable(Factor(r))
        BY <1>1, <1>2, <1>5, <2>1 DEF Disable, Promise!Disable
  <2> QED
        BY <2>1, <2>2 DEF Promise!Next
<1> QED
      BY <1>3, <1>4, <1>5

\* Every step of the requests is a step of the promise.
LEMMA SignInStep == FactorInv /\ [FactorNext]_factorVars => [Promise!Next]_Promise!vars
<1> SUFFICES ASSUME FactorInv, [FactorNext]_factorVars PROVE [Promise!Next]_Promise!vars
    OBVIOUS
<1>1. CASE UNCHANGED factorVars
      BY <1>1 DEF factorVars, Promise!vars, Earned
<1>2. CASE FactorNext
      BY <1>2, QuietStep, PromptStep, SpendPromptStep, EndStep, AccountStep DEF FactorNext
<1> QED
      BY <1>1, <1>2

(* CompleteSecondFactor, ConfirmEnrolment, RegenerateRecoveryCodes and Disable,  *)
(* as transactions that cross, lapse, are purged and die at any step, do what    *)
(* they would do one at a time: each acceptance of a factor is of one that is     *)
(* new, in order and in force at the commit, and is worth one session.            *)
THEOREM SignInsAreAtomic == FactorSpec => ImplementsSignIn
  BY SignInInitially, SignInStep, FactorInvAlways, PTL DEF FactorSpec, ImplementsSignIn, Promise!Spec
=============================================================================
