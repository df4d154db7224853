---------------------------- MODULE SecondFactor ----------------------------
(***************************************************************************)
(* The second factor of one account: enrolling, signing in through the      *)
(* prompt, spending recovery codes, issuing a new set and disabling.         *)
(*                                                                          *)
(* Every operation is a READ COMMITTED transaction or a single statement.   *)
(* Completing a sign-in locks the prompt and only later touches the account *)
(* row; enrolling, regenerating and disabling lock the account row first    *)
(* and the prompts and codes last.  Transactions that wait for one another  *)
(* in a circle are ended by the database, and a write becomes visible at    *)
(* the commit, its row staying locked until then.                           *)
(*                                                                          *)
(* A one-time code is known by the secret and the time step it was computed *)
(* from.  A set of recovery codes has one code here.                        *)
(***************************************************************************)
EXTENDS Integers

CONSTANTS Prompt,      \* pending sign-ins, each a row with a token of its own
          Code,        \* recovery codes, numbered in the order they are issued
          Req,         \* requests that can be open at once
          MaxStep,     \* bound on the clock, in time steps of a one-time code
          MaxSecrets   \* bound on enrolments

Unset == "none"

ASSUME FactorConstants == Unset \notin Req /\ Code \subseteq Nat /\ MaxStep \in Nat

VARIABLES
  clock,        \* the current time step
  secret,       \* which enrolment's secret users.mfa_secret holds, 0 for NULL
  secrets,      \* enrolments so far
  lastStep,     \* users.mfa_last_step
  codes,        \* recovery codes stored and not used
  spent,        \* recovery codes stored and used
  issued,       \* recovery codes ever issued
  prompt,       \* each pending sign-in: absent, open, consumed, lapsed or deleted
  sessions,     \* how many sessions each pending sign-in has become
  accountLock,  \* the request holding the account's row
  promptLock,   \* the request holding each pending sign-in's row
  codeLock,     \* the request holding each recovery code's row
  at,           \* how far each request is
  job,          \* what it does
  token,        \* the pending sign-in it presents
  saw,          \* the secret it read with the pending sign-in, or under the account's lock
  shown,        \* what it presented and had accepted: <<"step", s>> or <<"code", c>>
  accepted      \* factors accepted by committed transactions

factorVars == <<clock, secret, secrets, lastStep, codes, spent, issued, prompt, sessions,
          accountLock, promptLock, codeLock, at, job, token, saw, shown, accepted>>
account == <<secret, secrets, lastStep, codes, spent, issued>>
factorLocks == <<accountLock, promptLock, codeLock>>

Nothing == <<"none", 0>>
NoPrompt == Unset

FactorInit ==
  /\ clock = 1
  /\ secret = 0 /\ secrets = 0 /\ lastStep = 0
  /\ codes = {} /\ spent = {} /\ issued = {}
  /\ prompt = [p \in Prompt |-> "absent"]
  /\ sessions = [p \in Prompt |-> 0]
  /\ accountLock = Unset
  /\ promptLock = [p \in Prompt |-> Unset]
  /\ codeLock = [c \in Code |-> Unset]
  /\ at = [r \in Req |-> "idle"]
  /\ job = [r \in Req |-> Unset]
  /\ token = [r \in Req |-> NoPrompt]
  /\ saw = [r \in Req |-> 0]
  /\ shown = [r \in Req |-> Nothing]
  /\ accepted = {}

Tick ==
  /\ clock < MaxStep
  /\ clock' = clock + 1
  /\ UNCHANGED <<prompt, sessions, at, job, token, saw, shown>>
  /\ UNCHANGED account /\ UNCHANGED factorLocks /\ UNCHANGED accepted

Reaches(r, where) == at' = [at EXCEPT ![r] = where]

EndsFactor(r) ==
  /\ Reaches(r, "idle")
  /\ job' = [job EXCEPT ![r] = Unset]
  /\ token' = [token EXCEPT ![r] = NoPrompt]
  /\ saw' = [saw EXCEPT ![r] = 0]
  /\ shown' = [shown EXCEPT ![r] = Nothing]
  /\ accountLock' = IF accountLock = r THEN Unset ELSE accountLock
  /\ promptLock' = [p \in Prompt |-> IF promptLock[p] = r THEN Unset ELSE promptLock[p]]
  /\ codeLock' = [c \in Code |-> IF codeLock[c] = r THEN Unset ELSE codeLock[c]]

(* A refusal, a deadlock's victim, a cancelled request, or a process that dies before it mints. *)
RollbackFactor(r) ==
  /\ at[r] # "idle"
  /\ EndsFactor(r)
  /\ UNCHANGED <<clock, prompt, sessions>>
  /\ UNCHANGED account /\ UNCHANGED accepted

Starts(r, j, p, where, s) ==
  /\ at[r] = "idle"
  /\ Reaches(r, where)
  /\ job' = [job EXCEPT ![r] = j]
  /\ token' = [token EXCEPT ![r] = p]
  /\ saw' = [saw EXCEPT ![r] = s]
  /\ UNCHANGED <<clock, prompt, sessions, shown>>
  /\ UNCHANGED account /\ UNCHANGED factorLocks /\ UNCHANGED accepted

(* The password was right and the account has a second factor: the account row was read once. *)
Login(r) == secret # 0 /\ Starts(r, "login", NoPrompt, "supersede", secret)

(* DeleteMFAPendingLoginsFor, a statement of its own that waits for prompts being completed. *)
Supersede(r) ==
  /\ at[r] = "supersede"
  /\ \A p \in Prompt : promptLock[p] = Unset
  /\ prompt' = [p \in Prompt |-> IF prompt[p] = "absent" THEN "absent" ELSE "deleted"]
  /\ Reaches(r, "insert")
  /\ UNCHANGED <<clock, sessions, job, token, saw, shown>>
  /\ UNCHANGED account /\ UNCHANGED factorLocks /\ UNCHANGED accepted

(* CreateMFAPendingLogin; its foreign key waits for the account row. *)
CreatePending(r, p) ==
  /\ at[r] = "insert"
  /\ accountLock = Unset
  /\ prompt[p] = "absent"
  /\ prompt' = [prompt EXCEPT ![p] = "open"]
  /\ EndsFactor(r)
  /\ UNCHANGED <<clock, sessions>>
  /\ UNCHANGED account /\ UNCHANGED accepted

(* A prompt's lifetime runs out: its row stays, and is refused from here on. *)
Lapse(p) ==
  /\ prompt[p] = "open"
  /\ prompt' = [prompt EXCEPT ![p] = "lapsed"]
  /\ UNCHANGED <<clock, sessions, at, job, token, saw, shown>>
  /\ UNCHANGED account /\ UNCHANGED factorLocks /\ UNCHANGED accepted

PurgePendingLogins ==
  /\ \E p \in Prompt : prompt[p] \in {"consumed", "lapsed"} /\ promptLock[p] = Unset
  /\ prompt' = [p \in Prompt |-> IF prompt[p] \in {"consumed", "lapsed"} /\ promptLock[p] = Unset
                                   THEN "deleted" ELSE prompt[p]]
  /\ UNCHANGED <<clock, sessions, at, job, token, saw, shown>>
  /\ UNCHANGED account /\ UNCHANGED factorLocks /\ UNCHANGED accepted

(***************************************************************************)
(* CompleteSecondFactor.  LockMFAPendingLogin reads the account's columns   *)
(* in its snapshot and locks the prompt alone, waiting for it if need be.    *)
(***************************************************************************)
CompleteSecondFactor(r, p) ==
  /\ prompt[p] \notin {"absent", "deleted"}
  /\ Starts(r, "complete", p, "prompt", secret)

LockMFAPendingLogin(r) ==
  /\ at[r] = "prompt"
  /\ promptLock[token[r]] = Unset
  /\ prompt[token[r]] = "open"
  /\ saw[r] # 0
  /\ promptLock' = [promptLock EXCEPT ![token[r]] = r]
  /\ Reaches(r, "factor")
  /\ UNCHANGED <<clock, prompt, sessions, accountLock, codeLock, job, token, saw, shown>>
  /\ UNCHANGED account /\ UNCHANGED accepted

(* Mutant: the replay guard lets the step it last accepted through. *)
AcceptMFAStepAgain(r, s) ==
  /\ at[r] = "factor"
  /\ accountLock \in {Unset, r}
  /\ s \in (clock - 1)..(clock + 1)
  /\ secret # 0
  /\ lastStep <= s
  /\ accountLock' = r
  /\ shown' = [shown EXCEPT ![r] = <<"step", s>>]
  /\ Reaches(r, "spend")
  /\ UNCHANGED <<clock, prompt, sessions, promptLock, codeLock, job, token, saw>>
  /\ UNCHANGED account /\ UNCHANGED accepted

(* AcceptMFAStep: the replay guard, a write that affects no row for a step already passed. *)
AcceptMFAStep(r, s) ==
  /\ at[r] = "factor"
  /\ accountLock \in {Unset, r}
  /\ s \in (clock - 1)..(clock + 1)
  /\ secret # 0
  /\ lastStep < s
  /\ accountLock' = r
  /\ shown' = [shown EXCEPT ![r] = <<"step", s>>]
  /\ Reaches(r, "spend")
  /\ UNCHANGED <<clock, prompt, sessions, promptLock, codeLock, job, token, saw>>
  /\ UNCHANGED account /\ UNCHANGED accepted

(* SpendMFARecoveryCode: the code is matched and marked by one statement. *)
SpendMFARecoveryCode(r, c) ==
  /\ at[r] = "factor"
  /\ c \in codes
  /\ codeLock[c] = Unset
  /\ codeLock' = [codeLock EXCEPT ![c] = r]
  /\ shown' = [shown EXCEPT ![r] = <<"code", c>>]
  /\ Reaches(r, "spend")
  /\ UNCHANGED <<clock, prompt, sessions, accountLock, promptLock, job, token, saw>>
  /\ UNCHANGED account /\ UNCHANGED accepted

Factor(r) == IF shown[r][1] = "step" THEN <<saw[r], shown[r][2]>> ELSE <<0, shown[r][2]>>

(* Mutant: the factor is spent and the prompt is not. *)
SpendPromptLeft(r) ==
  /\ at[r] = "spend"
  /\ job[r] = "complete"
  /\ lastStep' = IF shown[r][1] = "step" THEN shown[r][2] ELSE lastStep
  /\ codes' = IF shown[r][1] = "code" THEN codes \ {shown[r][2]} ELSE codes
  /\ spent' = IF shown[r][1] = "code" THEN spent \union {shown[r][2]} ELSE spent
  /\ accepted' = accepted \union {Factor(r)}
  /\ Reaches(r, "mint")
  /\ accountLock' = IF accountLock = r THEN Unset ELSE accountLock
  /\ promptLock' = [promptLock EXCEPT ![token[r]] = Unset]
  /\ codeLock' = [c \in Code |-> IF codeLock[c] = r THEN Unset ELSE codeLock[c]]
  /\ UNCHANGED <<clock, secret, secrets, issued, prompt, sessions, job, token, saw, shown>>

(* ConsumeMFAPendingLogin and the commit. *)
SpendPrompt(r) ==
  /\ at[r] = "spend"
  /\ job[r] = "complete"
  /\ prompt[token[r]] \in {"open", "lapsed"}
  /\ prompt' = [prompt EXCEPT ![token[r]] = "consumed"]
  /\ lastStep' = IF shown[r][1] = "step" THEN shown[r][2] ELSE lastStep
  /\ codes' = IF shown[r][1] = "code" THEN codes \ {shown[r][2]} ELSE codes
  /\ spent' = IF shown[r][1] = "code" THEN spent \union {shown[r][2]} ELSE spent
  /\ accepted' = accepted \union {Factor(r)}
  /\ Reaches(r, "mint")
  /\ accountLock' = IF accountLock = r THEN Unset ELSE accountLock
  /\ promptLock' = [promptLock EXCEPT ![token[r]] = Unset]
  /\ codeLock' = [c \in Code |-> IF codeLock[c] = r THEN Unset ELSE codeLock[c]]
  /\ UNCHANGED <<clock, secret, secrets, issued, sessions, job, token, saw, shown>>

MintSession(r) ==
  /\ at[r] = "mint"
  /\ sessions' = [sessions EXCEPT ![token[r]] = @ + 1]
  /\ EndsFactor(r)
  /\ UNCHANGED <<clock, prompt>>
  /\ UNCHANGED account /\ UNCHANGED accepted

(***************************************************************************)
(* ConfirmEnrolment, RegenerateRecoveryCodes and Disable all begin with      *)
(* LockUserMFA; while one waits for the account row it holds nothing.         *)
(***************************************************************************)
LockUserMFA(r, j) ==
  /\ at[r] = "idle"
  /\ accountLock = Unset
  /\ (j = "confirm") <=> (secret = 0)
  /\ accountLock' = r
  /\ job' = [job EXCEPT ![r] = j]
  /\ saw' = [saw EXCEPT ![r] = secret]
  /\ Reaches(r, IF j = "disable" THEN "factor" ELSE "spend")
  /\ UNCHANGED <<clock, prompt, sessions, promptLock, codeLock, token, shown>>
  /\ UNCHANGED account /\ UNCHANGED accepted

Fresh(c) == c \in Code \ issued /\ \A d \in Code \ issued : c <= d

(* EnableUserMFA and issueRecoveryCodes: the enrolling step becomes the replay floor. *)
ConfirmEnrolment(r, c, s) ==
  /\ at[r] = "spend"
  /\ job[r] = "confirm"
  /\ secrets < MaxSecrets
  /\ Fresh(c)
  /\ s \in (clock - 1)..(clock + 1)
  /\ secret' = secrets + 1
  /\ secrets' = secrets + 1
  /\ lastStep' = s
  /\ codes' = codes \union {c}
  /\ issued' = issued \union {c}
  /\ accepted' = accepted \union {<<secrets + 1, s>>}
  /\ EndsFactor(r)
  /\ UNCHANGED <<clock, spent, prompt, sessions>>

(* DeleteMFARecoveryCodes waits for a code that is being spent. *)
CodesFree(r) == \A c \in codes \union spent : codeLock[c] \in {Unset, r}

RegenerateRecoveryCodes(r, c) ==
  /\ at[r] = "spend"
  /\ job[r] = "regenerate"
  /\ CodesFree(r)
  /\ Fresh(c)
  /\ codes' = {c}
  /\ spent' = {}
  /\ issued' = issued \union {c}
  /\ EndsFactor(r)
  /\ UNCHANGED <<clock, secret, secrets, lastStep, prompt, sessions>>
  /\ UNCHANGED accepted

(* Mutant: the secret goes and the recovery codes stay. *)
DisableSecretOnly(r) ==
  /\ at[r] = "spend"
  /\ job[r] = "disable"
  /\ secret' = 0
  /\ lastStep' = 0
  /\ accepted' = accepted \union {Factor(r)}
  /\ EndsFactor(r)
  /\ UNCHANGED <<clock, secrets, codes, spent, issued, prompt, sessions>>

(* DisableUserMFA, DeleteMFARecoveryCodes, DeleteMFAPendingLoginsFor and the commit. *)
Disable(r) ==
  /\ at[r] = "spend"
  /\ job[r] = "disable"
  /\ CodesFree(r)
  /\ \A p \in Prompt : promptLock[p] = Unset
  /\ secret' = 0
  /\ lastStep' = 0
  /\ codes' = {}
  /\ spent' = {}
  /\ prompt' = [p \in Prompt |-> IF prompt[p] = "absent" THEN "absent" ELSE "deleted"]
  /\ accepted' = accepted \union {Factor(r)}
  /\ EndsFactor(r)
  /\ UNCHANGED <<clock, secrets, issued, sessions>>

FactorNext ==
  \/ Tick
  \/ PurgePendingLogins
  \/ \E p \in Prompt : Lapse(p)
  \/ \E r \in Req :
       \/ RollbackFactor(r)
       \/ Login(r)
       \/ Supersede(r)
       \/ \E p \in Prompt : CreatePending(r, p) \/ CompleteSecondFactor(r, p)
       \/ LockMFAPendingLogin(r)
       \/ \E s \in 0..(MaxStep + 1) : AcceptMFAStep(r, s)
       \/ \E c \in Code : SpendMFARecoveryCode(r, c)
       \/ SpendPrompt(r)
       \/ MintSession(r)
       \/ \E j \in {"confirm", "regenerate", "disable"} : LockUserMFA(r, j)
       \/ \E c \in Code, s \in 0..(MaxStep + 1) : ConfirmEnrolment(r, c, s)
       \/ \E c \in Code : RegenerateRecoveryCodes(r, c)
       \/ Disable(r)

FactorSpec == FactorInit /\ [][FactorNext]_factorVars

----------------------------------------------------------------------------

(* One pending sign-in becomes at most one session, whoever presents its token *)
(* and however the requests cross.                                             *)
OneSessionPerPrompt == \A p \in Prompt : sessions[p] <= 1

(* An account never has a factor without codes or codes without a factor.       *)
FactorAndCodes == (secret # 0) <=> (codes \union spent # {})

(* The prompts that were spent and whose session is still to be minted. *)
Earned == {p \in Prompt : \E r \in Req : at[r] = "mint" /\ token[r] = p}

Promise == INSTANCE SignIn WITH Step <- 0..(MaxStep + 1), earned <- Earned

(* The prompt's lock, the replay guard and the code's row make a sign-in one     *)
(* step: a one-time code or recovery code is accepted once, in order, and only   *)
(* while the secret or the set it belongs to is in force, across the prompt, the *)
(* disable form, a new set of codes and a new enrolment; and each acceptance at  *)
(* a prompt is worth one session.                                                *)
ImplementsSignIn == Promise!Spec
=============================================================================
