------------------------------- MODULE SignIn -------------------------------
(***************************************************************************)
(* What the second factor of an account promises, whatever requests         *)
(* overlap: a sign-in spends its prompt and its factor in one step, and      *)
(* earns one session.                                                        *)
(*                                                                           *)
(* A factor is <<k, s>>, the one-time code of secret k at time step s, or    *)
(* <<0, c>>, recovery code c.  It is good while its secret or its set is in  *)
(* force, once, and a one-time code only after those accepted before it.     *)
(***************************************************************************)
EXTENDS Naturals

CONSTANTS Prompt, Code, Step

VARIABLES
  secret,    \* the secret in force, 0 for none
  secrets,   \* secrets so far
  codes,     \* recovery codes in force and not used
  issued,    \* recovery codes ever issued
  prompt,    \* each prompt: absent, open, lapsed, consumed or deleted
  accepted,  \* factors accepted
  earned,    \* prompts that were spent and whose session is still to be minted
  sessions   \* sessions minted for each prompt

vars == <<secret, secrets, codes, issued, prompt, accepted, earned, sessions>>

Init ==
  /\ secret = 0 /\ secrets = 0
  /\ codes = {} /\ issued = {} /\ accepted = {} /\ earned = {}
  /\ prompt = [p \in Prompt |-> "absent"]
  /\ sessions = [p \in Prompt |-> 0]

\* What a client can present.
Factors == {secret} \X Step \union {0} \X Code

Good(f) ==
  /\ secret # 0
  /\ f \notin accepted
  /\ \/ f[1] = secret /\ \A g \in accepted : g[1] = secret => g[2] < f[2]
     \/ f[1] = 0 /\ f[2] \in codes

Open(p) ==
  /\ prompt[p] = "absent"
  /\ prompt' = [prompt EXCEPT ![p] = "open"]
  /\ UNCHANGED <<secret, secrets, codes, issued, accepted, earned, sessions>>

Lapse(p) ==
  /\ prompt[p] = "open"
  /\ prompt' = [prompt EXCEPT ![p] = "lapsed"]
  /\ UNCHANGED <<secret, secrets, codes, issued, accepted, earned, sessions>>

\* Prompts are superseded or purged.
Withdraw(S) ==
  /\ \A p \in S : prompt[p] # "absent"
  /\ prompt' = [p \in Prompt |-> IF p \in S THEN "deleted" ELSE prompt[p]]
  /\ UNCHANGED <<secret, secrets, codes, issued, accepted, earned, sessions>>

\* A prompt that lapses while it is being completed is completed all the same.
Complete(p, f) ==
  /\ prompt[p] \in {"open", "lapsed"} /\ Good(f)
  /\ prompt' = [prompt EXCEPT ![p] = "consumed"]
  /\ accepted' = accepted \union {f}
  /\ codes' = {c \in codes : f # <<0, c>>}
  /\ earned' = earned \union {p}
  /\ UNCHANGED <<secret, secrets, issued, sessions>>

Mint(p) ==
  /\ earned' = earned \ {p}
  /\ sessions' = [sessions EXCEPT ![p] = @ + 1]
  /\ UNCHANGED <<secret, secrets, codes, issued, prompt, accepted>>

\* The process dies before it mints.
Forfeit(p) ==
  /\ earned' = earned \ {p}
  /\ UNCHANGED <<secret, secrets, codes, issued, prompt, accepted, sessions>>

Enrol(c, s) ==
  /\ secret = 0
  /\ secret' = secrets + 1 /\ secrets' = secrets + 1
  /\ codes' = {c} /\ issued' = issued \union {c}
  /\ accepted' = accepted \union {<<secrets + 1, s>>}
  /\ UNCHANGED <<prompt, earned, sessions>>

Regenerate(c) ==
  /\ secret # 0
  /\ codes' = {c} /\ issued' = issued \union {c}
  /\ UNCHANGED <<secret, secrets, prompt, accepted, earned, sessions>>

Disable(f) ==
  /\ Good(f)
  /\ secret' = 0 /\ codes' = {}
  /\ prompt' = [p \in Prompt |-> IF prompt[p] = "absent" THEN "absent" ELSE "deleted"]
  /\ accepted' = accepted \union {f}
  /\ UNCHANGED <<secrets, issued, earned, sessions>>

Next ==
  \/ UNCHANGED vars  \* a request reads, waits or gives up
  \/ \E p \in Prompt : Open(p) \/ Lapse(p) \/ \E f \in Factors : Complete(p, f)
  \/ \E S \in SUBSET Prompt : Withdraw(S)
  \/ \E p \in earned : Mint(p) \/ Forfeit(p)
  \/ \E c \in Code \ issued : Regenerate(c) \/ \E s \in Step : Enrol(c, s)
  \/ \E f \in Factors : Disable(f)

Spec == Init /\ [][Next]_vars
=============================================================================
