----------------------------- MODULE MCServices -----------------------------
(***************************************************************************)
(* Ownership, Folders, SecondFactor, Addons, Ingest, and Automation with two *)
(* leaders or a capped match, on small instances.  They share no state, so a *)
(* behaviour works on one of them and leaves the others as they started: the *)
(* state space is the sum, not the product.                                  *)
(***************************************************************************)
EXTENDS Ownership, Folders, SecondFactor, Addons, Ingest, TLC

VARIABLES
  focus,                                                          \* the component at work
  now, writing, visible, delayed, rule, wm, threshold, patch, leader, pass, until, snap, listed,
  batch, claimed, again, armed, regressed, faults                 \* Automation

automation == <<now, writing, visible, delayed, rule, wm, threshold, patch, leader, pass, until,
                snap, listed, batch, claimed, again, armed, regressed, faults>>

Leaders == INSTANCE AutomationProofs WITH
  Replica <- Txn, Editor <- {}, Subject <- 1..3, Top <- 4, Trigger <- "link.expired",
  Thresholds <- {1}, MatchLimit <- 2, MaxTime <- 1, MaxFaults <- 1,
  late <- delayed, state <- rule, pc <- pass, read <- listed

Capped == INSTANCE AutomationProofs WITH
  Replica <- {"leader"}, Editor <- {}, Subject <- {1, 2}, Top <- 3, Trigger <- "link.expired",
  Thresholds <- {1}, MatchLimit <- 1, MaxTime <- 2, MaxFaults <- 0,
  late <- delayed, state <- rule, pc <- pass, read <- listed

AutomationAsleep ==
  /\ now = 0 /\ writing = 0 /\ visible = 0 /\ delayed = 0 /\ rule = 0 /\ wm = 0
  /\ threshold = 0 /\ patch = 0 /\ leader = 0 /\ pass = 0 /\ until = 0 /\ snap = 0
  /\ listed = 0 /\ batch = 0 /\ claimed = 0 /\ again = 0 /\ armed = 0 /\ regressed = 0
  /\ faults = 0

\* One membership may still have to be redeemed; ids are UUIDv7, so it comes last.
OnlyLastToCome == \A m \in Member : role[m] = "absent" => m = N

\* What a component that is not at work starts, and stays, as.
OwnershipAsleep == role = [m \in Member |-> "owner"]
FoldersAsleep == stored = {}
AddonsAsleep == loaded = NoVersion

ServicesInit ==
  /\ focus \in {"ownership", "folders", "second factor", "add-ons", "ingest", "leaders", "capped"}
  /\ Init /\ OnlyLastToCome /\ (focus = "ownership" \/ OwnershipAsleep)
  /\ FoldersInit /\ (focus = "folders" \/ FoldersAsleep)
  /\ FactorInit
  /\ AddonsInit /\ (focus = "add-ons" \/ AddonsAsleep)
  /\ IngestInit
  /\ CASE focus = "leaders" -> Leaders!Init
       [] focus = "capped" -> Capped!Init
       [] OTHER -> AutomationAsleep

ServicesNext ==
  /\ UNCHANGED focus
  /\ \/ focus = "ownership" /\ Next
        /\ UNCHANGED <<folderVars, factorVars, addonVars, ingestVars, automation>>
     \/ focus = "folders" /\ FoldersNext
        /\ UNCHANGED <<vars, factorVars, addonVars, ingestVars, automation>>
     \/ focus = "second factor" /\ FactorNext
        /\ UNCHANGED <<vars, folderVars, addonVars, ingestVars, automation>>
     \/ focus = "add-ons" /\ AddonsNext
        /\ UNCHANGED <<vars, folderVars, factorVars, ingestVars, automation>>
     \/ focus = "ingest" /\ IngestNext
        /\ UNCHANGED <<vars, folderVars, factorVars, addonVars, automation>>
     \/ focus = "leaders" /\ Leaders!Next
        /\ UNCHANGED <<vars, folderVars, factorVars, addonVars, ingestVars>>
     \/ focus = "capped" /\ Capped!Next
        /\ UNCHANGED <<vars, folderVars, factorVars, addonVars, ingestVars>>

ServicesSpec ==
  ServicesInit
    /\ [][ServicesNext]_<<focus, vars, folderVars, factorVars, addonVars, ingestVars, automation>>

Symmetry == Permutations(Txn) \union Permutations(Prompt)

----------------------------------------------------------------------------

(* Evaluate claims every expiry once and passes none over: with two replicas    *)
(* that both believe they lead, and with a match cap that stops between two       *)
(* subjects that share an expiry while a later one moves the watermark on.       *)
LeadersClaimOnce ==
  /\ focus = "leaders" => Leaders!AtMostOnce /\ Leaders!NoneSkipped
  /\ focus = "capped" => Capped!AtMostOnce /\ Capped!NoneSkipped
=============================================================================
