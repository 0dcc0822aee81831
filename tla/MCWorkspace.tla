----------------------------- MODULE MCWorkspace -----------------------------
(***************************************************************************)
(* An instance for TLC of the modules about who may act for a workspace    *)
(* and with what: SignIn, IdTokens, Access, RunnerTokens, Sandboxes, the   *)
(* page SandboxPanel in front of it, and RateLimits.  They share no state  *)
(* but that of Sandboxes, so a behaviour picks one and leaves the others   *)
(* at rest.                                                                *)
(***************************************************************************)
EXTENDS SignIn, IdTokens, Access, RunnerTokens, SandboxPanel, RateLimits, TLC

VARIABLE part

workspaceVars ==
  <<part, signInVars, idTokenVars, accessVars, runnerTokenVars, sandboxPanelVars, rateVars>>

Init ==
  /\ part \in {"signIn", "idTokens", "access", "runnerTokens", "sandboxes", "sandboxPanel", "rates"}
  /\ SignInInit /\ IdTokensInit /\ AccessInit /\ RunnerTokensInit /\ SandboxPanelInit /\ RateLimitsInit

Next ==
  /\ UNCHANGED part
  /\ \/ /\ part = "signIn" /\ SignInNext
        /\ UNCHANGED <<idTokenVars, accessVars, runnerTokenVars, sandboxPanelVars, rateVars>>
     \/ /\ part = "idTokens" /\ IdTokensNext
        /\ UNCHANGED <<signInVars, accessVars, runnerTokenVars, sandboxPanelVars, rateVars>>
     \/ /\ part = "access" /\ AccessNext
        /\ UNCHANGED <<signInVars, idTokenVars, runnerTokenVars, sandboxPanelVars, rateVars>>
     \/ /\ part = "runnerTokens" /\ RunnerTokensNext
        /\ UNCHANGED <<signInVars, idTokenVars, accessVars, sandboxPanelVars, rateVars>>
     \/ /\ part = "sandboxes" /\ SandboxesNext /\ elsewhere' = TRUE
        /\ UNCHANGED <<signInVars, idTokenVars, accessVars, runnerTokenVars, rateVars>>
        /\ UNCHANGED <<pageVars, overtaken, lost, untold>>
     \/ /\ part = "sandboxPanel" /\ SandboxPanelNext
        /\ UNCHANGED <<signInVars, idTokenVars, accessVars, runnerTokenVars, rateVars>>
     \/ /\ part = "rates" /\ RateLimitsNext
        /\ UNCHANGED <<signInVars, idTokenVars, accessVars, runnerTokenVars, sandboxPanelVars>>

Spec == Init /\ [][Next]_workspaceVars

TypeOK ==
  /\ SignInTypeOK /\ IdTokensTypeOK /\ AccessTypeOK /\ RunnerTokensTypeOK
  /\ SandboxesTypeOK /\ SandboxPanelTypeOK /\ RateLimitsTypeOK

(* No definition orders or names a member of these sets; the checks of     *)
(* Access are also the calls of Sandboxes.                                 *)
Interchangeable == Permutations(Callbacks) \cup Permutations(Checks)
=============================================================================
