----------------------------- MODULE SandboxPanel -----------------------------
(***************************************************************************)
(* The dashboard's sandbox page (src/components/dashboard/                 *)
(* SandboxesPanel.tsx) in front of the workspace's settings and of the     *)
(* connection test of Sandboxes.  The page keeps one request of its own    *)
(* under way (busy), besides the load it starts with; another session of   *)
(* the workspace may change the settings, and answers may be lost.         *)
(***************************************************************************)
EXTENDS Sandboxes

CONSTANT PanelTenant

ASSUME PanelTenantAssumption == PanelTenant \in Tenants

VARIABLES
  loading,       (* the first load: "sent", "answered" or "done"            *)
  loaded,        (* what it answered                                        *)
  config,        (* what the page shows                                     *)
  request,       (* busy: "none", or what was asked for                     *)
  reply,         (* its answer, or Waiting                                  *)
  testCall,      (* the call that serves a test, {} before it has arrived   *)
  nextConfig,    (* the answer of a save, handed to the test after it       *)
  isReplacing,
  elsewhere,     (* history: another session changed the settings           *)
  overtaken,     (* history: the first load failed, or was answered before  *)
                 (* a change it was shown after                             *)
  lost,          (* history: an answer did not arrive                       *)
  untold         (* history: the last test followed a save and failed       *)

pageVars == <<loading, loaded, config, request, reply, testCall, nextConfig, isReplacing>>
panelHistory == <<elsewhere, overtaken, lost, untold>>
sandboxPanelVars == <<sandboxVars, pageVars, panelHistory>>

NoConfig == [key |-> NoE2BKey, test |-> "none"]
Waiting == [outcome |-> "waiting", config |-> NoConfig]
Failed == [outcome |-> "failed", config |-> NoConfig]

Configs == [key : E2BKeys \cup {NoE2BKey}, test : {"none", "success", "failed"}]

(* publicSandboxConfig: the key by its last four characters, the verdict   *)
(* of the last test.                                                       *)
Saved == [key |-> e2bKey[PanelTenant], test |-> lastTest[PanelTenant]]

SandboxPanelTypeOK ==
  /\ loading \in {"sent", "answered", "done"}
  /\ loaded \in Configs /\ config \in Configs
  /\ request \in {"none", "save", "test", "remove"}
  /\ reply \in [outcome : {"waiting", "failed", "ok", "test failed"}, config : Configs]
  /\ nextConfig \in Configs /\ testCall \subseteq SandboxCalls
  /\ {isReplacing, elsewhere, overtaken, lost, untold} \subseteq BOOLEAN

SandboxPanelInit ==
  /\ SandboxesInit
  /\ loading = "sent" /\ loaded = NoConfig /\ config = NoConfig
  /\ request = "none" /\ reply = Waiting /\ testCall = {} /\ nextConfig = NoConfig /\ isReplacing = FALSE
  /\ elsewhere = FALSE /\ overtaken = FALSE /\ lost = FALSE /\ untold = FALSE

-----------------------------------------------------------------------------
(* The first load, GET v1/sandbox/config.  The buttons do not wait for it. *)

LoadIsAnswered ==
  /\ loading = "sent"
  /\ loading' = "answered" /\ loaded' = Saved
  /\ UNCHANGED <<sandboxVars, config, request, reply, testCall, nextConfig, isReplacing, panelHistory>>

ShowLoaded ==
  /\ loading = "answered"
  /\ loading' = "done" /\ config' = loaded
  /\ overtaken' = (loaded # Saved \/ overtaken)
  /\ UNCHANGED <<sandboxVars, loaded, request, reply, testCall, nextConfig, isReplacing, elsewhere, lost, untold>>

LoadFails ==
  /\ loading # "done"
  /\ loading' = "done"
  /\ overtaken' = TRUE
  /\ UNCHANGED <<sandboxVars, loaded, config, request, reply, testCall, nextConfig, isReplacing, elsewhere, lost, untold>>

-----------------------------------------------------------------------------
(* The buttons.                                                            *)

Connected == config.key # NoE2BKey
ShowSetup == ~Connected \/ isReplacing

(* Bound: what is under way is finished after an answer was lost or        *)
(* another session made a change, but nothing new begins.                  *)
Undisturbed == ~(elsewhere \/ lost)

Ask(kind) ==
  /\ request = "none" /\ Undisturbed
  /\ request' = kind /\ reply' = Waiting /\ testCall' = {} /\ nextConfig' = NoConfig
  /\ UNCHANGED <<sandboxVars, loading, loaded, config, isReplacing, panelHistory>>

ClickSave == ShowSetup /\ Ask("save")
ClickTest == ~ShowSetup /\ Ask("test")

(* Faulty variants, here and below, are what a plausible slip in the code  *)
(* would make of the definition that follows: each breaks a property.      *)
RemoveWhileBusy ==
  /\ ~ShowSetup /\ Undisturbed
  /\ request' = "remove" /\ reply' = Waiting /\ testCall' = {} /\ nextConfig' = NoConfig
  /\ UNCHANGED <<sandboxVars, loading, loaded, config, isReplacing, panelHistory>>

ClickRemove == ~ShowSetup /\ Ask("remove")

ClickReplace ==
  /\ request = "none" /\ Undisturbed /\ ~ShowSetup
  /\ isReplacing' = TRUE
  /\ UNCHANGED <<sandboxVars, loading, loaded, config, request, reply, testCall, nextConfig, panelHistory>>

-----------------------------------------------------------------------------
(* What the server does with the request under way.                        *)

Pending(kind) == request = kind /\ reply = Waiting

AnswerWithConfig(outcome) == reply' = [outcome |-> outcome, config |-> Saved']

HandleSave ==
  /\ Pending("save")
  /\ \E k \in E2BKeys : SaveE2BKey(PanelTenant, k)
  /\ AnswerWithConfig("ok")
  /\ UNCHANGED <<loading, loaded, config, request, testCall, nextConfig, isReplacing, panelHistory>>

HandleRemove ==
  /\ Pending("remove")
  /\ RemoveE2BKey(PanelTenant)
  /\ AnswerWithConfig("ok")
  /\ UNCHANGED <<loading, loaded, config, request, testCall, nextConfig, isReplacing, panelHistory>>

(* No session, no capability, a key of the wrong form, or no database.     *)
HandleFails ==
  /\ request # "none" /\ Pending(request) /\ testCall = {}
  /\ reply' = Failed
  /\ UNCHANGED <<sandboxVars, loading, loaded, config, request, testCall, nextConfig, isReplacing, panelHistory>>

HandleTest(c) ==
  /\ Pending("test") /\ testCall = {}
  /\ TestE2B(c, PanelTenant)
  /\ testCall' = {c}
  /\ UNCHANGED <<loading, loaded, config, request, reply, nextConfig, isReplacing, panelHistory>>

(* The steps of a test before its last.                                    *)
TestGoesOn(c) ==
  /\ \/ ReadKey(c) \/ ReadSettings(c) \/ BeginCreate(c) \/ SandboxCreated(c) \/ CreateThrows(c)
     \/ RunCommand(c) \/ KillSandbox(c)
  /\ UNCHANGED <<pageVars, panelHistory>>

(* The verdict is recorded whether or not the page still waits for it.     *)
TestEnds(c) ==
  /\ RecordTestResult(c)
  /\ IF c \in testCall
     THEN AnswerWithConfig(IF result[c] = "success" THEN "ok" ELSE "test failed")
     ELSE UNCHANGED reply
  /\ UNCHANGED <<loading, loaded, config, request, testCall, nextConfig, isReplacing, panelHistory>>

(* Another session of the workspace.                                       *)
ChangedElsewhere ==
  /\ Undisturbed
  /\ RemoveE2BKey(PanelTenant) \/ \E k \in E2BKeys : SaveE2BKey(PanelTenant, k)
  /\ elsewhere' = TRUE
  /\ UNCHANGED <<pageVars, overtaken, lost, untold>>

-----------------------------------------------------------------------------
(* What the page does with the answer.                                     *)

Arrived(kind) == request = kind /\ reply # Waiting
Good == reply.outcome = "ok"

(* A save goes on to test what it saved, without becoming free in between. *)
SaveArrives ==
  /\ Arrived("save")
  /\ IF Good
     THEN /\ config' = reply.config /\ nextConfig' = reply.config /\ isReplacing' = FALSE
          /\ request' = "test"
     ELSE /\ request' = "none" /\ UNCHANGED <<config, nextConfig, isReplacing>>
  /\ reply' = Waiting
  /\ UNCHANGED <<sandboxVars, loading, loaded, testCall, panelHistory>>

ConfigAfterTestIgnored ==
  /\ Arrived("test")
  /\ untold' = FALSE
  /\ request' = "none" /\ reply' = Waiting /\ testCall' = {} /\ nextConfig' = NoConfig
  /\ UNCHANGED <<sandboxVars, loading, loaded, config, isReplacing, elsewhere, overtaken, lost>>

(* The answer's settings, where it has them, and over them, unless the     *)
(* test succeeded, those that the save before it had answered.             *)
TestArrives ==
  /\ Arrived("test")
  /\ config' = IF ~Good /\ nextConfig # NoConfig THEN nextConfig
               ELSE IF reply = Failed THEN config ELSE reply.config
  /\ untold' = IF reply = Failed THEN untold
               ELSE ~Good /\ nextConfig # NoConfig
  /\ request' = "none" /\ reply' = Waiting /\ testCall' = {} /\ nextConfig' = NoConfig
  /\ UNCHANGED <<sandboxVars, loading, loaded, isReplacing, elsewhere, overtaken, lost>>

RemoveArrives ==
  /\ Arrived("remove")
  /\ IF Good THEN config' = reply.config /\ isReplacing' = FALSE ELSE UNCHANGED <<config, isReplacing>>
  /\ request' = "none" /\ reply' = Waiting
  /\ UNCHANGED <<sandboxVars, loading, loaded, testCall, nextConfig, panelHistory>>

(* fetch rejects; the server may be at work on it, or have answered.       *)
RequestFails ==
  /\ Undisturbed
  /\ request # "none"
  /\ lost' = TRUE
  /\ request' = "none" /\ reply' = Waiting /\ testCall' = {} /\ nextConfig' = NoConfig
  /\ UNCHANGED <<sandboxVars, loading, loaded, config, isReplacing, elsewhere, overtaken, untold>>

SandboxPanelNext ==
  \/ LoadIsAnswered \/ ShowLoaded \/ LoadFails
  \/ ClickSave \/ ClickTest \/ ClickRemove \/ ClickReplace
  \/ HandleSave \/ HandleRemove \/ HandleFails
  \/ \E c \in SandboxCalls : HandleTest(c) \/ TestGoesOn(c) \/ TestEnds(c)
  \/ ChangedElsewhere
  \/ SaveArrives \/ TestArrives \/ RemoveArrives \/ RequestFails

SandboxPanelSpec == SandboxPanelInit /\ [][SandboxPanelNext]_sandboxPanelVars

-----------------------------------------------------------------------------
(* Properties.                                                             *)

(* Once the page has nothing under way it shows the key that is saved, and *)
(* the verdict of its last test unless that test followed a save and       *)
(* failed.  Only a load that was overtaken, an answer that was lost or     *)
(* another session can make it wrong.                                      *)
PanelShowsTheSettings ==
  request = "none" /\ loading = "done" /\ Undisturbed /\ ~overtaken =>
    /\ config.key = Saved.key
    /\ config.test = Saved.test \/ untold

(* One page by itself cannot leave the verdict of a test on a workspace    *)
(* without a key: it lets no removal overtake a test.                      *)
OnePageLeavesNoVerdict ==
  Undisturbed /\ Saved.key = NoE2BKey => Saved.test # "success"

(* The settings page and what is stored agree, in both directions.         *)
SettingsPageIsTrue == PanelShowsTheSettings /\ OnePageLeavesNoVerdict
=============================================================================
