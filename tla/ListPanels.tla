------------------------------ MODULE ListPanels ------------------------------
(***************************************************************************)
(* The dashboard pages that show a list and change it: API Keys, Policies  *)
(* and Projects of src/components/dashboard/ProductPanels.tsx, with the    *)
(* routes they call.  One page is open, nobody else changes the workspace, *)
(* and the browser's requests are answered late, in any order, or never.   *)
(* What is on the page is a set of rows: order and layout are left out.    *)
(***************************************************************************)
EXTENDS FiniteSets

CONSTANTS
  ListProjects,  (* the workspace's projects                                *)
  FirstProject,  (* the one listProjects answers first                      *)
  All,           (* no project selected, or a policy of no project          *)
  KeyRows, PolicyRows, ProjectRows, NoRow,  (* ids of what a page lists     *)
  Members,       (* roles of the people who open the page                   *)
  PanelCalls     (* requests the browser may have under way                 *)

ASSUME ListPanelsAssumption ==
  /\ FirstProject \in ListProjects /\ All \notin ListProjects
  /\ NoRow \notin KeyRows \cup PolicyRows \cup ProjectRows /\ Members \subseteq {"owner", "admin", "approver", "member", "viewer"}

VARIABLES
  page, role,
  table,         (* the server's rows: project, on (enabled, not revoked),  *)
                 (* and text (which save wrote its fields)                  *)
  projects,      (* state of the page from here: the projects loaded        *)
  selected, shown,
  form,          (* showForm, editingId, and whose fields are in the form   *)
  saving,        (* busy                                                    *)
  revoking,
  newKey,        (* the key whose full text is on the screen                *)
  call,
  doubt,         (* history: since the last list that was fetched alone,    *)
                 (* calls overlapped or one failed                          *)
  unseen         (* history: keys whose revocation was asked for before     *)
                 (* their text was on the screen, or got no answer          *)

listVars == <<page, role, table, projects, selected, shown, form, saving, revoking, newKey,
              call, doubt, unseen>>

Rows ==
  CASE page = "keys" -> KeyRows
    [] page = "policies" -> PolicyRows
    [] page = "projects" -> ProjectRows

Gone == [project |-> All, on |-> "gone", text |-> "none"]
Texts == {"created", "edited"}

WrittenBy(op) == IF op = "create" THEN "created" ELSE "edited"
NoForm == [open |-> FALSE, editing |-> NoRow, of |-> NoRow]

Idle == [op |-> "none", stage |-> "idle", id |-> NoRow, of |-> NoRow, project |-> All,
         arg |-> "none", rows |-> {}, alone |-> TRUE]

ListedRows == [id : Rows, on : {"on", "off"}, text : Texts]

ListPanelsTypeOK ==
  /\ page \in {"keys", "policies", "projects"} /\ role \in Members
  /\ table \in [Rows -> [project : ListProjects \cup {All}, on : {"on", "off", "gone"}, text : Texts \cup {"none"}]]
  /\ projects \subseteq ListProjects
  /\ selected \in ListProjects \cup {All}
  /\ shown \subseteq ListedRows
  /\ form \in [open : BOOLEAN, editing : Rows \cup {NoRow}, of : Rows \cup {NoRow}]
  /\ saving \in BOOLEAN /\ doubt \in BOOLEAN
  /\ revoking \in Rows \cup {NoRow} /\ newKey \in Rows \cup {NoRow}
  /\ unseen \subseteq Rows
  /\ call \in [PanelCalls -> [
       op : {"none", "projects", "list", "create", "toggle", "delete", "revoke", "edit", "refresh"},
       stage : {"idle", "sent", "answered", "refused"},
       id : Rows \cup {NoRow}, of : Rows \cup {NoRow}, project : ListProjects \cup {All},
       arg : {"none", "on", "off", "shown"} \cup Texts, rows : SUBSET ListedRows, alone : BOOLEAN]]

-----------------------------------------------------------------------------
(* rbac.ts: what a role may do.                                            *)
RoleCapabilities(r) ==
  CASE r \in {"owner", "admin"} -> {"policy:write", "key:write", "project:write", "sandbox:write"}
    [] r = "member" -> {"key:write", "project:write", "sandbox:write"}
    [] OTHER -> {}

Can(capability) == capability \in RoleCapabilities(role)

MayWrite ==
  Can(CASE page = "keys" -> "key:write"
        [] page = "policies" -> "policy:write"
        [] page = "projects" -> "project:write")

(* What the list routes answer: listApiKeys of a project are its own keys, *)
(* listCustomPolicies adds those of no project.                            *)
RowsOf(project) ==
  {[id |-> i, on |-> table[i].on, text |-> table[i].text] :
     i \in {j \in Rows : /\ table[j].on # "gone"
                         /\ \/ project = All \/ table[j].project = project
                            \/ page = "policies" /\ table[j].project = All}}

-----------------------------------------------------------------------------
(* Requests.                                                               *)

Under(c) == call[c].stage # "idle"

(* Reading the projects changes no row and reads none.                     *)
Competing(c) == {d \in PanelCalls \ {c} : Under(d) /\ call[d].op # "projects"}

Sent(c, request) ==
  /\ call' = [d \in PanelCalls |->
                IF d = c THEN [request EXCEPT !.stage = "sent", !.alone = Competing(c) = {}]
                ELSE IF Under(d) THEN [call[d] EXCEPT !.alone = FALSE] ELSE call[d]]
  /\ doubt' = (doubt \/ Competing(c) # {})

Send(c, request) == call[c] = Idle /\ Sent(c, request)

List(project) == [Idle EXCEPT !.op = "list", !.project = project]

Finish(c) == call' = [call EXCEPT ![c] = Idle]

ListPanelsInit ==
  /\ page \in {"keys", "policies", "projects"} /\ role \in Members
  /\ table \in [Rows -> {Gone, [project |-> IF page = "projects" THEN All ELSE FirstProject,
                               on |-> "on", text |-> "created"]}]
  /\ projects = {} /\ selected = All /\ shown = {}
  /\ form = NoForm /\ saving = FALSE /\ revoking = NoRow /\ newKey = NoRow
  /\ \E c, d \in PanelCalls :
       /\ c # d
       /\ call = [x \in PanelCalls |->
            IF x = c /\ page # "projects" THEN [Idle EXCEPT !.op = "projects", !.stage = "sent"]
            ELSE IF x = d THEN [List(All) EXCEPT !.stage = "sent"] ELSE Idle]
  /\ doubt = TRUE /\ unseen = {}

-----------------------------------------------------------------------------
(* The server.                                                             *)

Arrived(c) == call[c].stage = "sent"

Reply(c, stage, id, rows) ==
  call' = [call EXCEPT ![c].stage = stage, ![c].id = id, ![c].rows = rows]

serverLeaves == <<page, role, projects, selected, shown, form, saving, revoking, newKey, doubt, unseen>>

HandleRead(c) ==
  /\ Arrived(c) /\ call[c].op \in {"projects", "list", "refresh"}
  /\ \/ Reply(c, "answered", NoRow, IF call[c].op = "projects" THEN {} ELSE RowsOf(call[c].project))
     \/ Reply(c, "refused", NoRow, {})
  /\ UNCHANGED table /\ UNCHANGED serverLeaves

(* POST: a key belongs to a project, a policy may belong to none.          *)
HandleCreate(c) ==
  /\ Arrived(c) /\ call[c].op = "create" /\ MayWrite
  /\ \E i \in {j \in Rows : table[j] = Gone} :
       /\ table' = [table EXCEPT ![i] = [project |-> call[c].project, on |-> "on", text |-> call[c].arg]]
       /\ Reply(c, "answered", i, {})
  /\ UNCHANGED serverLeaves

(* PATCH and DELETE v1/policies/[id]: success also where no row is left.   *)
HandlePolicyWrite(c) ==
  /\ Arrived(c) /\ call[c].op \in {"toggle", "edit", "delete"} /\ MayWrite
  /\ LET i == call[c].id
     IN  table' = [table EXCEPT ![i] =
           IF @ = Gone \/ call[c].op = "delete" THEN Gone
           ELSE IF call[c].op = "toggle" THEN [@ EXCEPT !.on = call[c].arg]
           ELSE [@ EXCEPT !.text = call[c].arg]]
  /\ Reply(c, "answered", call[c].id, {})
  /\ UNCHANGED serverLeaves

(* DELETE v1/api-keys/[id]: only a key that was not revoked before.        *)
HandleRevoke(c) ==
  /\ Arrived(c) /\ call[c].op = "revoke" /\ MayWrite
  /\ table[call[c].id].on = "on"
  /\ table' = [table EXCEPT ![call[c].id].on = "off"]
  /\ Reply(c, "answered", call[c].id, {})
  /\ UNCHANGED serverLeaves

(* No session, no capability, bad input, no such row, no database.         *)
Refuse(c) ==
  /\ Arrived(c) /\ call[c].op \notin {"projects", "list", "refresh"}
  /\ Reply(c, "refused", call[c].id, {})
  /\ UNCHANGED table /\ UNCHANGED serverLeaves

-----------------------------------------------------------------------------
(* What the reader of the page does.                                       *)

SelectProject(c, p) ==
  /\ p \in projects \cup {All} /\ p # selected
  /\ selected' = p
  /\ Send(c, List(p))
  /\ UNCHANGED <<page, role, table, projects, shown, form, saving, revoking, newKey, unseen>>

(* Nothing keeps two of these from being under way.                        *)
GenerateKey(c) ==
  /\ page = "keys" /\ selected # All
  /\ Send(c, [Idle EXCEPT !.op = "create", !.project = selected, !.arg = WrittenBy("create")])
  /\ UNCHANGED <<page, role, table, projects, selected, shown, form, saving, revoking, newKey, unseen>>

CreateNewProject(c) ==
  /\ page = "projects"
  /\ Send(c, [Idle EXCEPT !.op = "create", !.arg = WrittenBy("create")])
  /\ UNCHANGED <<page, role, table, projects, selected, shown, form, saving, revoking, newKey, unseen>>

(* The handler sees the page as it was rendered: arg is "shown" where some *)
(* key's text was on the screen.                                           *)
RevokeKey(c, row) ==
  /\ page = "keys" /\ row \in shown /\ row.on = "on" /\ revoking # row.id
  /\ revoking' = row.id
  /\ Send(c, [Idle EXCEPT !.op = "revoke", !.id = row.id, !.arg = IF newKey = NoRow THEN "none" ELSE "shown"])
  /\ unseen' = IF newKey = row.id THEN unseen ELSE unseen \cup {row.id}
  /\ UNCHANGED <<page, role, table, projects, selected, shown, form, saving, newKey>>

ToggleEnabled(c, row) ==
  /\ page = "policies" /\ row \in shown
  /\ Send(c, [Idle EXCEPT !.op = "toggle", !.id = row.id, !.arg = IF row.on = "on" THEN "off" ELSE "on"])
  /\ UNCHANGED <<page, role, table, projects, selected, shown, form, saving, revoking, newKey, unseen>>

DeletePolicy(c, row) ==
  /\ page = "policies" /\ row \in shown
  /\ Send(c, [Idle EXCEPT !.op = "delete", !.id = row.id])
  /\ UNCHANGED <<page, role, table, projects, selected, shown, form, saving, revoking, newKey, unseen>>

formLeaves == <<page, role, table, projects, selected, shown, saving, revoking, newKey, call, doubt, unseen>>

(* Faulty variants, here and below, are what a plausible slip in the code  *)
(* would make of the definition that follows: each breaks a property.      *)
CreateKeepsTheEditedId ==
  /\ page = "policies"
  /\ form' = [form EXCEPT !.open = TRUE, !.of = NoRow]
  /\ UNCHANGED formLeaves

OpenCreate ==
  /\ page = "policies"
  /\ form' = [open |-> TRUE, editing |-> NoRow, of |-> NoRow]
  /\ UNCHANGED formLeaves

OpenEdit(row) ==
  /\ page = "policies" /\ row \in shown
  /\ form' = [open |-> TRUE, editing |-> row.id, of |-> row.id]
  /\ UNCHANGED formLeaves

CancelForm ==
  /\ form.open
  /\ form' = [form EXCEPT !.open = FALSE]
  /\ UNCHANGED formLeaves

(* The fields hold any text by now: a row says which request wrote it.     *)
SavePolicy(c) ==
  /\ form.open /\ ~saving
  /\ saving' = TRUE
  /\ LET kind == IF form.editing = NoRow THEN "create" ELSE "edit"
     IN  Send(c, [Idle EXCEPT !.op = kind, !.arg = WrittenBy(kind),
                              !.id = form.editing, !.of = form.of, !.project = selected])
  /\ UNCHANGED <<page, role, table, projects, selected, shown, form, revoking, newKey, unseen>>

-----------------------------------------------------------------------------
(* What the page does with an answer.                                      *)

AnsweredTo(c, ops) == call[c].op \in ops /\ call[c].stage \in {"answered", "refused"}

Accepted(c) == call[c].stage = "answered"

(* The first project becomes the selection, and the effect fetches its     *)
(* list; a list that is still under way is not aborted.                    *)
ProjectsArrive(c) ==
  /\ AnsweredTo(c, {"projects"})
  /\ IF Accepted(c)
     THEN projects' = ListProjects /\ selected' = FirstProject /\ Sent(c, List(FirstProject))
     ELSE Finish(c) /\ UNCHANGED <<projects, selected, doubt>>
  /\ UNCHANGED <<page, role, table, shown, form, saving, revoking, newKey, unseen>>

(* An error has no rows and leaves an empty list.                          *)
ListArrives(c) ==
  /\ AnsweredTo(c, {"list"})
  /\ shown' = call[c].rows
  /\ doubt' = IF call[c].alone THEN ~Accepted(c) ELSE doubt
  /\ Finish(c)
  /\ UNCHANGED <<page, role, table, projects, selected, form, saving, revoking, newKey, unseen>>

CreatedRow(c) == [id |-> call[c].id, on |-> "on", text |-> call[c].arg]

KeyArrives(c) ==
  /\ page = "keys" /\ AnsweredTo(c, {"create"})
  /\ IF Accepted(c) THEN newKey' = call[c].id /\ shown' = shown \cup {CreatedRow(c)}
     ELSE UNCHANGED <<newKey, shown>>
  /\ Finish(c)
  /\ UNCHANGED <<page, role, table, projects, selected, form, saving, revoking, doubt, unseen>>

ProjectArrives(c) ==
  /\ page = "projects" /\ AnsweredTo(c, {"create"})
  /\ shown' = IF Accepted(c) THEN shown \cup {CreatedRow(c)} ELSE shown
  /\ Finish(c)
  /\ UNCHANGED <<page, role, table, projects, selected, form, saving, revoking, newKey, doubt, unseen>>

WithOn(id, on) == {IF r.id = id THEN [r EXCEPT !.on = on] ELSE r : r \in shown}

KeyStaysOnScreen(c) ==
  /\ AnsweredTo(c, {"revoke"})
  /\ shown' = IF Accepted(c) THEN WithOn(call[c].id, "off") ELSE shown
  /\ revoking' = NoRow
  /\ Finish(c)
  /\ UNCHANGED <<page, role, table, projects, selected, form, saving, newKey, doubt, unseen>>

RevocationArrives(c) ==
  /\ AnsweredTo(c, {"revoke"})
  /\ shown' = IF Accepted(c) THEN WithOn(call[c].id, "off") ELSE shown
  /\ newKey' = IF Accepted(c) /\ call[c].arg = "shown" THEN NoRow ELSE newKey
  /\ revoking' = NoRow
  /\ Finish(c)
  /\ UNCHANGED <<page, role, table, projects, selected, form, saving, doubt, unseen>>

(* Neither of the next two looks at the answer.                            *)
ToggleArrives(c) ==
  /\ AnsweredTo(c, {"toggle"})
  /\ shown' = {IF r.id = call[c].id THEN [r EXCEPT !.on = IF @ = "on" THEN "off" ELSE "on"] ELSE r : r \in shown}
  /\ doubt' = (doubt \/ ~Accepted(c))
  /\ Finish(c)
  /\ UNCHANGED <<page, role, table, projects, selected, form, saving, revoking, newKey, unseen>>

DeleteArrives(c) ==
  /\ AnsweredTo(c, {"delete"})
  /\ shown' = {r \in shown : r.id # call[c].id}
  /\ doubt' = (doubt \/ ~Accepted(c))
  /\ Finish(c)
  /\ UNCHANGED <<page, role, table, projects, selected, form, saving, revoking, newKey, unseen>>

PolicyCreated(c) ==
  /\ page = "policies" /\ AnsweredTo(c, {"create"})
  /\ shown' = IF Accepted(c) THEN shown \cup {CreatedRow(c)} ELSE shown
  /\ form' = IF Accepted(c) THEN NoForm ELSE form
  /\ saving' = FALSE
  /\ Finish(c)
  /\ UNCHANGED <<page, role, table, projects, selected, revoking, newKey, doubt, unseen>>

UpdateWithoutRefresh(c) ==
  /\ AnsweredTo(c, {"edit"})
  /\ saving' = FALSE
  /\ form' = IF Accepted(c) THEN NoForm ELSE form
  /\ Finish(c)
  /\ UNCHANGED <<page, role, table, projects, selected, shown, revoking, newKey, doubt, unseen>>

(* An update is followed by a list of the project selected at the click.   *)
PolicyUpdated(c) ==
  /\ AnsweredTo(c, {"edit"})
  /\ IF Accepted(c)
     THEN /\ call' = [call EXCEPT ![c] = [Idle EXCEPT !.op = "refresh", !.stage = "sent",
                                                      !.project = call[c].project, !.alone = call[c].alone]]
          /\ UNCHANGED saving
     ELSE saving' = FALSE /\ Finish(c)
  /\ UNCHANGED <<page, role, table, projects, selected, shown, form, revoking, newKey, doubt, unseen>>

RefreshArrives(c) ==
  /\ AnsweredTo(c, {"refresh"})
  /\ shown' = call[c].rows
  /\ doubt' = (doubt \/ ~Accepted(c))
  /\ form' = NoForm /\ saving' = FALSE
  /\ Finish(c)
  /\ UNCHANGED <<page, role, table, projects, selected, revoking, newKey, unseen>>

(* fetch rejects: the request was lost, or its answer.  Only the handlers  *)
(* with a finally block or a catch notice.                                 *)
CallFails(c) ==
  /\ Under(c)
  /\ Finish(c)
  /\ doubt' = (doubt \/ call[c].op # "projects")
  /\ saving' = (saving /\ ~(page = "policies" /\ call[c].op \in {"create", "edit", "refresh"}))
  /\ revoking' = IF call[c].op = "revoke" THEN NoRow ELSE revoking
  /\ unseen' = IF call[c].op = "revoke" THEN unseen \cup {call[c].id} ELSE unseen
  /\ UNCHANGED <<page, role, table, projects, selected, shown, form, newKey>>

ListPanelsNext ==
  \/ \E c \in PanelCalls :
       \/ HandleRead(c) \/ HandleCreate(c) \/ HandlePolicyWrite(c) \/ HandleRevoke(c) \/ Refuse(c)
       \/ \E p \in ListProjects \cup {All} : SelectProject(c, p)
       \/ \E row \in shown : RevokeKey(c, row) \/ ToggleEnabled(c, row) \/ DeletePolicy(c, row)
       \/ GenerateKey(c) \/ CreateNewProject(c) \/ SavePolicy(c)
       \/ ProjectsArrive(c) \/ ListArrives(c) \/ KeyArrives(c) \/ ProjectArrives(c) \/ RevocationArrives(c)
       \/ ToggleArrives(c) \/ DeleteArrives(c) \/ PolicyCreated(c) \/ PolicyUpdated(c) \/ RefreshArrives(c)
       \/ CallFails(c)
  \/ OpenCreate \/ CancelForm
  \/ \E row \in shown : OpenEdit(row)

ListPanelsSpec == ListPanelsInit /\ [][ListPanelsNext]_listVars

-----------------------------------------------------------------------------
(* Properties.                                                             *)

(* With nothing under way the page shows the server's rows of the selected *)
(* project, unless calls overlapped or failed; and a list that is fetched  *)
(* alone puts right whatever they left.                                    *)
PageTellsTheTruth ==
  (\A c \in PanelCalls : call[c] = Idle) /\ ~doubt => shown = RowsOf(selected)

(* A policy is written from the fields that were opened for it, whatever   *)
(* was opened, cancelled and saved before, and while a save is under way.  *)
SavesGoWhereTheFormSays ==
  \A c \in PanelCalls : call[c].op \in {"create", "edit"} /\ page = "policies" /\ call[c].stage = "sent" =>
    call[c].id = call[c].of

(* A key whose text is on the screen works, or its revocation is on the    *)
(* way, was asked for before the text was there, or never answered.        *)
ScreenKeyWorks ==
  newKey # NoRow /\ table[newKey].on = "off" =>
    \/ newKey \in unseen
    \/ \E c \in PanelCalls : call[c].op = "revoke" /\ call[c].id = newKey

(* The pages show what is stored, change the row they were asked to change *)
(* and show the key that works.                                            *)
PagesTellTheTruth == PageTellsTheTruth /\ SavesGoWhereTheFormSays /\ ScreenKeyWorks
=============================================================================
