---------------------------- MODULE TeacherLists ----------------------------
(***************************************************************************)
(* The lists a teacher keeps in the student client: the students and the   *)
(* subjects of a class, two tabs of one page                               *)
(* (pages/teacher/TeacherClassDetailPage.jsx), and the topics of a subject *)
(* (pages/teacher/TeacherSubjectDetailPage.jsx).  A change is followed by  *)
(* a load of the list (lib/useApiData.js), of which only the last one      *)
(* counts; removals may overlap each other and the loads.                  *)
(***************************************************************************)
EXTENDS Naturals, FiniteSets

CONSTANTS Entries,    \* what a list may hold
          MaxInFlight   \* loads and changes in flight at once

VARIABLES
    ui,    \* the list, and the form above it
    net,   \* the loads and the changes in flight
    srv    \* the entries stored: there are some, there were some

vars == <<ui, net, srv>>

Pages == {"students", "subjects", "topics"}
Load == [latest : BOOLEAN, served : BOOLEAN, found : SUBSET Entries, late : BOOLEAN]
Change == [op : {"create", "remove"}, entry : Entries, reply : {"none", "ok", "refused"},
           mounted : BOOLEAN]   \* its tab is still shown

TypeOK ==
    /\ ui \in [page : Pages, view : {"loading", "ready", "error"}, shown : SUBSET Entries,
               form : BOOLEAN, named : BOOLEAN,   \* the form is open, and filled in
               saving : BOOLEAN, saveError : BOOLEAN,
               removing : SUBSET Entries,         \* whose button is disabled: one at most
               doubt : BOOLEAN]                   \* history: the list may be wrong
    /\ Cardinality(ui.removing) =< 1
    /\ net.loads \subseteq Load /\ net.changes \subseteq Change
    /\ srv \in [live : SUBSET Entries, used : SUBSET Entries] /\ srv.live \subseteq srv.used

NewLoad == [latest |-> TRUE, served |-> FALSE, found |-> {}, late |-> FALSE]

Mounted(page) ==
    [page |-> page, view |-> "loading", shown |-> {}, form |-> FALSE, named |-> FALSE,
     saving |-> FALSE, saveError |-> FALSE, removing |-> {}, doubt |-> TRUE]

Init ==
    /\ \E page \in Pages : ui = Mounted(page)
    /\ net = [loads |-> {NewLoad}, changes |-> {}]
    /\ \E some \in SUBSET Entries : srv = [live |-> some, used |-> some]

-----------------------------------------------------------------------------
(* Loads. *)

\* useApiData's seq: only the answer to the last load is shown.
Counts(load) == load.latest

\* run(): the loads asked for before are out of date.
Run == {[load EXCEPT !.latest = FALSE] : load \in net.loads} \cup {NewLoad}
InFlight == Cardinality(net.loads) + Cardinality(net.changes)

ServeLoad(load) ==
    /\ ~load.served
    /\ net' = [net EXCEPT !.loads =
                 (@ \ {load}) \cup {[load EXCEPT !.served = TRUE, !.found = srv.live]}]
    /\ UNCHANGED <<ui, srv>>

Loaded(load) ==
    /\ load.served
    /\ net' = [net EXCEPT !.loads = @ \ {load}]
    /\ ui' = IF Counts(load) THEN [ui EXCEPT !.view = "ready", !.shown = load.found,
                                             !.doubt = load.late]
             ELSE ui
    /\ UNCHANGED srv

LoadFails(load) ==
    /\ net' = [net EXCEPT !.loads = @ \ {load}]
    /\ ui' = IF Counts(load) THEN [ui EXCEPT !.view = "error", !.shown = {}] ELSE ui
    /\ UNCHANGED srv

RetryLoad ==
    /\ ui.view = "error" /\ InFlight < MaxInFlight
    /\ ui' = [ui EXCEPT !.view = "loading"]
    /\ net' = [net EXCEPT !.loads = Run]
    /\ UNCHANGED srv

\* The other tab is mounted anew, and what comes for this one is dropped.
SwitchTab ==
    /\ ui.page \in {"students", "subjects"} /\ Cardinality(net.changes) < MaxInFlight
    /\ ui' = Mounted(IF ui.page = "students" THEN "subjects" ELSE "students")
    /\ net' = [loads |-> {NewLoad},
               changes |-> {[c EXCEPT !.mounted = FALSE] : c \in net.changes}]
    /\ srv' \in {[live |-> some, used |-> some] : some \in SUBSET Entries}

-----------------------------------------------------------------------------
(* Changes. *)

\* What the pages offer: nothing but the tabs until the list is there.
StudentsTab == IF ui.view = "ready" THEN {<<"remove", e>> : e \in ui.shown \ ui.removing} ELSE {}

FormOffers ==
    {"toggle"} \cup (IF ui.form /\ ~ui.saving THEN {"name"} ELSE {})
               \cup (IF ui.form /\ ui.named /\ ~ui.saving THEN {"create"} ELSE {})

SubjectsTab == IF ui.view = "ready" THEN FormOffers \X {0} ELSE {}

\* The form of a topic has a difficulty besides.
TopicsPage == IF ui.view = "ready" THEN FormOffers \X {0} ELSE {}

Offered == CASE ui.page = "students" -> StudentsTab
             [] ui.page = "subjects" -> SubjectsTab
             [] ui.page = "topics" -> TopicsPage

ToggleForm ==
    /\ <<"toggle", 0>> \in Offered
    /\ ui' = [ui EXCEPT !.form = ~@]
    /\ UNCHANGED <<net, srv>>

TypeName ==
    /\ <<"name", 0>> \in Offered
    /\ ui' = [ui EXCEPT !.named = ~@]
    /\ UNCHANGED <<net, srv>>

Send(op, e) ==
    /\ InFlight < MaxInFlight
    /\ net' = [net EXCEPT !.changes = @ \cup {[op |-> op, entry |-> e, reply |-> "none",
                                               mounted |-> TRUE]}]
    /\ UNCHANGED srv

\* handleCreate of the tab of subjects, and of the page of topics.
HandleCreate ==
    /\ <<"create", 0>> \in Offered
    /\ \E e \in Entries \ srv.used : Send("create", e)
    /\ ui' = [ui EXCEPT !.saving = TRUE, !.saveError = FALSE]

\* handleRemove, which the browser has asked to confirm.
HandleRemove(e) ==
    /\ <<"remove", e>> \in Offered
    /\ Send("remove", e)
    /\ ui' = [ui EXCEPT !.removing = {e}]

\* A member who is gone already cannot be removed; a change may be refused.  What
\* becomes of a list that is no longer shown is left to SwitchTab.
ServeChange(c) ==
    /\ c.reply = "none"
    /\ \/ /\ c.mounted
          /\ c.op = "create" \/ c.entry \in srv.live
          /\ net' = [net EXCEPT !.changes = (@ \ {c}) \cup {[c EXCEPT !.reply = "ok"]}]
          /\ srv' = [live |-> IF c.op = "create" THEN srv.live \cup {c.entry}
                              ELSE srv.live \ {c.entry},
                     used |-> srv.used \cup {c.entry}]
       \/ /\ net' = [net EXCEPT !.changes = (@ \ {c}) \cup {[c EXCEPT !.reply = "refused"]}]
          /\ UNCHANGED srv
    /\ UNCHANGED ui

\* The form is emptied and closed, and the list loaded.
ChangeAnswered(c) ==
    /\ c.reply = "ok"
    /\ IF ~c.mounted
       THEN net' = [net EXCEPT !.changes = @ \ {c}] /\ UNCHANGED ui
       ELSE /\ net' = [loads |-> Run, changes |-> net.changes \ {c}]
            /\ ui' = IF c.op = "create"
                     THEN [ui EXCEPT !.view = "loading", !.form = FALSE, !.named = FALSE,
                                     !.saving = FALSE]
                     ELSE [ui EXCEPT !.view = "loading", !.removing = {}]
    /\ UNCHANGED srv

\* Refused, or lost on its way there or back: a load under way may have missed
\* the change.
ChangeFails(c) ==
    LET missed == c.reply = "ok" IN
    /\ net' = [loads |-> {[load EXCEPT !.late = @ \/ missed] : load \in net.loads},
               changes |-> net.changes \ {c}]
    /\ ui' = IF ~c.mounted THEN ui
             ELSE IF c.op = "create"
             THEN [ui EXCEPT !.saving = FALSE, !.saveError = TRUE, !.doubt = @ \/ missed]
             ELSE [ui EXCEPT !.removing = {}, !.doubt = @ \/ missed]
    /\ UNCHANGED srv

-----------------------------------------------------------------------------
Next ==
    \/ \E load \in net.loads : ServeLoad(load) \/ Loaded(load) \/ LoadFails(load)
    \/ RetryLoad \/ SwitchTab \/ ToggleForm \/ TypeName \/ HandleCreate
    \/ \E e \in Entries : HandleRemove(e)
    \/ \E c \in net.changes : ServeChange(c) \/ ChangeAnswered(c) \/ ChangeFails(c)

Spec == Init /\ [][Next]_vars

-----------------------------------------------------------------------------
(* Properties. *)

\* A list that is shown while no change is under way is the one stored, though
\* changes and loads overlap, unless the answer to a change was lost (reload
\* after each change, useApiData's seq).
ShownIsCurrent ==
    ui.view = "ready" /\ net.changes = {} /\ ~ui.doubt => ui.shown = srv.live
=============================================================================
