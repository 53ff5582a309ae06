---------------------------- MODULE ClassPicker ----------------------------
(***************************************************************************)
(* A teacher's classes and the one that is selected, which both clients    *)
(* keep in the browser's storage too.  In the student client they are      *)
(* kept by TeacherClassContext.jsx and shown by the page of classes or by  *)
(* the dashboard, with CreateClassModal.jsx and ClassSwitcher.jsx; in the  *)
(* administration client by ClassContext.jsx, shown by ClassesPage.jsx and *)
(* Topbar.jsx.  The endpoints are those of api/v1/classes.py.  Loads may   *)
(* overlap, and none is cancelled.                                         *)
(***************************************************************************)
EXTENDS Naturals, Sequences, FiniteSets, SequencesExt

CONSTANTS SchoolClasses,   \* numbers
          MaxOpen          \* loads, and classes being created, at once

VARIABLES
    ui,    \* the page, its dialog and what the context above it holds
    net,   \* the loads, in the order they were sent, and the classes being created
    srv    \* the teacher's classes: there are some, there were some

vars == <<ui, net, srv>>

Pages == {"classes", "dashboard", "portal"}   \* two of the student client, one of the other
MaybeClass == SchoolClasses \cup {0}
Load == [first : BOOLEAN, selected : MaybeClass,   \* as the function was made
         after : {"nothing", "sync", "create"},     \* what is done when it ends
        id : MaybeClass, mounted : BOOLEAN,        \* the page that waits is still there
         served : BOOLEAN, found : SUBSET SchoolClasses, late : BOOLEAN]
Creation == [reply : {"none", "ok", "refused"}, id : MaybeClass,
             mounted : BOOLEAN, selected : MaybeClass]

TypeOK ==
    /\ ui \in [page : Pages, shown : SUBSET SchoolClasses,
               selected : MaybeClass, kept : MaybeClass,   \* in the state, in the storage
               loading : BOOLEAN, error : BOOLEAN,
               open : BOOLEAN, filled : BOOLEAN, busy : BOOLEAN, refused : BOOLEAN,
               created : MaybeClass,                       \* the class whose code is shown
               doubt : BOOLEAN]                            \* history: shown may be wrong
    /\ \A k \in DOMAIN net.loads : net.loads[k] \in Load
    /\ net.creations \subseteq Creation
    /\ srv \in [live : SUBSET SchoolClasses, used : SUBSET SchoolClasses,
                overtaken : BOOLEAN]   \* history: a request works with a selection of old

NewLoad(first, selected, after, id, mounted) ==
    [first |-> first, selected |-> selected, after |-> after, id |-> id, mounted |-> mounted,
     served |-> FALSE, found |-> {}, late |-> FALSE]

\* The storage may hold a class of whoever used the browser before.
Init ==
    \E page \in Pages, some \in SUBSET SchoolClasses, kept \in MaybeClass :
        /\ srv = [live |-> some, used |-> some \cup ({kept} \ {0}), overtaken |-> FALSE]
        /\ ui = [page |-> page, shown |-> {}, selected |-> kept, kept |-> kept,
                 loading |-> TRUE, error |-> FALSE, open |-> FALSE, filled |-> FALSE,
                 busy |-> FALSE, refused |-> FALSE, created |-> 0, doubt |-> TRUE]
        /\ net = [loads |-> <<NewLoad(TRUE, kept, "nothing", 0, TRUE)>>, creations |-> {}]

InFlight == Len(net.loads) + Cardinality(net.creations)
Portal == ui.page = "portal"

\* In the administration client a request that is in flight goes on with the
\* class that was selected when it was made.
Overtakes == Portal /\ ui'.selected # ui.selected /\ (net'.loads # <<>> \/ net'.creations # {})
Overtaken == srv' = [srv EXCEPT !.overtaken = @ \/ Overtakes]

-----------------------------------------------------------------------------
(* The server. *)

\* list_classes.
ServeLoad(k) ==
    /\ ~net.loads[k].served
    /\ net' = [net EXCEPT !.loads[k] = [@ EXCEPT !.served = TRUE, !.found = srv.live]]
    /\ UNCHANGED <<ui, srv>>

\* create_class, or a refusal.
ServeCreation(c) ==
    /\ c.reply = "none"
    /\ \E reply \in {"ok", "refused"}, id \in MaybeClass :
          /\ net' = [net EXCEPT !.creations =
                       (@ \ {c}) \cup {[c EXCEPT !.reply = reply, !.id = id]}]
          /\ \/ /\ reply = "ok" /\ id \in SchoolClasses \ srv.used
                /\ srv' = [srv EXCEPT !.live = @ \cup {id}, !.used = @ \cup {id}]
             \/ reply = "refused" /\ id = 0 /\ UNCHANGED srv
    /\ UNCHANGED ui

\* Another teacher removes this one from a class.
Removed(id) ==
    /\ id \in srv.live
    /\ srv' = [srv EXCEPT !.live = @ \ {id}, !.overtaken = @ \/ InFlight > 0]
    /\ net' = [net EXCEPT !.loads = [k \in DOMAIN net.loads |->
                 [net.loads[k] EXCEPT !.late = @ \/ net.loads[k].served]]]
    /\ ui' = [ui EXCEPT !.doubt = TRUE]

-----------------------------------------------------------------------------
(* The context. *)

Select(id, u) == [u EXCEPT !.selected = id, !.kept = id]

\* A load hides the page of the student client, and with it the dialog: it is
\* mounted anew afterwards, empty.
Hidden(u) ==
    IF u.page = "portal" THEN u
    ELSE [u EXCEPT !.filled = FALSE, !.busy = FALSE, !.refused = FALSE, !.created = 0]
HiddenFor(c) == [c EXCEPT !.mounted = @ /\ Portal]

StartLoad(u, selected, after, id, mounted, creations) ==
    /\ ui' = Hidden([u EXCEPT !.loading = TRUE, !.error = FALSE])
    /\ net' = [loads |-> Append(net.loads, NewLoad(FALSE, selected, after, id, mounted)),
               creations |-> {HiddenFor(c) : c \in creations}]

\* load(): the selection is looked up in the classes as it is then.
TeacherSelects(load, u) ==
    IF u.selected \in load.found THEN {u}
    ELSE IF load.found = {} THEN {Select(0, u)}
    ELSE {Select(id, u) : id \in load.found}

\* fetchClasses: as it was when the function was made.  The first load does as
\* the other client.
PortalSelects(load, u) ==
    IF load.first THEN TeacherSelects(load, u)
    ELSE IF load.selected \in load.found THEN {u}
    ELSE IF load.found = {} THEN {Select(0, u)}
    ELSE {Select(id, u) : id \in load.found}

\* The refresh button mounts the page anew.
Synced(u) == [u EXCEPT !.open = FALSE, !.filled = FALSE, !.busy = FALSE,
                       !.refused = FALSE, !.created = 0]

Detached(n) ==
    [loads |-> [k \in DOMAIN n.loads |-> [n.loads[k] EXCEPT !.mounted = FALSE]],
     creations |-> {[c EXCEPT !.mounted = FALSE] : c \in n.creations}]

\* What follows a load, even one that failed: the student client selects the
\* class that was created, and its dashboard closes the dialog.
Follow(load, u) ==
    CASE load.after = "nothing" -> u
      [] load.after = "sync" -> Synced(u)
      [] load.after = "create" ->
           CASE u.page = "portal" -> [u EXCEPT !.busy = @ /\ ~load.mounted]
             [] u.page = "classes" -> Select(load.id, u)
             [] u.page = "dashboard" -> [Select(load.id, u) EXCEPT !.open = FALSE]

\* Ending load k; the answers of earlier ones are late when it was answered.
Ended(k, answered) ==
    LET load == net.loads[k] IN
    net' = LET rest == [net EXCEPT !.loads = RemoveAt([j \in DOMAIN net.loads |->
                          [net.loads[j] EXCEPT !.late = @ \/ (answered /\ j < k)]], k)]
           IN IF load.after = "sync" THEN Detached(rest) ELSE rest

Loaded(k) ==
    LET load == net.loads[k]
        u == [ui EXCEPT !.shown = load.found, !.loading = FALSE, !.doubt = load.late]
    IN
    /\ load.served
    /\ \E selects \in IF Portal THEN PortalSelects(load, u) ELSE TeacherSelects(load, u) :
          ui' = Follow(load, selects)
    /\ Ended(k, TRUE)
    /\ Overtaken

LoadFails(k) ==
    /\ ui' = Follow(net.loads[k], [ui EXCEPT !.loading = FALSE, !.error = TRUE])
    /\ Ended(k, FALSE)
    /\ UNCHANGED srv

-----------------------------------------------------------------------------
(* What is offered: nothing but the frame while the classes are loaded. *)

ClassesPage == IF ui.loading \/ ui.error THEN {} ELSE {"create", "select"}

DashboardPage ==
    IF ui.loading \/ ui.error THEN {}
    ELSE IF ui.shown = {} THEN {"create"} ELSE {"select"}

\* The button that creates a class is above the list; the frame has a selector
\* and a refresh button.
PortalPage == {"create"} \cup (IF ui.loading THEN {} ELSE {"select", "sync"})

PageOffers == CASE ui.page = "classes" -> ClassesPage
                [] ui.page = "dashboard" -> DashboardPage
                [] ui.page = "portal" -> PortalPage

\* An open dialog covers everything else.
DialogShown == ui.open /\ (Portal \/ "create" \in PageOffers)
Offered == IF DialogShown THEN {} ELSE PageOffers

SelectClass(id) ==
    /\ "select" \in Offered /\ id \in ui.shown
    /\ ui' = Select(id, ui)
    /\ UNCHANGED net
    /\ Overtaken

\* handleRefresh.
Sync ==
    /\ "sync" \in Offered /\ InFlight < MaxOpen
    /\ StartLoad(ui, ui.selected, "sync", 0, TRUE, net.creations)
    /\ UNCHANGED srv

Retry ==
    /\ ui.error /\ ~ui.loading /\ ~DialogShown /\ InFlight < MaxOpen
    /\ StartLoad(ui, ui.selected, "nothing", 0, TRUE, net.creations)
    /\ UNCHANGED srv

-----------------------------------------------------------------------------
(* Creating a class. *)

\* handleOpenCreate of the administration client.
OpenCreate ==
    /\ "create" \in Offered
    /\ ui' = [ui EXCEPT !.open = TRUE, !.filled = FALSE, !.refused = FALSE, !.created = 0]
    /\ UNCHANGED <<net, srv>>

FillIn ==
    /\ DialogShown /\ ui.created = 0 /\ (Portal \/ ~ui.busy)
    /\ ui' = [ui EXCEPT !.filled = ~@]
    /\ UNCHANGED <<net, srv>>

MaySubmit == DialogShown /\ ui.created = 0 /\ ~ui.busy

\* The name and the grade are required: by the form, or by the disabled button
\* of the student client.
SubmitEmpty ==
    /\ MaySubmit /\ ~ui.filled /\ Portal
    /\ ui' = [ui EXCEPT !.refused = TRUE]
    /\ UNCHANGED <<net, srv>>

SubmitClass ==
    /\ MaySubmit /\ ui.filled /\ InFlight < MaxOpen
    /\ ui' = [ui EXCEPT !.busy = TRUE, !.refused = FALSE]
    /\ net' = [net EXCEPT !.creations =
                 @ \cup {[reply |-> "none", id |-> 0, mounted |-> TRUE, selected |-> ui.selected]}]
    /\ UNCHANGED srv

\* Then the classes are loaded.  Only the administration client comes to show
\* the code of the class: in the other one the load takes the dialog away.
Created(c) ==
    /\ c.reply = "ok"
    /\ StartLoad(IF c.mounted THEN [ui EXCEPT !.created = c.id] ELSE ui,
                 c.selected, "create", c.id, c.mounted, net.creations \ {c})
    /\ UNCHANGED srv

\* Refused, or lost before or after the class was created.
CreationFails(c) ==
    LET missed == c.reply = "ok" IN
    /\ ui' = [ui EXCEPT !.busy = @ /\ ~c.mounted, !.refused = @ \/ c.mounted,
                        !.doubt = @ \/ missed]
    /\ net' = [loads |-> [k \in DOMAIN net.loads |->
                            [net.loads[k] EXCEPT !.late = @ \/ missed]],
               creations |-> net.creations \ {c}]
    /\ UNCHANGED srv

\* Cancelling, or a click beside the dialog, even while the class is created.
CloseDialog ==
    /\ DialogShown
    /\ ui' = [ui EXCEPT !.open = FALSE,
                        !.filled = @ /\ Portal, !.busy = @ /\ Portal, !.refused = @ /\ Portal]
    /\ net' = [net EXCEPT !.creations = {HiddenFor(c) : c \in @}]
    /\ UNCHANGED srv

\* To the page of the class that was created: the page of classes is left.
GoToClass ==
    /\ Portal /\ DialogShown /\ ui.created # 0
    /\ ui' = Synced(Select(ui.created, ui))
    /\ net' = Detached(net)
    /\ Overtaken

-----------------------------------------------------------------------------
Next ==
    \/ \E k \in DOMAIN net.loads : ServeLoad(k) \/ Loaded(k) \/ LoadFails(k)
    \/ \E c \in net.creations : ServeCreation(c) \/ Created(c) \/ CreationFails(c)
    \/ \E id \in SchoolClasses : Removed(id) \/ SelectClass(id)
    \/ Sync \/ Retry \/ OpenCreate \/ FillIn \/ SubmitEmpty \/ SubmitClass
    \/ CloseDialog \/ GoToClass

Spec == Init /\ [][Next]_vars

-----------------------------------------------------------------------------
(* Properties. *)

\* When nothing is in flight the classes are those stored, and the selected one
\* is among them and is the one the browser keeps, though loads overlap: unless
\* the last answer was late, a creation's answer was lost or a class was taken
\* away since.  For the selected one nothing must have been in flight when a
\* class was taken away or, in the administration client, another selected.
ShownIsCurrent ==
    net.loads = <<>> /\ net.creations = {} /\ ~ui.error /\ ~ui.doubt =>
        /\ ui.shown = srv.live
        /\ srv.overtaken \/ ui.selected \in ui.shown \/ (ui.shown = {} /\ ui.selected = 0)
        /\ ui.kept = ui.selected
=============================================================================
