------------------------------ MODULE Reports ------------------------------
(***************************************************************************)
(* Pages of the administration client whose loads depend on what somebody  *)
(* selects and are neither cancelled nor ordered: DashboardPage.jsx and    *)
(* LeaderboardPage.jsx of a class, AdminUsersPage.jsx with its dialog to   *)
(* block a user, and AiJobsPage.jsx with its button to retry a job.  Three *)
(* of them load two things at once, a main one and a side one.  The        *)
(* endpoints are those of routes/admin.py and routes/teacher.py.           *)
(***************************************************************************)
EXTENDS Naturals, FiniteSets

CONSTANTS Selections,  \* classes and periods, or filters: numbers
          MaxAsked,    \* requests at once
          MaxVersion   \* changes to what is stored

VARIABLES
    ui,    \* the page
    net,   \* its loads and its changes; those that are alike count as one
    srv    \* the number of changes stored

vars == <<ui, net, srv>>

Pages == {"dashboard", "leaderboard", "users", "jobs"}
Nothing == [of |-> 0, version |-> 0]
Content == [of : Selections \cup {0}, version : 0 .. MaxVersion]
Load == [of : Selections, served : BOOLEAN, version : 0 .. MaxVersion,
         late : BOOLEAN,        \* history: a change was stored since
         overtaken : BOOLEAN,   \* history: something else was selected since
         after : BOOLEAN]       \* it follows a change
Change == [of : Selections, reply : {"none", "ok", "refused"}, overtaken : BOOLEAN]

TypeOK ==
    /\ ui \in [page : Pages, of : Selections, main : Content, side : Content,
               loading : BOOLEAN, error : BOOLEAN,
               open : BOOLEAN, busy : BOOLEAN,          \* the dialog of a user
               doubt : BOOLEAN, sideLost : BOOLEAN]     \* history: may be wrong, is old
    /\ net.loads \subseteq Load /\ net.changes \subseteq Change
    /\ srv \in 0 .. MaxVersion

NewLoad(of, overtaken, after) ==
    [of |-> of, served |-> FALSE, version |-> 0,
     late |-> FALSE, overtaken |-> overtaken, after |-> after]

Init ==
    \E page \in Pages, of \in Selections :
        /\ ui = [page |-> page, of |-> of, main |-> Nothing, side |-> Nothing,
                 loading |-> TRUE, error |-> FALSE, open |-> FALSE, busy |-> FALSE,
                 doubt |-> FALSE, sideLost |-> TRUE]
        /\ net = [loads |-> {NewLoad(of, FALSE, FALSE)}, changes |-> {}]
        /\ srv = 0

Asked == Cardinality(net.loads) + Cardinality(net.changes)
Sides == ui.page # "leaderboard"

-----------------------------------------------------------------------------
(* The server. *)

\* A change is stored: an answer that was read before it is late.
Store(changes) ==
    /\ srv < MaxVersion /\ srv' = srv + 1
    /\ net' = [loads |-> {[r EXCEPT !.late = @ \/ r.served] : r \in net.loads},
               changes |-> changes]

\* Somebody else's.
OtherChange ==
    /\ Store(net.changes)
    /\ ui' = [ui EXCEPT !.doubt = TRUE]

\* admin_update_user_status and admin_retry_ai_job; both may refuse.
ServeChange(c) ==
    LET answered(reply) == (net.changes \ {c}) \cup {[c EXCEPT !.reply = reply]} IN
    /\ c.reply = "none"
    /\ \/ Store(answered("ok"))
       \/ net' = [net EXCEPT !.changes = answered("refused")] /\ UNCHANGED srv
    /\ UNCHANGED ui

\* Both things are read at about the same time.
ServeLoad(r) ==
    /\ ~r.served
    /\ net' = [net EXCEPT !.loads = (@ \ {r}) \cup {[r EXCEPT !.served = TRUE, !.version = srv]}]
    /\ UNCHANGED <<ui, srv>>

-----------------------------------------------------------------------------
(* Loading. *)

StartLoad(u, load, n) ==
    /\ ui' = [u EXCEPT !.loading = TRUE, !.error = FALSE]
    /\ net' = [n EXCEPT !.loads = @ \cup {load}]
    /\ UNCHANGED srv

\* A load that ends lets another of them go on without saying so; the one that
\* follows a change ends the waiting of the dialog too.
Ended(r, u) == [u EXCEPT !.loading = FALSE, !.busy = @ /\ ~r.after]

\* The side thing may fail alone: what was there stays.
Loaded(r, both) ==
    LET content == [of |-> r.of, version |-> r.version] IN
    /\ r.served /\ (Sides \/ ~both)
    /\ ui' = Ended(r, [ui EXCEPT !.main = content, !.side = IF both THEN content ELSE @,
                                 !.sideLost = ~both, !.doubt = r.late \/ r.overtaken])
    /\ net' = [net EXCEPT !.loads = @ \ {r}]
    /\ UNCHANGED srv

\* The users are cleared; the overview above the jobs is shown all the same if
\* it came.
LoadFails(r, side) ==
    /\ side => r.served /\ ui.page = "jobs"
    /\ ui' = Ended(r, [ui EXCEPT !.error = TRUE,
                                 !.main = IF ui.page = "users" THEN Nothing ELSE @,
                                 !.side = IF side THEN [of |-> r.of, version |-> r.version]
                                          ELSE @])
    /\ net' = [net EXCEPT !.loads = @ \ {r}]
    /\ UNCHANGED srv

\* The class in the frame, the period, the filter or a letter of the search: what
\* is in flight goes on.  The dialog covers them.
Choose(of) ==
    /\ of # ui.of /\ ~ui.open /\ Asked < MaxAsked
    /\ StartLoad([ui EXCEPT !.of = of], NewLoad(of, FALSE, FALSE),
                 [loads |-> {[r EXCEPT !.overtaken = TRUE] : r \in net.loads},
                  changes |-> {[c EXCEPT !.overtaken = TRUE] : c \in net.changes}])

\* After a failure, or at any time with the button above the jobs.
Refresh ==
    /\ ~ui.loading /\ ~ui.open /\ (ui.error \/ ui.page = "jobs") /\ Asked < MaxAsked
    /\ StartLoad(ui, NewLoad(ui.of, FALSE, FALSE), net)

-----------------------------------------------------------------------------
(* Changes. *)

Listed == ~ui.loading /\ ~ui.error /\ ui.main # Nothing

SendChange ==
    /\ Asked < MaxAsked
    /\ net' = [net EXCEPT !.changes =
                 @ \cup {[of |-> ui.of, reply |-> "none", overtaken |-> FALSE]}]
    /\ UNCHANGED srv

\* handleRetryJob: the button of another job is never disabled.
RetryJob == ui.page = "jobs" /\ Listed /\ SendChange /\ UNCHANGED ui

\* The dialog opens while another user is being changed, and closes by its cross
\* meanwhile.
OpenUser ==
    /\ ui.page = "users" /\ Listed /\ ~ui.open
    /\ ui' = [ui EXCEPT !.open = TRUE]
    /\ UNCHANGED <<net, srv>>

CloseUser ==
    /\ ui.open
    /\ ui' = [ui EXCEPT !.open = FALSE]
    /\ UNCHANGED <<net, srv>>

\* handleConfirmToggle.
ConfirmUser ==
    /\ ui.open /\ ~ui.busy
    /\ ui' = [ui EXCEPT !.busy = TRUE]
    /\ SendChange

\* What was selected when the change was sent is loaded, whatever is now.
Changed(c) ==
    /\ c.reply = "ok"
    /\ StartLoad([ui EXCEPT !.open = FALSE], NewLoad(c.of, c.overtaken, TRUE),
                 [net EXCEPT !.changes = @ \ {c}])

\* Refused, or lost before or after it was stored.
ChangeFails(c) ==
    /\ ui' = [ui EXCEPT !.busy = FALSE, !.doubt = @ \/ c.reply = "ok"]
    /\ net' = [loads |-> {[r EXCEPT !.late = @ \/ c.reply = "ok"] : r \in net.loads},
               changes |-> net.changes \ {c}]
    /\ UNCHANGED srv

Next ==
    \/ \E r \in net.loads :
          ServeLoad(r) \/ \E both \in BOOLEAN : Loaded(r, both) \/ LoadFails(r, both)
    \/ \E c \in net.changes : ServeChange(c) \/ Changed(c) \/ ChangeFails(c)
    \/ \E of \in Selections : Choose(of)
    \/ OtherChange \/ Refresh \/ RetryJob \/ OpenUser \/ CloseUser \/ ConfirmUser

Spec == Init /\ [][Next]_vars

-----------------------------------------------------------------------------
(* Properties. *)

\* When nothing is in flight the page shows what is stored of what is selected,
\* this user's own changes included, and its two parts belong together: unless
\* something else was selected while the last load, or the change it followed,
\* was in flight, what is stored changed since, or the side thing failed to load.
ShownIsCurrent ==
    net.loads = {} /\ net.changes = {} /\ ~ui.error /\ ~ui.doubt =>
        /\ ui.main = [of |-> ui.of, version |-> srv]
        /\ ui.sideLost \/ ui.side = ui.main
=============================================================================
