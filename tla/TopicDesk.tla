----------------------------- MODULE TopicDesk -----------------------------
(***************************************************************************)
(* The challenges of a topic on the teacher's page of the student client   *)
(* (pages/teacher/TeacherTopicPage.jsx on lib/useApiData.js).  Every row   *)
(* of a challenge that is being generated asks for its status again and    *)
(* again; whatever changes, the page is loaded anew, which takes all rows  *)
(* off the page and cancels their polls.  Other staff publish and archive  *)
(* challenges meanwhile.                                                   *)
(***************************************************************************)
EXTENDS Naturals, FiniteSets

CONSTANTS Challenges,  \* numbers
          MaxPatches   \* changes in flight at once

VARIABLES
    ui,    \* the page and its rows
    net,   \* the load, the polls, the changes of a status, the generation asked for
    srv    \* the status of each challenge

vars == <<ui, net, srv>>

\* A job writes PROCESSING in the transaction that ends it: nobody reads it.
Status == {"PENDING", "READY", "FAILED", "ARCHIVED"}
Moving == {"PENDING", "PROCESSING"}
Rows == [Challenges -> Status \cup {"none"}]
NoRows == [c \in Challenges |-> "none"]

TypeOK ==
    /\ ui \in [view : {"loading", "ready", "error"}, rows : Rows,
               timers : SUBSET Challenges,          \* the rows that wait 1.5 s
               busy : SUBSET Challenges,            \* the rows whose button is disabled
               generating : BOOLEAN, genError : BOOLEAN]
    /\ net \in [load : {"none", "sent", "served"}, found : Rows,
                polls : [Challenges -> {"none", "sent"} \cup Status],
                patches : SUBSET [challenge : Challenges, to : Status,
                                  reply : {"none", "ok", "refused"},
                                  mounted : BOOLEAN],   \* its row is still on the page
                generate : {"none", "sent", "ok", "refused"}]
    /\ srv \in Rows
    /\ \A c \in Challenges : ui.rows[c] = "none" =>      \* a row that is gone asks no more
          c \notin ui.timers \cup ui.busy /\ net.polls[c] = "none"

NoPolls == [c \in Challenges |-> "none"]

\* One challenge may be generated, the others have been.
Init ==
    /\ ui = [view |-> "loading", rows |-> NoRows, timers |-> {}, busy |-> {},
             generating |-> FALSE, genError |-> FALSE]
    /\ net = [load |-> "sent", found |-> NoRows, polls |-> NoPolls, patches |-> {}, generate |-> "none"]
    /\ srv \in {[c \in Challenges |-> IF c = 1 THEN s ELSE "READY"] : s \in {"none", "PENDING"}}

-----------------------------------------------------------------------------
(* The server. *)

ServeLoad ==
    /\ net.load = "sent"
    /\ net' = [net EXCEPT !.load = "served", !.found = srv]
    /\ UNCHANGED <<ui, srv>>

ServePoll(c) ==
    /\ net.polls[c] = "sent"
    /\ net' = [net EXCEPT !.polls[c] = srv[c]]
    /\ UNCHANGED <<ui, srv>>

\* update_challenge_status asks nothing of the status there was.
ServePatch(p) ==
    /\ p.reply = "none"
    /\ \/ /\ srv' = [srv EXCEPT ![p.challenge] = p.to]
          /\ net' = [net EXCEPT !.patches = (@ \ {p}) \cup {[p EXCEPT !.reply = "ok"]}]
       \/ /\ net' = [net EXCEPT !.patches = (@ \ {p}) \cup {[p EXCEPT !.reply = "refused"]}]
          /\ UNCHANGED srv
    /\ UNCHANGED ui

\* A generation is refused when a quota is used up.
ServeGenerate ==
    /\ net.generate = "sent"
    /\ \/ \E c \in Challenges :
             /\ srv[c] = "none"
             /\ srv' = [srv EXCEPT ![c] = "PENDING"]
             /\ net' = [net EXCEPT !.generate = "ok"]
       \/ net' = [net EXCEPT !.generate = "refused"] /\ UNCHANGED srv
    /\ UNCHANGED ui

\* A run of a job ends, whatever has become of its challenge.  There may be
\* more than one: a failed job can be put back, and a slow one is run again.
JobEnds(c) ==
    /\ srv[c] # "none"
    /\ \E end \in {"READY", "FAILED"} : srv' = [srv EXCEPT ![c] = end]
    /\ UNCHANGED <<ui, net>>

\* Other staff publish or archive a challenge.
UpdateStatus(c) ==
    /\ srv[c] # "none"
    /\ \E to \in {"READY", "ARCHIVED"} : srv' = [srv EXCEPT ![c] = to]
    /\ UNCHANGED <<ui, net>>

-----------------------------------------------------------------------------
(* The page. *)

\* Mutant: the answer to a poll reaches a row that is gone.
CancelledBug(polls) == polls

\* The effect's clean-up: of every poll under way the answer is dropped.
Cancelled(polls) == NoPolls

\* run(): until it is answered the page shows nothing else.  An earlier load
\* is forgotten; a change of a status goes on without its row.
Reload(u, n) ==
    /\ ui' = [u EXCEPT !.view = "loading", !.rows = NoRows, !.timers = {}, !.busy = {}]
    /\ net' = [n EXCEPT !.load = "sent", !.found = NoRows, !.polls = Cancelled(@),
                        !.patches = {[p EXCEPT !.mounted = FALSE] : p \in @}]

\* Mutant: only the row of a job that has started is polled.
PolledStatusesBug == {"PROCESSING"}

PolledStatuses == {"PENDING", "PROCESSING"}

Waiting(rows) == {c \in Challenges : rows[c] \in PolledStatuses}

Loaded ==
    /\ net.load = "served"
    /\ ui' = [ui EXCEPT !.view = "ready", !.rows = net.found, !.timers = Waiting(net.found)]
    /\ net' = [net EXCEPT !.load = "none", !.found = NoRows]
    /\ UNCHANGED srv

LoadFails ==
    /\ net.load # "none"
    /\ ui' = [ui EXCEPT !.view = "error"]
    /\ net' = [net EXCEPT !.load = "none", !.found = NoRows]
    /\ UNCHANGED srv

RetryLoad == ui.view = "error" /\ Reload(ui, net) /\ UNCHANGED srv

-----------------------------------------------------------------------------
(* A row. *)

Tick(c) ==
    /\ c \in ui.timers
    /\ ui' = [ui EXCEPT !.timers = @ \ {c}]
    /\ net' = [net EXCEPT !.polls[c] = "sent"]
    /\ UNCHANGED srv

\* A status that has changed ends the polls of the row, and the page is loaded.
PollChanged(c) ==
    /\ net.polls[c] \in Status \ {ui.rows[c]}
    /\ Reload(ui, net)
    /\ UNCHANGED srv

\* The same status, or an error.
PollAgain(c) ==
    /\ net.polls[c] # "none"
    /\ ui' = [ui EXCEPT !.timers = @ \cup {c}]
    /\ net' = [net EXCEPT !.polls[c] = "none"]
    /\ UNCHANGED srv

\* The button of a row: a challenge is ready or archived.
RowButton(c) == CASE ui.rows[c] = "READY" -> {"ARCHIVED"}
                  [] ui.rows[c] = "ARCHIVED" -> {"READY"}
                  [] OTHER -> {}

SetChallengeStatus(c, to) ==
    /\ to \in RowButton(c) /\ c \notin ui.busy /\ Cardinality(net.patches) < MaxPatches
    /\ ui' = [ui EXCEPT !.busy = @ \cup {c}]
    /\ net' = [net EXCEPT !.patches = @ \cup {[challenge |-> c, to |-> to, reply |-> "none",
                                               mounted |-> TRUE]}]
    /\ UNCHANGED srv

\* Whether its row is still there or not.
PatchAnswered(p) ==
    /\ p.reply = "ok"
    /\ Reload(ui, [net EXCEPT !.patches = @ \ {p}])
    /\ UNCHANGED srv

\* Refused, or lost on its way there or back.
PatchFails(p) ==
    /\ ui' = IF p.mounted THEN [ui EXCEPT !.busy = @ \ {p.challenge}] ELSE ui
    /\ net' = [net EXCEPT !.patches = @ \ {p}]
    /\ UNCHANGED srv

-----------------------------------------------------------------------------
(* The button that generates a challenge. *)

HandleGenerate ==
    /\ ui.view = "ready" /\ ~ui.generating
    /\ ui' = [ui EXCEPT !.generating = TRUE, !.genError = FALSE]
    /\ net' = [net EXCEPT !.generate = "sent"]
    /\ UNCHANGED srv

Generated ==
    /\ net.generate = "ok"
    /\ Reload([ui EXCEPT !.generating = FALSE], [net EXCEPT !.generate = "none"])
    /\ UNCHANGED srv

\* Also when the answer is lost: the new challenge is not shown then.
GenerateFails ==
    /\ net.generate # "none"
    /\ ui' = [ui EXCEPT !.generating = FALSE, !.genError = TRUE]
    /\ net' = [net EXCEPT !.generate = "none"]
    /\ UNCHANGED srv

-----------------------------------------------------------------------------
Row(c) == Tick(c) \/ ServePoll(c) \/ PollChanged(c) \/ PollAgain(c)

Next ==
    \/ ServeLoad \/ Loaded \/ LoadFails \/ RetryLoad
    \/ HandleGenerate \/ ServeGenerate \/ Generated \/ GenerateFails
    \/ \E c \in Challenges :
          \/ JobEnds(c) \/ UpdateStatus(c) \/ Row(c)
          \/ \E to \in Status : SetChallengeStatus(c, to)
    \/ \E p \in net.patches : ServePatch(p) \/ PatchAnswered(p) \/ PatchFails(p)

Spec == Init /\ [][Next]_vars

-----------------------------------------------------------------------------
(* What MCPages asks of this page. *)

\* The row of a challenge shows that it is being generated, and that it is not.
RowWaits(c) == ui.rows[c] \in Moving
RowSettled(c) == ui.rows[c] \in Status \ Moving \/ ui.view = "error"
=============================================================================
