-------------------------- MODULE GenerateDialogs --------------------------
(***************************************************************************)
(* The dialogs in which staff have a challenge generated, on three pages   *)
(* of the administration client: a class (ClassDetailPage.jsx), the        *)
(* curriculum (SubjectsPage.jsx) and the register of challenges            *)
(* (ChallengesPage.jsx).  Each asks for a job and then polls its status at *)
(* an interval that does not wait for the poll before: polls may be in     *)
(* flight together, and one may be answered after another one has settled  *)
(* the job.  Other staff publish and archive challenges meanwhile.         *)
(* MaxPolls bounds the polls in flight.                                    *)
(***************************************************************************)
EXTENDS Naturals, FiniteSets

CONSTANTS MaxJobs,    \* how many jobs the model creates
          MaxPolls,   \* polls in flight at once
          PollLimit   \* maxAttempts: 30 in the code

VARIABLES
    ui,    \* the page and its dialog
    net,   \* the request of the dialog, the polls in flight
    srv    \* the status of the challenge that each job generates

vars == <<ui, net, srv>>

Job == 1 .. MaxJobs
Status == {"PENDING", "READY", "FAILED", "ARCHIVED"}
Poll == [slot : 1 .. MaxPolls, job : Job, reply : Status \cup {"sent"}]

TypeOK ==
    /\ ui \in [page : {"class", "subjects", "challenges"},
               topic : BOOLEAN,                \* a topic is chosen
               open : BOOLEAN, generating : BOOLEAN,
               error : BOOLEAN,                \* an error is shown
               job : Job \cup {0},             \* history: the job of the dialog
               told : Job \cup {0},            \* history: the job whose outcome ended it
               ticking : SUBSET Job,           \* the intervals that are set
               count : [Job -> 0 .. PollLimit],
               closing : [Job -> 0 .. MaxPolls]]  \* the timers that will close it
    /\ net \in [ask : {"none", "sent", "made"}, made : Job \cup {0}, polls : SUBSET Poll,
                load : BOOLEAN]                \* the list is being loaded
    /\ srv \in [status : [Job -> Status \cup {"none"}],
                overtaken : BOOLEAN]           \* history: a poll came after the outcome

Fresh(page) ==
    [page |-> page, topic |-> FALSE, open |-> FALSE,
     generating |-> FALSE, error |-> FALSE, job |-> 0, told |-> 0,
     ticking |-> {}, count |-> [j \in Job |-> 0],
     closing |-> [j \in Job |-> 0]]
Loading == [ask |-> "none", made |-> 0, polls |-> {}, load |-> TRUE]

Init ==
    /\ \E page \in {"class", "subjects", "challenges"} : ui = Fresh(page)
    /\ net = Loading
    /\ srv = [status |-> [j \in Job |-> "none"], overtaken |-> FALSE]

-----------------------------------------------------------------------------
(* The list, which names the topics of the dialog. *)

\* The first topic found is chosen unless one is.
Loaded ==
    /\ net.load
    /\ ui' = [ui EXCEPT !.topic = TRUE]
    /\ net' = [net EXCEPT !.load = FALSE]
    /\ UNCHANGED srv

\* Also when a part of the list fails, which is passed over in silence, or no
\* topic is found.
LoadFails ==
    /\ net.load
    /\ net' = [net EXCEPT !.load = FALSE]
    /\ UNCHANGED <<ui, srv>>

\* What an open dialog offers.  While it waits it shows nothing but its
\* progress, and neither its buttons nor Escape nor a click beside it close it.
ClassDialog == IF ui.generating THEN {} ELSE {"topic", "ask", "close"}

ChallengesDialog == IF ui.generating THEN {} ELSE {"topic", "ask", "close"}

\* The dialog of one topic: there is none to choose.
SubjectsDialog == IF ui.generating THEN {} ELSE {"ask", "close"}

Offered ==
    IF ~ui.open THEN {}
    ELSE CASE ui.page = "class" -> ClassDialog
           [] ui.page = "challenges" -> ChallengesDialog
           [] ui.page = "subjects" -> SubjectsDialog

\* Choosing another topic loads the list again: the load depends on it.
ChooseTopic ==
    /\ "topic" \in Offered /\ ui.topic
    /\ net' = [net EXCEPT !.load = TRUE]
    /\ UNCHANGED <<ui, srv>>

\* The refresh button of the frame mounts the page anew.
Refresh ==
    /\ ~ui.open
    /\ ui' = Fresh(ui.page) /\ net' = Loading
    /\ UNCHANGED srv

-----------------------------------------------------------------------------
(* Opening and closing. *)

Opened == [ui EXCEPT !.open = TRUE, !.error = FALSE]

\* The button of the tab of challenges; the one of the empty list is not drawn
\* (EmptyState.jsx).
OpenOnClass == ui.page = "class" /\ ui' = Opened

OpenOnChallenges == ui.page = "challenges" /\ ui' = Opened

\* The button of a topic.
OpenOnSubjects ==
    /\ ui.page = "subjects" /\ ui.topic
    /\ ui' = Opened

Open ==
    /\ ~ui.open
    /\ OpenOnClass \/ OpenOnChallenges \/ OpenOnSubjects
    /\ UNCHANGED <<net, srv>>

Close ==
    /\ "close" \in Offered
    /\ ui' = [ui EXCEPT !.open = FALSE]
    /\ UNCHANGED <<net, srv>>

-----------------------------------------------------------------------------
(* Asking. *)

\* The model forgets an earlier request that is still in flight.
Ask ==
    /\ ui' = [ui EXCEPT !.generating = TRUE, !.error = FALSE, !.job = 0, !.told = 0]
    /\ net' = [net EXCEPT !.ask = "sent"]

\* A topic must have been chosen.
AskOnClass ==
    /\ ui.page = "class"
    /\ IF ui.topic THEN Ask ELSE ui' = [ui EXCEPT !.error = TRUE] /\ UNCHANGED net

AskOnChallenges ==
    /\ ui.page = "challenges"
    /\ IF ui.topic THEN Ask ELSE ui' = [ui EXCEPT !.error = TRUE] /\ UNCHANGED net

AskOnSubjects == ui.page = "subjects" /\ Ask

TriggerGeneration ==
    /\ "ask" \in Offered
    /\ AskOnClass \/ AskOnChallenges \/ AskOnSubjects
    /\ UNCHANGED srv

Unused == {j \in Job : srv.status[j] = "none"}

ServeAsk ==
    /\ net.ask = "sent"
    /\ \E j \in Unused :
          /\ \A k \in Unused : j =< k
          /\ srv' = [srv EXCEPT !.status[j] = "PENDING"]
          /\ net' = [net EXCEPT !.ask = "made", !.made = j]
    /\ UNCHANGED ui

\* The interval is set once the job is known.
Asked ==
    /\ net.ask = "made"
    /\ ui' = [ui EXCEPT !.job = net.made, !.ticking = @ \cup {net.made}]
    /\ net' = [net EXCEPT !.ask = "none", !.made = 0]
    /\ UNCHANGED srv

\* Refused, or lost before or after it was served.
AskFails ==
    /\ net.ask # "none"
    /\ ui' = [ui EXCEPT !.generating = FALSE, !.error = TRUE]
    /\ net' = [net EXCEPT !.ask = "none", !.made = 0]
    /\ UNCHANGED srv

-----------------------------------------------------------------------------
(* Polling. *)

\* A run of a job ends, whatever has become of its challenge.  There may be
\* more than one: a failed job can be put back, and a slow one is run again.
JobEnds(j) ==
    /\ srv.status[j] # "none"
    /\ \E end \in {"READY", "FAILED"} : srv' = [srv EXCEPT !.status[j] = end]
    /\ UNCHANGED <<ui, net>>

\* A challenge is published or archived: nothing is asked of the status it has.
UpdateStatus(j) ==
    /\ srv.status[j] # "none"
    /\ \E to \in {"READY", "ARCHIVED"} : srv' = [srv EXCEPT !.status[j] = to]
    /\ UNCHANGED <<ui, net>>

Least(n, m) == IF n < m THEN n ELSE m

Tick(j) ==
    /\ j \in ui.ticking
    /\ ui' = [ui EXCEPT !.count[j] = Least(@ + 1, PollLimit)]
    /\ \E slot \in 1 .. MaxPolls :
          /\ \A p \in net.polls : p.slot < slot
          /\ net' = [net EXCEPT !.polls = @ \cup {[slot |-> slot, job |-> j, reply |-> "sent"]}]
    /\ UNCHANGED srv

ServePoll(p) ==
    /\ p.reply = "sent"
    /\ net' = [net EXCEPT !.polls = (@ \ {p}) \cup {[p EXCEPT !.reply = srv.status[p.job]]}]
    /\ UNCHANGED <<ui, srv>>

\* Mutant: the interval is not cleared.
SettledBug(j) == ui

\* clearInterval.
Settled(j) ==
    [ui EXCEPT !.ticking = @ \ {j}]

\* Mutant: the error is shown, and the dialog goes on waiting.
GivenUpBug(u, p) == [u EXCEPT !.error = TRUE]

GivenUp(u, p) ==
    [u EXCEPT !.error = TRUE, !.generating = FALSE,
              !.told = IF u.generating THEN p.job ELSE @]

PolledReady(p) ==
    /\ p.reply = "READY"
    /\ ui' = [Settled(p.job) EXCEPT !.closing[p.job] = @ + 1]

PolledFailed(p) ==
    /\ p.reply = "FAILED"
    /\ ui' = GivenUp(Settled(p.job), p)

\* Any other status, ARCHIVED too: it waits on, however many polls there were.
PolledOther(p) ==
    /\ p.reply \in Status \ {"READY", "FAILED"}
    /\ UNCHANGED ui

\* Only a poll that fails gives up after PollLimit of them.
PollLost(p) ==
    ui' = IF ui.count[p.job] >= PollLimit THEN GivenUp(Settled(p.job), p) ELSE ui

PollOnClass(p) ==
    /\ ui.page = "class"
    /\ PolledReady(p) \/ PolledFailed(p) \/ PolledOther(p) \/ PollLost(p)

PollOnSubjects(p) ==
    /\ ui.page = "subjects"
    /\ PolledReady(p) \/ PolledFailed(p) \/ PolledOther(p) \/ PollLost(p)

PollOnChallenges(p) ==
    /\ ui.page = "challenges"
    /\ PolledReady(p) \/ PolledFailed(p) \/ PolledOther(p) \/ PollLost(p)

PollEnds(p) ==
    /\ PollOnClass(p) \/ PollOnSubjects(p) \/ PollOnChallenges(p)
    /\ net' = [net EXCEPT !.polls = @ \ {p}]
    /\ srv' = [srv EXCEPT !.overtaken = @ \/ (p.job \notin ui.ticking /\ ui' # ui)]

\* A timer of a job that is ready closes the dialog, whatever it shows now,
\* and the list is loaded again where it is one of challenges.
CloseWhenReady(j) ==
    /\ ui.closing[j] > 0
    /\ ui' = [ui EXCEPT !.open = FALSE, !.generating = FALSE, !.closing[j] = @ - 1,
                        !.told = IF ui.generating THEN j ELSE @]
    /\ net' = [net EXCEPT !.load = @ \/ ui.page # "subjects"]
    /\ UNCHANGED srv

-----------------------------------------------------------------------------
Answers == ServeAsk \/ Asked \/ AskFails

Next ==
    \/ Loaded \/ LoadFails \/ Refresh \/ ChooseTopic
    \/ Open \/ Close \/ TriggerGeneration \/ Answers
    \/ \E j \in Job : JobEnds(j) \/ UpdateStatus(j) \/ Tick(j) \/ CloseWhenReady(j)
    \/ \E p \in net.polls : ServePoll(p) \/ PollEnds(p)

Spec == Init /\ [][Next]_vars

-----------------------------------------------------------------------------
(* What MCPages asks of these dialogs. *)

\* A dialog that waits is ended by the outcome of the job it asked for and not
\* by an earlier one's, unless a poll was answered after another poll had
\* settled that job: nothing tells the two apart (setInterval, clearInterval).
OutcomeIsOfTheJob == ui.told \in {0, ui.job} \/ srv.overtaken

\* The challenge that the dialog waits for is archived.
WaitsForArchived == ui.job \in Job /\ srv.status[ui.job] = "ARCHIVED"
=============================================================================
