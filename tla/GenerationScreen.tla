-------------------------- MODULE GenerationScreen --------------------------
(***************************************************************************)
(* Asking for a challenge and waiting for it in the student client: the    *)
(* topic page that requests one (pages/TopicDetailPage.jsx) and the page   *)
(* that polls its job until it is ready, starts it, or asks for another    *)
(* when it failed (pages/ChallengeIntroPage.jsx, lib/useApiData.js).       *)
(* Meanwhile the job ends, staff publish and archive challenges, and a     *)
(* request may be lost.                                                    *)
(***************************************************************************)
EXTENDS Naturals

CONSTANT MaxChallenges   \* how many challenges the model generates

VARIABLES
    ui,    \* the page shown, and its state
    net,   \* its load, its poll and the request of its button
    srv    \* the status of each challenge

vars == <<ui, net, srv>>

Id == 1 .. MaxChallenges
NoId == 0
\* A job writes PROCESSING in the transaction that ends it: nobody reads it.
Status == {"PENDING", "READY", "FAILED", "ARCHIVED"}
Open == {"PENDING", "PROCESSING"}
Reply == Status \cup {"none", "sent"}

TypeOK ==
    /\ ui \in [page : {"topic", "intro", "attempt", "away"},
               id : Id \cup {NoId},                \* the challenge of the address
               data : Status \cup {"none"}, dataId : Id \cup {NoId},
               loading : BOOLEAN, error : BOOLEAN,
               busy : BOOLEAN, refused : BOOLEAN,  \* the page's button and its error
               polled : {NoId} \cup Id]            \* what the poll effect last ran for
    /\ net \in [load : Reply, poll : Reply \cup {"timer"},
                button : {"none", "generate", "start", "generated", "started", "error"},
                made : Id \cup {NoId}]
    /\ srv \in [status : [Id -> Status \cup {"none"}]]

Blank == [page |-> "topic", id |-> NoId, data |-> "none", dataId |-> NoId,
          loading |-> FALSE, error |-> FALSE, busy |-> FALSE, refused |-> FALSE,
          polled |-> NoId]
Quiet == [load |-> "none", poll |-> "none", button |-> "none", made |-> NoId]

Init ==
    /\ ui = Blank
    /\ net = Quiet
    /\ srv = [status |-> [c \in Id |-> "none"]]

IsGenerating(u) == u.data \in Open
Settled == ui.page = "intro" /\ ~ui.loading /\ ~ui.error

\* The poll effect of a render: it runs again when isGenerating or the
\* challenge has changed, ending the chain of polls it had started.
Render(u, n) ==
    LET wanted == IF u.page = "intro" /\ IsGenerating(u) THEN u.id ELSE NoId IN
    /\ ui' = [u EXCEPT !.polled = wanted]
    /\ net' = IF wanted = u.polled THEN n
              ELSE [n EXCEPT !.poll = IF wanted = NoId THEN "none" ELSE "timer"]

\* useApiData: run() shows the loader and keeps the data it had.
StartLoad(u) == [u EXCEPT !.loading = TRUE, !.error = FALSE]

-----------------------------------------------------------------------------
(* The server. *)

Unused == {c \in Id : srv.status[c] = "none"}
NextId == CHOOSE c \in Unused : \A d \in Unused : c =< d

ServeGenerate ==
    /\ net.button = "generate"
    /\ \/ /\ Unused # {}
          /\ srv' = [srv EXCEPT !.status[NextId] = "PENDING"]
          /\ net' = [net EXCEPT !.button = "generated", !.made = NextId]
       \/ net' = [net EXCEPT !.button = "error"] /\ UNCHANGED srv
    /\ UNCHANGED ui

ServeStart ==
    /\ net.button = "start"
    /\ net' = [net EXCEPT !.button = IF srv.status[ui.id] = "READY" THEN "started"
                                     ELSE "error"]
    /\ UNCHANGED <<ui, srv>>

ServeLoad ==
    /\ net.load = "sent"
    /\ net' = [net EXCEPT !.load = srv.status[ui.id]]
    /\ UNCHANGED <<ui, srv>>

ServePoll ==
    /\ net.poll = "sent"
    /\ net' = [net EXCEPT !.poll = srv.status[ui.id]]
    /\ UNCHANGED <<ui, srv>>

\* A run of a job ends, whatever has become of its challenge.  There may be
\* more than one: a failed job can be put back, and a slow one is run again.
JobEnds(c) ==
    /\ srv.status[c] # "none"
    /\ \E end \in {"READY", "FAILED"} : srv' = [srv EXCEPT !.status[c] = end]
    /\ UNCHANGED <<ui, net>>

\* Staff publish or archive a challenge: nothing is asked of the status it has.
UpdateStatus(c) ==
    /\ srv.status[c] # "none"
    /\ \E to \in {"READY", "ARCHIVED"} : srv' = [srv EXCEPT !.status[c] = to]
    /\ UNCHANGED <<ui, net>>

-----------------------------------------------------------------------------
(* The pages. *)

RetryOffered == Settled /\ ui.data = "FAILED" /\ ~ui.busy
\* Also of a challenge that is archived.
StartOffered == Settled /\ ui.data \in {"READY", "ARCHIVED"} /\ ~ui.busy

Generate ==
    /\ net.button = "none"
    /\ ui' = [ui EXCEPT !.busy = TRUE, !.refused = FALSE]
    /\ net' = [net EXCEPT !.button = "generate"]
    /\ UNCHANGED srv

\* The button of the topic page.
HandleGenerate == ui.page = "topic" /\ ~ui.busy /\ Generate

\* The button of a challenge that failed.
HandleRetry == RetryOffered /\ Generate

HandleStart ==
    /\ StartOffered /\ net.button = "none"
    /\ ui' = [ui EXCEPT !.busy = TRUE, !.refused = FALSE]
    /\ net' = [net EXCEPT !.button = "start"]
    /\ UNCHANGED srv

\* The address changes to the new challenge, and its load starts.  A page
\* that already shows a challenge keeps its state.
Generated ==
    LET id == net.made
        u == IF ui.page = "intro" THEN ui ELSE [Blank EXCEPT !.page = "intro"]
    IN
    /\ net.button = "generated"
    /\ Render(StartLoad([u EXCEPT !.id = id, !.busy = FALSE]),
              [net EXCEPT !.button = "none", !.made = NoId, !.load = "sent"])
    /\ UNCHANGED srv

\* Wherever the student is by then.
Started ==
    /\ net.button = "started"
    /\ ui' = [Blank EXCEPT !.page = "attempt"]
    /\ net' = Quiet
    /\ UNCHANGED srv

ButtonFails ==
    /\ net.button # "none"
    /\ ui' = IF ui.page = "away" THEN ui
             ELSE [ui EXCEPT !.busy = FALSE, !.refused = TRUE]
    /\ net' = [net EXCEPT !.button = "none", !.made = NoId]
    /\ UNCHANGED srv

Loaded ==
    /\ net.load \in Status
    /\ Render([ui EXCEPT !.data = net.load, !.dataId = ui.id, !.loading = FALSE],
              [net EXCEPT !.load = "none"])
    /\ UNCHANGED srv

LoadFails ==
    /\ net.load # "none"
    /\ Render([ui EXCEPT !.data = "none", !.dataId = NoId, !.loading = FALSE, !.error = TRUE],
              [net EXCEPT !.load = "none"])
    /\ UNCHANGED srv

RetryLoad ==
    /\ ui.page = "intro" /\ ui.error
    /\ Render(StartLoad(ui), [net EXCEPT !.load = "sent"])
    /\ UNCHANGED srv

Tick ==
    /\ net.poll = "timer"
    /\ net' = [net EXCEPT !.poll = "sent"]
    /\ UNCHANGED <<ui, srv>>

\* The outcome of a job ends the chain of polls and loads the challenge; after
\* any other status, ARCHIVED too, the polls go on.
Polled ==
    /\ net.poll \in Status
    /\ IF net.poll \in {"READY", "FAILED"}
       THEN Render(StartLoad(ui), [net EXCEPT !.poll = "none", !.load = "sent"])
       ELSE net' = [net EXCEPT !.poll = "timer"] /\ UNCHANGED ui
    /\ UNCHANGED srv

\* Mutant: a failed poll ends the chain.
PollFailsBug ==
    /\ net.poll \in Status \cup {"sent"}
    /\ net' = [net EXCEPT !.poll = "none"]
    /\ UNCHANGED <<ui, srv>>

PollFails ==
    /\ net.poll \in Status \cup {"sent"}
    /\ net' = [net EXCEPT !.poll = "timer"]
    /\ UNCHANGED <<ui, srv>>

\* Leaving abandons the load and the poll; the answer to a button may follow.
Leave ==
    /\ ui.page \in {"topic", "intro"}
    /\ ui' = [Blank EXCEPT !.page = "away", !.id = ui.id]
    /\ net' = [net EXCEPT !.load = "none", !.poll = "none"]
    /\ UNCHANGED srv

-----------------------------------------------------------------------------
Server == ServeGenerate \/ ServeStart \/ ServeLoad
Browser == Generated \/ Started \/ ButtonFails \/ Loaded \/ LoadFails \/ Tick

Next ==
    \/ Server \/ ServePoll \/ \E c \in Id : JobEnds(c) \/ UpdateStatus(c)
    \/ Browser \/ HandleGenerate \/ HandleRetry \/ HandleStart \/ RetryLoad
    \/ Polled \/ PollFails \/ Leave

Spec == Init /\ [][Next]_vars

-----------------------------------------------------------------------------
(* What MCPages asks of this page. *)

\* The student sees that the generation is going on.
SeesGenerating == Settled /\ IsGenerating(ui)

\* The challenge shown is archived.
Archived == srv.status[ui.id] = "ARCHIVED"
=============================================================================
