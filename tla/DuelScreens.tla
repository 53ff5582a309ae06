---------------------------- MODULE DuelScreens ----------------------------
(***************************************************************************)
(* A duel as two students see it in the student client: the result page    *)
(* that creates it (pages/ResultPage.jsx), the page its creator watches it *)
(* on (pages/duel/DuelDetailPage.jsx on lib/useApiData.js), which loads it *)
(* again every four seconds, and the invitation the friend accepts         *)
(* (pages/duel/DuelInvitePage.jsx).  Answers may be lost or overtake each  *)
(* other; MaxLoads bounds how many loads are in flight at once.            *)
(***************************************************************************)
EXTENDS Naturals, FiniteSets

CONSTANT MaxLoads

VARIABLES
    ui,    \* the creator's page and the friend's page
    net,   \* the requests in flight
    srv    \* the duel: its kind, its status, and whether its time has run out

vars == <<ui, net, srv>>

Status == {"NONE", "WAITING", "ACTIVE", "COMPLETED"}
Moving == {"WAITING", "ACTIVE"}
Rank(s) == CASE s = "NONE" -> 0 [] s = "WAITING" -> 1 [] s = "ACTIVE" -> 2 [] s = "COMPLETED" -> 3
Load == [silent : BOOLEAN, latest : BOOLEAN, seen : Status]

TypeOK ==
    /\ ui \in [page : {"result", "detail", "away"},
               friendBusy : BOOLEAN, botBusy : BOOLEAN,  \* the two duel buttons
               duelError : BOOLEAN, invited : BOOLEAN,   \* the error, the share dialog
               linked : BOOLEAN,                         \* sessionStorage
               shown : Status, loading : BOOLEAN, error : BOOLEAN,
               friend : {"closed", "loading", "failed", "attempt"} \cup Status,
               accepting : BOOLEAN, acceptError : BOOLEAN]
    /\ net \in [loads : SUBSET Load,
                friend : {"none", "sent", "made", "exists", "error"},
                bot : {"none", "sent", "made", "error"},
                accept : {"none", "sent", "ok", "error"}]
    /\ srv \in [kind : {"none", "friend", "bot"}, status : Status, runOut : BOOLEAN]

Init ==
    /\ ui = [page |-> "result", friendBusy |-> FALSE, botBusy |-> FALSE,
             duelError |-> FALSE, invited |-> FALSE, linked |-> FALSE, shown |-> "NONE",
             loading |-> FALSE, error |-> FALSE, friend |-> "closed",
             accepting |-> FALSE, acceptError |-> FALSE]
    /\ net = [loads |-> {}, friend |-> "none", bot |-> "none", accept |-> "none"]
    /\ srv = [kind |-> "none", status |-> "NONE", runOut |-> FALSE]

-----------------------------------------------------------------------------
(* The server. *)

Create(kind, status) ==
    IF srv.kind = "none" THEN srv' = [srv EXCEPT !.kind = kind, !.status = status]
    ELSE UNCHANGED srv

\* A creator has one duel per attempt; a second request names the first.
ServeFriend ==
    /\ net.friend = "sent"
    /\ Create("friend", "WAITING")
    /\ net' = [net EXCEPT !.friend = IF srv.kind = "none" THEN "made" ELSE "exists"]
    /\ UNCHANGED ui

ServeBot ==
    /\ net.bot = "sent"
    /\ Create("bot", "COMPLETED")
    /\ net' = [net EXCEPT !.bot = "made"]
    /\ UNCHANGED ui

\* The time of an invitation runs out: what is stored stays as it is.
RunsOut ==
    /\ srv.status = "WAITING"
    /\ srv' = [srv EXCEPT !.runOut = TRUE]
    /\ UNCHANGED <<ui, net>>

Acceptable == srv.status = "WAITING" /\ ~srv.runOut

\* The error of a duel that has run out undoes the EXPIRED written before it.
\* An archived challenge, or a friend outside the class, is refused as well.
ServeAccept ==
    /\ net.accept = "sent"
    /\ \/ /\ Acceptable
          /\ srv' = [srv EXCEPT !.status = "ACTIVE"]
          /\ net' = [net EXCEPT !.accept = "ok"]
       \/ net' = [net EXCEPT !.accept = "error"] /\ UNCHANGED srv
    /\ UNCHANGED ui

\* The friend's attempt is finished, which settles the duel.
FriendFinishes ==
    /\ srv.status = "ACTIVE"
    /\ srv' = [srv EXCEPT !.status = "COMPLETED"]
    /\ UNCHANGED <<ui, net>>

-----------------------------------------------------------------------------
(* useApiData on the detail page. *)

\* Mutant: every answer is accepted, whatever was asked since.
AcceptedBug(load) == load \in net.loads

Accepted(load) == load.latest

\* run(): the loads asked for before are out of date.
Run(silent) ==
    {[load EXCEPT !.latest = FALSE] : load \in net.loads}
        \cup {[silent |-> silent, latest |-> TRUE, seen |-> "NONE"]}

ServeLoad(load) ==
    /\ load.seen = "NONE" /\ srv.status # "NONE"
    /\ net' = [net EXCEPT !.loads = (@ \ {load}) \cup {[load EXCEPT !.seen = srv.status]}]
    /\ UNCHANGED <<ui, srv>>

Loaded(load) ==
    /\ load.seen # "NONE"
    /\ net' = [net EXCEPT !.loads = @ \ {load}]
    /\ ui' = IF Accepted(load)
             THEN [ui EXCEPT !.shown = load.seen, !.loading = FALSE, !.error = FALSE]
             ELSE ui
    /\ UNCHANGED srv

\* A silent load that fails leaves what was shown.
LoadFails(load) ==
    /\ net' = [net EXCEPT !.loads = @ \ {load}]
    /\ ui' = IF ~Accepted(load) THEN ui
             ELSE IF load.silent /\ ui.shown # "NONE"
             THEN [ui EXCEPT !.loading = FALSE]
             ELSE [ui EXCEPT !.loading = FALSE, !.error = TRUE, !.shown = "NONE"]
    /\ UNCHANGED srv

\* Mutant: only an invitation is watched.
PolledBug == {"WAITING"}

Polled == Moving

\* The interval of the status shown.
Tick ==
    /\ ui.page = "detail" /\ ui.shown \in Polled
    /\ Cardinality(net.loads) < MaxLoads
    /\ net' = [net EXCEPT !.loads = Run(TRUE)]
    /\ UNCHANGED <<ui, srv>>

ReloadOffered == ui.page = "detail" /\ ~ui.loading /\ (ui.error \/ ui.shown \in Moving)

\* The refresh button and the retry of an error.
Reload ==
    /\ ReloadOffered
    /\ Cardinality(net.loads) < MaxLoads
    /\ ui' = [ui EXCEPT !.loading = TRUE, !.error = FALSE]
    /\ net' = [net EXCEPT !.loads = Run(FALSE)]
    /\ UNCHANGED srv

\* A button's answer may still come.
Leave ==
    /\ ui.page # "away" /\ ~ui.invited
    /\ ui' = [ui EXCEPT !.page = "away", !.duelError = FALSE, !.shown = "NONE", !.loading = FALSE, !.error = FALSE]
    /\ net' = [net EXCEPT !.loads = {}]
    /\ UNCHANGED srv

-----------------------------------------------------------------------------
(* The result page. *)

Opened(u) == [u EXCEPT !.page = "detail", !.linked = TRUE, !.invited = FALSE,
                       !.shown = "NONE", !.loading = TRUE, !.error = FALSE]
OpenLoads == {[silent |-> FALSE, latest |-> TRUE, seen |-> "NONE"]}

DuelOffered == ui.page = "result" /\ ~ui.linked /\ ~ui.invited

ChallengeFriend ==
    /\ DuelOffered /\ ~ui.friendBusy
    /\ ui' = [ui EXCEPT !.friendBusy = TRUE, !.duelError = FALSE]
    /\ net' = [net EXCEPT !.friend = "sent"]
    /\ UNCHANGED srv

BotDuel ==
    /\ DuelOffered /\ ~ui.botBusy
    /\ ui' = [ui EXCEPT !.botBusy = TRUE, !.duelError = FALSE]
    /\ net' = [net EXCEPT !.bot = "sent"]
    /\ UNCHANGED srv

\* Both a new duel and the one that exists are linked and offered to share.
FriendAnswered ==
    /\ net.friend \in {"made", "exists"}
    /\ ui' = [ui EXCEPT !.friendBusy = FALSE, !.linked = TRUE,
                        !.invited = (ui.page = "result")]
    /\ net' = [net EXCEPT !.friend = "none"]
    /\ UNCHANGED srv

\* The bot's answer opens the duel, wherever the student is by then.
BotAnswered ==
    /\ net.bot = "made"
    /\ ui' = [(IF ui.page = "detail" THEN [ui EXCEPT !.linked = TRUE] ELSE Opened(ui))
              EXCEPT !.botBusy = FALSE]
    /\ net' = [net EXCEPT !.bot = "none",
                          !.loads = IF ui.page = "detail" THEN @ ELSE OpenLoads]
    /\ UNCHANGED srv

FriendFails ==
    /\ net.friend # "none"
    /\ ui' = [ui EXCEPT !.friendBusy = FALSE, !.duelError = (ui.page = "result")]
    /\ net' = [net EXCEPT !.friend = "none"]
    /\ UNCHANGED srv

BotFails ==
    /\ net.bot # "none"
    /\ ui' = [ui EXCEPT !.botBusy = FALSE, !.duelError = (ui.page = "result")]
    /\ net' = [net EXCEPT !.bot = "none"]
    /\ UNCHANGED srv

CloseInvitation ==
    /\ ui.invited
    /\ ui' = [ui EXCEPT !.invited = FALSE]
    /\ UNCHANGED <<net, srv>>

OpenDuel ==
    /\ ui.page = "result" /\ ui.linked /\ ~ui.invited
    /\ ui' = Opened(ui)
    /\ net' = [net EXCEPT !.loads = OpenLoads]
    /\ UNCHANGED srv

-----------------------------------------------------------------------------
(* The friend's page. *)

OpenInvitation ==
    /\ ui.friend \in {"closed", "failed"} /\ srv.kind = "friend"
    /\ ui' = [ui EXCEPT !.friend = "loading", !.acceptError = FALSE]
    /\ UNCHANGED <<net, srv>>

\* An invitation that has run out is refused.
InvitationLoaded ==
    /\ ui.friend = "loading" /\ ~(srv.status = "WAITING" /\ srv.runOut)
    /\ ui' = [ui EXCEPT !.friend = srv.status]
    /\ UNCHANGED <<net, srv>>

InvitationFails ==
    /\ ui.friend = "loading"
    /\ ui' = [ui EXCEPT !.friend = "failed"]
    /\ UNCHANGED <<net, srv>>

AcceptOffered == ui.friend = "WAITING" /\ ~ui.accepting

HandleAccept ==
    /\ AcceptOffered
    /\ ui' = [ui EXCEPT !.accepting = TRUE, !.acceptError = FALSE]
    /\ net' = [net EXCEPT !.accept = "sent"]
    /\ UNCHANGED srv

AcceptAnswered ==
    /\ net.accept = "ok"
    /\ ui' = [ui EXCEPT !.accepting = FALSE, !.friend = "attempt"]
    /\ net' = [net EXCEPT !.accept = "none"]
    /\ UNCHANGED srv

\* Refused, or lost before or after it was served: the preview is kept.
AcceptFails ==
    /\ net.accept # "none"
    /\ ui' = [ui EXCEPT !.accepting = FALSE, !.acceptError = TRUE]
    /\ net' = [net EXCEPT !.accept = "none"]
    /\ UNCHANGED srv

-----------------------------------------------------------------------------
Server == ServeFriend \/ ServeBot \/ ServeAccept
Friend == OpenInvitation \/ InvitationLoaded \/ InvitationFails
          \/ HandleAccept \/ AcceptAnswered \/ AcceptFails
Creator == ChallengeFriend \/ BotDuel \/ FriendAnswered \/ BotAnswered \/ FriendFails
           \/ BotFails \/ CloseInvitation \/ OpenDuel \/ Reload \/ Leave

Next ==
    \/ Server \/ RunsOut \/ FriendFinishes \/ Friend \/ Creator \/ Tick
    \/ \E load \in net.loads : ServeLoad(load) \/ Loaded(load) \/ LoadFails(load)

Spec == Init /\ [][Next]_vars

-----------------------------------------------------------------------------
(* What MCPages asks of these pages. *)

Latest == {load \in net.loads : load.latest}

\* A step of the duel's page does not lead back to an earlier status.
ShownMovesOn ==
    ui.shown # "NONE" /\ ui'.shown # "NONE" => Rank(ui.shown) =< Rank(ui'.shown)

\* Somebody watches a duel that is over, and is shown so.
WatchesEnded == ui.page = "detail" /\ srv.status = "COMPLETED"
OutcomeShown == ui.page # "detail" \/ ui.error \/ ui.shown = srv.status
=============================================================================
