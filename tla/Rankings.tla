------------------------------ MODULE Rankings ------------------------------
(***************************************************************************)
(* The ranking of a class: the cache in front of it                        *)
(* (services/domain.py, LeaderboardService), the transactions that award   *)
(* XP and delete what is cached before they commit, and the student's page *)
(* that shows it (pages/LeaderboardPage.jsx).  A ranking is the set of     *)
(* awards it counts.                                                       *)
(***************************************************************************)
EXTENDS Naturals, FiniteSets

CONSTANTS Awards,    \* transactions that award XP
          MaxViews   \* requests for a ranking at once, of this page and of others

VARIABLES
    ui,    \* the page: what it shows is whatever its request brought
    net,   \* the requests for a ranking; those that are alike count as one
    srv    \* the database, the transactions and the cache

vars == <<ui, net, srv>>

Periods == {"all", "week", "month"}
Ranking == SUBSET Awards
View == [period : Periods, awaited : BOOLEAN,   \* by the page that is shown
         at : {"sent", "missed", "read", "answered"}, ranking : Ranking]
Stages == {"none", "written", "all_deleted", "both_deleted", "committed", "aborted"}

\* The cache holds one ranking of a period, or none.
TypeOK ==
    /\ ui \in [period : Periods, view : {"loading", "ready", "error"}]
    /\ net \subseteq View /\ Cardinality(net) =< MaxViews
    /\ srv \in [stored : Ranking, cached : [Periods -> SUBSET Ranking], at : [Awards -> Stages]]
    /\ \A p \in Periods : Cardinality(srv.cached[p]) =< 1

NewView(p, awaited) == [period |-> p, awaited |-> awaited, at |-> "sent", ranking |-> {}]

Init ==
    /\ ui = [period |-> "all", view |-> "loading"]
    /\ net = {NewView("all", TRUE)}
    /\ srv = [stored |-> {}, cached |-> [p \in Periods |-> {}], at |-> [a \in Awards |-> "none"]]

Becomes(v, w) == net' = (net \ {v}) \cup {w}

-----------------------------------------------------------------------------
(* An award: of a finished attempt, of a duel or of a duel with the bot.    *)

Moves(a, from, to) == srv.at[a] = from /\ srv' = [srv EXCEPT !.at[a] = to]

Write(a) == Moves(a, "none", "written") /\ UNCHANGED <<ui, net>>

\* The ranking of the month is left where it is.
DeleteAll(a) ==
    /\ srv.at[a] = "written"
    /\ srv' = [srv EXCEPT !.at[a] = "all_deleted", !.cached["all"] = {}]
    /\ UNCHANGED <<ui, net>>

DeleteWeek(a) ==
    /\ srv.at[a] = "all_deleted"
    /\ srv' = [srv EXCEPT !.at[a] = "both_deleted", !.cached["week"] = {}]
    /\ UNCHANGED <<ui, net>>

Commit(a) ==
    /\ srv.at[a] = "both_deleted"
    /\ srv' = [srv EXCEPT !.at[a] = "committed", !.stored = @ \cup {a}]
    /\ UNCHANGED <<ui, net>>

Abort(a) ==
    /\ \E stage \in {"written", "all_deleted", "both_deleted"} : Moves(a, stage, "aborted")
    /\ UNCHANGED <<ui, net>>

-----------------------------------------------------------------------------
(* for_class: the cache is asked, the database read and the cache filled.   *)

AskCache(v) ==
    /\ v.at = "sent"
    /\ Becomes(v, [v EXCEPT !.at = IF srv.cached[v.period] = {} THEN "missed" ELSE "answered"])
    /\ UNCHANGED <<ui, srv>>

Read(v) ==
    /\ v.at = "missed"
    /\ Becomes(v, [v EXCEPT !.at = "read", !.ranking = srv.stored])
    /\ UNCHANGED <<ui, srv>>

Fill(v) ==
    /\ v.at = "read"
    /\ srv' = [srv EXCEPT !.cached[v.period] = {v.ranking}]
    /\ Becomes(v, [v EXCEPT !.at = "answered", !.ranking = {}])
    /\ UNCHANGED ui

\* The time to live of what is cached, a minute.
Expire(p) ==
    /\ srv.cached[p] # {}
    /\ srv' = [srv EXCEPT !.cached[p] = {}]
    /\ UNCHANGED <<ui, net>>

\* Somebody else's page.
OtherView(p) ==
    /\ Cardinality(net) < MaxViews
    /\ net' = net \cup {NewView(p, FALSE)}
    /\ UNCHANGED <<ui, srv>>

-----------------------------------------------------------------------------
(* The page. *)

\* An answer nobody waits for any more is dropped.
Arrives(v) ==
    /\ v.at = "answered"
    /\ ui' = [ui EXCEPT !.view = IF v.awaited THEN "ready" ELSE @]
    /\ net' = net \ {v}
    /\ UNCHANGED srv

\* The server goes on with a request whose connection is lost.
Fails(v) ==
    /\ v.awaited
    /\ ui' = [ui EXCEPT !.view = "error"]
    /\ Becomes(v, [v EXCEPT !.awaited = FALSE])
    /\ UNCHANGED srv

Show(p, views) ==
    /\ Cardinality(views) < MaxViews
    /\ ui' = [period |-> p, view |-> "loading"]
    /\ net' = views \cup {NewView(p, TRUE)}
    /\ UNCHANGED srv

\* The tabs are there once a ranking is.
SelectPeriod(p) == ui.view = "ready" /\ p # ui.period /\ Show(p, net)

Retry == ui.view = "error" /\ Show(ui.period, net)

\* The page is left and opened again, whether or not it waits.
Return == Show("all", {[v EXCEPT !.awaited = FALSE] : v \in net})

Award == \E a \in Awards : Write(a) \/ DeleteAll(a) \/ DeleteWeek(a) \/ Commit(a) \/ Abort(a)

\* The steps of a request that go on whoever waits for it.
Answer(v) == AskCache(v) \/ Read(v) \/ Fill(v) \/ Arrives(v)

Next ==
    \/ Award
    \/ \E v \in net : Answer(v) \/ Fails(v)
    \/ \E p \in Periods : Expire(p) \/ OtherView(p) \/ SelectPeriod(p)
    \/ Retry \/ Return

Spec == Init /\ [][Next]_vars

-----------------------------------------------------------------------------
(* Properties. *)

\* No transaction is under way; what is cached is what is stored.
Quiet == \A a \in Awards : srv.at[a] \in {"none", "committed", "aborted"}
CacheCurrent == \A p \in Periods : srv.cached[p] \subseteq {srv.stored}
=============================================================================
