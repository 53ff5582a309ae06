----------------------------- MODULE PagesProofs -----------------------------
(* What the pages of MCPages that wait for the server keep, for any number  *)
(* of loads, jobs and polls in flight: one inductive invariant a page, in   *)
(* the terms of that page's module, and the theorems that follow of MCPages.*)
EXTENDS MCPages, TLAPS, FiniteSetTheorems, WellFoundedInduction

-----------------------------------------------------------------------------
(* A duel as two students see it.                                          *)

DuelPage ==
    [page : {"result", "detail", "away"}, friendBusy : BOOLEAN, botBusy : BOOLEAN,
     duelError : BOOLEAN, invited : BOOLEAN, linked : BOOLEAN, shown : Duel!Status,
     loading : BOOLEAN, error : BOOLEAN,
     friend : {"closed", "loading", "failed", "attempt"} \cup Duel!Status,
     accepting : BOOLEAN, acceptError : BOOLEAN]

DuelCalls ==
    [loads : SUBSET Duel!Load, friend : {"none", "sent", "made", "exists", "error"},
     bot : {"none", "sent", "made", "error"}, accept : {"none", "sent", "ok", "error"}]

DuelStore == [kind : {"none", "friend", "bot"}, status : Duel!Status, runOut : BOOLEAN]

\* Of the loads in flight one at most is accepted; what it brings is no earlier
\* than what is shown.
LatestIsAhead(loads, shown) ==
    /\ \A l, m \in loads : l.latest /\ m.latest => l = m
    /\ \A l \in loads : l.latest /\ l.seen # "NONE" => Duel!Rank(shown) =< Duel!Rank(l.seen)

\* Nothing is ahead of the duel itself.
NoneIsAhead(loads, shown, status) ==
    /\ Duel!Rank(shown) =< Duel!Rank(status)
    /\ \A l \in loads : Duel!Rank(l.seen) =< Duel!Rank(status)

DuelInv ==
    /\ ui \in DuelPage /\ net \in DuelCalls /\ srv \in DuelStore
    /\ srv.kind = "none" => srv.status = "NONE"
    /\ LatestIsAhead(net.loads, ui.shown)
    /\ NoneIsAhead(net.loads, ui.shown, srv.status)

LEMMA RankType ==
    /\ \A s \in Duel!Status : Duel!Rank(s) \in 0 .. 3
    /\ Duel!Rank("NONE") = 0 /\ Duel!Rank("WAITING") = 1 /\ Duel!Rank("ACTIVE") = 2
    /\ Duel!Rank("COMPLETED") = 3
BY DEF Duel!Rank, Duel!Status

LEMMA DuelInit == ASSUME Duel!Init PROVE DuelInv
<1>1. ui \in DuelPage /\ ui.shown = "NONE"
    BY DEF Duel!Init, DuelPage, Duel!Status
<1>2. net \in DuelCalls /\ net.loads = {}
    BY DEF Duel!Init, DuelCalls
<1>3. srv \in DuelStore /\ srv.status = "NONE"
    BY DEF Duel!Init, DuelStore, Duel!Status
<1> QED
    BY <1>1, <1>2, <1>3, RankType DEF DuelInv, LatestIsAhead, NoneIsAhead

\* A step of the server moves the duel on and leaves the creator's page.
LEMMA DuelServed ==
    ASSUME DuelInv, Duel!Server \/ Duel!RunsOut \/ Duel!FriendFinishes
    PROVE  DuelInv'
<1>1. ui' = ui /\ ui \in DuelPage /\ ui.shown \in Duel!Status
    BY DEF DuelInv, DuelPage, Duel!Server, Duel!ServeFriend, Duel!ServeBot,
           Duel!ServeAccept, Duel!RunsOut, Duel!FriendFinishes
<1>2. net' \in DuelCalls /\ net'.loads = net.loads
    BY DEF DuelInv, DuelCalls, Duel!Server, Duel!ServeFriend, Duel!ServeBot,
           Duel!ServeAccept, Duel!RunsOut, Duel!FriendFinishes
<1>3. /\ srv' \in DuelStore /\ Duel!Rank(srv.status) =< Duel!Rank(srv'.status)
      /\ srv'.kind = "none" => srv'.status = "NONE"
    <2>1. CASE srv' = srv
        BY <2>1, RankType DEF DuelInv, DuelStore
    <2>2. ASSUME NEW kind \in {"friend", "bot"}, NEW status \in {"WAITING", "COMPLETED"},
                 srv.kind = "none", srv' = [srv EXCEPT !.kind = kind, !.status = status]
          PROVE  srv' \in DuelStore /\ Duel!Rank(srv.status) =< Duel!Rank(srv'.status)
                 /\ srv'.kind # "none"
        <3>1. srv' \in DuelStore /\ srv'.kind = kind /\ srv'.status = status
            BY <2>2 DEF DuelInv, DuelStore, Duel!Status
        <3>2. Duel!Rank(srv.status) = 0 /\ Duel!Rank(status) \in {1, 3}
            BY <2>2, RankType DEF DuelInv
        <3> QED
            BY <3>1, <3>2
    <2>3. CASE srv.status = "WAITING" /\ srv' = [srv EXCEPT !.status = "ACTIVE"]
        BY <2>3, RankType DEF DuelInv, DuelStore, Duel!Status
    <2>5. CASE srv' = [srv EXCEPT !.runOut = TRUE]
        <3>1. srv' \in DuelStore /\ srv'.kind = srv.kind /\ srv'.status = srv.status
            BY <2>5 DEF DuelInv, DuelStore
        <3>2. Duel!Rank(srv.status) \in 0 .. 3
            BY RankType DEF DuelInv, DuelStore
        <3> QED
            BY <3>1, <3>2 DEF DuelInv
    <2>4. CASE srv.status = "ACTIVE" /\ srv' = [srv EXCEPT !.status = "COMPLETED"]
        BY <2>4, RankType DEF DuelInv, DuelStore, Duel!Status
    <2> QED
        BY <2>1, <2>2, <2>3, <2>4, <2>5
        DEF Duel!Server, Duel!ServeFriend, Duel!ServeBot, Duel!ServeAccept,
            Duel!Acceptable, Duel!RunsOut, Duel!FriendFinishes, Duel!Create
<1>4. NoneIsAhead(net.loads, ui.shown, srv'.status)
    <2>1. Duel!Rank(ui.shown) \in Nat /\ Duel!Rank(srv.status) \in Nat
          /\ Duel!Rank(srv'.status) \in Nat
        BY <1>1, <1>3, RankType DEF DuelInv, DuelStore
    <2>2. \A l \in net.loads : Duel!Rank(l.seen) \in Nat
        BY RankType DEF DuelInv, DuelCalls, Duel!Load
    <2> QED
        BY <1>3, <2>1, <2>2 DEF DuelInv, NoneIsAhead
<1> QED
    BY <1>1, <1>2, <1>3, <1>4 DEF DuelInv

\* A step that changes none of the loads, and shows what was shown or nothing.
LEMMA DuelAsides ==
    ASSUME DuelInv, ui' \in DuelPage, net' \in DuelCalls, srv' = srv,
           ui'.shown \in {ui.shown, "NONE"}, net'.loads \subseteq net.loads
    PROVE  DuelInv'
<1>1. /\ Duel!Rank(ui.shown) \in Nat /\ Duel!Rank(srv.status) \in Nat
      /\ Duel!Rank(ui'.shown) \in Nat /\ Duel!Rank(ui'.shown) =< Duel!Rank(ui.shown)
    BY RankType DEF DuelInv, DuelStore, DuelPage
<1>2. \A l \in net.loads : Duel!Rank(l.seen) \in Nat
    BY RankType DEF DuelInv, DuelCalls, Duel!Load
<1>3. LatestIsAhead(net'.loads, ui'.shown) /\ NoneIsAhead(net'.loads, ui'.shown, srv.status)
    BY <1>1, <1>2 DEF DuelInv, LatestIsAhead, NoneIsAhead
<1> QED
    BY <1>3 DEF DuelInv

\* The loads of before are out of date, and a new one is sent.
LEMMA DuelAsked ==
    ASSUME DuelInv, ui' \in DuelPage, net' \in DuelCalls, srv' = srv,
           ui'.shown \in {ui.shown, "NONE"},
           \A l \in net'.loads :
               \/ l.seen = "NONE"
               \/ ~l.latest /\ \E m \in net.loads : l.seen = m.seen,
           \A l, m \in net'.loads : l.latest /\ m.latest => l = m
    PROVE  DuelInv'
<1>1. /\ Duel!Rank(ui.shown) \in Nat /\ Duel!Rank(srv.status) \in 0 .. 3
      /\ Duel!Rank(ui'.shown) \in Nat /\ Duel!Rank(ui'.shown) =< Duel!Rank(ui.shown)
    BY RankType DEF DuelInv, DuelStore, DuelPage
<1>2. NoneIsAhead(net'.loads, ui'.shown, srv.status)
    BY <1>1, RankType DEF DuelInv, NoneIsAhead
<1>3. LatestIsAhead(net'.loads, ui'.shown)
    BY DEF LatestIsAhead
<1> QED
    BY <1>2, <1>3 DEF DuelInv

LEMMA LoadsKeepInv ==
    ASSUME DuelInv, NEW load \in net.loads,
           Duel!ServeLoad(load) \/ Duel!Loaded(load) \/ Duel!LoadFails(load)
    PROVE  DuelInv'
<1>1. /\ ui \in DuelPage /\ net \in DuelCalls /\ srv \in DuelStore
      /\ load \in Duel!Load /\ net.loads \subseteq Duel!Load
      /\ ui.shown \in Duel!Status /\ srv.status \in Duel!Status
    BY DEF DuelInv, DuelPage, DuelCalls, DuelStore
<1>2. srv' = srv
    BY DEF Duel!ServeLoad, Duel!Loaded, Duel!LoadFails
<1>3. CASE Duel!ServeLoad(load)
    <2>1. PICK served : served = [load EXCEPT !.seen = srv.status]
        OBVIOUS
    <2>2. /\ served \in Duel!Load /\ served.seen = srv.status
          /\ served.latest = load.latest
        BY <1>1, <2>1 DEF Duel!Load
    <2>3. PICK loads : loads = (net.loads \ {load}) \cup {served}
        OBVIOUS
    <2>4. /\ ui' = ui /\ net' \in DuelCalls /\ net'.loads = loads
        BY <1>1, <1>3, <2>1, <2>2, <2>3 DEF Duel!ServeLoad, DuelCalls
    <2>5. /\ \A l \in net.loads : Duel!Rank(l.seen) \in Nat
          /\ Duel!Rank(srv.status) \in Nat /\ Duel!Rank(ui.shown) \in Nat
        BY <1>1, RankType DEF Duel!Load
    <2>6. NoneIsAhead(loads, ui.shown, srv.status)
        BY <2>2, <2>3, <2>5 DEF DuelInv, NoneIsAhead
    <2>7. LatestIsAhead(loads, ui.shown)
        BY <2>2, <2>3, <2>5 DEF DuelInv, LatestIsAhead, NoneIsAhead
    <2> QED
        BY <1>1, <1>2, <2>4, <2>6, <2>7 DEF DuelInv
<1>4. CASE Duel!Loaded(load) /\ load.latest
    <2>1. PICK loads : loads = net.loads \ {load}
        OBVIOUS
    <2>2. net' \in DuelCalls /\ net'.loads = loads
        BY <1>1, <1>4, <2>1 DEF Duel!Loaded, DuelCalls
    <2>3. ui' \in DuelPage /\ ui'.shown = load.seen
        BY <1>1, <1>4 DEF Duel!Loaded, Duel!Accepted, DuelPage, Duel!Load
    <2>4. LatestIsAhead(loads, load.seen)
        BY <1>4, <2>1 DEF DuelInv, LatestIsAhead
    <2>5. NoneIsAhead(loads, load.seen, srv.status)
        BY <2>1 DEF DuelInv, NoneIsAhead
    <2> QED
        BY <1>1, <1>2, <2>2, <2>3, <2>4, <2>5 DEF DuelInv
<1>5. CASE Duel!LoadFails(load) \/ (Duel!Loaded(load) /\ ~load.latest)
    <2>1. ui' \in DuelPage /\ ui'.shown \in {ui.shown, "NONE"}
        BY <1>1, <1>5 DEF Duel!Loaded, Duel!LoadFails, Duel!Accepted, DuelPage, Duel!Status
    <2>2. net' \in DuelCalls /\ net'.loads \subseteq net.loads
        BY <1>1, <1>5 DEF Duel!Loaded, Duel!LoadFails, DuelCalls
    <2> QED
        BY <1>2, <2>1, <2>2, DuelAsides
<1> QED
    BY <1>3, <1>4, <1>5

LEMMA RunIsNew ==
    ASSUME DuelInv, NEW silent \in BOOLEAN, NEW loads, loads = Duel!Run(silent)
    PROVE  /\ loads \subseteq Duel!Load
           /\ \A l \in loads : \/ l.seen = "NONE"
                               \/ ~l.latest /\ \E m \in net.loads : l.seen = m.seen
           /\ \A l, m \in loads : l.latest /\ m.latest => l = m
<1>1. PICK new : new = [silent |-> silent, latest |-> TRUE, seen |-> "NONE"]
    OBVIOUS
<1>2. new \in Duel!Load /\ new.seen = "NONE"
    BY <1>1 DEF Duel!Load, Duel!Status
<1>3. \A l \in loads : l = new \/ \E m \in net.loads : l = [m EXCEPT !.latest = FALSE]
    BY <1>1 DEF Duel!Run
<1>4. ASSUME NEW m \in net.loads, NEW l, l = [m EXCEPT !.latest = FALSE]
      PROVE  l \in Duel!Load /\ ~l.latest /\ l.seen = m.seen
    <2>1. m \in Duel!Load
        BY DEF DuelInv, DuelCalls
    <2> QED
        BY <1>4, <2>1 DEF Duel!Load
<1> QED
    BY <1>2, <1>3, <1>4

LEMMA AsksKeepInv ==
    ASSUME DuelInv, Duel!Tick \/ Duel!Reload \/ Duel!OpenDuel \/ Duel!BotAnswered
    PROVE  DuelInv'
<1>1. ui \in DuelPage /\ net \in DuelCalls
    BY DEF DuelInv
<1>2. srv' = srv
    BY DEF Duel!Tick, Duel!Reload, Duel!OpenDuel, Duel!BotAnswered
<1>3. CASE Duel!Tick \/ Duel!Reload
    <2>1. PICK silent, loads : /\ silent \in BOOLEAN /\ loads = Duel!Run(silent)
                               /\ net' = [net EXCEPT !.loads = loads]
        BY <1>3 DEF Duel!Tick, Duel!Reload
    <2>2. /\ loads \subseteq Duel!Load
          /\ \A l \in loads : \/ l.seen = "NONE"
                              \/ ~l.latest /\ \E m \in net.loads : l.seen = m.seen
          /\ \A l, m \in loads : l.latest /\ m.latest => l = m
        BY <2>1, RunIsNew
    <2>3. net' \in DuelCalls /\ net'.loads = loads
        BY <1>1, <2>1, <2>2 DEF DuelCalls
    <2>4. ui' \in DuelPage /\ ui'.shown = ui.shown
        BY <1>1, <1>3 DEF Duel!Tick, Duel!Reload, DuelPage
    <2> QED
        BY <1>2, <2>2, <2>3, <2>4, DuelAsked
<1>4. PICK new : new = [silent |-> FALSE, latest |-> TRUE, seen |-> "NONE"]
    OBVIOUS
<1>5. new \in Duel!Load /\ new.seen = "NONE"
    BY <1>4 DEF Duel!Load, Duel!Status
<1>6. CASE Duel!OpenDuel \/ (Duel!BotAnswered /\ ui.page # "detail")
    <2>1. net' \in DuelCalls /\ net'.loads = {new}
        <3>1. Duel!OpenLoads = {new}
            BY <1>4, Zenon DEF Duel!OpenLoads
        <3>2. PICK loads \in SUBSET Duel!Load : loads = {new}
            BY <1>5
        <3>3. \/ net' = [net EXCEPT !.loads = loads]
              \/ net' = [net EXCEPT !.bot = "none", !.loads = loads]
            BY <1>6, <3>1, <3>2 DEF Duel!OpenDuel, Duel!BotAnswered
        <3> QED
            BY <1>1, <3>2, <3>3 DEF DuelCalls
    <2>2. PICK opened : opened = Duel!Opened(ui)
        OBVIOUS
    <2>3. opened \in DuelPage /\ opened.shown = "NONE"
        BY <1>1, <2>2 DEF Duel!Opened, DuelPage, Duel!Status
    <2>4. ui' = opened \/ ui' = [opened EXCEPT !.botBusy = FALSE]
        BY <1>6, <2>2 DEF Duel!OpenDuel, Duel!BotAnswered
    <2>5. ui' \in DuelPage /\ ui'.shown = "NONE"
        BY <2>3, <2>4 DEF DuelPage
    <2> QED
        BY <1>2, <1>5, <2>1, <2>5, DuelAsked
<1>7. CASE Duel!BotAnswered /\ ui.page = "detail"
    <2>1. net' \in DuelCalls /\ net'.loads = net.loads
        BY <1>1, <1>7 DEF Duel!BotAnswered, DuelCalls
    <2>2. PICK linked : linked = [ui EXCEPT !.linked = TRUE]
        OBVIOUS
    <2>3. linked \in DuelPage /\ linked.shown = ui.shown
        BY <1>1, <2>2 DEF DuelPage
    <2>4. ui' = [linked EXCEPT !.botBusy = FALSE]
        BY <1>7, <2>2 DEF Duel!BotAnswered
    <2>5. ui' \in DuelPage /\ ui'.shown = ui.shown
        BY <2>3, <2>4 DEF DuelPage
    <2> QED
        BY <1>2, <2>1, <2>5, DuelAsides
<1> QED
    BY <1>3, <1>6, <1>7

LEMMA ButtonsKeepInv ==
    ASSUME DuelInv,
           \/ Duel!ChallengeFriend \/ Duel!BotDuel \/ Duel!FriendAnswered
           \/ Duel!FriendFails \/ Duel!BotFails \/ Duel!CloseInvitation \/ Duel!Leave
           \/ Duel!Friend
    PROVE  DuelInv'
<1>1. ui \in DuelPage /\ net \in DuelCalls /\ srv \in DuelStore
    BY DEF DuelInv
<1>2. srv' = srv
    BY DEF Duel!ChallengeFriend, Duel!BotDuel, Duel!FriendAnswered, Duel!FriendFails,
           Duel!BotFails, Duel!CloseInvitation, Duel!Leave, Duel!Friend,
           Duel!OpenInvitation, Duel!InvitationLoaded, Duel!InvitationFails,
           Duel!HandleAccept, Duel!AcceptAnswered, Duel!AcceptFails
<1>3. ui' \in DuelPage /\ ui'.shown \in {ui.shown, "NONE"}
    <2>1. CASE Duel!ChallengeFriend \/ Duel!BotDuel \/ Duel!FriendAnswered
        BY <1>1, <2>1 DEF Duel!ChallengeFriend, Duel!BotDuel, Duel!FriendAnswered, DuelPage
    <2>2. CASE Duel!FriendFails \/ Duel!BotFails \/ Duel!CloseInvitation
        BY <1>1, <2>2 DEF Duel!FriendFails, Duel!BotFails, Duel!CloseInvitation, DuelPage
    <2>3. CASE Duel!Leave
        BY <1>1, <2>3 DEF Duel!Leave, DuelPage, Duel!Status
    <2>4. CASE Duel!OpenInvitation \/ Duel!InvitationLoaded \/ Duel!InvitationFails
        BY <1>1, <2>4 DEF Duel!OpenInvitation, Duel!InvitationLoaded, Duel!InvitationFails,
                          DuelPage, DuelStore
    <2>5. CASE Duel!HandleAccept \/ Duel!AcceptAnswered \/ Duel!AcceptFails
        BY <1>1, <2>5 DEF Duel!HandleAccept, Duel!AcceptAnswered, Duel!AcceptFails, DuelPage
    <2> QED
        BY <2>1, <2>2, <2>3, <2>4, <2>5 DEF Duel!Friend
<1>4. net' \in DuelCalls /\ net'.loads \subseteq net.loads
    <2>1. CASE net' = net
        BY <1>1, <2>1
    <2>2. CASE Duel!ChallengeFriend \/ Duel!BotDuel \/ Duel!FriendAnswered
        BY <1>1, <2>2 DEF Duel!ChallengeFriend, Duel!BotDuel, Duel!FriendAnswered, DuelCalls
    <2>3. CASE Duel!FriendFails \/ Duel!BotFails \/ Duel!Leave
        BY <1>1, <2>3 DEF Duel!FriendFails, Duel!BotFails, Duel!Leave, DuelCalls
    <2>4. CASE Duel!HandleAccept \/ Duel!AcceptAnswered \/ Duel!AcceptFails
        BY <1>1, <2>4 DEF Duel!HandleAccept, Duel!AcceptAnswered, Duel!AcceptFails, DuelCalls
    <2> QED
        BY <2>1, <2>2, <2>3, <2>4
        DEF Duel!CloseInvitation, Duel!Friend, Duel!OpenInvitation, Duel!InvitationLoaded,
            Duel!InvitationFails
<1> QED
    BY <1>2, <1>3, <1>4, DuelAsides

LEMMA DuelKeepsInv == ASSUME DuelInv, Duel!Next PROVE DuelInv'
BY DuelServed, LoadsKeepInv, AsksKeepInv, ButtonsKeepInv DEF Duel!Next, Duel!Creator

\* What a load brings is shown only if nothing later was asked for, so that it
\* is no earlier than what is shown.
LEMMA DuelMovesOn == ASSUME DuelInv, Duel!Next PROVE Duel!ShownMovesOn
<1> SUFFICES ASSUME ui.shown # "NONE", ui'.shown # "NONE"
             PROVE  Duel!Rank(ui.shown) =< Duel!Rank(ui'.shown)
    BY DEF Duel!ShownMovesOn
<1>1. ui \in DuelPage /\ ui.shown \in Duel!Status
    BY DEF DuelInv, DuelPage
<1>2. CASE ui'.shown = ui.shown
    <2>1. Duel!Rank(ui.shown) \in Nat
        BY <1>1, RankType
    <2> QED
        BY <1>2, <2>1
<1>3. ASSUME NEW load \in net.loads, Duel!Loaded(load), load.latest
      PROVE  Duel!Rank(ui.shown) =< Duel!Rank(ui'.shown)
    <2>1. ui'.shown = load.seen /\ load.seen # "NONE"
        BY <1>1, <1>3 DEF Duel!Loaded, Duel!Accepted, DuelPage
    <2> QED
        BY <1>3, <2>1 DEF DuelInv, LatestIsAhead
<1>4. ASSUME NEW load \in net.loads,
             Duel!ServeLoad(load) \/ (Duel!Loaded(load) /\ ~load.latest) \/ Duel!LoadFails(load)
      PROVE  ui'.shown = ui.shown
    BY <1>1, <1>4 DEF Duel!ServeLoad, Duel!Loaded, Duel!LoadFails, Duel!Accepted, DuelPage
<1>5. CASE Duel!Server \/ Duel!RunsOut \/ Duel!FriendFinishes \/ Duel!Friend
    BY <1>1, <1>2, <1>5
    DEF Duel!Server, Duel!ServeFriend, Duel!ServeBot, Duel!ServeAccept, Duel!RunsOut,
        Duel!FriendFinishes, Duel!Friend, Duel!OpenInvitation, Duel!InvitationLoaded, Duel!InvitationFails,
        Duel!HandleAccept, Duel!AcceptAnswered, Duel!AcceptFails, DuelPage
<1>6. CASE Duel!Tick \/ Duel!Creator
    <2>1. CASE Duel!Tick \/ Duel!Reload \/ Duel!ChallengeFriend \/ Duel!BotDuel
        BY <1>1, <1>2, <2>1 DEF Duel!Tick, Duel!Reload, Duel!ChallengeFriend, Duel!BotDuel, DuelPage
    <2>2. CASE \/ Duel!FriendAnswered \/ Duel!FriendFails \/ Duel!BotFails
               \/ Duel!CloseInvitation
        BY <1>1, <1>2, <2>2 DEF Duel!FriendAnswered, Duel!FriendFails, Duel!BotFails,
                                Duel!CloseInvitation, DuelPage
    <2>3. CASE Duel!OpenDuel \/ Duel!Leave
        BY <1>1, <2>3 DEF Duel!OpenDuel, Duel!Opened, Duel!Leave, DuelPage
    <2>4. CASE Duel!BotAnswered
        <3>1. PICK opened : opened = IF ui.page = "detail" THEN [ui EXCEPT !.linked = TRUE]
                                                           ELSE Duel!Opened(ui)
            OBVIOUS
        <3>2. opened \in DuelPage /\ opened.shown \in {ui.shown, "NONE"}
            BY <1>1, <3>1 DEF Duel!Opened, DuelPage, Duel!Status
        <3>3. ui' = [opened EXCEPT !.botBusy = FALSE]
            BY <2>4, <3>1 DEF Duel!BotAnswered
        <3>4. ui'.shown = opened.shown
            BY <3>2, <3>3 DEF DuelPage
        <3> QED
            BY <1>2, <3>2, <3>4
    <2> QED
        BY <1>6, <2>1, <2>2, <2>3, <2>4 DEF Duel!Creator
<1> QED
    BY <1>2, <1>3, <1>4, <1>5, <1>6 DEF Duel!Next

-----------------------------------------------------------------------------
(* The dialogs that have a challenge generated.                            *)

DialogPage ==
    [page : {"class", "subjects", "challenges"}, topic : BOOLEAN,
     open : BOOLEAN, generating : BOOLEAN, error : BOOLEAN,
     job : Dialog!Job \cup {0}, told : Dialog!Job \cup {0},
     ticking : SUBSET Dialog!Job, count : [Dialog!Job -> 0 .. PollLimit],
     closing : [Dialog!Job -> 0 .. MaxPolls]]

DialogCalls ==
    [ask : {"none", "sent", "made"}, made : Dialog!Job \cup {0},
     polls : SUBSET Dialog!Poll, load : BOOLEAN]

DialogStore ==
    [status : [Dialog!Job -> Dialog!Status \cup {"none"}], overtaken : BOOLEAN]

\* The slots of the polls of a job that are in flight.
SlotsOf(polls, j) == {p.slot : p \in {q \in polls : q.job = j}}

\* Every poll in flight has its own slot, ...
SlotsDiffer(polls) == \A p, q \in polls : p.slot = q.slot => p = q

\* ... and of those of a job there are no more than slots, together with the
\* timers that those answered before have set; there are none while it ticks.
TimersFit(polls, closing) ==
    \A j \in Dialog!Job : Cardinality(SlotsOf(polls, j)) + closing[j] =< MaxPolls

TickingIsOpen(ticking, closing) == \A j \in ticking : closing[j] = 0

\* The page knows nothing of a job it has not been told of.
NewIsUnknown(status, made, ticking, closing, polls) ==
    \A j \in Dialog!Job : status[j] = "none" \/ j = made =>
        j \notin ticking /\ closing[j] = 0 /\ \A p \in polls : p.job # j

\* While it is waited for, one job at most is polled or about to close the
\* dialog, the one it asked for, and not both; when nothing is waited for
\* nothing is polled.  Told from its fields, for a page that no late poll has
\* disturbed.
WaitsForItsJob(ask, job, generating, told, ticking, closing) ==
    /\ told \in {0, job} /\ (generating => told = 0)
    /\ ticking \subseteq {job} /\ (ticking # {} => generating)
    /\ \A j \in Dialog!Job : closing[j] > 0 =>
          j = job /\ generating /\ ticking = {} /\ closing[j] = 1
    /\ ask # "none" => generating /\ job = 0

DialogInv ==
    /\ ui \in DialogPage /\ net \in DialogCalls /\ srv \in DialogStore
    /\ net.ask = "made" => net.made \in Dialog!Job /\ srv.status[net.made] # "none"
    /\ SlotsDiffer(net.polls) /\ TimersFit(net.polls, ui.closing)
    /\ TickingIsOpen(ui.ticking, ui.closing)
    /\ NewIsUnknown(srv.status, net.made, ui.ticking, ui.closing, net.polls)
    /\ srv.overtaken \/ WaitsForItsJob(net.ask, ui.job, ui.generating, ui.told,
                                       ui.ticking, ui.closing)

LEMMA DialogLimits ==
    ASSUME PagesAssumption
    PROVE  /\ MaxJobs \in Nat /\ MaxPolls \in Nat /\ PollLimit \in Nat
           /\ 0 \notin Dialog!Job /\ Dialog!Job \subseteq Nat
BY DEF PagesAssumption, Dialog!Job

\* No more polls than slots.
LEMMA SlotsBound ==
    ASSUME PagesAssumption, NEW polls, polls \subseteq Dialog!Poll, NEW j
    PROVE  /\ IsFiniteSet(SlotsOf(polls, j))
           /\ Cardinality(SlotsOf(polls, j)) \in 0 .. MaxPolls
<1>1. SlotsOf(polls, j) \subseteq 1 .. MaxPolls
    BY DEF SlotsOf, Dialog!Poll
<1>2. IsFiniteSet(1 .. MaxPolls) /\ Cardinality(1 .. MaxPolls) = MaxPolls
    BY DialogLimits, FS_Interval
<1>3. /\ IsFiniteSet(SlotsOf(polls, j))
      /\ Cardinality(SlotsOf(polls, j)) =< Cardinality(1 .. MaxPolls)
    BY <1>1, <1>2, FS_Subset
<1>4. Cardinality(SlotsOf(polls, j)) \in Nat
    BY <1>3, FS_CardinalityType
<1> QED
    BY <1>2, <1>3, <1>4, DialogLimits

LEMMA FreshIsPage ==
    ASSUME PagesAssumption, NEW kind \in {"class", "subjects", "challenges"},
           NEW fresh, fresh = Dialog!Fresh(kind)
    PROVE  /\ fresh \in DialogPage /\ fresh.ticking = {} /\ fresh.job = 0
           /\ fresh.told = 0 /\ fresh.generating = FALSE
           /\ \A j \in Dialog!Job : fresh.closing[j] = 0
<1>1. PICK none : none = [j \in Dialog!Job |-> 0]
    OBVIOUS
<1>2. /\ none \in [Dialog!Job -> 0 .. MaxPolls] /\ none \in [Dialog!Job -> 0 .. PollLimit]
      /\ \A j \in Dialog!Job : none[j] = 0
    BY <1>1, DialogLimits
<1>3. fresh = [page |-> kind, topic |-> FALSE, open |-> FALSE,
               generating |-> FALSE, error |-> FALSE, job |-> 0, told |-> 0,
               ticking |-> {}, count |-> none, closing |-> none]
    BY <1>1 DEF Dialog!Fresh
<1> QED
    BY <1>2, <1>3 DEF DialogPage

\* Nothing is asked for and nothing in flight.
LEMMA FreshHasInv ==
    ASSUME PagesAssumption, NEW u, NEW n, n = Dialog!Loading,
           NEW kind \in {"class", "subjects", "challenges"}, u = Dialog!Fresh(kind)
    PROVE  /\ u \in DialogPage /\ n \in DialogCalls /\ n.made = 0 /\ n.ask = "none"
           /\ SlotsDiffer(n.polls) /\ TimersFit(n.polls, u.closing)
           /\ TickingIsOpen(u.ticking, u.closing)
           /\ WaitsForItsJob(n.ask, u.job, u.generating, u.told, u.ticking, u.closing)
           /\ \A status : NewIsUnknown(status, n.made, u.ticking, u.closing, n.polls)
<1>1. n \in DialogCalls /\ n.made = 0 /\ n.ask = "none" /\ n.polls = {}
    BY DEF Dialog!Loading, DialogCalls
<1>2. /\ u \in DialogPage /\ u.ticking = {} /\ u.job = 0 /\ u.told = 0
      /\ u.generating = FALSE /\ \A j \in Dialog!Job : u.closing[j] = 0
    BY FreshIsPage
<1>3. TimersFit(n.polls, u.closing)
    <2> SUFFICES ASSUME NEW j \in Dialog!Job
                 PROVE  Cardinality(SlotsOf(n.polls, j)) + u.closing[j] =< MaxPolls
        BY DEF TimersFit
    <2>1. Cardinality(SlotsOf(n.polls, j)) \in 0 .. MaxPolls
        BY <1>1, SlotsBound
    <2> QED
        BY <1>2, <2>1, DialogLimits
<1> QED
    BY <1>1, <1>2, <1>3, DialogLimits
    DEF SlotsDiffer, TickingIsOpen, WaitsForItsJob, NewIsUnknown

LEMMA DialogInit == ASSUME PagesAssumption, Dialog!Init PROVE DialogInv
<1>1. PICK kind \in {"class", "subjects", "challenges"} : ui = Dialog!Fresh(kind)
    BY DEF Dialog!Init
<1>2. net = Dialog!Loading
    BY DEF Dialog!Init
<1>3. srv \in DialogStore
    BY DEF Dialog!Init, DialogStore
<1> QED
    BY <1>1, <1>2, <1>3, FreshHasInv DEF DialogInv

\* A step that changes only what the page shows.
LEMMA DialogAsides ==
    ASSUME DialogInv, ui' \in DialogPage, net' \in DialogCalls, srv' = srv,
           ui'.job = ui.job, ui'.told = ui.told, ui'.generating = ui.generating,
           ui'.ticking = ui.ticking, ui'.closing = ui.closing,
           net'.ask = net.ask, net'.made = net.made, net'.polls = net.polls
    PROVE  DialogInv'
BY DEF DialogInv

LEMMA ShownKeepsInv ==
    ASSUME DialogInv,
           \/ Dialog!Loaded \/ Dialog!LoadFails \/ Dialog!ChooseTopic
           \/ Dialog!Open \/ Dialog!Close
    PROVE  DialogInv'
<1>1. ui \in DialogPage /\ net \in DialogCalls
    BY DEF DialogInv
<1>2. srv' = srv
    BY DEF Dialog!Loaded, Dialog!LoadFails, Dialog!ChooseTopic, Dialog!Open, Dialog!Close
<1>3. /\ net' \in DialogCalls
      /\ net'.ask = net.ask /\ net'.made = net.made /\ net'.polls = net.polls
    BY <1>1 DEF Dialog!Loaded, Dialog!LoadFails, Dialog!ChooseTopic, Dialog!Open,
                Dialog!Close, DialogCalls
<1>4. /\ ui' \in DialogPage /\ ui'.job = ui.job /\ ui'.told = ui.told
      /\ ui'.generating = ui.generating /\ ui'.ticking = ui.ticking
      /\ ui'.closing = ui.closing
    <2>1. CASE ui' = ui
        BY <1>1, <2>1
    <2>2. CASE Dialog!Loaded
        BY <1>1, <2>2 DEF Dialog!Loaded, DialogPage
    <2>3. CASE Dialog!Open
        BY <1>1, <2>3 DEF Dialog!Open, Dialog!OpenOnClass, Dialog!OpenOnChallenges,
                          Dialog!OpenOnSubjects, Dialog!Opened, DialogPage
    <2>4. CASE Dialog!Close
        BY <1>1, <2>4 DEF Dialog!Close, DialogPage
    <2> QED
        BY <2>1, <2>2, <2>3, <2>4 DEF Dialog!LoadFails, Dialog!ChooseTopic
<1> QED
    BY <1>2, <1>3, <1>4, DialogAsides

\* The dialog asks while nothing is waited for, so that nothing is polled.
LEMMA AskingKeepsInv ==
    ASSUME PagesAssumption, DialogInv, Dialog!TriggerGeneration PROVE DialogInv'
<1>1. ui \in DialogPage /\ net \in DialogCalls /\ srv' = srv
    BY DEF DialogInv, Dialog!TriggerGeneration
<1>2. ~ui.generating
    BY <1>1 DEF Dialog!TriggerGeneration, Dialog!Offered, Dialog!ClassDialog,
                Dialog!ChallengesDialog, Dialog!SubjectsDialog, DialogPage
<1>3. \/ Dialog!Ask
      \/ ui' = [ui EXCEPT !.error = TRUE] /\ net' = net
    BY DEF Dialog!TriggerGeneration, Dialog!AskOnClass, Dialog!AskOnChallenges,
           Dialog!AskOnSubjects
<1>4. CASE ui' = [ui EXCEPT !.error = TRUE] /\ net' = net
    <2>1. /\ ui' \in DialogPage /\ ui'.job = ui.job /\ ui'.told = ui.told
          /\ ui'.generating = ui.generating /\ ui'.ticking = ui.ticking
          /\ ui'.closing = ui.closing
        BY <1>1, <1>4 DEF DialogPage
    <2> QED
        BY <1>1, <1>4, <2>1, DialogAsides
<1>5. CASE Dialog!Ask
    <2>1. /\ ui' \in DialogPage /\ ui'.job = 0 /\ ui'.told = 0 /\ ui'.generating = TRUE
          /\ ui'.ticking = ui.ticking /\ ui'.closing = ui.closing
        BY <1>1, <1>5 DEF Dialog!Ask, DialogPage
    <2>2. /\ net' \in DialogCalls /\ net'.ask = "sent"
          /\ net'.made = net.made /\ net'.polls = net.polls
        BY <1>1, <1>5 DEF Dialog!Ask, DialogCalls
    <2>3. ASSUME ~srv.overtaken
          PROVE  ui.ticking = {} /\ \A j \in Dialog!Job : ~(ui.closing[j] > 0)
        BY <1>2, <2>3 DEF DialogInv, WaitsForItsJob
    <2>4. ASSUME ~srv.overtaken
          PROVE  WaitsForItsJob("sent", 0, TRUE, 0, ui.ticking, ui.closing)
        BY <2>3, <2>4 DEF WaitsForItsJob
    <2> QED
        BY <1>1, <2>1, <2>2, <2>4 DEF DialogInv
<1> QED
    BY <1>3, <1>4, <1>5

LEMMA RefreshKeepsInv ==
    ASSUME PagesAssumption, DialogInv, Dialog!Refresh PROVE DialogInv'
<1>1. PICK kind \in {"class", "subjects", "challenges"} :
          ui' = Dialog!Fresh(kind) /\ net' = Dialog!Loading /\ srv' = srv
    BY DEF Dialog!Refresh, DialogInv, DialogPage
<1>2. PICK u, n : u = ui' /\ n = net'
    OBVIOUS
<1>3. /\ u \in DialogPage /\ n \in DialogCalls /\ n.made = 0 /\ n.ask = "none"
      /\ SlotsDiffer(n.polls) /\ TimersFit(n.polls, u.closing)
      /\ TickingIsOpen(u.ticking, u.closing)
      /\ WaitsForItsJob(n.ask, u.job, u.generating, u.told, u.ticking, u.closing)
      /\ \A status : NewIsUnknown(status, n.made, u.ticking, u.closing, n.polls)
    BY <1>1, <1>2, FreshHasInv
<1> QED
    BY <1>1, <1>2, <1>3 DEF DialogInv

\* A job is made and named to the page; until then nothing is known of it.
LEMMA AnswersKeepInv ==
    ASSUME PagesAssumption, DialogInv, Dialog!Answers PROVE DialogInv'
<1>1. ui \in DialogPage /\ net \in DialogCalls /\ srv \in DialogStore
    BY DEF DialogInv
<1>2. CASE Dialog!ServeAsk
    <2>1. PICK made \in Dialog!Job :
              /\ srv.status[made] = "none" /\ net.ask = "sent" /\ ui' = ui
              /\ srv' = [srv EXCEPT !.status[made] = "PENDING"]
              /\ net' = [net EXCEPT !.ask = "made", !.made = made]
        BY <1>2 DEF Dialog!ServeAsk, Dialog!Unused
    <2>2. PICK status : status = [srv.status EXCEPT ![made] = "PENDING"]
        OBVIOUS
    <2>3. /\ status \in [Dialog!Job -> Dialog!Status \cup {"none"}]
          /\ \A j \in Dialog!Job : status[j] = "none" => srv.status[j] = "none"
        BY <1>1, <2>2 DEF DialogStore, Dialog!Status
    <2>a. status[made] # "none"
        BY <1>1, <2>2 DEF DialogStore
    <2>4. srv' = [srv EXCEPT !.status = status]
        BY <2>1, <2>2
    <2>5. srv' \in DialogStore /\ srv'.status = status /\ srv'.overtaken = srv.overtaken
        BY <1>1, <2>3, <2>4 DEF DialogStore
    <2>6. /\ net' \in DialogCalls /\ net'.ask = "made" /\ net'.made = made
          /\ net'.polls = net.polls
        BY <1>1, <2>1 DEF DialogCalls
    <2>7. NewIsUnknown(status, made, ui.ticking, ui.closing, net.polls)
        BY <2>1, <2>3 DEF DialogInv, NewIsUnknown
    <2>8. ASSUME ~srv.overtaken
          PROVE  WaitsForItsJob("made", ui.job, ui.generating, ui.told, ui.ticking, ui.closing)
        BY <2>1, <2>8 DEF DialogInv, WaitsForItsJob
    <2> QED
        BY <2>1, <2>a, <2>5, <2>6, <2>7, <2>8 DEF DialogInv
<1>3. CASE Dialog!Asked
    <2>1. PICK made \in Dialog!Job : made = net.made
        BY <1>3 DEF DialogInv, Dialog!Asked
    <2>2. PICK ticking \in SUBSET Dialog!Job : ticking = ui.ticking \cup {made}
        BY <1>1 DEF DialogPage
    <2>3. ui' = [ui EXCEPT !.job = made, !.ticking = ticking]
        BY <1>3, <2>1, <2>2 DEF Dialog!Asked
    <2>4. /\ ui' \in DialogPage /\ ui'.job = made /\ ui'.told = ui.told
          /\ ui'.generating = ui.generating /\ ui'.ticking = ticking
          /\ ui'.closing = ui.closing
        BY <1>1, <2>3 DEF DialogPage
    <2>5. /\ net' \in DialogCalls /\ net'.ask = "none" /\ net'.made = 0
          /\ net'.polls = net.polls /\ srv' = srv
        BY <1>1, <1>3 DEF Dialog!Asked, DialogCalls
    <2>6. made \notin ui.ticking /\ ui.closing[made] = 0
        BY <2>1 DEF DialogInv, NewIsUnknown
    <2>7. TickingIsOpen(ticking, ui.closing)
        BY <2>2, <2>6 DEF DialogInv, TickingIsOpen
    <2>8. NewIsUnknown(srv.status, 0, ticking, ui.closing, net.polls)
        <3>1. srv.status[made] # "none"
            BY <2>1, <1>3 DEF DialogInv, Dialog!Asked
        <3> QED
            BY <2>2, <3>1, DialogLimits DEF DialogInv, NewIsUnknown
    <2>9. ASSUME ~srv.overtaken
          PROVE  WaitsForItsJob("none", made, ui.generating, ui.told, ticking, ui.closing)
        <3>1. /\ ui.generating /\ ui.job = 0 /\ ui.told = 0 /\ ui.ticking \subseteq {0}
              /\ \A j \in Dialog!Job : ui.closing[j] > 0 => j = 0
            BY <1>3, <2>9 DEF DialogInv, WaitsForItsJob, Dialog!Asked
        <3>2. ticking = {made} /\ \A j \in Dialog!Job : ~(ui.closing[j] > 0)
            BY <1>1, <2>2, <3>1, DialogLimits DEF DialogPage
        <3> QED
            BY <3>1, <3>2 DEF WaitsForItsJob
    <2> QED
        BY <1>1, <2>4, <2>5, <2>7, <2>8, <2>9 DEF DialogInv
<1>4. CASE Dialog!AskFails
    <2>1. /\ ui' \in DialogPage /\ ui'.job = ui.job /\ ui'.told = ui.told
          /\ ui'.generating = FALSE /\ ui'.ticking = ui.ticking
          /\ ui'.closing = ui.closing
        BY <1>1, <1>4 DEF Dialog!AskFails, DialogPage
    <2>2. /\ net' \in DialogCalls /\ net'.ask = "none" /\ net'.made = 0
          /\ net'.polls = net.polls /\ srv' = srv
        BY <1>1, <1>4 DEF Dialog!AskFails, DialogCalls
    <2>3. NewIsUnknown(srv.status, 0, ui.ticking, ui.closing, net.polls)
        BY DialogLimits DEF DialogInv, NewIsUnknown
    <2>4. ASSUME ~srv.overtaken
          PROVE  WaitsForItsJob("none", ui.job, FALSE, ui.told, ui.ticking, ui.closing)
        <3>1. /\ ui.job = 0 /\ ui.told \in {0, ui.job} /\ ui.ticking \subseteq {0}
              /\ \A j \in Dialog!Job : ui.closing[j] > 0 => j = 0
            BY <1>4, <2>4 DEF DialogInv, WaitsForItsJob, Dialog!AskFails
        <3>2. ui.ticking = {} /\ \A j \in Dialog!Job : ~(ui.closing[j] > 0)
            BY <1>1, <3>1, DialogLimits DEF DialogPage
        <3> QED
            BY <3>1, <3>2 DEF WaitsForItsJob
    <2> QED
        BY <1>1, <2>1, <2>2, <2>3, <2>4 DEF DialogInv
<1> QED
    BY <1>2, <1>3, <1>4 DEF Dialog!Answers

\* The status of a challenge that there is changes.
LEMMA StatusKeepsInv ==
    ASSUME PagesAssumption, DialogInv, NEW j \in Dialog!Job,
           Dialog!JobEnds(j) \/ Dialog!UpdateStatus(j)
    PROVE  DialogInv'
<1>1. PICK end \in Dialog!Status :
          srv.status[j] # "none" /\ srv' = [srv EXCEPT !.status[j] = end]
    BY DEF Dialog!JobEnds, Dialog!UpdateStatus, Dialog!Status
<1>2. PICK status : status = [srv.status EXCEPT ![j] = end]
    OBVIOUS
<1>3. srv \in DialogStore /\ ui' = ui /\ net' = net
    BY DEF DialogInv, Dialog!JobEnds, Dialog!UpdateStatus
<1>4. /\ status \in [Dialog!Job -> Dialog!Status \cup {"none"}]
      /\ \A k \in Dialog!Job : status[k] = "none" <=> srv.status[k] = "none"
    BY <1>1, <1>2, <1>3 DEF DialogStore, Dialog!Status
<1>5. srv' = [srv EXCEPT !.status = status]
    BY <1>1, <1>2
<1>6. srv' \in DialogStore /\ srv'.status = status /\ srv'.overtaken = srv.overtaken
    BY <1>3, <1>4, <1>5 DEF DialogStore
<1>7. NewIsUnknown(status, net.made, ui.ticking, ui.closing, net.polls)
    BY <1>4 DEF DialogInv, NewIsUnknown
<1> QED
    BY <1>3, <1>4, <1>6, <1>7 DEF DialogInv

\* The slots of other jobs are left as they are.
LEMMA SlotsOfOthers ==
    ASSUME NEW polls, NEW p, NEW others, NEW j, p.job # j,
           others = polls \cup {p} \/ others = polls \ {p}
    PROVE  SlotsOf(others, j) = SlotsOf(polls, j)
<1>1. {q \in others : q.job = j} = {q \in polls : q.job = j}
    OBVIOUS
<1> QED
    BY <1>1 DEF SlotsOf

LEMMA TickKeepsInv ==
    ASSUME PagesAssumption, DialogInv, NEW j \in Dialog!Job, Dialog!Tick(j)
    PROVE  DialogInv'
<1>1. /\ ui \in DialogPage /\ net \in DialogCalls /\ srv' = srv /\ j \in ui.ticking
      /\ net.polls \subseteq Dialog!Poll /\ ui.closing \in [Dialog!Job -> 0 .. MaxPolls]
    BY DEF DialogInv, DialogPage, DialogCalls, Dialog!Tick
<1>2. PICK count : count = [ui.count EXCEPT ![j] = Dialog!Least(ui.count[j] + 1, PollLimit)]
    OBVIOUS
<1>3. count \in [Dialog!Job -> 0 .. PollLimit]
    <2>1. ui.count \in [Dialog!Job -> 0 .. PollLimit]
        BY <1>1 DEF DialogPage
    <2>2. Dialog!Least(ui.count[j] + 1, PollLimit) \in 0 .. PollLimit
        BY <2>1, DialogLimits DEF Dialog!Least
    <2> QED
        BY <1>2, <2>1, <2>2
<1>4. ui' = [ui EXCEPT !.count = count]
    BY <1>2 DEF Dialog!Tick
<1>5. /\ ui' \in DialogPage /\ ui'.job = ui.job /\ ui'.told = ui.told
      /\ ui'.generating = ui.generating /\ ui'.ticking = ui.ticking
      /\ ui'.closing = ui.closing
    BY <1>1, <1>3, <1>4 DEF DialogPage
<1>6. PICK slot, new :
          /\ slot \in 1 .. MaxPolls /\ \A p \in net.polls : p.slot < slot
          /\ new = [slot |-> slot, job |-> j, reply |-> "sent"]
          /\ net' = [net EXCEPT !.polls = net.polls \cup {new}]
    BY DEF Dialog!Tick
<1>7. new \in Dialog!Poll /\ new.slot = slot /\ new.job = j
    BY <1>6 DEF Dialog!Poll
<1>8. PICK polls \in SUBSET Dialog!Poll : polls = net.polls \cup {new}
    BY <1>1, <1>7
<1>9. /\ net' \in DialogCalls /\ net'.polls = polls
      /\ net'.ask = net.ask /\ net'.made = net.made
    BY <1>1, <1>6, <1>8 DEF DialogCalls
<1>10. SlotsDiffer(polls)
    <2>1. \A p \in net.polls : p.slot # slot
        <3> SUFFICES ASSUME NEW p \in net.polls PROVE p.slot # slot
            OBVIOUS
        <3>1. p.slot < slot /\ p.slot \in Nat /\ slot \in Nat
            BY <1>1, <1>6, DialogLimits DEF Dialog!Poll
        <3> QED
            BY <3>1
    <2> QED
        BY <1>7, <1>8, <2>1 DEF DialogInv, SlotsDiffer
<1>11. TimersFit(polls, ui.closing)
    <2> SUFFICES ASSUME NEW k \in Dialog!Job
                 PROVE  Cardinality(SlotsOf(polls, k)) + ui.closing[k] =< MaxPolls
        BY DEF TimersFit
    <2>1. CASE k = j
        <3>1. ui.closing[k] = 0
            BY <1>1, <2>1 DEF DialogInv, TickingIsOpen
        <3>2. Cardinality(SlotsOf(polls, k)) \in 0 .. MaxPolls
            BY <1>8, SlotsBound
        <3> QED
            BY <3>1, <3>2, DialogLimits
    <2>2. CASE k # j
        <3>1. SlotsOf(polls, k) = SlotsOf(net.polls, k)
            BY <1>7, <1>8, <2>2, SlotsOfOthers
        <3> QED
            BY <3>1 DEF DialogInv, TimersFit
    <2> QED
        BY <2>1, <2>2
<1>12. NewIsUnknown(srv.status, net.made, ui.ticking, ui.closing, polls)
    BY <1>1, <1>7, <1>8 DEF DialogInv, NewIsUnknown
<1> QED
    BY <1>1, <1>5, <1>9, <1>10, <1>11, <1>12 DEF DialogInv

LEMMA ServePollKeepsInv ==
    ASSUME PagesAssumption, DialogInv, NEW p \in net.polls, Dialog!ServePoll(p)
    PROVE  DialogInv'
<1>1. /\ net \in DialogCalls /\ srv \in DialogStore /\ ui' = ui /\ srv' = srv
      /\ net.polls \subseteq Dialog!Poll /\ p \in Dialog!Poll
    BY DEF DialogInv, DialogCalls, Dialog!ServePoll
<1>2. PICK q : q = [p EXCEPT !.reply = srv.status[p.job]]
    OBVIOUS
<1>3. q.slot = p.slot /\ q.job = p.job
    BY <1>1, <1>2 DEF Dialog!Poll
<1>4. q \in Dialog!Poll
    <2>1. srv.status[p.job] # "none"
        BY <1>1 DEF DialogInv, NewIsUnknown, Dialog!Poll
    <2>2. srv.status[p.job] \in Dialog!Status
        BY <1>1, <2>1 DEF DialogStore, Dialog!Poll
    <2> QED
        BY <1>1, <1>2, <2>2 DEF Dialog!Poll
<1>5. PICK polls \in SUBSET Dialog!Poll : polls = (net.polls \ {p}) \cup {q}
    BY <1>1, <1>4
<1>6. net' = [net EXCEPT !.polls = polls]
    BY <1>2, <1>5 DEF Dialog!ServePoll
<1>7. /\ net' \in DialogCalls /\ net'.polls = polls
      /\ net'.ask = net.ask /\ net'.made = net.made
    BY <1>1, <1>5, <1>6 DEF DialogCalls
<1>8. SlotsDiffer(polls)
    BY <1>3, <1>5 DEF DialogInv, SlotsDiffer
<1>9. \A j : SlotsOf(polls, j) = SlotsOf(net.polls, j)
    BY <1>3, <1>5 DEF SlotsOf
<1>10. TimersFit(polls, ui.closing)
    BY <1>9 DEF DialogInv, TimersFit
<1>11. NewIsUnknown(srv.status, net.made, ui.ticking, ui.closing, polls)
    BY <1>3, <1>5 DEF DialogInv, NewIsUnknown
<1> QED
    BY <1>1, <1>7, <1>8, <1>10, <1>11 DEF DialogInv

\* A poll that has been answered gives its slot back.
LEMMA SlotGivenBack ==
    ASSUME PagesAssumption, NEW polls, polls \subseteq Dialog!Poll, SlotsDiffer(polls),
           NEW p \in polls
    PROVE  Cardinality(SlotsOf(polls \ {p}, p.job)) + 1 = Cardinality(SlotsOf(polls, p.job))
<1>1. PICK j, slots : j = p.job /\ slots = SlotsOf(polls, j)
    OBVIOUS
<1>2. SlotsOf(polls \ {p}, j) = slots \ {p.slot}
    BY <1>1 DEF SlotsOf, SlotsDiffer
<1>3. p.slot \in slots
    BY <1>1 DEF SlotsOf
<1>4. IsFiniteSet(slots) /\ Cardinality(slots) \in Nat
    <2>1. IsFiniteSet(slots)
        BY <1>1, SlotsBound
    <2> QED
        BY <2>1, FS_CardinalityType
<1>5. Cardinality(slots \ {p.slot}) = Cardinality(slots) - 1
    BY <1>3, <1>4, FS_RemoveElement
<1>6. Cardinality(slots \ {p.slot}) + 1 = Cardinality(slots)
    BY <1>4, <1>5
<1> QED
    BY <1>1, <1>2, <1>6, Zenon

\* What the page makes of a poll: nothing, or its job is settled and its
\* interval cleared; then the dialog is about to close, or has given up.
LEMMA PollsAnswered ==
    ASSUME DialogInv, NEW p \in net.polls, Dialog!PollEnds(p)
    PROVE  \/ ui' = ui
           \/ ui' = [Dialog!Settled(p.job) EXCEPT !.closing[p.job] = @ + 1]
           \/ ui' = Dialog!GivenUp(Dialog!Settled(p.job), p)
BY DEF Dialog!PollEnds, Dialog!PollOnClass, Dialog!PollOnSubjects, Dialog!PollOnChallenges,
       Dialog!PolledReady, Dialog!PolledFailed, Dialog!PolledOther, Dialog!PollLost

LEMMA PollEndsKeepsInv ==
    ASSUME PagesAssumption, DialogInv, NEW p \in net.polls, Dialog!PollEnds(p)
    PROVE  DialogInv'
<1>1. /\ ui \in DialogPage /\ net \in DialogCalls /\ srv \in DialogStore
      /\ net.polls \subseteq Dialog!Poll /\ p \in Dialog!Poll /\ p.job \in Dialog!Job
      /\ ui.closing \in [Dialog!Job -> 0 .. MaxPolls] /\ ui.ticking \subseteq Dialog!Job
    BY DEF DialogInv, DialogPage, DialogCalls, Dialog!Poll
<1>2. PICK polls \in SUBSET Dialog!Poll : polls = net.polls \ {p}
    BY <1>1
<1>3. /\ net' \in DialogCalls /\ net'.polls = polls
      /\ net'.ask = net.ask /\ net'.made = net.made
    BY <1>1, <1>2 DEF Dialog!PollEnds, DialogCalls
<1>4. PICK overtaken \in BOOLEAN :
          /\ overtaken = (srv.overtaken \/ (p.job \notin ui.ticking /\ ui' # ui))
          /\ srv' = [srv EXCEPT !.overtaken = overtaken]
    BY <1>1 DEF Dialog!PollEnds, DialogStore
<1>5. srv' \in DialogStore /\ srv'.status = srv.status /\ srv'.overtaken = overtaken
    BY <1>1, <1>4 DEF DialogStore
<1>6. SlotsDiffer(polls)
    BY <1>2 DEF DialogInv, SlotsDiffer
<1>7. /\ srv.status[p.job] # "none" /\ p.job # net.made
    BY <1>1 DEF DialogInv, NewIsUnknown
<1>8. /\ Cardinality(SlotsOf(polls, p.job)) + 1 = Cardinality(SlotsOf(net.polls, p.job))
      /\ Cardinality(SlotsOf(polls, p.job)) \in Nat
    <2>1. SlotsDiffer(net.polls)
        BY DEF DialogInv
    <2>2. Cardinality(SlotsOf(polls, p.job)) \in Nat
        BY SlotsBound, FS_CardinalityType
    <2> QED
        BY <1>1, <1>2, <2>1, <2>2, SlotGivenBack
<1>9. \A j \in Dialog!Job : j # p.job => SlotsOf(polls, j) = SlotsOf(net.polls, j)
    BY <1>2, SlotsOfOthers
<1>10. ui.closing[p.job] + 1 =< MaxPolls - Cardinality(SlotsOf(polls, p.job))
    BY <1>1, <1>8, DialogLimits DEF DialogInv, TimersFit
<1>11. PICK ticking, closing, generating, told :
          /\ ui' \in DialogPage /\ ui'.job = ui.job /\ ui'.generating = generating
          /\ ui'.told = told /\ ui'.ticking = ticking /\ ui'.closing = closing
          /\ \/ /\ ui' = ui /\ ticking = ui.ticking /\ closing = ui.closing
                /\ generating = ui.generating /\ told = ui.told
             \/ /\ ticking = ui.ticking \ {p.job}
                /\ closing = [ui.closing EXCEPT ![p.job] = ui.closing[p.job] + 1]
                /\ generating = ui.generating /\ told = ui.told
             \/ /\ ticking = ui.ticking \ {p.job} /\ closing = ui.closing
                /\ generating = FALSE
                /\ told = IF ui.generating THEN p.job ELSE ui.told
    <2>1. CASE ui' = ui
        BY <1>1, <2>1
    <2>2. PICK settled : settled = Dialog!Settled(p.job)
        OBVIOUS
    <2>3. /\ settled \in DialogPage /\ settled.job = ui.job
          /\ settled.generating = ui.generating /\ settled.told = ui.told
          /\ settled.ticking = ui.ticking \ {p.job} /\ settled.closing = ui.closing
        BY <1>1, <2>2 DEF Dialog!Settled, DialogPage
    <2>4. CASE ui' = [settled EXCEPT !.closing[p.job] = @ + 1]
        <3>1. PICK closing : closing = [ui.closing EXCEPT ![p.job] = ui.closing[p.job] + 1]
            OBVIOUS
        <3>2. ui.closing[p.job] + 1 \in 0 .. MaxPolls
            BY <1>1, <1>8, <1>10, DialogLimits
        <3>3. closing \in [Dialog!Job -> 0 .. MaxPolls]
            BY <1>1, <3>1, <3>2
        <3>4. ui' = [settled EXCEPT !.closing = closing]
            BY <2>3, <2>4, <3>1
        <3>5. /\ ui' \in DialogPage /\ ui'.job = ui.job
              /\ ui'.generating = ui.generating /\ ui'.told = ui.told
              /\ ui'.ticking = ui.ticking \ {p.job} /\ ui'.closing = closing
            BY <2>3, <3>3, <3>4 DEF DialogPage
        <3> QED
            BY <3>1, <3>5
    <2>5. ASSUME ui' = Dialog!GivenUp(settled, p)
          PROVE  /\ ui' \in DialogPage /\ ui'.job = ui.job /\ ui'.generating = FALSE
                 /\ ui'.told = (IF ui.generating THEN p.job ELSE ui.told)
                 /\ ui'.ticking = ui.ticking \ {p.job} /\ ui'.closing = ui.closing
        <3>1. PICK told : told = IF ui.generating THEN p.job ELSE ui.told
            OBVIOUS
        <3>2. told \in Dialog!Job \cup {0}
            BY <1>1, <3>1 DEF DialogPage
        <3>3. ui' = [settled EXCEPT !.error = TRUE, !.generating = FALSE, !.told = told]
            BY <2>3, <2>5, <3>1 DEF Dialog!GivenUp
        <3>4. /\ ui' \in DialogPage /\ ui'.job = ui.job /\ ui'.generating = FALSE
              /\ ui'.told = told /\ ui'.ticking = ui.ticking \ {p.job}
              /\ ui'.closing = ui.closing
            BY <2>3, <3>2, <3>3 DEF DialogPage
        <3> QED
            BY <3>1, <3>4
    <2> QED
        BY <2>1, <2>2, <2>4, <2>5, PollsAnswered
<1>12. /\ ticking \subseteq ui.ticking
       /\ \A j \in Dialog!Job :
             closing[j] = ui.closing[j]
             \/ (j = p.job /\ j \notin ticking /\ closing[j] = ui.closing[j] + 1)
    BY <1>1, <1>11
<1>13. TimersFit(polls, closing)
    <2> SUFFICES ASSUME NEW j \in Dialog!Job
                 PROVE  Cardinality(SlotsOf(polls, j)) + closing[j] =< MaxPolls
        BY DEF TimersFit
    <2>1. ui.closing[j] \in Nat
        BY <1>1, DialogLimits
    <2>2. CASE j = p.job
        BY <1>8, <1>10, <1>12, <2>1, <2>2, DialogLimits
    <2>3. CASE j # p.job
        BY <1>9, <1>12, <2>3 DEF DialogInv, TimersFit
    <2> QED
        BY <2>2, <2>3
<1>14. TickingIsOpen(ticking, closing)
    BY <1>1, <1>12 DEF DialogInv, TickingIsOpen
<1>15. NewIsUnknown(srv.status, net.made, ticking, closing, polls)
    BY <1>2, <1>7, <1>12 DEF DialogInv, NewIsUnknown
<1>16. ASSUME ~overtaken
       PROVE  WaitsForItsJob(net.ask, ui.job, generating, told, ticking, closing)
    <2>1. /\ ~srv.overtaken /\ (ui' # ui => p.job \in ui.ticking)
          /\ WaitsForItsJob(net.ask, ui.job, ui.generating, ui.told, ui.ticking, ui.closing)
        BY <1>4, <1>16 DEF DialogInv
    <2>2. CASE ui' = ui
        BY <1>11, <2>1, <2>2
    <2>3. CASE ui' # ui
        <3>1. /\ ui.job = p.job /\ ui.generating = TRUE /\ ui.told = 0
              /\ ui.ticking = {p.job} /\ net.ask = "none"
              /\ \A j \in Dialog!Job : ~(ui.closing[j] > 0)
            BY <1>1, <2>1, <2>3, DialogLimits DEF WaitsForItsJob, DialogPage, DialogCalls
        <3>2. ticking = {}
            BY <1>11, <2>3, <3>1
        <3>3. CASE /\ closing = [ui.closing EXCEPT ![p.job] = ui.closing[p.job] + 1]
                   /\ generating = ui.generating /\ told = ui.told
            <4>1. \A j \in Dialog!Job : closing[j] > 0 => j = p.job /\ closing[j] = 1
                <5> SUFFICES ASSUME NEW j \in Dialog!Job, closing[j] > 0
                             PROVE  j = p.job /\ closing[j] = 1
                    OBVIOUS
                <5>1. ui.closing[j] = 0
                    <6>1. ui.closing[j] \in 0 .. MaxPolls
                        BY <1>1
                    <6> QED
                        BY <3>1, <6>1, DialogLimits
                <5> QED
                    BY <1>1, <3>3, <5>1
            <4> QED
                BY <3>1, <3>2, <3>3, <4>1 DEF WaitsForItsJob
        <3>4. CASE closing = ui.closing /\ generating = FALSE /\ told = p.job
            BY <3>1, <3>2, <3>4 DEF WaitsForItsJob
        <3> QED
            BY <1>11, <2>3, <3>1, <3>3, <3>4
    <2> QED
        BY <2>2, <2>3
<1> QED
    BY <1>3, <1>5, <1>6, <1>11, <1>13, <1>14, <1>15, <1>16 DEF DialogInv

LEMMA CloseKeepsInv ==
    ASSUME PagesAssumption, DialogInv, NEW j \in Dialog!Job, Dialog!CloseWhenReady(j)
    PROVE  DialogInv'
<1>1. /\ ui \in DialogPage /\ net \in DialogCalls /\ srv' = srv /\ srv \in DialogStore
      /\ ui.closing \in [Dialog!Job -> 0 .. MaxPolls] /\ ui.closing[j] > 0
    BY DEF DialogInv, DialogPage, Dialog!CloseWhenReady
<1>2. PICK closing : closing = [ui.closing EXCEPT ![j] = ui.closing[j] - 1]
    OBVIOUS
<1>3. /\ closing \in [Dialog!Job -> 0 .. MaxPolls]
      /\ closing[j] = ui.closing[j] - 1
      /\ \A k \in Dialog!Job : k # j => closing[k] = ui.closing[k]
      /\ \A k \in Dialog!Job : closing[k] =< ui.closing[k]
    <2>1. ui.closing[j] \in 0 .. MaxPolls /\ ui.closing[j] - 1 \in 0 .. MaxPolls
        BY <1>1, DialogLimits
    <2>2. \A k \in Dialog!Job : ui.closing[k] \in Nat
        BY <1>1, DialogLimits
    <2> QED
        BY <1>1, <1>2, <2>1, <2>2
<1>4. PICK told \in Dialog!Job \cup {0} : told = IF ui.generating THEN j ELSE ui.told
    BY <1>1 DEF DialogPage
<1>5. ui' = [ui EXCEPT !.open = FALSE, !.generating = FALSE, !.closing = closing, !.told = told]
    BY <1>1, <1>2, <1>4 DEF Dialog!CloseWhenReady
<1>6. /\ ui' \in DialogPage /\ ui'.job = ui.job /\ ui'.generating = FALSE
      /\ ui'.told = told /\ ui'.ticking = ui.ticking /\ ui'.closing = closing
    BY <1>1, <1>3, <1>5 DEF DialogPage
<1>7. PICK load \in BOOLEAN : net' = [net EXCEPT !.load = load]
    BY <1>1 DEF Dialog!CloseWhenReady, DialogCalls
<1>8. /\ net' \in DialogCalls /\ net'.ask = net.ask /\ net'.made = net.made
      /\ net'.polls = net.polls
    BY <1>1, <1>7 DEF DialogCalls
<1>9. TimersFit(net.polls, closing)
    <2> SUFFICES ASSUME NEW k \in Dialog!Job
                 PROVE  Cardinality(SlotsOf(net.polls, k)) + closing[k] =< MaxPolls
        BY DEF TimersFit
    <2>1. Cardinality(SlotsOf(net.polls, k)) + ui.closing[k] =< MaxPolls
        BY DEF DialogInv, TimersFit
    <2>2. Cardinality(SlotsOf(net.polls, k)) \in 0 .. MaxPolls
        <3>1. net.polls \subseteq Dialog!Poll
            BY <1>1 DEF DialogCalls
        <3> QED
            BY <3>1, SlotsBound
    <2>3. closing[k] \in Nat /\ ui.closing[k] \in Nat /\ closing[k] =< ui.closing[k]
        BY <1>1, <1>3, DialogLimits
    <2> QED
        BY <2>1, <2>2, <2>3, DialogLimits
<1>10. j \notin ui.ticking /\ srv.status[j] # "none" /\ j # net.made
    BY <1>1 DEF DialogInv, TickingIsOpen, NewIsUnknown
<1>11. TickingIsOpen(ui.ticking, closing)
    BY <1>1, <1>3, <1>10 DEF DialogInv, TickingIsOpen, DialogPage
<1>12. NewIsUnknown(srv.status, net.made, ui.ticking, closing, net.polls)
    BY <1>3, <1>10 DEF DialogInv, NewIsUnknown
<1>13. ASSUME ~srv.overtaken
       PROVE  WaitsForItsJob(net.ask, ui.job, FALSE, told, ui.ticking, closing)
    <2>1. /\ ui.job = j /\ ui.generating = TRUE /\ ui.ticking = {} /\ ui.closing[j] = 1
          /\ net.ask = "none"
          /\ \A k \in Dialog!Job : ui.closing[k] > 0 => k = j
        BY <1>1, <1>13, DialogLimits DEF DialogInv, WaitsForItsJob, DialogPage, DialogCalls
    <2>2. told = j
        BY <1>4, <2>1
    <2>3. \A k \in Dialog!Job : ~(closing[k] > 0)
        BY <1>1, <1>3, <2>1
    <2> QED
        BY <2>1, <2>2, <2>3 DEF WaitsForItsJob
<1>14. /\ net'.ask = "made" =>
              net'.made \in Dialog!Job /\ srv'.status[net'.made] # "none"
       /\ SlotsDiffer(net'.polls) /\ TimersFit(net'.polls, ui'.closing)
       /\ TickingIsOpen(ui'.ticking, ui'.closing)
       /\ NewIsUnknown(srv'.status, net'.made, ui'.ticking, ui'.closing, net'.polls)
    <2>1. SlotsDiffer(net.polls)
        BY DEF DialogInv
    <2>2. net.ask = "made" => net.made \in Dialog!Job /\ srv.status[net.made] # "none"
        BY DEF DialogInv
    <2> QED
        BY <1>1, <1>6, <1>8, <1>9, <1>11, <1>12, <2>1, <2>2
<1>15. srv'.overtaken \/ WaitsForItsJob(net'.ask, ui'.job, ui'.generating, ui'.told,
                                        ui'.ticking, ui'.closing)
    BY <1>1, <1>6, <1>8, <1>13
<1> QED
    BY <1>1, <1>6, <1>8, <1>14, <1>15 DEF DialogInv

LEMMA DialogKeepsInv ==
    ASSUME PagesAssumption, DialogInv, Dialog!Next PROVE DialogInv'
<1>1. CASE \/ Dialog!Loaded \/ Dialog!LoadFails \/ Dialog!ChooseTopic
           \/ Dialog!Open \/ Dialog!Close
    BY <1>1, ShownKeepsInv
<1>2. CASE \/ Dialog!Refresh \/ Dialog!TriggerGeneration \/ Dialog!Answers
    BY <1>2, RefreshKeepsInv, AskingKeepsInv, AnswersKeepInv
<1>3. CASE \E j \in Dialog!Job : \/ Dialog!JobEnds(j) \/ Dialog!UpdateStatus(j)
                                 \/ Dialog!Tick(j) \/ Dialog!CloseWhenReady(j)
    BY <1>3, StatusKeepsInv, TickKeepsInv, CloseKeepsInv
<1>4. CASE \E p \in net.polls : Dialog!ServePoll(p) \/ Dialog!PollEnds(p)
    BY <1>4, ServePollKeepsInv, PollEndsKeepsInv
<1> QED
    BY <1>1, <1>2, <1>3, <1>4 DEF Dialog!Next

LEMMA DialogProperties == ASSUME DialogInv PROVE Dialog!OutcomeIsOfTheJob
BY DEF DialogInv, WaitsForItsJob, Dialog!OutcomeIsOfTheJob

-----------------------------------------------------------------------------
(* Waiting for a challenge.                                                *)

IntroPage ==
    [page : {"topic", "intro", "attempt", "away"}, id : Intro!Id \cup {0},
     data : Intro!Status \cup {"none"}, dataId : Intro!Id \cup {0},
     loading : BOOLEAN, error : BOOLEAN, busy : BOOLEAN, refused : BOOLEAN,
     polled : {0} \cup Intro!Id]

IntroCalls ==
    [load : Intro!Reply, poll : Intro!Reply \cup {"timer"},
     button : {"none", "generate", "start", "generated", "started", "error"},
     made : Intro!Id \cup {0}]

IntroStore == [status : [Intro!Id -> Intro!Status \cup {"none"}]]

\* A page that shows a challenge, loads it or polls it has its number.
HasNumber(shown, id, load, poll) ==
    shown = "intro" \/ load # "none" \/ poll # "none" => id \in Intro!Id

IntroInv ==
    /\ ui \in IntroPage /\ net \in IntroCalls /\ srv \in IntroStore
    /\ HasNumber(ui.page, ui.id, net.load, net.poll)
    /\ net.button = "generated" => net.made \in Intro!Id

LEMMA IntroIds ==
    ASSUME PagesAssumption
    PROVE  0 \notin Intro!Id /\ Intro!Id \subseteq Nat /\ Intro!NoId = 0
BY DEF PagesAssumption, Intro!Id, Intro!NoId

LEMMA IntroInit == ASSUME Intro!Init PROVE IntroInv
<1>1. ui \in IntroPage /\ ui.page = "topic"
    BY DEF Intro!Init, Intro!Blank, Intro!NoId, IntroPage
<1>2. net \in IntroCalls /\ net.load = "none" /\ net.poll = "none" /\ net.button = "none"
    BY DEF Intro!Init, Intro!Quiet, Intro!NoId, Intro!Reply, IntroCalls
<1>3. srv \in IntroStore
    BY DEF Intro!Init, IntroStore
<1> QED
    BY <1>1, <1>2, <1>3 DEF IntroInv, HasNumber

\* The poll effect of a page that has its number starts no poll without one.
LEMMA RenderKeeps ==
    ASSUME NEW u \in IntroPage, NEW n \in IntroCalls, Intro!Render(u, n),
           HasNumber(u.page, u.id, n.load, n.poll),
           n.button = "generated" => n.made \in Intro!Id, srv' = srv, srv \in IntroStore
    PROVE  IntroInv'
<1>1. PICK wanted \in {0} \cup Intro!Id :
          /\ wanted = IF u.page = "intro" /\ Intro!IsGenerating(u) THEN u.id ELSE 0
          /\ ui' = [u EXCEPT !.polled = wanted]
          /\ net' = IF wanted = u.polled THEN n
                    ELSE [n EXCEPT !.poll = IF wanted = 0 THEN "none" ELSE "timer"]
    BY DEF Intro!Render, Intro!NoId, IntroPage
<1>2. ui' \in IntroPage /\ ui'.page = u.page /\ ui'.id = u.id
    BY <1>1 DEF IntroPage
<1>3. PICK poll \in {"none", "timer"} : poll = IF wanted = 0 THEN "none" ELSE "timer"
    OBVIOUS
<1>4. /\ net' \in IntroCalls /\ net'.load = n.load /\ net'.button = n.button
      /\ net'.made = n.made /\ net'.poll \in {n.poll, poll}
    BY <1>1, <1>3 DEF IntroCalls, Intro!Reply
<1>5. poll = "timer" => u.id \in Intro!Id
    BY <1>1, <1>3 DEF IntroPage
<1>6. HasNumber(ui'.page, ui'.id, net'.load, net'.poll)
    BY <1>2, <1>3, <1>4, <1>5 DEF HasNumber
<1> QED
    BY <1>2, <1>4, <1>6 DEF IntroInv

\* The least number that is not in use.
LEMMA NextIsId ==
    ASSUME PagesAssumption, Intro!Unused # {} PROVE Intro!NextId \in Intro!Id
<1>1. Intro!Unused \subseteq Nat /\ Intro!Unused \subseteq Intro!Id
    BY IntroIds DEF Intro!Unused
<1>2. PICK first \in Intro!Unused :
          \A n \in Intro!Unused : <<n, first>> \notin OpToRel(<, Nat)
    BY <1>1, NatLessThanWellFounded, WFMin
<1>3. ASSUME NEW n \in Intro!Unused PROVE first =< n
    <2>1. ASSUME n < first PROVE <<n, first>> \in OpToRel(<, Nat)
        <3>1. <<n, first>> \in Nat \X Nat /\ <<n, first>>[1] < <<n, first>>[2]
            BY <1>1, <2>1, SMT
        <3> QED
            BY <3>1, Zenon DEF OpToRel
    <2>2. ~(n < first)
        BY <1>2, <2>1, Zenon
    <2> QED
        BY <1>1, <2>2, SMT
<1>4. Intro!NextId \in Intro!Unused
    BY <1>3 DEF Intro!NextId
<1> QED
    BY <1>1, <1>4

LEMMA IntroServed ==
    ASSUME PagesAssumption, IntroInv,
           \/ Intro!Server \/ Intro!ServePoll
           \/ \E c \in Intro!Id : Intro!JobEnds(c) \/ Intro!UpdateStatus(c)
    PROVE  IntroInv'
<1>1. ui \in IntroPage /\ net \in IntroCalls /\ srv \in IntroStore /\ ui' = ui
    BY DEF IntroInv, Intro!Server, Intro!ServeGenerate, Intro!ServeStart, Intro!ServeLoad,
           Intro!ServePoll, Intro!JobEnds, Intro!UpdateStatus
<1>2. srv' \in IntroStore
    <2>1. CASE srv' = srv
        BY <1>1, <2>1
    <2>2. ASSUME NEW c, NEW s \in Intro!Status, srv' = [srv EXCEPT !.status[c] = s]
          PROVE  srv' \in IntroStore
        BY <1>1, <2>2 DEF IntroStore
    <2> QED
        BY <2>1, <2>2
        DEF Intro!Server, Intro!ServeGenerate, Intro!ServeStart, Intro!ServeLoad,
            Intro!ServePoll, Intro!JobEnds, Intro!UpdateStatus, Intro!Status
<1>3. /\ net' \in IntroCalls /\ HasNumber(ui.page, ui.id, net'.load, net'.poll)
      /\ net'.button = "generated" => net'.made \in Intro!Id
    <2>1. CASE net' = net
        BY <1>1, <2>1 DEF IntroInv
    <2>2. CASE Intro!ServeGenerate
        <3>1. CASE /\ Intro!Unused # {}
                   /\ net' = [net EXCEPT !.button = "generated", !.made = Intro!NextId]
            <4>1. PICK made \in Intro!Id : made = Intro!NextId
                BY <3>1, NextIsId
            <4>2. net' = [net EXCEPT !.button = "generated", !.made = made]
                BY <3>1, <4>1
            <4> QED
                BY <1>1, <4>2 DEF IntroCalls, IntroInv
        <3>2. CASE net' = [net EXCEPT !.button = "error"]
            BY <1>1, <3>2 DEF IntroCalls, IntroInv
        <3> QED
            BY <2>2, <3>1, <3>2 DEF Intro!ServeGenerate
    <2>3. CASE Intro!ServeStart
        <3>1. PICK button \in {"started", "error"} : net' = [net EXCEPT !.button = button]
            BY <2>3 DEF Intro!ServeStart
        <3> QED
            BY <1>1, <3>1 DEF IntroCalls, IntroInv
    <2>4. CASE Intro!ServeLoad \/ Intro!ServePoll
        <3>1. PICK status : status = srv.status[ui.id]
            OBVIOUS
        <3>2. ui.id \in Intro!Id
            BY <2>4 DEF IntroInv, HasNumber, Intro!ServeLoad, Intro!ServePoll
        <3>3. status \in Intro!Reply
            BY <1>1, <3>1, <3>2 DEF IntroStore, Intro!Reply
        <3>4. net' = [net EXCEPT !.load = status] \/ net' = [net EXCEPT !.poll = status]
            BY <2>4, <3>1 DEF Intro!ServeLoad, Intro!ServePoll
        <3>5. /\ net' \in IntroCalls /\ net'.button = net.button /\ net'.made = net.made
            BY <1>1, <3>3, <3>4 DEF IntroCalls
        <3> QED
            BY <3>2, <3>5 DEF IntroInv, HasNumber
    <2> QED
        BY <2>1, <2>2, <2>3, <2>4 DEF Intro!Server, Intro!JobEnds, Intro!UpdateStatus
<1> QED
    BY <1>1, <1>2, <1>3 DEF IntroInv

\* The steps that render the page again.
LEMMA IntroRenders ==
    ASSUME PagesAssumption, IntroInv,
           Intro!Generated \/ Intro!Loaded \/ Intro!LoadFails \/ Intro!RetryLoad \/ Intro!Polled
    PROVE  IntroInv'
<1>1. ui \in IntroPage /\ net \in IntroCalls /\ srv \in IntroStore /\ srv' = srv
    BY DEF IntroInv, Intro!Generated, Intro!Loaded, Intro!LoadFails, Intro!RetryLoad, Intro!Polled
<1>2. CASE Intro!Generated
    <2>1. PICK shown : shown = IF ui.page = "intro" THEN ui ELSE [Intro!Blank EXCEPT !.page = "intro"]
        OBVIOUS
    <2>2. shown \in IntroPage /\ shown.page = "intro"
        BY <1>1, <2>1 DEF Intro!Blank, Intro!NoId, IntroPage
    <2>3. PICK made \in Intro!Id : made = net.made
        BY <1>2 DEF Intro!Generated, IntroInv
    <2>4. PICK named : named = [shown EXCEPT !.id = made, !.busy = FALSE]
        OBVIOUS
    <2>5. named \in IntroPage /\ named.page = "intro" /\ named.id = made
        BY <2>2, <2>4 DEF IntroPage
    <2>6. PICK u : u = Intro!StartLoad(named)
        OBVIOUS
    <2>7. u \in IntroPage /\ u.id = made
        BY <2>5, <2>6 DEF Intro!StartLoad, IntroPage
    <2>8. PICK n : n = [net EXCEPT !.button = "none", !.made = 0, !.load = "sent"]
        OBVIOUS
    <2>9. n \in IntroCalls /\ n.button = "none"
        BY <1>1, <2>8 DEF IntroCalls, Intro!Reply
    <2>10. Intro!Render(u, n)
        BY <1>2, <2>1, <2>3, <2>4, <2>6, <2>8, IntroIds DEF Intro!Generated
    <2> QED
        BY <1>1, <2>7, <2>9, <2>10, RenderKeeps DEF HasNumber
<1>3. CASE Intro!Loaded
    <2>1. PICK u : u = [ui EXCEPT !.data = net.load, !.dataId = ui.id, !.loading = FALSE]
        OBVIOUS
    <2>2. u \in IntroPage /\ u.page = ui.page /\ u.id = ui.id
        BY <1>1, <1>3, <2>1 DEF Intro!Loaded, IntroPage
    <2>3. PICK n : n = [net EXCEPT !.load = "none"]
        OBVIOUS
    <2>4. /\ n \in IntroCalls /\ n.load = "none" /\ n.poll = net.poll
          /\ n.button = net.button /\ n.made = net.made
        BY <1>1, <2>3 DEF IntroCalls, Intro!Reply
    <2>5. Intro!Render(u, n)
        BY <1>3, <2>1, <2>3 DEF Intro!Loaded
    <2>6. HasNumber(u.page, u.id, n.load, n.poll)
        BY <2>2, <2>4 DEF IntroInv, HasNumber
    <2> QED
        BY <1>1, <2>2, <2>4, <2>5, <2>6, RenderKeeps DEF IntroInv
<1>4. CASE Intro!LoadFails
    <2>1. PICK u : u = [ui EXCEPT !.data = "none", !.dataId = 0, !.loading = FALSE, !.error = TRUE]
        OBVIOUS
    <2>2. u \in IntroPage /\ u.page = ui.page /\ u.id = ui.id
        BY <1>1, <2>1 DEF IntroPage
    <2>3. PICK n : n = [net EXCEPT !.load = "none"]
        OBVIOUS
    <2>4. /\ n \in IntroCalls /\ n.load = "none" /\ n.poll = net.poll
          /\ n.button = net.button /\ n.made = net.made
        BY <1>1, <2>3 DEF IntroCalls, Intro!Reply
    <2>5. Intro!Render(u, n)
        BY <1>4, <2>1, <2>3, IntroIds DEF Intro!LoadFails
    <2>6. HasNumber(u.page, u.id, n.load, n.poll)
        BY <2>2, <2>4 DEF IntroInv, HasNumber
    <2> QED
        BY <1>1, <2>2, <2>4, <2>5, <2>6, RenderKeeps DEF IntroInv
<1>5. PICK u : u = Intro!StartLoad(ui)
    OBVIOUS
<1>6. u \in IntroPage /\ u.page = ui.page /\ u.id = ui.id
    BY <1>1, <1>5 DEF Intro!StartLoad, IntroPage
<1>7. CASE Intro!RetryLoad
    <2>1. PICK n : n = [net EXCEPT !.load = "sent"]
        OBVIOUS
    <2>2. /\ n \in IntroCalls /\ n.button = net.button /\ n.made = net.made
        BY <1>1, <2>1 DEF IntroCalls, Intro!Reply
    <2>3. Intro!Render(u, n)
        BY <1>5, <1>7, <2>1 DEF Intro!RetryLoad
    <2>4. HasNumber(u.page, u.id, n.load, n.poll)
        BY <1>6, <1>7 DEF IntroInv, HasNumber, Intro!RetryLoad
    <2> QED
        BY <1>1, <1>6, <2>2, <2>3, <2>4, RenderKeeps DEF IntroInv
<1>8. CASE Intro!Polled
    <2>1. ui.id \in Intro!Id
        BY <1>8 DEF IntroInv, HasNumber, Intro!Polled, Intro!Status
    <2>2. CASE net' = [net EXCEPT !.poll = "timer"] /\ ui' = ui
        <3>1. net' \in IntroCalls /\ net'.button = net.button /\ net'.made = net.made
            BY <1>1, <2>2 DEF IntroCalls
        <3> QED
            BY <1>1, <2>1, <2>2, <3>1 DEF IntroInv, HasNumber
    <2>3. PICK n : n = [net EXCEPT !.poll = "none", !.load = "sent"]
        OBVIOUS
    <2>4. n \in IntroCalls /\ n.button = net.button /\ n.made = net.made
        BY <1>1, <2>3 DEF IntroCalls, Intro!Reply
    <2>5. CASE Intro!Render(u, n)
        BY <1>1, <1>6, <2>1, <2>4, <2>5, RenderKeeps DEF IntroInv, HasNumber
    <2> QED
        BY <1>5, <1>8, <2>2, <2>3, <2>5 DEF Intro!Polled
<1> QED
    BY <1>2, <1>3, <1>4, <1>7, <1>8

LEMMA IntroButtons ==
    ASSUME PagesAssumption, IntroInv,
           \/ Intro!Started \/ Intro!ButtonFails \/ Intro!Tick \/ Intro!PollFails
           \/ Intro!HandleGenerate \/ Intro!HandleRetry \/ Intro!HandleStart \/ Intro!Leave
    PROVE  IntroInv'
<1>1. ui \in IntroPage /\ net \in IntroCalls /\ srv \in IntroStore /\ srv' = srv
    BY DEF IntroInv, Intro!Started, Intro!ButtonFails, Intro!Tick, Intro!PollFails,
           Intro!HandleGenerate, Intro!HandleRetry, Intro!Generate, Intro!HandleStart,
           Intro!Leave
<1>2. CASE Intro!Started
    <2>1. ui' \in IntroPage /\ ui'.page = "attempt"
        BY <1>2 DEF Intro!Started, Intro!Blank, Intro!NoId, IntroPage
    <2>2. net' \in IntroCalls /\ net'.load = "none" /\ net'.poll = "none" /\ net'.button = "none"
        BY <1>2 DEF Intro!Started, Intro!Quiet, Intro!NoId, Intro!Reply, IntroCalls
    <2> QED
        BY <1>1, <2>1, <2>2 DEF IntroInv, HasNumber
<1>3. CASE Intro!Leave
    <2>1. PICK id \in Intro!Id \cup {0} : id = ui.id
        BY <1>1 DEF IntroPage
    <2>2. PICK blank : blank = [Intro!Blank EXCEPT !.page = "away", !.id = id]
        OBVIOUS
    <2>5. PICK b : b = Intro!Blank
        OBVIOUS
    <2>6. b \in IntroPage
        BY <2>5 DEF Intro!Blank, Intro!NoId, IntroPage
    <2>7. blank \in IntroPage /\ blank.page = "away"
        <3>1. blank = [b EXCEPT !.page = "away", !.id = id]
            BY <2>2, <2>5
        <3> QED
            BY <2>6, <3>1 DEF IntroPage
    <2>3. ui' \in IntroPage /\ ui'.page = "away"
        BY <1>3, <2>1, <2>2, <2>7 DEF Intro!Leave
    <2>4. /\ net' \in IntroCalls /\ net'.load = "none" /\ net'.poll = "none"
          /\ net'.button = net.button /\ net'.made = net.made
        BY <1>1, <1>3 DEF Intro!Leave, IntroCalls, Intro!Reply
    <2> QED
        BY <1>1, <2>3, <2>4 DEF IntroInv, HasNumber
<1>4. CASE \/ Intro!ButtonFails \/ Intro!HandleGenerate \/ Intro!HandleRetry
           \/ Intro!HandleStart
    <2>1. ui' \in IntroPage /\ ui'.page = ui.page /\ ui'.id = ui.id
        BY <1>1, <1>4 DEF Intro!ButtonFails, Intro!HandleGenerate, Intro!HandleRetry,
                          Intro!Generate, Intro!HandleStart, IntroPage
    <2>2. /\ net' \in IntroCalls /\ net'.load = net.load /\ net'.poll = net.poll
          /\ net'.button # "generated"
        BY <1>1, <1>4 DEF Intro!ButtonFails, Intro!HandleGenerate, Intro!HandleRetry,
                          Intro!Generate, Intro!HandleStart, Intro!NoId, IntroCalls
    <2> QED
        BY <1>1, <2>1, <2>2 DEF IntroInv, HasNumber
<1>5. CASE Intro!Tick \/ Intro!PollFails
    <2>1. ui' = ui /\ ui.id \in Intro!Id
        BY <1>5 DEF IntroInv, HasNumber, Intro!Tick, Intro!PollFails, Intro!Status
    <2>2. net' \in IntroCalls /\ net'.button = net.button /\ net'.made = net.made
        BY <1>1, <1>5 DEF Intro!Tick, Intro!PollFails, IntroCalls, Intro!Reply
    <2> QED
        BY <1>1, <2>1, <2>2 DEF IntroInv, HasNumber
<1> QED
    BY <1>2, <1>3, <1>4, <1>5

LEMMA IntroKeepsInv == ASSUME PagesAssumption, IntroInv, Intro!Next PROVE IntroInv'
BY IntroServed, IntroRenders, IntroButtons DEF Intro!Next, Intro!Browser

-----------------------------------------------------------------------------
(* The challenges of a topic.                                              *)

DeskPage ==
    [view : {"loading", "ready", "error"}, rows : Desk!Rows, timers : SUBSET Challenges,
     busy : SUBSET Challenges, generating : BOOLEAN, genError : BOOLEAN]

DeskPatch ==
    [challenge : Challenges, to : Desk!Status, reply : {"none", "ok", "refused"},
     mounted : BOOLEAN]

DeskPolls == [Challenges -> {"none", "sent"} \cup Desk!Status]

DeskCalls ==
    [load : {"none", "sent", "served"}, found : Desk!Rows, polls : DeskPolls,
     patches : SUBSET DeskPatch, generate : {"none", "sent", "ok", "refused"}]

\* A row that is not there waits for nothing and polls nothing.
QuietWhenGone(rows, timers, busy, polls) ==
    \A c \in Challenges :
        rows[c] = "none" => c \notin timers \cup busy /\ polls[c] = "none"

\* A page that loads has no rows: what is found meets no poll of before.
DeskInv ==
    /\ ui \in DeskPage /\ net \in DeskCalls /\ srv \in Desk!Rows
    /\ QuietWhenGone(ui.rows, ui.timers, ui.busy, net.polls)
    /\ net.load # "none" => ui.rows = Desk!NoRows

LEMMA NoRowsType ==
    /\ Desk!NoRows \in Desk!Rows /\ Desk!NoPolls \in DeskPolls
    /\ \A c \in Challenges : Desk!NoRows[c] = "none" /\ Desk!NoPolls[c] = "none"
BY DEF Desk!NoRows, Desk!NoPolls, Desk!Rows, DeskPolls

LEMMA DeskInit == ASSUME Desk!Init PROVE DeskInv
<1>1. ui \in DeskPage /\ ui.rows = Desk!NoRows /\ ui.timers = {} /\ ui.busy = {}
    BY NoRowsType DEF Desk!Init, DeskPage
<1>2. net \in DeskCalls /\ net.polls = Desk!NoPolls
    BY NoRowsType DEF Desk!Init, DeskCalls
<1>3. srv \in Desk!Rows
    BY DEF Desk!Init, Desk!Rows, Desk!Status
<1> QED
    BY <1>1, <1>2, <1>3, NoRowsType DEF DeskInv, QuietWhenGone

\* A load takes the rows off the page with all they wait for.
LEMMA ReloadKeeps ==
    ASSUME NEW u \in DeskPage, NEW n \in DeskCalls, Desk!Reload(u, n),
           srv \in Desk!Rows, srv' = srv
    PROVE  DeskInv'
<1>1. /\ ui' \in DeskPage /\ ui'.rows = Desk!NoRows /\ ui'.timers = {} /\ ui'.busy = {}
    BY NoRowsType DEF Desk!Reload, DeskPage
<1>2. PICK patches : patches = {[p EXCEPT !.mounted = FALSE] : p \in n.patches}
    OBVIOUS
<1>3. patches \in SUBSET DeskPatch
    BY <1>2, ZenonT(40) DEF DeskCalls, DeskPatch
<1>4. net' = [n EXCEPT !.load = "sent", !.found = Desk!NoRows, !.polls = Desk!NoPolls,
                       !.patches = patches]
    BY <1>2 DEF Desk!Reload, Desk!Cancelled
<1>5. net' \in DeskCalls /\ net'.polls = Desk!NoPolls
    BY <1>3, <1>4, NoRowsType DEF DeskCalls
<1> QED
    BY <1>1, <1>5, NoRowsType DEF DeskInv, QuietWhenGone

\* The server: what it stores and answers keeps its type, and a challenge the
\* page has no row of is not polled.
LEMMA DeskServed ==
    ASSUME DeskInv,
           \/ Desk!ServeLoad \/ Desk!ServeGenerate
           \/ \E c \in Challenges : Desk!ServePoll(c) \/ Desk!JobEnds(c) \/ Desk!UpdateStatus(c)
           \/ \E p \in net.patches : Desk!ServePatch(p)
    PROVE  DeskInv'
<1>1. ui \in DeskPage /\ net \in DeskCalls /\ srv \in Desk!Rows /\ ui' = ui
    BY DEF DeskInv, Desk!ServeLoad, Desk!ServeGenerate, Desk!ServePoll, Desk!JobEnds,
           Desk!UpdateStatus, Desk!ServePatch
<1>2. CASE Desk!ServeLoad
    <2>1. /\ net' \in DeskCalls /\ net'.polls = net.polls
        BY <1>1, <1>2 DEF Desk!ServeLoad, DeskCalls
    <2> QED
        BY <1>1, <1>2, <2>1 DEF DeskInv, Desk!ServeLoad
<1>3. CASE Desk!ServeGenerate
    <2>1. srv' \in Desk!Rows
        BY <1>1, <1>3 DEF Desk!ServeGenerate, Desk!Rows, Desk!Status
    <2>2. net' \in DeskCalls /\ net'.polls = net.polls /\ net'.load = net.load
        BY <1>1, <1>3 DEF Desk!ServeGenerate, DeskCalls
    <2> QED
        BY <1>1, <2>1, <2>2 DEF DeskInv
<1>4. ASSUME NEW c \in Challenges, Desk!ServePoll(c) PROVE DeskInv'
    <2>1. PICK status \in Desk!Status \cup {"none"} : status = srv[c]
        BY <1>1 DEF Desk!Rows
    <2>2. PICK polls : polls = [net.polls EXCEPT ![c] = status]
        OBVIOUS
    <2>3. /\ polls \in DeskPolls
          /\ \A d \in Challenges : net.polls[d] = "none" => polls[d] = "none"
        BY <1>1, <1>4, <2>2 DEF Desk!ServePoll, DeskCalls, DeskPolls
    <2>4. net' = [net EXCEPT !.polls = polls] /\ srv' = srv
        BY <1>4, <2>1, <2>2 DEF Desk!ServePoll
    <2>5. net' \in DeskCalls /\ net'.polls = polls /\ net'.load = net.load
        BY <1>1, <2>3, <2>4 DEF DeskCalls
    <2> QED
        BY <1>1, <2>3, <2>4, <2>5 DEF DeskInv, QuietWhenGone
<1>5. ASSUME NEW c \in Challenges, Desk!JobEnds(c) \/ Desk!UpdateStatus(c) PROVE DeskInv'
    <2>1. srv' \in Desk!Rows /\ net' = net
        BY <1>1, <1>5 DEF Desk!JobEnds, Desk!UpdateStatus, Desk!Rows, Desk!Status
    <2> QED
        BY <1>1, <2>1 DEF DeskInv
<1>6. ASSUME NEW p \in net.patches, Desk!ServePatch(p) PROVE DeskInv'
    <2>1. p \in DeskPatch
        BY <1>1 DEF DeskCalls
    <2>2. srv' \in Desk!Rows
        BY <1>1, <1>6, <2>1 DEF Desk!ServePatch, Desk!Rows, DeskPatch
    <2>3. PICK reply \in {"ok", "refused"} :
              net' = [net EXCEPT !.patches = (@ \ {p}) \cup {[p EXCEPT !.reply = reply]}]
        BY <1>6 DEF Desk!ServePatch
    <2>4. PICK answered : answered = [p EXCEPT !.reply = reply]
        OBVIOUS
    <2>5. answered \in DeskPatch
        BY <2>1, <2>4 DEF DeskPatch
    <2>6. net' = [net EXCEPT !.patches = (@ \ {p}) \cup {answered}]
        BY <2>3, <2>4
    <2>7. net' \in DeskCalls /\ net'.polls = net.polls /\ net'.load = net.load
        BY <1>1, <2>5, <2>6 DEF DeskCalls
    <2> QED
        BY <1>1, <2>2, <2>7 DEF DeskInv
<1> QED
    BY <1>2, <1>3, <1>4, <1>5, <1>6

\* What the page loads, and the button that generates a challenge.
LEMMA DeskLoads ==
    ASSUME DeskInv,
           \/ Desk!Loaded \/ Desk!LoadFails \/ Desk!RetryLoad
           \/ Desk!HandleGenerate \/ Desk!Generated \/ Desk!GenerateFails
    PROVE  DeskInv'
<1>1. ui \in DeskPage /\ net \in DeskCalls /\ srv \in Desk!Rows /\ srv' = srv
    BY DEF DeskInv, Desk!Loaded, Desk!LoadFails, Desk!RetryLoad, Desk!HandleGenerate,
           Desk!Generated, Desk!GenerateFails
<1>2. CASE Desk!Loaded
    <2>1. PICK found \in Desk!Rows : found = net.found
        BY <1>1 DEF DeskCalls
    <2>2. PICK waiting \in SUBSET Challenges :
              /\ waiting = Desk!Waiting(found)
              /\ \A c \in waiting : found[c] # "none"
        <3>1. PICK w : w = {c \in Challenges : found[c] \in {"PENDING", "PROCESSING"}}
            OBVIOUS
        <3>2. w = Desk!Waiting(found)
            BY <3>1, Zenon DEF Desk!Waiting, Desk!PolledStatuses
        <3>3. w \in SUBSET Challenges /\ \A c \in w : found[c] # "none"
            BY <3>1
        <3> QED
            BY <3>2, <3>3, Zenon
    <2>3. ui' = [ui EXCEPT !.view = "ready", !.rows = found, !.timers = waiting]
        BY <1>2, <2>1, <2>2 DEF Desk!Loaded
    <2>4. /\ ui' \in DeskPage /\ ui'.rows = found /\ ui'.timers = waiting /\ ui'.busy = ui.busy
        BY <1>1, <2>3 DEF DeskPage
    <2>5. net' \in DeskCalls /\ net'.load = "none" /\ net'.polls = net.polls
        BY <1>1, <1>2, NoRowsType DEF Desk!Loaded, DeskCalls
    <2>6. \A c \in Challenges : c \notin ui.busy /\ net.polls[c] = "none"
        BY <1>2, NoRowsType DEF Desk!Loaded, DeskInv, QuietWhenGone
    <2> QED
        BY <1>1, <2>2, <2>4, <2>5, <2>6 DEF DeskInv, QuietWhenGone
<1>3. CASE Desk!LoadFails
    <2>1. /\ ui' \in DeskPage /\ ui'.rows = ui.rows /\ ui'.timers = ui.timers
          /\ ui'.busy = ui.busy
        BY <1>1, <1>3 DEF Desk!LoadFails, DeskPage
    <2>2. net' \in DeskCalls /\ net'.load = "none" /\ net'.polls = net.polls
        BY <1>1, <1>3, NoRowsType DEF Desk!LoadFails, DeskCalls
    <2> QED
        BY <1>1, <2>1, <2>2 DEF DeskInv
<1>4. CASE Desk!RetryLoad
    BY <1>1, <1>4, ReloadKeeps DEF Desk!RetryLoad
<1>5. CASE Desk!Generated
    <2>1. PICK u : u = [ui EXCEPT !.generating = FALSE]
        OBVIOUS
    <2>2. PICK n : n = [net EXCEPT !.generate = "none"]
        OBVIOUS
    <2>3. u \in DeskPage
        BY <1>1, <2>1 DEF DeskPage
    <2>4. n \in DeskCalls
        BY <1>1, <2>2 DEF DeskCalls
    <2>5. Desk!Reload(u, n)
        BY <1>5, <2>1, <2>2 DEF Desk!Generated
    <2> QED
        BY <1>1, <2>3, <2>4, <2>5, ReloadKeeps
<1>6. CASE Desk!HandleGenerate \/ Desk!GenerateFails
    <2>1. /\ ui' \in DeskPage /\ ui'.rows = ui.rows /\ ui'.timers = ui.timers
          /\ ui'.busy = ui.busy
        BY <1>1, <1>6 DEF Desk!HandleGenerate, Desk!GenerateFails, DeskPage
    <2>2. net' \in DeskCalls /\ net'.load = net.load /\ net'.polls = net.polls
        BY <1>1, <1>6 DEF Desk!HandleGenerate, Desk!GenerateFails, DeskCalls
    <2> QED
        BY <1>1, <2>1, <2>2 DEF DeskInv
<1> QED
    BY <1>2, <1>3, <1>4, <1>5, <1>6

\* A row and its button: only a row that is there waits, polls or changes.
LEMMA DeskRows ==
    ASSUME DeskInv, NEW c \in Challenges,
           \/ Desk!Tick(c) \/ Desk!PollChanged(c) \/ Desk!PollAgain(c)
           \/ \E to \in Desk!Status : Desk!SetChallengeStatus(c, to)
    PROVE  DeskInv'
<1>1. ui \in DeskPage /\ net \in DeskCalls /\ srv \in Desk!Rows /\ srv' = srv
    BY DEF DeskInv, Desk!Tick, Desk!PollChanged, Desk!PollAgain, Desk!SetChallengeStatus
<1>2. CASE Desk!PollChanged(c)
    BY <1>1, <1>2, ReloadKeeps DEF Desk!PollChanged
<1>3. CASE Desk!Tick(c) \/ Desk!PollAgain(c)
    <2>1. ui.rows[c] # "none"
        BY <1>3 DEF DeskInv, QuietWhenGone, Desk!Tick, Desk!PollAgain
    <2>2. PICK poll \in {"none", "sent"} : net' = [net EXCEPT !.polls[c] = poll]
        BY <1>3 DEF Desk!Tick, Desk!PollAgain
    <2>3. PICK polls : polls = [net.polls EXCEPT ![c] = poll]
        OBVIOUS
    <2>4. /\ polls \in DeskPolls
          /\ \A d \in Challenges : d # c => polls[d] = net.polls[d]
        BY <1>1, <2>3 DEF DeskCalls, DeskPolls
    <2>5. net' = [net EXCEPT !.polls = polls]
        BY <2>2, <2>3
    <2>6. net' \in DeskCalls /\ net'.polls = polls /\ net'.load = net.load
        BY <1>1, <2>4, <2>5 DEF DeskCalls
    <2>7. /\ ui' \in DeskPage /\ ui'.rows = ui.rows /\ ui'.busy = ui.busy
          /\ ui'.timers \subseteq ui.timers \cup {c}
        BY <1>1, <1>3 DEF Desk!Tick, Desk!PollAgain, DeskPage
    <2> QED
        BY <1>1, <2>1, <2>4, <2>6, <2>7 DEF DeskInv, QuietWhenGone
<1>4. ASSUME NEW to \in Desk!Status, Desk!SetChallengeStatus(c, to) PROVE DeskInv'
    <2>1. ui.rows[c] # "none"
        BY <1>4 DEF Desk!SetChallengeStatus, Desk!RowButton
    <2>2. PICK patch \in DeskPatch :
              patch = [challenge |-> c, to |-> to, reply |-> "none", mounted |-> TRUE]
        BY DEF DeskPatch
    <2>3. net' = [net EXCEPT !.patches = @ \cup {patch}]
        BY <1>4, <2>2 DEF Desk!SetChallengeStatus
    <2>4. net' \in DeskCalls /\ net'.polls = net.polls /\ net'.load = net.load
        BY <1>1, <2>3 DEF DeskCalls
    <2>5. /\ ui' \in DeskPage /\ ui'.rows = ui.rows /\ ui'.timers = ui.timers
          /\ ui'.busy = ui.busy \cup {c}
        BY <1>1, <1>4 DEF Desk!SetChallengeStatus, DeskPage
    <2> QED
        BY <1>1, <2>1, <2>4, <2>5 DEF DeskInv, QuietWhenGone
<1> QED
    BY <1>2, <1>3, <1>4

\* The answer to a change of a status.
LEMMA DeskPatched ==
    ASSUME DeskInv, NEW p \in net.patches, Desk!PatchAnswered(p) \/ Desk!PatchFails(p)
    PROVE  DeskInv'
<1>1. ui \in DeskPage /\ net \in DeskCalls /\ srv \in Desk!Rows /\ srv' = srv
    BY DEF DeskInv, Desk!PatchAnswered, Desk!PatchFails
<1>2. PICK n : n = [net EXCEPT !.patches = @ \ {p}]
    OBVIOUS
<1>3. n \in DeskCalls /\ n.polls = net.polls /\ n.load = net.load
    BY <1>1, <1>2 DEF DeskCalls
<1>4. CASE Desk!PatchAnswered(p)
    <2>1. Desk!Reload(ui, n)
        BY <1>2, <1>4 DEF Desk!PatchAnswered
    <2> QED
        BY <1>1, <1>3, <2>1, ReloadKeeps
<1>5. CASE Desk!PatchFails(p)
    <2>1. /\ ui' \in DeskPage /\ ui'.rows = ui.rows /\ ui'.timers = ui.timers
          /\ ui'.busy \subseteq ui.busy
        BY <1>1, <1>5 DEF Desk!PatchFails, DeskPage
    <2>2. net' = n
        BY <1>2, <1>5 DEF Desk!PatchFails
    <2> QED
        BY <1>1, <1>3, <2>1, <2>2 DEF DeskInv, QuietWhenGone
<1> QED
    BY <1>4, <1>5

LEMMA DeskKeepsInv == ASSUME DeskInv, Desk!Next PROVE DeskInv'
BY DeskServed, DeskLoads, DeskRows, DeskPatched DEF Desk!Next, Desk!Row

-----------------------------------------------------------------------------
(* The ranking of a class.                                                 *)

RankPage == [period : Rank!Periods, view : {"loading", "ready", "error"}]

RankStore ==
    [stored : Rank!Ranking, cached : [Rank!Periods -> SUBSET Rank!Ranking],
     at : [Awards -> Rank!Stages]]

\* A set of a ranking at most.
OneAtMost(rankings) == \A r, s \in rankings : r = s

RankInv ==
    /\ ui \in RankPage /\ net \in SUBSET Rank!View /\ srv \in RankStore
    /\ IsFiniteSet(net) /\ Cardinality(net) =< MaxViews
    /\ \A p \in Rank!Periods : OneAtMost(srv.cached[p])

LEMMA RankCardinality == \A S : Rank!Cardinality(S) = Cardinality(S)
BY DEF Rank!Cardinality, Cardinality

LEMMA OneAtMostCardinality ==
    ASSUME NEW rankings, OneAtMost(rankings)
    PROVE  Cardinality(rankings) =< 1
<1>1. CASE rankings = {}
    BY <1>1, FS_EmptySet
<1>2. ASSUME NEW r \in rankings PROVE Cardinality(rankings) =< 1
    <2>1. rankings = {r}
        BY <1>2 DEF OneAtMost
    <2> QED
        BY <2>1, FS_Singleton
<1> QED
    BY <1>1, <1>2

LEMMA NewViewType ==
    ASSUME NEW p \in Rank!Periods, NEW awaited \in BOOLEAN
    PROVE  Rank!NewView(p, awaited) \in Rank!View
BY DEF Rank!NewView, Rank!View, Rank!Ranking

LEMMA RankInit == ASSUME PagesAssumption, Rank!Init PROVE RankInv
<1>1. ui \in RankPage
    BY DEF Rank!Init, RankPage, Rank!Periods
<1>2. PICK view \in Rank!View : net = {view}
    <2>1. Rank!NewView("all", TRUE) \in Rank!View
        BY NewViewType DEF Rank!Periods
    <2> QED
        BY <2>1 DEF Rank!Init
<1>3. IsFiniteSet(net) /\ Cardinality(net) = 1
    BY <1>2, FS_Singleton
<1>4. 1 =< MaxViews
    BY DEF PagesAssumption
<1>5. srv \in RankStore /\ \A p \in Rank!Periods : srv.cached[p] = {}
    BY DEF Rank!Init, RankStore, Rank!Ranking, Rank!Stages
<1> QED
    BY <1>1, <1>2, <1>3, <1>4, <1>5 DEF RankInv, OneAtMost

\* A request that moves on is still one request, or none if there is another
\* like it.
LEMMA BecomesBound ==
    ASSUME PagesAssumption, RankInv, NEW v \in net, NEW w \in Rank!View, Rank!Becomes(v, w)
    PROVE  net' \in SUBSET Rank!View /\ IsFiniteSet(net') /\ Cardinality(net') =< MaxViews
<1>1. IsFiniteSet(net) /\ Cardinality(net) =< MaxViews /\ net \in SUBSET Rank!View
    BY DEF RankInv
<1>2. Cardinality(net) \in Nat /\ MaxViews \in Nat
    BY <1>1, FS_CardinalityType DEF PagesAssumption
<1>3. PICK rest : rest = net \ {v}
    OBVIOUS
<1>4. IsFiniteSet(rest) /\ Cardinality(rest) = Cardinality(net) - 1
    BY <1>1, <1>3, FS_RemoveElement
<1>5. net' = rest \cup {w}
    BY <1>3 DEF Rank!Becomes
<1>6. IsFiniteSet(net') /\ Cardinality(net') =< Cardinality(rest) + 1
    <2>1. /\ IsFiniteSet(rest \cup {w})
          /\ w \in rest => Cardinality(rest \cup {w}) = Cardinality(rest)
          /\ w \notin rest => Cardinality(rest \cup {w}) = Cardinality(rest) + 1
        BY <1>4, FS_AddElement
    <2>2. Cardinality(rest) \in Nat
        BY <1>4, FS_CardinalityType
    <2> QED
        BY <1>5, <2>1, <2>2
<1>7. net' \in SUBSET Rank!View
    BY <1>1, <1>3, <1>5
<1>8. Cardinality(net') \in Nat
    BY <1>6, FS_CardinalityType
<1> QED
    BY <1>1, <1>2, <1>4, <1>6, <1>7, <1>8

\* A new request, where there is room for it.
LEMMA NewViewBound ==
    ASSUME PagesAssumption, NEW views, views \in SUBSET Rank!View, IsFiniteSet(views),
           Rank!Cardinality(views) < MaxViews, NEW w \in Rank!View, net' = views \cup {w}
    PROVE  net' \in SUBSET Rank!View /\ IsFiniteSet(net') /\ Cardinality(net') =< MaxViews
<1>1. Cardinality(views) \in Nat /\ MaxViews \in Nat /\ Cardinality(views) < MaxViews
    BY FS_CardinalityType, RankCardinality DEF PagesAssumption
<1>2. /\ IsFiniteSet(views \cup {w})
      /\ w \in views => Cardinality(views \cup {w}) = Cardinality(views)
      /\ w \notin views => Cardinality(views \cup {w}) = Cardinality(views) + 1
    BY FS_AddElement
<1> QED
    BY <1>1, <1>2

\* The awards, and the cache whose rankings expire.
LEMMA RankStored ==
    ASSUME RankInv, Rank!Award \/ \E p \in Rank!Periods : Rank!Expire(p)
    PROVE  RankInv'
<1>1. /\ ui \in RankPage /\ net \in SUBSET Rank!View /\ srv \in RankStore
      /\ ui' = ui /\ net' = net
    BY DEF RankInv, Rank!Award, Rank!Write, Rank!DeleteAll, Rank!DeleteWeek, Rank!Commit,
           Rank!Abort, Rank!Expire
<1>2. ASSUME NEW a \in Awards, NEW stage \in Rank!Stages, srv' = [srv EXCEPT !.at[a] = stage]
      PROVE  RankInv'
    <2>1. srv' \in RankStore /\ srv'.cached = srv.cached
        BY <1>1, <1>2 DEF RankStore
    <2> QED
        BY <1>1, <2>1 DEF RankInv
<1>3. ASSUME NEW u, u \in RankStore, u.cached = srv.cached, NEW p \in Rank!Periods,
             srv' = [u EXCEPT !.cached[p] = {}]
      PROVE  RankInv'
    <2>1. PICK cached : cached = [srv.cached EXCEPT ![p] = {}]
        OBVIOUS
    <2>2. /\ cached \in [Rank!Periods -> SUBSET Rank!Ranking]
          /\ \A q \in Rank!Periods : cached[q] \in {{}, srv.cached[q]}
        BY <1>1, <2>1 DEF RankStore
    <2>3. srv' = [u EXCEPT !.cached = cached]
        BY <1>3, <2>1
    <2>4. srv' \in RankStore /\ srv'.cached = cached
        BY <1>3, <2>2, <2>3 DEF RankStore
    <2> QED
        BY <1>1, <2>2, <2>4 DEF RankInv, OneAtMost
<1>4. ASSUME NEW a \in Awards, Rank!Write(a) \/ Rank!Abort(a) PROVE RankInv'
    <2>1. PICK stage \in Rank!Stages : srv' = [srv EXCEPT !.at[a] = stage]
        BY <1>4 DEF Rank!Write, Rank!Abort, Rank!Moves, Rank!Stages
    <2> QED
        BY <1>2, <2>1
<1>5. ASSUME NEW a \in Awards, Rank!DeleteAll(a) \/ Rank!DeleteWeek(a) PROVE RankInv'
    <2>1. PICK stage \in Rank!Stages, p \in Rank!Periods :
              srv' = [srv EXCEPT !.at[a] = stage, !.cached[p] = {}]
        BY <1>5 DEF Rank!DeleteAll, Rank!DeleteWeek, Rank!Stages, Rank!Periods
    <2>2. PICK u : u = [srv EXCEPT !.at[a] = stage]
        OBVIOUS
    <2>3. u \in RankStore /\ u.cached = srv.cached
        BY <1>1, <2>2 DEF RankStore
    <2>4. srv' = [u EXCEPT !.cached[p] = {}]
        BY <2>1, <2>2
    <2> QED
        BY <1>3, <2>3, <2>4
<1>6. ASSUME NEW a \in Awards, Rank!Commit(a) PROVE RankInv'
    <2>1. /\ srv' \in RankStore /\ srv'.cached = srv.cached
        BY <1>1, <1>6 DEF Rank!Commit, Rank!Ranking, Rank!Stages, RankStore
    <2> QED
        BY <1>1, <2>1 DEF RankInv
<1>7. ASSUME NEW p \in Rank!Periods, Rank!Expire(p) PROVE RankInv'
    BY <1>1, <1>3, <1>7 DEF Rank!Expire
<1> QED
    BY <1>4, <1>5, <1>6, <1>7 DEF Rank!Award

\* A request that moves on.
LEMMA RankAnswers ==
    ASSUME PagesAssumption, RankInv, NEW v \in net, Rank!Answer(v) \/ Rank!Fails(v)
    PROVE  RankInv'
<1>1. /\ ui \in RankPage /\ net \in SUBSET Rank!View /\ srv \in RankStore /\ v \in Rank!View
      /\ v.ranking \in Rank!Ranking /\ v.period \in Rank!Periods
    BY DEF RankInv, Rank!View
<1>2. ASSUME NEW u \in RankPage, ui' = u, srv' = srv, NEW w \in Rank!View, Rank!Becomes(v, w)
      PROVE  RankInv'
    BY <1>1, <1>2, BecomesBound DEF RankInv
<1>3. CASE Rank!AskCache(v)
    <2>1. PICK at \in {"missed", "answered"} :
              at = IF srv.cached[v.period] = {} THEN "missed" ELSE "answered"
        OBVIOUS
    <2>2. PICK w : w = [v EXCEPT !.at = at]
        OBVIOUS
    <2>3. w \in Rank!View
        BY <1>1, <2>2 DEF Rank!View
    <2>4. Rank!Becomes(v, w) /\ ui' = ui /\ srv' = srv
        BY <1>3, <2>1, <2>2 DEF Rank!AskCache
    <2> QED
        BY <1>1, <1>2, <2>3, <2>4
<1>4. CASE Rank!Read(v)
    <2>1. PICK w : w = [v EXCEPT !.at = "read", !.ranking = srv.stored]
        OBVIOUS
    <2>2. w \in Rank!View
        BY <1>1, <2>1 DEF Rank!View, RankStore
    <2>3. Rank!Becomes(v, w) /\ ui' = ui /\ srv' = srv
        BY <1>4, <2>1 DEF Rank!Read
    <2> QED
        BY <1>1, <1>2, <2>2, <2>3
<1>5. CASE Rank!Fill(v)
    <2>1. PICK w : w = [v EXCEPT !.at = "answered", !.ranking = {}]
        OBVIOUS
    <2>2. w \in Rank!View
        BY <1>1, <2>1 DEF Rank!View, Rank!Ranking
    <2>3. Rank!Becomes(v, w) /\ ui' = ui
        BY <1>5, <2>1 DEF Rank!Fill
    <2>4. net' \in SUBSET Rank!View /\ IsFiniteSet(net') /\ Cardinality(net') =< MaxViews
        BY <2>2, <2>3, BecomesBound
    <2>5. PICK filled : filled = {v.ranking}
        OBVIOUS
    <2>6. filled \in SUBSET Rank!Ranking /\ OneAtMost(filled)
        BY <1>1, <2>5 DEF OneAtMost
    <2>7. PICK cached : cached = [srv.cached EXCEPT ![v.period] = filled]
        OBVIOUS
    <2>8. /\ cached \in [Rank!Periods -> SUBSET Rank!Ranking]
          /\ \A q \in Rank!Periods : cached[q] \in {filled, srv.cached[q]}
        BY <1>1, <2>6, <2>7 DEF RankStore
    <2>9. srv' = [srv EXCEPT !.cached = cached]
        BY <1>5, <2>5, <2>7 DEF Rank!Fill
    <2>10. srv' \in RankStore /\ srv'.cached = cached
        BY <1>1, <2>8, <2>9 DEF RankStore
    <2>11. \A q \in Rank!Periods : OneAtMost(cached[q])
        BY <2>6, <2>8 DEF RankInv
    <2> QED
        BY <1>1, <2>3, <2>4, <2>10, <2>11 DEF RankInv
<1>6. CASE Rank!Arrives(v)
    <2>1. ui' \in RankPage /\ srv' = srv
        BY <1>1, <1>6 DEF Rank!Arrives, RankPage
    <2>2. IsFiniteSet(net') /\ Cardinality(net') =< Cardinality(net)
        <3>1. net' \in SUBSET net /\ IsFiniteSet(net)
            BY <1>6 DEF Rank!Arrives, RankInv
        <3> QED
            BY <3>1, FS_Subset
    <2>3. /\ net' \in SUBSET Rank!View
          /\ Cardinality(net) \in Nat /\ Cardinality(net') \in Nat /\ MaxViews \in Nat
        BY <1>1, <1>6, <2>2, FS_CardinalityType DEF Rank!Arrives, RankInv, PagesAssumption
    <2> QED
        BY <1>1, <2>1, <2>2, <2>3 DEF RankInv
<1>7. CASE Rank!Fails(v)
    <2>1. PICK w : w = [v EXCEPT !.awaited = FALSE]
        OBVIOUS
    <2>2. w \in Rank!View
        BY <1>1, <2>1 DEF Rank!View
    <2>3. Rank!Becomes(v, w) /\ srv' = srv /\ ui' \in RankPage
        BY <1>1, <1>7, <2>1 DEF Rank!Fails, RankPage
    <2> QED
        BY <1>1, <1>2, <2>2, <2>3
<1> QED
    BY <1>3, <1>4, <1>5, <1>6, <1>7 DEF Rank!Answer

\* The page asks; nobody awaits the requests of a page that is left.
LEMMA RankAsked ==
    ASSUME PagesAssumption, RankInv,
           \/ \E p \in Rank!Periods : Rank!OtherView(p) \/ Rank!SelectPeriod(p)
           \/ Rank!Retry \/ Rank!Return
    PROVE  RankInv'
<1>1. /\ ui \in RankPage /\ net \in SUBSET Rank!View /\ IsFiniteSet(net)
      /\ srv \in RankStore /\ srv' = srv /\ ui.period \in Rank!Periods
    BY DEF RankInv, RankPage, Rank!OtherView, Rank!SelectPeriod, Rank!Retry, Rank!Return,
           Rank!Show
<1>2. ASSUME NEW p \in Rank!Periods, NEW views, views \in SUBSET Rank!View,
             IsFiniteSet(views), Rank!Show(p, views)
      PROVE  RankInv'
    <2>1. ui' \in RankPage
        BY <1>2 DEF Rank!Show, RankPage
    <2>2. Rank!NewView(p, TRUE) \in Rank!View
        BY NewViewType
    <2>3. net' \in SUBSET Rank!View /\ IsFiniteSet(net') /\ Cardinality(net') =< MaxViews
        BY <1>2, <2>2, NewViewBound DEF Rank!Show
    <2> QED
        BY <1>1, <2>1, <2>3 DEF RankInv
<1>3. ASSUME NEW p \in Rank!Periods, Rank!OtherView(p) PROVE RankInv'
    <2>1. Rank!NewView(p, FALSE) \in Rank!View
        BY NewViewType
    <2>2. net' \in SUBSET Rank!View /\ IsFiniteSet(net') /\ Cardinality(net') =< MaxViews
        BY <1>1, <1>3, <2>1, NewViewBound DEF Rank!OtherView
    <2> QED
        BY <1>1, <1>3, <2>2 DEF RankInv, Rank!OtherView
<1>4. ASSUME NEW p \in Rank!Periods, Rank!SelectPeriod(p) PROVE RankInv'
    BY <1>1, <1>2, <1>4 DEF Rank!SelectPeriod
<1>5. CASE Rank!Retry
    BY <1>1, <1>2, <1>5 DEF Rank!Retry
<1>6. CASE Rank!Return
    <2>1. PICK left : left = [v \in net |-> [v EXCEPT !.awaited = FALSE]]
        OBVIOUS
    <2>2. PICK views : views = {[v EXCEPT !.awaited = FALSE] : v \in net}
        OBVIOUS
    <2>3. left \in Surjection(net, views)
        BY <2>1, <2>2 DEF Surjection
    <2>4. IsFiniteSet(views)
        BY <1>1, <2>3, FS_Surjection
    <2>5. views \in SUBSET Rank!View
        BY <1>1, <2>2 DEF Rank!View
    <2>6. Rank!Show("all", views)
        BY <1>6, <2>2 DEF Rank!Return
    <2> QED
        BY <1>2, <2>4, <2>5, <2>6 DEF Rank!Periods
<1> QED
    BY <1>3, <1>4, <1>5, <1>6

LEMMA RankKeepsInv == ASSUME PagesAssumption, RankInv, Rank!Next PROVE RankInv'
BY RankStored, RankAnswers, RankAsked DEF Rank!Next

-----------------------------------------------------------------------------
(* The pages together: a browser shows one of them.                        *)

PagesInv ==
    /\ screen \in {"intro", "duel", "dialog", "desk", "rank"}
    /\ screen = "intro" => IntroInv
    /\ screen = "duel" => DuelInv
    /\ screen = "dialog" => DialogInv
    /\ screen = "desk" => DeskInv
    /\ screen = "rank" => RankInv

LEMMA PagesInitially == ASSUME PagesAssumption, Init PROVE PagesInv
BY IntroInit, DuelInit, DialogInit, DeskInit, RankInit DEF Init, PagesInv

LEMMA PagesStep == ASSUME PagesAssumption, PagesInv, [Next]_vars PROVE PagesInv'
<1>1. CASE Next
    BY <1>1, IntroKeepsInv, DuelKeepsInv, DialogKeepsInv, DeskKeepsInv, RankKeepsInv
    DEF Next, PagesInv
<1>2. CASE UNCHANGED vars
    <2>1. screen' = screen /\ ui' = ui /\ net' = net /\ srv' = srv
        BY <1>2 DEF vars
    <2>2. IntroInv => IntroInv'
        BY <2>1 DEF IntroInv, HasNumber
    <2>3. DuelInv => DuelInv'
        BY <2>1 DEF DuelInv
    <2>4. DialogInv => DialogInv'
        BY <2>1 DEF DialogInv
    <2>5. DeskInv => DeskInv'
        BY <2>1 DEF DeskInv
    <2>6. RankInv => RankInv'
        BY <2>1 DEF RankInv
    <2> QED
        BY <2>1, <2>2, <2>3, <2>4, <2>5, <2>6 DEF PagesInv
<1> QED
    BY <1>1, <1>2

\* In every state each page, its requests and what is stored fit together as
\* its invariant says.
THEOREM PagesInvariance == Spec => []PagesInv
<1>1. Init => PagesInv
    BY PagesAssumption, PagesInitially
<1>2. PagesInv /\ [Next]_vars => PagesInv'
    BY PagesAssumption, PagesStep
<1> QED
    BY <1>1, <1>2, PTL DEF Spec

LEMMA IntroTypes == ASSUME IntroInv PROVE Intro!TypeOK
BY DEF IntroInv, IntroPage, IntroCalls, IntroStore, Intro!NoId, Intro!TypeOK

LEMMA DuelTypes == ASSUME DuelInv PROVE Duel!TypeOK
BY DEF DuelInv, DuelPage, DuelCalls, DuelStore, Duel!TypeOK

LEMMA DialogTypes == ASSUME DialogInv PROVE Dialog!TypeOK
BY DEF DialogInv, DialogPage, DialogCalls, DialogStore, Dialog!TypeOK

LEMMA DeskTypes == ASSUME DeskInv PROVE Desk!TypeOK
BY DEF DeskInv, QuietWhenGone, DeskPage, DeskPatch, DeskPolls, DeskCalls, Desk!TypeOK

LEMMA RankTypes == ASSUME RankInv PROVE Rank!TypeOK
BY RankCardinality, OneAtMostCardinality DEF RankInv, RankPage, RankStore, Rank!TypeOK

\* Every page of the two web clients that waits for the server keeps its state,
\* its requests in flight and what is stored within their types: a row that is
\* gone from TeacherTopicPage.jsx asks no more, and the cache of
\* LeaderboardService holds one ranking a period.
THEOREM TypeCorrect == Spec => []TypeOK
<1>1. PagesInv => TypeOK
    BY IntroTypes, DuelTypes, DialogTypes, DeskTypes, RankTypes DEF PagesInv, TypeOK
<1> QED
    BY <1>1, PagesInvariance, PTL

\* The page of a duel never goes back to an earlier status than it has shown,
\* whatever the order in which the answers to its loads arrive: useApiData
\* accepts the answer to its last request only (DuelDetailPage.jsx).
THEOREM DuelsMoveOn == Spec => ShownNeverGoesBack
<1>1. PagesInv /\ [Next]_vars => [screen = "duel" => Duel!ShownMovesOn]_vars
    <2>1. ASSUME PagesInv, Next, screen = "duel" PROVE Duel!ShownMovesOn
        BY <2>1, DuelMovesOn DEF PagesInv, Next
    <2> QED
        BY <2>1
<1> QED
    BY <1>1, PagesInvariance, PTL DEF Spec, ShownNeverGoesBack

\* A dialog that waits for a job is closed or told of a failure by the outcome
\* of that job and not of an earlier one, for any number of jobs asked for and
\* polls in flight, unless a poll was answered after another had settled its
\* job (handleTriggerAIGeneration, whose polls are not told apart).
THEOREM WaitsEndRightly == Spec => []OutcomeIsOfTheJob
<1>1. PagesInv => OutcomeIsOfTheJob
    BY DialogProperties DEF PagesInv, OutcomeIsOfTheJob
<1> QED
    BY <1>1, PagesInvariance, PTL
=============================================================================
