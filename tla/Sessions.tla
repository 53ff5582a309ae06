------------------------------ MODULE Sessions ------------------------------
(***************************************************************************)
(* Signing in, staying signed in and signing out: the refresh sessions the *)
(* server keeps (services/domain.py, AuthService) and the two browser      *)
(* clients that hold their tokens, the student client (client/) and the    *)
(* staff portal (admin/).  A behaviour runs one of the two clients, in one *)
(* or more tabs of a browser: the tabs share localStorage, each has React  *)
(* state, requests in flight and (student client) one refreshPromise of    *)
(* its own.                                                                *)
(*                                                                         *)
(* A refresh is sent, read under its locks, committed and answered in      *)
(* steps of its own; a logout is served and answered in two.  A read       *)
(* changes nothing, so it is served when it is answered, with every        *)
(* outcome it could have had since it was sent.  Any request or answer may *)
(* be lost.  An access token is a JWT: the server only checks its expiry,  *)
(* so it is named by the refresh token issued with it and may expire at    *)
(* any time.  MaxTokens bounds the tokens ever issued; an instance says     *)
(* which tabs may be open, how many requests each may have in flight and   *)
(* how many losses and reloads may happen.                                 *)
(***************************************************************************)
EXTENDS Naturals, FiniteSets

CONSTANTS Tabs, Slots, MaxTokens, Instances

ASSUME SessionsAssumption ==
    /\ MaxTokens \in Nat \ {0}
    /\ Instances \subseteq [lanes : SUBSET (Tabs \X Slots), faults : Nat]

VARIABLES
    app,      \* the client that runs: "student" or "admin"
    lanes,    \* the open tabs, each with the requests it may have in flight
    store,    \* localStorage: the access and the refresh token, 0 when absent
    tab,      \* what the authentication provider of each tab holds
    call,     \* the requests in flight
    ref,      \* the refresh requests, each started by the call of its slot
    session,  \* the server's RefreshSession rows, by token
    expired,  \* the last access token that has expired
    faults,   \* how many more requests may be lost or open pages reloaded
    spent,    \* history: what became of the answer that replaced a token
    reuses    \* history: the values of spent at which a token was reused

vars == <<app, lanes, store, tab, call, ref, session, expired, faults, spent, reuses>>
fixed == <<app, lanes>>
serverVars == <<session, expired, faults, spent, reuses>>

Apps == {"student", "admin"}
Token == 1 .. MaxTokens
NoToken == 0
MaybeToken == 0 .. MaxTokens

SessionRow == [state : {"free", "live", "rotated", "revoked"},
               family : MaybeToken, fits : BOOLEAN]
Store == [access : MaybeToken, refresh : MaybeToken]
Tab == [status : {"closed", "loading", "guest", "signed"},
        family : MaybeToken,   \* whose profile the tab shows
        token : MaybeToken,    \* the portal's copy of the access token
        restored : BOOLEAN]    \* signed in by a page load, not by a form
Kinds == {"me", "data", "login", "logout"}
Call == [kind : Kinds \cup {"none"},
         pc : {"idle", "sent", "served", "waiting"},
         again : BOOLEAN,      \* the second try of a request
         access : MaybeToken, body : MaybeToken,
         valid : BOOLEAN]      \* the access token was valid when it was sent
Refresh == [pc : {"none", "sent", "read", "served"},
            token : MaybeToken, family : SUBSET Token,
            seen : {"none", "live", "rotated", "revoked"}, issued : MaybeToken]

Idle == [kind |-> "none", pc |-> "idle", again |-> FALSE, access |-> NoToken,
         body |-> NoToken, valid |-> FALSE]
NoRefresh == [pc |-> "none", token |-> NoToken, family |-> {},
              seen |-> "none", issued |-> NoToken]
EmptyStore == [access |-> NoToken, refresh |-> NoToken]

TypeOK ==
    /\ app \in Apps
    /\ lanes \subseteq Tabs \X Slots
    /\ store \in Store
    /\ tab \in [Tabs -> Tab]
    /\ call \in [Tabs -> [Slots -> Call]]
    /\ ref \in [Tabs -> [Slots -> Refresh]]
    /\ session \in [Token -> SessionRow]
    /\ expired \in MaybeToken
    /\ faults \in Nat
    /\ spent \in [Token -> {"no", "in flight", "kept", "dropped", "lost"}]
    /\ reuses \subseteq {"in flight", "kept", "dropped", "lost"}

Init ==
    /\ app \in Apps
    /\ \E i \in Instances : lanes = i.lanes /\ faults = i.faults
    /\ store = EmptyStore
    /\ tab = [t \in Tabs |-> [status |-> "closed", family |-> NoToken,
                              token |-> NoToken, restored |-> FALSE]]
    /\ call = [t \in Tabs |-> [s \in Slots |-> Idle]]
    /\ ref = [t \in Tabs |-> [s \in Slots |-> NoRefresh]]
    /\ session = [n \in Token |-> [state |-> "free", family |-> NoToken, fits |-> TRUE]]
    /\ expired = 0
    /\ spent = [n \in Token |-> "no"]
    /\ reuses = {}

-----------------------------------------------------------------------------
(* The server. *)

Free == {n \in Token : session[n].state = "free"}
NextToken == CHOOSE n \in Free : \A m \in Free : n =< m
LiveOf(f) == {n \in Token : session[n].state = "live" /\ session[n].family = f}
\* Access tokens live equally long, so they expire in the order of their issue.
Valid(a) == a > expired

\* Mutant: no lock is taken.
LockedBug(n) == n \notin Token

\* A refresh transaction holds the locks of its token from its read to its commit.
Locked(n) == \E t \in Tabs, s \in Slots : ref[t][s].pc = "read" /\ ref[t][s].token = n

IssueTokens(n, f, fits) == [session EXCEPT ![n] = [state |-> "live", family |-> f, fits |-> fits]]

\* Mutant: revoked_at is never set.
RevokeOwnBug(n) == session

\* logout: the session of the token in the body, unless already revoked.
RevokeOwn(n) ==
    IF n # NoToken /\ session[n].state = "live"
    THEN [session EXCEPT ![n].state = "revoked"]
    ELSE session

RevokeFamily(family) ==
    [n \in Token |-> IF n \in family /\ session[n].state = "live"
                     THEN [session[n] EXCEPT !.state = "revoked"]
                     ELSE session[n]]

\* logout waits for a refresh of the same token: its update needs the row.
ServeLogout(t, s) ==
    LET c == call[t][s] IN
    /\ c.kind = "logout" /\ c.pc = "sent" /\ c.valid
    /\ ~Locked(c.body)
    /\ session' = RevokeOwn(c.body)
    /\ call' = [call EXCEPT ![t][s].pc = "served"]
    /\ UNCHANGED <<fixed, store, tab, ref, expired, faults, spent, reuses>>

\* refresh, up to its read under the locks, and the family it would revoke.
RefreshRead(t, s) ==
    LET r == ref[t][s] IN
    /\ r.pc = "sent"
    /\ ~Locked(r.token)
    /\ ref' = [ref EXCEPT ![t][s].pc = "read",
                          ![t][s].seen = session[r.token].state,
                          ![t][s].family = LiveOf(session[r.token].family)]
    /\ reuses' = IF session[r.token].state = "rotated"
                 THEN reuses \cup {spent[r.token]} ELSE reuses
    /\ UNCHANGED <<fixed, store, tab, call, session, expired, faults, spent>>

Rotate(t, s) ==
    LET r == ref[t][s] IN
    /\ Free # {}
    /\ session' = [IssueTokens(NextToken, session[r.token].family, session[r.token].fits)
                   EXCEPT ![r.token].state = "rotated"]
    /\ spent' = [spent EXCEPT ![r.token] = "in flight"]
    /\ ref' = [ref EXCEPT ![t][s].pc = "served", ![t][s].issued = NextToken]

\* A revoked token takes its family with it; the rows another refresh still
\* has locked are waited for.
RevokeAll(t, s) ==
    LET r == ref[t][s] IN
    /\ \A n \in r.family \ {r.token} : ~Locked(n)
    /\ session' = RevokeFamily(r.family)
    /\ ref' = [ref EXCEPT ![t][s].pc = "served"]
    /\ UNCHANGED spent

RefreshCommit(t, s) ==
    /\ ref[t][s].pc = "read"
    /\ IF ref[t][s].seen = "live" THEN Rotate(t, s) ELSE RevokeAll(t, s)
    /\ UNCHANGED <<fixed, store, tab, call, expired, faults, reuses>>

Expire ==
    /\ expired < MaxTokens /\ session[expired + 1].state # "free"
    /\ expired' = expired + 1
    /\ UNCHANGED <<fixed, store, tab, call, ref, session, faults, spent, reuses>>

-----------------------------------------------------------------------------
(* What a tab does with its requests. *)

\* Mutant: every request refreshes on its own.
RefreshingBug(t) == {}

Refreshing(t) == {s \in Slots : ref[t][s].pc # "none"}
Waiting(t) == {s \in Slots : call[t][s].pc = "waiting"}

NewCall(kind) ==
    [kind |-> kind, pc |-> "sent", again |-> FALSE,
     access |-> IF kind = "login" THEN NoToken ELSE store.access,
     body |-> IF kind = "logout" THEN store.refresh ELSE NoToken,
     valid |-> kind # "login" /\ Valid(store.access)]

Start(t, s, kind) ==
    /\ call[t][s].pc = "idle" /\ ref[t][s].pc = "none"
    /\ call' = [call EXCEPT ![t][s] = NewCall(kind)]

Fault == faults > 0 /\ faults' = faults - 1

FormBusy(t) == \E s \in Slots : call[t][s].kind = "login"

\* A page reads something.
Read(t, s) ==
    /\ tab[t].status = "signed"
    /\ Start(t, s, "data")
    /\ UNCHANGED <<fixed, store, tab, ref>> /\ UNCHANGED serverVars

\* The login or the code form is sent: handleLogin, handleVerify of the student
\* client; LoginView of the portal, whose loader replaces the form meanwhile.
SubmitLogin(t, s) ==
    /\ tab[t].status = "guest" /\ ~FormBusy(t)
    /\ Start(t, s, "login")
    /\ tab' = IF app = "admin" THEN [tab EXCEPT ![t].status = "loading"] ELSE tab
    /\ UNCHANGED <<fixed, store, ref>> /\ UNCHANGED serverVars

\* The sign-out buttons stay enabled while a logout is in flight.
SubmitLogout(t, s) ==
    /\ tab[t].status = "signed"
    /\ Start(t, s, "logout")
    /\ UNCHANGED <<fixed, store, tab, ref>> /\ UNCHANGED serverVars

\* The page is opened or reloaded: requests in flight are abandoned, and a
\* stored access token is tried with /auth/me.
Load(t, s) ==
    /\ \A q \in Slots : ref[t][q].pc # "read"
    /\ \/ tab[t].status = "closed" /\ UNCHANGED faults
       \/ tab[t].status # "closed" /\ Fault
    /\ tab' = [tab EXCEPT ![t] =
                 [status |-> IF store.access # NoToken THEN "loading" ELSE "guest",
                  family |-> NoToken, token |-> store.access, restored |-> TRUE]]
    /\ call' = [call EXCEPT ![t] =
                  [q \in Slots |-> IF q = s /\ store.access # NoToken
                                   THEN NewCall("me") ELSE Idle]]
    /\ spent' = [n \in Token |->
                   IF \E q \in Slots : ref[t][q].issued # NoToken /\ ref[t][q].token = n
                   THEN "lost" ELSE spent[n]]
    /\ ref' = [ref EXCEPT ![t] = [q \in Slots |-> NoRefresh]]
    /\ UNCHANGED <<fixed, store, session, expired, reuses>>

SignedOut(t) == [tab EXCEPT ![t].status = "guest", ![t].family = NoToken,
                            ![t].token = NoToken]
SignedIn(t, f, again) == [tab EXCEPT ![t].status = "signed", ![t].family = f,
                                     ![t].restored = again]
\* Mutant: the refresh token is not stored.
StoreTokensBug(n) == [access |-> n]
StoreTokens(n) == [access |-> n, refresh |-> n]
Done(t, s) == [call EXCEPT ![t][s] = Idle]

\* What the server may have answered by now; a login is answered by Login.
Outcomes(c) ==
    CASE c.kind = "logout" -> IF c.pc = "served" THEN {"ok"}
                              ELSE IF Valid(c.access) THEN {} ELSE {"unauthorized"}
      [] c.kind \in {"me", "data"} -> (IF c.valid THEN {"ok"} ELSE {})
                                      \cup (IF Valid(c.access) THEN {} ELSE {"unauthorized"})
      [] OTHER -> {}

-----------------------------------------------------------------------------
(* The student client: lib/api.js, context/AuthContext.jsx, LoginPage,     *)
(* VerifyPage.                                                             *)

\* Mutant: only the form learns that the role does not fit.
StudentLoginBug(t, s, n, fits) ==
    /\ store' = StoreTokens(n)
    /\ tab' = SignedIn(t, n, FALSE)
    /\ call' = Done(t, s)

\* A user whose role does not belong in this client is signed in, then out.
StudentLogin(t, s, n, fits) ==
    /\ store' = StoreTokens(n)
    /\ tab' = SignedIn(t, n, FALSE)
    /\ call' = IF fits THEN Done(t, s)
               ELSE [call EXCEPT ![t][s] = [Idle EXCEPT !.kind = "logout", !.pc = "sent",
                                                        !.access = n, !.body = n, !.valid = TRUE]]

StudentMe(t, s, outcome) ==
    /\ call' = Done(t, s)
    /\ IF outcome = "ok"
       THEN /\ tab' = SignedIn(t, session[call[t][s].access].family, TRUE)
            /\ UNCHANGED store
       ELSE /\ store' = EmptyStore
            /\ tab' = SignedOut(t)

Logout(t, s) ==
    /\ store' = EmptyStore
    /\ tab' = SignedOut(t)
    /\ call' = Done(t, s)

StudentData(t, s, outcome) ==
    /\ call' = Done(t, s)
    /\ tab' = IF outcome = "unauthorized" THEN SignedOut(t) ELSE tab
    /\ UNCHANGED store

StudentSettles(t, s, outcome) ==
    LET kind == call[t][s].kind IN
    \/ kind = "me" /\ StudentMe(t, s, outcome)
    \/ kind = "logout" /\ Logout(t, s)
    \/ kind = "data" /\ StudentData(t, s, outcome)

\* request(): a first 401 joins the refresh in flight or starts one; without
\* a refresh token the session is given up.
JoinRefresh(t, s) ==
    /\ Refreshing(t) # {}
    /\ call' = [call EXCEPT ![t][s].pc = "waiting"]
    /\ UNCHANGED <<store, tab, ref>>

StartRefresh(t, s) ==
    /\ store.refresh # NoToken
    /\ ref' = [ref EXCEPT ![t][s] = [NoRefresh EXCEPT !.pc = "sent", !.token = store.refresh]]
    /\ call' = [call EXCEPT ![t][s].pc = "waiting"]
    /\ UNCHANGED <<store, tab>>

Unauthorized(t, s) ==
    \/ JoinRefresh(t, s)
    \/ Refreshing(t) = {} /\ StartRefresh(t, s)
    \/ /\ Refreshing(t) = {} /\ store.refresh = NoToken
       /\ Logout(t, s)
       /\ UNCHANGED ref

StudentAnswer(t, s) ==
    /\ app = "student"
    /\ call[t][s].pc \in {"sent", "served"}
    /\ \E outcome \in Outcomes(call[t][s]) :
          IF outcome = "unauthorized" /\ ~call[t][s].again
          THEN Unauthorized(t, s)
          ELSE StudentSettles(t, s, outcome) /\ UNCHANGED ref
    /\ UNCHANGED fixed /\ UNCHANGED serverVars

\* The shared promise settles: every request that awaits it is sent again, or
\* the session is given up.
StudentRefreshed(t, s) ==
    LET r == ref[t][s] IN
    /\ app = "student"
    /\ r.pc = "served" /\ r.issued # NoToken
    /\ store' = StoreTokens(r.issued)
    /\ call' = [call EXCEPT ![t] = [q \in Slots |->
                  IF q \in Waiting(t)
                  THEN [call[t][q] EXCEPT !.pc = "sent", !.again = TRUE,
                                          !.access = r.issued, !.valid = Valid(r.issued)]
                  ELSE call[t][q]]]
    /\ ref' = [ref EXCEPT ![t][s] = NoRefresh]
    /\ spent' = [spent EXCEPT ![r.token] = "kept"]
    /\ UNCHANGED <<fixed, tab, session, expired, faults, reuses>>

\* Mutant: the unauthorized handler is not called.
GiveUpBug(t) ==
    /\ store' = EmptyStore
    /\ call' = [call EXCEPT ![t] = [q \in Slots |-> IF q \in Waiting(t) THEN Idle
                                                    ELSE call[t][q]]]
    /\ UNCHANGED tab

GiveUp(t) ==
    /\ store' = EmptyStore
    /\ tab' = SignedOut(t)
    /\ call' = [call EXCEPT ![t] = [q \in Slots |-> IF q \in Waiting(t) THEN Idle
                                                    ELSE call[t][q]]]

StudentRefused(t, s) ==
    /\ app = "student"
    /\ ref[t][s].pc = "served" /\ ref[t][s].issued = NoToken
    /\ GiveUp(t)
    /\ ref' = [ref EXCEPT ![t][s] = NoRefresh]
    /\ UNCHANGED fixed /\ UNCHANGED serverVars

-----------------------------------------------------------------------------
(* The staff portal: admin/src/lib/api.js, stores/AuthContext.jsx,         *)
(* LoginView.                                                              *)

\* verifyOtp: a new token runs the effect that asks /auth/me.
PortalLogin(t, s, n) ==
    /\ store' = StoreTokens(n)
    /\ tab' = [SignedIn(t, n, FALSE) EXCEPT ![t].token = n]
    /\ call' = [call EXCEPT ![t][s] = [Idle EXCEPT !.kind = "me", !.pc = "sent",
                                                   !.access = n, !.valid = TRUE]]

\* The effect ignores the answer when the token has changed since it asked.
PortalMe(t, s, outcome) ==
    LET a == call[t][s].access IN
    /\ call' = Done(t, s)
    /\ IF tab[t].token # a THEN UNCHANGED <<store, tab>>
       ELSE IF outcome = "ok"
       THEN tab' = SignedIn(t, session[a].family, tab[t].restored) /\ UNCHANGED store
       ELSE store' = EmptyStore /\ tab' = SignedOut(t)

PortalSettles(t, s, outcome) ==
    LET kind == call[t][s].kind IN
    \/ kind = "me" /\ PortalMe(t, s, outcome)
    \/ kind = "logout" /\ Logout(t, s)
    \/ kind = "data" /\ call' = Done(t, s) /\ UNCHANGED <<store, tab>>

\* A retry that fails clears the storage, but not the state of the tab.
PortalRetried(t, s, outcome) ==
    /\ store' = IF outcome = "ok" THEN store ELSE EmptyStore
    /\ call' = Done(t, s)
    /\ UNCHANGED tab

\* request(): only a request outside /auth/ tries to refresh, each on its own.
PortalAnswer(t, s) ==
    LET c == call[t][s] IN
    /\ app = "admin"
    /\ c.pc \in {"sent", "served"}
    /\ \E outcome \in Outcomes(c) :
          IF c.again THEN PortalRetried(t, s, outcome) /\ UNCHANGED ref
          ELSE IF outcome = "unauthorized" /\ c.kind = "data" /\ store.refresh # NoToken
          THEN StartRefresh(t, s)
          ELSE PortalSettles(t, s, outcome) /\ UNCHANGED ref
    /\ UNCHANGED fixed /\ UNCHANGED serverVars

\* Mutant: both new tokens are stored.
PortalKeepsBug(n) == StoreTokens(n)
PortalKeeps(n) == [store EXCEPT !.access = n]

\* The new access token is stored, the new refresh token is not.
PortalRefreshed(t, s) ==
    LET r == ref[t][s] IN
    /\ app = "admin"
    /\ r.pc = "served" /\ r.issued # NoToken
    /\ store' = PortalKeeps(r.issued)
    /\ call' = [call EXCEPT ![t][s].pc = "sent", ![t][s].again = TRUE,
                            ![t][s].access = r.issued, ![t][s].valid = Valid(r.issued)]
    /\ ref' = [ref EXCEPT ![t][s] = NoRefresh]
    /\ spent' = [spent EXCEPT ![r.token] = "dropped"]
    /\ UNCHANGED <<fixed, tab, session, expired, faults, reuses>>

\* A refused refresh falls through to the error of the first answer.
PortalRefused(t, s) ==
    /\ app = "admin"
    /\ ref[t][s].pc = "served" /\ ref[t][s].issued = NoToken
    /\ ref' = [ref EXCEPT ![t][s] = NoRefresh]
    /\ call' = Done(t, s)
    /\ UNCHANGED <<fixed, store, tab>> /\ UNCHANGED serverVars

-----------------------------------------------------------------------------
(* Both clients. *)

\* A login or a code verification succeeds: the first token of a new family.
Login(t, s, fits) ==
    /\ call[t][s].kind = "login"
    /\ Free # {}
    /\ fits \/ app = "student"
    /\ session' = IssueTokens(NextToken, NextToken, fits)
    /\ IF app = "student" THEN StudentLogin(t, s, NextToken, fits)
                          ELSE PortalLogin(t, s, NextToken)
    /\ UNCHANGED <<fixed, ref, expired, faults, spent, reuses>>

\* It is refused or lost, or the portal turns the role away before it stores
\* anything: the form stays.
LoginFails(t, s) ==
    /\ call[t][s].kind = "login"
    /\ call' = Done(t, s)
    /\ tab' = SignedOut(t)
    /\ UNCHANGED <<fixed, store, ref>> /\ UNCHANGED serverVars

\* fetch rejects, as the request or its answer is lost, or the server answers
\* with an error other than 401.
LoseCall(t, s) ==
    /\ call[t][s].kind # "login" /\ call[t][s].pc \in {"sent", "served"}
    /\ IF app = "student" THEN StudentSettles(t, s, "error")
       ELSE IF call[t][s].again THEN PortalRetried(t, s, "error")
       ELSE PortalSettles(t, s, "error")
    /\ Fault
    /\ UNCHANGED <<fixed, ref, session, expired, spent, reuses>>

\* A refresh or its answer is lost: both clients clear the storage.
LoseRefresh(t, s) ==
    LET r == ref[t][s] IN
    /\ r.pc \in {"sent", "served"}
    /\ Fault
    /\ IF app = "student" THEN GiveUp(t)
       ELSE store' = EmptyStore /\ call' = Done(t, s) /\ UNCHANGED tab
    /\ ref' = [ref EXCEPT ![t][s] = NoRefresh]
    /\ spent' = IF r.issued # NoToken THEN [spent EXCEPT ![r.token] = "lost"] ELSE spent
    /\ UNCHANGED <<fixed, session, expired, reuses>>

-----------------------------------------------------------------------------
ServerStep(t, s) == ServeLogout(t, s) \/ RefreshRead(t, s) \/ RefreshCommit(t, s)

Answer(t, s) ==
    \/ StudentAnswer(t, s) \/ StudentRefreshed(t, s) \/ StudentRefused(t, s)
    \/ PortalAnswer(t, s) \/ PortalRefreshed(t, s) \/ PortalRefused(t, s)
    \/ LoginFails(t, s) \/ \E fits \in BOOLEAN : Login(t, s, fits)

Next ==
    \/ \E t \in Tabs, s \in Slots :
          /\ <<t, s>> \in lanes
          /\ \/ Read(t, s) \/ SubmitLogin(t, s) \/ SubmitLogout(t, s) \/ Load(t, s)
             \/ ServerStep(t, s) \/ Answer(t, s)
             \/ LoseCall(t, s) \/ LoseRefresh(t, s)
    \/ Expire

Spec == Init /\ [][Next]_vars

-----------------------------------------------------------------------------
(* Properties. *)

OneTab == \E t \in Tabs : lanes \subseteq {t} \X Slots
Students == app = "student" /\ OneTab
FamilyOf(f) == {n \in Token : session[n].state # "free" /\ session[n].family = f}

\* A family of refresh sessions never forks: however refreshes, reuses and
\* logouts overlap, at most one of its tokens can still be refreshed
\* (AuthService._refresh_locked and its locks).
OneLiveSessionPerFamily == \A f \in Token : Cardinality(LiveOf(f)) =< 1

\* Sharing one refreshPromise, a student's tab presents a token that was
\* already rotated only when the answer to the rotation was lost; a family is
\* never revoked because two of the tab's own requests met (lib/api.js).
ReuseHasACause == Students => reuses \subseteq {"lost"}

\* The portal stores the access token of a refresh and drops its refresh
\* token, so however long a staff member stays signed in, a login is extended
\* once: the next refresh is taken for reuse (admin lib/api.js).
PortalRefreshesOnce ==
    app = "admin" => \A f \in Token : Cardinality(FamilyOf(f)) =< 2

\* A student's only tab never shows a signed in user without tokens: whatever
\* clears the tokens signs the tab out as well (clearTokens, onUnauthorized).
SignedInHasTokens ==
    Students => \A t \in Tabs : tab[t].status = "signed" => store # EmptyStore

\* Somebody whose role does not belong in the student client is signed in by
\* the form only while the logout that follows is in flight (LoginPage).
WrongRoleLeaves ==
    \A t \in Tabs :
        tab[t].status = "signed" /\ ~tab[t].restored /\ ~session[tab[t].family].fits =>
            \E s \in Slots : call[t][s].kind = "logout"

\* When the server has served the logout of the token a student's browser
\* stores, nothing of the login is left alive, unless a refresh overlapped it
\* or the answer to an earlier one was lost (AuthService.logout).
LogoutEndsTheSession ==
    Students => \A t \in Tabs, s \in Slots :
        LET c == call[t][s] IN
        /\ c.kind = "logout" /\ c.pc = "served"
        /\ c.body # NoToken /\ c.body = store.refresh
        /\ Refreshing(t) = {} /\ spent[c.body] # "lost"
        => LiveOf(session[c.body].family) = {}
=============================================================================
