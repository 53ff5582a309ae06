----------------------------- MODULE Enrolment -----------------------------
(***************************************************************************)
(* Getting to one's class in the student client: the guards of its routes  *)
(* (components/ProtectedRoute.jsx, App.jsx), the onboarding form           *)
(* (pages/OnboardingPage.jsx) and the form that joins a class              *)
(* (pages/JoinPage.jsx), with the membership the server keeps              *)
(* (ClassService.join_class and remove_member in services/domain.py).      *)
(* A submission of the onboarding form is two requests, the join and then  *)
(* the profile; each may be refused or lost.  Teachers of the class may    *)
(* remove the student and each other.                                      *)
(***************************************************************************)
EXTENDS Naturals, FiniteSets

CONSTANT Teachers

VARIABLES
    ui,    \* the address, the user as the client knows it, the form
    net,   \* the request of the form
    srv    \* the class, the profile and the removals under way

vars == <<ui, net, srv>>

Roles == {"STUDENT", "TEACHER", "ADMIN"}
Guest == {"welcome", "login"}
Paths == Guest \cup {"root", "onboarding", "join", "dashboard", "teacher/classes",
                     "teacher/dashboard"}
HomeOf(role) == IF role = "TEACHER" THEN "teacher/dashboard" ELSE "dashboard"

TypeOK ==
    /\ ui \in [path : Paths, from : Paths \cup {"none"}, role : Roles,
               status : {"loading", "guest", "in"}, onboarded : BOOLEAN,
               code : BOOLEAN,                    \* a class code is in the form
               busy : BOOLEAN, error : {"none", "join", "profile"},
               hops : Nat]                        \* history: redirects in a row
    /\ net \in [step : {"none", "join", "profile"},
                reply : {"none", "ok", "already", "refused"}]
    /\ srv \in [member : {"none", "active", "removed"}, onboarded : BOOLEAN,
                teachers : SUBSET Teachers,
                removing : [Teachers -> Teachers \cup {"nobody"}],
                met : BOOLEAN]                    \* history: two removals overlapped

Init ==
    /\ \E role \in Roles, onboarded \in BOOLEAN, status \in {"loading", "guest"} :
          /\ ui = [path |-> "root", from |-> "none", role |-> role, status |-> status,
                   onboarded |-> onboarded, code |-> FALSE, busy |-> FALSE,
                   error |-> "none", hops |-> 0]
          /\ srv = [member |-> "none", onboarded |-> onboarded,
                    teachers |-> Teachers, removing |-> [t \in Teachers |-> "nobody"],
                    met |-> FALSE]
    /\ net = [step |-> "none", reply |-> "none"]

-----------------------------------------------------------------------------
(* The routes. *)

Own(role) == IF role = "TEACHER" THEN {"teacher/classes", "teacher/dashboard"}
             ELSE IF role = "STUDENT" THEN {"join", "dashboard"} ELSE {}

\* What a guard shows when it sends nobody elsewhere.
Outlet == "outlet"

\* Mutant: the onboarding page is guarded like the others.
ProtectedBug(u) ==
    IF u.status = "guest" THEN "login"
    ELSE IF ~u.onboarded THEN "onboarding"
    ELSE IF u.path = "onboarding" \/ u.path \in Own(u.role) THEN Outlet ELSE HomeOf(u.role)

\* ProtectedRoute, then RoleRoute.
Protected(u) ==
    IF u.status = "guest" THEN "login"
    ELSE IF ~u.onboarded /\ u.path # "onboarding" THEN "onboarding"
    ELSE IF u.path = "onboarding" \/ u.path \in Own(u.role) THEN Outlet ELSE HomeOf(u.role)

\* GuestRoute: back to where the user was turned away.
GuestOnly(u) ==
    IF u.status # "in" THEN Outlet
    ELSE IF u.from # "none" THEN u.from ELSE HomeOf(u.role)

\* Where the address leads; a guarded page waits for the session check.
Destination(u) ==
    IF u.path \in Guest THEN GuestOnly(u)
    ELSE IF u.status = "loading" THEN Outlet
    ELSE IF u.path = "root" THEN IF u.status = "in" THEN HomeOf(u.role) ELSE "welcome"
    ELSE Protected(u)

Turned(u) == Destination(u) # Outlet
Still == ~Turned(ui)

Form(u) == [u EXCEPT !.code = FALSE, !.busy = FALSE, !.error = "none"]

\* ProtectedRoute remembers the address it turns somebody away from.
Redirect ==
    /\ Turned(ui) /\ ui.hops < 4
    /\ ui' = [Form(ui) EXCEPT !.path = Destination(ui), !.hops = @ + 1,
                              !.from = IF /\ ui.path \notin Guest
                                          /\ Destination(ui) \in {"login", "onboarding"}
                                       THEN ui.path ELSE "none"]
    /\ UNCHANGED <<net, srv>>

\* The user follows a link or types an address.
Visit(path) ==
    /\ Still /\ ui.status # "loading" /\ path # ui.path
    /\ ui' = [Form(ui) EXCEPT !.path = path, !.hops = 0, !.from = "none"]
    /\ UNCHANGED <<net, srv>>

\* The session check ends, or the login form succeeds: the user is known.
SignIn ==
    /\ ui.status = "loading" \/ (ui.status = "guest" /\ ui.path = "login")
    /\ ui' = [ui EXCEPT !.status = "in", !.onboarded = srv.onboarded, !.hops = 0]
    /\ UNCHANGED <<net, srv>>

SignOut ==
    /\ Still /\ net.step = "none"
    /\ ui.status \in {"loading", "in"}
    /\ ui' = [ui EXCEPT !.status = "guest", !.hops = 0]
    /\ UNCHANGED <<net, srv>>

-----------------------------------------------------------------------------
(* The forms. *)

CanType == Still /\ ui.status = "in" /\ ~ui.busy /\ ui.path \in {"onboarding", "join"}

TypeCode ==
    /\ CanType /\ ui.role # "TEACHER"
    /\ ui' = [ui EXCEPT !.code = ~@]
    /\ UNCHANGED <<net, srv>>

\* handleSubmit: with a code the class is joined first.
Submit ==
    /\ CanType /\ net.step = "none"
    /\ ui.path = "join" => ui.code
    /\ ui' = [ui EXCEPT !.busy = TRUE, !.error = "none"]
    /\ net' = [step |-> IF ui.code THEN "join" ELSE "profile", reply |-> "none"]
    /\ UNCHANGED srv

Failed(error) == [ui EXCEPT !.busy = FALSE, !.error = error]
NoRequest == [step |-> "none", reply |-> "none"]

JoinEnds == net.reply # "ok"

JoinAnswered ==
    /\ net.step = "join" /\ net.reply # "none"
    /\ IF JoinEnds
       THEN ui' = Failed("join") /\ net' = NoRequest
       ELSE IF ui.path = "onboarding"
       THEN net' = [step |-> "profile", reply |-> "none"] /\ UNCHANGED ui
       ELSE ui' = [Form(ui) EXCEPT !.path = "dashboard", !.hops = 0] /\ net' = NoRequest
    /\ UNCHANGED srv

\* Navigating away on success, to where the user wanted to go before.
ProfileAnswered ==
    /\ net.step = "profile" /\ net.reply = "ok"
    /\ ui' = [Form(ui) EXCEPT !.onboarded = TRUE, !.hops = 0,
                 !.path = IF ui.role = "TEACHER" THEN "teacher/classes"
                          ELSE IF ui.from # "none" THEN ui.from ELSE "dashboard"]
    /\ net' = NoRequest
    /\ UNCHANGED srv

\* A request or its answer is lost.
Lost ==
    /\ net.step # "none"
    /\ ui' = Failed(net.step)
    /\ net' = NoRequest
    /\ UNCHANGED srv

-----------------------------------------------------------------------------
(* The server. *)

MayJoin == srv.member # "active"

\* join_class under its lock: a member who was removed comes back, and the
\* code may be wrong or the class archived.
ServeJoin ==
    /\ net.step = "join" /\ net.reply = "none"
    /\ \/ /\ MayJoin
          /\ net' = [net EXCEPT !.reply = "ok"]
          /\ srv' = [srv EXCEPT !.member = "active"]
       \/ /\ ~MayJoin
          /\ net' = [net EXCEPT !.reply = "already"] /\ UNCHANGED srv
       \/ net' = [net EXCEPT !.reply = "refused"] /\ UNCHANGED srv
    /\ UNCHANGED ui

ServeProfile ==
    /\ net.step = "profile" /\ net.reply = "none"
    /\ net' = [net EXCEPT !.reply = "ok"]
    /\ srv' = [srv EXCEPT !.onboarded = TRUE]
    /\ UNCHANGED ui

RemoveStudent ==
    /\ srv.member = "active" /\ srv.teachers # {}
    /\ srv' = [srv EXCEPT !.member = "removed"]
    /\ UNCHANGED <<ui, net>>

\* Mutant: one teacher is one too few.
EnoughBug == Cardinality(srv.teachers) >= 1

Enough == Cardinality(srv.teachers) > 1

\* remove_member, up to its count of the teachers, which locks nothing.
RemoveRead(t, target) ==
    /\ t \in srv.teachers /\ target \in srv.teachers
    /\ srv.removing[t] = "nobody"
    /\ Enough
    /\ srv' = [srv EXCEPT !.removing[t] = target,
                          !.met = @ \/ \E u \in Teachers : srv.removing[u] # "nobody"]
    /\ UNCHANGED <<ui, net>>

RemoveCommit(t) ==
    /\ srv.removing[t] # "nobody"
    /\ srv' = [srv EXCEPT !.teachers = @ \ {srv.removing[t]}, !.removing[t] = "nobody"]
    /\ UNCHANGED <<ui, net>>

-----------------------------------------------------------------------------
Next ==
    \/ Redirect \/ SignIn \/ SignOut \/ TypeCode \/ Submit
    \/ \E path \in Paths : Visit(path)
    \/ JoinAnswered \/ ProfileAnswered \/ Lost
    \/ ServeJoin \/ ServeProfile \/ RemoveStudent
    \/ \E t \in Teachers : RemoveCommit(t) \/ \E target \in Teachers : RemoveRead(t, target)

Spec == Init /\ [][Next]_vars

-----------------------------------------------------------------------------
(* Properties. *)

\* Wherever somebody enters and whatever changes meanwhile, two redirects
\* lead to a page that stays, except for an administrator, whom the guard of
\* the students' pages sends to a student's page (RoleRoute, homePathFor).
RedirectsEnd == ui.role # "ADMIN" => ui.hops =< 2

\* A class loses its last teacher only when two removals overlap: the count is
\* read without a lock (remove_member).
LastTeacherStays == srv.teachers # {} \/ srv.met
=============================================================================
