--------------------------- MODULE AttemptScreen ---------------------------
(***************************************************************************)
(* Answering a challenge in the student client (pages/AttemptPage.jsx) on  *)
(* top of the endpoints that load an attempt, save an answer and finish    *)
(* it.  The page shows one question at a time, saves a choice as soon as   *)
(* it is made and takes it back when saving fails.  A request is sent,     *)
(* served and answered in steps of its own.  It may be lost before or      *)
(* after it is served, or the page gives up on one that the server has yet *)
(* to serve, as when the connection fails; the page may be reloaded or     *)
(* left while one is in flight.  Of the requests the page has given up on  *)
(* MaxLate at most stay in flight, which bounds the model.                 *)
(***************************************************************************)
EXTENDS Naturals, FiniteSets

CONSTANTS Questions,   \* the number of questions
          Options, MaxReloads, MaxLate

VARIABLES
    ui,    \* the state of the page
    net,   \* the requests in flight
    srv    \* the attempt as the server stores it

vars == <<ui, net, srv>>

None == 0
Question == 1 .. Questions
Answers == [Question -> Options \cup {None}]
NoAnswers == [q \in Question |-> None]

Page == [view : {"loading", "failed", "quiz", "result", "dashboard"},
         load : 0 .. MaxReloads,     \* how often the page was reloaded
         index : Question, answers : Answers,
         saving : BOOLEAN, saveError : BOOLEAN,
         finishing : BOOLEAN, finishError : BOOLEAN, showExit : BOOLEAN,
         doubt : SUBSET Question]    \* history: a save the page does not wait for
                                     \* was yet to be served
Gone == MaxReloads + 1               \* the load of a request nobody waits for
Request == [kind : {"save", "finish"}, load : 0 .. Gone, q : Question,
            option : Options \cup {None},
            reply : {"none", "read", "ok", "refused"},
            seen : Options \cup {None}]   \* the answer read before the lock

TypeOK ==
    /\ ui \in Page
    /\ net \subseteq Request
    /\ srv \in [completed : BOOLEAN, answers : Answers, refused : BOOLEAN]

FreshPage(load) ==
    [view |-> "loading", load |-> load, index |-> 1, answers |-> NoAnswers,
     saving |-> FALSE, saveError |-> FALSE, finishing |-> FALSE,
     finishError |-> FALSE, showExit |-> FALSE, doubt |-> {}]

Init ==
    /\ ui = FreshPage(0)
    /\ net = {}
    /\ srv = [completed |-> FALSE, answers |-> NoAnswers, refused |-> FALSE]

Saves == {r \in net : r.kind = "save"}
Unserved(r) == r.reply \in {"none", "read"}
Here(r) == r.load = ui.load /\ ui.view # "dashboard"
Selected == ui.answers[ui.index]
IsLast == ui.index = Questions

-----------------------------------------------------------------------------
(* Loading. *)

FirstUnanswered(answers) ==
    LET open == {q \in Question : answers[q] = None}
    IN IF open = {} THEN Questions ELSE CHOOSE q \in open : \A p \in open : q =< p

\* A completed attempt is shown as its result, another where it was left.
Loaded ==
    /\ ui.view = "loading"
    /\ ui' = IF srv.completed THEN [ui EXCEPT !.view = "result"]
             ELSE [ui EXCEPT !.view = "quiz", !.answers = srv.answers,
                             !.index = FirstUnanswered(srv.answers),
                             !.doubt = {r.q : r \in {s \in Saves : Unserved(s)}}]
    /\ UNCHANGED <<net, srv>>

LoadFails ==
    /\ ui.view = "loading"
    /\ ui' = [ui EXCEPT !.view = "failed"]
    /\ UNCHANGED <<net, srv>>

RetryLoad ==
    /\ ui.view = "failed"
    /\ ui' = [ui EXCEPT !.view = "loading"]
    /\ UNCHANGED <<net, srv>>

\* The browser reloads the page: what is in flight still reaches the server.
Reload ==
    /\ ui.load < MaxReloads /\ ui.view \notin {"result", "dashboard"}
    /\ ui' = FreshPage(ui.load + 1)
    /\ UNCHANGED <<net, srv>>

-----------------------------------------------------------------------------
(* Answering. *)

Offered == IF ui.view = "quiz" /\ ~ui.showExit THEN Options ELSE {}

\* Mutant: a click while an answer is being saved is not ignored.
MaySelectBug(option) == option \in Offered

MaySelect(option) == option \in Offered /\ ~ui.saving

SelectOption(option) ==
    /\ MaySelect(option)
    /\ ui' = [ui EXCEPT !.answers[ui.index] = option, !.saving = TRUE, !.saveError = FALSE]
    /\ net' = net \cup {[kind |-> "save", load |-> ui.load, q |-> ui.index,
                         option |-> option, reply |-> "none", seen |-> None]}
    /\ UNCHANGED srv

\* The choice is taken back unless another one has replaced it.
SaveFailed(r) ==
    [ui EXCEPT !.saving = FALSE, !.saveError = TRUE,
               !.answers[r.q] = IF @ = r.option THEN None ELSE @]

SaveAnswered(r) ==
    /\ r.kind = "save" /\ ~Unserved(r)
    /\ net' = net \ {r}
    /\ ui' = IF ~Here(r) THEN ui
             ELSE IF r.reply = "ok" THEN [ui EXCEPT !.saving = FALSE]
             ELSE SaveFailed(r)
    /\ UNCHANGED srv

\* The request never arrives, or its answer does not.
SaveLost(r) ==
    /\ r.kind = "save"
    /\ net' = net \ {r}
    /\ ui' = IF Here(r) THEN SaveFailed(r) ELSE ui
    /\ UNCHANGED srv

\* The page gives up on a request that is still to be served.
MayBeLate(r) ==
    /\ Here(r) /\ Unserved(r)
    /\ Cardinality({s \in net : s.load = Gone}) < MaxLate
Late(r) == (net \ {r}) \cup {[r EXCEPT !.load = Gone]}

SaveLate(r) ==
    /\ r.kind = "save" /\ MayBeLate(r)
    /\ net' = Late(r)
    /\ ui' = [SaveFailed(r) EXCEPT !.doubt = @ \cup {r.q}]
    /\ UNCHANGED srv

\* Mutant: the next question does not wait for the save.
MayGoNextBug == ui.view = "quiz" /\ ~ui.showExit /\ Selected # None /\ ~ui.saveError

MayGoNext ==
    /\ ui.view = "quiz" /\ ~ui.showExit
    /\ Selected # None /\ ~ui.saving /\ ~ui.saveError

GoNext ==
    /\ MayGoNext /\ ~IsLast
    /\ ui' = [ui EXCEPT !.index = @ + 1]
    /\ UNCHANGED <<net, srv>>

HandleFinish ==
    /\ MayGoNext /\ IsLast /\ ~ui.finishing
    /\ ui' = [ui EXCEPT !.finishing = TRUE, !.finishError = FALSE]
    /\ net' = net \cup {[kind |-> "finish", load |-> ui.load, q |-> ui.index,
                         option |-> None, reply |-> "none", seen |-> None]}
    /\ UNCHANGED srv

\* The answer navigates to the result, even from a page that was left.
FinishAnswered(r) ==
    /\ r.kind = "finish" /\ ~Unserved(r)
    /\ net' = net \ {r}
    /\ ui' = IF r.load # ui.load THEN ui
             ELSE IF r.reply = "ok" THEN [ui EXCEPT !.view = "result"]
             ELSE [ui EXCEPT !.finishing = FALSE, !.finishError = TRUE]
    /\ UNCHANGED srv

FinishFailed == [ui EXCEPT !.finishing = FALSE, !.finishError = TRUE]

FinishLost(r) ==
    /\ r.kind = "finish"
    /\ net' = net \ {r}
    /\ ui' = IF Here(r) THEN FinishFailed ELSE ui
    /\ UNCHANGED srv

FinishLate(r) ==
    /\ r.kind = "finish" /\ MayBeLate(r)
    /\ net' = Late(r)
    /\ ui' = FinishFailed
    /\ UNCHANGED srv

ToggleExit ==
    /\ ui.view = "quiz"
    /\ ui' = [ui EXCEPT !.showExit = ~@]
    /\ UNCHANGED <<net, srv>>

Leave ==
    /\ ui.view = "quiz" /\ ui.showExit
    /\ ui' = [FreshPage(ui.load) EXCEPT !.view = "dashboard"]
    /\ UNCHANGED <<net, srv>>

-----------------------------------------------------------------------------
(* The endpoints. *)

Replied(r, reply, seen) == (net \ {r}) \cup {[r EXCEPT !.reply = reply, !.seen = seen]}

\* _load_attempt: the attempt with its answers, before its lock is held.
ReadAttempt(r) ==
    /\ r.kind = "save" /\ r.reply = "none"
    /\ net' = Replied(r, "read", srv.answers[r.q])
    /\ UNCHANGED <<ui, srv>>

\* Under the lock only the status is read again: an answer that is the one
\* read before is not written.
ServeSave(r) ==
    /\ r.kind = "save" /\ r.reply = "read"
    /\ IF srv.completed
       THEN net' = Replied(r, "refused", None) /\ UNCHANGED srv
       ELSE /\ net' = Replied(r, "ok", None)
            /\ srv' = IF r.option = r.seen THEN srv
                      ELSE [srv EXCEPT !.answers[r.q] = r.option]
    /\ UNCHANGED ui

ServeFinish(r) ==
    /\ r.kind = "finish" /\ r.reply = "none"
    /\ IF srv.completed \/ \A q \in Question : srv.answers[q] # None
       THEN /\ net' = Replied(r, "ok", None)
            /\ srv' = [srv EXCEPT !.completed = TRUE]
       ELSE /\ net' = Replied(r, "refused", None)
            /\ srv' = [srv EXCEPT !.refused = TRUE]
    /\ UNCHANGED ui

-----------------------------------------------------------------------------
Next ==
    \/ Loaded \/ LoadFails \/ RetryLoad \/ Reload
    \/ \E option \in Options : SelectOption(option)
    \/ GoNext \/ HandleFinish \/ ToggleExit \/ Leave
    \/ \E r \in net : \/ ReadAttempt(r) \/ ServeSave(r) \/ ServeFinish(r)
                      \/ SaveAnswered(r) \/ SaveLost(r) \/ SaveLate(r)
                      \/ FinishAnswered(r) \/ FinishLost(r) \/ FinishLate(r)

Spec == Init /\ [][Next]_vars

-----------------------------------------------------------------------------
(* Properties. *)

\* A choice the page shows is the one the server stores or its save is still
\* in flight: saving one at a time, a refused or lost save never leaves a choice
\* on the screen that will not be graded.  Excepted are the questions of which
\* a save was yet to be served when the page was loaded or gave up on it: that
\* one can replace a newer choice, or let it be acknowledged without being
\* stored (selectOption and its roll back; save_answer).
ShownIsStored ==
    ui.view = "quiz" =>
        \A q \in Question \ ui.doubt :
            \/ ui.answers[q] \in {None, srv.answers[q]}
            \/ \E r \in Saves : r.q = q /\ r.load = ui.load

\* No finish the page lets a student send is refused for an unanswered
\* question, whatever was lost, reloaded or resumed before (handleFinish).
FinishIsComplete == ~srv.refused
=============================================================================
