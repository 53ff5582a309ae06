----------------------------- MODULE QuizForms -----------------------------
(***************************************************************************)
(* Writing a challenge by hand: the form of a teacher's topic page in the  *)
(* student client (ManualChallengeForm of pages/teacher/                   *)
(* TeacherTopicPage.jsx) and the dialogs of two pages of the               *)
(* administration client (ClassDetailPage.jsx, ChallengesPage.jsx), with   *)
(* the endpoint that stores it (create_manual_challenge).  A text is       *)
(* reduced to whether there is one.  The teacher's form is part of a page  *)
(* that reloads by itself; the dialogs can be closed while they save, and  *)
(* keep what was typed.                                                    *)
(***************************************************************************)
EXTENDS Naturals, Sequences, SequencesExt, FiniteSets

CONSTANT MaxQuestions   \* questions of a draft in the model

VARIABLES
    ui,    \* the page and its form
    net,   \* the submission and its answer
    srv    \* whether a submission had a wrong number of correct options

vars == <<ui, net, srv>>

MinOptions == 2
MaxOptions == 4

\* Which options are marked correct; whether the question and all the options
\* have a text.
IsQuestion(q) ==
    /\ q.prompt \in BOOLEAN /\ q.filled \in BOOLEAN
    /\ q.correct \in UNION {[1 .. n -> BOOLEAN] : n \in 0 .. MaxOptions}

TypeOK ==
    /\ [ui EXCEPT !.questions = <<>>] \in
         [page : {"teacher", "class", "challenges"}, open : BOOLEAN, title : BOOLEAN,
          topic : BOOLEAN, questions : {<<>>}, saving : BOOLEAN,
          error : {"none", "draft", "refused"}, reloading : BOOLEAN]
    /\ Len(ui.questions) =< MaxQuestions
    /\ \A n \in DOMAIN ui.questions : IsQuestion(ui.questions[n])
    /\ net \in [state : {"none", "sent", "made", "refused"},
                filled : BOOLEAN, miscounted : BOOLEAN]
    /\ srv \in [miscounted : BOOLEAN]

Marks(n) == [i \in 1 .. n |-> i = 1]

\* emptyQuestion of the teacher's form, a new row of the dialogs.
EmptyQuestion(page) ==
    [prompt |-> FALSE, filled |-> FALSE,
     correct |-> IF page = "teacher" THEN Marks(MinOptions) ELSE Marks(MaxOptions)]

EmptyForm(page) ==
    [page |-> page, open |-> FALSE, title |-> FALSE, topic |-> page = "teacher",
     questions |-> <<EmptyQuestion(page)>>, saving |-> FALSE, error |-> "none",
     reloading |-> FALSE]

NoSubmission == [state |-> "none", filled |-> FALSE, miscounted |-> FALSE]

Init ==
    /\ \E page \in {"teacher", "class", "challenges"} : ui = EmptyForm(page)
    /\ net = NoSubmission
    /\ srv = [miscounted |-> FALSE]

-----------------------------------------------------------------------------
(* What the form offers. *)

\* Nothing of the teacher's form can be changed while it is saved.
TeacherForm == IF ui.saving THEN {} ELSE {"edit", "options", "remove", "cancel", "submit"}

\* The dialogs' inputs are always enabled; Escape and the cross close them.
ClassForm == {"edit", "cancel"} \cup (IF ui.saving THEN {} ELSE {"submit"})
ChallengesForm == {"edit", "cancel"} \cup (IF ui.saving THEN {} ELSE {"submit"})

\* A page of the teacher that reloads shows nothing else.
Hidden == ui.page = "teacher" /\ ui.reloading

Offered ==
    IF ~ui.open \/ Hidden THEN {}
    ELSE CASE ui.page = "teacher" -> TeacherForm
           [] ui.page = "class" -> ClassForm
           [] ui.page = "challenges" -> ChallengesForm

Open ==
    /\ ~ui.open /\ ~Hidden
    /\ ui' = [ui EXCEPT !.open = TRUE, !.error = "none"]
    /\ UNCHANGED <<net, srv>>

\* Cancelling unmounts the teacher's form; the button above it does so even
\* while it is saved.  A dialog that is closed keeps its draft.
Cancel ==
    /\ "cancel" \in Offered \/ (ui.page = "teacher" /\ ui.open /\ ~Hidden)
    /\ ui' = IF ui.page = "teacher" THEN EmptyForm("teacher") ELSE [ui EXCEPT !.open = FALSE]
    /\ UNCHANGED <<net, srv>>

-----------------------------------------------------------------------------
(* Editing. *)

Number == 1 .. Len(ui.questions)
Edit(op) == op \in Offered /\ UNCHANGED <<net, srv>>

TypeTitle ==
    /\ Edit("edit")
    /\ ui' = [ui EXCEPT !.title = ~@] \/ (ui.page # "teacher" /\ ui' = [ui EXCEPT !.topic = TRUE])

TypeQuestion(n) ==
    /\ Edit("edit")
    /\ \/ ui' = [ui EXCEPT !.questions[n].prompt = ~@]
       \/ ui' = [ui EXCEPT !.questions[n].filled = ~@]

\* setCorrect, the radio buttons of the dialogs.
SetCorrect(n, i) ==
    /\ Edit("edit")
    /\ ui' = [ui EXCEPT !.questions[n].correct = [j \in DOMAIN @ |-> j = i]]

AddQuestion ==
    /\ Edit("edit") /\ Len(ui.questions) < MaxQuestions
    /\ ui' = [ui EXCEPT !.questions = Append(@, EmptyQuestion(ui.page))]

RemoveQuestion(n) ==
    /\ Edit("remove") /\ Len(ui.questions) > 1
    /\ ui' = [ui EXCEPT !.questions = RemoveAt(@, n)]

\* Mutant: a fifth option can be added.
MayAddOptionBug(n) == Len(ui.questions[n].correct) =< MaxOptions

MayAddOption(n) == Len(ui.questions[n].correct) < MaxOptions

AddOption(n) ==
    /\ Edit("options") /\ MayAddOption(n)
    /\ ui' = [ui EXCEPT !.questions[n].correct = Append(@, FALSE),
                        !.questions[n].filled = FALSE]

\* Mutant: the correct option may be removed.
WithoutOptionBug(correct, i) == RemoveAt(correct, i)

\* The first option takes the place of a correct one that is removed.
WithoutOption(correct, i) ==
    LET rest == RemoveAt(correct, i)
    IN IF \E j \in DOMAIN rest : rest[j] THEN rest ELSE Marks(Len(rest))

RemoveOption(n, i) ==
    /\ Edit("options") /\ Len(ui.questions[n].correct) > MinOptions
    /\ \E filled \in {ui.questions[n].filled, TRUE} :
          ui' = [ui EXCEPT !.questions[n].correct = WithoutOption(@, i),
                           !.questions[n].filled = filled]

-----------------------------------------------------------------------------
(* Submitting. *)

CorrectOptions(q) == Cardinality({i \in DOMAIN q.correct : q.correct[i]})

\* isValid disables the button.
TeacherValid ==
    ui.title /\ \A n \in Number : LET q == ui.questions[n]
                                  IN q.prompt /\ q.filled /\ CorrectOptions(q) > 0

ClassValid ==
    ui.title /\ ui.topic /\ \A n \in Number : LET q == ui.questions[n]
                                              IN q.prompt /\ CorrectOptions(q) = 1 /\ q.filled

\* The texts of the options are left to the server.
ChallengesValid ==
    ui.title /\ ui.topic /\ \A n \in Number : LET q == ui.questions[n]
                                              IN q.prompt /\ CorrectOptions(q) = 1

Valid == CASE ui.page = "teacher" -> TeacherValid
           [] ui.page = "class" -> ClassValid
           [] ui.page = "challenges" -> ChallengesValid

\* The model has one submission in flight.
Submit ==
    /\ "submit" \in Offered /\ Valid /\ net = NoSubmission
    /\ ui' = [ui EXCEPT !.saving = TRUE, !.error = "none"]
    /\ net' = [state |-> "sent", filled |-> \A n \in Number : ui.questions[n].filled,
               miscounted |-> \E n \in Number : CorrectOptions(ui.questions[n]) # 1]
    /\ UNCHANGED srv

SubmitInvalid ==
    /\ "submit" \in Offered /\ ~Valid /\ ui.page # "teacher"
    /\ ui' = [ui EXCEPT !.error = "draft"]
    /\ UNCHANGED <<net, srv>>

\* The schema wants every text, the endpoint one correct option a question;
\* the questions it had added by then are rolled back.
ServeSubmit ==
    /\ net.state = "sent"
    /\ \/ net.filled /\ ~net.miscounted /\ net' = [net EXCEPT !.state = "made"]
       \/ net' = [net EXCEPT !.state = "refused"]      \* also when the topic is archived
    /\ srv' = [miscounted |-> srv.miscounted \/ net.miscounted]
    /\ UNCHANGED ui

\* onDone closes the teacher's form and reloads its page, whether or not the
\* form that sent it is still there; a dialog is closed, keeps its draft, and
\* counts as saving until the list has been loaded.
Submitted ==
    /\ net.state = "made"
    /\ ui' = IF ui.page = "teacher" THEN [EmptyForm("teacher") EXCEPT !.reloading = TRUE]
             ELSE [ui EXCEPT !.open = FALSE, !.reloading = TRUE]
    /\ net' = NoSubmission
    /\ UNCHANGED srv

\* Refused, or lost before or after it was served.  The error of a form that
\* has been unmounted is shown nowhere.
SubmitFails ==
    /\ net # NoSubmission
    /\ ui' = IF ui.saving THEN [ui EXCEPT !.saving = FALSE, !.error = "refused"] ELSE ui
    /\ net' = NoSubmission
    /\ UNCHANGED srv

-----------------------------------------------------------------------------
(* Reloads. *)

\* The teacher's page loads its data again when one of its challenges has
\* changed, and shows nothing else meanwhile: the form is unmounted.
PageReloads ==
    /\ ui.page = "teacher" /\ ~ui.reloading
    /\ ui' = [EmptyForm("teacher") EXCEPT !.open = ui.open, !.reloading = TRUE]
    /\ UNCHANGED <<net, srv>>

Reloaded ==
    /\ ui.reloading
    /\ ui' = [ui EXCEPT !.reloading = FALSE, !.saving = FALSE]
    /\ UNCHANGED <<net, srv>>

-----------------------------------------------------------------------------
Next ==
    \/ Open \/ Cancel \/ TypeTitle \/ AddQuestion \/ Submit \/ SubmitInvalid
    \/ ServeSubmit \/ Submitted \/ SubmitFails \/ PageReloads \/ Reloaded
    \/ \E n \in Number :
          \/ TypeQuestion(n) \/ RemoveQuestion(n) \/ AddOption(n)
          \/ \E i \in DOMAIN ui.questions[n].correct : SetCorrect(n, i) \/ RemoveOption(n, i)

Spec == Init /\ [][Next]_vars

-----------------------------------------------------------------------------
(* Properties. *)

\* Whatever questions and options are added, removed and marked, each question
\* of a draft has between two and four options and exactly one correct one, so
\* that the server never refuses a quiz for it (removeOption, setCorrect,
\* isValid against create_manual_challenge).
OneCorrectOption ==
    /\ \A n \in Number : /\ CorrectOptions(ui.questions[n]) = 1
                         /\ Len(ui.questions[n].correct) \in MinOptions .. MaxOptions
    /\ ~srv.miscounted
=============================================================================
