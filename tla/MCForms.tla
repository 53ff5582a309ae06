------------------------------ MODULE MCForms ------------------------------
(***************************************************************************)
(* The pages of the two web clients on which somebody enters or changes    *)
(* something or reads a list: a browser shows one of them, and each is a   *)
(* module of its own.  What is asked of them is that no step goes wrong.   *)
(***************************************************************************)
EXTENDS Naturals, TLC

CONSTANTS Questions, Options, MaxReloads, MaxLate, \* AttemptScreen
          CodePages, MaxCodes, MaxVerify,     \* OtpLogin
          MaxTurns, ActiveLimit,              \* ChatScreen
          Teachers,                           \* Enrolment
          MaxQuestions,                       \* QuizForms
          Subjects, MaxRequests,              \* Curriculum
          Entries, MaxInFlight,               \* TeacherLists
          SchoolClasses, MaxOpen,             \* ClassPicker
          Feed, MaxEvents, PageSize,          \* Feeds
          Selections, MaxVersion,             \* Reports
          MaxAsked                            \* Feeds and Reports

ASSUME FormsAssumption ==
    /\ {Questions, MaxCodes, MaxVerify, MaxTurns, ActiveLimit, MaxQuestions, MaxRequests,
        MaxInFlight, MaxOpen, MaxEvents, PageSize, MaxAsked} \subseteq Nat \ {0}
    /\ {MaxReloads, MaxLate, MaxVersion} \subseteq Nat
    /\ \A numbers \in {Options, Subjects, SchoolClasses, Feed, Selections} :
          numbers \subseteq Nat \ {0}
    /\ 1 \in Subjects      \* the subject of the class that is managed
    /\ Teachers # {}   \* a class is made with its maker as a teacher

VARIABLES screen, ui, net, srv
vars == <<screen, ui, net, srv>>

Attempt == INSTANCE AttemptScreen
Login == INSTANCE OtpLogin
Chat == INSTANCE ChatScreen
Enrol == INSTANCE Enrolment
Quiz == INSTANCE QuizForms
Class == INSTANCE Curriculum
Lists == INSTANCE TeacherLists
Picker == INSTANCE ClassPicker
Activity == INSTANCE Feeds
Report == INSTANCE Reports

Init ==
    \/ screen = "attempt" /\ Attempt!Init
    \/ screen = "login" /\ Login!Init
    \/ screen = "chat" /\ Chat!Init
    \/ screen = "enrol" /\ Enrol!Init
    \/ screen = "quiz" /\ Quiz!Init
    \/ screen = "class" /\ Class!Init
    \/ screen = "lists" /\ Lists!Init
    \/ screen = "picker" /\ Picker!Init
    \/ screen = "feed" /\ Activity!Init
    \/ screen = "report" /\ Report!Init

Next ==
    /\ \/ screen = "attempt" /\ Attempt!Next
       \/ screen = "login" /\ Login!Next
       \/ screen = "chat" /\ Chat!Next
       \/ screen = "enrol" /\ Enrol!Next
       \/ screen = "quiz" /\ Quiz!Next
       \/ screen = "class" /\ Class!Next
       \/ screen = "lists" /\ Lists!Next
       \/ screen = "picker" /\ Picker!Next
       \/ screen = "feed" /\ Activity!Next
       \/ screen = "report" /\ Report!Next
    /\ UNCHANGED screen

Spec == Init /\ [][Next]_vars

\* The pages on which a code is entered are alike.
Symmetry == Permutations(CodePages)

-----------------------------------------------------------------------------
(* Properties: each is a module's own, for the pages of that module. *)

\* Each page's state, its requests and what is stored keep their types.
TypeOK ==
    CASE screen = "attempt" -> Attempt!TypeOK
      [] screen = "login" -> Login!TypeOK
      [] screen = "chat" -> Chat!TypeOK
      [] screen = "enrol" -> Enrol!TypeOK
      [] screen = "quiz" -> Quiz!TypeOK
      [] screen = "class" -> Class!TypeOK
      [] screen = "lists" -> Lists!TypeOK
      [] screen = "picker" -> Picker!TypeOK
      [] screen = "feed" -> Activity!TypeOK
      [] screen = "report" -> Report!TypeOK

\* A choice the attempt page shows is the one that will be graded
\* (AttemptPage.jsx, selectOption and its roll back).
ShownIsStored == screen = "attempt" => Attempt!ShownIsStored

\* No finish the attempt page sends is refused for an unanswered question
\* (AttemptPage.jsx, goNext and handleFinish).
FinishIsComplete == screen = "attempt" => Attempt!FinishIsComplete

\* A code opens one session, though it may be entered twice at once
\* (domain.py, verify_otp).
CodeUsedOnce == screen = "login" => Login!CodeUsedOnce

\* A cooldown lets a second code through only for a request that overlapped the
\* first one's, and one for each (domain.py, request_otp).
OneCodePerCooldown == screen = "login" => Login!OneCodePerCooldown

\* The conversation on the page is in the order in which it is stored
\* (AiChatPage.jsx, handleSend).
ShownInOrder == screen = "chat" => Chat!ShownInOrder

\* No chain of redirects goes on for ever, except an administrator's
\* (ProtectedRoute.jsx and App.jsx).
RedirectsEnd == screen = "enrol" => Enrol!RedirectsEnd

\* A class loses its last teacher only when two removals overlap
\* (domain.py, remove_member).
LastTeacherStays == screen = "enrol" => Enrol!LastTeacherStays

\* Each question of a draft has exactly one correct option
\* (TeacherTopicPage.jsx, ClassDetailPage.jsx, ChallengesPage.jsx).
OneCorrectOption == screen = "quiz" => Quiz!OneCorrectOption

\* When nothing is in flight the lists of both clients show what is stored of
\* what is selected, and the selected class is one of those shown, but for the
\* cases the modules name (SubjectsPage.jsx, ClassDetailPage.jsx,
\* ChallengesPage.jsx, ClassContext.jsx, DashboardPage.jsx, AdminUsersPage.jsx,
\* AiJobsPage.jsx of one; TeacherClassDetailPage.jsx,
\* TeacherSubjectDetailPage.jsx and TeacherClassContext.jsx of the other).  A
\* list read page by page has no event twice, nor of another class, and leaves
\* none out (ActivityPage.jsx and TeacherActivityPage.jsx).
ShownIsCurrent ==
    /\ screen = "class" => Class!ShownIsCurrent
    /\ screen = "lists" => Lists!ShownIsCurrent
    /\ screen = "picker" => Picker!ShownIsCurrent
    /\ screen = "feed" => Activity!FeedIsWhole
    /\ screen = "report" => Report!ShownIsCurrent
=============================================================================
