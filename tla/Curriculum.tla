----------------------------- MODULE Curriculum -----------------------------
(***************************************************************************)
(* Managing a class in the administration client: the page of a class      *)
(* (ClassDetailPage.jsx), of its subjects and their topics                 *)
(* (SubjectsPage.jsx) and of all challenges (ChallengesPage.jsx), with the *)
(* endpoints they change (api/v1/subjects.py, api/v1/classes.py and        *)
(* api/routes/challenges.py).  Every change is followed by a load of the   *)
(* lists; a load is never cancelled, so that answers may arrive in another *)
(* order than they were asked for.  A subject has one topic and a topic    *)
(* one challenge here, and each bears the subject's number.                *)
(***************************************************************************)
EXTENDS Naturals, Sequences, SequencesExt

CONSTANTS Subjects,   \* numbers
          MaxRequests   \* loads and changes in flight at once, of which
                        \* at most one is a change

VARIABLES
    ui,    \* the page
    net,   \* its loads, in the order they were sent, and its changes
    srv    \* what is stored

vars == <<ui, net, srv>>

Pages == {"class", "subjects", "challenges"}
Classes == {1, 2}
Item == {"subject", "topic", "ready"} \X Subjects \cup {<<"member", 1>>}
Lists == {"main", "tail", "subjects", "topics", "register"}
Ops == {"remove", "saveSubject", "archiveSubject", "saveTopic", "archiveTopic",
        "archive", "publish"}
Load == [list : Lists, arg : Nat, served : BOOLEAN, found : SUBSET Item,
         late : SUBSET Lists, of : Ops \cup {"none"}]
Change == [op : Ops, item : Item, reply : {"none", "ok", "refused"}, arg : Nat]

TypeOK ==
    /\ ui \in [page : Pages, class : Classes, shown : SUBSET Item,
               selected : Subjects \cup {0},   \* the subject whose topics are shown
               chosen : BOOLEAN,               \* the dialogs have a topic to start from
               loading : BOOLEAN, error : BOOLEAN,
               dialog : [op : Ops \cup {"none"}, item : Item \cup {<<>>}],
               busy : SUBSET Ops,
               doubt : SUBSET Lists]           \* history: lists that may be wrong
    /\ \A k \in DOMAIN net.loads : net.loads[k] \in Load
    /\ net.ops \subseteq Change
    /\ srv \in [live : SUBSET Item, used : SUBSET Item, classOf : [Subjects -> Classes]]

Closed == [op |-> "none", item |-> <<>>]
NewLoad(list, arg, of) ==
    [list |-> list, arg |-> arg, served |-> FALSE, found |-> {},
     late |-> {}, of |-> of]

\* The lists of a page, and the one it loads when it is mounted.
ListsOf == [class |-> {"main", "tail"}, subjects |-> {"subjects", "topics"},
            challenges |-> {"register"}]
FirstList == [class |-> "main", subjects |-> "subjects", challenges |-> "register"]

\* What is stored at first.  The class of the class page has one subject, all
\* subjects of the subjects page are in class 1, and on the page of challenges
\* each class has one, with its topic.
Start(page) ==
    CASE page = "class" ->
           {[live |-> first, used |-> (Item \ {<<"subject", 1>>}) \cup first,
             classOf |-> [s \in Subjects |-> 1]] :
              first \in {first \in SUBSET {<<"member", 1>>, <<"subject", 1>>, <<"topic", 1>>} :
                           <<"topic", 1>> \in first => <<"subject", 1>> \in first}}
      [] page = "subjects" ->
           {[live |-> {<<"subject", 1>>},
             used |-> {<<"subject", 1>>} \cup ({"topic"} \X (Subjects \ {1})),
             classOf |-> [s \in Subjects |-> 1]]}
      [] page = "challenges" ->
           {[live |-> {"subject", "topic"} \X Subjects, used |-> Item,
             classOf |-> [s \in Subjects |-> IF s = 1 THEN 1 ELSE 2]]}

Mounted(page, class) ==
    [page |-> page, class |-> class, shown |-> {}, selected |-> 0, chosen |-> FALSE,
     loading |-> TRUE, error |-> FALSE, dialog |-> Closed, busy |-> {}, doubt |-> ListsOf[page]]

Init ==
    \E page \in Pages :
        /\ srv \in Start(page)
        /\ ui = Mounted(page, 1)
        /\ net = [loads |-> <<NewLoad(FirstList[page], 1, "none")>>, ops |-> {}]

-----------------------------------------------------------------------------
(* The server. *)

Kinds == [main |-> {"member", "subject"}, tail |-> {"ready"}, register |-> {"ready"},
          subjects |-> {"subject"}, topics |-> {"topic"}]
ClassOfItem(i) == IF i[1] = "member" THEN 1 ELSE srv.classOf[i[2]]

\* list_subjects and list_class_members, list_topics, list_challenges.
Stored(list, arg) ==
    {i \in srv.live : /\ i[1] \in Kinds[list]
                      /\ IF list = "topics" THEN i[2] = arg ELSE ClassOfItem(i) = arg}

\* Challenges are loaded topic by topic, and a topic that fails is left out: the
\* load is no better than a late one.
ServeLoad(k) ==
    LET load == net.loads[k]
        stored == Stored(load.list, load.arg)
    IN
    /\ ~load.served
    /\ \E found \in {stored} \cup (IF load.list \in {"tail", "register"}
                                   THEN SUBSET stored ELSE {}) :
          net' = [net EXCEPT !.loads[k] = [load EXCEPT !.served = TRUE, !.found = found,
                                  !.late = IF found = stored THEN @ ELSE @ \cup {load.list}]]
    /\ UNCHANGED <<ui, srv>>

\* archive_subject refuses a subject with active topics.
Refused(c) ==
    \/ c.op = "archiveSubject" /\ <<"topic", c.item[2]>> \in srv.live
    \/ c.op = "remove" /\ c.item \notin srv.live

ServeChange(c) ==
    /\ c.reply = "none"
    /\ IF Refused(c)
       THEN net' = [net EXCEPT !.ops = (@ \ {c}) \cup {[c EXCEPT !.reply = "refused"]}]
            /\ UNCHANGED srv
       ELSE /\ net' = [net EXCEPT !.ops = (@ \ {c}) \cup {[c EXCEPT !.reply = "ok"]}]
            /\ srv' = [srv EXCEPT
                 !.live = IF c.op \in {"saveSubject", "saveTopic"}
                          THEN IF c.item \in srv.used THEN @ ELSE @ \cup {c.item}
                          ELSE IF c.op = "publish" THEN @ \cup {c.item} ELSE @ \ {c.item},
                 !.used = @ \cup {c.item}]
    /\ UNCHANGED ui

-----------------------------------------------------------------------------
(* Loads. *)

Wanted(list, u) == IF list = "topics" THEN u.selected
                   ELSE IF u.page = "class" THEN 1 ELSE u.class

\* Answers that are late, or not for what the page shows, are shown all the same.
Doubt(load, u) ==
    IF load.list \in load.late \/ load.arg # Wanted(load.list, u)
    THEN u.doubt \cup {load.list} ELSE u.doubt \ {load.list}

Show(load, u) ==
    [u EXCEPT !.shown = {i \in @ : i[1] \notin Kinds[load.list]} \cup load.found,
              !.doubt = Doubt(load, u)]

\* Answering load k: the ones before it will be late.
Rest(k) ==
    LET list == net.loads[k].list
        lists == IF list = "main" THEN {"main", "tail"} ELSE {list}
    IN RemoveAt([j \in DOMAIN net.loads |->
           IF j < k THEN [net.loads[j] EXCEPT !.late = @ \cup lists] ELSE net.loads[j]], k)

Done(u, load) == [u EXCEPT !.loading = FALSE, !.busy = @ \ {load.of}]

\* fetchData of the class page: first the class, its members and its subjects.
ClassMainLoaded(k) ==
    LET load == net.loads[k] IN
    /\ load.list = "main"
    /\ ui' = Show(load, ui)
    /\ net' = [net EXCEPT !.loads =
                 Append(Rest(k), [NewLoad("tail", 1, load.of) EXCEPT !.late = load.late])]

\* Then the topics and the challenges; the first topic is chosen for the
\* dialogs, on which the load itself depends, so that it starts once more.
\* Saving a subject loads the classes as well, and with them the page.
ClassTailLoaded(k) ==
    LET load == net.loads[k]
        again == (~ui.chosen /\ load.found # {}) \/ load.of = "saveSubject"
    IN
    /\ load.list = "tail"
    /\ ui' = [Done(Show(load, ui), load) EXCEPT !.chosen = @ \/ load.found # {},
                                               !.loading = again]
    /\ net' = [net EXCEPT !.loads = IF again THEN Append(Rest(k), NewLoad("main", 1, "none"))
                                    ELSE Rest(k)]

Least(s) == CHOOSE m \in s : \A n \in s : m =< n
Numbers(items) == {i[2] : i \in items}

\* fetchSubjects keeps the selection if it can.  An effect loads the topics of
\* another one, and there are none without a subject.
SubjectsLoaded(k) ==
    LET load == net.loads[k]
        found == Numbers(load.found)
        selected == IF found = {} THEN 0
                    ELSE IF ui.selected \in found THEN ui.selected ELSE Least(found)
        u == [Done(Show(load, ui), load) EXCEPT !.selected = selected]
    IN
    /\ load.list = "subjects"
    /\ ui' = IF selected = 0
             THEN Show(NewLoad("topics", 0, "none"), u) ELSE u
    /\ net' = [net EXCEPT !.loads = IF selected \in {0, ui.selected} THEN Rest(k)
                                    ELSE Append(Rest(k), NewLoad("topics", selected, "none"))]

TopicsLoaded(k) ==
    /\ net.loads[k].list = "topics"
    /\ ui' = [Show(net.loads[k], ui) EXCEPT !.busy = @ \ {net.loads[k].of}]
    /\ net' = [net EXCEPT !.loads = Rest(k)]

\* fetchAllChallenges.
RegisterLoaded(k) ==
    LET load == net.loads[k]
        again == ~ui.chosen /\ load.found # {}
    IN
    /\ load.list = "register"
    /\ ui' = [Done(Show(load, ui), load) EXCEPT !.chosen = @ \/ load.found # {},
                                               !.loading = again]
    /\ net' = [net EXCEPT !.loads =
                 IF again THEN Append(Rest(k), NewLoad("register", ui.class, "none")) ELSE Rest(k)]

LoadAnswered(k) ==
    /\ net.loads[k].served
    /\ \/ ClassMainLoaded(k) \/ ClassTailLoaded(k) \/ SubjectsLoaded(k)
       \/ TopicsLoaded(k) \/ RegisterLoaded(k)
    /\ UNCHANGED srv

\* The topics are emptied and the challenges too, the other lists are kept.
LoadFails(k) ==
    LET load == net.loads[k]
        empty == load.list \in {"topics", "register"}
    IN
    /\ ui' = [Done(ui, load) EXCEPT
                !.error = @ \/ load.list = "register",
                !.loading = IF load.list = "topics" THEN ui.loading ELSE FALSE,
                !.shown = IF empty THEN {i \in @ : i[1] \notin Kinds[load.list]} ELSE @,
                !.doubt = @ \cup {load.list} \cup (IF load.list = "main" THEN {"tail"} ELSE {})]
    /\ net' = [net EXCEPT !.loads = Rest(k)]
    /\ UNCHANGED srv

-----------------------------------------------------------------------------
(* What the pages offer. *)

ShownOf(kind) == {i \in ui.shown : i[1] = kind}
Fresh(kind) == {i \in Item : i[1] = kind /\ i \notin srv.used}
Listed == {<<"ready", s>> : s \in {s \in Subjects : <<"topic", s>> \in srv.live}}
Toggle(i) == IF i \in ui.shown THEN "archive" ELSE "publish"

StudentsTab ==
    IF ui.loading THEN {} ELSE {<<"remove", i>> : i \in ShownOf("member")}

SubjectsTab ==
    {<<"saveSubject", i>> : i \in Fresh("subject")} \cup
    (IF ui.loading THEN {}
     ELSE {<<"archiveSubject", i>> : i \in ShownOf("subject")})

\* The challenges stay where they are while the page loads.
ChallengesTab == {<<Toggle(i), i>> : i \in Listed}

SubjectList ==
    {<<"saveSubject", i>> : i \in {i \in Fresh("subject") : srv.classOf[i[2]] = ui.class}} \cup
    (IF ui.loading THEN {} ELSE {<<"archiveSubject", i>> : i \in ShownOf("subject")})

TopicList ==
    IF ui.loading \/ ui.selected = 0 THEN {}
    ELSE {<<"saveTopic", i>> : i \in {i \in Fresh("topic") : i[2] = ui.selected}} \cup
         {<<"archiveTopic", i>> : i \in ShownOf("topic")}

ChallengeTable ==
    IF ui.loading \/ ui.error THEN {}
    ELSE {<<Toggle(i), i>> : i \in {i \in Listed : ClassOfItem(i) = ui.class}}

Offered == CASE ui.page = "class" -> StudentsTab \cup SubjectsTab \cup ChallengesTab
             [] ui.page = "subjects" -> SubjectList \cup TopicList
             [] ui.page = "challenges" -> ChallengeTable

-----------------------------------------------------------------------------
(* Changes. *)

Dialogs == Ops \ {"archive", "publish"}

OpenDialog(op, i) ==
    /\ ui.dialog = Closed /\ <<op, i>> \in Offered /\ op \in Dialogs
    /\ Len(net.loads) < MaxRequests
    /\ ui' = [ui EXCEPT !.dialog = [op |-> op, item |-> i]]
    /\ UNCHANGED <<net, srv>>

\* A button is disabled while its change is being made.
Enabled(op) == op \notin ui.busy

\* What the dialogs of the two pages that have some can confirm.
ClassDialogs == {op \in {"remove", "saveSubject", "archiveSubject"} : Enabled(op)}
SubjectsDialogs ==
    {op \in {"saveSubject", "archiveSubject", "saveTopic", "archiveTopic"} : Enabled(op)}
Confirms == IF ui.page = "class" THEN ClassDialogs ELSE SubjectsDialogs

\* Escape closes a dialog even while its change is being made.
CloseDialog ==
    /\ ui.dialog # Closed
    /\ ui' = [ui EXCEPT !.dialog = Closed]
    /\ UNCHANGED <<net, srv>>

Send(op, i) ==
    /\ net.ops = {} /\ Len(net.loads) < MaxRequests
    /\ net' = [net EXCEPT !.ops = @ \cup {[op |-> op, item |-> i, reply |-> "none",
                                           arg |-> IF op \in {"saveTopic", "archiveTopic"}
                                                  THEN ui.selected ELSE 0]}]
    /\ ui' = [ui EXCEPT !.busy = IF op \in Dialogs THEN @ \cup {op} ELSE @]
    /\ UNCHANGED srv

Confirm ==
    /\ ui.dialog # Closed /\ ui.dialog.op \in Confirms
    /\ Send(ui.dialog.op, ui.dialog.item)

ToggleStatus(i) ==
    /\ ui.dialog = Closed /\ <<Toggle(i), i>> \in Offered
    /\ Send(Toggle(i), i)

ClosedFor(op) == IF ui.dialog.op = op THEN Closed ELSE ui.dialog
Loads == net.loads
Without(c) == net.ops \ {c}

\* Mutant: the page of subjects does not load the topics after a change of one.
TopicsAgainBug(c) == <<>>

\* fetchTopics of the subject that was selected when the change was asked for.
TopicsAgain(c) == <<NewLoad("topics", c.arg, c.op)>>

OnClassChanged(c) ==
    /\ ui.page = "class"
    /\ net' = [loads |-> Append(Loads, NewLoad("main", 1, c.op)), ops |-> Without(c)]
    /\ ui' = [ui EXCEPT !.dialog = ClosedFor(c.op), !.loading = TRUE]

\* A new subject is selected, and its topics are loaded besides the subjects.
OnSubjectChanged(c) ==
    LET new == c.op = "saveSubject" IN
    /\ ui.page = "subjects" /\ c.op \in {"saveSubject", "archiveSubject"}
    /\ net' = [loads |-> Append(IF new THEN Append(Loads, NewLoad("topics", c.item[2], "none"))
                                ELSE Loads, NewLoad("subjects", ui.class, c.op)),
               ops |-> Without(c)]
    /\ ui' = [ui EXCEPT !.dialog = ClosedFor(c.op), !.loading = TRUE,
                        !.selected = IF new THEN c.item[2] ELSE @]

OnTopicChanged(c) ==
    /\ ui.page = "subjects" /\ c.op \in {"saveTopic", "archiveTopic"}
    /\ net' = [loads |-> Loads \o TopicsAgain(c), ops |-> Without(c)]
    /\ ui' = [ui EXCEPT !.dialog = ClosedFor(c.op)]

OnChallengeToggled(c) ==
    /\ ui.page = "challenges"
    /\ net' = [loads |-> Append(Loads, NewLoad("register", ui.class, c.op)), ops |-> Without(c)]
    /\ ui' = [ui EXCEPT !.loading = TRUE, !.error = FALSE]

ChangeAnswered(c) ==
    /\ c.reply = "ok"
    /\ OnClassChanged(c) \/ OnSubjectChanged(c) \/ OnTopicChanged(c) \/ OnChallengeToggled(c)
    /\ Len(net'.loads) =< MaxRequests
    /\ UNCHANGED srv

ListOf(c) == {l \in Lists : c.item[1] \in Kinds[l]}

\* Refused, or lost before or after it was served: the page says so and loads
\* nothing.  A load that is under way may have missed the change.
ChangeFails(c) ==
    LET missed == IF c.reply = "ok" THEN ListOf(c) ELSE {} IN
    /\ net' = [loads |-> [k \in DOMAIN Loads |-> [Loads[k] EXCEPT !.late = @ \cup missed]],
               ops |-> Without(c)]
    /\ ui' = [ui EXCEPT !.busy = @ \ {c.op}, !.doubt = @ \cup missed]
    /\ UNCHANGED srv

-----------------------------------------------------------------------------
(* Navigation. *)

SelectSubject(s) ==
    /\ ui.page = "subjects" /\ ~ui.loading /\ ui.dialog = Closed
    /\ <<"subject", s>> \in ui.shown /\ s # ui.selected /\ Len(net.loads) < MaxRequests
    /\ ui' = [ui EXCEPT !.selected = s]
    /\ net' = [net EXCEPT !.loads = Append(@, NewLoad("topics", s, "none"))]
    /\ UNCHANGED srv

\* The selector above the page, moved forward only.  The page of a class selects its own class again
\* as it loads.
SwitchClass(c) ==
    /\ c > ui.class /\ ui.dialog = Closed /\ Len(net.loads) < MaxRequests
    /\ ui' = [ui EXCEPT !.class = IF ui.page = "class" THEN @ ELSE c,
                        !.loading = TRUE, !.error = FALSE]
    /\ net' = [net EXCEPT !.loads = Append(@, NewLoad(FirstList[ui.page],
                                     IF ui.page = "class" THEN 1 ELSE c, "none"))]
    /\ UNCHANGED srv

\* The button above the page mounts it anew.  It is not used during a change.
Refresh ==
    /\ ui.dialog = Closed /\ net.ops = {}
    /\ ui' = Mounted(ui.page, ui.class)
    /\ net' = [net EXCEPT !.loads = <<NewLoad(FirstList[ui.page], ui.class, "none")>>]
    /\ UNCHANGED srv

-----------------------------------------------------------------------------
Next ==
    \/ \E k \in DOMAIN net.loads : ServeLoad(k) \/ LoadAnswered(k) \/ LoadFails(k)
    \/ \E c \in net.ops : ServeChange(c) \/ ChangeAnswered(c) \/ ChangeFails(c)
    \/ \E op \in Ops, i \in Item : OpenDialog(op, i)
    \/ CloseDialog \/ Confirm
    \/ \E i \in Item : ToggleStatus(i)
    \/ \E s \in Subjects : SelectSubject(s)
    \/ \E c \in Classes : SwitchClass(c)
    \/ Refresh

Spec == Init /\ [][Next]_vars

-----------------------------------------------------------------------------
(* Properties. *)

\* When nothing is in flight each list shows what is stored for the class or
\* the subject that is selected, though loads overlap: unless its last load
\* failed, even in part, came after the answer to a later one or was for
\* another selection, or the answer to a change was lost.
ShownIsCurrent ==
    net.loads = <<>> /\ net.ops = {} =>
        \A list \in ListsOf[ui.page] \ ui.doubt :
            {i \in ui.shown : i[1] \in Kinds[list]} = Stored(list, Wanted(list, ui))
=============================================================================
