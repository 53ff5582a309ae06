------------------------------- MODULE Feeds -------------------------------
(***************************************************************************)
(* The activity of a class, newest first and some events at a time:        *)
(* ActivityPage.jsx of the administration client, where a load may be      *)
(* overtaken by another, and TeacherActivityPage.jsx of the student client *)
(* with its ClassSwitcher.jsx; the endpoint is teacher_activity of         *)
(* routes/teacher.py.  Time is a number; an event is its time.             *)
(***************************************************************************)
EXTENDS Naturals, Sequences, FiniteSets, SequencesExt

CONSTANTS Feed,       \* classes, or types of events: numbers
          MaxEvents,  \* times
          PageSize,   \* events an answer brings
          MaxAsked    \* requests at once

VARIABLES
    ui,    \* the page
    net,   \* its requests; those that are alike count as one
    srv    \* the events

vars == <<ui, net, srv>>

Events == 1 .. MaxEvents

TypeOK ==
    /\ ui.page \in {"activity", "teacher"} /\ ui.feed \in Feed
    /\ \A i \in DOMAIN ui.items : ui.items[i] \in Events
    /\ ui.cursor \in 0 .. MaxEvents            \* 0: nothing older is left
    /\ {ui.loading, ui.more, ui.error, ui.mixed} \subseteq BOOLEAN
    /\ \A r \in net : r.feed \in Feed /\ r.cursor \in 0 .. MaxEvents
                      /\ {r.append, r.served} \subseteq BOOLEAN
                      /\ Len(r.items) =< PageSize
    /\ srv.of \in [Events -> Feed \cup {0}]    \* 0: not stored (yet)
    /\ srv.late \subseteq Events               \* history: stored after a newer one

Request(feed, cursor, append) ==
    [feed |-> feed, cursor |-> cursor, append |-> append,
     served |-> FALSE, items |-> <<>>, next |-> 0]

Init ==
    \E page \in {"activity", "teacher"}, feed \in Feed :
        /\ ui = [page |-> page, feed |-> feed, items |-> <<>>, cursor |-> 0,
                 loading |-> TRUE, more |-> FALSE, error |-> FALSE, mixed |-> FALSE]
        /\ net = {Request(feed, 0, FALSE)}
        /\ srv = [of |-> [e \in Events |-> 0], late |-> {}]

Portal == ui.page = "activity"

-----------------------------------------------------------------------------
(* The server. *)

\* A transaction stores its event some time after it has taken the time.
StoreEvent(e, feed) ==
    /\ srv.of[e] = 0
    /\ srv' = [of |-> [srv.of EXCEPT ![e] = feed],
               late |-> IF \E newer \in Events : newer > e /\ srv.of[newer] = feed
                        THEN srv.late \cup {e} ELSE srv.late]
    /\ UNCHANGED <<ui, net>>

\* The newest of the events found, newest first, as many as an answer brings.
Newest(found) ==
    {items \in SeqOf(found, PageSize) :
       /\ \A i, j \in DOMAIN items : i < j => items[i] > items[j]
       /\ \A e \in found \ Range(items) :
             Len(items) = PageSize /\ \A i \in DOMAIN items : items[i] > e}

\* teacher_activity: one event more than a page tells whether more are left.
Serve(r) ==
    LET found == {e \in Events : srv.of[e] = r.feed /\ (r.cursor = 0 \/ e < r.cursor)} IN
    /\ ~r.served
    /\ \E items \in Newest(found) :
          net' = (net \ {r}) \cup
                 {[r EXCEPT !.served = TRUE, !.items = items,
                            !.next = IF Range(items) = found THEN 0 ELSE Last(items)]}
    /\ UNCHANGED <<ui, srv>>

-----------------------------------------------------------------------------
(* The page. *)

Load(feed) ==
    /\ Cardinality(net) < MaxAsked
    /\ ui' = [ui EXCEPT !.feed = feed, !.loading = TRUE, !.error = FALSE, !.mixed = net # {}]
    /\ net' = net \cup {Request(feed, 0, FALSE)}
    /\ UNCHANGED srv

\* The selector of the class and of the type stay while events are loaded; that
\* of the student client is gone then, and when a load failed.
Choose(feed) ==
    /\ feed # ui.feed /\ (Portal \/ ~(ui.loading \/ ui.error))
    /\ Load(feed)

\* Only the administration client has a button to refresh; the other loads
\* again when a load failed.
Refresh == ~ui.loading /\ (Portal \/ ui.error) /\ Load(ui.feed)

\* handleLoadMore and loadMore, at the end of the list.
LoadMore ==
    /\ ~ui.loading /\ ~ui.error /\ ui.items # <<>> /\ ui.cursor # 0 /\ ~ui.more
    /\ Cardinality(net) < MaxAsked
    /\ ui' = [ui EXCEPT !.more = TRUE]
    /\ net' = net \cup {Request(ui.feed, ui.cursor, TRUE)}
    /\ UNCHANGED srv

\* The administration client ends both kinds of waiting with either answer.
Ended(r, u) ==
    [u EXCEPT !.loading = @ /\ ~Portal /\ r.append, !.more = @ /\ ~Portal /\ ~r.append]

Arrives(r) ==
    /\ r.served
    /\ ui' = Ended(r, [ui EXCEPT !.items = IF r.append THEN @ \o r.items ELSE r.items,
                                 !.cursor = r.next])
    /\ net' = net \ {r}
    /\ UNCHANGED srv

\* A failed page of older events takes the whole list away in the
\* administration client and leaves it in the other.
Fails(r) ==
    /\ ui' = Ended(r, [ui EXCEPT !.error = @ \/ Portal \/ ~r.append])
    /\ net' = net \ {r}
    /\ UNCHANGED srv

Next ==
    \/ \E e \in Events, feed \in Feed : StoreEvent(e, feed)
    \/ \E r \in net : Serve(r) \/ Arrives(r) \/ Fails(r)
    \/ \E feed \in Feed : Choose(feed)
    \/ Refresh \/ LoadMore

Spec == Init /\ [][Next]_vars

-----------------------------------------------------------------------------
(* Properties. *)

\* The list that is shown is the activity of the class selected, newest first,
\* with no event twice and none left out but those stored after a newer one,
\* however many come in while somebody pages back: unless a request was in
\* flight when the list was last begun anew, whose answer may come in later.
FeedIsWhole ==
    LET n == Len(ui.items)
        oldest == IF ui.cursor = 0 THEN 0 ELSE ui.items[n]
        feed == srv.of[ui.items[1]]
    IN  ui.mixed \/ ui.loading \/ ui.error \/ n = 0
        \/ /\ \A i \in 1 .. n : srv.of[ui.items[i]] = feed
           /\ \A i \in 1 .. n - 1 : ui.items[i] > ui.items[i + 1]
           /\ \A e \in Events : srv.of[e] = feed /\ oldest < e /\ e < ui.items[1] =>
                 e \in srv.late \cup Range(ui.items)
           /\ feed = ui.feed
=============================================================================
