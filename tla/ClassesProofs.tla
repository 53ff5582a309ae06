---------------------------- MODULE ClassesProofs ----------------------------
(* What the pages show that choose a class and manage it, for any number of *)
(* classes, subjects and loads: an inductive invariant of each, in the terms *)
(* of ClassPicker and of Curriculum.  ListsProofs states what follows.       *)
EXTENDS MCForms, TLAPS, FiniteSetTheorems, SequenceTheorems, FunctionTheorems

\* What is left of a sequence without one of its elements.
LEMMA WithoutLoad ==
    ASSUME NEW S, NEW s \in Seq(S), NEW i \in 1 .. Len(s)
    PROVE  /\ Class!RemoveAt(s, i) \in Seq(S)
           /\ Len(Class!RemoveAt(s, i)) = Len(s) - 1
           /\ \A j \in 1 .. Len(s) - 1 :
                 Class!RemoveAt(s, i)[j] = IF j < i THEN s[j] ELSE s[j + 1]
<1>1. PICK a, b : a = SubSeq(s, 1, i - 1) /\ b = SubSeq(s, i + 1, Len(s))
    OBVIOUS
<1>2. Class!RemoveAt(s, i) = a \o b
    BY <1>1 DEF Class!RemoveAt
<1>3. a \in Seq(S) /\ Len(a) = i - 1 /\ \A j \in 1 .. i - 1 : a[j] = s[j]
    BY <1>1
<1>4. b \in Seq(S) /\ Len(b) = Len(s) - i /\ \A j \in 1 .. Len(s) - i : b[j] = s[i + j]
    BY <1>1
<1>a. /\ a \o b \in Seq(S) /\ Len(a \o b) = Len(a) + Len(b)
      /\ \A j \in 1 .. Len(a) + Len(b) :
            (a \o b)[j] = IF j =< Len(a) THEN a[j] ELSE b[j - Len(a)]
    BY <1>3, <1>4, ConcatProperties, Zenon
<1>5. /\ a \o b \in Seq(S) /\ Len(a \o b) = Len(s) - 1
      /\ \A j \in 1 .. Len(a) + Len(b) :
            (a \o b)[j] = IF j =< Len(a) THEN a[j] ELSE b[j - Len(a)]
    BY <1>3, <1>4, <1>a
<1>6. ASSUME NEW j \in 1 .. Len(s) - 1
      PROVE  (a \o b)[j] = IF j < i THEN s[j] ELSE s[j + 1]
    <2>1. CASE j < i
        BY <1>3, <1>4, <1>5, <2>1
    <2>2. CASE ~(j < i)
        <3>1. (a \o b)[j] = b[j - (i - 1)] /\ j - (i - 1) \in 1 .. Len(s) - i
            BY <1>3, <1>4, <1>5, <2>2
        <3>2. i + (j - (i - 1)) = j + 1
            OBVIOUS
        <3> QED
            BY <1>4, <2>2, <3>1, <3>2
    <2> QED
        BY <2>1, <2>2
<1> QED
    BY <1>2, <1>5, <1>6

-----------------------------------------------------------------------------
(* The classes of a teacher.                                               *)

PickerPage ==
    [page : Picker!Pages, shown : SUBSET SchoolClasses, selected : Picker!MaybeClass,
     kept : Picker!MaybeClass, loading : BOOLEAN, error : BOOLEAN, open : BOOLEAN,
     filled : BOOLEAN, busy : BOOLEAN, refused : BOOLEAN, created : Picker!MaybeClass,
     doubt : BOOLEAN]

PickerLoads == Seq(Picker!Load)
PickerCalls == [loads : PickerLoads, creations : SUBSET Picker!Creation]

PickerStore ==
    [live : SUBSET SchoolClasses, used : SUBSET SchoolClasses, overtaken : BOOLEAN]

\* A class is stored whose answer will have the classes loaded.
ClassPending(creations) == \E c \in creations : c.reply = "ok"

\* What was created is there, and a request of the administration client works
\* with what is selected: unless one was overtaken.
LoadFits(load, page, store) ==
    store.overtaken \/
        /\ load.after = "create" =>
              /\ load.id \in store.live
              /\ load.served => load.late \/ load.id \in load.found
        /\ page.page = "portal" => load.selected = page.selected

CreationFits(c, page, store) ==
    store.overtaken \/ /\ c.reply = "ok" => c.id \in store.live
                       /\ page.page = "portal" => c.selected = page.selected

\* The last load brings the classes as they are, unless another will follow.
LastFits(loads, creations, page, store) ==
    Len(loads) > 0 =>
        LET load == loads[Len(loads)] IN
        load.served => \/ load.late \/ load.found = store.live
                       \/ ClassPending(creations) \/ page.error

SelectedFits(page, overtaken) ==
    \/ overtaken \/ page.selected \in page.shown
    \/ page.shown = {} /\ page.selected = 0

\* What is shown when nothing more will be loaded.
PickerSettled(page, loads, creations, store) ==
    Len(loads) = 0 /\ ~page.error /\ ~page.doubt /\ ~ClassPending(creations) =>
        page.shown = store.live /\ SelectedFits(page, store.overtaken)

\* The class whose code the administration client shows.
CodeFits(page, loads, creations, store) ==
    page.page = "portal" /\ page.open /\ page.created # 0 =>
        \/ store.overtaken \/ page.created \in store.live
        \/ Len(loads) = 0 /\ creations = {} /\ page.doubt

PickerInv ==
    /\ ui \in PickerPage /\ net \in PickerCalls /\ srv \in PickerStore
    /\ IsFiniteSet(net.creations) /\ ui.kept = ui.selected
    /\ \A k \in 1 .. Len(net.loads) : LoadFits(net.loads[k], ui, srv)
    /\ \A c \in net.creations : CreationFits(c, ui, srv)
    /\ LastFits(net.loads, net.creations, ui, srv)
    /\ PickerSettled(ui, net.loads, net.creations, srv)
    /\ CodeFits(ui, net.loads, net.creations, srv)

LEMMA PickerBounds ==
    ASSUME FormsAssumption
    PROVE  /\ 0 \notin SchoolClasses /\ 0 \in Picker!MaybeClass
           /\ SchoolClasses \subseteq Picker!MaybeClass
BY DEF FormsAssumption, Picker!MaybeClass

LEMMA PickerLoadsAre ==
    ASSUME NEW loads \in PickerLoads
    PROVE  /\ Len(loads) \in Nat /\ DOMAIN loads = 1 .. Len(loads)
           /\ \A k \in 1 .. Len(loads) : loads[k] \in Picker!Load
BY DEF PickerLoads

LEMMA PickerLoadsMade ==
    ASSUME NEW n \in Nat, NEW loads \in [1 .. n -> Picker!Load]
    PROVE  loads \in PickerLoads /\ Len(loads) = n
BY DEF PickerLoads

LEMMA PickerRemoveAt ==
    ASSUME NEW loads \in PickerLoads, NEW k \in 1 .. Len(loads)
    PROVE  /\ Picker!RemoveAt(loads, k) \in PickerLoads
           /\ Len(Picker!RemoveAt(loads, k)) = Len(loads) - 1
           /\ \A j \in 1 .. Len(loads) - 1 :
                 Picker!RemoveAt(loads, k)[j] = IF j < k THEN loads[j] ELSE loads[j + 1]
<1>1. Picker!RemoveAt(loads, k) = Class!RemoveAt(loads, k)
    BY DEF Picker!RemoveAt, Class!RemoveAt
<1>2. loads \in Seq(Picker!Load)
    BY DEF PickerLoads
<1> QED
    BY <1>1, <1>2, WithoutLoad DEF PickerLoads

-----------------------------------------------------------------------------
(* What a step leaves of the requests.                                     *)

SameLoad(old, new) ==
    /\ new.after = old.after /\ new.id = old.id /\ new.selected = old.selected
    /\ new.served = old.served /\ new.found = old.found
    /\ old.late => new.late

SameCreation(c, d) == d.reply = c.reply /\ d.id = c.id /\ d.selected = c.selected

SameCreations(old, new) ==
    /\ \A d \in new : \E c \in old : SameCreation(c, d)
    /\ \A c \in old : \E d \in new : SameCreation(c, d)

\* What a step changes of the selection and of what is stored.
Goes(page, store, page2, store2) ==
    /\ page2.page = page.page
    /\ store2.overtaken \/ /\ ~store.overtaken /\ store.live \subseteq store2.live
                           /\ page.page = "portal" => page2.selected = page.selected

LEMMA LoadStays ==
    ASSUME NEW old, NEW new, NEW page, NEW store, NEW page2, NEW store2,
           LoadFits(old, page, store), SameLoad(old, new),
           Goes(page, store, page2, store2)
    PROVE  LoadFits(new, page2, store2)
<1>1. CASE store2.overtaken
    BY <1>1 DEF LoadFits
<1>2. CASE ~store2.overtaken
    <2>1. /\ ~store.overtaken /\ store.live \subseteq store2.live /\ page2.page = page.page
          /\ page.page = "portal" => page2.selected = page.selected
        BY <1>2 DEF Goes
    <2>2. /\ old.after = "create" =>
                /\ old.id \in store.live
                /\ old.served => old.late \/ old.id \in old.found
          /\ page.page = "portal" => old.selected = page.selected
        BY <2>1 DEF LoadFits
    <2>3. new.after = "create" => new.id \in store2.live
        BY <2>1, <2>2 DEF SameLoad
    <2>4. new.after = "create" /\ new.served => new.late \/ new.id \in new.found
        BY <2>2 DEF SameLoad
    <2>5. page2.page = "portal" => new.selected = page2.selected
        BY <2>1, <2>2 DEF SameLoad
    <2> QED
        BY <2>3, <2>4, <2>5, Zenon DEF LoadFits
<1> QED
    BY <1>1, <1>2

LEMMA CreationStays ==
    ASSUME NEW c, NEW d, NEW page, NEW store, NEW page2, NEW store2,
           CreationFits(c, page, store), SameCreation(c, d),
           Goes(page, store, page2, store2)
    PROVE  CreationFits(d, page2, store2)
BY DEF CreationFits, SameCreation, Goes

LEMMA PendingStays ==
    ASSUME NEW old, NEW new, SameCreations(old, new)
    PROVE  ClassPending(old) <=> ClassPending(new)
BY DEF SameCreations, SameCreation, ClassPending

\* The creations, when some of the pages that wait for them are gone.
LEMMA CreationsLeft ==
    ASSUME NEW old \in SUBSET Picker!Creation, IsFiniteSet(old),
           NEW mounted \in [old -> BOOLEAN]
    PROVE  LET new == {[c EXCEPT !.mounted = mounted[c]] : c \in old} IN
           /\ new \in SUBSET Picker!Creation /\ IsFiniteSet(new)
           /\ SameCreations(old, new)
<1>1. PICK f : f = [c \in old |-> [c EXCEPT !.mounted = mounted[c]]]
    OBVIOUS
<1>2. PICK new : new = {[c EXCEPT !.mounted = mounted[c]] : c \in old}
    OBVIOUS
<1>3. ASSUME NEW c \in old
      PROVE  f[c] \in Picker!Creation /\ SameCreation(c, f[c])
    <2>1. c \in Picker!Creation /\ mounted[c] \in BOOLEAN
        OBVIOUS
    <2>2. f[c] = [c EXCEPT !.mounted = mounted[c]]
        BY <1>1
    <2> QED
        BY <2>1, <2>2 DEF Picker!Creation, SameCreation
<1>4. f \in [old -> new] /\ \A d \in new : \E c \in old : f[c] = d
    BY <1>1, <1>2
<1>5. new \in SUBSET Picker!Creation /\ SameCreations(old, new)
    BY <1>3, <1>4 DEF SameCreations
<1>6. f \in Surjection(old, new)
    BY <1>4, Fun_IsSurj
<1>7. IsFiniteSet(new)
    BY <1>6, FS_Surjection
<1> QED
    BY <1>2, <1>5, <1>7

LEMMA CreationsHidden ==
    ASSUME NEW old \in SUBSET Picker!Creation, IsFiniteSet(old)
    PROVE  LET new == {Picker!HiddenFor(c) : c \in old} IN
           /\ new \in SUBSET Picker!Creation /\ IsFiniteSet(new)
           /\ SameCreations(old, new)
<1>1. PICK portal \in BOOLEAN : portal = Picker!Portal
    BY DEF Picker!Portal
<1>2. PICK mounted : mounted = [c \in old |-> c.mounted /\ portal]
    OBVIOUS
<1>3. mounted \in [old -> BOOLEAN]
    BY <1>2
<1>4. ASSUME NEW c \in old
      PROVE  Picker!HiddenFor(c) = [c EXCEPT !.mounted = mounted[c]]
    <2>1. c \in Picker!Creation /\ mounted[c] = (c.mounted /\ portal)
        BY <1>2
    <2> QED
        BY <1>1, <2>1 DEF Picker!HiddenFor, Picker!Creation
<1>5. {Picker!HiddenFor(c) : c \in old} = {[c EXCEPT !.mounted = mounted[c]] : c \in old}
    BY <1>4
<1> QED
    BY <1>3, <1>5, CreationsLeft

LEMMA CreationsDetached ==
    ASSUME NEW old \in SUBSET Picker!Creation, IsFiniteSet(old)
    PROVE  LET new == {[c EXCEPT !.mounted = FALSE] : c \in old} IN
           /\ new \in SUBSET Picker!Creation /\ IsFiniteSet(new)
           /\ SameCreations(old, new)
<1>1. PICK mounted : mounted = [c \in old |-> FALSE]
    OBVIOUS
<1>2. mounted \in [old -> BOOLEAN]
    BY <1>1
<1>3. {[c EXCEPT !.mounted = FALSE] : c \in old}
         = {[c EXCEPT !.mounted = mounted[c]] : c \in old}
    BY <1>1
<1> QED
    BY <1>2, <1>3, CreationsLeft

\* Leaving the page: the same requests, and nobody waits for them.
LEMMA PickerDetached ==
    ASSUME NEW calls \in PickerCalls, IsFiniteSet(calls.creations)
    PROVE  LET new == Picker!Detached(calls) IN
           /\ new \in PickerCalls /\ Len(new.loads) = Len(calls.loads)
           /\ \A k \in 1 .. Len(calls.loads) :
                 /\ SameLoad(calls.loads[k], new.loads[k])
                 /\ new.loads[k].late = calls.loads[k].late
           /\ IsFiniteSet(new.creations) /\ SameCreations(calls.creations, new.creations)
<1>1. PICK n \in Nat : /\ n = Len(calls.loads) /\ DOMAIN calls.loads = 1 .. n
                       /\ \A k \in 1 .. n : calls.loads[k] \in Picker!Load
    BY PickerLoadsAre DEF PickerCalls
<1>2. PICK loads : loads = [k \in 1 .. n |-> [calls.loads[k] EXCEPT !.mounted = FALSE]]
    OBVIOUS
<1>3. ASSUME NEW k \in 1 .. n
      PROVE  /\ loads[k] \in Picker!Load /\ SameLoad(calls.loads[k], loads[k])
             /\ loads[k].late = calls.loads[k].late
    <2>1. PICK l \in Picker!Load : l = calls.loads[k]
        BY <1>1
    <2>2. loads[k] = [l EXCEPT !.mounted = FALSE]
        BY <1>2, <2>1
    <2> QED
        BY <2>1, <2>2 DEF Picker!Load, SameLoad
<1>4. loads \in PickerLoads /\ Len(loads) = n
    BY <1>2, <1>3, PickerLoadsMade
<1>5. PICK creations : creations = {[c EXCEPT !.mounted = FALSE] : c \in calls.creations}
    OBVIOUS
<1>6. calls.creations \in SUBSET Picker!Creation
    BY DEF PickerCalls
<1>7. /\ creations \in SUBSET Picker!Creation /\ IsFiniteSet(creations)
      /\ SameCreations(calls.creations, creations)
    BY <1>5, <1>6, CreationsDetached
<1>8. Picker!Detached(calls) = [loads |-> loads, creations |-> creations]
    BY <1>1, <1>2, <1>5 DEF Picker!Detached
<1> QED
    BY <1>1, <1>3, <1>4, <1>7, <1>8 DEF PickerCalls

\* Ending a load: those that were sent before an answer are late.
LEMMA PickerEnded ==
    ASSUME net \in PickerCalls, IsFiniteSet(net.creations), NEW k \in 1 .. Len(net.loads),
           NEW answered \in BOOLEAN, Picker!Ended(k, answered)
    PROVE  /\ net' \in PickerCalls /\ Len(net'.loads) = Len(net.loads) - 1
           /\ IsFiniteSet(net'.creations) /\ SameCreations(net.creations, net'.creations)
           /\ \A j \in 1 .. Len(net.loads) - 1 :
                 /\ j < k => /\ SameLoad(net.loads[j], net'.loads[j])
                             /\ answered => net'.loads[j].late
                 /\ j >= k => SameLoad(net.loads[j + 1], net'.loads[j])
<1>1. PICK n \in Nat : /\ n = Len(net.loads) /\ DOMAIN net.loads = 1 .. n
                       /\ \A j \in 1 .. n : net.loads[j] \in Picker!Load
    BY PickerLoadsAre DEF PickerCalls
<1>2. PICK late : late = [j \in 1 .. n |-> net.loads[j].late \/ (answered /\ j < k)]
    OBVIOUS
<1>3. PICK marked : marked = [j \in 1 .. n |-> [net.loads[j] EXCEPT !.late = late[j]]]
    OBVIOUS
<1>4. ASSUME NEW j \in 1 .. n
      PROVE  /\ marked[j] \in Picker!Load /\ SameLoad(net.loads[j], marked[j])
             /\ answered /\ j < k => marked[j].late
             /\ marked[j] = [net.loads[j] EXCEPT !.late = @ \/ (answered /\ j < k)]
    <2>1. PICK l \in Picker!Load : l = net.loads[j]
        BY <1>1
    <2>2. late[j] = (l.late \/ (answered /\ j < k)) /\ late[j] \in BOOLEAN
        BY <1>2, <2>1
    <2>3. marked[j] = [l EXCEPT !.late = late[j]]
        BY <1>3, <2>1
    <2>4. marked[j] \in Picker!Load /\ SameLoad(l, marked[j]) /\ marked[j].late = late[j]
        BY <2>2, <2>3 DEF Picker!Load, SameLoad
    <2>5. marked[j] = [l EXCEPT !.late = @ \/ (answered /\ j < k)]
        BY <2>2, <2>3 DEF Picker!Load
    <2> QED
        BY <2>1, <2>2, <2>4, <2>5
<1>5. marked \in PickerLoads /\ Len(marked) = n
    BY <1>3, <1>4, PickerLoadsMade
<1>6. marked = [j \in DOMAIN net.loads |->
                  [net.loads[j] EXCEPT !.late = @ \/ (answered /\ j < k)]]
    BY <1>1, <1>3, <1>4
<1>7. PICK left : left = Picker!RemoveAt(marked, k)
    OBVIOUS
<1>8. /\ left \in PickerLoads /\ Len(left) = n - 1
      /\ \A j \in 1 .. n - 1 : left[j] = IF j < k THEN marked[j] ELSE marked[j + 1]
    BY <1>1, <1>5, <1>7, PickerRemoveAt
<1>9. PICK rest : rest = [net EXCEPT !.loads = left]
    OBVIOUS
<1>10. rest \in PickerCalls /\ rest.loads = left /\ rest.creations = net.creations
    <2>1. net \in [loads : PickerLoads, creations : SUBSET Picker!Creation]
        BY DEF PickerCalls
    <2>2. rest = [net EXCEPT !.loads = left] /\ left \in PickerLoads
        BY <1>8, <1>9
    <2>3. /\ rest \in [loads : PickerLoads, creations : SUBSET Picker!Creation]
          /\ rest.loads = left /\ rest.creations = net.creations
        BY <2>1, <2>2
    <2> QED
        BY <2>3 DEF PickerCalls
<1>11. net' = IF net.loads[k].after = "sync" THEN Picker!Detached(rest) ELSE rest
    <2>1. left = Picker!RemoveAt([j \in DOMAIN net.loads |->
                     [net.loads[j] EXCEPT !.late = @ \/ (answered /\ j < k)]], k)
        BY <1>6, <1>7
    <2> QED
        BY <1>9, <2>1, Zenon DEF Picker!Ended
<1>12. ASSUME NEW j \in 1 .. n - 1
       PROVE  /\ j < k => SameLoad(net.loads[j], left[j]) /\ (answered => left[j].late)
              /\ j >= k => SameLoad(net.loads[j + 1], left[j])
    <2>1. j \in 1 .. n /\ j + 1 \in 1 .. n /\ (j < k \/ j >= k) /\ ~(j < k /\ j >= k)
        BY <1>1
    <2> QED
        BY <1>4, <1>8, <2>1
<1>13. CASE net.loads[k].after # "sync"
    <2>1. net' = rest
        BY <1>11, <1>13
    <2>2. SameCreations(net.creations, net.creations)
        BY DEF SameCreations, SameCreation
    <2> QED
        BY <1>1, <1>8, <1>10, <1>12, <2>1, <2>2
<1>14. CASE net.loads[k].after = "sync"
    <2>1. net' = Picker!Detached(rest)
        BY <1>11, <1>14
    <2>2. /\ net' \in PickerCalls /\ Len(net'.loads) = n - 1
          /\ \A j \in 1 .. n - 1 : /\ SameLoad(left[j], net'.loads[j])
                                   /\ net'.loads[j].late = left[j].late
          /\ IsFiniteSet(net'.creations) /\ SameCreations(net.creations, net'.creations)
        BY <1>8, <1>10, <2>1, PickerDetached
    <2>3. ASSUME NEW j \in 1 .. n - 1
          PROVE  /\ j < k => /\ SameLoad(net.loads[j], net'.loads[j])
                             /\ answered => net'.loads[j].late
                 /\ j >= k => SameLoad(net.loads[j + 1], net'.loads[j])
        <3>1. SameLoad(left[j], net'.loads[j]) /\ net'.loads[j].late = left[j].late
            BY <2>2
        <3>2. CASE j < k
            <4>1. SameLoad(net.loads[j], left[j]) /\ (answered => left[j].late)
                BY <1>12, <3>2
            <4>2. SameLoad(net.loads[j], net'.loads[j])
                BY <3>1, <4>1 DEF SameLoad
            <4>3. ~(j >= k)
                BY <1>1, <3>2
            <4> QED
                BY <3>1, <4>1, <4>2, <4>3, Zenon
        <3>3. CASE ~(j < k)
            <4>1. SameLoad(net.loads[j + 1], left[j])
                BY <1>1, <1>12, <3>3
            <4>2. SameLoad(net.loads[j + 1], net'.loads[j])
                BY <3>1, <4>1 DEF SameLoad
            <4> QED
                BY <3>3, <4>2
        <3> QED
            BY <3>2, <3>3
    <2> QED
        BY <1>1, <2>2, <2>3
<1> QED
    BY <1>13, <1>14

\* The loads that are left fit, and the last of them brings the classes.
LEMMA PickerLeft ==
    ASSUME PickerInv, NEW k \in 1 .. Len(net.loads), NEW answered \in BOOLEAN,
           Picker!Ended(k, answered), srv'.live = srv.live, ui'.page = ui.page,
           srv.overtaken => srv'.overtaken,
           net'.loads # <<>> \/ net'.creations # {} =>
               Goes(ui, srv, ui', srv'),
           IF answered THEN ui'.error = ui.error ELSE ui'.error
    PROVE  /\ \A j \in 1 .. Len(net'.loads) : LoadFits(net'.loads[j], ui', srv')
           /\ \A c \in net'.creations : CreationFits(c, ui', srv')
           /\ LastFits(net'.loads, net'.creations, ui', srv')
<1>1. net \in PickerCalls /\ IsFiniteSet(net.creations) /\ ui \in PickerPage
    BY DEF PickerInv
<1>2. PICK n \in Nat : n = Len(net.loads) /\ n > 0 /\ k \in 1 .. n
    BY <1>1, PickerLoadsAre DEF PickerCalls
<1>3. /\ net' \in PickerCalls /\ Len(net'.loads) = n - 1
      /\ SameCreations(net.creations, net'.creations)
      /\ \A j \in 1 .. n - 1 :
            /\ j < k => /\ SameLoad(net.loads[j], net'.loads[j])
                        /\ answered => net'.loads[j].late
            /\ j >= k => SameLoad(net.loads[j + 1], net'.loads[j])
    BY <1>1, <1>2, PickerEnded
<1>4. ASSUME NEW j \in 1 .. n - 1 PROVE LoadFits(net'.loads[j], ui', srv')
    <2>1. PICK i \in 1 .. n : SameLoad(net.loads[i], net'.loads[j])
        <3>1. j \in 1 .. n /\ j + 1 \in 1 .. n /\ (j < k \/ j >= k)
            BY <1>2
        <3> QED
            BY <1>3, <3>1
    <2>2. LoadFits(net.loads[i], ui, srv)
        BY <1>2 DEF PickerInv
    <2>3. net'.loads # <<>>
        <3>1. Len(net'.loads) # 0
            BY <1>2, <1>3, <1>4
        <3> QED
            BY <3>1
    <2> QED
        BY <2>1, <2>2, <2>3, LoadStays
<1>5. ASSUME NEW d \in net'.creations PROVE CreationFits(d, ui', srv')
    <2>1. PICK c \in net.creations : SameCreation(c, d)
        BY <1>3 DEF SameCreations
    <2>2. CreationFits(c, ui, srv)
        BY DEF PickerInv
    <2> QED
        BY <2>1, <2>2, CreationStays
<1>6. ASSUME n - 1 > 0, net'.loads[n - 1].served
      PROVE  \/ net'.loads[n - 1].late \/ net'.loads[n - 1].found = srv'.live
             \/ ClassPending(net'.creations) \/ ui'.error
    <2>1. n - 1 \in 1 .. n - 1 /\ n - 1 + 1 = n
        BY <1>2, <1>6
    <2>2. CASE k = n
        BY <1>3, <2>1, <2>2
    <2>3. CASE k # n
        <3>1. n - 1 >= k
            BY <1>2, <2>3
        <3>2. SameLoad(net.loads[n], net'.loads[n - 1])
            BY <1>3, <2>1, <3>1
        <3>3. net.loads[n].served =>
                  \/ net.loads[n].late \/ net.loads[n].found = srv.live
                  \/ ClassPending(net.creations) \/ ui.error
            BY <1>2 DEF PickerInv, LastFits
        <3>4. ClassPending(net.creations) <=> ClassPending(net'.creations)
            BY <1>3, PendingStays
        <3>5. ui.error => ui'.error
            BY Zenon
        <3>6. /\ net'.loads[n - 1].served = net.loads[n].served
              /\ net'.loads[n - 1].found = net.loads[n].found
              /\ net.loads[n].late => net'.loads[n - 1].late
            BY <3>2 DEF SameLoad
        <3> QED
            BY <1>6, <3>3, <3>4, <3>5, <3>6, Zenon
    <2> QED
        BY <2>2, <2>3
<1>7. LastFits(net'.loads, net'.creations, ui', srv')
    BY <1>3, <1>6 DEF LastFits
<1> QED
    BY <1>3, <1>4, <1>5, <1>7

LEMMA PickerFollow ==
    ASSUME FormsAssumption, NEW load \in Picker!Load, NEW u \in PickerPage,
           u.kept = u.selected
    PROVE  LET v == Picker!Follow(load, u) IN
           /\ v \in PickerPage /\ v.kept = v.selected /\ v.page = u.page
           /\ v.shown = u.shown /\ v.error = u.error /\ v.doubt = u.doubt
           /\ v.open => u.open
           /\ v.created # 0 => v.created = u.created
           /\ \/ v.selected = u.selected
              \/ /\ u.page # "portal" /\ load.after = "create"
                 /\ v.selected = load.id
<1>1. load.id \in Picker!MaybeClass /\ 0 \in Picker!MaybeClass /\ load.mounted \in BOOLEAN
    BY PickerBounds DEF Picker!Load
<1>2. PICK v : v = Picker!Follow(load, u)
    OBVIOUS
<1>3. CASE load.after = "nothing"
    <2>1. v = u
        BY <1>2, <1>3 DEF Picker!Follow
    <2> QED
        BY <1>2, <2>1
<1>4. CASE load.after = "sync"
    <2>1. v = [u EXCEPT !.open = FALSE, !.filled = FALSE, !.busy = FALSE,
                        !.refused = FALSE, !.created = 0]
        BY <1>2, <1>4 DEF Picker!Follow, Picker!Synced
    <2> QED
        BY <1>1, <1>2, <2>1, ZenonT(40) DEF PickerPage
<1>5. CASE load.after = "create" /\ u.page = "portal"
    <2>1. PICK busy \in BOOLEAN : busy = (u.busy /\ ~load.mounted)
        OBVIOUS
    <2>2. v = [u EXCEPT !.busy = busy]
        BY <1>2, <1>5, <2>1 DEF Picker!Follow, PickerPage
    <2> QED
        BY <1>2, <2>2 DEF PickerPage
<1>6. CASE load.after = "create" /\ u.page = "classes"
    <2>1. v = [u EXCEPT !.selected = load.id, !.kept = load.id]
        BY <1>2, <1>6 DEF Picker!Follow, Picker!Select
    <2> QED
        BY <1>1, <1>2, <1>6, <2>1, ZenonT(40) DEF PickerPage
<1>7. CASE load.after = "create" /\ u.page = "dashboard"
    <2>1. PICK w : w = [u EXCEPT !.selected = load.id, !.kept = load.id]
        OBVIOUS
    <2>2. v = [w EXCEPT !.open = FALSE]
        BY <1>2, <1>7, <2>1 DEF Picker!Follow, Picker!Select
    <2>3. /\ w \in PickerPage /\ w.selected = load.id /\ w.kept = load.id
          /\ w.page = u.page /\ w.shown = u.shown /\ w.error = u.error
          /\ w.doubt = u.doubt /\ w.created = u.created
        BY <1>1, <2>1 DEF PickerPage
    <2> QED
        BY <1>2, <1>7, <2>2, <2>3, ZenonT(40) DEF PickerPage
<1>8. /\ load.after \in {"nothing", "sync", "create"}
      /\ u.page \in {"classes", "dashboard", "portal"}
    BY DEF Picker!Load, PickerPage, Picker!Pages
<1> QED
    BY <1>3, <1>4, <1>5, <1>6, <1>7, <1>8

\* What is selected among the classes an answer brings.
LEMMA PickerSelects ==
    ASSUME FormsAssumption, NEW load \in Picker!Load, NEW u \in PickerPage,
           u.kept = u.selected,
           NEW v \in IF u.page = "portal" THEN Picker!PortalSelects(load, u)
                     ELSE Picker!TeacherSelects(load, u)
    PROVE  /\ v \in PickerPage /\ v.kept = v.selected /\ v.page = u.page
           /\ v.shown = u.shown /\ v.error = u.error /\ v.doubt = u.doubt
           /\ v.open = u.open /\ v.created = u.created
           /\ \/ v.selected \in load.found
              \/ load.found = {} /\ v.selected = 0
              \/ /\ u.page = "portal" /\ load.selected \in load.found
                 /\ v.selected = u.selected
<1>1. ASSUME NEW id \in Picker!MaybeClass, v = Picker!Select(id, u)
      PROVE  /\ v \in PickerPage /\ v.kept = v.selected /\ v.page = u.page
             /\ v.shown = u.shown /\ v.error = u.error /\ v.doubt = u.doubt
             /\ v.open = u.open /\ v.created = u.created /\ v.selected = id
    <2>1. v = [u EXCEPT !.selected = id, !.kept = id]
        BY <1>1 DEF Picker!Select
    <2> QED
        BY <2>1 DEF PickerPage
<1>2. 0 \in Picker!MaybeClass /\ \A id \in load.found : id \in Picker!MaybeClass
    BY PickerBounds DEF Picker!Load
<1>3. CASE v = u /\ u.selected \in load.found
    BY <1>3
<1>4. CASE v = Picker!Select(0, u) /\ load.found = {}
    BY <1>1, <1>2, <1>4
<1>5. CASE \E id \in load.found : v = Picker!Select(id, u)
    BY <1>1, <1>2, <1>5
<1>6. CASE v = u /\ u.page = "portal" /\ load.selected \in load.found
    BY <1>6
<1>7. \/ v \in Picker!TeacherSelects(load, u)
      \/ u.page = "portal" /\ v \in Picker!PortalSelects(load, u)
    OBVIOUS
<1>8. v \in Picker!TeacherSelects(load, u) =>
          \/ v = u /\ u.selected \in load.found
          \/ v = Picker!Select(0, u) /\ load.found = {}
          \/ \E id \in load.found : v = Picker!Select(id, u)
    BY DEF Picker!TeacherSelects
<1>9. v \in Picker!PortalSelects(load, u) =>
          \/ v \in Picker!TeacherSelects(load, u)
          \/ v = u /\ load.selected \in load.found
          \/ v = Picker!Select(0, u) /\ load.found = {}
          \/ \E id \in load.found : v = Picker!Select(id, u)
    BY DEF Picker!PortalSelects
<1> QED
    BY <1>3, <1>4, <1>5, <1>6, <1>7, <1>8, <1>9

\* The selection of the administration client may change when nothing uses it.
LEMMA PickerOvertaken ==
    ASSUME PickerInv, Picker!Overtaken, ui'.page = ui.page
    PROVE  /\ srv' \in PickerStore /\ srv'.live = srv.live
           /\ srv.overtaken => srv'.overtaken
           /\ net'.loads # <<>> \/ net'.creations # {} => Goes(ui, srv, ui', srv')
<1>1. srv \in [live : SUBSET SchoolClasses, used : SUBSET SchoolClasses, overtaken : BOOLEAN]
    BY DEF PickerInv, PickerStore
<1>2. PICK over \in BOOLEAN : over = (srv.overtaken \/ Picker!Overtakes)
    OBVIOUS
<1>3. srv' = [srv EXCEPT !.overtaken = over]
    BY <1>2, Zenon DEF Picker!Overtaken
<1>4. /\ srv' \in [live : SUBSET SchoolClasses, used : SUBSET SchoolClasses, overtaken : BOOLEAN]
      /\ srv'.live = srv.live /\ srv'.overtaken = over
    BY <1>1, <1>3
<1>5. srv' \in PickerStore
    BY <1>4 DEF PickerStore
<1>6. srv'.live = srv.live /\ (srv.overtaken => srv'.overtaken)
    BY <1>2, <1>4
<1>7. ASSUME net'.loads # <<>> \/ net'.creations # {}
      PROVE  Goes(ui, srv, ui', srv')
    <2>1. CASE over
        BY <1>4, <2>1 DEF Goes
    <2>2. CASE ~over
        <3>1. ~srv.overtaken /\ ~Picker!Overtakes
            BY <1>2, <2>2
        <3>2. ui.page = "portal" => ui'.selected = ui.selected
            BY <1>7, <3>1, Zenon DEF Picker!Overtakes, Picker!Portal
        <3>3. srv.live \subseteq srv'.live
            BY <1>4
        <3> QED
            BY <3>1, <3>2, <3>3, Zenon DEF Goes
    <2> QED
        BY <2>1, <2>2
<1> QED
    BY <1>5, <1>6, <1>7

\* A step that ends no request.
LEMMA PickerLoadsStay ==
    ASSUME PickerInv, net' \in PickerCalls, Len(net'.loads) = Len(net.loads),
           \A k \in 1 .. Len(net.loads) : SameLoad(net.loads[k], net'.loads[k]),
           net'.loads # <<>> \/ net'.creations # {} => Goes(ui, srv, ui', srv')
    PROVE  \A k \in 1 .. Len(net'.loads) : LoadFits(net'.loads[k], ui', srv')
<1> SUFFICES ASSUME NEW k \in 1 .. Len(net'.loads)
             PROVE  LoadFits(net'.loads[k], ui', srv')
    OBVIOUS
<1>1. SameLoad(net.loads[k], net'.loads[k])
    OBVIOUS
<1>2. LoadFits(net.loads[k], ui, srv)
    BY DEF PickerInv
<1>3. net'.loads # <<>>
    <2>1. Len(net'.loads) # 0
        BY PickerLoadsAre DEF PickerCalls
    <2> QED
        BY <2>1
<1> QED
    BY <1>1, <1>2, <1>3, LoadStays

LEMMA PickerCreationsStay ==
    ASSUME PickerInv, NEW d \in net'.creations,
           NEW c \in net.creations, SameCreation(c, d),
           net'.loads # <<>> \/ net'.creations # {} => Goes(ui, srv, ui', srv')
    PROVE  CreationFits(d, ui', srv')
<1>1. CreationFits(c, ui, srv)
    BY DEF PickerInv
<1>2. Goes(ui, srv, ui', srv')
    OBVIOUS
<1> QED
    BY <1>1, <1>2, CreationStays

LEMMA PickerLastStays ==
    ASSUME PickerInv, net' \in PickerCalls, Len(net'.loads) = Len(net.loads),
           \A k \in 1 .. Len(net.loads) : SameLoad(net.loads[k], net'.loads[k]),
           ClassPending(net.creations) => ClassPending(net'.creations),
           srv'.live = srv.live, ui.error => ui'.error
    PROVE  LastFits(net'.loads, net'.creations, ui', srv')
<1> DEFINE n == Len(net.loads)
<1>1. ASSUME n > 0, net'.loads[n].served
      PROVE  \/ net'.loads[n].late \/ net'.loads[n].found = srv'.live
             \/ ClassPending(net'.creations) \/ ui'.error
    <2>1. n \in 1 .. n
        BY <1>1, PickerLoadsAre DEF PickerInv, PickerCalls
    <2>2. SameLoad(net.loads[n], net'.loads[n])
        BY <2>1
    <2>3. net.loads[n].served =>
              \/ net.loads[n].late \/ net.loads[n].found = srv.live
              \/ ClassPending(net.creations) \/ ui.error
        BY <1>1 DEF PickerInv, LastFits
    <2> QED
        BY <1>1, <2>2, <2>3 DEF SameLoad
<1> QED
    BY <1>1 DEF LastFits

\* A step of the page alone.
LEMMA PickerPageStep ==
    ASSUME PickerInv, UNCHANGED <<net, srv>>, ui' \in PickerPage,
           ui'.page = ui.page, ui'.selected = ui.selected, ui'.kept = ui.kept,
           ui'.shown = ui.shown, ui'.error = ui.error, ui'.doubt = ui.doubt,
           ui'.open /\ ui'.created # 0 => ui.open /\ ui'.created = ui.created
    PROVE  PickerInv'
<1>1. /\ net \in PickerCalls /\ srv \in PickerStore /\ IsFiniteSet(net.creations)
      /\ net' = net /\ srv' = srv
    BY DEF PickerInv
<1>2. \A k \in 1 .. Len(net.loads) : SameLoad(net.loads[k], net.loads[k])
    BY DEF SameLoad
<1>3. PICK over \in BOOLEAN : srv.overtaken = over
    BY <1>1 DEF PickerStore
<1>4. Goes(ui, srv, ui', srv')
    BY <1>1, <1>3 DEF Goes
<1>5. \A k \in 1 .. Len(net'.loads) : LoadFits(net'.loads[k], ui', srv')
    BY <1>1, <1>2, <1>4, PickerLoadsStay
<1>6. ASSUME NEW c \in net'.creations PROVE CreationFits(c, ui', srv')
    <2>1. c \in net.creations /\ SameCreation(c, c)
        BY <1>1 DEF SameCreation
    <2> QED
        BY <1>4, <2>1, PickerCreationsStay
<1>7. LastFits(net'.loads, net'.creations, ui', srv')
    BY <1>1, <1>2, PickerLastStays
<1>8. PickerSettled(ui', net'.loads, net'.creations, srv')
    BY <1>1 DEF PickerInv, PickerSettled, SelectedFits
<1>9. CodeFits(ui', net'.loads, net'.creations, srv')
    BY <1>1 DEF PickerInv, CodeFits
<1>10. ui'.kept = ui'.selected
    BY DEF PickerInv
<1> QED
    BY <1>1, <1>5, <1>6, <1>7, <1>8, <1>9, <1>10 DEF PickerInv

-----------------------------------------------------------------------------
(* The steps of the page of classes.                                       *)

LEMMA PickerInit ==
    ASSUME FormsAssumption, Picker!Init
    PROVE  PickerInv
<1>1. PICK page \in Picker!Pages, some \in SUBSET SchoolClasses, kept \in Picker!MaybeClass :
          /\ srv = [live |-> some, used |-> some \cup ({kept} \ {0}), overtaken |-> FALSE]
          /\ ui = [page |-> page, shown |-> {}, selected |-> kept, kept |-> kept,
                   loading |-> TRUE, error |-> FALSE, open |-> FALSE, filled |-> FALSE,
                   busy |-> FALSE, refused |-> FALSE, created |-> 0, doubt |-> TRUE]
          /\ net = [loads |-> <<Picker!NewLoad(TRUE, kept, "nothing", 0, TRUE)>>,
                    creations |-> {}]
    BY DEF Picker!Init
<1>2. 0 \in Picker!MaybeClass
    BY PickerBounds
<1>3. PICK l : l = Picker!NewLoad(TRUE, kept, "nothing", 0, TRUE)
    OBVIOUS
<1>16. l \in Picker!Load /\ ~l.served /\ l.after = "nothing" /\ l.selected = kept
    BY <1>2, <1>3 DEF Picker!NewLoad, Picker!Load
<1>4. PICK loads : loads = [k \in 1 .. 1 |-> l]
    OBVIOUS
<1>5. loads = <<l>> /\ loads \in PickerLoads /\ Len(loads) = 1 /\ loads[1] = l
    <2>1. loads \in [1 .. 1 -> Picker!Load] /\ loads[1] = l
        BY <1>4, <1>16
    <2>2. loads \in PickerLoads /\ Len(loads) = 1
        BY <2>1, PickerLoadsMade
    <2>3. loads = <<l>>
        BY <1>4
    <2> QED
        BY <2>1, <2>2, <2>3
<1>6. net.loads = loads /\ net.creations = {} /\ net \in PickerCalls
    BY <1>1, <1>3, <1>5, <1>16 DEF PickerCalls
<1>7. srv.used \subseteq SchoolClasses
    BY <1>1 DEF Picker!MaybeClass
<1>8. srv \in PickerStore /\ ~srv.overtaken
    BY <1>1, <1>7 DEF PickerStore
<1>9. ui \in PickerPage /\ ui.selected = kept /\ ui.kept = kept /\ ~ui.open
    BY <1>1, <1>2 DEF PickerPage
<1>10. \A k \in 1 .. Len(net.loads) : LoadFits(net.loads[k], ui, srv)
    <2>1. ASSUME NEW k \in 1 .. Len(net.loads) PROVE net.loads[k] = l
        <3>1. k = 1
            BY <1>5, <1>6
        <3> QED
            BY <1>5, <1>6, <3>1
    <2>2. l.after # "create" /\ l.selected = ui.selected
        BY <1>9, <1>16
    <2>3. LoadFits(l, ui, srv)
        BY <2>2 DEF LoadFits
    <2> QED
        BY <2>1, <2>3
<1>11. \A c \in net.creations : CreationFits(c, ui, srv)
    BY <1>6
<1>12. LastFits(net.loads, net.creations, ui, srv)
    BY <1>5, <1>6, <1>16 DEF LastFits
<1>13. PickerSettled(ui, net.loads, net.creations, srv)
    BY <1>5, <1>6 DEF PickerSettled
<1>14. CodeFits(ui, net.loads, net.creations, srv)
    BY <1>9 DEF CodeFits
<1>15. IsFiniteSet(net.creations)
    BY <1>6, FS_EmptySet
<1> QED
    BY <1>6, <1>8, <1>9, <1>10, <1>11, <1>12, <1>13, <1>14, <1>15 DEF PickerInv

LEMMA PickerServesLoad ==
    ASSUME PickerInv, NEW k \in DOMAIN net.loads, Picker!ServeLoad(k)
    PROVE  PickerInv'
<1>1. /\ ui \in PickerPage /\ net \in PickerCalls /\ srv \in PickerStore
      /\ ui' = ui /\ srv' = srv
    BY DEF PickerInv, Picker!ServeLoad
<1>2. PICK n \in Nat : /\ n = Len(net.loads) /\ DOMAIN net.loads = 1 .. n
                       /\ \A j \in 1 .. n : net.loads[j] \in Picker!Load
    BY <1>1, PickerLoadsAre DEF PickerCalls
<1>3. PICK l \in Picker!Load : l = net.loads[k]
    BY <1>2
<1>4. PICK live \in SUBSET SchoolClasses : live = srv.live
    BY <1>1 DEF PickerStore
<1>5. PICK m : m = [l EXCEPT !.served = TRUE, !.found = live]
    OBVIOUS
<1>6. /\ m \in Picker!Load /\ m.found = live /\ m.after = l.after /\ m.id = l.id
      /\ m.selected = l.selected
    BY <1>5 DEF Picker!Load
<1>7. PICK loads : loads = [net.loads EXCEPT ![k] = m]
    OBVIOUS
<1>8. net.loads \in [1 .. n -> Picker!Load]
    BY <1>1, <1>2 DEF PickerCalls, PickerLoads
<1>9. loads \in [1 .. n -> Picker!Load] /\ \A j \in 1 .. n : loads[j] = IF j = k THEN m ELSE net.loads[j]
    BY <1>2, <1>6, <1>7, <1>8
<1>10. loads \in PickerLoads /\ Len(loads) = n
    BY <1>9, PickerLoadsMade
<1>11. net' = [net EXCEPT !.loads = loads]
    <2>1. net' = [net EXCEPT !.loads[k] = [@ EXCEPT !.served = TRUE, !.found = srv.live]]
        BY DEF Picker!ServeLoad
    <2> QED
        BY <1>3, <1>4, <1>5, <1>7, <2>1
<1>12. net' \in PickerCalls /\ net'.loads = loads /\ net'.creations = net.creations
    <2>1. net \in [loads : PickerLoads, creations : SUBSET Picker!Creation]
        BY <1>1 DEF PickerCalls
    <2>2. net' \in [loads : PickerLoads, creations : SUBSET Picker!Creation]
        BY <1>10, <1>11, <2>1
    <2>3. net'.loads = loads /\ net'.creations = net.creations
        BY <1>11, <2>1
    <2> QED
        BY <2>2, <2>3 DEF PickerCalls
<1>13. ASSUME NEW j \in 1 .. n PROVE LoadFits(loads[j], ui, srv)
    <2>1. LoadFits(net.loads[j], ui, srv)
        BY <1>2 DEF PickerInv
    <2>2. CASE j = k
        <3>1. LoadFits(l, ui, srv)
            BY <1>3, <2>1, <2>2
        <3>2. loads[j] = m
            BY <1>9, <2>2
        <3> QED
            BY <1>4, <1>6, <3>1, <3>2 DEF LoadFits
    <2>3. CASE j # k
        BY <1>9, <2>1, <2>3
    <2> QED
        BY <2>2, <2>3
<1>14. LastFits(loads, net.creations, ui, srv)
    <2>1. CASE n = k
        <3>1. loads[Len(loads)].found = srv.live
            BY <1>4, <1>6, <1>9, <1>10, <1>2, <2>1
        <3> QED
            BY <3>1 DEF LastFits
    <2>2. CASE n # k
        <3>1. n > 0 => loads[Len(loads)] = net.loads[n]
            BY <1>9, <1>10, <2>2
        <3>2. LastFits(net.loads, net.creations, ui, srv)
            BY DEF PickerInv
        <3> QED
            BY <1>2, <1>10, <3>1, <3>2 DEF LastFits
    <2> QED
        BY <2>1, <2>2
<1>15. PickerSettled(ui, loads, net.creations, srv)
    BY <1>2, <1>10 DEF PickerSettled
<1>16. CodeFits(ui, loads, net.creations, srv)
    BY <1>2, <1>10 DEF PickerInv, CodeFits
<1> QED
    BY <1>1, <1>10, <1>12, <1>13, <1>14, <1>15, <1>16 DEF PickerInv

LEMMA PickerServesCreation ==
    ASSUME FormsAssumption, PickerInv, NEW c \in net.creations, Picker!ServeCreation(c)
    PROVE  PickerInv'
<1>1. /\ ui \in PickerPage /\ net \in PickerCalls /\ srv \in PickerStore /\ ui' = ui
      /\ IsFiniteSet(net.creations)
    BY DEF PickerInv, Picker!ServeCreation
<1>2. PICK reply \in {"ok", "refused"}, id \in Picker!MaybeClass :
          /\ net' = [net EXCEPT !.creations =
                       (net.creations \ {c}) \cup {[c EXCEPT !.reply = reply, !.id = id]}]
          /\ \/ /\ reply = "ok" /\ id \in SchoolClasses
                /\ srv' = [srv EXCEPT !.live = srv.live \cup {id}, !.used = srv.used \cup {id}]
             \/ reply = "refused" /\ srv' = srv
    BY Zenon DEF Picker!ServeCreation
<1>3. c \in Picker!Creation /\ c.reply = "none"
    BY <1>1 DEF PickerCalls, Picker!ServeCreation
<1>4. PICK d : d = [c EXCEPT !.reply = reply, !.id = id]
    OBVIOUS
<1>5. d \in Picker!Creation /\ d.reply = reply /\ d.id = id /\ d.selected = c.selected
    BY <1>3, <1>4 DEF Picker!Creation
<1>6. PICK new : new = (net.creations \ {c}) \cup {d}
    OBVIOUS
<1>7. /\ net' \in PickerCalls /\ net'.loads = net.loads /\ net'.creations = new
      /\ IsFiniteSet(net'.creations)
    <2>1. net \in [loads : PickerLoads, creations : SUBSET Picker!Creation]
        BY <1>1 DEF PickerCalls
    <2>2. net' = [net EXCEPT !.creations = new] /\ new \in SUBSET Picker!Creation
        BY <1>2, <1>4, <1>5, <1>6, <2>1
    <2>3. IsFiniteSet(new)
        BY <1>1, <1>6, FS_RemoveElement, FS_AddElement
    <2>4. /\ net' \in [loads : PickerLoads, creations : SUBSET Picker!Creation]
          /\ net'.loads = net.loads /\ net'.creations = new
        BY <2>1, <2>2
    <2> QED
        BY <2>3, <2>4 DEF PickerCalls
<1>8. /\ srv' \in PickerStore /\ srv.live \subseteq srv'.live
      /\ srv'.overtaken = srv.overtaken
      /\ reply = "ok" => id \in srv'.live
      /\ reply = "refused" => srv'.live = srv.live
    <2>1. srv \in [live : SUBSET SchoolClasses, used : SUBSET SchoolClasses, overtaken : BOOLEAN]
        BY <1>1 DEF PickerStore
    <2>2. CASE srv' = srv /\ reply = "refused"
        BY <1>1, <2>2
    <2>3. CASE /\ reply = "ok" /\ id \in SchoolClasses
               /\ srv' = [srv EXCEPT !.live = srv.live \cup {id}, !.used = srv.used \cup {id}]
        <3>1. PICK live, used : live = srv.live \cup {id} /\ used = srv.used \cup {id}
            OBVIOUS
        <3>2. live \in SUBSET SchoolClasses /\ used \in SUBSET SchoolClasses
            BY <2>1, <2>3, <3>1
        <3>3. srv' = [srv EXCEPT !.live = live, !.used = used]
            BY <2>3, <3>1
        <3>4. /\ srv' \in [live : SUBSET SchoolClasses, used : SUBSET SchoolClasses,
                           overtaken : BOOLEAN]
              /\ srv'.live = live /\ srv'.overtaken = srv.overtaken
            BY <2>1, <3>2, <3>3
        <3> QED
            BY <2>3, <3>1, <3>4 DEF PickerStore
    <2> QED
        BY <1>2, <2>2, <2>3
<1>9. PICK over \in BOOLEAN : srv.overtaken = over
    BY <1>1 DEF PickerStore
<1>10. Goes(ui, srv, ui', srv')
    BY <1>1, <1>8, <1>9 DEF Goes
<1>11. \A k \in 1 .. Len(net'.loads) : LoadFits(net'.loads[k], ui', srv')
    <2>1. \A k \in 1 .. Len(net.loads) : SameLoad(net.loads[k], net'.loads[k])
        BY <1>7 DEF SameLoad
    <2> QED
        BY <1>7, <1>10, <2>1, PickerLoadsStay
<1>12. ASSUME NEW e \in net'.creations PROVE CreationFits(e, ui', srv')
    <2>1. CASE e = d
        <3>1. CreationFits(c, ui, srv)
            BY DEF PickerInv
        <3>2. reply = "ok" => id \in srv'.live
            BY <1>8
        <3> QED
            BY <1>1, <1>5, <1>8, <2>1, <3>1, <3>2 DEF CreationFits
    <2>2. CASE e # d
        <3>1. e \in net.creations /\ SameCreation(e, e)
            BY <1>6, <1>7, <2>2 DEF SameCreation
        <3> QED
            BY <1>10, <3>1, PickerCreationsStay
    <2> QED
        BY <2>1, <2>2
<1>13. d \in net'.creations /\ (reply = "ok" => ClassPending(net'.creations))
    BY <1>5, <1>6, <1>7 DEF ClassPending
<1>14. ClassPending(net.creations) => ClassPending(net'.creations)
    BY <1>3, <1>6, <1>7 DEF ClassPending
<1>15. LastFits(net'.loads, net'.creations, ui', srv')
    <2>1. LastFits(net.loads, net.creations, ui, srv)
        BY DEF PickerInv
    <2> QED
        BY <1>1, <1>2, <1>7, <1>8, <1>13, <1>14, <2>1 DEF LastFits
<1>16. PickerSettled(ui', net'.loads, net'.creations, srv')
    <2>1. PickerSettled(ui, net.loads, net.creations, srv)
        BY DEF PickerInv
    <2> QED
        BY <1>1, <1>2, <1>7, <1>8, <1>13, <1>14, <2>1 DEF PickerSettled
<1>17. CodeFits(ui', net'.loads, net'.creations, srv')
    <2>1. CodeFits(ui, net.loads, net.creations, srv)
        BY DEF PickerInv
    <2>2. net.creations # {}
        OBVIOUS
    <2> QED
        BY <1>1, <1>8, <2>1, <2>2 DEF CodeFits
<1>18. ui'.kept = ui'.selected /\ ui' \in PickerPage
    BY <1>1 DEF PickerInv
<1> QED
    BY <1>7, <1>8, <1>11, <1>12, <1>15, <1>16, <1>17, <1>18 DEF PickerInv

LEMMA PickerRemoves ==
    ASSUME PickerInv, NEW id \in SchoolClasses, Picker!Removed(id)
    PROVE  PickerInv'
<1>1. /\ ui \in PickerPage /\ net \in PickerCalls /\ srv \in PickerStore
      /\ IsFiniteSet(net.creations)
    BY DEF PickerInv
<1>2. PICK n \in Nat : /\ n = Len(net.loads) /\ DOMAIN net.loads = 1 .. n
                       /\ \A j \in 1 .. n : net.loads[j] \in Picker!Load
    BY <1>1, PickerLoadsAre DEF PickerCalls
<1>3. PICK busy \in BOOLEAN : busy <=> Picker!InFlight > 0
    <2>1. (Picker!InFlight > 0) \in BOOLEAN
        OBVIOUS
    <2> QED
        BY <2>1
<1>4. n > 0 \/ net.creations # {} => busy
    <2>1. Cardinality(net.creations) \in Nat
        BY <1>1, FS_CardinalityType
    <2>2. net.creations # {} => Cardinality(net.creations) # 0
        BY <1>1, FS_EmptySet
    <2>3. Picker!InFlight = n + Cardinality(net.creations)
        <3>1. Picker!Cardinality(net.creations) = Cardinality(net.creations)
            BY DEF Picker!Cardinality, Cardinality
        <3> QED
            BY <1>2, <3>1 DEF Picker!InFlight
    <2> QED
        BY <1>3, <2>1, <2>2, <2>3
<1>5. PICK late : late = [j \in 1 .. n |-> net.loads[j].late \/ net.loads[j].served]
    OBVIOUS
<1>6. PICK loads : loads = [j \in 1 .. n |-> [net.loads[j] EXCEPT !.late = late[j]]]
    OBVIOUS
<1>7. ASSUME NEW j \in 1 .. n
      PROVE  /\ loads[j] \in Picker!Load /\ loads[j].late = late[j]
             /\ loads[j].served = net.loads[j].served
             /\ late[j] = (net.loads[j].late \/ net.loads[j].served)
             /\ loads[j] = [net.loads[j] EXCEPT !.late = @ \/ net.loads[j].served]
    <2>1. PICK l \in Picker!Load : l = net.loads[j]
        BY <1>2
    <2>2. late[j] = (l.late \/ l.served) /\ late[j] \in BOOLEAN
        BY <1>5, <2>1
    <2>3. loads[j] = [l EXCEPT !.late = late[j]]
        BY <1>6, <2>1
    <2>4. loads[j] = [l EXCEPT !.late = @ \/ l.served]
        BY <2>2, <2>3 DEF Picker!Load
    <2> QED
        BY <2>1, <2>2, <2>3, <2>4 DEF Picker!Load
<1>8. loads \in PickerLoads /\ Len(loads) = n
    BY <1>6, <1>7, PickerLoadsMade
<1>9. /\ net' \in PickerCalls /\ net'.loads = loads /\ net'.creations = net.creations
    <2>1. net \in [loads : PickerLoads, creations : SUBSET Picker!Creation]
        BY <1>1 DEF PickerCalls
    <2>2. loads = [k \in DOMAIN net.loads |->
                     [net.loads[k] EXCEPT !.late = @ \/ net.loads[k].served]]
        BY <1>2, <1>6, <1>7
    <2>3. net' = [net EXCEPT !.loads = loads]
        BY <2>2 DEF Picker!Removed
    <2>4. /\ net' \in [loads : PickerLoads, creations : SUBSET Picker!Creation]
          /\ net'.loads = loads /\ net'.creations = net.creations
        BY <1>8, <2>1, <2>3
    <2> QED
        BY <2>4 DEF PickerCalls
<1>10. srv' \in PickerStore /\ srv'.overtaken = (srv.overtaken \/ busy)
    <2>1. srv \in [live : SUBSET SchoolClasses, used : SUBSET SchoolClasses, overtaken : BOOLEAN]
        BY <1>1 DEF PickerStore
    <2>2. PICK over \in BOOLEAN : over = (srv.overtaken \/ busy)
        OBVIOUS
    <2>3. PICK live \in SUBSET SchoolClasses : live = srv.live \ {id}
        BY <2>1
    <2>4. srv' = [srv EXCEPT !.live = live, !.overtaken = over]
        BY <1>3, <2>2, <2>3 DEF Picker!Removed
    <2>5. /\ srv' \in [live : SUBSET SchoolClasses, used : SUBSET SchoolClasses,
                       overtaken : BOOLEAN]
          /\ srv'.overtaken = over
        BY <2>1, <2>4
    <2> QED
        BY <2>2, <2>5 DEF PickerStore
<1>11. /\ ui' \in PickerPage /\ ui'.kept = ui'.selected /\ ui'.page = ui.page
       /\ ui'.open = ui.open /\ ui'.created = ui.created /\ ui'.doubt = TRUE
    <2>1. ui' = [ui EXCEPT !.doubt = TRUE]
        BY DEF Picker!Removed
    <2>2. ui.kept = ui.selected
        BY DEF PickerInv
    <2> QED
        BY <1>1, <2>1, <2>2 DEF PickerPage
<1>12. \A k \in 1 .. Len(net'.loads) : LoadFits(net'.loads[k], ui', srv')
    BY <1>4, <1>8, <1>9, <1>10 DEF LoadFits
<1>13. \A c \in net'.creations : CreationFits(c, ui', srv')
    BY <1>4, <1>9, <1>10 DEF CreationFits
<1>14. LastFits(net'.loads, net'.creations, ui', srv')
    <2>1. n > 0 => n \in 1 .. n
        OBVIOUS
    <2>2. n > 0 /\ loads[n].served => loads[n].late
        BY <1>7, <2>1
    <2> QED
        BY <1>8, <1>9, <2>2 DEF LastFits
<1>15. PickerSettled(ui', net'.loads, net'.creations, srv')
    BY <1>11 DEF PickerSettled
<1>16. CodeFits(ui', net'.loads, net'.creations, srv')
    BY <1>4, <1>8, <1>9, <1>10, <1>11 DEF CodeFits
<1> QED
    BY <1>1, <1>9, <1>10, <1>11, <1>12, <1>13, <1>14, <1>15, <1>16 DEF PickerInv

LEMMA PickerLoadEnds ==
    ASSUME FormsAssumption, PickerInv, NEW k \in DOMAIN net.loads, Picker!Loaded(k)
    PROVE  PickerInv'
<1>1. /\ ui \in PickerPage /\ net \in PickerCalls /\ srv \in PickerStore
      /\ IsFiniteSet(net.creations) /\ ui.kept = ui.selected
    BY DEF PickerInv
<1>2. PICK n \in Nat : /\ n = Len(net.loads) /\ DOMAIN net.loads = 1 .. n
                       /\ \A j \in 1 .. n : net.loads[j] \in Picker!Load
    BY <1>1, PickerLoadsAre DEF PickerCalls
<1>3. PICK l \in Picker!Load : l = net.loads[k]
    BY <1>2
<1>4. PICK u : u = [ui EXCEPT !.shown = l.found, !.loading = FALSE, !.doubt = l.late]
    OBVIOUS
<1>5. /\ u \in PickerPage /\ u.kept = u.selected /\ u.page = ui.page
      /\ u.shown = l.found /\ u.error = ui.error /\ u.doubt = l.late
      /\ u.selected = ui.selected /\ u.open = ui.open /\ u.created = ui.created
    BY <1>1, <1>4 DEF PickerPage, Picker!Load
<1>6. PICK v : /\ v \in IF u.page = "portal" THEN Picker!PortalSelects(l, u)
                        ELSE Picker!TeacherSelects(l, u)
               /\ ui' = Picker!Follow(l, v)
    BY <1>3, <1>4, <1>5 DEF Picker!Loaded, Picker!Portal
<1>7. /\ v \in PickerPage /\ v.kept = v.selected /\ v.page = ui.page
      /\ v.shown = l.found /\ v.error = ui.error /\ v.doubt = l.late
      /\ v.open = ui.open /\ v.created = ui.created
      /\ \/ v.selected \in l.found
         \/ l.found = {} /\ v.selected = 0
         \/ /\ ui.page = "portal" /\ l.selected \in l.found /\ v.selected = ui.selected
    BY <1>5, <1>6, PickerSelects
<1>8. /\ ui' \in PickerPage /\ ui'.kept = ui'.selected /\ ui'.page = ui.page
      /\ ui'.shown = l.found /\ ui'.error = ui.error /\ ui'.doubt = l.late
      /\ ui'.open => ui.open
      /\ ui'.created # 0 => ui'.created = ui.created
      /\ \/ ui'.selected = v.selected
         \/ ui.page # "portal" /\ l.after = "create" /\ ui'.selected = l.id
    BY <1>6, <1>7, PickerFollow
<1>9. Picker!Ended(k, TRUE) /\ Picker!Overtaken /\ l.served
    BY <1>3 DEF Picker!Loaded
<1>10. /\ srv' \in PickerStore /\ srv'.live = srv.live
       /\ srv.overtaken => srv'.overtaken
       /\ net'.loads # <<>> \/ net'.creations # {} => Goes(ui, srv, ui', srv')
    BY <1>8, <1>9, PickerOvertaken
<1>11. /\ net' \in PickerCalls /\ Len(net'.loads) = n - 1
       /\ IsFiniteSet(net'.creations) /\ SameCreations(net.creations, net'.creations)
    BY <1>1, <1>2, <1>9, PickerEnded
<1>12. /\ \A j \in 1 .. Len(net'.loads) : LoadFits(net'.loads[j], ui', srv')
       /\ \A c \in net'.creations : CreationFits(c, ui', srv')
       /\ LastFits(net'.loads, net'.creations, ui', srv')
    BY <1>2, <1>8, <1>9, <1>10, PickerLeft
<1>13. LoadFits(l, ui, srv)
    BY <1>2, <1>3 DEF PickerInv
<1>14. PickerSettled(ui', net'.loads, net'.creations, srv')
    <2>1. ASSUME n - 1 = 0, ~ui'.error, ~ui'.doubt, ~ClassPending(net'.creations)
          PROVE  ui'.shown = srv'.live /\ SelectedFits(ui', srv'.overtaken)
        <3>1. k = n /\ n = 1
            <4>1. n = 1
                BY <2>1
            <4>2. k \in 1 .. 1
                BY <1>2, <4>1
            <4> QED
                BY <4>1, <4>2
        <3>2. ~ClassPending(net.creations)
            BY <1>11, <2>1, PendingStays
        <3>3. ~l.late /\ ~ui.error
            BY <1>8, <2>1
        <3>4. l.found = srv.live
            BY <1>2, <1>3, <1>9, <3>1, <3>2, <3>3 DEF PickerInv, LastFits
        <3>5. ui'.shown = srv'.live
            BY <1>8, <1>10, <3>4
        <3>6. CASE srv.overtaken
            BY <1>10, <3>5, <3>6, Zenon DEF SelectedFits
        <3>7. CASE ~srv.overtaken
            <4>1. /\ l.after = "create" => l.id \in l.found
                  /\ ui.page = "portal" => l.selected = ui.selected
                BY <1>9, <1>13, <3>3, <3>7 DEF LoadFits
            <4>2. v.selected \in l.found \/ (l.found = {} /\ v.selected = 0)
                BY <1>7, <4>1
            <4>3. \/ ui'.selected \in ui'.shown
                  \/ ui'.shown = {} /\ ui'.selected = 0
                BY <1>8, <4>1, <4>2
            <4> QED
                BY <3>5, <4>3, Zenon DEF SelectedFits
        <3> QED
            BY <3>5, <3>6, <3>7
    <2> QED
        BY <1>11, <2>1, Zenon DEF PickerSettled
<1>15. CodeFits(ui', net'.loads, net'.creations, srv')
    <2>1. CodeFits(ui, net.loads, net.creations, srv) /\ Len(net.loads) # 0
        BY <1>2 DEF PickerInv
    <2> QED
        BY <1>8, <1>10, <2>1 DEF CodeFits
<1> QED
    BY <1>8, <1>10, <1>11, <1>12, <1>14, <1>15 DEF PickerInv

LEMMA PickerLoadIsLost ==
    ASSUME FormsAssumption, PickerInv, NEW k \in DOMAIN net.loads, Picker!LoadFails(k)
    PROVE  PickerInv'
<1>1. /\ ui \in PickerPage /\ net \in PickerCalls /\ srv \in PickerStore
      /\ IsFiniteSet(net.creations) /\ ui.kept = ui.selected
    BY DEF PickerInv
<1>2. PICK n \in Nat : /\ n = Len(net.loads) /\ DOMAIN net.loads = 1 .. n
                       /\ \A j \in 1 .. n : net.loads[j] \in Picker!Load
    BY <1>1, PickerLoadsAre DEF PickerCalls
<1>3. PICK l \in Picker!Load : l = net.loads[k]
    BY <1>2
<1>4. PICK u : u = [ui EXCEPT !.loading = FALSE, !.error = TRUE]
    OBVIOUS
<1>5. /\ u \in PickerPage /\ u.kept = u.selected /\ u.page = ui.page /\ u.error = TRUE
      /\ u.selected = ui.selected /\ u.open = ui.open /\ u.created = ui.created
    BY <1>1, <1>4 DEF PickerPage
<1>6. ui' = Picker!Follow(l, u) /\ Picker!Ended(k, FALSE) /\ srv' = srv
    BY <1>3, <1>4 DEF Picker!LoadFails
<1>7. /\ ui' \in PickerPage /\ ui'.kept = ui'.selected /\ ui'.page = ui.page
      /\ ui'.error = TRUE /\ (ui'.open => ui.open)
      /\ ui'.created # 0 => ui'.created = ui.created
      /\ ui.page = "portal" => ui'.selected = ui.selected
    BY <1>5, <1>6, PickerFollow
<1>8. PICK over \in BOOLEAN : srv.overtaken = over
    BY <1>1 DEF PickerStore
<1>9. Goes(ui, srv, ui', srv')
    BY <1>6, <1>7, <1>8 DEF Goes
<1>10. /\ net' \in PickerCalls /\ Len(net'.loads) = n - 1 /\ IsFiniteSet(net'.creations)
    BY <1>1, <1>2, <1>6, PickerEnded
<1>11. /\ \A j \in 1 .. Len(net'.loads) : LoadFits(net'.loads[j], ui', srv')
       /\ \A c \in net'.creations : CreationFits(c, ui', srv')
       /\ LastFits(net'.loads, net'.creations, ui', srv')
    BY <1>2, <1>6, <1>7, <1>9, PickerLeft
<1>12. PickerSettled(ui', net'.loads, net'.creations, srv')
    BY <1>7, Zenon DEF PickerSettled
<1>13. CodeFits(ui', net'.loads, net'.creations, srv')
    <2>1. CodeFits(ui, net.loads, net.creations, srv) /\ Len(net.loads) # 0
        BY <1>2 DEF PickerInv
    <2> QED
        BY <1>6, <1>7, <2>1 DEF CodeFits
<1> QED
    BY <1>1, <1>6, <1>7, <1>10, <1>11, <1>12, <1>13 DEF PickerInv

LEMMA PickerSelectsClass ==
    ASSUME FormsAssumption, PickerInv, NEW id \in SchoolClasses, Picker!SelectClass(id)
    PROVE  PickerInv'
<1>1. /\ ui \in PickerPage /\ net \in PickerCalls /\ srv \in PickerStore
      /\ IsFiniteSet(net.creations) /\ net' = net
    BY DEF PickerInv, Picker!SelectClass
<1>2. id \in Picker!MaybeClass /\ id \in ui.shown
    BY PickerBounds DEF Picker!SelectClass
<1>3. ui' = [ui EXCEPT !.selected = id, !.kept = id]
    BY DEF Picker!SelectClass, Picker!Select
<1>4. /\ ui' \in PickerPage /\ ui'.kept = ui'.selected /\ ui'.page = ui.page
      /\ ui'.selected = id /\ ui'.shown = ui.shown /\ ui'.error = ui.error
      /\ ui'.doubt = ui.doubt /\ ui'.open = ui.open /\ ui'.created = ui.created
    BY <1>1, <1>2, <1>3 DEF PickerPage
<1>5. /\ srv' \in PickerStore /\ srv'.live = srv.live
      /\ srv.overtaken => srv'.overtaken
      /\ net'.loads # <<>> \/ net'.creations # {} => Goes(ui, srv, ui', srv')
    BY <1>4, PickerOvertaken DEF Picker!SelectClass
<1>6. \A k \in 1 .. Len(net.loads) : SameLoad(net.loads[k], net'.loads[k])
    BY <1>1 DEF SameLoad
<1>7. \A k \in 1 .. Len(net'.loads) : LoadFits(net'.loads[k], ui', srv')
    BY <1>1, <1>5, <1>6, PickerLoadsStay
<1>8. ASSUME NEW c \in net'.creations PROVE CreationFits(c, ui', srv')
    <2>1. c \in net.creations /\ SameCreation(c, c)
        BY <1>1 DEF SameCreation
    <2> QED
        BY <1>5, <2>1, PickerCreationsStay
<1>9. LastFits(net'.loads, net'.creations, ui', srv')
    BY <1>1, <1>4, <1>5, <1>6, PickerLastStays
<1>10. PickerSettled(ui', net'.loads, net'.creations, srv')
    BY <1>1, <1>2, <1>4, <1>5 DEF PickerInv, PickerSettled, SelectedFits
<1>11. CodeFits(ui', net'.loads, net'.creations, srv')
    BY <1>1, <1>4, <1>5 DEF PickerInv, CodeFits
<1> QED
    BY <1>1, <1>4, <1>5, <1>7, <1>8, <1>9, <1>10, <1>11 DEF PickerInv

\* A load is sent, and those of the creations in flight that are meant stay.
LEMMA PickerStarts ==
    ASSUME FormsAssumption, PickerInv,
           NEW u \in PickerPage, u.page = ui.page, u.selected = ui.selected,
           u.kept = ui.kept, u.open = ui.open,
           NEW selected \in Picker!MaybeClass, NEW after \in {"nothing", "sync", "create"},
           NEW id \in Picker!MaybeClass, NEW mounted \in BOOLEAN,
           NEW creations \in SUBSET net.creations,
           Picker!StartLoad(u, selected, after, id, mounted, creations),
           UNCHANGED srv,
           srv.overtaken \/ /\ after = "create" => id \in srv.live
                            /\ ui.page = "portal" => selected = ui.selected,
           ui.page = "portal" /\ ui.open /\ u.created # 0 =>
               srv.overtaken \/ u.created \in srv.live
    PROVE  PickerInv'
<1>1. /\ ui \in PickerPage /\ net \in PickerCalls /\ srv \in PickerStore /\ srv' = srv
      /\ IsFiniteSet(net.creations) /\ ui.kept = ui.selected
    BY DEF PickerInv
<1>2. PICK n \in Nat : /\ n = Len(net.loads) /\ DOMAIN net.loads = 1 .. n
                       /\ \A j \in 1 .. n : net.loads[j] \in Picker!Load
    BY <1>1, PickerLoadsAre DEF PickerCalls
<1>3. PICK l : l = Picker!NewLoad(FALSE, selected, after, id, mounted)
    OBVIOUS
<1>4. /\ l \in Picker!Load /\ ~l.served /\ l.selected = selected /\ l.after = after
      /\ l.id = id
    BY <1>3 DEF Picker!NewLoad, Picker!Load
<1>5. PICK hidden : hidden = {Picker!HiddenFor(c) : c \in creations}
    OBVIOUS
<1>6. creations \in SUBSET Picker!Creation /\ IsFiniteSet(creations)
    BY <1>1, FS_Subset DEF PickerCalls
<1>7. /\ hidden \in SUBSET Picker!Creation /\ IsFiniteSet(hidden)
      /\ SameCreations(creations, hidden)
    BY <1>5, <1>6, CreationsHidden
<1>8. PICK loads : loads = Append(net.loads, l)
    OBVIOUS
<1>9. /\ loads \in PickerLoads /\ Len(loads) = n + 1 /\ loads[n + 1] = l
      /\ \A j \in 1 .. n : loads[j] = net.loads[j]
    BY <1>1, <1>2, <1>4, <1>8 DEF PickerCalls, PickerLoads
<1>10. net'.loads = loads /\ net'.creations = hidden /\ net' \in PickerCalls
    BY <1>3, <1>5, <1>7, <1>8, <1>9 DEF Picker!StartLoad, PickerCalls
<1>11. PICK w : w = [u EXCEPT !.loading = TRUE, !.error = FALSE]
    OBVIOUS
<1>12. /\ w \in PickerPage /\ w.page = ui.page /\ w.selected = ui.selected
       /\ w.kept = ui.selected /\ w.open = ui.open /\ w.created = u.created
    BY <1>1, <1>11 DEF PickerPage
<1>13. ui' = IF w.page = "portal" THEN w
             ELSE [w EXCEPT !.filled = FALSE, !.busy = FALSE, !.refused = FALSE, !.created = 0]
    BY <1>11 DEF Picker!StartLoad, Picker!Hidden
<1>14. /\ ui' \in PickerPage /\ ui'.kept = ui'.selected /\ ui'.page = ui.page
       /\ ui'.selected = ui.selected /\ ui'.open = ui.open
       /\ ui.page = "portal" => ui'.created = u.created
    <2>1. CASE w.page = "portal"
        BY <1>12, <1>13, <2>1
    <2>2. CASE w.page # "portal"
        <3>1. ui' = [w EXCEPT !.filled = FALSE, !.busy = FALSE, !.refused = FALSE,
                              !.created = 0]
            BY <1>13, <2>2
        <3>2. 0 \in Picker!MaybeClass
            BY PickerBounds
        <3> QED
            BY <1>12, <2>2, <3>1, <3>2 DEF PickerPage
    <2> QED
        BY <2>1, <2>2
<1>15. PICK over \in BOOLEAN : srv.overtaken = over
    BY <1>1 DEF PickerStore
<1>16. Goes(ui, srv, ui', srv')
    BY <1>1, <1>14, <1>15 DEF Goes
<1>17. ASSUME NEW j \in 1 .. n + 1 PROVE LoadFits(loads[j], ui', srv')
    <2>1. CASE j = n + 1
        <3>1. loads[j] = l
            BY <1>9, <2>1
        <3> QED
            BY <1>1, <1>4, <1>14, <3>1 DEF LoadFits
    <2>2. CASE j \in 1 .. n
        <3>1. loads[j] = net.loads[j] /\ SameLoad(net.loads[j], loads[j])
            BY <1>9, <2>2 DEF SameLoad
        <3>2. LoadFits(net.loads[j], ui, srv)
            BY <1>2, <2>2 DEF PickerInv
        <3> QED
            BY <1>16, <3>1, <3>2, LoadStays
    <2> QED
        BY <2>1, <2>2
<1>18. ASSUME NEW d \in hidden PROVE CreationFits(d, ui', srv')
    <2>1. PICK c \in creations : SameCreation(c, d)
        BY <1>7 DEF SameCreations
    <2>2. CreationFits(c, ui, srv)
        BY DEF PickerInv
    <2> QED
        BY <1>16, <2>1, <2>2, CreationStays
<1>19. LastFits(loads, hidden, ui', srv')
    BY <1>4, <1>9 DEF LastFits
<1>20. PickerSettled(ui', loads, hidden, srv')
    BY <1>9 DEF PickerSettled
<1>21. CodeFits(ui', loads, hidden, srv')
    BY <1>1, <1>14 DEF CodeFits
<1> QED
    BY <1>1, <1>7, <1>9, <1>10, <1>14, <1>17, <1>18, <1>19, <1>20, <1>21 DEF PickerInv

LEMMA PickerSyncs ==
    ASSUME FormsAssumption, PickerInv, Picker!Sync
    PROVE  PickerInv'
<1>1. /\ ui \in PickerPage /\ 0 \in Picker!MaybeClass /\ ui.selected \in Picker!MaybeClass
      /\ Picker!StartLoad(ui, ui.selected, "sync", 0, TRUE, net.creations)
      /\ UNCHANGED srv /\ "sync" \in Picker!Offered
    BY PickerBounds DEF PickerInv, PickerPage, Picker!Sync
<1>2. ~(ui.page = "portal" /\ ui.open)
    BY <1>1, Zenon DEF Picker!Offered, Picker!DialogShown, Picker!Portal
<1> QED
    BY <1>1, <1>2, PickerStarts

LEMMA PickerRetries ==
    ASSUME FormsAssumption, PickerInv, Picker!Retry
    PROVE  PickerInv'
<1>1. /\ ui \in PickerPage /\ 0 \in Picker!MaybeClass /\ ui.selected \in Picker!MaybeClass
      /\ Picker!StartLoad(ui, ui.selected, "nothing", 0, TRUE, net.creations)
      /\ UNCHANGED srv /\ ~Picker!DialogShown
    BY PickerBounds DEF PickerInv, PickerPage, Picker!Retry
<1>2. ~(ui.page = "portal" /\ ui.open)
    BY <1>1, Zenon DEF Picker!DialogShown, Picker!Portal
<1> QED
    BY <1>1, <1>2, PickerStarts

LEMMA PickerCreates ==
    ASSUME FormsAssumption, PickerInv, NEW c \in net.creations, Picker!Created(c)
    PROVE  PickerInv'
<1>1. /\ ui \in PickerPage /\ c \in Picker!Creation /\ c.reply = "ok" /\ UNCHANGED srv
      /\ srv \in PickerStore
    BY DEF PickerInv, PickerCalls, Picker!Created
<1>2. /\ c.id \in Picker!MaybeClass /\ c.selected \in Picker!MaybeClass
      /\ c.mounted \in BOOLEAN
    BY <1>1 DEF Picker!Creation
<1>3. PICK u : u = IF c.mounted THEN [ui EXCEPT !.created = c.id] ELSE ui
    OBVIOUS
<1>4. /\ u \in PickerPage /\ u.page = ui.page /\ u.selected = ui.selected
      /\ u.kept = ui.kept /\ u.open = ui.open /\ u.created \in {c.id, ui.created}
    <2>1. CASE c.mounted
        <3>1. u = [ui EXCEPT !.created = c.id]
            BY <1>3, <2>1
        <3> QED
            BY <1>1, <1>2, <3>1 DEF PickerPage
    <2>2. CASE ~c.mounted
        BY <1>1, <1>3, <2>2
    <2> QED
        BY <2>1, <2>2
<1>5. Picker!StartLoad(u, c.selected, "create", c.id, c.mounted, net.creations \ {c})
    BY <1>3 DEF Picker!Created
<1>6. CreationFits(c, ui, srv)
    BY DEF PickerInv
<1>7. srv.overtaken \/ /\ c.id \in srv.live
                       /\ ui.page = "portal" => c.selected = ui.selected
    BY <1>1, <1>6, Zenon DEF CreationFits
<1>8. ui.page = "portal" /\ ui.open /\ ui.created # 0 =>
          srv.overtaken \/ ui.created \in srv.live
    <2>1. CodeFits(ui, net.loads, net.creations, srv) /\ net.creations # {}
        BY DEF PickerInv
    <2> QED
        BY <2>1, Zenon DEF CodeFits
<1>9. ui.page = "portal" /\ ui.open /\ u.created # 0 =>
          srv.overtaken \/ u.created \in srv.live
    BY <1>4, <1>7, <1>8
<1> QED
    BY <1>1, <1>2, <1>4, <1>5, <1>7, <1>9, PickerStarts

LEMMA PickerDialogSteps ==
    ASSUME FormsAssumption, PickerInv,
           Picker!OpenCreate \/ Picker!FillIn \/ Picker!SubmitEmpty
    PROVE  PickerInv'
<1>1. ui \in PickerPage /\ 0 \in Picker!MaybeClass
    BY PickerBounds DEF PickerInv
<1>2. CASE Picker!OpenCreate
    <2>1. /\ ui' = [ui EXCEPT !.open = TRUE, !.filled = FALSE, !.refused = FALSE,
                              !.created = 0]
          /\ UNCHANGED <<net, srv>>
        BY <1>2 DEF Picker!OpenCreate
    <2>2. /\ ui' \in PickerPage /\ ui'.page = ui.page /\ ui'.selected = ui.selected
          /\ ui'.kept = ui.kept /\ ui'.shown = ui.shown /\ ui'.error = ui.error
          /\ ui'.doubt = ui.doubt /\ ui'.created = 0
        BY <1>1, <2>1 DEF PickerPage
    <2> QED
        BY <2>1, <2>2, PickerPageStep
<1>3. CASE Picker!FillIn
    <2>1. PICK filled \in BOOLEAN : filled = ~ui.filled
        OBVIOUS
    <2>2. ui' = [ui EXCEPT !.filled = filled] /\ UNCHANGED <<net, srv>>
        BY <1>1, <1>3, <2>1 DEF Picker!FillIn, PickerPage
    <2>3. /\ ui' \in PickerPage /\ ui'.page = ui.page /\ ui'.selected = ui.selected
          /\ ui'.kept = ui.kept /\ ui'.shown = ui.shown /\ ui'.error = ui.error
          /\ ui'.doubt = ui.doubt /\ ui'.open = ui.open /\ ui'.created = ui.created
        BY <1>1, <2>2 DEF PickerPage
    <2> QED
        BY <2>2, <2>3, PickerPageStep
<1>4. CASE Picker!SubmitEmpty
    <2>1. ui' = [ui EXCEPT !.refused = TRUE] /\ UNCHANGED <<net, srv>>
        BY <1>4 DEF Picker!SubmitEmpty
    <2>2. /\ ui' \in PickerPage /\ ui'.page = ui.page /\ ui'.selected = ui.selected
          /\ ui'.kept = ui.kept /\ ui'.shown = ui.shown /\ ui'.error = ui.error
          /\ ui'.doubt = ui.doubt /\ ui'.open = ui.open /\ ui'.created = ui.created
        BY <1>1, <2>1 DEF PickerPage
    <2> QED
        BY <2>1, <2>2, PickerPageStep
<1> QED
    BY <1>2, <1>3, <1>4

LEMMA PickerSubmits ==
    ASSUME FormsAssumption, PickerInv, Picker!SubmitClass
    PROVE  PickerInv'
<1>1. /\ ui \in PickerPage /\ net \in PickerCalls /\ srv \in PickerStore /\ srv' = srv
      /\ IsFiniteSet(net.creations) /\ ui.kept = ui.selected /\ ui.created = 0
    BY DEF PickerInv, Picker!SubmitClass, Picker!MaySubmit
<1>2. PICK d : d = [reply |-> "none", id |-> 0, mounted |-> TRUE, selected |-> ui.selected]
    OBVIOUS
<1>3. d \in Picker!Creation /\ d.reply = "none" /\ d.selected = ui.selected
    BY <1>1, <1>2, PickerBounds DEF Picker!Creation, PickerPage
<1>4. PICK new : new = net.creations \cup {d}
    OBVIOUS
<1>5. /\ net' \in PickerCalls /\ net'.loads = net.loads /\ net'.creations = new
      /\ IsFiniteSet(net'.creations)
    <2>1. net \in [loads : PickerLoads, creations : SUBSET Picker!Creation]
        BY <1>1 DEF PickerCalls
    <2>2. net' = [net EXCEPT !.creations = new] /\ new \in SUBSET Picker!Creation
        BY <1>2, <1>3, <1>4, <2>1 DEF Picker!SubmitClass
    <2>3. IsFiniteSet(new)
        BY <1>1, <1>4, FS_AddElement
    <2>4. /\ net' \in [loads : PickerLoads, creations : SUBSET Picker!Creation]
          /\ net'.loads = net.loads /\ net'.creations = new
        BY <2>1, <2>2
    <2> QED
        BY <2>3, <2>4 DEF PickerCalls
<1>6. ui' = [ui EXCEPT !.busy = TRUE, !.refused = FALSE]
    BY DEF Picker!SubmitClass
<1>7. /\ ui' \in PickerPage /\ ui'.page = ui.page /\ ui'.selected = ui.selected
      /\ ui'.kept = ui.kept /\ ui'.shown = ui.shown /\ ui'.error = ui.error
      /\ ui'.doubt = ui.doubt /\ ui'.created = 0
    BY <1>1, <1>6 DEF PickerPage
<1>8. PICK over \in BOOLEAN : srv.overtaken = over
    BY <1>1 DEF PickerStore
<1>9. Goes(ui, srv, ui', srv')
    BY <1>1, <1>7, <1>8 DEF Goes
<1>10. \A k \in 1 .. Len(net.loads) : SameLoad(net.loads[k], net'.loads[k])
    BY <1>5 DEF SameLoad
<1>11. \A k \in 1 .. Len(net'.loads) : LoadFits(net'.loads[k], ui', srv')
    BY <1>5, <1>9, <1>10, PickerLoadsStay
<1>12. ASSUME NEW c \in net'.creations PROVE CreationFits(c, ui', srv')
    <2>1. CASE c = d
        BY <1>3, <1>7, <2>1 DEF CreationFits
    <2>2. CASE c # d
        <3>1. c \in net.creations /\ SameCreation(c, c)
            BY <1>4, <1>5, <2>2 DEF SameCreation
        <3> QED
            BY <1>9, <3>1, PickerCreationsStay
    <2> QED
        BY <2>1, <2>2
<1>13. ClassPending(net.creations) <=> ClassPending(net'.creations)
    BY <1>3, <1>4, <1>5 DEF ClassPending
<1>14. LastFits(net'.loads, net'.creations, ui', srv')
    BY <1>1, <1>5, <1>7, <1>10, <1>13, PickerLastStays
<1>15. PickerSettled(ui', net'.loads, net'.creations, srv')
    <2>1. PickerSettled(ui, net.loads, net.creations, srv)
        BY DEF PickerInv
    <2> QED
        BY <1>1, <1>5, <1>7, <1>13, <2>1 DEF PickerSettled, SelectedFits
<1>16. CodeFits(ui', net'.loads, net'.creations, srv')
    BY <1>7 DEF CodeFits
<1> QED
    BY <1>1, <1>5, <1>7, <1>11, <1>12, <1>14, <1>15, <1>16 DEF PickerInv

LEMMA PickerCreationIsLost ==
    ASSUME PickerInv, NEW c \in net.creations, Picker!CreationFails(c)
    PROVE  PickerInv'
<1>1. /\ ui \in PickerPage /\ net \in PickerCalls /\ srv \in PickerStore /\ srv' = srv
      /\ IsFiniteSet(net.creations) /\ ui.kept = ui.selected
    BY DEF PickerInv, Picker!CreationFails
<1>2. PICK n \in Nat : /\ n = Len(net.loads) /\ DOMAIN net.loads = 1 .. n
                       /\ \A j \in 1 .. n : net.loads[j] \in Picker!Load
    BY <1>1, PickerLoadsAre DEF PickerCalls
<1>3. PICK missed \in BOOLEAN : missed <=> c.reply = "ok"
    <2>1. (c.reply = "ok") \in BOOLEAN
        OBVIOUS
    <2> QED
        BY <2>1
<1>4. PICK late : late = [j \in 1 .. n |-> net.loads[j].late \/ missed]
    OBVIOUS
<1>5. PICK loads : loads = [j \in 1 .. n |-> [net.loads[j] EXCEPT !.late = late[j]]]
    OBVIOUS
<1>6. ASSUME NEW j \in 1 .. n
      PROVE  /\ loads[j] \in Picker!Load /\ SameLoad(net.loads[j], loads[j])
             /\ missed => loads[j].late
             /\ loads[j] = [net.loads[j] EXCEPT !.late = @ \/ missed]
    <2>1. PICK l \in Picker!Load : l = net.loads[j]
        BY <1>2
    <2>2. late[j] = (l.late \/ missed) /\ late[j] \in BOOLEAN
        BY <1>4, <2>1
    <2>3. loads[j] = [l EXCEPT !.late = late[j]]
        BY <1>5, <2>1
    <2>4. loads[j] \in Picker!Load /\ SameLoad(l, loads[j]) /\ loads[j].late = late[j]
        BY <2>2, <2>3 DEF Picker!Load, SameLoad
    <2>5. loads[j] = [l EXCEPT !.late = @ \/ missed]
        BY <2>2, <2>3 DEF Picker!Load
    <2> QED
        BY <2>1, <2>2, <2>4, <2>5
<1>7. loads \in PickerLoads /\ Len(loads) = n
    BY <1>5, <1>6, PickerLoadsMade
<1>8. PICK new : new = net.creations \ {c}
    OBVIOUS
<1>9. net' = [loads |-> loads, creations |-> new]
    <2>1. loads = [k \in DOMAIN net.loads |-> [net.loads[k] EXCEPT !.late = @ \/ missed]]
        BY <1>2, <1>5, <1>6
    <2>2. missed = (c.reply = "ok")
        BY <1>3
    <2> QED
        BY <1>8, <2>1, <2>2 DEF Picker!CreationFails
<1>10. new \in SUBSET Picker!Creation /\ IsFiniteSet(new)
    BY <1>1, <1>8, FS_RemoveElement DEF PickerCalls
<1>11. net' \in PickerCalls /\ net'.loads = loads /\ net'.creations = new
    BY <1>7, <1>9, <1>10 DEF PickerCalls
<1>12. /\ ui' \in PickerPage /\ ui'.page = ui.page /\ ui'.selected = ui.selected
       /\ ui'.kept = ui.kept /\ ui'.shown = ui.shown /\ ui'.error = ui.error
       /\ ui'.doubt = (ui.doubt \/ missed) /\ ui'.open = ui.open
       /\ ui'.created = ui.created
    <2>1. c.mounted \in BOOLEAN
        BY <1>1 DEF PickerCalls, Picker!Creation
    <2>2. PICK busy \in BOOLEAN, refused \in BOOLEAN, doubt \in BOOLEAN :
              /\ busy = (ui.busy /\ ~c.mounted) /\ refused = (ui.refused \/ c.mounted)
              /\ doubt = (ui.doubt \/ missed)
        OBVIOUS
    <2>3. missed = (c.reply = "ok")
        BY <1>3
    <2>4. ui' = [ui EXCEPT !.busy = busy, !.refused = refused, !.doubt = doubt]
        BY <2>2, <2>3 DEF Picker!CreationFails
    <2> QED
        BY <1>1, <2>2, <2>4 DEF PickerPage
<1>13. PICK over \in BOOLEAN : srv.overtaken = over
    BY <1>1 DEF PickerStore
<1>14. Goes(ui, srv, ui', srv')
    BY <1>1, <1>12, <1>13 DEF Goes
<1>15. \A k \in 1 .. Len(net'.loads) : LoadFits(net'.loads[k], ui', srv')
    BY <1>2, <1>6, <1>7, <1>11, <1>14, PickerLoadsStay
<1>16. ASSUME NEW d \in net'.creations PROVE CreationFits(d, ui', srv')
    <2>1. d \in net.creations /\ SameCreation(d, d)
        BY <1>8, <1>11 DEF SameCreation
    <2> QED
        BY <1>14, <2>1, PickerCreationsStay
<1>17. ~missed => (ClassPending(net.creations) <=> ClassPending(net'.creations))
    BY <1>3, <1>8, <1>11 DEF ClassPending
<1>18. LastFits(net'.loads, net'.creations, ui', srv')
    <2>1. CASE missed
        <3>1. n > 0 => n \in 1 .. n
            OBVIOUS
        <3>2. n > 0 => loads[n].late
            BY <1>6, <2>1, <3>1
        <3> QED
            BY <1>7, <1>11, <3>2 DEF LastFits
    <2>2. CASE ~missed
        BY <1>1, <1>2, <1>6, <1>7, <1>11, <1>12, <1>17, <2>2, PickerLastStays
    <2> QED
        BY <2>1, <2>2
<1>19. PickerSettled(ui', net'.loads, net'.creations, srv')
    <2>1. PickerSettled(ui, net.loads, net.creations, srv)
        BY DEF PickerInv
    <2> QED
        BY <1>1, <1>2, <1>7, <1>11, <1>12, <1>17, <2>1 DEF PickerSettled, SelectedFits
<1>20. CodeFits(ui', net'.loads, net'.creations, srv')
    <2>1. CodeFits(ui, net.loads, net.creations, srv) /\ net.creations # {}
        BY DEF PickerInv
    <2> QED
        BY <1>1, <1>12, <2>1 DEF CodeFits
<1> QED
    BY <1>1, <1>10, <1>11, <1>12, <1>15, <1>16, <1>18, <1>19, <1>20 DEF PickerInv

LEMMA PickerCloses ==
    ASSUME PickerInv, Picker!CloseDialog
    PROVE  PickerInv'
<1>1. /\ ui \in PickerPage /\ net \in PickerCalls /\ srv \in PickerStore /\ srv' = srv
      /\ IsFiniteSet(net.creations) /\ ui.kept = ui.selected
    BY DEF PickerInv, Picker!CloseDialog
<1>2. PICK new : new = {Picker!HiddenFor(c) : c \in net.creations}
    OBVIOUS
<1>3. net.creations \in SUBSET Picker!Creation
    BY <1>1 DEF PickerCalls
<1>4. /\ new \in SUBSET Picker!Creation /\ IsFiniteSet(new)
      /\ SameCreations(net.creations, new)
    BY <1>1, <1>2, <1>3, CreationsHidden
<1>5. net' = [net EXCEPT !.creations = new]
    BY <1>2 DEF Picker!CloseDialog
<1>6. net' \in PickerCalls /\ net'.loads = net.loads /\ net'.creations = new
    <2>1. net \in [loads : PickerLoads, creations : SUBSET Picker!Creation]
        BY <1>1 DEF PickerCalls
    <2>2. /\ net' \in [loads : PickerLoads, creations : SUBSET Picker!Creation]
          /\ net'.loads = net.loads /\ net'.creations = new
        BY <1>4, <1>5, <2>1
    <2> QED
        BY <2>2 DEF PickerCalls
<1>7. /\ ui' \in PickerPage /\ ui'.page = ui.page /\ ui'.selected = ui.selected
      /\ ui'.kept = ui.kept /\ ui'.shown = ui.shown /\ ui'.error = ui.error
      /\ ui'.doubt = ui.doubt /\ ui'.open = FALSE
    <2>1. PICK portal \in BOOLEAN : portal = Picker!Portal
        BY DEF Picker!Portal
    <2>2. PICK filled \in BOOLEAN, busy \in BOOLEAN, refused \in BOOLEAN :
              /\ filled = (ui.filled /\ portal) /\ busy = (ui.busy /\ portal)
              /\ refused = (ui.refused /\ portal)
        OBVIOUS
    <2>3. ui' = [ui EXCEPT !.open = FALSE, !.filled = filled, !.busy = busy,
                           !.refused = refused]
        BY <2>1, <2>2 DEF Picker!CloseDialog
    <2> QED
        BY <1>1, <2>2, <2>3, ZenonT(40) DEF PickerPage
<1>8. PICK over \in BOOLEAN : srv.overtaken = over
    BY <1>1 DEF PickerStore
<1>9. Goes(ui, srv, ui', srv')
    BY <1>1, <1>7, <1>8 DEF Goes
<1>10. \A k \in 1 .. Len(net.loads) : SameLoad(net.loads[k], net'.loads[k])
    BY <1>6 DEF SameLoad
<1>11. \A k \in 1 .. Len(net'.loads) : LoadFits(net'.loads[k], ui', srv')
    BY <1>6, <1>9, <1>10, PickerLoadsStay
<1>12. ASSUME NEW d \in net'.creations PROVE CreationFits(d, ui', srv')
    <2>1. PICK c \in net.creations : SameCreation(c, d)
        BY <1>4, <1>6 DEF SameCreations
    <2> QED
        BY <1>9, <2>1, PickerCreationsStay
<1>13. ClassPending(net.creations) <=> ClassPending(net'.creations)
    BY <1>4, <1>6, PendingStays
<1>14. LastFits(net'.loads, net'.creations, ui', srv')
    BY <1>1, <1>6, <1>7, <1>10, <1>13, PickerLastStays
<1>15. PickerSettled(ui', net'.loads, net'.creations, srv')
    <2>1. PickerSettled(ui, net.loads, net.creations, srv)
        BY DEF PickerInv
    <2> QED
        BY <1>1, <1>6, <1>7, <1>13, <2>1 DEF PickerSettled, SelectedFits
<1>16. CodeFits(ui', net'.loads, net'.creations, srv')
    BY <1>7 DEF CodeFits
<1> QED
    BY <1>1, <1>4, <1>6, <1>7, <1>11, <1>12, <1>14, <1>15, <1>16 DEF PickerInv

LEMMA PickerGoes ==
    ASSUME FormsAssumption, PickerInv, Picker!GoToClass
    PROVE  PickerInv'
<1>1. /\ ui \in PickerPage /\ net \in PickerCalls /\ srv \in PickerStore
      /\ IsFiniteSet(net.creations) /\ ui.kept = ui.selected
    BY DEF PickerInv
<1>2. /\ ui.page = "portal" /\ ui.open /\ ui.created # 0
    BY Zenon DEF Picker!GoToClass, Picker!DialogShown, Picker!Portal
<1>3. /\ net' \in PickerCalls /\ Len(net'.loads) = Len(net.loads)
      /\ \A k \in 1 .. Len(net.loads) : SameLoad(net.loads[k], net'.loads[k])
      /\ IsFiniteSet(net'.creations) /\ SameCreations(net.creations, net'.creations)
    BY <1>1, PickerDetached DEF Picker!GoToClass
<1>4. PICK id : id = ui.created /\ id \in Picker!MaybeClass
    BY <1>1 DEF PickerPage
<1>5. PICK u : u = [ui EXCEPT !.selected = id, !.kept = id]
    OBVIOUS
<1>6. /\ u \in PickerPage /\ u.page = ui.page /\ u.selected = id /\ u.kept = id
      /\ u.shown = ui.shown /\ u.error = ui.error /\ u.doubt = ui.doubt
    BY <1>1, <1>4, <1>5 DEF PickerPage
<1>7. ui' = [u EXCEPT !.open = FALSE, !.filled = FALSE, !.busy = FALSE,
                      !.refused = FALSE, !.created = 0]
    BY <1>4, <1>5 DEF Picker!GoToClass, Picker!Synced, Picker!Select
<1>8. /\ ui' \in PickerPage /\ ui'.page = ui.page /\ ui'.selected = id /\ ui'.kept = id
      /\ ui'.shown = ui.shown /\ ui'.error = ui.error /\ ui'.doubt = ui.doubt
      /\ ui'.open = FALSE
    <2>1. 0 \in Picker!MaybeClass
        BY PickerBounds
    <2> QED
        BY <1>6, <1>7, <2>1 DEF PickerPage
<1>9. /\ srv' \in PickerStore /\ srv'.live = srv.live
      /\ srv.overtaken => srv'.overtaken
      /\ net'.loads # <<>> \/ net'.creations # {} => Goes(ui, srv, ui', srv')
    BY <1>8, PickerOvertaken DEF Picker!GoToClass
<1>10. \A k \in 1 .. Len(net'.loads) : LoadFits(net'.loads[k], ui', srv')
    BY <1>3, <1>9, PickerLoadsStay
<1>11. ASSUME NEW d \in net'.creations PROVE CreationFits(d, ui', srv')
    <2>1. PICK c \in net.creations : SameCreation(c, d)
        BY <1>3 DEF SameCreations
    <2> QED
        BY <1>9, <2>1, PickerCreationsStay
<1>12. ClassPending(net.creations) <=> ClassPending(net'.creations)
    BY <1>3, PendingStays
<1>13. LastFits(net'.loads, net'.creations, ui', srv')
    BY <1>3, <1>8, <1>9, <1>12, PickerLastStays
<1>14. PickerSettled(ui', net'.loads, net'.creations, srv')
    <2>1. ASSUME Len(net'.loads) = 0, ~ui'.error, ~ui'.doubt, ~ClassPending(net'.creations)
          PROVE  ui'.shown = srv'.live /\ SelectedFits(ui', srv'.overtaken)
        <3>1. ui.shown = srv.live
            BY <1>3, <1>8, <1>12, <2>1 DEF PickerInv, PickerSettled
        <3>2. srv.overtaken \/ id \in srv.live
            BY <1>2, <1>4, <1>8, <2>1, Zenon DEF PickerInv, CodeFits
        <3>3. ui'.shown = srv'.live /\ ui'.shown = srv.live
            BY <1>8, <1>9, <3>1
        <3>4. srv'.overtaken \/ ui'.selected \in ui'.shown
            BY <1>8, <1>9, <3>2, <3>3
        <3> QED
            BY <3>3, <3>4, Zenon DEF SelectedFits
    <2> QED
        BY <2>1, Zenon DEF PickerSettled
<1>15. CodeFits(ui', net'.loads, net'.creations, srv')
    BY <1>8 DEF CodeFits
<1> QED
    BY <1>3, <1>8, <1>9, <1>10, <1>11, <1>13, <1>14, <1>15 DEF PickerInv

LEMMA PickerKeepsInv ==
    ASSUME FormsAssumption, PickerInv, Picker!Next
    PROVE  PickerInv'
<1>1. CASE \E k \in DOMAIN net.loads :
               Picker!ServeLoad(k) \/ Picker!Loaded(k) \/ Picker!LoadFails(k)
    BY <1>1, PickerServesLoad, PickerLoadEnds, PickerLoadIsLost
<1>2. CASE \E c \in net.creations :
               Picker!ServeCreation(c) \/ Picker!Created(c) \/ Picker!CreationFails(c)
    BY <1>2, PickerServesCreation, PickerCreates, PickerCreationIsLost
<1>3. CASE \E id \in SchoolClasses : Picker!Removed(id) \/ Picker!SelectClass(id)
    BY <1>3, PickerRemoves, PickerSelectsClass
<1>4. CASE Picker!Sync \/ Picker!Retry
    BY <1>4, PickerSyncs, PickerRetries
<1>5. CASE Picker!OpenCreate \/ Picker!FillIn \/ Picker!SubmitEmpty
    BY <1>5, PickerDialogSteps
<1>6. CASE Picker!SubmitClass \/ Picker!CloseDialog \/ Picker!GoToClass
    BY <1>6, PickerSubmits, PickerCloses, PickerGoes
<1> QED
    BY <1>1, <1>2, <1>3, <1>4, <1>5, <1>6 DEF Picker!Next

LEMMA PickerProperties ==
    ASSUME PickerInv
    PROVE  Picker!TypeOK /\ Picker!ShownIsCurrent
<1>1. /\ ui \in PickerPage /\ net \in PickerCalls /\ srv \in PickerStore
      /\ ui.kept = ui.selected
    BY DEF PickerInv
<1>2. \A k \in DOMAIN net.loads : net.loads[k] \in Picker!Load
    BY <1>1, PickerLoadsAre DEF PickerCalls
<1>3. Picker!TypeOK
    BY <1>1, <1>2 DEF PickerPage, PickerCalls, PickerStore, Picker!TypeOK
<1>4. ASSUME net.loads = <<>>, net.creations = {}, ~ui.error, ~ui.doubt
      PROVE  /\ ui.shown = srv.live
             /\ \/ srv.overtaken \/ ui.selected \in ui.shown
                \/ ui.shown = {} /\ ui.selected = 0
    <2>1. Len(net.loads) = 0 /\ ~ClassPending(net.creations)
        BY <1>4 DEF ClassPending
    <2>2. PickerSettled(ui, net.loads, net.creations, srv)
        BY DEF PickerInv
    <2> QED
        BY <1>4, <2>1, <2>2, Zenon DEF PickerSettled, SelectedFits
<1>5. Picker!ShownIsCurrent
    BY <1>1, <1>4, Zenon DEF Picker!ShownIsCurrent
<1> QED
    BY <1>3, <1>5

-----------------------------------------------------------------------------
(* Managing a class.                                                       *)

CoursePage ==
    [page : Class!Pages, class : Class!Classes, shown : SUBSET Class!Item,
     selected : Subjects \cup {0}, chosen : BOOLEAN, loading : BOOLEAN, error : BOOLEAN,
     dialog : [op : Class!Ops \cup {"none"}, item : Class!Item \cup {<<>>}],
     busy : SUBSET Class!Ops, doubt : SUBSET Class!Lists]

CourseLoads == Seq(Class!Load)
CourseCalls == [loads : CourseLoads, ops : SUBSET Class!Change]

CourseStore ==
    [live : SUBSET Class!Item, used : SUBSET Class!Item, classOf : [Subjects -> Class!Classes]]

\* A load of the class brings the challenges as well, in the load that follows.
Brings(loaded, list) == loaded = list \/ (loaded = "main" /\ list = "tail")

\* A list is loaded, or a change of it is stored whose answer will have it loaded.
Awaited(list, loads) == \E k \in 1 .. Len(loads) : Brings(loads[k].list, list)
LaterComes(list, k, loads) ==
    \E j \in 1 .. Len(loads) : j > k /\ Brings(loads[j].list, list)
Changing(list, ops) == \E c \in ops : c.reply = "ok" /\ c.item[1] \in Class!Kinds[list]

StoredIn(store, list, arg) ==
    {i \in store.live :
       /\ i[1] \in Class!Kinds[list]
       /\ IF list = "topics" THEN i[2] = arg
          ELSE (IF i[1] = "member" THEN 1 ELSE store.classOf[i[2]]) = arg}

ShownIn(page, list) == {i \in page.shown : i[1] \in Class!Kinds[list]}

\* An answer holds items of its list.
FoundFits(load, page) ==
    /\ load.list \in Class!ListsOf[page.page]
    /\ \A i \in load.found : /\ i[1] \in Class!Kinds[load.list]
                             /\ load.list = "topics" => i[2] = load.arg

\* It holds what is stored if the page wants it and nothing comes after it.
FoundIsStored(k, loads, page, ops, store) ==
    LET load == loads[k] IN
    load.served /\ load.arg = Class!Wanted(load.list, page) =>
        \/ load.list \in load.late \/ load.found = StoredIn(store, load.list, load.arg)
        \/ Changing(load.list, ops) \/ LaterComes(load.list, k, loads)

\* What a list shows is stored, unless a load or a change will see to it.
ListFits(list, page, loads, ops, store) ==
    \/ list \in page.doubt \/ Changing(list, ops) \/ Awaited(list, loads)
    \/ ShownIn(page, list) = StoredIn(store, list, Class!Wanted(list, page))

CourseFits(page, loads, ops, store) ==
    /\ \A k \in 1 .. Len(loads) : FoundFits(loads[k], page)
    /\ \A k \in 1 .. Len(loads) : FoundIsStored(k, loads, page, ops, store)
    /\ \A list \in Class!ListsOf[page.page] : ListFits(list, page, loads, ops, store)

\* What a change is about.
ChangeFits(op, item) ==
    /\ op # "none" => item \in Class!Item
    /\ op \in {"saveSubject", "archiveSubject"} => item \in {"subject"} \X Subjects
    /\ op \in {"saveTopic", "archiveTopic"} => item \in {"topic"} \X Subjects

CourseInv ==
    /\ ui \in CoursePage /\ net \in CourseCalls /\ srv \in CourseStore
    /\ ChangeFits(ui.dialog.op, ui.dialog.item)
    /\ \A c \in net.ops : ChangeFits(c.op, c.item)
    /\ CourseFits(ui, net.loads, net.ops, srv)

LEMMA CourseBounds ==
    ASSUME FormsAssumption
    PROVE  /\ Subjects \subseteq Nat \ {0} /\ 1 \in Subjects /\ 0 \notin Subjects
           /\ Class!Classes \subseteq Nat
<1>1. Subjects \subseteq Nat \ {0} /\ 1 \in Subjects
    BY DEF FormsAssumption
<1> QED
    BY <1>1 DEF Class!Classes

LEMMA KindsAre ==
    /\ Class!Kinds["main"] = {"member", "subject"} /\ Class!Kinds["tail"] = {"ready"}
    /\ Class!Kinds["register"] = {"ready"} /\ Class!Kinds["subjects"] = {"subject"}
    /\ Class!Kinds["topics"] = {"topic"}
BY DEF Class!Kinds

LEMMA ListsAre ==
    /\ Class!ListsOf["class"] = {"main", "tail"}
    /\ Class!ListsOf["subjects"] = {"subjects", "topics"}
    /\ Class!ListsOf["challenges"] = {"register"}
    /\ Class!FirstList["class"] = "main" /\ Class!FirstList["subjects"] = "subjects"
    /\ Class!FirstList["challenges"] = "register"
BY DEF Class!ListsOf, Class!FirstList

\* The lists of a page are of different kinds of items.
LEMMA ListsDiffer ==
    ASSUME NEW page \in Class!Pages, NEW a \in Class!ListsOf[page],
           NEW b \in Class!ListsOf[page], a # b
    PROVE  Class!Kinds[a] \cap Class!Kinds[b] = {}
<1>1. page \in {"class", "subjects", "challenges"}
    BY DEF Class!Pages
<1>2. CASE page = "class"
    BY <1>2, ListsAre, KindsAre
<1>3. CASE page = "subjects"
    BY <1>3, ListsAre, KindsAre
<1>4. CASE page = "challenges"
    BY <1>4, ListsAre, KindsAre
<1> QED
    BY <1>1, <1>2, <1>3, <1>4

LEMMA ListsOfAPage ==
    ASSUME NEW page \in Class!Pages
    PROVE  /\ Class!ListsOf[page] \subseteq Class!Lists
           /\ Class!FirstList[page] \in Class!ListsOf[page]
           /\ \A list \in Class!ListsOf[page] :
                 Brings(Class!FirstList[page], list) \/ page = "subjects"
<1>1. page \in {"class", "subjects", "challenges"}
    BY DEF Class!Pages
<1>2. CASE page = "class"
    BY <1>2, ListsAre DEF Class!Lists, Brings
<1>3. CASE page = "subjects"
    BY <1>3, ListsAre DEF Class!Lists, Brings
<1>4. CASE page = "challenges"
    BY <1>4, ListsAre DEF Class!Lists, Brings
<1> QED
    BY <1>1, <1>2, <1>3, <1>4

LEMMA CourseLoadsAre ==
    ASSUME NEW loads \in CourseLoads
    PROVE  /\ Len(loads) \in Nat /\ DOMAIN loads = 1 .. Len(loads)
           /\ \A k \in 1 .. Len(loads) : loads[k] \in Class!Load
BY DEF CourseLoads

LEMMA CourseLoadsMade ==
    ASSUME NEW n \in Nat, NEW loads \in [1 .. n -> Class!Load]
    PROVE  loads \in CourseLoads /\ Len(loads) = n
BY DEF CourseLoads

LEMMA CourseRemoveAt ==
    ASSUME NEW loads \in CourseLoads, NEW k \in 1 .. Len(loads)
    PROVE  /\ Class!RemoveAt(loads, k) \in CourseLoads
           /\ Len(Class!RemoveAt(loads, k)) = Len(loads) - 1
           /\ \A j \in 1 .. Len(loads) - 1 :
                 Class!RemoveAt(loads, k)[j] = IF j < k THEN loads[j] ELSE loads[j + 1]
BY WithoutLoad DEF CourseLoads

LEMMA CourseNewLoad ==
    ASSUME NEW list \in Class!Lists, NEW arg \in Nat, NEW of \in Class!Ops \cup {"none"}
    PROVE  LET load == Class!NewLoad(list, arg, of) IN
           /\ load \in Class!Load /\ load.list = list /\ load.arg = arg /\ ~load.served
           /\ load.found = {} /\ load.late = {} /\ load.of = of
BY DEF Class!NewLoad, Class!Load

-----------------------------------------------------------------------------
(* What a step leaves of the lists.                                        *)

\* A load is sent, which may be of lists that are now wanted otherwise.
LEMMA CourseAppends ==
    ASSUME NEW loads \in CourseLoads, NEW page, NEW page2, NEW ops, NEW ops2, NEW store,
           NEW new \in Class!Load, CourseFits(page, loads, ops, store),
           ~new.served, FoundFits(new, page), page2.page = page.page,
           \A list \in Class!ListsOf[page.page] :
              \/ Brings(new.list, list)
              \/ /\ Class!Wanted(list, page2) = Class!Wanted(list, page)
                 /\ ShownIn(page2, list) = ShownIn(page, list)
                 /\ list \in page.doubt => list \in page2.doubt
                 /\ Changing(list, ops) => Changing(list, ops2)
    PROVE  /\ Append(loads, new) \in CourseLoads
           /\ CourseFits(page2, Append(loads, new), ops2, store)
<1>1. PICK n \in Nat : /\ n = Len(loads) /\ DOMAIN loads = 1 .. n
                       /\ \A k \in 1 .. n : loads[k] \in Class!Load
    BY CourseLoadsAre
<1>2. PICK m : m = Append(loads, new)
    OBVIOUS
<1>3. /\ m \in CourseLoads /\ Len(m) = n + 1 /\ m[n + 1] = new
      /\ \A k \in 1 .. n : m[k] = loads[k]
    BY <1>1, <1>2 DEF CourseLoads
<1>4. ASSUME NEW list, Brings(new.list, list) \/ Awaited(list, loads)
      PROVE  Awaited(list, m)
    <2>1. n + 1 \in 1 .. n + 1
        OBVIOUS
    <2>2. CASE Brings(new.list, list)
        BY <1>3, <2>1, <2>2 DEF Awaited
    <2>3. CASE Awaited(list, loads)
        <3>1. PICK k \in 1 .. n : Brings(loads[k].list, list)
            BY <1>1, <2>3 DEF Awaited
        <3>2. k \in 1 .. n + 1 /\ m[k] = loads[k]
            BY <1>3
        <3> QED
            BY <1>3, <3>1, <3>2 DEF Awaited
    <2> QED
        BY <1>4, <2>2, <2>3
<1>5. ASSUME NEW list, NEW k \in 1 .. n,
             Brings(new.list, list) \/ LaterComes(list, k, loads)
      PROVE  LaterComes(list, k, m)
    <2>1. n + 1 \in 1 .. n + 1 /\ n + 1 > k
        OBVIOUS
    <2>2. CASE Brings(new.list, list)
        BY <1>3, <2>1, <2>2 DEF LaterComes
    <2>3. CASE LaterComes(list, k, loads)
        <3>1. PICK j \in 1 .. n : j > k /\ Brings(loads[j].list, list)
            BY <1>1, <2>3 DEF LaterComes
        <3>2. j \in 1 .. n + 1 /\ m[j] = loads[j]
            BY <1>3
        <3> QED
            BY <1>3, <3>1, <3>2 DEF LaterComes
    <2> QED
        BY <1>5, <2>2, <2>3
<1>6. ASSUME NEW k \in 1 .. n + 1
      PROVE  FoundFits(m[k], page2) /\ FoundIsStored(k, m, page2, ops2, store)
    <2>1. CASE k = n + 1
        <3>1. m[k] = new
            BY <1>3, <2>1
        <3> QED
            BY <3>1 DEF FoundFits, FoundIsStored
    <2>2. CASE k \in 1 .. n
        <3>1. PICK l \in Class!Load : l = loads[k] /\ l = m[k]
            BY <1>1, <1>3, <2>2
        <3>2. FoundFits(l, page) /\ FoundIsStored(k, loads, page, ops, store)
            BY <1>1, <2>2, <3>1 DEF CourseFits
        <3>3. l.list \in Class!ListsOf[page.page] /\ FoundFits(l, page2)
            BY <3>2 DEF FoundFits
        <3>4. CASE Brings(new.list, l.list)
            BY <1>5, <2>2, <3>1, <3>3, <3>4 DEF FoundIsStored
        <3>5. CASE ~Brings(new.list, l.list)
            <4>1. /\ Class!Wanted(l.list, page2) = Class!Wanted(l.list, page)
                  /\ Changing(l.list, ops) => Changing(l.list, ops2)
                BY <3>3, <3>5
            <4>2. LaterComes(l.list, k, loads) => LaterComes(l.list, k, m)
                BY <1>5, <2>2
            <4> QED
                BY <3>1, <3>2, <3>3, <4>1, <4>2 DEF FoundIsStored
        <3> QED
            BY <3>1, <3>4, <3>5
    <2> QED
        BY <2>1, <2>2
<1>7. ASSUME NEW list \in Class!ListsOf[page.page]
      PROVE  ListFits(list, page2, m, ops2, store)
    <2>1. CASE Brings(new.list, list)
        BY <1>4, <2>1 DEF ListFits
    <2>2. CASE ~Brings(new.list, list)
        <3>1. ListFits(list, page, loads, ops, store)
            BY DEF CourseFits
        <3>2. /\ Class!Wanted(list, page2) = Class!Wanted(list, page)
              /\ ShownIn(page2, list) = ShownIn(page, list)
              /\ list \in page.doubt => list \in page2.doubt
              /\ Changing(list, ops) => Changing(list, ops2)
            BY <2>2
        <3>3. Awaited(list, loads) => Awaited(list, m)
            BY <1>4
        <3> QED
            BY <3>1, <3>2, <3>3 DEF ListFits
    <2> QED
        BY <2>1, <2>2
<1> QED
    BY <1>2, <1>3, <1>6, <1>7 DEF CourseFits

\* What is left when a load ends.
LEMMA CourseRest ==
    ASSUME net \in CourseCalls, NEW k \in 1 .. Len(net.loads)
    PROVE  LET rest == Class!Rest(k) IN
           /\ rest \in CourseLoads /\ Len(rest) = Len(net.loads) - 1
           /\ \A j \in 1 .. Len(net.loads) - 1 :
                 /\ j < k => /\ rest[j].list = net.loads[j].list
                             /\ rest[j].arg = net.loads[j].arg
                             /\ rest[j].served = net.loads[j].served
                             /\ rest[j].found = net.loads[j].found
                             /\ net.loads[j].late \subseteq rest[j].late
                             /\ \A list : Brings(net.loads[k].list, list) => list \in rest[j].late
                 /\ j >= k => rest[j] = net.loads[j + 1]
<1>1. PICK n \in Nat : /\ n = Len(net.loads) /\ DOMAIN net.loads = 1 .. n
                       /\ \A j \in 1 .. n : net.loads[j] \in Class!Load
    BY CourseLoadsAre DEF CourseCalls
<1>2. PICK lists : lists = IF net.loads[k].list = "main" THEN {"main", "tail"}
                           ELSE {net.loads[k].list}
    OBVIOUS
<1>3. lists \in SUBSET Class!Lists /\ \A list : Brings(net.loads[k].list, list) => list \in lists
    <2>1. net.loads[k].list \in Class!Lists
        BY <1>1 DEF Class!Load
    <2> QED
        BY <1>2, <2>1 DEF Class!Lists, Brings
<1>4. PICK marked : marked = [j \in 1 .. n |->
           IF j < k THEN [net.loads[j] EXCEPT !.late = net.loads[j].late \cup lists]
           ELSE net.loads[j]]
    OBVIOUS
<1>5. ASSUME NEW j \in 1 .. n
      PROVE  /\ marked[j] \in Class!Load
             /\ j < k => /\ marked[j].list = net.loads[j].list
                         /\ marked[j].arg = net.loads[j].arg
                         /\ marked[j].served = net.loads[j].served
                         /\ marked[j].found = net.loads[j].found
                         /\ marked[j].late = net.loads[j].late \cup lists
             /\ j >= k => marked[j] = net.loads[j]
    <2>1. PICK l \in Class!Load : l = net.loads[j]
        BY <1>1
    <2>2. CASE j < k
        <3>1. PICK late \in SUBSET Class!Lists : late = l.late \cup lists
            BY <1>3 DEF Class!Load
        <3>2. marked[j] = [l EXCEPT !.late = late]
            BY <1>4, <2>1, <2>2, <3>1
        <3>3. /\ marked[j] \in Class!Load /\ marked[j].list = l.list /\ marked[j].arg = l.arg
              /\ marked[j].served = l.served /\ marked[j].found = l.found
              /\ marked[j].late = late
            BY <3>2 DEF Class!Load
        <3>4. ~(j >= k)
            BY <1>1, <2>2
        <3> QED
            BY <2>1, <3>1, <3>3, <3>4
    <2>3. CASE ~(j < k)
        BY <1>4, <2>1, <2>3
    <2> QED
        BY <2>2, <2>3
<1>6. marked \in CourseLoads /\ Len(marked) = n
    <2>1. marked \in [1 .. n -> Class!Load]
        BY <1>4, <1>5
    <2> QED
        BY <2>1, CourseLoadsMade
<1>7. Class!Rest(k) = Class!RemoveAt(marked, k)
    <2>1. marked = [j \in DOMAIN net.loads |->
             IF j < k THEN [net.loads[j] EXCEPT !.late = @ \cup lists] ELSE net.loads[j]]
        BY <1>1, <1>4
    <2> QED
        BY <1>2, <2>1, Zenon DEF Class!Rest
<1>8. PICK rest : rest = Class!Rest(k)
    OBVIOUS
<1>9. /\ rest \in CourseLoads /\ Len(rest) = n - 1
      /\ \A j \in 1 .. n - 1 : rest[j] = IF j < k THEN marked[j] ELSE marked[j + 1]
    <2>1. k \in 1 .. Len(marked) /\ rest = Class!RemoveAt(marked, k)
        BY <1>1, <1>6, <1>7, <1>8
    <2>2. /\ rest \in CourseLoads /\ Len(rest) = Len(marked) - 1
          /\ \A j \in 1 .. Len(marked) - 1 :
                rest[j] = IF j < k THEN marked[j] ELSE marked[j + 1]
        BY <1>6, <2>1, CourseRemoveAt
    <2> QED
        BY <1>6, <2>2
<1>10. ASSUME NEW j \in 1 .. n - 1
       PROVE  /\ j < k => /\ rest[j].list = net.loads[j].list
                          /\ rest[j].arg = net.loads[j].arg
                          /\ rest[j].served = net.loads[j].served
                          /\ rest[j].found = net.loads[j].found
                          /\ net.loads[j].late \subseteq rest[j].late
                          /\ \A list : Brings(net.loads[k].list, list) => list \in rest[j].late
              /\ j >= k => rest[j] = net.loads[j + 1]
    <2>1. j \in 1 .. n /\ j + 1 \in 1 .. n
        BY <1>1
    <2>2. CASE j < k
        <3>1. rest[j] = marked[j] /\ ~(j >= k)
            BY <1>1, <1>9, <2>2
        <3>2. /\ rest[j].list = net.loads[j].list /\ rest[j].arg = net.loads[j].arg
              /\ rest[j].served = net.loads[j].served /\ rest[j].found = net.loads[j].found
              /\ rest[j].late = net.loads[j].late \cup lists
            BY <1>5, <2>1, <2>2, <3>1
        <3> QED
            BY <1>3, <3>1, <3>2
    <2>3. CASE ~(j < k)
        <3>1. rest[j] = marked[j + 1] /\ j + 1 >= k
            BY <1>1, <1>9, <2>1, <2>3
        <3> QED
            BY <1>5, <2>1, <2>3, <3>1
    <2> QED
        BY <2>2, <2>3
<1> QED
    BY <1>1, <1>8, <1>9, <1>10

\* A load has ended: it brought what its list shows, or the list is in doubt.
LEMMA CourseEnds ==
    ASSUME net \in CourseCalls, NEW k \in 1 .. Len(net.loads),
           NEW page, NEW page2, NEW ops, NEW store,
           CourseFits(page, net.loads, ops, store), page2.page = page.page,
           \A list \in Class!ListsOf[page.page] :
              /\ Class!Wanted(list, page2) = Class!Wanted(list, page)
              /\ \/ list \in page2.doubt
                 \/ /\ ~Brings(net.loads[k].list, list)
                    /\ ShownIn(page2, list) = ShownIn(page, list)
                    /\ list \in page.doubt => list \in page2.doubt
                 \/ /\ list = net.loads[k].list /\ net.loads[k].served
                    /\ list \notin net.loads[k].late
                    /\ net.loads[k].arg = Class!Wanted(list, page)
                    /\ ShownIn(page2, list) = net.loads[k].found
    PROVE  CourseFits(page2, Class!Rest(k), ops, store)
<1>1. PICK n \in Nat : /\ n = Len(net.loads) /\ DOMAIN net.loads = 1 .. n
                       /\ \A j \in 1 .. n : net.loads[j] \in Class!Load
    BY CourseLoadsAre DEF CourseCalls
<1>2. PICK rest : rest = Class!Rest(k)
    OBVIOUS
<1>3. PICK loads : loads = net.loads
    OBVIOUS
<1>4. /\ Len(rest) = n - 1
      /\ \A j \in 1 .. n - 1 :
            /\ j < k => /\ rest[j].list = loads[j].list /\ rest[j].arg = loads[j].arg
                        /\ rest[j].served = loads[j].served
                        /\ rest[j].found = loads[j].found
                        /\ loads[j].late \subseteq rest[j].late
                        /\ \A list : Brings(loads[k].list, list) => list \in rest[j].late
            /\ j >= k => rest[j] = loads[j + 1]
    BY <1>1, <1>2, <1>3, CourseRest
<1>5. ASSUME NEW i \in 1 .. n, i # k
      PROVE  \E j \in 1 .. n - 1 : /\ rest[j].list = loads[i].list
                                   /\ j = IF i < k THEN i ELSE i - 1
    <2>1. CASE i < k
        <3>1. i \in 1 .. n - 1
            BY <1>1, <2>1
        <3> QED
            BY <1>4, <2>1, <3>1
    <2>2. CASE ~(i < k)
        <3>1. i - 1 \in 1 .. n - 1 /\ i - 1 >= k /\ i - 1 + 1 = i
            BY <1>1, <1>5, <2>2
        <3>2. rest[i - 1] = loads[i]
            BY <1>4, <3>1
        <3> QED
            BY <2>2, <3>1, <3>2
    <2> QED
        BY <2>1, <2>2
<1>6. ASSUME NEW list, Awaited(list, loads), ~Brings(loads[k].list, list)
      PROVE  Awaited(list, rest)
    <2>1. PICK i \in 1 .. n : Brings(loads[i].list, list)
        BY <1>1, <1>3, <1>6 DEF Awaited
    <2>2. i # k
        BY <1>6, <2>1
    <2>3. PICK j \in 1 .. n - 1 : rest[j].list = loads[i].list
        BY <1>5, <2>2
    <2> QED
        BY <1>4, <2>1, <2>3 DEF Awaited
<1>7. ASSUME NEW list, LaterComes(list, k, loads)
      PROVE  Awaited(list, rest)
    <2>1. PICK i \in 1 .. n : i > k /\ Brings(loads[i].list, list)
        BY <1>1, <1>3, <1>7 DEF LaterComes
    <2>2. i # k
        BY <1>1, <2>1
    <2>3. PICK j \in 1 .. n - 1 : rest[j].list = loads[i].list
        BY <1>5, <2>2
    <2> QED
        BY <1>4, <2>1, <2>3 DEF Awaited
<1>8. ASSUME NEW j \in 1 .. n - 1
      PROVE  \E i \in 1 .. n :
                /\ i # k /\ j = IF i < k THEN i ELSE i - 1
                /\ rest[j].list = loads[i].list /\ rest[j].arg = loads[i].arg
                /\ rest[j].served = loads[i].served /\ rest[j].found = loads[i].found
                /\ loads[i].late \subseteq rest[j].late
                /\ i < k => \A list : Brings(loads[k].list, list) => list \in rest[j].late
    <2>1. CASE j < k
        <3>1. j \in 1 .. n /\ j # k
            BY <1>1, <2>1
        <3> QED
            BY <1>4, <2>1, <3>1
    <2>2. CASE ~(j < k)
        <3>1. j + 1 \in 1 .. n /\ j >= k /\ j + 1 # k /\ ~(j + 1 < k) /\ j + 1 - 1 = j
            BY <1>1, <2>2
        <3>2. rest[j] = loads[j + 1]
            BY <1>4, <3>1
        <3> QED
            BY <3>1, <3>2
    <2> QED
        BY <2>1, <2>2
<1>9. ASSUME NEW list, NEW i \in 1 .. n, i # k, NEW j \in 1 .. n - 1,
             j = IF i < k THEN i ELSE i - 1, LaterComes(list, i, loads),
             ~(i < k /\ Brings(loads[k].list, list))
      PROVE  LaterComes(list, j, rest)
    <2>1. PICK m \in 1 .. n : m > i /\ Brings(loads[m].list, list)
        BY <1>1, <1>3, <1>9 DEF LaterComes
    <2>2. m # k
        BY <1>1, <1>9, <2>1
    <2>3. PICK q \in 1 .. n - 1 : rest[q].list = loads[m].list /\ q = IF m < k THEN m ELSE m - 1
        BY <1>5, <2>2
    <2>4. q > j
        BY <1>1, <1>9, <2>1, <2>2, <2>3
    <2> QED
        BY <1>4, <2>1, <2>3, <2>4 DEF LaterComes
<1>10. ASSUME NEW j \in 1 .. n - 1
       PROVE  FoundFits(rest[j], page2) /\ FoundIsStored(j, rest, page2, ops, store)
    <2>1. PICK i \in 1 .. n :
              /\ i # k /\ j = IF i < k THEN i ELSE i - 1
              /\ rest[j].list = loads[i].list /\ rest[j].arg = loads[i].arg
              /\ rest[j].served = loads[i].served /\ rest[j].found = loads[i].found
              /\ loads[i].late \subseteq rest[j].late
              /\ i < k => \A list : Brings(loads[k].list, list) => list \in rest[j].late
        BY <1>8
    <2>2. FoundFits(loads[i], page) /\ FoundIsStored(i, loads, page, ops, store)
        BY <1>1, <1>3 DEF CourseFits
    <2>3. FoundFits(rest[j], page2) /\ loads[i].list \in Class!ListsOf[page.page]
        BY <2>1, <2>2 DEF FoundFits
    <2>4. Class!Wanted(loads[i].list, page2) = Class!Wanted(loads[i].list, page)
        BY <2>3
    <2>5. CASE i < k /\ Brings(loads[k].list, loads[i].list)
        BY <2>1, <2>3, <2>5 DEF FoundIsStored
    <2>6. CASE ~(i < k /\ Brings(loads[k].list, loads[i].list))
        <3>1. LaterComes(loads[i].list, i, loads) => LaterComes(loads[i].list, j, rest)
            BY <1>9, <2>1, <2>6
        <3> QED
            BY <2>1, <2>2, <2>3, <2>4, <3>1 DEF FoundIsStored
    <2> QED
        BY <2>3, <2>5, <2>6
<1>11. ASSUME NEW list \in Class!ListsOf[page.page]
       PROVE  ListFits(list, page2, rest, ops, store)
    <2>1. ListFits(list, page, loads, ops, store)
        BY <1>3 DEF CourseFits
    <2>2. Class!Wanted(list, page2) = Class!Wanted(list, page)
        OBVIOUS
    <2>3. CASE list \in page2.doubt
        BY <2>3 DEF ListFits
    <2>4. CASE /\ ~Brings(loads[k].list, list)
               /\ ShownIn(page2, list) = ShownIn(page, list)
               /\ list \in page.doubt => list \in page2.doubt
        <3>1. Awaited(list, loads) => Awaited(list, rest)
            BY <1>6, <2>4
        <3> QED
            BY <2>1, <2>2, <2>4, <3>1 DEF ListFits
    <2>5. CASE /\ list = loads[k].list /\ loads[k].served /\ list \notin loads[k].late
               /\ loads[k].arg = Class!Wanted(list, page)
               /\ ShownIn(page2, list) = loads[k].found
        <3>1. FoundIsStored(k, loads, page, ops, store)
            BY <1>1, <1>3 DEF CourseFits
        <3>2. \/ loads[k].found = StoredIn(store, list, loads[k].arg)
              \/ Changing(list, ops) \/ LaterComes(list, k, loads)
            BY <2>5, <3>1 DEF FoundIsStored
        <3> QED
            BY <1>7, <2>2, <2>5, <3>2 DEF ListFits
    <2> QED
        BY <1>3, <2>3, <2>4, <2>5
<1> QED
    BY <1>2, <1>4, <1>10, <1>11 DEF CourseFits

\* The page changes nothing of its lists, and no change is answered.
LEMMA CoursePageStep ==
    ASSUME NEW loads, NEW page, NEW page2, NEW ops, NEW ops2, NEW store,
           CourseFits(page, loads, ops, store), page2.page = page.page,
           page2.class = page.class, page2.selected = page.selected,
           page2.shown = page.shown, page2.doubt = page.doubt,
           \A list : Changing(list, ops) => Changing(list, ops2)
    PROVE  CourseFits(page2, loads, ops2, store)
<1>1. \A list : Class!Wanted(list, page2) = Class!Wanted(list, page)
    BY DEF Class!Wanted
<1>2. \A list : ShownIn(page2, list) = ShownIn(page, list)
    BY DEF ShownIn
<1>3. ASSUME NEW k \in 1 .. Len(loads)
      PROVE  FoundFits(loads[k], page2) /\ FoundIsStored(k, loads, page2, ops2, store)
    <2>1. FoundFits(loads[k], page) /\ FoundIsStored(k, loads, page, ops, store)
        BY DEF CourseFits
    <2> QED
        BY <1>1, <2>1 DEF FoundFits, FoundIsStored
<1>4. ASSUME NEW list \in Class!ListsOf[page.page]
      PROVE  ListFits(list, page2, loads, ops2, store)
    <2>1. ListFits(list, page, loads, ops, store)
        BY DEF CourseFits
    <2> QED
        BY <1>1, <1>2, <2>1 DEF ListFits
<1> QED
    BY <1>3, <1>4 DEF CourseFits

\* Without a subject there are no topics.
LEMMA CourseWithoutTopics ==
    ASSUME FormsAssumption, NEW loads \in CourseLoads, NEW page, NEW page2, NEW ops,
           NEW store \in CourseStore, CourseFits(page, loads, ops, store),
           page.page = "subjects", page2.page = "subjects", page2.class = page.class,
           page2.selected = 0, ShownIn(page2, "topics") = {},
           ShownIn(page2, "subjects") = ShownIn(page, "subjects"),
           "subjects" \in page.doubt => "subjects" \in page2.doubt
    PROVE  CourseFits(page2, loads, ops, store)
<1>1. Class!Wanted("subjects", page2) = Class!Wanted("subjects", page)
      /\ Class!Wanted("topics", page2) = 0
    BY DEF Class!Wanted
<1>2. \A i \in Class!Item : i[1] = "topic" => i[2] # 0
    BY CourseBounds DEF Class!Item
<1>3. StoredIn(store, "topics", 0) = {}
    <2>1. store.live \in SUBSET Class!Item
        BY DEF CourseStore
    <2> QED
        BY <1>2, <2>1, KindsAre DEF StoredIn
<1>4. ASSUME NEW k \in 1 .. Len(loads)
      PROVE  FoundFits(loads[k], page2) /\ FoundIsStored(k, loads, page2, ops, store)
    <2>1. FoundFits(loads[k], page) /\ FoundIsStored(k, loads, page, ops, store)
        BY DEF CourseFits
    <2>2. FoundFits(loads[k], page2)
        BY <2>1 DEF FoundFits
    <2>3. loads[k].list \in {"subjects", "topics"}
        BY <2>1, ListsAre DEF FoundFits
    <2>4. CASE loads[k].list = "subjects"
        BY <1>1, <2>1, <2>2, <2>4 DEF FoundIsStored
    <2>5. CASE loads[k].list = "topics" /\ loads[k].arg = 0
        <3>1. loads[k].found \in SUBSET Class!Item
            BY CourseLoadsAre DEF Class!Load
        <3>2. loads[k].found = {}
            BY <1>2, <2>1, <2>5, <3>1, KindsAre DEF FoundFits
        <3> QED
            BY <1>3, <2>2, <2>5, <3>2 DEF FoundIsStored
    <2>6. CASE loads[k].list = "topics" /\ loads[k].arg # 0
        BY <1>1, <2>2, <2>6 DEF FoundIsStored
    <2> QED
        BY <2>3, <2>4, <2>5, <2>6
<1>5. ASSUME NEW list \in {"subjects", "topics"}
      PROVE  ListFits(list, page2, loads, ops, store)
    <2>1. CASE list = "subjects"
        <3>1. ListFits("subjects", page, loads, ops, store)
            BY ListsAre DEF CourseFits
        <3> QED
            BY <1>1, <2>1, <3>1 DEF ListFits
    <2>2. CASE list = "topics"
        BY <1>1, <1>3, <2>2 DEF ListFits
    <2> QED
        BY <2>1, <2>2
<1> QED
    BY <1>4, <1>5, ListsAre DEF CourseFits

LEMMA CourseItems ==
    ASSUME NEW i \in Class!Item
    PROVE  /\ i[1] = "subject" => i \in {"subject"} \X Subjects
           /\ i[1] = "topic" => i \in {"topic"} \X Subjects
BY DEF Class!Item

LEMMA CourseStored ==
    ASSUME NEW list, NEW arg
    PROVE  Class!Stored(list, arg) = StoredIn(srv, list, arg)
BY DEF Class!Stored, Class!ClassOfItem, StoredIn

LEMMA CourseSent ==
    ASSUME net \in CourseCalls, NEW loads \in CourseLoads, net' = [net EXCEPT !.loads = loads]
    PROVE  net' \in CourseCalls /\ net'.loads = loads /\ net'.ops = net.ops
<1>1. net \in [loads : CourseLoads, ops : SUBSET Class!Change]
    BY DEF CourseCalls
<1>2. net' \in [loads : CourseLoads, ops : SUBSET Class!Change]
    BY <1>1
<1>3. net'.loads = loads /\ net'.ops = net.ops
    BY <1>1
<1> QED
    BY <1>2, <1>3 DEF CourseCalls

LEMMA CourseDone ==
    ASSUME NEW u \in CoursePage, NEW load
    PROVE  LET v == Class!Done(u, load) IN
           /\ v \in CoursePage /\ v.page = u.page /\ v.class = u.class
           /\ v.selected = u.selected /\ v.shown = u.shown /\ v.doubt = u.doubt
           /\ v.dialog = u.dialog /\ v.chosen = u.chosen /\ v.error = u.error
<1>1. PICK busy \in SUBSET Class!Ops : busy = u.busy \ {load.of}
    BY DEF CoursePage
<1>2. Class!Done(u, load) = [u EXCEPT !.loading = FALSE, !.busy = busy]
    BY <1>1 DEF Class!Done
<1> QED
    BY <1>2 DEF CoursePage

\* What an answer brings to the page.
LEMMA CourseShow ==
    ASSUME NEW load \in Class!Load, NEW u \in CoursePage, FoundFits(load, u)
    PROVE  LET v == Class!Show(load, u) IN
           /\ v \in CoursePage /\ v.page = u.page /\ v.class = u.class
           /\ v.selected = u.selected /\ v.dialog = u.dialog /\ v.chosen = u.chosen
           /\ ShownIn(v, load.list) = load.found
           /\ load.list \in load.late \/ load.arg # Class!Wanted(load.list, u) =>
                  load.list \in v.doubt
           /\ \A list \in Class!ListsOf[u.page] : list # load.list =>
                  /\ ShownIn(v, list) = ShownIn(u, list)
                  /\ list \in u.doubt => list \in v.doubt
<1>1. /\ load.list \in Class!Lists /\ load.found \in SUBSET Class!Item
      /\ u.shown \in SUBSET Class!Item /\ u.doubt \in SUBSET Class!Lists
      /\ u.page \in Class!Pages
    BY DEF Class!Load, CoursePage
<1>2. PICK shown \in SUBSET Class!Item :
          shown = {i \in u.shown : i[1] \notin Class!Kinds[load.list]} \cup load.found
    BY <1>1
<1>3. PICK doubt \in SUBSET Class!Lists :
          /\ doubt = Class!Doubt(load, u)
          /\ load.list \in load.late \/ load.arg # Class!Wanted(load.list, u) =>
                 load.list \in doubt
          /\ \A list : list \in u.doubt /\ list # load.list => list \in doubt
    BY <1>1 DEF Class!Doubt
<1>4. PICK v : v = Class!Show(load, u)
    OBVIOUS
<1>5. v = [u EXCEPT !.shown = shown, !.doubt = doubt]
    BY <1>2, <1>3, <1>4 DEF Class!Show
<1>6. /\ v \in CoursePage /\ v.page = u.page /\ v.class = u.class
      /\ v.selected = u.selected /\ v.dialog = u.dialog /\ v.chosen = u.chosen
      /\ v.shown = shown /\ v.doubt = doubt
    BY <1>5 DEF CoursePage
<1>7. load.list \in Class!ListsOf[u.page]
      /\ \A i \in load.found : i[1] \in Class!Kinds[load.list]
    BY DEF FoundFits
<1>8. ShownIn(v, load.list) = load.found
    BY <1>2, <1>6, <1>7 DEF ShownIn
<1>9. ASSUME NEW list \in Class!ListsOf[u.page], list # load.list
      PROVE  ShownIn(v, list) = ShownIn(u, list)
    <2>1. Class!Kinds[list] \cap Class!Kinds[load.list] = {}
        BY <1>1, <1>7, <1>9, ListsDiffer
    <2> QED
        BY <1>2, <1>6, <1>7, <2>1 DEF ShownIn
<1> QED
    BY <1>3, <1>4, <1>6, <1>8, <1>9

\* The lists after an answer, before what it leads to.
LEMMA CourseAnswered ==
    ASSUME CourseInv, NEW k \in 1 .. Len(net.loads), net.loads[k].served,
           NEW page2, page2.page = ui.page, page2.class = ui.class,
           page2.selected = ui.selected,
           page2.shown = Class!Show(net.loads[k], ui).shown,
           Class!Show(net.loads[k], ui).doubt \subseteq page2.doubt,
           net.loads[k].list = "main" => "tail" \in page2.doubt
    PROVE  Class!Rest(k) \in CourseLoads /\ CourseFits(page2, Class!Rest(k), net.ops, srv)
<1>1. /\ ui \in CoursePage /\ net \in CourseCalls /\ srv \in CourseStore
      /\ CourseFits(ui, net.loads, net.ops, srv)
    BY DEF CourseInv
<1>2. PICK load \in Class!Load : load = net.loads[k]
    BY <1>1, CourseLoadsAre DEF CourseCalls
<1>3. FoundFits(load, ui)
    BY <1>1, <1>2 DEF CourseFits
<1>4. PICK v : v = Class!Show(load, ui)
    OBVIOUS
<1>5. /\ ShownIn(v, load.list) = load.found
      /\ load.list \in load.late \/ load.arg # Class!Wanted(load.list, ui) =>
             load.list \in v.doubt
      /\ \A list \in Class!ListsOf[ui.page] : list # load.list =>
             /\ ShownIn(v, list) = ShownIn(ui, list)
             /\ list \in ui.doubt => list \in v.doubt
    BY <1>1, <1>3, <1>4, CourseShow
<1>6. ASSUME NEW list PROVE ShownIn(page2, list) = ShownIn(v, list)
    BY <1>2, <1>4 DEF ShownIn
<1>7. ASSUME NEW list \in Class!ListsOf[ui.page]
      PROVE  /\ Class!Wanted(list, page2) = Class!Wanted(list, ui)
             /\ \/ list \in page2.doubt
                \/ /\ ~Brings(load.list, list)
                   /\ ShownIn(page2, list) = ShownIn(ui, list)
                   /\ list \in ui.doubt => list \in page2.doubt
                \/ /\ list = load.list /\ load.served /\ list \notin load.late
                   /\ load.arg = Class!Wanted(list, ui)
                   /\ ShownIn(page2, list) = load.found
    <2>1. Class!Wanted(list, page2) = Class!Wanted(list, ui)
        BY DEF Class!Wanted
    <2>2. v.doubt \subseteq page2.doubt
        BY <1>2, <1>4
    <2>3. CASE list = load.list
        BY <1>2, <1>5, <1>6, <2>1, <2>2, <2>3
    <2>4. CASE list # load.list /\ Brings(load.list, list)
        BY <1>2, <2>1, <2>4 DEF Brings
    <2>5. CASE list # load.list /\ ~Brings(load.list, list)
        BY <1>5, <1>6, <2>1, <2>2, <2>5
    <2> QED
        BY <2>3, <2>4, <2>5
<1>8. Class!Rest(k) \in CourseLoads
    BY <1>1, CourseRest
<1> QED
    BY <1>1, <1>2, <1>7, <1>8, CourseEnds

\* What the page has after an answer is as it was, besides the lists.
LEMMA CourseGoesOn ==
    ASSUME CourseInv, ui' \in CoursePage, ui'.dialog = ui.dialog,
           NEW loads \in CourseLoads, net' = [net EXCEPT !.loads = loads], srv' = srv,
           CourseFits(ui', loads, net.ops, srv)
    PROVE  CourseInv'
<1>1. net \in CourseCalls /\ srv \in CourseStore
    BY DEF CourseInv
<1>2. net' \in CourseCalls /\ net'.loads = loads /\ net'.ops = net.ops
    BY <1>1, CourseSent
<1> QED
    BY <1>1, <1>2 DEF CourseInv

LEMMA CourseMainLoaded ==
    ASSUME FormsAssumption, CourseInv, NEW k \in 1 .. Len(net.loads), net.loads[k].served,
           Class!ClassMainLoaded(k), UNCHANGED srv
    PROVE  CourseInv'
<1>1. ui \in CoursePage /\ net \in CourseCalls /\ CourseFits(ui, net.loads, net.ops, srv)
    BY DEF CourseInv
<1>2. PICK load \in Class!Load : load = net.loads[k] /\ load.list = "main"
    BY <1>1, CourseLoadsAre DEF CourseCalls, Class!ClassMainLoaded
<1>3. FoundFits(load, ui)
    BY <1>1, <1>2 DEF CourseFits
<1>4. PICK v : v = Class!Show(load, ui) /\ ui' = v
    BY <1>2 DEF Class!ClassMainLoaded
<1>5. v \in CoursePage /\ v.page = ui.page /\ v.class = ui.class
      /\ v.selected = ui.selected /\ v.dialog = ui.dialog
    BY <1>1, <1>3, <1>4, CourseShow
<1>6. ui.page = "class"
    BY <1>1, <1>2, <1>3, ListsAre DEF FoundFits, CoursePage, Class!Pages
<1>7. PICK mid : mid = [v EXCEPT !.doubt = v.doubt \cup {"tail"}]
    OBVIOUS
<1>8. /\ mid.page = ui.page /\ mid.class = ui.class /\ mid.selected = ui.selected
      /\ mid.shown = v.shown /\ mid.doubt = v.doubt \cup {"tail"}
    BY <1>5, <1>7 DEF CoursePage
<1>9. Class!Rest(k) \in CourseLoads /\ CourseFits(mid, Class!Rest(k), net.ops, srv)
    BY <1>2, <1>4, <1>8, CourseAnswered
<1>10. PICK tail : tail = Class!NewLoad("tail", 1, load.of)
    OBVIOUS
<1>11. tail \in Class!Load /\ tail.list = "tail" /\ ~tail.served /\ tail.found = {}
    <2>1. "tail" \in Class!Lists /\ 1 \in Nat /\ load.of \in Class!Ops \cup {"none"}
        BY <1>2 DEF Class!Lists, Class!Load
    <2> QED
        BY <1>10, <2>1, CourseNewLoad
<1>12. PICK new : new = [tail EXCEPT !.late = load.late]
    OBVIOUS
<1>13. new \in Class!Load /\ new.list = "tail" /\ ~new.served /\ new.found = {}
    BY <1>2, <1>11, <1>12 DEF Class!Load
<1>14. FoundFits(new, mid)
    BY <1>6, <1>8, <1>13, ListsAre DEF FoundFits
<1>15. ASSUME NEW list \in Class!ListsOf[mid.page]
       PROVE  \/ Brings(new.list, list)
              \/ /\ Class!Wanted(list, v) = Class!Wanted(list, mid)
                 /\ ShownIn(v, list) = ShownIn(mid, list)
                 /\ list \in mid.doubt => list \in v.doubt
    <2>1. list \in {"main", "tail"}
        BY <1>6, <1>8, ListsAre
    <2>2. CASE list = "tail"
        BY <1>13, <2>2 DEF Brings
    <2>3. CASE list = "main"
        BY <1>5, <1>8, <2>3 DEF Class!Wanted, ShownIn
    <2> QED
        BY <2>1, <2>2, <2>3
<1>16. /\ Append(Class!Rest(k), new) \in CourseLoads
       /\ CourseFits(v, Append(Class!Rest(k), new), net.ops, srv)
    BY <1>5, <1>8, <1>9, <1>13, <1>14, <1>15, CourseAppends
<1>17. net' = [net EXCEPT !.loads = Append(Class!Rest(k), new)]
    BY <1>2, <1>10, <1>12 DEF Class!ClassMainLoaded
<1> QED
    BY <1>4, <1>5, <1>16, <1>17, CourseGoesOn

\* A load is sent again, for all the lists of its page.
LEMMA CourseLoadsAgain ==
    ASSUME FormsAssumption, NEW loads \in CourseLoads, NEW page \in CoursePage, NEW ops,
           NEW store, CourseFits(page, loads, ops, store),
           NEW list \in Class!ListsOf[page.page], NEW arg \in Nat,
           NEW of \in Class!Ops \cup {"none"}
    PROVE  LET more == Append(loads, Class!NewLoad(list, arg, of)) IN
           more \in CourseLoads /\ CourseFits(page, more, ops, store)
<1>1. PICK new : new = Class!NewLoad(list, arg, of)
    OBVIOUS
<1>2. list \in Class!Lists
    BY ListsOfAPage DEF CoursePage
<1>3. new \in Class!Load /\ new.list = list /\ ~new.served /\ new.found = {}
    BY <1>1, <1>2, CourseNewLoad
<1>4. FoundFits(new, page)
    BY <1>3 DEF FoundFits
<1> QED
    BY <1>1, <1>3, <1>4, CourseAppends

LEMMA CourseTailLoaded ==
    ASSUME FormsAssumption, CourseInv, NEW k \in 1 .. Len(net.loads), net.loads[k].served,
           Class!ClassTailLoaded(k) \/ Class!RegisterLoaded(k), UNCHANGED srv
    PROVE  CourseInv'
<1>1. ui \in CoursePage /\ net \in CourseCalls /\ CourseFits(ui, net.loads, net.ops, srv)
    BY DEF CourseInv
<1>2. PICK load \in Class!Load : load = net.loads[k] /\ load.list \in {"tail", "register"}
    BY <1>1, CourseLoadsAre DEF CourseCalls, Class!ClassTailLoaded, Class!RegisterLoaded
<1>3. FoundFits(load, ui)
    BY <1>1, <1>2 DEF CourseFits
<1>4. PICK v : v = Class!Show(load, ui)
    OBVIOUS
<1>5. v \in CoursePage /\ v.page = ui.page /\ v.class = ui.class
      /\ v.selected = ui.selected /\ v.dialog = ui.dialog /\ v.chosen = ui.chosen
    BY <1>1, <1>3, <1>4, CourseShow
<1>6. PICK w : w = Class!Done(v, load)
    OBVIOUS
<1>7. w \in CoursePage /\ w.page = ui.page /\ w.class = ui.class
      /\ w.selected = ui.selected /\ w.dialog = ui.dialog /\ w.chosen = ui.chosen
      /\ w.shown = v.shown /\ w.doubt = v.doubt
    BY <1>5, <1>6, CourseDone
<1>8. PICK chosen \in BOOLEAN, again \in BOOLEAN :
          /\ ui' = [w EXCEPT !.chosen = chosen, !.loading = again]
          /\ \/ ~again /\ net' = [net EXCEPT !.loads = Class!Rest(k)]
             \/ /\ again /\ load.list = "tail"
                /\ net' = [net EXCEPT !.loads =
                             Append(Class!Rest(k), Class!NewLoad("main", 1, "none"))]
             \/ /\ again /\ load.list = "register"
                /\ net' = [net EXCEPT !.loads =
                             Append(Class!Rest(k), Class!NewLoad("register", ui.class, "none"))]
    <2>1. PICK chosen \in BOOLEAN : chosen = (ui.chosen \/ load.found # {})
        OBVIOUS
    <2>2. CASE Class!ClassTailLoaded(k)
        <3>1. PICK again \in BOOLEAN :
                  again = ((~ui.chosen /\ load.found # {}) \/ load.of = "saveSubject")
            OBVIOUS
        <3>2. ui' = [w EXCEPT !.chosen = chosen, !.loading = again]
            BY <1>2, <1>4, <1>6, <1>7, <2>1, <2>2, <3>1 DEF Class!ClassTailLoaded
        <3>3. load.list = "tail"
            BY <1>2, <2>2 DEF Class!ClassTailLoaded
        <3>4. net' = [net EXCEPT !.loads = IF again
                        THEN Append(Class!Rest(k), Class!NewLoad("main", 1, "none"))
                        ELSE Class!Rest(k)]
            BY <1>2, <2>2, <3>1 DEF Class!ClassTailLoaded
        <3>5. again = TRUE \/ again = FALSE
            OBVIOUS
        <3> QED
            BY <3>2, <3>3, <3>4, <3>5, Zenon
    <2>3. CASE Class!RegisterLoaded(k)
        <3>1. PICK again \in BOOLEAN : again = (~ui.chosen /\ load.found # {})
            OBVIOUS
        <3>2. ui' = [w EXCEPT !.chosen = chosen, !.loading = again]
            BY <1>2, <1>4, <1>6, <1>7, <2>1, <2>3, <3>1 DEF Class!RegisterLoaded
        <3>3. load.list = "register"
            BY <1>2, <2>3 DEF Class!RegisterLoaded
        <3>4. net' = [net EXCEPT !.loads = IF again
                        THEN Append(Class!Rest(k), Class!NewLoad("register", ui.class, "none"))
                        ELSE Class!Rest(k)]
            BY <1>2, <2>3, <3>1 DEF Class!RegisterLoaded
        <3>5. again = TRUE \/ again = FALSE
            OBVIOUS
        <3> QED
            BY <3>2, <3>3, <3>4, <3>5, Zenon
    <2> QED
        BY <2>2, <2>3, Zenon
<1>9. /\ ui' \in CoursePage /\ ui'.page = ui.page /\ ui'.class = ui.class
      /\ ui'.selected = ui.selected /\ ui'.dialog = ui.dialog
      /\ ui'.shown = v.shown /\ ui'.doubt = v.doubt
    BY <1>7, <1>8 DEF CoursePage
<1>10. Class!Rest(k) \in CourseLoads /\ CourseFits(ui', Class!Rest(k), net.ops, srv)
    BY <1>2, <1>4, <1>9, CourseAnswered
<1>11. CASE ~again
    <2>1. net' = [net EXCEPT !.loads = Class!Rest(k)]
        BY <1>8, <1>11
    <2> QED
        BY <1>9, <1>10, <2>1, CourseGoesOn
<1>12. CASE again /\ load.list = "tail"
    <2>1. net' = [net EXCEPT !.loads =
                    Append(Class!Rest(k), Class!NewLoad("main", 1, "none"))]
        BY <1>8, <1>12
    <2>2. "main" \in Class!ListsOf[ui'.page]
        BY <1>1, <1>3, <1>9, <1>12, ListsAre DEF FoundFits, CoursePage, Class!Pages
    <2>3. LET more == Append(Class!Rest(k), Class!NewLoad("main", 1, "none")) IN
          more \in CourseLoads /\ CourseFits(ui', more, net.ops, srv)
        BY <1>9, <1>10, <2>2, CourseLoadsAgain
    <2> QED
        BY <1>9, <2>1, <2>3, CourseGoesOn
<1>13. CASE again /\ load.list # "tail"
    <2>1. net' = [net EXCEPT !.loads =
                    Append(Class!Rest(k), Class!NewLoad("register", ui.class, "none"))]
        BY <1>8, <1>13
    <2>2. load.list = "register" /\ "register" \in Class!ListsOf[ui'.page]
        BY <1>2, <1>3, <1>9, <1>13 DEF FoundFits
    <2>3. ui.class \in Nat
        BY <1>1, CourseBounds DEF CoursePage
    <2>4. LET more == Append(Class!Rest(k), Class!NewLoad("register", ui.class, "none")) IN
          more \in CourseLoads /\ CourseFits(ui', more, net.ops, srv)
        BY <1>9, <1>10, <2>2, <2>3, CourseLoadsAgain
    <2> QED
        BY <1>9, <2>1, <2>4, CourseGoesOn
<1> QED
    BY <1>11, <1>12, <1>13

LEMMA CourseTopicsLoaded ==
    ASSUME FormsAssumption, CourseInv, NEW k \in 1 .. Len(net.loads), net.loads[k].served,
           Class!TopicsLoaded(k), UNCHANGED srv
    PROVE  CourseInv'
<1>1. ui \in CoursePage /\ net \in CourseCalls /\ CourseFits(ui, net.loads, net.ops, srv)
    BY DEF CourseInv
<1>2. PICK load \in Class!Load : load = net.loads[k] /\ load.list = "topics"
    BY <1>1, CourseLoadsAre DEF CourseCalls, Class!TopicsLoaded
<1>3. FoundFits(load, ui)
    BY <1>1, <1>2 DEF CourseFits
<1>4. PICK v : v = Class!Show(load, ui)
    OBVIOUS
<1>5. v \in CoursePage /\ v.page = ui.page /\ v.class = ui.class
      /\ v.selected = ui.selected /\ v.dialog = ui.dialog
    BY <1>1, <1>3, <1>4, CourseShow
<1>6. PICK busy \in SUBSET Class!Ops : busy = v.busy \ {load.of}
    BY <1>5 DEF CoursePage
<1>7. ui' = [v EXCEPT !.busy = busy] /\ net' = [net EXCEPT !.loads = Class!Rest(k)]
    BY <1>2, <1>4, <1>6 DEF Class!TopicsLoaded
<1>8. /\ ui' \in CoursePage /\ ui'.page = ui.page /\ ui'.class = ui.class
      /\ ui'.selected = ui.selected /\ ui'.dialog = ui.dialog
      /\ ui'.shown = v.shown /\ ui'.doubt = v.doubt
    BY <1>5, <1>7 DEF CoursePage
<1>9. Class!Rest(k) \in CourseLoads /\ CourseFits(ui', Class!Rest(k), net.ops, srv)
    BY <1>2, <1>4, <1>8, CourseAnswered
<1> QED
    BY <1>7, <1>8, <1>9, CourseGoesOn

LEMMA LeastIs ==
    ASSUME NEW s \in SUBSET Nat, s # {}
    PROVE  Class!Least(s) \in s
<1>1. PICK top \in s : TRUE
    OBVIOUS
<1>2. PICK rows : rows = 0 .. top
    OBVIOUS
<1>3. IsFiniteSet(rows)
    BY <1>1, <1>2, FS_Interval
<1>4. PICK bad : bad = {0 .. m : m \in s \cap rows}
    OBVIOUS
<1>5. bad \subseteq SUBSET rows /\ 0 .. top \in bad
    BY <1>1, <1>2, <1>4
<1>6. PICK part \in bad :
          \A other \in bad : <<other, part>> \notin StrictSubsetOrdering(rows)
    BY <1>3, <1>5, FS_StrictSubsetOrderingWellFounded, FS_FiniteSubsetsOfFinite, WFMin
<1>7. PICK m \in s \cap rows : part = 0 .. m
    BY <1>4, <1>6
<1>8. ASSUME NEW n \in s
      PROVE  m =< n
    <2>1. SUFFICES ASSUME n < m PROVE FALSE
        BY <1>7
    <2>2. n \in s \cap rows /\ 0 .. n \in bad
        BY <1>1, <1>2, <1>4, <1>7, <2>1
    <2>3. 0 .. n \subseteq 0 .. m /\ m \in 0 .. m /\ m \notin 0 .. n
        BY <1>7, <2>1
    <2>4. <<0 .. n, part>> \in StrictSubsetOrdering(rows)
        BY <1>5, <1>6, <1>7, <2>2, <2>3 DEF StrictSubsetOrdering
    <2> QED
        BY <1>6, <2>2, <2>4
<1> QED
    BY <1>7, <1>8 DEF Class!Least

LEMMA CourseSubjectsLoaded ==
    ASSUME FormsAssumption, CourseInv, NEW k \in 1 .. Len(net.loads), net.loads[k].served,
           Class!SubjectsLoaded(k), UNCHANGED srv
    PROVE  CourseInv'
<1>1. /\ ui \in CoursePage /\ net \in CourseCalls /\ srv \in CourseStore
      /\ CourseFits(ui, net.loads, net.ops, srv)
    BY DEF CourseInv
<1>2. PICK load \in Class!Load : load = net.loads[k] /\ load.list = "subjects"
    BY <1>1, CourseLoadsAre DEF CourseCalls, Class!SubjectsLoaded
<1>3. FoundFits(load, ui)
    BY <1>1, <1>2 DEF CourseFits
<1>4. PICK v : v = Class!Show(load, ui)
    OBVIOUS
<1>5. v \in CoursePage /\ v.page = ui.page /\ v.class = ui.class
      /\ v.selected = ui.selected /\ v.dialog = ui.dialog
    BY <1>1, <1>3, <1>4, CourseShow
<1>6. PICK w : w = Class!Done(v, load)
    OBVIOUS
<1>7. w \in CoursePage /\ w.page = ui.page /\ w.class = ui.class
      /\ w.selected = ui.selected /\ w.dialog = ui.dialog
      /\ w.shown = v.shown /\ w.doubt = v.doubt
    BY <1>5, <1>6, CourseDone
<1>8. Class!Rest(k) \in CourseLoads /\ CourseFits(w, Class!Rest(k), net.ops, srv)
    BY <1>2, <1>4, <1>7, CourseAnswered
<1>9. PICK found : found = Class!Numbers(load.found)
    OBVIOUS
<1>10. found \in SUBSET Subjects
    <2>1. load.found \in SUBSET Class!Item /\ \A i \in load.found : i[1] = "subject"
        BY <1>2, <1>3, KindsAre DEF FoundFits, Class!Load
    <2>2. \A i \in load.found : i[2] \in Subjects
        BY <2>1, CourseItems
    <2> QED
        BY <1>9, <2>2 DEF Class!Numbers
<1>11. PICK selected : selected = IF found = {} THEN 0
                                  ELSE IF ui.selected \in found THEN ui.selected
                                  ELSE Class!Least(found)
    OBVIOUS
<1>12. selected \in Subjects \cup {0} /\ selected \in Nat
    <2>1. Subjects \subseteq Nat
        BY CourseBounds
    <2>2. found # {} => Class!Least(found) \in found
        BY <1>10, <2>1, LeastIs
    <2> QED
        BY <1>10, <1>11, <2>1, <2>2
<1>13. PICK u : u = [w EXCEPT !.selected = selected]
    OBVIOUS
<1>14. u \in CoursePage /\ u.page = ui.page /\ u.class = ui.class
       /\ u.selected = selected /\ u.dialog = ui.dialog
       /\ u.shown = w.shown /\ u.doubt = w.doubt
    BY <1>7, <1>12, <1>13 DEF CoursePage
<1>15. /\ ui' = IF selected = 0 THEN Class!Show(Class!NewLoad("topics", 0, "none"), u) ELSE u
       /\ net' = [net EXCEPT !.loads = IF selected \in {0, ui.selected} THEN Class!Rest(k)
                    ELSE Append(Class!Rest(k), Class!NewLoad("topics", selected, "none"))]
    BY <1>2, <1>4, <1>6, <1>9, <1>11, <1>13 DEF Class!SubjectsLoaded
<1>16. ui.page = "subjects"
    BY <1>1, <1>2, <1>3, ListsAre DEF FoundFits, CoursePage, Class!Pages
<1>17. PICK new : new = Class!NewLoad("topics", selected, "none")
    OBVIOUS
<1>18. /\ new \in Class!Load /\ new.list = "topics" /\ new.arg = selected
       /\ ~new.served /\ new.found = {} /\ new.late = {}
    <2>1. "topics" \in Class!Lists
        BY DEF Class!Lists
    <2> QED
        BY <1>12, <1>17, <2>1, CourseNewLoad, SMTT(30)
<1>19. FoundFits(new, u) /\ FoundFits(new, w)
    BY <1>7, <1>14, <1>16, <1>18, ListsAre DEF FoundFits
<1>20. CASE selected = 0
    <2>1. ui' = Class!Show(new, u) /\ net' = [net EXCEPT !.loads = Class!Rest(k)]
        BY <1>15, <1>17, <1>20
    <2>2. PICK x : x = Class!Show(new, u)
        OBVIOUS
    <2>3. /\ x \in CoursePage /\ x.page = u.page /\ x.class = u.class
          /\ x.selected = u.selected /\ x.dialog = u.dialog
          /\ ShownIn(x, "topics") = {}
          /\ ShownIn(x, "subjects") = ShownIn(u, "subjects")
          /\ "subjects" \in u.doubt => "subjects" \in x.doubt
        <3>1. "subjects" \in Class!ListsOf[u.page]
            BY <1>14, <1>16, ListsAre
        <3> QED
            BY <1>14, <1>18, <1>19, <2>2, <3>1, CourseShow, SMTT(30)
    <2>4. ShownIn(u, "subjects") = ShownIn(w, "subjects")
        BY <1>14 DEF ShownIn
    <2>5. CourseFits(x, Class!Rest(k), net.ops, srv)
        BY <1>1, <1>7, <1>8, <1>14, <1>16, <1>20, <2>3, <2>4, CourseWithoutTopics
    <2> QED
        BY <1>8, <1>14, <2>1, <2>2, <2>3, <2>5, CourseGoesOn
<1>21. CASE selected # 0 /\ selected = ui.selected
    <2>1. ui' = u /\ net' = [net EXCEPT !.loads = Class!Rest(k)]
        BY <1>15, <1>21
    <2>2. CourseFits(u, Class!Rest(k), net.ops, srv)
        BY <1>7, <1>8, <1>14, <1>21, CoursePageStep
    <2> QED
        BY <1>8, <1>14, <2>1, <2>2, CourseGoesOn
<1>22. CASE selected # 0 /\ selected # ui.selected
    <2>1. ui' = u /\ net' = [net EXCEPT !.loads = Append(Class!Rest(k), new)]
        BY <1>15, <1>17, <1>22
    <2>2. ASSUME NEW list \in Class!ListsOf[w.page]
          PROVE  \/ Brings(new.list, list)
                 \/ /\ Class!Wanted(list, u) = Class!Wanted(list, w)
                    /\ ShownIn(u, list) = ShownIn(w, list)
                    /\ list \in w.doubt => list \in u.doubt
        <3>1. list \in {"subjects", "topics"}
            BY <1>7, <1>16, ListsAre
        <3>2. CASE list = "topics"
            BY <1>18, <3>2 DEF Brings
        <3>3. CASE list = "subjects"
            BY <1>7, <1>14, <3>3 DEF Class!Wanted, ShownIn
        <3> QED
            BY <3>1, <3>2, <3>3
    <2>3. /\ Append(Class!Rest(k), new) \in CourseLoads
          /\ CourseFits(u, Append(Class!Rest(k), new), net.ops, srv)
        BY <1>7, <1>8, <1>14, <1>18, <1>19, <2>2, CourseAppends
    <2> QED
        BY <1>14, <2>1, <2>3, CourseGoesOn
<1> QED
    BY <1>20, <1>21, <1>22

LEMMA CourseLoadAnswered ==
    ASSUME FormsAssumption, CourseInv, NEW k \in 1 .. Len(net.loads), Class!LoadAnswered(k)
    PROVE  CourseInv'
<1>1. net.loads[k].served /\ UNCHANGED srv
    BY DEF Class!LoadAnswered
<1> QED
    BY <1>1, CourseMainLoaded, CourseTailLoaded, CourseSubjectsLoaded, CourseTopicsLoaded
    DEF Class!LoadAnswered

LEMMA CourseLoadFails ==
    ASSUME FormsAssumption, CourseInv, NEW k \in 1 .. Len(net.loads), Class!LoadFails(k)
    PROVE  CourseInv'
<1>1. /\ ui \in CoursePage /\ net \in CourseCalls /\ srv \in CourseStore
      /\ CourseFits(ui, net.loads, net.ops, srv)
    BY DEF CourseInv
<1>2. PICK load \in Class!Load : load = net.loads[k]
    BY <1>1, CourseLoadsAre DEF CourseCalls
<1>3. FoundFits(load, ui)
    BY <1>1, <1>2 DEF CourseFits
<1>4. PICK w : w = Class!Done(ui, load)
    OBVIOUS
<1>5. w \in CoursePage /\ w.page = ui.page /\ w.class = ui.class
      /\ w.selected = ui.selected /\ w.dialog = ui.dialog
      /\ w.shown = ui.shown /\ w.doubt = ui.doubt
    BY <1>1, <1>4, CourseDone
<1>6. PICK error \in BOOLEAN : error = (w.error \/ load.list = "register")
    OBVIOUS
<1>7. PICK loading \in BOOLEAN :
          loading = IF load.list = "topics" THEN ui.loading ELSE FALSE
    <2>1. ui.loading \in BOOLEAN
        BY <1>1 DEF CoursePage
    <2> QED
        BY <2>1
<1>8. PICK shown : shown = IF load.list \in {"topics", "register"}
                           THEN {i \in w.shown : i[1] \notin Class!Kinds[load.list]}
                           ELSE w.shown
    OBVIOUS
<1>9. shown \in SUBSET Class!Item
    BY <1>5, <1>8 DEF CoursePage
<1>10. PICK doubt : doubt = w.doubt \cup {load.list} \cup
                            (IF load.list = "main" THEN {"tail"} ELSE {})
    OBVIOUS
<1>11. doubt \in SUBSET Class!Lists
    BY <1>5, <1>10 DEF CoursePage, Class!Load, Class!Lists
<1>12. ui' = [w EXCEPT !.error = error, !.loading = loading, !.shown = shown, !.doubt = doubt]
    BY <1>2, <1>4, <1>6, <1>7, <1>8, <1>10, Zenon DEF Class!LoadFails
<1>13. /\ ui' \in CoursePage /\ ui'.page = ui.page /\ ui'.class = ui.class
       /\ ui'.selected = ui.selected /\ ui'.dialog = ui.dialog
       /\ ui'.shown = shown /\ ui'.doubt = doubt
    BY <1>5, <1>9, <1>11, <1>12 DEF CoursePage
<1>14. Class!Rest(k) \in CourseLoads
    BY <1>1, CourseRest
<1>15. ASSUME NEW list \in Class!ListsOf[ui.page]
       PROVE  /\ Class!Wanted(list, ui') = Class!Wanted(list, ui)
              /\ \/ list \in ui'.doubt
                 \/ /\ ~Brings(load.list, list)
                    /\ ShownIn(ui', list) = ShownIn(ui, list)
                    /\ list \in ui.doubt => list \in ui'.doubt
    <2>1. Class!Wanted(list, ui') = Class!Wanted(list, ui)
        BY <1>13 DEF Class!Wanted
    <2>2. CASE Brings(load.list, list)
        BY <1>10, <1>13, <2>1, <2>2 DEF Brings
    <2>3. CASE ~Brings(load.list, list)
        <3>1. list # load.list
            BY <2>3 DEF Brings
        <3>2. Class!Kinds[list] \cap Class!Kinds[load.list] = {}
            BY <1>1, <1>3, <3>1, ListsDiffer DEF FoundFits, CoursePage
        <3>3. ShownIn(ui', list) = ShownIn(ui, list)
            BY <1>5, <1>8, <1>13, <3>2 DEF ShownIn
        <3>4. list \in ui.doubt => list \in ui'.doubt
            BY <1>5, <1>10, <1>13
        <3> QED
            BY <2>1, <2>3, <3>3, <3>4
    <2> QED
        BY <2>2, <2>3
<1>16. CourseFits(ui', Class!Rest(k), net.ops, srv)
    BY <1>1, <1>2, <1>13, <1>14, <1>15, CourseEnds
<1>17. net' = [net EXCEPT !.loads = Class!Rest(k)] /\ srv' = srv
    BY DEF Class!LoadFails
<1> QED
    BY <1>13, <1>14, <1>16, <1>17, CourseGoesOn

-----------------------------------------------------------------------------
(* What the server does.                                                   *)

\* What is stored changes, or which changes wait for their answer.
LEMMA CourseStoreStep ==
    ASSUME NEW loads, NEW page, NEW ops, NEW ops2, NEW store, NEW store2,
           CourseFits(page, loads, ops, store),
           \A list : Changing(list, ops) => Changing(list, ops2),
           \A list : \/ Changing(list, ops2)
                     \/ \A arg : StoredIn(store2, list, arg) = StoredIn(store, list, arg)
    PROVE  CourseFits(page, loads, ops2, store2)
<1>1. ASSUME NEW k \in 1 .. Len(loads)
      PROVE  FoundFits(loads[k], page) /\ FoundIsStored(k, loads, page, ops2, store2)
    <2>1. FoundFits(loads[k], page) /\ FoundIsStored(k, loads, page, ops, store)
        BY DEF CourseFits
    <2>2. CASE Changing(loads[k].list, ops2)
        BY <2>1, <2>2 DEF FoundIsStored
    <2>3. CASE ~Changing(loads[k].list, ops2)
        BY <2>1, <2>3 DEF FoundIsStored
    <2> QED
        BY <2>2, <2>3
<1>2. ASSUME NEW list \in Class!ListsOf[page.page]
      PROVE  ListFits(list, page, loads, ops2, store2)
    <2>1. ListFits(list, page, loads, ops, store)
        BY DEF CourseFits
    <2>2. CASE Changing(list, ops2)
        BY <2>2 DEF ListFits
    <2>3. CASE ~Changing(list, ops2)
        BY <2>1, <2>3 DEF ListFits
    <2> QED
        BY <2>2, <2>3
<1> QED
    BY <1>1, <1>2 DEF CourseFits

LEMMA CourseServeLoad ==
    ASSUME CourseInv, NEW k \in 1 .. Len(net.loads), Class!ServeLoad(k)
    PROVE  CourseInv'
<1>1. /\ ui \in CoursePage /\ net \in CourseCalls /\ srv \in CourseStore
      /\ CourseFits(ui, net.loads, net.ops, srv)
    BY DEF CourseInv
<1>2. PICK n \in Nat : /\ n = Len(net.loads) /\ DOMAIN net.loads = 1 .. n
                       /\ \A j \in 1 .. n : net.loads[j] \in Class!Load
    BY <1>1, CourseLoadsAre DEF CourseCalls
<1>3. PICK load \in Class!Load : load = net.loads[k]
    BY <1>2
<1>4. PICK stored : stored = StoredIn(srv, load.list, load.arg)
    OBVIOUS
<1>5. PICK found \in SUBSET stored :
          net' = [net EXCEPT !.loads[k] = [load EXCEPT !.served = TRUE, !.found = found,
                     !.late = IF found = stored THEN @ ELSE @ \cup {load.list}]]
    <2>1. stored = Class!Stored(load.list, load.arg)
        BY <1>4, CourseStored
    <2>2. PICK found \in {stored} \cup (IF load.list \in {"tail", "register"}
                                       THEN SUBSET stored ELSE {}) :
              net' = [net EXCEPT !.loads[k] = [load EXCEPT !.served = TRUE, !.found = found,
                         !.late = IF found = stored THEN @ ELSE @ \cup {load.list}]]
        BY <1>3, <2>1, Zenon DEF Class!ServeLoad
    <2>3. found \in SUBSET stored
        OBVIOUS
    <2> QED
        BY <2>2, <2>3, Zenon
<1>6. load.list \in Class!Lists /\ load.late \in SUBSET Class!Lists
    BY DEF Class!Load
<1>7. PICK late \in SUBSET Class!Lists :
          /\ late = IF found = stored THEN load.late ELSE load.late \cup {load.list}
          /\ found # stored => load.list \in late
    BY <1>6
<1>8. stored \in SUBSET Class!Item
      /\ \A i \in stored : /\ i[1] \in Class!Kinds[load.list]
                           /\ load.list = "topics" => i[2] = load.arg
    BY <1>1, <1>4 DEF StoredIn, CourseStore
<1>9. found \in SUBSET Class!Item
    BY <1>8
<1>10. PICK new : new = [load EXCEPT !.served = TRUE, !.found = found, !.late = late]
    OBVIOUS
<1>11. /\ new \in Class!Load /\ new.list = load.list /\ new.arg = load.arg
       /\ new.found = found /\ new.late = late
    BY <1>9, <1>10 DEF Class!Load
<1>12. PICK loads : loads = [net.loads EXCEPT ![k] = new]
    OBVIOUS
<1>13. /\ loads \in CourseLoads /\ Len(loads) = n
       /\ \A j \in 1 .. n : loads[j] = IF j = k THEN new ELSE net.loads[j]
    <2>1. net.loads \in [1 .. n -> Class!Load]
        BY <1>1, <1>2 DEF CourseCalls, CourseLoads
    <2>2. loads \in [1 .. n -> Class!Load]
        BY <1>11, <1>12, <2>1
    <2> QED
        BY <1>2, <1>12, <2>1, <2>2, CourseLoadsMade
<1>14. net' = [net EXCEPT !.loads = loads]
    BY <1>5, <1>7, <1>10, <1>12
<1>15. \A j \in 1 .. n : loads[j].list = net.loads[j].list /\ loads[j].arg = net.loads[j].arg
    BY <1>3, <1>11, <1>13
<1>16. \A list : Awaited(list, net.loads) => Awaited(list, loads)
    BY <1>2, <1>13, <1>15 DEF Awaited
<1>17. \A list : \A j \in 1 .. n :
          LaterComes(list, j, net.loads) => LaterComes(list, j, loads)
    BY <1>2, <1>13, <1>15 DEF LaterComes
<1>18. ASSUME NEW j \in 1 .. n
       PROVE  FoundFits(loads[j], ui) /\ FoundIsStored(j, loads, ui, net.ops, srv)
    <2>1. FoundFits(net.loads[j], ui) /\ FoundIsStored(j, net.loads, ui, net.ops, srv)
        BY <1>1, <1>2 DEF CourseFits
    <2>2. CASE j = k
        <3>1. loads[j] = new
            BY <1>13, <2>2
        <3>2. FoundFits(new, ui)
            BY <1>3, <1>8, <1>11, <2>1, <2>2 DEF FoundFits
        <3>3. new.list \in new.late \/ new.found = StoredIn(srv, new.list, new.arg)
            BY <1>4, <1>7, <1>11
        <3> QED
            BY <3>1, <3>2, <3>3 DEF FoundIsStored
    <2>3. CASE j # k
        <3>1. loads[j] = net.loads[j]
            BY <1>13, <2>3
        <3>2. LaterComes(loads[j].list, j, net.loads) => LaterComes(loads[j].list, j, loads)
            BY <1>17
        <3> QED
            BY <2>1, <3>1, <3>2 DEF FoundIsStored
    <2> QED
        BY <2>2, <2>3
<1>19. ASSUME NEW list \in Class!ListsOf[ui.page]
       PROVE  ListFits(list, ui, loads, net.ops, srv)
    <2>1. ListFits(list, ui, net.loads, net.ops, srv)
        BY <1>1 DEF CourseFits
    <2> QED
        BY <1>16, <2>1 DEF ListFits
<1>20. CourseFits(ui, loads, net.ops, srv)
    BY <1>13, <1>18, <1>19 DEF CourseFits
<1>21. ui' = ui /\ srv' = srv
    BY DEF Class!ServeLoad
<1> QED
    BY <1>1, <1>13, <1>14, <1>20, <1>21, CourseGoesOn

LEMMA CourseServeChange ==
    ASSUME CourseInv, NEW c \in net.ops, Class!ServeChange(c)
    PROVE  CourseInv'
<1>1. /\ ui \in CoursePage /\ net \in CourseCalls /\ srv \in CourseStore
      /\ CourseFits(ui, net.loads, net.ops, srv) /\ ui' = ui /\ c.reply = "none"
      /\ ChangeFits(ui.dialog.op, ui.dialog.item)
      /\ \A d \in net.ops : ChangeFits(d.op, d.item)
    BY DEF CourseInv, Class!ServeChange
<1>2. c \in Class!Change /\ net.ops \in SUBSET Class!Change
    BY <1>1 DEF CourseCalls
<1>3. ASSUME NEW reply \in {"ok", "refused"}, NEW d, d = [c EXCEPT !.reply = reply],
             NEW store \in CourseStore, srv' = store,
             net' = [net EXCEPT !.ops = (net.ops \ {c}) \cup {d}],
             \A list : \/ reply = "ok" /\ c.item[1] \in Class!Kinds[list]
                       \/ \A arg : StoredIn(store, list, arg) = StoredIn(srv, list, arg)
      PROVE  CourseInv'
    <2>1. d \in Class!Change /\ d.reply = reply /\ d.item = c.item /\ d.op = c.op
        BY <1>2, <1>3 DEF Class!Change
    <2>2. PICK ops \in SUBSET Class!Change : ops = (net.ops \ {c}) \cup {d}
        BY <1>2, <2>1
    <2>3. net' \in CourseCalls /\ net'.ops = ops /\ net'.loads = net.loads
        <3>1. net' = [net EXCEPT !.ops = ops]
            BY <1>3, <2>2
        <3> QED
            BY <1>1, <3>1 DEF CourseCalls
    <2>4. \A list : Changing(list, net.ops) => Changing(list, ops)
        BY <1>1, <2>2 DEF Changing
    <2>5. \A list : reply = "ok" /\ c.item[1] \in Class!Kinds[list] => Changing(list, ops)
        BY <2>1, <2>2 DEF Changing
    <2>6. CourseFits(ui, net.loads, ops, store)
        BY <1>1, <1>3, <2>4, <2>5, CourseStoreStep
    <2>7. \A e \in ops : ChangeFits(e.op, e.item)
        BY <1>1, <2>1, <2>2
    <2> QED
        BY <1>1, <1>3, <2>3, <2>6, <2>7 DEF CourseInv
<1>4. CASE Class!Refused(c)
    <2>1. net' = [net EXCEPT !.ops = (net.ops \ {c}) \cup {[c EXCEPT !.reply = "refused"]}]
          /\ srv' = srv
        BY <1>4 DEF Class!ServeChange
    <2> QED
        BY <1>1, <1>3, <2>1
<1>5. CASE ~Class!Refused(c)
    <2>1. PICK live : live = IF c.op \in {"saveSubject", "saveTopic"}
                             THEN IF c.item \in srv.used THEN srv.live
                                  ELSE srv.live \cup {c.item}
                             ELSE IF c.op = "publish" THEN srv.live \cup {c.item}
                             ELSE srv.live \ {c.item}
        OBVIOUS
    <2>2. /\ net' = [net EXCEPT !.ops = (net.ops \ {c}) \cup {[c EXCEPT !.reply = "ok"]}]
          /\ srv' = [srv EXCEPT !.live = live, !.used = srv.used \cup {c.item}]
        BY <1>5, <2>1, Zenon DEF Class!ServeChange
    <2>3. c.item \in Class!Item
        BY <1>2 DEF Class!Change
    <2>4. live \in SUBSET Class!Item /\ srv.used \cup {c.item} \in SUBSET Class!Item
        BY <1>1, <2>1, <2>3 DEF CourseStore
    <2>5. srv' \in CourseStore /\ srv'.live = live /\ srv'.classOf = srv.classOf
        BY <1>1, <2>2, <2>4 DEF CourseStore
    <2>6. \A i : i # c.item => (i \in live <=> i \in srv.live)
        BY <2>1
    <2>7. ASSUME NEW list, c.item[1] \notin Class!Kinds[list], NEW arg
          PROVE  StoredIn(srv', list, arg) = StoredIn(srv, list, arg)
        BY <2>5, <2>6, <2>7 DEF StoredIn
    <2>8. PICK store : store = srv'
        OBVIOUS
    <2>9. \A list : \/ c.item[1] \in Class!Kinds[list]
                    \/ \A arg : StoredIn(store, list, arg) = StoredIn(srv, list, arg)
        BY <2>7, <2>8
    <2>10. PICK d : d = [c EXCEPT !.reply = "ok"]
        OBVIOUS
    <2>11. net' = [net EXCEPT !.ops = (net.ops \ {c}) \cup {d}]
        BY <2>2, <2>10
    <2>12. store \in CourseStore /\ srv' = store
        BY <2>5, <2>8
    <2>13. "ok" \in {"ok", "refused"}
        OBVIOUS
    <2> QED
        BY <1>3, <2>9, <2>10, <2>11, <2>12, <2>13
<1> QED
    BY <1>4, <1>5

-----------------------------------------------------------------------------
(* The answers to changes.                                                 *)

LEMMA CourseReplied ==
    ASSUME CourseInv, NEW c \in net.ops, ui' \in CoursePage,
           ui'.dialog \in {ui.dialog, Class!Closed}, NEW loads \in CourseLoads,
           net' = [loads |-> loads, ops |-> net.ops \ {c}], srv' = srv,
           CourseFits(ui', loads, net.ops \ {c}, srv)
    PROVE  CourseInv'
<1>1. /\ net \in CourseCalls /\ srv \in CourseStore
      /\ ChangeFits(ui.dialog.op, ui.dialog.item)
      /\ \A d \in net.ops : ChangeFits(d.op, d.item)
    BY DEF CourseInv
<1>2. net' \in CourseCalls /\ net'.loads = loads /\ net'.ops = net.ops \ {c}
    BY <1>1 DEF CourseCalls
<1>3. ChangeFits(Class!Closed.op, Class!Closed.item)
    BY DEF ChangeFits, Class!Closed
<1>4. ChangeFits(ui'.dialog.op, ui'.dialog.item)
    BY <1>1, <1>3
<1> QED
    BY <1>1, <1>2, <1>4 DEF CourseInv

LEMMA CourseClosing ==
    ASSUME ui \in CoursePage, NEW op
    PROVE  /\ Class!ClosedFor(op) \in {ui.dialog, Class!Closed}
           /\ Class!ClosedFor(op) \in [op : Class!Ops \cup {"none"},
                                       item : Class!Item \cup {<<>>}]
<1>1. Class!Closed \in [op : Class!Ops \cup {"none"}, item : Class!Item \cup {<<>>}]
    BY DEF Class!Closed
<1> QED
    BY <1>1 DEF CoursePage, Class!ClosedFor

LEMMA CourseClassChanged ==
    ASSUME FormsAssumption, CourseInv, NEW c \in net.ops, Class!OnClassChanged(c),
           UNCHANGED srv
    PROVE  CourseInv'
<1>1. /\ ui \in CoursePage /\ net \in CourseCalls /\ ui.page = "class"
      /\ CourseFits(ui, net.loads, net.ops, srv)
    BY DEF CourseInv, Class!OnClassChanged
<1>2. net.loads \in CourseLoads /\ c \in Class!Change
    BY <1>1 DEF CourseCalls
<1>3. PICK dialog \in {ui.dialog, Class!Closed} :
          /\ dialog = Class!ClosedFor(c.op)
          /\ dialog \in [op : Class!Ops \cup {"none"}, item : Class!Item \cup {<<>>}]
    BY <1>1, CourseClosing
<1>4. ui' = [ui EXCEPT !.dialog = dialog, !.loading = TRUE]
    BY <1>3 DEF Class!OnClassChanged
<1>5. /\ ui' \in CoursePage /\ ui'.dialog = dialog /\ ui'.page = ui.page
      /\ ui'.class = ui.class /\ ui'.selected = ui.selected
      /\ ui'.shown = ui.shown /\ ui'.doubt = ui.doubt
    BY <1>1, <1>3, <1>4 DEF CoursePage
<1>6. PICK new : new = Class!NewLoad("main", 1, c.op)
    OBVIOUS
<1>7. new \in Class!Load /\ new.list = "main" /\ ~new.served /\ new.found = {}
    <2>1. "main" \in Class!Lists /\ 1 \in Nat /\ c.op \in Class!Ops \cup {"none"}
        BY <1>2 DEF Class!Lists, Class!Change
    <2> QED
        BY <1>6, <2>1, CourseNewLoad
<1>8. FoundFits(new, ui) /\ \A list \in Class!ListsOf[ui.page] : Brings(new.list, list)
    BY <1>1, <1>7, ListsAre DEF FoundFits, Brings
<1>9. /\ Append(net.loads, new) \in CourseLoads
      /\ CourseFits(ui', Append(net.loads, new), net.ops \ {c}, srv)
    BY <1>1, <1>2, <1>5, <1>7, <1>8, CourseAppends
<1>10. net' = [loads |-> Append(net.loads, new), ops |-> net.ops \ {c}]
    BY <1>6 DEF Class!OnClassChanged, Class!Loads, Class!Without
<1> QED
    BY <1>3, <1>5, <1>9, <1>10, CourseReplied

LEMMA CourseChallengeToggled ==
    ASSUME FormsAssumption, CourseInv, NEW c \in net.ops, Class!OnChallengeToggled(c),
           UNCHANGED srv
    PROVE  CourseInv'
<1>1. /\ ui \in CoursePage /\ net \in CourseCalls /\ ui.page = "challenges"
      /\ CourseFits(ui, net.loads, net.ops, srv)
    BY DEF CourseInv, Class!OnChallengeToggled
<1>2. net.loads \in CourseLoads /\ c \in Class!Change /\ ui.class \in Nat
    BY <1>1, CourseBounds DEF CourseCalls, CoursePage
<1>3. ui' = [ui EXCEPT !.loading = TRUE, !.error = FALSE]
    BY DEF Class!OnChallengeToggled
<1>4. /\ ui' \in CoursePage /\ ui'.dialog = ui.dialog /\ ui'.page = ui.page
      /\ ui'.class = ui.class /\ ui'.selected = ui.selected
      /\ ui'.shown = ui.shown /\ ui'.doubt = ui.doubt
    BY <1>1, <1>3 DEF CoursePage
<1>5. PICK new : new = Class!NewLoad("register", ui.class, c.op)
    OBVIOUS
<1>6. new \in Class!Load /\ new.list = "register" /\ ~new.served /\ new.found = {}
    <2>1. "register" \in Class!Lists /\ c.op \in Class!Ops \cup {"none"}
        BY <1>2 DEF Class!Lists, Class!Change
    <2> QED
        BY <1>2, <1>5, <2>1, CourseNewLoad
<1>7. FoundFits(new, ui) /\ \A list \in Class!ListsOf[ui.page] : Brings(new.list, list)
    BY <1>1, <1>6, ListsAre DEF FoundFits, Brings
<1>8. /\ Append(net.loads, new) \in CourseLoads
      /\ CourseFits(ui', Append(net.loads, new), net.ops \ {c}, srv)
    BY <1>1, <1>2, <1>4, <1>6, <1>7, CourseAppends
<1>9. net' = [loads |-> Append(net.loads, new), ops |-> net.ops \ {c}]
    BY <1>5 DEF Class!OnChallengeToggled, Class!Loads, Class!Without
<1> QED
    BY <1>4, <1>8, <1>9, CourseReplied

LEMMA CourseTopicChanged ==
    ASSUME FormsAssumption, CourseInv, NEW c \in net.ops, Class!OnTopicChanged(c),
           UNCHANGED srv
    PROVE  CourseInv'
<1>1. /\ ui \in CoursePage /\ net \in CourseCalls /\ ui.page = "subjects"
      /\ CourseFits(ui, net.loads, net.ops, srv)
      /\ c.op \in {"saveTopic", "archiveTopic"} /\ ChangeFits(c.op, c.item)
    BY DEF CourseInv, Class!OnTopicChanged
<1>2. net.loads \in CourseLoads /\ c \in Class!Change
    BY <1>1 DEF CourseCalls
<1>3. PICK dialog \in {ui.dialog, Class!Closed} :
          /\ dialog = Class!ClosedFor(c.op)
          /\ dialog \in [op : Class!Ops \cup {"none"}, item : Class!Item \cup {<<>>}]
    BY <1>1, CourseClosing
<1>4. ui' = [ui EXCEPT !.dialog = dialog]
    BY <1>3 DEF Class!OnTopicChanged
<1>5. /\ ui' \in CoursePage /\ ui'.dialog = dialog /\ ui'.page = ui.page
      /\ ui'.class = ui.class /\ ui'.selected = ui.selected
      /\ ui'.shown = ui.shown /\ ui'.doubt = ui.doubt
    BY <1>1, <1>3, <1>4 DEF CoursePage
<1>6. PICK new : new = Class!NewLoad("topics", c.arg, c.op)
    OBVIOUS
<1>7. new \in Class!Load /\ new.list = "topics" /\ ~new.served /\ new.found = {}
    <2>1. "topics" \in Class!Lists /\ c.arg \in Nat /\ c.op \in Class!Ops \cup {"none"}
        BY <1>2 DEF Class!Lists, Class!Change
    <2> QED
        BY <1>6, <2>1, CourseNewLoad
<1>8. FoundFits(new, ui)
    BY <1>1, <1>7, ListsAre DEF FoundFits
<1>9. c.item[1] = "topic"
    BY <1>1 DEF ChangeFits
<1>10. ASSUME NEW list \in Class!ListsOf[ui.page]
       PROVE  \/ Brings(new.list, list)
              \/ /\ Class!Wanted(list, ui') = Class!Wanted(list, ui)
                 /\ ShownIn(ui', list) = ShownIn(ui, list)
                 /\ list \in ui.doubt => list \in ui'.doubt
                 /\ Changing(list, net.ops) => Changing(list, net.ops \ {c})
    <2>1. list \in {"subjects", "topics"}
        BY <1>1, ListsAre
    <2>2. CASE list = "topics"
        BY <1>7, <2>2 DEF Brings
    <2>3. CASE list = "subjects"
        <3>1. c.item[1] \notin Class!Kinds[list]
            BY <1>9, <2>3, KindsAre
        <3>2. Changing(list, net.ops) => Changing(list, net.ops \ {c})
            BY <3>1 DEF Changing
        <3> QED
            BY <1>5, <3>2 DEF Class!Wanted, ShownIn
    <2> QED
        BY <2>1, <2>2, <2>3
<1>11. /\ Append(net.loads, new) \in CourseLoads
       /\ CourseFits(ui', Append(net.loads, new), net.ops \ {c}, srv)
    BY <1>1, <1>2, <1>5, <1>7, <1>8, <1>10, CourseAppends
<1>12. net.loads \o <<new>> = Append(net.loads, new)
    BY <1>2, <1>7 DEF CourseLoads
<1>13. net' = [loads |-> Append(net.loads, new), ops |-> net.ops \ {c}]
    BY <1>6, <1>12 DEF Class!OnTopicChanged, Class!TopicsAgain, Class!Loads, Class!Without
<1> QED
    BY <1>3, <1>5, <1>11, <1>13, CourseReplied

LEMMA CourseSubjectChanged ==
    ASSUME FormsAssumption, CourseInv, NEW c \in net.ops, Class!OnSubjectChanged(c),
           UNCHANGED srv
    PROVE  CourseInv'
<1>1. /\ ui \in CoursePage /\ net \in CourseCalls /\ ui.page = "subjects"
      /\ CourseFits(ui, net.loads, net.ops, srv)
      /\ c.op \in {"saveSubject", "archiveSubject"} /\ ChangeFits(c.op, c.item)
    BY DEF CourseInv, Class!OnSubjectChanged
<1>2. net.loads \in CourseLoads /\ c \in Class!Change /\ ui.class \in Nat
    BY <1>1, CourseBounds DEF CourseCalls, CoursePage
<1>3. PICK dialog \in {ui.dialog, Class!Closed} :
          /\ dialog = Class!ClosedFor(c.op)
          /\ dialog \in [op : Class!Ops \cup {"none"}, item : Class!Item \cup {<<>>}]
    BY <1>1, CourseClosing
<1>4. PICK subject \in Subjects : c.item = <<"subject", subject>>
    BY <1>1 DEF ChangeFits
<1>5. c.item[1] = "subject" /\ c.item[2] = subject /\ subject \in Nat
    BY <1>4, CourseBounds
<1>6. PICK selected \in Subjects \cup {0} :
          selected = IF c.op = "saveSubject" THEN subject ELSE ui.selected
    BY <1>1 DEF CoursePage
<1>7. PICK mid : mid = [ui EXCEPT !.selected = selected]
    OBVIOUS
<1>8. /\ mid \in CoursePage /\ mid.page = "subjects" /\ mid.class = ui.class
      /\ mid.selected = selected /\ mid.shown = ui.shown /\ mid.doubt = ui.doubt
    BY <1>1, <1>7 DEF CoursePage
<1>9. PICK topics : topics = Class!NewLoad("topics", subject, "none")
    OBVIOUS
<1>10. topics \in Class!Load /\ topics.list = "topics" /\ ~topics.served /\ topics.found = {}
    <2>1. "topics" \in Class!Lists
        BY DEF Class!Lists
    <2> QED
        BY <1>5, <1>9, <2>1, CourseNewLoad
<1>11. PICK loads : loads = IF c.op = "saveSubject" THEN Append(net.loads, topics)
                            ELSE net.loads
    OBVIOUS
<1>12. loads \in CourseLoads /\ CourseFits(mid, loads, net.ops, srv)
    <2>1. CASE c.op = "saveSubject"
        <3>1. FoundFits(topics, ui)
            BY <1>1, <1>10, ListsAre DEF FoundFits
        <3>2. ASSUME NEW list \in Class!ListsOf[ui.page]
              PROVE  \/ Brings(topics.list, list)
                     \/ /\ Class!Wanted(list, mid) = Class!Wanted(list, ui)
                        /\ ShownIn(mid, list) = ShownIn(ui, list)
                        /\ list \in ui.doubt => list \in mid.doubt
            <4>1. list \in {"subjects", "topics"}
                BY <1>1, ListsAre
            <4>2. CASE list = "topics"
                BY <1>10, <4>2 DEF Brings
            <4>3. CASE list = "subjects"
                BY <1>1, <1>8, <4>3 DEF Class!Wanted, ShownIn
            <4> QED
                BY <4>1, <4>2, <4>3
        <3>3. /\ Append(net.loads, topics) \in CourseLoads
              /\ CourseFits(mid, Append(net.loads, topics), net.ops, srv)
            BY <1>1, <1>2, <1>8, <1>10, <3>1, <3>2, CourseAppends
        <3> QED
            BY <1>11, <2>1, <3>3
    <2>2. CASE c.op # "saveSubject"
        <3>1. mid.selected = ui.selected /\ mid.page = ui.page
            BY <1>1, <1>6, <1>8, <2>2
        <3>2. CourseFits(mid, net.loads, net.ops, srv)
            BY <1>1, <1>8, <3>1, CoursePageStep
        <3> QED
            BY <1>2, <1>11, <2>2, <3>2
    <2> QED
        BY <2>1, <2>2
<1>13. ui' = [ui EXCEPT !.dialog = dialog, !.loading = TRUE, !.selected = selected]
    BY <1>3, <1>5, <1>6 DEF Class!OnSubjectChanged
<1>14. /\ ui' \in CoursePage /\ ui'.dialog = dialog /\ ui'.page = "subjects"
       /\ ui'.class = ui.class /\ ui'.selected = selected
       /\ ui'.shown = ui.shown /\ ui'.doubt = ui.doubt
    BY <1>1, <1>3, <1>13 DEF CoursePage
<1>15. PICK new : new = Class!NewLoad("subjects", ui.class, c.op)
    OBVIOUS
<1>16. new \in Class!Load /\ new.list = "subjects" /\ ~new.served /\ new.found = {}
    <2>1. "subjects" \in Class!Lists /\ c.op \in Class!Ops \cup {"none"}
        BY <1>2 DEF Class!Lists, Class!Change
    <2> QED
        BY <1>2, <1>15, <2>1, CourseNewLoad
<1>17. FoundFits(new, mid)
    BY <1>8, <1>16, ListsAre DEF FoundFits
<1>18. ASSUME NEW list \in Class!ListsOf[mid.page]
       PROVE  \/ Brings(new.list, list)
              \/ /\ Class!Wanted(list, ui') = Class!Wanted(list, mid)
                 /\ ShownIn(ui', list) = ShownIn(mid, list)
                 /\ list \in mid.doubt => list \in ui'.doubt
                 /\ Changing(list, net.ops) => Changing(list, net.ops \ {c})
    <2>1. list \in {"subjects", "topics"}
        BY <1>8, ListsAre
    <2>2. CASE list = "subjects"
        BY <1>16, <2>2 DEF Brings
    <2>3. CASE list = "topics"
        <3>1. c.item[1] \notin Class!Kinds[list]
            BY <1>5, <2>3, KindsAre
        <3>2. Changing(list, net.ops) => Changing(list, net.ops \ {c})
            BY <3>1 DEF Changing
        <3> QED
            BY <1>8, <1>14, <3>2 DEF Class!Wanted, ShownIn
    <2> QED
        BY <2>1, <2>2, <2>3
<1>19. /\ Append(loads, new) \in CourseLoads
       /\ CourseFits(ui', Append(loads, new), net.ops \ {c}, srv)
    BY <1>8, <1>12, <1>14, <1>16, <1>17, <1>18, CourseAppends
<1>20. net' = [loads |-> Append(loads, new), ops |-> net.ops \ {c}]
    BY <1>5, <1>9, <1>11, <1>15 DEF Class!OnSubjectChanged, Class!Loads, Class!Without
<1> QED
    BY <1>3, <1>14, <1>19, <1>20, CourseReplied

LEMMA CourseChangeAnswered ==
    ASSUME FormsAssumption, CourseInv, NEW c \in net.ops, Class!ChangeAnswered(c)
    PROVE  CourseInv'
<1>1. UNCHANGED srv
    BY DEF Class!ChangeAnswered
<1> QED
    BY <1>1, CourseClassChanged, CourseSubjectChanged, CourseTopicChanged,
       CourseChallengeToggled DEF Class!ChangeAnswered

\* A lost answer is told from no list: those it concerns are late, or in doubt.
LEMMA CourseChangeFails ==
    ASSUME FormsAssumption, CourseInv, NEW c \in net.ops, Class!ChangeFails(c)
    PROVE  CourseInv'
<1>1. /\ ui \in CoursePage /\ net \in CourseCalls /\ srv \in CourseStore
      /\ CourseFits(ui, net.loads, net.ops, srv)
    BY DEF CourseInv
<1>2. PICK n \in Nat : /\ n = Len(net.loads) /\ DOMAIN net.loads = 1 .. n
                       /\ \A j \in 1 .. n : net.loads[j] \in Class!Load
    BY <1>1, CourseLoadsAre DEF CourseCalls
<1>3. PICK missed : missed = IF c.reply = "ok" THEN Class!ListOf(c) ELSE {}
    OBVIOUS
<1>4. missed \in SUBSET Class!Lists
    BY <1>3 DEF Class!ListOf
<1>5. PICK loads : loads = [j \in 1 .. n |->
                       [net.loads[j] EXCEPT !.late = net.loads[j].late \cup missed]]
    OBVIOUS
<1>6. ASSUME NEW j \in 1 .. n
      PROVE  /\ loads[j] \in Class!Load /\ loads[j].list = net.loads[j].list
             /\ loads[j].arg = net.loads[j].arg /\ loads[j].served = net.loads[j].served
             /\ loads[j].found = net.loads[j].found
             /\ loads[j].late = net.loads[j].late \cup missed
    <2>1. PICK l \in Class!Load : l = net.loads[j]
        BY <1>2
    <2>2. PICK late \in SUBSET Class!Lists : late = l.late \cup missed
        BY <1>4 DEF Class!Load
    <2>3. loads[j] = [l EXCEPT !.late = late]
        BY <1>5, <2>1, <2>2
    <2> QED
        BY <2>1, <2>2, <2>3 DEF Class!Load
<1>7. loads \in CourseLoads /\ Len(loads) = n
    <2>1. loads \in [1 .. n -> Class!Load]
        BY <1>5, <1>6
    <2> QED
        BY <2>1, CourseLoadsMade
<1>8. PICK busy \in SUBSET Class!Ops : busy = ui.busy \ {c.op}
    BY <1>1 DEF CoursePage
<1>9. PICK doubt \in SUBSET Class!Lists : doubt = ui.doubt \cup missed
    BY <1>1, <1>4 DEF CoursePage
<1>10. ui' = [ui EXCEPT !.busy = busy, !.doubt = doubt]
    BY <1>3, <1>8, <1>9 DEF Class!ChangeFails
<1>11. /\ ui' \in CoursePage /\ ui'.dialog = ui.dialog /\ ui'.page = ui.page
       /\ ui'.class = ui.class /\ ui'.selected = ui.selected
       /\ ui'.shown = ui.shown /\ ui'.doubt = doubt
    BY <1>1, <1>10 DEF CoursePage
<1>12. net' = [loads |-> loads, ops |-> net.ops \ {c}] /\ srv' = srv
    <2>1. loads = [k \in DOMAIN net.loads |-> [net.loads[k] EXCEPT !.late = @ \cup missed]]
        BY <1>2, <1>5
    <2> QED
        BY <1>3, <2>1, Zenon DEF Class!ChangeFails, Class!Loads, Class!Without
<1>13. /\ \A list : Class!Wanted(list, ui') = Class!Wanted(list, ui)
       /\ \A list : ShownIn(ui', list) = ShownIn(ui, list)
    BY <1>11 DEF Class!Wanted, ShownIn
<1>14. \A list \in Class!Lists :
          Changing(list, net.ops) => Changing(list, net.ops \ {c}) \/ list \in missed
    BY <1>3 DEF Changing, Class!ListOf
<1>15. \A list : Awaited(list, net.loads) => Awaited(list, loads)
    BY <1>2, <1>6, <1>7 DEF Awaited
<1>16. \A list : \A j \in 1 .. n :
          LaterComes(list, j, net.loads) => LaterComes(list, j, loads)
    BY <1>2, <1>6, <1>7 DEF LaterComes
<1>17. ASSUME NEW j \in 1 .. n
       PROVE  FoundFits(loads[j], ui') /\ FoundIsStored(j, loads, ui', net.ops \ {c}, srv)
    <2>1. FoundFits(net.loads[j], ui) /\ FoundIsStored(j, net.loads, ui, net.ops, srv)
        BY <1>1, <1>2 DEF CourseFits
    <2>2. FoundFits(loads[j], ui')
        BY <1>6, <1>11, <2>1 DEF FoundFits
    <2>3. loads[j].list \in Class!Lists
        BY <1>6 DEF Class!Load
    <2>4. CASE loads[j].list \in missed
        BY <1>6, <2>2, <2>4 DEF FoundIsStored
    <2>5. CASE loads[j].list \notin missed
        <3>1. Changing(loads[j].list, net.ops) => Changing(loads[j].list, net.ops \ {c})
            BY <1>14, <2>3, <2>5
        <3>2. LaterComes(loads[j].list, j, net.loads) => LaterComes(loads[j].list, j, loads)
            BY <1>16
        <3> QED
            BY <1>6, <1>13, <2>1, <2>2, <3>1, <3>2 DEF FoundIsStored
    <2> QED
        BY <2>4, <2>5
<1>18. ASSUME NEW list \in Class!ListsOf[ui.page]
       PROVE  ListFits(list, ui', loads, net.ops \ {c}, srv)
    <2>1. ListFits(list, ui, net.loads, net.ops, srv)
        BY <1>1 DEF CourseFits
    <2>2. list \in Class!Lists
        BY <1>1, ListsOfAPage DEF CoursePage
    <2> QED
        BY <1>9, <1>11, <1>13, <1>14, <1>15, <2>1, <2>2 DEF ListFits
<1>19. CourseFits(ui', loads, net.ops \ {c}, srv)
    BY <1>7, <1>11, <1>17, <1>18 DEF CourseFits
<1> QED
    BY <1>7, <1>11, <1>12, <1>19, CourseReplied

-----------------------------------------------------------------------------
(* What the page does.                                                     *)

\* A list is asked for, with what comes with it.
LEMMA CourseAsks ==
    ASSUME CourseInv, ui' \in CoursePage, ui'.dialog = ui.dialog, ui'.page = ui.page,
           ui'.shown = ui.shown, ui'.doubt = ui.doubt,
           NEW list \in Class!ListsOf[ui.page], NEW arg \in Nat,
           \A other \in Class!ListsOf[ui.page] :
              Brings(list, other) \/ Class!Wanted(other, ui') = Class!Wanted(other, ui),
           net' = [net EXCEPT !.loads = Append(net.loads, Class!NewLoad(list, arg, "none"))],
           srv' = srv
    PROVE  CourseInv'
<1>1. ui \in CoursePage /\ net \in CourseCalls /\ CourseFits(ui, net.loads, net.ops, srv)
    BY DEF CourseInv
<1>2. net.loads \in CourseLoads /\ list \in Class!Lists
    BY <1>1, ListsOfAPage DEF CourseCalls, CoursePage
<1>3. PICK new : new = Class!NewLoad(list, arg, "none")
    OBVIOUS
<1>4. new \in Class!Load /\ new.list = list /\ ~new.served /\ new.found = {}
    BY <1>2, <1>3, CourseNewLoad
<1>5. FoundFits(new, ui)
    BY <1>4 DEF FoundFits
<1>6. \A other : ShownIn(ui', other) = ShownIn(ui, other)
    BY DEF ShownIn
<1>7. /\ Append(net.loads, new) \in CourseLoads
      /\ CourseFits(ui', Append(net.loads, new), net.ops, srv)
    BY <1>1, <1>2, <1>4, <1>5, <1>6, CourseAppends
<1> QED
    BY <1>3, <1>7, CourseGoesOn

LEMMA CourseSelectSubject ==
    ASSUME FormsAssumption, CourseInv, NEW s \in Subjects, Class!SelectSubject(s)
    PROVE  CourseInv'
<1>1. ui \in CoursePage /\ ui.page = "subjects" /\ s \in Nat
    BY CourseBounds DEF CourseInv, Class!SelectSubject
<1>2. /\ ui' = [ui EXCEPT !.selected = s] /\ srv' = srv
      /\ net' = [net EXCEPT !.loads = Append(net.loads, Class!NewLoad("topics", s, "none"))]
    BY DEF Class!SelectSubject
<1>3. /\ ui' \in CoursePage /\ ui'.dialog = ui.dialog /\ ui'.page = ui.page
      /\ ui'.class = ui.class /\ ui'.shown = ui.shown /\ ui'.doubt = ui.doubt
    BY <1>1, <1>2 DEF CoursePage
<1>4. "topics" \in Class!ListsOf[ui.page]
    BY <1>1, ListsAre
<1>5. ASSUME NEW other \in Class!ListsOf[ui.page]
      PROVE  Brings("topics", other) \/ Class!Wanted(other, ui') = Class!Wanted(other, ui)
    <2>1. CASE other = "topics"
        BY <2>1 DEF Brings
    <2>2. CASE other # "topics"
        BY <1>3, <2>2 DEF Class!Wanted
    <2> QED
        BY <2>1, <2>2
<1> QED
    BY <1>1, <1>2, <1>3, <1>4, <1>5, CourseAsks

LEMMA CourseSwitchClass ==
    ASSUME FormsAssumption, CourseInv, NEW c \in Class!Classes, Class!SwitchClass(c)
    PROVE  CourseInv'
<1>1. ui \in CoursePage /\ ui.page \in Class!Pages /\ c \in Nat
    BY CourseBounds DEF CourseInv, CoursePage
<1>2. PICK class \in Class!Classes : class = IF ui.page = "class" THEN ui.class ELSE c
    BY <1>1 DEF CoursePage
<1>3. PICK arg \in Nat : arg = IF ui.page = "class" THEN 1 ELSE c
    BY <1>1
<1>4. PICK list : list = Class!FirstList[ui.page]
    OBVIOUS
<1>5. /\ ui' = [ui EXCEPT !.class = class, !.loading = TRUE, !.error = FALSE] /\ srv' = srv
      /\ net' = [net EXCEPT !.loads = Append(net.loads, Class!NewLoad(list, arg, "none"))]
    BY <1>2, <1>3, <1>4 DEF Class!SwitchClass
<1>6. /\ ui' \in CoursePage /\ ui'.dialog = ui.dialog /\ ui'.page = ui.page
      /\ ui'.selected = ui.selected /\ ui'.shown = ui.shown /\ ui'.doubt = ui.doubt
    BY <1>1, <1>2, <1>5 DEF CoursePage
<1>7. list \in Class!ListsOf[ui.page]
    BY <1>1, <1>4, ListsOfAPage
<1>8. ASSUME NEW other \in Class!ListsOf[ui.page]
      PROVE  Brings(list, other) \/ Class!Wanted(other, ui') = Class!Wanted(other, ui)
    <2>1. CASE other = "topics"
        BY <1>6, <2>1 DEF Class!Wanted
    <2>2. CASE other # "topics" /\ ui.page # "subjects"
        BY <1>1, <1>4, <2>2, ListsOfAPage
    <2>3. CASE other # "topics" /\ ui.page = "subjects"
        BY <1>4, <2>3, ListsAre DEF Brings
    <2> QED
        BY <2>1, <2>2, <2>3
<1> QED
    BY <1>1, <1>5, <1>6, <1>7, <1>8, CourseAsks

\* A page that is mounted waits for its first load, and doubts all its lists.
LEMMA CourseMounted ==
    ASSUME FormsAssumption, NEW page \in Class!Pages, NEW class \in Class!Classes,
           NEW ops, NEW store
    PROVE  LET m == Class!Mounted(page, class)
               loads == <<Class!NewLoad(Class!FirstList[page], class, "none")>>
           IN  /\ m \in CoursePage /\ m.dialog = Class!Closed
               /\ loads \in CourseLoads /\ CourseFits(m, loads, ops, store)
<1>1. class \in Nat
    BY CourseBounds
<1>2. PICK m : m = Class!Mounted(page, class)
    OBVIOUS
<1>3. Class!ListsOf[page] \subseteq Class!Lists
      /\ Class!FirstList[page] \in Class!ListsOf[page]
    BY ListsOfAPage
<1>4. Class!Closed \in [op : Class!Ops \cup {"none"}, item : Class!Item \cup {<<>>}]
    BY DEF Class!Closed
<1>5. /\ m \in CoursePage /\ m.dialog = Class!Closed /\ m.page = page
      /\ m.doubt = Class!ListsOf[page]
    BY <1>2, <1>3, <1>4 DEF Class!Mounted, CoursePage
<1>6. PICK new : new = Class!NewLoad(Class!FirstList[page], class, "none")
    OBVIOUS
<1>7. /\ new \in Class!Load /\ new.list = Class!FirstList[page]
      /\ ~new.served /\ new.found = {}
    BY <1>1, <1>3, <1>6, CourseNewLoad
<1>8. PICK loads : loads = <<new>>
    OBVIOUS
<1>9. loads \in CourseLoads /\ Len(loads) = 1 /\ loads[1] = new
    BY <1>7, <1>8 DEF CourseLoads
<1>10. ASSUME NEW k \in 1 .. Len(loads)
       PROVE  FoundFits(loads[k], m) /\ FoundIsStored(k, loads, m, ops, store)
    <2>1. loads[k] = new
        BY <1>9
    <2> QED
        BY <1>3, <1>5, <1>7, <2>1 DEF FoundFits, FoundIsStored
<1>11. \A list \in Class!ListsOf[m.page] : ListFits(list, m, loads, ops, store)
    BY <1>5 DEF ListFits
<1>12. CourseFits(m, loads, ops, store)
    BY <1>10, <1>11 DEF CourseFits
<1> QED
    BY <1>2, <1>5, <1>6, <1>8, <1>9, <1>12

LEMMA CourseRefresh ==
    ASSUME FormsAssumption, CourseInv, Class!Refresh
    PROVE  CourseInv'
<1>1. /\ ui \in CoursePage /\ net \in CourseCalls /\ srv \in CourseStore
      /\ ui.dialog = Class!Closed
    BY DEF CourseInv, Class!Refresh
<1>2. ui.page \in Class!Pages /\ ui.class \in Class!Classes
    BY <1>1 DEF CoursePage
<1>3. PICK m : m = Class!Mounted(ui.page, ui.class)
    OBVIOUS
<1>4. PICK loads : loads = <<Class!NewLoad(Class!FirstList[ui.page], ui.class, "none")>>
    OBVIOUS
<1>5. /\ m \in CoursePage /\ m.dialog = Class!Closed
      /\ loads \in CourseLoads /\ CourseFits(m, loads, net.ops, srv)
    BY <1>2, <1>3, <1>4, CourseMounted
<1>6. ui' = m /\ net' = [net EXCEPT !.loads = loads] /\ srv' = srv
    BY <1>3, <1>4 DEF Class!Refresh
<1> QED
    BY <1>1, <1>5, <1>6, CourseGoesOn

\* What a page offers is about what its operation is about.
LEMMA CourseOffers ==
    ASSUME ui \in CoursePage, NEW op, NEW i \in Class!Item, <<op, i>> \in Class!Offered
    PROVE  ChangeFits(op, i)
<1>1. i[1] = "subject" => i \in {"subject"} \X Subjects
    BY CourseItems
<1>2. i[1] = "topic" => i \in {"topic"} \X Subjects
    BY CourseItems
<1>3. SUFFICES /\ op \in {"saveSubject", "archiveSubject"} => i[1] = "subject"
               /\ op \in {"saveTopic", "archiveTopic"} => i[1] = "topic"
    BY <1>1, <1>2 DEF ChangeFits
<1>4. ASSUME NEW j PROVE Class!Toggle(j) \in {"archive", "publish"}
    BY DEF Class!Toggle
<1>5. CASE ui.page = "class"
    <2>1. <<op, i>> \in Class!StudentsTab \cup Class!SubjectsTab \cup Class!ChallengesTab
        BY <1>5 DEF Class!Offered
    <2> QED
        BY <1>4, <2>1 DEF Class!StudentsTab, Class!SubjectsTab, Class!ChallengesTab,
           Class!Fresh, Class!ShownOf
<1>6. CASE ui.page = "subjects"
    <2>1. <<op, i>> \in Class!SubjectList \cup Class!TopicList
        BY <1>6 DEF Class!Offered
    <2> QED
        BY <2>1 DEF Class!SubjectList, Class!TopicList, Class!Fresh, Class!ShownOf
<1>7. CASE ui.page = "challenges"
    <2>1. <<op, i>> \in Class!ChallengeTable
        BY <1>7 DEF Class!Offered
    <2> QED
        BY <1>4, <2>1 DEF Class!ChallengeTable
<1> QED
    BY <1>5, <1>6, <1>7 DEF CoursePage, Class!Pages

LEMMA CourseDialogStep ==
    ASSUME CourseInv,
           Class!CloseDialog \/ \E op \in Class!Ops, i \in Class!Item : Class!OpenDialog(op, i)
    PROVE  CourseInv'
<1>1. /\ ui \in CoursePage /\ net \in CourseCalls /\ srv \in CourseStore
      /\ CourseFits(ui, net.loads, net.ops, srv)
      /\ \A d \in net.ops : ChangeFits(d.op, d.item)
    BY DEF CourseInv
<1>2. PICK dialog \in [op : Class!Ops \cup {"none"}, item : Class!Item \cup {<<>>}] :
          ui' = [ui EXCEPT !.dialog = dialog] /\ ChangeFits(dialog.op, dialog.item)
    <2>1. CASE Class!CloseDialog
        <3>1. PICK d : d = Class!Closed
            OBVIOUS
        <3>2. d \in [op : Class!Ops \cup {"none"}, item : Class!Item \cup {<<>>}]
              /\ ChangeFits(d.op, d.item)
            BY <3>1 DEF Class!Closed, ChangeFits
        <3>3. ui' = [ui EXCEPT !.dialog = d]
            BY <2>1, <3>1 DEF Class!CloseDialog
        <3> QED
            BY <3>2, <3>3
    <2>2. CASE \E op \in Class!Ops, i \in Class!Item : Class!OpenDialog(op, i)
        <3>1. PICK op \in Class!Ops, i \in Class!Item : Class!OpenDialog(op, i)
            BY <2>2
        <3>2. PICK d : d = [op |-> op, item |-> i]
            OBVIOUS
        <3>3. d \in [op : Class!Ops \cup {"none"}, item : Class!Item \cup {<<>>}]
              /\ d.op = op /\ d.item = i
            BY <3>2
        <3>4. ui' = [ui EXCEPT !.dialog = d] /\ <<op, i>> \in Class!Offered
            BY <3>1, <3>2 DEF Class!OpenDialog
        <3>5. ChangeFits(d.op, d.item)
            BY <1>1, <3>3, <3>4, CourseOffers
        <3> QED
            BY <3>3, <3>4, <3>5
    <2> QED
        BY <2>1, <2>2
<1>3. /\ ui' \in CoursePage /\ ui'.dialog = dialog /\ ui'.page = ui.page
      /\ ui'.class = ui.class /\ ui'.selected = ui.selected
      /\ ui'.shown = ui.shown /\ ui'.doubt = ui.doubt
    BY <1>1, <1>2 DEF CoursePage
<1>4. net' = net /\ srv' = srv
    BY DEF Class!CloseDialog, Class!OpenDialog
<1>5. CourseFits(ui', net.loads, net.ops, srv)
    BY <1>1, <1>3, CoursePageStep
<1> QED
    BY <1>1, <1>2, <1>3, <1>4, <1>5 DEF CourseInv

LEMMA CourseSends ==
    ASSUME FormsAssumption, CourseInv, NEW op \in Class!Ops, NEW i, ChangeFits(op, i),
           Class!Send(op, i)
    PROVE  CourseInv'
<1>1. /\ ui \in CoursePage /\ net \in CourseCalls /\ srv \in CourseStore
      /\ CourseFits(ui, net.loads, net.ops, srv)
      /\ ChangeFits(ui.dialog.op, ui.dialog.item)
      /\ \A d \in net.ops : ChangeFits(d.op, d.item)
    BY DEF CourseInv
<1>2. i \in Class!Item
    BY DEF ChangeFits, Class!Ops
<1>3. PICK arg \in Nat : arg = IF op \in {"saveTopic", "archiveTopic"} THEN ui.selected ELSE 0
    BY <1>1, CourseBounds DEF CoursePage
<1>4. PICK c : c = [op |-> op, item |-> i, reply |-> "none", arg |-> arg]
    OBVIOUS
<1>5. c \in Class!Change /\ c.op = op /\ c.item = i
    BY <1>2, <1>4 DEF Class!Change
<1>6. PICK ops \in SUBSET Class!Change : ops = net.ops \cup {c}
    BY <1>1, <1>5 DEF CourseCalls
<1>7. net' = [net EXCEPT !.ops = ops] /\ srv' = srv
    BY <1>3, <1>4, <1>6 DEF Class!Send
<1>8. net' \in CourseCalls /\ net'.ops = ops /\ net'.loads = net.loads
    BY <1>1, <1>7 DEF CourseCalls
<1>9. PICK busy \in SUBSET Class!Ops :
          busy = IF op \in Class!Dialogs THEN ui.busy \cup {op} ELSE ui.busy
    BY <1>1 DEF CoursePage
<1>10. ui' = [ui EXCEPT !.busy = busy]
    BY <1>9 DEF Class!Send
<1>11. /\ ui' \in CoursePage /\ ui'.dialog = ui.dialog /\ ui'.page = ui.page
       /\ ui'.class = ui.class /\ ui'.selected = ui.selected
       /\ ui'.shown = ui.shown /\ ui'.doubt = ui.doubt
    BY <1>1, <1>10 DEF CoursePage
<1>12. \A list : Changing(list, net.ops) => Changing(list, ops)
    BY <1>6 DEF Changing
<1>13. CourseFits(ui', net.loads, ops, srv)
    BY <1>1, <1>11, <1>12, CoursePageStep
<1>14. \A d \in ops : ChangeFits(d.op, d.item)
    BY <1>1, <1>5, <1>6
<1> QED
    BY <1>1, <1>7, <1>8, <1>11, <1>13, <1>14 DEF CourseInv

LEMMA CourseChangeAsked ==
    ASSUME FormsAssumption, CourseInv,
           Class!Confirm \/ \E i \in Class!Item : Class!ToggleStatus(i)
    PROVE  CourseInv'
<1>1. CASE Class!Confirm
    <2>1. ui.dialog.op \in Class!Ops
        BY <1>1 DEF Class!Confirm, Class!Confirms, Class!ClassDialogs, Class!SubjectsDialogs,
           Class!Ops
    <2>2. ChangeFits(ui.dialog.op, ui.dialog.item)
          /\ Class!Send(ui.dialog.op, ui.dialog.item)
        BY <1>1 DEF CourseInv, Class!Confirm
    <2> QED
        BY <2>1, <2>2, CourseSends
<1>2. CASE \E i \in Class!Item : Class!ToggleStatus(i)
    <2>1. PICK i \in Class!Item : Class!ToggleStatus(i)
        BY <1>2
    <2>2. PICK op : op = Class!Toggle(i)
        OBVIOUS
    <2>3. op \in {"archive", "publish"} /\ Class!Send(op, i)
        BY <2>1, <2>2 DEF Class!Toggle, Class!ToggleStatus
    <2>4. op \in Class!Ops /\ ChangeFits(op, i)
        BY <2>3 DEF Class!Ops, ChangeFits
    <2> QED
        BY <2>3, <2>4, CourseSends
<1> QED
    BY <1>1, <1>2

LEMMA CourseInit ==
    ASSUME FormsAssumption, Class!Init
    PROVE  CourseInv
<1>1. PICK page \in Class!Pages :
          /\ srv \in Class!Start(page) /\ ui = Class!Mounted(page, 1)
          /\ net = [loads |-> <<Class!NewLoad(Class!FirstList[page], 1, "none")>>, ops |-> {}]
    BY DEF Class!Init
<1>2. PICK loads : loads = <<Class!NewLoad(Class!FirstList[page], 1, "none")>>
    OBVIOUS
<1>3. /\ ui \in CoursePage /\ ui.dialog = Class!Closed
      /\ loads \in CourseLoads /\ CourseFits(ui, loads, {}, srv)
    <2>1. 1 \in Class!Classes
        BY DEF Class!Classes
    <2> QED
        BY <1>1, <1>2, <2>1, CourseMounted
<1>4. net \in CourseCalls /\ net.loads = loads /\ net.ops = {}
    BY <1>1, <1>2, <1>3 DEF CourseCalls
<1>5. srv \in CourseStore
    <2>1. 1 \in Subjects /\ 1 \in Class!Classes /\ 2 \in Class!Classes
        BY CourseBounds DEF Class!Classes
    <2>2. /\ <<"member", 1>> \in Class!Item
          /\ \A s \in Subjects : /\ <<"subject", s>> \in Class!Item
                                 /\ <<"topic", s>> \in Class!Item
        BY DEF Class!Item
    <2>3. /\ [s \in Subjects |-> 1] \in [Subjects -> Class!Classes]
          /\ [s \in Subjects |-> IF s = 1 THEN 1 ELSE 2] \in [Subjects -> Class!Classes]
        BY <2>1
    <2>4. CASE page = "class"
        <3>1. PICK first \in SUBSET {<<"member", 1>>, <<"subject", 1>>, <<"topic", 1>>} :
                  srv = [live |-> first,
                         used |-> (Class!Item \ {<<"subject", 1>>}) \cup first,
                         classOf |-> [s \in Subjects |-> 1]]
            BY <1>1, <2>4 DEF Class!Start
        <3>2. first \in SUBSET Class!Item
            BY <2>1, <2>2
        <3> QED
            BY <2>3, <3>1, <3>2 DEF CourseStore
    <2>5. CASE page = "subjects"
        <3>1. srv = [live |-> {<<"subject", 1>>},
                     used |-> {<<"subject", 1>>} \cup ({"topic"} \X (Subjects \ {1})),
                     classOf |-> [s \in Subjects |-> 1]]
            BY <1>1, <2>5 DEF Class!Start
        <3>2. {"topic"} \X (Subjects \ {1}) \in SUBSET Class!Item
            <4>1. \A i \in {"topic"} \X (Subjects \ {1}) : i \in Class!Item
                BY DEF Class!Item
            <4> QED
                BY <4>1
        <3> QED
            BY <2>1, <2>2, <2>3, <3>1, <3>2 DEF CourseStore
    <2>6. CASE page = "challenges"
        <3>1. srv = [live |-> {"subject", "topic"} \X Subjects, used |-> Class!Item,
                     classOf |-> [s \in Subjects |-> IF s = 1 THEN 1 ELSE 2]]
            BY <1>1, <2>6 DEF Class!Start
        <3>2. {"subject", "topic"} \X Subjects \in SUBSET Class!Item
            <4>1. \A i \in {"subject", "topic"} \X Subjects : i \in Class!Item
                BY DEF Class!Item
            <4> QED
                BY <4>1
        <3> QED
            BY <2>3, <3>1, <3>2 DEF CourseStore
    <2> QED
        BY <2>4, <2>5, <2>6 DEF Class!Pages
<1>6. ChangeFits(ui.dialog.op, ui.dialog.item)
    BY <1>3 DEF ChangeFits, Class!Closed
<1> QED
    BY <1>3, <1>4, <1>5, <1>6 DEF CourseInv

LEMMA CourseKeepsInv ==
    ASSUME FormsAssumption, CourseInv, Class!Next
    PROVE  CourseInv'
<1>1. DOMAIN net.loads = 1 .. Len(net.loads)
    BY CourseLoadsAre DEF CourseInv, CourseCalls
<1>2. CASE \E k \in DOMAIN net.loads :
              Class!ServeLoad(k) \/ Class!LoadAnswered(k) \/ Class!LoadFails(k)
    BY <1>1, <1>2, CourseServeLoad, CourseLoadAnswered, CourseLoadFails
<1>3. CASE \E c \in net.ops :
              Class!ServeChange(c) \/ Class!ChangeAnswered(c) \/ Class!ChangeFails(c)
    BY <1>3, CourseServeChange, CourseChangeAnswered, CourseChangeFails
<1>4. CASE Class!CloseDialog \/ \E op \in Class!Ops, i \in Class!Item : Class!OpenDialog(op, i)
    BY <1>4, CourseDialogStep
<1>5. CASE Class!Confirm \/ \E i \in Class!Item : Class!ToggleStatus(i)
    BY <1>5, CourseChangeAsked
<1>6. CASE \E s \in Subjects : Class!SelectSubject(s)
    BY <1>6, CourseSelectSubject
<1>7. CASE \E c \in Class!Classes : Class!SwitchClass(c)
    BY <1>7, CourseSwitchClass
<1>8. CASE Class!Refresh
    BY <1>8, CourseRefresh
<1> QED
    BY <1>2, <1>3, <1>4, <1>5, <1>6, <1>7, <1>8 DEF Class!Next

LEMMA CourseProperties ==
    ASSUME CourseInv
    PROVE  Class!TypeOK /\ Class!ShownIsCurrent
<1>1. /\ ui \in CoursePage /\ net \in CourseCalls /\ srv \in CourseStore
      /\ CourseFits(ui, net.loads, net.ops, srv)
    BY DEF CourseInv
<1>2. Class!TypeOK
    <2>1. \A k \in DOMAIN net.loads : net.loads[k] \in Class!Load
        BY <1>1, CourseLoadsAre DEF CourseCalls
    <2> QED
        BY <1>1, <2>1 DEF Class!TypeOK, CoursePage, CourseCalls, CourseStore
<1>3. ASSUME net.loads = <<>>, net.ops = {}, NEW list \in Class!ListsOf[ui.page] \ ui.doubt
      PROVE  {i \in ui.shown : i[1] \in Class!Kinds[list]}
                 = Class!Stored(list, Class!Wanted(list, ui))
    <2>1. ListFits(list, ui, net.loads, net.ops, srv)
        BY <1>1 DEF CourseFits
    <2>2. ~Changing(list, net.ops)
        BY <1>3 DEF Changing
    <2>3. ~Awaited(list, net.loads)
        BY <1>3 DEF Awaited
    <2>4. ShownIn(ui, list) = StoredIn(srv, list, Class!Wanted(list, ui))
        BY <1>3, <2>1, <2>2, <2>3 DEF ListFits
    <2> QED
        BY <2>4, CourseStored DEF ShownIn
<1> QED
    BY <1>2, <1>3 DEF Class!ShownIsCurrent
=============================================================================
