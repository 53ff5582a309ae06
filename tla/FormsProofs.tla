----------------------------- MODULE FormsProofs -----------------------------
(* What the pages of MCForms keep, for any number of pages, codes, tries,  *)
(* teachers, questions and options: one inductive invariant a page, in the *)
(* terms of that page's module, and the theorems that follow of MCForms.   *)
EXTENDS MCForms, TLAPS, FiniteSetTheorems, SequenceTheorems, WellFoundedInduction

-----------------------------------------------------------------------------
(* The first and the last of a set of numbers.                             *)

LEMMA FirstExists ==
    ASSUME NEW S, S \subseteq Nat, S # {}
    PROVE  \E first \in S : \A n \in S : first =< n
<1>1. PICK first \in S : \A n \in S : <<n, first>> \notin OpToRel(<, Nat)
    BY NatLessThanWellFounded, WFMin
<1>2. ASSUME NEW n \in S PROVE first =< n
    <2>1. ASSUME n < first PROVE <<n, first>> \in OpToRel(<, Nat)
        <3>1. <<n, first>> \in Nat \X Nat /\ <<n, first>>[1] < <<n, first>>[2]
            BY <2>1, SMT
        <3> QED
            BY <3>1, Zenon DEF OpToRel
    <2>2. ~(n < first)
        BY <1>1, <2>1, Zenon
    <2>3. n \in Nat /\ first \in Nat
        OBVIOUS
    <2> QED
        BY <2>2, <2>3, SMT
<1> QED
    BY <1>2

LEMMA LastExists ==
    ASSUME NEW N \in Nat, NEW S, S \subseteq 0 .. N, S # {}
    PROVE  \E last \in S : \A n \in S : n =< last
<1> DEFINE T == {N - n : n \in S}
<1>1. T \subseteq Nat /\ T # {}
    <2>1. ASSUME NEW n \in S PROVE N - n \in Nat
        <3>1. n \in 0 .. N
            OBVIOUS
        <3> QED
            BY <3>1, SMT
    <2>2. PICK n \in S : TRUE
        OBVIOUS
    <2>3. N - n \in T
        BY <2>2
    <2> QED
        BY <2>1, <2>3
<1>2. PICK least \in T : \A m \in T : least =< m
    BY <1>1, FirstExists
<1>3. PICK last \in S : least = N - last
    BY <1>2
<1>4. ASSUME NEW n \in S PROVE n =< last
    <2>1. N - n \in T
        OBVIOUS
    <2>2. N - last =< N - n
        BY <1>2, <1>3, <2>1
    <2>3. n \in 0 .. N /\ last \in 0 .. N
        BY <1>3
    <2> QED
        BY <2>2, <2>3, SMT
<1> QED
    BY <1>3, <1>4

-----------------------------------------------------------------------------
(* Signing in with a code.                                                 *)

\* A code that has opened a session is consumed, and was counted once.
CountedWhenConsumed ==
    \A c \in Login!Code :
        /\ srv.issued[c] = (IF srv.code[c] = "consumed" THEN 1 ELSE 0)
        /\ srv.attempts[c] = srv.issued[c]

\* One verification at a time holds the lock, and what it has read is the last
\* code that can be consumed: nothing else consumes one.
OneLocked ==
    /\ \A p, q \in CodePages :
          net[p].verify = "locked" /\ net[q].verify = "locked" => p = q
    /\ \A p \in CodePages :
          net[p].verify = "locked" /\ net[p].seen # 0 =>
              srv.code[net[p].seen] \in {"open", "expired"}

\* A code that has been delivered and is not committed is one page's own.
PendingIsOwn ==
    /\ \A p \in CodePages :
          net[p].ask \in {"delivered", "answered"} =>
              net[p].code \in Login!Code /\ srv.code[net[p].code] = "pending"
    /\ \A p, q \in CodePages :
          /\ net[p].ask \in {"delivered", "answered"}
          /\ net[q].ask \in {"delivered", "answered"}
          /\ net[p].code = net[q].code
          => p = q

\* The requests that are past the check once a code is delivered were so when
\* the first one was, and have not delivered any: none passes it until the
\* cooldown runs out.
OneInWindow ==
    /\ ~srv.cooldown => srv.window = {}
    /\ \A d \in srv.window : d.page \in srv.early
    /\ \A d, e \in srv.window : d.page = e.page => d = e
    /\ \A p \in CodePages : net[p].ask = "read" =>
          \A d \in srv.window : p \in srv.early /\ d.page # p

LoginInv ==
    Login!TypeOK /\ CountedWhenConsumed /\ OneLocked /\ PendingIsOwn /\ OneInWindow

LoginParts == {"unused", "pending", "open", "expired", "consumed"}

LEMMA LoginInit ==
    ASSUME FormsAssumption, Login!Init PROVE LoginInv
<1> USE FormsAssumption DEF FormsAssumption
<1>1. Login!TypeOK
    BY DEF Login!Init, Login!TypeOK, Login!Code, Login!Wrong, Login!Nothing
<1>2. CountedWhenConsumed
    BY DEF Login!Init, CountedWhenConsumed
<1>3. OneLocked /\ PendingIsOwn
    BY DEF Login!Init, OneLocked, PendingIsOwn
<1>4. OneInWindow
    BY DEF Login!Init, OneInWindow
<1> QED
    BY <1>1, <1>2, <1>3, <1>4 DEF LoginInv

LEMMA NewestOpen ==
    ASSUME FormsAssumption
    PROVE  Login!Newest \in Login!Code \cup {0} /\
           (Login!Newest # 0 => srv.code[Login!Newest] \in {"open", "expired"})
<1> DEFINE S == Login!NotConsumed
<1>1. CASE S = {}
    BY <1>1 DEF Login!Newest
<1>2. CASE S # {}
    <2>1. MaxCodes \in Nat /\ S \subseteq Login!Code /\ S \subseteq 0 .. MaxCodes
        BY DEF FormsAssumption, Login!NotConsumed, Login!Code
    <2>2. \E c \in S : \A d \in S : d =< c
        BY <1>2, <2>1, LastExists
    <2>3. Login!Newest \in S
        BY <1>2, <2>2 DEF Login!Newest
    <2> QED
        BY <2>1, <2>3 DEF Login!NotConsumed
<1> QED
    BY <1>1, <1>2

LEMMA NextUnused ==
    ASSUME FormsAssumption, Login!Unused # {}
    PROVE  Login!NextCode \in Login!Code /\ srv.code[Login!NextCode] = "unused"
<1>1. Login!Unused \subseteq Nat /\ Login!Unused \subseteq Login!Code
    BY DEF FormsAssumption, Login!Unused, Login!Code
<1>2. \E c \in Login!Unused : \A d \in Login!Unused : c =< d
    BY <1>1, FirstExists
<1>3. Login!NextCode \in Login!Unused
    BY <1>2 DEF Login!NextCode
<1> QED
    BY <1>1, <1>3 DEF Login!Unused

\* The parts of the types.
LoginPage ==
    [view : {"login", "verify", "in"}, loading : BOOLEAN, resending : BOOLEAN,
     cooldown : BOOLEAN, typed : {Login!Nothing} \cup Login!Code \cup {Login!Wrong}]

LoginCall ==
    [ask : {"none", "sent", "read", "delivered", "answered", "refused"},
     code : Login!Code \cup {0},
     verify : {"none", "sent", "locked", "ok", "refused"},
     guess : Login!Code \cup {Login!Wrong}, seen : Login!Code \cup {0}]

LEMMA LoginUi ==
    ASSUME Login!TypeOK, NEW p \in CodePages, NEW u \in LoginPage,
           ui' = [ui EXCEPT ![p] = u]
    PROVE  ui' \in [CodePages -> LoginPage]
BY DEF Login!TypeOK, LoginPage

LEMMA LoginNet ==
    ASSUME Login!TypeOK, NEW p \in CodePages, NEW r \in LoginCall,
           net' = [net EXCEPT ![p] = r]
    PROVE  /\ net' \in [CodePages -> LoginCall]
           /\ \A q \in CodePages : net'[q] = IF q = p THEN r ELSE net[q]
<1>1. net \in [CodePages -> LoginCall]
    BY DEF Login!TypeOK, LoginCall
<1> QED
    BY <1>1

LEMMA LoginAt ==
    ASSUME Login!TypeOK, NEW p \in CodePages
    PROVE  ui[p] \in LoginPage /\ net[p] \in LoginCall
BY DEF Login!TypeOK, LoginPage, LoginCall

\* What a page does by itself leaves the server as it is, and its request for a
\* code where it was or sent, or back from a refusal.
LEMMA LoginPageStep ==
    ASSUME FormsAssumption, LoginInv, NEW p \in CodePages,
           NEW u \in LoginPage, NEW r \in LoginCall,
           ui' = [ui EXCEPT ![p] = u], net' = [net EXCEPT ![p] = r], srv' = srv,
           r.code = net[p].code,
           \/ r.ask = net[p].ask \/ r.ask \in {"none", "sent"}
           \/ net[p].ask = "delivered" /\ r.ask = "answered",
           \/ r.verify = net[p].verify /\ r.seen = net[p].seen
           \/ r.verify # "locked"
    PROVE  LoginInv'
<1>1. Login!TypeOK
    BY DEF LoginInv
<1>2. ui' \in [CodePages -> LoginPage]
    BY <1>1, LoginUi
<1>3. /\ net' \in [CodePages -> LoginCall]
      /\ \A q \in CodePages : net'[q] = IF q = p THEN r ELSE net[q]
    BY <1>1, LoginNet
<1>4. Login!TypeOK'
    BY <1>1, <1>2, <1>3 DEF Login!TypeOK, LoginPage, LoginCall
<1>5. CountedWhenConsumed'
    BY DEF LoginInv, CountedWhenConsumed
<1>6. OneLocked' /\ PendingIsOwn' /\ OneInWindow'
    BY <1>3 DEF LoginInv, OneLocked, PendingIsOwn, OneInWindow
<1> QED
    BY <1>4, <1>5, <1>6 DEF LoginInv

LEMMA LoginPagesKeepInv ==
    ASSUME FormsAssumption, LoginInv, NEW p \in CodePages,
           \/ Login!AskCode(p) \/ Login!Resend(p) \/ Login!CountdownEnds(p)
           \/ Login!HandleVerify(p) \/ (\E c \in Login!Code \cup {Login!Wrong} : Login!Type(p, c))
           \/ Login!AskAnswered(p) \/ Login!AskRefused(p) \/ Login!VerifyAnswered(p)
    PROVE  LoginInv'
<1>0. Login!TypeOK
    BY DEF LoginInv
<1>a. ui[p] \in LoginPage /\ net[p] \in LoginCall
    BY <1>0, LoginAt
<1>b. net = [net EXCEPT ![p] = net[p]]
    BY <1>0 DEF Login!TypeOK
<1>1. CASE Login!AskCode(p)
    <2>1. [ui[p] EXCEPT !.loading = TRUE] \in LoginPage
          /\ [net[p] EXCEPT !.ask = "sent"] \in LoginCall
        BY <1>a DEF LoginPage, LoginCall
    <2>2. /\ ui' = [ui EXCEPT ![p] = [ui[p] EXCEPT !.loading = TRUE]]
          /\ net' = [net EXCEPT ![p] = [net[p] EXCEPT !.ask = "sent"]]
          /\ srv' = srv
        BY <1>1 DEF Login!AskCode
    <2> QED
        BY <1>a, <2>1, <2>2, LoginPageStep DEF LoginCall
<1>2. CASE Login!Resend(p)
    <2>1. [ui[p] EXCEPT !.resending = TRUE] \in LoginPage
          /\ [net[p] EXCEPT !.ask = "sent"] \in LoginCall
        BY <1>a DEF LoginPage, LoginCall
    <2>2. /\ ui' = [ui EXCEPT ![p] = [ui[p] EXCEPT !.resending = TRUE]]
          /\ net' = [net EXCEPT ![p] = [net[p] EXCEPT !.ask = "sent"]]
          /\ srv' = srv
        BY <1>2 DEF Login!Resend
    <2> QED
        BY <1>a, <2>1, <2>2, LoginPageStep DEF LoginCall
<1>3. CASE Login!CountdownEnds(p)
    <2>1. [ui[p] EXCEPT !.cooldown = FALSE] \in LoginPage
        BY <1>a DEF LoginPage
    <2>2. /\ ui' = [ui EXCEPT ![p] = [ui[p] EXCEPT !.cooldown = FALSE]]
          /\ net' = [net EXCEPT ![p] = net[p]]
          /\ srv' = srv
        BY <1>b, <1>3 DEF Login!CountdownEnds
    <2> QED
        BY <1>a, <2>1, <2>2, LoginPageStep
<1>4. CASE \E c \in Login!Code \cup {Login!Wrong} : Login!Type(p, c)
    <2>1. PICK c \in Login!Code \cup {Login!Wrong} : Login!Type(p, c)
        BY <1>4
    <2>2. [ui[p] EXCEPT !.typed = c] \in LoginPage
        BY <1>a DEF LoginPage
    <2>3. /\ ui' = [ui EXCEPT ![p] = [ui[p] EXCEPT !.typed = c]]
          /\ net' = [net EXCEPT ![p] = net[p]]
          /\ srv' = srv
        BY <1>b, <2>1 DEF Login!Type
    <2> QED
        BY <1>a, <2>2, <2>3, LoginPageStep
<1>5. CASE Login!HandleVerify(p)
    <2> DEFINE u == [ui[p] EXCEPT !.loading = TRUE]
               r == [net[p] EXCEPT !.verify = "sent", !.guess = ui[p].typed]
    <2>1. ui[p].typed \in Login!Code \cup {Login!Wrong}
        BY <1>a, <1>5 DEF Login!HandleVerify, Login!MayVerify, LoginPage
    <2>2. u \in LoginPage
        BY <1>a DEF LoginPage
    <2>3. r \in LoginCall /\ r.code = net[p].code /\ r.ask = net[p].ask /\ r.verify = "sent"
        BY <1>a, <2>1 DEF LoginCall
    <2>4. ui' = [ui EXCEPT ![p] = u] /\ net' = [net EXCEPT ![p] = r] /\ srv' = srv
        BY <1>5 DEF Login!HandleVerify
    <2> HIDE DEF u, r
    <2> QED
        BY <2>2, <2>3, <2>4, LoginPageStep
<1>6. CASE Login!AskAnswered(p)
    <2> DEFINE u == IF ui[p].view = "in" THEN ui[p] ELSE Login!CodeShown(ui[p])
               r == [net[p] EXCEPT !.ask = "answered"]
    <2>1. Login!CodeShown(ui[p]) \in LoginPage
        BY <1>a DEF Login!CodeShown, LoginPage
    <2>2. u \in LoginPage
        BY <1>a, <2>1
    <2>3. r \in LoginCall /\ r.code = net[p].code /\ r.ask = "answered"
          /\ r.verify = net[p].verify /\ r.seen = net[p].seen
        BY <1>a DEF LoginCall
    <2>4. /\ ui' = [ui EXCEPT ![p] = u] /\ net' = [net EXCEPT ![p] = r] /\ srv' = srv
          /\ net[p].ask = "delivered"
        BY <1>6 DEF Login!AskAnswered
    <2> HIDE DEF u, r
    <2> QED
        BY <2>2, <2>3, <2>4, LoginPageStep
<1>7. CASE Login!AskRefused(p)
    <2> DEFINE u == [ui[p] EXCEPT !.resending = FALSE,
                        !.loading = IF ui[p].view = "login" THEN FALSE ELSE ui[p].loading]
               r == [net[p] EXCEPT !.ask = "none"]
    <2>1. u \in LoginPage
        BY <1>a DEF LoginPage
    <2>2. r \in LoginCall /\ r.code = net[p].code /\ r.ask = "none"
          /\ r.verify = net[p].verify /\ r.seen = net[p].seen
        BY <1>a DEF LoginCall
    <2>3. ui' = [ui EXCEPT ![p] = u] /\ net' = [net EXCEPT ![p] = r] /\ srv' = srv
        BY <1>0, <1>7 DEF Login!AskRefused, Login!TypeOK
    <2> HIDE DEF u, r
    <2> QED
        BY <2>1, <2>2, <2>3, LoginPageStep
<1>8. CASE Login!VerifyAnswered(p)
    <2> DEFINE in == [ui[p] EXCEPT !.view = "in", !.loading = FALSE,
                                   !.typed = Login!Nothing, !.cooldown = FALSE]
               still == [ui[p] EXCEPT !.loading = FALSE, !.typed = Login!Nothing]
               u == IF net[p].verify = "ok" THEN in ELSE still
               r == [net[p] EXCEPT !.verify = "none", !.guess = Login!Wrong, !.seen = 0]
    <2>1. in \in LoginPage /\ still \in LoginPage
        BY <1>a DEF LoginPage
    <2>2. u \in LoginPage
        BY <2>1
    <2>3. r \in LoginCall /\ r.code = net[p].code /\ r.ask = net[p].ask /\ r.verify = "none"
        BY <1>a DEF LoginCall
    <2>4. ui' = [ui EXCEPT ![p] = u]
        <3>1. CASE net[p].verify = "ok"
            BY <1>0, <1>8, <3>1 DEF Login!VerifyAnswered, Login!TypeOK
        <3>2. CASE net[p].verify # "ok"
            BY <1>0, <1>8, <3>2 DEF Login!VerifyAnswered, Login!TypeOK
        <3> QED
            BY <3>1, <3>2
    <2>5. net' = [net EXCEPT ![p] = r] /\ srv' = srv
        BY <1>8 DEF Login!VerifyAnswered
    <2> HIDE DEF u, r
    <2> QED
        BY <2>2, <2>3, <2>4, <2>5, LoginPageStep
<1> QED
    BY <1>1, <1>2, <1>3, <1>4, <1>5, <1>6, <1>7, <1>8

\* The parts of what the server keeps.
LoginStore ==
    [code : [Login!Code -> {"unused", "pending", "open", "expired", "consumed"}],
     mailed : SUBSET Login!Code, attempts : [Login!Code -> Nat], cooldown : BOOLEAN,
     window : SUBSET [code : Login!Code, page : CodePages], early : SUBSET CodePages,
     verifies : 0 .. MaxVerify + 1,
     issued : [Login!Code -> Nat]]

LEMMA LoginStoreType ==
    ASSUME Login!TypeOK, ui' = ui, NEW p \in CodePages, NEW r \in LoginCall,
           net' = [net EXCEPT ![p] = r], srv' \in LoginStore
    PROVE  Login!TypeOK'
<1>1. net' \in [CodePages -> LoginCall]
    BY LoginNet
<1> QED
    BY <1>1 DEF Login!TypeOK, LoginCall, LoginStore

LEMMA LoginRequestsKeepInv ==
    ASSUME FormsAssumption, LoginInv, NEW p \in CodePages,
           \/ Login!AskRead(p) \/ Login!Deliver(p) \/ Login!DeliveryFails(p)
           \/ Login!AskCommit(p)
    PROVE  LoginInv'
<1>0. Login!TypeOK /\ srv \in LoginStore
    BY DEF LoginInv, Login!TypeOK, LoginStore
<1>a. ui[p] \in LoginPage /\ net[p] \in LoginCall
    BY <1>0, LoginAt
<1>1. CASE Login!AskRead(p)
    <2> DEFINE r == [net[p] EXCEPT !.ask = IF srv.cooldown THEN "refused" ELSE "read"]
    <2>1. r \in LoginCall /\ r.code = net[p].code /\ r.verify = net[p].verify
          /\ r.seen = net[p].seen /\ r.ask = IF srv.cooldown THEN "refused" ELSE "read"
        BY <1>a DEF LoginCall
    <2>2. net' = [net EXCEPT ![p] = r] /\ ui' = ui /\ srv' = srv
        BY <1>1 DEF Login!AskRead
    <2>4. srv' \in LoginStore
        BY <1>0, <2>2
    <2> HIDE DEF r
    <2>6. \A q \in CodePages : net'[q] = IF q = p THEN r ELSE net[q]
        BY <1>0, <2>1, <2>2, LoginNet
    <2>7. Login!TypeOK'
        BY <1>0, <2>1, <2>2, <2>4, LoginStoreType
    <2>8. CountedWhenConsumed' /\ OneLocked' /\ PendingIsOwn'
        BY <2>1, <2>2, <2>6 DEF LoginInv, CountedWhenConsumed, OneLocked, PendingIsOwn
    <2>9. OneInWindow'
        BY <2>1, <2>2, <2>6 DEF LoginInv, OneInWindow
    <2> QED
        BY <2>7, <2>8, <2>9 DEF LoginInv
<1>2. CASE Login!Deliver(p)
    <2>1. PICK c : c = Login!NextCode
        OBVIOUS
    <2>2. c \in Login!Code /\ srv.code[c] = "unused"
        BY <1>2, <2>1, NextUnused DEF Login!Deliver
    <2> DEFINE r == [net[p] EXCEPT !.ask = "delivered", !.code = c]
    <2>3. r \in LoginCall /\ r.code = c /\ r.verify = net[p].verify
          /\ r.seen = net[p].seen /\ r.ask = "delivered"
        BY <1>a, <2>2 DEF LoginCall
    <2>4. PICK d : d = [code |-> c, page |-> p]
        OBVIOUS
    <2>a. d \in [code : Login!Code, page : CodePages] /\ d.page = p
        BY <2>2, <2>4
    <2>b. PICK window : window = srv.window \cup {d}
        OBVIOUS
    <2>c. window \in SUBSET [code : Login!Code, page : CodePages]
        BY <1>0, <2>a, <2>b DEF LoginStore
    <2>d. PICK early : early = IF srv.window = {} THEN Login!Asking ELSE srv.early
        OBVIOUS
    <2>e. early \in SUBSET CodePages
        BY <1>0, <2>d DEF LoginStore, Login!Asking
    <2>f. /\ net' = [net EXCEPT ![p] = r] /\ ui' = ui /\ net[p].ask = "read"
          /\ srv' = [srv EXCEPT !.code[c] = "pending", !.mailed = @ \cup {c},
                                !.window = window, !.early = early, !.cooldown = TRUE]
        BY <1>2, <2>1, <2>4, <2>b, <2>d DEF Login!Deliver, Login!CooldownSet
    <2>5. /\ srv' \in LoginStore
          /\ srv'.code = [srv.code EXCEPT ![c] = "pending"]
          /\ srv'.window = window /\ srv'.early = early /\ srv'.cooldown = TRUE
          /\ srv'.issued = srv.issued /\ srv'.attempts = srv.attempts
        BY <1>0, <2>2, <2>c, <2>e, <2>f DEF LoginStore
    <2>6. \A e \in Login!Code : srv'.code[e] = IF e = c THEN "pending" ELSE srv.code[e]
        BY <1>0, <2>5 DEF LoginStore
    <2> HIDE DEF r
    <2>7. \A q \in CodePages : net'[q] = IF q = p THEN r ELSE net[q]
        BY <1>0, <2>3, <2>f, LoginNet
    <2>8. \A q \in CodePages : net[q] \in LoginCall
        BY <1>0 DEF Login!TypeOK, LoginCall
    <2>9. Login!TypeOK'
        BY <1>0, <2>3, <2>f, <2>5, LoginStoreType
    <2>10. CountedWhenConsumed'
        BY <2>2, <2>5, <2>6 DEF LoginInv, CountedWhenConsumed
    <2>11. OneLocked'
        BY <2>2, <2>3, <2>6, <2>7, <2>8 DEF LoginInv, OneLocked, LoginCall
    <2>12. PendingIsOwn'
        BY <2>2, <2>3, <2>6, <2>7 DEF LoginInv, PendingIsOwn
    <2>14. \A q \in CodePages : net'[q].ask = "read" => net[q].ask = "read" /\ q # p
        BY <2>3, <2>7
    <2>g. srv'.window = window /\ srv'.early = early /\ srv'.cooldown = TRUE
        BY <2>5
    <2>15. p \in early /\ \A q \in CodePages : net[q].ask = "read" => q \in early
        <3>1. CASE srv.window = {}
            BY <2>f, <2>d, <3>1 DEF Login!Asking
        <3>2. CASE srv.window # {}
            <4>1. PICK e : e \in srv.window
                BY <3>2
            <4>2. early = srv.early
                BY <2>d, <3>2
            <4> QED
                BY <2>f, <4>1, <4>2 DEF LoginInv, OneInWindow
        <3> QED
            BY <3>1, <3>2
    <2>16. \A e \in srv.window : e.page \in early /\ e.page # p
        <3>1. ASSUME NEW e \in srv.window PROVE early = srv.early
            BY <2>d, <3>1
        <3> QED
            BY <2>f, <3>1 DEF LoginInv, OneInWindow
    <2>17. \A e \in srv'.window : e \in srv.window \/ e = d
        BY <2>b, <2>g
    <2>18. \A e \in srv'.window : e.page \in srv'.early
        BY <2>a, <2>g, <2>15, <2>16, <2>17
    <2>19. \A e, g \in srv'.window : e.page = g.page => e = g
        BY <2>a, <2>16, <2>17 DEF LoginInv, OneInWindow
    <2>20. ASSUME NEW q \in CodePages, net'[q].ask = "read", NEW e \in srv'.window
           PROVE  q \in srv'.early /\ e.page # q
        <3>1. net[q].ask = "read" /\ q # p
            BY <2>14, <2>20
        <3>2. e \in srv.window => e.page # q
            BY <3>1 DEF LoginInv, OneInWindow
        <3> QED
            BY <2>a, <2>g, <2>15, <2>17, <3>1, <3>2
    <2>13. OneInWindow'
        BY <2>g, <2>18, <2>19, <2>20 DEF OneInWindow
    <2> QED
        BY <2>9, <2>10, <2>11, <2>12, <2>13 DEF LoginInv
<1>3. CASE Login!DeliveryFails(p)
    <2> DEFINE r == [net[p] EXCEPT !.ask = "refused"]
    <2>1. r \in LoginCall /\ r.code = net[p].code /\ r.verify = net[p].verify
          /\ r.seen = net[p].seen /\ r.ask = "refused"
        BY <1>a DEF LoginCall
    <2>2. net' = [net EXCEPT ![p] = r] /\ ui' = ui /\ srv' = srv
        BY <1>3 DEF Login!DeliveryFails
    <2> HIDE DEF r
    <2>3. \A q \in CodePages : net'[q] = IF q = p THEN r ELSE net[q]
        BY <1>0, <2>1, <2>2, LoginNet
    <2>4. Login!TypeOK'
        BY <1>0, <2>1, <2>2, LoginStoreType
    <2> QED
        BY <2>1, <2>2, <2>3, <2>4
        DEF LoginInv, CountedWhenConsumed, OneLocked, PendingIsOwn, OneInWindow
<1>4. CASE Login!AskCommit(p)
    <2>1. PICK c : c = net[p].code
        OBVIOUS
    <2>2. c \in Login!Code /\ srv.code[c] = "pending" /\ net[p].ask = "answered"
        BY <1>4, <2>1 DEF Login!AskCommit, LoginInv, PendingIsOwn
    <2> DEFINE r == [net[p] EXCEPT !.ask = "none", !.code = 0]
    <2>3. r \in LoginCall /\ r.verify = net[p].verify
          /\ r.seen = net[p].seen /\ r.ask = "none"
        BY <1>a DEF LoginCall
    <2>4. /\ net' = [net EXCEPT ![p] = r] /\ ui' = ui
          /\ srv' = [srv EXCEPT !.code[c] = "open"]
        BY <1>4, <2>1 DEF Login!AskCommit
    <2>5. /\ srv' \in LoginStore
          /\ srv'.code = [srv.code EXCEPT ![c] = "open"]
          /\ srv'.window = srv.window /\ srv'.cooldown = srv.cooldown
          /\ srv'.issued = srv.issued /\ srv'.attempts = srv.attempts /\ srv'.early = srv.early
        BY <1>0, <2>2, <2>4 DEF LoginStore
    <2>6. \A d \in Login!Code : srv'.code[d] = IF d = c THEN "open" ELSE srv.code[d]
        BY <1>0, <2>5 DEF LoginStore
    <2> HIDE DEF r
    <2>7. \A q \in CodePages : net'[q] = IF q = p THEN r ELSE net[q]
        BY <1>0, <2>3, <2>4, LoginNet
    <2>8. \A q \in CodePages : net[q] \in LoginCall
        BY <1>0 DEF Login!TypeOK, LoginCall
    <2>9. Login!TypeOK'
        BY <1>0, <2>3, <2>4, <2>5, LoginStoreType
    <2>10. CountedWhenConsumed'
        BY <2>2, <2>5, <2>6 DEF LoginInv, CountedWhenConsumed
    <2>11. OneLocked'
        BY <2>2, <2>3, <2>6, <2>7, <2>8 DEF LoginInv, OneLocked, LoginCall
    <2>12. PendingIsOwn'
        BY <2>1, <2>2, <2>3, <2>6, <2>7 DEF LoginInv, PendingIsOwn
    <2>13. OneInWindow'
        BY <2>3, <2>4, <2>5, <2>7 DEF LoginInv, OneInWindow
    <2> QED
        BY <2>9, <2>10, <2>11, <2>12, <2>13 DEF LoginInv
<1> QED
    BY <1>1, <1>2, <1>3, <1>4

LEMMA LoginVerifiesKeepInv ==
    ASSUME FormsAssumption, LoginInv, NEW p \in CodePages,
           Login!VerifyRead(p) \/ Login!Accept(p) \/ Login!Refuse(p)
    PROVE  LoginInv'
<1>0. Login!TypeOK /\ srv \in LoginStore
    BY DEF LoginInv, Login!TypeOK, LoginStore
<1>a. ui[p] \in LoginPage /\ net[p] \in LoginCall
    BY <1>0, LoginAt
<1>b. MaxVerify \in Nat
    BY DEF FormsAssumption
<1>1. CASE Login!VerifyRead(p) /\ srv.verifies >= MaxVerify
    <2> DEFINE r == [net[p] EXCEPT !.verify = "refused"]
    <2>1. r \in LoginCall /\ r.code = net[p].code /\ r.ask = net[p].ask
          /\ r.verify = "refused"
        BY <1>a DEF LoginCall
    <2>2. net' = [net EXCEPT ![p] = r] /\ ui' = ui
          /\ srv' = [srv EXCEPT !.verifies = MaxVerify + 1]
        BY <1>1 DEF Login!VerifyRead
    <2>3. srv' \in LoginStore /\ srv'.code = srv.code /\ srv'.issued = srv.issued
          /\ srv'.attempts = srv.attempts /\ srv'.window = srv.window
          /\ srv'.cooldown = srv.cooldown /\ srv'.early = srv.early
        BY <1>0, <1>b, <2>2 DEF LoginStore
    <2> HIDE DEF r
    <2>4. \A q \in CodePages : net'[q] = IF q = p THEN r ELSE net[q]
        BY <1>0, <2>1, <2>2, LoginNet
    <2>5. Login!TypeOK'
        BY <1>0, <2>1, <2>2, <2>3, LoginStoreType
    <2> QED
        BY <2>1, <2>3, <2>4, <2>5
        DEF LoginInv, CountedWhenConsumed, OneLocked, PendingIsOwn, OneInWindow
<1>2. CASE Login!VerifyRead(p) /\ ~(srv.verifies >= MaxVerify)
    <2>1. PICK c : c = Login!Newest
        OBVIOUS
    <2>2. c \in Login!Code \cup {0} /\ (c # 0 => srv.code[c] \in {"open", "expired"})
        BY <2>1, NewestOpen
    <2> DEFINE r == [net[p] EXCEPT !.verify = "locked", !.seen = c]
    <2>3. r \in LoginCall /\ r.code = net[p].code /\ r.ask = net[p].ask
          /\ r.verify = "locked" /\ r.seen = c
        BY <1>a, <2>2 DEF LoginCall
    <2>4. net' = [net EXCEPT ![p] = r] /\ ui' = ui
          /\ srv' = [srv EXCEPT !.verifies = srv.verifies + 1]
          /\ \A q \in CodePages : net[q].verify # "locked"
        BY <1>2, <2>1 DEF Login!VerifyRead, Login!LockFree
    <2>5. srv.verifies + 1 \in 0 .. MaxVerify + 1
        BY <1>0, <1>b, <1>2 DEF LoginStore
    <2>6. srv' \in LoginStore /\ srv'.code = srv.code /\ srv'.issued = srv.issued
          /\ srv'.attempts = srv.attempts /\ srv'.window = srv.window
          /\ srv'.cooldown = srv.cooldown /\ srv'.early = srv.early
        BY <1>0, <2>4, <2>5 DEF LoginStore
    <2> HIDE DEF r
    <2>7. \A q \in CodePages : net'[q] = IF q = p THEN r ELSE net[q]
        BY <1>0, <2>3, <2>4, LoginNet
    <2>8. Login!TypeOK'
        BY <1>0, <2>3, <2>4, <2>6, LoginStoreType
    <2> QED
        BY <2>2, <2>3, <2>4, <2>6, <2>7, <2>8
        DEF LoginInv, CountedWhenConsumed, OneLocked, PendingIsOwn, OneInWindow
<1>3. CASE Login!Accept(p)
    <2>1. PICK c : c = net[p].seen
        OBVIOUS
    <2>a. c \in Login!Code /\ net[p].verify = "locked"
        BY <1>3, <1>a, <2>1 DEF Login!Accept, Login!Usable, LoginCall
    <2>b. net[p].seen # 0
        BY <1>3 DEF Login!Accept, Login!Usable
    <2>c. srv.code[c] \in {"open", "expired"}
        BY <2>1, <2>a, <2>b DEF LoginInv, OneLocked
    <2>2. c \in Login!Code /\ srv.code[c] \in {"open", "expired"}
          /\ net[p].verify = "locked" /\ srv.attempts[c] = 0 /\ srv.issued[c] = 0
        BY <2>a, <2>c DEF LoginInv, CountedWhenConsumed
    <2> DEFINE r == [net[p] EXCEPT !.verify = "ok"]
    <2>3. r \in LoginCall /\ r.code = net[p].code /\ r.ask = net[p].ask /\ r.verify = "ok"
        BY <1>a DEF LoginCall
    <2>4. /\ net' = [net EXCEPT ![p] = r] /\ ui' = ui
          /\ srv' = [srv EXCEPT !.code[c] = "consumed", !.attempts[c] = @ + 1,
                                !.issued[c] = @ + 1, !.verifies = 0]
        BY <1>3, <2>1 DEF Login!Accept
    <2>5. /\ srv'.code = [srv.code EXCEPT ![c] = "consumed"]
          /\ srv'.attempts = [srv.attempts EXCEPT ![c] = @ + 1]
          /\ srv'.issued = [srv.issued EXCEPT ![c] = @ + 1]
          /\ srv'.window = srv.window /\ srv'.cooldown = srv.cooldown /\ srv'.early = srv.early
        BY <1>0, <2>4 DEF LoginStore
    <2>d. /\ [srv.code EXCEPT ![c] = "consumed"] \in
                [Login!Code -> {"unused", "pending", "open", "expired", "consumed"}]
          /\ [srv.attempts EXCEPT ![c] = @ + 1] \in [Login!Code -> Nat]
          /\ [srv.issued EXCEPT ![c] = @ + 1] \in [Login!Code -> Nat]
        BY <1>0, <2>2 DEF LoginStore
    <2>e. PICK code, attempts, issued :
              /\ code = [srv.code EXCEPT ![c] = "consumed"]
              /\ attempts = [srv.attempts EXCEPT ![c] = @ + 1]
              /\ issued = [srv.issued EXCEPT ![c] = @ + 1]
        OBVIOUS
    <2>f. srv' = [code |-> code, mailed |-> srv.mailed, attempts |-> attempts,
                  cooldown |-> srv.cooldown, window |-> srv.window, early |-> srv.early,
                  verifies |-> 0, issued |-> issued]
        BY <1>0, <2>4, <2>e DEF LoginStore
    <2>6. srv' \in LoginStore
        BY <1>0, <1>b, <2>d, <2>e, <2>f DEF LoginStore
    <2>7. \A d \in Login!Code :
              /\ srv'.code[d] = IF d = c THEN "consumed" ELSE srv.code[d]
              /\ srv'.attempts[d] = IF d = c THEN 1 ELSE srv.attempts[d]
              /\ srv'.issued[d] = IF d = c THEN 1 ELSE srv.issued[d]
        BY <1>0, <2>2, <2>5 DEF LoginStore
    <2> HIDE DEF r
    <2>8. \A q \in CodePages : net'[q] = IF q = p THEN r ELSE net[q]
        BY <1>0, <2>3, <2>4, LoginNet
    <2>9. \A q \in CodePages : net[q] \in LoginCall
        BY <1>0 DEF Login!TypeOK, LoginCall
    <2>10. Login!TypeOK'
        BY <1>0, <2>3, <2>4, <2>6, LoginStoreType
    <2>11. CountedWhenConsumed'
        BY <2>7 DEF LoginInv, CountedWhenConsumed
    <2>12. OneLocked'
        BY <2>2, <2>3, <2>8 DEF LoginInv, OneLocked
    <2>13. PendingIsOwn'
        BY <2>2, <2>3, <2>7, <2>8 DEF LoginInv, PendingIsOwn
    <2>14. OneInWindow'
        BY <2>3, <2>5, <2>8 DEF LoginInv, OneInWindow
    <2> QED
        BY <2>10, <2>11, <2>12, <2>13, <2>14 DEF LoginInv
<1>4. CASE Login!Refuse(p)
    <2> DEFINE r == [net[p] EXCEPT !.verify = "refused"]
    <2>1. r \in LoginCall /\ r.code = net[p].code /\ r.ask = net[p].ask
          /\ r.verify = "refused"
        BY <1>a DEF LoginCall
    <2>2. net' = [net EXCEPT ![p] = r] /\ ui' = ui /\ srv' = srv
        BY <1>4 DEF Login!Refuse
    <2> HIDE DEF r
    <2>3. \A q \in CodePages : net'[q] = IF q = p THEN r ELSE net[q]
        BY <1>0, <2>1, <2>2, LoginNet
    <2>4. Login!TypeOK'
        BY <1>0, <2>1, <2>2, LoginStoreType
    <2> QED
        BY <2>1, <2>2, <2>3, <2>4
        DEF LoginInv, CountedWhenConsumed, OneLocked, PendingIsOwn, OneInWindow
<1> QED
    BY <1>1, <1>2, <1>3, <1>4

LEMMA LoginTimeKeepsInv ==
    ASSUME FormsAssumption, LoginInv,
           \/ Login!CooldownRunsOut \/ Login!VerifyCountRunsOut
           \/ \E c \in Login!Code : Login!CodeExpires(c)
    PROVE  LoginInv'
<1>0. Login!TypeOK /\ srv \in LoginStore /\ MaxVerify \in Nat
    BY DEF FormsAssumption, LoginInv, Login!TypeOK, LoginStore
<1>1. CASE Login!CooldownRunsOut
    <2>1. ui' = ui /\ net' = net /\ srv' = [srv EXCEPT !.cooldown = FALSE, !.window = {}, !.early = {}]
        BY <1>1 DEF Login!CooldownRunsOut
    <2>2. srv' \in LoginStore /\ srv'.code = srv.code /\ srv'.issued = srv.issued
          /\ srv'.attempts = srv.attempts /\ srv'.window = {} /\ srv'.early = {}
        BY <1>0, <2>1 DEF LoginStore
    <2>3. Login!TypeOK'
        BY <1>0, <2>1, <2>2 DEF Login!TypeOK, LoginStore
    <2> QED
        BY <2>1, <2>2, <2>3
        DEF LoginInv, CountedWhenConsumed, OneLocked, PendingIsOwn, OneInWindow
<1>2. CASE Login!VerifyCountRunsOut
    <2>1. ui' = ui /\ net' = net /\ srv' = [srv EXCEPT !.verifies = 0]
        BY <1>2 DEF Login!VerifyCountRunsOut
    <2>2. srv' \in LoginStore /\ srv'.code = srv.code /\ srv'.issued = srv.issued
          /\ srv'.attempts = srv.attempts /\ srv'.window = srv.window
          /\ srv'.early = srv.early /\ srv'.cooldown = srv.cooldown
        BY <1>0, <2>1 DEF LoginStore
    <2>3. Login!TypeOK'
        BY <1>0, <2>1, <2>2 DEF Login!TypeOK, LoginStore
    <2> QED
        BY <2>1, <2>2, <2>3
        DEF LoginInv, CountedWhenConsumed, OneLocked, PendingIsOwn, OneInWindow
<1>3. ASSUME NEW c \in Login!Code, Login!CodeExpires(c) PROVE LoginInv'
    <2>1. ui' = ui /\ net' = net /\ srv' = [srv EXCEPT !.code[c] = "expired"]
          /\ srv.code[c] = "open"
        BY <1>3 DEF Login!CodeExpires
    <2>2. srv' \in LoginStore /\ srv'.code = [srv.code EXCEPT ![c] = "expired"]
          /\ srv'.issued = srv.issued /\ srv'.cooldown = srv.cooldown
          /\ srv'.attempts = srv.attempts /\ srv'.window = srv.window
          /\ srv'.early = srv.early
        BY <1>0, <2>1 DEF LoginStore
    <2>3. \A d \in Login!Code : srv'.code[d] = IF d = c THEN "expired" ELSE srv.code[d]
        BY <1>0, <2>2 DEF LoginStore
    <2>4. \A q \in CodePages : net[q] \in LoginCall
        BY <1>0 DEF Login!TypeOK, LoginCall
    <2>5. Login!TypeOK'
        BY <1>0, <2>1, <2>2 DEF Login!TypeOK, LoginStore
    <2>6. CountedWhenConsumed'
        BY <2>1, <2>2, <2>3 DEF LoginInv, CountedWhenConsumed
    <2>7. OneLocked'
        BY <2>1, <2>3, <2>4 DEF LoginInv, OneLocked, LoginCall
    <2>8. PendingIsOwn'
        BY <2>1, <2>3, <2>4 DEF LoginInv, PendingIsOwn, LoginCall
    <2>9. OneInWindow'
        BY <2>1, <2>2 DEF LoginInv, OneInWindow
    <2> QED
        BY <2>5, <2>6, <2>7, <2>8, <2>9 DEF LoginInv
<1> QED
    BY <1>1, <1>2, <1>3

LEMMA LoginKeepsInv ==
    ASSUME FormsAssumption, LoginInv, Login!Next PROVE LoginInv'
<1>1. CASE \/ Login!CooldownRunsOut \/ Login!VerifyCountRunsOut
           \/ \E c \in Login!Code : Login!CodeExpires(c)
    BY <1>1, LoginTimeKeepsInv
<1>2. ASSUME NEW p \in CodePages,
             \/ Login!AskCode(p) \/ Login!Resend(p) \/ Login!CountdownEnds(p)
             \/ Login!HandleVerify(p)
             \/ (\E c \in Login!Code \cup {Login!Wrong} : Login!Type(p, c))
             \/ Login!AskAnswered(p) \/ Login!AskRefused(p) \/ Login!VerifyAnswered(p)
      PROVE  LoginInv'
    BY <1>2, LoginPagesKeepInv
<1>3. ASSUME NEW p \in CodePages,
             \/ Login!AskRead(p) \/ Login!Deliver(p) \/ Login!DeliveryFails(p)
             \/ Login!AskCommit(p)
      PROVE  LoginInv'
    BY <1>3, LoginRequestsKeepInv
<1>4. ASSUME NEW p \in CodePages,
             Login!VerifyRead(p) \/ Login!Accept(p) \/ Login!Refuse(p)
      PROVE  LoginInv'
    BY <1>4, LoginVerifiesKeepInv
<1> QED
    BY <1>1, <1>2, <1>3, <1>4 DEF Login!Next

\* The properties of the log-in follow.
LEMMA LoginProperties ==
    ASSUME LoginInv
    PROVE  Login!CodeUsedOnce /\ Login!OneCodePerCooldown
<1>1. ASSUME NEW c \in Login!Code PROVE srv.issued[c] =< 1
    <2>1. srv.issued[c] = IF srv.code[c] = "consumed" THEN 1 ELSE 0
        BY DEF LoginInv, CountedWhenConsumed
    <2> QED
        BY <2>1, SMT
<1> QED
    BY <1>1 DEF LoginInv, OneInWindow, Login!CodeUsedOnce, Login!OneCodePerCooldown

-----------------------------------------------------------------------------
(* Getting to one's class.                                                 *)

EnrolPage ==
    [path : Enrol!Paths, from : Enrol!Paths \cup {"none"}, role : Enrol!Roles,
     status : {"loading", "guest", "in"}, onboarded : BOOLEAN, code : BOOLEAN,
     busy : BOOLEAN, error : {"none", "join", "profile"}, hops : Nat]

EnrolCall ==
    [step : {"none", "join", "profile"}, reply : {"none", "ok", "already", "refused"}]

EnrolStore ==
    [member : {"none", "active", "removed"}, onboarded : BOOLEAN,
     teachers : SUBSET Teachers, removing : [Teachers -> Teachers \cup {"nobody"}],
     met : BOOLEAN]

\* How many redirects lead from a guarded address of somebody signed in, ...
FromGuarded(u, path) ==
    IF path = "onboarding" \/ (u.onboarded /\ path \in Enrol!Own(u.role)) THEN 0 ELSE 1

\* ... and from any address of anybody.
Redirects(u) ==
    IF u.status = "loading" THEN 0
    ELSE IF u.status = "guest" THEN IF u.path \in Enrol!Guest THEN 0 ELSE 1
    ELSE IF u.path \in Enrol!Guest /\ u.from # "none" THEN 1 + FromGuarded(u, u.from)
    ELSE IF u.path \in Enrol!Guest \cup {"root"}
    THEN 1 + FromGuarded(u, Enrol!HomeOf(u.role))
    ELSE FromGuarded(u, u.path)

\* The redirects made and those to come are two at most; nobody is sent back to
\* a page for guests.
PageInv(u) ==
    /\ u \in EnrolPage
    /\ u.from \notin Enrol!Guest \cup {"root"}
    /\ u.role # "ADMIN" => u.hops + Redirects(u) =< 2

\* As long as no removals have overlapped, the one that has counted the
\* teachers leaves one of them.
StoreInv(s) ==
    /\ s \in EnrolStore
    /\ ~s.met =>
          /\ s.teachers # {}
          /\ \A t \in Teachers : s.removing[t] # "nobody" => s.teachers \ {s.removing[t]} # {}
          /\ \A t, u \in Teachers :
                s.removing[t] # "nobody" /\ s.removing[u] # "nobody" => t = u

EnrolInv == PageInv(ui) /\ net \in EnrolCall /\ StoreInv(srv)

LEMMA RedirectsBound ==
    ASSUME NEW u PROVE Redirects(u) \in 0 .. 2
BY DEF Redirects, FromGuarded

\* A redirect is one fewer to come.
LEMMA OneFewer ==
    ASSUME NEW u, PageInv(u), Enrol!Turned(u), NEW from,
           from = IF /\ u.path \notin Enrol!Guest
                     /\ Enrol!Destination(u) \in {"login", "onboarding"}
                  THEN u.path ELSE "none"
    PROVE  PageInv([path |-> Enrol!Destination(u), from |-> from, role |-> u.role,
                    status |-> u.status, onboarded |-> u.onboarded, code |-> FALSE,
                    busy |-> FALSE, error |-> "none", hops |-> u.hops + 1])
<1>0. PICK path : path = Enrol!Destination(u)
    OBVIOUS
<1> DEFINE v == [path |-> path, from |-> from, role |-> u.role, status |-> u.status,
                 onboarded |-> u.onboarded, code |-> FALSE, busy |-> FALSE,
                 error |-> "none", hops |-> u.hops + 1]
<1>1. u \in EnrolPage
    BY DEF PageInv
<1>2. /\ u.role \in Enrol!Roles /\ u.status \in {"loading", "guest", "in"}
      /\ u.path \in Enrol!Paths /\ u.onboarded \in BOOLEAN /\ u.hops \in Nat
      /\ u.from \in Enrol!Paths \cup {"none"} /\ u.from \notin Enrol!Guest \cup {"root"}
    BY <1>1 DEF EnrolPage, PageInv
<1>3. path \in Enrol!Paths /\ path # Enrol!Outlet
    BY <1>0, <1>2 DEF Enrol!Turned, Enrol!Destination, Enrol!GuestOnly,
       Enrol!Protected, Enrol!HomeOf, Enrol!Paths, Enrol!Guest, Enrol!Outlet
<1>4. from \in Enrol!Paths \cup {"none"}
    BY <1>2
<1>5. from \notin Enrol!Guest \cup {"root"}
    BY <1>2, Zenon DEF Enrol!Destination, Enrol!Guest, Enrol!HomeOf, Enrol!Outlet
<1>6. v.path = path /\ v.from = from /\ v.role = u.role /\ v.status = u.status
      /\ v.onboarded = u.onboarded /\ v.hops = u.hops + 1
    OBVIOUS
<1>7. v \in EnrolPage
    BY <1>2, <1>3, <1>4 DEF EnrolPage
<1> HIDE DEF v
<1>8. u.role # "ADMIN" => 1 + Redirects(v) =< Redirects(u)
    BY <1>0, <1>2, <1>3, <1>6 DEF Redirects, FromGuarded, Enrol!Turned, Enrol!Destination,
       Enrol!GuestOnly, Enrol!Protected, Enrol!HomeOf, Enrol!Own, Enrol!Paths,
       Enrol!Guest, Enrol!Outlet, Enrol!Roles
<1>9. PageInv(v)
    BY <1>2, <1>5, <1>6, <1>7, <1>8, RedirectsBound DEF PageInv
<1> QED
    BY <1>0, <1>9 DEF v

LEMMA RedirectKeepsInv ==
    ASSUME PageInv(ui), Enrol!Redirect PROVE PageInv(ui')
<1>1. PICK from :
          from = IF /\ ui.path \notin Enrol!Guest
                    /\ Enrol!Destination(ui) \in {"login", "onboarding"}
                 THEN ui.path ELSE "none"
    OBVIOUS
<1>2. PICK path : path = Enrol!Destination(ui)
    OBVIOUS
<1>3. ui \in EnrolPage
    BY DEF PageInv
<1>4. ui' = [path |-> path, from |-> from, role |-> ui.role,
             status |-> ui.status, onboarded |-> ui.onboarded, code |-> FALSE,
             busy |-> FALSE, error |-> "none", hops |-> ui.hops + 1]
    BY <1>1, <1>2, <1>3 DEF Enrol!Redirect, Enrol!Form, EnrolPage
<1>5. Enrol!Turned(ui)
    BY DEF Enrol!Redirect
<1>6. PICK u : u = ui
    OBVIOUS
<1>7. PageInv([path |-> Enrol!Destination(u), from |-> from, role |-> u.role,
               status |-> u.status, onboarded |-> u.onboarded, code |-> FALSE,
               busy |-> FALSE, error |-> "none", hops |-> u.hops + 1])
    BY <1>1, <1>5, <1>6, OneFewer
<1> QED
    BY <1>2, <1>4, <1>6, <1>7

\* Whoever is led by no redirect, or by none yet, is led by two at most.
LEMMA FreshKeepsInv ==
    ASSUME NEW v \in EnrolPage, v.from \notin Enrol!Guest \cup {"root"}, v.hops = 0
    PROVE  PageInv(v)
<1>1. Redirects(v) \in 0 .. 2
    BY RedirectsBound
<1> QED
    BY <1>1, SMT DEF PageInv

\* What is typed, sent or answered changes no address.
LEMMA FormKeepsInv ==
    ASSUME NEW u, PageInv(u), NEW code \in BOOLEAN, NEW busy \in BOOLEAN,
           NEW error \in {"none", "join", "profile"}, NEW v,
           v = [u EXCEPT !.code = code, !.busy = busy, !.error = error]
    PROVE  PageInv(v)
<1>1. u \in EnrolPage
    BY DEF PageInv
<1>2. v \in EnrolPage /\ v.path = u.path /\ v.from = u.from /\ v.role = u.role
      /\ v.status = u.status /\ v.onboarded = u.onboarded /\ v.hops = u.hops
    BY <1>1 DEF EnrolPage
<1>3. Redirects(v) = Redirects(u)
    BY <1>2 DEF Redirects, FromGuarded
<1> QED
    BY <1>2, <1>3 DEF PageInv

LEMMA EnrolInit ==
    ASSUME FormsAssumption, Enrol!Init PROVE EnrolInv
<1>1. PICK role \in Enrol!Roles, onboarded \in BOOLEAN, status \in {"loading", "guest"} :
          /\ ui = [path |-> "root", from |-> "none", role |-> role, status |-> status,
                   onboarded |-> onboarded, code |-> FALSE, busy |-> FALSE,
                   error |-> "none", hops |-> 0]
          /\ srv = [member |-> "none", onboarded |-> onboarded,
                    teachers |-> Teachers, removing |-> [t \in Teachers |-> "nobody"],
                    met |-> FALSE]
    BY DEF Enrol!Init
<1>2. ui \in EnrolPage
    BY <1>1 DEF EnrolPage, Enrol!Paths
<1>3. PageInv(ui)
    BY <1>1, <1>2, FreshKeepsInv DEF Enrol!Guest
<1>4. StoreInv(srv)
    BY <1>1 DEF StoreInv, EnrolStore, FormsAssumption
<1>5. net \in EnrolCall
    BY DEF Enrol!Init, EnrolCall
<1> QED
    BY <1>3, <1>4, <1>5 DEF EnrolInv

LEMMA AddressesKeepInv ==
    ASSUME EnrolInv,
           \/ Enrol!Redirect \/ Enrol!SignIn \/ Enrol!SignOut
           \/ \E path \in Enrol!Paths : Enrol!Visit(path)
    PROVE  EnrolInv'
<1>0. ui \in EnrolPage /\ srv \in EnrolStore /\ PageInv(ui)
    BY DEF EnrolInv, PageInv, StoreInv
<1>1. net' = net /\ srv' = srv
    BY DEF Enrol!Redirect, Enrol!SignIn, Enrol!SignOut, Enrol!Visit
<1>2. CASE Enrol!Redirect
    BY <1>0, <1>1, <1>2, RedirectKeepsInv DEF EnrolInv
<1>3. CASE Enrol!SignIn
    <2>1. ui' = [ui EXCEPT !.status = "in", !.onboarded = srv.onboarded, !.hops = 0]
        BY <1>3 DEF Enrol!SignIn
    <2>2. ui' \in EnrolPage /\ ui'.from = ui.from /\ ui'.hops = 0
        BY <1>0, <2>1 DEF EnrolPage, EnrolStore
    <2> QED
        BY <1>0, <1>1, <2>2, FreshKeepsInv DEF EnrolInv, PageInv
<1>4. CASE Enrol!SignOut
    <2>1. ui' = [ui EXCEPT !.status = "guest", !.hops = 0]
        BY <1>4 DEF Enrol!SignOut
    <2>2. ui' \in EnrolPage /\ ui'.from = ui.from /\ ui'.hops = 0
        BY <1>0, <2>1 DEF EnrolPage
    <2> QED
        BY <1>0, <1>1, <2>2, FreshKeepsInv DEF EnrolInv, PageInv
<1>5. ASSUME NEW path \in Enrol!Paths, Enrol!Visit(path) PROVE EnrolInv'
    <2>1. ui' = [ui EXCEPT !.code = FALSE, !.busy = FALSE, !.error = "none",
                           !.path = path, !.hops = 0, !.from = "none"]
        BY <1>0, <1>5 DEF Enrol!Visit, Enrol!Form, EnrolPage
    <2>2. ui' \in EnrolPage /\ ui'.from = "none" /\ ui'.hops = 0
        BY <1>0, <2>1 DEF EnrolPage
    <2> QED
        BY <1>1, <2>2, FreshKeepsInv DEF EnrolInv, Enrol!Guest
<1> QED
    BY <1>2, <1>3, <1>4, <1>5

LEMMA FormsOfEnrolKeepInv ==
    ASSUME EnrolInv,
           \/ Enrol!TypeCode \/ Enrol!Submit \/ Enrol!JoinAnswered
           \/ Enrol!ProfileAnswered \/ Enrol!Lost
    PROVE  EnrolInv'
<1>0. ui \in EnrolPage /\ net \in EnrolCall /\ PageInv(ui)
    BY DEF EnrolInv, PageInv
<1>a. /\ ui.code \in BOOLEAN /\ ui.busy \in BOOLEAN /\ ui.path \in Enrol!Paths
      /\ ui.error \in {"none", "join", "profile"} /\ net.step \in {"none", "join", "profile"}
      /\ ui.from \in Enrol!Paths \cup {"none"}
    BY <1>0 DEF EnrolPage, EnrolCall
<1>1. srv' = srv
    BY DEF Enrol!TypeCode, Enrol!Submit, Enrol!JoinAnswered, Enrol!ProfileAnswered, Enrol!Lost
<1>2. SUFFICES PageInv(ui') /\ net' \in EnrolCall
    BY <1>1 DEF EnrolInv
<1>3. ASSUME NEW error \in {"join", "profile"}, ui' = Enrol!Failed(error)
      PROVE  PageInv(ui')
    <2>1. ui' = [ui EXCEPT !.code = ui.code, !.busy = FALSE, !.error = error]
        BY <1>0, <1>3 DEF Enrol!Failed, EnrolPage
    <2> QED
        BY <1>0, <1>a, <2>1, FormKeepsInv
<1>4. Enrol!NoRequest \in EnrolCall
    BY DEF Enrol!NoRequest, EnrolCall
<1>5. CASE Enrol!TypeCode
    <2>1. ui' = [ui EXCEPT !.code = ~ui.code, !.busy = ui.busy, !.error = ui.error]
        BY <1>0, <1>5 DEF Enrol!TypeCode, EnrolPage
    <2>2. net' = net
        BY <1>5 DEF Enrol!TypeCode
    <2>3. PageInv(ui')
        BY <1>0, <1>a, <2>1, FormKeepsInv
    <2> QED
        BY <1>0, <2>2, <2>3
<1>6. CASE Enrol!Submit
    <2>1. ui' = [ui EXCEPT !.code = ui.code, !.busy = TRUE, !.error = "none"]
        BY <1>0, <1>6 DEF Enrol!Submit, EnrolPage
    <2>2. net' \in EnrolCall
        BY <1>6 DEF Enrol!Submit, EnrolCall
    <2> QED
        BY <1>0, <1>a, <2>1, <2>2, FormKeepsInv
<1>7. CASE Enrol!JoinAnswered
    <2>1. CASE ui' = Enrol!Failed("join") /\ net' = Enrol!NoRequest
        BY <1>3, <1>4, <2>1
    <2>2. CASE net' = [step |-> "profile", reply |-> "none"] /\ ui' = ui
        BY <1>0, <2>2 DEF EnrolCall
    <2>3. CASE ui' = [Enrol!Form(ui) EXCEPT !.path = "dashboard", !.hops = 0]
               /\ net' = Enrol!NoRequest
        <3>1. ui' = [ui EXCEPT !.code = FALSE, !.busy = FALSE, !.error = "none",
                               !.path = "dashboard", !.hops = 0]
            BY <1>0, <2>3 DEF Enrol!Form, EnrolPage
        <3>2. ui' \in EnrolPage /\ ui'.from = ui.from /\ ui'.hops = 0
            BY <1>0, <3>1 DEF EnrolPage, Enrol!Paths
        <3> QED
            BY <1>0, <1>4, <2>3, <3>2, FreshKeepsInv DEF PageInv
    <2> QED
        BY <1>7, <2>1, <2>2, <2>3 DEF Enrol!JoinAnswered
<1>8. CASE Enrol!ProfileAnswered
    <2>1. PICK path : path = IF ui.role = "TEACHER" THEN "teacher/classes"
                             ELSE IF ui.from # "none" THEN ui.from ELSE "dashboard"
        OBVIOUS
    <2>2. path \in Enrol!Paths
        BY <1>a, <2>1 DEF Enrol!Paths
    <2>3. ui' = [ui EXCEPT !.code = FALSE, !.busy = FALSE, !.error = "none",
                           !.onboarded = TRUE, !.hops = 0, !.path = path]
        BY <1>0, <1>8, <2>1 DEF Enrol!ProfileAnswered, Enrol!Form, EnrolPage
    <2>4. ui' \in EnrolPage /\ ui'.from = ui.from /\ ui'.hops = 0
        BY <1>0, <2>2, <2>3 DEF EnrolPage
    <2>5. net' = Enrol!NoRequest
        BY <1>8 DEF Enrol!ProfileAnswered
    <2> QED
        BY <1>0, <1>4, <2>4, <2>5, FreshKeepsInv DEF PageInv
<1>9. CASE Enrol!Lost
    BY <1>3, <1>4, <1>9, <1>a DEF Enrol!Lost
<1> QED
    BY <1>5, <1>6, <1>7, <1>8, <1>9

LEMMA EnrolCardinality == \A S : Enrol!Cardinality(S) = Cardinality(S)
BY DEF Enrol!Cardinality, Cardinality

\* Who is removed from more than one leaves one.
LEMMA OneLeft ==
    ASSUME NEW S, NEW x, Cardinality(S) > 1 PROVE S \ {x} # {}
<1>1. SUFFICES ASSUME S \ {x} = {} PROVE FALSE
    OBVIOUS
<1>2. S = {} \/ S = {x}
    BY <1>1
<1>3. Cardinality(S) = 0 \/ Cardinality(S) = 1
    BY <1>2, FS_EmptySet, FS_Singleton
<1> QED
    BY <1>3

LEMMA EnrolServerKeepsInv ==
    ASSUME EnrolInv,
           \/ Enrol!ServeJoin \/ Enrol!ServeProfile \/ Enrol!RemoveStudent
           \/ \E t \in Teachers :
                 Enrol!RemoveCommit(t) \/ \E target \in Teachers : Enrol!RemoveRead(t, target)
    PROVE  EnrolInv'
<1>0. PageInv(ui) /\ net \in EnrolCall /\ StoreInv(srv) /\ srv \in EnrolStore
    BY DEF EnrolInv, StoreInv
<1>1. ui' = ui
    BY DEF Enrol!ServeJoin, Enrol!ServeProfile, Enrol!RemoveStudent, Enrol!RemoveCommit,
       Enrol!RemoveRead
<1>2. SUFFICES net' \in EnrolCall /\ StoreInv(srv')
    BY <1>0, <1>1 DEF EnrolInv
<1>3. ASSUME srv' \in EnrolStore, srv'.teachers = srv.teachers,
             srv'.removing = srv.removing, srv'.met = srv.met
      PROVE  StoreInv(srv')
    BY <1>0, <1>3 DEF StoreInv
<1>4. CASE Enrol!ServeJoin
    <2>1. net' \in EnrolCall
        BY <1>0, <1>4 DEF Enrol!ServeJoin, EnrolCall
    <2>2. srv' = srv \/ srv' = [srv EXCEPT !.member = "active"]
        BY <1>4 DEF Enrol!ServeJoin
    <2>3. srv' \in EnrolStore /\ srv'.teachers = srv.teachers
          /\ srv'.removing = srv.removing /\ srv'.met = srv.met
        BY <1>0, <2>2 DEF EnrolStore
    <2> QED
        BY <1>3, <2>1, <2>3
<1>5. CASE Enrol!ServeProfile
    <2>1. net' \in EnrolCall
        BY <1>0, <1>5 DEF Enrol!ServeProfile, EnrolCall
    <2>2. srv' = [srv EXCEPT !.onboarded = TRUE]
        BY <1>5 DEF Enrol!ServeProfile
    <2>3. srv' \in EnrolStore /\ srv'.teachers = srv.teachers
          /\ srv'.removing = srv.removing /\ srv'.met = srv.met
        BY <1>0, <2>2 DEF EnrolStore
    <2> QED
        BY <1>3, <2>1, <2>3
<1>6. CASE Enrol!RemoveStudent
    <2>1. net' = net /\ srv' = [srv EXCEPT !.member = "removed"]
        BY <1>6 DEF Enrol!RemoveStudent
    <2>2. srv' \in EnrolStore /\ srv'.teachers = srv.teachers
          /\ srv'.removing = srv.removing /\ srv'.met = srv.met
        BY <1>0, <2>1 DEF EnrolStore
    <2> QED
        BY <1>0, <1>3, <2>1, <2>2
<1>7. ASSUME NEW t \in Teachers, Enrol!RemoveCommit(t)
      PROVE  net' \in EnrolCall /\ StoreInv(srv')
    <2>1. PICK gone : gone = srv.removing[t]
        OBVIOUS
    <2>2. /\ net' = net /\ gone # "nobody"
          /\ srv' = [srv EXCEPT !.teachers = @ \ {gone}, !.removing[t] = "nobody"]
        BY <1>7, <2>1 DEF Enrol!RemoveCommit
    <2>3. /\ srv' \in EnrolStore
          /\ srv'.teachers = srv.teachers \ {gone} /\ srv'.met = srv.met
          /\ srv'.removing = [srv.removing EXCEPT ![t] = "nobody"]
        BY <1>0, <2>2 DEF EnrolStore
    <2>4. \A u \in Teachers : srv'.removing[u] = IF u = t THEN "nobody" ELSE srv.removing[u]
        BY <1>0, <2>3 DEF EnrolStore
    <2> QED
        BY <1>0, <2>1, <2>2, <2>3, <2>4 DEF StoreInv
<1>8. ASSUME NEW t \in Teachers, NEW target \in Teachers, Enrol!RemoveRead(t, target)
      PROVE  net' \in EnrolCall /\ StoreInv(srv')
    <2>1. PICK met : met = (srv.met \/ \E u \in Teachers : srv.removing[u] # "nobody")
        OBVIOUS
    <2>2. /\ net' = net /\ srv.removing[t] = "nobody"
          /\ srv' = [srv EXCEPT !.removing[t] = target, !.met = met]
        BY <1>0, <1>8, <2>1 DEF Enrol!RemoveRead, EnrolStore
    <2>3. /\ srv' \in EnrolStore /\ met \in BOOLEAN
          /\ srv'.teachers = srv.teachers /\ srv'.met = met
          /\ srv'.removing = [srv.removing EXCEPT ![t] = target]
        BY <1>0, <2>1, <2>2 DEF EnrolStore
    <2>4. \A u \in Teachers : srv'.removing[u] = IF u = t THEN target ELSE srv.removing[u]
        BY <1>0, <2>3 DEF EnrolStore
    <2>5. PICK teachers : teachers = srv.teachers
        OBVIOUS
    <2>6. Cardinality(teachers) > 1
        <3>1. Enrol!Cardinality(srv.teachers) > 1
            BY <1>8, Zenon DEF Enrol!RemoveRead, Enrol!Enough
        <3> QED
            BY <2>5, <3>1, EnrolCardinality, Zenon
    <2>7. srv.teachers \ {target} # {}
        BY <2>5, <2>6, OneLeft
    <2>8. ~met => ~srv.met /\ \A u \in Teachers : srv.removing[u] = "nobody"
        BY <2>1
    <2>9. ASSUME ~srv'.met
          PROVE  /\ srv'.teachers # {}
                 /\ \A u \in Teachers :
                       srv'.removing[u] # "nobody" =>
                           u = t /\ srv'.teachers \ {srv'.removing[u]} # {}
        <3>1. ~met
            BY <2>3, <2>9
        <3> QED
            BY <1>0, <2>3, <2>4, <2>7, <2>8, <3>1 DEF StoreInv
    <2> QED
        BY <2>2, <1>0, <2>3, <2>9 DEF StoreInv
<1> QED
    BY <1>4, <1>5, <1>6, <1>7, <1>8

LEMMA EnrolKeepsInv ==
    ASSUME EnrolInv, Enrol!Next PROVE EnrolInv'
<1>1. CASE \/ Enrol!Redirect \/ Enrol!SignIn \/ Enrol!SignOut
           \/ \E path \in Enrol!Paths : Enrol!Visit(path)
    BY <1>1, AddressesKeepInv
<1>2. CASE \/ Enrol!TypeCode \/ Enrol!Submit \/ Enrol!JoinAnswered
           \/ Enrol!ProfileAnswered \/ Enrol!Lost
    BY <1>2, FormsOfEnrolKeepInv
<1>3. CASE \/ Enrol!ServeJoin \/ Enrol!ServeProfile \/ Enrol!RemoveStudent
           \/ \E t \in Teachers :
                 Enrol!RemoveCommit(t) \/ \E target \in Teachers : Enrol!RemoveRead(t, target)
    BY <1>3, EnrolServerKeepsInv
<1> QED
    BY <1>1, <1>2, <1>3 DEF Enrol!Next

\* The properties of the guards and of the class follow.
LEMMA EnrolProperties ==
    ASSUME EnrolInv PROVE Enrol!RedirectsEnd /\ Enrol!LastTeacherStays
<1>1. ASSUME ui.role # "ADMIN" PROVE ui.hops =< 2
    <2>1. PICK u : u = ui
        OBVIOUS
    <2>2. u.hops \in Nat /\ u.hops + Redirects(u) =< 2 /\ Redirects(u) \in 0 .. 2
        BY <1>1, <2>1, RedirectsBound DEF EnrolInv, PageInv, EnrolPage
    <2> QED
        BY <2>1, <2>2
<1>2. srv.teachers # {} \/ srv.met
    BY DEF EnrolInv, StoreInv
<1> QED
    BY <1>1, <1>2 DEF Enrol!RedirectsEnd, Enrol!LastTeacherStays

-----------------------------------------------------------------------------
(* Answering a challenge.                                                  *)

\* A save of the page as it is now loaded.
Current(r) == r.kind = "save" /\ r.load = ui.load

RequestsAreOlder == \A r \in net : r.load =< ui.load \/ r.load = Attempt!Gone

\* One save of the page is in flight at a time, of the choice it shows.
OneCurrent ==
    /\ ui.view = "quiz" =>
          \A r \in net : Current(r) =>
              /\ ui.saving /\ ui.answers[r.q] = r.option
              /\ \A s \in net : Current(s) => s = r
    /\ ui.view \in {"loading", "failed"} => \A r \in net : ~Current(r)

SavesHaveOptions == \A r \in net : r.kind = "save" => r.option \in Options

\* But for the questions in doubt, only saves of the page are yet to be served,
\* ...
EarlierServed ==
    ui.view = "quiz" => \A r \in net :
        r.kind = "save" /\ Attempt!Unserved(r) /\ r.q \notin ui.doubt => r.load = ui.load

\* ... and what one of them has read is what is stored; an answer that was there
\* stays.
ReadIsStored ==
    \A r \in net : r.kind = "save" /\ r.reply = "read" =>
        /\ r.seen # Attempt!None => srv.answers[r.q] # Attempt!None
        /\ ui.view = "quiz" /\ r.q \notin ui.doubt => srv.answers[r.q] = r.seen

\* What is shown is answered, or about to be; what a save that has been served
\* wrote is stored.
ShownAnswered ==
    ui.view = "quiz" =>
        /\ \A r \in net : Current(r) /\ r.reply = "ok" =>
              /\ srv.answers[r.q] # Attempt!None
              /\ r.q \notin ui.doubt => srv.answers[r.q] = r.option
        /\ \A q \in Attempt!Question : ui.answers[q] # Attempt!None =>
              \/ \E r \in net : Current(r) /\ r.q = q
              \/ /\ srv.answers[q] # Attempt!None
                 /\ q \notin ui.doubt => srv.answers[q] = ui.answers[q]

\* The questions before the one that is shown are answered, ...
EarlierAnswered ==
    ui.view = "quiz" =>
        \A q \in Attempt!Question : q < ui.index => srv.answers[q] # Attempt!None

\* ... and so is every one when a finish is sent.
FinishesAreWhole ==
    /\ ~srv.refused
    /\ \A r \in net : r.kind = "finish" /\ r.reply = "none" =>
          srv.completed \/ \A q \in Attempt!Question : srv.answers[q] # Attempt!None

AttemptInv ==
    /\ Attempt!TypeOK
    /\ RequestsAreOlder /\ OneCurrent /\ SavesHaveOptions /\ EarlierServed /\ ReadIsStored
    /\ ShownAnswered /\ EarlierAnswered /\ FinishesAreWhole

AttemptStore ==
    [completed : BOOLEAN, answers : Attempt!Answers, refused : BOOLEAN]

LEMMA Questionable ==
    ASSUME FormsAssumption
    PROVE  /\ Questions \in Nat /\ 1 \in Attempt!Question /\ Questions \in Attempt!Question
           /\ Attempt!Question \subseteq Nat /\ Attempt!None \notin Options
           /\ Attempt!NoAnswers \in Attempt!Answers /\ MaxReloads \in Nat
BY DEF FormsAssumption, Attempt!Question, Attempt!None, Attempt!NoAnswers, Attempt!Answers

\* A page opens on the first question that is open, or on the last one.
LEMMA FirstIsOpen ==
    ASSUME FormsAssumption, NEW answers \in Attempt!Answers
    PROVE  /\ Attempt!FirstUnanswered(answers) \in Attempt!Question
           /\ \A q \in Attempt!Question :
                 q < Attempt!FirstUnanswered(answers) => answers[q] # Attempt!None
<1> DEFINE open == {q \in Attempt!Question : answers[q] = Attempt!None}
<1>1. Attempt!FirstUnanswered(answers) =
          IF open = {} THEN Questions ELSE CHOOSE q \in open : \A p \in open : q =< p
    BY DEF Attempt!FirstUnanswered
<1>2. CASE open = {}
    BY <1>1, <1>2, Questionable
<1>3. CASE open # {}
    <2>1. open \subseteq Nat
        BY Questionable
    <2>2. \E q \in open : \A p \in open : q =< p
        BY <1>3, <2>1, FirstExists
    <2>3. PICK first : first = CHOOSE q \in open : \A p \in open : q =< p
        OBVIOUS
    <2>4. first \in open /\ \A p \in open : first =< p
        BY <2>2, <2>3
    <2>5. ASSUME NEW q \in Attempt!Question, q < first PROVE answers[q] # Attempt!None
        <3>1. q \in Nat /\ first \in Nat
            BY <2>1, <2>4, Questionable
        <3>2. q \notin open
            BY <2>4, <2>5, <3>1
        <3> QED
            BY <3>2
    <2> QED
        BY <1>1, <1>3, <2>3, <2>4, <2>5
<1> QED
    BY <1>2, <1>3

LEMMA AttemptInit ==
    ASSUME FormsAssumption, Attempt!Init PROVE AttemptInv
<1> USE Questionable
<1>1. ui = [view |-> "loading", load |-> 0, index |-> 1, answers |-> Attempt!NoAnswers,
            saving |-> FALSE, saveError |-> FALSE, finishing |-> FALSE,
            finishError |-> FALSE, showExit |-> FALSE, doubt |-> {}]
    BY DEF Attempt!Init, Attempt!FreshPage
<1>2. ui \in Attempt!Page
    BY <1>1 DEF Attempt!Page
<1>3. net = {} /\ srv = [completed |-> FALSE, answers |-> Attempt!NoAnswers, refused |-> FALSE]
    BY DEF Attempt!Init
<1>4. Attempt!TypeOK
    BY <1>2, <1>3 DEF Attempt!TypeOK
<1> QED
    BY <1>1, <1>3, <1>4
    DEF AttemptInv, RequestsAreOlder, OneCurrent, SavesHaveOptions, EarlierServed,
        ReadIsStored, ShownAnswered, EarlierAnswered, FinishesAreWhole

\* What the page does by itself.
LEMMA PageKeepsInv ==
    ASSUME FormsAssumption, AttemptInv,
           \/ Attempt!LoadFails \/ Attempt!RetryLoad \/ Attempt!Reload
           \/ Attempt!ToggleExit \/ Attempt!Leave
    PROVE  AttemptInv'
<1> USE Questionable
<1>0. ui \in Attempt!Page /\ net \subseteq Attempt!Request /\ srv \in AttemptStore
    BY DEF AttemptInv, Attempt!TypeOK, AttemptStore
<1>1. net' = net /\ srv' = srv
    BY DEF Attempt!LoadFails, Attempt!RetryLoad, Attempt!Reload, Attempt!ToggleExit,
       Attempt!Leave
<1>2. SUFFICES ASSUME TRUE
      PROVE /\ ui' \in Attempt!Page /\ RequestsAreOlder' /\ OneCurrent' /\ EarlierServed'
            /\ ReadIsStored' /\ ShownAnswered' /\ EarlierAnswered'
    BY <1>0, <1>1
    DEF AttemptInv, Attempt!TypeOK, AttemptStore, SavesHaveOptions, FinishesAreWhole
<1>3. CASE Attempt!LoadFails \/ Attempt!RetryLoad
    <2>1. PICK view \in {"loading", "failed"} : ui' = [ui EXCEPT !.view = view]
        BY <1>3 DEF Attempt!LoadFails, Attempt!RetryLoad
    <2>2. ui' \in Attempt!Page /\ ui'.view = view /\ ui'.load = ui.load
          /\ ui'.doubt = ui.doubt /\ ui.view \in {"loading", "failed"}
        BY <1>0, <1>3, <2>1 DEF Attempt!Page, Attempt!LoadFails, Attempt!RetryLoad
    <2> QED
        BY <1>1, <2>2
        DEF AttemptInv, RequestsAreOlder, OneCurrent, EarlierServed, ReadIsStored,
            ShownAnswered, EarlierAnswered, Current
<1>4. CASE Attempt!ToggleExit
    <2>1. PICK showExit \in BOOLEAN : ui' = [ui EXCEPT !.showExit = showExit]
        BY <1>0, <1>4 DEF Attempt!ToggleExit, Attempt!Page
    <2>2. ui' \in Attempt!Page /\ ui'.view = ui.view /\ ui'.load = ui.load
          /\ ui'.doubt = ui.doubt /\ ui'.index = ui.index /\ ui'.answers = ui.answers
          /\ ui'.saving = ui.saving
        BY <1>0, <2>1 DEF Attempt!Page
    <2> QED
        BY <1>1, <2>2
        DEF AttemptInv, RequestsAreOlder, OneCurrent, EarlierServed, ReadIsStored,
            ShownAnswered, EarlierAnswered, Current
<1>5. CASE Attempt!Leave
    <2>1. ui' = [view |-> "dashboard", load |-> ui.load, index |-> 1,
                 answers |-> Attempt!NoAnswers, saving |-> FALSE, saveError |-> FALSE,
                 finishing |-> FALSE, finishError |-> FALSE, showExit |-> FALSE,
                 doubt |-> {}]
        BY <1>5 DEF Attempt!Leave, Attempt!FreshPage
    <2>2. ui' \in Attempt!Page /\ ui'.view = "dashboard" /\ ui'.load = ui.load
        BY <1>0, <2>1 DEF Attempt!Page
    <2> QED
        BY <1>1, <2>2
        DEF AttemptInv, RequestsAreOlder, OneCurrent, EarlierServed, ReadIsStored,
            ShownAnswered, EarlierAnswered, Current
<1>6. CASE Attempt!Reload
    <2>2. ui' = [view |-> "loading", load |-> ui.load + 1, index |-> 1,
                 answers |-> Attempt!NoAnswers, saving |-> FALSE, saveError |-> FALSE,
                 finishing |-> FALSE, finishError |-> FALSE, showExit |-> FALSE,
                 doubt |-> {}]
        BY <1>6 DEF Attempt!Reload, Attempt!FreshPage
    <2>3. ui.load \in Nat /\ ui.load + 1 \in 0 .. MaxReloads
        BY <1>0, <1>6 DEF Attempt!Page, Attempt!Reload
    <2>4. ui' \in Attempt!Page /\ ui'.view = "loading" /\ ui'.load = ui.load + 1
        BY <2>2, <2>3 DEF Attempt!Page
    <2>5. \A r \in net : r.load \in Nat /\ (r.load =< ui.load \/ r.load = Attempt!Gone)
        BY <1>0 DEF AttemptInv, RequestsAreOlder, Attempt!Request, Attempt!Gone
    <2>6. \A r \in net : /\ r.load =< ui.load + 1 \/ r.load = Attempt!Gone
                         /\ r.load # ui.load + 1
        BY <2>3, <2>5 DEF Attempt!Gone
    <2> QED
        BY <1>1, <2>4, <2>6
        DEF AttemptInv, RequestsAreOlder, OneCurrent, EarlierServed, ReadIsStored,
            ShownAnswered, EarlierAnswered, Current
<1> QED
    BY <1>3, <1>4, <1>5, <1>6

LEMMA LoadedKeepsInv ==
    ASSUME FormsAssumption, AttemptInv, Attempt!Loaded PROVE AttemptInv'
<1> USE Questionable
<1>0. ui \in Attempt!Page /\ net \subseteq Attempt!Request /\ srv \in AttemptStore
    BY DEF AttemptInv, Attempt!TypeOK, AttemptStore
<1>1. net' = net /\ srv' = srv /\ ui.view = "loading"
    BY DEF Attempt!Loaded
<1>2. \A r \in net : ~Current(r)
    BY <1>1 DEF AttemptInv, OneCurrent
<1>3. SUFFICES ASSUME TRUE
      PROVE /\ ui' \in Attempt!Page /\ RequestsAreOlder' /\ OneCurrent' /\ EarlierServed'
            /\ ReadIsStored' /\ ShownAnswered' /\ EarlierAnswered'
    BY <1>0, <1>1
    DEF AttemptInv, Attempt!TypeOK, AttemptStore, SavesHaveOptions, FinishesAreWhole
<1>4. CASE ui' = [ui EXCEPT !.view = "result"]
    <2>1. ui' \in Attempt!Page /\ ui'.view = "result" /\ ui'.load = ui.load
          /\ ui'.doubt = ui.doubt
        BY <1>0, <1>4 DEF Attempt!Page
    <2> QED
        BY <1>1, <2>1
        DEF AttemptInv, RequestsAreOlder, OneCurrent, EarlierServed, ReadIsStored,
            ShownAnswered, EarlierAnswered
<1>5. CASE ui' = [ui EXCEPT !.view = "quiz", !.answers = srv.answers,
                            !.index = Attempt!FirstUnanswered(srv.answers),
                            !.doubt = {r.q : r \in {s \in Attempt!Saves : Attempt!Unserved(s)}}]
    <2>1. PICK first, answers, doubt :
              /\ first = Attempt!FirstUnanswered(srv.answers) /\ answers = srv.answers
              /\ doubt = {r.q : r \in {s \in Attempt!Saves : Attempt!Unserved(s)}}
        OBVIOUS
    <2>2. answers \in Attempt!Answers
        BY <1>0, <2>1 DEF AttemptStore
    <2>3. first \in Attempt!Question
          /\ \A q \in Attempt!Question : q < first => answers[q] # Attempt!None
        BY <2>1, <2>2, FirstIsOpen
    <2>a. \A r \in net : r.q \in Attempt!Question
        BY <1>0 DEF Attempt!Request
    <2>b. /\ doubt \subseteq Attempt!Question
          /\ \A r \in net : r.kind = "save" /\ Attempt!Unserved(r) => r.q \in doubt
        BY <2>1, <2>a DEF Attempt!Saves
    <2>4. ui' = [ui EXCEPT !.view = "quiz", !.answers = answers, !.index = first,
                           !.doubt = doubt]
        BY <1>5, <2>1
    <2>5. ui' \in Attempt!Page /\ ui'.view = "quiz" /\ ui'.load = ui.load
          /\ ui'.doubt = doubt /\ ui'.answers = answers /\ ui'.index = first
        BY <1>0, <2>2, <2>3, <2>4, <2>b DEF Attempt!Page
    <2>6. \A r \in net : ~(r.kind = "save" /\ r.load = ui'.load)
        BY <1>2, <2>5 DEF Current
    <2>7. RequestsAreOlder'
        BY <1>1, <2>5 DEF AttemptInv, RequestsAreOlder
    <2>11. EarlierServed'
        BY <1>1, <2>5, <2>b DEF EarlierServed, Attempt!Unserved
    <2>12. ReadIsStored'
        BY <1>1, <2>5, <2>b DEF AttemptInv, ReadIsStored, Attempt!Unserved
    <2>8. OneCurrent'
        BY <1>1, <2>5, <2>6 DEF OneCurrent, Current
    <2>9. ShownAnswered'
        BY <1>1, <2>1, <2>5, <2>6 DEF ShownAnswered, Current
    <2>10. EarlierAnswered'
        BY <1>1, <2>1, <2>3, <2>5 DEF EarlierAnswered
    <2> QED
        BY <2>5, <2>7, <2>8, <2>9, <2>10, <2>11, <2>12
<1> QED
    BY <1>4, <1>5 DEF Attempt!Loaded

\* The question that is left is answered, as its save has ended.
LEMMA GoNextKeepsInv ==
    ASSUME FormsAssumption, AttemptInv, Attempt!GoNext PROVE AttemptInv'
<1> USE Questionable
<1>0. ui \in Attempt!Page /\ net \subseteq Attempt!Request /\ srv \in AttemptStore
    BY DEF AttemptInv, Attempt!TypeOK, AttemptStore
<1>1. /\ net' = net /\ srv' = srv /\ ui.view = "quiz" /\ ~ui.saving
      /\ ui.answers[ui.index] # Attempt!None /\ ui.index # Questions
      /\ ui' = [ui EXCEPT !.index = ui.index + 1]
    BY DEF Attempt!GoNext, Attempt!MayGoNext, Attempt!Selected, Attempt!IsLast
<1>2. ui.index \in Attempt!Question /\ ui.index + 1 \in Attempt!Question /\ ui.index \in Nat
    BY <1>0, <1>1 DEF Attempt!Page, Attempt!Question
<1>3. ui' \in Attempt!Page /\ ui'.view = ui.view /\ ui'.load = ui.load
      /\ ui'.doubt = ui.doubt /\ ui'.answers = ui.answers /\ ui'.index = ui.index + 1
      /\ ui'.saving = ui.saving
    BY <1>0, <1>1, <1>2 DEF Attempt!Page
<1>4. srv.answers[ui.index] # Attempt!None
    BY <1>1, <1>2 DEF AttemptInv, OneCurrent, ShownAnswered
<1>5. Attempt!TypeOK' /\ RequestsAreOlder' /\ OneCurrent' /\ SavesHaveOptions'
      /\ EarlierServed' /\ ReadIsStored' /\ ShownAnswered' /\ FinishesAreWhole'
    BY <1>0, <1>1, <1>3
    DEF AttemptInv, Attempt!TypeOK, AttemptStore, RequestsAreOlder, OneCurrent, SavesHaveOptions,
        EarlierServed, ReadIsStored, ShownAnswered, FinishesAreWhole, Current
<1>6. ASSUME NEW q \in Attempt!Question, q < ui.index + 1
      PROVE  srv.answers[q] # Attempt!None
    <2>1. q < ui.index \/ q = ui.index
        BY <1>2, <1>6
    <2> QED
        BY <1>1, <1>4, <2>1 DEF AttemptInv, EarlierAnswered
<1>7. EarlierAnswered'
    BY <1>1, <1>3, <1>6 DEF EarlierAnswered
<1> QED
    BY <1>5, <1>7 DEF AttemptInv

LEMMA SelectKeepsInv ==
    ASSUME FormsAssumption, AttemptInv, NEW option \in Options,
           Attempt!SelectOption(option)
    PROVE  AttemptInv'
<1> USE Questionable
<1>0. ui \in Attempt!Page /\ net \subseteq Attempt!Request /\ srv \in AttemptStore
    BY DEF AttemptInv, Attempt!TypeOK, AttemptStore
<1>1. PICK sent : sent = [kind |-> "save", load |-> ui.load, q |-> ui.index,
                          option |-> option, reply |-> "none", seen |-> Attempt!None]
    OBVIOUS
<1>2. /\ net' = net \cup {sent} /\ srv' = srv /\ ui.view = "quiz" /\ ~ui.saving
      /\ ui' = [ui EXCEPT !.answers[ui.index] = option, !.saving = TRUE, !.saveError = FALSE]
    BY <1>1 DEF Attempt!SelectOption, Attempt!MaySelect, Attempt!Offered
<1>3. /\ sent \in Attempt!Request /\ sent.kind = "save" /\ sent.load = ui.load
      /\ sent.q = ui.index /\ sent.option = option /\ sent.reply = "none"
      /\ ui.index \in Attempt!Question /\ ui.answers \in Attempt!Answers /\ ui.load \in Nat
    BY <1>0, <1>1 DEF Attempt!Request, Attempt!Page, Attempt!Gone
<1>4. PICK answers : answers = [ui.answers EXCEPT ![ui.index] = option]
    OBVIOUS
<1>5. answers \in Attempt!Answers
      /\ \A q \in Attempt!Question : answers[q] = IF q = ui.index THEN option ELSE ui.answers[q]
    BY <1>3, <1>4 DEF Attempt!Answers
<1>6. ui' = [ui EXCEPT !.answers = answers, !.saving = TRUE, !.saveError = FALSE]
    BY <1>2, <1>4
<1>7. ui' \in Attempt!Page /\ ui'.view = ui.view /\ ui'.load = ui.load
      /\ ui'.doubt = ui.doubt /\ ui'.answers = answers /\ ui'.index = ui.index
      /\ ui'.saving
    BY <1>0, <1>5, <1>6 DEF Attempt!Page
<1>8. \A r \in net : ~Current(r)
    BY <1>2 DEF AttemptInv, OneCurrent
<1>9. \A r \in net' : r \in net \/ r = sent
    BY <1>2
<1>10. Attempt!TypeOK'
    BY <1>0, <1>2, <1>3, <1>7 DEF Attempt!TypeOK, AttemptStore
<1>11. RequestsAreOlder' /\ SavesHaveOptions' /\ EarlierServed' /\ ReadIsStored'
    BY <1>2, <1>3, <1>7, <1>9
    DEF AttemptInv, RequestsAreOlder, SavesHaveOptions, EarlierServed, ReadIsStored
<1>12. OneCurrent'
    <2>1. ASSUME NEW r \in net', r.kind = "save", r.load = ui'.load
          PROVE  r = sent
        BY <1>7, <1>8, <1>9, <2>1 DEF Current
    <2>2. answers[sent.q] = option
        BY <1>3, <1>5
    <2> QED
        BY <1>2, <1>3, <1>7, <2>1, <2>2 DEF OneCurrent, Current
<1>13. ShownAnswered'
    <2>1. ASSUME NEW r \in net', r.kind = "save", r.load = ui'.load
          PROVE  r = sent
        BY <1>7, <1>8, <1>9, <2>1 DEF Current
    <2>2. ASSUME NEW q \in Attempt!Question, answers[q] # Attempt!None
          PROVE  \/ q = ui.index
                 \/ /\ srv.answers[q] # Attempt!None
                    /\ q \notin ui.doubt => srv.answers[q] = answers[q]
        BY <1>2, <1>5, <1>8, <2>2 DEF AttemptInv, ShownAnswered
    <2>3. sent \in net'
        BY <1>2
    <2> QED
        BY <1>2, <1>3, <1>7, <2>1, <2>2, <2>3 DEF ShownAnswered, Current
<1>14. EarlierAnswered'
    BY <1>2, <1>7 DEF AttemptInv, EarlierAnswered
<1>15. FinishesAreWhole'
    BY <1>2, <1>3, <1>9 DEF AttemptInv, FinishesAreWhole
<1> QED
    BY <1>10, <1>11, <1>12, <1>13, <1>14, <1>15 DEF AttemptInv

LEMMA FinishKeepsInv ==
    ASSUME FormsAssumption, AttemptInv, Attempt!HandleFinish PROVE AttemptInv'
<1> USE Questionable
<1>0. ui \in Attempt!Page /\ net \subseteq Attempt!Request /\ srv \in AttemptStore
    BY DEF AttemptInv, Attempt!TypeOK, AttemptStore
<1>1. PICK sent : sent = [kind |-> "finish", load |-> ui.load, q |-> ui.index,
                          option |-> Attempt!None, reply |-> "none", seen |-> Attempt!None]
    OBVIOUS
<1>2. /\ net' = net \cup {sent} /\ srv' = srv /\ ui.view = "quiz" /\ ~ui.saving
      /\ ui.answers[ui.index] # Attempt!None /\ ui.index = Questions
      /\ ui' = [ui EXCEPT !.finishing = TRUE, !.finishError = FALSE]
    BY <1>1 DEF Attempt!HandleFinish, Attempt!MayGoNext, Attempt!Selected, Attempt!IsLast
<1>3. /\ sent \in Attempt!Request /\ sent.kind = "finish" /\ sent.load = ui.load
      /\ ui.load \in Nat
    BY <1>0, <1>1 DEF Attempt!Request, Attempt!Page, Attempt!Gone
<1>4. ui' \in Attempt!Page /\ ui'.view = ui.view /\ ui'.load = ui.load
      /\ ui'.doubt = ui.doubt /\ ui'.answers = ui.answers /\ ui'.index = ui.index
      /\ ui'.saving = ui.saving
    BY <1>0, <1>2 DEF Attempt!Page
<1>5. \A r \in net' : r \in net \/ r = sent
    BY <1>2
<1>6. net \subseteq net'
    BY <1>2
<1>7. Attempt!TypeOK'
    BY <1>0, <1>2, <1>3, <1>4 DEF Attempt!TypeOK, AttemptStore
<1>8. RequestsAreOlder' /\ SavesHaveOptions' /\ EarlierServed' /\ ReadIsStored'
    BY <1>2, <1>3, <1>4, <1>5
    DEF AttemptInv, RequestsAreOlder, SavesHaveOptions, EarlierServed, ReadIsStored
<1>a. OneCurrent' /\ EarlierAnswered'
    BY <1>2, <1>3, <1>4, <1>5
    DEF AttemptInv, OneCurrent, Current, EarlierAnswered
<1>9. ShownAnswered'
    BY <1>2, <1>3, <1>4, <1>5, <1>6 DEF AttemptInv, ShownAnswered, Current
<1>10. srv.answers[ui.index] # Attempt!None
    BY <1>2 DEF AttemptInv, OneCurrent, ShownAnswered
<1>11. ASSUME NEW q \in Attempt!Question PROVE srv.answers[q] # Attempt!None
    <2>1. q < ui.index \/ q = ui.index
        BY <1>2 DEF Attempt!Question
    <2> QED
        BY <1>2, <1>10, <2>1 DEF AttemptInv, EarlierAnswered
<1>12. FinishesAreWhole'
    BY <1>2, <1>5, <1>11 DEF AttemptInv, FinishesAreWhole
<1> QED
    BY <1>7, <1>8, <1>9, <1>12, <1>a DEF AttemptInv

\* The page does not wait for a save any longer: it keeps what was stored, or
\* takes the choice back and is in doubt when the save may still be served.
LEMMA SaveLeft ==
    ASSUME FormsAssumption, AttemptInv, NEW r \in net, r.kind = "save", Attempt!Here(r),
           srv' = srv, NEW left, left.kind = "save",
           net' = net \ {r} \/ net' = (net \ {r}) \cup {left},
           left = [r EXCEPT !.load = Attempt!Gone],
           NEW answers \in Attempt!Answers, ui' \in Attempt!Page,
           ui'.view = ui.view, ui'.load = ui.load, ui'.index = ui.index,
           ui'.answers = answers, ui.doubt \subseteq ui'.doubt,
           net' = net \ {r} \/ r.q \in ui'.doubt,
           ui.view = "quiz" =>
              \/ r.reply = "ok" /\ answers = ui.answers
              \/ \A q \in Attempt!Question :
                    answers[q] = IF q = r.q THEN Attempt!None ELSE ui.answers[q]
    PROVE  AttemptInv'
<1> USE Questionable
<1>0. ui \in Attempt!Page /\ net \subseteq Attempt!Request /\ srv \in AttemptStore
      /\ r \in Attempt!Request
    BY DEF AttemptInv, Attempt!TypeOK, AttemptStore
<1>1. /\ left \in Attempt!Request /\ left.load = Attempt!Gone /\ left.q = r.q
      /\ left.option = r.option /\ left.reply = r.reply /\ left.seen = r.seen
      /\ Attempt!Gone # ui.load
    BY <1>0 DEF Attempt!Request, Attempt!Gone, Attempt!Page
<1>2. \A s \in net' : \/ s \in net /\ s # r
                      \/ s = left /\ r.q \in ui'.doubt
    OBVIOUS
<1>3. Current(r) /\ r.q \in Attempt!Question
    BY <1>0 DEF Attempt!Here, Current, Attempt!Request
<1>4. ui.view = "quiz" => \A s \in net : Current(s) => s = r
    BY <1>3 DEF AttemptInv, OneCurrent
<1>5. ui.view = "quiz" => \A s \in net' : ~(s.kind = "save" /\ s.load = ui'.load)
    BY <1>1, <1>2, <1>4 DEF Current
<1>6. Attempt!TypeOK'
    BY <1>0, <1>1 DEF Attempt!TypeOK, AttemptStore
<1>7. RequestsAreOlder' /\ SavesHaveOptions'
    BY <1>1, <1>2 DEF AttemptInv, RequestsAreOlder, SavesHaveOptions
<1>8. EarlierServed'
    BY <1>1, <1>2 DEF AttemptInv, EarlierServed, Attempt!Unserved
<1>9. ReadIsStored'
    BY <1>1, <1>2 DEF AttemptInv, ReadIsStored
<1>10. FinishesAreWhole' /\ EarlierAnswered'
    BY <1>2 DEF AttemptInv, FinishesAreWhole, EarlierAnswered
<1>11. OneCurrent'
    <2>1. ui.view \notin {"loading", "failed"}
        BY <1>3 DEF AttemptInv, OneCurrent
    <2> QED
        BY <1>5, <2>1 DEF OneCurrent, Current
<1>12. ASSUME NEW q \in Attempt!Question, answers[q] # Attempt!None, ui.view = "quiz"
       PROVE  /\ srv.answers[q] # Attempt!None
              /\ q \notin ui'.doubt => srv.answers[q] = answers[q]
    <2>1. CASE r.q = q
        <3>1. r.reply = "ok" /\ answers = ui.answers
            BY <1>3, <1>12, <2>1
        <3>2. /\ srv.answers[r.q] # Attempt!None
              /\ r.q \notin ui.doubt => srv.answers[r.q] = r.option
            BY <1>3, <1>12, <3>1 DEF AttemptInv, ShownAnswered
        <3>3. ui.answers[r.q] = r.option
            BY <1>3, <1>12 DEF AttemptInv, OneCurrent
        <3> QED
            BY <2>1, <3>1, <3>2, <3>3
    <2>2. CASE r.q # q
        <3>1. answers[q] = ui.answers[q]
            BY <1>12, <2>2
        <3>2. ~\E s \in net : Current(s) /\ s.q = q
            BY <1>4, <1>12, <2>2
        <3> QED
            BY <1>12, <3>1, <3>2 DEF AttemptInv, ShownAnswered
    <2> QED
        BY <2>1, <2>2
<1>13. ShownAnswered'
    BY <1>5, <1>12 DEF ShownAnswered, Current
<1> QED
    BY <1>6, <1>7, <1>8, <1>9, <1>10, <1>11, <1>13 DEF AttemptInv

\* What taking a choice back does to the page.
LEMMA ChoiceTakenBack ==
    ASSUME FormsAssumption, AttemptInv, NEW r \in net, r.kind = "save", Attempt!Here(r),
           NEW u, u = Attempt!SaveFailed(r)
    PROVE  /\ u \in Attempt!Page /\ u.view = ui.view /\ u.load = ui.load
           /\ u.doubt = ui.doubt /\ u.index = ui.index /\ u.answers \in Attempt!Answers
           /\ ui.view = "quiz" => \A q \in Attempt!Question :
                 u.answers[q] = IF q = r.q THEN Attempt!None ELSE ui.answers[q]
<1> USE Questionable
<1>0. ui \in Attempt!Page /\ r \in Attempt!Request
    BY DEF AttemptInv, Attempt!TypeOK
<1>1. PICK answers : answers = [ui.answers EXCEPT ![r.q] =
          IF ui.answers[r.q] = r.option THEN Attempt!None ELSE ui.answers[r.q]]
    OBVIOUS
<1>2. r.q \in Attempt!Question /\ ui.answers \in Attempt!Answers
    BY <1>0 DEF Attempt!Request, Attempt!Page
<1>3. answers \in Attempt!Answers
      /\ \A q \in Attempt!Question : answers[q] =
            IF q # r.q THEN ui.answers[q]
            ELSE IF ui.answers[r.q] = r.option THEN Attempt!None ELSE ui.answers[r.q]
    BY <1>1, <1>2 DEF Attempt!Answers
<1>4. u = [ui EXCEPT !.saving = FALSE, !.saveError = TRUE, !.answers = answers]
    BY <1>0, <1>1 DEF Attempt!SaveFailed, Attempt!Page
<1>5. /\ u \in Attempt!Page /\ u.view = ui.view /\ u.load = ui.load
      /\ u.doubt = ui.doubt /\ u.index = ui.index /\ u.answers = answers
    BY <1>0, <1>3, <1>4 DEF Attempt!Page
<1>6. ui.view = "quiz" => ui.answers[r.q] = r.option
    BY DEF AttemptInv, OneCurrent, Current, Attempt!Here
<1> QED
    BY <1>3, <1>5, <1>6

\* A save ends: the page does not wait for it, or keeps what was stored, or takes
\* the choice back.
LEMMA SaveEnds ==
    ASSUME FormsAssumption, AttemptInv, NEW r \in net, r.kind = "save",
           net' = net \ {r}, srv' = srv,
           \/ ~Attempt!Here(r) /\ ui' = ui
           \/ Attempt!Here(r) /\ r.reply = "ok" /\ ui' = [ui EXCEPT !.saving = FALSE]
           \/ Attempt!Here(r) /\ ui' = Attempt!SaveFailed(r)
    PROVE  AttemptInv'
<1> USE Questionable
<1>0. ui \in Attempt!Page /\ net \subseteq Attempt!Request /\ srv \in AttemptStore
      /\ r \in Attempt!Request
    BY DEF AttemptInv, Attempt!TypeOK, AttemptStore
<1>2. \A s \in net' : s \in net /\ s # r
    OBVIOUS
<1>3. CASE ~Attempt!Here(r) /\ ui' = ui
    <2>1. ui.view = "quiz" => ~Current(r)
        BY <1>3 DEF Attempt!Here, Current
    <2>2. Attempt!TypeOK'
        BY <1>0, <1>3 DEF Attempt!TypeOK, AttemptStore
    <2>3. RequestsAreOlder' /\ EarlierServed' /\ EarlierAnswered'
        BY <1>2, <1>3 DEF AttemptInv, RequestsAreOlder, EarlierServed, EarlierAnswered
    <2>6. SavesHaveOptions' /\ FinishesAreWhole' /\ ReadIsStored'
        BY <1>2, <1>3 DEF AttemptInv, SavesHaveOptions, FinishesAreWhole, ReadIsStored
    <2>4. OneCurrent'
        BY <1>2, <1>3 DEF AttemptInv, OneCurrent, Current
    <2>5. ShownAnswered'
        <3>1. ASSUME NEW s \in net, ui.view = "quiz", Current(s) PROVE s \in net'
            BY <2>1, <3>1
        <3> QED
            BY <1>2, <1>3, <3>1 DEF AttemptInv, ShownAnswered, Current
    <2> QED
        BY <2>2, <2>3, <2>4, <2>5, <2>6 DEF AttemptInv
<1>4. PICK left : left = [r EXCEPT !.load = Attempt!Gone]
    OBVIOUS
<1>5. left.kind = "save"
    BY <1>0, <1>4 DEF Attempt!Request
<1>6. CASE Attempt!Here(r) /\ r.reply = "ok" /\ ui' = [ui EXCEPT !.saving = FALSE]
    <2>1. ui' \in Attempt!Page /\ ui'.view = ui.view /\ ui'.load = ui.load
          /\ ui'.doubt = ui.doubt /\ ui'.index = ui.index /\ ui'.answers = ui.answers
          /\ ui.answers \in Attempt!Answers
        BY <1>0, <1>6 DEF Attempt!Page
    <2> QED
        BY <1>4, <1>5, <1>6, <2>1, SaveLeft
<1>7. CASE Attempt!Here(r) /\ ui' = Attempt!SaveFailed(r)
    <2>1. /\ ui' \in Attempt!Page /\ ui'.view = ui.view /\ ui'.load = ui.load
          /\ ui'.doubt = ui.doubt /\ ui'.index = ui.index /\ ui'.answers \in Attempt!Answers
          /\ ui.view = "quiz" => \A q \in Attempt!Question :
                ui'.answers[q] = IF q = r.q THEN Attempt!None ELSE ui.answers[q]
        BY <1>7, ChoiceTakenBack
    <2> QED
        BY <1>4, <1>5, <1>7, <2>1, SaveLeft
<1> QED
    BY <1>3, <1>6, <1>7

\* The page gives up on a save that may still be served.
LEMMA SaveLateKeepsInv ==
    ASSUME FormsAssumption, AttemptInv, NEW r \in net, Attempt!SaveLate(r)
    PROVE  AttemptInv'
<1>0. ui \in Attempt!Page /\ r \in Attempt!Request
    BY DEF AttemptInv, Attempt!TypeOK
<1>1. r.kind = "save" /\ Attempt!Here(r) /\ srv' = srv
    BY DEF Attempt!SaveLate, Attempt!MayBeLate
<1>2. PICK left : left = [r EXCEPT !.load = Attempt!Gone]
    OBVIOUS
<1>3. net' = (net \ {r}) \cup {left} /\ left.kind = "save"
    BY <1>0, <1>1, <1>2 DEF Attempt!SaveLate, Attempt!Late, Attempt!Request
<1>4. PICK u : u = Attempt!SaveFailed(r)
    OBVIOUS
<1>5. /\ u \in Attempt!Page /\ u.view = ui.view /\ u.load = ui.load
      /\ u.doubt = ui.doubt /\ u.index = ui.index /\ u.answers \in Attempt!Answers
      /\ ui.view = "quiz" => \A q \in Attempt!Question :
            u.answers[q] = IF q = r.q THEN Attempt!None ELSE ui.answers[q]
    BY <1>1, <1>4, ChoiceTakenBack
<1>6. ui' = [u EXCEPT !.doubt = u.doubt \cup {r.q}]
    BY <1>4 DEF Attempt!SaveLate
<1>7. r.q \in Attempt!Question
    BY <1>0 DEF Attempt!Request
<1>8. /\ ui' \in Attempt!Page /\ ui'.view = ui.view /\ ui'.load = ui.load
      /\ ui'.doubt = ui.doubt \cup {r.q} /\ ui'.index = ui.index /\ ui'.answers = u.answers
    BY <1>5, <1>6, <1>7 DEF Attempt!Page
<1> QED
    BY <1>1, <1>2, <1>3, <1>5, <1>8, SaveLeft

\* A finish ends, on the result if the page is as it was, or the page gives up
\* on it.
LEMMA FinishEnds ==
    ASSUME FormsAssumption, AttemptInv, NEW r \in net, r.kind = "finish",
           Attempt!FinishAnswered(r) \/ Attempt!FinishLost(r) \/ Attempt!FinishLate(r)
    PROVE  AttemptInv'
<1> USE Questionable
<1>0. ui \in Attempt!Page /\ net \subseteq Attempt!Request /\ srv \in AttemptStore
      /\ r \in Attempt!Request
    BY DEF AttemptInv, Attempt!TypeOK, AttemptStore
<1>a. PICK left : left = [r EXCEPT !.load = Attempt!Gone]
    OBVIOUS
<1>b. left \in Attempt!Request /\ left.kind = "finish" /\ left.load = Attempt!Gone
      /\ left.reply = r.reply
    BY <1>0, <1>a DEF Attempt!Request, Attempt!Gone
<1>1. srv' = srv /\ (net' = net \ {r} \/ net' = (net \ {r}) \cup {left})
    BY <1>a DEF Attempt!FinishAnswered, Attempt!FinishLost, Attempt!FinishLate, Attempt!Late
<1>2. \/ ui' = ui \/ ui' = [ui EXCEPT !.view = "result"]
      \/ ui' = [ui EXCEPT !.finishing = FALSE, !.finishError = TRUE]
    BY DEF Attempt!FinishAnswered, Attempt!FinishLost, Attempt!FinishLate,
           Attempt!FinishFailed
<1>3. ui' \in Attempt!Page /\ ui'.load = ui.load /\ ui'.doubt = ui.doubt
      /\ ui'.index = ui.index /\ ui'.answers = ui.answers /\ ui'.saving = ui.saving
      /\ (ui'.view = ui.view \/ ui'.view = "result")
    BY <1>0, <1>2 DEF Attempt!Page
<1>4. \A s \in net' : s \in net \/ s = left
    BY <1>1
<1>5. \A s \in net : s.kind = "save" => s \in net'
    BY <1>1
<1>c. \A s \in net' : s.kind = "save" => s \in net
    BY <1>4, <1>b
<1>6. Attempt!TypeOK'
    BY <1>0, <1>1, <1>3, <1>b DEF Attempt!TypeOK, AttemptStore
<1>7. RequestsAreOlder' /\ FinishesAreWhole'
    BY <1>1, <1>3, <1>4, <1>b DEF AttemptInv, RequestsAreOlder, FinishesAreWhole
<1>10. SavesHaveOptions' /\ EarlierServed' /\ ReadIsStored' /\ EarlierAnswered'
    BY <1>1, <1>3, <1>c
    DEF AttemptInv, SavesHaveOptions, EarlierServed, ReadIsStored, EarlierAnswered
<1>8. OneCurrent'
    BY <1>3, <1>c DEF AttemptInv, OneCurrent, Current
<1>9. ShownAnswered'
    BY <1>1, <1>3, <1>c, <1>5 DEF AttemptInv, ShownAnswered, Current
<1> QED
    BY <1>6, <1>7, <1>8, <1>9, <1>10 DEF AttemptInv

\* A request that is served stays what it is but for its reply.
LEMMA Reply ==
    ASSUME AttemptInv, NEW r \in net, NEW reply \in {"read", "ok", "refused"},
           NEW seen \in Options \cup {Attempt!None},
           net' = Attempt!Replied(r, reply, seen)
    PROVE  \E s \in Attempt!Request :
              /\ net \subseteq Attempt!Request /\ r \in Attempt!Request
              /\ s.kind = r.kind /\ s.load = r.load /\ s.q = r.q /\ s.option = r.option
              /\ s.reply = reply /\ s.seen = seen /\ s \in net'
              /\ \A t \in net' : t = s \/ (t \in net /\ t # r)
              /\ \A t \in net : t = r \/ t \in net'
<1>1. net \subseteq Attempt!Request /\ r \in Attempt!Request
    BY DEF AttemptInv, Attempt!TypeOK
<1> DEFINE s == [r EXCEPT !.reply = reply, !.seen = seen]
<1>2. s \in Attempt!Request /\ s.kind = r.kind /\ s.load = r.load /\ s.q = r.q
      /\ s.option = r.option /\ s.reply = reply /\ s.seen = seen
    BY <1>1 DEF Attempt!Request
<1>3. net' = (net \ {r}) \cup {s}
    BY DEF Attempt!Replied
<1> HIDE DEF s
<1> QED
    BY <1>1, <1>2, <1>3

\* A save that is replied to is still the only one of the page.
LEMMA StillOneCurrent ==
    ASSUME AttemptInv, ui' = ui, NEW r \in net, NEW s,
           s.kind = r.kind, s.load = r.load, s.q = r.q, s.option = r.option,
           \A t \in net' : t = s \/ (t \in net /\ t # r)
    PROVE  OneCurrent'
<1>1. ASSUME NEW t \in net', Current(t)
      PROVE  \E u \in net : /\ Current(u) /\ u.q = t.q /\ u.option = t.option
                            /\ (t = s => u = r) /\ (t # s => u = t /\ u # r)
    <2>1. CASE t = s
        <3>1. Current(r)
            BY <1>1, <2>1 DEF Current
        <3> QED
            BY <2>1, <3>1
    <2>2. CASE t # s
        BY <1>1, <2>2
    <2> QED
        BY <2>1, <2>2
<1>2. ASSUME ui.view = "quiz", NEW t \in net', Current(t)
      PROVE  /\ ui.saving /\ ui.answers[t.q] = t.option
             /\ \A v \in net' : Current(v) => v = t
    <2>1. ui.saving /\ ui.answers[t.q] = t.option
        BY <1>1, <1>2 DEF AttemptInv, OneCurrent
    <2>2. ASSUME NEW v \in net', Current(v) PROVE v = t
        <3>1. PICK u \in net : Current(u) /\ (t = s => u = r) /\ (t # s => u = t /\ u # r)
            BY <1>1, <1>2
        <3>2. PICK w \in net : Current(w) /\ (v = s => w = r) /\ (v # s => w = v /\ w # r)
            BY <1>1, <2>2
        <3>3. u = w
            BY <1>2, <3>1, <3>2 DEF AttemptInv, OneCurrent
        <3> QED
            BY <3>1, <3>2, <3>3
    <2> QED
        BY <2>1, <2>2
<1>3. ui.view \in {"loading", "failed"} => \A t \in net' : ~Current(t)
    BY <1>1 DEF AttemptInv, OneCurrent
<1> QED
    BY <1>2, <1>3 DEF OneCurrent, Current

\* A choice that waited for its save still does when the save is replied to.
LEMMA StillInFlight ==
    ASSUME NEW r \in net, NEW s \in net', s.kind = r.kind, s.load = r.load, s.q = r.q,
           \A t \in net : t = r \/ t \in net',
           NEW q, \E t \in net : Current(t) /\ t.q = q
    PROVE  \E t \in net' : Current(t) /\ t.q = q
<1>1. PICK t \in net : Current(t) /\ t.q = q
    OBVIOUS
<1>2. CASE t = r
    BY <1>1, <1>2 DEF Current
<1>3. CASE t # r
    BY <1>1, <1>3
<1> QED
    BY <1>2, <1>3

\* What is read is stored, as no other save of the question is to be served.
LEMMA ReadAttemptKeepsInv ==
    ASSUME FormsAssumption, AttemptInv, NEW r \in net, Attempt!ReadAttempt(r)
    PROVE  AttemptInv'
<1> USE Questionable
<1>0. ui \in Attempt!Page /\ srv \in AttemptStore /\ net \subseteq Attempt!Request
      /\ r \in Attempt!Request
    BY DEF AttemptInv, Attempt!TypeOK, AttemptStore
<1>1. ui' = ui /\ srv' = srv /\ r.kind = "save" /\ r.reply = "none"
    BY DEF Attempt!ReadAttempt
<1>2. PICK seen : seen = srv.answers[r.q]
    OBVIOUS
<1>3. seen \in Options \cup {Attempt!None}
    BY <1>0, <1>2 DEF AttemptStore, Attempt!Answers, Attempt!Request
<1>5. net' = Attempt!Replied(r, "read", seen)
    BY <1>2 DEF Attempt!ReadAttempt
<1>6. PICK s \in Attempt!Request :
      /\ s.kind = r.kind /\ s.load = r.load /\ s.q = r.q /\ s.option = r.option
      /\ s.reply = "read" /\ s.seen = seen /\ s \in net'
      /\ \A t \in net' : t = s \/ (t \in net /\ t # r)
      /\ \A t \in net : t = r \/ t \in net'
    <2>1. "read" \in {"read", "ok", "refused"}
        OBVIOUS
    <2> QED
        BY <1>3, <1>5, <2>1, Reply
<1>7. Attempt!TypeOK'
    BY <1>0, <1>1, <1>6 DEF Attempt!TypeOK, AttemptStore
<1>8. RequestsAreOlder' /\ SavesHaveOptions' /\ EarlierAnswered' /\ FinishesAreWhole'
    BY <1>1, <1>6
    DEF AttemptInv, RequestsAreOlder, SavesHaveOptions, EarlierAnswered, FinishesAreWhole
<1>9. EarlierServed'
    BY <1>1, <1>6 DEF AttemptInv, EarlierServed, Attempt!Unserved
<1>10. ReadIsStored'
    BY <1>1, <1>2, <1>6 DEF AttemptInv, ReadIsStored
<1>11. OneCurrent'
    BY <1>1, <1>6, StillOneCurrent
<1>12. ShownAnswered'
    <2>1. \A t \in net' : t.reply = "ok" => t \in net
        BY <1>6
    <2>2. \A q \in Attempt!Question : (\E t \in net : Current(t) /\ t.q = q) =>
              \E t \in net' : Current(t) /\ t.q = q
        BY <1>6, StillInFlight
    <2> QED
        BY <1>1, <2>1, <2>2 DEF AttemptInv, ShownAnswered, Current
<1> QED
    BY <1>7, <1>8, <1>9, <1>10, <1>11, <1>12 DEF AttemptInv

LEMMA ServeSaveKeepsInv ==
    ASSUME FormsAssumption, AttemptInv, NEW r \in net, Attempt!ServeSave(r)
    PROVE  AttemptInv'
<1> USE Questionable
<1>0. ui \in Attempt!Page /\ srv \in AttemptStore
    BY DEF AttemptInv, Attempt!TypeOK, AttemptStore
<1>1. ui' = ui /\ r.kind = "save" /\ r.reply = "read"
    BY DEF Attempt!ServeSave
<1>2. PICK reply \in {"ok", "refused"} :
          /\ net' = Attempt!Replied(r, reply, Attempt!None)
          /\ \/ reply = "refused" /\ srv' = srv
             \/ reply = "ok" /\ r.option = r.seen /\ srv' = srv
             \/ reply = "ok" /\ r.option # r.seen
                /\ srv' = [srv EXCEPT !.answers[r.q] = r.option]
    BY DEF Attempt!ServeSave
<1>4. PICK s \in Attempt!Request :
      /\ net \subseteq Attempt!Request /\ r \in Attempt!Request
      /\ s.kind = r.kind /\ s.load = r.load /\ s.q = r.q /\ s.option = r.option
      /\ s.reply = reply /\ s.seen = Attempt!None /\ s \in net'
      /\ \A t \in net' : t = s \/ (t \in net /\ t # r)
      /\ \A t \in net : t = r \/ t \in net'
    <2>1. Attempt!None \in Options \cup {Attempt!None} /\ reply \in {"read", "ok", "refused"}
        OBVIOUS
    <2> QED
        BY <1>2, <2>1, Reply
<1>5. r.option \in Options /\ r.option # Attempt!None /\ r.q \in Attempt!Question
    BY <1>1, <1>4 DEF AttemptInv, SavesHaveOptions, Attempt!Request
<1>6. /\ srv' \in AttemptStore /\ srv'.completed = srv.completed /\ srv'.refused = srv.refused
      /\ \A q \in Attempt!Question : srv'.answers[q] =
            IF reply = "ok" /\ q = r.q /\ r.option # r.seen THEN r.option
            ELSE srv.answers[q]
    <2>1. CASE srv' = srv /\ (reply = "refused" \/ r.option = r.seen)
        BY <1>0, <2>1
    <2>2. CASE /\ reply = "ok" /\ r.option # r.seen
               /\ srv' = [srv EXCEPT !.answers[r.q] = r.option]
        <3>1. PICK answers : answers = [srv.answers EXCEPT ![r.q] = r.option]
            OBVIOUS
        <3>2. srv.answers \in Attempt!Answers
            BY <1>0 DEF AttemptStore
        <3>3. answers \in Attempt!Answers /\ \A q \in Attempt!Question :
                  answers[q] = IF q = r.q THEN r.option ELSE srv.answers[q]
            BY <1>5, <3>1, <3>2 DEF Attempt!Answers
        <3>4. srv' = [srv EXCEPT !.answers = answers]
            BY <2>2, <3>1
        <3>5. srv' \in AttemptStore /\ srv'.completed = srv.completed
              /\ srv'.refused = srv.refused /\ srv'.answers = answers
            BY <1>0, <3>3, <3>4 DEF AttemptStore
        <3> QED
            BY <2>2, <3>3, <3>5
    <2> QED
        BY <1>2, <2>1, <2>2
<1>a. \A q \in Attempt!Question : q # r.q => srv'.answers[q] = srv.answers[q]
    BY <1>6
<1>b. /\ r.seen # Attempt!None => srv.answers[r.q] # Attempt!None
      /\ ui.view = "quiz" /\ r.q \notin ui.doubt => srv.answers[r.q] = r.seen
    BY <1>1 DEF AttemptInv, ReadIsStored
<1>c. reply = "ok" =>
          /\ srv'.answers[r.q] # Attempt!None
          /\ ui.view = "quiz" /\ r.q \notin ui.doubt => srv'.answers[r.q] = r.option
    BY <1>5, <1>6, <1>b
<1>d. ui.view = "quiz" /\ r.q \notin ui.doubt => Current(r)
    BY <1>1 DEF AttemptInv, EarlierServed, Attempt!Unserved, Current
<1>7. Attempt!TypeOK'
    BY <1>0, <1>1, <1>4, <1>6 DEF Attempt!TypeOK, AttemptStore
<1>8. RequestsAreOlder' /\ SavesHaveOptions'
    BY <1>1, <1>4 DEF AttemptInv, RequestsAreOlder, SavesHaveOptions
<1>9. EarlierServed'
    <2>1. ~Attempt!Unserved(s)
        BY <1>4 DEF Attempt!Unserved
    <2> QED
        BY <1>1, <1>4, <2>1 DEF AttemptInv, EarlierServed, Attempt!Unserved
<1>10. OneCurrent'
    BY <1>1, <1>4, StillOneCurrent
<1>12. \A q \in Attempt!Question :
           srv.answers[q] # Attempt!None => srv'.answers[q] # Attempt!None
    BY <1>5, <1>6
<1>15. ReadIsStored'
    <2>1. ASSUME NEW t \in net', t.kind = "save", t.reply = "read"
          PROVE  /\ t.seen # Attempt!None => srv'.answers[t.q] # Attempt!None
                 /\ ui.view = "quiz" /\ t.q \notin ui.doubt => srv'.answers[t.q] = t.seen
        <3>1. t \in net /\ t # r /\ t.q \in Attempt!Question
            BY <1>4, <2>1 DEF Attempt!Request
        <3>2. /\ t.seen # Attempt!None => srv.answers[t.q] # Attempt!None
              /\ ui.view = "quiz" /\ t.q \notin ui.doubt => srv.answers[t.q] = t.seen
            BY <2>1, <3>1 DEF AttemptInv, ReadIsStored
        <3>3. ASSUME ui.view = "quiz", t.q \notin ui.doubt PROVE t.q # r.q
            <4>1. Current(t)
                BY <2>1, <3>1, <3>3 DEF AttemptInv, EarlierServed, Attempt!Unserved, Current
            <4>2. ~Current(r)
                BY <3>1, <3>3, <4>1 DEF AttemptInv, OneCurrent
            <4> QED
                BY <1>d, <3>3, <4>2
        <3> QED
            BY <1>a, <1>12, <3>1, <3>2, <3>3
    <2> QED
        BY <1>1, <2>1 DEF ReadIsStored
<1>11. ShownAnswered'
    <2>1. ASSUME ui.view = "quiz", NEW t \in net', Current(t), t.reply = "ok"
          PROVE  /\ srv'.answers[t.q] # Attempt!None
                 /\ t.q \notin ui.doubt => srv'.answers[t.q] = t.option
        <3>1. t.q \in Attempt!Question
            BY <1>4 DEF Attempt!Request
        <3>2. CASE t = s
            BY <1>4, <1>c, <2>1, <3>2
        <3>3. CASE t \in net /\ t # r
            <4>1. /\ srv.answers[t.q] # Attempt!None
                  /\ t.q \notin ui.doubt => srv.answers[t.q] = t.option
                BY <2>1, <3>3 DEF AttemptInv, ShownAnswered
            <4>2. ~Current(r)
                BY <2>1, <3>3 DEF AttemptInv, OneCurrent
            <4>3. r.q \in ui.doubt
                BY <1>d, <2>1, <4>2
            <4> QED
                BY <1>12, <1>a, <3>1, <4>1, <4>3
        <3> QED
            BY <1>4, <3>2, <3>3
    <2>2. ASSUME ui.view = "quiz", NEW q \in Attempt!Question, ui.answers[q] # Attempt!None
          PROVE  \/ \E t \in net' : Current(t) /\ t.q = q
                 \/ /\ srv'.answers[q] # Attempt!None
                    /\ q \notin ui.doubt => srv'.answers[q] = ui.answers[q]
        <3>1. CASE \E t \in net : Current(t) /\ t.q = q
            BY <1>4, <3>1, StillInFlight
        <3>2. CASE ~\E t \in net : Current(t) /\ t.q = q
            <4>1. /\ srv.answers[q] # Attempt!None
                  /\ q \notin ui.doubt => srv.answers[q] = ui.answers[q]
                BY <2>2, <3>2 DEF AttemptInv, ShownAnswered
            <4>2. q = r.q => r.q \in ui.doubt
                BY <1>d, <2>2, <3>2
            <4> QED
                BY <1>12, <1>a, <4>1, <4>2
        <3> QED
            BY <3>1, <3>2
    <2> QED
        BY <1>1, <2>1, <2>2 DEF ShownAnswered, Current
<1>13. EarlierAnswered'
    BY <1>1, <1>12 DEF AttemptInv, EarlierAnswered
<1>14. FinishesAreWhole'
    BY <1>1, <1>4, <1>6, <1>12 DEF AttemptInv, FinishesAreWhole
<1> QED
    BY <1>7, <1>8, <1>9, <1>10, <1>11, <1>13, <1>14, <1>15 DEF AttemptInv

LEMMA ServeFinishKeepsInv ==
    ASSUME FormsAssumption, AttemptInv, NEW r \in net, Attempt!ServeFinish(r)
    PROVE  AttemptInv'
<1> USE Questionable
<1>0. ui \in Attempt!Page /\ srv \in AttemptStore
    BY DEF AttemptInv, Attempt!TypeOK, AttemptStore
<1>1. ui' = ui /\ r.kind = "finish" /\ r.reply = "none"
    BY DEF Attempt!ServeFinish
<1>2. srv.completed \/ \A q \in Attempt!Question : srv.answers[q] # Attempt!None
    BY <1>1 DEF AttemptInv, FinishesAreWhole
<1>3. net' = Attempt!Replied(r, "ok", Attempt!None) /\ srv' = [srv EXCEPT !.completed = TRUE]
    BY <1>2 DEF Attempt!ServeFinish
<1>4. srv' \in AttemptStore /\ srv'.completed /\ srv'.refused = srv.refused
      /\ srv'.answers = srv.answers
    BY <1>0, <1>3 DEF AttemptStore
<1>6. PICK s \in Attempt!Request :
      /\ net \subseteq Attempt!Request /\ r \in Attempt!Request
      /\ s.kind = r.kind /\ s.load = r.load /\ s.q = r.q /\ s.option = r.option
      /\ s.reply = "ok" /\ s \in net'
      /\ \A t \in net' : t = s \/ (t \in net /\ t # r)
      /\ \A t \in net : t = r \/ t \in net'
    <2>1. Attempt!None \in Options \cup {Attempt!None} /\ "ok" \in {"read", "ok", "refused"}
        OBVIOUS
    <2> QED
        BY <1>3, <2>1, Reply
<1>7. \A t \in net' : t.kind = "save" => t \in net
    BY <1>1, <1>6
<1>8. \A t \in net : t.kind = "save" => t \in net'
    BY <1>1, <1>6
<1>9. Attempt!TypeOK'
    BY <1>0, <1>1, <1>4, <1>6 DEF Attempt!TypeOK, AttemptStore
<1>10. RequestsAreOlder' /\ SavesHaveOptions' /\ EarlierServed' /\ ReadIsStored'
       /\ EarlierAnswered' /\ FinishesAreWhole'
    BY <1>1, <1>4, <1>6, <1>7
    DEF AttemptInv, RequestsAreOlder, SavesHaveOptions, EarlierServed, ReadIsStored,
        EarlierAnswered, FinishesAreWhole
<1>11. OneCurrent'
    BY <1>1, <1>7 DEF AttemptInv, OneCurrent, Current
<1>12. ShownAnswered'
    BY <1>1, <1>4, <1>7, <1>8 DEF AttemptInv, ShownAnswered, Current
<1> QED
    BY <1>9, <1>10, <1>11, <1>12 DEF AttemptInv

LEMMA AttemptKeepsInv ==
    ASSUME FormsAssumption, AttemptInv, Attempt!Next PROVE AttemptInv'
<1>1. CASE \/ Attempt!LoadFails \/ Attempt!RetryLoad \/ Attempt!Reload
           \/ Attempt!ToggleExit \/ Attempt!Leave
    BY <1>1, PageKeepsInv
<1>2. CASE Attempt!Loaded
    BY <1>2, LoadedKeepsInv
<1>3. CASE Attempt!GoNext
    BY <1>3, GoNextKeepsInv
<1>4. CASE Attempt!HandleFinish
    BY <1>4, FinishKeepsInv
<1>5. ASSUME NEW option \in Options, Attempt!SelectOption(option) PROVE AttemptInv'
    BY <1>5, SelectKeepsInv
<1>6. ASSUME NEW r \in net, Attempt!ReadAttempt(r) \/ Attempt!ServeSave(r)
      PROVE  AttemptInv'
    BY <1>6, ReadAttemptKeepsInv, ServeSaveKeepsInv
<1>7. ASSUME NEW r \in net, Attempt!ServeFinish(r) PROVE AttemptInv'
    BY <1>7, ServeFinishKeepsInv
<1>8. ASSUME NEW r \in net, Attempt!SaveAnswered(r) PROVE AttemptInv'
    <2>1. r.kind = "save" /\ net' = net \ {r} /\ srv' = srv
        BY <1>8 DEF Attempt!SaveAnswered
    <2>2. \/ ~Attempt!Here(r) /\ ui' = ui
          \/ Attempt!Here(r) /\ r.reply = "ok" /\ ui' = [ui EXCEPT !.saving = FALSE]
          \/ Attempt!Here(r) /\ ui' = Attempt!SaveFailed(r)
        BY <1>8 DEF Attempt!SaveAnswered
    <2> QED
        BY <2>1, <2>2, SaveEnds
<1>9. ASSUME NEW r \in net, Attempt!SaveLost(r) PROVE AttemptInv'
    <2>1. r.kind = "save" /\ net' = net \ {r} /\ srv' = srv
        BY <1>9 DEF Attempt!SaveLost
    <2>2. \/ ~Attempt!Here(r) /\ ui' = ui
          \/ Attempt!Here(r) /\ ui' = Attempt!SaveFailed(r)
        BY <1>9 DEF Attempt!SaveLost
    <2> QED
        BY <2>1, <2>2, SaveEnds
<1>10. ASSUME NEW r \in net,
              Attempt!FinishAnswered(r) \/ Attempt!FinishLost(r) \/ Attempt!FinishLate(r)
       PROVE  AttemptInv'
    <2>1. r.kind = "finish"
        BY <1>10 DEF Attempt!FinishAnswered, Attempt!FinishLost, Attempt!FinishLate
    <2> QED
        BY <1>10, <2>1, FinishEnds
<1>11. ASSUME NEW r \in net, Attempt!SaveLate(r) PROVE AttemptInv'
    BY <1>11, SaveLateKeepsInv
<1> QED
    BY <1>1, <1>2, <1>3, <1>4, <1>5, <1>6, <1>7, <1>8, <1>9, <1>10, <1>11
    DEF Attempt!Next

\* The properties of the attempt page follow.
LEMMA AttemptProperties ==
    ASSUME FormsAssumption, AttemptInv
    PROVE  Attempt!ShownIsStored /\ Attempt!FinishIsComplete
<1>1. Attempt!FinishIsComplete
    BY DEF AttemptInv, FinishesAreWhole, Attempt!FinishIsComplete
<1>2. ASSUME ui.view = "quiz", NEW q \in Attempt!Question \ ui.doubt
      PROVE  \/ ui.answers[q] \in {Attempt!None, srv.answers[q]}
             \/ \E r \in Attempt!Saves : r.q = q /\ r.load = ui.load
    BY <1>2 DEF AttemptInv, ShownAnswered, Current, Attempt!Saves
<1> QED
    BY <1>1, <1>2 DEF Attempt!ShownIsStored

-----------------------------------------------------------------------------
(* Writing a challenge by hand.                                            *)

\* Two to four options, exactly one of them correct.
GoodMarks(correct) ==
    /\ correct \in Seq(BOOLEAN) /\ Len(correct) \in 2 .. 4
    /\ \E i \in 1 .. Len(correct) : \A j \in 1 .. Len(correct) : correct[j] <=> j = i

GoodQuestion ==
    {q \in [prompt : BOOLEAN, filled : BOOLEAN, correct : Seq(BOOLEAN)] :
        GoodMarks(q.correct)}

QuizPage ==
    [page : {"teacher", "class", "challenges"}, open : BOOLEAN, title : BOOLEAN,
     topic : BOOLEAN, questions : Seq(GoodQuestion), saving : BOOLEAN,
     error : {"none", "draft", "refused"}, reloading : BOOLEAN]

\* Each question of a draft has one correct option, and so has each that is sent.
QuizInv ==
    /\ ui \in QuizPage /\ Len(ui.questions) =< MaxQuestions
    /\ net \in [state : {"none", "sent", "made", "refused"}, filled : BOOLEAN,
                miscounted : {FALSE}]
    /\ srv = [miscounted |-> FALSE]

LEMMA RemoveAtProperties ==
    ASSUME NEW S, NEW s \in Seq(S), NEW i \in 1 .. Len(s)
    PROVE  /\ Quiz!RemoveAt(s, i) \in Seq(S)
           /\ Len(Quiz!RemoveAt(s, i)) = Len(s) - 1
           /\ \A j \in 1 .. Len(s) - 1 :
                 Quiz!RemoveAt(s, i)[j] = IF j < i THEN s[j] ELSE s[j + 1]
<1>1. PICK a, b : a = SubSeq(s, 1, i - 1) /\ b = SubSeq(s, i + 1, Len(s))
    OBVIOUS
<1>2. Quiz!RemoveAt(s, i) = a \o b
    BY <1>1 DEF Quiz!RemoveAt
<1>3. a \in Seq(S) /\ Len(a) = i - 1 /\ \A j \in 1 .. i - 1 : a[j] = s[j]
    BY <1>1
<1>4. b \in Seq(S) /\ Len(b) = Len(s) - i /\ \A j \in 1 .. Len(s) - i : b[j] = s[i + j]
    BY <1>1
<1>a. /\ a \o b \in Seq(S) /\ Len(a \o b) = Len(a) + Len(b)
      /\ \A j \in 1 .. Len(a) + Len(b) :
            (a \o b)[j] = IF j =< Len(a) THEN a[j] ELSE b[j - Len(a)]
    BY <1>3, <1>4, ConcatProperties, Zenon
<1>5. /\ a \o b \in Seq(S) /\ Len(a \o b) = Len(s) - 1
      /\ \A j \in 1 .. Len(a) + Len(b) :
            (a \o b)[j] = IF j =< Len(a) THEN a[j] ELSE b[j - Len(a)]
    BY <1>3, <1>4, <1>a
<1>6. ASSUME NEW j \in 1 .. Len(s) - 1
      PROVE  (a \o b)[j] = IF j < i THEN s[j] ELSE s[j + 1]
    <2>1. CASE j < i
        BY <1>3, <1>4, <1>5, <2>1
    <2>2. CASE ~(j < i)
        <3>1. (a \o b)[j] = b[j - (i - 1)] /\ j - (i - 1) \in 1 .. Len(s) - i
            BY <1>3, <1>4, <1>5, <2>2
        <3>2. i + (j - (i - 1)) = j + 1
            OBVIOUS
        <3> QED
            BY <1>4, <2>2, <3>1, <3>2
    <2> QED
        BY <2>1, <2>2
<1> QED
    BY <1>2, <1>5, <1>6

LEMMA QuizCardinality == \A S : Quiz!Cardinality(S) = Cardinality(S)
BY DEF Quiz!Cardinality, Cardinality

LEMMA OneIsCorrect ==
    ASSUME NEW q \in GoodQuestion
    PROVE  Quiz!CorrectOptions(q) = 1 /\ Len(q.correct) \in 2 .. 4
<1>1. GoodMarks(q.correct)
    BY DEF GoodQuestion
<1>2. PICK i \in 1 .. Len(q.correct) : \A j \in 1 .. Len(q.correct) : q.correct[j] <=> j = i
    BY <1>1 DEF GoodMarks
<1>3. {j \in DOMAIN q.correct : q.correct[j]} = {i}
    BY <1>1, <1>2 DEF GoodMarks
<1>4. Quiz!CorrectOptions(q) = Cardinality({i})
    BY <1>3, QuizCardinality, Zenon DEF Quiz!CorrectOptions
<1> QED
    BY <1>1, <1>4, FS_Singleton DEF GoodMarks

\* A row of marks is a sequence.
LEMMA MarksOf ==
    ASSUME NEW n \in Nat, NEW m \in [1 .. n -> BOOLEAN]
    PROVE  m \in Seq(BOOLEAN) /\ Len(m) = n
<1>1. m \in Seq(BOOLEAN)
    BY SeqDef
<1> QED
    BY <1>1, LenProperties

LEMMA FirstMarked ==
    ASSUME NEW n \in 2 .. 4 PROVE GoodMarks(Quiz!Marks(n))
<1>1. Quiz!Marks(n) \in [1 .. n -> BOOLEAN]
      /\ \A j \in 1 .. n : Quiz!Marks(n)[j] <=> j = 1
    BY DEF Quiz!Marks
<1>2. Quiz!Marks(n) \in Seq(BOOLEAN) /\ Len(Quiz!Marks(n)) = n
    BY <1>1, MarksOf
<1>3. 1 \in 1 .. n
    OBVIOUS
<1> QED
    BY <1>1, <1>2, <1>3 DEF GoodMarks

LEMMA EmptyIsGood ==
    ASSUME NEW page PROVE Quiz!EmptyQuestion(page) \in GoodQuestion
<1>1. GoodMarks(Quiz!Marks(2)) /\ GoodMarks(Quiz!Marks(4))
    BY FirstMarked
<1> QED
    BY <1>1 DEF Quiz!EmptyQuestion, GoodQuestion, GoodMarks, Quiz!MinOptions, Quiz!MaxOptions

LEMMA OtherMarked ==
    ASSUME NEW m, GoodMarks(m), NEW i \in DOMAIN m
    PROVE  GoodMarks([j \in DOMAIN m |-> j = i])
<1>1. DOMAIN m = 1 .. Len(m) /\ Len(m) \in Nat
    BY DEF GoodMarks
<1>2. PICK marks : marks = [j \in 1 .. Len(m) |-> j = i]
    OBVIOUS
<1>a. marks \in [1 .. Len(m) -> BOOLEAN] /\ \A j \in 1 .. Len(m) : marks[j] <=> j = i
    BY <1>2
<1>3. marks \in Seq(BOOLEAN) /\ Len(marks) = Len(m)
      /\ \A j \in 1 .. Len(m) : marks[j] <=> j = i
    BY <1>1, <1>a, MarksOf
<1>4. GoodMarks(marks)
    BY <1>1, <1>3 DEF GoodMarks
<1> QED
    BY <1>1, <1>2, <1>4

LEMMA OptionAdded ==
    ASSUME NEW m, GoodMarks(m), Len(m) < 4 PROVE GoodMarks(Append(m, FALSE))
<1>1. PICK i \in 1 .. Len(m) : \A j \in 1 .. Len(m) : m[j] <=> j = i
    BY DEF GoodMarks
<1>2. PICK a : a = Append(m, FALSE)
    OBVIOUS
<1>3. /\ a \in Seq(BOOLEAN) /\ Len(a) = Len(m) + 1 /\ a[Len(m) + 1] = FALSE
      /\ \A j \in 1 .. Len(m) : a[j] = m[j]
    BY <1>2 DEF GoodMarks
<1>4. \A j \in 1 .. Len(a) : a[j] <=> j = i
    BY <1>1, <1>3 DEF GoodMarks
<1>5. i \in 1 .. Len(a) /\ Len(a) \in 2 .. 4
    BY <1>1, <1>3 DEF GoodMarks
<1> QED
    BY <1>2, <1>3, <1>4, <1>5 DEF GoodMarks

\* The correct option stays correct, or the first one takes its place.
LEMMA OptionRemoved ==
    ASSUME NEW m, GoodMarks(m), Len(m) > 2, NEW i \in DOMAIN m
    PROVE  GoodMarks(Quiz!WithoutOption(m, i))
<1>1. m \in Seq(BOOLEAN) /\ Len(m) \in 3 .. 4 /\ i \in 1 .. Len(m)
    BY DEF GoodMarks
<1>2. PICK right \in 1 .. Len(m) : \A j \in 1 .. Len(m) : m[j] <=> j = right
    BY DEF GoodMarks
<1>3. PICK rest : rest = Quiz!RemoveAt(m, i)
    OBVIOUS
<1>4. /\ rest \in Seq(BOOLEAN) /\ Len(rest) = Len(m) - 1
      /\ \A j \in 1 .. Len(m) - 1 : rest[j] = IF j < i THEN m[j] ELSE m[j + 1]
    BY <1>1, <1>3, RemoveAtProperties
<1>5. Quiz!WithoutOption(m, i) =
          IF \E j \in DOMAIN rest : rest[j] THEN rest ELSE Quiz!Marks(Len(rest))
    BY <1>3 DEF Quiz!WithoutOption
<1>6. CASE \E j \in DOMAIN rest : rest[j]
    <2>1. PICK k \in 1 .. Len(rest) : rest[k]
        BY <1>4, <1>6
    <2>2. \A j \in 1 .. Len(rest) :
              rest[j] <=> (IF j < i THEN j = right ELSE j + 1 = right)
        BY <1>1, <1>2, <1>4
    <2>3. \A j \in 1 .. Len(rest) : rest[j] <=> j = k
        BY <1>1, <1>4, <2>1, <2>2
    <2>4. GoodMarks(rest)
        BY <1>1, <1>4, <2>3 DEF GoodMarks
    <2> QED
        BY <1>5, <1>6, <2>4, Zenon
<1>7. CASE ~\E j \in DOMAIN rest : rest[j]
    BY <1>1, <1>4, <1>5, <1>7, FirstMarked
<1> QED
    BY <1>6, <1>7

LEMMA EmptyFormIsPage ==
    ASSUME FormsAssumption, NEW page \in {"teacher", "class", "challenges"}
    PROVE  Quiz!EmptyForm(page) \in QuizPage /\ Len(Quiz!EmptyForm(page).questions) = 1
<1>1. PICK q \in GoodQuestion : q = Quiz!EmptyQuestion(page)
    BY EmptyIsGood
<1>2. <<q>> \in Seq(GoodQuestion) /\ Len(<<q>>) = 1
    OBVIOUS
<1>3. PICK topic \in BOOLEAN : topic = (page = "teacher")
    OBVIOUS
<1>4. Quiz!EmptyForm(page) =
          [page |-> page, open |-> FALSE, title |-> FALSE, topic |-> topic,
           questions |-> <<q>>, saving |-> FALSE, error |-> "none", reloading |-> FALSE]
    BY <1>1, <1>3 DEF Quiz!EmptyForm
<1>5. PICK questions \in Seq(GoodQuestion) : questions = <<q>>
    BY <1>2
<1> QED
    BY <1>2, <1>4, <1>5 DEF QuizPage

LEMMA QuizInit ==
    ASSUME FormsAssumption, Quiz!Init PROVE QuizInv
<1>1. MaxQuestions \in Nat \ {0}
    BY DEF FormsAssumption
<1>2. ui \in QuizPage /\ Len(ui.questions) =< MaxQuestions
    <2>1. PICK page \in {"teacher", "class", "challenges"} : ui = Quiz!EmptyForm(page)
        BY DEF Quiz!Init
    <2>2. ui \in QuizPage /\ Len(ui.questions) = 1
        BY <2>1, EmptyFormIsPage
    <2> QED
        BY <1>1, <2>2
<1> QED
    BY <1>2 DEF QuizInv, Quiz!Init, Quiz!NoSubmission

\* Rewriting a question leaves the others.
LEMMA QuestionWritten ==
    ASSUME QuizInv, NEW n \in 1 .. Len(ui.questions), NEW q \in GoodQuestion,
           ui' = [ui EXCEPT !.questions[n] = q], net' = net, srv' = srv
    PROVE  QuizInv'
<1>1. ui \in QuizPage /\ ui.questions \in Seq(GoodQuestion)
    BY DEF QuizInv, QuizPage
<1>2. PICK questions : questions = [ui.questions EXCEPT ![n] = q]
    OBVIOUS
<1>3. questions \in Seq(GoodQuestion) /\ Len(questions) = Len(ui.questions)
    BY <1>1, <1>2, ExceptSeq
<1>4. ui' = [ui EXCEPT !.questions = questions]
    BY <1>2
<1>5. ui' \in QuizPage /\ ui'.questions = questions
    BY <1>1, <1>3, <1>4 DEF QuizPage
<1> QED
    BY <1>3, <1>5 DEF QuizInv

LEMMA QuestionAt ==
    ASSUME QuizInv, NEW n \in 1 .. Len(ui.questions)
    PROVE  /\ ui.questions[n] \in GoodQuestion
           /\ GoodMarks(ui.questions[n].correct)
           /\ ui.questions[n].prompt \in BOOLEAN /\ ui.questions[n].filled \in BOOLEAN
           /\ ui.questions[n] = [prompt |-> ui.questions[n].prompt,
                                 filled |-> ui.questions[n].filled,
                                 correct |-> ui.questions[n].correct]
<1>1. ui.questions \in Seq(GoodQuestion)
    BY DEF QuizInv, QuizPage
<1>2. PICK q : q = ui.questions[n]
    OBVIOUS
<1>3. q \in GoodQuestion
    BY <1>1, <1>2, ElementOfSeq
<1>4. GoodMarks(q.correct) /\ q \in [prompt : BOOLEAN, filled : BOOLEAN, correct : Seq(BOOLEAN)]
    BY <1>3 DEF GoodQuestion
<1> QED
    BY <1>2, <1>3, <1>4

LEMMA QuestionsKeepInv ==
    ASSUME FormsAssumption, QuizInv, NEW n \in Quiz!Number,
           \/ Quiz!TypeQuestion(n) \/ Quiz!AddOption(n)
           \/ \E i \in DOMAIN ui.questions[n].correct :
                 Quiz!SetCorrect(n, i) \/ Quiz!RemoveOption(n, i)
    PROVE  QuizInv'
<1>0. n \in 1 .. Len(ui.questions)
    BY DEF Quiz!Number
<1>1. PICK question, prompt, filled, correct :
          /\ question = ui.questions[n]
          /\ prompt = ui.questions[n].prompt /\ filled = ui.questions[n].filled
          /\ correct = ui.questions[n].correct
    OBVIOUS
<1>2. /\ GoodMarks(correct) /\ prompt \in BOOLEAN /\ filled \in BOOLEAN
      /\ ui.questions[n] = [prompt |-> prompt, filled |-> filled, correct |-> correct]
    BY <1>0, <1>1, QuestionAt
<1>a. ASSUME NEW c \in Seq(BOOLEAN), NEW f \in BOOLEAN
      PROVE  [question EXCEPT !.correct = c, !.filled = f] =
                 [prompt |-> prompt, filled |-> f, correct |-> c]
    <2>1. question \in [prompt : BOOLEAN, filled : BOOLEAN, correct : Seq(BOOLEAN)]
        BY <1>0, <1>1, QuestionAt DEF GoodQuestion
    <2>2. question.prompt = prompt
        BY <1>1
    <2>3. PICK r : r = [question EXCEPT !.correct = c]
        OBVIOUS
    <2>4. r = [prompt |-> question.prompt, filled |-> question.filled, correct |-> c]
        BY <2>1, <2>3
    <2>5. r \in [prompt : BOOLEAN, filled : BOOLEAN, correct : Seq(BOOLEAN)]
        BY <2>1, <2>4
    <2>6. [r EXCEPT !.filled = f] = [prompt |-> r.prompt, filled |-> f, correct |-> r.correct]
        BY <2>5, SMTT(30)
    <2>7. r.prompt = prompt /\ r.correct = c
        BY <2>2, <2>4
    <2>8. [question EXCEPT !.correct = c, !.filled = f] = [r EXCEPT !.filled = f]
        BY <2>3
    <2> QED
        BY <2>6, <2>7, <2>8, Zenon
<1>3. net' = net /\ srv' = srv
    BY DEF Quiz!TypeQuestion, Quiz!AddOption, Quiz!SetCorrect, Quiz!RemoveOption, Quiz!Edit
<1>4. ASSUME NEW p \in BOOLEAN, NEW f \in BOOLEAN, NEW c, GoodMarks(c),
             ui' = [ui EXCEPT !.questions[n] = [prompt |-> p, filled |-> f, correct |-> c]]
      PROVE  QuizInv'
    <2>1. PICK q : q = [prompt |-> p, filled |-> f, correct |-> c]
        OBVIOUS
    <2>2. q \in GoodQuestion
        BY <1>4, <2>1 DEF GoodQuestion, GoodMarks
    <2> QED
        BY <1>0, <1>3, <1>4, <2>1, <2>2, QuestionWritten
<1>5. CASE Quiz!TypeQuestion(n)
    <2>a. \/ ui' = [ui EXCEPT !.questions[n] = [question EXCEPT !.prompt = ~prompt]]
          \/ ui' = [ui EXCEPT !.questions[n] = [question EXCEPT !.filled = ~filled]]
        BY <1>1, <1>5 DEF Quiz!TypeQuestion
    <2>b. /\ [question EXCEPT !.prompt = ~prompt] =
                 [prompt |-> ~prompt, filled |-> filled, correct |-> correct]
          /\ [question EXCEPT !.filled = ~filled] =
                 [prompt |-> prompt, filled |-> ~filled, correct |-> correct]
        BY <1>1, <1>2
    <2>1. \/ ui' = [ui EXCEPT !.questions[n] =
                       [prompt |-> ~prompt, filled |-> filled, correct |-> correct]]
          \/ ui' = [ui EXCEPT !.questions[n] =
                       [prompt |-> prompt, filled |-> ~filled, correct |-> correct]]
        BY <2>a, <2>b
    <2> QED
        BY <1>2, <1>4, <2>1
<1>6. CASE Quiz!AddOption(n)
    <2>a. ui' = [ui EXCEPT !.questions[n] =
                    [question EXCEPT !.correct = Append(correct, FALSE), !.filled = FALSE]]
        BY <1>1, <1>6 DEF Quiz!AddOption
    <2>b. [question EXCEPT !.correct = Append(correct, FALSE), !.filled = FALSE] =
             [prompt |-> prompt, filled |-> FALSE, correct |-> Append(correct, FALSE)]
        <3>1. Append(correct, FALSE) \in Seq(BOOLEAN)
            BY <1>2 DEF GoodMarks
        <3> QED
            BY <1>a, <3>1
    <2>1. ui' = [ui EXCEPT !.questions[n] =
                    [prompt |-> prompt, filled |-> FALSE, correct |-> Append(correct, FALSE)]]
        BY <2>a, <2>b
    <2>2. Len(correct) < 4
        BY <1>1, <1>6 DEF Quiz!AddOption, Quiz!MayAddOption, Quiz!MaxOptions
    <2>3. GoodMarks(Append(correct, FALSE))
        BY <1>2, <2>2, OptionAdded
    <2> QED
        BY <1>2, <1>4, <2>1, <2>3
<1>7. ASSUME NEW i \in DOMAIN correct, Quiz!SetCorrect(n, i) PROVE QuizInv'
    <2>a. ui' = [ui EXCEPT !.questions[n] =
                    [question EXCEPT !.correct = [j \in DOMAIN correct |-> j = i]]]
        BY <1>1, <1>7 DEF Quiz!SetCorrect
    <2>b. [question EXCEPT !.correct = [j \in DOMAIN correct |-> j = i]] =
             [prompt |-> prompt, filled |-> filled,
              correct |-> [j \in DOMAIN correct |-> j = i]]
        BY <1>1, <1>2
    <2>1. ui' = [ui EXCEPT !.questions[n] =
                    [prompt |-> prompt, filled |-> filled,
                     correct |-> [j \in DOMAIN correct |-> j = i]]]
        BY <2>a, <2>b
    <2>2. GoodMarks([j \in DOMAIN correct |-> j = i])
        BY <1>2, OtherMarked
    <2> QED
        BY <1>2, <1>4, <2>1, <2>2
<1>8. ASSUME NEW i \in DOMAIN correct, Quiz!RemoveOption(n, i) PROVE QuizInv'
    <2>1. PICK f \in BOOLEAN :
              ui' = [ui EXCEPT !.questions[n].correct = Quiz!WithoutOption(@, i),
                               !.questions[n].filled = f]
        BY <1>1, <1>2, <1>8 DEF Quiz!RemoveOption
    <2>3. Len(correct) > 2
        BY <1>1, <1>8 DEF Quiz!RemoveOption, Quiz!MinOptions
    <2>4. GoodMarks(Quiz!WithoutOption(correct, i))
        BY <1>2, <2>3, OptionRemoved
    <2>a. ui' = [ui EXCEPT !.questions[n] =
                    [question EXCEPT !.correct = Quiz!WithoutOption(correct, i),
                                     !.filled = f]]
        BY <1>1, <2>1
    <2>b. [question EXCEPT !.correct = Quiz!WithoutOption(correct, i), !.filled = f] =
             [prompt |-> prompt, filled |-> f, correct |-> Quiz!WithoutOption(correct, i)]
        BY <1>a, <2>4 DEF GoodMarks
    <2>2. ui' = [ui EXCEPT !.questions[n] =
                    [prompt |-> prompt, filled |-> f,
                     correct |-> Quiz!WithoutOption(correct, i)]]
        BY <2>a, <2>b
    <2> QED
        BY <1>2, <1>4, <2>2, <2>4
<1> QED
    BY <1>1, <1>5, <1>6, <1>7, <1>8

\* A form that has just been opened, or emptied.
LEMMA FormEmptied ==
    ASSUME FormsAssumption, QuizInv, ui.page \in {"teacher", "class", "challenges"},
           NEW open \in BOOLEAN, NEW reloading \in BOOLEAN,
           ui' = [Quiz!EmptyForm("teacher") EXCEPT !.open = open, !.reloading = reloading]
    PROVE  ui' \in QuizPage /\ Len(ui'.questions) =< MaxQuestions
<1>1. MaxQuestions \in Nat \ {0}
    BY DEF FormsAssumption
<1>2. PICK form : form = Quiz!EmptyForm("teacher")
    OBVIOUS
<1>3. form \in QuizPage /\ Len(form.questions) = 1
    BY <1>2, EmptyFormIsPage
<1>4. ui' = [form EXCEPT !.open = open, !.reloading = reloading]
    BY <1>2
<1>5. ui' \in QuizPage /\ ui'.questions = form.questions
    BY <1>3, <1>4 DEF QuizPage
<1>6. Len(ui'.questions) = 1
    BY <1>3, <1>5
<1>7. 1 =< MaxQuestions
    BY <1>1
<1> QED
    BY <1>5, <1>6, <1>7, Zenon

\* The draft as it is, whatever the rest of the form shows.
LEMMA DraftKept ==
    ASSUME QuizInv, ui' \in QuizPage, ui'.questions = ui.questions
    PROVE  ui' \in QuizPage /\ Len(ui'.questions) =< MaxQuestions
BY DEF QuizInv

LEMMA DialogKeepsInv ==
    ASSUME FormsAssumption, QuizInv,
           Quiz!Open \/ Quiz!Cancel \/ Quiz!TypeTitle \/ Quiz!SubmitInvalid
               \/ Quiz!PageReloads \/ Quiz!Reloaded
    PROVE  QuizInv'
<1>1. net' = net /\ srv' = srv
    BY DEF Quiz!Open, Quiz!Cancel, Quiz!TypeTitle, Quiz!SubmitInvalid, Quiz!PageReloads,
           Quiz!Reloaded, Quiz!Edit
<1>2. ui \in QuizPage /\ ui.open \in BOOLEAN /\ ui.page \in {"teacher", "class", "challenges"}
    BY DEF QuizInv, QuizPage
<1>3. ui' \in QuizPage /\ Len(ui'.questions) =< MaxQuestions
    <2>1. CASE Quiz!Open
        <3>1. ui' \in QuizPage /\ ui'.questions = ui.questions
            BY <1>2, <2>1 DEF Quiz!Open, QuizPage
        <3> QED
            BY <3>1, DraftKept
    <2>2. CASE Quiz!Cancel
        <3>1. CASE ui.page = "teacher"
            <4>1. ui' = Quiz!EmptyForm("teacher")
                BY <2>2, <3>1 DEF Quiz!Cancel
            <4>2. ui' \in QuizPage /\ Len(ui'.questions) = 1
                BY <4>1, EmptyFormIsPage
            <4> QED
                BY <4>2 DEF FormsAssumption
        <3>2. CASE ui.page # "teacher"
            <4>1. ui' \in QuizPage /\ ui'.questions = ui.questions
                BY <1>2, <2>2, <3>2 DEF Quiz!Cancel, QuizPage
            <4> QED
                BY <4>1, DraftKept
        <3> QED
            BY <3>1, <3>2
    <2>3. CASE Quiz!TypeTitle
        <3>1. ui' \in QuizPage /\ ui'.questions = ui.questions
            BY <1>2, <2>3 DEF Quiz!TypeTitle, QuizPage
        <3> QED
            BY <3>1, DraftKept
    <2>4. CASE Quiz!SubmitInvalid
        <3>1. ui' \in QuizPage /\ ui'.questions = ui.questions
            BY <1>2, <2>4 DEF Quiz!SubmitInvalid, QuizPage
        <3> QED
            BY <3>1, DraftKept
    <2>5. CASE Quiz!PageReloads
        BY <1>2, <2>5, FormEmptied DEF Quiz!PageReloads
    <2>6. CASE Quiz!Reloaded
        <3>1. ui' \in QuizPage /\ ui'.questions = ui.questions
            BY <1>2, <2>6 DEF Quiz!Reloaded, QuizPage
        <3> QED
            BY <3>1, DraftKept
    <2> QED
        BY <2>1, <2>2, <2>3, <2>4, <2>5, <2>6
<1>4. QuizInv'
    BY <1>1, <1>3 DEF QuizInv
<1> QED
    BY <1>4

\* A question is added at the end, or taken away.
LEMMA DraftKeepsInv ==
    ASSUME FormsAssumption, QuizInv,
           Quiz!AddQuestion \/ \E n \in Quiz!Number : Quiz!RemoveQuestion(n)
    PROVE  QuizInv'
<1>1. net' = net /\ srv' = srv
    BY DEF Quiz!AddQuestion, Quiz!RemoveQuestion, Quiz!Edit
<1>2. /\ ui \in QuizPage /\ ui.questions \in Seq(GoodQuestion)
      /\ Len(ui.questions) =< MaxQuestions /\ MaxQuestions \in Nat
    BY DEF QuizInv, QuizPage, FormsAssumption
<1>3. PICK questions : ui' = [ui EXCEPT !.questions = questions]
                       /\ questions \in Seq(GoodQuestion) /\ Len(questions) =< MaxQuestions
    <2>1. CASE Quiz!AddQuestion
        <3>1. PICK q : q = Quiz!EmptyQuestion(ui.page)
            OBVIOUS
        <3>2. q \in GoodQuestion
            BY <3>1, EmptyIsGood
        <3>3. ui' = [ui EXCEPT !.questions = Append(ui.questions, q)]
              /\ Len(ui.questions) < MaxQuestions
            BY <2>1, <3>1 DEF Quiz!AddQuestion
        <3>4. Append(ui.questions, q) \in Seq(GoodQuestion)
              /\ Len(Append(ui.questions, q)) = Len(ui.questions) + 1
            BY <1>2, <3>2, AppendProperties
        <3>5. Len(ui.questions) \in Nat
            BY <1>2, LenProperties
        <3>6. Len(Append(ui.questions, q)) =< MaxQuestions
            BY <1>2, <3>3, <3>4, <3>5
        <3> QED
            BY <3>3, <3>4, <3>6
    <2>2. ASSUME NEW n \in 1 .. Len(ui.questions), Quiz!RemoveQuestion(n)
          PROVE  \E questions : /\ ui' = [ui EXCEPT !.questions = questions]
                                /\ questions \in Seq(GoodQuestion)
                                /\ Len(questions) =< MaxQuestions
        <3>1. ui' = [ui EXCEPT !.questions = Quiz!RemoveAt(ui.questions, n)]
            BY <2>2 DEF Quiz!RemoveQuestion
        <3>2. /\ Quiz!RemoveAt(ui.questions, n) \in Seq(GoodQuestion)
              /\ Len(Quiz!RemoveAt(ui.questions, n)) = Len(ui.questions) - 1
            BY <1>2, RemoveAtProperties
        <3>3. Len(ui.questions) \in Nat
            BY <1>2, LenProperties
        <3>4. Len(Quiz!RemoveAt(ui.questions, n)) =< MaxQuestions
            BY <1>2, <3>2, <3>3
        <3> QED
            BY <3>1, <3>2, <3>4
    <2> QED
        BY <2>1, <2>2 DEF Quiz!Number
<1>4. ui' \in QuizPage /\ ui'.questions = questions
    BY <1>2, <1>3 DEF QuizPage
<1> QED
    BY <1>1, <1>3, <1>4 DEF QuizInv

\* What is sent has one correct option in every question.
LEMMA SubmissionKeepsInv ==
    ASSUME FormsAssumption, QuizInv,
           Quiz!Submit \/ Quiz!ServeSubmit \/ Quiz!Submitted \/ Quiz!SubmitFails
    PROVE  QuizInv'
<1>1. ui \in QuizPage /\ ui.questions \in Seq(GoodQuestion)
      /\ ui.page \in {"teacher", "class", "challenges"}
    BY DEF QuizInv, QuizPage
<1>2. net.miscounted = FALSE /\ srv = [miscounted |-> FALSE]
    BY DEF QuizInv
<1>3. CASE Quiz!Submit
    <2>1. \A n \in Quiz!Number : Quiz!CorrectOptions(ui.questions[n]) = 1
        <3> SUFFICES ASSUME NEW n \in Quiz!Number
                     PROVE  Quiz!CorrectOptions(ui.questions[n]) = 1
            OBVIOUS
        <3>1. ui.questions[n] \in GoodQuestion
            BY QuestionAt DEF Quiz!Number
        <3> QED
            BY <3>1, OneIsCorrect
    <2>2. PICK filled \in BOOLEAN : filled = \A n \in Quiz!Number : ui.questions[n].filled
        OBVIOUS
    <2>3. net' = [state |-> "sent", filled |-> filled, miscounted |-> FALSE]
        BY <1>3, <2>1, <2>2 DEF Quiz!Submit
    <2>4. ui' \in QuizPage /\ ui'.questions = ui.questions /\ srv' = srv
        BY <1>1, <1>3 DEF Quiz!Submit, QuizPage
    <2> QED
        BY <1>2, <2>3, <2>4 DEF QuizInv
<1>4. CASE Quiz!ServeSubmit
    <2>1. net' \in [state : {"none", "sent", "made", "refused"}, filled : BOOLEAN,
                    miscounted : {FALSE}]
        BY <1>4 DEF Quiz!ServeSubmit, QuizInv
    <2>2. srv' = [miscounted |-> FALSE]
        BY <1>2, <1>4 DEF Quiz!ServeSubmit
    <2> QED
        BY <1>4, <2>1, <2>2 DEF Quiz!ServeSubmit, QuizInv
<1>5. CASE Quiz!Submitted
    <2>1. net' = Quiz!NoSubmission /\ srv' = srv
        BY <1>5 DEF Quiz!Submitted
    <2>2. ui' \in QuizPage /\ Len(ui'.questions) =< MaxQuestions
        <3>1. CASE ui.page = "teacher"
            <4>1. ui' = [Quiz!EmptyForm("teacher") EXCEPT !.reloading = TRUE]
                BY <1>5, <3>1 DEF Quiz!Submitted
            <4>2. PICK form : form = Quiz!EmptyForm("teacher")
                OBVIOUS
            <4>3. form \in QuizPage /\ Len(form.questions) = 1
                BY <4>2, EmptyFormIsPage
            <4>4. ui' \in QuizPage /\ ui'.questions = form.questions
                BY <4>1, <4>2, <4>3 DEF QuizPage
            <4>5. Len(ui'.questions) = 1
                BY <4>3, <4>4
            <4> QED
                BY <4>4, <4>5 DEF FormsAssumption
        <3>2. CASE ui.page # "teacher"
            <4>1. ui' \in QuizPage /\ ui'.questions = ui.questions
                BY <1>1, <1>5, <3>2 DEF Quiz!Submitted, QuizPage
            <4> QED
                BY <4>1, DraftKept
        <3> QED
            BY <3>1, <3>2
    <2> QED
        BY <1>2, <2>1, <2>2 DEF QuizInv, Quiz!NoSubmission
<1>6. CASE Quiz!SubmitFails
    <2>1. net' = Quiz!NoSubmission /\ srv' = srv
        BY <1>6 DEF Quiz!SubmitFails
    <2>2. ui' \in QuizPage /\ ui'.questions = ui.questions
        BY <1>1, <1>6 DEF Quiz!SubmitFails, QuizPage
    <2> QED
        BY <1>2, <2>1, <2>2 DEF QuizInv, Quiz!NoSubmission
<1> QED
    BY <1>3, <1>4, <1>5, <1>6

LEMMA QuizKeepsInv ==
    ASSUME FormsAssumption, QuizInv, Quiz!Next PROVE QuizInv'
<1>1. ASSUME NEW n \in Quiz!Number,
             \/ Quiz!TypeQuestion(n) \/ Quiz!RemoveQuestion(n) \/ Quiz!AddOption(n)
             \/ \E i \in DOMAIN ui.questions[n].correct :
                   Quiz!SetCorrect(n, i) \/ Quiz!RemoveOption(n, i)
      PROVE  QuizInv'
    BY <1>1, QuestionsKeepInv, DraftKeepsInv, Zenon
<1>2. CASE Quiz!Open \/ Quiz!Cancel \/ Quiz!TypeTitle \/ Quiz!SubmitInvalid
               \/ Quiz!PageReloads \/ Quiz!Reloaded
    BY <1>2, DialogKeepsInv
<1>3. CASE Quiz!AddQuestion
    BY <1>3, DraftKeepsInv
<1>4. CASE Quiz!Submit \/ Quiz!ServeSubmit \/ Quiz!Submitted \/ Quiz!SubmitFails
    BY <1>4, SubmissionKeepsInv
<1> QED
    BY <1>1, <1>2, <1>3, <1>4, Zenon DEF Quiz!Next

LEMMA QuizProperties == ASSUME QuizInv PROVE Quiz!OneCorrectOption
<1>1. ASSUME NEW n \in Quiz!Number
      PROVE  /\ Quiz!CorrectOptions(ui.questions[n]) = 1
             /\ Len(ui.questions[n].correct) \in Quiz!MinOptions .. Quiz!MaxOptions
    <2>1. ui.questions[n] \in GoodQuestion
        BY QuestionAt DEF Quiz!Number
    <2> QED
        BY <2>1, OneIsCorrect DEF Quiz!MinOptions, Quiz!MaxOptions
<1>2. ~srv.miscounted
    BY DEF QuizInv
<1> QED
    BY <1>1, <1>2 DEF Quiz!OneCorrectOption

-----------------------------------------------------------------------------
(* The pages together.                                                     *)

FormsInv ==
    /\ screen = "login" => LoginInv
    /\ screen = "enrol" => EnrolInv
    /\ screen = "attempt" => AttemptInv
    /\ screen = "quiz" => QuizInv

LEMMA FormsInitially == ASSUME FormsAssumption, Init PROVE FormsInv
<1>1. screen = "login" => Login!Init
    BY DEF Init
<1>2. screen = "enrol" => Enrol!Init
    BY DEF Init
<1>3. screen = "attempt" => Attempt!Init
    BY DEF Init
<1>4. screen = "quiz" => Quiz!Init
    BY DEF Init
<1> QED
    BY <1>1, <1>2, <1>3, <1>4, LoginInit, EnrolInit, AttemptInit, QuizInit DEF FormsInv

LEMMA FormsStep ==
    ASSUME FormsAssumption, FormsInv, [Next]_vars PROVE FormsInv'
<1>1. screen' = screen
    BY DEF Next, vars
<1>2. ASSUME screen = "login" PROVE LoginInv'
    <2>1. CASE Login!Next
        BY <1>2, <2>1, LoginKeepsInv DEF FormsInv
    <2>2. CASE UNCHANGED vars
        BY <1>2, <2>2
        DEF FormsInv, vars, LoginInv, Login!TypeOK, CountedWhenConsumed, OneLocked,
            PendingIsOwn, OneInWindow
    <2>3. Login!Next \/ UNCHANGED vars
        BY <1>2 DEF Next
    <2> QED
        BY <2>1, <2>2, <2>3
<1>3. ASSUME screen = "enrol" PROVE EnrolInv'
    <2>1. CASE Enrol!Next
        BY <1>3, <2>1, EnrolKeepsInv DEF FormsInv
    <2>2. CASE UNCHANGED vars
        BY <1>3, <2>2 DEF FormsInv, vars, EnrolInv
    <2>3. Enrol!Next \/ UNCHANGED vars
        BY <1>3 DEF Next
    <2> QED
        BY <2>1, <2>2, <2>3
<1>4. ASSUME screen = "attempt" PROVE AttemptInv'
    <2>1. CASE Attempt!Next
        BY <1>4, <2>1, AttemptKeepsInv DEF FormsInv
    <2>2. CASE UNCHANGED vars
        BY <1>4, <2>2
        DEF FormsInv, vars, AttemptInv, Attempt!TypeOK, RequestsAreOlder, OneCurrent,
            SavesHaveOptions, EarlierServed, ReadIsStored, ShownAnswered, EarlierAnswered,
            FinishesAreWhole, Current
    <2>3. Attempt!Next \/ UNCHANGED vars
        BY <1>4 DEF Next
    <2> QED
        BY <2>1, <2>2, <2>3
<1>5. ASSUME screen = "quiz" PROVE QuizInv'
    <2>1. CASE Quiz!Next
        BY <1>5, <2>1, QuizKeepsInv DEF FormsInv
    <2>2. CASE UNCHANGED vars
        BY <1>5, <2>2 DEF FormsInv, vars, QuizInv
    <2>3. Quiz!Next \/ UNCHANGED vars
        BY <1>5 DEF Next
    <2> QED
        BY <2>1, <2>2, <2>3
<1> QED
    BY <1>1, <1>2, <1>3, <1>4, <1>5 DEF FormsInv

\* Each page keeps its invariant for every number of its items, codes, members
\* and questions, and whatever order its requests and answers come in.
THEOREM FormsInvariance == Spec => []FormsInv
<1>1. Init => FormsInv
    BY FormsInitially, FormsAssumption
<1>2. FormsInv /\ [Next]_vars => FormsInv'
    BY FormsStep, FormsAssumption
<1> QED
    BY <1>1, <1>2, PTL DEF Spec

\* A code opens one session, however many entries of it are in flight at once
\* (domain.py, verify_otp).
THEOREM CodesOpenOneSession == Spec => []CodeUsedOnce
<1>1. FormsInv => CodeUsedOnce
    BY LoginProperties DEF FormsInv, CodeUsedOnce
<1> QED
    BY <1>1, FormsInvariance, PTL

\* A second code within a cooldown comes only of requests that overlapped
\* (domain.py, request_otp).
THEOREM CooldownsHold == Spec => []OneCodePerCooldown
<1>1. FormsInv => OneCodePerCooldown
    BY LoginProperties DEF FormsInv, OneCodePerCooldown
<1> QED
    BY <1>1, FormsInvariance, PTL

\* Two redirects bring anybody but an administrator to a page that stays
\* (ProtectedRoute.jsx and App.jsx).
THEOREM RedirectsAreFew == Spec => []RedirectsEnd
<1>1. FormsInv => RedirectsEnd
    BY EnrolProperties DEF FormsInv, RedirectsEnd
<1> QED
    BY <1>1, FormsInvariance, PTL

\* However many teachers a class has, it loses the last of them only when two
\* removals overlap (domain.py, remove_member).
THEOREM ClassesKeepATeacher == Spec => []LastTeacherStays
<1>1. FormsInv => LastTeacherStays
    BY EnrolProperties DEF FormsInv, LastTeacherStays
<1> QED
    BY <1>1, FormsInvariance, PTL

\* A choice the attempt page shows is the one that is stored or is being sent
\* (AttemptPage.jsx, selectOption and its roll back).
THEOREM ChoicesAreStored == Spec => []ShownIsStored
<1>1. FormsInv => ShownIsStored
    BY AttemptProperties, FormsAssumption DEF FormsInv, ShownIsStored
<1> QED
    BY <1>1, FormsInvariance, PTL

\* No finish the attempt page sends is refused for an unanswered question
\* (AttemptPage.jsx, goNext and handleFinish).
THEOREM FinishesAreComplete == Spec => []FinishIsComplete
<1>1. FormsInv => FinishIsComplete
    BY AttemptProperties, FormsAssumption DEF FormsInv, FinishIsComplete
<1> QED
    BY <1>1, FormsInvariance, PTL

\* However many questions are added, removed and marked, each has two to four
\* options and one that is correct, and so has each that is sent
\* (TeacherTopicPage.jsx, ClassDetailPage.jsx, ChallengesPage.jsx).
THEOREM QuestionsHaveOneAnswer == Spec => []OneCorrectOption
<1>1. FormsInv => OneCorrectOption
    BY QuizProperties DEF FormsInv, OneCorrectOption
<1> QED
    BY <1>1, FormsInvariance, PTL
=============================================================================
