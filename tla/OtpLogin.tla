------------------------------ MODULE OtpLogin ------------------------------
(***************************************************************************)
(* Signing in with a one-time code: the form that asks for a code and the  *)
(* page that enters it (pages/LoginPage.jsx, pages/VerifyPage.jsx), with   *)
(* AuthService.request_otp and verify_otp (services/domain.py).  Several   *)
(* pages may be open for one login name.  A request for a code is read,    *)
(* delivered, answered and committed in steps of their own: the answer     *)
(* leaves before the commit.  A verification holds its lock from its read  *)
(* to its commit.  Cached keys run out at any time.  MaxCodes bounds the   *)
(* codes ever sent.                                                        *)
(***************************************************************************)
EXTENDS Naturals, FiniteSets

CONSTANTS CodePages, MaxCodes,
          MaxVerify   \* otp_max_verify_attempts

VARIABLES
    ui,    \* what each page shows
    net,   \* the code request and the verification of each page
    srv    \* the codes, the cached counters, what has been issued

vars == <<ui, net, srv>>

Code == 1 .. MaxCodes
Wrong == 0
Nothing == MaxCodes + 1   \* the boxes are not full

TypeOK ==
    /\ ui \in [CodePages -> [view : {"login", "verify", "in"},
                             loading : BOOLEAN, resending : BOOLEAN,
                             cooldown : BOOLEAN,             \* the page's own countdown
                             typed : {Nothing} \cup Code \cup {Wrong}]]
    /\ net \in [CodePages -> [ask : {"none", "sent", "read", "delivered", "answered", "refused"},
                              code : Code \cup {0},
                              verify : {"none", "sent", "locked", "ok", "refused"},
                              guess : Code \cup {Wrong}, seen : Code \cup {0}]]
    /\ srv \in [code : [Code -> {"unused", "pending", "open", "expired", "consumed"}],
                mailed : SUBSET Code,             \* the codes somebody can type
                attempts : [Code -> Nat],         \* attempts_count, as committed
                cooldown : BOOLEAN,               \* otp:cooldown
                \* history: delivered since it ran out, and the pages whose
                \* requests were past the check when the first of them was
                window : SUBSET [code : Code, page : CodePages],
                early : SUBSET CodePages,
                verifies : 0 .. MaxVerify + 1,    \* otp:verify, capped
                issued : [Code -> Nat]]           \* history: sessions a code has opened

Init ==
    /\ ui = [p \in CodePages |-> [view |-> "login", loading |-> FALSE, resending |-> FALSE,
                                  cooldown |-> FALSE, typed |-> Nothing]]
    /\ net = [p \in CodePages |-> [ask |-> "none", code |-> 0,
                                   verify |-> "none", guess |-> Wrong, seen |-> 0]]
    /\ srv = [code |-> [c \in Code |-> "unused"], mailed |-> {},
              attempts |-> [c \in Code |-> 0], cooldown |-> FALSE, window |-> {},
              early |-> {}, verifies |-> 0, issued |-> [c \in Code |-> 0]]

-----------------------------------------------------------------------------
(* The pages. *)

\* handleRegister, handleCodeLogin.
AskCode(p) ==
    /\ ui[p].view = "login" /\ ~ui[p].loading /\ net[p].ask = "none"
    /\ ui' = [ui EXCEPT ![p].loading = TRUE]
    /\ net' = [net EXCEPT ![p].ask = "sent"]
    /\ UNCHANGED srv

\* The boxes and the two buttons of the page a code is entered on.
MayType(p) == ui[p].view = "verify" /\ ~ui[p].loading
MayVerify(p) == MayType(p) /\ ui[p].typed # Nothing
MayResend(p) == ui[p].view = "verify" /\ ~ui[p].cooldown /\ ~ui[p].resending

\* handleResend, disabled while the countdown runs.
Resend(p) ==
    /\ MayResend(p) /\ net[p].ask = "none"
    /\ ui' = [ui EXCEPT ![p].resending = TRUE]
    /\ net' = [net EXCEPT ![p].ask = "sent"]
    /\ UNCHANGED srv

CountdownEnds(p) ==
    /\ ui[p].cooldown
    /\ ui' = [ui EXCEPT ![p].cooldown = FALSE]
    /\ UNCHANGED <<net, srv>>

\* updateDigit, handlePaste: six digits are in the boxes.
Type(p, c) ==
    /\ MayType(p)
    /\ c \in srv.mailed \cup {Wrong}
    /\ ui' = [ui EXCEPT ![p].typed = c]
    /\ UNCHANGED <<net, srv>>

HandleVerify(p) ==
    /\ MayVerify(p)
    /\ ui' = [ui EXCEPT ![p].loading = TRUE]
    /\ net' = [net EXCEPT ![p].verify = "sent", ![p].guess = ui[p].typed]
    /\ UNCHANGED srv

CodeShown(u) == [u EXCEPT !.view = "verify", !.cooldown = TRUE, !.typed = Nothing,
                          !.loading = IF u.view = "login" THEN FALSE ELSE @,
                          !.resending = FALSE]

\* The answer may be taken before its transaction has committed.
AskAnswered(p) ==
    /\ net[p].ask = "delivered"
    /\ ui' = [ui EXCEPT ![p] = IF @.view = "in" THEN @ ELSE CodeShown(@)]
    /\ net' = [net EXCEPT ![p].ask = "answered"]
    /\ UNCHANGED srv

\* The code could not be asked for: the form it was asked from stays.
AskRefused(p) ==
    /\ net[p].ask = "refused"
    /\ ui' = [ui EXCEPT ![p].resending = FALSE,
                        ![p].loading = IF ui[p].view = "login" THEN FALSE ELSE @]
    /\ net' = [net EXCEPT ![p].ask = "none"]
    /\ UNCHANGED srv

VerifyAnswered(p) ==
    /\ net[p].verify \in {"ok", "refused"}
    /\ ui' = IF net[p].verify = "ok"
             THEN [ui EXCEPT ![p].view = "in", ![p].loading = FALSE, ![p].typed = Nothing,
                             ![p].cooldown = FALSE]
             ELSE [ui EXCEPT ![p].loading = FALSE, ![p].typed = Nothing]
    /\ net' = [net EXCEPT ![p].verify = "none", ![p].guess = Wrong, ![p].seen = 0]
    /\ UNCHANGED srv

-----------------------------------------------------------------------------
(* request_otp. *)

Asking == {p \in CodePages : net[p].ask = "read"}

\* The cooldown is read first, and set only after the code is delivered.
AskRead(p) ==
    /\ net[p].ask = "sent"
    /\ net' = [net EXCEPT ![p].ask = IF srv.cooldown THEN "refused" ELSE "read"]
    /\ UNCHANGED <<ui, srv>>

Unused == {c \in Code : srv.code[c] = "unused"}
NextCode == CHOOSE c \in Unused : \A d \in Unused : c =< d

\* Mutant: the cooldown is not set.
CooldownSetBug == srv.cooldown

CooldownSet == TRUE

Deliver(p) ==
    /\ net[p].ask = "read" /\ Unused # {}
    /\ net' = [net EXCEPT ![p].ask = "delivered", ![p].code = NextCode]
    /\ srv' = [srv EXCEPT !.code[NextCode] = "pending", !.mailed = @ \cup {NextCode},
                          !.window = @ \cup {[code |-> NextCode, page |-> p]},
                          !.early = IF srv.window = {} THEN Asking ELSE @,
                          !.cooldown = CooldownSet]
    /\ UNCHANGED ui

\* The delivery raises: nothing is stored and the cooldown is not set.
DeliveryFails(p) ==
    /\ net[p].ask = "read"
    /\ net' = [net EXCEPT ![p].ask = "refused"]
    /\ UNCHANGED <<ui, srv>>

AskCommit(p) ==
    /\ net[p].ask = "answered"
    /\ srv' = [srv EXCEPT !.code[net[p].code] = "open"]
    /\ net' = [net EXCEPT ![p].ask = "none", ![p].code = 0]
    /\ UNCHANGED ui

-----------------------------------------------------------------------------
(* verify_otp. *)

NotConsumed == {c \in Code : srv.code[c] \in {"open", "expired"}}
Newest == IF NotConsumed = {} THEN 0
          ELSE CHOOSE c \in NotConsumed : \A d \in NotConsumed : d =< c

\* Mutant: the verifications of a login name do not wait for each other.
LockFreeBug(p) == net[p].verify = "sent"

LockFree(p) == \A q \in CodePages : net[q].verify # "locked"

\* The counter in the cache is increased first and is not rolled back.
VerifyRead(p) ==
    /\ net[p].verify = "sent"
    /\ IF srv.verifies >= MaxVerify
       THEN /\ net' = [net EXCEPT ![p].verify = "refused"]
            /\ srv' = [srv EXCEPT !.verifies = MaxVerify + 1]
       ELSE /\ LockFree(p)
            /\ net' = [net EXCEPT ![p].verify = "locked", ![p].seen = Newest]
            /\ srv' = [srv EXCEPT !.verifies = @ + 1]
    /\ UNCHANGED ui

Usable(c) == c # 0 /\ srv.code[c] # "expired" /\ srv.attempts[c] < MaxVerify

\* Only the newest open code is compared; the right one is consumed.
Accept(p) ==
    LET c == net[p].seen IN
    /\ net[p].verify = "locked" /\ Usable(c) /\ net[p].guess = c
    /\ net' = [net EXCEPT ![p].verify = "ok"]
    /\ srv' = [srv EXCEPT !.code[c] = "consumed", !.attempts[c] = @ + 1,
                          !.issued[c] = @ + 1, !.verifies = 0]
    /\ UNCHANGED ui

\* The error that is raised rolls the count of attempts back.
Refuse(p) ==
    LET c == net[p].seen IN
    /\ net[p].verify = "locked" /\ ~(Usable(c) /\ net[p].guess = c)
    /\ net' = [net EXCEPT ![p].verify = "refused"]
    /\ UNCHANGED <<ui, srv>>

-----------------------------------------------------------------------------
(* Time. *)

CooldownRunsOut ==
    /\ srv.cooldown
    /\ srv' = [srv EXCEPT !.cooldown = FALSE, !.window = {}, !.early = {}]
    /\ UNCHANGED <<ui, net>>

VerifyCountRunsOut ==
    /\ srv.verifies > 0
    /\ srv' = [srv EXCEPT !.verifies = 0]
    /\ UNCHANGED <<ui, net>>

CodeExpires(c) ==
    /\ srv.code[c] = "open"
    /\ srv' = [srv EXCEPT !.code[c] = "expired"]
    /\ UNCHANGED <<ui, net>>

-----------------------------------------------------------------------------
Next ==
    \/ CooldownRunsOut \/ VerifyCountRunsOut
    \/ \E c \in Code : CodeExpires(c)
    \/ \E p \in CodePages :
          \/ AskCode(p) \/ Resend(p) \/ CountdownEnds(p) \/ HandleVerify(p)
          \/ \E c \in Code \cup {Wrong} : Type(p, c)
          \/ AskAnswered(p) \/ AskRefused(p) \/ VerifyAnswered(p)
          \/ AskRead(p) \/ Deliver(p) \/ DeliveryFails(p) \/ AskCommit(p)
          \/ VerifyRead(p) \/ Accept(p) \/ Refuse(p)

Spec == Init /\ [][Next]_vars

-----------------------------------------------------------------------------
(* Properties. *)

\* A code opens one session, though it may be entered in several pages at once
\* (verify_otp under its advisory lock).
CodeUsedOnce == \A c \in Code : srv.issued[c] =< 1

\* The codes sent within a cooldown are one for each request that was past the
\* check when the first of them was delivered, as the cooldown is set after the
\* delivery: requests that overlap may all get one, a later one gets none.
OneCodePerCooldown ==
    /\ \A d \in srv.window : d.page \in srv.early
    /\ \A d, e \in srv.window : d.page = e.page => d = e
=============================================================================
