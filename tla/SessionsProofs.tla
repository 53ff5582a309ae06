--------------------------- MODULE SessionsProofs ---------------------------
(* What the refresh sessions promise for any number of tabs, requests and  *)
(* tokens, whatever the clients do and the network loses.                  *)
(*                                                                         *)
(* A family has one live token because whoever rotates one has read it     *)
(* live under its lock, and nobody else touches it until the commit: a     *)
(* logout and the revocation of a family wait for the lock.  The second    *)
(* half is about what the two browser clients make of these sessions.      *)
EXTENDS Sessions, FiniteSetTheorems, TLAPS

\* A request's access token was valid only if there was one, and a refresh
\* presents a token.
SoundCall == {c \in Call : c.valid => c.access \in Token}
SoundRefresh == {r \in Refresh : r.pc # "none" => r.token \in Token}

RequestsSound ==
    /\ call \in [Tabs -> [Slots -> SoundCall]]
    /\ ref \in [Tabs -> [Slots -> SoundRefresh]]

\* Tokens are issued in the order of their numbers.
IssuedInOrder ==
    \E k \in 0 .. MaxTokens : \A n \in Token : session[n].state = "free" <=> n > k

\* A family is named by its first token.
FamiliesKnown ==
    \A n \in Token : session[n].state # "free" =>
        session[n].family \in Token /\ session[session[n].family].state # "free"

OneLive ==
    \A m, n \in Token :
        /\ session[m].state = "live" /\ session[n].state = "live"
        /\ session[m].family = session[n].family
        => m = n

ReplacedKnown == \A n \in Token : session[n].state = "rotated" => spent[n] # "no"

\* Whatever a browser stores or presents has been issued.
TokensIssued ==
    /\ store.refresh # NoToken => session[store.refresh].state # "free"
    /\ \A t \in Tabs, s \in Slots :
          /\ ref[t][s].pc # "none" => session[ref[t][s].token].state # "free"
          /\ ref[t][s].issued # NoToken => session[ref[t][s].issued].state # "free"

\* A token that was read live under its lock is live until the commit.
ReadStaysLive ==
    \A t \in Tabs, s \in Slots :
        ref[t][s].pc = "read" /\ ref[t][s].seen = "live" =>
            session[ref[t][s].token].state = "live"

LocksExclude ==
    \A t, u \in Tabs, s, q \in Slots :
        ref[t][s].pc = "read" /\ ref[u][q].pc = "read" /\ ref[t][s].token = ref[u][q].token
        => t = u /\ s = q

IInv ==
    /\ TypeOK /\ RequestsSound
    /\ IssuedInOrder /\ FamiliesKnown /\ OneLive /\ ReplacedKnown
    /\ TokensIssued /\ ReadStaysLive /\ LocksExclude

-----------------------------------------------------------------------------
(* What the steps are made of. *)

\* Before anybody has signed in there are no tokens and no requests.
LEMMA InitIInv == Init => IInv
<1> SUFFICES ASSUME Init PROVE IInv
    OBVIOUS
<1>1. TypeOK
    BY SessionsAssumption
       DEF Init, TypeOK, Store, Tab, Call, Kinds, Refresh, SessionRow, MaybeToken, NoToken,
           EmptyStore, Idle, NoRefresh, Token
<1>2. RequestsSound
    BY SessionsAssumption
       DEF Init, RequestsSound, SoundCall, SoundRefresh, Call, Kinds, Refresh, MaybeToken,
           NoToken, Idle, NoRefresh
<1>3. IssuedInOrder
  <2>1. 0 \in 0 .. MaxTokens /\ \A n \in Token : session[n].state = "free" <=> n > 0
      BY SessionsAssumption DEF Init, Token
  <2> QED
      BY <2>1 DEF IssuedInOrder
<1>4. FamiliesKnown /\ OneLive /\ ReplacedKnown
    BY DEF Init, FamiliesKnown, OneLive, ReplacedKnown
<1>5. TokensIssued /\ ReadStaysLive /\ LocksExclude
    BY DEF Init, TokensIssued, ReadStaysLive, LocksExclude, NoRefresh, EmptyStore, NoToken
<1> QED
    BY <1>1, <1>2, <1>3, <1>4, <1>5 DEF IInv

\* Changing the entry of one slot of one tab.
LEMMA OneSlot ==
    ASSUME NEW D, NEW f \in [Tabs -> [Slots -> D]], NEW t \in Tabs, NEW s \in Slots,
           NEW d \in D, NEW g, g = [f EXCEPT ![t][s] = d]
    PROVE  /\ g \in [Tabs -> [Slots -> D]]
           /\ g[t][s] = d
           /\ \A u \in Tabs, q \in Slots : u # t \/ q # s => g[u][q] = f[u][q]
OBVIOUS

\* Sound requests are requests.
LEMMA SoundTypes ==
    ASSUME RequestsSound'
    PROVE  call' \in [Tabs -> [Slots -> Call]] /\ ref' \in [Tabs -> [Slots -> Refresh]]
<1>1. SoundCall \subseteq Call /\ SoundRefresh \subseteq Refresh
    BY DEF SoundCall, SoundRefresh
<1> QED
    BY <1>1 DEF RequestsSound, SoundCall, SoundRefresh, Token, Call, Refresh, MaybeToken

\* A client's step leaves the sessions alone and takes no lock, so that only its
\* own variables are left to look at.
LEMMA ClientKeeps ==
    ASSUME IInv, session' = session, TypeOK', RequestsSound', TokensIssued',
           \A n \in Token : spent[n] # "no" => spent'[n] # "no",
           \A t \in Tabs, s \in Slots : ref'[t][s].pc = "read" => ref'[t][s] = ref[t][s]
    PROVE  IInv'
<1>1. IssuedInOrder' /\ FamiliesKnown' /\ OneLive' /\ ReplacedKnown'
    BY DEF IInv, IssuedInOrder, FamiliesKnown, OneLive, ReplacedKnown
<1>2. ReadStaysLive' /\ LocksExclude'
    BY DEF IInv, ReadStaysLive, LocksExclude
<1> QED
    BY <1>1, <1>2 DEF IInv

\* The next token is the first that is free.
LEMMA NextIsFree ==
    ASSUME IInv, Free # {}
    PROVE  /\ NextToken \in Token
           /\ session[NextToken].state = "free"
           /\ \A n \in Token : session[n].state = "free" <=> n >= NextToken
<1>1. PICK k \in 0 .. MaxTokens : \A n \in Token : session[n].state = "free" <=> n > k
    BY DEF IInv, IssuedInOrder
<1>2. k + 1 \in Free /\ \A m \in Free : k + 1 =< m
    BY <1>1, SessionsAssumption DEF Free, Token
<1>3. NextToken \in Free /\ \A m \in Free : NextToken =< m
    BY <1>2 DEF NextToken
<1> QED
    BY <1>1, <1>2, <1>3, SessionsAssumption DEF Free, Token

\* What is stored, presented or issued is a token.
LEMMA TokensKnown ==
    ASSUME IInv
    PROVE  /\ store.refresh # NoToken => store.refresh \in Token
           /\ store.access # NoToken => store.access \in Token
           /\ \A u \in Tabs, q \in Slots :
                 /\ ref[u][q].pc # "none" => ref[u][q].token \in Token
                 /\ ref[u][q].issued # NoToken => ref[u][q].issued \in Token
<1>1. \A n \in MaybeToken : n # NoToken => n \in Token
    BY SessionsAssumption DEF MaybeToken, NoToken, Token
<1>2. store.refresh \in MaybeToken /\ store.access \in MaybeToken
    BY DEF IInv, TypeOK, Store
<1>3. \A u \in Tabs, q \in Slots : ref[u][q] \in SoundRefresh
    BY DEF IInv, RequestsSound
<1> QED
    BY <1>1, <1>2, <1>3 DEF SoundRefresh, Refresh

-----------------------------------------------------------------------------
(* The server. *)

\* A logout revokes a token that nobody else has locked.
LEMMA ServeLogoutIInv ==
    ASSUME IInv, NEW t \in Tabs, NEW s \in Slots, ServeLogout(t, s)
    PROVE  IInv'
<1>0. call[t][s] \in SoundCall /\ call[t][s].body \in MaybeToken
    BY DEF IInv, RequestsSound, SoundCall, Call
<1>1. /\ session' \in [Token -> SessionRow]
      /\ \A n \in Token : /\ session'[n].family = session[n].family
                           /\ \/ session'[n] = session[n]
                              \/ /\ n = call[t][s].body /\ session[n].state = "live"
                                 /\ session'[n].state = "revoked"
    BY <1>0 DEF IInv, TypeOK, ServeLogout, RevokeOwn, SessionRow, MaybeToken, NoToken, Token
<1>2. call' \in [Tabs -> [Slots -> SoundCall]]
    BY <1>0 DEF IInv, RequestsSound, ServeLogout, SoundCall, Call
<1>3. TypeOK' /\ RequestsSound'
    BY <1>1, <1>2 DEF IInv, TypeOK, RequestsSound, ServeLogout, SoundCall, fixed
<1>4. IssuedInOrder' /\ FamiliesKnown' /\ OneLive' /\ ReplacedKnown'
    BY <1>1 DEF IInv, IssuedInOrder, FamiliesKnown, OneLive, ReplacedKnown, ServeLogout
<1>5. TokensIssued'
  <2>1. \A n \in Token : session[n].state # "free" => session'[n].state # "free"
      BY <1>1
  <2>2. /\ store.refresh # NoToken => store.refresh \in Token
        /\ \A u \in Tabs, q \in Slots :
              /\ ref[u][q].pc # "none" => ref[u][q].token \in Token
              /\ ref[u][q].issued # NoToken => ref[u][q].issued \in Token
      BY TokensKnown
  <2> QED
      BY <2>1, <2>2 DEF IInv, TokensIssued, ServeLogout
<1>6. ReadStaysLive' /\ LocksExclude'
  <2>1. \A u \in Tabs, q \in Slots : ref[u][q].pc = "read" => ref[u][q].token # call[t][s].body
      BY DEF ServeLogout, Locked
  <2>2. \A u \in Tabs, q \in Slots : ref[u][q].pc = "read" => ref[u][q].token \in Token
      BY DEF IInv, RequestsSound, SoundRefresh
  <2> QED
      BY <1>1, <2>1, <2>2 DEF IInv, ReadStaysLive, LocksExclude, ServeLogout
<1> QED
    BY <1>3, <1>4, <1>5, <1>6 DEF IInv

\* A refresh reads under locks that nobody holds.
LEMMA RefreshReadIInv ==
    ASSUME IInv, NEW t \in Tabs, NEW s \in Slots, RefreshRead(t, s)
    PROVE  IInv'
<1> DEFINE r == ref[t][s]
           seen == session[r.token].state
           family == LiveOf(session[r.token].family)
           read == [r EXCEPT !.pc = "read", !.seen = seen, !.family = family]
<1>0. /\ r \in SoundRefresh /\ r.token \in Token /\ r.pc = "sent" /\ seen # "free"
      /\ session[r.token] \in SessionRow
    BY DEF IInv, TypeOK, RequestsSound, SoundRefresh, TokensIssued, RefreshRead
<1>1. read \in SoundRefresh /\ read.token = r.token /\ read.seen = seen /\ read.issued = r.issued
  <2>1. seen \in {"none", "live", "rotated", "revoked"} /\ family \in SUBSET Token
      BY <1>0 DEF SessionRow, LiveOf
  <2> HIDE DEF family, seen
  <2> QED
      BY <1>0, <2>1 DEF SoundRefresh, Refresh
<1>2. ref' = [ref EXCEPT ![t][s] = read]
    BY DEF RefreshRead, IInv, RequestsSound
<1> HIDE DEF read
<1>3. /\ ref' \in [Tabs -> [Slots -> SoundRefresh]] /\ ref'[t][s] = read
      /\ \A u \in Tabs, q \in Slots : u # t \/ q # s => ref'[u][q] = ref[u][q]
    BY <1>1, <1>2, OneSlot DEF IInv, RequestsSound
<1>4. reuses' \subseteq {"in flight", "kept", "dropped", "lost"}
    BY <1>0 DEF RefreshRead, IInv, TypeOK, ReplacedKnown
<1>5. session' = session /\ spent' = spent /\ UNCHANGED <<fixed, store, tab, call, expired, faults>>
    BY DEF RefreshRead
<1>6. TypeOK' /\ RequestsSound'
  <2>1. RequestsSound'
      BY <1>3, <1>5 DEF IInv, RequestsSound, SoundCall, SoundRefresh
  <2> QED
      BY <2>1, <1>4, <1>5, SoundTypes DEF IInv, TypeOK, fixed
<1>7. IssuedInOrder' /\ FamiliesKnown' /\ OneLive' /\ ReplacedKnown'
    BY <1>5 DEF IInv, IssuedInOrder, FamiliesKnown, OneLive, ReplacedKnown
<1>8. TokensIssued' /\ ReadStaysLive'
    BY <1>0, <1>1, <1>3, <1>5 DEF IInv, TokensIssued, ReadStaysLive
<1>9. LocksExclude'
  <2>1. \A u \in Tabs, q \in Slots : ref[u][q].pc = "read" => ref[u][q].token # r.token
      BY DEF RefreshRead, Locked
  <2> QED
      BY <1>1, <1>3, <2>1, SMTT(30) DEF IInv, LocksExclude
<1> QED
    BY <1>6, <1>7, <1>8, <1>9 DEF IInv

\* What is common to the two ends of a refresh: it gives up its locks, and what
\* is stored under the locks of others stays.
LEMMA CommitKeeps ==
    ASSUME IInv, NEW t \in Tabs, NEW s \in Slots, NEW served \in SoundRefresh,
           ref[t][s].pc = "read", served.pc = "served", served.token = ref[t][s].token,
           served.issued # NoToken => session'[served.issued].state # "free",
           ref' = [ref EXCEPT ![t][s] = served],
           \A m \in Token : session[m].state # "free" => session'[m].state # "free",
           \A m \in Token : session[m].state = "live" /\ session'[m] # session[m] =>
                m = ref[t][s].token \/ ~Locked(m),
           UNCHANGED <<store, call>>
    PROVE  RequestsSound' /\ TokensIssued' /\ ReadStaysLive' /\ LocksExclude'
<1>1. ref[t][s].token \in Token /\ session[ref[t][s].token].state # "free"
    BY TokensKnown DEF IInv, TokensIssued
<1>2. ref \in [Tabs -> [Slots -> SoundRefresh]]
    BY DEF IInv, RequestsSound
<1>3. /\ ref' \in [Tabs -> [Slots -> SoundRefresh]] /\ ref'[t][s] = served
      /\ \A u \in Tabs, q \in Slots : u # t \/ q # s => ref'[u][q] = ref[u][q]
    BY <1>2, OneSlot
<1>4. RequestsSound'
    BY <1>3 DEF IInv, RequestsSound, SoundCall, SoundRefresh
<1>5. TokensIssued'
    BY <1>1, <1>3, TokensKnown DEF IInv, TokensIssued
<1>6. LocksExclude'
    BY <1>3 DEF IInv, LocksExclude
<1>7. ReadStaysLive'
  <2> SUFFICES ASSUME NEW u \in Tabs, NEW q \in Slots,
                      ref'[u][q].pc = "read", ref'[u][q].seen = "live"
               PROVE  session'[ref'[u][q].token].state = "live"
      BY DEF ReadStaysLive
  <2>1. (u # t \/ q # s) /\ ref'[u][q] = ref[u][q]
      BY <1>3
  <2>2. ref[u][q].token \in Token /\ session[ref[u][q].token].state = "live"
      BY <2>1, TokensKnown DEF IInv, ReadStaysLive
  <2>3. ref[u][q].token # ref[t][s].token /\ Locked(ref[u][q].token)
      BY <2>1 DEF IInv, LocksExclude, Locked
  <2> QED
      BY <2>1, <2>2, <2>3
<1> QED
    BY <1>4, <1>5, <1>6, <1>7

\* The token that was live is replaced by the next one.
LEMMA RotateIInv ==
    ASSUME IInv, NEW t \in Tabs, NEW s \in Slots, RefreshCommit(t, s),
           ref[t][s].seen = "live"
    PROVE  IInv'
<1> DEFINE r == ref[t][s]
           n == NextToken
           row == [state |-> "live", family |-> session[r.token].family,
                   fits |-> session[r.token].fits]
<1>1. /\ r \in SoundRefresh /\ r.token \in Token /\ r.pc = "read"
      /\ session[r.token] \in SessionRow /\ session[r.token].state = "live"
  <2>1. r \in SoundRefresh /\ r.pc = "read" /\ r.token \in Token
      BY TokensKnown DEF IInv, RequestsSound, RefreshCommit
  <2> QED
      BY <2>1 DEF IInv, TypeOK, ReadStaysLive
<1>2. Rotate(t, s) /\ UNCHANGED <<fixed, store, tab, call, expired, faults, reuses>>
    BY DEF RefreshCommit
<1>3. /\ n \in Token /\ session[n].state = "free" /\ n # r.token
      /\ \A m \in Token : session[m].state = "free" <=> m >= n
    BY <1>1, <1>2, NextIsFree DEF Rotate
<1> HIDE DEF n
<1>4. /\ session' \in [Token -> SessionRow]
      /\ session'[n] = row
      /\ session'[r.token].state = "rotated"
      /\ session'[r.token].family = session[r.token].family
      /\ \A m \in Token : m # n /\ m # r.token => session'[m] = session[m]
  <2>1. session' = [[session EXCEPT ![n] = row] EXCEPT ![r.token].state = "rotated"]
      BY <1>2 DEF Rotate, IssueTokens, n
  <2>2. row \in SessionRow
      BY <1>1 DEF SessionRow
  <2> QED
      BY <1>1, <1>3, <2>1, <2>2 DEF IInv, TypeOK, SessionRow
<1>5. spent' = [spent EXCEPT ![r.token] = "in flight"]
    BY <1>2 DEF Rotate
<1>6. IssuedInOrder'
  <2>1. \A m \in Token : session'[m].state = "free" <=> m > n
      BY <1>1, <1>3, <1>4, SessionsAssumption DEF Token
  <2>2. n \in 0 .. MaxTokens
      BY <1>3, SessionsAssumption DEF Token
  <2> QED
      BY <2>1, <2>2 DEF IssuedInOrder
<1>7. FamiliesKnown'
    BY <1>1, <1>3, <1>4 DEF IInv, FamiliesKnown
<1>8. OneLive'
    BY <1>1, <1>3, <1>4 DEF IInv, OneLive
<1>9. ReplacedKnown'
  <2>1. \A m \in Token : spent[m] # "no" \/ m = r.token => spent'[m] # "no"
      BY <1>5 DEF IInv, TypeOK
  <2> QED
      BY <1>1, <1>3, <1>4, <2>1 DEF IInv, ReplacedKnown
<1>10. RequestsSound' /\ TokensIssued' /\ ReadStaysLive' /\ LocksExclude'
  <2> DEFINE served == [r EXCEPT !.pc = "served", !.issued = n]
  <2>1. ref' = [ref EXCEPT ![t][s] = served]
      BY <1>2 DEF Rotate, n, IInv, RequestsSound
  <2>2. n \in MaybeToken
      BY <1>3 DEF Token, MaybeToken
  <2>3. /\ served \in SoundRefresh /\ served.token = r.token
        /\ served.pc = "served" /\ served.issued = n
      BY <1>1, <2>2 DEF SoundRefresh, Refresh
  <2> HIDE DEF served
  <2>4. \A m \in Token : session[m].state # "free" => session'[m].state # "free"
      BY <1>1, <1>3, <1>4
  <2>5. \A m \in Token : session[m].state = "live" /\ session'[m] # session[m] => m = r.token
      BY <1>3, <1>4
  <2>6. session'[n].state # "free"
      BY <1>4
  <2> QED
      BY <1>1, <1>2, <2>1, <2>3, <2>4, <2>5, <2>6, CommitKeeps
<1>11. TypeOK'
  <2>1. spent' \in [Token -> {"no", "in flight", "kept", "dropped", "lost"}]
      BY <1>1, <1>5 DEF IInv, TypeOK
  <2> QED
      BY <1>2, <1>4, <1>10, <2>1, SoundTypes DEF IInv, TypeOK, fixed
<1> QED
    BY <1>6, <1>7, <1>8, <1>9, <1>10, <1>11 DEF IInv

\* A family is revoked where nobody else has it locked.
LEMMA RevokeAllIInv ==
    ASSUME IInv, NEW t \in Tabs, NEW s \in Slots, RefreshCommit(t, s),
           ref[t][s].seen # "live"
    PROVE  IInv'
<1> DEFINE r == ref[t][s]
           served == [r EXCEPT !.pc = "served"]
<1>1. /\ r \in SoundRefresh /\ r.pc = "read"
      /\ RevokeAll(t, s) /\ UNCHANGED <<fixed, store, tab, call, expired, faults, reuses>>
    BY DEF IInv, RequestsSound, RefreshCommit
<1>2. /\ session' \in [Token -> SessionRow]
      /\ \A m \in Token :
            \/ session'[m] = session[m]
            \/ /\ m \in r.family /\ session[m].state = "live"
               /\ session'[m].state = "revoked" /\ session'[m].family = session[m].family
    BY <1>1 DEF IInv, TypeOK, RevokeAll, RevokeFamily, SessionRow
<1>3. ref' = [ref EXCEPT ![t][s] = served]
    BY <1>1 DEF RevokeAll, IInv, RequestsSound
<1>4. /\ served \in SoundRefresh /\ served.token = r.token
      /\ served.pc = "served" /\ served.issued = r.issued
    BY <1>1 DEF SoundRefresh, Refresh
<1> HIDE DEF served
<1>5. \A m \in Token : session[m].state = "live" /\ session'[m] # session[m] =>
          m = r.token \/ ~Locked(m)
    BY <1>1, <1>2 DEF RevokeAll
<1>6. \A m \in Token : session[m].state # "free" <=> session'[m].state # "free"
    BY <1>2
<1>7. r.issued # NoToken => session'[r.issued].state # "free"
    BY <1>6, TokensKnown DEF IInv, TokensIssued
<1>8. RequestsSound' /\ TokensIssued' /\ ReadStaysLive' /\ LocksExclude'
    BY <1>1, <1>3, <1>4, <1>5, <1>6, <1>7, CommitKeeps
<1>9. IssuedInOrder' /\ FamiliesKnown' /\ OneLive' /\ ReplacedKnown'
  <2>1. spent' = spent
      BY <1>1 DEF RevokeAll
  <2>2. \A m \in Token : session'[m].family = session[m].family
      BY <1>2
  <2>3. \A m \in Token : session'[m].state \in {"live", "rotated"} =>
            session'[m].state = session[m].state
      BY <1>2
  <2>4. IssuedInOrder' /\ FamiliesKnown'
      BY <1>6, <2>2 DEF IInv, IssuedInOrder, FamiliesKnown
  <2> QED
      BY <2>1, <2>2, <2>3, <2>4 DEF IInv, OneLive, ReplacedKnown
<1>10. TypeOK'
    BY <1>1, <1>2, <1>8, SoundTypes DEF IInv, TypeOK, fixed, RevokeAll
<1> QED
    BY <1>8, <1>9, <1>10 DEF IInv

\* Time passes.
LEMMA ExpireIInv ==
    ASSUME IInv, Expire
    PROVE  IInv'
<1>1. expired' \in MaybeToken
  <2>1. expired \in MaybeToken /\ expired < MaxTokens /\ expired' = expired + 1
      BY DEF IInv, TypeOK, Expire
  <2> QED
      BY <2>1, SessionsAssumption DEF MaybeToken
<1>2. session' = session /\ spent' = spent /\ UNCHANGED <<fixed, store, tab, call, ref>>
    BY DEF Expire
<1>3. TypeOK' /\ RequestsSound'
    BY <1>1, <1>2 DEF IInv, TypeOK, RequestsSound, Expire, fixed, SoundCall, SoundRefresh
<1>4. TokensIssued'
    BY <1>2 DEF IInv, TokensIssued
<1> QED
    BY <1>2, <1>3, <1>4, ClientKeeps

-----------------------------------------------------------------------------
(* The clients. *)

\* The records the clients build.
LEMMA ClientTypes ==
    ASSUME IInv, NEW t \in Tabs, NEW s \in Slots
    PROVE  /\ EmptyStore \in Store
           /\ \A n \in Token : StoreTokens(n) \in Store
           /\ \A n \in Token : [store EXCEPT !.access = n] \in Store
           /\ SignedOut(t) \in [Tabs -> Tab]
           /\ \A n \in MaybeToken, again \in BOOLEAN : SignedIn(t, n, again) \in [Tabs -> Tab]
           /\ Idle \in SoundCall /\ NoRefresh \in SoundRefresh
           /\ Done(t, s) \in [Tabs -> [Slots -> SoundCall]]
           /\ [ref EXCEPT ![t][s] = NoRefresh] \in [Tabs -> [Slots -> SoundRefresh]]
<1>1. NoToken \in MaybeToken /\ \A n \in Token : n \in MaybeToken
    BY SessionsAssumption DEF NoToken, MaybeToken, Token
<1>2. /\ EmptyStore \in Store
      /\ \A n \in Token : StoreTokens(n) \in Store
      /\ \A n \in Token : [store EXCEPT !.access = n] \in Store
    BY <1>1 DEF IInv, TypeOK, Store, EmptyStore, StoreTokens
<1>3. /\ SignedOut(t) \in [Tabs -> Tab]
      /\ \A n \in MaybeToken, again \in BOOLEAN : SignedIn(t, n, again) \in [Tabs -> Tab]
  <2>1. tab \in [Tabs -> Tab] /\ tab[t] \in Tab
      BY DEF IInv, TypeOK
  <2>2. \A d \in Tab : [tab EXCEPT ![t] = d] \in [Tabs -> Tab]
      BY <2>1
  <2>3. SignedOut(t) \in [Tabs -> Tab]
    <3> DEFINE d == [tab[t] EXCEPT !.status = "guest", !.family = NoToken, !.token = NoToken]
    <3>1. d \in Tab
        BY <1>1, <2>1 DEF Tab
    <3>2. SignedOut(t) = [tab EXCEPT ![t] = d]
        BY <2>1 DEF SignedOut
    <3> HIDE DEF d
    <3> QED
        BY <2>2, <3>1, <3>2
  <2>4. ASSUME NEW n \in MaybeToken, NEW again \in BOOLEAN
        PROVE  SignedIn(t, n, again) \in [Tabs -> Tab]
    <3> DEFINE d == [tab[t] EXCEPT !.status = "signed", !.family = n, !.restored = again]
    <3>1. d \in Tab
        BY <1>1, <2>1, <2>4 DEF Tab
    <3>2. SignedIn(t, n, again) = [tab EXCEPT ![t] = d]
        BY <2>1 DEF SignedIn
    <3> HIDE DEF d
    <3> QED
        BY <2>2, <3>1, <3>2
  <2> QED
      BY <2>3, <2>4
<1>4. Idle \in SoundCall /\ NoRefresh \in SoundRefresh
    BY <1>1 DEF Idle, NoRefresh, SoundCall, SoundRefresh, Call, Kinds, Refresh
<1>5. /\ Done(t, s) \in [Tabs -> [Slots -> SoundCall]]
      /\ [ref EXCEPT ![t][s] = NoRefresh] \in [Tabs -> [Slots -> SoundRefresh]]
    BY <1>4 DEF IInv, RequestsSound, Done
<1> QED
    BY <1>2, <1>3, <1>4, <1>5

\* A token that is still valid is one that was issued.
LEMMA ValidIsToken ==
    ASSUME IInv, NEW a \in MaybeToken, Valid(a)
    PROVE  a \in Token
<1>1. expired \in MaybeToken /\ a > expired
    BY DEF IInv, TypeOK, Valid
<1> QED
    BY <1>1, SessionsAssumption DEF MaybeToken, Token

\* What a client sends is sound.
LEMMA NewCallSound ==
    ASSUME IInv, NEW kind \in Kinds
    PROVE  NewCall(kind) \in SoundCall
<1> DEFINE access == IF kind = "login" THEN NoToken ELSE store.access
           body == IF kind = "logout" THEN store.refresh ELSE NoToken
           valid == kind # "login" /\ Valid(store.access)
<1>1. store.access \in MaybeToken /\ store.refresh \in MaybeToken /\ NoToken \in MaybeToken
  <2>1. store.access \in MaybeToken /\ store.refresh \in MaybeToken
      BY DEF IInv, TypeOK, Store
  <2> QED
      BY <2>1, SessionsAssumption DEF MaybeToken, NoToken
<1>2. access \in MaybeToken /\ body \in MaybeToken /\ valid \in BOOLEAN
    BY <1>1 DEF Valid
<1>3. valid => access \in Token
    BY <1>1, ValidIsToken
<1>4. NewCall(kind) = [kind |-> kind, pc |-> "sent", again |-> FALSE,
                       access |-> access, body |-> body, valid |-> valid]
    BY DEF NewCall
<1> HIDE DEF access, body, valid
<1> QED
    BY <1>2, <1>3, <1>4 DEF SoundCall, Call

\* A step of a client: the sessions stay, a refresh token it stores has been
\* issued, and a refresh it starts presents the one it stored.
LEMMA ClientStep ==
    ASSUME IInv, UNCHANGED <<fixed, session, expired, reuses>>,
           store' \in Store, tab' \in [Tabs -> Tab], faults' \in Nat,
           call' \in [Tabs -> [Slots -> SoundCall]],
           ref' \in [Tabs -> [Slots -> SoundRefresh]],
           spent' \in [Token -> {"no", "in flight", "kept", "dropped", "lost"}],
           \A n \in Token : spent[n] # "no" => spent'[n] # "no",
           store'.refresh # NoToken => session[store'.refresh].state # "free",
           \A t \in Tabs, s \in Slots :
              \/ ref'[t][s] = ref[t][s]
              \/ ref'[t][s] = NoRefresh
              \/ /\ ref'[t][s].pc = "sent" /\ ref'[t][s].issued = NoToken
                 /\ store.refresh # NoToken /\ ref'[t][s].token = store.refresh
    PROVE  IInv'
<1>1. RequestsSound'
    BY DEF RequestsSound, SoundCall, SoundRefresh
<1>2. TypeOK'
    BY <1>1, SoundTypes DEF IInv, TypeOK, fixed
<1>3. NoRefresh.pc = "none" /\ NoRefresh.issued = NoToken
    BY DEF NoRefresh
<1>4. TokensIssued'
  <2>1. session' = session
      OBVIOUS
  <2>2. ASSUME NEW t \in Tabs, NEW s \in Slots
        PROVE  /\ ref'[t][s].pc # "none" => session[ref'[t][s].token].state # "free"
               /\ ref'[t][s].issued # NoToken => session[ref'[t][s].issued].state # "free"
    <3>1. CASE ref'[t][s] = ref[t][s]
        BY <3>1 DEF IInv, TokensIssued
    <3>2. CASE ref'[t][s] = NoRefresh
        BY <1>3, <3>2
    <3>3. CASE /\ ref'[t][s].issued = NoToken
               /\ store.refresh # NoToken /\ ref'[t][s].token = store.refresh
        BY <3>3 DEF IInv, TokensIssued
    <3> QED
        BY <3>1, <3>2, <3>3
  <2> QED
      BY <2>1, <2>2 DEF TokensIssued
<1>5. \A t \in Tabs, s \in Slots : ref'[t][s].pc = "read" => ref'[t][s] = ref[t][s]
    BY <1>3
<1> QED
    BY <1>1, <1>2, <1>4, <1>5, ClientKeeps

\* A step that starts no refresh and ends none.
LEMMA ClientAsks ==
    ASSUME IInv, UNCHANGED <<fixed, session, expired, reuses, ref, spent>>,
           tab' \in [Tabs -> Tab], faults' \in Nat,
           call' \in [Tabs -> [Slots -> SoundCall]],
           store' \in Store, store'.refresh \in {NoToken, store.refresh}
    PROVE  IInv'
<1>1. ref' \in [Tabs -> [Slots -> SoundRefresh]]
    BY DEF IInv, RequestsSound
<1>2. spent' \in [Token -> {"no", "in flight", "kept", "dropped", "lost"}]
    BY DEF IInv, TypeOK
<1>3. store'.refresh # NoToken => session[store'.refresh].state # "free"
    BY DEF IInv, TokensIssued
<1> QED
    BY <1>1, <1>2, <1>3, ClientStep

\* A page reads, and the two forms are sent.
LEMMA AsksIInv ==
    ASSUME IInv, NEW t \in Tabs, NEW s \in Slots,
           Read(t, s) \/ SubmitLogin(t, s) \/ SubmitLogout(t, s)
    PROVE  IInv'
<1>1. PICK kind \in Kinds : call' = [call EXCEPT ![t][s] = NewCall(kind)]
    BY DEF Read, SubmitLogin, SubmitLogout, Start, Kinds
<1>2. call' \in [Tabs -> [Slots -> SoundCall]]
    BY <1>1, NewCallSound, OneSlot DEF IInv, RequestsSound
<1>3. tab' \in [Tabs -> Tab]
  <2>1. tab' = tab \/ tab' = [tab EXCEPT ![t].status = "loading"]
      BY DEF Read, SubmitLogin, SubmitLogout
  <2>2. tab \in [Tabs -> Tab] /\ [tab[t] EXCEPT !.status = "loading"] \in Tab
      BY DEF IInv, TypeOK, Tab
  <2> QED
      BY <2>1, <2>2
<1>4. store' = store /\ store \in Store /\ faults' = faults /\ faults \in Nat
    BY DEF Read, SubmitLogin, SubmitLogout, serverVars, IInv, TypeOK
<1>5. UNCHANGED <<fixed, session, expired, reuses, ref, spent>>
    BY DEF Read, SubmitLogin, SubmitLogout, serverVars
<1> QED
    BY <1>2, <1>3, <1>4, <1>5, ClientAsks

\* A page is opened: what it abandons is forgotten.
LEMMA LoadIInv ==
    ASSUME IInv, NEW t \in Tabs, NEW s \in Slots, Load(t, s)
    PROVE  IInv'
<1>1. store' = store /\ store \in Store /\ store.access \in MaybeToken
    BY DEF Load, IInv, TypeOK, Store
<1>2. faults' \in Nat
  <2>1. faults \in Nat /\ (faults' = faults \/ Fault)
      BY DEF Load, IInv, TypeOK
  <2> QED
      BY <2>1 DEF Fault
<1>3. tab' \in [Tabs -> Tab]
  <2> DEFINE d == [status |-> IF store.access # NoToken THEN "loading" ELSE "guest",
                   family |-> NoToken, token |-> store.access, restored |-> TRUE]
  <2>1. d \in Tab
      BY <1>1, SessionsAssumption DEF Tab, MaybeToken, NoToken
  <2>2. tab' = [tab EXCEPT ![t] = d]
      BY DEF Load
  <2> HIDE DEF d
  <2> QED
      BY <2>1, <2>2 DEF IInv, TypeOK
<1>4. call' \in [Tabs -> [Slots -> SoundCall]]
  <2>1. NewCall("me") \in SoundCall /\ Idle \in SoundCall
      BY NewCallSound, ClientTypes DEF Kinds
  <2> QED
      BY <2>1 DEF Load, IInv, RequestsSound
<1>5. /\ ref' \in [Tabs -> [Slots -> SoundRefresh]]
      /\ \A u \in Tabs, q \in Slots : ref'[u][q] = ref[u][q] \/ ref'[u][q] = NoRefresh
  <2>1. NoRefresh \in SoundRefresh /\ ref \in [Tabs -> [Slots -> SoundRefresh]]
      BY ClientTypes DEF IInv, RequestsSound
  <2> QED
      BY <2>1 DEF Load
<1>6. /\ spent' \in [Token -> {"no", "in flight", "kept", "dropped", "lost"}]
      /\ \A n \in Token : spent[n] # "no" => spent'[n] # "no"
    BY DEF Load, IInv, TypeOK
<1>7. UNCHANGED <<fixed, session, expired, reuses>>
    BY DEF Load
<1>8. store'.refresh # NoToken => session[store'.refresh].state # "free"
    BY <1>1 DEF IInv, TokensIssued
<1> QED
    BY <1>1, <1>2, <1>3, <1>4, <1>5, <1>6, <1>7, <1>8, ClientStep

\* Whatever is made of an answer, a tab stores no new refresh token.
LEMMA Settles ==
    ASSUME IInv, NEW t \in Tabs, NEW s \in Slots, NEW outcome,
           outcome = "ok" /\ call[t][s].kind = "me" => call[t][s].access \in Token,
           \/ StudentSettles(t, s, outcome)
           \/ PortalSettles(t, s, outcome)
           \/ PortalRetried(t, s, outcome)
    PROVE  /\ tab' \in [Tabs -> Tab] /\ call' \in [Tabs -> [Slots -> SoundCall]]
           /\ store' \in Store /\ store'.refresh \in {NoToken, store.refresh}
<1> DEFINE a == call[t][s].access
<1>1. /\ store \in Store /\ tab \in [Tabs -> Tab] /\ tab[t].restored \in BOOLEAN
      /\ \A n \in Token : session[n].family \in MaybeToken
    BY DEF IInv, TypeOK, Tab, SessionRow
<1>2. /\ EmptyStore \in Store /\ EmptyStore.refresh = NoToken
      /\ SignedOut(t) \in [Tabs -> Tab]
      /\ Done(t, s) \in [Tabs -> [Slots -> SoundCall]]
    BY ClientTypes DEF EmptyStore
<1>3. ASSUME a \in Token, NEW again \in BOOLEAN
      PROVE  SignedIn(t, session[a].family, again) \in [Tabs -> Tab]
    BY <1>1, <1>3, ClientTypes
<1>4. call' = Done(t, s)
    BY DEF StudentSettles, StudentMe, StudentData, Logout, PortalSettles, PortalMe, PortalRetried
<1>5. store' \in {store, EmptyStore}
    BY DEF StudentSettles, StudentMe, StudentData, Logout, PortalSettles, PortalMe, PortalRetried
<1>6. tab' \in [Tabs -> Tab]
  <2>1. CASE StudentSettles(t, s, outcome)
    <3>1. CASE outcome = "ok" /\ call[t][s].kind = "me"
        BY <1>1, <1>2, <1>3, <2>1, <3>1 DEF StudentSettles, StudentMe
    <3>2. CASE ~(outcome = "ok" /\ call[t][s].kind = "me")
        BY <1>1, <1>2, <2>1, <3>2 DEF StudentSettles, StudentMe, StudentData, Logout
    <3> QED
        BY <3>1, <3>2
  <2>2. CASE PortalSettles(t, s, outcome)
    <3>1. CASE outcome = "ok" /\ call[t][s].kind = "me"
        BY <1>1, <1>2, <1>3, <2>2, <3>1 DEF PortalSettles, PortalMe
    <3>2. CASE ~(outcome = "ok" /\ call[t][s].kind = "me")
        BY <1>1, <1>2, <2>2, <3>2 DEF PortalSettles, PortalMe, Logout
    <3> QED
        BY <3>1, <3>2
  <2>3. CASE PortalRetried(t, s, outcome)
      BY <1>1, <2>3 DEF PortalRetried
  <2> QED
      BY <2>1, <2>2, <2>3
<1> QED
    BY <1>1, <1>2, <1>4, <1>5, <1>6

\* Only a token that was valid is answered with its user.
LEMMA OkIsSound ==
    ASSUME IInv, NEW t \in Tabs, NEW s \in Slots,
           "ok" \in Outcomes(call[t][s]), call[t][s].kind = "me"
    PROVE  call[t][s].access \in Token
<1>1. call[t][s] \in SoundCall
    BY DEF IInv, RequestsSound
<1>2. call[t][s].valid
    BY DEF Outcomes
<1> QED
    BY <1>1, <1>2 DEF SoundCall

\* A request waits for a refresh, its own or another's.
LEMMA WaitIInv ==
    ASSUME IInv, NEW t \in Tabs, NEW s \in Slots,
           JoinRefresh(t, s) \/ StartRefresh(t, s),
           UNCHANGED fixed, UNCHANGED serverVars
    PROVE  IInv'
<1> DEFINE c == [call[t][s] EXCEPT !.pc = "waiting"]
           r == [NoRefresh EXCEPT !.pc = "sent", !.token = store.refresh]
<1>1. /\ UNCHANGED <<fixed, session, expired, reuses, faults, spent, store, tab>>
      /\ store \in Store /\ tab \in [Tabs -> Tab] /\ faults \in Nat
      /\ spent \in [Token -> {"no", "in flight", "kept", "dropped", "lost"}]
    BY DEF JoinRefresh, StartRefresh, serverVars, IInv, TypeOK
<1>2. c \in SoundCall
  <2>1. call[t][s] \in SoundCall
      BY DEF IInv, RequestsSound
  <2> QED
      BY <2>1 DEF SoundCall, Call
<1>3. call' = [call EXCEPT ![t][s] = c]
  <2>1. call' = [call EXCEPT ![t][s].pc = "waiting"]
      BY DEF JoinRefresh, StartRefresh
  <2> QED
      BY <2>1 DEF IInv, RequestsSound
<1> HIDE DEF c
<1>4. call' \in [Tabs -> [Slots -> SoundCall]]
    BY <1>2, <1>3, OneSlot DEF IInv, RequestsSound
<1>5. store.refresh # NoToken => session[store.refresh].state # "free"
    BY DEF IInv, TokensIssued
<1>6. CASE JoinRefresh(t, s)
  <2>1. ref' = ref /\ ref' \in [Tabs -> [Slots -> SoundRefresh]]
      BY <1>6 DEF JoinRefresh, IInv, RequestsSound
  <2> QED
      BY <1>1, <1>4, <1>5, <2>1, ClientStep
<1>7. CASE StartRefresh(t, s)
  <2>1. /\ NoRefresh \in Refresh /\ NoRefresh.issued = NoToken
        /\ store.refresh # NoToken /\ store.refresh \in Token
      BY <1>7, ClientTypes, TokensKnown DEF SoundRefresh, NoRefresh, StartRefresh
  <2>2. r \in SoundRefresh /\ r.pc = "sent" /\ r.token = store.refresh /\ r.issued = NoToken
    <3>1. store.refresh \in MaybeToken
        BY DEF IInv, TypeOK, Store
    <3> QED
        BY <2>1, <3>1 DEF SoundRefresh, Refresh
  <2>3. ref' = [ref EXCEPT ![t][s] = r]
      BY <1>7 DEF StartRefresh
  <2> HIDE DEF r
  <2>4. /\ ref' \in [Tabs -> [Slots -> SoundRefresh]] /\ ref'[t][s] = r
        /\ \A u \in Tabs, q \in Slots : u # t \/ q # s => ref'[u][q] = ref[u][q]
      BY <2>2, <2>3, OneSlot DEF IInv, RequestsSound
  <2>5. \A u \in Tabs, q \in Slots :
            \/ ref'[u][q] = ref[u][q]
            \/ /\ ref'[u][q].pc = "sent" /\ ref'[u][q].issued = NoToken
               /\ store.refresh # NoToken /\ ref'[u][q].token = store.refresh
      BY <2>1, <2>2, <2>4
  <2> QED
      BY <1>1, <1>4, <1>5, <2>4, <2>5, ClientStep
<1> QED
    BY <1>6, <1>7

\* An answer, in either client.
LEMMA AnswerIInv ==
    ASSUME IInv, NEW t \in Tabs, NEW s \in Slots, StudentAnswer(t, s) \/ PortalAnswer(t, s)
    PROVE  IInv'
<1>1. /\ UNCHANGED <<fixed, session, expired, reuses, spent, faults>>
      /\ UNCHANGED fixed /\ UNCHANGED serverVars /\ faults \in Nat
    BY DEF StudentAnswer, PortalAnswer, serverVars, IInv, TypeOK
<1>2. PICK outcome \in Outcomes(call[t][s]) :
          \/ JoinRefresh(t, s) \/ StartRefresh(t, s)
          \/ Logout(t, s) /\ UNCHANGED ref
          \/ /\ UNCHANGED ref
             /\ \/ StudentSettles(t, s, outcome)
                \/ PortalSettles(t, s, outcome)
                \/ PortalRetried(t, s, outcome)
    BY DEF StudentAnswer, PortalAnswer, Unauthorized
<1>3. CASE JoinRefresh(t, s) \/ StartRefresh(t, s)
    BY <1>1, <1>3, WaitIInv
<1>4. CASE Logout(t, s) /\ UNCHANGED ref
  <2>1. /\ tab' \in [Tabs -> Tab] /\ call' \in [Tabs -> [Slots -> SoundCall]]
        /\ store' \in Store /\ store'.refresh \in {NoToken, store.refresh}
      BY <1>4, ClientTypes DEF Logout, EmptyStore
  <2> QED
      BY <1>1, <1>4, <2>1, ClientAsks
<1>5. CASE /\ UNCHANGED ref
           /\ \/ StudentSettles(t, s, outcome)
              \/ PortalSettles(t, s, outcome)
              \/ PortalRetried(t, s, outcome)
  <2>1. outcome = "ok" /\ call[t][s].kind = "me" => call[t][s].access \in Token
      BY <1>2, OkIsSound
  <2>2. /\ tab' \in [Tabs -> Tab] /\ call' \in [Tabs -> [Slots -> SoundCall]]
        /\ store' \in Store /\ store'.refresh \in {NoToken, store.refresh}
      BY <1>5, <2>1, Settles
  <2> QED
      BY <1>1, <1>5, <2>2, ClientAsks
<1> QED
    BY <1>2, <1>3, <1>4, <1>5

\* A refresh is over: what became of its answer is noted.
LEMMA EndsRefresh ==
    ASSUME IInv, NEW t \in Tabs, NEW s \in Slots, ref[t][s].pc # "none",
           NEW fate \in {"kept", "dropped", "lost"},
           UNCHANGED <<fixed, session, expired, reuses>>,
           store' \in Store, tab' \in [Tabs -> Tab], faults' \in Nat,
           store'.refresh # NoToken => session[store'.refresh].state # "free",
           call' \in [Tabs -> [Slots -> SoundCall]],
           ref' = [ref EXCEPT ![t][s] = NoRefresh],
           spent' = spent \/ spent' = [spent EXCEPT ![ref[t][s].token] = fate]
    PROVE  IInv'
<1>1. /\ ref' \in [Tabs -> [Slots -> SoundRefresh]]
      /\ \A u \in Tabs, q \in Slots : ref'[u][q] = ref[u][q] \/ ref'[u][q] = NoRefresh
  <2>1. NoRefresh \in SoundRefresh
      BY ClientTypes
  <2> QED
      BY <2>1, OneSlot DEF IInv, RequestsSound
<1>2. /\ spent' \in [Token -> {"no", "in flight", "kept", "dropped", "lost"}]
      /\ \A n \in Token : spent[n] # "no" => spent'[n] # "no"
    BY DEF IInv, TypeOK
<1> QED
    BY <1>1, <1>2, ClientStep

\* The second try of a request carries the new access token.
LEMMA AgainSound ==
    ASSUME IInv, NEW c \in SoundCall, NEW n \in Token
    PROVE  [c EXCEPT !.pc = "sent", !.again = TRUE, !.access = n, !.valid = Valid(n)]
               \in SoundCall
<1>1. n \in MaybeToken /\ Valid(n) \in BOOLEAN
    BY SessionsAssumption DEF MaybeToken, Token, Valid
<1> DEFINE v == Valid(n)
<1> HIDE DEF v
<1>2. v \in BOOLEAN
    BY <1>1 DEF v
<1>3. [c EXCEPT !.pc = "sent", !.again = TRUE, !.access = n, !.valid = v] \in SoundCall
    BY <1>1, <1>2 DEF SoundCall, Call
<1> QED
    BY <1>3 DEF v

\* A refresh succeeds: the student client keeps both tokens, the portal one.
LEMMA RefreshedIInv ==
    ASSUME IInv, NEW t \in Tabs, NEW s \in Slots,
           StudentRefreshed(t, s) \/ PortalRefreshed(t, s)
    PROVE  IInv'
<1> DEFINE n == ref[t][s].issued
           again(q) == [call[t][q] EXCEPT !.pc = "sent", !.again = TRUE,
                                          !.access = n, !.valid = Valid(n)]
<1>1. /\ ref[t][s].pc # "none" /\ ref' = [ref EXCEPT ![t][s] = NoRefresh]
      /\ UNCHANGED <<fixed, session, expired, reuses>>
      /\ tab' = tab /\ faults' = faults
      /\ \/ spent' = [spent EXCEPT ![ref[t][s].token] = "kept"]
         \/ spent' = [spent EXCEPT ![ref[t][s].token] = "dropped"]
    BY DEF StudentRefreshed, PortalRefreshed
<1>2. n \in Token /\ session[n].state # "free"
    BY TokensKnown DEF IInv, TokensIssued, StudentRefreshed, PortalRefreshed
<1>3. tab' \in [Tabs -> Tab] /\ faults' \in Nat
    BY <1>1 DEF IInv, TypeOK
<1>4. \A q \in Slots : call[t][q] \in SoundCall /\ again(q) \in SoundCall
    BY <1>2, AgainSound DEF IInv, RequestsSound
<1>5. /\ store' \in Store /\ store'.refresh \in {n, store.refresh}
      /\ call' \in [Tabs -> [Slots -> SoundCall]]
  <2>1. CASE StudentRefreshed(t, s)
    <3>1. store' = StoreTokens(n)
        BY <2>1 DEF StudentRefreshed
    <3>2. call' = [call EXCEPT ![t] =
                     [q \in Slots |-> IF q \in Waiting(t) THEN again(q) ELSE call[t][q]]]
        BY <2>1 DEF StudentRefreshed
    <3> HIDE DEF again
    <3>3. call' \in [Tabs -> [Slots -> SoundCall]]
        BY <1>4, <3>2 DEF IInv, RequestsSound
    <3> QED
        BY <1>2, <3>1, <3>3, ClientTypes DEF StoreTokens
  <2>2. CASE PortalRefreshed(t, s)
    <3>1. store' = [store EXCEPT !.access = n]
        BY <2>2 DEF PortalRefreshed, PortalKeeps
    <3>2. store' \in Store /\ store'.refresh = store.refresh
      <4>1. store \in Store
          BY DEF IInv, TypeOK
      <4> QED
          BY <1>2, <3>1, <4>1, ClientTypes DEF Store
    <3>3. call' = [call EXCEPT ![t][s] = again(s)]
        BY <2>2 DEF PortalRefreshed, IInv, RequestsSound
    <3> HIDE DEF again
    <3>4. call' \in [Tabs -> [Slots -> SoundCall]]
        BY <1>4, <3>3, OneSlot DEF IInv, RequestsSound
    <3> QED
        BY <3>2, <3>4
  <2> QED
      BY <2>1, <2>2
<1>6. store'.refresh # NoToken => session[store'.refresh].state # "free"
    BY <1>2, <1>5 DEF IInv, TokensIssued
<1>7. CASE spent' = [spent EXCEPT ![ref[t][s].token] = "kept"]
    BY <1>1, <1>3, <1>5, <1>6, <1>7, EndsRefresh
<1>8. CASE spent' = [spent EXCEPT ![ref[t][s].token] = "dropped"]
    BY <1>1, <1>3, <1>5, <1>6, <1>8, EndsRefresh
<1> QED
    BY <1>1, <1>7, <1>8

\* The requests that wait are given up with the session.
LEMMA GiveUpTypes ==
    ASSUME IInv, NEW t \in Tabs, NEW s \in Slots, GiveUp(t)
    PROVE  /\ store' = EmptyStore /\ tab' \in [Tabs -> Tab]
           /\ call' \in [Tabs -> [Slots -> SoundCall]]
<1>1. Idle \in SoundCall
    BY ClientTypes
<1>2. call' \in [Tabs -> [Slots -> SoundCall]]
    BY <1>1 DEF GiveUp, IInv, RequestsSound
<1> QED
    BY <1>2, ClientTypes DEF GiveUp

\* A refresh is refused or lost.
LEMMA RefreshFailsIInv ==
    ASSUME IInv, NEW t \in Tabs, NEW s \in Slots,
           StudentRefused(t, s) \/ PortalRefused(t, s) \/ LoseRefresh(t, s)
    PROVE  IInv'
<1>1. /\ ref[t][s].pc # "none" /\ ref' = [ref EXCEPT ![t][s] = NoRefresh]
      /\ UNCHANGED <<fixed, session, expired, reuses>>
      /\ spent' = spent \/ spent' = [spent EXCEPT ![ref[t][s].token] = "lost"]
    BY DEF StudentRefused, PortalRefused, LoseRefresh, serverVars
<1>2. faults' \in Nat
  <2>1. faults \in Nat /\ (faults' = faults \/ Fault)
      BY DEF StudentRefused, PortalRefused, LoseRefresh, serverVars, IInv, TypeOK
  <2> QED
      BY <2>1 DEF Fault
<1>3. /\ tab' \in [Tabs -> Tab] /\ call' \in [Tabs -> [Slots -> SoundCall]]
      /\ store' = EmptyStore \/ store' = store
  <2>1. CASE GiveUp(t)
      BY <2>1, GiveUpTypes
  <2>2. CASE call' = Done(t, s) /\ tab' = tab /\ (store' = EmptyStore \/ store' = store)
      BY <2>2, ClientTypes DEF IInv, TypeOK
  <2> QED
      BY <2>1, <2>2 DEF StudentRefused, PortalRefused, LoseRefresh
<1>4. store' \in Store /\ (store'.refresh # NoToken => session[store'.refresh].state # "free")
  <2>1. EmptyStore \in Store /\ EmptyStore.refresh = NoToken
      BY ClientTypes DEF EmptyStore
  <2> QED
    <3>1. CASE store' = EmptyStore
        BY <2>1, <3>1 DEF NoToken
    <3>2. CASE store' = store
        BY <3>2 DEF IInv, TypeOK, TokensIssued
    <3> QED
        BY <1>3, <3>1, <3>2
<1> QED
    BY <1>1, <1>2, <1>3, <1>4, EndsRefresh

\* A request, or the form, fails.
LEMMA FailsIInv ==
    ASSUME IInv, NEW t \in Tabs, NEW s \in Slots, LoginFails(t, s) \/ LoseCall(t, s)
    PROVE  IInv'
<1>1. CASE LoginFails(t, s)
  <2>1. /\ UNCHANGED <<fixed, session, expired, reuses, ref, spent>>
        /\ faults' \in Nat /\ store' \in Store /\ store' = store
      BY <1>1 DEF LoginFails, serverVars, IInv, TypeOK
  <2>2. tab' \in [Tabs -> Tab] /\ call' \in [Tabs -> [Slots -> SoundCall]]
      BY <1>1, ClientTypes DEF LoginFails
  <2> QED
      BY <2>1, <2>2, ClientAsks
<1>2. CASE LoseCall(t, s)
  <2>1. UNCHANGED <<fixed, session, expired, reuses, ref, spent>>
      BY <1>2 DEF LoseCall
  <2>2. faults' \in Nat
    <3>1. faults \in Nat /\ Fault
        BY <1>2 DEF LoseCall, IInv, TypeOK
    <3> QED
        BY <3>1 DEF Fault
  <2>3. /\ tab' \in [Tabs -> Tab] /\ call' \in [Tabs -> [Slots -> SoundCall]]
        /\ store' \in Store /\ store'.refresh \in {NoToken, store.refresh}
    <3>1. \/ StudentSettles(t, s, "error")
          \/ PortalSettles(t, s, "error")
          \/ PortalRetried(t, s, "error")
        BY <1>2 DEF LoseCall
    <3> QED
        BY <3>1, Settles
  <2> QED
      BY <2>1, <2>2, <2>3, ClientAsks
<1> QED
    BY <1>1, <1>2

\* What a login leaves in the browser.
LEMMA LoginTypes ==
    ASSUME IInv, NEW t \in Tabs, NEW s \in Slots, NEW n \in Token, NEW fits \in BOOLEAN,
           StudentLogin(t, s, n, fits) \/ PortalLogin(t, s, n)
    PROVE  /\ store' \in Store /\ store'.refresh = n
           /\ tab' \in [Tabs -> Tab] /\ call' \in [Tabs -> [Slots -> SoundCall]]
<1>1. n \in MaybeToken /\ NoToken \in MaybeToken
    BY SessionsAssumption DEF MaybeToken, Token, NoToken
<1>2. store' \in Store /\ store'.refresh = n
  <2>1. store' = StoreTokens(n)
      BY DEF StudentLogin, PortalLogin
  <2>2. StoreTokens(n) \in Store
      BY ClientTypes
  <2> QED
      BY <2>1, <2>2 DEF StoreTokens
<1>3. tab' \in [Tabs -> Tab]
  <2>1. SignedIn(t, n, FALSE) \in [Tabs -> Tab]
      BY <1>1, ClientTypes
  <2>2. CASE StudentLogin(t, s, n, fits)
      BY <2>1, <2>2 DEF StudentLogin
  <2>3. CASE PortalLogin(t, s, n)
    <3> DEFINE signed == SignedIn(t, n, FALSE)
               d == [signed[t] EXCEPT !.token = n]
    <3> HIDE DEF signed
    <3>1. signed \in [Tabs -> Tab] /\ signed[t] \in Tab
        BY <2>1 DEF signed
    <3>2. d \in Tab
        BY <1>1, <3>1 DEF Tab
    <3>3. tab' = [signed EXCEPT ![t].token = n]
        BY <2>3 DEF PortalLogin, signed
    <3>4. tab' = [signed EXCEPT ![t] = d]
        BY <3>1, <3>3
    <3> HIDE DEF d
    <3> QED
        BY <3>1, <3>2, <3>4
  <2> QED
      BY <2>2, <2>3
<1>4. call' \in [Tabs -> [Slots -> SoundCall]]
  <2> DEFINE out == [Idle EXCEPT !.kind = "logout", !.pc = "sent",
                                 !.access = n, !.body = n, !.valid = TRUE]
             me == [Idle EXCEPT !.kind = "me", !.pc = "sent",
                                !.access = n, !.valid = TRUE]
  <2>1. out \in SoundCall /\ me \in SoundCall
    <3>1. Idle \in Call
        BY <1>1 DEF Idle, Call, Kinds
    <3> QED
        BY <1>1, <3>1 DEF SoundCall, Call, Kinds
  <2>2. CASE call' = Done(t, s)
      BY <2>2, ClientTypes
  <2>3. ASSUME NEW c \in SoundCall, call' = [call EXCEPT ![t][s] = c]
        PROVE  call' \in [Tabs -> [Slots -> SoundCall]]
      BY <2>3, OneSlot DEF IInv, RequestsSound
  <2> QED
      BY <2>1, <2>2, <2>3 DEF StudentLogin, PortalLogin
<1> QED
    BY <1>2, <1>3, <1>4

\* A login starts a family of its own, as nobody has its number yet.
LEMMA LoginIInv ==
    ASSUME IInv, NEW t \in Tabs, NEW s \in Slots, NEW fits \in BOOLEAN, Login(t, s, fits)
    PROVE  IInv'
<1> DEFINE n == NextToken
           row == [state |-> "live", family |-> n, fits |-> fits]
<1>1. /\ UNCHANGED <<fixed, ref, expired, faults, spent, reuses>>
      /\ session' = [session EXCEPT ![n] = row]
      /\ StudentLogin(t, s, n, fits) \/ PortalLogin(t, s, n)
    BY DEF Login, IssueTokens
<1>2. /\ n \in Token /\ session[n].state = "free"
      /\ \A m \in Token : session[m].state = "free" <=> m >= n
    BY NextIsFree DEF Login
<1> HIDE DEF n
<1>3. /\ store' \in Store /\ store'.refresh = n
      /\ tab' \in [Tabs -> Tab] /\ call' \in [Tabs -> [Slots -> SoundCall]]
    BY <1>1, <1>2, LoginTypes
<1>4. /\ session' \in [Token -> SessionRow] /\ session'[n] = row
      /\ \A m \in Token : m # n => session'[m] = session[m]
  <2>1. row \in SessionRow
      BY <1>2, SessionsAssumption DEF SessionRow, MaybeToken, Token
  <2> HIDE DEF row
  <2> QED
      BY <1>1, <1>2, <2>1 DEF IInv, TypeOK
<1>5. RequestsSound'
    BY <1>1, <1>3 DEF IInv, RequestsSound, SoundCall, SoundRefresh
<1>6. TypeOK'
    BY <1>1, <1>3, <1>4, <1>5, SoundTypes DEF IInv, TypeOK, fixed
<1>7. IssuedInOrder'
  <2>1. \A m \in Token : session'[m].state = "free" <=> m > n
      BY <1>2, <1>4, SessionsAssumption DEF Token
  <2>2. n \in 0 .. MaxTokens
      BY <1>2, SessionsAssumption DEF Token
  <2> QED
      BY <2>1, <2>2 DEF IssuedInOrder
<1>8. FamiliesKnown' /\ OneLive' /\ ReplacedKnown'
    BY <1>1, <1>2, <1>4 DEF IInv, FamiliesKnown, OneLive, ReplacedKnown
<1>9. TokensIssued'
  <2>1. \A m \in Token : session[m].state # "free" => session'[m].state # "free"
      BY <1>2, <1>4
  <2>2. session'[n].state # "free"
      BY <1>4
  <2> QED
      BY <1>1, <1>3, <2>1, <2>2, TokensKnown DEF IInv, TokensIssued
<1>10. ReadStaysLive' /\ LocksExclude'
  <2>1. \A m \in Token : session[m].state = "live" => session'[m].state = "live"
      BY <1>2, <1>4
  <2>2. \A u \in Tabs, q \in Slots : ref[u][q].pc = "read" => ref[u][q].token \in Token
      BY TokensKnown
  <2> QED
      BY <1>1, <2>1, <2>2 DEF IInv, ReadStaysLive, LocksExclude
<1> QED
    BY <1>5, <1>6, <1>7, <1>8, <1>9, <1>10 DEF IInv

-----------------------------------------------------------------------------
(* What follows. *)

\* The invariant holds in every state of the clients and the server.
THEOREM Invariance == Spec => []IInv
<1>1. Init => IInv
    BY InitIInv
<1>2. IInv /\ [Next]_vars => IInv'
  <2> SUFFICES ASSUME IInv, [Next]_vars
               PROVE  IInv'
      OBVIOUS
  <2>1. ASSUME NEW t \in Tabs, NEW s \in Slots,
               Read(t, s) \/ SubmitLogin(t, s) \/ SubmitLogout(t, s)
        PROVE  IInv'
      BY <2>1, AsksIInv
  <2>2. ASSUME NEW t \in Tabs, NEW s \in Slots, Load(t, s)
        PROVE  IInv'
      BY <2>2, LoadIInv
  <2>3. ASSUME NEW t \in Tabs, NEW s \in Slots, ServerStep(t, s)
        PROVE  IInv'
      BY <2>3, ServeLogoutIInv, RefreshReadIInv, RotateIInv, RevokeAllIInv DEF ServerStep
  <2>4. ASSUME NEW t \in Tabs, NEW s \in Slots, Answer(t, s)
        PROVE  IInv'
      BY <2>4, AnswerIInv, RefreshedIInv, RefreshFailsIInv, FailsIInv, LoginIInv DEF Answer
  <2>5. ASSUME NEW t \in Tabs, NEW s \in Slots, LoseCall(t, s) \/ LoseRefresh(t, s)
        PROVE  IInv'
      BY <2>5, FailsIInv, RefreshFailsIInv
  <2>6. CASE Expire
      BY <2>6, ExpireIInv
  <2>7. CASE UNCHANGED vars
    <3>1. TypeOK' /\ RequestsSound' /\ TokensIssued'
        BY <2>7 DEF IInv, TypeOK, RequestsSound, TokensIssued, SoundCall, SoundRefresh, vars
    <3> QED
        BY <2>7, <3>1, ClientKeeps DEF vars
  <2> QED
      BY <2>1, <2>2, <2>3, <2>4, <2>5, <2>6, <2>7 DEF Next
<1> QED
    BY <1>1, <1>2, PTL DEF Spec

\* Every variable keeps its type, whatever the clients send and the network
\* loses (lib/api.js, AuthContext.jsx, AuthService).
THEOREM TypeCorrect == Spec => []TypeOK
<1>1. IInv => TypeOK
    BY DEF IInv
<1> QED
    BY <1>1, Invariance, PTL

\* A family of refresh sessions never forks, for any number of clients and
\* tokens: AuthService._refresh_locked rotates a token only where it still read
\* it live under its lock.
THEOREM FamiliesDoNotFork == Spec => []OneLiveSessionPerFamily
<1>1. IInv => OneLiveSessionPerFamily
  <2> SUFFICES ASSUME IInv, NEW f \in Token
               PROVE  Cardinality(LiveOf(f)) =< 1
      BY DEF OneLiveSessionPerFamily
  <2>1. CASE LiveOf(f) = {}
      BY <2>1, FS_EmptySet
  <2>2. CASE LiveOf(f) # {}
    <3>1. PICK n : LiveOf(f) = {n}
        BY <2>2 DEF LiveOf, IInv, OneLive
    <3>2. Cardinality(LiveOf(f)) = 1
        BY <3>1, FS_Singleton
    <3> QED
        BY <3>2
  <2> QED
      BY <2>1, <2>2
<1> QED
    BY <1>1, Invariance, PTL

-----------------------------------------------------------------------------
(* The clients.                                                            *)
(*                                                                         *)
(* The portal forgets the refresh token it is given, so it can only ever   *)
(* present the first one of a family.  A student's tab has one refresh in  *)
(* flight, so the token it presents is current unless an answer was lost;  *)
(* and as it asks for nothing else while a page load asks who is signed    *)
(* in, nothing clears the tokens under the answer.                         *)

\* A request is idle or somebody's; a form is only ever sent; whoever refreshes
\* waits for the refresh; and only open tabs do anything.
RequestsShaped ==
    /\ \A t \in Tabs, s \in Slots :
          /\ call[t][s].pc = "idle" => call[t][s].kind = "none"
          /\ call[t][s].kind = "login" => call[t][s].pc = "sent"
          /\ call[t][s].pc = "served" => call[t][s].kind = "logout"
          /\ call[t][s].pc # "idle" => <<t, s>> \in lanes
          /\ ref[t][s].pc # "none" => call[t][s].pc = "waiting"
    /\ \A t \in Tabs : tab[t].status # "closed" => \E s \in Slots : <<t, s>> \in lanes

\* A student's tab shares one refreshPromise.
OneRefresh ==
    app = "student" => \A t \in Tabs : \A s, q \in Slots :
        ref[t][s].pc # "none" /\ ref[t][q].pc # "none" => s = q

\* Whatever is sent or shown belongs to a token that was issued.
Issued(n) == n # NoToken => session[n].state # "free"

SentIsIssued ==
    /\ Issued(store.access)
    /\ \A t \in Tabs, s \in Slots : Issued(call[t][s].access) /\ Issued(call[t][s].body)
    /\ \A t \in Tabs : tab[t].status = "signed" =>
          tab[t].family \in Token /\ session[tab[t].family].state # "free"

\* Only users whose role fits sign in to the portal.
PortalFits == app = "admin" => \A n \in Token : session[n].fits

\* The portal only ever presents the first token of a family, and the first
\* token that replaces it ends that.
IsHead(n) == session[n].family = n

PortalPresentsHeads ==
    app = "admin" =>
        /\ store.refresh # NoToken => IsHead(store.refresh)
        /\ \A t \in Tabs, s \in Slots : ref[t][s].pc # "none" => IsHead(ref[t][s].token)
        /\ \A n \in Token : session[n].state # "free" /\ ~IsHead(n) =>
              session[session[n].family].state # "live"
        /\ \A m, n \in Token :
              /\ session[m].state # "free" /\ ~IsHead(m)
              /\ session[n].state # "free" /\ ~IsHead(n)
              /\ session[m].family = session[n].family
              => m = n

\* A page load asks who is signed in before anything else is asked.
MeAsksAlone ==
    Students => \A t \in Tabs, s \in Slots : call[t][s].kind = "me" =>
        /\ tab[t].status = "loading" /\ store # EmptyStore
        /\ \A q \in Slots : q # s => call[t][q].pc = "idle"

\* Every token of a family but the last was rotated.
OneUnrotated ==
    \A m, n \in Token :
        /\ session[m].state \notin {"free", "rotated"}
        /\ session[n].state \notin {"free", "rotated"}
        /\ session[m].family = session[n].family
        => m = n

\* A student's browser holds a token that was rotated only while the answer is
\* on its way or because it was lost.
Replaced(n) == session[n].state = "rotated" /\ spent[n] # "lost"

StoredIsCurrent ==
    Students =>
        /\ store.refresh # NoToken /\ Replaced(store.refresh) =>
              \E t \in Tabs, s \in Slots :
                  ref[t][s].pc # "none" /\ ref[t][s].issued # NoToken
                  /\ ref[t][s].token = store.refresh
        /\ \A t \in Tabs, s \in Slots :
              /\ ref[t][s].pc = "sent" => ~Replaced(ref[t][s].token)
              /\ ref[t][s].issued # NoToken =>
                    session[ref[t][s].issued].state # "rotated" /\ ref[t][s].pc = "served"

\* A logout that was served left its token dead.
ServedIsDead ==
    \A t \in Tabs, s \in Slots :
        call[t][s].pc = "served" /\ call[t][s].body # NoToken =>
            session[call[t][s].body].state # "live"

CInv ==
    /\ RequestsShaped /\ OneRefresh /\ SentIsIssued
    /\ PortalFits /\ PortalPresentsHeads /\ WrongRoleLeaves
    /\ MeAsksAlone /\ SignedInHasTokens
    /\ OneUnrotated /\ StoredIsCurrent /\ ReuseHasACause /\ ServedIsDead

-----------------------------------------------------------------------------
(* What the steps do to one request, one refresh and one tab. *)

OneCall(t, s, c) ==
    /\ call'[t][s] = c
    /\ \A u \in Tabs, q \in Slots : u # t \/ q # s => call'[u][q] = call[u][q]

OneRef(t, s, r) ==
    /\ ref'[t][s] = r
    /\ \A u \in Tabs, q \in Slots : u # t \/ q # s => ref'[u][q] = ref[u][q]

OtherTabs(t) == \A u \in Tabs : u # t => tab'[u] = tab[u]

SignsOut(t) ==
    /\ OtherTabs(t)
    /\ tab'[t].status = "guest"

SignsIn(t, f, again) ==
    /\ OtherTabs(t)
    /\ tab'[t].status = "signed" /\ tab'[t].family = f /\ tab'[t].restored = again

\* Before anybody has signed in.
LEMMA InitCInv == Init => CInv
<1> SUFFICES ASSUME Init PROVE CInv
    OBVIOUS
<1> USE DEF Init, Idle, NoRefresh, EmptyStore, NoToken
<1>1. RequestsShaped /\ OneRefresh
    BY DEF RequestsShaped, OneRefresh
<1>2. SentIsIssued
    BY DEF SentIsIssued, Issued
<1>3. PortalFits /\ PortalPresentsHeads
    BY DEF PortalFits, PortalPresentsHeads
<1>4. WrongRoleLeaves /\ MeAsksAlone /\ SignedInHasTokens
    BY DEF WrongRoleLeaves, MeAsksAlone, SignedInHasTokens
<1>5. OneUnrotated /\ StoredIsCurrent /\ ReuseHasACause /\ ServedIsDead
    BY DEF OneUnrotated, StoredIsCurrent, ReuseHasACause, ServedIsDead
<1> QED
    BY <1>1, <1>2, <1>3, <1>4, <1>5 DEF CInv

\* A tab signs in and out.
LEMMA TabSteps ==
    ASSUME IInv, NEW t \in Tabs
    PROVE  /\ tab' = SignedOut(t) => SignsOut(t)
           /\ \A f, again : tab' = SignedIn(t, f, again) => SignsIn(t, f, again)
           /\ tab[t].restored \in BOOLEAN
<1>1. tab \in [Tabs -> Tab] /\ tab[t] \in Tab
    BY DEF IInv, TypeOK
<1>2. tab' = SignedOut(t) => SignsOut(t)
    BY <1>1 DEF SignedOut, SignsOut, OtherTabs, Tab
<1>3. \A f, again : tab' = SignedIn(t, f, again) => SignsIn(t, f, again)
    BY <1>1 DEF SignedIn, SignsIn, OtherTabs, Tab
<1> QED
    BY <1>1, <1>2, <1>3 DEF Tab

\* The request of one slot is over, waits or is served.
LEMMA CallSteps ==
    ASSUME IInv, NEW t \in Tabs, NEW s \in Slots
    PROVE  /\ call' = Done(t, s) => OneCall(t, s, Idle)
           /\ call' = [call EXCEPT ![t][s].pc = "waiting"] =>
                 OneCall(t, s, [call[t][s] EXCEPT !.pc = "waiting"])
           /\ call' = [call EXCEPT ![t][s].pc = "served"] =>
                 OneCall(t, s, [call[t][s] EXCEPT !.pc = "served"])
           /\ \A c : call' = [call EXCEPT ![t][s] = c] => OneCall(t, s, c)
           /\ \A r : ref' = [ref EXCEPT ![t][s] = r] => OneRef(t, s, r)
           /\ call[t][s] \in Call /\ ref[t][s] \in Refresh
<1>1. call \in [Tabs -> [Slots -> Call]] /\ ref \in [Tabs -> [Slots -> Refresh]]
    BY DEF IInv, TypeOK
<1>2. \A c : call' = [call EXCEPT ![t][s] = c] => OneCall(t, s, c)
    BY <1>1 DEF OneCall
<1>3. \A r : ref' = [ref EXCEPT ![t][s] = r] => OneRef(t, s, r)
    BY <1>1 DEF OneRef
<1>4. [call EXCEPT ![t][s].pc = "waiting"]
          = [call EXCEPT ![t][s] = [call[t][s] EXCEPT !.pc = "waiting"]]
    BY <1>1
<1>5. [call EXCEPT ![t][s].pc = "served"]
          = [call EXCEPT ![t][s] = [call[t][s] EXCEPT !.pc = "served"]]
    BY <1>1
<1> QED
    BY <1>1, <1>2, <1>3, <1>4, <1>5 DEF Done

-----------------------------------------------------------------------------
(* What is left alone. *)

\* A step that moves no refresh and stores no new refresh token.
LEMMA RefreshesKept ==
    ASSUME IInv, CInv, UNCHANGED <<app, lanes, session, spent, reuses, ref>>,
           store'.refresh \in {NoToken, store.refresh}
    PROVE  /\ OneRefresh' /\ PortalFits' /\ PortalPresentsHeads'
           /\ OneUnrotated' /\ StoredIsCurrent' /\ ReuseHasACause'
<1>1. Students' = Students
    BY DEF Students, OneTab
<1>2. OneRefresh' /\ PortalFits' /\ OneUnrotated' /\ ReuseHasACause'
    BY <1>1 DEF CInv, OneRefresh, PortalFits, OneUnrotated, ReuseHasACause
<1>3. PortalPresentsHeads'
  <2>1. ref' = ref /\ session' = session /\ app' = app
      OBVIOUS
  <2> QED
      BY <2>1 DEF CInv, PortalPresentsHeads, IsHead
<1>4. StoredIsCurrent'
  <2>1. ref' = ref /\ session' = session /\ spent' = spent
      OBVIOUS
  <2>2. \A n : Replaced(n)' <=> Replaced(n)
      BY <2>1 DEF Replaced
  <2> QED
      BY <1>1, <2>1, <2>2 DEF CInv, StoredIsCurrent
<1> QED
    BY <1>2, <1>3, <1>4

\* A token that was issued stays in its family, and once dead it stays dead.
KeepsTokens ==
    \A n \in Token : session[n].state # "free" =>
        /\ session'[n].state # "free"
        /\ session'[n].family = session[n].family /\ session'[n].fits = session[n].fits
        /\ session'[n].state = "live" => session[n].state = "live"

\* What is sent and stored is a token or nothing.
LEMMA CallTokens ==
    ASSUME IInv
    PROVE  /\ \A n \in MaybeToken : n # NoToken => n \in Token
           /\ \A t \in Tabs, s \in Slots :
                 call[t][s].access \in MaybeToken /\ call[t][s].body \in MaybeToken
           /\ store.access \in MaybeToken /\ store.refresh \in MaybeToken
<1>1. \A n \in MaybeToken : n # NoToken => n \in Token
    BY SessionsAssumption DEF MaybeToken, NoToken, Token
<1>2. \A t \in Tabs, s \in Slots : call[t][s] \in Call
    BY DEF IInv, TypeOK
<1>3. store \in Store
    BY DEF IInv, TypeOK
<1> QED
    BY <1>1, <1>2, <1>3 DEF Call, Store

\* A step of the server that only it notices.
LEMMA ClientsKept ==
    ASSUME IInv, CInv, KeepsTokens, UNCHANGED <<app, lanes, store, tab, call>>,
           \A t \in Tabs, s \in Slots : ref'[t][s].pc = "none" <=> ref[t][s].pc = "none"
    PROVE  /\ RequestsShaped' /\ OneRefresh' /\ SentIsIssued' /\ WrongRoleLeaves'
           /\ MeAsksAlone' /\ SignedInHasTokens' /\ ServedIsDead'
<1>1. Students' = Students
    BY DEF Students, OneTab
<1>2. /\ \A n \in MaybeToken : n # NoToken => n \in Token
      /\ \A t \in Tabs, s \in Slots :
            call[t][s].access \in MaybeToken /\ call[t][s].body \in MaybeToken
      /\ store.access \in MaybeToken
    BY CallTokens
<1>3. RequestsShaped' /\ OneRefresh'
    BY DEF CInv, RequestsShaped, OneRefresh
<1>4. SentIsIssued'
    BY <1>2 DEF CInv, SentIsIssued, Issued, KeepsTokens
<1>5. WrongRoleLeaves'
    BY DEF CInv, WrongRoleLeaves, SentIsIssued, KeepsTokens
<1>6. MeAsksAlone' /\ SignedInHasTokens'
    BY <1>1 DEF CInv, MeAsksAlone, SignedInHasTokens
<1>7. ServedIsDead'
    BY <1>2 DEF CInv, ServedIsDead, SentIsIssued, Issued, KeepsTokens
<1> QED
    BY <1>3, <1>4, <1>5, <1>6, <1>7

\* The only open tab is where everything happens.
LEMMA OnlyTab ==
    ASSUME CInv, Students, NEW t \in Tabs, NEW s \in Slots, <<t, s>> \in lanes
    PROVE  \A u \in Tabs : u # t =>
               /\ tab[u].status = "closed"
               /\ \A q \in Slots : call[u][q].pc = "idle" /\ ref[u][q].pc = "none"
<1>1. PICK v \in Tabs : lanes \subseteq {v} \X Slots
    BY DEF Students, OneTab
<1>2. \A u \in Tabs, q \in Slots : <<u, q>> \in lanes => u = t
    BY <1>1
<1>3. ASSUME NEW u \in Tabs, u # t
      PROVE  /\ tab[u].status = "closed"
             /\ \A q \in Slots : call[u][q].pc = "idle"
    BY <1>2, <1>3, ZenonT(40) DEF CInv, RequestsShaped
<1>4. \A u \in Tabs, q \in Slots : call[u][q].pc = "idle" => ref[u][q].pc = "none"
    BY DEF CInv, RequestsShaped
<1> QED
    BY <1>3, <1>4

-----------------------------------------------------------------------------
(* Requests and their answers. *)

\* A page reads, and the two forms are sent.
LEMMA AsksCInv ==
    ASSUME IInv, CInv, NEW t \in Tabs, NEW s \in Slots, <<t, s>> \in lanes,
           Read(t, s) \/ SubmitLogin(t, s) \/ SubmitLogout(t, s)
    PROVE  CInv'
<1>1. /\ UNCHANGED <<app, lanes, store, session, spent, reuses, ref>>
      /\ call[t][s].pc = "idle" /\ ref[t][s].pc = "none"
      /\ tab[t].status \in {"guest", "signed"}
    BY DEF Read, SubmitLogin, SubmitLogout, Start, fixed, serverVars
<1>2. PICK kind \in {"data", "login", "logout"} : call' = [call EXCEPT ![t][s] = NewCall(kind)]
    BY DEF Read, SubmitLogin, SubmitLogout, Start
<1>3. OneCall(t, s, NewCall(kind))
    BY <1>2, CallSteps
<1>4. /\ OtherTabs(t)
      /\ tab'[t].status # "signed" => tab'[t].status = "loading" \/ tab[t].status # "signed"
      /\ tab'[t].status = "signed" => tab'[t] = tab[t]
  <2>1. tab' = tab \/ (tab[t].status = "guest" /\ tab' = [tab EXCEPT ![t].status = "loading"])
      BY DEF Read, SubmitLogin, SubmitLogout
  <2>2. tab \in [Tabs -> Tab] /\ tab[t] \in Tab
      BY DEF IInv, TypeOK
  <2> QED
      BY <2>1, <2>2 DEF OtherTabs, Tab
<1>5. /\ NewCall(kind).kind = kind /\ NewCall(kind).pc = "sent"
      /\ NewCall(kind).access \in {NoToken, store.access}
      /\ NewCall(kind).body \in {NoToken, store.refresh}
    BY DEF NewCall
<1>6. RequestsShaped'
    BY <1>1, <1>3, <1>4, <1>5 DEF CInv, RequestsShaped, OneCall, OtherTabs
<1>7. SentIsIssued'
  <2>1. \A n : Issued(n)' <=> Issued(n)
      BY <1>1 DEF Issued
  <2>2. Issued(store.access) /\ Issued(store.refresh) /\ Issued(NoToken)
      BY DEF CInv, SentIsIssued, Issued, IInv, TokensIssued
  <2>3. \A u \in Tabs, q \in Slots : Issued(call'[u][q].access) /\ Issued(call'[u][q].body)
      BY <1>3, <1>5, <2>2 DEF CInv, SentIsIssued, OneCall
  <2>4. \A u \in Tabs : tab'[u].status = "signed" => tab'[u] = tab[u]
      BY <1>4 DEF OtherTabs
  <2> QED
      BY <1>1, <2>1, <2>2, <2>3, <2>4 DEF CInv, SentIsIssued
<1>8. WrongRoleLeaves'
  <2>1. \A u \in Tabs : tab'[u].status = "signed" => tab'[u] = tab[u]
      BY <1>4 DEF OtherTabs
  <2>2. \A u \in Tabs, q \in Slots : call[u][q].kind = "logout" => call'[u][q].kind = "logout"
      BY <1>1, <1>3 DEF CInv, RequestsShaped, OneCall
  <2> QED
      BY <1>1, <2>1, <2>2 DEF CInv, WrongRoleLeaves
<1>9. MeAsksAlone'
  <2> SUFFICES ASSUME Students, NEW u \in Tabs, NEW q \in Slots, call'[u][q].kind = "me"
               PROVE  FALSE
      BY <1>1 DEF MeAsksAlone, Students, OneTab
  <2>1. call[u][q].kind = "me"
      BY <1>3, <1>5 DEF OneCall
  <2>2. tab[u].status = "loading"
      BY <2>1 DEF CInv, MeAsksAlone
  <2> QED
      BY <1>1, <2>2, OnlyTab
<1>10. SignedInHasTokens'
  <2>1. \A u \in Tabs : tab'[u].status = "signed" => tab[u].status = "signed"
      BY <1>4 DEF OtherTabs
  <2> QED
      BY <1>1, <2>1 DEF CInv, SignedInHasTokens, Students, OneTab
<1>11. ServedIsDead'
    BY <1>1, <1>3, <1>5 DEF CInv, ServedIsDead, OneCall
<1>12. /\ OneRefresh' /\ PortalFits' /\ PortalPresentsHeads'
       /\ OneUnrotated' /\ StoredIsCurrent' /\ ReuseHasACause'
    BY <1>1, RefreshesKept
<1> QED
    BY <1>6, <1>7, <1>8, <1>9, <1>10, <1>11, <1>12 DEF CInv

\* A request is over: the tab signs out, learns who is signed in, or shows
\* what it showed.
LEMMA SettledCInv ==
    ASSUME IInv, CInv, NEW t \in Tabs, NEW s \in Slots, <<t, s>> \in lanes,
           UNCHANGED <<app, lanes, session, spent, reuses, ref>>,
           call[t][s].pc \in {"sent", "served"}, OneCall(t, s, Idle),
           store' \in {store, EmptyStore},
           \/ SignsOut(t)
           \/ \E again \in BOOLEAN :
                 /\ SignsIn(t, session[call[t][s].access].family, again)
                 /\ call[t][s].kind = "me" /\ call[t][s].access \in Token
                 /\ app = "admin" \/ (store' = store /\ again)
           \/ tab' = tab /\ (app = "admin" \/ (store' = store /\ call[t][s].kind = "data"))
    PROVE  CInv'
<1>1. Students' = Students
    BY DEF Students, OneTab
<1>2. /\ Idle.pc = "idle" /\ Idle.kind = "none"
      /\ Idle.access = NoToken /\ Idle.body = NoToken
      /\ EmptyStore.access = NoToken /\ EmptyStore.refresh = NoToken
    BY DEF Idle, EmptyStore
<1>3. \A u \in Tabs : u # t => tab'[u] = tab[u]
    BY DEF SignsOut, SignsIn, OtherTabs
<1>4. RequestsShaped'
    BY <1>2, <1>3 DEF CInv, RequestsShaped, OneCall
<1>5. SentIsIssued'
  <2>1. \A n : Issued(n)' <=> Issued(n)
      BY DEF Issued
  <2>2. Issued(NoToken) /\ Issued(store.access) /\ Issued(store'.access)
      BY <1>2 DEF CInv, SentIsIssued, Issued
  <2>3. \A u \in Tabs, q \in Slots : Issued(call'[u][q].access) /\ Issued(call'[u][q].body)
      BY <1>2, <2>2 DEF CInv, SentIsIssued, OneCall
  <2>4. ASSUME NEW u \in Tabs, tab'[u].status = "signed"
        PROVE  tab'[u].family \in Token /\ session[tab'[u].family].state # "free"
    <3>1. CASE tab'[u] = tab[u]
        BY <2>4, <3>1 DEF CInv, SentIsIssued
    <3>2. CASE tab'[u] # tab[u]
      <4>1. /\ u = t /\ call[t][s].access \in Token
            /\ tab'[t].family = session[call[t][s].access].family
          BY <1>3, <2>4, <3>2 DEF SignsOut, SignsIn
      <4>2. session[call[t][s].access].state # "free"
          BY <4>1, SessionsAssumption DEF CInv, SentIsIssued, Issued, NoToken, Token
      <4> QED
          BY <4>1, <4>2 DEF IInv, FamiliesKnown
    <3> QED
        BY <3>1, <3>2
  <2>5. \A u \in Tabs : tab'[u].status = "signed" =>
            tab'[u].family \in Token /\ session'[tab'[u].family].state # "free"
      BY <2>4
  <2> QED
      BY <2>1, <2>2, <2>3, <2>5 DEF SentIsIssued
<1>6. WrongRoleLeaves'
  <2> SUFFICES ASSUME NEW u \in Tabs, tab'[u].status = "signed", ~tab'[u].restored,
                      ~session'[tab'[u].family].fits
               PROVE  \E q \in Slots : call'[u][q].kind = "logout"
      BY DEF WrongRoleLeaves
  <2>1. app # "admin"
    <3>1. tab'[u].family \in Token
        BY <1>5 DEF SentIsIssued
    <3> QED
        BY <3>1 DEF CInv, PortalFits
  <2>2. CASE u # t
    <3>1. \E q \in Slots : call[u][q].kind = "logout"
        BY <1>3, <2>2 DEF CInv, WrongRoleLeaves
    <3> QED
        BY <2>2, <3>1 DEF OneCall
  <2>3. CASE u = t
    <3>1. tab' = tab /\ call[t][s].kind = "data"
        BY <2>1, <2>3 DEF SignsOut, SignsIn
    <3>2. \E q \in Slots : call[u][q].kind = "logout"
        BY <3>1 DEF CInv, WrongRoleLeaves
    <3> QED
        BY <2>3, <3>1, <3>2 DEF OneCall
  <2> QED
      BY <2>2, <2>3
<1>7. MeAsksAlone'
  <2> SUFFICES ASSUME Students, NEW u \in Tabs, NEW q \in Slots, call'[u][q].kind = "me"
               PROVE  FALSE
      BY <1>1 DEF MeAsksAlone
  <2>1. call[u][q].kind = "me" /\ (u # t \/ q # s)
      BY <1>2 DEF OneCall
  <2>2. call[u][q].pc # "idle"
      BY <2>1 DEF CInv, RequestsShaped
  <2>3. u = t /\ q # s
      BY <2>1, <2>2, OnlyTab
  <2>4. call[t][s].pc = "idle"
      BY <2>1, <2>3 DEF CInv, MeAsksAlone
  <2> QED
      BY <2>4
<1>8. SignedInHasTokens'
  <2> SUFFICES ASSUME Students, NEW u \in Tabs, tab'[u].status = "signed"
               PROVE  store' # EmptyStore
      BY <1>1 DEF SignedInHasTokens
  <2>1. app # "admin" /\ u = t
    <3>1. u # t => tab[u].status = "closed"
        BY OnlyTab
    <3> QED
        BY <1>3, <3>1 DEF Students
  <2>2. store' = store
      BY <2>1 DEF SignsOut
  <2>3. tab[t].status = "signed" \/ call[t][s].kind = "me"
      BY <2>1 DEF SignsOut
  <2> QED
      BY <2>2, <2>3 DEF CInv, SignedInHasTokens, MeAsksAlone
<1>9. ServedIsDead'
    BY <1>2 DEF CInv, ServedIsDead, OneCall
<1>10. /\ OneRefresh' /\ PortalFits' /\ PortalPresentsHeads'
       /\ OneUnrotated' /\ StoredIsCurrent' /\ ReuseHasACause'
  <2>1. store'.refresh \in {NoToken, store.refresh}
      BY <1>2
  <2> QED
      BY <2>1, RefreshesKept
<1> QED
    BY <1>4, <1>5, <1>6, <1>7, <1>8, <1>9, <1>10 DEF CInv

\* A request waits for a refresh, its own or the one in flight.
LEMMA WaitCInv ==
    ASSUME IInv, CInv, NEW t \in Tabs, NEW s \in Slots, <<t, s>> \in lanes,
           UNCHANGED <<app, lanes, session, spent, reuses>>,
           call[t][s].pc \in {"sent", "served"}, call[t][s].kind # "login",
           \/ JoinRefresh(t, s)
           \/ (app = "student" => Refreshing(t) = {}) /\ StartRefresh(t, s)
    PROVE  CInv'
<1> DEFINE c == [call[t][s] EXCEPT !.pc = "waiting"]
           r == [NoRefresh EXCEPT !.pc = "sent", !.token = store.refresh]
<1>1. Students' = Students
    BY DEF Students, OneTab
<1>2. UNCHANGED <<store, tab>> /\ OneCall(t, s, c)
    BY CallSteps DEF JoinRefresh, StartRefresh
<1>3. /\ c.pc = "waiting" /\ c.kind = call[t][s].kind
      /\ c.access = call[t][s].access /\ c.body = call[t][s].body
    BY CallSteps DEF Call
<1> HIDE DEF c
<1>4. ref[t][s].pc = "none"
    BY DEF CInv, RequestsShaped
<1>5. /\ r.pc = "sent" /\ r.token = store.refresh /\ r.issued = NoToken
      /\ NoRefresh.pc = "none"
    BY DEF NoRefresh
<1>6. \/ ref' = ref
      \/ /\ OneRef(t, s, r) /\ store.refresh # NoToken
         /\ app = "student" => \A q \in Slots : ref[t][q].pc = "none"
  <2>1. StartRefresh(t, s) => OneRef(t, s, r)
      BY CallSteps DEF StartRefresh
  <2> QED
      BY <2>1 DEF JoinRefresh, StartRefresh, Refreshing
<1> HIDE DEF r
<1>7. RequestsShaped'
  <2>1. ASSUME NEW u \in Tabs, NEW q \in Slots
        PROVE  /\ call'[u][q].pc = "idle" => call'[u][q].kind = "none"
               /\ call'[u][q].kind = "login" => call'[u][q].pc = "sent"
               /\ call'[u][q].pc = "served" => call'[u][q].kind = "logout"
               /\ call'[u][q].pc # "idle" => <<u, q>> \in lanes
      BY <1>2, <1>3 DEF CInv, RequestsShaped, OneCall
  <2>2. ASSUME NEW u \in Tabs, NEW q \in Slots, ref'[u][q].pc # "none"
        PROVE  call'[u][q].pc = "waiting"
    <3>1. CASE u = t /\ q = s
        BY <1>2, <1>3, <3>1 DEF OneCall
    <3>2. CASE u # t \/ q # s
      <4>1. call'[u][q] = call[u][q]
          BY <1>2, <3>2 DEF OneCall
      <4>2. ref'[u][q] = ref[u][q]
        <5>1. OneRef(t, s, r) => ref'[u][q] = ref[u][q]
            BY <3>2 DEF OneRef
        <5> QED
            BY <1>6, <5>1
      <4>3. ref[u][q].pc # "none" => call[u][q].pc = "waiting"
          BY DEF CInv, RequestsShaped
      <4> QED
          BY <2>2, <4>1, <4>2, <4>3
    <3> QED
        BY <3>1, <3>2
  <2>3. \A u \in Tabs : tab'[u].status # "closed" => \E q \in Slots : <<u, q>> \in lanes'
      BY <1>2 DEF CInv, RequestsShaped
  <2> QED
      BY <2>1, <2>2, <2>3 DEF RequestsShaped
<1>8. OneRefresh'
    BY <1>6 DEF CInv, OneRefresh, OneRef
<1>9. SentIsIssued' /\ WrongRoleLeaves' /\ ServedIsDead'
    BY <1>2, <1>3 DEF CInv, SentIsIssued, Issued, WrongRoleLeaves, ServedIsDead, OneCall
<1>10. PortalFits' /\ OneUnrotated' /\ ReuseHasACause' /\ SignedInHasTokens'
    BY <1>1, <1>2 DEF CInv, PortalFits, OneUnrotated, ReuseHasACause, SignedInHasTokens
<1>11. PortalPresentsHeads'
  <2>1. \A n : IsHead(n)' <=> IsHead(n)
      BY DEF IsHead
  <2>2. app = "admin" => \A u \in Tabs, q \in Slots :
            ref'[u][q].pc # "none" => IsHead(ref'[u][q].token)
      BY <1>5, <1>6 DEF CInv, PortalPresentsHeads, OneRef
  <2> QED
      BY <1>2, <2>1, <2>2 DEF CInv, PortalPresentsHeads
<1>12. MeAsksAlone'
  <2> SUFFICES ASSUME Students, NEW u \in Tabs, NEW q \in Slots, call'[u][q].kind = "me"
               PROVE  /\ tab[u].status = "loading" /\ store # EmptyStore
                      /\ \A p \in Slots : p # q => call'[u][p].pc = "idle"
      BY <1>1, <1>2 DEF MeAsksAlone
  <2>1. call[u][q].kind = "me"
      BY <1>2, <1>3 DEF OneCall
  <2>2. /\ tab[u].status = "loading" /\ store # EmptyStore
        /\ \A p \in Slots : p # q => call[u][p].pc = "idle"
      BY <2>1 DEF CInv, MeAsksAlone
  <2>3. u = t => q = s
      BY <2>2
  <2> QED
      BY <1>2, <2>2, <2>3 DEF OneCall
<1>13. StoredIsCurrent'
  <2> SUFFICES ASSUME Students
               PROVE  /\ store.refresh # NoToken /\ Replaced(store.refresh) =>
                            \E u \in Tabs, q \in Slots :
                                ref'[u][q].pc # "none" /\ ref'[u][q].issued # NoToken
                                /\ ref'[u][q].token = store.refresh
                      /\ \A u \in Tabs, q \in Slots :
                            /\ ref'[u][q].pc = "sent" => ~Replaced(ref'[u][q].token)
                            /\ ref'[u][q].issued # NoToken =>
                                  session[ref'[u][q].issued].state # "rotated"
                                  /\ ref'[u][q].pc = "served"
      BY <1>1, <1>2 DEF StoredIsCurrent, Replaced
  <2>1. CASE ref' = ref
      BY <2>1 DEF CInv, StoredIsCurrent
  <2>2. CASE OneRef(t, s, r) /\ store.refresh # NoToken /\ \A q \in Slots : ref[t][q].pc = "none"
    <3>1. \A u \in Tabs, q \in Slots : ref[u][q].pc = "none"
        BY <2>2, OnlyTab
    <3>2. ~Replaced(store.refresh)
        BY <2>2, <3>1 DEF CInv, StoredIsCurrent
    <3> QED
        BY <1>5, <2>2, <3>1, <3>2 DEF CInv, StoredIsCurrent, OneRef
  <2> QED
      BY <1>6, <2>1, <2>2 DEF Students
<1> QED
    BY <1>7, <1>8, <1>9, <1>10, <1>11, <1>12, <1>13 DEF CInv

\* An answer, in either client.
LEMMA AnswerCInv ==
    ASSUME IInv, CInv, NEW t \in Tabs, NEW s \in Slots, <<t, s>> \in lanes,
           StudentAnswer(t, s) \/ PortalAnswer(t, s)
    PROVE  CInv'
<1>1. /\ UNCHANGED <<app, lanes, session, spent, reuses>>
      /\ call[t][s].pc \in {"sent", "served"}
    BY DEF StudentAnswer, PortalAnswer, fixed, serverVars
<1>2. call' = Done(t, s) => OneCall(t, s, Idle)
    BY CallSteps
<1>3. /\ tab' = SignedOut(t) => SignsOut(t)
      /\ \A f, again : tab' = SignedIn(t, f, again) => SignsIn(t, f, again)
      /\ tab[t].restored \in BOOLEAN
    BY TabSteps
<1>4. CASE StudentAnswer(t, s)
  <2>1. PICK outcome \in Outcomes(call[t][s]) :
            IF outcome = "unauthorized" /\ ~call[t][s].again
            THEN Unauthorized(t, s)
            ELSE StudentSettles(t, s, outcome) /\ UNCHANGED ref
      BY <1>4 DEF StudentAnswer
  <2>2. call[t][s].kind # "login" /\ app = "student"
      BY <1>4, <2>1 DEF Outcomes, StudentAnswer
  <2>3. CASE JoinRefresh(t, s) \/ (Refreshing(t) = {} /\ StartRefresh(t, s))
      BY <1>1, <2>2, <2>3, WaitCInv
  <2>4. CASE Logout(t, s) /\ UNCHANGED ref
      BY <1>1, <1>2, <1>3, <2>4, SettledCInv DEF Logout
  <2>5. CASE StudentSettles(t, s, outcome) /\ UNCHANGED ref
    <3>1. CASE call[t][s].kind = "me"
      <4>1. StudentMe(t, s, outcome)
          BY <2>5, <3>1 DEF StudentSettles
      <4>2. CASE outcome = "ok"
        <5>1. call[t][s].access \in Token
            BY <2>1, <3>1, <4>2, OkIsSound
        <5> QED
            BY <1>1, <1>2, <1>3, <2>5, <3>1, <4>1, <4>2, <5>1, SettledCInv DEF StudentMe
      <4>3. CASE outcome # "ok"
          BY <1>1, <1>2, <1>3, <2>5, <4>1, <4>3, SettledCInv DEF StudentMe
      <4> QED
          BY <4>2, <4>3
    <3>2. CASE call[t][s].kind # "me"
        BY <1>1, <1>2, <1>3, <2>5, <3>2, SettledCInv DEF StudentSettles, Logout, StudentData
    <3> QED
        BY <3>1, <3>2
  <2> QED
      BY <2>1, <2>3, <2>4, <2>5 DEF Unauthorized
<1>5. CASE PortalAnswer(t, s)
  <2>1. PICK outcome \in Outcomes(call[t][s]) :
            IF call[t][s].again THEN PortalRetried(t, s, outcome) /\ UNCHANGED ref
            ELSE IF outcome = "unauthorized" /\ call[t][s].kind = "data" /\ store.refresh # NoToken
            THEN StartRefresh(t, s)
            ELSE PortalSettles(t, s, outcome) /\ UNCHANGED ref
      BY <1>5 DEF PortalAnswer
  <2>2. app = "admin"
      BY <1>5 DEF PortalAnswer
  <2>3. CASE PortalRetried(t, s, outcome) /\ UNCHANGED ref
      BY <1>1, <1>2, <2>2, <2>3, SettledCInv DEF PortalRetried
  <2>4. CASE StartRefresh(t, s) /\ call[t][s].kind = "data"
      BY <1>1, <2>2, <2>4, WaitCInv
  <2>5. CASE PortalSettles(t, s, outcome) /\ UNCHANGED ref
    <3>1. CASE call[t][s].kind = "me"
      <4>1. PortalMe(t, s, outcome)
          BY <2>5, <3>1 DEF PortalSettles
      <4>2. CASE outcome = "ok" /\ tab[t].token = call[t][s].access
        <5>1. call[t][s].access \in Token
            BY <2>1, <3>1, <4>2, OkIsSound
        <5> QED
            BY <1>1, <1>2, <1>3, <2>2, <2>5, <3>1, <4>1, <4>2, <5>1, SettledCInv DEF PortalMe
      <4>3. CASE ~(outcome = "ok" /\ tab[t].token = call[t][s].access)
          BY <1>1, <1>2, <1>3, <2>2, <2>5, <4>1, <4>3, SettledCInv DEF PortalMe
      <4> QED
          BY <4>2, <4>3
    <3>2. CASE call[t][s].kind # "me"
        BY <1>1, <1>2, <1>3, <2>2, <2>5, <3>2, SettledCInv DEF PortalSettles, Logout
    <3> QED
        BY <3>1, <3>2
  <2> QED
      BY <2>1, <2>3, <2>4, <2>5
<1> QED
    BY <1>4, <1>5

-----------------------------------------------------------------------------
(* The end of a refresh. *)

\* The refresh of a student's only tab is the only one.
LEMMA OnlyRefresh ==
    ASSUME CInv, Students, NEW t \in Tabs, NEW s \in Slots, <<t, s>> \in lanes,
           ref[t][s].pc # "none"
    PROVE  \A u \in Tabs, q \in Slots : u # t \/ q # s => ref[u][q].pc = "none"
<1>1. \A u \in Tabs, q \in Slots : u # t => ref[u][q].pc = "none"
    BY OnlyTab
<1>2. \A q \in Slots : q # s => ref[t][q].pc = "none"
    BY DEF CInv, OneRefresh, Students
<1> QED
    BY <1>1, <1>2

\* A refresh of a student's only tab is over: nothing is sent any more, so only
\* the token that is stored now matters.
LEMMA OverIsCurrent ==
    ASSUME CInv, Students, UNCHANGED <<app, lanes, session>>,
           NEW t \in Tabs, NEW s \in Slots, <<t, s>> \in lanes, ref[t][s].pc # "none",
           OneRef(t, s, NoRefresh),
           store'.refresh # NoToken => session[store'.refresh].state # "rotated"
    PROVE  StoredIsCurrent'
<1>1. NoRefresh.pc = "none" /\ NoRefresh.issued = NoToken
    BY DEF NoRefresh
<1>2. \A u \in Tabs, q \in Slots : ref'[u][q].pc = "none"
    BY <1>1, OnlyRefresh DEF OneRef
<1>3. \A u \in Tabs, q \in Slots : ref'[u][q].issued = NoToken
  <2>1. \A u \in Tabs, q \in Slots : u # t \/ q # s => ref[u][q].issued = NoToken
      BY OnlyRefresh DEF CInv, StoredIsCurrent
  <2> QED
      BY <1>1, <2>1 DEF OneRef
<1> QED
    BY <1>2, <1>3 DEF StoredIsCurrent, Replaced

\* A student's tab stores both new tokens and sends what waited again.
LEMMA StudentRefreshedCInv ==
    ASSUME IInv, CInv, NEW t \in Tabs, NEW s \in Slots, <<t, s>> \in lanes,
           StudentRefreshed(t, s)
    PROVE  CInv'
<1> DEFINE n == ref[t][s].issued
           again(q) == [call[t][q] EXCEPT !.pc = "sent", !.again = TRUE,
                                          !.access = n, !.valid = Valid(n)]
<1>1. /\ UNCHANGED <<app, lanes, tab, session, reuses>>
      /\ app = "student" /\ ref[t][s].pc = "served" /\ n # NoToken
      /\ OneRef(t, s, NoRefresh) /\ NoRefresh.pc = "none"
      /\ store' = StoreTokens(n)
    BY CallSteps DEF StudentRefreshed, fixed, NoRefresh
<1>2. n \in Token /\ session[n].state # "free"
    BY <1>1, TokensKnown DEF IInv, TokensIssued
<1>3. store'.access = n /\ store'.refresh = n /\ store' # EmptyStore
    BY <1>1 DEF StoreTokens, EmptyStore
<1>4. \A u \in Tabs, q \in Slots :
          \/ call'[u][q] = call[u][q] /\ (u = t => call[u][q].pc # "waiting")
          \/ /\ u = t /\ call[t][q].pc = "waiting" /\ call'[t][q].pc = "sent"
             /\ call'[t][q].kind = call[t][q].kind
             /\ call'[t][q].access = n /\ call'[t][q].body = call[t][q].body
  <2>1. call \in [Tabs -> [Slots -> Call]]
      BY DEF IInv, TypeOK
  <2>2. call' = [call EXCEPT ![t] =
                   [q \in Slots |-> IF q \in Waiting(t) THEN again(q) ELSE call[t][q]]]
      BY DEF StudentRefreshed
  <2>3. \A q \in Slots : /\ again(q).pc = "sent" /\ again(q).kind = call[t][q].kind
                         /\ again(q).access = n /\ again(q).body = call[t][q].body
      BY <2>1 DEF Call
  <2> HIDE DEF again
  <2>4. \A q \in Slots : call'[t][q] = IF q \in Waiting(t) THEN again(q) ELSE call[t][q]
      BY <2>1, <2>2
  <2>5. \A u \in Tabs : u # t => call'[u] = call[u]
      BY <2>1, <2>2
  <2> QED
      BY <2>3, <2>4, <2>5 DEF Waiting
<1> HIDE DEF again, n
<1>5. \A u \in Tabs, q \in Slots : call'[u][q].kind = call[u][q].kind
                                   /\ call'[u][q].body = call[u][q].body
    BY <1>4
<1>6. \A q \in Slots : q # s => ref[t][q].pc = "none"
    BY <1>1 DEF CInv, OneRefresh
<1>7. RequestsShaped'
  <2>1. ASSUME NEW u \in Tabs, NEW q \in Slots
        PROVE  /\ call'[u][q].pc = "idle" => call'[u][q].kind = "none"
               /\ call'[u][q].kind = "login" => call'[u][q].pc = "sent"
               /\ call'[u][q].pc = "served" => call'[u][q].kind = "logout"
               /\ call'[u][q].pc # "idle" => <<u, q>> \in lanes
      BY <1>4 DEF CInv, RequestsShaped
  <2>2. ASSUME NEW u \in Tabs, NEW q \in Slots, ref'[u][q].pc # "none"
        PROVE  call'[u][q].pc = "waiting"
    <3>1. u # t /\ ref[u][q].pc # "none"
        BY <1>1, <1>6, <2>2 DEF OneRef
    <3>2. call'[u][q] = call[u][q]
        BY <1>4, <3>1
    <3>3. ref[u][q].pc # "none" => call[u][q].pc = "waiting"
        BY DEF CInv, RequestsShaped
    <3> QED
        BY <3>1, <3>2, <3>3
  <2>3. \A u \in Tabs : tab'[u].status # "closed" => \E q \in Slots : <<u, q>> \in lanes'
      BY <1>1 DEF CInv, RequestsShaped
  <2> QED
      BY <1>1, <2>1, <2>2, <2>3 DEF RequestsShaped
<1>8. OneRefresh'
    BY <1>1 DEF CInv, OneRefresh, OneRef
<1>9. SentIsIssued'
  <2>1. Issued(n) /\ \A m : Issued(m)' <=> Issued(m)
      BY <1>1, <1>2 DEF Issued
  <2>2. \A u \in Tabs, q \in Slots : Issued(call'[u][q].access) /\ Issued(call'[u][q].body)
      BY <1>4, <2>1 DEF CInv, SentIsIssued
  <2> QED
      BY <1>1, <1>3, <2>1, <2>2 DEF CInv, SentIsIssued
<1>10. WrongRoleLeaves' /\ PortalFits' /\ PortalPresentsHeads' /\ OneUnrotated' /\ ReuseHasACause'
    BY <1>1, <1>5 DEF CInv, WrongRoleLeaves, PortalFits, PortalPresentsHeads, OneUnrotated,
                      ReuseHasACause, Students, OneTab
<1>11. MeAsksAlone' /\ SignedInHasTokens'
  <2>1. \A u \in Tabs, q \in Slots : call[u][q].pc = "idle" => call'[u][q].pc = "idle"
      BY <1>4
  <2> QED
      BY <1>1, <1>3, <1>5, <2>1 DEF CInv, MeAsksAlone, SignedInHasTokens, Students, OneTab
<1>12. StoredIsCurrent'
  <2>1. CASE Students
    <3>1. session[n].state # "rotated"
        BY <1>1, <2>1 DEF CInv, StoredIsCurrent, n
    <3> QED
        BY <1>1, <1>3, <2>1, <3>1, OverIsCurrent
  <2>2. CASE ~Students
      BY <1>1, <2>2 DEF StoredIsCurrent, Students, OneTab
  <2> QED
      BY <2>1, <2>2
<1>13. ServedIsDead'
  <2>1. \A u \in Tabs, q \in Slots : call'[u][q].pc = "served" => call[u][q].pc = "served"
      BY <1>4
  <2> QED
      BY <1>1, <1>5, <2>1 DEF CInv, ServedIsDead
<1> QED
    BY <1>7, <1>8, <1>9, <1>10, <1>11, <1>12, <1>13 DEF CInv

\* A student's tab gives the session up with everything that waited for it.
LEMMA GivesUpCInv ==
    ASSUME IInv, CInv, NEW t \in Tabs, NEW s \in Slots, <<t, s>> \in lanes,
           app = "student", ref[t][s].pc # "none", GiveUp(t), OneRef(t, s, NoRefresh),
           UNCHANGED <<app, lanes, session, reuses>>
    PROVE  CInv'
<1>1. /\ store'.access = NoToken /\ store'.refresh = NoToken /\ NoRefresh.pc = "none"
      /\ Idle.pc = "idle" /\ Idle.kind = "none" /\ Idle.access = NoToken /\ Idle.body = NoToken
    BY DEF GiveUp, EmptyStore, NoRefresh, Idle
<1>2. SignsOut(t)
    BY TabSteps DEF GiveUp
<1>3. \A u \in Tabs, q \in Slots :
          IF u = t /\ call[t][q].pc = "waiting" THEN call'[u][q] = Idle
          ELSE call'[u][q] = call[u][q]
  <2>1. call \in [Tabs -> [Slots -> Call]]
      BY DEF IInv, TypeOK
  <2> QED
      BY <2>1 DEF GiveUp, Waiting
<1>4. \A q \in Slots : q # s => ref[t][q].pc = "none"
    BY DEF CInv, OneRefresh
<1>5. \A u \in Tabs : tab'[u].status = "signed" => u # t /\ tab'[u] = tab[u]
    BY <1>2 DEF SignsOut, OtherTabs
<1>6. RequestsShaped'
  <2>1. ASSUME NEW u \in Tabs, NEW q \in Slots
        PROVE  /\ call'[u][q].pc = "idle" => call'[u][q].kind = "none"
               /\ call'[u][q].kind = "login" => call'[u][q].pc = "sent"
               /\ call'[u][q].pc = "served" => call'[u][q].kind = "logout"
               /\ call'[u][q].pc # "idle" => <<u, q>> \in lanes
      BY <1>1, <1>3 DEF CInv, RequestsShaped
  <2>2. ASSUME NEW u \in Tabs, NEW q \in Slots, ref'[u][q].pc # "none"
        PROVE  call'[u][q].pc = "waiting"
    <3>1. u # t /\ ref[u][q].pc # "none"
        BY <1>1, <1>4, <2>2 DEF OneRef
    <3>2. call'[u][q] = call[u][q]
        BY <1>3, <3>1
    <3>3. ref[u][q].pc # "none" => call[u][q].pc = "waiting"
        BY DEF CInv, RequestsShaped
    <3> QED
        BY <3>1, <3>2, <3>3
  <2>3. \A u \in Tabs : tab'[u].status # "closed" => \E q \in Slots : <<u, q>> \in lanes'
      BY <1>2 DEF CInv, RequestsShaped, SignsOut, OtherTabs
  <2> QED
      BY <2>1, <2>2, <2>3 DEF RequestsShaped
<1>7. OneRefresh'
    BY <1>1 DEF CInv, OneRefresh, OneRef
<1>8. SentIsIssued'
  <2>1. Issued(NoToken) /\ \A m : Issued(m)' <=> Issued(m)
      BY DEF Issued
  <2>2. \A u \in Tabs, q \in Slots : Issued(call'[u][q].access) /\ Issued(call'[u][q].body)
      BY <1>1, <1>3, <2>1 DEF CInv, SentIsIssued
  <2> QED
      BY <1>1, <1>5, <2>1, <2>2 DEF CInv, SentIsIssued
<1>9. WrongRoleLeaves'
    BY <1>3, <1>5 DEF CInv, WrongRoleLeaves
<1>10. PortalFits' /\ PortalPresentsHeads' /\ OneUnrotated' /\ ReuseHasACause'
    BY DEF CInv, PortalFits, PortalPresentsHeads, OneUnrotated, ReuseHasACause, Students, OneTab
<1>11. MeAsksAlone' /\ SignedInHasTokens'
  <2> SUFFICES ASSUME Students
               PROVE  /\ \A u \in Tabs, q \in Slots : call'[u][q].kind # "me"
                      /\ \A u \in Tabs : tab'[u].status # "signed"
      BY DEF MeAsksAlone, SignedInHasTokens, Students, OneTab
  <2>1. \A u \in Tabs : u # t => /\ tab[u].status = "closed"
                                 /\ \A q \in Slots : call[u][q].pc = "idle"
      BY OnlyTab
  <2>2. call[t][s].pc = "waiting"
      BY DEF CInv, RequestsShaped
  <2>3. ASSUME NEW u \in Tabs, NEW q \in Slots, call'[u][q].kind = "me"
        PROVE  FALSE
    <3>1. call[u][q].kind = "me" /\ call'[u][q] = call[u][q]
        BY <1>1, <1>3, <2>3
    <3>2. call[u][q].pc # "idle"
        BY <3>1 DEF CInv, RequestsShaped
    <3>3. u = t /\ q # s
        BY <1>1, <1>3, <2>1, <2>2, <3>1, <3>2
    <3>4. call[t][s].pc = "idle"
        BY <3>1, <3>3 DEF CInv, MeAsksAlone
    <3> QED
        BY <2>2, <3>4
  <2> QED
      BY <1>5, <2>1, <2>3
<1>12. StoredIsCurrent'
  <2>1. CASE Students
      BY <1>1, <2>1, OverIsCurrent
  <2>2. CASE ~Students
      BY <2>2 DEF StoredIsCurrent, Students, OneTab
  <2> QED
      BY <2>1, <2>2
<1>13. ServedIsDead'
    BY <1>1, <1>3 DEF CInv, ServedIsDead
<1> QED
    BY <1>6, <1>7, <1>8, <1>9, <1>10, <1>11, <1>12, <1>13 DEF CInv

\* A refresh of the portal is over: its request is sent again or given up, and
\* the refresh token that came with the answer is not stored.
LEMMA PortalEndsCInv ==
    ASSUME IInv, CInv, NEW t \in Tabs, NEW s \in Slots, <<t, s>> \in lanes,
           app = "admin", ref[t][s].pc # "none", OneRef(t, s, NoRefresh),
           UNCHANGED <<app, lanes, tab, session, reuses>>,
           store'.refresh \in {NoToken, store.refresh},
           store'.access \in {NoToken, store.access, ref[t][s].issued},
           NEW c, OneCall(t, s, c),
           \/ c = Idle
           \/ /\ c.pc = "sent" /\ c.access = ref[t][s].issued
              /\ c.body = call[t][s].body
    PROVE  CInv'
<1>1. /\ NoRefresh.pc = "none"
      /\ Idle.pc = "idle" /\ Idle.kind = "none" /\ Idle.access = NoToken /\ Idle.body = NoToken
      /\ ~Students /\ ~Students'
    BY DEF NoRefresh, Idle, Students
<1>2. RequestsShaped'
  <2>1. call[t][s].pc = "waiting"
      BY DEF CInv, RequestsShaped
  <2>2. ASSUME NEW u \in Tabs, NEW q \in Slots
        PROVE  /\ call'[u][q].pc = "idle" => call'[u][q].kind = "none"
               /\ call'[u][q].kind = "login" => call'[u][q].pc = "sent"
               /\ call'[u][q].pc = "served" => call'[u][q].kind = "logout"
               /\ call'[u][q].pc # "idle" => <<u, q>> \in lanes
      BY <1>1 DEF CInv, RequestsShaped, OneCall
  <2>3. ASSUME NEW u \in Tabs, NEW q \in Slots, ref'[u][q].pc # "none"
        PROVE  call'[u][q].pc = "waiting"
    <3>1. (u # t \/ q # s) /\ ref[u][q].pc # "none"
        BY <1>1, <2>3 DEF OneRef
    <3>2. call'[u][q] = call[u][q]
        BY <3>1 DEF OneCall
    <3>3. ref[u][q].pc # "none" => call[u][q].pc = "waiting"
        BY DEF CInv, RequestsShaped
    <3> QED
        BY <3>1, <3>2, <3>3
  <2>4. \A u \in Tabs : tab'[u].status # "closed" => \E q \in Slots : <<u, q>> \in lanes'
      BY DEF CInv, RequestsShaped
  <2> QED
      BY <2>2, <2>3, <2>4 DEF RequestsShaped
<1>3. SentIsIssued'
  <2>1. Issued(NoToken) /\ \A m : Issued(m)' <=> Issued(m)
      BY DEF Issued
  <2>2. Issued(ref[t][s].issued)
      BY DEF IInv, TokensIssued, Issued
  <2>3. Issued(call[t][s].body) /\ Issued(store.access)
      BY DEF CInv, SentIsIssued
  <2>4. Issued(c.access) /\ Issued(c.body)
      BY <1>1, <2>1, <2>2, <2>3
  <2>5. \A u \in Tabs, q \in Slots : Issued(call'[u][q].access) /\ Issued(call'[u][q].body)
      BY <2>4 DEF CInv, SentIsIssued, OneCall
  <2> QED
      BY <2>1, <2>2, <2>3, <2>5 DEF CInv, SentIsIssued
<1>4. PortalPresentsHeads'
  <2>1. \A n : IsHead(n)' <=> IsHead(n)
      BY DEF IsHead
  <2>2. \A u \in Tabs, q \in Slots : ref'[u][q].pc # "none" => IsHead(ref'[u][q].token)
      BY <1>1 DEF CInv, PortalPresentsHeads, OneRef
  <2>3. store'.refresh # NoToken => IsHead(store'.refresh)
      BY DEF CInv, PortalPresentsHeads
  <2> QED
      BY <2>1, <2>2, <2>3 DEF CInv, PortalPresentsHeads
<1>5. WrongRoleLeaves'
    BY DEF CInv, WrongRoleLeaves, PortalFits, SentIsIssued
<1>6. OneRefresh' /\ PortalFits' /\ OneUnrotated'
    BY DEF CInv, OneRefresh, PortalFits, OneUnrotated
<1>7. MeAsksAlone' /\ SignedInHasTokens' /\ StoredIsCurrent' /\ ReuseHasACause'
    BY <1>1 DEF MeAsksAlone, SignedInHasTokens, StoredIsCurrent, ReuseHasACause
<1>8. ServedIsDead'
    BY <1>1 DEF CInv, ServedIsDead, OneCall
<1> QED
    BY <1>2, <1>3, <1>4, <1>5, <1>6, <1>7, <1>8 DEF CInv

\* The portal stores the new access token.
LEMMA PortalRefreshedCInv ==
    ASSUME IInv, CInv, NEW t \in Tabs, NEW s \in Slots, <<t, s>> \in lanes,
           PortalRefreshed(t, s)
    PROVE  CInv'
<1> DEFINE n == ref[t][s].issued
           c == [call[t][s] EXCEPT !.pc = "sent", !.again = TRUE,
                                   !.access = n, !.valid = Valid(n)]
<1>1. /\ UNCHANGED <<app, lanes, tab, session, reuses>>
      /\ app = "admin" /\ ref[t][s].pc # "none" /\ OneRef(t, s, NoRefresh)
      /\ store' = [store EXCEPT !.access = n]
    BY CallSteps DEF PortalRefreshed, PortalKeeps, fixed
<1>2. OneCall(t, s, c)
  <2>1. call' = [call EXCEPT ![t][s] = c]
      BY DEF PortalRefreshed, IInv, TypeOK
  <2> HIDE DEF c
  <2> QED
      BY <2>1, CallSteps
<1>3. c.pc = "sent" /\ c.access = n /\ c.body = call[t][s].body
    BY CallSteps DEF Call
<1>4. store'.refresh = store.refresh /\ store'.access = n
    BY <1>1 DEF IInv, TypeOK, Store
<1> HIDE DEF c
<1> QED
    BY <1>1, <1>2, <1>3, <1>4, PortalEndsCInv

\* A refresh is refused or lost.
LEMMA RefreshFailsCInv ==
    ASSUME IInv, CInv, NEW t \in Tabs, NEW s \in Slots, <<t, s>> \in lanes,
           StudentRefused(t, s) \/ PortalRefused(t, s) \/ LoseRefresh(t, s)
    PROVE  CInv'
<1>1. /\ UNCHANGED <<app, lanes, session, reuses>>
      /\ ref[t][s].pc # "none" /\ OneRef(t, s, NoRefresh)
    BY CallSteps DEF StudentRefused, PortalRefused, LoseRefresh, fixed, serverVars
<1>2. CASE app = "student" /\ GiveUp(t)
    BY <1>1, <1>2, GivesUpCInv
<1>3. CASE app = "admin" /\ UNCHANGED tab /\ call' = Done(t, s) /\ store' \in {store, EmptyStore}
  <2>1. OneCall(t, s, Idle)
      BY <1>3, CallSteps
  <2>2. /\ store'.refresh \in {NoToken, store.refresh}
        /\ store'.access \in {NoToken, store.access, ref[t][s].issued}
      BY <1>3 DEF EmptyStore
  <2> QED
      BY <1>1, <1>3, <2>1, <2>2, PortalEndsCInv
<1>4. app \in {"student", "admin"}
    BY DEF IInv, TypeOK, Apps
<1> QED
    BY <1>2, <1>3, <1>4 DEF StudentRefused, PortalRefused, LoseRefresh

-----------------------------------------------------------------------------
(* Pages and forms. *)

\* A page is opened or reloaded: its requests are abandoned, and it asks who is
\* signed in.
LEMMA LoadCInv ==
    ASSUME IInv, CInv, NEW t \in Tabs, NEW s \in Slots, <<t, s>> \in lanes, Load(t, s)
    PROVE  CInv'
<1>1. UNCHANGED <<app, lanes, store, session, reuses>>
    BY DEF Load, fixed
<1>2. Students' = Students
    BY <1>1 DEF Students, OneTab
<1>3. /\ OtherTabs(t)
      /\ tab'[t].status = IF store.access # NoToken THEN "loading" ELSE "guest"
    BY DEF Load, OtherTabs, IInv, TypeOK
<1>4. /\ Idle.pc = "idle" /\ Idle.kind = "none" /\ Idle.access = NoToken /\ Idle.body = NoToken
      /\ NewCall("me").pc = "sent" /\ NewCall("me").kind = "me"
      /\ NewCall("me").access = store.access /\ NewCall("me").body = NoToken
      /\ NoRefresh.pc = "none" /\ NoRefresh.issued = NoToken
    BY DEF Idle, NewCall, NoRefresh
<1>5. \A u \in Tabs, q \in Slots :
          \/ u # t /\ call'[u][q] = call[u][q]
          \/ u = t /\ call'[u][q] = Idle
          \/ u = t /\ q = s /\ store.access # NoToken /\ call'[u][q] = NewCall("me")
  <2> DEFINE me == NewCall("me")
  <2> HIDE DEF me
  <2>1. call' = [call EXCEPT ![t] =
                   [q \in Slots |-> IF q = s /\ store.access # NoToken THEN me ELSE Idle]]
      BY DEF Load, me
  <2>2. call \in [Tabs -> [Slots -> Call]]
      BY DEF IInv, TypeOK
  <2>3. \A u \in Tabs : u # t => call'[u] = call[u]
      BY <2>1, <2>2
  <2>4. \A q \in Slots : call'[t][q] = IF q = s /\ store.access # NoToken THEN me ELSE Idle
      BY <2>1, <2>2
  <2> QED
      BY <2>3, <2>4 DEF me
<1>6. \A u \in Tabs, q \in Slots : ref'[u][q] = IF u = t THEN NoRefresh ELSE ref[u][q]
    BY DEF Load, IInv, TypeOK
<1>7. \A u \in Tabs : tab'[u].status = "signed" => u # t /\ tab'[u] = tab[u]
    BY <1>3 DEF OtherTabs
<1>8. RequestsShaped'
  <2>1. ASSUME NEW u \in Tabs, NEW q \in Slots
        PROVE  /\ call'[u][q].pc = "idle" => call'[u][q].kind = "none"
               /\ call'[u][q].kind = "login" => call'[u][q].pc = "sent"
               /\ call'[u][q].pc = "served" => call'[u][q].kind = "logout"
               /\ call'[u][q].pc # "idle" => <<u, q>> \in lanes
      BY <1>4, <1>5 DEF CInv, RequestsShaped
  <2>2. ASSUME NEW u \in Tabs, NEW q \in Slots, ref'[u][q].pc # "none"
        PROVE  call'[u][q].pc = "waiting"
    <3>1. u # t /\ ref[u][q].pc # "none"
        BY <1>4, <1>6, <2>2
    <3>2. call'[u][q] = call[u][q]
        BY <1>5, <3>1
    <3>3. ref[u][q].pc # "none" => call[u][q].pc = "waiting"
        BY DEF CInv, RequestsShaped
    <3> QED
        BY <3>1, <3>2, <3>3
  <2>3. \A u \in Tabs : tab'[u].status # "closed" => \E q \in Slots : <<u, q>> \in lanes'
      BY <1>1, <1>3, SMTT(30) DEF CInv, RequestsShaped, OtherTabs
  <2> QED
      BY <1>1, <2>1, <2>2, <2>3 DEF RequestsShaped
<1>9. OneRefresh'
    BY <1>1, <1>4, <1>6 DEF CInv, OneRefresh
<1>10. SentIsIssued'
  <2>1. Issued(NoToken) /\ Issued(store.access) /\ \A m : Issued(m)' <=> Issued(m)
      BY <1>1 DEF Issued, CInv, SentIsIssued
  <2>2. \A u \in Tabs, q \in Slots : Issued(call'[u][q].access) /\ Issued(call'[u][q].body)
      BY <1>4, <1>5, <2>1 DEF CInv, SentIsIssued
  <2> QED
      BY <1>1, <1>7, <2>1, <2>2 DEF CInv, SentIsIssued
<1>11. WrongRoleLeaves'
  <2>1. \A u \in Tabs, q \in Slots : u # t => call'[u][q] = call[u][q]
      BY <1>5
  <2> QED
      BY <1>1, <1>7, <2>1 DEF CInv, WrongRoleLeaves
<1>12. PortalFits' /\ OneUnrotated' /\ ReuseHasACause'
    BY <1>1, <1>2 DEF CInv, PortalFits, OneUnrotated, ReuseHasACause
<1>13. PortalPresentsHeads'
  <2>1. \A n : IsHead(n)' <=> IsHead(n)
      BY <1>1 DEF IsHead
  <2>2. app = "admin" => \A u \in Tabs, q \in Slots :
            ref'[u][q].pc # "none" => IsHead(ref'[u][q].token)
      BY <1>4, <1>6 DEF CInv, PortalPresentsHeads
  <2> QED
      BY <1>1, <2>1, <2>2 DEF CInv, PortalPresentsHeads
<1>14. MeAsksAlone' /\ SignedInHasTokens'
  <2> SUFFICES ASSUME Students
               PROVE  /\ \A u \in Tabs, q \in Slots : call'[u][q].kind = "me" =>
                            /\ tab'[u].status = "loading" /\ store # EmptyStore
                            /\ \A p \in Slots : p # q => call'[u][p].pc = "idle"
                      /\ \A u \in Tabs : tab'[u].status = "signed" => store # EmptyStore
      BY <1>1, <1>2 DEF MeAsksAlone, SignedInHasTokens
  <2>1. \A u \in Tabs : u # t => /\ tab[u].status = "closed"
                                 /\ \A q \in Slots : call[u][q].pc = "idle"
      BY OnlyTab
  <2>2. ASSUME NEW u \in Tabs, NEW q \in Slots, call'[u][q].kind = "me"
        PROVE  u = t /\ q = s /\ store.access # NoToken
    <3>1. u # t => call[u][q].kind = "none"
        BY <2>1 DEF CInv, RequestsShaped
    <3> QED
        BY <1>4, <1>5, <2>2, <3>1
  <2>3. store.access # NoToken => store # EmptyStore
      BY DEF EmptyStore
  <2>4. \A p \in Slots : p # s => call'[t][p].pc = "idle"
      BY <1>4, <1>5
  <2> QED
      BY <1>3, <1>7, <2>1, <2>2, <2>3, <2>4
<1>15. StoredIsCurrent'
  <2> SUFFICES ASSUME Students
               PROVE  StoredIsCurrent'
      BY <1>2 DEF StoredIsCurrent
  <2>1. \A u \in Tabs, q \in Slots : ref'[u][q].pc = "none"
      BY <1>4, <1>6, OnlyTab
  <2>2. \A u \in Tabs, q \in Slots : ref'[u][q].issued = NoToken
    <3>1. \A u \in Tabs, q \in Slots : u # t => ref[u][q].issued = NoToken
        BY OnlyTab DEF CInv, StoredIsCurrent
    <3> QED
        BY <1>4, <1>6, <3>1
  <2>3. ASSUME store.refresh # NoToken, Replaced(store.refresh)'
        PROVE  FALSE
    <3>1. store.refresh \in Token
        BY <2>3, TokensKnown
    <3>2. /\ spent'[store.refresh] = "lost" \/ spent'[store.refresh] = spent[store.refresh]
          /\ \A q \in Slots : ref[t][q].issued # NoToken /\ ref[t][q].token = store.refresh =>
                spent'[store.refresh] = "lost"
        BY <3>1 DEF Load
    <3>3. session[store.refresh].state = "rotated" /\ spent'[store.refresh] # "lost"
        BY <1>1, <2>3 DEF Replaced
    <3>4. Replaced(store.refresh)
        BY <3>2, <3>3 DEF Replaced
    <3>5. PICK u \in Tabs, q \in Slots :
              ref[u][q].pc # "none" /\ ref[u][q].issued # NoToken
              /\ ref[u][q].token = store.refresh
        BY <2>3, <3>4 DEF CInv, StoredIsCurrent
    <3>6. u = t
        BY <3>5, OnlyTab
    <3> QED
        BY <3>2, <3>3, <3>5, <3>6
  <2> QED
      BY <1>1, <2>1, <2>2, <2>3 DEF StoredIsCurrent
<1>16. ServedIsDead'
    BY <1>1, <1>4, <1>5 DEF CInv, ServedIsDead
<1> QED
    BY <1>8, <1>9, <1>10, <1>11, <1>12, <1>13, <1>14, <1>15, <1>16 DEF CInv

\* A request is lost, or the form is refused.
LEMMA FailsCInv ==
    ASSUME IInv, CInv, NEW t \in Tabs, NEW s \in Slots, <<t, s>> \in lanes,
           LoginFails(t, s) \/ LoseCall(t, s)
    PROVE  CInv'
<1>1. /\ UNCHANGED <<app, lanes, session, spent, reuses, ref>>
      /\ call[t][s].pc \in {"sent", "served"}
    BY DEF LoginFails, LoseCall, fixed, serverVars, CInv, RequestsShaped
<1>2. call' = Done(t, s) => OneCall(t, s, Idle)
    BY CallSteps
<1>3. tab' = SignedOut(t) => SignsOut(t)
    BY TabSteps
<1>4. CASE LoginFails(t, s)
    BY <1>1, <1>2, <1>3, <1>4, SettledCInv DEF LoginFails
<1>5. CASE StudentSettles(t, s, "error")
  <2>1. CASE call[t][s].kind = "data"
      BY <1>1, <1>2, <1>5, <2>1, SettledCInv DEF StudentSettles, StudentData
  <2>2. CASE call[t][s].kind # "data"
      BY <1>1, <1>2, <1>3, <1>5, <2>2, SettledCInv DEF StudentSettles, StudentMe, Logout
  <2> QED
      BY <2>1, <2>2
<1>6. CASE app = "admin" /\ PortalSettles(t, s, "error")
  <2>1. CASE tab' = tab
      BY <1>1, <1>2, <1>6, <2>1, SettledCInv DEF PortalSettles, PortalMe, Logout
  <2>2. CASE tab' # tab
      BY <1>1, <1>2, <1>3, <1>6, <2>2, SettledCInv DEF PortalSettles, PortalMe, Logout
  <2> QED
      BY <2>1, <2>2
<1>7. CASE app = "admin" /\ PortalRetried(t, s, "error")
    BY <1>1, <1>2, <1>7, SettledCInv DEF PortalRetried
<1>8. app \in {"student", "admin"}
    BY DEF IInv, TypeOK, Apps
<1> QED
    BY <1>4, <1>5, <1>6, <1>7, <1>8 DEF LoseCall

\* A family begins: nobody has its token yet.
LEMMA LoginCInv ==
    ASSUME IInv, CInv, NEW t \in Tabs, NEW s \in Slots, <<t, s>> \in lanes,
           NEW fits \in BOOLEAN, Login(t, s, fits)
    PROVE  CInv'
<1>1. PICK n \in Token :
          /\ UNCHANGED <<app, lanes, ref, spent, reuses>>
          /\ call[t][s].kind = "login" /\ (app = "admin" => fits)
          /\ session' = [session EXCEPT ![n] =
                           [state |-> "live", family |-> n, fits |-> fits]]
          /\ IF app = "student" THEN StudentLogin(t, s, n, fits) ELSE PortalLogin(t, s, n)
          /\ session[n].state = "free"
    BY NextIsFree DEF Login, IssueTokens, fixed
<1>2. n \in Token /\ session[n].state = "free"
    BY <1>1
<1> DEFINE row == [state |-> "live", family |-> n, fits |-> fits]
           out == [Idle EXCEPT !.kind = "logout", !.pc = "sent",
                               !.access = n, !.body = n, !.valid = TRUE]
           me == [Idle EXCEPT !.kind = "me", !.pc = "sent", !.access = n, !.valid = TRUE]
<1>3. /\ session'[n] = row
      /\ \A m \in Token : m # n => session'[m] = session[m]
    BY <1>1, <1>2 DEF IInv, TypeOK
<1>4. row.state = "live" /\ row.family = n /\ row.fits = fits
    OBVIOUS
<1> HIDE DEF row
<1>5. n # NoToken /\ store'.access = n /\ store'.refresh = n /\ store' # EmptyStore
  <2>1. store' = StoreTokens(n)
      BY <1>1 DEF StudentLogin, PortalLogin
  <2>2. n # NoToken
      BY <1>2, SessionsAssumption DEF NoToken, Token
  <2> QED
      BY <2>1, <2>2 DEF StoreTokens, EmptyStore
<1>6. SignsIn(t, n, FALSE)
  <2>1. tab' = SignedIn(t, n, FALSE) => SignsIn(t, n, FALSE)
      BY TabSteps
  <2>2. tab' = [SignedIn(t, n, FALSE) EXCEPT ![t].token = n] => SignsIn(t, n, FALSE)
    <3> DEFINE in == SignedIn(t, n, FALSE)
    <3>1. tab \in [Tabs -> Tab] /\ tab[t] \in Tab
        BY DEF IInv, TypeOK
    <3>2. /\ DOMAIN in = Tabs /\ \A u \in Tabs : u # t => in[u] = tab[u]
          /\ in[t].status = "signed" /\ in[t].family = n /\ in[t].restored = FALSE
          /\ in[t] \in Tab
      <4>1. n \in MaybeToken
          BY <1>2, SessionsAssumption DEF MaybeToken, Token
      <4> QED
          BY <3>1, <4>1 DEF SignedIn, Tab
    <3>3. in = [u \in Tabs |-> in[u]]
        BY <3>1 DEF SignedIn
    <3> HIDE DEF in
    <3>4. tab' = [in EXCEPT ![t].token = n] =>
              /\ \A u \in Tabs : u # t => tab'[u] = tab[u]
              /\ tab'[t].status = "signed" /\ tab'[t].family = n /\ tab'[t].restored = FALSE
        BY <3>2, <3>3 DEF Tab
    <3> QED
        BY <3>4 DEF SignsIn, OtherTabs, in
  <2> QED
      BY <1>1, <2>1, <2>2 DEF StudentLogin, PortalLogin
<1>7. PICK c \in {Idle, out, me} :
          /\ OneCall(t, s, c)
          /\ app = "student" => c # me /\ (~fits => c = out)
  <2>1. CASE app = "student"
    <3>1. call' = Done(t, s) => OneCall(t, s, Idle)
        BY CallSteps
    <3>2. call' = [call EXCEPT ![t][s] = out] => OneCall(t, s, out)
        BY CallSteps
    <3>3. out # me /\ Idle # me
      <4>1. out.kind = "logout" /\ Idle.kind = "none" /\ me.kind = "me"
          BY DEF Idle
      <4> QED
          BY <4>1
    <3> QED
        BY <1>1, <2>1, <3>1, <3>2, <3>3 DEF StudentLogin
  <2>2. CASE app # "student"
    <3>1. call' = [call EXCEPT ![t][s] = me] => OneCall(t, s, me)
        BY CallSteps
    <3> QED
        BY <1>1, <2>2, <3>1 DEF PortalLogin
  <2> QED
      BY <2>1, <2>2
<1>8. /\ c.pc \in {"idle", "sent"} /\ (c.pc = "idle" => c.kind = "none") /\ c.kind # "login"
      /\ c.access \in {NoToken, n} /\ c.body \in {NoToken, n}
      /\ c = out => c.kind = "logout"
      /\ c.kind = "me" => c = me
  <2>1. /\ Idle.pc = "idle" /\ Idle.kind = "none"
        /\ Idle.access = NoToken /\ Idle.body = NoToken
      BY DEF Idle
  <2>2. /\ out.pc = "sent" /\ out.kind = "logout" /\ out.access = n /\ out.body = n
        /\ me.pc = "sent" /\ me.kind = "me" /\ me.access = n /\ me.body = NoToken
      BY DEF Idle
  <2> HIDE DEF out, me
  <2> QED
      BY <2>1, <2>2
<1> HIDE DEF out, me
<1>9. /\ \A m \in Token : session[m].state # "free" => m # n /\ session'[m] = session[m]
      /\ \A m \in Token : session[m].state # "free" => session[m].family # n
    BY <1>2, <1>3 DEF IInv, FamiliesKnown
<1>10. call[t][s].pc = "sent" /\ ref[t][s].pc = "none"
    BY <1>1 DEF CInv, RequestsShaped
<1>11. Students' = Students
    BY <1>1 DEF Students, OneTab
<1>12. RequestsShaped'
  <2>1. ASSUME NEW u \in Tabs, NEW q \in Slots
        PROVE  /\ call'[u][q].pc = "idle" => call'[u][q].kind = "none"
               /\ call'[u][q].kind = "login" => call'[u][q].pc = "sent"
               /\ call'[u][q].pc = "served" => call'[u][q].kind = "logout"
               /\ call'[u][q].pc # "idle" => <<u, q>> \in lanes
      BY <1>7, <1>8 DEF CInv, RequestsShaped, OneCall
  <2>2. ASSUME NEW u \in Tabs, NEW q \in Slots, ref'[u][q].pc # "none"
        PROVE  call'[u][q].pc = "waiting"
    <3>1. (u # t \/ q # s) /\ ref[u][q].pc # "none"
        BY <1>1, <1>10, <2>2
    <3>2. call'[u][q] = call[u][q]
        BY <1>7, <3>1 DEF OneCall
    <3>3. ref[u][q].pc # "none" => call[u][q].pc = "waiting"
        BY DEF CInv, RequestsShaped
    <3> QED
        BY <3>1, <3>2, <3>3
  <2>3. \A u \in Tabs : tab'[u].status # "closed" => \E q \in Slots : <<u, q>> \in lanes'
      BY <1>1, <1>6 DEF CInv, RequestsShaped, SignsIn, OtherTabs
  <2> QED
      BY <1>1, <2>1, <2>2, <2>3 DEF RequestsShaped
<1>13. OneRefresh' /\ PortalFits'
    BY <1>1, <1>2, <1>3, <1>4 DEF CInv, OneRefresh, PortalFits
<1>14. \A m \in MaybeToken : Issued(m) \/ m = n => (m # NoToken => session'[m].state # "free")
  <2>1. \A m \in MaybeToken : m # NoToken => m \in Token
      BY CallTokens
  <2> QED
      BY <1>3, <1>4, <1>9, <2>1 DEF Issued
<1>15. SentIsIssued'
  <2>1. NoToken \in MaybeToken /\ n \in MaybeToken /\ Issued(NoToken)
      BY <1>2, SessionsAssumption DEF Token, MaybeToken, NoToken, Issued
  <2>2. ASSUME NEW u \in Tabs, NEW q \in Slots
        PROVE  /\ call'[u][q].access # NoToken => session'[call'[u][q].access].state # "free"
               /\ call'[u][q].body # NoToken => session'[call'[u][q].body].state # "free"
    <3>1. CASE u = t /\ q = s
        BY <1>7, <1>8, <1>14, <2>1, <3>1 DEF OneCall
    <3>2. CASE u # t \/ q # s
      <4>1. /\ call[u][q].access \in MaybeToken /\ call[u][q].body \in MaybeToken
            /\ Issued(call[u][q].access) /\ Issued(call[u][q].body)
          BY CallTokens DEF CInv, SentIsIssued
      <4>2. call'[u][q] = call[u][q]
          BY <1>7, <3>2 DEF OneCall
      <4> QED
          BY <1>14, <4>1, <4>2
    <3> QED
        BY <3>1, <3>2
  <2>3. session'[store'.access].state # "free"
      BY <1>3, <1>4, <1>5
  <2>4. ASSUME NEW u \in Tabs, tab'[u].status = "signed"
        PROVE  tab'[u].family \in Token /\ session'[tab'[u].family].state # "free"
    <3>1. CASE u = t
        BY <1>2, <1>3, <1>4, <1>6, <3>1 DEF SignsIn
    <3>2. CASE u # t
        BY <1>6, <1>9, <2>4, <3>2 DEF SignsIn, OtherTabs, CInv, SentIsIssued
    <3> QED
        BY <3>1, <3>2
  <2> QED
      BY <2>2, <2>3, <2>4 DEF SentIsIssued, Issued
<1>16. PortalPresentsHeads'
  <2> SUFFICES ASSUME app = "admin"
               PROVE  PortalPresentsHeads'
      BY <1>1 DEF PortalPresentsHeads
  <2>1. ASSUME NEW u \in Tabs, NEW q \in Slots, ref'[u][q].pc # "none"
        PROVE  session'[ref'[u][q].token].family = ref'[u][q].token
    <3>1. ref'[u][q] = ref[u][q]
        BY <1>1
    <3>2. /\ ref[u][q].token \in Token /\ session[ref[u][q].token].state # "free"
          /\ session[ref[u][q].token].family = ref[u][q].token
        BY <2>1, <3>1, TokensKnown DEF IInv, TokensIssued, CInv, PortalPresentsHeads, IsHead
    <3> QED
        BY <1>9, <3>1, <3>2
  <2>2. session'[store'.refresh].family = store'.refresh
      BY <1>3, <1>4, <1>5
  <2>3. ASSUME NEW m \in Token, session'[m].state # "free", session'[m].family # m
        PROVE  /\ session[m].state # "free" /\ session[m].family # m
               /\ session'[m] = session[m]
               /\ session'[session'[m].family].state # "live"
    <3>1. session[m].state # "free" /\ session[m].family # m /\ session'[m] = session[m]
        BY <1>3, <1>4, <2>3
    <3>2. session[m].family \in Token /\ session[m].family # n
          /\ session[session[m].family].state # "live"
        BY <1>9, <3>1 DEF IInv, FamiliesKnown, CInv, PortalPresentsHeads, IsHead
    <3> QED
        BY <1>3, <3>1, <3>2
  <2>4. ASSUME NEW k \in Token, NEW m \in Token,
               session'[k].state # "free", session'[k].family # k,
               session'[m].state # "free", session'[m].family # m,
               session'[k].family = session'[m].family
        PROVE  k = m
    <3>1. /\ session[k].state # "free" /\ session[k].family # k /\ session'[k] = session[k]
          /\ session[m].state # "free" /\ session[m].family # m /\ session'[m] = session[m]
        BY <2>3, <2>4
    <3> QED
        BY <2>4, <3>1 DEF CInv, PortalPresentsHeads, IsHead
  <2> QED
      BY <2>1, <2>2, <2>3, <2>4 DEF PortalPresentsHeads, IsHead
<1>17. WrongRoleLeaves'
  <2> SUFFICES ASSUME NEW u \in Tabs, tab'[u].status = "signed", ~tab'[u].restored,
                      ~session'[tab'[u].family].fits
               PROVE  \E q \in Slots : call'[u][q].kind = "logout"
      BY DEF WrongRoleLeaves
  <2>1. CASE u = t
    <3>1. ~fits
        BY <1>3, <1>4, <1>6, <2>1 DEF SignsIn
    <3>2. app = "student"
        BY <1>1, <3>1 DEF IInv, TypeOK, Apps
    <3>3. call'[t][s].kind = "logout"
        BY <1>7, <1>8, <3>1, <3>2 DEF OneCall
    <3> QED
        BY <2>1, <3>3
  <2>2. CASE u # t
    <3>1. tab'[u] = tab[u] /\ tab[u].family \in Token /\ session[tab[u].family].state # "free"
        BY <1>6, <2>2 DEF SignsIn, OtherTabs, CInv, SentIsIssued
    <3>2. session'[tab[u].family] = session[tab[u].family]
        BY <1>9, <3>1
    <3>3. \E q \in Slots : call[u][q].kind = "logout"
        BY <3>1, <3>2 DEF CInv, WrongRoleLeaves
    <3> QED
        BY <1>7, <2>2, <3>3 DEF OneCall
  <2> QED
      BY <2>1, <2>2
<1>18. MeAsksAlone' /\ SignedInHasTokens'
  <2>1. ASSUME Students, NEW u \in Tabs, NEW q \in Slots, call'[u][q].kind = "me"
        PROVE  FALSE
    <3>1. u # t \/ q # s
        BY <1>7, <1>8, <2>1 DEF OneCall, Students
    <3>2. call[u][q].kind = "me"
        BY <1>7, <2>1, <3>1 DEF OneCall
    <3>3. call[u][q].pc # "idle"
        BY <3>2 DEF CInv, RequestsShaped
    <3>4. u = t
        BY <2>1, <3>3, OnlyTab
    <3>5. call[t][s].pc = "idle"
        BY <2>1, <3>1, <3>2, <3>4 DEF CInv, MeAsksAlone
    <3> QED
        BY <1>10, <3>5
  <2> QED
      BY <1>5, <1>11, <2>1 DEF MeAsksAlone, SignedInHasTokens
<1>19. OneUnrotated'
  <2> SUFFICES ASSUME NEW k \in Token, NEW m \in Token,
                      session'[k].state \notin {"free", "rotated"},
                      session'[m].state \notin {"free", "rotated"},
                      session'[k].family = session'[m].family
               PROVE  k = m
      BY DEF OneUnrotated
  <2>1. \A j \in Token : j # n /\ session'[j].state # "free" =>
            session[j].state # "free" /\ session'[j].family # n
      BY <1>3, <1>9
  <2>2. CASE k = n \/ m = n
      BY <1>3, <1>4, <2>1, <2>2
  <2>3. CASE k # n /\ m # n
      BY <1>3, <2>3 DEF CInv, OneUnrotated
  <2> QED
      BY <2>2, <2>3
<1>20. StoredIsCurrent'
  <2> SUFFICES ASSUME Students
               PROVE  StoredIsCurrent'
      BY <1>11 DEF StoredIsCurrent
  <2>1. session'[store'.refresh].state # "rotated"
      BY <1>3, <1>4, <1>5
  <2>2. ASSUME NEW u \in Tabs, NEW q \in Slots
        PROVE  /\ ref'[u][q].pc = "sent" =>
                     ~(session'[ref'[u][q].token].state = "rotated"
                       /\ spent'[ref'[u][q].token] # "lost")
               /\ ref'[u][q].issued # NoToken =>
                     session'[ref'[u][q].issued].state # "rotated" /\ ref'[u][q].pc = "served"
    <3>1. ref'[u][q] = ref[u][q] /\ spent' = spent
        BY <1>1
    <3>2. ref[u][q].pc # "none" => session'[ref[u][q].token] = session[ref[u][q].token]
        BY <1>9, TokensKnown DEF IInv, TokensIssued
    <3>3. ref[u][q].issued # NoToken => session'[ref[u][q].issued] = session[ref[u][q].issued]
        BY <1>9, TokensKnown DEF IInv, TokensIssued
    <3>4. ref[u][q].pc = "sent" => ~(session[ref[u][q].token].state = "rotated"
                                     /\ spent[ref[u][q].token] # "lost")
        BY DEF CInv, StoredIsCurrent, Replaced
    <3>5. ref[u][q].issued # NoToken =>
              session[ref[u][q].issued].state # "rotated" /\ ref[u][q].pc = "served"
        BY DEF CInv, StoredIsCurrent
    <3> QED
        BY <3>1, <3>2, <3>3, <3>4, <3>5
  <2> QED
      BY <2>1, <2>2 DEF StoredIsCurrent, Replaced
<1>21. ReuseHasACause'
    BY <1>1, <1>11 DEF CInv, ReuseHasACause
<1>22. ServedIsDead'
  <2> SUFFICES ASSUME NEW u \in Tabs, NEW q \in Slots,
                      call'[u][q].pc = "served", call'[u][q].body # NoToken
               PROVE  session'[call'[u][q].body].state # "live"
      BY DEF ServedIsDead
  <2>1. call'[u][q] = call[u][q]
      BY <1>7, <1>8 DEF OneCall
  <2>2. call[u][q].body \in Token /\ session[call[u][q].body].state # "free"
      BY <2>1, CallTokens DEF CInv, SentIsIssued, Issued
  <2>3. session[call[u][q].body].state # "live"
      BY <2>1 DEF CInv, ServedIsDead
  <2> QED
      BY <1>9, <2>1, <2>2, <2>3
<1> QED
    BY <1>12, <1>13, <1>15, <1>16, <1>17, <1>18, <1>19, <1>20, <1>21, <1>22 DEF CInv

-----------------------------------------------------------------------------
(* The server. *)

\* Where tokens only die, families keep their shape.
LEMMA RevokingKeeps ==
    ASSUME IInv, CInv,
           UNCHANGED <<app, lanes, store, spent, reuses>>,
           \A n \in Token :
              \/ session'[n] = session[n]
              \/ /\ session[n].state = "live" /\ session'[n].state = "revoked"
                 /\ session'[n].family = session[n].family
                 /\ session'[n].fits = session[n].fits,
           \A t \in Tabs, s \in Slots :
              \/ ref'[t][s] = ref[t][s]
              \/ /\ ref[t][s].pc = "read" /\ ref'[t][s].pc = "served"
                 /\ ref'[t][s].token = ref[t][s].token /\ ref'[t][s].issued = ref[t][s].issued
    PROVE  /\ KeepsTokens /\ PortalFits' /\ PortalPresentsHeads' /\ OneUnrotated'
           /\ StoredIsCurrent' /\ ReuseHasACause'
<1>1. Students' = Students
    BY DEF Students, OneTab
<1>2. \A n \in Token :
          /\ session'[n].family = session[n].family /\ session'[n].fits = session[n].fits
          /\ (session'[n].state = "free") <=> (session[n].state = "free")
          /\ (session'[n].state = "rotated") <=> (session[n].state = "rotated")
          /\ session'[n].state = "live" => session[n].state = "live"
    OBVIOUS
<1>3. KeepsTokens /\ PortalFits' /\ OneUnrotated' /\ ReuseHasACause'
    BY <1>1, <1>2 DEF CInv, KeepsTokens, PortalFits, OneUnrotated, ReuseHasACause
<1>4. PortalPresentsHeads'
  <2> SUFFICES ASSUME app = "admin"
               PROVE  PortalPresentsHeads'
      BY DEF PortalPresentsHeads
  <2>1. ASSUME NEW t \in Tabs, NEW s \in Slots, ref'[t][s].pc # "none"
        PROVE  session'[ref'[t][s].token].family = ref'[t][s].token
    <3>1. ref[t][s].pc # "none" /\ ref'[t][s].token = ref[t][s].token
        BY <2>1
    <3>2. ref[t][s].token \in Token /\ session[ref[t][s].token].family = ref[t][s].token
        BY <3>1, TokensKnown DEF CInv, PortalPresentsHeads, IsHead
    <3> QED
        BY <1>2, <3>1, <3>2
  <2>2. store'.refresh # NoToken => session'[store'.refresh].family = store'.refresh
      BY <1>2, TokensKnown DEF CInv, PortalPresentsHeads, IsHead
  <2>3. ASSUME NEW n \in Token, session'[n].state # "free", session'[n].family # n
        PROVE  session'[session'[n].family].state # "live"
    <3>1. session[n].family \in Token /\ session[session[n].family].state # "live"
        BY <1>2, <2>3 DEF IInv, FamiliesKnown, CInv, PortalPresentsHeads, IsHead
    <3> QED
        BY <1>2, <3>1
  <2>4. \A m, n \in Token :
            /\ session'[m].state # "free" /\ session'[m].family # m
            /\ session'[n].state # "free" /\ session'[n].family # n
            /\ session'[m].family = session'[n].family
            => m = n
      BY <1>2 DEF CInv, PortalPresentsHeads, IsHead
  <2> QED
      BY <2>1, <2>2, <2>3, <2>4 DEF PortalPresentsHeads, IsHead
<1>5. StoredIsCurrent'
  <2> SUFFICES ASSUME Students
               PROVE  StoredIsCurrent'
      BY <1>1 DEF StoredIsCurrent
  <2>1. \A n \in Token : Replaced(n)' <=> Replaced(n)
      BY <1>2 DEF Replaced
  <2>2. ASSUME store.refresh # NoToken, Replaced(store.refresh)'
        PROVE  \E t \in Tabs, s \in Slots :
                   ref'[t][s].pc # "none" /\ ref'[t][s].issued # NoToken
                   /\ ref'[t][s].token = store.refresh
    <3>1. session[store.refresh].state = "rotated" /\ spent[store.refresh] # "lost"
        BY <1>2, <2>2, TokensKnown DEF Replaced
    <3>2. PICK t \in Tabs, s \in Slots :
              ref[t][s].pc # "none" /\ ref[t][s].issued # NoToken
              /\ ref[t][s].token = store.refresh
        BY <2>2, <3>1 DEF CInv, StoredIsCurrent, Replaced
    <3>3. ref'[t][s].pc # "none" /\ ref'[t][s].issued # NoToken
          /\ ref'[t][s].token = store.refresh
        BY <3>2
    <3> QED
        BY <3>3
  <2>3. ASSUME NEW t \in Tabs, NEW s \in Slots
        PROVE  /\ ref'[t][s].pc = "sent" =>
                     ~(session'[ref'[t][s].token].state = "rotated"
                       /\ spent'[ref'[t][s].token] # "lost")
               /\ ref'[t][s].issued # NoToken =>
                     session'[ref'[t][s].issued].state # "rotated" /\ ref'[t][s].pc = "served"
    <3>1. ref[t][s].pc = "sent" => ~(session[ref[t][s].token].state = "rotated"
                                     /\ spent[ref[t][s].token] # "lost")
        BY DEF CInv, StoredIsCurrent, Replaced
    <3>2. ref[t][s].issued # NoToken =>
              session[ref[t][s].issued].state # "rotated" /\ ref[t][s].pc = "served"
        BY DEF CInv, StoredIsCurrent
    <3>3. /\ ref'[t][s].pc = "sent" => ref'[t][s] = ref[t][s]
          /\ ref'[t][s].issued = ref[t][s].issued
          /\ ref[t][s].pc = "served" => ref'[t][s].pc = "served"
        OBVIOUS
    <3> QED
        BY <1>2, <3>1, <3>2, <3>3, TokensKnown
  <2> QED
      BY <2>2, <2>3 DEF StoredIsCurrent, Replaced
<1> QED
    BY <1>3, <1>4, <1>5

\* A logout is served.
LEMMA ServeLogoutCInv ==
    ASSUME IInv, CInv, NEW t \in Tabs, NEW s \in Slots, <<t, s>> \in lanes,
           ServeLogout(t, s)
    PROVE  CInv'
<1> DEFINE c == [call[t][s] EXCEPT !.pc = "served"]
<1>1. /\ UNCHANGED <<app, lanes, store, tab, ref, spent, reuses>>
      /\ call[t][s].kind = "logout" /\ call[t][s].pc = "sent"
      /\ OneCall(t, s, c)
    BY CallSteps DEF ServeLogout, fixed
<1>2. /\ c.pc = "served" /\ c.kind = "logout"
      /\ c.access = call[t][s].access /\ c.body = call[t][s].body
    BY <1>1, CallSteps DEF Call
<1> HIDE DEF c
<1>3. call[t][s].body # NoToken => session'[call[t][s].body].state # "live"
  <2> SUFFICES ASSUME call[t][s].body # NoToken
               PROVE  session'[call[t][s].body].state # "live"
      OBVIOUS
  <2>1. call[t][s].body \in Token
      BY CallTokens
  <2>2. PICK b \in Token : b = call[t][s].body
      BY <2>1
  <2>3. session' = IF session[b].state = "live"
                   THEN [session EXCEPT ![b].state = "revoked"] ELSE session
      BY <2>2 DEF ServeLogout, RevokeOwn
  <2>4. session'[b].state # "live"
      BY <2>3 DEF IInv, TypeOK, SessionRow
  <2> QED
      BY <2>2, <2>4
<1>4. \A n \in Token :
          \/ session'[n] = session[n]
          \/ /\ session[n].state = "live" /\ session'[n].state = "revoked"
             /\ session'[n].family = session[n].family /\ session'[n].fits = session[n].fits
    BY DEF ServeLogout, RevokeOwn, IInv, TypeOK, SessionRow
<1>5. /\ KeepsTokens /\ PortalFits' /\ PortalPresentsHeads' /\ OneUnrotated'
      /\ StoredIsCurrent' /\ ReuseHasACause'
    BY <1>1, <1>4, RevokingKeeps
<1>6. RequestsShaped' /\ OneRefresh'
    BY <1>1, <1>2 DEF CInv, RequestsShaped, OneRefresh, OneCall
<1>7. SentIsIssued'
  <2>1. \A n \in MaybeToken : Issued(n) => (n # NoToken => session'[n].state # "free")
      BY <1>5, CallTokens DEF Issued, KeepsTokens
  <2>2. ASSUME NEW u \in Tabs, NEW q \in Slots
        PROVE  /\ call'[u][q].access # NoToken => session'[call'[u][q].access].state # "free"
               /\ call'[u][q].body # NoToken => session'[call'[u][q].body].state # "free"
    <3>1. call'[u][q].access = call[u][q].access /\ call'[u][q].body = call[u][q].body
        BY <1>1, <1>2 DEF OneCall
    <3>2. Issued(call[u][q].access) /\ Issued(call[u][q].body)
        BY DEF CInv, SentIsIssued
    <3> QED
        BY <2>1, <3>1, <3>2, CallTokens
  <2>3. store'.access # NoToken => session'[store'.access].state # "free"
      BY <1>1, <2>1, CallTokens DEF CInv, SentIsIssued
  <2>4. \A u \in Tabs : tab'[u].status = "signed" =>
            tab'[u].family \in Token /\ session'[tab'[u].family].state # "free"
      BY <1>1, <1>5 DEF CInv, SentIsIssued, KeepsTokens
  <2> QED
      BY <2>2, <2>3, <2>4 DEF SentIsIssued, Issued
<1>8. WrongRoleLeaves'
  <2>1. \A u \in Tabs, q \in Slots : call[u][q].kind = "logout" => call'[u][q].kind = "logout"
      BY <1>1, <1>2 DEF OneCall
  <2> QED
      BY <1>1, <1>5, <2>1 DEF CInv, WrongRoleLeaves, SentIsIssued, KeepsTokens
<1>9. MeAsksAlone' /\ SignedInHasTokens'
  <2>1. \A u \in Tabs, q \in Slots :
            /\ call'[u][q].kind = call[u][q].kind
            /\ call[u][q].pc = "idle" => call'[u][q].pc = "idle"
      BY <1>1, <1>2 DEF OneCall
  <2> QED
      BY <1>1, <2>1 DEF CInv, MeAsksAlone, SignedInHasTokens, Students, OneTab
<1>10. ServedIsDead'
  <2> SUFFICES ASSUME NEW u \in Tabs, NEW q \in Slots,
                      call'[u][q].pc = "served", call'[u][q].body # NoToken
               PROVE  session'[call'[u][q].body].state # "live"
      BY DEF ServedIsDead
  <2>1. CASE u = t /\ q = s
      BY <1>1, <1>2, <1>3, <2>1 DEF OneCall
  <2>2. CASE u # t \/ q # s
    <3>1. call'[u][q] = call[u][q]
        BY <1>1, <2>2 DEF OneCall
    <3>2. /\ call[u][q].body \in Token /\ session[call[u][q].body].state # "free"
          /\ session[call[u][q].body].state # "live"
        BY <3>1, CallTokens DEF CInv, SentIsIssued, Issued, ServedIsDead
    <3> QED
        BY <1>5, <3>1, <3>2 DEF KeepsTokens
  <2> QED
      BY <2>1, <2>2
<1> QED
    BY <1>5, <1>6, <1>7, <1>8, <1>9, <1>10 DEF CInv

\* A refresh reads: the token a student presents was rotated only if the answer
\* was lost.
LEMMA RefreshReadCInv ==
    ASSUME IInv, CInv, NEW t \in Tabs, NEW s \in Slots, <<t, s>> \in lanes,
           RefreshRead(t, s)
    PROVE  CInv'
<1> DEFINE r == [ref[t][s] EXCEPT !.pc = "read", !.seen = session[ref[t][s].token].state,
                                  !.family = LiveOf(session[ref[t][s].token].family)]
<1>1. /\ UNCHANGED <<app, lanes, store, tab, call, session, spent>>
      /\ ref[t][s].pc = "sent"
    BY DEF RefreshRead, fixed
<1>2. OneRef(t, s, r)
  <2>1. ref' = [ref EXCEPT ![t][s] = r]
      BY DEF RefreshRead, IInv, TypeOK
  <2> HIDE DEF r
  <2> QED
      BY <2>1, CallSteps
<1>3. r.pc = "read" /\ r.token = ref[t][s].token /\ r.issued = ref[t][s].issued
  <2> DEFINE family == LiveOf(session[ref[t][s].token].family)
             seen == session[ref[t][s].token].state
  <2> HIDE DEF family, seen
  <2>1. ref[t][s] \in Refresh
      BY CallSteps
  <2>2. [ref[t][s] EXCEPT !.pc = "read", !.seen = seen, !.family = family].pc = "read"
      BY <2>1 DEF Refresh
  <2>3. [ref[t][s] EXCEPT !.pc = "read", !.seen = seen, !.family = family].token = ref[t][s].token
      BY <2>1 DEF Refresh
  <2>4. [ref[t][s] EXCEPT !.pc = "read", !.seen = seen, !.family = family].issued
            = ref[t][s].issued
      BY <2>1 DEF Refresh
  <2> QED
      BY <2>2, <2>3, <2>4 DEF family, seen
<1> HIDE DEF r
<1>4. Students' = Students
    BY <1>1 DEF Students, OneTab
<1>5. KeepsTokens
    BY <1>1 DEF KeepsTokens
<1>6. /\ RequestsShaped' /\ OneRefresh' /\ SentIsIssued' /\ WrongRoleLeaves'
      /\ MeAsksAlone' /\ SignedInHasTokens' /\ ServedIsDead'
  <2>1. \A u \in Tabs, q \in Slots : ref'[u][q].pc = "none" <=> ref[u][q].pc = "none"
      BY <1>1, <1>2, <1>3 DEF OneRef
  <2> QED
      BY <1>1, <1>5, <2>1, ClientsKept
<1>7. PortalFits' /\ OneUnrotated'
    BY <1>1 DEF CInv, PortalFits, OneUnrotated
<1>8. PortalPresentsHeads'
  <2>1. \A n : IsHead(n)' <=> IsHead(n)
      BY <1>1 DEF IsHead
  <2>2. app = "admin" => \A u \in Tabs, q \in Slots :
            ref'[u][q].pc # "none" => IsHead(ref'[u][q].token)
      BY <1>1, <1>2, <1>3 DEF CInv, PortalPresentsHeads, OneRef
  <2> QED
      BY <1>1, <2>1, <2>2 DEF CInv, PortalPresentsHeads
<1>9. StoredIsCurrent'
  <2> SUFFICES ASSUME Students
               PROVE  StoredIsCurrent'
      BY <1>4 DEF StoredIsCurrent
  <2>1. \A n : Replaced(n)' <=> Replaced(n)
      BY <1>1 DEF Replaced
  <2>2. ref[t][s].issued = NoToken
      BY <1>1 DEF CInv, StoredIsCurrent
  <2>3. \A u \in Tabs, q \in Slots :
            /\ ref'[u][q].pc = "sent" => ref'[u][q] = ref[u][q]
            /\ ref'[u][q].issued # NoToken => ref'[u][q] = ref[u][q]
      BY <1>2, <1>3, <2>2 DEF OneRef
  <2>4. \A u \in Tabs, q \in Slots : ref[u][q].issued # NoToken => ref'[u][q] = ref[u][q]
      BY <1>2, <2>2 DEF OneRef
  <2>5. store.refresh # NoToken /\ Replaced(store.refresh) =>
            \E u \in Tabs, q \in Slots :
                ref'[u][q].pc # "none" /\ ref'[u][q].issued # NoToken
                /\ ref'[u][q].token = store.refresh
    <3> SUFFICES ASSUME store.refresh # NoToken, Replaced(store.refresh)
                 PROVE  \E u \in Tabs, q \in Slots :
                            ref'[u][q].pc # "none" /\ ref'[u][q].issued # NoToken
                            /\ ref'[u][q].token = store.refresh
        OBVIOUS
    <3>1. PICK u \in Tabs, q \in Slots :
              ref[u][q].pc # "none" /\ ref[u][q].issued # NoToken
              /\ ref[u][q].token = store.refresh
        BY DEF CInv, StoredIsCurrent
    <3>2. ref'[u][q] = ref[u][q]
        BY <2>4, <3>1
    <3> QED
        BY <3>1, <3>2
  <2> QED
      BY <1>1, <2>1, <2>3, <2>5 DEF CInv, StoredIsCurrent
<1>10. ReuseHasACause'
  <2>1. Students => (session[ref[t][s].token].state = "rotated" => spent[ref[t][s].token] = "lost")
      BY <1>1 DEF CInv, StoredIsCurrent, Replaced
  <2> QED
      BY <1>4, <2>1 DEF RefreshRead, CInv, ReuseHasACause
<1> QED
    BY <1>6, <1>7, <1>8, <1>9, <1>10 DEF CInv

\* A refresh revokes what is left of the family.
LEMMA RevokeAllCInv ==
    ASSUME IInv, CInv, NEW t \in Tabs, NEW s \in Slots, <<t, s>> \in lanes,
           RefreshCommit(t, s), ref[t][s].seen # "live"
    PROVE  CInv'
<1> DEFINE r == [ref[t][s] EXCEPT !.pc = "served"]
<1>1. /\ UNCHANGED <<app, lanes, store, tab, call, spent, reuses>>
      /\ ref[t][s].pc = "read"
      /\ session' = RevokeFamily(ref[t][s].family)
    BY DEF RefreshCommit, RevokeAll, fixed
<1>2. OneRef(t, s, r)
  <2>1. ref' = [ref EXCEPT ![t][s] = r]
      BY DEF RefreshCommit, RevokeAll, IInv, TypeOK
  <2> HIDE DEF r
  <2> QED
      BY <2>1, CallSteps
<1>3. r.pc = "served" /\ r.token = ref[t][s].token /\ r.issued = ref[t][s].issued
    BY CallSteps DEF Refresh
<1> HIDE DEF r
<1>4. \A n \in Token :
          \/ session'[n] = session[n]
          \/ /\ session[n].state = "live" /\ session'[n].state = "revoked"
             /\ session'[n].family = session[n].family /\ session'[n].fits = session[n].fits
    BY <1>1 DEF RevokeFamily, IInv, TypeOK, SessionRow
<1>5. \A u \in Tabs, q \in Slots :
          \/ ref'[u][q] = ref[u][q]
          \/ /\ ref[u][q].pc = "read" /\ ref'[u][q].pc = "served"
             /\ ref'[u][q].token = ref[u][q].token /\ ref'[u][q].issued = ref[u][q].issued
    BY <1>1, <1>2, <1>3 DEF OneRef
<1>6. /\ KeepsTokens /\ PortalFits' /\ PortalPresentsHeads' /\ OneUnrotated'
      /\ StoredIsCurrent' /\ ReuseHasACause'
    BY <1>1, <1>4, <1>5, RevokingKeeps
<1>7. \A u \in Tabs, q \in Slots : ref'[u][q].pc = "none" <=> ref[u][q].pc = "none"
    BY <1>5
<1>8. /\ RequestsShaped' /\ OneRefresh' /\ SentIsIssued' /\ WrongRoleLeaves'
      /\ MeAsksAlone' /\ SignedInHasTokens' /\ ServedIsDead'
    BY <1>1, <1>6, <1>7, ClientsKept
<1> QED
    BY <1>6, <1>8 DEF CInv

\* A refresh replaces its token by the next one.
LEMMA RotateCInv ==
    ASSUME IInv, CInv, NEW t \in Tabs, NEW s \in Slots, <<t, s>> \in lanes,
           RefreshCommit(t, s), ref[t][s].seen = "live"
    PROVE  CInv'
<1>1. PICK n \in Token, h \in Token :
          /\ h = ref[t][s].token /\ n = NextToken
          /\ session[n].state = "free" /\ session[h].state = "live"
  <2>1. ref[t][s].token \in Token /\ session[ref[t][s].token].state = "live"
      BY TokensKnown DEF RefreshCommit, IInv, ReadStaysLive
  <2>2. NextToken \in Token /\ session[NextToken].state = "free"
      BY NextIsFree DEF RefreshCommit, Rotate
  <2> QED
      BY <2>1, <2>2
<1> DEFINE row == [state |-> "live", family |-> session[h].family, fits |-> session[h].fits]
           r == [ref[t][s] EXCEPT !.pc = "served", !.issued = n]
<1>2. /\ UNCHANGED <<app, lanes, store, tab, call, reuses>>
      /\ ref[t][s].pc = "read"
      /\ session' = [[session EXCEPT ![n] = row] EXCEPT ![h].state = "rotated"]
      /\ spent' = [spent EXCEPT ![h] = "in flight"]
      /\ ref' = [ref EXCEPT ![t][s].pc = "served", ![t][s].issued = n]
    BY <1>1 DEF RefreshCommit, Rotate, IssueTokens, fixed
<1>3. OneRef(t, s, r)
  <2>1. ref' = [ref EXCEPT ![t][s] = r]
      BY <1>2 DEF IInv, TypeOK
  <2> HIDE DEF r
  <2> QED
      BY <2>1, CallSteps
<1>4. r.pc = "served" /\ r.token = h /\ r.issued = n
    BY <1>1, CallSteps DEF Refresh
<1> HIDE DEF r
<1>5. n # h
    BY <1>1
<1>6. /\ session'[n].state = "live"
      /\ session'[n].family = session[h].family /\ session'[n].fits = session[h].fits
      /\ session'[h].state = "rotated"
      /\ session'[h].family = session[h].family /\ session'[h].fits = session[h].fits
      /\ \A m \in Token : m # n /\ m # h => session'[m] = session[m]
    BY <1>2, <1>5 DEF IInv, TypeOK, SessionRow
<1> HIDE DEF row
<1>7. Students' = Students
    BY <1>2 DEF Students, OneTab
<1>8. KeepsTokens
    BY <1>1, <1>6 DEF KeepsTokens
<1>9. \A u \in Tabs, q \in Slots : ref'[u][q].pc = "none" <=> ref[u][q].pc = "none"
    BY <1>2, <1>3, <1>4 DEF OneRef
<1>10. /\ RequestsShaped' /\ OneRefresh' /\ SentIsIssued' /\ WrongRoleLeaves'
       /\ MeAsksAlone' /\ SignedInHasTokens' /\ ServedIsDead'
    BY <1>2, <1>8, <1>9, ClientsKept
<1>11. PortalFits'
    BY <1>1, <1>2, <1>6 DEF CInv, PortalFits
<1>12. PortalPresentsHeads'
  <2> SUFFICES ASSUME app = "admin"
               PROVE  PortalPresentsHeads'
      BY <1>2 DEF PortalPresentsHeads
  <2>1. session[h].family = h
      BY <1>1, <1>2 DEF CInv, PortalPresentsHeads, IsHead
  <2>2. \A m \in Token : session[m].state # "free" =>
            /\ session'[m].state # "free" /\ session'[m].family = session[m].family
      BY <1>8 DEF KeepsTokens
  <2>3. ASSUME NEW u \in Tabs, NEW q \in Slots, ref'[u][q].pc # "none"
        PROVE  session'[ref'[u][q].token].family = ref'[u][q].token
    <3>1. ref[u][q].pc # "none" /\ ref'[u][q].token = ref[u][q].token
        BY <1>1, <1>2, <1>3, <1>4, <2>3 DEF OneRef
    <3>2. /\ ref[u][q].token \in Token /\ session[ref[u][q].token].state # "free"
          /\ session[ref[u][q].token].family = ref[u][q].token
        BY <3>1, TokensKnown DEF IInv, TokensIssued, CInv, PortalPresentsHeads, IsHead
    <3> QED
        BY <2>2, <3>1, <3>2
  <2>4. store'.refresh # NoToken => session'[store'.refresh].family = store'.refresh
      BY <1>2, <2>2, TokensKnown DEF IInv, TokensIssued, CInv, PortalPresentsHeads, IsHead
  <2>5. \A m \in Token : session[m].state # "free" /\ session[m].family # m =>
            session[m].family # h /\ session[m].family # n /\ session[m].family \in Token
      BY <1>1 DEF CInv, PortalPresentsHeads, IsHead, IInv, FamiliesKnown
  <2>6. ASSUME NEW m \in Token, session'[m].state # "free", session'[m].family # m
        PROVE  \/ m = n /\ session'[m].family = h
               \/ /\ session[m].state # "free" /\ session[m].family # m
                  /\ session'[m].family = session[m].family /\ session'[m].family # h
    <3>1. m # h
        BY <1>6, <2>1, <2>6
    <3> QED
        BY <1>6, <2>1, <2>5, <2>6, <3>1
  <2>7. ASSUME NEW m \in Token, session'[m].state # "free", session'[m].family # m
        PROVE  session'[session'[m].family].state # "live"
    <3>1. CASE session'[m].family = h
        BY <1>6, <3>1
    <3>2. CASE session'[m].family # h
      <4>1. /\ session[m].state # "free" /\ session[m].family # m
            /\ session'[m].family = session[m].family
          BY <2>6, <2>7, <3>2
      <4>2. session[session[m].family].state # "live"
          BY <4>1 DEF CInv, PortalPresentsHeads, IsHead
      <4> QED
          BY <1>6, <2>5, <3>2, <4>1, <4>2
    <3> QED
        BY <3>1, <3>2
  <2>8. ASSUME NEW k \in Token, NEW m \in Token,
               session'[k].state # "free", session'[k].family # k,
               session'[m].state # "free", session'[m].family # m,
               session'[k].family = session'[m].family
        PROVE  k = m
    <3>1. CASE session'[k].family = h
        BY <2>6, <2>8, <3>1
    <3>2. CASE session'[k].family # h
      <4>1. /\ session[k].state # "free" /\ session[k].family # k
            /\ session[m].state # "free" /\ session[m].family # m
            /\ session[k].family = session[m].family
          BY <2>6, <2>8, <3>2
      <4> QED
          BY <4>1 DEF CInv, PortalPresentsHeads, IsHead
    <3> QED
        BY <3>1, <3>2
  <2> QED
      BY <2>3, <2>4, <2>7, <2>8 DEF PortalPresentsHeads, IsHead
<1>13. OneUnrotated'
  <2> SUFFICES ASSUME NEW k \in Token, NEW m \in Token,
                      session'[k].state \notin {"free", "rotated"},
                      session'[m].state \notin {"free", "rotated"},
                      session'[k].family = session'[m].family
               PROVE  k = m
      BY DEF OneUnrotated
  <2>1. ASSUME NEW j \in Token, j # n, session'[j].state \notin {"free", "rotated"},
               session'[j].family = session[h].family
        PROVE  FALSE
    <3>1. j # h /\ session'[j] = session[j]
        BY <1>6, <2>1
    <3>2. j = h
        BY <1>1, <2>1, <3>1 DEF CInv, OneUnrotated
    <3> QED
        BY <3>1, <3>2
  <2>2. CASE k = n \/ m = n
      BY <1>6, <2>1, <2>2
  <2>3. CASE k # n /\ m # n
    <3>1. session'[k] = session[k] /\ session'[m] = session[m]
        BY <1>6, <2>3
    <3> QED
        BY <3>1 DEF CInv, OneUnrotated
  <2> QED
      BY <2>2, <2>3
<1>14. StoredIsCurrent'
  <2> SUFFICES ASSUME Students
               PROVE  StoredIsCurrent'
      BY <1>7 DEF StoredIsCurrent
  <2>1. \A u \in Tabs, q \in Slots : u # t \/ q # s =>
            ref'[u][q].pc = "none" /\ ref'[u][q].issued = NoToken
    <3>1. \A u \in Tabs, q \in Slots : u # t \/ q # s => ref[u][q].pc = "none"
        BY <1>2, OnlyRefresh
    <3>2. \A u \in Tabs, q \in Slots : ref[u][q].pc = "none" => ref[u][q].issued = NoToken
        BY DEF CInv, StoredIsCurrent
    <3> QED
        BY <1>3, <3>1, <3>2 DEF OneRef
  <2>2. ref'[t][s].pc = "served" /\ ref'[t][s].token = h /\ ref'[t][s].issued = n
      BY <1>3, <1>4 DEF OneRef
  <2>3. n # NoToken
      BY <1>1, SessionsAssumption DEF NoToken, Token
  <2>4. ASSUME store'.refresh # NoToken, session'[store'.refresh].state = "rotated",
               spent'[store'.refresh] # "lost"
        PROVE  \E u \in Tabs, q \in Slots :
                   ref'[u][q].pc # "none" /\ ref'[u][q].issued # NoToken
                   /\ ref'[u][q].token = store'.refresh
    <3>1. store.refresh \in Token /\ session[store.refresh].state # "free"
          /\ store'.refresh = store.refresh
        BY <1>2, <2>4, TokensKnown DEF IInv, TokensIssued
    <3>2. CASE store.refresh = h
        BY <2>2, <2>3, <3>1, <3>2
    <3>3. CASE store.refresh # h
      <4>1. session'[store.refresh] = session[store.refresh]
            /\ spent'[store.refresh] = spent[store.refresh]
          BY <1>1, <1>2, <1>6, <3>1, <3>3 DEF IInv, TypeOK
      <4>2. PICK u \in Tabs, q \in Slots :
                ref[u][q].pc # "none" /\ ref[u][q].issued # NoToken
                /\ ref[u][q].token = store.refresh
          BY <2>4, <3>1, <4>1 DEF CInv, StoredIsCurrent, Replaced
      <4>3. u = t /\ q = s
          BY <1>2, <4>2, OnlyRefresh
      <4> QED
          BY <1>1, <3>3, <4>2, <4>3
    <3> QED
        BY <3>2, <3>3
  <2>5. ASSUME NEW u \in Tabs, NEW q \in Slots
        PROVE  /\ ref'[u][q].pc # "sent"
               /\ ref'[u][q].issued # NoToken =>
                     session'[ref'[u][q].issued].state # "rotated" /\ ref'[u][q].pc = "served"
      BY <1>6, <2>1, <2>2
  <2> QED
      BY <2>4, <2>5 DEF StoredIsCurrent, Replaced
<1>15. ReuseHasACause'
    BY <1>2, <1>7 DEF CInv, ReuseHasACause
<1> QED
    BY <1>10, <1>11, <1>12, <1>13, <1>14, <1>15 DEF CInv

\* A step that only lets time pass, or does nothing.
LEMMA IdleCInv ==
    ASSUME IInv, CInv,
           UNCHANGED <<app, lanes, store, tab, call, ref, session, spent, reuses>>
    PROVE  CInv'
<1>1. KeepsTokens /\ store'.refresh \in {NoToken, store.refresh}
    BY DEF KeepsTokens
<1>2. \A t \in Tabs, s \in Slots : ref'[t][s].pc = "none" <=> ref[t][s].pc = "none"
    OBVIOUS
<1>3. /\ RequestsShaped' /\ OneRefresh' /\ SentIsIssued' /\ WrongRoleLeaves'
      /\ MeAsksAlone' /\ SignedInHasTokens' /\ ServedIsDead'
    BY <1>1, <1>2, ClientsKept
<1>4. /\ OneRefresh' /\ PortalFits' /\ PortalPresentsHeads'
      /\ OneUnrotated' /\ StoredIsCurrent' /\ ReuseHasACause'
    BY <1>1, RefreshesKept
<1> QED
    BY <1>3, <1>4 DEF CInv

-----------------------------------------------------------------------------
(* What follows. *)

\* The invariant of the clients holds in every state.
THEOREM ClientInvariance == Spec => []CInv
<1>1. Init => CInv
    BY InitCInv
<1>2. IInv /\ CInv /\ [Next]_vars => CInv'
  <2> SUFFICES ASSUME IInv, CInv, [Next]_vars
               PROVE  CInv'
      OBVIOUS
  <2>1. ASSUME NEW t \in Tabs, NEW s \in Slots, <<t, s>> \in lanes,
               Read(t, s) \/ SubmitLogin(t, s) \/ SubmitLogout(t, s)
        PROVE  CInv'
      BY <2>1, AsksCInv
  <2>2. ASSUME NEW t \in Tabs, NEW s \in Slots, <<t, s>> \in lanes, Load(t, s)
        PROVE  CInv'
      BY <2>2, LoadCInv
  <2>3. ASSUME NEW t \in Tabs, NEW s \in Slots, <<t, s>> \in lanes, ServerStep(t, s)
        PROVE  CInv'
      BY <2>3, ServeLogoutCInv, RefreshReadCInv, RotateCInv, RevokeAllCInv DEF ServerStep
  <2>4. ASSUME NEW t \in Tabs, NEW s \in Slots, <<t, s>> \in lanes, Answer(t, s)
        PROVE  CInv'
      BY <2>4, AnswerCInv, StudentRefreshedCInv, PortalRefreshedCInv, RefreshFailsCInv,
         FailsCInv, LoginCInv DEF Answer
  <2>5. ASSUME NEW t \in Tabs, NEW s \in Slots, <<t, s>> \in lanes,
               LoseCall(t, s) \/ LoseRefresh(t, s)
        PROVE  CInv'
      BY <2>5, FailsCInv, RefreshFailsCInv
  <2>6. CASE Expire
      BY <2>6, IdleCInv DEF Expire, fixed
  <2>7. CASE UNCHANGED vars
      BY <2>7, IdleCInv DEF vars
  <2> QED
      BY <2>1, <2>2, <2>3, <2>4, <2>5, <2>6, <2>7 DEF Next
<1> QED
    BY <1>1, <1>2, Invariance, PTL DEF Spec

\* A student's only tab presents a token that was already rotated only when the
\* answer to the rotation was lost, however many requests meet a 401 together
\* (refreshPromise in lib/api.js).
THEOREM ReusesHaveACause == Spec => []ReuseHasACause
<1>1. CInv => ReuseHasACause
    BY DEF CInv
<1> QED
    BY <1>1, ClientInvariance, PTL

\* The tokens of a portal login are the first one and one more, however long
\* the staff member stays signed in (request in admin/src/lib/api.js).
THEOREM PortalExtendsOnce == Spec => []PortalRefreshesOnce
<1>1. IInv /\ CInv => PortalRefreshesOnce
  <2> SUFFICES ASSUME IInv, CInv, app = "admin", NEW f \in Token
               PROVE  Cardinality(FamilyOf(f)) =< 2
      BY DEF PortalRefreshesOnce
  <2> DEFINE rest == FamilyOf(f) \ {f}
  <2>1. \A m, n \in rest : m = n
      BY DEF FamilyOf, CInv, PortalPresentsHeads, IsHead
  <2>2. IsFiniteSet(rest) /\ Cardinality(rest) =< 1
    <3>1. CASE rest = {}
        BY <3>1, FS_EmptySet
    <3>2. CASE rest # {}
      <4>1. PICK n : rest = {n}
          BY <2>1, <3>2
      <4> QED
        <5> HIDE DEF rest
        <5>1. Cardinality({n}) = 1 /\ IsFiniteSet({n})
            BY FS_Singleton
        <5> QED
            BY <4>1, <5>1
    <3> QED
        BY <3>1, <3>2
  <2>3. FamilyOf(f) \in {rest, rest \cup {f}}
      OBVIOUS
  <2>4. Cardinality(rest) \in Nat
      BY <2>2, FS_CardinalityType
  <2>5. Cardinality(rest \cup {f}) = Cardinality(rest) + 1
      BY <2>2, FS_AddElement
  <2> HIDE DEF rest
  <2> QED
      BY <2>2, <2>3, <2>4, <2>5
<1> QED
    BY <1>1, Invariance, ClientInvariance, PTL

\* A student's only tab never shows a signed in user without tokens
\* (clearTokens and onUnauthorized in lib/api.js, AuthContext.jsx).
THEOREM SignedInKeepsTokens == Spec => []SignedInHasTokens
<1>1. CInv => SignedInHasTokens
    BY DEF CInv
<1> QED
    BY <1>1, ClientInvariance, PTL

\* A user whose role does not belong in the student client is signed in only
\* while the logout is in flight (LoginPage, VerifyPage).
THEOREM WrongRolesLeave == Spec => []WrongRoleLeaves
<1>1. CInv => WrongRoleLeaves
    BY DEF CInv
<1> QED
    BY <1>1, ClientInvariance, PTL

\* A logout that was served ends the login whose token the browser stores,
\* unless a refresh overlapped it or its answer was lost (AuthService.logout):
\* the stored token is the one of its family that was not rotated.
THEOREM LogoutsEndSessions == Spec => []LogoutEndsTheSession
<1>1. IInv /\ CInv => LogoutEndsTheSession
  <2> SUFFICES ASSUME IInv, CInv, Students, NEW t \in Tabs, NEW s \in Slots,
                      call[t][s].kind = "logout", call[t][s].pc = "served",
                      call[t][s].body # NoToken, call[t][s].body = store.refresh,
                      Refreshing(t) = {}, spent[call[t][s].body] # "lost",
                      NEW n \in LiveOf(session[call[t][s].body].family)
               PROVE  FALSE
      BY DEF LogoutEndsTheSession
  <2> DEFINE b == call[t][s].body
  <2>1. /\ b \in Token /\ session[b].state \notin {"free", "live"}
      BY CallTokens DEF CInv, SentIsIssued, Issued, ServedIsDead
  <2>2. <<t, s>> \in lanes
      BY DEF CInv, RequestsShaped
  <2>3. \A u \in Tabs, q \in Slots : ref[u][q].pc = "none"
      BY <2>2, OnlyTab DEF Refreshing
  <2>4. session[b].state # "rotated"
      BY <2>3 DEF CInv, StoredIsCurrent, Replaced
  <2>5. n \in Token /\ session[n].state = "live" /\ session[n].family = session[b].family
      BY DEF LiveOf
  <2>6. n = b
      BY <2>1, <2>4, <2>5 DEF CInv, OneUnrotated
  <2> QED
      BY <2>1, <2>5, <2>6
<1> QED
    BY <1>1, Invariance, ClientInvariance, PTL
=============================================================================
