----------------------------- MODULE ListsProofs -----------------------------
(* What the other pages of MCForms show, for any number of turns, entries, *)
(* classes, events and requests: one inductive invariant a page, in the    *)
(* terms of that page's module, and the theorems that follow of MCForms.   *)
EXTENDS FormsProofs, ClassesProofs

-----------------------------------------------------------------------------
(* Talking to the assistant.                                               *)

ChatTurns == Seq(Chat!Turn)
ChatNumber == 1 .. MaxTurns + 1

ChatPage ==
    [view : {"loading", "failed", "chat"}, messages : ChatTurns,
     temps : SUBSET Chat!Turn, sending : BOOLEAN, error : BOOLEAN,
     mic : {"off", "idle", "sending"}, speaking : {0} \cup Chat!Turn, voice : BOOLEAN,
     next : ChatNumber, first : ChatNumber, overlap : BOOLEAN]

ChatCalls == [Chat!Turn -> Chat!Pc]

ChatActive == 0 .. ActiveLimit
ChatStore == [turns : ChatTurns, active : ChatActive]

\* No turn comes twice, nor one that was not sent.
SentOnce(turns, next) ==
    /\ \A i \in 1 .. Len(turns) : turns[i] < next
    /\ \A i, j \in 1 .. Len(turns) : turns[i] = turns[j] => i = j

Among(n, turns) == \E i \in 1 .. Len(turns) : turns[i] = n

\* What is in flight has been sent, is stored only when it says so, and is not
\* among the messages of a page that awaits it.
InFlightFits(calls, next, first, turns, messages) ==
    \A n \in Chat!Turn : calls[n] # "none" =>
        /\ n < next
        /\ calls[n] = "stored" <=> Among(n, turns)
        /\ n >= first => ~Among(n, messages)

\* Whatever is earlier on the page is stored earlier.
InOrder(messages, turns) ==
    /\ \A i \in 1 .. Len(messages) : Among(messages[i], turns)
    /\ \A i, j \in 1 .. Len(messages), k, l \in 1 .. Len(turns) :
          i < j /\ turns[k] = messages[i] /\ turns[l] = messages[j] => k < l

Before(messages, n, turns) ==
    \A i \in 1 .. Len(messages), k, l \in 1 .. Len(turns) :
        turns[k] = messages[i] /\ turns[l] = n => k < l

\* As long as the microphone has not sent a message meanwhile, one message at
\* most is awaited, and its turn comes after those on the page.
OneAwaited(calls, first, sending, messages, turns) ==
    /\ \A n \in Chat!Turn : n >= first /\ calls[n] # "none" => sending
    /\ \A m, n \in Chat!Turn :
          m >= first /\ n >= first /\ calls[m] # "none" /\ calls[n] # "none" => m = n
    /\ \A n \in Chat!Turn : n >= first /\ calls[n] # "none" => Before(messages, n, turns)

ChatInv ==
    /\ ui \in ChatPage /\ net \in ChatCalls /\ srv \in ChatStore
    /\ ui.first =< ui.next
    /\ ui.view # "chat" => ui.first = ui.next /\ ui.messages = <<>>
    /\ SentOnce(ui.messages, ui.next) /\ SentOnce(srv.turns, ui.next)
    /\ InFlightFits(net, ui.next, ui.first, srv.turns, ui.messages)
    /\ ui.overlap \/ /\ InOrder(ui.messages, srv.turns)
                     /\ OneAwaited(net, ui.first, ui.sending, ui.messages, srv.turns)

LEMMA ChatBounds ==
    ASSUME FormsAssumption
    PROVE  /\ MaxTurns \in Nat /\ Chat!Turn = 1 .. MaxTurns
           /\ Chat!Turn \subseteq Nat /\ ChatNumber \subseteq Nat /\ 1 \in ChatNumber
           /\ \A n \in Chat!Turn : n + 1 \in ChatNumber
           /\ 0 \in ChatActive /\ <<>> \in ChatTurns /\ Len(<<>>) = 0
           /\ \A n \in ChatActive : n < ActiveLimit => n + 1 \in ChatActive
           /\ \A n \in ChatActive : Chat!Decr(n) \in ChatActive
BY DEF FormsAssumption, Chat!Turn, ChatNumber, ChatActive, ChatTurns, Chat!Decr

LEMMA ChatInit == ASSUME FormsAssumption, Chat!Init PROVE ChatInv
<1>1. /\ ui \in ChatPage /\ ui.messages = <<>> /\ ui.first = 1 /\ ui.next = 1
    BY ChatBounds DEF Chat!Init, ChatPage
<1>2. net \in ChatCalls /\ \A n \in Chat!Turn : net[n] = "none"
    BY DEF Chat!Init, ChatCalls, Chat!Pc
<1>3. srv \in ChatStore /\ srv.turns = <<>>
    BY ChatBounds DEF Chat!Init, ChatStore
<1> QED
    BY <1>1, <1>2, <1>3
    DEF ChatInv, SentOnce, InFlightFits, InOrder, OneAwaited

LEMMA InFlight ==
    ASSUME ChatInv, NEW n \in Chat!Turn, net[n] # "none"
    PROVE  /\ n < ui.next
           /\ net[n] = "stored" <=> Among(n, srv.turns)
           /\ n >= ui.first => ~Among(n, ui.messages)
BY DEF ChatInv, InFlightFits

\* What the page does that concerns no message.
LEMMA ChatAsides ==
    ASSUME FormsAssumption, ChatInv,
           \/ Chat!ToggleMic \/ Chat!ToggleVoice \/ \E n \in Chat!Turn : Chat!Replay(n)
           \/ Chat!Expire
    PROVE  ChatInv'
<1>1. ui \in ChatPage /\ net \in ChatCalls /\ srv \in ChatStore /\ net' = net
    BY DEF ChatInv, Chat!ToggleMic, Chat!ToggleVoice, Chat!Replay, Chat!Expire
<1>2. /\ ui' \in ChatPage /\ ui'.messages = ui.messages /\ ui'.first = ui.first
      /\ ui'.next = ui.next /\ ui'.view = ui.view /\ ui'.sending = ui.sending
      /\ ui'.overlap = ui.overlap
    BY <1>1 DEF ChatPage, Chat!ToggleMic, Chat!ToggleVoice, Chat!Replay, Chat!Expire
<1>3. srv' \in ChatStore /\ srv'.turns = srv.turns
    <2>1. CASE Chat!Expire
        <3>1. 0 \in ChatActive
            BY ChatBounds
        <3> QED
            BY <1>1, <2>1, <3>1 DEF ChatStore, Chat!Expire
    <2>2. CASE ~Chat!Expire
        <3>1. srv' = srv
            BY <2>2 DEF Chat!ToggleMic, Chat!ToggleVoice, Chat!Replay
        <3> QED
            BY <1>1, <3>1
    <2> QED
        BY <2>1, <2>2
<1> QED
    BY <1>1, <1>2, <1>3 DEF ChatInv

\* A page that is loaded awaits nothing and shows what is stored.
LEMMA ChatLoads ==
    ASSUME FormsAssumption, ChatInv, Chat!Loaded \/ Chat!Reload PROVE ChatInv'
<1>1. /\ ui \in ChatPage /\ net \in ChatCalls /\ srv \in ChatStore
      /\ net' = net /\ srv' = srv
    BY DEF ChatInv, Chat!Loaded, Chat!Reload
<1>2. /\ ui' \in ChatPage /\ ui'.first = ui.next /\ ui'.next = ui.next
      /\ ui'.overlap = ui.overlap /\ ui'.messages \in {<<>>, srv.turns}
      /\ ui'.view # "chat" => ui'.messages = <<>>
    <2>1. /\ <<>> \in ChatTurns /\ srv.turns \in ChatTurns
          /\ ui.view = "loading" => ui.first = ui.next /\ ui.messages = <<>>
        BY <1>1, ChatBounds DEF ChatStore, ChatInv
    <2>2. CASE Chat!Loaded
        <3>1. ui.first = ui.next /\ ui.messages = <<>>
            BY <2>1, <2>2 DEF Chat!Loaded
        <3>2. CASE ui' = [ui EXCEPT !.view = "chat", !.messages = srv.turns]
            BY <1>1, <2>1, <3>1, <3>2 DEF ChatPage
        <3>3. CASE ui' = [ui EXCEPT !.view = "chat", !.error = TRUE]
            BY <1>1, <2>1, <3>1, <3>3 DEF ChatPage
        <3>4. CASE ui' = [ui EXCEPT !.view = "failed"]
            BY <1>1, <2>1, <3>1, <3>4 DEF ChatPage
        <3> QED
            BY <2>2, <3>2, <3>3, <3>4 DEF Chat!Loaded
    <2>3. CASE Chat!Reload
        <3>1. ui' = [ui EXCEPT !.view = "loading", !.messages = <<>>, !.temps = {},
                               !.sending = FALSE, !.error = FALSE, !.mic = "off",
                               !.speaking = 0, !.first = ui.next, !.voice = TRUE]
            BY <2>3 DEF Chat!Reload
        <3> QED
            BY <1>1, <2>1, <3>1 DEF ChatPage
    <2> QED
        BY <2>2, <2>3
<1>3. ui.next \in Nat /\ Chat!Turn \subseteq Nat
    BY <1>1, ChatBounds DEF ChatPage
<1>4. ASSUME NEW n \in Chat!Turn, net[n] # "none" PROVE n < ui.next /\ ~(n >= ui.next)
    <2>1. n < ui.next
        BY <1>4, Zenon DEF ChatInv, InFlightFits
    <2> QED
        BY <1>3, <2>1
<1>5. SentOnce(<<>>, ui.next) /\ SentOnce(srv.turns, ui.next)
    BY DEF ChatInv, SentOnce
<1>6. \A messages \in {<<>>, srv.turns} : InOrder(messages, srv.turns)
    <2>1. InOrder(<<>>, srv.turns)
        <3>1. \A i \in 1 .. Len(<<>>) : FALSE
            BY ChatBounds
        <3> QED
            BY <3>1 DEF InOrder
    <2>2. InOrder(srv.turns, srv.turns)
        BY <1>5 DEF InOrder, Among, SentOnce
    <2> QED
        BY <2>1, <2>2
<1>7. InFlightFits(net, ui'.next, ui'.first, srv.turns, ui'.messages)
    BY <1>2, <1>4 DEF ChatInv, InFlightFits
<1>8. OneAwaited(net, ui'.first, ui'.sending, ui'.messages, srv.turns)
    BY <1>2, <1>4 DEF OneAwaited
<1> QED
    BY <1>1, <1>2, <1>3, <1>5, <1>6, <1>7, <1>8 DEF ChatInv

\* What was sent before a turn was sent before the next one.
LEMMA OneMoreSent ==
    ASSUME FormsAssumption, NEW n \in Nat, NEW turns \in ChatTurns, SentOnce(turns, n)
    PROVE  SentOnce(turns, n + 1)
<1>1. Chat!Turn \subseteq Nat
    BY ChatBounds, Zenon
<1>2. \A k \in Nat : k < n => k < n + 1
    OBVIOUS
<1>3. ASSUME NEW i \in 1 .. Len(turns) PROVE turns[i] < n + 1
    <2>1. turns[i] \in Chat!Turn
        BY ElementOfSeq, Zenon DEF ChatTurns
    <2>2. turns[i] < n
        BY Zenon DEF SentOnce
    <2> QED
        BY <1>1, <1>2, <2>1, <2>2, Zenon
<1> QED
    BY <1>3, Zenon DEF SentOnce

\* A message is sent from the form or by the microphone.
LEMMA ChatSends ==
    ASSUME FormsAssumption, ChatInv, NEW sending \in BOOLEAN,
           NEW mic \in {"off", "idle", "sending"}, Chat!Send(sending, mic)
    PROVE  ChatInv'
<1>1. ui \in ChatPage /\ net \in ChatCalls /\ srv \in ChatStore /\ srv' = srv
    BY DEF ChatInv, Chat!Send
<1>2. PICK n \in Chat!Turn : n = ui.next /\ n \in Nat /\ ~sending /\ ui.view = "chat"
    BY ChatBounds DEF Chat!Send, Chat!MaySend
<1>3. /\ ui' \in ChatPage /\ ui'.messages = ui.messages /\ ui'.first = ui.first
      /\ ui'.next = n + 1 /\ ui'.view = "chat" /\ ui'.sending = TRUE
      /\ ui'.overlap = (ui.overlap \/ sending # ui.sending)
    BY <1>1, <1>2, ChatBounds DEF ChatPage, Chat!Send
<1>4. /\ net' \in ChatCalls /\ net'[n] = "sent"
      /\ \A m \in Chat!Turn : m # n => net'[m] = net[m]
    BY <1>1, <1>2 DEF ChatCalls, Chat!Pc, Chat!Send
<1>5. SentOnce(ui'.messages, ui'.next) /\ SentOnce(srv.turns, ui'.next)
    <2>1. \A turns \in ChatTurns : SentOnce(turns, n) => SentOnce(turns, n + 1)
        BY <1>2, OneMoreSent, Zenon
    <2> QED
        BY <1>1, <1>2, <1>3, <2>1 DEF ChatInv, ChatPage, ChatStore
<1>6. ~Among(n, ui.messages) /\ ~Among(n, srv.turns)
    <2>1. ~(n < n)
        BY <1>2
    <2> QED
        BY <1>2, <2>1 DEF ChatInv, SentOnce, Among
<1>7. InFlightFits(net', ui'.next, ui'.first, srv.turns, ui'.messages)
    <2> SUFFICES ASSUME NEW m \in Chat!Turn, net'[m] # "none"
                 PROVE  /\ m < n + 1 /\ (net'[m] = "stored" <=> Among(m, srv.turns))
                        /\ m >= ui.first => ~Among(m, ui.messages)
        BY <1>3 DEF InFlightFits
    <2>1. CASE m = n
        BY <1>2, <1>4, <1>6, <2>1
    <2>2. CASE m # n
        <3>1. m < n /\ m \in Nat
            BY <1>2, <1>4, <2>2, ChatBounds DEF ChatInv, InFlightFits
        <3> QED
            BY <1>2, <1>4, <2>2, <3>1 DEF ChatInv, InFlightFits
    <2> QED
        BY <2>1, <2>2
<1>8. ASSUME ~ui'.overlap
      PROVE  OneAwaited(net', ui'.first, ui'.sending, ui'.messages, srv.turns)
    <2>1. ~ui.overlap /\ ~ui.sending
        BY <1>1, <1>2, <1>3, <1>8 DEF ChatPage
    <2>2. \A m \in Chat!Turn : m >= ui.first /\ net'[m] # "none" => m = n
        BY <1>4, <2>1 DEF ChatInv, OneAwaited
    <2>3. Before(ui.messages, n, srv.turns)
        BY <1>6 DEF Before, Among
    <2> QED
        BY <1>3, <2>2, <2>3 DEF OneAwaited
<1>9. ui'.overlap \/ InOrder(ui'.messages, srv.turns)
    BY <1>1, <1>3 DEF ChatInv, ChatPage
<1>10. ui'.first =< ui'.next
    <2>1. ui.first =< n /\ ui.first \in Nat /\ n \in Nat
        BY <1>1, <1>2, ChatBounds DEF ChatInv, ChatPage
    <2> QED
        BY <1>3, <2>1
<1> QED
    BY <1>1, <1>3, <1>4, <1>5, <1>7, <1>8, <1>9, <1>10 DEF ChatInv

\* A message that is refused or lost, or one an earlier page sent.
LEMMA ChatDrops ==
    ASSUME FormsAssumption, ChatInv, NEW n \in Chat!Turn,
           \/ Chat!SendFails(n)
           \/ Chat!SendAnswered(n) /\ n < ui.first
    PROVE  ChatInv'
<1>1. ui \in ChatPage /\ net \in ChatCalls /\ srv \in ChatStore /\ srv' = srv
    BY DEF ChatInv, Chat!SendFails, Chat!SendAnswered
<1>2. /\ ui' \in ChatPage /\ ui'.messages = ui.messages /\ ui'.first = ui.first
      /\ ui'.next = ui.next /\ ui'.view = ui.view /\ ui'.overlap = ui.overlap
      /\ n < ui.first => ui'.sending = ui.sending
    <2>1. CASE n < ui.first
        BY <1>1, <2>1 DEF Chat!SendFails, Chat!SendAnswered
    <2>2. CASE ~(n < ui.first)
        <3>1. ui' = [ui EXCEPT !.sending = FALSE, !.error = TRUE, !.temps = {}]
            BY <2>2 DEF Chat!SendFails
        <3> QED
            BY <1>1, <2>2, <3>1 DEF ChatPage
    <2> QED
        BY <2>1, <2>2
<1>3. /\ net' \in ChatCalls /\ net'[n] = "none" /\ net[n] # "none"
      /\ \A m \in Chat!Turn : m # n => net'[m] = net[m]
    BY <1>1 DEF ChatCalls, Chat!Pc, Chat!SendFails, Chat!SendAnswered
<1>4. InFlightFits(net', ui.next, ui.first, srv.turns, ui.messages)
    BY <1>3 DEF ChatInv, InFlightFits
<1>5. ASSUME ~ui.overlap
      PROVE  OneAwaited(net', ui.first, ui'.sending, ui.messages, srv.turns)
    <2>1. n \in Nat /\ ui.first \in Nat
        BY <1>1, ChatBounds DEF ChatPage
    <2>2. CASE n < ui.first
        BY <1>2, <1>3, <1>5, <2>2 DEF ChatInv, OneAwaited
    <2>3. CASE n >= ui.first
        <3>1. \A m \in Chat!Turn : m >= ui.first => net'[m] = "none"
            BY <1>3, <1>5, <2>3 DEF ChatInv, OneAwaited
        <3> QED
            BY <3>1 DEF OneAwaited
    <2> QED
        BY <2>1, <2>2, <2>3
<1> QED
    BY <1>1, <1>2, <1>3, <1>4, <1>5 DEF ChatInv

\* The answer the page awaits.
LEMMA ChatAnswered ==
    ASSUME FormsAssumption, ChatInv, NEW n \in Chat!Turn, Chat!SendAnswered(n), n >= ui.first
    PROVE  ChatInv'
<1>0. n \in Nat /\ ui.first \in Nat /\ ~(n < ui.first)
    BY ChatBounds, SMTT(30) DEF ChatInv, ChatPage
<1>1. /\ ui \in ChatPage /\ net \in ChatCalls /\ srv \in ChatStore /\ srv' = srv
      /\ net[n] = "stored"
    BY DEF ChatInv, Chat!SendAnswered
<1>2. PICK messages : messages = Append(ui.messages, n)
    OBVIOUS
<1>3. /\ messages \in ChatTurns /\ Len(messages) = Len(ui.messages) + 1
      /\ Len(ui.messages) \in Nat /\ messages[Len(messages)] = n
      /\ \A i \in 1 .. Len(ui.messages) : messages[i] = ui.messages[i]
    BY <1>1, <1>2 DEF ChatPage, ChatTurns
<1>4. /\ ui' \in ChatPage /\ ui'.messages = messages /\ ui'.first = ui.first
      /\ ui'.next = ui.next /\ ui'.view = ui.view /\ ui'.overlap = ui.overlap
    <2>1. PICK speaking \in {0} \cup Chat!Turn :
              ui' = [ui EXCEPT !.sending = FALSE, !.temps = {}, !.messages = messages,
                               !.speaking = speaking]
        BY <1>0, <1>1, <1>2 DEF Chat!SendAnswered, ChatPage
    <2> QED
        BY <1>1, <1>3, <2>1 DEF ChatPage
<1>5. /\ net' \in ChatCalls /\ net'[n] = "none"
      /\ \A m \in Chat!Turn : m # n => net'[m] = net[m]
    BY <1>1 DEF ChatCalls, Chat!Pc, Chat!SendAnswered
<1>6. n < ui.next /\ Among(n, srv.turns) /\ ~Among(n, ui.messages)
    <2>1. net[n] # "none" /\ net[n] = "stored"
        BY <1>1
    <2> QED
        BY <2>1, InFlight, Zenon
<1>7. ASSUME NEW m, Among(m, messages) PROVE m = n \/ Among(m, ui.messages)
    <2>1. PICK i \in 1 .. Len(messages) : messages[i] = m
        BY <1>7 DEF Among
    <2>2. i \in 1 .. Len(ui.messages) \/ i = Len(messages)
        BY <1>3, SMTT(30)
    <2> QED
        BY <1>3, <2>1, <2>2 DEF Among
<1>8. SentOnce(messages, ui.next)
    <2>1. \A i \in 1 .. Len(messages) : i \in 1 .. Len(ui.messages) \/ i = Len(messages)
        BY <1>3, SMTT(30)
    <2>2. \A i \in 1 .. Len(ui.messages) : ui.messages[i] # n
        BY <1>6 DEF Among
    <2> QED
        BY <1>3, <1>6, <2>1, <2>2 DEF ChatInv, SentOnce
<1>9. InFlightFits(net', ui.next, ui.first, srv.turns, messages)
    BY <1>5, <1>7 DEF ChatInv, InFlightFits
<1>10. ASSUME ~ui.overlap PROVE InOrder(messages, srv.turns)
    <2>1. \A i \in 1 .. Len(messages) : i \in 1 .. Len(ui.messages) \/ i = Len(messages)
        BY <1>3, SMTT(30)
    <2>2. InOrder(ui.messages, srv.turns) /\ Before(ui.messages, n, srv.turns)
        BY <1>1, <1>10 DEF ChatInv, OneAwaited
    <2>3. \A i \in 1 .. Len(messages) : Among(messages[i], srv.turns)
        BY <1>3, <1>6, <2>1, <2>2 DEF InOrder
    <2>4. ASSUME NEW i \in 1 .. Len(messages), NEW j \in 1 .. Len(messages),
                 NEW k \in 1 .. Len(srv.turns), NEW l \in 1 .. Len(srv.turns),
                 i < j, srv.turns[k] = messages[i], srv.turns[l] = messages[j]
          PROVE  k < l
        <3>1. i \in 1 .. Len(ui.messages)
            BY <1>3, <2>4, SMTT(30)
        <3>2. CASE j \in 1 .. Len(ui.messages)
            BY <1>3, <2>2, <2>4, <3>1, <3>2 DEF InOrder
        <3>3. CASE j = Len(messages)
            BY <1>3, <2>2, <2>4, <3>1, <3>3 DEF Before
        <3> QED
            BY <2>1, <3>2, <3>3
    <2> QED
        BY <2>3, <2>4 DEF InOrder
<1>11. ASSUME ~ui.overlap
       PROVE  OneAwaited(net', ui.first, ui'.sending, messages, srv.turns)
    <2>1. \A m \in Chat!Turn : m >= ui.first => net'[m] = "none"
        BY <1>1, <1>5, <1>11 DEF ChatInv, OneAwaited
    <2> QED
        BY <2>1 DEF OneAwaited
<1>12. ui.view = "chat"
    <2>1. ui.next \in Nat
        BY <1>1, ChatBounds DEF ChatPage
    <2>2. ~(ui.first = ui.next)
        BY <1>0, <1>6, <2>1
    <2> QED
        BY <2>2 DEF ChatInv
<1> QED
    BY <1>1, <1>4, <1>5, <1>8, <1>9, <1>10, <1>11, <1>12 DEF ChatInv

\* The service begins a turn, or refuses it.
LEMMA ChatBegins ==
    ASSUME FormsAssumption, ChatInv, NEW n \in Chat!Turn, NEW calls \in ChatCalls,
           calls[n] \in {"running", "error"}, net[n] \in {"sent", "running"},
           \A m \in Chat!Turn : m # n => calls[m] = net[m],
           net' = calls, ui' = ui, srv' \in ChatStore, srv'.turns = srv.turns
    PROVE  ChatInv'
<1>1. InFlightFits(calls, ui.next, ui.first, srv.turns, ui.messages)
    BY DEF ChatInv, InFlightFits
<1>2. ASSUME ~ui.overlap
      PROVE  OneAwaited(calls, ui.first, ui.sending, ui.messages, srv.turns)
    <2>1. \A m \in Chat!Turn : calls[m] # "none" => net[m] # "none"
        OBVIOUS
    <2> QED
        BY <1>2, <2>1 DEF ChatInv, OneAwaited
<1> QED
    BY <1>1, <1>2 DEF ChatInv

\* A turn is stored after all others.
LEMMA ChatStores ==
    ASSUME FormsAssumption, ChatInv, NEW n \in Chat!Turn, NEW calls \in ChatCalls,
           calls[n] = "stored", net[n] = "running",
           \A m \in Chat!Turn : m # n => calls[m] = net[m],
           net' = calls, ui' = ui, srv' \in ChatStore, srv'.turns = Append(srv.turns, n)
    PROVE  ChatInv'
<1>1. ui \in ChatPage /\ srv \in ChatStore /\ ui.next \in Nat
    BY ChatBounds DEF ChatInv, ChatPage
<1>2. PICK turns : turns = srv'.turns
    OBVIOUS
<1>3. /\ turns \in ChatTurns /\ Len(turns) = Len(srv.turns) + 1
      /\ Len(srv.turns) \in Nat /\ turns[Len(turns)] = n
      /\ \A k \in 1 .. Len(srv.turns) : turns[k] = srv.turns[k]
    BY <1>1, <1>2, SMTT(30) DEF ChatStore, ChatTurns
<1>4. \A k \in 1 .. Len(turns) : k \in 1 .. Len(srv.turns) \/ k = Len(turns)
    BY <1>3, SMTT(30)
<1>5. n < ui.next /\ ~Among(n, srv.turns)
    <2>1. net[n] # "none" /\ net[n] # "stored"
        OBVIOUS
    <2> QED
        BY <2>1, InFlight, Zenon
<1>6. \A m : Among(m, turns) <=> m = n \/ Among(m, srv.turns)
    <2>1. Among(n, turns)
        <3>1. Len(turns) \in 1 .. Len(turns)
            BY <1>3
        <3> QED
            BY <1>3, <3>1 DEF Among
    <2>2. ASSUME NEW m, Among(m, srv.turns) PROVE Among(m, turns)
        <3>1. PICK k \in 1 .. Len(srv.turns) : srv.turns[k] = m
            BY <2>2 DEF Among
        <3>2. k \in 1 .. Len(turns)
            BY <1>3
        <3> QED
            BY <1>3, <3>1, <3>2 DEF Among
    <2>3. ASSUME NEW m, Among(m, turns) PROVE m = n \/ Among(m, srv.turns)
        <3>1. PICK k \in 1 .. Len(turns) : turns[k] = m
            BY <2>3 DEF Among
        <3> QED
            BY <1>3, <1>4, <3>1 DEF Among
    <2> QED
        BY <2>1, <2>2, <2>3
<1>7. SentOnce(turns, ui.next)
    <2>1. \A k \in 1 .. Len(srv.turns) : srv.turns[k] # n
        BY <1>5 DEF Among
    <2>2. SentOnce(srv.turns, ui.next)
        BY DEF ChatInv
    <2>3. \A i \in 1 .. Len(turns) : turns[i] < ui.next
        BY <1>3, <1>4, <1>5, <2>2 DEF SentOnce
    <2>4. ASSUME NEW i \in 1 .. Len(turns), NEW j \in 1 .. Len(turns), turns[i] = turns[j]
          PROVE  i = j
        <3>1. i \in 1 .. Len(srv.turns) \/ i = Len(turns)
            BY <1>4
        <3>2. j \in 1 .. Len(srv.turns) \/ j = Len(turns)
            BY <1>4
        <3> QED
            BY <1>3, <2>1, <2>2, <2>4, <3>1, <3>2, Zenon DEF SentOnce
    <2> QED
        BY <2>3, <2>4 DEF SentOnce
<1>8. InFlightFits(calls, ui.next, ui.first, turns, ui.messages)
    BY <1>6 DEF ChatInv, InFlightFits
<1>9. ASSUME ~ui.overlap PROVE \A i \in 1 .. Len(ui.messages) : ui.messages[i] # n
    BY <1>5, <1>9 DEF ChatInv, InOrder
<1>10. ASSUME ~ui.overlap PROVE InOrder(ui.messages, turns)
    <2>1. InOrder(ui.messages, srv.turns)
        BY <1>10 DEF ChatInv
    <2>2. \A i \in 1 .. Len(ui.messages) : Among(ui.messages[i], turns)
        BY <1>6, <2>1 DEF InOrder
    <2>3. ASSUME NEW i \in 1 .. Len(ui.messages), NEW j \in 1 .. Len(ui.messages),
                 NEW k \in 1 .. Len(turns), NEW l \in 1 .. Len(turns),
                 i < j, turns[k] = ui.messages[i], turns[l] = ui.messages[j]
          PROVE  k < l
        <3>1. k \in 1 .. Len(srv.turns) /\ l \in 1 .. Len(srv.turns)
            BY <1>3, <1>4, <1>9, <1>10, <2>3
        <3>2. srv.turns[k] = ui.messages[i] /\ srv.turns[l] = ui.messages[j]
            BY <1>3, <2>3, <3>1
        <3> QED
            BY <2>1, <2>3, <3>1, <3>2 DEF InOrder
    <2> QED
        BY <2>2, <2>3 DEF InOrder
<1>11. ASSUME ~ui.overlap
       PROVE  OneAwaited(calls, ui.first, ui.sending, ui.messages, turns)
    <2>1. ASSUME NEW m \in Chat!Turn, m >= ui.first, calls[m] # "none"
          PROVE  m >= ui.first /\ net[m] # "none"
        BY <2>1
    <2>2. ASSUME NEW m \in Chat!Turn, m >= ui.first, calls[m] # "none"
          PROVE  Before(ui.messages, m, turns)
        <3> SUFFICES ASSUME NEW i \in 1 .. Len(ui.messages), NEW k \in 1 .. Len(turns),
                            NEW l \in 1 .. Len(turns), turns[k] = ui.messages[i], turns[l] = m
                     PROVE  k < l
            BY DEF Before
        <3>1. k \in 1 .. Len(srv.turns)
            BY <1>3, <1>4, <1>9, <1>11
        <3>2. CASE l = Len(turns)
            BY <1>3, <3>1, <3>2
        <3>3. CASE l \in 1 .. Len(srv.turns)
            <4>1. Before(ui.messages, m, srv.turns)
                BY <1>11, <2>1, <2>2 DEF ChatInv, OneAwaited
            <4> QED
                BY <1>3, <3>1, <3>3, <4>1 DEF Before
        <3> QED
            BY <1>4, <3>2, <3>3
    <2>3. OneAwaited(net, ui.first, ui.sending, ui.messages, srv.turns)
        BY <1>11 DEF ChatInv
    <2> QED
        BY <2>1, <2>2, <2>3 DEF OneAwaited
<1> QED
    BY <1>1, <1>2, <1>7, <1>8, <1>10, <1>11 DEF ChatInv

LEMMA ChatServed ==
    ASSUME FormsAssumption, ChatInv, NEW n \in Chat!Turn, Chat!Begin(n) \/ Chat!Finish(n)
    PROVE  ChatInv'
<1>1. net \in ChatCalls /\ srv \in ChatStore /\ ui' = ui
    BY DEF ChatInv, Chat!Begin, Chat!Finish
<1>2. PICK state : net' = [net EXCEPT ![n] = state] /\ state \in {"running", "stored", "error"}
    BY DEF Chat!Begin, Chat!Finish
<1>3. PICK calls : calls = [net EXCEPT ![n] = state]
    OBVIOUS
<1>4. /\ calls \in ChatCalls /\ net' = calls /\ calls[n] = state
      /\ \A m \in Chat!Turn : m # n => calls[m] = net[m]
    BY <1>1, <1>2, <1>3 DEF ChatCalls, Chat!Pc
<1>5. CASE Chat!Begin(n)
    <2>1. srv' \in ChatStore /\ srv'.turns = srv.turns
        BY <1>1, <1>5, ChatBounds DEF Chat!Begin, ChatStore
    <2>2. net[n] = "sent" /\ calls[n] \in {"running", "error"}
        BY <1>1, <1>4, <1>5 DEF Chat!Begin, ChatCalls
    <2> QED
        BY <1>1, <1>4, <2>1, <2>2, ChatBegins
<1>6. CASE Chat!Finish(n)
    <2>1. PICK active \in ChatActive : active = Chat!Decr(srv.active)
        BY <1>1, ChatBounds DEF ChatStore
    <2>2. CASE /\ srv' = [srv EXCEPT !.active = active]
               /\ net' = [net EXCEPT ![n] = "error"]
        <3>1. srv' \in ChatStore /\ srv'.turns = srv.turns
            BY <1>1, <2>2 DEF ChatStore
        <3>2. net[n] = "running" /\ calls[n] = "error"
            BY <1>1, <1>4, <1>6, <2>2 DEF Chat!Finish, ChatCalls
        <3> QED
            BY <1>1, <1>4, <3>1, <3>2, ChatBegins
    <2>3. CASE /\ srv' = [turns |-> Append(srv.turns, n), active |-> active]
               /\ net' = [net EXCEPT ![n] = "stored"]
        <3>1. Append(srv.turns, n) \in ChatTurns
            BY <1>1 DEF ChatStore, ChatTurns
        <3>2. srv' \in ChatStore /\ srv'.turns = Append(srv.turns, n)
            BY <2>3, <3>1 DEF ChatStore
        <3>3. net[n] = "running" /\ calls[n] = "stored"
            BY <1>1, <1>4, <1>6, <2>3 DEF Chat!Finish, ChatCalls
        <3> QED
            BY <1>1, <1>4, <3>2, <3>3, ChatStores
    <2> QED
        BY <1>6, <2>1, <2>2, <2>3 DEF Chat!Finish
<1> QED
    BY <1>5, <1>6

LEMMA ChatKeepsInv == ASSUME FormsAssumption, ChatInv, Chat!Next PROVE ChatInv'
<1>1. CASE Chat!SubmitForm
    <2>1. ui.sending \in BOOLEAN /\ ui.mic \in {"off", "idle", "sending"}
        BY DEF ChatInv, ChatPage
    <2> QED
        BY <1>1, <2>1, ChatSends DEF Chat!SubmitForm
<1>2. CASE Chat!MicResult
    BY <1>2, ChatSends DEF Chat!MicResult
<1>3. ASSUME NEW n \in Chat!Turn, Chat!SendAnswered(n) PROVE ChatInv'
    <2>1. n \in Nat /\ ui.first \in Nat
        BY ChatBounds DEF ChatInv, ChatPage
    <2> QED
        BY <1>3, <2>1, ChatDrops, ChatAnswered
<1> QED
    BY <1>1, <1>2, <1>3, ChatAsides, ChatLoads, ChatDrops, ChatServed DEF Chat!Next

\* No more turns than there are numbers.
LEMMA FewTurns ==
    ASSUME FormsAssumption, NEW turns \in Seq(Chat!Turn), NEW next, SentOnce(turns, next)
    PROVE  turns \in Chat!SeqOf(Chat!Turn, MaxTurns)
<1>1. turns \in Injection(1 .. Len(turns), Chat!Turn)
    <2>1. turns \in [1 .. Len(turns) -> Chat!Turn]
        OBVIOUS
    <2>2. \A i, j \in 1 .. Len(turns) : turns[i] = turns[j] => i = j
        BY DEF SentOnce
    <2> QED
        BY <2>1, <2>2, Fun_IsInj
<1>2. Len(turns) \in Nat /\ MaxTurns \in Nat
    BY ChatBounds
<1>3. ExistsInjection(1 .. Len(turns), 1 .. MaxTurns)
    BY <1>1, ChatBounds DEF ExistsInjection
<1>4. Len(turns) =< MaxTurns
    BY <1>2, <1>3, Fun_NatInjLeq
<1>5. turns \in [1 .. Len(turns) -> Chat!Turn] /\ Len(turns) \in 0 .. MaxTurns
    BY <1>2, <1>4
<1> QED
    BY <1>5 DEF Chat!SeqOf

LEMMA ChatProperties ==
    ASSUME FormsAssumption, ChatInv PROVE Chat!TypeOK /\ Chat!ShownInOrder
<1>1. ui \in ChatPage /\ net \in ChatCalls /\ srv \in ChatStore
    BY DEF ChatInv
<1>2. Chat!TypeOK
    <2>1. /\ ui.messages \in Chat!SeqOf(Chat!Turn, MaxTurns)
          /\ srv.turns \in Chat!SeqOf(Chat!Turn, MaxTurns)
        BY <1>1, FewTurns DEF ChatInv, ChatPage, ChatStore, ChatTurns
    <2>2. PICK page : page = ui
        OBVIOUS
    <2>3. /\ page \in ChatPage /\ page.messages \in Chat!SeqOf(Chat!Turn, MaxTurns)
        BY <1>1, <2>1, <2>2
    <2>4. page \in [view : {"loading", "failed", "chat"},
                    messages : Chat!SeqOf(Chat!Turn, MaxTurns),
                    temps : SUBSET Chat!Turn, sending : BOOLEAN, error : BOOLEAN,
                    mic : {"off", "idle", "sending"}, speaking : {0} \cup Chat!Turn,
                    voice : BOOLEAN, next : ChatNumber, first : ChatNumber,
                    overlap : BOOLEAN]
        BY <2>3 DEF ChatPage
    <2>5. srv \in [turns : Chat!SeqOf(Chat!Turn, MaxTurns), active : ChatActive]
        BY <1>1, <2>1 DEF ChatStore
    <2> QED
        BY <1>1, <2>2, <2>4, <2>5 DEF ChatCalls, Chat!TypeOK, ChatNumber, ChatActive
<1>3. ASSUME ~ui.overlap
      PROVE  \E place \in [DOMAIN ui.messages -> DOMAIN srv.turns] :
                 /\ \A i \in DOMAIN ui.messages : srv.turns[place[i]] = ui.messages[i]
                 /\ \A i, j \in DOMAIN ui.messages : i < j => place[i] < place[j]
    <2>1. DOMAIN ui.messages = 1 .. Len(ui.messages) /\ DOMAIN srv.turns = 1 .. Len(srv.turns)
        BY <1>1 DEF ChatPage, ChatStore
    <2>2. PICK place : place = [i \in 1 .. Len(ui.messages) |->
                                  CHOOSE k \in 1 .. Len(srv.turns) :
                                      srv.turns[k] = ui.messages[i]]
        OBVIOUS
    <2>3. \A i \in 1 .. Len(ui.messages) :
              place[i] \in 1 .. Len(srv.turns) /\ srv.turns[place[i]] = ui.messages[i]
        BY <1>3, <2>2 DEF ChatInv, InOrder, Among
    <2>4. \A i, j \in 1 .. Len(ui.messages) : i < j => place[i] < place[j]
        BY <1>3, <2>3 DEF ChatInv, InOrder
    <2>5. place \in [1 .. Len(ui.messages) -> 1 .. Len(srv.turns)]
        BY <2>2, <2>3
    <2> QED
        BY <2>1, <2>3, <2>4, <2>5
<1> QED
    BY <1>2, <1>3 DEF Chat!ShownInOrder
-----------------------------------------------------------------------------
(* The lists of a teacher.                                                 *)

Disabled == {{}} \cup {{e} : e \in Entries}

TeacherPage ==
    [page : Lists!Pages, view : {"loading", "ready", "error"}, shown : SUBSET Entries,
     form : BOOLEAN, named : BOOLEAN, saving : BOOLEAN, saveError : BOOLEAN,
     removing : Disabled, doubt : BOOLEAN]

TeacherCalls == [loads : SUBSET Lists!Load, changes : SUBSET Lists!Change]

TeacherStore == [live : SUBSET Entries, used : SUBSET Entries]

\* A change is stored whose answer the page awaits, and will load the list then.
AnswerPending(changes) == \E c \in changes : c.mounted /\ c.reply = "ok"

\* The last load brings what is stored, unless another one will follow.
LastIsCurrent(loads, changes, live) ==
    \A load \in loads :
        load.latest /\ load.served => \/ load.late \/ load.found = live
                                      \/ AnswerPending(changes)

\* So does the page show it.
PageIsCurrent(page, changes, live) ==
    page.view = "ready" =>
        page.doubt \/ page.shown = live \/ AnswerPending(changes)

TeacherInv ==
    /\ ui \in TeacherPage /\ net \in TeacherCalls /\ srv \in TeacherStore
    /\ srv.live \subseteq srv.used
    /\ LastIsCurrent(net.loads, net.changes, srv.live)
    /\ PageIsCurrent(ui, net.changes, srv.live)

LEMMA TeacherMounted ==
    ASSUME NEW page \in Lists!Pages
    PROVE  /\ Lists!Mounted(page) \in TeacherPage
           /\ Lists!Mounted(page).view = "loading"
BY DEF Lists!Mounted, TeacherPage, Disabled

LEMMA FreshLoad ==
    Lists!NewLoad \in Lists!Load /\ Lists!NewLoad.served = FALSE
BY DEF Lists!NewLoad, Lists!Load

LEMMA TeacherInit == ASSUME Lists!Init PROVE TeacherInv
<1>1. ui \in TeacherPage /\ ui.view = "loading"
    BY TeacherMounted DEF Lists!Init
<1>2. net = [loads |-> {Lists!NewLoad}, changes |-> {}]
    BY DEF Lists!Init
<1>3. net \in TeacherCalls /\ \A load \in net.loads : load.served = FALSE
    BY <1>2, FreshLoad DEF TeacherCalls
<1>4. srv \in TeacherStore /\ srv.live \subseteq srv.used
    BY DEF Lists!Init, TeacherStore
<1> QED
    BY <1>1, <1>3, <1>4 DEF TeacherInv, LastIsCurrent, PageIsCurrent

\* What the form does changes neither the list nor what is in flight.
LEMMA TeacherForms ==
    ASSUME TeacherInv, Lists!ToggleForm \/ Lists!TypeName PROVE TeacherInv'
<1>1. ui \in TeacherPage /\ net' = net /\ srv' = srv
    BY DEF TeacherInv, Lists!ToggleForm, Lists!TypeName
<1>2. /\ ui' \in TeacherPage /\ ui'.view = ui.view /\ ui'.shown = ui.shown
      /\ ui'.doubt = ui.doubt
    BY <1>1 DEF TeacherPage, Lists!ToggleForm, Lists!TypeName
<1> QED
    BY <1>1, <1>2 DEF TeacherInv, PageIsCurrent

\* The loads that are asked for again: none of them is served.
LEMMA TeacherRuns ==
    ASSUME net \in TeacherCalls
    PROVE  /\ Lists!Run \subseteq Lists!Load
           /\ \A load \in Lists!Run : ~(load.latest /\ load.served)
<1>1. ASSUME NEW load \in net.loads
      PROVE  /\ [load EXCEPT !.latest = FALSE] \in Lists!Load
             /\ [load EXCEPT !.latest = FALSE].latest = FALSE
    <2>1. load \in Lists!Load
        BY DEF TeacherCalls
    <2> QED
        BY <2>1 DEF Lists!Load
<1> QED
    BY <1>1, FreshLoad DEF Lists!Run

\* A load is served, answered or lost.
LEMMA TeacherLoads ==
    ASSUME TeacherInv, NEW load \in net.loads,
           Lists!ServeLoad(load) \/ Lists!Loaded(load) \/ Lists!LoadFails(load)
    PROVE  TeacherInv'
<1>1. /\ ui \in TeacherPage /\ net \in TeacherCalls /\ srv \in TeacherStore
      /\ load \in Lists!Load /\ srv' = srv
    BY DEF TeacherInv, TeacherCalls, Lists!ServeLoad, Lists!Loaded, Lists!LoadFails
<1>2. load.latest /\ load.served =>
          load.late \/ load.found = srv.live \/ AnswerPending(net.changes)
    BY DEF TeacherInv, LastIsCurrent
<1>3. CASE Lists!ServeLoad(load)
    <2>1. PICK new : new = [load EXCEPT !.served = TRUE, !.found = srv.live]
        OBVIOUS
    <2>2. new \in Lists!Load /\ new.found = srv.live
        BY <1>1, <2>1 DEF Lists!Load, TeacherStore
    <2>3. ui' = ui /\ net' = [net EXCEPT !.loads = (@ \ {load}) \cup {new}]
        BY <1>3, <2>1 DEF Lists!ServeLoad
    <2>4. /\ net' \in TeacherCalls /\ net'.changes = net.changes
          /\ net'.loads = (net.loads \ {load}) \cup {new}
        BY <1>1, <2>2, <2>3 DEF TeacherCalls
    <2>5. LastIsCurrent(net'.loads, net'.changes, srv.live)
        BY <2>2, <2>4 DEF TeacherInv, LastIsCurrent
    <2> QED
        BY <1>1, <2>3, <2>4, <2>5 DEF TeacherInv
<1>4. CASE Lists!Loaded(load) \/ Lists!LoadFails(load)
    <2>1. net' = [net EXCEPT !.loads = @ \ {load}]
        BY <1>4 DEF Lists!Loaded, Lists!LoadFails
    <2>2. /\ net' \in TeacherCalls /\ net'.changes = net.changes
          /\ net'.loads \subseteq net.loads
        BY <1>1, <2>1 DEF TeacherCalls
    <2>3. LastIsCurrent(net'.loads, net'.changes, srv.live)
        BY <2>2 DEF TeacherInv, LastIsCurrent
    <2>4. ui' \in TeacherPage /\ PageIsCurrent(ui', net'.changes, srv.live)
        <3>1. CASE ui' = ui
            BY <1>1, <2>2, <3>1 DEF TeacherInv
        <3>2. CASE load.latest /\ Lists!Loaded(load)
            <4>1. /\ ui' = [ui EXCEPT !.view = "ready", !.shown = load.found,
                                      !.doubt = load.late]
                  /\ load.served
                BY <3>2 DEF Lists!Loaded, Lists!Counts
            <4>2. load.found \in SUBSET Entries /\ load.late \in BOOLEAN
                BY <1>1 DEF Lists!Load
            <4>3. ui' \in TeacherPage /\ ui'.shown = load.found /\ ui'.doubt = load.late
                BY <1>1, <4>1, <4>2 DEF TeacherPage
            <4> QED
                BY <1>2, <2>2, <3>2, <4>1, <4>3 DEF PageIsCurrent
        <3>3. CASE load.latest /\ Lists!LoadFails(load)
            <4>1. ui' = [ui EXCEPT !.view = "error", !.shown = {}]
                BY <3>3 DEF Lists!LoadFails, Lists!Counts
            <4>2. ui' \in TeacherPage /\ ui'.view = "error"
                BY <1>1, <4>1 DEF TeacherPage
            <4> QED
                BY <4>2 DEF PageIsCurrent
        <3> QED
            BY <1>4, <3>1, <3>2, <3>3 DEF Lists!Loaded, Lists!LoadFails, Lists!Counts
    <2> QED
        BY <1>1, <2>2, <2>3, <2>4 DEF TeacherInv
<1> QED
    BY <1>3, <1>4

\* Loading once more, and mounting the other tab.
LEMMA TeacherAgain ==
    ASSUME TeacherInv, Lists!RetryLoad \/ Lists!SwitchTab PROVE TeacherInv'
<1>1. ui \in TeacherPage /\ net \in TeacherCalls /\ srv \in TeacherStore
    BY DEF TeacherInv
<1>2. CASE Lists!RetryLoad
    <2>1. /\ ui' = [ui EXCEPT !.view = "loading"] /\ srv' = srv
          /\ net' = [net EXCEPT !.loads = Lists!Run]
        BY <1>2 DEF Lists!RetryLoad
    <2>2. ui' \in TeacherPage /\ ui'.view = "loading"
        BY <1>1, <2>1 DEF TeacherPage
    <2>3. net' \in TeacherCalls /\ net'.loads = Lists!Run
        BY <1>1, <2>1, TeacherRuns DEF TeacherCalls
    <2> QED
        BY <1>1, <2>1, <2>2, <2>3, TeacherRuns DEF TeacherInv, LastIsCurrent, PageIsCurrent
<1>3. CASE Lists!SwitchTab
    <2>1. ui' \in TeacherPage /\ ui'.view = "loading"
        BY <1>3, TeacherMounted DEF Lists!SwitchTab, Lists!Pages
    <2>2. PICK changes : changes = {[c EXCEPT !.mounted = FALSE] : c \in net.changes}
        OBVIOUS
    <2>3. changes \subseteq Lists!Change
        BY <1>1, <2>2 DEF TeacherCalls, Lists!Change
    <2>4. net' = [loads |-> {Lists!NewLoad}, changes |-> changes]
        BY <1>3, <2>2 DEF Lists!SwitchTab
    <2>5. net' \in TeacherCalls /\ \A load \in net'.loads : load.served = FALSE
        BY <2>3, <2>4, FreshLoad DEF TeacherCalls
    <2>6. srv' \in TeacherStore /\ srv'.live \subseteq srv'.used
        BY <1>3 DEF Lists!SwitchTab, TeacherStore
    <2> QED
        BY <2>1, <2>5, <2>6 DEF TeacherInv, LastIsCurrent, PageIsCurrent
<1> QED
    BY <1>2, <1>3

\* A change is sent; nothing is stored yet.
LEMMA TeacherSends ==
    ASSUME TeacherInv, NEW e \in Entries, NEW op \in {"create", "remove"},
           Lists!Send(op, e), ui' \in TeacherPage, ui'.view = ui.view,
           ui'.shown = ui.shown, ui'.doubt = ui.doubt
    PROVE  TeacherInv'
<1>1. net \in TeacherCalls /\ srv' = srv
    BY DEF TeacherInv, Lists!Send
<1>2. PICK c : c = [op |-> op, entry |-> e, reply |-> "none", mounted |-> TRUE]
    OBVIOUS
<1>3. c \in Lists!Change
    BY <1>2 DEF Lists!Change
<1>4. net' = [net EXCEPT !.changes = @ \cup {c}]
    BY <1>2 DEF Lists!Send
<1>5. /\ net' \in TeacherCalls /\ net'.loads = net.loads
      /\ net'.changes = net.changes \cup {c}
    BY <1>1, <1>3, <1>4 DEF TeacherCalls
<1>6. AnswerPending(net.changes) => AnswerPending(net'.changes)
    BY <1>5 DEF AnswerPending
<1>7. LastIsCurrent(net'.loads, net'.changes, srv.live)
    BY <1>5, <1>6 DEF TeacherInv, LastIsCurrent
<1>8. PageIsCurrent(ui', net'.changes, srv.live)
    BY <1>6 DEF TeacherInv, PageIsCurrent
<1> QED
    BY <1>1, <1>5, <1>7, <1>8 DEF TeacherInv

\* A change that is stored is answered to the page that made it.
LEMMA TeacherServes ==
    ASSUME TeacherInv, NEW c \in net.changes, Lists!ServeChange(c) PROVE TeacherInv'
<1>1. /\ ui \in TeacherPage /\ net \in TeacherCalls /\ srv \in TeacherStore
      /\ c \in Lists!Change /\ c.reply = "none" /\ ui' = ui
    BY DEF TeacherInv, TeacherCalls, Lists!ServeChange
<1>2. ASSUME NEW reply \in {"ok", "refused"},
             net' = [net EXCEPT !.changes = (@ \ {c}) \cup {[c EXCEPT !.reply = reply]}]
      PROVE  /\ net' \in TeacherCalls /\ net'.loads = net.loads
             /\ AnswerPending(net.changes) => AnswerPending(net'.changes)
             /\ reply = "ok" /\ c.mounted => AnswerPending(net'.changes)
    <2>1. PICK new : new = [c EXCEPT !.reply = reply]
        OBVIOUS
    <2>2. new \in Lists!Change /\ new.reply = reply /\ new.mounted = c.mounted
        BY <1>1, <2>1 DEF Lists!Change
    <2>3. net' = [net EXCEPT !.changes = (@ \ {c}) \cup {new}]
        BY <1>2, <2>1
    <2>4. /\ net' \in TeacherCalls /\ net'.loads = net.loads
          /\ net'.changes = (net.changes \ {c}) \cup {new}
        BY <1>1, <2>2, <2>3 DEF TeacherCalls
    <2> QED
        BY <1>1, <2>2, <2>4 DEF AnswerPending
<1>3. CASE /\ c.mounted
           /\ net' = [net EXCEPT !.changes = (@ \ {c}) \cup {[c EXCEPT !.reply = "ok"]}]
           /\ srv' = [live |-> IF c.op = "create" THEN srv.live \cup {c.entry}
                               ELSE srv.live \ {c.entry},
                      used |-> srv.used \cup {c.entry}]
    <2>1. c.entry \in Entries
        BY <1>1 DEF Lists!Change
    <2>2. srv' \in TeacherStore /\ srv'.live \subseteq srv'.used
        BY <1>1, <1>3, <2>1 DEF TeacherInv, TeacherStore
    <2>3. net' \in TeacherCalls /\ AnswerPending(net'.changes)
        BY <1>2, <1>3
    <2> QED
        BY <1>1, <2>2, <2>3 DEF TeacherInv, LastIsCurrent, PageIsCurrent
<1>4. CASE /\ net' = [net EXCEPT !.changes =
                        (@ \ {c}) \cup {[c EXCEPT !.reply = "refused"]}]
           /\ srv' = srv
    <2>1. /\ net' \in TeacherCalls /\ net'.loads = net.loads
          /\ AnswerPending(net.changes) => AnswerPending(net'.changes)
        BY <1>2, <1>4
    <2> QED
        BY <1>1, <1>4, <2>1 DEF TeacherInv, LastIsCurrent, PageIsCurrent
<1> QED
    BY <1>3, <1>4 DEF Lists!ServeChange

\* What is left is still pending, unless it is what was answered.
LEMMA PendingLeft ==
    ASSUME NEW changes, NEW c \in changes, AnswerPending(changes),
           ~(c.mounted /\ c.reply = "ok")
    PROVE  AnswerPending(changes \ {c})
BY DEF AnswerPending

LEMMA TeacherAnswered ==
    ASSUME TeacherInv, NEW c \in net.changes, Lists!ChangeAnswered(c) PROVE TeacherInv'
<1>1. /\ ui \in TeacherPage /\ net \in TeacherCalls /\ srv \in TeacherStore /\ srv' = srv
    BY DEF TeacherInv, Lists!ChangeAnswered
<1>2. CASE ~c.mounted
    <2>1. ui' = ui /\ net' = [net EXCEPT !.changes = @ \ {c}]
        BY <1>2 DEF Lists!ChangeAnswered
    <2>2. /\ net' \in TeacherCalls /\ net'.loads = net.loads
          /\ net'.changes = net.changes \ {c}
        BY <1>1, <2>1 DEF TeacherCalls
    <2>3. AnswerPending(net.changes) => AnswerPending(net'.changes)
        BY <1>2, <2>2, PendingLeft
    <2> QED
        BY <1>1, <2>1, <2>2, <2>3 DEF TeacherInv, LastIsCurrent, PageIsCurrent
<1>3. CASE c.mounted
    <2>1. net' = [loads |-> Lists!Run, changes |-> net.changes \ {c}]
        BY <1>3 DEF Lists!ChangeAnswered
    <2>2. net' \in TeacherCalls /\ net'.loads = Lists!Run
        BY <1>1, <2>1, TeacherRuns DEF TeacherCalls
    <2>3. {} \in Disabled
        BY DEF Disabled
    <2>4. ui' \in TeacherPage /\ ui'.view = "loading"
        <3>1. CASE ui' = [ui EXCEPT !.view = "loading", !.form = FALSE, !.named = FALSE,
                                    !.saving = FALSE]
            BY <1>1, <3>1 DEF TeacherPage
        <3>2. CASE ui' = [ui EXCEPT !.view = "loading", !.removing = {}]
            BY <1>1, <2>3, <3>2 DEF TeacherPage
        <3> QED
            BY <1>3, <3>1, <3>2 DEF Lists!ChangeAnswered
    <2> QED
        BY <1>1, <2>2, <2>4, TeacherRuns DEF TeacherInv, LastIsCurrent, PageIsCurrent
<1> QED
    BY <1>2, <1>3

LEMMA TeacherFails ==
    ASSUME TeacherInv, NEW c \in net.changes, Lists!ChangeFails(c) PROVE TeacherInv'
<1> DEFINE missed == c.reply = "ok"
           marked(load) == [load EXCEPT !.late = @ \/ missed]
<1>1. /\ ui \in TeacherPage /\ net \in TeacherCalls /\ srv \in TeacherStore /\ srv' = srv
    BY DEF TeacherInv, Lists!ChangeFails
<1>2. PICK loads : loads = {marked(load) : load \in net.loads}
    OBVIOUS
<1>3. ASSUME NEW load \in net.loads
      PROVE  /\ marked(load) \in Lists!Load /\ marked(load).latest = load.latest
             /\ marked(load).served = load.served /\ marked(load).found = load.found
             /\ marked(load).late = (load.late \/ missed)
    <2>1. load \in Lists!Load
        BY <1>1 DEF TeacherCalls
    <2> QED
        BY <2>1 DEF Lists!Load
<1>4. net' = [loads |-> loads, changes |-> net.changes \ {c}]
    BY <1>2 DEF Lists!ChangeFails
<1>5. net' \in TeacherCalls /\ net'.loads = loads /\ net'.changes = net.changes \ {c}
    BY <1>1, <1>2, <1>3, <1>4 DEF TeacherCalls
<1>6. ~missed => (AnswerPending(net.changes) => AnswerPending(net'.changes))
    BY <1>5, PendingLeft
<1>7. LastIsCurrent(net'.loads, net'.changes, srv.live)
    <2> SUFFICES ASSUME NEW new \in loads, new.latest, new.served
                 PROVE  \/ new.late \/ new.found = srv.live
                        \/ AnswerPending(net'.changes)
        BY <1>5 DEF LastIsCurrent
    <2>1. PICK load \in net.loads : new = marked(load)
        BY <1>2
    <2>2. /\ load.latest /\ load.served /\ new.found = load.found
          /\ new.late = (load.late \/ missed)
        BY <1>3, <2>1
    <2>3. load.late \/ load.found = srv.live \/ AnswerPending(net.changes)
        BY <2>2 DEF TeacherInv, LastIsCurrent
    <2> QED
        BY <1>6, <2>2, <2>3
<1>8. CASE ~c.mounted
    <2>1. ui' = ui
        BY <1>8 DEF Lists!ChangeFails
    <2>2. AnswerPending(net.changes) => AnswerPending(net'.changes)
        BY <1>5, <1>8, PendingLeft
    <2>3. PageIsCurrent(ui, net'.changes, srv.live)
        BY <2>2 DEF TeacherInv, PageIsCurrent
    <2> QED
        BY <1>1, <1>5, <1>7, <2>1, <2>3 DEF TeacherInv
<1>9. CASE c.mounted
    <2>1. /\ ui' \in TeacherPage /\ ui'.view = ui.view /\ ui'.shown = ui.shown
          /\ ui'.doubt = (ui.doubt \/ missed)
        <3>1. CASE ui' = [ui EXCEPT !.saving = FALSE, !.saveError = TRUE,
                                    !.doubt = @ \/ missed]
            BY <1>1, <3>1 DEF TeacherPage
        <3>2. CASE ui' = [ui EXCEPT !.removing = {}, !.doubt = @ \/ missed]
            <4>1. {} \in Disabled
                BY DEF Disabled
            <4> QED
                BY <1>1, <3>2, <4>1 DEF TeacherPage
        <3> QED
            BY <1>9, <3>1, <3>2 DEF Lists!ChangeFails
    <2>2. PageIsCurrent(ui', net'.changes, srv.live)
        BY <1>1, <1>6, <2>1 DEF TeacherInv, PageIsCurrent, TeacherPage
    <2> QED
        BY <1>1, <1>5, <1>7, <2>1, <2>2 DEF TeacherInv
<1> QED
    BY <1>8, <1>9

LEMMA TeacherKeepsInv == ASSUME TeacherInv, Lists!Next PROVE TeacherInv'
<1>1. ui \in TeacherPage
    BY DEF TeacherInv
<1>2. CASE Lists!HandleCreate
    <2>1. ui' = [ui EXCEPT !.saving = TRUE, !.saveError = FALSE]
        BY <1>2 DEF Lists!HandleCreate
    <2>2. PICK e \in Entries : Lists!Send("create", e)
        BY <1>2 DEF Lists!HandleCreate
    <2>3. /\ ui' \in TeacherPage /\ ui'.view = ui.view /\ ui'.shown = ui.shown
          /\ ui'.doubt = ui.doubt
        BY <1>1, <2>1 DEF TeacherPage
    <2> QED
        BY <2>2, <2>3, TeacherSends
<1>3. ASSUME NEW e \in Entries, Lists!HandleRemove(e) PROVE TeacherInv'
    <2>1. ui' = [ui EXCEPT !.removing = {e}] /\ Lists!Send("remove", e)
        BY <1>3 DEF Lists!HandleRemove
    <2>2. {e} \in Disabled
        BY DEF Disabled
    <2>3. /\ ui' \in TeacherPage /\ ui'.view = ui.view /\ ui'.shown = ui.shown
          /\ ui'.doubt = ui.doubt
        BY <1>1, <2>1, <2>2 DEF TeacherPage
    <2> QED
        BY <2>1, <2>3, TeacherSends
<1> QED
    BY <1>2, <1>3, TeacherForms, TeacherLoads, TeacherAgain, TeacherServes,
       TeacherAnswered, TeacherFails
    DEF Lists!Next

LEMMA ListsCardinality == \A S : Lists!Cardinality(S) = Cardinality(S)
BY DEF Lists!Cardinality, Cardinality

LEMMA TeacherProperties ==
    ASSUME TeacherInv PROVE Lists!TypeOK /\ Lists!ShownIsCurrent
<1>1. ui \in TeacherPage /\ net \in TeacherCalls /\ srv \in TeacherStore
    BY DEF TeacherInv
<1>2. Cardinality(ui.removing) =< 1 /\ ui.removing \subseteq Entries
    <2>1. ui.removing \in Disabled
        BY <1>1 DEF TeacherPage
    <2>2. CASE ui.removing = {}
        BY <2>2, FS_EmptySet
    <2>3. CASE \E e \in Entries : ui.removing = {e}
        BY <2>3, FS_Singleton
    <2> QED
        BY <2>1, <2>2, <2>3 DEF Disabled
<1>3. Lists!TypeOK
    <2>1. ui \in [page : Lists!Pages, view : {"loading", "ready", "error"},
                  shown : SUBSET Entries, form : BOOLEAN, named : BOOLEAN,
                  saving : BOOLEAN, saveError : BOOLEAN, removing : SUBSET Entries,
                  doubt : BOOLEAN]
        BY <1>1, <1>2 DEF TeacherPage
    <2>2. net.loads \subseteq Lists!Load /\ net.changes \subseteq Lists!Change
        BY <1>1 DEF TeacherCalls
    <2>3. Lists!Cardinality(ui.removing) =< 1
        BY <1>2, ListsCardinality
    <2> QED
        BY <1>1, <2>1, <2>2, <2>3 DEF TeacherInv, TeacherStore, Lists!TypeOK
<1>4. Lists!ShownIsCurrent
    BY DEF TeacherInv, PageIsCurrent, AnswerPending, Lists!ShownIsCurrent
<1> QED
    BY <1>3, <1>4

-----------------------------------------------------------------------------
(* The reports.                                                            *)

Versions == 0 .. MaxVersion

ReportPage ==
    [page : Report!Pages, of : Selections, main : Report!Content, side : Report!Content,
     loading : BOOLEAN, error : BOOLEAN, open : BOOLEAN, busy : BOOLEAN,
     doubt : BOOLEAN, sideLost : BOOLEAN]

ReportCalls == [loads : SUBSET Report!Load, changes : SUBSET Report!Change]

\* A load that was not overtaken is of what is selected, and an answer that is
\* not late is what is stored.
LoadsAreTrue(loads, of, version) ==
    \A r \in loads : /\ ~r.overtaken => r.of = of
                     /\ r.served /\ ~r.late => r.version = version

ChangesAreTrue(changes, of) == \A c \in changes : ~c.overtaken => c.of = of

\* The page is right as soon as nothing is being loaded, unless a change is
\* stored whose answer will load it again.
ReportIsTrue(page, loads, changes, version) ==
    loads = {} /\ ~page.error /\ ~page.doubt /\ (\A c \in changes : c.reply # "ok") =>
        /\ page.main = [of |-> page.of, version |-> version]
        /\ page.sideLost \/ page.side = page.main

ReportInv ==
    /\ ui \in ReportPage /\ net \in ReportCalls /\ srv \in Versions
    /\ LoadsAreTrue(net.loads, ui.of, srv)
    /\ ChangesAreTrue(net.changes, ui.of)
    /\ ReportIsTrue(ui, net.loads, net.changes, srv)

LEMMA ReportLoad ==
    ASSUME FormsAssumption, NEW of \in Selections, NEW overtaken \in BOOLEAN,
           NEW after \in BOOLEAN
    PROVE  LET load == Report!NewLoad(of, overtaken, after) IN
           /\ load \in Report!Load /\ load.of = of /\ load.served = FALSE
           /\ load.overtaken = overtaken
BY DEF FormsAssumption, Report!NewLoad, Report!Load

LEMMA ReportNothing ==
    ASSUME FormsAssumption
    PROVE  Report!Nothing \in Report!Content /\ 0 \in Versions /\ Versions \subseteq Nat
BY DEF FormsAssumption, Report!Nothing, Report!Content, Versions

LEMMA ReportInit == ASSUME FormsAssumption, Report!Init PROVE ReportInv
<1>1. PICK page \in Report!Pages, of \in Selections :
          /\ ui = [page |-> page, of |-> of, main |-> Report!Nothing,
                   side |-> Report!Nothing, loading |-> TRUE, error |-> FALSE,
                   open |-> FALSE, busy |-> FALSE, doubt |-> FALSE, sideLost |-> TRUE]
          /\ net = [loads |-> {Report!NewLoad(of, FALSE, FALSE)}, changes |-> {}]
          /\ srv = 0
    BY DEF Report!Init
<1>2. ui \in ReportPage /\ ui.of = of
    BY <1>1, ReportNothing DEF ReportPage
<1>3. PICK load \in Report!Load : /\ load = Report!NewLoad(of, FALSE, FALSE)
                                  /\ load.of = of /\ load.served = FALSE
    BY ReportLoad
<1>4. net \in ReportCalls /\ net.loads = {load} /\ net.changes = {}
    BY <1>1, <1>3 DEF ReportCalls
<1> QED
    BY <1>1, <1>2, <1>3, <1>4, ReportNothing
    DEF ReportInv, LoadsAreTrue, ChangesAreTrue, ReportIsTrue

\* A change is stored: answers read before are late.
LEMMA ReportStored ==
    ASSUME FormsAssumption, net \in ReportCalls, srv \in Versions,
           LoadsAreTrue(net.loads, ui.of, srv), NEW changes \in SUBSET Report!Change,
           Report!Store(changes)
    PROVE  /\ net' \in ReportCalls /\ net'.changes = changes /\ srv' \in Versions
           /\ LoadsAreTrue(net'.loads, ui.of, srv')
<1> DEFINE marked(r) == [r EXCEPT !.late = @ \/ r.served]
<1>1. PICK loads : loads = {marked(r) : r \in net.loads}
    OBVIOUS
<1>2. ASSUME NEW r \in net.loads
      PROVE  /\ marked(r) \in Report!Load /\ marked(r).of = r.of
             /\ marked(r).overtaken = r.overtaken /\ marked(r).served = r.served
             /\ r.served => marked(r).late
    <2>1. r \in Report!Load
        BY DEF ReportCalls
    <2> QED
        BY <2>1 DEF Report!Load
<1>3. net' = [loads |-> loads, changes |-> changes]
    BY <1>1 DEF Report!Store
<1>4. net' \in ReportCalls /\ net'.loads = loads /\ net'.changes = changes
    BY <1>1, <1>2, <1>3 DEF ReportCalls
<1>5. srv' \in Versions
    BY DEF Report!Store, Versions, FormsAssumption
<1>6. LoadsAreTrue(loads, ui.of, srv')
    <2> SUFFICES ASSUME NEW new \in loads
                 PROVE  /\ ~new.overtaken => new.of = ui.of
                        /\ ~(new.served /\ ~new.late)
        BY DEF LoadsAreTrue
    <2>1. PICK r \in net.loads : new = marked(r)
        BY <1>1
    <2> QED
        BY <1>2, <2>1 DEF LoadsAreTrue
<1> QED
    BY <1>4, <1>5, <1>6

LEMMA ReportChanges ==
    ASSUME FormsAssumption, ReportInv,
           Report!OtherChange \/ \E c \in net.changes : Report!ServeChange(c)
    PROVE  ReportInv'
<1>1. /\ ui \in ReportPage /\ net \in ReportCalls /\ srv \in Versions
      /\ LoadsAreTrue(net.loads, ui.of, srv) /\ net.changes \in SUBSET Report!Change
    BY DEF ReportInv, ReportCalls
<1>2. CASE Report!OtherChange
    <2>1. ui' = [ui EXCEPT !.doubt = TRUE] /\ Report!Store(net.changes)
        BY <1>2 DEF Report!OtherChange
    <2>2. ui' \in ReportPage /\ ui'.of = ui.of /\ ui'.doubt = TRUE
        BY <1>1, <2>1 DEF ReportPage
    <2>3. /\ net' \in ReportCalls /\ net'.changes = net.changes /\ srv' \in Versions
          /\ LoadsAreTrue(net'.loads, ui.of, srv')
        BY <1>1, <2>1, ReportStored
    <2> QED
        BY <2>2, <2>3 DEF ReportInv, ReportIsTrue
<1>3. ASSUME NEW c \in net.changes, Report!ServeChange(c) PROVE ReportInv'
    <2>1. ASSUME NEW reply \in {"ok", "refused"}
          PROVE  LET changes == (net.changes \ {c}) \cup {[c EXCEPT !.reply = reply]} IN
                 /\ changes \in SUBSET Report!Change /\ ChangesAreTrue(changes, ui.of)
                 /\ reply = "ok" => \E a \in changes : a.reply = "ok"
        <3>1. PICK new : new = [c EXCEPT !.reply = reply]
            OBVIOUS
        <3>2. c \in Report!Change
            BY <1>1
        <3>3. /\ new \in Report!Change /\ new.reply = reply /\ new.of = c.of
              /\ new.overtaken = c.overtaken
            BY <3>1, <3>2 DEF Report!Change
        <3> QED
            BY <1>1, <3>1, <3>3 DEF ReportInv, ChangesAreTrue
    <2>2. CASE Report!Store((net.changes \ {c}) \cup {[c EXCEPT !.reply = "ok"]})
        <3>1. PICK changes : changes = (net.changes \ {c}) \cup {[c EXCEPT !.reply = "ok"]}
            OBVIOUS
        <3>2. /\ changes \in SUBSET Report!Change /\ ChangesAreTrue(changes, ui.of)
              /\ \E a \in changes : a.reply = "ok"
            BY <2>1, <3>1
        <3>3. /\ net' \in ReportCalls /\ net'.changes = changes /\ srv' \in Versions
              /\ LoadsAreTrue(net'.loads, ui.of, srv')
            BY <1>1, <2>2, <3>1, <3>2, ReportStored
        <3>4. ui' = ui
            BY <1>3 DEF Report!ServeChange
        <3> QED
            BY <1>1, <3>2, <3>3, <3>4 DEF ReportInv, ReportIsTrue
    <2>3. CASE /\ net' = [net EXCEPT !.changes =
                            (net.changes \ {c}) \cup {[c EXCEPT !.reply = "refused"]}]
               /\ srv' = srv
        <3>1. PICK changes : changes =
                  (net.changes \ {c}) \cup {[c EXCEPT !.reply = "refused"]}
            OBVIOUS
        <3>2. changes \in SUBSET Report!Change /\ ChangesAreTrue(changes, ui.of)
            BY <2>1, <3>1
        <3>3. net' = [net EXCEPT !.changes = changes]
            BY <2>3, <3>1
        <3>4. net' \in ReportCalls /\ net'.changes = changes /\ net'.loads = net.loads
            BY <1>1, <3>2, <3>3 DEF ReportCalls
        <3>5. ui' = ui /\ c.reply = "none"
            BY <1>3 DEF Report!ServeChange
        <3>6. ASSUME \A a \in changes : a.reply # "ok"
              PROVE  \A a \in net.changes : a.reply # "ok"
            BY <3>1, <3>5, <3>6
        <3> QED
            BY <1>1, <2>3, <3>2, <3>4, <3>5, <3>6 DEF ReportInv, ReportIsTrue
    <2> QED
        BY <1>3, <2>2, <2>3 DEF Report!ServeChange
<1> QED
    BY <1>2, <1>3

LEMMA ReportServesLoad ==
    ASSUME ReportInv, NEW r \in net.loads, Report!ServeLoad(r) PROVE ReportInv'
<1>1. /\ ui \in ReportPage /\ net \in ReportCalls /\ srv \in Versions /\ r \in Report!Load
      /\ ui' = ui /\ srv' = srv
    BY DEF ReportInv, ReportCalls, Report!ServeLoad
<1>2. PICK new : new = [r EXCEPT !.served = TRUE, !.version = srv]
    OBVIOUS
<1>3. /\ new \in Report!Load /\ new.of = r.of /\ new.overtaken = r.overtaken
      /\ new.version = srv
    BY <1>1, <1>2 DEF Report!Load, Versions
<1>4. net' = [net EXCEPT !.loads = (@ \ {r}) \cup {new}]
    BY <1>2 DEF Report!ServeLoad
<1>5. /\ net' \in ReportCalls /\ net'.loads = (net.loads \ {r}) \cup {new}
      /\ net'.changes = net.changes
    BY <1>1, <1>3, <1>4 DEF ReportCalls
<1>6. LoadsAreTrue(net'.loads, ui.of, srv)
    BY <1>3, <1>5 DEF ReportInv, LoadsAreTrue
<1>7. net'.loads # {}
    BY <1>5
<1> QED
    BY <1>1, <1>5, <1>6, <1>7 DEF ReportInv, ReportIsTrue

\* What a load brings, or that it brings nothing.
LEMMA ReportEnds ==
    ASSUME FormsAssumption, ReportInv, NEW r \in net.loads, NEW both \in BOOLEAN,
           Report!Loaded(r, both) \/ Report!LoadFails(r, both)
    PROVE  ReportInv'
<1>1. /\ ui \in ReportPage /\ net \in ReportCalls /\ srv \in Versions /\ r \in Report!Load
      /\ srv' = srv
    BY DEF ReportInv, ReportCalls, Report!Loaded, Report!LoadFails
<1>2. net' = [net EXCEPT !.loads = @ \ {r}]
    BY DEF Report!Loaded, Report!LoadFails
<1>3. /\ net' \in ReportCalls /\ net'.loads = net.loads \ {r}
      /\ net'.changes = net.changes
    BY <1>1, <1>2 DEF ReportCalls
<1>4. LoadsAreTrue(net'.loads, ui.of, srv)
    BY <1>3 DEF ReportInv, LoadsAreTrue
<1>5. PICK content : content = [of |-> r.of, version |-> r.version]
    OBVIOUS
<1>6. content \in Report!Content /\ r.late \in BOOLEAN /\ r.overtaken \in BOOLEAN
    BY <1>1, <1>5 DEF Report!Load, Report!Content
<1>7. PICK busy \in BOOLEAN : busy = (ui.busy /\ ~r.after)
    OBVIOUS
<1>8. CASE Report!Loaded(r, both)
    <2>1. PICK page : page = [ui EXCEPT !.main = content,
                                        !.side = IF both THEN content ELSE @,
                                        !.sideLost = ~both,
                                        !.doubt = r.late \/ r.overtaken]
        OBVIOUS
    <2>2. /\ page \in ReportPage /\ page.of = ui.of /\ page.main = content
          /\ page.side = (IF both THEN content ELSE ui.side) /\ page.sideLost = ~both
          /\ page.doubt = (r.late \/ r.overtaken) /\ page.busy = ui.busy
        BY <1>1, <1>6, <2>1 DEF ReportPage
    <2>3. ui' = [page EXCEPT !.loading = FALSE, !.busy = busy]
        BY <1>5, <1>7, <1>8, <2>1, <2>2 DEF Report!Loaded, Report!Ended
    <2>4. /\ ui' \in ReportPage /\ ui'.of = ui.of /\ ui'.main = content
          /\ ui'.side = (IF both THEN content ELSE ui.side) /\ ui'.sideLost = ~both
          /\ ui'.doubt = (r.late \/ r.overtaken)
        BY <2>2, <2>3 DEF ReportPage
    <2>5. ~r.late /\ ~r.overtaken => r.of = ui.of /\ r.version = srv
        BY <1>8 DEF ReportInv, LoadsAreTrue, Report!Loaded
    <2>6. ReportIsTrue(ui', net'.loads, net'.changes, srv)
        BY <1>5, <2>4, <2>5 DEF ReportIsTrue
    <2> QED
        BY <1>1, <1>3, <1>4, <2>4, <2>6 DEF ReportInv
<1>9. CASE Report!LoadFails(r, both)
    <2>1. PICK main \in Report!Content :
              main = IF ui.page = "users" THEN Report!Nothing ELSE ui.main
        BY <1>1, ReportNothing DEF ReportPage
    <2>2. PICK side \in Report!Content : side = IF both THEN content ELSE ui.side
        BY <1>1, <1>6 DEF ReportPage
    <2>3. PICK page : page = [ui EXCEPT !.error = TRUE, !.main = main, !.side = side]
        OBVIOUS
    <2>4. /\ page \in ReportPage /\ page.of = ui.of /\ page.error = TRUE
          /\ page.busy = ui.busy
        BY <1>1, <2>3 DEF ReportPage
    <2>5. page = [ui EXCEPT !.error = TRUE,
                            !.main = IF ui.page = "users" THEN Report!Nothing ELSE @,
                            !.side = IF both THEN [of |-> r.of, version |-> r.version]
                                     ELSE @]
        BY <1>1, <1>5, <2>1, <2>2, <2>3 DEF ReportPage
    <2>6. ui' = [page EXCEPT !.loading = FALSE, !.busy = busy]
        BY <1>7, <1>9, <2>4, <2>5 DEF Report!LoadFails, Report!Ended
    <2>7. ui' \in ReportPage /\ ui'.of = ui.of /\ ui'.error = TRUE
        BY <2>4, <2>6 DEF ReportPage
    <2> QED
        BY <1>1, <1>3, <1>4, <2>7 DEF ReportInv, ReportIsTrue
<1> QED
    BY <1>8, <1>9

\* A load is begun; the page is right again when it ends.
LEMMA ReportBegins ==
    ASSUME FormsAssumption, NEW page \in ReportPage, NEW calls \in ReportCalls,
           NEW load \in Report!Load, Report!StartLoad(page, load, calls),
           srv \in Versions, LoadsAreTrue(calls.loads, page.of, srv),
           ChangesAreTrue(calls.changes, page.of),
           ~load.overtaken => load.of = page.of, load.served = FALSE
    PROVE  ReportInv'
<1>1. /\ ui' = [page EXCEPT !.loading = TRUE, !.error = FALSE] /\ srv' = srv
      /\ net' = [calls EXCEPT !.loads = @ \cup {load}]
    BY DEF Report!StartLoad
<1>2. ui' \in ReportPage /\ ui'.of = page.of
    BY <1>1 DEF ReportPage
<1>3. /\ net' \in ReportCalls /\ net'.loads = calls.loads \cup {load}
      /\ net'.changes = calls.changes
    BY <1>1 DEF ReportCalls
<1>4. LoadsAreTrue(net'.loads, page.of, srv)
    BY <1>3 DEF LoadsAreTrue
<1>5. net'.loads # {}
    BY <1>3
<1> QED
    BY <1>1, <1>2, <1>3, <1>4, <1>5 DEF ReportInv, ReportIsTrue

LEMMA ReportChooses ==
    ASSUME FormsAssumption, ReportInv, NEW of \in Selections, Report!Choose(of)
    PROVE  ReportInv'
<1> DEFINE marked(r) == [r EXCEPT !.overtaken = TRUE]
<1>1. ui \in ReportPage /\ net \in ReportCalls /\ srv \in Versions
    BY DEF ReportInv
<1>2. PICK loads, changes : /\ loads = {marked(r) : r \in net.loads}
                            /\ changes = {marked(c) : c \in net.changes}
    OBVIOUS
<1>3. ASSUME NEW r \in net.loads
      PROVE  /\ marked(r) \in Report!Load /\ marked(r).overtaken = TRUE
             /\ marked(r).served = r.served /\ marked(r).late = r.late
             /\ marked(r).version = r.version
    <2>1. r \in Report!Load
        BY <1>1 DEF ReportCalls
    <2> QED
        BY <2>1 DEF Report!Load
<1>4. ASSUME NEW c \in net.changes
      PROVE  marked(c) \in Report!Change /\ marked(c).overtaken = TRUE
    <2>1. c \in Report!Change
        BY <1>1 DEF ReportCalls
    <2> QED
        BY <2>1 DEF Report!Change
<1>5. PICK calls : calls = [loads |-> loads, changes |-> changes]
    OBVIOUS
<1>6. calls \in ReportCalls /\ calls.loads = loads /\ calls.changes = changes
    BY <1>2, <1>3, <1>4, <1>5 DEF ReportCalls
<1>7. LoadsAreTrue(loads, of, srv)
    <2> SUFFICES ASSUME NEW new \in loads
                 PROVE  new.overtaken /\ (new.served /\ ~new.late => new.version = srv)
        BY DEF LoadsAreTrue
    <2>1. PICK r \in net.loads : new = marked(r)
        BY <1>2
    <2> QED
        BY <1>3, <2>1 DEF ReportInv, LoadsAreTrue
<1>8. ChangesAreTrue(changes, of)
    BY <1>2, <1>4 DEF ChangesAreTrue
<1>9. PICK page : page = [ui EXCEPT !.of = of]
    OBVIOUS
<1>10. page \in ReportPage /\ page.of = of
    BY <1>1, <1>9 DEF ReportPage
<1>11. PICK load \in Report!Load : /\ load = Report!NewLoad(of, FALSE, FALSE)
                                   /\ load.of = of /\ load.served = FALSE
    BY ReportLoad
<1>12. Report!StartLoad(page, load, calls)
    BY <1>2, <1>5, <1>9, <1>11 DEF Report!Choose
<1> QED
    BY <1>1, <1>6, <1>7, <1>8, <1>10, <1>11, <1>12, ReportBegins

LEMMA ReportRefreshes ==
    ASSUME FormsAssumption, ReportInv, Report!Refresh PROVE ReportInv'
<1>1. ui \in ReportPage /\ net \in ReportCalls /\ srv \in Versions /\ ui.of \in Selections
    BY DEF ReportInv, ReportPage
<1>2. PICK load \in Report!Load : /\ load = Report!NewLoad(ui.of, FALSE, FALSE)
                                  /\ load.of = ui.of /\ load.served = FALSE
    BY <1>1, ReportLoad
<1>3. Report!StartLoad(ui, load, net)
    BY <1>2 DEF Report!Refresh
<1> QED
    BY <1>1, <1>2, <1>3, ReportBegins DEF ReportInv

\* The answer to a change loads the page again.
LEMMA ReportChanged ==
    ASSUME FormsAssumption, ReportInv, NEW c \in net.changes, Report!Changed(c)
    PROVE  ReportInv'
<1>1. ui \in ReportPage /\ net \in ReportCalls /\ srv \in Versions /\ c \in Report!Change
    BY DEF ReportInv, ReportCalls
<1>2. c.of \in Selections /\ c.overtaken \in BOOLEAN
    BY <1>1 DEF Report!Change
<1>3. PICK load \in Report!Load : /\ load = Report!NewLoad(c.of, c.overtaken, TRUE)
                                  /\ load.of = c.of /\ load.served = FALSE
                                  /\ load.overtaken = c.overtaken
    <2>1. PICK overtaken \in BOOLEAN : overtaken = c.overtaken
        BY <1>2
    <2>2. PICK of \in Selections : of = c.of
        BY <1>2
    <2>3. /\ Report!NewLoad(of, overtaken, TRUE) \in Report!Load
          /\ Report!NewLoad(of, overtaken, TRUE).of = of
          /\ Report!NewLoad(of, overtaken, TRUE).served = FALSE
          /\ Report!NewLoad(of, overtaken, TRUE).overtaken = overtaken
        BY ReportLoad
    <2> QED
        BY <2>1, <2>2, <2>3
<1>4. PICK page : page = [ui EXCEPT !.open = FALSE]
    OBVIOUS
<1>5. page \in ReportPage /\ page.of = ui.of
    BY <1>1, <1>4 DEF ReportPage
<1>6. PICK calls : calls = [net EXCEPT !.changes = @ \ {c}]
    OBVIOUS
<1>7. /\ calls \in ReportCalls /\ calls.loads = net.loads
      /\ calls.changes = net.changes \ {c}
    BY <1>1, <1>6 DEF ReportCalls
<1>8. Report!StartLoad(page, load, calls)
    BY <1>3, <1>4, <1>6 DEF Report!Changed
<1>9. /\ LoadsAreTrue(calls.loads, page.of, srv) /\ ChangesAreTrue(calls.changes, page.of)
      /\ ~load.overtaken => load.of = page.of
    BY <1>3, <1>5, <1>7 DEF ReportInv, ChangesAreTrue
<1> QED
    BY <1>1, <1>3, <1>5, <1>7, <1>8, <1>9, ReportBegins

\* The dialog, and the changes it and the button of a job send.
LEMMA ReportSends ==
    ASSUME FormsAssumption, ReportInv, Report!SendChange, ui' \in ReportPage,
           ui'.of = ui.of, ui'.main = ui.main, ui'.side = ui.side, ui'.error = ui.error,
           ui'.doubt = ui.doubt, ui'.sideLost = ui.sideLost
    PROVE  ReportInv'
<1>1. /\ ui \in ReportPage /\ net \in ReportCalls /\ srv \in Versions /\ srv' = srv
      /\ ui.of \in Selections
    BY DEF ReportInv, ReportPage, Report!SendChange
<1>2. PICK c : c = [of |-> ui.of, reply |-> "none", overtaken |-> FALSE]
    OBVIOUS
<1>3. c \in Report!Change /\ c.of = ui.of
    BY <1>1, <1>2 DEF Report!Change
<1>4. net' = [net EXCEPT !.changes = @ \cup {c}]
    BY <1>2 DEF Report!SendChange
<1>5. /\ net' \in ReportCalls /\ net'.loads = net.loads
      /\ net'.changes = net.changes \cup {c}
    BY <1>1, <1>3, <1>4 DEF ReportCalls
<1>6. ChangesAreTrue(net'.changes, ui.of)
    BY <1>3, <1>5 DEF ReportInv, ChangesAreTrue
<1>7. ReportIsTrue(ui', net'.loads, net'.changes, srv)
    BY <1>5 DEF ReportInv, ReportIsTrue
<1> QED
    BY <1>1, <1>5, <1>6, <1>7 DEF ReportInv

LEMMA ReportDialog ==
    ASSUME FormsAssumption, ReportInv,
           Report!RetryJob \/ Report!OpenUser \/ Report!CloseUser \/ Report!ConfirmUser
    PROVE  ReportInv'
<1>1. ui \in ReportPage
    BY DEF ReportInv
<1>2. CASE Report!RetryJob
    BY <1>1, <1>2, ReportSends DEF Report!RetryJob
<1>3. CASE Report!ConfirmUser
    <2>1. ui' = [ui EXCEPT !.busy = TRUE] /\ Report!SendChange
        BY <1>3 DEF Report!ConfirmUser
    <2>2. /\ ui' \in ReportPage /\ ui'.of = ui.of /\ ui'.main = ui.main
          /\ ui'.side = ui.side /\ ui'.error = ui.error
          /\ ui'.doubt = ui.doubt /\ ui'.sideLost = ui.sideLost
        BY <1>1, <2>1 DEF ReportPage
    <2> QED
        BY <2>1, <2>2, ReportSends
<1>4. CASE Report!OpenUser \/ Report!CloseUser
    <2>1. PICK open \in BOOLEAN : ui' = [ui EXCEPT !.open = open]
        BY <1>4 DEF Report!OpenUser, Report!CloseUser
    <2>2. net' = net /\ srv' = srv
        BY <1>4 DEF Report!OpenUser, Report!CloseUser
    <2>3. /\ ui' \in ReportPage /\ ui'.of = ui.of /\ ui'.main = ui.main
          /\ ui'.side = ui.side /\ ui'.error = ui.error
          /\ ui'.doubt = ui.doubt /\ ui'.sideLost = ui.sideLost
        BY <1>1, <2>1 DEF ReportPage
    <2> QED
        BY <2>2, <2>3 DEF ReportInv, ReportIsTrue
<1> QED
    BY <1>2, <1>3, <1>4

LEMMA ReportChangeFails ==
    ASSUME FormsAssumption, ReportInv, NEW c \in net.changes, Report!ChangeFails(c)
    PROVE  ReportInv'
<1> DEFINE missed == c.reply = "ok"
           marked(r) == [r EXCEPT !.late = @ \/ missed]
<1>1. ui \in ReportPage /\ net \in ReportCalls /\ srv \in Versions /\ srv' = srv
    BY DEF ReportInv, Report!ChangeFails
<1>2. PICK loads : loads = {marked(r) : r \in net.loads}
    OBVIOUS
<1>3. ASSUME NEW r \in net.loads
      PROVE  /\ marked(r) \in Report!Load /\ marked(r).of = r.of
             /\ marked(r).overtaken = r.overtaken /\ marked(r).served = r.served
             /\ marked(r).version = r.version /\ marked(r).late = (r.late \/ missed)
    <2>1. r \in Report!Load
        BY <1>1 DEF ReportCalls
    <2> QED
        BY <2>1 DEF Report!Load
<1>4. net' = [loads |-> loads, changes |-> net.changes \ {c}]
    BY <1>2 DEF Report!ChangeFails
<1>5. net' \in ReportCalls /\ net'.loads = loads /\ net'.changes = net.changes \ {c}
    BY <1>1, <1>2, <1>3, <1>4 DEF ReportCalls
<1>6. ui' = [ui EXCEPT !.busy = FALSE, !.doubt = @ \/ missed]
    BY DEF Report!ChangeFails
<1>7. /\ ui' \in ReportPage /\ ui'.of = ui.of /\ ui'.main = ui.main
      /\ ui'.side = ui.side /\ ui'.error = ui.error
      /\ ui'.doubt = (ui.doubt \/ missed) /\ ui'.sideLost = ui.sideLost
    BY <1>1, <1>6 DEF ReportPage
<1>8. LoadsAreTrue(loads, ui.of, srv)
    <2> SUFFICES ASSUME NEW new \in loads
                 PROVE  /\ ~new.overtaken => new.of = ui.of
                        /\ new.served /\ ~new.late => new.version = srv
        BY DEF LoadsAreTrue
    <2>1. PICK r \in net.loads : new = marked(r)
        BY <1>2
    <2> QED
        BY <1>3, <2>1 DEF ReportInv, LoadsAreTrue
<1>9. ChangesAreTrue(net'.changes, ui.of)
    BY <1>5 DEF ReportInv, ChangesAreTrue
<1>10. ASSUME loads = {}, ~missed, \A a \in net.changes \ {c} : a.reply # "ok"
       PROVE  net.loads = {} /\ \A a \in net.changes : a.reply # "ok"
    BY <1>2, <1>10
<1>11. ReportIsTrue(ui', loads, net'.changes, srv)
    BY <1>5, <1>7, <1>10 DEF ReportInv, ReportIsTrue
<1> QED
    BY <1>1, <1>5, <1>7, <1>8, <1>9, <1>11 DEF ReportInv

LEMMA ReportKeepsInv == ASSUME FormsAssumption, ReportInv, Report!Next PROVE ReportInv'
BY ReportChanges, ReportServesLoad, ReportEnds, ReportChooses, ReportRefreshes,
   ReportChanged, ReportDialog, ReportChangeFails
DEF Report!Next

LEMMA ReportProperties ==
    ASSUME ReportInv PROVE Report!TypeOK /\ Report!ShownIsCurrent
BY DEF ReportInv, ReportPage, ReportCalls, Versions, ReportIsTrue, Report!TypeOK,
       Report!ShownIsCurrent

-----------------------------------------------------------------------------
(* The activity of a class.                                                *)

FeedEvents == Seq(Activity!Events)
FeedAnswers == {items \in FeedEvents : Len(items) =< PageSize}
FeedCursor == 0 .. MaxEvents

FeedPage ==
    [page : {"activity", "teacher"}, feed : Feed, items : FeedEvents,
     cursor : FeedCursor, loading : BOOLEAN, more : BOOLEAN, error : BOOLEAN,
     mixed : BOOLEAN]

FeedRequest ==
    [feed : Feed, cursor : FeedCursor, append : BOOLEAN, served : BOOLEAN,
     items : FeedAnswers, next : FeedCursor]

FeedStore == [of : [Activity!Events -> Feed \cup {0}], late : SUBSET Activity!Events]

\* No event between two times is missing, but those stored after a newer one.
Covered(items, low, high, feed, store) ==
    \A e \in Activity!Events :
        store.of[e] = feed /\ low < e /\ e < high => e \in store.late \/ Among(e, items)

\* The events of a class, newest first, down to the one from which on to read.
IsWhole(items, next, feed, store) ==
    /\ \A i \in 1 .. Len(items) : store.of[items[i]] = feed
    /\ \A i, j \in 1 .. Len(items) : i < j => items[i] > items[j]
    /\ next # 0 => Len(items) > 0 /\ next = items[Len(items)]
    /\ Len(items) > 0 => Covered(items, next, items[1], feed, store)

\* Older events come right after the last one that is shown.
Continues(r, store) ==
    /\ \A i \in 1 .. Len(r.items) : r.items[i] < r.cursor
    /\ Covered(r.items, r.next, r.cursor, r.feed, store)

\* What a request is for, and what the page waits for meanwhile.
IsAwaited(r, page, store) ==
    /\ r.feed = page.feed
    /\ r.append => /\ r.cursor = page.cursor /\ r.cursor # 0
                   /\ page.more /\ ~page.loading /\ ~page.error
    /\ ~r.append => r.cursor = 0 /\ page.loading
    /\ r.served => /\ IsWhole(r.items, r.next, r.feed, store)
                   /\ r.append => Continues(r, store)

\* With one request at most in flight the list that is shown is whole.
FeedSettled(page, requests, store) ==
    /\ \A r, s \in requests : r = s
    /\ \A r \in requests : IsAwaited(r, page, store)
    /\ ~page.loading /\ ~page.error => IsWhole(page.items, page.cursor, page.feed, store)

FeedInv ==
    /\ ui \in FeedPage /\ net \in SUBSET FeedRequest /\ srv \in FeedStore
    /\ ui.mixed \/ FeedSettled(ui, net, srv)

LEMMA FeedBounds ==
    ASSUME FormsAssumption
    PROVE  /\ Activity!Events = 1 .. MaxEvents /\ Activity!Events \subseteq Nat
           /\ PageSize \in Nat \ {0} /\ MaxEvents \in Nat
           /\ Activity!Events \subseteq FeedCursor /\ 0 \in FeedCursor
           /\ FeedCursor \subseteq Nat /\ 0 \notin Activity!Events
           /\ <<>> \in FeedAnswers /\ <<>> \in FeedEvents /\ Len(<<>>) = 0
           /\ 0 \notin Feed
BY DEF FormsAssumption, Activity!Events, FeedCursor, FeedEvents, FeedAnswers

LEMMA FeedEventsAre ==
    ASSUME NEW items \in FeedEvents
    PROVE  /\ Len(items) \in Nat /\ DOMAIN items = 1 .. Len(items)
           /\ \A i \in 1 .. Len(items) : items[i] \in Activity!Events
BY DEF FeedEvents

LEMMA FeedAnswersAre ==
    ASSUME NEW items \in FeedAnswers PROVE items \in FeedEvents /\ Len(items) =< PageSize
BY DEF FeedAnswers

LEMMA FeedInit == ASSUME FormsAssumption, Activity!Init PROVE FeedInv
<1>1. PICK page \in {"activity", "teacher"}, feed \in Feed :
          /\ ui = [page |-> page, feed |-> feed, items |-> <<>>, cursor |-> 0,
                   loading |-> TRUE, more |-> FALSE, error |-> FALSE, mixed |-> FALSE]
          /\ net = {Activity!Request(feed, 0, FALSE)}
          /\ srv = [of |-> [e \in Activity!Events |-> 0], late |-> {}]
    BY DEF Activity!Init
<1>2. PICK r : r = Activity!Request(feed, 0, FALSE)
    OBVIOUS
<1>3. /\ r \in FeedRequest /\ r.feed = feed /\ r.cursor = 0
      /\ r.append = FALSE /\ r.served = FALSE
    BY <1>2, FeedBounds DEF Activity!Request, FeedRequest
<1>4. ui \in FeedPage /\ ui.feed = feed /\ ui.loading = TRUE
    BY <1>1, FeedBounds DEF FeedPage
<1>5. srv \in FeedStore
    BY <1>1 DEF FeedStore
<1>6. net = {r}
    BY <1>1, <1>2
<1> QED
    BY <1>3, <1>4, <1>5, <1>6 DEF FeedInv, FeedSettled, IsAwaited

-----------------------------------------------------------------------------
(* An event is stored.                                                     *)

\* What is stored stays where it is, and a new event is late where newer ones
\* are stored already.
FeedGrows(old, new) ==
    /\ \A e \in Activity!Events : old.of[e] # 0 => new.of[e] = old.of[e]
    /\ old.late \subseteq new.late
    /\ \A e, newer \in Activity!Events :
          old.of[e] = 0 /\ e < newer /\ old.of[newer] # 0 /\ new.of[e] = old.of[newer] =>
              e \in new.late

LEMMA CoveredStays ==
    ASSUME FormsAssumption, NEW old \in FeedStore, NEW new \in FeedStore,
           FeedGrows(old, new), NEW items, NEW low \in FeedCursor,
           NEW high \in Activity!Events, NEW feed \in Feed, old.of[high] = feed,
           Covered(items, low, high, feed, old)
    PROVE  Covered(items, low, high, feed, new)
<1> SUFFICES ASSUME NEW e \in Activity!Events, new.of[e] = feed, low < e, e < high
             PROVE  e \in new.late \/ Among(e, items)
    BY DEF Covered
<1>1. CASE old.of[e] = 0
    BY <1>1, FeedBounds DEF FeedGrows
<1>2. CASE old.of[e] # 0
    <2>1. old.of[e] = feed
        BY <1>2 DEF FeedGrows
    <2> QED
        BY <2>1 DEF Covered, FeedGrows
<1> QED
    BY <1>1, <1>2

LEMMA WholeStays ==
    ASSUME FormsAssumption, NEW old \in FeedStore, NEW new \in FeedStore,
           FeedGrows(old, new), NEW items \in FeedEvents, NEW next \in FeedCursor,
           NEW feed \in Feed, IsWhole(items, next, feed, old)
    PROVE  IsWhole(items, next, feed, new)
<1>1. \A i \in 1 .. Len(items) : items[i] \in Activity!Events /\ old.of[items[i]] = feed
    BY FeedEventsAre DEF IsWhole
<1>2. \A i \in 1 .. Len(items) : new.of[items[i]] = feed
    BY <1>1, FeedBounds DEF FeedGrows
<1>3. ASSUME Len(items) > 0 PROVE Covered(items, next, items[1], feed, new)
    <2>1. 1 \in 1 .. Len(items)
        BY <1>3, FeedEventsAre
    <2> QED
        BY <1>1, <1>3, <2>1, CoveredStays DEF IsWhole
<1> QED
    BY <1>2, <1>3 DEF IsWhole

LEMMA FeedStores ==
    ASSUME FormsAssumption, FeedInv, NEW e \in Activity!Events, NEW feed \in Feed,
           Activity!StoreEvent(e, feed)
    PROVE  FeedInv'
<1>1. /\ ui \in FeedPage /\ net \in SUBSET FeedRequest /\ srv \in FeedStore
      /\ ui' = ui /\ net' = net /\ srv.of[e] = 0
    BY DEF FeedInv, Activity!StoreEvent
<1>2. PICK of : of = [srv.of EXCEPT ![e] = feed]
    OBVIOUS
<1>3. /\ of \in [Activity!Events -> Feed \cup {0}] /\ of[e] = feed
      /\ \A f \in Activity!Events : f # e => of[f] = srv.of[f]
    BY <1>1, <1>2 DEF FeedStore
<1>4. PICK late \in SUBSET Activity!Events :
          late = IF \E newer \in Activity!Events : newer > e /\ srv.of[newer] = feed
                 THEN srv.late \cup {e} ELSE srv.late
    BY <1>1 DEF FeedStore
<1>5. srv' = [of |-> of, late |-> late]
    BY <1>2, <1>4 DEF Activity!StoreEvent
<1>6. srv' \in FeedStore /\ srv'.of = of /\ srv'.late = late
    BY <1>3, <1>4, <1>5 DEF FeedStore
<1>7. FeedGrows(srv, srv')
    <2>1. \A f \in Activity!Events : srv.of[f] # 0 => of[f] = srv.of[f]
        BY <1>1, <1>3
    <2>2. srv.late \subseteq late
        BY <1>4
    <2>3. ASSUME NEW f \in Activity!Events, NEW newer \in Activity!Events,
                 srv.of[f] = 0, f < newer, srv.of[newer] # 0, of[f] = srv.of[newer]
          PROVE  f \in late
        <3>1. f = e /\ srv.of[newer] = feed
            BY <1>3, <2>3
        <3>2. newer > e
            BY <2>3, <3>1, FeedBounds
        <3> QED
            BY <1>4, <3>1, <3>2
    <2> QED
        BY <1>6, <2>1, <2>2, <2>3 DEF FeedGrows
<1>8. ASSUME ~ui.mixed PROVE FeedSettled(ui, net, srv')
    <2>1. FeedSettled(ui, net, srv)
        BY <1>8 DEF FeedInv
    <2>2. ui.items \in FeedEvents /\ ui.cursor \in FeedCursor /\ ui.feed \in Feed
        BY <1>1 DEF FeedPage
    <2>3. ~ui.loading /\ ~ui.error => IsWhole(ui.items, ui.cursor, ui.feed, srv')
        BY <1>1, <1>6, <1>7, <2>1, <2>2, WholeStays DEF FeedSettled
    <2>4. ASSUME NEW r \in net PROVE IsAwaited(r, ui, srv')
        <3>1. IsAwaited(r, ui, srv) /\ r \in FeedRequest
            BY <1>1, <2>1 DEF FeedSettled
        <3>2. /\ r.items \in FeedEvents /\ r.next \in FeedCursor /\ r.feed \in Feed
              /\ r.cursor \in FeedCursor
            BY <3>1, FeedAnswersAre DEF FeedRequest
        <3>3. r.served => IsWhole(r.items, r.next, r.feed, srv')
            BY <1>1, <1>6, <1>7, <3>1, <3>2, WholeStays DEF IsAwaited
        <3>4. ASSUME r.served, r.append PROVE Continues(r, srv')
            <4>1. IsWhole(ui.items, ui.cursor, ui.feed, srv)
                BY <2>1, <3>1, <3>4 DEF FeedSettled, IsAwaited
            <4>2. r.cursor = ui.cursor /\ r.cursor # 0 /\ r.feed = ui.feed
                BY <3>1, <3>4 DEF IsAwaited
            <4>3. Len(ui.items) \in 1 .. Len(ui.items) /\ r.cursor = ui.items[Len(ui.items)]
                BY <2>2, <4>1, <4>2, FeedEventsAre DEF IsWhole
            <4>4. r.cursor \in Activity!Events /\ srv.of[r.cursor] = r.feed
                BY <2>2, <4>1, <4>2, <4>3, FeedEventsAre DEF IsWhole
            <4>5. Continues(r, srv)
                BY <3>1, <3>4 DEF IsAwaited
            <4> QED
                BY <1>1, <1>6, <1>7, <3>2, <4>4, <4>5, CoveredStays DEF Continues
        <3> QED
            BY <3>1, <3>3, <3>4 DEF IsAwaited
    <2> QED
        BY <2>1, <2>3, <2>4 DEF FeedSettled
<1> QED
    BY <1>1, <1>6, <1>8 DEF FeedInv

-----------------------------------------------------------------------------
(* Events are asked for and served.                                        *)

LEMMA FeedServes ==
    ASSUME FormsAssumption, FeedInv, NEW r \in net, Activity!Serve(r) PROVE FeedInv'
<1> DEFINE found == {e \in Activity!Events :
                       srv.of[e] = r.feed /\ (r.cursor = 0 \/ e < r.cursor)}
<1>1. /\ ui \in FeedPage /\ net \in SUBSET FeedRequest /\ srv \in FeedStore
      /\ r \in FeedRequest /\ ui' = ui /\ srv' = srv
    BY DEF FeedInv, Activity!Serve
<1>2. PICK items \in Activity!Newest(found) :
          net' = (net \ {r}) \cup
                 {[r EXCEPT !.served = TRUE, !.items = items,
                            !.next = IF Activity!Range(items) = found THEN 0
                                     ELSE Activity!Last(items)]}
    BY DEF Activity!Serve
<1>3. PICK next : next = IF Activity!Range(items) = found THEN 0 ELSE Activity!Last(items)
    OBVIOUS
<1>4. /\ items \in Activity!SeqOf(found, PageSize)
      /\ \A i, j \in DOMAIN items : i < j => items[i] > items[j]
      /\ \A e \in found \ Activity!Range(items) :
            Len(items) = PageSize /\ \A i \in DOMAIN items : items[i] > e
    BY DEF Activity!Newest
<1>5. /\ items \in FeedAnswers /\ Len(items) \in Nat /\ DOMAIN items = 1 .. Len(items)
      /\ \A i \in 1 .. Len(items) : items[i] \in found
    <2>1. PICK m \in 0 .. PageSize : items \in [1 .. m -> found]
        BY <1>4 DEF Activity!SeqOf
    <2>2. m \in Nat /\ m =< PageSize /\ Len(items) = m
        BY <2>1, FeedBounds
    <2>3. items \in Seq(Activity!Events)
        BY <2>1, <2>2
    <2> QED
        BY <2>1, <2>2, <2>3 DEF FeedAnswers, FeedEvents
<1>6. \A e : e \in Activity!Range(items) <=> Among(e, items)
    BY <1>5 DEF Activity!Range, Among
<1>7. /\ next \in FeedCursor
      /\ next # 0 => Len(items) > 0 /\ next = items[Len(items)]
    <2>1. CASE Activity!Range(items) = found
        BY <1>3, <2>1, FeedBounds
    <2>2. CASE Activity!Range(items) # found
        <3>1. PICK e \in found : e \notin Activity!Range(items)
            BY <1>5, <1>6, <2>2 DEF Among
        <3>2. Len(items) = PageSize /\ Len(items) > 0
            BY <1>4, <3>1, FeedBounds, SMTT(30)
        <3>3. Len(items) \in 1 .. Len(items)
            BY <1>5, <3>2
        <3> QED
            BY <1>3, <1>5, <2>2, <3>2, <3>3, FeedBounds DEF Activity!Last
    <2> QED
        BY <2>1, <2>2
<1>8. ASSUME NEW e \in found, next < e PROVE Among(e, items)
    <2>1. CASE Activity!Range(items) = found
        BY <1>6, <2>1
    <2>2. CASE Activity!Range(items) # found
        <3>1. SUFFICES ASSUME ~Among(e, items) PROVE FALSE
            OBVIOUS
        <3>2. Len(items) = PageSize /\ \A i \in 1 .. Len(items) : items[i] > e
            BY <1>4, <1>5, <1>6, <3>1
        <3>3. Len(items) \in 1 .. Len(items) /\ next = items[Len(items)]
            BY <1>3, <1>5, <2>2, <3>2, FeedBounds, SMTT(30) DEF Activity!Last
        <3>4. next > e /\ next \in Nat /\ e \in Nat
            BY <1>5, <3>2, <3>3, FeedBounds
        <3> QED
            BY <1>8, <3>4
    <2> QED
        BY <2>1, <2>2
<1>9. IsWhole(items, next, r.feed, srv)
    <2>1. \A i \in 1 .. Len(items) : srv.of[items[i]] = r.feed
        BY <1>5
    <2>2. ASSUME Len(items) > 0 PROVE Covered(items, next, items[1], r.feed, srv)
        <3> SUFFICES ASSUME NEW e \in Activity!Events, srv.of[e] = r.feed, next < e,
                            e < items[1]
                     PROVE  Among(e, items)
            BY DEF Covered
        <3>1. 1 \in 1 .. Len(items)
            BY <1>5, <2>2
        <3>2. items[1] \in Activity!Events /\ (r.cursor = 0 \/ items[1] < r.cursor)
            BY <1>5, <3>1
        <3>3. r.cursor \in Nat /\ e \in Nat /\ items[1] \in Nat
            BY <1>1, <3>2, FeedBounds DEF FeedRequest
        <3>4. e \in found
            BY <3>2, <3>3
        <3> QED
            BY <1>8, <3>4
    <2> QED
        BY <1>4, <1>5, <1>7, <2>1, <2>2 DEF IsWhole
<1>10. PICK new : new = [r EXCEPT !.served = TRUE, !.items = items, !.next = next]
    OBVIOUS
<1>11. /\ new \in FeedRequest /\ new.feed = r.feed /\ new.cursor = r.cursor
       /\ new.append = r.append /\ new.served = TRUE /\ new.items = items
       /\ new.next = next
    BY <1>1, <1>5, <1>7, <1>10 DEF FeedRequest
<1>12. net' = (net \ {r}) \cup {new}
    BY <1>2, <1>3, <1>10
<1>13. ASSUME ~ui.mixed PROVE FeedSettled(ui, net', srv)
    <2>1. FeedSettled(ui, net, srv)
        BY <1>13 DEF FeedInv
    <2>2. net' = {new}
        BY <1>12, <2>1 DEF FeedSettled
    <2>3. ASSUME r.append PROVE Continues(new, srv)
        <3>1. r.cursor # 0 /\ r.cursor \in Nat
            BY <1>1, <2>1, <2>3, FeedBounds DEF FeedSettled, IsAwaited, FeedRequest
        <3>2. \A i \in 1 .. Len(items) : items[i] < r.cursor
            BY <1>5, <3>1
        <3>3. Covered(items, next, r.cursor, r.feed, srv)
            BY <1>8 DEF Covered
        <3> QED
            BY <1>11, <3>2, <3>3 DEF Continues
    <2>4. IsAwaited(r, ui, srv)
        BY <2>1 DEF FeedSettled
    <2>5. IsAwaited(new, ui, srv)
        BY <1>9, <1>11, <2>3, <2>4 DEF IsAwaited
    <2> QED
        BY <2>1, <2>2, <2>5 DEF FeedSettled
<1> QED
    BY <1>1, <1>11, <1>12, <1>13 DEF FeedInv

LEMMA FeedLoads ==
    ASSUME FormsAssumption, FeedInv, NEW feed \in Feed, Activity!Load(feed) PROVE FeedInv'
<1>1. ui \in FeedPage /\ net \in SUBSET FeedRequest /\ srv \in FeedStore /\ srv' = srv
    BY DEF FeedInv, Activity!Load
<1>2. PICK r : r = Activity!Request(feed, 0, FALSE)
    OBVIOUS
<1>3. /\ r \in FeedRequest /\ r.feed = feed /\ r.cursor = 0
      /\ r.append = FALSE /\ r.served = FALSE
    BY <1>2, FeedBounds DEF Activity!Request, FeedRequest
<1>4. net' = net \cup {r}
    BY <1>2 DEF Activity!Load
<1>5. PICK mixed \in BOOLEAN : mixed = (net # {})
    OBVIOUS
<1>6. ui' = [ui EXCEPT !.feed = feed, !.loading = TRUE, !.error = FALSE, !.mixed = mixed]
    BY <1>5 DEF Activity!Load
<1>7. ui' \in FeedPage /\ ui'.feed = feed /\ ui'.loading = TRUE /\ ui'.mixed = mixed
    BY <1>1, <1>6 DEF FeedPage
<1>8. ASSUME ~mixed PROVE FeedSettled(ui', net', srv)
    <2>1. net' = {r}
        BY <1>4, <1>5, <1>8
    <2> QED
        BY <1>3, <1>7, <2>1 DEF FeedSettled, IsAwaited
<1> QED
    BY <1>1, <1>3, <1>4, <1>7, <1>8 DEF FeedInv

LEMMA FeedLoadsMore ==
    ASSUME FormsAssumption, FeedInv, Activity!LoadMore PROVE FeedInv'
<1>1. /\ ui \in FeedPage /\ net \in SUBSET FeedRequest /\ srv \in FeedStore /\ srv' = srv
      /\ ui.feed \in Feed /\ ui.cursor \in FeedCursor
      /\ ~ui.loading /\ ~ui.error /\ ui.cursor # 0 /\ ~ui.more
    BY DEF FeedInv, FeedPage, Activity!LoadMore
<1>2. PICK r : r = Activity!Request(ui.feed, ui.cursor, TRUE)
    OBVIOUS
<1>3. /\ r \in FeedRequest /\ r.feed = ui.feed /\ r.cursor = ui.cursor
      /\ r.append = TRUE /\ r.served = FALSE
    BY <1>1, <1>2, FeedBounds DEF Activity!Request, FeedRequest
<1>4. net' = net \cup {r} /\ ui' = [ui EXCEPT !.more = TRUE]
    BY <1>2 DEF Activity!LoadMore
<1>5. /\ ui' \in FeedPage /\ ui'.feed = ui.feed /\ ui'.loading = ui.loading
      /\ ui'.mixed = ui.mixed /\ ui'.error = ui.error /\ ui'.items = ui.items
      /\ ui'.cursor = ui.cursor /\ ui'.more = TRUE
    BY <1>1, <1>4 DEF FeedPage
<1>6. ASSUME ~ui.mixed PROVE FeedSettled(ui', net', srv)
    <2>1. FeedSettled(ui, net, srv)
        BY <1>6 DEF FeedInv
    <2>2. net' = {r}
        BY <1>1, <1>4, <2>1 DEF FeedSettled, IsAwaited
    <2> QED
        BY <1>1, <1>3, <1>5, <2>1, <2>2 DEF FeedSettled, IsAwaited
<1> QED
    BY <1>1, <1>3, <1>4, <1>5, <1>6 DEF FeedInv

-----------------------------------------------------------------------------
(* Answers.                                                                *)

\* Older events are put at the end of those that are shown.
LEMMA FeedContinued ==
    ASSUME FormsAssumption, NEW items \in FeedEvents, NEW more \in FeedEvents,
           NEW cursor \in FeedCursor, NEW next \in FeedCursor, NEW feed \in Feed,
           NEW store \in FeedStore, cursor # 0, IsWhole(items, cursor, feed, store),
           IsWhole(more, next, feed, store),
           \A i \in 1 .. Len(more) : more[i] < cursor,
           Covered(more, next, cursor, feed, store)
    PROVE  items \o more \in FeedEvents /\ IsWhole(items \o more, next, feed, store)
<1>1. PICK all : all = items \o more
    OBVIOUS
<1>2. PICK n \in Nat, m \in Nat : n = Len(items) /\ m = Len(more)
    BY FeedEventsAre
<1>3. /\ all \in FeedEvents /\ Len(all) = n + m
      /\ \A i \in 1 .. n : all[i] = items[i]
      /\ \A i \in n + 1 .. n + m : i - n \in 1 .. m /\ all[i] = more[i - n]
    BY <1>1, <1>2 DEF FeedEvents
<1>4. /\ n > 0 /\ cursor = items[n] /\ n \in 1 .. n /\ 1 \in 1 .. n
    BY <1>2 DEF IsWhole
<1>5. \A i \in 1 .. n + m : i \in 1 .. n \/ i \in n + 1 .. n + m
    BY <1>2
<1>6. ASSUME NEW i \in 1 .. n + m PROVE store.of[all[i]] = feed
    <2>1. CASE i \in 1 .. n
        <3>1. all[i] = items[i] /\ store.of[items[i]] = feed
            BY <1>2, <1>3, <2>1 DEF IsWhole
        <3> QED
            BY <3>1
    <2>2. CASE i \in n + 1 .. n + m
        <3>1. PICK k \in 1 .. m : k = i - n /\ all[i] = more[k]
            BY <1>3, <2>2
        <3>2. store.of[more[k]] = feed
            BY <1>2, <3>1 DEF IsWhole
        <3> QED
            BY <3>1, <3>2
    <2> QED
        BY <1>5, <2>1, <2>2
<1>7. \A i \in 1 .. n : items[i] \in Nat /\ items[i] >= cursor /\ cursor \in Nat
    <2>1. \A i \in 1 .. n : items[i] \in Nat /\ (i < n => items[i] > items[n])
        BY <1>2, <1>4, FeedEventsAre, FeedBounds DEF IsWhole
    <2>2. ASSUME NEW i \in 1 .. n PROVE items[i] >= items[n]
        <3>1. i < n \/ i = n
            OBVIOUS
        <3> QED
            BY <2>1, <3>1, <1>4, SMTT(30)
    <2> QED
        BY <1>4, <2>1, <2>2
<1>8. \A i \in 1 .. m : more[i] \in Nat
    BY <1>2, FeedEventsAre, FeedBounds
<1>9. ASSUME NEW i \in 1 .. n + m, NEW j \in 1 .. n + m, i < j PROVE all[i] > all[j]
    <2>1. CASE i \in 1 .. n /\ j \in 1 .. n
        BY <1>2, <1>3, <1>9, <2>1 DEF IsWhole
    <2>2. CASE i \in 1 .. n /\ j \in n + 1 .. n + m
        <3>1. PICK k \in 1 .. m : all[j] = more[k]
            BY <1>3, <2>2
        <3>2. all[j] < cursor /\ all[j] \in Nat
            BY <1>2, <1>8, <3>1
        <3>3. all[i] \in Nat /\ all[i] >= cursor /\ cursor \in Nat
            BY <1>3, <1>7, <2>2
        <3> QED
            BY <3>2, <3>3, SMTT(30)
    <2>3. CASE i \in n + 1 .. n + m /\ j \in n + 1 .. n + m
        <3>1. i - n < j - n
            BY <1>2, <1>9, <2>3
        <3> QED
            BY <1>2, <1>3, <2>3, <3>1 DEF IsWhole
    <2>4. CASE i \in n + 1 .. n + m /\ j \in 1 .. n
        BY <1>2, <1>9, <2>4
    <2> QED
        BY <1>5, <2>1, <2>2, <2>3, <2>4
<1>10. ASSUME next # 0 PROVE next = all[n + m]
    <2>1. m > 0 /\ next = more[m]
        BY <1>2, <1>10 DEF IsWhole
    <2>2. n + m \in n + 1 .. n + m /\ n + m - n = m
        BY <1>2, <2>1
    <2> QED
        BY <1>3, <2>1, <2>2
<1>11. ASSUME NEW e, Among(e, items) PROVE Among(e, all)
    <2>1. PICK i \in 1 .. n : items[i] = e
        BY <1>2, <1>11 DEF Among
    <2>2. i \in 1 .. n + m
        BY <1>2
    <2> QED
        BY <1>3, <2>1, <2>2 DEF Among
<1>12. ASSUME NEW e, Among(e, more) PROVE Among(e, all)
    <2>1. PICK i \in 1 .. m : more[i] = e
        BY <1>2, <1>12 DEF Among
    <2>2. PICK k : k = n + i
        OBVIOUS
    <2>3. k \in n + 1 .. n + m /\ k - n = i /\ k \in 1 .. n + m
        BY <2>2
    <2>4. all[k] = e
        BY <1>3, <2>1, <2>3
    <2> QED
        BY <1>3, <2>3, <2>4 DEF Among
<1>13. Covered(all, next, all[1], feed, store)
    <2> SUFFICES ASSUME NEW e \in Activity!Events, store.of[e] = feed, next < e,
                        e < all[1], e \notin store.late
                 PROVE  Among(e, all)
        BY DEF Covered
    <2>1. e \in Nat /\ cursor \in Nat /\ all[1] = items[1]
        BY <1>3, <1>4, FeedBounds
    <2>2. CASE e < cursor
        BY <1>12, <2>2 DEF Covered
    <2>3. CASE e = cursor
        BY <1>2, <1>4, <1>11, <2>3 DEF Among
    <2>4. CASE cursor < e
        <3>1. Covered(items, cursor, items[1], feed, store)
            BY <1>2, <1>4 DEF IsWhole
        <3> QED
            BY <1>11, <2>1, <2>4, <3>1 DEF Covered
    <2> QED
        BY <2>1, <2>2, <2>3, <2>4
<1>14. n + m > 0
    BY <1>2, <1>4
<1> QED
    BY <1>1, <1>3, <1>6, <1>9, <1>10, <1>13, <1>14 DEF IsWhole

LEMMA FeedEnds ==
    ASSUME FormsAssumption, FeedInv, NEW r \in net,
           Activity!Arrives(r) \/ Activity!Fails(r)
    PROVE  FeedInv'
<1>1. /\ ui \in FeedPage /\ net \in SUBSET FeedRequest /\ srv \in FeedStore
      /\ r \in FeedRequest /\ srv' = srv /\ net' = net \ {r}
    BY DEF FeedInv, Activity!Arrives, Activity!Fails
<1>2. PICK loading \in BOOLEAN, more \in BOOLEAN :
          /\ loading = (ui.loading /\ ~Activity!Portal /\ r.append)
          /\ more = (ui.more /\ ~Activity!Portal /\ ~r.append)
    OBVIOUS
<1>3. ASSUME NEW page \in FeedPage, page.loading = ui.loading, page.more = ui.more,
             ui' = Activity!Ended(r, page)
      PROVE  /\ ui' \in FeedPage /\ ui'.loading = loading /\ ui'.mixed = page.mixed
             /\ ui'.error = page.error /\ ui'.items = page.items
             /\ ui'.cursor = page.cursor /\ ui'.feed = page.feed
    <2>1. ui' = [page EXCEPT !.loading = loading, !.more = more]
        BY <1>2, <1>3 DEF Activity!Ended
    <2> QED
        BY <2>1, <1>3 DEF FeedPage
<1>4. ASSUME ~ui.mixed
      PROVE  net' = {} /\ IsAwaited(r, ui, srv)
             /\ (~ui.loading /\ ~ui.error =>
                    IsWhole(ui.items, ui.cursor, ui.feed, srv))
    BY <1>1, <1>4 DEF FeedInv, FeedSettled
<1>5. CASE Activity!Arrives(r)
    <2>1. PICK items : items = IF r.append THEN ui.items \o r.items ELSE r.items
        OBVIOUS
    <2>2. r.items \in FeedEvents /\ r.next \in FeedCursor /\ r.feed \in Feed
        BY <1>1, FeedAnswersAre DEF FeedRequest
    <2>3. items \in FeedEvents
        <3>1. ui.items \in Seq(Activity!Events) /\ r.items \in Seq(Activity!Events)
            BY <1>1, <2>2 DEF FeedPage, FeedEvents
        <3> QED
            BY <2>1, <3>1 DEF FeedEvents
    <2>4. PICK page : page = [ui EXCEPT !.items = items, !.cursor = r.next]
        OBVIOUS
    <2>5. /\ page \in FeedPage /\ page.loading = ui.loading /\ page.more = ui.more
          /\ page.items = items /\ page.cursor = r.next /\ page.feed = ui.feed
          /\ page.mixed = ui.mixed /\ page.error = ui.error
        BY <1>1, <2>2, <2>3, <2>4 DEF FeedPage
    <2>6. page = [ui EXCEPT !.items = IF r.append THEN @ \o r.items ELSE r.items,
                            !.cursor = r.next]
        BY <1>1, <2>1, <2>4 DEF FeedPage
    <2>7. ui' = Activity!Ended(r, page) /\ r.served
        BY <1>5, <2>6 DEF Activity!Arrives
    <2>8. /\ ui' \in FeedPage /\ ui'.loading = loading /\ ui'.mixed = ui.mixed
          /\ ui'.error = ui.error /\ ui'.items = items
          /\ ui'.cursor = r.next /\ ui'.feed = ui.feed
        BY <1>3, <2>5, <2>7
    <2>9. ASSUME ~ui.mixed PROVE IsWhole(items, r.next, ui.feed, srv)
        <3>1. /\ IsAwaited(r, ui, srv)
              /\ ~ui.loading /\ ~ui.error => IsWhole(ui.items, ui.cursor, ui.feed, srv)
            BY <1>4, <2>9
        <3>2. IsWhole(r.items, r.next, ui.feed, srv)
            BY <2>7, <3>1 DEF IsAwaited
        <3>3. CASE r.append
            <4>1. /\ ui.cursor # 0 /\ Continues(r, srv) /\ r.cursor = ui.cursor
                  /\ IsWhole(ui.items, ui.cursor, ui.feed, srv) /\ r.feed = ui.feed
                BY <2>7, <3>1, <3>3 DEF IsAwaited
            <4>2. ui.items \in FeedEvents /\ ui.cursor \in FeedCursor /\ ui.feed \in Feed
                BY <1>1 DEF FeedPage
            <4>3. /\ \A i \in 1 .. Len(r.items) : r.items[i] < ui.cursor
                  /\ Covered(r.items, r.next, ui.cursor, ui.feed, srv)
                BY <4>1 DEF Continues
            <4>4. IsWhole(ui.items \o r.items, r.next, ui.feed, srv)
                BY <1>1, <2>2, <3>2, <4>1, <4>2, <4>3, FeedContinued
            <4> QED
                BY <2>1, <3>3, <4>4
        <3>4. CASE ~r.append
            BY <2>1, <3>2, <3>4
        <3> QED
            BY <3>3, <3>4
    <2> QED
        BY <1>1, <1>4, <2>8, <2>9 DEF FeedInv, FeedSettled
<1>6. CASE Activity!Fails(r)
    <2>1. PICK error \in BOOLEAN : error = (ui.error \/ Activity!Portal \/ ~r.append)
        OBVIOUS
    <2>2. PICK page : page = [ui EXCEPT !.error = error]
        OBVIOUS
    <2>3. /\ page \in FeedPage /\ page.loading = ui.loading /\ page.more = ui.more
          /\ page.items = ui.items /\ page.cursor = ui.cursor /\ page.feed = ui.feed
          /\ page.mixed = ui.mixed /\ page.error = error
        BY <1>1, <2>2 DEF FeedPage
    <2>4. page = [ui EXCEPT !.error = @ \/ Activity!Portal \/ ~r.append]
        BY <1>1, <2>1, <2>2 DEF FeedPage
    <2>5. ui' = Activity!Ended(r, page)
        BY <1>6, <2>4 DEF Activity!Fails
    <2>6. /\ ui' \in FeedPage /\ ui'.loading = loading /\ ui'.mixed = ui.mixed
          /\ ui'.error = error /\ ui'.items = ui.items
          /\ ui'.cursor = ui.cursor /\ ui'.feed = ui.feed
        BY <1>3, <2>3, <2>5
    <2>7. ASSUME ~ui.mixed, ~error PROVE IsWhole(ui.items, ui.cursor, ui.feed, srv)
        <3>1. r.append /\ ~ui.error
            BY <2>1, <2>7
        <3>2. ~ui.loading
            BY <1>4, <2>7, <3>1 DEF IsAwaited
        <3> QED
            BY <1>4, <2>7, <3>1, <3>2
    <2> QED
        BY <1>1, <1>4, <2>6, <2>7 DEF FeedInv, FeedSettled
<1> QED
    BY <1>5, <1>6

LEMMA FeedKeepsInv == ASSUME FormsAssumption, FeedInv, Activity!Next PROVE FeedInv'
<1>1. ASSUME Activity!Refresh PROVE FeedInv'
    <2>1. ui.feed \in Feed
        BY DEF FeedInv, FeedPage
    <2> QED
        BY <1>1, <2>1, FeedLoads DEF Activity!Refresh
<1>2. ASSUME NEW feed \in Feed, Activity!Choose(feed) PROVE FeedInv'
    BY <1>2, FeedLoads DEF Activity!Choose
<1> QED
    BY <1>1, <1>2, FeedStores, FeedServes, FeedEnds, FeedLoadsMore DEF Activity!Next

LEMMA FeedProperties ==
    ASSUME FormsAssumption, FeedInv PROVE Activity!TypeOK /\ Activity!FeedIsWhole
<1>1. ui \in FeedPage /\ net \in SUBSET FeedRequest /\ srv \in FeedStore
    BY DEF FeedInv
<1>2. /\ ui.items \in FeedEvents /\ Len(ui.items) \in Nat
      /\ DOMAIN ui.items = 1 .. Len(ui.items)
      /\ \A i \in 1 .. Len(ui.items) : ui.items[i] \in Activity!Events
    BY <1>1, FeedEventsAre DEF FeedPage
<1>3. Activity!TypeOK
    <2>1. ASSUME NEW r \in net
          PROVE  /\ r.feed \in Feed /\ r.cursor \in 0 .. MaxEvents
                 /\ {r.append, r.served} \subseteq BOOLEAN /\ Len(r.items) =< PageSize
        <3>1. r \in FeedRequest
            BY <1>1
        <3> QED
            BY <3>1, FeedAnswersAre DEF FeedRequest, FeedCursor
    <2>2. /\ ui.page \in {"activity", "teacher"} /\ ui.feed \in Feed
          /\ ui.cursor \in 0 .. MaxEvents
          /\ {ui.loading, ui.more, ui.error, ui.mixed} \subseteq BOOLEAN
        BY <1>1 DEF FeedPage, FeedCursor
    <2>3. srv.of \in [Activity!Events -> Feed \cup {0}] /\ srv.late \subseteq Activity!Events
        BY <1>1 DEF FeedStore
    <2> QED
        BY <1>2, <2>1, <2>2, <2>3 DEF Activity!TypeOK
<1>4. ASSUME ~ui.mixed, ~ui.loading, ~ui.error, Len(ui.items) # 0
      PROVE  LET n == Len(ui.items)
                 oldest == IF ui.cursor = 0 THEN 0 ELSE ui.items[n]
                 feed == srv.of[ui.items[1]]
             IN  /\ \A i \in 1 .. n : srv.of[ui.items[i]] = feed
                 /\ \A i \in 1 .. n - 1 : ui.items[i] > ui.items[i + 1]
                 /\ \A e \in Activity!Events :
                       srv.of[e] = feed /\ oldest < e /\ e < ui.items[1] =>
                           e \in srv.late \cup Activity!Range(ui.items)
                 /\ feed = ui.feed
    <2>1. IsWhole(ui.items, ui.cursor, ui.feed, srv)
        BY <1>4 DEF FeedInv, FeedSettled
    <2>2. 1 \in 1 .. Len(ui.items) /\ Len(ui.items) > 0
        BY <1>2, <1>4
    <2>3. srv.of[ui.items[1]] = ui.feed
        BY <2>1, <2>2 DEF IsWhole
    <2>4. \A i \in 1 .. Len(ui.items) - 1 : ui.items[i] > ui.items[i + 1]
        <3>1. ASSUME NEW i \in 1 .. Len(ui.items) - 1
              PROVE  i \in 1 .. Len(ui.items) /\ i + 1 \in 1 .. Len(ui.items) /\ i < i + 1
            BY <1>2
        <3> QED
            BY <2>1, <3>1 DEF IsWhole
    <2>5. \A e : Among(e, ui.items) => e \in Activity!Range(ui.items)
        BY <1>2 DEF Among, Activity!Range
    <2>6. (IF ui.cursor = 0 THEN 0 ELSE ui.items[Len(ui.items)]) = ui.cursor
        BY <2>1 DEF IsWhole
    <2>7. ASSUME NEW e \in Activity!Events, srv.of[e] = ui.feed, ui.cursor < e,
                 e < ui.items[1]
          PROVE  e \in srv.late \cup Activity!Range(ui.items)
        BY <2>1, <2>2, <2>5, <2>7 DEF IsWhole, Covered
    <2> QED
        BY <2>1, <2>3, <2>4, <2>6, <2>7 DEF IsWhole
<1> QED
    BY <1>3, <1>4 DEF Activity!FeedIsWhole

-----------------------------------------------------------------------------
(* The pages together.                                                     *)

Screens == {"attempt", "login", "chat", "enrol", "quiz", "class", "lists", "picker",
            "feed", "report"}

ListsInv ==
    /\ screen \in Screens
    /\ screen = "chat" => ChatInv
    /\ screen = "class" => CourseInv
    /\ screen = "lists" => TeacherInv
    /\ screen = "picker" => PickerInv
    /\ screen = "feed" => FeedInv
    /\ screen = "report" => ReportInv

LEMMA ListsInitially == ASSUME FormsAssumption, Init PROVE ListsInv
<1>1. screen \in Screens
    BY DEF Init, Screens
<1>2. screen = "chat" => Chat!Init
    BY DEF Init
<1>3. screen = "class" => Class!Init
    BY DEF Init
<1>4. screen = "lists" => Lists!Init
    BY DEF Init
<1>5. screen = "picker" => Picker!Init
    BY DEF Init
<1>6. screen = "feed" => Activity!Init
    BY DEF Init
<1>7. screen = "report" => Report!Init
    BY DEF Init
<1> QED
    BY <1>1, <1>2, <1>3, <1>4, <1>5, <1>6, <1>7, ChatInit, CourseInit, TeacherInit,
       PickerInit, FeedInit, ReportInit DEF ListsInv

LEMMA ListsStep ==
    ASSUME FormsAssumption, ListsInv, [Next]_vars PROVE ListsInv'
<1>1. screen' = screen
    BY DEF Next, vars
<1>2. ASSUME screen = "chat" PROVE ChatInv'
    <2>1. CASE Chat!Next
        BY <1>2, <2>1, ChatKeepsInv DEF ListsInv
    <2>2. CASE UNCHANGED vars
        BY <1>2, <2>2 DEF ListsInv, vars, ChatInv
    <2>3. Chat!Next \/ UNCHANGED vars
        BY <1>2 DEF Next
    <2> QED
        BY <2>1, <2>2, <2>3
<1>3. ASSUME screen = "class" PROVE CourseInv'
    <2>1. CASE Class!Next
        BY <1>3, <2>1, CourseKeepsInv DEF ListsInv
    <2>2. CASE UNCHANGED vars
        BY <1>3, <2>2 DEF ListsInv, vars, CourseInv
    <2>3. Class!Next \/ UNCHANGED vars
        BY <1>3 DEF Next
    <2> QED
        BY <2>1, <2>2, <2>3
<1>4. ASSUME screen = "lists" PROVE TeacherInv'
    <2>1. CASE Lists!Next
        BY <1>4, <2>1, TeacherKeepsInv DEF ListsInv
    <2>2. CASE UNCHANGED vars
        BY <1>4, <2>2 DEF ListsInv, vars, TeacherInv
    <2>3. Lists!Next \/ UNCHANGED vars
        BY <1>4 DEF Next
    <2> QED
        BY <2>1, <2>2, <2>3
<1>5. ASSUME screen = "picker" PROVE PickerInv'
    <2>1. CASE Picker!Next
        BY <1>5, <2>1, PickerKeepsInv DEF ListsInv
    <2>2. CASE UNCHANGED vars
        BY <1>5, <2>2 DEF ListsInv, vars, PickerInv
    <2>3. Picker!Next \/ UNCHANGED vars
        BY <1>5 DEF Next
    <2> QED
        BY <2>1, <2>2, <2>3
<1>6. ASSUME screen = "feed" PROVE FeedInv'
    <2>1. CASE Activity!Next
        BY <1>6, <2>1, FeedKeepsInv DEF ListsInv
    <2>2. CASE UNCHANGED vars
        BY <1>6, <2>2 DEF ListsInv, vars, FeedInv
    <2>3. Activity!Next \/ UNCHANGED vars
        BY <1>6 DEF Next
    <2> QED
        BY <2>1, <2>2, <2>3
<1>7. ASSUME screen = "report" PROVE ReportInv'
    <2>1. CASE Report!Next
        BY <1>7, <2>1, ReportKeepsInv DEF ListsInv
    <2>2. CASE UNCHANGED vars
        BY <1>7, <2>2 DEF ListsInv, vars, ReportInv
    <2>3. Report!Next \/ UNCHANGED vars
        BY <1>7 DEF Next
    <2> QED
        BY <2>1, <2>2, <2>3
<1>8. screen' \in Screens
    BY <1>1 DEF ListsInv
<1> QED
    BY <1>1, <1>2, <1>3, <1>4, <1>5, <1>6, <1>7, <1>8 DEF ListsInv

\* Each page that shows a list keeps its invariant for every number of its
\* turns, entries, classes, events and versions, and whatever order its loads,
\* its changes and their answers come in.
THEOREM ListsInvariance == Spec => []ListsInv
<1>1. Init => ListsInv
    BY ListsInitially, FormsAssumption
<1>2. ListsInv /\ [Next]_vars => ListsInv'
    BY ListsStep, FormsAssumption
<1> QED
    BY <1>1, <1>2, PTL DEF Spec

\* However long a conversation is, the page has its turns in the order in which
\* they are stored (AiChatPage.jsx, handleSend).
THEOREM TurnsAreInOrder == Spec => []ShownInOrder
<1>1. ListsInv => ShownInOrder
    BY ChatProperties, FormsAssumption DEF ListsInv, ShownInOrder
<1> QED
    BY <1>1, ListsInvariance, PTL

\* However many loads and changes overlap, the lists of both clients show what
\* is stored once nothing is in flight, and a list that is read page by page has
\* every event once (SubjectsPage.jsx, ClassDetailPage.jsx, ChallengesPage.jsx,
\* ClassContext.jsx, TeacherClassDetailPage.jsx, ActivityPage.jsx and the others
\* that ShownIsCurrent names), but for the cases the modules name.
THEOREM ListsAreCurrent == Spec => []ShownIsCurrent
<1>1. ASSUME ListsInv PROVE ShownIsCurrent
    <2>1. screen = "class" => Class!ShownIsCurrent
        BY <1>1, CourseProperties DEF ListsInv
    <2>2. screen = "lists" => Lists!ShownIsCurrent
        BY <1>1, TeacherProperties DEF ListsInv
    <2>3. screen = "picker" => Picker!ShownIsCurrent
        BY <1>1, PickerProperties DEF ListsInv
    <2>4. screen = "feed" => Activity!FeedIsWhole
        BY <1>1, FeedProperties, FormsAssumption DEF ListsInv
    <2>5. screen = "report" => Report!ShownIsCurrent
        BY <1>1, ReportProperties DEF ListsInv
    <2> QED
        BY <2>1, <2>2, <2>3, <2>4, <2>5 DEF ShownIsCurrent
<1> QED
    BY <1>1, ListsInvariance, PTL

LEMMA QuizTypes == ASSUME FormsAssumption, QuizInv PROVE Quiz!TypeOK
<1>1. /\ ui \in QuizPage /\ Len(ui.questions) =< MaxQuestions
      /\ net \in [state : {"none", "sent", "made", "refused"}, filled : BOOLEAN,
                  miscounted : {FALSE}]
      /\ srv = [miscounted |-> FALSE]
    BY DEF QuizInv
<1>2. [ui EXCEPT !.questions = <<>>] \in
         [page : {"teacher", "class", "challenges"}, open : BOOLEAN, title : BOOLEAN,
          topic : BOOLEAN, questions : {<<>>}, saving : BOOLEAN,
          error : {"none", "draft", "refused"}, reloading : BOOLEAN]
    BY <1>1 DEF QuizPage
<1>3. net \in [state : {"none", "sent", "made", "refused"}, filled : BOOLEAN,
               miscounted : BOOLEAN]
    BY <1>1
<1>4. srv \in [miscounted : BOOLEAN]
    BY <1>1
<1>5. DOMAIN ui.questions = 1 .. Len(ui.questions)
    BY <1>1 DEF QuizPage
<1>6. ASSUME NEW n \in 1 .. Len(ui.questions)
      PROVE  Quiz!IsQuestion(ui.questions[n])
    <2>1. PICK q \in GoodQuestion : q = ui.questions[n]
        BY QuestionAt
    <2>2. q.correct \in Seq(BOOLEAN) /\ Len(q.correct) \in 2 .. 4
        BY OneIsCorrect DEF GoodQuestion
    <2>3. q.prompt \in BOOLEAN /\ q.filled \in BOOLEAN
        BY DEF GoodQuestion
    <2>4. PICK m : m = Len(q.correct)
        OBVIOUS
    <2>5. m \in 0 .. 4
        <3>1. m \in 2 .. 4
            BY <2>2, <2>4, Zenon
        <3> HIDE <2>4
        <3> QED
            BY <3>1
    <2>6. q.correct \in [1 .. m -> BOOLEAN]
        <3>1. q.correct \in [1 .. Len(q.correct) -> BOOLEAN]
            BY <2>2, LenProperties
        <3> QED
            BY <2>4, <3>1, Zenon
    <2>7. q.correct \in UNION {[1 .. i -> BOOLEAN] : i \in 0 .. 4}
        BY <2>5, <2>6, Zenon
    <2> QED
        BY <2>1, <2>3, <2>7 DEF Quiz!IsQuestion, Quiz!MaxOptions
<1> QED
    BY <1>1, <1>2, <1>3, <1>4, <1>5, <1>6 DEF Quiz!TypeOK

\* The page, the requests and the store of each screen keep their types for
\* every value of the constants.
THEOREM FormsTypes == Spec => []TypeOK
<1>1. ASSUME FormsInv, ListsInv PROVE TypeOK
    <2>1. screen = "attempt" => Attempt!TypeOK
        BY <1>1 DEF FormsInv, AttemptInv
    <2>2. screen = "login" => Login!TypeOK
        BY <1>1 DEF FormsInv, LoginInv
    <2>3. screen = "chat" => Chat!TypeOK
        BY <1>1, ChatProperties, FormsAssumption DEF ListsInv
    <2>4. screen = "enrol" => Enrol!TypeOK
        BY <1>1 DEF FormsInv, EnrolInv, PageInv, StoreInv, EnrolPage, EnrolCall, EnrolStore,
                    Enrol!TypeOK
    <2>5. screen = "quiz" => Quiz!TypeOK
        BY <1>1, QuizTypes, FormsAssumption DEF FormsInv
    <2>6. screen = "class" => Class!TypeOK
        BY <1>1, CourseProperties DEF ListsInv
    <2>7. screen = "lists" => Lists!TypeOK
        BY <1>1, TeacherProperties DEF ListsInv
    <2>8. screen = "picker" => Picker!TypeOK
        BY <1>1, PickerProperties DEF ListsInv
    <2>9. screen = "feed" => Activity!TypeOK
        BY <1>1, FeedProperties, FormsAssumption DEF ListsInv
    <2>10. screen = "report" => Report!TypeOK
        BY <1>1, ReportProperties DEF ListsInv
    <2>11. screen \in Screens
        BY <1>1 DEF ListsInv
    <2>12. CASE screen = "attempt"
        BY <2>1, <2>12 DEF TypeOK
    <2>13. CASE screen = "login"
        BY <2>2, <2>13 DEF TypeOK
    <2>14. CASE screen = "chat"
        BY <2>3, <2>14 DEF TypeOK
    <2>15. CASE screen = "enrol"
        BY <2>4, <2>15 DEF TypeOK
    <2>16. CASE screen = "quiz"
        BY <2>5, <2>16 DEF TypeOK
    <2>17. CASE screen = "class"
        BY <2>6, <2>17 DEF TypeOK
    <2>18. CASE screen = "lists"
        BY <2>7, <2>18 DEF TypeOK
    <2>19. CASE screen = "picker"
        BY <2>8, <2>19 DEF TypeOK
    <2>20. CASE screen = "feed"
        BY <2>9, <2>20 DEF TypeOK
    <2>21. CASE screen = "report"
        BY <2>10, <2>21 DEF TypeOK
    <2> QED
        BY <2>11, <2>12, <2>13, <2>14, <2>15, <2>16,
           <2>17, <2>18, <2>19, <2>20, <2>21 DEF Screens
<1> QED
    BY <1>1, FormsInvariance, ListsInvariance, PTL
=============================================================================
