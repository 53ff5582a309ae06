----------------------------- MODULE ChatScreen -----------------------------
(***************************************************************************)
(* Talking to the assistant: the chat page of the student client           *)
(* (pages/AiChatPage.jsx) and the service that stores a turn, the          *)
(* student's message with its reply (services/chat.py, AiChatService.send).*)
(* A message is sent from the form or by the microphone, whose callback    *)
(* still sees the page as it was when the microphone was switched on.      *)
(* Turns are numbered as they are sent; MaxTurns bounds them.              *)
(***************************************************************************)
EXTENDS Naturals, Sequences, SequencesExt

CONSTANTS MaxTurns,
          ActiveLimit   \* ai_chat_active_limit_per_user

VARIABLES
    ui,    \* the page
    net,   \* the sends in flight: turn -> what has become of it
    srv    \* the stored conversation, the sends being answered

vars == <<ui, net, srv>>

Turn == 1 .. MaxTurns
Pc == {"none", "sent", "running", "stored", "error"}

TypeOK ==
    /\ ui \in [view : {"loading", "failed", "chat"},
               messages : SeqOf(Turn, MaxTurns),
               temps : SUBSET Turn,                \* placeholders, after the messages
               sending : BOOLEAN, error : BOOLEAN,
               mic : {"off", "idle", "sending"},   \* what its callback sees
               speaking : {0} \cup Turn, voice : BOOLEAN,
               next : 1 .. MaxTurns + 1,
               first : 1 .. MaxTurns + 1,          \* the first turn of this load
               overlap : BOOLEAN]
    /\ net \in [Turn -> Pc]
    /\ srv \in [turns : SeqOf(Turn, MaxTurns), active : 0 .. ActiveLimit]

Init ==
    /\ ui = [view |-> "loading", messages |-> <<>>, temps |-> {}, sending |-> FALSE,
             error |-> FALSE, mic |-> "off", speaking |-> 0, voice |-> TRUE,
             next |-> 1, first |-> 1, overlap |-> FALSE]
    /\ net = [n \in Turn |-> "none"]
    /\ srv = [turns |-> <<>>, active |-> 0]

-----------------------------------------------------------------------------
(* The page. *)

\* The conversation is found or made, then its history is read; when only the
\* history fails, the page opens empty with the error.
Loaded ==
    /\ ui.view = "loading"
    /\ \/ ui' = [ui EXCEPT !.view = "chat", !.messages = srv.turns]
       \/ ui' = [ui EXCEPT !.view = "chat", !.error = TRUE]
       \/ ui' = [ui EXCEPT !.view = "failed"]
    /\ UNCHANGED <<net, srv>>

\* The page is loaded again; what was sent is still answered by the server.
Reload ==
    /\ ui.view # "loading"
    /\ ui' = [ui EXCEPT !.view = "loading", !.messages = <<>>, !.temps = {},
                        !.sending = FALSE, !.error = FALSE, !.mic = "off",
                        !.speaking = 0, !.first = ui.next, !.voice = TRUE]
    /\ UNCHANGED <<net, srv>>

\* Mutant: a message can be sent while another is answered.
MaySendBug(sending) == ui.view = "chat" /\ ui.next \in Turn /\ sending \in BOOLEAN

MaySend(sending) == ui.view = "chat" /\ ui.next \in Turn /\ ~sending

\* handleSend, with the state of the render it belongs to.
Send(sending, mic) ==
    /\ MaySend(sending)
    /\ ui' = [ui EXCEPT !.sending = TRUE, !.error = FALSE, !.next = @ + 1, !.mic = mic,
                        !.temps = @ \cup {ui.next},
                        !.overlap = @ \/ (sending # ui.sending)]
    /\ net' = [net EXCEPT ![ui.next] = "sent"]
    /\ UNCHANGED srv

SubmitForm == Send(ui.sending, ui.mic)

MicResult == ui.mic # "off" /\ Send(ui.mic = "sending", "off")

ToggleMic ==
    /\ ui.view = "chat"
    /\ ui' = [ui EXCEPT !.mic = IF @ # "off" THEN "off"
                                ELSE IF ui.sending THEN "sending" ELSE "idle"]
    /\ UNCHANGED <<net, srv>>

\* Every placeholder goes when one message is answered, and when one fails.
SendAnswered(n) ==
    /\ net[n] = "stored"
    /\ ui' = IF n < ui.first THEN ui
             ELSE [ui EXCEPT !.sending = FALSE, !.temps = {}, !.messages = Append(@, n),
                             !.speaking = IF ui.voice THEN n ELSE @]
    /\ net' = [net EXCEPT ![n] = "none"]
    /\ UNCHANGED srv

\* Refused, or lost before it was served or after it was stored.
SendFails(n) ==
    /\ net[n] \in {"sent", "stored", "error"}
    /\ ui' = IF n < ui.first THEN ui
             ELSE [ui EXCEPT !.sending = FALSE, !.error = TRUE, !.temps = {}]
    /\ net' = [net EXCEPT ![n] = "none"]
    /\ UNCHANGED srv

\* replayMessage, the end of the speech, and the switch of the voice.
Replay(n) ==
    /\ \E i \in DOMAIN ui.messages : ui.messages[i] = n
    /\ ui' = [ui EXCEPT !.speaking = IF @ = n THEN 0 ELSE n]
    /\ UNCHANGED <<net, srv>>

ToggleVoice ==
    /\ ui.view = "chat"
    /\ ui' = [ui EXCEPT !.voice = ~@, !.speaking = IF ui.voice THEN 0 ELSE @]
    /\ UNCHANGED <<net, srv>>

-----------------------------------------------------------------------------
(* The service. *)

\* The quota counts the sends of the user that are being answered, ...
Begin(n) ==
    /\ net[n] = "sent"
    /\ IF srv.active < ActiveLimit
       THEN /\ srv' = [srv EXCEPT !.active = @ + 1]
            /\ net' = [net EXCEPT ![n] = "running"]
       ELSE net' = [net EXCEPT ![n] = "error"] /\ UNCHANGED srv
    /\ UNCHANGED ui

\* ... until the key that counts them runs out, which retries of the provider
\* and the wait for another turn of the conversation outlast.
Expire ==
    /\ srv.active > 0
    /\ srv' = [srv EXCEPT !.active = 0]
    /\ UNCHANGED <<ui, net>>

\* A key that has run out is not taken below nothing.
Decr(count) == IF count <= 1 THEN 0 ELSE count - 1

\* Under the lock of the conversation both messages are stored, or neither.
Finish(n) ==
    /\ net[n] = "running"
    /\ \/ /\ srv' = [turns |-> Append(srv.turns, n), active |-> Decr(srv.active)]
          /\ net' = [net EXCEPT ![n] = "stored"]
       \/ /\ srv' = [srv EXCEPT !.active = Decr(@)]
          /\ net' = [net EXCEPT ![n] = "error"]
    /\ UNCHANGED ui

-----------------------------------------------------------------------------
Next ==
    \/ Loaded \/ Reload \/ SubmitForm \/ ToggleMic \/ MicResult
    \/ ToggleVoice \/ Expire
    \/ \E n \in Turn : Replay(n) \/ SendAnswered(n) \/ SendFails(n) \/ Begin(n) \/ Finish(n)

Spec == Init /\ [][Next]_vars

-----------------------------------------------------------------------------
(* Properties. *)

\* The turns on the page are stored, in the order in which they are stored,
\* unless the microphone sent one while another was being answered (the stale
\* closure of recognition.onresult).
ShownInOrder ==
    ~ui.overlap =>
        \E place \in [DOMAIN ui.messages -> DOMAIN srv.turns] :
            /\ \A i \in DOMAIN ui.messages : srv.turns[place[i]] = ui.messages[i]
            /\ \A i, j \in DOMAIN ui.messages : i < j => place[i] < place[j]
=============================================================================
