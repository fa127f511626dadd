----------------------------- MODULE ChatClient -----------------------------
(***************************************************************************)
(* One browser tab of the chat: the socket (use-websocket.ts), the prompts *)
(* waiting to be sent and the replies on screen (use-chat.ts), and the     *)
(* conversation shown (chat-container.tsx, use-conversations.ts).          *)
(*                                                                         *)
(* Everything runs on the page's one thread: an action is one callback     *)
(* together with the re-render it causes and the effects of that render,   *)
(* which is what Settle stands for.  What the server does with a prompt    *)
(* and which events come back is left to ChatSystem.                       *)
(***************************************************************************)
EXTENDS Naturals, Sequences

CONSTANTS
  Session,   \* sockets the tab can open, each used once
  Conv,      \* conversation ids
  None,      \* null
  MaxMsgs,   \* bound: prompts the user sends
  MaxChats   \* bound: times the user turns to another chat

ASSUME ClientAssumption ==
  /\ MaxMsgs \in Nat
  /\ MaxChats \in Nat
  /\ None \notin Conv
  /\ None \notin Session

Msg == 1 .. MaxMsgs

VARIABLES
  shown,    \* currentConversationId
  loaded,   \* whether currentMessages holds a fetched history
  proc,     \* isProcessing
  conn,     \* isConnected
  queue,    \* messageQueueRef
  timers,   \* doSend calls a setTimeout of the drainer still holds
  ready,    \* readyState of every socket; "closing" until its onclose runs
  ws,       \* wsRef
  retry,    \* whether a reconnect is scheduled
  bubble,   \* currentMessageIdRef: the turn that opened the bubble, or 0
  bubbles,  \* the replies on screen
  outbox,   \* prompts written to a socket and not yet read by the server
  chat,     \* observation: the chat the user believes to be in
  typedIn   \* observation: the chat every prompt was typed in

socketVars == <<ready, ws, retry>>
clientVars == <<shown, loaded, proc, conn, queue, timers, socketVars, bubble,
                bubbles, outbox, chat, typedIn>>

\* A chat the user turned to; fresh when it began as a new one.
Chat == [n : 0 .. MaxChats, fresh : BOOLEAN]

ClientInit ==
  /\ shown = None
  /\ loaded = FALSE
  /\ proc = FALSE
  /\ conn = FALSE
  /\ queue = <<>>
  /\ timers = <<>>
  /\ ws \in Session
  /\ ready = [s \in Session |-> IF s = ws THEN "connecting" ELSE "unused"]
  /\ retry = FALSE
  /\ bubble = 0
  /\ bubbles = <<>>
  /\ outbox = [s \in Session |-> <<>>]
  /\ chat = [n |-> 0, fresh |-> TRUE]
  /\ typedIn = <<>>

-----------------------------------------------------------------------------
(* Rendering *)

DrainsOnTurnEnd(q) == proc /\ ~proc' /\ conn' /\ q # <<>>

\* The drainer effect: one of its dependencies changed (doSend changes with the
\* conversation shown), the agent is idle and the socket is there.
Drains(q) ==
  /\ <<proc', conn', shown'>> # <<proc, conn, shown>>
  /\ conn' /\ ~proc' /\ q # <<>>

Peek(q) == q

Shift(q) == Tail(q)

\* After a callback that leaves queue q, timers t and replies b: the drainer
\* runs first, then the container clears a thread the user has left.
Settle(q, t, b) ==
  LET left == shown' # shown /\ (shown' = None \/ shown # None)
  IN
  /\ timers'  = IF Drains(q) THEN Append(t, [msg |-> Head(q), conv |-> shown']) ELSE t
  /\ queue'   = IF left THEN <<>> ELSE IF Drains(q) THEN Shift(q) ELSE q
  /\ bubbles' = IF left THEN <<>> ELSE b

-----------------------------------------------------------------------------
(* The socket *)

\* connect(): nothing if the current socket is open or opening.
Open(live) ==
  IF live THEN UNCHANGED <<ready, ws>>
  ELSE \E s \in Session :
         /\ ready[s] = "unused"
         /\ ready' = [z \in Session |->
              CASE z = s -> "connecting"
                [] z = ws /\ ready[z] \in {"open", "connecting"} -> "closing"
                [] OTHER -> ready[z]]
         /\ ws' = s

OnOpen(s) ==
  /\ ready[s] = "connecting"
  /\ ready' = [ready EXCEPT ![s] = "open"]
  /\ conn' = TRUE
  /\ UNCHANGED <<shown, loaded, proc, ws, retry, bubble, outbox, chat, typedIn>>
  /\ Settle(queue, timers, bubbles)

\* The connection is refused, drops or is closed by the server.
Drop(s) ==
  /\ ready[s] \in {"connecting", "open"}
  /\ ready' = [ready EXCEPT ![s] = "closing"]
  /\ UNCHANGED <<shown, loaded, proc, conn, queue, timers, ws, retry, bubble, bubbles,
                 outbox, chat, typedIn>>

\* onclose, of whichever socket: what is still to be written is gone.
OnClose(s) ==
  /\ ready[s] = "closing"
  /\ ready' = [ready EXCEPT ![s] = "closed"]
  /\ conn' = FALSE
  /\ retry' = TRUE
  /\ UNCHANGED <<shown, loaded, proc, ws, bubble, outbox, chat, typedIn>>
  /\ Settle(queue, timers, bubbles)

Reconnect ==
  /\ retry
  /\ retry' = FALSE
  /\ Open(ready[ws] \in {"open", "connecting"})
  /\ UNCHANGED <<shown, loaded, proc, conn, queue, timers, bubble, bubbles, outbox, chat,
                 typedIn>>

\* A refreshed access token changes connect: the effect's clean-up disconnects,
\* then it connects again.
RefreshToken ==
  /\ retry' = FALSE
  /\ Open(FALSE)
  /\ UNCHANGED <<shown, loaded, proc, conn, queue, timers, bubble, bubbles, outbox, chat,
                 typedIn>>

-----------------------------------------------------------------------------
(* Prompts *)

SendWithoutConversation(m, conv) ==
  /\ proc' = TRUE
  /\ outbox' = IF ready[ws] = "open"
                 THEN [outbox EXCEPT ![ws] = Append(@, [msg |-> m])] ELSE outbox

\* doSend: a socket that is not open swallows the prompt.
Send(m, conv) ==
  /\ proc' = TRUE
  /\ outbox' = IF ready[ws] = "open"
                 THEN [outbox EXCEPT ![ws] = Append(@, [msg |-> m, conv |-> conv])]
                 ELSE outbox

\* sendChatMessage, from the input, a suggestion or the regenerate button.
Type ==
  LET m == Len(typedIn) + 1
      waits == proc \/ ~conn
  IN
  /\ m \in Msg
  /\ typedIn' = Append(typedIn, chat)
  /\ IF waits THEN UNCHANGED <<proc, outbox>> ELSE Send(m, shown)
  /\ UNCHANGED <<shown, loaded, conn, socketVars, bubble, chat>>
  /\ Settle(IF waits THEN Append(queue, m) ELSE queue, timers, bubbles)

TimerFires ==
  /\ timers # <<>>
  /\ Send(Head(timers).msg, Head(timers).conv)
  /\ UNCHANGED <<shown, loaded, conn, socketVars, bubble, chat, typedIn>>
  /\ Settle(queue, Tail(timers), bubbles)

CancelQueued(i) ==
  /\ i \in 1 .. Len(queue)
  /\ queue' = SubSeq(queue, 1, i - 1) \o SubSeq(queue, i + 1, Len(queue))
  /\ UNCHANGED <<shown, loaded, proc, conn, timers, socketVars, bubble, bubbles, outbox,
                 chat, typedIn>>

-----------------------------------------------------------------------------
(* Events of the server; e.turn stands for the nanoid given to its bubble. *)

\* A bubble whose nanoid message_saved has not replaced yet.
IsBubble(b, t) == b.turn = t /\ b.saved = 0

WithText(t, e) ==
  [i \in DOMAIN bubbles |->
     IF IsBubble(bubbles[i], t) THEN [bubbles[i] EXCEPT !.text = @ \cup {e}] ELSE bubbles[i]]

WithError(t, e) ==
  [i \in DOMAIN bubbles |->
     IF IsBubble(bubbles[i], t) THEN [bubbles[i] EXCEPT !.errs = @ \cup {e}] ELSE bubbles[i]]

WithId(t, e) ==
  [i \in DOMAIN bubbles |->
     IF IsBubble(bubbles[i], t) THEN [bubbles[i] EXCEPT !.saved = e] ELSE bubbles[i]]

LastTemporary ==
  LET temps == {i \in DOMAIN bubbles : bubbles[i].saved = 0}
  IN  IF temps = {} THEN 0
      ELSE bubbles[CHOOSE i \in temps : \A j \in temps : j <= i].turn

StaleBubbleAfter(e) ==
  CASE e.kind = "model_request_start" -> IF bubble = 0 THEN e.turn ELSE bubble
    [] e.kind = "complete"            -> 0
    [] OTHER                          -> bubble

BubbleAfter(e) ==
  CASE e.kind = "model_request_start" -> e.turn
    [] e.kind = "complete"            -> 0
    [] OTHER                          -> bubble

Unlocks(e) == e.kind \in {"final_result", "error", "complete"}

\* The replies an event leaves.  Text, tool calls, their results and the text of
\* an error go to the bubble of the ref, whichever turn they are of; the output
\* that final_result repeats has come in the chunks.
RepliesAfter(e) ==
  CASE e.kind = "model_request_start" ->
         Append(bubbles, [turn |-> e.turn, text |-> {}, errs |-> {}, saved |-> 0])
    [] e.kind \in {"text_delta", "tool_call", "tool_result"} -> WithText(bubble, e.turn)
    [] e.kind = "error"         -> WithError(bubble, e.turn)
    [] e.kind = "message_saved" ->
         WithId(IF bubble # 0 THEN bubble ELSE LastTemporary, e.turn)
    [] OTHER                    -> bubbles

Handle(e) ==
  /\ shown' = IF e.kind = "conversation_created" THEN e.conv ELSE shown
  /\ proc' = (proc /\ ~Unlocks(e))
  /\ bubble' = BubbleAfter(e)
  /\ UNCHANGED <<loaded, conn, socketVars, outbox, chat, typedIn>>
  /\ Settle(queue, timers, RepliesAfter(e))

-----------------------------------------------------------------------------
(* Turning to another chat.  clearMessages empties the screen at once.      *)

Turns(fresh) ==
  /\ chat.n < MaxChats
  /\ chat' = [n |-> chat.n + 1, fresh |-> fresh]

\* selectConversation, its fetch of the history included.
Select(c, history) ==
  /\ c # shown
  /\ Turns(FALSE)
  /\ shown' = c
  /\ loaded' = history
  /\ UNCHANGED <<proc, conn, socketVars, bubble, outbox, typedIn>>
  /\ Settle(queue, timers, <<>>)

\* startNewChat reuses a conversation that has no fetched history.
NewChat ==
  LET reuses == shown # None /\ ~loaded
  IN
  /\ Turns(TRUE)
  /\ shown' = IF reuses THEN shown ELSE None
  /\ loaded' = FALSE
  /\ UNCHANGED <<proc, conn, socketVars, bubble, outbox, typedIn>>
  /\ Settle(queue, timers, <<>>)

\* deleteConversation of the conversation on screen.
DeleteShown ==
  /\ shown # None
  /\ Turns(TRUE)
  /\ shown' = None
  /\ UNCHANGED <<loaded, proc, conn, socketVars, bubble, outbox, typedIn>>
  /\ Settle(queue, timers, bubbles)
=============================================================================
