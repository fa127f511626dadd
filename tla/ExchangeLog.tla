----------------------------- MODULE ExchangeLog -----------------------------
(***************************************************************************)
(* What the channel router promises of the conversations that it stores    *)
(* for the chats of a platform, however its tasks queue, wait and fail:    *)
(*                                                                         *)
(*   - a chat has no conversation but the one made for the first message   *)
(*     that needed it, and those with which /new has replaced it;          *)
(*   - a message is answered once, in a conversation of its own chat, and  *)
(*     its prompt and its answer are stored together;                      *)
(*   - exchanges come one after the other: the answer is given with all    *)
(*     that the conversation holds when the exchange is added, no less.    *)
(*                                                                         *)
(* ChannelRouter implements this specification.                            *)
(***************************************************************************)

CONSTANTS
  Msg,      \* incoming messages; a conversation is named by the one it is made for
  Chat,     \* platform chats
  ChatOf,   \* the chat of every message
  Renews,   \* the messages that are the command /new
  None

VARIABLES
  made,     \* the conversations there are
  thread,   \* the current one of every chat
  log,      \* the messages of every conversation
  given     \* what the answer to every message was given with

logVars == <<made, thread, log, given>>

LogInit ==
  /\ made = {}
  /\ thread = [c \in Chat |-> None]
  /\ log = [c \in Msg |-> {}]
  /\ given = [m \in Msg |-> {}]

Exchange(m) == [role : {"user", "assistant"}, msg : {m}]

Make(m) ==
  /\ m \notin made
  /\ made' = made \cup {m}
  /\ thread' = [thread EXCEPT ![ChatOf[m]] = m]

\* The first message of a chat that needs a conversation.
Begin(m) == thread[ChatOf[m]] = None /\ Make(m)

Renew(m) == m \in Renews /\ thread[ChatOf[m]] # None /\ Make(m)

Answer(m, c) ==
  /\ \A d \in Msg : Exchange(m) \cap log[d] = {}
  /\ log' = [log EXCEPT ![c] = @ \cup Exchange(m)]
  /\ given' = [given EXCEPT ![m] = log[c]]

LogNext ==
  \E m \in Msg :
    \/ (Begin(m) \/ Renew(m)) /\ UNCHANGED <<log, given>>
    \/ Begin(m) /\ Answer(m, m)
    \/ \E c \in made :
         ChatOf[c] = ChatOf[m] /\ Answer(m, c) /\ UNCHANGED <<made, thread>>

LogSpec == LogInit /\ [][LogNext]_logVars
=============================================================================
