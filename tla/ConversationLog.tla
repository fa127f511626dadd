--------------------------- MODULE ConversationLog ---------------------------
(***************************************************************************)
(* What the chat backend promises about the conversations it stores,       *)
(* whatever happens to connections, transactions and agent runs:           *)
(*                                                                         *)
(*   - a conversation comes into being empty, at its owner's request, or   *)
(*     together with its first prompt, and never by half;                  *)
(*   - a turn stores its prompt at most once and its reply at most once;   *)
(*   - a reply never precedes its prompt, and lands in the conversation    *)
(*     that holds the prompt;                                              *)
(*   - a stored thread only grows, until its owner deletes it.             *)
(*                                                                         *)
(* AgentSession implements this specification.                             *)
(***************************************************************************)
EXTENDS Naturals, Sequences

CONSTANTS
  Conv,     \* conversation ids
  NoConv,   \* "no conversation"
  Turn      \* turns: one per prompt a session accepts

VARIABLES
  convs,    \* life of every conversation id
  rows,     \* the stored thread of every conversation
  wrote     \* where the prompt and the reply of every turn were stored

logVars == <<convs, rows, wrote>>

Role == {"user", "assistant"}
Row  == [role : Role, turn : Turn]

LogInit ==
  /\ convs = [c \in Conv |-> "unused"]
  /\ rows  = [c \in Conv |-> <<>>]
  /\ wrote = [t \in Turn |-> [r \in Role |-> NoConv]]

Store(c, t, r) ==
  /\ rows'  = [rows EXCEPT ![c] = Append(@, [role |-> r, turn |-> t])]
  /\ wrote' = [wrote EXCEPT ![t][r] = c]

Create(c) ==
  /\ convs[c] = "unused"
  /\ convs' = [convs EXCEPT ![c] = "live"]
  /\ UNCHANGED <<rows, wrote>>

\* A conversation is created by the transaction that stores its first prompt.
Begin(c, t) ==
  /\ convs[c] = "unused"
  /\ \A r \in Role : wrote[t][r] = NoConv
  /\ convs' = [convs EXCEPT ![c] = "live"]
  /\ Store(c, t, "user")

Prompt(c, t) ==
  /\ convs[c] = "live"
  /\ \A r \in Role : wrote[t][r] = NoConv
  /\ Store(c, t, "user")
  /\ UNCHANGED convs

Reply(c, t) ==
  /\ convs[c] = "live"
  /\ wrote[t]["assistant"] = NoConv
  /\ wrote[t]["user"] \in {NoConv, c}
  /\ Store(c, t, "assistant")
  /\ UNCHANGED convs

\* An id whose creating transaction failed never names a conversation.
Abandon(c) ==
  /\ convs[c] = "unused"
  /\ convs' = [convs EXCEPT ![c] = "rolledback"]
  /\ UNCHANGED <<rows, wrote>>

Remove(c) ==
  /\ convs[c] = "live"
  /\ convs' = [convs EXCEPT ![c] = "deleted"]
  /\ rows'  = [rows EXCEPT ![c] = <<>>]
  /\ UNCHANGED wrote

LogNext ==
  \E c \in Conv :
    \/ \E t \in Turn : Begin(c, t) \/ Prompt(c, t) \/ Reply(c, t)
    \/ Create(c)
    \/ Abandon(c)
    \/ Remove(c)

LogSpec == LogInit /\ [][LogNext]_logVars
=============================================================================
