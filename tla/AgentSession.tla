---------------------------- MODULE AgentSession ----------------------------
(***************************************************************************)
(* The server side of the chat: one AgentSession per WebSocket connection, *)
(* each handling its prompts one at a time (agent.py, agent_session.py),   *)
(* all of them writing the same conversation tables                        *)
(* (services/agent.py, services/conversation.py).                          *)
(*                                                                         *)
(* A session runs on the event loop, so another session, the REST handler  *)
(* that deletes a conversation, a disconnect or a crash can come between   *)
(* any two of its awaits.  Each of persist_user_turn and                   *)
(* persist_assistant_turn is one database transaction, which may fail.     *)
(***************************************************************************)
EXTENDS Naturals, Sequences

CONSTANTS
  Session,   \* WebSocket connections, each used once
  Conv,      \* conversation ids the database can hand out
  Tool,      \* tool_call ids a model run can produce
  None,      \* stands for Python's None
  MaxTurns   \* bound: prompts accepted by all the sessions together

ASSUME SessionAssumption ==
  /\ MaxTurns \in Nat
  /\ None \notin Conv
  /\ None \notin Tool

Turn == 1 .. MaxTurns
Role == {"user", "assistant"}

VARIABLES
  (* The database. *)
  convs,     \* life of every conversation id
  rows,      \* the messages of every conversation, in order of insertion
  toolRows,  \* the tool_calls row of every tool call of a turn's reply
  (* One AgentSession per connection. *)
  client,    \* the browser's end of the connection
  pc,        \* where agent_websocket and process_message stand
  current,   \* current_conversation_id
  requested, \* conversation_id of the prompt being handled
  turn,      \* the turn being handled
  output,    \* whether the run has produced text (final_output)
  calls,     \* what the run knows of each tool call
  history,   \* conversation_history: the turns it holds, a pair for each
  (* Observation. *)
  sent,      \* the events that reached the client
  wrote,     \* where the prompt and the reply of a turn were stored
  turns      \* turns begun

db       == <<convs, rows, toolRows, wrote>>
run      == <<output, calls>>
vars     == <<convs, rows, toolRows, client, pc, current, requested, turn,
              output, calls, history, sent, wrote, turns>>

-----------------------------------------------------------------------------
(* Types *)

ConvState == {"unused", "live", "deleted", "rolledback"}
Event     == [kind : {"conversation_created", "user_prompt",
                      "model_request_start", "text_delta", "tool_call",
                      "tool_result", "final_result", "message_saved",
                      "complete", "error"},
              turn : Turn,
              conv : Conv \cup {None},
              tool : Tool \cup {None}]

\* none: never mentioned; seen: announced by a streamed chunk; called: in the
\* agent node's message; done and empty: answered, with some text or with "".
CallState == {"none", "seen", "called", "done", "empty"}

TypeOK ==
  /\ convs     \in [Conv -> ConvState]
  /\ rows      \in [Conv -> Seq([role : Role, turn : Turn])]
  /\ toolRows  \in [Turn -> [Tool -> {"absent", "running", "completed"}]]
  /\ client    \in [Session -> {"new", "open", "closed"}]
  /\ pc        \in [Session -> {"new", "idle", "persist", "start", "stream",
                                "save", "ended"}]
  /\ current   \in [Session -> Conv \cup {None}]
  /\ requested \in [Session -> Conv \cup {None}]
  /\ turn      \in [Session -> 0 .. MaxTurns]
  /\ output    \in [Session -> BOOLEAN]
  /\ calls     \in [Session -> [Tool -> CallState]]
  /\ history   \in [Session -> Seq(Turn)]
  /\ sent      \in [Session -> Seq(Event)]
  /\ wrote     \in [Turn -> [Role -> Conv \cup {None}]]
  /\ turns     \in 0 .. MaxTurns

Busy(s) == pc[s] \in {"persist", "start", "stream", "save"}

-----------------------------------------------------------------------------
(* send_event: nothing is raised when the client has gone, the event is    *)
(* dropped and the turn carries on.                                        *)

EvBeforeTurn(s, k) == [kind |-> k, turn |-> turn[s], conv |-> current'[s], tool |-> None]

Ev(s, k)         == [kind |-> k, turn |-> turn'[s], conv |-> current'[s], tool |-> None]
ToolEv(s, k, t)  == [Ev(s, k) EXCEPT !.tool = t]
Emit(s, events)  ==
  sent' = [sent EXCEPT ![s] = IF client[s] = "open" THEN @ \o events ELSE @]

Goto(s, l) == pc' = [pc EXCEPT ![s] = l]

-----------------------------------------------------------------------------
(* The connection *)

Connect(s) ==
  /\ pc[s] = "new"
  /\ client' = [client EXCEPT ![s] = "open"]
  /\ Goto(s, "idle")
  /\ UNCHANGED <<db, current, requested, turn, run, history, sent, turns>>

Disconnect(s) ==
  /\ client[s] = "open"
  /\ client' = [client EXCEPT ![s] = "closed"]
  /\ UNCHANGED <<db, pc, current, requested, turn, run, history, sent, turns>>

\* receive_json raises WebSocketDisconnect: the loop ends.
EndLoop(s) ==
  /\ pc[s] = "idle"
  /\ client[s] = "closed"
  /\ Goto(s, "ended")
  /\ UNCHANGED <<db, client, current, requested, turn, run, history, sent, turns>>

\* The server process dies: the session's memory is gone, the database stays.
Crash(s) ==
  /\ pc[s] \notin {"new", "ended"}
  /\ Goto(s, "ended")
  /\ client' = [client EXCEPT ![s] = "closed"]
  /\ UNCHANGED <<db, current, requested, turn, run, history, sent, turns>>

-----------------------------------------------------------------------------
(* process_message *)

StaleRun(s) == UNCHANGED run

\* The locals of _stream_agent_response.
FreshRun(s) ==
  /\ output' = [output EXCEPT ![s] = FALSE]
  /\ calls' = [calls EXCEPT ![s] = [t \in Tool |-> "none"]]

\* A prompt arrives.  The client can name any conversation it was ever told of.
Receive(s, conv) ==
  /\ pc[s] = "idle"
  /\ client[s] = "open"
  /\ turns < MaxTurns
  /\ conv # None => convs[conv] # "unused"
  /\ turns' = turns + 1
  /\ turn' = [turn EXCEPT ![s] = turns + 1]
  /\ requested' = [requested EXCEPT ![s] = conv]
  /\ Goto(s, "persist")
  /\ FreshRun(s)
  /\ UNCHANGED <<db, client, current, history, sent>>

\* Neither text nor files: refused before anything is stored.
ReceiveBlank(s) ==
  /\ pc[s] = "idle"
  /\ client[s] = "open"
  /\ turns < MaxTurns
  /\ turns' = turns + 1
  /\ turn' = [turn EXCEPT ![s] = turns + 1]
  /\ UNCHANGED current
  /\ Emit(s, <<Ev(s, "error")>>)
  /\ UNCHANGED <<db, client, pc, requested, run, history>>

StoreNewestFirst(c, t, r) ==
  /\ rows'  = [rows EXCEPT ![c] = <<[role |-> r, turn |-> t]>> \o @]
  /\ wrote' = [wrote EXCEPT ![t][r] = c]

Store(c, t, r) ==
  /\ rows'  = [rows EXCEPT ![c] = Append(@, [role |-> r, turn |-> t])]
  /\ wrote' = [wrote EXCEPT ![t][r] = c]

(* persist_user_turn.  current_conversation_id is overwritten by the       *)
(* requested id before that id is looked up, and both it and newly_created *)
(* survive a transaction that is rolled back.                              *)

AdoptFirst(s, c) ==
  current' = IF current[s] = None THEN [current EXCEPT ![s] = c] ELSE current

Adopt(s, c) == current' = [current EXCEPT ![s] = c]

\* The prompt names a conversation, or the session already has one.
PersistInExisting(s) ==
  LET c == IF requested[s] # None THEN requested[s] ELSE current[s]
  IN
  /\ pc[s] = "persist"
  /\ c # None
  /\ Adopt(s, c)
  /\ \/ /\ convs[c] = "live"
        /\ Store(c, turn[s], "user")
     \/ UNCHANGED <<rows, wrote>>
  /\ turn' = turn
  /\ Emit(s, <<Ev(s, "user_prompt")>>)
  /\ Goto(s, "start")
  /\ UNCHANGED <<convs, toolRows, client, requested, run, history, turns>>

\* No conversation yet: the transaction creates one and stores the prompt.
PersistInNew(s) ==
  /\ pc[s] = "persist"
  /\ requested[s] = None
  /\ current[s] = None
  /\ turn' = turn
  /\ \E c \in Conv :
       /\ convs[c] = "unused"
       /\ Adopt(s, c)
       /\ \/ /\ convs' = [convs EXCEPT ![c] = "live"]
             /\ Store(c, turn[s], "user")
          \/ /\ convs' = [convs EXCEPT ![c] = "rolledback"]
             /\ UNCHANGED <<rows, wrote>>
  /\ Emit(s, <<Ev(s, "conversation_created"), Ev(s, "user_prompt")>>)
  /\ Goto(s, "start")
  /\ UNCHANGED <<toolRows, client, requested, run, history, turns>>

\* create_conversation itself fails: no id was assigned.
PersistNothing(s) ==
  /\ pc[s] = "persist"
  /\ requested[s] = None
  /\ current[s] = None
  /\ UNCHANGED current
  /\ turn' = turn
  /\ Emit(s, <<Ev(s, "user_prompt")>>)
  /\ Goto(s, "start")
  /\ UNCHANGED <<db, client, requested, run, history, turns>>

(* _stream_agent_response *)

StartStream(s) ==
  /\ pc[s] = "start"
  /\ UNCHANGED <<turn, current>>
  /\ Emit(s, <<Ev(s, "model_request_start")>>)
  /\ Goto(s, "stream")
  /\ UNCHANGED <<db, client, requested, run, history, turns>>

\* get_agent or the agent run raises: process_message reports and returns.
FailTurn(s) ==
  /\ pc[s] \in {"start", "stream"}
  /\ UNCHANGED <<turn, current>>
  /\ Emit(s, <<Ev(s, "error")>>)
  /\ Goto(s, "idle")
  /\ UNCHANGED <<db, client, requested, run, history, turns>>

\* The text of the reply, however many deltas carry it.
TextChunk(s) ==
  /\ pc[s] = "stream"
  /\ ~output[s]
  /\ output' = [output EXCEPT ![s] = TRUE]
  /\ UNCHANGED <<turn, current>>
  /\ Emit(s, <<Ev(s, "text_delta")>>)
  /\ UNCHANGED <<db, client, pc, requested, calls, history, turns>>

\* A streamed chunk mentions a tool call: announced the first time only.
ToolChunk(s, t) ==
  /\ pc[s] = "stream"
  /\ calls[s][t] = "none"
  /\ calls' = [calls EXCEPT ![s][t] = "seen"]
  /\ UNCHANGED <<turn, current>>
  /\ Emit(s, <<ToolEv(s, "tool_call", t)>>)
  /\ UNCHANGED <<db, client, pc, requested, output, history, turns>>

\* The agent node's message carries the call, announced unless a chunk was.
ToolCalled(s, t) ==
  /\ pc[s] = "stream"
  /\ calls[s][t] \in {"none", "seen"}
  /\ calls' = [calls EXCEPT ![s][t] = "called"]
  /\ UNCHANGED <<turn, current>>
  /\ Emit(s, IF calls[s][t] = "none" THEN <<ToolEv(s, "tool_call", t)>> ELSE <<>>)
  /\ UNCHANGED <<db, client, pc, requested, output, history, turns>>

ToolResult(s, t) ==
  /\ pc[s] = "stream"
  /\ calls[s][t] = "called"
  /\ \E r \in {"done", "empty"} : calls' = [calls EXCEPT ![s][t] = r]
  /\ UNCHANGED <<turn, current>>
  /\ Emit(s, <<ToolEv(s, "tool_result", t)>>)
  /\ UNCHANGED <<db, client, pc, requested, output, history, turns>>

\* The stream ends; a non-empty reply is remembered, and saved if there is a
\* conversation to save it in.
FinishStream(s) ==
  LET saves == output[s] /\ current[s] # None
  IN
  /\ pc[s] = "stream"
  /\ history' = IF output[s] THEN [history EXCEPT ![s] = Append(@, turn[s])]
                             ELSE history
  /\ UNCHANGED <<turn, current>>
  /\ Emit(s, IF saves THEN <<Ev(s, "final_result")>>
                      ELSE <<Ev(s, "final_result"), Ev(s, "complete")>>)
  /\ Goto(s, IF saves THEN "save" ELSE "idle")
  /\ UNCHANGED <<db, client, requested, run, turns>>

ToolRowFromChunk(state) ==
  CASE state \in {"seen", "done"} -> {"completed", "absent"}
    [] OTHER                      -> {"absent"}

\* What persist_assistant_turn writes for a call of the agent node: nothing if
\* its arguments do not parse, and "running" for good unless it has a result.
ToolRow(state) ==
  CASE state = "done"              -> {"completed", "absent"}
    [] state \in {"called", "empty"} -> {"running", "absent"}
    [] OTHER                       -> {"absent"}

SaveReply(s) ==
  /\ pc[s] = "save"
  /\ convs[current[s]] = "live"
  /\ Store(current[s], turn[s], "assistant")
  /\ \E r \in [Tool -> {"absent", "running", "completed"}] :
       /\ \A t \in Tool : r[t] \in ToolRow(calls[s][t])
       /\ toolRows' = [toolRows EXCEPT ![turn[s]] = r]
  /\ UNCHANGED <<turn, current>>
  /\ Emit(s, <<Ev(s, "message_saved"), Ev(s, "complete")>>)
  /\ Goto(s, "idle")
  /\ UNCHANGED <<convs, client, requested, run, history, turns>>

SaveFailsSilently(s) ==
  /\ pc[s] = "save"
  /\ UNCHANGED vars

SaveFailsReported(s) ==
  /\ pc[s] = "save"
  /\ UNCHANGED <<turn, current>>
  /\ Emit(s, <<Ev(s, "error"), Ev(s, "complete")>>)
  /\ Goto(s, "idle")
  /\ UNCHANGED <<db, client, requested, run, history, turns>>

\* The conversation is gone or the transaction fails: logged, not reported.
SaveFails(s) ==
  /\ pc[s] = "save"
  /\ UNCHANGED <<turn, current>>
  /\ Emit(s, <<Ev(s, "complete")>>)
  /\ Goto(s, "idle")
  /\ UNCHANGED <<db, client, requested, run, history, turns>>

-----------------------------------------------------------------------------
(* POST /conversations and DELETE /conversations/{id}, from any tab.       *)

CreateConversation(c) ==
  /\ convs[c] = "unused"
  /\ convs' = [convs EXCEPT ![c] = "live"]
  /\ UNCHANGED <<rows, toolRows, wrote, client, pc, current, requested, turn, run,
                 history, sent, turns>>

DeleteConversation(c) ==
  /\ convs[c] = "live"
  /\ convs' = [convs EXCEPT ![c] = "deleted"]
  /\ rows' = [rows EXCEPT ![c] = <<>>]
  /\ UNCHANGED <<toolRows, wrote, client, pc, current, requested, turn, run,
                 history, sent, turns>>

-----------------------------------------------------------------------------
Init ==
  /\ convs     = [c \in Conv |-> "unused"]
  /\ rows      = [c \in Conv |-> <<>>]
  /\ toolRows  = [t \in Turn |-> [k \in Tool |-> "absent"]]
  /\ client    = [s \in Session |-> "new"]
  /\ pc        = [s \in Session |-> "new"]
  /\ current   = [s \in Session |-> None]
  /\ requested = [s \in Session |-> None]
  /\ turn      = [s \in Session |-> 0]
  /\ output    = [s \in Session |-> FALSE]
  /\ calls     = [s \in Session |-> [t \in Tool |-> "none"]]
  /\ history   = [s \in Session |-> <<>>]
  /\ sent      = [s \in Session |-> <<>>]
  /\ wrote     = [t \in Turn |-> [r \in Role |-> None]]
  /\ turns     = 0

\* What the event loop does for a session once a prompt has been accepted.
Step(s) ==
  \/ PersistInExisting(s)
  \/ PersistInNew(s)
  \/ PersistNothing(s)
  \/ StartStream(s)
  \/ FailTurn(s)
  \/ FinishStream(s)
  \/ SaveReply(s)
  \/ SaveFails(s)

Stream(s) ==
  \/ TextChunk(s)
  \/ \E t \in Tool : ToolChunk(s, t) \/ ToolCalled(s, t) \/ ToolResult(s, t)

Environment(s) ==
  \/ Connect(s)
  \/ Disconnect(s)
  \/ EndLoop(s)
  \/ Crash(s)
  \/ \E c \in Conv \cup {None} : Receive(s, c)
  \/ ReceiveBlank(s)

Next ==
  \/ \E s \in Session : Step(s) \/ Stream(s) \/ Environment(s)
  \/ \E c \in Conv : CreateConversation(c) \/ DeleteConversation(c)

Spec == Init /\ [][Next]_vars

\* The event loop runs every ready coroutine and a model run ends or raises.
Fairness == \A s \in Session : WF_vars(Step(s))

FairSpec == Spec /\ Fairness

-----------------------------------------------------------------------------
(* Properties *)

\* The prompt and the reply of a turn are never stored in two conversations,
\* although the client may name another conversation with every prompt and
\* current_conversation_id is shared by the turns of a session.
OneThreadPerTurn ==
  \A t \in Turn :
    wrote[t]["user"] # None /\ wrote[t]["assistant"] # None
      => wrote[t]["user"] = wrote[t]["assistant"]

\* Within a stored thread no message appears twice and no reply comes before
\* its own prompt, however the turns of two connections interleave.
ThreadOrder ==
  \A c \in Conv : \A i, j \in 1 .. Len(rows[c]) :
    i < j /\ rows[c][i].turn = rows[c][j].turn
      => rows[c][i].role = "user" /\ rows[c][j].role = "assistant"

\* The rows of a conversation are those the turns stored there: nothing is
\* left behind by a rolled-back transaction or by a deletion.
RowsAreStored ==
  \A c \in Conv :
    /\ \A i \in 1 .. Len(rows[c]) : wrote[rows[c][i].turn][rows[c][i].role] = c
    /\ rows[c] # <<>> => convs[c] = "live"

\* What the conversation tables hold is sound: a turn is in one conversation, in
\* order and once, and every row was stored by a turn of a live conversation.
ThreadsAreSound == OneThreadPerTurn /\ ThreadOrder /\ RowsAreStored

\* A message_saved event, from which the browser takes the id it rates and
\* shares, names a committed reply, unless the conversation was deleted since.
SavedMeansStored ==
  \A s \in Session : \A i \in 1 .. Len(sent[s]) :
    LET e == sent[s][i] IN
    e.kind = "message_saved" =>
      /\ wrote[e.turn]["assistant"] = e.conv
      /\ convs[e.conv] # "deleted" =>
           \E j \in 1 .. Len(rows[e.conv]) :
             rows[e.conv][j] = [role |-> "assistant", turn |-> e.turn]

Happened(s, k, t) ==
  \E i \in 1 .. Len(sent[s]) : sent[s][i].kind = k /\ sent[s][i].turn = t

\* While the client stays connected, the memory the model is prompted with
\* holds exactly the replies the client saw finished: no turn that failed half
\* way, no turn twice, in the order of the prompts.
MemoryMatchesReplies ==
  \A s \in Session :
    /\ \A i, j \in 1 .. Len(history[s]) : i < j => history[s][i] < history[s][j]
    /\ client[s] = "open" =>
         {history[s][i] : i \in 1 .. Len(history[s])}
           = {t \in Turn : Happened(s, "text_delta", t) /\ Happened(s, "final_result", t)}

\* What a client was told of its replies agrees with the tables and with the
\* memory that the next prompt is given.
RepliesAreTrue == SavedMeansStored /\ MemoryMatchesReplies

Terminal == {"complete", "error"}

\* The browser unlocks its input on "complete" or "error" and hangs text on
\* the bubble that model_request_start opened, so the events of a turn must
\* come in this order, whole turns one after the other, and a session that is
\* idle again with its client there has ended the turn exactly once.
TurnsAreBracketed ==
  \A s \in Session :
    LET ev == sent[s]
        Before(k, i) == \E j \in 1 .. i - 1 : ev[j].kind = k /\ ev[j].turn = ev[i].turn
    IN
    /\ \A i, j \in 1 .. Len(ev) : i < j =>
         /\ ev[i].turn <= ev[j].turn
         /\ ev[i].kind \in Terminal => ev[i].turn < ev[j].turn
    /\ \A i \in 1 .. Len(ev) :
         /\ ev[i].kind \in {"text_delta", "tool_call", "tool_result", "final_result"}
              => Before("model_request_start", i) /\ ~Before("final_result", i)
         /\ ev[i].kind = "message_saved" => Before("final_result", i)
         /\ ev[i].kind = "conversation_created" => ~Before("user_prompt", i)
    /\ pc[s] = "idle" /\ client[s] = "open" /\ turn[s] > 0 =>
         \E k \in Terminal : Happened(s, k, turn[s])

\* For a client that stayed connected, the tool calls stored with a reply are
\* among those it was shown, each announced once and before its result, and
\* one stored as completed was shown with its result.
ToolRowsMatchEvents ==
  \A s \in Session : client[s] = "open" =>
    LET At(k, t, n) == {i \in 1 .. Len(sent[s]) :
          sent[s][i].kind = k /\ sent[s][i].turn = n /\ sent[s][i].tool = t}
    IN
    \A n \in Turn, t \in Tool :
      /\ \A i, j \in At("tool_call", t, n) : i = j
      /\ \A j \in At("tool_result", t, n) : \E i \in At("tool_call", t, n) : i < j
      /\ Happened(s, "complete", n) /\ toolRows[n][t] # "absent"
           => At("tool_call", t, n) # {}
      /\ Happened(s, "complete", n) /\ toolRows[n][t] = "completed"
           => At("tool_result", t, n) # {}

\* Every accepted prompt is brought to an end, whatever transaction fails and
\* whether or not the client is still there.
TurnsEnd == \A s \in Session : Busy(s) ~> ~Busy(s)

\* AgentSession keeps the promises of ConversationLog.
Log == INSTANCE ConversationLog WITH NoConv <- None
LogRefined == Log!LogSpec

(* What comments in the code say, and the code does not do.                *)

\* services/agent.py:105 has the caller announce a conversation when it
\* "was_newly_created": a client is only told of conversations that exist.
AnnouncedExists ==
  \A s \in Session : \A i \in 1 .. Len(sent[s]) :
    sent[s][i].kind = "conversation_created" => convs[sent[s][i].conv] # "rolledback"

\* agent_session.py:37 describes a turn as "persist input, run the agent, stream
\* events, persist output": a reply is stored only after its prompt.
ReplyHasItsPrompt ==
  \A t \in Turn : wrote[t]["assistant"] # None => wrote[t]["user"] # None
=============================================================================
