----------------------------- MODULE ChatSystem -----------------------------
(***************************************************************************)
(* A browser tab and the server it talks to: ChatClient and AgentSession   *)
(* joined by the sockets.  Prompts a socket accepted reach the server in   *)
(* order while it still reads; the events a session sent reach the tab in  *)
(* order while the socket is open; what is under way when it closes is     *)
(* lost.                                                                   *)
(***************************************************************************)
EXTENDS ChatClient, FiniteSets, Functions

CONSTANTS
  Tool,      \* tool calls of a model run
  MaxTurns,  \* bound: prompts the server accepts
  Unstable   \* whether connections drop and access tokens are refreshed

ASSUME SystemAssumption ==
  /\ Unstable \in BOOLEAN
  /\ MaxTurns \in Nat
  /\ None \notin Tool

VARIABLES convs, rows, toolRows, client, pc, current, requested, turn, output,
          calls, history, sent, wrote, turns,  \* the server's, of AgentSession
          heard,  \* how many events of a socket the tab has handled
          asked   \* observation: the prompt each turn answers

Server == INSTANCE AgentSession

serverVars == <<convs, rows, toolRows, client, pc, current, requested, turn, output,
                calls, history, sent, wrote, turns>>
sysVars    == <<clientVars, serverVars, heard, asked>>

-----------------------------------------------------------------------------
SocketOpens(s) ==
  /\ OnOpen(s)
  /\ Server!Connect(s)
  /\ UNCHANGED <<heard, asked>>

ServerReceives(s) ==
  /\ outbox[s] # <<>>
  /\ Server!Receive(s, Head(outbox[s]).conv)
  /\ outbox' = [outbox EXCEPT ![s] = Tail(@)]
  /\ asked' = [asked EXCEPT ![turns'] = Head(outbox[s]).msg]
  /\ UNCHANGED <<shown, loaded, proc, conn, queue, timers, socketVars, bubble, bubbles,
                 chat, typedIn, heard>>

ServerRuns(s) ==
  /\ Server!Step(s) \/ Server!Stream(s)
  /\ UNCHANGED <<clientVars, heard, asked>>

\* The server learns that the tab has gone.
ServerHangsUp(s) ==
  /\ ready[s] \in {"closing", "closed"}
  /\ Server!Disconnect(s) \/ Server!EndLoop(s)
  /\ UNCHANGED <<clientVars, heard, asked>>

Deliver(s) ==
  /\ ready[s] = "open"
  /\ heard[s] < Len(sent[s])
  /\ heard' = [heard EXCEPT ![s] = @ + 1]
  /\ Handle(sent[s][heard[s] + 1])
  /\ UNCHANGED <<serverVars, asked>>

\* Callbacks of the page that leave the server alone.
Page ==
  /\ \/ TimerFires
     \/ Reconnect
     \/ \E s \in Session : OnClose(s)
  /\ UNCHANGED <<serverVars, heard, asked>>

User ==
  /\ \/ Type
     \/ \E i \in 1 .. MaxMsgs : CancelQueued(i)
     \/ NewChat
     \/ \E c \in Conv : convs[c] = "live" /\ Select(c, rows[c] # <<>>)
  /\ UNCHANGED <<serverVars, heard, asked>>

UserDeletes ==
  /\ DeleteShown
  /\ Server!DeleteConversation(shown)
  /\ UNCHANGED <<heard, asked>>

\* The user's other tabs and the REST API.
Elsewhere ==
  /\ \E c \in Conv : Server!CreateConversation(c)
  /\ UNCHANGED <<clientVars, heard, asked>>

\* Bound: the last of the sockets holds.
Network ==
  /\ Unstable
  /\ \E s \in Session : ready[s] = "unused"
  /\ RefreshToken \/ \E s \in Session : Drop(s)
  /\ UNCHANGED <<serverVars, heard, asked>>

Init ==
  /\ ClientInit
  /\ Server!Init
  /\ heard = [s \in Session |-> 0]
  /\ asked = [t \in 1 .. MaxTurns |-> 0]

Next ==
  \/ \E s \in Session :
       \/ SocketOpens(s) \/ ServerReceives(s) \/ ServerRuns(s)
       \/ ServerHangsUp(s) \/ Deliver(s)
  \/ Page \/ User \/ UserDeletes \/ Elsewhere \/ Network

Spec == Init /\ [][Next]_sysVars

\* The page runs its callbacks, the event loop its coroutines, and a socket in
\* use carries what was written to it.  The user and the network owe nothing.
Fairness ==
  /\ WF_sysVars(Page)
  /\ \A s \in Session :
       /\ WF_sysVars(SocketOpens(s))
       /\ WF_sysVars(ServerReceives(s))
       /\ WF_sysVars(Server!Step(s) /\ UNCHANGED <<clientVars, heard, asked>>)
       /\ WF_sysVars(Deliver(s))

FairSpec == Spec /\ Fairness

-----------------------------------------------------------------------------
(* Properties *)

TypeOK ==
  /\ Server!TypeOK
  /\ shown \in Conv \cup {None} /\ {loaded, proc, conn, retry} \subseteq BOOLEAN
  /\ Range(queue) \subseteq Msg /\ Range(typedIn) \subseteq Chat
  /\ Range(timers) \subseteq [msg : Msg, conv : Conv \cup {None}]
  /\ ready \in [Session -> {"unused", "connecting", "open", "closing", "closed"}]
  /\ ws \in Session /\ chat \in Chat /\ bubble \in 0 .. MaxTurns
  /\ Range(bubbles) \subseteq [turn : 1 .. MaxTurns, text : SUBSET (1 .. MaxTurns),
                               errs : SUBSET (1 .. MaxTurns), saved : 0 .. MaxTurns]
  /\ \A s \in Session :
       /\ heard[s] \in 0 .. Len(sent[s])
       /\ Range(outbox[s]) \subseteq [msg : Msg, conv : Conv \cup {None}]
  /\ asked \in [1 .. MaxTurns -> 0 .. MaxMsgs]

\* The tab has handled an event of this kind and turn.
Handled(k, t) ==
  \E s \in Session : \E i \in 1 .. heard[s] : sent[s][i].kind = k /\ sent[s][i].turn = t

\* A reply on screen holds the text and the tool calls of one turn, and the
\* database id it is rated and shared by is that turn's, whichever events a
\* dropped connection swallowed and to whichever chat the user turned.  The text
\* of an error can be another turn's: only an error before model_request_start has
\* no bubble of its own to go to, and it then goes to one whose turn the tab never
\* saw complete (currentMessageIdRef, which complete alone clears).
BubbleHoldsOneTurn ==
  \A i \in DOMAIN bubbles :
    LET b == bubbles[i] IN
    /\ b.text \subseteq {b.turn}
    /\ b.saved \in {0, b.turn}
    /\ \A u \in b.errs \ {b.turn} :
         ~Handled("complete", b.turn) /\ ~Handled("model_request_start", u)

Copies(m) ==
  LET InSocket == {p \in Session \X (1 .. MaxMsgs) :
                     p[2] \in DOMAIN outbox[p[1]] /\ outbox[p[1]][p[2]].msg = m}
  IN  Cardinality({i \in DOMAIN queue : queue[i] = m})
        + Cardinality({i \in DOMAIN timers : timers[i].msg = m})
        + Cardinality(InSocket)
        + Cardinality({t \in DOMAIN asked : asked[t] = m})

\* No prompt is handed over twice between the queue, the drainer's timers, the
\* sockets and the server, although the drainer runs on every change of three
\* unrelated values.
PromptOnce == \A m \in Msg : Copies(m) <= 1

\* The turns of a socket whose end the tab has not seen.
Unanswered(s) ==
  {t \in DOMAIN asked :
     /\ t = turn[s] /\ asked[t] # 0
     /\ ~\E i \in 1 .. heard[s] :
          sent[s][i].turn = t /\ sent[s][i].kind \in {"final_result", "error"}}

\* On a connection that holds, the input is locked only while something is
\* still to come that unlocks it.
LockedOnlyWhileWaiting ==
  proc => \/ outbox[ws] # <<>>
          \/ Server!Busy(ws)
          \/ \E i \in heard[ws] + 1 .. Len(sent[ws]) : Unlocks(sent[ws][i])

\* While the tab stays connected a queued prompt is sent, cancelled or dropped.
QueueDrains ==
  \A m \in Msg : (m \in Range(queue) /\ conn) ~> (m \notin Range(queue) \/ ~conn)

\* On a connection that holds, whatever locks the input goes, and what is queued
\* behind it.
InputUnlocks == []LockedOnlyWhileWaiting /\ QueueDrains

(* What comments in the code say, and the code does not do.                *)

\* use-chat.ts:471 "Queue when the agent is busy": a socket carries one prompt
\* at a time, the next once the answer to the last has been seen.
OneInFlight ==
  \A s \in Session :
    ready[s] = "open" => Len(outbox[s]) + Cardinality(Unanswered(s)) <= 1

\* use-conversations.ts:227 has startNewChat keep the conversation "If current
\* conversation is empty (no messages)", and otherwise leave it (lines 239-241):
\* what is typed in a new chat does not continue the thread of an earlier one.
NewChatIsNew ==
  \A u, t \in DOMAIN asked :
    LET Stored(n) == asked[n] # 0 /\ wrote[n]["user"] # None IN
    /\ u < t /\ Stored(u) /\ Stored(t)
    /\ wrote[u]["user"] = wrote[t]["user"]
    /\ typedIn[asked[t]].fresh
    => typedIn[asked[u]].n >= typedIn[asked[t]].n

\* chat-container.tsx:88 "Drop any pending queue when switching threads": a queued
\* prompt is never handed to a conversation the user selected after typing it.
DrainsInItsThread ==
  [][\A i \in DOMAIN timers' :
       /\ timers'[i].msg \in Range(queue)
       /\ timers'[i].conv # None
       /\ ~chat'.fresh
       /\ ~\E t \in DOMAIN asked : /\ wrote[t]["user"] = timers'[i].conv
                                 /\ typedIn[asked[t]] = typedIn[timers'[i].msg]
       => typedIn[timers'[i].msg].n = chat'.n]_sysVars
=============================================================================
