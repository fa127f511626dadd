-------------------------- MODULE ChatSystemProofs --------------------------
(***************************************************************************)
(* Proofs about ChatSystem, for every number of sockets, conversations,    *)
(* prompts and turns, and for connections that drop and those that hold:   *)
(* the server the tab talks to is an AgentSession, so that whatever is     *)
(* proved of AgentSession holds here, a reply on screen holds one turn, a  *)
(* prompt is handed over once, and on a connection that holds the input is *)
(* locked only while something is to come that unlocks it.                 *)
(***************************************************************************)
EXTENDS ChatSystem, FiniteSetTheorems, TLAPS

\* AgentSession and what is proved of it.
Agents == INSTANCE AgentSessionProofs

-----------------------------------------------------------------------------
(* Types                                                                    *)

Prompt == [msg : Msg, conv : Conv \cup {None}]
Reply  == [turn : 1 .. MaxTurns, text : SUBSET (1 .. MaxTurns), errs : SUBSET (1 .. MaxTurns),
           saved : 0 .. MaxTurns]

ClientType ==
  /\ shown \in Conv \cup {None} /\ loaded \in BOOLEAN
  /\ proc \in BOOLEAN /\ conn \in BOOLEAN /\ retry \in BOOLEAN
  /\ queue \in Seq(Msg) /\ timers \in Seq(Prompt)
  /\ ready \in [Session -> {"unused", "connecting", "open", "closing", "closed"}]
  /\ ws \in Session /\ bubble \in 0 .. MaxTurns /\ bubbles \in Seq(Reply)
  /\ outbox \in [Session -> Seq(Prompt)]
  /\ chat \in Chat /\ typedIn \in Seq(Chat) /\ Len(typedIn) <= MaxMsgs
  /\ asked \in [1 .. MaxTurns -> 0 .. MaxMsgs]
  /\ heard \in [Session -> Nat]

SysInv ==
  /\ Agents!TypeInv /\ ClientType
  /\ \A s \in Session : heard[s] <= Len(sent[s])

-----------------------------------------------------------------------------
(* The server                                                               *)

\* ChatSystem starts the server as AgentSession does.
LEMMA ServerStarts == Init => Agents!Init
BY DEF Init, Server!Init, Agents!Init, Server!Turn, Agents!Turn, Server!Role, Agents!Role

\* What the event loop does for a session is what AgentSession does.
LEMMA ServerSteps ==
  ASSUME NEW s \in Session, Server!Step(s) \/ Server!Stream(s)
  PROVE  Agents!Next
<1>1. Server!Step(s) => Agents!Step(s)
  BY DEF Server!Step, Agents!Step, Server!PersistInExisting, Agents!PersistInExisting,
         Server!PersistInNew, Agents!PersistInNew, Server!PersistNothing,
         Agents!PersistNothing, Server!StartStream, Agents!StartStream, Server!FailTurn,
         Agents!FailTurn, Server!FinishStream, Agents!FinishStream, Server!SaveReply,
         Agents!SaveReply, Server!SaveFails, Agents!SaveFails, Server!Emit, Agents!Emit,
         Server!Ev, Agents!Ev, Server!Goto, Agents!Goto, Server!Adopt, Agents!Adopt,
         Server!Store, Agents!Store, Server!ToolRow, Agents!ToolRow, Server!db, Agents!db,
         Server!run, Agents!run
<1>2. Server!Stream(s) => Agents!Stream(s)
  BY DEF Server!Stream, Agents!Stream, Server!TextChunk, Agents!TextChunk, Server!ToolChunk,
         Agents!ToolChunk, Server!ToolCalled, Agents!ToolCalled, Server!ToolResult,
         Agents!ToolResult, Server!Emit, Agents!Emit, Server!Ev, Agents!Ev, Server!ToolEv,
         Agents!ToolEv, Server!db, Agents!db
<1>3. QED
  BY <1>1, <1>2 DEF Agents!Next

\* Every step of the system is one that AgentSession allows, or none of it.
LEMMA ServerNext == SysInv /\ [Next]_sysVars => [Agents!Next]_Agents!vars
<1> SUFFICES ASSUME SysInv, [Next]_sysVars PROVE [Agents!Next]_Agents!vars
  OBVIOUS
<1>idle. ASSUME UNCHANGED serverVars PROVE UNCHANGED Agents!vars
  BY <1>idle DEF serverVars, Agents!vars
<1>1. ASSUME NEW s \in Session, SocketOpens(s) PROVE Agents!Next
  <2>1. Agents!Connect(s)
    BY <1>1 DEF SocketOpens, Server!Connect, Agents!Connect, Server!Goto, Agents!Goto,
                Server!db, Agents!db, Server!run, Agents!run
  <2>2. QED
    BY <2>1 DEF Agents!Next, Agents!Environment
<1>2. ASSUME NEW s \in Session, ServerReceives(s) PROVE Agents!Next
  <2>1. Head(outbox[s]).conv \in Conv \cup {None}
    <3>1. outbox[s] \in Seq(Prompt) /\ outbox[s] # <<>>
      BY <1>2 DEF ServerReceives, SysInv, ClientType
    <3>2. Head(outbox[s]) \in Prompt
      BY <3>1
    <3>3. QED
      BY <3>2 DEF Prompt
  <2>2. Agents!Receive(s, Head(outbox[s]).conv)
    BY <1>2 DEF ServerReceives, Server!Receive, Agents!Receive, Server!Goto, Agents!Goto,
                Server!FreshRun, Agents!FreshRun, Server!db, Agents!db
  <2>3. QED
    BY <2>1, <2>2 DEF Agents!Next, Agents!Environment
<1>3. ASSUME NEW s \in Session, ServerRuns(s) PROVE Agents!Next
  BY <1>3, ServerSteps DEF ServerRuns
<1>4. ASSUME NEW s \in Session, ServerHangsUp(s) PROVE Agents!Next
  <2>1. Agents!Disconnect(s) \/ Agents!EndLoop(s)
    BY <1>4 DEF ServerHangsUp, Server!Disconnect, Agents!Disconnect, Server!EndLoop,
                Agents!EndLoop, Server!Goto, Agents!Goto, Server!db, Agents!db, Server!run,
                Agents!run
  <2>2. QED
    BY <2>1 DEF Agents!Next, Agents!Environment
<1>5. ASSUME UserDeletes PROVE Agents!Next
  <2>1. shown \in Conv
    BY <1>5 DEF UserDeletes, DeleteShown, SysInv, ClientType
  <2>2. Agents!DeleteConversation(shown)
    BY <1>5 DEF UserDeletes, Server!DeleteConversation, Agents!DeleteConversation,
                Server!run, Agents!run
  <2>3. QED
    BY <2>1, <2>2 DEF Agents!Next
<1>6. ASSUME Elsewhere PROVE Agents!Next
  <2>1. PICK c \in Conv : Server!CreateConversation(c)
    BY <1>6 DEF Elsewhere
  <2>2. Agents!CreateConversation(c)
    BY <2>1 DEF Server!CreateConversation, Agents!CreateConversation, Server!run, Agents!run
  <2>3. QED
    BY <2>2 DEF Agents!Next
<1>7. ASSUME NEW s \in Session, Deliver(s) PROVE UNCHANGED Agents!vars
  BY <1>7, <1>idle DEF Deliver
<1>8. ASSUME Page \/ User \/ Network PROVE UNCHANGED Agents!vars
  BY <1>8, <1>idle DEF Page, User, Network
<1>9. ASSUME UNCHANGED sysVars PROVE UNCHANGED Agents!vars
  BY <1>9, <1>idle DEF sysVars
<1>10. QED
  BY <1>1, <1>2, <1>3, <1>4, <1>5, <1>6, <1>7, <1>8, <1>9 DEF Next

\* So its types are kept, and what it has sent stays sent.
LEMMA ServerKeeps ==
  ASSUME SysInv, [Next]_sysVars
  PROVE  /\ Agents!TypeInv'
         /\ \A s \in Session : /\ Len(sent'[s]) >= Len(sent[s])
                               /\ \A i \in 1 .. Len(sent[s]) : sent'[s][i] = sent[s][i]
<1>1. Agents!TypeInv /\ [Agents!Next]_Agents!vars
  BY ServerNext DEF SysInv
<1>2. Agents!TypeInv'
  BY <1>1, Agents!TypeNext, ClientAssumption, SystemAssumption
<1>3. Agents!EventsGrow
  BY <1>1, Agents!EventsStay, ClientAssumption, SystemAssumption
<1>4. QED
  BY <1>2, <1>3 DEF Agents!EventsGrow

-----------------------------------------------------------------------------
(* The tab                                                                  *)

\* A sequence that is changed entry by entry.
LEMMA Mapped ==
  ASSUME NEW S, NEW q \in Seq(S), NEW f, DOMAIN f = DOMAIN q, f = [i \in DOMAIN q |-> f[i]],
         \A i \in DOMAIN q : f[i] \in S
  PROVE  f \in Seq(S) /\ Len(f) = Len(q)
<1>1. DOMAIN q = 1 .. Len(q) /\ Len(q) \in Nat
  OBVIOUS
<1>2. f \in [1 .. Len(q) -> S]
  BY <1>1
<1>3. QED
  BY <1>1, <1>2

\* The first and the other prompts of one that is waiting.
LEMMA Popped ==
  ASSUME NEW S, NEW q \in Seq(S), q # <<>>
  PROVE  /\ Head(q) \in S /\ Tail(q) \in Seq(S) /\ Len(q) \in Nat \ {0}
         /\ Head(q) = q[1] /\ Len(Tail(q)) = Len(q) - 1
         /\ \A i \in 1 .. Len(q) - 1 : Tail(q)[i] = q[i + 1]
OBVIOUS

LEMMA Pushed ==
  ASSUME NEW S, NEW q \in Seq(S), NEW e \in S
  PROVE  /\ Append(q, e) \in Seq(S) /\ Len(Append(q, e)) = Len(q) + 1 /\ Len(q) \in Nat
         /\ \A i \in 1 .. Len(q) : Append(q, e)[i] = q[i]
         /\ Append(q, e)[Len(q) + 1] = e
OBVIOUS

LEMMA Joined ==
  ASSUME NEW S, NEW a \in Seq(S), NEW b \in Seq(S)
  PROVE  /\ a \o b \in Seq(S) /\ Len(a \o b) = Len(a) + Len(b)
         /\ \A k \in 1 .. Len(a) : (a \o b)[k] = a[k]
         /\ \A k \in 1 .. Len(b) : (a \o b)[Len(a) + k] = b[k]
OBVIOUS

\* A queue without its entry i.
Cut(q, i) == SubSeq(q, 1, i - 1) \o SubSeq(q, i + 1, Len(q))

LEMMA CutOut ==
  ASSUME NEW S, NEW q \in Seq(S), NEW i \in 1 .. Len(q)
  PROVE  /\ Cut(q, i) \in Seq(S) /\ Len(Cut(q, i)) = Len(q) - 1
         /\ \A k \in 1 .. Len(q) - 1 : Cut(q, i)[k] = IF k < i THEN q[k] ELSE q[k + 1]
<1> DEFINE a == SubSeq(q, 1, i - 1)
           b == SubSeq(q, i + 1, Len(q))
<1>1. Len(q) \in Nat /\ i \in Nat /\ i >= 1 /\ i <= Len(q)
  OBVIOUS
<1>2. a \in Seq(S) /\ Len(a) = i - 1 /\ \A k \in 1 .. i - 1 : a[k] = q[k]
  BY <1>1
<1>3. b \in Seq(S) /\ Len(b) = Len(q) - i /\ \A k \in 1 .. Len(q) - i : b[k] = q[i + k]
  BY <1>1
<1> HIDE DEF a, b
<1>4. /\ a \o b \in Seq(S) /\ Len(a \o b) = Len(a) + Len(b)
      /\ \A k \in 1 .. Len(a) : (a \o b)[k] = a[k]
      /\ \A k \in 1 .. Len(b) : (a \o b)[Len(a) + k] = b[k]
  <2>1. a \in Seq(S) /\ b \in Seq(S)
    BY <1>2, <1>3
  <2>2. QED
    BY <2>1, Joined
<1>5. ASSUME NEW k \in 1 .. Len(q) - 1, k >= i
      PROVE  (a \o b)[k] = q[k + 1]
  <2> DEFINE l == k - (i - 1)
  <2>1. l \in 1 .. Len(q) - i /\ k = (i - 1) + l
    BY <1>1, <1>5
  <2>2. i + l = k + 1
    BY <1>1, <2>1
  <2> HIDE DEF l
  <2>3. (a \o b)[k] = b[l]
    BY <1>2, <1>3, <1>4, <2>1
  <2>4. QED
    BY <1>3, <2>1, <2>2, <2>3
<1>6. ASSUME NEW k \in 1 .. Len(q) - 1, k < i
      PROVE  (a \o b)[k] = q[k]
  BY <1>1, <1>2, <1>4, <1>6
<1>7. Cut(q, i) = a \o b
  BY DEF Cut, a, b
<1>8. ASSUME NEW k \in 1 .. Len(q) - 1
      PROVE  Cut(q, i)[k] = IF k < i THEN q[k] ELSE q[k + 1]
  <2>1. k \in Nat /\ (k < i \/ k >= i)
    BY <1>1
  <2>2. QED
    BY <1>1, <1>5, <1>6, <1>7, <2>1
<1>9. Cut(q, i) \in Seq(S) /\ Len(Cut(q, i)) = Len(q) - 1
  <2>1. (i - 1) + (Len(q) - i) = Len(q) - 1
    BY <1>1
  <2>2. QED
    BY <1>2, <1>3, <1>4, <1>7, <2>1
<1>10. QED
  BY <1>8, <1>9

LEMMA SettleType ==
  ASSUME NEW q \in Seq(Msg), NEW t \in Seq(Prompt), NEW b \in Seq(Reply),
         shown' \in Conv \cup {None}, Settle(q, t, b)
  PROVE  timers' \in Seq(Prompt) /\ queue' \in Seq(Msg) /\ bubbles' \in Seq(Reply)
<1>1. CASE ~Drains(q)
  BY <1>1 DEF Settle
<1>2. CASE Drains(q)
  <2>1. Head(q) \in Msg /\ Tail(q) \in Seq(Msg)
    BY <1>2, Popped DEF Drains
  <2>2. [msg |-> Head(q), conv |-> shown'] \in Prompt
    BY <2>1 DEF Prompt
  <2>3. Append(t, [msg |-> Head(q), conv |-> shown']) \in Seq(Prompt)
    BY <2>2
  <2>4. QED
    BY <1>2, <2>1, <2>3 DEF Settle, Shift
<1>3. QED
  BY <1>1, <1>2

\* What doSend does to the sockets.
LEMMA SendType ==
  ASSUME ClientType, NEW m \in Msg, NEW c \in Conv \cup {None}, Send(m, c)
  PROVE  proc' \in BOOLEAN /\ outbox' \in [Session -> Seq(Prompt)]
<1>1. [msg |-> m, conv |-> c] \in Prompt
  BY DEF Prompt
<1>2. outbox[ws] \in Seq(Prompt)
  BY DEF ClientType
<1>3. Append(outbox[ws], [msg |-> m, conv |-> c]) \in Seq(Prompt)
  BY <1>1, <1>2
<1>4. QED
  BY <1>3 DEF Send, ClientType

LEMMA OpenType ==
  ASSUME ClientType, NEW live, Open(live)
  PROVE  ready' \in [Session -> {"unused", "connecting", "open", "closing", "closed"}] /\ ws' \in Session
BY DEF Open, ClientType

\* The event that is handled next.
LEMMA NextEvent ==
  ASSUME SysInv, NEW s \in Session, heard[s] < Len(sent[s])
  PROVE  /\ heard[s] + 1 \in 1 .. Len(sent[s]) /\ sent[s][heard[s] + 1] \in Agents!Event
         /\ sent[s][heard[s] + 1].turn \in 1 .. MaxTurns
<1>1. sent[s] \in Seq(Agents!Event) /\ heard[s] \in Nat
  BY DEF SysInv, ClientType, Agents!TypeInv, Agents!TypeOK
<1>2. heard[s] + 1 \in 1 .. Len(sent[s])
  BY <1>1
<1>3. sent[s][heard[s] + 1] \in Agents!Event
  BY <1>1, <1>2
<1>4. QED
  BY <1>2, <1>3 DEF Agents!Event, Agents!Turn

LEMMA RepliesType ==
  ASSUME ClientType, NEW e \in Agents!Event, NEW b, b = RepliesAfter(e)
  PROVE  b \in Seq(Reply)
<1> USE SystemAssumption
<1>1. bubbles \in Seq(Reply) /\ e.turn \in 1 .. MaxTurns /\ e.turn \in 0 .. MaxTurns
  BY DEF ClientType, Agents!Event, Agents!Turn
<1>2. [turn |-> e.turn, text |-> {}, errs |-> {}, saved |-> 0] \in Reply
  BY <1>1 DEF Reply
<1>3. ASSUME NEW n PROVE WithText(n, e.turn) \in Seq(Reply)
  <2>1. \A i \in DOMAIN bubbles : bubbles[i] \in Reply
    BY <1>1
  <2>2. \A i \in DOMAIN bubbles : WithText(n, e.turn)[i] \in Reply
    BY <1>1, <2>1 DEF WithText, Reply
  <2>3. DOMAIN WithText(n, e.turn) = DOMAIN bubbles
    BY DEF WithText
  <2>4. WithText(n, e.turn) = [i \in DOMAIN bubbles |-> WithText(n, e.turn)[i]]
    BY DEF WithText
  <2>5. QED
    BY <1>1, <2>2, <2>3, <2>4, Mapped
<1>4. ASSUME NEW n PROVE WithId(n, e.turn) \in Seq(Reply)
  <2>1. \A i \in DOMAIN bubbles : bubbles[i] \in Reply
    BY <1>1
  <2>2. ASSUME NEW i \in DOMAIN bubbles PROVE WithId(n, e.turn)[i] \in Reply
    <3>1. /\ bubbles[i] \in Reply
          /\ \/ WithId(n, e.turn)[i] = bubbles[i]
             \/ WithId(n, e.turn)[i] = [bubbles[i] EXCEPT !.saved = e.turn]
      BY <2>1 DEF WithId
    <3>2. QED
      BY <1>1, <3>1 DEF Reply
  <2>3. DOMAIN WithId(n, e.turn) = DOMAIN bubbles
    BY DEF WithId
  <2>4. WithId(n, e.turn) = [i \in DOMAIN bubbles |-> WithId(n, e.turn)[i]]
    BY DEF WithId
  <2>5. QED
    BY <1>1, <2>2, <2>3, <2>4, Mapped
<1>5. Append(bubbles, [turn |-> e.turn, text |-> {}, errs |-> {}, saved |-> 0]) \in Seq(Reply)
  BY <1>1, <1>2
<1>6. ASSUME NEW n PROVE WithError(n, e.turn) \in Seq(Reply)
  <2>1. \A i \in DOMAIN bubbles : bubbles[i] \in Reply
    BY <1>1
  <2>2. \A i \in DOMAIN bubbles : WithError(n, e.turn)[i] \in Reply
    BY <1>1, <2>1 DEF WithError, Reply
  <2>3. DOMAIN WithError(n, e.turn) = DOMAIN bubbles
    BY DEF WithError
  <2>4. WithError(n, e.turn) = [i \in DOMAIN bubbles |-> WithError(n, e.turn)[i]]
    BY DEF WithError
  <2>5. QED
    BY <1>1, <2>2, <2>3, <2>4, Mapped
<1>7. QED
  BY <1>1, <1>3, <1>4, <1>5, <1>6 DEF RepliesAfter

LEMMA HandleType ==
  ASSUME ClientType, NEW e \in Agents!Event, Handle(e), heard' \in [Session -> Nat], UNCHANGED asked
  PROVE  ClientType'
<1> USE SystemAssumption
<1>1. Settle(queue, timers, RepliesAfter(e))
  BY DEF Handle
<1>2. shown' \in Conv \cup {None} /\ proc' \in BOOLEAN /\ bubble' \in 0 .. MaxTurns
  BY DEF Handle, BubbleAfter, ClientType, Agents!Event, Agents!Turn
<1>3. timers' \in Seq(Prompt) /\ queue' \in Seq(Msg) /\ bubbles' \in Seq(Reply)
  <2>1. RepliesAfter(e) \in Seq(Reply)
    BY RepliesType
  <2>2. QED
    BY <1>1, <1>2, <2>1, SettleType DEF ClientType
<1>4. QED
  BY <1>2, <1>3 DEF Handle, ClientType, socketVars

\* A callback that sends nothing and handles no event, or turns to another chat.
LEMMA CallbackType ==
  ASSUME ClientType, NEW q \in Seq(Msg), NEW b \in Seq(Reply), NEW t \in Seq(Prompt),
         shown' \in Conv \cup {None}, loaded' \in BOOLEAN, proc' \in BOOLEAN, conn' \in BOOLEAN,
         retry' \in BOOLEAN, UNCHANGED <<ws, bubble, heard, asked>>,
         ready' \in [Session -> {"unused", "connecting", "open", "closing", "closed"}],
         outbox' \in [Session -> Seq(Prompt)], chat' \in Chat,
         typedIn' \in Seq(Chat), Len(typedIn') <= MaxMsgs, Settle(q, t, b)
  PROVE  ClientType'
BY SettleType DEF ClientType

LEMMA PageType ==
  ASSUME ClientType, Page
  PROVE  ClientType'
<1>1. CASE TimerFires
  <2>1. Head(timers) \in Prompt /\ Tail(timers) \in Seq(Prompt)
    BY <1>1, Popped DEF TimerFires, ClientType
  <2>2. proc' \in BOOLEAN /\ outbox' \in [Session -> Seq(Prompt)]
    BY <1>1, <2>1, SendType DEF TimerFires, Prompt
  <2>3. QED
    BY <1>1, <2>1, <2>2, CallbackType DEF TimerFires, Page, ClientType, socketVars
<1>2. CASE Reconnect
  BY <1>2, OpenType DEF Reconnect, Page, ClientType
<1>3. ASSUME NEW s \in Session, OnClose(s) PROVE ClientType'
  BY <1>3, CallbackType DEF OnClose, Page, ClientType
<1>4. QED
  BY <1>1, <1>2, <1>3 DEF Page

LEMMA UserType ==
  ASSUME ClientType, User
  PROVE  ClientType'
<1> USE ClientAssumption
<1>1. CASE Type
  <2> DEFINE m == Len(typedIn) + 1
             waits == proc \/ ~conn
             q == IF waits THEN Append(queue, m) ELSE queue
  <2>1. m \in Msg /\ typedIn' = Append(typedIn, chat) /\ Settle(q, timers, bubbles)
    BY <1>1 DEF Type
  <2>2. typedIn' \in Seq(Chat) /\ Len(typedIn') <= MaxMsgs
    <3>1. typedIn \in Seq(Chat) /\ chat \in Chat
      BY DEF ClientType
    <3>2. QED
      BY <2>1, <3>1, Pushed DEF Msg
  <2>3. q \in Seq(Msg)
    BY <2>1, Pushed DEF ClientType
  <2>4. proc' \in BOOLEAN /\ outbox' \in [Session -> Seq(Prompt)]
    BY <1>1, <2>1, SendType DEF Type, ClientType
  <2>5. UNCHANGED <<shown, loaded, conn, socketVars, bubble, chat, heard, asked>>
    BY <1>1 DEF Type, User
  <2> HIDE DEF m, waits, q
  <2>6. QED
    BY <2>1, <2>2, <2>3, <2>4, <2>5, CallbackType DEF ClientType, socketVars
<1>2. ASSUME NEW i \in 1 .. MaxMsgs, CancelQueued(i) PROVE ClientType'
  <2>1. queue' = Cut(queue, i) /\ queue \in Seq(Msg) /\ i \in 1 .. Len(queue)
    BY <1>2 DEF CancelQueued, Cut, ClientType
  <2>2. queue' \in Seq(Msg)
    BY <2>1, CutOut
  <2>3. QED
    BY <1>2, <2>2 DEF CancelQueued, User, ClientType, socketVars
<1>turn. ASSUME NEW fresh \in BOOLEAN, Turns(fresh) PROVE chat' \in Chat
  BY <1>turn DEF Turns, ClientType, Chat
<1>empty. <<>> \in Seq(Reply)
  OBVIOUS
<1>3. CASE NewChat
  <2>1. /\ chat' \in Chat /\ shown' \in Conv \cup {None} /\ loaded' \in BOOLEAN
        /\ Settle(queue, timers, <<>>)
        /\ UNCHANGED <<proc, conn, socketVars, bubble, outbox, typedIn, heard, asked>>
    BY <1>3, <1>turn DEF NewChat, User, ClientType
  <2>2. QED
    BY <1>empty, <2>1, CallbackType DEF ClientType, socketVars
<1>4. ASSUME NEW c \in Conv, Select(c, rows[c] # <<>>) PROVE ClientType'
  <2>1. /\ chat' \in Chat /\ shown' \in Conv \cup {None} /\ loaded' \in BOOLEAN
        /\ Settle(queue, timers, <<>>)
        /\ UNCHANGED <<proc, conn, socketVars, bubble, outbox, typedIn, heard, asked>>
    BY <1>4, <1>turn DEF Select, User, ClientType
  <2>2. QED
    BY <1>empty, <2>1, CallbackType DEF ClientType, socketVars
<1>5. QED
  BY <1>1, <1>2, <1>3, <1>4 DEF User

LEMMA SysInit == Init => SysInv
<1> SUFFICES ASSUME Init PROVE SysInv
  OBVIOUS
<1> USE ClientAssumption, SystemAssumption
<1>1. Agents!TypeInv
  BY ServerStarts, Agents!TypeInit
<1>2. ClientType
  <2>1. \A S : <<>> \in Seq(S)
    OBVIOUS
  <2>2. Len(typedIn) = 0 /\ typedIn \in Seq(Chat)
    BY <2>1 DEF Init, ClientInit
  <2>3. outbox \in [Session -> Seq(Prompt)] /\ asked \in [1 .. MaxTurns -> 0 .. MaxMsgs]
    BY <2>1, 0 \in 0 .. MaxMsgs DEF Init, ClientInit
  <2>4. queue \in Seq(Msg) /\ timers \in Seq(Prompt) /\ bubbles \in Seq(Reply)
    BY <2>1 DEF Init, ClientInit
  <2>5. chat \in Chat
    BY DEF Init, ClientInit, Chat
  <2>6. /\ shown \in Conv \cup {None} /\ loaded \in BOOLEAN /\ proc \in BOOLEAN
        /\ conn \in BOOLEAN /\ retry \in BOOLEAN /\ ws \in Session
        /\ bubble \in 0 .. MaxTurns /\ heard \in [Session -> Nat]
    BY 0 \in 0 .. MaxTurns, 0 \in Nat DEF Init, ClientInit
  <2>7. ready \in [Session -> {"unused", "connecting", "open", "closing", "closed"}]
    BY DEF Init, ClientInit
  <2>8. QED
    BY <2>2, <2>3, <2>4, <2>5, <2>6, <2>7 DEF ClientType
<1>3. ASSUME NEW s \in Session PROVE heard[s] <= Len(sent[s])
  <2>1. heard[s] = 0 /\ Len(sent[s]) \in Nat
    BY <1>1 DEF Init, Agents!TypeInv, Agents!TypeOK
  <2>2. QED
    BY <2>1
<1>4. QED
  BY <1>1, <1>2, <1>3 DEF SysInv

LEMMA SysStep == SysInv /\ [Next]_sysVars => SysInv'
<1> SUFFICES ASSUME SysInv, [Next]_sysVars PROVE SysInv'
  OBVIOUS
<1> USE ClientAssumption, SystemAssumption
<1>server. Agents!TypeInv'
  BY ServerKeeps
<1>type. ClientType
  BY DEF SysInv
<1>heard. ASSUME UNCHANGED heard PROVE \A s \in Session : heard'[s] <= Len(sent'[s])
  <2>1. ASSUME NEW s \in Session PROVE heard'[s] <= Len(sent'[s])
    <3>1. Len(sent[s]) \in Nat /\ Len(sent'[s]) \in Nat
      BY <1>server DEF SysInv, Agents!TypeInv, Agents!TypeOK
    <3>2. heard'[s] = heard[s] /\ heard[s] \in Nat /\ heard[s] <= Len(sent[s])
      BY <1>heard DEF SysInv, ClientType
    <3>3. Len(sent'[s]) >= Len(sent[s])
      BY ServerKeeps
    <3>4. QED
      BY <3>1, <3>2, <3>3
  <2>2. QED
    BY <2>1
<1>1. ASSUME NEW s \in Session, SocketOpens(s) PROVE SysInv'
  <2>1. ClientType'
    BY <1>1, <1>type, CallbackType DEF SocketOpens, OnOpen, ClientType
  <2>2. QED
    BY <1>1, <1>server, <1>heard, <2>1 DEF SocketOpens, SysInv
<1>2. ASSUME NEW s \in Session, ServerReceives(s) PROVE SysInv'
  <2>1. outbox[s] \in Seq(Prompt) /\ outbox[s] # <<>>
    BY <1>2, <1>type DEF ServerReceives, ClientType
  <2>2. Head(outbox[s]).msg \in 0 .. MaxMsgs /\ Tail(outbox[s]) \in Seq(Prompt)
    <3>1. Head(outbox[s]) \in Prompt /\ Tail(outbox[s]) \in Seq(Prompt)
      BY <2>1, Popped
    <3>2. QED
      BY <3>1 DEF Prompt, Msg
  <2>3. outbox' \in [Session -> Seq(Prompt)] /\ asked' \in [1 .. MaxTurns -> 0 .. MaxMsgs]
    BY <1>2, <1>type, <2>2 DEF ServerReceives, ClientType
  <2>4. ClientType'
    BY <1>2, <1>type, <2>3 DEF ServerReceives, ClientType, socketVars
  <2>5. QED
    BY <1>2, <1>server, <1>heard, <2>4 DEF ServerReceives, SysInv
<1>3. ASSUME NEW s \in Session, ServerRuns(s) \/ ServerHangsUp(s) PROVE SysInv'
  <2>1. UNCHANGED <<clientVars, heard, asked>>
    BY <1>3 DEF ServerRuns, ServerHangsUp
  <2>2. ClientType'
    BY <1>type, <2>1 DEF clientVars, socketVars, ClientType
  <2>3. QED
    BY <1>server, <1>heard, <2>1, <2>2 DEF SysInv
<1>4. ASSUME NEW s \in Session, Deliver(s) PROVE SysInv'
  <2> DEFINE e == sent[s][heard[s] + 1]
  <2>1. e \in Agents!Event /\ heard[s] + 1 \in 1 .. Len(sent[s]) /\ Handle(e)
    BY <1>4, NextEvent DEF Deliver
  <2>2. heard' = [heard EXCEPT ![s] = heard[s] + 1] /\ heard' \in [Session -> Nat]
    BY <1>4, <1>type DEF Deliver, ClientType
  <2>3. ClientType'
    BY <1>4, <1>type, <2>1, <2>2, HandleType DEF Deliver
  <2>4. \A z \in Session : heard'[z] <= Len(sent'[z])
    BY <1>4, <2>1, <2>2 DEF Deliver, serverVars, SysInv
  <2>5. QED
    BY <1>server, <2>3, <2>4 DEF SysInv
<1>5. ASSUME Page PROVE SysInv'
  BY <1>5, <1>type, <1>server, <1>heard, PageType DEF Page, SysInv
<1>6. ASSUME User PROVE SysInv'
  BY <1>6, <1>type, <1>server, <1>heard, UserType DEF User, SysInv
<1>7. ASSUME UserDeletes PROVE SysInv'
  <2>1. /\ chat' \in Chat /\ shown' \in Conv \cup {None}
        /\ Settle(queue, timers, bubbles)
        /\ UNCHANGED <<loaded, proc, conn, socketVars, bubble, outbox, typedIn, heard, asked>>
    BY <1>7, <1>type DEF UserDeletes, DeleteShown, Turns, Chat, ClientType
  <2>2. ClientType'
    BY <1>type, <2>1, CallbackType DEF ClientType, socketVars
  <2>3. QED
    BY <1>server, <1>heard, <2>1, <2>2 DEF SysInv
<1>8. ASSUME Elsewhere PROVE SysInv'
  BY <1>8, <1>type, <1>server, <1>heard DEF Elsewhere, SysInv, ClientType, clientVars, socketVars
<1>9. ASSUME Network PROVE SysInv'
  <2>1. CASE RefreshToken
    BY <1>9, <2>1, <1>type, <1>server, <1>heard, OpenType DEF Network, RefreshToken, SysInv, ClientType
  <2>2. ASSUME NEW s \in Session, Drop(s) PROVE SysInv'
    BY <1>9, <2>2, <1>type, <1>server, <1>heard DEF Network, Drop, SysInv, ClientType
  <2>3. QED
    BY <1>9, <2>1, <2>2 DEF Network
<1>10. CASE UNCHANGED sysVars
  BY <1>10, <1>type, <1>server, <1>heard DEF sysVars, clientVars, socketVars, SysInv, ClientType
<1>11. QED
  BY <1>1, <1>2, <1>3, <1>4, <1>5, <1>6, <1>7, <1>8, <1>9, <1>10 DEF Next

LEMMA Entries ==
  ASSUME NEW S, NEW q \in Seq(S)
  PROVE  Range(q) \subseteq S
BY DEF Range

\* Every reachable state of the tab, the sockets and the server is well-typed.
THEOREM TypeCorrect == Spec => []TypeOK
<1>1. SysInv => TypeOK
  <2> SUFFICES ASSUME SysInv PROVE TypeOK
    OBVIOUS
  <2>1. ClientType
    BY DEF SysInv
  <2>2. Server!TypeOK
    BY DEF SysInv, Agents!TypeInv, Agents!TypeOK, Server!TypeOK, Agents!Event, Server!Event,
           Agents!Turn, Server!Turn, Agents!Role, Server!Role, Agents!ConvState,
           Server!ConvState, Agents!CallState, Server!CallState
  <2>3. /\ Range(queue) \subseteq Msg /\ Range(typedIn) \subseteq Chat
        /\ Range(timers) \subseteq Prompt /\ Range(bubbles) \subseteq Reply
    BY <2>1, Entries DEF ClientType
  <2>4. \A s \in Session :
          heard[s] \in 0 .. Len(sent[s]) /\ Range(outbox[s]) \subseteq Prompt
    <3> SUFFICES ASSUME NEW s \in Session
                 PROVE  heard[s] \in 0 .. Len(sent[s]) /\ Range(outbox[s]) \subseteq Prompt
      OBVIOUS
    <3>1. /\ heard[s] \in Nat /\ heard[s] <= Len(sent[s]) /\ Len(sent[s]) \in Nat
          /\ outbox[s] \in Seq(Prompt)
      BY DEF SysInv, ClientType, Agents!TypeInv, Agents!TypeOK
    <3>2. QED
      BY <3>1, Entries
  <2>5. QED
    BY <2>1, <2>2, <2>3, <2>4 DEF TypeOK, ClientType, Prompt, Reply
<1>2. QED
  BY <1>1, SysInit, SysStep, PTL DEF Spec

\* The server of the system is an AgentSession, whatever its tab does: what is
\* proved of AgentSession holds of the system.
THEOREM ServerIsAgentSession == Spec => Agents!Spec
<1>1. Init => Agents!Init
  BY ServerStarts
<1>2. SysInv /\ [Next]_sysVars => [Agents!Next]_Agents!vars
  BY ServerNext
<1>3. QED
  BY <1>1, <1>2, SysInit, SysStep, PTL DEF Spec, Agents!Spec

-----------------------------------------------------------------------------
(* The replies on screen.  Of the sockets only the current one is open, and  *)
(* what it was sent has been handled from its first event on; so the turn    *)
(* whose model_request_start was handled last, with nothing since that ends  *)
(* it, is the one the open bubble belongs to.                                *)

OneSocket ==
  \A s \in Session :
    /\ ready[s] \in {"connecting", "open"} => s = ws
    /\ ready[s] \in {"unused", "connecting"} => heard[s] = 0

\* Of the first n events of s the j-th opened the turn that is still under way.
Opens(s, j, n) ==
  /\ sent[s][j].kind = "model_request_start"
  /\ \A i \in j + 1 .. n : sent[s][i].turn = sent[s][j].turn /\ sent[s][i].kind # "complete"

BubbleIsOpen ==
  \A s \in Session : ready[s] = "open" =>
    \A j \in 1 .. heard[s] : Opens(s, j, heard[s]) => bubble = sent[s][j].turn

OneTurn(b) == b.text \subseteq {b.turn} /\ b.saved \in {0, b.turn}

Replies == \A i \in DOMAIN bubbles : OneTurn(bubbles[i])

BubbleInv == OneSocket /\ BubbleIsOpen /\ Replies

LEMMA SocketsStep ==
  ASSUME ClientType, OneSocket, [Next]_sysVars
  PROVE  OneSocket'
<1>open. ASSUME NEW live, Open(live), UNCHANGED heard PROVE OneSocket'
  BY <1>open DEF Open, OneSocket, ClientType
<1>1. ASSUME NEW s \in Session, SocketOpens(s) PROVE OneSocket'
  BY <1>1 DEF SocketOpens, OnOpen, OneSocket, ClientType
<1>2. ASSUME NEW s \in Session, ServerReceives(s) \/ ServerRuns(s) \/ ServerHangsUp(s)
      PROVE  OneSocket'
  <2>1. UNCHANGED <<ready, ws, heard>>
    BY <1>2 DEF ServerReceives, ServerRuns, ServerHangsUp, clientVars, socketVars
  <2>2. QED
    BY <2>1 DEF OneSocket
<1>3. ASSUME NEW s \in Session, Deliver(s) PROVE OneSocket'
  <2>1. UNCHANGED <<ready, ws>> /\ ready[s] = "open" /\ heard' = [heard EXCEPT ![s] = @ + 1]
    BY <1>3 DEF Deliver, Handle, socketVars
  <2>2. QED
    BY <2>1 DEF OneSocket, ClientType
<1>4. ASSUME Page PROVE OneSocket'
  <2>1. CASE TimerFires
    BY <1>4, <2>1 DEF TimerFires, Page, OneSocket, socketVars
  <2>2. CASE Reconnect
    BY <1>4, <2>2, <1>open DEF Reconnect, Page
  <2>3. ASSUME NEW s \in Session, OnClose(s) PROVE OneSocket'
    BY <1>4, <2>3 DEF OnClose, Page, OneSocket, ClientType
  <2>4. QED
    BY <1>4, <2>1, <2>2, <2>3 DEF Page
<1>5. ASSUME User \/ UserDeletes \/ Elsewhere PROVE OneSocket'
  <2>1. UNCHANGED <<ready, ws, heard>>
    BY <1>5 DEF User, UserDeletes, Elsewhere, Type, CancelQueued, NewChat, Select, DeleteShown,
                clientVars, socketVars
  <2>2. QED
    BY <2>1 DEF OneSocket
<1>6. ASSUME Network PROVE OneSocket'
  <2>1. CASE RefreshToken
    BY <1>6, <2>1, <1>open DEF RefreshToken, Network
  <2>2. ASSUME NEW s \in Session, Drop(s) PROVE OneSocket'
    BY <1>6, <2>2 DEF Drop, Network, OneSocket, ClientType
  <2>3. QED
    BY <1>6, <2>1, <2>2 DEF Network
<1>7. CASE UNCHANGED sysVars
  BY <1>7 DEF sysVars, clientVars, socketVars, OneSocket
<1>8. QED
  BY <1>1, <1>2, <1>3, <1>4, <1>5, <1>6, <1>7 DEF Next

\* A step that handles no event.
LEMMA BubbleStays ==
  ASSUME SysInv, OneSocket, BubbleIsOpen, [Next]_sysVars, UNCHANGED <<bubble, heard>>,
         \A z \in Session : ready'[z] = "open" => ready[z] \in {"open", "connecting"}
  PROVE  BubbleIsOpen'
<1> SUFFICES ASSUME NEW s \in Session, ready'[s] = "open", NEW j \in 1 .. heard[s],
                    Opens(s, j, heard[s])'
             PROVE  bubble = sent'[s][j].turn
  BY DEF BubbleIsOpen
<1>1. heard[s] \in Nat /\ heard[s] <= Len(sent[s]) /\ heard'[s] = heard[s]
      /\ Len(sent[s]) \in Nat
  BY DEF SysInv, ClientType, Agents!TypeInv, Agents!TypeOK
<1>2. ready[s] = "open"
  BY <1>1 DEF OneSocket
<1>3. \A i \in 1 .. heard[s] : sent'[s][i] = sent[s][i]
  BY <1>1, ServerKeeps
<1>4. Opens(s, j, heard[s])
  BY <1>1, <1>3 DEF Opens
<1>5. QED
  BY <1>2, <1>3, <1>4 DEF BubbleIsOpen

\* The text, the tool calls and the id of a reply come while its own bubble is open.
Own == {"text_delta", "tool_call", "tool_result", "message_saved"}

LEMMA IntoItsBubble ==
  ASSUME SysInv, BubbleIsOpen, Agents!TurnsAreBracketed, NEW s \in Session,
         ready[s] = "open", heard[s] < Len(sent[s]),
         sent[s][heard[s] + 1].kind \in Own
  PROVE  bubble = sent[s][heard[s] + 1].turn
<1> DEFINE ev == sent[s]
           h == heard[s] + 1
<1>1. /\ h \in 1 .. Len(ev) /\ h - 1 = heard[s] /\ heard[s] \in Nat
      /\ \A i \in 1 .. Len(ev) : ev[i].turn \in Nat
  <2>1. ev \in Seq(Agents!Event) /\ heard[s] \in Nat
    BY DEF SysInv, ClientType, Agents!TypeInv, Agents!TypeOK
  <2>2. \A i \in 1 .. Len(ev) : ev[i] \in Agents!Event
    BY <2>1
  <2>3. h \in 1 .. Len(ev)
    BY NextEvent
  <2>4. QED
    BY <2>1, <2>2, <2>3 DEF Agents!Event, Agents!Turn
<1>2. \A i, j \in 1 .. Len(ev) : i < j =>
         /\ ev[i].turn <= ev[j].turn
         /\ ev[i].kind \in {"complete", "error"} => ev[i].turn < ev[j].turn
  BY DEF Agents!TurnsAreBracketed, Agents!Terminal
<1>3. ASSUME NEW k \in 1 .. Len(ev),
             ev[k].kind \in {"text_delta", "tool_call", "tool_result", "final_result"}
      PROVE  \E j \in 1 .. k - 1 : ev[j].kind = "model_request_start" /\ ev[j].turn = ev[k].turn
  BY <1>3 DEF Agents!TurnsAreBracketed
<1>4. ASSUME ev[h].kind = "message_saved"
      PROVE  \E k \in 1 .. h - 1 : ev[k].kind = "final_result" /\ ev[k].turn = ev[h].turn
  BY <1>1, <1>4 DEF Agents!TurnsAreBracketed
<1> HIDE DEF ev
<1>5. PICK j \in 1 .. h - 1 : ev[j].kind = "model_request_start" /\ ev[j].turn = ev[h].turn
  <2>1. CASE ev[h].kind \in {"text_delta", "tool_call", "tool_result"}
    BY <1>1, <1>3, <2>1
  <2>2. CASE ev[h].kind = "message_saved"
    <3>1. PICK k \in 1 .. h - 1 : ev[k].kind = "final_result" /\ ev[k].turn = ev[h].turn
      BY <1>4, <2>2
    <3>k. k \in 1 .. Len(ev)
      BY <1>1, <3>1
    <3>2. PICK j \in 1 .. k - 1 : ev[j].kind = "model_request_start" /\ ev[j].turn = ev[k].turn
      BY <1>3, <3>1, <3>k
    <3>3. QED
      BY <1>1, <3>1, <3>2
  <2>3. QED
    BY <2>1, <2>2 DEF ev, Own
<1>6. ASSUME NEW i \in j + 1 .. heard[s]
      PROVE  ev[i].turn = ev[j].turn /\ ev[i].kind # "complete"
  <2>1. /\ i \in 1 .. Len(ev) /\ j \in 1 .. Len(ev) /\ j < i /\ i < h
    BY <1>1, <1>5, <1>6
  <2>2. ev[j].turn <= ev[i].turn /\ ev[i].turn <= ev[h].turn
    BY <1>1, <1>2, <2>1
  <2>3. ev[i].kind = "complete" => ev[i].turn < ev[h].turn
    BY <1>1, <1>2, <2>1
  <2>4. QED
    BY <1>1, <1>5, <2>1, <2>2, <2>3
<1>7. j \in 1 .. heard[s] /\ Opens(s, j, heard[s])
  BY <1>1, <1>5, <1>6 DEF Opens, ev
<1>8. QED
  BY <1>5, <1>7 DEF BubbleIsOpen, ev

\* What a callback leaves of the replies.
LEMMA RepliesSettle ==
  ASSUME NEW q, NEW t, NEW b, \A i \in DOMAIN b : OneTurn(b[i]), Settle(q, t, b)
  PROVE  Replies'
BY DEF Settle, Replies, OneTurn

\* An event leaves every reply on screen with one turn.
LEMMA RepliesHandled ==
  ASSUME ClientType, NEW e \in Agents!Event, Replies,
         e.kind \in Own => bubble = e.turn
  PROVE  \A i \in DOMAIN RepliesAfter(e) : OneTurn(RepliesAfter(e)[i])
<1> USE SystemAssumption
<1>1. bubbles \in Seq(Reply) /\ e.turn \in 1 .. MaxTurns
  BY DEF ClientType, Agents!Event, Agents!Turn
<1>2. CASE e.kind = "model_request_start"
  <2> DEFINE fresh == [turn |-> e.turn, text |-> {}, errs |-> {}, saved |-> 0]
  <2>1. RepliesAfter(e) = Append(bubbles, fresh) /\ OneTurn(fresh)
    BY <1>2 DEF RepliesAfter, OneTurn
  <2>2. fresh \in Reply
    BY <1>1 DEF Reply
  <2> HIDE DEF fresh
  <2>3. /\ DOMAIN Append(bubbles, fresh) = 1 .. Len(bubbles) + 1
        /\ DOMAIN bubbles = 1 .. Len(bubbles) /\ Len(bubbles) \in Nat
        /\ \A i \in 1 .. Len(bubbles) : Append(bubbles, fresh)[i] = bubbles[i]
        /\ Append(bubbles, fresh)[Len(bubbles) + 1] = fresh
    BY <1>1, <2>2
  <2>4. \A i \in 1 .. Len(bubbles) + 1 : i \in 1 .. Len(bubbles) \/ i = Len(bubbles) + 1
    BY <2>3
  <2>5. ASSUME NEW i \in 1 .. Len(bubbles) + 1 PROVE OneTurn(Append(bubbles, fresh)[i])
    BY <2>1, <2>3, <2>4 DEF Replies
  <2>6. QED
    BY <2>1, <2>3, <2>5
<1>3. CASE e.kind \in {"text_delta", "tool_call", "tool_result"}
  <2>1. RepliesAfter(e) = WithText(e.turn, e.turn)
    BY <1>3 DEF RepliesAfter, Own
  <2>2. ASSUME NEW i \in DOMAIN bubbles PROVE OneTurn(WithText(e.turn, e.turn)[i])
    <3>1. bubbles[i] \in Reply /\ OneTurn(bubbles[i])
      BY <1>1 DEF Replies
    <3>2. \/ WithText(e.turn, e.turn)[i] = bubbles[i]
          \/ /\ bubbles[i].turn = e.turn
             /\ WithText(e.turn, e.turn)[i] = [bubbles[i] EXCEPT !.text = @ \cup {e.turn}]
      BY DEF WithText, IsBubble
    <3>3. QED
      BY <3>1, <3>2 DEF OneTurn, Reply
  <2>3. DOMAIN WithText(e.turn, e.turn) = DOMAIN bubbles
    BY DEF WithText
  <2>4. QED
    BY <2>1, <2>2, <2>3
<1>4. CASE e.kind = "message_saved"
  <2>1. RepliesAfter(e) = WithId(e.turn, e.turn)
    BY <1>1, <1>4 DEF RepliesAfter, Own
  <2>2. ASSUME NEW i \in DOMAIN bubbles PROVE OneTurn(WithId(e.turn, e.turn)[i])
    <3>1. bubbles[i] \in Reply /\ OneTurn(bubbles[i])
      BY <1>1 DEF Replies
    <3>2. \/ WithId(e.turn, e.turn)[i] = bubbles[i]
          \/ /\ bubbles[i].turn = e.turn
             /\ WithId(e.turn, e.turn)[i] = [bubbles[i] EXCEPT !.saved = e.turn]
      BY DEF WithId, IsBubble
    <3>3. QED
      BY <3>1, <3>2 DEF OneTurn, Reply
  <2>3. DOMAIN WithId(e.turn, e.turn) = DOMAIN bubbles
    BY DEF WithId
  <2>4. QED
    BY <2>1, <2>2, <2>3
<1>5. CASE e.kind = "error"
  <2>1. RepliesAfter(e) = WithError(bubble, e.turn)
    BY <1>5 DEF RepliesAfter
  <2>2. ASSUME NEW i \in DOMAIN bubbles PROVE OneTurn(WithError(bubble, e.turn)[i])
    <3>1. bubbles[i] \in Reply /\ OneTurn(bubbles[i])
      BY <1>1 DEF Replies
    <3>2. \/ WithError(bubble, e.turn)[i] = bubbles[i]
          \/ WithError(bubble, e.turn)[i] = [bubbles[i] EXCEPT !.errs = @ \cup {e.turn}]
      BY DEF WithError
    <3>3. QED
      BY <3>1, <3>2 DEF OneTurn, Reply
  <2>3. DOMAIN WithError(bubble, e.turn) = DOMAIN bubbles
    BY DEF WithError
  <2>4. QED
    BY <2>1, <2>2, <2>3
<1>6. CASE e.kind \notin Own \cup {"model_request_start", "error"}
  BY <1>6 DEF RepliesAfter, Replies, Own
<1>7. QED
  BY <1>2, <1>3, <1>4, <1>5, <1>6 DEF Own

LEMMA BubbleHandled ==
  ASSUME SysInv, OneSocket, BubbleIsOpen, NEW s \in Session, Deliver(s)
  PROVE  BubbleIsOpen'
<1> DEFINE h == heard[s] + 1
           e == sent[s][h]
<1>1. /\ ready[s] = "open" /\ UNCHANGED <<ready, sent>> /\ heard[s] \in Nat
      /\ heard' = [heard EXCEPT ![s] = h] /\ heard'[s] = h /\ bubble' = BubbleAfter(e)
  BY DEF Deliver, Handle, socketVars, serverVars, SysInv, ClientType
<1> SUFFICES ASSUME NEW z \in Session, ready'[z] = "open", NEW j \in 1 .. heard'[z],
                    Opens(z, j, heard[z])'
             PROVE  bubble' = sent'[z][j].turn
  BY DEF BubbleIsOpen
<1>2. z = s
  BY <1>1 DEF OneSocket
<1>3. /\ j \in 1 .. h /\ sent[s][j].kind = "model_request_start"
      /\ \A i \in j + 1 .. h : sent[s][i].turn = sent[s][j].turn /\ sent[s][i].kind # "complete"
  BY <1>1, <1>2 DEF Opens
<1>4. CASE j = h
  BY <1>1, <1>2, <1>3, <1>4 DEF BubbleAfter
<1>5. CASE j # h
  <2>1. j \in 1 .. heard[s] /\ h \in j + 1 .. h /\ \A i \in j + 1 .. heard[s] : i \in j + 1 .. h
    BY <1>1, <1>3, <1>5
  <2>2. Opens(s, j, heard[s])
    BY <1>3, <2>1 DEF Opens
  <2>3. bubble = sent[s][j].turn /\ e.turn = sent[s][j].turn /\ e.kind # "complete"
    BY <1>1, <1>3, <2>1, <2>2 DEF BubbleIsOpen
  <2>4. QED
    BY <1>1, <1>2, <2>3 DEF BubbleAfter
<1>6. QED
  BY <1>4, <1>5

LEMMA BubbleStep ==
  ASSUME SysInv, BubbleInv, Agents!TurnsAreBracketed, [Next]_sysVars
  PROVE  BubbleInv'
<1> DEFINE Opened == \A z \in Session : ready'[z] = "open" => ready[z] \in {"open", "connecting"}
<1>1. SysInv' /\ OneSocket'
  BY SysStep, SocketsStep DEF SysInv, BubbleInv
<1>quiet. ASSUME UNCHANGED <<bubble, heard>>, Opened, Replies' PROVE BubbleInv'
  BY <1>1, <1>quiet, BubbleStays DEF BubbleInv
<1>settle. ASSUME NEW q, NEW t, Settle(q, t, bubbles) \/ Settle(q, t, <<>>) PROVE Replies'
  BY <1>settle, RepliesSettle DEF BubbleInv, Replies
<1>2. ASSUME NEW s \in Session, SocketOpens(s) PROVE BubbleInv'
  <2>1. UNCHANGED <<bubble, heard>> /\ Opened /\ Settle(queue, timers, bubbles)
    BY <1>2 DEF SocketOpens, OnOpen, SysInv, ClientType
  <2>2. QED
    BY <2>1, <1>quiet, <1>settle
<1>3. ASSUME NEW s \in Session, Deliver(s) PROVE BubbleInv'
  <2> DEFINE e == sent[s][heard[s] + 1]
  <2>1. e \in Agents!Event /\ ready[s] = "open" /\ heard[s] < Len(sent[s]) /\ Handle(e)
    BY <1>3, NextEvent DEF Deliver
  <2>2. e.kind \in Own => bubble = e.turn
    BY <2>1, IntoItsBubble DEF BubbleInv
  <2>3. Settle(queue, timers, RepliesAfter(e))
    BY <2>1 DEF Handle
  <2> HIDE DEF e
  <2>4. \A i \in DOMAIN RepliesAfter(e) : OneTurn(RepliesAfter(e)[i])
    BY <2>1, <2>2, RepliesHandled DEF SysInv, BubbleInv
  <2>5. Replies'
    BY <2>3, <2>4, RepliesSettle
  <2>6. QED
    BY <1>1, <1>3, <2>5, BubbleHandled DEF BubbleInv
<1>4. ASSUME NEW s \in Session, ServerReceives(s) \/ ServerRuns(s) \/ ServerHangsUp(s)
      PROVE  BubbleInv'
  <2>1. UNCHANGED <<bubble, heard, ready, bubbles>>
    BY <1>4 DEF ServerReceives, ServerRuns, ServerHangsUp, clientVars, socketVars
  <2>2. Replies'
    BY <2>1 DEF Replies, BubbleInv
  <2>3. QED
    BY <2>1, <2>2, <1>quiet
<1>5. ASSUME Page PROVE BubbleInv'
  <2>1. UNCHANGED <<bubble, heard>>
    BY <1>5 DEF Page, TimerFires, Reconnect, OnClose
  <2>2. Opened
    BY <1>5 DEF Page, TimerFires, Reconnect, OnClose, Open, socketVars, SysInv, ClientType
  <2>3. Replies'
    <3>1. CASE TimerFires
      BY <3>1, <1>settle DEF TimerFires
    <3>2. CASE Reconnect
      BY <3>2 DEF Reconnect, Replies, BubbleInv
    <3>3. ASSUME NEW s \in Session, OnClose(s) PROVE Replies'
      BY <3>3, <1>settle DEF OnClose
    <3>4. QED
      BY <1>5, <3>1, <3>2, <3>3 DEF Page
  <2>4. QED
    BY <2>1, <2>2, <2>3, <1>quiet
<1>6. ASSUME User \/ UserDeletes PROVE BubbleInv'
  <2>1. UNCHANGED <<bubble, heard, ready>>
    BY <1>6 DEF User, UserDeletes, Type, CancelQueued, NewChat, Select, DeleteShown, socketVars
  <2>2. Replies'
    <3>1. ASSUME NEW i \in 1 .. MaxMsgs, CancelQueued(i) PROVE Replies'
      BY <3>1 DEF CancelQueued, Replies, BubbleInv
    <3>2. CASE Type
      BY <3>2, <1>settle DEF Type
    <3>3. CASE NewChat
      BY <3>3, <1>settle DEF NewChat
    <3>4. ASSUME NEW c \in Conv, Select(c, rows[c] # <<>>) PROVE Replies'
      BY <3>4, <1>settle DEF Select
    <3>5. CASE DeleteShown
      BY <3>5, <1>settle DEF DeleteShown
    <3>6. QED
      BY <1>6, <3>1, <3>2, <3>3, <3>4, <3>5 DEF User, UserDeletes
  <2>3. QED
    BY <2>1, <2>2, <1>quiet
<1>7. ASSUME Elsewhere \/ Network PROVE BubbleInv'
  <2>1. UNCHANGED <<bubble, heard, bubbles>>
    BY <1>7 DEF Elsewhere, Network, RefreshToken, Drop, clientVars, socketVars
  <2>2. Opened
    BY <1>7 DEF Elsewhere, Network, RefreshToken, Drop, Open, clientVars, socketVars, SysInv, ClientType
  <2>3. Replies'
    BY <2>1 DEF Replies, BubbleInv
  <2>4. QED
    BY <2>1, <2>2, <2>3, <1>quiet
<1>8. CASE UNCHANGED sysVars
  <2>1. UNCHANGED <<bubble, heard, ready, bubbles>>
    BY <1>8 DEF sysVars, clientVars, socketVars
  <2>2. Replies'
    BY <2>1 DEF Replies, BubbleInv
  <2>3. QED
    BY <2>1, <2>2, <1>quiet
<1>9. QED
  BY <1>2, <1>3, <1>4, <1>5, <1>6, <1>7, <1>8 DEF Next

LEMMA BubbleInit == Init => BubbleInv
<1> SUFFICES ASSUME Init PROVE BubbleInv
  OBVIOUS
<1>1. OneSocket
  BY DEF Init, ClientInit, OneSocket
<1>2. BubbleIsOpen
  BY DEF Init, ClientInit, BubbleIsOpen
<1>3. Replies
  BY DEF Init, ClientInit, Replies
<1>4. QED
  BY <1>1, <1>2, <1>3 DEF BubbleInv

-----------------------------------------------------------------------------
(* The texts of errors.  The ref names a bubble whose turn the tab saw begin  *)
(* and not complete.  Where the error of another turn went into it, the tab   *)
(* saw both on one connection, that turn after its own, or its own on a       *)
(* connection that is gone: it will see neither that turn begin nor its own   *)
(* complete.                                                                  *)

\* The i-th event that the tab handled on s is of this kind and turn.
Here(s, i, k, t) == i \in 1 .. heard[s] /\ sent[s][i].kind = k /\ sent[s][i].turn = t

RefIsOpen ==
  bubble # 0 => Handled("model_request_start", bubble) /\ ~Handled("complete", bubble)

Never(t, u) == ~Handled("complete", t) /\ ~Handled("model_request_start", u)

Strayed(t, u) ==
  \E s, z \in Session : \E i \in 1 .. heard[z], j \in 1 .. heard[s] :
    /\ Here(z, i, "model_request_start", t) /\ Here(s, j, "error", u)
    /\ z = s => i < j
    /\ z # s => ready[z] \in {"closing", "closed"}

Accounted(b) == \A u \in b.errs \ {b.turn} : Strayed(b.turn, u) /\ Never(b.turn, u)

Errors == \A i \in DOMAIN bubbles : Accounted(bubbles[i])

ErrorInv == RefIsOpen /\ Errors

LEMMA HandledHere ==
  ASSUME NEW k, NEW t
  PROVE  Handled(k, t) <=> \E s \in Session : \E i \in 1 .. heard[s] : Here(s, i, k, t)
BY DEF Handled, Here

\* What TurnsAreBracketed says of the order of two events.
LEMMA InOrder ==
  ASSUME SysInv, Agents!TurnsAreBracketed, NEW s \in Session,
         NEW i \in 1 .. Len(sent[s]), NEW j \in 1 .. Len(sent[s]), i < j
  PROVE  /\ sent[s][i].turn \in Nat /\ sent[s][j].turn \in Nat
         /\ sent[s][i].turn <= sent[s][j].turn
         /\ sent[s][i].kind \in {"complete", "error"} => sent[s][i].turn < sent[s][j].turn
<1>1. sent[s] \in Seq(Agents!Event)
  BY DEF SysInv, Agents!TypeInv, Agents!TypeOK
<1>2. sent[s][i] \in Agents!Event /\ sent[s][j] \in Agents!Event
  BY <1>1
<1>3. sent[s][i].turn \in Nat /\ sent[s][j].turn \in Nat
  BY <1>2 DEF Agents!Event, Agents!Turn
<1>4. QED
  BY <1>3 DEF Agents!TurnsAreBracketed, Agents!Terminal

\* A step that handles no event leaves what was handled as it was.
LEMMA HandledStays ==
  ASSUME SysInv, [Next]_sysVars, UNCHANGED heard
  PROVE  /\ \A s, i, k, t : s \in Session => (Here(s, i, k, t)' <=> Here(s, i, k, t))
         /\ \A k, t : Handled(k, t)' <=> Handled(k, t)
<1>1. ASSUME NEW s \in Session, NEW i, NEW k, NEW t PROVE Here(s, i, k, t)' <=> Here(s, i, k, t)
  <2>1. heard[s] \in Nat /\ heard[s] <= Len(sent[s]) /\ Len(sent[s]) \in Nat
    BY DEF SysInv, ClientType, Agents!TypeInv, Agents!TypeOK
  <2>2. \A m \in 1 .. heard[s] : sent'[s][m] = sent[s][m]
    BY <2>1, ServerKeeps
  <2>3. heard'[s] = heard[s]
    OBVIOUS
  <2>4. QED
    BY <2>2, <2>3 DEF Here
<1>2. ASSUME NEW k, NEW t PROVE Handled(k, t)' <=> Handled(k, t)
  <2>1. Handled(k, t)' <=> \E s \in Session : \E i \in 1 .. heard[s] : Here(s, i, k, t)'
    BY DEF Handled, Here
  <2>2. QED
    BY <1>1, <2>1, HandledHere
<1>3. QED
  BY <1>1, <1>2

\* The event that is handled, the h-th of s and of kind p and turn n.
Takes(s, h, p, n) ==
  /\ Deliver(s) /\ h = heard[s] + 1
  /\ p = sent[s][h].kind /\ n = sent[s][h].turn

LEMMA TakesOne ==
  ASSUME SysInv, NEW s \in Session, NEW h, NEW p, NEW n, Takes(s, h, p, n)
  PROVE  /\ h \in 1 .. Len(sent[s]) /\ h \in Nat /\ heard[s] \in Nat /\ heard[s] = h - 1
         /\ ready[s] = "open" /\ UNCHANGED <<ready, ws, sent>>
         /\ heard' = [heard EXCEPT ![s] = h]
         /\ \A x \in Session : heard[x] \in Nat /\ Len(sent[x]) \in Nat /\ heard[x] <= Len(sent[x])
<1>1. \A x \in Session : heard[x] \in Nat /\ Len(sent[x]) \in Nat /\ heard[x] <= Len(sent[x])
  BY DEF SysInv, ClientType, Agents!TypeInv, Agents!TypeOK
<1>2. heard[s] < Len(sent[s]) /\ h = heard[s] + 1
  BY DEF Takes, Deliver
<1>3. h \in 1 .. Len(sent[s]) /\ h \in Nat /\ heard[s] = h - 1
  BY <1>1, <1>2
<1>4. ready[s] = "open" /\ UNCHANGED <<ready, ws, sent>> /\ heard' = [heard EXCEPT ![s] = h]
  BY DEF Takes, Deliver, Handle, socketVars, serverVars
<1>5. QED
  BY <1>1, <1>3, <1>4

LEMMA HandledOneMore ==
  ASSUME SysInv, NEW s \in Session, NEW h, NEW p, NEW n, Takes(s, h, p, n), NEW k, NEW t
  PROVE  /\ \A z \in Session, i \in Nat :
              Here(z, i, k, t)' <=> Here(z, i, k, t) \/ (z = s /\ i = h /\ p = k /\ n = t)
         /\ Handled(k, t)' <=> Handled(k, t) \/ (p = k /\ n = t)
<1>1. /\ heard \in [Session -> Nat] /\ sent' = sent /\ h = heard[s] + 1
      /\ heard' = [heard EXCEPT ![s] = h] /\ h \in Nat /\ 1 <= h
      /\ p = sent[s][h].kind /\ n = sent[s][h].turn
  <2>1. h \in 1 .. Len(sent[s]) /\ h \in Nat /\ heard' = [heard EXCEPT ![s] = h] /\ sent' = sent
    BY TakesOne
  <2>2. heard \in [Session -> Nat]
    BY DEF SysInv, ClientType
  <2>3. h = heard[s] + 1 /\ p = sent[s][h].kind /\ n = sent[s][h].turn
    BY DEF Takes
  <2>4. QED
    BY <2>1, <2>2, <2>3
<1>2. ASSUME NEW z \in Session, NEW i \in Nat
      PROVE  Here(z, i, k, t)' <=> Here(z, i, k, t) \/ (z = s /\ i = h /\ p = k /\ n = t)
  <2>1. CASE z = s
    <3>1. heard'[z] = h /\ heard[z] \in Nat /\ heard[z] = h - 1
      BY <1>1, <2>1
    <3>2. i \in 1 .. h <=> i \in 1 .. heard[z] \/ i = h
      BY <1>1, <3>1
    <3>3. QED
      BY <1>1, <2>1, <3>1, <3>2 DEF Here
  <2>2. CASE z # s
    BY <1>1, <2>2 DEF Here
  <2>3. QED
    BY <2>1, <2>2
<1>3. Handled(k, t)' <=> \E z \in Session : \E i \in Nat : Here(z, i, k, t)'
  <2>1. heard' \in [Session -> Nat]
    BY <1>1
  <2>2. \A z \in Session : \A i \in 1 .. heard'[z] : i \in Nat
    BY <2>1
  <2>3. QED
    BY <2>2 DEF Handled, Here
<1>4. Handled(k, t) <=> \E z \in Session : \E i \in Nat : Here(z, i, k, t)
  <2>1. \A z \in Session : \A i \in 1 .. heard[z] : i \in Nat
    BY <1>1
  <2>2. QED
    BY <2>1 DEF Handled, Here
<1>5. ASSUME Handled(k, t)' PROVE Handled(k, t) \/ (p = k /\ n = t)
  BY <1>2, <1>3, <1>4, <1>5
<1>6. ASSUME Handled(k, t) PROVE Handled(k, t)'
  BY <1>2, <1>3, <1>4, <1>6
<1>7. ASSUME p = k, n = t PROVE Handled(k, t)'
  BY <1>1, <1>2, <1>3, <1>7
<1>8. Handled(k, t)' <=> Handled(k, t) \/ (p = k /\ n = t)
  BY <1>5, <1>6, <1>7
<1>9. QED
  BY <1>2, <1>8

LEMMA HereStays ==
  ASSUME SysInv, NEW s \in Session, NEW h, NEW p, NEW n, Takes(s, h, p, n),
         NEW z \in Session, NEW i \in Nat, NEW k, NEW t, Here(z, i, k, t)
  PROVE  Here(z, i, k, t)' /\ i \in 1 .. heard'[z]
<1>1. Here(z, i, k, t)'
  BY HandledOneMore
<1>2. QED
  BY <1>1 DEF Here

LEMMA HereNow ==
  ASSUME SysInv, NEW s \in Session, NEW h, NEW p, NEW n, Takes(s, h, p, n)
  PROVE  Here(s, h, p, n)' /\ h \in 1 .. heard'[s]
<1>1. h \in Nat
  BY TakesOne
<1>2. Here(s, h, p, n)'
  BY <1>1, HandledOneMore
<1>3. QED
  BY <1>2 DEF Here

\* It is of no turn that has ended, and was told of on this connection alone.
LEMMA AfterTheEnd ==
  ASSUME SysInv, Agents!TurnsAreBracketed, Agents!EventsApart, NEW s \in Session, NEW h, NEW p,
         NEW n, Takes(s, h, p, n), NEW z \in Session, NEW i, NEW k, Here(z, i, k, n)
  PROVE  z = s /\ i \in 1 .. h - 1 /\ i \in 1 .. Len(sent[s]) /\ k \notin {"complete", "error"}
<1>1. /\ h \in 1 .. Len(sent[s]) /\ h \in Nat /\ heard[s] = h - 1
      /\ \A x \in Session : heard[x] \in Nat /\ Len(sent[x]) \in Nat /\ heard[x] <= Len(sent[x])
      /\ p = sent[s][h].kind /\ n = sent[s][h].turn
  BY TakesOne DEF Takes
<1>2. i \in 1 .. Len(sent[z]) /\ sent[z][i].turn = n /\ sent[z][i].kind = k /\ i \in 1 .. heard[z]
  BY <1>1 DEF Here
<1>3. z = s
  BY <1>1, <1>2 DEF Agents!EventsApart
<1>4. i \in 1 .. h - 1 /\ i < h /\ i \in 1 .. Len(sent[s])
  BY <1>1, <1>2, <1>3
<1>5. /\ sent[s][i].turn \in Nat
      /\ sent[s][i].kind \in {"complete", "error"} => sent[s][i].turn < sent[s][h].turn
  BY <1>1, <1>4, InOrder
<1>6. k \notin {"complete", "error"}
  <2>1. sent[s][i].turn = n /\ sent[s][i].kind = k /\ sent[s][h].turn = n
    BY <1>1, <1>2, <1>3
  <2>2. QED
    BY <1>5, <2>1
<1>7. QED
  BY <1>3, <1>4, <1>6

\* The ref after an event.
LEMMA RefHandled ==
  ASSUME SysInv, Agents!TurnsAreBracketed, Agents!EventsApart, RefIsOpen, NEW s \in Session,
         NEW h, NEW p, NEW n, Takes(s, h, p, n)
  PROVE  RefIsOpen'
<1>1. bubble' = CASE p = "model_request_start" -> n
                  [] p = "complete"            -> 0
                  [] OTHER                     -> bubble
  BY DEF Takes, Deliver, Handle, BubbleAfter
<1>2. ASSUME NEW k, NEW t PROVE Handled(k, t)' <=> Handled(k, t) \/ (p = k /\ n = t)
  BY HandledOneMore
<1>3. CASE p = "model_request_start"
  <2>1. bubble' = n
    BY <1>1, <1>3
  <2>2. ~Handled("complete", n)
    BY AfterTheEnd, HandledHere
  <2>3. Handled("model_request_start", n)' /\ ~Handled("complete", n)'
    BY <1>2, <1>3, <2>2
  <2>4. QED
    BY <2>1, <2>3 DEF RefIsOpen, Handled
<1>4. CASE p = "complete"
  <2>1. bubble' = 0
    BY <1>1, <1>4
  <2>2. QED
    BY <2>1 DEF RefIsOpen
<1>5. CASE p \notin {"model_request_start", "complete"}
  <2>1. bubble' = bubble
    BY <1>1, <1>5
  <2>2. ASSUME NEW t, t = bubble, t # 0
        PROVE  Handled("model_request_start", t)' /\ ~Handled("complete", t)'
    BY <1>2, <1>5, <2>2 DEF RefIsOpen
  <2>3. QED
    BY <2>1, <2>2 DEF RefIsOpen, Handled
<1>6. QED
  BY <1>3, <1>4, <1>5

\* Where an error went astray, the tab sees neither turn again.
LEMMA StrayedHandled ==
  ASSUME SysInv, Agents!TurnsAreBracketed, Agents!EventsApart, NEW s \in Session, NEW h, NEW p,
         NEW n, Takes(s, h, p, n), NEW t, NEW u, t # u, Strayed(t, u), Never(t, u)
  PROVE  Strayed(t, u)' /\ Never(t, u)'
<1>1. PICK y \in Session, z \in Session :
        \E i \in 1 .. heard[z], j \in 1 .. heard[y] :
          /\ Here(z, i, "model_request_start", t) /\ Here(y, j, "error", u)
          /\ z = y => i < j
          /\ z # y => ready[z] \in {"closing", "closed"}
  BY DEF Strayed
<1>2. PICK i \in 1 .. heard[z], j \in 1 .. heard[y] :
        /\ Here(z, i, "model_request_start", t) /\ Here(y, j, "error", u)
        /\ z = y => i < j
        /\ z # y => ready[z] \in {"closing", "closed"}
  BY <1>1
<1>3. /\ ready[s] = "open" /\ ready' = ready /\ h \in 1 .. Len(sent[s]) /\ n = sent[s][h].turn
      /\ heard[s] = h - 1
      /\ \A x \in Session : heard[x] \in Nat /\ Len(sent[x]) \in Nat /\ heard[x] <= Len(sent[x])
  BY TakesOne DEF Takes
<1>4. Strayed(t, u)'
  <2>1. i \in Nat /\ j \in Nat
    BY <1>3
  <2>2. Here(z, i, "model_request_start", t)' /\ i \in 1 .. heard'[z]
    BY <1>2, <2>1, HereStays
  <2>3. Here(y, j, "error", u)' /\ j \in 1 .. heard'[y]
    BY <1>2, <2>1, HereStays
  <2>4. z # y => ready'[z] \in {"closing", "closed"}
    BY <1>2, <1>3
  <2>5. QED
    BY <1>2, <2>2, <2>3, <2>4 DEF Strayed
<1>5. n # t
  <2>1. SUFFICES ASSUME n = t PROVE FALSE
    OBVIOUS
  <2>2. z = s /\ i \in 1 .. Len(sent[s])
    BY <1>2, <2>1, AfterTheEnd
  <2>3. y = s
    BY <1>2, <1>3, <2>2
  <2>4. j \in 1 .. Len(sent[s]) /\ i < j /\ j < h
    BY <1>2, <1>3, <2>2, <2>3
  <2>5. sent[s][i].turn = t /\ sent[s][j].turn = u /\ sent[s][j].kind = "error"
    BY <1>2, <2>2, <2>3 DEF Here
  <2>6. t \in Nat /\ u \in Nat /\ t <= u
    BY <2>2, <2>4, <2>5, InOrder
  <2>7. sent[s][j].turn < sent[s][h].turn
    BY <1>3, <2>4, <2>5, InOrder
  <2>8. QED
    BY <1>3, <2>1, <2>5, <2>6, <2>7
<1>6. n # u
  BY <1>2, AfterTheEnd
<1>7. Never(t, u)'
  <2>1. ~Handled("complete", t)' /\ ~Handled("model_request_start", u)'
    BY <1>5, <1>6, HandledOneMore DEF Never
  <2>2. QED
    BY <2>1 DEF Never
<1>8. QED
  BY <1>4, <1>7

\* An error that goes to the bubble of another turn goes astray.
LEMMA GoesAstray ==
  ASSUME SysInv, Agents!TurnsAreBracketed, Agents!EventsApart, BubbleInv, RefIsOpen,
         NEW s \in Session, NEW h, NEW p, NEW n, Takes(s, h, p, n), p = "error",
         NEW t, t = bubble, t # 0, t # n
  PROVE  Strayed(t, n)' /\ Never(t, n)'
<1>1. /\ ready[s] = "open" /\ ready' = ready /\ h \in 1 .. Len(sent[s]) /\ n = sent[s][h].turn
      /\ h \in Nat /\ heard[s] = h - 1 /\ sent[s][h].kind = "error"
      /\ \A x \in Session : heard[x] \in Nat /\ Len(sent[x]) \in Nat /\ heard[x] <= Len(sent[x])
  BY TakesOne DEF Takes
<1>2. Handled("model_request_start", t) /\ ~Handled("complete", t)
  BY DEF RefIsOpen
<1>3. PICK z \in Session : \E i \in 1 .. heard[z] : Here(z, i, "model_request_start", t)
  BY <1>2, HandledHere
<1>4. PICK i \in 1 .. heard[z] : Here(z, i, "model_request_start", t)
  BY <1>3
<1>5. i \in Nat /\ heard[z] # 0
  BY <1>1
<1>6. /\ Here(s, h, "error", n)' /\ h \in 1 .. heard'[s]
      /\ Here(z, i, "model_request_start", t)' /\ i \in 1 .. heard'[z]
  BY <1>4, <1>5, HereNow, HereStays
<1>7. z = s => i < h
  BY <1>1
<1>8. z # s => ready'[z] \in {"closing", "closed"}
  <2>1. z # s => ready[z] \notin {"unused", "connecting", "open"}
    BY <1>1, <1>5 DEF BubbleInv, OneSocket
  <2>2. QED
    BY <1>1, <2>1 DEF SysInv, ClientType
<1>9. Strayed(t, n)'
  BY <1>6, <1>7, <1>8 DEF Strayed
<1>10. ~Handled("model_request_start", n)
  <2>1. SUFFICES ASSUME NEW y \in Session, NEW k, Here(y, k, "model_request_start", n)
                 PROVE  FALSE
    BY HandledHere
  <2>2. y = s /\ k \in 1 .. h - 1 /\ k \in 1 .. Len(sent[s])
    BY <2>1, AfterTheEnd
  <2>3. sent[s][k].kind = "model_request_start" /\ sent[s][k].turn = n
    BY <2>1, <2>2 DEF Here
  <2>4. ASSUME NEW m \in k + 1 .. h - 1
        PROVE  sent[s][m].turn = n /\ sent[s][m].kind # "complete"
    <3>1. m \in 1 .. Len(sent[s]) /\ k < m /\ m < h
      BY <1>1, <2>2, <2>4
    <3>2. sent[s][k].turn <= sent[s][m].turn /\ sent[s][m].turn \in Nat /\ sent[s][k].turn \in Nat
      BY <2>2, <3>1, InOrder
    <3>3. /\ sent[s][m].turn <= n /\ n \in Nat
          /\ sent[s][m].kind = "complete" => sent[s][m].turn < n
      BY <1>1, <3>1, InOrder
    <3>4. QED
      BY <2>3, <3>2, <3>3
  <2>5. Opens(s, k, heard[s])
    BY <1>1, <2>3, <2>4 DEF Opens
  <2>6. k \in 1 .. heard[s]
    BY <1>1, <2>2
  <2>7. QED
    BY <1>1, <2>3, <2>5, <2>6 DEF BubbleInv, BubbleIsOpen
<1>11. Never(t, n)'
  <2>1. ~Handled("complete", t)' /\ ~Handled("model_request_start", n)'
    BY <1>2, <1>10, HandledOneMore
  <2>2. QED
    BY <2>1 DEF Never
<1>12. QED
  BY <1>9, <1>11

\* A step that handles no event keeps the replies or drops them, leaves the ref,
\* and brings no connection back.
LEMMA QuietStep ==
  ASSUME SysInv, [Next]_sysVars, \A s \in Session : ~Deliver(s)
  PROVE  /\ UNCHANGED <<bubble, heard>> /\ bubbles' \in {bubbles, <<>>}
         /\ \A z \in Session : ready[z] \in {"closing", "closed"} => ready'[z] \in {"closing", "closed"}
<1> DEFINE Gone == \A z \in Session :
               ready[z] \in {"closing", "closed"} => ready'[z] \in {"closing", "closed"}
           Kept == bubbles' \in {bubbles, <<>>}
<1>open. ASSUME NEW live, Open(live) PROVE Gone
  BY <1>open DEF Open, SysInv, ClientType
<1>settle. ASSUME NEW q, NEW t, Settle(q, t, bubbles) \/ Settle(q, t, <<>>) PROVE Kept
  BY <1>settle DEF Settle
<1>1. ASSUME NEW s \in Session, SocketOpens(s) PROVE UNCHANGED <<bubble, heard>> /\ Kept /\ Gone
  BY <1>1, <1>settle DEF SocketOpens, OnOpen, SysInv, ClientType
<1>2. ASSUME NEW s \in Session, ServerReceives(s) \/ ServerRuns(s) \/ ServerHangsUp(s)
      PROVE  UNCHANGED <<bubble, heard, bubbles, ready>>
  BY <1>2 DEF ServerReceives, ServerRuns, ServerHangsUp, clientVars, socketVars
<1>3. ASSUME Page PROVE UNCHANGED <<bubble, heard>> /\ Kept /\ Gone
  <2>1. CASE TimerFires
    BY <1>3, <2>1, <1>settle DEF TimerFires, Page, socketVars
  <2>2. CASE Reconnect
    BY <1>3, <2>2, <1>open DEF Reconnect, Page
  <2>3. ASSUME NEW s \in Session, OnClose(s) PROVE UNCHANGED <<bubble, heard>> /\ Kept /\ Gone
    BY <1>3, <2>3, <1>settle DEF OnClose, Page, SysInv, ClientType
  <2>4. QED
    BY <1>3, <2>1, <2>2, <2>3 DEF Page
<1>4. ASSUME User \/ UserDeletes PROVE UNCHANGED <<bubble, heard, ready>> /\ Kept
  <2>1. UNCHANGED <<bubble, heard, ready>>
    BY <1>4 DEF User, UserDeletes, Type, CancelQueued, NewChat, Select, DeleteShown, socketVars
  <2>2. CASE Type
    BY <2>1, <2>2, <1>settle DEF Type
  <2>3. CASE \E i \in 1 .. MaxMsgs : CancelQueued(i)
    BY <2>1, <2>3 DEF CancelQueued
  <2>4. CASE NewChat
    BY <2>1, <2>4, <1>settle DEF NewChat
  <2>5. ASSUME NEW c \in Conv, Select(c, rows[c] # <<>>) PROVE Kept
    BY <2>5, <1>settle DEF Select
  <2>6. CASE DeleteShown
    BY <2>1, <2>6, <1>settle DEF DeleteShown
  <2>7. QED
    BY <1>4, <2>1, <2>2, <2>3, <2>4, <2>5, <2>6 DEF User, UserDeletes
<1>5. ASSUME Elsewhere PROVE UNCHANGED <<bubble, heard, bubbles, ready>>
  BY <1>5 DEF Elsewhere, clientVars, socketVars
<1>6. ASSUME Network PROVE UNCHANGED <<bubble, heard, bubbles>> /\ Gone
  <2>1. CASE RefreshToken
    BY <1>6, <2>1, <1>open DEF RefreshToken, Network
  <2>2. ASSUME NEW s \in Session, Drop(s) PROVE UNCHANGED <<bubble, heard, bubbles>> /\ Gone
    BY <1>6, <2>2 DEF Drop, Network, SysInv, ClientType
  <2>3. QED
    BY <1>6, <2>1, <2>2 DEF Network
<1>7. ASSUME UNCHANGED sysVars PROVE UNCHANGED <<bubble, heard, bubbles, ready>>
  BY <1>7 DEF sysVars, clientVars, socketVars
<1>8. (UNCHANGED ready => Gone) /\ (UNCHANGED bubbles => Kept)
  OBVIOUS
<1> DEFINE Quiet == UNCHANGED <<bubble, heard>> /\ Kept /\ Gone
<1>9. Page \/ User \/ UserDeletes \/ Elsewhere \/ Network \/ UNCHANGED sysVars => Quiet
  <2> HIDE DEF Gone, Kept
  <2>1. Page => Quiet
    BY <1>3
  <2>2. User \/ UserDeletes => Quiet
    BY <1>4, <1>8
  <2>3. Elsewhere => Quiet
    BY <1>5, <1>8
  <2>4. Network => Quiet
    BY <1>6, <1>8
  <2>5. UNCHANGED sysVars => Quiet
    BY <1>7, <1>8
  <2>6. QED
    BY <2>1, <2>2, <2>3, <2>4, <2>5
<1>10. ASSUME NEW s \in Session,
              SocketOpens(s) \/ ServerReceives(s) \/ ServerRuns(s) \/ ServerHangsUp(s)
       PROVE  Quiet
  <2> HIDE DEF Gone, Kept
  <2>1. QED
    BY <1>1, <1>2, <1>8, <1>10
<1> HIDE DEF Quiet
<1>11. Quiet
  BY <1>9, <1>10 DEF Next
<1>12. QED
  BY <1>11 DEF Quiet

LEMMA ErrorsQuiet ==
  ASSUME SysInv, ErrorInv, [Next]_sysVars, \A s \in Session : ~Deliver(s)
  PROVE  ErrorInv'
<1>1. /\ UNCHANGED <<bubble, heard>> /\ bubbles' \in {bubbles, <<>>}
      /\ \A z \in Session : ready[z] \in {"closing", "closed"} => ready'[z] \in {"closing", "closed"}
  BY QuietStep
<1>2. ASSUME NEW k, NEW t PROVE Handled(k, t)' <=> Handled(k, t)
  BY <1>1, HandledStays
<1>3. ASSUME NEW s \in Session, NEW i, NEW k, NEW t PROVE Here(s, i, k, t)' <=> Here(s, i, k, t)
  BY <1>1, HandledStays
<1>4. ASSUME NEW t, NEW u, Strayed(t, u), Never(t, u)
      PROVE  Strayed(t, u)' /\ Never(t, u)'
  <2>1. ~Handled("complete", t)' /\ ~Handled("model_request_start", u)'
    BY <1>2, <1>4 DEF Never
  <2>2. PICK s \in Session, z \in Session :
          \E i \in 1 .. heard[z], j \in 1 .. heard[s] :
            /\ Here(z, i, "model_request_start", t) /\ Here(s, j, "error", u)
            /\ z = s => i < j
            /\ z # s => ready[z] \in {"closing", "closed"}
    BY <1>4 DEF Strayed
  <2>3. PICK i \in 1 .. heard[z], j \in 1 .. heard[s] :
          /\ Here(z, i, "model_request_start", t) /\ Here(s, j, "error", u)
          /\ z = s => i < j
          /\ z # s => ready[z] \in {"closing", "closed"}
    BY <2>2
  <2>4. Here(z, i, "model_request_start", t)' /\ Here(s, j, "error", u)'
    BY <1>3, <2>3
  <2>5. z # s => ready'[z] \in {"closing", "closed"}
    BY <1>1, <2>3
  <2>6. i \in 1 .. heard'[z] /\ j \in 1 .. heard'[s]
    BY <1>1
  <2>7. Strayed(t, u)'
    BY <2>3, <2>4, <2>5, <2>6 DEF Strayed
  <2>8. QED
    BY <2>1, <2>7 DEF Never
<1>5. RefIsOpen'
  <2>1. ASSUME NEW t, t = bubble, t # 0
        PROVE  Handled("model_request_start", t)' /\ ~Handled("complete", t)'
    BY <1>2, <2>1 DEF ErrorInv, RefIsOpen
  <2>2. QED
    BY <1>1, <2>1 DEF RefIsOpen, Handled
<1>6. Errors'
  <2>1. CASE bubbles' = <<>>
    BY <2>1 DEF Errors
  <2>2. CASE bubbles' = bubbles
    <3>1. SUFFICES ASSUME NEW i \in DOMAIN bubbles', NEW u \in bubbles'[i].errs, NEW t,
                          t = bubbles'[i].turn, u # t
                   PROVE  Strayed(t, u)' /\ Never(t, u)'
      BY DEF Errors, Accounted
    <3>2. Strayed(t, u) /\ Never(t, u)
      BY <2>2, <3>1 DEF ErrorInv, Errors, Accounted
    <3>3. QED
      BY <1>4, <3>2
  <2>3. QED
    BY <1>1, <2>1, <2>2
<1>7. QED
  BY <1>5, <1>6 DEF ErrorInv

\* What an event leaves of the replies and the errors in them.
LEMMA ErrorsWritten ==
  ASSUME ClientType, NEW e \in Agents!Event, NEW b, b = RepliesAfter(e), NEW i \in DOMAIN b
  PROVE  \/ b[i].errs = {}
         \/ /\ i \in DOMAIN bubbles /\ b[i].turn = bubbles[i].turn
            /\ \/ b[i].errs = bubbles[i].errs
               \/ /\ e.kind = "error" /\ bubbles[i].turn = bubble
                  /\ b[i].errs = bubbles[i].errs \cup {e.turn}
<1>1. bubbles \in Seq(Reply)
  BY DEF ClientType
<1>2. CASE e.kind = "model_request_start"
  <2> DEFINE fresh == [turn |-> e.turn, text |-> {}, errs |-> {}, saved |-> 0]
  <2>1. b = Append(bubbles, fresh) /\ fresh.errs = {}
    BY <1>2 DEF RepliesAfter
  <2> HIDE DEF fresh
  <2>2. DOMAIN b = 1 .. Len(bubbles) + 1 /\ DOMAIN bubbles = 1 .. Len(bubbles) /\ Len(bubbles) \in Nat
    BY <1>1, <2>1
  <2>3. CASE i = Len(bubbles) + 1
    <3>1. b[i] = fresh
      BY <1>1, <2>1, <2>2, <2>3
    <3>2. QED
      BY <2>1, <3>1
  <2>4. CASE i # Len(bubbles) + 1
    <3>1. i \in 1 .. Len(bubbles)
      BY <2>2, <2>4
    <3>2. b[i] = bubbles[i]
      BY <1>1, <2>1, <2>2, <3>1
    <3>3. QED
      BY <2>2, <3>1, <3>2
  <2>5. QED
    BY <2>3, <2>4
<1>3. ASSUME e.kind # "model_request_start"
      PROVE  DOMAIN b = DOMAIN bubbles
  BY <1>3 DEF RepliesAfter, WithText, WithError, WithId
<1>4. \A m \in DOMAIN bubbles : bubbles[m] \in Reply
  BY <1>1
<1>5. CASE e.kind \in {"text_delta", "tool_call", "tool_result"}
  <2>1. b = WithText(bubble, e.turn) /\ bubbles[i] \in Reply /\ i \in DOMAIN bubbles
    BY <1>3, <1>4, <1>5 DEF RepliesAfter
  <2>2. \/ b[i] = bubbles[i]
        \/ b[i] = [bubbles[i] EXCEPT !.text = @ \cup {e.turn}]
    BY <2>1 DEF WithText
  <2>3. QED
    BY <2>1, <2>2 DEF Reply
<1>6. CASE e.kind = "message_saved"
  <2>1. PICK m : b = WithId(m, e.turn)
    BY <1>6 DEF RepliesAfter
  <2>2. bubbles[i] \in Reply /\ i \in DOMAIN bubbles
    BY <1>3, <1>4, <1>6
  <2>3. \/ b[i] = bubbles[i]
        \/ b[i] = [bubbles[i] EXCEPT !.saved = e.turn]
    BY <2>1, <2>2 DEF WithId
  <2>4. QED
    BY <2>2, <2>3 DEF Reply
<1>7. CASE e.kind = "error"
  <2>1. b = WithError(bubble, e.turn) /\ bubbles[i] \in Reply /\ i \in DOMAIN bubbles
    BY <1>3, <1>4, <1>7 DEF RepliesAfter
  <2>2. \/ b[i] = bubbles[i]
        \/ /\ bubbles[i].turn = bubble
           /\ b[i] = [bubbles[i] EXCEPT !.errs = @ \cup {e.turn}]
    BY <2>1 DEF WithError, IsBubble
  <2>3. QED
    BY <1>7, <2>1, <2>2 DEF Reply
<1>8. CASE e.kind \notin {"model_request_start", "text_delta", "tool_call", "tool_result",
                           "message_saved", "error"}
  <2>1. b = bubbles
    BY <1>8 DEF RepliesAfter
  <2>2. QED
    BY <2>1
<1>9. QED
  BY <1>2, <1>5, <1>6, <1>7, <1>8

LEMMA ErrorsHandled ==
  ASSUME SysInv, Agents!TurnsAreBracketed, Agents!EventsApart, BubbleInv, ErrorInv,
         NEW s \in Session, NEW h, NEW p, NEW n, Takes(s, h, p, n)
  PROVE  ErrorInv'
<1>1. RefIsOpen'
  BY RefHandled DEF ErrorInv
<1> DEFINE e == sent[s][h]
<1>2. /\ e \in Agents!Event /\ p = e.kind /\ n = e.turn
      /\ Settle(queue, timers, RepliesAfter(e))
  <2>1. e \in Agents!Event
    BY NextEvent DEF Takes, Deliver
  <2>2. Handle(e)
    BY DEF Takes, Deliver
  <2>3. QED
    BY <2>1, <2>2 DEF Handle, Takes
<1> HIDE DEF e
<1>3. bubbles' \in {RepliesAfter(e), <<>>}
  BY <1>2 DEF Settle
<1>4. CASE bubbles' = <<>>
  BY <1>1, <1>4 DEF ErrorInv, Errors
<1>5. CASE bubbles' = RepliesAfter(e)
  <2>1. SUFFICES ASSUME NEW i \in DOMAIN bubbles', NEW u \in bubbles'[i].errs, NEW t,
                        t = bubbles'[i].turn, u # t
                 PROVE  Strayed(t, u)' /\ Never(t, u)'
    BY <1>1 DEF ErrorInv, Errors, Accounted
  <2>2. /\ i \in DOMAIN bubbles /\ t = bubbles[i].turn
        /\ u \in bubbles[i].errs \/ (p = "error" /\ t = bubble /\ u = n)
    BY <1>2, <1>5, <2>1, ErrorsWritten DEF SysInv
  <2>3. CASE u \in bubbles[i].errs
    <3>1. Strayed(t, u) /\ Never(t, u)
      BY <2>1, <2>2, <2>3 DEF ErrorInv, Errors, Accounted
    <3>2. QED
      BY <2>1, <3>1, StrayedHandled
  <2>4. CASE p = "error" /\ t = bubble /\ u = n
    <3>1. t # 0
      <4>1. bubbles[i] \in Reply
        BY <2>2 DEF SysInv, ClientType
      <4>2. t \in 1 .. MaxTurns
        BY <2>2, <4>1 DEF Reply
      <4>3. QED
        BY <4>2
    <3>2. QED
      BY <2>1, <2>4, <3>1, GoesAstray DEF ErrorInv
  <2>5. QED
    BY <2>2, <2>3, <2>4
<1>6. QED
  BY <1>3, <1>4, <1>5

LEMMA ErrorStep ==
  ASSUME SysInv, Agents!TurnsAreBracketed, Agents!EventsApart, BubbleInv, ErrorInv, [Next]_sysVars
  PROVE  ErrorInv'
<1>1. ASSUME NEW s \in Session, Deliver(s) PROVE ErrorInv'
  <2>1. PICK h : h = heard[s] + 1
    OBVIOUS
  <2>2. PICK p, n : p = sent[s][h].kind /\ n = sent[s][h].turn
    OBVIOUS
  <2>3. Takes(s, h, p, n)
    BY <1>1, <2>1, <2>2 DEF Takes
  <2>4. QED
    BY <2>3, ErrorsHandled
<1>2. QED
  BY <1>1, ErrorsQuiet

LEMMA ErrorInit == Init => ErrorInv
BY DEF Init, ClientInit, ErrorInv, RefIsOpen, Errors

\* Whichever connections drop, whichever chat the user turns to and however late
\* an event comes, a reply on screen shows the text and the tool calls of one turn,
\* and is rated and shared by the id of that turn's.  The error of another turn
\* goes into it only where the tab never sees that turn begin a bubble, nor the
\* reply's own turn complete (use-chat.ts).
THEOREM RepliesHoldOneTurn == Spec => []BubbleHoldsOneTurn
<1>1. Spec => [](Agents!TurnsAreBracketed /\ Agents!EventsApart)
  <2>1. Agents!Spec => []Agents!TurnsAreBracketed
    BY Agents!TurnsStayBracketed, ClientAssumption, SystemAssumption
  <2>2. Agents!Spec => []Agents!EventsApart
    BY Agents!TurnsStayApart, ClientAssumption, SystemAssumption
  <2>3. QED
    BY <2>1, <2>2, ServerIsAgentSession, PTL
<1>2. SysInv /\ BubbleInv /\ Agents!TurnsAreBracketed /\ [Next]_sysVars => BubbleInv'
  BY BubbleStep
<1>3. SysInv /\ BubbleInv /\ ErrorInv /\ Agents!TurnsAreBracketed /\ Agents!EventsApart
        /\ [Next]_sysVars => ErrorInv'
  BY ErrorStep
<1>4. BubbleInv /\ ErrorInv => BubbleHoldsOneTurn
  BY DEF BubbleInv, Replies, OneTurn, ErrorInv, Errors, Accounted, Never, BubbleHoldsOneTurn
<1>5. QED
  BY <1>1, <1>2, <1>3, <1>4, BubbleInit, ErrorInit, SysInit, SysStep, PTL DEF Spec

-----------------------------------------------------------------------------
(* The prompts.  Of every prompt the queue, the timers, the sockets and the  *)
(* turns that were begun hold one between them, and hold none of a prompt    *)
(* that was not typed.                                                       *)

\* Where a sequence has one of the entries in M.
Hits(q, M) == {i \in 1 .. Len(q) : q[i] \in M}

Of(m) == {p \in Prompt : p.msg = m}

Alone(S) == \A x, y \in S : x = y

Queued(m)   == Hits(queue, {m}) # {}
Timed(m)    == Hits(timers, Of(m)) # {}
Written(m)  == \E s \in Session : Hits(outbox[s], Of(m)) # {}
Answered(m) == \E t \in 1 .. MaxTurns : asked[t] = m

\* The prompt is nowhere twice, where it waits to be sent; sent; or answered.
WaitsOnce(m) ==
  /\ Alone(Hits(queue, {m})) /\ Alone(Hits(timers, Of(m)))
  /\ ~(Queued(m) /\ Timed(m))

WrittenOnce(m) ==
  /\ \A s \in Session : Alone(Hits(outbox[s], Of(m)))
  /\ Alone({s \in Session : Hits(outbox[s], Of(m)) # {}})

AnsweredOnce(m) == Alone({t \in 1 .. MaxTurns : asked[t] = m})

Once(m) ==
  /\ WaitsOnce(m) /\ WrittenOnce(m) /\ AnsweredOnce(m)
  /\ Queued(m) \/ Timed(m) => ~Written(m) /\ ~Answered(m)
  /\ Written(m) => ~Answered(m)
  /\ m > Len(typedIn) => ~Queued(m) /\ ~Timed(m) /\ ~Written(m) /\ ~Answered(m)

Unbegun == \A t \in turns + 1 .. MaxTurns : asked[t] = 0

PromptInv == (\A m \in Msg : Once(m)) /\ Unbegun

\* A sequence gets one entry more at its end.
LEMMA HitsPushed ==
  ASSUME NEW S, NEW q \in Seq(S), NEW e \in S, NEW M
  PROVE  /\ Hits(Append(q, e), M) # {} <=> Hits(q, M) # {} \/ e \in M
         /\ (Alone(Hits(q, M)) /\ (e \in M => Hits(q, M) = {})) => Alone(Hits(Append(q, e), M))
<1> DEFINE r == Append(q, e)
           n == Len(q)
<1>1. /\ n \in Nat /\ Len(r) = n + 1 /\ r[n + 1] = e /\ \A i \in 1 .. n : r[i] = q[i]
  BY Pushed
<1> HIDE DEF r, n
<1>2. \A i \in 1 .. n + 1 : i \in 1 .. n \/ i = n + 1
  BY <1>1
<1>3. \A i \in 1 .. n : i \in 1 .. n + 1 /\ i # n + 1
  BY <1>1
<1>4. n + 1 \in 1 .. n + 1
  BY <1>1
<1>5. \A i : i \in Hits(r, M) <=> (i \in Hits(q, M) \/ (i = n + 1 /\ e \in M))
  <2>1. /\ Hits(r, M) = {i \in 1 .. n + 1 : r[i] \in M}
        /\ Hits(q, M) = {i \in 1 .. n : q[i] \in M}
    BY <1>1 DEF Hits, n
  <2>2. \A i \in 1 .. n : r[i] \in M <=> q[i] \in M
    BY <1>1
  <2>3. r[n + 1] \in M <=> e \in M
    BY <1>1
  <2>4. QED
    BY <1>2, <1>3, <1>4, <2>1, <2>2, <2>3
<1>6. QED
  BY <1>5 DEF Alone, r

\* A sequence gives away its first entry.
LEMMA HitsPopped ==
  ASSUME NEW S, NEW q \in Seq(S), q # <<>>, NEW M
  PROVE  /\ Hits(Tail(q), M) # {} => Hits(q, M) # {}
         /\ Head(q) \in M => Hits(q, M) # {}
         /\ Alone(Hits(q, M)) => /\ Alone(Hits(Tail(q), M))
                                 /\ Head(q) \in M => Hits(Tail(q), M) = {}
<1> DEFINE r == Tail(q)
           n == Len(q)
<1>1. /\ n \in Nat \ {0} /\ Len(r) = n - 1 /\ Head(q) = q[1]
      /\ \A i \in 1 .. n - 1 : r[i] = q[i + 1]
  BY Popped
<1> HIDE DEF r, n
<1>2. 1 \in 1 .. n /\ \A i \in 1 .. n - 1 : i + 1 \in 1 .. n /\ i + 1 # 1
  BY <1>1
<1>3. \A i \in Hits(r, M) : i \in 1 .. n - 1 /\ i + 1 \in Hits(q, M)
  BY <1>1, <1>2 DEF Hits, n
<1>4. Head(q) \in M => 1 \in Hits(q, M)
  BY <1>1, <1>2 DEF Hits, n
<1>5. \A i, j \in Hits(r, M) : i + 1 = j + 1 => i = j
  BY <1>1, <1>3
<1>6. \A i \in Hits(r, M) : i + 1 # 1
  BY <1>2, <1>3
<1>7. QED
  BY <1>3, <1>4, <1>5, <1>6 DEF Alone, r

\* A sequence loses one of its entries.
LEMMA HitsCut ==
  ASSUME NEW S, NEW q \in Seq(S), NEW i \in 1 .. Len(q), NEW M
  PROVE  /\ Hits(Cut(q, i), M) # {} => Hits(q, M) # {}
         /\ Alone(Hits(q, M)) => Alone(Hits(Cut(q, i), M))
<1> DEFINE r == Cut(q, i)
           n == Len(q)
           Place(k) == IF k < i THEN k ELSE k + 1
<1>1. /\ n \in Nat /\ i \in 1 .. n /\ Len(r) = n - 1
      /\ \A k \in 1 .. n - 1 : r[k] = IF k < i THEN q[k] ELSE q[k + 1]
  <2>1. n \in Nat
    OBVIOUS
  <2> HIDE DEF r, n
  <2>2. r \in Seq(S) /\ Len(r) = Len(q) - 1
        /\ \A k \in 1 .. Len(q) - 1 : r[k] = IF k < i THEN q[k] ELSE q[k + 1]
    BY CutOut DEF r
  <2>3. QED
    BY <2>1, <2>2 DEF n
<1> HIDE DEF r, n
<1>2. \A k \in 1 .. n - 1 : Place(k) \in 1 .. n /\ r[k] = q[Place(k)]
  BY <1>1
<1>3. \A k, l \in 1 .. n - 1 : Place(k) = Place(l) => k = l
  BY <1>1
<1> HIDE DEF Place
<1>4. \A k \in Hits(r, M) : k \in 1 .. n - 1 /\ Place(k) \in Hits(q, M)
  BY <1>1, <1>2 DEF Hits, n
<1>5. QED
  BY <1>3, <1>4 DEF Alone, r

LEMMA HitsNone ==
  ASSUME NEW M
  PROVE  Hits(<<>>, M) = {}
<1>1. Len(<<>>) = 0 /\ 1 .. 0 = {}
  OBVIOUS
<1>2. QED
  BY <1>1 DEF Hits

\* The drainer moves the first queued prompt to a timer, and a chat that is left
\* drops those that are queued.
LEMMA SettleOnce ==
  ASSUME NEW q \in Seq(Msg), NEW t \in Seq(Prompt), NEW b, NEW m \in Msg,
         shown' \in Conv \cup {None}, Settle(q, t, b),
         Alone(Hits(q, {m})), Alone(Hits(t, Of(m))),
         ~(Hits(q, {m}) # {} /\ Hits(t, Of(m)) # {})
  PROVE  /\ WaitsOnce(m)'
         /\ Queued(m)' \/ Timed(m)' => Hits(q, {m}) # {} \/ Hits(t, Of(m)) # {}
<1> DEFINE p == [msg |-> Head(q), conv |-> shown']
<1>1. /\ queue' \in {<<>>, q, Tail(q)} /\ timers' \in {t, Append(t, p)}
      /\ (timers' = t /\ queue' \in {<<>>, q}) \/ (q # <<>> /\ queue' \in {<<>>, Tail(q)} /\ timers' = Append(t, p))
  BY DEF Settle, Drains, Shift
<1>2. Hits(<<>>, {m}) = {}
  BY HitsNone
<1>3. CASE timers' = t /\ queue' \in {<<>>, q}
  BY <1>2, <1>3 DEF WaitsOnce, Queued, Timed, Alone
<1>4. CASE q # <<>> /\ queue' \in {<<>>, Tail(q)} /\ timers' = Append(t, p)
  <2>1. Head(q) \in Msg
    BY <1>4, Popped
  <2>2. p \in Prompt /\ (p \in Of(m) <=> Head(q) \in {m})
    BY <2>1 DEF Prompt, Of
  <2> HIDE DEF p
  <2>3. /\ Hits(Append(t, p), Of(m)) # {} <=> Hits(t, Of(m)) # {} \/ p \in Of(m)
        /\ (p \in Of(m) => Hits(t, Of(m)) = {}) => Alone(Hits(Append(t, p), Of(m)))
    BY <2>2, HitsPushed
  <2>4. /\ Hits(Tail(q), {m}) # {} => Hits(q, {m}) # {}
        /\ Head(q) \in {m} => Hits(q, {m}) # {} /\ Hits(Tail(q), {m}) = {}
        /\ Alone(Hits(Tail(q), {m}))
    BY <1>4, HitsPopped
  <2>5. /\ Hits(queue', {m}) # {} => Hits(Tail(q), {m}) # {}
        /\ Alone(Hits(queue', {m}))
    BY <1>2, <1>4, <2>4 DEF Alone
  <2>6. QED
    BY <1>4, <2>2, <2>3, <2>4, <2>5 DEF WaitsOnce, Queued, Timed
<1>5. QED
  BY <1>1, <1>3, <1>4

\* A step that touches neither the sockets nor the turns, after a callback that
\* leaves queue q, of prompts that were queued.
LEMMA OnceSettles ==
  ASSUME ClientType, NEW m \in Msg, Once(m), NEW q \in Seq(Msg), NEW b,
         shown' \in Conv \cup {None}, Settle(q, timers, b), UNCHANGED <<outbox, asked, typedIn>>,
         Hits(q, {m}) # {} => Queued(m), Alone(Hits(q, {m}))
  PROVE  Once(m)'
<1>1. /\ WaitsOnce(m)'
      /\ Queued(m)' \/ Timed(m)' => Hits(q, {m}) # {} \/ Hits(timers, Of(m)) # {}
  BY SettleOnce DEF ClientType, Once, WaitsOnce, Timed
<1>2. Queued(m)' \/ Timed(m)' => Queued(m) \/ Timed(m)
  BY <1>1 DEF Timed
<1>3. /\ WrittenOnce(m)' /\ AnsweredOnce(m)' /\ Written(m)' = Written(m)
      /\ Answered(m)' = Answered(m)
  BY DEF Once, WrittenOnce, AnsweredOnce, Written, Answered
<1>4. QED
  BY <1>1, <1>2, <1>3 DEF Once

\* Nothing happens to the prompts.
LEMMA OnceStays ==
  ASSUME NEW m \in Msg, Once(m), UNCHANGED <<queue, timers, outbox, asked, typedIn>>
  PROVE  Once(m)'
BY DEF Once, WaitsOnce, WrittenOnce, AnsweredOnce, Queued, Timed, Written, Answered

\* doSend writes prompt n to the current socket, or loses it.
LEMMA WritesOnce ==
  ASSUME ClientType, NEW m \in Msg, NEW n \in Msg, NEW c \in Conv \cup {None}, Send(n, c),
         WrittenOnce(m), m = n => ~Written(m)
  PROVE  WrittenOnce(m)' /\ (Written(m)' => Written(m) \/ m = n)
<1> DEFINE p == [msg |-> n, conv |-> c]
<1>1. CASE UNCHANGED outbox
  BY <1>1 DEF WrittenOnce, Written
<1>2. CASE outbox' = [outbox EXCEPT ![ws] = Append(@, p)]
  <2>1. /\ outbox[ws] \in Seq(Prompt) /\ p \in Prompt /\ ws \in Session
        /\ (p \in Of(m) <=> m = n)
    BY DEF ClientType, Prompt, Of
  <2>2. /\ outbox'[ws] = Append(outbox[ws], p)
        /\ \A s \in Session \ {ws} : outbox'[s] = outbox[s]
    BY <1>2 DEF ClientType
  <2> HIDE DEF p
  <2>3. /\ Hits(Append(outbox[ws], p), Of(m)) # {} <=> Hits(outbox[ws], Of(m)) # {} \/ p \in Of(m)
        /\ (Alone(Hits(outbox[ws], Of(m))) /\ (p \in Of(m) => Hits(outbox[ws], Of(m)) = {}))
             => Alone(Hits(Append(outbox[ws], p), Of(m)))
    BY <2>1, HitsPushed
  <2>4. p \in Of(m) => \A s \in Session : Hits(outbox[s], Of(m)) = {}
    BY <2>1 DEF Written
  <2>5. \A s \in Session : Hits(outbox'[s], Of(m)) # {} =>
          Hits(outbox[s], Of(m)) # {} \/ (s = ws /\ p \in Of(m))
    BY <2>2, <2>3
  <2>6. \A s \in Session : Alone(Hits(outbox'[s], Of(m)))
    BY <2>1, <2>2, <2>3, <2>4 DEF WrittenOnce
  <2>7. Alone({s \in Session : Hits(outbox'[s], Of(m)) # {}})
    BY <2>4, <2>5 DEF WrittenOnce, Alone
  <2>8. QED
    BY <2>1, <2>5, <2>6, <2>7 DEF WrittenOnce, Written
<1>3. QED
  BY <1>1, <1>2 DEF Send

\* A prompt is typed: nothing holds it yet.
LEMMA TypeOnce ==
  ASSUME ClientType, Type, UNCHANGED asked, NEW m \in Msg, Once(m)
  PROVE  Once(m)'
<1> DEFINE n == Len(typedIn) + 1
           waits == proc \/ ~conn
           q == IF waits THEN Append(queue, n) ELSE queue
<1>1. /\ n \in Msg /\ typedIn' = Append(typedIn, chat) /\ Settle(q, timers, bubbles)
      /\ shown' \in Conv \cup {None} /\ (waits => UNCHANGED outbox)
      /\ (~waits => Send(n, shown))
  BY DEF Type, ClientType
<1>2. /\ Len(typedIn') = n /\ Len(typedIn) \in Nat
  BY <1>1, Pushed DEF ClientType
<1>3. m = n => ~Queued(m) /\ ~Timed(m) /\ ~Written(m) /\ ~Answered(m)
  BY <1>2 DEF Once
<1>4. AnsweredOnce(m)' /\ Answered(m)' = Answered(m)
  BY DEF Once, AnsweredOnce, Answered
<1>5. /\ q \in Seq(Msg) /\ (Hits(q, {m}) # {} => Queued(m) \/ (waits /\ m = n))
      /\ Alone(Hits(q, {m})) /\ ~(Hits(q, {m}) # {} /\ Hits(timers, Of(m)) # {})
  <2>1. CASE ~waits
    BY <2>1 DEF ClientType, Once, WaitsOnce, Queued, Timed
  <2>2. CASE waits
    <3>1. q = Append(queue, n) /\ queue \in Seq(Msg) /\ n \in Msg
      BY <1>1, <2>2 DEF ClientType
    <3> HIDE DEF q, n
    <3>2. /\ q \in Seq(Msg)
          /\ Hits(q, {m}) # {} <=> Hits(queue, {m}) # {} \/ n \in {m}
          /\ (Alone(Hits(queue, {m})) /\ (n \in {m} => Hits(queue, {m}) = {})) => Alone(Hits(q, {m}))
      BY <3>1, HitsPushed, Pushed
    <3>3. QED
      BY <1>3, <2>2, <3>2 DEF Once, WaitsOnce, Queued, Timed
  <2>3. QED
    BY <2>1, <2>2
<1> HIDE DEF q, waits
<1>6. /\ WaitsOnce(m)'
      /\ Queued(m)' \/ Timed(m)' => Hits(q, {m}) # {} \/ Hits(timers, Of(m)) # {}
  BY <1>1, <1>5, SettleOnce DEF ClientType, Once, WaitsOnce
<1>7. Queued(m)' \/ Timed(m)' => Queued(m) \/ Timed(m) \/ (waits /\ m = n)
  BY <1>5, <1>6 DEF Timed
<1>8. WrittenOnce(m)' /\ (Written(m)' => Written(m) \/ (~waits /\ m = n))
  <2>1. CASE waits
    BY <1>1, <2>1 DEF Once, WrittenOnce, Written
  <2>2. CASE ~waits
    <3>1. Send(n, shown) /\ shown \in Conv \cup {None}
      BY <1>1, <2>2 DEF ClientType
    <3>2. QED
      BY <1>1, <1>3, <2>2, <3>1, WritesOnce DEF Once
  <2>3. QED
    BY <2>1, <2>2
<1>9. m > Len(typedIn') => m > Len(typedIn) /\ m # n
  BY <1>2 DEF Msg
<1>10. QED
  BY <1>3, <1>4, <1>6, <1>7, <1>8, <1>9 DEF Once

\* A timer hands its prompt to the socket.
LEMMA FireOnce ==
  ASSUME ClientType, TimerFires, UNCHANGED asked, NEW m \in Msg, Once(m)
  PROVE  Once(m)'
<1> DEFINE p == Head(timers)
<1>1. /\ timers # <<>> /\ Send(p.msg, p.conv) /\ UNCHANGED typedIn
      /\ Settle(queue, Tail(timers), bubbles) /\ shown' \in Conv \cup {None}
  BY DEF TimerFires, ClientType
<1>2. timers \in Seq(Prompt) /\ p \in Prompt /\ Tail(timers) \in Seq(Prompt)
  BY <1>1, Popped DEF ClientType
<1> HIDE DEF p
<1>3. p.msg \in Msg /\ p.conv \in Conv \cup {None} /\ (p \in Of(m) <=> m = p.msg)
  BY <1>2 DEF Prompt, Of
<1>4. /\ Hits(Tail(timers), Of(m)) # {} => Timed(m)
      /\ p \in Of(m) => Timed(m) /\ Hits(Tail(timers), Of(m)) = {}
      /\ Alone(Hits(Tail(timers), Of(m)))
  BY <1>1, <1>2, HitsPopped DEF p, Once, WaitsOnce, Timed
<1>5. /\ WaitsOnce(m)'
      /\ Queued(m)' \/ Timed(m)' => Queued(m) \/ Hits(Tail(timers), Of(m)) # {}
  BY <1>1, <1>2, <1>4, SettleOnce DEF ClientType, Once, WaitsOnce, Queued
<1>6. WrittenOnce(m)' /\ (Written(m)' => Written(m) \/ m = p.msg)
  BY <1>1, <1>3, <1>4, WritesOnce DEF Once
<1>7. AnsweredOnce(m)' /\ Answered(m)' = Answered(m)
  BY DEF Once, AnsweredOnce, Answered
<1>8. m = p.msg => ~Queued(m)' /\ ~Timed(m)' /\ ~Answered(m) /\ Timed(m)
  BY <1>3, <1>4, <1>5 DEF Once, WaitsOnce
<1>9. QED
  BY <1>1, <1>4, <1>5, <1>6, <1>7, <1>8 DEF Once
\* The server reads a prompt: it leaves its socket and is the new turn's.
LEMMA ReadOnce ==
  ASSUME SysInv, NEW s \in Session, ServerReceives(s), Unbegun, NEW m \in Msg, Once(m)
  PROVE  Once(m)'
<1> DEFINE p == Head(outbox[s])
           n == turns + 1
<1>1. /\ outbox[s] # <<>> /\ outbox[s] \in Seq(Prompt) /\ turns' = n /\ turns < MaxTurns
      /\ outbox' = [outbox EXCEPT ![s] = Tail(@)] /\ asked' = [asked EXCEPT ![turns'] = p.msg]
      /\ UNCHANGED <<queue, timers, typedIn>>
  BY DEF ServerReceives, Server!Receive, SysInv, ClientType
<1>2. turns \in Nat /\ n \in 1 .. MaxTurns /\ n \in turns + 1 .. MaxTurns
  <2>1. turns \in 0 .. MaxTurns
    BY DEF SysInv, Agents!TypeInv, Agents!TypeOK
  <2>2. QED
    BY <1>1, <2>1, SystemAssumption
<1>3. asked'[n] = p.msg /\ \A t \in 1 .. MaxTurns : t # n => asked'[t] = asked[t]
  BY <1>1, <1>2 DEF SysInv, ClientType
<1>4. asked[n] = 0 /\ m # 0
  BY <1>2 DEF Unbegun, Msg
<1>5. p \in Prompt /\ (p \in Of(m) <=> p.msg = m)
  <2>1. p \in Prompt
    BY <1>1, Popped
  <2>2. QED
    BY <2>1 DEF Of
<1>6. /\ outbox'[s] = Tail(outbox[s])
      /\ \A z \in Session \ {s} : outbox'[z] = outbox[z]
  BY <1>1 DEF SysInv, ClientType
<1> HIDE DEF p, n
<1>7. /\ Hits(Tail(outbox[s]), Of(m)) # {} => Hits(outbox[s], Of(m)) # {}
      /\ p \in Of(m) => Hits(outbox[s], Of(m)) # {} /\ Hits(Tail(outbox[s]), Of(m)) = {}
      /\ Alone(Hits(Tail(outbox[s]), Of(m)))
  BY <1>1, HitsPopped DEF p, Once, WrittenOnce
<1>8. \A z \in Session : Hits(outbox'[z], Of(m)) # {} =>
         Hits(outbox[z], Of(m)) # {} /\ (p \in Of(m) => z # s)
  BY <1>6, <1>7
<1>9. WrittenOnce(m)' /\ (Written(m)' => Written(m) /\ p.msg # m)
  <2>1. \A z \in Session : Alone(Hits(outbox'[z], Of(m)))
    BY <1>6, <1>7 DEF Once, WrittenOnce
  <2>2. Alone({z \in Session : Hits(outbox'[z], Of(m)) # {}})
    BY <1>8 DEF Once, WrittenOnce, Alone
  <2>3. ASSUME Written(m)' PROVE Written(m) /\ p.msg # m
    <3>1. PICK z \in Session : Hits(outbox'[z], Of(m)) # {}
      BY <2>3 DEF Written
    <3>2. Hits(outbox[z], Of(m)) # {} /\ (p \in Of(m) => z # s /\ Hits(outbox[s], Of(m)) # {})
      BY <1>7, <1>8, <3>1
    <3>3. QED
      BY <1>5, <3>2 DEF Once, WrittenOnce, Written, Alone
  <2>4. QED
    BY <2>1, <2>2, <2>3 DEF WrittenOnce
<1>10. p.msg = m => Written(m)
  BY <1>5, <1>7 DEF Written
<1>11. AnsweredOnce(m)' /\ (Answered(m)' => Answered(m) \/ p.msg = m)
  BY <1>3, <1>4, <1>10 DEF Once, AnsweredOnce, Answered, Alone
<1>12. WaitsOnce(m)' /\ Queued(m)' = Queued(m) /\ Timed(m)' = Timed(m) /\ typedIn' = typedIn
  BY <1>1 DEF Once, WaitsOnce, Queued, Timed
<1>13. QED
  BY <1>9, <1>10, <1>11, <1>12 DEF Once

\* A turn the server has not begun answers no prompt.
LEMMA UnbegunStep ==
  ASSUME SysInv, Unbegun, [Next]_sysVars
  PROVE  Unbegun'
<1>1. turns \in 0 .. MaxTurns
  BY DEF SysInv, Agents!TypeInv, Agents!TypeOK
<1>stay. ASSUME UNCHANGED <<turns, asked>> PROVE Unbegun'
  BY <1>stay DEF Unbegun
<1>2. ASSUME NEW s \in Session, ServerReceives(s) PROVE Unbegun'
  <2>1. turns' = turns + 1 /\ asked' = [asked EXCEPT ![turns'] = Head(outbox[s]).msg]
    BY <1>2 DEF ServerReceives, Server!Receive
  <2>2. ASSUME NEW t \in turns' + 1 .. MaxTurns PROVE asked'[t] = 0
    <3>1. t \in turns + 1 .. MaxTurns /\ t # turns' /\ t \in 1 .. MaxTurns
      BY <1>1, <2>1, SystemAssumption
    <3>2. QED
      BY <2>1, <3>1 DEF Unbegun, SysInv, ClientType
  <2>3. QED
    BY <2>2 DEF Unbegun
<1>3. ASSUME NEW s \in Session, SocketOpens(s) \/ Deliver(s) \/ ServerHangsUp(s) PROVE Unbegun'
  BY <1>3, <1>stay DEF SocketOpens, Server!Connect, Deliver, ServerHangsUp, Server!Disconnect,
                       Server!EndLoop, serverVars, Server!run
<1>4. ASSUME NEW s \in Session, ServerRuns(s) PROVE Unbegun'
  <2>1. CASE Server!Step(s)
    BY <1>4, <2>1, <1>stay DEF ServerRuns, Server!Step, Server!PersistInExisting,
       Server!PersistInNew, Server!PersistNothing, Server!StartStream, Server!FailTurn,
       Server!FinishStream, Server!SaveReply, Server!SaveFails, Server!run, Server!db
  <2>2. CASE Server!Stream(s)
    BY <1>4, <2>2, <1>stay DEF ServerRuns, Server!Stream, Server!TextChunk, Server!ToolChunk,
       Server!ToolCalled, Server!ToolResult, Server!run, Server!db
  <2>3. QED
    BY <1>4, <2>1, <2>2 DEF ServerRuns
<1>5. ASSUME Page \/ User \/ Network \/ UNCHANGED sysVars PROVE Unbegun'
  BY <1>5, <1>stay DEF Page, User, Network, sysVars, serverVars
<1>6. ASSUME UserDeletes \/ Elsewhere PROVE Unbegun'
  BY <1>6, <1>stay DEF UserDeletes, Elsewhere, Server!DeleteConversation,
                       Server!CreateConversation, Server!run
<1>7. QED
  BY <1>2, <1>3, <1>4, <1>5, <1>6 DEF Next
LEMMA PromptStep == SysInv /\ PromptInv /\ [Next]_sysVars => PromptInv'
<1> SUFFICES ASSUME SysInv, PromptInv, [Next]_sysVars PROVE PromptInv'
  OBVIOUS
<1>1. SysInv' /\ Unbegun'
  BY SysStep, UnbegunStep DEF PromptInv
<1> SUFFICES ASSUME NEW m \in Msg PROVE Once(m)'
  BY <1>1 DEF PromptInv
<1>2. Once(m) /\ ClientType /\ queue \in Seq(Msg) /\ shown' \in Conv \cup {None}
  BY <1>1 DEF PromptInv, SysInv, ClientType
<1>settle. ASSUME NEW b, Settle(queue, timers, b), UNCHANGED <<outbox, asked, typedIn>>
           PROVE  Once(m)'
  <2>1. Hits(queue, {m}) # {} => Queued(m)
    BY DEF Queued
  <2>2. Alone(Hits(queue, {m}))
    BY <1>2 DEF Once, WaitsOnce
  <2>3. QED
    BY <1>2, <1>settle, <2>1, <2>2, OnceSettles
<1>3. ASSUME NEW s \in Session, SocketOpens(s) PROVE Once(m)'
  BY <1>3, <1>settle DEF SocketOpens, OnOpen
<1>4. ASSUME NEW s \in Session, ServerReceives(s) PROVE Once(m)'
  BY <1>2, <1>4, ReadOnce DEF PromptInv
<1>5. ASSUME NEW s \in Session, ServerRuns(s) \/ ServerHangsUp(s) PROVE Once(m)'
  BY <1>2, <1>5, OnceStays DEF ServerRuns, ServerHangsUp, clientVars
<1>6. ASSUME NEW s \in Session, Deliver(s) PROVE Once(m)'
  <2> DEFINE e == sent[s][heard[s] + 1]
  <2>1. Handle(e) /\ UNCHANGED asked
    BY <1>6 DEF Deliver
  <2>2. Settle(queue, timers, RepliesAfter(e)) /\ UNCHANGED <<outbox, typedIn>>
    BY <2>1 DEF Handle
  <2>3. QED
    BY <2>1, <2>2, <1>settle
<1>7. ASSUME Page PROVE Once(m)'
  <2>1. CASE TimerFires
    BY <1>2, <1>7, <2>1, FireOnce DEF Page
  <2>2. CASE Reconnect
    BY <1>2, <1>7, <2>2, OnceStays DEF Page, Reconnect
  <2>3. ASSUME NEW s \in Session, OnClose(s) PROVE Once(m)'
    BY <1>7, <2>3, <1>settle DEF Page, OnClose
  <2>4. QED
    BY <1>7, <2>1, <2>2, <2>3 DEF Page
<1>8. ASSUME User PROVE Once(m)'
  <2>1. CASE Type
    BY <1>2, <1>8, <2>1, TypeOnce DEF User
  <2>2. ASSUME NEW i \in 1 .. MaxMsgs, CancelQueued(i) PROVE Once(m)'
    <3>1. /\ i \in 1 .. Len(queue) /\ queue' = Cut(queue, i)
          /\ UNCHANGED <<timers, outbox, asked, typedIn>>
      BY <1>8, <2>2 DEF User, CancelQueued, Cut
    <3>2. /\ Hits(Cut(queue, i), {m}) # {} => Hits(queue, {m}) # {}
          /\ Alone(Hits(queue, {m})) => Alone(Hits(Cut(queue, i), {m}))
      BY <1>2, <3>1, HitsCut
    <3>3. /\ WrittenOnce(m)' /\ AnsweredOnce(m)' /\ WaitsOnce(m)' /\ (Queued(m)' => Queued(m))
          /\ Timed(m)' = Timed(m) /\ Written(m)' = Written(m) /\ Answered(m)' = Answered(m)
      BY <1>2, <3>1, <3>2 DEF Once, WaitsOnce, WrittenOnce, AnsweredOnce, Queued, Timed, Written,
                              Answered
    <3>4. QED
      BY <1>2, <3>1, <3>3 DEF Once
  <2>3. CASE NewChat
    BY <1>8, <2>3, <1>settle DEF User, NewChat
  <2>4. ASSUME NEW c \in Conv, Select(c, rows[c] # <<>>) PROVE Once(m)'
    BY <1>8, <2>4, <1>settle DEF User, Select
  <2>5. QED
    BY <1>8, <2>1, <2>2, <2>3, <2>4 DEF User
<1>9. ASSUME UserDeletes PROVE Once(m)'
  BY <1>9, <1>settle DEF UserDeletes, DeleteShown
<1>10. ASSUME Elsewhere \/ Network \/ UNCHANGED sysVars PROVE Once(m)'
  BY <1>2, <1>10, OnceStays DEF Elsewhere, Network, RefreshToken, Drop, sysVars, clientVars
<1>11. QED
  BY <1>3, <1>4, <1>5, <1>6, <1>7, <1>8, <1>9, <1>10 DEF Next

LEMMA PromptInit == Init => PromptInv
<1> SUFFICES ASSUME Init PROVE PromptInv
  OBVIOUS
<1>1. queue = <<>> /\ timers = <<>> /\ asked = [t \in 1 .. MaxTurns |-> 0]
      /\ turns = 0 /\ \A s \in Session : outbox[s] = <<>>
  BY DEF Init, ClientInit, Server!Init
<1>2. \A M : Hits(<<>>, M) = {}
  BY HitsNone
<1>3. ASSUME NEW m \in Msg PROVE Once(m)
  <2>1. ~Queued(m) /\ ~Timed(m) /\ ~Written(m) /\ Hits(queue, {m}) = {}
        /\ Hits(timers, Of(m)) = {} /\ \A s \in Session : Hits(outbox[s], Of(m)) = {}
    BY <1>1, <1>2 DEF Queued, Timed, Written
  <2>2. \A t \in 1 .. MaxTurns : asked[t] # m
    BY <1>1 DEF Msg
  <2>3. QED
    BY <2>1, <2>2 DEF Once, WaitsOnce, WrittenOnce, AnsweredOnce, Answered, Alone
<1>4. Unbegun
  BY <1>1, SystemAssumption DEF Unbegun
<1>5. QED
  BY <1>3, <1>4 DEF PromptInv

\* A set with at most one element.
LEMMA CountsAlone ==
  ASSUME NEW S, Alone(S)
  PROVE  /\ S = {} => Cardinality(S) = 0
         /\ S # {} => Cardinality(S) = 1
<1>1. S = {} => Cardinality(S) = 0
  BY FS_EmptySet
<1>2. ASSUME S # {} PROVE Cardinality(S) = 1
  <2>1. PICK x : x \in S
    BY <1>2
  <2>2. S = {x}
    BY <2>1 DEF Alone
  <2>3. QED
    BY <2>2, FS_Singleton
<1>3. QED
  BY <1>1, <1>2

LEMMA PromptCounts ==
  ASSUME SysInv, PromptInv
  PROVE  PromptOnce
<1> SUFFICES ASSUME NEW m \in Msg PROVE Copies(m) <= 1
  BY DEF PromptOnce
<1> DEFINE Q == {i \in DOMAIN queue : queue[i] = m}
           T == {i \in DOMAIN timers : timers[i].msg = m}
           W == {p \in Session \X (1 .. MaxMsgs) :
                   p[2] \in DOMAIN outbox[p[1]] /\ outbox[p[1]][p[2]].msg = m}
           A == {t \in DOMAIN asked : asked[t] = m}
<1>1. Copies(m) = Cardinality(Q) + Cardinality(T) + Cardinality(W) + Cardinality(A)
  BY DEF Copies
<1>2. Once(m)
  BY DEF PromptInv
<1>3. Q = Hits(queue, {m})
  BY DEF Hits, SysInv, ClientType
<1>4. T = Hits(timers, Of(m))
  <2>1. DOMAIN timers = 1 .. Len(timers) /\ \A i \in DOMAIN timers : timers[i] \in Prompt
    BY DEF SysInv, ClientType
  <2>2. QED
    BY <2>1 DEF Hits, Of
<1>5. A = {t \in 1 .. MaxTurns : asked[t] = m}
  BY DEF SysInv, ClientType
<1>6. \A p \in W : p[1] \in Session /\ p[2] \in Hits(outbox[p[1]], Of(m))
  <2>1. ASSUME NEW p \in W PROVE p[1] \in Session /\ p[2] \in Hits(outbox[p[1]], Of(m))
    <3>1. p[1] \in Session /\ outbox[p[1]] \in Seq(Prompt) /\ p[2] \in DOMAIN outbox[p[1]]
          /\ outbox[p[1]][p[2]].msg = m
      BY DEF SysInv, ClientType
    <3>2. p[2] \in 1 .. Len(outbox[p[1]]) /\ outbox[p[1]][p[2]] \in Prompt
      BY <3>1
    <3>3. QED
      BY <3>1, <3>2 DEF Hits, Of
  <2>2. QED
    BY <2>1
<1>7. Alone(W)
  <2>1. ASSUME NEW x \in W, NEW y \in W PROVE x = y
    <3>1. x[1] = y[1] /\ x[1] \in Session
      BY <1>2, <1>6 DEF Once, WrittenOnce, Alone
    <3>2. x[2] = y[2]
      <4>1. x[2] \in Hits(outbox[x[1]], Of(m)) /\ y[2] \in Hits(outbox[x[1]], Of(m))
        BY <1>6, <3>1
      <4>2. Alone(Hits(outbox[x[1]], Of(m)))
        BY <1>2, <3>1 DEF Once, WrittenOnce
      <4>3. QED
        BY <4>1, <4>2 DEF Alone
    <3>3. x = <<x[1], x[2]>> /\ y = <<y[1], y[2]>>
      OBVIOUS
    <3>4. QED
      BY <3>1, <3>2, <3>3
  <2>2. QED
    BY <2>1 DEF Alone
<1>8. W # {} => Written(m)
  BY <1>6 DEF Written
<1>9. /\ Alone(Q) /\ Alone(T) /\ Alone(A)
      /\ ~(Q # {} /\ T # {}) /\ ~(Q # {} /\ W # {}) /\ ~(Q # {} /\ A # {})
      /\ ~(T # {} /\ W # {}) /\ ~(T # {} /\ A # {}) /\ ~(W # {} /\ A # {})
  <2>1. (Q # {} <=> Queued(m)) /\ (T # {} <=> Timed(m)) /\ (A # {} <=> Answered(m))
    BY <1>3, <1>4, <1>5 DEF Queued, Timed, Answered
  <2>2. Alone(Q) /\ Alone(T) /\ Alone(A)
    BY <1>2, <1>3, <1>4, <1>5 DEF Once, WaitsOnce, AnsweredOnce
  <2> HIDE DEF Q, T, W, A
  <2>3. QED
    BY <1>2, <1>8, <2>1, <2>2 DEF Once, WaitsOnce
<1> HIDE DEF Q, T, W, A
<1>10. /\ (Q = {} => Cardinality(Q) = 0) /\ (Q # {} => Cardinality(Q) = 1)
       /\ (T = {} => Cardinality(T) = 0) /\ (T # {} => Cardinality(T) = 1)
       /\ (W = {} => Cardinality(W) = 0) /\ (W # {} => Cardinality(W) = 1)
       /\ (A = {} => Cardinality(A) = 0) /\ (A # {} => Cardinality(A) = 1)
  BY <1>7, <1>9, CountsAlone
<1>11. QED
  BY <1>1, <1>9, <1>10

\* However the drainer, its timers and the connections interleave, a prompt is
\* never in two places between the input and the server, nor handed over twice
\* (use-chat.ts, chat-container.tsx).
THEOREM PromptsOnce == Spec => []PromptOnce
BY PromptInit, PromptStep, PromptCounts, SysInit, SysStep, PTL DEF Spec

-----------------------------------------------------------------------------
(* The lock of the input, on a connection that holds.  The tab then has one *)
(* socket for good, so that nothing of a turn is lost: a prompt is written, *)
(* the server is at it, or the event that unlocks is on its way.            *)

OneForGood ==
  /\ ~retry /\ ready[ws] \in {"connecting", "open"}
  /\ \A s \in Session : s # ws => ready[s] = "unused"
  /\ conn <=> ready[ws] = "open"
  /\ conn => client[ws] = "open"

\* The drainer's timers and the lock are of a tab that was connected.
Connected == (timers # <<>> => conn) /\ (proc => conn)

LockInv == OneForGood /\ Connected /\ LockedOnlyWhileWaiting

\* A run that ends tells the tab.
LEMMA RunUnlocks ==
  ASSUME SysInv, NEW s \in Session, Server!Step(s) \/ Server!Stream(s), client[s] = "open"
  PROVE  /\ pc[s] \in {"persist", "start", "stream", "save"}
         /\ \/ pc'[s] \in {"persist", "start", "stream", "save"}
            \/ \E i \in Len(sent[s]) + 1 .. Len(sent'[s]) : Unlocks(sent'[s][i])
<1>1. /\ pc \in [Session -> {"new", "idle", "persist", "start", "stream", "save", "ended"}]
      /\ sent \in [Session -> Seq(Agents!Event)]
  BY DEF SysInv, Agents!TypeInv, Agents!TypeOK
<1>2. ASSUME NEW q, sent' = [sent EXCEPT ![s] = @ \o q],
             (\E e : q = <<e>> /\ Unlocks(e)) \/ (\E e, d : q = <<e, d>> /\ Unlocks(d))
      PROVE  \E i \in Len(sent[s]) + 1 .. Len(sent'[s]) : Unlocks(sent'[s][i])
  <2> DEFINE n == Len(sent[s])
  <2>1. sent[s] \in Seq(Agents!Event) /\ sent'[s] = sent[s] \o q /\ n \in Nat
    BY <1>1, <1>2
  <2>2. CASE \E e : q = <<e>> /\ Unlocks(e)
    <3>1. PICK e : q = <<e>> /\ Unlocks(e)
      BY <2>2
    <3>2. Len(sent'[s]) = n + 1 /\ sent'[s][n + 1] = e
      BY <2>1, <3>1
    <3> HIDE DEF n
    <3>3. n + 1 \in n + 1 .. Len(sent'[s])
      BY <2>1, <3>2
    <3> QED
      BY <3>1, <3>2, <3>3, Zenon DEF n
  <2>3. CASE \E e, d : q = <<e, d>> /\ Unlocks(d)
    <3>1. PICK e, d : q = <<e, d>> /\ Unlocks(d)
      BY <2>3
    <3>2. Len(sent'[s]) = n + 2 /\ sent'[s][n + 2] = d
      BY <2>1, <3>1
    <3> HIDE DEF n
    <3>3. n + 2 \in n + 1 .. Len(sent'[s])
      BY <2>1, <3>2
    <3> QED
      BY <3>1, <3>2, <3>3, Zenon DEF n
  <2> QED
    BY <1>2, <2>2, <2>3
<1>3. CASE Server!PersistInExisting(s) \/ Server!PersistInNew(s) \/ Server!PersistNothing(s)
           \/ Server!StartStream(s)
  BY <1>1, <1>3 DEF Server!PersistInExisting, Server!PersistInNew, Server!PersistNothing,
     Server!StartStream, Server!Goto
<1>4. CASE Server!Stream(s)
  BY <1>1, <1>4 DEF Server!Stream, Server!TextChunk, Server!ToolChunk, Server!ToolCalled,
     Server!ToolResult
<1>5. CASE Server!FailTurn(s)
  <2> DEFINE e == Server!Ev(s, "error")
  <2>1. sent' = [sent EXCEPT ![s] = @ \o <<e>>] /\ pc[s] \in {"start", "stream"}
    BY <1>5 DEF Server!FailTurn, Server!Emit
  <2>2. Unlocks(e)
    BY DEF Unlocks, Server!Ev
  <2> HIDE DEF e
  <2> QED
    BY <1>2, <2>1, <2>2
<1>6. CASE Server!FinishStream(s)
  <2> DEFINE e == Server!Ev(s, "final_result")
             d == Server!Ev(s, "complete")
  <2>1. Unlocks(e) /\ Unlocks(d)
    BY DEF Unlocks, Server!Ev
  <2>2. /\ pc[s] = "stream"
        /\ \/ sent' = [sent EXCEPT ![s] = @ \o <<e>>]
           \/ sent' = [sent EXCEPT ![s] = @ \o <<e, d>>]
    BY <1>6 DEF Server!FinishStream, Server!Emit
  <2> HIDE DEF e, d
  <2> QED
    BY <1>2, <2>1, <2>2
<1>7. CASE Server!SaveReply(s)
  <2> DEFINE e == Server!Ev(s, "message_saved")
             d == Server!Ev(s, "complete")
  <2>1. Unlocks(d)
    BY DEF Unlocks, Server!Ev
  <2>2. pc[s] = "save" /\ sent' = [sent EXCEPT ![s] = @ \o <<e, d>>]
    BY <1>7 DEF Server!SaveReply, Server!Emit
  <2> HIDE DEF e, d
  <2> QED
    BY <1>2, <2>1, <2>2
<1>8. CASE Server!SaveFails(s)
  <2> DEFINE e == Server!Ev(s, "complete")
  <2>1. sent' = [sent EXCEPT ![s] = @ \o <<e>>] /\ pc[s] = "save"
    BY <1>8 DEF Server!SaveFails, Server!Emit
  <2>2. Unlocks(e)
    BY DEF Unlocks, Server!Ev
  <2> HIDE DEF e
  <2> QED
    BY <1>2, <2>1, <2>2
<1> QED
  BY <1>3, <1>4, <1>5, <1>6, <1>7, <1>8 DEF Server!Step

\* A run changes where its own session is, and hangs nobody up.
LEMMA RunsAlone ==
  ASSUME SysInv, NEW s \in Session, Server!Step(s) \/ Server!Stream(s)
  PROVE  client' = client /\ \A z \in Session : z # s => pc'[z] = pc[z]
BY DEF SysInv, Agents!TypeInv, Agents!TypeOK, Server!Step, Server!Stream,
  Server!PersistInExisting, Server!PersistInNew, Server!PersistNothing, Server!StartStream,
  Server!FailTurn, Server!FinishStream, Server!SaveReply, Server!SaveFails, Server!TextChunk,
  Server!ToolChunk, Server!ToolCalled, Server!ToolResult, Server!Goto, Server!db

\* Settle adds a timer only in a tab that is connected.
LEMMA SettleConnected ==
  ASSUME NEW q, NEW t, NEW b, Settle(q, t, b), t # <<>> => conn'
  PROVE  timers' # <<>> => conn'
BY DEF Settle, Drains

\* A step that neither locks the input nor takes from what it waits for.
LEMMA WaitsOn ==
  ASSUME SysInv, [Next]_sysVars, LockedOnlyWhileWaiting, ws' = ws, proc' => proc, heard' = heard,
         outbox[ws] # <<>> => outbox'[ws] # <<>>, pc'[ws] = pc[ws]
  PROVE  LockedOnlyWhileWaiting'
<1>1. ASSUME NEW i \in heard[ws] + 1 .. Len(sent[ws]), Unlocks(sent[ws][i])
      PROVE  \E j \in heard'[ws'] + 1 .. Len(sent'[ws']) : Unlocks(sent'[ws'][j])
  <2>1. ws \in Session /\ heard[ws] \in Nat /\ Len(sent[ws]) \in Nat /\ Len(sent'[ws]) \in Nat
    BY ServerKeeps DEF SysInv, ClientType, Agents!TypeInv, Agents!TypeOK
  <2>2. Len(sent'[ws]) >= Len(sent[ws]) /\ sent'[ws][i] = sent[ws][i]
    BY <2>1, ServerKeeps
  <2>3. i \in heard[ws] + 1 .. Len(sent'[ws])
    BY <2>1, <2>2
  <2> QED
    BY <1>1, <2>2, <2>3
<1> QED
  BY <1>1 DEF LockedOnlyWhileWaiting, Server!Busy

\* One event of the tab's socket is handled, and it does not unlock the input.
LEMMA HeardOn ==
  ASSUME SysInv, LockedOnlyWhileWaiting, ws' = ws, proc, sent' = sent, outbox' = outbox, pc' = pc,
         heard' = [heard EXCEPT ![ws] = @ + 1], ~Unlocks(sent[ws][heard[ws] + 1])
  PROVE  LockedOnlyWhileWaiting'
<1>1. ASSUME NEW i \in heard[ws] + 1 .. Len(sent[ws]), Unlocks(sent[ws][i])
      PROVE  \E j \in heard'[ws'] + 1 .. Len(sent'[ws']) : Unlocks(sent'[ws'][j])
  <2>1. ws \in Session /\ heard[ws] \in Nat /\ Len(sent[ws]) \in Nat /\ heard'[ws] = heard[ws] + 1
    BY DEF SysInv, ClientType, Agents!TypeInv, Agents!TypeOK
  <2>2. i # heard[ws] + 1
    BY <1>1
  <2>3. i \in heard'[ws] + 1 .. Len(sent[ws])
    BY <2>1, <2>2
  <2> QED
    BY <1>1, <2>3
<1> QED
  BY <1>1 DEF LockedOnlyWhileWaiting, Server!Busy

\* A prompt sent through an open socket is written to it.
LEMMA SentIsWritten ==
  ASSUME SysInv, NEW m, NEW c, Send(m, c), ready[ws] = "open"
  PROVE  outbox'[ws] # <<>>
<1> DEFINE p == [msg |-> m, conv |-> c]
<1>1. outbox' = [outbox EXCEPT ![ws] = Append(@, p)]
  BY DEF Send
<1> HIDE DEF p
<1>2. outbox'[ws] = Append(outbox[ws], p) /\ outbox[ws] \in Seq(Prompt)
  BY <1>1 DEF SysInv, ClientType
<1>3. Len(Append(outbox[ws], p)) # 0
  BY <1>2
<1> QED
  BY <1>2, <1>3

\* Every step keeps it: the one socket of the tab stays, and what takes the last
\* thing waited for away, unlocks the input or puts another in its place.
LEMMA LockStep ==
  ASSUME SysInv, LockInv, ~Unstable, [Next]_sysVars
  PROVE  LockInv'
<1> USE DEF LockInv
<1>t. ws \in Session /\ proc \in BOOLEAN /\ outbox \in [Session -> Seq(Prompt)]
      /\ ready \in [Session -> {"unused", "connecting", "open", "closing", "closed"}]
      /\ client \in [Session -> {"new", "open", "closed"}]
      /\ pc \in [Session -> {"new", "idle", "persist", "start", "stream", "save", "ended"}]
      /\ heard \in [Session -> Nat]
  BY DEF SysInv, ClientType, Agents!TypeInv, Agents!TypeOK
<1>1. ASSUME NEW s \in Session, SocketOpens(s) PROVE LockInv'
  <2>1. s = ws
    BY <1>1 DEF SocketOpens, OnOpen, OneForGood
  <2>2. ~conn /\ ~proc
    BY <1>1, <2>1 DEF SocketOpens, OnOpen, OneForGood, Connected
  <2>3. OneForGood'
    BY <1>1, <2>1, <1>t DEF SocketOpens, OnOpen, OneForGood, Server!Connect
  <2>4. conn' /\ proc' = proc
    BY <1>1 DEF SocketOpens, OnOpen
  <2> QED
    BY <2>2, <2>3, <2>4 DEF Connected, LockedOnlyWhileWaiting
<1>2. ASSUME NEW s \in Session, ServerReceives(s) PROVE LockInv'
  <2>1. UNCHANGED <<proc, conn, timers, socketVars, heard, client>>
    BY <1>2 DEF ServerReceives, Server!Receive
  <2>2. OneForGood' /\ Connected'
    BY <2>1 DEF OneForGood, Connected, socketVars
  <2>3. CASE s = ws
    <3>1. pc'[ws'] = "persist"
      BY <1>2, <1>t, <2>1, <2>3 DEF ServerReceives, Server!Receive, Server!Goto, socketVars
    <3> QED
      BY <2>2, <3>1 DEF LockedOnlyWhileWaiting, Server!Busy
  <2>4. CASE s # ws
    <3>1. pc'[ws] = pc[ws] /\ outbox'[ws] = outbox[ws] /\ ws' = ws /\ proc' = proc /\ heard' = heard
      BY <1>2, <1>t, <2>1, <2>4 DEF ServerReceives, Server!Receive, Server!Goto, socketVars
    <3> QED
      BY <2>2, <3>1, WaitsOn
  <2> QED
    BY <2>3, <2>4
<1>3. ASSUME NEW s \in Session, ServerRuns(s) PROVE LockInv'
  <2>1. Server!Step(s) \/ Server!Stream(s)
    BY <1>3 DEF ServerRuns
  <2>2. UNCHANGED <<proc, conn, timers, retry, ready, ws, heard, outbox>> /\ client' = client
    BY <1>3, <2>1, RunsAlone DEF ServerRuns, clientVars, socketVars
  <2>3. OneForGood' /\ Connected'
    BY <2>2 DEF OneForGood, Connected
  <2>4. CASE s = ws /\ proc
    <3>1. client[s] = "open"
      BY <2>4 DEF OneForGood, Connected
    <3>2. \/ pc'[s] \in {"persist", "start", "stream", "save"}
          \/ \E i \in Len(sent[s]) + 1 .. Len(sent'[s]) : Unlocks(sent'[s][i])
      BY <2>1, <3>1, RunUnlocks
    <3>3. CASE \E i \in Len(sent[s]) + 1 .. Len(sent'[s]) : Unlocks(sent'[s][i])
      <4>1. PICK i \in Len(sent[s]) + 1 .. Len(sent'[s]) : Unlocks(sent'[s][i])
        BY <3>3
      <4>2. /\ heard'[ws'] \in Nat /\ Len(sent[s]) \in Nat /\ Len(sent'[s]) \in Nat
            /\ heard'[ws'] <= Len(sent[s]) /\ ws' = s
        BY <2>2, <2>4, <1>t, ServerKeeps DEF SysInv, Agents!TypeInv, Agents!TypeOK
      <4>3. i \in heard'[ws'] + 1 .. Len(sent'[ws'])
        BY <4>2
      <4>4. Unlocks(sent'[ws'][i])
        BY <4>1, <4>2
      <4>5. LockedOnlyWhileWaiting'
        BY <4>3, <4>4 DEF LockedOnlyWhileWaiting, Unlocks
      <4> QED
        BY <2>3, <4>5
    <3>4. CASE pc'[s] \in {"persist", "start", "stream", "save"}
      <4>1. pc'[ws'] \in {"persist", "start", "stream", "save"}
        BY <2>2, <2>4, <3>4
      <4> QED
        BY <2>3, <4>1 DEF LockedOnlyWhileWaiting, Server!Busy
    <3> QED
      BY <3>2, <3>3, <3>4
  <2>5. CASE s # ws
    <3>1. pc'[ws] = pc[ws]
      BY <2>1, <2>5, <1>t, RunsAlone
    <3> QED
      BY <2>2, <2>3, <3>1, WaitsOn
  <2>6. CASE ~proc
    BY <2>2, <2>3, <2>6 DEF LockedOnlyWhileWaiting
  <2> QED
    BY <2>4, <2>5, <2>6
<1>4. ASSUME NEW s \in Session, ServerHangsUp(s) PROVE LockInv'
  BY <1>4 DEF ServerHangsUp, OneForGood
<1>5. ASSUME NEW s \in Session, Deliver(s) PROVE LockInv'
  <2>1. s = ws
    BY <1>5 DEF Deliver, OneForGood
  <2> DEFINE e == sent[ws][heard[ws] + 1]
  <2>2. /\ Handle(e) /\ heard' = [heard EXCEPT ![ws] = @ + 1]
        /\ sent' = sent /\ pc' = pc /\ client' = client
    BY <1>5, <2>1 DEF Deliver, serverVars
  <2> HIDE DEF e
  <2>3. /\ proc' = (proc /\ ~Unlocks(e)) /\ UNCHANGED <<conn, retry, ready, ws, outbox>>
        /\ \E b : Settle(queue, timers, b)
    BY <2>2 DEF Handle, socketVars
  <2>4. OneForGood'
    BY <2>2, <2>3 DEF OneForGood
  <2>5. Connected'
    BY <2>3, SettleConnected DEF Connected
  <2>6. CASE proc /\ ~Unlocks(e)
    <3>1. LockedOnlyWhileWaiting'
      BY <2>2, <2>3, <2>6, HeardOn DEF e
    <3> QED
      BY <2>4, <2>5, <3>1
  <2>7. CASE ~(proc /\ ~Unlocks(e))
    BY <2>3, <2>4, <2>5, <2>7 DEF LockedOnlyWhileWaiting
  <2> QED
    BY <2>6, <2>7
<1>6. ASSUME TimerFires, UNCHANGED <<serverVars, heard, asked>> PROVE LockInv'
  <2>1. conn /\ ready[ws] = "open"
    BY <1>6 DEF TimerFires, OneForGood, Connected
  <2>2. UNCHANGED <<conn, retry, ready, ws, client>>
    BY <1>6 DEF TimerFires, socketVars, serverVars
  <2>3. Send(Head(timers).msg, Head(timers).conv)
    BY <1>6 DEF TimerFires
  <2>4. outbox'[ws] # <<>>
    BY <2>1, <2>3, SentIsWritten
  <2> QED
    BY <2>1, <2>2, <2>4 DEF OneForGood, Connected, LockedOnlyWhileWaiting
<1>7. ASSUME Reconnect \/ \E s \in Session : OnClose(s) PROVE LockInv'
  BY <1>7 DEF Reconnect, OnClose, OneForGood
<1>8. ASSUME Type, UNCHANGED <<serverVars, heard, asked>> PROVE LockInv'
  <2>1. UNCHANGED <<conn, retry, ready, ws, client, heard, pc>>
    BY <1>8 DEF Type, socketVars, serverVars
  <2>2. \E q : Settle(q, timers, bubbles)
    BY <1>8 DEF Type
  <2>3. CASE proc \/ ~conn
    <3>1. UNCHANGED <<proc, outbox>>
      BY <1>8, <2>3 DEF Type
    <3>2. OneForGood' /\ Connected'
      BY <2>1, <2>2, <3>1, SettleConnected DEF OneForGood, Connected
    <3> QED
      BY <2>1, <3>1, <3>2, WaitsOn
  <2>4. CASE ~proc /\ conn
    <3>1. ready[ws] = "open"
      BY <2>4 DEF OneForGood
    <3>2. Send(Len(typedIn) + 1, shown)
      BY <1>8, <2>4 DEF Type
    <3>4. outbox'[ws] # <<>>
      BY <3>1, <3>2, SentIsWritten
    <3> QED
      BY <2>1, <2>4, <3>4 DEF OneForGood, Connected, LockedOnlyWhileWaiting
  <2> QED
    BY <2>3, <2>4
<1>9. ASSUME UNCHANGED <<proc, conn, socketVars, outbox, heard, client, pc>>,
             \/ timers' = timers
             \/ \E q, b : Settle(q, timers, b)
      PROVE LockInv'
  <2>1. OneForGood' /\ Connected'
    BY <1>9, SettleConnected DEF OneForGood, Connected, socketVars
  <2> QED
    BY <1>9, <2>1, WaitsOn DEF socketVars
<1>10. ASSUME User, ~Type PROVE LockInv'
  <2>1. CASE \E i \in 1 .. MaxMsgs : CancelQueued(i)
    BY <1>9, <1>10, <2>1 DEF User, CancelQueued, serverVars
  <2>2. CASE NewChat
    BY <1>9, <1>10, <2>2 DEF User, NewChat, serverVars
  <2>3. CASE \E c \in Conv : convs[c] = "live" /\ Select(c, rows[c] # <<>>)
    BY <1>9, <1>10, <2>3 DEF User, Select, serverVars
  <2> QED
    BY <1>10, <2>1, <2>2, <2>3 DEF User
<1>11. ASSUME UserDeletes PROVE LockInv'
  BY <1>9, <1>11 DEF UserDeletes, DeleteShown, Server!DeleteConversation
<1>12. ASSUME Elsewhere PROVE LockInv'
  BY <1>9, <1>12 DEF Elsewhere, Server!CreateConversation, clientVars
<1>13. ASSUME UNCHANGED sysVars PROVE LockInv'
  BY <1>9, <1>13 DEF sysVars, clientVars, serverVars
<1>14. Page => (TimerFires \/ Reconnect \/ \E s \in Session : OnClose(s))
               /\ UNCHANGED <<serverVars, heard, asked>>
  BY DEF Page
<1>15. User => UNCHANGED <<serverVars, heard, asked>>
  BY DEF User
<1> QED
  BY <1>1, <1>2, <1>3, <1>4, <1>5, <1>6, <1>7, <1>8, <1>10, <1>11, <1>12, <1>13, <1>14, <1>15
  DEF Next, Network

LEMMA LockStart == Init => LockInv
BY DEF Init, ClientInit, Server!Init, LockInv, OneForGood, Connected, LockedOnlyWhileWaiting

\* While no connection drops and no token is refreshed, the input of the chat
\* (isProcessing in use-chat.ts) is locked only as long as the prompt that locked it
\* is on its way to the server, its turn runs, or the event that unlocks it is on
\* its way back: no order of prompts, drained queue entries, turns to another chat,
\* failed transactions and events leaves the user locked out with nothing to come.
THEOREM LockIsWaiting == ASSUME ~Unstable PROVE Spec => []LockedOnlyWhileWaiting
<1>1. Init => SysInv /\ LockInv
  BY SysInit, LockStart
<1>2. SysInv /\ LockInv /\ [Next]_sysVars => (SysInv /\ LockInv)'
  BY SysStep, LockStep
<1>3. LockInv => LockedOnlyWhileWaiting
  BY DEF LockInv
<1> QED
  BY <1>1, <1>2, <1>3, PTL DEF Spec

-----------------------------------------------------------------------------
(* What AgentSession promises holds of the server the tab talks to.         *)

\* Whatever the tab, its sockets and its user do, the conversation tables are
\* sound, what the tab is told of its replies agrees with them and with the
\* memory the next prompt is given, the tool rows are those whose events were
\* sent, and the server refines ConversationLog (agent.py, agent_session.py).
THEOREM ServerKeepsItsPromises ==
  Spec => /\ []Agents!ThreadsAreSound /\ []Agents!RepliesAreTrue
          /\ []Agents!ToolRowsMatchEvents /\ Agents!LogRefined
<1>1. Agents!Spec => []Agents!ThreadsAreSound
  BY Agents!ThreadsSound, ClientAssumption, SystemAssumption
<1>2. Agents!Spec => []Agents!RepliesAreTrue
  BY Agents!RepliesStayTrue, ClientAssumption, SystemAssumption
<1>3. Agents!Spec => []Agents!ToolRowsMatchEvents
  BY Agents!ToolRowsFollowEvents, ClientAssumption, SystemAssumption
<1>4. Agents!Spec => Agents!LogRefined
  BY Agents!ImplementsLog, ClientAssumption, SystemAssumption
<1>5. QED
  BY <1>1, <1>2, <1>3, <1>4, ServerIsAgentSession, PTL
=============================================================================
