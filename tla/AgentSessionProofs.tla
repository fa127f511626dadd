------------------------ MODULE AgentSessionProofs ------------------------
(***************************************************************************)
(* Proofs about AgentSession, for every number of connections,             *)
(* conversations, tools and turns: the types, the integrity of the stored  *)
(* threads, the refinement of ConversationLog, and what a client is told   *)
(* of its turns, its replies and their tool calls.                         *)
(***************************************************************************)
EXTENDS AgentSession, TLAPS

-----------------------------------------------------------------------------
(* Types.  An event carries the turn it belongs to, so typing them needs    *)
(* to know that a busy session has a turn.                                  *)

BusyHasTurn == \A s \in Session : Busy(s) => turn[s] \in Turn

TypeInv == TypeOK /\ BusyHasTurn

\* Dropping or sending well-formed events leaves the logs well-formed.
LEMMA EmitType ==
  ASSUME TypeOK, NEW s \in Session, NEW events \in Seq(Event), Emit(s, events)
  PROVE  sent' \in [Session -> Seq(Event)]
<1>1. sent[s] \o events \in Seq(Event)
  BY DEF TypeOK
<1>2. QED
  BY <1>1 DEF Emit, TypeOK

\* The events of process_message are well-formed once turn and conversation are.
LEMMA EvType ==
  ASSUME NEW s \in Session, turn'[s] \in Turn, current'[s] \in Conv \cup {None}
  PROVE  /\ \A k \in {"conversation_created", "user_prompt", "model_request_start",
                      "text_delta", "final_result", "message_saved", "complete",
                      "error"} : Ev(s, k) \in Event
         /\ \A k \in {"tool_call", "tool_result"}, t \in Tool :
              ToolEv(s, k, t) \in Event
BY DEF Ev, ToolEv, Event

\* Concatenations of one or two of them, as process_message sends them.
LEMMA SeqType ==
  ASSUME NEW a \in Event, NEW b \in Event
  PROVE  <<>> \in Seq(Event) /\ <<a>> \in Seq(Event) /\ <<a, b>> \in Seq(Event)
OBVIOUS

\* Appending an element of S to a sequence over S.
LEMMA AppendType ==
  ASSUME NEW S, NEW q \in Seq(S), NEW e \in S
  PROVE  Append(q, e) \in Seq(S)
OBVIOUS

LEMMA ElementType ==
  ASSUME NEW S, NEW q \in Seq(S), NEW i \in 1 .. Len(q)
  PROVE  q[i] \in S
OBVIOUS

\* Appending a row keeps the tables well-formed.
LEMMA StoreType ==
  ASSUME TypeOK, NEW c \in Conv, NEW t \in Turn, NEW r \in Role, Store(c, t, r)
  PROVE  /\ rows' \in [Conv -> Seq([role : Role, turn : Turn])]
         /\ wrote' \in [Turn -> [Role -> Conv \cup {None}]]
<1>1. [role |-> r, turn |-> t] \in [role : Role, turn : Turn]
  OBVIOUS
<1>2. Append(rows[c], [role |-> r, turn |-> t]) \in Seq([role : Role, turn : Turn])
  BY <1>1, rows[c] \in Seq([role : Role, turn : Turn]), AppendType DEF TypeOK
<1>3. rows' \in [Conv -> Seq([role : Role, turn : Turn])]
  BY <1>2 DEF Store, TypeOK
<1>4. wrote' \in [Turn -> [Role -> Conv \cup {None}]]
  BY DEF Store, TypeOK
<1>5. QED
  BY <1>3, <1>4

LEMMA TypeInit == Init => TypeInv
BY SessionAssumption DEF Init, TypeInv, TypeOK, BusyHasTurn, Busy, ConvState,
     CallState, Turn, Role

LEMMA TypeNext == TypeInv /\ [Next]_vars => TypeInv'
<1> SUFFICES ASSUME TypeInv, [Next]_vars PROVE TypeInv'
  OBVIOUS
<1> USE SessionAssumption
<1> USE DEF TypeInv, BusyHasTurn, Busy, db, run, Goto, Adopt, FreshRun
\* The events of the current turn, for the actions that keep the turn.
<1>ev. ASSUME NEW s \in Session, Busy(s), turn' = turn, NEW c \in Conv \cup {None},
              current' = [current EXCEPT ![s] = c]
       PROVE  /\ \A k \in {"conversation_created", "user_prompt",
                      "model_request_start", "text_delta", "final_result",
                      "message_saved", "complete", "error"} : Ev(s, k) \in Event
              /\ \A k \in {"tool_call", "tool_result"}, t \in Tool :
                   ToolEv(s, k, t) \in Event
  <2>1. turn'[s] \in Turn /\ current'[s] \in Conv \cup {None}
    BY <1>ev DEF TypeOK
  <2>2. QED
    BY <2>1, EvType
<1>same. ASSUME NEW s \in Session, UNCHANGED current
         PROVE  current' = [current EXCEPT ![s] = current[s]] /\ current[s] \in Conv \cup {None}
  BY <1>same DEF TypeOK
<1>1. ASSUME NEW s \in Session, Connect(s) PROVE TypeInv'
  BY <1>1 DEF TypeOK, Connect
<1>2. ASSUME NEW s \in Session, Disconnect(s) PROVE TypeInv'
  BY <1>2 DEF TypeOK, Disconnect
<1>3. ASSUME NEW s \in Session, EndLoop(s) PROVE TypeInv'
  BY <1>3 DEF TypeOK, EndLoop
<1>4. ASSUME NEW s \in Session, Crash(s) PROVE TypeInv'
  BY <1>4 DEF TypeOK, Crash
<1>5. ASSUME NEW s \in Session, NEW c \in Conv \cup {None}, Receive(s, c) PROVE TypeInv'
  <2>1. [t \in Tool |-> "none"] \in [Tool -> CallState]
    BY DEF CallState
  <2>2. calls' \in [Session -> [Tool -> CallState]]
    BY <1>5, <2>1 DEF Receive, TypeOK
  <2>3. turns + 1 \in Turn
    BY <1>5 DEF Receive, TypeOK, Turn
  <2>4. /\ turn' \in [Session -> 0 .. MaxTurns] /\ turn'[s] = turns + 1
        /\ \A z \in Session \ {s} : turn'[z] = turn[z] /\ pc'[z] = pc[z]
    BY <1>5, <2>3 DEF Receive, TypeOK, Turn
  <2>5. BusyHasTurn'
    BY <2>3, <2>4
  <2>6. /\ pc' \in [Session -> {"new", "idle", "persist", "start", "stream", "save", "ended"}]
        /\ requested' \in [Session -> Conv \cup {None}]
        /\ output' \in [Session -> BOOLEAN]
        /\ turns' \in 0 .. MaxTurns
    BY <1>5, <2>3 DEF Receive, TypeOK, Turn
  <2>7. QED
    BY <1>5, <2>2, <2>4, <2>5, <2>6 DEF Receive, TypeOK
<1>6. ASSUME NEW s \in Session, ReceiveBlank(s) PROVE TypeInv'
  <2>1. turns + 1 \in Turn /\ turn' \in [Session -> 0 .. MaxTurns] /\ turn'[s] = turns + 1
    BY <1>6 DEF ReceiveBlank, TypeOK, Turn
  <2>2. Ev(s, "error") \in Event
    BY <1>6, <2>1, EvType DEF ReceiveBlank, TypeOK
  <2>3. sent' \in [Session -> Seq(Event)]
    BY <1>6, <2>2, SeqType, EmitType DEF ReceiveBlank
  <2>4. QED
    BY <1>6, <2>1, <2>3 DEF ReceiveBlank, TypeOK, Turn
<1>7. ASSUME NEW s \in Session, PersistInExisting(s) PROVE TypeInv'
  <2> DEFINE c == IF requested[s] # None THEN requested[s] ELSE current[s]
  <2>1. c \in Conv /\ turn[s] \in Turn
    BY <1>7 DEF PersistInExisting, TypeOK
  <2>2. Ev(s, "user_prompt") \in Event
    BY <1>7, <1>ev, <2>1 DEF PersistInExisting
  <2>3. sent' \in [Session -> Seq(Event)]
    BY <1>7, <2>2, SeqType, EmitType DEF PersistInExisting
  <2>4. /\ rows' \in [Conv -> Seq([role : Role, turn : Turn])]
        /\ wrote' \in [Turn -> [Role -> Conv \cup {None}]]
    <3>1. CASE Store(c, turn[s], "user")
      BY <3>1, <2>1, StoreType DEF Role
    <3>2. CASE UNCHANGED <<rows, wrote>>
      BY <3>2 DEF TypeOK
    <3>3. QED
      BY <1>7, <3>1, <3>2 DEF PersistInExisting
  <2>5. current' \in [Session -> Conv \cup {None}]
    BY <1>7, <2>1 DEF PersistInExisting, TypeOK
  <2>6. QED
    BY <1>7, <2>3, <2>4, <2>5 DEF PersistInExisting, TypeOK
<1>8. ASSUME NEW s \in Session, PersistInNew(s) PROVE TypeInv'
  <2>1. PICK c \in Conv :
          /\ current' = [current EXCEPT ![s] = c]
          /\ \/ convs' = [convs EXCEPT ![c] = "live"] /\ Store(c, turn[s], "user")
             \/ convs' = [convs EXCEPT ![c] = "rolledback"] /\ UNCHANGED <<rows, wrote>>
    BY <1>8 DEF PersistInNew
  <2>2. turn[s] \in Turn
    BY <1>8 DEF PersistInNew
  <2>3. Ev(s, "user_prompt") \in Event /\ Ev(s, "conversation_created") \in Event
    BY <1>8, <1>ev, <2>1 DEF PersistInNew
  <2>4. sent' \in [Session -> Seq(Event)]
    BY <1>8, <2>3, SeqType, EmitType DEF PersistInNew
  <2>5. /\ rows' \in [Conv -> Seq([role : Role, turn : Turn])]
        /\ wrote' \in [Turn -> [Role -> Conv \cup {None}]]
    <3>1. CASE Store(c, turn[s], "user")
      BY <3>1, <2>2, StoreType DEF Role
    <3>2. CASE UNCHANGED <<rows, wrote>>
      BY <3>2 DEF TypeOK
    <3>3. QED
      BY <2>1, <3>1, <3>2
  <2>6. convs' \in [Conv -> ConvState]
    BY <2>1 DEF TypeOK, ConvState
  <2>7. QED
    BY <1>8, <2>1, <2>4, <2>5, <2>6 DEF PersistInNew, TypeOK
<1>9. ASSUME NEW s \in Session, PersistNothing(s) PROVE TypeInv'
  <2>1. Ev(s, "user_prompt") \in Event
    BY <1>9, <1>ev, <1>same DEF PersistNothing
  <2>2. sent' \in [Session -> Seq(Event)]
    BY <1>9, <2>1, SeqType, EmitType DEF PersistNothing
  <2>3. QED
    BY <1>9, <2>2 DEF PersistNothing, TypeOK
<1>10. ASSUME NEW s \in Session, StartStream(s) PROVE TypeInv'
  <2>1. Ev(s, "model_request_start") \in Event
    BY <1>10, <1>ev, <1>same DEF StartStream
  <2>2. sent' \in [Session -> Seq(Event)]
    BY <1>10, <2>1, SeqType, EmitType DEF StartStream
  <2>3. QED
    BY <1>10, <2>2 DEF StartStream, TypeOK
<1>11. ASSUME NEW s \in Session, FailTurn(s) PROVE TypeInv'
  <2>1. Ev(s, "error") \in Event
    BY <1>11, <1>ev, <1>same DEF FailTurn
  <2>2. sent' \in [Session -> Seq(Event)]
    BY <1>11, <2>1, SeqType, EmitType DEF FailTurn
  <2>3. QED
    BY <1>11, <2>2 DEF FailTurn, TypeOK
<1>12. ASSUME NEW s \in Session, TextChunk(s) PROVE TypeInv'
  <2>1. Ev(s, "text_delta") \in Event
    BY <1>12, <1>ev, <1>same DEF TextChunk
  <2>2. sent' \in [Session -> Seq(Event)]
    BY <1>12, <2>1, SeqType, EmitType DEF TextChunk
  <2>3. QED
    BY <1>12, <2>2 DEF TextChunk, TypeOK
<1>13. ASSUME NEW s \in Session, NEW t \in Tool, ToolChunk(s, t) PROVE TypeInv'
  <2>1. ToolEv(s, "tool_call", t) \in Event
    BY <1>13, <1>ev, <1>same DEF ToolChunk
  <2>2. sent' \in [Session -> Seq(Event)]
    BY <1>13, <2>1, SeqType, EmitType DEF ToolChunk
  <2>3. QED
    BY <1>13, <2>2 DEF ToolChunk, TypeOK, CallState
<1>14. ASSUME NEW s \in Session, NEW t \in Tool, ToolCalled(s, t) PROVE TypeInv'
  <2>1. ToolEv(s, "tool_call", t) \in Event
    BY <1>14, <1>ev, <1>same DEF ToolCalled
  <2>2. sent' \in [Session -> Seq(Event)]
    BY <1>14, <2>1, SeqType, EmitType DEF ToolCalled
  <2>3. QED
    BY <1>14, <2>2 DEF ToolCalled, TypeOK, CallState
<1>15. ASSUME NEW s \in Session, NEW t \in Tool, ToolResult(s, t) PROVE TypeInv'
  <2>1. ToolEv(s, "tool_result", t) \in Event
    BY <1>15, <1>ev, <1>same DEF ToolResult
  <2>2. sent' \in [Session -> Seq(Event)]
    BY <1>15, <2>1, SeqType, EmitType DEF ToolResult
  <2>3. PICK r \in {"done", "empty"} : calls' = [calls EXCEPT ![s][t] = r]
    BY <1>15 DEF ToolResult
  <2>4. calls' \in [Session -> [Tool -> CallState]]
    BY <2>3 DEF TypeOK, CallState
  <2>5. QED
    BY <1>15, <2>2, <2>4 DEF ToolResult, TypeOK
<1>16. ASSUME NEW s \in Session, FinishStream(s) PROVE TypeInv'
  <2>1. Ev(s, "final_result") \in Event /\ Ev(s, "complete") \in Event
    BY <1>16, <1>ev, <1>same DEF FinishStream
  <2>2. sent' \in [Session -> Seq(Event)]
    BY <1>16, <2>1, SeqType, EmitType DEF FinishStream
  <2>3. history' \in [Session -> Seq(Turn)]
    <3>1. turn[s] \in Turn
      BY <1>16 DEF FinishStream
    <3>2. Append(history[s], turn[s]) \in Seq(Turn)
      BY <3>1, history[s] \in Seq(Turn), AppendType DEF TypeOK
    <3>3. QED
      BY <1>16, <3>2 DEF FinishStream, TypeOK
  <2>4. QED
    BY <1>16, <2>2, <2>3 DEF FinishStream, TypeOK
<1>17. ASSUME NEW s \in Session, SaveReply(s) PROVE TypeInv'
  <2>1. Ev(s, "message_saved") \in Event /\ Ev(s, "complete") \in Event
    BY <1>17, <1>ev, <1>same DEF SaveReply
  <2>2. sent' \in [Session -> Seq(Event)]
    BY <1>17, <2>1, SeqType, EmitType DEF SaveReply
  <2>3. turn[s] \in Turn
    BY <1>17 DEF SaveReply
  <2>4. toolRows' \in [Turn -> [Tool -> {"absent", "running", "completed"}]]
    BY <1>17, <2>3 DEF SaveReply, TypeOK
  <2>5. CASE current[s] \in Conv
    <3>1. /\ rows' \in [Conv -> Seq([role : Role, turn : Turn])]
          /\ wrote' \in [Turn -> [Role -> Conv \cup {None}]]
      BY <1>17, <2>3, <2>5, StoreType DEF SaveReply, Role
    <3>2. QED
      BY <1>17, <2>2, <2>4, <3>1 DEF SaveReply, TypeOK
  <2>6. CASE current[s] = None
    <3>1. rows' = rows /\ wrote' \in [Turn -> [Role -> Conv \cup {None}]]
      BY <1>17, <2>3, <2>6 DEF SaveReply, Store, TypeOK, Role
    <3>2. QED
      BY <1>17, <2>2, <2>4, <3>1 DEF SaveReply, TypeOK
  <2>7. QED
    BY <2>5, <2>6 DEF TypeOK
<1>18. ASSUME NEW s \in Session, SaveFails(s) PROVE TypeInv'
  <2>1. Ev(s, "complete") \in Event
    BY <1>18, <1>ev, <1>same DEF SaveFails
  <2>2. sent' \in [Session -> Seq(Event)]
    BY <1>18, <2>1, SeqType, EmitType DEF SaveFails
  <2>3. QED
    BY <1>18, <2>2 DEF SaveFails, TypeOK
<1>19. ASSUME NEW c \in Conv, DeleteConversation(c) PROVE TypeInv'
  <2>1. convs' \in [Conv -> ConvState]
    BY <1>19 DEF DeleteConversation, TypeOK, ConvState
  <2>2. rows' \in [Conv -> Seq([role : Role, turn : Turn])]
    BY <1>19, <<>> \in Seq([role : Role, turn : Turn]) DEF DeleteConversation, TypeOK
  <2>3. QED
    BY <1>19, <2>1, <2>2 DEF DeleteConversation, TypeOK
<1>create. ASSUME NEW c \in Conv, CreateConversation(c) PROVE TypeInv'
  <2>1. convs' \in [Conv -> ConvState]
    BY <1>create DEF CreateConversation, TypeOK, ConvState
  <2>2. QED
    BY <1>create, <2>1 DEF CreateConversation, TypeOK
<1>20. CASE UNCHANGED vars
  BY <1>20 DEF vars, TypeOK
<1>21. QED
  BY <1>1, <1>2, <1>3, <1>4, <1>5, <1>6, <1>7, <1>8, <1>9, <1>10, <1>11, <1>12,
     <1>13, <1>14, <1>15, <1>16, <1>17, <1>18, <1>19, <1>create, <1>20
     DEF Next, Step, Stream, Environment

\* Every reachable state is well-typed, whatever connects, fails or crashes.
THEOREM TypeCorrect == Spec => []TypeOK
<1>1. TypeInv => TypeOK
  BY DEF TypeInv
<1>2. QED
  BY <1>1, TypeInit, TypeNext, PTL DEF Spec

-----------------------------------------------------------------------------
(* The stored threads.  A turn is written by one session only, which finds  *)
(* its prompt's place empty when it persists and its reply's place empty    *)
(* until it saves; the rows of the tables then follow from what was written.*)

TurnsOwned ==
  /\ \A t \in Turn : t > turns => \A r \in Role : wrote[t][r] = None
  /\ \A s \in Session : turn[s] <= turns
  /\ \A s, z \in Session : Busy(s) /\ Busy(z) /\ s # z => turn[s] # turn[z]

WrittenSoFar ==
  \A s \in Session :
    /\ pc[s] = "persist" => \A r \in Role : wrote[turn[s]][r] = None
    /\ pc[s] \in {"start", "stream", "save"} =>
         /\ wrote[turn[s]]["assistant"] = None
         /\ wrote[turn[s]]["user"] \in {None, current[s]}
    /\ pc[s] = "save" => current[s] # None

IInv == TypeInv /\ TurnsOwned /\ WrittenSoFar /\ ThreadsAreSound

\* Storing a message whose place is still empty keeps the threads in order.
LEMMA StoreKeepsThreads ==
  ASSUME TypeOK, ThreadsAreSound,
         NEW c \in Conv, NEW t \in Turn, NEW r \in Role,
         wrote[t][r] = None,
         r = "user" => wrote[t]["assistant"] = None,
         r = "assistant" => wrote[t]["user"] \in {None, c},
         Store(c, t, r),
         convs'[c] = "live", \A d \in Conv \ {c} : convs'[d] = convs[d]
  PROVE  ThreadsAreSound'
<1> USE SessionAssumption
<1> DEFINE row == [role |-> r, turn |-> t]
<1>1. /\ rows[c] \in Seq([role : Role, turn : Turn])
      /\ rows'[c] = Append(rows[c], row)
      /\ \A d \in Conv \ {c} : rows'[d] = rows[d]
  BY DEF Store, TypeOK
<1>2. /\ Len(rows'[c]) = Len(rows[c]) + 1
      /\ rows'[c][Len(rows[c]) + 1] = row
      /\ \A i \in 1 .. Len(rows[c]) : rows'[c][i] = rows[c][i]
  BY <1>1
<1>3. /\ wrote'[t][r] = c
      /\ \A n \in Turn, q \in Role : n # t \/ q # r => wrote'[n][q] = wrote[n][q]
  BY DEF Store, TypeOK
<1>4. \A d \in Conv : \A i \in 1 .. Len(rows[d]) :
        /\ rows[d][i].turn \in Turn /\ rows[d][i].role \in Role
        /\ rows[d][i].turn # t \/ rows[d][i].role # r
        /\ wrote[rows[d][i].turn][rows[d][i].role] = d
  <2> SUFFICES ASSUME NEW d \in Conv, NEW i \in 1 .. Len(rows[d])
               PROVE  /\ rows[d][i].turn \in Turn /\ rows[d][i].role \in Role
                      /\ rows[d][i].turn # t \/ rows[d][i].role # r
                      /\ wrote[rows[d][i].turn][rows[d][i].role] = d
    OBVIOUS
  <2>1. rows[d] \in Seq([role : Role, turn : Turn])
    BY DEF TypeOK
  <2>2. rows[d][i] \in [role : Role, turn : Turn]
    BY <2>1, ElementType
  <2>3. wrote[rows[d][i].turn][rows[d][i].role] = d
    BY DEF ThreadsAreSound, RowsAreStored
  <2>4. QED
    BY <2>2, <2>3
<1>5. OneThreadPerTurn'
  <2> SUFFICES ASSUME NEW n \in Turn, wrote'[n]["user"] # None, wrote'[n]["assistant"] # None
               PROVE  wrote'[n]["user"] = wrote'[n]["assistant"]
    BY DEF OneThreadPerTurn
  <2>1. CASE n # t
    BY <2>1, <1>3 DEF ThreadsAreSound, OneThreadPerTurn, Role
  <2>2. CASE n = t
    BY <2>2, <1>3 DEF Role
  <2>3. QED
    BY <2>1, <2>2
<1>6. ThreadOrder'
  <2> SUFFICES ASSUME NEW d \in Conv, NEW i \in 1 .. Len(rows'[d]), NEW j \in 1 .. Len(rows'[d]),
                      i < j, rows'[d][i].turn = rows'[d][j].turn
               PROVE  rows'[d][i].role = "user" /\ rows'[d][j].role = "assistant"
    BY DEF ThreadOrder
  <2>1. CASE d # c
    BY <2>1, <1>1 DEF ThreadsAreSound, ThreadOrder
  <2>2. CASE d = c /\ j # Len(rows[c]) + 1
    <3>1. i \in 1 .. Len(rows[c]) /\ j \in 1 .. Len(rows[c])
      BY <2>2, <1>1, <1>2
    <3>2. rows'[d][i] = rows[c][i] /\ rows'[d][j] = rows[c][j]
      BY <2>2, <3>1, <1>2
    <3>3. rows[c][i].turn = rows[c][j].turn
      BY <3>2
    <3>4. rows[c][i].role = "user" /\ rows[c][j].role = "assistant"
      BY <3>1, <3>3 DEF ThreadsAreSound, ThreadOrder
    <3>5. QED
      BY <3>2, <3>4
  <2>3. CASE d = c /\ j = Len(rows[c]) + 1
    <3>1. i \in 1 .. Len(rows[c])
      BY <2>3, <1>1, <1>2
    <3>2. rows[c][i].turn = t /\ rows[c][i].role # r
      BY <2>3, <3>1, <1>2, <1>4
    <3>3. wrote[t][rows[c][i].role] = c
      BY <3>1, <3>2, <1>4
    <3>4. r = "assistant" /\ rows[c][i].role = "user"
      BY <3>1, <3>2, <3>3, <1>4 DEF Role
    <3>5. QED
      BY <2>3, <3>1, <3>4, <1>2
  <2>4. QED
    BY <2>1, <2>2, <2>3
<1>7. RowsAreStored'
  <2> SUFFICES ASSUME NEW d \in Conv
               PROVE  /\ \A i \in 1 .. Len(rows'[d]) :
                            wrote'[rows'[d][i].turn][rows'[d][i].role] = d
                      /\ rows'[d] # <<>> => convs'[d] = "live"
    BY DEF RowsAreStored
  <2>1. CASE d # c
    BY <2>1, <1>1, <1>3, <1>4 DEF ThreadsAreSound, RowsAreStored
  <2>2. CASE d = c
    <3> SUFFICES ASSUME NEW i \in 1 .. Len(rows'[c])
                 PROVE  wrote'[rows'[c][i].turn][rows'[c][i].role] = c
      BY <2>2
    <3>1. CASE i = Len(rows[c]) + 1
      BY <3>1, <1>2, <1>3
    <3>2. CASE i # Len(rows[c]) + 1
      <4>1. i \in 1 .. Len(rows[c])
        BY <3>2, <1>1, <1>2
      <4>2. rows'[c][i] = rows[c][i]
        BY <4>1, <1>2
      <4>3. wrote'[rows[c][i].turn][rows[c][i].role] = wrote[rows[c][i].turn][rows[c][i].role]
        BY <4>1, <1>3, <1>4
      <4>4. QED
        BY <4>1, <4>2, <4>3, <1>4
    <3>3. QED
      BY <3>1, <3>2
  <2>3. QED
    BY <2>1, <2>2
<1>8. QED
  BY <1>5, <1>6, <1>7 DEF ThreadsAreSound

\* A step that leaves tables and turns alone and moves a session forward.
LEMMA QuietStep ==
  ASSUME IInv, TypeOK', NEW s \in Session,
         UNCHANGED <<convs, rows, wrote, turns, turn, current>>,
         \A z \in Session \ {s} : pc'[z] = pc[z],
         pc'[s] = "persist" => pc[s] = "persist",
         pc'[s] \in {"start", "stream", "save"} => Busy(s),
         pc'[s] = "save" => current[s] # None
  PROVE  TurnsOwned' /\ WrittenSoFar' /\ ThreadsAreSound'
<1>1. \A z \in Session : Busy(z)' => Busy(z)
  BY DEF Busy
<1>2. TurnsOwned'
  BY <1>1 DEF IInv, TurnsOwned
<1>3. WrittenSoFar'
  <2> SUFFICES ASSUME NEW z \in Session
               PROVE  /\ pc'[z] = "persist" => \A r \in Role : wrote[turn[z]][r] = None
                      /\ pc'[z] \in {"start", "stream", "save"} =>
                           /\ wrote[turn[z]]["assistant"] = None
                           /\ wrote[turn[z]]["user"] \in {None, current[z]}
                      /\ pc'[z] = "save" => current[z] # None
    BY DEF WrittenSoFar
  <2>1. CASE z # s
    BY <2>1 DEF IInv, WrittenSoFar
  <2>2. CASE z = s
    BY <2>2 DEF IInv, WrittenSoFar, Busy, Role
  <2>3. QED
    BY <2>1, <2>2
<1>4. ThreadsAreSound'
  BY DEF IInv, ThreadsAreSound, OneThreadPerTurn, ThreadOrder, RowsAreStored
<1>5. QED
  BY <1>2, <1>3, <1>4

\* A new prompt takes a turn nobody has, whose places are empty.
LEMMA NewTurn ==
  ASSUME IInv, TypeOK', NEW s \in Session,
         turns < MaxTurns, turns' = turns + 1, turn' = [turn EXCEPT ![s] = turns + 1],
         UNCHANGED <<convs, rows, wrote, current>>,
         \A z \in Session \ {s} : pc'[z] = pc[z],
         pc'[s] \in {"idle", "persist"}
  PROVE  TurnsOwned' /\ WrittenSoFar' /\ ThreadsAreSound'
<1> USE SessionAssumption
<1>1. /\ turns \in Nat /\ turns + 1 \in Turn /\ turn'[s] = turns + 1
      /\ \A z \in Session : turn[z] \in Nat /\ turn[z] <= turns
      /\ \A z \in Session \ {s} : turn'[z] = turn[z] /\ pc'[z] = pc[z]
  BY DEF IInv, TypeInv, TypeOK, TurnsOwned, Turn
<1>2. \A r \in Role : wrote[turns + 1][r] = None
  BY <1>1 DEF IInv, TurnsOwned
<1>3. TurnsOwned'
  <2>1. \A t \in Turn : t > turns + 1 => \A r \in Role : wrote[t][r] = None
    BY <1>1 DEF IInv, TurnsOwned, Turn
  <2>2. \A z \in Session : turn'[z] <= turns + 1
    BY <1>1
  <2>3. \A y, z \in Session : Busy(y)' /\ Busy(z)' /\ y # z => turn'[y] # turn'[z]
    <3> SUFFICES ASSUME NEW y \in Session, NEW z \in Session, Busy(y)', Busy(z)', y # z
                 PROVE  turn'[y] # turn'[z]
      OBVIOUS
    <3>1. CASE y # s /\ z # s
      BY <3>1, <1>1 DEF IInv, TurnsOwned, Busy
    <3>2. CASE y = s \/ z = s
      BY <3>2, <1>1
    <3>3. QED
      BY <3>1, <3>2
  <2>4. QED
    BY <2>1, <2>2, <2>3 DEF TurnsOwned
<1>4. WrittenSoFar'
  BY <1>1, <1>2 DEF IInv, WrittenSoFar
<1>5. ThreadsAreSound'
  BY DEF IInv, ThreadsAreSound, OneThreadPerTurn, ThreadOrder, RowsAreStored
<1>6. QED
  BY <1>3, <1>4, <1>5

\* What a session stores for its turn disturbs no other session's turn.
LEMMA StoreStep ==
  ASSUME IInv, TypeOK', NEW s \in Session, Busy(s), turn[s] \in Turn,
         NEW c \in Conv, NEW r \in Role, Store(c, turn[s], r),
         UNCHANGED <<turns, turn>>,
         \A z \in Session \ {s} : pc'[z] = pc[z] /\ current'[z] = current[z],
         \/ pc'[s] = "idle"
         \/ r = "user" /\ pc'[s] = "start" /\ current'[s] = c
              /\ wrote[turn[s]]["assistant"] = None
  PROVE  TurnsOwned' /\ WrittenSoFar'
<1> USE SessionAssumption
<1>1. \A t \in Turn \ {turn[s]} : wrote'[t] = wrote[t]
  BY DEF Store, IInv, TypeInv, TypeOK
<1>2. wrote'[turn[s]][r] = c /\ \A q \in Role \ {r} : wrote'[turn[s]][q] = wrote[turn[s]][q]
  BY DEF Store, IInv, TypeInv, TypeOK
<1>3. \A z \in Session : Busy(z)' => Busy(z)
  BY DEF Busy
<1>4. \A z \in Session \ {s} : Busy(z) => turn[z] \in Turn \ {turn[s]}
  BY DEF IInv, TypeInv, BusyHasTurn, TurnsOwned
<1>5. turn[s] <= turns
  BY DEF IInv, TurnsOwned
<1>6. TurnsOwned'
  <2>1. \A t \in Turn : t > turns => t # turn[s]
    BY <1>5 DEF IInv, TypeInv, TypeOK, Turn
  <2>2. \A t \in Turn : t > turns => \A q \in Role : wrote'[t][q] = None
    BY <1>1, <2>1 DEF IInv, TurnsOwned
  <2>3. QED
    BY <1>3, <2>2 DEF IInv, TurnsOwned
<1>7. WrittenSoFar'
  <2> SUFFICES ASSUME NEW z \in Session
               PROVE  /\ pc'[z] = "persist" => \A q \in Role : wrote'[turn[z]][q] = None
                      /\ pc'[z] \in {"start", "stream", "save"} =>
                           /\ wrote'[turn[z]]["assistant"] = None
                           /\ wrote'[turn[z]]["user"] \in {None, current'[z]}
                      /\ pc'[z] = "save" => current'[z] # None
    BY DEF WrittenSoFar
  <2>1. CASE z # s
    BY <2>1, <1>1, <1>4 DEF IInv, WrittenSoFar, Busy
  <2>2. CASE z = s
    BY <2>2, <1>2 DEF Role
  <2>3. QED
    BY <2>1, <2>2
<1>8. QED
  BY <1>6, <1>7

\* A persist_user_turn whose transaction rolls back: only the session moves on.
LEMMA SkipStore ==
  ASSUME IInv, TypeOK', NEW s \in Session, pc[s] = "persist", pc'[s] = "start",
         UNCHANGED <<rows, wrote, turns, turn>>,
         \A z \in Session \ {s} : pc'[z] = pc[z] /\ current'[z] = current[z],
         \A c \in Conv : rows[c] # <<>> => convs'[c] = convs[c]
  PROVE  TurnsOwned' /\ WrittenSoFar' /\ ThreadsAreSound'
<1>1. \A z \in Session : Busy(z)' => Busy(z)
  BY DEF Busy
<1>2. TurnsOwned'
  BY <1>1 DEF IInv, TurnsOwned
<1>3. WrittenSoFar'
  BY DEF IInv, WrittenSoFar, Role
<1>4. ThreadsAreSound'
  BY DEF IInv, ThreadsAreSound, OneThreadPerTurn, ThreadOrder, RowsAreStored
<1>5. QED
  BY <1>2, <1>3, <1>4


LEMMA IInvInit == Init => IInv
BY TypeInit DEF Init, IInv, TypeInv, TypeOK, BusyHasTurn, TurnsOwned, WrittenSoFar, Busy, ThreadsAreSound,
   OneThreadPerTurn, ThreadOrder, RowsAreStored, Turn, Role

LEMMA IInvNext == IInv /\ [Next]_vars => IInv'
<1> SUFFICES ASSUME IInv, [Next]_vars PROVE IInv'
  OBVIOUS
<1> USE SessionAssumption
<1> DEFINE Kept == TurnsOwned' /\ WrittenSoFar' /\ ThreadsAreSound'
<1>type. TypeInv' /\ TypeOK /\ TypeOK'
  BY TypeNext DEF IInv, TypeInv
<1>1. ASSUME NEW s \in Session, Connect(s) PROVE Kept
  BY <1>1, <1>type, QuietStep DEF Connect, db, Busy, Goto, TypeOK
<1>2. ASSUME NEW s \in Session, Disconnect(s) PROVE Kept
  BY <1>2, <1>type, QuietStep DEF Disconnect, db, Busy, TypeOK, IInv, WrittenSoFar
<1>3. ASSUME NEW s \in Session, EndLoop(s) PROVE Kept
  BY <1>3, <1>type, QuietStep DEF EndLoop, db, Busy, Goto, TypeOK
<1>4. ASSUME NEW s \in Session, Crash(s) PROVE Kept
  BY <1>4, <1>type, QuietStep DEF Crash, db, Busy, Goto, TypeOK
<1>5. ASSUME NEW s \in Session, PersistNothing(s) PROVE Kept
  BY <1>5, <1>type, QuietStep DEF PersistNothing, db, Busy, Goto, TypeOK
<1>6. ASSUME NEW s \in Session, StartStream(s) PROVE Kept
  BY <1>6, <1>type, QuietStep DEF StartStream, db, Busy, Goto, TypeOK
<1>7. ASSUME NEW s \in Session, FailTurn(s) PROVE Kept
  BY <1>7, <1>type, QuietStep DEF FailTurn, db, Busy, Goto, TypeOK
<1>8. ASSUME NEW s \in Session, TextChunk(s) PROVE Kept
  BY <1>8, <1>type, QuietStep DEF TextChunk, db, Busy, Goto, TypeOK
<1>9. ASSUME NEW s \in Session, NEW t \in Tool, ToolChunk(s, t) PROVE Kept
  BY <1>9, <1>type, QuietStep DEF ToolChunk, db, Busy, Goto, TypeOK
<1>10. ASSUME NEW s \in Session, NEW t \in Tool, ToolCalled(s, t) PROVE Kept
  BY <1>10, <1>type, QuietStep DEF ToolCalled, db, Busy, Goto, TypeOK
<1>11. ASSUME NEW s \in Session, NEW t \in Tool, ToolResult(s, t) PROVE Kept
  BY <1>11, <1>type, QuietStep DEF ToolResult, db, Busy, Goto, TypeOK
<1>12. ASSUME NEW s \in Session, FinishStream(s) PROVE Kept
  BY <1>12, <1>type, QuietStep DEF FinishStream, db, Busy, Goto, TypeOK
<1>13. ASSUME NEW s \in Session, SaveFails(s) PROVE Kept
  BY <1>13, <1>type, QuietStep DEF SaveFails, db, Busy, Goto, TypeOK
<1>14. ASSUME NEW s \in Session, NEW c \in Conv \cup {None}, Receive(s, c) PROVE Kept
  BY <1>14, <1>type, NewTurn DEF Receive, db, Goto, TypeOK
<1>15. ASSUME NEW s \in Session, ReceiveBlank(s) PROVE Kept
  BY <1>15, <1>type, NewTurn DEF ReceiveBlank, db, TypeOK
<1>16. ASSUME NEW s \in Session, PersistInExisting(s) PROVE Kept
  <2> DEFINE c == IF requested[s] # None THEN requested[s] ELSE current[s]
  <2>1. /\ c \in Conv /\ Busy(s) /\ turn[s] \in Turn
        /\ current'[s] = c /\ pc'[s] = "start"
        /\ \A z \in Session \ {s} : pc'[z] = pc[z] /\ current'[z] = current[z]
        /\ \A r \in Role : wrote[turn[s]][r] = None
    BY <1>16 DEF PersistInExisting, Adopt, IInv, TypeInv, TypeOK, BusyHasTurn, Busy, Goto, WrittenSoFar
  <2>2. CASE convs[c] = "live" /\ Store(c, turn[s], "user")
    <3>1. TurnsOwned' /\ WrittenSoFar'
      BY <1>16, <1>type, <2>1, <2>2, StoreStep DEF PersistInExisting, Role
    <3>2. ThreadsAreSound'
      BY <1>16, <1>type, <2>1, <2>2, StoreKeepsThreads DEF PersistInExisting, Role, IInv
    <3>3. QED
      BY <3>1, <3>2
  <2>3. CASE UNCHANGED <<rows, wrote>>
    BY <1>16, <1>type, <2>1, <2>3, SkipStore DEF PersistInExisting
  <2>4. QED
    BY <1>16, <2>2, <2>3 DEF PersistInExisting
<1>17. ASSUME NEW s \in Session, PersistInNew(s) PROVE Kept
  <2>1. PICK c \in Conv :
          /\ convs[c] = "unused"
          /\ current' = [current EXCEPT ![s] = c]
          /\ \/ convs' = [convs EXCEPT ![c] = "live"] /\ Store(c, turn[s], "user")
             \/ convs' = [convs EXCEPT ![c] = "rolledback"] /\ UNCHANGED <<rows, wrote>>
    BY <1>17 DEF PersistInNew, Adopt
  <2>2. /\ Busy(s) /\ turn[s] \in Turn
        /\ current'[s] = c /\ pc'[s] = "start"
        /\ \A z \in Session \ {s} : pc'[z] = pc[z] /\ current'[z] = current[z]
        /\ \A r \in Role : wrote[turn[s]][r] = None
        /\ \A d \in Conv \ {c} : convs'[d] = convs[d]
        /\ rows[c] = <<>>
    BY <1>17, <2>1 DEF PersistInNew, IInv, TypeInv, TypeOK, BusyHasTurn, Busy, Goto, WrittenSoFar,
                       ThreadsAreSound, RowsAreStored
  <2>3. CASE convs' = [convs EXCEPT ![c] = "live"] /\ Store(c, turn[s], "user")
    <3>1. TurnsOwned' /\ WrittenSoFar'
      BY <1>17, <1>type, <2>2, <2>3, StoreStep DEF PersistInNew, Role
    <3>2. convs'[c] = "live"
      BY <2>3, <1>type DEF TypeOK
    <3>3. ThreadsAreSound'
      BY <1>17, <1>type, <2>2, <2>3, <3>2, StoreKeepsThreads DEF PersistInNew, Role, IInv
    <3>4. QED
      BY <3>1, <3>3
  <2>4. CASE convs' = [convs EXCEPT ![c] = "rolledback"] /\ UNCHANGED <<rows, wrote>>
    BY <1>17, <1>type, <2>2, <2>4, SkipStore DEF PersistInNew
  <2>5. QED
    BY <2>1, <2>3, <2>4
<1>18. ASSUME NEW s \in Session, SaveReply(s) PROVE Kept
  <2>1. /\ current[s] \in Conv /\ Busy(s) /\ turn[s] \in Turn
        /\ pc'[s] = "idle"
        /\ \A z \in Session \ {s} : pc'[z] = pc[z]
        /\ wrote[turn[s]]["assistant"] = None
        /\ wrote[turn[s]]["user"] \in {None, current[s]}
    BY <1>18 DEF SaveReply, IInv, TypeInv, TypeOK, BusyHasTurn, Busy, Goto, WrittenSoFar
  <2>2. TurnsOwned' /\ WrittenSoFar'
    BY <1>18, <1>type, <2>1, StoreStep DEF SaveReply, Role
  <2>3. ThreadsAreSound'
    BY <1>18, <1>type, <2>1, StoreKeepsThreads DEF SaveReply, Role, IInv
  <2>4. QED
    BY <2>2, <2>3
<1>19. ASSUME NEW c \in Conv, DeleteConversation(c) PROVE Kept
  <2>1. /\ rows'[c] = <<>>
        /\ \A d \in Conv \ {c} : rows'[d] = rows[d] /\ convs'[d] = convs[d]
    BY <1>19, <1>type DEF DeleteConversation, TypeOK
  <2>2. TurnsOwned' /\ WrittenSoFar' /\ OneThreadPerTurn'
    BY <1>19 DEF DeleteConversation, IInv, ThreadsAreSound, TurnsOwned, WrittenSoFar, Busy, OneThreadPerTurn
  <2>3. ThreadOrder'
    <3> SUFFICES ASSUME NEW d \in Conv, NEW i \in 1 .. Len(rows'[d]), NEW j \in 1 .. Len(rows'[d]),
                        i < j, rows'[d][i].turn = rows'[d][j].turn
                 PROVE  rows'[d][i].role = "user" /\ rows'[d][j].role = "assistant"
      BY DEF ThreadOrder
    <3>1. CASE d = c
      BY <2>1, <3>1
    <3>2. CASE d # c
      BY <2>1, <3>2 DEF IInv, ThreadsAreSound, ThreadOrder
    <3>3. QED
      BY <3>1, <3>2
  <2>4. RowsAreStored'
    <3> SUFFICES ASSUME NEW d \in Conv
                 PROVE  /\ \A i \in 1 .. Len(rows'[d]) :
                              wrote'[rows'[d][i].turn][rows'[d][i].role] = d
                        /\ rows'[d] # <<>> => convs'[d] = "live"
      BY DEF RowsAreStored
    <3>1. CASE d = c
      BY <2>1, <3>1
    <3>2. CASE d # c
      BY <1>19, <2>1, <3>2 DEF DeleteConversation, IInv, ThreadsAreSound, RowsAreStored
    <3>3. QED
      BY <3>1, <3>2
  <2>5. QED
    BY <2>2, <2>3, <2>4 DEF ThreadsAreSound
<1>create. ASSUME NEW c \in Conv, CreateConversation(c) PROVE Kept
  <2>1. \A d \in Conv : rows[d] # <<>> => convs'[d] = "live"
    BY <1>create DEF CreateConversation, IInv, TypeInv, TypeOK, ThreadsAreSound, RowsAreStored
  <2>2. TurnsOwned' /\ WrittenSoFar' /\ OneThreadPerTurn' /\ ThreadOrder'
    BY <1>create DEF CreateConversation, IInv, ThreadsAreSound, TurnsOwned, WrittenSoFar, Busy,
                     OneThreadPerTurn, ThreadOrder
  <2>3. RowsAreStored'
    BY <1>create, <2>1 DEF CreateConversation, IInv, ThreadsAreSound, RowsAreStored
  <2>4. QED
    BY <2>2, <2>3 DEF ThreadsAreSound
<1>20. ASSUME UNCHANGED vars PROVE Kept
  <2>1. TurnsOwned'
    BY <1>20 DEF vars, IInv, TurnsOwned, Busy
  <2>2. WrittenSoFar'
    BY <1>20 DEF vars, IInv, WrittenSoFar
  <2>3. ThreadsAreSound'
    BY <1>20 DEF vars, IInv, ThreadsAreSound, OneThreadPerTurn, ThreadOrder, RowsAreStored
  <2>4. QED
    BY <2>1, <2>2, <2>3
<1> HIDE DEF Kept
<1>21. Kept
  BY <1>1, <1>2, <1>3, <1>4, <1>5, <1>6, <1>7, <1>8, <1>9, <1>10, <1>11,
     <1>12, <1>13, <1>14, <1>15, <1>16, <1>17, <1>18, <1>19, <1>create, <1>20
     DEF Next, Step, Stream, Environment
<1>22. QED
  BY <1>type, <1>21 DEF IInv, Kept

\* For any number of connections writing any conversations, with transactions
\* failing at any point, the tables are sound: prompt and reply of a turn are in
\* one conversation, in order and once, and rollbacks and deletions leave no row
\* behind.
THEOREM ThreadsSound == Spec => []ThreadsAreSound
<1>1. IInv => ThreadsAreSound
  BY DEF IInv
<1>2. QED
  BY <1>1, IInvInit, IInvNext, PTL DEF Spec

-----------------------------------------------------------------------------
(* AgentSession implements ConversationLog: the tables and the record of     *)
(* what was written are mapped to themselves, so only the transactions of    *)
(* persist_user_turn and persist_assistant_turn and the deletion map to      *)
(* steps, and the invariant gives the guards of Prompt, Begin and Reply.     *)

LEMMA LogStarts == Init => Log!LogInit
BY DEF Init, Log!LogInit, Role, Log!Role

LEMMA LogSteps == IInv /\ [Next]_vars => [Log!LogNext]_Log!logVars
<1> SUFFICES ASSUME IInv, [Next]_vars PROVE [Log!LogNext]_Log!logVars
  OBVIOUS
<1> USE SessionAssumption
<1> DEFINE Mapped == [Log!LogNext]_Log!logVars
<1>store. ASSUME NEW c \in Conv, NEW t \in Turn, NEW r \in Role, Store(c, t, r)
          PROVE  Log!Store(c, t, r)
  BY <1>store DEF Store, Log!Store
<1>1. ASSUME NEW s \in Session, PersistInExisting(s) PROVE Mapped
  <2> DEFINE c == IF requested[s] # None THEN requested[s] ELSE current[s]
  <2>1. c \in Conv /\ turn[s] \in Turn /\ \A r \in Role : wrote[turn[s]][r] = None
    BY <1>1 DEF PersistInExisting, IInv, TypeInv, TypeOK, BusyHasTurn, Busy, WrittenSoFar
  <2>2. CASE convs[c] = "live" /\ Store(c, turn[s], "user")
    <3>1. Log!Prompt(c, turn[s])
      BY <1>1, <1>store, <2>1, <2>2 DEF PersistInExisting, Log!Prompt, Role, Log!Role
    <3>2. QED
      BY <2>1, <3>1 DEF Log!LogNext
  <2>3. CASE UNCHANGED <<rows, wrote>>
    BY <1>1, <2>3 DEF PersistInExisting, Log!logVars
  <2>4. QED
    BY <1>1, <2>2, <2>3 DEF PersistInExisting
<1>2. ASSUME NEW s \in Session, PersistInNew(s) PROVE Mapped
  <2>1. PICK c \in Conv :
          /\ convs[c] = "unused"
          /\ \/ convs' = [convs EXCEPT ![c] = "live"] /\ Store(c, turn[s], "user")
             \/ convs' = [convs EXCEPT ![c] = "rolledback"] /\ UNCHANGED <<rows, wrote>>
    BY <1>2 DEF PersistInNew
  <2>2. turn[s] \in Turn /\ \A r \in Role : wrote[turn[s]][r] = None
    BY <1>2 DEF PersistInNew, IInv, TypeInv, BusyHasTurn, Busy, WrittenSoFar
  <2>3. CASE convs' = [convs EXCEPT ![c] = "live"] /\ Store(c, turn[s], "user")
    <3>1. Log!Begin(c, turn[s])
      BY <1>store, <2>1, <2>2, <2>3 DEF Log!Begin, Role, Log!Role
    <3>2. QED
      BY <2>2, <3>1 DEF Log!LogNext
  <2>4. CASE convs' = [convs EXCEPT ![c] = "rolledback"] /\ UNCHANGED <<rows, wrote>>
    BY <2>1, <2>4 DEF Log!LogNext, Log!Abandon
  <2>5. QED
    BY <2>1, <2>3, <2>4
<1>3. ASSUME NEW s \in Session, SaveReply(s) PROVE Mapped
  <2>1. /\ current[s] \in Conv /\ turn[s] \in Turn
        /\ wrote[turn[s]]["assistant"] = None
        /\ wrote[turn[s]]["user"] \in {None, current[s]}
    BY <1>3 DEF SaveReply, IInv, TypeInv, TypeOK, BusyHasTurn, Busy, WrittenSoFar
  <2>2. Log!Reply(current[s], turn[s])
    BY <1>3, <1>store, <2>1 DEF SaveReply, Log!Reply, Role, Log!Role
  <2>3. QED
    BY <2>1, <2>2 DEF Log!LogNext
<1>4. ASSUME NEW c \in Conv, DeleteConversation(c) PROVE Mapped
  <2>1. Log!Remove(c)
    BY <1>4 DEF DeleteConversation, Log!Remove
  <2>2. QED
    BY <2>1 DEF Log!LogNext
<1>create. ASSUME NEW c \in Conv, CreateConversation(c) PROVE Mapped
  <2>1. Log!Create(c)
    BY <1>create DEF CreateConversation, Log!Create
  <2>2. QED
    BY <2>1 DEF Log!LogNext
<1>5. ASSUME NEW s \in Session,
             \/ PersistNothing(s) \/ StartStream(s) \/ FailTurn(s) \/ FinishStream(s)
             \/ SaveFails(s) \/ Stream(s) \/ Environment(s)
      PROVE  Mapped
  BY <1>5 DEF PersistNothing, StartStream, FailTurn, FinishStream, SaveFails, Stream, TextChunk,
              ToolChunk, ToolCalled, ToolResult, Environment, Connect, Disconnect, EndLoop, Crash,
              Receive, ReceiveBlank, db, Log!logVars
<1>6. CASE UNCHANGED vars
  BY <1>6 DEF vars, Log!logVars
<1>7. QED
  BY <1>1, <1>2, <1>3, <1>4, <1>create, <1>5, <1>6 DEF Next, Step

\* Connections, failures, crashes and deletions never take the stored threads
\* out of what ConversationLog promises.
THEOREM ImplementsLog == Spec => LogRefined
BY LogStarts, LogSteps, IInvInit, IInvNext, PTL DEF Spec, LogRefined, Log!LogSpec

-----------------------------------------------------------------------------
(* The events of a session.  What a sequence of events says is put together *)
(* event by event, so each of these comes with what one more event does.    *)

Has(ev, k, n) == \E i \in 1 .. Len(ev) : ev[i].kind = k /\ ev[i].turn = n

HasTool(ev, k, t, n) ==
  \E i \in 1 .. Len(ev) : ev[i].kind = k /\ ev[i].turn = n /\ ev[i].tool = t

UpTo(ev, n)  == \A i \in 1 .. Len(ev) : ev[i].turn <= n
Below(ev, n) == \A i \in 1 .. Len(ev) : ev[i].turn < n
Lacks(ev, n) == \A i \in 1 .. Len(ev) : ev[i].turn # n

\* The events that only come between a model_request_start and a final_result.
Streamed == {"text_delta", "tool_call", "tool_result", "final_result"}

\* What TurnsAreBracketed says of a sequence of events.
Before(ev, k, i) == \E j \in 1 .. i - 1 : ev[j].kind = k /\ ev[j].turn = ev[i].turn

Bracketed(ev) ==
  /\ \A i, j \in 1 .. Len(ev) : i < j =>
       /\ ev[i].turn <= ev[j].turn
       /\ ev[i].kind \in Terminal => ev[i].turn < ev[j].turn
  /\ \A i \in 1 .. Len(ev) :
       /\ ev[i].kind \in Streamed
            => Before(ev, "model_request_start", i) /\ ~Before(ev, "final_result", i)
       /\ ev[i].kind = "message_saved" => Before(ev, "final_result", i)
       /\ ev[i].kind = "conversation_created" => ~Before(ev, "user_prompt", i)

\* What ToolRowsMatchEvents says of a sequence of events alone.
ToolsOnce(ev) ==
  /\ \A i, j \in 1 .. Len(ev) :
       (/\ ev[i].kind = "tool_call" /\ ev[j].kind = "tool_call"
        /\ ev[i].turn = ev[j].turn /\ ev[i].tool = ev[j].tool) => i = j
  /\ \A j \in 1 .. Len(ev) : ev[j].kind = "tool_result" =>
       \E i \in 1 .. j - 1 :
         ev[i].kind = "tool_call" /\ ev[i].turn = ev[j].turn /\ ev[i].tool = ev[j].tool

\* An event that may come next.
Fits(ev, e) ==
  /\ UpTo(ev, e.turn)
  /\ \A k \in Terminal : ~Has(ev, k, e.turn)
  /\ e.kind \in Streamed
       => Has(ev, "model_request_start", e.turn) /\ ~Has(ev, "final_result", e.turn)
  /\ e.kind = "message_saved" => Has(ev, "final_result", e.turn)
  /\ e.kind = "conversation_created" => ~Has(ev, "user_prompt", e.turn)
  /\ e.kind = "tool_call" => ~HasTool(ev, "tool_call", e.tool, e.turn)
  /\ e.kind = "tool_result" => HasTool(ev, "tool_call", e.tool, e.turn)

\* What a client has heard once e is sent to it, if it is there.
Heard(ev, there, e) == IF there THEN Append(ev, e) ELSE ev

LEMMA EventTurn ==
  ASSUME NEW ev \in Seq(Event), NEW i \in 1 .. Len(ev)
  PROVE  ev[i].turn \in Turn /\ ev[i].turn \in Nat
<1>1. ev[i] \in Event
  BY ElementType
<1>2. \A n \in Turn : n \in Nat
  BY SessionAssumption DEF Turn
<1>3. QED
  BY <1>1, <1>2 DEF Event

\* The sequence that e ends, element by element.
LEMMA Appended ==
  ASSUME NEW ev \in Seq(Event), NEW e \in Event
  PROVE  LET h == Append(ev, e) IN
         /\ h \in Seq(Event) /\ Len(h) = Len(ev) + 1 /\ Len(ev) \in Nat
         /\ h[Len(ev) + 1] = e
         /\ \A i \in 1 .. Len(ev) : h[i] = ev[i]
         /\ 1 .. Len(h) = (1 .. Len(ev)) \cup {Len(ev) + 1}
         /\ \A i \in 1 .. Len(h) : h[i].turn \in Turn /\ h[i].turn \in Nat
<1> DEFINE h == Append(ev, e)
<1>1. h \in Seq(Event)
  BY AppendType
<1>2. \A i \in 1 .. Len(h) : h[i].turn \in Turn /\ h[i].turn \in Nat
  BY <1>1, EventTurn
<1>3. QED
  BY <1>1, <1>2

\* What one more event says and when.
LEMMA OneMore ==
  ASSUME NEW ev \in Seq(Event), NEW e \in Event
  PROVE  LET h == Append(ev, e) IN
         /\ \A k, n : Has(h, k, n) <=> Has(ev, k, n) \/ (e.kind = k /\ e.turn = n)
         /\ \A k, t, n : HasTool(h, k, t, n)
              <=> HasTool(ev, k, t, n) \/ (e.kind = k /\ e.turn = n /\ e.tool = t)
         /\ \A n : UpTo(h, n)  <=> UpTo(ev, n) /\ e.turn <= n
         /\ \A n : Below(h, n) <=> Below(ev, n) /\ e.turn < n
         /\ \A n : Lacks(h, n) <=> Lacks(ev, n) /\ e.turn # n
<1> DEFINE h == Append(ev, e)
<1>1. /\ Len(h) = Len(ev) + 1 /\ Len(ev) \in Nat
      /\ h[Len(ev) + 1] = e
      /\ \A i \in 1 .. Len(ev) : h[i] = ev[i]
      /\ 1 .. Len(h) = (1 .. Len(ev)) \cup {Len(ev) + 1}
  BY Appended
<1> HIDE DEF h
<1>2. \A k, n : Has(h, k, n) <=> Has(ev, k, n) \/ (e.kind = k /\ e.turn = n)
  BY <1>1 DEF Has
<1>3. \A k, t, n : HasTool(h, k, t, n)
        <=> HasTool(ev, k, t, n) \/ (e.kind = k /\ e.turn = n /\ e.tool = t)
  BY <1>1 DEF HasTool
<1>4. \A n : UpTo(h, n)  <=> UpTo(ev, n) /\ e.turn <= n
  BY <1>1 DEF UpTo
<1>5. \A n : Below(h, n) <=> Below(ev, n) /\ e.turn < n
  BY <1>1 DEF Below
<1>6. \A n : Lacks(h, n) <=> Lacks(ev, n) /\ e.turn # n
  BY <1>1 DEF Lacks
<1>7. QED
  BY <1>2, <1>3, <1>4, <1>5, <1>6 DEF h

\* An event that fits keeps the turns bracketed.
LEMMA FitsBrackets ==
  ASSUME NEW ev \in Seq(Event), NEW e \in Event, Bracketed(ev), Fits(ev, e)
  PROVE  Bracketed(Append(ev, e))
<1> DEFINE h == Append(ev, e)
           l == Len(ev) + 1
<1>1. /\ Len(h) = l /\ Len(ev) \in Nat /\ l \in Nat
      /\ h[l] = e
      /\ \A i \in 1 .. Len(ev) : h[i] = ev[i]
      /\ 1 .. Len(h) = (1 .. Len(ev)) \cup {l}
      /\ l - 1 = Len(ev)
  BY Appended
<1>turn. \A i \in 1 .. Len(h) : h[i].turn \in Nat
  BY Appended
<1> HIDE DEF h
<1>2. \A k : \A i \in 1 .. Len(ev) : Before(h, k, i) <=> Before(ev, k, i)
  BY <1>1 DEF Before
<1>3. \A k : Before(h, k, l) <=> Has(ev, k, e.turn)
  BY <1>1 DEF Before, Has
<1>4. ASSUME NEW i \in 1 .. Len(h), NEW j \in 1 .. Len(h), i < j
      PROVE  /\ h[i].turn <= h[j].turn
             /\ h[i].kind \in Terminal => h[i].turn < h[j].turn
  <2>1. i \in 1 .. Len(ev)
    BY <1>1, <1>4
  <2>2. CASE j \in 1 .. Len(ev)
    BY <1>1, <1>4, <2>1, <2>2 DEF Bracketed
  <2>3. CASE j = l
    <3>1. h[i] = ev[i] /\ h[j] = e
      BY <1>1, <2>1, <2>3
    <3>2. h[i].turn <= e.turn
      BY <2>1, <3>1 DEF Fits, UpTo
    <3>3. h[i].kind \in Terminal => h[i].turn # e.turn
      BY <2>1, <3>1 DEF Fits, Has
    <3>4. QED
      BY <1>turn, <3>1, <3>2, <3>3
  <2>4. QED
    BY <1>1, <2>2, <2>3
<1>5. ASSUME NEW i \in 1 .. Len(h)
      PROVE  /\ h[i].kind \in Streamed
                  => Before(h, "model_request_start", i) /\ ~Before(h, "final_result", i)
             /\ h[i].kind = "message_saved" => Before(h, "final_result", i)
             /\ h[i].kind = "conversation_created" => ~Before(h, "user_prompt", i)
  <2>1. CASE i \in 1 .. Len(ev)
    BY <1>1, <1>2, <2>1 DEF Bracketed
  <2>2. CASE i = l
    BY <1>1, <1>3, <2>2 DEF Fits
  <2>3. QED
    BY <1>1, <2>1, <2>2
<1>6. Bracketed(h)
  BY <1>4, <1>5 DEF Bracketed
<1>7. QED
  BY <1>6 DEF h

\* An event that fits keeps the tool calls announced once and before their results.
LEMMA FitsTools ==
  ASSUME NEW ev \in Seq(Event), NEW e \in Event, ToolsOnce(ev), Fits(ev, e)
  PROVE  ToolsOnce(Append(ev, e))
<1> DEFINE h == Append(ev, e)
           l == Len(ev) + 1
<1>1. /\ Len(h) = l /\ Len(ev) \in Nat /\ l \in Nat
      /\ h[l] = e
      /\ \A i \in 1 .. Len(ev) : h[i] = ev[i]
      /\ 1 .. Len(h) = (1 .. Len(ev)) \cup {l}
      /\ l - 1 = Len(ev)
  BY Appended
<1> HIDE DEF h
<1>2. ASSUME NEW i \in 1 .. Len(h), NEW j \in 1 .. Len(h),
             h[i].kind = "tool_call", h[j].kind = "tool_call",
             h[i].turn = h[j].turn, h[i].tool = h[j].tool
      PROVE  i = j
  <2>1. CASE i \in 1 .. Len(ev) /\ j \in 1 .. Len(ev)
    BY <1>1, <1>2, <2>1 DEF ToolsOnce
  <2>2. CASE i \in 1 .. Len(ev) /\ j = l
    BY <1>1, <1>2, <2>2 DEF Fits, HasTool
  <2>3. CASE i = l /\ j \in 1 .. Len(ev)
    BY <1>1, <1>2, <2>3 DEF Fits, HasTool
  <2>4. QED
    BY <1>1, <2>1, <2>2, <2>3
<1>3. ASSUME NEW j \in 1 .. Len(h), h[j].kind = "tool_result"
      PROVE  \E i \in 1 .. j - 1 :
               h[i].kind = "tool_call" /\ h[i].turn = h[j].turn /\ h[i].tool = h[j].tool
  <2>1. CASE j \in 1 .. Len(ev)
    <3>1. PICK i \in 1 .. j - 1 : /\ ev[i].kind = "tool_call" /\ ev[i].turn = ev[j].turn
                                  /\ ev[i].tool = ev[j].tool
      BY <1>1, <1>3, <2>1 DEF ToolsOnce
    <3>2. i \in 1 .. Len(ev)
      BY <1>1, <2>1, <3>1
    <3>3. QED
      BY <1>1, <2>1, <3>1, <3>2
  <2>2. CASE j = l
    BY <1>1, <1>3, <2>2 DEF Fits, HasTool
  <2>3. QED
    BY <1>1, <2>1, <2>2
<1>4. ToolsOnce(h)
  BY <1>2, <1>3 DEF ToolsOnce
<1>5. QED
  BY <1>4 DEF h

\* All of that for an event that is lost when the client is not there.
Hears(ev, there, e, h) ==
  /\ h \in Seq(Event)
  /\ \A k, n : Has(h, k, n) <=> Has(ev, k, n) \/ (there /\ e.kind = k /\ e.turn = n)
  /\ \A k, t, n : HasTool(h, k, t, n)
       <=> HasTool(ev, k, t, n) \/ (there /\ e.kind = k /\ e.turn = n /\ e.tool = t)
  /\ \A n : UpTo(h, n)  <=> UpTo(ev, n) /\ (there => e.turn <= n)
  /\ \A n : Below(h, n) <=> Below(ev, n) /\ (there => e.turn < n)
  /\ \A n : Lacks(h, n) <=> Lacks(ev, n) /\ (there => e.turn # n)
  /\ (there => Fits(ev, e)) =>
       /\ Bracketed(ev) => Bracketed(h)
       /\ ToolsOnce(ev) => ToolsOnce(h)
  /\ \A i \in 1 .. Len(h) : (i \in 1 .. Len(ev) /\ h[i] = ev[i]) \/ (there /\ h[i] = e)

LEMMA HeardSays ==
  ASSUME NEW ev \in Seq(Event), NEW e \in Event, NEW there \in BOOLEAN,
         NEW h, h = Heard(ev, there, e)
  PROVE  Hears(ev, there, e, h)
<1>1. CASE there
  <2>1. h = Append(ev, e)
    BY <1>1 DEF Heard
  <2>2. h \in Seq(Event) /\ \A i \in 1 .. Len(h) : (i \in 1 .. Len(ev) /\ h[i] = ev[i]) \/ h[i] = e
    BY <2>1, Appended
  <2>3. Fits(ev, e) =>
          /\ Bracketed(ev) => Bracketed(h)
          /\ ToolsOnce(ev) => ToolsOnce(h)
    BY <2>1, FitsBrackets, FitsTools
  <2>4. /\ \A k, n : Has(h, k, n) <=> Has(ev, k, n) \/ (there /\ e.kind = k /\ e.turn = n)
        /\ \A k, t, n : HasTool(h, k, t, n)
             <=> HasTool(ev, k, t, n) \/ (there /\ e.kind = k /\ e.turn = n /\ e.tool = t)
        /\ \A n : UpTo(h, n)  <=> UpTo(ev, n) /\ (there => e.turn <= n)
        /\ \A n : Below(h, n) <=> Below(ev, n) /\ (there => e.turn < n)
        /\ \A n : Lacks(h, n) <=> Lacks(ev, n) /\ (there => e.turn # n)
    <3>1. /\ \A k, n : Has(h, k, n) <=> Has(ev, k, n) \/ (e.kind = k /\ e.turn = n)
          /\ \A k, t, n : HasTool(h, k, t, n)
               <=> HasTool(ev, k, t, n) \/ (e.kind = k /\ e.turn = n /\ e.tool = t)
          /\ \A n : UpTo(h, n)  <=> UpTo(ev, n) /\ e.turn <= n
          /\ \A n : Below(h, n) <=> Below(ev, n) /\ e.turn < n
          /\ \A n : Lacks(h, n) <=> Lacks(ev, n) /\ e.turn # n
      BY <2>1, OneMore
    <3>2. QED
      BY <1>1, <3>1
  <2>5. \A i \in 1 .. Len(h) : (i \in 1 .. Len(ev) /\ h[i] = ev[i]) \/ (there /\ h[i] = e)
    BY <1>1, <2>2
  <2>6. QED
    BY <2>2, <2>3, <2>4, <2>5, <1>1 DEF Hears
<1>2. CASE ~there
  <2>1. h = ev
    BY <1>2 DEF Heard
  <2>2. /\ \A k, n : Has(h, k, n) <=> Has(ev, k, n) \/ (there /\ e.kind = k /\ e.turn = n)
        /\ \A k, t, n : HasTool(h, k, t, n)
             <=> HasTool(ev, k, t, n) \/ (there /\ e.kind = k /\ e.turn = n /\ e.tool = t)
        /\ \A n : UpTo(h, n)  <=> UpTo(ev, n) /\ (there => e.turn <= n)
        /\ \A n : Below(h, n) <=> Below(ev, n) /\ (there => e.turn < n)
        /\ \A n : Lacks(h, n) <=> Lacks(ev, n) /\ (there => e.turn # n)
    BY <1>2, <2>1
  <2>3. QED
    BY <1>2, <2>1, <2>2 DEF Hears
<1>3. QED
  BY <1>1, <1>2

\* A turn later than all the events of a sequence.
LEMMA LaterTurn ==
  ASSUME NEW ev \in Seq(Event), NEW m \in Nat, NEW n \in Nat, m < n, UpTo(ev, m)
  PROVE  /\ UpTo(ev, n) /\ Below(ev, n) /\ Lacks(ev, n)
         /\ \A k : ~Has(ev, k, n)
         /\ \A k, t : ~HasTool(ev, k, t, n)
<1>1. \A i \in 1 .. Len(ev) : ev[i].turn \in Nat
  BY EventTurn
<1>2. \A i \in 1 .. Len(ev) : ev[i].turn <= n /\ ev[i].turn < n /\ ev[i].turn # n
  BY <1>1 DEF UpTo
<1>3. QED
  BY <1>2 DEF UpTo, Below, Lacks, Has, HasTool

\* A turn none of the events of a sequence is of.
LEMMA NoneOfTurn ==
  ASSUME NEW ev, NEW n, Lacks(ev, n) \/ Below(ev, n), n \in Nat
  PROVE  (\A k : ~Has(ev, k, n)) /\ (\A k, t : ~HasTool(ev, k, t, n))
BY DEF Lacks, Below, Has, HasTool

\* Nothing is in the empty sequence.
LEMMA NothingSaid ==
  /\ \A k, n : ~Has(<<>>, k, n)
  /\ \A k, t, n : ~HasTool(<<>>, k, t, n)
  /\ \A n : UpTo(<<>>, n) /\ Below(<<>>, n) /\ Lacks(<<>>, n)
  /\ Bracketed(<<>>) /\ ToolsOnce(<<>>)
BY DEF Has, HasTool, UpTo, Below, Lacks, Bracketed, ToolsOnce

-----------------------------------------------------------------------------
(* Where a session is, against the events its client has heard.  Of the     *)
(* memory the same is said as of the events.                                *)

Remembers(q, n) == \E i \in 1 .. Len(q) : q[i] = n
Rising(q)       == \A i, j \in 1 .. Len(q) : i < j => q[i] < q[j]
AtMost(q, n)    == \A i \in 1 .. Len(q) : q[i] <= n
Earlier(q, n)   == \A i \in 1 .. Len(q) : q[i] < n

Lines(s) == Bracketed(sent[s]) /\ ToolsOnce(sent[s]) /\ UpTo(sent[s], turn[s])

\* A session that is not connected yet.
Unused(s) ==
  /\ pc[s] = "new" => /\ client[s] = "new" /\ turn[s] = 0
                      /\ sent[s] = <<>> /\ history[s] = <<>>
  /\ client[s] = "new" => pc[s] = "new"

\* The turn under way has not ended, and has had none of what comes later.
Unended(s) ==
  /\ Busy(s) => \A k \in Terminal : ~Has(sent[s], k, turn[s])
  /\ pc[s] = "persist" => Below(sent[s], turn[s])
  /\ pc[s] \in {"persist", "start", "stream"} => ~Has(sent[s], "final_result", turn[s])

\* A client that is there has had what came so far.
Told(s) == client[s] = "open" =>
  /\ pc[s] \in {"stream", "save"} => Has(sent[s], "model_request_start", turn[s])
  /\ pc[s] = "save" => Has(sent[s], "final_result", turn[s])
  /\ pc[s] = "idle" /\ turn[s] > 0 => \E k \in Terminal : Has(sent[s], k, turn[s])
  /\ pc[s] \in {"persist", "start", "stream"}
       => (output[s] <=> Has(sent[s], "text_delta", turn[s]))
  /\ Busy(s) => \A t \in Tool :
       /\ calls[s][t] = "none" <=> ~HasTool(sent[s], "tool_call", t, turn[s])
       /\ calls[s][t] \in {"done", "empty"} => HasTool(sent[s], "tool_result", t, turn[s])

Memory(s) ==
  /\ Rising(history[s]) /\ AtMost(history[s], turn[s])
  /\ pc[s] \in {"persist", "start", "stream"} => Earlier(history[s], turn[s])
  /\ client[s] = "open" => \A n \in Turn :
       Remembers(history[s], n)
         <=> Has(sent[s], "text_delta", n) /\ Has(sent[s], "final_result", n)

\* The stored tool calls of a turn that is complete were shown.
Shown(s) == client[s] = "open" =>
  \A n \in Turn, t \in Tool : Has(sent[s], "complete", n) =>
    /\ toolRows[n][t] # "absent" => HasTool(sent[s], "tool_call", t, n)
    /\ toolRows[n][t] = "completed" => HasTool(sent[s], "tool_result", t, n)

Place(s) == Lines(s) /\ Unused(s) /\ Unended(s) /\ Told(s) /\ Memory(s) /\ Shown(s)

\* No session sends an event of another's turn.
OwnEvents ==
  \A s, z \in Session : s # z /\ Busy(z) => Lacks(sent[s], turn[z])

\* A turn under way has no stored tool calls, nor has one still to come.
Unstored ==
  \A t \in Tool :
    /\ \A s \in Session : Busy(s) => toolRows[turn[s]][t] = "absent"
    /\ \A n \in Turn : n > turns => toolRows[n][t] = "absent"

\* What a message_saved says is so, in the tables.
Backed(e) == e.kind = "message_saved" =>
  /\ e.conv \in Conv
  /\ wrote[e.turn]["assistant"] = e.conv
  /\ convs[e.conv] # "deleted" =>
       \E j \in 1 .. Len(rows[e.conv]) :
         rows[e.conv][j] = [role |-> "assistant", turn |-> e.turn]

AllBacked ==
  \A s \in Session : \A i \in 1 .. Len(sent[s]) : \A e \in Event :
    sent[s][i] = e => Backed(e)

EInv ==
  IInv /\ (\A s \in Session : Place(s)) /\ OwnEvents /\ Unstored /\ AllBacked

-----------------------------------------------------------------------------
LEMMA RememberOne ==
  ASSUME NEW q \in Seq(Turn), NEW n \in Turn, Rising(q), Earlier(q, n),
         NEW h, h = Append(q, n)
  PROVE  /\ Rising(h) /\ AtMost(h, n)
         /\ \A m : Remembers(h, m) <=> Remembers(q, m) \/ m = n
<1> USE SessionAssumption
<1>1. /\ Len(h) = Len(q) + 1 /\ Len(q) \in Nat
      /\ h[Len(q) + 1] = n
      /\ \A i \in 1 .. Len(q) : h[i] = q[i] /\ q[i] \in Nat
      /\ 1 .. Len(h) = (1 .. Len(q)) \cup {Len(q) + 1}
      /\ n \in Nat
  BY DEF Turn
<1>2. Rising(h)
  BY <1>1 DEF Rising, Earlier
<1>3. AtMost(h, n)
  BY <1>1 DEF AtMost, Earlier
<1>4. \A m : Remembers(h, m) <=> Remembers(q, m) \/ m = n
  BY <1>1 DEF Remembers
<1>5. QED
  BY <1>2, <1>3, <1>4

LEMMA RememberLater ==
  ASSUME NEW q \in Seq(Turn), NEW m \in Nat, NEW n \in Nat
  PROVE  /\ AtMost(q, m) /\ m < n => Earlier(q, n)
         /\ Earlier(q, n) => AtMost(q, n) /\ ~Remembers(q, n)
<1>1. \A i \in 1 .. Len(q) : q[i] \in Nat
  BY SessionAssumption DEF Turn
<1>2. QED
  BY <1>1 DEF AtMost, Earlier, Remembers

LEMMA NothingRemembered ==
  Rising(<<>>) /\ (\A n : AtMost(<<>>, n) /\ Earlier(<<>>, n) /\ ~Remembers(<<>>, n))
BY DEF Rising, AtMost, Earlier, Remembers

\* What send_event does, for the events a step sends.
LEMMA EmitsOne ==
  ASSUME TypeOK, NEW s \in Session, NEW e \in Event, Emit(s, <<e>>)
  PROVE  /\ sent'[s] = Heard(sent[s], client[s] = "open", e)
         /\ \A z \in Session \ {s} : sent'[z] = sent[z]
<1>1. sent \in [Session -> Seq(Event)] /\ sent[s] \in Seq(Event)
  BY DEF TypeOK
<1>2. sent[s] \o <<e>> = Append(sent[s], e)
  BY <1>1
<1>3. QED
  BY <1>1, <1>2 DEF Emit, Heard

LEMMA EmitsTwo ==
  ASSUME TypeOK, NEW s \in Session, NEW a \in Event, NEW b \in Event, Emit(s, <<a, b>>)
  PROVE  /\ sent'[s] = Heard(Heard(sent[s], client[s] = "open", a), client[s] = "open", b)
         /\ \A z \in Session \ {s} : sent'[z] = sent[z]
<1>1. sent \in [Session -> Seq(Event)] /\ sent[s] \in Seq(Event)
  BY DEF TypeOK
<1>2. sent[s] \o <<a, b>> = Append(Append(sent[s], a), b)
  BY <1>1
<1>3. QED
  BY <1>1, <1>2 DEF Emit, Heard

\* A session no step of another one touches.
Same(z) ==
  /\ sent'[z] = sent[z] /\ turn'[z] = turn[z] /\ pc'[z] = pc[z] /\ client'[z] = client[z]
  /\ output'[z] = output[z] /\ calls'[z] = calls[z] /\ history'[z] = history[z]

LEMMA OthersPlace ==
  ASSUME EInv, NEW z \in Session, Same(z),
         \A n \in Turn, t \in Tool :
           Has(sent[z], "complete", n) => toolRows'[n][t] = toolRows[n][t]
  PROVE  Place(z)'
<1>1. Place(z)
  BY DEF EInv
<1>2. Lines(z)'
  BY <1>1 DEF Place, Lines, Same
<1>3. Unused(z)'
  BY <1>1 DEF Place, Unused, Same
<1>4. Unended(z)'
  BY <1>1 DEF Place, Unended, Same, Busy
<1>5. Told(z)'
  BY <1>1 DEF Place, Told, Same, Busy
<1>6. Memory(z)'
  BY <1>1 DEF Place, Memory, Same
<1>7. Shown(z)'
  BY <1>1 DEF Place, Shown, Same
<1>8. QED
  BY <1>2, <1>3, <1>4, <1>5, <1>6, <1>7 DEF Place

\* A step of the turn that session s has under way, or one that sends nothing.
LEMMA Continues ==
  ASSUME EInv, TypeOK', NEW s \in Session,
         \A z \in Session \ {s} : Same(z),
         turns' = turns, turn'[s] = turn[s], Busy(s)' => Busy(s),
         \/ sent'[s] = sent[s]
         \/ Busy(s) /\ \A n : Lacks(sent[s], n) /\ n # turn[s] => Lacks(sent'[s], n),
         \A n \in Turn, t \in Tool :
           toolRows'[n][t] = toolRows[n][t] \/ (Busy(s) /\ ~Busy(s)' /\ n = turn[s])
  PROVE  (\A z \in Session \ {s} : Place(z)') /\ OwnEvents' /\ Unstored'
<1>1. \A z \in Session \ {s} : Busy(z)' <=> Busy(z)
  BY DEF Same, Busy
<1>2. ASSUME NEW z \in Session \ {s} PROVE Place(z)'
  <2>1. Busy(s) => \A k : ~Has(sent[z], k, turn[s])
    BY NoneOfTurn DEF EInv, OwnEvents, IInv, TypeInv, TypeOK
  <2>2. QED
    BY <2>1, OthersPlace
<1>3. OwnEvents'
  <2> SUFFICES ASSUME NEW z \in Session, NEW y \in Session, z # y, Busy(y)'
               PROVE  Lacks(sent'[z], turn'[y])
    BY DEF OwnEvents
  <2>1. Lacks(sent[z], turn[y]) /\ turn'[y] = turn[y] /\ Busy(y)
    BY <1>1 DEF EInv, OwnEvents, Same
  <2>2. CASE z = s
    BY <2>1, <2>2 DEF EInv, IInv, TurnsOwned
  <2>3. CASE z # s
    BY <2>1, <2>3 DEF Same
  <2>4. QED
    BY <2>2, <2>3
<1>4. Unstored'
  <2> SUFFICES ASSUME NEW t \in Tool
               PROVE  /\ \A z \in Session : Busy(z)' => toolRows'[turn'[z]][t] = "absent"
                      /\ \A n \in Turn : n > turns' => toolRows'[n][t] = "absent"
    BY DEF Unstored
  <2>1. ASSUME NEW z \in Session, Busy(z)' PROVE toolRows'[turn'[z]][t] = "absent"
    <3>1. Busy(z) /\ turn'[z] = turn[z] /\ turn[z] \in Turn
      BY <1>1, <2>1 DEF EInv, IInv, TypeInv, BusyHasTurn, Same
    <3>2. toolRows'[turn[z]][t] = toolRows[turn[z]][t]
      BY <2>1, <3>1 DEF EInv, IInv, TurnsOwned
    <3>3. QED
      BY <3>1, <3>2 DEF EInv, Unstored
  <2>2. ASSUME NEW n \in Turn, n > turns PROVE toolRows'[n][t] = "absent"
    <3>1. n # turn[s]
      BY <2>2, SessionAssumption DEF EInv, IInv, TurnsOwned, TypeInv, TypeOK, Turn
    <3>2. QED
      BY <2>2, <3>1 DEF EInv, Unstored
  <2>3. QED
    BY <2>1, <2>2
<1>5. QED
  BY <1>2, <1>3, <1>4

\* A step of session s that begins a turn.
LEMMA Begins ==
  ASSUME EInv, TypeOK', NEW s \in Session, ~Busy(s), turns + 1 \in Turn,
         \A z \in Session \ {s} : Same(z),
         turns' = turns + 1, turn'[s] = turns + 1, toolRows' = toolRows,
         \A n : Lacks(sent[s], n) /\ n # turns + 1 => Lacks(sent'[s], n)
  PROVE  (\A z \in Session \ {s} : Place(z)') /\ OwnEvents' /\ Unstored'
<1> USE SessionAssumption
<1>1. \A z \in Session \ {s} : Busy(z)' <=> Busy(z)
  BY DEF Same, Busy
<1>2. \A z \in Session : turn[z] \in Nat /\ turn[z] <= turns /\ turns \in Nat /\ turns + 1 \in Nat
  BY DEF EInv, IInv, TypeInv, TypeOK, TurnsOwned
<1>3. \A z \in Session : Lacks(sent[z], turns + 1)
  BY <1>2, LaterTurn DEF EInv, Place, Lines, IInv, TypeInv, TypeOK
<1>4. \A z \in Session \ {s} : Place(z)'
  BY OthersPlace
<1>5. OwnEvents'
  <2> SUFFICES ASSUME NEW z \in Session, NEW y \in Session, z # y, Busy(y)'
               PROVE  Lacks(sent'[z], turn'[y])
    BY DEF OwnEvents
  <2>1. CASE y = s
    BY <1>3, <2>1 DEF Same
  <2>2. CASE y # s
    <3>1. Lacks(sent[z], turn[y]) /\ turn'[y] = turn[y] /\ turn[y] # turns + 1
      BY <1>1, <1>2, <2>2 DEF EInv, OwnEvents, Same
    <3>2. QED
      BY <3>1 DEF Same
  <2>3. QED
    BY <2>1, <2>2
<1>6. Unstored'
  <2> SUFFICES ASSUME NEW t \in Tool
               PROVE  /\ \A z \in Session : Busy(z)' => toolRows[turn'[z]][t] = "absent"
                      /\ \A n \in Turn : n > turns + 1 => toolRows[n][t] = "absent"
    BY DEF Unstored
  <2>1. ASSUME NEW n \in Turn, n >= turns + 1 PROVE toolRows[n][t] = "absent"
    BY <1>2, <2>1 DEF EInv, Unstored, Turn
  <2>2. ASSUME NEW z \in Session \ {s}, Busy(z)' PROVE toolRows[turn'[z]][t] = "absent"
    BY <1>1, <2>2 DEF EInv, Unstored, Same
  <2>3. QED
    BY <1>2, <2>1, <2>2 DEF Turn
<1>7. QED
  BY <1>4, <1>5, <1>6

-----------------------------------------------------------------------------
(* The tables only grow, but for a conversation that is deleted, and nothing *)
(* that was recorded as written is overwritten.                             *)

Grows ==
  /\ \A t \in Turn, r \in Role : wrote[t][r] # None => wrote'[t][r] = wrote[t][r]
  /\ \A c \in Conv : convs'[c] # "deleted" =>
       /\ convs[c] # "deleted"
       /\ \A j \in 1 .. Len(rows[c]) : j \in 1 .. Len(rows'[c]) /\ rows'[c][j] = rows[c][j]

LEMMA StoreGrows ==
  ASSUME TypeOK, NEW c \in Conv, NEW t \in Turn, NEW r \in Role, Store(c, t, r),
         wrote[t][r] = None, \A d \in Conv : convs'[d] # "deleted" => convs[d] # "deleted"
  PROVE  Grows
<1>1. \A n \in Turn, q \in Role : n # t \/ q # r => wrote'[n][q] = wrote[n][q]
  BY DEF Store, TypeOK
<1>2. rows'[c] = Append(rows[c], [role |-> r, turn |-> t]) /\ rows[c] \in Seq([role : Role, turn : Turn])
  BY DEF Store, TypeOK
<1>3. \A j \in 1 .. Len(rows[c]) : j \in 1 .. Len(rows'[c]) /\ rows'[c][j] = rows[c][j]
  BY <1>2
<1>4. \A d \in Conv \ {c} : rows'[d] = rows[d]
  BY DEF Store, TypeOK
<1>5. QED
  BY <1>1, <1>3, <1>4 DEF Grows

LEMMA BackedStays ==
  ASSUME Grows, NEW e \in Event, Backed(e)
  PROVE  Backed(e)'
<1> SUFFICES ASSUME e.kind = "message_saved"
             PROVE  /\ e.conv \in Conv
                    /\ wrote'[e.turn]["assistant"] = e.conv
                    /\ convs'[e.conv] # "deleted" =>
                         \E j \in 1 .. Len(rows'[e.conv]) :
                           rows'[e.conv][j] = [role |-> "assistant", turn |-> e.turn]
  BY DEF Backed
<1>1. e.conv \in Conv /\ e.turn \in Turn /\ wrote[e.turn]["assistant"] # None
  BY SessionAssumption DEF Backed, Event
<1>2. wrote'[e.turn]["assistant"] = e.conv
  BY <1>1 DEF Grows, Backed, Role
<1>3. ASSUME convs'[e.conv] # "deleted"
      PROVE  \E j \in 1 .. Len(rows'[e.conv]) :
               rows'[e.conv][j] = [role |-> "assistant", turn |-> e.turn]
  <2>1. PICK j \in 1 .. Len(rows[e.conv]) :
               rows[e.conv][j] = [role |-> "assistant", turn |-> e.turn]
    BY <1>1, <1>3 DEF Grows, Backed
  <2>2. QED
    BY <1>1, <1>3, <2>1 DEF Grows
<1>4. QED
  BY <1>1, <1>2, <1>3

\* Whatever is done, the tables grow.
LEMMA TablesGrow == IInv /\ [Next]_vars => Grows
<1> SUFFICES ASSUME IInv, [Next]_vars PROVE Grows
  OBVIOUS
<1> USE SessionAssumption
<1>same. ASSUME UNCHANGED <<convs, rows, wrote>> PROVE Grows
  BY <1>same DEF Grows
<1>1. ASSUME NEW s \in Session, PersistInExisting(s) PROVE Grows
  <2> DEFINE c == IF requested[s] # None THEN requested[s] ELSE current[s]
  <2>1. c \in Conv /\ turn[s] \in Turn /\ wrote[turn[s]]["user"] = None
    BY <1>1 DEF PersistInExisting, IInv, TypeInv, TypeOK, BusyHasTurn, Busy, WrittenSoFar, Role
  <2>2. CASE Store(c, turn[s], "user")
    BY <1>1, <2>1, <2>2, StoreGrows DEF PersistInExisting, IInv, TypeInv, Role
  <2>3. CASE UNCHANGED <<rows, wrote>>
    BY <1>1, <2>3, <1>same DEF PersistInExisting
  <2>4. QED
    BY <1>1, <2>2, <2>3 DEF PersistInExisting
<1>2. ASSUME NEW s \in Session, PersistInNew(s) PROVE Grows
  <2>1. PICK c \in Conv :
          /\ convs[c] = "unused"
          /\ \/ convs' = [convs EXCEPT ![c] = "live"] /\ Store(c, turn[s], "user")
             \/ convs' = [convs EXCEPT ![c] = "rolledback"] /\ UNCHANGED <<rows, wrote>>
    BY <1>2 DEF PersistInNew
  <2>2. turn[s] \in Turn /\ wrote[turn[s]]["user"] = None
    BY <1>2 DEF PersistInNew, IInv, TypeInv, BusyHasTurn, Busy, WrittenSoFar, Role
  <2>3. \A d \in Conv : convs'[d] # "deleted" => convs[d] # "deleted"
    BY <2>1 DEF IInv, TypeInv, TypeOK
  <2>4. CASE Store(c, turn[s], "user")
    BY <2>2, <2>3, <2>4, StoreGrows DEF IInv, TypeInv, Role
  <2>5. CASE UNCHANGED <<rows, wrote>>
    BY <2>3, <2>5 DEF Grows
  <2>6. QED
    BY <2>1, <2>4, <2>5
<1>3. ASSUME NEW s \in Session, SaveReply(s) PROVE Grows
  <2>1. current[s] \in Conv /\ turn[s] \in Turn /\ wrote[turn[s]]["assistant"] = None
    BY <1>3 DEF SaveReply, IInv, TypeInv, TypeOK, BusyHasTurn, Busy, WrittenSoFar
  <2>2. QED
    BY <1>3, <2>1, StoreGrows DEF SaveReply, IInv, TypeInv, Role
<1>4. ASSUME NEW c \in Conv, DeleteConversation(c) PROVE Grows
  BY <1>4 DEF DeleteConversation, IInv, TypeInv, TypeOK, Grows
<1>5. ASSUME NEW c \in Conv, CreateConversation(c) PROVE Grows
  BY <1>5 DEF CreateConversation, IInv, TypeInv, TypeOK, Grows
<1>6. ASSUME NEW s \in Session,
             \/ PersistNothing(s) \/ StartStream(s) \/ FailTurn(s) \/ FinishStream(s)
             \/ SaveFails(s) \/ Stream(s) \/ Environment(s)
      PROVE  Grows
  BY <1>6, <1>same
     DEF PersistNothing, StartStream, FailTurn, FinishStream, SaveFails, Stream, TextChunk,
         ToolChunk, ToolCalled, ToolResult, Environment, Connect, Disconnect, EndLoop, Crash,
         Receive, ReceiveBlank, db
<1>7. ASSUME UNCHANGED vars PROVE Grows
  BY <1>7, <1>same DEF vars
<1>8. QED
  BY <1>1, <1>2, <1>3, <1>4, <1>5, <1>6, <1>7 DEF Next, Step

\* So what a client was told of stays so.
LEMMA BackedNext ==
  ASSUME EInv, [Next]_vars,
         \A s \in Session : \A i \in 1 .. Len(sent'[s]) :
           \/ i \in 1 .. Len(sent[s]) /\ sent'[s][i] = sent[s][i]
           \/ \E e \in Event : sent'[s][i] = e /\ Backed(e)'
  PROVE  AllBacked'
<1> SUFFICES ASSUME NEW s \in Session, NEW i \in 1 .. Len(sent'[s]), NEW e \in Event,
                    sent'[s][i] = e
             PROVE  Backed(e)'
  BY DEF AllBacked
<1>1. ASSUME NEW d \in Event, sent'[s][i] = d, Backed(d)' PROVE Backed(e)'
  BY <1>1
<1>2. ASSUME i \in 1 .. Len(sent[s]), sent'[s][i] = sent[s][i] PROVE Backed(e)'
  <2>1. Backed(e)
    BY <1>2 DEF EInv, AllBacked
  <2>2. Grows
    BY TablesGrow DEF EInv
  <2>3. QED
    BY <2>1, <2>2, BackedStays
<1>3. QED
  BY <1>1, <1>2

-----------------------------------------------------------------------------
(* The steps of a turn under way: what they send, and what that changes.    *)

\* What is left to show of a step of session s is where it leaves s.
Aside(s) ==
  Lines(s)' /\ (\A z \in Session \ {s} : Place(z)') /\ OwnEvents' /\ Unstored' /\ AllBacked'

Kept == (\A z \in Session : Place(z)') /\ OwnEvents' /\ Unstored' /\ AllBacked'

\* What the events of session s say after e, or after a and b, was sent.
Added(s, e) ==
  /\ \A k, n : Has(sent'[s], k, n)
       <=> Has(sent[s], k, n) \/ (client[s] = "open" /\ e.kind = k /\ turn[s] = n)
  /\ \A k, t, n : HasTool(sent'[s], k, t, n)
       <=> HasTool(sent[s], k, t, n)
           \/ (client[s] = "open" /\ e.kind = k /\ turn[s] = n /\ e.tool = t)

AddedBoth(s, a, b) ==
  /\ \A k, n : Has(sent'[s], k, n)
       <=> \/ Has(sent[s], k, n)
           \/ client[s] = "open" /\ turn[s] = n /\ (a.kind = k \/ b.kind = k)
  /\ \A k, t, n : a.kind # k /\ b.kind # k =>
       (HasTool(sent'[s], k, t, n) <=> HasTool(sent[s], k, t, n))

\* The client hears e, if it is there, and another session nothing.
LEMMA Speaks ==
  ASSUME EInv, [Next]_vars, TypeOK', NEW s \in Session, NEW e \in Event,
         Busy(s), e.turn = turn[s], client[s] = "open" => Fits(sent[s], e),
         Emit(s, <<e>>), UNCHANGED <<turns, turn>>, Busy(s)' => Busy(s),
         \A z \in Session \ {s} : sent'[z] = sent[z] => Same(z),
         \A n \in Turn, t \in Tool :
           toolRows'[n][t] = toolRows[n][t] \/ (~Busy(s)' /\ n = turn[s]),
         e.kind = "message_saved" => Backed(e)'
  PROVE  Added(s, e) /\ Aside(s)
<1> DEFINE there == client[s] = "open"
<1>1. sent'[s] = Heard(sent[s], there, e) /\ \A z \in Session \ {s} : sent'[z] = sent[z]
  BY EmitsOne DEF EInv, IInv, TypeInv
<1>2. sent[s] \in Seq(Event) /\ there \in BOOLEAN /\ turn[s] \in Nat
  BY DEF EInv, IInv, TypeInv, TypeOK
<1> HIDE DEF there
<1>3. Hears(sent[s], there, e, sent'[s])
  BY <1>1, <1>2, HeardSays
<1>4. Lines(s)'
  <2>1. Bracketed(sent[s]) /\ ToolsOnce(sent[s]) /\ UpTo(sent[s], turn[s])
    BY DEF EInv, Place, Lines
  <2>2. Bracketed(sent'[s]) /\ ToolsOnce(sent'[s])
    BY <1>3, <2>1 DEF there, Hears
  <2>3. UpTo(sent'[s], turn'[s])
    BY <1>2, <1>3, <2>1 DEF Hears
  <2>4. QED
    BY <2>2, <2>3 DEF Lines
<1>5. (\A z \in Session \ {s} : Place(z)') /\ OwnEvents' /\ Unstored'
  BY <1>1, <1>3, Continues DEF Hears
<1>6. AllBacked'
  <2>1. e.kind # "message_saved" => Backed(e)'
    BY DEF Backed
  <2>2. QED
    BY <1>1, <1>3, <2>1, BackedNext DEF Hears
<1>7. QED
  BY <1>3, <1>4, <1>5, <1>6 DEF there, Hears, Aside, Added

\* The client hears a and b, the second of which ends what the first began.
LEMMA SpeaksTwice ==
  ASSUME EInv, [Next]_vars, TypeOK', NEW s \in Session, NEW a \in Event, NEW b \in Event,
         Busy(s), a.turn = turn[s], b.turn = turn[s], client[s] = "open" => Fits(sent[s], a),
         a.kind \notin Terminal, b.kind \in {"user_prompt", "complete"},
         Emit(s, <<a, b>>), UNCHANGED <<turns, turn>>, Busy(s)' => Busy(s),
         \A z \in Session \ {s} : sent'[z] = sent[z] => Same(z),
         \A n \in Turn, t \in Tool :
           toolRows'[n][t] = toolRows[n][t] \/ (~Busy(s)' /\ n = turn[s]),
         a.kind = "message_saved" => Backed(a)'
  PROVE  AddedBoth(s, a, b) /\ Aside(s)
<1> DEFINE there == client[s] = "open"
           m == Heard(sent[s], there, a)
<1>1. sent'[s] = Heard(m, there, b) /\ \A z \in Session \ {s} : sent'[z] = sent[z]
  BY EmitsTwo DEF EInv, IInv, TypeInv
<1>2. sent[s] \in Seq(Event) /\ there \in BOOLEAN /\ turn[s] \in Nat
  BY DEF EInv, IInv, TypeInv, TypeOK
<1> HIDE DEF there, m
<1>m. m = Heard(sent[s], there, a)
  BY DEF m
<1>3. Hears(sent[s], there, a, m)
  BY <1>m, <1>2, HeardSays
<1>4. Hears(m, there, b, sent'[s])
  <2>1. m \in Seq(Event)
    BY <1>3 DEF Hears
  <2>2. QED
    BY <1>1, <1>2, <2>1, HeardSays
<1>5. there => Fits(m, b)
  <2> SUFFICES ASSUME there PROVE Fits(m, b)
    OBVIOUS
  <2>1. UpTo(m, turn[s])
    BY <1>2, <1>3 DEF EInv, Place, Lines, Hears
  <2>2. \A k \in Terminal : ~Has(m, k, turn[s])
    BY <1>3 DEF Fits, there, Hears
  <2>3. QED
    BY <2>1, <2>2 DEF Fits, Streamed
<1>6. Lines(s)'
  <2>1. Bracketed(sent[s]) /\ ToolsOnce(sent[s]) /\ UpTo(sent[s], turn[s])
    BY DEF EInv, Place, Lines
  <2>2. Bracketed(sent'[s]) /\ ToolsOnce(sent'[s])
    BY <1>3, <1>4, <1>5, <2>1 DEF there, Hears
  <2>3. UpTo(sent'[s], turn'[s])
    BY <1>2, <1>3, <1>4, <2>1 DEF Hears
  <2>4. QED
    BY <2>2, <2>3 DEF Lines
<1>7. (\A z \in Session \ {s} : Place(z)') /\ OwnEvents' /\ Unstored'
  BY <1>1, <1>3, <1>4, Continues DEF Hears
<1>8. AllBacked'
  <2>1. (a.kind # "message_saved" => Backed(a)') /\ Backed(b)'
    BY DEF Backed
  <2>2. \A i \in 1 .. Len(sent'[s]) :
          \/ i \in 1 .. Len(sent[s]) /\ sent'[s][i] = sent[s][i]
          \/ sent'[s][i] = a \/ sent'[s][i] = b
    BY <1>3, <1>4 DEF Hears
  <2>3. QED
    BY <1>1, <2>1, <2>2, BackedNext
<1>9. QED
  BY <1>3, <1>4, <1>6, <1>7, <1>8 DEF there, Hears, Aside, AddedBoth

-----------------------------------------------------------------------------
LEMMA EInvInit == Init => EInv
<1> SUFFICES ASSUME Init PROVE EInv
  OBVIOUS
<1> USE SessionAssumption
<1>1. IInv
  BY IInvInit
<1>2. ASSUME NEW s \in Session PROVE Place(s)
  <2>1. /\ pc[s] = "new" /\ client[s] = "new" /\ turn[s] = 0
        /\ sent[s] = <<>> /\ history[s] = <<>>
    BY DEF Init
  <2>2. QED
    BY <2>1, NothingSaid, NothingRemembered
       DEF Place, Lines, Unused, Unended, Told, Memory, Shown, Busy
<1>3. OwnEvents /\ Unstored
  BY DEF Init, OwnEvents, Unstored, Busy
<1>4. AllBacked
  BY DEF Init, AllBacked
<1>5. QED
  BY <1>1, <1>2, <1>3, <1>4 DEF EInv

\* The steps of a session that send nothing, but for the one that begins a turn:
\* the events stay, and what is said of the client that left is less.
LEMMA SilentStep ==
  ASSUME EInv, [Next]_vars, TypeOK', NEW s \in Session,
         \A z \in Session \ {s} : Same(z),
         UNCHANGED <<sent, turn, turns, history, output, calls, toolRows>>,
         Busy(s)' => pc'[s] = pc[s], client'[s] = "new" => pc'[s] = "new",
         pc'[s] = "new" => pc[s] = "new" /\ client'[s] = "new",
         \/ client'[s] # "open"
         \/ pc[s] = "new" /\ pc'[s] = "idle"
         \/ client[s] = "open" /\ pc'[s] = pc[s]
  PROVE  Kept
<1>1. (\A z \in Session \ {s} : Place(z)') /\ OwnEvents' /\ Unstored'
  BY Continues DEF Busy
<1>2. AllBacked'
  BY BackedNext
<1>3. Lines(s) /\ Unused(s) /\ Unended(s) /\ Told(s) /\ Memory(s) /\ Shown(s)
  BY DEF EInv, Place
<1>4. pc[s] = "new" => \A k, n : ~Has(sent[s], k, n)
  BY <1>3, NothingSaid DEF Unused
<1>5. pc[s] = "new" => \A n : ~Remembers(history[s], n)
  BY <1>3, NothingRemembered DEF Unused
<1>6. Lines(s)'
  BY <1>3 DEF Lines
<1>7. Unused(s)'
  BY <1>3 DEF Unused
<1>8. Unended(s)'
  BY <1>3 DEF Unended, Busy
<1>9. Told(s)'
  BY <1>3, SessionAssumption DEF Told, Busy, Unused
<1>10. Memory(s)'
  BY <1>3, <1>4, <1>5 DEF Memory, Busy
<1>11. Shown(s)'
  BY <1>3, <1>4 DEF Shown
<1>12. Place(s)'
  BY <1>6, <1>7, <1>8, <1>9, <1>10, <1>11 DEF Place
<1>13. QED
  BY <1>1, <1>2, <1>12 DEF Kept

\* A session in a turn, and the events it can send of it.
LEMMA InTurn ==
  ASSUME EInv, TypeOK', NEW s \in Session, Busy(s), turn' = turn
  PROVE  /\ turn[s] \in Turn /\ turn[s] \in Nat /\ sent[s] \in Seq(Event)
         /\ history[s] \in Seq(Turn)
         /\ Lines(s) /\ Unused(s) /\ Unended(s) /\ Told(s) /\ Memory(s) /\ Shown(s)
         /\ UpTo(sent[s], turn[s]) /\ (\A k \in Terminal : ~Has(sent[s], k, turn[s]))
         /\ client[s] # "new"
         /\ \A t \in Tool : toolRows[turn[s]][t] = "absent"
         /\ \A k \in {"conversation_created", "user_prompt", "model_request_start",
                      "text_delta", "final_result", "message_saved", "complete", "error"} :
              /\ Ev(s, k) \in Event
              /\ Ev(s, k).kind = k /\ Ev(s, k).turn = turn[s] /\ Ev(s, k).conv = current'[s]
         /\ \A k \in {"tool_call", "tool_result"}, t \in Tool :
              /\ ToolEv(s, k, t) \in Event /\ ToolEv(s, k, t).kind = k
              /\ ToolEv(s, k, t).turn = turn[s] /\ ToolEv(s, k, t).tool = t
<1>1. turn[s] \in Turn /\ turn[s] \in Nat /\ sent[s] \in Seq(Event) /\ history[s] \in Seq(Turn)
  BY SessionAssumption DEF EInv, IInv, TypeInv, TypeOK, BusyHasTurn, Turn
<1>2. Lines(s) /\ Unused(s) /\ Unended(s) /\ Told(s) /\ Memory(s) /\ Shown(s)
  BY DEF EInv, Place
<1>3. /\ UpTo(sent[s], turn[s]) /\ (\A k \in Terminal : ~Has(sent[s], k, turn[s]))
      /\ client[s] # "new"
  BY <1>2 DEF Lines, Unended, Unused, Busy
<1>4. \A t \in Tool : toolRows[turn[s]][t] = "absent"
  BY DEF EInv, Unstored
<1>5. turn'[s] \in Turn /\ current'[s] \in Conv \cup {None}
  BY <1>1 DEF TypeOK
<1>6. \A k \in {"conversation_created", "user_prompt", "model_request_start",
                "text_delta", "final_result", "message_saved", "complete", "error"} :
        /\ Ev(s, k) \in Event
        /\ Ev(s, k).kind = k /\ Ev(s, k).turn = turn[s] /\ Ev(s, k).conv = current'[s]
  BY <1>5, EvType DEF Ev
<1>7. \A k \in {"tool_call", "tool_result"}, t \in Tool :
        /\ ToolEv(s, k, t) \in Event /\ ToolEv(s, k, t).kind = k
        /\ ToolEv(s, k, t).turn = turn[s] /\ ToolEv(s, k, t).tool = t
  BY <1>5, EvType DEF Ev, ToolEv
<1>8. QED
  BY <1>1, <1>2, <1>3, <1>4, <1>6, <1>7

\* An event that does not end the turn, and the step that sends it.
LEMMA MidTurn ==
  ASSUME EInv, [Next]_vars, TypeOK', NEW s \in Session, NEW e \in Event, e.turn = turn[s],
         e.kind \in {"user_prompt", "model_request_start", "text_delta", "tool_call",
                     "tool_result"},
         client[s] = "open" => Fits(sent[s], e), Emit(s, <<e>>),
         pc[s] \in {"persist", "start", "stream"}, pc'[s] \in {"start", "stream"},
         pc'[s] = "stream" => pc[s] = "stream" \/ e.kind = "model_request_start",
         UNCHANGED <<turns, turn, client, history, toolRows>>,
         \A z \in Session \ {s} : sent'[z] = sent[z] => Same(z),
         output'[s] <=> output[s] \/ e.kind = "text_delta",
         \A t \in Tool :
           /\ calls'[s][t] = "none"
                <=> calls[s][t] = "none" /\ ~(e.kind = "tool_call" /\ e.tool = t)
           /\ calls'[s][t] \in {"done", "empty"}
                => calls[s][t] \in {"done", "empty"} \/ (e.kind = "tool_result" /\ e.tool = t)
  PROVE  Kept
<1>1. Busy(s) /\ Busy(s)'
  BY DEF Busy
<1>2. Added(s, e) /\ Aside(s)
  BY <1>1, Speaks
<1>3. Unused(s)'
  BY <1>1, InTurn DEF Unused
<1>4. Unended(s)'
  BY <1>1, <1>2, InTurn DEF Unended, Busy, Terminal, Added
<1>5. Told(s)'
  <2>1. pc'[s] = "stream" /\ client[s] = "open" => Has(sent'[s], "model_request_start", turn[s])
    BY <1>1, <1>2, InTurn DEF Told, Added
  <2>2. client[s] = "open" => (output'[s] <=> Has(sent'[s], "text_delta", turn[s]))
    BY <1>1, <1>2, InTurn DEF Told, Added
  <2>3. client[s] = "open" => \A t \in Tool :
          /\ calls'[s][t] = "none" <=> ~HasTool(sent'[s], "tool_call", t, turn[s])
          /\ calls'[s][t] \in {"done", "empty"} => HasTool(sent'[s], "tool_result", t, turn[s])
    BY <1>1, <1>2, InTurn DEF Told, Added
  <2>4. QED
    BY <2>1, <2>2, <2>3 DEF Told
<1>6. Memory(s)'
  BY <1>1, <1>2, InTurn DEF Memory, Unended, Added
<1>7. Shown(s)'
  BY <1>1, <1>2, InTurn DEF Shown, Added
<1>8. QED
  BY <1>2, <1>3, <1>4, <1>5, <1>6, <1>7 DEF Aside, Place, Kept

\* A complete or an error on its own ends the turn, with nothing remembered of it
\* that was not, and no tool calls stored.
LEMMA EndTurn ==
  ASSUME EInv, [Next]_vars, TypeOK', NEW s \in Session, Busy(s), NEW e \in Event,
         e.turn = turn[s], e.kind \in Terminal, Emit(s, <<e>>), pc'[s] = "idle",
         UNCHANGED <<turns, turn, client, history, toolRows>>,
         \A z \in Session \ {s} : sent'[z] = sent[z] => Same(z)
  PROVE  Kept
<1>1. Fits(sent[s], e)
  BY InTurn DEF Fits, Streamed, Terminal
<1>2. Added(s, e) /\ Aside(s)
  BY <1>1, Speaks DEF Terminal, Busy
<1>3. Unused(s)'
  BY InTurn DEF Unused
<1>4. Unended(s)'
  BY DEF Unended, Busy
<1>5. Told(s)'
  BY <1>2, InTurn DEF Told, Busy, Added
<1>6. Memory(s)'
  BY <1>2, InTurn DEF Memory, Added, Terminal
<1>7. Shown(s)'
  BY <1>2, InTurn DEF Shown, Added, Terminal
<1>8. QED
  BY <1>2, <1>3, <1>4, <1>5, <1>6, <1>7 DEF Aside, Place, Kept

\* persist_user_turn in a new conversation announces it before the prompt.
LEMMA PersistInNewKeeps ==
  ASSUME EInv, [Next]_vars, TypeOK', NEW s \in Session, PersistInNew(s)
  PROVE  Kept
<1> DEFINE a == Ev(s, "conversation_created")
           b == Ev(s, "user_prompt")
<1>1. /\ pc[s] = "persist" /\ pc'[s] = "start" /\ Busy(s) /\ Busy(s)' /\ turn' = turn
      /\ \A z \in Session \ {s} : sent'[z] = sent[z] => Same(z)
      /\ UNCHANGED <<turns, toolRows, client, output, calls, history>> /\ Emit(s, <<a, b>>)
  BY DEF PersistInNew, Goto, Busy, Same, run, EInv, IInv, TypeInv, TypeOK
<1>2. /\ a \in Event /\ a.kind = "conversation_created" /\ a.turn = turn[s]
      /\ b \in Event /\ b.kind = "user_prompt" /\ b.turn = turn[s]
  BY <1>1, InTurn
<1>3. Fits(sent[s], a)
  <2>1. \A k : ~Has(sent[s], k, turn[s])
    BY <1>1, InTurn, NoneOfTurn DEF Unended
  <2>2. QED
    BY <1>1, <1>2, <2>1, InTurn DEF Fits, Streamed
<1> HIDE DEF a, b
<1>4. AddedBoth(s, a, b) /\ Aside(s)
  BY <1>1, <1>2, <1>3, SpeaksTwice DEF Terminal
<1>5. Unused(s)'
  BY <1>1, InTurn DEF Unused
<1>6. Unended(s)'
  BY <1>1, <1>2, <1>4, InTurn DEF Unended, Busy, Terminal, AddedBoth
<1>7. Told(s)'
  BY <1>1, <1>2, <1>4, InTurn DEF Told, Busy, AddedBoth
<1>8. Memory(s)'
  BY <1>1, <1>2, <1>4, InTurn DEF Memory, AddedBoth
<1>9. Shown(s)'
  BY <1>1, <1>2, <1>4, InTurn DEF Shown, AddedBoth
<1>10. QED
  BY <1>4, <1>5, <1>6, <1>7, <1>8, <1>9 DEF Aside, Place, Kept

\* The agent node's message repeats a call that a chunk announced.
LEMMA ToolKnownKeeps ==
  ASSUME EInv, [Next]_vars, TypeOK', NEW s \in Session, NEW t \in Tool, ToolCalled(s, t),
         calls[s][t] # "none"
  PROVE  Kept
<1>1. /\ pc[s] = "stream" /\ Busy(s) /\ turn' = turn
      /\ sent' = sent
      /\ \A z \in Session \ {s} : Same(z)
      /\ UNCHANGED <<turns, toolRows, client, pc, output, history>>
      /\ \A k \in Tool \ {t} : calls'[s][k] = calls[s][k]
      /\ calls'[s][t] = "called" /\ calls[s][t] = "seen"
  <2>1. Emit(s, <<>>)
    BY DEF ToolCalled
  <2>2. sent' = sent
    BY <2>1, sent[s] \in Seq(Event) DEF Emit, EInv, IInv, TypeInv, TypeOK
  <2>3. QED
    BY <2>2 DEF ToolCalled, Busy, Same, db, EInv, IInv, TypeInv, TypeOK
<1>2. Busy(s)' => Busy(s)
  BY <1>1 DEF Busy
<1>3. (\A z \in Session \ {s} : Place(z)') /\ OwnEvents' /\ Unstored'
  BY <1>1, <1>2, Continues
<1>4. AllBacked'
  BY <1>1, BackedNext
<1>5. Lines(s)' /\ Unused(s)' /\ Unended(s)' /\ Memory(s)' /\ Shown(s)'
  BY <1>1, InTurn DEF Lines, Unused, Unended, Memory, Shown, Busy
<1>6. Told(s)'
  BY <1>1, InTurn DEF Told, Busy
<1>7. QED
  BY <1>3, <1>4, <1>5, <1>6 DEF Place, Kept

\* The stream ends: what was said is remembered, and the turn goes on to save it
\* or ends.
LEMMA FinishStreamKeeps ==
  ASSUME EInv, [Next]_vars, TypeOK', NEW s \in Session, FinishStream(s)
  PROVE  Kept
<1> DEFINE saves == output[s] /\ current[s] # None
           a == Ev(s, "final_result")
           b == Ev(s, "complete")
<1>1. /\ pc[s] = "stream" /\ pc'[s] = (IF saves THEN "save" ELSE "idle") /\ Busy(s)
      /\ turn' = turn /\ \A z \in Session \ {s} : sent'[z] = sent[z] => Same(z)
      /\ UNCHANGED <<turns, toolRows, client, output, calls>>
      /\ output[s] => history'[s] = Append(history[s], turn[s])
      /\ ~output[s] => history'[s] = history[s]
      /\ Emit(s, IF saves THEN <<a>> ELSE <<a, b>>)
  BY DEF FinishStream, Goto, Busy, Same, db, run, EInv, IInv, TypeInv, TypeOK
<1>2. /\ a \in Event /\ a.kind = "final_result" /\ a.turn = turn[s]
      /\ b \in Event /\ b.kind = "complete" /\ b.turn = turn[s]
  BY <1>1, InTurn
<1>3. client[s] = "open" => Fits(sent[s], a)
  BY <1>1, <1>2, InTurn DEF Fits, Streamed, Told, Unended
<1> HIDE DEF a, b
<1>4. saves => Added(s, a) /\ Aside(s)
  <2> SUFFICES ASSUME saves PROVE Added(s, a) /\ Aside(s)
    OBVIOUS
  <2>1. Emit(s, <<a>>)
    BY <1>1
  <2>2. QED
    BY <1>1, <1>2, <1>3, <2>1, Speaks
<1>5. ~saves => AddedBoth(s, a, b) /\ Aside(s)
  <2> SUFFICES ASSUME ~saves PROVE AddedBoth(s, a, b) /\ Aside(s)
    OBVIOUS
  <2>1. Emit(s, <<a, b>>)
    BY <1>1
  <2>2. QED
    BY <1>1, <1>2, <1>3, <2>1, SpeaksTwice DEF Terminal
<1>6. /\ \A k : k # "complete" => \A n : Has(sent'[s], k, n)
           <=> Has(sent[s], k, n) \/ (client[s] = "open" /\ k = "final_result" /\ turn[s] = n)
      /\ \A n : Has(sent'[s], "complete", n)
           <=> Has(sent[s], "complete", n) \/ (client[s] = "open" /\ ~saves /\ turn[s] = n)
      /\ \A k \in {"tool_call", "tool_result"} : \A t, n :
           HasTool(sent'[s], k, t, n) <=> HasTool(sent[s], k, t, n)
  BY <1>2, <1>4, <1>5 DEF Added, AddedBoth
<1>7. Unused(s)'
  BY <1>1, InTurn DEF Unused
<1>8. Unended(s)'
  BY <1>1, <1>6, InTurn DEF Unended, Busy, Terminal
<1>9. Told(s)'
  BY <1>1, <1>6, InTurn DEF Told, Busy, Terminal
<1>10. Memory(s)'
  <2>1. /\ Rising(history[s]) /\ Earlier(history[s], turn[s])
        /\ AtMost(history[s], turn[s]) /\ ~Remembers(history[s], turn[s])
    BY <1>1, InTurn, RememberLater DEF Memory
  <2>2. /\ Rising(history'[s]) /\ AtMost(history'[s], turn[s])
        /\ \A n : Remembers(history'[s], n)
                    <=> Remembers(history[s], n) \/ (output[s] /\ n = turn[s])
    <3>1. history[s] \in Seq(Turn) /\ turn[s] \in Turn
      BY <1>1, InTurn
    <3>2. CASE output[s]
      <4>1. history'[s] = Append(history[s], turn[s])
        BY <1>1, <3>2
      <4>2. /\ Rising(history'[s]) /\ AtMost(history'[s], turn[s])
            /\ \A n : Remembers(history'[s], n) <=> Remembers(history[s], n) \/ n = turn[s]
        BY <2>1, <3>1, <4>1, RememberOne
      <4>3. QED
        BY <3>2, <4>2
    <3>3. CASE ~output[s]
      BY <1>1, <2>1, <3>3
    <3>4. QED
      BY <3>2, <3>3
  <2>3. ASSUME client[s] = "open", NEW n \in Turn
        PROVE  Remembers(history'[s], n)
                 <=> Has(sent'[s], "text_delta", n) /\ Has(sent'[s], "final_result", n)
    BY <1>1, <1>6, <2>1, <2>2, <2>3, InTurn DEF Memory, Told
  <2>4. QED
    BY <1>1, <2>2, <2>3 DEF Memory
<1>11. Shown(s)'
  BY <1>1, <1>6, InTurn DEF Shown
<1>12. QED
  BY <1>4, <1>5, <1>7, <1>8, <1>9, <1>10, <1>11 DEF Aside, Place, Kept

\* The reply is saved: the client is told of the message, and shown the calls
\* that were stored with it.
LEMMA SaveReplyKeeps ==
  ASSUME EInv, [Next]_vars, TypeOK', NEW s \in Session, SaveReply(s)
  PROVE  Kept
<1>1. /\ pc[s] = "save" /\ pc'[s] = "idle" /\ Busy(s) /\ ~Busy(s)' /\ turn' = turn
      /\ \A z \in Session \ {s} : sent'[z] = sent[z] => Same(z)
      /\ UNCHANGED <<turns, client, output, calls, history, current>>
      /\ Emit(s, <<Ev(s, "message_saved"), Ev(s, "complete")>>)
      /\ \A n \in Turn, t \in Tool : toolRows'[n][t] = toolRows[n][t] \/ n = turn[s]
      /\ \A t \in Tool : toolRows'[turn[s]][t] \in ToolRow(calls[s][t])
  BY DEF SaveReply, Goto, Busy, Same, run, EInv, IInv, TypeInv, TypeOK, BusyHasTurn
<1>2. PICK a \in Event, b \in Event :
        /\ a.kind = "message_saved" /\ a.turn = turn[s] /\ a.conv = current[s]
        /\ b.kind = "complete" /\ b.turn = turn[s]
        /\ Emit(s, <<a, b>>)
  <2>1. /\ Ev(s, "message_saved") \in Event /\ Ev(s, "complete") \in Event
        /\ Ev(s, "message_saved").kind = "message_saved"
        /\ Ev(s, "message_saved").turn = turn[s] /\ Ev(s, "message_saved").conv = current[s]
        /\ Ev(s, "complete").kind = "complete" /\ Ev(s, "complete").turn = turn[s]
    BY <1>1, InTurn
  <2>2. QED
    BY <1>1, <2>1
<1>3. client[s] = "open" => Fits(sent[s], a)
  BY <1>1, <1>2, InTurn DEF Fits, Streamed, Told
<1>4. Backed(a)'
  <2>1. current[s] \in Conv /\ turn[s] \in Turn /\ Store(current[s], turn[s], "assistant")
    BY <1>1 DEF SaveReply, EInv, IInv, TypeInv, TypeOK, BusyHasTurn, WrittenSoFar
  <2>2. wrote'[turn[s]]["assistant"] = current[s]
    BY <2>1 DEF Store, Role, EInv, IInv, TypeInv, TypeOK
  <2>3. \E j \in 1 .. Len(rows'[current[s]]) :
          rows'[current[s]][j] = [role |-> "assistant", turn |-> turn[s]]
    <3>1. /\ rows[current[s]] \in Seq([role : Role, turn : Turn])
          /\ rows'[current[s]] = Append(rows[current[s]], [role |-> "assistant", turn |-> turn[s]])
      BY <2>1 DEF Store, EInv, IInv, TypeInv, TypeOK
    <3>2. /\ Len(rows[current[s]]) + 1 \in 1 .. Len(rows'[current[s]])
          /\ rows'[current[s]][Len(rows[current[s]]) + 1] = [role |-> "assistant", turn |-> turn[s]]
      BY <3>1
    <3>3. QED
      BY <3>2
  <2>4. QED
    BY <1>2, <2>1, <2>2, <2>3 DEF Backed
<1>5. AddedBoth(s, a, b) /\ Aside(s)
  BY <1>1, <1>2, <1>3, <1>4, SpeaksTwice DEF Terminal
<1>6. Unused(s)'
  BY <1>1, InTurn DEF Unused
<1>7. Unended(s)'
  BY <1>1 DEF Unended, Busy
<1>8. Told(s)'
  <2>1. client[s] = "open" => Has(sent'[s], "complete", turn[s])
    BY <1>2, <1>5 DEF AddedBoth
  <2>2. QED
    BY <1>1, <2>1 DEF Told, Busy, Terminal
<1>9. Memory(s)'
  <2>1. \A k \in {"text_delta", "final_result"}, n \in Turn :
          Has(sent'[s], k, n) <=> Has(sent[s], k, n)
    BY <1>2, <1>5 DEF AddedBoth
  <2>2. Memory(s)
    BY <1>1, InTurn
  <2>3. QED
    BY <1>1, <2>1, <2>2 DEF Memory
<1>10. Shown(s)'
  <2> SUFFICES ASSUME client[s] = "open", NEW n \in Turn, NEW t \in Tool,
                      Has(sent'[s], "complete", n)
               PROVE  /\ toolRows'[n][t] # "absent" => HasTool(sent'[s], "tool_call", t, n)
                      /\ toolRows'[n][t] = "completed" => HasTool(sent'[s], "tool_result", t, n)
    BY <1>1 DEF Shown
  <2>1. \A k \in {"tool_call", "tool_result"} :
          HasTool(sent'[s], k, t, n) <=> HasTool(sent[s], k, t, n)
    BY <1>2, <1>5 DEF AddedBoth
  <2>2. CASE n = turn[s]
    <3>1. /\ toolRows'[n][t] # "absent" => calls[s][t] # "none"
          /\ toolRows'[n][t] = "completed" => calls[s][t] = "done"
      BY <1>1, <2>2 DEF ToolRow
    <3>2. QED
      BY <1>1, <2>1, <2>2, <3>1, InTurn DEF Told
  <2>3. CASE n # turn[s]
    <3>1. Has(sent[s], "complete", n)
      BY <1>5, <2>3 DEF AddedBoth
    <3>2. QED
      BY <1>1, <2>1, <2>3, <3>1, InTurn DEF Shown
  <2>4. QED
    BY <2>2, <2>3
<1>11. QED
  BY <1>5, <1>6, <1>7, <1>8, <1>9, <1>10 DEF Aside, Place, Kept

\* A prompt begins a turn later than all the client has heard and is remembered.
LEMMA ReceiveKeeps ==
  ASSUME EInv, [Next]_vars, TypeOK', NEW s \in Session, NEW c \in Conv \cup {None},
         Receive(s, c)
  PROVE  Kept
<1> USE SessionAssumption
<1>1. /\ pc[s] = "idle" /\ pc'[s] = "persist" /\ ~Busy(s) /\ client[s] = "open"
      /\ turns' = turns + 1 /\ turn'[s] = turns + 1 /\ turns + 1 \in Turn
      /\ \A z \in Session \ {s} : Same(z)
      /\ UNCHANGED <<sent, client, history, toolRows>>
      /\ ~output'[s] /\ \A t \in Tool : calls'[s][t] = "none"
  BY DEF Receive, FreshRun, Goto, Busy, Same, db, EInv, IInv, TypeInv, TypeOK, Turn
<1>2. /\ sent[s] \in Seq(Event) /\ history[s] \in Seq(Turn)
      /\ turn[s] \in Nat /\ turns + 1 \in Nat /\ turn[s] < turns + 1
  BY DEF EInv, IInv, TypeInv, TypeOK, TurnsOwned
<1>3. Lines(s) /\ Unused(s) /\ Unended(s) /\ Told(s) /\ Memory(s) /\ Shown(s)
  BY DEF EInv, Place
<1>4. /\ UpTo(sent[s], turns + 1) /\ Below(sent[s], turns + 1)
      /\ \A k : ~Has(sent[s], k, turns + 1)
      /\ \A k, t : ~HasTool(sent[s], k, t, turns + 1)
  BY <1>2, <1>3, LaterTurn DEF Lines
<1>5. (\A z \in Session \ {s} : Place(z)') /\ OwnEvents' /\ Unstored'
  BY <1>1, Begins
<1>6. AllBacked'
  BY <1>1, BackedNext
<1>7. Lines(s)' /\ Unused(s)' /\ Unended(s)' /\ Shown(s)'
  BY <1>1, <1>3, <1>4 DEF Lines, Unused, Unended, Shown
<1>8. Told(s)'
  BY <1>1, <1>4 DEF Told
<1>9. Memory(s)'
  <2>1. AtMost(history[s], turns + 1) /\ Earlier(history[s], turns + 1)
    BY <1>2, <1>3, RememberLater DEF Memory
  <2>2. QED
    BY <1>1, <1>3, <2>1 DEF Memory
<1>10. QED
  BY <1>5, <1>6, <1>7, <1>8, <1>9 DEF Place, Kept

\* A blank prompt is a turn of one event.
LEMMA ReceiveBlankKeeps ==
  ASSUME EInv, [Next]_vars, TypeOK', NEW s \in Session, ReceiveBlank(s)
  PROVE  Kept
<1> USE SessionAssumption
<1>1. /\ pc[s] = "idle" /\ pc'[s] = "idle" /\ ~Busy(s) /\ client[s] = "open"
      /\ turns' = turns + 1 /\ turn'[s] = turns + 1 /\ turns + 1 \in Turn
      /\ \A z \in Session \ {s} : sent'[z] = sent[z] => Same(z)
      /\ UNCHANGED <<client, history, toolRows, output, calls>>
      /\ Emit(s, <<Ev(s, "error")>>)
  BY DEF ReceiveBlank, Busy, Same, db, run, EInv, IInv, TypeInv, TypeOK, Turn
<1>2. /\ sent[s] \in Seq(Event) /\ history[s] \in Seq(Turn)
      /\ turn[s] \in Nat /\ turns + 1 \in Nat /\ turn[s] < turns + 1
  BY DEF EInv, IInv, TypeInv, TypeOK, TurnsOwned
<1>3. Lines(s) /\ Unused(s) /\ Unended(s) /\ Told(s) /\ Memory(s) /\ Shown(s)
  BY DEF EInv, Place
<1>4. /\ UpTo(sent[s], turns + 1) /\ Lacks(sent[s], turns + 1)
      /\ \A k : ~Has(sent[s], k, turns + 1)
      /\ \A k, t : ~HasTool(sent[s], k, t, turns + 1)
  BY <1>2, <1>3, LaterTurn DEF Lines
<1>5. PICK e \in Event : e.kind = "error" /\ e.turn = turns + 1 /\ Emit(s, <<e>>)
  <2>1. turn'[s] \in Turn /\ current'[s] \in Conv \cup {None}
    BY <1>1 DEF TypeOK
  <2>2. /\ Ev(s, "error") \in Event /\ Ev(s, "error").kind = "error"
        /\ Ev(s, "error").turn = turns + 1
    BY <1>1, <2>1, EvType DEF Ev
  <2>3. QED
    BY <1>1, <2>2
<1>6. Fits(sent[s], e)
  BY <1>4, <1>5 DEF Fits, Streamed
<1>7. Hears(sent[s], TRUE, e, sent'[s]) /\ \A z \in Session \ {s} : sent'[z] = sent[z]
  <2>1. TypeOK /\ TRUE = (client[s] = "open")
    BY <1>1 DEF EInv, IInv, TypeInv
  <2>2. sent'[s] = Heard(sent[s], TRUE, e) /\ \A z \in Session \ {s} : sent'[z] = sent[z]
    BY <1>1, <1>5, <2>1, EmitsOne
  <2>3. QED
    BY <1>2, <1>5, <2>2, HeardSays
<1>8. /\ \A k, n : Has(sent'[s], k, n) <=> Has(sent[s], k, n) \/ (k = "error" /\ n = turns + 1)
      /\ \A k, t, n : k # "error" => (HasTool(sent'[s], k, t, n) <=> HasTool(sent[s], k, t, n))
      /\ UpTo(sent'[s], turns + 1)
      /\ Bracketed(sent[s]) => Bracketed(sent'[s])
      /\ ToolsOnce(sent[s]) => ToolsOnce(sent'[s])
  BY <1>2, <1>4, <1>5, <1>6, <1>7 DEF Hears
<1>9. (\A z \in Session \ {s} : Place(z)') /\ OwnEvents' /\ Unstored'
  <2>1. \A n : Lacks(sent[s], n) /\ n # turns + 1 => Lacks(sent'[s], n)
    BY <1>5, <1>7 DEF Hears
  <2>2. QED
    BY <1>1, <1>7, <2>1, Begins
<1>10. AllBacked'
  <2>1. Backed(e)'
    BY <1>5 DEF Backed
  <2>2. QED
    BY <1>5, <1>7, <2>1, BackedNext DEF Hears
<1>11. Lines(s)' /\ Unused(s)' /\ Unended(s)'
  BY <1>1, <1>3, <1>8 DEF Lines, Unused, Unended, Busy
<1>12. Told(s)'
  BY <1>1, <1>8 DEF Told, Busy, Terminal
<1>13. Memory(s)'
  <2>1. AtMost(history[s], turns + 1)
    BY <1>2, <1>3, RememberLater DEF Memory
  <2>2. QED
    BY <1>1, <1>3, <1>8, <2>1 DEF Memory
<1>14. Shown(s)'
  BY <1>1, <1>3, <1>8 DEF Shown
<1>15. QED
  BY <1>9, <1>10, <1>11, <1>12, <1>13, <1>14 DEF Place, Kept

\* What another tab does to the conversations leaves every session where it is.
LEMMA TabsKeep ==
  ASSUME EInv, [Next]_vars, TypeOK',
         UNCHANGED <<sent, turn, pc, client, output, calls, history, toolRows, turns>>
  PROVE  Kept
<1>1. \A z \in Session : Same(z)
  BY DEF Same
<1>2. \A z \in Session : Place(z)'
  BY <1>1, OthersPlace
<1>3. OwnEvents' /\ Unstored'
  BY DEF EInv, OwnEvents, Unstored, Busy
<1>4. AllBacked'
  BY BackedNext
<1>5. QED
  BY <1>2, <1>3, <1>4 DEF Kept

LEMMA EInvNext == EInv /\ [Next]_vars => EInv'
<1> SUFFICES ASSUME EInv, [Next]_vars PROVE EInv'
  OBVIOUS
<1>type. IInv' /\ TypeOK' /\ TypeOK
  BY IInvNext DEF EInv, IInv, TypeInv
<1>1. ASSUME NEW s \in Session, Connect(s) \/ Disconnect(s) \/ EndLoop(s) \/ Crash(s) PROVE Kept
  <2>1. Unused(s)
    BY DEF EInv, Place
  <2>2. /\ \A z \in Session \ {s} : Same(z)
        /\ UNCHANGED <<sent, turn, turns, history, output, calls, toolRows>>
        /\ Busy(s)' => pc'[s] = pc[s]
        /\ client'[s] = "new" => pc'[s] = "new"
        /\ pc'[s] = "new" => pc[s] = "new" /\ client'[s] = "new"
        /\ \/ client'[s] # "open"
           \/ pc[s] = "new" /\ pc'[s] = "idle"
           \/ client[s] = "open" /\ pc'[s] = pc[s]
    <3>1. CASE Connect(s)
      BY <3>1, <1>type DEF Connect, Goto, Same, Busy, db, run, TypeOK
    <3>2. CASE Disconnect(s)
      BY <3>2, <2>1, <1>type DEF Disconnect, Same, Busy, db, run, TypeOK, Unused
    <3>3. CASE EndLoop(s)
      BY <3>3, <1>type DEF EndLoop, Goto, Same, Busy, db, run, TypeOK
    <3>4. CASE Crash(s)
      BY <3>4, <1>type DEF Crash, Goto, Same, Busy, db, run, TypeOK
    <3>5. QED
      BY <1>1, <3>1, <3>2, <3>3, <3>4
  <2>3. QED
    BY <1>type, <2>2, SilentStep
<1>2. ASSUME NEW s \in Session, NEW c \in Conv \cup {None}, Receive(s, c) PROVE Kept
  BY <1>type, <1>2, ReceiveKeeps
<1>3. ASSUME NEW s \in Session, ReceiveBlank(s) PROVE Kept
  BY <1>type, <1>3, ReceiveBlankKeeps
<1>4. ASSUME NEW s \in Session, PersistInExisting(s) \/ PersistNothing(s) PROVE Kept
  <2> DEFINE e == Ev(s, "user_prompt")
  <2>1. /\ pc[s] = "persist" /\ pc'[s] = "start" /\ Busy(s) /\ Emit(s, <<e>>)
        /\ UNCHANGED <<turns, turn, client, history, toolRows, output, calls>>
        /\ \A z \in Session \ {s} : sent'[z] = sent[z] => Same(z)
    BY <1>4, <1>type DEF PersistInExisting, PersistNothing, Goto, Busy, Same, db, run, TypeOK
  <2>2. e \in Event /\ e.kind = "user_prompt" /\ e.turn = turn[s]
    BY <1>type, <2>1, InTurn
  <2>3. Fits(sent[s], e)
    BY <1>type, <2>1, <2>2, InTurn DEF Fits, Streamed
  <2> HIDE DEF e
  <2>4. QED
    BY <1>type, <2>1, <2>2, <2>3, MidTurn
<1>5. ASSUME NEW s \in Session, PersistInNew(s) PROVE Kept
  BY <1>type, <1>5, PersistInNewKeeps
<1>6. ASSUME NEW s \in Session, StartStream(s) PROVE Kept
  <2> DEFINE e == Ev(s, "model_request_start")
  <2>1. /\ pc[s] = "start" /\ pc'[s] = "stream" /\ Busy(s) /\ Emit(s, <<e>>)
        /\ UNCHANGED <<turns, turn, client, history, toolRows, output, calls>>
        /\ \A z \in Session \ {s} : sent'[z] = sent[z] => Same(z)
    BY <1>6, <1>type DEF StartStream, Goto, Busy, Same, db, run, TypeOK
  <2>2. e \in Event /\ e.kind = "model_request_start" /\ e.turn = turn[s]
    BY <1>type, <2>1, InTurn
  <2>3. Fits(sent[s], e)
    BY <1>type, <2>1, <2>2, InTurn DEF Fits, Streamed
  <2> HIDE DEF e
  <2>4. QED
    BY <1>type, <2>1, <2>2, <2>3, MidTurn
<1>7. ASSUME NEW s \in Session, FailTurn(s) \/ SaveFails(s) PROVE Kept
  <2>1. PICK k \in Terminal :
          /\ Busy(s) /\ pc'[s] = "idle" /\ Emit(s, <<Ev(s, k)>>)
          /\ UNCHANGED <<turns, turn, client, history, toolRows>>
          /\ \A z \in Session \ {s} : sent'[z] = sent[z] => Same(z)
    BY <1>7, <1>type DEF FailTurn, SaveFails, Goto, Busy, Same, db, run, TypeOK, Terminal
  <2> DEFINE e == Ev(s, k)
  <2>2. e \in Event /\ e.kind \in Terminal /\ e.turn = turn[s]
    BY <1>type, <2>1, InTurn DEF Terminal
  <2> HIDE DEF e
  <2>3. Emit(s, <<e>>)
    BY <2>1 DEF e
  <2>4. QED
    BY <1>type, <2>1, <2>2, <2>3, EndTurn
<1>8. ASSUME NEW s \in Session, TextChunk(s) PROVE Kept
  <2> DEFINE e == Ev(s, "text_delta")
  <2>1. /\ pc[s] = "stream" /\ pc'[s] = "stream" /\ Busy(s) /\ Emit(s, <<e>>)
        /\ UNCHANGED <<turns, turn, client, history, toolRows, calls>> /\ output'[s]
        /\ \A z \in Session \ {s} : sent'[z] = sent[z] => Same(z)
    BY <1>8, <1>type DEF TextChunk, Busy, Same, db, TypeOK
  <2>2. e \in Event /\ e.kind = "text_delta" /\ e.turn = turn[s]
    BY <1>type, <2>1, InTurn
  <2>3. client[s] = "open" => Fits(sent[s], e)
    BY <1>type, <2>1, <2>2, InTurn DEF Fits, Streamed, Told, Unended
  <2> HIDE DEF e
  <2>4. QED
    BY <1>type, <2>1, <2>2, <2>3, MidTurn
<1>9. ASSUME NEW s \in Session, NEW t \in Tool,
             ToolChunk(s, t) \/ (ToolCalled(s, t) /\ calls[s][t] = "none")
      PROVE  Kept
  <2> DEFINE e == ToolEv(s, "tool_call", t)
  <2>1. /\ pc[s] = "stream" /\ pc'[s] = "stream" /\ Busy(s) /\ Emit(s, <<e>>)
        /\ UNCHANGED <<turns, turn, client, history, toolRows, output>>
        /\ calls[s][t] = "none" /\ calls'[s][t] \in {"seen", "called"}
        /\ \A k \in Tool \ {t} : calls'[s][k] = calls[s][k]
        /\ \A z \in Session \ {s} : sent'[z] = sent[z] => Same(z)
    BY <1>9, <1>type DEF ToolChunk, ToolCalled, Busy, Same, db, TypeOK
  <2>2. e \in Event /\ e.kind = "tool_call" /\ e.turn = turn[s] /\ e.tool = t
    BY <1>type, <2>1, InTurn
  <2>3. client[s] = "open" => Fits(sent[s], e)
    BY <1>type, <2>1, <2>2, InTurn DEF Fits, Streamed, Told, Unended
  <2> HIDE DEF e
  <2>4. QED
    BY <1>type, <2>1, <2>2, <2>3, MidTurn
<1>10. ASSUME NEW s \in Session, NEW t \in Tool, ToolCalled(s, t), calls[s][t] # "none"
       PROVE  Kept
  BY <1>type, <1>10, ToolKnownKeeps
<1>11. ASSUME NEW s \in Session, NEW t \in Tool, ToolResult(s, t) PROVE Kept
  <2> DEFINE e == ToolEv(s, "tool_result", t)
  <2>1. /\ pc[s] = "stream" /\ pc'[s] = "stream" /\ Busy(s) /\ Emit(s, <<e>>)
        /\ UNCHANGED <<turns, turn, client, history, toolRows, output>>
        /\ calls[s][t] = "called" /\ calls'[s][t] \in {"done", "empty"}
        /\ \A k \in Tool \ {t} : calls'[s][k] = calls[s][k]
        /\ \A z \in Session \ {s} : sent'[z] = sent[z] => Same(z)
    BY <1>11, <1>type DEF ToolResult, Busy, Same, db, TypeOK
  <2>2. e \in Event /\ e.kind = "tool_result" /\ e.turn = turn[s] /\ e.tool = t
    BY <1>type, <2>1, InTurn
  <2>3. client[s] = "open" => Fits(sent[s], e)
    BY <1>type, <2>1, <2>2, InTurn DEF Fits, Streamed, Told, Unended
  <2> HIDE DEF e
  <2>4. QED
    BY <1>type, <2>1, <2>2, <2>3, MidTurn
<1>12. ASSUME NEW s \in Session, FinishStream(s) PROVE Kept
  BY <1>type, <1>12, FinishStreamKeeps
<1>13. ASSUME NEW s \in Session, SaveReply(s) PROVE Kept
  BY <1>type, <1>13, SaveReplyKeeps
<1>14. ASSUME NEW c \in Conv, CreateConversation(c) \/ DeleteConversation(c) PROVE Kept
  BY <1>type, <1>14, TabsKeep DEF CreateConversation, DeleteConversation, run
<1>15. ASSUME UNCHANGED vars PROVE Kept
  BY <1>type, <1>15, TabsKeep DEF vars
<1>16. Kept
  BY <1>1, <1>2, <1>3, <1>4, <1>5, <1>6, <1>7, <1>8, <1>9, <1>10, <1>11, <1>12, <1>13,
     <1>14, <1>15 DEF Next, Step, Stream, Environment
<1>17. QED
  BY <1>type, <1>16 DEF EInv, Kept

-----------------------------------------------------------------------------
(* What a client is told.  The invariant speaks of Has and HasTool; the     *)
(* properties of the model of sets of positions.                            *)

LEMMA EInvReplies == EInv => RepliesAreTrue
<1> SUFFICES ASSUME EInv PROVE RepliesAreTrue
  OBVIOUS
<1>1. SavedMeansStored
  <2> SUFFICES ASSUME NEW s \in Session, NEW i \in 1 .. Len(sent[s]), NEW e \in Event,
                      e = sent[s][i], e.kind = "message_saved"
               PROVE  /\ wrote[e.turn]["assistant"] = e.conv
                      /\ convs[e.conv] # "deleted" =>
                           \E j \in 1 .. Len(rows[e.conv]) :
                             rows[e.conv][j] = [role |-> "assistant", turn |-> e.turn]
    <3>1. \A s \in Session : \A i \in 1 .. Len(sent[s]) : sent[s][i] \in Event
      BY ElementType DEF EInv, IInv, TypeInv, TypeOK
    <3>2. QED
      BY <3>1 DEF SavedMeansStored
  <2>1. Backed(e)
    BY DEF EInv, AllBacked
  <2>2. QED
    BY <2>1 DEF Backed
<1>2. MemoryMatchesReplies
  <2> SUFFICES ASSUME NEW s \in Session
               PROVE  /\ \A i, j \in 1 .. Len(history[s]) : i < j => history[s][i] < history[s][j]
                      /\ client[s] = "open" =>
                           {history[s][i] : i \in 1 .. Len(history[s])}
                             = {t \in Turn : Happened(s, "text_delta", t)
                                               /\ Happened(s, "final_result", t)}
    BY DEF MemoryMatchesReplies
  <2>1. Memory(s) /\ history[s] \in Seq(Turn)
    BY DEF EInv, Place, IInv, TypeInv, TypeOK
  <2>2. \A k, t : Happened(s, k, t) <=> Has(sent[s], k, t)
    BY DEF Happened, Has
  <2>3. \A i \in 1 .. Len(history[s]) : history[s][i] \in Turn
    BY <2>1, ElementType
  <2>4. QED
    BY <2>1, <2>2, <2>3 DEF Memory, Rising, Remembers
<1>3. QED
  BY <1>1, <1>2 DEF RepliesAreTrue

LEMMA EInvBrackets == EInv => TurnsAreBracketed
<1> SUFFICES ASSUME EInv, NEW s \in Session
             PROVE  /\ Bracketed(sent[s])
                    /\ pc[s] = "idle" /\ client[s] = "open" /\ turn[s] > 0 =>
                         \E k \in Terminal : Happened(s, k, turn[s])
  BY DEF TurnsAreBracketed, Bracketed, Before, Streamed
<1>1. Lines(s) /\ Told(s)
  BY DEF EInv, Place
<1>2. \A k, t : Happened(s, k, t) <=> Has(sent[s], k, t)
  BY DEF Happened, Has
<1>3. QED
  BY <1>1, <1>2 DEF Lines, Told

LEMMA EInvTools == EInv => ToolRowsMatchEvents
<1> DEFINE At(s, k, t, n) == {i \in 1 .. Len(sent[s]) :
             sent[s][i].kind = k /\ sent[s][i].turn = n /\ sent[s][i].tool = t}
<1> SUFFICES ASSUME EInv, NEW s \in Session, client[s] = "open", NEW n \in Turn, NEW t \in Tool
             PROVE  /\ \A i, j \in At(s, "tool_call", t, n) : i = j
                    /\ \A j \in At(s, "tool_result", t, n) :
                         \E i \in At(s, "tool_call", t, n) : i < j
                    /\ Happened(s, "complete", n) /\ toolRows[n][t] # "absent"
                         => At(s, "tool_call", t, n) # {}
                    /\ Happened(s, "complete", n) /\ toolRows[n][t] = "completed"
                         => At(s, "tool_result", t, n) # {}
  BY DEF ToolRowsMatchEvents
<1>1. ToolsOnce(sent[s]) /\ Shown(s) /\ sent[s] \in Seq(Event)
  BY DEF EInv, Place, Lines, IInv, TypeInv, TypeOK
<1>2. \A i, j \in At(s, "tool_call", t, n) : i = j
  BY <1>1 DEF ToolsOnce
<1>3. \A j \in At(s, "tool_result", t, n) : \E i \in At(s, "tool_call", t, n) : i < j
  <2> SUFFICES ASSUME NEW j \in At(s, "tool_result", t, n)
               PROVE  \E i \in At(s, "tool_call", t, n) : i < j
    OBVIOUS
  <2>1. PICK i \in 1 .. j - 1 : /\ sent[s][i].kind = "tool_call"
                                /\ sent[s][i].turn = n /\ sent[s][i].tool = t
    BY <1>1 DEF ToolsOnce
  <2>2. i \in 1 .. Len(sent[s]) /\ i < j
    BY <1>1, <2>1
  <2>3. QED
    BY <2>1, <2>2
<1>4. /\ Happened(s, "complete", n) => Has(sent[s], "complete", n)
      /\ \A k : HasTool(sent[s], k, t, n) => At(s, k, t, n) # {}
  BY DEF Happened, Has, HasTool
<1>5. QED
  BY <1>1, <1>2, <1>3, <1>4 DEF Shown

\* However turns of many connections interleave, fail or outlive their client,
\* a client told that its reply was saved was told so truthfully, and the memory
\* its next prompt is given holds the replies it saw finished and no others.
THEOREM RepliesStayTrue == Spec => []RepliesAreTrue
BY EInvInit, EInvNext, EInvReplies, PTL DEF Spec

\* The events a client receives come turn by turn and in order within a turn,
\* and a turn that is over for the server is over for its client, once.
THEOREM TurnsStayBracketed == Spec => []TurnsAreBracketed
BY EInvInit, EInvNext, EInvBrackets, PTL DEF Spec

\* Nothing that was written is taken back, but with the whole conversation, which
\* then does not come back.
THEOREM TablesOnlyGrow == Spec => [][Grows]_vars
<1>1. IInv /\ [Next]_vars => [Grows]_vars
  BY TablesGrow
<1>2. QED
  BY <1>1, IInvInit, IInvNext, PTL DEF Spec

\* The tool calls stored with a reply are those the client was shown, each
\* announced once and before its result.
THEOREM ToolRowsFollowEvents == Spec => []ToolRowsMatchEvents
BY EInvInit, EInvNext, EInvTools, PTL DEF Spec

-----------------------------------------------------------------------------
(* What a client was sent stays sent, which the proofs about the browser    *)
(* build on: the events that it has handled do not change behind it.        *)

EventsGrow ==
  \A s \in Session :
    /\ Len(sent'[s]) >= Len(sent[s])
    /\ \A i \in 1 .. Len(sent[s]) : sent'[s][i] = sent[s][i]

LEMMA EmitGrows ==
  ASSUME TypeOK, NEW s \in Session, NEW T, NEW events \in Seq(T), Emit(s, events)
  PROVE  EventsGrow
<1>1. sent[s] \in Seq(Event)
  BY DEF TypeOK
<1>2. /\ Len(sent[s] \o events) >= Len(sent[s])
      /\ \A i \in 1 .. Len(sent[s]) : (sent[s] \o events)[i] = sent[s][i]
  BY <1>1
<1>3. /\ sent'[s] = sent[s] \o events \/ sent'[s] = sent[s]
      /\ \A z \in Session \ {s} : sent'[z] = sent[z]
  BY DEF Emit, TypeOK
<1>4. ASSUME NEW z \in Session
      PROVE  /\ Len(sent'[z]) >= Len(sent[z])
             /\ \A i \in 1 .. Len(sent[z]) : sent'[z][i] = sent[z][i]
  <2>1. Len(sent[z]) \in Nat
    BY DEF TypeOK
  <2>2. QED
    BY <1>2, <1>3, <2>1
<1>5. QED
  BY <1>4 DEF EventsGrow

LEMMA EventsStay == TypeInv /\ [Next]_vars => EventsGrow
<1> SUFFICES ASSUME TypeInv, [Next]_vars PROVE EventsGrow
  OBVIOUS
<1>1. CASE UNCHANGED sent
  BY <1>1 DEF EventsGrow, TypeInv, TypeOK
<1>2. ASSUME NEW s \in Session, NEW a, Emit(s, <<a>>) PROVE EventsGrow
  <2>1. <<a>> \in Seq({a})
    OBVIOUS
  <2>2. QED
    BY <1>2, <2>1, EmitGrows DEF TypeInv
<1>3. ASSUME NEW s \in Session, NEW a, NEW b, Emit(s, <<a, b>>) PROVE EventsGrow
  <2>1. <<a, b>> \in Seq({a, b})
    OBVIOUS
  <2>2. QED
    BY <1>3, <2>1, EmitGrows DEF TypeInv
<1>4. ASSUME NEW s \in Session, Emit(s, <<>>) PROVE EventsGrow
  <2>1. <<>> \in Seq({})
    OBVIOUS
  <2>2. QED
    BY <1>4, <2>1, EmitGrows DEF TypeInv
<1>5. ASSUME NEW s \in Session, Step(s) PROVE EventsGrow
  BY <1>2, <1>3, <1>5
     DEF Step, PersistInExisting, PersistInNew, PersistNothing, StartStream, FailTurn,
         FinishStream, SaveReply, SaveFails
<1>6. ASSUME NEW s \in Session, Stream(s) PROVE EventsGrow
  BY <1>2, <1>4, <1>6 DEF Stream, TextChunk, ToolChunk, ToolCalled, ToolResult
<1>7. ASSUME NEW s \in Session, Environment(s) PROVE EventsGrow
  BY <1>1, <1>2, <1>7
     DEF Environment, Connect, Disconnect, EndLoop, Crash, Receive, ReceiveBlank
<1>8. ASSUME NEW c \in Conv, CreateConversation(c) \/ DeleteConversation(c) PROVE EventsGrow
  BY <1>1, <1>8 DEF CreateConversation, DeleteConversation
<1>9. CASE UNCHANGED vars
  BY <1>1, <1>9 DEF vars
<1>10. QED
  BY <1>5, <1>6, <1>7, <1>8, <1>9 DEF Next

\* No step takes an event back or changes one, whatever becomes of its session:
\* what send_event has written to a connection stays written.
THEOREM EventsOnlyGrow == Spec => [][EventsGrow]_vars
<1>1. TypeInv /\ [Next]_vars => TypeInv'
  BY TypeNext
<1>2. TypeInv /\ [Next]_vars => [EventsGrow]_vars
  BY EventsStay
<1>3. QED
  BY TypeInit, <1>1, <1>2, PTL DEF Spec

-----------------------------------------------------------------------------
(* A turn is told of on one connection: no two of them were ever sent        *)
(* events of the same turn.                                                  *)

EventsApart ==
  \A s, z \in Session : s # z =>
    \A i \in 1 .. Len(sent[s]), j \in 1 .. Len(sent[z]) : sent[s][i].turn # sent[z][j].turn

\* Events of a turn that no other connection was told of.
LEMMA EmitApart ==
  ASSUME TypeOK, EventsApart, NEW s \in Session, NEW T, NEW events \in Seq(T), NEW n,
         \A i \in 1 .. Len(events) : events[i].turn = n, Emit(s, events),
         \A z \in Session : z # s => Lacks(sent[z], n)
  PROVE  EventsApart'
<1>1. sent[s] \in Seq(Event) /\ Len(sent[s]) \in Nat /\ Len(events) \in Nat
  BY DEF TypeOK
<1>2. \/ sent'[s] = sent[s]
      \/ sent'[s] = sent[s] \o events
  BY DEF Emit, TypeOK
<1>3. \A z \in Session : z # s => sent'[z] = sent[z]
  BY DEF Emit, TypeOK
<1>4. ASSUME NEW i \in 1 .. Len(sent'[s])
      PROVE  sent'[s][i].turn = n \/ \E k \in 1 .. Len(sent[s]) : sent'[s][i] = sent[s][k]
  <2>1. CASE sent'[s] = sent[s]
    BY <1>4, <2>1
  <2>2. CASE sent'[s] = sent[s] \o events
    <3>1. /\ Len(sent[s] \o events) = Len(sent[s]) + Len(events)
          /\ \A k \in 1 .. Len(sent[s]) + Len(events) :
               (sent[s] \o events)[k]
                 = IF k <= Len(sent[s]) THEN sent[s][k] ELSE events[k - Len(sent[s])]
      BY <1>1
    <3>2. CASE i <= Len(sent[s])
      BY <1>1, <1>4, <2>2, <3>1, <3>2
    <3>3. CASE ~(i <= Len(sent[s]))
      <4>1. i - Len(sent[s]) \in 1 .. Len(events) /\ i \in 1 .. Len(sent[s]) + Len(events)
        BY <1>1, <1>4, <2>2, <3>1, <3>3
      <4>2. QED
        BY <2>2, <3>1, <3>3, <4>1
    <3>4. QED
      BY <3>2, <3>3
  <2>3. QED
    BY <1>2, <2>1, <2>2
<1>5. ASSUME NEW z \in Session, z # s, NEW i \in 1 .. Len(sent'[s]), NEW j \in 1 .. Len(sent'[z])
      PROVE  sent'[s][i].turn # sent'[z][j].turn
  <2>1. sent'[z] = sent[z] /\ sent[z][j].turn # n
    BY <1>3, <1>5 DEF Lacks
  <2>2. \A k \in 1 .. Len(sent[s]) : sent[s][k].turn # sent[z][j].turn
    BY <1>5, <2>1 DEF EventsApart
  <2>3. QED
    BY <1>4, <1>5, <2>1, <2>2
<1>6. ASSUME NEW y \in Session, NEW z \in Session, y # z, y # s, z # s,
             NEW i \in 1 .. Len(sent'[y]), NEW j \in 1 .. Len(sent'[z])
      PROVE  sent'[y][i].turn # sent'[z][j].turn
  BY <1>3, <1>6 DEF EventsApart
<1>7. QED
  BY <1>5, <1>6 DEF EventsApart

LEMMA ApartNext == EInv /\ EventsApart /\ [Next]_vars => EventsApart'
<1> SUFFICES ASSUME EInv, EventsApart, [Next]_vars PROVE EventsApart'
  OBVIOUS
<1> USE SessionAssumption
<1>t. TypeOK
  BY DEF EInv, IInv, TypeInv
<1>1. CASE UNCHANGED sent
  BY <1>1 DEF EventsApart
<1>2. ASSUME NEW s \in Session, NEW n, NEW a, a.turn = n, Emit(s, <<a>>),
             \A z \in Session : z # s => Lacks(sent[z], n)
      PROVE  EventsApart'
  <2>1. <<a>> \in Seq({a}) /\ \A i \in 1 .. Len(<<a>>) : <<a>>[i].turn = n
    BY <1>2
  <2>2. QED
    BY <1>2, <1>t, <2>1, EmitApart
<1>3. ASSUME NEW s \in Session, NEW n, NEW a, NEW b, a.turn = n, b.turn = n, Emit(s, <<a, b>>),
             \A z \in Session : z # s => Lacks(sent[z], n)
      PROVE  EventsApart'
  <2>1. <<a, b>> \in Seq({a, b}) /\ \A i \in 1 .. Len(<<a, b>>) : <<a, b>>[i].turn = n
    BY <1>3
  <2>2. QED
    BY <1>3, <1>t, <2>1, EmitApart
<1>4. ASSUME NEW s \in Session, Emit(s, <<>>) PROVE EventsApart'
  <2>1. UNCHANGED sent
    BY <1>4, <1>t DEF Emit, TypeOK
  <2>2. QED
    BY <1>1, <2>1
<1>5. ASSUME NEW s \in Session, Busy(s)
      PROVE  \A z \in Session : z # s => Lacks(sent[z], turn[s])
  BY <1>5 DEF EInv, OwnEvents
<1>6. ASSUME NEW s \in Session, Step(s) PROVE EventsApart'
  <2>1. Busy(s) /\ turn'[s] = turn[s]
    BY <1>6 DEF Step, PersistInExisting, PersistInNew, PersistNothing, StartStream, FailTurn,
                FinishStream, SaveReply, SaveFails, Busy
  <2>2. \A z \in Session : z # s => Lacks(sent[z], turn[s])
    BY <1>5, <2>1
  <2>3. \A k : Ev(s, k).turn = turn[s]
    BY <2>1 DEF Ev
  <2>4. \/ \E k : Emit(s, <<Ev(s, k)>>)
        \/ \E k, l : Emit(s, <<Ev(s, k), Ev(s, l)>>)
    BY <1>6 DEF Step, PersistInExisting, PersistInNew, PersistNothing, StartStream, FailTurn,
                FinishStream, SaveReply, SaveFails
  <2>5. QED
    BY <1>2, <1>3, <2>2, <2>3, <2>4
<1>7. ASSUME NEW s \in Session, Stream(s) PROVE EventsApart'
  <2>1. Busy(s) /\ turn'[s] = turn[s]
    BY <1>7 DEF Stream, TextChunk, ToolChunk, ToolCalled, ToolResult, Busy
  <2>2. \A z \in Session : z # s => Lacks(sent[z], turn[s])
    BY <1>5, <2>1
  <2>3. /\ \A k : Ev(s, k).turn = turn[s]
        /\ \A k, t : ToolEv(s, k, t).turn = turn[s]
    BY <2>1 DEF Ev, ToolEv
  <2>4. \/ \E k : Emit(s, <<Ev(s, k)>>)
        \/ \E k, t : Emit(s, <<ToolEv(s, k, t)>>)
        \/ Emit(s, <<>>)
    BY <1>7 DEF Stream, TextChunk, ToolChunk, ToolCalled, ToolResult
  <2>5. QED
    BY <1>2, <1>4, <2>2, <2>3, <2>4
<1>8. ASSUME NEW s \in Session, Environment(s) PROVE EventsApart'
  <2>1. CASE ReceiveBlank(s)
    <3>1. turn'[s] = turns + 1 /\ Ev(s, "error").turn = turns + 1 /\ Emit(s, <<Ev(s, "error")>>)
      BY <2>1, <1>t DEF ReceiveBlank, Ev, TypeOK
    <3>2. ASSUME NEW z \in Session PROVE Lacks(sent[z], turns + 1)
      <4>1. /\ UpTo(sent[z], turn[z]) /\ turn[z] <= turns /\ turn[z] \in Nat /\ turns \in Nat
            /\ sent[z] \in Seq(Event)
        BY <1>t DEF EInv, IInv, Place, Lines, TurnsOwned, TypeOK
      <4>2. \A i \in 1 .. Len(sent[z]) : sent[z][i].turn \in Nat
        BY <4>1, EventTurn
      <4>3. QED
        BY <4>1, <4>2 DEF UpTo, Lacks
    <3>3. QED
      BY <1>2, <3>1, <3>2
  <2>2. CASE ~ReceiveBlank(s)
    BY <1>1, <1>8, <2>2 DEF Environment, Connect, Disconnect, EndLoop, Crash, Receive
  <2>3. QED
    BY <2>1, <2>2
<1>9. ASSUME NEW c \in Conv, CreateConversation(c) \/ DeleteConversation(c) PROVE EventsApart'
  BY <1>1, <1>9 DEF CreateConversation, DeleteConversation
<1>10. CASE UNCHANGED vars
  BY <1>1, <1>10 DEF vars
<1>11. QED
  BY <1>6, <1>7, <1>8, <1>9, <1>10 DEF Next

\* No two connections are ever told of one turn, whatever prompts their clients
\* send at the same time (agent_session.py keeps a session for each).
THEOREM TurnsStayApart == Spec => []EventsApart
<1>1. Init => EventsApart
  BY DEF Init, EventsApart
<1>2. QED
  BY <1>1, EInvInit, EInvNext, ApartNext, PTL DEF Spec
=============================================================================
