----------------------- MODULE ChannelRouterProofs -----------------------
(***************************************************************************)
(* Proofs about ChannelRouter, for every number of messages, chats and     *)
(* users and every rate limit.                                             *)
(***************************************************************************)
EXTENDS ChannelRouter, FiniteSetTheorems, TLAPS

Label == {"new", "waiting"} \cup Undone \cup Ended

-----------------------------------------------------------------------------
(* Types and the chat locks.  The task at the head of a chat's queue is the *)
(* only one inside the lock.                                                *)

Locks ==
  \A m \in Msg : pc[m] \in Open =>
    queue[ChatOf[m]] # <<>> /\ Head(queue[ChatOf[m]]) = m

TypeInv == TypeOK /\ Locks

\* What every step inside the lock that stays inside it does to the lock.
LEMMA StayInside ==
  ASSUME TypeInv, NEW m \in Msg, pc[m] \in Open, NEW l \in Open, Goto(m, l), UNCHANGED queue
  PROVE  pc' \in [Msg -> Label] /\ Locks' /\ queue' \in [Chat -> Seq(Msg)]
<1>1. pc' = [pc EXCEPT ![m] = l] /\ pc \in [Msg -> Label] /\ l \in Label
  BY DEF Goto, TypeInv, TypeOK, Label, Undone
<1>2. ASSUME NEW z \in Msg, pc'[z] \in Open
      PROVE  pc[z] \in Open
  BY <1>1, <1>2
<1>3. QED
  BY <1>1, <1>2 DEF TypeInv, TypeOK, Locks

\* Whoever leaves the lock was alone inside it.
LEMMA LeaveLock ==
  ASSUME TypeInv, NEW m \in Msg, pc[m] \in Open, NEW l \in {"commit", "rollback"}, Leave(m, l)
  PROVE  pc' \in [Msg -> Label] /\ Locks' /\ queue' \in [Chat -> Seq(Msg)]
<1> USE RouterAssumption
<1>1. /\ pc' = [pc EXCEPT ![m] = l] /\ pc \in [Msg -> Label] /\ l \in Label
      /\ l \notin Open
  BY DEF Leave, Goto, TypeInv, TypeOK, Label, Undone, Open
<1>2. /\ queue' = [queue EXCEPT ![ChatOf[m]] = Tail(@)]
      /\ queue \in [Chat -> Seq(Msg)]
  BY DEF Leave, LockOf, TypeInv, TypeOK
<1>3. queue[ChatOf[m]] # <<>> /\ Head(queue[ChatOf[m]]) = m
  BY DEF TypeInv, Locks
<1>4. queue' \in [Chat -> Seq(Msg)]
  <2>1. Tail(queue[ChatOf[m]]) \in Seq(Msg)
    BY <1>2, <1>3
  <2>2. QED
    BY <2>1, <1>2
<1>5. ASSUME NEW z \in Msg, pc'[z] \in Open
      PROVE  queue'[ChatOf[z]] # <<>> /\ Head(queue'[ChatOf[z]]) = z
  <2>1. z # m /\ pc[z] \in Open
    BY <1>1, <1>5
  <2>2. ChatOf[z] # ChatOf[m]
    BY <2>1, <1>3 DEF TypeInv, Locks
  <2>3. QED
    BY <2>1, <2>2, <1>2 DEF TypeInv, Locks
<1>6. QED
  BY <1>1, <1>4, <1>5 DEF Locks

\* Steps outside the lock.
LEMMA StayOutside ==
  ASSUME TypeInv, NEW m \in Msg, NEW l \in Label \ Open, Goto(m, l), UNCHANGED queue
  PROVE  pc' \in [Msg -> Label] /\ Locks' /\ queue' \in [Chat -> Seq(Msg)]
<1>1. pc' = [pc EXCEPT ![m] = l] /\ pc \in [Msg -> Label]
  BY DEF Goto, TypeInv, TypeOK, Label
<1>2. ASSUME NEW z \in Msg, pc'[z] \in Open
      PROVE  pc[z] \in Open
  BY <1>1, <1>2
<1>3. QED
  BY <1>1, <1>2 DEF TypeInv, TypeOK, Locks

LockType == pc' \in [Msg -> Label] /\ Locks' /\ queue' \in [Chat -> Seq(Msg)]

\* The lock and the program counters through every step of a task.
LEMMA LockStep ==
  ASSUME TypeInv, NEW m \in Msg, Arrive(m) \/ Step(m)
  PROVE  LockType
<1> USE DEF LockType, Open
<1>1. CASE Arrive(m)
  <2>1. queue' = [queue EXCEPT ![ChatOf[m]] = Append(@, m)] /\ queue \in [Chat -> Seq(Msg)]
    BY <1>1 DEF Arrive, LockOf, TypeInv, TypeOK
  <2>2. pc' = [pc EXCEPT ![m] = "waiting"] /\ pc \in [Msg -> Label]
    BY <1>1 DEF Arrive, Goto, TypeInv, TypeOK, Label
  <2>3. queue' \in [Chat -> Seq(Msg)]
    <3>1. ASSUME NEW q \in Seq(Msg)
          PROVE  Append(q, m) \in Seq(Msg)
      OBVIOUS
    <3>2. QED
      BY <2>1, <3>1
  <2>4. ASSUME NEW z \in Msg, pc'[z] \in Open
        PROVE  queue'[ChatOf[z]] # <<>> /\ Head(queue'[ChatOf[z]]) = z
    <3>1. pc[z] \in Open
      BY <2>2, <2>4
    <3>2. queue[ChatOf[z]] # <<>> /\ Head(queue[ChatOf[z]]) = z
      BY <3>1 DEF TypeInv, Locks
    <3>3. ChatOf[z] \in Chat /\ queue[ChatOf[z]] \in Seq(Msg)
      BY <2>1, RouterAssumption
    <3>4. CASE ChatOf[z] = ChatOf[m]
      <4>1. queue'[ChatOf[z]] = Append(queue[ChatOf[z]], m)
        BY <2>1, <3>3, <3>4
      <4>2. QED
        BY <4>1, <3>2, <3>3
    <3>5. CASE ChatOf[z] # ChatOf[m]
      <4>1. queue'[ChatOf[z]] = queue[ChatOf[z]]
        BY <2>1, <3>3, <3>5
      <4>2. QED
        BY <4>1, <3>2
    <3>6. QED
      BY <3>4, <3>5
  <2>5. QED
    BY <2>2, <2>3, <2>4 DEF Locks, Label
<1>2. CASE Acquire(m)
  <2>1. /\ queue[ChatOf[m]] # <<>> /\ Head(queue[ChatOf[m]]) = m
        /\ UNCHANGED queue /\ pc' = [pc EXCEPT ![m] = "bot"]
        /\ pc \in [Msg -> Label] /\ queue \in [Chat -> Seq(Msg)]
    BY <1>2 DEF Acquire, LockOf, Goto, TypeInv, TypeOK, Label
  <2>2. QED
    BY <2>1 DEF TypeInv, Locks, Label, Undone
<1>3. CASE Admit(m)
  BY <1>3, StayInside DEF Admit
<1>4. CASE FindIdentity(m)
  BY <1>4, StayInside DEF FindIdentity
<1>5. CASE FindSession(m)
  BY <1>5, StayInside DEF FindSession
<1>6. CASE PersistPrompt(m)
  BY <1>6, StayInside DEF PersistPrompt
<1>7. CASE LoadHistory(m)
  BY <1>7, StayInside DEF LoadHistory
<1>8. CASE PersistReply(m)
  BY <1>8, StayInside DEF PersistReply
<1>9. CASE Refuse(m)
  BY <1>9, LeaveLock DEF Refuse
<1>10. CASE Renew(m)
  BY <1>10, LeaveLock DEF Renew
<1>11. CASE RequireLink(m)
  BY <1>11, LeaveLock DEF RequireLink
<1>12. CASE SendReply(m)
  BY <1>12, LeaveLock DEF SendReply
<1>13. CASE Break(m)
  BY <1>13, LeaveLock DEF Break
<1>14. CASE FindToRenew(m)
  BY <1>14, LeaveLock, StayInside DEF FindToRenew
<1>15. CASE AddIdentity(m)
  BY <1>15, LeaveLock, StayInside DEF AddIdentity
<1>16. CASE AddSession(m)
  BY <1>16, LeaveLock, StayInside DEF AddSession
<1>17. CASE CheckRate(m)
  BY <1>17, LeaveLock, StayInside DEF CheckRate
<1>18. CASE Commit(m)
  BY <1>18, StayOutside DEF Commit, Label, Ended, Undone
<1>19. CASE RollBack(m)
  BY <1>19, StayOutside DEF RollBack, Label, Ended, Undone
<1>20. QED
  BY <1>1, <1>2, <1>3, <1>4, <1>5, <1>6, <1>7, <1>8, <1>9, <1>10, <1>11, <1>12, <1>13, <1>14, <1>15, <1>16, <1>17, <1>18, <1>19 DEF Step, Runs

LEMMA CountedType ==
  ASSUME NEW b \in [count : Nat, start : 0 .. MaxTime]
  PROVE  Counted(b) \in [count : Nat, start : 0 .. MaxTime]
<1>1. b.count + 1 \in Nat
  OBVIOUS
<1>2. QED
  BY <1>1 DEF Counted

\* What a transaction has written of its own exchange.
LEMMA OwnType ==
  ASSUME TypeOK, NEW m \in Msg
  PROVE  Own(m) \subseteq Row
BY DEF Own, Row

\* Committed and pending data, and the resolved identity and conversation.
LEMMA DataStep ==
  ASSUME TypeInv, NEW m \in Msg, Arrive(m) \/ Step(m), LockType
  PROVE  TypeOK'
<1> USE RouterAssumption DEF TypeInv, TypeOK, LockType, Label, Goto, Inside, vars, dbVars, taskVars
<1>1. CASE Arrive(m)
  BY <1>1 DEF Arrive
<1>2. CASE Acquire(m)
  BY <1>2 DEF Acquire
<1>3. CASE Refuse(m)
  BY <1>3 DEF Refuse, Leave
<1>4. CASE Admit(m)
  BY <1>4 DEF Admit
<1>5. CASE FindToRenew(m)
  <2>1. /\ pc' = [pc EXCEPT ![m] = "commit"] \/ pc' = [pc EXCEPT ![m] = "renew"]
        /\ pc' \in [Msg -> Label] /\ queue' \in [Chat -> Seq(Msg)]
        /\ UNCHANGED <<dbVars, bucket, clock, who, conv, writes, seen, admitted>>
    BY <1>5 DEF FindToRenew, Leave, Locks
  <2>2. \A z \in Msg : pc'[z] = pc[z] \/ pc'[z] \in {"commit", "renew"}
    BY <2>1
  <2>3. QED
    BY <2>1, <2>2
<1>6. CASE Renew(m)
  BY <1>6 DEF Renew, Leave, Write
<1>7. CASE FindIdentity(m)
  BY <1>7 DEF FindIdentity
<1>8. CASE AddIdentity(m)
  <2>1. CASE identity[UserOf[m]] # None
    <3>1. /\ pc[m] = "addIdentity" /\ pc' = [pc EXCEPT ![m] = "rollback"]
          /\ UNCHANGED <<dbVars, bucket, clock, who, conv, writes, seen, admitted>>
      BY <1>8, <2>1 DEF AddIdentity, Leave
    <3>2. QED
      BY <3>1
  <2>2. CASE ~(identity[UserOf[m]] # None)
    <3>1. /\ who' = [who EXCEPT ![m] = m]
          /\ writes' = [writes EXCEPT ![m] = @ \cup {"identity"}]
          /\ pc' = [pc EXCEPT ![m] = "session"]
          /\ UNCHANGED <<dbVars, bucket, clock, conv, seen, admitted>>
      BY <1>8, <2>2 DEF AddIdentity
    <3>2. writes' \in [Msg -> SUBSET Write] /\ who' \in [Msg -> Msg \cup {None}]
      BY <3>1 DEF Write
    <3>3. \A z \in Msg :
            /\ pc'[z] \in {"session", "addSession"} \cup Inside => who'[z] # None
            /\ pc'[z] \in Inside => conv'[z] # None
      BY <3>1
    <3>4. QED
      BY <3>1, <3>2, <3>3
  <2>3. QED
    BY <2>1, <2>2
<1>9. CASE RequireLink(m)
  BY <1>9 DEF RequireLink, Leave
<1>10. CASE FindSession(m)
  BY <1>10 DEF FindSession
<1>11. CASE AddSession(m)
  <2>1. CASE session[ChatOf[m]] # None
    <3>1. /\ pc[m] = "addSession" /\ pc' = [pc EXCEPT ![m] = "rollback"]
          /\ UNCHANGED <<dbVars, bucket, clock, who, conv, writes, seen, admitted>>
      BY <1>11, <2>1 DEF AddSession, Leave
    <3>2. QED
      BY <3>1
  <2>2. CASE ~(session[ChatOf[m]] # None)
    <3>1. /\ conv' = [conv EXCEPT ![m] = m]
          /\ writes' = [writes EXCEPT ![m] = @ \cup {"session"}]
          /\ pc' = [pc EXCEPT ![m] = "rate"]
          /\ pc[m] = "addSession"
          /\ UNCHANGED <<dbVars, bucket, clock, who, seen, admitted>>
      BY <1>11, <2>2 DEF AddSession
    <3>2. writes' \in [Msg -> SUBSET Write] /\ conv' \in [Msg -> Msg \cup {None}]
      BY <3>1 DEF Write
    <3>3. QED
      BY <3>1, <3>2, ZenonT(40)
  <2>3. QED
    BY <2>1, <2>2
<1>12. CASE CheckRate(m)
  <2>1. CASE Running(bucket[who[m]]) /\ OverLimit(bucket[who[m]])
    BY <1>12, <2>1 DEF CheckRate, Leave, Counted
  <2>2. CASE ~(Running(bucket[who[m]]) /\ OverLimit(bucket[who[m]]))
    <3>1. who[m] \in Msg /\ bucket[who[m]] \in [count : Nat, start : 0 .. MaxTime]
      BY <1>12 DEF CheckRate
    <3>2. /\ bucket' = [bucket EXCEPT ![who[m]] =
                          IF Running(bucket[who[m]]) THEN Counted(bucket[who[m]])
                          ELSE [count |-> 1, start |-> clock]]
          /\ admitted' = [admitted EXCEPT ![m] = clock]
          /\ pc[m] = "rate" /\ pc' = [pc EXCEPT ![m] = "prompt"]
          /\ UNCHANGED <<dbVars, clock, who, conv, writes, seen>>
      BY <1>12, <2>2 DEF CheckRate
    <3>3. Counted(bucket[who[m]]) \in [count : Nat, start : 0 .. MaxTime]
      BY <3>1, CountedType
    <3>4. [count |-> 1, start |-> clock] \in [count : Nat, start : 0 .. MaxTime]
      OBVIOUS
    <3>5. bucket' \in [Msg -> [count : Nat, start : 0 .. MaxTime]]
      BY <3>1, <3>2, <3>3, <3>4
    <3>6. admitted' \in [Msg -> (0 .. MaxTime) \cup {None}]
      BY <3>2
    <3>7. QED
      BY <3>2, <3>5, <3>6
  <2>3. QED
    BY <2>1, <2>2
<1>13. CASE PersistPrompt(m)
  BY <1>13 DEF PersistPrompt, Write
<1>14. CASE LoadHistory(m)
  <2>1. Own(m) \subseteq Row /\ rows[conv[m]] \subseteq Row
    BY <1>14, OwnType DEF LoadHistory
  <2>2. QED
    BY <1>14, <2>1 DEF LoadHistory
<1>15. CASE PersistReply(m)
  BY <1>15 DEF PersistReply, Write
<1>16. CASE SendReply(m)
  BY <1>16 DEF SendReply, Leave
<1>17. CASE Break(m)
  BY <1>17 DEF Break, Leave
<1>18. CASE Commit(m)
  BY <1>18 DEF Commit, Own, Row
<1>19. CASE RollBack(m)
  BY <1>19 DEF RollBack
<1>20. QED
  BY <1>1, <1>2, <1>3, <1>4, <1>5, <1>6, <1>7, <1>8, <1>9, <1>10, <1>11, <1>12, <1>13, <1>14, <1>15, <1>16, <1>17, <1>18, <1>19 DEF Step, Runs

LEMMA TypeStep == TypeInv /\ [Next]_vars => TypeInv'
<1> SUFFICES ASSUME TypeInv, [Next]_vars PROVE TypeInv'
  OBVIOUS
<1>1. ASSUME NEW m \in Msg, Arrive(m) \/ Step(m)
      PROVE  TypeInv'
  BY <1>1, LockStep, DataStep DEF LockType, TypeInv
<1>2. CASE Deactivate
  BY <1>2 DEF Deactivate, TypeInv, TypeOK, Locks, taskVars
<1>3. CASE Tick
  BY <1>3, RouterAssumption DEF Tick, TypeInv, TypeOK, Locks, taskVars, dbVars
<1>4. CASE UNCHANGED vars
  BY <1>4 DEF vars, TypeInv, TypeOK, Locks, taskVars, dbVars
<1>5. QED
  BY <1>1, <1>2, <1>3, <1>4 DEF Next

LEMMA TypeInit == Init => TypeInv
BY RouterAssumption DEF Init, TypeInv, TypeOK, Locks, Open, Undone, Ended, Inside

LEMMA Typed == Spec => []TypeInv
BY TypeInit, TypeStep, PTL DEF Spec

\* The tables, the locks and the tasks keep their types, and no task goes on
\* without its identity and its session (_route_inner).
THEOREM TypeCorrect == Spec => []TypeOK
<1>1. TypeInv => TypeOK
  BY DEF TypeInv
<1>2. QED
  BY <1>1, Typed, PTL

\* However many messages of a chat arrive together, they are inside the lock
\* one at a time (route, _get_chat_lock).
THEOREM CallsSerial == Spec => []AgentCallsSerial
<1>1. TypeInv => AgentCallsSerial
  BY DEF TypeInv, Locks, AgentCallsSerial
<1>2. QED
  BY <1>1, Typed, PTL

-----------------------------------------------------------------------------
(* Exchanges.  What a transaction has written follows from where its task   *)
(* is: only between the prompt and the reply is an exchange half written,   *)
(* and from there a task rolls back or goes on.                             *)

Before == {"new", "waiting", "bot", "command", "renew", "identity", "addIdentity",
           "session", "addSession", "rate", "prompt"}

Written ==
  \A m \in Msg :
    /\ pc[m] \in Before => {"user", "assistant"} \cap writes[m] = {}
    /\ pc[m] \in {"history", "agent"} => "user" \in writes[m] /\ "assistant" \notin writes[m]
    /\ pc[m] = "reply" => {"user", "assistant"} \subseteq writes[m]
    /\ pc[m] \in {"commit", "done"} => ("user" \in writes[m] <=> "assistant" \in writes[m])
    /\ pc[m] = "failed" => writes[m] = {}

ExchangeInv == TypeInv /\ Written /\ ExchangesAreWhole

LEMMA WrittenStep ==
  ASSUME TypeInv, Written, [Next]_vars
  PROVE  Written'
<1> USE DEF TypeInv, TypeOK, Written, Before, Goto, Leave, vars, dbVars, taskVars
<1>1. ASSUME NEW m \in Msg, Arrive(m)
      PROVE  Written'
  BY <1>1 DEF Arrive
<1>2. ASSUME NEW m \in Msg, Acquire(m)
      PROVE  Written'
  BY <1>2 DEF Acquire
<1>3. ASSUME NEW m \in Msg, Refuse(m)
      PROVE  Written'
  BY <1>3 DEF Refuse
<1>4. ASSUME NEW m \in Msg, Admit(m)
      PROVE  Written'
  BY <1>4 DEF Admit
<1>5. ASSUME NEW m \in Msg, FindToRenew(m)
      PROVE  Written'
  BY <1>5 DEF FindToRenew
<1>6. ASSUME NEW m \in Msg, Renew(m)
      PROVE  Written'
  BY <1>6 DEF Renew
<1>7. ASSUME NEW m \in Msg, FindIdentity(m)
      PROVE  Written'
  BY <1>7 DEF FindIdentity
<1>8. ASSUME NEW m \in Msg, AddIdentity(m)
      PROVE  Written'
  <2>1. CASE pc' = [pc EXCEPT ![m] = "rollback"] /\ UNCHANGED writes
    BY <2>1
  <2>2. CASE /\ pc[m] = "addIdentity" /\ pc' = [pc EXCEPT ![m] = "session"]
             /\ writes' = [writes EXCEPT ![m] = @ \cup {"identity"}]
    BY <2>2
  <2>3. QED
    BY <1>8, <2>1, <2>2 DEF AddIdentity
<1>9. ASSUME NEW m \in Msg, RequireLink(m)
      PROVE  Written'
  BY <1>9 DEF RequireLink
<1>10. ASSUME NEW m \in Msg, FindSession(m)
      PROVE  Written'
  BY <1>10 DEF FindSession
<1>11. ASSUME NEW m \in Msg, AddSession(m)
      PROVE  Written'
  <2>1. CASE pc' = [pc EXCEPT ![m] = "rollback"] /\ UNCHANGED writes
    BY <2>1
  <2>2. CASE /\ pc[m] = "addSession" /\ pc' = [pc EXCEPT ![m] = "rate"]
             /\ writes' = [writes EXCEPT ![m] = @ \cup {"session"}]
    BY <2>2
  <2>3. QED
    BY <1>11, <2>1, <2>2 DEF AddSession
<1>12. ASSUME NEW m \in Msg, CheckRate(m)
      PROVE  Written'
  <2>1. CASE /\ pc[m] = "rate" /\ pc' = [pc EXCEPT ![m] = "commit"]
             /\ UNCHANGED <<conv, writes>>
    BY <2>1
  <2>2. CASE /\ pc[m] = "rate" /\ pc' = [pc EXCEPT ![m] = "prompt"]
             /\ UNCHANGED <<conv, writes>>
    BY <2>2
  <2>3. QED
    BY <1>12, <2>1, <2>2 DEF CheckRate
<1>13. ASSUME NEW m \in Msg, PersistPrompt(m)
      PROVE  Written'
  BY <1>13 DEF PersistPrompt
<1>14. ASSUME NEW m \in Msg, LoadHistory(m)
      PROVE  Written'
  BY <1>14 DEF LoadHistory
<1>15. ASSUME NEW m \in Msg, PersistReply(m)
      PROVE  Written'
  BY <1>15 DEF PersistReply
<1>16. ASSUME NEW m \in Msg, SendReply(m)
      PROVE  Written'
  BY <1>16 DEF SendReply
<1>17. ASSUME NEW m \in Msg, Break(m)
      PROVE  Written'
  BY <1>17 DEF Break, Open
<1>18. ASSUME NEW m \in Msg, Commit(m)
      PROVE  Written'
  BY <1>18 DEF Commit
<1>19. ASSUME NEW m \in Msg, RollBack(m)
      PROVE  Written'
  BY <1>19 DEF RollBack
<1>20. CASE Deactivate
  BY <1>20 DEF Deactivate
<1>21. CASE Tick
  BY <1>21 DEF Tick
<1>22. CASE UNCHANGED vars
  BY <1>22
<1>23. QED
  BY <1>1, <1>2, <1>3, <1>4, <1>5, <1>6, <1>7, <1>8, <1>9, <1>10, <1>11, <1>12, <1>13, <1>14, <1>15, <1>16, <1>17, <1>18, <1>19, <1>20, <1>21, <1>22 DEF Next, Step, Runs

\* The rows a transaction has written are those of its own message.
LEMMA OwnRows ==
  ASSUME NEW m \in Msg, NEW z \in Msg, NEW r \in {"user", "assistant"}
  PROVE  [role |-> r, msg |-> z] \in Own(m) <=> (z = m /\ r \in writes[m])
BY DEF Own

\* The tables change only when a transaction commits.
LEMMA OnlyCommitsStore ==
  ASSUME [Next]_vars, ~ \E m \in Msg : Commit(m)
  PROVE  UNCHANGED <<session, rows>>
BY DEF Next, Step, Runs, Arrive, Acquire, Refuse, Admit, FindToRenew, Renew, FindIdentity,
       AddIdentity, RequireLink, FindSession, AddSession, CheckRate, PersistPrompt,
       LoadHistory, PersistReply, SendReply, Break, RollBack, Deactivate, Tick, vars, dbVars

LEMMA ExchangeStep == ExchangeInv /\ [Next]_vars => ExchangeInv'
<1> SUFFICES ASSUME ExchangeInv, [Next]_vars PROVE ExchangeInv'
  OBVIOUS
<1>1. TypeInv' /\ Written'
  BY TypeStep, WrittenStep DEF ExchangeInv
<1>2. ASSUME NEW m \in Msg, Commit(m)
      PROVE  ExchangesAreWhole'
  <2> SUFFICES ASSUME NEW c \in Msg, NEW z \in Msg
               PROVE  [role |-> "user", msg |-> z] \in rows'[c]
                        <=> [role |-> "assistant", msg |-> z] \in rows'[c]
    BY DEF ExchangesAreWhole
  <2>1. rows'[c] = IF c = conv[m] THEN rows[c] \cup Own(m) ELSE rows[c]
    BY <1>2 DEF Commit
  <2>2. "user" \in writes[m] <=> "assistant" \in writes[m]
    BY <1>2 DEF Commit, ExchangeInv, Written
  <2>3. [role |-> "user", msg |-> z] \in rows[c] <=> [role |-> "assistant", msg |-> z] \in rows[c]
    BY DEF ExchangeInv, ExchangesAreWhole
  <2>4. [role |-> "user", msg |-> z] \in Own(m) <=> [role |-> "assistant", msg |-> z] \in Own(m)
    BY <2>2, OwnRows
  <2>5. QED
    BY <2>1, <2>3, <2>4
<1>3. CASE ~ \E m \in Msg : Commit(m)
  <2>1. rows' = rows
    BY <1>3, OnlyCommitsStore
  <2>2. ExchangesAreWhole
    BY DEF ExchangeInv
  <2>3. QED
    BY <1>1, <2>1, <2>2 DEF ExchangeInv, ExchangesAreWhole
<1>4. QED
  BY <1>1, <1>2, <1>3 DEF ExchangeInv

\* A prompt is never stored without its answer, nor an answer without its
\* prompt, whatever fails and however tasks interleave (get_db_context).
THEOREM WholeExchanges == Spec => []ExchangesAreWhole
<1>1. Init => ExchangeInv
  BY TypeInit DEF ExchangeInv, Written, ExchangesAreWhole, Init, Before
<1>2. ExchangeInv => ExchangesAreWhole
  BY DEF ExchangeInv
<1>3. QED
  BY <1>1, <1>2, ExchangeStep, PTL DEF Spec

-----------------------------------------------------------------------------
(* Histories.  The lock is left before the commit, so the next task of the  *)
(* chat may be at its own prompt while the last exchange is not stored yet. *)
(* It waits there for the row of the conversation: of the open transactions *)
(* one at most has written to a conversation.                               *)

Writers ==
  \A m, z \in Msg :
    /\ pc[m] \in Undone /\ pc[z] \in Undone
    /\ "user" \in writes[m] /\ "user" \in writes[z] /\ conv[m] = conv[z]
    => m = z

Stored == \A m \in Msg : pc[m] = "done" /\ conv[m] # None => Own(m) \subseteq rows[conv[m]]

HistoryInv == ExchangeInv /\ Writers /\ Stored /\ HistoryIsComplete

LEMMA WritersStep ==
  ASSUME TypeInv, Written, Writers, [Next]_vars
  PROVE  Writers'
<1> USE DEF TypeInv, TypeOK, Written, Before, Writers, Undone, Open, Goto, Leave, vars, dbVars, taskVars
<1>1. ASSUME NEW m \in Msg, Arrive(m)
      PROVE  Writers'
  BY <1>1 DEF Arrive
<1>2. ASSUME NEW m \in Msg, Acquire(m)
      PROVE  Writers'
  BY <1>2 DEF Acquire
<1>3. ASSUME NEW m \in Msg, Refuse(m)
      PROVE  Writers'
  BY <1>3 DEF Refuse
<1>4. ASSUME NEW m \in Msg, Admit(m)
      PROVE  Writers'
  BY <1>4 DEF Admit
<1>5. ASSUME NEW m \in Msg, FindToRenew(m)
      PROVE  Writers'
  BY <1>5, ZenonT(40) DEF FindToRenew
<1>6. ASSUME NEW m \in Msg, Renew(m)
      PROVE  Writers'
  BY <1>6, SMTT(30) DEF Renew
<1>7. ASSUME NEW m \in Msg, FindIdentity(m)
      PROVE  Writers'
  BY <1>7 DEF FindIdentity
<1>8. ASSUME NEW m \in Msg, AddIdentity(m)
      PROVE  Writers'
  <2>1. CASE /\ pc' = [pc EXCEPT ![m] = "rollback"] /\ UNCHANGED <<writes, conv, rows, session>>
    BY <2>1, <1>8 DEF AddIdentity
  <2>2. CASE /\ pc[m] = "addIdentity" /\ pc' = [pc EXCEPT ![m] = "session"]
             /\ writes' = [writes EXCEPT ![m] = @ \cup {"identity"}] /\ UNCHANGED <<rows, session>> /\ UNCHANGED conv
    BY <2>2, <1>8 DEF Blocked
  <2>3. QED
    BY <1>8, <2>1, <2>2 DEF AddIdentity
<1>9. ASSUME NEW m \in Msg, RequireLink(m)
      PROVE  Writers'
  BY <1>9 DEF RequireLink
<1>10. ASSUME NEW m \in Msg, FindSession(m)
      PROVE  Writers'
  BY <1>10 DEF FindSession
<1>11. ASSUME NEW m \in Msg, AddSession(m)
      PROVE  Writers'
  <2>1. CASE /\ pc' = [pc EXCEPT ![m] = "rollback"] /\ UNCHANGED <<writes, conv, rows, session>>
    BY <2>1, <1>11 DEF AddSession
  <2>2. CASE /\ pc[m] = "addSession" /\ pc' = [pc EXCEPT ![m] = "rate"]
             /\ writes' = [writes EXCEPT ![m] = @ \cup {"session"}] /\ UNCHANGED <<rows, session>> /\ conv' = [conv EXCEPT ![m] = m]
    BY <2>2, <1>11 DEF Blocked
  <2>3. QED
    BY <1>11, <2>1, <2>2 DEF AddSession
<1>12. ASSUME NEW m \in Msg, CheckRate(m)
      PROVE  Writers'
  <2>1. CASE /\ pc[m] = "rate" /\ pc' = [pc EXCEPT ![m] = "commit"]
             /\ UNCHANGED <<conv, writes>>
    BY <2>1
  <2>2. CASE /\ pc[m] = "rate" /\ pc' = [pc EXCEPT ![m] = "prompt"]
             /\ UNCHANGED <<conv, writes>>
    BY <2>2
  <2>3. QED
    BY <1>12, <2>1, <2>2 DEF CheckRate
<1>13. ASSUME NEW m \in Msg, PersistPrompt(m)
      PROVE  Writers'
  <2>1. /\ pc[m] = "prompt" /\ pc' = [pc EXCEPT ![m] = "history"]
        /\ writes' = [writes EXCEPT ![m] = @ \cup {"user"}] /\ UNCHANGED conv
    BY <1>13 DEF PersistPrompt
  <2>2. \A z \in Msg \ {m} :
          ~(pc[z] \in Undone /\ "user" \in writes[z] /\ conv[z] = conv[m])
    BY <1>13 DEF PersistPrompt, Blocked
  <2>3. \A z \in Msg \ {m} : pc'[z] = pc[z] /\ writes'[z] = writes[z] /\ conv'[z] = conv[z]
    BY <2>1
  <2>4. conv'[m] = conv[m]
    BY <2>1
  <2>5. QED
    BY <2>2, <2>3, <2>4
<1>14. ASSUME NEW m \in Msg, LoadHistory(m)
      PROVE  Writers'
  BY <1>14 DEF LoadHistory
<1>15. ASSUME NEW m \in Msg, PersistReply(m)
      PROVE  Writers'
  BY <1>15 DEF PersistReply
<1>16. ASSUME NEW m \in Msg, SendReply(m)
      PROVE  Writers'
  BY <1>16 DEF SendReply
<1>17. ASSUME NEW m \in Msg, Break(m)
      PROVE  Writers'
  BY <1>17, SMTT(30) DEF Break
<1>18. ASSUME NEW m \in Msg, Commit(m)
      PROVE  Writers'
  BY <1>18, SMTT(30) DEF Commit
<1>19. ASSUME NEW m \in Msg, RollBack(m)
      PROVE  Writers'
  BY <1>19, SMTT(30) DEF RollBack
<1>20. CASE Deactivate
  BY <1>20 DEF Deactivate
<1>21. CASE Tick
  BY <1>21 DEF Tick
<1>22. CASE UNCHANGED vars
  BY <1>22
<1>23. QED
  BY <1>1, <1>2, <1>3, <1>4, <1>5, <1>6, <1>7, <1>8, <1>9, <1>10, <1>11, <1>12, <1>13, <1>14, <1>15, <1>16, <1>17, <1>18, <1>19, <1>20, <1>21, <1>22 DEF Next, Step, Runs

\* What a step means for one task: a transaction that ended stays as it is, and
\* tasks come to their end and to the agent in one way only.
LEMMA TaskStep ==
  ASSUME TypeInv, [Next]_vars, NEW z \in Msg
  PROVE  /\ pc[z] = "done" => /\ pc'[z] = "done"
                             /\ writes'[z] = writes[z] /\ conv'[z] = conv[z]
         /\ (pc'[z] = "done" /\ pc[z] # "done") => Commit(z)
         /\ (pc'[z] = "agent" /\ pc[z] # "agent") => LoadHistory(z)
         /\ (pc'[z] = "agent" /\ pc[z] = "agent") =>
              /\ seen'[z] = seen[z] /\ conv'[z] = conv[z]
<1> DEFINE Meaning ==
         /\ pc[z] = "done" => /\ pc'[z] = "done"
                             /\ writes'[z] = writes[z] /\ conv'[z] = conv[z]
         /\ (pc'[z] = "done" /\ pc[z] # "done") => Commit(z)
         /\ (pc'[z] = "agent" /\ pc[z] # "agent") => LoadHistory(z)
         /\ (pc'[z] = "agent" /\ pc[z] = "agent") =>
              /\ seen'[z] = seen[z] /\ conv'[z] = conv[z]
<1> USE DEF TypeInv, TypeOK, Open, Goto, Leave, vars, dbVars, taskVars
<1>1. ASSUME NEW m \in Msg, Arrive(m)
      PROVE  Meaning
  BY <1>1 DEF Arrive
<1>2. ASSUME NEW m \in Msg, Acquire(m)
      PROVE  Meaning
  BY <1>2 DEF Acquire
<1>3. ASSUME NEW m \in Msg, Refuse(m)
      PROVE  Meaning
  BY <1>3 DEF Refuse
<1>4. ASSUME NEW m \in Msg, Admit(m)
      PROVE  Meaning
  BY <1>4 DEF Admit
<1>5. ASSUME NEW m \in Msg, FindToRenew(m)
      PROVE  Meaning
  BY <1>5 DEF FindToRenew
<1>6. ASSUME NEW m \in Msg, Renew(m)
      PROVE  Meaning
  BY <1>6 DEF Renew
<1>7. ASSUME NEW m \in Msg, FindIdentity(m)
      PROVE  Meaning
  BY <1>7 DEF FindIdentity
<1>8. ASSUME NEW m \in Msg, AddIdentity(m)
      PROVE  Meaning
  BY <1>8 DEF AddIdentity
<1>9. ASSUME NEW m \in Msg, RequireLink(m)
      PROVE  Meaning
  BY <1>9 DEF RequireLink
<1>10. ASSUME NEW m \in Msg, FindSession(m)
      PROVE  Meaning
  BY <1>10 DEF FindSession
<1>11. ASSUME NEW m \in Msg, AddSession(m)
      PROVE  Meaning
  BY <1>11 DEF AddSession
<1>12. ASSUME NEW m \in Msg, CheckRate(m)
      PROVE  Meaning
  BY <1>12 DEF CheckRate
<1>13. ASSUME NEW m \in Msg, PersistPrompt(m)
      PROVE  Meaning
  BY <1>13 DEF PersistPrompt
<1>14. ASSUME NEW m \in Msg, LoadHistory(m)
      PROVE  Meaning
  BY <1>14 DEF LoadHistory
<1>15. ASSUME NEW m \in Msg, PersistReply(m)
      PROVE  Meaning
  BY <1>15 DEF PersistReply
<1>16. ASSUME NEW m \in Msg, SendReply(m)
      PROVE  Meaning
  BY <1>16 DEF SendReply
<1>17. ASSUME NEW m \in Msg, Break(m)
      PROVE  Meaning
  BY <1>17 DEF Break
<1>18. ASSUME NEW m \in Msg, Commit(m)
      PROVE  Meaning
  BY <1>18 DEF Commit
<1>19. ASSUME NEW m \in Msg, RollBack(m)
      PROVE  Meaning
  BY <1>19 DEF RollBack
<1>20. CASE Deactivate
  BY <1>20 DEF Deactivate
<1>21. CASE Tick
  BY <1>21 DEF Tick
<1>22. CASE UNCHANGED vars
  BY <1>22
<1>23. QED
  BY <1>1, <1>2, <1>3, <1>4, <1>5, <1>6, <1>7, <1>8, <1>9, <1>10, <1>11, <1>12, <1>13, <1>14, <1>15, <1>16, <1>17, <1>18, <1>19, <1>20, <1>21, <1>22 DEF Next, Step, Runs

\* Rows are only ever added.
LEMMA RowsGrow ==
  ASSUME TypeInv, [Next]_vars, NEW c \in Msg
  PROVE  rows[c] \subseteq rows'[c]
<1>1. ASSUME NEW m \in Msg, Commit(m)
      PROVE  rows[c] \subseteq rows'[c]
  BY <1>1 DEF Commit
<1>2. CASE ~ \E m \in Msg : Commit(m)
  BY <1>2, OnlyCommitsStore
<1>3. QED
  BY <1>1, <1>2

LEMMA StoredStep ==
  ASSUME TypeInv, Stored, [Next]_vars
  PROVE  Stored'
<1> SUFFICES ASSUME NEW m \in Msg, pc'[m] = "done", conv'[m] # None
             PROVE  Own(m)' \subseteq rows'[conv'[m]]
  BY DEF Stored
<1>1. CASE pc[m] = "done"
  <2>1. writes'[m] = writes[m] /\ conv'[m] = conv[m]
    BY <1>1, TaskStep
  <2>2. Own(m)' = Own(m) /\ conv[m] \in Msg
    BY <2>1 DEF Own, TypeInv, TypeOK
  <2>3. Own(m) \subseteq rows[conv[m]]
    BY <1>1, <2>1 DEF Stored
  <2>4. QED
    BY <2>1, <2>2, <2>3, RowsGrow
<1>2. CASE pc[m] # "done"
  <2>1. Commit(m)
    BY <1>2, TaskStep
  <2>2. Own(m)' = Own(m) /\ conv'[m] = conv[m] /\ conv[m] \in Msg
    BY <2>1 DEF Commit, Own, TypeInv, TypeOK
  <2>3. rows'[conv[m]] = rows[conv[m]] \cup Own(m)
    BY <2>1, <2>2 DEF Commit
  <2>4. QED
    BY <2>2, <2>3
<1>3. QED
  BY <1>1, <1>2

LEMMA CompleteStep ==
  ASSUME HistoryInv, [Next]_vars
  PROVE  HistoryIsComplete'
<1> SUFFICES ASSUME NEW m \in Msg, NEW z \in Msg, pc'[m] = "agent", z # m,
                    pc'[z] = "done", conv'[z] = conv'[m]
             PROVE  Own(z)' \subseteq seen'[m]
  BY DEF HistoryIsComplete
<1> USE DEF HistoryInv, ExchangeInv
<1>1. CASE pc[m] = "agent" /\ pc[z] = "done"
  <2>1. /\ seen'[m] = seen[m] /\ conv'[m] = conv[m]
        /\ writes'[z] = writes[z] /\ conv'[z] = conv[z]
    BY <1>1, TaskStep
  <2>2. Own(z)' = Own(z)
    BY <2>1 DEF Own
  <2>3. QED
    BY <1>1, <2>1, <2>2 DEF HistoryIsComplete
<1>2. CASE pc[m] = "agent" /\ pc[z] # "done"
  <2>1. Commit(z) /\ conv'[m] = conv[m]
    BY <1>2, TaskStep
  <2>2. pc[z] = "commit" /\ writes' = writes /\ conv' = conv
    BY <2>1 DEF Commit
  <2>3. "user" \in writes[m] /\ {pc[m], pc[z]} \subseteq Undone
    BY <1>2, <2>2 DEF Written, Undone, Open
  <2>4. "user" \notin writes[z]
    BY <2>2, <2>3 DEF Writers
  <2>5. "assistant" \notin writes[z]
    BY <2>2, <2>4 DEF Written
  <2>6. Own(z)' = {}
    BY <2>2, <2>4, <2>5 DEF Own
  <2>7. QED
    BY <2>6
<1>3. CASE pc[m] # "agent"
  <2>1. LoadHistory(m)
    BY <1>3, TaskStep
  <2>2. pc[m] = "history" /\ pc[z] = "done" /\ writes' = writes /\ conv' = conv
    BY <2>1 DEF LoadHistory, Goto, TypeInv, TypeOK
  <2>3. conv[m] # None /\ seen'[m] = rows[conv[m]] \cup Own(m)
    BY <2>1, <2>2 DEF LoadHistory, TypeInv, TypeOK, Inside
  <2>4. Own(z) \subseteq rows[conv[z]]
    BY <2>2, <2>3 DEF Stored
  <2>5. Own(z)' = Own(z)
    BY <2>2 DEF Own
  <2>6. QED
    BY <2>2, <2>3, <2>4, <2>5
<1>4. QED
  BY <1>1, <1>2, <1>3

LEMMA HistoryInit == Init => HistoryInv
<1>1. Init => ExchangeInv
  BY TypeInit DEF ExchangeInv, Written, ExchangesAreWhole, Init, Before
<1>2. QED
  BY <1>1 DEF HistoryInv, Writers, Stored, HistoryIsComplete, Init

LEMMA HistoryStep == HistoryInv /\ [Next]_vars => HistoryInv'
BY ExchangeStep, WritersStep, StoredStep, CompleteStep DEF HistoryInv, ExchangeInv

\* The agent knows every exchange routed before in its thread, although the
\* next task enters the lock before the last exchange is committed.
THEOREM CompleteHistory == Spec => []HistoryIsComplete
<1>1. HistoryInv => HistoryIsComplete
  BY DEF HistoryInv
<1>2. QED
  BY <1>1, HistoryInit, HistoryStep, PTL DEF Spec

-----------------------------------------------------------------------------
(* Threads.  An open transaction that adds a chat's session is the only one *)
(* to do so and the chat has none yet; a transaction that adds none writes  *)
(* to the conversation of the session, or to one that /new has replaced.    *)

Unresolved == {"new", "waiting", "bot", "identity", "addIdentity", "session", "addSession"}

\* What the tables and the tasks know of a chat's session.
Sessions ==
  /\ \A c \in Chat : session[c] # None => ChatOf[session[c]] = c
  /\ \A m \in Msg :
       /\ conv[m] # None => ChatOf[conv[m]] = ChatOf[m]
       /\ pc[m] \in Unresolved \cup {"command", "renew"} =>
            {"session", "renewed"} \cap writes[m] = {}
       /\ pc[m] \in {"new", "waiting"} => conv[m] = None
       /\ pc[m] \in Open => "renewed" \notin writes[m]
       /\ pc[m] \in {"command", "renew"} => m \in Renews
       /\ pc[m] = "renew" => session[ChatOf[m]] # None

Adding(m) == pc[m] \in Undone /\ "session" \in writes[m]

Adders ==
  /\ \A m, z \in Msg : (Adding(m) /\ Adding(z) /\ ChatOf[m] = ChatOf[z]) => m = z
  /\ \A m \in Msg : Adding(m) => session[ChatOf[m]] = None /\ conv[m] = m

Renewers ==
  \A m \in Msg : "renewed" \in writes[m] =>
    m \in Renews /\ session[ChatOf[m]] # None /\ conv[m] = m

Joiners ==
  \A m \in Msg :
    (pc[m] \in Undone /\ conv[m] # None /\ {"session", "renewed"} \cap writes[m] = {}) =>
      session[ChatOf[m]] \in {conv[m]} \cup Renews

ThreadInv == TypeInv /\ Sessions /\ Adders /\ Renewers /\ Joiners /\ OneThreadPerChat

\* Steps that leave the tables alone.
LEMMA TaskThreads ==
  ASSUME TypeInv, Sessions, Adders, Renewers, Joiners, [Next]_vars,
         ~ \E m \in Msg : Commit(m)
  PROVE  Sessions' /\ Adders' /\ Renewers' /\ Joiners'
<1> USE RouterAssumption
        DEF TypeInv, TypeOK, Sessions, Adders, Adding, Renewers, Joiners, Unresolved, Undone,
            Open, Ended, Goto, Leave, vars, dbVars, taskVars
<1>1. ASSUME NEW m \in Msg, Arrive(m)
      PROVE  Sessions' /\ Adders' /\ Renewers' /\ Joiners'
  BY <1>1 DEF Arrive
<1>2. ASSUME NEW m \in Msg, Acquire(m)
      PROVE  Sessions' /\ Adders' /\ Renewers' /\ Joiners'
  <2>1. pc' = [pc EXCEPT ![m] = "bot"] /\ pc[m] = "waiting" /\ UNCHANGED <<writes, conv, session>>
    BY <1>2 DEF Acquire
  <2>2. Sessions'
    BY <2>1
  <2>3. Adders'
    BY <2>1
  <2>4. Renewers'
    BY <2>1
  <2>5. Joiners'
    BY <2>1
  <2>6. QED
    BY <2>2, <2>3, <2>4, <2>5
<1>3. ASSUME NEW m \in Msg, Refuse(m)
      PROVE  Sessions' /\ Adders' /\ Renewers' /\ Joiners'
  BY <1>3 DEF Refuse
<1>4. ASSUME NEW m \in Msg, Admit(m)
      PROVE  Sessions' /\ Adders' /\ Renewers' /\ Joiners'
  BY <1>4 DEF Admit
<1>5. ASSUME NEW m \in Msg, FindToRenew(m)
      PROVE  Sessions' /\ Adders' /\ Renewers' /\ Joiners'
  <2>1. CASE pc' = [pc EXCEPT ![m] = "commit"] /\ UNCHANGED <<writes, conv, session>> /\ pc[m] \in Open
    <3>1. Sessions'
      BY <2>1
    <3>2. Adders'
      BY <2>1, SMTT(20)
    <3>3. Renewers'
      BY <2>1
    <3>4. Joiners'
      BY <2>1
    <3>5. QED
      BY <3>1, <3>2, <3>3, <3>4
  <2>2. CASE /\ pc[m] = "command" /\ pc' = [pc EXCEPT ![m] = "renew"]
             /\ session[ChatOf[m]] # None /\ UNCHANGED <<writes, conv, session>>
    <3>1. Sessions'
      BY <2>2
    <3>2. Adders'
      BY <2>2, SMTT(20)
    <3>3. Renewers'
      BY <2>2
    <3>4. Joiners'
      BY <2>2
    <3>5. QED
      BY <3>1, <3>2, <3>3, <3>4
  <2>3. QED
    BY <1>5, <2>1, <2>2 DEF FindToRenew
<1>6. ASSUME NEW m \in Msg, Renew(m)
      PROVE  Sessions' /\ Adders' /\ Renewers' /\ Joiners'
  BY <1>6, SMTT(30) DEF Renew
<1>7. ASSUME NEW m \in Msg, FindIdentity(m)
      PROVE  Sessions' /\ Adders' /\ Renewers' /\ Joiners'
  BY <1>7 DEF FindIdentity
<1>8. ASSUME NEW m \in Msg, AddIdentity(m)
      PROVE  Sessions' /\ Adders' /\ Renewers' /\ Joiners'
  <2>1. CASE pc' = [pc EXCEPT ![m] = "rollback"] /\ UNCHANGED <<writes, conv, session>> /\ pc[m] \in Open
    <3>1. Sessions'
      BY <2>1
    <3>2. Adders'
      BY <2>1, SMTT(20)
    <3>3. Renewers'
      BY <2>1
    <3>4. Joiners'
      BY <2>1
    <3>5. QED
      BY <3>1, <3>2, <3>3, <3>4
  <2>2. CASE /\ pc[m] = "addIdentity" /\ pc' = [pc EXCEPT ![m] = "session"]
             /\ writes' = [writes EXCEPT ![m] = @ \cup {"identity"}]
             /\ UNCHANGED <<session, conv>>
    <3>1. Sessions'
      BY <2>2
    <3>2. Adders'
      BY <2>2, SMTT(20)
    <3>3. Renewers'
      BY <2>2
    <3>4. Joiners'
      BY <2>2
    <3>5. QED
      BY <3>1, <3>2, <3>3, <3>4
  <2>3. QED
    BY <1>8, <2>1, <2>2 DEF AddIdentity
<1>9. ASSUME NEW m \in Msg, RequireLink(m)
      PROVE  Sessions' /\ Adders' /\ Renewers' /\ Joiners'
  BY <1>9, SMTT(20) DEF RequireLink
<1>10. ASSUME NEW m \in Msg, FindSession(m)
      PROVE  Sessions' /\ Adders' /\ Renewers' /\ Joiners'
  <2>1. /\ pc[m] = "session" /\ UNCHANGED <<writes, session>>
        /\ conv' = [conv EXCEPT ![m] = session[ChatOf[m]]]
        /\ \E l \in {"addSession", "rate"} : pc' = [pc EXCEPT ![m] = l]
    BY <1>10 DEF FindSession
  <2>2. Sessions'
    BY <2>1, SMTT(20)
  <2>3. Adders'
    BY <2>1, SMTT(20)
  <2>4. Renewers'
    BY <2>1
  <2>5. Joiners'
    BY <2>1
  <2>6. QED
    BY <2>2, <2>3, <2>4, <2>5
<1>11. ASSUME NEW m \in Msg, AddSession(m)
      PROVE  Sessions' /\ Adders' /\ Renewers' /\ Joiners'
  <2>1. CASE pc' = [pc EXCEPT ![m] = "rollback"] /\ UNCHANGED <<writes, conv, session>> /\ pc[m] \in Open
    <3>1. Sessions'
      BY <2>1
    <3>2. Adders'
      BY <2>1, SMTT(20)
    <3>3. Renewers'
      BY <2>1
    <3>4. Joiners'
      BY <2>1
    <3>5. QED
      BY <3>1, <3>2, <3>3, <3>4
  <2>2. CASE /\ pc[m] = "addSession" /\ pc' = [pc EXCEPT ![m] = "rate"]
             /\ ~Blocked(m, ChatOf, "session") /\ session[ChatOf[m]] = None
             /\ writes' = [writes EXCEPT ![m] = @ \cup {"session"}]
             /\ conv' = [conv EXCEPT ![m] = m] /\ UNCHANGED session
    <3>1. Sessions'
      BY <2>2
    <3>2. Adders'
      <4>1. ASSUME NEW z \in Msg, z # m, Adding(z)'
            PROVE  Adding(z) /\ ChatOf[z] # ChatOf[m]
        BY <2>2, <4>1 DEF Blocked
      <4>2. UNCHANGED session /\ conv'[m] = m /\ session[ChatOf[m]] = None
        BY <2>2
      <4>3. ASSUME NEW z \in Msg, z # m
            PROVE  conv'[z] = conv[z]
        BY <2>2, <4>3
      <4>4. ASSUME NEW a \in Msg, NEW z \in Msg, Adding(a)', Adding(z)', ChatOf[a] = ChatOf[z]
            PROVE  a = z
        <5>1. CASE a = m
          BY <4>1, <4>4, <5>1
        <5>2. CASE z = m
          BY <4>1, <4>4, <5>2
        <5>3. CASE a # m /\ z # m
          BY <4>1, <4>4, <5>3
        <5>4. QED
          BY <5>1, <5>2, <5>3
      <4>5. ASSUME NEW z \in Msg, Adding(z)'
            PROVE  session'[ChatOf[z]] = None /\ conv'[z] = z
        <5>1. CASE z = m
          BY <4>2, <5>1
        <5>2. CASE z # m
          BY <4>1, <4>2, <4>3, <4>5, <5>2
        <5>3. QED
          BY <5>1, <5>2
      <4>6. QED
        BY <4>4, <4>5
    <3>3. Renewers'
      BY <2>2
    <3>4. Joiners'
      BY <2>2, SMTT(20)
    <3>5. QED
      BY <3>1, <3>2, <3>3, <3>4
  <2>3. QED
    BY <1>11, <2>1, <2>2 DEF AddSession
<1>12. ASSUME NEW m \in Msg, CheckRate(m)
      PROVE  Sessions' /\ Adders' /\ Renewers' /\ Joiners'
  <2>1. CASE pc' = [pc EXCEPT ![m] = "commit"] /\ UNCHANGED <<writes, conv, session>> /\ pc[m] \in Open
    <3>1. Sessions'
      BY <2>1
    <3>2. Adders'
      BY <2>1, SMTT(20)
    <3>3. Renewers'
      BY <2>1
    <3>4. Joiners'
      BY <2>1
    <3>5. QED
      BY <3>1, <3>2, <3>3, <3>4
  <2>2. CASE /\ pc[m] = "rate" /\ pc' = [pc EXCEPT ![m] = "prompt"]
             /\ UNCHANGED <<writes, conv, session>>
    <3>1. Sessions'
      BY <2>2
    <3>2. Adders'
      BY <2>2
    <3>3. Renewers'
      BY <2>2
    <3>4. Joiners'
      BY <2>2
    <3>5. QED
      BY <3>1, <3>2, <3>3, <3>4
  <2>3. QED
    BY <1>12, <2>1, <2>2 DEF CheckRate
<1>13. ASSUME NEW m \in Msg, PersistPrompt(m)
      PROVE  Sessions' /\ Adders' /\ Renewers' /\ Joiners'
  BY <1>13, SMTT(20) DEF PersistPrompt
<1>14. ASSUME NEW m \in Msg, LoadHistory(m)
      PROVE  Sessions' /\ Adders' /\ Renewers' /\ Joiners'
  BY <1>14, SMTT(20) DEF LoadHistory
<1>15. ASSUME NEW m \in Msg, PersistReply(m)
      PROVE  Sessions' /\ Adders' /\ Renewers' /\ Joiners'
  BY <1>15, SMTT(20) DEF PersistReply
<1>16. ASSUME NEW m \in Msg, SendReply(m)
      PROVE  Sessions' /\ Adders' /\ Renewers' /\ Joiners'
  BY <1>16 DEF SendReply
<1>17. ASSUME NEW m \in Msg, Break(m)
      PROVE  Sessions' /\ Adders' /\ Renewers' /\ Joiners'
  <2>1. pc' = [pc EXCEPT ![m] = "rollback"] /\ pc[m] \in Open /\ UNCHANGED <<writes, conv, session>>
    BY <1>17 DEF Break
  <2>2. Sessions'
    BY <2>1
  <2>3. Adders'
    BY <2>1, SMTT(20)
  <2>4. Renewers'
    BY <2>1
  <2>5. Joiners'
    BY <2>1
  <2>6. QED
    BY <2>2, <2>3, <2>4, <2>5
<1>18. ASSUME NEW m \in Msg, Commit(m)
      PROVE  Sessions' /\ Adders' /\ Renewers' /\ Joiners'
  BY <1>18
<1>19. ASSUME NEW m \in Msg, RollBack(m)
      PROVE  Sessions' /\ Adders' /\ Renewers' /\ Joiners'
  BY <1>19 DEF RollBack
<1>20. CASE Deactivate
  BY <1>20 DEF Deactivate
<1>21. CASE Tick
  BY <1>21 DEF Tick
<1>22. CASE UNCHANGED vars
  BY <1>22
<1>23. QED
  BY <1>1, <1>2, <1>3, <1>4, <1>5, <1>6, <1>7, <1>8, <1>9, <1>10, <1>11, <1>12, <1>13, <1>14, <1>15, <1>16, <1>17, <1>18, <1>19, <1>20, <1>21, <1>22 DEF Next, Step, Runs

\* A commit.  The conversation it makes a chat's own is its message's; nobody
\* else is adding one, and if the chat had one it is /new that replaces it.
LEMMA CommitThreads ==
  ASSUME ThreadInv, NEW m \in Msg, Commit(m)
  PROVE  Sessions' /\ Adders' /\ Renewers' /\ Joiners' /\ OneThreadPerChat'
<1> DEFINE Sets == {"session", "renewed"} \cap writes[m] # {}
<1> USE RouterAssumption DEF ThreadInv, TypeInv, TypeOK
<1>1. /\ pc[m] = "commit" /\ pc' = [pc EXCEPT ![m] = "done"]
      /\ UNCHANGED <<writes, conv>>
      /\ session' = [c \in Chat |-> IF Sets /\ ChatOf[m] = c THEN m ELSE session[c]]
      /\ rows' = [c \in Msg |-> IF c = conv[m] THEN rows[c] \cup Own(m) ELSE rows[c]]
  BY DEF Commit, Goto
<1>2. pc[m] \in Undone
  BY <1>1 DEF Undone
<1>3. Sets => /\ conv[m] = m
              /\ session[ChatOf[m]] = None \/ m \in Renews
  BY <1>2 DEF Adders, Adding, Renewers
<1>4. ASSUME Sets, NEW z \in Msg, z # m, ChatOf[z] = ChatOf[m]
      PROVE  ~ Adding(z)
  BY <1>2, <1>4 DEF Adders, Adding, Renewers
<1>5. ASSUME NEW z \in Msg, pc'[z] \in Undone
      PROVE  z # m /\ pc[z] \in Undone
  BY <1>1, <1>5 DEF Undone, Open
<1>6. ASSUME NEW z \in Msg, ~ (Sets /\ ChatOf[z] = ChatOf[m])
      PROVE  session'[ChatOf[z]] = session[ChatOf[z]]
  BY <1>1, <1>6
<1>7. Sets => session'[ChatOf[m]] = m
  BY <1>1
<1>8. ASSUME NEW z \in Msg, session[ChatOf[z]] # None
      PROVE  session'[ChatOf[z]] # None
  BY <1>6, <1>7, <1>8
<1>9. Sessions'
  <2>1. \A c \in Chat : session'[c] # None => ChatOf[session'[c]] = c
    BY <1>1 DEF Sessions
  <2>2. ASSUME NEW z \in Msg
        PROVE  /\ conv[z] # None => ChatOf[conv[z]] = ChatOf[z]
               /\ pc'[z] \in Unresolved \cup {"command", "renew"} =>
                    {"session", "renewed"} \cap writes[z] = {}
               /\ pc'[z] \in {"new", "waiting"} => conv[z] = None
               /\ pc'[z] \in Open => "renewed" \notin writes[z]
               /\ pc'[z] \in {"command", "renew"} => z \in Renews
               /\ pc'[z] = "renew" => session[ChatOf[z]] # None
    BY <1>1 DEF Sessions, Unresolved, Open
  <2>3. QED
    BY <1>1, <1>8, <2>1, <2>2 DEF Sessions
<1>10. Adders'
  <2>1. ASSUME NEW z \in Msg, Adding(z)'
        PROVE  Adding(z) /\ z # m
    BY <1>1, <1>5, <2>1 DEF Adding
  <2>2. ASSUME NEW z \in Msg, Adding(z)'
        PROVE  session'[ChatOf[z]] = None /\ conv'[z] = z
    BY <1>1, <1>4, <1>6, <2>1, <2>2 DEF Adders
  <2>3. ASSUME NEW a \in Msg, NEW z \in Msg, Adding(a)', Adding(z)', ChatOf[a] = ChatOf[z]
        PROVE  a = z
    BY <2>1, <2>3 DEF Adders
  <2>4. QED
    BY <2>2, <2>3 DEF Adders
<1>11. Renewers'
  BY <1>1, <1>8 DEF Renewers
<1>12. Joiners'
  <2> SUFFICES ASSUME NEW z \in Msg, pc'[z] \in Undone, conv[z] # None,
                      {"session", "renewed"} \cap writes[z] = {}
               PROVE  session'[ChatOf[z]] \in {conv[z]} \cup Renews
    BY <1>1 DEF Joiners
  <2>1. session[ChatOf[z]] \in {conv[z]} \cup Renews
    BY <1>5 DEF Joiners
  <2>2. CASE Sets /\ ChatOf[z] = ChatOf[m]
    BY <1>3, <1>7, <2>1, <2>2
  <2>3. QED
    BY <1>6, <2>1, <2>2
<1>13. OneThreadPerChat'
  <2> SUFFICES ASSUME NEW c \in Msg, NEW z \in Msg, NEW r \in rows'[c], r.msg = z
               PROVE  /\ ChatOf[z] = ChatOf[c]
                      /\ session'[ChatOf[c]] \in {c} \cup Renews
    BY DEF OneThreadPerChat
  <2>1. CASE r \in rows[c]
    <3>1. ChatOf[z] = ChatOf[c] /\ session[ChatOf[c]] \in {c} \cup Renews
      BY <2>1 DEF OneThreadPerChat
    <3>2. CASE Sets /\ ChatOf[c] = ChatOf[m]
      BY <1>3, <1>7, <3>1, <3>2
    <3>3. QED
      BY <1>6, <3>1, <3>2
  <2>2. CASE r \notin rows[c]
    <3>1. c = conv[m] /\ r \in Own(m)
      BY <1>1, <2>2
    <3>2. z = m
      BY <3>1 DEF Own
    <3>3. ChatOf[c] = ChatOf[m] /\ conv[m] # None
      BY <3>1 DEF Sessions
    <3>4. CASE Sets
      BY <1>3, <1>7, <3>1, <3>2, <3>3, <3>4
    <3>5. CASE ~ Sets
      <4>1. session[ChatOf[m]] \in {conv[m]} \cup Renews
        BY <1>2, <3>3, <3>5 DEF Joiners
      <4>2. QED
        BY <1>6, <3>1, <3>2, <3>3, <3>5, <4>1
    <3>6. QED
      BY <3>4, <3>5
  <2>3. QED
    BY <2>1, <2>2
<1>14. QED
  BY <1>9, <1>10, <1>11, <1>12, <1>13

LEMMA ThreadInit == Init => ThreadInv
<1>1. Init => Sessions /\ Adders /\ Renewers /\ Joiners /\ OneThreadPerChat
  BY RouterAssumption DEF Init, Sessions, Adders, Adding, Renewers, Joiners,
     OneThreadPerChat, Unresolved, Undone, Open
<1>2. QED
  BY <1>1, TypeInit DEF ThreadInv

LEMMA ThreadStep == ThreadInv /\ [Next]_vars => ThreadInv'
<1> SUFFICES ASSUME ThreadInv, [Next]_vars PROVE ThreadInv'
  OBVIOUS
<1>1. TypeInv'
  BY TypeStep DEF ThreadInv
<1>2. ASSUME NEW m \in Msg, Commit(m)
      PROVE  Sessions' /\ Adders' /\ Renewers' /\ Joiners' /\ OneThreadPerChat'
  BY <1>2, CommitThreads
<1>3. ASSUME ~ \E m \in Msg : Commit(m)
      PROVE  Sessions' /\ Adders' /\ Renewers' /\ Joiners' /\ OneThreadPerChat'
  <2>1. Sessions' /\ Adders' /\ Renewers' /\ Joiners'
    BY <1>3, TaskThreads DEF ThreadInv
  <2>2. rows' = rows /\ session' = session
    BY <1>3, OnlyCommitsStore
  <2>3. OneThreadPerChat
    BY DEF ThreadInv
  <2>4. QED
    BY <2>1, <2>2, <2>3 DEF OneThreadPerChat
<1>4. QED
  BY <1>1, <1>2, <1>3 DEF ThreadInv

\* Two messages that find no session never make two conversations: a chat has
\* one conversation until /new gives it the next (uq_channel_session_bot_chat).
THEOREM OneThread == Spec => []OneThreadPerChat
<1>1. ThreadInv => OneThreadPerChat
  BY DEF ThreadInv
<1>2. QED
  BY <1>1, ThreadInit, ThreadStep, PTL DEF Spec

\* Whatever fails and however messages queue, the threads that agents are given
\* consist of whole exchanges, lack none, and are those of one chat.
THEOREM WholeThreads == Spec => []ThreadsAreWhole
BY WholeExchanges, CompleteHistory, OneThread, PTL DEF ThreadsAreWhole

-----------------------------------------------------------------------------
(* The log of exchanges.  From the history on, what a task was given stays  *)
(* what its conversation holds until its own exchange is added: of the open *)
(* transactions no other can write there.                                   *)

Makes(m) == {"session", "renewed"} \cap writes[m] # {}

\* What is stored is of messages that are done; what was given is of those that
\* have a prompt, and is what is stored.
Serial ==
  /\ \A c \in Msg : \A r \in rows[c] : pc[r.msg] = "done"
  /\ \A m \in Msg :
       /\ pc[m] # "failed" /\ "user" \notin writes[m] => seen[m] = {}
       /\ pc[m] \in {"agent", "reply", "commit"} /\ "user" \in writes[m] =>
            seen[m] = rows[conv[m]] \cup {[role |-> "user", msg |-> m]}
       /\ "user" \in writes[m] => conv[m] # None /\ "renewed" \notin writes[m]

\* A task is in a conversation that it makes, or that is made.
Homes ==
  /\ \A c \in Chat : session[c] # None => session[c] \in Made
  /\ \A m \in Msg : pc[m] \in Undone /\ conv[m] # None /\ ~Makes(m) => conv[m] \in Made

LogInv == HistoryInv /\ ThreadInv /\ Serial /\ Homes

\* What a step other than its commit means for one task.
LEMMA TaskMoves ==
  ASSUME TypeInv, Written, Sessions, [Next]_vars, NEW z \in Msg, ~Commit(z)
  PROVE  /\ pc'[z] = "done" <=> pc[z] = "done"
         /\ pc[z] = "done" => /\ writes'[z] = writes[z] /\ conv'[z] = conv[z]
                             /\ seen'[z] = seen[z]
         /\ (pc'[z] # "failed" /\ "user" \notin writes'[z]) =>
              pc[z] # "failed" /\ "user" \notin writes[z] /\ seen'[z] = seen[z]
         /\ (pc'[z] \in {"agent", "reply", "commit"} /\ "user" \in writes'[z]) =>
              \/ LoadHistory(z)
              \/ /\ pc[z] \in {"agent", "reply", "commit"} /\ "user" \in writes[z]
                 /\ seen'[z] = seen[z] /\ conv'[z] = conv[z]
         /\ "user" \in writes'[z] => (pc[z] = "prompt" \/ "user" \in writes[z]) /\ conv'[z] = conv[z]
         /\ {"user", "renewed"} \subseteq writes'[z] => {"user", "renewed"} \subseteq writes[z]
         /\ (pc'[z] \in Undone /\ conv'[z] # None /\ ~Makes(z)') =>
              \/ conv'[z] = session[ChatOf[z]]
              \/ pc[z] \in Undone /\ ~Makes(z) /\ conv'[z] = conv[z]
<1> DEFINE Meaning ==
         /\ pc'[z] = "done" <=> pc[z] = "done"
         /\ pc[z] = "done" => /\ writes'[z] = writes[z] /\ conv'[z] = conv[z]
                             /\ seen'[z] = seen[z]
         /\ (pc'[z] # "failed" /\ "user" \notin writes'[z]) =>
              pc[z] # "failed" /\ "user" \notin writes[z] /\ seen'[z] = seen[z]
         /\ (pc'[z] \in {"agent", "reply", "commit"} /\ "user" \in writes'[z]) =>
              \/ LoadHistory(z)
              \/ /\ pc[z] \in {"agent", "reply", "commit"} /\ "user" \in writes[z]
                 /\ seen'[z] = seen[z] /\ conv'[z] = conv[z]
         /\ "user" \in writes'[z] => (pc[z] = "prompt" \/ "user" \in writes[z]) /\ conv'[z] = conv[z]
         /\ {"user", "renewed"} \subseteq writes'[z] => {"user", "renewed"} \subseteq writes[z]
         /\ (pc'[z] \in Undone /\ conv'[z] # None /\ ~Makes(z)') =>
              \/ conv'[z] = session[ChatOf[z]]
              \/ pc[z] \in Undone /\ ~Makes(z) /\ conv'[z] = conv[z]
<1>t. /\ pc \in [Msg -> {"new", "waiting"} \cup Undone \cup Ended]
      /\ writes \in [Msg -> SUBSET Write] /\ seen \in [Msg -> SUBSET Row]
      /\ conv \in [Msg -> Msg \cup {None}]
  BY DEF TypeInv, TypeOK
<1>w. /\ pc[z] \in Before => "user" \notin writes[z]
      /\ pc[z] \in {"history", "agent", "reply"} => "user" \in writes[z]
      /\ pc[z] = "failed" => writes[z] = {}
      /\ pc[z] \in {"new", "waiting"} => conv[z] = None
      /\ pc[z] \in Open => "renewed" \notin writes[z]
  BY DEF Written, Sessions
<1> USE DEF Undone, Open, Ended, Before, Makes, Goto, Leave
<1>other. ASSUME NEW m \in Msg, m # z,
                 \E l : pc' = [pc EXCEPT ![m] = l],
                 writes' = writes \/ \E w : writes' = [writes EXCEPT ![m] = w],
                 conv' = conv \/ \E c : conv' = [conv EXCEPT ![m] = c],
                 seen' = seen \/ \E h : seen' = [seen EXCEPT ![m] = h]
          PROVE  Meaning
  <2>1. pc'[z] = pc[z] /\ writes'[z] = writes[z] /\ conv'[z] = conv[z] /\ seen'[z] = seen[z]
    BY <1>t, <1>other
  <2> QED
    BY <2>1, <1>w
<1>1. ASSUME NEW m \in Msg, Arrive(m) PROVE Meaning
  <2>1. CASE m = z
    BY <1>1, <1>t, <1>w, <2>1 DEF Arrive
  <2>2. CASE m # z
    BY <1>1, <1>other, <2>2 DEF Arrive
  <2> QED
    BY <2>1, <2>2
<1>2. ASSUME NEW m \in Msg, Acquire(m) PROVE Meaning
  <2>1. CASE m = z
    BY <1>2, <1>t, <1>w, <2>1 DEF Acquire
  <2>2. CASE m # z
    BY <1>2, <1>other, <2>2 DEF Acquire
  <2> QED
    BY <2>1, <2>2
<1>3. ASSUME NEW m \in Msg, Refuse(m) PROVE Meaning
  <2>1. CASE m = z
    BY <1>3, <1>t, <1>w, <2>1 DEF Refuse
  <2>2. CASE m # z
    BY <1>3, <1>other, <2>2 DEF Refuse
  <2> QED
    BY <2>1, <2>2
<1>4. ASSUME NEW m \in Msg, Admit(m) PROVE Meaning
  <2>1. CASE m = z
    BY <1>4, <1>t, <1>w, <2>1 DEF Admit
  <2>2. CASE m # z
    BY <1>4, <1>other, <2>2 DEF Admit
  <2> QED
    BY <2>1, <2>2
<1>5. ASSUME NEW m \in Msg, FindToRenew(m) PROVE Meaning
  <2>1. CASE m = z
    BY <1>5, <1>t, <1>w, <2>1 DEF FindToRenew
  <2>2. CASE m # z
    BY <1>5, <1>other, <2>2 DEF FindToRenew
  <2> QED
    BY <2>1, <2>2
<1>6. ASSUME NEW m \in Msg, Renew(m) PROVE Meaning
  <2>1. CASE m = z
    BY <1>6, <1>t, <1>w, <2>1 DEF Renew
  <2>2. CASE m # z
    BY <1>6, <1>other, <2>2 DEF Renew
  <2> QED
    BY <2>1, <2>2
<1>7. ASSUME NEW m \in Msg, FindIdentity(m) PROVE Meaning
  <2>1. CASE m = z
    BY <1>7, <1>t, <1>w, <2>1 DEF FindIdentity
  <2>2. CASE m # z
    BY <1>7, <1>other, <2>2 DEF FindIdentity
  <2> QED
    BY <2>1, <2>2
<1>8. ASSUME NEW m \in Msg, AddIdentity(m) PROVE Meaning
  <2>1. CASE m = z
    BY <1>8, <1>t, <1>w, <2>1 DEF AddIdentity
  <2>2. CASE m # z
    BY <1>8, <1>other, <2>2 DEF AddIdentity
  <2> QED
    BY <2>1, <2>2
<1>9. ASSUME NEW m \in Msg, RequireLink(m) PROVE Meaning
  <2>1. CASE m = z
    BY <1>9, <1>t, <1>w, <2>1 DEF RequireLink
  <2>2. CASE m # z
    BY <1>9, <1>other, <2>2 DEF RequireLink
  <2> QED
    BY <2>1, <2>2
<1>10. ASSUME NEW m \in Msg, FindSession(m) PROVE Meaning
  <2>1. CASE m = z
    BY <1>10, <1>t, <1>w, <2>1 DEF FindSession
  <2>2. CASE m # z
    BY <1>10, <1>other, <2>2 DEF FindSession
  <2> QED
    BY <2>1, <2>2
<1>11. ASSUME NEW m \in Msg, AddSession(m) PROVE Meaning
  <2>1. CASE m = z
    BY <1>11, <1>t, <1>w, <2>1 DEF AddSession
  <2>2. CASE m # z
    BY <1>11, <1>other, <2>2 DEF AddSession
  <2> QED
    BY <2>1, <2>2
<1>12. ASSUME NEW m \in Msg, CheckRate(m) PROVE Meaning
  <2>1. CASE m = z
    BY <1>12, <1>t, <1>w, <2>1 DEF CheckRate
  <2>2. CASE m # z
    BY <1>12, <1>other, <2>2 DEF CheckRate
  <2> QED
    BY <2>1, <2>2
<1>13. ASSUME NEW m \in Msg, PersistPrompt(m) PROVE Meaning
  <2>1. CASE m = z
    BY <1>13, <1>t, <1>w, <2>1 DEF PersistPrompt
  <2>2. CASE m # z
    BY <1>13, <1>other, <2>2 DEF PersistPrompt
  <2> QED
    BY <2>1, <2>2
<1>14. ASSUME NEW m \in Msg, LoadHistory(m) PROVE Meaning
  <2>1. CASE m = z
    BY <1>14, <1>t, <1>w, <2>1 DEF LoadHistory
  <2>2. CASE m # z
    BY <1>14, <1>other, <2>2 DEF LoadHistory
  <2> QED
    BY <2>1, <2>2
<1>15. ASSUME NEW m \in Msg, PersistReply(m) PROVE Meaning
  <2>1. CASE m = z
    BY <1>15, <1>t, <1>w, <2>1 DEF PersistReply
  <2>2. CASE m # z
    BY <1>15, <1>other, <2>2 DEF PersistReply
  <2> QED
    BY <2>1, <2>2
<1>16. ASSUME NEW m \in Msg, SendReply(m) PROVE Meaning
  <2>1. CASE m = z
    BY <1>16, <1>t, <1>w, <2>1 DEF SendReply
  <2>2. CASE m # z
    BY <1>16, <1>other, <2>2 DEF SendReply
  <2> QED
    BY <2>1, <2>2
<1>17. ASSUME NEW m \in Msg, Break(m) PROVE Meaning
  <2>1. CASE m = z
    BY <1>17, <1>t, <1>w, <2>1 DEF Break
  <2>2. CASE m # z
    BY <1>17, <1>other, <2>2 DEF Break
  <2> QED
    BY <2>1, <2>2
<1>18. ASSUME NEW m \in Msg, RollBack(m) PROVE Meaning
  <2>1. CASE m = z
    BY <1>18, <1>t, <1>w, <2>1 DEF RollBack
  <2>2. CASE m # z
    BY <1>18, <1>other, <2>2 DEF RollBack
  <2> QED
    BY <2>1, <2>2
<1>19. ASSUME NEW m \in Msg, Commit(m) PROVE Meaning
  BY <1>19, <1>other DEF Commit
<1>20. CASE Deactivate \/ Tick \/ UNCHANGED vars
  BY <1>t, <1>w, <1>20 DEF Deactivate, Tick, vars, taskVars
<1> QED
  BY <1>1, <1>2, <1>3, <1>4, <1>5, <1>6, <1>7, <1>8, <1>9, <1>10, <1>11, <1>12, <1>13, <1>14, <1>15, <1>16, <1>17, <1>18, <1>19, <1>20 DEF Next, Step, Runs

\* A conversation that is made stays, and so what it was made for.
LEMMA MadeStays ==
  ASSUME TypeInv, [Next]_vars
  PROVE  Made \subseteq Made'
BY TaskStep DEF Made

\* Steps that do not commit.
LEMMA SerialTask ==
  ASSUME TypeInv, Written, Sessions, Serial, Homes, [Next]_vars, ~ \E m \in Msg : Commit(m)
  PROVE  Serial' /\ Homes'
<1>0. session' = session /\ rows' = rows
  BY OnlyCommitsStore
<1>1. ASSUME NEW c \in Msg, NEW r \in rows'[c] PROVE pc'[r.msg] = "done"
  <2>1. r.msg \in Msg /\ pc[r.msg] = "done"
    BY <1>0, <1>1 DEF Serial, TypeInv, TypeOK, Row
  <2> QED
    BY <2>1, TaskStep
<1>2. ASSUME NEW m \in Msg
      PROVE  /\ pc'[m] # "failed" /\ "user" \notin writes'[m] => seen'[m] = {}
             /\ "user" \in writes'[m] => conv'[m] # None /\ "renewed" \notin writes'[m]
  BY TaskMoves DEF Serial, TypeInv, TypeOK, Inside
<1>3. ASSUME NEW m \in Msg, pc'[m] \in {"agent", "reply", "commit"}, "user" \in writes'[m]
      PROVE  seen'[m] = rows'[conv'[m]] \cup {[role |-> "user", msg |-> m]}
  <2>1. CASE LoadHistory(m)
    <3>1. /\ seen'[m] = rows[conv[m]] \cup Own(m) /\ conv'[m] = conv[m]
          /\ "user" \in writes[m] /\ "assistant" \notin writes[m]
      BY <2>1 DEF LoadHistory, Written, TypeInv, TypeOK
    <3>2. Own(m) = {[role |-> "user", msg |-> m]}
      BY <3>1 DEF Own
    <3> QED
      BY <1>0, <3>1, <3>2
  <2>2. CASE ~LoadHistory(m)
    BY <1>0, <1>3, <2>2, TaskMoves DEF Serial
  <2> QED
    BY <2>1, <2>2
<1>4. ASSUME NEW c \in Chat, session'[c] # None PROVE session'[c] \in Made'
  BY <1>0, <1>4, MadeStays DEF Homes
<1>5. ASSUME NEW m \in Msg, pc'[m] \in Undone, conv'[m] # None, ~Makes(m)' PROVE conv'[m] \in Made'
  <2>1. \/ conv'[m] = session[ChatOf[m]]
        \/ pc[m] \in Undone /\ ~Makes(m) /\ conv'[m] = conv[m]
    BY <1>5, TaskMoves
  <2>2. conv'[m] \in Made
    BY <1>5, <2>1, RouterAssumption DEF Homes
  <2> QED
    BY <2>2, MadeStays
<1> QED
  BY <1>1, <1>2, <1>3, <1>4, <1>5 DEF Serial, Homes

\* A commit.  No other open transaction has a prompt in its conversation.
LEMMA SerialCommit ==
  ASSUME HistoryInv, ThreadInv, Serial, Homes, [Next]_vars, NEW m \in Msg, Commit(m)
  PROVE  Serial' /\ Homes'
<1> USE DEF ThreadInv, TypeInv, TypeOK
<1>1. /\ pc[m] = "commit" /\ pc' = [pc EXCEPT ![m] = "done"]
      /\ UNCHANGED <<writes, conv, seen>>
      /\ session' = [c \in Chat |-> IF Makes(m) /\ ChatOf[m] = c THEN m ELSE session[c]]
      /\ rows' = [c \in Msg |-> IF c = conv[m] THEN rows[c] \cup Own(m) ELSE rows[c]]
  BY DEF Commit, Goto, Makes
<1>2. ASSUME NEW c \in Msg, NEW r \in rows'[c] PROVE pc'[r.msg] = "done"
  <2>1. CASE r \in rows[c]
    <3>1. r.msg \in Msg /\ pc[r.msg] = "done"
      BY <2>1 DEF Serial, Row
    <3> QED
      BY <1>1, <3>1
  <2>2. CASE r \in Own(m)
    BY <1>1, <2>2 DEF Own
  <2> QED
    BY <1>1, <2>1, <2>2
<1>3. ASSUME NEW z \in Msg
      PROVE  /\ pc'[z] # "failed" /\ "user" \notin writes'[z] => seen'[z] = {}
             /\ "user" \in writes'[z] => conv'[z] # None /\ "renewed" \notin writes'[z]
  BY <1>1 DEF Serial
<1>4. ASSUME NEW z \in Msg, pc'[z] \in {"agent", "reply", "commit"}, "user" \in writes'[z]
      PROVE  seen'[z] = rows'[conv'[z]] \cup {[role |-> "user", msg |-> z]}
  <2>1. z # m /\ pc[z] = pc'[z] /\ "user" \in writes[z] /\ conv[z] \in Msg
    BY <1>1, <1>4 DEF Serial
  <2>2. seen[z] = rows[conv[z]] \cup {[role |-> "user", msg |-> z]}
    BY <1>4, <2>1 DEF Serial
  <2>3. CASE conv[z] = conv[m]
    <3>1. "user" \notin writes[m]
      BY <1>1, <1>4, <2>1, <2>3 DEF HistoryInv, Writers, Undone, Open
    <3>2. Own(m) = {}
      BY <1>1, <3>1 DEF HistoryInv, ExchangeInv, Written, Own
    <3> QED
      BY <1>1, <2>1, <2>2, <3>2
  <2>4. CASE conv[z] # conv[m]
    BY <1>1, <2>1, <2>2, <2>4
  <2> QED
    BY <2>3, <2>4
<1>5. ASSUME NEW c \in Chat, session'[c] # None PROVE session'[c] \in Made'
  <2>1. CASE session'[c] = session[c]
    BY <1>5, <2>1, MadeStays DEF Homes
  <2>2. CASE Makes(m) /\ session'[c] = m
    BY <1>1, <2>2 DEF Made, Makes
  <2> QED
    BY <1>1, <2>1, <2>2
<1>6. ASSUME NEW z \in Msg, pc'[z] \in Undone, conv'[z] # None, ~Makes(z)' PROVE conv'[z] \in Made'
  <2>1. pc[z] \in Undone /\ conv'[z] = conv[z] /\ ~Makes(z)
    BY <1>1, <1>6 DEF Undone, Open, Makes
  <2> QED
    BY <1>6, <2>1, MadeStays DEF Homes
<1> QED
  BY <1>2, <1>3, <1>4, <1>5, <1>6 DEF Serial, Homes

LEMMA LogInvInit == Init => LogInv
<1> SUFFICES ASSUME Init PROVE LogInv
  OBVIOUS
<1>1. HistoryInv
  BY HistoryInit
<1>2. ThreadInv
  BY ThreadInit
<1>3. Serial /\ Homes
  BY RouterAssumption DEF Init, Serial, Homes, Undone, Open
<1> QED
  BY <1>1, <1>2, <1>3 DEF LogInv

LEMMA LogInvStep == LogInv /\ [Next]_vars => LogInv'
<1> SUFFICES ASSUME LogInv, [Next]_vars PROVE LogInv'
  OBVIOUS
<1>1. HistoryInv'
  BY HistoryStep DEF LogInv
<1>2. ThreadInv'
  BY ThreadStep DEF LogInv
<1>3. ASSUME NEW m \in Msg, Commit(m) PROVE Serial' /\ Homes'
  BY <1>3, SerialCommit DEF LogInv
<1>4. ASSUME ~ \E m \in Msg : Commit(m) PROVE Serial' /\ Homes'
  BY <1>4, SerialTask DEF LogInv, HistoryInv, ExchangeInv, ThreadInv
<1> QED
  BY <1>1, <1>2, <1>3, <1>4 DEF LogInv

\* A commit that stores an exchange adds it to what it was given; another adds a
\* conversation, or nothing.
LEMMA LogCommit ==
  ASSUME LogInv, NEW m \in Msg, Commit(m)
  PROVE  [Log!LogNext]_Log!logVars
<1> USE RouterAssumption DEF ThreadInv, TypeInv, TypeOK
<1>i. HistoryInv /\ ThreadInv /\ Serial /\ Homes
  BY DEF LogInv
<1>1. /\ pc[m] = "commit" /\ pc' = [pc EXCEPT ![m] = "done"]
      /\ UNCHANGED <<writes, conv, seen>>
      /\ session' = [c \in Chat |-> IF Makes(m) /\ ChatOf[m] = c THEN m ELSE session[c]]
      /\ rows' = [c \in Msg |-> IF c = conv[m] THEN rows[c] \cup Own(m) ELSE rows[c]]
  BY DEF Commit, Goto, Makes
<1>2. /\ m \notin Made
      /\ Made' = IF Makes(m) THEN Made \cup {m} ELSE Made
  BY <1>i, <1>1 DEF Made, Makes
<1>3. session' = IF Makes(m) THEN [session EXCEPT ![ChatOf[m]] = m] ELSE session
  BY <1>i, <1>1
<1>4. /\ Given' = [Given EXCEPT ![m] = seen[m] \ Own(m)]
      /\ Given[m] = {}
  <2>1. \A z \in Msg : Own(z)' = Own(z)
    BY <1>1 DEF Own
  <2> QED
    BY <1>i, <1>1, <2>1 DEF Given
<1>5. /\ Makes(m) => conv[m] = m
      /\ "session" \in writes[m] => session[ChatOf[m]] = None
      /\ "renewed" \in writes[m] => m \in Renews /\ session[ChatOf[m]] # None
  BY <1>i, <1>1 DEF Adders, Adding, Renewers, Undone, Makes
<1>6. CASE "user" \notin writes[m]
  <2>0. "assistant" \notin writes[m]
    BY <1>i, <1>1, <1>6 DEF HistoryInv, ExchangeInv, Written
  <2>1. Own(m) = {} /\ seen[m] = {}
    <3>1. Own(m) = {}
      BY <1>6, <2>0 DEF Own
    <3>2. seen[m] = {}
      BY <1>i, <1>1, <1>6 DEF Serial
    <3> QED
      BY <3>1, <3>2
  <2>2. rows' = rows
    BY <1>i, <1>1, <2>1
  <2>3. Given' = Given
    BY <1>4, <2>1 DEF Given
  <2>4. CASE Makes(m)
    <3>1. Log!Make(m)
      BY <1>2, <1>3, <2>4 DEF Log!Make
    <3>2. Log!Begin(m) \/ Log!Renew(m)
      BY <1>5, <2>4, <3>1 DEF Log!Begin, Log!Renew, Makes
    <3> QED
      BY <2>2, <2>3, <3>2 DEF Log!LogNext
  <2>5. CASE ~Makes(m)
    BY <1>2, <1>3, <2>2, <2>3, <2>5 DEF Log!logVars
  <2> QED
    BY <2>4, <2>5
<1>7. CASE "user" \in writes[m]
  <2>1. conv[m] \in Msg /\ "renewed" \notin writes[m] /\ "assistant" \in writes[m]
    BY <1>i, <1>1, <1>7 DEF Serial, HistoryInv, ExchangeInv, Written
  <2>2. Own(m) = Log!Exchange(m)
    <3>1. writes[m] \cap {"user", "assistant"} = {"user", "assistant"}
      BY <1>7, <2>1
    <3>2. Own(m) = {[role |-> r, msg |-> m] : r \in {"user", "assistant"}}
      BY <3>1 DEF Own
    <3>3. ASSUME NEW x \in Log!Exchange(m) PROVE x \in Own(m)
      <4>1. x = [role |-> x.role, msg |-> x.msg] /\ x.role \in {"user", "assistant"} /\ x.msg = m
        BY DEF Log!Exchange
      <4> QED
        BY <3>2, <4>1
    <3>4. ASSUME NEW x \in Own(m) PROVE x \in Log!Exchange(m)
      BY <3>2 DEF Log!Exchange
    <3> QED
      BY <3>3, <3>4
  <2>3. \A d \in Msg : Log!Exchange(m) \cap rows[d] = {}
    BY <1>i, <1>1 DEF Serial, Log!Exchange
  <2>4. seen[m] \ Own(m) = rows[conv[m]]
    <3>1. seen[m] = rows[conv[m]] \cup {[role |-> "user", msg |-> m]}
      BY <1>i, <1>1, <1>7 DEF Serial
    <3>2. [role |-> "user", msg |-> m] \in Own(m)
      BY <1>7 DEF Own
    <3> QED
      BY <2>1, <2>2, <2>3, <3>1, <3>2
  <2>5. Log!Answer(m, conv[m])
    <3>1. rows' = [rows EXCEPT ![conv[m]] = @ \cup Log!Exchange(m)]
      BY <1>i, <1>1, <2>1, <2>2
    <3> QED
      BY <1>4, <2>3, <2>4, <3>1 DEF Log!Answer
  <2>6. CASE Makes(m)
    <3>1. Log!Begin(m)
      BY <1>2, <1>3, <1>5, <2>1, <2>6 DEF Log!Begin, Log!Make, Makes
    <3> QED
      BY <1>5, <2>5, <2>6, <3>1 DEF Log!LogNext
  <2>7. CASE ~Makes(m)
    <3>1. conv[m] \in Made /\ ChatOf[conv[m]] = ChatOf[m]
      BY <1>i, <1>1, <2>1, <2>7 DEF Homes, Sessions, Undone
    <3>2. Made' = Made /\ session' = session
      BY <1>2, <1>3, <2>7
    <3> QED
      BY <2>5, <3>1, <3>2 DEF Log!LogNext
  <2> QED
    BY <2>6, <2>7
<1> QED
  BY <1>6, <1>7

LEMMA LogSteps == LogInv /\ [Next]_vars => [Log!LogNext]_Log!logVars
<1> SUFFICES ASSUME LogInv, [Next]_vars PROVE [Log!LogNext]_Log!logVars
  OBVIOUS
<1>1. CASE \E m \in Msg : Commit(m)
  BY <1>1, LogCommit
<1>2. CASE ~ \E m \in Msg : Commit(m)
  <2>1. session' = session /\ rows' = rows
    BY <1>2, OnlyCommitsStore
  <2>2. ASSUME NEW z \in Msg
        PROVE  /\ pc'[z] = "done" <=> pc[z] = "done"
               /\ pc[z] = "done" => writes'[z] = writes[z] /\ seen'[z] = seen[z]
    BY <1>2, TaskMoves DEF LogInv, HistoryInv, ExchangeInv, ThreadInv
  <2>3. Made' = Made
    BY <2>2 DEF Made
  <2>4. Given' = Given
    BY <2>2 DEF Given, Own
  <2> QED
    BY <2>1, <2>3, <2>4 DEF Log!logVars
<1> QED
  BY <1>1, <1>2

LEMMA LogStarts == Init => Log!LogInit
BY DEF Init, Log!LogInit, Made, Given

\* The router's transactions, which read and write inside the lock and commit
\* outside of it (router.py, agent_invocation.py, get_db_context), leave the threads
\* that ExchangeLog allows: a chat's exchanges come one after the other, each whole
\* and given all that was there, in the one conversation of the chat.
THEOREM ImplementsLog == Spec => LogRefined
BY LogStarts, LogSteps, LogInvInit, LogInvStep, PTL DEF Spec, LogRefined, Log!LogSpec

-----------------------------------------------------------------------------
(* The rate limit.  An identity's bucket counts at least the messages that  *)
(* were admitted in its window, and none of them is later than the window   *)
(* allows, so that a new window begins with none.                           *)

Limit == IF Rpm = 0 THEN 1 ELSE Rpm

Admissions(i) == {m \in Msg : who[m] = i /\ admitted[m] \in bucket[i].start .. clock}

\* A message that is not past the check was not admitted.
Unadmitted ==
  \A m \in Msg :
    /\ pc[m] \in Before \ {"prompt"} => admitted[m] = None
    /\ admitted[m] # None => admitted[m] <= clock

InWindow(i) ==
  /\ bucket[i].start <= clock /\ bucket[i].count <= Limit
  /\ \A m \in Admissions(i) : admitted[m] < bucket[i].start + Window
  /\ IsFiniteSet(Admissions(i)) /\ Cardinality(Admissions(i)) <= bucket[i].count

RateInv == TypeInv /\ Unadmitted /\ \A i \in Msg : InWindow(i)

\* A bucket nothing happens to: the same messages are admitted in it.
LEMMA SameWindow ==
  ASSUME NEW i \in Msg, InWindow(i), bucket'[i] = bucket[i], clock' >= clock,
         clock \in Nat, clock' \in Nat, bucket[i].start \in Nat,
         \A m \in Msg : m \in Admissions(i)' <=> m \in Admissions(i),
         \A m \in Admissions(i) : admitted'[m] = admitted[m]
  PROVE  InWindow(i)'
<1>1. Admissions(i)' = Admissions(i)
  BY DEF Admissions
<1>2. QED
  BY <1>1 DEF InWindow

\* The steps of a task that neither resolve its identity nor count it.
LEMMA Uncounted ==
  ASSUME RateInv, NEW m \in Msg, UNCHANGED <<who, admitted, bucket, clock>>,
         \A z \in Msg \ {m} : pc'[z] = pc[z],
         pc'[m] \in Before \ {"prompt"} => pc[m] \in Before \ {"prompt"}
  PROVE  Unadmitted' /\ \A i \in Msg : InWindow(i)'
<1>1. Unadmitted'
  BY DEF RateInv, Unadmitted
<1>2. ASSUME NEW i \in Msg PROVE InWindow(i)'
  BY DEF RateInv, InWindow, Admissions
<1>3. QED
  BY <1>1, <1>2

\* A task that resolves its identity was not admitted, so that no count changes.
LEMMA Identified ==
  ASSUME RateInv, NEW m \in Msg, UNCHANGED <<admitted, bucket, clock>>,
         pc[m] \in Before \ {"prompt"}, pc' \in [Msg -> Label],
         \A z \in Msg \ {m} : pc'[z] = pc[z] /\ who'[z] = who[z]
  PROVE  Unadmitted' /\ \A i \in Msg : InWindow(i)'
<1> USE RouterAssumption
<1>1. admitted[m] = None
  BY DEF RateInv, Unadmitted
<1>2. Unadmitted'
  BY <1>1 DEF RateInv, Unadmitted
<1>3. ASSUME NEW i \in Msg PROVE InWindow(i)'
  <2>1. bucket[i].start \in 0 .. MaxTime /\ clock \in 0 .. MaxTime
    BY DEF RateInv, TypeInv, TypeOK
  <2>2. None \notin bucket[i].start .. clock
    BY <2>1
  <2>3. \A z \in Msg : z \in Admissions(i)' <=> z \in Admissions(i)
    BY <1>1, <2>2 DEF Admissions
  <2>4. QED
    BY <2>1, <2>3, SameWindow DEF RateInv
<1>4. QED
  BY <1>2, <1>3

\* The check admits a message into the running window or into a new one.
LEMMA Counting ==
  ASSUME RateInv, NEW m \in Msg, CheckRate(m), ~(Running(bucket[who[m]]) /\ OverLimit(bucket[who[m]]))
  PROVE  Unadmitted' /\ \A i \in Msg : InWindow(i)'
<1> USE RouterAssumption
<1> DEFINE b == bucket[who[m]]
           n == IF Running(b) THEN Counted(b) ELSE [count |-> 1, start |-> clock]
<1>1. /\ who[m] \in Msg /\ b.count \in Nat /\ b.start \in 0 .. MaxTime /\ clock \in 0 .. MaxTime
      /\ pc[m] = "rate" /\ pc' = [pc EXCEPT ![m] = "prompt"]
      /\ UNCHANGED <<clock, who>>
      /\ admitted' = [admitted EXCEPT ![m] = clock]
      /\ bucket' = [bucket EXCEPT ![who[m]] = n]
    BY DEF CheckRate, Goto, RateInv, TypeInv, TypeOK, Inside
<1>2. admitted[m] = None
  BY <1>1 DEF RateInv, Unadmitted, Before
<1>3. /\ admitted'[m] = clock /\ \A z \in Msg \ {m} : admitted'[z] = admitted[z]
      /\ bucket'[who[m]] = n /\ \A i \in Msg \ {who[m]} : bucket'[i] = bucket[i]
  BY <1>1 DEF RateInv, TypeInv, TypeOK
<1> HIDE DEF n
<1>4. Unadmitted'
  <2> SUFFICES ASSUME NEW z \in Msg
               PROVE  /\ pc'[z] \in Before \ {"prompt"} => admitted'[z] = None
                      /\ admitted'[z] # None => admitted'[z] <= clock'
    BY DEF Unadmitted
  <2>1. CASE z = m
    BY <1>1, <1>3, <2>1 DEF RateInv, TypeInv, TypeOK
  <2>2. CASE z # m
    BY <1>1, <1>3, <2>2 DEF RateInv, Unadmitted
  <2>3. QED
    BY <2>1, <2>2
<1>5. ASSUME NEW i \in Msg, i # who[m] PROVE InWindow(i)'
  <2>1. bucket'[i] = bucket[i] /\ bucket[i].start \in 0 .. MaxTime
    BY <1>3, <1>5 DEF RateInv, TypeInv, TypeOK
  <2>2. \A z \in Msg : z \in Admissions(i)' <=> z \in Admissions(i)
    BY <1>1, <1>3, <1>5, <2>1 DEF Admissions
  <2>3. m \notin Admissions(i)
    BY <1>5 DEF Admissions
  <2>4. QED
    BY <1>1, <1>3, <2>1, <2>2, <2>3, SameWindow DEF RateInv, Admissions
<1>6. ASSUME NEW i \in Msg, i = who[m] PROVE InWindow(i)'
  <2>1. /\ b.start <= clock /\ b.count <= Limit
        /\ \A z \in Admissions(i) : admitted[z] < b.start + Window
        /\ IsFiniteSet(Admissions(i)) /\ Cardinality(Admissions(i)) <= b.count
    BY <1>6 DEF RateInv, InWindow
  <2>2. m \notin Admissions(i)
    <3>1. None \notin b.start .. clock
      BY <1>1
    <3>2. QED
      BY <1>2, <3>1 DEF Admissions
  <2>3. Cardinality(Admissions(i)) \in Nat
    BY <2>1, FS_CardinalityType
  <2>4. CASE Running(b)
    <3>1. n.count = b.count + 1 /\ n.start = b.start
      BY <2>4, <1>1 DEF n, Counted, RateInv, TypeInv, TypeOK
    <3>2. b.count + 1 <= Limit
      BY <1>1, <2>4 DEF OverLimit, Limit
    <3>3. Admissions(i)' = Admissions(i) \cup {m}
      BY <1>1, <1>3, <1>6, <2>1, <3>1 DEF Admissions
    <3>4. /\ IsFiniteSet(Admissions(i) \cup {m})
          /\ Cardinality(Admissions(i) \cup {m}) = Cardinality(Admissions(i)) + 1
      BY <2>1, <2>2, FS_AddElement
    <3>5. clock < b.start + Window
      BY <1>1, <2>1, <2>4 DEF Running
    <3>6. \A z \in Admissions(i) \cup {m} : admitted'[z] < b.start + Window
      BY <1>3, <2>1, <2>2, <3>5 DEF Admissions
    <3>7. QED
      BY <1>1, <1>3, <1>6, <2>1, <2>3, <3>1, <3>2, <3>3, <3>4, <3>6 DEF InWindow
  <2>5. CASE ~Running(b)
    <3>1. n.count = 1 /\ n.start = clock
      BY <2>5 DEF n
    <3>2. \A z \in Msg \ {m} : who[z] = i => admitted[z] # clock
      <4> SUFFICES ASSUME NEW z \in Msg \ {m}, who[z] = i, admitted[z] = clock
                   PROVE  FALSE
        OBVIOUS
      <4>1. z \in Admissions(i)
        <5>1. admitted[z] \in bucket[i].start .. clock
          BY <1>1, <1>6, <2>1
        <5>2. QED
          BY <5>1 DEF Admissions
      <4>2. b.count # 0
        <5>1. ASSUME b.count = 0 PROVE FALSE
          <6>1. Cardinality(Admissions(i)) = 0
            BY <2>1, <2>3, <5>1
          <6>2. Admissions(i) = {}
            BY <2>1, <6>1, FS_EmptySet
          <6>3. QED
            BY <4>1, <6>2
        <5>2. QED
          BY <5>1
      <4>3. clock < b.start + Window
        BY <2>1, <4>1
      <4>4. QED
        BY <1>1, <2>1, <2>5, <4>2, <4>3 DEF Running
    <3>3. Admissions(i)' = {m}
      <4>1. \A z \in Msg : z \in Admissions(i)' <=> who[z] = i /\ admitted'[z] \in clock .. clock
        BY <1>1, <1>3, <1>6, <3>1 DEF Admissions
      <4>2. \A z \in Msg : z \in Admissions(i)' <=> z = m
        BY <1>1, <1>3, <1>6, <3>2, <4>1
      <4>3. QED
        BY <4>2 DEF Admissions
    <3>4. IsFiniteSet({m}) /\ Cardinality({m}) = 1
      BY FS_Singleton
    <3>5. 1 <= Limit
      BY DEF Limit
    <3>6. QED
      BY <1>1, <1>3, <1>6, <3>1, <3>3, <3>4, <3>5 DEF InWindow
  <2>6. QED
    BY <2>4, <2>5
<1>7. QED
  BY <1>4, <1>5, <1>6

LEMMA RateStep == RateInv /\ [Next]_vars => RateInv'
<1> SUFFICES ASSUME RateInv, [Next]_vars PROVE RateInv'
  OBVIOUS
<1> DEFINE Kept == Unadmitted' /\ \A i \in Msg : InWindow(i)'
<1> USE RouterAssumption
<1>type. TypeInv /\ TypeInv' /\ pc \in [Msg -> Label] /\ pc' \in [Msg -> Label]
  BY TypeStep DEF RateInv, TypeInv, TypeOK, Label
<1>1. ASSUME NEW m \in Msg,
             \/ Arrive(m) \/ Acquire(m) \/ Refuse(m) \/ Admit(m) \/ FindToRenew(m) \/ Renew(m)
             \/ RequireLink(m) \/ FindSession(m) \/ AddSession(m) \/ PersistPrompt(m)
             \/ LoadHistory(m) \/ PersistReply(m) \/ SendReply(m) \/ Break(m)
             \/ Commit(m) \/ RollBack(m)
      PROVE  Kept
  <2>1. UNCHANGED <<who, admitted, bucket, clock>>
    BY <1>1 DEF Arrive, Acquire, Refuse, Admit, FindToRenew, Renew, RequireLink, FindSession,
                AddSession, PersistPrompt, LoadHistory, PersistReply, SendReply, Break, Commit,
                RollBack, Leave, Goto
  <2>2. /\ \A z \in Msg \ {m} : pc'[z] = pc[z]
        /\ pc'[m] \in Before \ {"prompt"} => pc[m] \in Before \ {"prompt"}
    BY <1>1, <1>type DEF Arrive, Acquire, Refuse, Admit, FindToRenew, Renew, RequireLink,
                FindSession, AddSession, PersistPrompt, LoadHistory, PersistReply, SendReply,
                Break, Commit, RollBack, Leave, Goto, Before
  <2>3. QED
    BY <2>1, <2>2, Uncounted
<1>2. ASSUME NEW m \in Msg, FindIdentity(m) \/ AddIdentity(m) PROVE Kept
  <2>1. /\ pc[m] \in Before \ {"prompt"} /\ UNCHANGED <<admitted, bucket, clock>>
        /\ \A z \in Msg \ {m} : pc'[z] = pc[z] /\ who'[z] = who[z]
    BY <1>2, <1>type DEF FindIdentity, AddIdentity, Leave, Goto, Before, TypeInv, TypeOK
  <2>2. QED
    BY <1>type, <2>1, Identified
<1>3. ASSUME NEW m \in Msg, CheckRate(m) PROVE Kept
  <2>1. CASE Running(bucket[who[m]]) /\ OverLimit(bucket[who[m]])
    <3>1. /\ UNCHANGED <<who, admitted, bucket, clock>>
          /\ pc' = [pc EXCEPT ![m] = "commit"]
      BY <1>3, <2>1 DEF CheckRate, Leave, Goto
    <3>2. QED
      BY <1>type, <3>1, Uncounted DEF Before
  <2>2. CASE ~(Running(bucket[who[m]]) /\ OverLimit(bucket[who[m]]))
    BY <1>3, <2>2, Counting
  <2>3. QED
    BY <2>1, <2>2
<1>4. ASSUME Deactivate PROVE Kept
  <2>1. UNCHANGED <<pc, who, admitted, bucket, clock>>
    BY <1>4 DEF Deactivate, taskVars
  <2>2. QED
    BY <2>1 DEF RateInv, Unadmitted, InWindow, Admissions
<1>5. ASSUME Tick PROVE Kept
  <2>1. UNCHANGED <<pc, who, admitted, bucket>> /\ clock' = clock + 1
    BY <1>5 DEF Tick, taskVars
  <2>2. /\ clock \in Nat /\ clock' \in Nat /\ clock' >= clock
        /\ \A i \in Msg : bucket[i].start \in 0 .. MaxTime
    BY <1>type, <2>1 DEF TypeInv, TypeOK
  <2>3. \A m \in Msg : admitted[m] # None => admitted[m] \in Nat /\ admitted[m] <= clock
    BY <1>type DEF RateInv, Unadmitted, TypeInv, TypeOK
  <2>4. Unadmitted'
    BY <2>1, <2>2, <2>3 DEF RateInv, Unadmitted
  <2>5. ASSUME NEW i \in Msg PROVE InWindow(i)'
    <3>1. None \notin bucket[i].start .. clock'
      BY <1>type, <2>2 DEF TypeInv, TypeOK
    <3>2. \A m \in Msg : m \in Admissions(i)' <=> m \in Admissions(i)
      BY <2>1, <2>2, <2>3, <3>1 DEF Admissions
    <3>3. QED
      BY <2>1, <2>2, <3>2, SameWindow DEF RateInv
  <2>6. QED
    BY <2>4, <2>5
<1>6. ASSUME UNCHANGED vars PROVE Kept
  <2>1. UNCHANGED <<pc, who, admitted, bucket, clock>>
    BY <1>6 DEF vars, taskVars
  <2>2. QED
    BY <2>1 DEF RateInv, Unadmitted, InWindow, Admissions
<1> HIDE DEF Kept
<1>7. Kept
  BY <1>1, <1>2, <1>3, <1>4, <1>5, <1>6 DEF Next, Step, Runs
<1>8. QED
  BY <1>type, <1>7 DEF RateInv, Kept

LEMMA RateInit == Init => RateInv
<1> SUFFICES ASSUME Init PROVE RateInv
  OBVIOUS
<1> USE RouterAssumption
<1>1. TypeInv /\ Unadmitted
  BY TypeInit DEF Init, Unadmitted
<1>2. ASSUME NEW i \in Msg PROVE InWindow(i)
  <2>1. Admissions(i) = {}
    BY DEF Init, Admissions
  <2>2. IsFiniteSet({}) /\ Cardinality({}) = 0
    BY FS_EmptySet
  <2>3. bucket[i].count = 0 /\ bucket[i].start = 0 /\ clock = 0
    BY DEF Init
  <2>4. QED
    BY <2>1, <2>2, <2>3 DEF InWindow, Limit
<1>3. QED
  BY <1>1, <1>2 DEF RateInv

\* Whatever limit is configured and however messages arrive, the window that an
\* identity's bucket is in has had no more of its messages than the limit, or
\* the one that a limit of zero lets through (_check_rate_limit).
THEOREM WindowsBounded == Spec => []WindowBound
<1>1. RateInv => WindowBound
  <2> SUFFICES ASSUME RateInv, NEW i \in Msg
               PROVE  Cardinality(Admissions(i)) <= Limit
    BY DEF WindowBound, Admissions, Limit
  <2>1. /\ IsFiniteSet(Admissions(i)) /\ Cardinality(Admissions(i)) <= bucket[i].count
        /\ bucket[i].count <= Limit /\ bucket[i].count \in Nat
    BY DEF RateInv, InWindow, TypeInv, TypeOK
  <2>2. Cardinality(Admissions(i)) \in Nat
    BY <2>1, FS_CardinalityType
  <2>3. QED
    BY <2>1, <2>2, RouterAssumption DEF Limit
<1>2. QED
  BY <1>1, RateInit, RateStep, PTL DEF Spec
=============================================================================
