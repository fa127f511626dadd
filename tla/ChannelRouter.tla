---------------------------- MODULE ChannelRouter ----------------------------
(***************************************************************************)
(* Messages of chat platforms (services/channels/router.py): each one is   *)
(* routed by a task of its own, with a database transaction of its own     *)
(* (worker/background/channel.py), under a lock per bot and chat.  The     *)
(* lock is left before the transaction commits.                            *)
(*                                                                         *)
(* One bot.  A message that creates an identity or a conversation gives    *)
(* its name to it.  Transactions read what is committed and what they      *)
(* wrote themselves; an insert whose key another open transaction holds    *)
(* waits for it, as PostgreSQL's unique indexes do.                        *)
(***************************************************************************)
EXTENDS Naturals, FiniteSets, Sequences

CONSTANTS
  Msg,      \* incoming messages
  Chat,     \* platform chats
  User,     \* platform users
  ChatOf,   \* the chat of every message
  UserOf,   \* its sender
  Renews,   \* the messages that are the command /new
  Rpm,      \* rate_limit_rpm
  Window,   \* 60 seconds, in ticks of the clock
  MaxTime,  \* bound: the last tick
  None

ASSUME RouterAssumption ==
  /\ ChatOf \in [Msg -> Chat]
  /\ UserOf \in [Msg -> User]
  /\ Renews \subseteq Msg
  /\ {Rpm, Window, MaxTime} \subseteq Nat
  /\ Window > 0
  /\ None \notin Msg
  /\ None \notin 0 .. MaxTime

VARIABLES
  (* Committed rows. *)
  active,    \* the bot's is_active
  identity,  \* channel_identities: the identity of every user
  session,   \* channel_sessions: the conversation of every chat
  rows,      \* the messages of every conversation
  (* The process. *)
  queue,     \* _chat_locks: the holder of every chat's lock, then the waiters
  bucket,    \* _rate_buckets
  clock,
  (* Every task and its transaction. *)
  pc,
  who,       \* the identity it resolved
  conv,      \* the conversation of the session it resolved
  writes,    \* what its transaction has written
  seen,      \* the history it gave to the agent
  (* Observation. *)
  admitted   \* the window every message was admitted in

taskVars == <<pc, who, conv, writes, seen>>
dbVars   == <<active, identity, session, rows>>
vars     == <<dbVars, queue, bucket, clock, taskVars, admitted>>

\* Where a task holds the lock, and where its identity and session are resolved.
Open   == {"bot", "command", "renew", "identity", "addIdentity", "session", "addSession",
           "rate", "prompt", "history", "agent", "reply"}
Inside == {"rate", "prompt", "history", "agent", "reply"}
Undone == Open \cup {"commit", "rollback"}
Ended  == {"done", "failed"}

\* What a transaction can have written.
Write == {"identity", "session", "renewed", "user", "assistant"}
Row   == [role : {"user", "assistant"}, msg : Msg]

TypeOK ==
  /\ active \in BOOLEAN
  /\ identity \in [User -> Msg \cup {None}]
  /\ session \in [Chat -> Msg \cup {None}]
  /\ rows \in [Msg -> SUBSET Row]
  /\ queue \in [Chat -> Seq(Msg)]
  /\ bucket \in [Msg -> [count : Nat, start : 0 .. MaxTime]]
  /\ clock \in 0 .. MaxTime
  /\ pc \in [Msg -> {"new", "waiting"} \cup Undone \cup Ended]
  /\ who \in [Msg -> Msg \cup {None}]
  /\ conv \in [Msg -> Msg \cup {None}]
  /\ writes \in [Msg -> SUBSET Write]
  /\ seen \in [Msg -> SUBSET Row]
  /\ admitted \in [Msg -> (0 .. MaxTime) \cup {None}]
  /\ \A m \in Msg : pc[m] \in {"session", "addSession"} \cup Inside => who[m] # None
  /\ \A m \in Msg : pc[m] \in Inside => conv[m] # None

Goto(m, l) == pc' = [pc EXCEPT ![m] = l]

-----------------------------------------------------------------------------
(* route *)

LockOf(m) == ChatOf[m]

Arrive(m) ==
  /\ pc[m] = "new"
  /\ Goto(m, "waiting")
  /\ queue' = [queue EXCEPT ![LockOf(m)] = Append(@, m)]
  /\ UNCHANGED <<dbVars, bucket, clock, who, conv, writes, seen, admitted>>

AcquireAnyway(m) ==
  /\ pc[m] = "waiting"
  /\ Goto(m, "bot")
  /\ UNCHANGED <<dbVars, queue, bucket, clock, who, conv, writes, seen, admitted>>

Acquire(m) ==
  /\ pc[m] = "waiting"
  /\ queue[LockOf(m)] # <<>>
  /\ Head(queue[LockOf(m)]) = m
  /\ Goto(m, "bot")
  /\ UNCHANGED <<dbVars, queue, bucket, clock, who, conv, writes, seen, admitted>>

LeaveHeld(m, l) == Goto(m, l) /\ UNCHANGED queue

\* Leaving the lock: normally to commit, after an exception to roll back.
Leave(m, l) ==
  /\ Goto(m, l)
  /\ queue' = [queue EXCEPT ![LockOf(m)] = Tail(@)]

-----------------------------------------------------------------------------
(* _route_inner *)

\* The bot is inactive or its access policy denies the sender, or the message
\* is a command that writes nothing.
Refuse(m) ==
  /\ pc[m] = "bot"
  /\ Leave(m, "commit")
  /\ UNCHANGED <<dbVars, bucket, clock, who, conv, writes, seen, admitted>>

Admit(m) ==
  /\ pc[m] = "bot"
  /\ active
  /\ Goto(m, IF m \in Renews THEN "command" ELSE "identity")
  /\ UNCHANGED <<dbVars, queue, bucket, clock, who, conv, writes, seen, admitted>>

\* /new looks the session up; without one there is nothing to renew, and the
\* reply is the same.
FindToRenew(m) ==
  /\ pc[m] = "command"
  /\ IF session[ChatOf[m]] = None THEN Leave(m, "commit")
     ELSE Goto(m, "renew") /\ UNCHANGED queue
  /\ UNCHANGED <<dbVars, bucket, clock, who, conv, writes, seen, admitted>>

\* Another open transaction that has written a row this one is about to write.
Blocked(m, same, write) ==
  \E z \in Msg \ {m} :
    /\ pc[z] \in Undone /\ write \in writes[z] /\ same[z] = same[m]

Renew(m) ==
  /\ pc[m] = "renew"
  /\ ~Blocked(m, ChatOf, "renewed")
  /\ writes' = [writes EXCEPT ![m] = @ \cup {"renewed"}]
  /\ conv' = [conv EXCEPT ![m] = m]
  /\ Leave(m, "commit")
  /\ UNCHANGED <<dbVars, bucket, clock, who, seen, admitted>>

\* _resolve_identity
FindIdentity(m) ==
  /\ pc[m] = "identity"
  /\ who' = [who EXCEPT ![m] = identity[UserOf[m]]]
  /\ Goto(m, IF identity[UserOf[m]] = None THEN "addIdentity" ELSE "session")
  /\ UNCHANGED <<dbVars, queue, bucket, clock, conv, writes, seen, admitted>>

AddIdentity(m) ==
  /\ pc[m] = "addIdentity"
  /\ ~Blocked(m, UserOf, "identity")
  /\ IF identity[UserOf[m]] # None
     THEN Leave(m, "rollback") /\ UNCHANGED <<who, writes>>
     ELSE /\ who' = [who EXCEPT ![m] = m]
          /\ writes' = [writes EXCEPT ![m] = @ \cup {"identity"}]
          /\ Goto(m, "session")
          /\ UNCHANGED queue
  /\ UNCHANGED <<dbVars, bucket, clock, conv, seen, admitted>>

\* The policy is jwt_linked and nobody has linked this identity.
RequireLink(m) ==
  /\ pc[m] = "session"
  /\ Leave(m, "commit")
  /\ UNCHANGED <<dbVars, bucket, clock, who, conv, writes, seen, admitted>>

\* _resolve_session
FindSessionUnchecked(m) ==
  /\ pc[m] = "session"
  /\ conv' = [conv EXCEPT ![m] = session[ChatOf[m]]]
  /\ Goto(m, "rate")
  /\ UNCHANGED <<dbVars, queue, bucket, clock, who, writes, seen, admitted>>

FindSession(m) ==
  /\ pc[m] = "session"
  /\ conv' = [conv EXCEPT ![m] = session[ChatOf[m]]]
  /\ Goto(m, IF session[ChatOf[m]] = None THEN "addSession" ELSE "rate")
  /\ UNCHANGED <<dbVars, queue, bucket, clock, who, writes, seen, admitted>>

AddSessionOrReplace(m) ==
  /\ pc[m] = "addSession"
  /\ ~Blocked(m, ChatOf, "session")
  /\ conv' = [conv EXCEPT ![m] = m]
  /\ writes' = [writes EXCEPT ![m] = @ \cup {"session"}]
  /\ Goto(m, "rate")
  /\ UNCHANGED <<dbVars, queue, bucket, clock, who, seen, admitted>>

AddSession(m) ==
  /\ pc[m] = "addSession"
  /\ ~Blocked(m, ChatOf, "session")
  /\ IF session[ChatOf[m]] # None
     THEN Leave(m, "rollback") /\ UNCHANGED <<conv, writes>>
     ELSE /\ conv' = [conv EXCEPT ![m] = m]
          /\ writes' = [writes EXCEPT ![m] = @ \cup {"session"}]
          /\ Goto(m, "rate")
          /\ UNCHANGED queue
  /\ UNCHANGED <<dbVars, bucket, clock, who, seen, admitted>>

\* _check_rate_limit
Counted(b) == [b EXCEPT !.count = @ + 1]

OverLimitByOne(b) == b.count > Rpm

OverLimit(b) == b.count >= Rpm

Running(b) == b.count > 0 /\ clock - b.start < Window

CheckRate(m) ==
  LET b == bucket[who[m]] IN
  /\ pc[m] = "rate"
  /\ IF Running(b) /\ OverLimit(b)
     THEN Leave(m, "commit") /\ UNCHANGED <<bucket, admitted>>
     ELSE /\ bucket' = [bucket EXCEPT ![who[m]] =
                          IF Running(b) THEN Counted(b) ELSE [count |-> 1, start |-> clock]]
          /\ admitted' = [admitted EXCEPT ![m] = clock]
          /\ Goto(m, "prompt")
          /\ UNCHANGED queue
  /\ UNCHANGED <<dbVars, clock, who, conv, writes, seen>>

-----------------------------------------------------------------------------
(* AgentInvocationService.invoke.  An exception here is answered with an    *)
(* apology, and the transaction it broke cannot commit.                     *)

PersistPromptAtOnce(m) ==
  /\ pc[m] = "prompt"
  /\ writes' = [writes EXCEPT ![m] = @ \cup {"user"}]
  /\ Goto(m, "history")
  /\ UNCHANGED <<dbVars, queue, bucket, clock, who, conv, seen, admitted>>

\* create_message also sets the conversation's updated_at, so it waits for the
\* transaction that has last written to this conversation.
PersistPrompt(m) ==
  /\ pc[m] = "prompt"
  /\ ~Blocked(m, conv, "user")
  /\ writes' = [writes EXCEPT ![m] = @ \cup {"user"}]
  /\ Goto(m, "history")
  /\ UNCHANGED <<dbVars, queue, bucket, clock, who, conv, seen, admitted>>

Own(m) == {[role |-> r, msg |-> m] : r \in writes[m] \cap {"user", "assistant"}}

\* get_messages_by_conversation, whose limit of 200 no instance reaches.
LoadHistory(m) ==
  /\ pc[m] = "history"
  /\ seen' = [seen EXCEPT ![m] = rows[conv[m]] \cup Own(m)]
  /\ Goto(m, "agent")
  /\ UNCHANGED <<dbVars, queue, bucket, clock, who, conv, writes, admitted>>

\* The agent answers, or the apology for its failure is stored instead.
PersistReply(m) ==
  /\ pc[m] = "agent"
  /\ writes' = [writes EXCEPT ![m] = @ \cup {"assistant"}]
  /\ Goto(m, "reply")
  /\ UNCHANGED <<dbVars, queue, bucket, clock, who, conv, seen, admitted>>

\* A reply that cannot be sent is logged.
SendReply(m) ==
  /\ pc[m] = "reply"
  /\ Leave(m, "commit")
  /\ UNCHANGED <<dbVars, bucket, clock, who, conv, writes, seen, admitted>>

\* A statement fails, or the process ends the task.
Break(m) ==
  /\ pc[m] \in Open
  /\ Leave(m, "rollback")
  /\ UNCHANGED <<dbVars, bucket, clock, who, conv, writes, seen, admitted>>

-----------------------------------------------------------------------------
(* get_db_context *)

Commit(m) ==
  /\ pc[m] = "commit"
  /\ identity' = [u \in User |->
       IF "identity" \in writes[m] /\ UserOf[m] = u THEN m ELSE identity[u]]
  /\ session' = [c \in Chat |->
       IF {"session", "renewed"} \cap writes[m] # {} /\ ChatOf[m] = c THEN m ELSE session[c]]
  /\ rows' = [c \in Msg |-> IF c = conv[m] THEN rows[c] \cup Own(m) ELSE rows[c]]
  /\ Goto(m, "done")
  /\ UNCHANGED <<active, queue, bucket, clock, who, conv, writes, seen, admitted>>

\* After an exception, or because the commit itself fails.
RollBack(m) ==
  /\ pc[m] \in {"commit", "rollback"}
  /\ Goto(m, "failed")
  /\ writes' = [writes EXCEPT ![m] = {}]
  /\ UNCHANGED <<dbVars, queue, bucket, clock, who, conv, seen, admitted>>

-----------------------------------------------------------------------------
\* An administrator switches the bot off.
Deactivate ==
  /\ active
  /\ active' = FALSE
  /\ UNCHANGED <<identity, session, rows, queue, bucket, clock, taskVars, admitted>>

Tick ==
  /\ clock < MaxTime
  /\ clock' = clock + 1
  /\ UNCHANGED <<dbVars, queue, bucket, taskVars, admitted>>

Init ==
  /\ active = TRUE
  /\ identity = [u \in User |-> None]
  /\ session = [c \in Chat |-> None]
  /\ rows = [c \in Msg |-> {}]
  /\ queue = [c \in Chat |-> <<>>]
  /\ bucket = [m \in Msg |-> [count |-> 0, start |-> 0]]
  /\ clock = 0
  /\ pc = [m \in Msg |-> "new"]
  /\ who = [m \in Msg |-> None]
  /\ conv = [m \in Msg |-> None]
  /\ writes = [m \in Msg |-> {}]
  /\ seen = [m \in Msg |-> {}]
  /\ admitted = [m \in Msg |-> None]

\* What the task does of itself: nothing while it waits for a lock or a row.
Runs(m) ==
  \/ Acquire(m) \/ Refuse(m) \/ Admit(m) \/ FindToRenew(m) \/ Renew(m)
  \/ FindIdentity(m) \/ AddIdentity(m) \/ RequireLink(m) \/ FindSession(m) \/ AddSession(m)
  \/ CheckRate(m) \/ PersistPrompt(m) \/ LoadHistory(m) \/ PersistReply(m)
  \/ SendReply(m) \/ Commit(m) \/ RollBack(m)

Step(m) == Runs(m) \/ Break(m)

Next ==
  \/ \E m \in Msg : Arrive(m) \/ Step(m)
  \/ Deactivate
  \/ Tick

Spec == Init /\ [][Next]_vars

\* The event loop runs every task that is not waiting for a lock or a row.  One that
\* waits is not made to fail: neither the lock nor a statement has a timeout.
Fairness == \A m \in Msg : WF_vars(Runs(m))

FairSpec == Spec /\ Fairness

-----------------------------------------------------------------------------
(* Properties *)

\* One message of a chat at a time is inside the lock, so that no two agent
\* calls of a chat interleave (_chat_locks).
AgentCallsSerial ==
  \A m, z \in Msg :
    (pc[m] \in Open /\ pc[z] \in Open /\ ChatOf[m] = ChatOf[z]) => m = z

\* A conversation has the messages of one chat, and of a chat whose session
\* exists: either it is the session's conversation, or /new has replaced it.
\* Two messages that both found no session never make two conversations.
OneThreadPerChat ==
  \A c, m \in Msg :
    (\E r \in rows[c] : r.msg = m) =>
      /\ ChatOf[m] = ChatOf[c]
      /\ session[ChatOf[c]] \in {c} \cup Renews

\* A prompt is stored exactly when its answer is, whatever fails in between
\* (get_db_context commits the task's writes together).
ExchangesAreWhole ==
  \A c, m \in Msg :
    [role |-> "user", msg |-> m] \in rows[c] <=> [role |-> "assistant", msg |-> m] \in rows[c]

\* The agent is given every exchange that was routed before in its thread,
\* although the lock is left before the commit (create_message, _load_history).
HistoryIsComplete ==
  \A m, z \in Msg :
    (pc[m] = "agent" /\ z # m /\ pc[z] = "done" /\ conv[z] = conv[m]) => Own(z) \subseteq seen[m]

\* A thread has whole exchanges, all of them when the agent is given it, and those
\* of one chat.
ThreadsAreWhole == ExchangesAreWhole /\ HistoryIsComplete /\ OneThreadPerChat

\* ChannelRouter keeps the promises of ExchangeLog: its transactions, which begin
\* inside the lock and end outside of it, come one after the other.
Made  == {m \in Msg : pc[m] = "done" /\ {"session", "renewed"} \cap writes[m] # {}}
Given == [m \in Msg |-> IF pc[m] = "done" THEN seen[m] \ Own(m) ELSE {}]
Log   == INSTANCE ExchangeLog WITH made <- Made, thread <- session, log <- rows, given <- Given
LogRefined == Log!LogSpec

\* In the running window an identity has had at most rate_limit_rpm messages
\* admitted, and one if that is zero (_check_rate_limit).
WindowBound ==
  \A i \in Msg :
    Cardinality({m \in Msg : who[m] = i /\ admitted[m] \in bucket[i].start .. clock})
      <= IF Rpm = 0 THEN 1 ELSE Rpm

\* A routed message is answered, refused or rolled back, although no failure comes
\* to the rescue of a task that waits: no lock or row is waited for forever.
TasksEnd == \A m \in Msg : (pc[m] = "waiting") ~> (pc[m] \in Ended)

\* Said at router.py:36: the lock prevents "Duplicate ChannelSession creation
\* (DB constraint violation)".
NoDuplicateSession ==
  \A m \in Msg : pc[m] = "addSession" => session[ChatOf[m]] = None

\* Said at router.py:210: "/new" starts a new conversation.  The messages that
\* are routed after it are not stored in the old one.
ThreadIsCurrent ==
  \A m \in Msg :
    pc[m] \in Inside =>
      session[ChatOf[m]] \in {conv[m], None}

\* Said at agent_invocation.py:65: the history excludes "the message we just
\* added to avoid duplication".
PromptGivenOnce ==
  \A m \in Msg : \A r \in seen[m] : r.msg # m

\* Said at router.py:335: "token-bucket", "10 req/minute".  No span of one
\* window has more than rate_limit_rpm messages of an identity.
RpmInAnyWindow ==
  \A i \in Msg, t \in 0 .. MaxTime :
    Cardinality({m \in Msg : who[m] = i /\ admitted[m] \in t .. (t + Window - 1)})
      <= IF Rpm = 0 THEN 1 ELSE Rpm
=============================================================================
