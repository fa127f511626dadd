------------------------------ MODULE Workspace ------------------------------
(***************************************************************************)
(* Requests on stored conversations, side by side: creating, changing and  *)
(* deleting one, sharing it, rating its answer, deleting a user, and the   *)
(* administrator's export (services/conversation.py,                       *)
(* services/conversation_share.py, services/message_rating.py,             *)
(* services/user.py).                                                      *)
(*                                                                         *)
(* A request is one transaction of READ COMMITTED: it reads what it        *)
(* decides by, then flushes one write, which waits for the open writes it  *)
(* conflicts with, and commits when it ends.  A conversation is a number,  *)
(* its place by (created_at, id); it has one answer, and only its owner    *)
(* rates it.                                                               *)
(***************************************************************************)
EXTENDS Naturals, Sequences, FiniteSets

CONSTANTS
  Request,   \* requests
  MaxConvs,  \* bounds the conversations
  User,      \* users
  OwnerOf,   \* the owner of every conversation
  Chunk      \* EXPORT_CHUNK_SIZE

Conv == 1..MaxConvs

ASSUME WorkspaceAssumption ==
  /\ MaxConvs \in Nat /\ Chunk \in Nat \ {0}
  /\ User # {} /\ OwnerOf \in [Conv -> User]
  /\ {"none", "old"} \cap Request = {}

VARIABLES
  users,     \* the users
  convs,     \* the conversations
  created,   \* those that have been created
  rating,    \* the rating of every answer by its owner
  shares,    \* who every conversation is shared with
  req,       \* the requests: what they do, how far they are
  cursor,    \* the last conversation the export has seen
  exported,  \* what it has exported
  base       \* the conversations there were when it began

dbVars == <<users, convs, created, rating, shares>>
exportVars == <<cursor, exported, base>>
vars == <<users, convs, created, rating, shares, req, cursor, exported, base>>

Kind   == {"create", "patch", "delete", "rate", "unrate", "share", "revoke", "deleteUser"}
Value  == {"like", "dislike"}
Beyond == MaxConvs + 1

\* A row is named by the request that inserted it, or is old.
Row      == Request \cup {"old"}
Rating   == [value : Value, row : Row]
NoRating == [value |-> "none", row |-> "none"]
Share    == [conv : Conv, user : User, row : Row]

TypeOK ==
  /\ users \subseteq User /\ convs \subseteq created /\ created \subseteq Conv
  /\ rating \in [Conv -> Rating \cup {NoRating}]
  /\ shares \subseteq Share
  /\ req \in [Request ->
       [kind : Kind \cup {"none"}, conv : Conv \cup {0}, user : User, value : Value \cup {"none"},
        row : Row \cup {"none"},
        at : {"new", "read", "insert", "update", "again", "open", "ok", "refused", "failed"}]]
  /\ \A r \in Request :
       req[r].at = "update" /\ req[r].kind \in {"rate", "unrate", "revoke"} =>
         req[r].row \in Row
  /\ cursor \in 0..Beyond
  /\ exported \in Seq(Conv) /\ base \subseteq Conv

-----------------------------------------------------------------------------
(* Transactions *)

At(r, l) == req[r].at = l

Move(r, l) == req' = [req EXCEPT ![r].at = l]

\* The conversations a request deletes, its own or those of the user.
Deletes(q) ==
  CASE q.kind = "delete"     -> {q.conv}
    [] q.kind = "deleteUser" -> {c \in Conv : OwnerOf[c] = q.user}
    [] OTHER                 -> {}

\* The unique keys, the rows and the foreign keys over which one open write
\* makes another wait.
Conflict(p, q) ==
  \/ /\ p.conv = q.conv
     /\ {p.kind, q.kind} \subseteq {"rate", "unrate"} \/ p.kind = q.kind
  \/ p.conv = q.conv /\ p.user = q.user /\ {p.kind, q.kind} \subseteq {"share", "revoke"}
  \/ p.conv \in Deletes(q) \/ q.conv \in Deletes(p)
  \/ Deletes(p) \cap Deletes(q) # {}
  \/ p.user = q.user /\ "deleteUser" \in {p.kind, q.kind}

\* The write of r can be flushed.
Free(r) == \A q \in Request \ {r} : At(q, "open") => ~Conflict(req[r], req[q])

-----------------------------------------------------------------------------
(* The requests *)

Begin(r, k, c, u, v, w) ==
  /\ At(r, "new")
  /\ req' = [req EXCEPT ![r] =
       [kind |-> k, conv |-> c, user |-> u, value |-> v, row |-> w, at |-> "read"]]
  /\ UNCHANGED dbVars /\ UNCHANGED exportVars

Ask(r) ==
  \/ \E c \in Conv \ created :
       /\ OwnerOf[c] \in users
       /\ \A q \in Request : req[q].kind = "create" => req[q].conv # c
       /\ Begin(r, "create", c, OwnerOf[c], "none", "none")
  \/ \E c \in convs :
       \/ \E k \in {"patch", "delete", "unrate"} : Begin(r, k, c, OwnerOf[c], "none", "none")
       \/ \E v \in Value : Begin(r, "rate", c, OwnerOf[c], v, "none")
       \/ \E u \in users \ {OwnerOf[c]} : Begin(r, "share", c, u, "none", "none")
  \/ \E x \in shares : Begin(r, "revoke", x.conv, x.user, "none", x.row)
  \/ \E u \in users : Begin(r, "deleteUser", 0, u, "none", "none")

Shared(c, u) == \E x \in shares : x.conv = c /\ x.user = u

\* get_conversation and its kin, get_rating_by_message_and_user, get_share,
\* get_by_id: not found, already there, or on to the write.
Read(r) ==
  LET c == req[r].conv
      u == req[r].user
      Found == CASE req[r].kind = "create"     -> TRUE
                 [] req[r].kind = "deleteUser" -> u \in users
                 [] req[r].kind = "unrate"     -> c \in convs /\ rating[c] # NoRating
                 [] req[r].kind = "share"      -> c \in convs /\ u \in users /\ ~Shared(c, u)
                 [] req[r].kind = "revoke"     -> [conv |-> c, user |-> u, row |-> req[r].row] \in shares
                 [] OTHER                      -> c \in convs
      next == CASE ~Found -> "refused"
                 [] req[r].kind \in {"create", "share"} -> "insert"
                 [] req[r].kind = "rate" /\ rating[c] = NoRating -> "insert"
                 [] OTHER -> "update"
  IN
  /\ At(r, "read")
  /\ req' = [req EXCEPT ![r].at = next,
                        ![r].row = IF req[r].kind \in {"rate", "unrate"} THEN rating[c].row ELSE @]
  /\ UNCHANGED dbVars /\ UNCHANGED exportVars

InsertUnchecked(r) ==
  /\ At(r, "insert") /\ Free(r)
  /\ Move(r, "open")
  /\ UNCHANGED dbVars /\ UNCHANGED exportVars

\* A foreign key or a unique key that does not hold raises IntegrityError, which
\* only rate_message handles.
Insert(r) ==
  LET c == req[r].conv
      u == req[r].user
      Fits == CASE req[r].kind = "create" -> u \in users
                [] req[r].kind = "rate"   -> c \in convs /\ rating[c] = NoRating
                [] req[r].kind = "share"  -> c \in convs /\ u \in users /\ ~Shared(c, u)
  IN
  /\ At(r, "insert") /\ Free(r)
  /\ Move(r, IF Fits THEN "open" ELSE IF req[r].kind = "rate" THEN "again" ELSE "failed")
  /\ UNCHANGED dbVars /\ UNCHANGED exportVars

AgainUnread(r) ==
  /\ At(r, "again")
  /\ Move(r, IF rating[req[r].conv] # NoRating THEN "update" ELSE "failed")
  /\ UNCHANGED dbVars /\ UNCHANGED exportVars

AgainAccepting(r) ==
  /\ At(r, "again")
  /\ Move(r, IF rating[req[r].conv] # NoRating THEN "ok" ELSE "failed")
  /\ UNCHANGED dbVars /\ UNCHANGED exportVars

\* Another request created the rating first: it is updated, or the error raised.
Again(r) ==
  LET found == rating[req[r].conv] IN
  /\ At(r, "again")
  /\ req' = [req EXCEPT ![r].at = IF found # NoRating THEN "update" ELSE "failed",
                        ![r].row = found.row]
  /\ UNCHANGED dbVars /\ UNCHANGED exportVars

\* An UPDATE of a row that has gone raises, a DELETE of one is only warned of.
Update(r) ==
  LET c == req[r].conv
      Gone == CASE req[r].kind = "rate"  -> rating[c].row # req[r].row
                [] req[r].kind = "patch" -> c \notin convs
                [] OTHER                 -> FALSE
  IN
  /\ At(r, "update") /\ Free(r)
  /\ Move(r, IF Gone THEN "failed" ELSE "open")
  /\ UNCHANGED dbVars /\ UNCHANGED exportVars

\* What is left without the conversations D and the users gone, ON DELETE CASCADE.
Cascade(D, gone) ==
  /\ convs' = convs \ D
  /\ users' = users \ gone
  /\ rating' = [c \in Conv |-> IF c \in D THEN NoRating ELSE rating[c]]
  /\ shares' = {x \in shares : x.conv \notin D /\ x.user \notin gone}
  /\ UNCHANGED created

\* What is left of a rating, an inserted, an updated or a deleted one.
RatingAfter(r) ==
  LET q == req[r] IN
  IF q.kind = "unrate"
  THEN IF rating[q.conv].row = q.row THEN NoRating ELSE rating[q.conv]
  ELSE [value |-> q.value, row |-> IF q.row = "none" THEN r ELSE q.row]

\* get_db_session commits when the request ends, which is what "ok" stands for; its
\* answer is out by then.
Commit(r) ==
  LET q == req[r] IN
  /\ At(r, "open")
  /\ Move(r, "ok")
  /\ CASE q.kind = "create" ->
            convs' = convs \cup {q.conv} /\ created' = created \cup {q.conv}
              /\ UNCHANGED <<users, rating, shares>>
       [] q.kind \in {"rate", "unrate"} ->
            rating' = [rating EXCEPT ![q.conv] = RatingAfter(r)]
              /\ UNCHANGED <<users, convs, created, shares>>
       [] q.kind = "share" ->
            shares' = shares \cup {[conv |-> q.conv, user |-> q.user, row |-> r]}
              /\ UNCHANGED <<users, convs, created, rating>>
       [] q.kind = "revoke" ->
            shares' = shares \ {[conv |-> q.conv, user |-> q.user, row |-> q.row]}
              /\ UNCHANGED <<users, convs, created, rating>>
       [] q.kind \in {"delete", "deleteUser"} ->
            Cascade(Deletes(q), IF q.kind = "deleteUser" THEN {q.user} ELSE {})
       [] q.kind = "patch" -> UNCHANGED dbVars
  /\ UNCHANGED exportVars

-----------------------------------------------------------------------------
(* export_all, newest first *)

BeginExport ==
  /\ cursor = Beyond /\ exported = <<>> /\ base = {} /\ convs # {}
  /\ base' = convs
  /\ UNCHANGED dbVars /\ UNCHANGED <<req, cursor, exported>>

Above(S, c) == {d \in S : d > c}

\* The n greatest members of S, the greatest first.
Newest(S, n) ==
  [i \in 1..IF n < Cardinality(S) THEN n ELSE Cardinality(S) |->
     CHOOSE c \in S : Cardinality(Above(S, c)) = i - 1]

ExportByOffset ==
  LET all   == Newest(convs, MaxConvs)
      items == SubSeq(all, Len(exported) + 1,
                      IF Len(exported) + Chunk > Len(all) THEN Len(all) ELSE Len(exported) + Chunk)
  IN
  /\ base # {} /\ cursor > 0
  /\ exported' = exported \o items
  /\ cursor' = IF Len(items) < Chunk THEN 0 ELSE items[Len(items)]
  /\ UNCHANGED dbVars /\ UNCHANGED <<req, base>>

\* export_chunk: the next conversations below the cursor, none when it is done.
ExportChunk ==
  LET items == Newest({c \in convs : c < cursor}, Chunk) IN
  /\ base # {} /\ cursor > 0
  /\ exported' = exported \o items
  /\ cursor' = IF Len(items) < Chunk THEN 0 ELSE items[Len(items)]
  /\ UNCHANGED dbVars /\ UNCHANGED <<req, base>>

-----------------------------------------------------------------------------
Init ==
  /\ users = User
  /\ convs \in SUBSET Conv
  /\ created = convs
  /\ \/ rating = [c \in Conv |-> NoRating] /\ shares = {}
     \/ /\ rating = [c \in Conv |-> IF c \in convs THEN [value |-> "like", row |-> "old"] ELSE NoRating]
        /\ shares = {x \in [conv : convs, user : User, row : {"old"}] : x.user # OwnerOf[x.conv]}
  /\ req = [r \in Request |->
       [kind |-> "none", conv |-> 0, user |-> CHOOSE u \in User : TRUE, value |-> "none",
        row |-> "none", at |-> "new"]]
  /\ cursor = Beyond /\ exported = <<>> /\ base = {}

Step(r) == Read(r) \/ Insert(r) \/ Again(r) \/ Update(r) \/ Commit(r)

Next == (\E r \in Request : Ask(r) \/ Step(r)) \/ BeginExport \/ ExportChunk

Spec == Init /\ [][Next]_vars

-----------------------------------------------------------------------------
(* Properties *)

\* Nothing refers to a conversation or a user that is gone, whichever request
\* was between its reads and its write when the other deleted it, and a
\* conversation is shared with a user once, although share_conversation looks for a
\* share and inserts one in two steps (get_share raises if there are two).
RowsAreSound ==
  /\ \A c \in convs : OwnerOf[c] \in users
  /\ \A c \in Conv : rating[c] # NoRating => c \in convs
  /\ \A x \in shares : x.conv \in convs /\ x.user \in users
  /\ \A x, y \in shares : x.conv = y.conv /\ x.user = y.user => x = y

\* A request that rates fails only over a rating or a conversation that another
\* request takes away: requests that both rate first are served (rate_message,
\* "race condition handling").
RacingRatesSucceed ==
  \A r \in Request : req[r].kind = "rate" /\ At(r, "failed") =>
    \E q \in Request :
      \/ req[q].kind = "unrate" /\ req[q].conv = req[r].conv
      \/ req[r].conv \in Deletes(req[q])

\* A rating that is committed is the one that was asked for.
AnsweredIsStored ==
  [][\A r \in Request : req[r].kind = "rate" /\ ~At(r, "ok") /\ req'[r].at = "ok" =>
       rating'[req[r].conv].value = req[r].value]_vars

\* No rating is lost to another that is made at the same time.
RatingsAreKept == []RacingRatesSucceed /\ AnsweredIsStored

\* The export has a conversation once, and all that were there from its beginning
\* to its end (export_all: "to avoid skipping or duplicating conversations when
\* data changes during export").
ExportIsWhole ==
  /\ \A i, j \in DOMAIN exported : i # j => exported[i] # exported[j]
  /\ cursor = 0 => \A c \in base \cap convs : \E i \in DOMAIN exported : exported[i] = c
=============================================================================
