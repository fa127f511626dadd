-------------------------- MODULE ConversationProofs --------------------------
(***************************************************************************)
(* The conversations, on the server and on their page, for any users,      *)
(* conversations, requests and sizes: what Workspace keeps true of the     *)
(* rows, and how the page of ConversationPage comes to rest with what the  *)
(* server has.  Each part proves about one of the two modules.             *)
(***************************************************************************)
EXTENDS Workspace, ConversationPage, ListFilterProofs, FunctionTheorems

-----------------------------------------------------------------------------
(* Workspace: what is true of every request, from where it is.              *)

\* What a request was asked, and the kinds that go through every step.
Asked(r) ==
  /\ req[r].kind = "none" <=> At(r, "new")
  /\ req[r].kind \notin {"none", "deleteUser"} => req[r].conv \in Conv
  /\ req[r].kind = "create" => req[r].user = OwnerOf[req[r].conv]
  /\ req[r].kind = "rate" => req[r].value \in Value /\ req[r].conv \in created
  /\ req[r].kind = "revoke" => req[r].row \in Row
  /\ At(r, "insert") => req[r].kind \in {"create", "rate", "share"}
  /\ At(r, "insert") /\ req[r].kind = "rate" => req[r].row = "none"
  /\ At(r, "again") => req[r].kind = "rate"
  /\ At(r, "update") => req[r].kind \notin {"create", "share"}
  /\ At(r, "update") /\ req[r].kind = "rate" => req[r].row \in Row

\* What an open write was flushed against, and holds until it commits.
Held(r) ==
  LET c == req[r].conv
      u == req[r].user
  IN
  At(r, "open") =>
    /\ req[r].kind = "create" => u \in users
    /\ req[r].kind = "share" => c \in convs /\ u \in users /\ ~Shared(c, u)
    /\ req[r].kind = "rate" =>
         /\ c \in convs
         /\ req[r].row = "none" => rating[c] = NoRating
         /\ req[r].row # "none" => req[r].row \in Row /\ rating[c].row = req[r].row

\* Writes that conflict are not open together.
Apart == \A p, q \in Request : p # q /\ At(p, "open") /\ At(q, "open") => ~Conflict(req[p], req[q])

\* A new conversation is made by one request.
Fresh ==
  \A r \in Request : req[r].kind = "create" =>
    /\ At(r, "read") \/ At(r, "insert") \/ At(r, "open") => req[r].conv \notin created
    /\ \A q \in Request \ {r} : req[q].kind = "create" => req[q].conv # req[r].conv

\* Some request takes the rating of a conversation away, or the conversation.
Taken(c) ==
  \E q \in Request :
    \/ req[q].kind = "unrate" /\ req[q].conv = c
    \/ c \in Deletes(req[q])

\* What is gone was deleted.
GoneIsTaken == \A c \in created \ convs : Taken(c)

\* A request that rates finds the rating it has lost to or read, unless taken away.
Contested(r) ==
  LET found == rating[req[r].conv] IN
  req[r].kind = "rate" =>
    /\ At(r, "again") => found # NoRating \/ Taken(req[r].conv)
    /\ At(r, "update") => found.row = req[r].row \/ Taken(req[r].conv)
    /\ At(r, "failed") => Taken(req[r].conv)

EachRequest == \A r \in Request : Asked(r) /\ Held(r) /\ Contested(r)

\* The export goes down, and is past all it has seen.
Descends ==
  /\ base \subseteq created
  /\ cursor = Beyond => exported = <<>>
  /\ \A i \in DOMAIN exported : exported[i] >= cursor
  /\ \A i, j \in DOMAIN exported : i < j => exported[i] > exported[j]
  /\ \A c \in base \cap convs : c >= cursor => \E i \in DOMAIN exported : exported[i] = c

RowsInv ==
  TypeOK /\ EachRequest /\ Apart /\ Fresh /\ GoneIsTaken /\ RowsAreSound /\ Descends

-----------------------------------------------------------------------------
(* The steps of a request before it commits *)

LEMMA InitInv == ASSUME Init PROVE RowsInv
<1> USE WorkspaceAssumption DEF Conv, Beyond
<1>1. (CHOOSE u \in User : TRUE) \in User
  OBVIOUS
<1>2. TypeOK
  <2>1. /\ users \subseteq User /\ convs \subseteq created /\ created \subseteq Conv
        /\ base \subseteq Conv /\ exported \in Seq(Conv)
    BY DEF Init
  <2>6. cursor \in 0..Beyond
    <3>1. MaxConvs + 1 \in 0..(MaxConvs + 1)
      OBVIOUS
    <3> QED
      BY <3>1 DEF Init
  <2>2. rating \in [Conv -> Rating \cup {NoRating}]
    BY DEF Init, Rating, NoRating, Value, Row
  <2>3. shares \subseteq Share
    <3>1. \A x \in [conv : convs, user : User, row : {"old"}] : x \in Share
      BY <2>1 DEF Share, Row
    <3> QED
      BY <3>1 DEF Init
  <2>4. req \in [Request ->
          [kind : Kind \cup {"none"}, conv : Conv \cup {0}, user : User,
           value : Value \cup {"none"}, row : Row \cup {"none"},
           at : {"new", "read", "insert", "update", "again", "open", "ok", "refused", "failed"}]]
    BY <1>1 DEF Init
  <2>5. \A r \in Request : req[r].at # "update"
    BY DEF Init
  <2> QED
    BY <2>1, <2>2, <2>3, <2>4, <2>5, <2>6 DEF TypeOK
<1>3. EachRequest
  BY DEF Init, EachRequest, Asked, Held, Contested, At
<1>4. Apart /\ Fresh /\ GoneIsTaken
  BY DEF Init, Apart, Fresh, GoneIsTaken, At
<1>5. RowsAreSound
  BY DEF Init, RowsAreSound, NoRating
<1>6. Descends
  BY DEF Init, Descends
<1> QED
  BY <1>2, <1>3, <1>4, <1>5, <1>6 DEF RowsInv

\* The requests and the database that a step of r leaves as they are.
Keeps(r) ==
  /\ UNCHANGED dbVars /\ UNCHANGED exportVars
  /\ \A q \in Request \ {r} : req'[q] = req[q]

\* A request keeps what it was asked.
Same(r) ==
  req'[r].kind = req[r].kind /\ req'[r].conv = req[r].conv /\ req'[r].user = req[r].user

\* What a request deletes and takes away only depends on what it was asked.
LEMMA StaysTaken ==
  ASSUME NEW c, \A q \in Request : req[q].kind # "none" => Same(q), Taken(c)
  PROVE  Taken(c)'
BY DEF Same, Taken, Deletes

\* Whether two writes conflict only depends on what was asked.
LEMMA ConflictSame ==
  ASSUME NEW p \in Request, NEW q \in Request, Same(p), Same(q)
  PROVE  Conflict(req[p], req[q])' <=> Conflict(req[p], req[q])
BY DEF Same, Conflict, Deletes

LEMMA ConflictSymmetric ==
  ASSUME NEW p, NEW q PROVE Conflict(p, q) <=> Conflict(q, p)
BY DEF Conflict

\* A request that moves on, with its write flushed only where it is free to be.
LEMMA MoveStep ==
  ASSUME RowsInv, NEW r \in Request, Keeps(r), Same(r), req[r].kind # "none",
         At(r, "open")' => Free(r),
         At(r, "insert")' => At(r, "read"),
         ~At(r, "new")', ~At(r, "read")', ~At(r, "open"), ~At(r, "new"),
         At(r, "open")' => At(r, "insert") \/ At(r, "update"),
         TypeOK', Asked(r)', Held(r)', Contested(r)'
  PROVE  RowsInv'
<1>1. \A q \in Request : Same(q)
  BY DEF Keeps, Same
<1>2. \A q \in Request : q # r => UNCHANGED req[q]
  BY DEF Keeps
<1>3. \A c : Taken(c) => Taken(c)'
  BY <1>1, StaysTaken
<1>4. EachRequest'
  <2>1. ASSUME NEW q \in Request, q # r PROVE Asked(q)' /\ Held(q)'
    BY <1>2, <2>1 DEF Keeps, dbVars, RowsInv, EachRequest, Asked, Held, Shared, At
  <2>2. ASSUME NEW q \in Request, q # r PROVE Contested(q)'
    BY <1>2, <1>3, <2>2 DEF Keeps, dbVars, RowsInv, EachRequest, Contested, At
  <2> QED
    BY <2>1, <2>2 DEF EachRequest
<1>5. Apart'
  <2>1. ASSUME NEW p \in Request, NEW q \in Request, p # q, At(p, "open")', At(q, "open")'
        PROVE  ~Conflict(req[p], req[q])
    BY <1>2, <2>1, ConflictSymmetric DEF RowsInv, Apart, Free, At
  <2> QED
    BY <1>1, <2>1, ConflictSame DEF Apart
<1>6. Fresh'
  <2>1. UNCHANGED created
    BY DEF Keeps, dbVars
  <2>2. \A q \in Request : q # r => (At(q, "read")' <=> At(q, "read")) /\ (At(q, "insert")' <=> At(q, "insert"))
                                     /\ (At(q, "open")' <=> At(q, "open"))
    BY <1>2 DEF At
  <2>3. req[r].kind = "create" /\ At(r, "open")' => At(r, "insert")
    BY DEF RowsInv, EachRequest, Asked
  <2> QED
    BY <1>1, <2>1, <2>2, <2>3 DEF RowsInv, Fresh, Same
<1>7. GoneIsTaken' /\ RowsAreSound' /\ Descends'
  BY <1>3 DEF Keeps, dbVars, exportVars, RowsInv, GoneIsTaken, RowsAreSound, Descends
<1> QED
  BY <1>4, <1>5, <1>6, <1>7 DEF RowsInv

\* A request is asked of what there is, and has done nothing yet.
LEMMA AskStep == ASSUME RowsInv, NEW r \in Request, Ask(r) PROVE RowsInv'
<1> USE WorkspaceAssumption
<1> DEFINE Fits(k, c, u, v, w) ==
             /\ k \in Kind /\ c \in Conv \cup {0} /\ u \in User
             /\ v \in Value \cup {"none"} /\ w \in Row \cup {"none"}
             /\ k # "deleteUser" => c \in Conv
             /\ k = "create" => /\ u = OwnerOf[c] /\ c \notin created
                                /\ \A q \in Request : req[q].kind = "create" => req[q].conv # c
             /\ k = "rate" => v \in Value /\ c \in created
             /\ k = "revoke" => w \in Row
<1>1. PICK k, c, u, v, w : Begin(r, k, c, u, v, w) /\ Fits(k, c, u, v, w)
  <2>1. ASSUME NEW c \in Conv \ created, OwnerOf[c] \in users,
               \A q \in Request : req[q].kind = "create" => req[q].conv # c,
               Begin(r, "create", c, OwnerOf[c], "none", "none")
        PROVE  Fits("create", c, OwnerOf[c], "none", "none")
    BY <2>1 DEF Kind
  <2>2. ASSUME NEW c \in convs, NEW k \in {"patch", "delete", "unrate"}
        PROVE  Fits(k, c, OwnerOf[c], "none", "none")
    BY <2>2 DEF Kind, RowsInv, TypeOK
  <2>3. ASSUME NEW c \in convs, NEW v \in Value PROVE Fits("rate", c, OwnerOf[c], v, "none")
    BY <2>3 DEF Kind, RowsInv, TypeOK
  <2>4. ASSUME NEW c \in convs, NEW u \in users PROVE Fits("share", c, u, "none", "none")
    BY <2>4 DEF Kind, RowsInv, TypeOK
  <2>5. ASSUME NEW x \in shares PROVE Fits("revoke", x.conv, x.user, "none", x.row)
    BY <2>5 DEF Kind, RowsInv, TypeOK, Share
  <2>6. ASSUME NEW u \in users PROVE Fits("deleteUser", 0, u, "none", "none")
    BY <2>6 DEF Kind, RowsInv, TypeOK
  <2> HIDE DEF Fits
  <2> QED
    BY <2>1, <2>2, <2>3, <2>4, <2>5, <2>6, Zenon DEF Ask
<1>2. /\ Keeps(r) /\ req[r].kind = "none"
      /\ req'[r] = [kind |-> k, conv |-> c, user |-> u, value |-> v, row |-> w, at |-> "read"]
  BY <1>1 DEF Begin, Keeps, RowsInv, TypeOK, EachRequest, Asked, At
<1>3. TypeOK'
  <2>1. req' \in [Request ->
          [kind : Kind \cup {"none"}, conv : Conv \cup {0}, user : User,
           value : Value \cup {"none"}, row : Row \cup {"none"},
           at : {"new", "read", "insert", "update", "again", "open", "ok", "refused", "failed"}]]
    BY <1>1 DEF Begin, RowsInv, TypeOK
  <2>2. \A q \in Request : req'[q].at = "update" => q # r /\ req'[q] = req[q]
    BY <1>2 DEF Keeps
  <2> QED
    BY <1>2, <2>1, <2>2 DEF Keeps, dbVars, exportVars, RowsInv, TypeOK
<1>4. \A q \in Request : req[q].kind # "none" => Same(q)
  BY <1>2 DEF Keeps, Same
<1>5. \A d : Taken(d) => Taken(d)'
  BY <1>4, StaysTaken
<1>6. EachRequest'
  <2>1. ASSUME NEW q \in Request, q # r PROVE Asked(q)' /\ Held(q)'
    BY <1>2, <2>1 DEF Keeps, dbVars, RowsInv, EachRequest, Asked, Held, Shared, At
  <2>2. ASSUME NEW q \in Request, q # r PROVE Contested(q)'
    BY <1>2, <1>5, <2>2 DEF Keeps, dbVars, RowsInv, EachRequest, Contested, At
  <2>3. Asked(r)'
    BY <1>1, <1>2 DEF Asked, At, Keeps, dbVars, Kind
  <2>4. Held(r)' /\ Contested(r)'
    BY <1>2 DEF Held, Contested, At
  <2> QED
    BY <2>1, <2>2, <2>3, <2>4 DEF EachRequest
<1>7. Apart'
  BY <1>2 DEF Keeps, RowsInv, Apart, At
<1>8. Fresh'
  <2>1. UNCHANGED created /\ \A q \in Request : q # r => UNCHANGED req[q]
    BY <1>2 DEF Keeps, dbVars
  <2>2. ASSUME NEW q \in Request, req'[q].kind = "create", NEW p \in Request \ {q},
               req'[p].kind = "create"
        PROVE  req'[p].conv # req'[q].conv
    BY <1>1, <1>2, <2>1, <2>2 DEF RowsInv, Fresh
  <2>3. ASSUME NEW q \in Request, req'[q].kind = "create",
               At(q, "read")' \/ At(q, "insert")' \/ At(q, "open")'
        PROVE  req'[q].conv \notin created'
    BY <1>1, <1>2, <2>1, <2>3 DEF RowsInv, Fresh, At
  <2> QED
    BY <2>2, <2>3 DEF Fresh
<1>9. GoneIsTaken' /\ RowsAreSound' /\ Descends'
  BY <1>2, <1>5 DEF Keeps, dbVars, exportVars, RowsInv, GoneIsTaken, RowsAreSound, Descends
<1> QED
  BY <1>3, <1>6, <1>7, <1>8, <1>9 DEF RowsInv

\* A rating of a conversation has a row, or there is none.
LEMMA RatingRow ==
  ASSUME TypeOK, NEW c \in Conv
  PROVE  /\ rating[c] # NoRating => rating[c].row \in Row
         /\ rating[c] = NoRating <=> rating[c].row = "none"
BY WorkspaceAssumption DEF TypeOK, Rating, NoRating, Row

\* What a request reads decides where it goes.
LEMMA ReadStep == ASSUME RowsInv, NEW r \in Request, Read(r) PROVE RowsInv'
<1> USE WorkspaceAssumption
<1> DEFINE c == req[r].conv
           next == req'[r].at
<1>1. /\ Keeps(r) /\ Same(r) /\ At(r, "read") /\ req'[r].value = req[r].value
      /\ next \in {"refused", "insert", "update"}
      /\ req[r].kind \notin {"rate", "unrate"} => req'[r].row = req[r].row
      /\ req[r].kind \in {"rate", "unrate"} => req'[r].row = rating[c].row
  BY DEF Read, Keeps, Same, RowsInv, TypeOK, At
<1>2. /\ next = "insert" => req[r].kind \in {"create", "share", "rate"}
      /\ next = "insert" /\ req[r].kind = "rate" => rating[c] = NoRating
      /\ next = "update" => req[r].kind \notin {"create", "share"}
      /\ next = "update" /\ req[r].kind \in {"rate", "unrate"} => rating[c] # NoRating
  BY DEF Read, RowsInv, TypeOK, EachRequest, Asked, At
<1>3. req[r].kind \notin {"none", "deleteUser"} => c \in Conv
  BY DEF RowsInv, EachRequest, Asked
<1>4. Asked(r)'
  BY <1>1, <1>2, <1>3, RatingRow DEF RowsInv, TypeOK, EachRequest, Asked, Same, Keeps, dbVars, At, NoRating
<1>5. TypeOK'
  <2>1. req' \in [Request ->
          [kind : Kind \cup {"none"}, conv : Conv \cup {0}, user : User,
           value : Value \cup {"none"}, row : Row \cup {"none"},
           at : {"new", "read", "insert", "update", "again", "open", "ok", "refused", "failed"}]]
    <3>1. req[r].kind \in {"rate", "unrate"} => rating[c].row \in Row \cup {"none"}
      BY <1>3, RatingRow DEF RowsInv
    <3>2. req' = [req EXCEPT ![r].at = next, ![r].row = req'[r].row]
      BY DEF Read, RowsInv, TypeOK
    <3>3. req'[r].row \in Row \cup {"none"}
      BY <1>1, <3>1 DEF RowsInv, TypeOK
    <3> QED
      BY <1>1, <3>2, <3>3, SMTT(20) DEF RowsInv, TypeOK
  <2>2. At(r, "update")' /\ req[r].kind \in {"rate", "unrate", "revoke"} => req'[r].row \in Row
    BY <1>1, <1>2, <1>3, RatingRow DEF RowsInv, EachRequest, Asked, At
  <2> QED
    BY <1>1, <2>1, <2>2 DEF Keeps, Same, dbVars, exportVars, RowsInv, TypeOK, At
<1>6. Held(r)' /\ Contested(r)'
  BY <1>1 DEF Held, Contested, At, Keeps, Same, dbVars
<1>7. req[r].kind # "none"
  BY <1>1 DEF RowsInv, EachRequest, Asked, At
<1> QED
  BY <1>1, <1>4, <1>5, <1>6, <1>7, MoveStep DEF At

\* Only where a request is, and the row it writes, change.
LEMMA MoveTyped ==
  ASSUME TypeOK, NEW r \in Request, Same(r), UNCHANGED dbVars, UNCHANGED exportVars,
         NEW l \in {"update", "again", "open", "ok", "failed"},
         req' = [req EXCEPT ![r].at = l, ![r].row = req'[r].row],
         req'[r].row \in Row \cup {"none"},
         l = "update" /\ req[r].kind \in {"rate", "unrate", "revoke"} => req'[r].row \in Row
  PROVE  TypeOK' /\ Keeps(r) /\ req'[r].at = l
<1>1. req' \in [Request ->
        [kind : Kind \cup {"none"}, conv : Conv \cup {0}, user : User,
         value : Value \cup {"none"}, row : Row \cup {"none"},
         at : {"new", "read", "insert", "update", "again", "open", "ok", "refused", "failed"}]]
  BY DEF TypeOK
<1>2. Keeps(r) /\ req'[r].at = l
  BY DEF TypeOK, Keeps
<1> QED
  BY <1>1, <1>2 DEF Keeps, Same, dbVars, exportVars, TypeOK

\* Moving on changes nothing but where a request is.
LEMMA MoveKeeps ==
  ASSUME TypeOK, NEW r \in Request, NEW l, Move(r, l)
  PROVE  /\ Same(r) /\ req'[r].row = req[r].row /\ req'[r].value = req[r].value
         /\ req' = [req EXCEPT ![r].at = l, ![r].row = req'[r].row]
         /\ req'[r].row \in Row \cup {"none"}
<1>1. req'[r] = [req[r] EXCEPT !.at = l]
  BY DEF Move, TypeOK
<1>2. /\ Same(r) /\ req'[r].row = req[r].row /\ req'[r].value = req[r].value
      /\ req'[r].row \in Row \cup {"none"}
  BY <1>1 DEF TypeOK, Same
<1>3. [req[r] EXCEPT !.at = l, !.row = req[r].row] = [req[r] EXCEPT !.at = l]
  BY DEF TypeOK
<1>4. [req EXCEPT ![r].at = l, ![r].row = req[r].row] = [req EXCEPT ![r].at = l]
  BY <1>3 DEF TypeOK
<1> QED
  BY <1>2, <1>4 DEF Move

\* Inserting a row that does not fit is an error, which a rating may lose to.
LEMMA InsertStep == ASSUME RowsInv, NEW r \in Request, Insert(r) PROVE RowsInv'
<1> DEFINE c == req[r].conv
<1>1. /\ At(r, "insert") /\ Free(r) /\ UNCHANGED dbVars /\ UNCHANGED exportVars
      /\ req[r].kind \in {"create", "rate", "share"} /\ c \in Conv
  BY DEF Insert, RowsInv, EachRequest, Asked
<1>2. PICK l \in {"open", "again", "failed"} :
        /\ Move(r, l)
        /\ l = "again" => req[r].kind = "rate" /\ ~(c \in convs /\ rating[c] = NoRating)
        /\ l = "failed" => req[r].kind # "rate"
        /\ l = "open" =>
             /\ req[r].kind = "create" => req[r].user \in users
             /\ req[r].kind = "rate" => c \in convs /\ rating[c] = NoRating
             /\ req[r].kind = "share" =>
                  c \in convs /\ req[r].user \in users /\ ~Shared(c, req[r].user)
  BY <1>1, Zenon DEF Insert
<1>3. /\ Same(r) /\ req'[r].row = req[r].row /\ req'[r].value = req[r].value
      /\ req' = [req EXCEPT ![r].at = l, ![r].row = req'[r].row]
      /\ req'[r].row \in Row \cup {"none"}
  BY <1>2, MoveKeeps DEF RowsInv
<1>4. TypeOK' /\ Keeps(r) /\ req'[r].at = l
  BY <1>1, <1>3, MoveTyped DEF RowsInv
<1>5. Asked(r)'
  BY <1>1, <1>2, <1>3, <1>4 DEF RowsInv, EachRequest, Asked, Same, Keeps, dbVars, At
<1>6. Held(r)'
  <2>1. req[r].kind = "rate" => req[r].row = "none"
    BY <1>1 DEF RowsInv, EachRequest, Asked
  <2>2. UNCHANGED <<convs, users, rating, shares>>
    BY <1>1 DEF dbVars
  <2>3. CASE l = "open"
    <3>1. req'[r].conv = c /\ req'[r].user = req[r].user /\ req'[r].kind = req[r].kind
      BY <1>3 DEF Same
    <3>2. req[r].kind = "share" => c \in convs' /\ req[r].user \in users' /\ ~Shared(c, req[r].user)
      BY <1>2, <2>2, <2>3
    <3>3. req[r].kind = "create" => req[r].user \in users'
      BY <1>2, <2>2, <2>3
    <3>4. req[r].kind = "rate" => c \in convs' /\ rating'[c] = NoRating /\ req'[r].row = "none"
      BY <1>2, <1>3, <2>1, <2>2, <2>3
    <3> HIDE <1>2 DEF c
    <3> QED
      BY <2>2, <3>1, <3>2, <3>3, <3>4 DEF Held, Shared
  <2> QED
    BY <1>2, <1>4, <2>3 DEF Held, At
<1>7. Contested(r)'
  <2>1. l = "again" => rating[c] # NoRating \/ Taken(c)
    BY <1>2 DEF RowsInv, EachRequest, Asked, GoneIsTaken
  <2>2. Taken(c) => Taken(c)'
    BY <1>3, <1>4, StaysTaken DEF Keeps, Same
  <2> QED
    BY <1>2, <1>3, <1>4, <2>1, <2>2 DEF Contested, Same, Keeps, dbVars, At
<1> QED
  BY <1>1, <1>3, <1>4, <1>5, <1>6, <1>7, MoveStep DEF At

\* A rating that lost to another one is tried again as an update.
LEMMA AgainStep == ASSUME RowsInv, NEW r \in Request, Again(r) PROVE RowsInv'
<1> DEFINE c == req[r].conv
           l == IF rating[c] # NoRating THEN "update" ELSE "failed"
<1>1. /\ At(r, "again") /\ UNCHANGED dbVars /\ UNCHANGED exportVars
      /\ req[r].kind = "rate" /\ c \in Conv
  BY DEF Again, RowsInv, EachRequest, Asked
<1>2. /\ Same(r) /\ req'[r].row = rating[c].row /\ req'[r].value = req[r].value
      /\ req' = [req EXCEPT ![r].at = l, ![r].row = req'[r].row]
  BY DEF Again, Same, RowsInv, TypeOK
<1>3. /\ req'[r].row \in Row \cup {"none"}
      /\ l = "update" => req'[r].row \in Row
  BY <1>1, <1>2, RatingRow DEF RowsInv
<1>4. TypeOK' /\ Keeps(r) /\ req'[r].at = l
  BY <1>1, <1>2, <1>3, MoveTyped DEF RowsInv
<1>5. Asked(r)' /\ Held(r)'
  BY <1>1, <1>2, <1>3, <1>4 DEF RowsInv, EachRequest, Asked, Held, Same, Keeps, dbVars, At
<1>6. Contested(r)'
  <2>1. rating[c] # NoRating \/ Taken(c)
    BY <1>1 DEF RowsInv, EachRequest, Contested
  <2>2. Taken(c) => Taken(c)'
    BY <1>2, <1>4, StaysTaken DEF Keeps, Same
  <2> QED
    BY <1>1, <1>2, <1>4, <2>1, <2>2 DEF Contested, Same, Keeps, dbVars, At
<1> QED
  BY <1>1, <1>2, <1>4, <1>5, <1>6, MoveStep DEF At

\* An update waits for its row, and fails if that has gone.
LEMMA UpdateStep == ASSUME RowsInv, NEW r \in Request, Update(r) PROVE RowsInv'
<1> DEFINE c == req[r].conv
<1>1. /\ At(r, "update") /\ Free(r) /\ UNCHANGED dbVars /\ UNCHANGED exportVars
      /\ req[r].kind \notin {"none", "create", "share"}
  BY DEF Update, RowsInv, EachRequest, Asked, At
<1>2. PICK l \in {"open", "failed"} :
        /\ Move(r, l)
        /\ req[r].kind = "rate" => (l = "failed" <=> rating[c].row # req[r].row)
  BY <1>1, Zenon DEF Update
<1>3. /\ Same(r) /\ req'[r].row = req[r].row /\ req'[r].value = req[r].value
      /\ req' = [req EXCEPT ![r].at = l, ![r].row = req'[r].row]
      /\ req'[r].row \in Row \cup {"none"}
  BY <1>2, MoveKeeps DEF RowsInv
<1>4. TypeOK' /\ Keeps(r) /\ req'[r].at = l
  BY <1>1, <1>3, MoveTyped DEF RowsInv
<1>5. Asked(r)'
  BY <1>1, <1>2, <1>3, <1>4 DEF RowsInv, EachRequest, Asked, Same, Keeps, dbVars, At
<1>6. Held(r)'
  <2>1. req[r].kind = "rate" => req[r].row \in Row /\ c \in Conv
    BY <1>1 DEF RowsInv, EachRequest, Asked
  <2>2. req[r].kind = "rate" /\ l = "open" => c \in convs /\ rating[c].row = req[r].row
    BY <1>2, <2>1, RatingRow, WorkspaceAssumption DEF RowsInv, RowsAreSound, Row
  <2> QED
    BY <1>1, <1>3, <1>4, <2>1, <2>2, WorkspaceAssumption DEF Held, Same, Keeps, dbVars, At, Row
<1>7. Contested(r)'
  <2>1. req[r].kind = "rate" /\ l = "failed" => Taken(c)
    BY <1>1, <1>2 DEF RowsInv, EachRequest, Contested
  <2>2. Taken(c) => Taken(c)'
    BY <1>3, <1>4, StaysTaken DEF Keeps, Same
  <2> QED
    BY <1>2, <1>3, <1>4, <2>1, <2>2 DEF Contested, Same, Keeps, dbVars, At
<1> QED
  BY <1>1, <1>3, <1>4, <1>5, <1>6, <1>7, MoveStep DEF At

-----------------------------------------------------------------------------
(* Commits *)

\* What every commit of r leaves of the requests, and what the other writes and
\* r itself were promised.
LEMMA Committing ==
  ASSUME RowsInv, NEW r \in Request, Commit(r)
  PROVE  /\ req' \in [Request ->
             [kind : Kind \cup {"none"}, conv : Conv \cup {0}, user : User,
              value : Value \cup {"none"}, row : Row \cup {"none"},
              at : {"new", "read", "insert", "update", "again", "open", "ok", "refused", "failed"}]]
         /\ \A q \in Request : Same(q) /\ (q # r => req'[q] = req[q])
         /\ req'[r].at = "ok" /\ req'[r].row = req[r].row /\ req'[r].value = req[r].value
         /\ \A c : Taken(c) => Taken(c)'
         /\ \A q \in Request \ {r} : At(q, "open") => ~Conflict(req[r], req[q])
         /\ At(r, "open") /\ req[r].kind \in Kind /\ UNCHANGED exportVars
<1>1. /\ At(r, "open") /\ Move(r, "ok") /\ UNCHANGED exportVars
  BY DEF Commit
<1>2. /\ req' \in [Request ->
             [kind : Kind \cup {"none"}, conv : Conv \cup {0}, user : User,
              value : Value \cup {"none"}, row : Row \cup {"none"},
              at : {"new", "read", "insert", "update", "again", "open", "ok", "refused", "failed"}]]
      /\ \A q \in Request : Same(q) /\ (q # r => req'[q] = req[q])
      /\ req'[r].at = "ok" /\ req'[r].row = req[r].row /\ req'[r].value = req[r].value
  BY <1>1 DEF Move, Same, RowsInv, TypeOK
<1>3. \A c : Taken(c) => Taken(c)'
  BY <1>2, StaysTaken
<1>4. \A q \in Request \ {r} : At(q, "open") => ~Conflict(req[r], req[q])
  BY <1>1 DEF RowsInv, Apart
<1>5. req[r].kind \in Kind
  BY <1>1 DEF RowsInv, TypeOK, EachRequest, Asked, At
<1> QED
  BY <1>1, <1>2, <1>3, <1>4, <1>5

\* What is left to show of a commit, once the database is what it should be.
LEMMA CommitInv ==
  ASSUME RowsInv, NEW r \in Request, Commit(r), created \subseteq created',
         \A c \in created' : c \notin created => req[r].kind = "create" /\ c = req[r].conv,
         users' \subseteq User, convs' \subseteq created', created' \subseteq Conv,
         rating' \in [Conv -> Rating \cup {NoRating}], shares' \subseteq Share,
         RowsAreSound', GoneIsTaken',
         \A c \in base \cap convs' : c \in convs,
         \A q \in Request \ {r} : Held(q)' /\ Contested(q)'
  PROVE  RowsInv'
<1>1. /\ \A q \in Request : Same(q) /\ (q # r => req'[q] = req[q])
      /\ req'[r].at = "ok" /\ req'[r].row = req[r].row /\ req'[r].value = req[r].value
      /\ At(r, "open") /\ req[r].kind \in Kind /\ UNCHANGED exportVars
  BY Committing
<1>2. TypeOK'
  <2>1. \A q \in Request : req'[q].at = "update" => req'[q] = req[q]
    BY <1>1
  <2> QED
    BY <1>1, <2>1, Committing DEF exportVars, RowsInv, TypeOK
<1>3. ASSUME NEW q \in Request PROVE Asked(q)'
  BY <1>1 DEF RowsInv, EachRequest, Asked, At, Same, Kind
<1>4. Held(r)' /\ Contested(r)'
  BY <1>1 DEF Held, Contested, At
<1>5. Apart'
  <2>1. \A q \in Request : At(q, "open")' => q # r /\ At(q, "open")
    BY <1>1 DEF At
  <2> QED
    BY <1>1, <2>1, ConflictSame DEF RowsInv, Apart
<1>6. Fresh'
  <2>1. ASSUME NEW q \in Request, req'[q].kind = "create",
               At(q, "read")' \/ At(q, "insert")' \/ At(q, "open")'
        PROVE  req'[q].conv \notin created'
    <3>1. q # r /\ req'[q] = req[q]
      BY <1>1, <2>1 DEF At
    <3>2. req[q].conv \notin created /\ (req[r].kind = "create" => req[r].conv # req[q].conv)
      BY <2>1, <3>1 DEF RowsInv, Fresh, At
    <3> QED
      BY <3>1, <3>2
  <2> QED
    BY <1>1, <2>1 DEF RowsInv, Fresh, Same
<1>7. Descends'
  BY <1>1 DEF exportVars, RowsInv, Descends
<1> QED
  BY <1>2, <1>3, <1>4, <1>5, <1>6, <1>7 DEF RowsInv, EachRequest

\* A new conversation, whose owner is still there.
LEMMA CommitCreate ==
  ASSUME RowsInv, NEW r \in Request, Commit(r), req[r].kind = "create"
  PROVE  RowsInv'
<1> DEFINE c == req[r].conv
<1>1. /\ convs' = convs \cup {c} /\ created' = created \cup {c}
      /\ UNCHANGED <<users, rating, shares>>
  BY DEF Commit
<1>2. c \in Conv /\ c \notin created /\ OwnerOf[c] \in users
  BY Committing DEF RowsInv, EachRequest, Asked, Held, Fresh
<1>3. RowsAreSound'
  BY <1>1, <1>2 DEF RowsInv, RowsAreSound
<1>4. GoneIsTaken'
  BY <1>1, Committing DEF RowsInv, GoneIsTaken
<1>5. ASSUME NEW q \in Request \ {r} PROVE Held(q)' /\ Contested(q)'
  <2>1. req'[q] = req[q]
    BY Committing
  <2>2. Held(q)'
    BY <1>1, <2>1 DEF RowsInv, EachRequest, Held, Shared, At
  <2>3. Contested(q)'
    BY <1>1, <2>1, Committing DEF RowsInv, EachRequest, Contested, At
  <2> QED
    BY <2>2, <2>3
<1>6. \A d \in base \cap convs' : d \in convs
  BY <1>1, <1>2 DEF RowsInv, Descends
<1> QED
  BY <1>1, <1>2, <1>3, <1>4, <1>5, <1>6, CommitInv DEF RowsInv, TypeOK

\* A rating: another one open on the answer would conflict, and who still has to
\* update it finds the row it read or loses to a removal.
LEMMA CommitRating ==
  ASSUME RowsInv, NEW r \in Request, Commit(r), req[r].kind \in {"rate", "unrate"}
  PROVE  RowsInv'
<1> DEFINE c == req[r].conv
<1> USE WorkspaceAssumption
<1>1. rating' = [rating EXCEPT ![c] = RatingAfter(r)] /\ UNCHANGED <<users, convs, created, shares>>
  BY DEF Commit
<1>2. c \in Conv
  BY DEF RowsInv, EachRequest, Asked
<1>3. \A d \in Conv : d # c => rating'[d] = rating[d]
  BY <1>1, <1>2 DEF RowsInv, TypeOK
<1>4. rating'[c] = RatingAfter(r)
  BY <1>1, <1>2 DEF RowsInv, TypeOK
<1>5. CASE req[r].kind = "unrate"
  <2>1. rating'[c] \in {NoRating, rating[c]}
    BY <1>4, <1>5 DEF RatingAfter
  <2>2. rating' \in [Conv -> Rating \cup {NoRating}]
    BY <1>1, <1>2, <1>4, <2>1 DEF RowsInv, TypeOK
  <2>3. RowsAreSound'
    BY <1>1, <1>2, <1>3, <2>1 DEF RowsInv, RowsAreSound
  <2>4. GoneIsTaken'
    BY <1>1, Committing DEF RowsInv, GoneIsTaken
  <2>5. ASSUME NEW q \in Request \ {r} PROVE Held(q)' /\ Contested(q)'
    <3>1. req'[q] = req[q]
      BY Committing
    <3>2. At(q, "open") /\ req[q].kind = "rate" => req[q].conv # c
      BY <1>5, Committing DEF Conflict
    <3>3. Held(q)'
      BY <1>1, <1>3, <3>1, <3>2 DEF RowsInv, EachRequest, Asked, Held, Shared, At
    <3>4. Taken(c)
      BY <1>5 DEF Taken
    <3>5. Contested(q)'
      BY <1>3, <3>1, <3>4, Committing DEF RowsInv, EachRequest, Asked, Contested, At
    <3> QED
      BY <3>3, <3>5
  <2> QED
    BY <1>1, <2>2, <2>3, <2>4, <2>5, CommitInv DEF RowsInv, TypeOK
<1>6. CASE req[r].kind = "rate"
  <2>1. /\ c \in convs /\ req[r].value \in Value
        /\ req[r].row = "none" => rating[c] = NoRating
        /\ req[r].row # "none" => req[r].row \in Row /\ rating[c].row = req[r].row
    BY <1>6, Committing DEF RowsInv, EachRequest, Asked, Held
  <2>2. /\ rating'[c] \in Rating
        /\ rating'[c].row = IF req[r].row = "none" THEN r ELSE req[r].row
    BY <1>4, <1>6, <2>1 DEF RatingAfter, Rating, Row
  <2>3. rating' \in [Conv -> Rating \cup {NoRating}]
    BY <1>1, <1>2, <1>4, <2>2 DEF RowsInv, TypeOK
  <2>4. RowsAreSound'
    BY <1>1, <1>2, <1>3, <2>1 DEF RowsInv, RowsAreSound
  <2>5. GoneIsTaken'
    BY <1>1, Committing DEF RowsInv, GoneIsTaken
  <2>6. ASSUME NEW q \in Request \ {r} PROVE Held(q)' /\ Contested(q)'
    <3>1. req'[q] = req[q]
      BY Committing
    <3>2. At(q, "open") /\ req[q].kind = "rate" => req[q].conv # c
      BY <1>6, Committing DEF Conflict
    <3>3. Held(q)'
      BY <1>1, <1>3, <3>1, <3>2 DEF RowsInv, EachRequest, Asked, Held, Shared, At
    <3>4. rating'[c] # NoRating
      BY <2>2 DEF Rating, NoRating, Value
    <3>5. rating[c].row \in Row => rating'[c].row = rating[c].row
      BY <2>1, <2>2 DEF NoRating, Row
    <3>6. Contested(q) /\ Asked(q)
      BY DEF RowsInv, EachRequest
    <3>7. ASSUME req[q].conv = c PROVE Contested(q)'
      BY <3>1, <3>4, <3>5, <3>6, <3>7, Committing DEF Contested, Asked, At
    <3>8. ASSUME req[q].conv # c PROVE Contested(q)'
      BY <1>3, <3>1, <3>6, <3>8, Committing DEF Contested, Asked, At
    <3> QED
      BY <3>3, <3>7, <3>8
  <2> QED
    BY <1>1, <2>3, <2>4, <2>5, <2>6, CommitInv DEF RowsInv, TypeOK
<1> QED
  BY <1>5, <1>6

\* A share, of a conversation and with a user that are both there; a revoked share
\* goes alone.
LEMMA CommitShare ==
  ASSUME RowsInv, NEW r \in Request, Commit(r), req[r].kind \in {"share", "revoke"}
  PROVE  RowsInv'
<1> DEFINE c == req[r].conv
           u == req[r].user
<1>1. /\ shares' = IF req[r].kind = "share" THEN shares \cup {[conv |-> c, user |-> u, row |-> r]}
                   ELSE shares \ {[conv |-> c, user |-> u, row |-> req[r].row]}
      /\ UNCHANGED <<users, convs, created, rating>>
  BY DEF Commit
<1>2. c \in Conv /\ u \in User
  BY DEF RowsInv, TypeOK, EachRequest, Asked
<1>3. req[r].kind = "share" => c \in convs /\ u \in users /\ ~Shared(c, u)
  BY Committing DEF RowsInv, EachRequest, Held
<1>4. shares' \subseteq Share
  BY <1>1, <1>2 DEF RowsInv, TypeOK, Share, Row
<1>5. RowsAreSound'
  BY <1>1, <1>3 DEF RowsInv, RowsAreSound, Shared
<1>6. GoneIsTaken'
  BY <1>1, Committing DEF RowsInv, GoneIsTaken
<1>7. ASSUME NEW q \in Request \ {r} PROVE Held(q)' /\ Contested(q)'
  <2>1. req'[q] = req[q]
    BY Committing
  <2>2. ASSUME At(q, "open"), req[q].kind = "share", req[r].kind = "share"
        PROVE  req[q].conv # c \/ req[q].user # u
    BY <2>2, Committing DEF Conflict
  <2>3. ASSUME At(q, "open"), req[q].kind = "share"
        PROVE  \A x \in shares' : ~(x.conv = req[q].conv /\ x.user = req[q].user)
    BY <1>1, <2>2, <2>3 DEF RowsInv, EachRequest, Held, Shared
  <2>4. Held(q)'
    BY <1>1, <2>1, <2>3 DEF RowsInv, EachRequest, Held, Shared, At
  <2>5. Contested(q)'
    BY <1>1, <2>1, Committing DEF RowsInv, EachRequest, Contested, At
  <2> QED
    BY <2>4, <2>5
<1> QED
  BY <1>1, <1>4, <1>5, <1>6, <1>7, CommitInv DEF RowsInv, TypeOK

\* A deletion, and what goes with it: no open write depends on that, or it would
\* conflict.
LEMMA CommitDelete ==
  ASSUME RowsInv, NEW r \in Request, Commit(r), req[r].kind \in {"delete", "deleteUser"}
  PROVE  RowsInv'
<1> DEFINE D == Deletes(req[r])
           gone == IF req[r].kind = "deleteUser" THEN {req[r].user} ELSE {}
<1>1. /\ convs' = convs \ D /\ users' = users \ gone /\ UNCHANGED created
      /\ rating' = [c \in Conv |-> IF c \in D THEN NoRating ELSE rating[c]]
      /\ shares' = {x \in shares : x.conv \notin D /\ x.user \notin gone}
  BY DEF Commit, Cascade
<1>2. \A c \in Conv : OwnerOf[c] \in gone => c \in D
  BY DEF Deletes
<1>3. rating' \in [Conv -> Rating \cup {NoRating}]
  BY <1>1 DEF RowsInv, TypeOK
<1>4. RowsAreSound'
  <2>1. \A c \in convs' : OwnerOf[c] \in users'
    BY <1>1, <1>2 DEF RowsInv, TypeOK, RowsAreSound
  <2>2. \A c \in Conv : rating'[c] # NoRating => c \in convs'
    BY <1>1 DEF RowsInv, RowsAreSound
  <2>3. shares' \subseteq shares /\ \A x \in shares' : x.conv \in convs' /\ x.user \in users'
    BY <1>1 DEF RowsInv, RowsAreSound
  <2> QED
    BY <2>1, <2>2, <2>3 DEF RowsInv, RowsAreSound
<1>5. \A c \in D : Taken(c)
  BY DEF Taken
<1>6. GoneIsTaken'
  BY <1>1, <1>5, Committing DEF RowsInv, GoneIsTaken
<1>7. ASSUME NEW q \in Request \ {r} PROVE Held(q)' /\ Contested(q)'
  <2>1. req'[q] = req[q]
    BY Committing
  <2>2. At(q, "open") => req[q].conv \notin D /\ req[q].user \notin gone
    BY Committing DEF Conflict
  <2>3. Held(q)'
    BY <1>1, <2>1, <2>2 DEF RowsInv, TypeOK, EachRequest, Asked, Held, Shared, At
  <2>4. Contested(q)'
    BY <1>1, <1>5, <2>1, Committing DEF RowsInv, EachRequest, Asked, Contested, At
  <2> QED
    BY <2>3, <2>4
<1> QED
  BY <1>1, <1>3, <1>4, <1>6, <1>7, CommitInv DEF RowsInv, TypeOK

LEMMA CommitStep == ASSUME RowsInv, NEW r \in Request, Commit(r) PROVE RowsInv'
<1>1. CASE req[r].kind = "patch"
  <2>1. UNCHANGED dbVars
    BY <1>1 DEF Commit
  <2>2. ASSUME NEW q \in Request \ {r} PROVE Held(q)' /\ Contested(q)'
    <3>1. req'[q] = req[q]
      BY Committing
    <3> QED
      BY <2>1, <3>1, Committing DEF dbVars, RowsInv, EachRequest, Held, Contested, Shared, At
  <2>3. RowsAreSound' /\ GoneIsTaken'
    BY <2>1, Committing DEF dbVars, RowsInv, RowsAreSound, GoneIsTaken
  <2> QED
    BY <2>1, <2>2, <2>3, CommitInv DEF dbVars, RowsInv, TypeOK
<1> QED
  BY <1>1, CommitCreate, CommitRating, CommitShare, CommitDelete, Committing DEF Kind

-----------------------------------------------------------------------------
(* The export *)

\* How many members of S are above one of them: fewer than S has, and the fewer
\* the greater it is.
LEMMA Ranks ==
  ASSUME NEW S \in SUBSET Conv
  PROVE  /\ IsFiniteSet(S) /\ Cardinality(S) \in Nat
         /\ \A c \in S : Cardinality(Above(S, c)) \in 0..(Cardinality(S) - 1)
         /\ \A c, d \in S : c < d => Cardinality(Above(S, d)) < Cardinality(Above(S, c))
<1>1. MaxConvs \in Int /\ S \subseteq Int
  BY WorkspaceAssumption DEF Conv
<1>2. IsFiniteSet(S)
  <2>1. IsFiniteSet(Conv)
    BY <1>1, FS_Interval DEF Conv
  <2> QED
    BY <2>1, FS_Subset
<1>3. Cardinality(S) \in Nat
  BY <1>2, FS_CardinalityType
<1>4. \A c \in S : IsFiniteSet(Above(S, c)) /\ Cardinality(Above(S, c)) \in Nat
  <2>1. \A c \in S : Above(S, c) \in SUBSET S
    BY DEF Above
  <2> QED
    BY <1>2, <2>1, FS_Subset, FS_CardinalityType
<1>5. ASSUME NEW c \in S PROVE Cardinality(Above(S, c)) < Cardinality(S)
  <2>1. Above(S, c) \in SUBSET S /\ c \notin Above(S, c)
    BY <1>1 DEF Above
  <2>2. Cardinality(Above(S, c)) <= Cardinality(S) /\ Cardinality(S) # Cardinality(Above(S, c))
    BY <1>2, <2>1, FS_Subset
  <2> QED
    BY <1>3, <1>4, <2>2
<1>6. ASSUME NEW c \in S, NEW d \in S, c < d
      PROVE  Cardinality(Above(S, d)) < Cardinality(Above(S, c))
  <2>1. Above(S, d) \in SUBSET Above(S, c) /\ d \in Above(S, c) /\ d \notin Above(S, d)
    <3>1. c \in Int /\ d \in Int
      BY <1>1
    <3>2. ASSUME NEW e \in S, e > d PROVE e > c
      BY <1>1, <1>6, <3>1, <3>2
    <3>3. Above(S, d) \in SUBSET Above(S, c)
      BY <3>2 DEF Above
    <3> QED
      BY <1>6, <3>1, <3>3 DEF Above
  <2>2. /\ Cardinality(Above(S, d)) <= Cardinality(Above(S, c))
        /\ Cardinality(Above(S, c)) # Cardinality(Above(S, d))
    BY <1>4, <2>1, FS_Subset
  <2> QED
    BY <1>4, <2>2
<1> QED
  BY <1>2, <1>3, <1>4, <1>5, <1>6

\* There is a member with every number of others above it.
LEMMA EveryRank ==
  ASSUME NEW S \in SUBSET Conv, NEW i \in 1..Cardinality(S)
  PROVE  \E c \in S : Cardinality(Above(S, c)) = i - 1
<1> DEFINE n == Cardinality(S)
           T == 0..(n - 1)
           f == [c \in S |-> Cardinality(Above(S, c))]
<1>1. n \in Nat /\ S \subseteq Int /\ IsFiniteSet(S)
  BY Ranks, WorkspaceAssumption DEF Conv
<1>2. IsFiniteSet(T) /\ Cardinality(T) = n
  <2>1. 0 \in Int /\ n - 1 \in Int
    BY <1>1
  <2>2. IsFiniteSet(T) /\ Cardinality(T) = IF 0 > n - 1 THEN 0 ELSE n - 1 - 0 + 1
    BY <2>1, FS_Interval
  <2> QED
    BY <1>1, <2>2
<1>3. f \in [S -> T]
  BY Ranks
<1>4. \A c, d \in S : f[c] = f[d] => c = d
  <2>1. \A c, d \in S : c # d => c < d \/ d < c
    BY <1>1
  <2> QED
    BY <2>1, Ranks
<1> HIDE DEF f
<1>5. f \in Injection(S, T)
  BY <1>3, <1>4, Fun_IsInj
<1>6. f \in Surjection(S, T)
  BY <1>2, <1>5, FS_Injection
<1>7. i - 1 \in T
  BY <1>1
<1>8. \E c \in S : f[c] = i - 1
  BY <1>6, <1>7 DEF Surjection
<1> QED
  BY <1>8 DEF f

\* Newest lists members of S downwards, n of them or all, and leaves out none that
\* is above the last.
LEMMA NewestLists ==
  ASSUME NEW S \in SUBSET Conv, NEW n \in Nat
  PROVE  LET s == Newest(S, n)
             m == Len(s)
         IN  /\ s \in Seq(S) /\ m <= n
             /\ \A i, j \in 1..m : i < j => s[i] > s[j]
             /\ m < n => \A c \in S : \E i \in 1..m : s[i] = c
             /\ \A c \in S : m > 0 /\ c >= s[m] => \E i \in 1..m : s[i] = c
<1> DEFINE m == IF n < Cardinality(S) THEN n ELSE Cardinality(S)
           s == Newest(S, n)
           rank(c) == Cardinality(Above(S, c))
<1>1. S \subseteq Int /\ Cardinality(S) \in Nat /\ m \in Nat
  BY Ranks, WorkspaceAssumption DEF Conv
<1>2. \A i \in 1..m : s[i] \in S /\ rank(s[i]) = i - 1
  <2>1. ASSUME NEW i \in 1..m PROVE s[i] \in S /\ rank(s[i]) = i - 1
    <3>1. s[i] = CHOOSE c \in S : Cardinality(Above(S, c)) = i - 1
      BY DEF Newest
    <3>2. i \in 1..Cardinality(S)
      BY <1>1
    <3> QED
      BY <3>1, <3>2, EveryRank
  <2> QED
    BY <2>1
<1>3. s \in [1..m -> S] /\ Len(s) = m /\ s \in Seq(S)
  <2>1. DOMAIN s = 1..m /\ s = [i \in 1..m |-> s[i]]
    BY DEF Newest
  <2>2. s \in [1..m -> S]
    BY <1>2, <2>1
  <2> QED
    BY <1>1, <2>2
<1> HIDE DEF s
<1>4. \A c \in S : c \in Int /\ rank(c) \in Nat /\ rank(c) < Cardinality(S)
  BY <1>1, Ranks
<1>5. \A c, d \in S : c < d => rank(d) < rank(c)
  BY Ranks
<1> HIDE DEF rank
<1>6. ASSUME NEW i \in 1..m, NEW j \in 1..m, i < j PROVE s[i] > s[j]
  <2>1. /\ s[i] \in S /\ s[i] \in Int /\ rank(s[i]) = i - 1
        /\ s[j] \in S /\ s[j] \in Int /\ rank(s[j]) = j - 1
    BY <1>2, <1>4
  <2>2. ~(s[i] < s[j]) /\ s[i] # s[j]
    BY <1>1, <1>5, <1>6, <2>1
  <2> QED
    BY <2>1, <2>2
<1>7. ASSUME NEW c \in S, rank(c) < m PROVE \E i \in 1..m : s[i] = c
  <2>1. rank(c) + 1 \in 1..m
    BY <1>1, <1>4, <1>7
  <2>2. rank(s[rank(c) + 1]) = rank(c) /\ s[rank(c) + 1] \in S
    BY <1>2, <1>4, <2>1
  <2>3. ASSUME NEW d \in S, rank(d) = rank(c) PROVE d = c
    <3>1. d \in Int /\ c \in Int /\ rank(c) \in Nat
      BY <1>4
    <3>2. ~(d < c) /\ ~(c < d)
      BY <1>5, <2>3, <3>1
    <3> QED
      BY <3>1, <3>2
  <2> QED
    BY <2>1, <2>2, <2>3
<1>8. ASSUME m < n, NEW c \in S PROVE rank(c) < m
  BY <1>1, <1>4, <1>8
<1>9. ASSUME m > 0, NEW c \in S, c >= s[m] PROVE rank(c) < m
  <2>1. m \in 1..m
    BY <1>1, <1>9
  <2>2. s[m] \in S /\ s[m] \in Int /\ c \in Int /\ rank(s[m]) = m - 1 /\ rank(c) \in Nat
    BY <1>2, <1>4, <2>1
  <2>3. CASE s[m] < c
    BY <1>1, <1>5, <2>2, <2>3
  <2>4. CASE s[m] = c
    BY <1>1, <2>2, <2>4
  <2> QED
    BY <1>9, <2>2, <2>3, <2>4
<1> QED
  BY <1>1, <1>3, <1>6, <1>7, <1>8, <1>9 DEF s

\* What an export does leaves the requests and the database alone.
LEMMA ExportKeeps ==
  ASSUME RowsInv, UNCHANGED dbVars, UNCHANGED req, cursor' \in 0..Beyond, exported' \in Seq(Conv),
         base' \subseteq Conv, Descends'
  PROVE  RowsInv'
<1>1. TypeOK'
  BY DEF RowsInv, TypeOK, dbVars
<1>2. EachRequest' /\ Apart'
  BY DEF RowsInv, EachRequest, Asked, Held, Contested, Apart, Taken, At, Shared, dbVars
<1>3. Fresh' /\ GoneIsTaken' /\ RowsAreSound'
  BY DEF RowsInv, Fresh, GoneIsTaken, RowsAreSound, Taken, At, dbVars
<1> QED
  BY <1>1, <1>2, <1>3 DEF RowsInv

LEMMA BeginExportStep == ASSUME RowsInv, BeginExport PROVE RowsInv'
<1>1. UNCHANGED <<convs, created, cursor, exported>> /\ cursor = Beyond /\ base' = convs
  BY DEF BeginExport, dbVars
<1>2. Beyond \in Int /\ \A c \in Conv : c \in Int /\ c < Beyond
  BY WorkspaceAssumption DEF Conv, Beyond
<1>3. Descends'
  BY <1>1, <1>2 DEF RowsInv, TypeOK, Descends
<1>4. base' \subseteq Conv
  BY <1>1 DEF RowsInv, TypeOK
<1> QED
  BY <1>1, <1>3, <1>4, ExportKeeps DEF BeginExport, RowsInv, TypeOK

\* A chunk goes on below the cursor, and the next cursor is its last, or 0 at the
\* end.
LEMMA ExportStep == ASSUME RowsInv, ExportChunk PROVE RowsInv'
<1> DEFINE S == {c \in convs : c < cursor}
           items == Newest(S, Chunk)
           m == Len(items)
           n == Len(exported)
<1>1. /\ cursor > 0 /\ exported' = exported \o items
      /\ cursor' = IF m < Chunk THEN 0 ELSE items[m]
      /\ UNCHANGED dbVars /\ UNCHANGED <<req, base>>
  BY DEF ExportChunk
<1>2. /\ Chunk \in Nat /\ Chunk > 0 /\ cursor \in Nat /\ Beyond \in Nat
      /\ \A c \in Conv : c \in Nat /\ c > 0 /\ c < Beyond
      /\ exported \in Seq(Conv) /\ n \in Nat /\ S \in SUBSET Conv
      /\ \A c : c \in S <=> c \in convs /\ c < cursor
  <2>1. /\ Chunk \in Nat /\ Chunk > 0 /\ Beyond \in Nat
        /\ \A c \in Conv : c \in Nat /\ c > 0 /\ c < Beyond
    BY WorkspaceAssumption DEF Conv, Beyond
  <2>2. cursor \in Nat /\ exported \in Seq(Conv) /\ convs \subseteq Conv
    BY <2>1 DEF RowsInv, TypeOK
  <2> QED
    BY <2>1, <2>2
<1> HIDE DEF S
<1>3. /\ items \in Seq(S) /\ m \in Nat /\ m <= Chunk
      /\ \A i, j \in 1..m : i < j => items[i] > items[j]
      /\ m < Chunk => \A c \in S : \E i \in 1..m : items[i] = c
      /\ \A c \in S : m > 0 /\ c >= items[m] => \E i \in 1..m : items[i] = c
  <2>1. /\ items \in Seq(S) /\ m <= Chunk
        /\ \A i, j \in 1..m : i < j => items[i] > items[j]
        /\ m < Chunk => \A c \in S : \E i \in 1..m : items[i] = c
        /\ \A c \in S : m > 0 /\ c >= items[m] => \E i \in 1..m : items[i] = c
    BY <1>2, NewestLists, Zenon
  <2> HIDE DEF items
  <2> QED
    BY <2>1
<1> HIDE DEF items
<1>4. \A i \in 1..m : /\ items[i] \in S /\ items[i] \in convs /\ items[i] \in Conv
                      /\ items[i] \in Nat /\ items[i] < cursor
  <2>1. \A i \in 1..m : items[i] \in S
    BY <1>3
  <2> QED
    BY <1>2, <2>1
<1>5. /\ exported' \in Seq(Conv) /\ Len(exported') = n + m
      /\ \A i \in 1..n : exported'[i] = exported[i]
      /\ \A i \in 1..m : exported'[n + i] = items[i]
  <2>1. items \in Seq(Conv)
    BY <1>2, <1>3
  <2> QED
    BY <1>1, <1>2, <2>1
<1>6. /\ \A k \in 1..(n + m) : k \in 1..n \/ (k - n \in 1..m /\ exported'[k] = items[k - n])
      /\ DOMAIN exported' = 1..(n + m) /\ DOMAIN exported = 1..n
  <2>1. DOMAIN exported' = 1..(n + m) /\ DOMAIN exported = 1..n
    BY <1>2, <1>5
  <2>2. ASSUME NEW k \in 1..(n + m), k \notin 1..n
        PROVE  k - n \in 1..m /\ exported'[k] = items[k - n]
    <3>1. k - n \in 1..m /\ n + (k - n) = k
      BY <1>2, <1>3, <2>2
    <3> QED
      BY <1>5, <3>1
  <2> QED
    BY <2>1, <2>2
<1>7. cursor' \in Nat /\ cursor' < cursor /\ \A i \in 1..m : items[i] >= cursor'
  <2>1. CASE m < Chunk
    BY <1>1, <1>2, <1>4, <2>1
  <2>2. CASE m = Chunk
    <3>1. m \in 1..m /\ cursor' = items[m]
      BY <1>1, <1>2, <1>3, <2>2
    <3>2. ASSUME NEW i \in 1..m PROVE items[i] >= items[m]
      BY <1>3, <1>4, <3>1, <3>2
    <3> QED
      BY <1>4, <3>1, <3>2
  <2> QED
    BY <1>2, <1>3, <2>1, <2>2
<1>8. \A i \in 1..n : exported[i] \in Nat /\ exported[i] >= cursor
  <2>1. \A i \in 1..n : exported[i] \in Conv
    BY <1>2
  <2> QED
    BY <1>2, <1>6, <2>1 DEF RowsInv, Descends
<1>9. Descends'
  <2>1. base' \subseteq created' /\ (cursor' = Beyond => exported' = <<>>)
    <3>1. cursor' # Beyond
      BY <1>2, <1>7 DEF RowsInv, TypeOK
    <3>2. base' \subseteq created'
      BY <1>1 DEF RowsInv, Descends, dbVars
    <3> QED
      BY <3>1, <3>2 DEF Beyond
  <2>2. ASSUME NEW i \in DOMAIN exported' PROVE exported'[i] >= cursor'
    <3>1. i \in 1..n \/ (i - n \in 1..m /\ exported'[i] = items[i - n])
      BY <1>6, <2>2
    <3>2. CASE i \in 1..n
      <4>1. exported'[i] = exported[i] /\ exported[i] \in Nat /\ exported[i] >= cursor
        BY <1>5, <1>8, <3>2
      <4> QED
        BY <1>2, <1>7, <4>1
    <3> QED
      BY <1>7, <3>1, <3>2
  <2>3. ASSUME NEW i \in DOMAIN exported', NEW j \in DOMAIN exported', i < j
        PROVE  exported'[i] > exported'[j]
    <3>1. i \in 1..(n + m) /\ j \in 1..(n + m)
      BY <1>6
    <3>2. CASE j \in 1..n
      <4>1. i \in 1..n
        BY <1>2, <1>3, <2>3, <3>1, <3>2
      <4> QED
        BY <1>5, <1>6, <2>3, <3>2, <4>1 DEF RowsInv, Descends
    <3>3. CASE j \notin 1..n /\ i \in 1..n
      <4>1. exported'[i] = exported[i] /\ exported[i] \in Nat /\ exported[i] >= cursor
        BY <1>5, <1>8, <3>3
      <4>2. exported'[j] \in Nat /\ exported'[j] < cursor
        BY <1>4, <1>6, <3>1, <3>3
      <4> QED
        BY <1>2, <4>1, <4>2
    <3>4. CASE j \notin 1..n /\ i \notin 1..n
      <4>1. /\ i - n \in 1..m /\ exported'[i] = items[i - n]
            /\ j - n \in 1..m /\ exported'[j] = items[j - n]
        BY <1>6, <3>1, <3>4
      <4>2. i - n < j - n
        BY <1>2, <1>3, <2>3, <3>1
      <4> QED
        BY <1>3, <4>1, <4>2
    <3> QED
      BY <3>2, <3>3, <3>4
  <2>4. ASSUME NEW c \in base' \cap convs', c >= cursor'
        PROVE  \E i \in DOMAIN exported' : exported'[i] = c
    <3>1. c \in base /\ c \in convs /\ c \in Conv /\ c \in Nat
      BY <1>1, <1>2 DEF dbVars, RowsInv, TypeOK
    <3>2. CASE c >= cursor
      <4>1. PICK i \in 1..n : exported[i] = c
        BY <1>6, <3>1, <3>2 DEF RowsInv, Descends
      <4>2. i \in 1..(n + m) /\ exported'[i] = c
        BY <1>2, <1>3, <1>5, <4>1
      <4> QED
        BY <1>6, <4>2
    <3>3. CASE c < cursor
      <4>1. c \in S
        BY <1>2, <3>1, <3>3
      <4>2. PICK i \in 1..m : items[i] = c
        <5>1. CASE m < Chunk
          BY <1>3, <4>1, <5>1
        <5>2. CASE m = Chunk
          BY <1>1, <1>2, <1>3, <2>4, <4>1, <5>2
        <5> QED
          BY <1>2, <1>3, <5>1, <5>2
      <4>3. n + i \in 1..(n + m) /\ exported'[n + i] = c
        BY <1>2, <1>3, <1>5, <4>2, SMTT(20)
      <4> QED
        BY <1>6, <4>3
    <3> QED
      BY <1>2, <3>1, <3>2, <3>3
  <2> QED
    BY <2>1, <2>2, <2>3, <2>4 DEF Descends
<1>10. cursor' \in 0..Beyond
  BY <1>2, <1>7 DEF RowsInv, TypeOK
<1> QED
  BY <1>1, <1>5, <1>9, <1>10, ExportKeeps DEF RowsInv, TypeOK

-----------------------------------------------------------------------------
(* Theorems *)

\* The invariant of the requests, the database and the export.
THEOREM Requests == Spec => []RowsInv
<1>1. Init => RowsInv
  BY InitInv
<1>2. ASSUME RowsInv, [Next]_vars PROVE RowsInv'
  <2>1. CASE UNCHANGED vars
    <3>1. UNCHANGED dbVars /\ UNCHANGED req /\ UNCHANGED exportVars
      BY <2>1 DEF vars, dbVars, exportVars
    <3>2. Descends'
      BY <1>2, <3>1 DEF RowsInv, Descends, dbVars, exportVars
    <3> QED
      BY <1>2, <3>1, <3>2, ExportKeeps DEF RowsInv, TypeOK, exportVars
  <2>2. ASSUME NEW r \in Request, Ask(r) \/ Step(r) PROVE RowsInv'
    BY <1>2, <2>2, AskStep, ReadStep, InsertStep, AgainStep, UpdateStep, CommitStep DEF Step
  <2> QED
    BY <1>2, <2>1, <2>2, BeginExportStep, ExportStep DEF Next
<1> QED
  BY <1>1, <1>2, PTL DEF Spec

\* Requests, rows and the export stay what the model says they are, and whoever is
\* to update or delete a row has read which one.
THEOREM TypeCorrect == Spec => []TypeOK
<1>1. RowsInv => TypeOK
  BY DEF RowsInv
<1> QED
  BY <1>1, Requests, PTL

\* However requests interleave between their reads, their writes and their commits,
\* no rating or share is left without its conversation, no conversation or share
\* without its user, and no user has a conversation shared twice.
THEOREM RowsStaySound == Spec => []RowsAreSound
<1>1. RowsInv => RowsAreSound
  BY DEF RowsInv
<1> QED
  BY <1>1, Requests, PTL

\* A rating fails only over what another request takes away, and one that commits
\* stores what it was asked to.
THEOREM RatingsStay == Spec => RatingsAreKept
<1>1. RowsInv => RacingRatesSucceed
  BY DEF RowsInv, EachRequest, Contested, RacingRatesSucceed, Taken
<1>2. ASSUME RowsInv, [Next]_vars
      PROVE  [\A r \in Request : req[r].kind = "rate" /\ ~At(r, "ok") /\ req'[r].at = "ok" =>
                rating'[req[r].conv].value = req[r].value]_vars
  <2>1. ASSUME NEW r \in Request, Ask(r) \/ Step(r), NEW q \in Request,
               req[q].kind = "rate", ~At(q, "ok"), req'[q].at = "ok"
        PROVE  rating'[req[q].conv].value = req[q].value
    <3>1. q = r /\ Commit(r)
      <4>1. \E x : req' = [req EXCEPT ![r] = x]
        BY <2>1 DEF Ask, Begin, Step, Read, Insert, Again, Update, Commit, Move
      <4>2. q = r
        BY <1>2, <2>1, <4>1 DEF At, RowsInv, TypeOK
      <4>3. ASSUME Ask(r) PROVE req'[r].at = "read"
        BY <1>2, <4>3 DEF Ask, Begin, RowsInv, TypeOK
      <4>4. ASSUME Read(r) \/ Again(r) PROVE req'[r].at # "ok"
        BY <1>2, <4>4 DEF Read, Again, RowsInv, TypeOK
      <4>5. ASSUME Insert(r) \/ Update(r) PROVE req'[r].at # "ok"
        <5>1. PICK l \in {"open", "again", "failed"} : Move(r, l)
          BY <4>5, Zenon DEF Insert, Update
        <5> QED
          BY <1>2, <5>1 DEF Move, RowsInv, TypeOK
      <4> QED
        BY <2>1, <4>2, <4>3, <4>4, <4>5 DEF Step
    <3>2. rating' = [rating EXCEPT ![req[q].conv] = RatingAfter(q)]
      BY <2>1, <3>1 DEF Commit
    <3>3. req[q].conv \in Conv
      BY <1>2, <2>1 DEF RowsInv, EachRequest, Asked
    <3> QED
      BY <1>2, <2>1, <3>2, <3>3 DEF RatingAfter, RowsInv, TypeOK
  <2>2. BeginExport \/ ExportChunk => UNCHANGED req
    BY DEF BeginExport, ExportChunk
  <2> QED
    BY <1>2, <2>1, <2>2 DEF Next, At, vars
<1> QED
  BY <1>1, <1>2, Requests, PTL DEF Spec, RatingsAreKept, AnsweredIsStored

\* Whatever is created and deleted meanwhile, the export never repeats a
\* conversation, and when it ends it has left out none of those there throughout.
THEOREM ExportStaysWhole == Spec => []ExportIsWhole
<1>1. ASSUME RowsInv PROVE ExportIsWhole
  <2>1. \A i \in DOMAIN exported : i \in Int /\ exported[i] \in Int
    BY <1>1, WorkspaceAssumption DEF RowsInv, TypeOK, Conv
  <2>2. \A i, j \in DOMAIN exported : i # j => exported[i] # exported[j]
    BY <1>1, <2>1 DEF RowsInv, Descends
  <2>3. cursor = 0 => \A c \in base \cap convs : c >= cursor
    BY <1>1, WorkspaceAssumption DEF RowsInv, TypeOK, Conv
  <2> QED
    BY <1>1, <2>2, <2>3 DEF RowsInv, Descends, ExportIsWhole
<1> QED
  BY <1>1, Requests, PTL

-----------------------------------------------------------------------------
(* ConversationPage: it comes to rest with what the server has, and its     *)
(* address names what it shows, for a user of any haste.                    *)
(*                                                                          *)
(* A user who waits has one call under way at most.  When it has been       *)
(* served, what is right is the list that its answer will leave.            *)

-----------------------------------------------------------------------------
(* Lists of the server's conversations                                      *)

\* The first n.
Heads(sv, n) == {sv[i] : i \in 1 .. n}

\* The list l has the first of sv, each once.
Firsts(l, sv) ==
  /\ \A i, j \in DOMAIN l : l[i].id = l[j].id => i = j
  /\ Len(l) <= Len(sv) /\ Ids(l) = Heads(sv, Len(l))

\* Some conversation of bg is not in l, with none before it but those that are, or
\* are of bg.
Leads(l, sv, bg) ==
  \E p \in DOMAIN sv : sv[p] \in bg \ Ids(l) /\ Heads(sv, p - 1) \subseteq Ids(l) \cup bg

Good(l, sv, bg) == (Firsts(l, sv) \/ Leads(l, sv, bg)) /\ Ids(l) \subseteq ToSet(sv)

\* t is sv with the conversation at p moved to the front.
MovesUp(sv, p, t) ==
  /\ t \in Seq(ConvId) /\ IsInjective(t) /\ Len(t) = Len(sv) /\ ToSet(t) = ToSet(sv)
  /\ t[1] = sv[p]
  /\ \A j \in 1 .. Len(sv) : j < p => t[j + 1] = sv[j]
  /\ \A j \in 1 .. Len(sv) : p < j => t[j] = sv[j]

LEMMA MovedUp ==
  ASSUME NEW sv \in Seq(ConvId), IsInjective(sv), NEW p \in DOMAIN sv
  PROVE  MovesUp(sv, p, <<sv[p]>> \o Keep(sv, ConvId \ {sv[p]}))
<1> DEFINE c == sv[p]
           T == ConvId \ {c}
           r == Keep(sv, T)
           n == Len(sv)
           t == <<c>> \o r
<1>1. n \in Nat /\ DOMAIN sv = 1 .. n /\ p \in 1 .. n /\ c \in ConvId
  OBVIOUS
<1>2. \A x \in ToSet(sv) : x \in T <=> x # sv[p]
  BY DEF ToSet
<1> HIDE DEF T
<1>3. /\ r \in Seq(ConvId) /\ Len(r) = n - 1
      /\ \A j \in 1 .. (n - 1) : r[j] = IF j < p THEN sv[j] ELSE sv[j + 1]
  BY <1>2, KeepWithout, Zenon
<1>4. ToSet(r) = ToSet(sv) \cap T /\ IsInjective(r)
  BY Kept, Zenon
<1>11. c \in ConvId /\ r \in Seq(ConvId)
  BY <1>1, <1>3, Zenon
<1> HIDE DEF r, c
<1>5. /\ t \in Seq(ConvId) /\ Len(t) = Len(r) + 1 /\ t[1] = c
      /\ \A j \in 1 .. Len(r) : t[j + 1] = r[j]
      /\ ToSet(t) = {c} \cup ToSet(r)
      /\ c \notin ToSet(r) => IsInjective(t)
  <2>1. /\ <<c>> \o r \in Seq(ConvId) /\ Len(<<c>> \o r) = Len(r) + 1
        /\ (<<c>> \o r)[1] = c /\ \A j \in 1 .. Len(r) : (<<c>> \o r)[j + 1] = r[j]
        /\ ToSet(<<c>> \o r) = {c} \cup ToSet(r)
        /\ IsInjective(r) /\ c \notin ToSet(r) => IsInjective(<<c>> \o r)
    BY <1>11, Fronted, Zenon
  <2> QED
    BY <1>4, <2>1, Zenon
<1> HIDE DEF n, t
<1>6. Len(t) = n
  BY <1>1, <1>3, <1>5
<1>7. c \in ToSet(sv) /\ ToSet(sv) \subseteq ConvId
  BY <1>1, Entries DEF ToSet, c
<1>8. ToSet(t) = ToSet(sv) /\ IsInjective(t)
  BY <1>4, <1>5, <1>7 DEF T
<1>9. ASSUME NEW j \in 1 .. n, j < p PROVE t[j + 1] = sv[j]
  <2>1. j \in 1 .. (n - 1)
    BY <1>1, <1>9
  <2> QED
    BY <1>3, <1>5, <1>9, <2>1
<1>10. ASSUME NEW j \in 1 .. n, p < j PROVE t[j] = sv[j]
  <2>1. j - 1 \in 1 .. (n - 1) /\ ~(j - 1 < p) /\ (j - 1) + 1 = j
    BY <1>1, <1>10
  <2>2. t[(j - 1) + 1] = r[j - 1]
    BY <1>3, <1>5, <2>1
  <2> QED
    BY <1>3, <2>1, <2>2
<1> QED
  BY <1>5, <1>6, <1>8, <1>9, <1>10 DEF MovesUp, n, c, t, r, T

\* A conversation of the list that becomes the first leaves the list what it was.
LEMMA GoodTouched ==
  ASSUME NEW sv \in Seq(ConvId), IsInjective(sv), NEW c, NEW l \in Seq(Item),
         NEW bg, Good(l, sv, bg), NEW p \in DOMAIN sv, sv[p] = c, c \in Ids(l),
         NEW t, MovesUp(sv, p, t)
  PROVE  Good(l, t, bg)
<1> DEFINE n == Len(sv)
           m == Len(l)
<1>1. c = sv[p]
  OBVIOUS
<1>2. n \in Nat /\ DOMAIN sv = 1 .. n /\ p \in 1 .. n /\ m \in Nat /\ DOMAIN l = 1 .. m
  BY <1>1
<1>3. \A i, j \in 1 .. n : sv[i] = sv[j] => i = j
  BY <1>2 DEF IsInjective
<1>4. /\ t \in Seq(ConvId) /\ Len(t) = n /\ ToSet(t) = ToSet(sv) /\ t[1] = c
      /\ \A j \in 1 .. n : j < p => t[j + 1] = sv[j]
      /\ \A j \in 1 .. n : p < j => t[j] = sv[j]
  BY DEF MovesUp
<1>5. DOMAIN t = 1 .. n
  BY <1>2, <1>4
<1>6. ASSUME NEW i \in 1 .. n PROVE t[i] = c \/ (i <= p /\ i - 1 \in 1 .. n /\ t[i] = sv[i - 1])
                                     \/ (p < i /\ t[i] = sv[i])
  <2>1. CASE i = 1
    BY <1>4, <2>1
  <2>2. CASE i # 1 /\ i <= p
    <3>1. i - 1 \in 1 .. n /\ i - 1 < p /\ (i - 1) + 1 = i
      BY <1>2, <2>2
    <3>2. t[(i - 1) + 1] = sv[i - 1]
      BY <1>4, <3>1
    <3> QED
      BY <2>2, <3>1, <3>2
  <2>3. CASE p < i
    BY <1>4, <2>3
  <2>4. i = 1 \/ (i # 1 /\ i <= p) \/ p < i
    BY <1>2
  <2> QED
    BY <2>1, <2>2, <2>3, <2>4
<1> HIDE DEF n, m
<1>7. CASE Firsts(l, sv)
  <2>1. m <= n /\ Ids(l) = Heads(sv, m)
    BY <1>7 DEF Firsts, n, m
  <2>2. p <= m
    <3>1. PICK i \in 1 .. m : sv[i] = c
      BY <2>1 DEF Heads
    <3>2. i \in 1 .. n
      BY <1>2, <2>1
    <3> QED
      BY <1>1, <1>2, <1>3, <3>1, <3>2
  <2>3. ASSUME NEW i \in 1 .. m PROVE t[i] \in Heads(sv, m)
    <3>1. i \in 1 .. n /\ p \in 1 .. m /\ (i - 1 \in 1 .. n => i - 1 \in 1 .. m)
      BY <1>2, <2>1, <2>2
    <3> QED
      BY <1>1, <1>6, <3>1 DEF Heads
  <2>4. ASSUME NEW i \in 1 .. m PROVE sv[i] \in Heads(t, m)
    <3>1. CASE i < p
      <4>1. i \in 1 .. n /\ i + 1 \in 1 .. m
        BY <1>2, <2>1, <2>2, <3>1
      <4> QED
        BY <1>4, <3>1, <4>1 DEF Heads
    <3>2. CASE i = p
      <4>1. 1 \in 1 .. m
        BY <1>2
      <4> QED
        BY <1>1, <1>4, <3>2, <4>1 DEF Heads
    <3>3. CASE p < i
      <4>1. i \in 1 .. n
        BY <1>2, <2>1
      <4> QED
        BY <1>4, <3>3, <4>1 DEF Heads
    <3> QED
      BY <1>2, <3>1, <3>2, <3>3
  <2>5. Heads(t, m) = Heads(sv, m)
    BY <2>3, <2>4 DEF Heads
  <2>6. Firsts(l, t)
    BY <1>4, <1>7, <2>1, <2>5 DEF Firsts, m
  <2> QED
    BY <1>4, <2>6 DEF Good
<1>8. CASE Leads(l, sv, bg)
  <2>1. PICK q \in 1 .. n : sv[q] \in bg \ Ids(l) /\ Heads(sv, q - 1) \subseteq Ids(l) \cup bg
    BY <1>2, <1>8 DEF Leads
  <2>2. q # p
    BY <1>1, <2>1
  <2>3. CASE q < p
    <3>0. n \in Nat /\ p \in 1 .. n
      BY <1>2
    <3>1. q + 1 \in 1 .. n /\ t[q + 1] = sv[q]
      BY <1>4, <2>3, <3>0
    <3>2. ASSUME NEW i \in 1 .. q PROVE t[i] \in Ids(l) \cup bg
      <4>1. i \in 1 .. n /\ ~(p < i) /\ (i - 1 \in 1 .. n => i - 1 \in 1 .. (q - 1))
        BY <1>2, <2>3
      <4>2. t[i] = c \/ t[i] \in Heads(sv, q - 1)
        BY <1>6, <4>1 DEF Heads
      <4> QED
        BY <2>1, <4>2
    <3>3. Heads(t, (q + 1) - 1) \subseteq Ids(l) \cup bg
      <4>1. (q + 1) - 1 = q
        BY <1>2
      <4> QED
        BY <3>2, <4>1 DEF Heads
    <3> QED
      BY <1>4, <1>5, <2>1, <3>1, <3>3 DEF Good, Leads
  <2>4. CASE p < q
    <3>1. t[q] = sv[q]
      BY <1>4, <2>4
    <3>2. ASSUME NEW i \in 1 .. (q - 1) PROVE t[i] \in Ids(l) \cup bg
      <4>1. i \in 1 .. n /\ (i - 1 \in 1 .. n => i - 1 \in 1 .. (q - 1))
        BY <1>2
      <4>2. t[i] = c \/ t[i] \in Heads(sv, q - 1)
        BY <1>6, <4>1 DEF Heads
      <4> QED
        BY <2>1, <4>2
    <3>3. Heads(t, q - 1) \subseteq Ids(l) \cup bg
      BY <3>2 DEF Heads
    <3> QED
      BY <1>4, <1>5, <2>1, <3>1, <3>3 DEF Good, Leads
  <2> QED
    BY <1>2, <2>2, <2>3, <2>4
<1> QED
  BY <1>7, <1>8 DEF Good

\* t is s without its entry at p.
Drops(s, p, t) ==
  /\ Len(t) = Len(s) - 1
  /\ \A j \in 1 .. (Len(s) - 1) : t[j] = IF j < p THEN s[j] ELSE s[j + 1]

\* The first of a list without one of them.
LEMMA HeadsDropped ==
  ASSUME NEW S, NEW s \in Seq(S), IsInjective(s), NEW p \in DOMAIN s, NEW t, Drops(s, p, t),
         NEW m \in 1 .. Len(s)
  PROVE  /\ p <= m => Heads(t, m - 1) = Heads(s, m) \ {s[p]}
         /\ m <= p => Heads(t, m - 1) = Heads(s, m - 1)
<1> DEFINE n == Len(s)
<1>1. n \in Nat /\ DOMAIN s = 1 .. n /\ p \in 1 .. n /\ m \in 1 .. n
  OBVIOUS
<1>2. \A i, j \in 1 .. n : s[i] = s[j] => i = j
  BY <1>1 DEF IsInjective
<1>3. \A j \in 1 .. (n - 1) : (j < p => t[j] = s[j]) /\ (~(j < p) => t[j] = s[j + 1])
  BY DEF Drops
<1> HIDE DEF n
<1>4. ASSUME p <= m PROVE Heads(t, m - 1) = Heads(s, m) \ {s[p]}
  <2>1. ASSUME NEW j \in 1 .. (m - 1) PROVE t[j] \in Heads(s, m) \ {s[p]}
    <3>1. /\ j \in 1 .. (n - 1) /\ j \in 1 .. m /\ j + 1 \in 1 .. m
          /\ j \in 1 .. n /\ j + 1 \in 1 .. n
          /\ (j < p => j # p) /\ (~(j < p) => j + 1 # p)
      BY <1>1
    <3> QED
      BY <1>1, <1>2, <1>3, <3>1 DEF Heads
  <2>2. ASSUME NEW i \in 1 .. m, s[i] # s[p] PROVE s[i] \in Heads(t, m - 1)
    <3>1. CASE i < p
      <4>1. i \in 1 .. (m - 1) /\ i \in 1 .. (n - 1)
        BY <1>1, <1>4, <3>1
      <4> QED
        BY <1>3, <3>1, <4>1 DEF Heads
    <3>2. CASE p < i
      <4>1. i - 1 \in 1 .. (m - 1) /\ i - 1 \in 1 .. (n - 1) /\ ~(i - 1 < p) /\ (i - 1) + 1 = i
        BY <1>1, <1>4, <3>2
      <4>2. t[i - 1] = s[(i - 1) + 1]
        BY <1>3, <4>1
      <4> QED
        BY <4>1, <4>2 DEF Heads
    <3> QED
      BY <1>1, <2>2, <3>1, <3>2
  <2> QED
    BY <2>1, <2>2 DEF Heads
<1>5. ASSUME m <= p PROVE Heads(t, m - 1) = Heads(s, m - 1)
  <2>1. \A j \in 1 .. (m - 1) : j \in 1 .. (n - 1) /\ j < p
    BY <1>1, <1>5
  <2>2. \A j \in 1 .. (m - 1) : t[j] = s[j]
    BY <1>3, <2>1
  <2> QED
    BY <2>2 DEF Heads
<1> QED
  BY <1>4, <1>5

\* A conversation that is gone from both.
LEMMA GoodRemoved ==
  ASSUME NEW sv \in Seq(ConvId), IsInjective(sv), NEW c \in ToSet(sv), NEW l \in Seq(Item),
         NEW bg, Good(l, sv, bg), c \in Ids(l)
  PROVE  Good(Keep(l, {x \in Item : x.id # c}), Keep(sv, ConvId \ {c}), bg)
<1> DEFINE A == {x \in Item : x.id # c}
           C == ConvId \ {c}
           r == Keep(l, A)
           t == Keep(sv, C)
           n == Len(sv)
           m == Len(l)
<1>1. PICK p \in DOMAIN sv : sv[p] = c
  BY DEF ToSet
<1>2. n \in Nat /\ DOMAIN sv = 1 .. n /\ p \in 1 .. n /\ m \in Nat /\ DOMAIN l = 1 .. m
  BY <1>1
<1>3. \A x \in ToSet(sv) : x \in C <=> x # sv[p]
  BY <1>1 DEF ToSet
<1>4. r \in Seq(Item) /\ ToSet(r) = ToSet(l) \cap A /\ (IsInjective(l) => IsInjective(r))
  BY Kept, Zenon
<1>5. /\ t \in Seq(ConvId) /\ ToSet(t) = ToSet(sv) \cap C /\ Drops(sv, p, t)
  <2> HIDE DEF A, C, m, n, r, t
  <2>1. t \in Seq(ConvId) /\ ToSet(t) = ToSet(sv) \cap C
    BY Kept, Zenon DEF t
  <2>2. /\ Keep(sv, C) \in Seq(ConvId) /\ Len(Keep(sv, C)) = Len(sv) - 1
        /\ \A j \in 1 .. (Len(sv) - 1) : Keep(sv, C)[j] = IF j < p THEN sv[j] ELSE sv[j + 1]
    BY <1>3, KeepWithout
  <2>3. Drops(sv, p, t)
    BY <2>2, Zenon DEF Drops, t
  <2> QED
    BY <2>1, <2>3
<1>6. \A q \in Seq(Item) : Ids(q) = {x.id : x \in ToSet(q)}
  BY DEF Ids, ToSet
<1> HIDE DEF r, t
<1>7. Ids(r) = Ids(l) \ {c}
  <2>1. ToSet(l) \subseteq Item
    BY Entries
  <2> QED
    BY <1>4, <1>6, <2>1
<1>8. Ids(r) \subseteq ToSet(t)
  <2>1. Ids(l) \subseteq ToSet(sv) /\ ToSet(sv) \subseteq ConvId
    BY Entries DEF Good
  <2> QED
    BY <1>5, <1>7, <2>1
<1> HIDE DEF n, m, A, C
<1>9. CASE Firsts(l, sv)
  <2>1. /\ \A i, j \in 1 .. m : l[i].id = l[j].id => i = j
        /\ m <= n /\ Ids(l) = Heads(sv, m)
    BY <1>2, <1>9 DEF Firsts, n, m
  <2>2. PICK q \in 1 .. m : l[q].id = c
    BY <1>2 DEF Ids
  <2>3. p <= m /\ m \in 1 .. n
    <3>1. PICK i \in 1 .. m : sv[i] = c
      BY <2>1 DEF Heads
    <3>2. i \in 1 .. n
      BY <1>2, <2>1
    <3>3. \A i1, j1 \in 1 .. n : sv[i1] = sv[j1] => i1 = j1
      BY <1>2 DEF IsInjective
    <3>4. i = p
      BY <1>1, <1>2, <3>1, <3>2, <3>3
    <3> QED
      BY <1>2, <2>1, <3>4
  <2>4. IsInjective(l)
    BY <1>2, <2>1 DEF IsInjective
  <2>5. Len(r) = m - 1
    <3>1. \A x \in ToSet(l) : x \in A <=> x # l[q]
      BY <1>2, <2>1, <2>2, Entries DEF A, ToSet
    <3>2. q \in DOMAIN l
      BY <1>2
    <3> QED
      BY <2>4, <3>1, <3>2, KeepWithout, Zenon DEF r, m
  <2>6. Ids(r) = Heads(t, m - 1)
    <3>1. Heads(t, m - 1) = Heads(sv, m) \ {sv[p]}
      BY <1>5, <2>3, HeadsDropped DEF n
    <3> QED
      BY <1>1, <1>7, <2>1, <3>1
  <2>7. ASSUME NEW i \in DOMAIN r, NEW j \in DOMAIN r, r[i].id = r[j].id PROVE i = j
    <3>1. r[i] \in ToSet(l) /\ r[j] \in ToSet(l)
      BY <1>4 DEF ToSet
    <3>2. r[i] = r[j]
      BY <1>2, <2>1, <2>7, <3>1 DEF ToSet
    <3> QED
      BY <1>4, <2>4, <3>2 DEF IsInjective
  <2>8. Len(t) = n - 1
    BY <1>5 DEF Drops, n
  <2>9. Len(r) <= Len(t)
    BY <1>2, <2>1, <2>5, <2>8
  <2>10. Firsts(r, t)
    BY <2>5, <2>6, <2>7, <2>9 DEF Firsts
  <2> QED
    BY <1>8, <2>10 DEF Good, r, t, A, C
<1>10. CASE Leads(l, sv, bg)
  <2>1. PICK q \in 1 .. n : sv[q] \in bg \ Ids(l) /\ Heads(sv, q - 1) \subseteq Ids(l) \cup bg
    BY <1>2, <1>10 DEF Leads
  <2>2. q # p
    BY <1>1, <2>1
  <2>3. Len(t) = n - 1 /\ DOMAIN t = 1 .. (n - 1)
    BY <1>2, <1>5 DEF Drops, n
  <2>4. \A j \in 1 .. (n - 1) : (j < p => t[j] = sv[j]) /\ (~(j < p) => t[j] = sv[j + 1])
    BY <1>5 DEF Drops, n
  <2>5. CASE q < p
    <3>1. q \in 1 .. (n - 1) /\ t[q] = sv[q]
      BY <1>2, <2>4, <2>5
    <3>2. Heads(t, q - 1) = Heads(sv, q - 1)
      BY <1>2, <1>5, <2>5, HeadsDropped DEF n
    <3>3. c \notin Heads(sv, q - 1)
      BY <1>1, <1>2, <2>5 DEF Heads, IsInjective
    <3>4. Leads(r, t, bg)
      BY <1>7, <2>1, <2>3, <3>1, <3>2, <3>3 DEF Leads
    <3> QED
      BY <1>8, <3>4 DEF Good, r, t, A, C
  <2>6. CASE p < q
    <3>1. /\ q - 1 \in 1 .. (n - 1) /\ ~(q - 1 < p) /\ (q - 1) + 1 = q
          /\ q - 1 \in 1 .. n /\ p <= q - 1
      BY <1>2, <2>6
    <3>2. t[q - 1] = sv[q]
      BY <2>4, <3>1
    <3>3. Heads(t, (q - 1) - 1) = Heads(sv, q - 1) \ {sv[p]}
      BY <1>5, <3>1, HeadsDropped DEF n
    <3>4. Leads(r, t, bg)
      BY <1>1, <1>7, <2>1, <2>3, <3>1, <3>2, <3>3 DEF Leads
    <3> QED
      BY <1>8, <3>4 DEF Good, r, t, A, C
  <2> QED
    BY <1>2, <2>2, <2>5, <2>6
<1> QED
  BY <1>9, <1>10 DEF Good, r, t, A, C

\* A conversation that is begun is before all that the list has.
LEMMA GoodBegun ==
  ASSUME NEW sv \in Seq(ConvId), IsInjective(sv), NEW c \in ConvId, c \notin ToSet(sv),
         NEW l, NEW bg, Ids(l) \subseteq ToSet(sv), NEW t, t = <<c>> \o Keep(sv, ConvId \ {c})
  PROVE  /\ t \in Seq(ConvId) /\ IsInjective(t) /\ ToSet(t) = ToSet(sv) \cup {c}
         /\ Good(l, t, bg \cup {c})
<1>1. Keep(sv, ConvId \ {c}) = sv
  <2>1. ToSet(sv) \subseteq ConvId \ {c}
    BY Entries
  <2> QED
    BY <2>1, KeepSame, Zenon
<1>2. t = <<c>> \o sv
  BY <1>1
<1>3. /\ <<c>> \o sv \in Seq(ConvId) /\ Len(<<c>> \o sv) = Len(sv) + 1
      /\ (<<c>> \o sv)[1] = c /\ \A j \in 1 .. Len(sv) : (<<c>> \o sv)[j + 1] = sv[j]
      /\ ToSet(<<c>> \o sv) = {c} \cup ToSet(sv)
      /\ IsInjective(sv) /\ c \notin ToSet(sv) => IsInjective(<<c>> \o sv)
  BY Fronted, Zenon
<1>4. /\ t \in Seq(ConvId) /\ IsInjective(t) /\ ToSet(t) = ToSet(sv) \cup {c}
      /\ t[1] = c /\ Len(t) = Len(sv) + 1
  BY <1>2, <1>3
<1>5. 1 \in DOMAIN t
  <2>1. Len(sv) \in Nat
    OBVIOUS
  <2> QED
    BY <1>4, <2>1
<1>6. Heads(t, 1 - 1) = {}
  BY DEF Heads
<1> QED
  BY <1>4, <1>5, <1>6 DEF Good, Leads

\* Whether a list is right depends on what conversations it has where, not on flags.
LEMMA GoodFlags ==
  ASSUME NEW l \in Seq(Item), NEW r \in Seq(Item), Len(r) = Len(l),
         \A i \in DOMAIN l : r[i].id = l[i].id, NEW sv, NEW bg
  PROVE  Ids(r) = Ids(l) /\ (Good(l, sv, bg) => Good(r, sv, bg))
<1>1. DOMAIN r = DOMAIN l
  OBVIOUS
<1>2. Ids(r) = Ids(l)
  BY <1>1 DEF Ids
<1>3. Firsts(l, sv) => Firsts(r, sv)
  BY <1>1, <1>2 DEF Firsts
<1>4. Leads(l, sv, bg) => Leads(r, sv, bg)
  BY <1>2 DEF Leads
<1> QED
  BY <1>2, <1>3, <1>4 DEF Good

\* A list has no more conversations than entries; when as many, each once.
LEMMA IdsCount ==
  ASSUME NEW l \in Seq(Item)
  PROVE  /\ IsFiniteSet(Ids(l)) /\ Cardinality(Ids(l)) \in Nat /\ Cardinality(Ids(l)) <= Len(l)
         /\ Cardinality(Ids(l)) = Len(l) => \A i, j \in DOMAIN l : l[i].id = l[j].id => i = j
<1> DEFINE m == Len(l)
           f == [i \in 1 .. m |-> l[i].id]
<1>1. m \in Nat /\ DOMAIN l = 1 .. m
  OBVIOUS
<1>2. IsFiniteSet(1 .. m) /\ Cardinality(1 .. m) = m
  BY <1>1, FS_Interval
<1>3. f \in [1 .. m -> Ids(l)] /\ \A x \in Ids(l) : \E i \in 1 .. m : f[i] = x
  BY <1>1 DEF Ids
<1>4. \A i \in 1 .. m : f[i] = l[i].id
  OBVIOUS
<1> HIDE DEF f, m
<1>5. f \in Surjection(1 .. m, Ids(l))
  BY <1>3, Zenon DEF Surjection
<1>6. /\ IsFiniteSet(Ids(l)) /\ Cardinality(Ids(l)) <= m
      /\ Cardinality(Ids(l)) = m => f \in Injection(1 .. m, Ids(l))
  BY <1>2, <1>5, FS_Surjection
<1>7. f \in Injection(1 .. m, Ids(l)) => \A i, j \in 1 .. m : f[i] = f[j] => i = j
  BY <1>3 DEF Injection, IsInjective
<1> QED
  BY <1>1, <1>4, <1>6, <1>7, FS_CardinalityType DEF m

LEMMA HeadsCount ==
  ASSUME NEW S, NEW s \in Seq(S), IsInjective(s), NEW n \in 0 .. Len(s)
  PROVE  IsFiniteSet(Heads(s, n)) /\ Cardinality(Heads(s, n)) = n
<1> DEFINE f == [i \in 1 .. n |-> s[i]]
<1>1. n \in Nat /\ \A i \in 1 .. n : i \in DOMAIN s
  OBVIOUS
<1>2. f \in [1 .. n -> Heads(s, n)] /\ \A x \in Heads(s, n) : \E i \in 1 .. n : f[i] = x
  BY DEF Heads
<1>3. \A i, j \in 1 .. n : f[i] = f[j] => i = j
  BY <1>1 DEF IsInjective
<1> HIDE DEF f
<1> QED
  BY <1>1, <1>2, <1>3, Counted

\* A conversation that was begun and is missing is within as many as the list has,
\* unless the list has the first of them.
LEMMA MissingIsSoon ==
  ASSUME NEW sv \in Seq(ConvId), IsInjective(sv), NEW l \in Seq(Item), NEW bg, Leads(l, sv, bg)
  PROVE  \/ Firsts(l, sv)
         \/ \E q \in DOMAIN sv : /\ q <= Len(l) /\ sv[q] \in bg \ Ids(l)
                                 /\ Heads(sv, q - 1) \subseteq Ids(l)
<1> DEFINE n == Len(sv)
           m == Len(l)
           P == {i \in 1 .. n : sv[i] \in bg \ Ids(l)}
<1>1. n \in Nat /\ DOMAIN sv = 1 .. n /\ m \in Nat /\ DOMAIN l = 1 .. m
  OBVIOUS
<1>2. PICK p \in 1 .. n : sv[p] \in bg \ Ids(l) /\ Heads(sv, p - 1) \subseteq Ids(l) \cup bg
  BY <1>1 DEF Leads
<1> HIDE DEF n, m
<1>3. P \in SUBSET (1 .. n) /\ p \in P
  BY <1>2
<1>4. PICK q \in P : Before(P, q) = {}
  <2> HIDE DEF P
  <2>1. \A i \in P : \E k \in 1 .. Cardinality(P) : Cardinality(Before(P, i)) = k - 1
    BY <1>1, <1>3, EveryPlace, Zenon
  <2>2. IsFiniteSet(P) /\ Cardinality(P) \in Nat
    BY <1>1, <1>3, BeforeCounts
  <2>3. 1 \in 1 .. Cardinality(P)
    BY <1>3, <2>1, <2>2
  <2>4. \A k \in 1 .. Cardinality(P) : \E i \in P : Cardinality(Before(P, i)) = k - 1
    BY <1>1, <1>3, EveryPlace, Zenon
  <2>5. PICK q \in P : Cardinality(Before(P, q)) = 0
    BY <2>3, <2>4
  <2>6. Before(P, q) \in SUBSET P
    BY DEF Before
  <2>7. IsFiniteSet(Before(P, q))
    BY <2>2, <2>6, FS_Subset
  <2> QED
    BY <2>5, <2>7, FS_EmptySet
<1>5. q \in 1 .. n /\ sv[q] \in bg \ Ids(l) /\ q <= p
  <2>1. ~(p < q)
    BY <1>3, <1>4 DEF Before
  <2> QED
    BY <1>1, <2>1
<1>6. Heads(sv, q - 1) \subseteq Ids(l)
  <2>1. ASSUME NEW i \in 1 .. (q - 1) PROVE sv[i] \in Ids(l)
    <3>1. i \in 1 .. n /\ i < q /\ i \in 1 .. (p - 1)
      BY <1>1, <1>5
    <3>2. i \notin P
      BY <1>4, <3>1 DEF Before
    <3>3. sv[i] \in Ids(l) \cup bg
      BY <1>2, <3>1 DEF Heads
    <3> QED
      BY <3>1, <3>2, <3>3
  <2> QED
    BY <2>1 DEF Heads
<1>7. /\ IsFiniteSet(Ids(l)) /\ Cardinality(Ids(l)) \in Nat /\ Cardinality(Ids(l)) <= m
      /\ Cardinality(Ids(l)) = m => \A i, j \in DOMAIN l : l[i].id = l[j].id => i = j
  BY IdsCount DEF m
<1>8. IsFiniteSet(Heads(sv, q - 1)) /\ Cardinality(Heads(sv, q - 1)) = q - 1
  <2>1. q - 1 \in 0 .. Len(sv)
    BY <1>1, <1>5 DEF n
  <2> QED
    BY <2>1, HeadsCount, Zenon
<1>9. /\ q - 1 <= Cardinality(Ids(l))
      /\ Cardinality(Ids(l)) = q - 1 => Heads(sv, q - 1) = Ids(l)
  BY <1>6, <1>7, <1>8, FS_Subset
<1>10. CASE q <= m
  BY <1>1, <1>5, <1>6, <1>10 DEF m
<1>11. CASE ~(q <= m)
  <2>1. m = q - 1 /\ Cardinality(Ids(l)) = m
    BY <1>1, <1>5, <1>7, <1>9, <1>11
  <2>2. m <= n /\ Heads(sv, m) = Ids(l)
    BY <1>1, <1>5, <1>9, <2>1
  <2> QED
    BY <1>7, <2>1, <2>2 DEF Firsts, m, n
<1> QED
  BY <1>10, <1>11

\* The flags are those of the archived conversations.
FlagsRight(l, ar) == \A i \in DOMAIN l : l[i].archived = (l[i].id \in ar)

\* What a list is for a user who waits, with more, or no more, to be fetched.
Right(l, m, sv, ar, bg) ==
  Good(l, sv, bg) /\ FlagsRight(l, ar) /\ (bg = {} /\ ~m => Ids(l) = ToSet(sv))

ServerTyped == server \in Seq(ConvId) /\ IsInjective(server)

\* q is what the server has after the first n, up to a page of it.
PageAfter(q, n) ==
  /\ q \in Seq(Item)
  /\ \A i \in 1 .. Len(q) : /\ n + i \in 1 .. Len(server) /\ q[i].id = server[n + i]
                            /\ q[i].archived = (server[n + i] \in archived)
  /\ Len(q) < PageSize => Len(server) <= n + Len(q)

LEMMA PageIsAfter ==
  ASSUME ServerTyped, NEW n \in Nat
  PROVE  PageAfter(PageAt(n), n)
<1> DEFINE z == Len(server)
           last == IF n + PageSize < z THEN n + PageSize ELSE z
           w == last - n
           q == PageAt(n)
<1>1. z \in Nat /\ PageSize \in Nat /\ DOMAIN server = 1 .. z /\ \A i \in 1 .. z : server[i] \in ConvId
  BY PageAssumption DEF ServerTyped
<1>2. q = [i \in 1 .. w |-> [id |-> server[n + i], archived |-> server[n + i] \in archived]]
  BY Zenon DEF PageAt
<1> HIDE DEF z, q
<1>3. last \in Nat /\ last <= z /\ (n < last => last <= n + PageSize)
      /\ w \in Int /\ w = last - n /\ (w < PageSize => z <= n + w)
  BY <1>1
<1> HIDE DEF last, w
<1>4. \A i \in 1 .. w : n + i \in 1 .. z
  BY <1>1, <1>3
<1>5. \A i \in 1 .. w : q[i].id = server[n + i] /\ q[i].archived = (server[n + i] \in archived)
  BY <1>2
<1>6. \A i \in 1 .. w : q[i] \in Item
  BY <1>1, <1>2, <1>4 DEF Item
<1>7. CASE w >= 0
  <2>1. w \in Nat
    BY <1>3, <1>7
  <2>2. q \in [1 .. w -> Item]
    BY <1>2, <1>6
  <2>3. q \in Seq(Item) /\ Len(q) = w
    BY <2>1, <2>2
  <2> QED
    BY <1>3, <1>4, <1>5, <2>3 DEF PageAfter, q, z
<1>8. CASE w < 0
  <2>1. 1 .. w = 1 .. 0
    BY <1>3, <1>8
  <2>2. q \in [1 .. 0 -> Item]
    BY <1>2, <1>6, <2>1
  <2>3. q \in Seq(Item) /\ Len(q) = 0
    BY <2>2
  <2>4. z <= n + 0
    BY <1>1, <1>3, <1>8
  <2>5. \A i \in 1 .. 0 : FALSE
    OBVIOUS
  <2> QED
    BY <2>3, <2>4, <2>5 DEF PageAfter, q, z
<1> QED
  BY <1>3, <1>7, <1>8

\* The next page put after a list that is right.
LEMMA RightWithPage ==
  ASSUME ServerTyped, NEW l \in Seq(Item), Good(l, server, begun),
         FlagsRight(l, archived), NEW q, PageAfter(q, Len(l))
  PROVE  Right(l \o q, Len(q) >= PageSize, server, archived, begun)
<1> DEFINE n == Len(server)
           m == Len(l)
           k == Len(q)
           r == l \o q
<1>1. /\ n \in Nat /\ m \in Nat /\ k \in Nat /\ PageSize \in Nat
      /\ DOMAIN server = 1 .. n /\ DOMAIN l = 1 .. m /\ DOMAIN q = 1 .. k /\ q \in Seq(Item)
  BY PageAssumption DEF ServerTyped, PageAfter
<1>2. /\ r \in Seq(Item) /\ Len(r) = m + k
      /\ \A i \in 1 .. m + k : r[i] = IF i <= m THEN l[i] ELSE q[i - m]
  BY <1>1, ConcatProperties, Zenon
<1>3. \A i \in 1 .. k : /\ m + i \in 1 .. n /\ q[i].id = server[m + i]
                        /\ q[i].archived = (server[m + i] \in archived)
  BY DEF PageAfter
<1>4. k < PageSize => n <= m + k
  BY DEF PageAfter
<1>5. \A i \in 1 .. m : i \in 1 .. m + k /\ r[i] = l[i]
  <2>1. \A i \in 1 .. m : i \in 1 .. m + k /\ i <= m
    BY <1>1
  <2> QED
    BY <1>2, <2>1
<1>6. \A i \in 1 .. k : m + i \in 1 .. m + k /\ r[m + i] = q[i]
  <2>1. \A i \in 1 .. k : m + i \in 1 .. m + k /\ ~(m + i <= m) /\ (m + i) - m = i
    BY <1>1
  <2> QED
    BY <1>2, <2>1
<1>7. \A i \in 1 .. m + k : i \in 1 .. m \/ (i - m \in 1 .. k /\ m + (i - m) = i)
  BY <1>1
<1>8. DOMAIN r = 1 .. m + k
  BY <1>2
<1> HIDE DEF r, n, m, k
<1>9. Ids(r) = Ids(l) \cup Ids(q)
  <2>1. ASSUME NEW i \in 1 .. m + k PROVE r[i].id \in Ids(l) \cup Ids(q)
    <3>1. CASE i \in 1 .. m
      BY <1>1, <1>5, <3>1 DEF Ids
    <3>2. CASE i - m \in 1 .. k /\ m + (i - m) = i
      <4>1. r[m + (i - m)] = q[i - m]
        BY <1>6, <3>2
      <4> QED
        BY <1>1, <3>2, <4>1 DEF Ids
    <3> QED
      BY <1>7, <3>1, <3>2
  <2>2. ASSUME NEW i \in 1 .. m PROVE l[i].id \in Ids(r)
    BY <1>5, <1>8 DEF Ids
  <2>3. ASSUME NEW i \in 1 .. k PROVE q[i].id \in Ids(r)
    BY <1>6, <1>8 DEF Ids
  <2>4. \A x \in Ids(r) : x \in Ids(l) \cup Ids(q)
    BY <1>8, <2>1 DEF Ids
  <2>5. \A x \in Ids(l) \cup Ids(q) : x \in Ids(r)
    BY <1>1, <2>2, <2>3 DEF Ids
  <2> QED
    BY <2>4, <2>5
<1>10. /\ \A x \in Ids(q) : \E i \in 1 .. k : x = server[m + i] /\ m + i \in 1 .. n
       /\ \A i \in 1 .. k : server[m + i] \in Ids(q)
  BY <1>1, <1>3 DEF Ids
<1>11. Ids(r) \subseteq ToSet(server)
  <2>1. Ids(l) \subseteq ToSet(server)
    BY DEF Good
  <2> QED
    BY <1>1, <1>9, <1>10, <2>1 DEF ToSet
<1>12. FlagsRight(r, archived)
  <2>1. ASSUME NEW i \in 1 .. m + k PROVE r[i].archived = (r[i].id \in archived)
    <3>1. CASE i \in 1 .. m
      BY <1>1, <1>5, <3>1 DEF FlagsRight
    <3>2. CASE i - m \in 1 .. k /\ m + (i - m) = i
      <4>1. r[m + (i - m)] = q[i - m]
        BY <1>6, <3>2
      <4> QED
        BY <1>3, <3>2, <4>1
    <3> QED
      BY <1>7, <3>1, <3>2
  <2> QED
    BY <1>8, <2>1 DEF FlagsRight
<1>13. ASSUME Firsts(l, server)
       PROVE  /\ Firsts(r, server)
              /\ k < PageSize => Ids(r) = ToSet(server)
  <2>1. /\ \A i, j \in 1 .. m : l[i].id = l[j].id => i = j
        /\ m <= n /\ Ids(l) = Heads(server, m)
    BY <1>1, <1>13 DEF Firsts, n, m
  <2>2. m + k <= n
    <3>1. k # 0 => k \in 1 .. k
      BY <1>1
    <3>2. k # 0 => m + k \in 1 .. n
      BY <1>3, <3>1
    <3> QED
      BY <1>1, <2>1, <3>2
  <2>3. Ids(r) = Heads(server, m + k)
    <3>1. ASSUME NEW i \in 1 .. m + k PROVE server[i] \in Ids(r)
      <4>1. CASE i \in 1 .. m
        BY <1>9, <2>1, <4>1 DEF Heads
      <4>2. CASE i - m \in 1 .. k /\ m + (i - m) = i
        <5>1. server[m + (i - m)] \in Ids(q)
          BY <1>10, <4>2
        <5> QED
          BY <1>9, <4>2, <5>1
      <4> QED
        BY <1>7, <4>1, <4>2
    <3>2. ASSUME NEW x \in Ids(r) PROVE x \in Heads(server, m + k)
      <4>1. CASE x \in Ids(l)
        BY <1>5, <2>1, <4>1 DEF Heads
      <4>2. CASE x \in Ids(q)
        <5>1. PICK i \in 1 .. k : x = server[m + i]
          BY <1>10, <4>2
        <5> QED
          BY <1>6, <5>1 DEF Heads
      <4> QED
        BY <1>9, <4>1, <4>2
    <3> QED
      BY <3>1, <3>2 DEF Heads
  <2>4. ASSUME NEW i \in 1 .. m + k PROVE
               \/ i \in 1 .. m /\ r[i].id = l[i].id /\ r[i].id \in Heads(server, m)
               \/ i \in 1 .. n /\ r[i].id = server[i] /\ ~(i \in 1 .. m)
    <3>1. CASE i \in 1 .. m
      <4>1. l[i].id \in Ids(l)
        BY <1>1, <3>1 DEF Ids
      <4> QED
        BY <1>5, <2>1, <3>1, <4>1
    <3>2. CASE i - m \in 1 .. k /\ m + (i - m) = i
      <4>1. r[m + (i - m)] = q[i - m]
        BY <1>6, <3>2
      <4>2. q[i - m].id = server[m + (i - m)] /\ m + (i - m) \in 1 .. n
        BY <1>3, <3>2
      <4>3. ~(i \in 1 .. m)
        BY <1>1, <3>2
      <4> QED
        BY <3>2, <4>1, <4>2, <4>3
    <3> QED
      BY <1>7, <3>1, <3>2
  <2>5. ASSUME NEW i \in 1 .. n, ~(i \in 1 .. m) PROVE server[i] \notin Heads(server, m)
    <3>1. \A j \in 1 .. m : j \in 1 .. n
      BY <1>1, <2>1
    <3>2. \A i1, j1 \in 1 .. n : server[i1] = server[j1] => i1 = j1
      BY <1>1 DEF ServerTyped, IsInjective
    <3> QED
      BY <2>5, <3>1, <3>2 DEF Heads
  <2>6. ASSUME NEW i \in 1 .. m + k, NEW j \in 1 .. m + k, r[i].id = r[j].id PROVE i = j
    <3>1. \A i1, j1 \in 1 .. n : server[i1] = server[j1] => i1 = j1
      BY <1>1 DEF ServerTyped, IsInjective
    <3> QED
      BY <2>1, <2>4, <2>5, <2>6, <3>1
  <2>7. Firsts(r, server)
    BY <1>2, <1>8, <2>2, <2>3, <2>6 DEF Firsts, n, m, k, r
  <2>8. k < PageSize => Ids(r) = ToSet(server)
    <3>1. k < PageSize => m + k = n
      BY <1>1, <1>4, <2>2
    <3>2. Heads(server, n) = ToSet(server)
      BY <1>1 DEF Heads, ToSet
    <3> QED
      BY <2>3, <3>1, <3>2
  <2> QED
    BY <2>7, <2>8
<1>14. ~(k >= PageSize) => k < PageSize
  BY <1>1
<1>15. CASE Firsts(l, server)
  BY <1>11, <1>12, <1>13, <1>14, <1>15 DEF Right, Good, k, r
<1>16. CASE ~Firsts(l, server)
  <2>1. Leads(l, server, begun)
    BY <1>16 DEF Good
  <2>2. PICK p \in DOMAIN server : /\ p <= Len(l) /\ server[p] \in begun \ Ids(l)
                                   /\ Heads(server, p - 1) \subseteq Ids(l)
    BY <1>16, <2>1, MissingIsSoon DEF ServerTyped
  <2>3. server[p] \notin Ids(q)
    <3>1. \A i \in 1 .. k : m + i # p
      BY <1>1, <2>2 DEF m
    <3>2. \A i \in 1 .. k : server[m + i] # server[p]
      BY <1>1, <1>3, <3>1 DEF ServerTyped, IsInjective
    <3> QED
      BY <1>10, <3>2
  <2>4. Leads(r, server, begun) /\ begun # {}
    BY <1>9, <2>2, <2>3 DEF Leads
  <2> QED
    BY <1>11, <1>12, <2>4 DEF Right, Good, r
<1> QED
  BY <1>15, <1>16

-----------------------------------------------------------------------------
(* The inductive invariant                                                  *)

Loads   == {"list", "listNew", "urlHistory", "history"}
Changes == {"archive", "unarchive", "rename", "delete"}
About   == {"urlHistory", "history"} \cup Changes
Busy    == Loads \cup Changes \cup {"more", "staleMore"}

CallRecord ==
  [kind : Busy \cup {"none"}, conv : ConvId \cup {None}, base : Seq(Item),
   at : {"free", "sent", "ok", "bad"}, answer : Seq(Item)]

Formed(f) ==
  /\ f \in CallRecord
  /\ f.at = "free" <=> f = Idle
  /\ f.kind = "none" <=> f = Idle
  /\ f.kind \in About => f.conv \in ConvId

CallTyped == call \in [Call -> CallRecord] /\ \A k \in Call : Formed(call[k])

ControlTyped == haste \in 0 .. MaxHaste /\ calm \in BOOLEAN

ListsTyped ==
  ServerTyped /\ archived \subseteq ConvId /\ texts \subseteq ConvId /\ begun \subseteq ConvId

PartsTyped ==
  /\ list \in Seq(Item)
  /\ shown \in ConvId \cup {None} /\ url \in ConvId \cup {None}
  /\ cur \in ConvId \cup {None} /\ arriving \in ConvId \cup {None}
  /\ screen \in ConvId \cup {None, Draft}
  /\ loading \in BOOLEAN /\ more \in BOOLEAN /\ loadingMore \in BOOLEAN

PageTyped == ControlTyped /\ ListsTyped /\ PartsTyped /\ CallTyped

\* What is said to be loading is: some call will say that it no longer is.
LoadingInv ==
  /\ loading => \E k \in Call : call[k].kind \in Loads
  /\ loadingMore => \E k \in Call : call[k].kind = "more"

\* While the user waits one call is under way at most, and none while a conversation
\* arrives; the history that is fetched is of the conversation that is shown.
OneCall ==
  /\ haste = 0 => calm
  /\ calm => \A j, k \in Call : call[j] # Idle /\ call[k] # Idle => j = k
  /\ calm /\ arriving # None => shown = None /\ \A k \in Call : call[k] = Idle
  /\ calm => \A k \in Call : call[k].kind \in {"urlHistory", "history"} => call[k].conv = shown
  /\ ScreenIsShown

\* The list l with the flag of the conversation of a call set or cleared.
Flagged(f, l) ==
  [i \in DOMAIN l |->
     IF l[i].id = f.conv THEN [l[i] EXCEPT !.archived = f.kind = "archive"] ELSE l[i]]

\* What the list l, and m, will be when the answer of a call is applied.
After(f, l) ==
  CASE f.kind \in {"list", "listNew"}      -> f.answer
    [] f.kind = "more"                     -> IF f.answer = <<>> THEN l ELSE f.base \o f.answer
    [] f.kind = "delete"                   -> Keep(l, {x \in Item : x.id # f.conv})
    [] f.kind \in {"archive", "unarchive"} -> Flagged(f, l)
    [] OTHER                               -> l

MoreAfter(f, m) == IF f.kind \in {"list", "more"} THEN Len(f.answer) >= PageSize ELSE m

CallRight(f, l, m, sv, ar, bg) ==
  /\ f.at = "ok" => Right(After(f, l), MoreAfter(f, m), sv, ar, bg)
  /\ f.kind \in {"list", "listNew"} => f.base = <<>>
  /\ f.kind = "more" => f.base = l
  /\ f.kind = "listNew" => bg # {}
  /\ f.kind \in Changes => f.conv \in Ids(l)
  /\ f.kind # "staleMore"

\* The list of a user who waits is right, or will be with the answer there is.
ListInv ==
  haste = 0 =>
    /\ (\A k \in Call : call[k].at # "ok") => Right(list, more, server, archived, begun)
    /\ \A k \in Call : CallRight(call[k], list, more, server, archived, begun)
    /\ arriving # None => arriving \in begun

PageInv == PageTyped /\ LoadingInv /\ OneCall /\ ListInv

-----------------------------------------------------------------------------
(* Calls                                                                    *)

LEMMA IdleFormed ==
  Formed(Idle) /\ Idle.kind = "none" /\ Idle.at = "free" /\ \A f : Formed(f) /\ f # Idle => f.at # "free"
<1>1. Idle \in CallRecord
  <2>1. <<>> \in Seq(Item)
    OBVIOUS
  <2> QED
    BY <2>1 DEF Idle, CallRecord
<1>2. Idle.kind = "none" /\ Idle.at = "free"
  BY DEF Idle
<1> QED
  BY <1>1, <1>2 DEF Formed, About, Changes

LEMMA FirstPageFormed ==
  Formed(FirstPage) /\ FirstPage.kind = "list" /\ FirstPage.at = "sent" /\ FirstPage.base = <<>>
<1> DEFINE f == [kind |-> "list", conv |-> None, base |-> <<>>, at |-> "sent", answer |-> <<>>]
<1>1. FirstPage = f
  BY DEF FirstPage
<1>2. f \in CallRecord
  <2>1. <<>> \in Seq(Item) /\ "list" \in Busy
    BY DEF Busy, Loads
  <2> QED
    BY <2>1 DEF CallRecord
<1>3. f.kind = "list" /\ f.at = "sent" /\ f.base = <<>>
  OBVIOUS
<1>4. f # Idle /\ "list" \notin About
  BY <1>3, IdleFormed DEF About, Changes
<1> HIDE DEF f
<1> QED
  BY <1>1, <1>2, <1>3, <1>4 DEF Formed

Becomes(k, f) == call' = [call EXCEPT ![k] = f]

LEMMA CallBecomes ==
  ASSUME CallTyped, NEW k \in Call, NEW f, Formed(f), Becomes(k, f)
  PROVE  CallTyped' /\ call'[k] = f /\ \A j \in Call : j # k => call'[j] = call[j]
<1>1. call \in [Call -> CallRecord] /\ f \in CallRecord
  BY DEF CallTyped, Formed
<1>2. call' = [call EXCEPT ![k] = f]
  BY DEF Becomes
<1>3. call'[k] = f /\ \A j \in Call : j # k => call'[j] = call[j]
  BY <1>1, <1>2
<1>4. call' \in [Call -> CallRecord]
  BY <1>1, <1>2
<1>5. ASSUME NEW j \in Call PROVE Formed(call'[j])
  BY <1>3 DEF CallTyped
<1>6. \A j \in Call : Formed(call'[j])
  BY <1>5
<1>7. \A j \in Call : Formed(call[j])'
  BY <1>6 DEF Formed, CallRecord, Idle, About, Changes, Busy, Loads, Item
<1> QED
  BY <1>3, <1>4, <1>7 DEF CallTyped, CallRecord, Busy, Loads, Changes, Item

\* A call that the user sends.
LEMMA SendBecomes ==
  ASSUME NEW k \in Call, NEW kind \in Busy, NEW c \in ConvId \cup {None}, NEW below \in Seq(Item),
         kind \in About => c \in ConvId, Send(k, kind, c, below)
  PROVE  \E f : /\ Formed(f) /\ Becomes(k, f) /\ call[k] = Idle
                /\ f.kind = kind /\ f.conv = c /\ f.base = below /\ f.at = "sent"
<1> DEFINE f == [kind |-> kind, conv |-> c, base |-> below, at |-> "sent", answer |-> <<>>]
<1>1. f \in CallRecord
  <2>1. <<>> \in Seq(Item)
    OBVIOUS
  <2> QED
    BY <2>1 DEF CallRecord
<1>2. f.kind = kind /\ f.conv = c /\ f.base = below /\ f.at = "sent"
  OBVIOUS
<1>3. kind # "none"
  BY DEF Busy, Loads, Changes
<1>4. f # Idle
  BY <1>2, IdleFormed
<1> HIDE DEF f
<1>5. Formed(f)
  BY <1>1, <1>2, <1>3, <1>4 DEF Formed
<1>6. Becomes(k, f) /\ call[k] = Idle
  BY DEF Becomes, Send, f
<1> QED
  BY <1>2, <1>5, <1>6

\* A call that is served.
WithAnswer(f, at, q) == [f EXCEPT !.at = at, !.answer = q]

LEMMA AnswerBecomes ==
  ASSUME NEW f, Formed(f), f # Idle, NEW at \in {"ok", "bad"}, NEW q \in Seq(Item), NEW g,
         g = WithAnswer(f, at, q)
  PROVE  /\ Formed(g) /\ g # Idle /\ g.kind = f.kind /\ g.conv = f.conv /\ g.base = f.base
         /\ g.at = at /\ g.answer = q
<1>1. f \in CallRecord
  BY DEF Formed
<1> USE DEF WithAnswer
<1>2. /\ g \in CallRecord /\ g.kind = f.kind /\ g.conv = f.conv /\ g.base = f.base
      /\ g.at = at /\ g.answer = q
  BY <1>1 DEF CallRecord
<1>3. g # Idle
  BY <1>2, IdleFormed
<1>4. f.kind # "none"
  BY DEF Formed
<1> QED
  BY <1>2, <1>3, <1>4 DEF Formed

Answered(k, at, q) ==
  \E g : /\ Formed(g) /\ g # Idle /\ Becomes(k, g)
         /\ g.kind = call[k].kind /\ g.conv = call[k].conv /\ g.base = call[k].base
         /\ g.at = at /\ g.answer = q

LEMMA SetAnswer ==
  ASSUME CallTyped, NEW k \in Call, call[k] # Idle, NEW at \in {"ok", "bad"}, NEW q \in Seq(Item),
         call' = [call EXCEPT ![k].at = at, ![k].answer = q]
  PROVE  Answered(k, at, q)
<1> DEFINE f == call[k]
           g == [f EXCEPT !.at = at, !.answer = q]
<1>1. call \in [Call -> CallRecord] /\ Formed(f)
  BY DEF CallTyped
<1>2. call' = [call EXCEPT ![k] = g]
  <2>1. \A j \in Call : call'[j] = IF j = k THEN g ELSE call[j]
    BY <1>1
  <2>2. DOMAIN call' = Call /\ call' = [j \in Call |-> call'[j]]
    BY <1>1
  <2> HIDE DEF g
  <2> QED
    BY <1>1, <2>1, <2>2
<1>9. f # Idle /\ g = WithAnswer(f, at, q)
  BY DEF WithAnswer
<1> HIDE DEF f, g
<1>3. Formed(g) /\ g # Idle /\ g.kind = f.kind /\ g.conv = f.conv /\ g.base = f.base
      /\ g.at = at /\ g.answer = q
  BY <1>1, <1>9, AnswerBecomes
<1> QED
  BY <1>2, <1>3 DEF Answered, Becomes, f

\* What the server does for a call: it refuses it, or answers.
Refuses(k) == Answered(k, "bad", <<>>) /\ UNCHANGED serverVars

Pages(k) ==
  /\ call[k].kind \in {"list", "listNew", "more"}
  /\ Answered(k, "ok", PageAt(Len(call[k].base))) /\ UNCHANGED serverVars

Reads(k) ==
  /\ call[k].kind \in {"history", "urlHistory"} /\ call[k].conv \in OnServer
  /\ Answered(k, "ok", <<>>) /\ UNCHANGED serverVars

Alters(k) ==
  LET f == call[k] IN
  /\ f.kind \in {"archive", "unarchive", "rename"} /\ f.conv \in OnServer
  /\ Answered(k, "ok", <<>>)
  /\ server' = IF \/ f.kind = "archive" /\ f.conv \in archived
                  \/ f.kind = "unarchive" /\ f.conv \notin archived
               THEN server ELSE Touched(f.conv)
  /\ archived' = CASE f.kind = "archive"   -> archived \cup {f.conv}
                   [] f.kind = "unarchive" -> archived \ {f.conv}
                   [] f.kind = "rename"    -> archived
  /\ UNCHANGED <<texts, begun>>

Removes(k) ==
  LET f == call[k] IN
  /\ f.kind = "delete" /\ f.conv \in OnServer
  /\ Answered(k, "ok", <<>>)
  /\ server' = Keep(server, ConvId \ {f.conv})
  /\ archived' = archived \ {f.conv} /\ texts' = texts \ {f.conv}
  /\ UNCHANGED begun

LEMMA ServeCases ==
  ASSUME CallTyped, ServerTyped, NEW k \in Call, Serve(k)
  PROVE  /\ call[k].at = "sent" /\ call[k] # Idle /\ UNCHANGED <<haste, calm>> /\ UNCHANGED pageVars
         /\ Refuses(k) \/ Pages(k) \/ Reads(k) \/ Alters(k) \/ Removes(k)
<1>1. call[k].at = "sent" /\ UNCHANGED <<haste, calm>> /\ UNCHANGED pageVars
  BY Zenon DEF Serve
<1>2. call[k] # Idle
  BY <1>1, IdleFormed
<1>3. ASSUME NEW at \in {"ok", "bad"}, NEW q \in Seq(Item),
             call' = [call EXCEPT ![k].at = at, ![k].answer = q]
      PROVE  Answered(k, at, q)
  BY <1>2, <1>3, SetAnswer, Zenon
<1>4. <<>> \in Seq(Item)
  OBVIOUS
<1>5. call[k] \in CallRecord
  BY DEF CallTyped
<1>6. PageAt(Len(call[k].base)) \in Seq(Item)
  <2>1. call[k].base \in Seq(Item)
    BY <1>5 DEF CallRecord
  <2>2. Len(call[k].base) \in Nat
    BY <2>1
  <2> QED
    BY <2>2, PageIsAfter DEF PageAfter
<1>7. CASE call' = [call EXCEPT ![k].at = "bad", ![k].answer = <<>>] /\ UNCHANGED serverVars
  BY <1>1, <1>2, <1>3, <1>4, <1>7, Zenon DEF Refuses
<1>8. CASE /\ call[k].kind \in {"list", "listNew", "more"}
           /\ call' = [call EXCEPT ![k].at = "ok", ![k].answer = PageAt(Len(call[k].base))]
           /\ UNCHANGED serverVars
  BY <1>1, <1>2, <1>3, <1>6, <1>8, Zenon DEF Pages
<1>9. CASE /\ call[k].kind \in {"history", "urlHistory"} /\ call[k].conv \in OnServer
           /\ call' = [call EXCEPT ![k].at = "ok", ![k].answer = <<>>] /\ UNCHANGED serverVars
  BY <1>1, <1>2, <1>3, <1>4, <1>9, Zenon DEF Reads
<1>10. CASE /\ call[k].kind \in {"archive", "unarchive", "rename"} /\ call[k].conv \in OnServer
            /\ call' = [call EXCEPT ![k].at = "ok", ![k].answer = <<>>]
            /\ server' = IF \/ call[k].kind = "archive" /\ call[k].conv \in archived
                            \/ call[k].kind = "unarchive" /\ call[k].conv \notin archived
                         THEN server ELSE Touched(call[k].conv)
            /\ archived' = CASE call[k].kind = "archive"   -> archived \cup {call[k].conv}
                             [] call[k].kind = "unarchive" -> archived \ {call[k].conv}
                             [] call[k].kind = "rename"    -> archived
            /\ UNCHANGED <<texts, begun>>
  BY <1>1, <1>2, <1>3, <1>4, <1>10, Zenon DEF Alters
<1>11. CASE /\ call[k].kind = "delete" /\ call[k].conv \in OnServer
            /\ call' = [call EXCEPT ![k].at = "ok", ![k].answer = <<>>]
            /\ server' = Keep(server, ConvId \ {call[k].conv})
            /\ archived' = archived \ {call[k].conv} /\ texts' = texts \ {call[k].conv}
            /\ UNCHANGED begun
  BY <1>1, <1>2, <1>3, <1>4, <1>11, Zenon DEF Removes
<1> QED
  BY <1>7, <1>8, <1>9, <1>10, <1>11, Zenon DEF Serve

LEMMA Loses ==
  ASSUME CallTyped, NEW k \in Call, Lose(k)
  PROVE  \E q : Answered(k, "bad", q)
<1>1. call[k] \in CallRecord /\ call \in [Call -> CallRecord] /\ Formed(call[k])
  BY DEF CallTyped
<1>2. call[k].at = "ok" /\ call' = [call EXCEPT ![k].at = "bad"]
  BY DEF Lose
<1>3. call[k] # Idle
  BY <1>2, IdleFormed
<1> DEFINE f == call[k]
           g == [f EXCEPT !.at = "bad"]
<1>4. /\ g \in CallRecord /\ g.kind = f.kind /\ g.conv = f.conv /\ g.base = f.base
      /\ g.at = "bad" /\ g.answer = f.answer
  BY <1>1 DEF CallRecord
<1>5. call' = [call EXCEPT ![k] = g]
  BY <1>1, <1>2, Zenon DEF CallRecord
<1> HIDE DEF g
<1>6. g # Idle /\ f.kind # "none" /\ (f.kind \in About => f.conv \in ConvId)
  BY <1>1, <1>3, <1>4, IdleFormed DEF Formed
<1>7. Formed(g)
  BY <1>4, <1>6 DEF Formed
<1> QED
  BY <1>4, <1>5, <1>6, <1>7 DEF Answered, Becomes

LEMMA EndedBecomes == \A k : Ended(k) <=> Becomes(k, Idle)
BY DEF Ended, Becomes

\* The history that the address asks for when the list has come.
LEMMA UrlBecomes ==
  ASSUME NEW c \in ConvId, NEW f, f = [Idle EXCEPT !.kind = "urlHistory", !.conv = c, !.at = "sent"]
  PROVE  Formed(f) /\ f # Idle /\ f.kind = "urlHistory" /\ f.conv = c /\ f.at = "sent"
<1>1. f = [kind |-> "urlHistory", conv |-> c, base |-> <<>>, at |-> "sent", answer |-> <<>>]
  BY DEF Idle
<1>2. f \in CallRecord
  <2>1. <<>> \in Seq(Item)
    OBVIOUS
  <2>2. "urlHistory" \in Busy
    BY DEF Busy, Loads
  <2>3. [kind |-> "urlHistory", conv |-> c, base |-> <<>>, at |-> "sent", answer |-> <<>>]
          \in CallRecord
    BY <2>1, <2>2 DEF CallRecord
  <2> QED
    BY <1>1, <2>3
<1>3. f.kind = "urlHistory" /\ f.conv = c /\ f.at = "sent"
  BY <1>1
<1>4. f # Idle
  BY <1>3, IdleFormed
<1> QED
  BY <1>2, <1>3, <1>4 DEF Formed

LEMMA TouchedTyped ==
  ASSUME ServerTyped, NEW c \in ConvId
  PROVE  Touched(c) \in Seq(ConvId) /\ IsInjective(Touched(c))
<1>1. CASE c \in ToSet(server)
  <2>1. PICK p \in DOMAIN server : server[p] = c
    BY <1>1 DEF ToSet
  <2>2. MovesUp(server, p, <<server[p]>> \o Keep(server, ConvId \ {server[p]}))
    BY MovedUp, Zenon DEF ServerTyped
  <2> QED
    BY <2>1, <2>2 DEF MovesUp, Touched
<1>2. CASE c \notin ToSet(server)
  <2>1. <<c>> \o Keep(server, ConvId \ {c}) = Touched(c)
    BY DEF Touched
  <2>2. \A s : Ids(<<>>) \subseteq s
    BY DEF Ids
  <2> QED
    BY <1>2, <2>1, <2>2, GoodBegun DEF ServerTyped
<1> QED
  BY <1>1, <1>2

-----------------------------------------------------------------------------
(* Types                                                                    *)

LEMMA TypedServe ==
  ASSUME PageTyped, NEW k \in Call, Serve(k)
  PROVE  PageTyped'
<1>1. /\ UNCHANGED <<haste, calm>> /\ UNCHANGED pageVars
      /\ Refuses(k) \/ Pages(k) \/ Reads(k) \/ Alters(k) \/ Removes(k)
  BY ServeCases DEF PageTyped, ListsTyped
<1>2. ControlTyped' /\ PartsTyped'
  BY <1>1 DEF PageTyped, ControlTyped, PartsTyped, pageVars, Item
<1>3. CallTyped'
  <2>1. PICK at, q : Answered(k, at, q)
    BY <1>1 DEF Refuses, Pages, Reads, Alters, Removes
  <2> QED
    BY <2>1, CallBecomes DEF PageTyped, Answered
<1>4. ListsTyped'
  <2>1. CASE Refuses(k) \/ Pages(k) \/ Reads(k)
    BY <2>1 DEF Refuses, Pages, Reads, serverVars, PageTyped, ListsTyped, ServerTyped
  <2>2. CASE Alters(k)
    <3>1. call[k].conv \in ConvId
      <4>1. call[k].conv \in OnServer
        BY <2>2 DEF Alters
      <4> QED
        BY <4>1 DEF OnServer, PageTyped, ListsTyped, ServerTyped
    <3>2. server' = server \/ server' = Touched(call[k].conv)
      BY <2>2 DEF Alters
    <3>3. ServerTyped'
      BY <3>1, <3>2, TouchedTyped DEF PageTyped, ListsTyped, ServerTyped
    <3>4. \/ archived' = archived \cup {call[k].conv} \/ archived' = archived \ {call[k].conv}
          \/ archived' = archived
      BY <2>2 DEF Alters
    <3>5. texts' = texts /\ begun' = begun
      BY <2>2 DEF Alters
    <3> QED
      BY <3>1, <3>3, <3>4, <3>5 DEF PageTyped, ListsTyped
  <2>3. CASE Removes(k)
    <3> DEFINE C == ConvId \ {call[k].conv}
    <3>1. server' = Keep(server, C) /\ texts' = texts \ {call[k].conv}
          /\ archived' = archived \ {call[k].conv} /\ begun' = begun
      BY <2>3 DEF Removes
    <3> HIDE DEF C
    <3>2. Keep(server, C) \in Seq(ConvId) /\ IsInjective(Keep(server, C))
      BY Kept DEF PageTyped, ListsTyped, ServerTyped
    <3>3. ServerTyped'
      BY <3>1, <3>2 DEF ServerTyped
    <3> QED
      BY <3>1, <3>3 DEF PageTyped, ListsTyped
  <2> QED
    BY <1>1, <2>1, <2>2, <2>3
<1> QED
  BY <1>2, <1>3, <1>4 DEF PageTyped

LEMMA FlaggedTyped ==
  ASSUME PageTyped, NEW f
  PROVE  /\ Flagged(f, list) \in Seq(Item) /\ Len(Flagged(f, list)) = Len(list)
         /\ \A i \in DOMAIN list :
              /\ Flagged(f, list)[i].id = list[i].id
              /\ Flagged(f, list)[i].archived = IF list[i].id = f.conv THEN f.kind = "archive"
                                          ELSE list[i].archived
<1> DEFINE n == Len(list)
           r == Flagged(f, list)
<1>1. n \in Nat /\ DOMAIN list = 1 .. n /\ \A i \in 1 .. n : list[i] \in Item
  BY DEF PageTyped, PartsTyped
<1>2. r = [i \in 1 .. n |->
             IF list[i].id = f.conv THEN [list[i] EXCEPT !.archived = f.kind = "archive"]
             ELSE list[i]]
  BY <1>1 DEF Flagged
<1> HIDE DEF n, r
<1>3. ASSUME NEW i \in 1 .. n
      PROVE  r[i] \in Item /\ r[i].id = list[i].id
             /\ r[i].archived = IF list[i].id = f.conv THEN f.kind = "archive" ELSE list[i].archived
  <2>1. list[i] \in [id : ConvId, archived : BOOLEAN]
    BY <1>1 DEF Item
  <2>2. CASE list[i].id = f.conv
    <3>1. r[i] = [list[i] EXCEPT !.archived = f.kind = "archive"]
      BY <1>2, <2>2
    <3>2. (f.kind = "archive") \in BOOLEAN
      OBVIOUS
    <3> QED
      BY <2>1, <2>2, <3>1, <3>2 DEF Item
  <2>3. CASE list[i].id # f.conv
    BY <1>1, <1>2, <2>3
  <2> QED
    BY <2>2, <2>3
<1>4. DOMAIN r = 1 .. n /\ r \in [1 .. n -> Item]
  BY <1>2, <1>3
<1>5. r \in Seq(Item) /\ Len(r) = n
  BY <1>1, <1>4
<1> QED
  BY <1>1, <1>3, <1>5 DEF n, r

LEMMA TypedApply ==
  ASSUME PageTyped, NEW k \in Call, Apply(k)
  PROVE  PageTyped'
<1> USE DEF PageTyped
<1>1. ControlTyped' /\ ListsTyped'
  <2>1. UNCHANGED <<haste, calm>> /\ UNCHANGED serverVars
    BY Zenon DEF Apply
  <2> QED
    BY <2>1 DEF ControlTyped, ListsTyped, ServerTyped, serverVars
<1>2. call[k] \in CallRecord /\ call[k].answer \in Seq(Item) /\ call[k].base \in Seq(Item)
  BY DEF CallTyped, CallRecord
<1>3. Ended(k) => CallTyped'
  BY EndedBecomes, IdleFormed, CallBecomes
<1>4. call[k].kind \in About => call[k].conv \in ConvId
  BY DEF CallTyped, Formed
<1>5. CASE ApplyListFailed(k)
  <2>1. PartsTyped'
    BY <1>5 DEF ApplyListFailed, PartsTyped, Item
  <2> QED
    BY <1>1, <1>3, <1>5, <2>1 DEF ApplyListFailed
<1>6. CASE ApplyList(k)
  <2>1. list' \in Seq(Item) /\ more' \in BOOLEAN
    <3>1. list' = call[k].answer
      BY <1>6 DEF ApplyList
    <3> DEFINE b == Len(call[k].answer) >= PageSize
    <3>2. b \in BOOLEAN
      OBVIOUS
    <3> HIDE DEF b
    <3>3. more' = b \/ more' = more
      BY <1>6, Zenon DEF ApplyList, b
    <3> QED
      BY <1>2, <3>1, <3>2, <3>3 DEF PartsTyped
  <2>2. /\ shown' \in {shown, url} /\ screen' \in {screen, None} /\ cur' \in {cur, None}
        /\ loading' \in {loading, FALSE}
        /\ UNCHANGED <<url, loadingMore, arriving>>
    BY <1>6 DEF ApplyList
  <2>3. PartsTyped'
    <3>1. list' \in Seq(Item)'
      BY <2>1 DEF Item
    <3> QED
      BY <2>1, <2>2, <3>1 DEF PartsTyped
  <2>4. CallTyped'
    <3>1. CASE Ended(k)
      BY <1>3, <3>1
    <3>2. CASE ~Ended(k)
      <4> DEFINE f == [Idle EXCEPT !.kind = "urlHistory", !.conv = url, !.at = "sent"]
      <4>1. url # None /\ call' = [call EXCEPT ![k] = f]
        BY <1>6, <3>2 DEF ApplyList
      <4>2. url \in ConvId
        BY <4>1 DEF PartsTyped
      <4>3. Formed(f)
        BY <4>2, UrlBecomes
      <4> HIDE DEF f
      <4> QED
        BY <4>1, <4>3, CallBecomes DEF Becomes
    <3> QED
      BY <3>1, <3>2
  <2> QED
    BY <1>1, <2>3, <2>4
<1>7. CASE ApplyUrlHistory(k)
  <2>1. /\ shown' \in {shown, None} /\ cur' \in {cur, None, call[k].conv}
        /\ screen' \in {screen, None, call[k].conv} /\ loading' = FALSE
        /\ UNCHANGED <<list, url, more, loadingMore, arriving>>
    BY <1>7 DEF ApplyUrlHistory, ShowHistory
  <2>2. call[k].conv \in ConvId
    BY <1>4, <1>7 DEF ApplyUrlHistory, About
  <2>3. PartsTyped'
    BY <2>1, <2>2 DEF PartsTyped, Item
  <2> QED
    BY <1>1, <1>3, <1>7, <2>3 DEF ApplyUrlHistory
<1>8. CASE ApplyMore(k) \/ ApplyStale(k)
  <2>1. list' = list \/ list' = call[k].base \o call[k].answer
    BY <1>8 DEF ApplyMore, ApplyStale
  <2>2. list' \in Seq(Item)
    <3>1. call[k].base \o call[k].answer \in Seq(Item)
      BY <1>2, ConcatProperties
    <3> QED
      BY <2>1, <3>1 DEF PartsTyped
  <2>3. more' \in BOOLEAN
    <3> DEFINE b == Len(call[k].answer) >= PageSize
    <3>1. b \in BOOLEAN
      OBVIOUS
    <3> HIDE DEF b
    <3>2. more' = b \/ more' = more
      BY <1>8, Zenon DEF ApplyMore, ApplyStale, b
    <3> QED
      BY <3>1, <3>2 DEF PartsTyped
  <2>4. /\ loadingMore' \in {loadingMore, FALSE}
        /\ UNCHANGED <<shown, url, cur, screen, loading, arriving>>
    BY <1>8 DEF ApplyMore, ApplyStale
  <2>5. PartsTyped'
    BY <2>2, <2>3, <2>4 DEF PartsTyped, Item
  <2> QED
    BY <1>1, <1>3, <1>8, <2>5 DEF ApplyMore, ApplyStale
<1>9. CASE ApplyHistory(k)
  <2>1. /\ cur' \in {cur, None, call[k].conv} /\ screen' \in {screen, call[k].conv}
        /\ loading' = FALSE /\ UNCHANGED <<list, shown, url, more, loadingMore, arriving>>
    BY <1>9 DEF ApplyHistory, ShowHistory
  <2>2. call[k].conv \in ConvId
    BY <1>4, <1>9 DEF ApplyHistory, About
  <2>3. PartsTyped'
    BY <2>1, <2>2 DEF PartsTyped, Item
  <2> QED
    BY <1>1, <1>3, <1>9, <2>3 DEF ApplyHistory
<1>10. CASE ApplyChange(k)
  <2>1. list' = list \/ list' = Flagged(call[k], list)
    BY <1>10 DEF ApplyChange, Flagged
  <2>2. list' \in Seq(Item)
    BY <2>1, FlaggedTyped DEF PartsTyped
  <2>3. UNCHANGED <<shown, url, cur, screen, loading, more, loadingMore, arriving>>
    BY <1>10 DEF ApplyChange
  <2>4. PartsTyped'
    BY <2>2, <2>3 DEF PartsTyped, Item
  <2> QED
    BY <1>1, <1>3, <1>10, <2>4 DEF ApplyChange
<1>11. CASE ApplyDelete(k)
  <2> DEFINE A == {x \in Item : x.id # call[k].conv}
  <2>1. list' = list \/ list' = Keep(list, A)
    BY <1>11 DEF ApplyDelete
  <2> HIDE DEF A
  <2>2. list' \in Seq(Item)
    BY <2>1, Kept DEF PartsTyped
  <2>3. /\ shown' \in {shown, None} /\ screen' \in {screen, None}
        /\ UNCHANGED <<url, cur, loading, more, loadingMore, arriving>>
    BY <1>11 DEF ApplyDelete
  <2>4. PartsTyped'
    BY <2>2, <2>3 DEF PartsTyped, Item
  <2> QED
    BY <1>1, <1>3, <1>11, <2>4 DEF ApplyDelete
<1> QED
  BY <1>5, <1>6, <1>7, <1>8, <1>9, <1>10, <1>11 DEF Apply

LEMMA Paces ==
  ASSUME ControlTyped
  PROVE  /\ Act \/ Choose \/ Hurry => ControlTyped'
         /\ Hurry => haste' # 0 /\ calm' = FALSE
         /\ Act => (UNCHANGED <<haste, calm>> /\ Quiet) \/ (haste' # 0 /\ calm' = FALSE)
         /\ Choose => (haste' = haste /\ calm' = TRUE /\ Quiet) \/ (haste' # 0 /\ calm' = FALSE)
<1>1. haste \in Nat /\ MaxHaste \in Nat /\ haste <= MaxHaste /\ calm \in BOOLEAN
  BY PageAssumption DEF ControlTyped
<1>2. Hurry => haste' = haste + 1 /\ haste' # 0 /\ calm' = FALSE /\ haste' \in 0 .. MaxHaste
  BY <1>1 DEF Hurry
<1>3. Act => (UNCHANGED <<haste, calm>> /\ Quiet) \/ Hurry
  BY DEF Act
<1>4. Choose => (haste' = haste /\ calm' = TRUE /\ Quiet) \/ Hurry
  BY DEF Choose
<1>5. Act \/ Choose \/ Hurry => haste' \in 0 .. MaxHaste /\ calm' \in BOOLEAN
  BY <1>2, <1>3, <1>4 DEF ControlTyped
<1> QED
  BY <1>2, <1>3, <1>4, <1>5 DEF ControlTyped

\* A call that the user sends keeps the types of the calls.
LEMMA TypedSent ==
  ASSUME CallTyped, NEW k \in Call, NEW kind \in Busy, NEW c \in ConvId \cup {None},
         NEW below \in Seq(Item), kind \in About => c \in ConvId, Send(k, kind, c, below)
  PROVE  CallTyped'
<1>1. PICK f : Formed(f) /\ Becomes(k, f)
  BY SendBecomes, Zenon
<1> QED
  BY <1>1, CallBecomes, Zenon

\* The user comes back to the page, by some link.
Returns(k) == \E c \in ConvId \cup {None} : Revisit(k, c)

\* Every call of the sidebar that is left becomes nobody's.
LEMMA TypedRevisit ==
  ASSUME CallTyped, NEW k \in Call, Returns(k)
  PROVE  /\ CallTyped' /\ call'[k].kind = "list"
         /\ \A j \in Call : call[j] # Idle /\ call[j].kind \notin {"list", "more"} => call'[j] = call[j]
<1> DEFINE g(i) == IF i = k THEN FirstPage
                   ELSE IF call[i].kind = "list" THEN [call[i] EXCEPT !.kind = "listNew"]
                   ELSE IF call[i].kind = "more" THEN [call[i] EXCEPT !.kind = "staleMore"]
                   ELSE call[i]
<1>1. call' = [i \in Call |-> g(i)] /\ call[k] = Idle
  BY Zenon DEF Returns, Revisit
<1>3. Formed(g(k)) /\ g(k).kind = "list"
  BY FirstPageFormed
<1>4. ASSUME NEW i \in Call, i # k PROVE Formed(g(i))
  <2>1. call[i] \in CallRecord /\ Formed(call[i])
    BY DEF CallTyped
  <2>2. CASE call[i].kind \in {"list", "more"}
    <3> DEFINE kind == IF call[i].kind = "list" THEN "listNew" ELSE "staleMore"
               f == [call[i] EXCEPT !.kind = kind]
    <3>1. kind \in {"listNew", "staleMore"}
      OBVIOUS
    <3>2. g(i) = f
      BY <1>4, <2>2
    <3> HIDE DEF kind
    <3>3. f \in CallRecord /\ f.kind = kind /\ f.at = call[i].at
      BY <2>1, <3>1 DEF CallRecord, Busy, Loads
    <3>4. f # Idle /\ call[i] # Idle /\ call[i].at # "free" /\ kind \notin About /\ kind # "none"
      BY <2>1, <2>2, <3>1, <3>3, IdleFormed DEF About, Changes, Formed
    <3> HIDE DEF f, g
    <3>5. Formed(f)
      BY <3>3, <3>4 DEF Formed
    <3> QED
      BY <3>2, <3>5
  <2>3. CASE call[i].kind \notin {"list", "more"}
    BY <1>4, <2>1, <2>3
  <2> QED
    BY <2>2, <2>3
<1>5. \A j \in Call : call[j] # Idle /\ call[j].kind \notin {"list", "more"} => g(j) = call[j]
  BY <1>1
<1> HIDE DEF g
<1>6. \A i \in Call : Formed(call'[i])
  BY <1>1, <1>3, <1>4
<1>7. call' \in [Call -> CallRecord]
  BY <1>1, <1>6 DEF Formed
<1>8. \A j \in Call : Formed(call[j])'
  BY <1>6 DEF Formed, CallRecord, Idle, About, Changes, Busy, Loads, Item
<1>9. CallTyped'
  BY <1>7, <1>8 DEF CallTyped, CallRecord, Busy, Loads, Changes, Item
<1> QED
  BY <1>1, <1>3, <1>5, <1>9

LEMMA TypedActed ==
  ASSUME PageTyped, NEW k \in Call,
         \/ Lose(k) \/ LoadMore(k) \/ Created(k) \/ Returns(k) \/ \E c \in ConvId : Select(k, c)
         \/ \E c \in ConvId : \E kind \in {"archive", "unarchive", "rename", "delete"} :
              Change(k, kind, c)
  PROVE  PageTyped'
<1> USE DEF PageTyped
<1>1. UNCHANGED serverVars => ListsTyped'
  BY DEF serverVars, ListsTyped, ServerTyped
<1>2. UNCHANGED pageVars => PartsTyped'
  BY DEF pageVars, PartsTyped, Item
<1>3. <<>> \in Seq(Item) /\ None \in ConvId \cup {None}
  OBVIOUS
<1>4. CASE Lose(k)
  <2>1. Hurry /\ UNCHANGED serverVars /\ UNCHANGED pageVars
    BY <1>4, Zenon DEF Lose
  <2>2. CallTyped'
    <3>1. PICK q : Answered(k, "bad", q)
      BY <1>4, Loses
    <3> QED
      BY <3>1, CallBecomes DEF Answered
  <2> QED
    BY <1>1, <1>2, <2>1, <2>2, Paces
<1>5. CASE LoadMore(k)
  <2>1. /\ Act /\ loadingMore' = TRUE /\ Send(k, "more", None, list) /\ UNCHANGED serverVars
        /\ UNCHANGED <<list, shown, url, cur, screen, loading, more, arriving>>
    BY <1>5, Zenon DEF LoadMore
  <2>2. PartsTyped'
    BY <2>1 DEF PartsTyped, Item
  <2>3. "more" \in Busy /\ ~("more" \in About) /\ list \in Seq(Item)
    BY DEF Busy, About, Changes, PartsTyped
  <2>4. CallTyped'
    BY <1>3, <2>1, <2>3, TypedSent, Zenon
  <2> QED
    BY <1>1, <2>1, <2>2, <2>4, Paces
<1>6. CASE Created(k)
  <2>1. /\ arriving # None /\ shown' = arriving /\ url' = arriving /\ arriving' = None
        /\ screen' \in {None, arriving, screen} /\ loading' = TRUE
        /\ UNCHANGED <<haste, calm>> /\ UNCHANGED <<list, cur, more, loadingMore>>
    BY <1>6 DEF Created
  <2>2. UNCHANGED serverVars /\ Send(k, "listNew", None, <<>>)
    BY <1>6, Zenon DEF Created
  <2>3. PartsTyped' /\ ControlTyped'
    BY <2>1 DEF PartsTyped, Item, ControlTyped
  <2>4. "listNew" \in Busy /\ ~("listNew" \in About)
    BY DEF Busy, Loads, About, Changes
  <2>5. CallTyped'
    BY <1>3, <2>2, <2>4, TypedSent, Zenon
  <2> QED
    BY <1>1, <2>2, <2>3, <2>5
<1>7. CASE Returns(k)
  <2>1. /\ Hurry
        /\ url' \in ConvId \cup {None}
        /\ more' = TRUE /\ loadingMore' = FALSE /\ arriving' = None /\ loading' = TRUE
        /\ screen' \in {screen, cur} /\ UNCHANGED <<list, shown, cur>>
    BY <1>7 DEF Returns, Revisit, Link
  <2>2. UNCHANGED serverVars
    BY <1>7, Zenon DEF Returns, Revisit
  <2>3. PartsTyped'
    BY <2>1 DEF PartsTyped, Item
  <2> QED
    BY <1>1, <1>7, <2>1, <2>2, <2>3, Paces, TypedRevisit
<1>8. ASSUME NEW c \in ConvId, Select(k, c) PROVE PageTyped'
  <2>1. /\ Choose /\ shown' = c /\ url' = c /\ screen' = None /\ loading' = TRUE
        /\ UNCHANGED <<list, cur, more, loadingMore, arriving>>
    BY <1>8, Zenon DEF Select
  <2>2. UNCHANGED serverVars /\ Send(k, "history", c, <<>>)
    BY <1>8, Zenon DEF Select
  <2>3. PartsTyped'
    BY <2>1 DEF PartsTyped, Item
  <2>4. "history" \in Busy /\ c \in ConvId \cup {None}
    BY DEF Busy, Loads
  <2>5. CallTyped'
    BY <1>3, <2>2, <2>4, TypedSent, Zenon
  <2> QED
    BY <1>1, <2>1, <2>2, <2>3, <2>5, Paces
<1>9. ASSUME NEW c \in ConvId, NEW kind \in {"archive", "unarchive", "rename", "delete"},
             Change(k, kind, c)
      PROVE  PageTyped'
  <2>1. Act /\ UNCHANGED serverVars /\ UNCHANGED pageVars /\ Send(k, kind, c, <<>>)
    BY <1>9, Zenon DEF Change
  <2>2. kind \in Busy /\ c \in ConvId \cup {None}
    BY DEF Busy, Changes
  <2>3. CallTyped'
    BY <1>3, <2>1, <2>2, TypedSent, Zenon
  <2> QED
    BY <1>1, <1>2, <2>1, <2>3, Paces
<1> QED
  BY <1>4, <1>5, <1>6, <1>7, <1>8, <1>9

LEMMA TypedChat ==
  ASSUME PageTyped, NewChat \/ Continue \/ \E c \in ConvId : BeginChat(c)
  PROVE  PageTyped'
<1> USE DEF PageTyped
<1>1. call' = call => CallTyped'
  BY DEF CallTyped, Formed, CallRecord, Idle, About, Changes, Busy, Loads, Item
<1>2. CASE NewChat
  <2>1. /\ Choose /\ screen' = None /\ shown' \in {shown, None} /\ url' \in {url, None}
        /\ cur' \in {cur, None} /\ UNCHANGED <<list, loading, more, loadingMore, arriving, call>>
    BY <1>2 DEF NewChat
  <2>2. UNCHANGED serverVars
    BY <1>2, Zenon DEF NewChat
  <2>3. PartsTyped' /\ ListsTyped'
    BY <2>1, <2>2 DEF PartsTyped, Item, serverVars, ListsTyped, ServerTyped
  <2> QED
    BY <1>1, <2>1, <2>3, Paces
<1>3. CASE Continue
  <2>1. /\ Act \/ Hurry
        /\ shown \in OnServer /\ texts' = texts \cup {shown} /\ server' = Touched(shown)
        /\ screen' \in {shown, screen}
        /\ UNCHANGED <<archived, begun, list, shown, url, cur, loading, more, loadingMore, arriving, call>>
    BY <1>3 DEF Continue
  <2>2. shown \in ConvId
    BY <2>1 DEF OnServer, ListsTyped, ServerTyped
  <2>3. PartsTyped'
    BY <2>1, <2>2 DEF PartsTyped, Item
  <2>4. ServerTyped'
    BY <2>1, <2>2, TouchedTyped DEF ListsTyped, ServerTyped
  <2>5. ListsTyped'
    BY <2>1, <2>2, <2>4 DEF ListsTyped
  <2> QED
    BY <1>1, <2>1, <2>3, <2>5, Paces
<1>4. ASSUME NEW c \in ConvId, BeginChat(c) PROVE PageTyped'
  <2>1. /\ Act /\ begun' = begun \cup {c} /\ texts' = texts \cup {c} /\ server' = Touched(c)
        /\ arriving' = c /\ screen' \in {Draft, screen}
        /\ UNCHANGED <<archived, list, shown, url, cur, loading, more, loadingMore, call>>
    BY <1>4 DEF BeginChat
  <2>2. PartsTyped'
    BY <2>1 DEF PartsTyped, Item
  <2>3. ServerTyped'
    BY <2>1, TouchedTyped DEF ListsTyped, ServerTyped
  <2>4. ListsTyped'
    BY <2>1, <2>3 DEF ListsTyped
  <2> QED
    BY <1>1, <2>1, <2>2, <2>4, Paces
<1> QED
  BY <1>2, <1>3, <1>4

\* A link on the page sets the address, which nothing but the types depends on.
LEMMA LinkFollowed ==
  ASSUME PageInv, NEW c \in ConvId \cup {None}, FollowLink(c)
  PROVE  PageInv'
<1>1. /\ Act /\ url' = c /\ UNCHANGED <<server, archived, texts, begun>>
      /\ UNCHANGED <<list, shown, cur, screen, loading, more, loadingMore, arriving, call>>
  BY DEF FollowLink, Link, serverVars
<1>2. /\ ControlTyped'
      /\ haste' = 0 => haste = 0
      /\ UNCHANGED calm \/ calm' = FALSE
      /\ UNCHANGED <<haste, calm>> \/ (haste' # 0 /\ calm' = FALSE)
  BY <1>1, Paces DEF PageInv, PageTyped
<1>3. PageTyped'
  <2>1. ListsTyped' /\ CallTyped'
    BY <1>1 DEF PageInv, PageTyped, ListsTyped, ServerTyped, CallTyped
  <2>2. PartsTyped'
    BY <1>1 DEF PageInv, PageTyped, PartsTyped
  <2> QED
    BY <1>2, <2>1, <2>2 DEF PageTyped
<1>4. LoadingInv'
  BY <1>1 DEF PageInv, LoadingInv, Loads
<1>5. OneCall'
  BY <1>1, <1>2 DEF PageInv, OneCall, ScreenIsShown, Idle
<1>6. ListInv'
  BY <1>1, <1>2 DEF PageInv, ListInv
<1> QED
  BY <1>3, <1>4, <1>5, <1>6 DEF PageInv

-----------------------------------------------------------------------------
(* What is said to be loading                                               *)

\* A call of a kind that loads is not done for as long as it stays of that kind.
LEMMA LoadingStays ==
  ASSUME LoadingInv, NEW k \in Call, loading' = loading, loadingMore' = loadingMore,
         \A j \in Call : call[j].kind \in Loads \cup {"more"} => call'[j].kind = call[j].kind
  PROVE  LoadingInv'
BY DEF LoadingInv, Loads

LEMMA LoadingApply ==
  ASSUME PageTyped, LoadingInv, NEW k \in Call, Apply(k)
  PROVE  LoadingInv'
<1>0. CallTyped
  BY DEF PageTyped
<1>1. Ended(k) => \A j \in Call : j # k => call'[j] = call[j]
  BY <1>0, EndedBecomes, IdleFormed, CallBecomes
<1>2. CASE ApplyListFailed(k) \/ ApplyHistory(k) \/ ApplyUrlHistory(k)
  <2>1. Ended(k) /\ loading' = FALSE /\ loadingMore' = loadingMore /\ call[k].kind \in Loads
    BY <1>2 DEF ApplyListFailed, ApplyHistory, ApplyUrlHistory, Loads
  <2>2. \A j \in Call : call[j].kind = "more" => call'[j] = call[j]
    BY <1>1, <2>1 DEF Loads
  <2> QED
    BY <2>1, <2>2 DEF LoadingInv
<1>3. CASE ApplyList(k)
  <2>1. loadingMore' = loadingMore /\ call[k].kind \in {"list", "listNew"}
    BY <1>3 DEF ApplyList
  <2>2. CASE url # None /\ shown # url
    <3> DEFINE f == [Idle EXCEPT !.kind = "urlHistory", !.conv = url, !.at = "sent"]
    <3>1. call' = [call EXCEPT ![k] = f]
      BY <1>3, <2>2 DEF ApplyList
    <3>2. url \in ConvId
      BY <2>2 DEF PageTyped, PartsTyped
    <3>3. Formed(f) /\ f.kind = "urlHistory"
      BY <3>2, UrlBecomes
    <3> HIDE DEF f
    <3>4. call'[k] = f /\ \A j \in Call : j # k => call'[j] = call[j]
      BY <1>0, <3>1, <3>3, CallBecomes DEF Becomes
    <3>5. call'[k].kind \in Loads
      BY <3>3, <3>4 DEF Loads
    <3>6. \A j \in Call : call[j].kind = "more" => call'[j].kind = "more"
      BY <2>1, <3>4
    <3> QED
      BY <2>1, <3>5, <3>6 DEF LoadingInv, Loads
  <2>3. CASE ~(url # None /\ shown # url)
    <3>1. Ended(k) /\ loading' = FALSE
      BY <1>3, <2>3 DEF ApplyList
    <3>2. \A j \in Call : call[j].kind = "more" => call'[j].kind = "more"
      BY <1>1, <2>1, <3>1
    <3> QED
      BY <2>1, <3>1, <3>2 DEF LoadingInv
  <2> QED
    BY <2>2, <2>3
<1>4. CASE ApplyMore(k)
  <2>1. Ended(k) /\ loadingMore' = FALSE /\ loading' = loading /\ call[k].kind = "more"
    BY <1>4 DEF ApplyMore
  <2>2. \A j \in Call : call[j].kind \in Loads => call'[j] = call[j]
    BY <1>1, <2>1 DEF Loads
  <2> QED
    BY <2>1, <2>2 DEF LoadingInv, Loads
<1>5. CASE ApplyStale(k) \/ ApplyChange(k) \/ ApplyDelete(k)
  <2>1. /\ Ended(k) /\ loadingMore' = loadingMore /\ loading' = loading
        /\ call[k].kind \notin Loads \cup {"more"}
    BY <1>5 DEF ApplyStale, ApplyChange, ApplyDelete, Loads
  <2>2. \A j \in Call : call[j].kind \in Loads \cup {"more"} => call'[j].kind = call[j].kind
    BY <1>1, <2>1
  <2> QED
    BY <2>1, <2>2, LoadingStays
<1> QED
  BY <1>2, <1>3, <1>4, <1>5 DEF Apply

\* A call that is sent.
LEMMA LoadingSent ==
  ASSUME PageTyped, LoadingInv, NEW k \in Call, NEW kind \in Busy, NEW c \in ConvId \cup {None},
         NEW below \in Seq(Item), kind \in About => c \in ConvId, Send(k, kind, c, below)
  PROVE  /\ loading' = loading \/ kind \in Loads
         /\ loadingMore' = loadingMore \/ kind = "more"
         => LoadingInv'
<1>1. PICK f : /\ Formed(f) /\ Becomes(k, f) /\ call[k] = Idle
               /\ f.kind = kind /\ f.conv = c /\ f.base = below /\ f.at = "sent"
  BY SendBecomes
<1>2. call'[k] = f /\ \A j \in Call : j # k => call'[j] = call[j]
  BY <1>1, CallBecomes DEF PageTyped
<1>3. \A j \in Call : call[j].kind \in Loads \cup {"more"} => call'[j].kind = call[j].kind
  BY <1>1, <1>2, IdleFormed DEF Loads
<1> QED
  BY <1>1, <1>2, <1>3 DEF LoadingInv, Loads

LEMMA LoadingServe ==
  ASSUME PageTyped, LoadingInv, NEW k \in Call, Serve(k)
  PROVE  LoadingInv'
<1>1. UNCHANGED pageVars /\ (Refuses(k) \/ Pages(k) \/ Reads(k) \/ Alters(k) \/ Removes(k))
  BY ServeCases DEF PageTyped, ListsTyped
<1>2. PICK at, q : Answered(k, at, q)
  BY <1>1 DEF Refuses, Pages, Reads, Alters, Removes
<1>3. call'[k].kind = call[k].kind /\ \A j \in Call : j # k => call'[j] = call[j]
  BY <1>2, CallBecomes DEF PageTyped, Answered
<1>4. \A j \in Call : call[j].kind \in Loads \cup {"more"} => call'[j].kind = call[j].kind
  BY <1>3
<1> QED
  BY <1>1, <1>4, LoadingStays DEF pageVars

LEMMA LoadingActed ==
  ASSUME PageTyped, LoadingInv, NEW k \in Call,
         \/ Lose(k) \/ LoadMore(k) \/ Created(k) \/ Returns(k) \/ \E c \in ConvId : Select(k, c)
         \/ \E c \in ConvId : \E kind \in {"archive", "unarchive", "rename", "delete"} :
              Change(k, kind, c)
  PROVE  LoadingInv'
<1>1. <<>> \in Seq(Item) /\ None \in ConvId \cup {None}
  OBVIOUS
<1>2. CASE Lose(k)
  <2>1. UNCHANGED pageVars
    BY <1>2, Zenon DEF Lose
  <2>2. PICK q : Answered(k, "bad", q)
    BY <1>2, Loses DEF PageTyped
  <2>3. call'[k].kind = call[k].kind /\ \A j \in Call : j # k => call'[j] = call[j]
    BY <2>2, CallBecomes DEF PageTyped, Answered
  <2>4. \A j \in Call : call[j].kind \in Loads \cup {"more"} => call'[j].kind = call[j].kind
    BY <2>3
  <2> QED
    BY <2>1, <2>4, LoadingStays DEF pageVars
<1>3. CASE LoadMore(k)
  <2>1. Send(k, "more", None, list) /\ loading' = loading
    BY <1>3, Zenon DEF LoadMore
  <2>2. "more" \in Busy /\ ~("more" \in About) /\ list \in Seq(Item)
    BY DEF Busy, About, Changes, PageTyped, PartsTyped
  <2> QED
    BY <1>1, <2>1, <2>2, LoadingSent, Zenon
<1>4. CASE Created(k)
  <2>1. Send(k, "listNew", None, <<>>) /\ loadingMore' = loadingMore
    BY <1>4, Zenon DEF Created
  <2>2. "listNew" \in Busy /\ ~("listNew" \in About) /\ "listNew" \in Loads
    BY DEF Busy, Loads, About, Changes
  <2> QED
    BY <1>1, <2>1, <2>2, LoadingSent, Zenon
<1>5. CASE Returns(k)
  <2>1. loadingMore' = FALSE
    BY <1>5 DEF Returns, Revisit
  <2>2. call'[k].kind \in Loads
    BY <1>5, TypedRevisit DEF PageTyped, Loads
  <2> QED
    BY <2>1, <2>2 DEF LoadingInv, Loads
<1>6. ASSUME NEW c \in ConvId, Select(k, c) PROVE LoadingInv'
  <2>1. Send(k, "history", c, <<>>) /\ loadingMore' = loadingMore
    BY <1>6, Zenon DEF Select
  <2>2. "history" \in Busy /\ c \in ConvId \cup {None} /\ "history" \in Loads
    BY DEF Busy, Loads
  <2> QED
    BY <1>1, <2>1, <2>2, LoadingSent, Zenon
<1>7. ASSUME NEW c \in ConvId, NEW kind \in {"archive", "unarchive", "rename", "delete"},
             Change(k, kind, c)
      PROVE  LoadingInv'
  <2>1. Send(k, kind, c, <<>>) /\ UNCHANGED pageVars
    BY <1>7, Zenon DEF Change
  <2>2. kind \in Busy /\ c \in ConvId \cup {None}
    BY DEF Busy, Changes
  <2>3. loading' = loading /\ loadingMore' = loadingMore
    BY <2>1 DEF pageVars
  <2> QED
    BY <1>1, <2>1, <2>2, <2>3, LoadingSent, Zenon
<1> QED
  BY <1>2, <1>3, <1>4, <1>5, <1>6, <1>7

LEMMA LoadingChat ==
  ASSUME LoadingInv, NewChat \/ Continue \/ \E c \in ConvId : BeginChat(c)
  PROVE  LoadingInv'
<1>1. UNCHANGED <<loading, loadingMore, call>>
  BY DEF NewChat, Continue, BeginChat
<1> QED
  BY <1>1 DEF LoadingInv, Loads

-----------------------------------------------------------------------------
(* One call at a time                                                       *)

\* While the user waits, a call that ends or goes on stays the only one.
LEMMA OneCallStays ==
  ASSUME PageTyped, OneCall, NEW k \in Call, call[k] # Idle, haste' = haste, calm' = calm,
         arriving' = arriving, \A j \in Call : j # k => call'[j] = call[j],
         calm => /\ call'[k].kind \in {"urlHistory", "history"} => call'[k].conv = shown'
                 /\ screen' \in {None, shown'} \cup (IF shown' = None THEN {Draft} ELSE {})
  PROVE  OneCall'
<1>1. CASE ~calm
  BY <1>1 DEF OneCall, ScreenIsShown
<1>2. CASE calm
  <2>1. \A j \in Call : j # k => call[j] = Idle
    BY <1>2 DEF OneCall
  <2>2. \A j \in Call : j # k => call'[j] = Idle
    BY <2>1
  <2>3. arriving' = None
    BY <1>2 DEF OneCall
  <2>4. \A i, j \in Call : call'[i] # Idle /\ call'[j] # Idle => i = j
    BY <2>2
  <2>5. \A j \in Call : call'[j].kind \in {"urlHistory", "history"} => call'[j].conv = shown'
    BY <1>2, <2>2, IdleFormed
  <2> QED
    BY <1>2, <2>3, <2>4, <2>5 DEF OneCall, ScreenIsShown, Idle
<1> QED
  BY <1>1, <1>2 DEF PageTyped, ControlTyped

LEMMA OneCallApply ==
  ASSUME PageTyped, OneCall, NEW k \in Call, Apply(k)
  PROVE  OneCall'
<1>0. CallTyped
  BY DEF PageTyped
<1>1. /\ haste' = haste /\ calm' = calm
  BY Zenon DEF Apply
<1>2. Ended(k) => call'[k].kind = "none" /\ \A j \in Call : j # k => call'[j] = call[j]
  BY <1>0, EndedBecomes, IdleFormed, CallBecomes
<1>3. calm => screen \in {None, shown} \cup (IF shown = None THEN {Draft} ELSE {})
  BY DEF OneCall, ScreenIsShown
<1>4. calm => (call[k].kind \in {"urlHistory", "history"} => call[k].conv = shown)
  BY DEF OneCall
<1>5. call[k].kind # "none" => call[k] # Idle
  BY IdleFormed
<1>6. CASE \/ ApplyListFailed(k) \/ ApplyMore(k) \/ ApplyStale(k) \/ ApplyChange(k)
  <2>1. Ended(k) /\ UNCHANGED <<shown, screen, arriving>> /\ call[k].kind # "none"
    BY <1>6 DEF ApplyListFailed, ApplyMore, ApplyStale, ApplyChange
  <2> QED
    BY <1>1, <1>2, <1>3, <1>5, <2>1, OneCallStays
<1>7. CASE ApplyList(k)
  <2>1. arriving' = arriving /\ call[k].kind # "none"
    BY <1>7 DEF ApplyList
  <2>2. CASE url # None /\ shown # url
    <3> DEFINE f == [Idle EXCEPT !.kind = "urlHistory", !.conv = url, !.at = "sent"]
    <3>1. call' = [call EXCEPT ![k] = f] /\ shown' = url /\ screen' = None
      BY <1>7, <2>2 DEF ApplyList
    <3>2. url \in ConvId
      BY <2>2 DEF PageTyped, PartsTyped
    <3>3. Formed(f) /\ f.conv = url
      BY <3>2, UrlBecomes
    <3> HIDE DEF f
    <3>4. call'[k] = f /\ \A j \in Call : j # k => call'[j] = call[j]
      BY <1>0, <3>1, <3>3, CallBecomes DEF Becomes
    <3> QED
      BY <1>1, <1>5, <2>1, <3>1, <3>3, <3>4, OneCallStays
  <2>3. CASE ~(url # None /\ shown # url)
    <3>1. Ended(k) /\ UNCHANGED <<shown, screen>>
      BY <1>7, <2>3 DEF ApplyList
    <3> QED
      BY <1>1, <1>2, <1>3, <1>5, <2>1, <3>1, OneCallStays
  <2> QED
    BY <2>2, <2>3
<1>8. CASE ApplyUrlHistory(k)
  <2>1. Ended(k) /\ arriving' = arriving /\ call[k].kind = "urlHistory"
    BY <1>8 DEF ApplyUrlHistory
  <2>2. \/ shown' = shown /\ screen' \in {screen, call[k].conv}
        \/ shown' = None /\ screen' = IF shown # None THEN None ELSE screen
    BY <1>8 DEF ApplyUrlHistory, ShowHistory
  <2> QED
    BY <1>1, <1>2, <1>3, <1>4, <1>5, <2>1, <2>2, OneCallStays
<1>9. CASE ApplyHistory(k)
  <2>1. Ended(k) /\ arriving' = arriving /\ call[k].kind = "history" /\ shown' = shown
        /\ screen' \in {screen, call[k].conv}
    BY <1>9 DEF ApplyHistory, ShowHistory
  <2> QED
    BY <1>1, <1>2, <1>3, <1>4, <1>5, <2>1, OneCallStays
<1>10. CASE ApplyDelete(k)
  <2>1. Ended(k) /\ arriving' = arriving /\ call[k].kind = "delete"
        /\ ((shown' = shown /\ screen' = screen) \/ (shown' = None /\ screen' = None))
    BY <1>10 DEF ApplyDelete
  <2> QED
    BY <1>1, <1>2, <1>3, <1>5, <2>1, OneCallStays
<1> QED
  BY <1>6, <1>7, <1>8, <1>9, <1>10 DEF Apply

LEMMA OneCallServe ==
  ASSUME PageTyped, OneCall, NEW k \in Call, Serve(k)
  PROVE  OneCall'
<1>1. /\ call[k] # Idle /\ UNCHANGED <<haste, calm>> /\ UNCHANGED pageVars
      /\ Refuses(k) \/ Pages(k) \/ Reads(k) \/ Alters(k) \/ Removes(k)
  BY ServeCases DEF PageTyped, ListsTyped
<1>2. PICK at, q : Answered(k, at, q)
  BY <1>1 DEF Refuses, Pages, Reads, Alters, Removes
<1>3. /\ call'[k].kind = call[k].kind /\ call'[k].conv = call[k].conv
      /\ \A j \in Call : j # k => call'[j] = call[j]
  BY <1>2, CallBecomes DEF PageTyped, Answered
<1>4. UNCHANGED <<shown, screen, arriving>>
  BY <1>1 DEF pageVars
<1>5. calm => /\ call[k].kind \in {"urlHistory", "history"} => call[k].conv = shown
              /\ screen \in {None, shown} \cup (IF shown = None THEN {Draft} ELSE {})
  BY DEF OneCall, ScreenIsShown
<1> QED
  BY <1>1, <1>3, <1>4, <1>5, OneCallStays

\* A call that is sent when there is none.
LEMMA OneCallSent ==
  ASSUME PageTyped, NEW k \in Call, NEW kind \in Busy, NEW c \in ConvId \cup {None},
         NEW below \in Seq(Item), kind \in About => c \in ConvId, Send(k, kind, c, below)
  PROVE  /\ \A j \in Call : call[j] = Idle
         /\ kind \in {"urlHistory", "history"} => c = shown'
         /\ arriving' = None
         /\ calm' => screen' \in {None, shown'} \cup (IF shown' = None THEN {Draft} ELSE {})
         /\ haste' = 0 => calm'
         => OneCall'
<1>1. PICK f : /\ Formed(f) /\ Becomes(k, f) /\ call[k] = Idle
               /\ f.kind = kind /\ f.conv = c /\ f.base = below /\ f.at = "sent"
  BY SendBecomes
<1>2. call'[k] = f /\ \A j \in Call : j # k => call'[j] = call[j]
  BY <1>1, CallBecomes DEF PageTyped
<1> QED
  BY <1>1, <1>2, IdleFormed DEF OneCall, ScreenIsShown, Idle

\* A user who does not wait.
LEMMA OneCallHasty == haste' # 0 /\ calm' = FALSE => OneCall'
BY DEF OneCall, ScreenIsShown

LEMMA OneCallActed ==
  ASSUME PageTyped, OneCall, NEW k \in Call,
         \/ Lose(k) \/ LoadMore(k) \/ Created(k) \/ Returns(k) \/ \E c \in ConvId : Select(k, c)
         \/ \E c \in ConvId : \E kind \in {"archive", "unarchive", "rename", "delete"} :
              Change(k, kind, c)
  PROVE  OneCall'
<1>0. ControlTyped
  BY DEF PageTyped
<1>1. <<>> \in Seq(Item) /\ None \in ConvId \cup {None}
  OBVIOUS
<1>2. CASE Lose(k) \/ Returns(k)
  BY <1>0, <1>2, Paces, OneCallHasty DEF Lose, Returns, Revisit
<1>3. CASE LoadMore(k)
  <2>1. Act /\ Send(k, "more", None, list) /\ UNCHANGED <<shown, screen, arriving>>
    BY <1>3, Zenon DEF LoadMore
  <2>2. "more" \in Busy /\ ~("more" \in About) /\ list \in Seq(Item) /\ "more" \notin {"urlHistory", "history"}
    BY DEF Busy, About, Changes, PageTyped, PartsTyped
  <2>3. CASE haste' # 0 /\ calm' = FALSE
    BY <2>3, OneCallHasty
  <2>4. CASE UNCHANGED <<haste, calm>> /\ Quiet
    BY <1>1, <2>1, <2>2, <2>4, OneCallSent DEF OneCall, ScreenIsShown, Quiet
  <2> QED
    BY <1>0, <2>1, <2>3, <2>4, Paces
<1>4. CASE Created(k)
  <2>1. UNCHANGED <<haste, calm>> /\ Send(k, "listNew", None, <<>>)
    BY <1>4, Zenon DEF Created
  <2>2. /\ arriving # None /\ shown' = arriving /\ arriving' = None
        /\ screen' = IF shown \notin {None, arriving} THEN None
                     ELSE IF screen = Draft THEN arriving ELSE screen
    BY <1>4 DEF Created
  <2>3. "listNew" \in Busy /\ ~("listNew" \in About) /\ "listNew" \notin {"urlHistory", "history"}
    BY DEF Busy, Loads, About, Changes
  <2>4. CASE ~calm
    BY <1>0, <2>1, <2>4 DEF OneCall, ScreenIsShown, ControlTyped
  <2>5. CASE calm
    <3>1. shown = None /\ \A j \in Call : call[j] = Idle
      BY <2>2, <2>5 DEF OneCall
    <3>2. screen \in {None, Draft}
      BY <2>5, <3>1 DEF OneCall, ScreenIsShown
    <3>3. screen' \in {None, shown'}
      BY <2>2, <3>1, <3>2
    <3> QED
      BY <1>1, <2>1, <2>2, <2>3, <2>5, <3>1, <3>3, OneCallSent
  <2> QED
    BY <1>0, <2>4, <2>5 DEF ControlTyped
<1>5. ASSUME NEW c \in ConvId, Select(k, c) PROVE OneCall'
  <2>1. Choose /\ Send(k, "history", c, <<>>) /\ shown' = c /\ screen' = None /\ arriving' = arriving
    BY <1>5, Zenon DEF Select
  <2>2. "history" \in Busy /\ c \in ConvId \cup {None}
    BY DEF Busy, Loads
  <2>3. CASE haste' # 0 /\ calm' = FALSE
    BY <2>3, OneCallHasty
  <2>4. CASE haste' = haste /\ calm' = TRUE /\ Quiet
    BY <1>1, <2>1, <2>2, <2>4, OneCallSent DEF Quiet
  <2> QED
    BY <1>0, <2>1, <2>3, <2>4, Paces
<1>6. ASSUME NEW c \in ConvId, NEW kind \in {"archive", "unarchive", "rename", "delete"},
             Change(k, kind, c)
      PROVE  OneCall'
  <2>1. Act /\ UNCHANGED pageVars /\ Send(k, kind, c, <<>>)
    BY <1>6, Zenon DEF Change
  <2>2. kind \in Busy /\ c \in ConvId \cup {None} /\ kind \notin {"urlHistory", "history"}
    BY DEF Busy, Changes
  <2>3. CASE haste' # 0 /\ calm' = FALSE
    BY <2>3, OneCallHasty
  <2>4. CASE UNCHANGED <<haste, calm>> /\ Quiet
    <3>1. UNCHANGED <<shown, screen, arriving>>
      BY <2>1 DEF pageVars
    <3> QED
      BY <1>1, <2>1, <2>2, <2>4, <3>1, OneCallSent DEF OneCall, ScreenIsShown, Quiet
  <2> QED
    BY <1>0, <2>1, <2>3, <2>4, Paces
<1> QED
  BY <1>2, <1>3, <1>4, <1>5, <1>6

LEMMA OneCallChat ==
  ASSUME PageTyped, OneCall, NewChat \/ Continue \/ \E c \in ConvId : BeginChat(c)
  PROVE  OneCall'
<1>0. ControlTyped
  BY DEF PageTyped
<1>1. CASE NewChat
  <2>1. Choose /\ screen' = None /\ UNCHANGED <<arriving, call>>
    BY <1>1 DEF NewChat
  <2>2. CASE haste' = haste /\ calm' = TRUE /\ Quiet
    BY <2>1, <2>2, IdleFormed DEF Quiet, OneCall, ScreenIsShown, Idle
  <2> QED
    BY <1>0, <2>1, <2>2, Paces, OneCallHasty
<1>2. CASE Continue
  <2>1. /\ Act \/ Hurry
        /\ screen' = (IF screen = None THEN shown ELSE screen) /\ UNCHANGED <<shown, arriving, call>>
    BY <1>2 DEF Continue
  <2>2. CASE UNCHANGED <<haste, calm>> /\ Quiet
    BY <2>1, <2>2, IdleFormed DEF Quiet, OneCall, ScreenIsShown, Idle
  <2> QED
    BY <1>0, <2>1, <2>2, Paces, OneCallHasty
<1>3. ASSUME NEW c \in ConvId, BeginChat(c) PROVE OneCall'
  <2>1. /\ Act /\ shown = None /\ screen' = (IF screen = None THEN Draft ELSE screen)
        /\ UNCHANGED <<shown, call>>
    BY <1>3 DEF BeginChat
  <2>2. CASE UNCHANGED <<haste, calm>> /\ Quiet
    BY <2>1, <2>2, IdleFormed DEF Quiet, OneCall, ScreenIsShown, Idle
  <2> QED
    BY <1>0, <2>1, <2>2, Paces, OneCallHasty
<1> QED
  BY <1>1, <1>2, <1>3

-----------------------------------------------------------------------------
(* The list                                                                 *)

LEMMA IdleRight == \A l, m, sv, ar, bg : CallRight(Idle, l, m, sv, ar, bg)
BY DEF Idle, CallRight, Changes

\* A call that has no answer yet.
LEMMA UnansweredRight ==
  \A f, l, m, sv, ar, bg : f.at # "ok" =>
    (CallRight(f, l, m, sv, ar, bg) <=>
       /\ f.kind \in {"list", "listNew"} => f.base = <<>>
       /\ f.kind = "more" => f.base = l
       /\ f.kind = "listNew" => bg # {}
       /\ f.kind \in Changes => f.conv \in Ids(l)
       /\ f.kind # "staleMore")
BY DEF CallRight

\* What holds of a user who waits, before a step that leaves them waiting.
LEMMA Waiting ==
  ASSUME PageInv, haste = 0, NEW k \in Call, call[k] # Idle
  PROVE  /\ \A j \in Call : j # k => call[j] = Idle
         /\ arriving = None /\ CallRight(call[k], list, more, server, archived, begun)
         /\ call[k].at # "ok" => Right(list, more, server, archived, begun)
<1>1. calm
  BY DEF PageInv, OneCall
<1>2. \A j \in Call : j # k => call[j] = Idle
  BY <1>1 DEF PageInv, OneCall
<1>3. arriving = None
  BY <1>1 DEF PageInv, OneCall
<1>4. call[k].at # "ok" => \A j \in Call : call[j].at # "ok"
  BY <1>2, IdleFormed
<1> QED
  BY <1>2, <1>3, <1>4 DEF PageInv, ListInv

LEMMA WaitingIdle ==
  ASSUME PageInv, haste = 0, \A k \in Call : call[k] = Idle
  PROVE  Right(list, more, server, archived, begun)
BY IdleFormed DEF PageInv, ListInv

\* What is left to show of a step after which one call is under way, at most.
LEMMA ListLeft ==
  ASSUME NEW k \in Call, \A j \in Call : j # k => call'[j] = Idle,
         call'[k].at # "ok" => Right(list', more', server', archived', begun'),
         CallRight(call'[k], list', more', server', archived', begun'),
         arriving' # None => arriving' \in begun'
  PROVE  ListInv'
<1>1. \A j \in Call : CallRight(call'[j], list', more', server', archived', begun')
  BY IdleRight
<1>2. (\A j \in Call : call'[j].at # "ok") => Right(list', more', server', archived', begun')
  OBVIOUS
<1> QED
  BY <1>1, <1>2, Zenon DEF ListInv

\* The pages that the server answers.
LEMMA ListPages ==
  ASSUME PageInv, haste = 0, NEW k \in Call, call[k].at = "sent", call[k] # Idle, NEW g,
         call[k].kind \in {"list", "listNew", "more"},
         g.kind = call[k].kind, g.base = call[k].base, g.at = "ok",
         g.answer = PageAt(Len(call[k].base))
  PROVE  CallRight(g, list, more, server, archived, begun)
<1> DEFINE f == call[k]
           q == g.answer
<1>1. CallRight(f, list, more, server, archived, begun) /\ Right(list, more, server, archived, begun)
  BY Waiting
<1>2. /\ f.kind \in {"list", "listNew"} => f.base = <<>>
      /\ f.kind = "more" => f.base = list
      /\ f.kind = "listNew" => begun # {}
  BY <1>1 DEF CallRight
<1>3. ServerTyped /\ list \in Seq(Item) /\ Len(list) \in Nat
  BY DEF PageInv, PageTyped, ListsTyped, PartsTyped
<1>4. CASE f.kind = "more"
  <2>1. PageAfter(q, Len(list))
    BY <1>2, <1>3, <1>4, PageIsAfter
  <2>2. Good(list, server, begun) /\ FlagsRight(list, archived)
    BY <1>1 DEF Right
  <2> HIDE DEF q
  <2>3. Right(list \o q, Len(q) >= PageSize, server, archived, begun)
    BY <1>3, <2>1, <2>2, RightWithPage
  <2>4. q \in Seq(Item)
    BY <2>1 DEF PageAfter
  <2>5. q = <<>> => list \o q = list
    BY <1>3
  <2>6. After(g, list) = list \o q
    BY <1>2, <1>4, <2>5 DEF After, q
  <2>7. MoreAfter(g, more) = (Len(q) >= PageSize)
    BY <1>4, Zenon DEF MoreAfter, q
  <2>8. Right(After(g, list), MoreAfter(g, more), server, archived, begun)
    BY <2>3, <2>6, <2>7, Zenon
  <2> QED
    BY <1>2, <1>4, <2>8 DEF CallRight, Changes
<1>5. CASE f.kind \in {"list", "listNew"}
  <2>1. Len(f.base) = 0
    BY <1>2, <1>5
  <2>2. PageAfter(q, 0)
    BY <1>3, <2>1, PageIsAfter
  <2> HIDE DEF q
  <2>3. q \in Seq(Item)
    BY <2>2 DEF PageAfter
  <2>4. <<>> \in Seq(Item) /\ Len(<<>>) = 0
    OBVIOUS
  <2>5. Good(<<>>, server, begun) /\ FlagsRight(<<>>, archived)
    <3> DEFINE e == <<>>
    <3>1. Ids(e) = {} /\ Heads(server, 0) = {} /\ Len(e) = 0 /\ DOMAIN e = {}
      BY DEF Ids, Heads
    <3>2. Len(server) \in Nat
      BY <1>3 DEF ServerTyped
    <3> HIDE DEF e
    <3>3. Good(e, server, begun) /\ FlagsRight(e, archived)
      BY <3>1, <3>2 DEF Good, Firsts, FlagsRight
    <3> QED
      BY <3>3 DEF e
  <2>6. PageAfter(q, Len(<<>>))
    BY <2>2, <2>4
  <2>7. Right(<<>> \o q, Len(q) >= PageSize, server, archived, begun)
    <3> DEFINE e == <<>>
    <3>1. e \in Seq(Item) /\ Good(e, server, begun) /\ FlagsRight(e, archived) /\ PageAfter(q, Len(e))
      BY <2>4, <2>5, <2>6
    <3> HIDE DEF e
    <3>2. Right(e \o q, Len(q) >= PageSize, server, archived, begun)
      BY <1>3, <3>1, RightWithPage
    <3> QED
      BY <3>2 DEF e
  <2>8. <<>> \o q = q
    BY <2>3
  <2>9. After(g, list) = q
    BY <1>5 DEF After, q
  <2>10. CASE f.kind = "list"
    <3>1. MoreAfter(g, more) = (Len(q) >= PageSize)
      BY <2>10, Zenon DEF MoreAfter, q
    <3>2. Right(After(g, list), MoreAfter(g, more), server, archived, begun)
      BY <2>7, <2>8, <2>9, <3>1, Zenon
    <3> QED
      BY <1>2, <2>10, <3>2 DEF CallRight, Changes
  <2>11. CASE f.kind = "listNew"
    <3>1. Right(After(g, list), MoreAfter(g, more), server, archived, begun)
      BY <1>2, <2>7, <2>8, <2>9, <2>11 DEF Right
    <3> QED
      BY <1>2, <2>11, <3>1 DEF CallRight, Changes
  <2> QED
    BY <1>5, <2>10, <2>11
<1> QED
  BY <1>4, <1>5

LEMMA ServerSet == OnServer = ToSet(server)
BY DEF OnServer, ToSet

\* A change that the server makes.
LEMMA ListAlters ==
  ASSUME PageInv, haste = 0, NEW k \in Call, call[k].at = "sent", call[k] # Idle, Alters(k), NEW g,
         g.kind = call[k].kind, g.conv = call[k].conv, g.at = "ok"
  PROVE  CallRight(g, list, more, server', archived', begun')
<1> DEFINE f == call[k]
           c == call[k].conv
<1>1. CallRight(f, list, more, server, archived, begun) /\ Right(list, more, server, archived, begun)
  BY Waiting
<1>2. /\ ServerTyped /\ list \in Seq(Item) /\ archived \subseteq ConvId
  BY DEF PageInv, PageTyped, ListsTyped, PartsTyped
<1>3. /\ f.kind \in {"archive", "unarchive", "rename"} /\ c \in ToSet(server) /\ begun' = begun
      /\ server' = server \/ server' = Touched(c)
      /\ f.kind = "archive" => archived' = archived \cup {c}
      /\ f.kind = "unarchive" => archived' = archived \ {c}
      /\ f.kind = "rename" => archived' = archived
  BY ServerSet DEF Alters
<1>4. c \in Ids(list)
  BY <1>1, <1>3 DEF CallRight, Changes
<1>5. Good(list, server, begun) /\ FlagsRight(list, archived)
      /\ (begun = {} /\ ~more => Ids(list) = ToSet(server))
  BY <1>1 DEF Right
<1>6. Good(list, server', begun) /\ ToSet(server') = ToSet(server)
  <2>1. CASE server' = server
    BY <1>5, <2>1
  <2>2. CASE server' = Touched(c)
    <3>1. PICK p \in DOMAIN server : server[p] = c
      BY <1>3 DEF ToSet
    <3>2. MovesUp(server, p, <<server[p]>> \o Keep(server, ConvId \ {server[p]}))
      BY <1>2, MovedUp, Zenon DEF ServerTyped
    <3>3. MovesUp(server, p, server')
      BY <2>2, <3>1, <3>2 DEF Touched
    <3> HIDE DEF c
    <3>4. Good(list, server', begun)
      BY <1>2, <1>4, <1>5, <3>1, <3>3, GoodTouched DEF ServerTyped
    <3> QED
      BY <3>3, <3>4 DEF MovesUp
  <2> QED
    BY <1>3, <2>1, <2>2
<1>7. CASE f.kind = "rename"
  <2>1. After(g, list) = list /\ MoreAfter(g, more) = more
    BY <1>7 DEF After, MoreAfter
  <2>2. Right(list, more, server', archived', begun')
    BY <1>3, <1>5, <1>6, <1>7 DEF Right
  <2> QED
    BY <1>4, <1>7, <2>1, <2>2 DEF CallRight, Changes
<1>8. CASE f.kind \in {"archive", "unarchive"}
  <2> DEFINE r == Flagged(g, list)
  <2>1. After(g, list) = r /\ MoreAfter(g, more) = more
    BY <1>8 DEF After, MoreAfter
  <2>2. /\ r \in Seq(Item) /\ Len(r) = Len(list)
        /\ \A i \in DOMAIN list :
             /\ r[i].id = list[i].id
             /\ r[i].archived = IF list[i].id = g.conv THEN g.kind = "archive" ELSE list[i].archived
    BY FlaggedTyped DEF PageInv
  <2> HIDE DEF r
  <2>3. Ids(r) = Ids(list) /\ Good(r, server', begun)
    BY <1>2, <1>6, <2>2, GoodFlags
  <2>4. DOMAIN r = DOMAIN list
    BY <1>2, <2>2
  <2>5. FlagsRight(r, archived')
    <3>1. ASSUME NEW i \in DOMAIN r PROVE r[i].archived = (r[i].id \in archived')
      <4>1. r[i].id = list[i].id /\ list[i].archived = (list[i].id \in archived)
        BY <1>5, <2>2, <2>4 DEF FlagsRight
      <4>2. CASE list[i].id = c
        <5>1. r[i].archived = (g.kind = "archive")
          BY <2>2, <2>4, <4>2
        <5>2. (g.kind = "archive") <=> (r[i].id \in archived')
          BY <1>3, <1>8, <4>1, <4>2
        <5> QED
          BY <5>1, <5>2
      <4>3. CASE list[i].id # c
        <5>1. r[i].archived = list[i].archived
          BY <2>2, <2>4, <4>3
        <5>2. (list[i].id \in archived) <=> (r[i].id \in archived')
          BY <1>3, <1>8, <4>1, <4>3
        <5> QED
          BY <4>1, <5>1, <5>2
      <4> QED
        BY <4>2, <4>3
    <3> QED
      BY <3>1 DEF FlagsRight
  <2>6. Right(r, more, server', archived', begun')
    BY <1>3, <1>5, <1>6, <2>3, <2>5 DEF Right
  <2> QED
    BY <1>4, <1>8, <2>1, <2>6 DEF CallRight, Changes
<1> QED
  BY <1>3, <1>7, <1>8

LEMMA ListRemoves ==
  ASSUME PageInv, haste = 0, NEW k \in Call, call[k].at = "sent", call[k] # Idle, Removes(k), NEW g,
         g.kind = call[k].kind, g.conv = call[k].conv, g.at = "ok"
  PROVE  CallRight(g, list, more, server', archived', begun')
<1> DEFINE c == call[k].conv
           r == Keep(list, {x \in Item : x.id # c})
<1>1. /\ CallRight(call[k], list, more, server, archived, begun)
      /\ Right(list, more, server, archived, begun)
  BY Waiting
<1>2. /\ ServerTyped /\ list \in Seq(Item)
  BY DEF PageInv, PageTyped, ListsTyped, PartsTyped
<1>3. /\ call[k].kind = "delete" /\ c \in ToSet(server) /\ begun' = begun
      /\ server' = Keep(server, ConvId \ {c}) /\ archived' = archived \ {c}
  BY ServerSet DEF Removes
<1>4. c \in Ids(list)
  BY <1>1, <1>3 DEF CallRight, Changes
<1>5. Good(list, server, begun) /\ FlagsRight(list, archived)
      /\ (begun = {} /\ ~more => Ids(list) = ToSet(server))
  BY <1>1 DEF Right
<1>6. After(g, list) = r /\ MoreAfter(g, more) = more
  BY <1>3 DEF After, MoreAfter
<1> HIDE DEF c
<1>7. Good(r, server', begun)
  BY <1>2, <1>3, <1>4, <1>5, GoodRemoved DEF ServerTyped
<1>8. r \in Seq(Item) /\ ToSet(r) = ToSet(list) \cap {x \in Item : x.id # c}
  BY <1>2, Kept, Zenon
<1>9. ToSet(server') = ToSet(server) \ {c}
  <2> DEFINE C == ConvId \ {c}
  <2>1. server' = Keep(server, C)
    BY <1>3
  <2> HIDE DEF C
  <2>2. ToSet(Keep(server, C)) = ToSet(server) \cap C
    BY <1>2, Kept, Zenon DEF ServerTyped
  <2>3. ToSet(server) \subseteq ConvId
    BY <1>2, Entries DEF ServerTyped
  <2> QED
    BY <2>1, <2>2, <2>3 DEF C
<1> HIDE DEF r
<1>10. \A x \in ToSet(r) : x \in ToSet(list) /\ x.id # c
  BY <1>8
<1>11. FlagsRight(r, archived')
  <2>1. ASSUME NEW i \in DOMAIN r PROVE r[i].archived = (r[i].id \in archived')
    <3>1. r[i] \in ToSet(r)
      BY DEF ToSet
    <3>2. PICK j \in DOMAIN list : r[i] = list[j]
      BY <1>10, <3>1 DEF ToSet
    <3>3. r[i].archived = (r[i].id \in archived)
      BY <1>5, <3>2 DEF FlagsRight
    <3>4. (r[i].id \in archived) <=> (r[i].id \in archived')
      BY <1>3, <1>10, <3>1
    <3> QED
      BY <3>3, <3>4
  <2> QED
    BY <2>1 DEF FlagsRight
<1>12. Ids(r) = Ids(list) \ {c}
  <2>1. Ids(r) = {x.id : x \in ToSet(r)} /\ Ids(list) = {x.id : x \in ToSet(list)}
    BY DEF Ids, ToSet
  <2>2. ToSet(list) \subseteq Item
    BY <1>2, Entries
  <2> QED
    BY <1>8, <2>1, <2>2
<1>13. Right(r, more, server', archived', begun')
  BY <1>3, <1>5, <1>7, <1>9, <1>11, <1>12 DEF Right
<1> QED
  BY <1>3, <1>4, <1>6, <1>13 DEF CallRight, Changes, c

LEMMA ListServe ==
  ASSUME PageInv, NEW k \in Call, Serve(k)
  PROVE  ListInv'
<1>1. /\ call[k].at = "sent" /\ call[k] # Idle /\ UNCHANGED <<haste, calm>> /\ UNCHANGED pageVars
      /\ Refuses(k) \/ Pages(k) \/ Reads(k) \/ Alters(k) \/ Removes(k)
  BY ServeCases DEF PageInv, PageTyped, ListsTyped
<1>2. UNCHANGED <<list, more, arriving>>
  BY <1>1 DEF pageVars
<1>3. CASE haste # 0
  BY <1>1, <1>3 DEF ListInv
<1>4. CASE haste = 0
  <2>1. /\ \A j \in Call : j # k => call[j] = Idle
        /\ arriving = None /\ CallRight(call[k], list, more, server, archived, begun)
        /\ Right(list, more, server, archived, begun)
    BY <1>1, <1>4, Waiting
  <2>2. CallTyped
    BY DEF PageInv, PageTyped
  <2>3. CASE Refuses(k)
    <3>1. Answered(k, "bad", <<>>) /\ UNCHANGED <<server, archived, begun>>
      BY <2>3 DEF Refuses, serverVars
    <3>2. PICK g : /\ Formed(g) /\ Becomes(k, g) /\ g.kind = call[k].kind /\ g.conv = call[k].conv
                   /\ g.base = call[k].base /\ g.at = "bad"
      BY <3>1 DEF Answered
    <3>3. call'[k] = g /\ \A j \in Call : j # k => call'[j] = Idle
      BY <2>1, <2>2, <3>2, CallBecomes
    <3>4. CallRight(g, list, more, server, archived, begun)
      BY <2>1, <3>2 DEF CallRight
    <3> QED
      BY <1>2, <2>1, <3>1, <3>3, <3>4, ListLeft
  <2>4. CASE Pages(k)
    <3>1. /\ Answered(k, "ok", PageAt(Len(call[k].base))) /\ UNCHANGED <<server, archived, begun>>
          /\ call[k].kind \in {"list", "listNew", "more"}
      BY <2>4 DEF Pages, serverVars
    <3>2. PICK g : /\ Formed(g) /\ Becomes(k, g) /\ g.kind = call[k].kind /\ g.conv = call[k].conv
                   /\ g.base = call[k].base /\ g.at = "ok" /\ g.answer = PageAt(Len(call[k].base))
      BY <3>1 DEF Answered
    <3>3. call'[k] = g /\ \A j \in Call : j # k => call'[j] = Idle
      BY <2>1, <2>2, <3>2, CallBecomes
    <3>4. CallRight(g, list, more, server, archived, begun)
      BY <1>1, <1>4, <3>1, <3>2, ListPages
    <3> QED
      BY <1>2, <2>1, <3>1, <3>2, <3>3, <3>4, ListLeft
  <2>5. CASE Reads(k)
    <3>1. /\ Answered(k, "ok", <<>>) /\ UNCHANGED <<server, archived, begun>>
          /\ call[k].kind \in {"history", "urlHistory"}
      BY <2>5 DEF Reads, serverVars
    <3>2. PICK g : Formed(g) /\ Becomes(k, g) /\ g.kind = call[k].kind /\ g.at = "ok"
      BY <3>1 DEF Answered
    <3>3. call'[k] = g /\ \A j \in Call : j # k => call'[j] = Idle
      BY <2>1, <2>2, <3>2, CallBecomes
    <3>4. After(g, list) = list /\ MoreAfter(g, more) = more
      BY <3>1, <3>2 DEF After, MoreAfter
    <3>5. CallRight(g, list, more, server, archived, begun)
      BY <2>1, <3>1, <3>2, <3>4 DEF CallRight, Changes
    <3> QED
      BY <1>2, <2>1, <3>1, <3>2, <3>3, <3>5, ListLeft
  <2>6. CASE Alters(k) \/ Removes(k)
    <3>1. Answered(k, "ok", <<>>)
      BY <2>6 DEF Alters, Removes
    <3>2. PICK g : /\ Formed(g) /\ Becomes(k, g) /\ g.kind = call[k].kind /\ g.conv = call[k].conv
                   /\ g.at = "ok"
      BY <3>1 DEF Answered
    <3>3. call'[k] = g /\ \A j \in Call : j # k => call'[j] = Idle
      BY <2>1, <2>2, <3>2, CallBecomes
    <3>4. CallRight(g, list, more, server', archived', begun')
      BY <1>1, <1>4, <2>6, <3>2, ListAlters, ListRemoves
    <3> QED
      BY <1>2, <2>1, <3>2, <3>3, <3>4, ListLeft
  <2> QED
    BY <1>1, <2>3, <2>4, <2>5, <2>6
<1> QED
  BY <1>3, <1>4

\* What an answer makes of the list.
LEMMA Applied ==
  ASSUME NEW k \in Call, Apply(k), call[k].kind # "staleMore"
  PROVE  \/ call[k].at = "ok" /\ list' = After(call[k], list) /\ more' = MoreAfter(call[k], more)
         \/ call[k].at = "bad" /\ list' = list /\ more' = more
<1> DEFINE f == call[k]
<1>1. CASE ApplyListFailed(k)
  BY <1>1 DEF ApplyListFailed
<1>2. CASE ApplyList(k)
  <2>1. f.kind \in {"list", "listNew"} /\ f.at = "ok" /\ list' = f.answer
    BY <1>2 DEF ApplyList
  <2>2. more' = IF f.kind = "list" THEN Len(f.answer) >= PageSize ELSE more
    BY <1>2, Zenon DEF ApplyList
  <2>3. After(f, list) = f.answer
    BY <2>1 DEF After
  <2>4. MoreAfter(f, more) = IF f.kind = "list" THEN Len(f.answer) >= PageSize ELSE more
    <3>1. f.kind \in {"list", "more"} <=> f.kind = "list"
      BY <2>1
    <3> QED
      BY <3>1, Zenon DEF MoreAfter
  <2> QED
    BY <2>1, <2>2, <2>3, <2>4, Zenon
<1>3. CASE ApplyUrlHistory(k) \/ ApplyHistory(k)
  <2>1. f.kind \in {"urlHistory", "history"} /\ f.at \in {"ok", "bad"} /\ UNCHANGED <<list, more>>
    BY <1>3 DEF ApplyUrlHistory, ApplyHistory
  <2>2. After(f, list) = list /\ MoreAfter(f, more) = more
    BY <2>1 DEF After, MoreAfter
  <2> QED
    BY <2>1, <2>2
<1>4. CASE ApplyMore(k)
  <2>1. f.kind = "more"
    BY <1>4 DEF ApplyMore
  <2>2. CASE f.at = "ok"
    <3>1. list' = (IF f.answer = <<>> THEN list ELSE f.base \o f.answer)
      BY <1>4, <2>2 DEF ApplyMore
    <3>2. more' = (Len(f.answer) >= PageSize)
      BY <1>4, <2>2, Zenon DEF ApplyMore
    <3>3. MoreAfter(f, more) = (Len(f.answer) >= PageSize)
      BY <2>1, Zenon DEF MoreAfter
    <3>4. After(f, list) = (IF f.answer = <<>> THEN list ELSE f.base \o f.answer)
      BY <2>1 DEF After
    <3> QED
      BY <2>2, <3>1, <3>2, <3>3, <3>4, Zenon
  <2>3. CASE f.at # "ok"
    BY <1>4, <2>3 DEF ApplyMore
  <2> QED
    BY <2>2, <2>3
<1>5. CASE ApplyStale(k)
  BY <1>5 DEF ApplyStale
<1>6. CASE ApplyChange(k)
  <2>1. /\ f.kind \in {"archive", "unarchive", "rename"} /\ f.at \in {"ok", "bad"} /\ more' = more
        /\ list' = IF f.at = "ok" /\ f.kind # "rename" THEN Flagged(f, list) ELSE list
    BY <1>6 DEF ApplyChange, Flagged
  <2>2. MoreAfter(f, more) = more
    BY <2>1 DEF MoreAfter
  <2>3. After(f, list) = IF f.kind # "rename" THEN Flagged(f, list) ELSE list
    BY <2>1 DEF After
  <2> QED
    BY <2>1, <2>2, <2>3
<1>7. CASE ApplyDelete(k)
  <2>1. /\ f.kind = "delete" /\ f.at \in {"ok", "bad"} /\ more' = more
        /\ f.at = "ok" => list' = Keep(list, {x \in Item : x.id # f.conv})
        /\ f.at = "bad" => list' = list
    BY <1>7 DEF ApplyDelete
  <2>2. MoreAfter(f, more) = more /\ After(f, list) = Keep(list, {x \in Item : x.id # f.conv})
    BY <2>1 DEF MoreAfter, After
  <2> QED
    BY <2>1, <2>2
<1> QED
  BY <1>1, <1>2, <1>3, <1>4, <1>5, <1>6, <1>7 DEF Apply

\* What becomes of the call.
LEMMA AppliedCall ==
  ASSUME PageTyped, NEW k \in Call, Apply(k)
  PROVE  /\ call[k].kind # "none" /\ (call'[k] = Idle \/ (call'[k].kind = "urlHistory" /\ call'[k].at = "sent"))
         /\ \A j \in Call : j # k => call'[j] = call[j]
         /\ UNCHANGED <<haste, calm, arriving, server, archived, begun>>
<1>1. UNCHANGED <<haste, calm, server, archived, begun>>
  BY DEF Apply, serverVars
<1>2. arriving' = arriving /\ call[k].kind # "none"
  BY DEF Apply, ApplyListFailed, ApplyList, ApplyUrlHistory, ApplyMore, ApplyStale, ApplyHistory,
         ApplyChange, ApplyDelete
<1>3. Ended(k) => call'[k] = Idle /\ \A j \in Call : j # k => call'[j] = call[j]
  BY EndedBecomes, IdleFormed, CallBecomes DEF PageTyped
<1>4. \/ Ended(k)
      \/ /\ url # None
         /\ call' = [call EXCEPT ![k] = [Idle EXCEPT !.kind = "urlHistory", !.conv = url, !.at = "sent"]]
  BY DEF Apply, ApplyListFailed, ApplyList, ApplyUrlHistory, ApplyMore, ApplyStale, ApplyHistory,
         ApplyChange, ApplyDelete
<1>5. CASE ~Ended(k)
  <2> DEFINE f == [Idle EXCEPT !.kind = "urlHistory", !.conv = url, !.at = "sent"]
  <2>1. call' = [call EXCEPT ![k] = f] /\ url # None
    BY <1>4, <1>5
  <2>2. url \in ConvId
    BY <2>1 DEF PageTyped, PartsTyped
  <2>3. Formed(f) /\ f.kind = "urlHistory" /\ f.at = "sent"
    BY <2>2, UrlBecomes
  <2> HIDE DEF f
  <2>4. call'[k] = f /\ \A j \in Call : j # k => call'[j] = call[j]
    BY <2>1, <2>3, CallBecomes DEF Becomes, PageTyped
  <2> QED
    BY <1>1, <1>2, <2>3, <2>4
<1> QED
  BY <1>1, <1>2, <1>3, <1>5

LEMMA ListApply ==
  ASSUME PageInv, NEW k \in Call, Apply(k)
  PROVE  ListInv'
<1>1. /\ call[k].kind # "none" /\ (call'[k] = Idle \/ (call'[k].kind = "urlHistory" /\ call'[k].at = "sent"))
      /\ \A j \in Call : j # k => call'[j] = call[j]
      /\ UNCHANGED <<haste, calm, arriving, server, archived, begun>>
  BY AppliedCall DEF PageInv
<1>2. CASE haste # 0
  BY <1>1, <1>2 DEF ListInv
<1>3. CASE haste = 0
  <2>1. call[k] # Idle
    BY <1>1, IdleFormed
  <2>2. /\ \A j \in Call : j # k => call[j] = Idle
        /\ arriving = None /\ CallRight(call[k], list, more, server, archived, begun)
        /\ call[k].at # "ok" => Right(list, more, server, archived, begun)
    BY <1>3, <2>1, Waiting
  <2>3. call[k].kind # "staleMore"
    BY <2>2 DEF CallRight
  <2>4. Right(list', more', server, archived, begun)
    <3>1. CASE call[k].at = "ok" /\ list' = After(call[k], list) /\ more' = MoreAfter(call[k], more)
      <4>1. Right(After(call[k], list), MoreAfter(call[k], more), server, archived, begun)
        BY <2>2, <3>1 DEF CallRight
      <4> QED
        BY <3>1, <4>1, Zenon
    <3>2. CASE call[k].at = "bad" /\ list' = list /\ more' = more
      BY <2>2, <3>2
    <3> QED
      BY <2>3, <3>1, <3>2, Applied
  <2>5. CallRight(call'[k], list', more', server, archived, begun)
    <3>1. CASE call'[k] = Idle
      BY <3>1, IdleRight
    <3>2. CASE call'[k].kind = "urlHistory" /\ call'[k].at = "sent"
      BY <3>2, UnansweredRight DEF Changes
    <3> QED
      BY <1>1, <3>1, <3>2
  <2> QED
    BY <1>1, <2>2, <2>4, <2>5, ListLeft
<1> QED
  BY <1>2, <1>3

\* A call that is sent when there is none.
LEMMA ListSent ==
  ASSUME PageInv, NEW k \in Call, NEW kind \in Busy, NEW c \in ConvId \cup {None},
         NEW below \in Seq(Item), kind \in About => c \in ConvId, Send(k, kind, c, below)
  PROVE  /\ haste = 0 /\ \A j \in Call : call[j] = Idle
         /\ UNCHANGED <<list, more, server, archived, begun>>
         /\ arriving' = None
         /\ kind \in {"list", "listNew"} => below = <<>>
         /\ kind = "more" => below = list
         /\ kind = "listNew" => begun # {}
         /\ kind \in Changes => c \in Ids(list)
         /\ kind # "staleMore"
         => ListInv'
<1>1. PICK f : /\ Formed(f) /\ Becomes(k, f) /\ call[k] = Idle
               /\ f.kind = kind /\ f.conv = c /\ f.base = below /\ f.at = "sent"
  BY SendBecomes
<1>2. call'[k] = f /\ \A j \in Call : j # k => call'[j] = call[j]
  BY <1>1, CallBecomes DEF PageInv, PageTyped
<1> SUFFICES ASSUME haste = 0, \A j \in Call : call[j] = Idle,
                    UNCHANGED <<list, more, server, archived, begun>>,
                    arriving' = None,
                    kind \in {"list", "listNew"} => below = <<>>,
                    kind = "more" => below = list,
                    kind = "listNew" => begun # {},
                    kind \in Changes => c \in Ids(list),
                    kind # "staleMore"
             PROVE  ListInv'
  OBVIOUS
<1>3. Right(list, more, server, archived, begun)
  BY WaitingIdle
<1>4. CallRight(f, list, more, server, archived, begun)
  BY <1>1, UnansweredRight
<1> QED
  BY <1>2, <1>3, <1>4, ListLeft

\* A user who does not wait.
LEMMA ListHasty == haste' # 0 => ListInv'
BY DEF ListInv

LEMMA ListActed ==
  ASSUME PageInv, NEW k \in Call,
         \/ Lose(k) \/ LoadMore(k) \/ Created(k) \/ Returns(k) \/ \E c \in ConvId : Select(k, c)
         \/ \E c \in ConvId : \E kind \in {"archive", "unarchive", "rename", "delete"} :
              Change(k, kind, c)
  PROVE  ListInv'
<1>0. ControlTyped
  BY DEF PageInv, PageTyped
<1>1. <<>> \in Seq(Item) /\ None \in ConvId \cup {None}
  OBVIOUS
<1>2. CASE Lose(k) \/ Returns(k)
  BY <1>0, <1>2, Paces, ListHasty DEF Lose, Returns, Revisit
<1>3. CASE haste' # 0
  BY <1>3, ListHasty
<1>4. CASE LoadMore(k) /\ haste' = 0
  <2>1. /\ Act /\ Send(k, "more", None, list) /\ UNCHANGED serverVars
        /\ UNCHANGED <<list, more, arriving>>
    BY <1>4, Zenon DEF LoadMore
  <2>2. haste = 0 /\ Quiet
    BY <1>0, <1>4, <2>1, Paces
  <2>3. UNCHANGED <<server, archived, begun>>
    BY <2>1 DEF serverVars
  <2>4. /\ "more" \in Busy /\ ~("more" \in About) /\ list \in Seq(Item)
        /\ "more" \notin {"list", "listNew"} \cup Changes
    BY DEF Busy, About, Changes, PageInv, PageTyped, PartsTyped
  <2> QED
    BY <1>1, <2>1, <2>2, <2>3, <2>4, ListSent DEF Quiet
<1>5. CASE Created(k) /\ haste' = 0
  <2>1. UNCHANGED <<haste, calm>> /\ Send(k, "listNew", None, <<>>) /\ UNCHANGED serverVars
    BY <1>5, Zenon DEF Created
  <2>2. arriving # None /\ arriving' = None /\ UNCHANGED <<list, more>>
    BY <1>5 DEF Created
  <2>3. haste = 0 /\ calm /\ begun # {} /\ \A j \in Call : call[j] = Idle
    BY <1>5, <2>1, <2>2 DEF PageInv, OneCall, ListInv
  <2>4. UNCHANGED <<server, archived, begun>>
    BY <2>1 DEF serverVars
  <2>5. "listNew" \in Busy /\ ~("listNew" \in About) /\ "listNew" \notin Changes
    BY DEF Busy, Loads, About, Changes
  <2> QED
    BY <1>1, <2>1, <2>2, <2>3, <2>4, <2>5, ListSent
<1>6. ASSUME NEW c \in ConvId, Select(k, c), haste' = 0 PROVE ListInv'
  <2>1. /\ Choose /\ Send(k, "history", c, <<>>) /\ UNCHANGED serverVars
        /\ UNCHANGED <<list, more, arriving>>
    BY <1>6, Zenon DEF Select
  <2>2. haste = 0 /\ Quiet
    BY <1>0, <1>6, <2>1, Paces
  <2>3. UNCHANGED <<server, archived, begun>>
    BY <2>1 DEF serverVars
  <2>4. "history" \in Busy /\ c \in ConvId \cup {None} /\ "history" \notin {"list", "listNew"} \cup Changes
    BY DEF Busy, Loads, Changes
  <2> QED
    BY <1>1, <2>1, <2>2, <2>3, <2>4, ListSent DEF Quiet
<1>7. ASSUME NEW c \in ConvId, NEW kind \in {"archive", "unarchive", "rename", "delete"},
             Change(k, kind, c), haste' = 0
      PROVE  ListInv'
  <2>1. Act /\ UNCHANGED serverVars /\ UNCHANGED pageVars /\ Send(k, kind, c, <<>>)
    BY <1>7, Zenon DEF Change
  <2>2. haste = 0 /\ Quiet
    BY <1>0, <1>7, <2>1, Paces
  <2>3. UNCHANGED <<server, archived, begun, list, more, arriving>>
    BY <2>1 DEF serverVars, pageVars
  <2>4. /\ kind \in Busy /\ c \in ConvId \cup {None} /\ kind # "more" /\ kind # "staleMore"
        /\ kind \notin {"list", "listNew"}
    BY DEF Busy, Changes
  <2>5. c \in Ids(list)
    BY <1>7 DEF Change, Ids
  <2> QED
    BY <1>1, <2>1, <2>2, <2>3, <2>4, <2>5, ListSent DEF Quiet
<1> QED
  BY <1>2, <1>3, <1>4, <1>5, <1>6, <1>7

LEMMA ListChat ==
  ASSUME PageInv, NewChat \/ Continue \/ \E c \in ConvId : BeginChat(c)
  PROVE  ListInv'
<1>0. ControlTyped
  BY DEF PageInv, PageTyped
<1>1. CASE haste' # 0
  BY <1>1, ListHasty
<1>2. ASSUME Quiet, haste = 0, call' = call, Right(list', more', server', archived', begun'),
             arriving' # None => arriving' \in begun'
      PROVE  ListInv'
  <2>1. \A j \in Call : call'[j] = Idle
    BY <1>2 DEF Quiet
  <2>2. \A j \in Call : CallRight(call'[j], list', more', server', archived', begun')
    BY <2>1, IdleRight
  <2> QED
    BY <1>2, <2>2, Zenon DEF ListInv
<1>3. Quiet /\ haste = 0 => Right(list, more, server, archived, begun)
  BY WaitingIdle DEF Quiet
<1>4. ServerTyped /\ list \in Seq(Item)
  BY DEF PageInv, PageTyped, ListsTyped, PartsTyped
<1>5. CASE NewChat /\ haste' = 0
  <2>1. Choose /\ UNCHANGED serverVars /\ UNCHANGED <<list, more, arriving, call>>
    BY <1>5, Zenon DEF NewChat
  <2>2. haste = 0 /\ Quiet
    BY <1>0, <1>5, <2>1, Paces
  <2>3. UNCHANGED <<server, archived, begun>>
    BY <2>1 DEF serverVars
  <2> QED
    BY <1>2, <1>3, <2>1, <2>2, <2>3 DEF Quiet
<1>6. CASE Continue /\ haste' = 0
  <2>1. /\ IF shown \in Ids(list) THEN Act ELSE Hurry
        /\ shown \in OnServer /\ server' = Touched(shown)
        /\ UNCHANGED <<archived, begun, list, more, arriving, call>>
    BY <1>6 DEF Continue
  <2>2. haste = 0 /\ Quiet /\ shown \in Ids(list)
    BY <1>0, <1>6, <2>1, Paces
  <2>3. PICK p \in DOMAIN server : server[p] = shown
    BY <2>1 DEF OnServer
  <2>4. MovesUp(server, p, <<server[p]>> \o Keep(server, ConvId \ {server[p]}))
    BY <1>4, MovedUp, Zenon DEF ServerTyped
  <2>5. MovesUp(server, p, server')
    BY <2>1, <2>3, <2>4 DEF Touched
  <2>6. /\ Good(list, server, begun) /\ FlagsRight(list, archived)
        /\ (begun = {} /\ ~more => Ids(list) = ToSet(server))
    BY <1>3, <2>2 DEF Right
  <2>7. Good(list, server', begun)
    BY <1>4, <2>2, <2>3, <2>5, <2>6, GoodTouched DEF ServerTyped
  <2>8. Right(list', more', server', archived', begun')
    BY <2>1, <2>5, <2>6, <2>7 DEF Right, MovesUp
  <2> QED
    BY <1>2, <2>1, <2>2, <2>8 DEF Quiet
<1>7. ASSUME NEW c \in ConvId, BeginChat(c), haste' = 0 PROVE ListInv'
  <2>1. /\ Act /\ c \notin OnServer /\ begun' = begun \cup {c} /\ server' = Touched(c)
        /\ arriving' = c /\ UNCHANGED <<archived, list, more, call>>
    BY <1>7 DEF BeginChat
  <2>2. haste = 0 /\ Quiet
    BY <1>0, <1>7, <2>1, Paces
  <2>3. /\ Good(list, server, begun) /\ FlagsRight(list, archived)
    BY <1>3, <2>2 DEF Right
  <2>4. Ids(list) \subseteq ToSet(server) /\ c \notin ToSet(server)
    BY <2>1, <2>3, ServerSet DEF Good
  <2>5. server' = <<c>> \o Keep(server, ConvId \ {c})
    BY <2>1 DEF Touched
  <2>6. Good(list, server', begun \cup {c})
    BY <1>4, <2>4, <2>5, GoodBegun DEF ServerTyped
  <2>7. Right(list', more', server', archived', begun')
    BY <2>1, <2>3, <2>6 DEF Right
  <2> QED
    BY <1>2, <2>1, <2>2, <2>7
<1> QED
  BY <1>1, <1>5, <1>6, <1>7

-----------------------------------------------------------------------------
(* The page                                                                 *)

LEMMA PageStarts == PageInit => PageInv
<1> SUFFICES ASSUME PageInit PROVE PageInv
  OBVIOUS
<1>1. ControlTyped
  BY PageAssumption DEF PageInit, ControlTyped
<1>2. ServerTyped
  <2>1. PICK n \in 0 .. Cardinality(ConvId) : server \in [1 .. n -> ConvId]
    BY DEF PageInit
  <2>2. n \in Nat
    BY <2>1
  <2>3. server \in Seq(ConvId)
    BY <2>1, <2>2
  <2> QED
    BY <2>3 DEF PageInit, ServerTyped
<1>3. ListsTyped
  <2>1. OnServer \subseteq ConvId
    BY <1>2, Entries, ServerSet DEF ServerTyped
  <2> QED
    BY <1>2, <2>1 DEF PageInit, ListsTyped
<1>4. PartsTyped
  <2>1. OnServer \subseteq ConvId /\ <<>> \in Seq(Item)
    BY <1>2, Entries, ServerSet DEF ServerTyped
  <2> QED
    BY <2>1 DEF PageInit, PartsTyped
<1>5. PICK k \in Call :
             call = [i \in Call |-> IF i = k THEN FirstPage ELSE Idle]
  BY Zenon DEF PageInit
<1> DEFINE f == FirstPage
<1>7. f.kind = "list" /\ f.at = "sent" /\ f.base = <<>> /\ Formed(f)
  BY FirstPageFormed
<1> HIDE DEF f
<1>8. call[k] = f /\ \A j \in Call : j # k => call[j] = Idle
  BY <1>5 DEF f
<1>9. \A j \in Call : Formed(call[j])
  BY <1>7, <1>8, IdleFormed
<1>10. CallTyped
  <2>1. call \in [Call -> CallRecord]
    BY <1>5, <1>9 DEF Formed
  <2> QED
    BY <1>9, <2>1 DEF CallTyped
<1>11. LoadingInv
  BY <1>7, <1>8 DEF LoadingInv, PageInit, Loads
<1>12. OneCall
  BY <1>7, <1>8, IdleFormed DEF OneCall, PageInit, ScreenIsShown
<1>13. ListInv
  <2>1. Right(list, more, server, archived, begun)
    <3>1. Ids(list) = {} /\ Heads(server, 0) = {} /\ Len(list) = 0 /\ DOMAIN list = {} /\ more
      BY DEF Ids, Heads, PageInit
    <3>2. Len(server) \in Nat
      BY <1>2 DEF ServerTyped
    <3> QED
      BY <3>1, <3>2 DEF Right, Good, Firsts, FlagsRight
  <2>2. CallRight(f, list, more, server, archived, begun)
    BY <1>7, UnansweredRight DEF Changes
  <2>3. \A j \in Call : CallRight(call[j], list, more, server, archived, begun)
    BY <1>8, <2>2, IdleRight
  <2> QED
    BY <2>1, <2>3 DEF ListInv, PageInit
<1> QED
  BY <1>1, <1>3, <1>4, <1>10, <1>11, <1>12, <1>13 DEF PageInv, PageTyped

LEMMA PageKeeps == PageInv /\ [PageNext]_allVars => PageInv'
<1> SUFFICES ASSUME PageInv, [PageNext]_allVars PROVE PageInv'
  OBVIOUS
<1>0. PageTyped /\ LoadingInv /\ OneCall
  BY DEF PageInv
<1>1. ASSUME NEW k \in Call, Serve(k) PROVE PageInv'
  BY <1>0, <1>1, TypedServe, LoadingServe, OneCallServe, ListServe DEF PageInv
<1>2. ASSUME NEW k \in Call, Apply(k) PROVE PageInv'
  BY <1>0, <1>2, TypedApply, LoadingApply, OneCallApply, ListApply DEF PageInv
<1>3. ASSUME NEW k \in Call,
             \/ Lose(k) \/ LoadMore(k) \/ Created(k) \/ Returns(k) \/ \E c \in ConvId : Select(k, c)
             \/ \E c \in ConvId : \E kind \in {"archive", "unarchive", "rename", "delete"} :
                  Change(k, kind, c)
      PROVE  PageInv'
  <2>1. PageTyped' /\ LoadingInv'
    BY <1>0, <1>3, TypedActed, LoadingActed, Zenon
  <2>2. OneCall' /\ ListInv'
    BY <1>0, <1>3, OneCallActed, ListActed, Zenon
  <2> QED
    BY <2>1, <2>2 DEF PageInv
<1>4. CASE NewChat \/ Continue \/ \E c \in ConvId : BeginChat(c)
  BY <1>0, <1>4, TypedChat, LoadingChat, OneCallChat, ListChat, Zenon DEF PageInv
<1>7. ASSUME NEW c \in ConvId \cup {None}, FollowLink(c) PROVE PageInv'
  BY <1>7, LinkFollowed
<1>5. CASE UNCHANGED allVars
  <2>1. /\ UNCHANGED <<haste, calm, server, archived, texts, begun, call>>
        /\ UNCHANGED <<list, shown, url, cur, screen, loading, more, loadingMore, arriving>>
    BY <1>5 DEF allVars, serverVars, pageVars
  <2>2. PageTyped'
    <3>1. ControlTyped' /\ CallTyped'
      BY <1>0, <2>1 DEF PageTyped, ControlTyped, CallTyped
    <3>2. ListsTyped'
      BY <1>0, <2>1 DEF PageTyped, ListsTyped, ServerTyped
    <3>3. PartsTyped'
      BY <1>0, <2>1 DEF PageTyped, PartsTyped
    <3> QED
      BY <3>1, <3>2, <3>3 DEF PageTyped
  <2>3. LoadingInv' /\ OneCall'
    BY <1>0, <2>1 DEF LoadingInv, Loads, OneCall, ScreenIsShown, Idle
  <2>4. ListInv'
    BY <2>1 DEF PageInv, ListInv
  <2> QED
    BY <2>2, <2>3, <2>4 DEF PageInv
<1>6. \/ \E k \in Call : Serve(k) \/ Apply(k)
      \/ \E k \in Call :
           \/ Lose(k) \/ LoadMore(k) \/ Created(k) \/ Returns(k) \/ \E c \in ConvId : Select(k, c)
           \/ \E c \in ConvId : \E kind \in {"archive", "unarchive", "rename", "delete"} :
                Change(k, kind, c)
      \/ NewChat \/ Continue \/ \E c \in ConvId : BeginChat(c)
      \/ \E c \in ConvId \cup {None} : FollowLink(c)
      \/ UNCHANGED allVars
  BY Zenon DEF PageNext, Returns
<1> QED
  BY <1>1, <1>2, <1>3, <1>4, <1>5, <1>6, <1>7, Zenon

-----------------------------------------------------------------------------
(* The address                                                              *)

AddressInv == linked \in BOOLEAN /\ AddressIsShown

\* What a page does with an answer: a list parts nothing, whatever a link did before.
LEMMA AppliedAddress ==
  ASSUME AddressInv, NEW k \in Call, Apply(k)
  PROVE  AddressInv'
<1> USE DEF AddressInv, AddressIsShown
<1>1. CASE ApplyList(k)
  BY <1>1 DEF ApplyList
<1>2. CASE ApplyUrlHistory(k)
  BY <1>2 DEF ApplyUrlHistory
<1>3. CASE ApplyDelete(k)
  BY <1>3 DEF ApplyDelete
<1>4. CASE ApplyListFailed(k) \/ ApplyMore(k) \/ ApplyStale(k) \/ ApplyHistory(k) \/ ApplyChange(k)
  BY <1>4 DEF ApplyListFailed, ApplyMore, ApplyStale, ApplyHistory, ApplyChange
<1> QED
  BY <1>1, <1>2, <1>3, <1>4 DEF Apply

\* A link that parts the address from what is shown says so.
LEMMA LinkedAddress ==
  ASSUME NEW c \in ConvId \cup {None}, Link(c), UNCHANGED shown
  PROVE  AddressInv'
BY DEF Link, AddressInv, AddressIsShown

\* What the user does, and what the network does to a call.
LEMMA ActedAddress ==
  ASSUME AddressInv, NEW k \in Call,
         \/ Serve(k) \/ Lose(k) \/ LoadMore(k) \/ Created(k) \/ Returns(k)
         \/ \E c \in ConvId : Select(k, c)
         \/ \E c \in ConvId : \E kind \in {"archive", "unarchive", "rename", "delete"} :
              Change(k, kind, c)
  PROVE  AddressInv'
<1> USE DEF AddressInv, AddressIsShown
<1>1. CASE Serve(k)
  <2>1. UNCHANGED linked /\ UNCHANGED pageVars
    BY <1>1, Zenon DEF Serve
  <2> QED BY <2>1 DEF pageVars
<1>2. CASE Lose(k) \/ LoadMore(k)
  BY <1>2 DEF Lose, LoadMore, pageVars
<1>3. CASE Created(k)
  BY <1>3 DEF Created
<1>4. CASE Returns(k)
  BY <1>4, LinkedAddress DEF Returns, Revisit
<1>5. ASSUME NEW c \in ConvId, Select(k, c) PROVE AddressInv'
  BY <1>5 DEF Select
<1>6. ASSUME NEW c \in ConvId, NEW kind \in {"archive", "unarchive", "rename", "delete"},
             Change(k, kind, c)
      PROVE  AddressInv'
  BY <1>6 DEF Change, pageVars
<1> QED
  BY <1>1, <1>2, <1>3, <1>4, <1>5, <1>6

LEMMA AddressStarts == PageInit => AddressInv
BY DEF PageInit, AddressInv, AddressIsShown

LEMMA AddressKeeps == AddressInv /\ [PageNext]_allVars => AddressInv'
<1> SUFFICES ASSUME AddressInv, [PageNext]_allVars PROVE AddressInv'
  OBVIOUS
<1>1. CASE \E k \in Call : Apply(k)
  BY <1>1, AppliedAddress
<1>2. CASE \E k \in Call :
             \/ Serve(k) \/ Lose(k) \/ LoadMore(k) \/ Created(k) \/ Returns(k)
             \/ \E c \in ConvId : Select(k, c)
             \/ \E c \in ConvId : \E kind \in {"archive", "unarchive", "rename", "delete"} :
                  Change(k, kind, c)
  BY <1>2, ActedAddress
<1>3. CASE NewChat
  BY <1>3 DEF NewChat, AddressInv, AddressIsShown
<1>4. CASE Continue \/ \E c \in ConvId : BeginChat(c)
  BY <1>4 DEF Continue, BeginChat, AddressInv, AddressIsShown
<1>5. CASE \E c \in ConvId \cup {None} : FollowLink(c)
  BY <1>5, LinkedAddress DEF FollowLink
<1>6. CASE UNCHANGED allVars
  BY <1>6 DEF allVars, serverVars, pageVars, AddressInv, AddressIsShown
<1> QED
  BY <1>1, <1>2, <1>3, <1>4, <1>5, <1>6 DEF PageNext, Returns

\* AddressIsShown (hooks/use-conversations.ts, hooks/use-chat.ts): of all that sets the
\* address or what is shown only a link parts the two, on the page or from another
\* page, and a choice, a conversation that is created or a list that arrives ends that.
THEOREM AddressShown == PageSpec => []AddressIsShown
<1>1. AddressInv => AddressIsShown
  BY DEF AddressInv
<1> QED
  BY <1>1, AddressStarts, AddressKeeps, PTL DEF PageSpec

\* PageTypeOK (stores/conversation-store.ts, hooks/use-conversations.ts): the store
\* and the refs hold what they are meant to, and the server each conversation once.
THEOREM PageTypeCorrect == PageSpec => []PageTypeOK
<1>1. PageInv /\ AddressInv => PageTypeOK
  <2> SUFFICES ASSUME PageInv, AddressInv PROVE PageTypeOK
    OBVIOUS
  <2>1. \A k \in Call : call[k].at = "free" <=> call[k] = Idle
    BY DEF PageInv, PageTyped, CallTyped, Formed
  <2>2. \A i \in DOMAIN server : server[i] \in ConvId
    BY DEF PageInv, PageTyped, ListsTyped, ServerTyped
  <2>3. \A i \in DOMAIN list : list[i] \in Item
    BY DEF PageInv, PageTyped, PartsTyped
  <2> QED
    BY <2>1, <2>2, <2>3 DEF PageInv, PageTyped, ControlTyped, ListsTyped, ServerTyped, PartsTyped,
                            AddressInv, PageTypeOK
<1> QED
  BY <1>1, PageStarts, PageKeeps, AddressStarts, AddressKeeps, PTL DEF PageSpec

-----------------------------------------------------------------------------
(* The page at rest                                                         *)

\* PageSettles (hooks/use-conversations.ts, conversation-sidebar.tsx, chat-container.tsx):
\* what late answers and two hooks on one store left comes to rest: the address, unless a
\* link set it, and the screen show the conversation that was chosen, nothing is said to be
\* loading that is not, and the list of a user who waits is the first of the server's, each
\* once, and all when it says so.
THEOREM PageComesToRest == PageSpec => []PageSettles
<1>1. PageInv /\ AddressIsShown => PageSettles
  <2> SUFFICES ASSUME PageInv, AddressIsShown PROVE PageSettles
    OBVIOUS
  <2>1. ScreenIsShown
    BY DEF PageInv, OneCall
  <2>2. LoadingEnds
    <3> SUFFICES ASSUME \A k \in Call : call[k] = Idle PROVE ~loading /\ ~loadingMore
      BY DEF LoadingEnds
    <3> QED
      BY IdleFormed DEF PageInv, LoadingInv, Loads
  <2>3. ASSUME haste = 0, Quiet PROVE Right(list, more, server, archived, begun)
    BY <2>3, WaitingIdle DEF Quiet
  <2>4. AllIsLoaded
    BY <2>3, ServerSet DEF AllIsLoaded, Right
  <2>5. ListIsFirst
    <3> SUFFICES ASSUME haste = 0, Quiet, begun \cap OnServer \subseteq Ids(list)
                 PROVE  /\ IsInjective(list)
                        /\ list # <<>> => Ids(list) = {server[i] : i \in 1 .. Len(list)}
                        /\ \A i \in DOMAIN list : list[i].archived = (list[i].id \in archived)
      BY DEF ListIsFirst
    <3>1. Good(list, server, begun) /\ FlagsRight(list, archived)
      BY <2>3 DEF Right
    <3>2. ~Leads(list, server, begun)
      BY DEF Leads, OnServer
    <3>3. Firsts(list, server)
      BY <3>1, <3>2 DEF Good
    <3> QED
      BY <3>1, <3>3 DEF Firsts, Heads, FlagsRight, IsInjective
  <2> QED
    BY <2>1, <2>2, <2>4, <2>5 DEF PageSettles, SidebarSettles
<1> QED
  BY <1>1, PageStarts, PageKeeps, AddressShown, PTL DEF PageSpec
=============================================================================
