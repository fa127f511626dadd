--------------------------- MODULE ControlsProofs ---------------------------
(***************************************************************************)
(* Proofs about Controls, for any number of requests, names, users, words  *)
(* and files.                                                              *)
(***************************************************************************)
EXTENDS Controls, ListFilterProofs

-----------------------------------------------------------------------------
(* The rating of a message.  There is one newest rating r at any time: what  *)
(* is open will leave it, and else it is stored.  An answer, or a message,   *)
(* that is not old has r.                                                    *)

RatingCall ==
  [kind : {"rate", "remove", "load", "other", "none"}, rating : Buttons!Rating,
   was : Buttons!Shown \cup {None}, at : {"free", "sent", "open", "done", "bad"},
   own : BOOLEAN, told : BOOLEAN, old : BOOLEAN]

\* What a request leaves in the database, or reads there.
Gives(c) == IF c.kind = "remove" THEN None ELSE c.rating

IsMessage(m) == \E q \in Buttons!Rating : m = Buttons!MessageOf(q)

\* A request, when s is stored and r is the newest rating.
RequestRight(c, s, r) ==
  /\ c.at = "free" <=> c = Buttons!Idle
  /\ c.kind \in {"rate", "remove"} => IsMessage(c.was)
  /\ c.at = "open" => /\ c.kind \in {"rate", "remove"} /\ Gives(c) = r
                      /\ c.kind = "remove" => s # None
  /\ c.at \in {"open", "done"} /\ ~c.old => Gives(c) = r

\* A message of a store.
MessageRight(m, old, r) ==
  m = None \/ \E q \in Buttons!Rating : m = Buttons!MessageOf(q) /\ (~old => q = r)

RatingTyped ==
  /\ stored \in Buttons!Rating /\ admin \in BOOLEAN
  /\ comment \in BOOLEAN /\ screenOld \in BOOLEAN /\ cacheOld \in BOOLEAN
  /\ call \in [Call -> RatingCall]
  /\ comment => shown # None

OpenAt(k) == call[k].at = "open"

\* Two changes are open only if both remove the rating.
OneOpen == \A k, o \in Call : k # o /\ OpenAt(k) /\ OpenAt(o) => call[k].kind = "remove"

RatingAt(r) ==
  /\ RatingTyped /\ OneOpen
  /\ \A k \in Call : RequestRight(call[k], stored, r)
  /\ (\A k \in Call : ~OpenAt(k)) => stored = r
  /\ MessageRight(shown, screenOld, r) /\ MessageRight(cached, cacheOld, r)

RatingInv == \E r \in Buttons!Rating : RatingAt(r)

\* calculateNewCounts, of a message as the history gives it.
LEMMA NewCounts ==
  ASSUME NEW new \in Buttons!Rating
  PROVE  /\ \A was \in Buttons!Shown : Buttons!Counts(was, new) \in Buttons!Shown
         /\ \A r \in Buttons!Rating :
              Buttons!Counts(Buttons!MessageOf(r), new) = Buttons!MessageOf(new)
         /\ Buttons!MessageOf(new) \in Buttons!Shown
<1>1. \A r, v : Buttons!CountOf(r, v) \in {0, 1}
  BY DEF Buttons!CountOf
<1>2. \A n \in Int : Buttons!AtLeastZero(n) \in Nat
  BY DEF Buttons!AtLeastZero
<1>3. \A r, v, w : Buttons!AtLeastZero(Buttons!CountOf(r, v) - Buttons!CountOf(r, v) + Buttons!CountOf(w, v))
                      = Buttons!CountOf(w, v)
  BY <1>1 DEF Buttons!AtLeastZero
<1>4. ASSUME NEW was \in Buttons!Shown PROVE Buttons!Counts(was, new) \in Buttons!Shown
  <2>1. was.likes \in Nat /\ was.dislikes \in Nat
    BY DEF Buttons!Shown
  <2>2. /\ Buttons!CountOf(was.rating, Buttons!Like) \in {0, 1}
        /\ Buttons!CountOf(new, Buttons!Like) \in {0, 1}
        /\ Buttons!CountOf(was.rating, Buttons!Dislike) \in {0, 1}
        /\ Buttons!CountOf(new, Buttons!Dislike) \in {0, 1}
    BY <1>1
  <2>3. /\ was.likes - Buttons!CountOf(was.rating, Buttons!Like) + Buttons!CountOf(new, Buttons!Like) \in Int
        /\ was.dislikes - Buttons!CountOf(was.rating, Buttons!Dislike) + Buttons!CountOf(new, Buttons!Dislike)
             \in Int
    BY <2>1, <2>2
  <2> QED
    BY <1>2, <2>3 DEF Buttons!Counts, Buttons!Shown
<1>5. \A r \in Buttons!Rating :
        Buttons!Counts(Buttons!MessageOf(r), new) = Buttons!MessageOf(new)
  BY <1>3 DEF Buttons!Counts, Buttons!MessageOf
<1>6. Buttons!MessageOf(new) \in Buttons!Shown
  <2>1. Buttons!CountOf(new, Buttons!Like) \in Nat /\ Buttons!CountOf(new, Buttons!Dislike) \in Nat
    BY <1>1
  <2> QED
    BY <2>1 DEF Buttons!MessageOf, Buttons!Shown
<1> QED
  BY <1>4, <1>5, <1>6

-----------------------------------------------------------------------------
(* Requests                                                                 *)

LEMMA IdleCall ==
  /\ Buttons!Idle \in RatingCall /\ Buttons!Idle.at = "free" /\ Buttons!Idle.kind = "none"
  /\ ~Buttons!Idle.own
BY DEF Buttons!Idle, RatingCall, Buttons!Rating

\* A request that is not, or no longer, being made.
LEMMA IdleRight == \A s, r : RequestRight(Buttons!Idle, s, r)
BY IdleCall DEF RequestRight

\* What a step makes of one request.
SetAt(c, at)     == [c EXCEPT !.at = at]
SetTold(c)       == [c EXCEPT !.told = TRUE]
SetOld(c)        == [c EXCEPT !.old = TRUE]
SetWritten(c)    == [c EXCEPT !.at = "open", !.old = FALSE]
SetRead(c, q, b) == [c EXCEPT !.at = "done", !.rating = q, !.old = b]
Unowned(c)       == [c EXCEPT !.own = FALSE]

Alike(c, d) == d.kind = c.kind /\ d.rating = c.rating /\ d.was = c.was

LEMMA Requests ==
  ASSUME NEW c \in RatingCall
  PROVE  /\ \A at \in {"free", "sent", "open", "done", "bad"} :
              /\ SetAt(c, at) \in RatingCall /\ Alike(c, SetAt(c, at))
              /\ SetAt(c, at).at = at /\ SetAt(c, at).old = c.old
         /\ SetTold(c) \in RatingCall /\ Alike(c, SetTold(c))
         /\ SetTold(c).at = c.at /\ SetTold(c).old = c.old
         /\ SetOld(c) \in RatingCall /\ Alike(c, SetOld(c)) /\ SetOld(c).at = c.at /\ SetOld(c).old
         /\ SetWritten(c) \in RatingCall /\ Alike(c, SetWritten(c))
         /\ SetWritten(c).at = "open" /\ ~SetWritten(c).old
BY DEF RatingCall, SetAt, SetTold, SetOld, SetWritten, Alike

LEMMA ReadRequest ==
  ASSUME NEW c \in RatingCall, NEW q \in Buttons!Rating, NEW b \in BOOLEAN
  PROVE  /\ SetRead(c, q, b) \in RatingCall /\ SetRead(c, q, b).at = "done"
         /\ SetRead(c, q, b).kind = c.kind /\ SetRead(c, q, b).was = c.was
         /\ SetRead(c, q, b).rating = q /\ SetRead(c, q, b).old = b
BY DEF RatingCall, SetRead

LEMMA UnownedRight ==
  ASSUME NEW c \in RatingCall, NEW s, NEW r, RequestRight(c, s, r)
  PROVE  /\ Unowned(c) \in RatingCall /\ RequestRight(Unowned(c), s, r)
         /\ Unowned(c).at = c.at /\ Unowned(c).kind = c.kind
<1>1. /\ Unowned(c) \in RatingCall /\ Alike(c, Unowned(c))
      /\ Unowned(c).at = c.at /\ Unowned(c).old = c.old
  BY DEF RatingCall, Unowned, Alike
<1>2. c = Buttons!Idle => Unowned(c) = c
  <2>1. [Buttons!Idle EXCEPT !.own = FALSE] = Buttons!Idle
    <3>1. Buttons!Idle = [Buttons!Idle EXCEPT !.own = Buttons!Idle.own]
      BY DEF Buttons!Idle
    <3>2. Buttons!Idle.own = FALSE
      BY DEF Buttons!Idle
    <3> QED
      BY <3>1, <3>2
  <2> QED
    BY <2>1 DEF Unowned
<1>3. Unowned(c).at = "free" => Unowned(c) = Buttons!Idle
  BY <1>1, <1>2 DEF RequestRight
<1> QED
  BY <1>1, <1>3, IdleCall DEF RequestRight, Alike, Gives

LEMMA MessageOld ==
  ASSUME NEW m, NEW old, NEW r, NEW q, MessageRight(m, old, r)
  PROVE  MessageRight(m, TRUE, q)
BY DEF MessageRight

LEMMA NoMessage == \A old, r : MessageRight(None, old, r)
BY DEF MessageRight

LEMMA RatingTypes ==
  ASSUME NEW r \in Buttons!Rating, RatingAt(r), NEW k \in Call
  PROVE  /\ call[k] \in RatingCall /\ RequestRight(call[k], stored, r)
         /\ call[k].kind \in {"rate", "remove", "load", "other", "none"}
         /\ call[k].rating \in Buttons!Rating /\ Gives(call[k]) \in Buttons!Rating
         /\ call[k].at \in {"free", "sent", "open", "done", "bad"} /\ call[k].old \in BOOLEAN
BY DEF RatingAt, RatingTyped, RatingCall, Gives, Buttons!Rating

\* The page is as it was.
LEMMA PageSame ==
  ASSUME NEW r \in Buttons!Rating, RatingAt(r), UNCHANGED Buttons!pageVars
  PROVE  /\ UNCHANGED <<shown, cached, comment, screenOld, cacheOld>>
         /\ MessageRight(shown, screenOld, r)' /\ MessageRight(cached, cacheOld, r)'
         /\ (comment => shown # None)'
<1>1. UNCHANGED <<shown, cached, comment, screenOld, cacheOld>>
  BY DEF Buttons!pageVars
<1> QED
  BY <1>1 DEF RatingAt, RatingTyped, MessageRight

\* One request has become another, and what is open has stayed.
LEMMA OneBecomes ==
  ASSUME NEW r \in Buttons!Rating, RatingAt(r), NEW k \in Call, NEW c \in RatingCall,
         RequestRight(c, stored, r), c.at = "open" <=> OpenAt(k), c.at = "open" => c.kind = call[k].kind,
         call' = [call EXCEPT ![k] = c], UNCHANGED <<stored, admin>>,
         comment' \in BOOLEAN, screenOld' \in BOOLEAN, cacheOld' \in BOOLEAN,
         comment' => shown' # None,
         MessageRight(shown, screenOld, r)', MessageRight(cached, cacheOld, r)'
  PROVE  RatingAt(r)'
<1>1. call \in [Call -> RatingCall]
  BY DEF RatingAt, RatingTyped
<1>2. /\ call' \in [Call -> RatingCall] /\ call'[k] = c
      /\ \A o \in Call \ {k} : call'[o] = call[o]
  BY <1>1
<1>3. RatingTyped'
  BY <1>2 DEF RatingAt, RatingTyped, RatingCall, Buttons!Shown, Buttons!Rating
<1>4. \A o \in Call : OpenAt(o)' <=> OpenAt(o)
  BY <1>2 DEF OpenAt
<1>5. OneOpen'
  BY <1>2, <1>4 DEF RatingAt, OneOpen, OpenAt
<1>6. \A o \in Call : RequestRight(call'[o], stored', r)
  BY <1>2 DEF RatingAt
<1>7. (\A o \in Call : ~OpenAt(o)') => stored' = r
  BY <1>4 DEF RatingAt
<1> QED
  BY <1>3, <1>5, <1>6, <1>7 DEF RatingAt, RequestRight, IsMessage, Gives

\* The buttons have gone: no request is theirs.
LEMMA AllDisowned ==
  ASSUME NEW r \in Buttons!Rating, RatingAt(r), NEW f \in [Call -> RatingCall],
         \A o \in Call : /\ RequestRight(f[o], stored, r)
                         /\ f[o].at = "open" <=> OpenAt(o)
                         /\ f[o].at = "open" => f[o].kind = call[o].kind,
         call' = Buttons!Disowned(f), UNCHANGED <<stored, admin>>,
         comment' \in BOOLEAN, screenOld' \in BOOLEAN, cacheOld' \in BOOLEAN,
         comment' => shown' # None,
         MessageRight(shown, screenOld, r)', MessageRight(cached, cacheOld, r)'
  PROVE  RatingAt(r)'
<1>1. call' = [o \in Call |-> Unowned(f[o])]
  BY DEF Buttons!Disowned, Unowned
<1>2. \A o \in Call :
        /\ call'[o] \in RatingCall /\ RequestRight(call'[o], stored, r)
        /\ call'[o].at = f[o].at /\ call'[o].kind = f[o].kind
  BY <1>1, UnownedRight
<1>3. RatingTyped'
  <2>1. call' \in [Call -> RatingCall]
    BY <1>1, <1>2
  <2> QED
    BY <2>1 DEF RatingAt, RatingTyped, RatingCall, Buttons!Shown, Buttons!Rating
<1>4. \A o \in Call : OpenAt(o)' <=> OpenAt(o)
  BY <1>2 DEF OpenAt
<1>5. OneOpen'
  BY <1>2, <1>4 DEF RatingAt, OneOpen, OpenAt
<1>6. \A o \in Call : RequestRight(call'[o], stored', r)
  BY <1>2
<1>7. (\A o \in Call : ~OpenAt(o)') => stored' = r
  BY <1>4 DEF RatingAt
<1> QED
  BY <1>3, <1>5, <1>6, <1>7 DEF RatingAt, RequestRight, IsMessage, Gives

-----------------------------------------------------------------------------
(* The server                                                               *)

\* A request that fails, and changes nothing.
LEMMA FailKeeps ==
  ASSUME NEW r \in Buttons!Rating, RatingAt(r), NEW k \in Call, call[k].at \in {"sent", "done"},
         Buttons!Fail(k), UNCHANGED admin
  PROVE  RatingAt(r)'
<1> DEFINE c == SetAt(call[k], "bad")
<1>1. /\ c \in RatingCall /\ Alike(call[k], c) /\ c.at = "bad"
  BY RatingTypes, Requests
<1>2. call' = [call EXCEPT ![k] = c] /\ UNCHANGED stored /\ UNCHANGED Buttons!pageVars
  BY DEF RatingAt, RatingTyped, Buttons!Fail, SetAt
<1> HIDE DEF c
<1>3. RequestRight(c, stored, r)
  BY <1>1, RatingTypes, IdleCall DEF RequestRight, Alike
<1>4. ~OpenAt(k)
  BY DEF OpenAt
<1>5. UNCHANGED <<shown, cached, comment, screenOld, cacheOld>>
      /\ MessageRight(shown, screenOld, r)' /\ MessageRight(cached, cacheOld, r)'
      /\ (comment => shown # None)'
  BY <1>2, PageSame
<1>6. comment' \in BOOLEAN /\ screenOld' \in BOOLEAN /\ cacheOld' \in BOOLEAN
  BY <1>5 DEF RatingAt, RatingTyped
<1> QED
  BY <1>1, <1>2, <1>3, <1>4, <1>5, <1>6, OneBecomes

\* What a change makes of the requests there are.
LEMMA OutdatedRight ==
  ASSUME NEW c \in RatingCall, NEW s, NEW r, NEW q, RequestRight(c, s, r),
         c.at = "open" => Gives(c) = q
  PROVE  /\ Buttons!Outdated(c) \in RatingCall /\ RequestRight(Buttons!Outdated(c), s, q)
         /\ Buttons!Outdated(c).at = c.at /\ Buttons!Outdated(c).kind = c.kind
<1>1. CASE c.at \in {"open", "done"}
  <2> DEFINE d == SetOld(c)
  <2>1. d \in RatingCall /\ Alike(c, d) /\ d.at = c.at /\ d.old
    BY Requests
  <2>2. Buttons!Outdated(c) = d
    BY <1>1 DEF Buttons!Outdated, SetOld
  <2> HIDE DEF d
  <2> QED
    BY <1>1, <2>1, <2>2, IdleCall DEF RequestRight, Alike, Gives
<1>2. CASE c.at \notin {"open", "done"}
  BY <1>2 DEF Buttons!Outdated, RequestRight
<1> QED
  BY <1>1, <1>2

\* The row is written, and the answer can leave.
LEMMA WriteKeeps ==
  ASSUME NEW r \in Buttons!Rating, RatingAt(r), NEW k \in Call, call[k].at = "sent",
         call[k].kind \in {"rate", "remove"}, Buttons!Write(k), UNCHANGED admin,
         ~Buttons!Opened("rate"),
         call[k].kind = "rate" => stored = None \/ ~Buttons!Opened("remove"),
         call[k].kind = "remove" => stored # None
  PROVE  RatingInv'
<1>q. PICK q : q = Gives(call[k])
  OBVIOUS
<1> DEFINE c == SetWritten(call[k])
<1>1. q \in Buttons!Rating /\ c \in RatingCall /\ Alike(call[k], c) /\ c.at = "open" /\ ~c.old
  BY <1>q, RatingTypes, Requests
\* What is open already is a removal, beside a removal.
<1>2. ASSUME NEW o \in Call, OpenAt(o)
      PROVE  call[o].kind = "remove" /\ call[k].kind = "remove" /\ Gives(call[o]) = q
  <2>1. call[o].kind \in {"rate", "remove"} /\ (call[o].kind = "remove" => stored # None)
    BY <1>2, RatingTypes DEF RequestRight, OpenAt
  <2>2. call[o].kind = "remove" /\ Buttons!Opened("remove")
    BY <1>2, <2>1 DEF Buttons!Opened, OpenAt
  <2>3. call[k].kind = "remove"
    BY <2>1, <2>2
  <2> QED
    BY <1>q, <2>2, <2>3 DEF Gives
<1>3. call' = [o \in Call |-> IF o = k THEN c ELSE Buttons!Outdated(call[o])]
  BY DEF Buttons!Write, SetWritten
<1>m. /\ UNCHANGED <<stored, shown, cached, comment>> /\ screenOld' = TRUE /\ cacheOld' = TRUE
  BY DEF Buttons!Write, Buttons!Outdate
<1> HIDE DEF c
<1>4. RequestRight(c, stored, q)
  <2>1. Gives(c) = q
    BY <1>1, <1>q DEF Alike, Gives
  <2>2. IsMessage(c.was) /\ c.kind = call[k].kind
    BY <1>1, RatingTypes DEF RequestRight, Alike
  <2> QED
    BY <1>1, <2>1, <2>2, IdleCall DEF RequestRight
<1>5. ASSUME NEW o \in Call
      PROVE  /\ call'[o] \in RatingCall /\ RequestRight(call'[o], stored, q)
             /\ OpenAt(o)' <=> o = k \/ OpenAt(o)
             /\ call'[o].kind = call[o].kind
  <2>1. CASE o = k
    BY <1>1, <1>3, <1>4, <2>1 DEF OpenAt, Alike
  <2>2. CASE o # k
    <3>1. call[o].at = "open" => Gives(call[o]) = q
      BY <1>2 DEF OpenAt
    <3>2. /\ Buttons!Outdated(call[o]) \in RatingCall
          /\ RequestRight(Buttons!Outdated(call[o]), stored, q)
          /\ Buttons!Outdated(call[o]).at = call[o].at /\ Buttons!Outdated(call[o]).kind = call[o].kind
      BY <3>1, RatingTypes, OutdatedRight
    <3> QED
      BY <1>3, <2>2, <3>2 DEF OpenAt
  <2> QED
    BY <2>1, <2>2
<1>6. RatingTyped'
  <2>1. call' \in [Call -> RatingCall]
    BY <1>3, <1>5
  <2> QED
    BY <1>m, <2>1 DEF RatingAt, RatingTyped, RatingCall, Buttons!Shown, Buttons!Rating
<1>7. OneOpen'
  BY <1>2, <1>5 DEF OneOpen
<1>8. MessageRight(shown', screenOld', q) /\ MessageRight(cached', cacheOld', q)
  <2>1. MessageRight(shown, TRUE, q) /\ MessageRight(cached, TRUE, q)
    BY MessageOld DEF RatingAt
  <2> QED
    BY <1>m, <2>1
<1>9. \A o \in Call : RequestRight(call'[o], stored', q)
  BY <1>m, <1>5
<1>10. OpenAt(k)'
  BY <1>5
<1>11. RatingAt(q)'
  BY <1>6, <1>7, <1>8, <1>9, <1>10 DEF RatingAt, RequestRight, IsMessage, Gives, MessageRight
<1> QED
  BY <1>1, <1>11 DEF RatingInv, Buttons!Rating

\* The history is read.
LEMMA ServeLoadKeeps ==
  ASSUME NEW r \in Buttons!Rating, RatingAt(r), NEW k \in Call, Buttons!ServeLoad(k), UNCHANGED admin
  PROVE  RatingAt(r)'
<1> DEFINE q == IF admin THEN None ELSE stored
           b == admin \/ Buttons!Opened("rate") \/ Buttons!Opened("remove")
           c == SetRead(call[k], q, b)
<1>1. q \in Buttons!Rating /\ b \in BOOLEAN
  BY DEF RatingAt, RatingTyped, Buttons!Rating, Buttons!Opened
<1>2. ~b => q = r
  <2>1. ASSUME ~b, NEW o \in Call PROVE ~OpenAt(o)
    BY <2>1, RatingTypes DEF RequestRight, OpenAt, Buttons!Opened
  <2> QED
    BY <2>1 DEF RatingAt
<1>3. call' = [call EXCEPT ![k] = c]
  BY DEF RatingAt, RatingTyped, Buttons!ServeLoad, SetRead
<1> HIDE DEF q, b
<1>4. /\ c \in RatingCall /\ c.at = "done" /\ c.kind = call[k].kind
      /\ c.rating = q /\ c.old = b
  BY <1>1, RatingTypes, ReadRequest
<1> HIDE DEF c
<1>5. RequestRight(c, stored, r) /\ ~OpenAt(k)
  BY <1>2, <1>4, IdleCall DEF RequestRight, Gives, Buttons!ServeLoad, OpenAt
<1>6. UNCHANGED stored /\ UNCHANGED Buttons!pageVars
  BY DEF Buttons!ServeLoad
<1>7. /\ UNCHANGED <<shown, cached, comment, screenOld, cacheOld>>
      /\ MessageRight(shown, screenOld, r)' /\ MessageRight(cached, cacheOld, r)'
      /\ (comment => shown # None)'
  BY <1>6, PageSame
<1>8. comment' \in BOOLEAN /\ screenOld' \in BOOLEAN /\ cacheOld' \in BOOLEAN
  BY <1>7 DEF RatingAt, RatingTyped
<1> QED
  BY <1>3, <1>4, <1>5, <1>6, <1>7, <1>8, OneBecomes

\* The change commits, before its answer or after it: what will be stored is.
LEMMA RatingCommitKeeps ==
  ASSUME NEW r \in Buttons!Rating, RatingAt(r), NEW k \in Call, Buttons!Commit(k), UNCHANGED admin
  PROVE  RatingAt(r)'
<1> DEFINE e(o) == IF call[o].told THEN Buttons!Idle ELSE SetAt(call[o], "done")
<1>1. OpenAt(k) /\ call[k].kind \in {"rate", "remove"} /\ Gives(call[k]) = r
  BY RatingTypes DEF Buttons!Commit, OpenAt, RequestRight
<1>2. stored' = r
  BY <1>1 DEF Buttons!Commit, Gives
<1>3. ASSUME NEW o \in Call PROVE OpenAt(o) => o = k \/ call[k].kind = "remove"
  BY <1>1 DEF RatingAt, OneOpen
<1>4. call' = [o \in Call |-> IF call[o].at = "open" /\ (o = k \/ call[k].kind = "remove")
                             THEN e(o) ELSE call[o]]
  BY DEF Buttons!Commit, SetAt
<1>5. ASSUME NEW o \in Call
      PROVE  e(o) \in RatingCall /\ (OpenAt(o) => RequestRight(e(o), r, r)) /\ e(o).at # "open"
  <2>1. /\ SetAt(call[o], "done") \in RatingCall /\ Alike(call[o], SetAt(call[o], "done"))
        /\ SetAt(call[o], "done").at = "done" /\ SetAt(call[o], "done").old = call[o].old
    BY RatingTypes, Requests
  <2>2. OpenAt(o) => RequestRight(SetAt(call[o], "done"), r, r)
    BY <2>1, RatingTypes, IdleCall DEF OpenAt, RequestRight, Alike, Gives
  <2> QED
    BY <2>1, <2>2, IdleCall, IdleRight
<1> HIDE DEF e
<1>6. ASSUME NEW o \in Call
      PROVE  call'[o] \in RatingCall /\ RequestRight(call'[o], r, r) /\ ~OpenAt(o)'
  <2>1. CASE OpenAt(o)
    <3>1. call'[o] = e(o)
      BY <1>3, <1>4, <2>1 DEF OpenAt
    <3> QED
      BY <1>5, <2>1, <3>1 DEF OpenAt
  <2>2. CASE ~OpenAt(o)
    <3>1. call'[o] = call[o]
      BY <1>4, <2>2 DEF OpenAt
    <3> QED
      BY <2>2, <3>1, RatingTypes DEF OpenAt, RequestRight
  <2> QED
    BY <2>1, <2>2
<1>7. UNCHANGED Buttons!pageVars
  BY DEF Buttons!Commit
<1>8. /\ UNCHANGED <<shown, cached, comment, screenOld, cacheOld>>
      /\ MessageRight(shown, screenOld, r)' /\ MessageRight(cached, cacheOld, r)'
      /\ (comment => shown # None)'
  BY <1>7, PageSame
<1>9. RatingTyped'
  <2>1. call' \in [Call -> RatingCall]
    BY <1>4, <1>6
  <2> QED
    BY <1>2, <1>8, <2>1 DEF RatingAt, RatingTyped, RatingCall, Buttons!Shown, Buttons!Rating
<1>10. OneOpen'
  BY <1>6 DEF OneOpen
<1>11. \A o \in Call : RequestRight(call'[o], stored', r)
  BY <1>2, <1>6
<1> QED
  BY <1>2, <1>8, <1>9, <1>10, <1>11 DEF RatingAt, RequestRight, IsMessage, Gives

\* Another tab makes everything old.
LEMMA RatingOthersKeep ==
  ASSUME NEW r \in Buttons!Rating, RatingAt(r), Buttons!Others, UNCHANGED admin
  PROVE  RatingInv'
<1>1. stored' \in Buttons!Rating
  BY DEF Buttons!Others
<1>2. PICK q \in Buttons!Rating : stored' = q
  BY <1>1
<1>3. \A o \in Call : ~OpenAt(o)
  BY RatingTypes DEF Buttons!Others, Buttons!Opened, OpenAt, RequestRight
<1>4. call' = [o \in Call |-> Buttons!Outdated(call[o])]
  BY DEF Buttons!Others
<1>5. /\ UNCHANGED <<shown, cached, comment>> /\ screenOld' = TRUE /\ cacheOld' = TRUE
  BY DEF Buttons!Others, Buttons!Outdate
<1>6. ASSUME NEW o \in Call
      PROVE  call'[o] \in RatingCall /\ RequestRight(call'[o], q, q) /\ ~OpenAt(o)'
  <2>1. RequestRight(call[o], q, r) /\ call[o].at # "open"
    BY <1>3, RatingTypes DEF RequestRight, OpenAt
  <2>2. /\ Buttons!Outdated(call[o]) \in RatingCall
        /\ RequestRight(Buttons!Outdated(call[o]), q, q)
        /\ Buttons!Outdated(call[o]).at = call[o].at
    BY <2>1, RatingTypes, OutdatedRight
  <2> QED
    BY <1>4, <2>1, <2>2 DEF OpenAt
<1>7. RatingTyped'
  <2>1. call' \in [Call -> RatingCall]
    BY <1>4, <1>6
  <2> QED
    BY <1>1, <1>5, <2>1 DEF RatingAt, RatingTyped, RatingCall, Buttons!Shown, Buttons!Rating
<1>8. OneOpen'
  BY <1>6 DEF OneOpen
<1>9. MessageRight(shown', screenOld', q) /\ MessageRight(cached', cacheOld', q)
  <2>1. MessageRight(shown, TRUE, q) /\ MessageRight(cached, TRUE, q)
    BY MessageOld DEF RatingAt
  <2> QED
    BY <1>5, <2>1
<1>10. \A o \in Call : RequestRight(call'[o], stored', q)
  BY <1>2, <1>6
<1>11. RatingAt(q)'
  BY <1>2, <1>7, <1>8, <1>9, <1>10 DEF RatingAt, RequestRight, IsMessage, Gives, MessageRight
<1> QED
  BY <1>11 DEF RatingInv, Buttons!Rating

-----------------------------------------------------------------------------
(* The buttons                                                              *)

\* A button, or the dialog, asks with what it sees.
LEMMA AskKeeps ==
  ASSUME NEW r \in Buttons!Rating, RatingAt(r), NEW k \in Call,
         Buttons!Remove(k) \/ Buttons!RateLike(k) \/ Buttons!SubmitComment(k), UNCHANGED admin
  PROVE  RatingAt(r)'
<1>1. shown # None /\ IsMessage(shown) /\ shown \in Buttons!Shown
  <2>1. shown # None
    BY DEF Buttons!Remove, Buttons!RateLike, Buttons!SubmitComment, Buttons!Enabled, RatingAt, RatingTyped
  <2>2. IsMessage(shown)
    BY <2>1 DEF RatingAt, MessageRight, IsMessage
  <2> QED
    BY <2>1, <2>2, NewCounts DEF IsMessage
<1>2. PICK c \in RatingCall :
        /\ c.at = "sent" /\ c.was = shown
        /\ call' = [call EXCEPT ![k] = c]
  <2> DEFINE rate(q) == [[Buttons!Idle EXCEPT !.kind = "rate", !.rating = q, !.was = shown, !.own = TRUE]
                         EXCEPT !.at = "sent"]
             remove == [[Buttons!Idle EXCEPT !.kind = "remove", !.was = shown, !.own = TRUE]
                        EXCEPT !.at = "sent"]
  <2>1. CASE Buttons!Remove(k)
    <3>1. call' = [call EXCEPT ![k] = remove]
      BY <2>1 DEF Buttons!Remove, Buttons!Ask
    <3>2. remove \in RatingCall /\ remove.at = "sent" /\ remove.was = shown
      BY <1>1, IdleCall DEF RatingCall
    <3> HIDE DEF remove
    <3> QED
      BY <3>1, <3>2
  <2>2. ASSUME NEW q \in Buttons!Rating, Buttons!Submit(k, q)
        PROVE  \E c \in RatingCall : /\ c.at = "sent" /\ c.was = shown
                                     /\ call' = [call EXCEPT ![k] = c]
    <3>1. call' = [call EXCEPT ![k] = rate(q)]
      BY <2>2 DEF Buttons!Submit, Buttons!Ask
    <3>2. rate(q) \in RatingCall /\ rate(q).at = "sent" /\ rate(q).was = shown
      BY <1>1, IdleCall DEF RatingCall
    <3> HIDE DEF rate
    <3> QED
      BY <3>1, <3>2
  <2>3. CASE Buttons!RateLike(k) \/ Buttons!SubmitComment(k)
    <3>1. \E q \in Buttons!Rating : Buttons!Submit(k, q)
      BY <2>3 DEF Buttons!RateLike, Buttons!SubmitComment, Buttons!Rating
    <3> HIDE DEF rate, remove
    <3> QED
      BY <2>2, <3>1
  <2> HIDE DEF rate, remove
  <2> QED
    BY <2>1, <2>2, <2>3
<1>3. call[k].at = "free" /\ UNCHANGED stored /\ UNCHANGED Buttons!pageVars
  BY DEF Buttons!Remove, Buttons!RateLike, Buttons!SubmitComment, Buttons!Submit, Buttons!Ask
<1>4. RequestRight(c, stored, r) /\ ~OpenAt(k)
  BY <1>1, <1>2, <1>3, IdleCall DEF RequestRight, OpenAt
<1>5. /\ UNCHANGED <<shown, cached, comment, screenOld, cacheOld>>
      /\ MessageRight(shown, screenOld, r)' /\ MessageRight(cached, cacheOld, r)'
      /\ (comment => shown # None)'
  BY <1>3, PageSame
<1>6. comment' \in BOOLEAN /\ screenOld' \in BOOLEAN /\ cacheOld' \in BOOLEAN
  BY <1>5 DEF RatingAt, RatingTyped
<1> QED
  BY <1>2, <1>3, <1>4, <1>5, <1>6, OneBecomes

\* The dialog of the comment changes nothing else.
LEMMA CommentKeeps ==
  ASSUME NEW r \in Buttons!Rating, RatingAt(r), Buttons!AskComment \/ Buttons!CloseComment,
         UNCHANGED admin
  PROVE  RatingAt(r)'
<1>1. /\ UNCHANGED <<stored, admin, call, shown, cached, screenOld, cacheOld>>
      /\ comment' \in BOOLEAN /\ (comment' => shown # None)
  BY DEF Buttons!AskComment, Buttons!CloseComment, Buttons!Enabled
<1>2. RatingTyped'
  BY <1>1 DEF RatingAt, RatingTyped
<1> QED
  BY <1>1, <1>2 DEF RatingAt, OneOpen, OpenAt, RequestRight, MessageRight, IsMessage, Gives

\* What an answer makes of its request.
LEMMA AnsweredBecomesOne ==
  ASSUME NEW r \in Buttons!Rating, RatingAt(r), NEW k \in Call, NEW kinds, NEW ok \in BOOLEAN,
         Buttons!Answered(k, kinds, ok)
  PROVE  \E c \in RatingCall :
           /\ RequestRight(c, stored, r) /\ (c.at = "open" <=> OpenAt(k))
           /\ c.at = "open" => c.kind = call[k].kind
           /\ call' = [call EXCEPT ![k] = c] /\ UNCHANGED stored
<1> DEFINE c == IF call[k].at = "open" THEN SetTold(call[k]) ELSE Buttons!Idle
<1>1. call' = [call EXCEPT ![k] = c] /\ UNCHANGED stored
  BY DEF RatingAt, RatingTyped, Buttons!Answered, SetTold
<1>2. /\ SetTold(call[k]) \in RatingCall /\ Alike(call[k], SetTold(call[k]))
      /\ SetTold(call[k]).at = call[k].at /\ SetTold(call[k]).old = call[k].old
  BY RatingTypes, Requests
<1>3. c \in RatingCall /\ RequestRight(c, stored, r) /\ (c.at = "open" <=> OpenAt(k))
      /\ (c.at = "open" => c.kind = call[k].kind)
  <2>1. CASE call[k].at = "open"
    <3>1. c = SetTold(call[k])
      BY <2>1
    <3> HIDE DEF c
    <3> QED
      BY <1>2, <2>1, <3>1, RatingTypes, IdleCall DEF RequestRight, Alike, Gives, OpenAt
  <2>2. CASE call[k].at # "open"
    BY <2>2, IdleCall, IdleRight DEF OpenAt
  <2> QED
    BY <2>1, <2>2
<1> HIDE DEF c
<1> QED
  BY <1>1, <1>3

\* The answer to a change is applied to what the button saw.
LEMMA ApplyRatingKeeps ==
  ASSUME NEW r \in Buttons!Rating, RatingAt(r), NEW k \in Call, Buttons!ApplyRating(k), UNCHANGED admin
  PROVE  RatingAt(r)'
<1> DEFINE q == Gives(call[k])
<1>1. PICK c \in RatingCall :
        /\ RequestRight(c, stored, r) /\ (c.at = "open" <=> OpenAt(k))
        /\ c.at = "open" => c.kind = call[k].kind
        /\ call' = [call EXCEPT ![k] = c] /\ UNCHANGED stored
  BY AnsweredBecomesOne DEF Buttons!ApplyRating
<1>2. call[k].kind \in {"rate", "remove"} /\ call[k].at \in {"open", "done"}
  BY DEF Buttons!ApplyRating, Buttons!Answered
<1>3. /\ q = Buttons!Result(k) /\ q \in Buttons!Rating /\ (~call[k].old => q = r)
      /\ IsMessage(call[k].was) /\ call[k].old \in BOOLEAN
  BY <1>2, RatingTypes DEF RequestRight, Gives, Buttons!Result
<1> HIDE DEF q
<1>4. Buttons!Counts(call[k].was, q) = Buttons!MessageOf(q) /\ Buttons!MessageOf(q) \in Buttons!Shown
  BY <1>3, NewCounts DEF IsMessage
<1>5. /\ shown' = (IF shown = None THEN None ELSE Buttons!MessageOf(q))
      /\ screenOld' = call[k].old /\ UNCHANGED <<cached, cacheOld>>
      /\ comment' \in BOOLEAN /\ (comment' => comment)
  BY <1>3, <1>4 DEF Buttons!ApplyRating, RatingAt, RatingTyped
<1>6. MessageRight(shown', screenOld', r) /\ (comment' => shown' # None)
  BY <1>3, <1>4, <1>5, ControlsAssumption DEF MessageRight, RatingAt, RatingTyped
<1>7. MessageRight(cached', cacheOld', r) /\ cacheOld' \in BOOLEAN
  BY <1>5 DEF RatingAt, RatingTyped
<1>8. MessageRight(shown, screenOld, r)' /\ MessageRight(cached, cacheOld, r)'
  BY <1>6, <1>7 DEF MessageRight
<1> QED
  BY <1>1, <1>3, <1>5, <1>6, <1>7, <1>8, OneBecomes

LEMMA ApplyFailureKeeps ==
  ASSUME NEW r \in Buttons!Rating, RatingAt(r), NEW k \in Call, Buttons!ApplyFailure(k), UNCHANGED admin
  PROVE  RatingAt(r)'
<1>1. PICK c \in RatingCall :
        /\ RequestRight(c, stored, r) /\ (c.at = "open" <=> OpenAt(k))
        /\ c.at = "open" => c.kind = call[k].kind
        /\ call' = [call EXCEPT ![k] = c] /\ UNCHANGED stored
  BY AnsweredBecomesOne DEF Buttons!ApplyFailure
<1>2. UNCHANGED Buttons!pageVars
  BY DEF Buttons!ApplyFailure
<1>3. /\ UNCHANGED <<shown, cached, comment, screenOld, cacheOld>>
      /\ MessageRight(shown, screenOld, r)' /\ MessageRight(cached, cacheOld, r)'
      /\ (comment => shown # None)'
  BY <1>2, PageSame
<1>4. comment' \in BOOLEAN /\ screenOld' \in BOOLEAN /\ cacheOld' \in BOOLEAN
  BY <1>3 DEF RatingAt, RatingTyped
<1> QED
  BY <1>1, <1>3, <1>4, OneBecomes

-----------------------------------------------------------------------------
(* The conversation                                                         *)

\* The history replaces both messages.
LEMMA ApplyLoadKeeps ==
  ASSUME NEW r \in Buttons!Rating, RatingAt(r), NEW k \in Call, Buttons!ApplyLoad(k), UNCHANGED admin
  PROVE  RatingAt(r)'
<1>1. PICK c \in RatingCall :
        /\ RequestRight(c, stored, r) /\ (c.at = "open" <=> OpenAt(k))
        /\ c.at = "open" => c.kind = call[k].kind
        /\ call' = [call EXCEPT ![k] = c] /\ UNCHANGED stored
  BY AnsweredBecomesOne DEF Buttons!ApplyLoad
<1>2. call[k].kind = "load" /\ call[k].at \in {"open", "done"}
  BY DEF Buttons!ApplyLoad, Buttons!Answered
<1>3. call[k].rating \in Buttons!Rating /\ (~call[k].old => call[k].rating = r) /\ call[k].old \in BOOLEAN
  BY <1>2, RatingTypes DEF RequestRight, Gives
<1>4. Buttons!MessageOf(call[k].rating) \in Buttons!Shown
  BY <1>3, NewCounts
<1>5. /\ shown' = Buttons!MessageOf(call[k].rating) /\ cached' = shown' /\ UNCHANGED comment
      /\ screenOld' = call[k].old /\ cacheOld' = call[k].old
  BY DEF Buttons!ApplyLoad
<1>6. shown' # None /\ MessageRight(shown', screenOld', r) /\ MessageRight(cached', cacheOld', r)
  BY <1>3, <1>4, <1>5, ControlsAssumption DEF MessageRight
<1>7. MessageRight(shown, screenOld, r)' /\ MessageRight(cached, cacheOld, r)'
  BY <1>6 DEF MessageRight
<1>8. comment' \in BOOLEAN
  BY <1>5 DEF RatingAt, RatingTyped
<1> QED
  BY <1>1, <1>3, <1>5, <1>6, <1>7, <1>8, OneBecomes

\* The chat is cleared, and a history asked for.
LEMMA FetchKeeps ==
  ASSUME NEW r \in Buttons!Rating, RatingAt(r), NEW k \in Call, NEW kind \in {"load", "other"},
         Buttons!Fetch(k, kind), UNCHANGED admin
  PROVE  RatingAt(r)'
<1> DEFINE c == [Buttons!Idle EXCEPT !.kind = kind, !.at = "sent"]
           f == [call EXCEPT ![k] = c]
<1>1. call' = Buttons!Disowned(f) /\ call[k].at = "free"
  BY DEF Buttons!Fetch
<1>2. c \in RatingCall /\ c.at = "sent" /\ c.kind \notin {"rate", "remove"}
  BY IdleCall DEF RatingCall
<1> HIDE DEF c
<1>3. call \in [Call -> RatingCall]
  BY DEF RatingAt, RatingTyped
<1>4. f \in [Call -> RatingCall] /\ f[k] = c /\ \A o \in Call \ {k} : f[o] = call[o]
  BY <1>2, <1>3
<1> HIDE DEF f
<1>5. RequestRight(c, stored, r)
  BY <1>2, IdleCall DEF RequestRight
<1>6. \A o \in Call : /\ RequestRight(f[o], stored, r)
                      /\ f[o].at = "open" <=> OpenAt(o)
                      /\ f[o].at = "open" => f[o].kind = call[o].kind
  BY <1>1, <1>2, <1>4, <1>5, RatingTypes DEF OpenAt
<1>7. shown' = None /\ comment' = FALSE /\ UNCHANGED <<stored, cached, screenOld, cacheOld>>
  BY DEF Buttons!Fetch
<1>8. MessageRight(shown', screenOld', r) /\ MessageRight(cached', cacheOld', r)
  BY <1>7, NoMessage DEF RatingAt
<1>9. MessageRight(shown, screenOld, r)' /\ MessageRight(cached, cacheOld, r)'
  BY <1>8 DEF MessageRight
<1>10. screenOld' \in BOOLEAN /\ cacheOld' \in BOOLEAN
  BY <1>7 DEF RatingAt, RatingTyped
<1> QED
  BY <1>1, <1>4, <1>6, <1>7, <1>9, <1>10, AllDisowned

\* Another conversation's messages arrive.
LEMMA ApplyOtherKeeps ==
  ASSUME NEW r \in Buttons!Rating, RatingAt(r), NEW k \in Call, Buttons!ApplyOther(k), UNCHANGED admin
  PROVE  RatingAt(r)'
<1> DEFINE f == [call EXCEPT ![k] = Buttons!Idle]
<1>1. /\ call[k].at = "sent" /\ cached' = None /\ UNCHANGED <<stored, screenOld, cacheOld>>
      /\ \/ shown' = None /\ comment' = FALSE /\ call' = Buttons!Disowned(f)
         \/ call' = f /\ UNCHANGED <<shown, comment>>
  BY DEF Buttons!ApplyOther
<1>2. call \in [Call -> RatingCall]
  BY DEF RatingAt, RatingTyped
<1>3. f \in [Call -> RatingCall] /\ f[k] = Buttons!Idle /\ \A o \in Call \ {k} : f[o] = call[o]
  BY <1>2, IdleCall
<1>4. MessageRight(shown', screenOld', r) /\ MessageRight(cached', cacheOld', r)
      /\ (comment' => shown' # None) /\ comment' \in BOOLEAN
  <2>1. /\ MessageRight(shown, screenOld, r) /\ screenOld' = screenOld /\ cached' = None
        /\ (comment => shown # None) /\ comment \in BOOLEAN
    BY <1>1 DEF RatingAt, RatingTyped
  <2>2. CASE shown' = None /\ comment' = FALSE
    BY <2>2, <2>1, NoMessage
  <2>3. CASE UNCHANGED <<shown, comment>>
    <3>1. shown' = shown /\ comment' = comment
      BY <2>3
    <3> QED
      BY <2>1, <3>1, NoMessage
  <2> QED
    BY <1>1, <2>2, <2>3
<1>5. MessageRight(shown, screenOld, r)' /\ MessageRight(cached, cacheOld, r)'
  BY <1>4 DEF MessageRight
<1>6. screenOld' \in BOOLEAN /\ cacheOld' \in BOOLEAN
  BY <1>1 DEF RatingAt, RatingTyped
<1>7. CASE call' = f
  BY <1>1, <1>4, <1>5, <1>6, <1>7, IdleCall, IdleRight, OneBecomes DEF OpenAt
<1>8. CASE call' = Buttons!Disowned(f)
  <2> HIDE DEF f
  <2>1. \A o \in Call : /\ RequestRight(f[o], stored, r)
                        /\ f[o].at = "open" <=> OpenAt(o)
                        /\ f[o].at = "open" => f[o].kind = call[o].kind
    BY <1>1, <1>3, RatingTypes, IdleCall, IdleRight DEF OpenAt
  <2> QED
    BY <1>1, <1>3, <1>4, <1>5, <1>6, <1>8, <2>1, AllDisowned
<1> QED
  BY <1>1, <1>7, <1>8

\* A new chat, or a visit: what is shown is gone, or is what is cached.
LEMMA VisitKeeps ==
  ASSUME NEW r \in Buttons!Rating, RatingAt(r), Buttons!StartNewChat \/ Buttons!Revisit,
         UNCHANGED admin
  PROVE  RatingAt(r)'
<1>1. /\ comment' = FALSE /\ call' = Buttons!Disowned(call) /\ UNCHANGED <<stored, cacheOld>>
      /\ <<shown', screenOld'>> \in {<<None, screenOld>>, <<cached, cacheOld>>, <<shown, screenOld>>}
      /\ cached' \in {cached, None}
  BY DEF Buttons!StartNewChat, Buttons!Revisit
<1>2. MessageRight(shown', screenOld', r) /\ MessageRight(cached', cacheOld', r)
      /\ screenOld' \in BOOLEAN /\ cacheOld' \in BOOLEAN
  BY <1>1, NoMessage DEF RatingAt, RatingTyped
<1>3. MessageRight(shown, screenOld, r)' /\ MessageRight(cached, cacheOld, r)'
  BY <1>2 DEF MessageRight
<1>4. call \in [Call -> RatingCall]
  BY DEF RatingAt, RatingTyped
<1>5. \A o \in Call : RequestRight(call[o], stored, r) /\ (call[o].at = "open" <=> OpenAt(o))
  BY RatingTypes DEF OpenAt
<1> QED
  BY <1>1, <1>2, <1>3, <1>4, <1>5, AllDisowned

-----------------------------------------------------------------------------
LEMMA RatingStarts == ASSUME Buttons!RatingInit PROVE RatingInv
<1>1. PICK r \in Buttons!Rating : stored = r
  BY DEF Buttons!RatingInit
<1>2. \A k \in Call : call[k] = Buttons!Idle
  BY DEF Buttons!RatingInit
<1>3. RatingTyped
  BY <1>2, IdleCall DEF Buttons!RatingInit, RatingTyped
<1>4. \A k \in Call : RequestRight(call[k], stored, r) /\ ~OpenAt(k)
  BY <1>2, IdleCall, IdleRight DEF OpenAt
<1>5. MessageRight(shown, screenOld, r) /\ MessageRight(cached, cacheOld, r)
  BY <1>1 DEF Buttons!RatingInit, MessageRight
<1> QED
  BY <1>1, <1>3, <1>4, <1>5 DEF RatingInv, RatingAt, OneOpen

LEMMA RatingKeeps == ASSUME RatingInv, Buttons!RatingNext PROVE RatingInv'
<1>a. UNCHANGED admin
  BY DEF Buttons!RatingNext
<1>b. PICK r \in Buttons!Rating : RatingAt(r)
  BY DEF RatingInv
<1>c. RatingAt(r)' => RatingInv'
  BY DEF RatingInv, Buttons!Rating
<1>1. CASE Buttons!AskComment \/ Buttons!CloseComment
  BY <1>a, <1>b, <1>c, <1>1, CommentKeeps
<1>2. CASE Buttons!StartNewChat \/ Buttons!Revisit
  BY <1>a, <1>b, <1>c, <1>2, VisitKeeps
<1>3. CASE Buttons!Others
  BY <1>a, <1>b, <1>3, RatingOthersKeep
<1>4. ASSUME NEW k \in Call, Buttons!Remove(k) \/ Buttons!RateLike(k) \/ Buttons!SubmitComment(k)
      PROVE  RatingInv'
  BY <1>a, <1>b, <1>c, <1>4, AskKeeps
<1>5. ASSUME NEW k \in Call, Buttons!Select(k) \/ Buttons!LeaveConversation(k) PROVE RatingInv'
  BY <1>a, <1>b, <1>c, <1>5, FetchKeeps DEF Buttons!Select, Buttons!LeaveConversation
<1>6. ASSUME NEW k \in Call,
             Buttons!ServeRate(k) \/ Buttons!ServeRemove(k) \/ Buttons!Refuse(k) \/ Buttons!Lose(k)
      PROVE  RatingInv'
  <2>1. CASE Buttons!Fail(k)
    <3>1. call[k].at \in {"sent", "done"}
      BY <1>6 DEF Buttons!ServeRate, Buttons!ServeRemove, Buttons!Refuse, Buttons!Lose
    <3> QED
      BY <1>a, <1>b, <1>c, <2>1, <3>1, FailKeeps
  <2>2. CASE ~Buttons!Fail(k)
    <3>1. /\ call[k].at = "sent" /\ call[k].kind \in {"rate", "remove"} /\ Buttons!Write(k)
          /\ ~Buttons!Opened("rate")
          /\ call[k].kind = "rate" => stored = None \/ ~Buttons!Opened("remove")
          /\ call[k].kind = "remove" => stored # None
      BY <1>6, <2>2 DEF Buttons!ServeRate, Buttons!ServeRemove, Buttons!Refuse, Buttons!Lose
    <3> QED
      BY <1>a, <1>b, <3>1, WriteKeeps
  <2> QED
    BY <2>1, <2>2
<1>7. ASSUME NEW k \in Call, Buttons!ServeLoad(k) PROVE RatingInv'
  BY <1>a, <1>b, <1>c, <1>7, ServeLoadKeeps
<1>8. ASSUME NEW k \in Call, Buttons!Commit(k) PROVE RatingInv'
  BY <1>a, <1>b, <1>c, <1>8, RatingCommitKeeps
<1>9. ASSUME NEW k \in Call, Buttons!ApplyRating(k) \/ Buttons!ApplyFailure(k) PROVE RatingInv'
  BY <1>a, <1>b, <1>c, <1>9, ApplyRatingKeeps, ApplyFailureKeeps
<1>10. ASSUME NEW k \in Call, Buttons!ApplyLoad(k) \/ Buttons!ApplyOther(k) PROVE RatingInv'
  BY <1>a, <1>b, <1>c, <1>10, ApplyLoadKeeps, ApplyOtherKeeps
<1> QED
  BY <1>1, <1>2, <1>3, <1>4, <1>5, <1>6, <1>7, <1>8, <1>9, <1>10, Zenon DEF Buttons!RatingNext

LEMMA RatingInvariant == ControlsSpec => [](page = "rating" => RatingInv)
<1> DEFINE Inv == page = "rating" => RatingInv
<1>1. ControlsInit => Inv
  BY RatingStarts DEF ControlsInit
<1>2. Inv /\ [ControlsNext]_vars => Inv'
  <2> SUFFICES ASSUME Inv, [ControlsNext]_vars PROVE Inv'
    OBVIOUS
  <2>1. CASE RatingStep
    BY <2>1, RatingKeeps DEF RatingStep
  <2>2. CASE SettingsStep \/ ShareStep \/ ChatStep
    BY <2>2 DEF SettingsStep, ShareStep, ChatStep
  <2>3. CASE UNCHANGED vars
    <3>1. UNCHANGED <<page, stored, call, admin, shown, cached, comment, screenOld, cacheOld>>
      BY <2>3 DEF vars, requestVars, ratingOnly
    <3> QED
      BY <3>1 DEF RatingInv, RatingAt, RatingTyped, OneOpen, OpenAt, RequestRight, MessageRight,
                  IsMessage, Gives
  <2> QED
    BY <2>1, <2>2, <2>3 DEF ControlsNext
<1> QED
  BY <1>1, <1>2, PTL DEF ControlsSpec

\* The newest rating is one.
LEMMA OneNewest ==
  ASSUME NEW r \in Buttons!Rating, RatingAt(r)
  PROVE  Buttons!Newest = {r}
<1>1. \A k \in Call : OpenAt(k) => call[k].kind \in {"rate", "remove"} /\ Buttons!Result(k) = r
  BY RatingTypes DEF OpenAt, RequestRight, Gives, Buttons!Result
<1>2. CASE \E k \in Call : OpenAt(k)
  <2>1. Buttons!Opened("rate") \/ Buttons!Opened("remove")
    BY <1>1, <1>2 DEF Buttons!Opened, OpenAt
  <2>2. {Buttons!Result(k) : k \in {o \in Call : call[o].at = "open"}} = {r}
    BY <1>1, <1>2 DEF OpenAt
  <2> QED
    BY <2>1, <2>2 DEF Buttons!Newest
<1>3. CASE \A k \in Call : ~OpenAt(k)
  <2>1. ~Buttons!Opened("rate") /\ ~Buttons!Opened("remove") /\ stored = r
    BY <1>3 DEF Buttons!Opened, OpenAt, RatingAt
  <2> QED
    BY <2>1 DEF Buttons!Newest
<1> QED
  BY <1>2, <1>3

\* RatingIsShown (rating-buttons.tsx, message-item.tsx, message_rating.py): whatever
\* requests cross, go on without their buttons or are answered before they commit, and
\* in whatever order histories come, a message that was made of the answer to the last
\* change, or of a history read after it, shows the newest rating with its counts.
THEOREM RatingStaysShown == ControlsSpec => []RatingIsShown
<1>1. (page = "rating" => RatingInv) => RatingIsShown
  <2> SUFFICES ASSUME RatingInv, shown # None, ~screenOld
               PROVE  {shown} = {Buttons!MessageOf(r) : r \in Buttons!Newest}
    BY DEF RatingIsShown, Buttons!RatingIsShown
  <2>1. PICK r \in Buttons!Rating : RatingAt(r)
    BY DEF RatingInv
  <2>2. shown = Buttons!MessageOf(r)
    BY <2>1 DEF RatingAt, MessageRight
  <2>3. Buttons!Newest = {r}
    BY <2>1, OneNewest
  <2> QED
    BY <2>2, <2>3
<1> QED
  BY <1>1, RatingInvariant, PTL

-----------------------------------------------------------------------------
(* The dialog that shares a conversation.  Of every share, whether it is in  *)
(* the table once the open changes commit and whether it is in the list once *)
(* their answers are applied is the same, unless something has disturbed it. *)

ShareCall ==
  [kind : {"share", "revoke", "list", "none"}, with : User \cup {Link, None},
   id : (1 .. MaxShares) \cup {None}, at : {"free", "sent", "open", "done", "bad"},
   gives : Seq(Shares!Share), told : BOOLEAN]

ShareTyped ==
  /\ stored \subseteq Shares!Share /\ IsFiniteSet(stored) /\ lastId \in 0 .. MaxShares
  /\ call \in [Call -> ShareCall]
  /\ \A k \in Call :
       /\ call[k].at = "free" <=> call[k] = Shares!Idle
       /\ call[k].kind = "share" => call[k].with \in User \cup {Link}
       /\ call[k].kind = "revoke" => call[k].id \in 1 .. lastId
       /\ call[k].kind = "none" <=> call[k].at = "free"
       /\ call[k].at = "open" => call[k].kind \in {"share", "revoke"}
  /\ shares \in Seq(Shares!Share) /\ revoking \in (1 .. MaxShares) \cup {None}
  /\ open \in BOOLEAN /\ crossed \in BOOLEAN /\ missed \in BOOLEAN /\ stale \in BOOLEAN
  /\ ~open => shares = <<>> /\ \A k \in Call : call[k].at # "free" => call[k].told

Landed(k) == call[k].at \in {"open", "done"}
Change(k) == call[k].kind \in {"share", "revoke"}
Makes(k)  == call[k].kind = "share" /\ Landed(k)
Made(k)   == call[k].gives[1]

Removes(k, i) == call[k].kind = "revoke" /\ Landed(k) /\ call[k].id = i

\* An id is given once, and a share that is not committed cannot be revoked.
Fresh ==
  /\ \A s \in stored : s.id <= lastId
  /\ \A s \in ToSet(shares) : s.id <= lastId
  /\ \A k \in Call : \A s \in ToSet(call[k].gives) : s.id <= lastId
  /\ \A k \in Call : Makes(k) => Len(call[k].gives) = 1
  /\ \A k, o \in Call : k # o /\ Makes(k) /\ Makes(o) => Made(k).id # Made(o).id
  /\ \A k \in Call : Makes(k) /\ call[k].at = "open" =>
       /\ \A s \in stored : s.id # Made(k).id
       /\ \A o \in Call : ~Removes(o, Made(k).id)

\* Nothing has disturbed the dialog.
Steady == open /\ ~crossed /\ ~missed /\ ~stale

\* The share is in the table once what is open has committed;
WillBeStored(s) ==
  /\ s \in stored \/ \E k \in Call : Makes(k) /\ Made(k) = s /\ call[k].at = "open"
  /\ \A k \in Call : Removes(k, s.id) => call[k].at # "open"

\* and in the list once the answers to what is open or done are applied.
WillBeListed(s) ==
  /\ s \in ToSet(shares) \/ \E k \in Call : Makes(k) /\ Made(k) = s /\ ~call[k].told
  /\ \A k \in Call : Removes(k, s.id) => call[k].told

Fetches(k) == call[k].kind = "list" /\ ~call[k].told

\* A change whose answer nobody waits for was made in this dialog, or is over.
ToldLanded == \A k \in Call : Change(k) /\ call[k].told => call[k].at # "sent"

\* Nothing changes while the list is fetched.
FetchesAlone ==
  \A f \in Call : Fetches(f) =>
    /\ \A k \in Call : Change(k) => call[k].told /\ call[k].at # "open"
    /\ call[f].at = "done" => ToSet(call[f].gives) = stored /\ IsInjective(call[f].gives)

\* A share that is not listed yet is not revoked.
UnlistedStay ==
  \A k \in Call : Makes(k) /\ ~call[k].told =>
    /\ \A s \in ToSet(shares) : s.id # Made(k).id
    /\ \A o \in Call : call[o].kind = "revoke" => call[o].id # Made(k).id

ListedOnce == IsInjective(shares)

Agree ==
  (\A k \in Call : ~Fetches(k)) => \A s \in Shares!Share : WillBeStored(s) <=> WillBeListed(s)

ShareInv ==
  /\ ShareTyped /\ Fresh
  /\ Steady => ToldLanded /\ FetchesAlone /\ UnlistedStay /\ ListedOnce /\ Agree

\* What a step makes of one request.
LEMMA ShareCallBecomes ==
  ASSUME ShareTyped, NEW k \in Call, NEW c \in ShareCall, c.at = "free" <=> c = Shares!Idle,
         call' = [call EXCEPT ![k] = c]
  PROVE  /\ call' \in [Call -> ShareCall]
         /\ call'[k] = c /\ \A o \in Call \ {k} : call'[o] = call[o]
         /\ \A o \in Call : call'[o].at = "free" <=> call'[o] = Shares!Idle
BY DEF ShareTyped

LEMMA ShareCallTyped ==
  ASSUME ShareTyped, NEW k \in Call
  PROVE  /\ call[k] \in ShareCall
         /\ call[k].kind \in {"share", "revoke", "list", "none"}
         /\ call[k].with \in User \cup {Link, None} /\ call[k].id \in (1 .. MaxShares) \cup {None}
         /\ call[k].at \in {"free", "sent", "open", "done", "bad"}
         /\ call[k].gives \in Seq(Shares!Share) /\ call[k].told \in BOOLEAN
BY DEF ShareTyped, ShareCall

LEMMA IdleShare ==
  /\ Shares!Idle \in ShareCall /\ Shares!Idle.at = "free" /\ Shares!Idle.kind = "none"
  /\ Shares!Idle.gives = <<>> /\ ~Shares!Idle.told
<1>1. <<>> \in Seq(Shares!Share)
  OBVIOUS
<1> QED
  BY <1>1 DEF Shares!Idle, ShareCall

\* Requests with one field changed.
LEMMA AtBecomes ==
  ASSUME NEW c \in ShareCall, NEW a \in {"free", "sent", "open", "done", "bad"}
  PROVE  /\ [c EXCEPT !.at = a] \in ShareCall
         /\ [c EXCEPT !.at = a].at = a /\ [c EXCEPT !.at = a].kind = c.kind
         /\ [c EXCEPT !.at = a].with = c.with /\ [c EXCEPT !.at = a].id = c.id
         /\ [c EXCEPT !.at = a].gives = c.gives /\ [c EXCEPT !.at = a].told = c.told
BY DEF ShareCall

LEMMA GivesBecomes ==
  ASSUME NEW c \in ShareCall, NEW g \in Seq(Shares!Share)
  PROVE  /\ [c EXCEPT !.gives = g] \in ShareCall
         /\ [c EXCEPT !.gives = g].gives = g /\ [c EXCEPT !.gives = g].kind = c.kind
         /\ [c EXCEPT !.gives = g].with = c.with /\ [c EXCEPT !.gives = g].id = c.id
         /\ [c EXCEPT !.gives = g].at = c.at /\ [c EXCEPT !.gives = g].told = c.told
BY DEF ShareCall

LEMMA ToldBecomes ==
  ASSUME NEW c \in ShareCall
  PROVE  /\ [c EXCEPT !.told = TRUE] \in ShareCall
         /\ [c EXCEPT !.told = TRUE].told /\ [c EXCEPT !.told = TRUE].kind = c.kind
         /\ [c EXCEPT !.told = TRUE].with = c.with /\ [c EXCEPT !.told = TRUE].id = c.id
         /\ [c EXCEPT !.told = TRUE].at = c.at /\ [c EXCEPT !.told = TRUE].gives = c.gives
BY DEF ShareCall

\* What a step that changes one request to c leaves of the types.
LEMMA ShareTypedBecomes ==
  ASSUME ShareTyped, NEW k \in Call, NEW c \in ShareCall, c.at = "free" <=> c = Shares!Idle,
         call' = [call EXCEPT ![k] = c],
         c.kind = "share" => c.with \in User \cup {Link},
         c.kind = "revoke" => c.id \in 1 .. lastId', c.kind = "none" <=> c.at = "free",
         c.at = "open" => c.kind \in {"share", "revoke"},
         stored' \subseteq Shares!Share, IsFiniteSet(stored'), lastId' \in 0 .. MaxShares,
         lastId <= lastId',
         shares' \in Seq(Shares!Share), revoking' \in (1 .. MaxShares) \cup {None},
         open' \in BOOLEAN, crossed' \in BOOLEAN, missed' \in BOOLEAN, stale' \in BOOLEAN,
         ~open' => shares' = <<>> /\ (c.at # "free" => c.told) /\ ~open
  PROVE  /\ ShareTyped' /\ call' \in [Call -> ShareCall]
         /\ call'[k] = c /\ \A o \in Call \ {k} : call'[o] = call[o]
<1>1. /\ call' \in [Call -> ShareCall]
      /\ call'[k] = c /\ \A o \in Call \ {k} : call'[o] = call[o]
      /\ \A o \in Call : call'[o].at = "free" <=> call'[o] = Shares!Idle
  BY DEF ShareTyped
<1>2. \A i : i \in 1 .. lastId => i \in 1 .. lastId'
  <2>1. lastId \in Int /\ lastId' \in Int
    BY DEF ShareTyped
  <2> QED
    BY <2>1
<1>3. ASSUME NEW o \in Call
      PROVE  /\ call'[o].kind = "share" => call'[o].with \in User \cup {Link}
             /\ call'[o].kind = "revoke" => call'[o].id \in 1 .. lastId'
             /\ call'[o].kind = "none" <=> call'[o].at = "free"
             /\ call'[o].at = "open" => call'[o].kind \in {"share", "revoke"}
             /\ ~open' => (call'[o].at # "free" => call'[o].told)
  <2>1. CASE o = k
    BY <1>1, <2>1
  <2>2. CASE o # k
    BY <1>1, <1>2, <2>2 DEF ShareTyped
  <2> QED
    BY <2>1, <2>2
<1>4. ShareTyped'
  <2> HIDE DEF ShareCall
  <2> QED
    BY <1>1, <1>3 DEF ShareTyped
<1> QED
  BY <1>1, <1>4

\* A request that fails, and changes nothing.
LEMMA ShareFails ==
  ASSUME ShareInv, NEW k \in Call, call[k].at \in {"sent", "done"}, Shares!Fail(k),
         UNCHANGED <<stored, lastId, open, shares, revoking, crossed, stale>>,
         ~call[k].told \/ call[k].at = "sent",
         UNCHANGED missed \/ missed' = TRUE, call[k].at = "done" => missed' = TRUE
  PROVE  ShareInv'
<1>0. ShareTyped /\ Fresh
  BY DEF ShareInv
<1> DEFINE b == [call[k] EXCEPT !.at = "bad"]
           c == [b EXCEPT !.gives = <<>>]
<1>1. /\ b \in ShareCall /\ b.at = "bad" /\ b.kind = call[k].kind /\ b.with = call[k].with
      /\ b.id = call[k].id /\ b.told = call[k].told
  BY <1>0, ShareCallTyped, AtBecomes
<1>2. call' = [call EXCEPT ![k] = c]
  BY <1>0 DEF Shares!Fail, ShareTyped
<1>3. /\ c \in ShareCall /\ c.at = "bad" /\ c.gives = <<>> /\ c.kind = call[k].kind
      /\ c.with = call[k].with /\ c.id = call[k].id /\ c.told = call[k].told
  <2>1. <<>> \in Seq(Shares!Share)
    OBVIOUS
  <2> HIDE DEF b
  <2> QED
    BY <1>1, <2>1, GivesBecomes
<1> HIDE DEF b, c
<1>4. ShareTyped' /\ call'[k] = c /\ \A o \in Call \ {k} : call'[o] = call[o]
  <2>1. /\ c.kind = "share" => c.with \in User \cup {Link}
        /\ c.kind = "revoke" => c.id \in 1 .. lastId
        /\ c.kind # "none" /\ c.at \notin {"free", "open"} /\ c # Shares!Idle
        /\ ~open => c.told /\ shares = <<>>
    BY <1>0, <1>3, IdleShare DEF ShareTyped
  <2>2. /\ stored \subseteq Shares!Share /\ IsFiniteSet(stored) /\ lastId \in 0 .. MaxShares
        /\ shares \in Seq(Shares!Share) /\ revoking \in (1 .. MaxShares) \cup {None}
        /\ open \in BOOLEAN /\ crossed \in BOOLEAN /\ missed' \in BOOLEAN /\ stale \in BOOLEAN
    BY <1>0 DEF ShareTyped
  <2>3. lastId \in Int /\ lastId <= lastId
    BY <1>0 DEF ShareTyped
  <2> QED
    BY <1>0, <1>2, <1>3, <2>1, <2>2, <2>3, ShareTypedBecomes
<1>6. \A o \in Call : /\ Change(o)' <=> Change(o)
                      /\ Fetches(o)' <=> Fetches(o)
                      /\ Makes(o)' => Makes(o) /\ o # k /\ call'[o] = call[o]
                      /\ \A i : Removes(o, i)' => Removes(o, i) /\ o # k /\ call'[o] = call[o]
  BY <1>3, <1>4 DEF Change, Fetches, Makes, Removes, Landed
<1>7. Fresh'
  BY <1>0, <1>3, <1>4, <1>6, NoEntries DEF Fresh, Made
<1>8. ASSUME Steady' PROVE (ToldLanded /\ FetchesAlone /\ UnlistedStay /\ ListedOnce /\ Agree)'
  <2>1. Steady /\ call[k].at = "sent"
    BY <1>8 DEF Steady
  <2>2. ToldLanded /\ FetchesAlone /\ UnlistedStay /\ ListedOnce /\ Agree
    BY <2>1 DEF ShareInv
  <2>3. \A o \in Call : /\ Makes(o)' <=> Makes(o)
                        /\ \A i : Removes(o, i)' <=> Removes(o, i)
    BY <1>3, <1>4, <1>6, <2>1 DEF Makes, Removes, Landed
  <2>4. ToldLanded' /\ ListedOnce'
    BY <1>3, <1>4, <1>6, <2>2 DEF ToldLanded, ListedOnce
  <2>5. FetchesAlone'
    BY <1>3, <1>4, <1>6, <2>2 DEF FetchesAlone
  <2>6. UnlistedStay'
    BY <1>3, <1>4, <1>6, <2>2 DEF UnlistedStay, Made
  <2>7. Agree'
    <3>1. ASSUME NEW s \in Shares!Share PROVE (WillBeStored(s)' <=> WillBeStored(s)) /\ (WillBeListed(s)' <=> WillBeListed(s))
      BY <1>4, <1>6, <2>3 DEF WillBeStored, WillBeListed, Made
    <3> QED
      BY <1>6, <2>2, <3>1 DEF Agree
  <2> QED
    BY <2>4, <2>5, <2>6, <2>7
<1> QED
  BY <1>4, <1>7, <1>8 DEF ShareInv

\* The definitions of ShareDialog are those of the modules it extends.
LEMMA SameLists ==
  /\ \A s : Shares!ToSet(s) = ToSet(s)
  /\ \A s : Shares!IsInjective(s) = IsInjective(s)
  /\ \A s, T : Shares!Keep(s, T) = Keep(s, T)
  /\ \A T : Shares!SetToSeq(T) = SetToSeq(T)
<1>1. \A s : Shares!ToSet(s) = ToSet(s)
  BY DEF Shares!ToSet, ToSet
<1>2. \A s : Shares!IsInjective(s) = IsInjective(s)
  BY DEF Shares!IsInjective, IsInjective
<1>3. \A s, T : Shares!Keep(s, T) = Keep(s, T)
  BY DEF Shares!Keep, Keep, Shares!KeepAt, KeepAt, Shares!Positions, Positions,
         Shares!Before, Before, Shares!Cardinality, Cardinality
<1>4. \A T : Shares!SetToSeq(T) = SetToSeq(T)
  BY DEF Shares!SetToSeq, SetToSeq, Shares!IsInjective, IsInjective,
         Shares!Cardinality, Cardinality
<1> QED
  BY <1>1, <1>2, <1>3, <1>4

\* What a request that makes a share gives.
LEMMA MadeIs ==
  ASSUME ShareTyped, Fresh, NEW k \in Call, Makes(k)
  PROVE  /\ ToSet(call[k].gives) = {Made(k)} /\ Made(k) \in Shares!Share
         /\ Made(k).id \in Int /\ Made(k).id <= lastId
<1>1. call[k].gives \in Seq(Shares!Share) /\ Len(call[k].gives) = 1
  BY ShareCallTyped DEF Fresh
<1>2. ToSet(call[k].gives) = {Made(k)} /\ Made(k) \in Shares!Share
  BY <1>1, OneEntry DEF Made
<1>3. Made(k).id <= lastId
  BY <1>2 DEF Fresh
<1> QED
  BY <1>2, <1>3 DEF Shares!Share

\* While a change is under way that somebody waits for, nothing is fetched; one that
\* has not landed is waited for.
LEMMA NothingFetched ==
  ASSUME ToldLanded, FetchesAlone, NEW k \in Call, Change(k),
         call[k].at \in {"sent", "open"} \/ ~call[k].told
  PROVE  /\ \A f \in Call : ~Fetches(f)
         /\ call[k].at = "sent" => ~call[k].told
BY DEF ToldLanded, FetchesAlone

\* The INSERT of a share.
LEMMA LandShare ==
  ASSUME ShareInv, NEW k \in Call, call[k].kind = "share", call[k].at = "sent",
         lastId < MaxShares, lastId' = lastId + 1,
         call' = [call EXCEPT ![k].at = "open",
                              ![k].gives = <<[id |-> lastId + 1, with |-> call[k].with]>>],
         UNCHANGED <<stored, open, shares, revoking, crossed, missed, stale>>
  PROVE  /\ ShareInv'
         /\ \A s \in Shares!Share : s.id # lastId + 1 => (WillBeStored(s)' <=> WillBeStored(s))
         /\ \E s \in Shares!Share : s.id = lastId + 1 /\ WillBeStored(s)'
<1>0. ShareTyped /\ Fresh
  BY DEF ShareInv
<1>p. PICK sh : sh = [id |-> lastId + 1, with |-> call[k].with]
  OBVIOUS
<1> DEFINE b == [call[k] EXCEPT !.at = "open"]
           c == [b EXCEPT !.gives = <<sh>>]
<1>a. lastId \in Int /\ lastId + 1 \in Int /\ lastId + 1 \in 1 .. MaxShares /\ MaxShares \in Int
  <2>1. lastId \in Int /\ lastId >= 0
    BY <1>0 DEF ShareTyped
  <2>2. MaxShares \in Int
    BY ControlsAssumption
  <2> QED
    BY <2>1, <2>2
<1>b. sh \in Shares!Share /\ sh.id = lastId + 1
  BY <1>0, <1>a, <1>p DEF ShareTyped, Shares!Share
<1>c. <<sh>> \in Seq(Shares!Share) /\ ToSet(<<sh>>) = {sh} /\ Len(<<sh>>) = 1 /\ <<sh>>[1] = sh
  BY <1>b DEF ToSet
<1>1. /\ b \in ShareCall /\ b.at = "open" /\ b.kind = call[k].kind /\ b.with = call[k].with
      /\ b.id = call[k].id /\ b.told = call[k].told
  BY <1>0, ShareCallTyped, AtBecomes
<1>2. call' = [call EXCEPT ![k] = c]
  BY <1>0, <1>p DEF ShareTyped
<1> HIDE DEF b
<1>3. /\ c \in ShareCall /\ c.at = "open" /\ c.gives = <<sh>> /\ c.kind = "share"
      /\ c.with = call[k].with /\ c.told = call[k].told
  BY <1>1, <1>c, GivesBecomes
<1> HIDE DEF c
<1>4. ShareTyped' /\ call'[k] = c /\ \A o \in Call \ {k} : call'[o] = call[o]
  <2>1. /\ c.with \in User \cup {Link}
        /\ c.kind # "none" /\ c.kind # "revoke" /\ c.at # "free" /\ c # Shares!Idle
        /\ ~open => c.told /\ shares = <<>>
    BY <1>0, <1>3, IdleShare DEF ShareTyped
  <2>2. /\ stored \subseteq Shares!Share /\ IsFiniteSet(stored)
        /\ shares \in Seq(Shares!Share) /\ revoking \in (1 .. MaxShares) \cup {None}
        /\ open \in BOOLEAN /\ crossed \in BOOLEAN /\ missed \in BOOLEAN /\ stale \in BOOLEAN
    BY <1>0 DEF ShareTyped
  <2>3. lastId' \in 0 .. MaxShares /\ lastId <= lastId'
    BY <1>a
  <2>4. /\ c.at = "free" <=> c = Shares!Idle
        /\ c.kind = "share" => c.with \in User \cup {Link}
        /\ c.kind = "revoke" => c.id \in 1 .. lastId'
        /\ c.kind = "none" <=> c.at = "free"
        /\ c.at = "open" => c.kind \in {"share", "revoke"}
        /\ stored' \subseteq Shares!Share /\ IsFiniteSet(stored')
        /\ lastId' \in 0 .. MaxShares /\ lastId <= lastId'
        /\ shares' \in Seq(Shares!Share) /\ revoking' \in (1 .. MaxShares) \cup {None}
        /\ open' \in BOOLEAN /\ crossed' \in BOOLEAN /\ missed' \in BOOLEAN /\ stale' \in BOOLEAN
        /\ ~open' => shares' = <<>> /\ (c.at # "free" => c.told) /\ ~open
    BY <1>3, <2>1, <2>2, <2>3
  <2> QED
    BY <1>0, <1>2, <1>3, <2>4, ShareTypedBecomes
<1>5. /\ Makes(k)' /\ Made(k)' = sh /\ call'[k].at = "open" /\ ~Makes(k)
      /\ \A i : ~Removes(k, i) /\ ~Removes(k, i)'
      /\ Change(k) /\ Change(k)' /\ ~Fetches(k) /\ ~Fetches(k)'
      /\ call'[k].told = call[k].told
  BY <1>3, <1>4, <1>c DEF Makes, Removes, Made, Change, Fetches, Landed
<1>6. \A o \in Call \ {k} : /\ Makes(o)' <=> Makes(o)
                            /\ \A i : Removes(o, i)' <=> Removes(o, i)
                            /\ Change(o)' <=> Change(o)
                            /\ Fetches(o)' <=> Fetches(o)
                            /\ Made(o)' = Made(o) /\ call'[o] = call[o]
  BY <1>4 DEF Makes, Removes, Made, Change, Fetches, Landed
<1>7. \A o \in Call : call[o].kind = "revoke" => call[o].id # lastId + 1
  BY <1>0, <1>a DEF ShareTyped
<1>8. \A s \in Shares!Share : s.id <= lastId => s.id <= lastId + 1 /\ s.id # lastId + 1
  <2>1. \A s \in Shares!Share : s.id \in Int
    BY DEF Shares!Share
  <2> QED
    BY <1>a, <2>1
<1>9. /\ \A s \in stored : s.id <= lastId + 1 /\ s.id # lastId + 1
      /\ \A s \in ToSet(shares) : s.id <= lastId + 1 /\ s.id # lastId + 1
      /\ \A o \in Call : \A s \in ToSet(call[o].gives) : s.id <= lastId + 1
      /\ \A o \in Call : Makes(o) => Made(o).id # lastId + 1
  <2>1. /\ ToSet(shares) \subseteq Shares!Share /\ stored \subseteq Shares!Share
        /\ \A o \in Call : ToSet(call[o].gives) \subseteq Shares!Share
    BY <1>0, ShareCallTyped, Entries DEF ShareTyped
  <2>2. \A o \in Call : Makes(o) => Made(o) \in ToSet(call[o].gives)
    BY <1>0, MadeIs
  <2> QED
    BY <1>0, <1>8, <2>1, <2>2 DEF Fresh
<1>10. Fresh'
  <2>1. \A s \in stored' : s.id <= lastId'
    BY <1>9
  <2>2. \A s \in ToSet(shares)' : s.id <= lastId'
    BY <1>9
  <2>3. \A o \in Call : \A s \in ToSet(call'[o].gives) : s.id <= lastId'
    <3>1. \A s \in ToSet(call'[k].gives) : s.id <= lastId'
      <4>1. call'[k].gives = <<sh>> /\ ToSet(<<sh>>) = {sh}
        BY <1>3, <1>4, <1>c
      <4>2. sh.id \in Int /\ sh.id <= lastId'
        BY <1>a, <1>b
      <4> QED
        BY <4>1, <4>2
    <3> QED
      BY <1>4, <1>9, <3>1
  <2>4. \A o \in Call : Makes(o)' => Len(call'[o].gives) = 1
    BY <1>0, <1>3, <1>4, <1>6, <1>c DEF Fresh
  <2>5. \A o, p \in Call : o # p /\ Makes(o)' /\ Makes(p)' => Made(o)'.id # Made(p)'.id
    BY <1>0, <1>5, <1>6, <1>9, <1>b DEF Fresh
  <2>6. ASSUME NEW o \in Call, Makes(o)', call'[o].at = "open"
        PROVE  /\ \A s \in stored' : s.id # Made(o)'.id
               /\ \A p \in Call : ~Removes(p, Made(o).id)'
    <3>1. CASE o = k
      <4>1. \A p \in Call : ~Removes(p, sh.id)'
        <5>1. \A p \in Call : ~Removes(p, sh.id)
          BY <1>7, <1>b DEF Removes
        <5> QED
          BY <1>5, <1>6, <5>1
      <4> QED
        BY <1>5, <1>9, <1>b, <3>1, <4>1
    <3>2. CASE o # k
      BY <1>0, <1>5, <1>6, <2>6, <3>2 DEF Fresh
    <3> QED
      BY <3>1, <3>2
  <2> QED
    BY <2>1, <2>2, <2>3, <2>4, <2>5, <2>6 DEF Fresh
<1>11. ASSUME Steady' PROVE (ToldLanded /\ FetchesAlone /\ UnlistedStay /\ ListedOnce /\ Agree)'
  <2>1. ToldLanded /\ FetchesAlone /\ UnlistedStay /\ ListedOnce /\ Agree
    BY <1>11 DEF Steady, ShareInv
  <2>2. (\A f \in Call : ~Fetches(f)) /\ ~call[k].told
    BY <1>5, <2>1, NothingFetched
  <2>3. (\A f \in Call : ~Fetches(f)') /\ FetchesAlone'
    BY <1>5, <1>6, <2>2 DEF FetchesAlone
  <2>4. ToldLanded' /\ ListedOnce'
    BY <1>5, <1>6, <2>1 DEF ToldLanded, ListedOnce
  <2>5. UnlistedStay'
    <3>1. \A o \in Call : call'[o].kind = "revoke" => call[o].kind = "revoke" /\ call'[o] = call[o]
      BY <1>3, <1>4
    <3>2. /\ \A s \in ToSet(shares) : s.id # sh.id
          /\ \A o \in Call : call'[o].kind = "revoke" => call'[o].id # sh.id
      BY <1>7, <1>9, <1>b, <3>1
    <3>3. ASSUME NEW o \in Call, o # k, Makes(o)', ~call'[o].told
          PROVE  /\ \A s \in ToSet(shares) : s.id # Made(o)'.id
                 /\ \A p \in Call : call'[p].kind = "revoke" => call'[p].id # Made(o)'.id
      <4>1. Makes(o) /\ ~call[o].told /\ Made(o)' = Made(o)
        BY <1>6, <3>3
      <4>2. /\ \A s \in ToSet(shares) : s.id # Made(o).id
            /\ \A p \in Call : call[p].kind = "revoke" => call[p].id # Made(o).id
        BY <2>1, <4>1 DEF UnlistedStay
      <4> QED
        BY <3>1, <4>1, <4>2
    <3> QED
      BY <1>5, <3>2, <3>3 DEF UnlistedStay
  <2>6. ASSUME NEW s \in Shares!Share PROVE WillBeStored(s)' <=> WillBeListed(s)'
    <3>1. CASE s = sh
      <4>1. \A o \in Call : ~Removes(o, s.id)'
        <5>1. \A o \in Call : ~Removes(o, s.id)
          BY <1>7, <1>b, <3>1 DEF Removes
        <5> QED
          BY <1>5, <1>6, <5>1
      <4> QED
        BY <1>5, <2>2, <3>1, <4>1 DEF WillBeStored, WillBeListed
    <3>2. CASE s # sh
      <4>1. (WillBeStored(s)' <=> WillBeStored(s)) /\ (WillBeListed(s)' <=> WillBeListed(s))
        BY <1>5, <1>6, <3>2 DEF WillBeStored, WillBeListed
      <4> QED
        BY <2>1, <2>2, <4>1 DEF Agree
    <3> QED
      BY <3>1, <3>2
  <2>7. Agree'
    BY <2>6 DEF Agree
  <2> QED
    BY <2>1, <2>3, <2>4, <2>5, <2>7
<1>12. ASSUME NEW s \in Shares!Share, s.id # lastId + 1 PROVE WillBeStored(s)' <=> WillBeStored(s)
  BY <1>5, <1>6, <1>b, <1>12 DEF WillBeStored
<1>13. WillBeStored(sh)'
  <2>1. \A o \in Call : ~Removes(o, sh.id)
    BY <1>7, <1>b DEF Removes
  <2>2. \A o \in Call : ~Removes(o, sh.id)'
    BY <1>5, <1>6, <2>1
  <2> QED
    BY <1>5, <2>2 DEF WillBeStored
<1> QED
  BY <1>4, <1>10, <1>11, <1>12, <1>13, <1>b DEF ShareInv

\* A step that changes one request leaves the others what they are.
LEMMA OtherRequests ==
  ASSUME NEW k, \A o \in Call \ {k} : call'[o] = call[o]
  PROVE  \A o \in Call \ {k} : /\ Makes(o)' <=> Makes(o)
                               /\ \A i : Removes(o, i)' <=> Removes(o, i)
                               /\ Change(o)' <=> Change(o)
                               /\ Fetches(o)' <=> Fetches(o)
                               /\ Made(o)' = Made(o) /\ call'[o] = call[o]
BY DEF Makes, Removes, Made, Change, Fetches, Landed

\* The DELETE of a share.
LEMMA LandRevoke ==
  ASSUME ShareInv, NEW k \in Call, call[k].kind = "revoke", call[k].at = "sent",
         \E s \in stored : s.id = call[k].id,
         call' = [call EXCEPT ![k].at = "open", ![k].gives = <<>>],
         UNCHANGED <<stored, lastId, open, shares, revoking, crossed, missed, stale>>
  PROVE  /\ ShareInv'
         /\ \A s \in Shares!Share : s.id # call[k].id => (WillBeStored(s)' <=> WillBeStored(s))
         /\ \A s \in Shares!Share : s.id = call[k].id => ~WillBeStored(s)'
<1>0. ShareTyped /\ Fresh
  BY DEF ShareInv
<1> DEFINE b == [call[k] EXCEPT !.at = "open"]
           c == [b EXCEPT !.gives = <<>>]
<1>b. /\ b \in ShareCall /\ b.at = "open" /\ b.kind = "revoke"
      /\ b.id = call[k].id /\ b.told = call[k].told
  BY <1>0, ShareCallTyped, AtBecomes
<1>2. call' = [call EXCEPT ![k] = c]
  BY <1>0 DEF ShareTyped
<1>1. /\ c \in ShareCall /\ c.at = "open" /\ c.kind = "revoke"
      /\ c.id = call[k].id /\ c.told = call[k].told /\ c.gives = <<>>
  <2>1. <<>> \in Seq(Shares!Share)
    OBVIOUS
  <2> HIDE DEF b
  <2> QED
    BY <1>b, <2>1, GivesBecomes
<1> HIDE DEF b, c
<1>3. ShareTyped' /\ call'[k] = c /\ \A o \in Call \ {k} : call'[o] = call[o]
  <2>1. /\ c.id \in 1 .. lastId
        /\ c.kind # "none" /\ c.kind # "share" /\ c.at # "free" /\ c # Shares!Idle
        /\ ~open => c.told /\ shares = <<>>
    BY <1>0, <1>1, IdleShare DEF ShareTyped
  <2>2. /\ stored \subseteq Shares!Share /\ IsFiniteSet(stored) /\ lastId \in 0 .. MaxShares
        /\ shares \in Seq(Shares!Share) /\ revoking \in (1 .. MaxShares) \cup {None}
        /\ open \in BOOLEAN /\ crossed \in BOOLEAN /\ missed \in BOOLEAN /\ stale \in BOOLEAN
    BY <1>0 DEF ShareTyped
  <2>3. lastId \in Int /\ lastId <= lastId
    BY <1>0 DEF ShareTyped
  <2>4. /\ c.at = "free" <=> c = Shares!Idle
        /\ c.kind = "share" => c.with \in User \cup {Link}
        /\ c.kind = "revoke" => c.id \in 1 .. lastId'
        /\ c.kind = "none" <=> c.at = "free"
        /\ c.at = "open" => c.kind \in {"share", "revoke"}
        /\ stored' \subseteq Shares!Share /\ IsFiniteSet(stored')
        /\ lastId' \in 0 .. MaxShares /\ lastId <= lastId'
        /\ shares' \in Seq(Shares!Share) /\ revoking' \in (1 .. MaxShares) \cup {None}
        /\ open' \in BOOLEAN /\ crossed' \in BOOLEAN /\ missed' \in BOOLEAN /\ stale' \in BOOLEAN
        /\ ~open' => shares' = <<>> /\ (c.at # "free" => c.told) /\ ~open
    BY <1>1, <2>1, <2>2, <2>3
  <2> QED
    BY <1>0, <1>2, <1>1, <2>4, ShareTypedBecomes
<1>4. /\ ~Makes(k) /\ ~Makes(k)' /\ Change(k) /\ ~Fetches(k)'
      /\ \A i : ~Removes(k, i) /\ (Removes(k, i)' <=> i = call[k].id)
      /\ call'[k].at = "open" /\ call'[k].told = call[k].told /\ call'[k].kind = call[k].kind
      /\ call'[k].id = call[k].id /\ call'[k].gives = <<>>
  BY <1>1, <1>3 DEF Makes, Removes, Change, Fetches, Landed
<1>5. \A o \in Call \ {k} : /\ Makes(o)' <=> Makes(o)
                            /\ \A i : Removes(o, i)' <=> Removes(o, i)
                            /\ Change(o)' <=> Change(o)
                            /\ Fetches(o)' <=> Fetches(o)
                            /\ Made(o)' = Made(o) /\ call'[o] = call[o]
  BY <1>3, OtherRequests
<1>11. ASSUME NEW o \in Call, Makes(o)'
       PROVE  o # k /\ Makes(o) /\ Made(o)' = Made(o) /\ call'[o] = call[o]
  <2>1. CASE o = k
    BY <1>4, <1>11, <2>1
  <2>2. CASE o # k
    BY <1>5, <1>11, <2>2
  <2> QED
    BY <2>1, <2>2
<1>6. \A o \in Call : Makes(o) /\ call[o].at = "open" => Made(o).id # call[k].id
  BY <1>0 DEF Fresh
<1>7. Fresh'
  <2>1. /\ \A s \in stored' : s.id <= lastId'
        /\ \A s \in ToSet(shares)' : s.id <= lastId'
        /\ \A o \in Call : \A s \in ToSet(call'[o].gives) : s.id <= lastId'
    BY <1>0, <1>4, <1>5, NoEntries DEF Fresh
  <2>2. /\ \A o \in Call : Makes(o)' => Len(call'[o].gives) = 1
        /\ \A o, p \in Call : o # p /\ Makes(o)' /\ Makes(p)' => Made(o)'.id # Made(p)'.id
    <3>1. \A o \in Call : Makes(o)' => o # k /\ Makes(o) /\ Made(o)' = Made(o) /\ call'[o] = call[o]
      BY <1>11
    <3> QED
      BY <1>0, <3>1 DEF Fresh
  <2>3. ASSUME NEW o \in Call, Makes(o)', call'[o].at = "open"
        PROVE  /\ \A s \in stored' : s.id # Made(o)'.id
               /\ \A p \in Call : ~Removes(p, Made(o).id)'
    <3>1. o # k /\ Makes(o) /\ call[o].at = "open" /\ Made(o)' = Made(o)
      BY <1>4, <1>5, <2>3
    <3>2. \A p \in Call : ~Removes(p, Made(o).id)
      BY <1>0, <3>1 DEF Fresh
    <3>3. \A p \in Call : \A i : i = Made(o).id => ~Removes(p, i)'
      BY <1>4, <1>5, <1>6, <3>1, <3>2
    <3>4. \A p \in Call : ~Removes(p, Made(o).id)'
      BY <3>1, <3>3 DEF Removes, Made
    <3> QED
      BY <1>0, <3>1, <3>4 DEF Fresh
  <2> QED
    BY <2>1, <2>2, <2>3 DEF Fresh
<1>8. ASSUME Steady' PROVE (ToldLanded /\ FetchesAlone /\ UnlistedStay /\ ListedOnce /\ Agree)'
  <2>1. ToldLanded /\ FetchesAlone /\ UnlistedStay /\ ListedOnce /\ Agree
    BY <1>8 DEF Steady, ShareInv
  <2>2. (\A f \in Call : ~Fetches(f)) /\ ~call[k].told
    BY <1>4, <2>1, NothingFetched
  <2>3. (\A f \in Call : ~Fetches(f)') /\ FetchesAlone'
    BY <1>4, <1>5, <2>2 DEF FetchesAlone
  <2>4. ToldLanded' /\ ListedOnce'
    BY <1>4, <1>5, <2>1, <2>2 DEF ToldLanded, ListedOnce
  <2>5. UnlistedStay'
    <3>1. \A o \in Call : Makes(o)' => o # k /\ Makes(o) /\ Made(o)' = Made(o) /\ call'[o] = call[o]
      BY <1>11
    <3>2. \A o \in Call : /\ call'[o].kind = "revoke" <=> call[o].kind = "revoke"
                          /\ call'[o].id = call[o].id
      BY <1>4, <1>5
    <3> QED
      BY <2>1, <3>1, <3>2 DEF UnlistedStay
  <2>6. ASSUME NEW s \in Shares!Share PROVE WillBeStored(s)' <=> WillBeListed(s)'
    <3>1. CASE s.id = call[k].id
      BY <1>4, <2>2, <3>1 DEF WillBeStored, WillBeListed
    <3>2. CASE s.id # call[k].id
      <4>1. (WillBeStored(s)' <=> WillBeStored(s)) /\ (WillBeListed(s)' <=> WillBeListed(s))
        BY <1>4, <1>5, <3>2 DEF WillBeStored, WillBeListed
      <4> QED
        BY <2>1, <2>2, <4>1 DEF Agree
    <3> QED
      BY <3>1, <3>2
  <2>7. Agree'
    BY <2>6 DEF Agree
  <2> QED
    BY <2>1, <2>3, <2>4, <2>5, <2>7
<1>9. ASSUME NEW s \in Shares!Share, s.id # call[k].id PROVE WillBeStored(s)' <=> WillBeStored(s)
  BY <1>4, <1>5, <1>9 DEF WillBeStored
<1>10. ASSUME NEW s \in Shares!Share, s.id = call[k].id PROVE ~WillBeStored(s)'
  BY <1>4, <1>10 DEF WillBeStored
<1> QED
  BY <1>3, <1>7, <1>8, <1>9, <1>10 DEF ShareInv

\* list_shares.
LEMMA ServeListKeeps ==
  ASSUME ShareInv, NEW k \in Call, Shares!ServeList(k)
  PROVE  ShareInv'
<1>0. ShareTyped /\ Fresh
  BY DEF ShareInv
<1>m. /\ call[k].kind = "list" /\ call[k].at = "sent"
      /\ call' = [call EXCEPT ![k].at = "done", ![k].gives = SetToSeq(stored)]
      /\ UNCHANGED <<stored, lastId, open, shares, revoking, crossed, missed, stale>>
  BY SameLists DEF Shares!ServeList, Shares!serverVars, Shares!dialogVars, Shares!noteVars
<1>n. /\ call[k].kind = "list" /\ call[k].at = "sent"
      /\ stored' = stored /\ lastId' = lastId /\ open' = open /\ shares' = shares
      /\ revoking' = revoking /\ crossed' = crossed /\ missed' = missed /\ stale' = stale
  BY <1>m
<1>p. PICK q : q = SetToSeq(stored)
  OBVIOUS
<1>q. q \in Seq(Shares!Share) /\ ToSet(q) = stored /\ IsInjective(q)
  <2>1. stored \in SUBSET Shares!Share /\ IsFiniteSet(stored)
    BY <1>0 DEF ShareTyped
  <2> QED
    BY <1>p, <2>1, Listing
<1> DEFINE b == [call[k] EXCEPT !.at = "done"]
           c == [b EXCEPT !.gives = q]
<1>1. /\ b \in ShareCall /\ b.at = "done" /\ b.kind = call[k].kind /\ b.told = call[k].told
  BY <1>0, ShareCallTyped, AtBecomes
<1>2. call' = [call EXCEPT ![k] = c]
  BY <1>0, <1>m, <1>p DEF ShareTyped
<1> HIDE DEF b
<1>3. c \in ShareCall /\ c.at = "done" /\ c.gives = q /\ c.kind = "list" /\ c.told = call[k].told
  BY <1>1, <1>m, <1>q, GivesBecomes
<1> HIDE DEF c
<1>4. ShareTyped' /\ call'[k] = c /\ \A o \in Call \ {k} : call'[o] = call[o]
  <2>1. /\ c.kind \notin {"none", "share", "revoke"} /\ c.at \notin {"free", "open"}
        /\ c # Shares!Idle /\ (~open => c.told /\ shares = <<>>)
    BY <1>0, <1>3, <1>m, IdleShare DEF ShareTyped
  <2>2. /\ stored \subseteq Shares!Share /\ IsFiniteSet(stored) /\ lastId \in 0 .. MaxShares
        /\ shares \in Seq(Shares!Share) /\ revoking \in (1 .. MaxShares) \cup {None}
        /\ open \in BOOLEAN /\ crossed \in BOOLEAN /\ missed \in BOOLEAN /\ stale \in BOOLEAN
    BY <1>0 DEF ShareTyped
  <2>3. lastId \in Int /\ lastId <= lastId
    BY <1>0 DEF ShareTyped
  <2> QED
    BY <1>0, <1>n, <1>2, <1>3, <2>1, <2>2, <2>3, ShareTypedBecomes
<1>5. \A o \in Call : /\ Makes(o)' <=> Makes(o)
                      /\ \A i : Removes(o, i)' <=> Removes(o, i)
                      /\ Change(o)' <=> Change(o)
                      /\ Fetches(o)' <=> Fetches(o)
                      /\ o # k => Made(o)' = Made(o) /\ call'[o] = call[o]
                      /\ (o = k \/ ~Change(o)) => ~Makes(o) /\ \A i : ~Removes(o, i)
  <2>1. /\ Makes(k)' <=> Makes(k)
        /\ \A i : Removes(k, i)' <=> Removes(k, i)
        /\ Change(k)' <=> Change(k)
        /\ Fetches(k)' <=> Fetches(k)
    BY <1>3, <1>4, <1>n DEF Makes, Removes, Change, Fetches
  <2>2. \A o \in Call : (o = k \/ ~Change(o)) => ~Makes(o) /\ \A i : ~Removes(o, i)
    BY <1>n DEF Makes, Removes, Change
  <2> QED
    BY <1>4, <2>1, <2>2, OtherRequests
<1>6. ~Change(k) /\ call'[k] = c
  BY <1>4, <1>n DEF Change
<1>7. Fresh'
  <2>1. /\ \A s \in stored' : s.id <= lastId'
        /\ \A s \in ToSet(shares)' : s.id <= lastId'
        /\ \A o \in Call : \A s \in ToSet(call'[o].gives) : s.id <= lastId'
    BY <1>0, <1>3, <1>5, <1>6, <1>n, <1>q DEF Fresh
  <2>2. /\ \A o \in Call : Makes(o)' => Len(call'[o].gives) = 1
        /\ \A o, p \in Call : o # p /\ Makes(o)' /\ Makes(p)' => Made(o)'.id # Made(p)'.id
    BY <1>0, <1>5 DEF Fresh
  <2>3. ASSUME NEW o \in Call, Makes(o)', call'[o].at = "open"
        PROVE  /\ \A s \in stored' : s.id # Made(o)'.id
               /\ \A p \in Call : ~Removes(p, Made(o).id)'
    <3>1. o # k /\ Makes(o) /\ call[o].at = "open" /\ Made(o)' = Made(o)
      BY <1>5, <2>3
    <3>2. /\ \A p \in Call : ~Removes(p, Made(o).id)
          /\ \A s \in stored : s.id # Made(o).id
      BY <1>0, <3>1 DEF Fresh
    <3>3. \A p \in Call : \A i : i = Made(o).id => ~Removes(p, i)'
      BY <1>5, <3>2
    <3>4. \A p \in Call : ~Removes(p, Made(o).id)'
      BY <3>1, <3>3 DEF Removes, Made
    <3> QED
      BY <1>n, <3>1, <3>2, <3>4
  <2> QED
    BY <2>1, <2>2, <2>3 DEF Fresh
<1>8. ASSUME Steady' PROVE (ToldLanded /\ FetchesAlone /\ UnlistedStay /\ ListedOnce /\ Agree)'
  <2>1. ToldLanded /\ FetchesAlone /\ UnlistedStay /\ ListedOnce /\ Agree
    BY <1>8, <1>n DEF Steady, ShareInv
  <2>2. ToldLanded' /\ ListedOnce'
    BY <1>5, <1>6, <1>n, <2>1 DEF ToldLanded, ListedOnce
  <2>3. FetchesAlone'
    <3>1. \A f \in Call : Fetches(f)' =>
            \A o \in Call : Change(o)' => call'[o].told /\ call'[o].at # "open"
      BY <1>5, <1>6, <2>1 DEF FetchesAlone
    <3>2. ASSUME NEW f \in Call, Fetches(f)', call'[f].at = "done"
          PROVE  ToSet(call'[f].gives) = stored' /\ IsInjective(call'[f].gives)
      <4>1. CASE f = k
        BY <1>3, <1>6, <1>n, <1>q, <4>1
      <4>2. CASE f # k
        BY <1>5, <1>n, <2>1, <3>2, <4>2 DEF FetchesAlone
      <4> QED
        BY <4>1, <4>2
    <3> QED
      BY <3>1, <3>2 DEF FetchesAlone
  <2>4. UnlistedStay'
    <3>1. \A o \in Call : /\ call'[o].kind = "revoke" <=> call[o].kind = "revoke"
                          /\ call[o].kind = "revoke" => call'[o] = call[o]
      BY <1>3, <1>5, <1>6, <1>n
    <3> QED
      BY <1>5, <1>n, <2>1, <3>1 DEF UnlistedStay
  <2>5. ASSUME NEW s \in Shares!Share
        PROVE  (WillBeStored(s)' <=> WillBeStored(s)) /\ (WillBeListed(s)' <=> WillBeListed(s))
    BY <1>5, <1>n DEF WillBeStored, WillBeListed
  <2>6. Agree'
    BY <1>5, <2>1, <2>5 DEF Agree
  <2> QED
    BY <2>2, <2>3, <2>4, <2>6
<1> QED
  BY <1>4, <1>7, <1>8 DEF ShareInv

\* A change of the shares is committed.
LEMMA ShareCommitKeeps ==
  ASSUME ShareInv, NEW k \in Call, Shares!Commit(k)
  PROVE  ShareInv' /\ \A s \in Shares!Share : WillBeStored(s)' <=> WillBeStored(s)
<1>0. ShareTyped /\ Fresh
  BY DEF ShareInv
<1>m. /\ call[k].at = "open" /\ call[k].kind \in {"share", "revoke"}
      /\ lastId' = lastId /\ open' = open /\ shares' = shares
      /\ revoking' = revoking /\ crossed' = crossed /\ missed' = missed /\ stale' = stale
  BY <1>0 DEF Shares!Commit, Shares!dialogVars, Shares!noteVars, ShareTyped
<1>k. Landed(k) /\ Change(k)
  BY <1>m DEF Landed, Change
<1> DEFINE b == [call[k] EXCEPT !.at = "done"]
           c == IF call[k].told THEN Shares!Idle ELSE b
<1>1. /\ b \in ShareCall /\ b.at = "done" /\ b.kind = call[k].kind /\ b.told = call[k].told
      /\ b.gives = call[k].gives /\ b.id = call[k].id /\ b.with = call[k].with
  BY <1>0, ShareCallTyped, AtBecomes
<1>2. call' = [call EXCEPT ![k] = c]
  BY <1>0 DEF Shares!Commit, ShareTyped
<1> HIDE DEF b
<1>3. /\ c \in ShareCall /\ (call[k].told <=> c.at = "free") /\ (c.at = "free" <=> c = Shares!Idle)
      /\ call[k].told => c.kind = "none" /\ ~c.told /\ c.gives = <<>>
      /\ ~call[k].told => /\ c.at = "done" /\ c.kind = call[k].kind /\ ~c.told
                          /\ c.gives = call[k].gives /\ c.id = call[k].id /\ c.with = call[k].with
  BY <1>1, IdleShare
<1> HIDE DEF c
\* What is stored afterwards.
<1>s. /\ call[k].kind = "share" => Makes(k) /\ stored' = stored \cup {Made(k)}
      /\ call[k].kind = "revoke" => stored' = {s \in stored : s.id # call[k].id}
  <2>1. CASE call[k].kind = "share"
    <3>1. Makes(k) /\ ToSet(call[k].gives) = {Made(k)}
      BY <1>0, <1>k, <2>1, MadeIs DEF Makes
    <3>2. stored' = stored \cup ToSet(call[k].gives)
      BY <2>1, SameLists DEF Shares!Commit
    <3> QED
      BY <2>1, <3>1, <3>2
  <2>2. CASE call[k].kind = "revoke"
    BY <2>2 DEF Shares!Commit
  <2> QED
    BY <1>m, <2>1, <2>2
<1>t. /\ stored' \subseteq Shares!Share /\ IsFiniteSet(stored')
      /\ \A s \in stored' : s.id <= lastId
  <2>0. stored \subseteq Shares!Share /\ IsFiniteSet(stored) /\ \A s \in stored : s.id <= lastId
    BY <1>0 DEF ShareTyped, Fresh
  <2>1. CASE call[k].kind = "share"
    <3>1. Made(k) \in Shares!Share /\ Made(k).id <= lastId
      BY <1>0, <1>s, <2>1, MadeIs
    <3>2. IsFiniteSet(stored \cup {Made(k)})
      BY <2>0, FS_AddElement
    <3> QED
      BY <1>s, <2>0, <2>1, <3>1, <3>2
  <2>2. CASE call[k].kind = "revoke"
    <3>1. stored' \in SUBSET stored
      BY <1>s, <2>2
    <3> QED
      BY <2>0, <3>1, FS_Subset
  <2> QED
    BY <1>m, <2>1, <2>2
<1>4. ShareTyped' /\ call'[k] = c /\ \A o \in Call \ {k} : call'[o] = call[o]
  <2>1. /\ c.kind = "share" => c.with \in User \cup {Link}
        /\ c.kind = "revoke" => c.id \in 1 .. lastId
        /\ c.kind = "none" <=> c.at = "free"
        /\ c.at # "open" /\ (~open => shares = <<>> /\ call[k].told)
    BY <1>0, <1>3, <1>m DEF ShareTyped
  <2>2. /\ lastId \in 0 .. MaxShares
        /\ shares \in Seq(Shares!Share) /\ revoking \in (1 .. MaxShares) \cup {None}
        /\ open \in BOOLEAN /\ crossed \in BOOLEAN /\ missed \in BOOLEAN /\ stale \in BOOLEAN
    BY <1>0 DEF ShareTyped
  <2>3. lastId \in Int /\ lastId <= lastId
    BY <1>0 DEF ShareTyped
  <2> QED
    BY <1>0, <1>2, <1>3, <1>m, <1>t, <2>1, <2>2, <2>3, ShareTypedBecomes
<1>5. \A o \in Call \ {k} : /\ Makes(o)' <=> Makes(o)
                            /\ \A i : Removes(o, i)' <=> Removes(o, i)
                            /\ Change(o)' <=> Change(o)
                            /\ Fetches(o)' <=> Fetches(o)
                            /\ Made(o)' = Made(o) /\ call'[o] = call[o]
  BY <1>4, OtherRequests
<1>6. /\ Makes(k)' <=> Makes(k) /\ ~call[k].told
      /\ \A i : Removes(k, i)' <=> Removes(k, i) /\ ~call[k].told
      /\ Makes(k)' => Made(k)' = Made(k)
      /\ ~Fetches(k)' /\ ~Fetches(k) /\ call'[k].at # "open" /\ ~call'[k].told
      /\ (call'[k].gives = call[k].gives \/ call'[k].gives = <<>>)
      /\ Change(k)' => call'[k].id = call[k].id /\ call'[k].kind = call[k].kind /\ ~call[k].told
  BY <1>3, <1>4, <1>m DEF Makes, Removes, Change, Fetches, Landed, Made
\* A share that is made while another is revoked is not that one.
<1>7. \A o \in Call : Makes(o) /\ call[o].at = "open" =>
        /\ \A s \in stored : s.id # Made(o).id
        /\ call[k].kind = "revoke" => Made(o).id # call[k].id
        /\ (call[k].kind = "share" /\ o # k) => Made(o).id # Made(k).id
        /\ \A p \in Call : ~Removes(p, Made(o).id)
  BY <1>0, <1>k, <1>s DEF Fresh, Removes
<1>8. Fresh'
  <2>1. /\ \A s \in stored' : s.id <= lastId'
        /\ \A s \in ToSet(shares)' : s.id <= lastId'
        /\ \A o \in Call : \A s \in ToSet(call'[o].gives) : s.id <= lastId'
    BY <1>0, <1>5, <1>6, <1>m, <1>t, NoEntries DEF Fresh
  <2>2. /\ \A o \in Call : Makes(o)' => Len(call'[o].gives) = 1
        /\ \A o, p \in Call : o # p /\ Makes(o)' /\ Makes(p)' => Made(o)'.id # Made(p)'.id
    <3>1. \A o \in Call : Makes(o)' => Makes(o) /\ Made(o)' = Made(o) /\ call'[o].gives = call[o].gives
      BY <1>3, <1>4, <1>5, <1>6
    <3> QED
      BY <1>0, <3>1 DEF Fresh
  <2>3. ASSUME NEW o \in Call, Makes(o)', call'[o].at = "open"
        PROVE  /\ \A s \in stored' : s.id # Made(o)'.id
               /\ \A p \in Call : ~Removes(p, Made(o).id)'
    <3>1. o # k /\ Makes(o) /\ call[o].at = "open" /\ Made(o)' = Made(o)
      BY <1>5, <1>6, <2>3
    <3>2. \A s \in stored' : s.id # Made(o).id
      BY <1>7, <1>m, <1>s, <3>1
    <3>3. \A p \in Call : \A i : i = Made(o).id => ~Removes(p, i)'
      BY <1>5, <1>6, <1>7, <3>1
    <3>4. \A p \in Call : ~Removes(p, Made(o).id)'
      BY <3>1, <3>3 DEF Removes, Made
    <3> QED
      BY <3>1, <3>2, <3>4
  <2> QED
    BY <2>1, <2>2, <2>3 DEF Fresh
<1>9. ASSUME NEW s \in Shares!Share PROVE WillBeStored(s)' <=> WillBeStored(s)
  <2>1. CASE call[k].kind = "share"
    <3>0. Makes(k) /\ stored' = stored \cup {Made(k)} /\ \A i : ~Removes(k, i)
      BY <1>s, <2>1 DEF Removes
    <3>1. CASE s = Made(k)
      <4>1. \A o \in Call : ~Removes(o, s.id)
        BY <1>7, <1>m, <3>0, <3>1
      <4>2. \A o \in Call : ~Removes(o, s.id)'
        BY <1>5, <1>6, <4>1
      <4> QED
        BY <1>m, <3>0, <3>1, <4>1, <4>2 DEF WillBeStored
    <3>2. CASE s # Made(k)
      BY <1>5, <1>6, <3>0, <3>2 DEF WillBeStored
    <3> QED
      BY <3>1, <3>2
  <2>2. CASE call[k].kind = "revoke"
    <3>0. ~Makes(k) /\ stored' = {t \in stored : t.id # call[k].id}
      BY <1>s, <2>2 DEF Makes
    <3>1. CASE s.id = call[k].id
      <4>1. ~WillBeStored(s)
        BY <1>k, <1>m, <2>2, <3>1 DEF WillBeStored, Removes
      <4>2. \A o \in Call : Makes(o)' /\ call'[o].at = "open" => Made(o)' # s
        BY <1>5, <1>6, <1>7, <2>2, <3>1
      <4> QED
        BY <3>0, <3>1, <4>1, <4>2 DEF WillBeStored
    <3>2. CASE s.id # call[k].id
      <4>1. ~Removes(k, s.id)
        BY <3>2 DEF Removes
      <4> QED
        BY <1>5, <1>6, <3>0, <3>2, <4>1 DEF WillBeStored
    <3> QED
      BY <3>1, <3>2
  <2> QED
    BY <1>m, <2>1, <2>2
<1>10. ASSUME Steady' PROVE (ToldLanded /\ FetchesAlone /\ UnlistedStay /\ ListedOnce /\ Agree)'
  <2>1. ToldLanded /\ FetchesAlone /\ UnlistedStay /\ ListedOnce /\ Agree
    BY <1>10, <1>m DEF Steady, ShareInv
  <2>2. \A f \in Call : ~Fetches(f)
    BY <1>k, <1>m, <2>1, NothingFetched
  <2>3. (\A f \in Call : ~Fetches(f)') /\ FetchesAlone'
    BY <1>5, <1>6, <2>2 DEF FetchesAlone
  <2>4. ToldLanded' /\ ListedOnce'
    BY <1>5, <1>6, <1>m, <2>1 DEF ToldLanded, ListedOnce
  <2>5. UnlistedStay'
    <3>1. \A o \in Call : Makes(o)' /\ ~call'[o].told =>
                            Makes(o) /\ ~call[o].told /\ Made(o)' = Made(o)
      BY <1>5, <1>6
    <3>2. \A o \in Call : call'[o].kind = "revoke" => call[o].kind = "revoke" /\ call'[o].id = call[o].id
      BY <1>3, <1>4
    <3> QED
      BY <1>m, <2>1, <3>1, <3>2 DEF UnlistedStay
  <2>7. ASSUME NEW s \in Shares!Share PROVE WillBeListed(s)' <=> WillBeListed(s)
    BY <1>5, <1>6, <1>m DEF WillBeListed
  <2>8. Agree'
    BY <1>9, <2>1, <2>2, <2>7 DEF Agree
  <2> QED
    BY <2>1, <2>3, <2>4, <2>5, <2>8
<1> QED
  BY <1>4, <1>8, <1>9, <1>10 DEF ShareInv

\* A request ends that nobody waits for, or that failed.
LEMMA EndsKeeps ==
  ASSUME ShareInv, NEW k \in Call, call[k].at \in {"done", "bad"},
         call[k].told \/ call[k].at = "bad",
         call' = [call EXCEPT ![k] = Shares!Idle],
         stored' = stored, lastId' = lastId, open' = open, shares' = shares,
         crossed' = crossed, stale' = stale, revoking' \in (1 .. MaxShares) \cup {None},
         missed' \in BOOLEAN, ~missed' => ~missed /\ ~Fetches(k)
  PROVE  ShareInv'
<1>0. ShareTyped /\ Fresh
  BY DEF ShareInv
<1>1. ShareTyped' /\ call'[k] = Shares!Idle /\ \A o \in Call \ {k} : call'[o] = call[o]
  <2>1. /\ stored \subseteq Shares!Share /\ IsFiniteSet(stored) /\ lastId \in 0 .. MaxShares
        /\ shares \in Seq(Shares!Share)
        /\ open \in BOOLEAN /\ crossed \in BOOLEAN /\ stale \in BOOLEAN
        /\ ~open => shares = <<>>
    BY <1>0 DEF ShareTyped
  <2>2. lastId \in Int /\ lastId <= lastId
    BY <1>0 DEF ShareTyped
  <2>3. /\ Shares!Idle.kind \notin {"share", "revoke"} /\ Shares!Idle.kind = "none"
        /\ Shares!Idle.at = "free" /\ Shares!Idle \in ShareCall
    BY IdleShare
  <2>4. ~open => ~open' /\ shares' = <<>>
    BY <2>1
  <2> QED
    BY <1>0, <2>1, <2>2, <2>3, <2>4, ShareTypedBecomes
<1>2. \A o \in Call \ {k} : /\ Makes(o)' <=> Makes(o)
                            /\ \A i : Removes(o, i)' <=> Removes(o, i)
                            /\ Change(o)' <=> Change(o)
                            /\ Fetches(o)' <=> Fetches(o)
                            /\ Made(o)' = Made(o) /\ call'[o] = call[o]
  BY <1>1, OtherRequests
<1>3. /\ ~Makes(k)' /\ ~Change(k)' /\ ~Fetches(k)' /\ \A i : ~Removes(k, i)'
      /\ call'[k].gives = <<>> /\ call'[k].kind = "none" /\ call'[k].at = "free"
      /\ call[k].at # "open" /\ (Makes(k) => call[k].told) /\ \A i : Removes(k, i) => call[k].told
  BY <1>1, IdleShare DEF Makes, Removes, Change, Fetches, Landed
<1>4. Fresh'
  <2>1. /\ \A s \in stored' : s.id <= lastId'
        /\ \A s \in ToSet(shares)' : s.id <= lastId'
        /\ \A o \in Call : \A s \in ToSet(call'[o].gives) : s.id <= lastId'
    BY <1>0, <1>2, <1>3, NoEntries DEF Fresh
  <2>2. /\ \A o \in Call : Makes(o)' => Len(call'[o].gives) = 1
        /\ \A o, p \in Call : o # p /\ Makes(o)' /\ Makes(p)' => Made(o)'.id # Made(p)'.id
    BY <1>0, <1>2, <1>3 DEF Fresh
  <2>3. ASSUME NEW o \in Call, Makes(o)', call'[o].at = "open"
        PROVE  /\ \A s \in stored' : s.id # Made(o)'.id
               /\ \A p \in Call : ~Removes(p, Made(o).id)'
    <3>1. o # k /\ Makes(o) /\ call[o].at = "open" /\ Made(o)' = Made(o)
      BY <1>2, <1>3, <2>3
    <3>2. /\ \A s \in stored : s.id # Made(o).id
          /\ \A p \in Call : ~Removes(p, Made(o).id)
      BY <1>0, <3>1 DEF Fresh
    <3>3. \A p \in Call : \A i : i = Made(o).id => ~Removes(p, i)'
      BY <1>2, <1>3, <3>2
    <3>4. \A p \in Call : ~Removes(p, Made(o).id)'
      BY <3>1, <3>3 DEF Removes, Made
    <3> QED
      BY <3>1, <3>2, <3>4
  <2> QED
    BY <2>1, <2>2, <2>3 DEF Fresh
<1>5. ASSUME Steady' PROVE (ToldLanded /\ FetchesAlone /\ UnlistedStay /\ ListedOnce /\ Agree)'
  <2>1. ToldLanded /\ FetchesAlone /\ UnlistedStay /\ ListedOnce /\ Agree
    BY <1>5 DEF Steady, ShareInv
  <2>2. ToldLanded' /\ ListedOnce'
    BY <1>2, <1>3, <2>1 DEF ToldLanded, ListedOnce
  <2>3. FetchesAlone'
    BY <1>2, <1>3, <2>1 DEF FetchesAlone
  <2>4. UnlistedStay'
    BY <1>2, <1>3, <2>1 DEF UnlistedStay
  <2>5. Agree'
    <3>1. CASE \A f \in Call : ~Fetches(f)
      <4>1. ASSUME NEW s \in Shares!Share
            PROVE  (WillBeStored(s)' <=> WillBeStored(s)) /\ (WillBeListed(s)' <=> WillBeListed(s))
        BY <1>2, <1>3 DEF WillBeStored, WillBeListed
      <4> QED
        BY <2>1, <3>1, <4>1 DEF Agree
    <3>2. CASE \E f \in Call : Fetches(f) /\ f # k
      BY <1>2, <3>2 DEF Agree
    <3>3. CASE Fetches(k)
      BY <1>5, <3>3 DEF Steady
    <3> QED
      BY <3>1, <3>2, <3>3
  <2> QED
    BY <2>2, <2>3, <2>4, <2>5
<1> QED
  BY <1>1, <1>4, <1>5 DEF ShareInv

\* The shares are changed from elsewhere.
LEMMA ShareOthersKeep == ASSUME ShareInv, Shares!Others PROVE ShareInv'
<1>0. ShareTyped /\ Fresh
  BY DEF ShareInv
<1>m. /\ call' = call /\ open' = open /\ shares' = shares /\ revoking' = revoking
      /\ crossed' = crossed /\ missed' = missed /\ stale'
  BY DEF Shares!Others, Shares!dialogVars
<1>1. lastId \in Int /\ 0 <= lastId /\ lastId <= MaxShares /\ MaxShares \in Int
  BY <1>0, ControlsAssumption DEF ShareTyped
<1>2. \/ \E s \in stored : stored' = stored \ {s} /\ lastId' = lastId
      \/ \E w \in User : /\ lastId < MaxShares /\ lastId' = lastId + 1
                         /\ stored' = stored \cup {[id |-> lastId + 1, with |-> w]}
  <2>1. PICK i \in 1 .. MaxShares :
          \/ \E s \in stored : s.id = i /\ stored' = stored \ {s} /\ lastId' = lastId
          \/ \E w \in User : /\ i = lastId + 1 /\ lastId' = i
                             /\ stored' = stored \cup {[id |-> i, with |-> w]}
    BY DEF Shares!Others
  <2>2. i = lastId + 1 => lastId < MaxShares
    BY <1>1
  <2> QED
    BY <2>1, <2>2
<1>3. lastId' \in 0 .. MaxShares /\ lastId <= lastId'
  BY <1>1, <1>2
<1>4. \A i : i \in Int /\ i <= lastId => i <= lastId'
  BY <1>1, <1>3
<1>5. /\ stored' \subseteq Shares!Share /\ IsFiniteSet(stored')
      /\ \A s \in stored' : s.id <= lastId'
      /\ \A s \in stored' : s \in stored \/ s.id = lastId + 1
  <2>0. /\ stored \subseteq Shares!Share /\ IsFiniteSet(stored)
        /\ \A s \in stored : s.id \in Int /\ s.id <= lastId
    BY <1>0 DEF ShareTyped, Fresh, Shares!Share
  <2>1. CASE \E s \in stored : stored' = stored \ {s} /\ lastId' = lastId
    <3>1. stored' \in SUBSET stored
      BY <2>1
    <3> QED
      BY <2>0, <2>1, <3>1, FS_Subset
  <2>2. CASE \E w \in User : /\ lastId < MaxShares /\ lastId' = lastId + 1
                             /\ stored' = stored \cup {[id |-> lastId + 1, with |-> w]}
    <3>1. PICK sh : /\ sh \in Shares!Share /\ sh.id = lastId + 1
                    /\ stored' = stored \cup {sh} /\ lastId' = lastId + 1
      <4>1. lastId < MaxShares => lastId + 1 \in 1 .. MaxShares
        BY <1>1
      <4> QED
        BY <2>2, <4>1 DEF Shares!Share
    <3>2. sh.id <= lastId' /\ sh.id \in Int
      BY <1>1, <3>1
    <3>3. IsFiniteSet(stored \cup {sh})
      BY <2>0, FS_AddElement
    <3> QED
      BY <1>4, <2>0, <3>1, <3>2, <3>3
  <2> QED
    BY <1>2, <2>1, <2>2
<1>6. ShareTyped'
  <2>1. \A i : i \in 1 .. lastId => i \in 1 .. lastId'
    BY <1>1, <1>3
  <2> QED
    BY <1>0, <1>3, <1>5, <1>m, <2>1 DEF ShareTyped
<1>7. Fresh'
  <2>1. /\ \A s \in ToSet(shares) : s.id \in Int
        /\ \A k \in Call : \A s \in ToSet(call[k].gives) : s.id \in Int
    <3>1. /\ ToSet(shares) \subseteq Shares!Share
          /\ \A k \in Call : ToSet(call[k].gives) \subseteq Shares!Share
      BY <1>0, ShareCallTyped, Entries DEF ShareTyped
    <3>2. \A s \in Shares!Share : s.id \in Int
      BY DEF Shares!Share
    <3> QED
      BY <3>1, <3>2
  <2>2. /\ \A s \in ToSet(shares)' : s.id <= lastId'
        /\ \A k \in Call : \A s \in ToSet(call'[k].gives) : s.id <= lastId'
    BY <1>0, <1>4, <1>m, <2>1 DEF Fresh
  <2>3. \A k \in Call : /\ Makes(k)' <=> Makes(k)
                        /\ Made(k)' = Made(k) /\ call'[k] = call[k]
                        /\ \A i : Removes(k, i)' <=> Removes(k, i)
    BY <1>m DEF Makes, Made, Removes, Landed
  <2>4. /\ \A k \in Call : Makes(k)' => Len(call'[k].gives) = 1
        /\ \A k, o \in Call : k # o /\ Makes(k)' /\ Makes(o)' => Made(k)'.id # Made(o)'.id
    BY <1>0, <2>3 DEF Fresh
  <2>5. ASSUME NEW k \in Call, Makes(k)', call'[k].at = "open"
        PROVE  /\ \A s \in stored' : s.id # Made(k)'.id
               /\ \A p \in Call : ~Removes(p, Made(k).id)'
    <3>1. /\ \A s \in stored : s.id # Made(k).id
          /\ \A p \in Call : ~Removes(p, Made(k).id)
      BY <1>0, <2>3, <2>5 DEF Fresh
    <3>2. Made(k).id \in Int /\ Made(k).id <= lastId
      BY <1>0, <2>3, <2>5, MadeIs
    <3>3. Made(k).id # lastId + 1
      BY <1>1, <3>2
    <3>4. \A p \in Call : ~Removes(p, Made(k).id)'
      BY <1>m, <3>1 DEF Removes, Made, Landed
    <3> QED
      BY <1>5, <2>3, <3>1, <3>3, <3>4
  <2> QED
    BY <1>5, <2>2, <2>4, <2>5 DEF Fresh
<1> QED
  BY <1>6, <1>7, <1>m DEF ShareInv, Steady

\* The dialog is closed.
LEMMA CloseDialogKeeps == ASSUME ShareInv, Shares!CloseDialog PROVE ShareInv'
<1>0. ShareTyped /\ Fresh
  BY DEF ShareInv
<1>m. /\ stored' = stored /\ lastId' = lastId /\ open' = FALSE /\ shares' = <<>>
      /\ revoking' = None /\ crossed' = crossed /\ missed' = missed /\ stale' = stale
      /\ call' = [k \in Call |-> IF call[k].at = "free" THEN Shares!Idle
                                 ELSE [call[k] EXCEPT !.told = TRUE]]
  BY DEF Shares!CloseDialog, Shares!serverVars, Shares!noteVars
<1>n. /\ stored' = stored /\ lastId' = lastId /\ open' = FALSE /\ shares' = <<>>
      /\ revoking' = None /\ crossed' = crossed /\ missed' = missed /\ stale' = stale
  BY <1>m
<1>1. ASSUME NEW k \in Call
      PROVE  /\ call'[k] \in ShareCall /\ call'[k].kind = call[k].kind
             /\ call'[k].at = call[k].at /\ call'[k].id = call[k].id
             /\ call'[k].with = call[k].with /\ call'[k].gives = call[k].gives
             /\ call'[k].at # "free" => call'[k].told
             /\ call'[k].at = "free" <=> call'[k] = Shares!Idle
  <2>1. call[k] \in ShareCall /\ (call[k].at = "free" <=> call[k] = Shares!Idle)
    BY <1>0 DEF ShareTyped
  <2>2. CASE call[k].at = "free"
    BY <1>m, <2>1, <2>2
  <2>3. CASE call[k].at # "free"
    <3>1. call'[k] = [call[k] EXCEPT !.told = TRUE]
      BY <1>m, <2>3
    <3>2. /\ call'[k] \in ShareCall /\ call'[k].told /\ call'[k].at = call[k].at
          /\ call'[k].kind = call[k].kind /\ call'[k].id = call[k].id
          /\ call'[k].with = call[k].with /\ call'[k].gives = call[k].gives
      BY <2>1, <3>1, ToldBecomes
    <3> QED
      BY <2>3, <3>2, IdleShare
  <2> QED
    BY <2>2, <2>3
<1>2. call' \in [Call -> ShareCall]
  BY <1>1, <1>m
<1>3. ShareTyped'
  <2>1. shares' \in Seq(Shares!Share)
    BY <1>m
  <2> QED
    <3>1. \A k \in Call :
            /\ call'[k].at = "free" <=> call'[k] = Shares!Idle
            /\ call'[k].kind = "share" => call'[k].with \in User \cup {Link}
            /\ call'[k].kind = "revoke" => call'[k].id \in 1 .. lastId
            /\ call'[k].kind = "none" <=> call'[k].at = "free"
            /\ call'[k].at = "open" => call'[k].kind \in {"share", "revoke"}
            /\ call'[k].at # "free" => call'[k].told
      BY <1>0, <1>1 DEF ShareTyped
    <3>2. /\ stored \subseteq Shares!Share /\ IsFiniteSet(stored) /\ lastId \in 0 .. MaxShares
          /\ crossed \in BOOLEAN /\ missed \in BOOLEAN /\ stale \in BOOLEAN
      BY <1>0 DEF ShareTyped
    <3> QED
      BY <1>2, <1>n, <2>1, <3>1, <3>2 DEF ShareTyped
<1>4. \A k \in Call : /\ Makes(k)' <=> Makes(k)
                      /\ Made(k)' = Made(k)
                      /\ \A i : Removes(k, i)' <=> Removes(k, i)
  BY <1>1 DEF Makes, Made, Removes, Landed
<1>5. Fresh'
  <2>1. /\ \A s \in stored' : s.id <= lastId'
        /\ \A s \in ToSet(shares)' : s.id <= lastId'
        /\ \A o \in Call : \A s \in ToSet(call'[o].gives) : s.id <= lastId'
    BY <1>0, <1>1, <1>m, NoEntries DEF Fresh
  <2>2. /\ \A o \in Call : Makes(o)' => Len(call'[o].gives) = 1
        /\ \A o, p \in Call : o # p /\ Makes(o)' /\ Makes(p)' => Made(o)'.id # Made(p)'.id
    BY <1>0, <1>1, <1>4 DEF Fresh
  <2>3. ASSUME NEW o \in Call, Makes(o)', call'[o].at = "open"
        PROVE  /\ \A s \in stored' : s.id # Made(o)'.id
               /\ \A p \in Call : ~Removes(p, Made(o).id)'
    <3>1. Makes(o) /\ call[o].at = "open" /\ Made(o)' = Made(o)
      BY <1>1, <1>4, <2>3
    <3>2. /\ \A s \in stored : s.id # Made(o).id
          /\ \A p \in Call : ~Removes(p, Made(o).id)
      BY <1>0, <3>1 DEF Fresh
    <3>3. \A p \in Call : \A i : i = Made(o).id => ~Removes(p, i)'
      BY <1>4, <3>2
    <3>4. \A p \in Call : ~Removes(p, Made(o).id)'
      BY <3>1, <3>3 DEF Removes, Made
    <3> QED
      BY <1>m, <3>1, <3>2, <3>4
  <2> QED
    BY <2>1, <2>2, <2>3 DEF Fresh
<1> QED
  BY <1>3, <1>5, <1>m DEF ShareInv, Steady

\* What a request that has just been made leaves.
LEMMA Asked ==
  ASSUME ShareTyped, Fresh, NEW k \in Call, NEW c \in ShareCall, c.at = "sent", ~c.told,
         c.gives = <<>>, c.kind \in {"share", "revoke", "list"},
         c.kind = "share" => c.with \in User \cup {Link},
         c.kind = "revoke" => c.id \in 1 .. lastId,
         call[k].at = "free", call' = [call EXCEPT ![k] = c],
         stored' = stored, lastId' = lastId, shares' = shares,
         revoking' \in (1 .. MaxShares) \cup {None},
         crossed' \in BOOLEAN, missed' \in BOOLEAN, stale' \in BOOLEAN, open' = TRUE
  PROVE  /\ ShareTyped' /\ Fresh' /\ call'[k] = c
         /\ ~Makes(k) /\ ~Makes(k)' /\ ~Fetches(k) /\ ~Change(k)
         /\ \A i : ~Removes(k, i) /\ ~Removes(k, i)'
         /\ \A o \in Call \ {k} : /\ Makes(o)' <=> Makes(o)
                                  /\ \A i : Removes(o, i)' <=> Removes(o, i)
                                  /\ Change(o)' <=> Change(o)
                                  /\ Fetches(o)' <=> Fetches(o)
                                  /\ Made(o)' = Made(o) /\ call'[o] = call[o]
<1>1. ShareTyped' /\ call'[k] = c /\ \A o \in Call \ {k} : call'[o] = call[o]
  <2>1. /\ stored \subseteq Shares!Share /\ IsFiniteSet(stored) /\ lastId \in 0 .. MaxShares
        /\ shares \in Seq(Shares!Share)
    BY DEF ShareTyped
  <2>2. lastId \in Int /\ lastId <= lastId
    BY DEF ShareTyped
  <2>3. c # Shares!Idle /\ c.kind # "none" /\ c.at # "free"
    BY IdleShare
  <2> QED
    BY <2>1, <2>2, <2>3, ShareTypedBecomes
<1>2. \A o \in Call \ {k} : /\ Makes(o)' <=> Makes(o)
                            /\ \A i : Removes(o, i)' <=> Removes(o, i)
                            /\ Change(o)' <=> Change(o)
                            /\ Fetches(o)' <=> Fetches(o)
                            /\ Made(o)' = Made(o) /\ call'[o] = call[o]
  BY <1>1, OtherRequests
<1>3. /\ ~Makes(k) /\ ~Makes(k)' /\ ~Fetches(k) /\ ~Change(k)
      /\ \A i : ~Removes(k, i) /\ ~Removes(k, i)'
  <2>1. call[k].kind = "none"
    BY DEF ShareTyped
  <2> QED
    BY <1>1, <2>1 DEF Makes, Removes, Fetches, Change, Landed
<1>4. Fresh'
  <2>1. /\ \A s \in stored' : s.id <= lastId'
        /\ \A s \in ToSet(shares)' : s.id <= lastId'
        /\ \A o \in Call : \A s \in ToSet(call'[o].gives) : s.id <= lastId'
    BY <1>1, <1>2, NoEntries DEF Fresh
  <2>2. /\ \A o \in Call : Makes(o)' => Len(call'[o].gives) = 1
        /\ \A o, p \in Call : o # p /\ Makes(o)' /\ Makes(p)' => Made(o)'.id # Made(p)'.id
    BY <1>2, <1>3 DEF Fresh
  <2>3. ASSUME NEW o \in Call, Makes(o)', call'[o].at = "open"
        PROVE  /\ \A s \in stored' : s.id # Made(o)'.id
               /\ \A p \in Call : ~Removes(p, Made(o).id)'
    <3>1. o # k /\ Makes(o) /\ call[o].at = "open" /\ Made(o)' = Made(o)
      BY <1>2, <1>3, <2>3
    <3>2. /\ \A s \in stored : s.id # Made(o).id
          /\ \A p \in Call : ~Removes(p, Made(o).id)
      BY <3>1 DEF Fresh
    <3>3. \A p \in Call : \A i : i = Made(o).id => ~Removes(p, i)'
      BY <1>2, <1>3, <3>2
    <3>4. \A p \in Call : ~Removes(p, Made(o).id)'
      BY <3>1, <3>3 DEF Removes, Made
    <3> QED
      BY <3>1, <3>2, <3>4
  <2> QED
    BY <2>1, <2>2, <2>3 DEF Fresh
<1> QED
  BY <1>1, <1>2, <1>3, <1>4

\* The requests that the dialog makes.
LEMMA ListRequest ==
  \E c \in ShareCall :
    /\ c = [[Shares!Idle EXCEPT !.kind = "list"] EXCEPT !.at = "sent"]
    /\ c.at = "sent" /\ ~c.told /\ c.gives = <<>> /\ c.kind = "list"
<1>1. PICK b : b = [Shares!Idle EXCEPT !.kind = "list"]
  OBVIOUS
<1>2. b \in ShareCall /\ b.kind = "list" /\ ~b.told /\ b.gives = <<>>
  BY <1>1, IdleShare DEF ShareCall
<1>3. PICK c : c = [b EXCEPT !.at = "sent"]
  OBVIOUS
<1>4. c \in ShareCall /\ c.at = "sent" /\ ~c.told /\ c.gives = <<>> /\ c.kind = "list"
  BY <1>2, <1>3 DEF ShareCall
<1>5. c = [[Shares!Idle EXCEPT !.kind = "list"] EXCEPT !.at = "sent"]
  BY <1>1, <1>3, Zenon
<1> QED
  BY <1>4, <1>5, Zenon

LEMMA ShareRequest ==
  ASSUME NEW w \in User \cup {Link}
  PROVE  \E c \in ShareCall :
           /\ c = [[Shares!Idle EXCEPT !.kind = "share", !.with = w] EXCEPT !.at = "sent"]
           /\ c.at = "sent" /\ ~c.told /\ c.gives = <<>> /\ c.kind = "share" /\ c.with = w
<1>1. PICK b : b = [Shares!Idle EXCEPT !.kind = "share"]
  OBVIOUS
<1>2. b \in ShareCall /\ b.kind = "share" /\ ~b.told /\ b.gives = <<>>
  BY <1>1, IdleShare DEF ShareCall
<1>3. PICK d : d = [b EXCEPT !.with = w]
  OBVIOUS
<1>4. d \in ShareCall /\ d.kind = "share" /\ d.with = w /\ ~d.told /\ d.gives = <<>>
  BY <1>2, <1>3 DEF ShareCall
<1>5. PICK c : c = [d EXCEPT !.at = "sent"]
  OBVIOUS
<1>6. /\ c \in ShareCall /\ c.at = "sent" /\ ~c.told /\ c.gives = <<>> /\ c.kind = "share"
      /\ c.with = w
  BY <1>4, <1>5 DEF ShareCall
<1>7. c = [[Shares!Idle EXCEPT !.kind = "share", !.with = w] EXCEPT !.at = "sent"]
  BY <1>1, <1>3, <1>5, Zenon
<1> QED
  BY <1>6, <1>7, Zenon

LEMMA RevokeRequest ==
  ASSUME NEW i \in 1 .. MaxShares
  PROVE  \E c \in ShareCall :
           /\ c = [[Shares!Idle EXCEPT !.kind = "revoke", !.id = i] EXCEPT !.at = "sent"]
           /\ c.at = "sent" /\ ~c.told /\ c.gives = <<>> /\ c.kind = "revoke" /\ c.id = i
<1>1. PICK b : b = [Shares!Idle EXCEPT !.kind = "revoke"]
  OBVIOUS
<1>2. b \in ShareCall /\ b.kind = "revoke" /\ ~b.told /\ b.gives = <<>>
  BY <1>1, IdleShare DEF ShareCall
<1>3. PICK d : d = [b EXCEPT !.id = i]
  OBVIOUS
<1>4. d \in ShareCall /\ d.kind = "revoke" /\ d.id = i /\ ~d.told /\ d.gives = <<>>
  BY <1>2, <1>3 DEF ShareCall
<1>5. PICK c : c = [d EXCEPT !.at = "sent"]
  OBVIOUS
<1>6. /\ c \in ShareCall /\ c.at = "sent" /\ ~c.told /\ c.gives = <<>> /\ c.kind = "revoke"
      /\ c.id = i
  BY <1>4, <1>5 DEF ShareCall
<1>7. c = [[Shares!Idle EXCEPT !.kind = "revoke", !.id = i] EXCEPT !.at = "sent"]
  BY <1>1, <1>3, <1>5, Zenon
<1> QED
  BY <1>6, <1>7, Zenon

\* The dialog appears, and fetches the shares.
LEMMA OpenDialogKeeps ==
  ASSUME ShareInv, NEW k \in Call, Shares!OpenDialog(k) PROVE ShareInv'
<1>0. ShareTyped /\ Fresh
  BY DEF ShareInv
<1>1. PICK c \in ShareCall :
        /\ c = [[Shares!Idle EXCEPT !.kind = "list"] EXCEPT !.at = "sent"]
        /\ c.at = "sent" /\ ~c.told /\ c.gives = <<>> /\ c.kind = "list"
  BY ListRequest, Zenon
<1>2. c.at = "sent" /\ ~c.told /\ c.gives = <<>> /\ c.kind = "list"
  BY <1>1, Zenon
<1>3. call[k].at = "free" /\ call' = [call EXCEPT ![k] = c]
  BY <1>1 DEF Shares!OpenDialog, Shares!Ask
<1>4. /\ ~open /\ open' = TRUE /\ stored' = stored /\ lastId' = lastId
      /\ shares' = shares /\ revoking' = revoking
      /\ crossed' = (\E o \in Shares!Pending({"share", "revoke"}) : call[o].at \in {"sent", "open"})
      /\ missed' = FALSE /\ stale' = FALSE
  BY DEF Shares!OpenDialog, Shares!Ask, Shares!serverVars, Shares!Changes
<1>5. /\ crossed' \in BOOLEAN /\ missed' \in BOOLEAN /\ stale' \in BOOLEAN
      /\ revoking' \in (1 .. MaxShares) \cup {None} /\ shares = <<>>
      /\ \A o \in Call : call[o].at # "free" => call[o].told
  BY <1>0, <1>4 DEF ShareTyped
<1>6. /\ ShareTyped' /\ Fresh' /\ call'[k] = c
      /\ ~Makes(k) /\ ~Makes(k)' /\ ~Fetches(k) /\ ~Change(k)
      /\ \A i : ~Removes(k, i) /\ ~Removes(k, i)'
      /\ \A o \in Call \ {k} : /\ Makes(o)' <=> Makes(o)
                               /\ \A i : Removes(o, i)' <=> Removes(o, i)
                               /\ Change(o)' <=> Change(o)
                               /\ Fetches(o)' <=> Fetches(o)
                               /\ Made(o)' = Made(o) /\ call'[o] = call[o]
  BY <1>0, <1>2, <1>3, <1>4, <1>5, Asked
<1>7. ASSUME Steady' PROVE (ToldLanded /\ FetchesAlone /\ UnlistedStay /\ ListedOnce /\ Agree)'
  <2>1. \A o \in Call : Change(o)' => /\ o # k /\ Change(o) /\ call'[o] = call[o]
                                      /\ call[o].told /\ call[o].at \notin {"sent", "open"}
    <3>1. Fetches(k)' /\ ~Change(k)'
      BY <1>2, <1>6 DEF Fetches, Change
    <3>2. \A o \in Call : Change(o) => call[o].at \notin {"sent", "open"}
      BY <1>4, <1>7 DEF Steady, Change, Shares!Pending
    <3>3. \A o \in Call : Change(o) => call[o].at # "free"
      BY <1>0 DEF Change, ShareTyped
    <3> QED
      BY <1>5, <1>6, <3>1, <3>2, <3>3
  <2>2. ToldLanded'
    BY <2>1 DEF ToldLanded
  <2>3. FetchesAlone'
    <3>1. \A f \in Call : Fetches(f)' => f = k
      <4>1. \A f \in Call : Fetches(f) => call[f].at # "free"
        BY <1>0 DEF Fetches, ShareTyped
      <4>2. \A f \in Call : ~Fetches(f)
        BY <1>5, <4>1 DEF Fetches
      <4> QED
        BY <1>6, <4>2
    <3>2. call'[k].at # "done"
      BY <1>2, <1>6
    <3> QED
      BY <2>1, <3>1, <3>2 DEF FetchesAlone
  <2>4. UnlistedStay'
    <3>1. \A o \in Call : Makes(o)' => call'[o].told
      BY <2>1 DEF Makes, Change
    <3> QED
      BY <3>1 DEF UnlistedStay
  <2>5. ListedOnce'
    BY <1>4, <1>5, NoEntries DEF ListedOnce
  <2>6. Agree'
    BY <1>2, <1>6 DEF Agree, Fetches
  <2> QED
    BY <2>2, <2>3, <2>4, <2>5, <2>6
<1> QED
  BY <1>6, <1>7 DEF ShareInv

\* A change is asked for; unless a fetch is under way the dialog stays steady.
LEMMA ChangeAsked ==
  ASSUME ShareInv, NEW k \in Call, NEW c \in ShareCall, c.at = "sent", ~c.told,
         c.gives = <<>>, c.kind \in {"share", "revoke"},
         c.kind = "share" => c.with \in User \cup {Link},
         c.kind = "revoke" => \E s \in ToSet(shares) : c.id = s.id,
         call[k].at = "free", call' = [call EXCEPT ![k] = c], open,
         stored' = stored, lastId' = lastId, shares' = shares, open' = open,
         missed' = missed, stale' = stale,
         revoking' \in (1 .. MaxShares) \cup {None}, crossed' \in BOOLEAN,
         ~crossed' => ~crossed /\ \A f \in Call : ~Fetches(f)
  PROVE  ShareInv'
<1>0. ShareTyped /\ Fresh
  BY DEF ShareInv
<1>1. c.kind = "revoke" => c.id \in 1 .. lastId
  <2>1. ToSet(shares) \subseteq Shares!Share /\ lastId \in Int
    BY <1>0, Entries DEF ShareTyped
  <2>2. \A s \in Shares!Share : s.id \in Int /\ 1 <= s.id
    BY DEF Shares!Share
  <2>3. \A s \in ToSet(shares) : s.id \in Int /\ 1 <= s.id /\ s.id <= lastId
    BY <1>0, <2>1, <2>2 DEF Fresh
  <2> QED
    BY <2>1, <2>3
<1>2. missed' \in BOOLEAN /\ stale' \in BOOLEAN /\ open' = TRUE
  BY <1>0 DEF ShareTyped
<1>3. /\ ShareTyped' /\ Fresh' /\ call'[k] = c
      /\ ~Makes(k) /\ ~Makes(k)' /\ ~Fetches(k) /\ ~Change(k)
      /\ \A i : ~Removes(k, i) /\ ~Removes(k, i)'
      /\ \A o \in Call \ {k} : /\ Makes(o)' <=> Makes(o)
                               /\ \A i : Removes(o, i)' <=> Removes(o, i)
                               /\ Change(o)' <=> Change(o)
                               /\ Fetches(o)' <=> Fetches(o)
                               /\ Made(o)' = Made(o) /\ call'[o] = call[o]
  BY <1>0, <1>1, <1>2, Asked
<1>4. ASSUME Steady' PROVE (ToldLanded /\ FetchesAlone /\ UnlistedStay /\ ListedOnce /\ Agree)'
  <2>1. /\ ToldLanded /\ FetchesAlone /\ UnlistedStay /\ ListedOnce /\ Agree
        /\ \A f \in Call : ~Fetches(f)
    BY <1>4 DEF Steady, ShareInv
  <2>2. \A f \in Call : ~Fetches(f)'
    BY <1>3, <2>1 DEF Fetches
  <2>3. FetchesAlone'
    BY <2>2 DEF FetchesAlone
  <2>4. ToldLanded' /\ ListedOnce'
    BY <1>3, <2>1 DEF ToldLanded, ListedOnce
  <2>5. UnlistedStay'
    <3>1. \A o \in Call : Makes(o)' => o # k /\ Makes(o) /\ Made(o)' = Made(o) /\ call'[o] = call[o]
      BY <1>3
    <3>2. c.kind = "revoke" =>
            \A o \in Call : Makes(o) /\ ~call[o].told => c.id # Made(o).id
      BY <2>1 DEF UnlistedStay
    <3>3. \A o, p \in Call : Makes(o) /\ ~call[o].told /\ call'[p].kind = "revoke" =>
                               call'[p].id # Made(o).id
      BY <1>3, <2>1, <3>2 DEF UnlistedStay
    <3> QED
      BY <2>1, <3>1, <3>3 DEF UnlistedStay
  <2>6. ASSUME NEW s \in Shares!Share
        PROVE  (WillBeStored(s)' <=> WillBeStored(s)) /\ (WillBeListed(s)' <=> WillBeListed(s))
    BY <1>3 DEF WillBeStored, WillBeListed
  <2>7. Agree'
    BY <2>1, <2>6 DEF Agree
  <2> QED
    BY <2>3, <2>1, <2>4, <2>5, <2>7
<1> QED
  BY <1>3, <1>4 DEF ShareInv

\* What the buttons, and Enter in the field, ask for.
AskedFor(k, w) ==
  /\ open /\ call[k].at = "free"
  /\ stored' = stored /\ lastId' = lastId /\ shares' = shares /\ open' = open
  /\ missed' = missed /\ stale' = stale /\ revoking' = revoking /\ UNCHANGED Shares!toldVars
  /\ (crossed' = crossed /\ ~Shares!Loading) \/ crossed' = (crossed \/ Shares!Fetching)
  /\ call' = [call EXCEPT ![k] =
                [[Shares!Idle EXCEPT !.kind = "share", !.with = w] EXCEPT !.at = "sent"]]

LEMMA LinkAsked == ASSUME NEW k, Shares!PressLink(k) PROVE AskedFor(k, Link)
<1>1. /\ Shares!Pressable /\ Shares!Ask(k, [Shares!Idle EXCEPT !.kind = "share", !.with = Link])
      /\ UNCHANGED Shares!dialogVars /\ UNCHANGED Shares!toldVars /\ UNCHANGED Shares!noteVars
  BY DEF Shares!PressLink
<1> QED
  BY <1>1 DEF AskedFor, Shares!Pressable, Shares!Ask, Shares!serverVars, Shares!dialogVars, Shares!noteVars

LEMMA PressAsked == ASSUME NEW k, NEW w, Shares!PressShare(k, w) PROVE AskedFor(k, w)
<1>1. /\ Shares!Pressable /\ Shares!Ask(k, [Shares!Idle EXCEPT !.kind = "share", !.with = w])
      /\ UNCHANGED Shares!dialogVars /\ UNCHANGED Shares!toldVars /\ UNCHANGED Shares!noteVars
  BY DEF Shares!PressShare
<1> QED
  BY <1>1 DEF AskedFor, Shares!Pressable, Shares!Ask, Shares!serverVars, Shares!dialogVars, Shares!noteVars

LEMMA EnterAsked == ASSUME NEW k, NEW w, Shares!Enter(k, w) PROVE AskedFor(k, w)
<1>1. /\ open /\ Shares!Ask(k, [Shares!Idle EXCEPT !.kind = "share", !.with = w])
      /\ UNCHANGED Shares!dialogVars /\ UNCHANGED Shares!toldVars
      /\ missed' = missed /\ stale' = stale /\ crossed' = (crossed \/ Shares!Fetching)
  BY DEF Shares!Enter
<1> QED
  BY <1>1 DEF AskedFor, Shares!Ask, Shares!serverVars, Shares!dialogVars

LEMMA ShareAsked ==
  ASSUME NEW k,
         \/ Shares!PressLink(k)
         \/ \E w \in User : Shares!PressShare(k, w) \/ Shares!Enter(k, w)
  PROVE  \E w \in User \cup {Link} : AskedFor(k, w)
BY LinkAsked, PressAsked, EnterAsked

\* The buttons, and Enter in the field.
LEMMA ShareAsksKeep ==
  ASSUME ShareInv, NEW k \in Call,
         NEW w \in User \cup {Link}, AskedFor(k, w)
  PROVE  ShareInv'
<1>0. ShareTyped
  BY DEF ShareInv
<1>1. /\ open /\ call[k].at = "free"
      /\ stored' = stored /\ lastId' = lastId /\ shares' = shares /\ open' = open
      /\ missed' = missed /\ stale' = stale /\ revoking' = revoking
      /\ (crossed' = crossed /\ ~Shares!Loading) \/ crossed' = (crossed \/ Shares!Fetching)
  BY DEF AskedFor
<1>2. crossed' \in BOOLEAN /\ (~crossed' => ~crossed /\ \A f \in Call : ~Fetches(f))
  <2>1. CASE crossed' = (crossed \/ Shares!Fetching)
    BY <1>0, <2>1 DEF Shares!Fetching, Shares!Pending, Fetches, ShareTyped
  <2>2. CASE crossed' = crossed /\ ~Shares!Loading
    <3>1. \A f \in Call : ~Fetches(f)
      BY <1>0, <2>2 DEF Shares!Loading, Fetches, ShareTyped
    <3> QED
      BY <1>0, <2>2, <3>1 DEF ShareTyped
  <2> QED
    BY <1>1, <2>1, <2>2
<1>3. call' = [call EXCEPT ![k] =
                [[Shares!Idle EXCEPT !.kind = "share", !.with = w] EXCEPT !.at = "sent"]]
  BY DEF AskedFor
<1>4. PICK c \in ShareCall :
        /\ c = [[Shares!Idle EXCEPT !.kind = "share", !.with = w] EXCEPT !.at = "sent"]
        /\ c.at = "sent" /\ ~c.told /\ c.gives = <<>> /\ c.kind = "share" /\ c.with = w
  BY ShareRequest, Zenon
<1>5. c.at = "sent" /\ ~c.told /\ c.gives = <<>> /\ c.kind = "share" /\ c.with = w
  BY <1>4, Zenon
<1>7. call' = [call EXCEPT ![k] = c]
  BY <1>3, <1>4, Zenon
<1>6. revoking \in (1 .. MaxShares) \cup {None}
  BY <1>0 DEF ShareTyped
<1> QED
  BY <1>1, <1>2, <1>5, <1>6, <1>7, ChangeAsked

\* The button of a share in the list.
LEMMA AskRevokeKeeps ==
  ASSUME ShareInv, NEW k \in Call, NEW s \in ToSet(shares), Shares!Revoke(k, s)
  PROVE  ShareInv'
<1>0. ShareTyped
  BY DEF ShareInv
<1>1. /\ open /\ call[k].at = "free"
      /\ stored' = stored /\ lastId' = lastId /\ shares' = shares /\ open' = open
      /\ missed' = missed /\ stale' = stale /\ revoking' = s.id
      /\ crossed' = (crossed \/ Shares!Fetching)
  BY DEF Shares!Revoke, Shares!Revocable, Shares!Ask, Shares!serverVars
<1>2. crossed' \in BOOLEAN /\ (~crossed' => ~crossed /\ \A f \in Call : ~Fetches(f))
  BY <1>0, <1>1 DEF Shares!Fetching, Shares!Pending, Fetches, ShareTyped
<1>3. s.id \in 1 .. MaxShares
  <2>1. ToSet(shares) \subseteq Shares!Share
    BY <1>0, Entries DEF ShareTyped
  <2> QED
    BY <2>1 DEF Shares!Share
<1>4. PICK c \in ShareCall :
        /\ c = [[Shares!Idle EXCEPT !.kind = "revoke", !.id = s.id] EXCEPT !.at = "sent"]
        /\ c.at = "sent" /\ ~c.told /\ c.gives = <<>> /\ c.kind = "revoke" /\ c.id = s.id
  BY <1>3, RevokeRequest, Zenon
<1>5. c.at = "sent" /\ ~c.told /\ c.gives = <<>> /\ c.kind = "revoke" /\ c.id = s.id
  BY <1>4, Zenon
<1>6. call' = [call EXCEPT ![k] = c]
  BY <1>4 DEF Shares!Revoke, Shares!Ask
<1> QED
  BY <1>1, <1>2, <1>3, <1>5, <1>6, ChangeAsked

\* What the answer to a request leaves.
LEMMA AnsweredBecomes ==
  ASSUME ShareTyped, Fresh, NEW k \in Call, call[k].at \in {"open", "done"}, ~call[k].told,
         call' = [call EXCEPT ![k] = IF @.at = "open" THEN [@ EXCEPT !.told = TRUE]
                                     ELSE Shares!Idle],
         stored' = stored, lastId' = lastId, open' = open, crossed' = crossed,
         missed' = missed, stale' = stale, revoking' \in (1 .. MaxShares) \cup {None},
         shares' \in Seq(Shares!Share), \A s \in ToSet(shares') : s.id <= lastId
  PROVE  /\ ShareTyped' /\ Fresh' /\ Landed(k)
         /\ Makes(k)' <=> Makes(k) /\ call[k].at = "open"
         /\ \A i : Removes(k, i)' <=> Removes(k, i) /\ call[k].at = "open"
         /\ Makes(k)' => Made(k)' = Made(k)
         /\ Change(k)' => call'[k].told /\ call'[k].at = "open" /\ Change(k)
         /\ ~Fetches(k)' /\ (call'[k].at = "open" <=> call[k].at = "open")
         /\ call'[k].kind = "revoke" => call[k].kind = "revoke" /\ call'[k].id = call[k].id
         /\ call'[k].at = "open" => call'[k].told
         /\ \A o \in Call \ {k} : /\ Makes(o)' <=> Makes(o)
                                  /\ \A i : Removes(o, i)' <=> Removes(o, i)
                                  /\ Change(o)' <=> Change(o)
                                  /\ Fetches(o)' <=> Fetches(o)
                                  /\ Made(o)' = Made(o) /\ call'[o] = call[o]
<1>1. PICK c : c = IF call[k].at = "open" THEN [call[k] EXCEPT !.told = TRUE] ELSE Shares!Idle
  OBVIOUS
<1>2. call' = [call EXCEPT ![k] = c]
  BY <1>1 DEF ShareTyped
<1>3. call[k].at = "open" =>
        /\ c \in ShareCall /\ c.told /\ c.kind = call[k].kind /\ c.with = call[k].with
        /\ c.id = call[k].id /\ c.at = "open" /\ c.gives = call[k].gives
        /\ c.kind \in {"share", "revoke"}
  <2>1. ASSUME call[k].at = "open" PROVE c = [call[k] EXCEPT !.told = TRUE]
    BY <1>1, <2>1
  <2>2. call[k] \in ShareCall /\ (call[k].at = "open" => call[k].kind \in {"share", "revoke"})
    BY DEF ShareTyped
  <2> QED
    BY <2>1, <2>2, ToldBecomes
<1>4. call[k].at = "done" =>
        c = Shares!Idle /\ c.at = "free" /\ c.kind = "none" /\ c.gives = <<>> /\ c \in ShareCall
  BY <1>1, IdleShare
<1>5. ShareTyped' /\ call'[k] = c /\ \A o \in Call \ {k} : call'[o] = call[o]
  <2>1. /\ stored \subseteq Shares!Share /\ IsFiniteSet(stored) /\ lastId \in 0 .. MaxShares
        /\ open = TRUE /\ crossed \in BOOLEAN /\ missed \in BOOLEAN /\ stale \in BOOLEAN
    BY DEF ShareTyped
  <2>2. lastId \in Int /\ lastId <= lastId
    BY DEF ShareTyped
  <2>3. /\ c \in ShareCall /\ (c.at = "free" <=> c = Shares!Idle)
        /\ c.kind = "share" => c.with \in User \cup {Link}
        /\ c.kind = "revoke" => c.id \in 1 .. lastId
        /\ c.kind = "none" <=> c.at = "free"
        /\ c.at = "open" => c.kind \in {"share", "revoke"}
    BY <1>3, <1>4, IdleShare DEF ShareTyped
  <2> QED
    BY <1>2, <2>1, <2>2, <2>3, ShareTypedBecomes
<1>6. \A o \in Call \ {k} : /\ Makes(o)' <=> Makes(o)
                            /\ \A i : Removes(o, i)' <=> Removes(o, i)
                            /\ Change(o)' <=> Change(o)
                            /\ Fetches(o)' <=> Fetches(o)
                            /\ Made(o)' = Made(o) /\ call'[o] = call[o]
  BY <1>5, OtherRequests
<1>7. /\ Landed(k)
      /\ Makes(k)' <=> Makes(k) /\ call[k].at = "open"
      /\ \A i : Removes(k, i)' <=> Removes(k, i) /\ call[k].at = "open"
      /\ Makes(k)' => Made(k)' = Made(k)
      /\ Change(k)' => call'[k].told /\ call'[k].at = "open" /\ Change(k)
      /\ ~Fetches(k)' /\ (call'[k].at = "open" <=> call[k].at = "open")
      /\ call'[k].kind = "revoke" => call[k].kind = "revoke" /\ call'[k].id = call[k].id
      /\ call'[k].at = "open" => call'[k].told
      /\ call'[k].gives = call[k].gives \/ call'[k].gives = <<>>
      /\ Makes(k)' => call'[k].gives = call[k].gives
  BY <1>3, <1>4, <1>5 DEF Landed, Makes, Removes, Made, Change, Fetches
<1>8. Fresh'
  <2>1. /\ \A s \in stored' : s.id <= lastId'
        /\ \A s \in ToSet(shares)' : s.id <= lastId'
        /\ \A o \in Call : \A s \in ToSet(call'[o].gives) : s.id <= lastId'
    BY <1>6, <1>7, NoEntries DEF Fresh
  <2>2. /\ \A o \in Call : Makes(o)' => Len(call'[o].gives) = 1
        /\ \A o, p \in Call : o # p /\ Makes(o)' /\ Makes(p)' => Made(o)'.id # Made(p)'.id
    <3>1. \A o \in Call : Makes(o)' => Makes(o) /\ Made(o)' = Made(o) /\ call'[o].gives = call[o].gives
      BY <1>6, <1>7
    <3> QED
      BY <3>1 DEF Fresh
  <2>3. ASSUME NEW o \in Call, Makes(o)', call'[o].at = "open"
        PROVE  /\ \A s \in stored' : s.id # Made(o)'.id
               /\ \A p \in Call : ~Removes(p, Made(o).id)'
    <3>1. Makes(o) /\ call[o].at = "open" /\ Made(o)' = Made(o)
      BY <1>6, <1>7, <2>3
    <3>2. /\ \A s \in stored : s.id # Made(o).id
          /\ \A p \in Call : ~Removes(p, Made(o).id)
      BY <3>1 DEF Fresh
    <3>3. \A p \in Call : \A i : i = Made(o).id => ~Removes(p, i)'
      BY <1>6, <1>7, <3>2
    <3>4. \A p \in Call : ~Removes(p, Made(o).id)'
      BY <3>1, <3>3 DEF Removes, Made
    <3> QED
      BY <3>1, <3>2, <3>4
  <2> QED
    BY <2>1, <2>2, <2>3 DEF Fresh
<1> QED
  BY <1>5, <1>6, <1>7, <1>8

\* The answer to a share is applied.
LEMMA ApplyShareKeeps ==
  ASSUME ShareInv, NEW k \in Call, Shares!ApplyShare(k) PROVE ShareInv'
<1>0. ShareTyped /\ Fresh
  BY DEF ShareInv
<1>m. /\ call[k].kind = "share" /\ ~call[k].told /\ call[k].at \in {"open", "done"}
      /\ stored' = stored /\ lastId' = lastId /\ open' = open /\ revoking' = revoking
      /\ crossed' = crossed /\ missed' = missed /\ stale' = stale
      /\ shares' = call[k].gives \o shares
  BY DEF Shares!ApplyShare, Shares!Answered, Shares!serverVars, Shares!noteVars
<1>1. /\ Makes(k) /\ Change(k) /\ \A i : ~Removes(k, i)
  BY <1>m DEF Makes, Change, Removes, Landed
<1>2. /\ Len(call[k].gives) = 1 /\ call[k].gives \in Seq(Shares!Share) /\ shares \in Seq(Shares!Share)
      /\ Made(k) = call[k].gives[1] /\ Made(k) \in Shares!Share /\ Made(k).id <= lastId
  BY <1>0, <1>1, MadeIs, ShareCallTyped DEF Fresh, Made, ShareTyped
<1>3. /\ shares' \in Seq(Shares!Share) /\ ToSet(shares') = {Made(k)} \cup ToSet(shares)
      /\ IsInjective(shares) /\ Made(k) \notin ToSet(shares) => IsInjective(shares')
  <2>1. PICK q, s, t : q = call[k].gives /\ s = shares /\ t = shares'
    OBVIOUS
  <2>2. q \in Seq(Shares!Share) /\ s \in Seq(Shares!Share) /\ Len(q) = 1 /\ t = q \o s
    BY <1>2, <1>m, <2>1
  <2>3. /\ t \in Seq(Shares!Share) /\ ToSet(t) = {q[1]} \cup ToSet(s)
        /\ IsInjective(s) /\ q[1] \notin ToSet(s) => IsInjective(t)
    BY <2>2, Prepended, Zenon
  <2> QED
    BY <1>2, <2>1, <2>3
<1>4. \A s \in ToSet(shares') : s.id <= lastId
  BY <1>0, <1>2, <1>3 DEF Fresh
<1>5. revoking' \in (1 .. MaxShares) \cup {None}
  BY <1>0, <1>m DEF ShareTyped
<1>6. /\ ShareTyped' /\ Fresh'
      /\ Makes(k)' <=> call[k].at = "open"
      /\ \A i : ~Removes(k, i)'
      /\ Makes(k)' => Made(k)' = Made(k)
      /\ Change(k)' => call'[k].told /\ call'[k].at = "open"
      /\ ~Fetches(k)' /\ (call'[k].at = "open" <=> call[k].at = "open")
      /\ call'[k].kind # "revoke" /\ (call'[k].at = "open" => call'[k].told)
  <2>1. call' = [call EXCEPT ![k] = IF @.at = "open" THEN [@ EXCEPT !.told = TRUE]
                                    ELSE Shares!Idle]
    BY DEF Shares!ApplyShare, Shares!Answered
  <2> QED
    BY <1>0, <1>1, <1>3, <1>4, <1>5, <1>m, <2>1, AnsweredBecomes
<1>7. \A o \in Call \ {k} : /\ Makes(o)' <=> Makes(o)
                            /\ \A i : Removes(o, i)' <=> Removes(o, i)
                            /\ Change(o)' <=> Change(o)
                            /\ Fetches(o)' <=> Fetches(o)
                            /\ Made(o)' = Made(o) /\ call'[o] = call[o]
  <2>1. call' = [call EXCEPT ![k] = IF @.at = "open" THEN [@ EXCEPT !.told = TRUE]
                                    ELSE Shares!Idle]
    BY DEF Shares!ApplyShare, Shares!Answered
  <2> QED
    BY <1>0, <1>3, <1>4, <1>5, <1>m, <2>1, AnsweredBecomes
<1>8. ASSUME Steady' PROVE (ToldLanded /\ FetchesAlone /\ UnlistedStay /\ ListedOnce /\ Agree)'
  <2>1. ToldLanded /\ FetchesAlone /\ UnlistedStay /\ ListedOnce /\ Agree
    BY <1>8, <1>m DEF Steady, ShareInv
  <2>2. \A f \in Call : ~Fetches(f)
    BY <1>1, <1>m, <2>1, NothingFetched
  <2>3. (\A f \in Call : ~Fetches(f)') /\ FetchesAlone'
    BY <1>6, <1>7, <2>2 DEF FetchesAlone
  <2>4. ToldLanded'
    BY <1>6, <1>7, <2>1 DEF ToldLanded
  <2>5. ListedOnce'
    <3>1. Made(k) \notin ToSet(shares)
      BY <1>1, <1>m, <2>1 DEF UnlistedStay
    <3> QED
      BY <1>3, <2>1, <3>1 DEF ListedOnce
  <2>6. UnlistedStay'
    <3>1. ASSUME NEW o \in Call, Makes(o)', ~call'[o].told
          PROVE  o # k /\ Makes(o) /\ ~call[o].told /\ Made(o)' = Made(o) /\ Made(k).id # Made(o).id
      <4>1. o # k
        BY <1>6, <3>1
      <4>2. Makes(o) /\ ~call[o].told /\ Made(o)' = Made(o)
        BY <1>7, <3>1, <4>1
      <4> QED
        BY <1>0, <1>1, <4>1, <4>2 DEF Fresh
    <3>2. \A p \in Call : call'[p].kind = "revoke" => p # k /\ call'[p] = call[p]
      BY <1>6, <1>7
    <3>3. ASSUME NEW o \in Call, Makes(o)', ~call'[o].told
          PROVE  /\ \A s \in ToSet(shares') : s.id # Made(o)'.id
                 /\ \A p \in Call : call'[p].kind = "revoke" => call'[p].id # Made(o)'.id
      BY <1>3, <2>1, <3>1, <3>2, <3>3 DEF UnlistedStay
    <3> QED
      BY <3>3 DEF UnlistedStay
  <2>7. ASSUME NEW s \in Shares!Share
        PROVE  (WillBeStored(s)' <=> WillBeStored(s)) /\ (WillBeListed(s)' <=> WillBeListed(s))
    <3>1. WillBeStored(s)' <=> WillBeStored(s)
      BY <1>1, <1>6, <1>7, <1>m DEF WillBeStored
    <3>2. WillBeListed(s)' <=> WillBeListed(s)
      BY <1>1, <1>3, <1>6, <1>7, <1>m DEF WillBeListed
    <3> QED
      BY <3>1, <3>2
  <2>8. Agree'
    BY <2>1, <2>2, <2>7 DEF Agree
  <2> QED
    BY <2>3, <2>4, <2>5, <2>6, <2>8
<1> QED
  BY <1>6, <1>8 DEF ShareInv

\* The answer to a revocation is applied.
LEMMA ApplyRevokeKeeps ==
  ASSUME ShareInv, NEW k \in Call, Shares!ApplyRevoke(k) PROVE ShareInv'
<1>0. ShareTyped /\ Fresh
  BY DEF ShareInv
<1>m. /\ call[k].kind = "revoke" /\ ~call[k].told /\ call[k].at \in {"open", "done"}
      /\ stored' = stored /\ lastId' = lastId /\ open' = open /\ revoking' = None
      /\ crossed' = crossed /\ missed' = missed /\ stale' = stale
      /\ shares' = Keep(shares, {s \in ToSet(shares) : s.id # call[k].id})
  BY SameLists DEF Shares!ApplyRevoke, Shares!Answered, Shares!serverVars, Shares!noteVars
<1>1. /\ ~Makes(k) /\ Change(k) /\ \A i : Removes(k, i) <=> i = call[k].id
  BY <1>m DEF Makes, Change, Removes, Landed
<1>2. /\ shares' \in Seq(Shares!Share)
      /\ ToSet(shares') = {s \in ToSet(shares) : s.id # call[k].id}
      /\ IsInjective(shares) => IsInjective(shares')
  <2>1. PICK T : T = {s \in ToSet(shares) : s.id # call[k].id}
    OBVIOUS
  <2>2. shares \in Seq(Shares!Share) /\ shares' = Keep(shares, T)
    BY <1>0, <1>m, <2>1 DEF ShareTyped
  <2>3. /\ shares' \in Seq(Shares!Share) /\ ToSet(shares') = ToSet(shares) \cap T
        /\ IsInjective(shares) => IsInjective(shares')
    BY <2>2, Kept, Zenon
  <2> QED
    BY <2>1, <2>3
<1>3. \A s \in ToSet(shares') : s.id <= lastId
  BY <1>0, <1>2 DEF Fresh
<1>4. revoking' \in (1 .. MaxShares) \cup {None}
  BY <1>m
<1>5. /\ ShareTyped' /\ Fresh' /\ ~Makes(k)'
      /\ \A i : Removes(k, i)' <=> Removes(k, i) /\ call[k].at = "open"
      /\ Change(k)' => call'[k].told /\ call'[k].at = "open"
      /\ ~Fetches(k)' /\ (call'[k].at = "open" <=> call[k].at = "open")
      /\ call'[k].kind = "revoke" => call'[k].id = call[k].id
      /\ call'[k].at = "open" => call'[k].told
      /\ \A o \in Call \ {k} : /\ Makes(o)' <=> Makes(o)
                               /\ \A i : Removes(o, i)' <=> Removes(o, i)
                               /\ Change(o)' <=> Change(o)
                               /\ Fetches(o)' <=> Fetches(o)
                               /\ Made(o)' = Made(o) /\ call'[o] = call[o]
  <2>1. call' = [call EXCEPT ![k] = IF @.at = "open" THEN [@ EXCEPT !.told = TRUE]
                                    ELSE Shares!Idle]
    BY DEF Shares!ApplyRevoke, Shares!Answered
  <2> QED
    BY <1>0, <1>1, <1>2, <1>3, <1>4, <1>m, <2>1, AnsweredBecomes
<1>6. ASSUME Steady' PROVE (ToldLanded /\ FetchesAlone /\ UnlistedStay /\ ListedOnce /\ Agree)'
  <2>1. ToldLanded /\ FetchesAlone /\ UnlistedStay /\ ListedOnce /\ Agree
    BY <1>6, <1>m DEF Steady, ShareInv
  <2>2. \A f \in Call : ~Fetches(f)
    BY <1>1, <1>m, <2>1, NothingFetched
  <2>3. (\A f \in Call : ~Fetches(f)') /\ FetchesAlone'
    BY <1>5, <2>2 DEF FetchesAlone
  <2>4. ToldLanded'
    BY <1>5, <2>1 DEF ToldLanded
  <2>5. ListedOnce'
    BY <1>2, <2>1 DEF ListedOnce
  <2>6. \A o \in Call : Makes(o)' => o # k /\ Makes(o) /\ Made(o)' = Made(o) /\ call'[o] = call[o]
    BY <1>5
  <2>7. UnlistedStay'
    <3>1. ASSUME NEW o \in Call, Makes(o)', ~call'[o].told
          PROVE  /\ \A s \in ToSet(shares') : s.id # Made(o)'.id
                 /\ \A p \in Call : call'[p].kind = "revoke" => call'[p].id # Made(o)'.id
      <4>1. /\ \A s \in ToSet(shares) : s.id # Made(o).id
            /\ \A p \in Call : call[p].kind = "revoke" => call[p].id # Made(o).id
        BY <2>1, <2>6, <3>1 DEF UnlistedStay
      <4>2. \A p \in Call : call'[p].kind = "revoke" => call[p].kind = "revoke" /\ call'[p].id = call[p].id
        BY <1>5, <1>m
      <4> QED
        BY <1>2, <2>6, <3>1, <4>1, <4>2
    <3> QED
      BY <3>1 DEF UnlistedStay
  <2>8. ASSUME NEW s \in Shares!Share
        PROVE  (WillBeStored(s)' <=> WillBeStored(s)) /\ (WillBeListed(s)' <=> WillBeListed(s))
    <3>1. WillBeStored(s)' <=> WillBeStored(s)
      BY <1>1, <1>5, <1>m DEF WillBeStored
    <3>2. CASE s.id = call[k].id
      <4>1. ~WillBeListed(s)
        BY <1>1, <1>m, <3>2 DEF WillBeListed
      <4>2. s \notin ToSet(shares')
        BY <1>2, <3>2
      <4>3. \A o \in Call : Makes(o)' /\ ~call'[o].told => Made(o)' # s
        BY <1>m, <2>1, <2>6, <3>2 DEF UnlistedStay
      <4>4. ~WillBeListed(s)'
        BY <4>2, <4>3 DEF WillBeListed
      <4> QED
        BY <3>1, <4>1, <4>4
    <3>3. CASE s.id # call[k].id
      <4>1. s \in ToSet(shares') <=> s \in ToSet(shares)
        BY <1>2, <3>3
      <4>2. ~Removes(k, s.id) /\ ~Removes(k, s.id)'
        BY <1>1, <1>5, <3>3
      <4>3. WillBeListed(s)' <=> WillBeListed(s)
        BY <1>1, <1>5, <4>1, <4>2 DEF WillBeListed
      <4> QED
        BY <3>1, <4>3
    <3> QED
      BY <3>2, <3>3
  <2>9. Agree'
    BY <2>1, <2>2, <2>8 DEF Agree
  <2> QED
    BY <2>3, <2>4, <2>5, <2>7, <2>9
<1> QED
  BY <1>5, <1>6 DEF ShareInv

\* The shares that were fetched are shown.
LEMMA ApplyListKeeps ==
  ASSUME ShareInv, NEW k \in Call, Shares!ApplyList(k) PROVE ShareInv'
<1>0. ShareTyped /\ Fresh
  BY DEF ShareInv
<1>m. /\ call[k].kind = "list" /\ ~call[k].told /\ call[k].at = "done"
      /\ stored' = stored /\ lastId' = lastId /\ open' = open /\ revoking' = revoking
      /\ crossed' = crossed /\ missed' = missed /\ stale' = stale
      /\ shares' = call[k].gives
  <2>1. call[k].at # "open"
    BY <1>0 DEF Shares!ApplyList, Shares!Answered, ShareTyped
  <2> QED
    BY <2>1 DEF Shares!ApplyList, Shares!Answered, Shares!serverVars, Shares!noteVars
<1>1. /\ ~Makes(k) /\ ~Change(k) /\ Fetches(k) /\ \A i : ~Removes(k, i)
  BY <1>m DEF Makes, Change, Fetches, Removes, Landed
<1>2. /\ shares' \in Seq(Shares!Share) /\ \A s \in ToSet(shares') : s.id <= lastId
  BY <1>0, <1>m, ShareCallTyped DEF Fresh
<1>4. revoking' \in (1 .. MaxShares) \cup {None}
  BY <1>0, <1>m DEF ShareTyped
<1>5. /\ ShareTyped' /\ Fresh' /\ ~Makes(k)' /\ \A i : ~Removes(k, i)'
      /\ ~Change(k)' /\ ~Fetches(k)' /\ call'[k].kind # "revoke"
      /\ \A o \in Call \ {k} : /\ Makes(o)' <=> Makes(o)
                               /\ \A i : Removes(o, i)' <=> Removes(o, i)
                               /\ Change(o)' <=> Change(o)
                               /\ Fetches(o)' <=> Fetches(o)
                               /\ Made(o)' = Made(o) /\ call'[o] = call[o]
  <2>1. call' = [call EXCEPT ![k] = IF @.at = "open" THEN [@ EXCEPT !.told = TRUE]
                                    ELSE Shares!Idle]
    BY DEF Shares!ApplyList, Shares!Answered
  <2> QED
    BY <1>0, <1>1, <1>2, <1>4, <1>m, <2>1, AnsweredBecomes
<1>6. ASSUME Steady' PROVE (ToldLanded /\ FetchesAlone /\ UnlistedStay /\ ListedOnce /\ Agree)'
  <2>1. ToldLanded /\ FetchesAlone /\ UnlistedStay /\ ListedOnce /\ Agree
    BY <1>6, <1>m DEF Steady, ShareInv
  <2>2. /\ \A o \in Call : Change(o) => call[o].told /\ call[o].at # "open"
        /\ ToSet(shares') = stored /\ IsInjective(shares')
    BY <1>1, <1>m, <2>1 DEF FetchesAlone
  <2>3. \A o \in Call : Change(o)' => call'[o].told /\ call'[o].at # "open" /\ call'[o] = call[o]
    BY <1>5, <2>2
  <2>4. ToldLanded'
    BY <1>5, <2>1 DEF ToldLanded
  <2>5. FetchesAlone'
    BY <1>5, <1>m, <2>1, <2>3 DEF FetchesAlone
  <2>6. UnlistedStay' /\ ListedOnce'
    BY <2>2, <2>3 DEF UnlistedStay, ListedOnce, Makes, Change
  <2>7. ASSUME NEW s \in Shares!Share PROVE WillBeStored(s)' <=> WillBeListed(s)'
    BY <1>m, <2>2, <2>3 DEF WillBeStored, WillBeListed, Makes, Removes, Change
  <2>8. Agree'
    BY <2>7 DEF Agree
  <2> QED
    BY <2>4, <2>5, <2>6, <2>8
<1> QED
  BY <1>5, <1>6 DEF ShareInv

\* A failure is answered.
LEMMA ShareFailureKeeps ==
  ASSUME ShareInv, NEW k \in Call, Shares!ApplyFailure(k) PROVE ShareInv'
<1>0. ShareTyped
  BY DEF ShareInv
<1>1. PICK kind \in {"share", "revoke", "list"} :
        /\ Shares!Answered(k, kind, FALSE)
        /\ revoking' = IF kind = "revoke" THEN None ELSE revoking
        /\ missed' = (missed \/ kind = "list")
  BY DEF Shares!ApplyFailure, Shares!Changes
<1>2. /\ call[k].kind = kind /\ call[k].at = "bad"
      /\ stored' = stored /\ lastId' = lastId /\ open' = open /\ shares' = shares
      /\ crossed' = crossed /\ stale' = stale
  BY <1>1 DEF Shares!ApplyFailure, Shares!Answered, Shares!serverVars
<1>3. call' = [call EXCEPT ![k] = Shares!Idle]
  BY <1>1, <1>2 DEF Shares!Answered
<1>4. revoking' \in (1 .. MaxShares) \cup {None}
  BY <1>0, <1>1 DEF ShareTyped
<1>5. missed' \in BOOLEAN /\ (~missed' => ~missed /\ ~Fetches(k))
  BY <1>0, <1>1, <1>2 DEF ShareTyped, Fetches
<1> QED
  BY <1>2, <1>3, <1>4, <1>5, EndsKeeps

LEMMA ShareStarts == ASSUME Shares!ShareInit PROVE ShareInv
<1>1. /\ stored \in {{}} \cup {{[id |-> 1, with |-> w]} : w \in User \cup {Link}} /\ lastId = 1
      /\ open = FALSE /\ shares = <<>> /\ revoking = None
      /\ crossed = FALSE /\ missed = FALSE /\ stale = FALSE
      /\ call = [k \in Call |-> Shares!Idle]
  BY DEF Shares!ShareInit
<1>2. \A k \in Call : call[k] = Shares!Idle
  BY <1>1
<1>3. MaxShares \in Int /\ 1 <= MaxShares
  BY ControlsAssumption
<1>4. stored \subseteq Shares!Share /\ IsFiniteSet(stored) /\ \A s \in stored : s.id <= lastId
  <2>1. CASE stored = {}
    BY <2>1, FS_EmptySet
  <2>2. CASE \E w \in User \cup {Link} : stored = {[id |-> 1, with |-> w]}
    <3>1. PICK sh : sh \in Shares!Share /\ sh.id = 1 /\ stored = {sh}
      <4>1. 1 \in 1 .. MaxShares
        BY <1>3
      <4> QED
        BY <2>2, <4>1 DEF Shares!Share
    <3>2. IsFiniteSet({sh})
      BY FS_Singleton
    <3> QED
      BY <1>1, <3>1, <3>2
  <2> QED
    BY <1>1, <2>1, <2>2
<1>5. ShareTyped
  <2>1. call \in [Call -> ShareCall]
    BY <1>1, IdleShare
  <2>2. lastId \in 0 .. MaxShares /\ shares \in Seq(Shares!Share)
    BY <1>1, <1>3
  <2> QED
    BY <1>1, <1>2, <1>4, <2>1, <2>2, IdleShare DEF ShareTyped
<1>6. \A k \in Call : ~Makes(k) /\ call[k].gives = <<>>
  BY <1>2, IdleShare DEF Makes
<1>7. Fresh
  BY <1>1, <1>4, <1>6, NoEntries DEF Fresh
<1> QED
  BY <1>1, <1>5, <1>7 DEF ShareInv, Steady

LEMMA ShareKeeps == ASSUME ShareInv, Shares!ShareNext PROVE ShareInv'
<1>1. CASE Shares!CloseDialog \/ Shares!Others
  BY <1>1, CloseDialogKeeps, ShareOthersKeep
<1>2. ASSUME NEW k \in Call, Shares!OpenDialog(k) PROVE ShareInv'
  BY <1>2, OpenDialogKeeps
<1>3. ASSUME NEW k \in Call,
             \/ Shares!PressLink(k)
             \/ \E w \in User : Shares!PressShare(k, w) \/ Shares!Enter(k, w)
      PROVE  ShareInv'
  BY <1>3, ShareAsked, ShareAsksKeep
<1>4. ASSUME NEW k \in Call, \E s \in Shares!ToSet(shares) : Shares!Revoke(k, s) PROVE ShareInv'
  BY <1>4, AskRevokeKeeps, SameLists
<1>5. ASSUME NEW k \in Call,
             Shares!ServeShare(k) \/ Shares!ServeRevoke(k) \/ Shares!Refuse(k) \/ Shares!Lose(k)
      PROVE  ShareInv'
  <2>1. stored' = stored /\ open' = open /\ shares' = shares /\ revoking' = revoking
        /\ crossed' = crossed /\ stale' = stale
    BY <1>5 DEF Shares!ServeShare, Shares!ServeRevoke, Shares!Refuse, Shares!Lose,
                Shares!serverVars, Shares!dialogVars, Shares!noteVars
  <2>2. CASE Shares!Fail(k) /\ lastId' = lastId
    <3>1. /\ call[k].at \in {"sent", "done"} /\ (missed' = missed \/ missed' = TRUE)
          /\ call[k].at = "done" => missed' = TRUE
          /\ ~call[k].told \/ call[k].at = "sent"
      BY <1>5 DEF Shares!ServeShare, Shares!ServeRevoke, Shares!Refuse, Shares!Lose,
                  Shares!noteVars
    <3> QED
      BY <2>1, <2>2, <3>1, ShareFails
  <2>3. CASE Shares!ServeShare(k) /\ ~(Shares!Fail(k) /\ lastId' = lastId)
    BY <2>1, <2>3, LandShare DEF Shares!ServeShare, Shares!Write, Shares!noteVars
  <2>4. CASE Shares!ServeRevoke(k) /\ ~(Shares!Fail(k) /\ lastId' = lastId)
    BY <2>1, <2>4, LandRevoke DEF Shares!ServeRevoke, Shares!Write, Shares!IdsOf, Shares!noteVars, Shares!serverVars
  <2> QED
    BY <1>5, <2>2, <2>3, <2>4 DEF Shares!Refuse, Shares!Lose, Shares!serverVars
<1>6. ASSUME NEW k \in Call, Shares!ServeList(k) PROVE ShareInv'
  BY <1>6, ServeListKeeps
<1>7. ASSUME NEW k \in Call, Shares!Commit(k) PROVE ShareInv'
  BY <1>7, ShareCommitKeeps
<1>8. ASSUME NEW k \in Call, Shares!Drop(k) PROVE ShareInv'
  <2>1. /\ call[k].at \in {"done", "bad"} /\ call[k].told
        /\ call' = [call EXCEPT ![k] = Shares!Idle]
        /\ stored' = stored /\ lastId' = lastId /\ open' = open /\ shares' = shares
        /\ revoking' = revoking /\ crossed' = crossed /\ missed' = missed /\ stale' = stale
    BY <1>8 DEF Shares!Drop, Shares!serverVars, Shares!dialogVars, Shares!noteVars
  <2>2. /\ revoking \in (1 .. MaxShares) \cup {None} /\ missed \in BOOLEAN
        /\ ~Fetches(k)
    BY <2>1 DEF ShareInv, ShareTyped, Fetches
  <2> QED
    BY <2>1, <2>2, EndsKeeps
<1>9. ASSUME NEW k \in Call, Shares!ApplyShare(k) PROVE ShareInv'
  BY <1>9, ApplyShareKeeps
<1>10. ASSUME NEW k \in Call, Shares!ApplyRevoke(k) PROVE ShareInv'
  BY <1>10, ApplyRevokeKeeps
<1>11. ASSUME NEW k \in Call, Shares!ApplyList(k) PROVE ShareInv'
  BY <1>11, ApplyListKeeps
<1>12. ASSUME NEW k \in Call, Shares!ApplyFailure(k) PROVE ShareInv'
  BY <1>12, ShareFailureKeeps
<1> QED
  BY <1>1, <1>2, <1>3, <1>4, <1>5, <1>6, <1>7, <1>8, <1>9, <1>10, <1>11, <1>12
     DEF Shares!ShareNext

-----------------------------------------------------------------------------
(* What the dialog has been told.  Of an id that an answer tells of, what it *)
(* gives is what there will be, and so is what the list has of a known one.  *)

\* A share with id i will be stored;
There(i) == \E s \in Shares!Share : s.id = i /\ WillBeStored(s)

\* and q has one.
Has(q, i) == \E s \in ToSet(q) : s.id = i

\* The answer to c, which tells of i, when a share with that id will be stored or not.
TellsRight(c, i, there) ==
  /\ c.at \in {"open", "done"} /\ ~c.told
  /\ Has(c.gives, i) <=> there
  /\ c.kind = "share" => Has(c.gives, i)
  /\ c.kind = "revoke" => i = c.id /\ c.gives = <<>>

KnownInv ==
  /\ known \subseteq 1 .. MaxShares /\ tells \in [Call -> SUBSET (1 .. MaxShares)]
  /\ ~open => known = {}
  /\ \A i \in known : Has(shares, i) <=> There(i)
  /\ \A k \in Call : \A i \in tells[k] : TellsRight(call[k], i, There(i))

\* What is open stays open.
LEMMA ThereStays ==
  ASSUME stored' = stored,
         \A o \in Call : /\ call'[o].at = "open" <=> call[o].at = "open"
                         /\ call[o].at = "open" => /\ call'[o].kind = call[o].kind
                                                   /\ call'[o].id = call[o].id
                                                   /\ call'[o].gives = call[o].gives
  PROVE  \A i : There(i)' <=> There(i)
<1>1. ASSUME NEW o \in Call
      PROVE  /\ Makes(o)' /\ call'[o].at = "open" <=> Makes(o) /\ call[o].at = "open"
             /\ call[o].at = "open" => Made(o)' = Made(o)
             /\ \A i : Removes(o, i)' /\ call'[o].at = "open" <=> Removes(o, i) /\ call[o].at = "open"
  BY DEF Makes, Made, Removes, Landed
<1>2. \A s : WillBeStored(s)' <=> WillBeStored(s)
  BY <1>1 DEF WillBeStored
<1> QED
  BY <1>2 DEF There

\* The answers and the list stay right; k may have lost what it tells.
LEMMA KnownStays ==
  ASSUME KnownInv, NEW k \in Call, \A i : There(i)' <=> There(i),
         shares' = shares, known' = known, ~open' => ~open, tells' = tells \/ tells' = [tells EXCEPT ![k] = {}],
         tells'[k] # {} => /\ call'[k].at \in {"open", "done"} /\ call'[k].told = call[k].told
                           /\ call'[k].kind = call[k].kind /\ call'[k].id = call[k].id
                           /\ call'[k].gives = call[k].gives,
         \A o \in Call \ {k} : call'[o] = call[o]
  PROVE  KnownInv'
<1>1. tells' \in [Call -> SUBSET (1 .. MaxShares)] /\ \A o \in Call : tells'[o] \subseteq tells[o]
  BY DEF KnownInv
<1>2. ASSUME NEW o \in Call, NEW i \in tells'[o] PROVE TellsRight(call'[o], i, There(i)')
  <2>1. TellsRight(call[o], i, There(i))
    BY <1>1 DEF KnownInv
  <2>2. CASE o = k
    BY <2>1, <2>2 DEF TellsRight
  <2>3. CASE o # k
    BY <2>1, <2>3 DEF TellsRight
  <2> QED
    BY <2>2, <2>3
<1>3. \A i \in known' : Has(shares', i) <=> There(i)'
  BY DEF KnownInv
<1> QED
  BY <1>1, <1>2, <1>3 DEF KnownInv, Has, TellsRight

\* What is not told of any more.
LEMMA Forgotten ==
  ASSUME KnownInv, NEW i \in 1 .. MaxShares, \A j : j # i => (There(j)' <=> There(j))
  PROVE  /\ \A j \in known \ {i} : Has(shares, j) <=> There(j)'
         /\ \A o \in Call : \A j \in tells[o] \ {i} : TellsRight(call[o], j, There(j)')
BY DEF KnownInv, TellsRight

LEMMA WriteKeepsKnown ==
  ASSUME ShareTyped, KnownInv, NEW k \in Call, call[k].kind \in {"share", "revoke"},
         NEW i \in 1 .. MaxShares, NEW g \in Seq(Shares!Share), Shares!Write(k, i, g),
         open' = open, shares' = shares,
         \A j : j # i => (There(j)' <=> There(j)), Has(g, i) <=> There(i)',
         call[k].kind = "share" => Has(g, i), call[k].kind = "revoke" => i = call[k].id /\ g = <<>>
  PROVE  KnownInv'
<1>1. /\ call' = [call EXCEPT ![k].at = "open", ![k].gives = g]
      /\ tells' = [Shares!Unsaid(i) EXCEPT ![k] = Shares!Told(k, {i})] /\ known' = known \ {i}
  BY DEF Shares!Write
<1>2. Shares!Unsaid(i) \in [Call -> SUBSET (1 .. MaxShares)]
  BY DEF Shares!Unsaid, KnownInv
<1>3. Shares!Told(k, {i}) \subseteq {i} /\ (Shares!Told(k, {i}) # {} => ~call[k].told)
  BY DEF Shares!Told
<1>4. /\ tells' \in [Call -> SUBSET (1 .. MaxShares)] /\ tells'[k] = Shares!Told(k, {i})
      /\ \A o \in Call \ {k} : tells'[o] = tells[o] \ {i}
  BY <1>1, <1>2, <1>3 DEF Shares!Unsaid
<1>5. /\ \A o \in Call \ {k} : call'[o] = call[o]
      /\ call'[k].at = "open" /\ call'[k].gives = g /\ call'[k].kind = call[k].kind
      /\ call'[k].id = call[k].id /\ call'[k].told = call[k].told
  BY <1>1 DEF ShareTyped, ShareCall
<1>6. ASSUME NEW o \in Call, NEW j \in tells'[o] PROVE TellsRight(call'[o], j, There(j)')
  <2>1. CASE o = k
    <3>1. j = i /\ ~call[k].told
      BY <1>3, <1>4, <2>1
    <3>2. Has(g, j) <=> There(j)'
      BY <3>1
    <3> QED
      BY <1>5, <2>1, <3>1, <3>2 DEF TellsRight
  <2>2. CASE o # k
    BY <1>4, <1>5, <2>2, Forgotten
  <2> QED
    BY <2>1, <2>2
<1>7. \A j \in known' : Has(shares', j) <=> There(j)'
  BY <1>1, Forgotten
<1> QED
  BY <1>1, <1>4, <1>6, <1>7 DEF KnownInv, Has, TellsRight

LEMMA ServeShareKnown ==
  ASSUME ShareInv, KnownInv, NEW k \in Call, Shares!ServeShare(k), ~Shares!Fail(k)
  PROVE  KnownInv'
<1>1. PICK sh : sh = [id |-> lastId + 1, with |-> call[k].with]
  OBVIOUS
<1>2. /\ call[k].kind = "share" /\ call[k].at = "sent" /\ lastId < MaxShares /\ lastId' = lastId + 1
      /\ Shares!Write(k, lastId + 1, <<sh>>)
      /\ UNCHANGED <<stored, open, shares, revoking, crossed, missed, stale>>
  BY <1>1 DEF Shares!ServeShare, Shares!dialogVars, Shares!noteVars
<1>3. ShareTyped /\ lastId \in Nat /\ lastId + 1 \in 1 .. MaxShares
  <2>1. ShareTyped /\ lastId \in 0 .. MaxShares
    BY DEF ShareInv, ShareTyped
  <2> QED
    BY <1>2, <2>1, ControlsAssumption
<1>4. /\ \A s \in Shares!Share : s.id # lastId + 1 => (WillBeStored(s)' <=> WillBeStored(s))
      /\ \E s \in Shares!Share : s.id = lastId + 1 /\ WillBeStored(s)'
  BY <1>1, <1>2, LandShare DEF Shares!Write
<1>5. sh \in Shares!Share /\ sh.id = lastId + 1
  BY <1>1, <1>2, <1>3 DEF ShareTyped, Shares!Share
<1>6. <<sh>> \in Seq(Shares!Share) /\ ToSet(<<sh>>) = {sh}
  BY <1>5 DEF ToSet
<1>p. PICK i \in 1 .. MaxShares : i = lastId + 1
  BY <1>3
<1>7. Has(<<sh>>, i)
  BY <1>5, <1>6, <1>p DEF Has
<1>8. There(i)' /\ \A j : j # i => (There(j)' <=> There(j))
  BY <1>4, <1>p DEF There
<1>9. Shares!Write(k, i, <<sh>>) /\ open' = open /\ shares' = shares /\ call[k].kind = "share"
  BY <1>2, <1>p
<1> QED
  BY <1>3, <1>6, <1>7, <1>8, <1>9, WriteKeepsKnown

LEMMA ServeRevokeKnown ==
  ASSUME ShareInv, KnownInv, NEW k \in Call, Shares!ServeRevoke(k), ~Shares!Fail(k)
  PROVE  KnownInv'
<1>1. /\ call[k].kind = "revoke" /\ call[k].at = "sent" /\ \E s \in stored : s.id = call[k].id
      /\ Shares!Write(k, call[k].id, <<>>)
      /\ UNCHANGED <<stored, lastId, open, shares, revoking, crossed, missed, stale>>
  BY DEF Shares!ServeRevoke, Shares!IdsOf, Shares!serverVars, Shares!dialogVars, Shares!noteVars
<1>2. ShareTyped /\ stored \subseteq Shares!Share
  BY DEF ShareInv, ShareTyped
<1>3. PICK i \in 1 .. MaxShares : i = call[k].id
  BY <1>1, <1>2 DEF Shares!Share
<1>4. /\ \A s \in Shares!Share : s.id # call[k].id => (WillBeStored(s)' <=> WillBeStored(s))
      /\ \A s \in Shares!Share : s.id = call[k].id => ~WillBeStored(s)'
  BY <1>1, LandRevoke DEF Shares!Write
<1>5. ~There(i)' /\ \A j : j # i => (There(j)' <=> There(j))
  BY <1>3, <1>4 DEF There
<1>6. ~Has(<<>>, i) /\ <<>> \in Seq(Shares!Share)
  BY NoEntries DEF Has
<1>7. Shares!Write(k, i, <<>>) /\ open' = open /\ shares' = shares
  BY <1>1, <1>3
<1> QED
  BY <1>1, <1>2, <1>3, <1>5, <1>6, <1>7, WriteKeepsKnown

LEMMA FailKeepsKnown ==
  ASSUME ShareTyped, KnownInv, NEW k \in Call, Shares!Fail(k), call[k].at # "open",
         stored' = stored, open' = open, shares' = shares
  PROVE  KnownInv'
<1>1. /\ \A o \in Call \ {k} : call'[o] = call[o]
      /\ call'[k].at = "bad"
      /\ known' = known /\ tells' = [tells EXCEPT ![k] = {}]
  BY DEF Shares!Fail, ShareTyped, ShareCall
<1>2. \A i : There(i)' <=> There(i)
  BY <1>1, ThereStays
<1>3. tells'[k] = {}
  BY <1>1 DEF KnownInv
<1> QED
  BY <1>1, <1>2, <1>3, KnownStays

\* Of an id with no open change, the list has what there will be.
LEMMA ListKnown ==
  ASSUME ShareInv, KnownInv, NEW k \in Call, Shares!ServeList(k)
  PROVE  KnownInv'
<1>0. ShareTyped /\ Fresh /\ stored \subseteq Shares!Share /\ IsFiniteSet(stored)
  BY DEF ShareInv, ShareTyped
<1>1. PICK q : q = SetToSeq(stored)
  OBVIOUS
<1>2. q \in Seq(Shares!Share) /\ ToSet(q) = stored
  BY <1>0, <1>1, Listing
<1>3. /\ call[k].kind = "list" /\ call[k].at = "sent"
      /\ call' = [call EXCEPT ![k].at = "done", ![k].gives = q]
      /\ tells' = [tells EXCEPT ![k] =
                     Shares!Told(k, (1 .. MaxShares) \ UNION {Shares!IdsOpen(o) : o \in Call})]
      /\ stored' = stored /\ known' = known /\ open' = open /\ shares' = shares
  BY <1>1, SameLists DEF Shares!ServeList, Shares!serverVars, Shares!dialogVars
<1>4. /\ \A o \in Call \ {k} : call'[o] = call[o]
      /\ call'[k].at = "done" /\ call'[k].gives = q /\ call'[k].kind = "list"
      /\ call'[k].told = call[k].told
  BY <1>0, <1>3 DEF ShareTyped, ShareCall
<1>5. \A i : There(i)' <=> There(i)
  BY <1>3, <1>4, ThereStays
<1>6. /\ Shares!Told(k, (1 .. MaxShares) \ UNION {Shares!IdsOpen(o) : o \in Call}) \subseteq
           (1 .. MaxShares) \ UNION {Shares!IdsOpen(o) : o \in Call}
      /\ Shares!Told(k, (1 .. MaxShares) \ UNION {Shares!IdsOpen(o) : o \in Call}) # {} => ~call[k].told
  BY DEF Shares!Told
<1>7. /\ tells' \in [Call -> SUBSET (1 .. MaxShares)] /\ \A o \in Call \ {k} : tells'[o] = tells[o]
      /\ tells'[k] # {} => ~call[k].told
      /\ \A i \in tells'[k] : \A o \in Call : i \notin Shares!IdsOpen(o)
  <2>1. /\ tells' \in [Call -> SUBSET (1 .. MaxShares)] /\ \A o \in Call \ {k} : tells'[o] = tells[o]
        /\ tells'[k] = Shares!Told(k, (1 .. MaxShares) \ UNION {Shares!IdsOpen(o) : o \in Call})
    BY <1>3, <1>6 DEF KnownInv
  <2> QED
    BY <1>6, <2>1
<1>8. ASSUME NEW i, \A o \in Call : i \notin Shares!IdsOpen(o)
      PROVE  Has(q, i) <=> There(i)
  <2>1. ASSUME NEW o \in Call, call[o].at = "open"
        PROVE  ~Removes(o, i) /\ (Makes(o) => Made(o).id # i)
    <3>1. Shares!IdsOpen(o) = IF call[o].kind = "share" THEN Shares!IdsOf(ToSet(call[o].gives))
                              ELSE {call[o].id}
      BY <2>1, SameLists DEF Shares!IdsOpen
    <3>2. ASSUME Makes(o) PROVE Made(o).id # i
      BY <1>0, <1>8, <3>1, <3>2, MadeIs DEF Makes, Shares!IdsOf
    <3> QED
      BY <1>8, <3>1, <3>2 DEF Removes
  <2>2. \A s \in Shares!Share : s.id = i => (WillBeStored(s) <=> s \in stored)
    BY <2>1 DEF WillBeStored
  <2> QED
    BY <1>0, <1>2, <2>2 DEF Has, There
<1>9. ASSUME NEW o \in Call, NEW i \in tells'[o] PROVE TellsRight(call'[o], i, There(i)')
  <2>1. CASE o = k
    <3>1. Has(q, i) <=> There(i)
      BY <1>7, <1>8, <2>1
    <3> QED
      BY <1>4, <1>5, <1>7, <2>1, <3>1 DEF TellsRight
  <2>2. CASE o # k
    BY <1>4, <1>5, <1>7, <2>2 DEF KnownInv, TellsRight
  <2> QED
    BY <2>1, <2>2
<1>10. \A i \in known' : Has(shares', i) <=> There(i)'
  BY <1>3, <1>5 DEF KnownInv
<1> QED
  BY <1>3, <1>7, <1>9, <1>10 DEF KnownInv, Has, TellsRight

LEMMA CommitKeepsKnown ==
  ASSUME ShareInv, KnownInv, NEW k \in Call, Shares!Commit(k)
  PROVE  KnownInv'
<1>1. \A i : There(i)' <=> There(i)
  BY ShareCommitKeeps DEF There
<1>2. /\ call[k].at = "open" /\ call' = [call EXCEPT ![k] = IF @.told THEN Shares!Idle ELSE [@ EXCEPT !.at = "done"]]
      /\ open' = open /\ shares' = shares /\ known' = known /\ tells' = tells
  BY DEF Shares!Commit, Shares!dialogVars, Shares!toldVars
<1>3. tells[k] # {} => ~call[k].told
  BY DEF KnownInv, TellsRight
<1>4. /\ \A o \in Call \ {k} : call'[o] = call[o]
      /\ tells'[k] # {} => /\ call'[k].at \in {"open", "done"} /\ call'[k].told = call[k].told
                           /\ call'[k].kind = call[k].kind /\ call'[k].id = call[k].id
                           /\ call'[k].gives = call[k].gives
  BY <1>2, <1>3 DEF ShareInv, ShareTyped, ShareCall
<1> QED
  BY <1>1, <1>2, <1>4, KnownStays

LEMMA OthersKeepKnown ==
  ASSUME ShareInv, KnownInv, Shares!Others
  PROVE  KnownInv'
<1>1. PICK i \in 1 .. MaxShares :
        /\ \/ \E s \in stored : s.id = i /\ stored' = stored \ {s}
           \/ \E w \in User : stored' = stored \cup {[id |-> i, with |-> w]}
        /\ tells' = Shares!Unsaid(i) /\ known' = known \ {i}
  BY DEF Shares!Others
<1>2. call' = call /\ open' = open /\ shares' = shares
  BY DEF Shares!Others, Shares!dialogVars
<1>3. \A s : s.id # i => (s \in stored' <=> s \in stored)
  BY <1>1
<1>4. \A s : s.id # i => (WillBeStored(s)' <=> WillBeStored(s))
  BY <1>2, <1>3 DEF WillBeStored, Makes, Made, Removes, Landed
<1>5. \A j : j # i => (There(j)' <=> There(j))
  BY <1>4 DEF There
<1>6. tells' \in [Call -> SUBSET (1 .. MaxShares)] /\ \A o \in Call : tells'[o] = tells[o] \ {i}
  BY <1>1 DEF Shares!Unsaid, KnownInv
<1>7. /\ \A j \in known' : Has(shares', j) <=> There(j)'
      /\ \A o \in Call : \A j \in tells'[o] : TellsRight(call'[o], j, There(j)')
  BY <1>1, <1>2, <1>5, <1>6, Forgotten
<1> QED
  BY <1>1, <1>2, <1>6, <1>7 DEF KnownInv, Has, TellsRight

\* A request is made.
LEMMA AskKeepsKnown ==
  ASSUME ShareTyped, KnownInv, NEW k \in Call, call[k].at = "free", \E c : call' = [call EXCEPT ![k] = c] /\ c.at = "sent",
         stored' = stored, shares' = shares, open', UNCHANGED Shares!toldVars
  PROVE  KnownInv'
<1>1. known' = known /\ tells' = tells
  BY DEF Shares!toldVars
<1>2. (\A o \in Call \ {k} : call'[o] = call[o]) /\ call'[k].at = "sent"
  BY DEF ShareTyped
<1>3. tells[k] = {}
  BY DEF KnownInv, TellsRight
<1>4. \A i : There(i)' <=> There(i)
  BY <1>2, ThereStays
<1> QED
  BY <1>1, <1>2, <1>3, <1>4, KnownStays

LEMMA OpenKeepsKnown ==
  ASSUME ShareTyped, KnownInv, NEW k \in Call, Shares!OpenDialog(k) PROVE KnownInv'
<1>1. /\ open' /\ shares' = shares /\ UNCHANGED Shares!toldVars
      /\ Shares!Ask(k, [Shares!Idle EXCEPT !.kind = "list"])
  BY DEF Shares!OpenDialog
<1>2. PICK c : /\ c = [[Shares!Idle EXCEPT !.kind = "list"] EXCEPT !.at = "sent"]
               /\ c.at = "sent"
  BY ListRequest, Zenon
<1>3. call' = [call EXCEPT ![k] = c] /\ c.at = "sent" /\ stored' = stored /\ call[k].at = "free"
  BY <1>1, <1>2 DEF Shares!Ask, Shares!serverVars
<1> QED
  BY <1>1, <1>3, AskKeepsKnown

LEMMA AskedKeepsKnown ==
  ASSUME ShareTyped, KnownInv, NEW k \in Call, NEW w \in User \cup {Link}, AskedFor(k, w)
  PROVE  KnownInv'
<1>1. /\ open' /\ shares' = shares /\ UNCHANGED Shares!toldVars /\ stored' = stored
      /\ call[k].at = "free"
      /\ call' = [call EXCEPT ![k] =
                    [[Shares!Idle EXCEPT !.kind = "share", !.with = w] EXCEPT !.at = "sent"]]
  BY DEF AskedFor
<1>2. PICK c \in ShareCall :
        /\ c = [[Shares!Idle EXCEPT !.kind = "share", !.with = w] EXCEPT !.at = "sent"]
        /\ c.at = "sent" /\ ~c.told /\ c.gives = <<>> /\ c.kind = "share" /\ c.with = w
  BY ShareRequest, Zenon
<1>3. call' = [call EXCEPT ![k] = c] /\ c.at = "sent"
  BY <1>1, <1>2, Zenon
<1> QED
  BY <1>1, <1>3, AskKeepsKnown

LEMMA RevokeKeepsKnown ==
  ASSUME ShareTyped, KnownInv, NEW k \in Call, NEW s, Shares!Revoke(k, s) PROVE KnownInv'
<1>1. /\ open /\ open' = open /\ shares' = shares /\ UNCHANGED Shares!toldVars
      /\ Shares!Ask(k, [Shares!Idle EXCEPT !.kind = "revoke", !.id = s.id])
      /\ s \in ToSet(shares)
  BY SameLists DEF Shares!Revoke, Shares!Revocable
<1>2. s.id \in 1 .. MaxShares
  <2>1. ToSet(shares) \subseteq Shares!Share
    BY Entries DEF ShareTyped
  <2> QED
    BY <1>1, <2>1 DEF Shares!Share
<1>3. PICK c \in ShareCall :
        /\ c = [[Shares!Idle EXCEPT !.kind = "revoke", !.id = s.id] EXCEPT !.at = "sent"]
        /\ c.at = "sent" /\ ~c.told /\ c.gives = <<>> /\ c.kind = "revoke" /\ c.id = s.id
  BY <1>2, RevokeRequest, Zenon
<1>4. call' = [call EXCEPT ![k] = c] /\ c.at = "sent" /\ stored' = stored /\ call[k].at = "free"
  BY <1>1, <1>3 DEF Shares!Ask, Shares!serverVars
<1> QED
  BY <1>1, <1>4, AskKeepsKnown

LEMMA CloseKeepsKnown == ASSUME KnownInv, Shares!CloseDialog PROVE KnownInv'
BY DEF KnownInv, Shares!CloseDialog

\* What an answer leaves.
LEMMA AnswerSays ==
  ASSUME ShareTyped, KnownInv, NEW k \in Call, NEW kind, NEW ok \in BOOLEAN, Shares!Answered(k, kind, ok)
  PROVE  /\ \A i : There(i)' <=> There(i)
         /\ tells' \in [Call -> SUBSET (1 .. MaxShares)] /\ tells'[k] = {} /\ open' = open
         /\ \A o \in Call \ {k} : call'[o] = call[o] /\ tells'[o] = tells[o]
         /\ \A i \in tells[k] : TellsRight(call[k], i, There(i))
         /\ \A o \in Call : \A i \in tells'[o] : TellsRight(call'[o], i, There(i)')
<1>1. /\ call' = [call EXCEPT ![k] = IF @.at = "open" THEN [@ EXCEPT !.told = TRUE] ELSE Shares!Idle]
      /\ tells' = [tells EXCEPT ![k] = {}] /\ stored' = stored /\ open' = open
  BY DEF Shares!Answered, Shares!serverVars
<1>2. /\ \A o \in Call \ {k} : call'[o] = call[o]
      /\ call[k].at = "open" => /\ call'[k].at = "open" /\ call'[k].kind = call[k].kind
                                /\ call'[k].id = call[k].id /\ call'[k].gives = call[k].gives
      /\ call[k].at # "open" => call'[k].at = "free"
  BY <1>1, IdleShare DEF ShareTyped, ShareCall
<1>3. \A i : There(i)' <=> There(i)
  BY <1>1, <1>2, ThereStays
<1>4. /\ tells' \in [Call -> SUBSET (1 .. MaxShares)] /\ tells'[k] = {}
      /\ \A o \in Call \ {k} : tells'[o] = tells[o]
  BY <1>1 DEF KnownInv
<1>5. ASSUME NEW o \in Call, NEW i \in tells'[o] PROVE TellsRight(call'[o], i, There(i)')
  <2>1. o # k /\ TellsRight(call[o], i, There(i))
    BY <1>4 DEF KnownInv
  <2> QED
    BY <1>2, <1>3, <2>1 DEF TellsRight
<1> QED
  BY <1>1, <1>2, <1>3, <1>4, <1>5 DEF KnownInv

LEMMA AnswerKeepsKnown ==
  ASSUME ShareTyped, KnownInv, NEW k \in Call, NEW kind, NEW ok \in BOOLEAN, Shares!Answered(k, kind, ok),
         known' \subseteq 1 .. MaxShares, ~open => known' = {},
         \A i \in known' : Has(shares', i) <=> There(i)
  PROVE  KnownInv'
<1>1. /\ \A i : There(i)' <=> There(i)
      /\ tells' \in [Call -> SUBSET (1 .. MaxShares)] /\ open' = open
      /\ \A o \in Call : \A i \in tells'[o] : TellsRight(call'[o], i, There(i)')
  BY AnswerSays
<1>2. \A i \in known' : Has(shares', i) <=> There(i)'
  BY <1>1
<1> QED
  BY <1>1, <1>2 DEF KnownInv, Has, TellsRight

\* What is learnt from an answer to somebody who waits for it: the dialog is there.
LEMMA Learnt ==
  ASSUME ShareTyped, KnownInv, NEW k \in Call, NEW kind, Shares!Answered(k, kind, TRUE), NEW ids,
         Shares!Learn(k, ids)
  PROVE  /\ open /\ known' \subseteq 1 .. MaxShares /\ call[k].kind = kind
         /\ \A i \in known' : i \in tells[k] \/ (i \in known /\ i \notin ids)
<1>1. ~call[k].told /\ call[k].at \in {"open", "done"} /\ call[k].kind = kind
  BY DEF Shares!Answered
<1>2. open
  BY <1>1 DEF ShareTyped
<1>3. known' = (known \ ids) \cup tells[k]
  BY DEF Shares!Learn
<1>4. tells[k] \subseteq 1 .. MaxShares /\ known \subseteq 1 .. MaxShares
  BY DEF KnownInv
<1> QED
  BY <1>1, <1>2, <1>3, <1>4

LEMMA ApplyShareKnown ==
  ASSUME ShareTyped, KnownInv, NEW k \in Call, Shares!ApplyShare(k) PROVE KnownInv'
<1>1. /\ Shares!Answered(k, "share", TRUE) /\ Shares!Learn(k, Shares!IdsOf(ToSet(call[k].gives)))
      /\ shares' = call[k].gives \o shares
  BY SameLists DEF Shares!ApplyShare
<1>2. ToSet(shares') = ToSet(call[k].gives) \cup ToSet(shares)
  <2>1. call[k].gives \in Seq(Shares!Share) /\ shares \in Seq(Shares!Share)
    BY ShareCallTyped DEF ShareTyped
  <2> QED
    BY <1>1, <2>1, Joined
<1>3. \A i : Has(shares', i) <=> Has(call[k].gives, i) \/ Has(shares, i)
  BY <1>2 DEF Has
<1>4. /\ open /\ known' \subseteq 1 .. MaxShares /\ call[k].kind = "share"
      /\ \A i \in known' : i \in tells[k] \/ (i \in known /\ i \notin Shares!IdsOf(ToSet(call[k].gives)))
  BY <1>1, Learnt
<1>5. ASSUME NEW i \in known' PROVE Has(shares', i) <=> There(i)
  <2>1. CASE i \in tells[k]
    BY <1>3, <1>4, <2>1 DEF KnownInv, TellsRight
  <2>2. CASE i \in known /\ i \notin Shares!IdsOf(ToSet(call[k].gives))
    BY <1>3, <2>2 DEF KnownInv, Has, Shares!IdsOf
  <2> QED
    BY <1>4, <2>1, <2>2
<1> QED
  BY <1>1, <1>4, <1>5, AnswerKeepsKnown

LEMMA ApplyRevokeKnown ==
  ASSUME ShareTyped, KnownInv, NEW k \in Call, Shares!ApplyRevoke(k) PROVE KnownInv'
<1>1. /\ Shares!Answered(k, "revoke", TRUE) /\ Shares!Learn(k, {call[k].id})
      /\ shares' = Keep(shares, {s \in ToSet(shares) : s.id # call[k].id})
  BY SameLists DEF Shares!ApplyRevoke
<1>2. ToSet(shares') = {s \in ToSet(shares) : s.id # call[k].id}
  <2>1. PICK T : T = {s \in ToSet(shares) : s.id # call[k].id}
    OBVIOUS
  <2>2. shares \in Seq(Shares!Share) /\ shares' = Keep(shares, T)
    BY <1>1, <2>1 DEF ShareTyped
  <2>3. ToSet(shares') = ToSet(shares) \cap T
    BY <2>2, Kept, Zenon
  <2> QED
    BY <2>1, <2>3
<1>3. \A i : Has(shares', i) <=> Has(shares, i) /\ i # call[k].id
  BY <1>2 DEF Has
<1>4. /\ open /\ known' \subseteq 1 .. MaxShares /\ call[k].kind = "revoke"
      /\ \A i \in known' : i \in tells[k] \/ (i \in known /\ i \notin {call[k].id})
  BY <1>1, Learnt
<1>5. ASSUME NEW i \in known' PROVE Has(shares', i) <=> There(i)
  <2>1. CASE i \in tells[k]
    <3>1. i = call[k].id /\ (Has(<<>>, i) <=> There(i))
      BY <1>4, <2>1 DEF KnownInv, TellsRight
    <3>2. ~Has(<<>>, i)
      BY NoEntries DEF Has
    <3> QED
      BY <1>3, <3>1, <3>2
  <2>2. CASE i \in known /\ i \notin {call[k].id}
    BY <1>3, <2>2 DEF KnownInv
  <2> QED
    BY <1>4, <2>1, <2>2
<1> QED
  BY <1>1, <1>4, <1>5, AnswerKeepsKnown

LEMMA ApplyListKnown ==
  ASSUME ShareTyped, KnownInv, NEW k \in Call, Shares!ApplyList(k) PROVE KnownInv'
<1>1. /\ Shares!Answered(k, "list", TRUE) /\ Shares!Learn(k, 1 .. MaxShares)
      /\ shares' = call[k].gives
  BY DEF Shares!ApplyList
<1>2. /\ open /\ known' \subseteq 1 .. MaxShares
      /\ \A i \in known' : i \in tells[k] \/ (i \in known /\ i \notin 1 .. MaxShares)
  BY <1>1, Learnt
<1>3. ASSUME NEW i \in known' PROVE Has(shares', i) <=> There(i)
  <2>1. i \in tells[k]
    BY <1>2
  <2> QED
    BY <1>1, <2>1 DEF KnownInv, TellsRight
<1> QED
  BY <1>1, <1>2, <1>3, AnswerKeepsKnown

LEMMA FailureKnown ==
  ASSUME ShareTyped, KnownInv, NEW k \in Call, Shares!ApplyFailure(k) PROVE KnownInv'
<1>1. PICK kind : Shares!Answered(k, kind, FALSE)
  BY DEF Shares!ApplyFailure
<1>2. shares' = shares /\ known' = known
  BY DEF Shares!ApplyFailure
<1>3. known' \subseteq 1 .. MaxShares /\ (~open => known' = {}) /\ \A i \in known' : Has(shares', i) <=> There(i)
  BY <1>2 DEF KnownInv
<1> QED
  BY <1>1, <1>3, AnswerKeepsKnown

LEMMA DropKeepsKnown ==
  ASSUME ShareTyped, KnownInv, NEW k \in Call, Shares!Drop(k) PROVE KnownInv'
<1>1. /\ call[k].at \in {"done", "bad"} /\ call[k].told /\ call' = [call EXCEPT ![k] = Shares!Idle]
      /\ stored' = stored /\ open' = open /\ shares' = shares /\ known' = known /\ tells' = tells
  BY DEF Shares!Drop, Shares!serverVars, Shares!dialogVars, Shares!toldVars
<1>2. (\A o \in Call \ {k} : call'[o] = call[o]) /\ call'[k].at = "free"
  BY <1>1, IdleShare DEF ShareTyped
<1>3. tells[k] = {}
  BY <1>1 DEF KnownInv, TellsRight
<1>4. \A i : There(i)' <=> There(i)
  BY <1>1, <1>2, ThereStays
<1> QED
  BY <1>1, <1>2, <1>3, <1>4, KnownStays

LEMMA KnownStarts == ASSUME Shares!ShareInit PROVE KnownInv
BY DEF Shares!ShareInit, KnownInv

LEMMA KnownKeeps == ASSUME ShareInv, KnownInv, Shares!ShareNext PROVE KnownInv'
<1>0. ShareTyped
  BY DEF ShareInv
<1>1. CASE Shares!CloseDialog \/ Shares!Others
  BY <1>1, CloseKeepsKnown, OthersKeepKnown
<1>2. ASSUME NEW k \in Call,
             \/ Shares!OpenDialog(k) \/ Shares!PressLink(k)
             \/ \E w \in User : Shares!PressShare(k, w) \/ Shares!Enter(k, w)
             \/ \E s \in Shares!ToSet(shares) : Shares!Revoke(k, s)
      PROVE  KnownInv'
  BY <1>0, <1>2, OpenKeepsKnown, ShareAsked, AskedKeepsKnown, RevokeKeepsKnown
<1>3. ASSUME NEW k \in Call,
             Shares!ServeShare(k) \/ Shares!ServeRevoke(k) \/ Shares!Refuse(k) \/ Shares!Lose(k)
      PROVE  KnownInv'
  <2>1. stored' = stored /\ open' = open /\ shares' = shares /\ call[k].at # "open"
    BY <1>3 DEF Shares!ServeShare, Shares!ServeRevoke, Shares!Refuse, Shares!Lose,
                Shares!serverVars, Shares!dialogVars
  <2>2. CASE Shares!Fail(k)
    BY <1>0, <2>1, <2>2, FailKeepsKnown
  <2>3. CASE ~Shares!Fail(k)
    BY <1>3, <2>3, ServeShareKnown, ServeRevokeKnown DEF Shares!Refuse, Shares!Lose
  <2> QED
    BY <2>2, <2>3
<1>4. ASSUME NEW k \in Call, Shares!ServeList(k) \/ Shares!Commit(k) \/ Shares!Drop(k) PROVE KnownInv'
  BY <1>0, <1>4, ListKnown, CommitKeepsKnown, DropKeepsKnown
<1>5. ASSUME NEW k \in Call,
             \/ Shares!ApplyShare(k) \/ Shares!ApplyRevoke(k)
             \/ Shares!ApplyList(k) \/ Shares!ApplyFailure(k)
      PROVE  KnownInv'
  BY <1>0, <1>5, ApplyShareKnown, ApplyRevokeKnown, ApplyListKnown, FailureKnown
<1> QED
  BY <1>1, <1>2, <1>3, <1>4, <1>5 DEF Shares!ShareNext

LEMMA ShareInvariant == ControlsSpec => [](page = "share" => ShareInv /\ KnownInv)
<1> DEFINE Inv == page = "share" => ShareInv /\ KnownInv
<1>1. ControlsInit => Inv
  BY ShareStarts, KnownStarts DEF ControlsInit
<1>2. Inv /\ [ControlsNext]_vars => Inv'
  <2> SUFFICES ASSUME Inv, [ControlsNext]_vars PROVE Inv'
    OBVIOUS
  <2>1. CASE ShareStep
    BY <2>1, ShareKeeps, KnownKeeps DEF ShareStep
  <2>2. CASE SettingsStep \/ RatingStep \/ ChatStep
    BY <2>2 DEF SettingsStep, RatingStep, ChatStep
  <2>3. CASE UNCHANGED vars
    <3>1. /\ page' = page /\ stored' = stored /\ lastId' = lastId /\ call' = call
          /\ open' = open /\ shares' = shares /\ revoking' = revoking
          /\ crossed' = crossed /\ missed' = missed /\ stale' = stale
          /\ known' = known /\ tells' = tells
      BY <2>3 DEF vars, requestVars, shareOnly
    <3>2. ShareInv => ShareInv'
      BY <3>1 DEF ShareInv, ShareTyped, Fresh, Steady, ToldLanded, FetchesAlone, UnlistedStay,
                  ListedOnce, Agree, WillBeStored, WillBeListed, Makes, Made, Removes, Change,
                  Fetches, Landed
    <3>3. \A i : There(i)' <=> There(i)
      BY <3>1, ThereStays
    <3>4. KnownInv => KnownInv'
      BY <3>1, <3>3 DEF KnownInv, TellsRight, Has
    <3> QED
      BY <3>1, <3>2, <3>4
  <2> QED
    BY <2>1, <2>2, <2>3 DEF ControlsNext
<1> QED
  BY <1>1, <1>2, PTL DEF ControlsSpec

\* The shares that there will be, by their ids.
LEMMA NewestIds ==
  ASSUME ShareTyped, Fresh
  PROVE  \A i : i \in Shares!IdsOf(Shares!Newest) <=> There(i)
<1>1. \A k \in Call : Makes(k) => ToSet(call[k].gives) = {Made(k)} /\ Made(k) \in Shares!Share
  BY MadeIs
<1>2. \A s : s \in Shares!Newest <=> s \in Shares!Share /\ WillBeStored(s)
  <2> DEFINE opens(kind) == {k \in Call : call[k].kind \in {kind} /\ call[k].at = "open"}
  <2>1. Shares!Newest = {s \in stored \cup UNION {ToSet(call[k].gives) : k \in opens("share")} :
                           \A k \in opens("revoke") : s.id # call[k].id}
    BY SameLists DEF Shares!Newest, Shares!Pending
  <2>2. \A k \in Call : /\ k \in opens("share") <=> Makes(k) /\ call[k].at = "open"
                        /\ \A i : k \in opens("revoke") /\ call[k].id = i <=> Removes(k, i) /\ call[k].at = "open"
    BY DEF Makes, Removes, Landed
  <2>3. stored \subseteq Shares!Share
    BY DEF ShareTyped
  <2>4. \A s : s \in UNION {ToSet(call[k].gives) : k \in opens("share")} <=>
                 \E k \in Call : Makes(k) /\ Made(k) = s /\ call[k].at = "open"
    BY <1>1, <2>2
  <2>5. \A s : (\A k \in opens("revoke") : s.id # call[k].id) <=>
                 \A k \in Call : Removes(k, s.id) => call[k].at # "open"
    BY <2>2
  <2> HIDE DEF opens
  <2> QED
    BY <1>1, <2>1, <2>3, <2>4, <2>5 DEF WillBeStored
<1> QED
  BY <1>2 DEF Shares!IdsOf, There

\* Of every share of whose last change the dialog has been told, it shows whether
\* there will be one, although answers leave before their commit and come in any order,
\* and the requests of a dialog that was closed go on; and at rest it shows the shares
\* there are, if nothing has crossed their fetch (share-dialog.tsx,
\* use-conversation-shares, conversation_share.py).
THEOREM SharesStayShown == ControlsSpec => []SharesAreShown
<1>1. (page = "share" => ShareInv /\ KnownInv) => SharesAreShown
  <2> SUFFICES ASSUME ShareInv, KnownInv PROVE Shares!KnownAreShown /\ Shares!RestIsShown
    BY DEF SharesAreShown, Shares!SharesAreShown
  <2>1. ShareTyped /\ Fresh
    BY DEF ShareInv
  <2>2. Shares!KnownAreShown
    <3>1. \A i \in known : Has(shares, i) <=> There(i)
      BY DEF KnownInv
    <3>2. \A i : i \in Shares!IdsOf(Shares!Newest) <=> There(i)
      BY <2>1, NewestIds
    <3>3. \A i : i \in Shares!IdsOf(Shares!ToSet(shares)) <=> Has(shares, i)
      BY SameLists DEF Shares!IdsOf, Has
    <3> QED
      BY <3>1, <3>2, <3>3 DEF Shares!KnownAreShown
  <2>3. ASSUME open, \A k \in Call : call[k] = Shares!Idle, ~crossed, ~missed, ~stale
        PROVE  Shares!ToSet(shares) = stored /\ Shares!IsInjective(shares)
    <3>1. ListedOnce /\ Agree
      BY <2>3 DEF ShareInv, Steady
    <3>2. \A k \in Call : ~Fetches(k) /\ ~Makes(k) /\ \A i : ~Removes(k, i)
      BY <2>3, IdleShare DEF Fetches, Makes, Removes
    <3>3. \A s \in Shares!Share : s \in stored <=> s \in ToSet(shares)
      BY <3>1, <3>2 DEF Agree, WillBeStored, WillBeListed
    <3>4. stored \subseteq Shares!Share /\ ToSet(shares) \subseteq Shares!Share
      BY <2>1, Entries DEF ShareTyped
    <3>5. ToSet(shares) = stored
      BY <3>3, <3>4
    <3> QED
      BY <3>1, <3>5, SameLists DEF ListedOnce
  <2> QED
    BY <2>2, <2>3 DEF Shares!RestIsShown
<1> QED
  BY <1>1, ShareInvariant, PTL

-----------------------------------------------------------------------------
(* The input of the chat.  Where a file is tells how often it was sent, and  *)
(* a word that is in the text, or may yet be heard, was not sent before.     *)

InputTyped ==
  /\ message \in Input!Text /\ heard \in Input!Text
  /\ mine \in Lists \cup {<<>>} /\ fetched \in BOOLEAN
  /\ attached \in Seq(File) /\ batch \in Seq(File)
  /\ highlight \in Nat
  /\ usable \in BOOLEAN /\ echo \in BOOLEAN /\ mic \in {"off", "on", "stopping"}
  /\ newWords \subseteq Word /\ newFiles \subseteq File /\ removed \subseteq File
  /\ times \in [Word \cup File -> 0 .. 2]

HighlightFits == Input!Palette # <<>> => highlight < Len(Input!Palette)

\* A file that was chosen is in one place, or was sent once.
FilesOnce ==
  /\ IsInjective(attached) /\ IsInjective(batch)
  /\ ToSet(attached) \cap ToSet(batch) = {}
  /\ newFiles \cap (ToSet(attached) \cup ToSet(batch) \cup removed) = {}
  /\ removed \cap (ToSet(attached) \cup ToSet(batch)) = {}
  /\ \A f \in File :
       times[f] = IF f \in newFiles \cup removed \cup ToSet(attached) \cup ToSet(batch) THEN 0 ELSE 1

\* A word that is in the text, or may yet be, was not sent, unless the microphone
\* gave back one that was.
WordsOnce ==
  /\ mic = "off" => heard = Input!Empty /\ ToSet(message.words) \cap newWords = {}
  /\ ~echo => \A w \in Word :
       /\ times[w] <= 1
       /\ w \in newWords \cup ToSet(message.words) \cup ToSet(heard.words) => times[w] = 0

InputInv == InputTyped /\ HighlightFits /\ FilesOnce /\ WordsOnce

Offer == [name : Name, custom : BOOLEAN]

\* The definitions of ChatInput are those of the modules it extends.
LEMMA SameInput ==
  /\ \A s : Input!ToSet(s) = ToSet(s)
  /\ \A s : Input!IsInjective(s) = IsInjective(s)
  /\ \A s, P : Input!KeepAt(s, P) = KeepAt(s, P)
  /\ \A s, T : Input!Keep(s, T) = Keep(s, T)
<1>1. \A s : Input!ToSet(s) = ToSet(s)
  BY DEF Input!ToSet, ToSet
<1>2. \A s : Input!IsInjective(s) = IsInjective(s)
  BY DEF Input!IsInjective, IsInjective
<1>3. \A s, P : Input!KeepAt(s, P) = KeepAt(s, P)
  BY DEF Input!KeepAt, KeepAt, Input!Before, Before, Input!Cardinality, Cardinality
<1>4. \A s, T : Input!Keep(s, T) = Keep(s, T)
  BY DEF Input!Keep, Keep, Input!KeepAt, KeepAt, Input!Positions, Positions,
         Input!Before, Before, Input!Cardinality, Cardinality
<1> QED
  BY <1>1, <1>2, <1>3, <1>4

\* What the palette offers is a list of commands.
LEMMA OfferedTyped ==
  ASSUME NEW m \in Input!Text, NEW recs \in Seq(InputRecord)
  PROVE  Input!Offered(m, recs) \in Seq(Offer)
<1>1. Builtins \in Seq(Name)
  BY CommandAssumption
<1>2. ASSUME NEW P \in SUBSET (DOMAIN Builtins)
      PROVE  [i \in DOMAIN KeepAt(Builtins, P) |->
                [name |-> KeepAt(Builtins, P)[i], custom |-> FALSE]] \in Seq(Offer)
  <2>1. KeepAt(Builtins, P) \in Seq(Name)
    BY <1>1, KeptAt
  <2>2. \A n \in Name : [name |-> n, custom |-> FALSE] \in Offer
    BY DEF Offer
  <2> QED
    BY <2>1, <2>2
<1>3. ASSUME NEW P \in SUBSET (DOMAIN recs)
      PROVE  [i \in DOMAIN KeepAt(recs, P) |->
                Input!CommandOf(KeepAt(recs, P)[i])] \in Seq(Offer)
  <2>1. KeepAt(recs, P) \in Seq(InputRecord)
    BY KeptAt
  <2>2. \A r \in InputRecord : Input!CommandOf(r) \in Offer
    BY DEF InputRecord, Input!CommandOf, Offer
  <2> QED
    BY <2>1, <2>2
<1>4. Input!Merge(recs) \in Seq(Offer)
  <2> DEFINE P == {i \in DOMAIN Builtins :
                     Input!Overridden(Builtins[i], recs) => Input!OverrideOf(Builtins[i], recs).on}
             Q == {i \in DOMAIN recs : recs[i].custom /\ recs[i].on}
             s == [i \in DOMAIN KeepAt(Builtins, P) |->
                     [name |-> KeepAt(Builtins, P)[i], custom |-> FALSE]]
             t == [i \in DOMAIN KeepAt(recs, Q) |-> Input!CommandOf(KeepAt(recs, Q)[i])]
  <2>1. P \in SUBSET (DOMAIN Builtins) /\ Q \in SUBSET (DOMAIN recs)
    OBVIOUS
  <2>2. Input!Merge(recs) = s \o t
    BY SameInput, Zenon DEF Input!Merge
  <2> HIDE DEF P, Q
  <2>3. s \in Seq(Offer) /\ t \in Seq(Offer)
    BY <1>2, <1>3, <2>1
  <2> HIDE DEF s, t
  <2> QED
    BY <2>2, <2>3
<1>5. ASSUME NEW cmds \in Seq(Offer), NEW q PROVE Input!Search(cmds, q) \in Seq(Offer)
  <2>1. \A P \in SUBSET (DOMAIN cmds) : KeepAt(cmds, P) \in Seq(Offer)
    BY KeptAt
  <2>2. /\ KeepAt(cmds, {i \in DOMAIN cmds : <<q, cmds[i].name>> \in Begins}) \in Seq(Offer)
        /\ KeepAt(cmds, {i \in DOMAIN cmds : <<q, cmds[i].name>> \in Mentions}) \in Seq(Offer)
    BY <2>1
  <2> QED
    BY <2>2, SameInput DEF Input!Search
<1>6. Input!Search(Input!Merge(recs), m.query) \in Seq(Offer)
  BY <1>4, <1>5
<1>7. <<>> \in Seq(Offer)
  OBVIOUS
<1> QED
  BY <1>6, <1>7, Zenon DEF Input!Offered

LEMMA MineTyped ==
  ASSUME NEW recs \in Lists \cup {<<>>}
  PROVE  recs \in Seq(InputRecord)
<1>1. <<>> \in Seq(InputRecord)
  OBVIOUS
<1>2. Lists \subseteq Seq(InputRecord)
  BY ControlsAssumption, Zenon
<1> QED
  BY <1>1, <1>2

LEMMA PaletteTyped ==
  ASSUME InputTyped
  PROVE  /\ Input!Palette \in Seq(Offer) /\ Len(Input!Palette) \in Nat
         /\ Input!Palette # <<>> <=> Len(Input!Palette) # 0
         /\ \A i \in Nat : i < Len(Input!Palette) => Input!Palette[i + 1] \in Offer
<1>1. Input!Palette \in Seq(Offer)
  BY OfferedTyped, MineTyped DEF InputTyped, Input!Palette
<1> QED
  BY <1>1

\* The effect that resets the selection.
LEMMA ResetFits ==
  ASSUME InputTyped, message' \in Input!Text, mine' \in Lists \cup {<<>>}, NEW chosen \in Nat,
         Input!Reset(chosen), Input!Palette # <<>> => chosen < Len(Input!Palette)
  PROVE  HighlightFits' /\ highlight' \in Nat
<1>1. Len(Input!Palette) \in Nat /\ (Input!Palette # <<>> <=> Len(Input!Palette) # 0)
  BY PaletteTyped
<1>2. Input!Palette' \in Seq(Offer)
  BY OfferedTyped, MineTyped DEF Input!Palette
<1>3. Len(Input!Palette') \in Nat /\ (Input!Palette' # <<>> <=> Len(Input!Palette') # 0)
  BY <1>2
<1>4. \/ highlight' = 0
      \/ highlight' = chosen /\ Len(Input!Palette') = Len(Input!Palette)
  BY DEF Input!Reset
<1> QED
  BY <1>1, <1>3, <1>4 DEF HighlightFits

\* Nothing the palette depends on changes.
LEMMA HighlightStays ==
  ASSUME HighlightFits, message' = message, mine' = mine, highlight' = highlight
  PROVE  HighlightFits'
<1>1. Input!Palette' = Input!Palette
  BY DEF Input!Palette
<1> QED
  BY <1>1 DEF HighlightFits

LEMMA TextTyped ==
  /\ Input!Empty \in Input!Text /\ Input!Empty.words = <<>>
  /\ \A m \in Input!Text : m.words \in Seq(Word) /\ m.query \in Typed \cup {None}
BY DEF Input!Text, Input!Empty

\* What is sent was not sent before.
LEMMA SendKeeps ==
  ASSUME InputTyped, FilesOnce, WordsOnce, NEW words \in Seq(Word), Input!Send(words),
         ToSet(words) \subseteq ToSet(message.words), message' = Input!Empty,
         heard' = heard, newWords' = newWords, batch' = batch, newFiles' = newFiles,
         removed' = removed, mic' = mic
  PROVE  /\ attached' \in Seq(File) /\ echo' \in BOOLEAN
         /\ times' \in [Word \cup File -> 0 .. 2]
         /\ FilesOnce' /\ WordsOnce'
<1>1. /\ attached \in Seq(File) /\ echo \in BOOLEAN /\ mic \in {"off", "on", "stopping"}
      /\ times \in [Word \cup File -> 0 .. 2] /\ Word \cap File = {}
      /\ message \in Input!Text
  BY ControlsAssumption DEF InputTyped
<1> DEFINE sent == ToSet(words) \cup ToSet(attached)
<1>2. /\ times' = [x \in Word \cup File |->
                     IF x \in sent /\ times[x] < 2 THEN times[x] + 1 ELSE times[x]]
      /\ echo' = (echo \/ mic # "off") /\ attached' = <<>>
  BY SameInput DEF Input!Send
<1>3. ToSet(words) \subseteq Word /\ ToSet(attached) \subseteq File
  BY <1>1, Entries
<1> HIDE DEF sent
<1>4. \A x \in Word \cup File :
        /\ times[x] \in 0 .. 2
        /\ x \in sent /\ times[x] < 2 => times'[x] = times[x] + 1
        /\ x \notin sent => times'[x] = times[x]
        /\ times'[x] \in {times[x] + 1, times[x]} /\ (times[x] = 2 => times'[x] = 2)
  <2> SUFFICES ASSUME NEW x \in Word \cup File
               PROVE  /\ times[x] \in 0 .. 2
                      /\ x \in sent /\ times[x] < 2 => times'[x] = times[x] + 1
                      /\ x \notin sent => times'[x] = times[x]
                      /\ times'[x] \in {times[x] + 1, times[x]} /\ (times[x] = 2 => times'[x] = 2)
    OBVIOUS
  <2>1. times[x] \in 0 .. 2
    BY <1>1
  <2>2. times'[x] = IF x \in sent /\ times[x] < 2 THEN times[x] + 1 ELSE times[x]
    BY <1>2, Zenon
  <2>3. CASE x \in sent /\ times[x] < 2
    <3>1. times'[x] = times[x] + 1
      BY <2>2, <2>3, Zenon
    <3> QED
      BY <2>1, <2>3, <3>1
  <2>4. CASE ~(x \in sent /\ times[x] < 2)
    <3>1. times'[x] = times[x]
      BY <2>2, <2>4, Zenon
    <3> QED
      BY <2>1, <2>4, <3>1
  <2> QED
    BY <2>3, <2>4
<1>5. times' \in [Word \cup File -> 0 .. 2]
  <2>1. \A x \in Word \cup File : times'[x] \in 0 .. 2
    BY <1>4
  <2>2. times' = [x \in Word \cup File |-> times'[x]]
    BY <1>2, Zenon
  <2> QED
    BY <2>1, <2>2
<1>6. attached' \in Seq(File) /\ ToSet(attached') = {} /\ IsInjective(attached')
  BY <1>2, NoEntries
<1>7. FilesOnce'
  <2>1. ASSUME NEW f \in File
        PROVE  times'[f] = IF f \in newFiles \cup removed \cup ToSet(batch) THEN 0 ELSE 1
    <3>1. f \notin ToSet(words)
      BY <1>1, <1>3
    <3>2. f \in sent <=> f \in ToSet(attached)
      BY <3>1 DEF sent
    <3>3. f \in ToSet(attached) =>
            times[f] = 0 /\ f \notin newFiles \cup removed \cup ToSet(batch)
      BY DEF FilesOnce
    <3>4. f \notin ToSet(attached) =>
            times[f] = IF f \in newFiles \cup removed \cup ToSet(batch) THEN 0 ELSE 1
      BY DEF FilesOnce
    <3> QED
      BY <1>4, <3>2, <3>3, <3>4
  <2> QED
    BY <1>6, <2>1 DEF FilesOnce
<1>8. WordsOnce'
  <2>1. message'.words = <<>> /\ ToSet(message'.words) = {}
    BY TextTyped, NoEntries
  <2>2. ASSUME ~echo', NEW w \in Word
        PROVE  /\ times'[w] <= 1
               /\ w \in newWords \cup ToSet(heard.words) => times'[w] = 0
    <3>1. ~echo /\ mic = "off"
      BY <1>1, <1>2, <2>2
    <3>2. heard = Input!Empty /\ ToSet(message.words) \cap newWords = {}
      BY <3>1 DEF WordsOnce
    <3>3. ToSet(heard.words) = {}
      BY <3>2, TextTyped, NoEntries
    <3>4. /\ times[w] \in {0, 1}
          /\ w \in newWords \cup ToSet(message.words) => times[w] = 0
      BY <1>4, <3>1 DEF WordsOnce
    <3>5. w \in sent <=> w \in ToSet(words)
      BY <1>1, <1>3 DEF sent
    <3>6. w \in ToSet(words) => times[w] = 0 /\ w \notin newWords
      BY <3>2, <3>4
    <3> QED
      BY <1>4, <3>3, <3>4, <3>5, <3>6
  <2>3. mic' = "off" => heard' = Input!Empty
    BY DEF WordsOnce
  <2> QED
    BY <2>1, <2>2, <2>3 DEF WordsOnce
<1> QED
  BY <1>2, <1>1, <1>5, <1>6, <1>7, <1>8

\* runSlashCommand.
LEMMA RunKeeps ==
  ASSUME InputInv, NEW cmd, Input!Run(cmd) PROVE InputInv'
<1>0. InputTyped /\ HighlightFits /\ FilesOnce /\ WordsOnce
  BY DEF InputInv
<1>1. /\ message' = Input!Empty /\ Input!Reset(highlight)
      /\ heard' = heard /\ newWords' = newWords /\ batch' = batch /\ newFiles' = newFiles
      /\ removed' = removed /\ usable' = usable /\ mic' = mic
      /\ mine' = mine /\ fetched' = fetched
  BY DEF Input!Run, Input!listVars
<1>2. \/ attached' = attached /\ times' = times /\ echo' = echo
      \/ Input!Send(<<>>)
  BY DEF Input!Run, Input!sendVars
<1>3. HighlightFits' /\ highlight' \in Nat
  BY <1>0, <1>1, TextTyped, ResetFits DEF InputTyped, HighlightFits
<1>4. CASE attached' = attached /\ times' = times /\ echo' = echo
  <2>1. FilesOnce'
    BY <1>0, <1>1, <1>4 DEF FilesOnce
  <2>2. ToSet(message'.words) = {}
    BY <1>1, TextTyped, NoEntries
  <2>3. WordsOnce'
    BY <1>0, <1>1, <1>4, <2>2 DEF WordsOnce
  <2>4. InputTyped'
    BY <1>0, <1>1, <1>3, <1>4, TextTyped DEF InputTyped
  <2> QED
    BY <1>3, <2>1, <2>3, <2>4 DEF InputInv
<1>5. CASE Input!Send(<<>>)
  <2>1. <<>> \in Seq(Word) /\ ToSet(<<>>) = {}
    BY NoEntries
  <2>2. /\ attached' \in Seq(File) /\ echo' \in BOOLEAN
        /\ times' \in [Word \cup File -> 0 .. 2]
        /\ FilesOnce' /\ WordsOnce'
    BY <1>0, <1>1, <1>5, <2>1, SendKeeps
  <2>3. InputTyped'
    BY <1>0, <1>1, <1>3, <2>2, TextTyped DEF InputTyped
  <2> QED
    BY <1>3, <2>2, <2>3 DEF InputInv
<1> QED
  BY <1>2, <1>4, <1>5

\* Enter, or the button.
LEMMA SubmitKeeps ==
  ASSUME InputInv, Input!Submit PROVE InputInv'
<1>0. InputTyped /\ HighlightFits /\ FilesOnce /\ WordsOnce
  BY DEF InputInv
<1>1. CASE highlight < Len(Input!Palette)
  <2>1. Input!Run(Input!Palette[highlight + 1])
    BY <1>1 DEF Input!Submit
  <2> QED
    BY <2>1, RunKeeps
<1>2. CASE ~(highlight < Len(Input!Palette))
  <2>1. /\ message' = Input!Empty /\ Input!Reset(highlight) /\ Input!Send(message.words)
        /\ heard' = heard /\ newWords' = newWords /\ batch' = batch /\ newFiles' = newFiles
        /\ removed' = removed /\ usable' = usable /\ mic' = mic
        /\ mine' = mine /\ fetched' = fetched
    BY <1>2 DEF Input!Submit, Input!listVars
  <2>2. HighlightFits' /\ highlight' \in Nat
    BY <1>0, <2>1, TextTyped, ResetFits DEF InputTyped, HighlightFits
  <2>3. message.words \in Seq(Word)
    BY <1>0, TextTyped DEF InputTyped
  <2>4. /\ attached' \in Seq(File) /\ echo' \in BOOLEAN
        /\ times' \in [Word \cup File -> 0 .. 2]
        /\ FilesOnce' /\ WordsOnce'
    BY <1>0, <2>1, <2>3, SendKeeps
  <2>5. InputTyped'
    BY <1>0, <2>1, <2>2, <2>4, TextTyped DEF InputTyped
  <2> QED
    BY <2>2, <2>4, <2>5 DEF InputInv
<1> QED
  BY <1>1, <1>2

\* Actions that send nothing and leave the files alone.
LEMMA TextKeeps ==
  ASSUME InputInv, message' \in Input!Text, heard' \in Input!Text,
         highlight' \in Nat, HighlightFits', mine' \in Lists \cup {<<>>}, fetched' \in BOOLEAN,
         usable' \in BOOLEAN, mic' \in {"off", "on", "stopping"}, newWords' \subseteq newWords,
         attached' = attached, batch' = batch, newFiles' = newFiles, removed' = removed,
         times' = times, echo' = echo,
         mic' = "off" => heard' = Input!Empty /\ ToSet(message'.words) \cap newWords' = {},
         ToSet(message'.words) \cup ToSet(heard'.words) \subseteq
           newWords \cup ToSet(message.words) \cup ToSet(heard.words)
  PROVE  InputInv'
<1>0. InputTyped /\ FilesOnce /\ WordsOnce
  BY DEF InputInv
<1>1. InputTyped'
  BY <1>0 DEF InputTyped
<1>2. FilesOnce'
  BY <1>0 DEF FilesOnce
<1>3. WordsOnce'
  BY <1>0 DEF WordsOnce
<1> QED
  BY <1>1, <1>2, <1>3 DEF InputInv

\* Tab, and what is typed over the whole text.
LEMMA QueryKeeps ==
  ASSUME InputInv, NEW q \in Typed \cup {None}, message' = [Input!Empty EXCEPT !.query = q],
         heard' = heard, newWords' = newWords, mic' = mic, usable' = usable,
         mine' = mine, fetched' = fetched,
         attached' = attached, batch' = batch, newFiles' = newFiles, removed' = removed,
         times' = times, echo' = echo, Input!Reset(highlight)
  PROVE  InputInv'
<1>0. InputTyped /\ HighlightFits /\ WordsOnce
  BY DEF InputInv
<1>1. message' = [query |-> q, words |-> <<>>]
  BY DEF Input!Empty
<1>2. message' \in Input!Text /\ message'.words = <<>>
  <2>1. <<>> \in Seq(Word)
    OBVIOUS
  <2>2. \A x \in Typed \cup {None}, s \in Seq(Word) :
          [query |-> x, words |-> s] \in Input!Text
    BY DEF Input!Text
  <2>3. [query |-> q, words |-> <<>>] \in Input!Text
    BY <2>1, <2>2
  <2>4. message'.words = <<>>
    BY <1>1
  <2> QED
    BY <1>1, <2>3, <2>4, Zenon
<1>3. HighlightFits' /\ highlight' \in Nat
  BY <1>0, <1>2, ResetFits DEF InputTyped, HighlightFits
<1>4. ToSet(message'.words) = {}
  BY <1>2, NoEntries
<1> QED
  BY <1>0, <1>2, <1>3, <1>4, TextKeeps DEF InputTyped, WordsOnce

LEMMA TabKeeps ==
  ASSUME InputInv, Input!Tab PROVE InputInv'
<1>0. InputTyped
  BY DEF InputInv
<1> DEFINE q == Tabbed[Input!Palette[highlight + 1].name]
<1>1. q \in Typed
  <2>1. highlight \in Nat /\ highlight < Len(Input!Palette)
    BY <1>0 DEF InputTyped, Input!Tab
  <2>2. Input!Palette[highlight + 1] \in Offer
    BY <1>0, <2>1, PaletteTyped
  <2>3. Input!Palette[highlight + 1].name \in Name
    BY <2>2 DEF Offer
  <2> QED
    BY <2>3, ControlsAssumption
<1>2. /\ message' = [Input!Empty EXCEPT !.query = q]
      /\ heard' = heard /\ newWords' = newWords /\ mic' = mic /\ usable' = usable
      /\ mine' = mine /\ fetched' = fetched
      /\ attached' = attached /\ batch' = batch /\ newFiles' = newFiles /\ removed' = removed
      /\ times' = times /\ echo' = echo /\ Input!Reset(highlight)
  BY DEF Input!Tab, Input!listVars, Input!fileVars, Input!sendVars
<1> HIDE DEF q
<1> QED
  BY <1>1, <1>2, QueryKeeps

LEMMA TypeQueryKeeps ==
  ASSUME InputInv, NEW q \in Typed \cup {None}, Input!TypeQuery(q) PROVE InputInv'
<1>1. /\ message' = [Input!Empty EXCEPT !.query = q]
      /\ heard' = heard /\ newWords' = newWords /\ mic' = mic /\ usable' = usable
      /\ mine' = mine /\ fetched' = fetched
      /\ attached' = attached /\ batch' = batch /\ newFiles' = newFiles /\ removed' = removed
      /\ times' = times /\ echo' = echo /\ Input!Reset(highlight)
  BY DEF Input!TypeQuery, Input!listVars, Input!fileVars, Input!sendVars
<1> QED
  BY <1>1, QueryKeeps

LEMMA TypeWordKeeps ==
  ASSUME InputInv, NEW w \in newWords, Input!TypeWord(w) PROVE InputInv'
<1>0. InputTyped /\ HighlightFits /\ WordsOnce
  BY DEF InputInv
<1> DEFINE ws == IF Input!Open(message) THEN <<w>> ELSE Append(message.words, w)
<1>1. /\ message' = [query |-> None, words |-> ws] /\ newWords' = newWords \ {w}
      /\ heard' = heard /\ mic' = mic /\ usable' = usable
      /\ mine' = mine /\ fetched' = fetched
      /\ attached' = attached /\ batch' = batch /\ newFiles' = newFiles /\ removed' = removed
      /\ times' = times /\ echo' = echo /\ Input!Reset(highlight)
  BY DEF Input!TypeWord, Input!listVars, Input!fileVars, Input!sendVars
<1>2. w \in Word /\ message.words \in Seq(Word)
  BY <1>0, TextTyped DEF InputTyped
<1>3. ws \in Seq(Word) /\ ToSet(ws) \subseteq ToSet(message.words) \cup {w}
  <2>1. <<w>> \in Seq(Word) /\ ToSet(<<w>>) = {w}
    BY <1>2 DEF ToSet
  <2>2. /\ Append(message.words, w) \in Seq(Word)
        /\ ToSet(Append(message.words, w)) = ToSet(message.words) \cup {w}
    BY <1>2, Appended
  <2> QED
    BY <2>1, <2>2
<1> HIDE DEF ws
<1>4. message' \in Input!Text /\ message'.words = ws
  BY <1>1, <1>3 DEF Input!Text
<1>5. HighlightFits' /\ highlight' \in Nat
  BY <1>0, <1>1, <1>4, ResetFits DEF InputTyped, HighlightFits
<1>6. mic' = "off" => heard' = Input!Empty /\ ToSet(message'.words) \cap newWords' = {}
  BY <1>0, <1>1, <1>3, <1>4 DEF WordsOnce
<1> QED
  BY <1>0, <1>1, <1>3, <1>4, <1>5, <1>6, TextKeeps DEF InputTyped

LEMMA ToggleMicKeeps ==
  ASSUME InputInv, Input!ToggleMic PROVE InputInv'
<1>0. InputTyped /\ HighlightFits /\ WordsOnce
  BY DEF InputInv
<1>1. /\ mic' = IF mic = "off" THEN "on" ELSE "stopping"
      /\ heard' = IF mic = "off" THEN message ELSE heard
      /\ message' = message /\ newWords' = newWords /\ highlight' = highlight
      /\ usable' = usable /\ mine' = mine /\ fetched' = fetched
      /\ attached' = attached /\ batch' = batch /\ newFiles' = newFiles /\ removed' = removed
      /\ times' = times /\ echo' = echo
  BY DEF Input!ToggleMic, Input!listVars, Input!fileVars, Input!sendVars
<1>2. HighlightFits'
  BY <1>0, <1>1, HighlightStays
<1> QED
  BY <1>0, <1>1, <1>2, TextKeeps DEF InputTyped

LEMMA HearKeeps ==
  ASSUME InputInv, NEW w \in newWords, NEW final \in BOOLEAN, Input!Hear(w, final)
  PROVE  InputInv'
<1>0. InputTyped /\ HighlightFits /\ WordsOnce
  BY DEF InputInv
<1> DEFINE q == IF Input!Open(heard) THEN Noise ELSE None
           ws == Append(heard.words, w)
<1>1. /\ message' = [query |-> q, words |-> ws]
      /\ \/ heard' = message' /\ newWords' = newWords \ {w}
         \/ heard' = heard /\ newWords' = newWords
      /\ mic # "off" /\ mic' = mic /\ usable' = usable
      /\ mine' = mine /\ fetched' = fetched
      /\ attached' = attached /\ batch' = batch /\ newFiles' = newFiles /\ removed' = removed
      /\ times' = times /\ echo' = echo /\ Input!Reset(highlight)
  BY DEF Input!Hear, Input!listVars, Input!fileVars, Input!sendVars
<1>2. w \in Word /\ heard.words \in Seq(Word)
  BY <1>0, TextTyped DEF InputTyped
<1>3. ws \in Seq(Word) /\ ToSet(ws) = ToSet(heard.words) \cup {w}
  BY <1>2, Appended
<1>4. q \in Typed \cup {None}
  BY ControlsAssumption
<1> HIDE DEF q, ws
<1>5. message' \in Input!Text /\ message'.words = ws
  BY <1>1, <1>3, <1>4 DEF Input!Text
<1>6. HighlightFits' /\ highlight' \in Nat
  BY <1>0, <1>1, <1>5, ResetFits DEF InputTyped, HighlightFits
<1>7. /\ heard' \in Input!Text /\ newWords' \subseteq newWords
      /\ ToSet(heard'.words) \subseteq ToSet(heard.words) \cup {w}
  BY <1>0, <1>1, <1>3, <1>5 DEF InputTyped
<1> QED
  BY <1>0, <1>1, <1>3, <1>5, <1>6, <1>7, TextKeeps DEF InputTyped

LEMMA MicEndsKeeps ==
  ASSUME InputInv, Input!MicEnds PROVE InputInv'
<1>0. InputTyped /\ HighlightFits /\ WordsOnce
  BY DEF InputInv
<1>1. /\ mic' = "off" /\ heard' = Input!Empty
      /\ newWords' = newWords \ ToSet(message.words)
      /\ message' = message /\ highlight' = highlight
      /\ usable' = usable /\ mine' = mine /\ fetched' = fetched
      /\ attached' = attached /\ batch' = batch /\ newFiles' = newFiles /\ removed' = removed
      /\ times' = times /\ echo' = echo
  BY SameInput DEF Input!MicEnds, Input!listVars, Input!fileVars, Input!sendVars
<1>2. HighlightFits'
  BY <1>0, <1>1, HighlightStays
<1>3. heard' \in Input!Text /\ ToSet(heard'.words) = {}
  BY <1>1, TextTyped, NoEntries
<1> QED
  BY <1>0, <1>1, <1>2, <1>3, TextKeeps DEF InputTyped

\* The arrows and the mouse, the fetch of the records, and what disables the input.
LEMMA ViewKeeps ==
  ASSUME InputInv,
         \/ \E i \in 0 .. Len(Input!Palette) - 1 : Input!Choose(i)
         \/ Input!Load \/ Input!Able
  PROVE  InputInv'
<1>0. InputTyped /\ HighlightFits /\ WordsOnce
  BY DEF InputInv
<1>1. ASSUME NEW i \in 0 .. Len(Input!Palette) - 1, Input!Choose(i) PROVE InputInv'
  <2>1. /\ highlight' = i /\ mic' = mic /\ usable' = usable
        /\ message' = message /\ heard' = heard /\ newWords' = newWords
        /\ mine' = mine /\ fetched' = fetched
        /\ attached' = attached /\ batch' = batch /\ newFiles' = newFiles /\ removed' = removed
        /\ times' = times /\ echo' = echo
    BY <1>1 DEF Input!Choose, Input!wordVars, Input!listVars, Input!fileVars, Input!sendVars
  <2>2. Input!Palette' = Input!Palette
    BY <2>1 DEF Input!Palette
  <2>3. i \in Nat /\ i < Len(Input!Palette)
    BY <1>0, PaletteTyped
  <2>4. HighlightFits'
    BY <2>1, <2>2, <2>3 DEF HighlightFits
  <2> QED
    BY <1>0, <2>1, <2>3, <2>4, TextKeeps DEF InputTyped, WordsOnce
<1>2. CASE Input!Load
  <2>1. /\ fetched' = TRUE /\ mine' \in Lists \cup {<<>>}
        /\ mic' = mic /\ usable' = usable
        /\ message' = message /\ heard' = heard /\ newWords' = newWords
        /\ attached' = attached /\ batch' = batch /\ newFiles' = newFiles /\ removed' = removed
        /\ times' = times /\ echo' = echo /\ Input!Reset(highlight)
    BY <1>2 DEF Input!Load, Input!wordVars, Input!fileVars, Input!sendVars
  <2>2. HighlightFits' /\ highlight' \in Nat
    BY <1>0, <2>1, ResetFits DEF InputTyped, HighlightFits
  <2> QED
    BY <1>0, <2>1, <2>2, TextKeeps DEF InputTyped, WordsOnce
<1>3. CASE Input!Able
  <2>1. /\ usable' = ~usable /\ highlight' = highlight /\ mic' = mic
        /\ message' = message /\ heard' = heard /\ newWords' = newWords
        /\ mine' = mine /\ fetched' = fetched
        /\ attached' = attached /\ batch' = batch /\ newFiles' = newFiles /\ removed' = removed
        /\ times' = times /\ echo' = echo
    BY <1>3 DEF Input!Able, Input!wordVars, Input!listVars, Input!fileVars, Input!sendVars
  <2>2. HighlightFits'
    BY <1>0, <2>1, HighlightStays
  <2> QED
    BY <1>0, <2>1, <2>2, TextKeeps DEF InputTyped, WordsOnce
<1> QED
  BY <1>1, <1>2, <1>3

\* Actions on the files, which send nothing.
LEMMA FilesKeep ==
  ASSUME InputInv, attached' \in Seq(File), batch' \in Seq(File), newFiles' \subseteq newFiles,
         removed' \subseteq File, FilesOnce',
         message' = message, heard' = heard, newWords' = newWords, highlight' = highlight,
         mic' = mic, usable' = usable, mine' = mine, fetched' = fetched,
         times' = times, echo' = echo
  PROVE  InputInv'
<1>0. InputTyped /\ HighlightFits /\ WordsOnce
  BY DEF InputInv
<1>1. HighlightFits'
  BY <1>0, HighlightStays
<1>2. InputTyped'
  BY <1>0 DEF InputTyped
<1>3. WordsOnce'
  BY <1>0 DEF WordsOnce
<1> QED
  BY <1>1, <1>2, <1>3 DEF InputInv

\* What can be chosen is a list of files, none twice.
LEMMA Chosen ==
  ASSUME InputTyped, NEW fs \in Input!SetToAllKPermutations(newFiles)
  PROVE  fs \in Seq(File) /\ IsInjective(fs)
<1>1. PICK s \in SUBSET newFiles : fs \in Input!SetToSeqs(s)
  BY DEF Input!SetToAllKPermutations
<1>2. s \in SUBSET File /\ IsFiniteSet(s)
  BY ControlsAssumption, FS_Subset DEF InputTyped
<1> DEFINE n == Cardinality(s)
<1>3. n \in Nat
  BY <1>2, FS_CardinalityType
<1>4. fs \in [1 .. n -> s] /\ \A i, j \in 1 .. n : i # j => fs[i] # fs[j]
  BY <1>1 DEF Input!SetToSeqs, Input!Cardinality, Cardinality
<1> HIDE DEF n
<1> QED
  BY <1>2, <1>3, <1>4 DEF IsInjective

LEMMA ChooseFilesKeeps ==
  ASSUME InputInv, NEW fs \in Input!SetToAllKPermutations(newFiles), Input!ChooseFiles(fs)
  PROVE  InputInv'
<1>0. InputTyped /\ FilesOnce
  BY DEF InputInv
<1>1. /\ batch = <<>> /\ ToSet(fs) \subseteq newFiles
      /\ batch' = fs /\ newFiles' = newFiles \ ToSet(fs)
      /\ attached' = attached /\ removed' = removed /\ highlight' = highlight
      /\ mic' = mic /\ usable' = usable
      /\ message' = message /\ heard' = heard /\ newWords' = newWords
      /\ mine' = mine /\ fetched' = fetched /\ times' = times /\ echo' = echo
  BY SameInput DEF Input!ChooseFiles, Input!wordVars, Input!listVars, Input!sendVars
<1>2. fs \in Seq(File) /\ IsInjective(fs)
  BY <1>0, Chosen
<1>3. ToSet(batch) = {}
  BY <1>1, NoEntries
<1>4. FilesOnce'
  BY <1>0, <1>1, <1>2, <1>3 DEF FilesOnce
<1> QED
  BY <1>0, <1>1, <1>2, <1>4, FilesKeep DEF InputTyped

LEMMA UploadKeeps ==
  ASSUME InputInv, Input!UploadEnds \/ Input!UploadFails PROVE InputInv'
<1>0. InputTyped /\ FilesOnce
  BY DEF InputInv
<1> DEFINE f == Head(batch)
<1>1. /\ batch # <<>> /\ batch' = Tail(batch) /\ newFiles' = newFiles
      /\ \/ attached' = Append(attached, f) /\ removed' = removed
         \/ attached' = attached /\ removed' = removed \cup {f}
      /\ highlight' = highlight /\ mic' = mic /\ usable' = usable
      /\ message' = message /\ heard' = heard /\ newWords' = newWords
      /\ mine' = mine /\ fetched' = fetched /\ times' = times /\ echo' = echo
  BY DEF Input!UploadEnds, Input!UploadFails, Input!wordVars, Input!listVars, Input!sendVars
<1>2. attached \in Seq(File) /\ batch \in Seq(File) /\ removed \subseteq File
  BY <1>0 DEF InputTyped
<1>3. /\ f \in File /\ f \in ToSet(batch) /\ batch' \in Seq(File)
      /\ IsInjective(batch') /\ ToSet(batch') = ToSet(batch) \ {f}
  BY <1>0, <1>1, <1>2, Tailed DEF FilesOnce
<1> HIDE DEF f
<1>4. CASE attached' = Append(attached, f) /\ removed' = removed
  <2>1. /\ attached' \in Seq(File) /\ ToSet(attached') = ToSet(attached) \cup {f}
        /\ IsInjective(attached')
    BY <1>0, <1>2, <1>3, <1>4, Appended DEF FilesOnce
  <2>2. FilesOnce'
    BY <1>0, <1>1, <1>3, <1>4, <2>1 DEF FilesOnce
  <2> QED
    BY <1>1, <1>2, <1>3, <1>4, <2>1, <2>2, FilesKeep
<1>5. CASE attached' = attached /\ removed' = removed \cup {f}
  <2>1. FilesOnce'
    BY <1>0, <1>1, <1>3, <1>5 DEF FilesOnce
  <2> QED
    BY <1>1, <1>2, <1>3, <1>5, <2>1, FilesKeep
<1> QED
  BY <1>1, <1>4, <1>5

LEMMA RemoveFileKeeps ==
  ASSUME InputInv, NEW f \in Input!ToSet(attached), Input!RemoveFile(f) PROVE InputInv'
<1>0. InputTyped /\ FilesOnce
  BY DEF InputInv
<1>1. /\ attached' = Keep(attached, File \ {f}) /\ removed' = removed \cup {f}
      /\ batch' = batch /\ newFiles' = newFiles
      /\ highlight' = highlight /\ mic' = mic /\ usable' = usable
      /\ message' = message /\ heard' = heard /\ newWords' = newWords
      /\ mine' = mine /\ fetched' = fetched /\ times' = times /\ echo' = echo
  BY SameInput DEF Input!RemoveFile, Input!wordVars, Input!listVars, Input!sendVars
<1>2. /\ attached \in Seq(File) /\ batch \in Seq(File) /\ removed \subseteq File
      /\ f \in ToSet(attached) /\ ToSet(attached) \subseteq File
  BY <1>0, SameInput, Entries DEF InputTyped
<1>3. /\ attached' \in Seq(File) /\ ToSet(attached') = ToSet(attached) \cap (File \ {f})
      /\ IsInjective(attached')
  BY <1>0, <1>1, <1>2, Kept DEF FilesOnce
<1>4. FilesOnce'
  BY <1>0, <1>1, <1>2, <1>3 DEF FilesOnce
<1> QED
  BY <1>1, <1>2, <1>3, <1>4, FilesKeep

LEMMA InputStarts == ASSUME Input!ChatInputInit PROVE InputInv
<1>1. /\ message = Input!Empty /\ heard = Input!Empty /\ highlight = 0
      /\ mine = <<>> /\ fetched = FALSE
      /\ attached = <<>> /\ batch = <<>> /\ removed = {}
      /\ usable = TRUE /\ mic = "off" /\ newWords = Word /\ newFiles = File
      /\ times = [x \in Word \cup File |-> 0] /\ echo = FALSE
  BY DEF Input!ChatInputInit
<1>2. InputTyped
  <2>1. <<>> \in Seq(File)
    OBVIOUS
  <2>2. attached \in Seq(File) /\ batch \in Seq(File)
    BY <1>1, <2>1, Zenon
  <2>3. times \in [Word \cup File -> 0 .. 2]
    BY <1>1
  <2>4. /\ mine \in Lists \cup {<<>>} /\ message \in Input!Text /\ heard \in Input!Text
    BY <1>1, TextTyped, Zenon
  <2>5. /\ fetched \in BOOLEAN /\ highlight \in Nat /\ usable \in BOOLEAN /\ echo \in BOOLEAN
        /\ mic \in {"off", "on", "stopping"} /\ newWords \subseteq Word
        /\ newFiles \subseteq File /\ removed \subseteq File
    BY <1>1
  <2> QED
    BY <2>2, <2>3, <2>4, <2>5, Zenon DEF InputTyped
<1>3. HighlightFits
  <2>1. Input!Palette # <<>> => Len(Input!Palette) # 0 /\ Len(Input!Palette) \in Nat
    BY <1>2, PaletteTyped
  <2> QED
    BY <1>1, <2>1 DEF HighlightFits
<1>4. FilesOnce
  BY <1>1, NoEntries DEF FilesOnce
<1>5. ToSet(message.words) = {}
  BY <1>1, TextTyped, NoEntries
<1>6. WordsOnce
  BY <1>1, <1>5 DEF WordsOnce
<1> QED
  BY <1>2, <1>3, <1>4, <1>6 DEF InputInv

LEMMA InputKeeps == ASSUME InputInv, Input!ChatInputNext PROVE InputInv'
<1>1. ASSUME NEW i \in 0 .. Len(Input!Palette) - 1, Input!Pick(i) PROVE InputInv'
  BY <1>1, RunKeeps DEF Input!Pick
<1>2. ASSUME NEW w \in newWords, NEW final \in BOOLEAN, Input!Hear(w, final) PROVE InputInv'
  BY <1>2, HearKeeps
<1>3. ASSUME NEW f \in Input!ToSet(attached), Input!RemoveFile(f) PROVE InputInv'
  BY <1>3, RemoveFileKeeps
<1> QED
  BY <1>1, <1>2, <1>3, SubmitKeeps, TabKeeps, ToggleMicKeeps, MicEndsKeeps, ViewKeeps,
     UploadKeeps, TypeQueryKeeps, TypeWordKeeps, ChooseFilesKeeps
     DEF Input!ChatInputNext

\* What InputInv says of the input.
LEMMA InputSays == ASSUME InputInv PROVE Input!ChatInputTypeOK /\ Input!InputIsSound
<1>0. InputTyped /\ HighlightFits /\ FilesOnce /\ WordsOnce
  BY DEF InputInv
<1>1. /\ attached \in Seq(File) /\ batch \in Seq(File) /\ removed \subseteq File
      /\ newFiles \subseteq File
  BY <1>0 DEF InputTyped
<1>2. /\ ToSet(attached \o batch) = ToSet(attached) \cup ToSet(batch)
      /\ IsInjective(attached \o batch)
  BY <1>0, <1>1, Joined DEF FilesOnce
<1>3. Input!ChatInputTypeOK
  BY <1>0, <1>2, SameInput DEF Input!ChatInputTypeOK, InputTyped
<1>4. Input!CommandIsRun
  BY <1>0 DEF Input!CommandIsRun, HighlightFits
<1>5. Input!SendsOnce
  <2>1. ASSUME NEW f \in File \ (newFiles \cup removed)
        PROVE  times[f] = IF f \in Input!ToSet(attached \o batch) THEN 0 ELSE 1
    BY <1>0, <1>2, SameInput DEF FilesOnce
  <2>2. \A f \in removed : times[f] = 0
    BY <1>0, <1>1 DEF FilesOnce
  <2>3. ~echo => \A w \in Word : times[w] <= 1
    BY <1>0 DEF WordsOnce
  <2> QED
    BY <2>1, <2>2, <2>3 DEF Input!SendsOnce
<1> QED
  BY <1>3, <1>4, <1>5 DEF Input!InputIsSound

LEMMA InputInvariant == ControlsSpec => []InputInv
<1>1. ControlsInit => InputInv
  BY InputStarts DEF ControlsInit
<1>2. InputInv /\ [ControlsNext]_vars => InputInv'
  <2> SUFFICES ASSUME InputInv, [ControlsNext]_vars PROVE InputInv'
    OBVIOUS
  <2>1. CASE ChatStep
    BY <2>1, InputKeeps DEF ChatStep
  <2>2. CASE SettingsStep \/ ShareStep \/ RatingStep \/ UNCHANGED vars
    <3>1. UNCHANGED chatVars
      BY <2>2 DEF SettingsStep, ShareStep, RatingStep, vars
    <3>2. /\ attached' = attached /\ batch' = batch /\ newFiles' = newFiles
          /\ removed' = removed /\ highlight' = highlight /\ mic' = mic /\ usable' = usable
          /\ message' = message /\ heard' = heard /\ newWords' = newWords
          /\ mine' = mine /\ fetched' = fetched /\ times' = times /\ echo' = echo
      BY <3>1 DEF chatVars
    <3>3. InputTyped /\ FilesOnce
      BY DEF InputInv
    <3>4. FilesOnce'
      BY <3>2, <3>3 DEF FilesOnce
    <3> QED
      BY <3>2, <3>3, <3>4, FilesKeep DEF InputTyped
  <2> QED
    BY <2>1, <2>2 DEF ControlsNext
<1> QED
  BY <1>1, <1>2, PTL DEF ControlsSpec

\* Enter runs the command that is highlighted whenever one is offered, each file goes
\* with one message unless it was taken off, and each word with one (chat-input.tsx):
\* however the list, the uploads, the microphone and the connection change meanwhile.
THEOREM InputStaysSound == ControlsSpec => []InputIsSound
<1>1. InputInv => InputIsSound
  BY InputSays DEF InputIsSound
<1> QED
  BY <1>1, InputInvariant, PTL
=============================================================================
