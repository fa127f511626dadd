---------------------------- MODULE RatingButtons ----------------------------
(***************************************************************************)
(* The rating of a message: its buttons (components/chat/rating-buttons),  *)
(* the message as the chat's store shows it and as the conversation's      *)
(* store keeps it, the requests, and the row of the rating                 *)
(* (services/message_rating.py).                                           *)
(*                                                                         *)
(* Only the owner of a conversation may rate, so that the counts of a      *)
(* message are of the one rating there may be.  A request reads and writes *)
(* in one step (Workspace has the finer ones), and commits after its       *)
(* answer.  Comments are left out.                                         *)
(***************************************************************************)
EXTENDS Integers

CONSTANTS
  Call, \* slots for the requests that are under way
  None

Like    == 1
Dislike == -1
Rating  == {Like, Dislike, None}

VARIABLES
  admin,     \* whether the user's role is admin; never changes
  stored,    \* the rating in the database
  call,      \* the requests under way
  shown,     \* user_rating and rating_count of the message, or None if it is not shown
  cached,    \* the same in currentMessages, or None if it is not there
  comment,   \* showCommentDialog
  screenOld, \* whether the rating has been changed since what is shown was read or made,
             \* or it was read without
  cacheOld   \* the same of what is cached

pageVars == <<shown, cached, comment, screenOld, cacheOld>>
ratingVars == <<admin, stored, call, pageVars>>

Shown == [rating : Rating, likes : Nat, dislikes : Nat]

\* A request has what its callback has captured: was, the message as it was shown.
\* own: the buttons that asked are still there; old: its answer is, as what is shown.
Idle == [kind |-> "none", rating |-> None, was |-> None, at |-> "free",
         own |-> FALSE, told |-> FALSE, old |-> FALSE]

\* isLoading
Loading == \E k \in Call : call[k].own /\ ~call[k].told

RatingTypeOK ==
  /\ stored \in Rating /\ admin \in BOOLEAN
  /\ {shown, cached} \subseteq Shown \cup {None}
  /\ {comment, screenOld, cacheOld} \subseteq BOOLEAN
  /\ \A k \in Call :
       /\ call[k].at \in {"free", "sent", "open", "done", "bad"}
       /\ call[k].at = "free" <=> call[k] = Idle
       /\ call[k].kind \in {"rate", "remove", "load", "other", "none"}
       /\ call[k].was \in Shown \cup {None} /\ call[k].rating \in Rating

-----------------------------------------------------------------------------
(* The server                                                               *)

Opened(kind) == \E k \in Call : call[k].kind = kind /\ call[k].at = "open"

CountOf(r, value) == IF r = value THEN 1 ELSE 0

\* The message as the history gives it.
MessageOf(r) == [rating |-> r, likes |-> CountOf(r, Like), dislikes |-> CountOf(r, Dislike)]

Fail(k) == call' = [call EXCEPT ![k].at = "bad"] /\ UNCHANGED stored /\ UNCHANGED pageVars

\* Whatever has been read or answered before a change is old.
Outdate == screenOld' = TRUE /\ cacheOld' = TRUE /\ UNCHANGED <<shown, cached, comment>>
Outdated(c) == IF c.at \in {"open", "done"} THEN [c EXCEPT !.old = TRUE] ELSE c

Write(k) ==
  /\ call' = [o \in Call |-> IF o = k THEN [call[k] EXCEPT !.at = "open", !.old = FALSE]
                             ELSE Outdated(call[o])]
  /\ Outdate /\ UNCHANGED stored

\* rate_message: an INSERT waits for an open one and becomes an UPDATE; an UPDATE of
\* a row that is being removed waits too, and then fails.
ServeRate(k) ==
  /\ call[k].kind = "rate" /\ call[k].at = "sent"
  /\ IF stored # None /\ Opened("remove") THEN Fail(k) ELSE ~Opened("rate") /\ Write(k)

\* remove_rating: a rating that is not there, or not committed, is not found.
ServeRemove(k) ==
  /\ call[k].kind = "remove" /\ call[k].at = "sent"
  /\ IF stored = None THEN Fail(k) ELSE ~Opened("rate") /\ Write(k)

\* An admin's history comes without ratings.
ServeLoad(k) ==
  /\ call[k].kind = "load" /\ call[k].at = "sent"
  /\ call' = [call EXCEPT ![k].at = "done", ![k].rating = IF admin THEN None ELSE stored,
                          ![k].old = admin \/ Opened("rate") \/ Opened("remove")]
  /\ UNCHANGED stored /\ UNCHANGED pageVars

\* Of two open removals the one that has waited removes nothing.
Commit(k) ==
  /\ call[k].at = "open"
  /\ stored' = IF call[k].kind = "rate" THEN call[k].rating ELSE None
  /\ call' = [o \in Call |->
       IF call[o].at = "open" /\ (o = k \/ call[k].kind = "remove")
       THEN IF call[o].told THEN Idle ELSE [call[o] EXCEPT !.at = "done"]
       ELSE call[o]]
  /\ UNCHANGED pageVars

\* The proxy or the server refuses a request.
Refuse(k) == call[k].at = "sent" /\ Fail(k)

\* The answer to a change does not arrive.
Lose(k) == call[k].kind \in {"rate", "remove"} /\ call[k].at = "done" /\ Fail(k)

\* The user in another tab.
Others ==
  /\ ~Opened("rate") /\ ~Opened("remove")
  /\ stored' \in Rating \ {stored}
  /\ call' = [k \in Call |-> Outdated(call[k])]
  /\ Outdate

-----------------------------------------------------------------------------
(* The buttons                                                              *)

Ask(k, request) ==
  /\ call[k].at = "free"
  /\ call' = [call EXCEPT ![k] = [request EXCEPT !.at = "sent"]]
  /\ UNCHANGED stored

AtLeastZero(n) == IF n < 0 THEN 0 ELSE n

\* calculateNewCounts
Counts(was, new) ==
  [rating |-> new,
   likes |-> AtLeastZero(was.likes - CountOf(was.rating, Like) + CountOf(new, Like)),
   dislikes |-> AtLeastZero(was.dislikes - CountOf(was.rating, Dislike) + CountOf(new, Dislike))]

\* submitRating
Submit(k, r) ==
  /\ Ask(k, [Idle EXCEPT !.kind = "rate", !.rating = r, !.was = shown, !.own = TRUE])
  /\ UNCHANGED pageVars

\* The buttons wait for the request they made; the dialog hides them.
Enabled == shown # None /\ ~comment /\ ~Loading

\* handleRate: the button of the rating that is there removes it,
Remove(k) ==
  /\ Enabled /\ shown.rating # None
  /\ Ask(k, [Idle EXCEPT !.kind = "remove", !.was = shown, !.own = TRUE])
  /\ UNCHANGED pageVars

\* a like is sent,
RateLike(k) == Enabled /\ shown.rating # Like /\ Submit(k, Like)

\* and a dislike asks for a comment first.
AskComment ==
  /\ Enabled /\ shown.rating # Dislike
  /\ comment' = TRUE
  /\ UNCHANGED <<stored, call, shown, cached, screenOld, cacheOld>>

\* "Submit" and "Skip" in the dialog, which is for a dislike.
SubmitComment(k) == comment /\ ~Loading /\ Submit(k, Dislike)

\* The dialog can be left, by Escape also while its request is under way.
CloseComment ==
  /\ comment /\ comment' = FALSE
  /\ UNCHANGED <<stored, call, shown, cached, screenOld, cacheOld>>

Answered(k, kinds, ok) ==
  /\ call[k].kind \in kinds /\ ~call[k].told
  /\ call[k].at \in IF ok THEN {"open", "done"} ELSE {"bad"}
  /\ call' = [call EXCEPT ![k] = IF @.at = "open" THEN [@ EXCEPT !.told = TRUE] ELSE Idle]
  /\ UNCHANGED stored

\* What a change leaves in the database.
Result(k) == IF call[k].kind = "rate" THEN call[k].rating ELSE None

ApplyRatingToShown(k) ==
  /\ Answered(k, {"rate", "remove"}, TRUE)
  /\ shown' = IF shown = None THEN None
              ELSE Counts([shown EXCEPT !.rating = call[k].was.rating], Result(k))
  /\ comment' = (comment /\ ~(call[k].kind = "rate" /\ call[k].own))
  /\ screenOld' = call[k].old
  /\ UNCHANGED <<cached, cacheOld>>

\* onRatingChange, which updates the message if it is shown, whichever buttons asked;
\* the conversation's store keeps what it has.
ApplyRating(k) ==
  /\ Answered(k, {"rate", "remove"}, TRUE)
  /\ shown' = IF shown = None THEN None ELSE Counts(call[k].was, Result(k))
  /\ comment' = (comment /\ ~(call[k].kind = "rate" /\ call[k].own))
  /\ screenOld' = call[k].old
  /\ UNCHANGED <<cached, cacheOld>>

\* Told to the user only; the dialog stays.
ApplyFailure(k) ==
  /\ Answered(k, {"rate", "remove", "load", "other"}, FALSE)
  /\ UNCHANGED pageVars

-----------------------------------------------------------------------------
(* The conversation                                                         *)

\* The buttons go, their requests go on.
Disowned(calls) == [k \in Call |-> [calls[k] EXCEPT !.own = FALSE]]

\* The chat is cleared and a history asked for: the message's ("load") or another's.
Fetch(k, kind) ==
  /\ call[k].at = "free"
  /\ call' = Disowned([call EXCEPT ![k] = [Idle EXCEPT !.kind = kind, !.at = "sent"]])
  /\ shown' = None /\ comment' = FALSE
  /\ UNCHANGED <<stored, cached, screenOld, cacheOld>>

\* selectConversation, of another conversation and of the message's, whatever is shown
\* or being fetched.
LeaveConversation(k) == Fetch(k, "other")
Select(k) == Fetch(k, "load")

\* setCurrentMessages; the chat container shows them.
ApplyLoad(k) ==
  /\ Answered(k, {"load"}, TRUE)
  /\ shown' = MessageOf(call[k].rating) /\ cached' = shown'
  /\ screenOld' = call[k].old /\ cacheOld' = call[k].old
  /\ UNCHANGED comment

\* Another conversation's messages replace those that are cached, and, when there are
\* any, those that are shown.
ApplyOther(k) ==
  /\ call[k].kind = "other" /\ call[k].at = "sent"
  /\ cached' = None
  /\ LET ended == [call EXCEPT ![k] = Idle] IN
     \/ shown' = None /\ comment' = FALSE /\ call' = Disowned(ended)
     \/ call' = ended /\ UNCHANGED <<shown, comment>>
  /\ UNCHANGED <<stored, screenOld, cacheOld>>

\* startNewChat
StartNewChat ==
  /\ shown' = None /\ cached' = None /\ comment' = FALSE
  /\ call' = Disowned(call)
  /\ UNCHANGED <<stored, screenOld, cacheOld>>

\* The user leaves the page and comes back: the container shows currentMessages again,
\* with the rating that was fetched.
Revisit ==
  /\ IF cached # None THEN shown' = cached /\ screenOld' = cacheOld ELSE UNCHANGED <<shown, screenOld>>
  /\ comment' = FALSE
  /\ call' = Disowned(call)
  /\ UNCHANGED <<stored, cached, cacheOld>>

-----------------------------------------------------------------------------
(* The specification                                                        *)

\* The message is not shown, or has just been received.
RatingInit ==
  /\ stored \in Rating /\ admin \in BOOLEAN
  /\ call = [k \in Call |-> Idle]
  /\ shown = None \/ (stored = None /\ shown = MessageOf(None))
  /\ cached = None /\ comment = FALSE
  /\ screenOld = FALSE /\ cacheOld = FALSE

RatingNext ==
  /\ \/ AskComment \/ CloseComment \/ StartNewChat \/ Revisit \/ Others
     \/ \E k \in Call :
          \/ Remove(k) \/ RateLike(k) \/ SubmitComment(k) \/ Select(k) \/ LeaveConversation(k)
          \/ ServeRate(k) \/ ServeRemove(k) \/ ServeLoad(k) \/ Commit(k) \/ Refuse(k) \/ Lose(k)
          \/ ApplyRating(k) \/ ApplyFailure(k) \/ ApplyLoad(k) \/ ApplyOther(k)
  /\ UNCHANGED admin

-----------------------------------------------------------------------------
(* Properties                                                               *)

\* The rating that will be stored when what is open has committed.
Newest ==
  IF Opened("rate") \/ Opened("remove")
  THEN {Result(k) : k \in {o \in Call : call[o].at = "open"}} ELSE {stored}

\* The message shows the newest rating, and its counts, which the page computes from
\* the message as it was when the button was pressed, until the rating is changed
\* again: from the answer to its last change on, or from a history read after that,
\* although answers come before they commit, late, and when the conversation has been
\* left and selected again, and histories in any order.
RatingIsShown == shown # None /\ ~screenOld => {shown} = {MessageOf(r) : r \in Newest}

\* The two stores have the message alike.  It does not hold: a rating goes to the chat's
\* only (message-item.tsx:227-232), and the next visit shows the other again.
StoresAgree == shown # None /\ cached # None => shown = cached
=============================================================================
