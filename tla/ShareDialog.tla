----------------------------- MODULE ShareDialog -----------------------------
(***************************************************************************)
(* The dialog that shares a conversation: the page                         *)
(* (components/chat/share-dialog.tsx over hooks/use-conversation-shares),  *)
(* the requests it makes, and the shares of the conversation               *)
(* (services/conversation_share.py).                                       *)
(*                                                                         *)
(* The dialog is a component that is there while it is open: what it knows *)
(* goes when it closes, and answers to a dialog that has gone are dropped. *)
(* A request reads and writes in one step (Workspace has the finer ones),  *)
(* and commits after its answer.  Permissions and the tokens of links are  *)
(* left out.                                                               *)
(***************************************************************************)
EXTENDS ListFilter, SequencesExt

CONSTANTS
  Call,   \* slots for the requests that are under way
  User,   \* users to share with
  Link,   \* shared with whoever has the link
  MaxIds, \* bounds the shares that are made
  None

VARIABLES
  stored,   \* the shares of the conversation
  lastId,   \* the id made last
  call,     \* the requests under way
  open,     \* whether the dialog is there
  shares,   \* shares of the hook
  revoking, \* revokingId
  known,    \* the ids whose last change the dialog has been told: by the answer to it,
            \* or by a list that was read later
  tells,    \* of a request, the ids whose last change its answer has
  crossed,  \* whether a change has crossed the fetch of the shares
  missed,   \* whether an answer was lost, or the fetch failed, in this dialog
  stale     \* whether others have changed the shares since they were fetched

serverVars == <<stored, lastId>>
dialogVars == <<open, shares, revoking>>
toldVars == <<known, tells>>
noteVars == <<crossed, missed, stale>>
shareVars == <<serverVars, call, dialogVars, toldVars, noteVars>>

Share == [id : 1 .. MaxIds, with : User \cup {Link}]

\* told: nobody waits for the answer any more.
Idle == [kind |-> "none", with |-> None, id |-> None, at |-> "free", gives |-> <<>>,
         told |-> FALSE]

Pending(kinds) == {k \in Call : call[k].kind \in kinds}
Changes == {"share", "revoke"}

\* isLoading: loadingCount, of this dialog; isSharing and isGeneratingLink hold only
\* while it does.
Loading  == \E k \in Call : call[k].at # "free" /\ ~call[k].told
Fetching == \E k \in Pending({"list"}) : ~call[k].told

ShareTypeOK ==
  /\ stored \subseteq Share /\ lastId \in 0 .. MaxIds
  /\ \A k \in Call :
       /\ call[k].at \in {"free", "sent", "open", "done", "bad"}
       /\ call[k].at = "free" <=> call[k] = Idle
       /\ call[k].kind \in Changes \cup {"list", "none"}
       /\ ToSet(call[k].gives) \subseteq Share
       /\ call[k].at \notin {"open", "done"} \/ call[k].told => tells[k] = {}
  /\ ToSet(shares) \subseteq Share /\ revoking \in (1 .. MaxIds) \cup {None}
  /\ {open, crossed, missed, stale} \subseteq BOOLEAN 
  /\ known \subseteq 1 .. MaxIds /\ tells \in [Call -> SUBSET (1 .. MaxIds)]
  /\ ~open => shares = <<>> /\ known = {} /\ ~Loading

-----------------------------------------------------------------------------
(* The server                                                               *)

Taken(w) == w # Link /\ \E s \in stored : s.with = w

Fail(k) ==
  /\ call' = [call EXCEPT ![k].at = "bad", ![k].gives = <<>>]
  /\ tells' = [tells EXCEPT ![k] = {}] /\ UNCHANGED known

IdsOf(set) == {s.id : s \in set}

\* The ids that an open change is of.
IdsOpen(k) == IF call[k].at # "open" THEN {}
              ELSE IF call[k].kind = "share" THEN IdsOf(ToSet(call[k].gives)) ELSE {call[k].id}

\* What the answers tell when the share with id i has changed again.
Unsaid(i) == [o \in Call |-> tells[o] \ {i}]

\* What an answer tells, if somebody waits for it.
Told(k, ids) == IF call[k].told THEN {} ELSE ids

\* A change of the share with id i, of which its answer tells.
Write(k, i, given) ==
  /\ call' = [call EXCEPT ![k].at = "open", ![k].gives = given]
  /\ tells' = [Unsaid(i) EXCEPT ![k] = Told(k, {i})] /\ known' = known \ {i}

\* share_conversation: a user who has a share is refused; the INSERT waits for an
\* open one of the same user, and then breaks the unique key.  Links are not unique.
ServeShare(k) ==
  LET share == [id |-> lastId + 1, with |-> call[k].with] IN
  /\ call[k].kind = "share" /\ call[k].at = "sent"
  /\ call[k].with # Link =>
       \A o \in Call : call[o].at = "open" /\ call[o].kind = "share" => call[o].with # call[k].with
  /\ IF Taken(call[k].with) THEN Fail(k) /\ UNCHANGED lastId
     ELSE lastId < MaxIds /\ lastId' = share.id /\ Write(k, share.id, <<share>>)
  /\ UNCHANGED stored /\ UNCHANGED dialogVars /\ UNCHANGED noteVars

\* revoke_share: a share that is not there is refused; of two open ones of the same
\* share the second removes nothing.
ServeRevoke(k) ==
  /\ call[k].kind = "revoke" /\ call[k].at = "sent"
  /\ IF call[k].id \in IdsOf(stored) THEN Write(k, call[k].id, <<>>) ELSE Fail(k)
  /\ UNCHANGED serverVars /\ UNCHANGED dialogVars /\ UNCHANGED noteVars

\* list_shares, which sees what is committed.
ServeList(k) ==
  /\ call[k].kind = "list" /\ call[k].at = "sent"
  /\ call' = [call EXCEPT ![k].at = "done", ![k].gives = SetToSeq(stored)]
  /\ tells' = [tells EXCEPT ![k] = Told(k, (1 .. MaxIds) \ UNION {IdsOpen(o) : o \in Call})]
  /\ UNCHANGED serverVars /\ UNCHANGED dialogVars /\ UNCHANGED known /\ UNCHANGED noteVars

Commit(k) ==
  /\ call[k].at = "open"
  /\ stored' = IF call[k].kind = "share" THEN stored \cup ToSet(call[k].gives)
               ELSE {s \in stored : s.id # call[k].id}
  /\ call' = [call EXCEPT ![k] = IF @.told THEN Idle ELSE [@ EXCEPT !.at = "done"]]
  /\ UNCHANGED lastId /\ UNCHANGED dialogVars /\ UNCHANGED toldVars /\ UNCHANGED noteVars

\* The proxy or the server refuses a request.
Refuse(k) ==
  /\ call[k].at = "sent"
  /\ Fail(k)
  /\ UNCHANGED serverVars /\ UNCHANGED dialogVars /\ UNCHANGED noteVars

\* The answer to a change does not arrive.
Lose(k) ==
  /\ call[k].kind \in Changes /\ call[k].at = "done" /\ ~call[k].told
  /\ Fail(k)
  /\ missed' = TRUE
  /\ UNCHANGED serverVars /\ UNCHANGED dialogVars /\ UNCHANGED <<crossed, stale>>

\* An answer that nobody waits for.
Drop(k) ==
  /\ call[k].at \in {"done", "bad"} /\ call[k].told
  /\ call' = [call EXCEPT ![k] = Idle]
  /\ UNCHANGED serverVars /\ UNCHANGED dialogVars /\ UNCHANGED toldVars /\ UNCHANGED noteVars

\* A recipient gives a share back, or the owner changes the shares in another tab.
Others ==
  /\ \E i \in 1 .. MaxIds :
       /\ \/ \E s \in stored : s.id = i /\ stored' = stored \ {s} /\ UNCHANGED lastId
          \/ \E w \in User :
               /\ ~Taken(w) /\ i = lastId + 1
               /\ \A o \in Call : call[o].at = "open" => call[o].with # w
               /\ lastId' = i
               /\ stored' = stored \cup {[id |-> i, with |-> w]}
       /\ tells' = Unsaid(i) /\ known' = known \ {i}
  /\ stale' = TRUE
  /\ UNCHANGED call /\ UNCHANGED dialogVars /\ UNCHANGED <<crossed, missed>>

-----------------------------------------------------------------------------
(* The dialog                                                               *)

Ask(k, request) ==
  /\ call[k].at = "free"
  /\ call' = [call EXCEPT ![k] = [request EXCEPT !.at = "sent"]]
  /\ UNCHANGED serverVars

\* The dialog appears and fetches the shares; changes that an earlier one asked for
\* may still be under way.
OpenDialog(k) ==
  /\ ~open /\ open' = TRUE
  /\ Ask(k, [Idle EXCEPT !.kind = "list"])
  /\ crossed' = (\E o \in Pending(Changes) : call[o].at \in {"sent", "open"})
  /\ missed' = FALSE /\ stale' = FALSE
  /\ UNCHANGED <<shares, revoking>> /\ UNCHANGED toldVars

CloseDialog ==
  /\ open /\ open' = FALSE
  /\ call' = [k \in Call |-> IF call[k].at = "free" THEN Idle ELSE [call[k] EXCEPT !.told = TRUE]]
  /\ shares' = <<>> /\ revoking' = None
  /\ known' = {} /\ tells' = [k \in Call |-> {}]
  /\ UNCHANGED serverVars /\ UNCHANGED noteVars

\* The buttons wait for the requests of the dialog.
Pressable == open /\ ~Loading

\* handleShare, by its button.
PressShare(k, w) ==
  /\ Pressable
  /\ Ask(k, [Idle EXCEPT !.kind = "share", !.with = w])
  /\ UNCHANGED dialogVars /\ UNCHANGED toldVars /\ UNCHANGED noteVars

\* handleGenerateLink
PressLink(k) ==
  /\ Pressable
  /\ Ask(k, [Idle EXCEPT !.kind = "share", !.with = Link])
  /\ UNCHANGED dialogVars /\ UNCHANGED toldVars /\ UNCHANGED noteVars

\* Enter in the field asks for the same, and waits for nothing.
Enter(k, w) ==
  /\ open
  /\ Ask(k, [Idle EXCEPT !.kind = "share", !.with = w])
  /\ crossed' = (crossed \/ Fetching)
  /\ UNCHANGED dialogVars /\ UNCHANGED toldVars /\ UNCHANGED <<missed, stale>>

\* Only the button of the share revoked last is disabled.
Revocable(s) == open /\ s \in ToSet(shares) /\ revoking # s.id

RevokeAtOnce(k, s) ==
  /\ Revocable(s)
  /\ Ask(k, [Idle EXCEPT !.kind = "revoke", !.id = s.id])
  /\ revoking' = s.id
  /\ shares' = Keep(shares, {t \in ToSet(shares) : t.id # s.id})
  /\ crossed' = (crossed \/ Fetching)
  /\ UNCHANGED open /\ UNCHANGED toldVars /\ UNCHANGED <<missed, stale>>

\* handleRevoke
Revoke(k, s) ==
  /\ Revocable(s)
  /\ Ask(k, [Idle EXCEPT !.kind = "revoke", !.id = s.id])
  /\ revoking' = s.id
  /\ crossed' = (crossed \/ Fetching)
  /\ UNCHANGED <<open, shares>> /\ UNCHANGED toldVars /\ UNCHANGED <<missed, stale>>

Answered(k, kind, ok) ==
  /\ call[k].kind = kind /\ ~call[k].told
  /\ call[k].at \in IF ok THEN {"open", "done"} ELSE {"bad"}
  /\ call' = [call EXCEPT ![k] = IF @.at = "open" THEN [@ EXCEPT !.told = TRUE] ELSE Idle]
  /\ tells' = [tells EXCEPT ![k] = {}]
  /\ UNCHANGED serverVars /\ UNCHANGED open

\* The dialog is told of ids: what it knew of them is replaced.
Learn(k, ids) == known' = (known \ ids) \cup tells[k]

ApplyShare(k) ==
  /\ Answered(k, "share", TRUE)
  /\ shares' = call[k].gives \o shares /\ Learn(k, IdsOf(ToSet(call[k].gives)))
  /\ UNCHANGED revoking /\ UNCHANGED noteVars

ApplyRevoke(k) ==
  /\ Answered(k, "revoke", TRUE)
  /\ shares' = Keep(shares, {s \in ToSet(shares) : s.id # call[k].id}) /\ Learn(k, {call[k].id})
  /\ revoking' = None
  /\ UNCHANGED noteVars

ApplyList(k) ==
  /\ Answered(k, "list", TRUE)
  /\ shares' = call[k].gives /\ Learn(k, 1 .. MaxIds)
  /\ UNCHANGED revoking /\ UNCHANGED noteVars

\* The dialog does not show the error of the hook: shares that were not fetched look
\* like none.
ApplyFailure(k) ==
  /\ \E kind \in Changes \cup {"list"} :
       /\ Answered(k, kind, FALSE)
       /\ revoking' = IF kind = "revoke" THEN None ELSE revoking
       /\ missed' = (missed \/ kind = "list")
  /\ UNCHANGED <<shares, known>> /\ UNCHANGED <<crossed, stale>>

-----------------------------------------------------------------------------
(* The specification                                                        *)

ShareInit ==
  /\ stored \in {{}} \cup {{[id |-> 1, with |-> w]} : w \in User \cup {Link}} /\ lastId = 1
  /\ call = [k \in Call |-> Idle]
  /\ open = FALSE /\ shares = <<>> /\ revoking = None
  /\ known = {} /\ tells = [k \in Call |-> {}]
  /\ crossed = FALSE /\ missed = FALSE /\ stale = FALSE

ShareNext ==
  \/ CloseDialog \/ Others
  \/ \E k \in Call :
       \/ OpenDialog(k)
       \/ PressLink(k)
       \/ \E w \in User : PressShare(k, w) \/ Enter(k, w)
       \/ \E s \in ToSet(shares) : Revoke(k, s)
       \/ ServeShare(k) \/ ServeRevoke(k) \/ ServeList(k) \/ Commit(k)
       \/ Refuse(k) \/ Lose(k) \/ Drop(k)
       \/ ApplyShare(k) \/ ApplyRevoke(k) \/ ApplyList(k) \/ ApplyFailure(k)

-----------------------------------------------------------------------------
(* Properties                                                               *)

\* The shares that there will be when what is open has committed.
Newest ==
  LET opened(kind) == {k \in Pending({kind}) : call[k].at = "open"} IN
  {s \in stored \cup UNION {ToSet(call[k].gives) : k \in opened("share")} :
     \A k \in opened("revoke") : s.id # call[k].id}

\* Of every share whose last change the dialog has been told it is right: it is there
\* if and only if it will be stored, although answers come before they commit and in
\* any order, requests of a dialog that was closed go on, Enter crosses the fetch,
\* answers are lost and others change the shares.
KnownAreShown ==
  open => \A i \in known : i \in IdsOf(ToSet(shares)) <=> i \in IdsOf(Newest)

\* The dialog at rest shows the shares there are, each once, unless Enter or a change
\* of a dialog before it crossed the fetch, an answer was lost, or others have changed
\* the shares.
RestIsShown ==
  (open /\ (\A k \in Call : call[k] = Idle) /\ ~crossed /\ ~missed /\ ~stale) =>
    ToSet(shares) = stored /\ IsInjective(shares)

\* Nobody has access whose name the dialog does not show, as far as it has been told.
SharesAreShown == KnownAreShown /\ RestIsShown

\* What the dialog would show at rest if it asked again: it does not hold.
SharesAreStored ==
  open /\ ~missed /\ ~stale /\ (\A k \in Call : call[k] = Idle) =>
    ToSet(shares) = stored /\ IsInjective(shares)
=============================================================================
