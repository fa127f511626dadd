-------------------------- MODULE ConversationPage --------------------------
(***************************************************************************)
(* The list of conversations and the one that is shown, in the browser     *)
(* (hooks/use-conversations.ts, stores/conversation-store.ts,              *)
(* components/chat/conversation-sidebar.tsx, chat-container.tsx), with the *)
(* server's list behind it.                                                *)
(*                                                                         *)
(* The hook is used twice, by the sidebar and by the chat container: the   *)
(* store is shared, the refs are not.  A call is sent, served, and applied *)
(* when its answer arrives.  What an answer streams into the chat is not   *)
(* told apart: ChatClient has it.                                          *)
(***************************************************************************)
EXTENDS ListFilter, SequencesExt

CONSTANTS
  ConvId,   \* conversations
  None,
  Draft,    \* stands for the messages of a chat that has no conversation yet
  Call,     \* slots for the calls that are under way
  PageSize, \* PAGE_SIZE
  MaxHaste  \* bounds haste

ASSUME PageAssumption ==
  /\ PageSize \in Nat \ {0} /\ MaxHaste \in Nat
  /\ None \notin ConvId /\ Draft \notin ConvId \cup {None}

VARIABLES
  haste,       \* how often the user acted before all answers were there, an answer
               \* was lost, or the page was left
  calm,        \* whether none of this happened since a conversation, or a new chat,
               \* was chosen while no call was under way
  linked,      \* whether a link set the address to another conversation than the one
               \* that is shown, and no choice and no list that arrived looked at it
  server,      \* the conversations of the user, the last touched first
  archived,    \* those with is_archived
  texts,       \* those with messages
  begun,       \* those begun in this tab
  list,        \* conversations: an id and its is_archived each
  shown,       \* currentConversationId
  url,         \* ?id=
  cur,         \* the conversation of currentMessages; None when they are empty
  screen,      \* the conversation of the chat's messages
  loading,     \* isLoading
  more,        \* hasMoreRef of the sidebar
  loadingMore, \* loadingMoreRef of the sidebar
  arriving,    \* the conversation of a conversation_created that has not arrived
  call         \* the calls

serverVars == <<server, archived, texts, begun>>
pageVars == <<list, shown, url, cur, screen, loading, more, loadingMore, arriving>>
allVars == <<haste, calm, linked, serverVars, pageVars, call>>

Item == [id : ConvId, archived : BOOLEAN]
Idle      == [kind |-> "none", conv |-> None, base |-> <<>>, at |-> "free", answer |-> <<>>]
FirstPage == [kind |-> "list", conv |-> None, base |-> <<>>, at |-> "sent", answer |-> <<>>]

PageTypeOK ==
  /\ haste \in 0..MaxHaste /\ {calm, linked} \subseteq BOOLEAN
  /\ IsInjective(server) /\ \A i \in DOMAIN server : server[i] \in ConvId
  /\ archived \subseteq ConvId /\ texts \subseteq ConvId /\ begun \subseteq ConvId
  /\ \A i \in DOMAIN list : list[i] \in Item
  /\ {shown, url, cur, arriving} \subseteq ConvId \cup {None}
  /\ screen \in ConvId \cup {None, Draft}
  /\ {loading, more, loadingMore} \subseteq BOOLEAN
  /\ \A k \in Call : call[k].at = "free" <=> call[k] = Idle

Ids(s) == {s[i].id : i \in DOMAIN s}
OnServer == {server[i] : i \in DOMAIN server}

Quiet == arriving = None /\ \A k \in Call : call[k] = Idle

Hurry == haste < MaxHaste /\ haste' = haste + 1 /\ calm' = FALSE

\* The user waits for the answers, or does not.
Act == IF Quiet THEN UNCHANGED <<haste, calm>> ELSE Hurry
Choose == IF Quiet THEN UNCHANGED haste /\ calm' = TRUE ELSE Hurry

-----------------------------------------------------------------------------
(* Calls                                                                    *)

Send(k, kind, c, base) ==
  /\ call[k] = Idle
  /\ call' = [call EXCEPT ![k] =
       [kind |-> kind, conv |-> c, base |-> base, at |-> "sent", answer |-> <<>>]]

\* list_conversations, from the first after skip.
PageAt(skip) ==
  LET last == IF skip + PageSize < Len(server) THEN skip + PageSize ELSE Len(server) IN
  [i \in 1..(last - skip) |->
     [id |-> server[skip + i], archived |-> server[skip + i] \in archived]]

\* A conversation that is changed, or gets a message, is the first.
Touched(c) == <<c>> \o Keep(server, ConvId \ {c})

\* A call finds its conversation, or is refused.  A flag that is set to what it is
\* writes no row.
Serve(k) ==
  LET f == call[k]
      Answer(at, page) == call' = [call EXCEPT ![k].at = at, ![k].answer = page]
  IN
  /\ f.at = "sent"
  /\ \/ Answer("bad", <<>>) /\ UNCHANGED serverVars
     \/ /\ f.kind \in {"list", "listNew", "more"}
        /\ Answer("ok", PageAt(Len(f.base))) /\ UNCHANGED serverVars
     \/ /\ f.kind \in {"history", "urlHistory"} /\ f.conv \in OnServer
        /\ Answer("ok", <<>>) /\ UNCHANGED serverVars
     \/ /\ f.kind \in {"archive", "unarchive", "rename"} /\ f.conv \in OnServer
        /\ Answer("ok", <<>>)
        /\ server' = IF \/ f.kind = "archive" /\ f.conv \in archived
                        \/ f.kind = "unarchive" /\ f.conv \notin archived
                     THEN server ELSE Touched(f.conv)
        /\ archived' = CASE f.kind = "archive"   -> archived \cup {f.conv}
                         [] f.kind = "unarchive" -> archived \ {f.conv}
                         [] f.kind = "rename"    -> archived
        /\ UNCHANGED <<texts, begun>>
     \/ /\ f.kind = "delete" /\ f.conv \in OnServer
        /\ Answer("ok", <<>>)
        /\ server' = Keep(server, ConvId \ {f.conv})
        /\ archived' = archived \ {f.conv} /\ texts' = texts \ {f.conv}
        /\ UNCHANGED begun
  /\ UNCHANGED <<haste, calm, linked>> /\ UNCHANGED pageVars

\* The answer does not reach the page.
Lose(k) ==
  /\ Hurry /\ call[k].at = "ok"
  /\ call' = [call EXCEPT ![k].at = "bad"]
  /\ UNCHANGED linked /\ UNCHANGED serverVars /\ UNCHANGED pageVars

Ended(k) == call' = [call EXCEPT ![k] = Idle]

-----------------------------------------------------------------------------
(* fetchConversations, of the sidebar ("list") and of the container          *)
(* ("listNew")                                                              *)

ApplyListFailed(k) ==
  /\ call[k].kind \in {"list", "listNew"} /\ call[k].at = "bad"
  /\ Ended(k) /\ loading' = FALSE
  /\ UNCHANGED <<linked, list, shown, url, cur, screen, more, loadingMore, arriving>>

\* The id of the address takes priority; its history is fetched by the same call.
ApplyList(k) ==
  /\ call[k].kind \in {"list", "listNew"} /\ call[k].at = "ok"
  /\ list' = call[k].answer
  /\ more' = IF call[k].kind = "list" THEN Len(call[k].answer) >= PageSize ELSE more
  /\ IF url # None /\ shown # url
     THEN /\ shown' = url /\ screen' = None /\ cur' = None
          /\ call' = [call EXCEPT ![k] = [Idle EXCEPT !.kind = "urlHistory", !.conv = url, !.at = "sent"]]
          /\ UNCHANGED loading
     ELSE Ended(k) /\ loading' = FALSE /\ UNCHANGED <<shown, screen, cur>>
  /\ linked' = FALSE
  /\ UNCHANGED <<url, loadingMore, arriving>>

\* setCurrentMessages; the chat container shows them unless there are none.
ShowHistory(c) ==
  IF c \in texts THEN cur' = c /\ screen' = c ELSE cur' = None /\ UNCHANGED screen

ApplyUrlHistory(k) ==
  /\ call[k].kind = "urlHistory"
  /\ \/ call[k].at = "ok" /\ ShowHistory(call[k].conv) /\ UNCHANGED shown
     \/ /\ call[k].at = "bad"
        /\ shown' = None
        /\ screen' = IF shown # None THEN None ELSE screen
        /\ UNCHANGED cur
  /\ Ended(k) /\ loading' = FALSE
  /\ UNCHANGED <<linked, list, url, more, loadingMore, arriving>>

-----------------------------------------------------------------------------
(* fetchMoreConversations, on a scroll near the end of the sidebar           *)

LoadMore(k) ==
  /\ Act /\ ~loading /\ more /\ ~loadingMore
  /\ loadingMore' = TRUE
  /\ Send(k, "more", None, list)
  /\ UNCHANGED serverVars
  /\ UNCHANGED <<linked, list, shown, url, cur, screen, loading, more, arriving>>

\* The answer goes after the list as it was when the call was sent.
ApplyMore(k) ==
  /\ call[k].kind = "more"
  /\ IF call[k].at = "ok"
     THEN /\ list' = IF call[k].answer = <<>> THEN list ELSE call[k].base \o call[k].answer
          /\ more' = (Len(call[k].answer) >= PageSize)
     ELSE call[k].at = "bad" /\ UNCHANGED <<list, more>>
  /\ Ended(k) /\ loadingMore' = FALSE
  /\ UNCHANGED <<linked, shown, url, cur, screen, loading, arriving>>

\* The refs of a sidebar that is gone are nobody's.
ApplyStale(k) ==
  /\ call[k].kind = "staleMore" /\ call[k].at \in {"ok", "bad"}
  /\ list' = IF call[k].at = "ok" /\ call[k].answer # <<>>
             THEN call[k].base \o call[k].answer ELSE list
  /\ Ended(k)
  /\ UNCHANGED <<linked, shown, url, cur, screen, loading, more, loadingMore, arriving>>

-----------------------------------------------------------------------------
(* selectConversation                                                       *)

Select(k, c) ==
  /\ Choose /\ c \in Ids(list)
  /\ shown' = c /\ url' = c /\ screen' = None /\ loading' = TRUE
  /\ linked' = FALSE
  /\ Send(k, "history", c, <<>>)
  /\ UNCHANGED serverVars
  /\ UNCHANGED <<list, cur, more, loadingMore, arriving>>

\* Whatever has been selected since.
ApplyHistory(k) ==
  /\ call[k].kind = "history"
  /\ \/ call[k].at = "ok" /\ ShowHistory(call[k].conv)
     \/ call[k].at = "bad" /\ UNCHANGED <<cur, screen>>
  /\ Ended(k) /\ loading' = FALSE
  /\ UNCHANGED <<linked, list, shown, url, more, loadingMore, arriving>>

-----------------------------------------------------------------------------
(* archive, unarchive, rename, deleteConversation                           *)

Change(k, kind, c) ==
  /\ Act
  /\ \E i \in DOMAIN list :
       /\ list[i].id = c
       /\ kind = "archive" => ~list[i].archived
       /\ kind = "unarchive" => list[i].archived
  /\ Send(k, kind, c, <<>>)
  /\ UNCHANGED linked /\ UNCHANGED serverVars /\ UNCHANGED pageVars

ApplyChangeAtOnce(k) ==
  /\ call[k].kind \in {"archive", "unarchive", "rename"} /\ call[k].at \in {"ok", "bad"}
  /\ list' = IF call[k].kind # "rename"
             THEN [i \in DOMAIN list |->
                     IF list[i].id = call[k].conv
                     THEN [list[i] EXCEPT !.archived = call[k].kind = "archive"] ELSE list[i]]
             ELSE list
  /\ Ended(k)
  /\ UNCHANGED <<linked, shown, url, cur, screen, loading, more, loadingMore, arriving>>

ApplyChange(k) ==
  /\ call[k].kind \in {"archive", "unarchive", "rename"} /\ call[k].at \in {"ok", "bad"}
  /\ list' = IF call[k].at = "ok" /\ call[k].kind # "rename"
             THEN [i \in DOMAIN list |->
                     IF list[i].id = call[k].conv
                     THEN [list[i] EXCEPT !.archived = call[k].kind = "archive"] ELSE list[i]]
             ELSE list
  /\ Ended(k)
  /\ UNCHANGED <<linked, shown, url, cur, screen, loading, more, loadingMore, arriving>>

\* removeConversation; the chat is cleared when its conversation goes.
ApplyDelete(k) ==
  /\ call[k].kind = "delete"
  /\ IF call[k].at = "ok"
     THEN /\ list' = Keep(list, {x \in Item : x.id # call[k].conv})
          /\ shown' = IF shown = call[k].conv THEN None ELSE shown
          /\ screen' = IF shown = call[k].conv THEN None ELSE screen
     ELSE call[k].at = "bad" /\ UNCHANGED <<list, shown, screen>>
  /\ Ended(k)
  /\ UNCHANGED <<linked, url, cur, loading, more, loadingMore, arriving>>

-----------------------------------------------------------------------------
(* startNewChat, and a prompt                                               *)

\* A conversation whose fetched messages are empty is kept.
NewChat ==
  /\ Choose
  /\ screen' = None
  /\ IF shown # None /\ cur = None
     THEN UNCHANGED <<linked, shown, url, cur>>
     ELSE linked' = FALSE /\ shown' = None /\ url' = None /\ cur' = None
  /\ UNCHANGED serverVars
  /\ UNCHANGED <<list, loading, more, loadingMore, arriving, call>>

BeginChatAtOnce(c) ==
  /\ Act /\ shown = None /\ arriving = None /\ c \notin OnServer \cup begun
  /\ begun' = begun \cup {c} /\ texts' = texts \cup {c}
  /\ server' = Touched(c)
  /\ arriving' = c
  /\ shown' = Draft /\ screen' = IF screen = None THEN Draft ELSE screen
  /\ UNCHANGED <<linked, archived, list, url, cur, loading, more, loadingMore, call>>

\* The server stores the first prompt of a conversation it creates.
BeginChat(c) ==
  /\ Act /\ shown = None /\ arriving = None /\ c \notin OnServer \cup begun
  /\ begun' = begun \cup {c} /\ texts' = texts \cup {c}
  /\ server' = Touched(c)
  /\ arriving' = c
  /\ screen' = IF screen = None THEN Draft ELSE screen
  /\ UNCHANGED <<linked, archived, list, shown, url, cur, loading, more, loadingMore, call>>

\* A prompt in the conversation that is shown.
Continue ==
  /\ (IF shown \in Ids(list) THEN Act ELSE Hurry) /\ shown \in OnServer /\ arriving = None
  /\ texts' = texts \cup {shown} /\ server' = Touched(shown)
  /\ screen' = IF screen = None THEN shown ELSE screen
  /\ UNCHANGED <<linked, archived, begun, list, shown, url, cur, loading, more, loadingMore,
                 arriving, call>>

\* conversation_created: the chat keeps its messages when it had no conversation,
\* and the container fetches the list.
Created(k) ==
  /\ arriving # None
  /\ shown' = arriving /\ url' = arriving /\ arriving' = None /\ linked' = FALSE
  /\ screen' = IF shown \notin {None, arriving} THEN None
               ELSE IF screen = Draft THEN arriving ELSE screen
  /\ loading' = TRUE
  /\ Send(k, "listNew", None, <<>>)
  /\ UNCHANGED <<haste, calm>> /\ UNCHANGED serverVars
  /\ UNCHANGED <<list, cur, more, loadingMore>>

\* A link leads to /chat, with an id or without (None).
Link(c) == url' = c /\ linked' = (c \notin {None, shown})

\* One on the page itself sets the address, and nothing on the page looks at it.
FollowLink(c) ==
  /\ Act /\ Link(c)
  /\ UNCHANGED serverVars
  /\ UNCHANGED <<list, shown, cur, screen, loading, more, loadingMore, arriving, call>>

\* The user leaves the page for another and comes back by a link: the stores stay,
\* the refs and the socket are new, and the container shows currentMessages again.
Revisit(k, c) ==
  /\ Hurry /\ Link(c)
  /\ more' = TRUE /\ loadingMore' = FALSE /\ arriving' = None /\ loading' = TRUE
  /\ screen' = IF cur # None THEN cur ELSE screen
  /\ call[k] = Idle
  /\ call' = [i \in Call |->
       IF i = k THEN FirstPage
       ELSE IF call[i].kind = "list" THEN [call[i] EXCEPT !.kind = "listNew"]
       ELSE IF call[i].kind = "more" THEN [call[i] EXCEPT !.kind = "staleMore"] ELSE call[i]]
  /\ UNCHANGED serverVars /\ UNCHANGED <<list, shown, cur>>

-----------------------------------------------------------------------------
\* The page is opened, with or without an id, and the sidebar fetches the list.
PageInit ==
  /\ haste = 0 /\ calm = TRUE /\ linked = FALSE
  /\ server \in UNION {[1..n -> ConvId] : n \in 0..Cardinality(ConvId)}
  /\ IsInjective(server)
  /\ archived = {} /\ texts \in {OnServer, {}}
  /\ begun = {}
  /\ list = <<>> /\ shown = None /\ url \in OnServer \cup {None}
  /\ cur = None /\ screen = None
  /\ loading = TRUE /\ more = TRUE /\ loadingMore = FALSE /\ arriving = None
  /\ \E k \in Call :
       call = [i \in Call |-> IF i = k THEN FirstPage ELSE Idle]

Apply(k) ==
  /\ \/ ApplyListFailed(k) \/ ApplyList(k) \/ ApplyUrlHistory(k)
     \/ ApplyMore(k) \/ ApplyStale(k) \/ ApplyHistory(k) \/ ApplyChange(k) \/ ApplyDelete(k)
  /\ UNCHANGED <<haste, calm>> /\ UNCHANGED serverVars

PageNext ==
  \/ \E k \in Call :
       \/ Serve(k) \/ Lose(k) \/ Apply(k) \/ LoadMore(k) \/ Created(k)
       \/ \E c \in ConvId \cup {None} : Revisit(k, c)
       \/ \E c \in ConvId :
            \/ Select(k, c)
            \/ \E kind \in {"archive", "unarchive", "rename", "delete"} : Change(k, kind, c)
  \/ NewChat \/ Continue
  \/ \E c \in ConvId : BeginChat(c)
  \/ \E c \in ConvId \cup {None} : FollowLink(c)

PageSpec == PageInit /\ [][PageNext]_allVars

-----------------------------------------------------------------------------
(* Properties                                                               *)

\* The address names the conversation that is shown, or none is: only a link may part
\* the two, until a choice or a list that arrives looks at the address; the list, the
\* sidebar, the socket and late answers set either, and never part them.
AddressIsShown == shown # None /\ url # None /\ ~linked => url = shown

\* Answers that come late, or in the wrong order, do not outlive the next choice of
\* a user who waits: from then on the messages are those of the conversation that is
\* shown, or none, whatever was mixed up before.
ScreenIsShown ==
  calm => screen \in {None, shown} \cup (IF shown = None THEN {Draft} ELSE {})

\* For a user who waits, the list is the first of the server's conversations,
\* each once and with its flag, although pages are counted by the length of the
\* list while the changes made in between move and remove conversations; once the
\* list has those that were begun in the tab.
ListIsFirst ==
  haste = 0 /\ Quiet /\ begun \cap OnServer \subseteq Ids(list) =>
    /\ IsInjective(list)
    /\ list # <<>> => Ids(list) = {server[i] : i \in 1..Len(list)}
    /\ \A i \in DOMAIN list : list[i].archived = (list[i].id \in archived)

\* The sidebar stops loading only when it has all conversations, in a tab that
\* has begun none.
AllIsLoaded ==
  haste = 0 /\ Quiet /\ begun = {} /\ ~more => Ids(list) = OnServer

\* When no call is under way nothing is said to be loading, however calls of one
\* hook and of two ended.
LoadingEnds == (\A k \in Call : call[k] = Idle) => ~loading /\ ~loadingMore

\* The sidebar settles: its list is right, complete and not said to be loading.
SidebarSettles == ListIsFirst /\ AllIsLoaded /\ LoadingEnds

\* The address and the screen agree, and once the answers are in, the screen and the
\* sidebar show what the server has.
PageSettles == AddressIsShown /\ ScreenIsShown /\ SidebarSettles

\* Said at use-conversations.ts:54: "URL ?id= param always takes priority".  When the
\* answers are in, the conversation that the address names is the one shown.
AddressTakesPriority == Quiet /\ shown # None /\ url # None => url = shown

\* Said at chat-container.tsx:78: "Clear messages when: 1. Going from a
\* conversation to null (new chat)".  A new chat shows no conversation's messages.
NewChatIsEmpty == shown = None => screen \in {None, Draft}
=============================================================================
