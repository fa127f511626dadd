# TLA+ models of the AI release assistant

The program is a chat assistant: a FastAPI backend (`src/backend/app`) with PostgreSQL, Redis, a
vector store and a taskiq worker, a Next.js frontend (`src/frontend`), and a Slack bot. A user talks to
a LangGraph agent in a browser page over a WebSocket, or in Slack; documents are uploaded, ingested in
the background and searched by the agent.

The modules here model the parts of it where several actors share state: the WebSocket session and the chat
page that talks to it, the channel message router, the ingestion of documents and their synchronisation, the
requests on stored conversations, and the pages and controls whose calls are answered late. TLC checks them
on small instances; TLAPS proves the safety properties for every value of the constants.

- [Inventory](#inventory): the components, their state and operations, what is hard about them
- [Modules](#modules): which module models what, and how its actions correspond to the code
- [Runs](#runs): what each configuration checks, with its bounds
- [Fairness](#fairness)
- [Divergences](#divergences): where the code does not do what its documentation says
- [Proofs](#proofs)
- [Not modelled](#not-modelled) and [Plan](#plan)

## Inventory

The components that have state several actors write, in the order of their importance to the program.

### Chat agent sessions

`api/routes/v1/agent.py`, `services/agent_session.py`, `services/agent.py`, `services/conversation.py`.

- **State.** Per connection: `conversation_history` (the memory given to the model) and
  `current_conversation_id`. In the database: conversations, messages, tool calls.
- **Operations.** `AgentSession.run` receives prompts one after the other. `process_message` stores the
  prompt in a transaction of its own (`persist_user_turn`), streams the model run as events, appends to
  the memory and stores the reply in a second transaction (`persist_assistant_turn`). REST calls create
  and delete conversations.
- **Interaction.** Sessions of one user, in several tabs, write the same conversations. A deletion can
  come between the two transactions of a turn. The client may disconnect at any await; `send_event`
  drops what it can no longer send.
- **Hard.** Both transactions may fail, each independently, and one of the failures is swallowed; the
  conversation id is shared by the turns of a session; the process may die between the transactions.
- **Correct when** a turn's rows are in one thread, once, in their order; what the client is told is
  stored really is stored; every turn is bracketed by its events and ends.

### Chat page

`hooks/use-chat.ts`, `hooks/use-websocket.ts`, `hooks/use-conversations.ts`,
`components/chat/chat-container.tsx`, the two zustand stores.

- **State.** The socket and `isConnected`, `isProcessing`, the queue of prompts typed while busy, the
  100 ms timers that send them, the bubbles, the ref to the bubble being written, the current
  conversation and the fetched history of the last one selected.
- **Operations.** Type, send or queue, cancel, drain; handlers of socket events and of the server's
  events; select, start and delete a chat; reconnect after 1 s or more; reconnect on a refreshed token.
- **Interaction.** Prompts go to the session of the socket that is open; its events come back in order,
  until the socket closes. A new socket meets a new session.
- **Hard.** Close events of an old socket arrive after a new one is open; effects run in the order of
  their hooks; a timer stands between taking a prompt from the queue and sending it.
- **Correct when** no bubble holds the reply of two turns, no prompt is sent twice, none is lost in the
  queue, each goes to the chat it was typed in, and the input is not locked for ever.

### Channel message router

`services/channels/router.py`, `services/agent_invocation.py`, `worker/background/channel.py`,
the channel repositories.

- **State.** In memory: one `asyncio.Lock` per chat, one rate bucket per identity. In the database:
  identities, sessions (chat to conversation), messages.
- **Operations.** One asyncio task per incoming message, in one transaction: take the chat's lock, find
  the bot, check the access policy, find or add identity and session, count against the rate limit,
  store the prompt, load the history, call the agent, store the answer, leave the lock, send the
  answer, commit. `/new` replaces the session's conversation.
- **Hard.** The lock is left *before* the commit. Unique constraints and the update of
  `conversations.updated_at` make transactions wait for each other. Any step may fail, and the agent's
  failure is handled at two levels.
- **Correct when** agent calls of a chat are serial, exchanges are stored whole or not at all, each
  history holds every earlier exchange, a chat has one conversation, and the limit holds.

### RAG document ingestion

`services/rag_document.py`, `services/rag/ingestion.py`, `services/rag/vectorstore.py`,
`worker/tasks/rag_tasks.py`, `worker/taskiq_app.py`.

- **State.** The tracking row of a document with its status and `vector_document_id`; the stored file;
  the vectors; the task in the broker's list.
- **Operations.** Upload (store the file, add the row, dispatch the task, commit), the task (parse, find
  the old version, remove it, insert, report), retry, deletion by tracking row or by vector id,
  dropping a collection.
- **Hard.** Dispatch before commit; three vector-store calls that exclude nobody; a broker that forgets
  what it has handed out; deletion in three stores, each of which may fail.
- **Correct when** the status of a row agrees with the vectors, an accepted document comes to an end,
  and what is deleted can no longer be found.

### Sync sources and sync logs

`services/sync_source.py`, `services/rag_sync.py`, `worker/tasks/rag_tasks.py`, `repositories/sync_*.py`.

- **State.** Sources with their schedule and last status; logs; the tasks in the broker.
- **Operations.** Create, change and delete a source; trigger a sync; the minute's check that dispatches
  every source whose time has come; a sync of a local directory, file after file; cancel.
- **Hard.** A task is dispatched before the log it reports to is committed. A scheduled task has no log:
  it calls `trigger_sync`, which makes one *and dispatches a second task for it*. Cancelling writes what
  was read as `running` before, and the task looks at its log only between files.
- **Correct when** a log that ended stays ended, says `done` only if a task earned it, is shared only by
  a scheduled task and its second, and the source's status is that of one of its logs.

### Conversations, shares and ratings

`services/conversation.py`, `services/conversation_share.py`, `services/message_rating.py`,
`services/user.py` and their repositories.

- **State.** The tables of users, conversations, shares and ratings.
- **Operations.** Create, rename, archive, delete; share and revoke; rate and remove a rating; delete a
  user; the administrator's export of all conversations in chunks.
- **Hard.** Each request reads, decides and writes at READ COMMITTED, so what it decided by may be gone:
  unique and foreign keys are the last word, and only `rate_message` handles their violation. The
  export pages by key while rows come and go.
- **Correct when** no row refers to one that is gone, nothing is shared twice, racing ratings are both
  served, and the export has each conversation that was there all along once.

### Conversation list

`hooks/use-conversations.ts`, `stores/conversation-store.ts`, `components/chat/conversation-sidebar.tsx`,
`chat-container.tsx`.

- **State.** The list and the selected conversation in a store that two users of the hook share; refs
  that each has for itself; the address of the page; the messages on screen.
- **Operations.** Load, load more, select, create, rename, archive, delete, New chat, follow an address;
  the socket's `conversation_created`.
- **Hard.** Answers come late, in any order or not at all, and are applied to whatever is shown by then.
  Pages are asked for by the length of the list while conversations move and go.
- **Correct when** the address names what is shown, the messages belong to it once the user waits, and
  the sidebar ends with the server's list.

### Administration tables

`app/[locale]/(dashboard)/admin/{users,conversations,ratings}/page.tsx`, `hooks/use-admin-*.ts`,
`components/admin/user-detail-drawer.tsx`, the admin routes and repositories.

- **State.** Filter, page, debounced search, rows, total, loading flags, the drawer.
- **Operations.** Search, filter, turn the page, change or delete a row, open the drawer, export ratings.
- **Hard.** Effects fetch when the view changes, changes are applied to rows that may have been replaced,
  and two hooks count loading differently. The export of ratings pages by offset.
- **Correct when** the table answers what the page shows, loading ends with the calls, the drawer shows
  its user's conversations, the export misses and doubles nothing but what moved.

### Controls of the chat and of the settings

`components/chat/chat-input.tsx`, `components/chat/slash-commands.ts`,
`components/settings/slash-commands-manager.tsx`, `components/chat/share-dialog.tsx`,
`components/chat/rating-buttons.tsx` with their hooks, `services/user_slash_command.py`.

- **State.** Text, palette, attached files and transcript of the input; the user's commands; the shares
  and the rating that a dialog or a button shows.
- **Operations.** Type, complete, choose, upload, speak, send; create, edit, switch and delete a command;
  share, make a link, revoke; rate, comment, remove.
- **Hard.** What a callback captured is older than what is on the screen; requests cross; **the response
  leaves before the transaction commits** (the session dependency commits when the route has returned
  and the answer is on its way), so a page can read what it has just replaced.
- **Correct when** what is shown at rest is what is stored, and what is written, attached or picked is
  handled once.

### Components that are not modelled

| Component | State | Why not |
|---|---|---|
| Accounts and sign-in | users, tokens | a call is a read and a write of one row; two first registrations both become administrators (`user.py:133`) |
| Channel bots, Slack adapter | socket supervisors | calls of the Slack library; a supervisor only starts its loop again |
| Webhooks | one table | `dispatch_event` has no caller |
| Rate limit service | Redis counters | nothing calls it, and the module it takes Redis from is not in the repository |
| LangGraph assistant, parsing, embedding, retrieval | none | external computation, a nondeterministic outcome in the models |
| RAG status stream | none | relays messages to one subscriber |
| Middleware, configuration, statistics, other pages, commands | none shared | stateless, or read-only |

The complete list, with the files of each component and what is left out of the modelled ones, is in
`PROJECT.json` under `components`; the places where each can go wrong are under `hazards`.

## Modules

| Module | Models | Relations |
|---|---|---|
| `ConversationLog` | what a conversation promises: rows of turns, in order | abstract specification |
| `AgentSession` | server side of the chat: sessions, turns, both transactions | refines `ConversationLog` |
| `AgentSessionProofs` | theorems about it | extends `AgentSession`, `TLAPS` |
| `ChatClient` | the page's hooks, stores and effects | used by `ChatSystem` |
| `ChatSystem` | page, network and server together | extends `ChatClient`, instantiates `AgentSession` |
| `ChatSystemProofs` | theorems about it | extends `ChatSystem`, instantiates `AgentSessionProofs` |
| `ExchangeLog` | what the router promises of its conversations: whole exchanges, one after the other | abstract specification |
| `ChannelRouter` | message tasks, locks, transactions | refines `ExchangeLog` |
| `ChannelRouterProofs` | theorems about it | extends `ChannelRouter`, `TLAPS` |
| `RagIngestion` | requests, worker tasks and administrator's calls on documents | |
| `SyncSources` | sources, logs, scheduled, requested and local syncs | |
| `Workspace` | requests on conversations, shares and ratings; the export | |
| `ConversationPage` | the list and the selected conversation in the browser, and the server's list | extends `ListFilter` |
| `ConversationProofs` | theorems about both | extends `Workspace`, `ConversationPage`, `ListFilterProofs` |
| `AdminPages` | the three tables, the drawer, the export of ratings | extends `ListFilter` |
| `AdminProofs` | theorems about `RagIngestion`, `SyncSources` and `AdminPages` | extends the three, `ListFilterProofs` |
| `CommandList` | merging and searching slash commands | operators only, extends `ListFilter` |
| `SlashCommands` | settings page, requests and rows of slash commands | extends `CommandList` |
| `ChatInput` | text, palette, files and microphone of the input | extends `CommandList` |
| `ShareDialog` | the dialog, its requests, the shares | |
| `RatingButtons` | the buttons, their requests, the rating | |
| `ListFilter` | filtering a list, without recursion | operators only |
| `ListFilterProofs` | lemmas about lists that are filtered, joined, cut and changed | extends `ListFilter`, `TLAPS` |
| `Controls` | a behaviour has one of `SlashCommands`, `ChatInput`, `ShareDialog`, `RatingButtons` | instantiates all four |
| `ControlsProofs` | theorems about `ChatInput`, `ShareDialog` and `RatingButtons` in it | extends `Controls`, `ListFilterProofs` |
| `SettingsProofs` | theorems about `SlashCommands` in it, and the types of all four | extends `ControlsProofs` |
| `MC...` | instances for TLC: symmetry sets, message tables | extend the module named |

A few definitions of each module are forms the code does *not* have, such as `AcquireAnyway` next to
`Acquire`. They are the mutants: each is what a plausible slip in the definition beside it would give,
and `PROJECT.json` pairs it with the property that has to notice.

### AgentSession

One action per stretch between two awaits that matter. `pc[s]` is where the session's coroutine is.

| `pc` | Actions | Code |
|---|---|---|
| `new` | `Connect` | the route accepts the socket and makes an `AgentSession` |
| `idle` | `Receive`, `ReceiveBlank`, `EndLoop` | `receive_json`; a blank prompt is answered with an error; `WebSocketDisconnect` ends the loop |
| `persist` | `PersistInExisting`, `PersistInNew`, `PersistNothing` | `persist_user_turn`: store in the conversation named, or in a new one, or fail after or before the id was assigned (swallowed) |
| `start` | `StartStream`, `FailTurn` | the run starts or raises |
| `stream` | `TextChunk`, `ToolChunk`, `ToolCalled`, `ToolResult`, `FinishStream`, `FailTurn` | the events of the model run, in any order the graph can produce |
| `save` | `SaveReply`, `SaveFails` | `persist_assistant_turn`: commit, or fail |

A failing transaction is logged and not reported: after `SaveFails` the client gets `complete` without
`message_saved`. `Disconnect` may happen in every state and only makes later events go nowhere. `Crash`
ends a session where it stands and keeps the database; a dying server is a `Crash` of each.
`CreateConversation` and `DeleteConversation` are the REST calls.

A turn number stands for a prompt and its reply; `MaxTurns` bounds it. `rows[c]` is the sequence of
rows of a conversation, `toolRows[t]` the tool calls stored with the reply of a turn, `sent[s]` the
events that reached the client, `history[s]` the remembered turns, and `wrote[t]` where the two rows
of a turn went (an observation: no action reads it). The text of a message, files, titles and archiving are
left out. A conversation id is used once; `rolledback` marks one whose insertion was undone.

`ConversationLog` knows only `rows`, the life of the conversations and what each turn wrote: a turn
adds its prompt, then its reply, to one live conversation, each at most once; a conversation disappears
with its rows. The refinement maps each variable to the one of the same name.

### ChatClient and ChatSystem

`ChatClient` has an action for each callback of the hooks: `Open`, `OnOpen`, `OnClose`, `Reconnect`,
`RefreshToken` (`use-websocket.ts`), `Type`, `TimerFires`, `CancelQueued`, `Handle`
(`use-chat.ts`), `Select`, `NewChat`, `DeleteShown` (`use-conversations.ts`, `chat-container.tsx`). A
callback, the render after it and the effects of that render are one action: the effects run in the
order of their hooks, the drainer's before the container's clearing of the queue. `Settle` is
the drainer: when the page has become idle, or `doSend` has changed, it moves the head of the queue
to a timer.

`ChatSystem` joins the page to `AgentSession`, one session per socket: `outbox[s]` holds prompts on
their way, and of the events `sent[s]` the tab has handled the first `heard[s]`: both directions are
FIFO, as a WebSocket is.
`Server == INSTANCE AgentSession` gives the server its own steps unchanged. `Unstable` says whether
connections drop and tokens are refreshed. `Elsewhere` is
a conversation created by another tab.

A bubble has the turn that opened it, the turns whose text or tool calls went into it (`text`), those whose
error did (`errs`), and the one whose database id it has (`saved`). `Handle` writes where the page does: to
the bubble the ref names, whoever's event it is. `complete` alone clears the ref, so a turn that fails
before it has a bubble writes its error into the bubble of a turn that ended by an error or a drop
(`use-chat.ts:354-363`); `BubbleHoldsOneTurn` says that nothing else goes astray, and this only there.

Abstracted: a render that React delays past the next callback; the limit of five reconnects, which no
instance reaches; a history fetch is immediate; tool-approval events, which no server code sends; `Crash`
and blank prompts stay in `AgentSession`.

### ChannelRouter

One task per message; `pc[m]` follows `_route_inner` from `waiting` to `done` or `failed`.
`queue[c]` is the chat's `asyncio.Lock`: its head holds it and the others wait in order.
`writes[m]` is what the open transaction has flushed and nobody else sees; `Commit` publishes it and
`RollBack` drops it. `Blocked` is PostgreSQL: inserting an identity or a session with the key another
open transaction has inserted waits for that transaction, and so does the `UPDATE` of
`conversations.updated_at` that `create_message` performs. These locks of the database are what saves
`HistoryIsComplete`, although the lock of the router is left too early. `Commit` may still fail
(`RollBack`).

`Break` is the failure of any step inside the lock: an exception in `svc.invoke` is caught
(`router.py:129-131`) and answered with an apology, after which the broken transaction fails to commit; an
exception elsewhere leaves the task. `Runs(m)` is what a task does of itself, `Step(m)` adds `Break`. The
failure of the agent itself is caught lower (`agent_invocation.py`) and stores an apology as the answer,
which is `PersistReply`.

Bounds and abstractions: one bot, one process; `MaxTime` bounds the clock; `Msg`, `ChatOf`, `UserOf`
and `Renews` say who writes what where. A limit of `Rpm` = 0 admits one message, as in the code.
`rows` is a set, because prompt and answer are flushed in one transaction and share `created_at`.
`/link`, `/unlink`, `/help` are messages that write nothing; the bot is only switched off
(`Deactivate`), never on again. A history of more than 200 messages is not reached.

`ExchangeLog` is what an observer of the committed tables may rely on: conversations are made one by one
for chats that have none or by `/new`, and `Answer` adds the exchange of a message in one step, given
*exactly* what the conversation holds then. The mapping is `made <- Made` (the messages whose commit made a
conversation), `thread <- session`, `log <- rows`, and `given <- Given`: of a message that is done, what the
agent saw besides the message's own prompt. A task takes its history before it leaves the lock and commits
outside of it; that the two could as well be one step is what the refinement says.

### RagIngestion

Three processes meet at a document `d`: the request (`Dispatch`, `Accept`, `UploadFails`), the worker
(`Parse`, `Find`, `RemoveOld`, `Insert`, `IngestFails`, `Complete`, `CompleteFails`, `Fail`, `Crash`)
and the administrator (`Retry`, `BeginErase` with `EraseVectors`, `EraseFile`, `EraseRow`,
`RemoveVectors`, `DropVectors`, `DropRows`). `row[d]` is the tracking row as committed, `known` the
documents whose row carries a `vector_document_id`, `vectors` and `files` the other two stores,
`target[d]` what the worker found to replace, `task[d]` where the task is, `result[d]` what
`ingest_file` returned. Names and contents are in
the constants `NameOf` and `ContentOf`, because `ingest_file` looks for the one and then for the other.

The upload calls `.delay` on a taskiq task; the version in `uv.lock` offers `.kiq` only. `Dispatch`
models the call as it is meant, and `UploadFails` what the locked version does: the request raises and
the row is rolled back. The list broker takes a message off the list when it hands it out, so that a
worker that dies loses it (`Crash`). `faults`, chosen once and for all, says whether workers die and
stores fail. The staged copy under `_rag_tmp` is left out, there is one collection, and progress events
are not kept.

### SyncSources

A *job* is a dispatched task; `pc[j]` follows `sync_single_source_task` or `sync_collection_task`. A log is
named by the job dispatched with it: `uses[j]` is the log job `j` reports to, and a `pending` log is one
whose transaction is open. `Trigger` and `Answer` are the two ends of `trigger_sync`'s transaction;
between them the job may already run (`Start`), and finds nothing to update. `Tick` and `Dispatch` are
`check_scheduled_syncs`; a job of the schedule calls `trigger_sync` itself (`StartScheduled`), takes the
log made there, and a second job is dispatched for the same log. `StartLocal`, `Check`, `OneFile` are
`_run_sync`. `CancelRead` and `CancelWrite` are one request. Deleting a source sets the source
of its logs to null (`BeginDelete`, `EndDelete`) and so waits for a job that is reporting, while that
job waits for the source's row: PostgreSQL ends this by failing one of them (`BreakDeadlock`).

### Workspace

A request `r` is one transaction: `Ask`, `Read` (what it decides by), `Insert` or `Update` (one flush,
which waits in `Free(r)` for the open writes it conflicts with), `Again` (the retry of `rate_message`
after a unique violation), `Commit`. `Cascade` is `ON DELETE CASCADE`. A conversation is a number, its
place by `(created_at, id)`, so that the export's cursor is a number; `ExportChunk` is one page of
`EXPORT_CHUNK_SIZE`, and conversations are created in the order of their numbers.

### ConversationPage

A call is sent, served (`Serve`) or lost (`Lose`), and its answer applied (`Apply...`): three steps with
anything between. `Select`, `ApplyHistory`, `NewChat`, `BeginChat`, `Created`, `ApplyList`, `LoadMore`,
`ApplyMore`, `Change`, `ApplyChange`, `ApplyDelete`, `Revisit` are the callbacks of the hook and of the
container. `Revisit` and `FollowLink` are the links to `/chat?id=...`, on other pages
(`admin/conversations/page.tsx:267`, `admin/ratings/page.tsx:307`, `recent-activity.tsx:61`) and in the
command palette on the page itself: they set the address and not the store, which outlives the page.
`linked` says that such a link has parted the two, and no action reads it. `server` is ordered by
`updated_at`, and a prompt moves its conversation to the front. `haste` counts, up to `MaxHaste`, how often
the user acts before the answers are there, an answer is lost, or the page is left; `calm` says that nothing
of this happened since something was last chosen at rest. The properties of a user who waits are about
`haste = 0` or `calm`; the others hold always. Commits are taken to be done when the answer arrives.

### AdminPages

One page per behaviour, or the export. `Fetch` is the effect that loads the table when the view changes;
`Filter`, `Turn`, `FireTimer` change the view, and `FilterRatings`, `TurnRatings` are the ratings page,
which debounces nothing. `Patch`, `Delete` and their `Apply` change rows of whatever table is there when
the answer comes. `Others` is another administrator or a user. `mixed`, `missed`, `stale` and `crossed`
are observations that no action reads: whether calls crossed, one failed, others changed the server,
or two drawers were fetched at a time; the properties say what holds in spite of, or without, each.

### CommandList, SlashCommands and ChatInput

`ListFilter` is `Array.filter`, which the controls and the pages use: `KeepAt` gives the entries at some
positions in their order, by the number of kept positions before each, and `Keep` those in a set. The
library's `SelectSeq` is recursive and could not be proved about.

`CommandList` translates `slash-commands.ts`: `Merge` (overrides switch a built-in off, customs are
appended), `IsBuiltinEnabled`, `Search` (prefixes first, then mentions). What begins with or mentions
what is given by the relations `Begins` and `Mentions`.

In `SlashCommands` a request looks (`Look`), flushes (`FlushInsert`, `FlushUpdate`, `FlushDelete`), is
answered with its write still open, and commits (`Commit`): the four stages are seen by the page
and by the other requests. `ToggleBuiltin` is the upsert. `Others` is another tab, `crossed`, `missed`, `stale`
are observations.

`ChatInput` has a step per callback with the render and effects it causes. `message` is a slash and what
follows, or words; a word is new each time it is typed or heard, so that sending it twice is seen.
`Submit` is Enter, `Choose` a click in the palette, `Tab` the completion. Files are uploaded one after
the other (`batch`); `mic` and `heard` are the speech recognition and its transcript.

### ShareDialog and RatingButtons

A request reads and writes in one step, since `Workspace` has the finer ones, and commits after its answer.

The dialog goes with all it knows when it is closed, its requests go on, and a dialog opened then may be
answered a list from before their commits. What a dialog can be held to is what it was told: `known` are the
ids whose last change it has been told, by the answer to it or by a list read after its commit, and `tells`
the ids whose last change an answer under way has. Any further change of a share takes its id out of both.
`crossed`, `missed` and `stale` say whether Enter or an earlier dialog's change crossed the fetch, an answer
was lost, or others changed the shares. No action reads any of the five.

`RatingButtons` computes the new counts from the message as it was when the button was pressed (`was`), and
gives them to the chat's store only: `shown` is the message there, `cached` the one in `currentMessages`, which
a history fills and the next visit of the page shows again. Conversations are selected, left and fetched at any
moment, several at a time, so that buttons go while their request is under way (`own`). `screenOld`, `cacheOld` and
the `old` of a request say whether the rating was changed since what they have was read or made, and no action
reads them. A history that an admin fetches comes without ratings (`conversations.py:207`): the variable `admin`.

## Runs

Every passing run explores its instance completely. State counts are of distinct states.

| Run | Instance | Shows |
|---|---|---|
| `agent_safety` | 2 sessions, 2 conversations, no tools, 2 turns, symmetric (860k) | storage, memory and announcements agree through failures, disconnects, deletions and crashes; the refinement of `ConversationLog` |
| `agent_live` | 1 session, 1 conversation, 1 tool call, 2 turns (695k) | tool rows are what the client was shown; every accepted prompt comes to an end |
| `chat_unstable` | 2 sockets, 1 conversation, 2 prompts, 2 turns, one change of chat, drops and refreshes, symmetric, seen through `TabsView` (3.6M) | bubbles do not mix turns, but for errors; prompts are handed over at most once |
| `chat_live` | 1 socket, 2 conversations, 2 prompts, one change of chat, 2 turns (313k) | the input is locked only while an answer can come; the queue drains |
| `router_safety` | two plain messages of one user, one of another and a `/new` in a group, any failure (230k) | calls serial, exchanges whole, histories complete, one conversation per chat; the refinement of `ExchangeLog` |
| `router_live` | three messages, one of them private; one user in both chats; limit 1, window 2, clock to 2 (236k) | every task ends: chat locks and row locks never form a cycle; no window admits more than the limit |
| `rag_documents` | 2 uploads of one name, both replacing, with faults and without (512k) | status, vectors and tasks agree; `done` is final; a row the worker can see does not stay in `processing` |
| `sync_sources` | 1 source, 2 jobs, either of which may be local with 2 files, one cancellation at a time (318k) | logs are earned, shared only as meant, stay ended; a log its job can see ends |
| `workspace` | 3 requests, 3 conversations of one owner, 2 users, chunks of 2, symmetric (2.5M) | no orphans, no double shares, racing ratings served, the export whole |
| `conversation_page` | 2 conversations, 2 calls, pages of 1, one hasty act, symmetric (1.9M) | address, messages, pages and loading flags agree |
| `admin_pages` | 3 items, 2 calls, pages of 2, export chunks of 1, 2 changes, symmetric (3.2M) | tables answer their view, loading ends, the drawer settles, the export is accounted for |
| `controls` | 2 calls; 1 built-in and 1 custom name in the settings, 2 and 1 in the chat; 2 words, 1 file; 1 user and links; symmetric (1.2M) | settings, shares and rating shown are those stored, or that were told; what is written is handled once |

**Why these bounds are enough.** The hazards are between two actors: two sessions and two
conversations give every way one turn can interleave with another in the same or in a different
thread, and two turns of one session show what the first leaves behind. Two sockets are an old one and
its successor; a third would only repeat it. Two prompts are one in flight and one queued; the
divergences that need a third have one. In the router, a chat's messages are in one of three positions:
holding the lock, out of it without having committed, and waiting. Four messages of one chat fill them
all, the `/new` in any of them; `router_live` adds the second chat, where one user's identity is
inserted twice. Two documents are an old and a new version.
For `SyncSources` two jobs are a scheduled one and the second dispatched for its log, or any two that
overlap; the safety properties were also explored with three (4.6 million states), and are proved. In
`Workspace` three requests are the two that race and one that takes away what they race for; three
conversations and chunks of 2 give the export a full and a partial chunk. In the pages, two calls are
two answers that can come in either order; pages of 1 in a list of 2, and of 2 in one of 3, make a
second page, and an item that moves or goes shifts it. One hasty act puts two calls under way at a time,
which is as many as there are slots (with two hasty acts: 4.2 million states, no error). TLC's result is
for these instances; where proofs exist they remove the bounds.

`TabsView`, a `VIEW` of TLC, identifies states that differ only in observations, in the memory of the server's
sessions, and in what is in a thread beyond whether it is empty. No step of the page or of the server goes
by these, and the invariants of the tab do not mention them; `agent_safety` explores them.

**Deadlock.** `RagIngestion` and `ConversationPage` are checked for it. In the others connections,
prompts, sockets, messages, requests, jobs, changes or words are used once, so that a behaviour ends when they
are used up: there `CHECK_DEADLOCK FALSE`, and the liveness properties of the first four modules
and of `SyncSources` show that nothing stops earlier.

### Properties

A property that is a conjunction lists its parts, which the modules name and comment one by one.

| Property | What it says |
|---|---|
| `ThreadsAreSound` | `OneThreadPerTurn`: prompt and reply of a turn are never in two conversations; `ThreadOrder`: nothing is stored twice, and no reply before its prompt; `RowsAreStored`: a conversation's rows are those its turns stored, and only a live one has any |
| `RepliesAreTrue` | `SavedMeansStored`: a `message_saved` event is about a reply that was committed; `MemoryMatchesReplies`: the memory of a session holds the turns whose run finished, in order |
| `TurnsAreBracketed` | events of a turn lie between its start and its single end |
| `LogRefined` | `AgentSession` implements `ConversationLog`; `ChannelRouter` implements `ExchangeLog` |
| `ToolRowsMatchEvents` | the tool rows of a reply are the calls the client was shown |
| `TurnsEnd` | a busy session becomes idle or ends |
| `BubbleHoldsOneTurn` | a bubble's text, tool calls and database id are of one turn; an error of another turn is in it only if that turn failed before it had a bubble and the tab never saw the bubble's own turn complete |
| `PromptOnce` | a prompt is in at most one of queue, timers, network and server |
| `InputUnlocks` | `LockedOnlyWhileWaiting`: `isProcessing` means a prompt or an answer is under way; `QueueDrains`: while the tab is connected, a queued prompt leaves the queue |
| `AgentCallsSerial` | at most one message of a chat is inside the lock |
| `ThreadsAreWhole` | `ExchangesAreWhole`: a prompt is committed exactly when its answer is; `HistoryIsComplete`: the history given to the agent holds each earlier exchange of the conversation; `OneThreadPerChat`: a chat gets no second conversation, except by `/new` |
| `WindowBound` | a bucket's window admits at most `Rpm` messages |
| `TasksEnd` | a message that waits for the lock is answered, refused or rolled back, though a wait for a lock or a row never times out |
| `RowsAreTrue` | `DoneCanBeErased`: vectors of a `done` document can be reached from its row; `ErrorsAreIdle`: a document in `error`, which may be retried, has no task running |
| `DoneIsFinal` | a `done` row changes only by deletion |
| `SeenIsSettled` | a row the running task can see does not stay in `processing` (workers and stores up) |
| `ReportsAreTrue` | `DoneIsEarned`: a log says `done` only if a job of its own counted no failed file; `StatusIsReported`: the last status of a source is that of one of its logs; `LogsAreShared`: only by a scheduled job and the one dispatched for it |
| `EndedLogsStay` | a log that has ended never runs again and never goes away |
| `SeenLogEnds` | a log that its job can see leaves `running`, unless the job is lost or its source deleted |
| `RowsAreSound` | nothing refers to what is gone, and nothing is shared twice with one user |
| `RatingsAreKept` | a rating fails only over what another request takes away, and what is committed is what was asked for |
| `ExportIsWhole` | the export has each conversation that was there all along, and none twice |
| `PageSettles` (conversations) | `AddressIsShown`: the address never names another conversation than the one that is shown, unless a link set it and nothing has looked at it since; `ScreenIsShown`: after a choice made at rest the messages are those of what is shown; `SidebarSettles`: for a user who waits the list is the server's, is complete when it stops, and is not said to be loading |
| `TableAnswersView` | the table at rest is the answer to the filter and page on screen, with the changes made |
| `PageSettles` (administration) | `LoadingIsTrue`: skeletons while a fetch is under way, not longer; `DrawerSettles`: the drawer ends with its user's conversations |
| `ExportIsAccounted` | the export of ratings misses or doubles one only when ratings went or came |
| `SettingsAreSound` | `CommandsAreOne`: a name is one row; `SettingsAreStored`: the settings at rest show the rows |
| `SharesAreShown` | `KnownAreShown`: of every share whose last change the dialog was told, it shows whether there will be one, whatever crosses, is lost or is left behind; `RestIsShown`: at rest it shows the shares stored, if nothing crossed their fetch |
| `RatingIsShown` | from the answer to the last change on, or from a history read after it, a message shows the newest rating, and its counts |
| `InputIsSound` | `CommandIsRun`: Enter runs the command that is highlighted whenever one is offered; `SendsOnce`: words and files go with one message |

## Fairness

- `AgentSession`: `WF(Step(s))` for each session. The event loop runs every ready coroutine; a database
  call and a model run return or raise. Streaming a further chunk has no fairness, nor has any client.
- `ChatSystem`: weak fairness of the page's callbacks, of opening a socket, of handing a prompt to the
  server, of the server's steps and of delivering events. The user and the network owe nothing.
- `ChannelRouter`: `WF(Runs(m))` for each task: what it does of itself. `asyncio.Lock` wakes its waiters in
  order, and a wait for a row ends when the other transaction does, which is a step of its task. A task that
  waits is not made to fail (`Break` has no fairness), since neither the lock nor a statement has a timeout: a
  cycle of chat locks and row locks would be found.
- `RagIngestion`: weak fairness of each request and of each worker task. The administrator owes nothing.
- `SyncSources`: `WF(Work(j))` for each job, whose queries and files end or raise, and `WF(Settle(s))`: a
  deletion that has begun commits, or PostgreSQL breaks the deadlock it is in. Requests, the clock and
  crashes owe nothing.

The pages, the controls and `Workspace` have safety properties only, which need none.

## Divergences

Statements of the repository's own comments, documents and texts that the code does not keep. Each is
stated at the end of its module, with the line it comes from, and has a configuration that ends in
its counterexample: `tlc -config <file> MC<module>.tla`. In a `_divergences` file one property is
active and the others are commented out, to be tried one at a time.

| Configuration | Property | What happens |
|---|---|---|
| `AgentSession_divergences` | `AnnouncedExists` | the conversation of a rolled-back transaction is announced, adopted, and used by later prompts (`agent.py:147`) |
| | `ReplyHasItsPrompt` | the failure to store a prompt is swallowed, and the reply is stored without it (`agent.py:147`) |
| `ChatSystem_divergences` | `DrainsInItsThread` | on a switch the drainer runs before the queue is cleared (`chat-container.tsx:88`), and sends to the chat just selected |
| | `OneInFlight` | during the drainer's 100 ms the page counts as idle, and a second prompt is sent (`use-chat.ts:548`) |
| | `NewChatIsNew` | New chat clears the screen and keeps the id of a conversation begun in this tab (`use-conversations.ts:231`) |
| `ChatSystem_QueueDrains` | `QueueDrains` | after a lost answer `isProcessing` stays true, and the queue waits for ever (`use-websocket.ts:70`) |
| `ChannelRouter_divergences` | `NoDuplicateSession` | the second message of a new chat does not see the uncommitted session and inserts another (`router.py:65`) |
| | `ThreadIsCurrent` | a message after `/new` is handled in the replaced conversation (`router.py:221`) |
| | `PromptGivenOnce` | the history already holds the prompt that is appended to it (`agent_invocation.py:66`) |
| `ChannelRouter_RpmInAnyWindow` | `RpmInAnyWindow` | two adjacent windows put up to `2*Rpm - 1` messages within one minute (`router.py:346`) |
| `RagIngestion_divergences` | `DeletedIsGone` | a document deleted while it is ingested stays in the vector store (`rag_document.py:226`) |
| | `DoneMeansIngested` | a failed ingestion is completed, because its result is not looked at (`rag_tasks.py:94`) |
| | `AcceptedIsProcessed` | a task that ends before the row is committed updates nothing, and the row stays in `processing` (`rag_document.py:150`) |
| | `RetriesRun` | retry resets the row and starts nothing (`rag_document.py:204`) |
| | `OneOfEachName` | two replacing uploads of one name at once are both kept (`ingestion.py:116`) |
| `RagIngestion_ReplacesSameSource` | `ReplacesSameSource` | `replace` also removes a document of equal content and another name (`ingestion.py:120`) |
| `SyncSources_CancelledStays` | `CancelledStays` | a job that ends after "Sync cancelled" (`routes/v1/rag.py:286`) writes `done` or `error` over it |
| `ConversationPage_divergences` | `AddressTakesPriority` | a link on the page sets the address and nothing reads it, or the list that would is lost: another conversation stays on screen, in spite of "URL ?id= param always takes priority" (`use-conversations.ts:54`) |
| | `NewChatIsEmpty` | a history that arrives after New chat is shown in it (`chat-container.tsx:78`) |
| `AdminPages_PromotionHolds` | `PromotionHolds` | `PATCH` with `is_app_admin`, named at `admin_users.py:8`, is answered and changes nothing: `UserUpdate` has no such field |
| `Controls_divergences` | `BuiltinsAreNotShadowed` | a custom command may have a built-in's name, in spite of `user_slash_command.py:9` |
| | `NameSendsPrompt` | Enter on the name of a command runs the first that begins with it (`slash-commands-manager.tsx:182`) |
| | `StoresAgree` | a rating is put into the chat's store only, and the next visit shows the old one again (`message-item.tsx:227`) |
| | `SharesAreStored` | a dialog opened before an earlier one's change commits lists without it, and stays so (`share-dialog.tsx:45`) |

The last two are not said anywhere: they are what `RatingIsShown` and `SharesAreShown` would say if they left
nothing out. The share dialog asks for a "user ID or email" and its request takes an id only.

`QueueDrains` is part of `InputUnlocks`, which holds in `chat_live`: the difference is `Unstable`.

## Proofs

The theorems assume of the constants what the named `ASSUME` of each module says, and no more: bounds,
limits and page sizes are natural numbers, a window and a chunk are not empty, there is a user, messages
have a chat, conversations an owner, documents a name and a content, words are not files, of which there are
finitely many, and `None` and the other markers are not members of the sets they are used beside. TLC
evaluates the assumptions in each run of the module. Every inductive invariant below was explored by TLC, on
the instances of the runs, before it was proved.

### AgentSessionProofs

The invariants of `AgentSession` are not inductive: nothing in them says that the turn a session is
about to write has not been written already. `IInv` has four parts:

1. `TypeInv`: `TypeOK`, and a busy session has a turn;
2. `TurnsOwned`: no turn above the counter has been written, and no two busy sessions have one turn;
3. `WrittenSoFar`: for each `pc`, what the session's turn has stored so far and where;
4. `Threads`: the three properties themselves.

Each action has a lemma for the parts it can disturb; most share the lemmas of `Store`, which say what
appending a row does to `ThreadOrder`. From `IInv` follow `TypeCorrect`, `ThreadsSound`
and `ImplementsLog`: each step of `AgentSession` is a step of `ConversationLog` or
leaves its variables unchanged.

What a client was sent needs a second invariant, `EInv`, that says where a session is against the events its
client has heard: `Lines` (the sequence is bracketed and rising), `Told` (a client that is still there had
what the turn produced so far: each `tool_call`, each result, the end of the turn before), `Unended`
(nothing of the turn under way that comes later), `Memory` and `Shown` (the same of the memory and of the
tool rows), `OwnEvents` (no session sends another's turn) and `AllBacked` (a `message_saved` says what is in
the tables). `EventsApart` says of two connections that they are never told of one turn. The work is in
`FitsBrackets`, `FitsTools` and `HeardSays`, which say once what an event that fits does to a sequence; an
action then only shows that its event fits. `AllBacked` rests on `TablesOnlyGrow`: nothing that was written
is taken back, but with its conversation. From `EInv` follow `RepliesStayTrue`, `TurnsStayBracketed` and
`ToolRowsFollowEvents`, and `TurnsStayApart` from `EventsApart`. `EventsOnlyGrow` says that no step changes
what was sent, which `ChatSystemProofs` needs of the server. All this holds for any number of sessions,
conversations, tools and turns.

### ChatSystemProofs

`ServerIsAgentSession`: a behaviour of the system, seen at the server's variables, is one of
`AgentSession`. `Agents == INSTANCE AgentSessionProofs` then gives the system every theorem of the server
(`ServerKeepsItsPromises`), and the facts about events the page relies on. Four invariants follow:

1. `SysInv`: types, and no socket has handled more events than it was sent. It gives `TypeCorrect`.
2. `BubbleInv`: only the current socket is connecting or open; and if of the events handled so far one
   `model_request_start` has its turn still under way, then `bubble` is that turn's. `TurnsStayBracketed` of
   the server excludes a delta outside its turn, and events are handled in order. `ErrorInv` accounts for each
   error that is in another turn's bubble: the ref names a bubble whose turn the tab saw begin and not complete
   (`RefIsOpen`), and either that turn was on the same connection, before, or its connection is gone (`Strayed`).
   That neither of the two turns can be heard of again rests on `TurnsStayApart` of the server. Together they
   give `RepliesHoldOneTurn`; without the server's theorems the page would not have this property.
3. `PromptInv`: of every prompt queue, timers, sockets and turns hold one between them, and none
   that was not typed. `PromptsOnce` counts this with the sums that the property is written with.
4. `LockInv`, for a connection that holds (`~Unstable`): the tab has one socket for good (`OneForGood`), so
   that a prompt is written whenever the input is locked for it, and timers and lock are of a tab that was
   connected (`Connected`). The step that matters is `RunUnlocks`: a run of the server that leaves the busy
   states has sent an event that unlocks. `LockIsWaiting` follows. With a connection that drops it is false:
   `doSend` locks the input for a prompt that a closed socket swallows.

### ChannelRouterProofs

`OneThreadPerChat` and `HistoryIsComplete` have to bridge the time between leaving the lock and the
commit. The invariants, each proved with the help of the earlier:

1. `TypeInv`: `TypeOK`, and `Locks`: a task inside the lock is at the head of its chat's queue;
2. `Written`: what an open transaction has flushed at each `pc`;
3. `Writers`: per conversation, at most one open transaction has written messages. This is
   `create_message`'s `UPDATE` of the conversation's row, held until the commit;
4. `Stored`: a task that is done has its rows committed;
5. `ThreadInv`: of the sessions of a chat, which may be inserted, renewed or joined by open
   transactions (`Sessions`, `Adders`, `Renewers`, `Joiners`), with `OneThreadPerChat`.

They give `TypeCorrect`, `CallsSerial`, `WholeExchanges`, `CompleteHistory` and `OneThread`, the
last three together `WholeThreads`. `WindowsBounded` has an invariant of its own, `RateInv`: of a bucket's
current window, `count` is at least the number admitted in it, and who is admitted passed the check at a
time of that window. The
argument of `CompleteHistory` is worth a reader's time: the router's lock alone would not give it, since
it is left before the commit; what does is that a prompt is flushed, and thus waits for the last
writer's commit, before the history is read.

`ImplementsLog` needs two more parts. `Serial`: what is stored is of messages that are done, and from the history
on `seen` *stays* what the conversation holds together with the own prompt, until the commit; again because of
`Writers`, nobody else can add to it meanwhile. `Homes`: a task is in a conversation that it makes itself or
that is made. A step that does not commit changes nothing in the log; a commit (`LogCommit`) is a
conversation made, an exchange added, both, or nothing.

### AdminProofs: SyncSources

`IInv` is `TypeOK`, `Shape`, `CancelSeen` and `OneBorrower`:

1. `Shape`: who dispatched a job and which log it may use (`Origins`), that a log of another job is the
   one made for a scheduled job (`Borrowed`), where a job is against its source and its log (`Places`),
   and that a local job which looked at a file too late sees so before the next (`Punctual`);
2. `CancelSeen`: what a request is about to cancel has been committed;
3. `OneBorrower`: a log has at most one user beside the job it was made for.

`EndedStay` needs none of the counting: every action that writes a log writes one that is running or
writes an ended status (`LogWritten`). The theorems are `TypeCorrect`, `CancelStops`, `LogsShared`,
`DoneEarned`, `StatusReported`, together `ReportsTrue`, and `EndedStay`, for any number of sources,
jobs and files.

### AdminProofs: RagIngestion

`RagInv` ties a row to its request, its task and its vectors: a row exists only once its request committed
(`Uncommitted`), vectors are there only if the task noted its success (`Inserted`), a `done` row has no task
left and knows its vectors (`DoneIsOver`), a row in `error` has none that could still write
(`ErrorIsOver`). It gives `RagTypeCorrect`, `RowsHoldTrue` and `DoneHolds`, for any number of documents, names and
contents. `RowsAreTrue` is not inductive without `Uncommitted`, since a task may run before the row it
reports to is there.

### AdminProofs: AdminPages

The three properties are about a page at rest, and say nothing while calls are under way. `AdminInv` says
what each call will leave:

1. `AdminTyped`: types, and of each call what its kind says (`Formed`). The answer to a patch is one
   row, of the user patched, and without the flag of an administrator.
2. `Counts`: deletions under way are no more than changes made. Each takes one from `total` when it
   is answered, which the type of `total` has to allow.
3. `LoadInv`: `count` of `use-admin-conversations` *is* the number of fetches under way, and `loading` says
   whether there are any; on the other pages, whose flag is not counted, `loading` still means a fetch.
4. `DrawerInv`: unless conversations of two users were fetched at a time, those under way are of the
   user whom the drawer shows.
5. `ViewInv`: the timer holds the query on screen (`Views` arms it anew each time). While calls have not
   crossed, one call at most is about the table; and then `AtRest` (the table is right), `Asked` (a fetch asks
   for what is on screen, and an answer on its way is right) and `Changed` (the table with the change made,
   `Patched` or `Without`, is right for the server that made it) hold one beside the other. To be `Right` is
   to hold only rows of the page, the total, and the flags. The step that matters is the deletion of a row
   of the page (`PageWithout`): the other rows of the page are still in it, since those behind move up.
6. `ExportInv`: `ExportOnce` (no row beyond `skip` is in the output yet) while no rating came in, and
   `ExportAll` (each that has matched all along is in the output or beyond `skip`, and no more rows than were
   counted) while none went. Rows that come in move others down and rows that go move them up:
   `HitsMove` and `TwoKept` say that filtering one list by two sets moves the common rows one way only.

From it follow `AdminTypeCorrect`, `TableStaysRight`, `AdminPageSettles` and `ExportStaysAccounted`, for any
number of items, calls and changes and any size of a page and of a chunk.

### ConversationProofs: Workspace

`RowsInv` says of each request what it read still tells it (`Asked`, `Held`: what an open write was
flushed against holds until it commits; `Contested`: the rating a racing request lost to, or read, is
there unless another request takes it away), that conflicting writes are not open together
(`Apart`), and that a conversation is made once (`Fresh`). That is what READ COMMITTED, the locks and the unique
keys give; `RowsStaySound` and `RatingsStay` follow, the latter also as a statement about steps. `Descends` says
that the export goes down the keys and has passed nothing that was there all along: `ExportStaysWhole`.
The page of an export is written as the function of the ranks of its keys (`Newest`, `Above`),
since `SortSeq` is outside the prover's reach; that every rank up to the size of the page has a key is
`EveryRank`. The theorems hold for any number of requests, conversations and users.

### ConversationProofs: ConversationPage

`AddressShown`: with the type of `linked`, `AddressIsShown` is inductive. Seven places of the page and two kinds
of links set the address or what is shown: links alone part the two, and the three that look at the address, or set
both, end that.

`PageComesToRest` rests on `PageInv`: `PageTyped`; `LoadingInv` (what is said to be loading has a call that will
say it is not); `OneCall` (while `calm`, one call is under way at most, and a history that is fetched is that of
the conversation shown; this part contains `ScreenIsShown`); and `ListInv`, which makes `SidebarSettles` inductive:
while the user waits, the list is right, or *will be* with the answer there is (`CallRight`, `After`).
Right is to begin with the conversations begun in this tab and to be for the rest the first ones of the server, in
its order, each once and with its flag, with `more` saying whether any is missing. What the steps do to the first
`n` entries of a list that is filtered, moved to the front, or continued by a page is in lemmas of their own.
`PageTypeCorrect` and the two others hold for any number of conversations and calls and any size of a page.

### ControlsProofs

`RatingStaysShown` and `SharesStayShown` are about controls that apply, one by one and in any order, the answers
to requests which commit on their own, and that are told of changes others made at most by a later fetch. The
invariants say how page and table differ meanwhile.

`RatingInv` says that there is a *newest* rating, to which all that is not old agrees (`RatingAt`): what is
stored when nothing is open; what every open change will store; the change or the history that an answer has, unless
the rating was changed since; the message of either store, unless it is old (`MessageRight`). Every message and
every `was` is of some rating (`IsMessage`), so that the counts computed from it are those of the new one
(`NewCounts`), however old it is: this is why the buttons may be pressed in one visit and answered in another. Two
changes are open together only if both remove the rating (`OneOpen`).

`SharesStayShown` has two invariants. `KnownInv` is about what the dialog was told: of a known id it is
listed exactly if there *will be* a share with it once the open changes commit (`There`), and of each id that
an answer tells, the answer has it exactly if there will be one (`TellsRight`). It needs no rest and no luck:
what each step changes of `There` is what it takes out of `known` and `tells` (`Forgotten`).

`ShareInv` is about rest, and has an equivalence at its centre, `Agree`: a share *will be stored* once the
open changes commit exactly when it *will be listed* once the answers under way are applied. It holds of
each share while the dialog is undisturbed (`Steady`) and no fetch is under way; while one is, it runs alone
(`FetchesAlone`). It is inductive only with `Fresh` (an id is given once, and what is not committed is not
revoked), `ToldLanded` (a change whose answer nobody waits for is over) and `UnlistedStay` (what is not
listed yet cannot be revoked). At rest nothing is open and no answer is under way, and `Agree` becomes
`RestIsShown`.

`InputStaysSound` rests on `InputInv`: its types; `HighlightFits`, which is `CommandIsRun` and holds because
every change of text or list passes `ResetFits`; `FilesOnce`, a partition of the files into those not chosen,
attached, waiting for their upload, taken off, and sent, only the last of which were counted, once; and
`WordsOnce`: a word that is in the text, or in what the microphone will give back, has not been sent, and
nothing is left over from the microphone while it is off. The length of the palette matters, so that `OfferedTyped`
shows the merged and searched commands to be a list.

The three theorems hold for any number of requests, users, shares, commands, words and files.

### SettingsProofs

`SettingsStaySound` has two halves. `CommandsAreOne` is the server's: `ServerInv` says that a name and an id
have one row (`RowsOnce`), that what an open insert or renaming takes is neither in a row nor taken by
another (`NamesTaken`, `IdsTaken`: the unique key, which blocks the second), and that an id which somebody
holds stays an id of the same kind of row (`RowsKnown`: an edit never hits the row of a built-in, nor a switch
a custom command).

`SettingsAreStored` is about the page at rest, and its invariant has to follow four kinds of requests
from being asked to being answered *and* committed, which may come in either order. `PageInv` has six parts:
one form is waited for at a time (`OneForm`); what the observations `crossed`, `stale` and `error` say of the
requests under way (`NotesTrue`); and, while nothing was disturbed, that changes under way are of rows
apart or agree (`Apart`), that what each saw is still so when it is flushed and what it left stays
(`ChangesHold`), that a list which was served is what is stored (`ListHolds`), and `RecordsHold`: a row *will be
stored* once the flushed writes commit exactly when it *will be shown* once their answers are applied
(`RowToBe`, `RecordToBe`). At rest both are the present. An attempt to prove this with the observation as it
was first written showed that it called two changes of one command crossed that cannot disturb each other,
so that the property said nothing there; `Crosses` now names just those of one row, and those that
switch one built-in to different values, and the property is proved with it.

`ControlsTyped` joins the types of the four controls. Both hold for any number of requests, names,
rows and changes.

### ListFilterProofs

Lists are filtered (`KeptAt`, `Kept`, `KeepTwice`, `KeepLess`), put together (`Listing`, `Prepended`, `Appended`,
`Tailed`, `Joined`, `PutInto`), cut (`Stretch`, `FrontOff`) and changed in place (`LeastPlace`,
`Replaced`): each lemma says which entries the result has, whether one twice, and at which places. All rest on
`BeforeCounts` and `EveryPlace`, which count positions, where a recursive filter would have needed
induction over data.

### Only model-checked

Every invariant and every action property that a run checks is a theorem. What is left is liveness:
`TurnsEnd`, `InputUnlocks`, `TasksEnd`, `SeenIsSettled`, `SeenLogEnds`. It is beyond the prover, which has no
rule for `ENABLED`. Of `InputUnlocks` the safety half, `LockedOnlyWhileWaiting`, is proved
(`LockIsWaiting`); that a queued prompt leaves the queue is not.

## Not modelled

Besides the components of the [table](#components-that-are-not-modelled): the content of messages,
linked files, titles; messages that `POST /conversations/{id}/messages` (`routes/v1/conversations.py:218`) adds
outside a turn; tool approval; link codes of channels; the search of documents; statistics; comments on
ratings; permissions of shares, and what a link shows; previews of files. A
database error in the tool-call loop of `persist_assistant_turn` (`agent.py:196`) breaks the
transaction whose commit follows; `SaveFails` covers the outcome without its cause. Several processes of
the backend, each with its own locks and buckets, are not composed.

**Where the models are coarser than the code.**

- Commit after response is modelled in the controls; `ConversationPage` and `AdminPages` take an answer
  to be committed, and in `Workspace` a request is answered by its commit.
- `ConversationPage`: deleting the shown conversation keeps `currentMessages`; a list fetched after
  `conversation_created` is shorter than what was loaded while `hasMoreRef` stays false; offsets repeat or
  skip conversations that are prompted meanwhile; a late `fetchMore` brings back removed ones. `haste`,
  `begun` and `calm` exclude these from the properties, not from the behaviours. Likewise the slower of two
  histories does win, and stays until the user chooses again; and in `AdminPages` fetches that crossed
  (`mixed`) do leave the table at an older query.
- `AdminPages`: `total` can become -1; count and page are read in one step though the code has two
  queries; the order has no tie-breaker; the pager of the ratings is hidden when all fit on a page, even on
  a later one.
- `SyncSources`: a scheduled job whose connector the registry has lost reports to its source directly
  (`rag_tasks.py:307`).
- `ChatInput`: a click in the palette sends even while the input is disabled or files are uploading; Tab
  and then Enter on a custom name sends the slash as text; the transcript of the microphone survives a
  send. The marker of interim text is left out.
- `ShareDialog`: an error of the first fetch is not shown and looks like no shares; the link that was
  made stays on screen after its share is revoked.
- `RatingButtons`: the list that follows a visit may fetch the history of the conversation that the address names;
  this is `Select`, which also clears the screen.

**What no property holds of.** Some hazards in `PROJECT.json` have no property, or one that covers a part, and their
notes say so: what the code does there is wrong or left open, and a property that held would have to leave the case
out. Where the code itself says otherwise, this is one of the divergences. The others: a prompt that a closed socket
swallows leaves the input locked; a worker that dies leaves its document in `processing`; dropping a collection
leaves rows `done` without vectors while it runs; a sync whose source is deleted under it may lose its report; a
transcript that ends after its message was sent joins the next.

**Seen in passing, in code that is not modelled.** `channel_bot.py:44` passes a `project_id` that
`channel_bot_repo.create` does not take. Deleting a bot does not stop its polling, though
`routes/channels.py:82` says so. Slack's `message` and `app_mention` of one text are both handled, as are
retried webhooks (`slack_webhook.py:59`). `GET /shared-with-me` (`conversations.py:297`) is taken by
`/{conversation_id}` (124). Memory belongs to the connection and not to the conversation
(`agent_session.py:70`); locks and buckets of the router are never removed (`router.py:43`); prompt and
answer of a channel message share `created_at` (`repositories/conversation.py:323`); the list of
existing documents ends at 10000 chunks (`vectorstore.py:228`); staged copies are never removed
(`rag_document.py:147`); the old avatar is deleted before the new one is saved (`user.py:203`).

## Plan

Done, in this order: `ConversationLog`, `AgentSession` and its proofs; `ChatClient`, `ChatSystem`;
`ChannelRouter` and its proofs; `RagIngestion`; `SyncSources` and its proofs; `Workspace`;
`ConversationPage` and its first proof; `AdminPages`; the controls; the proofs of `ChatSystem`,
`RagIngestion`, `Workspace`, and of what `AgentSession` and `ChannelRouter` had left; `Controls` and the
proofs of the share dialog, the ratings and the input; the proofs of the settings, of `ConversationPage` and
of `AdminPages`. What is left:

1. The router with several processes, whose locks do not exclude one another.
2. `ChannelLink`: link codes and the account they attach. The Slack supervisor with redelivered events.
3. `Accounts`: registration, reset and magic-link tokens.
