---------------------------- MODULE SlashCommands ----------------------------
(***************************************************************************)
(* The settings of a user's slash commands: the page                       *)
(* (components/settings/slash-commands-manager.tsx over                    *)
(* hooks/use-slash-commands.ts), the requests it makes, side by side, and  *)
(* the user's rows (services/user_slash_command.py).                       *)
(*                                                                         *)
(* A request is one transaction of READ COMMITTED: it reads what it        *)
(* decides by, then flushes one write, which waits for an open write of    *)
(* the same row or name.  Its answer is sent before it commits             *)
(* (get_db_session commits when the response is out), so that the page may *)
(* go on in between.  A prompt is there or not; a list has no order that   *)
(* matters.                                                                *)
(***************************************************************************)
EXTENDS CommandList

CONSTANTS
  Call,   \* slots for the requests that are under way
  MaxIds, \* bounds the rows that are inserted
  MaxChanges, \* bounds the changes that are asked for
  Old,    \* the rows there may be at the start
  None,
  New     \* the dialog of a new command

VARIABLES
  stored,  \* the user's rows
  lastId,  \* the id inserted last
  call,    \* the requests, of the page and of other tabs
  records, \* records of the hook
  error,   \* whether the list could not be loaded
  dialog,  \* None, New, or the id that is edited
  changes, \* how many have been asked for
  crossed, \* whether requests have crossed since the list was fetched alone
  missed,  \* whether the answer to a change was lost since then
  stale    \* whether other tabs have changed the rows since then

serverVars == <<stored, lastId>>
pageVars == <<records, error, dialog>>
noteVars == <<changes, crossed, missed, stale>>
commandVars == <<serverVars, call, pageVars, noteVars>>

Id     == 1 .. MaxIds
Record == [id : Id, name : Name, custom : BOOLEAN, on : BOOLEAN]
Kinds  == {"list", "create", "toggle", "patch", "delete"}

\* seen: the row read; gives: what is answered; fields: what a patch changes.
Idle == [kind |-> "none", mine |-> FALSE, id |-> None, name |-> None, on |-> None,
         form |-> FALSE, at |-> "free", seen |-> None, gives |-> <<>>, told |-> FALSE]

Under(kinds) == {k \in Call : call[k].kind \in kinds}
Changes == {"create", "toggle", "patch", "delete"}

\* isLoading, and submitting
Loading == Under({"list"}) # {}
Submitting == \E k \in Call : call[k].form /\ ~call[k].told

CommandsTypeOK ==
  /\ stored \subseteq Record /\ lastId \in 0 .. MaxIds /\ changes \in 0 .. MaxChanges
  /\ \A k \in Call :
       /\ call[k].at \in {"free", "sent", "write", "open", "done", "bad"}
       /\ call[k].at = "free" <=> call[k] = Idle
       /\ call[k].kind \in Kinds \cup {"none"}
       /\ (call[k].at \in {"write", "open"} /\ call[k].kind \in {"patch", "delete"}) =>
            call[k].seen \in Record
       /\ ToSet(call[k].gives) \subseteq Record
  /\ ToSet(records) \subseteq Record
  /\ dialog \in Id \cup {None, New} /\ (Submitting => dialog # None)
  /\ {error, crossed, missed, stale} \subseteq BOOLEAN

-----------------------------------------------------------------------------
(* The server                                                               *)

NameTaken(n) == \E r \in stored : r.name = n
Named(n) == CHOOSE r \in stored : r.name = n
Has(i) == \E r \in stored : r.id = i
RowAt(i) == CHOOSE r \in stored : r.id = i

\* The values a patch, or the switch of a built-in command, gives that differ from
\* the row it read: only those are written.
Patched(r, c) ==
  [r EXCEPT !.name = IF c.name \notin {None, c.seen.name} THEN c.name ELSE @,
            !.on   = IF c.on \notin {None, c.seen.on} THEN c.on ELSE @]

Changed(c) == Patched(c.seen, c) # c.seen

\* A write waits for an open one of the same row or name.
RowsOf(c) == {c.id, IF c.seen = None THEN None ELSE c.seen.id} \ {None}
NamesOf(c) == {c.name, IF c.seen = None THEN None ELSE c.seen.name} \ {None}

Free(k) ==
  \A o \in Call \ {k} :
    call[o].at = "open" =>
      /\ RowsOf(call[o]) \cap RowsOf(call[k]) = {}
      /\ NamesOf(call[o]) \cap NamesOf(call[k]) = {}

Fail(k) == call' = [call EXCEPT ![k].at = "bad", ![k].gives = <<>>] /\ UNCHANGED serverVars

\* Ids and names are found and looked at: a conflict, a row that is missing, the
\* name of a custom command for a built-in one are refused.
Look(k) ==
  LET c == call[k]
      refused == CASE c.kind = "create" -> NameTaken(c.name)
                   [] c.kind = "toggle" -> NameTaken(c.name) /\ Named(c.name).custom
                   [] c.kind = "delete" -> ~Has(c.id)
                   [] c.kind = "patch"  ->
                        ~Has(c.id) \/ (/\ c.name \notin {None, RowAt(c.id).name}
                                       /\ NameTaken(c.name))
      seen == CASE c.kind = "create" -> None
                [] c.kind = "toggle" -> IF NameTaken(c.name) THEN Named(c.name) ELSE None
                [] OTHER -> RowAt(c.id)
  IN
  /\ c.kind \in Changes /\ c.at = "sent"
  /\ IF refused THEN Fail(k)
     ELSE call' = [call EXCEPT ![k].at = "write", ![k].seen = seen] /\ UNCHANGED serverVars
  /\ UNCHANGED pageVars /\ UNCHANGED noteVars

FlushUnchecked(k) ==
  LET c == call[k]
      row == [id |-> lastId + 1, name |-> c.name, custom |-> c.kind = "create",
              on |-> IF c.kind = "create" THEN TRUE ELSE c.on]
  IN
  /\ c.at = "write" /\ c.seen = None /\ lastId < MaxIds
  /\ call' = [call EXCEPT ![k].at = "open", ![k].gives = <<row>>, ![k].id = row.id]
  /\ lastId' = row.id /\ UNCHANGED stored
  /\ UNCHANGED pageVars /\ UNCHANGED noteVars

\* An INSERT of a name that is there by now breaks the unique key: a conflict for
\* create_custom, an error for the switch.
FlushInsert(k) ==
  LET c == call[k]
      row == [id |-> lastId + 1, name |-> c.name, custom |-> c.kind = "create",
              on |-> IF c.kind = "create" THEN TRUE ELSE c.on]
  IN
  /\ c.at = "write" /\ c.seen = None /\ lastId < MaxIds
  /\ Free(k)
  /\ IF NameTaken(c.name) THEN Fail(k)
     ELSE /\ call' = [call EXCEPT ![k].at = "open", ![k].gives = <<row>>, ![k].id = row.id]
          /\ lastId' = row.id /\ UNCHANGED stored
  /\ UNCHANGED pageVars /\ UNCHANGED noteVars

\* An UPDATE finds no row if it is deleted by now, and a rename may break the key;
\* the row is read again for the answer.
FlushUpdate(k) ==
  LET c == call[k] IN
  /\ c.at = "write" /\ c.seen # None /\ c.kind # "delete"
  /\ Changed(c) => Free(k)
  /\ IF ~Has(c.seen.id) \/ (Patched(c.seen, c).name # c.seen.name /\ NameTaken(c.name))
     THEN Fail(k)
     ELSE /\ call' = [call EXCEPT ![k].at = "open", ![k].gives = <<Patched(RowAt(c.seen.id), c)>>]
          /\ UNCHANGED serverVars
  /\ UNCHANGED pageVars /\ UNCHANGED noteVars

\* A DELETE that finds no row is not an error.
FlushDelete(k) ==
  /\ call[k].at = "write" /\ call[k].kind = "delete"
  /\ Free(k)
  /\ call' = [call EXCEPT ![k].at = "open"]
  /\ UNCHANGED serverVars /\ UNCHANGED pageVars /\ UNCHANGED noteVars

\* Ended for the server; the slot is free when the page has its answer.
Ended(k, at) == IF call[k].told THEN Idle ELSE [call[k] EXCEPT !.at = at]

Commit(k) ==
  LET c == call[k] IN
  /\ c.at = "open"
  /\ call' = [call EXCEPT ![k] = Ended(k, "done")]
  /\ stored' = CASE c.kind = "delete" -> {r \in stored : r.id # c.id}
                 [] c.seen = None     -> stored \cup {c.gives[1]}
                 [] OTHER -> {IF r.id = c.seen.id THEN Patched(r, c) ELSE r : r \in stored}
  /\ UNCHANGED lastId /\ UNCHANGED pageVars /\ UNCHANGED noteVars

\* An answer that no one is told of ends the request.
Forget(k) ==
  /\ call[k].at = "bad" /\ call[k].told
  /\ call' = [call EXCEPT ![k] = Idle]
  /\ UNCHANGED serverVars /\ UNCHANGED pageVars /\ UNCHANGED noteVars

ServeList(k) ==
  /\ call[k].kind = "list" /\ call[k].at = "sent"
  /\ call' = [call EXCEPT ![k].at = "done", ![k].gives = SetToSeq(stored)]
  /\ stale' = (\E o \in Under(Changes) : ~call[o].mine)
  /\ UNCHANGED serverVars /\ UNCHANGED pageVars /\ UNCHANGED <<changes, crossed, missed>>

\* The proxy or the server refuses the request.
Refuse(k) ==
  /\ call[k].at = "sent"
  /\ Fail(k)
  /\ UNCHANGED pageVars /\ UNCHANGED noteVars

\* The answer does not arrive.
Lose(k) ==
  /\ call[k].mine /\ call[k].at = "done" /\ call[k].kind \in Changes
  /\ call' = [call EXCEPT ![k].at = "bad", ![k].gives = <<>>]
  /\ missed' = TRUE
  /\ UNCHANGED serverVars /\ UNCHANGED pageVars /\ UNCHANGED <<changes, crossed, stale>>

-----------------------------------------------------------------------------
(* What the page and other tabs ask for                                     *)

Ask(k, request) ==
  /\ call[k].at = "free"
  /\ call' = [call EXCEPT ![k] = request]
  /\ UNCHANGED serverVars

\* A change of the page crosses the fetch of the list, another change of the same row,
\* or one that switches the same built-in command to the other value.
Crosses(request) ==
  \/ Under({"list"}) # {}
  \/ \E o \in Under(Changes) :
       \/ request.id # None /\ call[o].id = request.id
       \/ /\ request.kind = "toggle" /\ call[o].kind = "toggle"
          /\ request.name = call[o].name /\ request.on # call[o].on

Change(k, request) ==
  /\ Ask(k, [request EXCEPT !.mine = TRUE, !.at = "sent"])
  /\ crossed' = (crossed \/ Crosses(request))
  /\ changes < MaxChanges /\ changes' = changes + 1
  /\ UNCHANGED <<missed, stale>>

\* refresh, which the button beside the error calls.
Refresh(k) ==
  /\ error /\ dialog = None
  /\ Ask(k, [Idle EXCEPT !.kind = "list", !.mine = TRUE, !.at = "sent"])
  /\ error' = FALSE
  /\ crossed' = (Under(Changes) # {}) /\ missed' = FALSE
  /\ UNCHANGED <<records, dialog, changes, stale>>

\* "New command" and "Edit"; the dialog is modal.
OpenDialog(target) ==
  /\ dialog = None /\ dialog' = target
  /\ UNCHANGED <<call, records, error>>
  /\ UNCHANGED serverVars /\ UNCHANGED noteVars

CloseDialogAnyTime ==
  /\ dialog # None /\ dialog' = None
  /\ UNCHANGED <<call, records, error>>
  /\ UNCHANGED serverVars /\ UNCHANGED noteVars

CloseDialog ==
  /\ dialog # None /\ ~Submitting /\ dialog' = None
  /\ UNCHANGED <<call, records, error>>
  /\ UNCHANGED serverVars /\ UNCHANGED noteVars

\* handleSubmit, of a name and a prompt that are well formed.
SubmitNew(k, n) ==
  /\ dialog = New /\ ~Submitting
  /\ Change(k, [Idle EXCEPT !.kind = "create", !.name = n, !.form = TRUE])
  /\ UNCHANGED pageVars

SubmitEdit(k, n, on) ==
  /\ dialog \notin {None, New} /\ ~Submitting
  /\ Change(k, [Idle EXCEPT !.kind = "patch", !.id = dialog, !.name = n, !.on = on, !.form = TRUE])
  /\ UNCHANGED pageVars

ToggleCustom(k, r) ==
  /\ dialog = None /\ r.custom
  /\ Change(k, [Idle EXCEPT !.kind = "patch", !.id = r.id, !.on = ~r.on])
  /\ UNCHANGED pageVars

\* setBuiltinEnabled: the switches wait for the list, the other controls do not.
ToggleBuiltin(k, n) ==
  /\ dialog = None /\ ~Loading
  /\ Change(k, [Idle EXCEPT !.kind = "toggle", !.name = n, !.on = ~IsBuiltinEnabled(n, records)])
  /\ UNCHANGED pageVars

DeleteCustom(k, r) ==
  /\ dialog = None /\ r.custom
  /\ Change(k, [Idle EXCEPT !.kind = "delete", !.id = r.id])
  /\ UNCHANGED pageVars

\* The same user in another tab.
Others(k) ==
  /\ \E request \in
          [kind : {"create"}, name : Name, id : {None}, on : {None}]
            \cup [kind : {"toggle"}, name : ToSet(Builtins), id : {None}, on : BOOLEAN]
            \cup [kind : {"patch"}, name : Name, id : {r.id : r \in {s \in stored : s.custom}}, on : {None}]
            \cup [kind : {"delete"}, name : {None}, id : {r.id : r \in {s \in stored : s.custom}}, on : {None}] :
       Ask(k, [Idle EXCEPT !.kind = request.kind, !.name = request.name, !.id = request.id,
                           !.on = request.on, !.at = "sent", !.told = TRUE])
  /\ changes < MaxChanges /\ changes' = changes + 1
  /\ stale' = TRUE
  /\ UNCHANGED pageVars /\ UNCHANGED <<crossed, missed>>

-----------------------------------------------------------------------------
(* Answers                                                                  *)

\* Told, and gone if the server has ended it.
Tell(k) ==
  call' = [call EXCEPT ![k] = IF @.at = "open" THEN [@ EXCEPT !.told = TRUE] ELSE Idle]

Answered(k, kinds, ok) ==
  /\ call[k].mine /\ ~call[k].told /\ call[k].kind \in kinds
  /\ call[k].at \in IF ok THEN {"open", "done"} ELSE {"bad"}
  /\ Tell(k)
  /\ UNCHANGED serverVars /\ UNCHANGED noteVars

ApplyList(k) ==
  \/ /\ Answered(k, {"list"}, TRUE)
     /\ records' = call[k].gives /\ UNCHANGED <<error, dialog>>
  \/ /\ Answered(k, {"list"}, FALSE)
     /\ error' = TRUE /\ UNCHANGED <<records, dialog>>

\* The dialog closes when what it asked for is done, and stays otherwise.
FormEnds(k, ok) ==
  /\ dialog' = IF ok /\ call[k].form THEN None ELSE dialog
  /\ UNCHANGED error

ApplyCreate(k) ==
  /\ Answered(k, {"create"}, TRUE)
  /\ records' = Append(records, call[k].gives[1])
  /\ FormEnds(k, TRUE)

ApplyUpdate(k) ==
  /\ Answered(k, {"patch"}, TRUE)
  /\ records' = [i \in DOMAIN records |->
                   IF records[i].id = call[k].id THEN call[k].gives[1] ELSE records[i]]
  /\ FormEnds(k, TRUE)

\* The first override of the name is replaced, or one is appended.
ApplyToggle(k) ==
  LET first == SelectInSeq(records, LAMBDA r : r.name = call[k].name /\ ~r.custom) IN
  /\ Answered(k, {"toggle"}, TRUE)
  /\ records' = IF first > 0 THEN ReplaceAt(records, first, call[k].gives[1])
                ELSE Append(records, call[k].gives[1])
  /\ FormEnds(k, TRUE)

ApplyDelete(k) ==
  /\ Answered(k, {"delete"}, TRUE)
  /\ records' = Keep(records, {r \in ToSet(records) : r.id # call[k].id})
  /\ FormEnds(k, TRUE)

\* A change that failed is only told of.
ApplyFailure(k) ==
  /\ Answered(k, Changes, FALSE)
  /\ FormEnds(k, FALSE) /\ UNCHANGED records

-----------------------------------------------------------------------------
(* The specification                                                        *)

\* The effect that fetches the list has run.
CommandsInit ==
  /\ \E rs \in SUBSET Old : stored = rs
  /\ lastId = Cardinality(Old)
  /\ \E k \in Call :
       call = [c \in Call |-> IF c = k THEN [Idle EXCEPT !.kind = "list", !.mine = TRUE, !.at = "sent"]
                              ELSE Idle]
  /\ records = <<>> /\ error = FALSE
  /\ dialog = None /\ changes = 0
  /\ crossed = FALSE /\ missed = FALSE /\ stale = FALSE

Customs == {r.id : r \in {s \in ToSet(records) : s.custom}}

CommandsNext ==
  \/ CloseDialog
  \/ \E target \in {New} \cup Customs : OpenDialog(target)
  \/ \E k \in Call :
       \/ Look(k) \/ FlushInsert(k) \/ FlushUpdate(k) \/ FlushDelete(k) \/ Commit(k)
       \/ Forget(k) \/ ServeList(k) \/ Refuse(k) \/ Lose(k)
       \/ Refresh(k) \/ Others(k)
       \/ \E n \in Name : SubmitNew(k, n) \/ \E on \in BOOLEAN : SubmitEdit(k, n, on)
       \/ \E n \in ToSet(Builtins) : ToggleBuiltin(k, n)
       \/ \E r \in ToSet(records) : ToggleCustom(k, r) \/ DeleteCustom(k, r)
       \/ ApplyList(k) \/ ApplyCreate(k) \/ ApplyUpdate(k) \/ ApplyToggle(k) \/ ApplyDelete(k)
       \/ ApplyFailure(k)

-----------------------------------------------------------------------------
(* Properties                                                               *)

\* A name is one row, although requests look for it and write it in two steps (the
\* unique key; get_by_name raises if there are two), and only a built-in command
\* is switched without a prompt.
CommandsAreOne ==
  /\ \A r, s \in stored : r.name = s.name \/ r.id = s.id => r = s
  /\ \A r \in stored : ~r.custom => r.name \in ToSet(Builtins)

\* The settings at rest show the user's rows, each once, although the answers come
\* in any order and before they commit, unless changes of one command crossed, or
\* crossed the list, an answer was lost, or another tab has changed the rows.
SettingsAreStored ==
  (Under(Kinds) = {} /\ ~error /\ ~crossed /\ ~missed /\ ~stale) =>
    ToSet(records) = stored /\ IsInjective(records)

\* A name is one row, and the settings show it.
SettingsAreSound == CommandsAreOne /\ SettingsAreStored

\* What the table's module says: "The unique (user_id, name) constraint prevents a
\* user from shadowing a built-in's name with a custom command of the same name"
\* (db/models/user_slash_command.py:9).
BuiltinsAreNotShadowed == \A r \in stored : r.custom => r.name \notin ToSet(Builtins)
=============================================================================
