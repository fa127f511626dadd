--------------------------- MODULE SettingsProofs ---------------------------
(***************************************************************************)
(* Proofs about the settings of Controls, for any number of requests,      *)
(* names, rows and changes: there is one row for a name and the page at    *)
(* rest shows the rows; and Controls is well typed.                        *)
(*                                                                         *)
(* While nothing has disturbed the page, the writes that have been flushed *)
(* and their answers lead from what is stored, and from what is shown, to  *)
(* the same rows.                                                          *)
(***************************************************************************)
EXTENDS ControlsProofs

-----------------------------------------------------------------------------
(* What a request is, from its kind and where it is                         *)

SettingCall ==
  [kind : Settings!Kinds \cup {"none"}, mine : BOOLEAN, id : Settings!Id \cup {None},
   name : SettingNames \cup {None}, on : BOOLEAN \cup {None}, form : BOOLEAN,
   at : {"free", "sent", "write", "open", "done", "bad"},
   seen : Settings!Record \cup {None}, gives : Seq(Settings!Record), told : BOOLEAN]

\* A request that inserts a row, when it has looked for it.
Inserts(c) == c.kind \in {"create", "toggle"} /\ c.seen = None

\* What it inserts.
Inserted(c) ==
  [id |-> c.id, name |-> c.name, custom |-> c.kind = "create",
   on |-> IF c.kind = "create" THEN TRUE ELSE c.on]

\* A write between its look and its commit, one that has been flushed, and one whose
\* answer has a record.
Writes(c) == c.at \in {"write", "open"}
Flushed(c) == c.kind \in Settings!Changes /\ c.at \in {"open", "done"}
Puts(c)   == c.kind \in {"create", "toggle", "patch"}

\* What every request is, and what its kind makes of it.
SettingFormed(c) ==
  /\ c.at = "free" <=> c = Settings!Idle
  /\ c.kind = "none" <=> c = Settings!Idle
  /\ c.kind = "list" => c.at \in {"sent", "done", "bad"} /\ c.mine /\ ~c.told /\ ~c.form
  /\ c.mine /\ c.told => c.at = "open"
  /\ c.kind # "none" /\ ~c.mine => c.told /\ ~c.form
  /\ c.at = "done" => ~c.told

SettingAsked(c) ==
  /\ c.kind = "create" => c.name \in SettingNames /\ c.seen = None
  /\ c.kind = "toggle" =>
       /\ c.name \in ToSet(SettingBuiltins) /\ c.on \in BOOLEAN
       /\ c.seen # None => c.seen.name = c.name /\ ~c.seen.custom
  /\ c.kind = "delete" => c.name = None
  /\ c.kind \in {"patch", "delete"} =>
       c.id \in Settings!Id /\ (Writes(c) => c.seen # None /\ c.seen.id = c.id /\ c.seen.custom)
  /\ Puts(c) /\ Flushed(c) =>
       /\ Len(c.gives) = 1
       /\ Inserts(c) => c.id \in Settings!Id /\ c.gives[1] = Inserted(c)
       /\ c.kind = "patch" => c.gives[1].id = c.id /\ c.gives[1].custom
       /\ c.kind = "toggle" => c.gives[1].name = c.name /\ ~c.gives[1].custom
       /\ c.kind = "toggle" /\ c.seen # None => c.gives[1].id = c.seen.id

SettingTyped ==
  /\ stored \subseteq Settings!Record /\ IsFiniteSet(stored)
  /\ lastId \in 0 .. MaxIds /\ changes \in 0 .. MaxChanges
  /\ call \in [Call -> SettingCall]
  /\ \A k \in Call : SettingFormed(call[k]) /\ SettingAsked(call[k])
  /\ records \in Seq(Settings!Record) /\ dialog \in Settings!Id \cup {None, New}
  /\ error \in BOOLEAN /\ crossed \in BOOLEAN /\ missed \in BOOLEAN /\ stale \in BOOLEAN

\* The dialog is open while the page waits for the answer to its form.
WaitedForm(c) == c.form /\ ~c.told
OneForm ==
  \A k \in Call : WaitedForm(call[k]) =>
    dialog # None /\ \A o \in Call : WaitedForm(call[o]) => o = k

-----------------------------------------------------------------------------
(* The server: its rows, and what open writes will make of them             *)

\* A write that will add its name.
Takes(c) ==
  c.at = "open" /\ (Inserts(c) \/ (c.kind = "patch" /\ c.name \notin {None, c.seen.name}))

\* One that will add a row.
OpenInsert(k) == call[k].at = "open" /\ Inserts(call[k])

\* A name has one row, and so has an id.
RowsOnce ==
  /\ \A r, s \in stored : r.name = s.name \/ r.id = s.id => r = s
  /\ \A r \in stored : r.id <= lastId /\ (~r.custom => r.name \in ToSet(SettingBuiltins))

\* A name that an open write will add is in no row, and of no other open write.
NamesTaken ==
  \A k \in Call : Takes(call[k]) =>
    /\ \A r \in stored : r.name # call[k].name
    /\ \A o \in Call : Takes(call[o]) /\ call[o].name = call[k].name => o = k

\* An id is given once.
IdsTaken ==
  /\ \A k \in Call : call[k].id # None => call[k].id <= lastId
  /\ \A k \in Call : OpenInsert(k) =>
       /\ \A r \in stored : r.id # call[k].id
       /\ \A o \in Call : OpenInsert(o) /\ call[o].id = call[k].id => o = k

\* Whatever has the id i, or will have it, is a command of the user.
CustomOnly(i) ==
  /\ i <= lastId
  /\ \A r \in stored : r.id = i => r.custom
  /\ \A k \in Call : OpenInsert(k) /\ call[k].id = i => call[k].kind = "create"

\* The row i switches the built-in command n, or will.
Switch(i, n) == \E r \in stored : r.id = i /\ r.name = n /\ ~r.custom

SwitchOf(i, n) ==
  \/ Switch(i, n)
  \/ \E k \in Call : OpenInsert(k) /\ call[k].kind = "toggle" /\ call[k].id = i /\ call[k].name = n

Known(r) == IF r.custom THEN CustomOnly(r.id) ELSE SwitchOf(r.id, r.name)

\* What the page and the requests know of ids stays true of them.
RowsKnown ==
  /\ \A r \in ToSet(records) : Known(r)
  /\ \A k \in Call : \A r \in ToSet(call[k].gives) : Known(r)
  /\ dialog \in Settings!Id => CustomOnly(dialog)
  /\ \A k \in Call : call[k].kind \in {"patch", "delete"} => CustomOnly(call[k].id)
  /\ \A k \in Call : call[k].kind = "toggle" /\ call[k].seen # None =>
       Switch(call[k].seen.id, call[k].seen.name)

ServerInv == RowsOnce /\ NamesTaken /\ IdsTaken /\ RowsKnown

-----------------------------------------------------------------------------
(* The page: what it shows, and what the requests under way make of it      *)

Fetching == \E k \in Call : call[k].kind = "list"
IsChange(k) == call[k].kind \in Settings!Changes

\* What the notes say of the requests under way.
NotesTrue ==
  /\ ~stale => \A k \in Call : IsChange(k) => call[k].mine
  /\ ~crossed /\ Fetching => \A k \in Call : IsChange(k) => ~call[k].mine
  /\ error => ~Fetching
  /\ \A k, o \in Call : call[k].kind = "list" /\ call[o].kind = "list" => k = o

\* Nothing has crossed a change of the page, nor changed what it shows.
Calm == ~crossed /\ ~stale

\* Then the changes under way are of rows apart, or switch a command to the same.
Apart ==
  Calm => \A k, o \in Call : IsChange(k) /\ IsChange(o) /\ k # o =>
    /\ call[k].id # None => call[k].id # call[o].id
    /\ call[k].kind = "toggle" /\ call[o].kind = "toggle" /\ call[k].name = call[o].name =>
         call[k].on = call[o].on

\* What a write that has committed has left.
IsStored(c) == IF c.kind = "delete" THEN \A r \in stored : r.id # c.id ELSE c.gives[1] \in stored

\* What a write saw is still so when it is flushed, and what it left stays.
GoesWell(c) ==
  /\ c.kind = "patch" /\ Writes(c) => c.seen \in stored
  /\ c.kind = "patch" /\ c.at = "open" => c.gives[1] = Settings!Patched(c.seen, c)
  /\ c.kind = "toggle" /\ c.seen # None /\ Writes(c) /\ c.seen.on = c.on =>
       \E r \in stored : r.id = c.seen.id /\ r.on = c.on
  /\ c.kind = "toggle" /\ Flushed(c) => c.gives[1].on = c.on
  /\ Flushed(c) /\ c.at = "done" => IsStored(c)

ChangesHold == Calm => \A k \in Call : GoesWell(call[k])

\* A list that has been served is what is stored.
ListHolds ==
  Calm => \A k \in Call : call[k].kind = "list" /\ call[k].at = "done" =>
    ToSet(call[k].gives) = stored /\ IsInjective(call[k].gives)

\* The row that a flushed write is of.
Target(c) == IF c.kind = "delete" THEN c.id ELSE c.gives[1].id

\* The row s is there once the flushed writes have committed.
RowToBe(s) ==
  \/ s \in stored /\ \A k \in Call : Flushed(call[k]) => Target(call[k]) # s.id
  \/ \E k \in Call : Flushed(call[k]) /\ Puts(call[k]) /\ s = call[k].gives[1]

Awaited(c) == Flushed(c) /\ ~c.told

\* The record s is shown once their answers are applied.
RecordToBe(s) ==
  \/ s \in ToSet(records) /\ \A k \in Call : Awaited(call[k]) => Target(call[k]) # s.id
  \/ \E k \in Call : Awaited(call[k]) /\ Puts(call[k]) /\ s = call[k].gives[1]

\* Nothing has disturbed the page since its last list.
Settled == ~crossed /\ ~stale /\ ~missed /\ ~error /\ ~Fetching

\* Then what is stored and what is shown become the same.
RecordsHold ==
  Settled =>
    /\ IsInjective(records) /\ \A r, s \in ToSet(records) : r.id = s.id => r = s
    /\ \A k \in Call : Awaited(call[k]) /\ call[k].kind = "create" =>
         \A r \in ToSet(records) : r.id # call[k].id
    /\ \A k \in Call : Awaited(call[k]) /\ call[k].kind = "patch" =>
         \E r \in ToSet(records) : r.id = call[k].id
    /\ \A s \in Settings!Record : RowToBe(s) <=> RecordToBe(s)

PageInv == OneForm /\ NotesTrue /\ Apart /\ ChangesHold /\ ListHolds /\ RecordsHold

SettingInv == SettingTyped /\ ServerInv /\ PageInv

-----------------------------------------------------------------------------
(* Requests and their fields                                                *)

\* What no step changes of a request.
Like(d, c) ==
  d.kind = c.kind /\ d.mine = c.mine /\ d.name = c.name /\ d.on = c.on /\ d.form = c.form

LEMMA SettingFields ==
  ASSUME NEW c \in SettingCall
  PROVE  /\ c.kind \in Settings!Kinds \cup {"none"} /\ c.mine \in BOOLEAN
         /\ c.id \in Settings!Id \cup {None} /\ c.name \in SettingNames \cup {None}
         /\ c.on \in BOOLEAN \cup {None} /\ c.form \in BOOLEAN
         /\ c.at \in {"free", "sent", "write", "open", "done", "bad"}
         /\ c.seen \in Settings!Record \cup {None} /\ c.gives \in Seq(Settings!Record)
         /\ c.told \in BOOLEAN
BY DEF SettingCall

\* Requests with one field changed.
LEMMA SettingAt ==
  ASSUME NEW c \in SettingCall, NEW a \in {"free", "sent", "write", "open", "done", "bad"}
  PROVE  /\ [c EXCEPT !.at = a] \in SettingCall /\ Like([c EXCEPT !.at = a], c)
         /\ [c EXCEPT !.at = a].at = a /\ [c EXCEPT !.at = a].id = c.id
         /\ [c EXCEPT !.at = a].seen = c.seen /\ [c EXCEPT !.at = a].gives = c.gives
         /\ [c EXCEPT !.at = a].told = c.told
<1> HIDE DEF Settings!Record, Settings!Id, Settings!Kinds
<1> QED
  BY DEF SettingCall, Like

LEMMA SettingGives ==
  ASSUME NEW c \in SettingCall, NEW g \in Seq(Settings!Record)
  PROVE  /\ [c EXCEPT !.gives = g] \in SettingCall /\ Like([c EXCEPT !.gives = g], c)
         /\ [c EXCEPT !.gives = g].gives = g /\ [c EXCEPT !.gives = g].id = c.id
         /\ [c EXCEPT !.gives = g].seen = c.seen /\ [c EXCEPT !.gives = g].at = c.at
         /\ [c EXCEPT !.gives = g].told = c.told
<1> HIDE DEF Settings!Record, Settings!Id, Settings!Kinds
<1> QED
  BY DEF SettingCall, Like

LEMMA SettingSeen ==
  ASSUME NEW c \in SettingCall, NEW s \in Settings!Record \cup {None}
  PROVE  /\ [c EXCEPT !.seen = s] \in SettingCall /\ Like([c EXCEPT !.seen = s], c)
         /\ [c EXCEPT !.seen = s].seen = s /\ [c EXCEPT !.seen = s].id = c.id
         /\ [c EXCEPT !.seen = s].gives = c.gives /\ [c EXCEPT !.seen = s].at = c.at
         /\ [c EXCEPT !.seen = s].told = c.told
<1> HIDE DEF Settings!Record, Settings!Id, Settings!Kinds
<1> QED
  BY DEF SettingCall, Like

LEMMA SettingId ==
  ASSUME NEW c \in SettingCall, NEW i \in Settings!Id
  PROVE  /\ [c EXCEPT !.id = i] \in SettingCall /\ Like([c EXCEPT !.id = i], c)
         /\ [c EXCEPT !.id = i].id = i /\ [c EXCEPT !.id = i].seen = c.seen
         /\ [c EXCEPT !.id = i].gives = c.gives /\ [c EXCEPT !.id = i].at = c.at
         /\ [c EXCEPT !.id = i].told = c.told
<1> HIDE DEF Settings!Record, Settings!Id, Settings!Kinds
<1> QED
  BY DEF SettingCall, Like

LEMMA SettingTold ==
  ASSUME NEW c \in SettingCall
  PROVE  /\ [c EXCEPT !.told = TRUE] \in SettingCall /\ Like([c EXCEPT !.told = TRUE], c)
         /\ [c EXCEPT !.told = TRUE].told /\ [c EXCEPT !.told = TRUE].id = c.id
         /\ [c EXCEPT !.told = TRUE].gives = c.gives /\ [c EXCEPT !.told = TRUE].at = c.at
         /\ [c EXCEPT !.told = TRUE].seen = c.seen
<1> HIDE DEF Settings!Record, Settings!Id, Settings!Kinds
<1> QED
  BY DEF SettingCall, Like

\* What the types say of one request.
LEMMA OfCall ==
  ASSUME SettingTyped, NEW k \in Call
  PROVE  call[k] \in SettingCall /\ SettingFormed(call[k]) /\ SettingAsked(call[k])
BY DEF SettingTyped

LEMMA IdleSetting ==
  /\ Settings!Idle \in SettingCall /\ Settings!Idle.at = "free" /\ Settings!Idle.kind = "none"
  /\ Settings!Idle.gives = <<>> /\ ~Settings!Idle.told /\ ~Settings!Idle.mine
  /\ ~Settings!Idle.form /\ Settings!Idle.id = None /\ Settings!Idle.seen = None
  /\ Settings!Idle.name = None
<1>1. <<>> \in Seq(Settings!Record)
  OBVIOUS
<1> QED
  BY <1>1 DEF Settings!Idle, SettingCall

\* What a step that makes d of one request leaves of the types.
LEMMA SettingTypedBecomes ==
  ASSUME SettingTyped, NEW k \in Call, NEW d \in SettingCall, SettingFormed(d), SettingAsked(d),
         call' = [call EXCEPT ![k] = d],
         stored' \subseteq Settings!Record, IsFiniteSet(stored'), lastId' \in 0 .. MaxIds,
         changes' \in 0 .. MaxChanges, records' \in Seq(Settings!Record),
         dialog' \in Settings!Id \cup {None, New},
         error' \in BOOLEAN, crossed' \in BOOLEAN, missed' \in BOOLEAN, stale' \in BOOLEAN
  PROVE  /\ SettingTyped'
         /\ call'[k] = d /\ \A o \in Call : o # k => call'[o] = call[o]
<1>1. /\ call' \in [Call -> SettingCall]
      /\ call'[k] = d /\ \A o \in Call : o # k => call'[o] = call[o]
  BY DEF SettingTyped
<1>2. ASSUME NEW o \in Call PROVE SettingFormed(call'[o]) /\ SettingAsked(call'[o])
  <2>1. CASE o = k
    BY <1>1, <2>1
  <2>2. CASE o # k
    BY <1>1, <2>2, OfCall
  <2> QED
    BY <2>1, <2>2
<1>3. (\A o \in Call : SettingFormed(call[o]) /\ SettingAsked(call[o]))'
  BY <1>2 DEF SettingFormed, SettingAsked, Inserts, Inserted, Writes, Flushed, Puts
<1> HIDE DEF SettingCall
<1> QED
  BY <1>1, <1>3 DEF SettingTyped

\* A request that fails.
LEMMA Failed ==
  ASSUME SettingTyped, NEW k \in Call, Settings!Fail(k)
  PROVE  \E d \in SettingCall :
           /\ call' = [call EXCEPT ![k] = d] /\ stored' = stored /\ lastId' = lastId
           /\ Like(d, call[k]) /\ d.at = "bad" /\ d.id = call[k].id /\ d.seen = call[k].seen
           /\ d.gives = <<>> /\ d.told = call[k].told
<1> DEFINE b == [call[k] EXCEPT !.at = "bad"]
           d == [b EXCEPT !.gives = <<>>]
<1>1. call' = [call EXCEPT ![k] = d] /\ stored' = stored /\ lastId' = lastId
  BY DEF SettingTyped, Settings!Fail, Settings!serverVars
<1>2. call[k] \in SettingCall /\ <<>> \in Seq(Settings!Record)
  BY OfCall
<1>3. /\ b \in SettingCall /\ Like(b, call[k]) /\ b.at = "bad" /\ b.id = call[k].id
      /\ b.seen = call[k].seen /\ b.told = call[k].told
  BY <1>2, SettingAt
<1> HIDE DEF b
<1>4. /\ d \in SettingCall /\ Like(d, b) /\ d.at = b.at /\ d.id = b.id
      /\ d.seen = b.seen /\ d.told = b.told /\ d.gives = <<>>
  BY <1>2, <1>3, SettingGives
<1> HIDE DEF d
<1> QED
  BY <1>1, <1>3, <1>4 DEF Like

\* Rows.
LEMMA RowFields ==
  ASSUME NEW r \in Settings!Record
  PROVE  /\ r.id \in Settings!Id /\ r.id \in Int /\ r.name \in SettingNames
         /\ r.custom \in BOOLEAN /\ r.on \in BOOLEAN /\ r # None
         /\ r.id # None /\ r.name # None /\ r.on # None
         /\ \A s \in Settings!Record :
              r.id = s.id /\ r.name = s.name /\ r.custom = s.custom /\ r.on = s.on => r = s
<1>1. /\ r.id \in Settings!Id /\ r.name \in SettingNames
      /\ r.custom \in BOOLEAN /\ r.on \in BOOLEAN
      /\ \A s \in Settings!Record :
           r.id = s.id /\ r.name = s.name /\ r.custom = s.custom /\ r.on = s.on => r = s
  <2> HIDE DEF Settings!Id
  <2> QED
    BY DEF Settings!Record
<1>2. r.id \in Nat /\ r.id \in Int
  BY <1>1, ControlsAssumption DEF Settings!Id
<1> QED
  BY <1>1, <1>2, ControlsAssumption, Zenon

LEMMA PatchedIs ==
  ASSUME NEW r \in Settings!Record, NEW c \in SettingCall, c.seen \in Settings!Record
  PROVE  /\ Settings!Patched(r, c) \in Settings!Record /\ Settings!Patched(r, c).id = r.id
         /\ Settings!Patched(r, c).custom = r.custom
         /\ Settings!Patched(r, c).name =
              IF c.name \notin {None, c.seen.name} THEN c.name ELSE r.name
         /\ Settings!Patched(r, c).on = IF c.on \notin {None, c.seen.on} THEN c.on ELSE r.on
<1>1. c.name \in SettingNames \cup {None} /\ c.on \in BOOLEAN \cup {None}
  BY SettingFields
<1> DEFINE n == IF c.name \notin {None, c.seen.name} THEN c.name ELSE r.name
           o == IF c.on \notin {None, c.seen.on} THEN c.on ELSE r.on
           p == [[r EXCEPT !.name = n] EXCEPT !.on = o]
<1>2. n \in SettingNames /\ o \in BOOLEAN
  BY <1>1, RowFields
<1>3. Settings!Patched(r, c) = p
  BY DEF Settings!Patched, Settings!Record
<1> HIDE DEF n, o
<1>4. p \in Settings!Record /\ p.id = r.id /\ p.custom = r.custom /\ p.name = n /\ p.on = o
  <2> HIDE DEF Settings!Id
  <2> QED
    BY <1>2 DEF Settings!Record
<1> HIDE DEF p
<1> QED
  BY <1>3, <1>4 DEF n, o

\* What else a step must leave typed.
SettingRest ==
  /\ changes \in 0 .. MaxChanges /\ records \in Seq(Settings!Record)
  /\ dialog \in Settings!Id \cup {None, New}
  /\ error \in BOOLEAN /\ crossed \in BOOLEAN /\ missed \in BOOLEAN /\ stale \in BOOLEAN

LEMMA FailStep ==
  ASSUME SettingTyped, NEW k \in Call, call[k].at \in {"sent", "write", "done"},
         Settings!Fail(k), SettingRest'
  PROVE  /\ SettingTyped' /\ \A o \in Call : o # k => call'[o] = call[o]
         /\ stored' = stored /\ lastId' = lastId
         /\ Like(call'[k], call[k]) /\ call'[k].at = "bad" /\ call'[k].id = call[k].id
         /\ call'[k].seen = call[k].seen /\ call'[k].gives = <<>>
         /\ call'[k].told = call[k].told
<1>1. PICK d \in SettingCall :
           /\ call' = [call EXCEPT ![k] = d] /\ stored' = stored /\ lastId' = lastId
           /\ Like(d, call[k]) /\ d.at = "bad" /\ d.id = call[k].id /\ d.seen = call[k].seen
           /\ d.gives = <<>> /\ d.told = call[k].told
  BY Failed
<1>2. SettingFormed(call[k]) /\ SettingAsked(call[k])
  BY OfCall
<1>3. SettingFormed(d)
  BY <1>1, <1>2, IdleSetting DEF SettingFormed, Like
<1>4. SettingAsked(d)
  BY <1>1, <1>2 DEF SettingAsked, Like, Writes, Flushed
<1>5. /\ stored \subseteq Settings!Record /\ IsFiniteSet(stored) /\ lastId \in 0 .. MaxIds
  BY DEF SettingTyped
<1> QED
  BY <1>1, <1>3, <1>4, <1>5, SettingTypedBecomes DEF SettingRest

LEMMA RowIn ==
  ASSUME SettingTyped, NEW i, Settings!Has(i)
  PROVE  Settings!RowAt(i) \in stored /\ Settings!RowAt(i).id = i
         /\ Settings!RowAt(i) \in Settings!Record
BY DEF Settings!Has, Settings!RowAt, SettingTyped

LEMMA RowNamed ==
  ASSUME SettingTyped, NEW n, Settings!NameTaken(n)
  PROVE  Settings!Named(n) \in stored /\ Settings!Named(n).name = n
         /\ Settings!Named(n) \in Settings!Record
BY DEF Settings!NameTaken, Settings!Named, SettingTyped

\* A request that has looked for its row, and is not refused.
LEMMA LookStep ==
  ASSUME SettingTyped, RowsKnown, NEW k \in Call, Settings!Look(k), ~Settings!Fail(k)
  PROVE  /\ SettingTyped' /\ \A o \in Call : o # k => call'[o] = call[o]
         /\ stored' = stored /\ lastId' = lastId
         /\ Like(call'[k], call[k]) /\ call'[k].at = "write" /\ call'[k].id = call[k].id
         /\ call'[k].gives = call[k].gives /\ call'[k].told = call[k].told
         /\ call[k].at = "sent" /\ IsChange(k)
         /\ call'[k].seen = None \/ call'[k].seen \in stored
         /\ call[k].kind = "toggle" /\ call'[k].seen # None =>
              call'[k].seen.name = call[k].name /\ ~call'[k].seen.custom
<1> DEFINE c == call[k]
           seen == CASE c.kind = "create" -> None
                     [] c.kind = "toggle" ->
                          IF Settings!NameTaken(c.name) THEN Settings!Named(c.name) ELSE None
                     [] OTHER -> Settings!RowAt(c.id)
           b == [c EXCEPT !.at = "write"]
           d == [b EXCEPT !.seen = seen]
<1>1. c.kind \in Settings!Changes /\ c.at = "sent"
  BY DEF Settings!Look
<1>2. /\ c.kind = "toggle" => ~(Settings!NameTaken(c.name) /\ Settings!Named(c.name).custom)
      /\ c.kind \in {"patch", "delete"} => Settings!Has(c.id)
  BY <1>1 DEF Settings!Look
<1>3. call' = [call EXCEPT ![k] = d] /\ stored' = stored /\ lastId' = lastId
  BY DEF SettingTyped, Settings!Look, Settings!serverVars
<1>4. c \in SettingCall /\ SettingFormed(c) /\ SettingAsked(c)
  BY OfCall
<1>5. /\ c.kind = "create" => seen = None
      /\ c.kind = "toggle" /\ Settings!NameTaken(c.name) => seen = Settings!Named(c.name)
      /\ c.kind = "toggle" /\ ~Settings!NameTaken(c.name) => seen = None
      /\ c.kind \in {"patch", "delete"} => seen = Settings!RowAt(c.id)
  OBVIOUS
<1> HIDE DEF seen
<1>6. /\ seen = None \/ (seen \in stored /\ seen \in Settings!Record)
      /\ c.kind = "toggle" /\ seen # None => seen.name = c.name /\ ~seen.custom
      /\ c.kind = "create" => seen = None
      /\ c.kind \in {"patch", "delete"} => seen \in stored /\ seen # None /\ seen.id = c.id
  <2>1. CASE c.kind = "create"
    BY <1>5, <2>1
  <2>2. CASE c.kind = "toggle"
    BY <1>2, <1>5, <2>2, RowNamed
  <2>3. CASE c.kind \in {"patch", "delete"}
    <3>1. seen \in stored /\ seen.id = c.id /\ seen \in Settings!Record
      BY <1>2, <1>5, <2>3, RowIn
    <3> QED
      BY <2>3, <3>1, RowFields
  <2> QED
    BY <1>1, <2>1, <2>2, <2>3 DEF Settings!Changes
<1>7. c.kind \in {"patch", "delete"} => seen.custom
  BY <1>6 DEF RowsKnown, CustomOnly
<1>8. /\ b \in SettingCall /\ Like(b, c) /\ b.at = "write" /\ b.id = c.id
      /\ b.gives = c.gives /\ b.told = c.told
  BY <1>4, SettingAt
<1> HIDE DEF b
<1>9. /\ d \in SettingCall /\ Like(d, b) /\ d.at = b.at /\ d.id = b.id
      /\ d.seen = seen /\ d.told = b.told /\ d.gives = b.gives
  BY <1>6, <1>8, SettingSeen
<1> HIDE DEF d
<1>10. /\ d \in SettingCall /\ Like(d, c) /\ d.at = "write" /\ d.id = c.id
       /\ d.gives = c.gives /\ d.told = c.told /\ d.seen = seen
  BY <1>8, <1>9 DEF Like
<1>11. SettingFormed(d)
  BY <1>1, <1>4, <1>10, IdleSetting DEF SettingFormed, Like, Settings!Changes
<1>12. SettingAsked(d)
  BY <1>4, <1>6, <1>7, <1>10 DEF SettingAsked, Like, Writes, Flushed
<1>13. UNCHANGED <<changes, records, dialog, error, crossed, missed, stale>>
  BY DEF Settings!Look, Settings!pageVars, Settings!noteVars
<1>14. SettingTyped' /\ call'[k] = d /\ \A o \in Call : o # k => call'[o] = call[o]
  BY <1>3, <1>10, <1>11, <1>12, <1>13, SettingTypedBecomes DEF SettingTyped
<1> QED
  BY <1>1, <1>3, <1>6, <1>10, <1>14 DEF Like, IsChange

\* A new row is written.
LEMMA InsertStep ==
  ASSUME SettingTyped, NEW k \in Call, Settings!FlushInsert(k), ~Settings!Fail(k)
  PROVE  /\ SettingTyped' /\ \A o \in Call : o # k => call'[o] = call[o]
         /\ stored' = stored /\ lastId' = lastId + 1 /\ lastId + 1 \in Settings!Id
         /\ Like(call'[k], call[k]) /\ call'[k].at = "open" /\ call'[k].id = lastId + 1
         /\ call'[k].told = call[k].told /\ call'[k].seen = None /\ call[k].seen = None
         /\ call'[k].gives[1] = Inserted(call'[k]) /\ Len(call'[k].gives) = 1
         /\ call[k].at = "write" /\ call[k].kind \in {"create", "toggle"}
         /\ ~Settings!NameTaken(call[k].name) /\ Settings!Free(k)
<1> DEFINE c == call[k]
           row == [id |-> lastId + 1, name |-> c.name, custom |-> c.kind = "create",
                   on |-> IF c.kind = "create" THEN TRUE ELSE c.on]
           a == [c EXCEPT !.at = "open"]
           b == [a EXCEPT !.gives = <<row>>]
           d == [b EXCEPT !.id = lastId + 1]
<1>1. /\ c.at = "write" /\ c.seen = None /\ lastId < MaxIds /\ Settings!Free(k)
      /\ ~Settings!NameTaken(c.name)
  BY DEF Settings!FlushInsert
<1>2. call' = [call EXCEPT ![k] = d] /\ stored' = stored /\ lastId' = lastId + 1
  BY DEF SettingTyped, Settings!FlushInsert
<1>3. c \in SettingCall /\ SettingFormed(c) /\ SettingAsked(c)
  BY OfCall
<1>4. c.kind \in {"create", "toggle"}
  <2>1. c # Settings!Idle /\ c.kind \in Settings!Kinds \cup {"none"}
    BY <1>1, <1>3, IdleSetting, SettingFields
  <2> QED
    BY <1>1, <1>3, <2>1 DEF SettingFormed, SettingAsked, Writes, Settings!Kinds
<1>5. lastId + 1 \in Settings!Id /\ lastId + 1 \in 0 .. MaxIds
  BY <1>1, ControlsAssumption DEF SettingTyped, Settings!Id
<1>6. row \in Settings!Record /\ <<row>> \in Seq(Settings!Record)
  <2>1. c.name \in SettingNames
    <3>1. ToSet(SettingBuiltins) \subseteq SettingNames
      BY ControlsAssumption, Entries
    <3> QED
      BY <1>3, <1>4, <3>1 DEF SettingAsked
  <2>2. (IF c.kind = "create" THEN TRUE ELSE c.on) \in BOOLEAN
    BY <1>3, <1>4 DEF SettingAsked
  <2>3. row \in Settings!Record
    BY <1>5, <2>1, <2>2 DEF Settings!Record
  <2> HIDE DEF row
  <2> QED
    BY <2>3
<1>7. row = [id |-> lastId + 1, name |-> c.name, custom |-> c.kind = "create",
             on |-> IF c.kind = "create" THEN TRUE ELSE c.on]
  OBVIOUS
<1> HIDE DEF row
<1>8. /\ a \in SettingCall /\ Like(a, c) /\ a.at = "open" /\ a.id = c.id
      /\ a.seen = c.seen /\ a.told = c.told
  BY <1>3, SettingAt
<1> HIDE DEF a
<1>9. /\ b \in SettingCall /\ Like(b, a) /\ b.at = a.at /\ b.id = a.id
      /\ b.seen = a.seen /\ b.told = a.told /\ b.gives = <<row>>
  BY <1>6, <1>8, SettingGives
<1> HIDE DEF b
<1>10. /\ d \in SettingCall /\ Like(d, b) /\ d.at = b.at /\ d.id = lastId + 1
       /\ d.seen = b.seen /\ d.told = b.told /\ d.gives = b.gives
  BY <1>5, <1>9, SettingId
<1> HIDE DEF d
<1>11. /\ d \in SettingCall /\ Like(d, c) /\ d.at = "open" /\ d.id = lastId + 1
       /\ d.gives = <<row>> /\ d.told = c.told /\ d.seen = None
  BY <1>1, <1>8, <1>9, <1>10 DEF Like
<1>12. d.gives[1] = Inserted(d) /\ Len(d.gives) = 1
  BY <1>7, <1>11 DEF Inserted, Like
<1>13. SettingFormed(d)
  BY <1>1, <1>3, <1>4, <1>11, IdleSetting DEF SettingFormed, Like
<1>14. SettingAsked(d)
  <2>1. ASSUME d.kind = "toggle" PROVE d.gives[1].name = d.name /\ ~d.gives[1].custom
    <3>1. c.kind # "create" /\ d.name = c.name
      BY <1>11, <2>1 DEF Like
    <3>2. row.name = c.name /\ ~row.custom
      BY <1>7, <3>1
    <3> QED
      BY <1>11, <3>1, <3>2
  <2> QED
    BY <1>3, <1>4, <1>5, <1>11, <1>12, <2>1 DEF SettingAsked, Like
<1>15. UNCHANGED <<changes, records, dialog, error, crossed, missed, stale>>
  BY DEF Settings!FlushInsert, Settings!pageVars, Settings!noteVars
<1>16. SettingTyped' /\ call'[k] = d /\ \A o \in Call : o # k => call'[o] = call[o]
  BY <1>2, <1>5, <1>11, <1>13, <1>14, <1>15, SettingTypedBecomes DEF SettingTyped
<1> QED
  BY <1>1, <1>2, <1>4, <1>5, <1>11, <1>12, <1>16

\* The row that an update has read, as it is now.
LEMMA RowSeen ==
  ASSUME SettingTyped, RowsOnce, RowsKnown, NEW k \in Call, call[k].at \in {"write", "open"},
         call[k].seen # None, call[k].kind # "delete",
         NEW r \in stored, r.id = call[k].seen.id
  PROVE  /\ call[k].kind \in {"toggle", "patch"} /\ call[k].seen \in Settings!Record
         /\ r \in Settings!Record
         /\ call[k].kind = "patch" => r.custom /\ r.id = call[k].id /\ call[k].seen.custom
         /\ call[k].kind = "toggle" =>
              ~r.custom /\ r.name = call[k].name /\ call[k].seen.name = call[k].name
              /\ ~call[k].seen.custom
<1>1. call[k] \in SettingCall /\ SettingFormed(call[k]) /\ SettingAsked(call[k])
  BY OfCall
<1>2. call[k].kind \in {"toggle", "patch"}
  BY <1>1, IdleSetting, SettingFields DEF SettingFormed, SettingAsked, Settings!Kinds
<1>3. r \in Settings!Record /\ call[k].seen \in Settings!Record
  BY <1>1, SettingFields DEF SettingTyped
<1>4. call[k].kind = "patch" => r.custom /\ r.id = call[k].id /\ call[k].seen.custom
  BY <1>1 DEF SettingAsked, Writes, RowsKnown, CustomOnly
<1>5. ASSUME call[k].kind = "toggle"
      PROVE  ~r.custom /\ r.name = call[k].name /\ call[k].seen.name = call[k].name
             /\ ~call[k].seen.custom
  <2>1. call[k].seen.name = call[k].name /\ ~call[k].seen.custom
    BY <1>1, <1>5 DEF SettingAsked
  <2>2. PICK q \in stored : q.id = call[k].seen.id /\ q.name = call[k].seen.name /\ ~q.custom
    BY <1>5 DEF RowsKnown, Switch
  <2> QED
    BY <2>1, <2>2 DEF RowsOnce
<1> QED
  BY <1>2, <1>3, <1>4, <1>5

\* A row is written anew.
LEMMA UpdateStep ==
  ASSUME SettingTyped, RowsOnce, RowsKnown, NEW k \in Call,
         Settings!FlushUpdate(k), ~Settings!Fail(k)
  PROVE  /\ SettingTyped' /\ \A o \in Call : o # k => call'[o] = call[o]
         /\ stored' = stored /\ lastId' = lastId
         /\ Like(call'[k], call[k]) /\ call'[k].at = "open" /\ call'[k].id = call[k].id
         /\ call'[k].told = call[k].told /\ call'[k].seen = call[k].seen
         /\ Len(call'[k].gives) = 1
         /\ call[k].at = "write" /\ call[k].kind \in {"toggle", "patch"}
         /\ call[k].seen \in Settings!Record
         /\ Settings!Changed(call[k]) => Settings!Free(k)
         /\ Settings!Patched(call[k].seen, call[k]).name # call[k].seen.name =>
              ~Settings!NameTaken(call[k].name)
         /\ \E r \in stored : /\ r.id = call[k].seen.id
                              /\ call'[k].gives[1] = Settings!Patched(r, call[k])
<1> DEFINE c == call[k]
           g == Settings!Patched(Settings!RowAt(c.seen.id), c)
           a == [c EXCEPT !.at = "open"]
           d == [a EXCEPT !.gives = <<g>>]
<1>1. /\ c.at = "write" /\ c.seen # None /\ c.kind # "delete"
      /\ Settings!Changed(c) => Settings!Free(k)
      /\ Settings!Has(c.seen.id)
      /\ Settings!Patched(c.seen, c).name # c.seen.name => ~Settings!NameTaken(c.name)
  BY DEF Settings!FlushUpdate
<1>2. call' = [call EXCEPT ![k] = d] /\ stored' = stored /\ lastId' = lastId
  BY DEF SettingTyped, Settings!FlushUpdate, Settings!serverVars
<1>3. c \in SettingCall /\ SettingFormed(c) /\ SettingAsked(c)
  BY OfCall
<1>4. PICK r \in stored : r = Settings!RowAt(c.seen.id) /\ r.id = c.seen.id
  BY <1>1, RowIn
<1>5. /\ c.kind \in {"toggle", "patch"} /\ c.seen \in Settings!Record
      /\ r \in Settings!Record
      /\ c.kind = "patch" => r.custom /\ r.id = c.id
      /\ c.kind = "toggle" => ~r.custom /\ r.name = c.name /\ c.seen.name = c.name
  BY <1>1, <1>4, RowSeen
<1>6. g = Settings!Patched(r, c)
  BY <1>4
<1> HIDE DEF g
<1>7. /\ g \in Settings!Record /\ g.id = r.id /\ g.custom = r.custom
      /\ g.name = IF c.name \notin {None, c.seen.name} THEN c.name ELSE r.name
  BY <1>3, <1>5, <1>6, PatchedIs
<1>8. <<g>> \in Seq(Settings!Record)
  BY <1>7
<1>9. /\ a \in SettingCall /\ Like(a, c) /\ a.at = "open" /\ a.id = c.id
      /\ a.seen = c.seen /\ a.told = c.told
  BY <1>3, SettingAt
<1> HIDE DEF a
<1>10. /\ d \in SettingCall /\ Like(d, a) /\ d.at = a.at /\ d.id = a.id
       /\ d.seen = a.seen /\ d.told = a.told /\ d.gives = <<g>>
  BY <1>8, <1>9, SettingGives
<1> HIDE DEF d
<1>11. /\ d \in SettingCall /\ Like(d, c) /\ d.at = "open" /\ d.id = c.id
       /\ d.gives = <<g>> /\ d.told = c.told /\ d.seen = c.seen
  BY <1>9, <1>10 DEF Like
<1>12. d.gives[1] = g /\ Len(d.gives) = 1
  BY <1>11
<1>13. SettingFormed(d)
  BY <1>1, <1>3, <1>5, <1>11, IdleSetting DEF SettingFormed, Like
<1>14. SettingAsked(d)
  BY <1>1, <1>3, <1>4, <1>5, <1>7, <1>11, <1>12 DEF SettingAsked, Like, Inserts, Writes
<1>15. UNCHANGED <<changes, records, dialog, error, crossed, missed, stale>>
  BY DEF Settings!FlushUpdate, Settings!pageVars, Settings!noteVars
<1>16. SettingTyped' /\ call'[k] = d /\ \A o \in Call : o # k => call'[o] = call[o]
  BY <1>2, <1>11, <1>13, <1>14, <1>15, SettingTypedBecomes DEF SettingTyped
<1> QED
  BY <1>1, <1>2, <1>4, <1>5, <1>6, <1>11, <1>12, <1>16

\* A row is deleted.
LEMMA DeleteStep ==
  ASSUME SettingTyped, NEW k \in Call, Settings!FlushDelete(k)
  PROVE  /\ SettingTyped' /\ \A o \in Call : o # k => call'[o] = call[o]
         /\ stored' = stored /\ lastId' = lastId
         /\ Like(call'[k], call[k]) /\ call'[k].at = "open" /\ call'[k].id = call[k].id
         /\ call'[k].gives = call[k].gives
         /\ call'[k].told = call[k].told /\ call'[k].seen = call[k].seen
         /\ call[k].at = "write" /\ call[k].kind = "delete"
<1> DEFINE c == call[k]
           d == [c EXCEPT !.at = "open"]
<1>1. c.at = "write" /\ c.kind = "delete"
  BY DEF Settings!FlushDelete
<1>2. call' = [call EXCEPT ![k] = d] /\ stored' = stored /\ lastId' = lastId
  BY DEF SettingTyped, Settings!FlushDelete, Settings!serverVars
<1>3. c \in SettingCall /\ SettingFormed(c) /\ SettingAsked(c)
  BY OfCall
<1>4. /\ d \in SettingCall /\ Like(d, c) /\ d.at = "open" /\ d.id = c.id
      /\ d.seen = c.seen /\ d.told = c.told /\ d.gives = c.gives
  BY <1>3, SettingAt
<1> HIDE DEF d
<1>5. SettingFormed(d)
  BY <1>1, <1>3, <1>4, IdleSetting DEF SettingFormed, Like
<1>6. SettingAsked(d)
  BY <1>1, <1>3, <1>4 DEF SettingAsked, Like, Writes, Puts
<1>7. UNCHANGED <<changes, records, dialog, error, crossed, missed, stale>>
  BY DEF Settings!FlushDelete, Settings!pageVars, Settings!noteVars
<1>8. SettingTyped' /\ call'[k] = d /\ \A o \in Call : o # k => call'[o] = call[o]
  BY <1>2, <1>4, <1>5, <1>6, <1>7, SettingTypedBecomes DEF SettingTyped
<1> QED
  BY <1>1, <1>2, <1>4, <1>8

\* A request is over.
LEMMA IdleStep ==
  ASSUME SettingTyped, NEW k \in Call, call' = [call EXCEPT ![k] = Settings!Idle],
         stored' \subseteq Settings!Record, IsFiniteSet(stored'), lastId' = lastId, SettingRest'
  PROVE  /\ SettingTyped' /\ \A o \in Call : o # k => call'[o] = call[o]
         /\ call'[k] = Settings!Idle
<1>1. Settings!Idle \in SettingCall
  BY IdleSetting
<1>2. SettingFormed(Settings!Idle) /\ SettingAsked(Settings!Idle)
  BY IdleSetting DEF SettingFormed, SettingAsked, Puts
<1>3. lastId' \in 0 .. MaxIds
  BY DEF SettingTyped
<1> QED
  BY <1>1, <1>2, <1>3, SettingTypedBecomes DEF SettingRest

\* An open request commits.
LEMMA CommitStep ==
  ASSUME SettingTyped, NEW k \in Call, Settings!Commit(k)
  PROVE  /\ SettingTyped' /\ \A o \in Call : o # k => call'[o] = call[o]
         /\ lastId' = lastId /\ call[k].at = "open" /\ IsChange(k)
         /\ call[k].told => call'[k] = Settings!Idle
         /\ ~call[k].told =>
              /\ Like(call'[k], call[k]) /\ call'[k].at = "done" /\ call'[k].id = call[k].id
              /\ call'[k].gives = call[k].gives
              /\ call'[k].told = call[k].told /\ call'[k].seen = call[k].seen
         /\ call[k].kind = "delete" => stored' = {r \in stored : r.id # call[k].id}
         /\ Inserts(call[k]) =>
              stored' = stored \cup {call[k].gives[1]}
         /\ call[k].kind # "delete" /\ ~Inserts(call[k]) =>
              /\ call[k].seen # None /\ call[k].kind \in {"toggle", "patch"}
              /\ stored' = {IF r.id = call[k].seen.id THEN Settings!Patched(r, call[k]) ELSE r :
                              r \in stored}
<1> DEFINE c == call[k]
           d == [c EXCEPT !.at = "done"]
           f == [r \in stored |-> IF r.id = c.seen.id THEN Settings!Patched(r, c) ELSE r]
<1>1. c.at = "open" /\ lastId' = lastId
  BY DEF Settings!Commit
<1>2. call' = [call EXCEPT ![k] = IF c.told THEN Settings!Idle ELSE d]
  BY DEF SettingTyped, Settings!Commit, Settings!Ended
<1>3. c \in SettingCall /\ SettingFormed(c) /\ SettingAsked(c)
  BY OfCall
<1>4. c.kind \in {"create", "toggle", "patch", "delete"}
  BY <1>1, <1>3, IdleSetting, SettingFields DEF SettingFormed, Settings!Kinds
<1>5. /\ c.kind = "delete" => c.seen # None
      /\ c.kind = "patch" => c.seen # None
      /\ c.kind = "create" => c.seen = None
  BY <1>1, <1>3 DEF SettingAsked, Writes
<1>6. /\ c.kind = "delete" => stored' = {r \in stored : r.id # c.id}
      /\ c.kind # "delete" /\ c.seen = None => stored' = stored \cup {c.gives[1]}
      /\ c.kind # "delete" /\ c.seen # None =>
           stored' = {IF r.id = c.seen.id THEN Settings!Patched(r, c) ELSE r : r \in stored}
  BY <1>5 DEF Settings!Commit
<1>7. stored \subseteq Settings!Record /\ IsFiniteSet(stored)
  BY DEF SettingTyped
<1>8. stored' \subseteq Settings!Record /\ IsFiniteSet(stored')
  <2>1. CASE c.kind = "delete"
    <3>1. stored' \subseteq stored
      BY <1>6, <2>1
    <3> QED
      BY <1>7, <3>1, FS_Subset
  <2>2. CASE c.kind # "delete" /\ c.seen = None
    <3>1. c.gives[1] \in Settings!Record
      BY <1>1, <1>3, <1>4, <1>5, <2>2, OneEntry, SettingFields
         DEF SettingAsked, Puts, Flushed, Settings!Changes
    <3>2. IsFiniteSet(stored \cup {c.gives[1]})
      BY <1>7, FS_AddElement
    <3> QED
      BY <1>6, <1>7, <2>2, <3>1, <3>2
  <2>3. CASE c.kind # "delete" /\ c.seen # None
    <3>1. stored' = {f[r] : r \in stored}
      BY <1>6, <2>3
    <3>2. c.seen \in Settings!Record
      BY <1>3, <2>3, SettingFields
    <3>3. \A r \in stored : f[r] \in Settings!Record
      BY <1>3, <1>7, <3>2, PatchedIs
    <3> HIDE DEF f
    <3>4. IsFiniteSet({f[r] : r \in stored})
      <4>1. f \in Surjection(stored, {f[r] : r \in stored})
        BY DEF f, Surjection
      <4> QED
        BY <1>7, <4>1, FS_Surjection DEF ExistsSurjection
    <3> QED
      BY <3>1, <3>3, <3>4
  <2> QED
    BY <2>1, <2>2, <2>3
<1> HIDE DEF f
<1>9. UNCHANGED <<changes, records, dialog, error, crossed, missed, stale>>
  BY DEF Settings!Commit, Settings!pageVars, Settings!noteVars
<1>10. SettingRest'
  BY <1>9 DEF SettingTyped, SettingRest
<1>11. c.kind # "delete" /\ ~Inserts(c) => c.seen # None /\ c.kind \in {"toggle", "patch"}
  BY <1>4, <1>5 DEF Inserts
<1>12. Inserts(c) => c.kind # "delete" /\ c.seen = None
  BY DEF Inserts
<1>13. IsChange(k)
  BY <1>4 DEF IsChange, Settings!Changes
<1>14. CASE c.told
  <2>1. call' = [call EXCEPT ![k] = Settings!Idle]
    BY <1>2, <1>14
  <2>2. /\ SettingTyped' /\ \A o \in Call : o # k => call'[o] = call[o]
        /\ call'[k] = Settings!Idle
    BY <1>1, <1>8, <1>10, <2>1, IdleStep
  <2> QED
    BY <1>1, <1>6, <1>11, <1>12, <1>13, <1>14, <2>2
<1>15. CASE ~c.told
  <2>1. call' = [call EXCEPT ![k] = d]
    BY <1>2, <1>15
  <2>2. /\ d \in SettingCall /\ Like(d, c) /\ d.at = "done" /\ d.id = c.id
        /\ d.seen = c.seen /\ d.told = c.told /\ d.gives = c.gives
    BY <1>3, SettingAt
  <2> HIDE DEF d
  <2>3. SettingFormed(d)
    BY <1>1, <1>3, <1>4, <1>15, <2>2, IdleSetting DEF SettingFormed, Like
  <2>4. SettingAsked(d)
    BY <1>1, <1>3, <1>4, <2>2
       DEF SettingAsked, Like, Writes, Puts, Flushed, Inserts, Inserted, Settings!Changes
  <2>5. lastId' \in 0 .. MaxIds
    BY <1>1 DEF SettingTyped
  <2>6. SettingTyped' /\ call'[k] = d /\ \A o \in Call : o # k => call'[o] = call[o]
    BY <1>8, <1>10, <2>1, <2>2, <2>3, <2>4, <2>5, SettingTypedBecomes DEF SettingRest
  <2> QED
    BY <1>1, <1>6, <1>11, <1>12, <1>13, <1>15, <2>2, <2>6
<1> QED
  BY <1>14, <1>15

\* The definitions of SlashCommands are those of the modules it extends.
LEMMA SettingLists ==
  /\ \A s : Settings!ToSet(s) = ToSet(s)
  /\ \A s : Settings!IsInjective(s) = IsInjective(s)
  /\ \A s, T : Settings!Keep(s, T) = Keep(s, T)
  /\ \A T : Settings!SetToSeq(T) = SetToSeq(T)
<1>1. \A s : Settings!ToSet(s) = ToSet(s)
  BY DEF Settings!ToSet, ToSet
<1>2. \A s : Settings!IsInjective(s) = IsInjective(s)
  BY DEF Settings!IsInjective, IsInjective
<1>3. \A s, T : Settings!Keep(s, T) = Keep(s, T)
  BY DEF Settings!Keep, Keep, Settings!KeepAt, KeepAt, Settings!Positions, Positions,
         Settings!Before, Before, Settings!Cardinality, Cardinality
<1>4. \A T : Settings!SetToSeq(T) = SetToSeq(T)
  BY DEF Settings!SetToSeq, SetToSeq, Settings!IsInjective, IsInjective,
         Settings!Cardinality, Cardinality
<1> QED
  BY <1>1, <1>2, <1>3, <1>4

\* The list is read.
LEMMA ListStep ==
  ASSUME SettingTyped, NEW k \in Call, Settings!ServeList(k)
  PROVE  /\ SettingTyped' /\ \A o \in Call : o # k => call'[o] = call[o]
         /\ stored' = stored /\ lastId' = lastId
         /\ Like(call'[k], call[k]) /\ call'[k].at = "done" /\ call'[k].id = call[k].id
         /\ call'[k].told = call[k].told /\ call'[k].seen = call[k].seen
         /\ ToSet(call'[k].gives) = stored /\ IsInjective(call'[k].gives)
         /\ call[k].at = "sent" /\ call[k].kind = "list"
<1> DEFINE c == call[k]
           g == SetToSeq(stored)
           a == [c EXCEPT !.at = "done"]
           d == [a EXCEPT !.gives = g]
<1>1. c.at = "sent" /\ c.kind = "list" /\ stored' = stored /\ lastId' = lastId
  BY DEF Settings!ServeList, Settings!serverVars
<1>2. call' = [call EXCEPT ![k] = d]
  BY SettingLists DEF SettingTyped, Settings!ServeList
<1>3. c \in SettingCall /\ SettingFormed(c) /\ SettingAsked(c)
  BY OfCall
<1>4. g \in Seq(Settings!Record) /\ ToSet(g) = stored /\ IsInjective(g)
  <2>1. stored \in SUBSET Settings!Record /\ IsFiniteSet(stored)
    BY DEF SettingTyped
  <2> QED
    BY <2>1, Listing
<1> HIDE DEF g
<1>5. /\ a \in SettingCall /\ Like(a, c) /\ a.at = "done" /\ a.id = c.id
      /\ a.seen = c.seen /\ a.told = c.told
  BY <1>3, SettingAt
<1> HIDE DEF a
<1>6. /\ d \in SettingCall /\ Like(d, a) /\ d.at = a.at /\ d.id = a.id
      /\ d.seen = a.seen /\ d.told = a.told /\ d.gives = g
  BY <1>4, <1>5, SettingGives
<1> HIDE DEF d
<1>7. /\ d \in SettingCall /\ Like(d, c) /\ d.at = "done" /\ d.id = c.id
      /\ d.gives = g /\ d.told = c.told /\ d.seen = c.seen
  BY <1>5, <1>6 DEF Like
<1>8. SettingFormed(d)
  BY <1>1, <1>3, <1>7, IdleSetting DEF SettingFormed, Like
<1>9. SettingAsked(d)
  BY <1>1, <1>7 DEF SettingAsked, Like, Puts
<1>10. /\ UNCHANGED <<changes, records, dialog, error, crossed, missed>>
       /\ stale' \in BOOLEAN
  BY DEF Settings!ServeList, Settings!pageVars
<1>11. SettingTyped' /\ call'[k] = d /\ \A o \in Call : o # k => call'[o] = call[o]
  BY <1>1, <1>2, <1>7, <1>8, <1>9, <1>10, SettingTypedBecomes DEF SettingTyped
<1> QED
  BY <1>1, <1>4, <1>7, <1>11

\* The page has an answer.
LEMMA TellStep ==
  ASSUME SettingTyped, NEW k \in Call, Settings!Tell(k), call[k].mine, ~call[k].told,
         stored' = stored, lastId' = lastId, SettingRest'
  PROVE  /\ SettingTyped' /\ \A o \in Call : o # k => call'[o] = call[o]
         /\ call[k].at # "open" => call'[k] = Settings!Idle
         /\ call[k].at = "open" =>
              /\ Like(call'[k], call[k]) /\ call'[k].at = "open" /\ call'[k].id = call[k].id
              /\ call'[k].gives = call[k].gives
              /\ call'[k].told /\ call'[k].seen = call[k].seen
<1> DEFINE c == call[k]
           d == [c EXCEPT !.told = TRUE]
<1>1. call' = [call EXCEPT ![k] = IF c.at = "open" THEN d ELSE Settings!Idle]
  BY DEF SettingTyped, Settings!Tell
<1>2. c \in SettingCall /\ SettingFormed(c) /\ SettingAsked(c)
  BY OfCall
<1>3. stored \subseteq Settings!Record /\ IsFiniteSet(stored) /\ lastId \in 0 .. MaxIds
  BY DEF SettingTyped
<1>4. CASE c.at # "open"
  <2>1. call' = [call EXCEPT ![k] = Settings!Idle]
    BY <1>1, <1>4
  <2> QED
    BY <1>3, <1>4, <2>1, IdleStep
<1>5. CASE c.at = "open"
  <2>1. call' = [call EXCEPT ![k] = d]
    BY <1>1, <1>5
  <2>2. /\ d \in SettingCall /\ Like(d, c) /\ d.at = c.at /\ d.id = c.id
        /\ d.seen = c.seen /\ d.told /\ d.gives = c.gives
    BY <1>2, SettingTold
  <2> HIDE DEF d
  <2>3. SettingFormed(d)
    BY <1>2, <1>5, <2>2, IdleSetting DEF SettingFormed, Like
  <2>4. SettingAsked(d)
    BY <1>2, <2>2 DEF SettingAsked, Like, Writes, Puts, Flushed, Inserts, Inserted
  <2>5. SettingTyped' /\ call'[k] = d /\ \A o \in Call : o # k => call'[o] = call[o]
    BY <1>3, <2>1, <2>2, <2>3, <2>4, SettingTypedBecomes DEF SettingRest
  <2> QED
    BY <1>5, <2>2, <2>5
<1> QED
  BY <1>4, <1>5

-----------------------------------------------------------------------------
\* The server.

\* A step that changes one request and writes nothing.
LEMMA ServerStays ==
  ASSUME ServerInv, NEW k \in Call, \A o \in Call : o # k => call'[o] = call[o],
         stored' = stored, lastId' = lastId,
         Takes(call'[k]) =>
           \/ Takes(call[k]) /\ call'[k].name = call[k].name
           \/ /\ \A r \in stored : r.name # call'[k].name
              /\ \A o \in Call : o # k /\ Takes(call[o]) => call[o].name # call'[k].name,
         OpenInsert(k)' <=> OpenInsert(k),
         OpenInsert(k) => call'[k].id = call[k].id /\ call'[k].kind = call[k].kind
                          /\ call'[k].name = call[k].name,
         call'[k].id # None => call'[k].id <= lastId,
         \A r \in ToSet(records') : Known(r),
         \A r \in ToSet(call'[k].gives) : Known(r),
         dialog' \in Settings!Id => CustomOnly(dialog'),
         call'[k].kind \in {"patch", "delete"} => CustomOnly(call'[k].id),
         call'[k].kind = "toggle" /\ call'[k].seen # None =>
           Switch(call'[k].seen.id, call'[k].seen.name)
  PROVE  ServerInv'
<1>1. \A o \in Call : OpenInsert(o)' <=> OpenInsert(o)
  BY DEF OpenInsert, Inserts
<1>2. \A o \in Call : OpenInsert(o) => /\ call'[o].id = call[o].id
                                       /\ call'[o].kind = call[o].kind
                                       /\ call'[o].name = call[o].name
  OBVIOUS
<1>3. NamesTaken
  BY DEF ServerInv
<1>4. RowsOnce'
  BY DEF ServerInv, RowsOnce
<1>5. NamesTaken'
  <2>1. ASSUME NEW o \in Call, Takes(call'[o])
        PROVE  /\ \A r \in stored' : r.name # call'[o].name
               /\ \A p \in Call : Takes(call'[p]) /\ call'[p].name = call'[o].name => p = o
    <3>1. CASE o = k
      BY <1>3, <2>1, <3>1 DEF NamesTaken
    <3>2. CASE o # k
      BY <1>3, <2>1, <3>2 DEF NamesTaken
    <3> QED
      BY <3>1, <3>2
  <2> QED
    BY <2>1 DEF NamesTaken
<1>6. IdsTaken'
  BY <1>1, <1>2 DEF ServerInv, IdsTaken
<1>7. \A i : CustomOnly(i) => CustomOnly(i)'
  BY <1>1, <1>2 DEF CustomOnly
<1>8. \A i, n : Switch(i, n) => Switch(i, n)'
  BY DEF Switch
<1>9. \A i, n : SwitchOf(i, n) => SwitchOf(i, n)'
  BY <1>1, <1>2, <1>8 DEF SwitchOf
<1>10. \A r : Known(r) => Known(r)'
  BY <1>7, <1>9 DEF Known
<1>11. RowsKnown
  BY DEF ServerInv
<1>12. /\ \A r \in ToSet(records)' : Known(r)'
       /\ \A o \in Call : \A r \in ToSet(call'[o].gives) : Known(r)'
  BY <1>10, <1>11 DEF RowsKnown
<1>13. dialog' \in Settings!Id => CustomOnly(dialog)'
  <2>1. \A i : i = dialog' /\ CustomOnly(i) => CustomOnly(i)'
    BY <1>7
  <2> QED
    BY <2>1 DEF CustomOnly, OpenInsert
<1>14. \A o \in Call : call'[o].kind \in {"patch", "delete"} => CustomOnly(call[o].id)'
  <2>1. \A o \in Call : call'[o].kind \in {"patch", "delete"} => CustomOnly(call'[o].id)
    BY <1>11 DEF RowsKnown
  <2>2. \A o \in Call : \A i : i = call'[o].id /\ CustomOnly(i) => CustomOnly(i)'
    BY <1>7
  <2> QED
    BY <2>1, <2>2 DEF CustomOnly, OpenInsert
<1>15. \A o \in Call : call'[o].kind = "toggle" /\ call'[o].seen # None =>
         Switch(call[o].seen.id, call[o].seen.name)'
  <2>1. \A o \in Call : call'[o].kind = "toggle" /\ call'[o].seen # None =>
          Switch(call'[o].seen.id, call'[o].seen.name)
    BY <1>11 DEF RowsKnown
  <2> QED
    BY <2>1 DEF Switch
<1>16. RowsKnown'
  BY <1>12, <1>13, <1>14, <1>15 DEF RowsKnown
<1> QED
  BY <1>4, <1>5, <1>6, <1>16 DEF ServerInv

\* An open request that inserts a row.
LEMMA OpenInserts ==
  ASSUME SettingTyped, NEW k \in Call, OpenInsert(k)
  PROVE  /\ call[k].id \in Settings!Id /\ call[k].id # None /\ Takes(call[k])
         /\ call[k].kind \in {"create", "toggle"} /\ call[k].name \in SettingNames
         /\ call[k].kind = "toggle" => call[k].name \in ToSet(SettingBuiltins)
         /\ call[k].gives[1] = Inserted(call[k]) /\ Len(call[k].gives) = 1
<1>1. call[k] \in SettingCall /\ SettingAsked(call[k])
  BY OfCall
<1>2. /\ call[k].at = "open" /\ call[k].kind \in {"create", "toggle"} /\ Inserts(call[k])
      /\ Puts(call[k]) /\ Flushed(call[k])
  BY DEF OpenInsert, Inserts, Puts, Flushed, Settings!Changes
<1>3. /\ call[k].id \in Settings!Id /\ call[k].gives[1] = Inserted(call[k])
      /\ Len(call[k].gives) = 1
  BY <1>1, <1>2 DEF SettingAsked
<1>4. call[k].id # None
  BY <1>3, ControlsAssumption DEF Settings!Id
<1>5. ToSet(SettingBuiltins) \subseteq SettingNames
  BY ControlsAssumption, Entries
<1> QED
  BY <1>1, <1>2, <1>3, <1>4, <1>5 DEF Takes, SettingAsked

\* What is known of rows determines which they are.
LEMMA KnownRows ==
  ASSUME SettingTyped, ServerInv
  PROVE  /\ \A i, n : SwitchOf(i, n) => i <= lastId /\ ~CustomOnly(i)
         /\ \A i, n, m : SwitchOf(i, n) /\ SwitchOf(i, m) => n = m
         /\ \A i, j, n : SwitchOf(i, n) /\ SwitchOf(j, n) => i = j
         /\ \A r \in stored : Known(r)
<1>1. RowsOnce /\ NamesTaken /\ IdsTaken
  BY DEF ServerInv
<1>2. \A k \in Call : OpenInsert(k) => Takes(call[k]) /\ call[k].id # None
  BY OpenInserts
<1>3. ASSUME NEW i, NEW n, SwitchOf(i, n) PROVE i <= lastId /\ ~CustomOnly(i)
  <2>1. CASE Switch(i, n)
    BY <1>1, <2>1 DEF Switch, RowsOnce, CustomOnly
  <2>2. CASE \E k \in Call : /\ OpenInsert(k) /\ call[k].kind = "toggle" /\ call[k].id = i
                             /\ call[k].name = n
    BY <1>1, <1>2, <2>2 DEF IdsTaken, CustomOnly
  <2> QED
    BY <1>3, <2>1, <2>2 DEF SwitchOf
<1>4. ASSUME NEW i, NEW n, NEW m, SwitchOf(i, n), SwitchOf(i, m) PROVE n = m
  BY <1>1, <1>2, <1>4 DEF SwitchOf, Switch, RowsOnce, IdsTaken
<1>5. ASSUME NEW i, NEW j, NEW n, SwitchOf(i, n), SwitchOf(j, n) PROVE i = j
  BY <1>1, <1>2, <1>5 DEF SwitchOf, Switch, RowsOnce, NamesTaken
<1>6. ASSUME NEW r \in stored PROVE Known(r)
  <2>1. CASE r.custom
    BY <1>1, <2>1 DEF Known, CustomOnly, RowsOnce, IdsTaken
  <2>2. CASE ~r.custom
    BY <2>2 DEF Known, SwitchOf, Switch
  <2> QED
    BY <2>1, <2>2
<1> QED
  BY <1>3, <1>4, <1>5, <1>6

LEMMA FreeNames ==
  ASSUME NEW k \in Call, Settings!Free(k), NEW o \in Call, o # k, call[o].at = "open",
         call[k].name # None
  PROVE  call[o].name # call[k].name
<1>1. Settings!NamesOf(call[o]) \cap Settings!NamesOf(call[k]) = {}
  BY DEF Settings!Free
<1>2. call[k].name \in Settings!NamesOf(call[k])
  BY DEF Settings!NamesOf
<1>3. call[o].name = call[k].name => call[k].name \in Settings!NamesOf(call[o])
  BY DEF Settings!NamesOf
<1> QED
  BY <1>1, <1>2, <1>3

\* Of what is known before, a row that is written takes nothing away.
LEMMA InsertServer ==
  ASSUME SettingTyped, ServerInv, NEW k \in Call, Settings!FlushInsert(k), ~Settings!Fail(k)
  PROVE  ServerInv'
<1> DEFINE c == call[k]
           d == call'[k]
<1>1. /\ SettingTyped' /\ \A o \in Call : o # k => call'[o] = call[o]
      /\ stored' = stored /\ lastId' = lastId + 1 /\ lastId + 1 \in Settings!Id
      /\ Like(d, c) /\ d.at = "open" /\ d.id = lastId + 1
      /\ d.told = c.told /\ d.seen = None /\ c.seen = None
      /\ d.gives[1] = Inserted(d) /\ Len(d.gives) = 1
      /\ c.at = "write" /\ c.kind \in {"create", "toggle"}
      /\ ~Settings!NameTaken(c.name) /\ Settings!Free(k)
  BY InsertStep
<1>2. records' = records /\ dialog' = dialog
  BY DEF Settings!FlushInsert, Settings!pageVars
<1>3. RowsOnce /\ NamesTaken /\ IdsTaken /\ RowsKnown
  BY DEF ServerInv
<1>4. /\ lastId \in Int /\ lastId < lastId + 1 /\ lastId <= lastId + 1
      /\ lastId + 1 # None /\ ~(lastId + 1 <= lastId)
      /\ \A i : i <= lastId /\ i \in Int => i <= lastId + 1
  BY ControlsAssumption DEF SettingTyped
<1>5. \A r \in stored : r.id \in Int
  BY RowFields DEF SettingTyped
<1>6. \A o \in Call : call[o].id # None => call[o].id \in Int
  BY OfCall, SettingFields DEF Settings!Id
<1> HIDE DEF c, d
<1>7. /\ OpenInsert(k)' /\ Takes(call'[k])
      /\ ~OpenInsert(k) /\ ~Takes(call[k])
      /\ call'[k].name # None /\ call'[k].name = call[k].name
  <2>1. c.name # None
    <3>1. ToSet(SettingBuiltins) \subseteq SettingNames
      BY ControlsAssumption, Entries
    <3> QED
      BY <1>1, <3>1, OfCall, ControlsAssumption DEF c, SettingAsked
  <2> QED
    BY <1>1, <2>1 DEF c, d, OpenInsert, Takes, Inserts, Like
<1>8. \A o \in Call : o # k => /\ OpenInsert(o)' <=> OpenInsert(o)
                               /\ Takes(call'[o]) => call'[o].name # call'[k].name
  <2>1. \A o \in Call : o # k /\ Takes(call[o]) => call[o].name # call[k].name
    BY <1>1, <1>7, FreeNames DEF Takes
  <2> QED
    BY <1>1, <1>7, <2>1 DEF OpenInsert
<1>9. RowsOnce'
  BY <1>1, <1>3, <1>4, <1>5 DEF RowsOnce
<1>10. NamesTaken'
  <2>1. \A r \in stored : r.name # call'[k].name
    BY <1>1, <1>7 DEF c, Settings!NameTaken
  <2>2. ASSUME NEW o \in Call, Takes(call'[o])
        PROVE  /\ \A r \in stored' : r.name # call'[o].name
               /\ \A p \in Call : Takes(call'[p]) /\ call'[p].name = call'[o].name => p = o
    <3>1. CASE o = k
      BY <1>1, <1>8, <2>1, <3>1
    <3>2. CASE o # k
      BY <1>1, <1>3, <1>8, <2>2, <3>2 DEF NamesTaken
    <3> QED
      BY <3>1, <3>2
  <2> QED
    BY <2>2 DEF NamesTaken
<1>11. \A o \in Call : o # k /\ call[o].id # None => call'[o].id <= lastId' /\ call'[o].id # d.id
  BY <1>1, <1>3, <1>4, <1>6 DEF IdsTaken
<1>12. IdsTaken'
  <2>1. \A o \in Call : call'[o].id # None => call'[o].id <= lastId'
    <3>1. CASE d.id <= lastId'
      BY <1>1, <1>11, <3>1 DEF d
    <3> QED
      BY <1>1, <1>4, <3>1
  <2>2. ASSUME NEW o \in Call, OpenInsert(o)'
        PROVE  /\ \A r \in stored' : r.id # call'[o].id
               /\ \A p \in Call : OpenInsert(p)' /\ call'[p].id = call'[o].id => p = o
    <3>1. CASE o = k
      <4>1. \A r \in stored : r.id # d.id
        BY <1>1, <1>3, <1>4 DEF RowsOnce
      <4>2. \A p \in Call : p # k /\ OpenInsert(p)' => call'[p].id # d.id
        BY <1>8, <1>11, OpenInserts
      <4> QED
        BY <1>1, <3>1, <4>1, <4>2 DEF d
    <3>2. CASE o # k
      <4>1. OpenInsert(o) /\ call[o].id # None /\ call'[o] = call[o]
        BY <1>1, <1>8, <2>2, <3>2, OpenInserts
      <4>2. call'[o].id # call'[k].id
        BY <1>11, <3>2, <4>1 DEF d
      <4> QED
        BY <1>1, <1>3, <1>8, <4>1, <4>2 DEF IdsTaken
    <3> QED
      BY <3>1, <3>2
  <2> QED
    BY <2>1, <2>2 DEF IdsTaken
<1>13. ASSUME NEW i, i \in Int, CustomOnly(i) PROVE CustomOnly(i)'
  <2>1. i <= lastId /\ i <= lastId' /\ i # d.id
    BY <1>1, <1>4, <1>13 DEF CustomOnly
  <2> QED
    BY <1>1, <1>8, <1>13, <2>1 DEF CustomOnly, d
<1>14. \A i, n : Switch(i, n) => Switch(i, n)'
  BY <1>1 DEF Switch
<1>15. \A i, n : SwitchOf(i, n) => SwitchOf(i, n)'
  BY <1>1, <1>7, <1>8, <1>14 DEF SwitchOf
<1>16. \A r \in Settings!Record : Known(r) => Known(r)'
  BY <1>13, <1>15, RowFields DEF Known
<1>17. ASSUME NEW w, w = Inserted(d) PROVE Known(w)'
  <2>1. /\ w.id = lastId + 1 /\ w.name = d.name
        /\ (w.custom <=> d.kind = "create")
    BY <1>1, <1>17 DEF Inserted
  <2>2. CASE d.kind = "create"
    <3>1. w.id <= lastId'
      BY <1>1, <1>4, <2>1
    <3>2. \A r \in stored' : r.id # w.id
      BY <1>1, <1>3, <1>4, <2>1 DEF RowsOnce
    <3>3. \A o \in Call : OpenInsert(o)' /\ call'[o].id = w.id => o = k
      BY <1>1, <1>8, <1>11, <2>1, OpenInserts
    <3>4. CustomOnly(w.id)'
      BY <2>2, <3>1, <3>2, <3>3 DEF CustomOnly, d
    <3> QED
      BY <2>1, <2>2, <3>4 DEF Known
  <2>3. CASE d.kind = "toggle"
    BY <1>1, <1>7, <2>1, <2>3 DEF Known, SwitchOf, d
  <2> QED
    BY <1>1, <2>2, <2>3 DEF Like
<1>18. /\ \A r \in ToSet(records) : r \in Settings!Record
       /\ \A o \in Call : \A r \in ToSet(call[o].gives) : r \in Settings!Record
  BY OfCall, SettingFields, Entries DEF SettingTyped
<1>19. \A r \in ToSet(records') : Known(r)'
  BY <1>2, <1>3, <1>16, <1>18 DEF RowsKnown
<1>20. \A o \in Call : \A r \in ToSet(call'[o].gives) : Known(r)'
  <2>1. \A o \in Call : o # k => \A r \in ToSet(call'[o].gives) : Known(r)'
    BY <1>1, <1>3, <1>16, <1>18 DEF RowsKnown
  <2>2. ToSet(d.gives) = {Inserted(d)}
    <3>1. d.gives \in Seq(Settings!Record)
      BY <1>1, OfCall, SettingFields DEF SettingTyped, d
    <3> QED
      BY <1>1, <3>1, OneEntry
  <2> QED
    BY <1>17, <2>1, <2>2 DEF d
<1>21. dialog' \in Settings!Id => CustomOnly(dialog)'
  <2>1. \A i : i = dialog' /\ i \in Settings!Id /\ CustomOnly(i) => CustomOnly(i)'
    BY <1>13 DEF Settings!Id
  <2> QED
    BY <1>2, <1>3, <2>1 DEF CustomOnly, OpenInsert, RowsKnown
<1>22. \A o \in Call : call'[o].kind \in {"patch", "delete"} => CustomOnly(call[o].id)'
  <2>1. ASSUME NEW o \in Call, call'[o].kind \in {"patch", "delete"}
        PROVE  o # k /\ call'[o].id \in Int /\ CustomOnly(call'[o].id)
    <3>1. o # k /\ call'[o] = call[o]
      BY <1>1, <2>1 DEF d, Like
    <3>2. call[o].id \in Int
      BY <2>1, <3>1, OfCall DEF SettingAsked, Settings!Id
    <3> QED
      BY <1>3, <2>1, <3>1, <3>2 DEF RowsKnown
  <2>2. \A o \in Call : \A i : i = call'[o].id /\ i \in Int /\ CustomOnly(i) => CustomOnly(i)'
    BY <1>13
  <2> QED
    BY <2>1, <2>2 DEF CustomOnly, OpenInsert
<1>23. \A o \in Call : call'[o].kind = "toggle" /\ call'[o].seen # None =>
         Switch(call[o].seen.id, call[o].seen.name)'
  BY <1>1, <1>3 DEF RowsKnown, Switch, d
<1> QED
  BY <1>9, <1>10, <1>12, <1>19, <1>20, <1>21, <1>22, <1>23 DEF ServerInv, RowsKnown

LEMMA UpdateServer ==
  ASSUME SettingTyped, ServerInv, NEW k \in Call, Settings!FlushUpdate(k), ~Settings!Fail(k)
  PROVE  ServerInv'
<1>0. RowsOnce /\ NamesTaken /\ IdsTaken /\ RowsKnown
  BY DEF ServerInv
<1>1. /\ SettingTyped' /\ \A o \in Call : o # k => call'[o] = call[o]
      /\ stored' = stored /\ lastId' = lastId
      /\ Like(call'[k], call[k]) /\ call'[k].at = "open" /\ call'[k].id = call[k].id
      /\ call'[k].told = call[k].told /\ call'[k].seen = call[k].seen
      /\ Len(call'[k].gives) = 1
      /\ call[k].at = "write" /\ call[k].kind \in {"toggle", "patch"}
      /\ call[k].seen \in Settings!Record
      /\ Settings!Changed(call[k]) => Settings!Free(k)
      /\ Settings!Patched(call[k].seen, call[k]).name # call[k].seen.name =>
           ~Settings!NameTaken(call[k].name)
  BY <1>0, UpdateStep
<1>2. PICK r \in stored : /\ r.id = call[k].seen.id
                          /\ call'[k].gives[1] = Settings!Patched(r, call[k])
  BY <1>0, UpdateStep
<1>3. records' = records /\ dialog' = dialog
  BY DEF Settings!FlushUpdate, Settings!pageVars
<1>4. call[k] \in SettingCall /\ SettingAsked(call[k]) /\ call[k].seen # None
  BY <1>1, OfCall, RowFields
<1>5. /\ r \in Settings!Record
      /\ call[k].kind = "patch" => r.custom /\ r.id = call[k].id
      /\ call[k].kind = "toggle" =>
           ~r.custom /\ r.name = call[k].name /\ call[k].seen.name = call[k].name
  BY <1>0, <1>1, <1>2, <1>4, RowSeen
<1>6. ~OpenInsert(k) /\ ~OpenInsert(k)'
  BY <1>1, <1>4 DEF OpenInsert, Inserts
<1>7. ASSUME Takes(call'[k])
      PROVE  /\ \A q \in stored : q.name # call'[k].name
             /\ \A o \in Call : o # k /\ Takes(call[o]) => call[o].name # call'[k].name
  <2>1. /\ call[k].kind = "patch" /\ call[k].name \notin {None, call[k].seen.name}
        /\ call'[k].name = call[k].name
    BY <1>1, <1>4, <1>6, <1>7 DEF Takes, Like, OpenInsert
  <2>2. Settings!Patched(call[k].seen, call[k]).name = call[k].name
    BY <1>1, <1>4, <2>1, PatchedIs
  <2>3. ~Settings!NameTaken(call[k].name) /\ Settings!Free(k)
    BY <1>1, <2>1, <2>2 DEF Settings!Changed
  <2> QED
    BY <2>1, <2>3, FreeNames DEF Settings!NameTaken, Takes
<1>8. Known(Settings!Patched(r, call[k]))
  <2> DEFINE p == Settings!Patched(r, call[k])
  <2>1. /\ p.id = r.id /\ p.custom = r.custom
        /\ p.name = IF call[k].name \notin {None, call[k].seen.name} THEN call[k].name ELSE r.name
    BY <1>1, <1>4, <1>5, PatchedIs
  <2> HIDE DEF p
  <2>2. CASE call[k].kind = "patch"
    <3>1. CustomOnly(call[k].id)
      BY <1>0, <2>2 DEF RowsKnown
    <3> QED
      BY <1>5, <2>1, <2>2, <3>1 DEF Known, p
  <2>3. CASE call[k].kind = "toggle"
    <3>1. p.name = r.name /\ ~p.custom /\ ~r.custom
      BY <1>5, <2>1, <2>3
    <3> QED
      BY <2>1, <3>1 DEF Known, SwitchOf, Switch, p
  <2> QED
    BY <1>1, <2>2, <2>3
<1>9. \A q \in ToSet(call'[k].gives) : Known(q)
  <2>1. call'[k].gives \in Seq(Settings!Record)
    BY <1>1, OfCall, SettingFields DEF SettingTyped
  <2>2. ToSet(call'[k].gives) = {Settings!Patched(r, call[k])}
    BY <1>1, <1>2, <2>1, OneEntry
  <2> QED
    BY <1>8, <2>2
<1>10. /\ \A q \in ToSet(records') : Known(q)
       /\ dialog' \in Settings!Id => CustomOnly(dialog')
  BY <1>0, <1>3 DEF RowsKnown
<1>11. /\ call'[k].kind \in {"patch", "delete"} => CustomOnly(call'[k].id)
       /\ call'[k].kind = "toggle" /\ call'[k].seen # None =>
            Switch(call'[k].seen.id, call'[k].seen.name)
       /\ call'[k].id # None => call'[k].id <= lastId
  BY <1>0, <1>1 DEF RowsKnown, IdsTaken, Like
<1> QED
  BY <1>1, <1>6, <1>7, <1>9, <1>10, <1>11, ServerStays

\* The rows after a commit: one that is deleted is gone, one that is inserted is
\* there, and one that is updated keeps its id and its kind, and unless a command of
\* the user is renamed its name.
LEMMA CommitServer ==
  ASSUME SettingTyped, ServerInv, NEW k \in Call, Settings!Commit(k)
  PROVE  ServerInv'
<1> DEFINE c == call[k]
<1>0. RowsOnce /\ NamesTaken /\ IdsTaken /\ RowsKnown
  BY DEF ServerInv
<1>1. /\ SettingTyped' /\ \A o \in Call : o # k => call'[o] = call[o]
      /\ lastId' = lastId /\ c.at = "open" /\ IsChange(k)
      /\ c.told => call'[k] = Settings!Idle
      /\ ~c.told =>
           /\ Like(call'[k], c) /\ call'[k].at = "done" /\ call'[k].id = c.id
           /\ call'[k].gives = c.gives
           /\ call'[k].told = c.told /\ call'[k].seen = c.seen
      /\ c.kind = "delete" => stored' = {r \in stored : r.id # c.id}
      /\ Inserts(c) => stored' = stored \cup {c.gives[1]}
      /\ c.kind # "delete" /\ ~Inserts(c) =>
           /\ c.seen # None /\ c.kind \in {"toggle", "patch"}
           /\ stored' = {IF r.id = c.seen.id THEN Settings!Patched(r, c) ELSE r : r \in stored}
  BY CommitStep
<1>2. records' = records /\ dialog' = dialog
  BY DEF Settings!Commit, Settings!pageVars
<1>3. c \in SettingCall /\ SettingFormed(c) /\ SettingAsked(c)
  BY OfCall
<1>4. /\ ~OpenInsert(k)' /\ ~Takes(call'[k])
      /\ call'[k].id # None => call'[k].id = c.id
      /\ call'[k].kind # "none" => Like(call'[k], c) /\ call'[k].seen = c.seen
      /\ call'[k].gives = c.gives \/ call'[k].gives = <<>>
  BY <1>1, IdleSetting DEF OpenInsert, Takes, Like
<1>5. \A o \in Call : /\ OpenInsert(o)' => o # k /\ OpenInsert(o) /\ call'[o] = call[o]
                      /\ Takes(call'[o]) => o # k /\ Takes(call[o]) /\ call'[o] = call[o]
                      /\ o # k /\ OpenInsert(o) => OpenInsert(o)'
  BY <1>1, <1>4 DEF OpenInsert
\* An update.
<1>6. ASSUME c.kind # "delete", ~Inserts(c), NEW r \in stored
      PROVE  LET p == IF r.id = c.seen.id THEN Settings!Patched(r, c) ELSE r IN
             /\ p.id = r.id /\ p.custom = r.custom /\ (~r.custom => p.name = r.name)
             /\ p.name = r.name \/ (Takes(c) /\ p.name = c.name /\ r.id = c.seen.id)
  <2>1. CASE r.id = c.seen.id
    <3>1. /\ c.kind \in {"toggle", "patch"} /\ c.seen \in Settings!Record
          /\ r \in Settings!Record
          /\ c.kind = "patch" => r.custom
          /\ c.kind = "toggle" => ~r.custom /\ r.name = c.name /\ c.seen.name = c.name
      BY <1>0, <1>1, <1>6, <2>1, RowSeen
    <3>2. /\ Settings!Patched(r, c).id = r.id /\ Settings!Patched(r, c).custom = r.custom
          /\ Settings!Patched(r, c).name =
               IF c.name \notin {None, c.seen.name} THEN c.name ELSE r.name
      BY <1>3, <3>1, PatchedIs
    <3>3. c.kind = "patch" /\ c.name \notin {None, c.seen.name} => Takes(c)
      BY <1>1 DEF Takes
    <3> QED
      BY <2>1, <3>1, <3>2, <3>3
  <2>2. CASE r.id # c.seen.id
    BY <2>2
  <2> QED
    BY <2>1, <2>2
\* Each row after the commit was there, of the same id and kind, or is inserted.
<1>7. ASSUME NEW s \in stored'
      PROVE  \/ \E r \in stored : /\ s.id = r.id /\ s.custom = r.custom
                                  /\ ~r.custom => s.name = r.name
                                  /\ s.name = r.name \/ (Takes(c) /\ s.name = c.name)
             \/ Inserts(c) /\ s = c.gives[1]
  BY <1>1, <1>6, <1>7
<1>8. Inserts(c) => /\ OpenInsert(k) /\ c.gives[1].id = c.id /\ c.gives[1].name = c.name
                    /\ (c.gives[1].custom <=> c.kind = "create")
                    /\ c.kind \in {"create", "toggle"}
                    /\ c.kind = "toggle" => c.name \in ToSet(SettingBuiltins)
                    /\ c.id # None
  <2>1. Inserts(c) => OpenInsert(k)
    BY <1>1 DEF OpenInsert
  <2>2. Inserts(c) => c.gives[1] = Inserted(c)
    BY <2>1, OpenInserts
  <2>3. Inserts(c) => /\ c.kind \in {"create", "toggle"} /\ c.id # None
                      /\ c.kind = "toggle" => c.name \in ToSet(SettingBuiltins)
    BY <2>1, OpenInserts
  <2>4. /\ Inserted(c).id = c.id /\ Inserted(c).name = c.name
        /\ (Inserted(c).custom <=> c.kind = "create")
    BY DEF Inserted
  <2> HIDE DEF c
  <2> QED
    BY <2>1, <2>2, <2>3, <2>4
<1> HIDE DEF c
<1>9. ASSUME NEW s \in stored', NEW t \in stored', s.name = t.name \/ s.id = t.id
      PROVE  s = t
  <2>1. CASE c.kind = "delete"
    BY <1>0, <1>1, <1>9, <2>1 DEF RowsOnce
  <2>2. CASE Inserts(c)
    <3>1. \A r \in stored : r.name # c.name /\ r.id # c.id
      BY <1>0, <1>8, <2>2, OpenInserts DEF NamesTaken, IdsTaken, c
    <3> QED
      BY <1>0, <1>1, <1>8, <1>9, <2>2, <3>1 DEF RowsOnce
  <2>3. CASE c.kind # "delete" /\ ~Inserts(c)
    <3> DEFINE f(r) == IF r.id = c.seen.id THEN Settings!Patched(r, c) ELSE r
    <3>1. \A r \in stored : /\ f(r).id = r.id
                            /\ f(r).name = r.name \/ (Takes(c) /\ f(r).name = c.name /\ r.id = c.seen.id)
      BY <1>6, <2>3 DEF c
    <3>2. stored' = {f(r) : r \in stored}
      BY <1>1, <2>3
    <3> HIDE DEF f
    <3>3. PICK q \in stored : s = f(q)
      BY <3>2
    <3>4. PICK r \in stored : t = f(r)
      BY <3>2
    <3>5. Takes(c) => \A u \in stored : u.name # c.name
      BY <1>0 DEF NamesTaken, c
    <3>6. q.name = r.name \/ q.id = r.id
      BY <1>9, <3>1, <3>3, <3>4, <3>5
    <3> QED
      BY <1>0, <3>3, <3>4, <3>6 DEF RowsOnce
  <2> QED
    BY <2>1, <2>2, <2>3
<1>10. ASSUME NEW s \in stored'
       PROVE  s.id <= lastId' /\ (~s.custom => s.name \in ToSet(SettingBuiltins))
  <2>1. Inserts(c) => c.id <= lastId
    BY <1>0, <1>8 DEF IdsTaken, c
  <2> QED
    BY <1>0, <1>1, <1>7, <1>8, <2>1 DEF RowsOnce
<1>11. RowsOnce'
  BY <1>9, <1>10 DEF RowsOnce
<1>12. NamesTaken'
  <2>1. Inserts(c) => Takes(c)
    BY <1>8, OpenInserts DEF c
  <2>2. \A o \in Call : o # k /\ Takes(call[o]) =>
          /\ \A r \in stored : r.name # call[o].name
          /\ Takes(c) => c.name # call[o].name
    BY <1>0 DEF NamesTaken, c
  <2>3. \A o \in Call : o # k /\ Takes(call[o]) => \A s \in stored' : s.name # call[o].name
    BY <1>7, <1>8, <2>1, <2>2
  <2>4. \A o, p \in Call : Takes(call[o]) /\ Takes(call[p]) /\ call[o].name = call[p].name => p = o
    BY <1>0 DEF NamesTaken
  <2> QED
    BY <1>5, <2>3, <2>4 DEF NamesTaken
<1>13. IdsTaken'
  <2>1. \A o \in Call : call'[o].id # None => call'[o].id <= lastId'
    BY <1>0, <1>1, <1>4 DEF IdsTaken, c
  <2>2. \A o \in Call : o # k /\ OpenInsert(o) =>
          /\ \A r \in stored : r.id # call[o].id
          /\ Inserts(c) => c.id # call[o].id
    BY <1>0, <1>8 DEF IdsTaken, c
  <2>3. \A o \in Call : o # k /\ OpenInsert(o) => \A s \in stored' : s.id # call[o].id
    BY <1>7, <1>8, <2>2
  <2>4. \A o, p \in Call : OpenInsert(o) /\ OpenInsert(p) /\ call[o].id = call[p].id => p = o
    BY <1>0 DEF IdsTaken
  <2> QED
    BY <1>5, <2>1, <2>3, <2>4 DEF IdsTaken
<1>14. ASSUME NEW i, CustomOnly(i) PROVE CustomOnly(i)'
  <2>1. \A s \in stored' : s.id = i => s.custom
    <3>1. Inserts(c) /\ c.id = i => c.gives[1].custom
      BY <1>8, <1>14 DEF CustomOnly, c
    <3> QED
      BY <1>7, <1>8, <1>14, <3>1 DEF CustomOnly
  <2> QED
    BY <1>1, <1>5, <1>14, <2>1 DEF CustomOnly
\* A row that switches stays.
<1>15. ASSUME NEW r \in stored, ~r.custom
       PROVE  \E s \in stored' : s.id = r.id /\ s.name = r.name /\ ~s.custom
  <2>1. CASE c.kind = "delete"
    <3>1. CustomOnly(c.id)
      BY <1>0, <2>1 DEF RowsKnown, c
    <3>2. r.id # c.id
      BY <1>15, <3>1 DEF CustomOnly
    <3> QED
      BY <1>1, <1>15, <2>1, <3>2
  <2>2. CASE Inserts(c)
    BY <1>1, <1>15, <2>2
  <2>3. CASE c.kind # "delete" /\ ~Inserts(c)
    <3> DEFINE p == IF r.id = c.seen.id THEN Settings!Patched(r, c) ELSE r
    <3>1. p.id = r.id /\ p.custom = r.custom /\ p.name = r.name
      BY <1>6, <1>15, <2>3 DEF c
    <3>2. p \in stored'
      BY <1>1, <2>3
    <3> HIDE DEF p
    <3> QED
      BY <1>15, <3>1, <3>2
  <2> QED
    BY <2>1, <2>2, <2>3
<1>16. \A i, n : Switch(i, n) => Switch(i, n)'
  BY <1>15 DEF Switch
<1>17. ASSUME NEW i, NEW n, SwitchOf(i, n) PROVE SwitchOf(i, n)'
  <2>1. CASE Switch(i, n)
    BY <1>16, <2>1 DEF SwitchOf
  <2>2. ASSUME NEW o \in Call, OpenInsert(o), call[o].kind = "toggle", call[o].id = i,
               call[o].name = n
        PROVE  SwitchOf(i, n)'
    <3>1. CASE o = k
      <4>1. Inserts(c) /\ c.kind = "toggle" /\ c.id = i /\ c.name = n
        BY <2>2, <3>1 DEF OpenInsert, c
      <4>2. c.gives[1] \in stored'
        BY <1>1, <4>1
      <4> QED
        BY <1>8, <4>1, <4>2 DEF SwitchOf, Switch
    <3>2. CASE o # k
      BY <1>1, <1>5, <2>2, <3>2 DEF SwitchOf
    <3> QED
      BY <3>1, <3>2
  <2> QED
    BY <1>17, <2>1, <2>2 DEF SwitchOf
<1>18. \A r : Known(r) => Known(r)'
  BY <1>14, <1>17 DEF Known
<1>19. \A r \in ToSet(records') : Known(r)'
  BY <1>0, <1>2, <1>18 DEF RowsKnown
<1>20. \A o \in Call : \A r \in ToSet(call'[o].gives) : Known(r)'
  BY <1>0, <1>1, <1>4, <1>18, NoEntries DEF RowsKnown, c
<1>21. dialog' \in Settings!Id => CustomOnly(dialog)'
  <2>1. \A i : i = dialog' /\ CustomOnly(i) => CustomOnly(i)'
    BY <1>14
  <2> QED
    BY <1>0, <1>2, <2>1 DEF CustomOnly, OpenInsert, RowsKnown
<1>22. \A o \in Call : call'[o].kind \in {"patch", "delete"} => CustomOnly(call[o].id)'
  <2>1. \A o \in Call : call'[o].kind \in {"patch", "delete"} => CustomOnly(call'[o].id)
    <3>1. call'[k].kind \in {"patch", "delete"} => call'[k].id = c.id /\ call'[k].kind = c.kind
      BY <1>1, IdleSetting DEF Like
    <3> QED
      BY <1>0, <1>1, <3>1 DEF RowsKnown, c
  <2>2. \A o \in Call : \A i : i = call'[o].id /\ CustomOnly(i) => CustomOnly(i)'
    BY <1>14
  <2> QED
    BY <2>1, <2>2 DEF CustomOnly, OpenInsert
<1>23. \A o \in Call : call'[o].kind = "toggle" /\ call'[o].seen # None =>
         Switch(call[o].seen.id, call[o].seen.name)'
  <2>1. \A o \in Call : call'[o].kind = "toggle" /\ call'[o].seen # None =>
          Switch(call'[o].seen.id, call'[o].seen.name)
    BY <1>0, <1>1, <1>4 DEF RowsKnown, Like, c
  <2>2. \A o \in Call : \A i, n : i = call'[o].seen.id /\ n = call'[o].seen.name /\ Switch(i, n) =>
          Switch(i, n)'
    BY <1>16
  <2> QED
    BY <2>1, <2>2 DEF Switch
<1> QED
  BY <1>11, <1>12, <1>13, <1>19, <1>20, <1>21, <1>22, <1>23 DEF ServerInv, RowsKnown

-----------------------------------------------------------------------------
\* The page.

LEMMA FormsStay ==
  ASSUME OneForm, NEW k \in Call, \A o \in Call : o # k => call'[o] = call[o],
         WaitedForm(call'[k]) => WaitedForm(call[k]),
         dialog' = dialog \/ \A o \in Call : ~WaitedForm(call'[o])
  PROVE  OneForm'
<1>1. \A o \in Call : WaitedForm(call'[o]) => WaitedForm(call[o])
  OBVIOUS
<1> QED
  BY <1>1 DEF OneForm

LEMMA NotesStay ==
  ASSUME NotesTrue, NEW k \in Call, \A o \in Call : o # k => call'[o] = call[o],
         error' => error, crossed' = crossed, stale' = stale,
         \/ call'[k].kind = "none"
         \/ call'[k].kind = call[k].kind /\ call'[k].mine = call[k].mine
  PROVE  NotesTrue'
<1>1. \A o \in Call : call'[o].kind # "none" =>
                        call'[o].kind = call[o].kind /\ call'[o].mine = call[o].mine
  OBVIOUS
<1>2. \A o \in Call : IsChange(o)' => IsChange(o) /\ call'[o].mine = call[o].mine
  BY <1>1 DEF IsChange, Settings!Changes
<1>3. \A o \in Call : call'[o].kind = "list" => call[o].kind = "list"
  BY <1>1
<1>4. Fetching' => Fetching
  BY <1>3 DEF Fetching
<1> QED
  BY <1>2, <1>3, <1>4 DEF NotesTrue

\* While nothing disturbs the page, the list is fetched alone.
LEMMA FetchedAlone ==
  ASSUME NotesTrue, Calm, NEW f \in Call, call[f].kind = "list", NEW k \in Call
  PROVE  ~IsChange(k)
BY DEF NotesTrue, Calm, Fetching

LEMMA ApartStays ==
  ASSUME Apart, NEW k \in Call, \A o \in Call : o # k => call'[o] = call[o], Calm' => Calm,
         IsChange(k)' =>
           /\ Like(call'[k], call[k])
           /\ \/ call'[k].id = call[k].id
              \/ call'[k].id # None /\ \A o \in Call : o # k => call[o].id # call'[k].id
  PROVE  Apart'
<1> SUFFICES ASSUME Calm', NEW p \in Call, NEW o \in Call, IsChange(p)', IsChange(o)', p # o
             PROVE  /\ call'[p].id # None => call'[p].id # call'[o].id
                    /\ call'[p].kind = "toggle" /\ call'[o].kind = "toggle"
                       /\ call'[p].name = call'[o].name => call'[p].on = call'[o].on
  BY DEF Apart
<1>1. IsChange(p) /\ IsChange(o) /\ Like(call'[p], call[p]) /\ Like(call'[o], call[o])
  BY DEF IsChange, Like
<1>2. /\ call[p].id # None => call[p].id # call[o].id
      /\ call[o].id # None => call[o].id # call[p].id
      /\ call[p].kind = "toggle" /\ call[o].kind = "toggle" /\ call[p].name = call[o].name =>
           call[p].on = call[o].on
  BY <1>1 DEF Apart
<1>3. call'[p].id # None => call'[p].id # call'[o].id
  <2>1. CASE p = k
    BY <1>2, <2>1
  <2>2. CASE o = k
    BY <1>2, <2>2
  <2>3. CASE p # k /\ o # k
    BY <1>2, <2>3
  <2> QED
    BY <2>1, <2>2, <2>3
<1> QED
  BY <1>1, <1>2, <1>3 DEF Like

LEMMA ListsStay ==
  ASSUME ListHolds, NotesTrue, NEW k \in Call, \A o \in Call : o # k => call'[o] = call[o],
         Calm' => Calm, stored' = stored \/ IsChange(k),
         call'[k].kind = "list" => call'[k].at # "done"
  PROVE  ListHolds'
<1> SUFFICES ASSUME Calm', NEW o \in Call, call'[o].kind = "list", call'[o].at = "done"
             PROVE  ToSet(call'[o].gives) = stored' /\ IsInjective(call'[o].gives)
  BY DEF ListHolds
<1>1. o # k /\ call'[o] = call[o] /\ Calm
  OBVIOUS
<1>2. stored' = stored
  BY <1>1, FetchedAlone
<1> QED
  BY <1>1, <1>2 DEF ListHolds

LEMMA ChangesStay ==
  ASSUME ChangesHold, NEW k \in Call, \A o \in Call : o # k => call'[o] = call[o],
         Calm' => Calm, stored' = stored, Calm => GoesWell(call'[k])
  PROVE  ChangesHold'
<1> SUFFICES ASSUME Calm', NEW o \in Call PROVE GoesWell(call[o])'
  BY DEF ChangesHold
<1>1. GoesWell(call'[o])
  BY DEF ChangesHold
<1> QED
  BY <1>1 DEF GoesWell, IsStored

\* Records and rows agree as before.
LEMMA RecordsStay ==
  ASSUME RecordsHold, NEW k \in Call, \A o \in Call : o # k => call'[o] = call[o],
         Settled' => Settled, Settled' => records' = records /\ stored' = stored,
         Settled' => ~Flushed(call[k]), ~Flushed(call'[k])
  PROVE  RecordsHold'
<1> SUFFICES ASSUME Settled' PROVE RecordsHold'
  BY DEF RecordsHold
<1>1. /\ Settled /\ records' = records /\ stored' = stored
      /\ ~Flushed(call[k]) /\ ~Flushed(call'[k])
  OBVIOUS
<1>2. \A o \in Call : /\ Flushed(call'[o]) <=> Flushed(call[o])
                      /\ Flushed(call[o]) => call'[o] = call[o]
  BY <1>1
<1>3. \A o \in Call : /\ Awaited(call'[o]) <=> Awaited(call[o])
                      /\ Awaited(call[o]) => call'[o] = call[o]
  BY <1>2 DEF Awaited
<1>4. ASSUME NEW s PROVE (RowToBe(s)' <=> RowToBe(s)) /\ (RecordToBe(s)' <=> RecordToBe(s))
  <2>1. RowToBe(s)' <=> RowToBe(s)
    BY <1>1, <1>2 DEF RowToBe
  <2>2. RecordToBe(s)' <=> RecordToBe(s)
    BY <1>1, <1>3 DEF RecordToBe
  <2> QED
    BY <2>1, <2>2
<1> QED
  BY <1>1, <1>3, <1>4 DEF RecordsHold

\* A step that changes one request, and only what nobody else looks at.
LEMMA Quietly ==
  ASSUME PageInv, NEW k \in Call, \A o \in Call : o # k => call'[o] = call[o],
         stored' = stored, records' = records, dialog' = dialog, error' = error,
         crossed' = crossed, stale' = stale, missed' = missed \/ missed' = TRUE,
         \/ call'[k] = Settings!Idle
         \/ Like(call'[k], call[k]) /\ call'[k].id = call[k].id /\ call'[k].told = call[k].told,
         Calm /\ IsChange(k)' => GoesWell(call'[k]),
         call'[k].kind = "list" => call'[k].at # "done",
         ~Flushed(call'[k]), ~Flushed(call[k]) \/ missed' = TRUE,
         call'[k] = Settings!Idle => call[k].kind # "list"
  PROVE  PageInv'
<1>0. OneForm /\ NotesTrue /\ Apart /\ ChangesHold /\ ListHolds /\ RecordsHold
  BY DEF PageInv
<1>1. Calm' <=> Calm
  BY DEF Calm
<1>2. call'[k].kind = "none" \/ Like(call'[k], call[k])
  BY IdleSetting
<1>3. OneForm'
  <2>1. WaitedForm(call'[k]) => WaitedForm(call[k])
    BY IdleSetting DEF WaitedForm, Like
  <2> QED
    BY <1>0, <2>1, FormsStay
<1>4. NotesTrue'
  BY <1>0, <1>2, NotesStay DEF Like
<1>5. Apart'
  <2>1. IsChange(k)' => Like(call'[k], call[k]) /\ call'[k].id = call[k].id
    BY IdleSetting DEF IsChange, Settings!Changes
  <2> QED
    BY <1>0, <1>1, <2>1, ApartStays
<1>6. ChangesHold'
  <2>1. ~IsChange(k)' => GoesWell(call'[k])
    BY DEF IsChange, GoesWell, Settings!Changes, Flushed
  <2> QED
    BY <1>0, <1>1, <2>1, ChangesStay
<1>7. ListHolds'
  BY <1>0, <1>1, ListsStay
<1>8. RecordsHold'
  <2>1. Fetching => Fetching'
    <3>1. \A o \in Call : call[o].kind = "list" => call'[o].kind = "list"
      BY IdleSetting DEF Like
    <3> QED
      BY <3>1 DEF Fetching
  <2>2. Settled' => Settled /\ missed' # TRUE
    BY <2>1 DEF Settled
  <2> QED
    BY <1>0, <2>2, RecordsStay
<1> QED
  BY <1>3, <1>4, <1>5, <1>6, <1>7, <1>8 DEF PageInv

\* A request that fails.
LEMMA SettingFails ==
  ASSUME SettingInv, NEW k \in Call, call[k].at \in {"sent", "write", "done"}, Settings!Fail(k),
         records' = records, dialog' = dialog, error' = error, changes' = changes,
         crossed' = crossed, stale' = stale,
         (missed' = missed /\ call[k].at # "done") \/ missed' = TRUE
  PROVE  SettingInv'
<1>0. SettingTyped /\ ServerInv /\ RowsKnown /\ IdsTaken /\ PageInv
  BY DEF SettingInv, ServerInv
<1>1. SettingRest'
  BY <1>0 DEF SettingTyped, SettingRest
<1>2. /\ SettingTyped' /\ \A o \in Call : o # k => call'[o] = call[o]
      /\ stored' = stored /\ lastId' = lastId
      /\ Like(call'[k], call[k]) /\ call'[k].at = "bad" /\ call'[k].id = call[k].id
      /\ call'[k].seen = call[k].seen /\ call'[k].gives = <<>>
      /\ call'[k].told = call[k].told
  BY <1>0, <1>1, FailStep
<1>3. /\ ~OpenInsert(k) /\ ~OpenInsert(k)' /\ ~Takes(call'[k]) /\ ~Flushed(call'[k])
      /\ ~Writes(call'[k])
      /\ ~Flushed(call[k]) \/ missed' = TRUE
  BY <1>2 DEF OpenInsert, Takes, Flushed, Writes
<1>4. /\ call'[k].id # None => call'[k].id <= lastId
      /\ \A r \in ToSet(records') : Known(r)
      /\ \A r \in ToSet(call'[k].gives) : Known(r)
      /\ dialog' \in Settings!Id => CustomOnly(dialog')
      /\ call'[k].kind \in {"patch", "delete"} => CustomOnly(call'[k].id)
      /\ call'[k].kind = "toggle" /\ call'[k].seen # None =>
           Switch(call'[k].seen.id, call'[k].seen.name)
  BY <1>0, <1>2, NoEntries DEF RowsKnown, IdsTaken, Like
<1>5. ServerInv'
  BY <1>0, <1>2, <1>3, <1>4, ServerStays
<1>6. GoesWell(call'[k])
  BY <1>2, <1>3 DEF GoesWell, Writes
<1>7. PageInv'
  BY <1>0, <1>2, <1>3, <1>6, Quietly, IdleSetting
<1> QED
  BY <1>2, <1>5, <1>7 DEF SettingInv

LEMMA LookKeeps ==
  ASSUME SettingInv, NEW k \in Call, Settings!Look(k)
  PROVE  SettingInv'
<1>0. SettingTyped /\ ServerInv /\ RowsKnown /\ IdsTaken /\ PageInv
  BY DEF SettingInv, ServerInv
<1>1. /\ records' = records /\ dialog' = dialog /\ error' = error /\ changes' = changes
      /\ crossed' = crossed /\ stale' = stale /\ missed' = missed /\ call[k].at = "sent"
  BY DEF Settings!Look, Settings!pageVars, Settings!noteVars
<1>2. CASE Settings!Fail(k)
  BY <1>1, <1>2, SettingFails
<1>3. CASE ~Settings!Fail(k)
  <2>1. /\ SettingTyped' /\ \A o \in Call : o # k => call'[o] = call[o]
        /\ stored' = stored /\ lastId' = lastId
        /\ Like(call'[k], call[k]) /\ call'[k].at = "write" /\ call'[k].id = call[k].id
        /\ call'[k].gives = call[k].gives /\ call'[k].told = call[k].told
        /\ call[k].at = "sent" /\ IsChange(k)
        /\ call'[k].seen = None \/ call'[k].seen \in stored
        /\ call[k].kind = "toggle" /\ call'[k].seen # None =>
             call'[k].seen.name = call[k].name /\ ~call'[k].seen.custom
    BY <1>0, <1>3, LookStep
  <2>2. /\ ~OpenInsert(k) /\ ~OpenInsert(k)' /\ ~Takes(call'[k]) /\ ~Flushed(call'[k])
        /\ ~Flushed(call[k])
    BY <2>1 DEF OpenInsert, Takes, Flushed
  <2>3. /\ call'[k].id # None => call'[k].id <= lastId
        /\ \A r \in ToSet(records') : Known(r)
        /\ \A r \in ToSet(call'[k].gives) : Known(r)
        /\ dialog' \in Settings!Id => CustomOnly(dialog')
        /\ call'[k].kind \in {"patch", "delete"} => CustomOnly(call'[k].id)
    BY <1>0, <1>1, <2>1 DEF RowsKnown, IdsTaken, Like
  <2>4. call'[k].kind = "toggle" /\ call'[k].seen # None =>
          Switch(call'[k].seen.id, call'[k].seen.name)
    BY <2>1 DEF Switch, Like
  <2>5. ServerInv'
    BY <1>0, <2>1, <2>2, <2>3, <2>4, ServerStays
  <2>6. GoesWell(call'[k])
    <3>1. SettingAsked(call'[k])
      BY <2>1, OfCall DEF SettingTyped, SettingAsked, Inserts, Inserted, Writes, Flushed, Puts
    <3>2. call'[k].kind = "patch" => call'[k].seen \in stored
      BY <2>1, <3>1 DEF SettingAsked, Writes
    <3> QED
      BY <2>1, <2>2, <3>2 DEF GoesWell
  <2>7. call'[k].kind # "list"
    BY <2>1 DEF IsChange, Settings!Changes, Like
  <2>8. PageInv'
    BY <1>0, <1>1, <2>1, <2>2, <2>6, <2>7, Quietly, IdleSetting
  <2> QED
    BY <2>1, <2>5, <2>8 DEF SettingInv
<1> QED
  BY <1>2, <1>3

\* A request that is over, and gave the page nothing new.
LEMMA EndsQuietly ==
  ASSUME SettingInv, NEW k \in Call, call' = [call EXCEPT ![k] = Settings!Idle],
         call[k].at = "bad", call[k].kind # "list",
         stored' = stored, lastId' = lastId,
         records' = records, dialog' = dialog, error' = error, changes' = changes,
         crossed' = crossed, stale' = stale, missed' = missed
  PROVE  SettingInv'
<1>0. SettingTyped /\ ServerInv /\ RowsKnown /\ IdsTaken /\ PageInv
  BY DEF SettingInv, ServerInv
<1>1. SettingRest' /\ stored' \subseteq Settings!Record /\ IsFiniteSet(stored')
  BY <1>0 DEF SettingTyped, SettingRest
<1>2. /\ SettingTyped' /\ \A o \in Call : o # k => call'[o] = call[o]
      /\ call'[k] = Settings!Idle
  BY <1>0, <1>1, IdleStep
<1>3. /\ ~OpenInsert(k) /\ ~OpenInsert(k)' /\ ~Takes(call'[k]) /\ ~Flushed(call'[k])
      /\ ~Flushed(call[k]) /\ ~IsChange(k)'
  BY <1>2, IdleSetting DEF OpenInsert, Takes, Flushed, IsChange, Settings!Changes
<1>4. /\ call'[k].id = None /\ call'[k].kind = "none"
      /\ \A r \in ToSet(call'[k].gives) : Known(r)
  BY <1>2, IdleSetting, NoEntries
<1>5. /\ \A r \in ToSet(records') : Known(r)
      /\ dialog' \in Settings!Id => CustomOnly(dialog')
  BY <1>0 DEF RowsKnown
<1>6. ServerInv'
  BY <1>0, <1>2, <1>3, <1>4, <1>5, ServerStays
<1>7. PageInv'
  BY <1>0, <1>2, <1>3, <1>4, Quietly
<1> QED
  BY <1>2, <1>6, <1>7 DEF SettingInv

LEMMA ForgetKeeps ==
  ASSUME SettingInv, NEW k \in Call, Settings!Forget(k)
  PROVE  SettingInv'
<1>1. /\ call' = [call EXCEPT ![k] = Settings!Idle] /\ call[k].at = "bad" /\ call[k].told
      /\ stored' = stored /\ lastId' = lastId
      /\ records' = records /\ dialog' = dialog /\ error' = error /\ changes' = changes
      /\ crossed' = crossed /\ stale' = stale /\ missed' = missed
  BY DEF Settings!Forget, Settings!serverVars, Settings!pageVars, Settings!noteVars
<1>2. call[k].kind # "list"
  BY <1>1, OfCall DEF SettingInv, SettingFormed
<1> QED
  BY <1>1, <1>2, EndsQuietly

LEMMA RefuseKeeps ==
  ASSUME SettingInv, NEW k \in Call, Settings!Refuse(k)
  PROVE  SettingInv'
  BY SettingFails DEF Settings!Refuse, Settings!pageVars, Settings!noteVars

LEMMA LoseKeeps ==
  ASSUME SettingInv, NEW k \in Call, Settings!Lose(k)
  PROVE  SettingInv'
  BY SettingFails DEF Settings!Lose, Settings!pageVars, Settings!noteVars, Settings!Fail

\* A write that is flushed: the row it is of, and what the page is given.
LEMMA FlushedIs ==
  ASSUME SettingTyped, ServerInv, NEW k \in Call, Flushed(call[k])
  PROVE  /\ Target(call[k]) \in Settings!Id /\ Target(call[k]) <= lastId
         /\ Puts(call[k]) =>
              /\ call[k].gives[1] \in Settings!Record /\ call[k].gives[1] \in ToSet(call[k].gives)
              /\ Target(call[k]) = call[k].gives[1].id
         /\ call[k].kind # "toggle" => Target(call[k]) = call[k].id /\ CustomOnly(call[k].id)
         /\ call[k].kind = "toggle" =>
              /\ SwitchOf(Target(call[k]), call[k].name) /\ ~CustomOnly(Target(call[k]))
              /\ call[k].gives[1].name = call[k].name /\ ~call[k].gives[1].custom
         /\ call[k].kind # "delete" <=> Puts(call[k])
<1> DEFINE c == call[k]
           g == c.gives[1]
<1>0. c \in SettingCall /\ SettingAsked(c) /\ RowsKnown
  BY OfCall DEF ServerInv
<1>1. c.kind \in {"create", "toggle", "patch", "delete"} /\ c.gives \in Seq(Settings!Record)
  BY <1>0, SettingFields DEF Flushed, Settings!Changes
<1>2. ASSUME Puts(c)
      PROVE  g \in Settings!Record /\ g \in ToSet(c.gives) /\ Known(g) /\ Target(c) = g.id
  <2>1. Len(c.gives) = 1
    BY <1>0, <1>2 DEF SettingAsked
  <2>2. g \in Settings!Record
    BY <1>1, <2>1, OneEntry
  <2>3. g \in ToSet(c.gives)
    BY <1>1, <2>1, OneEntry
  <2>4. Known(g)
    BY <1>0, <2>3 DEF RowsKnown
  <2> QED
    BY <1>2, <2>2, <2>3, <2>4 DEF Target, Puts
<1>3. c.kind # "toggle" => Target(c) = c.id /\ c.id \in Settings!Id
  <2>1. CASE c.kind = "create"
    <3>1. Inserts(c)
      BY <1>0, <2>1 DEF SettingAsked, Inserts
    <3>2. c.id \in Settings!Id /\ g = Inserted(c)
      BY <1>0, <2>1, <3>1 DEF SettingAsked, Puts
    <3> QED
      BY <2>1, <3>2 DEF Target, Inserted
  <2>2. CASE c.kind \in {"patch", "delete"}
    BY <1>0, <2>2 DEF SettingAsked, Target, Puts
  <2> QED
    BY <1>1, <2>1, <2>2
<1>4. c.kind # "toggle" => CustomOnly(c.id)
  <2>1. ASSUME c.kind = "create" PROVE CustomOnly(c.id)
    <3>1. Inserts(c) /\ Puts(c)
      BY <1>0, <2>1 DEF SettingAsked, Inserts, Puts
    <3>2. g = Inserted(c)
      BY <1>0, <3>1 DEF SettingAsked
    <3>3. g.custom /\ g.id = c.id
      <4>1. Inserted(c).custom = (c.kind = "create") /\ Inserted(c).id = c.id
        BY DEF Inserted
      <4> QED
        BY <2>1, <3>2, <4>1
    <3>4. CustomOnly(g.id)
      BY <1>2, <3>1, <3>3 DEF Known
    <3> QED
      BY <3>3, <3>4
  <2>2. c.kind \in {"patch", "delete"} => CustomOnly(c.id)
    BY <1>0 DEF RowsKnown
  <2> QED
    BY <1>1, <2>1, <2>2
<1>5. ASSUME c.kind = "toggle"
      PROVE  g.name = c.name /\ ~g.custom /\ SwitchOf(Target(c), c.name)
  <2>1. Puts(c)
    BY <1>5 DEF Puts
  <2>2. g.name = c.name /\ ~g.custom
    BY <1>0, <1>5, <2>1 DEF SettingAsked
  <2> QED
    BY <1>2, <2>1, <2>2 DEF Known
<1>6. c.kind # "delete" <=> Puts(c)
  BY <1>1 DEF Puts
<1>7. Target(c) \in Settings!Id
  BY <1>1, <1>2, <1>3, RowFields DEF Puts
<1>8. Target(c) <= lastId
  BY <1>3, <1>4, <1>5, KnownRows DEF CustomOnly
<1>9. c.kind = "toggle" => ~CustomOnly(Target(c))
  BY <1>5, KnownRows
<1> HIDE DEF c
<1> QED
  BY <1>2, <1>3, <1>4, <1>5, <1>6, <1>7, <1>8, <1>9 DEF c

\* What is written and not over yet is of one row each, unless both switch it alike.
LEMMA TargetsApart ==
  SettingTyped /\ ServerInv /\ Apart /\ ChangesHold /\ Calm =>
    \A k, o \in Call :
      Flushed(call[k]) /\ Flushed(call[o]) /\ k # o /\ Target(call[k]) = Target(call[o]) =>
        /\ Puts(call[k]) /\ Puts(call[o]) /\ call[k].gives[1] = call[o].gives[1]
        /\ call[k].kind = "toggle" /\ call[o].kind = "toggle"
<1> SUFFICES ASSUME SettingTyped, ServerInv, Apart, ChangesHold, Calm, NEW k \in Call, NEW o \in Call,
                    Flushed(call[k]), Flushed(call[o]), k # o, Target(call[k]) = Target(call[o])
             PROVE  /\ Puts(call[k]) /\ Puts(call[o]) /\ call[k].gives[1] = call[o].gives[1]
                    /\ call[k].kind = "toggle" /\ call[o].kind = "toggle"
  OBVIOUS
<1> DEFINE c == call[k]
           d == call[o]
<1>1. IsChange(k) /\ IsChange(o)
  BY DEF Flushed, IsChange
<1>2. /\ Target(c) \in Settings!Id
      /\ Puts(c) => c.gives[1] \in Settings!Record /\ Target(c) = c.gives[1].id
      /\ c.kind # "toggle" => Target(c) = c.id /\ CustomOnly(c.id)
      /\ c.kind = "toggle" => /\ SwitchOf(Target(c), c.name) /\ ~CustomOnly(Target(c))
                              /\ c.gives[1].name = c.name /\ ~c.gives[1].custom
      /\ c.kind # "delete" <=> Puts(c)
  BY FlushedIs
<1>3. /\ Puts(d) => d.gives[1] \in Settings!Record /\ Target(d) = d.gives[1].id
      /\ d.kind # "toggle" => Target(d) = d.id /\ CustomOnly(d.id)
      /\ d.kind = "toggle" => /\ SwitchOf(Target(d), d.name) /\ ~CustomOnly(Target(d))
                              /\ d.gives[1].name = d.name /\ ~d.gives[1].custom
      /\ d.kind # "delete" <=> Puts(d)
  BY FlushedIs
<1>4. None \notin Settings!Id
  BY ControlsAssumption DEF Settings!Id
<1>5. /\ c.id # None => c.id # d.id
      /\ c.kind = "toggle" /\ d.kind = "toggle" /\ c.name = d.name => c.on = d.on
  BY <1>1 DEF Apart
<1>6. GoesWell(c) /\ GoesWell(d)
  BY DEF ChangesHold
<1>7. Target(c) = Target(d) /\ Flushed(c) /\ Flushed(d)
  OBVIOUS
<1> HIDE DEF c, d
<1>8. c.kind = "toggle" <=> d.kind = "toggle"
  BY <1>2, <1>3, <1>7
<1>9. c.kind = "toggle"
  BY <1>2, <1>3, <1>4, <1>5, <1>7, <1>8
<1>10. c.name = d.name
  BY <1>2, <1>3, <1>7, <1>8, <1>9, KnownRows
<1>11. c.gives[1].on = c.on /\ d.gives[1].on = d.on
  BY <1>6, <1>7, <1>8, <1>9 DEF GoesWell
<1>12. Puts(c) /\ Puts(d)
  BY <1>2, <1>3, <1>8, <1>9
<1>13. c.gives[1].custom = d.gives[1].custom
  <2>1. c.gives[1].custom \in BOOLEAN /\ d.gives[1].custom \in BOOLEAN
    BY <1>2, <1>3, <1>12, RowFields
  <2> QED
    BY <1>2, <1>3, <1>8, <1>9, <2>1
<1>14. c.gives[1] = d.gives[1]
  BY <1>2, <1>3, <1>5, <1>7, <1>8, <1>9, <1>10, <1>11, <1>12, <1>13, RowFields
<1> QED
  BY <1>8, <1>9, <1>12, <1>14 DEF c, d

LEMMA TargetsApartNext ==
  (SettingTyped /\ ServerInv /\ Apart /\ ChangesHold /\ Calm =>
    \A k, o \in Call :
      Flushed(call[k]) /\ Flushed(call[o]) /\ k # o /\ Target(call[k]) = Target(call[o]) =>
        /\ Puts(call[k]) /\ Puts(call[o]) /\ call[k].gives[1] = call[o].gives[1]
        /\ call[k].kind = "toggle" /\ call[o].kind = "toggle")'
  BY TargetsApart, PTL

\* A request of the page whose write is flushed: the page and the rows agree on what
\* will be there.
LEMMA Lands ==
  ASSUME SettingInv, SettingTyped', ServerInv', NEW k \in Call,
         \A o \in Call : o # k => call'[o] = call[o],
         stored' = stored, records' = records, dialog' = dialog, error' = error,
         crossed' = crossed, stale' = stale, missed' = missed,
         call[k].at = "write", IsChange(k), call'[k].at = "open", Like(call'[k], call[k]),
         call'[k].told = call[k].told,
         \/ call'[k].id = call[k].id /\ call[k].kind # "create"
         \/ Inserts(call'[k]) /\ call'[k].id = lastId + 1,
         Calm => GoesWell(call'[k])
  PROVE  SettingInv'
<1> DEFINE d == call'[k]
           T == Target(d)
           g == d.gives[1]
<1>0. SettingTyped /\ ServerInv /\ RowsKnown /\ IdsTaken /\ RowsOnce /\ PageInv
  BY DEF SettingInv, ServerInv
<1>1. OneForm /\ NotesTrue /\ Apart /\ ChangesHold /\ ListHolds /\ RecordsHold
  BY <1>0 DEF PageInv
<1>2. /\ Flushed(d) /\ ~Flushed(call[k]) /\ d.kind \in Settings!Changes /\ d.kind # "list"
      /\ d.kind = call[k].kind /\ d.mine = call[k].mine /\ d.told = call[k].told
      /\ d.form = call[k].form
  BY DEF Flushed, IsChange, Like, Settings!Changes
<1>3. (Calm <=> Calm') /\ (Settled <=> Settled') /\ (Settled => Calm)
  <2>1. Fetching <=> Fetching'
    BY <1>2 DEF Fetching
  <2> QED
    BY <2>1 DEF Calm, Settled
<1>4. OneForm'
  BY <1>1, <1>2, FormsStay DEF WaitedForm
<1>5. NotesTrue'
  BY <1>1, <1>2, NotesStay
<1>6. lastId \in Nat /\ \A o \in Call : call[o].id # lastId + 1
  <2>1. lastId \in Nat
    BY <1>0, ControlsAssumption DEF SettingTyped
  <2>2. \A o \in Call : call[o].id # None => call[o].id <= lastId
    BY <1>0 DEF IdsTaken
  <2>3. lastId + 1 # None
    BY <2>1, ControlsAssumption
  <2> QED
    BY <2>1, <2>2, <2>3
<1>7. lastId + 1 # None
  BY <1>6, ControlsAssumption
<1>8. Apart'
  BY <1>1, <1>3, <1>6, <1>7, ApartStays
<1>9. ChangesHold'
  BY <1>1, <1>3, ChangesStay
<1>10. ListHolds'
  BY <1>1, <1>2, <1>3, ListsStay
<1>11. RecordsHold'
  <2> SUFFICES ASSUME Settled'
               PROVE  RecordsHold'
    BY DEF RecordsHold
  <2>1. Calm /\ Calm' /\ Settled
    BY <1>3
  <2>2. ~d.told /\ Awaited(d) /\ ~Awaited(call[k])
    <3>1. call[k].mine
      BY <1>1, <2>1 DEF NotesTrue, Calm
    <3>2. ~call[k].told
      BY <1>0, <3>1, OfCall DEF SettingFormed
    <3> QED
      BY <1>2, <3>2 DEF Awaited
  <2>3. \A o \in Call : o # k /\ Flushed(call[o]) /\ Target(call[o]) = T =>
          Puts(d) /\ g = call[o].gives[1]
    <3>1. \A o \in Call : o # k /\ Flushed(call'[o]) /\ Target(call'[o]) = Target(call'[k]) =>
            Puts(call'[k]) /\ call'[k].gives[1] = call'[o].gives[1]
      <4>1. \A p, o \in Call :
              Flushed(call'[p]) /\ Flushed(call'[o]) /\ p # o /\ Target(call'[p]) = Target(call'[o]) =>
                Puts(call'[p]) /\ Puts(call'[o]) /\ call'[p].gives[1] = call'[o].gives[1]
        BY <1>8, <1>9, <2>1, TargetsApartNext DEF Flushed, Target, Puts
      <4> QED
        BY <1>2, <4>1
    <3> QED
      BY <3>1
  <2>4. Puts(d) => g.id = T
    BY DEF Puts, Target
  <2>5. \A o \in Call : o # k /\ Flushed(call[o]) /\ Puts(call[o]) => Target(call[o]) = call[o].gives[1].id
    BY DEF Puts, Target
  <2>6. /\ IsInjective(records) /\ \A r, s \in ToSet(records) : r.id = s.id => r = s
        /\ \A o \in Call : Awaited(call[o]) /\ call[o].kind = "create" =>
             \A r \in ToSet(records) : r.id # call[o].id
        /\ \A o \in Call : Awaited(call[o]) /\ call[o].kind = "patch" =>
             \E r \in ToSet(records) : r.id = call[o].id
        /\ \A s \in Settings!Record : RowToBe(s) <=> RecordToBe(s)
    BY <1>1, <2>1 DEF RecordsHold
  <2>7. d.kind = "create" => \A r \in ToSet(records) : r.id # d.id
    <3>1. \A r : Known(r) => r.id <= lastId
      BY <1>0, KnownRows DEF Known, CustomOnly
    <3>2. \A r \in ToSet(records) : r.id <= lastId /\ r.id \in Int
      <4>1. ToSet(records) \subseteq Settings!Record
        BY <1>0, Entries DEF SettingTyped
      <4> QED
        BY <1>0, <3>1, <4>1, RowFields DEF RowsKnown
    <3>3. d.kind = "create" => d.id = lastId + 1
      BY <1>2
    <3> QED
      BY <1>6, <3>2, <3>3
  <2>8. ASSUME d.kind = "patch" PROVE \E r \in ToSet(records) : r.id = d.id
    <3> DEFINE c == call[k]
    <3>1. c.seen \in stored /\ c.seen.id = c.id /\ d.id = c.id /\ c.kind = "patch" /\ CustomOnly(c.id)
      <4>1. GoesWell(c) /\ SettingAsked(c) /\ c.kind = "patch"
        BY <1>0, <1>1, <1>2, <2>1, <2>8, OfCall DEF ChangesHold
      <4>2. d.id = c.id
        BY <2>8, <1>2 DEF Inserts
      <4> QED
        BY <1>0, <4>1, <4>2 DEF GoesWell, SettingAsked, Writes, RowsKnown
    <3>2. \A o \in Call : Flushed(call[o]) => Target(call[o]) # c.id
      <4> SUFFICES ASSUME NEW o \in Call, Flushed(call[o]) PROVE Target(call[o]) # c.id
        OBVIOUS
      <4>1. o # k /\ IsChange(o)
        BY <1>2 DEF IsChange, Flushed
      <4>2. /\ call[o].kind # "toggle" => Target(call[o]) = call[o].id
            /\ call[o].kind = "toggle" => ~CustomOnly(Target(call[o]))
        BY <1>0, FlushedIs
      <4>3. c.id # None /\ c.id \in Settings!Id
        BY <1>0, <3>1, OfCall, ControlsAssumption DEF SettingAsked, Settings!Id
      <4>4. c.id # call[o].id
        BY <1>1, <2>1, <4>1, <4>3 DEF Apart
      <4> QED
        BY <3>1, <4>2, <4>4
    <3>3. RowToBe(c.seen) /\ c.seen \in Settings!Record
      BY <1>0, <3>1, <3>2 DEF RowToBe, SettingTyped
    <3>4. RecordToBe(c.seen)
      BY <2>6, <3>3
    <3>5. c.seen \in ToSet(records)
      BY <3>1, <3>2, <3>4, <2>5, <1>2 DEF RecordToBe, Awaited
    <3> QED
      BY <3>1, <3>5
  <2> HIDE DEF d, T, g
  <2>9. \A s : RowToBe(s)' <=> (RowToBe(s) /\ s.id # T) \/ (Puts(d) /\ s = g)
    <3> SUFFICES ASSUME NEW s
                 PROVE  RowToBe(s)' <=> (RowToBe(s) /\ s.id # T) \/ (Puts(d) /\ s = g)
      OBVIOUS
    <3>1. RowToBe(s)' <=>
            \/ s \in stored /\ \A o \in Call : Flushed(call'[o]) => Target(call'[o]) # s.id
            \/ \E o \in Call : Flushed(call'[o]) /\ Puts(call'[o]) /\ s = call'[o].gives[1]
      BY DEF RowToBe, Flushed, Target, Puts
    <3>2. RowToBe(s)' <=>
            \/ s \in stored /\ s.id # T /\ \A o \in Call : o # k /\ Flushed(call[o]) => Target(call[o]) # s.id
            \/ \E o \in Call : o # k /\ Flushed(call[o]) /\ Puts(call[o]) /\ s = call[o].gives[1]
            \/ Puts(d) /\ s = g
      BY <3>1, <1>2 DEF d, T, g
    <3>3. RowToBe(s) <=>
            \/ s \in stored /\ \A o \in Call : o # k /\ Flushed(call[o]) => Target(call[o]) # s.id
            \/ \E o \in Call : o # k /\ Flushed(call[o]) /\ Puts(call[o]) /\ s = call[o].gives[1]
      BY <1>2 DEF RowToBe
    <3> QED
      BY <2>3, <2>4, <2>5, <3>2, <3>3
  <2>10. \A s : RecordToBe(s)' <=> (RecordToBe(s) /\ s.id # T) \/ (Puts(d) /\ s = g)
    <3> SUFFICES ASSUME NEW s
                 PROVE  RecordToBe(s)' <=> (RecordToBe(s) /\ s.id # T) \/ (Puts(d) /\ s = g)
      OBVIOUS
    <3>1. RecordToBe(s)' <=>
            \/ s \in ToSet(records) /\ \A o \in Call : Awaited(call'[o]) => Target(call'[o]) # s.id
            \/ \E o \in Call : Awaited(call'[o]) /\ Puts(call'[o]) /\ s = call'[o].gives[1]
      BY DEF RecordToBe, Awaited, Flushed, Target, Puts
    <3>2. RecordToBe(s)' <=>
            \/ s \in ToSet(records) /\ s.id # T
               /\ \A o \in Call : o # k /\ Awaited(call[o]) => Target(call[o]) # s.id
            \/ \E o \in Call : o # k /\ Awaited(call[o]) /\ Puts(call[o]) /\ s = call[o].gives[1]
            \/ Puts(d) /\ s = g
      BY <3>1, <2>2 DEF d, T, g
    <3>3. RecordToBe(s) <=>
            \/ s \in ToSet(records) /\ \A o \in Call : o # k /\ Awaited(call[o]) => Target(call[o]) # s.id
            \/ \E o \in Call : o # k /\ Awaited(call[o]) /\ Puts(call[o]) /\ s = call[o].gives[1]
      BY <2>2 DEF RecordToBe
    <3>4. \A o \in Call : Awaited(call[o]) => Flushed(call[o])
      BY DEF Awaited
    <3> QED
      BY <2>3, <2>4, <2>5, <3>2, <3>3, <3>4
  <2>11. \A o \in Call : Awaited(call'[o]) /\ call'[o].kind = "create" =>
           \A r \in ToSet(records) : r.id # call'[o].id
    BY <2>6, <2>7 DEF d
  <2>12. \A o \in Call : Awaited(call'[o]) /\ call'[o].kind = "patch" =>
           \E r \in ToSet(records) : r.id = call'[o].id
    BY <2>6, <2>8 DEF d
  <2>13. \A s \in Settings!Record : RowToBe(s)' <=> RecordToBe(s)'
    BY <2>6, <2>9, <2>10
  <2> QED
    BY <2>6, <2>11, <2>12, <2>13 DEF RecordsHold, Awaited, Flushed
<1> QED
  BY <1>4, <1>5, <1>8, <1>9, <1>10, <1>11 DEF SettingInv, PageInv

LEMMA FlushInsertKeeps ==
  ASSUME SettingInv, NEW k \in Call, Settings!FlushInsert(k)
  PROVE  SettingInv'
<1>0. SettingTyped /\ ServerInv
  BY DEF SettingInv
<1>1. /\ records' = records /\ dialog' = dialog /\ error' = error /\ changes' = changes
      /\ crossed' = crossed /\ stale' = stale /\ missed' = missed /\ call[k].at = "write"
  BY DEF Settings!FlushInsert, Settings!pageVars, Settings!noteVars
<1>2. CASE Settings!Fail(k)
  BY <1>1, <1>2, SettingFails
<1>3. CASE ~Settings!Fail(k)
  <2>1. /\ SettingTyped' /\ \A o \in Call : o # k => call'[o] = call[o]
        /\ stored' = stored /\ Like(call'[k], call[k]) /\ call'[k].at = "open"
        /\ call'[k].id = lastId + 1 /\ call'[k].told = call[k].told /\ call'[k].seen = None
        /\ call'[k].gives[1] = Inserted(call'[k])
        /\ call[k].kind \in {"create", "toggle"}
    BY <1>0, <1>3, InsertStep
  <2>2. ServerInv'
    BY <1>0, <1>3, InsertServer
  <2>3. IsChange(k) /\ Inserts(call'[k])
    BY <2>1 DEF IsChange, Settings!Changes, Inserts, Like
  <2>4. GoesWell(call'[k])
    <3>1. call'[k].kind = "toggle" => Inserted(call'[k]).on = call'[k].on
      BY DEF Inserted
    <3> QED
      BY <2>1, <3>1 DEF GoesWell, Like
  <2> QED
    BY <1>1, <2>1, <2>2, <2>3, <2>4, Lands
<1> QED
  BY <1>2, <1>3

LEMMA FlushUpdateKeeps ==
  ASSUME SettingInv, NEW k \in Call, Settings!FlushUpdate(k)
  PROVE  SettingInv'
<1>0. SettingTyped /\ ServerInv /\ RowsOnce /\ RowsKnown /\ ChangesHold
  BY DEF SettingInv, ServerInv, PageInv
<1>1. /\ records' = records /\ dialog' = dialog /\ error' = error /\ changes' = changes
      /\ crossed' = crossed /\ stale' = stale /\ missed' = missed /\ call[k].at = "write"
      /\ call[k].seen # None /\ call[k].kind # "delete"
  BY DEF Settings!FlushUpdate, Settings!pageVars, Settings!noteVars
<1>2. CASE Settings!Fail(k)
  BY <1>1, <1>2, SettingFails
<1>3. CASE ~Settings!Fail(k)
  <2> DEFINE c == call[k]
             d == call'[k]
  <2>1. /\ SettingTyped' /\ \A o \in Call : o # k => call'[o] = call[o]
        /\ stored' = stored /\ Like(d, c) /\ d.at = "open"
        /\ d.id = c.id /\ d.told = c.told /\ d.seen = c.seen
        /\ c.kind \in {"toggle", "patch"} /\ c.seen \in Settings!Record
        /\ \E r \in stored : r.id = c.seen.id /\ d.gives[1] = Settings!Patched(r, c)
    BY <1>0, <1>3, UpdateStep
  <2>2. ServerInv'
    BY <1>0, <1>3, UpdateServer
  <2>3. IsChange(k) /\ c.kind # "create"
    BY <2>1 DEF IsChange, Settings!Changes
  <2>4. ASSUME Calm PROVE GoesWell(d)
    <3>1. PICK r \in stored : r.id = c.seen.id /\ d.gives[1] = Settings!Patched(r, c)
      BY <2>1
    <3>2. c \in SettingCall /\ GoesWell(c) /\ Writes(c) /\ r \in Settings!Record
      BY <1>0, <1>1, <2>4, OfCall DEF ChangesHold, Writes, SettingTyped
    <3>3. Writes(d) /\ d.kind = c.kind /\ d.name = c.name /\ d.on = c.on /\ d.at # "done"
      BY <2>1 DEF Writes, Like
    <3>4. c.kind = "patch" => c.seen \in stored /\ r = c.seen
      BY <1>0, <3>1, <3>2 DEF GoesWell, RowsOnce
    <3>5. Settings!Patched(c.seen, c) = Settings!Patched(d.seen, d)
      BY <2>1, <3>3 DEF Settings!Patched
    <3>6. d.kind = "patch" => d.seen \in stored /\ d.gives[1] = Settings!Patched(d.seen, d)
      BY <2>1, <3>1, <3>3, <3>4, <3>5
    <3>7. c.kind = "toggle" /\ c.seen.on = c.on => r.on = c.on
      BY <1>0, <1>1, <3>1, <3>2 DEF GoesWell, RowsOnce
    <3>8. c.kind = "toggle" => c.on # None
      BY <3>2, <1>0, OfCall, ControlsAssumption DEF SettingAsked
    <3>9. Settings!Patched(r, c).on = IF c.on \notin {None, c.seen.on} THEN c.on ELSE r.on
      BY <2>1, <3>2, PatchedIs
    <3>10. d.kind = "toggle" => d.gives[1].on = d.on
      <4>1. CASE c.seen.on = c.on
        BY <3>1, <3>3, <3>7, <3>9, <4>1
      <4>2. CASE c.seen.on # c.on
        BY <3>1, <3>3, <3>8, <3>9, <4>2
      <4> QED
        BY <4>1, <4>2
    <3>11. d.kind = "toggle" /\ d.seen # None /\ Writes(d) /\ d.seen.on = d.on =>
             \E q \in stored : q.id = d.seen.id /\ q.on = d.on
      BY <2>1, <3>1, <3>3, <3>7
    <3> HIDE DEF d
    <3> QED
      BY <3>3, <3>6, <3>10, <3>11 DEF GoesWell
  <2> QED
    BY <1>1, <2>1, <2>2, <2>3, <2>4, Lands
<1> QED
  BY <1>2, <1>3

LEMMA FlushDeleteKeeps ==
  ASSUME SettingInv, NEW k \in Call, Settings!FlushDelete(k)
  PROVE  SettingInv'
<1>0. SettingTyped /\ ServerInv /\ RowsKnown /\ IdsTaken
  BY DEF SettingInv, ServerInv
<1>1. /\ records' = records /\ dialog' = dialog /\ error' = error /\ changes' = changes
      /\ crossed' = crossed /\ stale' = stale /\ missed' = missed /\ call[k].at = "write"
  BY DEF Settings!FlushDelete, Settings!pageVars, Settings!noteVars
<1>2. /\ SettingTyped' /\ \A o \in Call : o # k => call'[o] = call[o]
      /\ stored' = stored /\ lastId' = lastId
      /\ Like(call'[k], call[k]) /\ call'[k].at = "open" /\ call'[k].id = call[k].id
      /\ call'[k].gives = call[k].gives
      /\ call'[k].told = call[k].told /\ call'[k].seen = call[k].seen
      /\ call[k].kind = "delete"
  BY <1>0, DeleteStep
<1>3. IsChange(k) /\ call'[k].kind = "delete"
  BY <1>2 DEF IsChange, Settings!Changes, Like
<1>4. ~Takes(call'[k]) /\ ~OpenInsert(k) /\ ~OpenInsert(k)'
  BY <1>1, <1>2, <1>3 DEF Takes, OpenInsert, Inserts
<1>5. /\ call'[k].id # None => call'[k].id <= lastId
      /\ \A r \in ToSet(records') : Known(r)
      /\ \A r \in ToSet(call'[k].gives) : Known(r)
      /\ dialog' \in Settings!Id => CustomOnly(dialog')
      /\ CustomOnly(call'[k].id)
  BY <1>0, <1>1, <1>2 DEF RowsKnown, IdsTaken
<1>6. ServerInv'
  BY <1>0, <1>2, <1>3, <1>4, <1>5, ServerStays
<1>7. GoesWell(call'[k])
  BY <1>2, <1>3 DEF GoesWell
<1> QED
  BY <1>1, <1>2, <1>3, <1>6, <1>7, Lands

\* What a commit leaves: the row is gone, or is the one the page is given.
LEMMA CommitIs ==
  ASSUME SettingInv, Calm, NEW k \in Call, Settings!Commit(k)
  PROVE  \A s : s \in stored' <=> \/ s \in stored /\ s.id # Target(call[k])
                                  \/ Puts(call[k]) /\ s = call[k].gives[1]
<1> DEFINE c == call[k]
           T == Target(c)
           g == c.gives[1]
<1>0. SettingTyped /\ ServerInv /\ RowsOnce /\ RowsKnown /\ IdsTaken
  BY DEF SettingInv, ServerInv
<1>1. /\ c.at = "open" /\ IsChange(k)
      /\ c.kind = "delete" => stored' = {r \in stored : r.id # c.id}
      /\ Inserts(c) => stored' = stored \cup {g}
      /\ c.kind # "delete" /\ ~Inserts(c) =>
           /\ c.seen # None /\ c.kind \in {"toggle", "patch"}
           /\ stored' = {IF r.id = c.seen.id THEN Settings!Patched(r, c) ELSE r : r \in stored}
  BY <1>0, CommitStep
<1>2. Flushed(c)
  BY <1>1 DEF Flushed, IsChange
<1>3. /\ Puts(c) => g \in Settings!Record /\ T = g.id
      /\ c.kind # "toggle" => T = c.id
      /\ c.kind = "toggle" => g.name = c.name /\ ~g.custom
      /\ c.kind # "delete" <=> Puts(c)
  BY <1>0, <1>2, FlushedIs
<1>4. c \in SettingCall /\ SettingAsked(c) /\ GoesWell(c) /\ Writes(c)
  BY <1>0, <1>1, OfCall DEF SettingInv, PageInv, ChangesHold, Writes
<1>5. CASE c.kind = "delete"
  BY <1>1, <1>3, <1>5
<1>6. CASE Inserts(c)
  <2>1. g.id = c.id
    <3>1. g = Inserted(c)
      BY <1>0, <1>1, <1>6, OpenInserts DEF OpenInsert
    <3>2. Inserted(c).id = c.id
      BY DEF Inserted
    <3> QED
      BY <3>1, <3>2
  <2>2. \A r \in stored : r.id # c.id
    BY <1>0, <1>1, <1>6 DEF IdsTaken, OpenInsert
  <2>3. Puts(c)
    BY <1>6 DEF Inserts, Puts
  <2>4. stored' = stored \cup {g} /\ T = g.id
    BY <1>1, <1>3, <1>6, <2>3
  <2> HIDE DEF c, T, g
  <2>5. \A s : s \in stored' <=> (s \in stored /\ s.id # T) \/ s = g
    BY <2>1, <2>2, <2>4
  <2> QED
    BY <2>3, <2>5 DEF c, T, g
<1>7. CASE c.kind # "delete" /\ ~Inserts(c)
  <2>1. c.seen \in Settings!Record /\ c.seen # None /\ c.kind \in {"toggle", "patch"}
    BY <1>1, <1>4, <1>7, SettingFields
  <2>2. PICK r \in stored : r.id = c.seen.id
    <3>1. CASE c.kind = "patch"
      BY <1>4, <3>1 DEF GoesWell
    <3>2. CASE c.kind = "toggle"
      BY <1>0, <2>1, <3>2 DEF RowsKnown, Switch
    <3> QED
      BY <2>1, <3>1, <3>2
  <2>3. T = c.seen.id
    BY <1>2, <1>3, <1>4, <1>7, <2>1 DEF SettingAsked, Inserts, Writes
  <2>4. r \in Settings!Record
    BY <1>0 DEF SettingTyped
  <2>5. Settings!Patched(r, c) = g
    <3>1. CASE c.kind = "patch"
      BY <1>0, <1>1, <1>4, <2>2, <3>1 DEF GoesWell, RowsOnce
    <3>2. CASE c.kind = "toggle"
      <4>1. ~r.custom /\ r.name = c.name /\ c.seen.name = c.name
        BY <1>0, <1>1, <1>7, <2>1, <2>2, <3>2, RowSeen
      <4>2. /\ Settings!Patched(r, c) \in Settings!Record /\ Settings!Patched(r, c).id = r.id
            /\ Settings!Patched(r, c).custom = r.custom
            /\ Settings!Patched(r, c).name =
                 IF c.name \notin {None, c.seen.name} THEN c.name ELSE r.name
            /\ Settings!Patched(r, c).on = IF c.on \notin {None, c.seen.on} THEN c.on ELSE r.on
        BY <1>4, <2>1, <2>4, PatchedIs
      <4>3. c.on \in BOOLEAN /\ c.on # None
        BY <1>4, <3>2, ControlsAssumption DEF SettingAsked
      <4>4. g.on = c.on
        BY <1>2, <1>4, <3>2 DEF GoesWell
      <4>5. c.seen.on = c.on => r.on = c.on
        BY <1>0, <1>4, <2>1, <2>2, <3>2 DEF GoesWell, RowsOnce
      <4> HIDE DEF c
      <4>6. Settings!Patched(r, c).on = g.on
        BY <4>2, <4>3, <4>4, <4>5
      <4>7. Settings!Patched(r, c).name = g.name
        BY <1>3, <3>2, <4>1, <4>2
      <4>8. Settings!Patched(r, c).id = g.id
        BY <1>3, <2>2, <2>3, <3>2, <4>2
      <4>9. Settings!Patched(r, c).custom = g.custom
        <5>1. r.custom \in BOOLEAN /\ g.custom \in BOOLEAN
          BY <1>3, <2>4, <3>2, RowFields
        <5> QED
          BY <1>3, <3>2, <4>1, <4>2, <5>1
      <4>10. g \in Settings!Record
        BY <1>3, <3>2
      <4> QED
        BY <4>2, <4>6, <4>7, <4>8, <4>9, <4>10, RowFields
    <3> QED
      BY <2>1, <3>1, <3>2
  <2>6. \A q \in stored : q.id = c.seen.id => q = r
    BY <1>0, <2>2 DEF RowsOnce
  <2>7. Puts(c)
    BY <1>3, <1>7
  <2>8. stored' = {IF q.id = c.seen.id THEN Settings!Patched(q, c) ELSE q : q \in stored}
    BY <1>1, <1>7
  <2> HIDE DEF c, T, g
  <2>9. ASSUME NEW s
        PROVE  s \in stored' <=> s = g \/ (s \in stored /\ s.id # T)
    <3>1. ASSUME s \in stored' PROVE s = g \/ (s \in stored /\ s.id # T)
      <4>1. PICK q \in stored : s = IF q.id = c.seen.id THEN Settings!Patched(q, c) ELSE q
        BY <2>8, <3>1
      <4> QED
        BY <2>3, <2>5, <2>6, <4>1
    <3>2. g \in stored'
      BY <2>2, <2>5, <2>8
    <3>3. s \in stored /\ s.id # T => s \in stored'
      BY <2>3, <2>8
    <3> QED
      BY <3>1, <3>2, <3>3
  <2> QED
    BY <2>7, <2>9 DEF c, T, g
<1> QED
  BY <1>5, <1>6, <1>7

\* Of what a commit changes, another request finds what it needs.
LEMMA CommitSpares ==
  ASSUME SettingInv, Calm, NEW k \in Call, Settings!Commit(k), NEW o \in Call, o # k
  PROVE  GoesWell(call[o])'
<1> DEFINE c == call[k]
           d == call[o]
           T == Target(c)
           g == c.gives[1]
<1>0. SettingTyped /\ ServerInv /\ RowsKnown /\ Apart /\ ChangesHold
  BY DEF SettingInv, PageInv, ServerInv
<1>1. c.at = "open" /\ IsChange(k) /\ call'[o] = d
  BY <1>0, CommitStep
<1>2. Flushed(c)
  BY <1>1 DEF Flushed, IsChange
<1>3. /\ Puts(c) => g \in Settings!Record /\ T = g.id
      /\ c.kind # "toggle" => T = c.id
      /\ c.kind = "toggle" => SwitchOf(T, c.name) /\ ~CustomOnly(T)
      /\ c.kind # "delete" <=> Puts(c)
  BY <1>0, <1>2, FlushedIs
<1>4. \A s : s \in stored' <=> \/ s \in stored /\ s.id # T
                               \/ Puts(c) /\ s = g
  BY CommitIs
<1>5. GoesWell(c) /\ GoesWell(d) /\ SettingAsked(d)
  BY <1>0, OfCall DEF ChangesHold
\* A command of the user, to be edited or deleted, is not the row of the commit.
<1>6. d.kind \in {"patch", "delete"} => d.id # T
  <2>1. d.kind \in {"patch", "delete"} =>
          CustomOnly(d.id) /\ d.id \in Settings!Id /\ d.id # None /\ IsChange(o)
    BY <1>0, <1>5, ControlsAssumption
       DEF RowsKnown, SettingAsked, Settings!Id, IsChange, Settings!Changes
  <2>2. d.kind \in {"patch", "delete"} => d.id # c.id
    BY <1>0, <1>1, <2>1 DEF Apart
  <2> QED
    BY <1>3, <2>1, <2>2
<1>7. ASSUME Flushed(d) PROVE Target(d) = T => Puts(c) /\ Puts(d) /\ g = d.gives[1]
  BY <1>0, <1>2, <1>7, TargetsApart
<1>8. Flushed(d) /\ Puts(d) => Target(d) = d.gives[1].id
  BY <1>0, FlushedIs
<1>9. d.kind = "patch" /\ Writes(d) => d.seen \in stored'
  <2>1. d.kind = "patch" /\ Writes(d) => d.seen \in stored /\ d.seen.id = d.id
    BY <1>5 DEF GoesWell, SettingAsked
  <2> QED
    BY <1>4, <1>6, <2>1
<1>10. ASSUME d.kind = "toggle", d.seen # None, Writes(d), d.seen.on = d.on
       PROVE  \E r \in stored' : r.id = d.seen.id /\ r.on = d.on
  <2>1. PICK r \in stored : r.id = d.seen.id /\ r.on = d.on
    BY <1>5, <1>10 DEF GoesWell
  <2>2. CASE r.id # T
    BY <1>4, <2>1, <2>2
  <2>3. CASE r.id = T
    <3>1. Switch(T, d.seen.name) /\ d.seen.name = d.name
      BY <1>0, <1>5, <1>10, <2>1, <2>3 DEF RowsKnown, SettingAsked
    <3>2. SwitchOf(T, d.name)
      BY <3>1 DEF SwitchOf
    <3>3. ~CustomOnly(T)
      BY <1>0, <3>2, KnownRows
    <3>4. c.kind = "toggle"
      <4>1. c.kind # "toggle" => CustomOnly(c.id) /\ T = c.id
        BY <1>0, <1>2, FlushedIs
      <4> QED
        BY <3>3, <4>1
    <3>5. c.name = d.name
      BY <1>0, <1>3, <3>2, <3>4, KnownRows
    <3>6. c.on = d.on
      <4>1. IsChange(o)
        BY <1>10 DEF IsChange, Settings!Changes
      <4> QED
        BY <1>0, <1>1, <1>10, <3>4, <3>5, <4>1 DEF Apart
    <3>7. g.on = c.on
      BY <1>2, <1>5, <3>4 DEF GoesWell
    <3>8. Puts(c) /\ g \in stored' /\ g.id = T
      BY <1>3, <1>4, <3>4
    <3> QED
      BY <2>1, <2>3, <3>6, <3>7, <3>8
  <2> QED
    BY <2>2, <2>3
<1>11. ASSUME Flushed(d), d.at = "done"
       PROVE  IF d.kind = "delete" THEN \A r \in stored' : r.id # d.id ELSE d.gives[1] \in stored'
  <2>1. IsStored(d)
    BY <1>5, <1>11 DEF GoesWell
  <2>2. CASE d.kind = "delete"
    <3>1. \A r \in stored : r.id # d.id
      BY <2>1, <2>2 DEF IsStored
    <3>2. Puts(c) => g.id # d.id
      BY <1>3, <1>6, <2>2
    <3> HIDE DEF c, T, g
    <3> QED
      BY <1>4, <2>2, <3>1, <3>2
  <2>3. CASE d.kind # "delete"
    <3>1. d.gives[1] \in stored
      BY <2>1, <2>3 DEF IsStored
    <3>2. Puts(d)
      BY <1>0, <1>11, <2>3, FlushedIs
    <3> HIDE DEF T, g
    <3> QED
      BY <1>4, <1>7, <1>8, <1>11, <2>3, <3>1, <3>2
  <2> QED
    BY <2>2, <2>3
<1>12. /\ d.kind = "patch" /\ d.at = "open" => d.gives[1] = Settings!Patched(d.seen, d)
       /\ d.kind = "toggle" /\ Flushed(d) => d.gives[1].on = d.on
  BY <1>5 DEF GoesWell
<1>13. call'[o] = d
  BY <1>1
<1>14. Settings!Patched(d.seen, d) = Settings!Patched(call[o].seen, call[o])'
  BY <1>13 DEF Settings!Patched
<1> HIDE DEF d
<1> QED
  BY <1>9, <1>10, <1>11, <1>12, <1>13, <1>14 DEF GoesWell, Writes, Flushed, IsStored

LEMMA SettingCommitKeeps ==
  ASSUME SettingInv, NEW k \in Call, Settings!Commit(k)
  PROVE  SettingInv'
<1> DEFINE c == call[k]
           T == Target(c)
           g == c.gives[1]
<1>0. /\ SettingTyped /\ ServerInv /\ OneForm /\ NotesTrue /\ Apart /\ ChangesHold
      /\ ListHolds /\ RecordsHold
  BY DEF SettingInv, PageInv
<1>1. /\ SettingTyped' /\ \A o \in Call : o # k => call'[o] = call[o]
      /\ c.at = "open" /\ IsChange(k)
      /\ c.told => call'[k] = Settings!Idle
      /\ ~c.told =>
           /\ Like(call'[k], c) /\ call'[k].at = "done" /\ call'[k].id = c.id
           /\ call'[k].gives = c.gives
           /\ call'[k].told = c.told /\ call'[k].seen = c.seen
  BY <1>0, CommitStep
<1>2. ServerInv'
  BY <1>0, CommitServer
<1>3. /\ records' = records /\ dialog' = dialog /\ error' = error
      /\ crossed' = crossed /\ stale' = stale /\ missed' = missed
  BY DEF Settings!Commit, Settings!pageVars, Settings!noteVars
<1>4. Flushed(c) /\ c.kind \in Settings!Changes /\ c.kind # "list"
  BY <1>1 DEF Flushed, IsChange, Settings!Changes
<1>5. c.told => call'[k].kind = "none" /\ ~call'[k].form /\ ~Flushed(call'[k]) /\ ~IsChange(k)'
                /\ ~Awaited(call'[k])
  BY <1>1, IdleSetting DEF Flushed, Settings!Changes, IsChange, Awaited
<1>6. ~c.told => /\ Flushed(call'[k]) /\ Awaited(c) /\ Awaited(call'[k])
                 /\ call'[k].kind = c.kind /\ call'[k].mine = c.mine /\ call'[k].form = c.form
  BY <1>1, <1>4 DEF Flushed, Awaited, Like
<1>7. OneForm'
  <2>1. WaitedForm(call'[k]) => WaitedForm(call[k])
    BY <1>1, <1>5, <1>6 DEF WaitedForm
  <2> QED
    BY <1>0, <1>1, <1>3, <2>1, FormsStay
<1>8. NotesTrue'
  <2>1. \/ call'[k].kind = "none"
        \/ call'[k].kind = call[k].kind /\ call'[k].mine = call[k].mine
    BY <1>5, <1>6
  <2> QED
    BY <1>0, <1>1, <1>3, <2>1, NotesStay
<1>9. Apart'
  BY <1>0, <1>1, <1>3, <1>5, ApartStays DEF Calm
<1>10. ListHolds'
  BY <1>0, <1>1, <1>3, <1>4, <1>5, <1>6, ListsStay DEF Calm
<1>11. ChangesHold'
  <2> SUFFICES ASSUME Calm, NEW o \in Call PROVE GoesWell(call[o])'
    BY <1>3 DEF ChangesHold, Calm
  <2>1. CASE o # k
    BY <2>1, CommitSpares
  <2>2. CASE o = k
    <3>1. CASE c.told
      BY <1>5, <2>2, <3>1 DEF GoesWell, Writes, Flushed
    <3>2. CASE ~c.told
      <4>1. \A s : s \in stored' <=> \/ s \in stored /\ s.id # Target(c)
                                     \/ Puts(c) /\ s = c.gives[1]
        BY CommitIs
      <4>2. GoesWell(c) /\ (c.kind # "delete" <=> Puts(c)) /\ (c.kind # "toggle" => T = c.id)
        BY <1>0, <1>4, FlushedIs DEF ChangesHold
      <4>3. c.kind = "delete" => \A r \in stored' : r.id # c.id
        BY <4>1, <4>2
      <4>4. c.kind # "delete" => c.gives[1] \in stored'
        BY <4>1, <4>2
      <4>5. c.kind = "toggle" => c.gives[1].on = c.on
        BY <1>4, <4>2 DEF GoesWell
      <4> HIDE DEF c
      <4> QED
        BY <1>1, <2>2, <3>2, <4>3, <4>4, <4>5 DEF GoesWell, Writes, IsStored, Like
    <3> QED
      BY <3>1, <3>2
  <2> QED
    BY <2>1, <2>2
<1>12. RecordsHold'
  <2> SUFFICES ASSUME Settled' PROVE RecordsHold'
    BY DEF RecordsHold
  <2>1. Settled /\ Calm
    <3>1. Fetching <=> Fetching'
      BY <1>1, <1>4, <1>5, <1>6 DEF Fetching
    <3> QED
      BY <1>3, <3>1 DEF Settled, Calm
  <2>2. /\ IsInjective(records) /\ \A r, s \in ToSet(records) : r.id = s.id => r = s
        /\ \A o \in Call : Awaited(call[o]) /\ call[o].kind = "create" =>
             \A r \in ToSet(records) : r.id # call[o].id
        /\ \A o \in Call : Awaited(call[o]) /\ call[o].kind = "patch" =>
             \E r \in ToSet(records) : r.id = call[o].id
        /\ \A s \in Settings!Record : RowToBe(s) <=> RecordToBe(s)
    BY <1>0, <2>1 DEF RecordsHold
  <2>3. \A s : s \in stored' <=> \/ s \in stored /\ s.id # T
                                 \/ Puts(c) /\ s = g
    BY <2>1, CommitIs
  <2>4. \A o \in Call : /\ Awaited(call'[o]) <=> Awaited(call[o])
                        /\ Awaited(call[o]) =>
                             /\ call'[o].kind = call[o].kind /\ call'[o].id = call[o].id
                             /\ call'[o].gives = call[o].gives
    <3>1. c.told => ~Awaited(c)
      BY DEF Awaited
    <3> QED
      BY <1>1, <1>5, <1>6, <3>1
  <2>5. \A o \in Call : Awaited(call[o]) =>
          (Target(call'[o]) = Target(call[o]) /\ (Puts(call'[o]) <=> Puts(call[o])))
    BY <2>4 DEF Target, Puts
  <2>6. ASSUME NEW s
        PROVE  RecordToBe(s)' <=> RecordToBe(s)
    <3>1. RecordToBe(s)' <=>
            \/ s \in ToSet(records) /\ \A o \in Call : Awaited(call'[o]) => Target(call'[o]) # s.id
            \/ \E o \in Call : Awaited(call'[o]) /\ Puts(call'[o]) /\ s = call'[o].gives[1]
      BY <1>3 DEF RecordToBe, Awaited, Flushed, Target, Puts
    <3> QED
      BY <2>4, <2>5, <3>1 DEF RecordToBe
  <2>7. ASSUME NEW s
        PROVE  RowToBe(s)' <=> RowToBe(s)
    <3>1. RowToBe(s)' <=>
            \/ s \in stored' /\ \A o \in Call : Flushed(call'[o]) => Target(call'[o]) # s.id
            \/ \E o \in Call : Flushed(call'[o]) /\ Puts(call'[o]) /\ s = call'[o].gives[1]
      BY DEF RowToBe, Flushed, Target, Puts
    <3>2. \A o \in Call : o # k /\ Flushed(call[o]) /\ Target(call[o]) = T =>
            Puts(c) /\ Puts(call[o]) /\ g = call[o].gives[1]
      BY <1>0, <1>4, <2>1, TargetsApart
    <3>3. \A o \in Call : o # k /\ Flushed(call[o]) /\ Puts(call[o]) => Target(call[o]) = call[o].gives[1].id
      BY DEF Puts, Target
    <3>4. Puts(c) => g.id = T
      BY DEF Puts, Target
    <3>5. RowToBe(s) <=>
            \/ /\ s \in stored /\ s.id # T
               /\ \A o \in Call : o # k /\ Flushed(call[o]) => Target(call[o]) # s.id
            \/ \E o \in Call : o # k /\ Flushed(call[o]) /\ Puts(call[o]) /\ s = call[o].gives[1]
            \/ Puts(c) /\ s = g
      BY <1>4 DEF RowToBe
    <3>6. CASE c.told
      <4>1. RowToBe(s)' <=>
              \/ /\ s \in stored'
                 /\ \A o \in Call : o # k /\ Flushed(call[o]) => Target(call[o]) # s.id
              \/ \E o \in Call : o # k /\ Flushed(call[o]) /\ Puts(call[o]) /\ s = call[o].gives[1]
        BY <1>1, <1>5, <3>1, <3>6
      <4> HIDE DEF c, T, g
      <4> QED
        BY <2>3, <3>2, <3>3, <3>4, <3>5, <4>1
    <3>7. CASE ~c.told
      <4>1. /\ Flushed(call'[k]) /\ Target(call'[k]) = T /\ (Puts(call'[k]) <=> Puts(c))
            /\ call'[k].gives[1] = g
        BY <1>1, <1>6, <3>7, <2>5
      <4>2. RowToBe(s)' <=>
              \/ /\ s \in stored' /\ s.id # T
                 /\ \A o \in Call : o # k /\ Flushed(call[o]) => Target(call[o]) # s.id
              \/ \E o \in Call : o # k /\ Flushed(call[o]) /\ Puts(call[o]) /\ s = call[o].gives[1]
              \/ Puts(c) /\ s = g
        BY <1>1, <3>1, <4>1
      <4> HIDE DEF c, T, g
      <4> QED
        BY <2>3, <3>4, <3>5, <4>2
    <3> QED
      BY <3>6, <3>7
  <2>8. \A o \in Call : Awaited(call'[o]) /\ call'[o].kind = "create" =>
          \A r \in ToSet(records) : r.id # call'[o].id
    BY <2>2, <2>4
  <2>9. \A o \in Call : Awaited(call'[o]) /\ call'[o].kind = "patch" =>
          \E r \in ToSet(records) : r.id = call'[o].id
    BY <2>2, <2>4
  <2>10. \A s \in Settings!Record : RowToBe(s)' <=> RecordToBe(s)'
    BY <2>2, <2>6, <2>7
  <2> QED
    BY <1>3, <2>2, <2>8, <2>9, <2>10 DEF RecordsHold, Awaited, Flushed
<1> QED
  BY <1>1, <1>2, <1>7, <1>8, <1>9, <1>10, <1>11, <1>12 DEF SettingInv, PageInv

LEMMA ServeSettings ==
  ASSUME SettingInv, NEW k \in Call, Settings!ServeList(k)
  PROVE  SettingInv'
<1>0. /\ SettingTyped /\ ServerInv /\ OneForm /\ NotesTrue /\ RowsKnown /\ IdsTaken
  BY DEF SettingInv, PageInv, ServerInv
<1>1. /\ SettingTyped' /\ \A o \in Call : o # k => call'[o] = call[o]
      /\ stored' = stored /\ lastId' = lastId
      /\ Like(call'[k], call[k]) /\ call'[k].at = "done" /\ call'[k].id = call[k].id
      /\ call'[k].told = call[k].told /\ call'[k].seen = call[k].seen
      /\ ToSet(call'[k].gives) = stored /\ IsInjective(call'[k].gives)
      /\ call[k].at = "sent" /\ call[k].kind = "list"
  BY <1>0, ListStep
<1>2. /\ records' = records /\ dialog' = dialog /\ error' = error
      /\ crossed' = crossed /\ missed' = missed
      /\ stale' = (\E o \in Call : IsChange(o) /\ ~call[o].mine)
  BY DEF Settings!ServeList, Settings!pageVars, Settings!Under, IsChange
<1>3. /\ call'[k].kind = "list" /\ call'[k].mine = call[k].mine /\ call'[k].form = call[k].form
      /\ ~IsChange(k) /\ ~IsChange(k)' /\ ~Flushed(call[k]) /\ ~Flushed(call'[k])
      /\ ~OpenInsert(k) /\ ~OpenInsert(k)' /\ ~Takes(call'[k])
  BY <1>1 DEF Like, IsChange, Settings!Changes, Flushed, OpenInsert, Takes
<1>4. ServerInv'
  <2>1. /\ call'[k].id # None => call'[k].id <= lastId
        /\ \A r \in ToSet(records') : Known(r)
        /\ \A r \in ToSet(call'[k].gives) : Known(r)
        /\ dialog' \in Settings!Id => CustomOnly(dialog')
    BY <1>0, <1>1, <1>2, KnownRows DEF RowsKnown, IdsTaken
  <2> QED
    BY <1>0, <1>1, <1>2, <1>3, <2>1, ServerStays
<1>5. OneForm'
  BY <1>0, <1>1, <1>2, <1>3, FormsStay DEF WaitedForm
<1>6. NotesTrue'
  <2>1. Fetching /\ Fetching'
    BY <1>1, <1>3 DEF Fetching
  <2>2. \A o \in Call : /\ IsChange(o)' <=> IsChange(o)
                        /\ call'[o].kind = call[o].kind /\ call'[o].mine = call[o].mine
    BY <1>1, <1>3 DEF IsChange
  <2>3. error' => ~Fetching'
    BY <1>0, <1>2, <2>1 DEF NotesTrue
  <2>4. ~stale' => \A o \in Call : IsChange(o)' => call'[o].mine
    BY <1>2, <2>2
  <2>5. ~crossed' => \A o \in Call : IsChange(o)' => ~call'[o].mine
    BY <1>0, <1>2, <2>1, <2>2 DEF NotesTrue
  <2>6. \A p, o \in Call : call'[p].kind = "list" /\ call'[o].kind = "list" => p = o
    BY <1>0, <2>2 DEF NotesTrue
  <2> QED
    BY <2>3, <2>4, <2>5, <2>6 DEF NotesTrue, IsChange
<1>7. Calm' => \A o \in Call : ~IsChange(o)'
  <2>1. Fetching'
    BY <1>3 DEF Fetching
  <2> QED
    BY <1>6, <2>1 DEF NotesTrue, Calm
<1>8. Apart'
  BY <1>7 DEF Apart
<1>9. ChangesHold'
  BY <1>7 DEF ChangesHold, GoesWell, IsChange, Flushed, Settings!Changes
<1>10. ListHolds'
  <2>1. \A o \in Call : call'[o].kind = "list" => o = k
    BY <1>3, <1>6 DEF NotesTrue
  <2> QED
    BY <1>1, <2>1 DEF ListHolds
<1>11. RecordsHold'
  BY <1>3 DEF RecordsHold, Settled, Fetching
<1> QED
  BY <1>1, <1>4, <1>5, <1>6, <1>8, <1>9, <1>10, <1>11 DEF SettingInv, PageInv

\* A request that is new.
LEMMA AskServer ==
  ASSUME SettingInv, NEW k \in Call, call[k].at = "free", NEW d \in SettingCall,
         call' = [call EXCEPT ![k] = d], stored' = stored, lastId' = lastId,
         records' = records, dialog' = dialog, changes' \in 0 .. MaxChanges,
         error' \in BOOLEAN, crossed' \in BOOLEAN, missed' \in BOOLEAN, stale' \in BOOLEAN,
         d.at = "sent", d.kind # "none", d.gives = <<>>, d.seen = None,
         SettingFormed(d), SettingAsked(d), d.id # None => d.id <= lastId,
         d.kind \in {"patch", "delete"} => CustomOnly(d.id),
         WaitedForm(d) => dialog # None /\ \A o \in Call : ~WaitedForm(call[o])
  PROVE  /\ SettingTyped' /\ ServerInv' /\ OneForm'
         /\ call'[k] = d /\ (\A o \in Call : o # k => call'[o] = call[o])
         /\ call[k] = Settings!Idle /\ call[k].kind = "none" /\ ~Flushed(call[k]) /\ ~Flushed(d)
<1>0. SettingTyped /\ ServerInv /\ OneForm /\ RowsKnown /\ IdsTaken
  BY DEF SettingInv, PageInv, ServerInv
<1>1. SettingTyped' /\ call'[k] = d /\ (\A o \in Call : o # k => call'[o] = call[o])
  <2>1. /\ stored' \subseteq Settings!Record /\ IsFiniteSet(stored') /\ lastId' \in 0 .. MaxIds
        /\ records' \in Seq(Settings!Record) /\ dialog' \in Settings!Id \cup {None, New}
    BY <1>0 DEF SettingTyped
  <2> QED
    BY <1>0, <2>1, SettingTypedBecomes
<1>2. call[k] = Settings!Idle
  BY <1>0, OfCall DEF SettingFormed
<1>3. /\ ~OpenInsert(k) /\ ~OpenInsert(k)' /\ ~Takes(call'[k])
      /\ ~Flushed(call[k]) /\ ~Flushed(d) /\ call[k].kind = "none"
  BY <1>1, <1>2, IdleSetting DEF OpenInsert, Takes, Flushed
<1>4. ServerInv'
  <2>1. /\ call'[k].id # None => call'[k].id <= lastId
        /\ \A r \in ToSet(records') : Known(r)
        /\ \A r \in ToSet(call'[k].gives) : Known(r)
        /\ dialog' \in Settings!Id => CustomOnly(dialog')
    BY <1>0, <1>1, NoEntries DEF RowsKnown, IdsTaken
  <2> QED
    BY <1>0, <1>1, <1>3, <2>1, ServerStays
<1>5. OneForm'
  <2>1. \A o \in Call : WaitedForm(call'[o]) =>
          dialog' # None /\ \A p \in Call : WaitedForm(call'[p]) => p = o
    BY <1>0, <1>1 DEF OneForm
  <2> QED
    BY <2>1 DEF OneForm, WaitedForm
<1> QED
  BY <1>1, <1>2, <1>3, <1>4, <1>5

\* A change of the page.
LEMMA PageAsks ==
  ASSUME SettingInv, NEW k \in Call, NEW q \in SettingCall, Settings!Change(k, q),
         UNCHANGED Settings!pageVars,
         q.kind \in Settings!Changes, ~q.told, q.gives = <<>>, q.seen = None,
         q.kind = "create" => q.name \in SettingNames,
         q.kind = "toggle" => q.name \in ToSet(SettingBuiltins) /\ q.on \in BOOLEAN,
         q.kind = "delete" => q.name = None,
         q.id # None => q.id <= lastId,
         q.kind \in {"patch", "delete"} => q.id \in Settings!Id /\ CustomOnly(q.id),
         q.form => dialog # None /\ ~Settings!Submitting
  PROVE  SettingInv'
<1> DEFINE b == [q EXCEPT !.mine = TRUE]
           d == [b EXCEPT !.at = "sent"]
<1>0. /\ SettingTyped /\ NotesTrue /\ Apart /\ ChangesHold /\ ListHolds /\ RecordsHold
  BY DEF SettingInv, PageInv
<1>1. /\ call[k].at = "free" /\ call' = [call EXCEPT ![k] = d]
      /\ stored' = stored /\ lastId' = lastId
      /\ records' = records /\ dialog' = dialog /\ error' = error
      /\ missed' = missed /\ stale' = stale
      /\ crossed' = (crossed \/ Settings!Crosses(q))
      /\ changes < MaxChanges /\ changes' = changes + 1
  BY DEF Settings!Change, Settings!Ask, Settings!serverVars, Settings!pageVars
<1>2. /\ b \in SettingCall /\ b.kind = q.kind /\ b.mine /\ b.name = q.name /\ b.on = q.on
      /\ b.form = q.form /\ b.id = q.id /\ b.seen = q.seen /\ b.gives = q.gives /\ b.told = q.told
  BY DEF SettingCall
<1> HIDE DEF b
<1>3. /\ d \in SettingCall /\ Like(d, b) /\ d.at = "sent" /\ d.id = b.id /\ d.seen = b.seen
      /\ d.gives = b.gives /\ d.told = b.told
  BY <1>2, SettingAt
<1> HIDE DEF d
<1>4. /\ d.kind = q.kind /\ d.mine /\ d.name = q.name /\ d.on = q.on /\ d.form = q.form
      /\ d.id = q.id /\ d.seen = None /\ d.gives = <<>> /\ ~d.told /\ d.kind # "none"
      /\ d.kind # "list"
  BY <1>2, <1>3 DEF Like, Settings!Changes
<1>5. SettingFormed(d)
  BY <1>3, <1>4, IdleSetting DEF SettingFormed
<1>6. SettingAsked(d)
  BY <1>3, <1>4 DEF SettingAsked, Writes, Flushed
<1>7. changes' \in 0 .. MaxChanges
  BY <1>0, <1>1, ControlsAssumption DEF SettingTyped
<1>8. error' \in BOOLEAN /\ crossed' \in BOOLEAN /\ missed' \in BOOLEAN /\ stale' \in BOOLEAN
  <2>1. Settings!Crosses(q) \in BOOLEAN
    BY DEF Settings!Crosses
  <2> QED
    BY <1>0, <1>1, <2>1 DEF SettingTyped
<1>9. WaitedForm(d) => dialog # None /\ \A o \in Call : ~WaitedForm(call[o])
  BY <1>4 DEF WaitedForm, Settings!Submitting
<1>10. /\ SettingTyped' /\ ServerInv' /\ OneForm'
       /\ call'[k] = d /\ (\A o \in Call : o # k => call'[o] = call[o])
       /\ call[k] = Settings!Idle /\ call[k].kind = "none" /\ ~Flushed(call[k]) /\ ~Flushed(d)
  BY <1>1, <1>3, <1>4, <1>5, <1>6, <1>7, <1>8, <1>9, AskServer
<1>11. /\ ~crossed' => ~crossed /\ ~Settings!Crosses(q)
       /\ Calm' => Calm
       /\ IsChange(k)' /\ ~IsChange(k)
  BY <1>1, <1>4, <1>10 DEF Calm, IsChange, Settings!Changes
<1>12. ~crossed' =>
         /\ ~Fetching
         /\ \A o \in Call : IsChange(o) =>
              /\ q.id # None => call[o].id # q.id
              /\ q.kind = "toggle" /\ call[o].kind = "toggle" /\ q.name = call[o].name =>
                   q.on = call[o].on
  BY <1>11 DEF Settings!Crosses, Settings!Under, Fetching, IsChange
<1>13. Fetching' <=> Fetching
  BY <1>4, <1>10 DEF Fetching
<1>14. NotesTrue'
  <2>1. ~stale' => \A o \in Call : IsChange(o)' => call'[o].mine
    BY <1>0, <1>1, <1>4, <1>10 DEF NotesTrue, IsChange
  <2>2. ~crossed' /\ Fetching' => \A o \in Call : IsChange(o)' => ~call'[o].mine
    BY <1>12, <1>13
  <2>3. error' => ~Fetching'
    BY <1>0, <1>1, <1>13 DEF NotesTrue
  <2>4. \A p, o \in Call : call'[p].kind = "list" /\ call'[o].kind = "list" => p = o
    BY <1>0, <1>4, <1>10 DEF NotesTrue
  <2> QED
    BY <2>1, <2>2, <2>3, <2>4 DEF NotesTrue, IsChange
<1>15. Apart'
  <2> SUFFICES ASSUME Calm', NEW p \in Call, NEW o \in Call, IsChange(p)', IsChange(o)', p # o
               PROVE  /\ call'[p].id # None => call'[p].id # call'[o].id
                      /\ call'[p].kind = "toggle" /\ call'[o].kind = "toggle"
                           /\ call'[p].name = call'[o].name => call'[p].on = call'[o].on
    BY DEF Apart, IsChange
  <2>1. Calm /\ ~crossed'
    BY <1>11 DEF Calm
  <2>2. \A i \in Call : i # k => (IsChange(i)' <=> IsChange(i))
    BY <1>10 DEF IsChange
  <2>3. CASE p = k
    BY <1>4, <1>10, <1>12, <2>1, <2>2, <2>3
  <2>4. CASE o = k
    BY <1>4, <1>10, <1>12, <2>1, <2>2, <2>4
  <2>5. CASE p # k /\ o # k
    BY <1>0, <1>10, <2>1, <2>2, <2>5 DEF Apart
  <2> QED
    BY <2>3, <2>4, <2>5
<1>16. ListHolds'
  BY <1>0, <1>1, <1>4, <1>10, <1>11, ListsStay
<1>17. ChangesHold'
  <2>1. GoesWell(call'[k])
    BY <1>3, <1>10 DEF GoesWell, Writes, Flushed
  <2> QED
    BY <1>0, <1>1, <1>10, <1>11, <2>1, ChangesStay
<1>18. RecordsHold'
  <2>1. Settled' => Settled
    BY <1>1, <1>11, <1>13 DEF Settled
  <2> QED
    BY <1>0, <1>1, <1>10, <2>1, RecordsStay
<1> QED
  BY <1>10, <1>14, <1>15, <1>16, <1>17, <1>18 DEF SettingInv, PageInv

LEMMA SubmitsNew ==
  ASSUME SettingInv, NEW k \in Call, NEW n \in SettingNames, Settings!SubmitNew(k, n)
  PROVE  SettingInv'
<1> DEFINE q == [Settings!Idle EXCEPT !.kind = "create", !.name = n, !.form = TRUE]
<1>1. Settings!Change(k, q) /\ UNCHANGED Settings!pageVars /\ dialog # None /\ ~Settings!Submitting
  BY ControlsAssumption DEF Settings!SubmitNew
<1>2. /\ q \in SettingCall /\ q.kind = "create" /\ ~q.told /\ q.gives = <<>> /\ q.seen = None
      /\ q.name = n /\ q.id = None
  <2>1. <<>> \in Seq(Settings!Record) /\ "create" \in Settings!Kinds
    BY DEF Settings!Kinds
  <2>2. q \in SettingCall
    BY <2>1 DEF Settings!Idle, SettingCall
  <2> QED
    BY <2>2 DEF Settings!Idle
<1> HIDE DEF q
<1> QED
  BY <1>1, <1>2, PageAsks DEF Settings!Changes

LEMMA SubmitsEdit ==
  ASSUME SettingInv, NEW k \in Call, NEW n \in SettingNames, NEW on \in BOOLEAN,
         Settings!SubmitEdit(k, n, on)
  PROVE  SettingInv'
<1> DEFINE q == [Settings!Idle EXCEPT !.kind = "patch", !.id = dialog, !.name = n, !.on = on,
                                      !.form = TRUE]
<1>1. /\ Settings!Change(k, q) /\ UNCHANGED Settings!pageVars /\ dialog \notin {None, New}
      /\ ~Settings!Submitting
  BY DEF Settings!SubmitEdit
<1>2. dialog \in Settings!Id /\ CustomOnly(dialog)
  BY <1>1 DEF SettingInv, SettingTyped, ServerInv, RowsKnown
<1>3. /\ q \in SettingCall /\ q.kind = "patch" /\ ~q.told /\ q.gives = <<>> /\ q.seen = None
      /\ q.name = n /\ q.id = dialog
  <2>1. <<>> \in Seq(Settings!Record) /\ "patch" \in Settings!Kinds
    BY DEF Settings!Kinds
  <2>2. q \in SettingCall
    BY <1>2, <2>1 DEF Settings!Idle, SettingCall
  <2> QED
    BY <2>2 DEF Settings!Idle
<1> HIDE DEF q
<1>4. q.id <= lastId /\ q.id \in Settings!Id /\ CustomOnly(q.id)
  <2>1. CustomOnly(dialog) => dialog <= lastId
    BY DEF CustomOnly
  <2> QED
    BY <1>2, <1>3, <2>1
<1> QED
  BY <1>1, <1>3, <1>4, PageAsks DEF Settings!Changes

\* A command that is shown, and is the user's own.
LEMMA RecordShown ==
  ASSUME SettingInv, NEW r \in ToSet(records), r.custom
  PROVE  r \in Settings!Record /\ r.id \in Settings!Id /\ r.id <= lastId /\ CustomOnly(r.id)
<1>1. SettingTyped /\ RowsKnown
  BY DEF SettingInv, ServerInv
<1>2. r \in Settings!Record
  BY <1>1, Entries DEF SettingTyped
<1>3. CustomOnly(r.id)
  BY <1>1 DEF RowsKnown, Known
<1> QED
  BY <1>2, <1>3, RowFields DEF CustomOnly

LEMMA TogglesCustom ==
  ASSUME SettingInv, NEW k \in Call, NEW r \in ToSet(records), Settings!ToggleCustom(k, r)
  PROVE  SettingInv'
<1> DEFINE q == [Settings!Idle EXCEPT !.kind = "patch", !.id = r.id, !.on = ~r.on]
<1>1. Settings!Change(k, q) /\ UNCHANGED Settings!pageVars /\ r.custom
  BY DEF Settings!ToggleCustom
<1>2. r.id \in Settings!Id /\ r.id <= lastId /\ CustomOnly(r.id)
  BY <1>1, RecordShown
<1>3. /\ q \in SettingCall /\ q.kind = "patch" /\ ~q.told /\ q.gives = <<>> /\ q.seen = None
      /\ q.id = r.id /\ ~q.form
  <2>1. <<>> \in Seq(Settings!Record) /\ "patch" \in Settings!Kinds
    BY DEF Settings!Kinds
  <2>2. q \in SettingCall
    BY <1>2, <2>1 DEF Settings!Idle, SettingCall
  <2> QED
    BY <2>2 DEF Settings!Idle
<1> HIDE DEF q
<1>4. CustomOnly(q.id)
  BY <1>2, <1>3
<1> QED
  BY <1>1, <1>2, <1>3, <1>4, PageAsks DEF Settings!Changes

LEMMA DeletesCustom ==
  ASSUME SettingInv, NEW k \in Call, NEW r \in ToSet(records), Settings!DeleteCustom(k, r)
  PROVE  SettingInv'
<1> DEFINE q == [Settings!Idle EXCEPT !.kind = "delete", !.id = r.id]
<1>1. Settings!Change(k, q) /\ UNCHANGED Settings!pageVars /\ r.custom
  BY DEF Settings!DeleteCustom
<1>2. r.id \in Settings!Id /\ r.id <= lastId /\ CustomOnly(r.id)
  BY <1>1, RecordShown
<1>3. /\ q \in SettingCall /\ q.kind = "delete" /\ ~q.told /\ q.gives = <<>> /\ q.seen = None
      /\ q.id = r.id /\ ~q.form /\ q.name = None
  <2>1. <<>> \in Seq(Settings!Record) /\ "delete" \in Settings!Kinds
    BY DEF Settings!Kinds
  <2>2. q \in SettingCall
    BY <1>2, <2>1 DEF Settings!Idle, SettingCall
  <2> QED
    BY <2>2 DEF Settings!Idle
<1> HIDE DEF q
<1>4. CustomOnly(q.id)
  BY <1>2, <1>3
<1> QED
  BY <1>1, <1>2, <1>3, <1>4, PageAsks DEF Settings!Changes

LEMMA TogglesBuiltin ==
  ASSUME SettingInv, NEW k \in Call, NEW n \in ToSet(SettingBuiltins), Settings!ToggleBuiltin(k, n)
  PROVE  SettingInv'
<1> DEFINE on == ~Settings!IsBuiltinEnabled(n, records)
           q == [Settings!Idle EXCEPT !.kind = "toggle", !.name = n, !.on = on]
<1>1. Settings!Change(k, q) /\ UNCHANGED Settings!pageVars
  BY DEF Settings!ToggleBuiltin
<1>2. on \in BOOLEAN /\ n \in SettingNames
  BY ControlsAssumption, Entries
<1> HIDE DEF on
<1>3. /\ q \in SettingCall /\ q.kind = "toggle" /\ ~q.told /\ q.gives = <<>> /\ q.seen = None
      /\ q.id = None /\ ~q.form /\ q.name = n /\ q.on = on
  <2>1. <<>> \in Seq(Settings!Record) /\ "toggle" \in Settings!Kinds
    BY DEF Settings!Kinds
  <2>2. q \in SettingCall
    BY <1>2, <2>1 DEF Settings!Idle, SettingCall
  <2> QED
    BY <2>2 DEF Settings!Idle
<1> HIDE DEF q
<1> QED
  BY <1>1, <1>2, <1>3, PageAsks DEF Settings!Changes

\* Another tab: the settings have been told that they may not be of the rows.
LEMMA OthersAsk ==
  ASSUME SettingInv, NEW k \in Call, Settings!Others(k)
  PROVE  SettingInv'
<1>0. /\ SettingTyped /\ NotesTrue /\ ServerInv
  BY DEF SettingInv, PageInv
<1>1. PICK request \in
          [kind : {"create"}, name : SettingNames, id : {None}, on : {None}]
            \cup [kind : {"toggle"}, name : ToSet(SettingBuiltins), id : {None}, on : BOOLEAN]
            \cup [kind : {"patch"}, name : SettingNames, id : {r.id : r \in {s \in stored : s.custom}}, on : {None}]
            \cup [kind : {"delete"}, name : {None}, id : {r.id : r \in {s \in stored : s.custom}}, on : {None}] :
       Settings!Ask(k, [Settings!Idle EXCEPT !.kind = request.kind, !.name = request.name,
                          !.id = request.id, !.on = request.on, !.at = "sent", !.told = TRUE])
  BY SettingLists DEF Settings!Others
<1> DEFINE d == [Settings!Idle EXCEPT !.kind = request.kind, !.name = request.name,
                   !.id = request.id, !.on = request.on, !.at = "sent", !.told = TRUE]
<1>2. /\ call[k].at = "free" /\ call' = [call EXCEPT ![k] = d]
      /\ stored' = stored /\ lastId' = lastId
      /\ records' = records /\ dialog' = dialog /\ error' = error
      /\ missed' = missed /\ stale' = TRUE /\ crossed' = crossed
      /\ changes < MaxChanges /\ changes' = changes + 1
  BY <1>1 DEF Settings!Others, Settings!Ask, Settings!serverVars, Settings!pageVars
<1>3. ToSet(SettingBuiltins) \subseteq SettingNames
  BY ControlsAssumption, Entries
<1>4. \A r \in stored : r.custom => r.id \in Settings!Id /\ r.id <= lastId /\ CustomOnly(r.id)
  BY <1>0, RowFields, KnownRows DEF SettingTyped, Known, CustomOnly
<1>5. /\ request.kind \in Settings!Kinds \ {"list"}
      /\ request.name \in SettingNames \cup {None} /\ request.id \in Settings!Id \cup {None}
      /\ request.on \in BOOLEAN \cup {None}
      /\ request.kind = "create" => request.name \in SettingNames
      /\ request.kind = "toggle" => request.name \in ToSet(SettingBuiltins) /\ request.on \in BOOLEAN
      /\ request.kind = "delete" => request.name = None
      /\ request.kind \in {"create", "toggle"} => request.id = None
      /\ request.kind \in {"patch", "delete"} =>
           request.id \in Settings!Id /\ request.id <= lastId /\ CustomOnly(request.id)
  <2> DEFINE I == {r.id : r \in {s \in stored : s.custom}}
  <2>1. \A i \in I : i \in Settings!Id /\ i <= lastId /\ CustomOnly(i)
    BY <1>4
  <2> HIDE DEF I
  <2>2. CASE request \in [kind : {"create"}, name : SettingNames, id : {None}, on : {None}]
    BY <2>2 DEF Settings!Kinds
  <2>3. CASE request \in [kind : {"toggle"}, name : ToSet(SettingBuiltins), id : {None}, on : BOOLEAN]
    BY <1>3, <2>3 DEF Settings!Kinds
  <2>4. CASE request \in [kind : {"patch"}, name : SettingNames, id : I, on : {None}]
    BY <2>1, <2>4 DEF Settings!Kinds
  <2>5. CASE request \in [kind : {"delete"}, name : {None}, id : I, on : {None}]
    BY <2>1, <2>5 DEF Settings!Kinds
  <2> QED
    BY <1>1, <2>2, <2>3, <2>4, <2>5 DEF I
<1>6. /\ d \in SettingCall /\ d.kind = request.kind /\ d.name = request.name /\ d.id = request.id
      /\ d.on = request.on /\ d.at = "sent" /\ d.told /\ ~d.mine /\ ~d.form /\ d.seen = None
      /\ d.gives = <<>>
  <2>1. <<>> \in Seq(Settings!Record)
    OBVIOUS
  <2>2. d \in SettingCall
    BY <1>5, <2>1 DEF Settings!Idle, SettingCall
  <2> QED
    BY <2>2 DEF Settings!Idle
<1> HIDE DEF d
<1>7. d.kind # "none" /\ d.kind # "list"
  BY <1>5, <1>6 DEF Settings!Kinds
<1>8. SettingFormed(d)
  BY <1>6, <1>7, IdleSetting DEF SettingFormed
<1>9. SettingAsked(d)
  BY <1>5, <1>6 DEF SettingAsked, Writes, Flushed
<1>10. /\ changes' \in 0 .. MaxChanges
       /\ error' \in BOOLEAN /\ crossed' \in BOOLEAN /\ missed' \in BOOLEAN /\ stale' \in BOOLEAN
  BY <1>0, <1>2, ControlsAssumption DEF SettingTyped
<1>11. /\ SettingTyped' /\ ServerInv' /\ OneForm'
       /\ call'[k] = d /\ (\A o \in Call : o # k => call'[o] = call[o])
       /\ call[k].kind = "none"
  <2>1. /\ d.id # None => d.id <= lastId
        /\ d.kind \in {"patch", "delete"} => CustomOnly(d.id)
        /\ ~WaitedForm(d)
    <3>1. request.kind \in {"create", "toggle", "patch", "delete"}
      BY <1>5 DEF Settings!Kinds
    <3> QED
      BY <1>5, <1>6, <3>1 DEF WaitedForm
  <2> QED
    BY <1>2, <1>6, <1>7, <1>8, <1>9, <1>10, <2>1, AskServer
<1>12. Fetching' <=> Fetching
  BY <1>7, <1>11 DEF Fetching
<1>13. NotesTrue'
  <2>1. ~crossed' /\ Fetching' => \A o \in Call : IsChange(o)' => ~call'[o].mine
    BY <1>0, <1>2, <1>6, <1>11, <1>12 DEF NotesTrue, IsChange
  <2>2. error' => ~Fetching'
    BY <1>0, <1>2, <1>12 DEF NotesTrue
  <2>3. \A p, o \in Call : call'[p].kind = "list" /\ call'[o].kind = "list" => p = o
    BY <1>0, <1>7, <1>11 DEF NotesTrue
  <2> QED
    BY <1>2, <2>1, <2>2, <2>3 DEF NotesTrue, IsChange
<1>14. ~Calm' /\ ~Settled'
  BY <1>2 DEF Calm, Settled
<1> QED
  BY <1>11, <1>13, <1>14 DEF SettingInv, PageInv, Apart, ChangesHold, ListHolds, RecordsHold

\* The list is fetched again, after an error.
LEMMA RefreshAsks ==
  ASSUME SettingInv, NEW k \in Call, Settings!Refresh(k)
  PROVE  SettingInv'
<1> DEFINE d == [Settings!Idle EXCEPT !.kind = "list", !.mine = TRUE, !.at = "sent"]
<1>0. /\ SettingTyped /\ NotesTrue /\ ServerInv
  BY DEF SettingInv, PageInv
<1>1. /\ call[k].at = "free" /\ call' = [call EXCEPT ![k] = d]
      /\ stored' = stored /\ lastId' = lastId
      /\ records' = records /\ dialog' = dialog /\ error' = FALSE /\ error
      /\ missed' = FALSE /\ stale' = stale
      /\ crossed' = (\E o \in Call : IsChange(o)) /\ changes' = changes
  <2>1. (Settings!Under(Settings!Changes) # {}) <=> (\E o \in Call : IsChange(o))
    BY DEF Settings!Under, IsChange
  <2> QED
    BY <2>1 DEF Settings!Refresh, Settings!Ask, Settings!serverVars
<1>2. /\ d \in SettingCall /\ d.kind = "list" /\ d.mine /\ ~d.told /\ ~d.form
      /\ d.at = "sent" /\ d.seen = None /\ d.gives = <<>> /\ d.id = None
  <2>1. <<>> \in Seq(Settings!Record) /\ "list" \in Settings!Kinds
    BY DEF Settings!Kinds
  <2>2. d \in SettingCall
    BY <2>1 DEF Settings!Idle, SettingCall
  <2> QED
    BY <2>2 DEF Settings!Idle
<1> HIDE DEF d
<1>3. SettingFormed(d) /\ SettingAsked(d) /\ ~WaitedForm(d)
  BY <1>2, IdleSetting
     DEF SettingFormed, SettingAsked, WaitedForm, Puts, Writes, Flushed, Settings!Changes
<1>4. /\ changes' \in 0 .. MaxChanges
      /\ error' \in BOOLEAN /\ crossed' \in BOOLEAN /\ missed' \in BOOLEAN /\ stale' \in BOOLEAN
  BY <1>0, <1>1 DEF SettingTyped
<1>5. /\ SettingTyped' /\ ServerInv' /\ OneForm'
      /\ call'[k] = d /\ (\A o \in Call : o # k => call'[o] = call[o])
      /\ call[k].kind = "none"
  BY <1>1, <1>2, <1>3, <1>4, AskServer
<1>6. ~Fetching
  BY <1>0, <1>1 DEF NotesTrue
<1>7. \A o \in Call : IsChange(o)' <=> IsChange(o)
  BY <1>2, <1>5 DEF IsChange, Settings!Changes
<1>8. \A o \in Call : call'[o].kind = "list" => o = k
  BY <1>5, <1>6 DEF Fetching
<1>9. ~crossed' => \A o \in Call : ~IsChange(o)'
  BY <1>1, <1>7
<1>10. NotesTrue'
  <2>1. ~stale' => \A o \in Call : IsChange(o)' => call'[o].mine
    BY <1>0, <1>1, <1>5, <1>7, <1>2 DEF NotesTrue
  <2> QED
    BY <1>1, <1>8, <1>9, <2>1 DEF NotesTrue, IsChange
<1>11. Calm' => \A o \in Call : ~IsChange(o)'
  BY <1>9 DEF Calm
<1>12. Apart' /\ ChangesHold'
  BY <1>11 DEF Apart, ChangesHold, GoesWell, IsChange, Flushed, Settings!Changes
<1>13. ListHolds'
  BY <1>2, <1>5, <1>8 DEF ListHolds
<1>14. RecordsHold'
  BY <1>2, <1>5 DEF RecordsHold, Settled, Fetching
<1> QED
  BY <1>5, <1>10, <1>12, <1>13, <1>14 DEF SettingInv, PageInv

\* The dialog, which no request waits for, opens or closes.
LEMMA DialogTurns ==
  ASSUME SettingInv, dialog' \in Settings!Id \cup {None, New},
         \/ dialog' # None
         \/ \A k \in Call : ~WaitedForm(call[k]),
         dialog' \in Settings!Id => CustomOnly(dialog'),
         call' = call, stored' = stored, lastId' = lastId, records' = records, error' = error,
         changes' = changes, crossed' = crossed, missed' = missed, stale' = stale
  PROVE  SettingInv'
<1>1. SettingTyped'
  BY DEF SettingInv, SettingTyped
<1>2. ServerInv'
  <2>1. RowsOnce' /\ NamesTaken' /\ IdsTaken'
    BY DEF SettingInv, ServerInv, RowsOnce, NamesTaken, IdsTaken, OpenInsert
  <2>2. \A i : CustomOnly(i) => CustomOnly(i)'
    BY DEF CustomOnly, OpenInsert
  <2>3. \A i, n : Switch(i, n) => Switch(i, n)'
    BY DEF Switch
  <2>4. \A i, n : SwitchOf(i, n) => SwitchOf(i, n)'
    BY <2>3 DEF SwitchOf, OpenInsert
  <2>5. \A r : Known(r) => Known(r)'
    BY <2>2, <2>4 DEF Known
  <2>6. /\ \A r \in ToSet(records') : Known(r)'
        /\ \A k \in Call : \A r \in ToSet(call'[k].gives) : Known(r)'
    BY <2>5 DEF SettingInv, ServerInv, RowsKnown
  <2>7. dialog' \in Settings!Id => CustomOnly(dialog)'
    <3>1. \A i : i = dialog' /\ CustomOnly(i) => CustomOnly(i)'
      BY <2>2
    <3> QED
      BY <3>1 DEF CustomOnly, OpenInsert
  <2>8. \A k \in Call : call'[k].kind \in {"patch", "delete"} => CustomOnly(call[k].id)'
    BY DEF SettingInv, ServerInv, RowsKnown, CustomOnly, OpenInsert
  <2>9. \A k \in Call : call'[k].kind = "toggle" /\ call'[k].seen # None =>
          Switch(call[k].seen.id, call[k].seen.name)'
    BY DEF SettingInv, ServerInv, RowsKnown, Switch
  <2> QED
    BY <2>1, <2>6, <2>7, <2>8, <2>9 DEF ServerInv, RowsKnown
<1>3. OneForm'
  BY DEF SettingInv, PageInv, OneForm, WaitedForm
<1>4. NotesTrue' /\ Apart' /\ ListHolds'
  BY DEF SettingInv, PageInv, NotesTrue, Fetching, IsChange, Apart, Calm, ListHolds
<1>5. ChangesHold'
  <2>1. \A k \in Call : GoesWell(call[k])' <=> GoesWell(call[k])
    BY DEF GoesWell, Writes, Flushed, IsStored, Settings!Patched
  <2> QED
    BY <2>1 DEF SettingInv, PageInv, ChangesHold, Calm
<1>6. RecordsHold'
  <2>1. \A s : RowToBe(s)' <=> RowToBe(s)
    BY DEF RowToBe, Flushed, Target, Puts
  <2>2. \A s : RecordToBe(s)' <=> RecordToBe(s)
    BY DEF RecordToBe, Awaited, Flushed, Target, Puts
  <2>3. Settled' => Settled
    BY DEF Settled, Fetching
  <2> QED
    BY <2>1, <2>2, <2>3 DEF SettingInv, PageInv, RecordsHold, Awaited, Flushed
<1> QED
  BY <1>1, <1>2, <1>3, <1>4, <1>5, <1>6 DEF SettingInv, PageInv

LEMMA DialogOpens ==
  ASSUME SettingInv, NEW target \in {New} \cup Settings!Customs, Settings!OpenDialog(target)
  PROVE  SettingInv'
<1>1. /\ dialog' = target
      /\ call' = call /\ stored' = stored /\ lastId' = lastId /\ records' = records
      /\ error' = error /\ changes' = changes /\ crossed' = crossed /\ missed' = missed
      /\ stale' = stale
  BY DEF Settings!OpenDialog, Settings!serverVars, Settings!noteVars
<1>2. target = New \/ \E r \in ToSet(records) : r.custom /\ target = r.id
  BY SettingLists DEF Settings!Customs
<1>3. target # None /\ target \in Settings!Id \cup {New} /\ (target \in Settings!Id => CustomOnly(target))
  <2>1. CASE target = New
    BY <2>1, ControlsAssumption DEF Settings!Id
  <2>2. ASSUME NEW r \in ToSet(records), r.custom, target = r.id
        PROVE  target # None /\ target \in Settings!Id /\ CustomOnly(target)
    BY <2>2, RecordShown, ControlsAssumption DEF Settings!Id
  <2> QED
    BY <1>2, <2>1, <2>2
<1> QED
  BY <1>1, <1>3, DialogTurns

LEMMA DialogCloses ==
  ASSUME SettingInv, Settings!CloseDialog
  PROVE  SettingInv'
<1>1. /\ dialog' = None
      /\ call' = call /\ stored' = stored /\ lastId' = lastId /\ records' = records
      /\ error' = error /\ changes' = changes /\ crossed' = crossed /\ missed' = missed
      /\ stale' = stale
  BY DEF Settings!CloseDialog, Settings!serverVars, Settings!noteVars
<1>2. \A k \in Call : ~WaitedForm(call[k])
  BY DEF Settings!CloseDialog, Settings!Submitting, WaitedForm
<1>3. None \notin Settings!Id
  BY ControlsAssumption DEF Settings!Id
<1> QED
  BY <1>1, <1>2, <1>3, DialogTurns

LEMMA ToggleRecords ==
  ASSUME NEW k \in Call, Settings!ApplyToggle(k), records \in Seq(Settings!Record)
  PROVE  \/ \E i \in DOMAIN records :
              /\ records[i].name = call[k].name /\ ~records[i].custom
              /\ records' = [records EXCEPT ![i] = call[k].gives[1]]
         \/ /\ \A r \in ToSet(records) : r.name = call[k].name => r.custom
            /\ records' = Append(records, call[k].gives[1])
<1> DEFINE I == {i \in 1 .. Len(records) : records[i].name = call[k].name /\ ~records[i].custom}
           first == IF I # {} THEN Settings!Min(I) ELSE 0
<1>1. records' = IF first > 0 THEN [records EXCEPT ![first] = call[k].gives[1]]
                 ELSE Append(records, call[k].gives[1])
  BY DEF Settings!ApplyToggle, Settings!SelectInSeq, Settings!ReplaceAt
<1>2. CASE I # {}
  <2>1. Len(records) \in Nat /\ I \in SUBSET (1 .. Len(records))
    OBVIOUS
  <2> HIDE DEF I
  <2>2. \E i \in I : \A j \in I : i <= j
    BY <1>2, <2>1, LeastPlace
  <2>3. Settings!Min(I) \in I
    BY <2>2 DEF Settings!Min
  <2>4. first = Settings!Min(I)
    BY <1>2
  <2> HIDE DEF first
  <2>6. first \in I /\ first \in 1 .. Len(records)
    BY <2>1, <2>3, <2>4
  <2>7. first > 0 /\ first \in DOMAIN records
    BY <2>1, <2>6
  <2>8. records[first].name = call[k].name /\ ~records[first].custom
    BY <2>6 DEF I
  <2>5. records' = [records EXCEPT ![first] = call[k].gives[1]]
    BY <1>1, <2>7
  <2> QED
    BY <2>5, <2>7, <2>8
<1>3. CASE I = {}
  <2>1. \A r \in ToSet(records) : r.name = call[k].name => r.custom
    BY <1>3 DEF ToSet
  <2>2. records' = Append(records, call[k].gives[1])
    BY <1>1, <1>3
  <2> QED
    BY <2>1, <2>2
<1> QED
  BY <1>2, <1>3

LEMMA FailureShown ==
  ASSUME SettingInv, NEW k \in Call, Settings!ApplyFailure(k)
  PROVE  SettingInv'
<1>1. /\ call[k].at = "bad" /\ Settings!Tell(k)
      /\ stored' = stored /\ lastId' = lastId
      /\ records' = records /\ dialog' = dialog /\ error' = error /\ changes' = changes
      /\ crossed' = crossed /\ stale' = stale /\ missed' = missed /\ IsChange(k)
  BY DEF Settings!ApplyFailure, Settings!Answered, Settings!FormEnds, Settings!serverVars,
         Settings!noteVars, IsChange
<1>2. call' = [call EXCEPT ![k] = Settings!Idle]
  BY <1>1 DEF Settings!Tell, SettingInv, SettingTyped
<1>3. call[k].kind # "list"
  BY <1>1 DEF IsChange, Settings!Changes
<1> QED
  BY <1>1, <1>2, <1>3, EndsQuietly

\* The page has an answer: what the server keeps stays.
LEMMA AnswerServer ==
  ASSUME SettingInv, NEW k \in Call, Settings!Tell(k), call[k].mine, ~call[k].told,
         stored' = stored, lastId' = lastId, UNCHANGED Settings!noteVars,
         records' \in Seq(Settings!Record), \A r \in ToSet(records') : Known(r),
         dialog' = dialog \/ dialog' = None, error' \in BOOLEAN
  PROVE  /\ SettingTyped' /\ ServerInv' /\ (\A o \in Call : o # k => call'[o] = call[o])
         /\ call[k].at # "open" => call'[k] = Settings!Idle
         /\ call[k].at = "open" =>
              /\ Like(call'[k], call[k]) /\ call'[k].at = "open" /\ call'[k].id = call[k].id
              /\ call'[k].gives = call[k].gives
              /\ call'[k].told /\ call'[k].seen = call[k].seen
<1>0. SettingTyped /\ ServerInv /\ RowsKnown /\ IdsTaken
  BY DEF SettingInv, ServerInv
<1>1. SettingRest'
  BY <1>0 DEF SettingTyped, SettingRest, Settings!noteVars
<1>2. /\ SettingTyped' /\ \A o \in Call : o # k => call'[o] = call[o]
      /\ call[k].at # "open" => call'[k] = Settings!Idle
      /\ call[k].at = "open" =>
           /\ Like(call'[k], call[k]) /\ call'[k].at = "open" /\ call'[k].id = call[k].id
           /\ call'[k].gives = call[k].gives
           /\ call'[k].told /\ call'[k].seen = call[k].seen
  BY <1>0, <1>1, TellStep
<1>3. ServerInv'
  <2>1. dialog' \in Settings!Id => CustomOnly(dialog')
    BY <1>0, ControlsAssumption DEF RowsKnown, Settings!Id
  <2>2. CASE call[k].at = "open"
    <3>1. /\ call'[k].kind = call[k].kind /\ call'[k].name = call[k].name
          /\ call'[k].at = call[k].at /\ call'[k].seen = call[k].seen /\ call'[k].id = call[k].id
          /\ call'[k].gives = call[k].gives
      BY <1>2, <2>2 DEF Like
    <3>2. Takes(call'[k]) => Takes(call[k]) /\ call'[k].name = call[k].name
      BY <3>1 DEF Takes, Inserts
    <3>3. OpenInsert(k)' <=> OpenInsert(k)
      BY <3>1 DEF OpenInsert, Inserts
    <3>4. /\ call'[k].id # None => call'[k].id <= lastId
          /\ \A r \in ToSet(call'[k].gives) : Known(r)
          /\ call'[k].kind \in {"patch", "delete"} => CustomOnly(call'[k].id)
          /\ call'[k].kind = "toggle" /\ call'[k].seen # None =>
               Switch(call'[k].seen.id, call'[k].seen.name)
      BY <1>0, <3>1 DEF RowsKnown, IdsTaken
    <3> QED
      BY <1>0, <1>2, <2>1, <3>1, <3>2, <3>3, <3>4, ServerStays
  <2>3. CASE call[k].at # "open"
    <3>1. /\ ~OpenInsert(k) /\ ~OpenInsert(k)' /\ ~Takes(call'[k])
          /\ call'[k].id = None /\ call'[k].kind = "none"
          /\ \A r \in ToSet(call'[k].gives) : Known(r)
      BY <1>2, <2>3, IdleSetting, NoEntries DEF OpenInsert, Takes
    <3> QED
      BY <1>0, <1>2, <2>1, <3>1, ServerStays
  <2> QED
    BY <2>2, <2>3
<1> QED
  BY <1>2, <1>3

\* The list has been fetched.
LEMMA ListShown ==
  ASSUME SettingInv, NEW k \in Call, Settings!ApplyList(k)
  PROVE  SettingInv'
<1>0. /\ SettingTyped /\ ServerInv /\ RowsKnown /\ IdsTaken /\ OneForm /\ NotesTrue /\ Apart
      /\ ChangesHold /\ ListHolds /\ RowsOnce
  BY DEF SettingInv, PageInv, ServerInv
<1>1. /\ call[k].mine /\ ~call[k].told /\ call[k].kind = "list" /\ Settings!Tell(k)
      /\ call[k].at \in {"open", "done", "bad"}
      /\ stored' = stored /\ lastId' = lastId /\ UNCHANGED Settings!noteVars
      /\ dialog' = dialog /\ changes' = changes
      /\ crossed' = crossed /\ stale' = stale /\ missed' = missed
      /\ \/ records' = call[k].gives /\ error' = error /\ call[k].at \in {"open", "done"}
         \/ records' = records /\ error' = TRUE
  BY DEF Settings!ApplyList, Settings!Answered, Settings!serverVars, Settings!noteVars
<1>2. call[k].at \in {"done", "bad"} /\ call[k].gives \in Seq(Settings!Record)
  BY <1>0, <1>1, OfCall, SettingFields DEF SettingFormed
<1>3. records' \in Seq(Settings!Record) /\ \A r \in ToSet(records') : Known(r)
  BY <1>0, <1>1, <1>2 DEF RowsKnown, SettingTyped
<1>4. /\ SettingTyped' /\ ServerInv' /\ (\A o \in Call : o # k => call'[o] = call[o])
      /\ call'[k] = Settings!Idle
  <2>1. error' \in BOOLEAN
    BY <1>0, <1>1 DEF SettingTyped
  <2> QED
    BY <1>1, <1>2, <1>3, <2>1, AnswerServer
<1>5. /\ call'[k].kind = "none" /\ ~WaitedForm(call'[k]) /\ ~IsChange(k)' /\ ~Flushed(call'[k])
      /\ GoesWell(call'[k])
  BY <1>4, IdleSetting DEF WaitedForm, IsChange, Flushed, Settings!Changes, GoesWell
<1>6. OneForm'
  BY <1>0, <1>1, <1>4, <1>5, FormsStay
<1>7. \A o \in Call : call'[o].kind # "list"
  BY <1>0, <1>1, <1>4, <1>5 DEF NotesTrue
<1>8. NotesTrue'
  <2>1. ~Fetching'
    BY <1>7 DEF Fetching
  <2>2. ~stale' => \A o \in Call : IsChange(o)' => call'[o].mine
    BY <1>0, <1>1, <1>4, <1>5 DEF NotesTrue, IsChange
  <2> QED
    BY <1>7, <2>1, <2>2 DEF NotesTrue, IsChange
<1>9. Apart'
  BY <1>0, <1>1, <1>4, <1>5, ApartStays DEF Calm
<1>10. ChangesHold'
  BY <1>0, <1>1, <1>4, <1>5, ChangesStay DEF Calm
<1>11. ListHolds'
  BY <1>7 DEF ListHolds
<1>12. RecordsHold'
  <2> SUFFICES ASSUME Settled' PROVE RecordsHold'
    BY DEF RecordsHold
  <2>1. Calm /\ ~error' /\ call[k].at = "done" /\ records' = call[k].gives
    BY <1>1, <1>2 DEF Settled, Calm
  <2>2. ToSet(records') = stored /\ IsInjective(records')
    BY <1>0, <1>1, <2>1 DEF ListHolds
  <2>3. \A o \in Call : ~IsChange(o)
    BY <1>0, <1>1, <2>1, FetchedAlone
  <2>4. \A o \in Call : ~Flushed(call'[o])
    BY <1>4, <1>5, <2>3 DEF IsChange, Flushed
  <2>5. \A s : RowToBe(s)' <=> s \in stored'
    BY <2>4 DEF RowToBe, Flushed, Target, Puts
  <2>6. \A s : RecordToBe(s)' <=> s \in ToSet(records')
    BY <2>4 DEF RecordToBe, Awaited, Flushed, Target, Puts
  <2>7. \A s \in Settings!Record : RowToBe(s)' <=> RecordToBe(s)'
    BY <1>1, <2>2, <2>5, <2>6
  <2>8. \A r, s \in ToSet(records') : r.id = s.id => r = s
    BY <1>0, <2>2 DEF RowsOnce
  <2>9. \A o \in Call : ~Awaited(call'[o])
    BY <2>4 DEF Awaited
  <2> QED
    BY <2>2, <2>7, <2>8, <2>9 DEF RecordsHold, Awaited, Flushed
<1> QED
  BY <1>4, <1>6, <1>8, <1>9, <1>10, <1>11, <1>12 DEF SettingInv, PageInv

\* A change of the page is answered: the list shows what it gives.
LEMMA ChangeShown ==
  ASSUME SettingInv, NEW k \in Call, IsChange(k), call[k].mine, ~call[k].told,
         call[k].at \in {"open", "done"}, Settings!Tell(k),
         stored' = stored, lastId' = lastId, UNCHANGED Settings!noteVars, error' = error,
         dialog' = IF call[k].form THEN None ELSE dialog,
         records' \in Seq(Settings!Record), \A r \in ToSet(records') : Known(r),
         Settled =>
           /\ \A s : s \in ToSet(records') <=>
                \/ s \in ToSet(records) /\ s.id # Target(call[k])
                \/ Puts(call[k]) /\ s = call[k].gives[1]
           /\ IsInjective(records')
  PROVE  SettingInv'
<1> DEFINE c == call[k]
           T == Target(c)
           g == c.gives[1]
<1>0. /\ SettingTyped /\ ServerInv /\ RowsKnown /\ IdsTaken /\ OneForm /\ NotesTrue /\ Apart
      /\ ChangesHold /\ ListHolds /\ RowsOnce /\ RecordsHold
  BY DEF SettingInv, PageInv, ServerInv
<1>1. Flushed(c) /\ Awaited(c)
  BY DEF Flushed, Awaited, IsChange
<1>2. /\ SettingTyped' /\ ServerInv' /\ (\A o \in Call : o # k => call'[o] = call[o])
      /\ c.at # "open" => call'[k] = Settings!Idle
      /\ c.at = "open" =>
           /\ Like(call'[k], c) /\ call'[k].at = "open" /\ call'[k].id = c.id
           /\ call'[k].gives = c.gives
           /\ call'[k].told /\ call'[k].seen = c.seen
  <2>1. dialog' = dialog \/ dialog' = None
    OBVIOUS
  <2>2. error' \in BOOLEAN
    BY <1>0 DEF SettingTyped
  <2> QED
    BY <2>1, <2>2, AnswerServer
<1>3. /\ crossed' = crossed /\ stale' = stale /\ missed' = missed
      /\ c.kind \in Settings!Changes /\ c.kind # "list"
  BY DEF Settings!noteVars, IsChange, Settings!Changes
<1>4. /\ c.at # "open" => /\ call'[k].kind = "none" /\ ~IsChange(k)' /\ ~Flushed(call'[k])
                          /\ ~call'[k].form
      /\ ~Awaited(call'[k]) /\ ~WaitedForm(call'[k]) /\ call'[k].kind # "list"
  BY <1>2, <1>3, IdleSetting
     DEF IsChange, Flushed, Awaited, WaitedForm, Settings!Changes, Like
<1>5. c.at = "open" => /\ call'[k].kind = c.kind /\ call'[k].mine = c.mine /\ Flushed(call'[k])
                       /\ Target(call'[k]) = T /\ (Puts(call'[k]) <=> Puts(c))
                       /\ call'[k].gives = c.gives
  BY <1>1, <1>2 DEF Like, Flushed, Target, Puts
<1>6. OneForm'
  <2>1. CASE c.form
    <3>1. \A o \in Call : ~WaitedForm(call'[o])
      BY <1>0, <1>2, <1>4, <2>1 DEF OneForm, WaitedForm
    <3> QED
      BY <3>1 DEF OneForm, WaitedForm
  <2>2. CASE ~c.form
    BY <1>0, <1>2, <1>4, <2>2, FormsStay
  <2> QED
    BY <2>1, <2>2
<1>7. NotesTrue'
  <2>1. \/ call'[k].kind = "none"
        \/ call'[k].kind = call[k].kind /\ call'[k].mine = call[k].mine
    BY <1>4, <1>5
  <2> QED
    BY <1>0, <1>2, <1>3, <2>1, NotesStay
<1>8. Apart'
  BY <1>0, <1>2, <1>3, <1>4, ApartStays DEF Calm
<1>9. ChangesHold'
  <2>1. Calm => GoesWell(call'[k])
    <3>1. CASE c.at # "open"
      BY <1>4, <3>1 DEF GoesWell, Flushed
    <3>2. CASE c.at = "open"
      <4>1. Calm => GoesWell(c)
        BY <1>0 DEF ChangesHold
      <4>2. Settings!Patched(call'[k].seen, call'[k]) = Settings!Patched(c.seen, c)
        BY <1>2, <3>2 DEF Settings!Patched, Like
      <4> HIDE DEF c
      <4> QED
        BY <1>2, <1>5, <3>2, <4>1, <4>2 DEF GoesWell, Writes, Flushed, Like
    <3> QED
      BY <3>1, <3>2
  <2> QED
    BY <1>0, <1>2, <1>3, <2>1, ChangesStay DEF Calm
<1>10. ListHolds'
  BY <1>0, <1>2, <1>3, <1>4, ListsStay DEF Calm
<1>11. RecordsHold'
  <2> SUFFICES ASSUME Settled' PROVE RecordsHold'
    BY DEF RecordsHold
  <2>1. Settled /\ Calm
    <3>1. Fetching <=> Fetching'
      BY <1>2, <1>3, <1>4 DEF Fetching
    <3> QED
      BY <1>3, <3>1 DEF Settled, Calm
  <2>2. /\ IsInjective(records) /\ \A r, s \in ToSet(records) : r.id = s.id => r = s
        /\ \A o \in Call : Awaited(call[o]) /\ call[o].kind = "create" =>
             \A r \in ToSet(records) : r.id # call[o].id
        /\ \A o \in Call : Awaited(call[o]) /\ call[o].kind = "patch" =>
             \E r \in ToSet(records) : r.id = call[o].id
        /\ \A s \in Settings!Record : RowToBe(s) <=> RecordToBe(s)
    BY <1>0, <2>1 DEF RecordsHold
  <2>3. /\ \A s : s \in ToSet(records') <=> \/ s \in ToSet(records) /\ s.id # T
                                            \/ Puts(c) /\ s = g
        /\ IsInjective(records')
    BY <2>1
  <2>4. \A o \in Call : o # k /\ Flushed(call[o]) /\ Target(call[o]) = T =>
          /\ Puts(c) /\ Puts(call[o]) /\ g = call[o].gives[1]
          /\ call[o].kind = "toggle"
    BY <1>0, <1>1, <2>1, TargetsApart
  <2>5. /\ (Puts(c) => g.id = T) /\ (c.kind # "delete" <=> Puts(c))
        /\ c.kind = "delete" => T = c.id
    BY <1>0, <1>1, FlushedIs
  <2>6. \A o \in Call : o # k => (Awaited(call'[o]) <=> Awaited(call[o]))
    BY <1>2
  <2>7. \A o \in Call : Awaited(call[o]) => Flushed(call[o])
    BY DEF Awaited
  <2>8. ASSUME NEW s
        PROVE  RecordToBe(s)' <=> RecordToBe(s)
    <3>1. RecordToBe(s)' <=>
            \/ s \in ToSet(records') /\ \A o \in Call : Awaited(call'[o]) => Target(call'[o]) # s.id
            \/ \E o \in Call : Awaited(call'[o]) /\ Puts(call'[o]) /\ s = call'[o].gives[1]
      BY DEF RecordToBe, Awaited, Flushed, Target, Puts
    <3>2. RecordToBe(s)' <=>
            \/ /\ s \in ToSet(records')
               /\ \A o \in Call : o # k /\ Awaited(call[o]) => Target(call[o]) # s.id
            \/ \E o \in Call : o # k /\ Awaited(call[o]) /\ Puts(call[o]) /\ s = call[o].gives[1]
      BY <1>2, <1>4, <3>1
    <3>3. RecordToBe(s) <=>
            \/ /\ s \in ToSet(records) /\ s.id # T
               /\ \A o \in Call : o # k /\ Awaited(call[o]) => Target(call[o]) # s.id
            \/ \E o \in Call : o # k /\ Awaited(call[o]) /\ Puts(call[o]) /\ s = call[o].gives[1]
            \/ Puts(c) /\ s = g
      BY <1>1 DEF RecordToBe
    <3> HIDE DEF c, T, g
    <3> QED
      BY <2>3, <2>4, <2>5, <2>7, <3>2, <3>3
  <2>9. ASSUME NEW s
        PROVE  RowToBe(s)' <=> RowToBe(s)
    <3>1. RowToBe(s)' <=>
            \/ s \in stored /\ \A o \in Call : Flushed(call'[o]) => Target(call'[o]) # s.id
            \/ \E o \in Call : Flushed(call'[o]) /\ Puts(call'[o]) /\ s = call'[o].gives[1]
      BY DEF RowToBe, Flushed, Target, Puts
    <3>2. RowToBe(s) <=>
            \/ /\ s \in stored /\ s.id # T
               /\ \A o \in Call : o # k /\ Flushed(call[o]) => Target(call[o]) # s.id
            \/ \E o \in Call : o # k /\ Flushed(call[o]) /\ Puts(call[o]) /\ s = call[o].gives[1]
            \/ Puts(c) /\ s = g
      BY <1>1 DEF RowToBe
    <3>3. CASE c.at = "open"
      <4>1. RowToBe(s)' <=>
              \/ /\ s \in stored /\ s.id # T
                 /\ \A o \in Call : o # k /\ Flushed(call[o]) => Target(call[o]) # s.id
              \/ \E o \in Call : o # k /\ Flushed(call[o]) /\ Puts(call[o]) /\ s = call[o].gives[1]
              \/ Puts(c) /\ s = g
        BY <1>2, <1>5, <3>1, <3>3
      <4> QED
        BY <3>2, <4>1
    <3>4. CASE c.at # "open"
      <4>1. RowToBe(s)' <=>
              \/ /\ s \in stored
                 /\ \A o \in Call : o # k /\ Flushed(call[o]) => Target(call[o]) # s.id
              \/ \E o \in Call : o # k /\ Flushed(call[o]) /\ Puts(call[o]) /\ s = call[o].gives[1]
        BY <1>2, <1>4, <3>1, <3>4
      <4>2. IsStored(c)
        BY <1>0, <1>1, <2>1, <3>4 DEF ChangesHold, GoesWell
      <4>3. Puts(c) => g \in stored
        BY <2>5, <4>2 DEF IsStored
      <4>4. \A r \in stored : r.id = T => Puts(c) /\ r = g
        BY <1>0, <2>5, <4>2, <4>3 DEF IsStored, RowsOnce
      <4> HIDE DEF c, T, g
      <4> QED
        BY <2>4, <2>5, <3>2, <4>1, <4>3, <4>4
    <3> QED
      BY <3>3, <3>4
  <2>10. \A s \in Settings!Record : RowToBe(s)' <=> RecordToBe(s)'
    BY <2>2, <2>8, <2>9
  <2>11. \A r, s \in ToSet(records') : r.id = s.id => r = s
    BY <2>2, <2>3, <2>5
  <2>12. ASSUME NEW o \in Call, Awaited(call'[o]), call'[o].kind \in {"create", "patch"}
         PROVE  /\ o # k /\ Awaited(call[o]) /\ call'[o] = call[o] /\ call[o].id # T
    <3>1. o # k /\ Awaited(call[o]) /\ call'[o] = call[o]
      BY <1>2, <1>4, <2>12
    <3>2. Target(call[o]) = call[o].id
      BY <1>0, <2>7, <2>12, <3>1, FlushedIs
    <3>3. Target(call[o]) # T
      BY <2>4, <2>7, <2>12, <3>1
    <3> QED
      BY <3>1, <3>2, <3>3
  <2>13. \A o \in Call : Awaited(call'[o]) /\ call'[o].kind = "create" =>
           \A r \in ToSet(records') : r.id # call'[o].id
    <3> SUFFICES ASSUME NEW o \in Call, Awaited(call'[o]), call'[o].kind = "create",
                        NEW r \in ToSet(records')
                 PROVE  r.id # call'[o].id
      OBVIOUS
    <3>1. Awaited(call[o]) /\ call'[o] = call[o] /\ call[o].id # T
      BY <2>12
    <3>2. \A q \in ToSet(records) : q.id # call[o].id
      BY <2>2, <3>1
    <3> HIDE DEF c, T, g
    <3> QED
      BY <2>3, <2>5, <3>1, <3>2
  <2>14. \A o \in Call : Awaited(call'[o]) /\ call'[o].kind = "patch" =>
           \E r \in ToSet(records') : r.id = call'[o].id
    <3> SUFFICES ASSUME NEW o \in Call, Awaited(call'[o]), call'[o].kind = "patch"
                 PROVE  \E r \in ToSet(records') : r.id = call'[o].id
      OBVIOUS
    <3>1. Awaited(call[o]) /\ call'[o] = call[o] /\ call[o].id # T
      BY <2>12
    <3>2. PICK q \in ToSet(records) : q.id = call[o].id
      BY <2>2, <3>1
    <3> HIDE DEF c, T, g
    <3>3. q \in ToSet(records')
      BY <2>3, <3>1, <3>2
    <3> QED
      BY <3>1, <3>2, <3>3
  <2> QED
    BY <2>3, <2>10, <2>11, <2>13, <2>14 DEF RecordsHold, Awaited, Flushed
<1> QED
  BY <1>2, <1>6, <1>7, <1>8, <1>9, <1>10, <1>11 DEF SettingInv, PageInv

\* What a change that is answered finds.
LEMMA AnswerIs ==
  ASSUME SettingInv, NEW k \in Call, NEW kind, kind \in Settings!Changes,
         Settings!Answered(k, {kind}, TRUE), Settings!FormEnds(k, TRUE)
  PROVE  /\ IsChange(k) /\ call[k].mine /\ ~call[k].told /\ call[k].kind = kind
         /\ call[k].at \in {"open", "done"} /\ Settings!Tell(k) /\ Awaited(call[k])
         /\ stored' = stored /\ lastId' = lastId /\ UNCHANGED Settings!noteVars /\ error' = error
         /\ dialog' = IF call[k].form THEN None ELSE dialog
         /\ records \in Seq(Settings!Record) /\ ToSet(records) \subseteq Settings!Record
         /\ \A r \in ToSet(records) : Known(r)
         /\ Puts(call[k]) => call[k].gives[1] \in Settings!Record /\ Known(call[k].gives[1])
                             /\ Target(call[k]) = call[k].gives[1].id
<1>0. SettingTyped /\ ServerInv /\ RowsKnown
  BY DEF SettingInv, ServerInv
<1>1. /\ call[k].mine /\ ~call[k].told /\ call[k].kind = kind
      /\ call[k].at \in {"open", "done"} /\ Settings!Tell(k)
      /\ stored' = stored /\ lastId' = lastId /\ UNCHANGED Settings!noteVars
  BY DEF Settings!Answered, Settings!serverVars
<1>2. error' = error /\ dialog' = IF call[k].form THEN None ELSE dialog
  BY DEF Settings!FormEnds
<1>3. IsChange(k) /\ Flushed(call[k]) /\ Awaited(call[k])
  BY <1>1 DEF IsChange, Flushed, Awaited
<1>4. records \in Seq(Settings!Record) /\ ToSet(records) \subseteq Settings!Record
  BY <1>0, Entries DEF SettingTyped
<1>5. Puts(call[k]) => call[k].gives[1] \in Settings!Record /\ Known(call[k].gives[1])
                       /\ Target(call[k]) = call[k].gives[1].id
  BY <1>0, <1>3, FlushedIs DEF RowsKnown
<1>6. \A r \in ToSet(records) : Known(r)
  BY <1>0 DEF RowsKnown
<1> QED
  BY <1>1, <1>2, <1>3, <1>4, <1>5, <1>6

\* The list with the row after it.
LEMMA RowAdded ==
  ASSUME SettingInv, NEW k \in Call, Awaited(call[k]), Puts(call[k]),
         records' = Append(records, call[k].gives[1]),
         Settled => \A r \in ToSet(records) : r.id # Target(call[k])
  PROVE  /\ records' \in Seq(Settings!Record) /\ \A r \in ToSet(records') : Known(r)
         /\ Settled =>
              /\ \A s : s \in ToSet(records') <=>
                   \/ s \in ToSet(records) /\ s.id # Target(call[k])
                   \/ Puts(call[k]) /\ s = call[k].gives[1]
              /\ IsInjective(records')
<1> DEFINE g == call[k].gives[1]
           T == Target(call[k])
<1>0. /\ SettingTyped /\ ServerInv /\ RowsKnown /\ RecordsHold
      /\ records \in Seq(Settings!Record)
  BY DEF SettingInv, ServerInv, PageInv, SettingTyped
<1>1. g \in Settings!Record /\ Known(g) /\ g.id = T
  BY <1>0, FlushedIs DEF Awaited, RowsKnown
<1>2. Puts(call[k]) /\ records' = Append(records, g)
  OBVIOUS
<1>3. Settled => IsInjective(records) /\ \A r \in ToSet(records) : r.id # T
  BY <1>0 DEF RecordsHold
<1> HIDE DEF g, T
<1>4. /\ records' \in Seq(Settings!Record) /\ ToSet(records') = ToSet(records) \cup {g}
      /\ IsInjective(records) /\ g \notin ToSet(records) => IsInjective(records')
  BY <1>0, <1>1, <1>2, Appended
<1>5. \A r \in ToSet(records') : Known(r)
  BY <1>0, <1>1, <1>4 DEF RowsKnown
<1>6. ASSUME Settled
      PROVE  /\ \A s : s \in ToSet(records') <=> (s \in ToSet(records) /\ s.id # T) \/ s = g
             /\ IsInjective(records')
  BY <1>1, <1>3, <1>4, <1>6
<1> QED
  BY <1>2, <1>4, <1>5, <1>6 DEF g, T

\* The list with the row in the place of the one there was.
LEMMA RowReplaced ==
  ASSUME SettingInv, NEW k \in Call, Awaited(call[k]), Puts(call[k]),
         NEW P \in SUBSET (DOMAIN records), P # {} \/ ~Settled,
         records' = [i \in DOMAIN records |-> IF i \in P THEN call[k].gives[1] ELSE records[i]],
         Settled => \A i \in DOMAIN records : i \in P <=> records[i].id = Target(call[k])
  PROVE  /\ records' \in Seq(Settings!Record) /\ \A r \in ToSet(records') : Known(r)
         /\ Settled =>
              /\ \A s : s \in ToSet(records') <=>
                   \/ s \in ToSet(records) /\ s.id # Target(call[k])
                   \/ Puts(call[k]) /\ s = call[k].gives[1]
              /\ IsInjective(records')
<1> DEFINE g == call[k].gives[1]
           T == Target(call[k])
           t == records'
<1>0. /\ SettingTyped /\ ServerInv /\ RowsKnown /\ RecordsHold
      /\ records \in Seq(Settings!Record)
  BY DEF SettingInv, ServerInv, PageInv, SettingTyped
<1>1. g \in Settings!Record /\ Known(g) /\ g.id = T
  BY <1>0, FlushedIs DEF Awaited, RowsKnown
<1>2. /\ Puts(call[k]) /\ t = [i \in DOMAIN records |-> IF i \in P THEN g ELSE records[i]]
      /\ Settled => \A i \in DOMAIN records : i \in P <=> records[i].id = T
  OBVIOUS
<1>3. Settled => IsInjective(records) /\ \A r, s \in ToSet(records) : r.id = s.id => r = s
  BY <1>0 DEF RecordsHold
<1> HIDE DEF g, T, t
<1>4. /\ t \in Seq(Settings!Record) /\ ToSet(t) \subseteq ToSet(records) \cup {g}
      /\ P # {} => \A s : s \in ToSet(t) <=> s = g \/ \E i \in (DOMAIN records) \ P : s = records[i]
      /\ IsInjective(records) /\ (\A i, j \in P : i = j)
           /\ (\A i \in (DOMAIN records) \ P : records[i] # g) => IsInjective(t)
  <2>1. \A i \in DOMAIN records : records[i] \in Settings!Record
    BY <1>0
  <2>2. /\ t \in [DOMAIN records -> Settings!Record]
        /\ \A i \in DOMAIN records : t[i] = IF i \in P THEN g ELSE records[i]
    BY <1>1, <1>2, <2>1
  <2> QED
    BY <1>0, <1>1, <2>2, Replaced
<1>5. \A r \in ToSet(t) : Known(r)
  BY <1>0, <1>1, <1>4 DEF RowsKnown
<1>6. ASSUME Settled
      PROVE  /\ \A s : s \in ToSet(t) <=> (s \in ToSet(records) /\ s.id # T) \/ s = g
             /\ IsInjective(t)
  <2>1. \A s : s \in ToSet(records) <=> \E i \in DOMAIN records : s = records[i]
    BY DEF ToSet
  <2>2. \A s : s \in ToSet(t) <=> s = g \/ \E i \in (DOMAIN records) \ P : s = records[i]
    BY <1>4, <1>6
  <2>3. \A s : s \in ToSet(t) <=> (s \in ToSet(records) /\ s.id # T) \/ s = g
    BY <1>2, <1>6, <2>1, <2>2
  <2>4. \A i, j \in P : i = j
    <3>1. \A i, j \in P : records[i] = records[j]
      BY <1>2, <1>3, <1>6, <2>1
    <3> QED
      BY <1>3, <1>6, <3>1 DEF IsInjective
  <2>5. \A i \in (DOMAIN records) \ P : records[i] # g
    BY <1>1, <1>2, <1>6
  <2> QED
    BY <1>3, <1>4, <1>6, <2>3, <2>4, <2>5
<1> QED
  BY <1>2, <1>4, <1>5, <1>6 DEF g, T, t

LEMMA CreateShown ==
  ASSUME SettingInv, NEW k \in Call, Settings!ApplyCreate(k)
  PROVE  SettingInv'
<1>1. /\ Settings!Answered(k, {"create"}, TRUE) /\ Settings!FormEnds(k, TRUE)
      /\ records' = Append(records, call[k].gives[1])
  BY DEF Settings!ApplyCreate
<1>2. /\ IsChange(k) /\ call[k].mine /\ ~call[k].told /\ call[k].kind = "create"
      /\ call[k].at \in {"open", "done"} /\ Settings!Tell(k) /\ Awaited(call[k])
      /\ stored' = stored /\ lastId' = lastId /\ UNCHANGED Settings!noteVars /\ error' = error
      /\ dialog' = IF call[k].form THEN None ELSE dialog
  BY <1>1, AnswerIs DEF Settings!Changes
<1>3. Puts(call[k]) /\ Target(call[k]) = call[k].id
  BY <1>2, FlushedIs DEF SettingInv, Awaited, Puts
<1>4. Settled => \A r \in ToSet(records) : r.id # Target(call[k])
  BY <1>2, <1>3 DEF SettingInv, PageInv, RecordsHold
<1> QED
  BY <1>1, <1>2, <1>3, <1>4, RowAdded, ChangeShown

LEMMA UpdateShown ==
  ASSUME SettingInv, NEW k \in Call, Settings!ApplyUpdate(k)
  PROVE  SettingInv'
<1> DEFINE P == {i \in DOMAIN records : records[i].id = call[k].id}
<1>1. /\ Settings!Answered(k, {"patch"}, TRUE) /\ Settings!FormEnds(k, TRUE)
      /\ records' = [i \in DOMAIN records |->
                       IF records[i].id = call[k].id THEN call[k].gives[1] ELSE records[i]]
  BY DEF Settings!ApplyUpdate
<1>2. /\ IsChange(k) /\ call[k].mine /\ ~call[k].told /\ call[k].kind = "patch"
      /\ call[k].at \in {"open", "done"} /\ Settings!Tell(k) /\ Awaited(call[k])
      /\ stored' = stored /\ lastId' = lastId /\ UNCHANGED Settings!noteVars /\ error' = error
      /\ dialog' = IF call[k].form THEN None ELSE dialog
  BY <1>1, AnswerIs DEF Settings!Changes
<1>3. Puts(call[k]) /\ Target(call[k]) = call[k].id
  BY <1>2, FlushedIs DEF SettingInv, Awaited, Puts
<1>4. P \in SUBSET (DOMAIN records) /\ \A i \in DOMAIN records : i \in P <=> records[i].id = Target(call[k])
  BY <1>3
<1>5. P # {} \/ ~Settled
  <2>1. Settled => \E r \in ToSet(records) : r.id = call[k].id
    BY <1>2 DEF SettingInv, PageInv, RecordsHold
  <2> QED
    BY <2>1 DEF ToSet
<1>6. records' = [i \in DOMAIN records |-> IF i \in P THEN call[k].gives[1] ELSE records[i]]
  BY <1>1
<1> HIDE DEF P
<1>7. /\ records' \in Seq(Settings!Record) /\ \A r \in ToSet(records') : Known(r)
      /\ Settled =>
           /\ \A s : s \in ToSet(records') <=>
                \/ s \in ToSet(records) /\ s.id # Target(call[k])
                \/ Puts(call[k]) /\ s = call[k].gives[1]
           /\ IsInjective(records')
  BY <1>2, <1>3, <1>4, <1>5, <1>6, RowReplaced
<1> QED
  BY <1>2, <1>7, ChangeShown

LEMMA ToggleShown ==
  ASSUME SettingInv, NEW k \in Call, Settings!ApplyToggle(k)
  PROVE  SettingInv'
<1> DEFINE c == call[k]
           g == c.gives[1]
           T == Target(c)
<1>1. Settings!Answered(k, {"toggle"}, TRUE) /\ Settings!FormEnds(k, TRUE)
  BY DEF Settings!ApplyToggle
<1>2. /\ IsChange(k) /\ call[k].mine /\ ~call[k].told /\ call[k].kind = "toggle"
      /\ call[k].at \in {"open", "done"} /\ Settings!Tell(k) /\ Awaited(call[k])
      /\ stored' = stored /\ lastId' = lastId /\ UNCHANGED Settings!noteVars /\ error' = error
      /\ dialog' = IF call[k].form THEN None ELSE dialog
      /\ records \in Seq(Settings!Record) /\ ToSet(records) \subseteq Settings!Record
      /\ \A r \in ToSet(records) : Known(r)
  BY <1>1, AnswerIs DEF Settings!Changes
<1>3. SettingTyped /\ ServerInv
  BY DEF SettingInv
<1>4. Puts(c) /\ SwitchOf(T, c.name)
  BY <1>2, <1>3, FlushedIs DEF Awaited, Puts
\* A record is of the row that is switched if it switches the command.
<1>5. \A r \in ToSet(records) : (r.name = c.name /\ ~r.custom) <=> r.id = T
  <2> SUFFICES ASSUME NEW r \in ToSet(records)
               PROVE  (r.name = c.name /\ ~r.custom) <=> r.id = T
    OBVIOUS
  <2>1. IF r.custom THEN CustomOnly(r.id) ELSE SwitchOf(r.id, r.name)
    BY <1>2 DEF Known
  <2> HIDE DEF c, T
  <2> QED
    BY <1>3, <1>4, <2>1, KnownRows
<1>6. \/ \E i \in DOMAIN records :
           /\ records[i].name = c.name /\ ~records[i].custom
           /\ records' = [records EXCEPT ![i] = g]
      \/ /\ \A r \in ToSet(records) : r.name = c.name => r.custom
         /\ records' = Append(records, g)
  BY <1>2, ToggleRecords
<1>7. ASSUME NEW i \in DOMAIN records, records[i].name = c.name, ~records[i].custom,
             records' = [records EXCEPT ![i] = g]
      PROVE  /\ records' \in Seq(Settings!Record) /\ \A r \in ToSet(records') : Known(r)
             /\ Settled =>
                  /\ \A s : s \in ToSet(records') <=>
                       \/ s \in ToSet(records) /\ s.id # Target(call[k])
                       \/ Puts(call[k]) /\ s = call[k].gives[1]
                  /\ IsInjective(records')
  <2>1. records' = [j \in DOMAIN records |-> IF j \in {i} THEN g ELSE records[j]]
    BY <1>2, <1>7
  <2>2. \A j \in DOMAIN records : records[j] \in ToSet(records)
    BY DEF ToSet
  <2>3. Settled => \A j \in DOMAIN records : j \in {i} <=> records[j].id = T
    <3> SUFFICES ASSUME Settled, NEW j \in DOMAIN records
                 PROVE  j = i <=> records[j].id = T
      OBVIOUS
    <3>1. records[i].id = T
      BY <1>5, <1>7, <2>2
    <3>2. \A r, s \in ToSet(records) : r.id = s.id => r = s
      BY DEF SettingInv, PageInv, RecordsHold
    <3>3. IsInjective(records)
      BY DEF SettingInv, PageInv, RecordsHold
    <3>4. records[j].id = T => records[j] = records[i]
      BY <2>2, <3>1, <3>2
    <3> QED
      BY <3>1, <3>3, <3>4 DEF IsInjective
  <2>4. {i} \in SUBSET (DOMAIN records) /\ {i} # {}
    OBVIOUS
  <2> QED
    BY <1>2, <1>4, <2>1, <2>3, <2>4, RowReplaced
<1>8. ASSUME \A r \in ToSet(records) : r.name = c.name => r.custom,
             records' = Append(records, g)
      PROVE  /\ records' \in Seq(Settings!Record) /\ \A r \in ToSet(records') : Known(r)
             /\ Settled =>
                  /\ \A s : s \in ToSet(records') <=>
                       \/ s \in ToSet(records) /\ s.id # Target(call[k])
                       \/ Puts(call[k]) /\ s = call[k].gives[1]
                  /\ IsInjective(records')
  <2>1. \A r \in ToSet(records) : r.id # Target(call[k])
    BY <1>5, <1>8
  <2> QED
    BY <1>2, <1>4, <1>8, <2>1, RowAdded
<1>9. /\ records' \in Seq(Settings!Record) /\ \A r \in ToSet(records') : Known(r)
      /\ Settled =>
           /\ \A s : s \in ToSet(records') <=>
                \/ s \in ToSet(records) /\ s.id # Target(call[k])
                \/ Puts(call[k]) /\ s = call[k].gives[1]
           /\ IsInjective(records')
  BY <1>6, <1>7, <1>8
<1> QED
  BY <1>2, <1>9, ChangeShown

LEMMA DeleteShown ==
  ASSUME SettingInv, NEW k \in Call, Settings!ApplyDelete(k)
  PROVE  SettingInv'
<1> DEFINE S == {r \in ToSet(records) : r.id # call[k].id}
<1>1. /\ Settings!Answered(k, {"delete"}, TRUE) /\ Settings!FormEnds(k, TRUE)
      /\ records' = Keep(records, S)
  BY SettingLists DEF Settings!ApplyDelete
<1>2. /\ IsChange(k) /\ call[k].mine /\ ~call[k].told /\ call[k].kind = "delete"
      /\ call[k].at \in {"open", "done"} /\ Settings!Tell(k) /\ Awaited(call[k])
      /\ stored' = stored /\ lastId' = lastId /\ UNCHANGED Settings!noteVars /\ error' = error
      /\ dialog' = IF call[k].form THEN None ELSE dialog
      /\ records \in Seq(Settings!Record)
      /\ \A r \in ToSet(records) : Known(r)
  BY <1>1, AnswerIs DEF Settings!Changes
<1>3. ~Puts(call[k]) /\ Target(call[k]) = call[k].id
  BY <1>2, FlushedIs DEF SettingInv, Awaited, Puts
<1> HIDE DEF S
<1>4. /\ records' \in Seq(Settings!Record) /\ ToSet(records') = ToSet(records) \cap S
      /\ IsInjective(records) => IsInjective(records')
  BY <1>1, <1>2, Kept
<1>5. \A r \in ToSet(records') : Known(r)
  BY <1>2, <1>4
<1>6. Settled => IsInjective(records)
  BY DEF SettingInv, PageInv, RecordsHold
<1>7. \A s : s \in ToSet(records') <=> s \in ToSet(records) /\ s.id # Target(call[k])
  BY <1>3, <1>4 DEF S
<1> QED
  BY <1>2, <1>3, <1>4, <1>5, <1>6, <1>7, ChangeShown

-----------------------------------------------------------------------------
\* The page as it is when the effect has asked for the list.
LEMMA SettingStarts ==
  ASSUME Settings!CommandsInit
  PROVE  SettingInv
<1> DEFINE d == [Settings!Idle EXCEPT !.kind = "list", !.mine = TRUE, !.at = "sent"]
<1>1. PICK k \in Call : call = [c \in Call |-> IF c = k THEN d ELSE Settings!Idle]
  BY DEF Settings!CommandsInit
<1>2. /\ stored \in SUBSET Old /\ lastId = Cardinality(Old)
      /\ records = <<>> /\ error = FALSE /\ dialog = None /\ changes = 0
      /\ crossed = FALSE /\ missed = FALSE /\ stale = FALSE
  BY DEF Settings!CommandsInit, Settings!Cardinality, Cardinality
<1>3. /\ d \in SettingCall /\ d.kind = "list" /\ d.mine /\ ~d.told /\ ~d.form
      /\ d.at = "sent" /\ d.seen = None /\ d.gives = <<>> /\ d.id = None
  <2>1. <<>> \in Seq(Settings!Record) /\ "list" \in Settings!Kinds
    BY DEF Settings!Kinds
  <2>2. d \in SettingCall
    BY <2>1 DEF Settings!Idle, SettingCall
  <2> QED
    BY <2>2 DEF Settings!Idle
<1> HIDE DEF d
<1>4. SettingFormed(d) /\ SettingAsked(d)
  BY <1>3, IdleSetting DEF SettingFormed, SettingAsked, Puts, Writes, Flushed, Settings!Changes
<1>5. SettingFormed(Settings!Idle) /\ SettingAsked(Settings!Idle)
  BY IdleSetting DEF SettingFormed, SettingAsked, Puts, Writes, Flushed, Settings!Changes
<1>6. \A o \in Call : call[o] = d \/ call[o] = Settings!Idle
  BY <1>1
<1>7. /\ call[k] = d /\ \A o \in Call : call[o].kind = "list" => o = k
  BY <1>1, IdleSetting
<1>8. \A o \in Call :
        /\ call[o].kind \in {"list", "none"} /\ call[o].at \in {"sent", "free"}
        /\ call[o].gives = <<>> /\ call[o].id = None /\ ~call[o].form
  BY <1>3, <1>6, IdleSetting
<1>9. SettingTyped
  <2>1. stored \subseteq Settings!Record /\ IsFiniteSet(stored)
    BY <1>2, ControlsAssumption, FS_Subset
  <2>2. lastId \in 0 .. MaxIds /\ changes \in 0 .. MaxChanges
    BY <1>2, ControlsAssumption
  <2>3. call \in [Call -> SettingCall]
    BY <1>1, <1>3, IdleSetting
  <2>4. \A o \in Call : SettingFormed(call[o]) /\ SettingAsked(call[o])
    BY <1>4, <1>5, <1>6
  <2>5. records \in Seq(Settings!Record)
    BY <1>2
  <2> QED
    BY <1>2, <2>1, <2>2, <2>3, <2>4, <2>5 DEF SettingTyped
<1>10. /\ \A o \in Call : ~IsChange(o) /\ ~Flushed(call[o]) /\ ~OpenInsert(o) /\ ~Takes(call[o])
                          /\ ~WaitedForm(call[o])
  BY <1>8 DEF IsChange, Flushed, OpenInsert, Takes, WaitedForm, Settings!Changes
<1>11. RowsOnce
  BY <1>2, ControlsAssumption DEF RowsOnce
<1>12. NamesTaken /\ IdsTaken
  BY <1>8, <1>10 DEF NamesTaken, IdsTaken
<1>13. RowsKnown
  <2>1. dialog \notin Settings!Id
    BY <1>2, ControlsAssumption DEF Settings!Id
  <2> QED
    BY <1>2, <1>8, <2>1, NoEntries DEF RowsKnown
<1>14. OneForm /\ NotesTrue
  BY <1>2, <1>7, <1>10 DEF OneForm, NotesTrue
<1>15. Apart /\ ChangesHold /\ ListHolds
  BY <1>8, <1>10 DEF Apart, ChangesHold, ListHolds, GoesWell
<1>16. RecordsHold
  BY <1>3, <1>7 DEF RecordsHold, Settled, Fetching
<1> QED
  BY <1>9, <1>11, <1>12, <1>13, <1>14, <1>15, <1>16 DEF SettingInv, ServerInv, PageInv

LEMMA SettingKeeps ==
  ASSUME SettingInv, Settings!CommandsNext
  PROVE  SettingInv'
<1>1. CASE Settings!CloseDialog
  BY <1>1, DialogCloses
<1>2. CASE \E target \in {New} \cup Settings!Customs : Settings!OpenDialog(target)
  BY <1>2, DialogOpens
<1>3. ASSUME NEW k \in Call,
             \/ Settings!Look(k) \/ Settings!FlushInsert(k) \/ Settings!FlushUpdate(k)
             \/ Settings!FlushDelete(k) \/ Settings!Commit(k)
             \/ Settings!Forget(k) \/ Settings!ServeList(k) \/ Settings!Refuse(k) \/ Settings!Lose(k)
             \/ Settings!Refresh(k) \/ Settings!Others(k)
      PROVE  SettingInv'
  BY <1>3, LookKeeps, FlushInsertKeeps, FlushUpdateKeeps, FlushDeleteKeeps, SettingCommitKeeps, ForgetKeeps,
     ServeSettings, RefuseKeeps, LoseKeeps, RefreshAsks, OthersAsk
<1>4. ASSUME NEW k \in Call, NEW n \in SettingNames,
             Settings!SubmitNew(k, n) \/ \E on \in BOOLEAN : Settings!SubmitEdit(k, n, on)
      PROVE  SettingInv'
  BY <1>4, SubmitsNew, SubmitsEdit
<1>5. ASSUME NEW k \in Call, NEW n \in ToSet(SettingBuiltins), Settings!ToggleBuiltin(k, n)
      PROVE  SettingInv'
  BY <1>5, TogglesBuiltin
<1>6. ASSUME NEW k \in Call, NEW r \in ToSet(records),
             Settings!ToggleCustom(k, r) \/ Settings!DeleteCustom(k, r)
      PROVE  SettingInv'
  BY <1>6, TogglesCustom, DeletesCustom
<1>7. ASSUME NEW k \in Call,
             \/ Settings!ApplyList(k) \/ Settings!ApplyCreate(k) \/ Settings!ApplyUpdate(k)
             \/ Settings!ApplyToggle(k) \/ Settings!ApplyDelete(k) \/ Settings!ApplyFailure(k)
      PROVE  SettingInv'
  BY <1>7, ListShown, CreateShown, UpdateShown, ToggleShown, DeleteShown, FailureShown
<1> QED
  BY <1>1, <1>2, <1>3, <1>4, <1>5, <1>6, <1>7, SettingLists DEF Settings!CommandsNext

LEMMA SettingStutters ==
  ASSUME SettingInv, UNCHANGED Settings!commandVars
  PROVE  SettingInv'
<1>1. /\ call' = call /\ stored' = stored /\ lastId' = lastId /\ records' = records
      /\ error' = error /\ changes' = changes /\ crossed' = crossed /\ missed' = missed
      /\ stale' = stale /\ dialog' = dialog
  BY DEF Settings!commandVars, Settings!serverVars, Settings!pageVars, Settings!noteVars
<1>2. dialog \in Settings!Id \cup {None, New} /\ (dialog \in Settings!Id => CustomOnly(dialog))
  BY DEF SettingInv, SettingTyped, ServerInv, RowsKnown
<1>3. dialog # None \/ \A k \in Call : ~WaitedForm(call[k])
  BY DEF SettingInv, PageInv, OneForm
<1> QED
  BY <1>1, <1>2, <1>3, DialogTurns

\* What the invariant says of the page at rest.
LEMMA SettingSays ==
  ASSUME SettingInv
  PROVE  Settings!CommandsTypeOK /\ Settings!SettingsAreSound
<1>0. SettingTyped /\ RowsOnce /\ OneForm /\ RecordsHold
  BY DEF SettingInv, ServerInv, PageInv
<1>1. Settings!CommandsTypeOK
  <2>1. ASSUME NEW k \in Call
        PROVE  /\ call[k].at \in {"free", "sent", "write", "open", "done", "bad"}
               /\ call[k].at = "free" <=> call[k] = Settings!Idle
               /\ call[k].kind \in Settings!Kinds \cup {"none"}
               /\ (call[k].at \in {"write", "open"} /\ call[k].kind \in {"patch", "delete"}) =>
                    call[k].seen \in Settings!Record
               /\ ToSet(call[k].gives) \subseteq Settings!Record
    <3>1. call[k] \in SettingCall /\ SettingFormed(call[k]) /\ SettingAsked(call[k])
      BY <1>0, OfCall
    <3>2. /\ call[k].kind \in Settings!Kinds \cup {"none"}
          /\ call[k].at \in {"free", "sent", "write", "open", "done", "bad"}
          /\ call[k].seen \in Settings!Record \cup {None} /\ call[k].gives \in Seq(Settings!Record)
      BY <3>1, SettingFields
    <3> QED
      BY <3>1, <3>2, Entries DEF SettingFormed, SettingAsked, Writes
  <2>2. ToSet(records) \subseteq Settings!Record
    BY <1>0, Entries DEF SettingTyped
  <2>3. Settings!Submitting => dialog # None
    BY <1>0 DEF Settings!Submitting, OneForm, WaitedForm
  <2> QED
    BY <1>0, <2>1, <2>2, <2>3, SettingLists DEF Settings!CommandsTypeOK, SettingTyped
<1>2. Settings!CommandsAreOne
  BY <1>0, SettingLists DEF Settings!CommandsAreOne, RowsOnce
<1>3. Settings!SettingsAreStored
  <2> SUFFICES ASSUME Settings!Under(Settings!Kinds) = {}, ~error, ~crossed, ~missed, ~stale
               PROVE  ToSet(records) = stored /\ IsInjective(records)
    BY SettingLists DEF Settings!SettingsAreStored
  <2>1. \A k \in Call : call[k].kind \notin Settings!Kinds
    BY DEF Settings!Under
  <2>2. \A k \in Call : ~Flushed(call[k]) /\ ~Awaited(call[k]) /\ call[k].kind # "list"
    BY <2>1 DEF Flushed, Awaited, Settings!Changes, Settings!Kinds
  <2>3. Settled
    BY <2>2 DEF Settled, Fetching
  <2>4. \A s \in Settings!Record : s \in stored <=> s \in ToSet(records)
    BY <1>0, <2>2, <2>3 DEF RecordsHold, RowToBe, RecordToBe
  <2>5. stored \subseteq Settings!Record /\ ToSet(records) \subseteq Settings!Record
    BY <1>0, Entries DEF SettingTyped
  <2> QED
    BY <1>0, <2>3, <2>4, <2>5 DEF RecordsHold
<1> QED
  BY <1>1, <1>2, <1>3 DEF Settings!SettingsAreSound

-----------------------------------------------------------------------------
(* Theorems                                                                 *)

LEMMA SettingInvariant == ControlsSpec => [](page = "settings" => SettingInv)
<1> DEFINE Inv == page = "settings" => SettingInv
<1>1. ControlsInit => Inv
  BY SettingStarts DEF ControlsInit
<1>2. Inv /\ [ControlsNext]_vars => Inv'
  <2> SUFFICES ASSUME Inv, [ControlsNext]_vars PROVE Inv'
    OBVIOUS
  <2>1. CASE SettingsStep
    BY <2>1, SettingKeeps DEF SettingsStep
  <2>2. CASE ShareStep \/ RatingStep \/ ChatStep
    BY <2>2 DEF ShareStep, RatingStep, ChatStep
  <2>3. CASE UNCHANGED vars
    <3>1. page' = page /\ UNCHANGED Settings!commandVars
      BY <2>3 DEF vars, requestVars, settingsOnly, Settings!commandVars, Settings!serverVars,
                  Settings!pageVars, Settings!noteVars
    <3> QED
      BY <3>1, SettingStutters
  <2> QED
    BY <2>1, <2>2, <2>3 DEF ControlsNext
<1> QED
  BY <1>1, <1>2, PTL DEF ControlsSpec

\* There is one row for a name, whatever requests race, and the settings at rest show
\* the user's rows, each once, although the server looks before it writes, answers
\* leave before their commit and come in any order, and a fetch that fails leaves the
\* list as it was (slash-commands-manager.tsx, use-slash-commands, slash_command.py).
THEOREM SettingsStaySound == ControlsSpec => []SettingsAreSound
<1>1. (page = "settings" => SettingInv) => SettingsAreSound
  BY SettingSays DEF SettingsAreSound
<1> QED
  BY <1>1, SettingInvariant, PTL

\* Whichever control a behaviour has, its state and its requests are well typed, and
\* nothing of a request is left when its place is free (see the modules).
THEOREM ControlsTyped == ControlsSpec => []ControlsTypeOK
<1>1. ASSUME RatingInv PROVE Buttons!RatingTypeOK
  <2>1. PICK r \in Buttons!Rating : RatingAt(r)
    BY <1>1 DEF RatingInv
  <2>2. \A k \in Call :
          /\ call[k].at \in {"free", "sent", "open", "done", "bad"}
          /\ call[k].at = "free" <=> call[k] = Buttons!Idle
          /\ call[k].kind \in {"rate", "remove", "load", "other", "none"}
          /\ call[k].was \in Buttons!Shown \cup {None} /\ call[k].rating \in Buttons!Rating
    BY <2>1 DEF RatingAt, RatingTyped, RatingCall, RequestRight
  <2>3. \A m, old : MessageRight(m, old, r) => m \in Buttons!Shown \cup {None}
    BY NewCounts DEF MessageRight
  <2> QED
    BY <2>1, <2>2, <2>3 DEF Buttons!RatingTypeOK, RatingAt, RatingTyped
<1>2. ASSUME ShareInv, KnownInv PROVE Shares!ShareTypeOK
  <2>1. ASSUME NEW k \in Call
        PROVE  /\ call[k].at \in {"free", "sent", "open", "done", "bad"}
               /\ call[k].at = "free" <=> call[k] = Shares!Idle
               /\ call[k].kind \in Shares!Changes \cup {"list", "none"}
               /\ Shares!ToSet(call[k].gives) \subseteq Shares!Share
    BY <1>2, ShareCallTyped, SameLists, Entries DEF ShareInv, ShareTyped, Shares!Changes
  <2>2. Shares!ToSet(shares) \subseteq Shares!Share
    BY <1>2, SameLists, Entries DEF ShareInv, ShareTyped
  <2>3. ~open => shares = <<>> /\ ~Shares!Loading
    BY <1>2, IdleShare DEF ShareInv, ShareTyped, Shares!Loading
  <2>4. \A k \in Call : call[k].at \notin {"open", "done"} \/ call[k].told => tells[k] = {}
    <3>1. \A k \in Call : tells[k] \in SUBSET (1 .. MaxShares)
      BY <1>2 DEF KnownInv
    <3>2. \A k \in Call : \A i \in tells[k] : call[k].at \in {"open", "done"} /\ ~call[k].told
      BY <1>2 DEF KnownInv, TellsRight
    <3> QED
      BY <3>1, <3>2
  <2>5. /\ known \subseteq 1 .. MaxShares /\ tells \in [Call -> SUBSET (1 .. MaxShares)]
        /\ ~open => known = {}
    BY <1>2 DEF KnownInv
  <2> QED
    BY <1>2, <2>1, <2>2, <2>3, <2>4, <2>5 DEF Shares!ShareTypeOK, ShareInv, ShareTyped
<1>3. /\ page = "settings" => SettingInv
      /\ page = "share" => ShareInv /\ KnownInv
      /\ page = "rating" => RatingInv
      /\ InputInv
      => ControlsTypeOK
  BY <1>1, <1>2, SettingSays, InputSays DEF ControlsTypeOK
<1> QED
  BY <1>3, SettingInvariant, ShareInvariant, RatingInvariant, InputInvariant, PTL
=============================================================================
