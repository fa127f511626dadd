----------------------------- MODULE CommandList -----------------------------
(***************************************************************************)
(* The commands that the chat offers: the built-in ones and the records of *)
(* the user, merged, and searched by what follows the slash                *)
(* (components/chat/slash-commands.ts).                                    *)
(*                                                                         *)
(* A record is a custom command, which has a prompt, or switches a         *)
(* built-in command on or off.  Texts are not spelled: Begins and Mentions *)
(* say what begins with, or contains, what has been typed.                 *)
(***************************************************************************)
EXTENDS ListFilter, SequencesExt

CONSTANTS
  Builtins, \* BUILTIN_COMMANDS, in their order
  Local,    \* the built-in ones that run in the page
  Name,     \* names of commands, a slash before them not counted
  Typed,    \* what can follow the slash
  Bare,     \* nothing follows it
  Begins,   \* <<q, n>>: the name or an alias of n begins with q
  Mentions  \* <<q, n>>: the name, an alias or the description of n contains q

ASSUME CommandAssumption ==
  /\ Builtins \in Seq(Name) /\ IsInjective(Builtins) /\ Local \subseteq ToSet(Builtins)
  /\ Bare \in Typed
  /\ Begins \subseteq Typed \X Name /\ Mentions \subseteq Typed \X Name

\* Map: of the records of one name the last counts.
Overridden(n, recs) == \E i \in DOMAIN recs : recs[i].name = n /\ ~recs[i].custom

OverrideOf(n, recs) == recs[SelectLastInSeq(recs, LAMBDA r : r.name = n /\ ~r.custom)]

CommandOf(r) == [name |-> r.name, custom |-> TRUE]

\* mergeWithUserCommands
Merge(recs) ==
  LET kept    == KeepAt(Builtins, {i \in DOMAIN Builtins :
                                    Overridden(Builtins[i], recs) => OverrideOf(Builtins[i], recs).on})
      customs == KeepAt(recs, {i \in DOMAIN recs : recs[i].custom /\ recs[i].on})
  IN [i \in DOMAIN kept |-> [name |-> kept[i], custom |-> FALSE]]
       \o [i \in DOMAIN customs |-> CommandOf(customs[i])]

\* isBuiltinEnabled: of the records of one name the first counts.
IsBuiltinEnabled(n, recs) ==
  Overridden(n, recs) =>
    recs[SelectInSeq(recs, LAMBDA r : r.name = n /\ ~r.custom)].on

\* searchCommands
Search(cmds, q) ==
  LET prefix == KeepAt(cmds, {i \in DOMAIN cmds : <<q, cmds[i].name>> \in Begins}) IN
  IF q = Bare THEN cmds
  ELSE IF prefix # <<>> THEN prefix
  ELSE KeepAt(cmds, {i \in DOMAIN cmds : <<q, cmds[i].name>> \in Mentions})
=============================================================================
