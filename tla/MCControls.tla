----------------------------- MODULE MCControls -----------------------------
(***************************************************************************)
(* An instance of Controls for TLC.                                        *)
(***************************************************************************)
EXTENDS Controls, TLC

\* Two built-in commands, one of which runs in the page, and a custom one whose name
\* begins like the other; completing a built-in name leaves what its description
\* contains, completing the custom one leaves what nothing matches.
MCBuiltins == <<"clear", "summarize">>
MCBegins   == {<<"sum", "summarize">>, <<"sum", "sum">>}
MCMentions == MCBegins \cup {<<"clear ", "clear">>, <<"summarize ", "summarize">>}
MCTabbed   == [n \in Name |-> CASE n = "clear" -> "clear " [] n = "summarize" -> "summarize "
                                [] OTHER -> "noise"]

MCCustom   == [id |-> 1, name |-> "sum", custom |-> TRUE, on |-> TRUE]
MCOverride == [id |-> 2, name |-> "clear", custom |-> FALSE, on |-> FALSE]
MCOld      == {MCCustom}
MCLists    == {<<MCCustom>>, <<MCOverride>>}

\* The settings make do with one of the two built-in commands.
MCNames == {"clear", "sum"}
MCSettingBuiltins == <<"clear">>

Symmetry == Permutations(Call) \cup Permutations(Word)
=============================================================================
