----------------------------- MODULE MCWorkspace -----------------------------
(***************************************************************************)
(* Instances of Workspace for TLC: ann has every conversation, ben may be  *)
(* given one.  Requests are interchangeable.                               *)
(***************************************************************************)
EXTENDS Workspace, TLC

CONSTANTS ann, ben

MCOwnerOf == [c \in Conv |-> ann]

Requests == Permutations(Request)
=============================================================================
