------------------------- MODULE MCConversationPage -------------------------
(***************************************************************************)
(* Instances of ConversationPage for TLC: conversations, and the slots of  *)
(* the calls, are interchangeable.                                         *)
(***************************************************************************)
EXTENDS ConversationPage, TLC

Symmetric == Permutations(ConvId) \cup Permutations(Call)
=============================================================================
