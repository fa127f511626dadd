-------------------------- MODULE MCChannelRouter --------------------------
(***************************************************************************)
(* Instances of ChannelRouter for TLC: a group chat with two users, and a  *)
(* private chat that one of them has with the same bot.                    *)
(***************************************************************************)
EXTENDS ChannelRouter, TLC

CONSTANTS m1, m2, m3, m4, m5, m6, group, private, ann, bob

\* ann writes once in private, otherwise in the group, bob once in the group.
MCChatOf == [m \in Msg |-> IF m = m3 THEN private ELSE group]
MCUserOf == [m \in Msg |-> IF m = m2 THEN bob ELSE ann]
=============================================================================
