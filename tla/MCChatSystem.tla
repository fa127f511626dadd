---------------------------- MODULE MCChatSystem ----------------------------
(***************************************************************************)
(* Instances of ChatSystem for TLC.  Sockets are interchangeable.          *)
(***************************************************************************)
EXTENDS ChatSystem, TLC

Sockets == Permutations(Session)

\* What the steps read and the invariants about the tab mention: of a thread only
\* whether it is empty, and neither the observations nor what the server only
\* writes (its memory of the replies, and the rows of tools where there are none).
TabsView ==
  <<shown, loaded, proc, conn, queue, timers, socketVars, bubble, bubbles, outbox,
    chat.n, Len(typedIn), convs, [c \in Conv |-> rows[c] # <<>>], client, pc, current,
    requested, turn, output, calls, sent, turns, heard, asked>>
=============================================================================
