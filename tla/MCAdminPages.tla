---------------------------- MODULE MCAdminPages ----------------------------
EXTENDS AdminPages, TLC
CONSTANTS i1, i2, i3

\* One user is found by the search and is an administrator, and the last item is
\* not there yet.
MCFound == {i1}
MCAdmins == {i1, i3}
MCFirst == {i1, i2}

CallSymmetry == Permutations(Call)
=============================================================================
