---------------------------- MODULE MCVtpmReport ----------------------------
EXTENDS VtpmReport

CONSTANTS c1, c2, none, a, b, blank

\* Two of one size, a longer one, and one that no command can write.
MCData == {<<a>>, <<b>>, <<b, a>>, <<a, a, a>>}
=============================================================================
