--------------------------- MODULE MCAdapterDriver ---------------------------
EXTENDS AdapterDriver
CONSTANTS a1, a2, o1, o2

\* The adapter alone, before and after another device, replugged under a new
\* identity; other devices only; nothing.
Orders == {<<>>, <<a1>>, <<a2>>, <<o1>>, <<a1, o1>>, <<o1, a1>>, <<o1, a2>>, <<o1, o2>>}
=============================================================================
