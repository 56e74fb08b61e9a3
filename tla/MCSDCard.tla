------------------------------ MODULE MCSDCard ------------------------------
EXTENDS SDCard
CONSTANTS main, task

\* Longer than tmpBuffer and not, in one and in two places of the card,
\* through tmpBuffer and past it.
FatRequests ==
  {[write |-> w, sector |-> 0, count |-> 3, aligned |-> FALSE] : w \in BOOLEAN}
    \cup {[write |-> w, sector |-> 3, count |-> 1, aligned |-> a] : w, a \in BOOLEAN}
=============================================================================
