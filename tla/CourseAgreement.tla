--------------------------- MODULE CourseAgreement ---------------------------
(***************************************************************************)
(* What voting promises: the rounds of a room are decided one after the    *)
(* other, each once and for all, and a console that loads a round's course *)
(* loads the one that was decided.                                         *)
(***************************************************************************)
EXTENDS Naturals, Sequences

CONSTANTS Consoles, Candidates

VARIABLES
  decided,  \* the courses decided so far, by round
  loaded    \* per console: the round and the course it races, or <<>>

Init == decided = <<>> /\ loaded = [c \in Consoles |-> <<>>]

Decide ==
  /\ \E x \in Candidates : decided' = Append(decided, x)
  /\ UNCHANGED loaded

Load(c) ==
  /\ \E r \in DOMAIN decided :
       loaded' = [loaded EXCEPT ![c] = <<r, decided[r]>>]
  /\ UNCHANGED decided

Stop(c) ==
  /\ loaded' = [loaded EXCEPT ![c] = <<>>]
  /\ UNCHANGED decided

Next == Decide \/ \E c \in Consoles : Load(c) \/ Stop(c)

Spec == Init /\ [][Next]_<<decided, loaded>>
=============================================================================
