----------------------------- MODULE DurableCell -----------------------------
(***************************************************************************)
(* What the user-data file promises, whoever saves it and in whatever      *)
(* order: a volatile value `mem` that the game edits and a durable value   *)
(* `stored` that is replaced, in one step, by the whole of the volatile    *)
(* one, and that a boot brings back.  A boot that cannot read it starts    *)
(* over from the defaults, and is the only thing that does.                *)
(***************************************************************************)
EXTENDS Naturals

VARIABLES
  mem,      \* the buffer SettingsHolder::file points to
  stored,   \* what Init would read back after a power cycle
  unread    \* the last boot could not read it

Defaults(n) == [era |-> n, edits |-> 0]

Init == mem = Defaults(0) /\ stored = mem /\ unread = FALSE

\* The game changes settings, ratings, trophies in memory.
Edit ==
  /\ mem' = [mem EXCEPT !.edits = @ + 1]
  /\ UNCHANGED <<stored, unread>>

\* One whole-file write.
Store == stored' = mem /\ UNCHANGED <<mem, unread>>

\* Power off and boot.
Recover == mem' = stored /\ unread' = FALSE /\ UNCHANGED stored

\* A boot that cannot read what is stored; the defaults may be stored at once.
StartOver ==
  /\ mem' = Defaults(stored.era + 1)
  /\ stored' \in {stored, mem'}
  /\ unread' = TRUE

Next == Edit \/ Store \/ Recover \/ StartOver

Spec == Init /\ [][Next]_<<mem, stored, unread>>
=============================================================================
