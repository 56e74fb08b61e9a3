------------------------- MODULE TrackVotingProofs -------------------------
(***************************************************************************)
(* Proofs about TrackVoting for any consoles, courses, groups, lists and   *)
(* rules, in public rooms and in friend rooms of any number of sessions.   *)
(***************************************************************************)
EXTENDS TrackVoting, RoomRulesProofs

-----------------------------------------------------------------------------
(* The invariants.                                                          *)

\* The host has a vote to decide.
Deciding == stage[Host] = "voting" /\ ~HasDecided(Host)

\* c knows the decision of its round: it waits for the race or is in it.
Knows(c) == stage[c] = "racing" \/ (stage[c] = "voting" /\ HasDecided(c))

\* The course c has been told is the one that was decided for its round.
IsTold(c) ==
  /\ HasDecided(c) /\ round[c] \in DOMAIN decided
  /\ packet[c].course = decided[round[c]].course

\* What was told of decisions, and loaded.
CourseInv ==
  /\ \A c \in Consoles : Knows(c) => IsTold(c)
  /\ \A c \in Consoles : stage[c] = "racing" => track[c] = packet[c].course
  /\ \A c \in Consoles : stage[c] = "watching" /\ round[c] # 0 =>
       round[c] \in DOMAIN decided /\ track[c] = decided[round[c]].course

\* The host votes on the round after the last that was decided.
HostRound ==
  /\ stage[Host] \in {"lobby", "voting", "racing"}
  /\ round[Host] = IF Deciding THEN Len(decided) + 1 ELSE Len(decided)
  /\ stage[Host] = "voting" /\ HasDecided(Host) => packet[Host].phase # 0

\* Nobody has raced more races of its session than there were rounds.
RaceCounted ==
  \A c \in Consoles : race[c] <= round[c] /\ (stage[c] \in {"lobby", "watching", "out"} => race[c] = 0)

\* Two that know a round's decision know its engine class.
EngineInv ==
  \A c, d \in Consoles : Knows(c) /\ Knows(d) /\ round[c] = round[d] =>
    packet[c].engine = packet[d].engine

\* What the host has heard in this vote is what the guest has chosen in it.
HeardInv ==
  Deciding => \A g \in Guests : heard[g] # NotVoted /\ stage[g] # "out" =>
    stage[g] = "voting" /\ round[g] = round[Host] /\ packet[g].vote = heard[g]

\* No rules name the fourth track list, which the packet has room for.
ThreeLists == \A c \in Consoles : rules[c].trackList \in 0..2

VotingInv ==
  /\ RoomInv /\ ThreeLists /\ VotingTypeOK
  /\ CourseInv /\ HostRound /\ RaceCounted /\ EngineInv /\ HeardInv

-----------------------------------------------------------------------------
(* Votes, courses and packets.                                              *)

\* What stands for what: a group for one of its variants, any other slot for
\* itself, and always for a course or an arena.
LEMMA Slots ==
  /\ \A l \in 0..2 : TrackLists[l] \subseteq Courses \union Groups /\ TrackLists[l] # {}
  /\ \A b \in Buttons : Expand(b) \subseteq Courses \union Arenas
  /\ \A b \in Courses \union Arenas : Expand(b) = {b}
  /\ Random \notin Buttons /\ NotVoted \notin Buttons /\ Random # NotVoted
BY CourseAssumption DEF Expand, Buttons, Random, NotVoted

\* A vote that was cast stands for something to race on.
LEMMA ChoicesType ==
  ASSUME VotingTypeOK, NEW vote \in Votes, vote # NotVoted, NEW choice \in Choices(vote)
  PROVE  /\ choice \in Buttons /\ Expand(choice) \subseteq Courses \union Arenas
         /\ vote # Random => choice = vote
<1>1. layout[Host] \in 0..2
  BY RoomAssumption DEF VotingTypeOK
<1>2. choice \in Buttons
  BY <1>1, Slots DEF Choices, RandomTracks, Votes, Buttons
<1> QED
  BY <1>2, Slots DEF Choices

\* The updates the actions make to a packet, named to be cited.
WithVote(p, vote) == [p EXCEPT !.vote = vote]
Opened(p, engine) == [p EXCEPT !.phase = 1, !.engine = engine]
Undecided(p, voter) == [p EXCEPT !.course = Random, !.voter = voter]
WithDecision(p, course, voter) == [p EXCEPT !.course = course, !.voter = voter, !.phase = 2]

\* A new SELECT handler.
LEMMA FreshFields ==
  /\ FreshPacket \in PacketType /\ FreshPacket.vote = NotVoted /\ FreshPacket.phase = 0
  /\ FreshPacket.course = Random
BY DEF FreshPacket, PacketType, Votes, Engines

\* A vote is cast.
LEMMA VoteFields ==
  ASSUME NEW p \in PacketType, NEW vote \in Votes
  PROVE  LET q == WithVote(p, vote)
         IN  /\ q \in PacketType /\ q.vote = vote /\ q.phase = p.phase
             /\ q.engine = p.engine /\ q.course = p.course
BY DEF WithVote, PacketType

\* The host opens the vote.
LEMMA OpenedFields ==
  ASSUME NEW p \in PacketType, NEW engine \in Engines
  PROVE  LET q == Opened(p, engine)
         IN  /\ q \in PacketType /\ q.vote = p.vote /\ q.phase = 1
             /\ q.engine = engine /\ q.course = p.course
<1> DEFINE p1 == [p EXCEPT !.phase = 1]
<1>1. p1 \in PacketType /\ p1.phase = 1 /\ p1.vote = p.vote /\ p1.course = p.course
  BY DEF PacketType
<1>2. Opened(p, engine) = [p1 EXCEPT !.engine = engine]
  BY DEF Opened
<1> HIDE DEF p1
<1> QED
  BY <1>1, <1>2 DEF PacketType

\* The host's own vote was 0xFF.
LEMMA UndecidedFields ==
  ASSUME NEW p \in PacketType, NEW voter \in Consoles
  PROVE  LET q == Undecided(p, voter)
         IN  /\ q \in PacketType /\ q.vote = p.vote /\ q.phase = p.phase
             /\ q.engine = p.engine /\ q.course = Random
<1> DEFINE p1 == [p EXCEPT !.course = Random]
<1>1. /\ p1 \in PacketType /\ p1.course = Random /\ p1.vote = p.vote
      /\ p1.phase = p.phase /\ p1.engine = p.engine
  BY DEF PacketType
<1>2. Undecided(p, voter) = [p1 EXCEPT !.voter = voter]
  BY DEF Undecided
<1> HIDE DEF p1
<1> QED
  BY <1>1, <1>2 DEF PacketType

\* The host has decided.
LEMMA DecisionFields ==
  ASSUME NEW p \in PacketType, NEW course \in Courses \union Arenas, NEW voter \in Consoles
  PROVE  LET q == WithDecision(p, course, voter)
         IN  /\ q \in PacketType /\ q.vote = p.vote /\ q.phase = 2
             /\ q.engine = p.engine /\ q.course = course
<1> DEFINE p1 == [p EXCEPT !.course = course]
           p2 == [p1 EXCEPT !.voter = voter]
<1>1. p1 \in PacketType /\ p1.course = course /\ p1.vote = p.vote /\ p1.engine = p.engine
  BY DEF PacketType
<1>2. WithDecision(p, course, voter) = [p2 EXCEPT !.phase = 2]
  BY DEF WithDecision
<1> HIDE DEF p1
<1>3. p2 \in PacketType /\ p2.course = course /\ p2.vote = p.vote /\ p2.engine = p.engine
  BY <1>1 DEF PacketType
<1> HIDE DEF p2
<1> QED
  BY <1>2, <1>3 DEF PacketType

\* A guest reads the host's packet.
LEMMA TakenFields ==
  ASSUME NEW p \in PacketType, NEW host \in PacketType
  PROVE  LET q == Taken(p, host)
         IN  /\ q \in PacketType /\ q.vote = p.vote
             /\ q.engine = host.engine /\ q.course = host.course
<1> DEFINE phase == IF host.phase # 0 THEN host.phase ELSE p.phase
           p1 == [p EXCEPT !.engine = host.engine]
           p2 == [p1 EXCEPT !.phase = phase]
           p3 == [p2 EXCEPT !.course = host.course]
<1>1. phase \in 0..2
  BY DEF PacketType
<1>2. p1 \in PacketType /\ p1.engine = host.engine /\ p1.vote = p.vote /\ p1.phase = p.phase
  BY DEF PacketType
<1>3. Taken(p, host) = [p3 EXCEPT !.voter = host.voter]
  BY <1>2 DEF Taken
<1> HIDE DEF p1, phase
<1>4. p2 \in PacketType /\ p2.engine = host.engine /\ p2.vote = p.vote
  BY <1>1, <1>2 DEF PacketType
<1> HIDE DEF p2
<1>5. p3 \in PacketType /\ p3.engine = host.engine /\ p3.vote = p.vote /\ p3.course = host.course
  BY <1>4 DEF PacketType
<1> HIDE DEF p3
<1> QED
  BY <1>3, <1>5 DEF PacketType

-----------------------------------------------------------------------------
(* What each action does to the console it is of; the others stay.          *)

Others(c) ==
  \A d \in Consoles \ {c} :
    /\ stage'[d] = stage[d] /\ round'[d] = round[d] /\ race'[d] = race[d]
    /\ packet'[d] = packet[d] /\ track'[d] = track[d]

\* The host and the bounds.
LEMMA Bounds ==
  /\ Host \in Consoles /\ Guests = Consoles \ {Host} /\ MaxRounds \in Nat \ {0}
  /\ BlockCount \in Nat \ {0}
BY RoomAssumption, CourseAssumption DEF Guests

\* A new voting scene.
LEMMA EnterDoes ==
  ASSUME VotingTypeOK, NEW c \in Consoles, NEW r \in 0..MaxRounds, EnterVoting(c, r)
  PROVE  /\ stage' \in [Consoles -> {"lobby", "voting", "racing", "watching", "out"}]
         /\ round' \in [Consoles -> 0..MaxRounds]
         /\ packet' \in [Consoles -> PacketType]
         /\ heard' \in [Guests -> Votes]
         /\ stage'[c] = "voting" /\ round'[c] = r /\ packet'[c] = FreshPacket
         /\ \A d \in Consoles \ {c} : /\ stage'[d] = stage[d] /\ round'[d] = round[d]
                                      /\ packet'[d] = packet[d]
         /\ c = Host => \A g \in Guests : heard'[g] = NotVoted
         /\ c # Host => heard' = heard
<1>1. /\ stage' = [stage EXCEPT ![c] = "voting"] /\ round' = [round EXCEPT ![c] = r]
      /\ packet' = [packet EXCEPT ![c] = FreshPacket]
      /\ heard' = IF c = Host THEN [g \in Guests |-> NotVoted] ELSE heard
  BY DEF EnterVoting
<1>2. /\ stage \in [Consoles -> {"lobby", "voting", "racing", "watching", "out"}]
      /\ round \in [Consoles -> 0..MaxRounds] /\ packet \in [Consoles -> PacketType]
      /\ heard \in [Guests -> Votes]
  BY DEF VotingTypeOK
<1>3. NotVoted \in Votes
  BY DEF Votes
<1> QED
  BY <1>1, <1>2, <1>3, FreshFields

\* StartRoom: the host.
LEMMA StartRoomDoes ==
  ASSUME VotingTypeOK, NEW mode \in GameModes, StartRoom(mode)
  PROVE  /\ VotingTypeOK' /\ Others(Host) /\ Start(mode) /\ ~Public
         /\ UNCHANGED <<race, layout, track, blocking, decided>>
         /\ stage'[Host] = "voting" /\ round'[Host] = Len(decided) + 1
         /\ packet'[Host] = FreshPacket /\ \A g \in Guests : heard'[g] = NotVoted
<1>1. /\ ~Public /\ Start(mode) /\ EnterVoting(Host, Len(decided) + 1)
      /\ Len(decided) < MaxRounds /\ UNCHANGED <<race, layout, track, blocking, decided>>
  BY DEF StartRoom
<1>2. Len(decided) + 1 \in 0..MaxRounds
  BY <1>1, Bounds DEF VotingTypeOK
<1> QED
  BY <1>1, <1>2, EnterDoes, Bounds DEF VotingTypeOK, Others

\* ReadRoom: a guest.
LEMMA ReadRoomDoes ==
  ASSUME VotingTypeOK, NEW g \in Guests, ReadRoom(g)
  PROVE  /\ VotingTypeOK' /\ Others(g) /\ Read(g)
         /\ UNCHANGED <<race, heard, layout, track, blocking, decided>>
         /\ stage[g] = "lobby" /\ stage'[g] = "voting" /\ round'[g] = round[Host]
         /\ packet'[g] = FreshPacket
<1>1. /\ stage[g] = "lobby" /\ Read(g) /\ EnterVoting(g, round[Host])
      /\ UNCHANGED <<race, layout, track, blocking, decided>>
  BY DEF ReadRoom
<1>2. round[Host] \in 0..MaxRounds /\ g \in Consoles /\ g # Host
  BY Bounds DEF VotingTypeOK
<1> QED
  BY <1>1, <1>2, EnterDoes DEF VotingTypeOK, Others

\* JoinVote: a console that watched.
LEMMA JoinVoteDoes ==
  ASSUME VotingTypeOK, NEW g \in Guests, JoinVote(g)
  PROVE  /\ VotingTypeOK' /\ Others(g)
         /\ UNCHANGED <<roomVars, race, heard, layout, track, blocking, decided>>
         /\ stage[g] = "watching" /\ stage'[g] = "voting" /\ round'[g] = round[Host]
         /\ packet'[g] = FreshPacket
<1>1. /\ stage[g] = "watching" /\ EnterVoting(g, round[Host])
      /\ UNCHANGED <<roomVars, race, layout, track, blocking, decided>>
  BY DEF JoinVote
<1>2. round[Host] \in 0..MaxRounds /\ g \in Consoles /\ g # Host
  BY Bounds DEF VotingTypeOK
<1> QED
  BY <1>1, <1>2, EnterDoes DEF VotingTypeOK, Others

\* NextVote: any console, after a race.
LEMMA NextVoteDoes ==
  ASSUME VotingTypeOK, RaceCounted, NEW c \in Consoles, NextVote(c)
  PROVE  /\ VotingTypeOK' /\ Others(c)
         /\ UNCHANGED <<roomVars, layout, track, blocking, decided>>
         /\ stage[c] = "racing" /\ Begun(round[c]) /\ ~LastRace(c)
         /\ stage'[c] = "voting" /\ round'[c] = round[c] + 1 /\ race'[c] = race[c] + 1
         /\ packet'[c] = FreshPacket
         /\ c = Host => \A g \in Guests : heard'[g] = NotVoted
         /\ c # Host => heard' = heard
<1>1. /\ stage[c] = "racing" /\ Begun(round[c]) /\ ~LastRace(c) /\ round[c] < MaxRounds
      /\ EnterVoting(c, round[c] + 1)
      /\ race' = [race EXCEPT ![c] = race[c] + 1]
      /\ UNCHANGED <<roomVars, layout, track, blocking, decided>>
  BY DEF NextVote
<1>2. round[c] \in 0..MaxRounds /\ race[c] \in 0..MaxRounds /\ race[c] <= round[c]
  BY DEF VotingTypeOK, RaceCounted
<1>3. round[c] + 1 \in 0..MaxRounds /\ race[c] + 1 \in 0..MaxRounds
  BY <1>1, <1>2, Bounds
<1>4. /\ race' \in [Consoles -> 0..MaxRounds] /\ race'[c] = race[c] + 1
      /\ \A d \in Consoles \ {c} : race'[d] = race[d]
  BY <1>1, <1>3 DEF VotingTypeOK
<1> QED
  BY <1>1, <1>3, <1>4, EnterDoes DEF VotingTypeOK, Others

\* OpenVote: the host.
LEMMA OpenVoteDoes ==
  ASSUME VotingTypeOK, RoomInv, OpenVote
  PROVE  /\ VotingTypeOK' /\ Others(Host)
         /\ UNCHANGED <<roomVars, stage, round, race, heard, layout, track, blocking, decided>>
         /\ stage[Host] = "voting" /\ packet[Host].phase = 0
         /\ packet'[Host].course = packet[Host].course
         /\ packet'[Host].phase # 0 /\ packet'[Host].vote = packet[Host].vote
<1> DEFINE choices == EngineChoices
<1>1. PICK engine \in choices : packet' = [packet EXCEPT ![Host] = Opened(packet[Host], engine)]
  BY DEF OpenVote, Opened
<1>2. engine \in Engines
  <2>1. menu \in Menus
    BY DEF RoomInv, TypeInv, TypeOK
  <2> QED
    BY <1>1, <2>1 DEF EngineChoices, Engines, Menus
<1>3. packet \in [Consoles -> PacketType] /\ packet[Host] \in PacketType
  BY Bounds DEF VotingTypeOK
<1>4. /\ UNCHANGED <<roomVars, stage, round, race, heard, layout, track, blocking, decided>>
      /\ stage[Host] = "voting" /\ packet[Host].phase = 0
  BY DEF OpenVote
<1>5. /\ packet' \in [Consoles -> PacketType] /\ packet'[Host] = Opened(packet[Host], engine)
      /\ \A d \in Consoles \ {Host} : packet'[d] = packet[d]
  BY <1>1, <1>2, <1>3, OpenedFields, Bounds
<1> QED
  BY <1>2, <1>3, <1>4, <1>5, OpenedFields DEF VotingTypeOK, Others

\* A vote of c's is cast.
LEMMA CastDoes ==
  ASSUME VotingTypeOK, NEW c \in Consoles, NEW vote \in Votes, CastVote(c, vote),
         track' \in [Consoles -> Courses \union Arenas],
         \A d \in Consoles \ {c} : track'[d] = track[d]
  PROVE  /\ VotingTypeOK' /\ Others(c)
         /\ UNCHANGED <<roomVars, stage, round, race, heard, layout, blocking, decided>>
         /\ packet'[c].vote = vote /\ packet'[c].course = packet[c].course
         /\ packet'[c].phase = packet[c].phase /\ packet'[c].engine = packet[c].engine
<1>1. packet' = [packet EXCEPT ![c] = WithVote(packet[c], vote)]
  BY DEF CastVote, WithVote
<1>2. UNCHANGED <<roomVars, stage, round, race, heard, layout, blocking, decided>>
  BY DEF CastVote
<1>3. packet \in [Consoles -> PacketType] /\ packet[c] \in PacketType
  BY DEF VotingTypeOK
<1>4. /\ packet' \in [Consoles -> PacketType] /\ packet'[c] = WithVote(packet[c], vote)
      /\ \A d \in Consoles \ {c} : packet'[d] = packet[d]
  BY <1>1, <1>3, VoteFields
<1> QED
  BY <1>2, <1>3, <1>4, VoteFields DEF VotingTypeOK, Others

\* Each of the three ways to vote, and what a course vote can be.
LEMMA VoteDoes ==
  ASSUME VotingTypeOK, NEW c \in Consoles, ChooseCourse(c) \/ ChooseArena(c) \/ TimeOut(c)
  PROVE  /\ VotingTypeOK' /\ Others(c)
         /\ UNCHANGED <<roomVars, stage, round, race, heard, layout, blocking, decided>>
         /\ stage[c] = "voting" /\ packet[c].vote = NotVoted
         /\ packet'[c].course = packet[c].course
         /\ packet'[c].phase = packet[c].phase /\ packet'[c].engine = packet[c].engine
         /\ \/ packet'[c].vote = Random
            \/ OnlineMode(c) = "private_battle"
            \/ /\ WantedList(c) \in 0..2
               /\ \E slot \in TrackLists[WantedList(c)] : packet'[c].vote \in {slot} \union Expand(slot)
<1>1. /\ CanVote(c) /\ track \in [Consoles -> Courses \union Arenas]
      /\ layout[c] \in 0..2
  BY DEF ChooseCourse, ChooseArena, TimeOut, VotingTypeOK
<1>2. CASE ChooseCourse(c)
  <2>1. PICK slot \in TrackLists[layout[c]] :
          \E vote \in {slot} \cup (IF CanChooseVariant(c) THEN Expand(slot) ELSE {}) :
            /\ CastVote(c, vote)
            /\ \E t \in Expand(vote) : track' = [track EXCEPT ![c] = t]
    BY <1>2 DEF ChooseCourse
  <2>2. PICK vote \in {slot} \union Expand(slot) :
            /\ CastVote(c, vote)
            /\ \E t \in Expand(vote) : track' = [track EXCEPT ![c] = t]
    BY <2>1
  <2>3. slot \in Courses \union Groups /\ slot \in Buttons
    BY <1>1, <2>1, Slots DEF Buttons
  <2>4. vote \in Buttons /\ vote \in Votes
    BY <2>2, <2>3, Slots DEF Buttons, Votes
  <2>5. PICK t \in Courses \union Arenas : track' = [track EXCEPT ![c] = t]
    BY <2>2, <2>4, Slots
  <2>6. /\ track' \in [Consoles -> Courses \union Arenas]
        /\ \A d \in Consoles \ {c} : track'[d] = track[d]
    BY <1>1, <2>5
  <2>7. layout[c] = WantedList(c)
    BY <1>2 DEF ChooseCourse
  <2> QED
    BY <1>1, <2>1, <2>2, <2>4, <2>6, <2>7, CastDoes DEF CanVote
<1>3. CASE ChooseArena(c)
  <2>1. PICK a \in Arenas : CastVote(c, a)
    BY <1>3 DEF ChooseArena
  <2>2. a \in Votes /\ track' = track /\ OnlineMode(c) = "private_battle"
    BY <1>3, <2>1 DEF ChooseArena, Votes, Buttons
  <2> QED
    BY <1>1, <2>1, <2>2, CastDoes DEF CanVote
<1>4. CASE TimeOut(c)
  <2>1. CastVote(c, Random) /\ Random \in Votes /\ track' = track
    BY <1>4 DEF TimeOut, Votes
  <2> QED
    BY <1>1, <2>1, CastDoes DEF CanVote
<1> QED
  BY <1>2, <1>3, <1>4

\* The cup page lays out a list: nothing else.
LEMMA OpenCupsDoes ==
  ASSUME VotingTypeOK, NEW c \in Consoles, rules[c].trackList \in 0..2, OpenCups(c)
  PROVE  /\ VotingTypeOK' /\ Others(c)
         /\ UNCHANGED <<roomVars, stage, round, race, packet, heard, track, blocking, decided>>
         /\ stage[c] = "voting"
<1>1. /\ layout' = [layout EXCEPT ![c] = WantedList(c)] /\ stage[c] = "voting"
      /\ UNCHANGED <<roomVars, stage, round, race, packet, heard, track, blocking, decided>>
  BY DEF OpenCups, CanVote
<1>2. layout \in [Consoles -> 0..2]
  BY DEF VotingTypeOK
<1>3. WantedList(c) \in 0..2
  BY DEF WantedList
<1> QED
  BY <1>1, <1>2, <1>3 DEF VotingTypeOK, Others

\* A guest's packet reaches the host.
LEMMA HearDoes ==
  ASSUME VotingTypeOK, NEW g \in Guests, Hear(g)
  PROVE  /\ VotingTypeOK' /\ Others(g)
         /\ UNCHANGED <<roomVars, stage, round, race, packet, layout, track, blocking, decided>>
         /\ stage[Host] = "voting" /\ stage[g] = "voting" /\ round[g] = round[Host]
         /\ heard'[g] = packet[g].vote /\ \A f \in Guests \ {g} : heard'[f] = heard[f]
<1>1. /\ heard' = [heard EXCEPT ![g] = packet[g].vote]
      /\ UNCHANGED <<roomVars, stage, round, race, packet, layout, track, blocking, decided>>
      /\ stage[Host] = "voting" /\ stage[g] = "voting" /\ round[g] = round[Host]
  BY DEF Hear
<1>2. heard \in [Guests -> Votes] /\ packet[g] \in PacketType
  BY Bounds DEF VotingTypeOK
<1>3. packet[g].vote \in Votes
  BY <1>2 DEF PacketType
<1> QED
  BY <1>1, <1>2, <1>3 DEF VotingTypeOK, Others

\* A guest reads the host's packet.
LEMMA FollowDoes ==
  ASSUME VotingTypeOK, NEW g \in Guests, Follow(g)
  PROVE  /\ VotingTypeOK' /\ Others(g)
         /\ UNCHANGED <<roomVars, stage, round, race, heard, layout, track, blocking, decided>>
         /\ stage[Host] = "voting" /\ stage[g] = "voting" /\ round[g] = round[Host]
         /\ packet'[g].vote = packet[g].vote /\ packet'[g].course = packet[Host].course
         /\ packet'[g].engine = packet[Host].engine
<1>1. /\ packet' = [packet EXCEPT ![g] = Taken(packet[g], packet[Host])]
      /\ UNCHANGED <<roomVars, stage, round, race, heard, layout, track, blocking, decided>>
      /\ stage[Host] = "voting" /\ stage[g] = "voting" /\ round[g] = round[Host]
  BY DEF Follow
<1>2. /\ packet \in [Consoles -> PacketType] /\ packet[g] \in PacketType
      /\ packet[Host] \in PacketType /\ g \in Consoles
  BY Bounds DEF VotingTypeOK
<1>3. /\ packet' \in [Consoles -> PacketType] /\ packet'[g] = Taken(packet[g], packet[Host])
      /\ \A d \in Consoles \ {g} : packet'[d] = packet[d]
  BY <1>1, <1>2, TakenFields
<1> QED
  BY <1>1, <1>2, <1>3, TakenFields DEF VotingTypeOK, Others

\* StartRace: the course of the decision is loaded.
LEMMA StartRaceDoes ==
  ASSUME VotingTypeOK, NEW c \in Consoles, StartRace(c)
  PROVE  /\ VotingTypeOK' /\ Others(c)
         /\ UNCHANGED <<roomVars, round, race, packet, heard, layout, blocking, decided>>
         /\ stage[c] = "voting" /\ HasDecided(c) /\ stage'[c] = "racing"
         /\ track'[c] = packet[c].course
<1>1. /\ stage[c] = "voting" /\ HasDecided(c)
      /\ stage' = [stage EXCEPT ![c] = "racing"]
      /\ track' = [track EXCEPT ![c] = packet[c].course]
      /\ UNCHANGED <<roomVars, round, race, packet, heard, layout, blocking, decided>>
  BY DEF StartRace
<1>2. packet[c].course \in Courses \union Arenas
  BY <1>1 DEF VotingTypeOK, PacketType, HasDecided
<1> QED
  BY <1>1, <1>2 DEF VotingTypeOK, Others

\* Watch: the course of a console that races is loaded.
LEMMA WatchDoes ==
  ASSUME VotingTypeOK, NEW w \in Guests, NEW c \in Consoles, Watch(w, c)
  PROVE  /\ VotingTypeOK' /\ Others(w)
         /\ UNCHANGED <<roomVars, stage, race, packet, heard, layout, blocking, decided>>
         /\ stage[w] = "watching" /\ stage[c] = "racing"
         /\ track'[w] = track[c] /\ round'[w] = round[c] /\ w # c
<1>1. /\ stage[w] = "watching" /\ stage[c] = "racing"
      /\ track' = [track EXCEPT ![w] = track[c]]
      /\ round' = [round EXCEPT ![w] = round[c]]
      /\ UNCHANGED <<roomVars, stage, race, packet, heard, layout, blocking, decided>>
  BY DEF Watch
<1> QED
  BY <1>1, Bounds DEF VotingTypeOK, Others

\* EndSession: back to the lobby.
LEMMA EndSessionDoes ==
  ASSUME VotingTypeOK, NEW c \in Consoles, EndSession(c)
  PROVE  /\ VotingTypeOK' /\ Others(c) /\ BackToLobby(c)
         /\ UNCHANGED <<round, packet, heard, layout, track, blocking, decided>>
         /\ stage[c] = "racing" /\ Begun(round[c]) /\ LastRace(c)
         /\ stage'[c] = "lobby" /\ race'[c] = 0
<1>1. /\ stage[c] = "racing" /\ Begun(round[c]) /\ LastRace(c) /\ BackToLobby(c)
      /\ stage' = [stage EXCEPT ![c] = "lobby"]
      /\ race' = [race EXCEPT ![c] = 0]
      /\ UNCHANGED <<round, packet, heard, layout, track, blocking, decided>>
  BY DEF EndSession
<1> QED
  BY <1>1, Bounds DEF VotingTypeOK, Others

\* Leave: a guest is gone.
LEMMA LeaveDoes ==
  ASSUME VotingTypeOK, NEW g \in Guests, Leave(g)
  PROVE  /\ VotingTypeOK' /\ Others(g)
         /\ UNCHANGED <<menu, rules, announced, talk, round, packet, heard,
                        layout, track, blocking, decided>>
         /\ stage'[g] = "out" /\ race'[g] = 0
         /\ session' = [session EXCEPT ![g] = NoSession]
         /\ mail' = [mail EXCEPT ![g] = NoPacket]
<1>1. /\ stage' = [stage EXCEPT ![g] = "out"]
      /\ race' = [race EXCEPT ![g] = 0]
      /\ session' = [session EXCEPT ![g] = NoSession]
      /\ mail' = [mail EXCEPT ![g] = NoPacket]
      /\ UNCHANGED <<menu, rules, announced, talk, round, packet, heard,
                     layout, track, blocking, decided>>
  BY DEF Leave
<1> QED
  BY <1>1, Bounds DEF VotingTypeOK, Others

\* Join: a guest is back, with nothing of the session it left.
LEMMA JoinDoes ==
  ASSUME VotingTypeOK, NEW g \in Guests, Join(g)
  PROVE  /\ VotingTypeOK' /\ Others(g)
         /\ UNCHANGED <<menu, rules, session, announced, talk,
                        race, packet, heard, layout, track, blocking, decided>>
         /\ stage[g] = "out" /\ stage[Host] = (IF Public THEN "racing" ELSE "lobby")
         /\ stage'[g] = (IF Public THEN "watching" ELSE "lobby") /\ round'[g] = 0
         /\ mail' = [mail EXCEPT ![g] = NoPacket]
<1> DEFINE next == IF Public THEN "watching" ELSE "lobby"
<1>1. /\ stage' = [stage EXCEPT ![g] = next]
      /\ round' = [round EXCEPT ![g] = 0]
      /\ mail' = [mail EXCEPT ![g] = NoPacket]
      /\ stage[g] = "out" /\ stage[Host] = (IF Public THEN "racing" ELSE "lobby")
      /\ UNCHANGED <<menu, rules, session, announced, talk,
                     race, packet, heard, layout, track, blocking, decided>>
  BY DEF Join
<1>2. next \in {"lobby", "voting", "racing", "watching", "out"}
  OBVIOUS
<1>3. next = (IF Public THEN "watching" ELSE "lobby")
  OBVIOUS
<1> HIDE DEF next
<1> QED
  BY <1>1, <1>2, <1>3, Bounds DEF VotingTypeOK, Others

\* The entry DecideTrack makes for a vote it decides.
Entry(voter, choice, course) ==
  [course |-> course, voter |-> voter, choice |-> choice,
   votes |-> [c \in Consoles |-> packet[c].vote],
   haw |-> rules[Host].haw, mode |-> OnlineMode(Host),
   trackList |-> rules[Host].trackList, laidOut |-> layout[Host]]

\* Its type and fields.
LEMMA EntryFields ==
  ASSUME VotingTypeOK, RoomInv, NEW voter \in Consoles, NEW choice \in Buttons,
         NEW course \in Courses \union Arenas
  PROVE  LET d == Entry(voter, choice, course)
         IN  /\ d \in Decisions /\ d.course = course /\ d.voter = voter /\ d.choice = choice
             /\ d.haw = rules[Host].haw /\ d.mode = OnlineMode(Host)
             /\ d.trackList = rules[Host].trackList /\ d.laidOut = layout[Host]
             /\ \A c \in Consoles : d.votes[c] = packet[c].vote
<1>1. OnlineMode(Host) \in OnlineModes
  BY DEF OnlineMode, OnlineModes
<1>2. rules[Host] \in Rules /\ layout[Host] \in 0..2
  BY Bounds DEF RoomInv, TypeInv, TypeOK, VotingTypeOK
<1>3. rules[Host].haw \in BOOLEAN /\ rules[Host].trackList \in 0..3
  BY <1>2 DEF Rules
<1>4. \A c \in Consoles : packet[c].vote \in Votes
  BY DEF VotingTypeOK, PacketType
<1>5. [c \in Consoles |-> packet[c].vote] \in [Consoles -> Votes]
  BY <1>4
<1> QED
  BY <1>1, <1>2, <1>3, <1>5 DEF Entry, Decisions

\* What DecideTrack decides: the choice of a console whose vote the host has,
\* the host's own under "Host always wins".
Won(voter, choice, course) ==
  /\ HostView(voter) # NotVoted /\ stage[voter] # "out"
  /\ choice \in Choices(HostView(voter)) /\ course \in Expand(choice)
  /\ rules[Host].haw /\ OnlineMode(Host) = "private_vs" =>
       voter = Host /\ choice = packet[Host].vote
  /\ packet' = [packet EXCEPT ![Host] = WithDecision(packet[Host], course, voter)]
  /\ decided' = Append(decided, Entry(voter, choice, course))

\* One of the three ways to decide, or the host's 0xFF goes out.
LEMMA DecideCases ==
  ASSUME VotingTypeOK, DecideTrack
  PROVE  /\ blocking' \in [tracks : [0..(BlockCount - 1) -> Votes \cup {None}],
                           index : 0..(BlockCount - 1)]
         /\ \/ \E voter \in Consoles : \E choice \in Choices(HostView(voter)) :
                 \E course \in Expand(choice) : Won(voter, choice, course)
            \/ /\ packet' = [packet EXCEPT ![Host] = Undecided(packet[Host], Host)]
               /\ UNCHANGED decided
<1>1. /\ stage[Host] = "voting" /\ \A c \in Available : HostView(c) # NotVoted
      /\ DecideForHost \/ DecideVS \/ DecideBattle
      /\ Available \subseteq Consoles /\ Host \in Available
      /\ \A c \in Available : stage[c] # "out"
  BY Bounds DEF DecideTrack, Available
<1>2. blocking \in [tracks : [0..(BlockCount - 1) -> Votes \cup {None}],
                    index : 0..(BlockCount - 1)]
  BY DEF VotingTypeOK
<1>3. ASSUME NEW voter \in Available, NEW choice \in Choices(HostView(voter)), Win(voter, choice),
             rules[Host].haw /\ OnlineMode(Host) = "private_vs" =>
               voter = Host /\ choice = packet[Host].vote
      PROVE  \E course \in Expand(choice) : Won(voter, choice, course)
  <2>1. PICK course \in Expand(choice) :
          /\ packet' = [packet EXCEPT ![Host] = WithDecision(packet[Host], course, voter)]
          /\ decided' = Append(decided, Entry(voter, choice, course))
    BY <1>3 DEF Win, WithDecision, Entry
  <2>2. HostView(voter) # NotVoted /\ stage[voter] # "out"
    BY <1>1
  <2>3. Won(voter, choice, course)
    BY <1>3, <2>1, <2>2 DEF Won
  <2> QED
    BY <2>3
<1>4. CASE DecideForHost
  <2>1. rules[Host].haw /\ OnlineMode(Host) = "private_vs" /\ UNCHANGED blocking
    BY <1>4 DEF DecideForHost
  <2>2. CASE packet[Host].vote = Random
    <3>1. packet' = [packet EXCEPT ![Host] = Undecided(packet[Host], Host)] /\ UNCHANGED decided
      BY <1>4, <2>2 DEF DecideForHost, Undecided
    <3> QED
      BY <1>2, <2>1, <3>1
  <2>3. CASE packet[Host].vote # Random
    <3>1. Win(Host, packet[Host].vote)
      BY <1>4, <2>3 DEF DecideForHost
    <3>2. packet[Host].vote \in Choices(HostView(Host))
      BY <2>3 DEF Choices, HostView
    <3> QED
      BY <1>1, <1>2, <1>3, <2>1, <3>1, <3>2
  <2> QED
    BY <2>2, <2>3
<1>5. CASE DecideVS
  <2>1. ~(rules[Host].haw /\ OnlineMode(Host) = "private_vs")
    BY <1>5 DEF DecideVS
  <2>2. PICK voter \in Available : \E choice \in Choices(HostView(voter)) :
          blocking' = AddTrackToBlocking(choice) /\ Win(voter, choice)
    BY <1>1, <1>5 DEF DecideVS
  <2>3. PICK choice \in Choices(HostView(voter)) :
          blocking' = AddTrackToBlocking(choice) /\ Win(voter, choice)
    BY <2>2
  <2>4. (blocking.index + 1) % BlockCount \in 0..(BlockCount - 1)
    BY <1>2, Bounds
  <2>5. blocking' \in [tracks : [0..(BlockCount - 1) -> Votes \cup {None}],
                       index : 0..(BlockCount - 1)]
    <3> DEFINE T == [0..(BlockCount - 1) -> Votes \cup {None}]
               J == 0..(BlockCount - 1)
               i == (blocking.index + 1) % BlockCount
    <3>1. blocking' = [blocking EXCEPT !.index = i]
      BY <2>3 DEF AddTrackToBlocking
    <3>2. i \in J /\ blocking \in [tracks : T, index : J]
      BY <1>2, <2>4
    <3> HIDE DEF T, J, i
    <3>3. blocking' \in [tracks : T, index : J]
      BY <3>1, <3>2
    <3> QED
      BY <3>3 DEF T, J
  <2> QED
    BY <1>1, <1>3, <2>1, <2>3, <2>5
<1>6. CASE DecideBattle
  <2>1. /\ OnlineMode(Host) # "private_vs" /\ UNCHANGED blocking
        /\ \E voter \in Available : \E choice \in Choices(HostView(voter)) : Win(voter, choice)
    BY <1>6 DEF DecideBattle
  <2> QED
    BY <1>1, <1>2, <1>3, <2>1
<1> QED
  BY <1>1, <1>4, <1>5, <1>6

\* What the host's decision leaves.
LEMMA DecideDoes ==
  ASSUME VotingTypeOK, RoomInv, HostRound, DecideTrack
  PROVE  /\ VotingTypeOK' /\ Others(Host)
         /\ UNCHANGED <<roomVars, stage, round, race, heard, layout, track>>
         /\ Deciding /\ \A c \in Consoles : stage[c] # "out" => HostView(c) # NotVoted
         /\ packet'[Host].vote = packet[Host].vote
         /\ packet'[Host].engine = packet[Host].engine
         /\ \/ /\ UNCHANGED decided /\ packet'[Host].course = Random
            \/ \E voter \in Consoles, choice \in Buttons, course \in Courses \union Arenas :
                 /\ Won(voter, choice, course) /\ decided' = Append(decided, Entry(voter, choice, course))
                 /\ packet'[Host].course = course /\ packet'[Host].phase # 0
<1>1. /\ UNCHANGED <<roomVars, stage, round, race, heard, layout, track>>
      /\ stage[Host] = "voting" /\ ~HasDecided(Host) /\ Deciding
      /\ \A c \in Consoles : stage[c] # "out" => HostView(c) # NotVoted
  BY DEF DecideTrack, Deciding, Available
<1>2. /\ packet \in [Consoles -> PacketType] /\ packet[Host] \in PacketType
      /\ decided \in Seq(Decisions) /\ round[Host] \in 0..MaxRounds
  BY Bounds DEF VotingTypeOK
<1>3. Len(decided) + 1 <= MaxRounds
  BY <1>1, <1>2 DEF HostRound
<1>4. blocking' \in [tracks : [0..(BlockCount - 1) -> Votes \cup {None}],
                     index : 0..(BlockCount - 1)]
  BY DecideCases
<1>5. CASE /\ packet' = [packet EXCEPT ![Host] = Undecided(packet[Host], Host)]
           /\ UNCHANGED decided
  <2>1. /\ packet' \in [Consoles -> PacketType] /\ packet'[Host] = Undecided(packet[Host], Host)
        /\ \A d \in Consoles \ {Host} : packet'[d] = packet[d]
    BY <1>2, <1>5, UndecidedFields, Bounds
  <2> QED
    BY <1>1, <1>2, <1>4, <1>5, <2>1, UndecidedFields, Bounds DEF VotingTypeOK, Others
<1>6. CASE \E voter \in Consoles : \E choice \in Choices(HostView(voter)) :
             \E course \in Expand(choice) : Won(voter, choice, course)
  <2>1. PICK voter \in Consoles : \E choice \in Choices(HostView(voter)) :
               \E course \in Expand(choice) : Won(voter, choice, course)
    BY <1>6
  <2>2. PICK choice \in Choices(HostView(voter)) :
               \E course \in Expand(choice) : Won(voter, choice, course)
    BY <2>1
  <2>3. PICK course \in Expand(choice) : Won(voter, choice, course)
    BY <2>2
  <2>4. HostView(voter) \in Votes /\ HostView(voter) # NotVoted
    <3>1. packet[Host].vote \in Votes /\ heard \in [Guests -> Votes]
      BY <1>2 DEF PacketType, VotingTypeOK
    <3> QED
      BY <2>3, <3>1, Bounds DEF HostView, Won
  <2>5. choice \in Buttons /\ course \in Courses \union Arenas
    BY <2>3, <2>4, ChoicesType
  <2>6. /\ packet' = [packet EXCEPT ![Host] = WithDecision(packet[Host], course, voter)]
        /\ decided' = Append(decided, Entry(voter, choice, course))
    BY <2>3 DEF Won
  <2>7. /\ packet' \in [Consoles -> PacketType]
        /\ packet'[Host] = WithDecision(packet[Host], course, voter)
        /\ \A d \in Consoles \ {Host} : packet'[d] = packet[d]
    BY <1>2, <2>5, <2>6, DecisionFields, Bounds
  <2>8. Entry(voter, choice, course) \in Decisions
    BY <2>5, EntryFields
  <2>9. decided' \in Seq(Decisions) /\ Len(decided') <= MaxRounds
    BY <1>2, <1>3, <2>6, <2>8
  <2>10. /\ packet'[Host].vote = packet[Host].vote /\ packet'[Host].engine = packet[Host].engine
        /\ packet'[Host].course = course /\ packet'[Host].phase # 0
    BY <1>2, <2>5, <2>7, DecisionFields
  <2> QED
    BY <1>1, <1>4, <2>3, <2>5, <2>6, <2>7, <2>9, <2>10, Bounds DEF VotingTypeOK, Others
<1> QED
  BY <1>5, <1>6, DecideCases

-----------------------------------------------------------------------------
(* The room beneath the vote.                                               *)

\* A guest leaves or joins: its session, if it was in one, and its packet go.
LEMMA ComesOrGoes ==
  ASSUME RoomInv, NEW g \in Guests, UNCHANGED <<menu, rules, announced, talk>>,
         UNCHANGED session \/ session' = [session EXCEPT ![g] = NoSession],
         mail' = [mail EXCEPT ![g] = NoPacket]
  PROVE  RoomInv'
<1>1. /\ menu \in Menus /\ rules \in [Consoles -> Rules] /\ mail \in [Guests -> Packets]
      /\ session \in [Consoles -> Sessions] /\ talk \in Nat
      /\ announced \in Seq([menu : Menus, mode : 0..255]) /\ PacketsCarryRules
  BY DEF RoomInv, TypeInv, TypeOK
<1>2. session' \in [Consoles -> Sessions] /\ mail' \in [Guests -> Packets]
  BY <1>1, NoSessionType, NoPacketType, Bounds
<1>3. \A f \in Guests : mail'[f] = mail[f] \/ mail'[f] = NoPacket
  BY <1>1
<1>4. TypeInv'
  BY <1>1, <1>2, <1>3, SlotsEmptied DEF TypeInv, TypeOK
<1>5. ASSUME NEW c \in Consoles, ~InLobby(c)' PROVE session'[c] = session[c] /\ rules'[c] = rules[c]
  BY <1>1, <1>5 DEF InLobby
<1> QED
  BY <1>4, <1>5, RoomStays

\* Any other step is one of the room's, or leaves the room alone.
LEMMA RoomSteps ==
  ASSUME [VotingNext]_vars
  PROVE  \/ [Next]_roomVars
         \/ \E g \in Guests : Leave(g) \/ Join(g)
<1>1. ASSUME NEW mode \in GameModes, StartRoom(mode) PROVE [Next]_roomVars
  BY <1>1 DEF StartRoom, Next
<1>2. ASSUME NEW g \in Guests, ReadRoom(g) PROVE [Next]_roomVars
  BY <1>2 DEF ReadRoom, Next
<1>3. ASSUME NEW c \in Consoles, EndSession(c) PROVE [Next]_roomVars
  BY <1>3 DEF EndSession, Next
<1>4. CASE EditRules
  BY <1>4 DEF EditRules, Next
<1>5. CASE OpenVote \/ DecideTrack
  BY <1>5 DEF OpenVote, DecideTrack
<1>6. ASSUME NEW c \in Consoles, OpenCups(c) \/ ChooseCourse(c) \/ ChooseArena(c) \/ TimeOut(c)
      PROVE  UNCHANGED roomVars
  BY <1>6 DEF OpenCups, ChooseCourse, ChooseArena, TimeOut, CastVote
<1>7. ASSUME NEW c \in Consoles, StartRace(c) \/ NextVote(c) PROVE UNCHANGED roomVars
  BY <1>7 DEF StartRace, NextVote
<1>8. ASSUME NEW g \in Guests, JoinVote(g) \/ Hear(g) \/ Follow(g) PROVE UNCHANGED roomVars
  BY <1>8 DEF JoinVote, Hear, Follow
<1>9. ASSUME NEW g \in Guests, NEW c \in Consoles, Watch(g, c) PROVE UNCHANGED roomVars
  BY <1>9 DEF Watch
<1>10. CASE UNCHANGED vars
  BY <1>10 DEF vars
<1> QED
  BY <1>1, <1>2, <1>3, <1>4, <1>5, <1>6, <1>7, <1>8, <1>9, <1>10 DEF VotingNext

\* A room of any votes is a room.
LEMMA RoomKept == RoomInv /\ [VotingNext]_vars => RoomInv'
<1> SUFFICES ASSUME RoomInv, [VotingNext]_vars PROVE RoomInv'
  OBVIOUS
<1>1. ASSUME NEW g \in Guests, Leave(g) PROVE RoomInv'
  BY <1>1, ComesOrGoes DEF Leave
<1>2. ASSUME NEW g \in Guests, Join(g) PROVE RoomInv'
  BY <1>2, ComesOrGoes DEF Join
<1> QED
  BY <1>1, <1>2, RoomSteps, RoomInvStep

\* Rules that were packed name one of the three lists.
LEMMA ParsedList ==
  ASSUME NEW m \in Menus, NEW r \in Rules
  PROVE  ParseHostSettings(r, Pack(m)).trackList \in 0..2
<1>1. m.trackList \in 0..2
  BY DEF Menus
<1> QED
  BY <1>1, PackedRulesComeBack, CarriedFields

\* Whatever rules a console takes, they name one of them.
LEMMA ListsKept == RoomInv /\ ThreeLists /\ [VotingNext]_vars => ThreeLists'
<1> SUFFICES ASSUME RoomInv, ThreeLists, [VotingNext]_vars PROVE ThreeLists'
  OBVIOUS
<1>1. /\ menu \in Menus /\ rules \in [Consoles -> Rules] /\ PacketsCarryRules
  BY DEF RoomInv, TypeInv, TypeOK
<1>2. ASSUME NEW mode \in GameModes, StartRoom(mode) PROVE ThreeLists'
  <2>1. rules' = [rules EXCEPT ![Host] = ParseHostSettings(rules[Host], Pack(menu))]
    BY <1>2 DEF StartRoom, Start, Send, Carries
  <2>2. Host \in Consoles
    BY Bounds
  <2> QED
    BY <1>1, <2>1, <2>2, ParsedList DEF ThreeLists
<1>3. ASSUME NEW g \in Guests, ReadRoom(g) PROVE ThreeLists'
  <2>1. rules' = IF Carries(mail[g].type)
                 THEN [rules EXCEPT ![g] = ParseHostSettings(rules[g], mail[g].message)]
                 ELSE rules
    BY <1>3 DEF ReadRoom, Read
  <2>2. Carries(mail[g].type) => \E m \in Menus : mail[g].message = Pack(m)
    BY <1>1 DEF PacketsCarryRules, FromHost
  <2>3. g \in Consoles
    BY Bounds
  <2> QED
    BY <1>1, <2>1, <2>2, <2>3, ParsedList DEF ThreeLists
<1>4. UNCHANGED rules => ThreeLists'
  BY DEF ThreeLists
<1>5. ASSUME NEW g \in Guests, Leave(g) \/ Join(g) PROVE UNCHANGED rules
  BY <1>5 DEF Leave, Join
<1>6. CASE EditRules
  BY <1>4, <1>6 DEF EditRules, EditMenu
<1>7. CASE OpenVote \/ DecideTrack
  BY <1>4, <1>7 DEF OpenVote, DecideTrack, roomVars
<1>8. ASSUME NEW c \in Consoles, OpenCups(c) \/ ChooseCourse(c) \/ ChooseArena(c) \/ TimeOut(c)
      PROVE  UNCHANGED rules
  BY <1>8 DEF OpenCups, ChooseCourse, ChooseArena, TimeOut, CastVote, roomVars
<1>9. ASSUME NEW c \in Consoles, StartRace(c) \/ NextVote(c) \/ EndSession(c) PROVE UNCHANGED rules
  BY <1>9 DEF StartRace, NextVote, EndSession, BackToLobby, roomVars
<1>10. ASSUME NEW g \in Guests, JoinVote(g) \/ Hear(g) \/ Follow(g) PROVE UNCHANGED rules
  BY <1>10 DEF JoinVote, Hear, Follow, roomVars
<1>11. ASSUME NEW g \in Guests, NEW c \in Consoles, Watch(g, c) PROVE UNCHANGED rules
  BY <1>11 DEF Watch, roomVars
<1>12. CASE UNCHANGED vars
  BY <1>4, <1>12 DEF vars, roomVars
<1> QED
  BY <1>2, <1>3, <1>4, <1>5, <1>6, <1>7, <1>8, <1>9, <1>10, <1>11, <1>12 DEF VotingNext

-----------------------------------------------------------------------------
(* The vote.                                                                *)

\* Nobody has voted yet.
LEMMA VotingInvInit == VotingInit => VotingInv
<1> SUFFICES ASSUME VotingInit PROVE VotingInv
  OBVIOUS
<1>1. /\ Init /\ stage = [c \in Consoles |-> IF Public THEN "voting" ELSE "lobby"]
      /\ round = [c \in Consoles |-> IF Public THEN 1 ELSE 0]
      /\ race = [c \in Consoles |-> 0]
      /\ packet = [c \in Consoles |-> FreshPacket]
      /\ heard = [c \in Guests |-> NotVoted]
      /\ layout \in {[c \in Consoles |-> l] : l \in 0..2}
      /\ \E t \in Courses : track = [c \in Consoles |-> t]
      /\ blocking = [tracks |-> [i \in 0..(BlockCount - 1) |-> None], index |-> 0]
      /\ decided = <<>>
  BY DEF VotingInit
<1>2. RoomInv
  BY <1>1, RoomInvInit
<1>3. ThreeLists
  <2>1. PICK last \in Memory, left \in Memory :
          rules = [c \in Consoles |->
                     [haw |-> last, miiHeads |-> TRUE, raceCount |-> 0, megaCloud |-> FALSE,
                      allItems |-> left, variants |-> left,
                      forcedRandom |-> left, commonRandom |-> left,
                      trackList |-> Bit(left)]]
    BY DEF VotingInit, Init
  <2>2. ASSUME NEW c \in Consoles PROVE rules[c].trackList \in 0..2
    BY <2>1 DEF Bit
  <2> QED
    BY <2>2 DEF ThreeLists
<1>4. VotingTypeOK
  <2>1. /\ stage \in [Consoles -> {"lobby", "voting", "racing", "watching", "out"}]
        /\ round \in [Consoles -> 0..MaxRounds] /\ race \in [Consoles -> 0..MaxRounds]
    BY <1>1, Bounds
  <2>2. packet \in [Consoles -> PacketType] /\ heard \in [Guests -> Votes]
    BY <1>1, FreshFields DEF Votes
  <2>3. layout \in [Consoles -> 0..2] /\ track \in [Consoles -> Courses \union Arenas]
    BY <1>1
  <2>4. 0 \in 0..(BlockCount - 1)
    BY Bounds
  <2>5. blocking \in [tracks : [0..(BlockCount - 1) -> Votes \cup {None}],
                      index : 0..(BlockCount - 1)]
    BY <1>1, <2>4
  <2>6. decided \in Seq(Decisions) /\ Len(decided) <= MaxRounds
    BY <1>1, Bounds
  <2> QED
    BY <2>1, <2>2, <2>3, <2>5, <2>6 DEF VotingTypeOK
<1>5. \A c \in Consoles : ~HasDecided(c) /\ stage[c] \in {"voting", "lobby"}
  BY <1>1, FreshFields DEF HasDecided
<1>6. CourseInv /\ EngineInv
  BY <1>5 DEF CourseInv, EngineInv, Knows
<1>7. HostRound
  BY <1>1, <1>5, Bounds DEF HostRound, Deciding
<1>8. RaceCounted
  <2>1. race = [c \in Consoles |-> 0] /\ round = [c \in Consoles |-> IF Public THEN 1 ELSE 0]
    BY DEF VotingInit
  <2>2. ASSUME NEW c \in Consoles PROVE race[c] \in 0..0 /\ round[c] \in 0..1
    BY <2>1
  <2>3. ASSUME NEW c \in Consoles
        PROVE  race[c] <= round[c] /\ (stage[c] \in {"lobby", "watching", "out"} => race[c] = 0)
    BY <2>2
  <2> QED
    BY <2>3, Zenon DEF RaceCounted
<1>9. HeardInv
  BY <1>1 DEF HeardInv
<1> QED
  BY <1>2, <1>3, <1>4, <1>6, <1>7, <1>8, <1>9 DEF VotingInv

\* What the action of one console has to show for it, when nothing is decided:
\* that it learns a decision from one that knows it.
Learns(c) ==
  /\ Knows(c)' => \E d \in Consoles : Knows(d) /\ round[d] = round'[c]
                    /\ packet'[c].course = packet[d].course
                    /\ packet'[c].engine = packet[d].engine
  /\ stage'[c] = "racing" => track'[c] = packet'[c].course
  /\ stage'[c] = "watching" /\ round'[c] # 0 =>
       round'[c] \in DOMAIN decided /\ track'[c] = decided[round'[c]].course
  /\ race'[c] <= round'[c]
  /\ stage'[c] \in {"lobby", "watching", "out"} => race'[c] = 0

\* Then the invariant is kept.
LEMMA LearnsKeeps ==
  ASSUME VotingInv, RoomInv', ThreeLists', VotingTypeOK', NEW c \in Consoles, Others(c),
         UNCHANGED decided, Learns(c), c = Host => HostRound', HeardInv'
  PROVE  VotingInv'
<1>1. \A d \in Consoles : Knows(d) => IsTold(d)
  BY DEF VotingInv, CourseInv
<1>2. \A d \in Consoles \ {c} : /\ Knows(d)' <=> Knows(d)
                                /\ IsTold(d)' <=> IsTold(d)
  BY DEF Others, Knows, IsTold, HasDecided
<1>3. Knows(c)' => IsTold(c)'
  <2> SUFFICES ASSUME Knows(c)' PROVE IsTold(c)'
    OBVIOUS
  <2>1. PICK d \in Consoles : Knows(d) /\ round[d] = round'[c] /\ packet'[c].course = packet[d].course
    BY DEF Learns
  <2> QED
    BY <1>1, <2>1 DEF IsTold, HasDecided
<1>4. CourseInv'
  <2>1. \A d \in Consoles : Knows(d)' => IsTold(d)'
    BY <1>1, <1>2, <1>3
  <2>2. \A d \in Consoles : stage'[d] = "racing" => track'[d] = packet'[d].course
    BY DEF Others, Learns, VotingInv, CourseInv
  <2>3. \A d \in Consoles : stage'[d] = "watching" /\ round'[d] # 0 =>
          round'[d] \in DOMAIN decided /\ track'[d] = decided[round'[d]].course
    BY DEF Others, Learns, VotingInv, CourseInv
  <2> QED
    BY <2>1, <2>2, <2>3 DEF CourseInv
<1>5. HostRound'
  <2>1. CASE c = Host
    BY <2>1
  <2>2. CASE c # Host
    <3>1. /\ stage'[Host] = stage[Host] /\ round'[Host] = round[Host]
          /\ packet'[Host] = packet[Host]
      BY <2>2, Bounds DEF Others
    <3> QED
      BY <3>1 DEF VotingInv, HostRound, Deciding, HasDecided
  <2> QED
    BY <2>1, <2>2
<1>6. RaceCounted'
  BY DEF Others, Learns, VotingInv, RaceCounted
<1>7. EngineInv'
  <2> SUFFICES ASSUME NEW a \in Consoles, NEW b \in Consoles, Knows(a)', Knows(b)', round'[a] = round'[b]
               PROVE  packet'[a].engine = packet'[b].engine
    BY DEF EngineInv
  <2>1. \E d \in Consoles : Knows(d) /\ round[d] = round'[a] /\ packet'[a].engine = packet[d].engine
    BY <1>2 DEF Learns, Others
  <2>2. \E d \in Consoles : Knows(d) /\ round[d] = round'[b] /\ packet'[b].engine = packet[d].engine
    BY <1>2 DEF Learns, Others
  <2> QED
    BY <2>1, <2>2 DEF VotingInv, EngineInv
<1> QED
  BY <1>4, <1>5, <1>6, <1>7 DEF VotingInv

\* The host has heard nothing new: a guest that is heard only leaves before
\* the host has decided.
LEMMA HeardKept ==
  ASSUME VotingInv, NEW c \in Consoles, Others(c),
         c = Host /\ Deciding' =>
           \/ \A g \in Guests : heard'[g] = NotVoted
           \/ Deciding /\ round'[Host] = round[Host] /\ heard' = heard,
         c # Host => heard' = heard,
         c # Host /\ Deciding /\ heard[c] # NotVoted /\ stage'[c] # "out" =>
           /\ stage'[c] = "voting" /\ round'[c] = round[Host] /\ packet'[c].vote = heard[c]
  PROVE  HeardInv'
<1> SUFFICES ASSUME Deciding', NEW g \in Guests, heard'[g] # NotVoted, stage'[g] # "out"
             PROVE  stage'[g] = "voting" /\ round'[g] = round'[Host] /\ packet'[g].vote = heard'[g]
  BY DEF HeardInv
<1>1. g \in Consoles /\ g # Host /\ Host \in Consoles
  BY Bounds
<1>2. Deciding /\ round'[Host] = round[Host] /\ heard' = heard
  <2>1. CASE c = Host
    BY <2>1
  <2>2. CASE c # Host
    BY <1>1, <2>2 DEF Others, Deciding, HasDecided
  <2> QED
    BY <2>1, <2>2
<1>3. CASE g = c
  BY <1>1, <1>2, <1>3
<1>4. CASE g # c
  <2>1. stage'[g] = stage[g] /\ round'[g] = round[g] /\ packet'[g] = packet[g]
    BY <1>1, <1>4 DEF Others
  <2> QED
    BY <1>2, <2>1 DEF VotingInv, HeardInv
<1> QED
  BY <1>3, <1>4

\* A guest that is heard in this vote does not know its decision.
LEMMA HeardUndecided ==
  ASSUME VotingInv, NEW g \in Guests, Deciding, heard[g] # NotVoted, stage[g] # "out"
  PROVE  stage[g] = "voting" /\ ~HasDecided(g) /\ round[g] = round[Host]
<1>1. stage[g] = "voting" /\ round[g] = round[Host] /\ round[Host] = Len(decided) + 1
  BY DEF VotingInv, HeardInv, HostRound
<1>2. decided \in Seq(Decisions) /\ g \in Consoles
  BY Bounds DEF VotingInv, VotingTypeOK
<1>3. round[g] \notin DOMAIN decided
  BY <1>1, <1>2
<1> QED
  BY <1>1, <1>2, <1>3 DEF VotingInv, CourseInv, Knows, IsTold

\* The steps into a new vote.
LEMMA EntersKeep ==
  ASSUME VotingInv, RoomInv', ThreeLists', VotingTypeOK', NEW c \in Consoles, Others(c),
         UNCHANGED decided, stage'[c] = "voting", packet'[c] = FreshPacket,
         race'[c] <= round'[c],
         c = Host => round'[Host] = Len(decided) + 1 /\ \A g \in Guests : heard'[g] = NotVoted,
         c # Host => heard' = heard /\ stage[c] # "voting" /\ stage[c] # "out"
  PROVE  VotingInv'
<1>1. ~HasDecided(c)' /\ ~Knows(c)'
  BY FreshFields DEF HasDecided, Knows
<1>2. Learns(c)
  BY <1>1 DEF Learns
<1>3. c = Host => HostRound'
  BY <1>1 DEF HostRound, Deciding
<1>4. c # Host /\ Deciding => heard[c] = NotVoted
  BY Bounds DEF VotingInv, HeardInv
<1>5. HeardInv'
  BY <1>4, HeardKept
<1> QED
  BY <1>2, <1>3, <1>5, LearnsKeeps

\* The steps of the host and of a guest into a vote.
LEMMA EntriesKeep ==
  ASSUME VotingInv, RoomInv', ThreeLists',
         \/ \E mode \in GameModes : StartRoom(mode)
         \/ \E g \in Guests : ReadRoom(g) \/ JoinVote(g)
         \/ \E c \in Consoles : NextVote(c)
  PROVE  VotingInv'
<1>1. /\ VotingTypeOK /\ RaceCounted /\ HostRound /\ CourseInv
      /\ Len(decided) \in Nat /\ \A c \in Consoles : race[c] \in Nat /\ round[c] \in Nat
  BY DEF VotingInv, VotingTypeOK
<1>2. ASSUME NEW mode \in GameModes, StartRoom(mode) PROVE VotingInv'
  <2>1. Start(mode) /\ InLobby(Host) /\ race'[Host] = race[Host]
    BY <1>1, <1>2, StartRoomDoes DEF Start
  <2>2. race[Host] <= round[Host] /\ round[Host] <= Len(decided) + 1
    BY <1>1, Bounds DEF RaceCounted, HostRound
  <2>3. race'[Host] <= round'[Host]
    BY <1>1, <1>2, <2>1, <2>2, StartRoomDoes, Bounds
  <2> QED
    BY <1>1, <1>2, <2>3, StartRoomDoes, EntersKeep, Bounds
<1>3. ASSUME NEW g \in Guests, ReadRoom(g) PROVE VotingInv'
  <2>1. race[g] = 0 /\ race'[g] = race[g] /\ g \in Consoles /\ g # Host
    BY <1>1, <1>3, ReadRoomDoes, Bounds DEF RaceCounted
  <2>2. race'[g] <= round'[g]
    BY <1>1, <1>3, <2>1, ReadRoomDoes, Bounds
  <2> QED
    BY <1>1, <1>3, <2>1, <2>2, ReadRoomDoes, EntersKeep
<1>4. ASSUME NEW g \in Guests, JoinVote(g) PROVE VotingInv'
  <2>1. race[g] = 0 /\ race'[g] = race[g] /\ g \in Consoles /\ g # Host
    BY <1>1, <1>4, JoinVoteDoes, Bounds DEF RaceCounted
  <2>2. race'[g] <= round'[g]
    BY <1>1, <1>4, <2>1, JoinVoteDoes, Bounds
  <2> QED
    BY <1>1, <1>4, <2>1, <2>2, JoinVoteDoes, EntersKeep
<1>5. ASSUME NEW c \in Consoles, NextVote(c) PROVE VotingInv'
  <2>1. race'[c] <= round'[c]
    BY <1>1, <1>5, NextVoteDoes DEF RaceCounted
  <2>2. c = Host => round'[Host] = Len(decided) + 1
    BY <1>1, <1>5, NextVoteDoes DEF HostRound, Deciding
  <2> QED
    BY <1>1, <1>5, <2>1, <2>2, NextVoteDoes, EntersKeep
<1> QED
  BY <1>2, <1>3, <1>4, <1>5

\* The steps of a vote that decide nothing.
LEMMA VotesKeep ==
  ASSUME VotingInv, RoomInv', ThreeLists',
         \/ OpenVote
         \/ \E c \in Consoles : OpenCups(c) \/ ChooseCourse(c) \/ ChooseArena(c) \/ TimeOut(c)
         \/ \E g \in Guests : Hear(g) \/ Follow(g)
  PROVE  VotingInv'
<1>1. /\ VotingTypeOK /\ RaceCounted /\ HostRound /\ CourseInv /\ ThreeLists /\ RoomInv
      /\ \A c \in Consoles : race[c] <= round[c]
  BY DEF VotingInv, RaceCounted
<1>2. CASE OpenVote
  <2>1. ~HasDecided(Host) /\ ~HasDecided(Host)' /\ Deciding /\ Deciding'
    BY <1>1, <1>2, OpenVoteDoes DEF HostRound, HasDecided, Deciding
  <2>2. Learns(Host) /\ HostRound'
    BY <1>1, <1>2, <2>1, OpenVoteDoes, Bounds DEF Learns, HostRound, Knows
  <2>3. HeardInv'
    BY <1>1, <1>2, <2>1, OpenVoteDoes, HeardKept, Bounds
  <2> QED
    BY <1>1, <1>2, <2>2, <2>3, OpenVoteDoes, LearnsKeeps, Bounds
<1>3. ASSUME NEW c \in Consoles, OpenCups(c) PROVE VotingInv'
  <2>1. /\ VotingTypeOK' /\ Others(c) /\ stage[c] = "voting"
        /\ UNCHANGED <<roomVars, stage, round, race, packet, heard, track, blocking, decided>>
    BY <1>1, <1>3, OpenCupsDoes DEF ThreeLists
  <2>2. Learns(c)
    BY <1>1, <2>1 DEF Learns, Knows, HasDecided
  <2>3. HostRound' /\ HeardInv'
    BY <2>1 DEF VotingInv, HostRound, HeardInv, Deciding, HasDecided
  <2> QED
    BY <2>1, <2>2, <2>3, LearnsKeeps
<1>4. ASSUME NEW c \in Consoles, ChooseCourse(c) \/ ChooseArena(c) \/ TimeOut(c) PROVE VotingInv'
  <2>1. /\ VotingTypeOK' /\ Others(c) /\ stage[c] = "voting" /\ packet[c].vote = NotVoted
        /\ UNCHANGED <<roomVars, stage, round, race, heard, layout, blocking, decided>>
        /\ packet'[c].course = packet[c].course
        /\ packet'[c].phase = packet[c].phase /\ packet'[c].engine = packet[c].engine
    BY <1>1, <1>4, VoteDoes
  <2>2. HasDecided(c)' <=> HasDecided(c)
    BY <2>1 DEF HasDecided
  <2>3. Learns(c)
    BY <1>1, <2>1, <2>2 DEF Learns, Knows
  <2>4. c = Host => HostRound' /\ (Deciding' => Deciding)
    BY <1>1, <2>1, <2>2 DEF HostRound, Deciding
  <2>5. c # Host /\ Deciding => heard[c] = NotVoted
    BY <2>1, Bounds DEF VotingInv, HeardInv
  <2>6. HeardInv'
    BY <2>1, <2>4, <2>5, HeardKept
  <2> QED
    BY <2>1, <2>3, <2>4, <2>6, LearnsKeeps
<1>5. ASSUME NEW g \in Guests, Hear(g) PROVE VotingInv'
  <2>1. /\ VotingTypeOK' /\ Others(g) /\ g \in Consoles /\ g # Host
        /\ UNCHANGED <<roomVars, stage, round, race, packet, layout, track, blocking, decided>>
        /\ stage[Host] = "voting" /\ stage[g] = "voting" /\ round[g] = round[Host]
        /\ heard'[g] = packet[g].vote /\ \A f \in Guests \ {g} : heard'[f] = heard[f]
    BY <1>1, <1>5, HearDoes, Bounds
  <2>2. Learns(g)
    BY <1>1, <2>1 DEF Learns, Knows, HasDecided
  <2>3. HeardInv'
    BY <2>1 DEF VotingInv, HeardInv, Deciding, HasDecided
  <2> QED
    BY <2>1, <2>2, <2>3, LearnsKeeps
<1>6. ASSUME NEW g \in Guests, Follow(g) PROVE VotingInv'
  <2>1. /\ VotingTypeOK' /\ Others(g) /\ g \in Consoles /\ g # Host
        /\ UNCHANGED <<roomVars, stage, round, race, heard, layout, track, blocking, decided>>
        /\ stage[Host] = "voting" /\ stage[g] = "voting" /\ round[g] = round[Host]
        /\ packet'[g].vote = packet[g].vote /\ packet'[g].course = packet[Host].course
        /\ packet'[g].engine = packet[Host].engine
    BY <1>1, <1>6, FollowDoes, Bounds
  <2>2. HasDecided(g)' <=> HasDecided(Host)
    BY <2>1 DEF HasDecided
  <2>3. Learns(g)
    <3>1. Knows(g)' => Knows(Host) /\ round[Host] = round'[g] /\ Host \in Consoles
      BY <2>1, <2>2, Bounds DEF Knows
    <3> QED
      BY <1>1, <2>1, <3>1 DEF Learns
  <2>4. HeardInv'
    BY <2>1, HeardKept DEF VotingInv, HeardInv
  <2> QED
    BY <2>1, <2>3, <2>4, LearnsKeeps
<1> QED
  BY <1>2, <1>3, <1>4, <1>5, <1>6

\* The steps of races, and of guests who come and go.
LEMMA RacesKeep ==
  ASSUME VotingInv, RoomInv', ThreeLists',
         \/ \E c \in Consoles : StartRace(c) \/ EndSession(c)
         \/ \E g \in Guests : Leave(g) \/ Join(g)
         \/ \E g \in Guests, c \in Consoles : Watch(g, c)
  PROVE  VotingInv'
<1>1. /\ VotingTypeOK /\ RaceCounted /\ HostRound /\ CourseInv
      /\ \A c \in Consoles : race[c] <= round[c] /\ round[c] \in Nat
  BY DEF VotingInv, RaceCounted, VotingTypeOK
<1>2. ASSUME NEW c \in Consoles, StartRace(c) PROVE VotingInv'
  <2>1. /\ VotingTypeOK' /\ Others(c)
        /\ UNCHANGED <<roomVars, round, race, packet, heard, layout, blocking, decided>>
        /\ stage[c] = "voting" /\ HasDecided(c) /\ stage'[c] = "racing"
        /\ track'[c] = packet[c].course
    BY <1>1, <1>2, StartRaceDoes
  <2>2. Learns(c)
    BY <1>1, <2>1 DEF Learns, Knows
  <2>3. c = Host => HostRound' /\ ~Deciding'
    BY <1>1, <2>1 DEF HostRound, Deciding
  <2>4. HeardInv'
    BY <2>1, <2>3, HeardUndecided, HeardKept, Bounds
  <2> QED
    BY <2>1, <2>2, <2>3, <2>4, LearnsKeeps
<1>3. ASSUME NEW c \in Consoles, EndSession(c) PROVE VotingInv'
  <2>1. /\ VotingTypeOK' /\ Others(c)
        /\ UNCHANGED <<round, packet, heard, layout, track, blocking, decided>>
        /\ stage[c] = "racing" /\ stage'[c] = "lobby" /\ race'[c] = 0
    BY <1>1, <1>3, EndSessionDoes
  <2>2. Learns(c)
    BY <1>1, <2>1 DEF Learns, Knows
  <2>3. c = Host => HostRound' /\ ~Deciding'
    BY <1>1, <2>1 DEF HostRound, Deciding
  <2>4. HeardInv'
    BY <2>1, <2>3, HeardUndecided, HeardKept, Bounds
  <2> QED
    BY <2>1, <2>2, <2>3, <2>4, LearnsKeeps
<1>4. ASSUME NEW g \in Guests, Leave(g) PROVE VotingInv'
  <2>1. /\ VotingTypeOK' /\ Others(g) /\ g \in Consoles /\ g # Host
        /\ UNCHANGED <<round, packet, heard, layout, track, blocking, decided>>
        /\ stage'[g] = "out" /\ race'[g] = 0
    BY <1>1, <1>4, LeaveDoes, Bounds
  <2>2. Learns(g)
    BY <1>1, <2>1 DEF Learns, Knows
  <2>3. HeardInv'
    BY <2>1, HeardKept
  <2> QED
    BY <2>1, <2>2, <2>3, LearnsKeeps
<1>5. ASSUME NEW g \in Guests, Join(g) PROVE VotingInv'
  <2>1. /\ VotingTypeOK' /\ Others(g) /\ g \in Consoles /\ g # Host
        /\ UNCHANGED <<race, packet, heard, layout, track, blocking, decided>>
        /\ stage[g] = "out" /\ stage[Host] # "voting"
        /\ stage'[g] \in {"watching", "lobby"} /\ round'[g] = 0
    BY <1>1, <1>5, JoinDoes, Bounds
  <2>2. race'[g] = 0
    BY <1>1, <2>1 DEF RaceCounted
  <2>3. Learns(g)
    BY <2>1, <2>2 DEF Learns, Knows
  <2>4. HeardInv'
    BY <2>1, HeardKept DEF Deciding
  <2> QED
    BY <2>1, <2>3, <2>4, LearnsKeeps
<1>6. ASSUME NEW g \in Guests, NEW c \in Consoles, Watch(g, c) PROVE VotingInv'
  <2>1. /\ VotingTypeOK' /\ Others(g) /\ g \in Consoles /\ g # Host
        /\ UNCHANGED <<roomVars, stage, race, packet, heard, layout, blocking, decided>>
        /\ stage[g] = "watching" /\ stage[c] = "racing"
        /\ track'[g] = track[c] /\ round'[g] = round[c] /\ g # c
    BY <1>1, <1>6, WatchDoes, Bounds
  <2>2. race'[g] = 0
    BY <1>1, <2>1 DEF RaceCounted
  <2>3. IsTold(c) /\ track[c] = packet[c].course
    BY <1>1, <2>1 DEF CourseInv, Knows
  <2>4. Learns(g)
    BY <1>1, <2>1, <2>2, <2>3 DEF Learns, Knows, IsTold
  <2>5. HeardInv'
    BY <2>1, HeardKept DEF VotingInv, HeardInv
  <2> QED
    BY <2>1, <2>4, <2>5, LearnsKeeps
<1> QED
  BY <1>2, <1>3, <1>4, <1>5, <1>6

\* The host decides: the others know nothing of it yet.
LEMMA DecideKeeps ==
  ASSUME VotingInv, RoomInv', ThreeLists', DecideTrack
  PROVE  VotingInv'
<1>1. /\ VotingTypeOK /\ RoomInv /\ HostRound /\ CourseInv /\ EngineInv /\ HeardInv
      /\ decided \in Seq(Decisions) /\ Len(decided) \in Nat
  BY DEF VotingInv, VotingTypeOK
<1>2. /\ VotingTypeOK' /\ Others(Host) /\ Host \in Consoles
      /\ UNCHANGED <<roomVars, stage, round, race, heard, layout, track>>
      /\ Deciding /\ packet'[Host].vote = packet[Host].vote
      /\ packet'[Host].engine = packet[Host].engine
  BY <1>1, DecideDoes, Bounds
<1>3. CASE UNCHANGED decided /\ packet'[Host].course = Random
  <2>1. ~HasDecided(Host)' /\ Deciding'
    BY <1>2, <1>3 DEF HasDecided, Deciding
  <2>2. Learns(Host) /\ HostRound'
    BY <1>1, <1>2, <1>3, <2>1 DEF VotingInv, RaceCounted, Learns, Knows, HostRound, Deciding
  <2>3. HeardInv'
    BY <1>2, <2>1, HeardKept
  <2> QED
    BY <1>2, <1>3, <2>2, <2>3, LearnsKeeps
<1>4. CASE \E voter \in Consoles, choice \in Buttons, course \in Courses \union Arenas :
             /\ decided' = Append(decided, Entry(voter, choice, course))
             /\ packet'[Host].course = course /\ packet'[Host].phase # 0
  <2>1. PICK voter \in Consoles, choice \in Buttons, course \in Courses \union Arenas :
             /\ decided' = Append(decided, Entry(voter, choice, course))
             /\ packet'[Host].course = course /\ packet'[Host].phase # 0
    BY <1>4
  <2>2. Entry(voter, choice, course) \in Decisions /\ Entry(voter, choice, course).course = course
    BY <1>1, <2>1, EntryFields
  <2>3. /\ Len(decided') = Len(decided) + 1
        /\ decided'[Len(decided) + 1] = Entry(voter, choice, course)
        /\ \A r \in DOMAIN decided : r \in DOMAIN decided' /\ decided'[r] = decided[r]
        /\ Len(decided) + 1 \in DOMAIN decided' /\ Len(decided) + 1 \notin DOMAIN decided
    BY <1>1, <2>1, <2>2
  <2>4. HasDecided(Host)' /\ ~Deciding' /\ round'[Host] = Len(decided) + 1
    BY <1>1, <1>2, <2>1, Slots DEF HasDecided, Deciding, HostRound, Buttons
  <2>5. IsTold(Host)'
    BY <2>1, <2>2, <2>3, <2>4 DEF IsTold
  <2>6. \A c \in Consoles \ {Host} : (Knows(c)' <=> Knows(c)) /\ (Knows(c) => IsTold(c) /\ IsTold(c)')
    BY <1>1, <1>2, <2>3 DEF CourseInv, Others, Knows, IsTold, HasDecided
  <2>7. CourseInv'
    <3>1. \A c \in Consoles : Knows(c)' => IsTold(c)'
      BY <2>5, <2>6
    <3>2. \A c \in Consoles : stage'[c] = "racing" => track'[c] = packet'[c].course
      BY <1>1, <1>2 DEF CourseInv, Others, Deciding
    <3>3. \A c \in Consoles : stage'[c] = "watching" /\ round'[c] # 0 =>
            round'[c] \in DOMAIN decided' /\ track'[c] = decided'[round'[c]].course
      BY <1>1, <1>2, <2>3 DEF CourseInv
    <3> QED
      BY <3>1, <3>2, <3>3 DEF CourseInv
  <2>8. EngineInv'
    <3>1. \A c \in Consoles \ {Host} : Knows(c)' => round'[c] # round'[Host]
      BY <1>2, <2>3, <2>4, <2>6 DEF IsTold
    <3> QED
      BY <1>1, <1>2, <2>6, <3>1 DEF EngineInv, Others
  <2>9. HostRound'
    BY <1>1, <1>2, <2>1, <2>3, <2>4 DEF HostRound
  <2>10. HeardInv'
    BY <2>4 DEF HeardInv
  <2>11. RaceCounted'
    BY <1>2 DEF VotingInv, RaceCounted
  <2> QED
    BY <1>2, <2>7, <2>8, <2>9, <2>10, <2>11 DEF VotingInv
<1> QED
  BY <1>1, <1>3, <1>4, DecideDoes

\* Every step keeps the invariant.
LEMMA VotingInvStep == VotingInv /\ [VotingNext]_vars => VotingInv'
<1> SUFFICES ASSUME VotingInv, [VotingNext]_vars PROVE VotingInv'
  OBVIOUS
<1>1. RoomInv' /\ ThreeLists'
  BY RoomKept, ListsKept DEF VotingInv
<1>2. UNCHANGED votingVars => VotingInv'
  BY <1>1 DEF votingVars, VotingInv, VotingTypeOK, CourseInv, HostRound, RaceCounted,
              EngineInv, HeardInv, Knows, IsTold, Deciding, HasDecided
<1>3. CASE EditRules \/ UNCHANGED vars
  BY <1>2, <1>3 DEF EditRules, vars
<1> QED
  BY <1>1, <1>3, EntriesKeep, VotesKeep, RacesKeep, DecideKeeps DEF VotingNext

\* The invariant of every state.
LEMMA VotingInvariant == VotingSpec => []VotingInv
BY VotingInvInit, VotingInvStep, PTL DEF VotingSpec

-----------------------------------------------------------------------------
(* The course and the engine class.                                         *)

\* Every variable keeps its type.
THEOREM VotingTypeCorrect == VotingSpec => []VotingTypeOK
<1>1. VotingInv => VotingTypeOK
  BY DEF VotingInv
<1> QED
  BY <1>1, VotingInvariant, PTL

\* Whoever leaves, joins or is late, all that race or watch a round have loaded
\* the course that was decided for it.
THEOREM SameCourseCorrect == VotingSpec => []SameCourse
<1>1. VotingInv => SameCourse
  <2> SUFFICES ASSUME VotingInv, NEW c \in Consoles, stage[c] \in {"racing", "watching"}, round[c] # 0
               PROVE  round[c] \in DOMAIN decided /\ track[c] = decided[round[c]].course
    BY DEF SameCourse
  <2> QED
    BY DEF VotingInv, CourseInv, Knows, IsTold
<1> QED
  BY <1>1, VotingInvariant, PTL

\* All that race a round are in one engine class.
THEOREM SameEngineCorrect == VotingSpec => []SameEngine
<1>1. VotingInv => SameEngine
  BY DEF VotingInv, EngineInv, SameEngine, Knows
<1> QED
  BY <1>1, VotingInvariant, PTL

-----------------------------------------------------------------------------
(* The decisions.                                                           *)

\* A step decides nothing, or what DecideTrack says.
LEMMA DecidedStep ==
  ASSUME VotingInv, [VotingNext]_vars
  PROVE  \/ UNCHANGED decided
         \/ /\ Deciding /\ DecideTrack
            /\ \E voter \in Consoles, choice \in Buttons, course \in Courses \union Arenas :
                 /\ Won(voter, choice, course) /\ decided' = Append(decided, Entry(voter, choice, course))
<1>1. CASE DecideTrack
  BY <1>1, DecideDoes DEF VotingInv
<1>2. ASSUME NEW mode \in GameModes, StartRoom(mode) PROVE UNCHANGED decided
  BY <1>2 DEF StartRoom
<1>3. ASSUME NEW c \in Consoles, OpenCups(c) \/ ChooseCourse(c) \/ ChooseArena(c) \/ TimeOut(c)
      PROVE  UNCHANGED decided
  BY <1>3 DEF OpenCups, ChooseCourse, ChooseArena, TimeOut, CastVote
<1>4. ASSUME NEW c \in Consoles, StartRace(c) \/ EndSession(c) \/ NextVote(c)
      PROVE  UNCHANGED decided
  BY <1>4 DEF StartRace, EndSession, NextVote
<1>5. ASSUME NEW g \in Guests,
             ReadRoom(g) \/ JoinVote(g) \/ Hear(g) \/ Follow(g) \/ Leave(g) \/ Join(g)
      PROVE  UNCHANGED decided
  BY <1>5 DEF ReadRoom, JoinVote, Hear, Follow, Leave, Join
<1>6. ASSUME NEW g \in Guests, NEW c \in Consoles, Watch(g, c) PROVE UNCHANGED decided
  BY <1>6 DEF Watch
<1>7. CASE EditRules \/ OpenVote \/ UNCHANGED vars
  BY <1>7 DEF EditRules, OpenVote, vars, votingVars
<1> QED
  BY <1>1, <1>2, <1>3, <1>4, <1>5, <1>6, <1>7 DEF VotingNext

\* A decision as it has to be.
RightDecision(d) ==
  /\ d.votes[d.voter] # NotVoted
  /\ d.votes[d.voter] # Random => d.choice = d.votes[d.voter]
  /\ d.course \in Expand(d.choice)
  /\ d.haw /\ d.mode = "private_vs" => d.voter = Host /\ d.choice = d.votes[Host]

\* What the host decides on is what its voter has chosen in this round, though
\* the host may have heard it long before.
LEMMA WonIsRight ==
  ASSUME VotingInv, Deciding, NEW voter \in Consoles, NEW choice \in Buttons,
         NEW course \in Courses \union Arenas, Won(voter, choice, course)
  PROVE  RightDecision(Entry(voter, choice, course))
<1> DEFINE d == Entry(voter, choice, course)
<1>1. /\ HostView(voter) # NotVoted /\ stage[voter] # "out"
      /\ choice \in Choices(HostView(voter)) /\ course \in Expand(choice)
      /\ rules[Host].haw /\ OnlineMode(Host) = "private_vs" =>
           voter = Host /\ choice = packet[Host].vote
  BY DEF Won
<1>2. packet[voter].vote = HostView(voter)
  BY <1>1, Bounds DEF VotingInv, HeardInv, HostView
<1>3. packet[voter].vote \in Votes
  BY DEF VotingInv, VotingTypeOK, PacketType
<1>4. packet[voter].vote # Random => choice = packet[voter].vote
  BY <1>1, <1>2 DEF Choices
<1>5. /\ d.course = course /\ d.voter = voter /\ d.choice = choice
      /\ d.haw = rules[Host].haw /\ d.mode = OnlineMode(Host)
      /\ \A c \in Consoles : d.votes[c] = packet[c].vote
  BY EntryFields DEF VotingInv
<1> HIDE DEF d
<1>6. d.votes[d.voter] = packet[voter].vote /\ d.votes[Host] = packet[Host].vote
  BY <1>5, Bounds
<1>7. RightDecision(d)
  BY <1>1, <1>2, <1>4, <1>5, <1>6 DEF RightDecision
<1> QED
  BY <1>7 DEF d

AllRight == \A r \in DOMAIN decided : RightDecision(decided[r])

\* Every decision is right.
LEMMA DecisionsRight == VotingSpec => []AllRight
<1>1. VotingInit => AllRight
  BY DEF VotingInit, AllRight
<1>2. VotingInv /\ AllRight /\ [VotingNext]_vars => AllRight'
  <2> SUFFICES ASSUME VotingInv, AllRight, [VotingNext]_vars PROVE AllRight'
    OBVIOUS
  <2>1. CASE UNCHANGED decided
    BY <2>1 DEF AllRight, RightDecision
  <2>2. ASSUME Deciding, NEW voter \in Consoles, NEW choice \in Buttons,
               NEW course \in Courses \union Arenas, Won(voter, choice, course),
               decided' = Append(decided, Entry(voter, choice, course))
        PROVE  AllRight'
    <3> DEFINE d == Entry(voter, choice, course)
    <3>1. d \in Decisions /\ decided \in Seq(Decisions)
      BY EntryFields DEF VotingInv, VotingTypeOK
    <3>2. RightDecision(d)
      BY <2>2, WonIsRight
    <3>3. decided' = Append(decided, d)
      BY <2>2
    <3> HIDE DEF d
    <3>4. \A r \in DOMAIN decided' : (r \in DOMAIN decided /\ decided'[r] = decided[r]) \/ decided'[r] = d
      BY <3>1, <3>3
    <3>5. \A r \in DOMAIN decided' : RightDecision(decided'[r])
      BY <3>2, <3>4 DEF AllRight
    <3> QED
      BY <3>5 DEF AllRight, RightDecision
  <2> QED
    BY <2>1, <2>2, DecidedStep
<1> QED
  BY <1>1, <1>2, VotingInvariant, PTL DEF VotingSpec

\* Each decision is what its voter chose in that very round.
THEOREM DecidedCorrect == VotingSpec => []DecidedByAVote
<1>1. AllRight => DecidedByAVote
  BY DEF AllRight, RightDecision, DecidedByAVote
<1> QED
  BY <1>1, DecisionsRight, PTL

\* Under "Host always wins" a decision in a VS is the host's.
THEOREM HostWinsCorrect == VotingSpec => []HostAlwaysWins
<1>1. AllRight => HostAlwaysWins
  BY DEF AllRight, RightDecision, HostAlwaysWins
<1> QED
  BY <1>1, DecisionsRight, PTL

-----------------------------------------------------------------------------
(* The agreement the vote implements.                                       *)

\* What stands for the variables of CourseAgreement.
AgreedCourses == [r \in DOMAIN decided |-> decided[r].course]
LoadedBy(c) == IF stage[c] = "racing" THEN <<round[c], track[c]>> ELSE <<>>
Loaded == [c \in Consoles |-> LoadedBy(c)]

\* Nothing is decided and nobody races.
LEMMA AgreementInit == VotingInit => Agreement!Init
<1> SUFFICES ASSUME VotingInit PROVE Agreement!Init
  OBVIOUS
<1>1. decided = <<>> /\ stage = [c \in Consoles |-> IF Public THEN "voting" ELSE "lobby"]
  BY DEF VotingInit
<1>2. AgreedCourses = <<>>
  BY <1>1 DEF AgreedCourses
<1>3. ASSUME NEW c \in Consoles PROVE LoadedBy(c) = <<>>
  <2>1. stage[c] # "racing"
    BY <1>1
  <2> QED
    BY <2>1 DEF LoadedBy
<1>4. Loaded = [c \in Consoles |-> <<>>]
  BY <1>3 DEF Loaded
<1> QED
  BY <1>2, <1>4 DEF Agreement!Init, AgreedCourses, Loaded, LoadedBy

\* A decision is one of the agreement.
LEMMA AgreementDecides ==
  ASSUME VotingInv, NEW d \in Decisions, decided' = Append(decided, d),
         UNCHANGED <<stage, round, track>>
  PROVE  Agreement!Decide
<1>1. decided \in Seq(Decisions) /\ d.course \in Courses \union Arenas
  BY DEF VotingInv, VotingTypeOK, Decisions
<1>2. AgreedCourses' = Append(AgreedCourses, d.course)
  <2>1. /\ DOMAIN decided' = 1..(Len(decided) + 1)
        /\ \A r \in 1..Len(decided) : decided'[r] = decided[r]
        /\ decided'[Len(decided) + 1] = d /\ DOMAIN decided = 1..Len(decided)
        /\ Len(decided) \in Nat
    BY <1>1
  <2> QED
    BY <2>1 DEF AgreedCourses
<1>3. Loaded' = Loaded
  BY DEF Loaded, LoadedBy
<1> QED
  BY <1>1, <1>2, <1>3 DEF Agreement!Decide, AgreedCourses, Loaded, LoadedBy

\* Every other step is of one console, whatever it does: it loads what was
\* decided for its round, or has nothing loaded.
LEMMA AgreementLoads ==
  ASSUME VotingInv', NEW c \in Consoles, Others(c), UNCHANGED decided
  PROVE  Agreement!Load(c) \/ Agreement!Stop(c)
<1>1. AgreedCourses' = AgreedCourses
  BY DEF AgreedCourses
<1>2. ASSUME NEW d \in Consoles \ {c} PROVE LoadedBy(d)' = LoadedBy(d)
  BY DEF Others, LoadedBy
<1>3. CASE stage'[c] = "racing"
  <2>1. round'[c] \in DOMAIN decided /\ track'[c] = decided[round'[c]].course
    BY <1>3 DEF VotingInv, CourseInv, Knows, IsTold
  <2>2. LoadedBy(c)' = <<round'[c], AgreedCourses[round'[c]]>>
    BY <1>3, <2>1 DEF LoadedBy, AgreedCourses
  <2>3. Loaded' = [Loaded EXCEPT ![c] = <<round'[c], AgreedCourses[round'[c]]>>]
    <3> DEFINE new == <<round'[c], AgreedCourses[round'[c]]>>
    <3>1. LoadedBy(c)' = new
      BY <2>2
    <3> HIDE DEF new
    <3>2. Loaded' = [Loaded EXCEPT ![c] = new]
      BY <1>2, <3>1 DEF Loaded
    <3> QED
      BY <3>2 DEF new
  <2>4. round'[c] \in DOMAIN AgreedCourses
    BY <2>1 DEF AgreedCourses
  <2> QED
    BY <1>1, <2>3, <2>4 DEF Agreement!Load, AgreedCourses, Loaded, LoadedBy
<1>4. CASE stage'[c] # "racing"
  <2>1. LoadedBy(c)' = <<>>
    BY <1>4 DEF LoadedBy
  <2>2. Loaded' = [Loaded EXCEPT ![c] = <<>>]
    <3> DEFINE new == <<>>
    <3>1. LoadedBy(c)' = new
      BY <2>1
    <3> HIDE DEF new
    <3>2. Loaded' = [Loaded EXCEPT ![c] = new]
      BY <1>2, <3>1 DEF Loaded
    <3> QED
      BY <3>2 DEF new
  <2> QED
    BY <1>1, <2>2 DEF Agreement!Stop, AgreedCourses, Loaded, LoadedBy
<1> QED
  BY <1>3, <1>4

\* Each step is of one console.
LEMMA OneConsole ==
  ASSUME VotingInv, [VotingNext]_vars
  PROVE  \E c \in Consoles : Others(c)
<1>1. VotingTypeOK /\ RaceCounted /\ HostRound /\ RoomInv /\ ThreeLists
  BY DEF VotingInv
<1>2. UNCHANGED votingVars => Others(Host)
  BY DEF Others, votingVars
<1>3. CASE EditRules \/ UNCHANGED vars
  BY <1>2, <1>3, Bounds DEF EditRules, vars
<1>4. CASE OpenVote \/ DecideTrack
  BY <1>1, <1>4, OpenVoteDoes, DecideDoes, Bounds
<1>5. ASSUME NEW mode \in GameModes, StartRoom(mode) PROVE Others(Host)
  BY <1>1, <1>5, StartRoomDoes
<1>6. ASSUME NEW c \in Consoles, OpenCups(c) \/ ChooseCourse(c) \/ ChooseArena(c) \/ TimeOut(c)
      PROVE  Others(c)
  BY <1>1, <1>6, OpenCupsDoes, VoteDoes DEF ThreeLists
<1>7. ASSUME NEW c \in Consoles, StartRace(c) \/ EndSession(c) \/ NextVote(c) PROVE Others(c)
  BY <1>1, <1>7, StartRaceDoes, EndSessionDoes, NextVoteDoes
<1>8. ASSUME NEW g \in Guests,
             ReadRoom(g) \/ JoinVote(g) \/ Hear(g) \/ Follow(g) \/ Leave(g) \/ Join(g)
      PROVE  Others(g)
  BY <1>1, <1>8, ReadRoomDoes, JoinVoteDoes, HearDoes, FollowDoes, LeaveDoes, JoinDoes
<1>9. ASSUME NEW g \in Guests, NEW c \in Consoles, Watch(g, c) PROVE Others(g)
  BY <1>1, <1>9, WatchDoes
<1> QED
  BY <1>3, <1>4, <1>5, <1>6, <1>7, <1>8, <1>9, Bounds DEF VotingNext

\* Voting implements the agreement: each round is decided once and for all, and
\* a console that loads a round's course loads the one that was decided.
THEOREM AgreementImplemented == VotingSpec => ImplementsAgreement
<1>1. ASSUME VotingInv, [VotingNext]_vars
      PROVE  Agreement!Next \/ UNCHANGED <<AgreedCourses, Loaded>>
  <2>1. CASE UNCHANGED decided
    <3>1. PICK c \in Consoles : Others(c)
      BY <1>1, OneConsole
    <3>2. VotingInv'
      BY <1>1, VotingInvStep
    <3> QED
      BY <2>1, <3>1, <3>2, AgreementLoads DEF Agreement!Next
  <2>2. ASSUME DecideTrack, NEW voter \in Consoles, NEW choice \in Buttons,
               NEW course \in Courses \union Arenas,
               decided' = Append(decided, Entry(voter, choice, course))
        PROVE  Agreement!Next
    <3>1. Entry(voter, choice, course) \in Decisions
      BY <1>1, EntryFields DEF VotingInv
    <3>2. UNCHANGED <<stage, round, track>>
      BY <2>2 DEF DecideTrack
    <3> QED
      BY <1>1, <2>2, <3>1, <3>2, AgreementDecides DEF Agreement!Next
  <2> QED
    BY <1>1, <2>1, <2>2, DecidedStep
<1>2. VotingInv /\ [VotingNext]_vars => [Agreement!Next]_<<AgreedCourses, Loaded>>
  BY <1>1
<1> QED
  BY <1>2, AgreementInit, VotingInvariant, PTL
    DEF VotingSpec, ImplementsAgreement, Agreement!Spec, AgreedCourses, Loaded, LoadedBy

-----------------------------------------------------------------------------
(* Friend rooms: who votes together is in one session, and so under one    *)
(* track list.                                                             *)

\* A start message on its way is the last that was sent, and who can still
\* read it is waited for.
MailInv ==
  \A g \in Guests : mail[g] # NoPacket =>
    /\ mail[g].type = "start" /\ mail[g].of = Len(announced)
    /\ session[g].number # Len(announced)
    /\ stage[g] # "out" => Deciding /\ race[Host] = 0

\* Who votes or races is in a session: who votes in the host's, who races
\* another in the last race of it.
InStage(c) ==
  /\ stage[c] # "watching"
  /\ stage[c] \in {"voting", "racing"} <=> ~InLobby(c)
  /\ stage[c] = "voting" => session[c] = session[Host]
  /\ ~InLobby(c) /\ session[c] # session[Host] => LastRace(c)
StageInv == \A c \in Consoles : InStage(c)

\* A guest in the host's session has gone as many rounds of it; it is on the
\* host's round or opens the next vote before the host does.
InStep(g) ==
  ~InLobby(g) /\ session[g] = session[Host] =>
    /\ round[g] + race[Host] = round[Host] + race[g]
    /\ ~Deciding =>
         \/ round[g] = round[Host]
         \/ /\ round[g] = round[Host] + 1 /\ stage[g] = "voting"
            /\ stage[Host] = "racing" /\ ~LastRace(Host)
Lockstep == \A g \in Guests : InStep(g)

\* A vote in a VS is a course or group of the room's list, or of a group of it.
VoteListed(c) ==
  stage[c] = "voting" /\ OnlineMode(c) = "private_vs" /\ packet[c].vote \in Buttons =>
    \E slot \in TrackLists[rules[c].trackList] : packet[c].vote \in {slot} \union Expand(slot)
VotesListed == \A c \in Consoles : VoteListed(c)

FriendInv == VotingInv /\ MailInv /\ StageInv /\ Lockstep /\ VotesListed

-----------------------------------------------------------------------------
(* Sessions.                                                                *)

\* What RoomInv says of one console.
LEMMA RoomFacts ==
  ASSUME RoomInv
  PROVE  /\ session \in [Consoles -> Sessions] /\ mail \in [Guests -> Packets]
         /\ rules \in [Consoles -> Rules] /\ announced \in Seq(Entries) /\ menu \in Menus
         /\ Len(announced) \in Nat
         /\ \A c \in Consoles : ~InLobby(c) => Plays(c)
         /\ \A g \in Guests : FromHost(mail[g])
         /\ ~InLobby(Host) => session[Host].number = Len(announced)
<1>1. announced \in Seq(Entries)
  BY DEF RoomInv, TypeInv, TypeOK, Entries
<1>2. Len(announced) \in Nat
  BY <1>1
<1> QED
  BY <1>1, <1>2 DEF RoomInv, TypeInv, TypeOK, SessionInv, HostInv, PacketsCarryRules

\* The number says which session it is.
LEMMA SameSession ==
  ASSUME RoomInv, NEW c \in Consoles, NEW d \in Consoles, ~InLobby(c), ~InLobby(d),
         session[c].number = session[d].number
  PROVE  session[c] = session[d]
<1>1. /\ session[c] \in Sessions /\ session[d] \in Sessions
      /\ session[c].mode = announced[session[c].number].mode
      /\ session[d].mode = announced[session[d].number].mode
  BY RoomFacts DEF Plays
<1>2. session[c].mode = session[d].mode
  BY <1>1
<1> QED
  BY <1>1, <1>2 DEF Sessions

\* In one session all vote by one set of rules, in one mode.
LEMMA SameRules ==
  ASSUME RoomInv, NEW c \in Consoles, NEW d \in Consoles, ~InLobby(c), session[c] = session[d]
  PROVE  /\ OnlineMode(c) = OnlineMode(d)
         /\ rules[c].raceCount = rules[d].raceCount /\ rules[c].haw = rules[d].haw
         /\ rules[c].trackList = rules[d].trackList /\ rules[c].variants = rules[d].variants
<1>1. ~InLobby(d)
  BY DEF InLobby
<1> QED
  BY <1>1, SessionRules DEF OnlineMode

\* So both are in the last race of it, or neither.
LEMMA SameLastRace ==
  ASSUME RoomInv, NEW c \in Consoles, NEW d \in Consoles, ~InLobby(c), session[c] = session[d],
         race[c] = race[d]
  PROVE  LastRace(c) <=> LastRace(d)
BY SameRules DEF LastRace

\* The counters are numbers.
LEMMA Counters ==
  ASSUME VotingInv, NEW c \in Consoles
  PROVE  round[c] \in Nat /\ race[c] \in Nat
BY DEF VotingInv, VotingTypeOK

\* A guest that has decided, or races, is not ahead of the host.
LEMMA NotAhead ==
  ASSUME VotingInv, NEW c \in Consoles, Knows(c), ~Deciding
  PROVE  round[c] <= round[Host]
<1>1. round[c] \in DOMAIN decided /\ decided \in Seq(Decisions) /\ round[Host] = Len(decided)
  BY DEF VotingInv, VotingTypeOK, CourseInv, IsTold, HostRound
<1> QED
  BY <1>1

-----------------------------------------------------------------------------
(* The steps in a session.                                                  *)

\* Nobody has sent, started or voted anything.
LEMMA FriendInit == VotingInit /\ ~Public => FriendInv
<1> SUFFICES ASSUME VotingInit, ~Public PROVE FriendInv
  OBVIOUS
<1>1. VotingInv
  BY VotingInvInit
<1>2. /\ stage = [c \in Consoles |-> IF Public THEN "voting" ELSE "lobby"]
      /\ session = [c \in Consoles |-> NoSession] /\ mail = [c \in Guests |-> NoPacket]
  BY DEF VotingInit, Init
<1>3. ASSUME NEW c \in Consoles PROVE stage[c] = "lobby" /\ InLobby(c)
  BY <1>2 DEF InLobby
<1>4. ASSUME NEW g \in Guests PROVE mail[g] = NoPacket
  BY <1>2
<1>5. MailInv
  BY <1>4 DEF MailInv
<1>6. StageInv
  BY <1>3 DEF StageInv, InStage
<1>7. Lockstep
  BY <1>3, Bounds DEF Lockstep, InStep
<1>8. VotesListed
  BY <1>3 DEF VotesListed, VoteListed
<1> QED
  BY <1>1, <1>5, <1>6, <1>7, <1>8 DEF FriendInv

\* A step of c's in its session that leaves the room alone.
LEMMA InSessionKeeps ==
  ASSUME FriendInv, VotingInv', UNCHANGED roomVars, NEW c \in Consoles, Others(c),
         stage[c] \in {"voting", "racing"}, InStage(c)',
         c = Host /\ Deciding => Deciding' /\ race'[Host] = race[Host],
         \A g \in Guests : InStep(g)', VoteListed(c)'
  PROVE  FriendInv'
<1>1. \A d \in Consoles : InLobby(d)' <=> InLobby(d)
  BY DEF InLobby, roomVars
<1>2. /\ UNCHANGED <<rules, mail, session, announced>>
      /\ MailInv /\ StageInv /\ Lockstep /\ VotesListed
  BY DEF FriendInv, roomVars
<1>3. Deciding => Deciding' /\ race'[Host] = race[Host]
  BY Bounds DEF Others, Deciding, HasDecided
<1>4. MailInv'
  <2> SUFFICES ASSUME NEW g \in Guests, mail[g] # NoPacket
               PROVE  /\ mail[g].type = "start" /\ mail[g].of = Len(announced)
                      /\ session[g].number # Len(announced)
                      /\ stage'[g] # "out" => Deciding' /\ race'[Host] = 0
    BY <1>2 DEF MailInv
  <2>1. stage'[g] # "out" => stage[g] # "out"
    BY Bounds DEF Others
  <2> QED
    BY <1>2, <1>3, <2>1 DEF MailInv
<1>5. ASSUME NEW d \in Consoles \ {c} PROVE InStage(d)'
  <2>1. stage'[d] = stage[d] /\ race'[d] = race[d] /\ session'[d] = session[d]
    BY <1>2 DEF Others
  <2>2. InStage(d) /\ session'[Host] = session[Host] /\ (LastRace(d)' <=> LastRace(d))
    BY <1>2, <2>1 DEF StageInv, LastRace
  <2> QED
    BY <1>1, <2>1, <2>2 DEF InStage
<1>6. StageInv'
  BY <1>5 DEF StageInv
<1>7. ASSUME NEW d \in Consoles \ {c} PROVE VoteListed(d)'
  <2>1. stage'[d] = stage[d] /\ packet'[d] = packet[d] /\ OnlineMode(d)' = OnlineMode(d)
    BY <1>2 DEF Others, OnlineMode
  <2> QED
    BY <1>2, <2>1 DEF VotesListed, VoteListed
<1>8. Lockstep' /\ VotesListed'
  BY <1>7 DEF Lockstep, VotesListed
<1> QED
  BY <1>4, <1>6, <1>8 DEF FriendInv

\* A step of a vote that takes no console further: nobody changes its stage,
\* and the host decides nothing.
LEMMA InVoteKeeps ==
  ASSUME FriendInv, VotingInv', UNCHANGED <<roomVars, stage, round, race>>,
         NEW c \in Consoles, Others(c), stage[c] = "voting",
         c = Host => (HasDecided(c)' <=> HasDecided(c)), VoteListed(c)'
  PROVE  FriendInv'
<1>1. Deciding' <=> Deciding
  BY Bounds DEF Deciding, HasDecided, Others
<1>2. \A d \in Consoles : (InLobby(d)' <=> InLobby(d)) /\ (LastRace(d)' <=> LastRace(d))
  BY DEF InLobby, LastRace, roomVars
<1>3. session' = session /\ StageInv /\ Lockstep
  BY DEF FriendInv, roomVars
<1>4. InStage(c)'
  BY <1>2, <1>3 DEF StageInv, InStage
<1>5. ASSUME NEW g \in Guests PROVE InStep(g)'
  <2>1. InStep(g)
    BY <1>3 DEF Lockstep
  <2> QED
    BY <1>1, <1>2, <1>3, <2>1, Bounds DEF InStep
<1> QED
  BY <1>1, <1>4, <1>5, InSessionKeeps

\* Each vote is on the room's list.
LEMMA FriendVotes ==
  ASSUME ~Public, FriendInv, VotingInv',
         \/ OpenVote
         \/ \E c \in Consoles : OpenCups(c) \/ ChooseCourse(c) \/ ChooseArena(c) \/ TimeOut(c)
         \/ \E g \in Guests : Hear(g) \/ Follow(g)
  PROVE  FriendInv'
<1>1. RoomInv /\ VotingTypeOK /\ ThreeLists /\ VotesListed /\ HostRound
  BY DEF FriendInv, VotingInv
<1>2. ASSUME NEW c \in Consoles, UNCHANGED roomVars, UNCHANGED stage, packet'[c].vote = packet[c].vote
      PROVE  VoteListed(c)'
  <2>1. OnlineMode(c)' = OnlineMode(c) /\ rules' = rules
    BY <1>2 DEF OnlineMode, roomVars
  <2> QED
    BY <1>1, <1>2, <2>1 DEF VotesListed, VoteListed
<1>3. CASE OpenVote
  <2>1. /\ Others(Host) /\ UNCHANGED <<roomVars, stage, round, race>> /\ stage[Host] = "voting"
        /\ packet'[Host].vote = packet[Host].vote /\ packet'[Host].course = packet[Host].course
    BY <1>1, <1>3, OpenVoteDoes
  <2>2. HasDecided(Host)' <=> HasDecided(Host)
    BY <2>1 DEF HasDecided
  <2>3. VoteListed(Host)'
    BY <1>2, <2>1, Bounds
  <2> QED
    BY <2>1, <2>2, <2>3, InVoteKeeps, Bounds
<1>4. ASSUME NEW c \in Consoles, OpenCups(c) PROVE FriendInv'
  <2>1. /\ Others(c) /\ UNCHANGED <<roomVars, stage, round, race, packet>> /\ stage[c] = "voting"
    BY <1>1, <1>4, OpenCupsDoes DEF ThreeLists
  <2>2. VoteListed(c)' /\ (HasDecided(c)' <=> HasDecided(c))
    BY <1>2, <2>1 DEF HasDecided
  <2> QED
    BY <2>1, <2>2, InVoteKeeps
<1>5. ASSUME NEW c \in Consoles, ChooseCourse(c) \/ ChooseArena(c) \/ TimeOut(c) PROVE FriendInv'
  <2>1. /\ Others(c) /\ UNCHANGED <<roomVars, stage, round, race>> /\ stage[c] = "voting"
        /\ packet'[c].course = packet[c].course
        /\ \/ packet'[c].vote = Random
           \/ OnlineMode(c) = "private_battle"
           \/ \E slot \in TrackLists[WantedList(c)] : packet'[c].vote \in {slot} \union Expand(slot)
    BY <1>1, <1>5, VoteDoes
  <2>2. HasDecided(c)' <=> HasDecided(c)
    BY <2>1 DEF HasDecided
  <2>3. OnlineMode(c)' = OnlineMode(c) /\ rules' = rules
    BY <2>1 DEF OnlineMode, roomVars
  <2>4. OnlineMode(c) = "private_vs" => WantedList(c) = rules[c].trackList
    BY DEF WantedList
  <2>5. VoteListed(c)'
    BY <2>1, <2>3, <2>4, Slots DEF VoteListed
  <2> QED
    BY <2>1, <2>2, <2>5, InVoteKeeps
<1>6. ASSUME NEW g \in Guests, Hear(g) PROVE FriendInv'
  <2>1. /\ Others(g) /\ UNCHANGED <<roomVars, stage, round, race, packet>> /\ stage[g] = "voting"
        /\ g \in Consoles
    BY <1>1, <1>6, HearDoes, Bounds
  <2>2. VoteListed(g)' /\ (HasDecided(g)' <=> HasDecided(g))
    BY <1>2, <2>1 DEF HasDecided
  <2> QED
    BY <2>1, <2>2, InVoteKeeps
<1>7. ASSUME NEW g \in Guests, Follow(g) PROVE FriendInv'
  <2>1. /\ Others(g) /\ UNCHANGED <<roomVars, stage, round, race>> /\ stage[g] = "voting"
        /\ g \in Consoles /\ g # Host /\ packet'[g].vote = packet[g].vote
    BY <1>1, <1>7, FollowDoes, Bounds
  <2>2. VoteListed(g)'
    BY <1>2, <2>1
  <2> QED
    BY <2>1, <2>2, InVoteKeeps
<1> QED
  BY <1>3, <1>4, <1>5, <1>6, <1>7

-----------------------------------------------------------------------------
(* The steps from race to race.                                             *)

\* A race begins.
LEMMA FriendStartRace ==
  ASSUME FriendInv, VotingInv', NEW c \in Consoles, StartRace(c)
  PROVE  FriendInv'
<1>1. /\ VotingInv /\ VotingTypeOK /\ HostRound /\ StageInv /\ Lockstep /\ Len(decided) \in Nat
  BY DEF FriendInv, VotingInv, VotingTypeOK
<1>2. /\ Others(c) /\ UNCHANGED <<roomVars, round, race, packet>>
      /\ stage[c] = "voting" /\ HasDecided(c) /\ stage'[c] = "racing"
  BY <1>1, StartRaceDoes
<1>3. \A d \in Consoles : /\ InLobby(d)' <=> InLobby(d)
                          /\ LastRace(d)' <=> LastRace(d)
                          /\ session'[d] = session[d]
                          /\ round'[d] = round[d] /\ race'[d] = race[d]
  BY <1>2 DEF InLobby, LastRace, roomVars
<1>4. InStage(c)'
  BY <1>1, <1>2, <1>3, Bounds DEF StageInv, InStage
<1>5. (Deciding' <=> Deciding) /\ (c = Host => ~Deciding)
  BY <1>2, Bounds DEF Deciding, HasDecided, Others
<1>6. VoteListed(c)'
  BY <1>2 DEF VoteListed
<1>7. ASSUME NEW g \in Guests PROVE InStep(g)'
  <2>1. InStep(g) /\ g \in Consoles /\ g # Host /\ session'[Host] = session[Host]
    BY <1>1, <1>3, Bounds DEF Lockstep
  <2>2. CASE c = Host
    <3>1. stage[Host] # "racing" /\ ~Deciding
      BY <1>2, <1>5, <2>2
    <3> QED
      BY <1>3, <1>5, <2>1, <3>1, Bounds DEF InStep
  <2>3. CASE c = g
    <3>1. ~Deciding => round[g] # round[Host] + 1
      <4>1. Knows(g)
        BY <1>2, <2>3 DEF Knows
      <4>2. round[g] \in Nat /\ round[Host] \in Nat
        BY <1>1, <2>1, Counters, Bounds
      <4> QED
        BY <1>1, <2>1, <4>1, <4>2, NotAhead
    <3> QED
      BY <1>3, <1>5, <2>1, <3>1, Bounds DEF InStep
  <2>4. CASE c # Host /\ c # g
    <3>1. stage'[g] = stage[g] /\ stage'[Host] = stage[Host]
      BY <1>2, <2>1, <2>4, Bounds DEF Others
    <3> QED
      BY <1>3, <1>5, <2>1, <3>1, Bounds DEF InStep
  <2> QED
    BY <2>2, <2>3, <2>4
<1> QED
  BY <1>2, <1>4, <1>5, <1>6, <1>7, InSessionKeeps

\* The host opens the next vote.
LEMMA FriendNextVoteHost ==
  ASSUME FriendInv, VotingInv', NextVote(Host)
  PROVE  FriendInv'
<1>1. /\ VotingInv /\ VotingTypeOK /\ RaceCounted /\ StageInv /\ Lockstep /\ Host \in Consoles
  BY Bounds DEF FriendInv, VotingInv
<1>2. /\ Others(Host) /\ UNCHANGED roomVars /\ stage[Host] = "racing"
      /\ stage'[Host] = "voting" /\ round'[Host] = round[Host] + 1
      /\ race'[Host] = race[Host] + 1 /\ packet'[Host] = FreshPacket
  BY <1>1, NextVoteDoes
<1>3. Deciding' /\ ~Deciding
  BY <1>2, FreshFields DEF Deciding, HasDecided
<1>4. \A d \in Consoles : (InLobby(d)' <=> InLobby(d)) /\ session'[d] = session[d]
  BY <1>2 DEF InLobby, roomVars
<1>5. InStage(Host)'
  BY <1>1, <1>2, <1>4 DEF StageInv, InStage
<1>6. VoteListed(Host)'
  BY <1>2, FreshFields, Slots DEF VoteListed
<1>7. ASSUME NEW g \in Guests PROVE InStep(g)'
  <2>1. /\ InStep(g) /\ g \in Consoles /\ session'[Host] = session[Host]
        /\ round'[g] = round[g] /\ race'[g] = race[g]
    BY <1>1, <1>2, <1>4, Bounds DEF Lockstep, Others
  <2>2. /\ round[g] \in Nat /\ round[Host] \in Nat /\ race[g] \in Nat /\ race[Host] \in Nat
    BY <1>1, <2>1, Counters
  <2>3. round[g] + race[Host] = round[Host] + race[g] => round'[g] + race'[Host] = round'[Host] + race'[g]
    BY <1>2, <2>1, <2>2
  <2> QED
    BY <1>3, <1>4, <2>1, <2>3 DEF InStep
<1> QED
  BY <1>1, <1>2, <1>3, <1>5, <1>6, <1>7, InSessionKeeps

\* A guest opens the next vote, before the host does or after it.
LEMMA FriendNextVoteGuest ==
  ASSUME FriendInv, VotingInv', NEW g \in Guests, NextVote(g)
  PROVE  FriendInv'
<1>1. /\ VotingInv /\ VotingTypeOK /\ RaceCounted /\ StageInv /\ Lockstep /\ HostRound /\ RoomInv
      /\ Host \in Consoles /\ g \in Consoles /\ g # Host
  BY Bounds DEF FriendInv, VotingInv
<1>2. /\ Others(g) /\ UNCHANGED roomVars /\ stage[g] = "racing" /\ Begun(round[g]) /\ ~LastRace(g)
      /\ stage'[g] = "voting" /\ round'[g] = round[g] + 1
      /\ race'[g] = race[g] + 1 /\ packet'[g] = FreshPacket
  BY <1>1, NextVoteDoes
<1>3. /\ stage'[Host] = stage[Host] /\ round'[Host] = round[Host] /\ race'[Host] = race[Host]
      /\ packet'[Host] = packet[Host]
  BY <1>1, <1>2 DEF Others
<1>4. Deciding' <=> Deciding
  BY <1>3 DEF Deciding, HasDecided
<1>5. \A d \in Consoles : (InLobby(d)' <=> InLobby(d)) /\ session'[d] = session[d]
  BY <1>2 DEF InLobby, roomVars
<1>6. ~InLobby(g) /\ session[g] = session[Host] /\ ~InLobby(Host)
  BY <1>1, <1>2 DEF StageInv, InStage, InLobby
<1>7. InStage(g)'
  BY <1>1, <1>2, <1>5, <1>6 DEF StageInv, InStage
<1>8. VoteListed(g)'
  BY <1>2, FreshFields, Slots DEF VoteListed
<1>9. /\ round[g] \in Nat /\ round[Host] \in Nat /\ race[g] \in Nat /\ race[Host] \in Nat
  BY <1>1, Counters
<1>10. LastRace(Host)' <=> LastRace(Host)
  BY <1>2, <1>3 DEF LastRace, roomVars
<1>11. InStep(g)'
  <2>1. /\ round[g] + race[Host] = round[Host] + race[g]
        /\ ~Deciding => round[g] = round[Host]
    BY <1>1, <1>2, <1>6 DEF Lockstep, InStep
  <2>2. round'[g] + race'[Host] = round'[Host] + race'[g]
    BY <1>2, <1>3, <1>9, <2>1
  <2>3. ASSUME ~Deciding PROVE stage[Host] = "racing" /\ ~LastRace(Host)
    <3>1. round[g] = round[Host] /\ race[g] = race[Host]
      BY <1>9, <2>1, <2>3
    <3>2. ~LastRace(Host)
      BY <1>1, <1>2, <1>6, <3>1, SameLastRace
    <3>3. stage[Host] \in {"voting", "racing"}
      BY <1>1, <1>6 DEF StageInv, InStage
    <3>4. stage[Host] # "voting"
      BY <1>1, <1>2, <3>1 DEF Begun, Available
    <3> QED
      BY <3>2, <3>3, <3>4
  <2> QED
    BY <1>2, <1>3, <1>4, <1>10, <2>1, <2>2, <2>3 DEF InStep
<1>12. ASSUME NEW f \in Guests PROVE InStep(f)'
  <2>1. CASE f = g
    BY <1>11, <2>1
  <2>2. CASE f # g
    <3>1. /\ InStep(f) /\ f \in Consoles
          /\ stage'[f] = stage[f] /\ round'[f] = round[f] /\ race'[f] = race[f]
      BY <1>1, <1>2, <2>2, Bounds DEF Lockstep, Others
    <3> QED
      BY <1>1, <1>3, <1>4, <1>5, <1>10, <3>1 DEF InStep
  <2> QED
    BY <2>1, <2>2
<1> QED
  BY <1>1, <1>2, <1>7, <1>8, <1>12, InSessionKeeps

-----------------------------------------------------------------------------
(* The steps into a session and out of it.                                  *)

\* In the lobby the session has no number, and a start message's has one.
LEMMA Numbers ==
  ASSUME RoomInv
  PROVE  /\ \A c \in Consoles : InLobby(c) => session[c].number = 0
         /\ \A c \in Consoles : session[c].number <= Len(announced)
         /\ \A g \in Guests : mail[g].type = "start" /\ mail[g].of = Len(announced) => Len(announced) >= 1
<1>1. \A c \in Consoles : InLobby(c) => session[c].number = 0
  BY DEF InLobby, NoSession
<1>2. \A c \in Consoles : ~InLobby(c) => session[c].number \in 1..Len(announced)
  BY RoomFacts DEF Plays
<1>3. Len(announced) \in Nat /\ \A g \in Guests : mail[g].type = "start" => mail[g].of \in 1..Len(announced)
  BY RoomFacts DEF FromHost
<1> QED
  BY <1>1, <1>2, <1>3

\* The host's start message: nobody votes in a session that is over.
LEMMA FriendStart ==
  ASSUME FriendInv, VotingInv', NEW mode \in GameModes, StartRoom(mode)
  PROVE  FriendInv'
<1> DEFINE n == Len(announced) + 1
<1>1. /\ VotingInv /\ VotingTypeOK /\ RaceCounted /\ StageInv /\ HostRound /\ RoomInv /\ TypeInv
      /\ Host \in Consoles
  BY Bounds DEF FriendInv, VotingInv, RoomInv
<1>2. /\ Others(Host) /\ Start(mode) /\ race' = race /\ stage'[Host] = "voting"
      /\ packet'[Host] = FreshPacket
  BY <1>1, StartRoomDoes
<1>3. /\ InLobby(Host) /\ Send("start", mode, n)
      /\ session' = [session EXCEPT ![Host] = [number |-> n, mode |-> mode]]
      /\ Len(announced') = n /\ Len(announced) \in Nat
  <2>1. announced \in Seq(Entries)
    BY <1>1, RoomFacts
  <2> QED
    BY <1>2, <2>1 DEF Start
<1>4. /\ session'[Host] = [number |-> n, mode |-> mode] /\ session'[Host].number = n
      /\ \A g \in Guests : session'[g] = session[g] /\ session[g].number # n
  BY <1>1, <1>3, RoomFacts, Numbers, Bounds
<1>5. /\ \A g \in Guests : mail'[g].type = "start" /\ mail'[g].of = n /\ rules'[g] = rules[g]
  BY <1>1, <1>3, SendType
<1>6. Deciding' /\ race'[Host] = 0
  <2>1. stage[Host] = "lobby"
    BY <1>1, <1>3 DEF StageInv, InStage, HostRound
  <2> QED
    BY <1>1, <1>2, <2>1, FreshFields DEF Deciding, HasDecided, RaceCounted
<1>7. ~InLobby(Host)' /\ \A g \in Guests : InLobby(g)' <=> InLobby(g)
  BY <1>3, <1>4 DEF InLobby, NoSession
<1>8. ASSUME NEW g \in Guests PROVE stage'[g] = stage[g] /\ stage[g] # "voting" /\ g \in Consoles
  BY <1>1, <1>2, <1>3, Bounds DEF Others, StageInv, InStage, InLobby
<1>9. MailInv'
  BY <1>3, <1>4, <1>5, <1>6 DEF MailInv
<1>10. StageInv'
  <2>1. InStage(Host)'
    BY <1>2, <1>7 DEF InStage
  <2>2. ASSUME NEW g \in Guests PROVE InStage(g)'
    <3>1. InStage(g) /\ (LastRace(g)' <=> LastRace(g))
      BY <1>1, <1>2, <1>5, <1>8 DEF StageInv, LastRace
    <3>2. session[g] # session[Host] \/ InLobby(g)
      BY <1>3 DEF InLobby
    <3> QED
      BY <1>7, <1>8, <3>1, <3>2 DEF InStage
  <2> QED
    BY <2>1, <2>2, Bounds DEF StageInv
<1>11. Lockstep'
  BY <1>4 DEF Lockstep, InStep
<1>12. VotesListed'
  BY <1>2, <1>8, FreshFields, Slots, Bounds DEF VotesListed, VoteListed
<1> QED
  BY <1>9, <1>10, <1>11, <1>12 DEF FriendInv

\* A guest reads it: the host still decides on the first course.
LEMMA FriendRead ==
  ASSUME FriendInv, VotingInv', NEW g \in Guests, ReadRoom(g)
  PROVE  FriendInv'
<1>1. /\ VotingInv /\ VotingTypeOK /\ RaceCounted /\ StageInv /\ HostRound /\ RoomInv
      /\ MailInv /\ Lockstep /\ VotesListed
      /\ Host \in Consoles /\ g \in Consoles /\ g # Host
  BY Bounds DEF FriendInv, VotingInv
<1>2. /\ Others(g) /\ Read(g) /\ race' = race /\ stage[g] = "lobby" /\ stage'[g] = "voting"
      /\ round'[g] = round[Host] /\ packet'[g] = FreshPacket
  BY <1>1, ReadRoomDoes
<1>3. /\ InLobby(g) /\ mail[g] # NoPacket /\ mail' = [mail EXCEPT ![g] = NoPacket]
      /\ UNCHANGED announced
  BY <1>2 DEF Read
<1>4. /\ mail[g].type = "start" /\ mail[g].of = Len(announced) /\ Deciding /\ race[Host] = 0
      /\ FromHost(mail[g])
  BY <1>1, <1>2, <1>3, RoomFacts DEF MailInv
<1>5. ~InLobby(Host) /\ session[Host].number = Len(announced) /\ Plays(Host)
  BY <1>1, <1>4, RoomFacts DEF StageInv, InStage, Deciding
<1>6. /\ session' = [session EXCEPT ![g] = [number |-> mail[g].of, mode |-> mail[g].saved]]
      /\ \A d \in Consoles \ {g} : rules'[d] = rules[d]
  <2>1. mail[g] \in Packets /\ rules \in [Consoles -> Rules]
    BY <1>1, RoomFacts
  <2>2. /\ Restored(mail[g]).type = "start" /\ Restored(mail[g]).of = mail[g].of
        /\ Restored(mail[g]).message = mail[g].saved
    BY <1>4, <2>1, RestoredPacket
  <2> QED
    BY <1>2, <2>1, <2>2 DEF Read
<1>7. /\ session'[g] = session[Host] /\ \A d \in Consoles \ {g} : session'[d] = session[d]
  <2>1. session[Host] \in Sessions /\ session \in [Consoles -> Sessions]
    BY <1>1, RoomFacts
  <2>2. /\ session[Host].number = mail[g].of /\ session[Host].mode = mail[g].saved
    BY <1>4, <1>5 DEF Plays, FromHost
  <2>3. session[Host] = [number |-> mail[g].of, mode |-> mail[g].saved]
    BY <2>1, <2>2 DEF Sessions
  <2> QED
    BY <1>1, <1>6, <2>1, <2>3
<1>8. \A d \in Consoles \ {g} : InLobby(d)' <=> InLobby(d)
  BY <1>7 DEF InLobby
<1>9. ~InLobby(g)' /\ session'[Host] = session[Host] /\ race[g] = 0
  BY <1>1, <1>2, <1>5, <1>7 DEF InLobby, RaceCounted
<1>10. Deciding'
  BY <1>1, <1>2, <1>4 DEF Deciding, HasDecided, Others
<1>11. MailInv'
  <2>1. mail'[g] = NoPacket /\ \A f \in Guests \ {g} : mail'[f] = mail[f]
    BY <1>1, <1>3, RoomFacts
  <2> QED
    BY <1>1, <1>2, <1>3, <1>7, <1>10, <2>1, Bounds DEF MailInv, Others
<1>12. StageInv'
  <2>1. InStage(g)'
    BY <1>2, <1>7, <1>9 DEF InStage
  <2>2. ASSUME NEW d \in Consoles \ {g} PROVE InStage(d)'
    <3>1. InStage(d) /\ stage'[d] = stage[d] /\ (LastRace(d)' <=> LastRace(d))
      BY <1>1, <1>2, <1>6 DEF StageInv, LastRace, Others
    <3> QED
      BY <1>7, <1>8, <1>9, <3>1 DEF InStage
  <2> QED
    BY <2>1, <2>2 DEF StageInv
<1>13. Lockstep'
  <2>1. InStep(g)'
    <3>1. round'[g] = round'[Host] /\ race'[g] = 0 /\ race'[Host] = 0
      BY <1>1, <1>2, <1>4, <1>9 DEF Others
    <3>2. round'[Host] \in Nat
      BY <1>1, <1>2, Counters DEF Others
    <3> QED
      BY <1>10, <3>1, <3>2 DEF InStep
  <2>2. ASSUME NEW f \in Guests \ {g} PROVE InStep(f)'
    <3>1. /\ InStep(f) /\ f \in Consoles \ {g} /\ round'[f] = round[f] /\ round'[Host] = round[Host]
      BY <1>1, <1>2, Bounds DEF Lockstep, Others
    <3> QED
      BY <1>2, <1>7, <1>8, <1>9, <1>10, <3>1 DEF InStep
  <2> QED
    BY <2>1, <2>2 DEF Lockstep
<1>14. VotesListed'
  <2>1. VoteListed(g)'
    BY <1>2, FreshFields, Slots DEF VoteListed
  <2>2. ASSUME NEW d \in Consoles \ {g} PROVE VoteListed(d)'
    <3>1. /\ VoteListed(d) /\ stage'[d] = stage[d] /\ packet'[d] = packet[d]
          /\ rules'[d] = rules[d] /\ OnlineMode(d)' = OnlineMode(d)
      BY <1>1, <1>2, <1>6, <1>7 DEF VotesListed, Others, OnlineMode
    <3> QED
      BY <3>1 DEF VoteListed
  <2> QED
    BY <2>1, <2>2 DEF VotesListed
<1> QED
  BY <1>11, <1>12, <1>13, <1>14 DEF FriendInv

\* The host's last race is over: it was the last of all.
LEMMA FriendEndHost ==
  ASSUME FriendInv, VotingInv', EndSession(Host)
  PROVE  FriendInv'
<1>1. /\ VotingInv /\ VotingTypeOK /\ StageInv /\ RoomInv /\ MailInv /\ Lockstep
      /\ Host \in Consoles
  BY Bounds DEF FriendInv, VotingInv
<1>2. /\ Others(Host) /\ BackToLobby(Host) /\ stage[Host] = "racing" /\ Begun(round[Host])
      /\ LastRace(Host) /\ stage'[Host] = "lobby"
  BY <1>1, EndSessionDoes
<1>3. /\ session' = [session EXCEPT ![Host] = NoSession]
      /\ UNCHANGED <<rules, mail, announced>>
  BY <1>2 DEF BackToLobby
<1>4. /\ session'[Host] = NoSession /\ \A g \in Guests : session'[g] = session[g]
      /\ InLobby(Host)' /\ \A g \in Guests : InLobby(g)' <=> InLobby(g)
  <2>1. session \in [Consoles -> Sessions]
    BY <1>1, RoomFacts
  <2> QED
    BY <1>1, <1>3, <2>1, Bounds DEF InLobby
<1>5. ~Deciding
  BY <1>2 DEF Deciding
<1>6. ASSUME NEW g \in Guests, ~InLobby(g), session[g] = session[Host]
      PROVE  stage[g] # "voting" /\ LastRace(g)
  <2>1. /\ g \in Consoles /\ round[g] + race[Host] = round[Host] + race[g]
        /\ round[g] = round[Host]
    BY <1>1, <1>2, <1>5, <1>6, Bounds DEF Lockstep, InStep
  <2>2. race[g] = race[Host]
    BY <1>1, <2>1, Counters
  <2>3. stage[g] # "voting"
    BY <1>2, <2>1 DEF Begun, Available
  <2> QED
    BY <1>1, <1>2, <1>6, <2>1, <2>2, <2>3, SameLastRace
<1>7. ASSUME NEW g \in Guests
      PROVE  /\ g \in Consoles /\ stage'[g] = stage[g] /\ (LastRace(g)' <=> LastRace(g))
             /\ stage[g] # "voting"
  BY <1>1, <1>2, <1>3, <1>6, Bounds DEF Others, LastRace, StageInv, InStage
<1>8. MailInv'
  BY <1>1, <1>3, <1>4, <1>5, <1>7 DEF MailInv
<1>9. StageInv'
  <2>1. InStage(Host)'
    BY <1>2, <1>4 DEF InStage
  <2>2. ASSUME NEW g \in Guests PROVE InStage(g)'
    <3>1. InStage(g)
      BY <1>1, <1>7 DEF StageInv
    <3> QED
      BY <1>4, <1>6, <1>7, <3>1 DEF InStage
  <2> QED
    BY <2>1, <2>2, Bounds DEF StageInv
<1>10. Lockstep'
  BY <1>4 DEF Lockstep, InStep, InLobby
<1>11. VotesListed'
  BY <1>2, <1>7, Bounds DEF VotesListed, VoteListed
<1> QED
  BY <1>8, <1>9, <1>10, <1>11 DEF FriendInv

\* A guest that is in no session any more, or not yet: the others do not care.
LEMMA GuestOutside ==
  ASSUME FriendInv, VotingInv', NEW g \in Guests, Others(g), UNCHANGED <<rules, announced>>,
         InLobby(g)', \A d \in Consoles \ {g} : session'[d] = session[d],
         stage'[g] \in {"lobby", "out"},
         \A f \in Guests : mail'[f] = mail[f] \/ mail'[f] = NoPacket,
         mail'[g] # NoPacket => stage[g] # "out"
  PROVE  FriendInv'
<1>1. /\ StageInv /\ RoomInv /\ MailInv /\ Lockstep /\ VotesListed
      /\ Host \in Consoles /\ g \in Consoles /\ g # Host
  BY Bounds DEF FriendInv, VotingInv
<1>2. /\ session'[Host] = session[Host] /\ stage'[Host] = stage[Host]
      /\ round'[Host] = round[Host] /\ race'[Host] = race[Host] /\ packet'[Host] = packet[Host]
  BY <1>1 DEF Others
<1>3. \A d \in Consoles \ {g} : (InLobby(d)' <=> InLobby(d)) /\ (LastRace(d)' <=> LastRace(d))
  BY DEF InLobby, LastRace, Others
<1>4. Deciding' <=> Deciding
  BY <1>2 DEF Deciding, HasDecided
<1>5. session'[g].number = 0
  BY DEF InLobby, NoSession
<1>6. MailInv'
  <2> SUFFICES ASSUME NEW f \in Guests, mail'[f] # NoPacket
               PROVE  /\ mail'[f].type = "start" /\ mail'[f].of = Len(announced)
                      /\ session'[f].number # Len(announced)
                      /\ stage'[f] # "out" => Deciding' /\ race'[Host] = 0
    BY DEF MailInv
  <2>1. /\ mail'[f] = mail[f] /\ mail[f].type = "start" /\ mail[f].of = Len(announced)
        /\ session[f].number # Len(announced)
        /\ stage[f] # "out" => Deciding /\ race[Host] = 0
    BY <1>1 DEF MailInv
  <2>2. CASE f = g
    <3>1. Len(announced) >= 1
      BY <1>1, <2>1, Numbers
    <3> QED
      BY <1>2, <1>4, <1>5, <2>1, <2>2, <3>1
  <2>3. CASE f # g
    <3>1. session'[f] = session[f] /\ stage'[f] = stage[f]
      BY <2>3, Bounds DEF Others
    <3> QED
      BY <1>2, <1>4, <2>1, <3>1
  <2> QED
    BY <2>2, <2>3
<1>7. StageInv'
  <2>1. InStage(g)'
    BY DEF InStage
  <2>2. ASSUME NEW d \in Consoles \ {g} PROVE InStage(d)'
    <3>1. InStage(d) /\ stage'[d] = stage[d]
      BY <1>1 DEF StageInv, Others
    <3> QED
      BY <1>2, <1>3, <3>1 DEF InStage
  <2> QED
    BY <2>1, <2>2 DEF StageInv
<1>8. ASSUME NEW f \in Guests PROVE InStep(f)'
  <2>1. CASE f = g
    BY <2>1 DEF InStep
  <2>2. CASE f # g
    <3>1. /\ InStep(f) /\ f \in Consoles \ {g} /\ session'[f] = session[f]
          /\ stage'[f] = stage[f] /\ round'[f] = round[f] /\ race'[f] = race[f]
      BY <1>1, <2>2, Bounds DEF Lockstep, Others
    <3>2. LastRace(Host)' <=> LastRace(Host)
      BY <1>1, <1>3
    <3> QED
      BY <1>2, <1>3, <1>4, <3>1, <3>2 DEF InStep
  <2> QED
    BY <2>1, <2>2
<1>9. ASSUME NEW d \in Consoles PROVE VoteListed(d)'
  <2>1. CASE d = g
    BY <2>1 DEF VoteListed
  <2>2. CASE d # g
    <3>1. /\ VoteListed(d) /\ stage'[d] = stage[d] /\ packet'[d] = packet[d]
          /\ OnlineMode(d)' = OnlineMode(d)
      BY <1>1, <2>2 DEF VotesListed, Others, OnlineMode
    <3> QED
      BY <3>1 DEF VoteListed
  <2> QED
    BY <2>1, <2>2
<1>10. Lockstep' /\ VotesListed'
  BY <1>8, <1>9 DEF Lockstep, VotesListed
<1> QED
  BY <1>6, <1>7, <1>10 DEF FriendInv

\* A guest's last race is over, or it leaves, or joins.
LEMMA FriendComesOrGoes ==
  ASSUME ~Public, FriendInv, VotingInv', NEW g \in Guests, EndSession(g) \/ Leave(g) \/ Join(g)
  PROVE  FriendInv'
<1>1. /\ VotingTypeOK /\ StageInv /\ RoomInv /\ g \in Consoles
      /\ session \in [Consoles -> Sessions] /\ mail \in [Guests -> Packets]
  BY Bounds, RoomFacts DEF FriendInv, VotingInv
<1>2. CASE EndSession(g)
  <2>1. /\ Others(g) /\ BackToLobby(g) /\ stage[g] = "racing" /\ stage'[g] = "lobby"
    BY <1>1, <1>2, EndSessionDoes
  <2>2. /\ session' = [session EXCEPT ![g] = NoSession] /\ UNCHANGED <<rules, mail, announced>>
    BY <2>1 DEF BackToLobby
  <2>3. /\ session'[g] = NoSession /\ \A d \in Consoles \ {g} : session'[d] = session[d]
    BY <1>1, <2>2
  <2> QED
    BY <2>1, <2>2, <2>3, GuestOutside DEF InLobby
<1>3. CASE Leave(g)
  <2>1. /\ Others(g) /\ UNCHANGED <<rules, announced>> /\ stage'[g] = "out"
        /\ session' = [session EXCEPT ![g] = NoSession]
        /\ mail' = [mail EXCEPT ![g] = NoPacket]
    BY <1>1, <1>3, LeaveDoes
  <2>2. /\ session'[g] = NoSession /\ \A d \in Consoles \ {g} : session'[d] = session[d]
        /\ mail'[g] = NoPacket /\ \A f \in Guests : mail'[f] = mail[f] \/ mail'[f] = NoPacket
    BY <1>1, <2>1
  <2> QED
    BY <2>1, <2>2, GuestOutside DEF InLobby
<1>4. CASE Join(g)
  <2>1. /\ Others(g) /\ UNCHANGED <<rules, session, announced>> /\ stage[g] = "out"
        /\ stage'[g] = "lobby" /\ mail' = [mail EXCEPT ![g] = NoPacket]
    BY <1>1, <1>4, JoinDoes
  <2>2. InLobby(g)' /\ mail'[g] = NoPacket /\ \A f \in Guests : mail'[f] = mail[f] \/ mail'[f] = NoPacket
    BY <1>1, <2>1 DEF StageInv, InStage, InLobby
  <2> QED
    BY <2>1, <2>2, GuestOutside
<1> QED
  BY <1>2, <1>3, <1>4

\* The host decides: whoever is in the room has voted, so nobody has a start
\* message left to read.
LEMMA FriendDecide ==
  ASSUME FriendInv, VotingInv', DecideTrack
  PROVE  FriendInv'
<1>1. /\ VotingInv /\ VotingTypeOK /\ HostRound /\ RoomInv /\ HeardInv /\ StageInv /\ MailInv
      /\ VotesListed /\ Lockstep /\ Host \in Consoles
  BY Bounds DEF FriendInv, VotingInv
<1>2. /\ Others(Host) /\ UNCHANGED <<roomVars, stage, round, race, heard, layout, track>>
      /\ Deciding /\ \A c \in Consoles : stage[c] # "out" => HostView(c) # NotVoted
      /\ packet'[Host].vote = packet[Host].vote
  BY <1>1, DecideDoes
<1>3. /\ UNCHANGED <<rules, mail, session, announced>>
      /\ \A c \in Consoles : OnlineMode(c)' = OnlineMode(c)
  BY <1>2 DEF roomVars, OnlineMode
<1>4. ASSUME NEW g \in Guests, stage[g] # "out"
      PROVE  mail[g] = NoPacket /\ stage[g] = "voting" /\ round[g] = round[Host]
  <2>1. heard[g] # NotVoted
    BY <1>2, <1>4, Bounds DEF HostView
  <2>2. stage[g] = "voting" /\ round[g] = round[Host]
    BY <1>1, <1>2, <1>4, <2>1 DEF HeardInv
  <2>3. session[g] = session[Host] /\ session[Host].number = Len(announced)
    BY <1>1, <1>2, <2>2, RoomFacts, Bounds DEF StageInv, InStage, Deciding
  <2> QED
    BY <1>1, <2>2, <2>3 DEF MailInv
<1>5. MailInv'
  BY <1>1, <1>2, <1>3, <1>4 DEF MailInv
<1>6. \A c \in Consoles : (InLobby(c)' <=> InLobby(c)) /\ (LastRace(c)' <=> LastRace(c))
  BY <1>2, <1>3 DEF InLobby, LastRace
<1>7. StageInv'
  BY <1>1, <1>2, <1>3, <1>6 DEF StageInv, InStage
<1>8. ASSUME NEW g \in Guests PROVE InStep(g)'
  <2>1. InStep(g) /\ g \in Consoles
    BY <1>1, Bounds DEF Lockstep
  <2>2. InLobby(g) \/ round[g] = round[Host]
    BY <1>1, <1>4, <2>1 DEF StageInv, InStage
  <2> QED
    BY <1>2, <1>3, <1>6, <2>1, <2>2 DEF InStep
<1>9. ASSUME NEW c \in Consoles PROVE VoteListed(c)'
  <2>1. VoteListed(c) /\ packet'[c].vote = packet[c].vote
    BY <1>1, <1>2 DEF VotesListed, Others
  <2> QED
    BY <1>2, <1>3, <2>1 DEF VoteListed
<1>10. Lockstep' /\ VotesListed'
  BY <1>8, <1>9 DEF Lockstep, VotesListed
<1> QED
  BY <1>5, <1>7, <1>10 DEF FriendInv

\* Nobody watches a friend room.
LEMMA NobodyWatches ==
  ASSUME FriendInv, NEW g \in Guests
  PROVE  ~JoinVote(g) /\ \A c \in Consoles : ~Watch(g, c)
<1>1. stage[g] # "watching"
  BY Bounds DEF FriendInv, StageInv, InStage
<1> QED
  BY <1>1 DEF JoinVote, Watch

\* Every step of a friend room keeps its invariant.
LEMMA FriendInvStep ==
  ASSUME ~Public, FriendInv, [VotingNext]_vars
  PROVE  FriendInv'
<1>1. VotingInv'
  BY VotingInvStep DEF FriendInv
<1>2. CASE EditRules \/ UNCHANGED vars
  <2>1. UNCHANGED <<rules, mail, session, announced, stage, round, race, packet>>
    BY <1>2 DEF EditRules, EditMenu, vars, votingVars, roomVars
  <2>2. \A c \in Consoles : /\ InLobby(c)' <=> InLobby(c)
                            /\ LastRace(c)' <=> LastRace(c)
                            /\ OnlineMode(c)' = OnlineMode(c)
    BY <2>1 DEF InLobby, LastRace, OnlineMode
  <2>3. Deciding' <=> Deciding
    BY <2>1 DEF Deciding, HasDecided
  <2>4. MailInv' /\ StageInv'
    BY <2>1, <2>2, <2>3 DEF FriendInv, MailInv, StageInv, InStage
  <2>5. Lockstep' /\ VotesListed'
    BY <2>1, <2>2, <2>3, Bounds DEF FriendInv, Lockstep, InStep, VotesListed, VoteListed
  <2> QED
    BY <1>1, <2>4, <2>5 DEF FriendInv
<1>3. ASSUME NEW mode \in GameModes, StartRoom(mode) PROVE FriendInv'
  BY <1>1, <1>3, FriendStart
<1>4. ASSUME NEW c \in Consoles, StartRace(c) PROVE FriendInv'
  BY <1>1, <1>4, FriendStartRace
<1>5. ASSUME NEW c \in Consoles, EndSession(c) PROVE FriendInv'
  BY <1>1, <1>5, FriendEndHost, FriendComesOrGoes, Bounds
<1>6. ASSUME NEW c \in Consoles, NextVote(c) PROVE FriendInv'
  BY <1>1, <1>6, FriendNextVoteHost, FriendNextVoteGuest, Bounds
<1>7. ASSUME NEW g \in Guests, ReadRoom(g) PROVE FriendInv'
  BY <1>1, <1>7, FriendRead
<1>8. ASSUME NEW g \in Guests, Leave(g) \/ Join(g) PROVE FriendInv'
  BY <1>1, <1>8, FriendComesOrGoes
<1>9. CASE DecideTrack
  BY <1>1, <1>9, FriendDecide
<1> QED
  BY <1>1, <1>2, <1>3, <1>4, <1>5, <1>6, <1>7, <1>8, <1>9, FriendVotes, NobodyWatches DEF VotingNext

-----------------------------------------------------------------------------
(* The room's list.                                                         *)

\* A decision on the list, where the host has its cups laid out by it.
Listed(d) ==
  d.mode = "private_vs" /\ d.laidOut = d.trackList =>
    \E slot \in TrackLists[d.trackList] : d.course \in Expand(slot)

\* What is drawn is drawn from the list, what is chosen was chosen from it:
\* voter and host are in one session.
LEMMA WonIsListed ==
  ASSUME FriendInv, Deciding, NEW voter \in Consoles, NEW choice \in Buttons,
         NEW course \in Courses \union Arenas, Won(voter, choice, course)
  PROVE  Listed(Entry(voter, choice, course))
<1> DEFINE d == Entry(voter, choice, course)
           list == TrackLists[rules[Host].trackList]
<1>1. VotingInv /\ VotingTypeOK /\ RoomInv /\ HeardInv /\ StageInv /\ VotesListed /\ ThreeLists
  BY DEF FriendInv, VotingInv
<1>2. /\ d.course = course /\ d.mode = OnlineMode(Host)
      /\ d.trackList = rules[Host].trackList /\ d.laidOut = layout[Host]
  BY <1>1, EntryFields
<1>3. /\ HostView(voter) # NotVoted /\ stage[voter] # "out"
      /\ choice \in Choices(HostView(voter)) /\ course \in Expand(choice)
  BY DEF Won
<1> SUFFICES ASSUME OnlineMode(Host) = "private_vs", layout[Host] = rules[Host].trackList
             PROVE  \E slot \in list : course \in Expand(slot)
  BY <1>2 DEF Listed
<1>4. CASE HostView(voter) = Random
  BY <1>3, <1>4 DEF Choices, RandomTracks
<1>5. CASE HostView(voter) # Random
  <2>1. choice = HostView(voter)
    BY <1>3, <1>5 DEF Choices
  <2>2. stage[voter] = "voting" /\ packet[voter].vote = choice
    BY <1>1, <1>3, <2>1, Bounds DEF HeardInv, HostView, Deciding
  <2>3. session[voter] = session[Host] /\ ~InLobby(voter)
    BY <1>1, <2>2 DEF StageInv, InStage
  <2>4. rules[voter].trackList = rules[Host].trackList /\ OnlineMode(voter) = OnlineMode(Host)
    BY <1>1, <2>3, SameRules, Bounds
  <2>5. PICK slot \in list : choice \in {slot} \union Expand(slot)
    BY <1>1, <2>2, <2>4 DEF VotesListed, VoteListed
  <2>6. slot \in Buttons
    BY <1>1, Slots, Bounds DEF ThreeLists, Buttons
  <2>7. CASE choice = slot
    BY <1>3, <2>7
  <2>8. CASE choice \in Expand(slot)
    <3>1. Expand(choice) = {choice}
      BY <2>6, <2>8, Slots
    <3> QED
      BY <1>3, <2>8, <3>1
  <2> QED
    BY <2>5, <2>7, <2>8
<1> QED
  BY <1>4, <1>5

\* A public room has no list of its own, and a friend room keeps to it.
AllListed == \A r \in DOMAIN decided : Listed(decided[r])
ListInv == AllListed /\ (Public \/ FriendInv)

\* Every decision is on the list.
LEMMA ListStep ==
  ASSUME VotingInv, ListInv, [VotingNext]_vars
  PROVE  ListInv'
<1>1. Public \/ FriendInv'
  BY FriendInvStep DEF ListInv
<1>2. CASE UNCHANGED decided
  BY <1>1, <1>2 DEF ListInv, AllListed, Listed
<1>3. ASSUME Deciding, NEW voter \in Consoles, NEW choice \in Buttons,
             NEW course \in Courses \union Arenas, Won(voter, choice, course),
             decided' = Append(decided, Entry(voter, choice, course))
      PROVE  ListInv'
  <2> DEFINE d == Entry(voter, choice, course)
  <2>1. d \in Decisions /\ decided \in Seq(Decisions) /\ d.mode = OnlineMode(Host)
    BY EntryFields DEF VotingInv, VotingTypeOK
  <2>2. Listed(d)
    <3>1. CASE Public
      BY <2>1, <3>1 DEF Listed, OnlineMode
    <3>2. CASE ~Public
      BY <1>3, <3>2, WonIsListed DEF ListInv
    <3> QED
      BY <3>1, <3>2
  <2>3. decided' = Append(decided, d)
    BY <1>3
  <2> HIDE DEF d
  <2>4. \A r \in DOMAIN decided' : (r \in DOMAIN decided /\ decided'[r] = decided[r]) \/ decided'[r] = d
    BY <2>1, <2>3
  <2>5. \A r \in DOMAIN decided' : Listed(decided'[r])
    BY <2>2, <2>4 DEF ListInv, AllListed
  <2> QED
    BY <1>1, <2>5 DEF ListInv, AllListed, Listed
<1> QED
  BY <1>2, <1>3, DecidedStep

\* In a VS of a friend room whose host has its cups laid out by the room's
\* list, no vote and no random draw leaves that list.
THEOREM OnTheListCorrect == VotingSpec => []OnTheList
<1>1. VotingInit => ListInv
  BY FriendInit DEF VotingInit, ListInv, AllListed
<1>2. ListInv => OnTheList
  <2> SUFFICES ASSUME ListInv, NEW r \in DOMAIN decided, decided[r].mode = "private_vs",
                      decided[r].laidOut = decided[r].trackList
               PROVE  \E s \in TrackLists[decided[r].trackList] : decided[r].course \in Expand(s)
    BY DEF OnTheList
  <2> QED
    BY DEF ListInv, AllListed, Listed
<1>3. VotingInv /\ ListInv /\ [VotingNext]_vars => ListInv'
  BY ListStep
<1> QED
  BY <1>1, <1>2, <1>3, VotingInvariant, PTL DEF VotingSpec

\* Those who vote in a friend room vote in the host's session, in step with it.
THEOREM FriendsTogether == VotingSpec => [](Public \/ FriendInv)
<1>1. VotingInit => Public \/ FriendInv
  BY FriendInit
<1>2. VotingInv /\ (Public \/ FriendInv) /\ [VotingNext]_vars => (Public \/ FriendInv)'
  BY FriendInvStep
<1> QED
  BY <1>1, <1>2, VotingInvariant, PTL DEF VotingSpec

=============================================================================
