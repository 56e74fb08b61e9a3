---------------------------- MODULE TrackVoting ----------------------------
(***************************************************************************)
(* The vote on the next course, in a friend room under its rules and in a  *)
(* public room.  Every console keeps sending its SELECT packet; the host   *)
(* decides once it has everyone's vote, and the others take the course and *)
(* the engine class from the host's packet.  CupManager's winningCourse is *)
(* at first the course the player points at, then the one that is decided, *)
(* and in the race it goes to those who join late.                         *)
(*                                                                         *)
(* When a page opens, a packet is sent or a scene ends is the game's       *)
(* doing, not in this repository: the host decides when it has heard every *)
(* console and starts when every console has decided.                      *)
(***************************************************************************)
EXTENDS RoomRules

CONSTANTS
  Public,            \* a public VS room: no ROOM messages, no rules
  BattleModes,       \* the game modes of a start message that are battles
  Courses, Groups, Arenas,
  Variants,          \* per group: its courses
  TrackLists,        \* per track list: its courses and groups
  BlockCount,        \* TRACK_BLOCK_COUNT: 16
  None,              \* 0xFFFFFFFF in the blocking list
  MaxRounds          \* bound: rounds of voting

Random == "0xFF"     \* as a vote: no choice; as a course: undecided
NotVoted == "0x43"

OnlineModes == {"public_vs", "private_vs", "private_battle"}

Buttons == Courses \cup Groups \cup Arenas
Votes == Buttons \cup {Random, NotVoted}
Engines == {"150", "200", "mirror", "200mirror"}

ASSUME CourseAssumption ==
  /\ Public \in BOOLEAN
  /\ Variants \in [Groups -> (SUBSET Courses) \ {{}}]
  /\ TrackLists \in [0..2 -> (SUBSET (Courses \cup Groups)) \ {{}}]
  /\ Courses \cap Groups = {} /\ (Courses \cup Groups) \cap Arenas = {}
  /\ {Random, NotVoted} \cap Buttons = {}
  /\ BlockCount \in Nat \ {0} /\ None \notin Votes /\ MaxRounds \in Nat \ {0}

VARIABLES
  stage,      \* per console: lobby, voting, racing, watching (a race) or out
  round,      \* per console: the round it votes on or races
  race,       \* per console: races since the session began
  packet,     \* per console: RKNetSELECTHandlerPlus::toSendPacket
  heard,      \* per guest: its vote in the host's receivedPackets
  layout,     \* per console: CupManager::currentTrackList
  track,      \* per console: CupManager::winningCourse
  blocking,   \* the host's trackBlocking and currentTrackBlockIndex
  decided     \* history: the decision of each round

votingVars == <<stage, round, race, packet, heard, layout, track, blocking, decided>>
vars == <<roomVars, votingVars>>

\* A decision: the course, its voter, that voter's choice, everyone's vote
\* (not what the host heard), the rules and the host's layout at the time.
Decisions == [course : Courses \cup Arenas, voter : Consoles,
              choice : Buttons, votes : [Consoles -> Votes], haw : BOOLEAN,
              mode : OnlineModes, trackList : 0..3, laidOut : 0..2]

NoVoter == "none"
FreshPacket == [vote |-> NotVoted, phase |-> 0, engine |-> "150",
                course |-> Random, voter |-> NoVoter]
PacketType == [vote : Votes, phase : 0..2, engine : Engines,
               course : Courses \cup Arenas \cup {Random},
               voter : Consoles \cup {NoVoter}]

-----------------------------------------------------------------------------
OnlineMode(c) == IF Public THEN "public_vs"
                 ELSE IF session[c].mode \in BattleModes THEN "private_battle"
                 ELSE "private_vs"

Available == {c \in Consoles : stage[c] # "out"}

\* SettingsHolder::GetTrackList.
\* (wrong variant) the offline list.
WantedListOffline(c) == 0
WantedList(c) == IF OnlineMode(c) = "private_vs" THEN rules[c].trackList ELSE 0

\* SettingsHolder::CanChooseVariant.
CanChooseVariant(c) == OnlineMode(c) = "public_vs" \/ rules[c].variants

\* The courses a slot may stand for: GetRandomVariantTrack for a group.
Expand(slot) == IF slot \in Groups THEN Variants[slot] ELSE {slot}

\* GetRandomTrack: sixteen tries to miss the blocking list, then any.
RandomTracks == TrackLists[layout[Host]]

\* What a vote stands for before its variant is drawn.
Choices(vote) == IF vote = Random THEN RandomTracks ELSE {vote}

HasDecided(c) == packet[c].course # Random

-----------------------------------------------------------------------------
VotingInit ==
  /\ Init
  /\ stage = [c \in Consoles |-> IF Public THEN "voting" ELSE "lobby"]
  /\ round = [c \in Consoles |-> IF Public THEN 1 ELSE 0]
  /\ race = [c \in Consoles |-> 0]
  /\ packet = [c \in Consoles |-> FreshPacket]
  /\ heard = [c \in Guests |-> NotVoted]
  /\ layout \in {[c \in Consoles |-> l] : l \in 0..2}
  /\ \E t \in Courses : track = [c \in Consoles |-> t]
  /\ blocking = [tracks |-> [i \in 0..(BlockCount - 1) |-> None], index |-> 0]
  /\ decided = <<>>

\* A new voting scene on c: a new SELECT handler.
\* (wrong variant) the host's received packets of the last round stay.
EnterVotingStale(c, r) ==
  /\ stage' = [stage EXCEPT ![c] = "voting"]
  /\ round' = [round EXCEPT ![c] = r]
  /\ packet' = [packet EXCEPT ![c] = FreshPacket]
  /\ UNCHANGED heard
EnterVoting(c, r) ==
  /\ stage' = [stage EXCEPT ![c] = "voting"]
  /\ round' = [round EXCEPT ![c] = r]
  /\ packet' = [packet EXCEPT ![c] = FreshPacket]
  /\ heard' = IF c = Host THEN [g \in Guests |-> NotVoted] ELSE heard

\* The host's start message: the host goes to vote.
StartRoom(mode) ==
  /\ ~Public /\ Start(mode)
  /\ Len(decided) < MaxRounds
  /\ EnterVoting(Host, Len(decided) + 1)
  /\ UNCHANGED <<race, layout, track, blocking, decided>>

\* No settings page opens in a race.
EditRules ==
  /\ stage[Host] \in {"lobby", "voting"}
  /\ EditMenu /\ UNCHANGED votingVars

\* A guest reads it and follows.
ReadRoom(g) ==
  /\ stage[g] = "lobby"
  /\ Read(g)
  /\ EnterVoting(g, round[Host])
  /\ UNCHANGED <<race, layout, track, blocking, decided>>

\* A console that watched the last race takes part in the next vote.
JoinVote(w) ==
  /\ stage[w] = "watching" /\ stage[Host] = "voting" /\ ~HasDecided(Host)
  /\ EnterVoting(w, round[Host])
  /\ UNCHANGED <<roomVars, race, layout, track, blocking, decided>>

-----------------------------------------------------------------------------
CanVote(c) == stage[c] = "voting" /\ packet[c].vote = NotVoted

\* CupSelectPlus::OnActivate; battles have pages of their own.
OpenCups(c) ==
  /\ CanVote(c) /\ OnlineMode(c) # "private_battle"
  /\ layout[c] # WantedList(c)
  /\ layout' = [layout EXCEPT ![c] = WantedList(c)]
  /\ UNCHANGED <<roomVars, stage, round, race, packet, heard, track, blocking, decided>>

CastVote(c, vote) ==
  /\ packet' = [packet EXCEPT ![c].vote = vote]
  /\ UNCHANGED <<roomVars, stage, round, race, heard, layout, blocking, decided>>

\* OnCourseButtonClickOverride, UpdateSelectedCourse and SetTrackVote: a
\* course or group of the list, or a variant of a group where one may choose.
ChooseCourse(c) ==
  /\ CanVote(c) /\ OnlineMode(c) # "private_battle" /\ layout[c] = WantedList(c)
  /\ \E slot \in TrackLists[layout[c]] :
       \E vote \in {slot} \cup (IF CanChooseVariant(c) THEN Expand(slot) ELSE {}) :
         /\ CastVote(c, vote)
         /\ \E t \in Expand(vote) : track' = [track EXCEPT ![c] = t]

\* The arena pages are the game's own.
ChooseArena(c) ==
  /\ CanVote(c) /\ OnlineMode(c) = "private_battle"
  /\ \E a \in Arenas : CastVote(c, a)
  /\ UNCHANGED track

\* The countdown ends on any page: the vote is 0xFF.
TimeOut(c) ==
  /\ CanVote(c)
  /\ CastVote(c, Random)
  /\ UNCHANGED track

\* A guest's packet reaches the host.
Hear(g) ==
  /\ stage[Host] = "voting" /\ stage[g] = "voting" /\ round[g] = round[Host]
  /\ packet[g].vote # heard[g]
  /\ heard' = [heard EXCEPT ![g] = packet[g].vote]
  /\ UNCHANGED <<roomVars, stage, round, race, packet, layout, track, blocking, decided>>

-----------------------------------------------------------------------------
\* DecideCC, when the host opens the vote, by the pages as they are by then.
EngineChoices ==
  IF Public THEN {"150"} ELSE IF menu.forceCC = "none" THEN Engines ELSE {menu.forceCC}

OpenVote ==
  /\ stage[Host] = "voting" /\ packet[Host].phase = 0
  /\ \E engine \in EngineChoices :
       packet' = [packet EXCEPT ![Host].phase = 1, ![Host].engine = engine]
  /\ UNCHANGED <<roomVars, stage, round, race, heard, layout, track, blocking, decided>>

\* The votes DecideTrack reads, the host's own from its own packet.
HostView(c) == IF c = Host THEN packet[Host].vote ELSE heard[c]

\* AddTrackToBlocking moves the index and stores nothing.
AddTrackToBlocking(slot) ==
  [blocking EXCEPT !.index = (@ + 1) % BlockCount]

Blocked == {blocking.tracks[i] : i \in DOMAIN blocking.tracks} \ {None}

\* The winner's choice becomes the course, of a group one of its variants.
Win(voter, choice) ==
  \E course \in Expand(choice) :
    /\ packet' = [packet EXCEPT ![Host].course = course, ![Host].voter = voter,
                                ![Host].phase = 2]
    /\ decided' = Append(decided,
         [course |-> course, voter |-> voter, choice |-> choice,
          votes |-> [c \in Consoles |-> packet[c].vote],
          haw |-> rules[Host].haw, mode |-> OnlineMode(Host),
          trackList |-> rules[Host].trackList, laidOut |-> layout[Host]])

\* DecideTrack with "Host always wins": a host vote of 0xFF is compared
\* with a random track, not replaced by one, and goes out as it is.
DecideForHost ==
  /\ rules[Host].haw /\ OnlineMode(Host) = "private_vs"
  /\ IF packet[Host].vote = Random
     THEN /\ packet' = [packet EXCEPT ![Host].course = Random, ![Host].voter = Host]
          /\ UNCHANGED decided
     ELSE Win(Host, packet[Host].vote)
  /\ UNCHANGED blocking

\* DecideTrack in a VS room: one of the votes for a track that was not
\* played lately, if there is one.
\* (wrong variant) the host's setting is not looked at.
DecideVSAlways ==
  /\ OnlineMode(Host) # "private_battle"
  /\ LET fresh == {c \in Available : HostView(c) \notin Blocked}
     IN  \E voter \in IF fresh # {} THEN fresh ELSE Available :
           \E choice \in Choices(HostView(voter)) :
             /\ blocking' = AddTrackToBlocking(choice)
             /\ Win(voter, choice)
DecideVS ==
  /\ OnlineMode(Host) = "public_vs" \/ (OnlineMode(Host) = "private_vs" /\ ~rules[Host].haw)
  /\ LET fresh == {c \in Available : HostView(c) \notin Blocked}
     IN  \E voter \in IF fresh # {} THEN fresh ELSE Available :
           \E choice \in Choices(HostView(voter)) :
             /\ blocking' = AddTrackToBlocking(choice)
             /\ Win(voter, choice)

DecideBattle ==
  /\ OnlineMode(Host) = "private_battle"
  /\ \E voter \in Available : \E choice \in Choices(HostView(voter)) : Win(voter, choice)
  /\ UNCHANGED blocking

\* The host has everyone's vote and no course yet.
\* (wrong variant) it waits for consoles that have left.
DecideWaitsForAll ==
  /\ stage[Host] = "voting" /\ packet[Host].phase # 0 /\ ~HasDecided(Host)
  /\ \A c \in Consoles : HostView(c) # NotVoted
  /\ DecideForHost \/ DecideVS \/ DecideBattle
  /\ UNCHANGED <<roomVars, stage, round, race, heard, layout, track>>
DecideTrack ==
  /\ stage[Host] = "voting" /\ packet[Host].phase # 0 /\ ~HasDecided(Host)
  /\ \A c \in Available : HostView(c) # NotVoted
  /\ DecideForHost \/ DecideVS \/ DecideBattle
  /\ UNCHANGED <<roomVars, stage, round, race, heard, layout, track>>

\* A guest takes from the host's packet always the engine class, the phase once
\* the vote is open (CheckCorrectEngineClass), the course once it is decided.
\* (wrong variant) the engine class is taken only before the vote is open.
TakenOnce(mine, host) ==
  [mine EXCEPT !.engine = IF mine.phase = 0 THEN host.engine ELSE @, !.phase = 2,
               !.course = host.course, !.voter = host.voter]
Taken(mine, host) ==
  [mine EXCEPT !.engine = host.engine,
               !.phase = IF host.phase # 0 THEN host.phase ELSE @,
               !.course = host.course, !.voter = host.voter]

Follow(g) ==
  /\ stage[g] = "voting" /\ round[g] = round[Host] /\ ~HasDecided(g)
  /\ stage[Host] = "voting"
  /\ packet' = [packet EXCEPT ![g] = Taken(@, packet[Host])]
  /\ packet' # packet
  /\ UNCHANGED <<roomVars, stage, round, race, heard, layout, track, blocking, decided>>

-----------------------------------------------------------------------------
\* The vote page has shown the winner: LoadCorrectTrack, then the race.  The
\* host goes on when every console has the decision.
\* (wrong variant) the course stays the one last pointed at.
StartRaceAsPointed(c) ==
  /\ stage[c] = "voting" /\ HasDecided(c)
  /\ c = Host => \A d \in Available : HasDecided(d)
  /\ stage' = [stage EXCEPT ![c] = "racing"]
  /\ UNCHANGED track
  /\ UNCHANGED <<roomVars, round, race, packet, heard, layout, blocking, decided>>
StartRace(c) ==
  /\ stage[c] = "voting" /\ HasDecided(c)
  /\ c = Host => \A d \in Available : HasDecided(d)
  /\ stage' = [stage EXCEPT ![c] = "racing"]
  /\ track' = [track EXCEPT ![c] = packet[c].course]
  /\ UNCHANGED <<roomVars, round, race, packet, heard, layout, blocking, decided>>

\* GetCorrectSlot on a console that waits: the first race header with a
\* track and a running timer.
\* (wrong variant) the headers are not looked at.
WatchOwn(w, c) ==
  /\ stage[w] = "watching" /\ stage[c] = "racing"
  /\ round' = [round EXCEPT ![w] = round[c]]
  /\ round' # round
  /\ UNCHANGED <<roomVars, stage, race, packet, heard, layout, track, blocking, decided>>
Watch(w, c) ==
  /\ stage[w] = "watching" /\ stage[c] = "racing"
  /\ track' = [track EXCEPT ![w] = track[c]]
  /\ round' = [round EXCEPT ![w] = round[c]]
  /\ round' # round
  /\ UNCHANGED <<roomVars, stage, race, packet, heard, layout, blocking, decided>>

\* A race begins on all consoles together, when each has loaded it.
Begun(r) == \A c \in Available : ~(stage[c] = "voting" /\ round[c] = r)

\* PatchRaceCount: after the last race of a friend room back to the lobby.
LastRace(c) == ~Public /\ race[c] + 1 >= rules[c].raceCount

EndSession(c) ==
  /\ stage[c] = "racing" /\ Begun(round[c]) /\ LastRace(c)
  /\ BackToLobby(c)
  /\ stage' = [stage EXCEPT ![c] = "lobby"]
  /\ race' = [race EXCEPT ![c] = 0]
  /\ UNCHANGED <<round, packet, heard, layout, track, blocking, decided>>

NextVote(c) ==
  /\ stage[c] = "racing" /\ Begun(round[c]) /\ ~LastRace(c) /\ round[c] < MaxRounds
  /\ EnterVoting(c, round[c] + 1)
  /\ race' = [race EXCEPT ![c] = @ + 1]
  /\ UNCHANGED <<roomVars, layout, track, blocking, decided>>

\* A guest's connection ends, at any time.
Leave(g) ==
  /\ stage[g] # "out"
  /\ stage' = [stage EXCEPT ![g] = "out"]
  /\ session' = [session EXCEPT ![g] = NoSession]
  /\ mail' = [mail EXCEPT ![g] = NoPacket]
  /\ race' = [race EXCEPT ![g] = 0]
  /\ UNCHANGED <<menu, rules, announced, talk, round, packet, heard, layout, track, blocking, decided>>

\* A guest joins: a friend room while its host is in the lobby, a public room
\* during a race, which it watches.  What was sent before is not for it.
Join(g) ==
  /\ stage[g] = "out"
  /\ stage[Host] = IF Public THEN "racing" ELSE "lobby"
  /\ stage' = [stage EXCEPT ![g] = IF Public THEN "watching" ELSE "lobby"]
  /\ round' = [round EXCEPT ![g] = 0]
  /\ mail' = [mail EXCEPT ![g] = NoPacket]
  /\ UNCHANGED <<menu, rules, session, announced, talk,
                 race, packet, heard, layout, track, blocking, decided>>

VotingNext ==
  \/ EditRules \/ OpenVote \/ DecideTrack
  \/ \E mode \in GameModes : StartRoom(mode)
  \/ \E c \in Consoles : OpenCups(c) \/ ChooseCourse(c) \/ ChooseArena(c) \/ TimeOut(c)
  \/ \E c \in Consoles : StartRace(c) \/ EndSession(c) \/ NextVote(c)
  \/ \E g \in Guests : ReadRoom(g) \/ JoinVote(g) \/ Hear(g) \/ Follow(g) \/ Leave(g) \/ Join(g)
  \/ \E g \in Guests, c \in Consoles : Watch(g, c)

VotingSpec == VotingInit /\ [][VotingNext]_vars

\* Countdowns and races end and packets arrive in the end; nothing is assumed
\* of players who leave, join, choose or edit settings.
FairVoting ==
  /\ VotingSpec
  /\ WF_vars(OpenVote) /\ WF_vars(DecideTrack)
  /\ \A c \in Consoles : WF_vars(TimeOut(c)) /\ WF_vars(StartRace(c)) /\ WF_vars(NextVote(c))
  /\ \A c \in Consoles : WF_vars(EndSession(c))
  /\ \A g \in Guests : WF_vars(ReadRoom(g)) /\ WF_vars(JoinVote(g))
                       /\ WF_vars(Hear(g)) /\ WF_vars(Follow(g))

-----------------------------------------------------------------------------
VotingTypeOK ==
  /\ stage \in [Consoles -> {"lobby", "voting", "racing", "watching", "out"}]
  /\ round \in [Consoles -> 0..MaxRounds]
  /\ race \in [Consoles -> 0..MaxRounds]
  /\ packet \in [Consoles -> PacketType]
  /\ heard \in [Guests -> Votes]
  /\ layout \in [Consoles -> 0..2]
  /\ track \in [Consoles -> Courses \cup Arenas]
  /\ blocking \in [tracks : [0..(BlockCount - 1) -> Votes \cup {None}],
                   index : 0..(BlockCount - 1)]
  /\ decided \in Seq(Decisions) /\ Len(decided) <= MaxRounds

\* Whoever leaves, joins or is late, the consoles that race a round, and those
\* that watch it, have loaded the course decided for that round (DecideTrack,
\* LoadCorrectTrack, GetCorrectSlot).
SameCourse ==
  \A c \in Consoles : stage[c] \in {"racing", "watching"} /\ round[c] # 0 =>
    round[c] \in DOMAIN decided /\ track[c] = decided[round[c]].course

\* They race it in the same engine class (DecideCC, CheckCorrectEngineClass).
SameEngine ==
  \A c, d \in Consoles :
    stage[c] = "racing" /\ stage[d] = "racing" /\ round[c] = round[d] =>
      packet[c].engine = packet[d].engine

\* A decision is what its voter chose in that very round: no vote of the round
\* before, of a console that left or of nobody decides (DecideTrack).
DecidedByAVote ==
  \A r \in DOMAIN decided :
    LET d == decided[r]
    IN  /\ d.votes[d.voter] # NotVoted
        /\ d.votes[d.voter] # Random => d.choice = d.votes[d.voter]
        /\ d.course \in Expand(d.choice)

\* "Only host vote will matter" under "Host Always Wins" (CosmosExtra.txt:1565,
\* 1630), when there is a decision.
HostAlwaysWins ==
  \A r \in DOMAIN decided :
    decided[r].haw /\ decided[r].mode = "private_vs" =>
      decided[r].voter = Host /\ decided[r].choice = decided[r].votes[Host]

\* In a VS round of a friend room whose host has its cups laid out by the
\* room's track list, guests and random draws keep to that list.
OnTheList ==
  \A r \in DOMAIN decided :
    decided[r].mode = "private_vs" /\ decided[r].laidOut = decided[r].trackList =>
      decided[r].course \in UNION {Expand(s) : s \in TrackLists[decided[r].trackList]}

\* Every vote ends in a race, or the console leaves.
EveryVoteEnds == \A c \in Consoles : stage[c] = "voting" ~> stage[c] # "voting"

\* "Only host vote will matter" (CosmosExtra.txt:1630): the host's vote, once
\* cast, decides.
HostVoteDecides ==
  stage[Host] = "voting" /\ rules[Host].haw /\ packet[Host].vote # NotVoted
    ~> HasDecided(Host)

\* The abstract agreement this implements.
Agreement == INSTANCE CourseAgreement WITH
  Candidates <- Courses \cup Arenas,
  decided <- [r \in DOMAIN decided |-> decided[r].course],
  loaded <- [c \in Consoles |-> IF stage[c] = "racing" THEN <<round[c], track[c]>> ELSE <<>>]
ImplementsAgreement == Agreement!Spec
=============================================================================
