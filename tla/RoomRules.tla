------------------------------ MODULE RoomRules ------------------------------
(***************************************************************************)
(* The rules of a friend room.  The host picks them in its settings pages; *)
(* the ROOM message that starts a session carries them, packed into the    *)
(* sixteen bits the game uses for something else, and every console        *)
(* unpacks them into its own System and SettingsHolder.  A console keeps   *)
(* the rules of its last room until the next message.                      *)
(***************************************************************************)
EXTENDS Integers, Sequences

CONSTANTS
  Consoles, Host,
  MenuChoices,   \* what the host may have set in its pages
  Memory,        \* what an earlier room or the memory may have left of the rules
  GameModes,     \* the game's own value of a start message: VS or battle
  MaxMessages    \* bound: ROOM messages the host sends, one per session or others

\* The host's settings pages, with its own Mii heads: TRUE is ENABLED, counts
\* and lists are option indexes.  Two settings of the pages are no rules:
\* OpenHost goes to the matchmaking (MiscSettings.cpp:156) and nothing reads
\* the track blocking.
Menus == [haw : BOOLEAN, miiHeads : BOOLEAN, allowMiiHeads : BOOLEAN, allItems : BOOLEAN,
          megaCloud : BOOLEAN, variants : BOOLEAN, raceCount : 0..7, trackList : 0..2,
          randomCombo : {"disabled", "individual", "common"},
          forceCC : {"none", "150", "200", "mirror"}]

ASSUME RoomAssumption ==
  /\ Host \in Consoles /\ MenuChoices \subseteq Menus
  /\ Memory \subseteq BOOLEAN /\ GameModes \subseteq 0..255
  /\ MaxMessages \in Nat

VARIABLES
  menu,       \* the host's settings pages
  rules,      \* per console: what it plays by
  mail,       \* per console: the ROOM packet on its way to it
  session,    \* per console: the session it is in and its mode
  announced,  \* history: the host's menu and the mode of each session
  talk        \* other messages sent so far

roomVars == <<menu, rules, mail, session, announced, talk>>

Guests == Consoles \ {Host}

U16 == {n \in Nat : n < 65536}

\* messageType, message, unknown_0x3; `of` is the session it was sent for.
NoPacket == [type |-> "none", message |-> 0, saved |-> 0, of |-> 0]
Packets == [type : {"none", "start", "chat", "settings"}, message : U16,
            saved : 0..255, of : Nat]
Rules == [haw : BOOLEAN, miiHeads : BOOLEAN, raceCount : Nat, allItems : BOOLEAN,
          megaCloud : BOOLEAN, variants : BOOLEAN, forcedRandom : BOOLEAN, commonRandom : BOOLEAN,
          trackList : 0..3]

NoSession == [number |-> 0, mode |-> 0]
Sessions == [number : Nat, mode : U16]

-----------------------------------------------------------------------------
Bit(b) == IF b THEN 1 ELSE 0
BitSet(value, n) == (value \div 2^n) % 2 = 1

\* BeforeSendingPackets: the eleven bits.
Pack(m) ==
  LET forced == m.randomCombo # "disabled"
  IN  Bit(m.haw) + 2 * Bit(m.miiHeads) + 4 * (m.raceCount % 8)
      + 32 * Bit(m.megaCloud) + 64 * Bit(m.variants)
      + (IF forced THEN 128 + 256 * Bit(m.randomCombo = "common") ELSE 0)
      + 512 * (m.trackList % 4)

\* The table has seven initialisers for eight entries.
raceCounts == [i \in 0..7 |-> <<2, 4, 8, 12, 16, 32, 64, 0>>[i + 1]]

\* What a console that played by r plays by then: a rule the sixteen bits do
\* not have stays.
ParseHostSettings(r, value) ==
  [allItems |-> r.allItems,
   haw |-> BitSet(value, 0), miiHeads |-> BitSet(value, 1),
   raceCount |-> raceCounts[(value \div 4) % 8],
   megaCloud |-> BitSet(value, 5), variants |-> BitSet(value, 6),
   forcedRandom |-> BitSet(value, 7),
   commonRandom |-> BitSet(value, 7) /\ BitSet(value, 8),
   trackList |-> (value \div 512) % 4]

-----------------------------------------------------------------------------
\* "Host always wins" may be that of a room the consoles were in before; four
\* rules and the list are `left` as the constructor found the memory.
Init ==
  /\ menu \in MenuChoices
  /\ \E last, left \in Memory :
       rules = [c \in Consoles |->
                  [haw |-> last, miiHeads |-> TRUE, raceCount |-> 0, megaCloud |-> FALSE,
                   allItems |-> left, variants |-> left,
                   forcedRandom |-> left, commonRandom |-> left,
                   trackList |-> Bit(left)]]
  /\ mail = [c \in Guests |-> NoPacket]
  /\ session = [c \in Consoles |-> NoSession]
  /\ announced = <<>> /\ talk = 0

InLobby(c) == session[c] = NoSession

\* The host changes a setting, in the lobby or in the middle of a session: the
\* players' page of every vote has a button to the settings.
EditMenu ==
  /\ menu' \in MenuChoices \ {menu}
  /\ UNCHANGED <<rules, mail, session, announced, talk>>

\* The types whose packets carry the rules, 1 and 5 (nothing in the code
\* sends a 5, both handlers provide for it).
\* (wrong variant) a start message does not.
CarriesSettingsOnly(type) == type = "settings"
Carries(type) == type \in {"start", "settings"}

\* What BeforeSendingPackets makes of the game's packet.
Packed(type, message, of) ==
  IF Carries(type)
  THEN [type |-> type, message |-> Pack(menu), saved |-> message % 256, of |-> of]
  ELSE [type |-> type, message |-> message, saved |-> 0, of |-> of]

\* BeforeSendingPackets: one packet for every other console, in the slot of
\* the one before; the host applies what it sends.
Send(type, message, of) ==
  /\ mail' = [c \in Guests |-> Packed(type, message, of)]
  /\ rules' = IF Carries(type)
              THEN [rules EXCEPT ![Host] = ParseHostSettings(@, Pack(menu))]
              ELSE rules

\* A registration, a comment, or the settings alone.
Talk(type, message) ==
  /\ InLobby(Host) /\ Len(announced) + talk < MaxMessages
  /\ Send(type, message, 0)
  /\ talk' = talk + 1
  /\ UNCHANGED <<menu, session, announced>>

\* The host starts a session; its game takes the mode from its own message.
Start(mode) ==
  /\ InLobby(Host) /\ Len(announced) + talk < MaxMessages
  /\ Send("start", mode, Len(announced) + 1)
  /\ session' = [session EXCEPT ![Host] = [number |-> Len(announced) + 1, mode |-> mode]]
  /\ announced' = Append(announced, [menu |-> menu, mode |-> mode])
  /\ UNCHANGED <<menu, talk>>

\* BeforeReadingPackets: what the game sees of a packet.
Restored(packet) ==
  IF Carries(packet.type)
  THEN [packet EXCEPT !.message = packet.saved, !.saved = 0,
                      !.type = IF @ = "settings" THEN "none" ELSE @]
  ELSE packet

\* A guest in the lobby reads its packet; a start takes it into the session.
Read(c) ==
  /\ InLobby(c) /\ mail[c] # NoPacket
  /\ LET packet == Restored(mail[c])
     IN  /\ rules' = IF Carries(mail[c].type)
                     THEN [rules EXCEPT ![c] = ParseHostSettings(@, mail[c].message)]
                     ELSE rules
         /\ session' = IF packet.type = "start"
                       THEN [session EXCEPT ![c] = [number |-> packet.of,
                                                    mode |-> packet.message]]
                       ELSE session
  /\ mail' = [mail EXCEPT ![c] = NoPacket]
  /\ UNCHANGED <<menu, announced, talk>>

\* The session is over for c.
BackToLobby(c) ==
  /\ ~InLobby(c)
  /\ session' = [session EXCEPT ![c] = NoSession]
  /\ UNCHANGED <<menu, rules, mail, announced, talk>>

\* A game outside the friend rooms resets a part of the rules.
SetAllInnerSettings(r) ==
  [r EXCEPT !.allItems = FALSE, !.megaCloud = FALSE, !.variants = FALSE, !.trackList = 0]

\* A guest leaves the lobby, plays offline, and joins again.
PlayOffline(c) ==
  /\ InLobby(c)
  /\ rules' = [rules EXCEPT ![c] = SetAllInnerSettings(@)]
  /\ mail' = [mail EXCEPT ![c] = NoPacket]
  /\ UNCHANGED <<menu, session, announced, talk>>

Next ==
  \/ EditMenu
  \/ \E mode \in GameModes : Start(mode)
  \/ \E type \in {"chat", "settings"}, message \in GameModes : Talk(type, message)
  \/ \E c \in Guests : Read(c) \/ PlayOffline(c)
  \/ \E c \in Consoles : BackToLobby(c)

Spec == Init /\ [][Next]_roomVars

-----------------------------------------------------------------------------
TypeOK ==
  /\ menu \in Menus
  /\ rules \in [Consoles -> Rules]
  /\ mail \in [Guests -> Packets]
  /\ session \in [Consoles -> Sessions]
  /\ announced \in Seq([menu : Menus, mode : 0..255])
  /\ talk \in Nat

\* The menu a console's session was announced with.
Shown(c) == announced[session[c].number].menu

\* The menu's texts for the eight options of the race count
\* (CosmosExtra.txt:1573-1580).
RaceCountText == <<2, 4, 8, 12, 16, 24, 32, 64>>

\* In a session every console plays in the mode the host chose and by what the
\* host's pages showed when it began, for as many races as they said if that is
\* up to sixteen; whatever the console did before, and whatever the host has
\* changed since.  Of a longer race count and of the Mii heads only this holds:
\* they are the same for everyone in the session (BeforeSendingPackets and
\* BeforeReadingPackets, MiscNetwork.cpp:111-162; PatchRaceCount,
\* System.cpp:125-132).
RulesAsShown ==
  /\ \A c \in Consoles : ~InLobby(c) =>
       /\ session[c].mode = announced[session[c].number].mode
       /\ LET r == rules[c]  m == Shown(c)
          IN  /\ r.haw = m.haw /\ r.megaCloud = m.megaCloud
              /\ r.variants = m.variants /\ r.trackList = m.trackList
              /\ m.raceCount <= 4 => r.raceCount = RaceCountText[m.raceCount + 1]
              /\ r.forcedRandom = (m.randomCombo # "disabled")
              /\ r.commonRandom = (m.randomCombo = "common")
  /\ \A c, d \in Consoles :
       ~InLobby(c) /\ ~InLobby(d) /\ session[c].number = session[d].number =>
         rules[c].raceCount = rules[d].raceCount /\ rules[c].miiHeads = rules[d].miiHeads

\* What the texts of the host's page say of a session is so: it has as many
\* races as the "Race Count" shown, its Mii heads "will be forced off" unless the
\* page allows them, and "every kind of item can land" or "only some"
\* (CosmosExtra.txt:1573-1580, 1632-1633, 1638-1639).
PageAsShown ==
  \A c \in Consoles : ~InLobby(c) =>
    /\ rules[c].raceCount = RaceCountText[Shown(c).raceCount + 1]
    /\ rules[c].miiHeads = Shown(c).allowMiiHeads
    /\ rules[c].allItems = Shown(c).allItems
=============================================================================
