-------------------------- MODULE RoomRulesProofs --------------------------
(***************************************************************************)
(* Proofs about RoomRules for any consoles, any pages the host may have    *)
(* set, any modes and any bounds.                                          *)
(***************************************************************************)
EXTENDS RoomRules, TLAPS

-----------------------------------------------------------------------------
(* The sixteen bits.                                                        *)

\* A sum of digits of these weights comes apart into the digits.
LEMMA Digits ==
  ASSUME NEW a \in 0..1, NEW b \in 0..1, NEW n \in 0..7, NEW d \in 0..1,
         NEW e \in 0..1, NEW f \in 0..1, NEW g \in 0..1, NEW t \in 0..3,
         NEW v, v = a + 2 * b + 4 * n + 32 * d + 64 * e + 128 * f + 256 * g + 512 * t
  PROVE  /\ v \in U16
         /\ (BitSet(v, 0) <=> (a = 1)) /\ (BitSet(v, 1) <=> (b = 1))
         /\ (v \div 4) % 8 = n
         /\ (BitSet(v, 5) <=> (d = 1)) /\ (BitSet(v, 6) <=> (e = 1))
         /\ (BitSet(v, 7) <=> (f = 1)) /\ (BitSet(v, 8) <=> (g = 1))
         /\ (v \div 512) % 4 = t
<1>1. v \in U16
  BY DEF U16
<1>2. (BitSet(v, 0) <=> (a = 1))
  BY DEF BitSet
<1>3. (BitSet(v, 1) <=> (b = 1))
  BY DEF BitSet
<1>4. (v \div 4) % 8 = n
  OBVIOUS
<1>5. (BitSet(v, 5) <=> (d = 1))
  BY DEF BitSet
<1>6. (BitSet(v, 6) <=> (e = 1))
  BY DEF BitSet
<1>7. (BitSet(v, 7) <=> (f = 1))
  BY DEF BitSet
<1>8. (BitSet(v, 8) <=> (g = 1))
  BY DEF BitSet
<1>9. (v \div 512) % 4 = t
  OBVIOUS
<1> QED
  BY <1>1, <1>2, <1>3, <1>4, <1>5, <1>6, <1>7, <1>8, <1>9

\* The rules the sixteen bits have, of a console that plays by r.
Carried(r) ==
  [haw |-> r.haw, miiHeads |-> r.miiHeads, raceCount |-> r.raceCount,
   megaCloud |-> r.megaCloud, variants |-> r.variants,
   forcedRandom |-> r.forcedRandom, commonRandom |-> r.commonRandom,
   trackList |-> r.trackList]

\* What they are after the message with the pages m.
Announced(m) ==
  [haw |-> m.haw, miiHeads |-> m.miiHeads, raceCount |-> raceCounts[m.raceCount],
   megaCloud |-> m.megaCloud, variants |-> m.variants,
   forcedRandom |-> m.randomCombo # "disabled",
   commonRandom |-> m.randomCombo = "common", trackList |-> m.trackList]

\* The digits of the packed pages are what they were made of.
LEMMA PackedDigits ==
  ASSUME NEW m \in Menus
  PROVE  LET v == Pack(m)
         IN  /\ v \in U16 /\ (v \div 4) % 8 = m.raceCount /\ (v \div 512) % 4 = m.trackList
             /\ BitSet(v, 0) = m.haw /\ BitSet(v, 1) = m.miiHeads
             /\ BitSet(v, 5) = m.megaCloud /\ BitSet(v, 6) = m.variants
             /\ BitSet(v, 7) = (m.randomCombo # "disabled")
             /\ (BitSet(v, 7) /\ BitSet(v, 8)) = (m.randomCombo = "common")
<1> DEFINE a == Bit(m.haw)
           b == Bit(m.miiHeads)
           d == Bit(m.megaCloud)
           e == Bit(m.variants)
           f == Bit(m.randomCombo # "disabled")
           g == Bit(m.randomCombo = "common")
           n == m.raceCount
           t == m.trackList
           v == Pack(m)
<1>1. a \in 0..1 /\ b \in 0..1 /\ d \in 0..1 /\ e \in 0..1 /\ f \in 0..1 /\ g \in 0..1
  BY DEF Bit
<1>2. n \in 0..7 /\ t \in 0..3 /\ n % 8 = n /\ t % 4 = t
  BY DEF Menus
<1>3. v = a + 2 * b + 4 * n + 32 * d + 64 * e + 128 * f + 256 * g + 512 * t
  BY <1>1, <1>2 DEF Pack, Bit
<1>4. /\ m.haw \in BOOLEAN /\ ((a = 1) <=> m.haw)
      /\ m.miiHeads \in BOOLEAN /\ ((b = 1) <=> m.miiHeads)
      /\ m.megaCloud \in BOOLEAN /\ ((d = 1) <=> m.megaCloud)
      /\ m.variants \in BOOLEAN /\ ((e = 1) <=> m.variants)
      /\ ((f = 1) <=> (m.randomCombo # "disabled"))
      /\ ((g = 1) <=> (m.randomCombo = "common"))
  BY DEF Bit, Menus
<1> HIDE DEF a, b, d, e, f, g, n, t, v
<1>5. /\ v \in U16
      /\ (BitSet(v, 0) <=> (a = 1)) /\ (BitSet(v, 1) <=> (b = 1))
      /\ (v \div 4) % 8 = n
      /\ (BitSet(v, 5) <=> (d = 1)) /\ (BitSet(v, 6) <=> (e = 1))
      /\ (BitSet(v, 7) <=> (f = 1)) /\ (BitSet(v, 8) <=> (g = 1))
      /\ (v \div 512) % 4 = t
  BY <1>1, <1>2, <1>3, Digits
<1>6. /\ BitSet(v, 0) = m.haw /\ BitSet(v, 1) = m.miiHeads
      /\ BitSet(v, 5) = m.megaCloud /\ BitSet(v, 6) = m.variants
      /\ BitSet(v, 7) = (m.randomCombo # "disabled")
      /\ (BitSet(v, 7) /\ BitSet(v, 8)) = (m.randomCombo = "common")
  BY <1>4, <1>5 DEF BitSet
<1> QED
  BY <1>5, <1>6 DEF n, t, v

\* Whatever the host's pages say, the sixteen bits of the packet give every
\* reader the settings they were packed from, each for itself: the count of the
\* table, and the host's own Mii heads, which are not what it allows
\* (BeforeSendingPackets, ParseHostSettings).
THEOREM PackedRulesComeBack ==
  ASSUME NEW m \in Menus, NEW r \in Rules
  PROVE  /\ Pack(m) \in U16
         /\ Carried(ParseHostSettings(r, Pack(m))) = Announced(m)
         /\ ParseHostSettings(r, Pack(m)) \in Rules
<1> DEFINE v == Pack(m)
           p == ParseHostSettings(r, v)
<1>1. /\ v \in U16 /\ (v \div 4) % 8 = m.raceCount /\ (v \div 512) % 4 = m.trackList
      /\ BitSet(v, 0) = m.haw /\ BitSet(v, 1) = m.miiHeads
      /\ BitSet(v, 5) = m.megaCloud /\ BitSet(v, 6) = m.variants
      /\ BitSet(v, 7) = (m.randomCombo # "disabled")
      /\ (BitSet(v, 7) /\ BitSet(v, 8)) = (m.randomCombo = "common")
  BY PackedDigits
<1> HIDE DEF v
<1>2. p = [allItems |-> r.allItems, haw |-> m.haw, miiHeads |-> m.miiHeads,
           raceCount |-> raceCounts[m.raceCount],
           megaCloud |-> m.megaCloud, variants |-> m.variants,
           forcedRandom |-> m.randomCombo # "disabled",
           commonRandom |-> m.randomCombo = "common", trackList |-> m.trackList]
  BY <1>1, Zenon DEF ParseHostSettings
<1>3. raceCounts[m.raceCount] \in Nat
  BY DEF Menus, raceCounts
<1>4. p \in Rules
  BY <1>2, <1>3 DEF Menus, Rules
<1>5. Carried(p) = Announced(m)
  <2> HIDE DEF p
  <2> QED
    BY <1>2 DEF Carried, Announced
<1> QED
  BY <1>1, <1>4, <1>5 DEF v

-----------------------------------------------------------------------------
(* Type correctness.  A packet that carries rules holds the pages of some   *)
(* menu, which is what its reader gets back.                                *)

\* A packet on its way: what it carries are the pages of some menu, those of
\* its session if it is a start.
FromHost(p) ==
  /\ Carries(p.type) => \E m \in Menus : p.message = Pack(m)
  /\ p.type = "start" => /\ p.of \in 1..Len(announced)
                         /\ p.message = Pack(announced[p.of].menu)
                         /\ p.saved = announced[p.of].mode

PacketsCarryRules == \A c \in Guests : FromHost(mail[c])

TypeInv == TypeOK /\ PacketsCarryRules

\* An empty slot holds a packet that carries nothing.
LEMMA NoPacketType == NoPacket \in Packets /\ FromHost(NoPacket)
BY DEF Packets, NoPacket, FromHost, Carries, U16

\* The lobby is no session.
LEMMA NoSessionType == NoSession \in Sessions
BY DEF NoSession, Sessions, U16

\* A mode fits the byte it is saved in.
LEMMA Modes == \A mode \in GameModes : mode \in 0..255 /\ mode % 256 = mode /\ mode \in U16
<1>1. GameModes \subseteq 0..255
  BY RoomAssumption
<1> QED
  BY <1>1 DEF U16

\* PlayOffline leaves rules of the right type.
LEMMA ResetType ==
  ASSUME NEW r \in Rules
  PROVE  SetAllInnerSettings(r) \in Rules
<1> DEFINE r0 == [r EXCEPT !.allItems = FALSE]
           r1 == [r0 EXCEPT !.megaCloud = FALSE]
           r2 == [r1 EXCEPT !.variants = FALSE]
<1>0. r0 \in Rules
  BY DEF Rules
<1> HIDE DEF r0
<1>1. r1 \in Rules
  BY <1>0 DEF Rules
<1> HIDE DEF r1
<1>2. r2 \in Rules
  BY <1>1 DEF Rules
<1> HIDE DEF r2
<1>3. [r2 EXCEPT !.trackList = 0] \in Rules
  BY <1>2 DEF Rules
<1> QED
  BY <1>3 DEF r0, r1, r2, SetAllInnerSettings

\* A packet that carries rules and is no bare settings packet starts a session
\* with what it saved; any other is seen as it is.
LEMMA RestoredPacket ==
  ASSUME NEW p \in Packets
  PROVE  /\ Restored(p).of \in Nat /\ Restored(p).message \in U16
         /\ Restored(p).type = "start" <=> p.type = "start"
         /\ p.type = "start" => Restored(p).of = p.of /\ Restored(p).message = p.saved
BY DEF Restored, Packets, Carries, U16

\* Slots that are emptied leave the others as they are.
LEMMA SlotsEmptied ==
  ASSUME PacketsCarryRules, UNCHANGED announced,
         \A c \in Guests : mail'[c] = mail[c] \/ mail'[c] = NoPacket
  PROVE  PacketsCarryRules'
BY NoPacketType DEF PacketsCarryRules, FromHost

\* A console that has just been started.
LEMMA TypeInit == Init => TypeInv
<1> SUFFICES ASSUME Init PROVE TypeInv
  OBVIOUS
<1>1. rules \in [Consoles -> Rules]
  BY RoomAssumption DEF Init, Rules, Bit
<1>2. mail \in [Guests -> Packets] /\ PacketsCarryRules
  BY NoPacketType DEF Init, PacketsCarryRules
<1>3. session \in [Consoles -> Sessions]
  BY NoSessionType DEF Init
<1>4. menu \in Menus /\ talk \in Nat
  BY RoomAssumption DEF Init
<1>5. announced \in Seq([menu : Menus, mode : 0..255])
  BY DEF Init
<1> QED
  BY <1>1, <1>2, <1>3, <1>4, <1>5 DEF TypeInv, TypeOK

\* What Send puts into the slots: the rules of the host's pages, or none.
LEMMA SendType ==
  ASSUME TypeInv, NEW type \in {"start", "chat", "settings"}, NEW message \in GameModes,
         NEW of \in Nat, Send(type, message, of)
  PROVE  /\ rules' \in [Consoles -> Rules] /\ mail' \in [Guests -> Packets]
         /\ \A c \in Guests : /\ mail'[c].type = type /\ mail'[c].of = of
                              /\ Carries(type) => /\ mail'[c].message = Pack(menu)
                                                  /\ mail'[c].saved = message
         /\ \A c \in Guests : rules'[c] = rules[c]
         /\ Carries(type) => Carried(rules'[Host]) = Announced(menu)
<1> DEFINE p == Packed(type, message, of)
           r == ParseHostSettings(rules[Host], Pack(menu))
<1>1. menu \in Menus /\ rules \in [Consoles -> Rules] /\ Host \in Consoles
  BY RoomAssumption DEF TypeInv, TypeOK
<1>2. Pack(menu) \in U16 /\ Carried(r) = Announced(menu) /\ r \in Rules
  BY <1>1, PackedRulesComeBack
<1>4. message \in 0..255 /\ message % 256 = message /\ message \in U16
  BY Modes
<1>5. p \in Packets
  BY <1>2, <1>4 DEF Packed, Packets
<1>6. /\ p.type = type /\ p.of = of
      /\ Carries(type) => p.message = Pack(menu) /\ p.saved = message
  BY <1>4 DEF Packed
<1>7. mail' = [c \in Guests |-> p]
  BY DEF Send
<1>8. rules' = IF Carries(type) THEN [rules EXCEPT ![Host] = r] ELSE rules
  BY DEF Send
<1> HIDE DEF p, r
<1>9. rules' \in [Consoles -> Rules] /\ mail' \in [Guests -> Packets]
  BY <1>1, <1>2, <1>5, <1>7, <1>8
<1>10. \A c \in Guests : mail'[c] = p /\ rules'[c] = rules[c]
  BY <1>1, <1>7, <1>8 DEF Guests
<1> QED
  BY <1>1, <1>2, <1>6, <1>8, <1>9, <1>10

\* One step keeps the types and what the packets carry.
LEMMA TypeStep == TypeInv /\ [Next]_roomVars => TypeInv'
<1> SUFFICES ASSUME TypeInv, [Next]_roomVars PROVE TypeInv'
  OBVIOUS
<1>0. /\ menu \in Menus /\ rules \in [Consoles -> Rules] /\ mail \in [Guests -> Packets]
      /\ session \in [Consoles -> Sessions] /\ talk \in Nat
      /\ announced \in Seq([menu : Menus, mode : 0..255])
      /\ PacketsCarryRules
  BY DEF TypeInv, TypeOK
<1>1. CASE EditMenu
  <2>1. menu' \in Menus
    BY <1>1, RoomAssumption DEF EditMenu
  <2> QED
    BY <1>0, <1>1, <2>1 DEF EditMenu, TypeInv, TypeOK, PacketsCarryRules, FromHost
<1>2. ASSUME NEW mode \in GameModes, Start(mode) PROVE TypeInv'
  <2> DEFINE n == Len(announced) + 1
             entry == [menu |-> menu, mode |-> mode]
  <2>1. n \in Nat /\ mode \in 0..255 /\ mode \in U16 /\ Host \in Consoles
    BY <1>0, Modes, RoomAssumption
  <2>2. /\ rules' \in [Consoles -> Rules] /\ mail' \in [Guests -> Packets]
        /\ \A c \in Guests : /\ mail'[c].message = Pack(menu)
                             /\ mail'[c].of = n /\ mail'[c].saved = mode
    <3>1. Send("start", mode, n)
      BY <1>2 DEF Start
    <3>2. Carries("start") /\ "start" \in {"start", "chat", "settings"} /\ n \in Nat
      BY <2>1 DEF Carries
    <3> QED
      BY <3>1, <3>2, SendType
  <2>3. entry \in [menu : Menus, mode : 0..255] /\ entry.menu = menu /\ entry.mode = mode
    BY <1>0, <2>1
  <2>4. announced' = Append(announced, entry) /\ menu' = menu /\ talk' = talk
    BY <1>2 DEF Start
  <2>5. session' = [session EXCEPT ![Host] = [number |-> n, mode |-> mode]]
    BY <1>2 DEF Start
  <2> HIDE DEF entry
  <2>6. /\ announced' \in Seq([menu : Menus, mode : 0..255])
        /\ Len(announced') = n /\ announced'[n] = entry
    BY <1>0, <2>3, <2>4
  <2>7. session' \in [Consoles -> Sessions]
    BY <1>0, <2>1, <2>5 DEF Sessions
  <2>8. ASSUME NEW c \in Guests PROVE FromHost(mail[c])'
    BY <1>0, <2>1, <2>2, <2>3, <2>6 DEF FromHost
  <2> QED
    BY <1>0, <2>2, <2>4, <2>6, <2>7, <2>8 DEF TypeInv, TypeOK, PacketsCarryRules
<1>3. ASSUME NEW type \in {"chat", "settings"}, NEW message \in GameModes, Talk(type, message)
      PROVE  TypeInv'
  <2>1. Send(type, message, 0) /\ 0 \in Nat
    BY <1>3 DEF Talk
  <2>2. /\ rules' \in [Consoles -> Rules] /\ mail' \in [Guests -> Packets]
        /\ \A c \in Guests : /\ mail'[c].type = type
                             /\ Carries(type) => mail'[c].message = Pack(menu)
    BY <2>1, SendType
  <2>3. ASSUME NEW c \in Guests PROVE FromHost(mail[c])'
    BY <1>0, <1>3, <2>2 DEF FromHost
  <2>4. talk' \in Nat
    BY <1>0, <1>3, RoomAssumption DEF Talk
  <2> QED
    BY <1>0, <1>3, <2>2, <2>3, <2>4 DEF Talk, TypeInv, TypeOK, PacketsCarryRules
<1>4. ASSUME NEW c \in Guests, Read(c) PROVE TypeInv'
  <2>1. mail[c] \in Packets /\ FromHost(mail[c]) /\ c \in Consoles
    BY <1>0 DEF Guests, PacketsCarryRules
  <2>2. Carries(mail[c].type) => ParseHostSettings(rules[c], mail[c].message) \in Rules
    BY <1>0, <2>1, PackedRulesComeBack DEF FromHost
  <2>3. rules' \in [Consoles -> Rules]
    BY <1>0, <1>4, <2>1, <2>2 DEF Read
  <2>4. Restored(mail[c]).of \in Nat /\ Restored(mail[c]).message \in U16
    BY <2>1, RestoredPacket
  <2>5. session' \in [Consoles -> Sessions]
    BY <1>0, <1>4, <2>1, <2>4 DEF Read, Sessions
  <2>6. mail' \in [Guests -> Packets] /\ PacketsCarryRules'
    <3>1. mail' = [mail EXCEPT ![c] = NoPacket] /\ UNCHANGED announced
      BY <1>4 DEF Read
    <3>2. \A d \in Guests : mail'[d] = mail[d] \/ mail'[d] = NoPacket
      BY <1>0, <3>1
    <3> QED
      BY <1>0, <3>1, <3>2, NoPacketType, SlotsEmptied
  <2> QED
    BY <1>0, <1>4, <2>3, <2>5, <2>6 DEF Read, TypeInv, TypeOK
<1>5. ASSUME NEW c \in Guests, PlayOffline(c) PROVE TypeInv'
  <2>1. rules[c] \in Rules /\ c \in Consoles
    BY <1>0 DEF Guests
  <2>2. rules' \in [Consoles -> Rules]
    BY <1>0, <1>5, <2>1, ResetType DEF PlayOffline
  <2>3. mail' \in [Guests -> Packets] /\ PacketsCarryRules'
    <3>1. mail' = [mail EXCEPT ![c] = NoPacket] /\ UNCHANGED announced
      BY <1>5 DEF PlayOffline
    <3>2. \A d \in Guests : mail'[d] = mail[d] \/ mail'[d] = NoPacket
      BY <1>0, <3>1
    <3> QED
      BY <1>0, <3>1, <3>2, NoPacketType, SlotsEmptied
  <2> QED
    BY <1>0, <1>5, <2>2, <2>3 DEF PlayOffline, TypeInv, TypeOK
<1>6. ASSUME NEW c \in Consoles, BackToLobby(c) PROVE TypeInv'
  <2>1. session' \in [Consoles -> Sessions]
    BY <1>0, <1>6, NoSessionType DEF BackToLobby
  <2> QED
    BY <1>0, <1>6, <2>1 DEF BackToLobby, TypeInv, TypeOK, PacketsCarryRules, FromHost
<1>7. CASE UNCHANGED roomVars
  BY <1>0, <1>7 DEF roomVars, TypeInv, TypeOK, PacketsCarryRules, FromHost
<1> QED
  BY <1>1, <1>2, <1>3, <1>4, <1>5, <1>6, <1>7 DEF Next

\* Every variable keeps its type, and every packet that is on its way carries
\* what the host's pages showed when it was sent.
THEOREM TypeCorrect == Spec => []TypeInv
BY TypeInit, TypeStep, PTL DEF Spec

-----------------------------------------------------------------------------
(* In a session.                                                            *)

\* What c's session is: one the host has started, in its mode, and played by
\* all the rules its message carried.
Plays(c) ==
  /\ session[c].number \in 1..Len(announced)
  /\ session[c].mode = announced[session[c].number].mode
  /\ Carried(rules[c]) = Announced(Shown(c))

SessionInv == \A c \in Consoles : ~InLobby(c) => Plays(c)

\* The host is in the last of its sessions.
HostInv == ~InLobby(Host) => session[Host].number = Len(announced)

RoomInv == TypeInv /\ SessionInv /\ HostInv

\* The sessions so far are still those they were.
Kept == \A i \in 1..Len(announced) :
          i \in 1..Len(announced') /\ announced'[i] = announced[i]

Entries == [menu : Menus, mode : 0..255]

\* What was announced for a session.
LEMMA EntryType ==
  announced \in Seq(Entries) => \A i \in 1..Len(announced) : announced[i] \in Entries
OBVIOUS

\* The history of sessions only grows.
LEMMA HistoryKept ==
  ASSUME announced \in Seq(Entries),
         UNCHANGED announced \/ \E entry \in Entries : announced' = Append(announced, entry)
  PROVE  Kept
BY DEF Kept

\* Nothing but its own session, its rules and the history decides what a
\* console plays.
LEMMA PlaysOn ==
  ASSUME NEW c \in Consoles, Kept, Plays(c), session'[c] = session[c], rules'[c] = rules[c]
  PROVE  Plays(c)'
<1>1. session[c].number \in 1..Len(announced)
  BY DEF Plays
<1>2. announced'[session[c].number] = announced[session[c].number]
  BY <1>1 DEF Kept
<1>3. session[c].number \in 1..Len(announced')
  BY <1>1 DEF Kept
<1> QED
  BY <1>2, <1>3 DEF Plays, Shown

\* Nobody is in a session yet.
LEMMA RoomInvInit == Init => RoomInv
<1> SUFFICES ASSUME Init PROVE RoomInv
  OBVIOUS
<1>1. session = [c \in Consoles |-> NoSession]
  BY DEF Init
<1>2. \A c \in Consoles : InLobby(c)
  BY <1>1 DEF InLobby
<1> QED
  BY <1>2, TypeInit, RoomAssumption DEF RoomInv, SessionInv, HostInv

\* A step that moves nobody into a session, and changes no rules in one.
LEMMA RoomStays ==
  ASSUME RoomInv, TypeInv', UNCHANGED announced,
         \A c \in Consoles : ~InLobby(c)' => session'[c] = session[c] /\ rules'[c] = rules[c]
  PROVE  RoomInv'
<1>1. announced \in Seq(Entries) /\ Host \in Consoles
  BY RoomAssumption DEF RoomInv, TypeInv, TypeOK, Entries
<1>2. ASSUME NEW c \in Consoles, ~InLobby(c)' PROVE Plays(c)'
  <2>1. session'[c] = session[c] /\ rules'[c] = rules[c]
    BY <1>2
  <2>2. Plays(c)
    BY <1>2, <2>1 DEF RoomInv, SessionInv, InLobby
  <2>3. Kept
    BY <1>1, HistoryKept
  <2> QED
    BY <2>1, <2>2, <2>3, PlaysOn
<1>3. HostInv'
  BY <1>1 DEF RoomInv, HostInv, InLobby
<1> QED
  BY <1>2, <1>3 DEF RoomInv, SessionInv

\* Each step keeps the invariant; Start and Read take a console into a session.
LEMMA RoomInvStep == RoomInv /\ [Next]_roomVars => RoomInv'
<1> SUFFICES ASSUME RoomInv, [Next]_roomVars PROVE RoomInv'
  OBVIOUS
<1>0. /\ TypeInv' /\ menu \in Menus /\ rules \in [Consoles -> Rules]
      /\ session \in [Consoles -> Sessions] /\ mail \in [Guests -> Packets]
      /\ announced \in Seq(Entries)
      /\ PacketsCarryRules /\ Host \in Consoles
  BY TypeStep, RoomAssumption DEF RoomInv, TypeInv, TypeOK, Entries
<1>1. CASE EditMenu
  BY <1>0, <1>1, RoomStays DEF EditMenu
<1>2. ASSUME NEW mode \in GameModes, Start(mode) PROVE RoomInv'
  <2> DEFINE n == Len(announced) + 1
             entry == [menu |-> menu, mode |-> mode]
             s == [number |-> n, mode |-> mode]
  <2>1. /\ Send("start", mode, n) /\ Carries("start") /\ n \in Nat
        /\ "start" \in {"start", "chat", "settings"}
    BY <1>0, <1>2 DEF Start, Carries
  <2>2. /\ announced' = Append(announced, entry)
        /\ session' = [session EXCEPT ![Host] = s]
    BY <1>2 DEF Start
  <2>3. entry \in Entries
    BY <1>0, Modes DEF Entries
  <2>4. entry.menu = menu /\ entry.mode = mode /\ s.number = n /\ s.mode = mode
    OBVIOUS
  <2>5. Carried(rules'[Host]) = Announced(menu) /\ \A c \in Guests : rules'[c] = rules[c]
    BY <2>1, SendType DEF RoomInv
  <2> HIDE DEF entry, s
  <2>6. /\ announced'[n] = entry /\ Len(announced') = n
        /\ session'[Host] = s /\ \A c \in Guests : session'[c] = session[c]
    BY <1>0, <2>2, <2>3 DEF Guests
  <2>7. Plays(Host)'
    BY <1>0, <2>1, <2>4, <2>5, <2>6 DEF Plays, Shown
  <2>8. Kept
    BY <1>0, <2>2, <2>3, HistoryKept
  <2>9. ASSUME NEW c \in Guests, ~InLobby(c)' PROVE Plays(c)'
    <3>1. c \in Consoles /\ Plays(c)
      BY <2>6, <2>9 DEF RoomInv, SessionInv, InLobby, Guests
    <3> QED
      BY <2>5, <2>6, <2>8, <3>1, PlaysOn
  <2>10. HostInv'
    BY <2>4, <2>6 DEF HostInv
  <2> QED
    BY <1>0, <2>7, <2>9, <2>10 DEF RoomInv, SessionInv, Guests
<1>3. ASSUME NEW type \in {"chat", "settings"}, NEW message \in GameModes, Talk(type, message)
      PROVE  RoomInv'
  <2>1. Send(type, message, 0) /\ 0 \in Nat /\ InLobby(Host)
    BY <1>3 DEF Talk
  <2>2. \A c \in Guests : rules'[c] = rules[c]
    BY <2>1, SendType DEF RoomInv
  <2>3. UNCHANGED <<session, announced>>
    BY <1>3 DEF Talk
  <2> QED
    BY <1>0, <2>1, <2>2, <2>3, RoomStays DEF InLobby, Guests
<1>4. ASSUME NEW c \in Guests, Read(c) PROVE RoomInv'
  <2> DEFINE p == mail[c]
             s == [number |-> p.of, mode |-> p.saved]
  <2>1. p \in Packets /\ FromHost(p) /\ c \in Consoles /\ c # Host /\ InLobby(c)
    BY <1>0, <1>4 DEF Guests, PacketsCarryRules, Read
  <2>2. UNCHANGED announced
    BY <1>4 DEF Read
  <2>3. \A d \in Consoles \ {c} : session'[d] = session[d] /\ rules'[d] = rules[d]
    BY <1>0, <1>4 DEF Read
  <2>4. CASE p.type # "start"
    <3>1. session' = session
      BY <1>4, <2>1, <2>4, RestoredPacket DEF Read
    <3> QED
      BY <1>0, <2>1, <2>2, <2>3, <3>1, RoomStays DEF InLobby
  <2>5. CASE p.type = "start"
    <3>1. /\ p.of \in 1..Len(announced) /\ p.message = Pack(announced[p.of].menu)
          /\ p.saved = announced[p.of].mode /\ Carries(p.type)
      BY <2>1, <2>5 DEF FromHost, Carries
    <3>2. session'[c] = s
      BY <1>0, <1>4, <2>1, <2>5, RestoredPacket DEF Read
    <3>3. rules'[c] = ParseHostSettings(rules[c], p.message)
      BY <1>0, <1>4, <2>1, <3>1 DEF Read
    <3>4. announced[p.of].menu \in Menus
      <4>1. announced[p.of] \in Entries
        BY <1>0, <3>1, EntryType
      <4> QED
        BY <4>1 DEF Entries
    <3>5. Carried(rules'[c]) = Announced(announced[p.of].menu)
      BY <1>0, <2>1, <3>1, <3>3, <3>4, PackedRulesComeBack
    <3>6. s.number = p.of /\ s.mode = p.saved
      OBVIOUS
    <3> HIDE DEF s, p
    <3>7. Plays(c)'
      BY <2>2, <3>1, <3>2, <3>5, <3>6 DEF Plays, Shown
    <3>8. ASSUME NEW d \in Consoles \ {c}, ~InLobby(d)' PROVE Plays(d)'
      <4>1. session'[d] = session[d] /\ rules'[d] = rules[d] /\ d \in Consoles
        BY <2>3
      <4>2. Plays(d)
        BY <3>8, <4>1 DEF RoomInv, SessionInv, InLobby
      <4>3. Kept
        BY <1>0, <2>2, HistoryKept
      <4> QED
        BY <4>1, <4>2, <4>3, PlaysOn
    <3>9. HostInv'
      BY <1>0, <2>1, <2>2, <2>3 DEF RoomInv, HostInv, InLobby
    <3> QED
      BY <1>0, <3>7, <3>8, <3>9 DEF RoomInv, SessionInv
  <2> QED
    BY <2>4, <2>5
<1>5. ASSUME NEW c \in Guests, PlayOffline(c) PROVE RoomInv'
  <2>1. InLobby(c) /\ UNCHANGED <<session, announced>> /\ c \in Consoles
    BY <1>5 DEF PlayOffline, Guests
  <2>2. \A d \in Consoles \ {c} : rules'[d] = rules[d]
    BY <1>0, <1>5 DEF PlayOffline
  <2> QED
    BY <1>0, <2>1, <2>2, RoomStays DEF InLobby
<1>6. ASSUME NEW c \in Consoles, BackToLobby(c) PROVE RoomInv'
  <2>1. UNCHANGED <<rules, announced>> /\ session' = [session EXCEPT ![c] = NoSession]
    BY <1>6 DEF BackToLobby
  <2>2. \A d \in Consoles : session'[d] = session[d] \/ session'[d] = NoSession
    BY <1>0, <2>1
  <2> QED
    BY <1>0, <2>1, <2>2, RoomStays DEF InLobby
<1>7. CASE UNCHANGED roomVars
  BY <1>0, <1>7, RoomStays DEF roomVars
<1> QED
  BY <1>1, <1>2, <1>3, <1>4, <1>5, <1>6, <1>7 DEF Next

\* No step of the room takes back a session that was announced.
LEMMA NextKeepsHistory == RoomInv /\ [Next]_roomVars => Kept
<1> SUFFICES ASSUME RoomInv, [Next]_roomVars PROVE Kept
  OBVIOUS
<1>1. menu \in Menus /\ announced \in Seq(Entries)
  BY DEF RoomInv, TypeInv, TypeOK, Entries
<1>2. ASSUME NEW mode \in GameModes, Start(mode) PROVE Kept
  <2> DEFINE entry == [menu |-> menu, mode |-> mode]
  <2>1. entry \in Entries /\ announced' = Append(announced, entry)
    BY <1>1, <1>2, Modes DEF Start, Entries
  <2> HIDE DEF entry
  <2> QED
    BY <1>1, <2>1, HistoryKept
<1>3. UNCHANGED announced => Kept
  BY <1>1, HistoryKept
<1> QED
  BY <1>2, <1>3 DEF Next, EditMenu, Talk, Read, PlayOffline, BackToLobby, roomVars

\* The rules of a console that stays in its session stay.
LEMMA RulesStay ==
  ASSUME RoomInv, [Next]_roomVars, NEW c \in Consoles, session'[c] = session[c], ~InLobby(c)
  PROVE  rules'[c] = rules[c]
<1>1. rules \in [Consoles -> Rules]
  BY DEF RoomInv, TypeInv, TypeOK
<1>2. ASSUME NEW type, NEW message, NEW of, Send(type, message, of), c # Host
      PROVE  rules'[c] = rules[c]
  BY <1>1, <1>2 DEF Send
<1>3. ASSUME NEW mode, Start(mode) PROVE rules'[c] = rules[c]
  BY <1>2, <1>3 DEF Start, InLobby
<1>4. ASSUME NEW type, NEW message, Talk(type, message) PROVE rules'[c] = rules[c]
  BY <1>2, <1>4 DEF Talk, InLobby
<1>5. ASSUME NEW d \in Guests, Read(d) \/ PlayOffline(d) PROVE rules'[c] = rules[c]
  BY <1>1, <1>5 DEF Read, PlayOffline, InLobby
<1> QED
  BY <1>3, <1>4, <1>5 DEF Next, EditMenu, BackToLobby, roomVars

\* A session the host enters is one that nobody is in yet.
LEMMA HostStarts ==
  ASSUME RoomInv, [Next]_roomVars, session'[Host] # session[Host], session'[Host] # NoSession,
         NEW c \in Consoles, ~InLobby(c)
  PROVE  session'[Host] # session[c]
<1>1. session[c].number \in 1..Len(announced)
  BY DEF RoomInv, SessionInv, Plays
<1>2. /\ session \in [Consoles -> Sessions] /\ announced \in Seq(Entries) /\ Host \in Consoles
  BY RoomAssumption DEF RoomInv, TypeInv, TypeOK, Entries
<1>3. PICK mode \in GameModes : Start(mode)
  BY <1>2 DEF Next, EditMenu, Talk, Read, PlayOffline, BackToLobby, roomVars, Guests
<1>4. session'[Host].number = Len(announced) + 1
  BY <1>2, <1>3 DEF Start
<1> QED
  BY <1>1, <1>2, <1>4

\* The fields of what a console plays by.
LEMMA CarriedFields ==
  ASSUME NEW r, NEW m, Carried(r) = Announced(m)
  PROVE  /\ r.haw = m.haw /\ r.megaCloud = m.megaCloud
         /\ r.variants = m.variants /\ r.trackList = m.trackList
         /\ r.raceCount = raceCounts[m.raceCount] /\ r.miiHeads = m.miiHeads
         /\ r.forcedRandom = (m.randomCombo # "disabled")
         /\ r.commonRandom = (m.randomCombo = "common")
<1> DEFINE q == Carried(r)
           a == Announced(m)
<1>1. /\ q.haw = r.haw /\ q.megaCloud = r.megaCloud
      /\ q.variants = r.variants /\ q.trackList = r.trackList
      /\ q.raceCount = r.raceCount /\ q.miiHeads = r.miiHeads
      /\ q.forcedRandom = r.forcedRandom /\ q.commonRandom = r.commonRandom
  BY DEF Carried
<1>2. /\ a.haw = m.haw /\ a.megaCloud = m.megaCloud
      /\ a.variants = m.variants /\ a.trackList = m.trackList
      /\ a.raceCount = raceCounts[m.raceCount] /\ a.miiHeads = m.miiHeads
      /\ a.forcedRandom = (m.randomCombo # "disabled")
      /\ a.commonRandom = (m.randomCombo = "common")
  BY DEF Announced
<1>3. q = a
  OBVIOUS
<1> HIDE DEF q, a
<1> QED
  BY <1>1, <1>2, <1>3

\* In one session all play by one set of carried rules.
LEMMA SessionRules ==
  ASSUME RoomInv, NEW c \in Consoles, NEW d \in Consoles, ~InLobby(c), ~InLobby(d),
         session[c].number = session[d].number
  PROVE  LET r == rules[c]  s == rules[d]
         IN  /\ r.haw = s.haw /\ r.megaCloud = s.megaCloud
             /\ r.variants = s.variants /\ r.trackList = s.trackList
             /\ r.raceCount = s.raceCount /\ r.miiHeads = s.miiHeads
             /\ r.forcedRandom = s.forcedRandom /\ r.commonRandom = s.commonRandom
<1>1. Carried(rules[c]) = Announced(Shown(c)) /\ Carried(rules[d]) = Announced(Shown(d))
  BY DEF RoomInv, SessionInv, Plays
<1>2. Shown(c) = Shown(d)
  BY DEF Shown
<1> QED
  BY <1>1, <1>2, CarriedFields

\* Up to the fifth option the table is what the page says.
LEMMA ShortCounts ==
  ASSUME NEW m \in Menus, m.raceCount <= 4
  PROVE  raceCounts[m.raceCount] = RaceCountText[m.raceCount + 1]
<1>1. m.raceCount \in 0..4
  BY DEF Menus
<1> QED
  BY <1>1 DEF raceCounts, RaceCountText

\* The invariant is what every console shows.
LEMMA RoomShown == RoomInv => RulesAsShown
<1> SUFFICES ASSUME RoomInv PROVE RulesAsShown
  OBVIOUS
<1>1. ASSUME NEW c \in Consoles, ~InLobby(c) PROVE Plays(c) /\ Shown(c) \in Menus
  <2>1. announced \in Seq(Entries) /\ Plays(c)
    BY <1>1 DEF RoomInv, TypeInv, TypeOK, SessionInv, Entries
  <2>2. announced[session[c].number] \in Entries
    BY <2>1, EntryType DEF Plays
  <2> QED
    BY <2>1, <2>2 DEF Shown, Entries
<1>2. ASSUME NEW c \in Consoles, ~InLobby(c)
      PROVE  /\ session[c].mode = announced[session[c].number].mode
             /\ LET r == rules[c]  m == Shown(c)
                IN  /\ r.haw = m.haw /\ r.megaCloud = m.megaCloud
                    /\ r.variants = m.variants /\ r.trackList = m.trackList
                    /\ m.raceCount <= 4 => r.raceCount = RaceCountText[m.raceCount + 1]
                    /\ r.forcedRandom = (m.randomCombo # "disabled")
                    /\ r.commonRandom = (m.randomCombo = "common")
  BY <1>1, <1>2, CarriedFields, ShortCounts DEF Plays
<1>3. ASSUME NEW c \in Consoles, NEW d \in Consoles, ~InLobby(c), ~InLobby(d),
             session[c].number = session[d].number
      PROVE  rules[c].raceCount = rules[d].raceCount /\ rules[c].miiHeads = rules[d].miiHeads
  BY <1>3, SessionRules
<1> QED
  BY <1>2, <1>3 DEF RulesAsShown

\* In every session of every room each console plays in the mode and by the
\* rules the host's pages showed when it was started, and by the same Mii heads
\* and number of races as the others: whatever settings packets, missed starts,
\* other sessions and offline games came before, and whatever the host changes
\* during the session.  The Mii heads are not those the page allows, nor a race
\* count above sixteen the one it shows.
THEOREM RoomCorrect == Spec => []RulesAsShown
BY RoomInvInit, RoomInvStep, RoomShown, PTL DEF Spec
=============================================================================
