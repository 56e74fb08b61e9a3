--------------------------- MODULE UserDataProofs ---------------------------
(***************************************************************************)
(* Proofs about UserData for any number of licences, any track lists, any  *)
(* stored files and any races.                                             *)
(***************************************************************************)
EXTENDS UserData, FiniteSetTheorems, TLAPS

-----------------------------------------------------------------------------
(* The invariant.                                                           *)

\* The settings are those that were chosen.
Kept(f) == \A l \in Licences, n \in Names : f.settings[l][Raw[n]] = f.chosen[l][n]

\* The trophies are those that were won.
Own(f) == \A l \in Licences, c \in Cups : GPData(f, 0, l, c) = f.won[l][c]

\* The sections are of this release, but for the licences of one to come.
IsCurrent(f) == f.main = 13 /\ f.settingsVersion = 15 /\ f.trophyVersion = 1

DataInv ==
  /\ TypeOK
  /\ IsCurrent(file) /\ Kept(file) /\ Own(file)
  /\ Agrees(nand)

-----------------------------------------------------------------------------
(* Where the settings are.                                                  *)

\* The settings the model follows.
LEMMA NamesAre ==
  Names = {"musicCutoff", "blues", "miiHeads", "speedometer", "frameMode", "ghostSaving",
           "trackBlocking", "mainVolume", "randomCombo"}
BY DEF Names, Raw

\* Each setting has a byte of its own, and a default.
LEMMA PlacesApart ==
  /\ \A n \in Names : Raw[n] \in RawSettings /\ DefaultValue[n] \in Nat
  /\ \A n, m \in Names : Raw[n] = Raw[m] => n = m
BY NamesAre DEF Raw, RawSettings, DefaultValue

\* The defaults are a choice.
LEMMA DefaultType == DefaultValue \in [Names -> Nat]
<1>1. DefaultValue = [n \in Names |-> DefaultValue[n]]
  BY NamesAre DEF DefaultValue
<1> QED
  BY <1>1, PlacesApart

\* The setting of a byte is the one whose byte it is.
LEMMA SettingAt ==
  ASSUME NEW n \in Names
  PROVE  (CHOOSE m \in Names : Raw[m] = Raw[n]) = n
BY PlacesApart

\* What the default settings hold.
LEMMA DefaultsAre ==
  /\ DefaultSettings \in [RawSettings -> Nat]
  /\ \A n \in Names : DefaultSettings[Raw[n]] = DefaultValue[n]
<1>1. ASSUME NEW raw \in RawSettings PROVE DefaultSettings[raw] \in Nat
  <2>1. CASE \E n \in Names : Raw[n] = raw
    <3>1. PICK n \in Names : Raw[n] = raw
      BY <2>1
    <3> QED
      BY <3>1, SettingAt, PlacesApart DEF DefaultSettings
  <2>2. CASE ~\E n \in Names : Raw[n] = raw
    BY <2>2 DEF DefaultSettings
  <2> QED
    BY <2>1, <2>2
<1>2. DefaultSettings = [raw \in RawSettings |-> DefaultSettings[raw]]
  BY DEF DefaultSettings
<1>3. ASSUME NEW n \in Names PROVE DefaultSettings[Raw[n]] = DefaultValue[n]
  BY SettingAt, PlacesApart DEF DefaultSettings
<1> QED
  BY <1>1, <1>2, <1>3

\* The settings that stay at their byte or move to it are those the older
\* release had.
LEMMA ShiftedTo ==
  ASSUME NEW s \in [RawSettings -> Nat]
  PROVE  /\ AdjustRevisionShifts(s) \in [RawSettings -> Nat]
         /\ \A n \in DOMAIN OldRaw :
              n \in Names /\ AdjustRevisionShifts(s)[Raw[n]] = s[OldRaw[n]]
<1>1. \A raw \in RawSettings : AdjustRevisionShifts(s)[raw] \in Nat
  BY DEF AdjustRevisionShifts, RawSettings
<1>2. AdjustRevisionShifts(s) = [raw \in RawSettings |-> AdjustRevisionShifts(s)[raw]]
  BY DEF AdjustRevisionShifts
<1>3. ASSUME NEW n \in DOMAIN OldRaw
      PROVE  n \in Names /\ AdjustRevisionShifts(s)[Raw[n]] = s[OldRaw[n]]
  <2>1. n \in {"musicCutoff", "blues", "miiHeads", "speedometer", "frameMode", "ghostSaving",
               "randomCombo"}
    BY DEF OldRaw
  <2> QED
    BY <2>1, NamesAre DEF AdjustRevisionShifts, Raw, OldRaw, RawSettings
<1> QED
  BY <1>1, <1>2, <1>3

\* Which settings an older release did not have.
LEMMA NewSettings ==
  ASSUME NEW n \in Names, NEW revision \in 1..14
  PROVE  RevisionAdded[n] >= revision <=> n \notin DOMAIN OldRaw
BY NamesAre DEF RevisionAdded, OldRaw

\* A migrated setting is what it was, or new and at its default.
LEMMA MigratedTo ==
  ASSUME NEW s \in [RawSettings -> Nat], NEW revision \in 1..14
  PROVE  /\ Migrated(s, revision) \in [RawSettings -> Nat]
         /\ \A n \in Names : Migrated(s, revision)[Raw[n]] =
              IF n \in DOMAIN OldRaw THEN s[OldRaw[n]] ELSE DefaultValue[n]
<1> DEFINE New(raw) == \E n \in Names : Raw[n] = raw /\ RevisionAdded[n] >= revision
<1>1. Migrated(s, revision) =
        [raw \in RawSettings |->
           IF New(raw) THEN DefaultValue[CHOOSE n \in Names : Raw[n] = raw]
           ELSE AdjustRevisionShifts(s)[raw]]
  BY DEF Migrated
<1>2. ASSUME NEW n \in Names PROVE New(Raw[n]) <=> n \notin DOMAIN OldRaw
  BY NewSettings, PlacesApart
<1>3. ASSUME NEW raw \in RawSettings PROVE Migrated(s, revision)[raw] \in Nat
  <2>1. CASE New(raw)
    <3>1. PICK n \in Names : Raw[n] = raw
      BY <2>1
    <3> QED
      BY <1>1, <2>1, <3>1, SettingAt, PlacesApart
  <2>2. CASE ~New(raw)
    <3> HIDE DEF New
    <3> QED
      BY <1>1, <2>2, ShiftedTo
  <2> QED
    BY <2>1, <2>2
<1> HIDE DEF New
<1>4. ASSUME NEW n \in Names
      PROVE  Migrated(s, revision)[Raw[n]] =
               IF n \in DOMAIN OldRaw THEN s[OldRaw[n]] ELSE DefaultValue[n]
  <2>1. CASE n \in DOMAIN OldRaw
    BY <1>1, <1>2, <2>1, ShiftedTo, PlacesApart
  <2>2. CASE n \notin DOMAIN OldRaw
    BY <1>1, <1>2, <2>2, SettingAt, PlacesApart
  <2> QED
    BY <2>1, <2>2
<1>5. Migrated(s, revision) \in [RawSettings -> Nat]
  BY <1>1, <1>3
<1> QED
  BY <1>4, <1>5

-----------------------------------------------------------------------------
(* What a start makes of the stored file.                                   *)

\* A cleared buffer is a file, and agrees with everything.
LEMMA UnreadFile ==
  ASSUME NEW f \in Files
  PROVE  Unread(f) \in Files /\ Agrees(Unread(f))
<1>1. Unread(f) \in Files /\ Unread(f).main = 0
  BY DEF Unread, Files
<1> QED
  BY <1>1 DEF Agrees, SettingsValid, TrophiesValid, MainValid

\* The settings of a start are those that were chosen.
LEMMA LoadedSettings ==
  ASSUME NEW f \in Files, Agrees(f)
  PROVE  /\ Loaded(f).settings \in [Licences -> [RawSettings -> Nat]]
         /\ Loaded(f).chosen \in [Licences -> [Names -> Nat]]
         /\ Kept(Loaded(f))
<1> DEFINE old == f.settingsVersion < 15
           Settings(l) == IF ~SettingsValid(f) THEN DefaultSettings
                          ELSE IF old THEN Migrated(f.settings[l], f.settingsVersion)
                          ELSE f.settings[l]
           chosen == IF SettingsValid(f) THEN f.chosen ELSE [l \in Licences |-> DefaultValue]
<1>1. /\ Loaded(f).settings = [l \in Licences |-> Settings(l)]
      /\ Loaded(f).chosen = chosen
  BY DEF Loaded, SettingsValid
<1>2. /\ f.settings \in [Licences -> [RawSettings -> Nat]]
      /\ f.chosen \in [Licences -> [Names -> Nat]]
      /\ f.settingsVersion \in Nat
  BY DEF Files
<1>3. chosen \in [Licences -> [Names -> Nat]]
  BY <1>2, DefaultType
<1>4. ASSUME NEW l \in Licences
      PROVE  /\ Settings(l) \in [RawSettings -> Nat]
             /\ \A n \in Names : Settings(l)[Raw[n]] = chosen[l][n]
  <2>1. CASE ~SettingsValid(f)
    BY <2>1, DefaultsAre
  <2>2. CASE SettingsValid(f) /\ old
    <3>1. f.settingsVersion \in 1..14
      BY <1>2, <2>2 DEF SettingsValid
    <3>2. f.settings[l] \in [RawSettings -> Nat]
      BY <1>2
    <3>3. \A n \in Names :
            f.chosen[l][n] = IF n \in DOMAIN OldRaw THEN f.settings[l][OldRaw[n]]
                             ELSE DefaultValue[n]
      BY <2>2, <3>1 DEF Agrees
    <3>4. Settings(l) = Migrated(f.settings[l], f.settingsVersion) /\ chosen = f.chosen
      BY <2>2
    <3> QED
      BY <3>1, <3>2, <3>3, <3>4, MigratedTo
  <2>3. CASE SettingsValid(f) /\ ~old
    <3>1. f.settingsVersion = 15
      BY <1>2, <2>3 DEF SettingsValid
    <3>2. Settings(l) = f.settings[l] /\ chosen = f.chosen
      BY <2>3
    <3> QED
      BY <1>2, <2>3, <3>1, <3>2 DEF Agrees
  <2> QED
    BY <2>1, <2>2, <2>3
<1> HIDE DEF Settings, chosen
<1> QED
  BY <1>1, <1>3, <1>4 DEF Kept

\* A cup's cell in the array is one of the licence and the cup alone.
LEMMA CellsApart ==
  /\ \A l \in Licences, c \in Cups : Cell(0, l, c) \in Cells
  /\ \A l, k \in Licences, c, d \in Cups : Cell(0, l, c) = Cell(0, k, d) => l = k /\ c = d
<1> DEFINE m == CupCount[0]
           n == Cardinality(Licences)
<1>1. m \in Nat \ {0} /\ n \in Nat /\ Licences = 0..(n - 1)
  BY UserDataAssumption, FS_CardinalityType
<1>2. Cups = 0..(m - 1) /\ Cells = 0..(m * n - 1) /\ \A l, c : Cell(0, l, c) = m * l + c
  BY DEF Cups, Cells, MaxCupCount, Cell
<1> HIDE DEF m, n
<1>3. ASSUME NEW l \in Licences, NEW c \in Cups PROVE m * l + c \in 0..(m * n - 1)
  <2>1. l \in Nat /\ l + 1 <= n /\ c \in 0..(m - 1)
    BY <1>1, <1>2, <1>3
  <2>2. m * l \in Nat /\ m * (l + 1) = m * l + m
    BY <1>1, <2>1
  <2>3. m * (l + 1) <= m * n
    BY <1>1, <2>1
  <2>4. m * n \in Nat
    BY <1>1
  <2> QED
    BY <1>1, <2>1, <2>2, <2>3, <2>4
<1>4. ASSUME NEW l \in Licences, NEW k \in Licences, NEW c \in Cups, NEW d \in Cups,
             m * l + c = m * k + d
      PROVE  l = k /\ c = d
  <2>1. l \in Nat /\ k \in Nat /\ c \in 0..(m - 1) /\ d \in 0..(m - 1)
    BY <1>1, <1>2, <1>4
  <2>2. \A i, j \in Nat : i < j => m * i + m <= m * j
    <3>1. ASSUME NEW i \in Nat, NEW j \in Nat, i < j PROVE m * i + m <= m * j
      <4>1. m * (i + 1) <= m * j
        BY <1>1, <3>1
      <4> QED
        BY <1>1, <4>1
    <3> QED
      BY <3>1
  <2>3. m * l \in Nat /\ m * k \in Nat
    BY <1>1, <2>1
  <2>4. ~(l < k) /\ ~(k < l)
    BY <1>1, <1>4, <2>1, <2>2, <2>3
  <2> QED
    BY <1>4, <2>1, <2>3, <2>4
<1> QED
  BY <1>2, <1>3, <1>4

\* The trophies of a start are those that were won.
LEMMA LoadedTrophies ==
  ASSUME NEW f \in Files, Agrees(f)
  PROVE  /\ Loaded(f).trophies \in [Cells -> [Engines -> Results]]
         /\ Loaded(f).won \in [Licences -> [Cups -> [Engines -> Results]]]
         /\ Own(Loaded(f))
<1> DEFINE none == [c \in Cups |-> [e \in Engines |-> NotPlayed]]
<1>1. /\ Loaded(f).trophies = IF TrophiesValid(f) THEN f.trophies ELSE NoTrophies
      /\ Loaded(f).won = IF TrophiesValid(f) THEN f.won ELSE [l \in Licences |-> none]
  BY DEF Loaded, TrophiesValid
<1>2. NotPlayed \in Results
  BY DEF NotPlayed, Results
<1>3. CASE TrophiesValid(f)
  <2>1. Loaded(f).trophies = f.trophies /\ Loaded(f).won = f.won
    BY <1>1, <1>3
  <2>2. /\ f.trophies \in [Cells -> [Engines -> Results]]
        /\ f.won \in [Licences -> [Cups -> [Engines -> Results]]]
    BY DEF Files
  <2> QED
    BY <1>3, <2>1, <2>2 DEF Agrees, Own, GPData
<1>4. CASE ~TrophiesValid(f)
  <2>1. Loaded(f).trophies = NoTrophies /\ Loaded(f).won = [l \in Licences |-> none]
    BY <1>1, <1>4
  <2>2. NoTrophies \in [Cells -> [Engines -> Results]] /\ none \in [Cups -> [Engines -> Results]]
    BY <1>2 DEF NoTrophies
  <2>3. ASSUME NEW l \in Licences, NEW c \in Cups
        PROVE  NoTrophies[Cell(0, l, c)] = none[c]
    BY CellsApart DEF NoTrophies
  <2> HIDE DEF none
  <2> QED
    BY <2>1, <2>2, <2>3 DEF Own, GPData
<1> QED
  BY <1>3, <1>4

\* The file of a start is of this release and holds what was chosen and won.
LEMMA LoadedFile ==
  ASSUME NEW f \in Files, Agrees(f)
  PROVE  Loaded(f) \in Files /\ IsCurrent(Loaded(f)) /\ Kept(Loaded(f)) /\ Own(Loaded(f))
<1> DEFINE g == Loaded(f)
<1>1. /\ g = [main |-> g.main, settingsVersion |-> g.settingsVersion,
              trophyVersion |-> g.trophyVersion, licenceVersion |-> g.licenceVersion,
              settings |-> g.settings, licences |-> g.licences, trophies |-> g.trophies,
              chosen |-> g.chosen, won |-> g.won]
      /\ g.main = 13 /\ g.settingsVersion = 15 /\ g.trophyVersion = 1
      /\ g.licenceVersion = (IF MainValid(f) THEN f.licenceVersion ELSE 2)
      /\ g.licences = (IF MainValid(f) THEN f.licences ELSE [l \in Licences |-> NewLicence])
  BY DEF Loaded
<1>2. f.licenceVersion \in Nat /\ f.licences \in [Licences -> LicenceData]
  BY DEF Files
<1>3. NewLicence \in LicenceData
  BY DEF NewLicence, LicenceData
<1>4. g.licenceVersion \in Nat /\ g.licences \in [Licences -> LicenceData]
  BY <1>1, <1>2, <1>3
<1>5. /\ g.settings \in [Licences -> [RawSettings -> Nat]]
      /\ g.chosen \in [Licences -> [Names -> Nat]] /\ Kept(g)
  BY LoadedSettings
<1>6. /\ g.trophies \in [Cells -> [Engines -> Results]]
      /\ g.won \in [Licences -> [Cups -> [Engines -> Results]]] /\ Own(g)
  BY LoadedTrophies
<1> HIDE DEF g
<1>7. g \in Files
  BY <1>1, <1>4, <1>5, <1>6 DEF Files
<1> QED
  BY <1>1, <1>5, <1>6, <1>7 DEF IsCurrent, g

\* A file that is current is one that agrees.
LEMMA CurrentAgrees ==
  ASSUME NEW f \in Files, IsCurrent(f), Kept(f), Own(f)
  PROVE  Agrees(f)
BY DEF IsCurrent, Kept, Own, Agrees

-----------------------------------------------------------------------------
(* The score and the class of a licence.                                    *)

\* A word divided by a number is a natural number.
LEMMA Quotients ==
  ASSUME NEW high \in Int, NEW low \in Int, NEW d \in Nat \ {0}
  PROVE  Quotient32(high % 65536, low % 65536, d) \in Nat
<1> DEFINE h == high % 65536
           w == low % 65536
<1>1. h \in Nat /\ w \in Nat
  OBVIOUS
<1> HIDE DEF h, w
<1>2. h \div d \in Nat /\ h % d \in Nat
  BY <1>1
<1>3. ((h % d) * 65536 + w) \div d \in Nat
  <2> DEFINE x == (h % d) * 65536 + w
  <2>1. x \in Nat
    BY <1>1, <1>2
  <2> HIDE DEF x
  <2>2. x \div d \in Nat
    BY <2>1
  <2> QED
    BY <2>2 DEF x
<1> QED
  BY <1>2, <1>3 DEF Quotient32, h, w

\* A race is worth a number of points.
LEMMA ScoreType ==
  ASSUME NEW r \in OnlineRaces
  PROVE  Score(r) \in Int
<1> DEFINE lowest == (r.leader * 5) \div 4
           part == U32Div(1000 * (lowest - r.frames), lowest)
           first == (150 * r.first) \div lowest
           x == part + first + r.bonus - r.penalty
<1>1. /\ r.leader \in Nat \ {0} /\ r.frames \in Nat /\ r.first \in Nat
      /\ r.bonus \in Nat /\ r.penalty \in Nat
  BY UserDataAssumption
<1>2. lowest \in Nat \ {0}
  BY <1>1
<1> HIDE DEF lowest
<1>3. part \in Nat
  <2> DEFINE y == 1000 * (lowest - r.frames)
  <2>1. y \in Int
    BY <1>1, <1>2
  <2> HIDE DEF y
  <2>2. y \div 65536 \in Int
    BY <2>1
  <2>3. U32Div(y, lowest) \in Nat
    BY <1>2, <2>1, <2>2, Quotients DEF U32Div
  <2> QED
    BY <2>3 DEF y
<1>4. first \in Int
  <2> DEFINE z == 150 * r.first
  <2>1. z \in Nat
    BY <1>1
  <2> HIDE DEF z
  <2>2. z \div lowest \in Int
    BY <1>2, <2>1
  <2> QED
    BY <2>2 DEF z
<1> HIDE DEF part, first
<1>5. x \in Int
  BY <1>1, <1>3, <1>4
<1>6. Score(r) = 4 * Clamp(x, -50, 250)
  BY DEF Score, lowest, part, first
<1> HIDE DEF x
<1>7. Clamp(x, -50, 250) \in Int
  BY <1>5 DEF Clamp
<1> QED
  BY <1>6, <1>7

\* The new score is an unsigned number.
LEMMA AveragedType ==
  ASSUME NEW old \in Nat, NEW r \in OnlineRaces
  PROVE  Averaged(old, r) \in Nat
<1> DEFINE w == Weight(r.players)
           low == (36 - w) * (old % 65536) + w * Score(r)
           high == (36 - w) * (old \div 65536) + low \div 65536
<1>1. w \in Int
  <2>1. r.players \in Nat
    BY UserDataAssumption
  <2> QED
    BY <2>1 DEF Weight
<1>2. Score(r) \in Int
  BY ScoreType
<1> HIDE DEF w
<1>3. low \in Int
  <2>1. old % 65536 \in Int /\ 36 - w \in Int
    BY <1>1
  <2>2. (36 - w) * (old % 65536) \in Int /\ w * Score(r) \in Int
    BY <1>1, <1>2, <2>1
  <2> QED
    BY <2>2
<1> HIDE DEF low
<1>4. high \in Int
  <2>1. old \div 65536 \in Int /\ 36 - w \in Int /\ low \div 65536 \in Int
    BY <1>1, <1>3
  <2>2. (36 - w) * (old \div 65536) \in Int
    BY <2>1
  <2> QED
    BY <2>1, <2>2
<1>5. Averaged(old, r) = Quotient32(high % 65536, low % 65536, 36)
  BY DEF Averaged, high, low, w
<1> HIDE DEF high
<1> QED
  BY <1>3, <1>4, <1>5, Quotients

\* The largest of some of the five classes is one of them.
LEMMA LargestClass ==
  ASSUME NEW bits \in SUBSET (0..4), bits # {}
  PROVE  Max(bits) \in bits
<1>1. \E x \in bits : \A y \in bits : x >= y
  <2>1. CASE 4 \in bits
    BY <2>1
  <2>2. CASE 4 \notin bits /\ 3 \in bits
    BY <2>2
  <2>3. CASE 4 \notin bits /\ 3 \notin bits /\ 2 \in bits
    BY <2>3
  <2>4. CASE 4 \notin bits /\ 3 \notin bits /\ 2 \notin bits /\ 1 \in bits
    BY <2>4
  <2>5. CASE 4 \notin bits /\ 3 \notin bits /\ 2 \notin bits /\ 1 \notin bits
    <3>1. PICK x \in bits : TRUE
      OBVIOUS
    <3>2. \A y \in bits : y = 0
      BY <2>5
    <3> QED
      BY <3>1, <3>2
  <2> QED
    BY <2>1, <2>2, <2>3, <2>4, <2>5
<1> QED
  BY <1>1 DEF Max

\* A licence is of one of five classes, or of none.
LEMMA ClassType ==
  ASSUME NEW d \in LicenceData
  PROVE  MaxLicenseClass(d) \in 0..5
<1>1. d.gp \in SUBSET (0..4) /\ d.online \in SUBSET (0..4)
  BY DEF LicenceData
<1>2. ClassOf(d.gp) \in 0..5 /\ ClassOf(d.online) \in 0..5
  BY <1>1, LargestClass DEF ClassOf
<1> DEFINE a == ClassOf(d.gp)
           b == ClassOf(d.online)
<1> HIDE DEF a, b
<1>3. a \in 0..5 /\ b \in 0..5
  BY <1>2 DEF a, b
<1>4. \E x \in {a, b} : \A y \in {a, b} : x >= y
  BY <1>3
<1>5. Max({a, b}) \in {a, b}
  BY <1>4 DEF Max
<1> QED
  BY <1>3, <1>5 DEF MaxLicenseClass, a, b

\* LicenseClassUpdate adds at most one class, to one of the two halves.
LEMMA ClassAdded ==
  ASSUME NEW f \in Files, NEW list, NEW l \in Licences, NEW d \in ClassUpdated(f, list, l)
  PROVE  LET old == f.licences[l]
             class == MaxLicenseClass(old)
             done == Completed(f, list, l)
         IN  /\ d \in LicenceData
             /\ d.gp # old.gp =>
                  /\ class \in 0..4 /\ d.gp = old.gp \union {class}
                  /\ \E average \in AverageRanks(f, list, l, done) :
                       EnoughCups(done, average, class)
<1> DEFINE old == f.licences[l]
           class == MaxLicenseClass(old)
           done == Completed(f, list, l)
           cups == [old EXCEPT !.gp = @ \union {class}]
           races == [old EXCEPT !.online = @ \union {class}]
<1>1. old \in LicenceData
  BY DEF Files
<1>2. class \in 0..5
  BY <1>1, ClassType
<1>3. \/ d = old
      \/ /\ class # 5
         /\ \/ d = races
            \/ /\ d = cups
               /\ \E average \in AverageRanks(f, list, l, done) : EnoughCups(done, average, class)
  <2> HIDE DEF done, class
  <2>1. ClassUpdated(f, list, l) =
          IF class = 5 THEN {old}
          ELSE {IF EnoughCups(done, average, class) THEN cups
                ELSE IF EnoughRaces(old, class) THEN races ELSE old
                  : average \in AverageRanks(f, list, l, done)}
    BY DEF ClassUpdated, done, class
  <2> HIDE DEF old, cups, races
  <2>2. CASE class = 5
    BY <2>1, <2>2
  <2>3. CASE class # 5
    <3>1. PICK average \in AverageRanks(f, list, l, done) :
            d = IF EnoughCups(done, average, class) THEN cups
                ELSE IF EnoughRaces(old, class) THEN races ELSE old
      BY <2>1, <2>3
    <3> QED
      BY <2>3, <3>1
  <2> QED
    BY <2>2, <2>3
<1> HIDE DEF class, done
<1>4. class \in 0..4 => /\ cups \in LicenceData /\ cups.gp = old.gp \union {class}
                        /\ races \in LicenceData /\ races.gp = old.gp
  BY <1>1 DEF LicenceData
<1> HIDE DEF cups, races
<1>5. \/ d = old
      \/ class \in 0..4 /\ d \in {races, cups}
  BY <1>2, <1>3
<1>6. d \in LicenceData
  BY <1>1, <1>4, <1>5
<1>7. ASSUME d.gp # old.gp
      PROVE  /\ class \in 0..4 /\ d.gp = old.gp \union {class}
             /\ \E average \in AverageRanks(f, list, l, done) : EnoughCups(done, average, class)
  BY <1>2, <1>3, <1>4, <1>7
<1> QED
  BY <1>6, <1>7 DEF old, class, done

-----------------------------------------------------------------------------
(* The steps.                                                               *)

\* The first state is a start.
LEMMA DataInit ==
  ASSUME Init
  PROVE  DataInv
<1>1. nand \in Files /\ Agrees(nand)
  BY UserDataAssumption, StoredAssumption DEF Init
<1>2. file \in Files /\ IsCurrent(file) /\ Kept(file) /\ Own(file)
  BY <1>1, LoadedFile, UnreadFile DEF Init
<1>3. currentLicense \in Licences /\ layout \in Lists /\ events \in 0..MaxEvents
  <2>1. Cardinality(Licences) \in Nat
    BY UserDataAssumption, FS_CardinalityType
  <2> QED
    BY <2>1, UserDataAssumption DEF Init
<1> QED
  BY <1>1, <1>2, <1>3 DEF DataInv, TypeOK

\* A save stores a file that agrees, or nothing.
LEMMA SaveKeeps ==
  ASSUME DataInv, Save, file' \in Files, IsCurrent(file'), Kept(file'), Own(file'),
         currentLicense' \in Licences, layout' \in Lists, events' \in 0..MaxEvents
  PROVE  DataInv'
<1>1. Agrees(file')
  BY CurrentAgrees
<1>2. nand' \in Files /\ Agrees(nand')
  BY <1>1 DEF DataInv, TypeOK, Save
<1> QED
  BY <1>2 DEF DataInv, TypeOK

\* A start reads the file, or cannot.
LEMMA BootKeeps ==
  ASSUME DataInv, Boot
  PROVE  DataInv'
<1>1. PICK f \in {nand, Unread(nand)} : file' = Loaded(f)
  BY DEF Boot
<1>2. f \in Files /\ Agrees(f)
  BY UnreadFile DEF DataInv, TypeOK
<1>3. 0 \in Licences
  <2>1. Cardinality(Licences) \in Nat
    BY UserDataAssumption, FS_CardinalityType
  <2> QED
    BY <2>1, UserDataAssumption
<1>4. currentLicense' \in Licences /\ layout' \in Lists /\ events' \in 0..MaxEvents /\ Save
  BY <1>3, UserDataAssumption DEF Boot, DataInv, TypeOK
<1> QED
  BY <1>1, <1>2, <1>4, LoadedFile, SaveKeeps

\* The fields of a file are what it is made of.
LEMMA FileFields ==
  ASSUME NEW f \in Files
  PROVE  /\ f.settings \in [Licences -> [RawSettings -> Nat]]
         /\ f.licences \in [Licences -> LicenceData]
         /\ f.trophies \in [Cells -> [Engines -> Results]]
         /\ f.chosen \in [Licences -> [Names -> Nat]]
         /\ f.won \in [Licences -> [Cups -> [Engines -> Results]]]
BY DEF Files

\* The file with another value of a setting.
WithSetting(f, l, n, value) ==
  [f EXCEPT !.settings[l][Raw[n]] = value, !.chosen[l][n] = value]

\* A setting of one licence is changed, with the choice of it.
LEMMA SetFields ==
  ASSUME NEW f \in Files, IsCurrent(f), Kept(f), Own(f),
         NEW l \in Licences, NEW n \in Names, NEW value \in Nat
  PROVE  LET g == WithSetting(f, l, n, value)
         IN  g \in Files /\ IsCurrent(g) /\ Kept(g) /\ Own(g) /\ g.licences = f.licences
<1> DEFINE g == WithSetting(f, l, n, value)
           settings == [f.settings EXCEPT ![l] = [@ EXCEPT ![Raw[n]] = value]]
           chosen == [f.chosen EXCEPT ![l] = [@ EXCEPT ![n] = value]]
<1>1. /\ settings \in [Licences -> [RawSettings -> Nat]]
      /\ chosen \in [Licences -> [Names -> Nat]]
  BY FileFields, PlacesApart
<1>2. g = [[f EXCEPT !.settings = settings] EXCEPT !.chosen = chosen]
  BY DEF Files, WithSetting
<1> HIDE DEF g
<1>3. \A k \in Licences, m \in Names : settings[k][Raw[m]] = chosen[k][m]
  <2>1. ASSUME NEW k \in Licences, NEW m \in Names PROVE settings[k][Raw[m]] = chosen[k][m]
    <3>0. /\ f.settings[k][Raw[m]] = f.chosen[k][m] /\ Raw[m] \in RawSettings
          /\ Raw[n] \in RawSettings /\ (Raw[m] = Raw[n] => m = n)
      BY PlacesApart DEF Kept
    <3>1. CASE k = l
      <4>1. /\ settings[k] = [f.settings[l] EXCEPT ![Raw[n]] = value]
            /\ chosen[k] = [f.chosen[l] EXCEPT ![n] = value]
        BY <3>1, FileFields
      <4>2. f.settings[l] \in [RawSettings -> Nat] /\ f.chosen[l] \in [Names -> Nat]
        BY FileFields
      <4> QED
        BY <3>0, <3>1, <4>1, <4>2
    <3>2. CASE k # l
      <4>1. settings[k] = f.settings[k] /\ chosen[k] = f.chosen[k]
        BY <3>2, FileFields
      <4> QED
        BY <3>0, <4>1
    <3> QED
      BY <3>1, <3>2
  <2> QED
    BY <2>1
<1> HIDE DEF settings, chosen
<1>4. /\ g \in Files /\ g.settings = settings /\ g.chosen = chosen
      /\ g.main = f.main /\ g.settingsVersion = f.settingsVersion
      /\ g.trophyVersion = f.trophyVersion /\ g.trophies = f.trophies /\ g.won = f.won
      /\ g.licences = f.licences
  BY <1>1, <1>2 DEF Files
<1>5. Kept(g)
  BY <1>3, <1>4 DEF Kept
<1>6. Own(g) /\ IsCurrent(g)
  BY <1>4 DEF Own, GPData, IsCurrent
<1> QED
  BY <1>4, <1>5, <1>6 DEF g

\* A setting is changed by the player whose licence it is.
LEMMA SettingKeeps ==
  ASSUME DataInv, NEW c \in Changes, SetSettingValue(c[1], c[2])
  PROVE  DataInv' /\ file'.licences = file.licences
<1>1. c[1] \in Names /\ c[2] \in Nat
  <2>1. c[1] \in Names /\ c[2] \in 0..(OptionCount[c[1]] - 1)
    BY UserDataAssumption
  <2>2. \A x, y : x \in 0..y => x \in Nat
    OBVIOUS
  <2> QED
    BY <2>1, <2>2
<1>2. /\ file \in Files /\ IsCurrent(file) /\ Kept(file) /\ Own(file)
      /\ currentLicense \in Licences
  BY DEF DataInv, TypeOK
<1>3. file' = WithSetting(file, currentLicense, c[1], c[2])
  BY DEF SetSettingValue, WithSetting
<1>4. /\ file' \in Files /\ IsCurrent(file') /\ Kept(file') /\ Own(file')
      /\ file'.licences = file.licences
  BY <1>1, <1>2, <1>3, SetFields
<1>5. currentLicense' \in Licences /\ layout' \in Lists /\ events' \in 0..MaxEvents /\ Save
  BY UserDataAssumption DEF SetSettingValue, Event, DataInv, TypeOK
<1> QED
  BY <1>4, <1>5, SaveKeeps

\* The file with another licence.
WithLicence(f, l, d) == [f EXCEPT !.licences[l] = d]

\* A licence changes alone.
LEMMA LicenceFields ==
  ASSUME NEW f \in Files, IsCurrent(f), Kept(f), Own(f), NEW l \in Licences, NEW d \in LicenceData
  PROVE  LET g == WithLicence(f, l, d)
         IN  /\ g \in Files /\ IsCurrent(g) /\ Kept(g) /\ Own(g)
             /\ g.won = f.won /\ g.trophies = f.trophies
             /\ g.licences = [f.licences EXCEPT ![l] = d]
<1> DEFINE g == WithLicence(f, l, d)
           licences == [f.licences EXCEPT ![l] = d]
<1>1. licences \in [Licences -> LicenceData]
  BY FileFields
<1>2. g = [f EXCEPT !.licences = licences]
  BY DEF Files, WithLicence
<1> HIDE DEF g, licences
<1>3. /\ g \in Files /\ g.settings = f.settings /\ g.chosen = f.chosen
      /\ g.main = f.main /\ g.settingsVersion = f.settingsVersion
      /\ g.trophyVersion = f.trophyVersion /\ g.trophies = f.trophies /\ g.won = f.won
      /\ g.licences = licences
  BY <1>1, <1>2 DEF Files
<1>4. Kept(g)
  BY <1>3 DEF Kept
<1>5. Own(g) /\ IsCurrent(g)
  BY <1>3 DEF Own, GPData, IsCurrent
<1> QED
  BY <1>3, <1>4, <1>5 DEF g, licences

\* The file with another result of a cup.
WithResult(f, l, cup, engine, result) ==
  [f EXCEPT !.trophies[Cell(0, l, cup)][engine] = result, !.won[l][cup][engine] = result]

\* A result is written to the cell of its licence and its cup alone.
LEMMA ResultFields ==
  ASSUME NEW f \in Files, IsCurrent(f), Kept(f), Own(f),
         NEW l \in Licences, NEW cup \in Cups, NEW engine \in Engines, NEW result \in Results
  PROVE  LET g == WithResult(f, l, cup, engine, result)
         IN  /\ g \in Files /\ IsCurrent(g) /\ Kept(g) /\ Own(g)
             /\ g.licences = f.licences
<1> DEFINE g == WithResult(f, l, cup, engine, result)
           at == Cell(0, l, cup)
           trophies == [f.trophies EXCEPT ![at][engine] = result]
           won == [f.won EXCEPT ![l][cup][engine] = result]
           cell == [f.won[l][cup] EXCEPT ![engine] = result]
           row == [f.won[l] EXCEPT ![cup] = cell]
<1>1. at \in Cells
  BY CellsApart
<1>2. trophies \in [Cells -> [Engines -> Results]]
  BY <1>1, FileFields
<1>3. won \in [Licences -> [Cups -> [Engines -> Results]]]
  <2>1. f.won[l] \in [Cups -> [Engines -> Results]] /\ f.won[l][cup] \in [Engines -> Results]
    BY FileFields
  <2>2. cell \in [Engines -> Results]
    BY <2>1
  <2> HIDE DEF cell
  <2>3. row \in [Cups -> [Engines -> Results]]
    BY <2>1, <2>2
  <2> HIDE DEF row
  <2>4. [f.won EXCEPT ![l] = row] \in [Licences -> [Cups -> [Engines -> Results]]]
    BY <2>3, FileFields
  <2>5. won = [f.won EXCEPT ![l] = row]
    BY DEF row, cell
  <2> QED
    BY <2>4, <2>5
<1>4. g = [[f EXCEPT !.trophies = trophies] EXCEPT !.won = won]
  BY DEF Files, WithResult
<1>5. ASSUME NEW k \in Licences, NEW c \in Cups PROVE trophies[Cell(0, k, c)] = won[k][c]
  <2>1. /\ f.trophies[Cell(0, k, c)] = f.won[k][c] /\ Cell(0, k, c) \in Cells
        /\ (Cell(0, k, c) = at => k = l /\ c = cup)
    BY CellsApart DEF Own, GPData
  <2>2. CASE k = l /\ c = cup
    <3>1. trophies[Cell(0, k, c)] = [f.trophies[at] EXCEPT ![engine] = result]
      BY <1>1, <2>2, FileFields
    <3>2. won[k][c] = cell
      <4>1. won[l] = row
        BY FileFields
      <4>2. row[cup] = cell
        <5>1. f.won[l] \in [Cups -> [Engines -> Results]]
          BY FileFields
        <5> QED
          BY <5>1
      <4> QED
        BY <2>2, <4>1, <4>2
    <3> QED
      BY <2>1, <2>2, <3>1, <3>2
  <2>3. CASE ~(k = l /\ c = cup)
    <3>1. trophies[Cell(0, k, c)] = f.trophies[Cell(0, k, c)]
      BY <1>1, <2>1, <2>3, FileFields
    <3>2. won[k][c] = f.won[k][c]
      <4>1. f.won[l] \in [Cups -> [Engines -> Results]]
        BY FileFields
      <4>2. CASE k # l
        BY <4>2, FileFields
      <4>3. CASE k = l /\ c # cup
        BY <4>1, <4>3, FileFields
      <4> QED
        BY <2>3, <4>2, <4>3
    <3> QED
      BY <2>1, <3>1, <3>2
  <2> QED
    BY <2>2, <2>3
<1> HIDE DEF g, trophies, won
<1>6. /\ g \in Files /\ g.settings = f.settings /\ g.chosen = f.chosen
      /\ g.main = f.main /\ g.settingsVersion = f.settingsVersion
      /\ g.trophyVersion = f.trophyVersion /\ g.trophies = trophies /\ g.won = won
      /\ g.licences = f.licences
  BY <1>2, <1>3, <1>4 DEF Files
<1>7. Kept(g)
  BY <1>6 DEF Kept
<1>8. Own(g)
  BY <1>5, <1>6 DEF Own, GPData
<1>9. IsCurrent(g)
  BY <1>6 DEF IsCurrent
<1> QED
  BY <1>6, <1>7, <1>8, <1>9 DEF g

\* A Grand Prix is saved under the full list, for the licence that drove it.
LEMMA GPSaves ==
  ASSUME DataInv, NEW cup \in Cups, NEW r \in GPResults, FinishGP(cup, r)
  PROVE  \E saved \in Files, d \in LicenceData :
           /\ IsCurrent(saved) /\ Kept(saved) /\ Own(saved) /\ saved.licences = file.licences
           /\ d \in ClassUpdated(saved, layout', currentLicense)
           /\ file' = WithLicence(saved, currentLicense, d)
<1> DEFINE l == currentLicense
           result == [rank |-> r.rank, trophy |-> StoredTrophy(r.trophy)]
           better == Better(result, GPData(file, layout', l, cup)[r.engine])
           saved == IF better THEN WithResult(file, l, cup, r.engine, result) ELSE file
<1>1. layout' = 0
  BY DEF FinishGP, GPLayout
<1>2. /\ file \in Files /\ IsCurrent(file) /\ Kept(file) /\ Own(file) /\ l \in Licences
  BY DEF DataInv, TypeOK
<1>3. r.engine \in Engines /\ result \in Results
  <2>1. r.engine \in Engines /\ r.rank \in 0..7 /\ r.trophy \in 0..3
    BY UserDataAssumption
  <2> QED
    BY <2>1 DEF Results, StoredTrophy
<1>4. \E d \in ClassUpdated(saved, layout', l) : file' = WithLicence(saved, l, d)
  BY <1>1 DEF FinishGP, WithResult, WithLicence
<1> HIDE DEF result, better
<1>5. /\ saved \in Files /\ IsCurrent(saved) /\ Kept(saved) /\ Own(saved)
      /\ saved.licences = file.licences
  BY <1>2, <1>3, ResultFields
<1> HIDE DEF saved
<1> QED
  BY <1>2, <1>4, <1>5, ClassAdded

\* An online race changes the score and the number of races of its licence.
LEMMA OnlineSaves ==
  ASSUME DataInv, NEW list \in Lists, NEW r \in OnlineRaces, FinishOnlineRace(list, r)
  PROVE  \E raced \in Files, d \in LicenceData :
           /\ IsCurrent(raced) /\ Kept(raced) /\ Own(raced)
           /\ raced.licences[currentLicense].gp = file.licences[currentLicense].gp
           /\ \A k \in Licences \ {currentLicense} : raced.licences[k] = file.licences[k]
           /\ d \in ClassUpdated(raced, layout', currentLicense)
           /\ file' = WithLicence(raced, currentLicense, d)
<1> DEFINE l == currentLicense
           old == file.licences[l]
           new == IF r.players < 3 THEN [old EXCEPT !.races = @ + 1]
                  ELSE [old EXCEPT !.races = @ + 1, !.score = Averaged(@, r)]
           raced == WithLicence(file, l, new)
<1>1. /\ file \in Files /\ IsCurrent(file) /\ Kept(file) /\ Own(file) /\ l \in Licences
  BY DEF DataInv, TypeOK
<1>2. old \in LicenceData
  BY <1>1, FileFields
<1>3. new \in LicenceData /\ new.gp = old.gp
  <2>1. old.score \in Nat /\ old.races \in Nat
    BY <1>2 DEF LicenceData
  <2> DEFINE more == [old EXCEPT !.races = @ + 1]
             score == Averaged(old.score, r)
  <2>2. score \in Nat
    BY <2>1, AveragedType
  <2>3. more \in LicenceData /\ more.gp = old.gp /\ more.score = old.score
    BY <1>2, <2>1 DEF LicenceData
  <2>4. new = IF r.players < 3 THEN more ELSE [more EXCEPT !.score = score]
    BY <1>2, <2>3 DEF LicenceData
  <2> HIDE DEF new, more, score
  <2>5. [more EXCEPT !.score = score] \in LicenceData /\ [more EXCEPT !.score = score].gp = more.gp
    BY <2>2, <2>3 DEF LicenceData
  <2> QED
    BY <2>3, <2>4, <2>5
<1>4. raced = IF r.players < 3
              THEN [file EXCEPT !.licences[l].races = @ + 1]
              ELSE [file EXCEPT !.licences[l].races = @ + 1, !.licences[l].score = Averaged(@, r)]
  BY <1>1, <1>2, FileFields DEF WithLicence, Files, LicenceData
<1>5. \E d \in ClassUpdated(raced, layout', l) : file' = WithLicence(raced, l, d)
  BY <1>4 DEF FinishOnlineRace, WithLicence
<1> HIDE DEF new
<1>6. /\ raced \in Files /\ IsCurrent(raced) /\ Kept(raced) /\ Own(raced)
      /\ raced.licences = [file.licences EXCEPT ![l] = new]
  BY <1>1, <1>3, LicenceFields
<1>7. /\ raced.licences[l].gp = old.gp
      /\ \A k \in Licences \ {l} : raced.licences[k] = file.licences[k]
  BY <1>1, <1>3, <1>6, FileFields
<1> HIDE DEF raced
<1> QED
  BY <1>1, <1>5, <1>6, <1>7, ClassAdded

\* Every step keeps the invariant.
LEMMA DataStep ==
  ASSUME DataInv, [Next]_vars
  PROVE  DataInv'
<1>1. CASE Boot
  BY <1>1, BootKeeps
<1>2. ASSUME NEW l \in Licences, SetCurrentLicense(l) PROVE DataInv'
  BY <1>2 DEF SetCurrentLicense, DataInv, TypeOK
<1>3. ASSUME NEW c \in Changes, SetSettingValue(c[1], c[2]) PROVE DataInv'
  BY <1>3, SettingKeeps
<1>4. ASSUME NEW cup \in Cups, NEW r \in GPResults, FinishGP(cup, r) PROVE DataInv'
  <2>1. PICK saved \in Files, d \in LicenceData :
          /\ IsCurrent(saved) /\ Kept(saved) /\ Own(saved)
          /\ d \in ClassUpdated(saved, layout', currentLicense)
          /\ file' = WithLicence(saved, currentLicense, d)
    BY <1>4, GPSaves
  <2>2. currentLicense \in Licences /\ currentLicense' = currentLicense
    BY <1>4 DEF DataInv, TypeOK, FinishGP
  <2>3. layout' \in Lists /\ events' \in 0..MaxEvents /\ Save
    BY <1>4, UserDataAssumption DEF FinishGP, GPLayout, Event, DataInv, TypeOK
  <2> QED
    BY <2>1, <2>2, <2>3, LicenceFields, SaveKeeps
<1>5. ASSUME NEW list \in Lists, NEW r \in OnlineRaces, FinishOnlineRace(list, r) PROVE DataInv'
  <2>1. PICK raced \in Files, d \in LicenceData :
          /\ IsCurrent(raced) /\ Kept(raced) /\ Own(raced)
          /\ d \in ClassUpdated(raced, layout', currentLicense)
          /\ file' = WithLicence(raced, currentLicense, d)
    BY <1>5, OnlineSaves
  <2>2. currentLicense \in Licences /\ currentLicense' = currentLicense
    BY <1>5 DEF DataInv, TypeOK, FinishOnlineRace
  <2>3. layout' \in Lists /\ events' \in 0..MaxEvents /\ Save
    BY <1>5, UserDataAssumption DEF FinishOnlineRace, Event, DataInv, TypeOK
  <2> QED
    BY <2>1, <2>2, <2>3, LicenceFields, SaveKeeps
<1>6. CASE UNCHANGED vars
  BY <1>6 DEF vars, DataInv, TypeOK
<1> QED
  BY <1>1, <1>2, <1>3, <1>4, <1>5, <1>6 DEF Next

\* The invariant holds in every state.
THEOREM DataInvariant == Spec => []DataInv
<1>1. Init => DataInv
  BY DataInit
<1>2. DataInv /\ [Next]_vars => DataInv'
  BY DataStep
<1> QED
  BY <1>1, <1>2, PTL DEF Spec

\* Every variable keeps its type: the settings, licences and trophies of every
\* file that is loaded or stored have the form this release expects
\* (UserData.hpp:405-487).
THEOREM DataTypeCorrect == Spec => []TypeOK
<1>1. DataInv => TypeOK
  BY DEF DataInv
<1> QED
  BY <1>1, DataInvariant, PTL

\* Every setting is what its player chose, through the migration from any older
\* revision, lost saves and power cycles (UserData.cpp:147-157, 217-305).
THEOREM SettingsStay == Spec => []SettingsKept
<1>1. DataInv => SettingsKept
  BY DEF DataInv, Kept, SettingsKept
<1> QED
  BY <1>1, DataInvariant, PTL

\* The trophies of a licence are those of its own Grands Prix, for any number of
\* licences and cups in the one array (UserData.hpp:539-562).
THEOREM TrophiesStayOwn == Spec => []TrophiesAreOwn
<1>1. DataInv => TrophiesAreOwn
  BY DEF DataInv, Own, TrophiesAreOwn
<1> QED
  BY <1>1, DataInvariant, PTL

-----------------------------------------------------------------------------
(* The classes.                                                             *)

\* Under the full list the cups and ranks that are counted are the licence's
\* own.
LEMMA CountsOwn ==
  ASSUME NEW f \in Files, Own(f), NEW list \in Lists, CupCount[list] = MaxCupCount,
         NEW l \in Licences
  PROVE  Completed(f, list, l) = OwnCups(f, l) /\ Ranks(f, list, l) = OwnRanks(f, l)
<1>1. ASSUME NEW ce \in Cups \X Engines
      PROVE  GPData(f, list, l, ce[1])[ce[2]] = f.won[l][ce[1]][ce[2]]
  BY DEF Own, GPData, Cell, MaxCupCount
<1>2. Cups \X (Engines \ {0}) \subseteq Cups \X Engines
  OBVIOUS
<1>3. Completed(f, list, l) = OwnCups(f, l)
  BY <1>1, <1>2 DEF Completed, OwnCups
<1>4. Ranks(f, list, l) = OwnRanks(f, l)
  BY <1>1 DEF Ranks, OwnRanks
<1> QED
  BY <1>3, <1>4

\* There are finitely many cups to finish.
LEMMA OwnFinite ==
  ASSUME NEW f \in Files, NEW l \in Licences
  PROVE  IsFiniteSet(OwnCups(f, l)) /\ Cardinality(OwnCups(f, l)) \in Nat
<1>1. IsFiniteSet(Cups)
  <2>1. MaxCupCount - 1 \in Int /\ 0 \in Int
    BY UserDataAssumption DEF MaxCupCount
  <2> QED
    BY <2>1, FS_Interval DEF Cups
<1>2. IsFiniteSet(Engines \ {0})
  <2>1. IsFiniteSet(0..3)
    <3>1. 0 \in Int /\ 3 \in Int
      OBVIOUS
    <3> QED
      BY <3>1, FS_Interval
  <2> QED
    BY <2>1, FS_Subset DEF Engines
<1>3. IsFiniteSet(Cups \X (Engines \ {0}))
  BY <1>1, <1>2, FS_Product
<1>4. OwnCups(f, l) \subseteq Cups \X (Engines \ {0})
  BY DEF OwnCups
<1> QED
  BY <1>3, <1>4, FS_Subset, FS_CardinalityType

\* What a licence has finished when it gets a class for cups.
Earned(f, l, class) ==
  LET own == OwnCups(f, l)
  IN  /\ own # {}
      /\ 100 * Cardinality(own) > MaxCupCount * 3 * Requirements[class].cups - 100
      /\ Average(OwnRanks(f, l), own) <= Requirements[class].rank

\* LicenseClassUpdate gives a class for cups to who has earned it.
LEMMA ClassIsEarned ==
  ASSUME NEW f \in Files, Own(f), NEW list \in Lists, CupCount[list] = MaxCupCount,
         NEW l \in Licences, NEW d \in ClassUpdated(f, list, l),
         NEW class \in d.gp \ f.licences[l].gp
  PROVE  Earned(f, l, class)
<1> DEFINE own == OwnCups(f, l)
           q == Requirements[class].cups
           n == Cardinality(own)
           x == (MaxCupCount * q * 3) \div 100
<1>1. /\ class \in 0..4
      /\ \E average \in AverageRanks(f, list, l, Completed(f, list, l)) :
           EnoughCups(Completed(f, list, l), average, class)
  BY ClassAdded
<1>2. PICK average \in AverageRanks(f, list, l, own) : EnoughCups(own, average, class)
  BY <1>1, CountsOwn
<1>3. MaxCupCount \in Nat \ {0} /\ q \in 40..100 /\ n \in Nat
  <2>1. q \in {40, 55, 75, 90, 100}
    BY <1>1 DEF Requirements
  <2> HIDE DEF q
  <2>2. q \in 40..100
    BY <2>1
  <2> QED
    BY <2>2, OwnFinite, UserDataAssumption DEF MaxCupCount
<1>4. n >= x
  BY <1>2 DEF EnoughCups
<1> HIDE DEF own, q
<1> DEFINE y == MaxCupCount * q * 3
<1>5. y \in Nat /\ y >= 120 /\ y = MaxCupCount * 3 * q
  <2>1. MaxCupCount * q \in Nat /\ MaxCupCount * q >= 40
    BY <1>3
  <2> QED
    BY <1>3, <2>1
<1>6. x = y \div 100
  OBVIOUS
<1> HIDE DEF x, y, n
<1>7. x \in Nat /\ 100 * x > y - 100 /\ x >= 1
  BY <1>5, <1>6
<1>8. n >= 1 /\ 100 * n > y - 100
  BY <1>3, <1>4, <1>5, <1>7
<1>9. own # {}
  BY <1>8, FS_EmptySet DEF n
<1>10. Average(OwnRanks(f, l), own) <= Requirements[class].rank
  <2>1. average = Average(Ranks(f, list, l), own)
    BY <1>2, <1>9 DEF AverageRanks
  <2> QED
    BY <1>2, <2>1, CountsOwn DEF EnoughCups
<1> QED
  BY <1>5, <1>8, <1>9, <1>10 DEF Earned, own, n, q

\* A licence gets a class for cups for its own cups only: the required share of
\* them with the required average, whatever the processor makes of a division
\* by zero (UserData.cpp:431-470).  Not so after an online race that ends on a
\* shorter list: the cups counted there may be another licence's, and ClassEarned
\* exempts it.
THEOREM ClassesAreEarned == Spec => ClassEarned
<1> DEFINE Fair(l) ==
      \A class \in file'.licences[l].gp \ file.licences[l].gp :
        events' = events \/ CupCount[layout'] # MaxCupCount \/ Earned(file', l, class)
<1>1. ASSUME DataInv, DataInv', [Next]_vars PROVE \A l \in Licences : Fair(l)
  <2>0. /\ file \in Files /\ currentLicense \in Licences /\ layout' \in Lists
        /\ file.licences \in [Licences -> LicenceData]
    BY <1>1, FileFields DEF DataInv, TypeOK
  <2>1. CASE events' = events
    BY <2>1
  <2>2. ASSUME NEW c \in Changes, SetSettingValue(c[1], c[2]) PROVE \A l \in Licences : Fair(l)
    BY <1>1, <2>2, SettingKeeps
  <2>3. ASSUME NEW f \in Files, NEW d \in LicenceData, Own(f), IsCurrent(f), Kept(f),
               f.licences[currentLicense].gp = file.licences[currentLicense].gp,
               \A k \in Licences \ {currentLicense} : f.licences[k] = file.licences[k],
               d \in ClassUpdated(f, layout', currentLicense),
               file' = WithLicence(f, currentLicense, d)
        PROVE  \A l \in Licences : Fair(l)
    <3>2. /\ file'.licences = [f.licences EXCEPT ![currentLicense] = d] /\ file'.won = f.won
          /\ f.licences \in [Licences -> LicenceData]
      BY <2>0, <2>3, LicenceFields, FileFields
    <3>3. ASSUME NEW l \in Licences, NEW class \in file'.licences[l].gp \ file.licences[l].gp,
                 CupCount[layout'] = MaxCupCount
          PROVE  Earned(file', l, class)
      <4>1. l = currentLicense
        BY <2>0, <2>3, <3>2, <3>3
      <4>2. class \in d.gp \ f.licences[currentLicense].gp
        BY <2>0, <2>3, <3>2, <3>3, <4>1
      <4>3. Earned(f, l, class)
        BY <2>0, <2>3, <3>3, <4>1, <4>2, ClassIsEarned
      <4>4. OwnCups(file', l) = OwnCups(f, l) /\ OwnRanks(file', l) = OwnRanks(f, l)
        BY <3>2 DEF OwnCups, OwnRanks
      <4> QED
        BY <4>3, <4>4 DEF Earned
    <3> QED
      BY <3>3
  <2>4. ASSUME NEW cup \in Cups, NEW r \in GPResults, FinishGP(cup, r)
        PROVE  \A l \in Licences : Fair(l)
    BY <1>1, <2>3, <2>4, GPSaves
  <2>5. ASSUME NEW list \in Lists, NEW r \in OnlineRaces, FinishOnlineRace(list, r)
        PROVE  \A l \in Licences : Fair(l)
    BY <1>1, <2>3, <2>5, OnlineSaves
  <2>6. Boot \/ (\E l \in Licences : SetCurrentLicense(l)) \/ UNCHANGED vars => events' = events
    BY DEF Boot, SetCurrentLicense, vars
  <2> HIDE DEF Fair
  <2> QED
    BY <1>1, <2>1, <2>2, <2>4, <2>5, <2>6 DEF Next
<1>2. DataInv /\ DataInv' /\ [Next]_vars =>
        [\A l \in Licences :
           \A class \in file'.licences[l].gp \ file.licences[l].gp :
             \/ events' = events
             \/ CupCount[layout'] # MaxCupCount
             \/ LET own == OwnCups(file', l)
                IN  /\ own # {}
                    /\ 100 * Cardinality(own)
                         > MaxCupCount * 3 * Requirements[class].cups - 100
                    /\ Average(OwnRanks(file', l), own) <= Requirements[class].rank]_vars
  BY <1>1 DEF Earned
<1> QED
  BY <1>2, DataInvariant, PTL DEF Spec, ClassEarned

-----------------------------------------------------------------------------
(* What the online score computes, in words of 32 bits.                     *)

Word == 4294967296

\* Quotient and remainder.
LEMMA Divided ==
  ASSUME NEW a \in Int, NEW d \in Nat \ {0}
  PROVE  /\ a \div d \in Int /\ a % d \in 0..(d - 1) /\ a = d * (a \div d) + (a % d)
         /\ a \in Nat => a \div d \in Nat
<1>1. a \div d \in Int
  OBVIOUS
<1>2. a % d \in 0..(d - 1)
  OBVIOUS
<1>3. a = d * (a \div d) + (a % d)
  OBVIOUS
<1>4. a \in Nat => a \div d \in Nat
  OBVIOUS
<1> QED
  BY <1>1, <1>2, <1>3, <1>4

\* What makes a number the quotient.
LEMMA QuotientIs ==
  ASSUME NEW a \in Int, NEW d \in Nat \ {0}, NEW q \in Int, NEW r \in 0..(d - 1), a = d * q + r
  PROVE  a \div d = q /\ a % d = r
<1> DEFINE e == a \div d
           f == a % d
<1>1. e \in Int /\ f \in 0..(d - 1) /\ a = d * e + f
  <2>1. e \in Int
    OBVIOUS
  <2>2. f \in 0..(d - 1)
    OBVIOUS
  <2>3. a = d * e + f
    OBVIOUS
  <2> QED
    BY <2>1, <2>2, <2>3
<1> HIDE DEF e, f
<1>2. d * (e - q) = r - f
  BY <1>1
<1>3. CASE e - q >= 1
  <2>1. d * (e - q - 1) \in Nat
    BY <1>1, <1>3
  <2>2. d * (e - q - 1) = d * (e - q) - d
    BY <1>1
  <2> QED
    BY <1>1, <1>2, <2>1, <2>2
<1>4. CASE q - e >= 1
  <2>1. d * (q - e - 1) \in Nat
    BY <1>1, <1>4
  <2>2. d * (q - e - 1) = - (d * (e - q)) - d
    BY <1>1
  <2> QED
    BY <1>1, <1>2, <2>1, <2>2
<1> QED
  BY <1>1, <1>2, <1>3, <1>4 DEF e, f

\* The halves of a word divided one after the other are the word divided.
LEMMA HalvesDivided ==
  ASSUME NEW h \in Nat, NEW l \in Nat, NEW d \in Nat \ {0}
  PROVE  Quotient32(h, l, d) = (h * 65536 + l) \div d
<1> DEFINE q == h \div d
           m == h % d
           x == m * 65536 + l
           e == x \div d
           f == x % d
<1>1. q \in Nat /\ m \in 0..(d - 1) /\ h = d * q + m
  <2>1. q \in Nat
    OBVIOUS
  <2>2. m \in 0..(d - 1)
    OBVIOUS
  <2>3. h = d * q + m
    OBVIOUS
  <2> QED
    BY <2>1, <2>2, <2>3
<1>2. Quotient32(h, l, d) = q * 65536 + e
  BY DEF Quotient32
<1> HIDE DEF q, m
<1>3. x \in Nat
  BY <1>1
<1> HIDE DEF x
<1>4. e \in Nat /\ f \in 0..(d - 1) /\ x = d * e + f
  <2>1. e \in Nat
    BY <1>3
  <2>2. f \in 0..(d - 1)
    BY <1>3
  <2>3. x = d * e + f
    BY <1>3
  <2> QED
    BY <2>1, <2>2, <2>3
<1> HIDE DEF e, f
<1>5. h * 65536 + l = d * (q * 65536 + e) + f
  <2>1. d * q \in Nat /\ d * e \in Nat
    BY <1>1, <1>4
  <2>2. h * 65536 + l = (d * q) * 65536 + x
    BY <1>1, <2>1 DEF x
  <2>3. d * (q * 65536 + e) = (d * q) * 65536 + d * e
    BY <1>1, <1>4
  <2> QED
    BY <1>1, <1>4, <2>1, <2>2, <2>3
<1>6. (h * 65536 + l) \div d = q * 65536 + e
  BY <1>1, <1>4, <1>5, QuotientIs
<1> QED
  BY <1>2, <1>6

\* A word is the remainder of the number, and its halves make it up.
LEMMA HalvesOfWord ==
  ASSUME NEW y \in Int
  PROVE  /\ (y \div 65536) % 65536 \in Nat /\ y % 65536 \in Nat
         /\ ((y \div 65536) % 65536) * 65536 + (y % 65536) = y % Word
<1> DEFINE h == y \div 65536
           l == y % 65536
<1>1. h \in Int /\ l \in Nat /\ l < 65536 /\ y = 65536 * h + l
  BY Divided
<1> HIDE DEF h, l
<1> DEFINE g == h \div 65536
           k == h % 65536
<1>2. g \in Int /\ k \in Nat /\ k < 65536 /\ h = 65536 * g + k
  BY <1>1, Divided
<1> HIDE DEF g, k
<1> DEFINE w == k * 65536 + l
<1>3. w \in Nat /\ w < Word /\ Word \in Nat \ {0}
  BY <1>1, <1>2 DEF Word
<1>4. y = Word * g + w
  BY <1>1, <1>2 DEF Word
<1> HIDE DEF w
<1>5. w \in 0..(Word - 1)
  BY <1>3
<1>6. y % Word = w
  BY <1>2, <1>3, <1>4, <1>5, QuotientIs
<1> QED
  BY <1>1, <1>2, <1>6 DEF h, l, g, k, w

\* A difference that is not negative is divided as it is; one that is has
\* become a word near the end of the range.
LEMMA DifferenceDivided ==
  ASSUME NEW y \in Int, NEW d \in Nat \ {0}
  PROVE  /\ y >= 0 /\ y < Word => U32Div(y, d) = y \div d
         /\ y < 0 /\ 0 <= y + Word => U32Div(y, d) = (y + Word) \div d
<1>1. U32Div(y, d) = (y % Word) \div d
  <2> DEFINE h == (y \div 65536) % 65536
             l == y % 65536
  <2>1. U32Div(y, d) = Quotient32(h, l, d)
    BY DEF U32Div
  <2>2. h \in Nat /\ l \in Nat /\ h * 65536 + l = y % Word
    BY HalvesOfWord
  <2> HIDE DEF h, l
  <2>3. Quotient32(h, l, d) = (h * 65536 + l) \div d
    BY <2>2, HalvesDivided
  <2> QED
    BY <2>1, <2>2, <2>3
<1>2. y >= 0 /\ y < Word => y % Word = y
  BY DEF Word
<1>3. y < 0 /\ 0 <= y + Word => y % Word = y + Word
  BY DEF Word
<1> QED
  BY <1>1, <1>2, <1>3

\* A larger number has no smaller quotient.
LEMMA QuotientGrows ==
  ASSUME NEW a \in Nat, NEW b \in Nat, a <= b, NEW d \in Nat \ {0}
  PROVE  a \div d <= b \div d
<1> DEFINE p == a \div d
           q == b \div d
<1>1. p \in Nat /\ q \in Nat /\ d * p <= a /\ b < d * q + d
  <2> DEFINE i == a % d
             j == b % d
  <2>1. p \in Nat /\ q \in Nat
    OBVIOUS
  <2>2. i \in 0..(d - 1) /\ j \in 0..(d - 1)
    OBVIOUS
  <2>3. a = d * p + i
    OBVIOUS
  <2>4. b = d * q + j
    OBVIOUS
  <2> HIDE DEF p, q, i, j
  <2>5. d * p \in Nat /\ d * q \in Nat
    BY <2>1
  <2> QED
    BY <2>1, <2>2, <2>3, <2>4, <2>5
<1> HIDE DEF p, q
<1>2. CASE p - q >= 1
  <2>1. d * (p - q - 1) \in Nat
    BY <1>1, <1>2
  <2>2. d * (p - q - 1) = d * p - d * q - d
    BY <1>1
  <2>3. d * p \in Nat /\ d * q \in Nat
    BY <1>1
  <2> QED
    BY <1>1, <2>1, <2>2, <2>3
<1> QED
  BY <1>1, <1>2 DEF p, q

\* Five quarters of the leader's time.
Limit(r) == (r.leader * 5) \div 4
Half == 2147483648

\* A race that took numbers of frames.
LEMMA RaceType ==
  ASSUME NEW r \in OnlineRaces
  PROVE  /\ r.players \in Nat /\ r.leader \in Nat \ {0} /\ r.frames \in Nat /\ r.first \in Nat
         /\ r.bonus \in Nat /\ r.penalty \in Nat
         /\ Limit(r) \in Nat \ {0} /\ (150 * r.first) \div Limit(r) \in Nat
<1>1. /\ r.players \in Nat /\ r.leader \in Nat \ {0} /\ r.frames \in Nat /\ r.first \in Nat
      /\ r.bonus \in Nat /\ r.penalty \in Nat
  BY UserDataAssumption
<1>2. Limit(r) \in Nat \ {0}
  BY <1>1 DEF Limit
<1> DEFINE z == 150 * r.first
<1>3. z \in Nat
  BY <1>1
<1> HIDE DEF z
<1>4. z \div Limit(r) \in Nat
  BY <1>2, <1>3
<1> QED
  BY <1>1, <1>2, <1>4 DEF z

\* Who finishes within five quarters of the leader's time scores by how far
\* within, by the time in first, by bonuses and penalties, from -200 to 1000
\* (UserData.cpp:389-421).
THEOREM ScoreInTime ==
  ASSUME NEW r \in OnlineRaces, r.frames <= Limit(r), 1000 * Limit(r) < Word
  PROVE  Score(r) = 4 * Clamp((1000 * (Limit(r) - r.frames)) \div Limit(r)
                                + (150 * r.first) \div Limit(r) + r.bonus - r.penalty,
                              -50, 250)
<1> DEFINE y == 1000 * (Limit(r) - r.frames)
<1>1. y \in Int /\ y >= 0 /\ y < Word /\ Limit(r) \in Nat \ {0}
  BY RaceType DEF Word
<1>2. Score(r) = 4 * Clamp(U32Div(y, Limit(r)) + (150 * r.first) \div Limit(r)
                             + r.bonus - r.penalty, -50, 250)
  BY DEF Score, Limit
<1> HIDE DEF y
<1>3. U32Div(y, Limit(r)) = y \div Limit(r)
  BY <1>1, DifferenceDivided
<1> QED
  BY <1>2, <1>3 DEF y

\* Who finishes later gets the best score instead of the worst, whatever the
\* bonuses and, for any penalty of a real race, the penalties: the difference
\* of the times is unsigned (UserData.cpp:395).  The bounds are ten hours of
\* play and a quotient the signed score can hold.
THEOREM LateRaceScoresBest ==
  ASSUME NEW r \in OnlineRaces, Limit(r) < r.frames, 1000 * (r.frames - Limit(r)) <= Half,
         2 <= Limit(r), r.penalty + 250 <= Half \div Limit(r)
  PROVE  Score(r) = 1000
<1> DEFINE y == 1000 * (Limit(r) - r.frames)
           z == y + Word
           part == z \div Limit(r)
           first == (150 * r.first) \div Limit(r)
<1>1. y \in Int /\ y < 0 /\ z \in Nat /\ Half <= z /\ Limit(r) \in Nat \ {0}
  BY RaceType DEF Word, Half
<1>2. Score(r) = 4 * Clamp(U32Div(y, Limit(r)) + first + r.bonus - r.penalty, -50, 250)
  BY DEF Score, Limit
<1>3. first \in Nat /\ r.bonus \in Nat /\ r.penalty \in Nat
  BY RaceType
<1> HIDE DEF y, first
<1>4. U32Div(y, Limit(r)) = part
  BY <1>1, DifferenceDivided
<1> HIDE DEF z
<1>5. Half \in Nat /\ Half \div Limit(r) \in Nat /\ part \in Nat
  BY <1>1 DEF Half
<1>6. Half \div Limit(r) <= part
  BY <1>1, <1>5, QuotientGrows
<1> DEFINE bound == Half \div Limit(r)
<1> HIDE DEF bound, part
<1>7. bound \in Nat /\ part \in Nat /\ bound <= part /\ r.penalty + 250 <= bound
  BY <1>5, <1>6 DEF bound
<1>8. part + first + r.bonus - r.penalty >= 250
  BY <1>3, <1>7
<1>9. Clamp(part + first + r.bonus - r.penalty, -50, 250) = 250
  BY <1>3, <1>7, <1>8 DEF Clamp
<1> QED
  BY <1>2, <1>4, <1>9

\* A race of two or more players weighs at most six of 36 parts.
LEMMA Weights ==
  ASSUME NEW n \in Nat, n >= 2
  PROVE  Weight(n) \in 0..6
BY DEF Weight

\* A score is between the ends of the scale.
LEMMA ScoreRange ==
  ASSUME NEW r \in OnlineRaces
  PROVE  Score(r) \in -200..1000
<1> DEFINE x == U32Div(1000 * (Limit(r) - r.frames), Limit(r))
                  + (150 * r.first) \div Limit(r) + r.bonus - r.penalty
<1>1. Score(r) = 4 * Clamp(x, -50, 250)
  BY DEF Score, Limit
<1>2. x \in Int
  <2> DEFINE y == 1000 * (Limit(r) - r.frames)
  <2>1. y \in Int /\ Limit(r) \in Nat \ {0}
    BY RaceType
  <2> HIDE DEF y
  <2>2. y \div 65536 \in Int
    BY <2>1
  <2>3. U32Div(y, Limit(r)) \in Nat
    BY <2>1, <2>2, Quotients DEF U32Div
  <2> QED
    BY <2>3, RaceType DEF y
<1> HIDE DEF x
<1>3. Clamp(x, -50, 250) \in -50..250
  BY <1>2 DEF Clamp
<1> QED
  BY <1>1, <1>3

\* The new score of a licence is the weighted average of the old one and the
\* race's; a negative sum is taken for a word and gives a score above any that
\* can be earned (UserData.cpp:413-424).
THEOREM AverageIsWeighted ==
  ASSUME NEW old \in Nat, NEW r \in OnlineRaces, r.players >= 2
  PROVE  LET w == Weight(r.players)
             sum == (36 - w) * old + w * Score(r)
         IN  /\ 0 <= sum /\ sum < Word => Averaged(old, r) = sum \div 36
             /\ sum < 0 => Averaged(old, r) > 119000000
<1> DEFINE w == Weight(r.players)
           s == Score(r)
           sum == (36 - w) * old + w * s
           a == old % 65536
           b == old \div 65536
           low == (36 - w) * a + w * s
           high == (36 - w) * b + low \div 65536
<1>1. w \in 0..6 /\ s \in -200..1000
  BY RaceType, Weights, ScoreRange
<1>2. Averaged(old, r) = Quotient32(high % 65536, low % 65536, 36)
  BY DEF Averaged
<1> HIDE DEF w, s
<1>3. a \in Nat /\ b \in Nat /\ old = 65536 * b + a
  BY Divided
<1> HIDE DEF a, b
<1> DEFINE p == (36 - w) * a
           q == (36 - w) * b
           t == w * s
<1>4. p \in Nat /\ q \in Nat /\ t \in Int /\ -1200 <= t
  <2>1. 36 - w \in Nat
    BY <1>1
  <2>2. w * (s + 200) \in Nat /\ w * (s + 200) = w * s + 200 * w
    BY <1>1
  <2> QED
    BY <1>1, <1>3, <2>1, <2>2
<1>5. sum = 65536 * q + p + t
  <2>1. (36 - w) * (65536 * b + a) = 65536 * ((36 - w) * b) + (36 - w) * a
    BY <1>1, <1>3
  <2> QED
    BY <1>3, <2>1
<1>6. low = p + t /\ high = q + low \div 65536
  OBVIOUS
<1> HIDE DEF p, q, t, sum, low, high
<1> DEFINE h == low \div 65536
           l == low % 65536
<1>7. h \in Int /\ l \in Nat /\ l < 65536 /\ low = 65536 * h + l
  BY <1>4, <1>6, Divided
<1>8. high \in Int /\ sum = 65536 * high + l
  BY <1>4, <1>5, <1>6, <1>7
<1>9. (high % 65536) * 65536 + l = sum % Word /\ high % 65536 \in Nat
  <2>1. sum \div 65536 = high /\ sum % 65536 = l
    <3> HIDE DEF l
    <3> DEFINE n == 65536
    <3>1. n \in Nat \ {0} /\ l \in Nat /\ l < n
      BY <1>7
    <3>2. sum = n * high + l /\ sum \in Int /\ high \in Int
      BY <1>7, <1>8
    <3> HIDE DEF n
    <3>3. l \in 0..(n - 1)
      BY <3>1
    <3>4. sum \div n = high /\ sum % n = l
      BY <3>1, <3>2, <3>3, QuotientIs
    <3> QED
      BY <3>4 DEF n
  <2>2. sum \in Int
    BY <1>7, <1>8
  <2> HIDE DEF l
  <2>3. /\ (sum \div 65536) % 65536 \in Nat
        /\ ((sum \div 65536) % 65536) * 65536 + (sum % 65536) = sum % Word
    BY <2>2, HalvesOfWord
  <2> QED
    BY <2>1, <2>3
<1>10. Averaged(old, r) = (sum % Word) \div 36
  <2> DEFINE k == high % 65536
  <2>1. Averaged(old, r) = Quotient32(k, l, 36)
    BY <1>2
  <2> HIDE DEF k, l
  <2>2. Quotient32(k, l, 36) = (k * 65536 + l) \div 36
    BY <1>7, <1>9, HalvesDivided DEF k
  <2> QED
    BY <1>9, <2>1, <2>2 DEF k
<1>11. sum \in Int /\ -1200 <= sum
  BY <1>4, <1>5
<1>12. 0 <= sum /\ sum < Word => Averaged(old, r) = sum \div 36
  <2> SUFFICES ASSUME 0 <= sum, sum < Word PROVE sum % Word = sum
    BY <1>10
  <2> QED
    BY <1>11 DEF Word
<1>13. sum < 0 => Averaged(old, r) > 119000000
  <2> SUFFICES ASSUME sum < 0 PROVE (sum % Word) \div 36 > 119000000
    BY <1>10
  <2>1. sum % Word = sum + Word
    BY <1>11 DEF Word
  <2>2. (sum + Word) \div 36 > 119000000
    BY <1>11 DEF Word
  <2> QED
    BY <2>1, <2>2
<1> QED
  BY <1>12, <1>13 DEF sum, w, s
=============================================================================
