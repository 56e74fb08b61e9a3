# MKW Cosmos: TLA+ models and proofs

MKW Cosmos is a mod of a Wii racing game: a C++ binary that a loader places in
memory and that patches the game at fixed addresses. It adds cups and variants
of courses, a save file of its own, ghost leaderboards on the disc, SD card or
host storage, online room settings, and a driver for a USB controller adapter.
This directory holds TLA+ modules of the parts of it that keep state, the TLC
configurations that check them, and proofs that TLAPS checks. Paths below are
relative to `src/`.

## 1. Inventory

### Who runs

| actor | code | what it does |
|---|---|---|
| main thread | the game's loop with the patches hooked in | menus, races, all calls of `SettingsHolder::Update`, `SaveVR`, end-of-race pages; it waits for the retrace every frame |
| task thread | `EGG::TaskThread::Create(2, 30, 0x2000, NULL)` (`code/FileManager/FileManager.cpp:67`) | runs `SaveTask`, `ReadGhosts`, `CreateAndSaveFiles`, in the order they were requested; two slots |
| IOS callbacks | interrupt context | completions of the asynchronous USB calls of `code/System/WUP028.cpp` and of the HTTP request of `code/Network/WiiLink.cpp` |
| network | other consoles | ROOM and SELECT packets and race headers read by `code/Network/` |

There is no lock in this code (`StorageDevice::m_mutex` is initialised and never
used): what protects shared state is the single task thread and the habit of
doing a kind of work on one thread.

### Components, their state and what makes them correct

| component | state | operations | hard behaviours | correct when |
|---|---|---|---|---|
| user data saving (`Settings/UserData.cpp`, `FileManager/`) | the buffer `SettingsHolder::file`, `FileManager::fd`, the task pool | `Update`, `RequestSave`, `SaveTask`, `Save`, `SaveVR` | two threads in `Save` on one `fd`; dropped requests; IOS errors; power off | no descriptor leaks, no save is lost silently, the stored version goes back only to the defaults of a boot that could not read it |
| user data contents (`Settings/UserData.hpp/.cpp`) | settings, four licences, trophies per cup and layout, leaderboard scores | `Init` with its migrations, `SaveGP`, `LicenseClassUpdate`, `UpdateOnlineScore`, setters | old versions of the file, failed reads, an array shared by lists of different lengths, scores near zero | every setting is what its player chose; trophies and classes are a licence's own and are earned in order |
| file and folder managers (`FileManager/`) | `fd`, one shared `FIL` and its size, the folder's entry list | `Open`, `CreateOpen`, `Read`, `Write`, `Overwrite`, `Close`, `ReadFolder` | failed opens and reads leave the last call's state; 30-entry list | a read or write acts on the file its caller opened |
| ghosts and leaderboards (`Ghost/GhostManager.cpp`) | the list of ghost headers, the leaderboard file, the four chosen ghosts | `Init`, `ReadGhosts`, `LoadGhost`, `EnableGhost`, `CreateAndSaveFiles`, `PatchBeforeInAnim` | the same manager used by both threads; a crash between ghost, metadata and leaderboard writes | every entry shown is a ghost of this course; the leaderboard is sorted and agrees with what was raced |
| room settings (`Network/MiscNetwork.cpp`) | the rules in `System` and `SettingsHolder`, one outgoing ROOM packet per console | `BeforeSendingPackets`, `BeforeReadingPackets`, `ParseHostSettings` | rules of the last room or of offline play; packets replaced before they are read; nine rules in sixteen bits | every console of a room plays by what the host's pages showed when its session began |
| track voting (`Network/RKNetControllerPlus.cpp`) | the SELECT packet a console keeps sending, the votes the host has heard | `DecideTrack`, `DecideCC`, `HasDecided`, `GetCorrectSlot`, `LoadCorrectTrack`, `CheckCorrectEngineClass` | votes in any order, leavers, late joiners, time-outs, recently played tracks | one decision a round, taken from that round's votes; everyone races it |
| cups and courses (`SlotExpansion/`, `UI/CupSelect/`) | the selected course, variant, cup, layout, blocked tracks; what the pages drew; `lastLeftCup` | `OnActivate`, `ScrollCups`, `SlideCup`, `OnSwitchPress`, `UpdateSelection`, `UpdateSelectedCourse`, `GenerateGPArray`, VS orders | one position kept in four places, wrapping in both directions, two sortings, lists of different lengths | the cup that is marked is the one that is listed, raced and saved |
| random combo (`UI/Multiplayer/`, `UI/Settings/NewSettingsPage.cpp`) | the combo, the seed, the page and its menu state | `SetRandomCombo`, `AddCharacterSelectLayer`, roulettes, the time-out of each page | a countdown that ends in any page, packets later than the pages | a forced combo is rolled once and shown; a common one is the same for all; the vote is always reached |
| WiiLink authentication (`Network/WiiLink.cpp`) | status, buffers, salt | HTTP request, verification, retry | asynchronous answers and retries | code runs only after its signature was verified |
| SD card (`Storage/`) | the current device, the card's address and type, `tmpBuffer` | `Init`, `diskRead`, `diskWrite` | two threads without a lock (FatFs is built without one, too), removal, partial transfers | a transfer is all or an error, and touches only its sectors |
| adapter driver (`System/WUP028.cpp`) | the descriptor, the adapter's id, the calls on their way, `mStatus` and its age | `OnInit`, `OnUsbChangeVer4`, `OnUsbInitVer4`, `OnUsbPoll`, `CustomPADRead` | callbacks between two steps of the pad reader, calls that hang, plugging at any moment | an adapter that was found is used; one that is gone is not shown |
| start-up and archives (`System/System.cpp`) | archives, heaps | `LoadLZMAFile`, `LoadAdditionalFiles`, `Shutdown` | missing or broken files | a failed load leaves the original in place |
| other menus (`UI/`) | page state | message windows, layout of settings pages, friend room buttons | pages re-entered | a page is always left |
| frame skip (`Race/Frameskip.cpp`) | counters in assembly | per-frame hooks | late retraces | not more frames skipped than late |
| everything else | | race, sound, drawing, debug, loader, build tools | | see section 6 |

### Interactions

- `SettingsHolder::RequestSave`, `ReadGhostDataFromSD`, `LeaderboardMain::OnBack`
  and `PatchBeforeInAnim` all put tasks into the one pool of two; none of them
  looks at the result of `Request`.
- `SettingsHolder` always uses the NAND manager (`GetNANDManager`), the ghosts
  the manager of the storage the player chose (`GetStaticInstance`): the two
  are different objects, unless the NAND is the only storage.
- `GhostManager` reads the folder of `CupManager`'s selected course, and writes
  the leaderboard that the end-of-race page edits on the main thread.
- The ROOM message that starts a session carries the host's settings to the
  others; `DecideTrack` of the host uses the same settings, `CupManager`'s layout,
  its blocking list and the votes.
- The cup pages set `CupManager`'s layout on activation; the Grand Prix save, the
  licence class and the host's random courses use the layout of the moment.
- Every console rolls the common random combo for itself, from the `selectId` of
  the host's SELECT packet and the rules of the ROOM packet.
- `CupManager::winningCourse` is written by the course page, by the decision and
  by the race headers a late console sees.

## 2. Plan

In order of importance:

1. `SettingsSave`, `DurableCell`, `SettingsSaveProofs` (done): the one place
   where two threads share a file with no lock, and the data a player would miss
   most.
2. `GhostRecords` (done): the list and the leaderboard, the task thread and the
   end-of-race page, crashes between the writes.
3. `RoomRules`, `TrackVoting`, `CourseAgreement` (done): the rules in packets,
   the vote and the decision, against an abstract "one decision a round".
4. `RandomCombo` (done): the pages between the room and the vote, on top of
   `RoomRules`.
5. `UserData` (done): migration, trophies, scores, licence classes.
6. `CupPages` (done): the cup, course and variant pages and the orders of races.
7. `AdapterDriver` on `IosCalls` (done): the chains of asynchronous calls and the pad
   reader.
8. `SDCard` on `IosCalls` (done): the start of the card and the transfers of two
   threads.
9. Proofs (done): every safety invariant, action property and refinement that a run
   checks. No module declares a recursive operator. `DriverProofs` was the last, for
   the two drivers; liveness stays with TLC.

## 3. Modules

### `SettingsSave` (saving the user data)

`mem` is the version of the buffer, `disk` the blocks of the save file. A version is the
number of edits since the data was last the defaults, and how often it was (`era`). One
action is one IOS call together with the code up to the next one, because a thread
sleeps in IOS and the other may then run; a thread's place in `Save` is `pc`. `Open`,
`SeekEnd`, `SeekStart` are `FileManager::Open`; `Overwrite`, `Write` are
`FileManager::Overwrite`; `Close`, `Closed` are `FileManager::Close`, split because the
member `fd` is cleared after the call has returned. The descriptor is read from the
shared `fd` in each of them, as in the code. `pool` is the task thread's queue, of which
the head is the task that is running; a request that finds it full is dropped.
`PowerCycle` is the end of everything that runs and then `SettingsHolder::Init`, which
does not look at the result of its read: either it loads the first block and writes the
same back (`LoadStored`), or it could not read, takes the cleared buffer for an invalid
file, fills in the defaults and writes them over the first block, unless that fails as
well (`LoadDefaults`). `Init` is one action because it runs before the task thread has a
task. `spoiled` is a history variable: it records the four things the code lets pass
without a word (two Saves at once, an IOS error, a ghost task that keeps a save out of
the pool, a boot that could not read), so that the properties can say exactly what is
guaranteed without them.

### `DurableCell` (the promise)

A volatile value that is edited, stored whole, and brought back by a power cycle; a
boot that cannot read what is stored starts from the defaults of the next era.
`SettingsSave` implements it with `stored` = the first block of the file and `unread` =
the boot that said so.

### `GhostRecords` (time trial records)

One time trial mode of the ghost manager. The end-of-race page (`FinishRace`) changes
the leaderboard and the shared ghost buffer on the main thread and requests
`CreateAndSaveFiles`; the task thread (`CreateGhost`, `WriteGhost`, `SaveBoard`, then
`Init`: `ReadFolder`, `ClearBoard`, `ReadBoard`, `ReadHeaders`) does one access to
storage per action, and the main thread may do anything between two of them:
`SaveRecord` only puts the task into the pool, and the next record may be set while the
one before is saved and the leaderboard re-read. `Quit` is `GhostManager::Reset`,
`ChooseCourse` the request of `ReadGhosts`, `PageAfterReading` what the wait page does
when it ends. Storage is a leaderboard file and a list of ghost files per course; a
ghost file that was created and not written is torn, and a power cut may leave it so. A
time stands for a whole ghost. `ValidHeaders` says which headers the loop of `Init`
leaves and in which order: the k-th is that of the k-th valid file (`Nth`). `spoiled`
records the five things after which the code itself gives a weaker guarantee; each
property says which of them it excludes, and holds in spite of the others.

### `RoomRules` (the rules of a friend room)

`menu` is the host's settings pages and its own Mii head setting, `rules` what each
console plays by, `mail` the ROOM packet on its way to each guest. `Send` and `Read` are
`BeforeSendingPackets` and `BeforeReadingPackets` with `Pack` and `ParseHostSettings`
bit by bit, so that "the rules are the host's" is a claim about two conversions and
about which message was read last. A guest may read late, miss a message that was
replaced, or play offline in between (`PlayOffline`: `SetAllInnerSettings`). The host
may change its pages at any time (`EditMenu`), in the middle of a session too, as the
players' page of every vote has a button to the settings
(`code/UI/Multiplayer/MultiPlayer.cpp:193`); what it changes is in force from the next
start on, but for the forced engine class, which `DecideCC` reads from the pages.
`Memory` is what the rules may be before the first message, from an earlier room or from
members that no constructor sets.

`RulesAsShown` compares the rules with the host's pages, not with what was packed, and
the race count with the menu's text. Three race counts and two settings do not come
through: of race counts above 16 and of Mii heads it says only that they are the same for
all, of the items nothing. What the texts say of them is in `PageAsShown`, which the code
violates. "Open Host" of the same pages goes to the matchmaking
(`code/Settings/MiscSettings.cpp:155`) and the track blocking is read by nothing: they
are no rules of a session. The start of a session, other messages
and the way back to the lobby are the game's (external). A message of type 5 has
handlers for both ends and no sender in the repository: `Talk` may send it.

### `TrackVoting` (the vote, the decision and the race)

Extends `RoomRules`, so that a vote runs under the rules a room was started
with. `packet` is `toSendPacket`; delivery of SELECT packets is a read of the
sender's packet (they are sent again and again, and only the last counts).
`OpenCups`, `ChooseCourse`, `TimeOut` are the pages; `Hear` brings a vote to the
host; `OpenVote` is `DecideCC`, with the engine class the pages force at that
moment (`menu.forceCC`); `DecideTrack` has one disjunct for each of its
three branches; `Follow` is a guest's import of the host's packet; `StartRace`
is `LoadCorrectTrack`; `Watch` is `GetCorrectSlot`; `EndSession` and `NextVote`
are the two outcomes of the comparison with `PatchRaceCount`. `decided` is a
history variable with what each decision was taken from.

Assumed of the game, whose code is not here: the host calls `DecideTrack` when
it has a vote of every available console and no course yet; it starts when every
console has a course; a race begins on all consoles together; a guest joins a
friend room in its lobby and a public room during a race, which it watches; a
console's session ends when its count of races reaches `raceCount`. The host
never leaves, as the game then ends the room; what was sent to a console before it
joined is not for it (`Join` empties its `mail`). Of the rooms' messages only the
start is here. `CourseAssumption` says what the vote relies on: no list is empty, no
group is without variants, and courses, groups and arenas are told apart.

### `RandomCombo` (the pages before the vote)

Extends `RoomRules`: `RoomStep` is any step of the room, which begins and ends the
votes. `vote` holds, per console, the page it is on, `menuState`
(`ChooseNextPage`'s state), whether the countdown still runs (`clock`), what it has
heard of the host's `selectId`, and its combo. `SetRandomCombo` rolls at most once a
vote, from the tick or, for the common combo, from the host's seed.
`AddCharacterSelectLayer` decides the next page in the order of the code's
conditions; `SettingsTimeOut` is the one page that leaves by its own rule
(`NewSettings::OnUpdate`). `Roulette` is a click of one of the three roulettes, which
take no input. A number stands for character and vehicle: it is what the two
indices are drawn from. Only the pages of the VS votes with one local player are
here.

Assumed of the game: the countdown ends the page that is up; the page its own pages
name next is the choice of the cup; a new vote either clears the received SELECT
packets or leaves the last ones there. `early` is a history variable: this console
rolled before it had the host's packet of this vote.

### `UserData` (what the file holds)

`file` is the buffer, `nand` the stored file, with the sections under their versions.
`Loaded` is `Init` on a file that was read; `Unread` is the cleared buffer of a failed
read. `Migrated` moves the settings of revision 14 and gives new ones their default.
`FinishGP` is `SaveGP` with the class update that follows, `FinishOnlineRace` the
score and its class update. A save is stored or lost as a whole here: whether it
reaches the file is `SettingsSave`'s question, and its `DurableCell` is what this
module assumes. `chosen` and `won` are history: what each player chose and last won;
`StoredAssumption` says that the first stored file agrees with them (`Agrees`: the
settings where its revision has them). The arithmetic keeps the code's widths: the new
score is an unsigned 32-bit sum, divided as two halves because TLC's own integers are
32 bits wide. The average of no cups is a division by zero, which on this processor
gives any number: `AverageRanks` allows both ends.

### `CupPages` (from a cup to a race)

`view` is the page and what it has drawn, `left` is `lastLeftCup`, `cup`
`lastSelectedCup`. Scrolling moves what the buttons show, sliding on the course page
moves `cup` and `left` and redraws the marked icon only, switching the sorting opens
the page again. `Wrapped` keeps the unsigned remainder: a negative sum wraps at
2^32 before the division. `Take` is `UpdateSelectedCourse` and, in a VS in order,
the list of races from that button on. Assumed of the game: a page's controls are
set up after its `OnActivate`, `curCupID` follows the cursor, and `clickedCupId` is
`lastSelectedCup` while the courses are up. `LayoutAssumption` is what the cup editor
writes: whole cups, and the same slots under either sorting
(`extra/CupCreator/src/editor/EditorBase.cpp:903`); a page has two rows of icons.

### `AdapterDriver` (the controller adapter)

`calls` are the asynchronous IOS calls that have no answer yet, by kind. Each
callback (`DeviceChange`, `AdapterInit`, `Poll` and their failures) is one action,
as callbacks do not interrupt each other; `CustomPADRead` is two (`ReadPads`,
`CopyPads`), because a callback may come between them. `DeviceChange` folds the loop
over the device list into what it leaves: how many changes it asks for, whether it
forgets its adapter, whether it greets one. `mStatus` is the device whose report it
holds. IOS is external: a call on a closed descriptor is refused at once, one on a
device that is gone fails or hangs, any other may fail. `forgotten` counts the
lists that made the driver forget an adapter.

### `IosCalls` (external)

The calls of both drivers into IOS are answered or fail, at most `MaxFailures` times.
`AdapterDriver` and `SDCard` extend it and share nothing else.

### `SDCard` (the card below FatFs)

`init` is how far `SDStorage::Init` has come, one action per call of it; `card` is
the card as it is, `rca` and `sdhc` what the code believes of it. The 4-bit bus and
the clock are part of `SelectCard`, the card's bus width of `SD_SetCardBlockSize`. A
transfer (`job`) is cut at every IOS call and between a command and its copy, as the
other thread may run there. A command reaches the card only if it is powered,
selected and set up, and means another sector if the code takes it for a card of the
other type. FatFs asks for any of `Requests` on any thread. `mixed` records that two
transfers met in `tmpBuffer` or on a sector, `overlap` that they met at all: then
the code promises less, and the properties say how much is left. Its specification is
`SDSpec`.

### `CourseAgreement` (what voting promises)

Rounds are decided one after the other, once and for all; a console that loads a
round's course loads the decided one. `TrackVoting` implements it.

## 4. Runs

| run | shows |
|---|---|
| `settings_save` | two edits, two descriptors, two blocks, the pool of two: all interleavings of two Saves, with errors, power cycles and a boot that cannot read: what is stored goes back only to the defaults of such a boot; under fairness of both threads a requested save reaches the file or something was spoiled |
| `ghost_courses` | two courses, two ranks, races that end while the task thread saves the record before or re-reads what it saved, early returns to the menus, power cuts: records stay with their course and their ghost, leaderboards stay sorted and no stored one gets worse |
| `ghost_wait` | every access to storage may fail, ghosts may be torn: list, header and file stay aligned, the wait page ends under a fair task thread, and a freed list is only used after an early return to the menus |
| `user_data` | files of this release, the last one and one to come, an unreadable one; two licences, lists of three and two cups, Grands Prix, online races, lost saves, power cycles: settings and trophies stay their owner's, classes for cups are earned |
| `random_combo` | host and guest, two sessions under pages that differ in every packed field or one after another message, guests that read late or play offline, pages changed in mid-vote, all ways through the pages of a vote: both play by what the pages showed when the session began, a forced combo is rolled once and shown, a common one is common, the countdown brings everyone to the vote |
| `vote_public` | two rounds of a public room with a guest that leaves and comes back to watch: one course a round, from a vote of that round; under fairness every vote ends; refinement of `CourseAgreement` |
| `vote_room` | a friend room, VS or battle, an engine class that is rolled or, by the other page, forced, a group of variants, two track lists, "Host always wins" |
| `cup_pages` | two lists, two sortings, groups with variants, three modes: the marked cup is the listed one, the chosen course is on the list, a Grand Prix is saved for the cup that was raced |
| `adapter` | an adapter and other devices plugged in any order, calls that fail or hang: the pads are set aside only for a poll on its way, a chain more only for a list that made the driver forget, an unplugged adapter does not stay on screen, a found one is used |
| `sd_card` | a card of either type, started by IOS, by hand or not at all, pulled out and put in, two transfers of two threads, a failing command, power cycles: a success is the whole transfer, an error has a reason, only sectors a write asked for change |
| `room_page` | violation: a session whose race count, Mii heads and items are not what the texts of its host's page say |
| `vote_host_random` | violation: a vote without an end |

Facts about single functions are not runs: they are assumptions of the MC modules, which
TLC evaluates before a run, and theorems for every value. `PackedRulesComeBack`
(`MCRandomCombo`, proved in `RoomRulesProofs`): every page comes back from the sixteen
bits, with the host's own Mii heads. `EveryVariantOffered` (`MCCupPages`, proved as
`VariantsOfferedOnce`): the sub-pages of a group show every variant once.
`ScoreIsAverage` and `LateScoresBest` (`MCUserData`, proved as `AverageIsWeighted` and
`LateRaceScoresBest`): what the online score computes, at its ends too.

`TypeOK` of `SettingsSave` is the one type invariant in a run's list; those of the
other modules are proved.

### What the violations show

- `raceCounts` (`code/Network/MiscNetwork.cpp:87`) lacks 24: the options shown as
  24, 32 and 64 races give 32, 64 and 0.
- "Allow Mii Heads" is never read: the bit that is sent is the host's own Mii head
  setting (`code/Network/MiscNetwork.cpp:124`), so that heads are allowed or forced off
  whatever the page shows.
- "All items can land" of the host page has no bit in the message, and nothing sets
  `allItemsCanLandOnline` from it (`code/Settings/UserData.hpp:591`): only some items
  land whatever the page shows.
- Under "Host always wins" a host vote of 0xFF is compared with a random track
  where it should become one (`code/Network/RKNetControllerPlus.cpp:116`): the
  room stays without a decision.

### What was noticed while modelling

No run is needed, or able, to show these; the models follow the code in each of
them.

- A boot that cannot read the save file writes the defaults over it
  (`code/Settings/UserData.cpp:180`): what the player had is lost. `StoredNeverRegresses`
  and `ImplementsDurableCell` say that nothing else takes the file back.
- Without any storage to save to, `CreateStaticInstance` uses a manager that was never
  set (`code/FileManager/FileManager.cpp:31`).
- `AddTrackToBlocking` (`code/SlotExpansion/CupManager.hpp:154`) evaluates its slot
  and stores nothing, so no track is ever blocked.
- A host that never opened its cup page draws its random course from the track list
  of its last menus (`code/UI/CupSelect/CupSelect.cpp:189`), which is why `OnTheList`
  is stated for a layout that matches the room's.
- `mainGhostIndex` is the number of headers less one (`code/Ghost/GhostManager.cpp:333`):
  after a save that finds no ghost, which needs a failed storage or a full listing, it is
  0xFFFFFFFF and not the 0xFF that means none.
- `SetUserBR` writes the versus rating (`code/Settings/UserData.hpp:527`).
- The score of a race is computed from an unsigned difference
  (`code/Settings/UserData.cpp:395`): a player later than 5/4 of the leader's time
  gets the best score; a new score below zero becomes a huge one (`:422`).
- `LicenseClassUpdate` counts the cups under the list of the moment
  (`code/Settings/UserData.cpp:448`): after an online race on a shorter list they may
  be another licence's, which `ClassEarned` exempts.
- `VSRaceRandomFix` (`code/SlotExpansion/SlotExpansion.cpp:164`) looks a group up by
  the number of its slot and gets no track; `ChosenIsOnList` exempts the missing
  track.
- `lastSelectedCup` survives a change to a list that is shorter
  (`code/UI/CupSelect/CupSelect.cpp:192`); the page that opens then marks a cup the
  list does not have until the player moves.
- Another slide to the left than the cups are many takes `lastLeftCup` below minus
  one turn (`code/UI/CupSelect/CourseSelect.cpp:86`), where the sum wraps at 2^32 and
  the remainder shifts when the number of cups does not divide it; `far` records it.
- A list whose only adapter stands behind another device makes the driver forget the
  adapter and greet it again while its first chain of polls runs
  (`code/System/WUP028.cpp:230`).
- A console that rolls the common combo before the host's packet of this vote has
  come rolls another than the rest (`code/UI/Multiplayer/MultiPlayer.cpp:130`);
  `early` records it.
- `SD_Reinitialize` keeps the card's address in a local only
  (`code/Storage/disc/SD.cpp:142`): a card it brings up is used only if it publishes
  the address of the reset before. `SD_WaitHCR` returns a bool as a status (`:183`).
- Two transfers of two threads that are not aligned share `tmpBuffer`
  (`code/Storage/disc/SD.cpp:298`) and may exchange their data, and one deselects the
  card under the other; `mixed` and `overlap` record it.

### Bounds

`MaxEdits` = 2 gives three versions of the user data, enough for an old, a requested and
a newer one; `MaxUnread` = 1 lets the defaults take the place of what was stored once,
with all edits and saves before and after; two descriptors let one leak and one still be
open; `MaxBlocks` = 2 lets a race append to the file. The pool depth 2 is the code's.
The proofs are for any of these numbers.

Ghosts: two ranks and two times show insertion before, behind and at an equal time,
the shift and the loss; a folder of two listed files and a list of one exceed both
limits (`MaxFiles` = 100 and 38 in the code); `MaxGhosts` counts the ghost
files of all courses that a race may find, and with two in both runs a record may be
set on a course while the task thread re-reads it after the record before; in
`ghost_wait` they let a torn ghost come before a valid one.

User data: two licences and lists of three and two cups are the smallest instance
in which a cell of one licence, read under the shorter list, is the cell of another.
`MaxEvents` = 2 lets a race follow a change of list or of settings; starts, power
cycles and changes of licence are not counted. The stored files give every branch
of `Init`; a licence one race away from each kind of class is among them.

Cup pages: six cups of two slots and a list of four, with four icons on a page:
a page shows less than the list in one case and exactly the list in the other.
`MaxLeft` = 12 is two turns of the longer list, so that `lastLeftCup` comes to the
sum that wraps.

Adapter: two identities of one adapter and two other devices, in eight orders, and
two changes: pulled out and plugged in again, or joined by a device that is listed
before it. One spontaneous failure is enough as the driver never opens its
descriptor again. `Timeout` = 1 separates a fresh report from a late one.

SD card: four sectors and a buffer of two, so that a transfer of three has two
chunks and an address in bytes falls outside the card; two transfers after the
mount overlap in every order, with one failing command and one swap.

Rooms: `MaxMessages` = 2 gives two sessions, of which the second meets the rules of the
first, under two pages that differ in every packed field, or another message and a
session, whose start replaces it or is preceded by it. `Memory` leaves either value in
`vote_room`; in `random_combo`, where all are off, the rules of the first session are
the old ones of the second. `random_combo` has one guest: guests do not read each
other's packets. Two values of the tick give two combos. `MaxRounds` = 2 lets a vote, a
packet, a course or a blocked track of the first round reach the second; a blocking list
of two instead of sixteen is longer than that. The votes have one guest: guests act on
the host and on a console that watches, never on each other. Three consoles are out of
reach of a short run with two rounds.

### Fairness

The task thread has the lowest priority but the main thread waits for the retrace in
every frame, and IOS answers every call: weak fairness of starting and finishing a
task and of each thread's next call. In a vote, countdowns (`TimeOut`), packets
(`Hear`, `Follow`, `ReadRoom`), the host's decision and the start and end of a race
are weakly fair. In `random_combo` only the countdown and the end of the page it finds
are: nobody has to press a key. In `adapter` IOS answers calls on devices that are
there and tells of changes, frames and time go on; a call on a device that is gone may
hang for ever, and no failure is owed. Nothing is assumed of players: that they edit,
choose, join or leave; nor of the power or of which outcome IOS chooses.

## 5. Proofs

All proofs are for any value of the constants that satisfies the named assumptions of
the module (`HandlesAssumption`, `RoomAssumption`, `CourseAssumption` and so on), which
TLC evaluates in the runs; nothing else is assumed. The bounds of section 4
(`MaxEdits`, `MaxRounds`, ...) are among those constants, so that a theorem holds
however large they are. Each module has the same order: the inductive invariant,
lemmas about the operators, one lemma per action or per part of the invariant, the
invariance, and the properties as its consequences. Every invariant was checked by TLC
on the instances of the runs before it was proved.

### `SettingsSaveProofs`

Type correctness, `NoHandleLeak`, `NoSilentLoss`, `StoredNeverRegresses`,
`SavesInPlace` and the refinement of `DurableCell`. The inductive invariant `IInv` adds
to the properties: the running task is the head of the pool; every version in the file
is at most the one in memory and the requested one is between them, in the order of
eras and, within one, of edits (`NewerOrder`); only a boot that could not read separates
the eras of memory and file (`EraOfBoot`); unless Saves
overlapped, at most one thread is in `Save`; a Save at its write holds an open
descriptor at offset 0 unless IOS refused its Open.

### `RoomRulesProofs`

`PackedRulesComeBack`: each field of the sixteen bits is a digit of the number that
`Pack` adds up, and `ParseHostSettings` takes it off again, next to the one rule the
number does not have. `RulesAsShown` needs two things besides, also for the race counts
and Mii heads that are only the same for all: a packet on its way that carries rules
carries those of the session it belongs to (`PacketsCarryRules`), so that a late reader
does no harm, and the host is in the last of its sessions (`HostInv`).

### `RandomComboProofs`

`ComboInv` is the invariant of the room with three parts of its own. `OnItsWay` says,
per console, what was rolled and shown at each page and menu state; it is what makes
`ForcedIsShown` true, as a countdown may end in any of them. `FromSeed` and `HeardSame`
say what a common combo was rolled from, and that who heard the host in this vote heard
one number: `SameCombo` follows though nobody compares combos. `RolledOnce` is an action
property: no step of a vote changes a combo that was rolled.

### `DriverProofs`

The two drivers that work by IOS calls, from `IosAssumption` and each one's own.

The adapter: `AdapterInv` is `WorkingIsPolled` and `ListensUntilFound` as they stand; an
adapter that is known has a chain of calls; there are at most as many chains as lists
that made the driver forget one, and one more while it knows one; and it forgets at most
one per list. A callback replaces one call of its chain by one other, or ends it.

The card: `AnswerIsTrue` and `WritesStayInside` for any number of threads, any size of
card, sector and `tmpBuffer`, any requests. `SDInv` is what they need to be inductive:

- `JobTypes`: where a transfer is in its loop says how much of it is through.
- `UnitKnown`: from `select` on, `sdhc` is the type of any card that answers. A card that
  was put in later has no address and answers nothing. With `BytesBack` (a byte address
  leads back to its sector) and `WrittenInside`, a command reaches the sectors it means,
  and no write leaves its request: this is `WritesStayInside`.
- `DataKept`: what of a transfer is through is on the card, and its chunk in `tmpBuffer`
  is still its own, unless it is `mixed`. Another transfer that breaks either shares the
  buffer or the sectors, and by `PairsKnown` both then know. A read that meets a read may
  share sectors: neither writes (`OthersRight`).
- `Healthy`: while nothing failed and nobody touched the card, one that came through the
  start has the address it is selected by. `SD_Reinitialize` does not keep the address
  the card publishes; it is `SD_SetCardBlockSize`, which only a selected card answers,
  that lets no other card through to the mount.
- `Scheduled`: only the boot sector is read during the mount, so the steps of the start
  disturb no transfer.
- `FailureExplained`: the half of `AnswerIsTrue` about errors.

### `TrackVotingProofs`

`VotingInv` is the invariant of the room and: who knows a decision knows that of its own
round (`CourseInv`); the host votes on the round after the last (`HostRound`); no console
has counted more races than there were rounds (`RaceCounted`); two that know a decision
know its engine class (`EngineInv`); what the host has heard in this vote is still what
the guest chose (`HeardInv`). From it `SameCourse` and `SameEngine`. `DecidedByAVote`
and `HostAlwaysWins` are about the history: `RightDecision` holds of the entry that
`DecideTrack` makes, in each of its branches, and no step changes an older one. The
refinement of `CourseAgreement` goes step by step: `DecideTrack` decides,
`StartRace` and `Watch` load, everything else stutters or lets go.

`OnTheList` is about friend rooms: a decision is on the room's list because everybody
who votes is in the host's session. That takes who is where: a start message on its
way is the last one sent and whoever can read it is waited for (`MailInv`), who races
another session races its last race (`StageInv`), and a guest in the host's session is
on the host's round or opens the next one first (`Lockstep`). The proof showed that a
guest that joins must not find an older start message, which the game's connection
sees to.

### `CupPagesProofs`

`IconIsCup`, `ChosenIsOnList`, `SavedCupIsRaced` for any number of cups and icons.
`CupInv` says per page what it has drawn: a row of cups that begins with the leftmost
(`CupsOnPage`), the icon that shows the cup and the courses of that cup (`IconMarked`,
`CupIsChosen`), a group of the list (`GroupOnLayout`), and what a race was taken from
(`ChoiceOnList`, `RandomOnLayout`, `CupIsRaced`). The arithmetic is in lemmas about
remainders (`ModIs`, `ModOfSum`, `ModOfTurn`); `IconOfCup` is the one that matters: the
icon a cup is marked on is the one that shows it, as long as `lastLeftCup` is within a
turn. `VariantsOfferedOnce` is about the pages of a group: rows of `CupSize` make up the
list (`Rows`), so each choice has one button and no page is empty.

### `GhostRecordsProofs`

All invariants of `GhostRecords` and `StoredNeverWorse`. `GhostInv` says where the task
thread is (`PlaceInv`: its first task tells), that a wait for ghosts is the last request
and that only records are saved while somebody races (`PoolInv`), that the listing is of
files there are and about one course with the manager (`FolderInv`, `CourseInv`), when
the headers may be freed (`FilesInv`), that a leaderboard in use is never behind its file
(`BoardInv`), that a created file is torn until it is written (`TornInv`), and that every
entry in use has its ghost or is the record that is still to be written (`EntriesInv`).
The lemmas about operators are `InsertFacts` (a time at its `Position` keeps the board
sorted, makes no rank worse, and brings in no other time), `HeadersAre` (the headers are
those of the valid files, each once; their number by a bijection) and `GhostsStay` (no
step takes a ghost away but the one that writes the torn file).

### `UserDataProofs`

`SettingsKept`, `TrophiesAreOwn` and `ClassEarned`. `DataInv` adds to the first two that
the buffer is of this release (`IsCurrent`) and that the stored file agrees with the
history (`Agrees`), which is what a power cycle needs: it may come before the migrated
file was stored, or find it unreadable. `MigratedTo` says where each setting of an older
revision ends up; `CellsApart` that no two licences share a cell of the array under the
full list, for any number of cups; `ClassIsEarned` that the cups and ranks counted under
the full list are the licence's own and never none; what is counted after an online race
on a shorter list is exempted. The sum of the ranks is not computed: both sides of
`ClassEarned` are shown to sum the same function.

What `UpdateOnlineScore` computes is in three theorems about every race, from lemmas about
32-bit words held as two halves (`HalvesDivided`, `HalvesOfWord`, `DifferenceDivided`):
`ScoreInTime` for who finishes within five quarters of the leader's time,
`LateRaceScoresBest` for who finishes later and gets the best score, and
`AverageIsWeighted` for the average and what becomes of a negative sum. The hypotheses of
the first two keep the numbers in the range of the code's words: twenty hours of play
for the one, ten hours and fewer points of penalty than 2^31 over the limit for the
other.

### What is only model-checked

- Liveness: `RequestedIsSaved`, `WaitEnds`, `EveryVoteEnds`, `VotesReached`,
  `UnpluggedIsSeen`, `FoundIsUsed` rest on fairness, whose ENABLED the prover does not
  expand.
- Nothing else: the facts about single functions that section 4 names are theorems too.

## 6. Not modelled

Of the modelled parts: the Aurora metadata of ghosts and the ghosts loaded from a
buffer (their callers are not in the repository), the 150 and 200 cc modes side by
side (the code keeps them apart by an index), star ranks in race headers, the reports
to WiiLink, the pages of battle and two-player votes, the bytes of an adapter's report
and its rumble message (defined, never sent), version 5 of the USB module (its
initialisation is commented out), the registers of the SD host controller, the parsing
of the cup file, the highlighted course button. In a friend room the host cannot offer
the forced mirror class (`code/Settings/UserData.cpp:77` has three options), but the
code of `DecideCC` for it is modelled.

Of the parts that are not modelled:

- WiiLink authentication: the server, its payload and what that payload does are
  outside the repository; the code here is one request and its callback, and a model
  would restate their order.
- Archives, language files, loader: run once at start-up, on one thread.
- Message windows: shown one at a time at boot, each closed by its button.
- Frame skip: assembly around the game's own loop, whose state is not here.
- Race, sound and physics patches: they change state of the game only.
- Drawing, layout, debug screens, rich presence: display.
- Cryptography, FatFs, LZMA, build tools, the CupCreator desktop tool, the headers
  that describe the game: vendored, third-party, or run off the console.

The headers of the game (`include/`), vendored code and the CupCreator tool are the
larger part of the files under `src/`; the mod's own code is `code/`, about
18,000 lines, most of it drawing, page layout and patches of the game's state.
