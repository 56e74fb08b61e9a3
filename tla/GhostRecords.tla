---------------------------- MODULE GhostRecords ----------------------------
(***************************************************************************)
(* Time trial records of one mode: the ghosts of a course, its leaderboard *)
(* and the two threads that share them.                                    *)
(*                                                                         *)
(* The end-of-race page edits the leaderboard and the ghost buffer on the  *)
(* main thread and leaves the writing to CreateAndSaveFiles on the task    *)
(* thread, which then reads everything again (Init).  The course select    *)
(* page leaves the reading to ReadGhosts on the same thread and waits.     *)
(* The main thread preempts the task thread anywhere: an action of the     *)
(* task thread is one access to a file, with the code around it.           *)
(***************************************************************************)
EXTENDS Integers, Sequences, FiniteSets

CONSTANTS
  Courses, NoCourse,  \* NoCourse: courseId = -1
  Freed, NoFile,      \* no header array; no leaderboard file
  Ranks,              \* ENTRY_1ST..ENTRY_5TH
  ListSize,           \* entries of the page's list: 38
  MaxFiles,           \* files a folder listing holds: MAXFILECOUNT, 100
  Depth,              \* tasks the task thread holds: 2
  StorageFails,       \* whether an access to storage may fail
  MaxTime, MaxLap,    \* bound: race times and lap times; 0 is no time
  MaxGhosts           \* bound: no race ends when storage has so many ghost files

ASSUME SizeAssumption ==
  /\ Ranks \in Nat \ {0} /\ Depth \in Nat \ {0}
  /\ ListSize \in Nat /\ MaxFiles \in Nat \ {0}
  /\ StorageFails \in BOOLEAN
  /\ MaxTime \in Nat /\ MaxLap \in Nat /\ MaxGhosts \in Nat

VARIABLES
  screen,    \* where the player is
  track,     \* CupManager's course
  courseId,  \* GhostManager::courseId
  board,     \* GhostManager::leaderboard, its times of this mode
  rkg,       \* GhostManager::rkg: the time of the ghost in it, 0 for none
  folder,    \* FolderManager: the course of folderName, and fileCount
  files,     \* GhostManager::files: per header its time and file index
  main,      \* mainGhostIndex, from 1; 0 is its 0xFF, -1 its 0xFFFFFFFF
  list,      \* the headers in the ghost list of the select page
  race,      \* the ghost the player picked and the one loaded
  pool, pc,  \* the task thread's tasks and its place in the head one
  cur,       \* the argument of the Init under way
  boards,    \* storage: the leaderboard file of each course
  ghosts,    \* storage: the ghost files of each course, 0 for a torn one
  spoiled    \* what has gone wrong since boot, see Spoil

manager == <<courseId, board, rkg, folder, files, main>>
storage == <<boards, ghosts>>
vars == <<screen, track, manager, list, race, pool, pc, cur, storage, spoiled>>

Times == 0..MaxTime
Laps == 0..MaxLap
Board == [rank : [1..Ranks -> Times], flap : Laps]
Headers == Seq([time : Times \ {0}, padding : Nat \ {0}])

ASSUME NoneAssumption ==
  NoCourse \notin Courses /\ Freed \notin Headers /\ NoFile \notin Board

NoGhost == [picked |-> 0, loaded |-> 0]
EmptyBoard == [rank |-> [i \in 1..Ranks |-> 0], flap |-> 0]

\* "overlap": a record was set while an earlier one was still being saved.
\* "reset": the menus re-created the manager while a record was being saved.
\* "crowded": the task thread had no room for a request.  "ioError": storage
\* refused an access.  "noGhost": the ghost of a record could not be made.
\* None of them is reported, or undone, by the code.
Spoils == {"overlap", "reset", "crowded", "ioError", "noGhost"}
Spoil(why) == spoiled' = spoiled \union why
Failure == StorageFails /\ Spoil({"ioError"})

\* The ghost files of all courses.
GhostFiles == UNION {{c} \X (1..Len(ghosts[c])) : c \in Courses}

SavingRecord == \E i \in 1..Len(pool) : pool[i] = "CreateAndSaveFiles"

Request(task) ==
  pool' = IF Len(pool) < Depth THEN Append(pool, task) ELSE pool
Overlap == IF SavingRecord THEN {"overlap"} ELSE {}
Crowding == IF Len(pool) < Depth THEN {} ELSE {"crowded"}

-----------------------------------------------------------------------------
(* The leaderboard.                                                         *)

\* Timer::operator>: `entry` gives way to `time`, equal times included.
GivesWay(entry, time) == entry = 0 \/ time <= entry

\* (wrong variant) The scan ends at the first rank that gives way.
PositionStops(b, time) ==
  LET beaten == {i \in 1..Ranks : GivesWay(b.rank[i], time)}
  IN  IF beaten = {} THEN 0
      ELSE CHOOSE i \in beaten : \A j \in beaten : i >= j

\* GetLeaderboardPosition scans from the last rank to the first; 0 is none.
Position(b, time) ==
  LET beaten == {i \in 1..Ranks : GivesWay(b.rank[i], time)}
  IN  IF beaten = {} THEN 0
      ELSE CHOOSE i \in beaten : \A j \in beaten : i <= j

\* Update at a rank: the entries from it move down by one, the last is lost.
Insert(b, i, time) ==
  [b EXCEPT !.rank = [j \in 1..Ranks |->
     IF j < i THEN b.rank[j] ELSE IF j = i THEN time ELSE b.rank[j - 1]]]

-----------------------------------------------------------------------------
Init ==
  /\ screen = "course" /\ track \in Courses
  /\ courseId = NoCourse /\ board = EmptyBoard /\ rkg = 0
  /\ folder = [course |-> NoCourse, count |-> 0]
  /\ files = Freed /\ main = 0 /\ list = {}
  /\ race = NoGhost
  /\ pool = <<>> /\ pc = "Idle" /\ cur = NoCourse
  /\ boards = [c \in Courses |-> NoFile]
  /\ ghosts = [c \in Courses |-> <<>>]
  /\ spoiled = {}

(* The main thread: the player's way through the pages.                     *)

\* Course select: the wait page comes up, the ghosts are to be read.
ChooseCourse(c) ==
  /\ screen = "course"
  /\ screen' = "wait" /\ track' = c
  /\ Request("ReadGhosts") /\ Spoil(Crowding)
  /\ UNCHANGED <<manager, list, race, pc, cur, storage>>

BackToCourses ==
  /\ screen = "select" /\ screen' = "course"
  /\ UNCHANGED <<track, manager, list, race, pool, pc, cur, storage, spoiled>>

RaceAlone ==
  /\ screen = "select" /\ screen' = "race"
  /\ race' = NoGhost
  /\ UNCHANGED <<track, manager, list, pool, pc, cur, storage, spoiled>>

\* (wrong variant) Headers are numbered like the files they were read from.
GhostFileUnmapped(h) == ghosts[folder.course][h]

\* LoadGhost: the file that header h was read from.
GhostFile(h) == ghosts[folder.course][files[h].padding]

\* Run or watch press: EnableGhost, then LoadGhostReplay reads the file again.
RaceGhost(h) ==
  /\ screen = "select" /\ h \in list
  /\ screen' = "race" /\ main' = h
  /\ \/ /\ race' = [picked |-> files[h].time, loaded |-> GhostFile(h)]
        /\ UNCHANGED spoiled
     \/ race' = [race EXCEPT !.picked = files[h].time] /\ Failure
  /\ UNCHANGED <<track, courseId, board, rkg, folder, files, list>>
  /\ UNCHANGED <<pool, pc, cur, storage>>

\* (wrong variant) The page writes the leaderboard itself, on the main thread.
SaveRecordAtOnce ==
  /\ Request("CreateAndSaveFiles") /\ UNCHANGED ghosts
  /\ boards' = IF courseId \in Courses /\ boards[courseId] # NoFile
                 THEN [boards EXCEPT ![courseId] = board'] ELSE boards

\* A record is saved later, by the task thread.
SaveRecord == Request("CreateAndSaveFiles") /\ UNCHANGED storage

\* PatchBeforeInAnim: a best lap, a rank, both or neither.  Whatever is to be
\* saved needs the ghost of the race; without it the best lap stays in memory.
FinishRace(time, lap) ==
  LET flap == GivesWay(board.flap, lap)
      lapped == [board EXCEPT !.flap = IF flap THEN lap ELSE @]
      rank == Position(board, time)
  IN
  /\ screen = "race" /\ Cardinality(GhostFiles) < MaxGhosts
  /\ screen' = "result"
  /\ IF flap \/ rank > 0
       THEN \/ /\ rkg' = time
               /\ board' = IF rank > 0 THEN Insert(lapped, rank, time)
                           ELSE lapped
               /\ SaveRecord /\ Spoil(Crowding \union Overlap)
            \/ /\ board' = lapped /\ rkg' \in {rkg, 0}
               /\ Spoil({"noGhost"} \union Overlap)
               /\ UNCHANGED <<pool, storage>>
       ELSE board' = lapped /\ UNCHANGED <<rkg, pool, storage, spoiled>>
  /\ UNCHANGED <<track, courseId, folder, files, main, list, race, pc, cur>>

Retry ==
  /\ screen = "result" /\ screen' = "race"
  /\ UNCHANGED <<track, manager, list, race, pool, pc, cur, storage, spoiled>>

\* The menu scene is left or entered: it creates its pages, and with them
\* CreateStaticInstance resets the manager.
Quit ==
  /\ screen \in {"course", "select", "race", "result"} /\ screen' = "course"
  /\ courseId' = NoCourse /\ files' = Freed /\ main' = 0
  /\ race' = NoGhost
  /\ Spoil(IF SavingRecord THEN {"reset"} ELSE {})
  /\ UNCHANGED <<track, board, rkg, folder, list, pool, pc, cur, storage>>

\* SettingsHolder::RequestSave uses the same task thread; it is called in the
\* menus (the ratings of SaveVR do not come from time trials).
RequestSave ==
  /\ screen = "course"
  /\ pool' = Append(pool, "SaveTask") /\ Len(pool) < Depth
  /\ UNCHANGED <<screen, track, manager, list, race, pc, cur, storage, spoiled>>

-----------------------------------------------------------------------------
(* The task thread.                                                         *)

EndTask == pc' = "Idle" /\ pool' = Tail(pool)

\* (wrong variant) The leaderboard is written before the ghost.
BoardFirst(task) ==
  CASE task = "CreateAndSaveFiles" -> "SaveBoard"
    [] task = "ReadGhosts" -> "Init"
    [] task = "SaveTask" -> "SaveTask"

FirstStep(task) ==
  CASE task = "CreateAndSaveFiles" -> "CreateGhost"
    [] task = "ReadGhosts" -> "Init"
    [] task = "SaveTask" -> "SaveTask"

StartTask ==
  /\ pc = "Idle" /\ pool # <<>> /\ pc' = FirstStep(Head(pool))
  /\ UNCHANGED <<screen, track, manager, list, race, pool, cur, storage>>
  /\ UNCHANGED spoiled

RunSaveTask ==
  /\ pc = "SaveTask" /\ EndTask
  /\ UNCHANGED <<screen, track, manager, list, race, cur, storage, spoiled>>

\* CreateAndSaveFiles: a new, still empty file in the listed folder.  When it
\* cannot be opened nothing is written, but the metadata may still create it.
CreateGhost ==
  /\ pc = "CreateGhost"
  /\ LET created == ghosts' = [ghosts EXCEPT ![folder.course] = Append(@, 0)]
     IN  \/ /\ folder.course \in Courses /\ created
            /\ pc' = "WriteGhost" /\ UNCHANGED spoiled
         \/ /\ Failure /\ pc' = "SaveBoard"
            /\ UNCHANGED ghosts \/ (folder.course \in Courses /\ created)
  /\ UNCHANGED <<screen, track, manager, list, race, pool, cur, boards>>

\* The new file holds the ghost in the shared buffer.
LastWritten(course) == [course EXCEPT ![Len(course)] = rkg]

\* (wrong variant) The leaderboard is not saved with the ghost.
WriteGhostOnly ==
  /\ pc = "WriteGhost" /\ pc' = "Init"
  /\ \/ /\ ghosts' = [ghosts EXCEPT ![folder.course] = LastWritten(@)]
        /\ UNCHANGED spoiled
     \/ Failure /\ UNCHANGED ghosts
  /\ UNCHANGED <<screen, track, manager, list, race, pool, cur, boards>>

\* The ghost is written; then its metadata, appended.
WriteGhost ==
  /\ pc = "WriteGhost" /\ pc' = "SaveBoard"
  /\ \/ /\ ghosts' = [ghosts EXCEPT ![folder.course] = LastWritten(@)]
        /\ UNCHANGED spoiled
     \/ Failure /\ UNCHANGED ghosts
  /\ UNCHANGED <<screen, track, manager, list, race, pool, cur, boards>>

\* GhostLeaderboardManager::Save opens an existing file, of courseId's folder.
SaveBoard ==
  /\ pc = "SaveBoard" /\ pc' = "Init"
  /\ IF courseId \in Courses /\ boards[courseId] # NoFile
       THEN \/ /\ boards' = [boards EXCEPT ![courseId] = board]
               /\ UNCHANGED spoiled
            \/ Failure /\ UNCHANGED boards
       ELSE UNCHANGED <<boards, spoiled>>
  /\ UNCHANGED <<screen, track, manager, list, race, pool, cur, ghosts>>

\* GhostManager::Init of the selected course.  ReadGhosts spins until the wait
\* page has the focus.
InitManager ==
  /\ pc = "Init" /\ (Head(pool) = "ReadGhosts" => screen = "wait")
  /\ pc' = "ReadFolder" /\ cur' = track
  /\ courseId' = track /\ files' = Freed /\ main' = 0
  /\ UNCHANGED <<screen, track, board, rkg, folder, list, race, pool>>
  /\ UNCHANGED <<storage, spoiled>>

\* Directories are not listed, files beyond the limit neither; a failure
\* leaves the last listing (NAND, SD) or an empty one (Riivolution).
ReadFolder ==
  /\ pc = "ReadFolder" /\ pc' = "ClearBoard"
  /\ LET found == IF Len(ghosts[cur]) < MaxFiles THEN Len(ghosts[cur])
                  ELSE MaxFiles
     IN  \/ folder' = [course |-> cur, count |-> found] /\ UNCHANGED spoiled
         \/ /\ folder' \in {folder, [course |-> cur, count |-> 0]}
            /\ Failure
  /\ UNCHANGED <<screen, track, courseId, board, rkg, files, main>>
  /\ UNCHANGED <<list, race, pool, cur, storage>>

\* The constructor of the leaderboard clears it before it reads the file.
ClearBoard ==
  /\ pc = "ClearBoard" /\ pc' = "ReadBoard" /\ board' = EmptyBoard
  /\ UNCHANGED <<screen, track, courseId, rkg, folder, files, main>>
  /\ UNCHANGED <<list, race, pool, cur, storage, spoiled>>

\* (wrong variant) The headers are allocated by Reset only.
ReadBoardKeepsFiles ==
  /\ pc = "ReadBoard" /\ pc' = "ReadHeaders"
  /\ IF boards[cur] # NoFile THEN board' = boards[cur] /\ UNCHANGED boards
     ELSE boards' = [boards EXCEPT ![cur] = EmptyBoard] /\ UNCHANGED board
  /\ UNCHANGED <<screen, track, courseId, files, rkg, folder, main>>
  /\ UNCHANGED <<list, race, pool, cur, ghosts, spoiled>>

\* The rest of the constructor, and the headers' allocation.  A file that is
\* missing, or cannot be read, is replaced by an empty one.
ReadBoard ==
  /\ pc = "ReadBoard" /\ pc' = "ReadHeaders" /\ files' = <<>>
  /\ \/ /\ boards[cur] # NoFile /\ board' = boards[cur]
        /\ UNCHANGED <<boards, spoiled>>
     \/ /\ UNCHANGED board
        /\ (boards[cur] = NoFile /\ UNCHANGED spoiled) \/ Failure
        /\ boards' = [boards EXCEPT ![cur] = EmptyBoard]
     \/ Failure /\ UNCHANGED <<board, boards>>
  /\ UNCHANGED <<screen, track, courseId, rkg, folder, main>>
  /\ UNCHANGED <<list, race, pool, cur, ghosts>>

\* The k-th of a set of file indices.
Nth(indices, k) == CHOOSE i \in indices : Cardinality(indices \intersect (1..i)) = k

\* The headers of the valid files among those that could be read, in order.
ValidHeaders(unread) ==
  LET file == ghosts[folder.course]
      valid == {i \in 1..folder.count : i \notin unread /\ file[i] # 0}
  IN  [k \in 1..Cardinality(valid) |->
         [time |-> file[Nth(valid, k)], padding |-> Nth(valid, k)]]

\* (wrong variant) The last header is never listed.
ShownButLast(headers) == {i \in 1..(Len(headers) - 1) : i <= ListSize}

\* The list takes the first headers of the directory, then sorts them by time.
Shown(headers) == {i \in 1..Len(headers) : i <= ListSize}

\* (wrong variant) The wait page is only ended when there is a ghost to show.
PageAfterReadingAny(headers) == IF headers = <<>> THEN "wait" ELSE "select"

\* ReadGhosts ends the wait page; the select page comes next.
PageAfterReading(headers) == "select"

\* The loop of Init over the files, each read into rkg, and what follows it.
\* Without the header array (Quit freed it) the first header is a wild write.
ReadHeaders(unread) ==
  /\ pc = "ReadHeaders" /\ (files = Freed => folder.count = 0)
  /\ LET headers == ValidHeaders(unread) IN
     /\ files' = IF files = Freed THEN Freed ELSE headers
     /\ rkg' = IF folder.count = 0 THEN rkg
               ELSE IF folder.count \in unread THEN 0
               ELSE ghosts[folder.course][folder.count]
     /\ IF Head(pool) = "ReadGhosts"
          THEN /\ list' = Shown(headers) /\ screen' = PageAfterReading(headers)
               /\ UNCHANGED main
          ELSE /\ main' = IF headers = <<>> THEN -1 ELSE Len(headers)
               /\ UNCHANGED <<list, screen>>
  /\ EndTask
  /\ IF unread = {} THEN UNCHANGED spoiled ELSE Failure
  /\ UNCHANGED <<track, courseId, board, folder, race, cur, storage>>

ReadFreedHeaders ==
  /\ pc = "ReadHeaders" /\ files = Freed /\ folder.count > 0
  /\ pc' = "crashed"
  /\ UNCHANGED <<screen, track, manager, list, race, pool, cur, storage>>
  /\ UNCHANGED spoiled

PowerCycle ==
  /\ screen' = "course" /\ UNCHANGED track
  /\ courseId' = NoCourse /\ board' = EmptyBoard /\ rkg' = 0
  /\ folder' = [course |-> NoCourse, count |-> 0]
  /\ files' = Freed /\ main' = 0 /\ list' = {}
  /\ race' = NoGhost
  /\ pool' = <<>> /\ pc' = "Idle" /\ cur' = NoCourse
  /\ UNCHANGED storage
  /\ spoiled' = spoiled \intersect {"overlap", "crowded", "ioError"}

Player ==
  /\ pc # "crashed"
  /\ \/ \E c \in Courses : ChooseCourse(c)
     \/ BackToCourses \/ RaceAlone \/ Retry \/ Quit \/ RequestSave
     \/ \E h \in list : RaceGhost(h)
     \/ \E time \in 1..MaxTime, lap \in 1..MaxLap : FinishRace(time, lap)

TaskThread ==
  \/ StartTask \/ RunSaveTask
  \/ CreateGhost \/ WriteGhost \/ SaveBoard
  \/ InitManager \/ ReadFolder \/ ClearBoard \/ ReadBoard
  \/ \E unread \in SUBSET (1..folder.count) : ReadHeaders(unread)
  \/ ReadFreedHeaders

Next == Player \/ TaskThread \/ PowerCycle

Spec == Init /\ [][Next]_vars

\* The task thread runs whenever the main thread waits for the retrace, and
\* storage answers every call.
FairSpec == Spec /\ WF_vars(TaskThread)
-----------------------------------------------------------------------------
TypeOK ==
  /\ screen \in {"course", "wait", "select", "race", "result"}
  /\ track \in Courses /\ {courseId, cur} \subseteq Courses \union {NoCourse}
  /\ board \in Board /\ rkg \in Times
  /\ folder \in [course : Courses \union {NoCourse}, count : 0..MaxFiles]
  /\ files = Freed \/ files \in Headers
  /\ main \in Int /\ list \subseteq 1..ListSize
  /\ race \in [picked : Times, loaded : Times]
  /\ pool \in Seq({"CreateAndSaveFiles", "ReadGhosts", "SaveTask"})
  /\ Len(pool) <= Depth
  /\ pc \in {"Idle", "SaveTask", "CreateGhost", "WriteGhost", "SaveBoard",
             "Init", "ReadFolder", "ClearBoard", "ReadBoard", "ReadHeaders",
             "crashed"}
  /\ boards \in [Courses -> Board \union {NoFile}]
  /\ ghosts \in [Courses -> Seq(Times)]
  /\ spoiled \subseteq Spoils

Sorted(b) ==
  \A i, j \in 1..Ranks : i < j /\ b.rank[j] # 0 => b.rank[i] \in 1..b.rank[j]

\* The leaderboard in memory and every leaderboard in storage has its times
\* in order and no gap, whatever races end while the task thread re-reads it.
BoardsSorted ==
  /\ Sorted(board)
  /\ \A c \in Courses : boards[c] # NoFile => Sorted(boards[c])

\* The file of a course is never replaced by one that is worse at any rank,
\* unless storage failed: no interleaving of a race's end with the re-reading,
\* of a Quit or of a change of course with the saving, loses what was stored.
NoWorse(new, old) ==
  /\ \A i \in 1..Ranks : old.rank[i] # 0 => new.rank[i] \in 1..old.rank[i]
  /\ old.flap # 0 => new.flap \in 1..old.flap

StoredNeverWorse ==
  [][\A c \in Courses :
       "ioError" \notin spoiled' /\ boards[c] # NoFile
         => NoWorse(boards'[c], boards[c])]_vars

\* A CreateAndSaveFiles that has still to write the leaderboard.
BoardToSave ==
  \E i \in 1..Len(pool) :
    /\ pool[i] = "CreateAndSaveFiles"
    /\ i > 1 \/ pc \in {"Idle", "CreateGhost", "WriteGhost", "SaveBoard"}

\* A record that the player has been shown is on its way to storage: the
\* leaderboard in memory equals the file, or a task that will write it waits.
RecordOnItsWay ==
  spoiled = {} /\ courseId \in Courses
    => \/ board = boards[courseId] \/ BoardToSave
       \/ pc \in {"ReadFolder", "ClearBoard", "ReadBoard"}

\* Every time in a stored leaderboard is the time of a stored ghost, after a
\* power cut at any point too, as long as records were saved one at a time.
EntryHasGhost ==
  spoiled \intersect {"overlap", "crowded", "ioError"} = {} =>
    \A c \in Courses : boards[c] # NoFile =>
      \A i \in 1..Ranks : boards[c].rank[i] # 0 =>
        \E k \in 1..Len(ghosts[c]) : ghosts[c][k] = boards[c].rank[i]

\* The select page shows the valid ghosts of the selected course: all of them
\* unless the list is full, no torn file and none of another course.
ListShowsGhosts ==
  screen = "select" /\ "ioError" \notin spoiled =>
    LET valid == {k \in 1..folder.count : ghosts[track][k] # 0}
        shown == {files[h].padding : h \in list}
    IN  /\ files # Freed /\ list \subseteq 1..Len(files)
        /\ shown \subseteq valid
        /\ Cardinality(shown) = IF Cardinality(valid) < ListSize
                                  THEN Cardinality(valid) ELSE ListSize

\* The ghost that is raced is the one the player picked: torn files in the
\* folder do not shift the mapping from list to header to file.
PickedIsLoaded == "ioError" \notin spoiled => race.loaded = race.picked

\* The task thread only finds its headers freed when the player left the race
\* while a record was being saved.
NoFreedAccess == pc = "crashed" => "reset" \in spoiled

\* The wait page, which the player cannot leave, ends: whatever the task thread
\* still had to save and whatever storage fails, short of a refused request or
\* of the crash that NoFreedAccess is about.
WaitEnds ==
  screen = "wait" ~>
    screen # "wait" \/ pc = "crashed" \/ "crowded" \in spoiled
=============================================================================
