---------------------------- MODULE SettingsSave ----------------------------
(***************************************************************************)
(* How the user data reaches the NAND.                                     *)
(*                                                                         *)
(* Two threads run SettingsHolder::Save on ONE FileManager object, with no *)
(* lock: the task thread (SaveTask, requested by Update) and the main      *)
(* thread (SaveVR, when the game writes a licence).  Save is Open,         *)
(* Overwrite, Close; each of them keeps its file descriptor in the shared  *)
(* member `fd` and re-reads it at every IOS call.  IOS serves one call at  *)
(* a time and a thread sleeps in it, so one action below is one IOS call   *)
(* together with the code up to the next one.                              *)
(***************************************************************************)
EXTENDS Integers, Sequences, FiniteSets

CONSTANTS
  Handles,     \* the descriptors the IOS file system can have open at once
  NoFd,        \* the value -1 of FileManager::fd
  Depth,       \* tasks the task thread holds: EGG::TaskThread::Create(2, ..)
  OtherTasks,  \* the other functions given to Request (ghost reads, saves)
  MaxEdits,    \* bound: edits of the user data since it was last the defaults
  MaxUnread,   \* bound: times the defaults took the place of what was stored
  MaxBlocks    \* bound: SaveVR stops once races have made the file this long

ASSUME HandlesAssumption == NoFd \notin Handles
ASSUME DepthAssumption == Depth \in Nat /\ Depth >= 2
ASSUME BoundAssumption ==
  MaxEdits \in Nat /\ MaxUnread \in Nat /\ MaxBlocks \in Nat
ASSUME TaskAssumption == "SaveTask" \notin OtherTasks

VARIABLES
  mem,        \* version of the buffer SettingsHolder::file
  disk,       \* the save file: its blocks of fileSize bytes, each a version
  pool,       \* the task thread's tasks; Head is the one being run, if any
  pc,         \* where each thread is
  fd,         \* FileManager::fd of nandInstance
  open,       \* descriptors IOS has open on the save file
  pos,        \* their offsets, in blocks
  requested,  \* the version the latest Update or SaveVR asked to persist
  spoiled     \* what has gone wrong since boot (see Spoil below)

vars == <<mem, disk, pool, pc, fd, open, pos, requested, spoiled>>

Threads == {"main", "task"}

\* A version of the user data: how often it began again from the defaults,
\* because Init could not read what was stored, and the edits since then.
Versions == [era : Nat, edits : Nat]
Defaults(n) == [era |-> n, edits |-> 0]
Edited(v) == [v EXCEPT !.edits = @ + 1]
Newer(v, w) == v.era > w.era \/ (v.era = w.era /\ v.edits > w.edits)

\* Save: the IOS calls of Open, Overwrite and Close, and the return of Close.
BeforeWrite == {"Open", "SeekEnd", "SeekStart", "Overwrite", "Write"}
SaveSteps == BeforeWrite \union {"Close", "Closed"}
PCs == SaveSteps \union {"Idle", "Other"}

Tasks == OtherTasks \union {"SaveTask"}

Saving(t) == pc[t] \in SaveSteps

\* "overlap": two Saves were under way at once.  "ioError": IOS refused an
\* Open or a Write of the save file.  "crowded": a save request was refused
\* while a ghost task held one of the task thread's slots.  "unread": the boot
\* could not read the save file.
Spoils == {"overlap", "ioError", "crowded", "unread"}
Spoil(why) == spoiled' = spoiled \union {why}

Goto(t, step) == pc' = [pc EXCEPT ![t] = step]

-----------------------------------------------------------------------------
Init ==
  /\ mem = Defaults(0) /\ disk = <<mem>> /\ requested = mem
  /\ pool = <<>> /\ pc = [t \in Threads |-> "Idle"]
  /\ fd = NoFd /\ open = {} /\ pos = [h \in Handles |-> 0]
  /\ spoiled = {}

\* SetSettingValue, SetUserVR, SetGPResults...: the menus edit the buffer.
EditSetting ==
  /\ pc["main"] = "Idle" /\ mem.edits < MaxEdits
  /\ mem' = Edited(mem)
  /\ UNCHANGED <<disk, pool, pc, fd, open, pos, requested, spoiled>>

\* (wrong variant) The pool takes one task too many.
PoolFullLate == Len(pool) > Depth

\* (wrong variant) A task thread with one slot, EGG::TaskThread::Create(1, ..).
PoolFullOneSlot == Len(pool) >= 1

\* Every task of the pool is in use; a task stays in use until it has run.
PoolFull == Len(pool) >= Depth

\* (wrong variant) Update runs the hooks and forgets to request the save.
RequestSaveForgets ==
  /\ pc["main"] = "Idle"
  /\ requested' = mem
  /\ UNCHANGED <<mem, disk, pool, pc, fd, open, pos, spoiled>>

\* SettingsHolder::Update -> RequestSave; the result of Request is dropped.
RequestSave ==
  /\ pc["main"] = "Idle"
  /\ requested' = mem
  /\ pool' = IF PoolFull THEN pool ELSE Append(pool, "SaveTask")
  /\ IF PoolFull /\ \E i \in 1..Len(pool) : pool[i] \in OtherTasks
       THEN Spoil("crowded") ELSE UNCHANGED spoiled
  /\ UNCHANGED <<mem, disk, pc, fd, open, pos>>

\* ReadGhostDataFromSD, LeaderboardMain::OnBack, PatchBeforeInAnim.
RequestOther(task) ==
  /\ pc["main"] = "Idle"
  /\ pool' = IF PoolFull THEN pool ELSE Append(pool, task)
  /\ UNCHANGED <<mem, disk, pc, fd, open, pos, requested, spoiled>>

\* Enter SettingsHolder::Save on thread t.
EnterSave(t) ==
  /\ Goto(t, "Open")
  /\ IF \E u \in Threads \ {t} : Saving(u)
       THEN Spoil("overlap") ELSE UNCHANGED spoiled

\* SaveVR: the ratings go into the buffer and the main thread saves, itself.
SaveVR ==
  /\ pc["main"] = "Idle" /\ mem.edits < MaxEdits /\ Len(disk) < MaxBlocks
  /\ mem' = Edited(mem) /\ requested' = mem'
  /\ EnterSave("main")
  /\ UNCHANGED <<disk, pool, fd, open, pos>>

\* EGG::TaskThread::Run takes the next task.
StartTask ==
  /\ pc["task"] = "Idle" /\ pool # <<>>
  /\ IF Head(pool) = "SaveTask" THEN EnterSave("task")
     ELSE Goto("task", "Other") /\ UNCHANGED spoiled
  /\ UNCHANGED <<mem, disk, pool, fd, open, pos, requested>>

\* A ghost task ends; it works on the other FileManager (sInstance).
FinishOther ==
  /\ pc["task"] = "Other"
  /\ Goto("task", "Idle") /\ pool' = Tail(pool)
  /\ UNCHANGED <<mem, disk, fd, open, pos, requested, spoiled>>

-----------------------------------------------------------------------------
(* FileManager, as Save calls it on thread t.                              *)

\* The open call; a descriptor still in fd is overwritten, not closed.
Open(t) ==
  /\ pc[t] = "Open" /\ Goto(t, "SeekEnd")
  /\ \/ \E h \in Handles \ open :
          /\ fd' = h /\ open' = open \union {h}
          /\ pos' = [pos EXCEPT ![h] = 0]
          /\ UNCHANGED spoiled
     \/ fd' = NoFd /\ Spoil("ioError") /\ UNCHANGED <<open, pos>>
  /\ UNCHANGED <<mem, disk, pool, requested>>

\* IOS::Seek on whatever fd holds now; it fails on a closed descriptor.
SeekTo(offset) ==
  pos' = IF fd \in open THEN [pos EXCEPT ![fd] = offset] ELSE pos

\* The seek to the end that gives fileSize.
SeekEnd(t) ==
  /\ pc[t] = "SeekEnd" /\ Goto(t, "SeekStart")
  /\ SeekTo(Len(disk))
  /\ UNCHANGED <<mem, disk, pool, fd, open, requested, spoiled>>

\* The seek back to the start that ends Open.
SeekStart(t) ==
  /\ pc[t] = "SeekStart" /\ Goto(t, "Overwrite")
  /\ SeekTo(0)
  /\ UNCHANGED <<mem, disk, pool, fd, open, requested, spoiled>>

\* (wrong variant) Save calls FileManager::Write, which appends, instead of Overwrite.
OverwriteAppends(t) ==
  /\ pc[t] = "Overwrite"
  /\ Goto(t, IF fd = NoFd THEN "Close" ELSE "Write")
  /\ SeekTo(Len(disk))
  /\ UNCHANGED <<mem, disk, pool, fd, open, requested, spoiled>>

\* Overwrite returns -1 at once when fd is -1, else seeks to the start.
Overwrite(t) ==
  /\ pc[t] = "Overwrite"
  /\ Goto(t, IF fd = NoFd THEN "Close" ELSE "Write")
  /\ SeekTo(0)
  /\ UNCHANGED <<mem, disk, pool, fd, open, requested, spoiled>>

\* IOS::Write of one block at an offset, which extends the file at its end.
WriteBlock(file, offset, block) ==
  [i \in 1..(IF offset < Len(file) THEN Len(file) ELSE offset + 1)
     |-> IF i = offset + 1 THEN block ELSE file[i]]

\* (wrong variant) Save returns as soon as the write fails, without Close.
WriteReturnsEarly(t) ==
  /\ pc[t] = "Write"
  /\ \/ /\ fd \in open
        /\ disk' = WriteBlock(disk, pos[fd], mem) /\ Goto(t, "Close")
        /\ pos' = [pos EXCEPT ![fd] = @ + 1] /\ UNCHANGED spoiled
     \/ Goto(t, "Closed") /\ Spoil("ioError") /\ UNCHANGED <<disk, pos>>
  /\ UNCHANGED <<mem, pool, fd, open, requested>>

\* The write of the whole buffer at the descriptor's offset.
Write(t) ==
  /\ pc[t] = "Write" /\ Goto(t, "Close")
  /\ \/ /\ fd \in open
        /\ disk' = WriteBlock(disk, pos[fd], mem)
        /\ pos' = [pos EXCEPT ![fd] = @ + 1]
        /\ UNCHANGED spoiled
     \/ /\ Spoil("ioError") /\ UNCHANGED <<disk, pos>>
  /\ UNCHANGED <<mem, pool, fd, open, requested>>

\* Close: IOS::Close on the current fd, when there is one.
Close(t) ==
  /\ pc[t] = "Close" /\ Goto(t, "Closed")
  /\ open' = open \ {fd} /\ SeekTo(0)
  /\ UNCHANGED <<mem, disk, pool, fd, requested, spoiled>>

\* Close returns and clears fd, whatever fd has become; Save and task end.
Closed(t) ==
  /\ pc[t] = "Closed" /\ Goto(t, "Idle")
  /\ fd' = NoFd
  /\ pool' = IF t = "task" THEN Tail(pool) ELSE pool
  /\ UNCHANGED <<mem, disk, open, pos, requested, spoiled>>

SaveStep(t) ==
  \/ Open(t) \/ SeekEnd(t) \/ SeekStart(t) \/ Overwrite(t)
  \/ Write(t) \/ Close(t) \/ Closed(t)

\* What a power cycle leaves of the threads, the pool and the descriptors.
BootState ==
  /\ pool' = <<>> /\ pc' = [t \in Threads |-> "Idle"]
  /\ fd' = NoFd /\ open' = {} /\ pos' = [h \in Handles |-> 0]

\* (wrong variant) Init takes a file longer than its buffer for an invalid one.
PowerCycleRejectsLong ==
  /\ IF Len(disk) > 1
       THEN mem' = Defaults(disk[1].era + 1) /\ disk' = [disk EXCEPT ![1] = mem']
       ELSE mem' = disk[1] /\ UNCHANGED disk
  /\ requested' = disk'[1] /\ spoiled' = {} /\ BootState

\* (wrong variant) Init does not load what it read.
PowerCycleForgets ==
  /\ mem' = Defaults(disk[1].era) /\ spoiled' = {} /\ UNCHANGED disk
  /\ requested' = disk[1] /\ BootState

\* Init reads one buffer, the first block; what it writes back is the same.
LoadStored == mem' = disk[1] /\ spoiled' = {} /\ UNCHANGED disk

\* The result of Read is ignored, so after an Open or a Read that failed the
\* cleared buffer has no magic: Init fills in the defaults and its Overwrite
\* stores them over the first block, unless it fails as well (fd = -1).
LoadDefaults ==
  /\ disk[1].era < MaxUnread
  /\ mem' = Defaults(disk[1].era + 1)
  /\ disk' \in {disk, [disk EXCEPT ![1] = mem']}
  /\ spoiled' = {"unread"}

\* Power off, boot, SettingsHolder::Init.
PowerCycle ==
  /\ LoadStored \/ LoadDefaults
  /\ requested' = disk'[1]
  /\ BootState

Next ==
  \/ EditSetting \/ RequestSave \/ SaveVR \/ StartTask \/ FinishOther
  \/ \E task \in OtherTasks : RequestOther(task)
  \/ \E t \in Threads : SaveStep(t)
  \/ PowerCycle

Spec == Init /\ [][Next]_vars

\* The task thread has the lowest priority, but the main thread waits for the
\* retrace every frame; IOS answers every call.
FairSpec ==
  /\ Spec
  /\ WF_vars(StartTask) /\ WF_vars(FinishOther)
  /\ \A t \in Threads : WF_vars(SaveStep(t))

-----------------------------------------------------------------------------
TypeOK ==
  /\ mem \in Versions /\ requested \in Versions
  /\ disk \in Seq(Versions) /\ disk # <<>>
  /\ pool \in Seq(Tasks) /\ Len(pool) <= Depth
  /\ pc \in [Threads -> PCs]
  /\ fd \in Handles \union {NoFd}
  /\ open \in SUBSET Handles
  /\ pos \in [Handles -> Nat]
  /\ spoiled \in SUBSET Spoils

\* Unless two Saves ran at once, the only descriptor IOS has open on the save
\* file is the one in FileManager::fd, and only while a Save is under way:
\* neither Open over a live fd nor Close of somebody else's fd ever leaks one.
NoHandleLeak ==
  "overlap" \notin spoiled =>
    open = IF \E t \in Threads : pc[t] \in SaveSteps \ {"Open", "Closed"}
             THEN {fd} \ {NoFd} ELSE {}

\* A Save that will still write what is in memory: one that has not reached
\* its write, or a SaveTask that waits its turn.
SavePending ==
  \/ \E t \in Threads : pc[t] \in BeforeWrite
  \/ \E i \in 1..Len(pool) :
       pool[i] = "SaveTask" /\ (i > 1 \/ pc["task"] = "Idle")

\* Since the boot no Saves overlapped, IOS refused them nothing and no ghost
\* task kept them out of the pool.
SavesWentWell == spoiled \subseteq {"unread"}

\* A save request that finds the pool full is dropped in silence; that is
\* harmless as long as only SaveTasks use the pool, Saves do not overlap and
\* IOS does not fail: whenever the file is behind what was asked to be saved,
\* a Save that will write it is still pending.
NoSilentLoss ==
  SavesWentWell /\ Newer(requested, disk[1]) => SavePending

\* Whatever the interleaving, what a boot would read back is never replaced
\* by an older version: a Save writes the buffer as it is at the write.  Nor
\* do the defaults replace it, at a boot or by a later Save of what that boot
\* loaded, unless the boot could not read the file.
StoredNeverRegresses ==
  [][/\ ~Newer(disk[1], disk'[1])
     /\ disk'[1].era # disk[1].era => "unread" \in spoiled']_vars

\* Unless two Saves ran at once, a Save replaces the file in place: it never
\* makes it longer (a second block is dead weight Init never reads).
SavesInPlace ==
  [][Len(disk') # Len(disk) => "overlap" \in spoiled]_vars

\* A save asked for reaches the file, or something went wrong that the code
\* does not report.
RequestedIsSaved ==
  Newer(requested, disk[1]) ~> (~Newer(requested, disk[1]) \/ ~SavesWentWell)

\* The save file is a durable cell, whatever the interleaving of the Saves:
\* a boot that reads it finds one whole version that was in memory, and only
\* one that cannot read it starts over.
Cell == INSTANCE DurableCell
          WITH mem <- mem, stored <- disk[1], unread <- "unread" \in spoiled
ImplementsDurableCell == Cell!Spec
=============================================================================
