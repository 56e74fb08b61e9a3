------------------------- MODULE SettingsSaveProofs -------------------------
(***************************************************************************)
(* Proofs about SettingsSave for any number of descriptors, any pool of at *)
(* least two tasks, any other task functions and any bounds.               *)
(***************************************************************************)
EXTENDS SettingsSave, TLAPS

USE HandlesAssumption, DepthAssumption, BoundAssumption, TaskAssumption

-----------------------------------------------------------------------------
(* Type correctness needs two facts more: the running task is still in the *)
(* pool, and no descriptor is past the end of the file.                    *)
RunningTaskHeld ==
  /\ pc["task"] # "Idle" => pool # <<>>
  /\ pc["main"] # "Other"
OffsetsInFile == \A h \in Handles : pos[h] <= Len(disk)

TypeInv == TypeOK /\ RunningTaskHeld /\ OffsetsInFile

\* The first state has the types of the variables.
LEMMA TypeInit == Init => TypeInv
BY DEF Init, TypeInv, TypeOK, RunningTaskHeld, OffsetsInFile, Threads, PCs,
       SaveSteps, BeforeWrite, Tasks, Versions, Defaults

\* A write at or before the end of the file gives a file again, no shorter,
\* and only the block at the offset changes.
LEMMA WriteFile ==
  ASSUME NEW f \in Seq(Versions), f # <<>>, NEW p \in Nat, p <= Len(f),
         NEW v \in Versions
  PROVE  /\ WriteBlock(f, p, v) \in Seq(Versions) /\ WriteBlock(f, p, v) # <<>>
         /\ Len(WriteBlock(f, p, v)) = IF p < Len(f) THEN Len(f) ELSE p + 1
         /\ WriteBlock(f, p, v)[1] = IF p = 0 THEN v ELSE f[1]
<1> DEFINE g == WriteBlock(f, p, v)
<1> DEFINE n == IF p < Len(f) THEN Len(f) ELSE p + 1
<1>1. n \in Nat /\ n >= 1 /\ n >= Len(f)
  OBVIOUS
<1>2. \A i \in 1..n : i # p + 1 => f[i] \in Versions
  OBVIOUS
<1>3. g \in [1..n -> Versions]
  BY <1>2 DEF WriteBlock
<1>4. g \in Seq(Versions) /\ Len(g) = n
  BY <1>1, <1>3
<1>5. g[1] = IF p = 0 THEN v ELSE f[1]
  BY <1>1 DEF WriteBlock
<1> QED
  BY <1>1, <1>4, <1>5

\* The versions an edit and a boot make, and that they are in order.
LEMMA VersionsMade ==
  /\ \A n \in Nat : Defaults(n) \in Versions /\ Defaults(n).era = n
  /\ \A v \in Versions : /\ Edited(v) \in Versions /\ Edited(v).era = v.era
                         /\ Newer(Edited(v), v)
                         /\ v.era \in Nat /\ v.era + 1 \in Nat /\ v.era + 1 > v.era
BY DEF Defaults, Edited, Versions, Newer

\* Newer is a strict order, in which a later era comes after every edit of an
\* earlier one.
LEMMA NewerOrder ==
  ASSUME NEW u \in Versions, NEW v \in Versions, NEW w \in Versions
  PROVE  /\ ~Newer(v, v)
         /\ ~Newer(u, v) /\ ~Newer(v, w) => ~Newer(u, w)
         /\ v.era > u.era => ~Newer(u, v)
         /\ Newer(u, v) => ~Newer(v, u)
         /\ ~Newer(u, v) => u.era <= v.era
         /\ u.era \in Nat /\ v.era \in Nat
BY DEF Versions, Newer

\* A Save that writes: the same, for the file, the offset and the buffer of
\* the moment.
LEMMA SavedFile ==
  ASSUME TypeOK, OffsetsInFile, fd \in open, disk' = WriteBlock(disk, pos[fd], mem)
  PROVE  /\ disk' \in Seq(Versions) /\ disk' # <<>>
         /\ Len(disk') = IF pos[fd] < Len(disk) THEN Len(disk) ELSE pos[fd] + 1
         /\ disk'[1] = IF pos[fd] = 0 THEN mem ELSE disk[1]
<1>1. /\ disk \in Seq(Versions) /\ disk # <<>> /\ mem \in Versions
      /\ pos[fd] \in Nat /\ pos[fd] <= Len(disk)
  BY DEF TypeOK, OffsetsInFile
<1> DEFINE p == pos[fd]
<1>2. p \in Nat /\ p <= Len(disk)
  BY <1>1
<1> HIDE DEF p
<1>3. /\ WriteBlock(disk, p, mem) \in Seq(Versions) /\ WriteBlock(disk, p, mem) # <<>>
      /\ Len(WriteBlock(disk, p, mem)) = IF p < Len(disk) THEN Len(disk) ELSE p + 1
      /\ WriteBlock(disk, p, mem)[1] = IF p = 0 THEN mem ELSE disk[1]
  BY <1>1, <1>2, WriteFile
<1> QED
  BY <1>3 DEF p

\* A boot leaves a file of the same length, whose other blocks are as before.
LEMMA BootFile ==
  ASSUME TypeOK, PowerCycle
  PROVE  /\ mem' \in Versions /\ disk' \in Seq(Versions) /\ Len(disk') = Len(disk)
         /\ disk' # <<>> /\ disk[1] \in Versions /\ disk'[1] \in Versions
         /\ ~Newer(disk[1], mem') /\ ~Newer(disk'[1], mem') /\ ~Newer(disk[1], disk'[1])
         /\ \/ mem' = disk[1] /\ disk' = disk /\ spoiled' = {}
            \/ /\ mem' = Defaults(disk[1].era + 1) /\ disk'[1] \in {disk[1], mem'}
               /\ spoiled' = {"unread"}
<1>1. disk \in Seq(Versions) /\ disk # <<>> /\ disk[1] \in Versions /\ 1 \in 1..Len(disk)
  BY DEF TypeOK
<1>2. CASE LoadStored
  BY <1>1, <1>2, NewerOrder DEF LoadStored
<1>3. CASE LoadDefaults
  <2>1. /\ mem' = Defaults(disk[1].era + 1) /\ spoiled' = {"unread"}
        /\ disk' = disk \/ disk' = [disk EXCEPT ![1] = mem']
    BY <1>3 DEF LoadDefaults
  <2>2. mem' \in Versions /\ mem'.era > disk[1].era
    BY <1>1, <2>1, VersionsMade
  <2>3. ~Newer(disk[1], mem') /\ ~Newer(disk[1], disk[1]) /\ ~Newer(mem', mem')
    BY <1>1, <2>2, NewerOrder
  <2>4. /\ disk' \in Seq(Versions) /\ Len(disk') = Len(disk) /\ disk' # <<>>
        /\ disk'[1] \in {disk[1], mem'}
    BY <1>1, <2>1, <2>2
  <2> QED
    BY <1>1, <2>1, <2>2, <2>3, <2>4
<1> QED
  BY <1>2, <1>3 DEF PowerCycle

\* Request on a pool with a free task, and on a full one.
LEMMA PoolRequest ==
  ASSUME NEW p \in Seq(Tasks), Len(p) <= Depth, NEW task \in Tasks,
         NEW q, q = IF Len(p) >= Depth THEN p ELSE Append(p, task)
  PROVE  q \in Seq(Tasks) /\ Len(q) <= Depth /\ (p # <<>> => q # <<>>)
<1>1. CASE Len(p) >= Depth
  BY <1>1
<1>2. CASE Len(p) < Depth
  <2>1. q = Append(p, task)
    BY <1>2
  <2>2. q \in Seq(Tasks) /\ Len(q) = Len(p) + 1
    BY <2>1
  <2> QED
    BY <1>2, <2>2
<1> QED
  BY <1>1, <1>2

\* A thread that moves to another step is still at one.
LEMMA MoveType ==
  ASSUME NEW t \in Threads, NEW step \in PCs, pc \in [Threads -> PCs], Goto(t, step)
  PROVE  /\ pc' \in [Threads -> PCs] /\ pc'[t] = step
         /\ \A u \in Threads \ {t} : pc'[u] = pc[u]
BY DEF Goto

\* Every step keeps the types.
LEMMA TypeStep == TypeInv /\ [Next]_vars => TypeInv'
<1> SUFFICES ASSUME TypeInv, [Next]_vars PROVE TypeInv'
  OBVIOUS
<1> USE DEF TypeInv, TypeOK, RunningTaskHeld, OffsetsInFile, Threads, PCs,
            SaveSteps, BeforeWrite, Spoils
<1>1. CASE EditSetting
  BY <1>1, VersionsMade DEF EditSetting
<1>2. CASE RequestSave
  <2>1. "SaveTask" \in Tasks
    BY DEF Tasks
  <2>2. pool' \in Seq(Tasks) /\ Len(pool') <= Depth /\ (pool # <<>> => pool' # <<>>)
    BY <1>2, <2>1, PoolRequest DEF RequestSave, PoolFull
  <2>3. spoiled' \in SUBSET Spoils
    BY <1>2 DEF RequestSave, Spoil
  <2> QED
    BY <1>2, <2>2, <2>3 DEF RequestSave
<1>3. CASE SaveVR
  <2>1. pc' \in [Threads -> PCs] /\ pc'["main"] = "Open" /\ pc'["task"] = pc["task"]
    BY <1>3, MoveType DEF SaveVR, EnterSave
  <2>2. spoiled' \in SUBSET Spoils
    BY <1>3 DEF SaveVR, EnterSave, Spoil
  <2> QED
    BY <1>3, <2>1, <2>2, VersionsMade DEF SaveVR
<1>4. CASE StartTask
  <2>1. Goto("task", "Open") \/ Goto("task", "Other")
    BY <1>4 DEF StartTask, EnterSave
  <2>2. pc' \in [Threads -> PCs] /\ pc'["main"] = pc["main"]
    BY <2>1, MoveType
  <2>3. spoiled' \in SUBSET Spoils
    BY <1>4 DEF StartTask, EnterSave, Spoil
  <2> QED
    BY <1>4, <2>2, <2>3 DEF StartTask
<1>5. CASE FinishOther
  BY <1>5 DEF FinishOther, Goto
<1>6. ASSUME NEW task \in OtherTasks, RequestOther(task) PROVE TypeInv'
  <2>1. task \in Tasks
    BY DEF Tasks
  <2>2. pool' \in Seq(Tasks) /\ Len(pool') <= Depth /\ (pool # <<>> => pool' # <<>>)
    BY <1>6, <2>1, PoolRequest DEF RequestOther, PoolFull
  <2> QED
    BY <1>6, <2>2 DEF RequestOther
<1>7. ASSUME NEW t \in Threads, SaveStep(t) PROVE TypeInv'
  <2> USE DEF Goto
  <2>1. CASE Open(t)
    <3>1. pc' \in [Threads -> PCs] /\ RunningTaskHeld'
      BY <2>1 DEF Open
    <3>2. CASE \E h \in Handles \ open :
                  /\ fd' = h /\ open' = open \union {h}
                  /\ pos' = [pos EXCEPT ![h] = 0] /\ UNCHANGED spoiled
      <4>1. PICK h \in Handles \ open :
               /\ fd' = h /\ open' = open \union {h}
               /\ pos' = [pos EXCEPT ![h] = 0] /\ UNCHANGED spoiled
        BY <3>2
      <4>2. pos' \in [Handles -> Nat] /\ \A k \in Handles : pos'[k] <= Len(disk)
        BY <4>1
      <4> QED
        BY <2>1, <3>1, <4>1, <4>2 DEF Open
    <3>3. CASE fd' = NoFd /\ Spoil("ioError") /\ UNCHANGED <<open, pos>>
      BY <2>1, <3>1, <3>3 DEF Open, Spoil
    <3> QED
      BY <2>1, <3>2, <3>3 DEF Open
  <2>2. CASE SeekEnd(t)
    BY <2>2 DEF SeekEnd, SeekTo
  <2>3. CASE SeekStart(t)
    BY <2>3 DEF SeekStart, SeekTo
  <2>4. CASE Overwrite(t)
    BY <2>4 DEF Overwrite, SeekTo
  <2>5. CASE Write(t)
    <3>1. CASE UNCHANGED <<disk, pos>> /\ Spoil("ioError")
      BY <2>5, <3>1 DEF Write, Spoil
    <3>2. CASE fd \in open /\ UNCHANGED spoiled
               /\ disk' = WriteBlock(disk, pos[fd], mem)
               /\ pos' = [pos EXCEPT ![fd] = @ + 1]
      <4>1. fd \in Handles /\ pos[fd] \in Nat /\ pos[fd] <= Len(disk)
        BY <3>2
      <4>2. /\ disk' \in Seq(Versions) /\ disk' # <<>>
            /\ Len(disk') = IF pos[fd] < Len(disk) THEN Len(disk) ELSE pos[fd] + 1
        BY <3>2, SavedFile
      <4>3. OffsetsInFile' /\ pos' \in [Handles -> Nat]
        BY <3>2, <4>1, <4>2
      <4> QED
        BY <2>5, <3>2, <4>2, <4>3 DEF Write
    <3> QED
      BY <2>5, <3>1, <3>2 DEF Write
  <2>6. CASE Close(t)
    BY <2>6 DEF Close, SeekTo
  <2>7. CASE Closed(t)
    BY <2>7 DEF Closed
  <2> QED
    BY <1>7, <2>1, <2>2, <2>3, <2>4, <2>5, <2>6, <2>7 DEF SaveStep
<1>8. CASE PowerCycle
  <2>1. /\ mem' \in Versions /\ disk' \in Seq(Versions) /\ disk' # <<>>
        /\ Len(disk') = Len(disk) /\ disk'[1] \in Versions /\ spoiled' \in SUBSET Spoils
    BY <1>8, BootFile
  <2> QED
    BY <1>8, <2>1 DEF PowerCycle, BootState
<1>9. CASE UNCHANGED vars
  BY <1>9 DEF vars
<1> QED
  BY <1>1, <1>2, <1>3, <1>4, <1>5, <1>6, <1>7, <1>8, <1>9 DEF Next

\* The variables have their types in every state.
LEMMA TypeInvariance == Spec => []TypeInv
BY TypeInit, TypeStep, PTL DEF Spec

\* Every variable of the save path keeps its type, for all constants.
THEOREM TypeCorrect == Spec => []TypeOK
<1>1. TypeInv => TypeOK
  BY DEF TypeInv
<1> QED
  BY TypeInvariance, <1>1, PTL

-----------------------------------------------------------------------------
(* The inductive invariant behind the safety properties.                   *)

\* What is durable or asked for was in memory.
VersionOrder == ~Newer(disk[1], mem) /\ ~Newer(requested, mem)

\* Memory is of a later era than the file only after a boot that could not
\* read it.
EraOfBoot == "unread" \notin spoiled => mem.era = disk[1].era

\* The task being run is the head of the pool and of its kind.
RunningTaskKind ==
  /\ Saving("task") => Head(pool) = "SaveTask"
  /\ pc["task"] = "Other" => Head(pool) \in OtherTasks

\* Without overlap one Save at a time is under way...
OneSave == "overlap" \notin spoiled => ~(Saving("main") /\ Saving("task"))

\* ...it reaches its write with its own descriptor open and rewound...
WriteReady ==
  "overlap" \notin spoiled =>
    \A t \in Threads : pc[t] = "Write" => fd \in open /\ pos[fd] = 0

\* ...and is without a descriptor only after IOS has refused the Open.
OpenRefused ==
  "overlap" \notin spoiled =>
    \A t \in Threads :
      pc[t] \in {"SeekEnd", "SeekStart", "Overwrite"} /\ fd = NoFd
        => "ioError" \in spoiled

IInv ==
  /\ TypeInv /\ VersionOrder /\ EraOfBoot /\ RunningTaskKind /\ OneSave
  /\ NoHandleLeak /\ WriteReady /\ OpenRefused /\ NoSilentLoss

\* The inductive invariant holds when the game starts.
LEMMA IInit == Init => IInv
<1> SUFFICES ASSUME Init PROVE IInv
  OBVIOUS
<1>1. TypeInv
  BY TypeInit
<1>2. VersionOrder /\ EraOfBoot /\ ~Newer(requested, disk[1])
  BY <1>1, NewerOrder DEF Init, VersionOrder, EraOfBoot, TypeInv, TypeOK
<1> QED
  BY <1>1, <1>2 DEF Init, IInv, RunningTaskKind, OneSave, NoHandleLeak,
     WriteReady, OpenRefused, NoSilentLoss, Saving, SaveSteps, BeforeWrite, Threads

\* Saves: one step of a Save without overlap.
LEMMA SaveStepDescriptor ==
  ASSUME IInv, NEW t \in Threads, SaveStep(t)
  PROVE  OneSave' /\ NoHandleLeak' /\ WriteReady' /\ OpenRefused'
<1>1. TypeOK /\ OneSave /\ NoHandleLeak /\ WriteReady /\ OpenRefused
  BY DEF IInv, TypeInv
<1>2. spoiled \subseteq spoiled'
  BY DEF SaveStep, Open, SeekEnd, SeekStart, Overwrite, Write, Close, Closed, Spoil
<1>3. pc[t] \in SaveSteps /\ \A u \in Threads \ {t} : pc'[u] = pc[u]
  BY <1>1 DEF SaveStep, Open, SeekEnd, SeekStart, Overwrite, Write, Close, Closed,
       Goto, SaveSteps, BeforeWrite, TypeOK
<1>4. CASE "overlap" \in spoiled'
  BY <1>4 DEF OneSave, NoHandleLeak, WriteReady, OpenRefused
<1>5. CASE "overlap" \notin spoiled'
  <2>1. "overlap" \notin spoiled
    BY <1>2, <1>5
  <2>2. \A u \in Threads \ {t} : pc[u] \in {"Idle", "Other"} /\ pc'[u] \in {"Idle", "Other"}
    BY <1>1, <1>3, <2>1 DEF OneSave, Saving, Threads, TypeOK, PCs
  <2>3. OneSave'
    BY <2>2 DEF OneSave, Saving, Threads, SaveSteps, BeforeWrite
  <2>4. /\ open = IF pc[t] \in SaveSteps \ {"Open", "Closed"} THEN {fd} \ {NoFd} ELSE {}
        /\ pc[t] = "Write" => fd \in open /\ pos[fd] = 0
        /\ pc[t] \in {"SeekEnd", "SeekStart", "Overwrite"} /\ fd = NoFd => "ioError" \in spoiled
    BY <1>1, <2>1, <2>2 DEF NoHandleLeak, WriteReady, OpenRefused, SaveSteps, BeforeWrite
  <2>5. /\ open' = IF pc'[t] \in SaveSteps \ {"Open", "Closed"} THEN {fd'} \ {NoFd} ELSE {}
        /\ pc'[t] = "Write" => fd' \in open' /\ pos'[fd'] = 0
        /\ pc'[t] \in {"SeekEnd", "SeekStart", "Overwrite"} /\ fd' = NoFd => "ioError" \in spoiled'
    <3> USE <1>1, <2>4 DEF Goto, TypeOK, SaveSteps, BeforeWrite, Spoil
    <3>1. CASE Open(t)
      BY <3>1 DEF Open
    <3>2. CASE SeekEnd(t)
      BY <3>2 DEF SeekEnd, SeekTo
    <3>3. CASE SeekStart(t)
      BY <3>3 DEF SeekStart, SeekTo
    <3>4. CASE Overwrite(t)
      BY <3>4 DEF Overwrite, SeekTo
    <3>5. CASE Write(t)
      BY <3>5 DEF Write
    <3>6. CASE Close(t)
      BY <3>6 DEF Close, SeekTo
    <3>7. CASE Closed(t)
      BY <3>7 DEF Closed
    <3> QED
      BY <3>1, <3>2, <3>3, <3>4, <3>5, <3>6, <3>7 DEF SaveStep
  <2>6. NoHandleLeak' /\ WriteReady' /\ OpenRefused'
    BY <2>2, <2>5 DEF NoHandleLeak, WriteReady, OpenRefused, SaveSteps, BeforeWrite
  <2> QED
    BY <2>3, <2>6
<1> QED
  BY <1>4, <1>5

-----------------------------------------------------------------------------
(* Durability: what the steps do to the file and to the versions.          *)

\* A step of a Save changes the file only by writing the buffer at an offset,
\* which without overlap is its start.
LEMMA SaveStepFile ==
  ASSUME IInv, NEW t \in Threads, SaveStep(t)
  PROVE  /\ disk'[1] \in {disk[1], mem}
         /\ mem' = mem /\ requested' = requested
         /\ "overlap" \notin spoiled => Len(disk') = Len(disk)
<1> USE DEF IInv, TypeInv, TypeOK, OffsetsInFile
<1>1. CASE Write(t)
  <2>1. CASE UNCHANGED disk
    BY <1>1, <2>1 DEF Write
  <2>2. CASE fd \in open /\ disk' = WriteBlock(disk, pos[fd], mem)
    <3>1. fd \in Handles /\ pos[fd] \in Nat /\ pos[fd] <= Len(disk)
      BY <2>2
    <3>2. /\ Len(disk') = IF pos[fd] < Len(disk) THEN Len(disk) ELSE pos[fd] + 1
          /\ disk'[1] = IF pos[fd] = 0 THEN mem ELSE disk[1]
      BY <2>2, SavedFile
    <3>3. "overlap" \notin spoiled => pos[fd] = 0
      BY <1>1 DEF Write, WriteReady
    <3>4. Len(disk) \in Nat /\ Len(disk) > 0
      OBVIOUS
    <3> QED
      BY <1>1, <3>2, <3>3, <3>4 DEF Write
  <2> QED
    BY <1>1, <2>1, <2>2 DEF Write
<1>2. CASE ~Write(t)
  BY <1>2 DEF SaveStep, Open, SeekEnd, SeekStart, Overwrite, Close, Closed
<1> QED
  BY <1>1, <1>2

\* No step makes the file, or what is asked for, newer than memory, and none
\* but the boot that could not read the file begins an era.
LEMMA VersionStep == IInv /\ [Next]_vars => VersionOrder' /\ EraOfBoot'
<1> SUFFICES ASSUME IInv, [Next]_vars PROVE VersionOrder' /\ EraOfBoot'
  OBVIOUS
<1>0. /\ TypeOK /\ ~Newer(disk[1], mem) /\ ~Newer(requested, mem)
      /\ mem \in Versions /\ requested \in Versions /\ disk[1] \in Versions
      /\ "unread" \notin spoiled => mem.era = disk[1].era
  BY DEF IInv, TypeInv, TypeOK, VersionOrder, EraOfBoot
<1> USE DEF VersionOrder, EraOfBoot
<1>1. ASSUME NEW t \in Threads, SaveStep(t) PROVE VersionOrder' /\ EraOfBoot'
  <2>1. spoiled \subseteq spoiled'
    BY <1>1 DEF SaveStep, Open, SeekEnd, SeekStart, Overwrite, Write, Close, Closed, Spoil
  <2> QED
    BY <1>0, <1>1, <2>1, SaveStepFile, NewerOrder
<1>2. CASE EditSetting \/ SaveVR
  <2>1. /\ mem' = Edited(mem) /\ disk' = disk /\ requested' \in {requested, mem'}
        /\ "unread" \notin spoiled' => "unread" \notin spoiled
    BY <1>2 DEF EditSetting, SaveVR, EnterSave, Spoil
  <2>2. /\ Edited(mem) \in Versions /\ Newer(Edited(mem), mem)
        /\ Edited(mem).era = mem.era
    BY <1>0, VersionsMade
  <2>3. ~Newer(mem, Edited(mem)) /\ ~Newer(Edited(mem), Edited(mem))
    BY <1>0, <2>2, NewerOrder
  <2>4. ~Newer(disk[1], mem') /\ ~Newer(requested, mem')
    BY <1>0, <2>1, <2>2, <2>3, NewerOrder
  <2> QED
    BY <1>0, <2>1, <2>2, <2>3, <2>4
<1>3. CASE RequestSave
  <2>1. /\ mem' = mem /\ disk' = disk /\ requested' = mem
        /\ "unread" \notin spoiled' => "unread" \notin spoiled
    BY <1>3 DEF RequestSave, Spoil
  <2> QED
    BY <1>0, <2>1, NewerOrder
<1>4. CASE PowerCycle
  <2>1. requested' = disk'[1]
    BY <1>4 DEF PowerCycle
  <2> QED
    BY <1>0, <1>4, <2>1, BootFile
<1>5. CASE StartTask \/ FinishOther \/ (\E task \in OtherTasks : RequestOther(task))
  <2>1. /\ mem' = mem /\ disk' = disk /\ requested' = requested
        /\ "unread" \notin spoiled' => "unread" \notin spoiled
    BY <1>5 DEF StartTask, FinishOther, RequestOther, EnterSave, Spoil
  <2> QED
    BY <1>0, <2>1
<1>6. CASE UNCHANGED vars
  BY <1>0, <1>6 DEF vars
<1> QED
  BY <1>1, <1>2, <1>3, <1>4, <1>5, <1>6 DEF Next

-----------------------------------------------------------------------------
(* The pool: requests go to its end, the running task is its head.         *)

\* A request is put behind the others.
LEMMA AppendTask ==
  ASSUME NEW p \in Seq(Tasks), NEW task \in Tasks
  PROVE  /\ Append(p, task) \in Seq(Tasks) /\ Len(Append(p, task)) = Len(p) + 1
         /\ \A i \in 1..Len(p) : Append(p, task)[i] = p[i]
         /\ Append(p, task)[Len(p) + 1] = task
         /\ p # <<>> => Head(Append(p, task)) = Head(p)
OBVIOUS

\* The first task is taken off, and the others move up.
LEMMA DropTask ==
  ASSUME NEW p \in Seq(Tasks), p # <<>>
  PROVE  /\ Tail(p) \in Seq(Tasks) /\ Len(Tail(p)) = Len(p) - 1 /\ Len(p) > 0
         /\ \A i \in 2..Len(p) : i - 1 \in 1..Len(Tail(p)) /\ Tail(p)[i - 1] = p[i]
         /\ Head(p) = p[1]
OBVIOUS

\* The parts of TypeInv the pool's lemmas need.
LEMMA PoolType ==
  TypeInv => /\ pool \in Seq(Tasks) /\ pc \in [Threads -> PCs] /\ Len(pool) \in Nat
             /\ "SaveTask" \in Tasks /\ OtherTasks \subseteq Tasks
             /\ pc["task"] # "Idle" => pool # <<>>
BY DEF TypeInv, TypeOK, RunningTaskHeld, Tasks

\* The task that runs stays the head of the pool, and of its kind.
LEMMA KindStep == IInv /\ [Next]_vars => RunningTaskKind'
<1> SUFFICES ASSUME IInv, [Next]_vars PROVE RunningTaskKind'
  OBVIOUS
<1>0. /\ RunningTaskKind
      /\ pool \in Seq(Tasks) /\ pc \in [Threads -> PCs]
      /\ "SaveTask" \in Tasks /\ OtherTasks \subseteq Tasks
      /\ pc["task"] # "Idle" => pool # <<>>
  BY PoolType DEF IInv
<1> USE DEF RunningTaskKind, Saving, SaveSteps, BeforeWrite, Threads, Goto
<1>1. CASE RequestSave
  BY <1>0, <1>1, AppendTask DEF RequestSave
<1>2. ASSUME NEW task \in OtherTasks, RequestOther(task) PROVE RunningTaskKind'
  BY <1>0, <1>2, AppendTask DEF RequestOther
<1>3. CASE StartTask
  <2>1. Head(pool) \in Tasks
    BY <1>0, <1>3 DEF StartTask
  <2> QED
    BY <1>0, <1>3, <2>1 DEF StartTask, EnterSave, Tasks
<1>4. CASE EditSetting \/ PowerCycle \/ UNCHANGED vars
  BY <1>0, <1>4 DEF EditSetting, PowerCycle, BootState, vars
<1>5. CASE SaveVR \/ FinishOther
  BY <1>0, <1>5 DEF SaveVR, EnterSave, FinishOther
<1>6. ASSUME NEW t \in Threads, SaveStep(t) PROVE RunningTaskKind'
  <2>1. CASE Closed(t)
    BY <1>0, <2>1 DEF Closed
  <2>2. CASE ~Closed(t)
    <3>1. pool' = pool /\ pc[t] \in SaveSteps /\ pc'[t] \in SaveSteps
          /\ \A u \in Threads \ {t} : pc'[u] = pc[u]
      BY <1>0, <1>6, <2>2 DEF SaveStep, Open, SeekEnd, SeekStart, Overwrite, Write, Close
    <3> QED
      BY <1>0, <3>1
  <2> QED
    BY <2>1, <2>2
<1> QED
  BY <1>1, <1>2, <1>3, <1>4, <1>5, <1>6 DEF Next

-----------------------------------------------------------------------------
(* The descriptor, for the actions that are not steps of a Save.           *)

\* A thread that enters Save holds no descriptor yet.
LEMMA EnterSaveDescriptor ==
  ASSUME IInv, NEW t \in Threads, ~Saving(t), EnterSave(t),
         UNCHANGED <<fd, open, pos>>
  PROVE  OneSave' /\ NoHandleLeak' /\ WriteReady' /\ OpenRefused'
<1>1. /\ OneSave /\ NoHandleLeak /\ WriteReady /\ OpenRefused
      /\ pc \in [Threads -> PCs] /\ spoiled \subseteq spoiled'
  BY DEF IInv, TypeInv, TypeOK, EnterSave, Spoil
<1>2. pc'[t] = "Open" /\ \A u \in Threads \ {t} : pc'[u] = pc[u]
  BY <1>1 DEF EnterSave, Goto
<1>3. CASE "overlap" \in spoiled'
  BY <1>3 DEF OneSave, NoHandleLeak, WriteReady, OpenRefused
<1>4. CASE "overlap" \notin spoiled'
  <2>1. \A u \in Threads : pc[u] \notin SaveSteps
    BY <1>4 DEF EnterSave, Spoil, Saving
  <2>2. open = {}
    BY <1>1, <1>4, <2>1 DEF NoHandleLeak
  <2>3. \A u \in Threads : pc'[u] = "Open" \/ pc'[u] \notin SaveSteps
    BY <1>2, <2>1
  <2>4. NoHandleLeak' /\ WriteReady' /\ OpenRefused'
    BY <2>2, <2>3 DEF NoHandleLeak, WriteReady, OpenRefused, SaveSteps, BeforeWrite
  <2>5. OneSave'
    BY <1>2, <2>1 DEF OneSave, Saving, Threads
  <2> QED
    BY <2>4, <2>5
<1> QED
  BY <1>3, <1>4

\* Every step keeps what is known of descriptors, as long as Saves do not
\* overlap.
LEMMA DescriptorStep ==
  IInv /\ [Next]_vars => OneSave' /\ NoHandleLeak' /\ WriteReady' /\ OpenRefused'
<1> DEFINE Descriptor == OneSave /\ NoHandleLeak /\ WriteReady /\ OpenRefused
<1> SUFFICES ASSUME IInv, [Next]_vars PROVE Descriptor'
  OBVIOUS
<1>0. Descriptor /\ pc \in [Threads -> PCs]
  BY DEF IInv, TypeInv, TypeOK
<1> USE DEF OneSave, NoHandleLeak, WriteReady, OpenRefused
<1>1. CASE EditSetting \/ UNCHANGED vars
  BY <1>0, <1>1 DEF EditSetting, vars, Saving
<1>2. CASE RequestSave
  BY <1>0, <1>2 DEF RequestSave, Saving, Spoil
<1>3. ASSUME NEW task \in OtherTasks, RequestOther(task) PROVE Descriptor'
  BY <1>0, <1>3 DEF RequestOther, Saving
<1>4. CASE SaveVR
  BY <1>4, EnterSaveDescriptor DEF SaveVR, Saving, SaveSteps, BeforeWrite, Threads
<1>5. CASE StartTask
  <2>1. CASE EnterSave("task")
    BY <1>5, <2>1, EnterSaveDescriptor
       DEF StartTask, Saving, SaveSteps, BeforeWrite, Threads
  <2>2. CASE Goto("task", "Other") /\ UNCHANGED spoiled
    BY <1>0, <1>5, <2>2
       DEF StartTask, Goto, Saving, SaveSteps, BeforeWrite, Threads
  <2> QED
    BY <1>5, <2>1, <2>2 DEF StartTask
<1>6. CASE FinishOther
  BY <1>0, <1>6 DEF FinishOther, Goto, Saving, SaveSteps, BeforeWrite, Threads
<1>7. ASSUME NEW t \in Threads, SaveStep(t) PROVE Descriptor'
  BY <1>7, SaveStepDescriptor
<1>8. CASE PowerCycle
  BY <1>8 DEF PowerCycle, BootState, Saving, SaveSteps, BeforeWrite, Threads
<1> QED
  BY <1>1, <1>2, <1>3, <1>4, <1>5, <1>6, <1>7, <1>8 DEF Next

-----------------------------------------------------------------------------
(* No silent loss.                                                         *)

\* The waiting SaveTasks move up when the head leaves the pool.
LEMMA TailKeepsPending ==
  ASSUME NEW p \in Seq(Tasks), p # <<>>,
         NEW i \in 1..Len(p), p[i] = "SaveTask", i > 1
  PROVE  \E j \in 1..Len(Tail(p)) : Tail(p)[j] = "SaveTask"
<1>1. i - 1 \in 1..Len(Tail(p)) /\ Tail(p)[i - 1] = p[i]
  BY DropTask
<1> QED
  BY <1>1

\* A request leaves a pending save pending, and RequestSave makes one unless
\* a ghost task holds a slot of a full pool.
LEMMA RequestKeepsPending ==
  ASSUME TypeInv, NEW task \in Tasks, UNCHANGED pc,
         pool' = IF PoolFull THEN pool ELSE Append(pool, task)
  PROVE  /\ SavePending => SavePending'
         /\ task = "SaveTask" /\ ~(PoolFull /\ \E i \in 1..Len(pool) : pool[i] \in OtherTasks)
              => SavePending'
<1>1. /\ pool \in Seq(Tasks) /\ Len(pool) \in Nat
      /\ pc["task"] # "Idle" => pool # <<>>
  BY PoolType
<1>2. SavePending => SavePending'
  <2>1. \A i \in 1..Len(pool) : i \in 1..Len(pool') /\ pool'[i] = pool[i]
    BY <1>1, AppendTask
  <2> QED
    BY <2>1 DEF SavePending
<1>3. ASSUME task = "SaveTask",
             ~(PoolFull /\ \E i \in 1..Len(pool) : pool[i] \in OtherTasks)
      PROVE  SavePending'
  <2>1. CASE PoolFull
    <3>1. 2 \in 1..Len(pool) /\ pool[2] \in Tasks
      BY <1>1, <2>1 DEF PoolFull
    <3>2. pool[2] = "SaveTask"
      BY <1>3, <2>1, <3>1 DEF Tasks
    <3>3. pool' = pool /\ 2 > 1
      BY <2>1
    <3> QED
      BY <3>1, <3>2, <3>3 DEF SavePending
  <2>2. CASE ~PoolFull
    <3>1. /\ pool' = Append(pool, "SaveTask")
          /\ Len(pool') = Len(pool) + 1 /\ pool'[Len(pool) + 1] = "SaveTask"
      BY <1>1, <1>3, <2>2, AppendTask
    <3>2. Len(pool) + 1 \in 1..Len(pool')
      BY <1>1, <3>1
    <3>3. Len(pool) + 1 > 1 \/ pc["task"] = "Idle"
      BY <1>1
    <3> QED
      BY <3>1, <3>2, <3>3 DEF SavePending
  <2> QED
    BY <2>1, <2>2
<1> QED
  BY <1>2, <1>3

\* One step of a Save that did not go wrong either keeps a save pending or
\* is the write itself.
LEMMA SaveStepPending ==
  ASSUME IInv, NEW t \in Threads, SaveStep(t), SavesWentWell',
         Newer(requested, disk[1]) => SavePending
  PROVE  Newer(requested', disk'[1]) => SavePending'
<1>1. /\ pool \in Seq(Tasks) /\ pc \in [Threads -> PCs]
      /\ pc["task"] # "Idle" => pool # <<>>
      /\ spoiled \subseteq {"unread"} /\ spoiled' \subseteq {"unread"}
  BY PoolType DEF SavesWentWell, IInv, SaveStep, Open, SeekEnd, SeekStart, Overwrite, Write, Close,
     Closed, Spoil
<1>2. CASE pc'[t] \in BeforeWrite
  BY <1>2 DEF SavePending
<1>3. CASE Write(t)
  <2>1. /\ fd \in open /\ pos[fd] = 0
        /\ disk' = WriteBlock(disk, pos[fd], mem)
    BY <1>1, <1>3 DEF Write, Spoil, IInv, WriteReady
  <2>2. disk'[1] = mem
    BY <2>1, SavedFile DEF IInv, TypeInv
  <2>3. ~Newer(requested', mem)
    BY <1>3 DEF Write, IInv, VersionOrder
  <2> QED
    BY <2>2, <2>3
<1>4. CASE Close(t)
  <2>1. pool' = pool /\ requested' = requested /\ disk' = disk
        /\ pc[t] = "Close" /\ \A u \in Threads \ {t} : pc'[u] = pc[u]
    BY <1>1, <1>4 DEF Close, Goto
  <2>2. SavePending => SavePending'
    BY <2>1 DEF SavePending, BeforeWrite, Threads
  <2> QED
    BY <2>1, <2>2
<1>5. CASE Closed(t)
  <2>1. /\ requested' = requested /\ disk' = disk /\ pc[t] = "Closed"
        /\ pc'[t] = "Idle" /\ \A u \in Threads \ {t} : pc'[u] = pc[u]
        /\ pool' = IF t = "task" THEN Tail(pool) ELSE pool
    BY <1>1, <1>5 DEF Closed, Goto
  <2>2. ASSUME NEW u \in Threads, pc[u] \in BeforeWrite PROVE SavePending'
    <3>1. pc'[u] = pc[u]
      BY <2>1, <2>2 DEF BeforeWrite
    <3> QED
      BY <2>2, <3>1 DEF SavePending
  <2>3. ASSUME NEW i \in 1..Len(pool), pool[i] = "SaveTask", i > 1 \/ pc["task"] = "Idle"
        PROVE  SavePending'
    <3>1. CASE t = "task"
      <4>1. pool # <<>> /\ i > 1 /\ pool' = Tail(pool)
        BY <1>1, <2>1, <2>3, <3>1
      <4>2. \E j \in 1..Len(pool') : pool'[j] = "SaveTask"
        BY <1>1, <2>3, <4>1, TailKeepsPending
      <4> QED
        BY <2>1, <3>1, <4>2 DEF SavePending
    <3>2. CASE t # "task"
      BY <2>1, <2>3, <3>2 DEF SavePending, Threads
    <3> QED
      BY <3>1, <3>2
  <2> QED
    BY <2>1, <2>2, <2>3 DEF SavePending
<1>6. CASE Open(t) \/ SeekEnd(t) \/ SeekStart(t)
  BY <1>1, <1>2, <1>6 DEF Open, SeekEnd, SeekStart, Goto, BeforeWrite
<1>7. CASE Overwrite(t)
  <2>1. fd # NoFd
    BY <1>1, <1>7 DEF IInv, OpenRefused, Overwrite
  <2> QED
    BY <1>1, <1>2, <1>7, <2>1 DEF Overwrite, Goto, BeforeWrite
<1> QED
  BY <1>3, <1>4, <1>5, <1>6, <1>7 DEF SaveStep

\* No step loses a save that was asked for.
LEMMA LossStep == IInv /\ [Next]_vars => NoSilentLoss'
<1> SUFFICES ASSUME IInv, [Next]_vars, SavesWentWell', Newer(requested', disk'[1])
             PROVE  SavePending'
  BY DEF NoSilentLoss
<1>1. /\ pool \in Seq(Tasks) /\ pc \in [Threads -> PCs] /\ "SaveTask" \in Tasks
      /\ OtherTasks \subseteq Tasks
      /\ pc["task"] # "Idle" => pool # <<>>
      /\ TypeInv /\ RunningTaskKind
      /\ SavesWentWell /\ Newer(requested, disk[1]) => SavePending
      /\ spoiled' \subseteq {"unread"}
      /\ spoiled \subseteq {"unread"} <=> SavesWentWell
  BY PoolType DEF IInv, NoSilentLoss, SavesWentWell
<1>2. CASE RequestSave
  <2>1. ~(PoolFull /\ \E i \in 1..Len(pool) : pool[i] \in OtherTasks)
    BY <1>1, <1>2 DEF RequestSave, Spoil
  <2> QED
    BY <1>1, <1>2, <2>1, RequestKeepsPending DEF RequestSave
<1>3. ASSUME NEW task \in OtherTasks, RequestOther(task) PROVE SavePending'
  <2>1. task \in Tasks
    BY DEF Tasks
  <2>2. requested' = requested /\ disk' = disk /\ spoiled' = spoiled
    BY <1>3 DEF RequestOther
  <2>3. SavePending
    BY <1>1, <2>2
  <2> QED
    BY <1>1, <1>3, <2>1, <2>3, RequestKeepsPending DEF RequestOther
<1>4. CASE SaveVR
  BY <1>1, <1>4 DEF SaveVR, EnterSave, Goto, SavePending, BeforeWrite, Threads
<1>5. CASE StartTask
  <2>1. CASE Head(pool) = "SaveTask"
    BY <1>1, <1>5, <2>1 DEF StartTask, EnterSave, Goto, SavePending, BeforeWrite, Threads
  <2>2. CASE Head(pool) # "SaveTask"
    <3>1. /\ pool' = pool /\ pc'["main"] = pc["main"] /\ pc["task"] = "Idle"
          /\ SavesWentWell /\ Newer(requested, disk[1]) /\ pool[1] # "SaveTask"
      BY <1>1, <1>5, <2>2, DropTask DEF StartTask, Goto, Threads
    <3> QED
      BY <1>1, <3>1 DEF SavePending, BeforeWrite, Threads
  <2> QED
    BY <2>1, <2>2
<1>6. CASE FinishOther
  <2>1. /\ pool' = Tail(pool) /\ pc'["task"] = "Idle" /\ pc'["main"] = pc["main"]
        /\ pc["task"] = "Other" /\ pool # <<>> /\ pool[1] # "SaveTask" /\ SavePending
    <3>1. /\ pool' = Tail(pool) /\ pc'["task"] = "Idle" /\ pc'["main"] = pc["main"]
          /\ pc["task"] = "Other" /\ pool # <<>>
          /\ requested' = requested /\ disk' = disk /\ spoiled' = spoiled
      BY <1>1, <1>6 DEF FinishOther, Goto, Threads
    <3>2. Head(pool) \in OtherTasks /\ Head(pool) = pool[1]
      BY <1>1, <3>1, DropTask DEF RunningTaskKind
    <3>3. pool[1] # "SaveTask" /\ SavePending
      BY <1>1, <3>1, <3>2
    <3> QED
      BY <3>1, <3>3
  <2>2. CASE pc["main"] \in BeforeWrite
    BY <2>1, <2>2 DEF SavePending, Threads
  <2>3. CASE pc["main"] \notin BeforeWrite
    <3>1. PICK i \in 1..Len(pool) : pool[i] = "SaveTask" /\ i > 1
      BY <2>1, <2>3 DEF SavePending, BeforeWrite, Threads
    <3>2. \E j \in 1..Len(pool') : pool'[j] = "SaveTask"
      BY <1>1, <2>1, <3>1, TailKeepsPending
    <3> QED
      BY <2>1, <3>2 DEF SavePending
  <2> QED
    BY <2>2, <2>3
<1>7. ASSUME NEW t \in Threads, SaveStep(t) PROVE SavePending'
  <2>1. SavesWentWell
    BY <1>1, <1>7 DEF SaveStep, Open, SeekEnd, SeekStart, Overwrite, Write, Close, Closed, Spoil
  <2> QED
    BY <1>1, <1>7, <2>1, SaveStepPending
<1>8. CASE PowerCycle
  <2>1. disk'[1] \in Versions /\ requested' = disk'[1]
    BY <1>8, BootFile DEF PowerCycle, IInv, TypeInv
  <2> QED
    BY <2>1, NewerOrder
<1>9. CASE EditSetting \/ UNCHANGED vars
  BY <1>1, <1>9 DEF EditSetting, vars, SavePending
<1> QED
  BY <1>2, <1>3, <1>4, <1>5, <1>6, <1>7, <1>8, <1>9 DEF Next

\* The inductive invariant holds in every state.
LEMMA Invariance == Spec => []IInv
<1>1. IInv /\ [Next]_vars => IInv'
  <2> SUFFICES ASSUME IInv, [Next]_vars PROVE IInv'
    OBVIOUS
  <2>1. TypeInv'
    BY TypeStep DEF IInv
  <2> QED
    BY <2>1, VersionStep, KindStep, DescriptorStep, LossStep DEF IInv
<1> QED
  BY IInit, <1>1, PTL DEF Spec

\* Whoever saves, IOS has no descriptor open on the save file but the one in
\* FileManager::fd while a Save is under way, unless two Saves overlapped.
THEOREM HandlesNeverLeak == Spec => []NoHandleLeak
<1>1. IInv => NoHandleLeak
  BY DEF IInv
<1> QED
  BY Invariance, <1>1, PTL

\* A request dropped by a full pool of SaveTasks is never the loss of a
\* setting: with a pool of two or more, a later SaveTask still has to start.
THEOREM SavesNeverLost == Spec => []NoSilentLoss
<1>1. IInv => NoSilentLoss
  BY DEF IInv
<1> QED
  BY Invariance, <1>1, PTL

\* No interleaving of the two threads' Saves replaces what a boot would read
\* by an older version, and the defaults replace it only after a boot that
\* could not read it.
THEOREM StoredIsMonotone == Spec => StoredNeverRegresses
<1> DEFINE Kept == /\ ~Newer(disk[1], disk'[1])
                   /\ disk'[1].era # disk[1].era => "unread" \in spoiled'
<1>1. IInv /\ [Next]_vars => [Kept]_vars
  <2> SUFFICES ASSUME IInv, Next PROVE Kept
    BY DEF vars
  <2>1. /\ TypeOK /\ disk[1] \in Versions /\ mem \in Versions
        /\ ~Newer(disk[1], mem)
        /\ "unread" \notin spoiled => mem.era = disk[1].era
    BY DEF IInv, TypeInv, TypeOK, VersionOrder, EraOfBoot
  <2>2. CASE PowerCycle
    BY <2>1, <2>2, BootFile
  <2>3. ASSUME NEW t \in Threads, SaveStep(t) PROVE Kept
    <3>1. spoiled \subseteq spoiled'
      BY <2>3 DEF SaveStep, Open, SeekEnd, SeekStart, Overwrite, Write, Close, Closed, Spoil
    <3> QED
      BY <2>1, <2>3, <3>1, SaveStepFile, NewerOrder
  <2>4. CASE disk' = disk
    BY <2>1, <2>4, NewerOrder
  <2> QED
    BY <2>2, <2>3, <2>4 DEF Next, EditSetting, RequestSave, SaveVR, StartTask,
       FinishOther, RequestOther
<1> QED
  BY Invariance, <1>1, PTL DEF Spec, StoredNeverRegresses

\* Without overlap the save file never grows.
THEOREM FileNeverGrows == Spec => SavesInPlace
<1>1. IInv /\ [Next]_vars => [Len(disk') # Len(disk) => "overlap" \in spoiled]_vars
  <2> SUFFICES ASSUME IInv, Next, Len(disk') # Len(disk) PROVE "overlap" \in spoiled
    BY DEF vars
  <2>1. ~PowerCycle
    BY BootFile DEF IInv, TypeInv
  <2> QED
    BY <2>1, SaveStepFile DEF Next, EditSetting, RequestSave, SaveVR, StartTask,
       FinishOther, RequestOther
<1> QED
  BY Invariance, <1>1, PTL DEF Spec, SavesInPlace

\* The save path implements the durable cell: for any two threads' Saves in
\* any order, a boot reads one whole version that was once in memory, or
\* cannot read the file and starts over.
THEOREM Refinement == Spec => ImplementsDurableCell
<1> DEFINE cell == <<mem, disk[1], "unread" \in spoiled>>
<1>1. Init => Cell!Init
  BY DEF Init, Cell!Init, Cell!Defaults, Defaults
<1>2. IInv /\ [Next]_vars => [Cell!Next]_cell
  <2> SUFFICES ASSUME IInv, [Next]_vars PROVE Cell!Next \/ UNCHANGED cell
    BY DEF Cell!Next
  <2>1. CASE EditSetting \/ SaveVR
    <3>1. ("unread" \in spoiled') = ("unread" \in spoiled)
      BY <2>1 DEF EditSetting, SaveVR, EnterSave, Spoil
    <3>2. mem' = [mem EXCEPT !.edits = @ + 1] /\ disk' = disk
      BY <2>1 DEF EditSetting, SaveVR, Edited
    <3> QED
      BY <3>1, <3>2 DEF Cell!Next, Cell!Edit
  <2>2. ASSUME NEW t \in Threads, SaveStep(t) PROVE Cell!Next \/ UNCHANGED cell
    <3>1. ("unread" \in spoiled') = ("unread" \in spoiled)
      BY <2>2 DEF SaveStep, Open, SeekEnd, SeekStart, Overwrite, Write, Close, Closed, Spoil
    <3>2. disk'[1] \in {disk[1], mem} /\ mem' = mem
      BY <2>2, SaveStepFile
    <3> QED
      BY <3>1, <3>2 DEF Cell!Next, Cell!Store
  <2>3. CASE PowerCycle
    <3>1. \/ mem' = disk[1] /\ disk' = disk /\ spoiled' = {}
          \/ /\ mem' = Defaults(disk[1].era + 1) /\ disk'[1] \in {disk[1], mem'}
             /\ spoiled' = {"unread"}
      BY <2>3, BootFile DEF IInv, TypeInv
    <3> QED
      BY <3>1 DEF Cell!Next, Cell!Recover, Cell!StartOver, Cell!Defaults, Defaults
  <2>4. CASE RequestSave \/ StartTask \/ FinishOther \/ UNCHANGED vars
              \/ (\E task \in OtherTasks : RequestOther(task))
    <3>1. ("unread" \in spoiled') = ("unread" \in spoiled)
      BY <2>4 DEF RequestSave, StartTask, FinishOther, RequestOther, EnterSave, Spoil, vars
    <3>2. mem' = mem /\ disk' = disk
      BY <2>4 DEF RequestSave, StartTask, FinishOther, RequestOther, vars
    <3> QED
      BY <3>1, <3>2
  <2> QED
    BY <2>1, <2>2, <2>3, <2>4 DEF Next
<1> QED
  BY Invariance, <1>1, <1>2, PTL DEF Spec, ImplementsDurableCell, Cell!Spec
=============================================================================
