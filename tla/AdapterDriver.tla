---------------------------- MODULE AdapterDriver ----------------------------
(***************************************************************************)
(* The driver of the GameCube controller adapter (WUP-028): a chain of     *)
(* asynchronous calls to the USB module of IOS, each callback making the   *)
(* next call, and the game's own pad reader, which takes what the last     *)
(* report left behind.  Callbacks are interrupts: they come between any    *)
(* two steps of the reader.                                                *)
(*                                                                         *)
(* IOS is external.  A call on a closed descriptor is refused at once, any *)
(* other is answered later; an answer is an error when the device is gone  *)
(* and may be one at any time; a GET_DEVICE_CHANGE is answered when the    *)
(* list of devices is not the one last told.                               *)
(***************************************************************************)
EXTENDS IosCalls, Integers, Sequences, SequencesExt

CONSTANTS
  Adapters,    \* identities an adapter gets, one per plugging in
  Others,      \* identities of other USB devices
  None,        \* mAdapterId = -1
  BusOrders,   \* the lists of devices there may be
  Timeout,     \* GCN_TIMEOUT_MS, in ticks
  MaxChanges   \* bound: pluggings in and out

Devices == Adapters \union Others

ASSUME AdapterAssumption ==
  /\ Adapters \intersect Others = {} /\ None \notin Devices
  /\ BusOrders \subseteq Seq(Devices) /\ <<>> \in BusOrders
  /\ Timeout \in Nat /\ MaxChanges \in Nat

VARIABLES
  bus,        \* external: the devices, in the order IOS lists them
  fd,         \* mHidFd: "open" or "closed"
  isWorking, isInit, adapterId,
  pollDevice, \* PollMsg4.device
  calls,      \* calls not answered yet: how many of each kind, and on what
  told,       \* external: the list IOS told last
  status,     \* mStatus: "unset", "error" or the device its report is of
  age,        \* ticks since mLastDataWrite
  reader,     \* CustomPADRead: "idle", or "copy" before it copies mStatus
  shown,      \* what it gave the game last
  forgotten,  \* history: how often a list made the driver forget its adapter
  changes

vars == <<bus, fd, isWorking, isInit, adapterId, pollDevice, calls, told, status, age,
          reader, shown, forgotten, failures, changes>>

driver == <<isInit, adapterId, pollDevice>>
pads == <<status, age, reader, shown>>
world == <<bus, changes>>

Statuses == {"unset", "error"} \union Adapters
NoCalls == [change |-> 0, init |-> <<>>, poll |-> <<>>]
Calls == [change : Nat, init : Seq(Adapters), poll : Seq(Adapters \union {None})]

-----------------------------------------------------------------------------
\* OnInit: version 4 of the module asks for the devices; without the module
\* or with version 5 nothing is asked.
Init ==
  /\ bus \in BusOrders /\ told = <<None>>
  /\ \/ fd = "open" /\ calls \in {[NoCalls EXCEPT !.change = 1], NoCalls}
     \/ fd = "closed" /\ calls = NoCalls
  /\ isWorking = FALSE /\ isInit = FALSE
  /\ adapterId = None /\ pollDevice = None
  /\ status = "unset" /\ age = 0
  /\ reader = "idle" /\ shown = "pad"
  /\ forgotten = 0 /\ failures = 0 /\ changes = 0

OnError == isWorking' = FALSE /\ fd' = "closed"

\* The answer of a call on a device that is gone.
Gone(device) == device \notin Range(bus)

-----------------------------------------------------------------------------
(* OnUsbChangeVer4.                                                         *)

\* The entries before the first adapter; all of them without one.
Before(list) ==
  LET found == {i \in 1..Len(list) : list[i] \in Adapters}
  IN  IF found = {} THEN Len(list) ELSE (CHOOSE i \in found : \A j \in found : i <= j) - 1

\* mAdapterId when the scan comes to the adapter: each other device resets it.
\* (wrong variant) It is not looked at.
IdAtAdapterUnknown(list) == None
IdAtAdapter(list) == IF Before(list) > 0 THEN None ELSE adapterId

\* The next change is asked for at every other device, and not after the
\* adapter or an empty list.
\* (wrong variant) Once, when the list holds the adapter.
AskedWithAdapter(list) == IF Before(list) < Len(list) THEN 1 ELSE 0
Asked(list) == Before(list)

DeviceChange ==
  /\ calls.change > 0 /\ told # bus
  /\ told' = bus
  /\ LET n == Before(bus)
         found == n < Len(bus)
         device == bus[n + 1]
     IN  /\ isInit' = (isInit \/ n > 0)
         /\ isWorking' = (isWorking /\ n = 0)
         /\ adapterId' = IF found THEN device ELSE IF n > 0 THEN None ELSE adapterId
         /\ calls' = [calls EXCEPT
                        !.change = IF fd = "open" THEN @ - 1 + Asked(bus) ELSE @ - 1,
                        !.init = IF found /\ IdAtAdapter(bus) # device /\ fd = "open"
                                 THEN Append(@, device) ELSE @]
         /\ forgotten' = IF adapterId # None /\ (n > 0 \/ adapterId' # adapterId)
                         THEN forgotten + 1 ELSE forgotten
         \* The last call on a closed descriptor is refused: OnError again.
         /\ UNCHANGED fd
  /\ Answered /\ UNCHANGED <<pollDevice, pads, world>>

DeviceChangeFails ==
  /\ calls.change > 0
  /\ calls' = [calls EXCEPT !.change = @ - 1]
  /\ OnError /\ Refused
  /\ UNCHANGED <<driver, told, forgotten, pads, world>>

-----------------------------------------------------------------------------
(* OnUsbInitVer4: the adapter took the INIT message.                        *)

\* The result of the first poll is not looked at.
AdapterInit(i) ==
  /\ ~Gone(calls.init[i])
  /\ isInit' = TRUE /\ pollDevice' = adapterId
  /\ calls' = [calls EXCEPT !.init = RemoveAt(@, i),
                            !.poll = IF fd = "open" THEN Append(@, adapterId) ELSE @]
  /\ Answered
  /\ UNCHANGED <<fd, isWorking, adapterId, told, forgotten, pads, world>>

AdapterInitFails(i) ==
  /\ calls' = [calls EXCEPT !.init = RemoveAt(@, i)]
  /\ OnError
  /\ IF Gone(calls.init[i]) THEN Answered ELSE Refused
  /\ UNCHANGED <<driver, told, forgotten, pads, world>>

-----------------------------------------------------------------------------
(* OnUsbPoll.                                                               *)

\* A packet, with a report or of another kind; the next poll is sent at once.
\* (wrong variant) The next poll's result is not looked at.
AfterPollUnchecked == isWorking' = TRUE /\ UNCHANGED fd
\* (wrong variant) It does not bring the adapter back.
AfterPollKept == IF fd = "open" THEN UNCHANGED <<isWorking, fd>> ELSE OnError
AfterPoll == IF fd = "open" THEN isWorking' = TRUE /\ UNCHANGED fd ELSE OnError

Poll(i) ==
  /\ ~Gone(calls.poll[i])
  /\ \/ status' = calls.poll[i] /\ age' = 0
     \/ UNCHANGED <<status, age>>
  /\ calls' = [calls EXCEPT !.poll = IF fd = "open" THEN Append(RemoveAt(@, i), pollDevice)
                                     ELSE RemoveAt(@, i)]
  /\ AfterPoll /\ Answered
  /\ UNCHANGED <<driver, told, forgotten, reader, shown, world>>

PollFails(i) ==
  /\ calls' = [calls EXCEPT !.poll = RemoveAt(@, i)]
  /\ OnError
  /\ IF Gone(calls.poll[i]) THEN Answered ELSE Refused
  /\ UNCHANGED <<driver, told, forgotten, pads, world>>

-----------------------------------------------------------------------------
(* CustomPADRead, once a frame.                                             *)

\* Reports that are too old are marked as errors first.
\* (wrong variant) They are not.
MarkedNever == status
Marked == IF age > Timeout THEN "error" ELSE status

\* Without the adapter, PADRead; else the check of the time, and the copy.
ReadPads ==
  /\ reader = "idle"
  /\ IF isWorking /\ isInit
     THEN /\ status' = Marked
          /\ reader' = "copy"
          /\ UNCHANGED shown
     ELSE shown' = "pad" /\ UNCHANGED <<status, reader>>
  /\ UNCHANGED <<fd, isWorking, driver, calls, told, age, forgotten, failures, world>>

\* The copy of mStatus, a moment later.
CopyPads ==
  /\ reader = "copy"
  /\ shown' = status
  /\ reader' = "idle"
  /\ UNCHANGED <<fd, isWorking, driver, calls, told, status, age, forgotten, failures, world>>

-----------------------------------------------------------------------------
(* The world.                                                               *)

Plug ==
  /\ changes < MaxChanges /\ changes' = changes + 1
  /\ bus' \in BusOrders \ {bus}
  /\ UNCHANGED <<fd, isWorking, driver, calls, told, pads, forgotten, failures>>

Tick ==
  /\ age <= Timeout
  /\ age' = age + 1
  /\ UNCHANGED <<fd, isWorking, driver, calls, told, status, reader, shown, forgotten,
                 failures, world>>

Answer ==
  \/ DeviceChange \/ DeviceChangeFails
  \/ \E i \in 1..Len(calls.init) : AdapterInit(i) \/ AdapterInitFails(i)
  \/ \E i \in 1..Len(calls.poll) : Poll(i) \/ PollFails(i)

Next == Answer \/ ReadPads \/ CopyPads \/ Plug \/ Tick

Spec == Init /\ [][Next]_vars

\* IOS answers the calls on devices that are there and tells of changes; a
\* call on a device that is gone may hang.  Frames and time go on.
AnswerAPoll ==
  \E i \in 1..Len(calls.poll) :
    /\ ~Gone(calls.poll[i])
    /\ Poll(i) \/ PollFails(i)
AnswerAnInit ==
  \E i \in 1..Len(calls.init) :
    /\ ~Gone(calls.init[i])
    /\ AdapterInit(i) \/ AdapterInitFails(i)

FairSpec ==
  /\ Spec
  /\ WF_vars(AnswerAPoll) /\ WF_vars(AnswerAnInit)
  /\ WF_vars(DeviceChange)
  /\ WF_vars(ReadPads) /\ WF_vars(CopyPads) /\ WF_vars(Tick)

-----------------------------------------------------------------------------
AdapterTypeOK ==
  /\ bus \in BusOrders /\ told \in BusOrders \union {<<None>>}
  /\ fd \in {"open", "closed"}
  /\ isWorking \in BOOLEAN /\ isInit \in BOOLEAN
  /\ adapterId \in Adapters \union {None} /\ pollDevice \in Adapters \union {None}
  /\ calls \in Calls
  /\ status \in Statuses /\ shown \in Statuses \union {"pad"}
  /\ age \in 0..(Timeout + 1) /\ forgotten \in 0..(MaxChanges + 1)
  /\ reader \in {"idle", "copy"}
  /\ failures \in 0..MaxFailures /\ changes \in 0..MaxChanges

\* The game's own pads are only set aside while a poll is on its way, whose
\* answer will refresh them or give them back (WUP028.cpp:99, 160-208).
WorkingIsPolled == isWorking => calls.poll # <<>>

\* Until the adapter is found the driver listens for changes of the device
\* list; an empty list is the one that leaves it deaf (WUP028.cpp:237-246).
ListensUntilFound ==
  fd = "open" /\ calls.init = <<>> /\ calls.poll = <<>> /\ told # <<None>>
    => calls.change > 0 \/ told = <<>>

\* One chain of calls keeps an adapter going and fills the one buffer; only a
\* list that has another device before it, or another adapter, which makes the
\* driver forget its own and greet one again, adds a chain to the one that may
\* still run (WUP028.cpp:230, 239-243, 261).
ChainsAreCounted == Len(calls.init) + Len(calls.poll) <= 1 + forgotten

\* What the game is shown of an adapter that was unplugged does not stay: the
\* pads come back, or are marked as errors (WUP028.cpp:97-126).
UnpluggedIsSeen ==
  \A a \in Adapters : (shown = a /\ Gone(a)) ~> (shown # a \/ ~Gone(a))

\* An adapter that was found is used, unless it is unplugged or a call fails.
FoundIsUsed ==
  \A a \in Adapters :
    (adapterId = a) ~> (isWorking \/ fd = "closed" \/ Gone(a) \/ adapterId # a)
=============================================================================
