---------------------------- MODULE DriverProofs -----------------------------
(***************************************************************************)
(* Proofs about the two drivers that work by IOS calls: AdapterDriver, for *)
(* any devices, lists of devices and bounds, and SDCard, for any threads,  *)
(* sizes of the card and of tmpBuffer, addresses, requests and bounds.     *)
(* They share IosCalls and nothing else.                                   *)
(***************************************************************************)
EXTENDS AdapterDriver, SDCard, WellFoundedInduction, TLAPS

-----------------------------------------------------------------------------
(* The operators of the model.                                              *)

\* A set of numbers has a smallest one.
LEMMA Smallest ==
  ASSUME NEW S, S \subseteq Nat, S # {}
  PROVE  \E n \in S : \A m \in S : n <= m
<1> DEFINE R == OpToRel(<, Nat)
<1>1. IsWellFoundedOn(R, Nat)
  BY NatLessThanWellFounded
<1>2. \A m, n \in Nat : m < n => <<m, n>> \in R
  BY DEF OpToRel
<1> HIDE DEF R
<1>3. PICK n \in S : \A m \in S : ~ (<<m, n>> \in R)
  BY <1>1, WFMin
<1>4. ASSUME NEW m \in S PROVE n <= m
  <2>1. m \in Nat /\ n \in Nat /\ ~ (<<m, n>> \in R)
    BY <1>3
  <2>2. ~ (m < n)
    BY <1>2, <2>1
  <2> QED
    BY <2>1, <2>2
<1> QED
  BY <1>4

\* The scan of a list stops at its first adapter, or at its end.
LEMMA BeforeIsFirst ==
  ASSUME NEW list \in Seq(Devices)
  PROVE  /\ Before(list) \in 0..Len(list)
         /\ Before(list) < Len(list) => list[Before(list) + 1] \in Adapters
<1> DEFINE found == {i \in 1..Len(list) : list[i] \in Adapters}
           first == CHOOSE i \in found : \A j \in found : i <= j
<1>1. CASE found = {}
  BY <1>1 DEF Before
<1>2. CASE found # {}
  <2>1. \E i \in found : \A j \in found : i <= j
    <3>1. found \subseteq Nat
      OBVIOUS
    <3> HIDE DEF found
    <3> QED
      BY <1>2, <3>1, Smallest
  <2>2. first \in found
    BY <2>1
  <2>3. Before(list) = first - 1
    BY <1>2 DEF Before
  <2> HIDE DEF first
  <2> QED
    BY <2>2, <2>3
<1> QED
  BY <1>1, <1>2

\* One call less.
LEMMA RemoveAtType ==
  ASSUME NEW S, NEW s \in Seq(S), NEW i \in 1..Len(s)
  PROVE  RemoveAt(s, i) \in Seq(S) /\ Len(RemoveAt(s, i)) = Len(s) - 1
<1> DEFINE before == SubSeq(s, 1, i - 1)
           after == SubSeq(s, i + 1, Len(s))
<1>1. /\ before \in Seq(S) /\ Len(before) = i - 1
      /\ after \in Seq(S) /\ Len(after) = Len(s) - i
  OBVIOUS
<1>2. RemoveAt(s, i) = before \o after
  BY DEF RemoveAt
<1> HIDE DEF before, after
<1>3. before \o after \in Seq(S) /\ Len(before \o after) = Len(before) + Len(after)
  BY <1>1
<1> QED
  BY <1>1, <1>2, <1>3

\* One call more.
LEMMA AppendType ==
  ASSUME NEW S, NEW s \in Seq(S), NEW e \in S
  PROVE  Append(s, e) \in Seq(S) /\ Len(Append(s, e)) = Len(s) + 1
OBVIOUS

\* The calls of the first moment.
LEMMA FirstCalls ==
  ASSUME NEW first \in {[NoCalls EXCEPT !.change = 1], NoCalls}
  PROVE  first \in Calls /\ first.init = <<>> /\ first.poll = <<>>
<1>1. NoCalls \in Calls /\ NoCalls.init = <<>> /\ NoCalls.poll = <<>>
  BY DEF NoCalls, Calls
<1> DEFINE asked == [NoCalls EXCEPT !.change = 1]
<1>2. asked \in Calls /\ asked.init = NoCalls.init /\ asked.poll = NoCalls.poll
  BY <1>1 DEF Calls
<1> HIDE DEF asked
<1>3. first = NoCalls \/ first = asked
  BY DEF asked
<1> QED
  BY <1>1, <1>2, <1>3

-----------------------------------------------------------------------------
(* The invariant.                                                           *)

\* Chains of calls that are running: a greeting or a poll is on its way.
Inits == calls.init
Polls == calls.poll
Chains == Len(Inits) + Len(Polls)

\* As long as no call has failed, the adapter that was found is in use by one
\* chain at least; every chain was begun for an adapter the driver knows, or
\* forgot since; and it forgets one at most for each list it is told.
AdapterInv ==
  /\ AdapterTypeOK
  /\ WorkingIsPolled /\ ListensUntilFound
  /\ fd = "open" /\ adapterId # None => Chains > 0
  /\ Chains <= forgotten + (IF adapterId # None THEN 1 ELSE 0)
  /\ forgotten <= changes + (IF told # bus THEN 0 ELSE 1)

\* A driver that has just been started has told and asked nothing.
LEMMA AdapterInvInit == Init => AdapterInv
<1> SUFFICES ASSUME Init PROVE AdapterInv
  OBVIOUS
<1>1. calls \in Calls /\ calls.init = <<>> /\ calls.poll = <<>>
  BY FirstCalls DEF Init
<1>2. Chains = 0
  BY <1>1 DEF Chains, Inits, Polls
<1>3. AdapterTypeOK
  <2>1. bus \in BusOrders /\ told \in BusOrders \union {<<None>>} /\ fd \in {"open", "closed"}
    BY DEF Init
  <2>2. age \in 0..(Timeout + 1) /\ forgotten \in 0..(MaxChanges + 1)
    BY AdapterAssumption DEF Init
  <2>3. failures \in 0..MaxFailures /\ changes \in 0..MaxChanges
    BY AdapterAssumption, IosAssumption DEF Init
  <2>4. status \in Statuses /\ shown \in Statuses \union {"pad"} /\ reader \in {"idle", "copy"}
    BY DEF Init, Statuses
  <2>5. isWorking \in BOOLEAN /\ isInit \in BOOLEAN /\ adapterId = None /\ pollDevice = None
    BY DEF Init
  <2> QED
    BY <1>1, <2>1, <2>2, <2>3, <2>4, <2>5 DEF AdapterTypeOK
<1>4. WorkingIsPolled /\ ListensUntilFound
  BY DEF Init, WorkingIsPolled, ListensUntilFound
<1> QED
  BY <1>2, <1>3, <1>4 DEF Init, AdapterInv

\* A list of devices is told: another chain begins only when the driver did not
\* know this adapter, or forgets what it knew.
LEMMA DeviceChangeKeeps == AdapterInv /\ DeviceChange => AdapterInv'
<1> SUFFICES ASSUME AdapterInv, DeviceChange PROVE AdapterInv'
  OBVIOUS
<1> DEFINE n == Before(bus)
           listed == bus[n + 1]
           greets == n < Len(bus) /\ IdAtAdapter(bus) # listed /\ fd = "open"
           asked == IF fd = "open" THEN calls.change - 1 + Asked(bus) ELSE calls.change - 1
           more == IF greets THEN 1 ELSE 0
           greeted == IF greets THEN Append(Inits, listed) ELSE Inits
<1>1. AdapterTypeOK /\ WorkingIsPolled /\ ListensUntilFound
  BY DEF AdapterInv
<1>2. /\ bus \in Seq(Devices) /\ n \in 0..Len(bus)
      /\ n < Len(bus) => listed \in Adapters
  BY <1>1, BeforeIsFirst, AdapterAssumption DEF AdapterTypeOK
<1>3. calls.change \in Nat /\ Inits \in Seq(Adapters) /\ Polls \in Seq(Adapters \union {None})
  BY <1>1 DEF AdapterTypeOK, Calls, Inits, Polls
<1>4. calls' = [calls EXCEPT !.change = asked, !.init = greeted]
  BY DEF DeviceChange, Inits
<1>5. asked \in Nat /\ (fd = "open" => asked >= n) /\ calls.change > 0
  BY <1>2, <1>3 DEF DeviceChange, Asked
<1>6. greeted \in Seq(Adapters) /\ Len(greeted) = Len(Inits) + more
  <2>1. CASE greets
    <3>1. listed \in Adapters
      BY <1>2, <2>1
    <3>2. greeted = Append(Inits, listed) /\ more = 1
      BY <2>1
    <3> HIDE DEF n, listed, greeted, more, greets
    <3> QED
      BY <1>3, <3>1, <3>2, AppendType
  <2>2. CASE ~greets
    <3>1. greeted = Inits /\ more = 0
      BY <2>2
    <3> HIDE DEF greeted, more
    <3> QED
      BY <1>3, <3>1
  <2> HIDE DEF greets, greeted, more
  <2> QED
    BY <2>1, <2>2
<1>7. /\ told' = bus /\ told # bus
      /\ isInit' = (isInit \/ n > 0) /\ isWorking' = (isWorking /\ n = 0)
      /\ adapterId' = IF n < Len(bus) THEN listed ELSE IF n > 0 THEN None ELSE adapterId
      /\ forgotten' = IF adapterId # None /\ (n > 0 \/ adapterId' # adapterId)
                      THEN forgotten + 1 ELSE forgotten
      /\ UNCHANGED <<fd, failures, pollDevice, status, age, reader, shown, bus, changes>>
  BY DEF DeviceChange, Answered, pads, world
<1>8. greets <=> (n < Len(bus) /\ (n > 0 \/ adapterId # listed) /\ fd = "open")
  BY <1>2, AdapterAssumption DEF IdAtAdapter, Devices
<1> HIDE DEF n, listed, greets, asked, greeted
<1>9. more \in 0..1
  OBVIOUS
<1>10. more = 1 <=> greets
  OBVIOUS
<1> HIDE DEF more
<1>11. calls' \in Calls /\ calls'.change = asked /\ Inits' = greeted /\ Polls' = Polls
  BY <1>1, <1>3, <1>4, <1>5, <1>6 DEF AdapterTypeOK, Calls, Inits, Polls
<1>12. Chains' = Chains + more /\ Chains \in Nat
  BY <1>3, <1>6, <1>11, <1>9 DEF Chains
<1>13. forgotten' <= changes' + (IF told' # bus' THEN 0 ELSE 1)
  BY <1>1, <1>7 DEF AdapterInv, AdapterTypeOK
<1>14. AdapterTypeOK'
  BY <1>1, <1>2, <1>7, <1>11, <1>13, AdapterAssumption DEF AdapterTypeOK
<1>15. WorkingIsPolled'
  BY <1>1, <1>7, <1>11 DEF WorkingIsPolled, Polls
<1>16. fd' = "open" /\ adapterId' # None => Chains' > 0
  BY <1>2, <1>7, <1>8, <1>12, <1>9, <1>10 DEF AdapterInv
<1>17. ListensUntilFound'
  <2> SUFFICES ASSUME fd = "open", calls'.init = <<>>, calls'.poll = <<>>, bus # <<>>
               PROVE  calls'.change > 0
    BY <1>7 DEF ListensUntilFound
  <2>1. Chains' = 0
    BY DEF Chains, Inits, Polls
  <2>2. adapterId' = None
    BY <1>7, <1>16, <2>1
  <2>3. n = Len(bus) /\ Len(bus) > 0
    BY <1>2, <1>7, <2>2, AdapterAssumption DEF Devices
  <2> QED
    BY <1>5, <1>11, <2>3
<1>18. Chains' <= forgotten' + (IF adapterId' # None THEN 1 ELSE 0)
  BY <1>1, <1>2, <1>7, <1>8, <1>12, <1>9, <1>10, AdapterAssumption DEF AdapterInv, AdapterTypeOK, Devices
<1> QED
  BY <1>13, <1>14, <1>15, <1>16, <1>17, <1>18 DEF AdapterInv

\* What a step that tells no list may do: the chains stay as many, or some end
\* and the descriptor is closed.
LEMMA ChainStepKeeps ==
  ASSUME AdapterInv, AdapterTypeOK', WorkingIsPolled',
         UNCHANGED <<adapterId, told, forgotten, bus, changes>>,
         \/ fd' = fd /\ Chains' = Chains /\ calls'.change = calls.change
         \/ fd' = "closed" /\ Chains' <= Chains
  PROVE  AdapterInv'
<1>1. Chains \in Nat /\ Chains' \in Nat
  <2>1. /\ Inits \in Seq(Adapters) /\ Polls \in Seq(Adapters \union {None})
        /\ Inits' \in Seq(Adapters) /\ Polls' \in Seq(Adapters \union {None})
    BY DEF AdapterInv, AdapterTypeOK, Calls, Inits, Polls
  <2> QED
    BY <2>1 DEF Chains
<1>2. forgotten \in Nat /\ forgotten <= changes + (IF told # bus THEN 0 ELSE 1)
      /\ Chains <= forgotten + (IF adapterId # None THEN 1 ELSE 0)
      /\ (fd = "open" /\ adapterId # None => Chains > 0)
  BY DEF AdapterInv, AdapterTypeOK
<1>3. Chains' <= forgotten' + (IF adapterId' # None THEN 1 ELSE 0)
  BY <1>1, <1>2
<1>4. fd' = "open" /\ adapterId' # None => Chains' > 0
  BY <1>2
<1>5. ListensUntilFound'
  <2> SUFFICES ASSUME fd' = "open", calls'.init = <<>>, calls'.poll = <<>>, told # <<None>>
               PROVE  calls'.change > 0 \/ told = <<>>
    BY DEF ListensUntilFound
  <2>1. Chains = 0 /\ fd = "open" /\ calls'.change = calls.change
    <3>1. Chains' = 0
      BY DEF Chains, Inits, Polls
    <3> QED
      BY <3>1
  <2>2. calls.init = <<>> /\ calls.poll = <<>>
    <3>1. Inits \in Seq(Adapters) /\ Polls \in Seq(Adapters \union {None})
      BY DEF AdapterInv, AdapterTypeOK, Calls, Inits, Polls
    <3>2. Len(Inits) = 0 /\ Len(Polls) = 0
      BY <2>1, <3>1 DEF Chains
    <3>3. Inits = <<>> /\ Polls = <<>>
      BY <3>1, <3>2
    <3> QED
      BY <3>3 DEF Inits, Polls
  <2> QED
    BY <2>1, <2>2 DEF AdapterInv, ListensUntilFound
<1> QED
  BY <1>2, <1>3, <1>4, <1>5 DEF AdapterInv

\* A call less, or the next one of its chain.
LEMMA CallsType ==
  ASSUME calls \in Calls
  PROVE  /\ Inits \in Seq(Adapters) /\ Polls \in Seq(Adapters \union {None})
         /\ calls.change \in Nat
         /\ \A new \in Nat : [calls EXCEPT !.change = new] \in Calls
         /\ \A new \in Seq(Adapters) : [calls EXCEPT !.init = new] \in Calls
         /\ \A new \in Seq(Adapters \union {None}) : [calls EXCEPT !.poll = new] \in Calls
BY DEF Calls, Inits, Polls

\* The adapter took the INIT message: its chain goes on with a poll.
LEMMA AdapterInitKeeps ==
  ASSUME AdapterInv, NEW i \in 1..Len(calls.init), AdapterInit(i)
  PROVE  AdapterInv'
<1> DEFINE S == Adapters \union {None}
           rest == RemoveAt(Inits, i)
           poll == IF fd = "open" THEN Append(Polls, adapterId) ELSE Polls
<1>1. AdapterTypeOK /\ WorkingIsPolled
  BY DEF AdapterInv
<1>2. /\ Inits \in Seq(Adapters) /\ Polls \in Seq(S) /\ calls.change \in Nat
      /\ calls \in Calls /\ adapterId \in S /\ i \in 1..Len(Inits)
  BY <1>1, CallsType DEF AdapterTypeOK, Inits
<1>3. rest \in Seq(Adapters) /\ Len(rest) = Len(Inits) - 1
  BY <1>2, RemoveAtType
<1>4. CASE fd = "open"
  <2>1. poll \in Seq(S) /\ Len(poll) = Len(Polls) + 1
    <3>1. poll = Append(Polls, adapterId)
      BY <1>4
    <3> HIDE DEF S, poll
    <3> QED
      BY <1>2, <3>1, AppendType
  <2>2. calls' = [calls EXCEPT !.init = rest, !.poll = poll]
    BY DEF AdapterInit, Inits, Polls
  <2>3. /\ pollDevice' = adapterId /\ isInit' = TRUE
        /\ UNCHANGED <<fd, isWorking, adapterId, told, forgotten, status, age, reader, shown,
                       bus, changes, failures>>
    BY DEF AdapterInit, Answered, pads, world
  <2> HIDE DEF rest, poll
  <2>4. calls' \in Calls /\ calls'.change = calls.change /\ Inits' = rest /\ Polls' = poll
    BY <1>2, <1>3, <2>1, <2>2 DEF Calls, Inits, Polls, S
  <2> HIDE DEF S
  <2>5. Chains' = Chains
    <3>1. Len(Inits') = Len(Inits) - 1 /\ Len(Polls') = Len(Polls) + 1
      BY <1>3, <2>1, <2>4
    <3>2. Len(Inits) \in Nat /\ Len(Polls) \in Nat
      BY <1>2
    <3> QED
      BY <3>1, <3>2 DEF Chains
  <2>6. AdapterTypeOK'
    BY <1>1, <1>2, <2>3, <2>4 DEF AdapterTypeOK, S
  <2>7. WorkingIsPolled'
    <3>1. Polls' # <<>>
      BY <1>2, <2>1, <2>4
    <3> QED
      BY <3>1 DEF WorkingIsPolled, Polls
  <2> QED
    BY <2>3, <2>4, <2>5, <2>6, <2>7, ChainStepKeeps
<1>5. CASE fd = "closed"
  <2>1. poll = Polls
    BY <1>5
  <2>2. calls' = [calls EXCEPT !.init = rest, !.poll = poll]
    BY DEF AdapterInit, Inits, Polls
  <2>3. /\ pollDevice' = adapterId /\ isInit' = TRUE
        /\ UNCHANGED <<fd, isWorking, adapterId, told, forgotten, status, age, reader, shown,
                       bus, changes, failures>>
    BY DEF AdapterInit, Answered, pads, world
  <2> HIDE DEF rest, poll
  <2>4. calls' \in Calls /\ calls'.change = calls.change /\ Inits' = rest /\ Polls' = Polls
    BY <1>2, <1>3, <2>1, <2>2 DEF Calls, Inits, Polls, S
  <2> HIDE DEF S
  <2>5. Chains' <= Chains
    BY <1>2, <1>3, <2>4 DEF Chains
  <2>6. AdapterTypeOK'
    BY <1>1, <1>2, <2>3, <2>4 DEF AdapterTypeOK, S
  <2>7. WorkingIsPolled'
    BY <1>1, <2>3, <2>4 DEF WorkingIsPolled, Polls
  <2> QED
    BY <1>5, <2>3, <2>5, <2>6, <2>7, ChainStepKeeps
<1> QED
  BY <1>1, <1>4, <1>5 DEF AdapterTypeOK

\* A device that answers is on the bus, and so no missing one.
LEMMA PolledIsAdapter ==
  ASSUME AdapterTypeOK, NEW i \in 1..Len(Polls), ~Gone(Polls[i])
  PROVE  Polls[i] \in Adapters
<1>1. Polls \in Seq(Adapters \union {None}) /\ bus \in Seq(Devices)
  BY CallsType, AdapterAssumption DEF AdapterTypeOK
<1>2. Polls[i] \in Adapters \union {None}
  BY <1>1
<1>3. Polls[i] \in Devices
  BY <1>1 DEF Gone, Range
<1> QED
  BY <1>2, <1>3, AdapterAssumption

\* A packet: the chain goes on.
LEMMA PollKeeps ==
  ASSUME AdapterInv, NEW i \in 1..Len(Polls), Poll(i)
  PROVE  AdapterInv'
<1> DEFINE S == Adapters \union {None}
           less == RemoveAt(Polls, i)
           more == Append(less, pollDevice)
<1>1. AdapterTypeOK /\ WorkingIsPolled
  BY DEF AdapterInv
<1>2. /\ Inits \in Seq(Adapters) /\ Polls \in Seq(S) /\ calls.change \in Nat
      /\ calls \in Calls /\ pollDevice \in S
  BY <1>1, CallsType DEF AdapterTypeOK
<1>3. less \in Seq(S) /\ Len(less) = Len(Polls) - 1
  <2> HIDE DEF S
  <2> QED
    BY <1>2, RemoveAtType
<1>4. more \in Seq(S) /\ Len(more) = Len(Polls)
  <2> HIDE DEF S, less
  <2>1. Len(more) = Len(less) + 1 /\ more \in Seq(S)
    BY <1>2, <1>3, AppendType
  <2>2. Len(Polls) \in Nat
    BY <1>2
  <2> QED
    BY <1>3, <2>1, <2>2
<1>5. /\ calls' = [calls EXCEPT !.poll = IF fd = "open" THEN more ELSE less]
      /\ ~Gone(Polls[i])
      /\ \/ status' = Polls[i] /\ age' = 0
         \/ UNCHANGED <<status, age>>
      /\ AfterPoll
      /\ UNCHANGED <<isInit, adapterId, pollDevice, told, forgotten, reader, shown, bus, changes,
                     failures>>
  BY DEF Poll, Polls, Answered, driver, world
<1>6. status' \in Statuses /\ age' \in 0..(Timeout + 1)
  <2>1. Polls[i] \in Adapters
    BY <1>1, <1>5, PolledIsAdapter
  <2>2. status \in Statuses /\ age \in 0..(Timeout + 1) /\ Timeout \in Nat
    BY <1>1, AdapterAssumption DEF AdapterTypeOK
  <2> QED
    BY <1>5, <2>1, <2>2 DEF Statuses
<1> HIDE DEF less, more
<1>7. CASE fd = "open"
  <2>1. calls' \in Calls /\ calls'.change = calls.change /\ Inits' = Inits /\ Polls' = more
    BY <1>2, <1>4, <1>5, <1>7 DEF Calls, Inits, Polls, S
  <2> HIDE DEF S
  <2>2. Chains' = Chains
    BY <1>2, <1>4, <2>1 DEF Chains
  <2>3. isWorking' = TRUE /\ fd' = fd
    BY <1>5, <1>7 DEF AfterPoll
  <2>4. AdapterTypeOK'
    BY <1>1, <1>5, <1>6, <2>1, <2>3 DEF AdapterTypeOK
  <2>5. WorkingIsPolled'
    <3>1. Polls' # <<>>
      BY <1>2, <1>4, <2>1
    <3> QED
      BY <3>1 DEF WorkingIsPolled, Polls
  <2> QED
    BY <1>5, <2>1, <2>2, <2>3, <2>4, <2>5, ChainStepKeeps
<1>8. CASE fd = "closed"
  <2>1. calls' \in Calls /\ calls'.change = calls.change /\ Inits' = Inits /\ Polls' = less
    BY <1>2, <1>3, <1>5, <1>8 DEF Calls, Inits, Polls, S
  <2> HIDE DEF S
  <2>2. Chains' <= Chains
    BY <1>2, <1>3, <2>1 DEF Chains
  <2>3. isWorking' = FALSE /\ fd' = "closed"
    BY <1>5, <1>8 DEF AfterPoll, OnError
  <2>4. AdapterTypeOK' /\ WorkingIsPolled'
    BY <1>1, <1>5, <1>6, <2>1, <2>3 DEF AdapterTypeOK, WorkingIsPolled
  <2> QED
    BY <1>5, <2>2, <2>3, <2>4, ChainStepKeeps
<1> QED
  BY <1>1, <1>7, <1>8 DEF AdapterTypeOK

\* A call that failed closes the descriptor, and its chain is over.
LEMMA FailureKeeps ==
  ASSUME AdapterInv, calls' \in Calls, Chains' <= Chains,
         OnError, Answered \/ Refused,
         UNCHANGED <<isInit, adapterId, pollDevice, told, forgotten, status, age, reader, shown,
                     bus, changes>>
  PROVE  AdapterInv'
<1>1. AdapterTypeOK
  BY DEF AdapterInv
<1>2. isWorking' = FALSE /\ fd' = "closed"
  BY DEF OnError
<1>3. failures' \in 0..MaxFailures
  BY <1>1, IosAssumption DEF AdapterTypeOK, Answered, Refused
<1>4. AdapterTypeOK' /\ WorkingIsPolled'
  BY <1>1, <1>2, <1>3 DEF AdapterTypeOK, WorkingIsPolled
<1> QED
  BY <1>2, <1>4, ChainStepKeeps

\* Every way a call fails.
LEMMA FailuresKeep ==
  ASSUME AdapterInv,
         \/ DeviceChangeFails
         \/ \E i \in 1..Len(Inits) : AdapterInitFails(i)
         \/ \E i \in 1..Len(Polls) : PollFails(i)
  PROVE  AdapterInv'
<1> DEFINE S == Adapters \union {None}
<1>1. /\ Inits \in Seq(Adapters) /\ Polls \in Seq(S) /\ calls.change \in Nat /\ calls \in Calls
  BY CallsType DEF AdapterInv, AdapterTypeOK
<1>2. CASE DeviceChangeFails
  <2>1. /\ calls' = [calls EXCEPT !.change = @ - 1] /\ calls.change > 0
        /\ OnError /\ Refused
        /\ UNCHANGED <<isInit, adapterId, pollDevice, told, forgotten, status, age, reader, shown,
                       bus, changes>>
    BY <1>2 DEF DeviceChangeFails, driver, pads, world
  <2>2. calls' \in Calls /\ Inits' = Inits /\ Polls' = Polls
    BY <1>1, <2>1 DEF Calls, Inits, Polls
  <2> HIDE DEF S
  <2>3. Chains' <= Chains
    BY <1>1, <2>2 DEF Chains
  <2> QED
    BY <2>1, <2>2, <2>3, FailureKeeps
<1>3. ASSUME NEW i \in 1..Len(Inits), AdapterInitFails(i) PROVE AdapterInv'
  <2> DEFINE less == RemoveAt(Inits, i)
  <2>1. less \in Seq(Adapters) /\ Len(less) = Len(Inits) - 1
    BY <1>1, RemoveAtType
  <2>2. /\ calls' = [calls EXCEPT !.init = less]
        /\ OnError /\ (Answered \/ Refused)
        /\ UNCHANGED <<isInit, adapterId, pollDevice, told, forgotten, status, age, reader, shown,
                       bus, changes>>
    BY <1>3 DEF AdapterInitFails, Inits, driver, pads, world
  <2> HIDE DEF less
  <2>3. calls' \in Calls /\ Inits' = less /\ Polls' = Polls
    BY <1>1, <2>1, <2>2 DEF Calls, Inits, Polls
  <2> HIDE DEF S
  <2>4. Chains' <= Chains
    BY <1>1, <2>1, <2>3 DEF Chains
  <2> QED
    BY <2>2, <2>3, <2>4, FailureKeeps
<1>4. ASSUME NEW i \in 1..Len(Polls), PollFails(i) PROVE AdapterInv'
  <2> DEFINE less == RemoveAt(Polls, i)
  <2>1. less \in Seq(S) /\ Len(less) = Len(Polls) - 1
    <3> HIDE DEF S
    <3> QED
      BY <1>1, RemoveAtType
  <2>2. /\ calls' = [calls EXCEPT !.poll = less]
        /\ OnError /\ (Answered \/ Refused)
        /\ UNCHANGED <<isInit, adapterId, pollDevice, told, forgotten, status, age, reader, shown,
                       bus, changes>>
    BY <1>4 DEF PollFails, Polls, driver, pads, world
  <2> HIDE DEF less
  <2>3. calls' \in Calls /\ Inits' = Inits /\ Polls' = less
    BY <1>1, <2>1, <2>2 DEF Calls, Inits, Polls
  <2> HIDE DEF S
  <2>4. Chains' <= Chains
    BY <1>1, <2>1, <2>3 DEF Chains
  <2> QED
    BY <2>2, <2>3, <2>4, FailureKeeps
<1> QED
  BY <1>2, <1>3, <1>4

\* Every step keeps the invariant.
LEMMA AdapterInvStep == AdapterInv /\ [Next]_vars => AdapterInv'
<1> SUFFICES ASSUME AdapterInv, [Next]_vars PROVE AdapterInv'
  OBVIOUS
<1>0. AdapterTypeOK /\ WorkingIsPolled /\ Timeout \in Nat
  BY AdapterAssumption DEF AdapterInv
<1>1. CASE Answer
  <2>1. CASE DeviceChange
    BY <2>1, DeviceChangeKeeps
  <2>2. ASSUME NEW i \in 1..Len(Inits), AdapterInit(i) PROVE AdapterInv'
    BY <2>2, AdapterInitKeeps DEF Inits
  <2>3. ASSUME NEW i \in 1..Len(Polls), Poll(i) PROVE AdapterInv'
    BY <2>3, PollKeeps
  <2> QED
    BY <1>1, <2>1, <2>2, <2>3, FailuresKeep DEF Answer, Inits, Polls
<1>2. CASE ReadPads
  <2>1. /\ UNCHANGED <<fd, isWorking, isInit, adapterId, pollDevice, calls, told, age, forgotten,
                       failures, bus, changes>>
        /\ status' \in {"error", status} /\ shown' \in {"pad", shown}
        /\ reader' \in {"copy", reader}
    BY <1>2 DEF ReadPads, Marked, driver, world
  <2>2. AdapterTypeOK' /\ WorkingIsPolled'
    BY <1>0, <2>1 DEF AdapterTypeOK, Statuses, WorkingIsPolled
  <2>3. UNCHANGED Chains
    BY <2>1 DEF Chains, Inits, Polls
  <2> QED
    BY <2>1, <2>2, <2>3, ChainStepKeeps
<1>3. CASE CopyPads
  <2>1. /\ UNCHANGED <<fd, isWorking, isInit, adapterId, pollDevice, calls, told, status, age,
                       forgotten, failures, bus, changes>>
        /\ shown' = status /\ reader' = "idle"
    BY <1>3 DEF CopyPads, driver, world
  <2>2. AdapterTypeOK' /\ WorkingIsPolled'
    BY <1>0, <2>1 DEF AdapterTypeOK, WorkingIsPolled
  <2>3. UNCHANGED Chains
    BY <2>1 DEF Chains, Inits, Polls
  <2> QED
    BY <2>1, <2>2, <2>3, ChainStepKeeps
<1>4. CASE Plug
  <2>1. /\ UNCHANGED <<fd, isWorking, isInit, adapterId, pollDevice, calls, told, status, age,
                       reader, shown, forgotten, failures>>
        /\ changes < MaxChanges /\ changes' = changes + 1 /\ bus' \in BusOrders
    BY <1>4 DEF Plug, driver, pads
  <2>2. AdapterTypeOK' /\ WorkingIsPolled'
    BY <1>0, <2>1, AdapterAssumption DEF AdapterTypeOK, WorkingIsPolled
  <2>3. UNCHANGED Chains
    BY <2>1 DEF Chains, Inits, Polls
  <2>4. forgotten' <= changes' + (IF told' # bus' THEN 0 ELSE 1)
    BY <1>0, <2>1 DEF AdapterInv, AdapterTypeOK
  <2> QED
    BY <2>1, <2>2, <2>3, <2>4 DEF AdapterInv, ListensUntilFound
<1>5. CASE Tick
  <2>1. /\ UNCHANGED <<fd, isWorking, isInit, adapterId, pollDevice, calls, told, status,
                       reader, shown, forgotten, failures, bus, changes>>
        /\ age <= Timeout /\ age' = age + 1
    BY <1>5 DEF Tick, driver, world
  <2>2. AdapterTypeOK' /\ WorkingIsPolled'
    BY <1>0, <2>1 DEF AdapterTypeOK, WorkingIsPolled
  <2>3. UNCHANGED Chains
    BY <2>1 DEF Chains, Inits, Polls
  <2> QED
    BY <2>1, <2>2, <2>3, ChainStepKeeps
<1>6. CASE UNCHANGED vars
  <2>1. UNCHANGED <<fd, isWorking, isInit, adapterId, pollDevice, calls, told, status, age,
                    reader, shown, forgotten, failures, bus, changes>>
    BY <1>6 DEF vars
  <2>2. AdapterTypeOK' /\ WorkingIsPolled'
    BY <1>0, <2>1 DEF AdapterTypeOK, WorkingIsPolled
  <2>3. UNCHANGED Chains
    BY <2>1 DEF Chains, Inits, Polls
  <2> QED
    BY <2>1, <2>2, <2>3, ChainStepKeeps
<1> QED
  BY <1>1, <1>2, <1>3, <1>4, <1>5, <1>6 DEF Next

\* The invariant of every state.
LEMMA AdapterInvariant == Spec => []AdapterInv
BY AdapterInvInit, AdapterInvStep, PTL DEF Spec

-----------------------------------------------------------------------------
(* The properties.                                                          *)

\* Every variable keeps its type: what the pads show is never of a missing
\* device, and lists are told no more often than they change.
THEOREM AdapterTypeCorrect == Spec => []AdapterTypeOK
<1>1. AdapterInv => AdapterTypeOK
  BY DEF AdapterInv
<1> QED
  BY <1>1, AdapterInvariant, PTL

\* However the answers interleave, fail and come too late, the game's own pads
\* are set aside only while a poll is on its way.
THEOREM WorkingCorrect == Spec => []WorkingIsPolled
<1>1. AdapterInv => WorkingIsPolled
  BY DEF AdapterInv
<1> QED
  BY <1>1, AdapterInvariant, PTL

\* As long as no call failed, a driver without a chain of calls to an adapter
\* listens for the next list, unless the last one was empty.
THEOREM ListensCorrect == Spec => []ListensUntilFound
<1>1. AdapterInv => ListensUntilFound
  BY DEF AdapterInv
<1> QED
  BY <1>1, AdapterInvariant, PTL

\* However many devices come and go, in whatever order they are listed, there
\* are no more chains of calls than adapters the driver greeted and forgot.
THEOREM ChainsCorrect == Spec => []ChainsAreCounted
<1>1. AdapterInv => ChainsAreCounted
  <2> SUFFICES ASSUME AdapterInv PROVE ChainsAreCounted
    OBVIOUS
  <2>1. Inits \in Seq(Adapters) /\ Polls \in Seq(Adapters \union {None}) /\ forgotten \in Nat
    BY CallsType DEF AdapterInv, AdapterTypeOK
  <2>2. Chains \in Nat /\ Chains <= forgotten + (IF adapterId # None THEN 1 ELSE 0)
    BY <2>1 DEF AdapterInv, Chains
  <2>3. Chains <= 1 + forgotten
    BY <2>1, <2>2
  <2> QED
    BY <2>3 DEF ChainsAreCounted, Chains, Inits, Polls
<1> QED
  BY <1>1, AdapterInvariant, PTL

-----------------------------------------------------------------------------
(* The inductive invariant of SDCard.                                       *)

\* What the card, a buffer and a transfer look like.
Cards == [present : BOOLEAN, ready : BOOLEAN, hc : BOOLEAN,
          address : Addresses \cup {NoAddress}, selected : BOOLEAN, blocks : BOOLEAN]

Buffers == Seq(Contents)
Jobs == [pc : {"select", "copy", "command", "deselect", "done"}, write : BOOLEAN,
         sector : Nat, count : Nat \ {0}, aligned : BOOLEAN, id : 0..MaxTransfers,
         at : Nat, ok : BOOLEAN, buffer : Buffers, overlap : BOOLEAN, mixed : BOOLEAN]

\* Where a transfer is says how much of it is through.
Consistent(j) ==
  /\ j.at \in 0..j.count /\ j.sector + j.count <= Sectors
  /\ j.buffer \in [1..j.count -> Contents]
  /\ j.pc = "select" => j.at = 0
  /\ j.pc \in {"copy", "command"} => j.at < j.count
  /\ j.pc = "copy" => ~j.aligned
  /\ j.aligned /\ j.pc = "command" => j.at = 0
  /\ j.pc \notin {"deselect", "done"} => j.ok
  /\ j.pc = "deselect" /\ j.ok => j.at = j.count

CardTypes ==
  /\ card \in Cards
  /\ rca \in Addresses \cup {NoAddress} /\ sdhc \in BOOLEAN /\ device \in BOOLEAN
  /\ disk \in [0..(Sectors - 1) -> Contents] /\ tmp \in [1..TmpSectors -> Contents]
  /\ init \in Steps
  /\ begun \in 0..MaxTransfers /\ failures \in 0..MaxFailures /\ swaps \in 0..MaxSwaps

JobTypes ==
  /\ job \in [Threads -> Jobs \cup {Idle}]
  /\ \A t \in Threads : job[t] # Idle => Consistent(job[t])

\* Two transfers that are on their way at once know of each other.
PairsKnown ==
  \A t, u \in Threads :
    t # u /\ Busy(t) /\ Busy(u) =>
      job[t].overlap /\ (Mixes(job[t], job[u]) => job[t].mixed)

\* Nothing is transferred before the mount, and nothing else during it.
Scheduled ==
  \A t \in Threads : Busy(t) => init = "mounted" \/ (init = "mounting" /\ t = Main)

\* After the status is read the driver counts in the unit of the card.
UnitKnown ==
  init \in {"select", "block size", "mount", "mounting", "mounted"} /\ card.ready
    => sdhc = card.hc

\* As long as nothing failed and nobody touched the card, one that came
\* through the start has the address that the driver selects it by, and it
\* stays selected for a transfer that is alone.
Healthy ==
  failures = 0 /\ swaps = 0 =>
    /\ init \in {"select", "block size", "mount", "mounting", "mounted"} => card.ready
    /\ init = "block size" /\ card.selected => rca = card.address
    /\ init \in {"mount", "mounting", "mounted"} => card.blocks /\ rca = card.address
    /\ \A t \in Threads :
         job[t].pc \in {"copy", "command"} /\ ~job[t].overlap => card.selected

\* What of a transfer is through is on the card, and what it put into
\* tmpBuffer, or read into it, is still there.
RightOn(j, sectors, buffer) ==
  j.ok /\ ~j.mixed =>
    /\ \A i \in 1..j.at : j.buffer[i] = sectors[j.sector + i - 1]
    /\ j.pc = "command" /\ j.write /\ ~j.aligned =>
         \A i \in 1..Chunk(j) : buffer[i] = j.buffer[j.at + i]
    /\ j.pc = "copy" /\ ~j.write =>
         \A i \in 1..Chunk(j) : buffer[i] = sectors[j.sector + j.at + i - 1]

DataKept == \A t \in Threads : Busy(t) => RightOn(job[t], disk, tmp)

FailureExplained ==
  \A t \in Threads :
    job[t].pc = "deselect" /\ ~job[t].ok => job[t].overlap \/ failures > 0 \/ swaps > 0

SDInv ==
  /\ CardTypes /\ JobTypes /\ PairsKnown /\ Scheduled /\ UnitKnown /\ Healthy
  /\ DataKept /\ FailureExplained

-----------------------------------------------------------------------------
(* The operators of the model.                                              *)

\* A sector number that was turned into a byte address comes back out of it.
LEMMA BytesBack ==
  ASSUME NEW a \in Nat, NEW size \in Nat \ {0}
  PROVE  (a * size) \div size = a
<1> DEFINE q == (a * size) \div size
<1>1. a * size \in Nat
  OBVIOUS
<1>2. q \in Int /\ size * q <= a * size /\ a * size < size * q + size
  BY <1>1
<1> HIDE DEF q
<1>3. q <= a
  BY <1>2
<1>4. a < q + 1
  BY <1>2
<1> QED
  BY <1>2, <1>3, <1>4 DEF q

\* What is indexed from one is a buffer.
LEMMA BufferType ==
  ASSUME NEW n \in Nat, NEW f \in [1..n -> Contents]
  PROVE  f \in Buffers
BY DEF Buffers

\* A thread that is not idle has a transfer.
LEMMA LiveJob ==
  ASSUME JobTypes, NEW t \in Threads, job[t].pc # "idle"
  PROVE  job[t] \in Jobs /\ Consistent(job[t])
BY DEF JobTypes, Idle

\* There is something to transfer, no more than is left, and through tmpBuffer
\* no more than it holds.
LEMMA ChunkBounds ==
  ASSUME NEW j \in Jobs, Consistent(j), j.pc \in {"copy", "command"}
  PROVE  /\ Chunk(j) \in Nat /\ 1 <= Chunk(j) /\ j.at + Chunk(j) <= j.count
         /\ ~j.aligned => Chunk(j) <= TmpSectors
         /\ j.aligned => j.at + Chunk(j) = j.count
BY SDCardAssumption DEF Jobs, Consistent, Chunk

\* What a transfer is for does not change.
SameRequest(j, k) ==
  /\ k.write = j.write /\ k.sector = j.sector /\ k.count = j.count
  /\ k.aligned = j.aligned /\ k.overlap = j.overlap /\ k.mixed = j.mixed

\* Where a transfer goes on after n more sectors.
LEMMA NextChunkIs ==
  ASSUME NEW j \in Jobs, j.at \in 0..j.count,
         j.sector + j.count <= Sectors, j.buffer \in [1..j.count -> Contents],
         j.aligned => j.at \in {0, j.count}, j.ok
  PROVE  /\ NextChunk(j) \in Jobs /\ Consistent(NextChunk(j)) /\ SameRequest(j, NextChunk(j))
         /\ NextChunk(j).at = j.at /\ NextChunk(j).buffer = j.buffer /\ NextChunk(j).ok
         /\ NextChunk(j).pc \in {"copy", "command", "deselect"}
         /\ NextChunk(j).pc = "copy" => j.write
         /\ NextChunk(j).pc = "command" => ~j.write \/ j.aligned
<1>1. PICK pc \in {"copy", "command", "deselect"} :
        /\ NextChunk(j) = [j EXCEPT !.pc = pc]
        /\ pc = "deselect" <=> j.at = j.count
        /\ pc = "copy" => j.write /\ ~j.aligned
        /\ pc = "command" => ~j.write \/ j.aligned
  BY DEF NextChunk, Jobs
<1>2. NextChunk(j) \in Jobs /\ SameRequest(j, NextChunk(j))
      /\ NextChunk(j).at = j.at /\ NextChunk(j).buffer = j.buffer /\ NextChunk(j).ok
      /\ NextChunk(j).pc = pc
  BY <1>1 DEF Jobs, SameRequest
<1>3. Consistent(NextChunk(j))
  BY <1>1, <1>2 DEF Consistent, SameRequest, Jobs
<1> QED
  BY <1>1, <1>2, <1>3

\* Where a transfer is after the chunk it is at.
LEMMA AdvancedIs ==
  ASSUME NEW j \in Jobs, Consistent(j), j.pc \in {"copy", "command"}
  PROVE  LET k == Advanced(j, Chunk(j))
         IN  /\ k \in Jobs /\ Consistent(k) /\ SameRequest(j, k)
             /\ k.at = j.at + Chunk(j) /\ k.buffer = j.buffer /\ k.ok
             /\ k.pc \in {"copy", "command", "deselect"}
             /\ k.pc = "copy" => j.write
             /\ k.pc = "command" => ~j.write \/ j.aligned
<1> DEFINE l == [j EXCEPT !.at = @ + Chunk(j)]
<1>1. /\ Chunk(j) \in Nat /\ 1 <= Chunk(j) /\ j.at + Chunk(j) <= j.count
      /\ j.aligned => j.at + Chunk(j) = j.count
  BY ChunkBounds
<1>2. /\ l \in Jobs /\ SameRequest(j, l) /\ l.at = j.at + Chunk(j) /\ l.buffer = j.buffer
      /\ l.ok = j.ok
  BY <1>1 DEF Jobs, SameRequest
<1>3. Advanced(j, Chunk(j)) = NextChunk(l)
  BY DEF Advanced
<1>4. j.ok /\ j.at \in 0..j.count /\ j.sector + j.count <= Sectors
      /\ j.buffer \in [1..j.count -> Contents]
  BY DEF Consistent
<1> HIDE DEF l
<1>5. /\ l.at \in 0..l.count /\ l.sector + l.count <= Sectors
      /\ l.buffer \in [1..l.count -> Contents] /\ (l.aligned => l.at \in {0, l.count}) /\ l.ok
  BY <1>1, <1>2, <1>4 DEF SameRequest, Jobs
<1>6. /\ NextChunk(l) \in Jobs /\ Consistent(NextChunk(l)) /\ SameRequest(l, NextChunk(l))
      /\ NextChunk(l).at = l.at /\ NextChunk(l).buffer = l.buffer /\ NextChunk(l).ok
      /\ NextChunk(l).pc \in {"copy", "command", "deselect"}
      /\ NextChunk(l).pc = "copy" => l.write
      /\ NextChunk(l).pc = "command" => ~l.write \/ l.aligned
  BY <1>2, <1>5, NextChunkIs
<1> QED
  BY <1>2, <1>3, <1>6 DEF SameRequest

\* A chunk whose command reaches the card is of the sectors asked for.
LEMMA UnitAgrees ==
  ASSUME CardTypes, UnitKnown, Scheduled, NEW t \in Threads, Busy(t), card.ready,
         job[t] \in Jobs
  PROVE  Target(FirstBlock(job[t])) = job[t].sector + job[t].at
<1> DEFINE a == job[t].sector + job[t].at
<1>1. sdhc = card.hc
  BY DEF Scheduled, UnitKnown
<1>2. a \in Nat /\ SectorSize \in Nat \ {0}
  BY SDCardAssumption DEF Jobs
<1>3. FirstBlock(job[t]) = IF sdhc THEN a ELSE a * SectorSize
  BY DEF FirstBlock
<1> HIDE DEF a
<1>4. (a * SectorSize) \div SectorSize = a
  BY <1>2, BytesBack
<1>5. card.hc \in BOOLEAN
  BY DEF CardTypes, Cards
<1> QED
  BY <1>1, <1>3, <1>4, <1>5 DEF Target, a

-----------------------------------------------------------------------------
(* What a step leaves alone.                                                *)

\* A step of one transfer.
LEMMA JobSteps ==
  ASSUME SDInv, NEW t \in Threads, Busy(t), NEW k \in Jobs, Consistent(k),
         SameRequest(job[t], k), Step(t, k), init' = init
  PROVE  /\ JobTypes' /\ PairsKnown' /\ Scheduled'
         /\ job'[t] = k /\ \A u \in Threads \ {t} : job'[u] = job[u]
<1>1. job' = [job EXCEPT ![t] = k] /\ job \in [Threads -> Jobs \cup {Idle}]
  BY DEF Step, SDInv, JobTypes
<1>2. job'[t] = k /\ \A u \in Threads \ {t} : job'[u] = job[u]
  BY <1>1
<1>3. job' \in [Threads -> Jobs \cup {Idle}]
  BY <1>1
<1>4. \A u \in Threads : job'[u] # Idle => Consistent(job'[u])
  BY <1>2 DEF SDInv, JobTypes
<1>5. JobTypes'
  BY <1>3, <1>4 DEF JobTypes, Consistent
<1>6. \A u \in Threads : Busy(u)' => Busy(u)
  BY <1>2 DEF Busy
<1>7. \A u \in Threads : SameRequest(job[u], job'[u]) \/ job'[u] = job[u]
  BY <1>2
<1>8. \A u, v \in Threads : Mixes(job'[u], job'[v]) <=> Mixes(job[u], job[v])
  BY <1>7 DEF Mixes, SameRequest
<1>9. \A u \in Threads : job'[u].overlap = job[u].overlap /\ job'[u].mixed = job[u].mixed
  BY <1>7 DEF SameRequest
<1>10. PairsKnown'
  BY <1>6, <1>8, <1>9 DEF SDInv, PairsKnown, Mixes
<1>11. Scheduled'
  BY <1>6 DEF SDInv, Scheduled
<1> QED
  BY <1>2, <1>5, <1>10, <1>11

\* A transfer is right as long as what it uses stays as it is.
LEMMA RightStays ==
  ASSUME NEW j \in Jobs, Consistent(j), RightOn(j, disk, tmp),
         j.ok /\ ~j.mixed =>
           /\ \A s \in j.sector..(j.sector + j.count - 1) : disk'[s] = disk[s]
           /\ ~j.aligned => tmp' = tmp
  PROVE  RightOn(j, disk', tmp')
<1> SUFFICES ASSUME j.ok, ~j.mixed
             PROVE  /\ \A i \in 1..j.at : j.buffer[i] = disk'[j.sector + i - 1]
                    /\ j.pc = "command" /\ j.write /\ ~j.aligned =>
                         \A i \in 1..Chunk(j) : tmp'[i] = j.buffer[j.at + i]
                    /\ j.pc = "copy" /\ ~j.write =>
                         \A i \in 1..Chunk(j) : tmp'[i] = disk'[j.sector + j.at + i - 1]
  BY DEF RightOn
<1>1. j.sector \in Nat /\ j.count \in Nat /\ j.at \in 0..j.count
  BY DEF Jobs, Consistent
<1>2. \A i \in 1..j.at : j.buffer[i] = disk'[j.sector + i - 1]
  BY <1>1 DEF RightOn
<1>3. j.pc = "command" /\ j.write /\ ~j.aligned =>
        \A i \in 1..Chunk(j) : tmp'[i] = j.buffer[j.at + i]
  BY DEF RightOn
<1>4. j.pc = "copy" /\ ~j.write =>
        \A i \in 1..Chunk(j) : tmp'[i] = disk'[j.sector + j.at + i - 1]
  <2> SUFFICES ASSUME j.pc = "copy", ~j.write, NEW i \in 1..Chunk(j)
               PROVE  tmp'[i] = disk'[j.sector + j.at + i - 1]
    OBVIOUS
  <2>1. Chunk(j) \in Nat /\ j.at + Chunk(j) <= j.count
    BY ChunkBounds
  <2>2. j.sector + j.at + i - 1 \in j.sector..(j.sector + j.count - 1)
    BY <1>1, <2>1
  <2>3. tmp[i] = disk[j.sector + j.at + i - 1] /\ ~j.aligned
    BY DEF RightOn, Consistent
  <2> QED
    BY <2>2, <2>3
<1> QED
  BY <1>2, <1>3, <1>4

\* While one transfer moves, any other that shares nothing with it stays right.
LEMMA OthersRight ==
  ASSUME SDInv, NEW t \in Threads, Busy(t), NEW u \in Threads \ {t}, Busy(u)', job'[u] = job[u],
         tmp' = tmp \/ ~job[t].aligned,
         \A s \in 0..(Sectors - 1) :
           disk'[s] # disk[s] =>
             job[t].write /\ s \in job[t].sector..(job[t].sector + job[t].count - 1)
  PROVE  RightOn(job[u], disk', tmp')
<1> DEFINE j == job[t]
           k == job[u]
<1>1. Busy(u) /\ RightOn(k, disk, tmp)
  BY DEF Busy, SDInv, DataKept
<1>2. j \in Jobs /\ k \in Jobs /\ Consistent(k)
  BY <1>1, LiveJob DEF Busy, SDInv
<1>3. ~k.mixed => ~Mixes(k, j)
  BY <1>1 DEF SDInv, PairsKnown
<1> HIDE DEF j, k
<1>4. ASSUME ~k.mixed
      PROVE  /\ \A s \in k.sector..(k.sector + k.count - 1) : disk'[s] = disk[s]
             /\ ~k.aligned => tmp' = tmp
  <2>1. ~Mixes(k, j)
    BY <1>3, <1>4
  <2>2. ASSUME NEW s \in k.sector..(k.sector + k.count - 1) PROVE disk'[s] = disk[s]
    <3>1. s \in 0..(Sectors - 1)
      BY <1>2, SDCardAssumption DEF Jobs, Consistent
    <3>2. ~(j.write /\ s \in j.sector..(j.sector + j.count - 1))
      BY <1>2, <2>1 DEF Mixes, Jobs
    <3> QED
      BY <3>1, <3>2 DEF j
  <2>3. ~k.aligned => tmp' = tmp
    BY <2>1 DEF Mixes, j
  <2> QED
    BY <2>2, <2>3
<1> QED
  BY <1>1, <1>2, <1>4, RightStays DEF k

\* Until the card is mounted nothing is transferred.
LEMMA NotYet ==
  ASSUME SDInv, init \notin {"mounting", "mounted"}, UNCHANGED <<job, disk, tmp>>
  PROVE  /\ \A t \in Threads : ~Busy(t) /\ ~Busy(t)'
         /\ JobTypes' /\ PairsKnown' /\ Scheduled' /\ DataKept' /\ FailureExplained'
<1>1. \A t \in Threads : ~Busy(t) /\ ~Busy(t)'
  BY DEF SDInv, Scheduled, Busy
<1>2. JobTypes'
  BY DEF SDInv, JobTypes, Consistent
<1> QED
  BY <1>1, <1>2 DEF PairsKnown, Scheduled, DataKept, FailureExplained, Busy

-----------------------------------------------------------------------------
(* The steps of a transfer.                                                 *)

\* What every step of a transfer has to show of the transfer k it leaves.
LEMMA TransferKeeps ==
  ASSUME SDInv, NEW t \in Threads, Busy(t), NEW k \in Jobs, Consistent(k),
         SameRequest(job[t], k), Step(t, k), CardTypes', UNCHANGED <<statics, swaps>>,
         failures' >= failures,
         card'.ready = card.ready /\ card'.hc = card.hc,
         card'.address = card.address /\ card'.blocks = card.blocks,
         tmp' = tmp \/ ~job[t].aligned,
         \A s \in 0..(Sectors - 1) :
           disk'[s] # disk[s] =>
             job[t].write /\ s \in job[t].sector..(job[t].sector + job[t].count - 1),
         k.pc # "done" => RightOn(k, disk', tmp'),
         failures' = 0 /\ swaps = 0 /\ k.pc \in {"copy", "command"} /\ ~k.overlap
           => card'.selected,
         k.pc = "deselect" /\ ~k.ok => k.overlap \/ failures' > 0 \/ swaps > 0
  PROVE  SDInv'
<1>1. init' = init /\ sdhc' = sdhc /\ rca' = rca /\ swaps' = swaps
  BY DEF statics
<1>2. /\ JobTypes' /\ PairsKnown' /\ Scheduled'
      /\ job'[t] = k /\ \A u \in Threads \ {t} : job'[u] = job[u]
  BY <1>1, JobSteps
<1>3. failures \in Nat /\ failures' \in Nat /\ swaps \in Nat
  BY DEF SDInv, CardTypes
<1>4. UnitKnown'
  BY <1>1 DEF SDInv, UnitKnown
<1>5. Healthy'
  <2> SUFFICES ASSUME failures' = 0, swaps' = 0 PROVE Healthy'
    BY DEF Healthy
  <2>1. failures = 0 /\ swaps = 0
    BY <1>1, <1>3
  <2>2. ASSUME NEW u \in Threads \ {t}, job'[u].pc \in {"copy", "command"} PROVE job'[u].overlap
    BY <1>2, <2>2 DEF SDInv, PairsKnown, Busy
  <2>3. ~(init = "block size") /\ init \in {"mounting", "mounted"}
    BY DEF SDInv, Scheduled
  <2> QED
    BY <1>1, <1>2, <2>1, <2>2, <2>3 DEF SDInv, Healthy
<1>6. DataKept'
  <2> SUFFICES ASSUME NEW u \in Threads, Busy(u)' PROVE RightOn(job'[u], disk', tmp')
    BY DEF DataKept, RightOn, Chunk
  <2>1. CASE u = t
    BY <1>2, <2>1 DEF Busy
  <2>2. CASE u # t
    BY <1>2, <2>2, OthersRight
  <2> QED
    BY <2>1, <2>2
<1>7. FailureExplained'
  BY <1>1, <1>2, <1>3 DEF SDInv, FailureExplained
<1> QED
  BY <1>2, <1>4, <1>5, <1>6, <1>7 DEF SDInv

\* Of a write that reaches the card some sectors are written, from the next on.
LEMMA WrittenInside ==
  ASSUME SDInv, NEW t \in Threads, job[t].pc = "command", job[t].write, Reaches(job[t]),
         NEW n \in 0..Chunk(job[t])
  PROVE  LET j == job[t]
             d == Written(j, n)
         IN  /\ d \in [0..(Sectors - 1) -> Contents]
             /\ \A s \in 0..(Sectors - 1) :
                  d[s] # disk[s] => s \in (j.sector + j.at)..(j.sector + j.count - 1)
             /\ \A i \in 1..n : d[j.sector + j.at + i - 1] = Outgoing(j)[i]
<1> DEFINE j == job[t]
           first == j.sector + j.at
<1>1. j \in Jobs /\ Consistent(j) /\ Busy(t)
  BY LiveJob DEF SDInv, Busy
<1>2. Target(FirstBlock(j)) = first
  BY <1>1, UnitAgrees DEF SDInv, Reaches
<1>3. /\ Chunk(j) \in Nat /\ j.at + Chunk(j) <= j.count
      /\ (~j.aligned => Chunk(j) <= TmpSectors) /\ (j.aligned => j.at + Chunk(j) = j.count)
  BY <1>1, ChunkBounds
<1>4. first \in Nat /\ first + Chunk(j) <= j.sector + j.count /\ j.sector + j.count <= Sectors
      /\ Sectors \in Nat /\ TmpSectors \in Nat
  BY <1>1, <1>3, SDCardAssumption DEF Jobs, Consistent
<1>5. \A i \in 1..n : Outgoing(j)[i] \in Contents
  <2>1. CASE j.aligned
    BY <1>1, <1>3, <2>1 DEF Outgoing, Consistent, Jobs
  <2>2. CASE ~j.aligned
    BY <1>3, <1>4, <2>2 DEF Outgoing, SDInv, CardTypes
  <2> QED
    BY <2>1, <2>2
<1>6. disk \in [0..(Sectors - 1) -> Contents]
  BY DEF SDInv, CardTypes
<1>7. Written(j, n) = [s \in 0..(Sectors - 1) |->
                         IF s \in first..(first + n - 1) THEN Outgoing(j)[s - first + 1]
                         ELSE disk[s]]
  BY <1>2, <1>6 DEF Written
<1>8. n \in Nat /\ first + n <= j.sector + j.count
  BY <1>1, <1>3, <1>4 DEF Jobs
<1> DEFINE out == Outgoing(j)
           last == j.sector + j.count - 1
           d == Written(j, n)
<1>9. last \in Int /\ first + n - 1 <= last /\ last < Sectors
  BY <1>1, <1>4, <1>8 DEF Jobs
<1> HIDE DEF first, j, out, last
<1>10. Written(j, n) \in [0..(Sectors - 1) -> Contents]
  BY <1>4, <1>5, <1>6, <1>7, <1>8
<1>11. \A s \in 0..(Sectors - 1) : d[s] # disk[s] => s \in first..last
  BY <1>4, <1>7, <1>8, <1>9
<1>12. \A i \in 1..n : d[first + i - 1] = Outgoing(j)[i]
  <2> SUFFICES ASSUME NEW i \in 1..n PROVE d[first + i - 1] = Outgoing(j)[i]
    OBVIOUS
  <2>1. first + i - 1 \in 0..(Sectors - 1) /\ first + i - 1 \in first..(first + n - 1)
        /\ (first + i - 1) - first + 1 = i
    BY <1>4, <1>8, <1>9
  <2> QED
    BY <1>7, <2>1
<1> QED
  BY <1>10, <1>11, <1>12 DEF first, last, j

\* A selection changes nothing else of the card, and does what it is for
\* unless it fails.
LEMMA SelectionIs ==
  ASSUME CardTypes, NEW a, Selection(a)
  PROVE  /\ card' \in Cards
         /\ card'.ready = card.ready /\ card'.hc = card.hc
         /\ card'.address = card.address /\ card'.blocks = card.blocks
         /\ failures' \in 0..MaxFailures /\ failures' >= failures
         /\ failures' = 0 => (card'.selected <=> card.ready /\ a = card.address)
<1>1. card \in Cards /\ failures \in 0..MaxFailures /\ MaxFailures \in Nat
  BY IosAssumption DEF CardTypes
<1>2. CASE card' = [card EXCEPT !.selected = card.ready /\ a = card.address] /\ Answered
  <2> DEFINE b == card.ready /\ a = card.address
  <2>1. b \in BOOLEAN /\ card' = [card EXCEPT !.selected = b] /\ failures' = failures
    BY <1>2 DEF Answered
  <2> HIDE DEF b
  <2>2. /\ card' \in Cards /\ (card'.selected <=> b)
        /\ card'.ready = card.ready /\ card'.hc = card.hc
        /\ card'.address = card.address /\ card'.blocks = card.blocks
    BY <1>1, <2>1 DEF Cards
  <2> QED
    BY <1>1, <2>1, <2>2 DEF b
<1>3. CASE Refused /\ UNCHANGED card
  BY <1>1, <1>3 DEF Refused
<1> QED
  BY <1>2, <1>3 DEF Selection

\* The card is selected for the transfer.
LEMMA SelectKeeps ==
  ASSUME SDInv, NEW t \in Threads, SD_Select(t)
  PROVE  SDInv'
<1> DEFINE k == NextChunk(job[t])
<1>1. /\ job[t].pc = "select" /\ Selection(rca) /\ Step(t, k)
      /\ UNCHANGED <<disk, tmp, statics, begun, swaps>>
  BY DEF SD_Select
<1>2. Busy(t) /\ job[t] \in Jobs /\ Consistent(job[t])
  BY <1>1, LiveJob DEF SDInv, Busy
<1>3. job[t].at = 0 /\ job[t].ok
  BY <1>1, <1>2 DEF Consistent
<1>4. /\ k \in Jobs /\ Consistent(k) /\ SameRequest(job[t], k)
      /\ k.at = 0 /\ k.ok
      /\ k.pc \in {"copy", "command", "deselect"}
      /\ (k.pc = "copy" => k.write) /\ (k.pc = "command" => ~k.write \/ k.aligned)
  BY <1>2, <1>3, NextChunkIs DEF Consistent, SameRequest
<1> HIDE DEF k
<1>5. /\ card' \in Cards
      /\ card'.ready = card.ready /\ card'.hc = card.hc
      /\ card'.address = card.address /\ card'.blocks = card.blocks
      /\ failures' \in 0..MaxFailures /\ failures' >= failures
      /\ failures' = 0 => (card'.selected <=> card.ready /\ rca = card.address)
  BY <1>1, SelectionIs DEF SDInv
<1>6. CardTypes'
  BY <1>1, <1>5 DEF SDInv, CardTypes, statics
<1>7. RightOn(k, disk', tmp')
  BY <1>4 DEF RightOn
<1>8. failures' = 0 /\ swaps = 0 => card'.selected
  <2> SUFFICES ASSUME failures' = 0, swaps = 0 PROVE card'.selected
    OBVIOUS
  <2>1. failures = 0
    BY <1>5 DEF SDInv, CardTypes
  <2>2. init \in {"mounting", "mounted"}
    BY <1>2 DEF SDInv, Scheduled
  <2> QED
    BY <1>5, <2>1, <2>2 DEF SDInv, Healthy
<1> QED
  BY <1>1, <1>2, <1>4, <1>5, <1>6, <1>7, <1>8, TransferKeeps

\* The next chunk is put into tmpBuffer, for which nobody else may wait.
LEMMA CopyInKeeps ==
  ASSUME SDInv, NEW t \in Threads, CopyIn(t)
  PROVE  SDInv'
<1> DEFINE j == job[t]
           n == Chunk(j)
           k == [j EXCEPT !.pc = "command"]
<1>1. /\ j.pc = "copy" /\ j.write /\ Step(t, k)
      /\ tmp' = [i \in 1..TmpSectors |-> IF i <= n THEN j.buffer[j.at + i] ELSE tmp[i]]
      /\ UNCHANGED <<card, disk, statics, bounds>>
  BY DEF CopyIn
<1>2. Busy(t) /\ j \in Jobs /\ Consistent(j) /\ RightOn(j, disk, tmp)
  BY <1>1, LiveJob DEF SDInv, DataKept, Busy
<1>3. k \in Jobs /\ Consistent(k) /\ SameRequest(j, k) /\ k.pc = "command" /\ (k.ok <=> j.ok)
      /\ k.at = j.at /\ k.buffer = j.buffer /\ ~j.aligned
  BY <1>1, <1>2 DEF Jobs, Consistent, SameRequest
<1>4. n \in Nat /\ j.at + n <= j.count /\ n <= TmpSectors /\ Chunk(k) = n
  BY <1>1, <1>2, <1>3, ChunkBounds DEF Chunk, SameRequest
<1>5. j.at \in Nat /\ TmpSectors \in Nat /\ j.count \in Nat
      /\ j.buffer \in [1..j.count -> Contents] /\ tmp \in [1..TmpSectors -> Contents]
  BY <1>2, SDCardAssumption DEF Jobs, Consistent, SDInv, CardTypes
<1> HIDE DEF j, k, n
<1>6. \A i \in 1..Chunk(k) : tmp'[i] = k.buffer[k.at + i]
  BY <1>1, <1>3, <1>4, <1>5
<1>7. tmp' \in [1..TmpSectors -> Contents]
  <2>1. \A i \in 1..TmpSectors : i <= n => j.buffer[j.at + i] \in Contents
    BY <1>4, <1>5
  <2> QED
    BY <1>1, <1>5, <2>1
<1>8. CardTypes'
  BY <1>1, <1>7 DEF SDInv, CardTypes, statics, bounds
<1>9. RightOn(k, disk', tmp')
  <2>1. k.ok /\ ~k.mixed => j.ok /\ ~j.mixed
    BY <1>3 DEF SameRequest
  <2>2. disk' = disk /\ k.sector = j.sector /\ k.at = j.at /\ k.buffer = j.buffer
    BY <1>1, <1>3 DEF SameRequest
  <2>3. j.ok /\ ~j.mixed => \A i \in 1..k.at : k.buffer[i] = disk'[k.sector + i - 1]
    BY <1>2, <2>2 DEF RightOn
  <2> QED
    BY <1>3, <1>6, <2>1, <2>3 DEF RightOn
<1>10. failures' = failures /\ swaps' = swaps /\ card' = card /\ disk' = disk
       /\ failures \in Nat /\ UNCHANGED statics
  BY <1>1 DEF bounds, SDInv, CardTypes
<1>11. failures = 0 /\ swaps = 0 /\ ~j.overlap => card.selected
  BY <1>1 DEF SDInv, Healthy, j
<1>12. k.overlap = j.overlap
  BY <1>3 DEF SameRequest
<1>13. SameRequest(job[t], k) /\ ~job[t].aligned /\ Step(t, k)
  BY <1>1, <1>3 DEF j
<1> QED
  BY <1>2, <1>3, <1>8, <1>9, <1>10, <1>11, <1>12, <1>13, TransferKeeps

\* A chunk that is written is what the request holds, one that is read is what
\* the card holds.
LEMMA CommandKeeps ==
  ASSUME SDInv, NEW t \in Threads, SD_TransferAligned(t)
  PROVE  SDInv'
<1> DEFINE j == job[t]
           n == Chunk(j)
           first == j.sector + j.at
<1>1. /\ j.pc = "command" /\ Reaches(j) /\ UNCHANGED <<card, statics, bounds>>
  BY DEF SD_TransferAligned
<1>2. Busy(t) /\ j \in Jobs /\ Consistent(j) /\ RightOn(j, disk, tmp) /\ j.ok
  BY <1>1, LiveJob DEF SDInv, DataKept, Busy, Consistent
<1>3. n \in Nat /\ 1 <= n /\ j.at + n <= j.count
  BY <1>1, <1>2, ChunkBounds
<1>14. (~j.aligned => n <= TmpSectors) /\ (j.aligned => j.at = 0 /\ n = j.count)
  BY <1>1, <1>2, ChunkBounds DEF Consistent, Jobs
<1>4. Target(FirstBlock(j)) = first
  BY <1>1, <1>2, UnitAgrees DEF SDInv, Reaches
<1>5. failures' = failures /\ swaps' = swaps /\ card' = card /\ begun' = begun
      /\ failures \in Nat /\ UNCHANGED statics
  BY <1>1 DEF bounds, SDInv, CardTypes
<1>6. failures = 0 /\ swaps = 0 /\ ~j.overlap => card.selected
  BY <1>1 DEF SDInv, Healthy
<1>7. /\ j.sector \in Nat /\ j.count \in Nat /\ j.at \in Nat /\ TmpSectors \in Nat
      /\ j.buffer \in [1..j.count -> Contents] /\ j.sector + j.count <= Sectors
      /\ Sectors \in Nat
      /\ disk \in [0..(Sectors - 1) -> Contents] /\ tmp \in [1..TmpSectors -> Contents]
  BY <1>1, <1>2, SDCardAssumption DEF Jobs, Consistent, SDInv, CardTypes
<1>8. Incoming(j) = [i \in 1..n |-> disk[first + i - 1]]
  BY <1>4 DEF Incoming
<1>12. \A k \in Jobs : SameRequest(j, k) => SameRequest(job[t], k) /\ k.overlap = j.overlap
  BY DEF SameRequest
<1>15. first = j.sector + j.at
  OBVIOUS
<1> HIDE DEF j, n, first
<1>16. first \in Nat /\ first + n <= j.sector + j.count /\ first + n <= Sectors
  BY <1>3, <1>7, <1>15
<1>9. Incoming(j) \in [1..n -> Contents]
  <2>1. \A i \in 1..n : first + i - 1 \in 0..(Sectors - 1)
    BY <1>3, <1>7, <1>16
  <2> QED
    BY <1>7, <1>8, <2>1
<1>10. CASE j.write
  <2> DEFINE k == Advanced(j, n)
  <2>1. disk' = Written(j, n) /\ Step(t, k) /\ tmp' = tmp
    BY <1>10 DEF SD_TransferAligned, j, n
  <2>2. /\ k \in Jobs /\ Consistent(k) /\ SameRequest(j, k)
        /\ k.at = j.at + n /\ k.buffer = j.buffer /\ k.ok
        /\ k.pc \in {"copy", "command", "deselect"}
        /\ (k.pc = "copy" => j.write) /\ (k.pc = "command" => ~j.write \/ j.aligned)
    BY <1>1, <1>2, AdvancedIs DEF n
  <2>3. /\ disk' \in [0..(Sectors - 1) -> Contents]
        /\ \A s \in 0..(Sectors - 1) :
             disk'[s] # disk[s] => s \in first..(j.sector + j.count - 1)
        /\ \A i \in 1..n : disk'[first + i - 1] = Outgoing(j)[i]
    BY <1>1, <1>3, <1>10, <2>1, WrittenInside DEF j, n, first
  <2>4. ~j.mixed => \A i \in 1..n : Outgoing(j)[i] = j.buffer[j.at + i]
    BY <1>1, <1>2, <1>3, <1>7, <1>10, <1>14 DEF Outgoing, RightOn, n
  <2> HIDE DEF k
  <2>5. ASSUME ~j.mixed, NEW i \in 1..(j.at + n) PROVE j.buffer[i] = disk'[j.sector + i - 1]
    <3>1. CASE i <= j.at
      <4>1. j.sector + i - 1 \in 0..(Sectors - 1)
            /\ ~(j.sector + i - 1 \in first..(j.sector + j.count - 1))
        BY <1>3, <1>7, <2>2, <3>1 DEF first
      <4>2. j.buffer[i] = disk[j.sector + i - 1]
        BY <1>2, <1>7, <2>2, <2>5, <3>1 DEF RightOn
      <4> QED
        BY <2>3, <4>1, <4>2
    <3>2. CASE i > j.at
      <4> DEFINE m == i - j.at
      <4>1. j.at \in Nat /\ j.sector \in Nat /\ n \in Nat /\ i \in Nat /\ i <= j.at + n
        BY <1>3, <1>7
      <4>3. m \in 1..n
        BY <3>2, <4>1
      <4>4. first + m - 1 = j.sector + i - 1
        BY <1>15, <4>1
      <4>5. j.at + m = i
        BY <4>1
      <4> HIDE DEF m
      <4>2. disk'[first + m - 1] = j.buffer[j.at + m]
        BY <2>3, <2>4, <2>5, <4>3, <4>5
      <4> QED
        BY <4>2, <4>4, <4>5
    <3> QED
      BY <1>3, <1>7, <2>2, <3>1, <3>2
  <2>6. RightOn(k, disk', tmp')
    BY <1>10, <2>2, <2>5 DEF RightOn, SameRequest
  <2>7. CardTypes'
    BY <1>5, <2>1, <2>3 DEF SDInv, CardTypes, statics
  <2>8. \A s \in 0..(Sectors - 1) :
          disk'[s] # disk[s] => s \in j.sector..(j.sector + j.count - 1)
    BY <1>7, <2>3 DEF first
  <2> QED
    BY <1>1, <1>2, <1>5, <1>6, <1>10, <2>1, <2>2, <2>6, <2>7, <2>8, <1>12, TransferKeeps DEF j
<1>11. CASE ~j.write /\ j.aligned
  <2> DEFINE l == Advanced(j, n)
             k == [l EXCEPT !.buffer = Incoming(j)]
  <2>1. Step(t, k) /\ tmp' = tmp /\ disk' = disk
    BY <1>11 DEF SD_TransferAligned, j, n
  <2>2. /\ l \in Jobs /\ Consistent(l) /\ SameRequest(j, l)
        /\ l.at = j.at + n /\ l.ok
        /\ l.pc \in {"copy", "command", "deselect"}
        /\ (l.pc = "copy" => j.write) /\ (l.pc = "command" => ~j.write \/ j.aligned)
    BY <1>1, <1>2, AdvancedIs DEF n
  <2>3. n = j.count /\ Incoming(j) \in Buffers
    BY <1>7, <1>9, <1>11, <1>14, BufferType
  <2> HIDE DEF l
  <2>4. /\ k \in Jobs /\ SameRequest(j, k) /\ k.at = n /\ k.pc = l.pc /\ k.ok
        /\ k.buffer = Incoming(j)
    <3>1. l.at = n
      BY <1>3, <1>11, <1>14, <2>2
    <3> QED
      BY <2>2, <2>3, <3>1 DEF Jobs, SameRequest
  <2>5. Consistent(k)
    BY <1>3, <1>7, <1>9, <1>11, <2>2, <2>3, <2>4 DEF Consistent, SameRequest
  <2> HIDE DEF k
  <2>9. j.at = 0
    BY <1>11, <1>14
  <2>6. \A i \in 1..k.at : k.buffer[i] = disk[k.sector + i - 1]
    BY <1>7, <1>8, <2>4, <2>9 DEF SameRequest, first
  <2>7. RightOn(k, disk', tmp')
    BY <1>11, <2>1, <2>2, <2>4, <2>6 DEF RightOn, SameRequest
  <2>8. CardTypes'
    BY <1>5, <2>1 DEF SDInv, CardTypes, statics
  <2> QED
    BY <1>1, <1>2, <1>5, <1>6, <1>11, <2>1, <2>4, <2>5, <2>7, <2>8, <1>12, TransferKeeps DEF j
<1>13. CASE ~j.write /\ ~j.aligned
  <2> DEFINE k == [j EXCEPT !.pc = "copy"]
  <2>1. /\ Step(t, k) /\ disk' = disk
        /\ tmp' = [i \in 1..TmpSectors |-> IF i <= n THEN Incoming(j)[i] ELSE tmp[i]]
    BY <1>13 DEF SD_TransferAligned, j, n
  <2>2. k \in Jobs /\ Consistent(k) /\ SameRequest(j, k) /\ k.pc = "copy" /\ k.ok
        /\ k.at = j.at /\ k.buffer = j.buffer
    BY <1>1, <1>2, <1>13 DEF Jobs, Consistent, SameRequest
  <2>3. Chunk(k) = n
    BY <2>2 DEF Chunk, SameRequest, n
  <2>9. n <= TmpSectors
    BY <1>13, <1>14
  <2>4. tmp' \in [1..TmpSectors -> Contents]
    BY <1>3, <1>7, <1>9, <2>1, <2>9
  <2>5. \A i \in 1..n : tmp'[i] = disk[first + i - 1]
    BY <1>3, <1>7, <1>8, <2>1, <2>9
  <2> HIDE DEF k
  <2>6. RightOn(k, disk', tmp')
    BY <1>2, <1>13, <2>1, <2>2, <2>3, <2>5 DEF RightOn, SameRequest, first
  <2>7. CardTypes'
    BY <1>5, <2>1, <2>4 DEF SDInv, CardTypes, statics
  <2> QED
    BY <1>1, <1>2, <1>5, <1>6, <1>13, <2>1, <2>2, <2>6, <2>7, <1>12, TransferKeeps DEF j
<1> QED
  BY <1>10, <1>11, <1>13

\* A command that fails ends the transfer, whatever it has written.
LEMMA FailKeeps ==
  ASSUME SDInv, NEW t \in Threads, TransferFails(t)
  PROVE  SDInv'
<1> DEFINE j == job[t]
           k == [j EXCEPT !.pc = "deselect", !.ok = FALSE]
<1>1. /\ j.pc = "command" /\ Step(t, k) /\ UNCHANGED <<card, tmp, statics, begun, swaps>>
  BY DEF TransferFails
<1>2. Busy(t) /\ j \in Jobs /\ Consistent(j)
  BY <1>1, LiveJob DEF SDInv, Busy
<1>3. k \in Jobs /\ Consistent(k) /\ SameRequest(j, k) /\ k.pc = "deselect" /\ ~k.ok
  BY <1>2 DEF Jobs, Consistent, SameRequest
<1>4. k.overlap <=> j.overlap
  BY <1>3 DEF SameRequest
<1> HIDE DEF k
<1>5. failures \in 0..MaxFailures /\ MaxFailures \in Nat /\ swaps \in Nat
      /\ card' = card /\ tmp' = tmp /\ swaps' = swaps /\ UNCHANGED statics
  BY <1>1, IosAssumption DEF SDInv, CardTypes
<1>6. RightOn(k, disk', tmp')
  BY <1>3 DEF RightOn
<1>7. CASE Reaches(j)
  <2>1. PICK n \in 0..(Chunk(j) - 1) : disk' = IF j.write THEN Written(j, n) ELSE disk
    BY <1>7 DEF TransferFails
  <2>2. failures' \in 0..MaxFailures /\ failures' > 0 /\ failures' >= failures
    BY <1>5, <1>7 DEF TransferFails, Refused
  <2>3. disk' \in [0..(Sectors - 1) -> Contents]
        /\ \A s \in 0..(Sectors - 1) :
             disk'[s] # disk[s] => j.write /\ s \in j.sector..(j.sector + j.count - 1)
    <3>1. CASE ~j.write
      BY <2>1, <3>1 DEF SDInv, CardTypes
    <3>2. CASE j.write
      <4>1. n \in 0..Chunk(j)
        BY <1>1, <1>2, <2>1, ChunkBounds
      <4>2. /\ disk' \in [0..(Sectors - 1) -> Contents]
            /\ \A s \in 0..(Sectors - 1) :
                 disk'[s] # disk[s] => s \in (j.sector + j.at)..(j.sector + j.count - 1)
        BY <1>1, <1>7, <2>1, <3>2, <4>1, WrittenInside
      <4>3. j.sector \in Nat /\ j.at \in Nat /\ j.count \in Nat
        BY <1>2 DEF Jobs
      <4> QED
        BY <3>2, <4>2, <4>3
    <3> QED
      BY <3>1, <3>2
  <2>4. CardTypes'
    BY <1>1, <2>2, <2>3 DEF SDInv, CardTypes, statics
  <2> QED
    BY <1>1, <1>2, <1>3, <1>5, <1>6, <2>2, <2>3, <2>4, TransferKeeps
<1>8. CASE ~Reaches(j)
  <2>1. failures' = failures /\ disk' = disk
    BY <1>8 DEF TransferFails, Answered
  <2>2. failures' > 0 \/ swaps > 0 \/ j.overlap
    <3> SUFFICES ASSUME failures = 0, swaps = 0, ~j.overlap PROVE FALSE
      BY <1>5, <2>1
    <3>1. init \in {"mounting", "mounted"}
      BY <1>2 DEF SDInv, Scheduled
    <3>2. card.ready /\ card.selected /\ card.blocks
      BY <1>1, <3>1 DEF SDInv, Healthy
    <3>3. Target(FirstBlock(j)) = j.sector + j.at
      BY <1>2, <3>2, UnitAgrees DEF SDInv
    <3>4. Chunk(j) \in Nat /\ j.at + Chunk(j) <= j.count
      BY <1>1, <1>2, ChunkBounds
    <3>5. j.sector \in Nat /\ j.at \in Nat /\ j.count \in Nat /\ j.sector + j.count <= Sectors
          /\ Sectors \in Nat
      BY <1>2, SDCardAssumption DEF Jobs, Consistent
    <3> HIDE DEF j
    <3>6. j.sector + j.at + Chunk(j) <= Sectors
      BY <3>4, <3>5
    <3> QED
      BY <1>8, <3>2, <3>3, <3>6 DEF Reaches
  <2>3. CardTypes'
    BY <1>1, <2>1 DEF SDInv, CardTypes, statics
  <2>4. failures' >= failures
    BY <1>5, <2>1
  <2> QED
    BY <1>1, <1>2, <1>3, <1>4, <1>5, <1>6, <2>1, <2>2, <2>3, <2>4, TransferKeeps
<1> QED
  BY <1>7, <1>8

\* The chunk that was read goes out of tmpBuffer, where it still is.
LEMMA CopyOutKeeps ==
  ASSUME SDInv, NEW t \in Threads, CopyOut(t)
  PROVE  SDInv'
<1> DEFINE j == job[t]
           n == Chunk(j)
           l == Advanced(j, n)
           b == [i \in DOMAIN l.buffer |-> IF i - j.at \in 1..n THEN tmp[i - j.at] ELSE l.buffer[i]]
           k == [l EXCEPT !.buffer = b]
<1>1. /\ j.pc = "copy" /\ ~j.write /\ Step(t, k) /\ UNCHANGED <<card, disk, tmp, statics, bounds>>
  BY DEF CopyOut
<1>2. Busy(t) /\ j \in Jobs /\ Consistent(j) /\ RightOn(j, disk, tmp) /\ j.ok /\ ~j.aligned
  BY <1>1, LiveJob DEF SDInv, DataKept, Busy, Consistent
<1>3. n \in Nat /\ 1 <= n /\ j.at + n <= j.count /\ n <= TmpSectors
  BY <1>1, <1>2, ChunkBounds
<1>4. /\ j.sector \in Nat /\ j.count \in Nat /\ j.at \in Nat /\ TmpSectors \in Nat
      /\ j.buffer \in [1..j.count -> Contents] /\ tmp \in [1..TmpSectors -> Contents]
  BY <1>2, SDCardAssumption DEF Jobs, Consistent, SDInv, CardTypes
<1>5. failures' = failures /\ swaps' = swaps /\ card' = card /\ disk' = disk /\ tmp' = tmp
      /\ failures \in Nat /\ UNCHANGED statics /\ CardTypes'
  BY <1>1 DEF bounds, SDInv, CardTypes, statics
<1>6. failures = 0 /\ swaps = 0 /\ ~j.overlap => card.selected
  BY <1>1 DEF SDInv, Healthy
<1>7. /\ l \in Jobs /\ Consistent(l) /\ SameRequest(j, l)
      /\ l.at = j.at + n /\ l.buffer = j.buffer /\ l.ok
      /\ l.pc \in {"copy", "command", "deselect"} /\ (l.pc = "copy" => j.write)
      /\ (l.pc = "command" => ~j.write \/ j.aligned)
  BY <1>1, <1>2, AdvancedIs
<1>8. b = [i \in 1..j.count |-> IF i - j.at \in 1..n THEN tmp[i - j.at] ELSE j.buffer[i]]
  BY <1>4, <1>7
<1>9. ~j.mixed => \A i \in 1..n : tmp[i] = disk[j.sector + j.at + i - 1]
  BY <1>1, <1>2 DEF RightOn
<1>10. ~j.mixed => \A i \in 1..j.at : j.buffer[i] = disk[j.sector + i - 1]
  BY <1>2 DEF RightOn
<1>11. \A m \in Jobs : SameRequest(j, m) =>
         SameRequest(job[t], m) /\ m.overlap = j.overlap /\ m.sector = j.sector
         /\ (m.mixed <=> j.mixed) /\ (m.write <=> j.write) /\ m.count = j.count
  BY DEF SameRequest
<1>12. job[t] = j
  OBVIOUS
<1> HIDE DEF j, n, l, b
<1>13. b \in [1..j.count -> Contents]
  <2>1. \A i \in 1..j.count : i - j.at \in 1..n => tmp[i - j.at] \in Contents
    BY <1>3, <1>4
  <2> QED
    BY <1>4, <1>8, <2>1
<1>14. b \in Buffers
  BY <1>4, <1>13, BufferType
<1>15. k \in Jobs /\ SameRequest(j, k) /\ k.at = j.at + n /\ k.buffer = b /\ k.ok /\ k.pc = l.pc
       /\ k.aligned = l.aligned
  BY <1>7, <1>14 DEF Jobs, SameRequest
<1> HIDE DEF k
<1>16. Consistent(k)
  <2>1. k.count = j.count /\ l.count = j.count /\ k.sector = l.sector /\ k.at = l.at
    BY <1>7, <1>15 DEF SameRequest
  <2> QED
    BY <1>7, <1>13, <1>15, <2>1 DEF Consistent
<1>17. ASSUME ~j.mixed, NEW i \in 1..(j.at + n) PROVE b[i] = disk[j.sector + i - 1]
  <2>1. i \in 1..j.count
    BY <1>3, <1>4
  <2>2. CASE i <= j.at
    <3>1. ~(i - j.at \in 1..n) /\ i \in 1..j.at
      BY <1>4, <2>2
    <3> QED
      BY <1>8, <1>10, <1>17, <2>1, <3>1
  <2>3. CASE i > j.at
    <3> DEFINE m == i - j.at
    <3>1. j.at \in Nat /\ j.sector \in Nat /\ n \in Nat /\ i \in Nat /\ i <= j.at + n
      BY <1>3, <1>4
    <3>2. m \in 1..n
      BY <2>3, <3>1
    <3>3. j.sector + j.at + m - 1 = j.sector + i - 1
      BY <3>1
    <3> HIDE DEF m
    <3>4. tmp[m] = disk[j.sector + j.at + m - 1]
      BY <1>9, <1>17, <3>2
    <3>5. b[i] = tmp[m]
      BY <1>8, <2>1, <3>2 DEF m
    <3> QED
      BY <3>3, <3>4, <3>5
  <2> QED
    BY <1>4, <2>2, <2>3
<1>18. RightOn(k, disk', tmp')
  <2>1. ~(k.pc = "copy") /\ ~k.write
    BY <1>1, <1>7, <1>11, <1>15
  <2>2. ~k.mixed => \A i \in 1..k.at : k.buffer[i] = disk'[k.sector + i - 1]
    BY <1>5, <1>11, <1>15, <1>17
  <2> QED
    BY <2>1, <2>2 DEF RightOn
<1>19. k.pc # "deselect" \/ k.ok
  BY <1>15
<1>20. failures' >= failures
  BY <1>5
<1> QED
  BY <1>1, <1>2, <1>5, <1>6, <1>11, <1>12, <1>15, <1>16, <1>18, <1>19, <1>20, TransferKeeps

\* The card is deselected and the transfer answers.
LEMMA DeselectKeeps ==
  ASSUME SDInv, NEW t \in Threads, SD_Deselect(t)
  PROVE  SDInv'
<1> DEFINE j == job[t]
           k == [j EXCEPT !.pc = "done"]
<1>1. /\ j.pc = "deselect" /\ Selection(NoAddress) /\ Step(t, k)
      /\ UNCHANGED <<disk, tmp, statics, begun, swaps>>
  BY DEF SD_Deselect
<1>2. Busy(t) /\ j \in Jobs /\ Consistent(j)
  BY <1>1, LiveJob DEF SDInv, Busy
<1>3. k \in Jobs /\ Consistent(k) /\ SameRequest(j, k) /\ k.pc = "done"
  BY <1>2 DEF Jobs, Consistent, SameRequest
<1> HIDE DEF k
<1>4. /\ card' \in Cards
      /\ card'.ready = card.ready /\ card'.hc = card.hc
      /\ card'.address = card.address /\ card'.blocks = card.blocks
      /\ failures' \in 0..MaxFailures /\ failures' >= failures
  BY <1>1, SelectionIs DEF SDInv
<1>5. CardTypes'
  BY <1>1, <1>4 DEF SDInv, CardTypes, statics
<1> QED
  BY <1>1, <1>2, <1>3, <1>4, <1>5, TransferKeeps

-----------------------------------------------------------------------------
(* A transfer begins.                                                       *)

\* What SDCardAssumption says of a request, and the boot sector is one.
IsRequest(r) ==
  /\ r.write \in BOOLEAN /\ r.aligned \in BOOLEAN
  /\ r.sector \in Nat /\ r.count \in Nat \ {0} /\ r.sector + r.count <= Sectors

\* A transfer that starts has moved nothing.
LEMMA StartedIs ==
  ASSUME NEW r, IsRequest(r), NEW id \in 0..MaxTransfers
  PROVE  LET s == Started(r, id)
         IN  /\ s \in Jobs /\ s.pc = "select" /\ s.at = 0 /\ s.ok
             /\ s.buffer \in [1..s.count -> Contents] /\ s.sector + s.count <= Sectors
             /\ s.write = r.write /\ s.aligned = r.aligned
             /\ s.sector = r.sector /\ s.count = r.count
<1> DEFINE b == [i \in 1..r.count |-> IF r.write THEN <<id, i>> ELSE <<id, 0>>]
           s == Started(r, id)
<1>1. b \in [1..r.count -> Contents]
  BY DEF IsRequest, Contents
<1>2. b \in Buffers
  BY <1>1, BufferType DEF IsRequest
<1>3. s = [pc |-> "select", write |-> r.write, sector |-> r.sector, count |-> r.count,
           aligned |-> r.aligned, id |-> id, at |-> 0, ok |-> TRUE, buffer |-> b,
           overlap |-> FALSE, mixed |-> FALSE]
  BY DEF Started
<1> HIDE DEF b, s
<1>4. s \in Jobs
  BY <1>2, <1>3 DEF Jobs, IsRequest
<1> QED
  BY <1>1, <1>3, <1>4 DEF s, IsRequest

\* Those that are on their way learn of the one that begins, and it of them.
LEMMA BeginKeeps ==
  ASSUME SDInv, NEW t \in Threads, ~Busy(t), NEW r, IsRequest(r), NEW id \in 0..MaxTransfers,
         Begin(t, r, id), UNCHANGED <<disk, tmp, swaps>>, failures' >= failures
  PROVE  /\ JobTypes' /\ PairsKnown' /\ DataKept' /\ FailureExplained'
         /\ job'[t].pc = "select"
         /\ \A u \in Threads \ {t} : job'[u].pc = job[u].pc /\ (Busy(u) => job'[u].overlap)
<1> DEFINE new == Started(r, id)
           others == {u \in Threads \ {t} : Busy(u)}
           over == others # {}
           mix == \E o \in others : Mixes(new, job[o])
           k == [new EXCEPT !.overlap = over, !.mixed = mix]
           l(u) == [job[u] EXCEPT !.overlap = TRUE, !.mixed = @ \/ Mixes(new, job[u])]
<1>1. job' = [u \in Threads |-> IF u = t THEN k ELSE IF u \in others THEN l(u) ELSE job[u]]
  BY DEF Begin
<1>2. /\ k \in Jobs /\ Consistent(k) /\ k.pc = "select" /\ k.at = 0 /\ k.ok
      /\ (k.overlap <=> over) /\ (k.mixed <=> mix)
      /\ k.write = r.write /\ k.aligned = r.aligned
      /\ k.sector = r.sector /\ k.count = r.count
  <2>1. over \in BOOLEAN /\ mix \in BOOLEAN
    OBVIOUS
  <2>2. /\ new \in Jobs /\ new.pc = "select" /\ new.at = 0 /\ new.ok
        /\ new.buffer \in [1..new.count -> Contents] /\ new.sector + new.count <= Sectors
        /\ new.write = r.write /\ new.aligned = r.aligned
        /\ new.sector = r.sector /\ new.count = r.count
    BY StartedIs
  <2> HIDE DEF over, mix, new
  <2>3. /\ k \in Jobs /\ k.pc = "select" /\ k.at = 0 /\ k.buffer = new.buffer
        /\ k.sector = new.sector /\ k.count = new.count
        /\ k.write = new.write /\ k.aligned = new.aligned
    BY <2>1, <2>2 DEF Jobs
  <2>4. k.ok /\ (k.overlap <=> over) /\ (k.mixed <=> mix)
    BY <2>1, <2>2 DEF Jobs
  <2> HIDE DEF k
  <2>6. k.at \in 0..k.count /\ k.sector + k.count <= Sectors /\ k.buffer \in [1..k.count -> Contents]
    BY <2>2, <2>3 DEF Jobs
  <2>5. Consistent(k)
    BY <2>3, <2>4, <2>6 DEF Consistent
  <2> QED
    BY <2>2, <2>3, <2>4, <2>5
<1>3. \A o \in Threads : Mixes(new, job[o]) <=> Mixes(k, job[o])
  BY <1>2 DEF Mixes, Started
<1>4. ASSUME NEW u \in others
      PROVE  /\ l(u) \in Jobs /\ Consistent(l(u)) /\ l(u).overlap
             /\ (l(u).mixed <=> job[u].mixed \/ Mixes(k, job[u]))
             /\ l(u).pc = job[u].pc /\ l(u).at = job[u].at /\ l(u).buffer = job[u].buffer
             /\ (l(u).ok <=> job[u].ok)
             /\ (l(u).write <=> job[u].write) /\ (l(u).aligned <=> job[u].aligned)
             /\ l(u).sector = job[u].sector /\ l(u).count = job[u].count
  <2> DEFINE m == job[u].mixed \/ Mixes(new, job[u])
             j == job[u]
             h == [j EXCEPT !.overlap = TRUE, !.mixed = m]
  <2>1. j \in Jobs /\ Consistent(j)
    BY <1>4, LiveJob DEF SDInv, Busy
  <2>2. l(u) = h
    BY <2>1 DEF Jobs
  <2>3. m \in BOOLEAN
    OBVIOUS
  <2>4. m <=> j.mixed \/ Mixes(k, j)
    BY <1>3, <1>4
  <2> HIDE DEF m, j, k
  <2>5. /\ h \in Jobs /\ h.overlap /\ h.mixed = m
        /\ h.pc = j.pc /\ h.at = j.at /\ h.buffer = j.buffer /\ h.ok = j.ok
        /\ h.write = j.write /\ h.aligned = j.aligned
        /\ h.sector = j.sector /\ h.count = j.count
    BY <2>1, <2>3 DEF Jobs
  <2>6. Consistent(h)
    <3> HIDE DEF h
    <3> QED
      BY <2>1, <2>5 DEF Consistent
  <2> HIDE DEF h
  <2> QED
    BY <2>2, <2>4, <2>5, <2>6 DEF j
<1> HIDE DEF new, k, l, over, mix
<1>5. job'[t] = k /\ \A u \in Threads \ {t} : job'[u] = IF Busy(u) THEN l(u) ELSE job[u]
  BY <1>1
<1>6. \A u \in Threads \ {t} : job'[u].pc = job[u].pc /\ (Busy(u) => job'[u].overlap)
  BY <1>4, <1>5
<1>7. JobTypes'
  <2>1. job' \in [Threads -> Jobs \cup {Idle}]
    BY <1>1, <1>2, <1>4 DEF SDInv, JobTypes
  <2>2. \A u \in Threads : job'[u] # Idle => Consistent(job'[u])
    BY <1>2, <1>4, <1>5 DEF SDInv, JobTypes
  <2> QED
    BY <2>1, <2>2 DEF JobTypes, Consistent
<1>8. PairsKnown'
  <2> SUFFICES ASSUME NEW u \in Threads, NEW v \in Threads, u # v, Busy(u)', Busy(v)'
               PROVE  job'[u].overlap /\ (Mixes(job'[u], job'[v]) => job'[u].mixed)
    BY DEF PairsKnown, Mixes
  <2>1. \A w \in Threads \ {t} : Busy(w)' => Busy(w) /\ w \in others /\ job'[w] = l(w)
    BY <1>5, <1>6 DEF Busy
  <2>2. CASE u = t
    <3>1. v \in others /\ job'[v] = l(v) /\ job'[t] = k
      BY <1>5, <2>1, <2>2
    <3>2. Mixes(k, l(v)) <=> Mixes(k, job[v])
      BY <1>4, <3>1 DEF Mixes
    <3> QED
      BY <1>2, <1>3, <2>2, <3>1, <3>2 DEF over, mix
  <2>3. CASE v = t
    <3>1. u \in others /\ job'[u] = l(u) /\ job'[t] = k
      BY <1>5, <2>1, <2>3
    <3>2. Mixes(l(u), k) <=> Mixes(job[u], k)
      BY <1>4, <3>1 DEF Mixes
    <3>3. Mixes(job[u], k) <=> Mixes(k, job[u])
      BY DEF Mixes
    <3> QED
      BY <1>4, <2>3, <3>1, <3>2, <3>3
  <2>4. CASE u # t /\ v # t
    <3>1. u \in others /\ v \in others /\ job'[u] = l(u) /\ job'[v] = l(v)
      BY <2>1, <2>4
    <3>2. Mixes(l(u), l(v)) <=> Mixes(job[u], job[v])
      BY <1>4, <3>1 DEF Mixes
    <3>3. Mixes(job[u], job[v]) => job[u].mixed
      BY <3>1 DEF SDInv, PairsKnown
    <3> QED
      BY <1>4, <3>1, <3>2, <3>3
  <2> QED
    BY <2>2, <2>3, <2>4
<1>9. DataKept'
  <2> SUFFICES ASSUME NEW u \in Threads, Busy(u)' PROVE RightOn(job'[u], disk, tmp)
    BY DEF DataKept, RightOn, Chunk
  <2>1. CASE u = t
    BY <1>2, <1>5, <2>1 DEF RightOn
  <2>2. CASE u # t
    <3>1. u \in others /\ job'[u] = l(u) /\ RightOn(job[u], disk, tmp)
      BY <1>5, <1>6, <2>2 DEF Busy, SDInv, DataKept
    <3>2. Chunk(l(u)) = Chunk(job[u])
      BY <1>4, <3>1 DEF Chunk
    <3> QED
      BY <1>4, <3>1, <3>2 DEF RightOn
  <2> QED
    BY <2>1, <2>2
<1>10. FailureExplained'
  <2> SUFFICES ASSUME NEW u \in Threads, job'[u].pc = "deselect", ~job'[u].ok
               PROVE  job'[u].overlap \/ failures' > 0 \/ swaps' > 0
    BY DEF FailureExplained
  <2>1. u # t
    BY <1>2, <1>5
  <2>2. Busy(u)
    BY <1>6, <2>1 DEF Busy
  <2> QED
    BY <1>6, <2>1, <2>2
<1> QED
  BY <1>2, <1>5, <1>6, <1>7, <1>8, <1>9, <1>10

\* FatFs makes its next request.
LEMMA RequestKeeps ==
  ASSUME SDInv, NEW t \in Threads, NEW r \in Requests, Request(t, r)
  PROVE  SDInv'
<1>1. /\ init = "mounted" /\ ~Busy(t) /\ begun < MaxTransfers /\ begun' = begun + 1
      /\ Begin(t, r, begun + 1)
      /\ UNCHANGED <<card, disk, tmp, statics, failures, swaps>>
  BY DEF Request
<1>2. IsRequest(r)
  BY SDCardAssumption DEF IsRequest
<1>3. begun \in 0..MaxTransfers /\ MaxTransfers \in Nat /\ failures \in Nat
  BY SDCardAssumption DEF SDInv, CardTypes
<1>4. begun + 1 \in 0..MaxTransfers /\ failures' >= failures
  BY <1>1, <1>3
<1>5. /\ JobTypes' /\ PairsKnown' /\ DataKept' /\ FailureExplained'
      /\ job'[t].pc = "select"
      /\ \A u \in Threads \ {t} : job'[u].pc = job[u].pc /\ (Busy(u) => job'[u].overlap)
  BY <1>1, <1>2, <1>4, BeginKeeps
<1>6. CardTypes' /\ UnitKnown' /\ Scheduled'
  BY <1>1, <1>4 DEF SDInv, CardTypes, UnitKnown, Scheduled, statics
<1>7. Healthy'
  BY <1>1, <1>5 DEF SDInv, Healthy, Busy, statics
<1> QED
  BY <1>5, <1>6, <1>7 DEF SDInv

\* f_mount reads the first sector.
LEMMA MountKeeps ==
  ASSUME SDInv, Mount
  PROVE  SDInv'
<1>1. /\ init = "mount" /\ init' = "mounting" /\ Selection(NoAddress) /\ device' = TRUE
      /\ UNCHANGED <<disk, rca, sdhc, tmp, begun, swaps>>
  BY DEF Mount
<1>2. PICK aligned \in BOOLEAN : Begin(Main, BootSector(aligned), 0)
  BY DEF Mount
<1>3. IsRequest(BootSector(aligned)) /\ Main \in Threads
  BY SDCardAssumption DEF IsRequest, BootSector
<1>4. \A t \in Threads : ~Busy(t)
  BY <1>1 DEF SDInv, Scheduled
<1>5. /\ card' \in Cards
      /\ card'.ready = card.ready /\ card'.hc = card.hc
      /\ card'.address = card.address /\ card'.blocks = card.blocks
      /\ failures' \in 0..MaxFailures /\ failures' >= failures
  BY <1>1, SelectionIs DEF SDInv
<1>6. 0 \in 0..MaxTransfers
  BY SDCardAssumption
<1>7. /\ JobTypes' /\ PairsKnown' /\ DataKept' /\ FailureExplained'
      /\ job'[Main].pc = "select"
      /\ \A u \in Threads \ {Main} : job'[u].pc = job[u].pc
  BY <1>1, <1>2, <1>3, <1>4, <1>5, <1>6, BeginKeeps
<1>8. CardTypes'
  BY <1>1, <1>5 DEF SDInv, CardTypes, Steps
<1>9. UnitKnown'
  BY <1>1, <1>5 DEF SDInv, UnitKnown
<1>10. Scheduled'
  BY <1>1, <1>4, <1>7 DEF Scheduled, Busy
<1>11. Healthy'
  <2> SUFFICES ASSUME failures' = 0, swaps' = 0 PROVE Healthy'
    BY DEF Healthy
  <2>1. failures = 0 /\ swaps = 0
    BY <1>1, <1>5 DEF SDInv, CardTypes
  <2>2. card.ready /\ card.blocks /\ rca = card.address
    BY <1>1, <2>1 DEF SDInv, Healthy
  <2>3. \A u \in Threads : ~(job'[u].pc \in {"copy", "command"})
    BY <1>4, <1>7 DEF Busy
  <2> QED
    BY <1>1, <1>5, <2>2, <2>3 DEF Healthy
<1> QED
  BY <1>7, <1>8, <1>9, <1>10, <1>11 DEF SDInv

-----------------------------------------------------------------------------
(* The start, and what happens to the card.                                 *)

\* A new card is one, and not in use.
LEMMA NewCardIs ==
  ASSUME NEW hc \in BOOLEAN
  PROVE  /\ NewCard(hc) \in Cards /\ ~NewCard(hc).ready /\ NewCard(hc).hc = hc
         /\ ~NewCard(hc).selected /\ ~NewCard(hc).blocks
         /\ NoCard \in Cards /\ ~NoCard.ready /\ ~NoCard.selected
         /\ \A ready \in BOOLEAN, a \in Addresses \cup {NoAddress} :
              LET c == [NewCard(hc) EXCEPT !.ready = ready, !.address = a]
              IN  c \in Cards /\ (c.ready <=> ready) /\ c.hc = hc /\ ~c.selected
BY DEF NewCard, NoCard, Cards

\* Every step before the mount.
LEMMA StartKeeps ==
  ASSUME SDInv,
         Open \/ SD_Reset \/ SD_GetStatus \/ SD_Reinitialize \/ SelectCard \/ SD_SetCardBlockSize
  PROVE  SDInv'
<1>1. /\ UNCHANGED <<job, disk, tmp, begun, swaps, device>>
      /\ init \in {"open", "reset", "status", "reinitialize", "status again", "select", "block size"}
  BY DEF Open, SD_Reset, SD_GetStatus, SD_Reinitialize, SelectCard, SD_SetCardBlockSize, bounds
<1>2. /\ \A t \in Threads : ~Busy(t) /\ ~Busy(t)'
      /\ JobTypes' /\ PairsKnown' /\ Scheduled' /\ DataKept' /\ FailureExplained'
  BY <1>1, NotYet
<1>3. \A t \in Threads : ~(job'[t].pc \in {"copy", "command"})
  BY <1>2 DEF Busy
<1>4. card \in Cards /\ card.hc \in BOOLEAN /\ card.ready \in BOOLEAN
      /\ failures \in 0..MaxFailures
  BY DEF SDInv, CardTypes, Cards
<1>5. SUFFICES /\ card' \in Cards /\ rca' \in Addresses \cup {NoAddress} /\ sdhc' \in BOOLEAN
               /\ init' \in Steps /\ failures' \in 0..MaxFailures
               /\ UnitKnown' /\ Healthy'
  BY <1>1, <1>2 DEF SDInv, CardTypes
<1>6. CASE Open
  <2>1. init' \in {"reset", "failed"} /\ UNCHANGED <<card, rca, sdhc, failures>>
    BY <1>6 DEF Open, Goes, bounds
  <2> QED
    BY <1>3, <2>1 DEF SDInv, CardTypes, UnitKnown, Healthy, Steps
<1>7. CASE SD_Reset
  <2>1. init' \in {"status", "failed"} /\ UNCHANGED <<sdhc, failures>>
    BY <1>7 DEF SD_Reset, Goes, bounds
  <2>2. card' \in Cards /\ rca' \in Addresses \cup {NoAddress}
    <3>1. CASE card.present
      <4>1. PICK a \in Addresses, ready \in BOOLEAN :
              /\ card' = [NewCard(card.hc) EXCEPT !.ready = ready,
                                                  !.address = IF ready THEN a ELSE NoAddress]
              /\ rca' \in IF ready THEN {a} ELSE Addresses \cup {NoAddress}
        BY <1>7, <3>1 DEF SD_Reset
      <4>2. (IF ready THEN a ELSE NoAddress) \in Addresses \cup {NoAddress}
        OBVIOUS
      <4> QED
        BY <1>4, <4>1, <4>2, NewCardIs
    <3>2. CASE ~card.present
      BY <1>4, <1>7, <3>2 DEF SD_Reset
    <3> QED
      BY <3>1, <3>2
  <2> QED
    BY <1>3, <1>4, <2>1, <2>2 DEF SDInv, CardTypes, UnitKnown, Healthy, Steps
<1>8. CASE SD_GetStatus
  <2>1. UNCHANGED <<card, rca, failures>>
        /\ \/ (sdhc' <=> card.ready /\ card.hc) /\ sdhc' \in BOOLEAN /\ init' = AfterStatus
           \/ init' = "failed" /\ UNCHANGED sdhc
    BY <1>8 DEF SD_GetStatus, bounds
  <2>2. AfterStatus \in {"select", "reinitialize", "failed"}
        /\ (AfterStatus = "select" => card.ready)
    BY DEF AfterStatus
  <2> QED
    BY <1>3, <1>4, <2>1, <2>2 DEF SDInv, CardTypes, UnitKnown, Healthy, Steps
<1>9. CASE SD_Reinitialize
  <2>1. UNCHANGED <<rca, failures>> /\ sdhc' = TRUE /\ init' \in {"status again", "failed"}
    BY <1>9 DEF SD_Reinitialize, bounds
  <2>2. card' \in Cards
    <3>1. CASE UNCHANGED card
      BY <1>4, <3>1
    <3>2. CASE card' # card
      <4>1. PICK a \in Addresses : card' = [NewCard(card.hc) EXCEPT !.ready = TRUE, !.address = a]
        BY <1>9, <3>2 DEF SD_Reinitialize
      <4> QED
        BY <1>4, <4>1, NewCardIs
    <3> QED
      BY <3>1, <3>2
  <2> QED
    BY <1>3, <1>4, <2>1, <2>2 DEF SDInv, CardTypes, UnitKnown, Healthy, Steps
<1>10. CASE SelectCard
  <2>1. init = "select" /\ UNCHANGED <<rca, sdhc>>
    BY <1>10 DEF SelectCard
  <2>2. CASE init' = "block size" /\ Selection(rca)
    <3>1. /\ card' \in Cards
          /\ card'.ready = card.ready /\ card'.hc = card.hc
          /\ card'.address = card.address /\ card'.blocks = card.blocks
          /\ failures' \in 0..MaxFailures /\ failures' >= failures
          /\ failures' = 0 => (card'.selected <=> card.ready /\ rca = card.address)
      BY <2>2, SelectionIs DEF SDInv
    <3>2. failures' = 0 => failures = 0
      BY <1>4, <3>1
    <3>3. UnitKnown'
      BY <2>1, <3>1 DEF SDInv, UnitKnown
    <3>4. Healthy'
      BY <1>1, <1>3, <2>1, <2>2, <3>1, <3>2 DEF SDInv, Healthy
    <3> QED
      BY <2>1, <2>2, <3>1, <3>3, <3>4 DEF SDInv, CardTypes, Steps
  <2>3. CASE init' = "failed" /\ UNCHANGED <<card, failures>>
    BY <1>3, <2>1, <2>3 DEF SDInv, CardTypes, UnitKnown, Healthy, Steps
  <2> QED
    BY <1>10, <2>2, <2>3 DEF SelectCard
<1>11. CASE SD_SetCardBlockSize
  <2>1. init = "block size" /\ UNCHANGED <<rca, sdhc>>
    BY <1>11 DEF SD_SetCardBlockSize
  <2>2. CASE /\ card.ready /\ card.selected /\ init' = "mount"
             /\ card' = [card EXCEPT !.blocks = TRUE] /\ UNCHANGED failures
    <3>1. /\ card' \in Cards /\ card'.ready = card.ready /\ card'.hc = card.hc
          /\ card'.address = card.address /\ card'.blocks
      BY <1>4, <2>2 DEF Cards
    <3>2. UnitKnown'
      BY <2>1, <2>2, <3>1 DEF SDInv, UnitKnown
    <3>3. Healthy'
      BY <1>1, <1>3, <2>1, <2>2, <3>1 DEF SDInv, Healthy
    <3> QED
      BY <2>1, <2>2, <3>1, <3>2, <3>3 DEF SDInv, CardTypes, Steps
  <2>3. CASE init' = "failed" /\ Selection(NoAddress)
    <3>1. card' \in Cards /\ failures' \in 0..MaxFailures
      BY <2>3, SelectionIs DEF SDInv
    <3> QED
      BY <1>3, <2>1, <2>3, <3>1 DEF SDInv, CardTypes, UnitKnown, Healthy, Steps
  <2> QED
    BY <1>11, <2>2, <2>3 DEF SD_SetCardBlockSize
<1> QED
  BY <1>6, <1>7, <1>8, <1>9, <1>10, <1>11

\* The mount is over.
LEMMA MountedKeeps ==
  ASSUME SDInv, Mounted
  PROVE  SDInv'
<1>1. /\ init = "mounting" /\ job[Main].pc = "done" /\ init' \in {"mounted", "failed"}
      /\ device' \in BOOLEAN
      /\ UNCHANGED <<card, disk, rca, sdhc, tmp, job, begun, failures, swaps>>
  BY DEF Mounted, bounds
<1>2. \A t \in Threads : ~Busy(t) /\ ~Busy(t)'
  BY <1>1 DEF SDInv, Scheduled, Busy
<1>3. CardTypes' /\ JobTypes'
  BY <1>1 DEF SDInv, CardTypes, JobTypes, Consistent, Steps
<1>4. PairsKnown' /\ Scheduled' /\ DataKept' /\ FailureExplained'
  BY <1>2 DEF PairsKnown, Scheduled, DataKept, FailureExplained, Busy
<1>5. UnitKnown' /\ Healthy'
  BY <1>1 DEF SDInv, UnitKnown, Healthy
<1> QED
  BY <1>3, <1>4, <1>5 DEF SDInv

\* With the power the transfers are gone, and what the driver knew.
LEMMA PowerKeeps ==
  ASSUME SDInv, PowerCycle
  PROVE  SDInv'
<1>1. /\ rca' = NoAddress /\ sdhc' = FALSE /\ device' = FALSE
      /\ init' = "open" /\ job' = [t \in Threads |-> Idle]
      /\ tmp' = [i \in 1..TmpSectors |-> <<0, 0>>]
      /\ UNCHANGED <<disk, begun, failures, swaps>>
  BY DEF PowerCycle, bounds
<1>2. \A t \in Threads : job'[t] = Idle /\ job'[t].pc = "idle"
  BY <1>1 DEF Idle
<1>3. card' \in Cards
  <2>1. card.hc \in BOOLEAN
    BY DEF SDInv, CardTypes, Cards
  <2> QED
    BY <2>1, NewCardIs DEF PowerCycle
<1>4. tmp' \in [1..TmpSectors -> Contents]
  <2>1. <<0, 0>> \in Contents
    BY SDCardAssumption DEF Contents
  <2> QED
    BY <1>1, <2>1
<1>5. CardTypes'
  BY <1>1, <1>3, <1>4 DEF SDInv, CardTypes, Steps
<1>6. JobTypes'
  BY <1>1, <1>2 DEF JobTypes
<1>7. PairsKnown' /\ Scheduled' /\ DataKept' /\ FailureExplained'
  BY <1>2 DEF PairsKnown, Scheduled, DataKept, FailureExplained, Busy
<1>8. UnitKnown' /\ Healthy'
  BY <1>1, <1>2 DEF UnitKnown, Healthy
<1> QED
  BY <1>5, <1>6, <1>7, <1>8 DEF SDInv

\* A card that is pulled out, or put in, is not ready.
LEMMA SwapKeeps ==
  ASSUME SDInv, Swap
  PROVE  SDInv'
<1>1. /\ swaps < MaxSwaps /\ swaps' = swaps + 1
      /\ UNCHANGED <<disk, tmp, statics, job, begun, failures>>
  BY DEF Swap
<1>2. card' \in Cards /\ ~card'.ready
  <2>1. card' = NoCard \/ \E hc \in BOOLEAN : card' = NewCard(hc)
    BY DEF Swap
  <2>2. NoCard \in Cards /\ ~NoCard.ready
    BY NewCardIs
  <2>3. \A hc \in BOOLEAN : NewCard(hc) \in Cards /\ ~NewCard(hc).ready
    BY NewCardIs
  <2> QED
    BY <2>1, <2>2, <2>3
<1>3. swaps' \in 0..MaxSwaps /\ swaps' > 0
  BY <1>1, SDCardAssumption DEF SDInv, CardTypes
<1>4. CardTypes' /\ JobTypes'
  BY <1>1, <1>2, <1>3 DEF SDInv, CardTypes, JobTypes, statics, Consistent
<1>5. PairsKnown' /\ Scheduled'
  BY <1>1 DEF SDInv, PairsKnown, Scheduled, Busy, Mixes, statics
<1>6. DataKept'
  BY <1>1 DEF SDInv, DataKept, Busy, RightOn, Chunk
<1>7. UnitKnown'
  BY <1>2 DEF UnitKnown
<1>8. ~(swaps' = 0)
  BY <1>3
<1>9. Healthy'
  BY <1>8 DEF Healthy
<1>10. FailureExplained'
  BY <1>3 DEF FailureExplained
<1> QED
  BY <1>4, <1>5, <1>6, <1>7, <1>9, <1>10 DEF SDInv

\* The game is started, with a card or without.
LEMMA SDInvInit == SDInit => SDInv
<1> SUFFICES ASSUME SDInit PROVE SDInv
  OBVIOUS
<1>1. \A t \in Threads : job[t] = Idle /\ job[t].pc = "idle"
  BY DEF SDInit, Idle
<1>2. card \in Cards
  BY NewCardIs DEF SDInit
<1>3. \A i \in Nat : <<0, i>> \in Contents
  BY SDCardAssumption DEF Contents
<1>4. disk \in [0..(Sectors - 1) -> Contents] /\ tmp \in [1..TmpSectors -> Contents]
  BY <1>3, SDCardAssumption DEF SDInit
<1>9. begun \in 0..MaxTransfers /\ failures \in 0..MaxFailures /\ swaps \in 0..MaxSwaps
  BY SDCardAssumption, IosAssumption DEF SDInit
<1>5. CardTypes
  BY <1>2, <1>4, <1>9 DEF SDInit, CardTypes, Steps
<1>6. JobTypes
  BY <1>1 DEF SDInit, JobTypes
<1>7. PairsKnown /\ Scheduled /\ DataKept /\ FailureExplained
  BY <1>1 DEF PairsKnown, Scheduled, DataKept, FailureExplained, Busy
<1>8. UnitKnown /\ Healthy
  BY <1>1 DEF SDInit, UnitKnown, Healthy
<1> QED
  BY <1>5, <1>6, <1>7, <1>8 DEF SDInv

\* Nothing happens.
LEMMA SDStutters == SDInv /\ UNCHANGED sdVars => SDInv'
<1> SUFFICES ASSUME SDInv, UNCHANGED sdVars PROVE SDInv'
  OBVIOUS
<1>1. UNCHANGED <<card, disk, rca, sdhc, device, tmp, init, job, begun, failures, swaps>>
  BY DEF sdVars
<1>2. CardTypes' /\ JobTypes'
  BY <1>1 DEF SDInv, CardTypes, JobTypes, Consistent
<1>3. PairsKnown' /\ Scheduled'
  BY <1>1 DEF SDInv, PairsKnown, Scheduled, Busy, Mixes
<1>4. DataKept'
  BY <1>1 DEF SDInv, DataKept, Busy, RightOn, Chunk
<1>5. UnitKnown' /\ Healthy' /\ FailureExplained'
  BY <1>1 DEF SDInv, UnitKnown, Healthy, FailureExplained
<1> QED
  BY <1>2, <1>3, <1>4, <1>5 DEF SDInv

\* Every step keeps the invariant.
LEMMA SDInvStep == SDInv /\ [SDNext]_sdVars => SDInv'
<1> SUFFICES ASSUME SDInv, [SDNext]_sdVars PROVE SDInv'
  OBVIOUS
<1>1. CASE Start
  BY <1>1, StartKeeps, MountKeeps, MountedKeeps DEF Start
<1>2. CASE PowerCycle
  BY <1>2, PowerKeeps
<1>3. CASE Swap
  BY <1>3, SwapKeeps
<1>4. ASSUME NEW t \in Threads, Transfer(t) PROVE SDInv'
  BY <1>4, SelectKeeps, CopyInKeeps, CommandKeeps, FailKeeps, CopyOutKeeps, DeselectKeeps
     DEF Transfer
<1>5. ASSUME NEW t \in Threads, NEW r \in Requests, Request(t, r) PROVE SDInv'
  BY <1>5, RequestKeeps
<1>6. CASE UNCHANGED sdVars
  BY <1>6, SDStutters
<1> QED
  BY <1>1, <1>2, <1>3, <1>4, <1>5, <1>6 DEF SDNext

\* The invariant of every state.
LEMMA SDInvariant == SDSpec => []SDInv
BY SDInvInit, SDInvStep, PTL DEF SDSpec

-----------------------------------------------------------------------------
(* The properties.                                                          *)

\* Every variable keeps its type: a transfer stays within the sectors it was
\* asked for, and no block is lost from its count.
THEOREM CardTypeCorrect == SDSpec => []TypeOK
<1>1. SDInv => TypeOK
  <2> SUFFICES ASSUME SDInv PROVE TypeOK
    OBVIOUS
  <2>1. /\ {card.present, card.ready, card.hc, card.selected, card.blocks} \subseteq BOOLEAN
        /\ {card.address, rca} \subseteq Addresses \cup {NoAddress}
        /\ {sdhc, device} \subseteq BOOLEAN
        /\ disk \in [0..(Sectors - 1) -> Contents] /\ tmp \in [1..TmpSectors -> Contents]
        /\ init \in Steps
        /\ begun \in 0..MaxTransfers /\ failures \in 0..MaxFailures /\ swaps \in 0..MaxSwaps
    BY DEF SDInv, CardTypes, Cards
  <2>2. ASSUME NEW t \in Threads
        PROVE  \/ job[t].pc = "idle"
               \/ /\ job[t].pc \in {"select", "copy", "command", "deselect", "done"}
                  /\ job[t].at \in 0..job[t].count /\ job[t].buffer \in [1..job[t].count -> Contents]
    BY LiveJob DEF SDInv, Jobs, Consistent
  <2> QED
    BY <2>1, <2>2 DEF TypeOK
<1> QED
  BY <1>1, SDInvariant, PTL

\* What a transfer answers is true, whoever else transfers and whatever fails
\* (SD_Transfer).
THEOREM AnswerCorrect == SDSpec => []AnswerIsTrue
<1>1. SDInv => AnswerIsTrue
  <2> SUFFICES ASSUME SDInv, NEW t \in Threads, job[t].pc = "deselect"
               PROVE  IF job[t].ok
                      THEN job[t].mixed \/ \A i \in 1..job[t].count :
                                             job[t].buffer[i] = disk[job[t].sector + i - 1]
                      ELSE job[t].overlap \/ failures > 0 \/ swaps > 0
    BY DEF AnswerIsTrue
  <2>1. Busy(t) /\ Consistent(job[t])
    BY LiveJob DEF SDInv, Busy
  <2>2. RightOn(job[t], disk, tmp)
    BY <2>1 DEF SDInv, DataKept
  <2>3. CASE job[t].ok
    BY <2>1, <2>2, <2>3 DEF Consistent, RightOn
  <2>4. CASE ~job[t].ok
    BY <2>4 DEF SDInv, FailureExplained
  <2> QED
    BY <2>3, <2>4
<1> QED
  BY <1>1, SDInvariant, PTL

\* A step of the invariant writes only where a write on its way asked for.
LEMMA StepWritesInside ==
  ASSUME SDInv, SDNext, NEW s \in DOMAIN disk, disk'[s] # disk[s]
  PROVE  \E t \in Threads :
           Busy(t) /\ job[t].write /\ s \in job[t].sector..(job[t].sector + job[t].count - 1)
<1>1. PICK t \in Threads : SD_TransferAligned(t) \/ TransferFails(t)
  BY DEF SDNext, Start, Open, SD_Reset, SD_GetStatus, SD_Reinitialize, SelectCard,
         SD_SetCardBlockSize, Mount, Mounted, PowerCycle, Swap, Transfer, SD_Select, CopyIn,
         CopyOut, SD_Deselect, Request
<1> DEFINE j == job[t]
<1>2. j.pc = "command"
  BY <1>1 DEF SD_TransferAligned, TransferFails
<1>3. Busy(t) /\ j \in Jobs /\ Consistent(j) /\ s \in 0..(Sectors - 1)
  BY <1>2, LiveJob DEF SDInv, Busy, CardTypes
<1>4. PICK n \in 0..Chunk(j) : Reaches(j) /\ j.write /\ disk' = Written(j, n)
  <2>1. Chunk(j) \in Nat /\ 1 <= Chunk(j)
    BY <1>2, <1>3, ChunkBounds
  <2>2. CASE SD_TransferAligned(t)
    BY <2>1, <2>2 DEF SD_TransferAligned
  <2>3. CASE TransferFails(t)
    BY <2>1, <2>3 DEF TransferFails
  <2> QED
    BY <1>1, <2>2, <2>3
<1>5. s \in (j.sector + j.at)..(j.sector + j.count - 1)
  BY <1>2, <1>3, <1>4, WrittenInside
<1>6. s \in j.sector..(j.sector + j.count - 1)
  BY <1>3, <1>5 DEF Jobs
<1> QED
  BY <1>3, <1>4, <1>6

\* Whatever fails, overlaps or is cut off by the power, only sectors that a
\* write in progress asked for change (SD_TransferAligned, SD_GetStatus).
THEOREM WritesCorrect == SDSpec => WritesStayInside
<1>1. SDInv /\ [SDNext]_sdVars =>
        [\A s \in DOMAIN disk :
           disk'[s] # disk[s] =>
             \E t \in Threads :
               Busy(t) /\ job[t].write
               /\ s \in job[t].sector..(job[t].sector + job[t].count - 1)]_sdVars
  BY StepWritesInside
<1> QED
  BY <1>1, SDInvariant, PTL DEF SDSpec, WritesStayInside
=============================================================================
