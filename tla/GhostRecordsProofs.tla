-------------------------- MODULE GhostRecordsProofs --------------------------
(***************************************************************************)
(* Proofs about GhostRecords for any courses, ranks, list and folder       *)
(* sizes, depth of the task pool and bounds on times and ghosts.           *)
(***************************************************************************)
EXTENDS GhostRecords, FiniteSetTheorems, WellFoundedInduction, TLAPS

-----------------------------------------------------------------------------
(* The invariant.                                                           *)

Tasks == {"CreateAndSaveFiles", "ReadGhosts", "SaveTask"}
Saving == {"CreateGhost", "WriteGhost", "SaveBoard"}
Reading == {"ReadFolder", "ClearBoard", "ReadBoard"}
Initing == {"Init", "ReadHeaders", "crashed"} \union Reading

\* The task thread is where its first task says.
PlaceInv ==
  /\ pc # "Idle" => pool # <<>>
  /\ pc \in Saving => Head(pool) = "CreateAndSaveFiles"
  /\ pc = "SaveTask" => Head(pool) = "SaveTask"
  /\ pc \in Initing => Head(pool) \in {"CreateAndSaveFiles", "ReadGhosts"}

\* What the player waits for comes last, and nothing but records is under way
\* while he races.
PoolInv ==
  /\ \A i \in 1..Len(pool) : pool[i] = "ReadGhosts" => screen = "wait" /\ i = Len(pool)
  /\ screen = "select" => pool = <<>>
  /\ screen \in {"race", "result"} => \A i \in 1..Len(pool) : pool[i] = "CreateAndSaveFiles"

\* The listing is of files there are.
FolderInv ==
  IF folder.course \in Courses THEN folder.count <= Len(ghosts[folder.course])
  ELSE folder.count = 0

\* The manager, the listing and the Init under way are about one course.
CourseInv ==
  /\ pc \in Reading \union {"ReadHeaders"} =>
       /\ cur \in Courses /\ courseId \in {cur, NoCourse}
       /\ Head(pool) = "ReadGhosts" => cur = track
  /\ "ioError" \notin spoiled =>
       /\ pc \in {"ClearBoard", "ReadBoard", "ReadHeaders"} => folder.course = cur
       /\ courseId \in Courses => pc = "ReadFolder" \/ folder.course = courseId

\* The headers are there unless the player left while a record was saved.
FilesInv ==
  /\ pc = "ReadHeaders" /\ files = Freed => "reset" \in spoiled /\ Head(pool) # "ReadGhosts"
  /\ pc = "crashed" => "reset" \in spoiled

\* The headers of the select page are those that were read, of files there
\* are.
SelectInv ==
  screen = "select" =>
    /\ files # Freed /\ list = Shown(files)
    /\ \E unread \in SUBSET (1..folder.count) :
         files = ValidHeaders(unread) /\ ("ioError" \notin spoiled => unread = {})
    /\ "ioError" \notin spoiled => folder.course = track

\* A leaderboard in use has its file and is not behind it.
BoardInv ==
  "ioError" \notin spoiled /\ courseId \in Courses /\ pc \notin Reading =>
    boards[courseId] # NoFile /\ NoWorse(board, boards[courseId])

\* A leaderboard that is being read again is empty.
ClearedInv == pc = "ReadBoard" /\ "overlap" \notin spoiled => board = EmptyBoard

\* The record in the shared buffer has still to be written.
RecordPending ==
  pool # <<>> /\ Head(pool) = "CreateAndSaveFiles" /\ pc \in {"Idle", "CreateGhost", "WriteGhost"}

HasGhost(time, c) == \E k \in 1..Len(ghosts[c]) : ghosts[c][k] = time

Lone == spoiled \intersect {"overlap", "crowded", "ioError"} = {}

\* A file that was created is torn until it is written.
TornInv ==
  Lone /\ pc = "WriteGhost" =>
    /\ folder.course \in Courses /\ Len(ghosts[folder.course]) > 0
    /\ ghosts[folder.course][Len(ghosts[folder.course])] = 0

\* Every entry of the leaderboard has its ghost, or will have.
EntriesInv ==
  Lone /\ courseId \in Courses /\ pc \notin Reading =>
    \A i \in 1..Ranks : board.rank[i] # 0 =>
      HasGhost(board.rank[i], courseId) \/ (RecordPending /\ board.rank[i] = rkg)

GhostInv ==
  /\ TypeOK
  /\ PlaceInv /\ PoolInv /\ FolderInv /\ CourseInv /\ FilesInv /\ SelectInv
  /\ BoardsSorted /\ BoardInv /\ ClearedInv
  /\ TornInv /\ EntriesInv /\ EntryHasGhost /\ RecordOnItsWay
  /\ PickedIsLoaded

-----------------------------------------------------------------------------
(* The operators of the model.                                              *)

\* A set of numbers has a smallest one.
LEMMA Smallest ==
  ASSUME NEW S, S \subseteq Nat, S # {}
  PROVE  \E n \in S : \A m \in S : n <= m
<1> DEFINE R == OpToRel(<, Nat)
<1>1. IsWellFoundedOn(R, Nat)
  BY NatLessThanWellFounded
<1>2. \A m, n \in Nat : m < n => <<m, n>> \in R
  BY DEF OpToRel
<1> HIDE DEF R
<1>3. PICK n \in S : \A m \in S : ~ (<<m, n>> \in R)
  BY <1>1, WFMin
<1>4. ASSUME NEW m \in S PROVE n <= m
  <2>1. m \in Nat /\ n \in Nat /\ ~ (<<m, n>> \in R)
    BY <1>3
  <2>2. ~ (m < n)
    BY <1>2, <2>1
  <2> QED
    BY <2>1, <2>2
<1> QED
  BY <1>4

\* A set of indices has a k-th one for every k up to its size, and the k-th
\* one says which it is.
LEMMA NthIsOne ==
  ASSUME NEW n \in Nat, NEW V \in SUBSET (1..n), NEW k \in 1..Cardinality(V)
  PROVE  Nth(V, k) \in V /\ Cardinality(V \intersect (1..Nth(V, k))) = k
<1> DEFINE Upto(i) == V \intersect (1..i)
           c(i) == Cardinality(Upto(i))
<1>1. IsFiniteSet(V) /\ Cardinality(V) \in Nat
  <2>1. IsFiniteSet(1..n)
    BY FS_Interval
  <2>2. IsFiniteSet(V)
    BY <2>1, FS_Subset
  <2> QED
    BY <2>2, FS_CardinalityType
<1>2. \A i \in 0..n : IsFiniteSet(Upto(i)) /\ c(i) \in Nat
  <2>1. ASSUME NEW i \in 0..n PROVE IsFiniteSet(Upto(i)) /\ c(i) \in Nat
    <3>1. Upto(i) \in SUBSET V
      OBVIOUS
    <3>2. IsFiniteSet(Upto(i))
      BY <1>1, <3>1, FS_Subset
    <3> QED
      BY <3>2, FS_CardinalityType
  <2> QED
    BY <2>1
<1>3. c(0) = 0
  <2>1. Upto(0) = {}
    OBVIOUS
  <2> QED
    BY <2>1, FS_EmptySet
<1>4. c(n) = Cardinality(V)
  <2>1. Upto(n) = V
    OBVIOUS
  <2> QED
    BY <2>1
<1> DEFINE S == {i \in 0..n : k <= c(i)}
<1>5. S \subseteq Nat /\ n \in S /\ k \in Nat \ {0}
  BY <1>1, <1>4
<1>6. PICK i \in S : \A j \in S : i <= j
  BY <1>5, Smallest
<1>7. i \in 0..n /\ k <= c(i) /\ c(i) \in Nat
  BY <1>2
<1>8. i # 0
  <2>1. CASE i = 0
    BY <1>3, <1>5, <1>7, <2>1
  <2> QED
    BY <2>1
<1>9. i - 1 \in 0..n /\ i - 1 < i
  BY <1>7, <1>8
<1>10. c(i - 1) \in Nat /\ c(i - 1) < k
  <2>1. c(i - 1) \in Nat
    BY <1>2, <1>9
  <2>2. ~ (k <= c(i - 1))
    BY <1>6, <1>7, <1>9
  <2> QED
    BY <1>5, <2>1, <2>2
<1>11. i \in V /\ c(i) = k
  <2>1. CASE i \notin V
    <3>1. Upto(i) = Upto(i - 1)
      BY <1>7, <1>9, <2>1
    <3>2. c(i) = c(i - 1)
      BY <3>1
    <3> QED
      BY <1>5, <1>7, <1>10, <3>2
  <2>2. CASE i \in V
    <3>1. Upto(i) = Upto(i - 1) \union {i} /\ i \notin Upto(i - 1)
      BY <1>7, <1>9, <2>2
    <3>2. IsFiniteSet(Upto(i - 1))
      BY <1>2, <1>9
    <3> DEFINE T == Upto(i - 1)
    <3> HIDE DEF T
    <3>3. Cardinality(T \union {i}) = IF i \in T THEN Cardinality(T) ELSE Cardinality(T) + 1
      BY <3>2, FS_AddElement DEF T
    <3>4. c(i) = c(i - 1) + 1
      BY <3>1, <3>3 DEF T
    <3> QED
      BY <1>5, <1>7, <1>10, <2>2, <3>4
  <2> QED
    BY <2>1, <2>2
<1>12. \E x \in V : Cardinality(V \intersect (1..x)) = k
  BY <1>11
<1> HIDE DEF Upto, c, S
<1> QED
  BY <1>12 DEF Nth

\* Times that are lower, or there where none was.
LEMMA NoWorseTransitive ==
  ASSUME NEW a \in Board, NEW b \in Board, NEW c \in Board, NoWorse(a, b), NoWorse(b, c)
  PROVE  NoWorse(a, c)
<1>1. \A i \in 1..Ranks : a.rank[i] \in Nat /\ b.rank[i] \in Nat /\ c.rank[i] \in Nat
  BY SizeAssumption DEF Board, Times
<1>2. a.flap \in Nat /\ b.flap \in Nat /\ c.flap \in Nat
  BY SizeAssumption DEF Board, Laps
<1>3. ASSUME NEW i \in 1..Ranks, c.rank[i] # 0 PROVE a.rank[i] \in 1..c.rank[i]
  <2>1. b.rank[i] \in 1..c.rank[i]
    BY <1>3 DEF NoWorse
  <2>2. b.rank[i] # 0
    BY <2>1
  <2>3. a.rank[i] \in 1..b.rank[i]
    BY <2>2 DEF NoWorse
  <2> QED
    BY <1>1, <2>1, <2>3
<1>4. ASSUME c.flap # 0 PROVE a.flap \in 1..c.flap
  <2>1. b.flap \in 1..c.flap
    BY <1>4 DEF NoWorse
  <2>2. b.flap # 0
    BY <2>1
  <2>3. a.flap \in 1..b.flap
    BY <2>2 DEF NoWorse
  <2> QED
    BY <1>2, <2>1, <2>3
<1> QED
  BY <1>3, <1>4 DEF NoWorse

\* A leaderboard is no worse than itself.
LEMMA NoWorseSame ==
  ASSUME NEW a \in Board
  PROVE  NoWorse(a, a)
<1>1. \A i \in 1..Ranks : a.rank[i] \in Nat
  BY SizeAssumption DEF Board, Times
<1>2. a.flap \in Nat
  BY SizeAssumption DEF Board, Laps
<1> QED
  BY <1>1, <1>2 DEF NoWorse

\* The empty leaderboard is worse than every other.
LEMMA EmptyBoardFacts ==
  /\ EmptyBoard \in Board /\ Sorted(EmptyBoard)
  /\ \A a \in Board : NoWorse(a, EmptyBoard)
  /\ \A i \in 1..Ranks : EmptyBoard.rank[i] = 0
<1>1. \A i \in 1..Ranks : EmptyBoard.rank[i] = 0
  BY DEF EmptyBoard
<1>2. EmptyBoard \in Board
  <2>1. 0 \in Times /\ 0 \in Laps
    BY SizeAssumption DEF Times, Laps
  <2> QED
    BY <2>1 DEF EmptyBoard, Board
<1>3. EmptyBoard.flap = 0
  BY DEF EmptyBoard
<1> QED
  BY <1>1, <1>2, <1>3 DEF Sorted, NoWorse

\* The rank of a time is the first that gives way to it.
LEMMA PositionIsFirst ==
  ASSUME NEW b \in Board, NEW time \in Nat \ {0}, Position(b, time) # 0
  PROVE  /\ Position(b, time) \in 1..Ranks
         /\ GivesWay(b.rank[Position(b, time)], time)
         /\ \A j \in 1..Ranks : j < Position(b, time) => ~GivesWay(b.rank[j], time)
<1> DEFINE beaten == {i \in 1..Ranks : GivesWay(b.rank[i], time)}
           first == CHOOSE i \in beaten : \A j \in beaten : i <= j
<1>1. beaten # {} /\ Position(b, time) = first
  BY DEF Position
<1>2. \E i \in beaten : \A j \in beaten : i <= j
  <2>1. beaten \subseteq Nat
    BY SizeAssumption
  <2> HIDE DEF beaten
  <2> QED
    BY <1>1, <2>1, Smallest
<1>3. first \in beaten /\ \A j \in beaten : first <= j
  BY <1>2
<1> HIDE DEF first
<1>4. first \in 1..Ranks /\ GivesWay(b.rank[first], time)
  BY <1>3
<1>5. ASSUME NEW j \in 1..Ranks, j < first PROVE ~GivesWay(b.rank[j], time)
  <2>1. CASE j \in beaten
    BY <1>3, <1>4, <1>5, <2>1
  <2> QED
    BY <2>1
<1> QED
  BY <1>1, <1>4, <1>5

\* Inserting a time keeps the board sorted and makes it no worse at any rank;
\* every entry was there or is the new time.
LEMMA InsertFacts ==
  ASSUME NEW b \in Board, Sorted(b), NEW time \in Times \ {0}, NEW i \in 1..Ranks,
         GivesWay(b.rank[i], time),
         \A j \in 1..Ranks : j < i => ~GivesWay(b.rank[j], time)
  PROVE  /\ Insert(b, i, time) \in Board /\ Sorted(Insert(b, i, time))
         /\ NoWorse(Insert(b, i, time), b)
         /\ \A j \in 1..Ranks :
              Insert(b, i, time).rank[j] = time
                \/ \E m \in 1..Ranks : Insert(b, i, time).rank[j] = b.rank[m]
<1> DEFINE r == b.rank
           n == Insert(b, i, time)
           s == n.rank
<1>1. /\ Ranks \in Nat \ {0} /\ time \in Nat \ {0} /\ r \in [1..Ranks -> Times]
      /\ \A j \in 1..Ranks : r[j] \in Nat
      /\ b.flap \in Laps /\ b.flap \in Nat
  BY SizeAssumption DEF Board, Times, Laps
<1>2. /\ n = [rank |-> s, flap |-> b.flap]
      /\ s = [j \in 1..Ranks |-> IF j < i THEN r[j] ELSE IF j = i THEN time ELSE r[j - 1]]
  <2> DEFINE f == [j \in 1..Ranks |-> IF j < i THEN r[j] ELSE IF j = i THEN time ELSE r[j - 1]]
  <2>1. n = [b EXCEPT !.rank = f]
    BY DEF Insert
  <2> HIDE DEF f, n
  <2>2. n = [rank |-> f, flap |-> b.flap]
    BY <2>1 DEF Board
  <2>3. s = f
    BY <2>2
  <2> QED
    BY <2>2, <2>3 DEF f
<1>3. r[i] = 0 \/ time <= r[i]
  BY DEF GivesWay
<1>4. \A j \in 1..Ranks : j < i => r[j] # 0 /\ r[j] < time
  BY <1>1 DEF GivesWay
<1>5. \A j, m \in 1..Ranks : j < m /\ r[m] # 0 => r[j] \in 1..r[m]
  BY DEF Sorted
<1> HIDE DEF n, r, s
<1>6. /\ \A j \in 1..Ranks : j < i => s[j] = r[j]
      /\ s[i] = time
      /\ \A j \in 1..Ranks : j > i => s[j] = r[j - 1] /\ j - 1 \in 1..Ranks
  <2>1. \A j \in 1..Ranks : s[j] = IF j < i THEN r[j] ELSE IF j = i THEN time ELSE r[j - 1]
    BY <1>2
  <2>2. \A j \in 1..Ranks : j > i => j - 1 \in 1..Ranks
    BY <1>1
  <2> QED
    BY <1>1, <2>1, <2>2
<1>7. \A j \in 1..Ranks : s[j] \in Times /\ s[j] \in Nat
  <2>1. \A j \in 1..Ranks : r[j] \in Times
    BY <1>1
  <2>2. ASSUME NEW j \in 1..Ranks PROVE s[j] \in Times /\ s[j] \in Nat
    BY <1>1, <1>6, <2>1, <2>2
  <2> QED
    BY <2>2
<1>8. n \in Board
  <2>1. s \in [1..Ranks -> Times]
    BY <1>2, <1>7
  <2> QED
    BY <1>1, <1>2, <2>1 DEF Board
<1>9. ASSUME NEW j \in 1..Ranks, NEW m \in 1..Ranks, j < m, s[m] # 0
      PROVE  s[j] \in 1..s[m]
  <2>1. CASE m < i
    BY <1>1, <1>5, <1>6, <1>9, <2>1
  <2>2. CASE m = i
    BY <1>1, <1>4, <1>6, <1>9, <2>2
  <2>3. CASE m > i
    <3>1. s[m] = r[m - 1] /\ m - 1 \in 1..Ranks /\ r[m - 1] # 0
      BY <1>6, <1>9, <2>3
    <3>2. CASE j < i
      BY <1>1, <1>5, <1>6, <2>3, <3>1, <3>2
    <3>3. CASE j = i
      <4>1. CASE m - 1 = i
        BY <1>1, <1>3, <1>6, <3>1, <3>3, <4>1
      <4>2. CASE m - 1 # i
        <5>1. i < m - 1
          BY <1>1, <2>3, <4>2
        <5>2. r[i] \in 1..r[m - 1]
          BY <1>5, <3>1, <5>1
        <5> QED
          BY <1>1, <1>3, <1>6, <3>1, <3>3, <5>2
      <4> QED
        BY <4>1, <4>2
    <3>4. CASE j > i
      <4>1. s[j] = r[j - 1] /\ j - 1 \in 1..Ranks /\ j - 1 < m - 1
        BY <1>1, <1>6, <1>9, <3>4
      <4> QED
        BY <1>5, <3>1, <4>1
    <3> QED
      BY <1>1, <3>2, <3>3, <3>4
  <2> QED
    BY <1>1, <2>1, <2>2, <2>3
<1>10. ASSUME NEW j \in 1..Ranks, r[j] # 0
       PROVE  s[j] \in 1..r[j]
  <2>1. CASE j < i
    BY <1>1, <1>6, <1>10, <2>1
  <2>2. CASE j = i
    BY <1>1, <1>3, <1>6, <1>10, <2>2
  <2>3. CASE j > i
    <3>1. s[j] = r[j - 1] /\ j - 1 \in 1..Ranks /\ j - 1 < j
      BY <1>1, <1>6, <2>3
    <3> QED
      BY <1>5, <1>10, <3>1
  <2> QED
    BY <1>1, <2>1, <2>2, <2>3
<1>11. ASSUME NEW j \in 1..Ranks
       PROVE  s[j] = time \/ \E m \in 1..Ranks : s[j] = r[m]
  BY <1>1, <1>6
<1>12. n.rank = s /\ n.flap = b.flap
  BY <1>2
<1>13. Sorted(n)
  BY <1>9, <1>12 DEF Sorted
<1>14. NoWorse(n, b)
  BY <1>1, <1>10, <1>12 DEF NoWorse, r
<1> QED
  BY <1>8, <1>11, <1>13, <1>14 DEF n, s, r

\* A best lap changes no rank.
LEMMA LapFacts ==
  ASSUME NEW b \in Board, Sorted(b), NEW lap \in Laps \ {0}, GivesWay(b.flap, lap)
  PROVE  /\ [b EXCEPT !.flap = lap] \in Board /\ Sorted([b EXCEPT !.flap = lap])
         /\ NoWorse([b EXCEPT !.flap = lap], b)
         /\ [b EXCEPT !.flap = lap].rank = b.rank
<1> DEFINE n == [b EXCEPT !.flap = lap]
<1>1. n \in Board /\ n.rank = b.rank /\ n.flap = lap
  BY DEF Board
<1>2. Sorted(n)
  BY <1>1 DEF Sorted
<1>3. lap \in Nat \ {0} /\ b.flap \in Nat /\ \A i \in 1..Ranks : b.rank[i] \in Nat
  BY SizeAssumption DEF Board, Laps, Times
<1>4. NoWorse(n, b)
  BY <1>1, <1>3 DEF NoWorse, GivesWay
<1> QED
  BY <1>1, <1>2, <1>4

-----------------------------------------------------------------------------
(* The task pool and the headers.                                           *)

\* A request is put behind the others, or dropped.
LEMMA Requested ==
  ASSUME pool \in Seq(Tasks), Len(pool) <= Depth, NEW task \in Tasks, Request(task)
  PROVE  /\ pool' \in Seq(Tasks) /\ Len(pool') <= Depth
         /\ pool' = Append(pool, task) \/ (pool' = pool /\ pool # <<>> /\ Len(pool) >= Depth)
         /\ Len(pool) < Depth => pool' = Append(pool, task)
         /\ pool # <<>> => pool' # <<>> /\ Head(pool') = Head(pool)
         /\ pool' # <<>>
         /\ Len(pool') >= Len(pool) /\ \A i \in 1..Len(pool) : pool'[i] = pool[i]
         /\ \A i \in 1..Len(pool') :
              pool'[i] = task \/ (i \in 1..Len(pool) /\ pool'[i] = pool[i])
<1>1. Depth \in Nat \ {0}
  BY SizeAssumption
<1>2. CASE Len(pool) < Depth /\ pool' = Append(pool, task)
  BY <1>1, <1>2
<1>3. CASE ~(Len(pool) < Depth) /\ pool' = pool
  <2>1. Len(pool) >= Depth /\ pool # <<>>
    BY <1>1, <1>3
  <2> QED
    BY <1>1, <1>3, <2>1
<1> QED
  BY <1>2, <1>3 DEF Request

\* The first task is done.
LEMMA Ended ==
  ASSUME pool \in Seq(Tasks), pool # <<>>, Len(pool) <= Depth, pool' = Tail(pool)
  PROVE  /\ pool' \in Seq(Tasks) /\ Len(pool') = Len(pool) - 1 /\ Len(pool') <= Depth
         /\ \A i \in 1..Len(pool') : i + 1 \in 1..Len(pool) /\ pool'[i] = pool[i + 1]
<1>1. Depth \in Nat \ {0}
  BY SizeAssumption
<1> QED
  BY <1>1

\* A function on 1..n is a sequence.
LEMMA RowIsSeq ==
  ASSUME NEW n \in Nat, NEW S, NEW f \in [1..n -> S]
  PROVE  f \in Seq(S) /\ Len(f) = n
OBVIOUS

\* The listed files that are read and found valid.
ValidFiles(unread) == {i \in 1..folder.count : i \notin unread /\ ghosts[folder.course][i] # 0}

\* The headers are those of valid files of the listing, no two of one file,
\* and there is one for each.
LEMMA HeadersAre ==
  ASSUME TypeOK, FolderInv, NEW unread
  PROVE  /\ ValidHeaders(unread) \in Headers
         /\ ValidFiles(unread) \in SUBSET (1..folder.count)
         /\ IsFiniteSet(ValidFiles(unread)) /\ Cardinality(ValidFiles(unread)) \in Nat
         /\ Len(ValidHeaders(unread)) = Cardinality(ValidFiles(unread))
         /\ \A h \in 1..Len(ValidHeaders(unread)) :
              /\ ValidHeaders(unread)[h].padding \in ValidFiles(unread)
              /\ ValidHeaders(unread)[h].time
                   = ghosts[folder.course][ValidHeaders(unread)[h].padding]
         /\ \A h, g \in 1..Len(ValidHeaders(unread)) :
              ValidHeaders(unread)[h].padding = ValidHeaders(unread)[g].padding => h = g
<1> DEFINE n == folder.count
           file == ghosts[folder.course]
           V == ValidFiles(unread)
           m == Cardinality(V)
           H == ValidHeaders(unread)
<1>1. n \in Nat /\ n \in 0..MaxFiles
  BY SizeAssumption DEF TypeOK
<1>2. V \in SUBSET (1..n) /\ IsFiniteSet(V) /\ m \in Nat
  <2>1. V \in SUBSET (1..n)
    BY DEF ValidFiles
  <2>2. IsFiniteSet(1..n)
    BY <1>1, FS_Interval
  <2>3. IsFiniteSet(V)
    BY <2>1, <2>2, FS_Subset
  <2> QED
    BY <2>1, <2>3, FS_CardinalityType
<1>3. H = [k \in 1..m |-> [time |-> file[Nth(V, k)], padding |-> Nth(V, k)]]
  BY DEF ValidHeaders, ValidFiles
<1>4. \A i \in V : file[i] \in Times \ {0} /\ i \in Nat \ {0}
  <2>1. ASSUME NEW i \in V PROVE file[i] \in Times \ {0} /\ i \in Nat \ {0}
    <3>1. i \in 1..n /\ file[i] # 0
      BY DEF ValidFiles
    <3>2. folder.course \in Courses /\ n <= Len(file)
      BY <1>1, <3>1 DEF FolderInv
    <3>3. file \in Seq(Times)
      BY <3>2 DEF TypeOK
    <3> QED
      BY <1>1, <3>1, <3>2, <3>3
  <2> QED
    BY <2>1
<1>5. \A k \in 1..m : Nth(V, k) \in V /\ Cardinality(V \intersect (1..Nth(V, k))) = k
  <2>1. ASSUME NEW k \in 1..m
        PROVE  Nth(V, k) \in V /\ Cardinality(V \intersect (1..Nth(V, k))) = k
    <3> HIDE DEF V
    <3> QED
      BY <1>1, <1>2, NthIsOne
  <2> QED
    BY <2>1
<1> HIDE DEF n, file, V, m, H
<1>6. \A k \in 1..m : H[k] = [time |-> file[Nth(V, k)], padding |-> Nth(V, k)]
  BY <1>3
<1>7. ASSUME NEW k \in 1..m
      PROVE  /\ H[k] \in [time : Times \ {0}, padding : Nat \ {0}]
             /\ H[k].padding = Nth(V, k) /\ H[k].time = file[Nth(V, k)]
  <2> DEFINE x == Nth(V, k)
  <2>1. x \in V
    BY <1>5
  <2>2. H[k] = [time |-> file[x], padding |-> x]
    BY <1>6
  <2> HIDE DEF x
  <2>3. file[x] \in Times \ {0} /\ x \in Nat \ {0}
    BY <1>4, <2>1
  <2> QED
    BY <2>2, <2>3 DEF x
<1> DEFINE R == [time : Times \ {0}, padding : Nat \ {0}]
<1> HIDE DEF R
<1>8. H \in [1..m -> R]
  BY <1>3, <1>7 DEF R
<1>9. H \in Headers /\ Len(H) = m
  <2>1. H \in Seq(R) /\ Len(H) = m
    BY <1>2, <1>8, RowIsSeq
  <2> QED
    BY <2>1 DEF Headers, R
<1>10. \A h \in 1..m : H[h].padding = Nth(V, h) /\ H[h].time = file[Nth(V, h)]
  BY <1>7
<1>11. \A h \in 1..m : H[h].padding \in V /\ H[h].time = file[H[h].padding]
  BY <1>5, <1>10
<1>12. \A h, g \in 1..m : H[h].padding = H[g].padding => h = g
  <2>1. ASSUME NEW h \in 1..m, NEW g \in 1..m, Nth(V, h) = Nth(V, g) PROVE h = g
    BY <1>5, <2>1
  <2> QED
    BY <1>10, <2>1
<1> QED
  BY <1>2, <1>9, <1>11, <1>12 DEF n, file, V, m, H

-----------------------------------------------------------------------------
(* What an end of a race leaves.                                            *)

\* A race ends with the leaderboard as it was, or better at no rank worse; a
\* new time in it is the one in the ghost buffer, and then its saving was
\* requested.
LEMMA RaceFinished ==
  ASSUME TypeOK, Sorted(board), NEW time \in 1..MaxTime, NEW lap \in 1..MaxLap,
         FinishRace(time, lap)
  PROVE  /\ board' \in Board /\ Sorted(board') /\ NoWorse(board', board)
         /\ spoiled \subseteq spoiled' /\ spoiled' \subseteq Spoils
         /\ rkg' \in Times
         /\ \/ /\ rkg' = time /\ Request("CreateAndSaveFiles")
               /\ SavingRecord => "overlap" \in spoiled'
               /\ \A j \in 1..Ranks :
                    board'.rank[j] = rkg' \/ \E m \in 1..Ranks : board'.rank[j] = board.rank[m]
            \/ /\ pool' = pool /\ board'.rank = board.rank /\ "noGhost" \in spoiled'
               /\ SavingRecord => "overlap" \in spoiled'
            \/ pool' = pool /\ board' = board /\ rkg' = rkg
<1> DEFINE flap == GivesWay(board.flap, lap)
           lapped == [board EXCEPT !.flap = IF flap THEN lap ELSE @]
           rank == Position(board, time)
<1>1. /\ board \in Board /\ time \in Times \ {0} /\ lap \in Laps \ {0} /\ rkg \in Times
      /\ time \in Nat \ {0} /\ spoiled \subseteq Spoils /\ 0 \in Times
  BY SizeAssumption DEF TypeOK, Times, Laps
<1>2. \/ /\ flap \/ rank > 0
         /\ rkg' = time
         /\ board' = IF rank > 0 THEN Insert(lapped, rank, time) ELSE lapped
         /\ Request("CreateAndSaveFiles")
         /\ Spoil(Crowding \union Overlap)
      \/ /\ flap \/ rank > 0
         /\ board' = lapped /\ rkg' \in {rkg, 0}
         /\ Spoil({"noGhost"} \union Overlap) /\ UNCHANGED pool
      \/ ~(flap \/ rank > 0) /\ board' = lapped /\ UNCHANGED <<rkg, pool, spoiled>>
  BY DEF FinishRace, SaveRecord
<1>3. /\ lapped \in Board /\ Sorted(lapped) /\ NoWorse(lapped, board)
      /\ lapped.rank = board.rank /\ (~flap => lapped = board)
  <2>1. CASE flap
    <3>1. lapped = [board EXCEPT !.flap = lap]
      BY <2>1
    <3> HIDE DEF lapped, flap
    <3> QED
      BY <1>1, <2>1, <3>1, LapFacts DEF flap
  <2>2. CASE ~flap
    <3>1. lapped = board
      BY <1>1, <2>2 DEF Board
    <3> HIDE DEF lapped
    <3> QED
      BY <1>1, <2>2, <3>1, NoWorseSame
  <2> QED
    BY <2>1, <2>2
<1> HIDE DEF lapped, flap
<1>4. ASSUME rank > 0
      PROVE  /\ Insert(lapped, rank, time) \in Board /\ Sorted(Insert(lapped, rank, time))
             /\ NoWorse(Insert(lapped, rank, time), lapped)
             /\ \A j \in 1..Ranks :
                  Insert(lapped, rank, time).rank[j] = time
                    \/ \E m \in 1..Ranks : Insert(lapped, rank, time).rank[j] = lapped.rank[m]
  <2>0. rank # 0
    <3>1. CASE rank = 0
      BY <1>4, <3>1
    <3> QED
      BY <3>1
  <2>1. /\ rank \in 1..Ranks /\ GivesWay(board.rank[rank], time)
        /\ \A j \in 1..Ranks : j < rank => ~GivesWay(board.rank[j], time)
    BY <1>1, <2>0, PositionIsFirst
  <2> HIDE DEF rank
  <2>2. /\ GivesWay(lapped.rank[rank], time)
        /\ \A j \in 1..Ranks : j < rank => ~GivesWay(lapped.rank[j], time)
    BY <1>3, <2>1
  <2> QED
    BY <1>1, <1>3, <2>1, <2>2, InsertFacts
<1> HIDE DEF rank
<1>5. {"crowded", "overlap", "noGhost"} \subseteq Spoils
  BY DEF Spoils
<1>6. CASE /\ rkg' = time
           /\ board' = IF rank > 0 THEN Insert(lapped, rank, time) ELSE lapped
           /\ Request("CreateAndSaveFiles")
           /\ Spoil(Crowding \union Overlap)
  <2>1. /\ board' \in Board /\ Sorted(board') /\ NoWorse(board', lapped)
        /\ \A j \in 1..Ranks :
             board'.rank[j] = time \/ \E m \in 1..Ranks : board'.rank[j] = lapped.rank[m]
    <3>1. CASE rank > 0
      BY <1>4, <1>6, <3>1
    <3>2. CASE ~(rank > 0)
      BY <1>3, <1>6, <3>2, NoWorseSame
    <3> QED
      BY <3>1, <3>2
  <2>2. NoWorse(board', board)
    BY <1>1, <1>3, <2>1, NoWorseTransitive
  <2>3. spoiled \subseteq spoiled' /\ spoiled' \subseteq Spoils /\ (SavingRecord => "overlap" \in spoiled')
    BY <1>1, <1>5, <1>6 DEF Spoil, Overlap, Crowding
  <2> QED
    BY <1>1, <1>3, <1>6, <2>1, <2>2, <2>3
<1>7. CASE /\ board' = lapped /\ rkg' \in {rkg, 0}
           /\ Spoil({"noGhost"} \union Overlap) /\ UNCHANGED pool
  <2>1. /\ spoiled \subseteq spoiled' /\ spoiled' \subseteq Spoils /\ "noGhost" \in spoiled'
        /\ SavingRecord => "overlap" \in spoiled'
    BY <1>1, <1>5, <1>7 DEF Spoil, Overlap
  <2> QED
    BY <1>1, <1>3, <1>7, <2>1
<1>8. CASE ~flap /\ board' = lapped /\ UNCHANGED <<rkg, pool, spoiled>>
  BY <1>1, <1>3, <1>8
<1> QED
  BY <1>2, <1>6, <1>7, <1>8

-----------------------------------------------------------------------------
(* Types.                                                                   *)

\* The player's steps that only change pages.
Turns == BackToCourses \/ RaceAlone \/ Retry

\* These steps change the page and the race only.
LEMMA TurnsEffect ==
  ASSUME Turns
  PROVE  /\ UNCHANGED <<track, manager, list, pool, pc, cur, storage, spoiled>>
         /\ race' \in {race, NoGhost}
         /\ \/ screen = "select" /\ screen' \in {"course", "race"}
            \/ screen = "result" /\ screen' = "race"
BY DEF Turns, BackToCourses, RaceAlone, Retry

\* What a header of the select page's list says is there to be raced.
LEMMA HeaderOnPage ==
  ASSUME TypeOK, FolderInv, SelectInv, screen = "select", NEW h \in list
  PROVE  /\ files[h].time \in Times /\ GhostFile(h) = files[h].time
         /\ h \in 1..Len(files) /\ h \in Nat
<1>1. PICK unread \in SUBSET (1..folder.count) : files = ValidHeaders(unread)
  BY DEF SelectInv
<1>2. files \in Headers /\ h \in 1..Len(files) /\ h \in Nat
  <2>1. files \in Headers
    BY <1>1, HeadersAre
  <2>2. list = {i \in 1..Len(files) : i <= ListSize}
    BY DEF SelectInv, Shown
  <2> QED
    BY <2>1, <2>2 DEF Headers
<1>3. files[h].time = ghosts[folder.course][files[h].padding]
  BY <1>1, <1>2, HeadersAre
<1>4. files[h].time \in Times
  <2> DEFINE R == [time : Times \ {0}, padding : Nat \ {0}]
  <2>1. files \in Seq(R)
    BY <1>2 DEF Headers
  <2> HIDE DEF R
  <2>2. files[h] \in R
    BY <1>2, <2>1
  <2> QED
    BY <2>2 DEF R
<1> QED
  BY <1>2, <1>3, <1>4 DEF GhostFile

\* The first state has the types of the variables.
LEMMA InitTypes ==
  ASSUME Init
  PROVE  TypeOK
<1>1. /\ 0 \in Times /\ Depth \in Nat \ {0} /\ MaxFiles \in Nat
  BY SizeAssumption DEF Times
<1>2. board \in Board
  BY EmptyBoardFacts DEF Init
<1>3. [c \in Courses |-> NoFile] \in [Courses -> Board \union {NoFile}]
  OBVIOUS
<1>4. [c \in Courses |-> <<>>] \in [Courses -> Seq(Times)]
  OBVIOUS
<1>5. folder \in [course : Courses \union {NoCourse}, count : 0..MaxFiles]
  BY <1>1 DEF Init
<1>6. race \in [picked : Times, loaded : Times]
  BY <1>1 DEF Init, NoGhost
<1> QED
  BY <1>1, <1>2, <1>3, <1>4, <1>5, <1>6 DEF Init, TypeOK, Spoils

\* The player's steps keep the types; a header on the page is needed for the
\* race against it.
LEMMA TypesOfPlayer ==
  ASSUME TypeOK, FolderInv, SelectInv, Sorted(board), Player
  PROVE  TypeOK'
<1>0. /\ pool \in Seq(Tasks) /\ Len(pool) <= Depth
      /\ spoiled \subseteq Spoils /\ {"crowded", "reset", "ioError"} \subseteq Spoils
  BY DEF TypeOK, Tasks, Spoils
<1>1. CASE \E c \in Courses : ChooseCourse(c)
  <2>1. PICK c \in Courses : ChooseCourse(c)
    BY <1>1
  <2>2. pool' \in Seq(Tasks) /\ Len(pool') <= Depth
    BY <1>0, <2>1, Requested DEF ChooseCourse, Tasks
  <2>3. spoiled' \subseteq Spoils
    BY <1>0, <2>1 DEF ChooseCourse, Spoil, Crowding
  <2> QED
    BY <2>1, <2>2, <2>3 DEF ChooseCourse, TypeOK, Tasks, manager, storage
<1>2. CASE Turns
  <2>1. NoGhost \in [picked : Times, loaded : Times]
    BY SizeAssumption DEF NoGhost, Times
  <2>2. /\ UNCHANGED <<track, courseId, board, rkg, folder, files, main, list, pool, pc, cur,
                       boards, ghosts, spoiled>>
        /\ race' \in {race, NoGhost} /\ screen' \in {"course", "race"}
    BY <1>2, TurnsEffect DEF manager, storage
  <2> QED
    BY <2>1, <2>2 DEF TypeOK
<1>3. CASE Quit
  <2>1. NoGhost \in [picked : Times, loaded : Times]
    BY SizeAssumption DEF NoGhost, Times
  <2>2. spoiled' \subseteq Spoils
    BY <1>0, <1>3 DEF Quit, Spoil
  <2> QED
    BY <1>3, <2>1, <2>2 DEF Quit, TypeOK, storage
<1>4. CASE RequestSave
  <2>1. pool' = Append(pool, "SaveTask") /\ Len(pool) < Depth /\ "SaveTask" \in Tasks
    BY <1>4 DEF RequestSave, Tasks
  <2>2. pool' \in Seq(Tasks) /\ Len(pool') <= Depth
    BY <1>0, <2>1, SizeAssumption
  <2> QED
    BY <1>4, <2>2 DEF RequestSave, TypeOK, Tasks, manager, storage
<1>5. CASE \E h \in list : RaceGhost(h)
  <2>1. PICK h \in list : RaceGhost(h)
    BY <1>5
  <2>2. screen = "select"
    BY <2>1 DEF RaceGhost
  <2>3. files[h].time \in Times /\ GhostFile(h) = files[h].time /\ h \in Int
    BY <2>2, HeaderOnPage
  <2>4. race' \in [picked : Times, loaded : Times]
    <3>1. \/ race' = [picked |-> files[h].time, loaded |-> GhostFile(h)]
          \/ race' = [race EXCEPT !.picked = files[h].time]
      BY <2>1 DEF RaceGhost
    <3> QED
      BY <2>3, <3>1 DEF TypeOK
  <2>5. spoiled' \subseteq Spoils
    BY <1>0, <2>1 DEF RaceGhost, Failure, Spoil
  <2> QED
    BY <2>1, <2>3, <2>4, <2>5 DEF RaceGhost, TypeOK, storage
<1>6. CASE \E time \in 1..MaxTime, lap \in 1..MaxLap : FinishRace(time, lap)
  <2>1. PICK time \in 1..MaxTime, lap \in 1..MaxLap : FinishRace(time, lap)
    BY <1>6
  <2>2. board' \in Board /\ spoiled' \subseteq Spoils /\ rkg' \in Times
    BY <2>1, RaceFinished
  <2>3. pool' \in Seq(Tasks) /\ Len(pool') <= Depth
    <3>1. Request("CreateAndSaveFiles") \/ pool' = pool
      BY <2>1, RaceFinished
    <3> QED
      BY <1>0, <3>1, Requested DEF Tasks
  <2> QED
    BY <2>1, <2>2, <2>3 DEF FinishRace, SaveRecord, TypeOK, Tasks, storage
<1> QED
  BY <1>1, <1>2, <1>3, <1>4, <1>5, <1>6 DEF Player, Turns

\* A power cut keeps the types.
LEMMA TypesOfPowerCycle ==
  ASSUME TypeOK, PowerCycle
  PROVE  TypeOK'
<1>1. 0 \in Times /\ MaxFiles \in Nat /\ Depth \in Nat
  BY SizeAssumption DEF Times
<1>2. NoGhost \in [picked : Times, loaded : Times]
  BY <1>1 DEF NoGhost
<1>3. folder' \in [course : Courses \union {NoCourse}, count : 0..MaxFiles]
  BY <1>1 DEF PowerCycle
<1>4. <<>> \in Seq({"CreateAndSaveFiles", "ReadGhosts", "SaveTask"}) /\ Len(<<>>) <= Depth
  BY <1>1
<1>5. spoiled' \subseteq Spoils
  BY DEF PowerCycle, TypeOK
<1> QED
  BY <1>1, <1>2, <1>3, <1>4, <1>5, EmptyBoardFacts DEF PowerCycle, TypeOK, storage

\* The steps of the task thread keep the types.
LEMMA TypesOfTask ==
  ASSUME TypeOK, PlaceInv, FolderInv, CourseInv, TaskThread
  PROVE  TypeOK'
<1>0. /\ pool \in Seq(Tasks) /\ Len(pool) <= Depth
      /\ spoiled \subseteq Spoils /\ {"crowded", "reset", "ioError"} \subseteq Spoils
      /\ 0 \in Times
  BY SizeAssumption DEF TypeOK, Tasks, Spoils, Times
<1>1. Failure => spoiled' \subseteq Spoils
  BY <1>0 DEF Failure, Spoil
<1>2. pc # "Idle" /\ EndTask => /\ pool' \in Seq(Tasks) /\ Len(pool') <= Depth /\ pc' = "Idle"
  BY <1>0, Ended DEF EndTask, PlaceInv
<1>3. CASE StartTask
  <2>1. pc' \in {"SaveTask", "CreateGhost", "Init"}
    <3>1. pool # <<>> /\ pc' = FirstStep(Head(pool))
      BY <1>3 DEF StartTask
    <3>2. Head(pool) \in Tasks
      BY <1>0, <3>1
    <3> QED
      BY <3>1, <3>2 DEF FirstStep, Tasks
  <2> QED
    BY <1>3, <2>1 DEF StartTask, TypeOK, manager, storage
<1>4. CASE RunSaveTask
  <2>1. pool' \in Seq(Tasks) /\ Len(pool') <= Depth /\ pc' = "Idle"
    BY <1>2, <1>4 DEF RunSaveTask
  <2> QED
    BY <1>4, <2>1 DEF RunSaveTask, TypeOK, manager, storage, Tasks
<1>5. CASE CreateGhost
  <2>1. ghosts' \in [Courses -> Seq(Times)]
    <3>1. \/ ghosts' = ghosts
          \/ /\ folder.course \in Courses
             /\ ghosts' = [ghosts EXCEPT ![folder.course] = Append(ghosts[folder.course], 0)]
      BY <1>5 DEF CreateGhost
    <3>2. CASE folder.course \in Courses /\ ghosts' = [ghosts EXCEPT ![folder.course] = Append(ghosts[folder.course], 0)]
      <4>1. Append(ghosts[folder.course], 0) \in Seq(Times)
        BY <1>0, <3>2 DEF TypeOK
      <4> QED
        BY <3>2, <4>1 DEF TypeOK
    <3> QED
      BY <3>1, <3>2 DEF TypeOK
  <2>2. spoiled' \subseteq Spoils /\ pc' \in {"WriteGhost", "SaveBoard"}
    BY <1>0, <1>1, <1>5 DEF CreateGhost
  <2> QED
    BY <1>5, <2>1, <2>2 DEF CreateGhost, TypeOK, manager
<1>6. CASE WriteGhost
  <2>1. ghosts' \in [Courses -> Seq(Times)]
    <3>1. \/ ghosts' = ghosts
          \/ ghosts' = [ghosts EXCEPT ![folder.course] = LastWritten(ghosts[folder.course])]
      BY <1>6 DEF WriteGhost
    <3>2. ASSUME NEW s \in Seq(Times) PROVE LastWritten(s) \in Seq(Times)
      <4>1. Len(s) \in Nat /\ s \in [1..Len(s) -> Times] /\ rkg \in Times
        BY DEF TypeOK
      <4>2. LastWritten(s) \in [1..Len(s) -> Times]
        BY <4>1 DEF LastWritten
      <4> QED
        BY <4>1, <4>2, RowIsSeq
    <3>3. CASE ghosts' = [ghosts EXCEPT ![folder.course] = LastWritten(ghosts[folder.course])]
      <4>1. folder.course \in Courses => LastWritten(ghosts[folder.course]) \in Seq(Times)
        BY <3>2 DEF TypeOK
      <4> QED
        BY <3>3, <4>1 DEF TypeOK
    <3> QED
      BY <3>1, <3>3 DEF TypeOK
  <2>2. spoiled' \subseteq Spoils
    BY <1>0, <1>1, <1>6 DEF WriteGhost
  <2> QED
    BY <1>6, <2>1, <2>2 DEF WriteGhost, TypeOK, manager
<1>7. CASE SaveBoard
  <2>1. boards' \in [Courses -> Board \union {NoFile}]
    <3>1. boards' = boards \/ boards' = [boards EXCEPT ![courseId] = board]
      BY <1>7 DEF SaveBoard
    <3> QED
      BY <3>1 DEF TypeOK
  <2>2. spoiled' \subseteq Spoils
    BY <1>0, <1>1, <1>7 DEF SaveBoard
  <2> QED
    BY <1>7, <2>1, <2>2 DEF SaveBoard, TypeOK, manager
<1>8. CASE InitManager
  BY <1>8 DEF InitManager, TypeOK, storage
<1>9. CASE ReadFolder
  <2>1. folder' \in [course : Courses \union {NoCourse}, count : 0..MaxFiles]
    <3>1. cur \in Courses
      BY <1>9 DEF ReadFolder, CourseInv, Reading
    <3>2. Len(ghosts[cur]) \in Nat /\ MaxFiles \in Nat
      BY <3>1, SizeAssumption DEF TypeOK
    <3>3. folder' = folder \/ \E n \in 0..MaxFiles : folder' = [course |-> cur, count |-> n]
      BY <1>9, <3>2 DEF ReadFolder
    <3> QED
      BY <3>1, <3>3 DEF TypeOK
  <2>2. spoiled' \subseteq Spoils
    BY <1>0, <1>1, <1>9 DEF ReadFolder
  <2> QED
    BY <1>9, <2>1, <2>2 DEF ReadFolder, TypeOK, storage
<1>10. CASE ClearBoard
  BY <1>10, EmptyBoardFacts DEF ClearBoard, TypeOK, storage
<1>11. CASE ReadBoard
  <2>1. cur \in Courses
    BY <1>11 DEF ReadBoard, CourseInv, Reading
  <2>2. board' \in Board /\ boards' \in [Courses -> Board \union {NoFile}]
    <3>1. \/ boards[cur] # NoFile /\ board' = boards[cur] /\ boards' = boards
          \/ board' = board /\ boards' = [boards EXCEPT ![cur] = EmptyBoard]
          \/ board' = board /\ boards' = boards
      BY <1>11 DEF ReadBoard
    <3> QED
      BY <2>1, <3>1, EmptyBoardFacts DEF TypeOK
  <2>3. spoiled' \subseteq Spoils /\ files' = <<>> /\ <<>> \in Headers
    BY <1>0, <1>1, <1>11 DEF ReadBoard, Headers
  <2> QED
    BY <1>11, <2>2, <2>3 DEF ReadBoard, TypeOK
<1>12. CASE \E unread \in SUBSET (1..folder.count) : ReadHeaders(unread)
  <2>1. PICK unread \in SUBSET (1..folder.count) : ReadHeaders(unread)
    BY <1>12
  <2> DEFINE H == ValidHeaders(unread)
  <2>2. H \in Headers /\ Len(H) \in Nat
    BY HeadersAre
  <2>3. rkg' \in Times
    <3>1. \/ rkg' \in {rkg, 0}
          \/ folder.count # 0 /\ rkg' = ghosts[folder.course][folder.count]
      BY <2>1 DEF ReadHeaders
    <3>2. CASE folder.count # 0 /\ rkg' = ghosts[folder.course][folder.count]
      <4>1. folder.count \in Nat
        BY SizeAssumption DEF TypeOK
      <4>2. folder.course \in Courses /\ folder.count <= Len(ghosts[folder.course])
        BY <3>2 DEF FolderInv
      <4>3. ghosts[folder.course] \in Seq(Times)
        BY <4>2 DEF TypeOK
      <4> QED
        BY <3>2, <4>1, <4>2, <4>3
    <3> QED
      BY <1>0, <3>1, <3>2 DEF TypeOK
  <2>4. pool' \in Seq(Tasks) /\ Len(pool') <= Depth /\ pc' = "Idle"
    BY <1>2, <2>1 DEF ReadHeaders
  <2>5. spoiled' \subseteq Spoils
    BY <1>0, <1>1, <2>1 DEF ReadHeaders
  <2>6. /\ files' \in {Freed, H}
        /\ \/ list' = Shown(H) /\ screen' = "select" /\ main' = main
           \/ list' = list /\ screen' = screen /\ main' \in {-1, Len(H)}
    BY <2>1 DEF ReadHeaders, PageAfterReading
  <2>7. UNCHANGED <<track, courseId, board, folder, race, cur, boards, ghosts>>
    BY <2>1 DEF ReadHeaders, storage
  <2> HIDE DEF H
  <2>8. Shown(H) \subseteq 1..ListSize
    BY <2>2, SizeAssumption DEF Shown
  <2>9. (files = Freed \/ files \in Headers)' /\ main' \in Int
    BY <2>2, <2>6 DEF TypeOK
  <2>10. list' \subseteq 1..ListSize /\ screen' \in {"course", "wait", "select", "race", "result"}
    BY <2>6, <2>8 DEF TypeOK
  <2> QED
    BY <2>3, <2>4, <2>5, <2>7, <2>9, <2>10 DEF TypeOK, Tasks
<1>13. CASE ReadFreedHeaders
  BY <1>13 DEF ReadFreedHeaders, TypeOK, manager, storage
<1> QED
  BY <1>3, <1>4, <1>5, <1>6, <1>7, <1>8, <1>9, <1>10, <1>11, <1>12, <1>13 DEF TaskThread

-----------------------------------------------------------------------------
(* Where the threads are.                                                   *)

\* Settings are asked to be saved like anything else is.
LEMMA SaveIsARequest ==
  ASSUME RequestSave
  PROVE  Request("SaveTask")
BY DEF RequestSave, Request

\* A race ends with a request, or with the pool as it was.
LEMMA RaceAsks ==
  ASSUME TypeOK, Sorted(board), NEW time \in 1..MaxTime, NEW lap \in 1..MaxLap,
         FinishRace(time, lap)
  PROVE  Request("CreateAndSaveFiles") \/ pool' = pool
BY RaceFinished

\* The first step of a task is one of that task.
LEMMA FirstSteps ==
  ASSUME pool \in Seq(Tasks), pool # <<>>
  PROVE  /\ Head(pool) = pool[1] /\ Head(pool) \in Tasks /\ 1 \in 1..Len(pool)
         /\ Head(pool) = "CreateAndSaveFiles" => FirstStep(Head(pool)) = "CreateGhost"
         /\ Head(pool) = "ReadGhosts" => FirstStep(Head(pool)) = "Init"
         /\ Head(pool) = "SaveTask" => FirstStep(Head(pool)) = "SaveTask"
BY DEF FirstStep, Tasks

\* What a step does to the task thread: nothing, a request, or a move of its
\* own.
LEMMA StepKinds ==
  ASSUME TypeOK, Sorted(board), Next
  PROVE  \/ pc' = pc /\ pool' = pool
         \/ pc' = pc /\ \E task \in Tasks : Request(task)
         \/ pc = "Idle" /\ pool # <<>> /\ pc' = FirstStep(Head(pool)) /\ pool' = pool
         \/ pc \in {"SaveTask", "ReadHeaders"} /\ pc' = "Idle" /\ pool' = Tail(pool)
         \/ /\ pc \in Saving /\ pc' \in Saving \union {"Init"} /\ pool' = pool
            /\ pc' = "Init" => SaveBoard
         \/ pc \in Initing /\ pc' \in Initing /\ pool' = pool
         \/ PowerCycle /\ pc' = "Idle" /\ pool' = <<>>
<1>1. CASE Player
  <2>1. ASSUME NEW c \in Courses, ChooseCourse(c) PROVE pc' = pc /\ Request("ReadGhosts")
    BY <2>1 DEF ChooseCourse
  <2>2. CASE BackToCourses \/ RaceAlone \/ Retry
    BY <2>2 DEF BackToCourses, RaceAlone, Retry
  <2>3. CASE Quit
    BY <2>3 DEF Quit
  <2>4. ASSUME RequestSave PROVE pc' = pc /\ Request("SaveTask")
    BY <2>4, SaveIsARequest DEF RequestSave
  <2>5. ASSUME NEW h \in list, RaceGhost(h) PROVE pc' = pc /\ pool' = pool
    BY <2>5 DEF RaceGhost
  <2>6. ASSUME NEW time \in 1..MaxTime, NEW lap \in 1..MaxLap, FinishRace(time, lap)
        PROVE  pc' = pc /\ (Request("CreateAndSaveFiles") \/ pool' = pool)
    BY <2>6, RaceAsks DEF FinishRace
  <2> QED
    BY <1>1, <2>1, <2>2, <2>3, <2>4, <2>5, <2>6 DEF Player, Tasks
<1>2. CASE TaskThread
  <2>1. CASE StartTask
    BY <2>1 DEF StartTask
  <2>2. CASE RunSaveTask
    BY <2>2 DEF RunSaveTask, EndTask
  <2>3. CASE CreateGhost \/ WriteGhost \/ SaveBoard
    BY <2>3 DEF CreateGhost, WriteGhost, SaveBoard, Saving
  <2>4. CASE InitManager \/ ReadFolder \/ ClearBoard \/ ReadBoard \/ ReadFreedHeaders
    BY <2>4 DEF InitManager, ReadFolder, ClearBoard, ReadBoard, ReadFreedHeaders, Initing, Reading
  <2>5. ASSUME NEW unread \in SUBSET (1..folder.count), ReadHeaders(unread)
        PROVE  pc = "ReadHeaders" /\ pc' = "Idle" /\ pool' = Tail(pool)
    BY <2>5 DEF ReadHeaders, EndTask
  <2> QED
    BY <1>2, <2>1, <2>2, <2>3, <2>4, <2>5 DEF TaskThread
<1>3. CASE PowerCycle
  BY <1>3 DEF PowerCycle
<1> QED
  BY <1>1, <1>2, <1>3 DEF Next

\* The task thread stays where its first task says.
LEMMA PlaceKept ==
  ASSUME TypeOK, PlaceInv, Sorted(board), Next
  PROVE  PlaceInv'
<1>0. pool \in Seq(Tasks) /\ Len(pool) <= Depth
  BY DEF TypeOK, Tasks
<1>1. CASE pc' = pc /\ pool' = pool
  BY <1>1 DEF PlaceInv
<1>2. CASE pc' = pc /\ \E task \in Tasks : Request(task)
  <2>1. (pool # <<>> => pool' # <<>> /\ Head(pool') = Head(pool)) /\ pool' # <<>>
    BY <1>0, <1>2, Requested
  <2> QED
    BY <1>2, <2>1 DEF PlaceInv, Saving, Initing, Reading
<1>3. CASE pc = "Idle" /\ pool # <<>> /\ pc' = FirstStep(Head(pool)) /\ pool' = pool
  <2>1. \/ Head(pool) = "CreateAndSaveFiles" /\ pc' = "CreateGhost"
        \/ Head(pool) = "ReadGhosts" /\ pc' = "Init"
        \/ Head(pool) = "SaveTask" /\ pc' = "SaveTask"
    BY <1>0, <1>3, FirstSteps DEF Tasks
  <2> QED
    BY <1>3, <2>1 DEF PlaceInv, Saving, Initing, Reading
<1>4. CASE pc \in {"SaveTask", "ReadHeaders"} /\ pc' = "Idle" /\ pool' = Tail(pool)
  BY <1>4 DEF PlaceInv, Saving, Initing, Reading
<1>5. CASE pc \in Saving /\ pc' \in Saving \union {"Init"} /\ pool' = pool
  BY <1>5 DEF PlaceInv, Saving, Initing, Reading
<1>6. CASE pc \in Initing /\ pc' \in Initing /\ pool' = pool
  BY <1>6 DEF PlaceInv, Saving, Initing, Reading
<1>7. CASE pc' = "Idle" /\ pool' = <<>>
  BY <1>7 DEF PlaceInv, Saving, Initing, Reading
<1> QED
  BY <1>1, <1>2, <1>3, <1>4, <1>5, <1>6, <1>7, StepKinds

\* What a step does to the page and the pool: the page may turn, the task
\* thread may be asked for something, and the last task ends the wait.
LEMMA PageKinds ==
  ASSUME TypeOK, Sorted(board), Next
  PROVE  \/ screen = "course" /\ screen' = "wait" /\ Request("ReadGhosts")
         \/ screen = "course" /\ screen' = "course" /\ Request("SaveTask")
         \/ screen = "race" /\ screen' = "result"
              /\ (Request("CreateAndSaveFiles") \/ pool' = pool)
         \/ screen = "select" /\ screen' = "race" /\ pool' = pool
         \/ screen = "result" /\ screen' = "race" /\ pool' = pool
         \/ screen # "wait" /\ screen' = "course" /\ pool' = pool
         \/ screen' = screen /\ pool' \in {pool, Tail(pool)} /\ (pool' = pool \/ pc # "Idle")
         \/ pc = "ReadHeaders" /\ Head(pool) = "ReadGhosts" /\ screen' = "select" /\ pool' = Tail(pool)
         \/ screen' = "course" /\ pool' = <<>>
<1>1. CASE Player
  <2>1. ASSUME NEW c \in Courses, ChooseCourse(c)
        PROVE  screen = "course" /\ screen' = "wait" /\ Request("ReadGhosts")
    BY <2>1 DEF ChooseCourse
  <2>2. CASE BackToCourses \/ RaceAlone \/ Retry
    BY <2>2 DEF BackToCourses, RaceAlone, Retry
  <2>3. CASE Quit
    BY <2>3 DEF Quit
  <2>4. ASSUME RequestSave PROVE screen = "course" /\ screen' = "course" /\ Request("SaveTask")
    BY <2>4, SaveIsARequest DEF RequestSave
  <2>5. ASSUME NEW h \in list, RaceGhost(h)
        PROVE  screen = "select" /\ screen' = "race" /\ pool' = pool
    BY <2>5 DEF RaceGhost
  <2>6. ASSUME NEW time \in 1..MaxTime, NEW lap \in 1..MaxLap, FinishRace(time, lap)
        PROVE  screen = "race" /\ screen' = "result" /\ (Request("CreateAndSaveFiles") \/ pool' = pool)
    BY <2>6, RaceAsks DEF FinishRace
  <2> QED
    BY <1>1, <2>1, <2>2, <2>3, <2>4, <2>5, <2>6 DEF Player
<1>2. CASE TaskThread
  <2>1. CASE StartTask \/ CreateGhost \/ WriteGhost \/ SaveBoard
    BY <2>1 DEF StartTask, CreateGhost, WriteGhost, SaveBoard
  <2>2. CASE RunSaveTask
    BY <2>2 DEF RunSaveTask, EndTask
  <2>3. CASE InitManager \/ ReadFolder \/ ClearBoard \/ ReadBoard \/ ReadFreedHeaders
    BY <2>3 DEF InitManager, ReadFolder, ClearBoard, ReadBoard, ReadFreedHeaders
  <2>4. ASSUME NEW unread \in SUBSET (1..folder.count), ReadHeaders(unread)
        PROVE  /\ pc = "ReadHeaders" /\ pool' = Tail(pool)
               /\ IF Head(pool) = "ReadGhosts" THEN screen' = "select" ELSE screen' = screen
    BY <2>4 DEF ReadHeaders, EndTask, PageAfterReading
  <2> QED
    BY <1>2, <2>1, <2>2, <2>3, <2>4 DEF TaskThread
<1>3. CASE PowerCycle
  BY <1>3 DEF PowerCycle
<1> QED
  BY <1>1, <1>2, <1>3 DEF Next

\* The pool holds what the page allows.
LEMMA PoolKept ==
  ASSUME TypeOK, PlaceInv, PoolInv, Sorted(board), Next
  PROVE  PoolInv'
<1>0. pool \in Seq(Tasks) /\ Len(pool) <= Depth /\ Len(pool) \in Nat
  BY DEF TypeOK, Tasks
<1> DEFINE ReadIsLast == \A i \in 1..Len(pool) : pool[i] = "ReadGhosts" => screen = "wait" /\ i = Len(pool)
           OnlyRecords == \A i \in 1..Len(pool) : pool[i] = "CreateAndSaveFiles"
<1>1. /\ ReadIsLast /\ (screen = "select" => pool = <<>>)
      /\ screen \in {"race", "result"} => OnlyRecords
  BY DEF PoolInv
<1>2. CASE screen = "course" /\ screen' = "wait" /\ Request("ReadGhosts")
  <2>1. pool' = Append(pool, "ReadGhosts") \/ pool' = pool
    BY <1>0, <1>2 DEF Request
  <2>2. \A i \in 1..Len(pool) : pool[i] # "ReadGhosts"
    BY <1>1, <1>2
  <2>3. ReadIsLast'
    <3>1. CASE pool' = Append(pool, "ReadGhosts")
      <4>1. /\ Len(pool') = Len(pool) + 1
            /\ \A i \in 1..Len(pool) : pool'[i] = pool[i]
        BY <1>0, <3>1
      <4>2. \A i \in 1..Len(pool') : i \in 1..Len(pool) \/ i = Len(pool')
        BY <1>0, <4>1
      <4> QED
        BY <1>2, <2>2, <4>1, <4>2
    <3>2. CASE pool' = pool
      BY <2>2, <3>2
    <3> QED
      BY <2>1, <3>1, <3>2
  <2> QED
    BY <1>2, <2>3 DEF PoolInv
<1>3. CASE screen = "course" /\ screen' = "course" /\ Request("SaveTask")
  <2>1. pool' = Append(pool, "SaveTask") \/ pool' = pool
    BY <1>0, <1>3 DEF Request
  <2>2. \A i \in 1..Len(pool) : pool[i] # "ReadGhosts"
    BY <1>1, <1>3
  <2>3. ReadIsLast'
    BY <1>0, <2>1, <2>2
  <2> QED
    BY <1>3, <2>3 DEF PoolInv
<1>4. CASE screen = "race" /\ screen' = "result" /\ (Request("CreateAndSaveFiles") \/ pool' = pool)
  <2>1. pool' = Append(pool, "CreateAndSaveFiles") \/ pool' = pool
    BY <1>0, <1>4 DEF Request
  <2>2. OnlyRecords'
    BY <1>0, <1>1, <1>4, <2>1
  <2>3. ReadIsLast'
    BY <2>2
  <2> QED
    BY <1>4, <2>2, <2>3 DEF PoolInv
<1>5. CASE \/ screen = "select" /\ screen' = "race" /\ pool' = pool
           \/ screen = "result" /\ screen' = "race" /\ pool' = pool
           \/ screen # "wait" /\ screen' = "course" /\ pool' = pool
  <2>1. \A i \in 1..Len(pool) : pool[i] # "ReadGhosts"
    BY <1>1, <1>5
  <2>2. ReadIsLast' /\ (screen' = "race" => OnlyRecords')
    BY <1>0, <1>1, <1>5, <2>1
  <2> QED
    BY <1>5, <2>2 DEF PoolInv
<1>6. CASE screen' = screen /\ pool' \in {pool, Tail(pool)} /\ (pool' = pool \/ pc # "Idle")
  <2>1. CASE pool' = pool
    BY <1>1, <1>6, <2>1 DEF PoolInv
  <2>2. CASE pool' = Tail(pool) /\ pool # <<>>
    <3>1. /\ pool' \in Seq(Tasks) /\ Len(pool') = Len(pool) - 1
          /\ \A i \in 1..Len(pool') : i + 1 \in 1..Len(pool) /\ pool'[i] = pool[i + 1]
      BY <1>0, <2>2, Ended
    <3>2. screen # "select"
      BY <1>1, <2>2
    <3>3. ReadIsLast' /\ (screen \in {"race", "result"} => OnlyRecords')
      BY <1>0, <1>1, <1>6, <3>1
    <3> QED
      BY <1>6, <3>2, <3>3 DEF PoolInv
  <2> QED
    BY <1>6, <2>1, <2>2 DEF PlaceInv
<1>7. CASE pc = "ReadHeaders" /\ Head(pool) = "ReadGhosts" /\ screen' = "select" /\ pool' = Tail(pool)
  <2>1. pool # <<>>
    BY <1>7 DEF PlaceInv
  <2>2. 1 \in 1..Len(pool) /\ pool[1] = "ReadGhosts"
    BY <1>0, <1>7, <2>1
  <2>3. Len(pool) = 1
    BY <1>1, <2>2
  <2>4. pool' = <<>>
    BY <1>0, <1>7, <2>3
  <2> QED
    BY <1>7, <2>4 DEF PoolInv
<1>8. CASE screen' = "course" /\ pool' = <<>>
  BY <1>8 DEF PoolInv
<1> HIDE DEF ReadIsLast, OnlyRecords
<1>9. \/ screen = "course" /\ screen' = "wait" /\ Request("ReadGhosts")
      \/ screen = "course" /\ screen' = "course" /\ Request("SaveTask")
      \/ screen = "race" /\ screen' = "result" /\ (Request("CreateAndSaveFiles") \/ pool' = pool)
      \/ screen = "select" /\ screen' = "race" /\ pool' = pool
      \/ screen = "result" /\ screen' = "race" /\ pool' = pool
      \/ screen # "wait" /\ screen' = "course" /\ pool' = pool
      \/ screen' = screen /\ pool' \in {pool, Tail(pool)} /\ (pool' = pool \/ pc # "Idle")
      \/ pc = "ReadHeaders" /\ Head(pool) = "ReadGhosts" /\ screen' = "select" /\ pool' = Tail(pool)
      \/ screen' = "course" /\ pool' = <<>>
  BY PageKinds
<1> QED
  BY <1>2, <1>3, <1>4, <1>5, <1>6, <1>7, <1>8, <1>9

-----------------------------------------------------------------------------
(* Storage.                                                                 *)

\* Until the power is cut nothing that went wrong is forgotten.
LEMMA Spoiling ==
  ASSUME TypeOK, Sorted(board), Player \/ TaskThread
  PROVE  spoiled \subseteq spoiled'
<1>1. CASE Player
  <2>1. ASSUME NEW c \in Courses, ChooseCourse(c) PROVE spoiled \subseteq spoiled'
    BY <2>1 DEF ChooseCourse, Spoil
  <2>2. CASE BackToCourses \/ RaceAlone \/ Retry \/ Quit \/ RequestSave
    BY <2>2 DEF BackToCourses, RaceAlone, Retry, Quit, RequestSave, Spoil
  <2>3. ASSUME NEW h \in list, RaceGhost(h) PROVE spoiled \subseteq spoiled'
    BY <2>3 DEF RaceGhost, Failure, Spoil
  <2>4. ASSUME NEW time \in 1..MaxTime, NEW lap \in 1..MaxLap, FinishRace(time, lap)
        PROVE  spoiled \subseteq spoiled'
    BY <2>4, RaceFinished
  <2> QED
    BY <1>1, <2>1, <2>2, <2>3, <2>4 DEF Player
<1>2. CASE TaskThread
  <2>1. CASE StartTask \/ RunSaveTask \/ InitManager \/ ClearBoard \/ ReadFreedHeaders
    BY <2>1 DEF StartTask, RunSaveTask, InitManager, ClearBoard, ReadFreedHeaders
  <2>2. CASE CreateGhost \/ WriteGhost \/ SaveBoard \/ ReadFolder \/ ReadBoard
    BY <2>2 DEF CreateGhost, WriteGhost, SaveBoard, ReadFolder, ReadBoard, Failure, Spoil
  <2>3. ASSUME NEW unread \in SUBSET (1..folder.count), ReadHeaders(unread)
        PROVE  spoiled \subseteq spoiled'
    BY <2>3 DEF ReadHeaders, Failure, Spoil
  <2> QED
    BY <1>2, <2>1, <2>2, <2>3 DEF TaskThread
<1> QED
  BY <1>1, <1>2

\* What a step does to the ghost files: nothing, a new empty one, or the
\* writing of the last.
LEMMA GhostKinds ==
  ASSUME Next
  PROVE  \/ ghosts' = ghosts
         \/ /\ CreateGhost /\ folder.course \in Courses
            /\ ghosts' = [ghosts EXCEPT ![folder.course] = Append(ghosts[folder.course], 0)]
            /\ pc' = "WriteGhost" \/ "ioError" \in spoiled'
         \/ /\ WriteGhost /\ spoiled' = spoiled
            /\ ghosts' = [ghosts EXCEPT ![folder.course] = LastWritten(ghosts[folder.course])]
<1>1. CASE Player
  <2>1. CASE BackToCourses \/ RaceAlone \/ Retry \/ Quit \/ RequestSave
    BY <2>1 DEF BackToCourses, RaceAlone, Retry, Quit, RequestSave, storage
  <2> QED
    BY <1>1, <2>1 DEF Player, ChooseCourse, RaceGhost, FinishRace, SaveRecord, storage
<1>2. CASE TaskThread
  <2>1. CASE StartTask \/ RunSaveTask \/ InitManager \/ ReadFolder \/ ClearBoard \/ ReadFreedHeaders
    BY <2>1 DEF StartTask, RunSaveTask, InitManager, ReadFolder, ClearBoard, ReadFreedHeaders, storage
  <2>2. CASE SaveBoard \/ ReadBoard
    BY <2>2 DEF SaveBoard, ReadBoard
  <2>3. CASE CreateGhost
    BY <2>3 DEF CreateGhost, Failure, Spoil
  <2>4. CASE WriteGhost
    BY <2>4 DEF WriteGhost
  <2> QED
    BY <1>2, <2>1, <2>2, <2>3, <2>4 DEF TaskThread, ReadHeaders, storage
<1>3. CASE PowerCycle
  BY <1>3 DEF PowerCycle, storage
<1> QED
  BY <1>1, <1>2, <1>3 DEF Next

\* Writing the last file leaves the others, and how many there are.
LEMMA Written ==
  ASSUME rkg \in Times, NEW s \in Seq(Times)
  PROVE  /\ LastWritten(s) \in Seq(Times) /\ Len(LastWritten(s)) = Len(s)
         /\ \A k \in 1..Len(s) : k # Len(s) => LastWritten(s)[k] = s[k]
         /\ Len(s) > 0 => LastWritten(s)[Len(s)] = rkg
<1>1. Len(s) \in Nat /\ s \in [1..Len(s) -> Times] /\ DOMAIN s = 1..Len(s)
  OBVIOUS
<1>2. LastWritten(s) \in [1..Len(s) -> Times]
  BY <1>1 DEF LastWritten
<1>3. LastWritten(s) \in Seq(Times) /\ Len(LastWritten(s)) = Len(s)
  BY <1>1, <1>2, RowIsSeq
<1>4. /\ \A k \in 1..Len(s) : k # Len(s) => LastWritten(s)[k] = s[k]
      /\ Len(s) > 0 => LastWritten(s)[Len(s)] = rkg
  <2> DEFINE n == Len(s)
  <2>1. LastWritten(s) = [s EXCEPT ![n] = rkg] /\ n \in Nat /\ DOMAIN s = 1..n
    BY <1>1 DEF LastWritten
  <2> HIDE DEF n
  <2>2. \A k \in 1..n : k # n => LastWritten(s)[k] = s[k]
    BY <2>1
  <2>3. n > 0 => LastWritten(s)[n] = rkg
    BY <2>1
  <2> QED
    BY <2>2, <2>3 DEF n
<1> QED
  BY <1>3, <1>4

\* No step takes a ghost away: only a torn file may change, and only the one
\* that was created last.
LEMMA GhostsStay ==
  ASSUME TypeOK, Next
  PROVE  \A c \in Courses :
           /\ Len(ghosts'[c]) \in Nat /\ Len(ghosts'[c]) >= Len(ghosts[c])
           /\ \A k \in 1..Len(ghosts[c]) :
                ghosts'[c][k] = ghosts[c][k]
                  \/ (k = Len(ghosts[c]) /\ c = folder.course /\ WriteGhost /\ spoiled' = spoiled)
<1> SUFFICES ASSUME NEW c \in Courses
             PROVE  /\ Len(ghosts'[c]) \in Nat /\ Len(ghosts'[c]) >= Len(ghosts[c])
                    /\ \A k \in 1..Len(ghosts[c]) :
                         ghosts'[c][k] = ghosts[c][k]
                           \/ (k = Len(ghosts[c]) /\ c = folder.course /\ WriteGhost /\ spoiled' = spoiled)
  OBVIOUS
<1>0. ghosts \in [Courses -> Seq(Times)] /\ ghosts[c] \in Seq(Times) /\ Len(ghosts[c]) \in Nat /\ rkg \in Times
  BY DEF TypeOK
<1>1. CASE ghosts' = ghosts
  BY <1>0, <1>1
<1>2. CASE ghosts' = [ghosts EXCEPT ![folder.course] = Append(ghosts[folder.course], 0)]
  <2>1. ghosts'[c] = ghosts[c] \/ ghosts'[c] = Append(ghosts[c], 0)
    BY <1>0, <1>2
  <2> DEFINE s == ghosts[c]
  <2> HIDE DEF s
  <2>2. ghosts'[c] = s \/ ghosts'[c] = Append(s, 0)
    BY <2>1 DEF s
  <2>3. s \in Seq(Times) /\ Len(s) \in Nat
    BY <1>0 DEF s
  <2>4. /\ Len(Append(s, 0)) = Len(s) + 1
        /\ \A k \in 1..Len(s) : Append(s, 0)[k] = s[k]
    BY <2>3
  <2>5. /\ Len(ghosts'[c]) \in Nat /\ Len(ghosts'[c]) >= Len(s)
        /\ \A k \in 1..Len(s) : ghosts'[c][k] = s[k]
    BY <2>2, <2>3, <2>4
  <2> QED
    BY <2>5 DEF s
<1>3. CASE /\ WriteGhost /\ spoiled' = spoiled
           /\ ghosts' = [ghosts EXCEPT ![folder.course] = LastWritten(ghosts[folder.course])]
  <2>1. ghosts'[c] = IF c = folder.course THEN LastWritten(ghosts[c]) ELSE ghosts[c]
    BY <1>0, <1>3
  <2>2. /\ Len(LastWritten(ghosts[c])) = Len(ghosts[c])
        /\ \A k \in 1..Len(ghosts[c]) : k # Len(ghosts[c]) => LastWritten(ghosts[c])[k] = ghosts[c][k]
    BY <1>0, Written
  <2>3. CASE c = folder.course
    BY <1>0, <1>3, <2>1, <2>2, <2>3
  <2>4. CASE c # folder.course
    BY <1>0, <2>1, <2>4
  <2> QED
    BY <2>3, <2>4
<1> QED
  BY <1>1, <1>2, <1>3, GhostKinds

\* The listing stays one of files there are.
LEMMA FolderKept ==
  ASSUME TypeOK, FolderInv, CourseInv, Next
  PROVE  FolderInv'
<1>0. /\ folder.count \in Nat /\ MaxFiles \in Nat /\ ghosts \in [Courses -> Seq(Times)]
      /\ \A c \in Courses : Len(ghosts[c]) \in Nat
  BY SizeAssumption DEF TypeOK
<1>1. CASE folder' = folder
  <2>1. \A c \in Courses : Len(ghosts'[c]) \in Nat /\ Len(ghosts'[c]) >= Len(ghosts[c])
    BY GhostsStay
  <2> QED
    BY <1>0, <1>1, <2>1 DEF FolderInv
<1>2. CASE ReadFolder
  <2>1. cur \in Courses /\ ghosts' = ghosts
    BY <1>2 DEF ReadFolder, CourseInv, Reading, storage
  <2>2. folder' = folder \/ \E n \in 0..Len(ghosts[cur]) : folder' = [course |-> cur, count |-> n]
    BY <1>0, <1>2, <2>1 DEF ReadFolder
  <2> QED
    BY <1>0, <2>1, <2>2 DEF FolderInv
<1>3. CASE PowerCycle
  <2>1. folder' = [course |-> NoCourse, count |-> 0] /\ ghosts' = ghosts
    BY <1>3 DEF PowerCycle, storage
  <2> QED
    BY <2>1, NoneAssumption DEF FolderInv
<1>4. folder' = folder \/ ReadFolder \/ PowerCycle
  <2>1. CASE Player
    BY <2>1 DEF Player, ChooseCourse, BackToCourses, RaceAlone, Retry, Quit, RequestSave, RaceGhost,
                FinishRace, manager
  <2>2. CASE TaskThread
    BY <2>2 DEF TaskThread, StartTask, RunSaveTask, CreateGhost, WriteGhost, SaveBoard, InitManager,
                ClearBoard, ReadBoard, ReadHeaders, ReadFreedHeaders, manager
  <2> QED
    BY <2>1, <2>2 DEF Next
<1> QED
  BY <1>1, <1>2, <1>3, <1>4

-----------------------------------------------------------------------------
(* The reading of a course.                                                 *)

\* The first task stays the first whatever the player does.
LEMMA HeadStays ==
  ASSUME TypeOK, Sorted(board), Player, pool # <<>>
  PROVE  Head(pool) = pool[1] /\ 1 \in 1..Len(pool) /\ Head(pool') = Head(pool) /\ pc' = pc
<1>0. pool \in Seq(Tasks) /\ Len(pool) <= Depth /\ pool # <<>>
  BY DEF TypeOK, Tasks
<1>1. Head(pool) = pool[1] /\ 1 \in 1..Len(pool)
  BY <1>0, FirstSteps
<1>2. pc' = pc
  BY DEF Player, ChooseCourse, BackToCourses, RaceAlone, Retry, Quit, RequestSave, RaceGhost, FinishRace
<1>3. ASSUME NEW task \in Tasks, Request(task) PROVE Head(pool') = Head(pool)
  BY <1>0, <1>3, Requested
<1>4. pool' = pool \/ \E task \in Tasks : Request(task)
  <2>1. ASSUME NEW c \in Courses, ChooseCourse(c) PROVE Request("ReadGhosts")
    BY <2>1 DEF ChooseCourse
  <2>2. RequestSave => Request("SaveTask")
    BY SaveIsARequest
  <2>3. ASSUME NEW time \in 1..MaxTime, NEW lap \in 1..MaxLap, FinishRace(time, lap)
        PROVE  Request("CreateAndSaveFiles") \/ pool' = pool
    BY <2>3, RaceAsks
  <2>4. BackToCourses \/ RaceAlone \/ Retry \/ Quit => pool' = pool
    BY DEF BackToCourses, RaceAlone, Retry, Quit
  <2>5. ASSUME NEW h \in list, RaceGhost(h) PROVE pool' = pool
    BY <2>5 DEF RaceGhost
  <2> QED
    BY <2>1, <2>2, <2>3, <2>4, <2>5 DEF Player, Tasks
<1> QED
  BY <1>0, <1>1, <1>2, <1>3, <1>4

\* The manager, the listing and the Init under way stay about one course.
LEMMA CourseKept ==
  ASSUME TypeOK, PlaceInv, PoolInv, CourseInv, Sorted(board), Next
  PROVE  CourseInv'
<1> DEFINE P == pc \in Reading \union {"ReadHeaders"}
<1>1. CASE Player
  <2>1. spoiled \subseteq spoiled' /\ pc' = pc /\ cur' = cur /\ folder' = folder
    <3>1. cur' = cur /\ folder' = folder /\ pc' = pc
      BY <1>1 DEF Player, ChooseCourse, BackToCourses, RaceAlone, Retry, Quit, RequestSave, RaceGhost,
                  FinishRace, manager
    <3> QED
      BY <1>1, <3>1, Spoiling
  <2>2. courseId' \in {courseId, NoCourse}
    BY <1>1 DEF Player, ChooseCourse, BackToCourses, RaceAlone, Retry, Quit, RequestSave, RaceGhost,
                FinishRace, manager
  <2>3. track' = track \/ screen = "course"
    BY <1>1 DEF Player, ChooseCourse, BackToCourses, RaceAlone, Retry, Quit, RequestSave, RaceGhost,
                FinishRace
  <2>4. ASSUME P, Head(pool') = "ReadGhosts" PROVE cur' = track'
    <3>1. pool # <<>>
      BY <2>4 DEF Reading, PlaceInv
    <3>2. Head(pool') = Head(pool) /\ Head(pool) = pool[1] /\ 1 \in 1..Len(pool)
      BY <1>1, <3>1, HeadStays
    <3>3. screen = "wait"
      BY <2>4, <3>2 DEF PoolInv
    <3> QED
      BY <2>1, <2>3, <2>4, <3>2, <3>3 DEF CourseInv
  <2> QED
    BY <2>1, <2>2, <2>4, NoneAssumption DEF CourseInv
<1>2. CASE TaskThread
  <2>1. spoiled \subseteq spoiled'
    BY <1>2, Spoiling
  <2>2. CASE StartTask
    <3>1. pc = "Idle" /\ pc' \in {"SaveTask", "CreateGhost", "Init"} /\ pool' = pool
      <4>1. pool \in Seq(Tasks) /\ pool # <<>>
        BY <2>2 DEF StartTask, TypeOK, Tasks
      <4> QED
        BY <2>2, <4>1, FirstSteps DEF StartTask, Tasks
    <3> QED
      BY <2>1, <2>2, <3>1 DEF StartTask, CourseInv, Reading, manager
  <2>3. CASE RunSaveTask
    BY <2>1, <2>3 DEF RunSaveTask, EndTask, CourseInv, Reading, manager
  <2>4. CASE CreateGhost \/ WriteGhost \/ SaveBoard
    <3>1. /\ pc \in Saving /\ pc' \in Saving \union {"Init"}
          /\ UNCHANGED <<courseId, folder, cur, track>>
      BY <2>4 DEF CreateGhost, WriteGhost, SaveBoard, Saving, manager
    <3> QED
      BY <2>1, <3>1 DEF CourseInv, Reading, Saving
  <2>5. CASE InitManager
    BY <2>1, <2>5 DEF InitManager, CourseInv, Reading, TypeOK
  <2>6. CASE ReadFolder
    <3>1. /\ pc = "ReadFolder" /\ pc' = "ClearBoard" /\ UNCHANGED <<courseId, cur, track, pool>>
          /\ folder'.course = cur \/ "ioError" \in spoiled'
      BY <2>6 DEF ReadFolder, Failure, Spoil
    <3> QED
      BY <2>1, <3>1, NoneAssumption DEF CourseInv, Reading
  <2>7. CASE ClearBoard \/ ReadBoard
    BY <2>1, <2>7 DEF ClearBoard, ReadBoard, CourseInv, Reading
  <2>8. ASSUME NEW unread \in SUBSET (1..folder.count), ReadHeaders(unread) PROVE CourseInv'
    <3>1. pc = "ReadHeaders" /\ pc' = "Idle" /\ UNCHANGED <<courseId, folder>>
      BY <2>8 DEF ReadHeaders, EndTask
    <3> QED
      BY <2>1, <3>1 DEF CourseInv, Reading
  <2>9. CASE ReadFreedHeaders
    BY <2>1, <2>9 DEF ReadFreedHeaders, CourseInv, Reading, manager
  <2> QED
    BY <1>2, <2>2, <2>3, <2>4, <2>5, <2>6, <2>7, <2>8, <2>9 DEF TaskThread
<1>3. CASE PowerCycle
  BY <1>3, NoneAssumption DEF PowerCycle, CourseInv, Reading
<1> QED
  BY <1>1, <1>2, <1>3 DEF Next

\* The headers stay there while they are read, unless the menus are re-created
\* while a record is being saved.
LEMMA FilesKept ==
  ASSUME TypeOK, PlaceInv, PoolInv, FilesInv, Sorted(board), Next
  PROVE  FilesInv'
<1>1. CASE Player
  <2>1. spoiled \subseteq spoiled' /\ pc # "crashed"
    BY <1>1, Spoiling DEF Player
  <2>2. pc' = pc /\ (files' = files \/ Quit)
    BY <1>1 DEF Player, ChooseCourse, BackToCourses, RaceAlone, Retry, Quit, RequestSave, RaceGhost,
                FinishRace, manager
  <2>3. CASE pc # "Idle" /\ pc = "ReadHeaders"
    <3>1. Head(pool') = Head(pool) /\ Head(pool) = pool[1] /\ 1 \in 1..Len(pool)
      BY <1>1, <2>3, HeadStays DEF PlaceInv
    <3>2. CASE Quit
      <4>1. Head(pool) # "ReadGhosts"
        BY <3>1, <3>2 DEF Quit, PoolInv
      <4>2. SavingRecord
        BY <2>3, <3>1, <4>1 DEF PlaceInv, Initing, SavingRecord
      <4>3. "reset" \in spoiled'
        BY <3>2, <4>2 DEF Quit, Spoil
      <4> QED
        BY <2>2, <2>3, <3>1, <4>1, <4>3 DEF FilesInv
    <3>3. CASE files' = files
      BY <2>1, <2>2, <2>3, <3>1, <3>3 DEF FilesInv
    <3> QED
      BY <2>2, <3>2, <3>3
  <2>4. CASE pc # "ReadHeaders"
    BY <2>1, <2>2, <2>4 DEF FilesInv
  <2> QED
    BY <2>3, <2>4
<1>2. CASE TaskThread
  <2>1. spoiled \subseteq spoiled'
    BY <1>2, Spoiling
  <2>2. CASE StartTask
    <3>1. pc' \in {"SaveTask", "CreateGhost", "Init"}
      <4>1. pool \in Seq(Tasks) /\ pool # <<>>
        BY <2>2 DEF StartTask, TypeOK, Tasks
      <4> QED
        BY <2>2, <4>1, FirstSteps DEF StartTask, Tasks
    <3> QED
      BY <3>1 DEF FilesInv
  <2>3. CASE RunSaveTask \/ CreateGhost \/ WriteGhost \/ SaveBoard \/ InitManager \/ ReadFolder \/ ClearBoard
    <3>1. pc' \notin {"ReadHeaders", "crashed"}
      BY <2>3 DEF RunSaveTask, EndTask, CreateGhost, WriteGhost, SaveBoard, InitManager, ReadFolder, ClearBoard
    <3> QED
      BY <3>1 DEF FilesInv
  <2>4. CASE ReadBoard
    <3>1. files' = <<>> /\ pc' = "ReadHeaders" /\ <<>> \in Headers
      BY <2>4 DEF ReadBoard, Headers
    <3> QED
      BY <3>1, NoneAssumption DEF FilesInv
  <2>5. ASSUME NEW unread \in SUBSET (1..folder.count), ReadHeaders(unread) PROVE FilesInv'
    BY <2>5 DEF ReadHeaders, EndTask, FilesInv
  <2>6. CASE ReadFreedHeaders
    BY <2>6 DEF ReadFreedHeaders, FilesInv
  <2> QED
    BY <1>2, <2>2, <2>3, <2>4, <2>5, <2>6 DEF TaskThread
<1>3. CASE PowerCycle
  BY <1>3 DEF PowerCycle, FilesInv
<1> QED
  BY <1>1, <1>2, <1>3 DEF Next

\* The select page only comes up with what was read for it, and nothing
\* changes while it is up.
LEMMA SelectKept ==
  ASSUME TypeOK, PlaceInv, PoolInv, FolderInv, CourseInv, FilesInv, SelectInv, Next
  PROVE  SelectInv'
<1>1. ASSUME NEW unread \in SUBSET (1..folder.count), ReadHeaders(unread), Head(pool) = "ReadGhosts"
      PROVE  SelectInv'
  <2> DEFINE H == ValidHeaders(unread)
  <2>1. files # Freed /\ pc = "ReadHeaders"
    BY <1>1 DEF ReadHeaders, FilesInv
  <2>2. /\ files' = H /\ list' = Shown(H)
        /\ UNCHANGED <<folder, ghosts, track>>
        /\ (unread = {} /\ spoiled' = spoiled) \/ "ioError" \in spoiled'
    BY <1>1, <2>1 DEF ReadHeaders, Failure, Spoil, storage
  <2>3. H \in Headers
    BY HeadersAre
  <2>4. ValidHeaders(unread)' = H
    BY <2>2 DEF ValidHeaders
  <2>5. "ioError" \notin spoiled' => folder.course = track
    BY <1>1, <2>1, <2>2 DEF CourseInv, Reading
  <2> HIDE DEF H
  <2>6. H # Freed
    BY <2>3, NoneAssumption
  <2>7. unread \in SUBSET (1..folder'.count)
    BY <2>2
  <2> QED
    BY <2>2, <2>4, <2>5, <2>6, <2>7 DEF SelectInv, Shown
<1>2. screen' # "select" \/ \E unread \in SUBSET (1..folder.count) :
                               ReadHeaders(unread) /\ Head(pool) = "ReadGhosts"
  <2>1. CASE Player
    BY <2>1 DEF Player, ChooseCourse, BackToCourses, RaceAlone, Retry, Quit, RequestSave, RaceGhost,
                FinishRace
  <2>2. ASSUME TaskThread, screen = "select" PROVE FALSE
    <3>1. pool = <<>> /\ pc = "Idle"
      BY <2>2 DEF PoolInv, PlaceInv
    <3> QED
      BY <2>2, <3>1 DEF TaskThread, StartTask, RunSaveTask, CreateGhost, WriteGhost, SaveBoard,
                        InitManager, ReadFolder, ClearBoard, ReadBoard, ReadHeaders, ReadFreedHeaders
  <2>3. TaskThread => screen' = screen \/ \E unread \in SUBSET (1..folder.count) :
                                            ReadHeaders(unread) /\ Head(pool) = "ReadGhosts"
    BY DEF TaskThread, StartTask, RunSaveTask, CreateGhost, WriteGhost, SaveBoard, InitManager,
           ReadFolder, ClearBoard, ReadBoard, ReadHeaders, ReadFreedHeaders
  <2>4. CASE PowerCycle
    BY <2>4 DEF PowerCycle
  <2> QED
    BY <2>1, <2>2, <2>3, <2>4 DEF Next
<1>3. screen' # "select" => SelectInv'
  BY DEF SelectInv
<1> QED
  BY <1>1, <1>2, <1>3

\* The ghost that is raced stays the one that was picked.
LEMMA PickedKept ==
  ASSUME TypeOK, FolderInv, SelectInv, Sorted(board), PickedIsLoaded, Next
  PROVE  PickedIsLoaded'
<1>1. NoGhost.picked = NoGhost.loaded
  BY DEF NoGhost
<1>2. CASE race' = race /\ (Player \/ TaskThread)
  <2>1. spoiled \subseteq spoiled'
    BY <1>2, Spoiling
  <2> QED
    BY <1>2, <2>1 DEF PickedIsLoaded
<1>3. CASE race' = NoGhost
  BY <1>1, <1>3 DEF PickedIsLoaded
<1>4. ASSUME NEW h \in list, RaceGhost(h) PROVE PickedIsLoaded'
  <2>1. GhostFile(h) = files[h].time
    BY <1>4, HeaderOnPage DEF RaceGhost
  <2>2. \/ race' = [picked |-> files[h].time, loaded |-> GhostFile(h)]
        \/ "ioError" \in spoiled'
    BY <1>4 DEF RaceGhost, Failure, Spoil
  <2> QED
    BY <2>1, <2>2 DEF PickedIsLoaded
<1>5. \/ race' = race /\ (Player \/ TaskThread)
      \/ race' = NoGhost
      \/ \E h \in list : RaceGhost(h)
  BY DEF Next, Player, ChooseCourse, BackToCourses, RaceAlone, Retry, Quit, RequestSave, FinishRace,
         TaskThread, StartTask, RunSaveTask, CreateGhost, WriteGhost, SaveBoard, InitManager,
         ReadFolder, ClearBoard, ReadBoard, ReadHeaders, ReadFreedHeaders, PowerCycle
<1> QED
  BY <1>2, <1>3, <1>4, <1>5

-----------------------------------------------------------------------------
(* The leaderboards.                                                        *)

\* What a step does to the leaderboard in memory and to those in storage.
LEMMA BoardKinds ==
  ASSUME TypeOK, Next
  PROVE  \/ board' = board /\ boards' = boards
         \/ boards' = boards /\ \E time \in 1..MaxTime, lap \in 1..MaxLap : FinishRace(time, lap)
         \/ boards' = boards /\ board' = EmptyBoard /\ (PowerCycle \/ ClearBoard)
         \/ /\ SaveBoard /\ courseId \in Courses /\ boards[courseId] # NoFile
            /\ boards' = [boards EXCEPT ![courseId] = board] /\ board' = board
         \/ ReadBoard /\ boards[cur] # NoFile /\ board' = boards[cur] /\ boards' = boards
         \/ /\ ReadBoard /\ (boards[cur] = NoFile \/ "ioError" \in spoiled')
            /\ board' = board /\ boards' = [boards EXCEPT ![cur] = EmptyBoard]
         \/ ReadBoard /\ "ioError" \in spoiled' /\ board' = board /\ boards' = boards
<1>1. CASE Player
  <2>1. CASE BackToCourses \/ RaceAlone \/ Retry \/ Quit \/ RequestSave
    BY <2>1 DEF BackToCourses, RaceAlone, Retry, Quit, RequestSave, manager, storage
  <2>2. ASSUME NEW c \in Courses, ChooseCourse(c) PROVE board' = board /\ boards' = boards
    BY <2>2 DEF ChooseCourse, manager, storage
  <2>3. ASSUME NEW h \in list, RaceGhost(h) PROVE board' = board /\ boards' = boards
    BY <2>3 DEF RaceGhost, storage
  <2>4. ASSUME NEW time \in 1..MaxTime, NEW lap \in 1..MaxLap, FinishRace(time, lap)
        PROVE  boards' = boards
    BY <2>4 DEF FinishRace, SaveRecord, storage
  <2> QED
    BY <1>1, <2>1, <2>2, <2>3, <2>4 DEF Player
<1>2. CASE TaskThread
  <2>1. CASE StartTask \/ RunSaveTask \/ CreateGhost \/ WriteGhost \/ InitManager \/ ReadFolder
               \/ ReadFreedHeaders
    BY <2>1 DEF StartTask, RunSaveTask, CreateGhost, WriteGhost, InitManager, ReadFolder,
                ReadFreedHeaders, manager, storage
  <2>2. ASSUME NEW unread \in SUBSET (1..folder.count), ReadHeaders(unread)
        PROVE  board' = board /\ boards' = boards
    BY <2>2 DEF ReadHeaders, storage
  <2>3. CASE ClearBoard
    BY <2>3 DEF ClearBoard, storage
  <2>4. CASE SaveBoard
    BY <2>4 DEF SaveBoard, manager
  <2>5. CASE ReadBoard
    BY <2>5 DEF ReadBoard, Failure, Spoil
  <2> QED
    BY <1>2, <2>1, <2>2, <2>3, <2>4, <2>5 DEF TaskThread
<1>3. CASE PowerCycle
  BY <1>3 DEF PowerCycle, storage
<1> QED
  BY <1>1, <1>2, <1>3 DEF Next

\* The leaderboards stay sorted.
LEMMA SortedKept ==
  ASSUME TypeOK, CourseInv, BoardsSorted, Next
  PROVE  BoardsSorted'
<1>0. /\ Sorted(board) /\ \A c \in Courses : boards[c] # NoFile => Sorted(boards[c])
      /\ boards \in [Courses -> Board \union {NoFile}] /\ Sorted(EmptyBoard)
  BY EmptyBoardFacts DEF BoardsSorted, TypeOK
<1> DEFINE B(b) == \A c \in Courses : b[c] # NoFile => Sorted(b[c])
<1>1. ASSUME NEW c \in Courses, NEW new, Sorted(new), boards' = [boards EXCEPT ![c] = new]
      PROVE  B(boards')
  BY <1>0, <1>1
<1>2. SUFFICES Sorted(board') /\ B(boards')
  BY DEF BoardsSorted, Sorted
<1>3. B(boards)
  BY <1>0
<1> HIDE DEF B
<1>4. CASE board' = board /\ boards' = boards
  BY <1>0, <1>3, <1>4
<1>5. CASE boards' = boards /\ \E time \in 1..MaxTime, lap \in 1..MaxLap : FinishRace(time, lap)
  BY <1>0, <1>3, <1>5, RaceFinished
<1>6. CASE boards' = boards /\ board' = EmptyBoard
  BY <1>0, <1>3, <1>6
<1>7. CASE courseId \in Courses /\ boards' = [boards EXCEPT ![courseId] = board] /\ board' = board
  BY <1>0, <1>1, <1>7
<1>8. CASE ReadBoard
  <2>1. cur \in Courses
    BY <1>8 DEF ReadBoard, CourseInv, Reading
  <2>2. \/ boards[cur] # NoFile /\ board' = boards[cur] /\ boards' = boards
        \/ board' = board /\ boards' = [boards EXCEPT ![cur] = EmptyBoard]
        \/ board' = board /\ boards' = boards
    BY <1>8 DEF ReadBoard
  <2> QED
    BY <1>0, <1>1, <1>3, <2>1, <2>2
<1> QED
  BY <1>4, <1>5, <1>6, <1>7, <1>8, BoardKinds

\* No step replaces a leaderboard file by a worse one.
LEMMA StoredStep ==
  ASSUME TypeOK, CourseInv, BoardsSorted, BoardInv, Next, NEW c \in Courses,
         "ioError" \notin spoiled', boards[c] # NoFile
  PROVE  boards'[c] # NoFile /\ NoWorse(boards'[c], boards[c])
<1>0. /\ boards \in [Courses -> Board \union {NoFile}] /\ boards[c] \in Board /\ board \in Board
      /\ NoWorse(boards[c], boards[c])
  <2>1. boards \in [Courses -> Board \union {NoFile}] /\ boards[c] \in Board /\ board \in Board
    BY DEF TypeOK
  <2> QED
    BY <2>1, NoWorseSame
<1>1. CASE boards' = boards
  BY <1>0, <1>1
<1>2. CASE /\ SaveBoard /\ courseId \in Courses
           /\ boards' = [boards EXCEPT ![courseId] = board]
  <2>1. pc = "SaveBoard" /\ spoiled \subseteq spoiled'
    BY <1>2, Spoiling DEF SaveBoard, TaskThread, BoardsSorted
  <2>2. NoWorse(board, boards[courseId])
    BY <1>2, <2>1 DEF BoardInv, Reading
  <2>3. CASE c = courseId
    <3>1. boards'[c] = board
      BY <1>0, <1>2, <2>3
    <3> QED
      BY <1>0, <2>2, <2>3, <3>1, NoneAssumption
  <2>4. CASE c # courseId
    <3>1. boards'[c] = boards[c]
      BY <1>0, <1>2, <2>4
    <3> QED
      BY <1>0, <3>1
  <2> QED
    BY <2>3, <2>4
<1>3. CASE boards[cur] = NoFile /\ boards' = [boards EXCEPT ![cur] = EmptyBoard]
  <2>1. boards'[c] = boards[c]
    BY <1>0, <1>3
  <2> QED
    BY <1>0, <2>1
<1> QED
  BY <1>1, <1>2, <1>3, BoardKinds

\* A leaderboard that is in use has just been read, or was in use before.
LEMMA InUse ==
  ASSUME Next, courseId' \in Courses, pc' \notin Reading
  PROVE  /\ ~ PowerCycle /\ (Player \/ TaskThread) /\ courseId' = courseId
         /\ ReadBoard \/ pc \notin Reading
<1>1. ~ PowerCycle /\ ~ ClearBoard /\ ~ InitManager /\ ~ ReadFolder
  BY NoneAssumption DEF PowerCycle, ClearBoard, InitManager, ReadFolder, Reading
<1>2. Player => pc' = pc /\ courseId' = courseId
  BY NoneAssumption DEF Player, ChooseCourse, BackToCourses, RaceAlone, Retry, Quit, RequestSave,
                        RaceGhost, FinishRace, manager
<1>3. TaskThread => courseId' = courseId /\ (ReadBoard \/ pc \notin Reading)
  BY <1>1 DEF TaskThread, StartTask, RunSaveTask, CreateGhost, WriteGhost, SaveBoard, ReadBoard,
              ReadHeaders, ReadFreedHeaders, manager, Reading
<1> QED
  BY <1>1, <1>2, <1>3 DEF Next

\* The leaderboard in use stays one that has its file and is not behind it.
LEMMA BoardKept ==
  ASSUME TypeOK, TypeOK', CourseInv, BoardsSorted, BoardInv, Next
  PROVE  BoardInv'
<1> SUFFICES ASSUME "ioError" \notin spoiled', courseId' \in Courses, pc' \notin Reading
             PROVE  boards'[courseId'] # NoFile /\ NoWorse(board', boards'[courseId'])
  BY DEF BoardInv, NoWorse
<1>0. /\ boards \in [Courses -> Board \union {NoFile}] /\ board \in Board /\ board' \in Board
      /\ boards' \in [Courses -> Board \union {NoFile}] /\ Sorted(board)
  BY DEF TypeOK, BoardsSorted
<1>1. ~ PowerCycle
  BY NoneAssumption DEF PowerCycle
<1>2. spoiled \subseteq spoiled' /\ "ioError" \notin spoiled
  BY <1>0, <1>1, Spoiling DEF Next
<1>3. CASE ReadBoard
  <2>1. cur \in Courses /\ courseId = cur /\ courseId' = courseId
    <3>1. courseId' = courseId /\ pc = "ReadBoard"
      BY <1>3 DEF ReadBoard
    <3> QED
      BY <3>1, NoneAssumption DEF CourseInv, Reading
  <2>2. \/ boards[cur] # NoFile /\ board' = boards[cur] /\ boards' = boards
        \/ board' = board /\ boards' = [boards EXCEPT ![cur] = EmptyBoard]
    BY <1>3 DEF ReadBoard, Failure, Spoil
  <2>3. CASE boards[cur] # NoFile /\ board' = boards[cur] /\ boards' = boards
    <3>1. boards[cur] \in Board
      BY <1>0, <2>1, <2>3
    <3> QED
      BY <2>1, <2>3, <3>1, NoWorseSame
  <2>4. CASE board' = board /\ boards' = [boards EXCEPT ![cur] = EmptyBoard]
    <3>1. boards'[cur] = EmptyBoard
      BY <1>0, <2>1, <2>4
    <3> QED
      BY <1>0, <2>1, <3>1, EmptyBoardFacts, NoneAssumption
  <2> QED
    BY <2>2, <2>3, <2>4
<1>4. CASE ~ReadBoard
  <2>1. pc \notin Reading /\ courseId' = courseId
    BY <1>4, InUse
  <2>2. boards[courseId] # NoFile /\ NoWorse(board, boards[courseId]) /\ courseId \in Courses
    BY <1>2, <2>1 DEF BoardInv
  <2>3. boards[courseId] \in Board
    BY <1>0, <2>2
  <2>4. CASE board' = board /\ boards' = boards
    BY <2>1, <2>2, <2>4
  <2>5. CASE boards' = boards /\ \E time \in 1..MaxTime, lap \in 1..MaxLap : FinishRace(time, lap)
    <3>1. NoWorse(board', board)
      BY <1>0, <2>5, RaceFinished
    <3>2. NoWorse(board', boards[courseId])
      BY <1>0, <2>2, <2>3, <3>1, NoWorseTransitive
    <3> QED
      BY <2>1, <2>2, <2>5, <3>2
  <2>6. CASE boards' = [boards EXCEPT ![courseId] = board] /\ board' = board
    <3>1. boards'[courseId] = board
      BY <1>0, <2>2, <2>6
    <3> QED
      BY <1>0, <2>1, <2>6, <3>1, NoWorseSame, NoneAssumption
  <2>7. ~ ClearBoard
    BY <2>1 DEF ClearBoard, Reading
  <2> QED
    BY <1>1, <1>4, <2>4, <2>5, <2>6, <2>7, BoardKinds
<1> QED
  BY <1>3, <1>4

\* While records are all that is under way, no overlap means that nothing is.
LEMMA NothingUnderWay ==
  ASSUME TypeOK, PlaceInv, PoolInv, screen = "race", ~SavingRecord
  PROVE  pool = <<>> /\ pc = "Idle"
<1>1. pool \in Seq(Tasks)
  BY DEF TypeOK, Tasks
<1>2. CASE pool # <<>>
  <2>1. 1 \in 1..Len(pool)
    BY <1>1, <1>2
  <2>2. pool[1] = "CreateAndSaveFiles"
    BY <2>1 DEF PoolInv
  <2> QED
    BY <2>1, <2>2 DEF SavingRecord
<1> QED
  BY <1>2 DEF PlaceInv

\* A leaderboard that is being read again stays empty until it is read.
LEMMA ClearedKept ==
  ASSUME TypeOK, PlaceInv, PoolInv, Sorted(board), ClearedInv, Next
  PROVE  ClearedInv'
<1>1. CASE Player
  <2>1. spoiled \subseteq spoiled' /\ pc' = pc
    <3>1. pc' = pc
      BY <1>1 DEF Player, ChooseCourse, BackToCourses, RaceAlone, Retry, Quit, RequestSave, RaceGhost,
                  FinishRace
    <3> QED
      BY <1>1, <3>1, Spoiling
  <2>2. ASSUME NEW time \in 1..MaxTime, NEW lap \in 1..MaxLap, FinishRace(time, lap),
               pc = "ReadBoard", board' # board
        PROVE  "overlap" \in spoiled'
    <3>1. screen = "race"
      BY <2>2 DEF FinishRace
    <3>2. SavingRecord
      BY <2>2, <3>1, NothingUnderWay
    <3>3. \/ SavingRecord => "overlap" \in spoiled'
          \/ board' = board
      BY <2>2, RaceFinished
    <3> QED
      BY <2>2, <3>2, <3>3
  <2>3. board' = board \/ \E time \in 1..MaxTime, lap \in 1..MaxLap : FinishRace(time, lap)
    BY <1>1 DEF Player, ChooseCourse, BackToCourses, RaceAlone, Retry, Quit, RequestSave, RaceGhost, manager
  <2> QED
    BY <2>1, <2>2, <2>3 DEF ClearedInv
<1>2. CASE TaskThread
  <2>1. pc' # "ReadBoard" \/ ClearBoard
    <3>1. StartTask => pc' # "ReadBoard"
      <4>1. pool \in Seq(Tasks)
        BY DEF TypeOK, Tasks
      <4> QED
        BY <4>1, FirstSteps DEF StartTask, Tasks
    <3> QED
      BY <1>2, <3>1 DEF TaskThread, RunSaveTask, EndTask, CreateGhost, WriteGhost, SaveBoard,
                  InitManager, ReadFolder, ReadBoard, ReadHeaders, ReadFreedHeaders
  <2>2. ClearBoard => board' = EmptyBoard
    BY DEF ClearBoard
  <2> QED
    BY <2>1, <2>2 DEF ClearedInv, EmptyBoard
<1>3. CASE PowerCycle
  BY <1>3 DEF PowerCycle, ClearedInv
<1> QED
  BY <1>1, <1>2, <1>3 DEF Next

-----------------------------------------------------------------------------
(* The ghosts of the entries.                                               *)

\* As long as records were saved one at a time, they were before the step too.
LEMMA LoneBefore ==
  ASSUME TypeOK, Sorted(board), Next, Lone'
  PROVE  Lone
<1>1. CASE PowerCycle
  BY <1>1 DEF PowerCycle, Lone
<1>2. CASE Player \/ TaskThread
  <2>1. spoiled \subseteq spoiled'
    BY <1>2, Spoiling
  <2> QED
    BY <2>1 DEF Lone
<1> QED
  BY <1>1, <1>2 DEF Next

\* A file that was created stays torn until it is written.
LEMMA TornKept ==
  ASSUME TypeOK, Sorted(board), TornInv, Next
  PROVE  TornInv'
<1> SUFFICES ASSUME Lone', pc' = "WriteGhost"
             PROVE  /\ folder'.course \in Courses /\ Len(ghosts'[folder'.course]) > 0
                    /\ ghosts'[folder'.course][Len(ghosts'[folder'.course])] = 0
  BY DEF TornInv, Lone
<1>1. Lone
  BY LoneBefore
<1>2. CASE CreateGhost
  <2>1. folder' = folder /\ folder.course \in Courses
    BY <1>2 DEF CreateGhost, manager
  <2>2. ghosts' = [ghosts EXCEPT ![folder.course] = Append(ghosts[folder.course], 0)]
    BY <1>2 DEF CreateGhost
  <2> DEFINE s == ghosts[folder.course]
  <2>3. s \in Seq(Times) /\ ghosts'[folder.course] = Append(s, 0)
    BY <2>1, <2>2 DEF TypeOK
  <2> HIDE DEF s
  <2>4. Len(Append(s, 0)) > 0 /\ Append(s, 0)[Len(Append(s, 0))] = 0
    BY <2>3
  <2> QED
    BY <2>1, <2>3, <2>4
<1>3. CASE Player
  <2>1. pc' = pc /\ UNCHANGED <<folder, ghosts>>
    BY <1>3 DEF Player, ChooseCourse, BackToCourses, RaceAlone, Retry, Quit, RequestSave, RaceGhost,
                FinishRace, SaveRecord, manager, storage
  <2> QED
    BY <1>1, <2>1 DEF TornInv
<1>4. TaskThread => CreateGhost
  <2>1. StartTask => pc' # "WriteGhost"
    <3>1. pool \in Seq(Tasks)
      BY DEF TypeOK, Tasks
    <3> QED
      BY <3>1, FirstSteps DEF StartTask, Tasks
  <2> QED
    BY <2>1 DEF TaskThread, RunSaveTask, EndTask, WriteGhost, SaveBoard, InitManager, ReadFolder,
                ClearBoard, ReadBoard, ReadHeaders, ReadFreedHeaders
<1>5. ~ PowerCycle
  BY DEF PowerCycle
<1> QED
  BY <1>2, <1>3, <1>4, <1>5 DEF Next

\* A ghost that there is stays: only the torn file is written over.
LEMMA GhostKept ==
  ASSUME TypeOK, TornInv, Lone, Next, NEW c \in Courses, NEW time, time # 0, HasGhost(time, c)
  PROVE  \E k \in 1..Len(ghosts'[c]) : ghosts'[c][k] = time
<1>1. PICK k \in 1..Len(ghosts[c]) : ghosts[c][k] = time
  BY DEF HasGhost
<1>2. Len(ghosts[c]) \in Nat /\ Len(ghosts'[c]) \in Nat /\ Len(ghosts'[c]) >= Len(ghosts[c])
  BY GhostsStay DEF TypeOK
<1>3. \/ ghosts'[c][k] = ghosts[c][k]
      \/ k = Len(ghosts[c]) /\ c = folder.course /\ WriteGhost
  BY GhostsStay
<1>4. CASE k = Len(ghosts[c]) /\ c = folder.course /\ WriteGhost
  <2>1. pc = "WriteGhost"
    BY <1>4 DEF WriteGhost
  <2>2. ghosts[c][k] = 0
    BY <1>4, <2>1 DEF TornInv
  <2> QED
    BY <1>1, <2>2
<1> QED
  BY <1>1, <1>2, <1>3, <1>4

\* Every entry in use keeps its ghost, or the promise of it.
LEMMA EntriesKept ==
  ASSUME TypeOK, PlaceInv, PoolInv, CourseInv, BoardsSorted, ClearedInv, TornInv, EntriesInv,
         EntryHasGhost, Next
  PROVE  EntriesInv'
<1> SUFFICES ASSUME Lone', courseId' \in Courses, pc' \notin Reading,
                    NEW i \in 1..Ranks, board'.rank[i] # 0
             PROVE  \/ \E k \in 1..Len(ghosts'[courseId']) : ghosts'[courseId'][k] = board'.rank[i]
                    \/ RecordPending' /\ board'.rank[i] = rkg'
  BY DEF EntriesInv, HasGhost
<1>0. /\ pool \in Seq(Tasks) /\ Len(pool) <= Depth /\ Sorted(board) /\ rkg \in Times
      /\ ghosts \in [Courses -> Seq(Times)]
  BY DEF TypeOK, Tasks, BoardsSorted
<1>1. Lone /\ "ioError" \notin spoiled /\ "ioError" \notin spoiled' /\ "overlap" \notin spoiled
  BY <1>0, LoneBefore DEF Lone
<1>2. /\ ~ PowerCycle /\ (Player \/ TaskThread) /\ courseId' = courseId /\ courseId \in Courses
      /\ ReadBoard \/ pc \notin Reading
  BY InUse
<1> DEFINE Has(time) == \E k \in 1..Len(ghosts'[courseId]) : ghosts'[courseId][k] = time
<1>3. ASSUME NEW time, time # 0, HasGhost(time, courseId) PROVE Has(time)
  BY <1>1, <1>2, <1>3, GhostKept
<1> SUFFICES Has(board'.rank[i]) \/ (RecordPending' /\ board'.rank[i] = rkg')
  BY <1>2
<1> HIDE DEF Has
<1>4. CASE ReadBoard
  <2>1. cur \in Courses /\ courseId = cur /\ pc = "ReadBoard"
    BY <1>2, <1>4, NoneAssumption DEF ReadBoard, CourseInv, Reading
  <2>2. \/ boards[cur] # NoFile /\ board' = boards[cur]
        \/ board' = board
    BY <1>4 DEF ReadBoard
  <2>3. CASE board' = board
    BY <1>1, <2>1, <2>3, EmptyBoardFacts DEF ClearedInv
  <2>4. CASE boards[cur] # NoFile /\ board' = boards[cur]
    <3>1. HasGhost(board'.rank[i], courseId)
      BY <1>1, <2>1, <2>4 DEF EntryHasGhost, HasGhost, Lone
    <3> QED
      BY <1>3, <3>1
  <2> QED
    BY <2>2, <2>3, <2>4
<1>5. CASE ~ReadBoard
  <2>1. \A j \in 1..Ranks : board.rank[j] # 0 =>
          HasGhost(board.rank[j], courseId) \/ (RecordPending /\ board.rank[j] = rkg)
    BY <1>1, <1>2, <1>5 DEF EntriesInv
  <2>2. CASE \E time \in 1..MaxTime, lap \in 1..MaxLap : FinishRace(time, lap)
    <3>1. PICK time \in 1..MaxTime, lap \in 1..MaxLap : FinishRace(time, lap)
      BY <2>2
    <3>2. screen = "race" /\ pc' = pc
      BY <3>1 DEF FinishRace
    <3>3. \/ /\ rkg' = time /\ Request("CreateAndSaveFiles")
             /\ SavingRecord => "overlap" \in spoiled'
             /\ \A j \in 1..Ranks :
                  board'.rank[j] = rkg' \/ \E m \in 1..Ranks : board'.rank[j] = board.rank[m]
          \/ /\ pool' = pool /\ board'.rank = board.rank
             /\ SavingRecord => "overlap" \in spoiled'
          \/ pool' = pool /\ board' = board /\ rkg' = rkg
      BY <1>0, <3>1, RaceFinished
    <3>4. CASE SavingRecord => "overlap" \in spoiled'
      <4>1. ~SavingRecord
        BY <3>4 DEF Lone
      <4>2. pool = <<>> /\ pc = "Idle"
        BY <3>2, <4>1, NothingUnderWay
      <4>3. ~RecordPending
        BY <4>2 DEF RecordPending
      <4>4. CASE \E m \in 1..Ranks : board'.rank[i] = board.rank[m]
        <5>1. PICK m \in 1..Ranks : board'.rank[i] = board.rank[m]
          BY <4>4
        <5>2. HasGhost(board'.rank[i], courseId)
          BY <2>1, <4>3, <5>1
        <5> QED
          BY <1>3, <5>2
      <4>5. CASE board'.rank[i] = rkg' /\ Request("CreateAndSaveFiles")
        <5>1. pool' = Append(pool, "CreateAndSaveFiles")
          <6>1. Len(pool) = 0 /\ Depth \in Nat \ {0}
            BY <4>2, SizeAssumption
          <6>2. Len(pool) < Depth
            BY <6>1
          <6> QED
            BY <4>5, <6>2 DEF Request
        <5>2. pool' # <<>> /\ Head(pool') = "CreateAndSaveFiles"
          BY <4>2, <5>1
        <5>3. RecordPending'
          BY <3>2, <4>2, <5>2 DEF RecordPending
        <5> QED
          BY <4>5, <5>3
      <4> QED
        BY <3>3, <4>4, <4>5, <2>1, <4>3, <1>3
    <3>5. CASE pool' = pool /\ board' = board /\ rkg' = rkg
      <4>1. CASE HasGhost(board.rank[i], courseId)
        BY <1>3, <3>5, <4>1
      <4>2. CASE RecordPending /\ board.rank[i] = rkg
        BY <3>2, <3>5, <4>2 DEF RecordPending
      <4> QED
        BY <2>1, <3>5, <4>1, <4>2
    <3> QED
      BY <3>3, <3>4, <3>5
  <2>3. CASE board' = board
    <3>1. CASE HasGhost(board.rank[i], courseId)
      BY <1>3, <2>3, <3>1
    <3>2. CASE RecordPending /\ board.rank[i] = rkg /\ Player
      <4>1. pool # <<>> /\ Head(pool) = "CreateAndSaveFiles" /\ pc \in {"Idle", "CreateGhost", "WriteGhost"}
        BY <3>2 DEF RecordPending
      <4>2. Head(pool') = Head(pool) /\ pc' = pc
        BY <1>0, <3>2, <4>1, HeadStays
      <4>3. pool' # <<>>
        <5>1. \/ pool' = pool \/ \E task \in Tasks : Request(task)
              \/ pc' # pc
              \/ PowerCycle
          BY <1>0, <4>1, StepKinds DEF Saving, Initing, Reading
        <5> QED
          BY <1>0, <1>2, <4>1, <4>2, <5>1, Requested
      <4>4. RecordPending'
        BY <4>1, <4>2, <4>3 DEF RecordPending
      <4>5. rkg' = rkg \/ \E time \in 1..MaxTime, lap \in 1..MaxLap : FinishRace(time, lap)
        BY <3>2 DEF Player, ChooseCourse, BackToCourses, RaceAlone, Retry, Quit, RequestSave, RaceGhost,
                    manager
      <4> QED
        BY <2>2, <2>3, <3>2, <4>4, <4>5
    <3>3. CASE RecordPending /\ board.rank[i] = rkg /\ TaskThread
      <4>1. pool # <<>> /\ Head(pool) = "CreateAndSaveFiles" /\ pc \in {"Idle", "CreateGhost", "WriteGhost"}
        BY <3>3 DEF RecordPending
      <4>2. StartTask \/ CreateGhost \/ WriteGhost
        BY <3>3, <4>1 DEF TaskThread, RunSaveTask, SaveBoard, InitManager, ReadFolder, ClearBoard,
                          ReadBoard, ReadHeaders, ReadFreedHeaders
      <4>3. CASE StartTask
        <5>1. pc' = "CreateGhost" /\ pool' = pool /\ rkg' = rkg
          BY <1>0, <4>1, <4>3, FirstSteps DEF StartTask, manager
        <5> QED
          BY <2>3, <3>3, <4>1, <5>1 DEF RecordPending
      <4>4. CASE CreateGhost
        <5>1. pc' = "WriteGhost" /\ pool' = pool /\ rkg' = rkg
          BY <1>1, <4>4 DEF CreateGhost, Failure, Spoil, manager
        <5> QED
          BY <2>3, <3>3, <4>1, <5>1 DEF RecordPending
      <4>5. CASE WriteGhost
        <5>1. folder.course = courseId /\ pc = "WriteGhost"
          BY <1>1, <1>2, <4>5 DEF CourseInv, WriteGhost
        <5>2. ghosts' = [ghosts EXCEPT ![folder.course] = LastWritten(ghosts[folder.course])]
          BY <1>1, <4>5 DEF WriteGhost, Failure, Spoil
        <5> DEFINE s == ghosts[courseId]
        <5>3. ghosts'[courseId] = LastWritten(s) /\ s \in Seq(Times)
          BY <1>0, <1>2, <5>1, <5>2
        <5>4. Len(s) > 0
          BY <1>1, <5>1 DEF TornInv
        <5> HIDE DEF s
        <5>5. LastWritten(s)[Len(s)] = rkg /\ Len(LastWritten(s)) = Len(s) /\ Len(s) \in 1..Len(s)
          BY <1>0, <5>3, <5>4, Written
        <5>6. \E k \in 1..Len(ghosts'[courseId]) : ghosts'[courseId][k] = rkg
          BY <5>3, <5>5
        <5> QED
          BY <2>3, <3>3, <5>6 DEF Has
      <4> QED
        BY <4>2, <4>3, <4>4, <4>5
    <3> QED
      BY <1>2, <2>1, <2>3, <3>1, <3>2, <3>3
  <2>4. ~ ClearBoard
    BY DEF ClearBoard, Reading
  <2> QED
    BY <1>2, <1>5, <2>2, <2>3, <2>4, BoardKinds
<1> QED
  BY <1>4, <1>5

\* Every entry in storage keeps its ghost.
LEMMA StoredEntriesKept ==
  ASSUME TypeOK, CourseInv, BoardsSorted, TornInv, EntriesInv, EntryHasGhost, Next
  PROVE  EntryHasGhost'
<1> SUFFICES ASSUME Lone', NEW c \in Courses, boards'[c] # NoFile,
                    NEW i \in 1..Ranks, boards'[c].rank[i] # 0
             PROVE  \E k \in 1..Len(ghosts'[c]) : ghosts'[c][k] = boards'[c].rank[i]
  BY DEF EntryHasGhost, Lone
<1>0. Sorted(board) /\ boards \in [Courses -> Board \union {NoFile}]
  BY DEF BoardsSorted, TypeOK
<1>1. Lone
  BY <1>0, LoneBefore
<1>2. SUFFICES HasGhost(boards'[c].rank[i], c)
  BY <1>1, GhostKept
<1>3. CASE boards'[c] = boards[c]
  BY <1>1, <1>3 DEF EntryHasGhost, HasGhost, Lone
<1>4. CASE SaveBoard /\ courseId = c /\ boards'[c] = board
  <2>1. pc = "SaveBoard"
    BY <1>4 DEF SaveBoard
  <2>2. ~RecordPending
    BY <2>1 DEF RecordPending
  <2> QED
    BY <1>1, <1>4, <2>1, <2>2 DEF EntriesInv, Reading
<1>5. CASE boards'[c] = EmptyBoard
  BY <1>5, EmptyBoardFacts
<1>6. \/ boards'[c] = boards[c]
      \/ SaveBoard /\ courseId = c /\ boards'[c] = board
      \/ boards'[c] = EmptyBoard
  <2>1. CASE boards' = boards
    BY <2>1
  <2>2. CASE SaveBoard /\ courseId \in Courses /\ boards' = [boards EXCEPT ![courseId] = board]
    BY <1>0, <2>2
  <2>3. CASE boards' = [boards EXCEPT ![cur] = EmptyBoard]
    BY <1>0, <2>3
  <2> QED
    BY <2>1, <2>2, <2>3, BoardKinds
<1> QED
  BY <1>3, <1>4, <1>5, <1>6

\* A task that will write the leaderboard stays one until it does.
LEMMA StillToSave ==
  ASSUME TypeOK, PlaceInv, Sorted(board), BoardToSave, Next, ~SaveBoard, ~PowerCycle
  PROVE  BoardToSave'
<1> DEFINE Before == {"Idle", "CreateGhost", "WriteGhost", "SaveBoard"}
<1>0. pool \in Seq(Tasks) /\ Len(pool) <= Depth /\ Len(pool) \in Nat
  BY DEF TypeOK, Tasks
<1>1. PICK i \in 1..Len(pool) :
        pool[i] = "CreateAndSaveFiles" /\ (i > 1 \/ pc \in Before)
  BY DEF BoardToSave
<1> HIDE DEF Before
<1>2. ASSUME i \in 1..Len(pool'), pool'[i] = pool[i], i > 1 \/ pc' \in Before PROVE BoardToSave'
  BY <1>1, <1>2 DEF BoardToSave, Before
<1>3. CASE pc' = pc /\ pool' = pool
  BY <1>1, <1>2, <1>3
<1>4. CASE pc' = pc /\ \E task \in Tasks : Request(task)
  <2>1. Len(pool') >= Len(pool) /\ pool'[i] = pool[i] /\ pool' \in Seq(Tasks)
    BY <1>0, <1>1, <1>4, Requested
  <2>2. i \in 1..Len(pool')
    BY <1>0, <1>1, <2>1
  <2> QED
    BY <1>1, <1>2, <1>4, <2>1, <2>2
<1>5. CASE pc = "Idle" /\ pool # <<>> /\ pc' = FirstStep(Head(pool)) /\ pool' = pool
  <2>1. CASE i > 1
    BY <1>1, <1>2, <1>5, <2>1
  <2>2. CASE i = 1
    <3>1. pc' = "CreateGhost"
      BY <1>0, <1>1, <1>5, <2>2, FirstSteps
    <3> QED
      BY <1>1, <1>2, <1>5, <3>1 DEF Before
  <2> QED
    BY <1>0, <1>1, <2>1, <2>2
<1>6. CASE pc \in {"SaveTask", "ReadHeaders"} /\ pc' = "Idle" /\ pool' = Tail(pool)
  <2>1. i > 1
    BY <1>1, <1>6 DEF Before
  <2>2. i - 1 \in 1..Len(pool') /\ pool'[i - 1] = pool[i]
    BY <1>0, <1>1, <1>6, <2>1
  <2> QED
    BY <1>1, <1>6, <2>2 DEF BoardToSave
<1>7. CASE /\ pc \in Saving /\ pc' \in Saving \union {"Init"} /\ pool' = pool
           /\ pc' = "Init" => SaveBoard
  BY <1>1, <1>2, <1>7 DEF Before, Saving
<1>8. CASE pc \in Initing /\ pc' \in Initing /\ pool' = pool
  <2>1. i > 1
    BY <1>1, <1>8 DEF Before, Initing, Reading
  <2> QED
    BY <1>1, <1>2, <1>8, <2>1
<1> QED
  BY <1>3, <1>4, <1>5, <1>6, <1>7, <1>8, StepKinds

\* A record stays on its way until it is in the file.
LEMMA OnItsWayKept ==
  ASSUME TypeOK, PlaceInv, PoolInv, CourseInv, BoardsSorted, BoardInv, ClearedInv, RecordOnItsWay, Next
  PROVE  RecordOnItsWay'
<1> DEFINE There == board' = boards'[courseId']
<1> SUFFICES ASSUME spoiled' = {}, courseId' \in Courses, pc' \notin Reading
             PROVE  There \/ BoardToSave'
  BY DEF RecordOnItsWay, Reading
<1> HIDE DEF There
<1>0. /\ Sorted(board) /\ boards \in [Courses -> Board \union {NoFile}] /\ board \in Board
      /\ pool \in Seq(Tasks)
  BY DEF BoardsSorted, TypeOK, Tasks
<1>1. /\ ~ PowerCycle /\ (Player \/ TaskThread) /\ courseId' = courseId /\ courseId \in Courses
      /\ ReadBoard \/ pc \notin Reading
  BY InUse
<1>2. spoiled = {}
  BY <1>0, <1>1, Spoiling
<1>3. CASE ReadBoard
  <2>1. cur \in Courses /\ courseId = cur /\ pc = "ReadBoard"
    BY <1>1, <1>3, NoneAssumption DEF ReadBoard, CourseInv, Reading
  <2>2. \/ board' = boards[cur] /\ boards' = boards
        \/ board' = board /\ boards' = [boards EXCEPT ![cur] = EmptyBoard]
    BY <1>3 DEF ReadBoard, Failure, Spoil
  <2>3. board = EmptyBoard
    BY <1>2, <2>1 DEF ClearedInv
  <2>4. CASE board' = boards[cur] /\ boards' = boards
    BY <1>1, <2>1, <2>4 DEF There
  <2>5. CASE board' = board /\ boards' = [boards EXCEPT ![cur] = EmptyBoard]
    <3>1. boards'[cur] = EmptyBoard
      BY <1>0, <2>1, <2>5
    <3> QED
      BY <1>1, <2>1, <2>3, <2>5, <3>1 DEF There
  <2> QED
    BY <2>2, <2>4, <2>5
<1>4. CASE ~ReadBoard
  <2>1. board = boards[courseId] \/ BoardToSave
    BY <1>1, <1>2, <1>4 DEF RecordOnItsWay, Reading
  <2>2. CASE SaveBoard
    <3>1. pc = "SaveBoard" /\ board' = board
      BY <2>2 DEF SaveBoard, manager
    <3>2. boards[courseId] # NoFile
      BY <1>1, <1>2, <3>1 DEF BoardInv, Reading
    <3>3. boards' = [boards EXCEPT ![courseId] = board]
      BY <1>1, <2>2, <3>2 DEF SaveBoard, Failure, Spoil
    <3>4. boards'[courseId] = board
      BY <1>0, <1>1, <3>3
    <3> QED
      BY <1>1, <3>1, <3>4 DEF There
  <2>3. CASE ~SaveBoard /\ board' = board
    <3>1. boards' = boards \/ PowerCycle
      BY <1>4, <2>3, BoardKinds
    <3>2. BoardToSave => BoardToSave'
      BY <1>0, <1>1, <2>3, StillToSave
    <3> QED
      BY <1>1, <2>1, <2>3, <3>1, <3>2 DEF There
  <2>4. ASSUME NEW time \in 1..MaxTime, NEW lap \in 1..MaxLap, FinishRace(time, lap), board' # board
        PROVE  BoardToSave'
    <3>1. screen = "race" /\ pc' = pc
      BY <2>4 DEF FinishRace
    <3>2. Request("CreateAndSaveFiles") /\ (SavingRecord => "overlap" \in spoiled')
      BY <1>0, <2>4, RaceFinished
    <3>3. pool = <<>> /\ pc = "Idle"
      BY <3>1, <3>2, NothingUnderWay
    <3>4. pool' = Append(pool, "CreateAndSaveFiles")
      <4>1. Len(pool) = 0 /\ Depth \in Nat \ {0}
        BY <3>3, SizeAssumption
      <4>2. Len(pool) < Depth
        BY <4>1
      <4> QED
        BY <3>2, <4>2 DEF Request
    <3>5. 1 \in 1..Len(pool') /\ pool'[1] = "CreateAndSaveFiles"
      BY <1>0, <3>3, <3>4
    <3> QED
      BY <3>1, <3>3, <3>5 DEF BoardToSave
  <2>5. ~ ClearBoard
    BY DEF ClearBoard, Reading
  <2> QED
    BY <1>1, <1>4, <2>2, <2>3, <2>4, <2>5, BoardKinds
<1> QED
  BY <1>3, <1>4

-----------------------------------------------------------------------------
(* The theorems.                                                            *)

\* The program starts where the invariant holds.
LEMMA GhostInvInit ==
  ASSUME Init
  PROVE  GhostInv
<1>1. TypeOK
  BY InitTypes
<1>2. /\ screen = "course" /\ courseId = NoCourse /\ board = EmptyBoard /\ pool = <<>> /\ pc = "Idle"
      /\ folder = [course |-> NoCourse, count |-> 0] /\ race = NoGhost /\ spoiled = {}
      /\ boards = [c \in Courses |-> NoFile]
  BY DEF Init
<1>3. PlaceInv /\ PoolInv
  BY <1>2 DEF PlaceInv, PoolInv, Saving, Initing, Reading
<1>4. FolderInv /\ CourseInv
  BY <1>2, NoneAssumption DEF FolderInv, CourseInv, Reading
<1>5. FilesInv /\ SelectInv /\ ClearedInv /\ TornInv
  BY <1>2 DEF FilesInv, SelectInv, ClearedInv, TornInv
<1>6. BoardsSorted
  BY <1>2, EmptyBoardFacts DEF BoardsSorted
<1>7. BoardInv /\ EntriesInv /\ RecordOnItsWay
  BY <1>2, NoneAssumption DEF BoardInv, EntriesInv, RecordOnItsWay
<1>8. EntryHasGhost
  BY <1>2 DEF EntryHasGhost
<1>9. PickedIsLoaded
  BY <1>2 DEF PickedIsLoaded, NoGhost
<1> QED
  BY <1>1, <1>3, <1>4, <1>5, <1>6, <1>7, <1>8, <1>9 DEF GhostInv

\* No step of the player, of the task thread or of the power button leaves it.
LEMMA GhostInvStep ==
  ASSUME GhostInv, Next
  PROVE  GhostInv'
<1>0. /\ TypeOK /\ PlaceInv /\ PoolInv /\ FolderInv /\ CourseInv /\ FilesInv /\ SelectInv
      /\ BoardsSorted /\ BoardInv /\ ClearedInv /\ TornInv /\ EntriesInv /\ EntryHasGhost
      /\ RecordOnItsWay /\ PickedIsLoaded /\ Sorted(board)
  BY DEF GhostInv, BoardsSorted
<1>1. TypeOK'
  BY <1>0, TypesOfPlayer, TypesOfTask, TypesOfPowerCycle DEF Next
<1>2. PlaceInv' /\ PoolInv'
  BY <1>0, PlaceKept, PoolKept
<1>3. FolderInv' /\ CourseInv'
  BY <1>0, FolderKept, CourseKept
<1>4. FilesInv' /\ SelectInv'
  BY <1>0, FilesKept, SelectKept
<1>5. BoardsSorted' /\ ClearedInv'
  BY <1>0, SortedKept, ClearedKept
<1>6. BoardInv'
  BY <1>0, <1>1, BoardKept
<1>7. TornInv' /\ EntriesInv' /\ EntryHasGhost'
  BY <1>0, TornKept, EntriesKept, StoredEntriesKept
<1>8. RecordOnItsWay' /\ PickedIsLoaded'
  BY <1>0, OnItsWayKept, PickedKept
<1> QED
  BY <1>1, <1>2, <1>3, <1>4, <1>5, <1>6, <1>7, <1>8 DEF GhostInv

\* The invariant holds in every state the program can reach.
THEOREM GhostInvariant == Spec => []GhostInv
<1>1. Init => GhostInv
  BY GhostInvInit
<1>2. GhostInv /\ [Next]_vars => GhostInv'
  <2>1. GhostInv /\ Next => GhostInv'
    BY GhostInvStep
  <2>2. GhostInv /\ UNCHANGED vars => GhostInv'
    <3> SUFFICES ASSUME GhostInv, UNCHANGED vars PROVE GhostInv'
      OBVIOUS
    <3>1. UNCHANGED <<screen, track, courseId, board, rkg, folder, files, main, list, race, pool, pc,
                      cur, boards, ghosts, spoiled>>
      BY DEF vars, manager, storage
    <3>2. TypeOK' /\ PlaceInv' /\ PoolInv' /\ FolderInv'
      BY <3>1 DEF GhostInv, TypeOK, PlaceInv, PoolInv, FolderInv
    <3>3. CourseInv' /\ FilesInv' /\ SelectInv'
      <4>1. \A unread : ValidHeaders(unread)' = ValidHeaders(unread)
        BY <3>1 DEF ValidHeaders
      <4>2. SelectInv'
        <5>1. SelectInv
          BY DEF GhostInv
        <5> SUFFICES ASSUME screen = "select"
                     PROVE  /\ files # Freed /\ list = Shown(files)
                            /\ \E unread \in SUBSET (1..folder.count) :
                                 /\ files = ValidHeaders(unread)'
                                 /\ "ioError" \notin spoiled => unread = {}
                            /\ "ioError" \notin spoiled => folder.course = track
          BY <3>1 DEF SelectInv, Shown
        <5> QED
          BY <4>1, <5>1 DEF SelectInv
      <4> QED
        BY <3>1, <4>2 DEF GhostInv, CourseInv, FilesInv
    <3>4. BoardsSorted' /\ BoardInv' /\ ClearedInv' /\ TornInv'
      BY <3>1 DEF GhostInv, BoardsSorted, BoardInv, ClearedInv, TornInv, Lone, NoWorse, Sorted
    <3>5. EntriesInv' /\ EntryHasGhost'
      BY <3>1 DEF GhostInv, EntriesInv, EntryHasGhost, Lone, HasGhost, RecordPending
    <3>6. RecordOnItsWay' /\ PickedIsLoaded'
      BY <3>1 DEF GhostInv, RecordOnItsWay, BoardToSave, PickedIsLoaded
    <3> QED
      BY <3>2, <3>3, <3>4, <3>5, <3>6 DEF GhostInv
  <2> QED
    BY <2>1, <2>2
<1> QED
  BY <1>1, <1>2, PTL DEF Spec

\* Every variable keeps its type; the task thread never holds more than Depth
\* tasks (FileManager.cpp:67), the folder never lists more than MaxFiles files
\* (FolderManager.cpp:49-157).
THEOREM GhostTypeCorrect == Spec => []TypeOK
<1>1. GhostInv => TypeOK
  BY DEF GhostInv
<1> QED
  BY <1>1, GhostInvariant, PTL

\* The leaderboard in memory and all those in storage are in order and have no
\* gap, in every interleaving of the two threads: a time goes before the first
\* that gives way to it (GhostManager.cpp:388-426).
THEOREM LeaderboardsAreSorted == Spec => []BoardsSorted
<1>1. GhostInv => BoardsSorted
  BY DEF GhostInv
<1> QED
  BY <1>1, GhostInvariant, PTL

\* The file of a course is never replaced by a worse one, unless storage
\* failed: Save writes what was read from it, or improved since
\* (GhostManager.cpp:363-372, 428-436).
THEOREM NothingStoredIsLost == Spec => StoredNeverWorse
<1>1. ASSUME GhostInv, [Next]_vars
      PROVE  \A c \in Courses : "ioError" \notin spoiled' /\ boards[c] # NoFile
               => NoWorse(boards'[c], boards[c])
  <2>1. CASE Next
    BY <2>1, StoredStep, <1>1 DEF GhostInv
  <2>2. CASE UNCHANGED vars
    <3>1. boards' = boards /\ boards \in [Courses -> Board \union {NoFile}]
      BY <1>1, <2>2 DEF vars, storage, GhostInv, TypeOK
    <3> QED
      BY <3>1, NoWorseSame
  <2> QED
    BY <1>1, <2>1, <2>2
<1>2. GhostInv /\ [Next]_vars
        => [\A c \in Courses : "ioError" \notin spoiled' /\ boards[c] # NoFile
              => NoWorse(boards'[c], boards[c])]_vars
  BY <1>1
<1> QED
  BY <1>2, GhostInvariant, PTL DEF Spec, StoredNeverWorse

\* A record the player has been shown is in the file, or a task that will
\* write it waits (PatchBeforeInAnim, GhostManager.cpp:578-682).
THEOREM RecordIsOnItsWay == Spec => []RecordOnItsWay
<1>1. GhostInv => RecordOnItsWay
  BY DEF GhostInv
<1> QED
  BY <1>1, GhostInvariant, PTL

\* Every time in a stored leaderboard has its ghost file, whenever the power is
\* cut: CreateAndSaveFiles writes the ghost first (GhostManager.cpp:303-330).
THEOREM EveryEntryHasItsGhost == Spec => []EntryHasGhost
<1>1. GhostInv => EntryHasGhost
  BY DEF GhostInv
<1> QED
  BY <1>1, GhostInvariant, PTL

\* The ghost that is raced is the one that was picked: EnableGhost's index is
\* still one of the list that was shown (GhostManager.cpp:238-285).
THEOREM PickedGhostIsLoaded == Spec => []PickedIsLoaded
<1>1. GhostInv => PickedIsLoaded
  BY DEF GhostInv
<1> QED
  BY <1>1, GhostInvariant, PTL

\* Freed headers are only written to after the menus were re-created while a
\* record was being saved (Reset and Init, GhostManager.cpp:113-129, 201-209).
THEOREM HeadersAreNotFreed == Spec => []NoFreedAccess
<1>1. GhostInv => NoFreedAccess
  BY DEF GhostInv, FilesInv, NoFreedAccess
<1> QED
  BY <1>1, GhostInvariant, PTL

\* What has one member for each of 1..m has m members.
LEMMA OneForEach ==
  ASSUME NEW m \in Nat, NEW p, NEW T,
         \A h \in 1..m : p[h] \in T,
         \A t \in T : \E h \in 1..m : p[h] = t,
         \A h, g \in 1..m : p[h] = p[g] => h = g
  PROVE  IsFiniteSet(T) /\ Cardinality(T) = m
<1> DEFINE f == [h \in 1..m |-> p[h]]
<1>1. f \in [1..m -> T] /\ DOMAIN f = 1..m
  OBVIOUS
<1>2. f \in Injection(1..m, T)
  BY <1>1 DEF Injection, IsInjective
<1>3. f \in Surjection(1..m, T)
  BY <1>1 DEF Surjection
<1>4. ExistsBijection(1..m, T)
  BY <1>2, <1>3 DEF Bijection, ExistsBijection
<1>5. IsFiniteSet(1..m) /\ Cardinality(1..m) = IF 1 > m THEN 0 ELSE m - 1 + 1
  <2>1. 1 \in Int /\ m \in Int
    OBVIOUS
  <2> QED
    BY <2>1, FS_Interval
<1>6. Cardinality(1..m) = m
  BY <1>5
<1>7. IsFiniteSet(T) /\ Cardinality(T) = Cardinality(1..m)
  BY <1>4, <1>5, FS_Bijection
<1> QED
  BY <1>6, <1>7

\* The select page shows the valid ghosts of its course: as many as the list
\* holds, each once (ReadGhosts, GhostManager.cpp:486-505).
THEOREM ListShowsTheGhosts == Spec => []ListShowsGhosts
<1>1. ASSUME GhostInv PROVE ListShowsGhosts
  <2> DEFINE valid == {k \in 1..folder.count : ghosts[track][k] # 0}
             shown == {files[h].padding : h \in list}
             n == Len(files)
             p == [h \in 1..n |-> files[h].padding]
  <2> SUFFICES ASSUME screen = "select", "ioError" \notin spoiled
               PROVE  /\ files # Freed /\ list \subseteq 1..Len(files) /\ shown \subseteq valid
                      /\ Cardinality(shown) = IF Cardinality(valid) < ListSize
                                                THEN Cardinality(valid) ELSE ListSize
    BY DEF ListShowsGhosts
  <2>1. /\ TypeOK /\ FolderInv
        /\ files # Freed /\ list = Shown(files) /\ folder.course = track
        /\ files = ValidHeaders({})
    BY <1>1 DEF GhostInv, SelectInv
  <2>2. ValidFiles({}) = valid
    BY <2>1 DEF ValidFiles
  <2>3. /\ files \in Headers /\ IsFiniteSet(valid) /\ Cardinality(valid) = n /\ n \in Nat
        /\ \A h \in 1..n : files[h].padding \in valid
        /\ \A h, g \in 1..n : files[h].padding = files[g].padding => h = g
    <3> HIDE DEF valid
    <3> QED
      BY <2>1, <2>2, HeadersAre
  <2> DEFINE m == IF n < ListSize THEN n ELSE ListSize
  <2>4. list = 1..m /\ m \in Nat /\ m <= n
    <3>1. list = {i \in 1..n : i <= ListSize}
      BY <2>1 DEF Shown
    <3> HIDE DEF n
    <3> QED
      BY <2>3, <3>1, SizeAssumption
  <2> HIDE DEF n, m, valid
  <2>5. \A h \in list : h \in 1..n
    BY <2>3, <2>4
  <2>6. shown \subseteq valid
    BY <2>3, <2>5
  <2>7. \A h \in 1..m : h \in 1..n /\ p[h] = files[h].padding
    BY <2>3, <2>4
  <2>8. /\ \A h \in 1..m : p[h] \in shown
        /\ \A t \in shown : \E h \in 1..m : p[h] = t
    BY <2>4, <2>7
  <2>9. \A h, g \in 1..m : p[h] = p[g] => h = g
    BY <2>3, <2>7
  <2> HIDE DEF shown, p
  <2>10. Cardinality(shown) = m
    BY <2>4, <2>8, <2>9, OneForEach
  <2> QED
    BY <2>1, <2>3, <2>5, <2>6, <2>10 DEF m, n
<1> QED
  BY <1>1, GhostInvariant, PTL

=============================================================================
