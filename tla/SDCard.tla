------------------------------- MODULE SDCard -------------------------------
(***************************************************************************)
(* The SD card below FatFs: how it is brought up at the start, and how     *)
(* sectors are transferred.  A transfer is a series of IOS calls in each   *)
(* of which the thread sleeps, and neither it nor FatFs takes a lock: the  *)
(* task thread that saves a ghost and the main thread that loads one share *)
(* tmpBuffer and the selection of the card.                                *)
(*                                                                         *)
(* IOS and the card are external.  A card that was put in, or lost its     *)
(* power, has no address until it is reset; commands reach a selected card *)
(* only; a write that fails has written some of its sectors.               *)
(***************************************************************************)
EXTENDS IosCalls, Integers, Sequences

CONSTANTS
  Threads, Main,  \* the main and the task thread
  Sectors,        \* sectors of the card
  TmpSectors,     \* TMP_SECTOR_COUNT
  SectorSize,     \* SECTOR_SIZE
  Addresses,      \* the addresses a card may publish
  Requests,       \* what FatFs asks for: [write, sector, count, aligned]
  MaxTransfers,   \* bound: transfers after the start
  MaxSwaps        \* bound: the card put in or pulled out

NoAddress == 0
\* The read that f_mount makes first.
BootSector(aligned) == [write |-> FALSE, sector |-> 0, count |-> 1, aligned |-> aligned]

ASSUME SDCardAssumption ==
  /\ Main \in Threads
  /\ Sectors \in Nat \ {0} /\ TmpSectors \in Nat \ {0} /\ SectorSize \in Nat \ {0}
  /\ Addresses \subseteq Nat \ {NoAddress} /\ Addresses # {}
  /\ \A r \in Requests :
       /\ r.write \in BOOLEAN /\ r.aligned \in BOOLEAN
       /\ r.sector \in Nat /\ r.count \in Nat \ {0} /\ r.sector + r.count <= Sectors
  /\ MaxTransfers \in Nat /\ MaxSwaps \in Nat

VARIABLES
  card,    \* external: [present, ready, hc, address, selected, blocks]
  disk,    \* external: what its sectors hold, <<transfer, index>>
  rca, sdhc,
  device,  \* StorageDevice::currentDevice is set
  tmp,     \* tmpBuffer
  init,    \* how far SDStorage::Init has come
  job,     \* per thread: the transfer it is in
  begun, swaps

sdVars == <<card, disk, rca, sdhc, device, tmp, init, job, begun, failures, swaps>>

statics == <<rca, sdhc, device, init>>
bounds == <<begun, failures, swaps>>

\* No card, and one without an address.
NoCard == [present |-> FALSE, ready |-> FALSE, hc |-> FALSE, address |-> NoAddress,
           selected |-> FALSE, blocks |-> FALSE]
NewCard(hc) == [NoCard EXCEPT !.present = TRUE, !.hc = hc]

Idle == [pc |-> "idle"]
Busy(t) == job[t].pc \notin {"idle", "done"}

-----------------------------------------------------------------------------
(* Transfers.                                                               *)

\* SD_Transfer starts; `at` counts the sectors that are through.  overlap and
\* mixed are history: another transfer was on its way, and shared tmpBuffer or
\* wrote to the same sectors.
Started(r, id) ==
  [pc |-> "select", write |-> r.write, sector |-> r.sector, count |-> r.count,
   aligned |-> r.aligned, id |-> id, at |-> 0, ok |-> TRUE,
   buffer |-> [i \in 1..r.count |-> IF r.write THEN <<id, i>> ELSE <<id, 0>>],
   overlap |-> FALSE, mixed |-> FALSE]

Mixes(j, k) ==
  \/ ~j.aligned /\ ~k.aligned
  \/ /\ j.write \/ k.write
     /\ j.sector < k.sector + k.count /\ k.sector < j.sector + j.count

Begin(t, r, id) ==
  LET new == Started(r, id)
      others == {u \in Threads \ {t} : Busy(u)}
  IN  job' = [u \in Threads |->
                IF u = t THEN [new EXCEPT !.overlap = (others # {}),
                                          !.mixed = (\E o \in others : Mixes(new, job[o]))]
                ELSE IF u \in others THEN [job[u] EXCEPT !.overlap = TRUE,
                                                         !.mixed = @ \/ Mixes(new, job[u])]
                ELSE job[u]]

Chunk(j) == IF j.aligned \/ j.count - j.at < TmpSectors THEN j.count - j.at ELSE TmpSectors

\* SD_TransferAligned: a standard card is addressed in bytes, of which it has
\* less than 2^32.
FirstBlock(j) == IF sdhc THEN j.sector + j.at ELSE (j.sector + j.at) * SectorSize
\* The sector the card takes it for.
Target(block) == IF card.hc THEN block ELSE block \div SectorSize

Step(t, j) == job' = [job EXCEPT ![t] = j]

\* The next chunk: a write through tmpBuffer is copied before the command, a
\* read after it.
NextChunk(j) == [j EXCEPT !.pc = IF j.at = j.count THEN "deselect"
                                 ELSE IF j.write /\ ~j.aligned THEN "copy" ELSE "command"]
Advanced(j, n) == NextChunk([j EXCEPT !.at = @ + n])

\* SD_SendCommand of SELECT: an error is not one, the caller goes on.
Selection(address) ==
  \/ card' = [card EXCEPT !.selected = card.ready /\ address = card.address] /\ Answered
  \/ Refused /\ UNCHANGED card

SD_Select(t) ==
  /\ job[t].pc = "select"
  /\ Selection(rca)
  /\ Step(t, NextChunk(job[t]))
  /\ UNCHANGED <<disk, tmp, statics, begun, swaps>>

\* The chunk to write goes into tmpBuffer.
CopyIn(t) ==
  LET j == job[t]
  IN  /\ j.pc = "copy" /\ j.write
      /\ tmp' = [i \in 1..TmpSectors |-> IF i <= Chunk(j) THEN j.buffer[j.at + i] ELSE tmp[i]]
      /\ Step(t, [j EXCEPT !.pc = "command"])
      /\ UNCHANGED <<card, disk, statics, bounds>>

Reaches(j) ==
  /\ card.ready /\ card.selected /\ card.blocks
  /\ Target(FirstBlock(j)) + Chunk(j) <= Sectors

\* The data of a write, and the sectors after the first n of it are written.
Outgoing(j) == IF j.aligned THEN j.buffer ELSE tmp
Written(j, n) ==
  LET first == Target(FirstBlock(j))
  IN  [s \in DOMAIN disk |-> IF s \in first..(first + n - 1) THEN Outgoing(j)[s - first + 1]
                             ELSE disk[s]]
Incoming(j) == [i \in 1..Chunk(j) |-> disk[Target(FirstBlock(j)) + i - 1]]

SD_TransferAligned(t) ==
  LET j == job[t]  n == Chunk(j)
  IN  /\ j.pc = "command" /\ Reaches(j)
      /\ IF j.write
         THEN disk' = Written(j, n) /\ Step(t, Advanced(j, n)) /\ UNCHANGED tmp
         ELSE /\ IF j.aligned
                 THEN Step(t, [Advanced(j, n) EXCEPT !.buffer = Incoming(j)]) /\ UNCHANGED tmp
                 ELSE /\ tmp' = [i \in 1..TmpSectors |-> IF i <= n THEN Incoming(j)[i] ELSE tmp[i]]
                      /\ Step(t, [j EXCEPT !.pc = "copy"])
              /\ UNCHANGED disk
      /\ UNCHANGED <<card, statics, bounds>>

\* SD_Transfer gives up; what was written stays.
TransferFails(t) ==
  LET j == job[t]
  IN  /\ j.pc = "command"
      /\ IF Reaches(j)
         THEN /\ Refused
              /\ \E n \in 0..(Chunk(j) - 1) : disk' = IF j.write THEN Written(j, n) ELSE disk
         ELSE Answered /\ UNCHANGED disk
      /\ Step(t, [j EXCEPT !.pc = "deselect", !.ok = FALSE])
      /\ UNCHANGED <<card, tmp, statics, begun, swaps>>

\* The chunk that was read goes out of tmpBuffer.
CopyOut(t) ==
  LET j == job[t]  n == Chunk(j)
  IN  /\ j.pc = "copy" /\ ~j.write
      /\ Step(t, [Advanced(j, n) EXCEPT
                    !.buffer = [i \in DOMAIN @ |-> IF i - j.at \in 1..n THEN tmp[i - j.at] ELSE @[i]]])
      /\ UNCHANGED <<card, disk, tmp, statics, bounds>>

SD_Deselect(t) ==
  /\ job[t].pc = "deselect"
  /\ Selection(NoAddress)
  /\ Step(t, [job[t] EXCEPT !.pc = "done"])
  /\ UNCHANGED <<disk, tmp, statics, begun, swaps>>

\* FatFs goes on to its next request.
Request(t, r) ==
  /\ device /\ init = "mounted" /\ ~Busy(t)
  /\ begun < MaxTransfers /\ begun' = begun + 1
  /\ Begin(t, r, begun + 1)
  /\ UNCHANGED <<card, disk, tmp, statics, failures, swaps>>

-----------------------------------------------------------------------------
(* SDStorage::Init, on the main thread.  Any call of it may fail, and the   *)
(* game then runs without the card.                                         *)

Goes(next) == init' \in {next, "failed"}

Open == init = "open" /\ Goes("reset") /\ UNCHANGED <<card, disk, rca, sdhc, device, tmp, job, bounds>>

\* IOS brings the card up, or does not know how to; the address is read from
\* the answer either way.
SD_Reset ==
  /\ init = "reset" /\ Goes("status")
  /\ IF card.present
     THEN \E a \in Addresses, ready \in BOOLEAN :
            /\ card' = [NewCard(card.hc) EXCEPT !.ready = ready,
                                                !.address = IF ready THEN a ELSE NoAddress]
            /\ rca' \in IF ready THEN {a} ELSE Addresses \cup {NoAddress}
     ELSE rca' = NoAddress /\ UNCHANGED card
  /\ UNCHANGED <<disk, sdhc, device, tmp, job, bounds>>

\* What the status says of the card; it is brought up by hand once.
AfterStatus ==
  IF card.ready THEN "select"
  ELSE IF card.present /\ init = "status" THEN "reinitialize" ELSE "failed"

\* (wrong variant) The type is that of the first time.
SD_GetStatusOnce ==
  /\ init \in {"status", "status again"}
  /\ \/ sdhc' = (sdhc \/ (card.ready /\ card.hc)) /\ init' = AfterStatus
     \/ init' = "failed" /\ UNCHANGED sdhc
  /\ UNCHANGED <<card, disk, rca, device, tmp, job, bounds>>
SD_GetStatus ==
  /\ init \in {"status", "status again"}
  /\ \/ sdhc' = (card.ready /\ card.hc) /\ init' = AfterStatus
     \/ init' = "failed" /\ UNCHANGED sdhc
  /\ UNCHANGED <<card, disk, rca, device, tmp, job, bounds>>

\* The card is brought up by hand; the address it publishes is not kept.
SD_Reinitialize ==
  /\ init = "reinitialize"
  /\ sdhc' = TRUE
  /\ \/ /\ card.present /\ init' = "status again"
        /\ \E a \in Addresses :
             card' = [NewCard(card.hc) EXCEPT !.ready = TRUE, !.address = a]
     \/ init' = "failed" /\ UNCHANGED card
  /\ UNCHANGED <<disk, rca, device, tmp, job, bounds>>

\* The bus and the clock are set, which may fail, and the card is selected,
\* which never does.
SelectCard ==
  /\ init = "select"
  /\ \/ init' = "block size" /\ Selection(rca)
     \/ init' = "failed" /\ UNCHANGED <<card, failures>>
  /\ UNCHANGED <<disk, rca, sdhc, device, tmp, job, begun, swaps>>

\* (wrong variant) Its answer is not looked at.
BlockSizeUnchecked ==
  /\ init = "block size" /\ init' = "mount"
  /\ card' = [card EXCEPT !.blocks = @ \/ (card.ready /\ card.selected)]
  /\ UNCHANGED <<disk, rca, sdhc, device, tmp, job, bounds>>

\* With the bus width: both are commands that only a selected card answers.
SD_SetCardBlockSize ==
  /\ init = "block size"
  /\ \/ /\ card.ready /\ card.selected /\ init' = "mount"
        /\ card' = [card EXCEPT !.blocks = TRUE] /\ UNCHANGED failures
     \/ init' = "failed" /\ Selection(NoAddress)
  /\ UNCHANGED <<disk, rca, sdhc, device, tmp, job, begun, swaps>>

\* The device is set before f_mount reads through it.
Mount ==
  /\ init = "mount" /\ init' = "mounting"
  /\ Selection(NoAddress)
  /\ device' = TRUE
  /\ \E aligned \in BOOLEAN : Begin(Main, BootSector(aligned), 0)
  /\ UNCHANGED <<disk, rca, sdhc, tmp, begun, swaps>>

Mounted ==
  /\ init = "mounting" /\ job[Main].pc = "done"
  /\ init' \in IF job[Main].ok THEN {"mounted", "failed"} ELSE {"failed"}
  /\ device' = (init' = "mounted")
  /\ UNCHANGED <<card, disk, rca, sdhc, tmp, job, bounds>>

-----------------------------------------------------------------------------
SDInit ==
  /\ rca = NoAddress /\ sdhc = FALSE /\ device = FALSE
  /\ init = "open" /\ job = [t \in Threads |-> Idle]
  /\ card \in {NoCard} \cup {NewCard(hc) : hc \in BOOLEAN}
  /\ disk = [s \in 0..(Sectors - 1) |-> <<0, s + 1>>]
  /\ tmp = [i \in 1..TmpSectors |-> <<0, 0>>]
  /\ begun = 0 /\ failures = 0 /\ swaps = 0

\* Off and on again, at any moment.
PowerCycle ==
  /\ rca' = NoAddress /\ sdhc' = FALSE /\ device' = FALSE
  /\ init' = "open" /\ job' = [t \in Threads |-> Idle]
  /\ card' = IF card.present THEN NewCard(card.hc) ELSE NoCard
  /\ tmp' = [i \in 1..TmpSectors |-> <<0, 0>>]
  /\ UNCHANGED <<disk, bounds>>

Swap ==
  /\ swaps < MaxSwaps /\ swaps' = swaps + 1
  /\ IF card.present THEN card' = NoCard
     ELSE card' \in {NewCard(hc) : hc \in BOOLEAN}
  /\ UNCHANGED <<disk, tmp, statics, job, begun, failures>>

Transfer(t) ==
  \/ SD_Select(t) \/ CopyIn(t) \/ SD_TransferAligned(t) \/ TransferFails(t)
  \/ CopyOut(t) \/ SD_Deselect(t)

Start ==
  \/ Open \/ SD_Reset \/ SD_GetStatus \/ SD_Reinitialize \/ SelectCard
  \/ SD_SetCardBlockSize \/ Mount \/ Mounted

SDNext ==
  \/ Start \/ PowerCycle \/ Swap
  \/ \E t \in Threads : Transfer(t) \/ \E r \in Requests : Request(t, r)

SDSpec == SDInit /\ [][SDNext]_sdVars

-----------------------------------------------------------------------------
Steps == {"open", "reset", "status", "reinitialize", "status again", "select",
          "block size", "mount", "mounting", "mounted", "failed"}
Contents == (0..MaxTransfers) \X Nat

TypeOK ==
  /\ {card.present, card.ready, card.hc, card.selected, card.blocks} \subseteq BOOLEAN
  /\ {card.address, rca} \subseteq Addresses \cup {NoAddress}
  /\ {sdhc, device} \subseteq BOOLEAN
  /\ disk \in [0..(Sectors - 1) -> Contents] /\ tmp \in [1..TmpSectors -> Contents]
  /\ init \in Steps
  /\ \A t \in Threads :
       LET j == job[t]
       IN  j.pc = "idle" \/ (/\ j.pc \in {"select", "copy", "command", "deselect", "done"}
                             /\ j.at \in 0..j.count /\ j.buffer \in [1..j.count -> Contents])
  /\ begun \in 0..MaxTransfers /\ failures \in 0..MaxFailures /\ swaps \in 0..MaxSwaps

\* Whatever fails, overlaps or is cut off by the power, only sectors that a
\* write in progress asked for change: the addresses are in the unit of the
\* card that was mounted (SD.cpp:76-82, 278-283).
WritesStayInside ==
  [][\A s \in DOMAIN disk :
       disk'[s] # disk[s] =>
         \E t \in Threads :
           Busy(t) /\ job[t].write /\ s \in job[t].sector..(job[t].sector + job[t].count - 1)]_sdVars

\* What a transfer answers is true.  A success is the whole of it, chunk by
\* chunk, even while another transfer runs, unless both go through tmpBuffer or
\* one writes what the other uses: nobody rules that out, and the data is then
\* any mixture.  A card that came through the start fails a transfer only when
\* a command fails, the card is changed, or another transfer deselects it on
\* the way (SD.cpp:204-245, 285-322; SDStorage.cpp:123-227).
AnswerIsTrue ==
  \A t \in Threads :
    LET j == job[t]
    IN  j.pc = "deselect" =>
          IF j.ok THEN j.mixed \/ \A i \in 1..j.count : j.buffer[i] = disk[j.sector + i - 1]
          ELSE j.overlap \/ failures > 0 \/ swaps > 0
=============================================================================
