------------------------------- MODULE SlotFS -------------------------------
(***************************************************************************)
(* SlotFS (src/lib_slotfs/slotfs.{h,cpp}): a fixed number of file slots on *)
(* a block device.  Block 0 holds the configuration; each slot has two     *)
(* metadata blocks A and B (CRC-protected, with an 8-bit revision) and a   *)
(* data region.  A File handle stages data in a page of PageBlocks blocks. *)
(*                                                                         *)
(* One unit of data is one block, and the configuration's start address   *)
(* is block 0.  Data written by the caller is a ghost tag [fid, off]: the  *)
(* file it was written to (fid, a ghost field of the metadata record) and  *)
(* the file offset the caller meant it for.                                *)
(*                                                                         *)
(* The caller is single-threaded (one call in progress at a time); a call  *)
(* is split into steps with at most one device write each, so that power   *)
(* loss and device faults can strike between and during device writes.    *)
(***************************************************************************)
EXTENDS SlotMeta, Integers, FiniteSets, TLC

CONSTANTS
  SlotCount,        \* Config::slot_count
  FsEnd,            \* Config::end_address, in blocks (start_address = 0)
  DevBlocks,        \* number of blocks of the block device
  PageBlocks,       \* BlockPage capacity in blocks (kBlockSize*4 in the code)
  Handles,          \* the caller's File objects
  SlotIdx,          \* slot numbers the caller passes to sfs_file_open
  WriteSizes,       \* lengths passed to sfs_file_write
  ReadSizes,        \* lengths passed to sfs_file_read
  AllocSizes,       \* sizes passed to sfs_file_allocate
  MaxCreates,       \* bound: number of WriteCreate opens
  MaxRev,           \* bound: explicit flush/allocate only below this revision
  MaxCrashes,       \* bound: power losses
  MaxFaults,        \* bound: device writes that report an error
  TornGarbage,      \* a block being written at power loss reads back as bad CRC
  ReadHandleWrites, \* the caller calls sfs_file_write on a Read handle
  DeinitOpen,       \* the caller calls sfs_deinit while handles are open
  Blank, Corrupt    \* block contents: erased device, unreadable block

ASSUME SlotIdx \subseteq 0..SlotCount

VARIABLES
  disk,      \* block address -> content
  up,        \* sfs_init/sfs_format has completed since the last power loss
  lock,      \* SlotFS::lock_counters
  file,      \* File objects
  call,      \* the call in progress and where it continues
  faults, crashes,
  nextFid,   \* ghost: last file id handed out by a WriteCreate open
  skipped,   \* ghost: offsets of a file jumped over by sfs_file_allocate
  acked,     \* ghost: metadata of the last successful flush/close/create per slot
  lastRead,  \* ghost: <<offset, content>> pairs returned by the last read
  begun      \* ghost: file id of the last WriteCreate open begun per slot

vars == <<disk, up, lock, file, call, faults, crashes, nextFid, skipped, acked, lastRead, begun>>

P == PageBlocks
LockIdx == 0..SlotCount
Cfg == [slot_count |-> SlotCount, start |-> 0, end |-> FsEnd]
MetaEnd == 1 + 2 * SlotCount
SlotSize == (FsEnd - MetaEnd) \div SlotCount
MetaAddr(s, idx) == 1 + 2 * s + idx
Tag(fid, o) == [fid |-> fid, off |-> o]
NoMd == [start |-> 0, max |-> 0, size |-> 0, rev |-> 0, fid |-> 0]
IsMeta(c) == c \notin {Blank, Corrupt} /\ "rev" \in DOMAIN c
Closed == [open |-> FALSE, slot |-> 0, md |-> NoMd, mode |-> "none", cursor |-> 0,
           page |-> [i \in 0..P-1 |-> Blank], poff |-> 0]
NoCall == [op |-> "none"]
Idle == up /\ call.op = "none"
MinOf(a, b) == IF a < b THEN a ELSE b

\* init_meta_data_block: slot s's data region, empty, revision 0.
InitMeta(s) == [NoMd EXCEPT !.start = MetaEnd + SlotSize * s,
                            !.max = MetaEnd + SlotSize * (s + 1)]

\* read_meta_data_block of both copies followed by most_recent_meta_data_block.
Recent(d, s) == MostRecent(d[MetaAddr(s, 0)], IsMeta(d[MetaAddr(s, 0)]),
                           d[MetaAddr(s, 1)], IsMeta(d[MetaAddr(s, 1)]))
Recovered(d, s) == d[MetaAddr(s, Recent(d, s))]

\* sfs_file_exists: recoverable, and the revision is not the format's 0.
FileExists(d, s) == Recent(d, s) # -1 /\ Recovered(d, s).rev # 0

\* Mutant: the block address not aligned down to the page.
BAUnaligned(f) == f.md.start + f.cursor

\* page_block_address: the page-aligned block holding the cursor.
BA(f) == f.md.start + (f.cursor \div P) * P

Put(d, a, blk) == [b \in DOMAIN d |-> IF b - a \in DOMAIN blk THEN blk[b - a] ELSE d[b]]

\* A write cut by power loss: blocks before j written, block j old or garbage.
Torn(d, a, blk, j) ==
  [b \in DOMAIN d |-> CASE b - a \in 0..j-1 -> blk[b - a]
                        [] b = a + j /\ TornGarbage -> Corrupt
                        [] OTHER -> d[b]]

\* Power loss: RAM (handles, lock counters, the call in progress) is gone.
LoseMemory ==
  /\ up' = FALSE
  /\ file' = [h \in Handles |-> Closed]
  /\ call' = NoCall
  /\ lock' = [s \in LockIdx |-> 0]
  /\ lastRead' = [h \in Handles |-> {}]
  /\ UNCHANGED <<nextFid, skipped, acked>>

\* BlockDevice::write: it succeeds, reports an error (always when the range
\* is past the device), or power fails while it is in progress.
DiskWrite(a, blk, Ok, Fail) ==
  LET fits == a + Cardinality(DOMAIN blk) <= DevBlocks IN
  \/ /\ fits
     /\ disk' = Put(disk, a, blk)
     /\ UNCHANGED <<faults, crashes>>
     /\ Ok
  \/ /\ ~fits \/ faults < MaxFaults
     /\ faults' = IF fits THEN faults + 1 ELSE faults
     /\ UNCHANGED <<disk, crashes>>
     /\ Fail
  \/ /\ fits /\ crashes < MaxCrashes
     /\ \E j \in DOMAIN blk : disk' = Torn(disk, a, blk, j)
     /\ crashes' = crashes + 1
     /\ UNCHANGED faults
     /\ LoseMemory

Init ==
  /\ disk = [b \in 0..DevBlocks-1 |-> Blank]
  /\ up = FALSE
  /\ lock = [s \in LockIdx |-> 0]
  /\ file = [h \in Handles |-> Closed]
  /\ call = NoCall
  /\ faults = 0
  /\ crashes = 0
  /\ nextFid = 0
  /\ skipped = [f \in 1..MaxCreates |-> {}]
  /\ acked = [s \in LockIdx |-> NoMd]
  /\ lastRead = [h \in Handles |-> {}]
  /\ begun = [s \in LockIdx |-> 0]

-----------------------------------------------------------------------------
(* sfs_init and sfs_format *)

\* sfs_init: lock counters cleared; the stored configuration equals the
\* requested one, so nothing is written.
BootMounted ==
  /\ UNCHANGED begun
  /\ ~up /\ call.op = "none"
  /\ disk[0] = Cfg
  /\ up' = TRUE
  /\ lock' = [s \in LockIdx |-> 0]
  /\ UNCHANGED <<disk, file, call, faults, crashes, nextFid, skipped, acked, lastRead>>

\* sfs_init finds another (or no) configuration and calls sfs_format, which
\* writes the configuration block first (Error_Write if that fails).
BootFormat ==
  /\ UNCHANGED begun
  /\ ~up /\ call.op = "none"
  /\ disk[0] # Cfg
  /\ DiskWrite(0, 0 :> Cfg,
       /\ call' = [op |-> "format", k |-> 0]
       /\ UNCHANGED <<up, lock, file, nextFid, skipped, acked, lastRead>>,
       UNCHANGED <<up, lock, file, call, nextFid, skipped, acked, lastRead>>)

\* sfs_format, loop body: metadata copy k%2 of slot k\div 2 set to the empty
\* file; a failed write is ignored.  Success once all 2*SlotCount are done.
FormatMeta ==
  /\ UNCHANGED begun
  /\ call.op = "format"
  /\ LET s == call.k \div 2
         done == call.k + 1 = 2 * SlotCount
         Cont == /\ up' = done
                 /\ call' = IF done THEN NoCall ELSE [call EXCEPT !.k = @ + 1]
                 /\ UNCHANGED <<lock, file, nextFid, skipped, acked, lastRead>>
     IN DiskWrite(MetaAddr(s, call.k % 2), 0 :> InitMeta(s), Cont, Cont)

-----------------------------------------------------------------------------
(* sfs_file_open *)

Opened(s, md, mode) ==
  [Closed EXCEPT !.open = TRUE, !.slot = s, !.md = md, !.mode = mode]

\* Mode_Read: the recovered metadata must exist (CorruptData otherwise) and
\* have a revision other than 0 (FileNotFound otherwise).
OpenRead(h, s) ==
  /\ UNCHANGED begun
  /\ Idle /\ ~file[h].open
  /\ FileExists(disk, s)
  /\ file' = [file EXCEPT ![h] = Opened(s, Recovered(disk, s), "read")]
  /\ lock' = [lock EXCEPT ![s] = @ + 1]
  /\ lastRead' = [lastRead EXCEPT ![h] = {}]
  /\ UNCHANGED <<disk, up, call, faults, crashes, nextFid, skipped, acked>>

\* Mutant: a WriteCreate open that does not look at the lock counter.
CreateAllowedAlways(s) == TRUE

\* A WriteCreate open is allowed only while no handle holds the slot.
CreateAllowed(s) == lock[s] = 0

\* Mode_WriteCreate on an unlocked slot: a new empty file of revision 1 is
\* written to copy A; an error from the device is returned.
OpenCreate(h, s) ==
  /\ Idle /\ ~file[h].open
  /\ CreateAllowed(s)
  /\ nextFid < MaxCreates
  /\ begun' = [begun EXCEPT ![s] = nextFid + 1]
  /\ LET md == [InitMeta(s) EXCEPT !.rev = 1, !.fid = nextFid + 1] IN
     DiskWrite(MetaAddr(s, 0), 0 :> md,
       /\ call' = [op |-> "create", h |-> h, s |-> s, md |-> md]
       /\ nextFid' = nextFid + 1
       /\ UNCHANGED <<up, lock, file, skipped, acked, lastRead>>,
       /\ nextFid' = nextFid + 1
       /\ UNCHANGED <<up, lock, file, call, skipped, acked, lastRead>>)


\* ... then to copy B; only then is the page allocated and the slot locked.
CreateSecondCopy ==
  /\ UNCHANGED begun
  /\ call.op = "create"
  /\ LET h == call.h
         s == call.s
     IN DiskWrite(MetaAddr(s, 1), 0 :> call.md,
          /\ file' = [file EXCEPT ![h] = Opened(s, call.md, "write")]
          /\ lock' = [lock EXCEPT ![s] = @ + 1]
          /\ acked' = [acked EXCEPT ![s] = call.md]
          /\ lastRead' = [lastRead EXCEPT ![h] = {}]
          /\ call' = NoCall
          /\ UNCHANGED <<up, nextFid, skipped>>,
          /\ call' = NoCall
          /\ UNCHANGED <<up, lock, file, nextFid, skipped, acked, lastRead>>)

-----------------------------------------------------------------------------
(* sfs_file_write *)

\* The page with `can` more units of the caller's data copied in at its offset.
Staged(f, can) ==
  [i \in 0..P-1 |-> IF i >= f.poff /\ i < f.poff + can
                    THEN Tag(f.md.fid, f.cursor + i - f.poff) ELSE f.page[i]]

\* The call starts; only the opened check comes before the loop (no mode check).
Write(h, n) ==
  /\ UNCHANGED begun
  /\ Idle /\ file[h].open
  /\ file[h].mode = "write" \/ ReadHandleWrites
  /\ call' = [op |-> "write", h |-> h, rem |-> n]
  /\ UNCHANGED <<disk, up, lock, file, faults, crashes, nextFid, skipped, acked, lastRead>>

SpaceLeft(f) == (f.md.max - f.md.start) - f.cursor

\* Loop body, the remaining data exceeds the slot: Error_Write.
WriteNoSpace ==
  /\ UNCHANGED begun
  /\ call.op = "write"
  /\ call.rem > SpaceLeft(file[call.h])
  /\ call' = NoCall
  /\ UNCHANGED <<disk, up, lock, file, faults, crashes, nextFid, skipped, acked, lastRead>>

\* Loop body, the data is copied into the page without filling it.
WriteStage ==
  /\ UNCHANGED begun
  /\ call.op = "write"
  /\ LET h == call.h
         f == file[h]
         can == MinOf(call.rem, P - f.poff)
     IN /\ call.rem <= SpaceLeft(f)
        /\ f.poff + can < P
        /\ file' = [file EXCEPT ![h].page = Staged(f, can), ![h].poff = @ + can,
                                ![h].cursor = @ + can]
        /\ call' = IF call.rem = can THEN NoCall ELSE [call EXCEPT !.rem = @ - can]
  /\ UNCHANGED <<disk, up, lock, faults, crashes, nextFid, skipped, acked, lastRead>>

\* Mutant: a failed page write is retried by the loop instead of returned.
PageWriteErrorRetry == UNCHANGED call

\* A failed page write ends the call with Error_Write.
PageWriteError == call' = NoCall

\* Loop body, the page is full: it is written at the block of the cursor not
\* yet advanced and cleared, then sfs_file_flush runs (its result ignored) and
\* only then does the cursor advance.  A device error returns Error_Write
\* with the data left in the full page and the cursor where it was.
WritePage ==
  /\ UNCHANGED begun
  /\ call.op = "write"
  /\ LET h == call.h
         f == file[h]
         can == MinOf(call.rem, P - f.poff)
     IN /\ call.rem <= SpaceLeft(f)
        /\ f.poff + can = P
        /\ DiskWrite(BA(f), Staged(f, can),
             /\ file' = [file EXCEPT ![h].page = Staged(f, can), ![h].poff = 0]
             /\ call' = [op |-> "flush", h |-> h, ret |-> "write", rem |-> call.rem,
                         pend |-> can]
             /\ UNCHANGED <<up, lock, nextFid, skipped, acked, lastRead>>,
             /\ file' = [file EXCEPT ![h].page = Staged(f, can), ![h].poff = P]
             /\ PageWriteError
             /\ UNCHANGED <<up, lock, nextFid, skipped, acked, lastRead>>)


-----------------------------------------------------------------------------
(* sfs_file_flush, sfs_file_allocate, sfs_file_close *)

\* Mutant: sfs_file_flush without its Mode_WriteCreate check.
FlushAllowedAnyMode(f) == TRUE

\* sfs_file_flush acts only on a WriteCreate handle (Assert otherwise).
FlushAllowed(f) == f.mode = "write"

\* Mutant: the metadata overwrites the most recent copy instead.
OtherCopySame(i) == i

\* The copy the new metadata goes to: (most_recent_idx + 1) % 2.
OtherCopy(i) == (i + 1) % 2

\* Where the caller of sfs_file_flush continues; ok is "Success returned".
\*  write: the result is ignored, the cursor advances and the loop goes on;
\*  flush, alloc: the result is returned;
\*  close: on success the slot is unlocked and the handle reset.
AfterFlush(h, f2, ok) ==
  LET s == f2.slot IN
  CASE call.ret = "write" ->
         /\ file' = [file EXCEPT ![h] = [f2 EXCEPT !.cursor = @ + call.pend]]
         /\ call' = IF call.rem = call.pend THEN NoCall
                    ELSE [op |-> "write", h |-> h, rem |-> call.rem - call.pend]
         /\ UNCHANGED <<up, lock, nextFid, skipped, acked, lastRead>>
    [] call.ret = "close" /\ ok ->
         /\ file' = [file EXCEPT ![h] = Closed]
         /\ lock' = [lock EXCEPT ![s] = @ - 1]
         /\ acked' = [acked EXCEPT ![s] = f2.md]
         /\ lastRead' = [lastRead EXCEPT ![h] = {}]
         /\ call' = NoCall
         /\ UNCHANGED <<up, nextFid, skipped>>
    [] OTHER ->
         /\ file' = [file EXCEPT ![h] = f2]
         /\ acked' = IF ok THEN [acked EXCEPT ![s] = f2.md] ELSE acked
         /\ call' = NoCall
         /\ UNCHANGED <<up, lock, nextFid, skipped, lastRead>>

\* sfs_file_flush after the page: size and revision (uint8) updated in
\* memory, both copies re-read and the older one overwritten.  CorruptData
\* if neither copy is readable; the result of the metadata write is ignored.
FlushMeta ==
  /\ UNCHANGED begun
  /\ call.op = "flush"
  /\ FlushAllowed(file[call.h])
  /\ LET h == call.h
         f == file[h]
         f2 == [f EXCEPT !.md.size = f.cursor, !.md.rev = (@ + 1) % 256]
         i == Recent(disk, f.slot)
     IN \/ /\ i = -1
           /\ AfterFlush(h, f2, FALSE)
           /\ UNCHANGED <<disk, faults, crashes>>
        \/ /\ i # -1
           /\ DiskWrite(MetaAddr(f.slot, OtherCopy(i)), 0 :> f2.md,
                        AfterFlush(h, f2, TRUE), AfterFlush(h, f2, TRUE))


\* The page of a Read handle filled by sfs_file_write: sfs_file_flush returns
\* Assert (not Mode_WriteCreate), which the write loop ignores.
FlushRejected ==
  /\ UNCHANGED begun
  /\ call.op = "flush"
  /\ ~FlushAllowed(file[call.h])
  /\ AfterFlush(call.h, file[call.h], FALSE)
  /\ UNCHANGED <<disk, faults, crashes>>

\* sfs_file_flush up to its metadata step: a page holding data is written
\* whole at the block of the cursor; a device error returns Error_Write.
FlushPage(h, ret) ==
  LET f == file[h]
      ToMeta == /\ call' = [op |-> "flush", h |-> h, ret |-> ret, rem |-> 0, pend |-> 0]
                /\ UNCHANGED <<up, lock, file, nextFid, skipped, acked, lastRead>>
  IN \/ /\ f.poff = 0
        /\ ToMeta
        /\ UNCHANGED <<disk, faults, crashes>>
     \/ /\ f.poff > 0
        /\ DiskWrite(BA(f), f.page, ToMeta,
                     UNCHANGED <<up, lock, file, call, nextFid, skipped, acked, lastRead>>)

Flush(h) ==
  /\ UNCHANGED begun
  /\ Idle /\ file[h].open /\ file[h].mode = "write"
  /\ file[h].md.rev < MaxRev
  /\ FlushPage(h, "flush")

\* sfs_file_allocate: cursor set to the size, the page cleared (its staged
\* data dropped), then sfs_file_flush, whose page step is then a no-op.
Allocate(h, n) ==
  /\ UNCHANGED begun
  /\ Idle /\ file[h].open /\ file[h].mode = "write"
  /\ file[h].md.rev < MaxRev
  /\ LET f == file[h] IN
     /\ file' = [file EXCEPT ![h].cursor = n, ![h].poff = 0]
     /\ skipped' = [skipped EXCEPT ![f.md.fid] = @ \cup (f.cursor..n-1)]
  /\ call' = [op |-> "flush", h |-> h, ret |-> "alloc", rem |-> 0, pend |-> 0]
  /\ UNCHANGED <<disk, up, lock, faults, crashes, nextFid, acked, lastRead>>

\* Bound: a close that fails in sfs_file_flush has still raised the revision
\* in memory, so repeated closes are cut off here.  Explicit flushes stop
\* below MaxRev and the write loop adds at most one flush per page.
MaxCloseRev == MaxRev + SlotSize

\* sfs_file_close of a WriteCreate handle: flush first; if it fails its
\* result is returned and the handle stays open and the slot locked.
CloseWrite(h) ==
  /\ UNCHANGED begun
  /\ Idle /\ file[h].open /\ file[h].mode = "write"
  /\ file[h].md.rev < MaxCloseRev
  /\ FlushPage(h, "close")

\* Mutant: closing a Read handle without resetting it.
CloseReadNoReset(h) ==
  /\ UNCHANGED begun
  /\ Idle /\ file[h].open /\ file[h].mode = "read"
  /\ lock' = [lock EXCEPT ![file[h].slot] = @ - 1]
  /\ lastRead' = [lastRead EXCEPT ![h] = {}]
  /\ UNCHANGED <<disk, up, call, file, faults, crashes, nextFid, skipped, acked>>

\* sfs_file_close of a Read handle.
CloseRead(h) ==
  /\ UNCHANGED begun
  /\ Idle /\ file[h].open /\ file[h].mode = "read"
  /\ file' = [file EXCEPT ![h] = Closed]
  /\ lock' = [lock EXCEPT ![file[h].slot] = @ - 1]
  /\ lastRead' = [lastRead EXCEPT ![h] = {}]
  /\ UNCHANGED <<disk, up, call, faults, crashes, nextFid, skipped, acked>>

-----------------------------------------------------------------------------
(* sfs_file_read, sfs_file_seek *)

\* Mutant: the page is reloaded only when exhausted, not when empty.
PageNeedsLoadWhenFull(f) == f.poff = P

\* The page must be (re)loaded: exhausted (available() == 0) or empty.
PageNeedsLoad(f) == f.poff = P \/ f.poff = 0

\* The read loop over a handle f with n units left to read; it returns the
\* handle afterwards and the <<offset, content>> pairs copied out.  It stops
\* at the end of the file (Success_Eof) and when a page to load lies past
\* the device (Error_Read).  The page is (re)loaded when it is full or empty,
\* its offset then set to the cursor's offset within the page.
RECURSIVE ReadLoop(_, _, _)
ReadLoop(f, n, got) ==
  LET load == PageNeedsLoad(f)
      pg == IF load THEN [i \in 0..P-1 |-> disk[BA(f) + i]] ELSE f.page
      off == IF load THEN f.cursor % P ELSE f.poff
      can == MinOf(P - off, MinOf(n, f.md.size - f.cursor))
  IN IF n = 0 \/ f.cursor >= f.md.size \/ (load /\ BA(f) + P > DevBlocks)
     THEN [f |-> f, got |-> got]
     ELSE ReadLoop([f EXCEPT !.page = pg, !.poff = off + can, !.cursor = @ + can],
                   n - can, got \cup {<<f.cursor + i, pg[off + i]>> : i \in 0..can-1})

Read(h, n) ==
  /\ UNCHANGED begun
  /\ Idle /\ file[h].open /\ file[h].mode = "read"
  /\ LET r == ReadLoop(file[h], n, {}) IN
     /\ file' = [file EXCEPT ![h] = r.f]
     /\ lastRead' = [lastRead EXCEPT ![h] = r.got]
  /\ UNCHANGED <<disk, up, lock, call, faults, crashes, nextFid, skipped, acked>>

\* Only a Read handle, and only to an offset below the file size.
Seek(h, o) ==
  /\ UNCHANGED begun
  /\ Idle /\ file[h].open /\ file[h].mode = "read"
  /\ o < file[h].md.size
  /\ file' = [file EXCEPT ![h].cursor = o, ![h].poff = 0]
  /\ UNCHANGED <<disk, up, lock, call, faults, crashes, nextFid, skipped, acked, lastRead>>

\* sfs_deinit: the device and configuration are dropped; open handles and
\* lock counters are left as they are until the next sfs_init.
Deinit ==
  /\ UNCHANGED begun
  /\ Idle
  /\ DeinitOpen \/ \A h \in Handles : ~file[h].open
  /\ up' = FALSE
  /\ UNCHANGED <<disk, lock, file, call, faults, crashes, nextFid, skipped, acked, lastRead>>

-----------------------------------------------------------------------------

\* Power fails between two device writes (inside a call or between calls).
PowerLoss ==
  /\ UNCHANGED begun
  /\ up \/ call.op # "none"
  /\ crashes < MaxCrashes
  /\ crashes' = crashes + 1
  /\ LoseMemory
  /\ UNCHANGED <<disk, faults>>

\* The steps of a call in progress, taken by the caller's thread.
CallStep ==
  \/ FormatMeta \/ CreateSecondCopy
  \/ WriteNoSpace \/ WriteStage \/ WritePage
  \/ FlushMeta \/ FlushRejected

Next ==
  \/ BootMounted \/ BootFormat \/ Deinit \/ CallStep \/ PowerLoss
  \/ \E h \in Handles :
       \/ \E s \in SlotIdx : OpenRead(h, s) \/ OpenCreate(h, s)
       \/ \E n \in WriteSizes : Write(h, n)
       \/ \E n \in ReadSizes : Read(h, n)
       \/ \E n \in AllocSizes : Allocate(h, n)
       \/ \E o \in 0..SlotSize-1 : Seek(h, o)
       \/ Flush(h) \/ CloseWrite(h) \/ CloseRead(h)

\* A call, once begun, is run to its end by the caller's thread (unless the
\* power fails).
Spec == Init /\ [][Next]_vars /\ WF_vars(CallStep)

-----------------------------------------------------------------------------
(* Properties *)

Content == {Blank, Corrupt, Cfg}
           \cup [start: Nat, max: Nat, size: Nat, rev: 0..255, fid: 0..MaxCreates]
           \cup [fid: 0..MaxCreates, off: Nat]

TypeOK ==
  /\ disk \in [0..DevBlocks-1 -> Content]
  /\ up \in BOOLEAN
  /\ lock \in [LockIdx -> Nat]
  /\ \A h \in Handles : file[h].mode \in {"none", "read", "write"}
                       /\ file[h].page \in [0..P-1 -> Content]
                       /\ file[h].poff \in 0..P
  /\ call.op \in {"none", "format", "create", "write", "flush"}
  /\ faults \in 0..MaxFaults /\ crashes \in 0..MaxCrashes
  /\ nextFid \in 0..MaxCreates
  /\ skipped \in [1..MaxCreates -> SUBSET Nat]
  /\ begun \in [LockIdx -> 0..MaxCreates]

\* The metadata recovered for a slot (most_recent_meta_data_block) describes
\* data that is on the device: every offset below file_size holds what the
\* caller wrote there, through power losses, device errors and reopenings.
DurableContent ==
  \A s \in 0..SlotCount-1 :
    Recent(disk, s) # -1 =>
      LET m == Recovered(disk, s) IN
      \A o \in 0..m.size-1 : disk[m.start + o] = Tag(m.fid, o) \/ o \in skipped[m.fid]

\* sfs_file_read returns, at each offset, what the caller wrote there.
ReadReturnsWrittenData ==
  \A h \in Handles : \A p \in lastRead[h] :
    p[2] = Tag(file[h].md.fid, p[1]) \/ p[1] \in skipped[file[h].md.fid]

\* The recovered metadata of slot s is the acknowledged state a, a later
\* state of the same file, or a later file, and not "no file".
NotRolledBack(s, a) ==
  /\ Recent(disk, s) # -1
  /\ LET m == Recovered(disk, s) IN
     /\ m.rev # 0
     /\ \/ m.fid > a.fid
        \/ m.fid = a.fid /\ m.rev >= a.rev

\* Once sfs_file_open (WriteCreate), sfs_file_flush or sfs_file_close has
\* returned Success, power loss never takes the slot back to an older state
\* of that file or to "no file" -- until a WriteCreate open of the slot
\* begins to replace the file.
AckedDurable ==
  \A s \in 0..SlotCount-1 :
    acked[s].fid # 0 /\ begun[s] <= acked[s].fid => NotRolledBack(s, acked[s])

\* The same, also while a new file is being created over the old one: a
\* power loss during the create yields the old file as acknowledged or the
\* new one (the A/B scheme's promise that the previous copy stays intact).
AckedNeverRolledBack ==
  \A s \in 0..SlotCount-1 : acked[s].fid # 0 => NotRolledBack(s, acked[s])

\* The lock counters admit at most one open WriteCreate handle per slot,
\* through failed creates, failed closes and power loss.
SingleWriter ==
  \A s \in LockIdx :
    Cardinality({h \in Handles : file[h].open /\ file[h].mode = "write" /\ file[h].slot = s}) <= 1

\* Every call returns: the write loop, a flush and the format loop end.
CallsReturn == call.op # "none" ~> call.op = "none"

\* After sfs_init has returned, every slot's metadata is recoverable: an
\* open for reading finds a file or FileNotFound, never CorruptData.
MetaRecoverable ==
  up => \A s \in 0..SlotCount-1 : Recent(disk, s) # -1

\* A handle opened in Mode_Read never changes the device: no step of a
\* write or flush call made through it writes a block.
ReadHandleNeverWrites ==
  [][call.op \in {"write", "flush"} /\ file[call.h].mode = "read" => disk' = disk]_vars
====
