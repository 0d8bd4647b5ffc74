------------------------------ MODULE PageSwap ------------------------------
(***************************************************************************)
(* The demand-paging device PAGESWAP (src/pageswap): the page file with    *)
(* its table of slots, the services by which the memory manager pages in,  *)
(* pages out, creates and destroys memory, the writing of dirty pages at   *)
(* idle time, and the transfers to the disk.                               *)
(*                                                                         *)
(* Interleaving.  A virtual device is not preempted; it gives way where it *)
(* waits for a semaphore, calls DOS or the BIOS, or returns.  One action   *)
(* is the code from one such place to the next.  Paging and the growing of *)
(* the file hold the critical section; other virtual machines run all the  *)
(* same and may write to memory, create it and destroy it.                 *)
(*                                                                         *)
(* The memory manager (page tables, choice of pages) is not in src/ and is *)
(* modelled from how PAGESWAP is called.                                   *)
(***************************************************************************)
EXTENDS Integers, FiniteSets

CONSTANTS
  Base, NPages,      \* PS_Base_Lin_Page and the linear pages from there on
  MaxPages,          \* PS_Max_File_Pages at the start
  FilePages,         \* the size of a DOS swap file at the start
  MinGrow,           \* PS_Min_File_Grow
  HashSize,          \* PS_Hash_Entries
  RAM,               \* page frames
  Overcommit,        \* the pages that PageSwap_Sys_Critical_Init adds to them
  Paths,             \* ways to the disk: "dos", "bios", "direct"
  Errors,            \* the transfers that may fail: "read", "write"
  Handles,           \* the memory that programs ask for: linear start and size
  Moves,             \* the memory manager moves handles
  MaxErrors          \* bound: DOS errors in one run

LinPages == Base .. Base + NPages - 1
Handle   == [start : LinPages, size : 1 .. NPages]
Slots    == 0 .. MaxPages - 1
Nil      == -1                      \* 0FFFFh, the end of a list
Buckets  == 0 .. HashSize - 1
FreeList == HashSize                \* PS_Free_Page_List, beside the buckets
Lists    == Buckets \cup {FreeList}

\* What a frame, a slot or the buffer holds: p stands for what was last written to
\* page p (zeros when it is new), Garbage for everything else.
Garbage == 0
Content == LinPages \cup {Garbage}

ASSUME SizeAssumption ==
  /\ Base \in Nat \ {0} /\ NPages \in Nat \ {0}
  /\ MaxPages \in Nat \ {0} /\ FilePages \in 1 .. MaxPages
  /\ MinGrow \in Nat \ {0} /\ HashSize \in Nat \ {0}
  /\ RAM \in Nat \ {0} /\ Overcommit \in Int /\ MaxErrors \in Nat

ASSUME ChoiceAssumption ==
  /\ Paths \subseteq {"dos", "bios", "direct"} /\ Paths # {}
  /\ Errors \subseteq {"read", "write"} /\ Moves \in BOOLEAN
  /\ Handles \subseteq Handle

VARIABLES
  path,              \* PS_Have_Partition and PS_Disk_Handle
  file,              \* PS_Next_Entry, hash table, PS_Page_Entry, free list
  disk,              \* what the slots of the file hold
  buffer,            \* PS_Async_Buff and the slot it is being written to
  ioSem,             \* the tokens of PS_Disk_IO_Sem
  ioBusy,            \* PS_IO_In_Progress
  dosCount,          \* PS_DOS_IO_Count
  idleFlags,         \* PS_Idle_Flags
  pc,                \* where the holder of the critical section is
  op,                \* the page it transfers
  request,           \* the memory that is being created
  handles,           \* memory handles: linear start and size
  present, dirty, everDirty,          \* flags of the page tables
  mem                \* what the page frames hold

diskVars == <<disk, buffer, ioSem, ioBusy>>
pteVars  == <<present, dirty, everDirty, mem>>
vars == <<path, file, diskVars, dosCount, idleFlags, pc, op, request, handles,
          pteVars>>

----------------------------------------------------------------------------
(* The table of slots.  A slot is on the free list or on the chain of one  *)
(* bucket; both kinds of list run through the same links.                  *)

\* The slots on the list that starts at s.
From(next, s) ==
  {t \in Slots : \A C \in SUBSET Slots :
     s \in C /\ (\A c \in C : next[c] \in C \cup {Nil}) => t \in C}

On(f, l) == IF f.first[l] = Nil THEN {} ELSE From(f.next, f.first[l])

Bucket(p) == p % HashSize

\* The first slot on the chain of page p whose entry is p.
FindPage(f, p) ==
  LET hits  == {s \in On(f, Bucket(p)) : f.entry[s] = p}
      first == {s \in hits : hits \subseteq From(f.next, s)}
  IN  IF first = {} THEN Nil ELSE CHOOSE s \in first : TRUE

\* A wrong version: the slot is taken for the first of its list.
UnlinkHead(f, l, s) == [f EXCEPT !.first[l] = f.next[s]]

Unlink(f, l, s) ==
  [f EXCEPT
     !.first[l] = IF @ = s THEN f.next[s] ELSE @,
     !.next = [t \in Slots |-> IF t \in On(f, l) /\ f.next[t] = s
                               THEN f.next[s] ELSE f.next[t]]]

Push(f, l, s) == [f EXCEPT !.first[l] = s, !.next[s] = f.first[l]]

\* PageSwap_Free_Page leaves the entry of the slot as it is.
FreePage(f, p) ==
  LET s == FindPage(f, p)
  IN  IF s = Nil THEN f
      ELSE [Push(Unlink(f, Bucket(p), s), FreeList, s) EXCEPT !.count = @ + 1]

\* Free n pages from p on, the last one first.
FreePages(f, p, n) ==
  LET g[i \in 0 .. n] == IF i = 0 THEN f ELSE FreePage(g[i - 1], p + n - i)
  IN  g[n]

\* The slot for a new page: the one at its own place in the file if that was
\* never used, else the first that is free.
SlotFor(f, p) ==
  LET s == (p - Base) % f.cur
  IN  IF f.entry[s] = 0 THEN s ELSE f.first[FreeList]

\* A wrong version: the page entry is not filled in.
TakeSlotNoEntry(f, p) ==
  LET s == SlotFor(f, p)
  IN  [Push(Unlink(f, FreeList, s), Bucket(p), s) EXCEPT !.count = @ - 1]

TakeSlot(f, p) ==
  LET s == SlotFor(f, p)
  IN  [Push(Unlink(f, FreeList, s), Bucket(p), s) EXCEPT
         !.count = @ - 1, !.entry[s] = p, !.recent = @ \ {s}]

\* The slots in the order in which a victim is looked for, and the place of the
\* victim in it: a page that is in memory and, the first time round, has not
\* been swapped in recently.
ScanSlot(f, k) == (f.victim + k) % f.cur

\* A wrong version: pages that are not in memory lose their slots as well.
VictimsAny(f) == {k \in 0 .. 2 * f.cur - 1 : k < f.cur => ScanSlot(f, k) \notin f.recent}

Victims(f) ==
  {k \in 0 .. 2 * f.cur - 1 :
     /\ f.entry[ScanSlot(f, k)] \in present
     /\ k < f.cur => ScanSlot(f, k) \notin f.recent}

\* What the scan of the first k slots leaves.
Scanned(f, k) == [f EXCEPT !.recent = @ \ {ScanSlot(f, j) : j \in 0 .. k - 1}]

FreeVictim(f) ==
  LET k == CHOOSE k \in Victims(f) : \A j \in Victims(f) : k <= j
      s == ScanSlot(f, k)
  IN  FreePage([Scanned(f, k) EXCEPT !.victim = (s + 1) % f.cur], f.entry[s])

\* PageSwap_Grow_File after DOS has made the file size pages long: the new slots
\* go to the free list, the last one first.
Grown(f, size) ==
  [f EXCEPT
     !.cur = size, !.count = @ + size - f.cur,
     !.first[FreeList] = IF size > f.cur THEN size - 1 ELSE @,
     !.next = [s \in Slots |->
                 IF s \notin f.cur .. size - 1 THEN @[s]
                 ELSE IF s = f.cur THEN f.first[FreeList] ELSE s - 1]]

\* A wrong version: the new size is not limited.
WantedNoLimit(f, need) == f.cur + IF need > MinGrow THEN need ELSE MinGrow

\* The size the file shall have when need pages are asked for.
Wanted(f, need) ==
  LET size == f.cur + IF need > MinGrow THEN need ELSE MinGrow
  IN  IF size <= f.max THEN size ELSE f.max

\* One pass of PSC_Move_Loop.  The loop does not advance EDX, and by then
\* EBX is the difference between the old and the new place.
MovePage(f, page, delta) ==
  LET s == FindPage(f, page)
      q == page - delta
  IN  IF s = Nil THEN f
      ELSE [Push(Unlink(f, Bucket(page), s), Bucket(q), s) EXCEPT !.entry[s] = q]

\* PageSwap_Create for a handle that moves or shrinks.
Relocated(f, r) ==
  LET g == IF r.size < r.oldSize
           THEN FreePages(f, r.start + r.size, r.oldSize - r.size) ELSE f
  IN  IF r.start = r.old THEN g
      ELSE LET m[i \in 0 .. r.size] ==
                 IF i = 0 THEN g ELSE MovePage(m[i - 1], r.start, r.old - r.start)
           IN  m[r.size]

----------------------------------------------------------------------------
(* State.                                                                  *)

File == [next : [Slots -> Slots \cup {Nil}], first : [Lists -> Slots \cup {Nil}],
         entry : [Slots -> Int], recent : SUBSET Slots,
         count : 0 .. MaxPages, cur : 1 .. MaxPages, max : 1 .. MaxPages,
         victim : Slots]

\* PS_IF_Test_Dirty only saves a wait of five seconds; the time is left out.
IdleFlags == {"Writing", "Restart", "File_Full", "Prepaging", "2nd_Pass"}

Pcs == {"ready", "write", "read", "reading", "woken", "dos_write", "dos_read",
        "idle", "grow"}

\* op.wasDirty is the flag PageSwap_Out was called with.
Op == [page : LinPages \cup {0}, slot : Slots \cup {Nil}, wasDirty : BOOLEAN]
NoOp == [page |-> 0, slot |-> Nil, wasDirty |-> FALSE]

NoWrite == [slot |-> Nil, data |-> Garbage]

Request == [at : {"none", "test_grow", "create_grow"},
            start : LinPages \cup {0}, size : 0 .. NPages,
            old : LinPages \cup {0}, oldSize : 0 .. NPages, need : 0 .. NPages]
NoRequest == [at |-> "none", start |-> 0, size |-> 0, old |-> 0, oldSize |-> 0,
              need |-> 0]

TypeOK ==
  /\ path \in Paths
  /\ file \in File
  /\ disk \in [Slots -> Content]
  /\ buffer \in [slot : Slots \cup {Nil}, data : Content]
  /\ ioSem \in 0 .. 1 /\ ioBusy \in BOOLEAN
  /\ dosCount \in 0 .. MaxErrors + 1
  /\ idleFlags \subseteq IdleFlags
  /\ pc \in Pcs /\ op \in Op /\ request \in Request
  /\ handles \subseteq Handles
  /\ present \subseteq LinPages /\ dirty \subseteq present \cup {op.page}
  /\ everDirty \subseteq LinPages
  /\ mem \in [LinPages -> Content]

Region(h) == h.start .. h.start + h.size - 1
Alive == UNION {Region(h) : h \in handles}

\* Pages that programs may use: not those of a handle that waits to be changed.
Changing == IF request.at = "create_grow"
            THEN request.old .. request.old + request.oldSize - 1 ELSE {}
Usable == Alive \ Changing

FirstFile(cur) ==
  [next   |-> [s \in Slots |-> IF s + 1 < cur THEN s + 1 ELSE Nil],
   first  |-> [l \in Lists |-> IF l = FreeList THEN 0 ELSE Nil],
   entry  |-> [s \in Slots |-> 0], recent |-> {},
   count  |-> cur, cur |-> cur, max |-> MaxPages, victim |-> 0]

Init ==
  /\ path \in Paths
  /\ file = FirstFile(IF path = "dos" THEN FilePages ELSE MaxPages)
  /\ disk = [s \in Slots |-> Garbage]
  /\ buffer = NoWrite /\ ioSem = 1 /\ ioBusy = FALSE
  /\ dosCount = 0 /\ idleFlags = {}
  /\ pc = "ready" /\ op = NoOp /\ request = NoRequest /\ handles = {}
  /\ present = {} /\ dirty = {} /\ everDirty = {}
  /\ mem = [p \in LinPages |-> Garbage]

----------------------------------------------------------------------------
(* Memory being created: PageSwap_Test_Create, then PageSwap_Create.       *)

\* PageSwap_Grow_File does something.
CanGrow(f, need) == need > 0 /\ f.cur < f.max

\* Where page p is after the handle of request r has moved or shrunk.
Moved(r, p) ==
  IF p \in r.old .. r.old + r.oldSize - 1
  THEN IF p - r.old < r.size THEN p - r.old + r.start ELSE Garbage
  ELSE IF p \in r.start .. r.start + r.size - 1 THEN Garbage ELSE p

MovedSet(r, S) == {Moved(r, p) : p \in S} \ {Garbage}

\* Nothing outside the page frames holds what was last written to the pages of S,
\* because it is now something else.
Forget(S) ==
  /\ disk' = [s \in Slots |-> IF disk[s] \in S THEN Garbage ELSE disk[s]]
  /\ buffer' = [buffer EXCEPT !.data = IF @ \in S THEN Garbage ELSE @]

\* The end of PageSwap_Create for request r; the memory manager updates its page
\* tables.
Created(f, r) ==
  /\ file' = IF r.old = 0 THEN f ELSE Relocated(f, r)
  /\ handles' = (handles \ {[start |-> r.old, size |-> r.oldSize]})
                \cup {[start |-> r.start, size |-> r.size]}
  /\ present' = MovedSet(r, present)
  /\ dirty' = MovedSet(r, dirty)
  /\ everDirty' = MovedSet(r, everDirty)
  /\ mem' = [p \in LinPages |->
               IF \E q \in LinPages : mem[q] # Garbage /\ Moved(r, q) = p
               THEN p ELSE Garbage]
  /\ disk' = [s \in Slots |-> Moved(r, disk[s])]
  /\ buffer' = [buffer EXCEPT !.data = Moved(r, @)]
  /\ request' = NoRequest

\* A step of a request that leaves memory as it is.
Requested(f, r) ==
  file' = f /\ request' = r /\ UNCHANGED <<handles, disk, buffer, pteVars>>

Create(f, r) ==
  LET need == r.start + r.size - 1 - Base - f.cur
  IN  IF CanGrow(f, need)
      THEN Requested(f, [r EXCEPT !.at = "create_grow", !.need = need])
      ELSE Created(f, r)

\* The end of PageSwap_Test_Create.  If the answer is yes, the memory manager
\* reserves the linear space and calls PageSwap_Create.
Tested(f, r) ==
  IF Cardinality(Alive) + r.size <= f.cur + RAM + Overcommit
  THEN Create(f, r) ELSE Requested(f, NoRequest)

\* Memory of the size of handle h is asked for.
TestCreate(h) ==
  LET need == h.size - file.count
      r == [NoRequest EXCEPT !.start = h.start, !.size = h.size]
  IN  /\ request = NoRequest
      /\ Region(h) \subseteq LinPages \ Alive
      /\ IF CanGrow(file, need)
         THEN Requested(file, [r EXCEPT !.at = "test_grow", !.need = need])
         ELSE Tested(file, r)
      /\ UNCHANGED <<path, ioSem, ioBusy, dosCount, idleFlags, pc, op>>

\* The memory manager shrinks a handle or moves it.
Reallocate(h, k) ==
  /\ request = NoRequest
  /\ h \in handles /\ h # k /\ k.size <= h.size /\ op.page \notin Region(h)
  /\ \/ k.start = h.start
     \/ Moves /\ Region(k) \subseteq LinPages \ Alive
  /\ Create(file, [NoRequest EXCEPT !.start = k.start, !.size = k.size,
                     !.old = h.start, !.oldSize = h.size])
  /\ UNCHANGED <<path, ioSem, ioBusy, dosCount, idleFlags, pc, op>>

\* PageSwap_Grow_File, from the critical section to the calls of DOS ...
GrowFile ==
  /\ pc = "ready" /\ request # NoRequest
  /\ pc' = "grow" /\ dosCount' = dosCount + 1
  /\ UNCHANGED <<path, file, diskVars, idleFlags, op, request, handles, pteVars>>

\* ... and from there on in its caller.  DOS makes the file as long as there is
\* room on the disk; if that is too short, or DOS reports an error, the file is
\* not grown again.
GrowFileDone ==
  /\ pc = "grow"
  /\ pc' = "ready" /\ dosCount' = dosCount - 1
  /\ \E size \in file.cur .. Wanted(file, request.need) :
       LET f == IF size = Wanted(file, request.need) THEN Grown(file, size)
                ELSE [Grown(file, size) EXCEPT !.max = size]
       IN  IF request.at = "test_grow" THEN Tested(f, request) ELSE Created(f, request)
  /\ UNCHANGED <<path, ioSem, ioBusy, idleFlags, op>>

\* PageSwap_Destroy; the memory manager has ended what it did with the pages.
Destroy(h) ==
  /\ h \in handles
  /\ Region(h) \cap (Changing \cup {op.page}) = {}
  /\ handles' = handles \ {h}
  /\ file' = FreePages(file, h.start, h.size)
  /\ present' = present \ Region(h) /\ dirty' = dirty \ Region(h)
  /\ everDirty' = everDirty \ Region(h)
  /\ mem' = [p \in LinPages |-> IF p \in Region(h) THEN Garbage ELSE mem[p]]
  /\ Forget(Region(h))
  /\ UNCHANGED <<path, ioSem, ioBusy, dosCount, idleFlags, pc, op, request>>

\* A program writes to a page that is in memory.
Write(p) ==
  /\ p \in Usable \cap present
  /\ mem' = [mem EXCEPT ![p] = p] /\ Forget({p})
  /\ dirty' = dirty \cup {p} /\ everDirty' = everDirty \cup {p}
  /\ UNCHANGED <<path, file, ioSem, ioBusy, dosCount, idleFlags, pc, op, request,
                 handles, present>>

----------------------------------------------------------------------------
(* Paging in.  The memory manager has a free frame for the page; it holds  *)
(* the critical section and PS_Reenter_Sem until PageSwap_In returns.      *)

NotPrepaging(flags) == IF "Prepaging" \in flags THEN flags ELSE flags \cup {"Restart"}

\* The beginning of PageSwap_Read_Or_Write.
StartTransfer(dir, flags) ==
  /\ idleFlags' = NotPrepaging(flags)
  /\ pc' = IF path = "direct" THEN dir ELSE IF dir = "read" THEN "dos_read" ELSE "dos_write"
  /\ dosCount' = IF path = "dos" THEN dosCount + 1 ELSE dosCount

PageIn(p) ==
  /\ pc = "ready" /\ p \in Usable \ present /\ Cardinality(present) < RAM

\* A page that was never dirty, or is not in the file, is not read.
InIgnore(p) ==
  /\ PageIn(p)
  /\ p \notin everDirty \/ FindPage(file, p) = Nil
  /\ present' = present \cup {p}
  /\ mem' = IF p \in everDirty THEN mem ELSE [mem EXCEPT ![p] = p]
  /\ UNCHANGED <<path, file, diskVars, dosCount, idleFlags, pc, op, request,
                 handles, dirty, everDirty>>

InRead(p) ==
  /\ PageIn(p)
  /\ p \in everDirty /\ FindPage(file, p) # Nil
  /\ op' = [page |-> p, slot |-> FindPage(file, p), wasDirty |-> FALSE]
  /\ StartTransfer("read", idleFlags)
  /\ UNCHANGED <<path, file, diskVars, request, handles, pteVars>>

\* The page has been read: it counts as recently swapped in.
InReturns ==
  /\ file' = [file EXCEPT !.entry[op.slot] = op.page, !.recent = @ \cup {op.slot}]
  /\ present' = present \cup {op.page}
  /\ pc' = "ready" /\ op' = NoOp

----------------------------------------------------------------------------
(* Paging out.  The memory manager clears the dirty bit before the call;   *)
(* to make room it also takes the page from its program, and it undoes     *)
(* both if PageSwap_Out returns an error.  At idle time it only has the    *)
(* page written.                                                           *)

AtIdle == pc = "idle"

PageOut(p) ==
  \/ pc = "ready" /\ p \in Usable \cap present /\ Cardinality(present) = RAM
  \/ AtIdle /\ p \in Usable \cap dirty

\* At idle time _PageOutDirtyPages returns after one page.
OutFlags(flags) == IF AtIdle THEN flags \ {"Prepaging"} ELSE flags

\* PageSwap_Out returns at once, with or without an error.
OutReturns(p, ok, flags) ==
  /\ present' = IF ok /\ ~AtIdle THEN present \ {p} ELSE present
  /\ mem' = IF ok /\ ~AtIdle THEN [mem EXCEPT ![p] = Garbage] ELSE mem
  /\ dirty' = IF ok THEN dirty \ {p} ELSE dirty
  /\ idleFlags' = OutFlags(flags)
  /\ pc' = "ready"
  /\ UNCHANGED <<path, diskVars, dosCount, op, request, handles, everDirty>>

\* It goes on to write the page to slot s of file f.
OutWrites(p, f, s, flags) ==
  /\ file' = f
  /\ op' = [page |-> p, slot |-> s, wasDirty |-> p \in dirty]
  /\ dirty' = dirty \ {p}
  /\ present' = IF AtIdle THEN present ELSE present \ {p}
  /\ StartTransfer("write", flags)
  /\ UNCHANGED <<path, diskVars, request, handles, everDirty, mem>>

\* A page that was never dirty need not be kept.
OutIgnore(p) ==
  /\ PageOut(p) /\ p \notin everDirty
  /\ OutReturns(p, TRUE, idleFlags) /\ UNCHANGED file

\* Neither need one that has not changed since it was written to the file.
OutClean(p) ==
  /\ PageOut(p) /\ p \in everDirty \ dirty
  /\ FindPage(file, p) # Nil
  /\ OutReturns(p, TRUE, idleFlags) /\ UNCHANGED file

OutAgain(p) ==
  /\ PageOut(p) /\ p \in everDirty \cap dirty
  /\ FindPage(file, p) # Nil
  /\ OutWrites(p, file, FindPage(file, p), idleFlags)

NeedsSlot(p) == PageOut(p) /\ p \in everDirty /\ FindPage(file, p) = Nil

OutNew(p) ==
  /\ NeedsSlot(p) /\ file.first[FreeList] # Nil
  /\ OutWrites(p, TakeSlot(file, p), SlotFor(file, p), idleFlags)

\* The file is full: a page that is in memory gives up its slot.
OutVictim(p) ==
  /\ NeedsSlot(p) /\ file.first[FreeList] = Nil /\ Victims(file) # {}
  /\ LET f == FreeVictim(file)
     IN  OutWrites(p, TakeSlot(f, p), SlotFor(f, p), idleFlags \cup {"File_Full"})

OutNoVictim(p) ==
  /\ NeedsSlot(p) /\ file.first[FreeList] = Nil /\ Victims(file) = {}
  /\ file' = Scanned(file, 2 * file.cur)
  /\ OutReturns(p, FALSE, idleFlags \cup {"File_Full"})

\* The end of the transfer of a page that is being paged out.  A page that is
\* still present was written at idle time.
WriteReturns(ok) ==
  /\ present' = IF ok THEN present ELSE present \cup {op.page}
  /\ dirty' = IF ok \/ ~op.wasDirty THEN dirty ELSE dirty \cup {op.page}
  /\ mem' = IF ok /\ op.page \notin present
            THEN [mem EXCEPT ![op.page] = Garbage] ELSE mem
  /\ idleFlags' = idleFlags \ {"Prepaging"}
  /\ pc' = "ready" /\ op' = NoOp

----------------------------------------------------------------------------
(* PageSwap_Read_Or_Write, direct to the hardware.  A write is only        *)
(* started: the page is copied to the buffer and the caller goes on.       *)

\* A wrong version: a write does not wait for the one before it.
DiskWriteNoWait ==
  /\ pc = "write"
  /\ ioSem' = 0 /\ ioBusy' = TRUE
  /\ buffer' = [slot |-> op.slot, data |-> mem[op.page]]
  /\ WriteReturns(TRUE)
  /\ UNCHANGED <<path, file, disk, dosCount, request, handles, everDirty>>

DiskWrite ==
  /\ pc = "write" /\ ioSem > 0
  /\ ioSem' = ioSem - 1 /\ ioBusy' = TRUE
  /\ buffer' = [slot |-> op.slot, data |-> mem[op.page]]
  /\ WriteReturns(TRUE)
  /\ UNCHANGED <<path, file, disk, dosCount, request, handles, everDirty>>

DiskRead ==
  /\ pc = "read" /\ ioSem > 0
  /\ pc' = "reading" /\ ioSem' = ioSem - 1 /\ ioBusy' = TRUE
  /\ UNCHANGED <<path, file, disk, buffer, dosCount, idleFlags, op, request,
                 handles, pteVars>>

\* PageSwap_VHD_Call_Back.
VHDCallBack == ioSem' = ioSem + 1 /\ ioBusy' = FALSE

VHDWritten ==
  /\ buffer.slot # Nil
  /\ disk' = [disk EXCEPT ![buffer.slot] = buffer.data] /\ buffer' = NoWrite
  /\ VHDCallBack
  /\ UNCHANGED <<path, file, dosCount, idleFlags, pc, op, request, handles,
                 pteVars>>

VHDRead ==
  /\ pc = "reading"
  /\ pc' = "woken" /\ mem' = [mem EXCEPT ![op.page] = disk[op.slot]]
  /\ VHDCallBack
  /\ UNCHANGED <<path, file, disk, buffer, dosCount, idleFlags, op, request,
                 handles, present, dirty, everDirty>>

\* A wrong version: the token taken to wait for the end of the read is not given back.
DiskWokenKeeps ==
  /\ pc = "woken" /\ ioSem > 0
  /\ ioSem' = ioSem - 1
  /\ InReturns
  /\ UNCHANGED <<path, disk, buffer, ioBusy, dosCount, idleFlags, request,
                 handles, dirty, everDirty, mem>>

\* The wait for the end of the read, and the token is given back.
DiskWoken ==
  /\ pc = "woken" /\ ioSem > 0
  /\ InReturns
  /\ UNCHANGED <<path, diskVars, dosCount, idleFlags, request, handles, dirty,
                 everDirty, mem>>

----------------------------------------------------------------------------
(* PageSwap_Read_Or_Write through DOS or the BIOS, which return when the   *)
(* transfer is done.                                                       *)

TransferDone == dosCount' = IF path = "dos" THEN dosCount - 1 ELSE dosCount

DosWritten ==
  /\ pc = "dos_write"
  /\ disk' = [disk EXCEPT ![op.slot] = mem[op.page]]
  /\ TransferDone /\ WriteReturns(TRUE)
  /\ UNCHANGED <<path, file, buffer, ioSem, ioBusy, request, handles, everDirty>>

DosRead ==
  /\ pc = "dos_read"
  /\ mem' = [mem EXCEPT ![op.page] = disk[op.slot]]
  /\ TransferDone /\ InReturns
  /\ UNCHANGED <<path, diskVars, idleFlags, request, handles, dirty, everDirty>>

\* PS_ROW_Error.  A write that failed may have spoilt the slot.
DosError ==
  /\ pc \in {"dos_write", "dos_read"}
  /\ (IF pc = "dos_write" THEN "write" ELSE "read") \in Errors
  /\ path = "dos" => dosCount <= MaxErrors
  /\ IF pc = "dos_write"
     THEN /\ WriteReturns(FALSE)
          /\ \E c \in {disk[op.slot], Garbage} : disk' = [disk EXCEPT ![op.slot] = c]
     ELSE pc' = "ready" /\ op' = NoOp /\ UNCHANGED <<disk, idleFlags, present, dirty, mem>>
  /\ UNCHANGED <<path, file, buffer, ioSem, ioBusy, dosCount, request, handles,
                 everDirty>>

----------------------------------------------------------------------------
(* PageSwap_Idle: all virtual machines are idle.                           *)

IdleUnchanged == UNCHANGED <<path, file, diskVars, dosCount, op, request, handles,
                             pteVars>>

\* What PageSwap_Idle does first, and the flags it goes on with.
MayPrepage ==
  pc = "ready" /\ ~ioBusy /\ (file.count # 0 \/ "File_Full" \notin idleFlags)
NotFull == idleFlags \ {"File_Full"}
IsWriting == NotFull \cap {"Writing", "Restart"} # {}

\* Few pages are dirty: nothing is written.
IdleFewDirty ==
  /\ MayPrepage /\ ~IsWriting
  /\ idleFlags' = NotFull
  /\ UNCHANGED pc /\ IdleUnchanged

\* Pages are written, from the first one on after a restart.
IdleStart ==
  /\ MayPrepage
  /\ IsWriting \/ dirty # {}
  /\ LET restart == ~IsWriting \/ "Restart" \in NotFull
     IN  idleFlags' = {"Prepaging"} \cup
           IF restart THEN (NotFull \ {"Restart", "2nd_Pass"}) \cup {"Writing"}
                      ELSE NotFull
  /\ pc' = "idle" /\ IdleUnchanged

\* _PageOutDirtyPages has come to the last page: once more from the first page,
\* then no more until pages are dirty again.
IdleAgain ==
  /\ AtIdle /\ "2nd_Pass" \notin idleFlags
  /\ idleFlags' = idleFlags \cup {"2nd_Pass"}
  /\ UNCHANGED pc /\ IdleUnchanged

IdleStop ==
  /\ AtIdle /\ "2nd_Pass" \in idleFlags
  /\ idleFlags' = idleFlags \ {"Prepaging", "Writing", "2nd_Pass"}
  /\ pc' = "ready" /\ IdleUnchanged

----------------------------------------------------------------------------
(* The specification.                                                      *)

PagingOut == \E p \in LinPages : \/ OutIgnore(p) \/ OutClean(p) \/ OutAgain(p)
                                 \/ OutNew(p) \/ OutVictim(p) \/ OutNoVictim(p)

\* The holder of the critical section, once it has it.
Transfer == \/ DiskWrite \/ DiskRead \/ DiskWoken \/ DosWritten \/ DosRead \/ DosError
            \/ GrowFileDone
VHD == VHDWritten \/ VHDRead
Idle == IdleFewDirty \/ IdleStart \/ IdleAgain \/ IdleStop

Next ==
  \/ PagingOut
  \/ \E p \in LinPages : InIgnore(p) \/ InRead(p) \/ Write(p)
  \/ Transfer \/ VHD \/ Idle
  \/ \E h \in Handles : TestCreate(h) \/ Destroy(h) \/ \E k \in Handles : Reallocate(h, k)
  \/ GrowFile

Spec == Init /\ [][Next]_vars

\* The disk, DOS and the BIOS answer, and _PageOutDirtyPages comes to the last page.
Fairness == WF_vars(Transfer) /\ WF_vars(VHD) /\ WF_vars(IdleAgain \/ IdleStop)

FairSpec == Spec /\ Fairness

----------------------------------------------------------------------------
(* Correctness.                                                            *)

\* What a program would find in page p, now or after it has been paged in.
Found(p) ==
  LET s == FindPage(file, p)
  IN  CASE p \in present \/ (p = op.page /\ pc \in {"write", "dos_write"}) -> mem[p]
      []   p \notin present /\ p \notin everDirty -> p
      []   OTHER -> IF s = Nil THEN Garbage
                    ELSE IF s = buffer.slot THEN buffer.data ELSE disk[s]

\* Paging is invisible: every page that programs may use holds what was last
\* written to it, whether it is in memory, in the file or on the way there.
MemoryKept == \A p \in Usable : Found(p) = p

\* A slot of the file is on exactly one list, no list has a loop, the count of
\* free slots is right, and the slots on a chain hold different pages of that
\* bucket, all of them alive.
InUse == UNION {On(file, b) : b \in Buckets}
SlotsPartition ==
  /\ \A s \in Slots : Cardinality({l \in Lists : s \in On(file, l)})
                      = IF s < file.cur THEN 1 ELSE 0
  /\ \A s \in Slots : file.next[s] # Nil => s \notin From(file.next, file.next[s])
  /\ file.count = Cardinality(On(file, FreeList))
  /\ \A b \in Buckets : \A s \in On(file, b) : Bucket(file.entry[s]) = b
  /\ \A s, t \in InUse : file.entry[s] = file.entry[t] => s = t
  /\ \A s \in InUse : file.entry[s] \in Alive

\* PageSwap_Out takes a slot whose entry is zero from the middle of the free list
\* and searches the list for it without looking for its end.
FreshSlotsFree ==
  \A s \in 0 .. file.cur - 1 : file.entry[s] = 0 => s \in On(file, FreeList)

\* Whoever pages, grows the file or writes pages at idle time comes to an end.
PagerReturns == pc # "ready" ~> pc = "ready"

=============================================================================
