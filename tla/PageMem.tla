------------------------------ MODULE PageMem ------------------------------
(***************************************************************************)
(* Demand paging and copy-on-write, mm/memory.c, as MM uses it to fork, exec  *)
(* and end processes.  All processes share one page directory; process k has  *)
(* the linear region that starts k * VM_SIZE, and entry 0 is the kernel's.    *)
(* page_table counts, for each page frame above the kernel, the entries that  *)
(* name it, a page table being named by the directory.                       *)
(*                                                                         *)
(* Addresses are counted in pages and in units of a page.  The routines are  *)
(* operators from memory to memory, composed in the order the code calls     *)
(* them, and a loop is a function of its rounds; a panic keeps the memory as *)
(* it is and clears ok.  Faults and MM's own calls are not interleaved here. *)
(*                                                                         *)
(* The CPU keeps translations it has used until invalidate() reloads CR3,    *)
(* which only faults and un_wp_page do: the task switch loads no CR3, and    *)
(* copy_on_write and free_page_tables change entries without it.  tlb holds  *)
(* the translations that may still be in use though the tables differ.       *)
(***************************************************************************)
EXTENDS Integers, FiniteSets, FiniteSetsExt

CONSTANTS
  NR_ENTRY_PER_PAGE,  \* entries of a page table (1024)
  NrTables,           \* page tables of a region, VM_SIZE >> 22 (16)
  NrRegions,          \* the slots a forked process may have
  nr_page,            \* page frames above the kernel
  PAGE_SIZE,          \* units of a page (4096 bytes)
  InitImage,          \* bound: pages INIT's image has, counted from page 0
  Touched,            \* bound: the pages of its region a program uses
  TlbSize             \* bound: superseded translations the CPU keeps

VM_SIZE == NrTables * NR_ENTRY_PER_PAGE       \* in pages
Offsets == 0..VM_SIZE - 1

ASSUME PageMemAssumption ==
  /\ NR_ENTRY_PER_PAGE \in Nat \ {0, 1} /\ NrTables \in Nat \ {0}
  /\ {NrRegions, nr_page, PAGE_SIZE, InitImage} \subseteq Nat \ {0} /\ TlbSize \in Nat
  /\ Touched \subseteq Offsets /\ InitImage <= VM_SIZE
  \* a program never fills its tables: copy_on_write stops at a hole, in its region;
  \* at the last entry of a table it does not look
  /\ \E o \in 0..NR_ENTRY_PER_PAGE * (NrTables - 1) :
       /\ o \notin Touched /\ o >= InitImage
       /\ o % NR_ENTRY_PER_PAGE # NR_ENTRY_PER_PAGE - 1

Regions == 1..NrRegions
Frames == 1..nr_page
Base(r) == r * VM_SIZE
va2la(r, o) == Base(r) + o
Table(l) == l \div NR_ENTRY_PER_PAGE
Linear == VM_SIZE..Base(NrRegions + 1) - 1
Tables == {Table(l) : l \in Linear}

VARIABLES
  memory,   \* the page directory, the page tables and MM's counts
  in_use,   \* the regions with a process
  tlb       \* superseded translations the CPU may still use

vars == <<memory, in_use, tlb>>

\* pd maps a table to its frame, pt a linear page to its frame and write bit;
\* frame 0 is an entry that is not present.
Absent == [frame |-> 0, rw |-> FALSE]
Present(m, l) == m.pd[Table(l)] # 0 /\ m.pt[l].frame # 0
MemoryAtBoot ==
  [pd |-> [t \in Tables |-> 0], pt |-> [l \in Linear |-> Absent],
   page_table |-> [f \in Frames |-> 0], mm_free_mem |-> nr_page, ok |-> TRUE]

Panic(m) == [m EXCEPT !.ok = FALSE]

\* The translations the tables of m give.
Translations(m) ==
  {[page |-> l, frame |-> m.pt[l].frame, rw |-> m.pt[l].rw] :
     l \in {k \in Linear : Present(m, k)}}

\* What the CPU may use beside the tables when m has become n with no invalidate(),
\* and what of it is kept: it drops translations when it likes.
Superseded(m, n, stale) == (stale \cup Translations(m)) \ Translations(n)
Kept(stale) == {some \in SUBSET stale : Cardinality(some) <= TlbSize}

\* Each change that a fault or un_wp_page makes comes with an invalidate().
AfterFaultsKept(m, n, stale) == Superseded(m, n, stale)
AfterFaults(m, n, stale) == IF n = m THEN stale ELSE {}

\* The pages of a set that faults need not see.
Stale(pages, stale) == {l \in pages : \E e \in stale : e.page = l}

----------------------------------------------------------------------------
(* Frames                                                                   *)

FreeFrames(m) == {f \in Frames : m.page_table[f] = 0}
NextFrame(m) == Min(FreeFrames(m))

\* get_free_page takes the first free frame, cleared; it panics on none.
GetFreePage(m) == [m EXCEPT !.page_table[NextFrame(m)] = @ + 1,
                            !.mm_free_mem = @ - 1]

FreePage(m, f) ==
  IF m.page_table[f] = 0 THEN Panic(m)
  ELSE [m EXCEPT !.page_table[f] = @ - 1,
                 !.mm_free_mem = IF m.page_table[f] = 1 THEN @ + 1 ELSE @]

\* The page table of a fault or a copy, made when the directory has none.
EnsureTable(m, t) ==
  IF ~m.ok \/ m.pd[t] # 0 THEN m
  ELSE IF FreeFrames(m) = {} THEN Panic(m)
  ELSE [GetFreePage(m) EXCEPT !.pd[t] = NextFrame(m)]

----------------------------------------------------------------------------
(* Faults                                                                   *)

\* do_no_page: a fresh, writable page.
DoNoPage(m, l) ==
  LET n == EnsureTable(m, Table(l))
  IN IF ~n.ok \/ FreeFrames(n) = {} THEN Panic(n)
     ELSE [GetFreePage(n) EXCEPT
             !.pt[l] = [frame |-> NextFrame(n), rw |-> TRUE]]

\* un_wp_page: the last user of a page writes it; another gets a copy.
UnWpPageUnsynced(m, l) ==
  LET f == m.pt[l].frame
  IN IF m.page_table[f] = 1 THEN [m EXCEPT !.pt[l].rw = TRUE]
     ELSE IF FreeFrames(m) = {} THEN Panic(m)
     ELSE [GetFreePage(m) EXCEPT !.pt[l] = [frame |-> NextFrame(m), rw |-> TRUE]]
UnWpPage(m, l) ==
  LET f == m.pt[l].frame
  IN IF m.page_table[f] = 1 THEN [m EXCEPT !.pt[l].rw = TRUE]
     ELSE IF FreeFrames(m) = {} THEN Panic(m)
     ELSE [GetFreePage(m) EXCEPT !.pt[l] = [frame |-> NextFrame(m), rw |-> TRUE],
                                 !.page_table[f] = @ - 1]

\* page_fault, for a program's access.
UserRead(m, l) == IF Present(m, l) THEN m ELSE DoNoPage(m, l)
UserWrite(m, l) ==
  IF ~Present(m, l) THEN DoNoPage(m, l)
  ELSE IF m.pt[l].rw THEN m ELSE UnWpPage(m, l)

\* The tasks run in ring 1 and CR0.WP is clear: their writes fault only on a
\* page that is not there.
TaskWrite(m, l) == IF ~m.ok \/ Present(m, l) THEN m ELSE DoNoPage(m, l)

----------------------------------------------------------------------------
(* verify_area, called before a task writes into a program's memory         *)

WriteVerifyInPlace(m, l) ==
  IF ~m.ok \/ ~Present(m, l) \/ m.pt[l].rw THEN m
  ELSE [m EXCEPT !.pt[l].rw = TRUE]
WriteVerify(m, l) ==
  IF ~m.ok \/ ~Present(m, l) \/ m.pt[l].rw THEN m ELSE UnWpPage(m, l)

\* The address is cut down to its page first, so that what is then added to
\* size, the part of the address that was cut, is always 0.
VerifyArea(m, address, size) ==
  LET page == address \div PAGE_SIZE
      rest == size + ((page * PAGE_SIZE) % PAGE_SIZE)
      rounds == (rest + PAGE_SIZE - 1) \div PAGE_SIZE
      at[i \in 0..rounds] == IF i = 0 THEN m ELSE WriteVerify(at[i - 1], page + i - 1)
  IN at[rounds]

PagesWritten(address, size) ==
  (address \div PAGE_SIZE)..((address + size - 1) \div PAGE_SIZE)

\* A task writes those pages of region r, from the lowest up.
TaskWrites(m, r, pages) ==
  LET at[i \in 0..VM_SIZE] ==
        IF i = 0 THEN m
        ELSE IF va2la(r, i - 1) \in pages THEN TaskWrite(at[i - 1], va2la(r, i - 1))
        ELSE at[i - 1]
  IN at[VM_SIZE]

----------------------------------------------------------------------------
(* copy_on_write                                                            *)

\* One round of its loop, at l + at.pos in the left region and r + at.pos in the
\* right.  An absent left page is `continue': the cursor stays.  The cursor
\* turns to the next table when it reaches the last entry of one.
ShareStillWritable(m, l, r) ==
  [m EXCEPT !.pt[r] = m.pt[l], !.page_table[m.pt[l].frame] = @ + 1]
Share(m, l, r) ==
  [m EXCEPT !.pt[l].rw = FALSE,
            !.pt[r] = [frame |-> m.pt[l].frame, rw |-> FALSE],
            !.page_table[m.pt[l].frame] = @ + 1]

Advance(pos) == IF (pos + 1) % NR_ENTRY_PER_PAGE = NR_ENTRY_PER_PAGE - 1
                THEN pos + 2 ELSE pos + 1

CopyRound(at, l, r) ==
  LET m == EnsureTable(EnsureTable(at.m, Table(l + at.pos)), Table(r + at.pos))
  IN IF ~m.ok \/ ~Present(m, l + at.pos) THEN [at EXCEPT !.m = m]
     ELSE IF Present(m, r + at.pos) THEN [at EXCEPT !.m = Panic(m)]
     ELSE [m |-> Share(m, l + at.pos, r + at.pos), pos |-> Advance(at.pos)]

CopyOnWrite(m, l, r) ==
  LET at[i \in 0..VM_SIZE] ==
        IF i = 0 THEN [m |-> m, pos |-> 0] ELSE CopyRound(at[i - 1], l, r)
  IN at[VM_SIZE].m

----------------------------------------------------------------------------
(* free_page_tables                                                         *)

\* One page table and the pages it names.
FreeEntry(m, l) ==
  IF m.pt[l].frame = 0 THEN m ELSE [FreePage(m, m.pt[l].frame) EXCEPT !.pt[l] = Absent]
FreeEntries(m, t) ==
  LET at[i \in 0..NR_ENTRY_PER_PAGE] ==
        IF i = 0 THEN m ELSE FreeEntry(at[i - 1], t * NR_ENTRY_PER_PAGE + i - 1)
  IN at[NR_ENTRY_PER_PAGE]
FreeTable(m, t) ==
  LET n == FreeEntries(m, t) IN [FreePage(n, n.pd[t]) EXCEPT !.pd[t] = 0]

\* A table that is absent is also a `continue', and stops the cursor.
FreeRound(at) ==
  IF at.m.pd[at.t] = 0 THEN at ELSE [m |-> FreeTable(at.m, at.t), t |-> at.t + 1]

FreePageTables(m, start) ==
  LET at[i \in 0..NrTables] ==
        IF i = 0 THEN [m |-> m, t |-> Table(start)] ELSE FreeRound(at[i - 1])
  IN at[NrTables].m

----------------------------------------------------------------------------
(* The processes                                                            *)

\* A process reads, or writes, through the tables, or through what the TLB has.
Reads(r, o) ==
  /\ memory.ok /\ r \in in_use
  /\ memory' = UserRead(memory, va2la(r, o))
  /\ tlb' = AfterFaults(memory, memory', tlb)
  /\ UNCHANGED in_use

Writes(r, o) ==
  /\ memory.ok /\ r \in in_use
  /\ memory' = UserWrite(memory, va2la(r, o))
  /\ tlb' = AfterFaults(memory, memory', tlb)
  /\ UNCHANGED in_use

\* A stale translation without the write bit faults as on a page that is only
\* readable; do_wp_page of an absent page counts in memory in front of page_table.
WritesStale(r, o) ==
  LET l == va2la(r, o)
  IN /\ memory.ok /\ r \in in_use
     /\ \E e \in tlb : e.page = l /\ ~e.rw
     /\ memory' = IF Present(memory, l) THEN UnWpPage(memory, l) ELSE Panic(memory)
     /\ tlb' = {}
     /\ UNCHANGED in_use

\* The sets of pages that a task which writes pages in m, from the lowest up, may
\* reach through stale translations: no fault has come before them.
Slips(m, pages, stale) ==
  {hit \in SUBSET Stale(pages, stale) :
     \A l \in hit : ~Present(m, l) /\ \A k \in pages \ hit : k < l => Present(m, k)}

\* A message or a block of a file is stored for a program, over two pages.
Stores(r, address, size) ==
  LET m == VerifyArea(memory, address, size)
      stale == AfterFaults(memory, m, tlb)
      pages == PagesWritten(address, size)
  IN /\ memory.ok /\ r \in in_use
     /\ \E hit \in Slips(m, pages, stale) :
          /\ memory' = TaskWrites(m, r, pages \ hit)
          /\ tlb' = AfterFaults(m, memory', stale)
     /\ UNCHANGED in_use

\* What FS reads from a file, TTY from the keyboard, printx its text's marks, and
\* inform_int HARD_INT: stored with no verify_area before.
StoresBlindly(r, address, size) ==
  LET pages == PagesWritten(address, size)
  IN /\ memory.ok /\ r \in in_use
     /\ \E hit \in Slips(memory, pages, tlb) :
          /\ memory' = TaskWrites(memory, r, pages \ hit)
          /\ tlb' = AfterFaults(memory, memory', tlb)
     /\ UNCHANGED in_use

\* do_fork takes the first slot; INIT's children get a copy of its pages, those
\* of other processes share the parent's.
FirstSlot(r) == r \notin in_use /\ \A s \in Regions \ in_use : r <= s

ForkInit(r) ==
  LET pages == Base(r)..Base(r) + InitImage - 1
  IN /\ memory.ok /\ FirstSlot(r)
     /\ \E hit \in Slips(memory, pages, tlb) :
          /\ memory' = TaskWrites(memory, r, pages \ hit)
          /\ tlb' = AfterFaults(memory, memory', tlb)
     /\ in_use' = in_use \cup {r}

\* copy_on_write changes the parent's entries and invalidates nothing.
Fork(p, r) ==
  /\ memory.ok /\ p \in in_use /\ FirstSlot(r)
  /\ memory' = CopyOnWrite(memory, Base(p), Base(r))
  /\ tlb' \in Kept(Superseded(memory, memory', tlb))
  /\ in_use' = in_use \cup {r}

\* do_exec frees the image and writes the new one, its arguments at the end of
\* the region.
Exec(r, image) ==
  LET m == FreePageTables(memory, Base(r))
      stale == Superseded(memory, m, tlb)
      pages == {va2la(r, o) : o \in image \cup {VM_SIZE - 1}}
  IN /\ memory.ok /\ r \in in_use
     /\ \E hit \in Slips(m, pages, stale) :
          /\ memory' = TaskWrites(m, r, pages \ hit)
          /\ tlb' \in Kept(AfterFaults(m, memory', stale))
     /\ UNCHANGED in_use

Exit(r) ==
  /\ memory.ok /\ r \in in_use
  /\ memory' = FreePageTables(memory, Base(r))
  /\ tlb' \in Kept(Superseded(memory, memory', tlb))
  /\ in_use' = in_use \ {r}

----------------------------------------------------------------------------
Init == memory = MemoryAtBoot /\ in_use = {} /\ tlb = {}

\* Addresses of areas as long as a page, at the start of one and across two.
Areas(r) ==
  {a \in {(Base(r) + o) * PAGE_SIZE + b : o \in Touched, b \in {0, 1}} :
     PagesWritten(a, PAGE_SIZE) \subseteq {Base(r) + o : o \in Touched}}

Next ==
  \E r \in Regions :
    \/ \E o \in Touched :
         \/ Reads(r, o)
         \/ Writes(r, o)
         \/ WritesStale(r, o)
    \/ \E a \in Areas(r) : Stores(r, a, PAGE_SIZE) \/ StoresBlindly(r, a, PAGE_SIZE)
    \/ ForkInit(r)
    \/ \E p \in Regions : Fork(p, r)
    \/ \E last \in Touched : Exec(r, {o \in Touched : o <= last})
    \/ Exit(r)

Spec == Init /\ [][Next]_vars

----------------------------------------------------------------------------
(* Properties                                                               *)

\* The places that name frame f: page table entries and directory entries.
UsesIn(m, f) == Cardinality({l \in Linear : m.pt[l].frame = f})
                  + Cardinality({t \in Tables : m.pd[t] = f})
Uses(f) == UsesIn(memory, f)

\* The memory is of the shape the routines expect; no entry outlives its table.
TypeOK ==
  /\ memory.pd \in [Tables -> Frames \cup {0}]
  /\ memory.pt \in [Linear -> [frame : Frames \cup {0}, rw : BOOLEAN]]
  /\ memory.page_table \in [Frames -> Nat]
  /\ memory.mm_free_mem \in 0..nr_page /\ memory.ok \in BOOLEAN
  /\ in_use \subseteq Regions
  /\ tlb \subseteq [page : Linear, frame : Frames, rw : BOOLEAN]
  /\ \A l \in Linear : memory.pd[Table(l)] = 0 => memory.pt[l] = Absent

\* Through forks, faults and exits page_table counts every use of a frame, so
\* none is handed out while in use and none is lost (memory.c:56, 94, 210, 395).
UsesCounted == TypeOK /\ (memory.ok => \A f \in Frames : memory.page_table[f] = Uses(f))

\* A page whose entry lets the program write has no other user, and the CPU holds
\* no translation of it but that entry: what the tables allow after a fork shows
\* in one process only (memory.c:395, 200-215).  The entries the tables have
\* taken back and the CPU still uses are EveryWriteIsPrivate's.
WritableIsPrivate ==
  memory.ok => \A l \in Linear : memory.pt[l].rw =>
                 Uses(memory.pt[l].frame) = 1 /\ Stale({l}, tlb) = {}

\* Used by others too, by the count, which is the number of users: UsesCounted.
Shared(m, l) == Present(m, l) /\ m.page_table[m.pt[l].frame] > 1

\* A task that stores what it has for a program, after verify_area, writes no page
\* another program sees, though the hardware lets it: the program has its own.
\* (Of areas that are a page: of others verify_area, which rounds the address
\* before it adds what it cut to the size, may leave the last page.  And of writes
\* through the tables: a page that is not there may be hidden by a translation.)
StoresArePrivate ==
  memory.ok =>
    \A r \in in_use : \A o \in Touched :
      LET l == va2la(r, o)
          m == TaskWrites(VerifyArea(memory, l * PAGE_SIZE, PAGE_SIZE), r, {l})
      IN m.ok => ~Shared(m, l)

\* What the code does not keep; README, section 5, says how it comes.

\* "copy on write otherwise" (forkexit.c:111): while a page is in its frame, whatever
\* the CPU may write through to it, the entry or a translation it has kept, leads
\* where nobody else reads.
EveryWriteIsPrivate ==
  memory.ok =>
    /\ \A l \in Linear : memory.pt[l].rw => Uses(memory.pt[l].frame) = 1
    /\ \A e \in tlb : e.rw /\ memory.pt[e.page].frame = e.frame => Uses(e.frame) = 1

\* "verify a area that need to write" (memory.c:259), of the stores before which
\* nobody does: what is stored for a program shows in another.
BlindStoresArePrivate ==
  memory.ok =>
    \A r \in in_use : \A o \in Touched :
      LET l == va2la(r, o)
          m == TaskWrites(memory, r, {l})
      IN m.ok => ~Shared(m, l)

=============================================================================
