----------------------------- MODULE Mem2Paging -----------------------------
(***************************************************************************)
(* The sparse MEM2 of source/main.c: pages of guest memory are committed   *)
(* on first use, written to a swap file when the host heap refuses another *)
(* page, and read back on the next access.                                 *)
(*                                                                         *)
(* The host is one thread, so a guest access is one step, however many     *)
(* pages it reclaims, evicts, allocates or restores on the way.  Every C   *)
(* function is an operator from the state of the pager to the SET of its   *)
(* possible outcomes: the host heap and the file system may refuse.        *)
(* The counters main.c only prints are left out.                           *)
(***************************************************************************)
EXTENDS Naturals

CONSTANTS
  PageCount, WordsPerPage, Values,
  ClockModulus,       \* 2^32: width of g_mem2_page_clock
  MaxClock,           \* bound: no access starts once the clock is past it
  HeapRefusals,       \* most attempts of one allocation the heap refuses
  SwapWritesMayFail,
  SwapReadsMayFail,
  NoSlot,             \* SMG3DS_MEM2_SWAP_SLOT_NONE
  Absent              \* NULL in g_mem2_pages

ASSUME SizeAssumption == /\ PageCount \in Nat \ {0}
                         /\ WordsPerPage \in Nat \ {0}
                         /\ ClockModulus \in Nat \ {0}
                         /\ MaxClock \in Nat
ASSUME ValuesAssumption == 0 \in Values
ASSUME FaultAssumption == /\ HeapRefusals \in 0 .. 3
                          /\ SwapWritesMayFail \in BOOLEAN
                          /\ SwapReadsMayFail \in BOOLEAN

Pages == 0 .. PageCount - 1
Words == 0 .. WordsPerPage - 1
LastWord == WordsPerPage - 1
PageData == [Words -> Values]
ZeroPage == [w \in Words |-> 0]
Slots == 0 .. PageCount - 1
LastTick == ClockModulus - 1    \* 0xffffffff

ASSUME SentinelAssumption == NoSlot \notin Slots /\ Absent \notin PageData

VARIABLES mem2,   \* the pager
          reply   \* words the last guest access read, <<>> after a write

pagerVars == <<mem2, reply>>

Pager == [pages : [Pages -> PageData \cup {Absent}],
          dirty : [Pages -> BOOLEAN],
          slots : [Pages -> Slots \cup {NoSlot}],
          lastUse : [Pages -> 0 .. LastTick],
          clock : 0 .. LastTick,
          slotsUsed : 0 .. PageCount,
          outOfMemory : BOOLEAN,
          readFailed : BOOLEAN,           \* a swap read was short
          swapFile : BOOLEAN,             \* the file is open
          swap : [Slots -> PageData],     \* what the file holds
          running : BOOLEAN]

Outcome(ok, m) == [ok |-> ok, m |-> m]

Resident(m) == {p \in Pages : m.pages[p] # Absent}

-----------------------------------------------------------------------------
(* Mutant: the clock is not a u32. *)
TickUnbounded(t) == t + 1

(* mem2_touch_page: the clock is a u32 and wraps. *)
Tick(t) == IF t = LastTick THEN 0 ELSE t + 1

TouchPage(m, p) == [m EXCEPT !.clock = Tick(m.clock),
                             !.lastUse[p] = Tick(m.clock)]

ReleasePage(m, p) == [m EXCEPT !.pages[p] = Absent]

ZeroPages(m) == {p \in Pages : m.pages[p] = ZeroPage}

(* Mutant: the slot of a reclaimed page is kept. *)
ReclaimKeepingSlots(m) ==
  [m EXCEPT
     !.dirty = [p \in Pages |-> IF p \in ZeroPages(m) THEN FALSE ELSE @[p]],
     !.pages = [p \in Pages |-> IF p \in ZeroPages(m) THEN Absent ELSE @[p]]]

(* Mutant: a reclaimed slot is returned by turning the counter back. *)
ReclaimReturningSlot(m) ==
  [m EXCEPT
     !.slotsUsed = IF \E p \in ZeroPages(m) : m.slots[p] # NoSlot
                   THEN @ - 1 ELSE @,
     !.slots = [p \in Pages |-> IF p \in ZeroPages(m) THEN NoSlot ELSE @[p]],
     !.dirty = [p \in Pages |-> IF p \in ZeroPages(m) THEN FALSE ELSE @[p]],
     !.pages = [p \in Pages |-> IF p \in ZeroPages(m) THEN Absent ELSE @[p]]]

(* mem2_reclaim_zero_pages: resident pages of zeros give up their storage  *)
(* and forget their slot; the slot is not handed out again.                *)
ReclaimZeroPages(m) ==
  [m EXCEPT
     !.slots = [p \in Pages |-> IF p \in ZeroPages(m) THEN NoSlot ELSE @[p]],
     !.dirty = [p \in Pages |-> IF p \in ZeroPages(m) THEN FALSE ELSE @[p]],
     !.pages = [p \in Pages |-> IF p \in ZeroPages(m) THEN Absent ELSE @[p]]]

(* A short fwrite leaves anything in the slot. *)
TornWrites(m, s) ==
  IF SwapWritesMayFail
  THEN {Outcome(FALSE, [m EXCEPT !.swap[s] = torn]) : torn \in PageData}
  ELSE {}

StoredInSlot(m, p, s) ==
  [m EXCEPT !.swap[s] = m.pages[p], !.dirty[p] = FALSE]

(* mem2_write_swap_page: a page without a slot takes the next one, and     *)
(* gives it back if the write fails; a clean page is not written again.    *)
WriteSwapPage(m, p) ==
  IF ~m.swapFile THEN {Outcome(FALSE, m)}
  ELSE IF m.slots[p] = NoSlot
       THEN IF m.slotsUsed >= PageCount THEN {Outcome(FALSE, m)}
            ELSE {Outcome(TRUE, [StoredInSlot(m, p, m.slotsUsed) EXCEPT
                                   !.slots[p] = m.slotsUsed,
                                   !.slotsUsed = m.slotsUsed + 1])}
                 \cup TornWrites(m, m.slotsUsed)
  ELSE IF ~m.dirty[p] THEN {Outcome(TRUE, m)}
  ELSE {Outcome(TRUE, StoredInSlot(m, p, m.slots[p]))}
       \cup TornWrites(m, m.slots[p])

(* mem2_evict_page looks for the least recently used page, the lowest of   *)
(* equals; a page used at the last tick of the clock is never found.       *)
Candidates(m, avoid) ==
  {p \in Resident(m) \ {avoid} : m.lastUse[p] # LastTick}

Victims(m, avoid) ==
  {p \in Candidates(m, avoid) :
     \A q \in Candidates(m, avoid) :
       \/ m.lastUse[p] < m.lastUse[q]
       \/ m.lastUse[p] = m.lastUse[q] /\ p <= q}

(* Mutant: the page is released even if it could not be written. *)
EvictUnwritten(m, avoid) ==
  IF Candidates(m, avoid) = {}
  THEN {Outcome(FALSE, m)}
  ELSE UNION {{Outcome(o.ok, ReleasePage(o.m, p)) :
                 o \in WriteSwapPage(m, p)} : p \in Victims(m, avoid)}

EvictPage(m, avoid) ==
  IF Candidates(m, avoid) = {}
  THEN {Outcome(FALSE, m)}
  ELSE UNION {{IF o.ok THEN Outcome(TRUE, ReleasePage(o.m, p)) ELSE o :
                 o \in WriteSwapPage(m, p)} :
              p \in Victims(m, avoid)}

(* mem2_allocate_page: three attempts.  After the first refusal the pages  *)
(* of zeros are reclaimed, or one page evicted; after the second and the   *)
(* third one page is evicted, and an eviction that fails ends the loop.    *)
Granted(m, p) ==
  Outcome(TRUE, TouchPage([m EXCEPT !.pages[p] = ZeroPage,
                                    !.dirty[p] = FALSE], p))

NoMemory(m) == Outcome(FALSE, [m EXCEPT !.outOfMemory = TRUE])

ThirdAttempt(m, p) ==
  {Granted(m, p)} \cup (IF HeapRefusals < 3 THEN {}
                        ELSE {NoMemory(o.m) : o \in EvictPage(m, p)})

SecondAttempt(m, p) ==
  {Granted(m, p)} \cup
  (IF HeapRefusals < 2 THEN {}
   ELSE UNION {IF o.ok THEN ThirdAttempt(o.m, p) ELSE {NoMemory(o.m)} :
                 o \in EvictPage(m, p)})

AllocatePage(m, p) ==
  {Granted(m, p)} \cup
  (IF HeapRefusals < 1 THEN {}
   ELSE UNION {IF o.ok THEN SecondAttempt(o.m, p) ELSE {NoMemory(o.m)} :
                 o \in IF ZeroPages(m) # {}
                       THEN {Outcome(TRUE, ReclaimZeroPages(m))}
                       ELSE EvictPage(m, p)})

(* mem2_restore_page: a short fread gives the page up again, and keeps its *)
(* slot.                                                                   *)
Loaded(m, p) ==
  Outcome(TRUE, TouchPage([m EXCEPT !.pages[p] = m.swap[m.slots[p]],
                                    !.dirty[p] = FALSE], p))

LoadFailed(m, p) ==
  Outcome(FALSE, [ReleasePage(m, p) EXCEPT !.readFailed = TRUE])

RestorePage(m, p) ==
  IF m.slots[p] = NoSlot \/ ~m.swapFile
  THEN {Outcome(FALSE, m)}
  ELSE UNION {IF ~o.ok THEN {o}
              ELSE {Loaded(o.m, p)} \cup
                   (IF SwapReadsMayFail THEN {LoadFailed(o.m, p)} ELSE {}) :
                o \in AllocatePage(m, p)}

AccessPage(m, p) ==
  IF p \in Resident(m) THEN {Outcome(TRUE, TouchPage(m, p))}
  ELSE IF m.slots[p] = NoSlot THEN {Outcome(FALSE, m)}
  ELSE {IF o.ok THEN Outcome(TRUE, TouchPage(o.m, p)) ELSE o :
          o \in RestorePage(m, p)}

-----------------------------------------------------------------------------
(* mem2_read_sparse: a page that cannot be had reads as zero.              *)
WordOf(o, p, w) == IF o.ok THEN o.m.pages[p][w] ELSE 0

Read(p, w) ==
  \E o \in AccessPage(mem2, p) :
    /\ mem2' = o.m
    /\ reply' = <<WordOf(o, p, w)>>

ReadStraddling(p) ==
  \E o \in AccessPage(mem2, p) : \E n \in AccessPage(o.m, p + 1) :
    /\ mem2' = n.m
    /\ reply' = <<WordOf(o, p, LastWord), WordOf(n, p + 1, 0)>>

(* Mutant: a write does not mark the page dirty. *)
UpdatedClean(m, p, w, v) ==
  Outcome(TRUE, TouchPage([m EXCEPT !.pages[p][w] = v], p))

Updated(m, p, w, v) ==
  Outcome(TRUE, TouchPage([m EXCEPT !.pages[p][w] = v,
                                    !.dirty[p] = TRUE], p))

(* mem2_write_sparse: writing zero to a page never written commits no      *)
(* page; a page that can be neither had nor allocated drops the write.     *)
WriteSparse(m, p, w, v) ==
  UNION {IF o.ok THEN {Updated(o.m, p, w, v)}
         ELSE IF v = 0 /\ o.m.slots[p] = NoSlot THEN {Outcome(TRUE, o.m)}
         ELSE {IF a.ok THEN Updated(a.m, p, w, v) ELSE a :
                 a \in AllocatePage(o.m, p)} :
           o \in AccessPage(m, p)}

Write(p, w, v) ==
  \E o \in WriteSparse(mem2, p, w, v) : mem2' = o.m /\ reply' = <<>>

WriteStraddling(p, v, u) ==
  \E o \in WriteSparse(mem2, p, LastWord, v) :
    /\ \/ ~o.ok /\ mem2' = o.m
       \/ o.ok /\ \E n \in WriteSparse(o.m, p + 1, 0, u) : mem2' = n.m
    /\ reply' = <<>>

(* mem2_swap_shutdown and mem2_free_sparse, when main returns *)
Shutdown ==
  /\ mem2.running
  /\ mem2' = [mem2 EXCEPT !.pages = [p \in Pages |-> Absent],
                          !.swapFile = FALSE, !.running = FALSE]
  /\ reply' = <<>>

Access ==
  \/ \E p \in Pages, w \in Words : Read(p, w)
  \/ \E p \in Pages, w \in Words, v \in Values : Write(p, w, v)
  \/ \E p \in Pages \ {PageCount - 1} : ReadStraddling(p)
  \/ \E p \in Pages \ {PageCount - 1}, v, u \in Values :
       WriteStraddling(p, v, u)

GuestRuns == mem2.running /\ mem2.clock < MaxClock

(* mem2_initialize and mem2_swap_open: the card may refuse the file *)
PagerInit ==
  /\ \E opened \in BOOLEAN :
       mem2 = [pages |-> [p \in Pages |-> Absent],
               dirty |-> [p \in Pages |-> FALSE],
               slots |-> [p \in Pages |-> NoSlot],
               lastUse |-> [p \in Pages |-> 0],
               clock |-> 0, slotsUsed |-> 0,
               outOfMemory |-> FALSE, readFailed |-> FALSE,
               swapFile |-> opened, swap |-> [s \in Slots |-> ZeroPage],
               running |-> TRUE]
  /\ reply = <<>>

PagerNext == (GuestRuns /\ Access) \/ Shutdown

PagerSpec == PagerInit /\ [][PagerNext]_pagerVars

-----------------------------------------------------------------------------
(* What the guest would read now, if the host could be asked: a resident   *)
(* page, else the page's slot in an open swap file, else zeros.            *)
ContentsOf(m, p) ==
  IF p \in Resident(m) THEN m.pages[p]
  ELSE IF m.slots[p] # NoSlot /\ m.swapFile THEN m.swap[m.slots[p]]
  ELSE ZeroPage

Contents(m) == [p \in Pages |-> ContentsOf(m, p)]

(* The variables stay in the ranges the C types and arrays give them.      *)
PagerTypeOK ==
    /\ mem2 \in Pager
    /\ reply \in {<<>>} \cup {<<v>> : v \in Values} \cup Values \X Values

(* No two pages share a slot and no slot beyond those handed out is owned, *)
(* so a swap write never lands on another page: mem2_write_swap_page takes *)
(* slots from a counter that a failed write also turns back.               *)
OwnSlots(m) ==
  \A p \in Pages : m.slots[p] # NoSlot =>
    /\ m.slots[p] < m.slotsUsed
    /\ \A q \in Pages \ {p} : m.slots[q] # m.slots[p]

SlotsOwned == OwnSlots(mem2)

(* A resident page that has a slot and is not dirty equals its copy in the *)
(* swap file, so mem2_write_swap_page may drop it without writing it.      *)
Stored(m, p) ==
  (m.pages[p] # Absent /\ m.slots[p] # NoSlot /\ ~m.dirty[p]) =>
    m.pages[p] = m.swap[m.slots[p]]

CleanPagesAreStored == \A p \in Pages : Stored(mem2, p)

(* The pager is the plain memory of Mem2Memory until the host reports that *)
(* it ran out of memory (g_mem2_out_of_memory) or that a swap read failed  *)
(* (g_mem2_swap_failures): nothing the guest wrote is lost silently.       *)
Memory == INSTANCE Mem2Memory WITH
            guest <- Contents(mem2), reply <- reply, running <- mem2.running,
            degraded <- mem2.outOfMemory \/ mem2.readFailed

IsMemory == Memory!Spec

(* Even when the heap and the card fail, a step changes what the guest     *)
(* reads in at most the pages it writes: reclaiming, evicting and failing  *)
(* to write or restore one page never alters another one.                  *)
AccessedOnly ==
  \E p \in Pages :
    \A q \in Pages : Contents(mem2)'[q] # Contents(mem2)[q] =>
      q = p \/ (q = p + 1)

FaultsContained ==
  [][mem2'.running => AccessedOnly]_pagerVars
=============================================================================
