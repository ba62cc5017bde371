----------------------- MODULE PagerAndMailboxProofs -----------------------
(***************************************************************************)
(* Proofs about the two parts of main.c that share nothing with its other  *)
(* devices: the pager, for every number of pages, every width of the page  *)
(* clock and every combination of heap and swap faults; and the mailbox to *)
(* IOS, for every set of requests and every assignment of kinds, of a      *)
(* guest that takes a reply before it sends again.                         *)
(***************************************************************************)
EXTENDS Mem2Paging, IosIpc, TLAPS

-----------------------------------------------------------------------------
(* The pager.  The inductive invariant is WellFormed: the types, the       *)
(* ownership of slots, and that a clean page equals its copy in the file.  *)
(* One lemma per C function says what it keeps of it and of the contents   *)
(* the guest sees; one per guest access puts them together; the theorems   *)
(* follow.                                                                 *)


(* The fields no C function of the pager touches unless it reports a loss. *)
Flags(m) == <<m.outOfMemory, m.readFailed, m.swapFile, m.running>>

(* What every pager the program reaches satisfies.                         *)
WellFormed(m) == /\ m \in Pager
                 /\ OwnSlots(m)
                 /\ \A p \in Pages : Stored(m, p)

(* A page of zeros is contents, and is not the NULL of an absent page.     *)
LEMMA ZeroPageIsData == ZeroPage \in PageData /\ ZeroPage # Absent
BY ValuesAssumption, SentinelAssumption DEF ZeroPage, PageData

(* mem2_touch_page changes only the clock and the last use, in their range. *)
LEMMA TouchKeeps ==
  ASSUME NEW m \in Pager, NEW p \in Pages
  PROVE  /\ TouchPage(m, p) \in Pager
         /\ TouchPage(m, p).pages = m.pages
         /\ TouchPage(m, p).dirty = m.dirty
         /\ TouchPage(m, p).slots = m.slots
         /\ TouchPage(m, p).slotsUsed = m.slotsUsed
         /\ TouchPage(m, p).swap = m.swap
         /\ Flags(TouchPage(m, p)) = Flags(m)
  <1>1. Tick(m.clock) \in 0 .. LastTick
    BY SizeAssumption DEF Pager, Tick, LastTick
  <1>2. TouchPage(m, p) \in Pager
    BY <1>1 DEF Pager, TouchPage
  <1> QED BY <1>2 DEF TouchPage, Pager, Flags

(* mem2_reclaim_zero_pages changes nothing the guest sees, and leaves a    *)
(* page that was not resident as it was.                                   *)
LEMMA ReclaimKeeps ==
  ASSUME NEW m, WellFormed(m)
  PROVE  /\ WellFormed(ReclaimZeroPages(m))
         /\ \A p \in Pages : ContentsOf(ReclaimZeroPages(m), p) = ContentsOf(m, p)
         /\ \A p \in Pages \ Resident(m) :
              /\ ReclaimZeroPages(m).slots[p] = m.slots[p]
              /\ p \notin Resident(ReclaimZeroPages(m))
         /\ Flags(ReclaimZeroPages(m)) = Flags(m)
  <1> DEFINE n == ReclaimZeroPages(m)
  <1>1. n \in Pager
    BY DEF WellFormed, Pager, ReclaimZeroPages
  <1>2. OwnSlots(n)
    BY DEF WellFormed, Pager, ReclaimZeroPages, OwnSlots
  <1>3. \A p \in Pages : Stored(n, p)
    BY DEF WellFormed, Pager, ReclaimZeroPages, Stored
  <1>4. \A p \in Pages : ContentsOf(n, p) = ContentsOf(m, p)
    <2> TAKE p \in Pages
    <2>1. CASE m.pages[p] = ZeroPage
      BY <2>1, ZeroPageIsData DEF WellFormed, Pager, ReclaimZeroPages, ContentsOf, Resident, ZeroPages
    <2>2. CASE m.pages[p] # ZeroPage
      BY <2>2 DEF WellFormed, Pager, ReclaimZeroPages, ContentsOf, Resident, ZeroPages
    <2> QED BY <2>1, <2>2
  <1>5. Flags(n) = Flags(m)
    BY DEF WellFormed, Pager, ReclaimZeroPages, Flags
  <1>6. \A p \in Pages \ Resident(m) : n.slots[p] = m.slots[p] /\ p \notin Resident(n)
    BY ZeroPageIsData DEF WellFormed, Pager, ReclaimZeroPages, Resident, ZeroPages
  <1> QED BY <1>1, <1>2, <1>3, <1>4, <1>5, <1>6 DEF WellFormed

(* mem2_write_swap_page changes nothing the guest sees, even when the write *)
(* is torn; when it succeeds, the file holds the page.                     *)
LEMMA WriteSwapKeeps ==
  ASSUME NEW m, WellFormed(m), NEW p \in Resident(m),
         NEW o \in WriteSwapPage(m, p)
  PROVE  /\ o.ok \in BOOLEAN
         /\ WellFormed(o.m)
         /\ o.m.pages = m.pages
         /\ \A q \in Pages \ {p} : o.m.slots[q] = m.slots[q]
         /\ \A q \in Pages : ContentsOf(o.m, q) = ContentsOf(m, q)
         /\ Flags(o.m) = Flags(m)
         /\ o.ok => /\ o.m.swapFile
                    /\ o.m.slots[p] # NoSlot
                    /\ o.m.swap[o.m.slots[p]] = m.pages[p]
  <1>1. p \in Pages /\ m \in Pager /\ m.pages[p] \in PageData /\ m.pages[p] # Absent
    BY DEF Resident, WellFormed, Pager
  <1>2. CASE o = Outcome(FALSE, m)
    BY <1>2 DEF Outcome
  <1>3. CASE o = Outcome(TRUE, m) /\ m.swapFile /\ m.slots[p] # NoSlot /\ ~m.dirty[p]
    BY <1>1, <1>3 DEF Outcome, WellFormed, Stored
  <1>4. CASE /\ m.swapFile /\ m.slots[p] = NoSlot /\ m.slotsUsed < PageCount
             /\ o = Outcome(TRUE, [StoredInSlot(m, p, m.slotsUsed) EXCEPT
                                     !.slots[p] = m.slotsUsed,
                                     !.slotsUsed = m.slotsUsed + 1])
    <2> DEFINE n == o.m  s == m.slotsUsed
    <2>1. s \in Slots /\ s # NoSlot
      BY <1>1, <1>4, SizeAssumption, SentinelAssumption DEF Pager, Slots
    <2>2. /\ n.swap = [m.swap EXCEPT ![s] = m.pages[p]]
          /\ n.pages = m.pages
          /\ n.slots = [m.slots EXCEPT ![p] = s]
          /\ n.slotsUsed = s + 1
          /\ n.dirty = [m.dirty EXCEPT ![p] = FALSE]
          /\ Flags(n) = Flags(m) /\ n.swapFile = m.swapFile
          /\ o.ok = TRUE
      BY <1>1, <1>4 DEF Pager, Outcome, StoredInSlot, Flags
    <2>3. n \in Pager
      <3>1. s + 1 \in 0 .. PageCount
        BY <1>1, <1>4, SizeAssumption DEF Pager
      <3> QED BY <1>1, <1>4, <2>1, <3>1 DEF Pager, Outcome, StoredInSlot
    <2>4. \A q \in Pages \ {p} : m.slots[q] # s
      BY <1>1, <2>1 DEF WellFormed, OwnSlots, Pager
    <2>5. OwnSlots(n)
      BY <1>1, <2>2, <2>4, <2>1 DEF WellFormed, OwnSlots, Pager, Slots
    <2>6. \A q \in Pages : Stored(n, q)
      BY <1>1, <2>1, <2>2, <2>4 DEF WellFormed, Stored, Pager
    <2>7. \A q \in Pages : ContentsOf(n, q) = ContentsOf(m, q)
      BY <1>1, <2>1, <2>2, <2>4 DEF ContentsOf, Resident, Pager
    <2>8. WellFormed(n)
      BY <2>3, <2>5, <2>6 DEF WellFormed
    <2>9. n.swap[n.slots[p]] = m.pages[p] /\ \A q \in Pages \ {p} : n.slots[q] = m.slots[q]
      BY <1>1, <2>1, <2>2 DEF Pager
    <2>10. n.swapFile /\ n.slots[p] # NoSlot
      BY <1>1, <1>4, <2>1, <2>2 DEF Pager
    <2> HIDE DEF n
    <2> QED BY <2>2, <2>7, <2>8, <2>9, <2>10 DEF n
  <1>5. CASE /\ m.swapFile /\ m.slots[p] # NoSlot /\ m.dirty[p]
             /\ o = Outcome(TRUE, StoredInSlot(m, p, m.slots[p]))
    <2> DEFINE n == o.m  s == m.slots[p]
    <2>1. s \in Slots /\ s # NoSlot
      BY <1>1, <1>5 DEF Pager
    <2>2. /\ n.swap = [m.swap EXCEPT ![s] = m.pages[p]]
          /\ n.pages = m.pages
          /\ n.slots = m.slots
          /\ n.slotsUsed = m.slotsUsed
          /\ n.dirty = [m.dirty EXCEPT ![p] = FALSE]
          /\ Flags(n) = Flags(m) /\ n.swapFile = m.swapFile
          /\ o.ok = TRUE
      BY <1>1, <1>5 DEF Pager, Outcome, StoredInSlot, Flags
    <2>3. n \in Pager
      BY <1>1, <1>5, <2>1 DEF Pager, Outcome, StoredInSlot
    <2>4. \A q \in Pages \ {p} : m.slots[q] # s
      BY <1>1, <2>1 DEF WellFormed, OwnSlots
    <2>5. OwnSlots(n)
      BY <2>2 DEF WellFormed, OwnSlots
    <2>6. \A q \in Pages : Stored(n, q)
      BY <1>1, <2>1, <2>2, <2>4 DEF WellFormed, Stored, Pager
    <2>7. \A q \in Pages : ContentsOf(n, q) = ContentsOf(m, q)
      BY <1>1, <2>1, <2>2, <2>4 DEF ContentsOf, Resident, Pager
    <2>8. WellFormed(n)
      BY <2>3, <2>5, <2>6 DEF WellFormed
    <2>9. n.swap[n.slots[p]] = m.pages[p]
      BY <1>1, <2>1, <2>2 DEF Pager
    <2> QED BY <1>5, <2>1, <2>2, <2>7, <2>8, <2>9
  <1>6. ASSUME NEW s \in Slots, NEW torn \in PageData,
               o = Outcome(FALSE, [m EXCEPT !.swap[s] = torn]),
               \A q \in Pages \ {p} : m.slots[q] # s,
               m.slots[p] = s => m.dirty[p]
        PROVE  /\ o.ok = FALSE
               /\ WellFormed(o.m)
               /\ o.m.pages = m.pages
               /\ o.m.slots = m.slots
               /\ \A q \in Pages : ContentsOf(o.m, q) = ContentsOf(m, q)
               /\ Flags(o.m) = Flags(m)
    <2> DEFINE n == o.m
    <2>1. /\ n.swap = [m.swap EXCEPT ![s] = torn]
          /\ n.pages = m.pages
          /\ n.slots = m.slots
          /\ n.slotsUsed = m.slotsUsed
          /\ n.dirty = m.dirty
          /\ Flags(n) = Flags(m) /\ n.swapFile = m.swapFile
          /\ o.ok = FALSE
      BY <1>1, <1>6 DEF Pager, Outcome, Flags
    <2>2. n \in Pager
      BY <1>1, <1>6 DEF Pager, Outcome
    <2>3. OwnSlots(n)
      BY <2>1 DEF WellFormed, OwnSlots
    <2>4. \A q \in Pages : m.slots[q] = s => q = p /\ m.dirty[p]
      BY <1>6
    <2>5. \A q \in Pages : m.slots[q] # NoSlot /\ m.slots[q] # s =>
                             n.swap[m.slots[q]] = m.swap[m.slots[q]]
      BY <1>1, <2>1 DEF Pager
    <2> HIDE DEF n
    <2>6. \A q \in Pages : Stored(n, q)
      BY <2>1, <2>4, <2>5 DEF WellFormed, Stored
    <2>7. \A q \in Pages : ContentsOf(n, q) = ContentsOf(m, q)
      BY <1>1, <2>1, <2>4, <2>5 DEF ContentsOf, Resident
    <2> QED BY <2>1, <2>2, <2>3, <2>6, <2>7 DEF WellFormed, n
  <1>7. CASE o \in TornWrites(m, m.slotsUsed) /\ m.slots[p] = NoSlot /\ m.slotsUsed < PageCount
    <2>1. m.slotsUsed \in Slots /\ m.slotsUsed # NoSlot
      BY <1>1, <1>7, SizeAssumption, SentinelAssumption DEF Pager, Slots
    <2>2. \A q \in Pages \ {p} : m.slots[q] # m.slotsUsed
      BY <1>1, <2>1 DEF WellFormed, OwnSlots, Pager
    <2>3. PICK torn \in PageData : o = Outcome(FALSE, [m EXCEPT !.swap[m.slotsUsed] = torn])
      BY <1>7 DEF TornWrites
    <2> QED BY <1>6, <1>7, <2>1, <2>2, <2>3
  <1>8. CASE o \in TornWrites(m, m.slots[p]) /\ m.slots[p] # NoSlot /\ m.dirty[p]
    <2>1. m.slots[p] \in Slots
      BY <1>1, <1>8 DEF Pager
    <2>2. \A q \in Pages \ {p} : m.slots[q] # m.slots[p]
      BY <1>1, <1>8 DEF WellFormed, OwnSlots
    <2>3. PICK torn \in PageData : o = Outcome(FALSE, [m EXCEPT !.swap[m.slots[p]] = torn])
      BY <1>8 DEF TornWrites
    <2> QED BY <1>6, <1>8, <2>1, <2>2, <2>3
  <1>9. CASE ~m.swapFile
    BY <1>9, <1>2 DEF WriteSwapPage
  <1>10. CASE m.swapFile /\ m.slots[p] = NoSlot
    <2>1. CASE m.slotsUsed >= PageCount
      BY <1>10, <2>1, <1>2 DEF WriteSwapPage
    <2>2. CASE ~(m.slotsUsed >= PageCount)
      <3>1. m.slotsUsed < PageCount
        BY <1>1, <2>2, SizeAssumption DEF Pager
      <3> QED BY <1>10, <2>2, <3>1, <1>4, <1>7 DEF WriteSwapPage
    <2> QED BY <2>1, <2>2
  <1>11. CASE m.swapFile /\ m.slots[p] # NoSlot
    <2>1. CASE m.dirty[p]
      BY <1>11, <2>1, <1>5, <1>8 DEF WriteSwapPage
    <2>2. CASE ~m.dirty[p]
      BY <1>11, <2>2, <1>3 DEF WriteSwapPage
    <2> QED BY <2>1, <2>2
  <1> QED BY <1>9, <1>10, <1>11

(* n is m after the work an allocation for page x does on other pages.     *)
KeptBut(m, n, x) ==
  /\ WellFormed(n)
  /\ \A q \in Pages : ContentsOf(n, q) = ContentsOf(m, q)
  /\ Flags(n) = Flags(m)
  /\ x \notin Resident(n)
  /\ n.slots[x] = m.slots[x]

(* A page whose copy is in the open swap file may be released.             *)
LEMMA ReleaseKeeps ==
  ASSUME NEW m, WellFormed(m), NEW p \in Resident(m),
         m.swapFile, m.slots[p] # NoSlot, m.swap[m.slots[p]] = m.pages[p]
  PROVE  LET n == ReleasePage(m, p)
         IN /\ WellFormed(n)
            /\ \A q \in Pages : ContentsOf(n, q) = ContentsOf(m, q)
            /\ Flags(n) = Flags(m)
            /\ n.slots = m.slots
            /\ Resident(n) \subseteq Resident(m)
  <1> DEFINE n == ReleasePage(m, p)
  <1>1. p \in Pages /\ m \in Pager
    BY DEF Resident, WellFormed
  <1>2. /\ n.pages = [m.pages EXCEPT ![p] = Absent] /\ n.slots = m.slots
        /\ n.swap = m.swap /\ n.slotsUsed = m.slotsUsed /\ n.dirty = m.dirty
        /\ Flags(n) = Flags(m) /\ n.swapFile = m.swapFile
    BY <1>1 DEF Pager, ReleasePage, Flags
  <1>3. n \in Pager
    BY <1>1 DEF Pager, ReleasePage
  <1> HIDE DEF n
  <1>4. OwnSlots(n)
    BY <1>2 DEF WellFormed, OwnSlots
  <1>5. \A q \in Pages : n.pages[q] = IF q = p THEN Absent ELSE m.pages[q]
    BY <1>1, <1>2 DEF Pager
  <1>6. \A q \in Pages : Stored(n, q)
    BY <1>2, <1>5 DEF WellFormed, Stored
  <1>7. \A q \in Pages : ContentsOf(n, q) = ContentsOf(m, q)
    BY <1>2, <1>5 DEF ContentsOf, Resident
  <1>8. Resident(n) \subseteq Resident(m)
    BY <1>5 DEF Resident
  <1> QED BY <1>2, <1>3, <1>4, <1>6, <1>7, <1>8 DEF WellFormed, n

(* mem2_evict_page changes nothing the guest sees, and leaves the page being *)
(* allocated alone.                                                        *)
LEMMA EvictKeeps ==
  ASSUME NEW m, WellFormed(m), NEW x \in Pages \ Resident(m),
         NEW o \in EvictPage(m, x)
  PROVE  o.ok \in BOOLEAN /\ KeptBut(m, o.m, x)
  <1>1. CASE o = Outcome(FALSE, m)
    BY <1>1 DEF Outcome, KeptBut
  <1>2. CASE o # Outcome(FALSE, m)
    <2>1. PICK p \in Victims(m, x) : \E w \in WriteSwapPage(m, p) :
            o = IF w.ok THEN Outcome(TRUE, ReleasePage(w.m, p)) ELSE w
      BY <1>2 DEF EvictPage
    <2>w. PICK w \in WriteSwapPage(m, p) :
            o = IF w.ok THEN Outcome(TRUE, ReleasePage(w.m, p)) ELSE w
      BY <2>1
    <2>2. p \in Resident(m) /\ p \in Pages /\ p # x
      BY DEF Victims, Candidates, Resident
    <2>3. /\ w.ok \in BOOLEAN
          /\ WellFormed(w.m)
          /\ w.m.pages = m.pages
          /\ \A q \in Pages \ {p} : w.m.slots[q] = m.slots[q]
          /\ \A q \in Pages : ContentsOf(w.m, q) = ContentsOf(m, q)
          /\ Flags(w.m) = Flags(m)
          /\ w.ok => /\ w.m.swapFile
                     /\ w.m.slots[p] # NoSlot
                     /\ w.m.swap[w.m.slots[p]] = m.pages[p]
      BY <2>2, WriteSwapKeeps
    <2>4. Resident(w.m) = Resident(m)
      BY <2>3 DEF Resident
    <2>5. CASE ~w.ok
      BY <2>w, <2>2, <2>3, <2>4, <2>5 DEF KeptBut
    <2>6. CASE w.ok
      <3> DEFINE n == ReleasePage(w.m, p)
      <3>1. /\ WellFormed(n)
            /\ \A q \in Pages : ContentsOf(n, q) = ContentsOf(w.m, q)
            /\ Flags(n) = Flags(w.m)
            /\ n.slots = w.m.slots
            /\ Resident(n) \subseteq Resident(w.m)
        BY <2>2, <2>3, <2>4, <2>6, ReleaseKeeps
      <3>2. o.ok = TRUE /\ o.m = n
        BY <2>w, <2>6 DEF Outcome
      <3> HIDE DEF n
      <3> QED BY <2>2, <2>3, <2>4, <3>1, <3>2 DEF KeptBut
    <2> QED BY <2>3, <2>5, <2>6
  <1> QED BY <1>1, <1>2

(* mem2_allocate_page ends with the page granted or the shortage reported, *)
(* after any number of reclaims and evictions.                             *)
LEMMA AllocateOutcomes ==
  ASSUME NEW m, WellFormed(m), NEW x \in Pages \ Resident(m),
         NEW o \in AllocatePage(m, x)
  PROVE  \E n : KeptBut(m, n, x) /\ (o = Granted(n, x) \/ o = NoMemory(n))
  <1>1. KeptBut(m, m, x)
    BY DEF KeptBut
  <1>2. ASSUME NEW n, KeptBut(m, n, x), NEW e \in EvictPage(n, x)
        PROVE  e.ok \in BOOLEAN /\ KeptBut(m, e.m, x)
    <2>1. e.ok \in BOOLEAN /\ KeptBut(n, e.m, x)
      BY <1>2, EvictKeeps DEF KeptBut
    <2> QED BY <1>2, <2>1 DEF KeptBut
  <1>3. ASSUME NEW n, KeptBut(m, n, x), NEW t \in ThirdAttempt(n, x)
        PROVE  \E k : KeptBut(m, k, x) /\ (t = Granted(k, x) \/ t = NoMemory(k))
    <2>1. CASE t = Granted(n, x)
      BY <1>3, <2>1
    <2>2. CASE \E e \in EvictPage(n, x) : t = NoMemory(e.m)
      BY <1>2, <1>3, <2>2
    <2> QED BY <2>1, <2>2, <1>3 DEF ThirdAttempt
  <1>4. ASSUME NEW n, KeptBut(m, n, x), NEW t \in SecondAttempt(n, x)
        PROVE  \E k : KeptBut(m, k, x) /\ (t = Granted(k, x) \/ t = NoMemory(k))
    <2>1. CASE t = Granted(n, x)
      BY <1>4, <2>1
    <2>2. ASSUME NEW e \in EvictPage(n, x),
                 t \in (IF e.ok THEN ThirdAttempt(e.m, x) ELSE {NoMemory(e.m)})
          PROVE  \E k : KeptBut(m, k, x) /\ (t = Granted(k, x) \/ t = NoMemory(k))
      <3>1. KeptBut(m, e.m, x)
        BY <1>2, <1>4
      <3>2. CASE e.ok
        BY <1>3, <3>1, <2>2, <3>2
      <3>3. CASE ~e.ok
        BY <3>1, <2>2, <3>3
      <3> QED BY <3>2, <3>3
    <2> QED BY <2>1, <2>2, <1>4 DEF SecondAttempt
  <1>5. ASSUME NEW e, KeptBut(m, e.m, x), e.ok \in BOOLEAN,
               o \in (IF e.ok THEN SecondAttempt(e.m, x) ELSE {NoMemory(e.m)})
        PROVE  \E n : KeptBut(m, n, x) /\ (o = Granted(n, x) \/ o = NoMemory(n))
    <2>1. CASE e.ok
      BY <1>4, <1>5, <2>1
    <2>2. CASE ~e.ok
      BY <1>5, <2>2
    <2> QED BY <2>1, <2>2
  <1>6. CASE o = Granted(m, x)
    BY <1>1, <1>6
  <1>7. CASE ZeroPages(m) # {} /\
             o \in SecondAttempt(ReclaimZeroPages(m), x)
    <2>1. KeptBut(m, ReclaimZeroPages(m), x)
      BY ReclaimKeeps DEF KeptBut
    <2> QED BY <1>4, <1>7, <2>1
  <1>8. CASE \E e \in EvictPage(m, x) :
               o \in (IF e.ok THEN SecondAttempt(e.m, x) ELSE {NoMemory(e.m)})
    BY <1>1, <1>2, <1>5, <1>8
  <1> QED BY <1>6, <1>7, <1>8 DEF AllocatePage, Outcome

(* A granted page is zero; nothing else changes for the guest.  The page   *)
(* itself may differ from its copy in the file until it is loaded.         *)
LEMMA GrantedGives ==
  ASSUME NEW n, WellFormed(n), NEW x \in Pages \ Resident(n)
  PROVE  LET o == Granted(n, x) IN
         /\ o.ok = TRUE
         /\ o.m \in Pager /\ OwnSlots(o.m)
         /\ \A q \in Pages \ {x} : Stored(o.m, q)
         /\ o.m.pages[x] = ZeroPage /\ \A q \in Pages \ {x} : o.m.pages[q] = n.pages[q]
         /\ o.m.slots = n.slots /\ o.m.swap = n.swap
         /\ o.m.slotsUsed = n.slotsUsed
         /\ Flags(o.m) = Flags(n) /\ o.m.swapFile = n.swapFile
         /\ \A q \in Pages \ {x} : ContentsOf(o.m, q) = ContentsOf(n, q)
  <1> DEFINE k == [n EXCEPT !.pages[x] = ZeroPage, !.dirty[x] = FALSE]
             g == TouchPage(k, x)
  <1>1. Granted(n, x).ok = TRUE /\ Granted(n, x).m = g
    BY DEF Granted, Outcome
  <1>2. k \in Pager
    BY ZeroPageIsData DEF WellFormed, Pager
  <1>3. /\ k.pages = [n.pages EXCEPT ![x] = ZeroPage] /\ k.slots = n.slots
        /\ k.swap = n.swap /\ k.slotsUsed = n.slotsUsed
        /\ k.dirty = [n.dirty EXCEPT ![x] = FALSE]
        /\ Flags(k) = Flags(n) /\ k.swapFile = n.swapFile
    BY DEF WellFormed, Pager, Flags
  <1> HIDE DEF k
  <1>4. /\ g \in Pager
        /\ g.pages = k.pages /\ g.slots = k.slots /\ g.swap = k.swap
        /\ g.slotsUsed = k.slotsUsed /\ g.dirty = k.dirty
        /\ Flags(g) = Flags(k) /\ g.swapFile = k.swapFile
    BY <1>2, TouchKeeps DEF Flags
  <1> HIDE DEF g
  <1>5. OwnSlots(g)
    BY <1>3, <1>4 DEF WellFormed, OwnSlots
  <1>6. \A q \in Pages \ {x} : g.pages[q] = n.pages[q] /\ g.dirty[q] = n.dirty[q]
    BY <1>3, <1>4 DEF WellFormed, Pager
  <1>7. \A q \in Pages \ {x} : Stored(g, q)
    BY <1>3, <1>4, <1>6 DEF WellFormed, Stored
  <1>8. \A q \in Pages \ {x} : ContentsOf(g, q) = ContentsOf(n, q)
    BY <1>3, <1>4, <1>6 DEF ContentsOf, Resident
  <1>9. g.pages[x] = ZeroPage /\ \A q \in Pages \ {x} : g.pages[q] = n.pages[q]
    BY <1>3, <1>4 DEF WellFormed, Pager
  <1> QED BY <1>1, <1>3, <1>4, <1>5, <1>7, <1>8, <1>9

(* Loading a page from its slot gives the guest the contents of the slot.  *)
LEMMA LoadedGives ==
  ASSUME NEW g \in Pager, NEW x \in Resident(g), OwnSlots(g),
         \A q \in Pages \ {x} : Stored(g, q),
         g.slots[x] # NoSlot
  PROVE  LET o == Loaded(g, x) IN
         /\ o.ok = TRUE
         /\ WellFormed(o.m)
         /\ x \in Resident(o.m)
         /\ ContentsOf(o.m, x) = g.swap[g.slots[x]]
         /\ \A q \in Pages \ {x} : ContentsOf(o.m, q) = ContentsOf(g, q)
         /\ Flags(o.m) = Flags(g)
  <1> DEFINE k == [g EXCEPT !.pages[x] = g.swap[g.slots[x]], !.dirty[x] = FALSE]
             l == TouchPage(k, x)
  <1>1. Loaded(g, x).ok = TRUE /\ Loaded(g, x).m = l
    BY DEF Loaded, Outcome
  <1>a. x \in Pages /\ g.slots[x] \in Slots /\ g.swap[g.slots[x]] \in PageData
    BY DEF Resident, Pager
  <1>2. k \in Pager
    BY <1>a DEF Pager
  <1>3. /\ k.pages = [g.pages EXCEPT ![x] = g.swap[g.slots[x]]]
        /\ k.slots = g.slots
        /\ k.swap = g.swap /\ k.slotsUsed = g.slotsUsed
        /\ k.dirty = [g.dirty EXCEPT ![x] = FALSE]
        /\ Flags(k) = Flags(g) /\ k.swapFile = g.swapFile
    BY DEF Pager, Flags
  <1> HIDE DEF k
  <1>4. /\ l \in Pager
        /\ l.pages = k.pages /\ l.slots = k.slots /\ l.swap = k.swap
        /\ l.slotsUsed = k.slotsUsed /\ l.dirty = k.dirty
        /\ Flags(l) = Flags(k) /\ l.swapFile = k.swapFile
    BY <1>2, <1>a, TouchKeeps DEF Flags
  <1> HIDE DEF l
  <1>5. OwnSlots(l)
    BY <1>3, <1>4 DEF OwnSlots
  <1>6. /\ \A q \in Pages \ {x} : l.pages[q] = g.pages[q] /\ l.dirty[q] = g.dirty[q]
        /\ l.pages[x] = g.swap[g.slots[x]]
    BY <1>3, <1>4, <1>a DEF Pager
  <1>7. \A q \in Pages : Stored(l, q)
    BY <1>3, <1>4, <1>6 DEF Stored
  <1>8. \A q \in Pages \ {x} : ContentsOf(l, q) = ContentsOf(g, q)
    BY <1>3, <1>4, <1>6 DEF ContentsOf, Resident
  <1>9. x \in Resident(l)
    BY <1>6, <1>a, SentinelAssumption DEF Resident
  <1> QED BY <1>1, <1>3, <1>4, <1>5, <1>6, <1>7, <1>8, <1>9 DEF WellFormed, ContentsOf

(* A page with one word replaced.                                          *)
Put(d, w, v) == [d EXCEPT ![w] = v]

(* Writing a word of a resident page changes that word and nothing else.   *)
LEMMA UpdatedGives ==
  ASSUME NEW g \in Pager, NEW x \in Resident(g), OwnSlots(g),
         \A q \in Pages \ {x} : Stored(g, q),
         NEW w \in Words, NEW v \in Values
  PROVE  LET o == Updated(g, x, w, v) IN
         /\ o.ok = TRUE
         /\ WellFormed(o.m)
         /\ ContentsOf(o.m, x) = Put(g.pages[x], w, v)
         /\ \A q \in Pages \ {x} : ContentsOf(o.m, q) = ContentsOf(g, q)
         /\ Flags(o.m) = Flags(g)
  <1> DEFINE k == [g EXCEPT !.pages[x][w] = v, !.dirty[x] = TRUE]
             l == TouchPage(k, x)
             d == [g.pages[x] EXCEPT ![w] = v]
  <1>1. Updated(g, x, w, v).ok = TRUE /\ Updated(g, x, w, v).m = l
    BY DEF Updated, Outcome
  <1>a. x \in Pages /\ g.pages[x] \in PageData
    BY DEF Resident, Pager
  <1>b. d \in PageData
    BY <1>a DEF PageData
  <1>3. /\ k.pages = [g.pages EXCEPT ![x] = d]
        /\ k.slots = g.slots
        /\ k.swap = g.swap /\ k.slotsUsed = g.slotsUsed
        /\ k.dirty = [g.dirty EXCEPT ![x] = TRUE]
        /\ Flags(k) = Flags(g) /\ k.swapFile = g.swapFile
        /\ k.lastUse = g.lastUse /\ k.clock = g.clock
        /\ k.outOfMemory = g.outOfMemory /\ k.readFailed = g.readFailed
        /\ k.running = g.running
    BY DEF Pager, Flags
  <1>2. k \in Pager
    <2>1. k = [g EXCEPT !.pages = [g.pages EXCEPT ![x] = d],
                        !.dirty = [g.dirty EXCEPT ![x] = TRUE]]
      BY DEF Pager
    <2>2. [g.pages EXCEPT ![x] = d] \in [Pages -> PageData \cup {Absent}]
      BY <1>a, <1>b DEF Pager
    <2>3. [g.dirty EXCEPT ![x] = TRUE] \in [Pages -> BOOLEAN]
      BY DEF Pager
    <2> HIDE DEF d
    <2> QED BY <2>1, <2>2, <2>3 DEF Pager
  <1> HIDE DEF k
  <1>4. /\ l \in Pager
        /\ l.pages = k.pages /\ l.slots = k.slots /\ l.swap = k.swap
        /\ l.slotsUsed = k.slotsUsed /\ l.dirty = k.dirty
        /\ Flags(l) = Flags(k) /\ l.swapFile = k.swapFile
    BY <1>2, <1>a, TouchKeeps DEF Flags
  <1> HIDE DEF l
  <1>5. OwnSlots(l)
    BY <1>3, <1>4 DEF OwnSlots
  <1>6. /\ \A q \in Pages \ {x} : l.pages[q] = g.pages[q] /\ l.dirty[q] = g.dirty[q]
        /\ l.pages[x] = d /\ l.dirty[x] = TRUE
    BY <1>3, <1>4, <1>a DEF Pager
  <1>7. \A q \in Pages : Stored(l, q)
    BY <1>3, <1>4, <1>6 DEF Stored
  <1>8. \A q \in Pages \ {x} : ContentsOf(l, q) = ContentsOf(g, q)
    BY <1>3, <1>4, <1>6 DEF ContentsOf, Resident
  <1>9. ContentsOf(l, x) = d
    BY <1>6, <1>a, <1>b, SentinelAssumption DEF ContentsOf, Resident
  <1> QED BY <1>1, <1>3, <1>4, <1>5, <1>7, <1>8, <1>9 DEF WellFormed, Put

(* The host has reported a loss.                                           *)
Degraded(m) == m.outOfMemory \/ m.readFailed

(* What any guest access keeps of the flags: a reported loss stays reported. *)
Later(m, n) == /\ Degraded(m) => Degraded(n)
               /\ n.running = m.running
               /\ n.swapFile = m.swapFile

(* A reported shortage changes nothing the guest sees.                     *)
LEMMA NoMemoryGives ==
  ASSUME NEW n, WellFormed(n)
  PROVE  LET o == NoMemory(n) IN
         /\ o.ok = FALSE
         /\ WellFormed(o.m)
         /\ Resident(o.m) = Resident(n)
         /\ o.m.slots = n.slots
         /\ \A q \in Pages : ContentsOf(o.m, q) = ContentsOf(n, q)
         /\ o.m.outOfMemory /\ Later(n, o.m)
  <1> DEFINE f == [n EXCEPT !.outOfMemory = TRUE]
  <1>1. NoMemory(n).ok = FALSE /\ NoMemory(n).m = f
    BY DEF NoMemory, Outcome
  <1>2. /\ f \in Pager /\ f.pages = n.pages /\ f.slots = n.slots /\ f.swap = n.swap
        /\ f.slotsUsed = n.slotsUsed /\ f.dirty = n.dirty /\ f.outOfMemory = TRUE
        /\ f.running = n.running /\ f.swapFile = n.swapFile
    BY DEF WellFormed, Pager
  <1> HIDE DEF f
  <1>3. OwnSlots(f)
    BY <1>2 DEF WellFormed, OwnSlots
  <1>4. \A q \in Pages : Stored(f, q)
    BY <1>2 DEF WellFormed, Stored
  <1>5. \A q \in Pages : ContentsOf(f, q) = ContentsOf(n, q)
    BY <1>2 DEF ContentsOf, Resident
  <1> QED BY <1>1, <1>2, <1>3, <1>4, <1>5 DEF WellFormed, Later, Degraded, Resident

(* A short read of the swap file is reported, and the page given up again  *)
(* is still in its slot.                                                   *)
LEMMA LoadFailedGives ==
  ASSUME NEW n, WellFormed(n), NEW x \in Pages \ Resident(n), n.swapFile,
         n.slots[x] # NoSlot
  PROVE  LET o == LoadFailed(Granted(n, x).m, x) IN
         /\ o.ok = FALSE
         /\ WellFormed(o.m)
         /\ x \notin Resident(o.m)
         /\ \A q \in Pages : ContentsOf(o.m, q) = ContentsOf(n, q)
         /\ o.m.readFailed /\ Later(n, o.m)
  <1> DEFINE g == Granted(n, x).m
             f == [ReleasePage(g, x) EXCEPT !.readFailed = TRUE]
  <1>1. LoadFailed(g, x).ok = FALSE /\ LoadFailed(g, x).m = f
    BY DEF LoadFailed, Outcome
  <1>2. /\ g \in Pager /\ OwnSlots(g)
        /\ \A q \in Pages \ {x} : Stored(g, q)
        /\ g.pages[x] = ZeroPage /\ \A q \in Pages \ {x} : g.pages[q] = n.pages[q]
        /\ g.slots = n.slots /\ g.swap = n.swap
        /\ g.slotsUsed = n.slotsUsed
        /\ Flags(g) = Flags(n) /\ g.swapFile = n.swapFile
    BY GrantedGives
  <1> HIDE DEF g
  <1>3. f.pages = [g.pages EXCEPT ![x] = Absent] /\ f.slots = g.slots /\ f.swap = g.swap
        /\ f.slotsUsed = g.slotsUsed /\ f.dirty = g.dirty /\ f.readFailed = TRUE
        /\ f.running = g.running /\ f.swapFile = g.swapFile /\ f \in Pager
    BY <1>2 DEF ReleasePage, Pager
  <1> HIDE DEF f
  <1>4. OwnSlots(f)
    BY <1>2, <1>3 DEF OwnSlots
  <1>5. /\ \A q \in Pages \ {x} : f.pages[q] = g.pages[q] /\ f.pages[q] = n.pages[q]
        /\ f.pages[x] = Absent
    BY <1>2, <1>3 DEF Pager, WellFormed
  <1>6. \A q \in Pages : Stored(f, q)
    BY <1>2, <1>3, <1>5 DEF Stored
  <1>7. \A q \in Pages : ContentsOf(f, q) = ContentsOf(n, q)
    BY <1>2, <1>3, <1>5 DEF ContentsOf, Resident
  <1>8. x \notin Resident(f)
    BY <1>5 DEF Resident
  <1>9. Later(n, f)
    BY <1>2, <1>3 DEF Later, Degraded, Flags
  <1> QED BY <1>1, <1>3, <1>4, <1>6, <1>7, <1>8, <1>9 DEF WellFormed, g

(* mem2_restore_page never changes what the guest sees; when it fails, the *)
(* loss is reported or the page is zero for the guest.                     *)
LEMMA RestoreGives ==
  ASSUME NEW m, WellFormed(m), NEW x \in Pages \ Resident(m), m.slots[x] # NoSlot,
         NEW o \in RestorePage(m, x)
  PROVE  /\ o.ok \in BOOLEAN
         /\ WellFormed(o.m)
         /\ \A q \in Pages : ContentsOf(o.m, q) = ContentsOf(m, q)
         /\ Later(m, o.m)
         /\ o.ok <=> x \in Resident(o.m)
         /\ ~o.ok => Degraded(o.m) \/ ContentsOf(m, x) = ZeroPage
  <1>1. CASE ~m.swapFile
    <2>1. o = Outcome(FALSE, m)
      BY <1>1 DEF RestorePage
    <2> QED BY <1>1, <2>1 DEF Outcome, Later, ContentsOf
  <1>2. CASE m.swapFile
    <2>1. PICK a \in AllocatePage(m, x) :
            o \in (IF ~a.ok THEN {a}
                   ELSE {Loaded(a.m, x)} \cup
                        (IF SwapReadsMayFail THEN {LoadFailed(a.m, x)} ELSE {}))
      BY <1>2 DEF RestorePage
    <2>2. PICK n : KeptBut(m, n, x) /\ (a = Granted(n, x) \/ a = NoMemory(n))
      BY AllocateOutcomes
    <2>3. /\ WellFormed(n) /\ x \in Pages \ Resident(n)
          /\ n.slots[x] = m.slots[x] /\ Flags(n) = Flags(m)
          /\ \A q \in Pages : ContentsOf(n, q) = ContentsOf(m, q)
      BY <2>2 DEF KeptBut
    <2>4. n.swapFile /\ Later(m, n) /\ n.slots[x] # NoSlot
      BY <1>2, <2>3 DEF Flags, Later, Degraded
    <2>5. CASE a = NoMemory(n)
      <3>1. /\ a.ok = FALSE /\ WellFormed(a.m) /\ Resident(a.m) = Resident(n)
            /\ \A q \in Pages : ContentsOf(a.m, q) = ContentsOf(n, q)
            /\ a.m.outOfMemory /\ Later(n, a.m)
        BY <2>3, <2>5, NoMemoryGives
      <3>2. o = a
        BY <2>1, <3>1
      <3> QED BY <2>3, <2>4, <3>1, <3>2 DEF Later, Degraded
    <2>6. CASE a = Granted(n, x)
      <3> DEFINE g == Granted(n, x)
      <3>1. /\ g.ok = TRUE
            /\ g.m \in Pager /\ OwnSlots(g.m)
            /\ \A q \in Pages \ {x} : Stored(g.m, q)
            /\ g.m.pages[x] = ZeroPage /\ \A q \in Pages \ {x} : g.m.pages[q] = n.pages[q]
            /\ g.m.slots = n.slots /\ g.m.swap = n.swap
            /\ Flags(g.m) = Flags(n) /\ g.m.swapFile = n.swapFile
            /\ \A q \in Pages \ {x} : ContentsOf(g.m, q) = ContentsOf(n, q)
        BY <2>3, GrantedGives, ZenonT(60)
      <3>a. a = g
        BY <2>6
      <3> HIDE DEF g
      <3>2. x \in Resident(g.m)
        BY <2>3, <3>1, ZeroPageIsData DEF Resident, Pager, WellFormed
      <3>3. CASE o = Loaded(g.m, x)
        <4>1. /\ o.ok = TRUE
              /\ WellFormed(o.m)
              /\ x \in Resident(o.m)
              /\ ContentsOf(o.m, x) = g.m.swap[g.m.slots[x]]
              /\ \A q \in Pages \ {x} : ContentsOf(o.m, q) = ContentsOf(g.m, q)
              /\ Flags(o.m) = Flags(g.m)
          BY <2>4, <3>1, <3>2, <3>3, LoadedGives, ZenonT(60)
        <4>2. ContentsOf(n, x) = n.swap[n.slots[x]]
          BY <2>3, <2>4 DEF ContentsOf
        <4>3. \A q \in Pages : ContentsOf(o.m, q) = ContentsOf(m, q)
          BY <2>3, <3>1, <4>1, <4>2
        <4>4. Later(m, o.m)
          BY <2>3, <3>1, <4>1 DEF Later, Degraded, Flags
        <4> QED BY <4>1, <4>3, <4>4
      <3>4. CASE o = LoadFailed(g.m, x)
        <4>1. /\ o.ok = FALSE /\ WellFormed(o.m) /\ x \notin Resident(o.m)
              /\ \A q \in Pages : ContentsOf(o.m, q) = ContentsOf(n, q)
              /\ o.m.readFailed /\ Later(n, o.m)
          BY <2>3, <2>4, <3>4, LoadFailedGives DEF g
        <4> QED BY <2>3, <2>4, <4>1 DEF Later, Degraded
      <3> QED BY <2>1, <3>a, <3>1, <3>3, <3>4
    <2> QED BY <2>2, <2>5, <2>6
  <1> QED BY <1>1, <1>2

(* mem2_access_page never changes what the guest sees; when it yields no   *)
(* page, the loss is reported or the page is zero for the guest.           *)
LEMMA AccessKeeps ==
  ASSUME NEW m, WellFormed(m), NEW x \in Pages, NEW o \in AccessPage(m, x)
  PROVE  /\ o.ok \in BOOLEAN
         /\ WellFormed(o.m)
         /\ \A q \in Pages : ContentsOf(o.m, q) = ContentsOf(m, q)
         /\ Later(m, o.m)
         /\ o.ok <=> x \in Resident(o.m)
         /\ ~o.ok => Degraded(o.m) \/ ContentsOf(m, x) = ZeroPage
  <1>1. ASSUME NEW n, WellFormed(n), x \in Resident(n)
        PROVE  LET t == TouchPage(n, x)
               IN /\ WellFormed(t)
                  /\ \A q \in Pages : ContentsOf(t, q) = ContentsOf(n, q)
                  /\ Later(n, t) /\ x \in Resident(t)
    <2> DEFINE t == TouchPage(n, x)
    <2>1. /\ t \in Pager /\ t.pages = n.pages /\ t.dirty = n.dirty
          /\ t.slots = n.slots /\ t.slotsUsed = n.slotsUsed /\ t.swap = n.swap
          /\ Flags(t) = Flags(n) /\ t.swapFile = n.swapFile
      BY <1>1, TouchKeeps DEF WellFormed, Flags
    <2> HIDE DEF t
    <2>2. WellFormed(t)
      BY <1>1, <2>1 DEF WellFormed, OwnSlots, Stored
    <2>3. \A q \in Pages : ContentsOf(t, q) = ContentsOf(n, q)
      BY <2>1 DEF ContentsOf, Resident
    <2> QED BY <1>1, <2>1, <2>2, <2>3 DEF Later, Degraded, Flags, Resident, t
  <1>2. CASE x \in Resident(m)
    <2>1. o.ok = TRUE /\ o.m = TouchPage(m, x)
      BY <1>2 DEF AccessPage, Outcome
    <2> QED BY <1>1, <1>2, <2>1
  <1>3. CASE x \notin Resident(m) /\ m.slots[x] = NoSlot
    <2>1. o.ok = FALSE /\ o.m = m
      BY <1>3 DEF AccessPage, Outcome
    <2> QED BY <1>3, <2>1 DEF Later, ContentsOf
  <1>4. CASE x \notin Resident(m) /\ m.slots[x] # NoSlot
    <2>1. PICK r \in RestorePage(m, x) :
            o = IF r.ok THEN Outcome(TRUE, TouchPage(r.m, x)) ELSE r
      BY <1>4 DEF AccessPage
    <2>2. /\ r.ok \in BOOLEAN
          /\ WellFormed(r.m)
          /\ \A q \in Pages : ContentsOf(r.m, q) = ContentsOf(m, q)
          /\ Later(m, r.m)
          /\ r.ok <=> x \in Resident(r.m)
          /\ ~r.ok => Degraded(r.m) \/ ContentsOf(m, x) = ZeroPage
      BY <1>4, RestoreGives
    <2>3. CASE ~r.ok
      BY <2>1, <2>2, <2>3
    <2>4. CASE r.ok
      <3>1. o.ok = TRUE /\ o.m = TouchPage(r.m, x)
        BY <2>1, <2>4 DEF Outcome
      <3> QED BY <1>1, <2>2, <2>4, <3>1 DEF Later
    <2> QED BY <2>2, <2>3, <2>4
  <1> QED BY <1>2, <1>3, <1>4

(* mem2_write_sparse writes the word it was given, or reports the loss, and *)
(* changes no other page.                                                  *)
LEMMA WriteKeeps ==
  ASSUME NEW m, WellFormed(m), NEW x \in Pages, NEW w \in Words, NEW v \in Values,
         NEW o \in WriteSparse(m, x, w, v)
  PROVE  /\ o.ok \in BOOLEAN
         /\ WellFormed(o.m)
         /\ \A q \in Pages \ {x} : ContentsOf(o.m, q) = ContentsOf(m, q)
         /\ Later(m, o.m)
         /\ ~o.ok => Degraded(o.m)
         /\ ~Degraded(o.m) =>
              ContentsOf(o.m, x) = Put(ContentsOf(m, x), w, v)
  <1>1. PICK a \in AccessPage(m, x) :
          o \in (IF a.ok THEN {Updated(a.m, x, w, v)}
                 ELSE IF v = 0 /\ a.m.slots[x] = NoSlot
                 THEN {Outcome(TRUE, a.m)}
                 ELSE {IF b.ok THEN Updated(b.m, x, w, v) ELSE b :
                         b \in AllocatePage(a.m, x)})
    BY DEF WriteSparse
  <1>2. /\ a.ok \in BOOLEAN
        /\ WellFormed(a.m)
        /\ \A q \in Pages : ContentsOf(a.m, q) = ContentsOf(m, q)
        /\ Later(m, a.m)
        /\ a.ok <=> x \in Resident(a.m)
        /\ ~a.ok => Degraded(a.m) \/ ContentsOf(m, x) = ZeroPage
    BY AccessKeeps
  <1>3. CASE a.ok
    <2>1. o = Updated(a.m, x, w, v)
      BY <1>1, <1>3
    <2> DEFINE k == a.m
               u == Updated(k, x, w, v)
    <2>2. /\ k \in Pager /\ OwnSlots(k)
          /\ \A q \in Pages \ {x} : Stored(k, q)
      BY <1>2, <1>3 DEF WellFormed
    <2>r. x \in Resident(k)
      BY <1>2, <1>3
    <2>c. ContentsOf(k, x) = k.pages[x]
      BY <2>r DEF ContentsOf
    <2>k. k = a.m
      OBVIOUS
    <2> HIDE DEF k
    <2>4. o = u
      BY <2>1, <2>k
    <2> HIDE DEF u
    <2>u. u = Updated(k, x, w, v)
      BY DEF u
    <2>3. /\ u.ok = TRUE
          /\ WellFormed(u.m)
          /\ ContentsOf(u.m, x) = Put(k.pages[x], w, v)
          /\ \A q \in Pages \ {x} : ContentsOf(u.m, q) = ContentsOf(k, q)
          /\ Flags(u.m) = Flags(k)
      <3>1. LET o2 == Updated(k, x, w, v) IN
            /\ o2.ok = TRUE
            /\ WellFormed(o2.m)
            /\ ContentsOf(o2.m, x) = Put(k.pages[x], w, v)
            /\ \A q \in Pages \ {x} : ContentsOf(o2.m, q) = ContentsOf(k, q)
            /\ Flags(o2.m) = Flags(k)
        BY <2>2, <2>r, UpdatedGives
      <3> QED
        BY <2>u, <3>1
    <2>5. ContentsOf(u.m, x) = Put(ContentsOf(m, x), w, v)
      <3>1. k.pages[x] = ContentsOf(m, x)
        BY <1>2, <2>c, <2>k
      <3> QED BY <2>3, <3>1
    <2>6. Later(m, u.m)
      BY <1>2, <2>3, <2>k DEF Later, Degraded, Flags
    <2> QED BY <1>2, <2>k, <2>3, <2>4, <2>5, <2>6
  <1>4. CASE ~a.ok /\ v = 0 /\ a.m.slots[x] = NoSlot
    <2>1. o.ok = TRUE /\ o.m = a.m
      BY <1>1, <1>4 DEF Outcome
    <2>2. Put(ZeroPage, w, 0) = ZeroPage
      BY DEF ZeroPage, Put
    <2>3. ~Degraded(o.m) => ContentsOf(o.m, x) = ZeroPage /\ ContentsOf(m, x) = ZeroPage
      BY <1>2, <1>4, <2>1
    <2>4. ~Degraded(o.m) => ContentsOf(o.m, x) = Put(ContentsOf(m, x), w, v)
      BY <1>4, <2>2, <2>3
    <2> QED BY <1>2, <2>1, <2>4
  <1>5. CASE ~a.ok /\ ~(v = 0 /\ a.m.slots[x] = NoSlot)
    <2>1. PICK b \in AllocatePage(a.m, x) :
            o = IF b.ok THEN Updated(b.m, x, w, v) ELSE b
      BY <1>1, <1>5
    <2>2. x \in Pages \ Resident(a.m)
      BY <1>2, <1>5
    <2>3. PICK n : KeptBut(a.m, n, x) /\ (b = Granted(n, x) \/ b = NoMemory(n))
      BY <1>2, <2>2, AllocateOutcomes
    <2>4. /\ WellFormed(n) /\ x \in Pages \ Resident(n)
          /\ \A q \in Pages : ContentsOf(n, q) = ContentsOf(m, q)
          /\ Later(m, n)
      BY <1>2, <2>3 DEF KeptBut, Later, Degraded, Flags
    <2>5. CASE b = NoMemory(n)
      <3> DEFINE f == NoMemory(n)
      <3>1. /\ f.ok = FALSE /\ WellFormed(f.m)
            /\ \A q \in Pages : ContentsOf(f.m, q) = ContentsOf(n, q)
            /\ f.m.outOfMemory /\ Later(n, f.m)
        BY <2>4, NoMemoryGives
      <3>2. o = f
        BY <2>1, <2>5, <3>1
      <3> HIDE DEF f
      <3> QED BY <2>4, <3>1, <3>2 DEF Later, Degraded
    <2>6. CASE b = Granted(n, x)
      <3> DEFINE g == Granted(n, x)
      <3>1. /\ g.ok = TRUE
            /\ g.m \in Pager /\ OwnSlots(g.m)
            /\ \A q \in Pages \ {x} : Stored(g.m, q)
            /\ g.m.pages[x] = ZeroPage
            /\ Flags(g.m) = Flags(n)
            /\ \A q \in Pages \ {x} : ContentsOf(g.m, q) = ContentsOf(n, q)
        BY <2>4, GrantedGives
      <3>2. b = g
        BY <2>6
      <3> HIDE DEF g
      <3>3. x \in Resident(g.m)
        BY <3>1, ZeroPageIsData DEF Resident
      <3> DEFINE u == Updated(g.m, x, w, v)
      <3>4. /\ u.ok = TRUE
            /\ WellFormed(u.m)
            /\ ContentsOf(u.m, x) = Put(g.m.pages[x], w, v)
            /\ \A q \in Pages \ {x} : ContentsOf(u.m, q) = ContentsOf(g.m, q)
            /\ Flags(u.m) = Flags(g.m)
        BY <3>1, <3>3, UpdatedGives
      <3>5. o = u
        BY <2>1, <3>1, <3>2
      <3> HIDE DEF u
      <3>6. Later(m, u.m) /\ (Degraded(a.m) => Degraded(u.m))
        BY <2>3, <2>4, <3>1, <3>4 DEF Later, Degraded, Flags, KeptBut
      <3>7. ~Degraded(u.m) => ContentsOf(u.m, x) = Put(ContentsOf(m, x), w, v)
        <4>1. ~Degraded(u.m) => ContentsOf(m, x) = g.m.pages[x]
          BY <1>2, <1>5, <3>1, <3>6
        <4> QED BY <3>4, <4>1
      <3> QED BY <2>4, <3>1, <3>4, <3>5, <3>6, <3>7
    <2> QED BY <2>3, <2>5, <2>6
  <1> QED BY <1>2, <1>3, <1>4, <1>5

-----------------------------------------------------------------------------
(* The inductive invariant.                                                *)
PagerIInv == WellFormed(mem2) /\ PagerTypeOK

(* What every guest access does, whatever the heap and the card answer.    *)
Safe(m, n) == WellFormed(n) /\ Later(m, n)

(* The word a read returns is the one the guest sees there, or the loss is *)
(* reported.                                                               *)
LEMMA WordIsValue ==
  ASSUME NEW m, WellFormed(m), NEW x \in Pages, NEW w \in Words,
         NEW o \in AccessPage(m, x)
  PROVE  /\ WordOf(o, x, w) \in Values
         /\ ~Degraded(o.m) => WordOf(o, x, w) = ContentsOf(m, x)[w]
  <1>1. /\ o.ok \in BOOLEAN
        /\ WellFormed(o.m)
        /\ ContentsOf(o.m, x) = ContentsOf(m, x)
        /\ o.ok <=> x \in Resident(o.m)
        /\ ~o.ok => Degraded(o.m) \/ ContentsOf(m, x) = ZeroPage
    BY AccessKeeps
  <1>2. CASE o.ok
    <2>1. o.m.pages[x] \in PageData /\ ContentsOf(m, x) = o.m.pages[x]
      BY <1>1, <1>2 DEF WellFormed, Pager, Resident, ContentsOf
    <2> QED BY <1>2, <2>1 DEF WordOf, PageData
  <1>3. CASE ~o.ok
    BY <1>1, <1>3, ValuesAssumption DEF WordOf, ZeroPage
  <1> QED BY <1>1, <1>2, <1>3

(* A read within a page changes nothing and returns the word.              *)
LEMMA ReadStep ==
  ASSUME PagerIInv, NEW p \in Pages, NEW w \in Words, Read(p, w)
  PROVE  /\ Safe(mem2, mem2')
         /\ reply' \in {<<v>> : v \in Values}
         /\ \A q \in Pages : ContentsOf(mem2', q) = ContentsOf(mem2, q)
         /\ ~Degraded(mem2') => reply' = <<ContentsOf(mem2, p)[w]>>
  <1>1. PICK o \in AccessPage(mem2, p) : mem2' = o.m /\ reply' = <<WordOf(o, p, w)>>
    BY DEF Read
  <1>2. WellFormed(mem2)
    BY DEF PagerIInv
  <1>3. /\ WellFormed(o.m) /\ Later(mem2, o.m)
        /\ \A q \in Pages : ContentsOf(o.m, q) = ContentsOf(mem2, q)
    BY <1>2, AccessKeeps
  <1>4. /\ WordOf(o, p, w) \in Values
        /\ ~Degraded(o.m) => WordOf(o, p, w) = ContentsOf(mem2, p)[w]
    BY <1>2, WordIsValue
  <1> QED BY <1>1, <1>3, <1>4 DEF Safe

(* A read over a page boundary changes nothing and returns both words, even *)
(* when restoring the second page evicts the first.                        *)
LEMMA ReadStraddlingStep ==
  ASSUME PagerIInv, NEW p \in Pages \ {PageCount - 1}, ReadStraddling(p)
  PROVE  /\ Safe(mem2, mem2')
         /\ reply' \in Values \X Values
         /\ \A q \in Pages : ContentsOf(mem2', q) = ContentsOf(mem2, q)
         /\ ~Degraded(mem2') =>
              reply' = <<ContentsOf(mem2, p)[LastWord], ContentsOf(mem2, p + 1)[0]>>
  <1>1. PICK o \in AccessPage(mem2, p) :
          \E n \in AccessPage(o.m, p + 1) :
            /\ mem2' = n.m
            /\ reply' = <<WordOf(o, p, LastWord), WordOf(n, p + 1, 0)>>
    BY DEF ReadStraddling
  <1>2. PICK n \in AccessPage(o.m, p + 1) :
            /\ mem2' = n.m
            /\ reply' = <<WordOf(o, p, LastWord), WordOf(n, p + 1, 0)>>
    BY <1>1
  <1>3. WellFormed(mem2)
    BY DEF PagerIInv
  <1>4. p \in Pages /\ p + 1 \in Pages /\ LastWord \in Words /\ 0 \in Words
    BY SizeAssumption DEF Pages, Words, LastWord
  <1>5. /\ WellFormed(o.m) /\ Later(mem2, o.m)
        /\ \A q \in Pages : ContentsOf(o.m, q) = ContentsOf(mem2, q)
    BY <1>3, <1>4, AccessKeeps
  <1>6. /\ WellFormed(n.m) /\ Later(o.m, n.m)
        /\ \A q \in Pages : ContentsOf(n.m, q) = ContentsOf(o.m, q)
    BY <1>4, <1>5, AccessKeeps
  <1>7. /\ WordOf(o, p, LastWord) \in Values
        /\ ~Degraded(o.m) => WordOf(o, p, LastWord) = ContentsOf(mem2, p)[LastWord]
    BY <1>3, <1>4, WordIsValue
  <1>8. /\ WordOf(n, p + 1, 0) \in Values
        /\ ~Degraded(n.m) => WordOf(n, p + 1, 0) = ContentsOf(o.m, p + 1)[0]
    BY <1>4, <1>5, WordIsValue
  <1>9. Later(mem2, n.m)
    BY <1>5, <1>6 DEF Later
  <1>10. ~Degraded(n.m) =>
           /\ WordOf(o, p, LastWord) = ContentsOf(mem2, p)[LastWord]
           /\ WordOf(n, p + 1, 0) = ContentsOf(mem2, p + 1)[0]
    BY <1>4, <1>5, <1>6, <1>7, <1>8 DEF Later
  <1> QED BY <1>2, <1>5, <1>6, <1>7, <1>8, <1>9, <1>10 DEF Safe

(* A write within a page changes that word alone.                          *)
LEMMA WriteStep ==
  ASSUME PagerIInv, NEW p \in Pages, NEW w \in Words, NEW v \in Values, Write(p, w, v)
  PROVE  /\ Safe(mem2, mem2')
         /\ reply' = <<>>
         /\ \A q \in Pages \ {p} : ContentsOf(mem2', q) = ContentsOf(mem2, q)
         /\ ~Degraded(mem2') => ContentsOf(mem2', p) = Put(ContentsOf(mem2, p), w, v)
  <1>1. PICK o \in WriteSparse(mem2, p, w, v) : mem2' = o.m /\ reply' = <<>>
    BY DEF Write
  <1>2. WellFormed(mem2)
    BY DEF PagerIInv
  <1>3. /\ WellFormed(o.m) /\ Later(mem2, o.m)
        /\ \A q \in Pages \ {p} : ContentsOf(o.m, q) = ContentsOf(mem2, q)
        /\ ~Degraded(o.m) => ContentsOf(o.m, p) = Put(ContentsOf(mem2, p), w, v)
    BY <1>2, WriteKeeps
  <1> QED BY <1>1, <1>3 DEF Safe

(* A write over a page boundary changes those two words alone.             *)
LEMMA WriteStraddlingStep ==
  ASSUME PagerIInv, NEW p \in Pages \ {PageCount - 1}, NEW v \in Values, NEW u \in Values,
         WriteStraddling(p, v, u)
  PROVE  /\ Safe(mem2, mem2')
         /\ reply' = <<>>
         /\ \A q \in Pages \ {p, p + 1} : ContentsOf(mem2', q) = ContentsOf(mem2, q)
         /\ ~Degraded(mem2') =>
              /\ ContentsOf(mem2', p) = Put(ContentsOf(mem2, p), LastWord, v)
              /\ ContentsOf(mem2', p + 1) = Put(ContentsOf(mem2, p + 1), 0, u)
  <1>1. PICK o \in WriteSparse(mem2, p, LastWord, v) :
          \/ ~o.ok /\ mem2' = o.m
          \/ o.ok /\ \E n \in WriteSparse(o.m, p + 1, 0, u) : mem2' = n.m
    BY DEF WriteStraddling
  <1>2. WellFormed(mem2)
    BY DEF PagerIInv
  <1>3. /\ p \in Pages /\ p + 1 \in Pages /\ p + 1 # p
        /\ LastWord \in Words /\ 0 \in Words
    BY SizeAssumption DEF Pages, Words, LastWord
  <1>4. /\ WellFormed(o.m) /\ Later(mem2, o.m)
        /\ \A q \in Pages \ {p} : ContentsOf(o.m, q) = ContentsOf(mem2, q)
        /\ ~o.ok => Degraded(o.m)
        /\ ~Degraded(o.m) => ContentsOf(o.m, p) = Put(ContentsOf(mem2, p), LastWord, v)
    BY <1>2, <1>3, WriteKeeps
  <1>r. reply' = <<>>
    BY DEF WriteStraddling
  <1>5. CASE ~o.ok /\ mem2' = o.m
    BY <1>3, <1>4, <1>5, <1>r DEF Safe
  <1>6. CASE o.ok /\ \E n \in WriteSparse(o.m, p + 1, 0, u) : mem2' = n.m
    <2>1. PICK n \in WriteSparse(o.m, p + 1, 0, u) : mem2' = n.m
      BY <1>6
    <2>2. /\ WellFormed(n.m) /\ Later(o.m, n.m)
          /\ \A q \in Pages \ {p + 1} : ContentsOf(n.m, q) = ContentsOf(o.m, q)
          /\ ~Degraded(n.m) => ContentsOf(n.m, p + 1) = Put(ContentsOf(o.m, p + 1), 0, u)
      BY <1>3, <1>4, WriteKeeps
    <2>3. Later(mem2, n.m)
      BY <1>4, <2>2 DEF Later
    <2>4. ~Degraded(n.m) => ~Degraded(o.m)
      BY <2>2 DEF Later
    <2> QED BY <1>3, <1>4, <1>r, <2>1, <2>2, <2>3, <2>4 DEF Safe
  <1> QED BY <1>1, <1>5, <1>6

(* After the shutdown there is no memory.                                  *)
LEMMA ShutdownStep ==
  ASSUME PagerIInv, Shutdown
  PROVE  /\ WellFormed(mem2')
         /\ reply' = <<>> /\ mem2.running /\ mem2'.running = FALSE
         /\ \A q \in Pages : ContentsOf(mem2', q) = ZeroPage
         /\ mem2'.outOfMemory = mem2.outOfMemory
         /\ mem2'.readFailed = mem2.readFailed
  <1> DEFINE n == [mem2 EXCEPT !.pages = [p \in Pages |-> Absent],
                               !.swapFile = FALSE, !.running = FALSE]
  <1>1. mem2' = n /\ reply' = <<>> /\ mem2.running
    BY DEF Shutdown
  <1>2. /\ n \in Pager /\ n.slots = mem2.slots /\ n.slotsUsed = mem2.slotsUsed
        /\ n.swapFile = FALSE /\ n.running = FALSE
        /\ n.outOfMemory = mem2.outOfMemory /\ n.readFailed = mem2.readFailed
        /\ \A p \in Pages : n.pages[p] = Absent
    BY DEF PagerIInv, WellFormed, Pager
  <1> HIDE DEF n
  <1>3. OwnSlots(n) /\ \A p \in Pages : Stored(n, p)
    BY <1>2 DEF PagerIInv, WellFormed, OwnSlots, Stored
  <1>4. \A q \in Pages : ContentsOf(n, q) = ZeroPage
    BY <1>2 DEF ContentsOf, Resident
  <1> QED BY <1>1, <1>2, <1>3, <1>4 DEF WellFormed

(* The inductive invariant holds in every state the program reaches.       *)
THEOREM PagerInvariance == PagerSpec => []PagerIInv
  <1>1. PagerInit => PagerIInv
    <2> SUFFICES ASSUME PagerInit PROVE PagerIInv
      OBVIOUS
    <2>1. mem2 \in Pager
      BY SizeAssumption, ZeroPageIsData DEF PagerInit, Pager, LastTick
    <2>2. /\ \A p \in Pages : mem2.slots[p] = NoSlot /\ mem2.pages[p] = Absent
          /\ reply = <<>>
      BY DEF PagerInit
    <2>3. OwnSlots(mem2) /\ \A p \in Pages : Stored(mem2, p)
      BY <2>2 DEF OwnSlots, Stored
    <2> QED BY <2>1, <2>2, <2>3 DEF PagerIInv, WellFormed, PagerTypeOK
  <1>2. PagerIInv /\ [PagerNext]_pagerVars => PagerIInv'
    <2> SUFFICES ASSUME PagerIInv, [PagerNext]_pagerVars PROVE PagerIInv'
      OBVIOUS
    <2>1. ASSUME WellFormed(mem2'),
                 \/ reply' = <<>> \/ reply' \in {<<v>> : v \in Values}
                 \/ reply' \in Values \X Values
          PROVE  PagerIInv'
      BY <2>1 DEF PagerIInv, PagerTypeOK, WellFormed, OwnSlots, Stored, Pager
    <2>2. ASSUME NEW p \in Pages, NEW w \in Words, Read(p, w) PROVE PagerIInv'
      BY <2>1, <2>2, ReadStep DEF Safe
    <2>3. ASSUME NEW p \in Pages, NEW w \in Words, NEW v \in Values, Write(p, w, v)
          PROVE  PagerIInv'
      BY <2>1, <2>3, WriteStep DEF Safe
    <2>4. ASSUME NEW p \in Pages \ {PageCount - 1}, ReadStraddling(p) PROVE PagerIInv'
      BY <2>1, <2>4, ReadStraddlingStep DEF Safe
    <2>5. ASSUME NEW p \in Pages \ {PageCount - 1}, NEW v \in Values, NEW u \in Values,
                 WriteStraddling(p, v, u)
          PROVE  PagerIInv'
      BY <2>1, <2>5, WriteStraddlingStep DEF Safe
    <2>6. CASE Shutdown
      BY <2>1, <2>6, ShutdownStep
    <2>7. CASE UNCHANGED pagerVars
      BY <2>7 DEF pagerVars, PagerIInv, PagerTypeOK, WellFormed, OwnSlots, Stored, Pager
    <2> QED BY <2>2, <2>3, <2>4, <2>5, <2>6, <2>7 DEF PagerNext, Access
  <1> QED BY <1>1, <1>2, PTL DEF PagerSpec

(* The variables keep the ranges of the C types and arrays.                *)
THEOREM PagerTypeCorrect == PagerSpec => []PagerTypeOK
BY PagerInvariance, PTL DEF PagerIInv

(* Slots of the swap file are never shared nor used before handed out.     *)
THEOREM SlotsAreOwned == PagerSpec => []SlotsOwned
  <1>1. PagerIInv => SlotsOwned
    BY DEF PagerIInv, WellFormed, SlotsOwned
  <1> QED BY <1>1, PagerInvariance, PTL

(* A clean page may be dropped: the swap file holds it.                    *)
THEOREM CleanPagesStored == PagerSpec => []CleanPagesAreStored
  <1>1. PagerIInv => CleanPagesAreStored
    BY DEF PagerIInv, WellFormed, CleanPagesAreStored
  <1> QED BY <1>1, PagerInvariance, PTL

(* Contents, page by page, before and after a step.                        *)
LEMMA ContentsAt ==
  \A p \in Pages : Contents(mem2)[p] = ContentsOf(mem2, p)
                   /\ Contents(mem2)'[p] = ContentsOf(mem2', p)
BY DEF Contents

(* Whatever fails, a step of the running program changes at most the pages *)
(* it writes.                                                              *)
THEOREM FaultsAreContained == PagerSpec => FaultsContained
  <1>1. PagerIInv /\ [PagerNext]_pagerVars => [mem2'.running => AccessedOnly]_pagerVars
    <2> SUFFICES ASSUME PagerIInv, [PagerNext]_pagerVars, mem2'.running, ~UNCHANGED pagerVars
                 PROVE  AccessedOnly
      OBVIOUS
    <2>0. 0 \in Pages
      BY SizeAssumption DEF Pages
    <2>1. ASSUME \A q \in Pages : ContentsOf(mem2', q) = ContentsOf(mem2, q)
          PROVE  AccessedOnly
      BY <2>0, <2>1, ContentsAt DEF AccessedOnly
    <2>2. ASSUME NEW p \in Pages, NEW w \in Words, Read(p, w) PROVE AccessedOnly
      BY <2>1, <2>2, ReadStep
    <2>3. ASSUME NEW p \in Pages, NEW w \in Words, NEW v \in Values, Write(p, w, v)
          PROVE  AccessedOnly
      <3>1. \A q \in Pages \ {p} : ContentsOf(mem2', q) = ContentsOf(mem2, q)
        BY <2>3, WriteStep
      <3> QED BY <3>1, ContentsAt DEF AccessedOnly
    <2>4. ASSUME NEW p \in Pages \ {PageCount - 1}, ReadStraddling(p)
          PROVE  AccessedOnly
      BY <2>1, <2>4, ReadStraddlingStep
    <2>5. ASSUME NEW p \in Pages \ {PageCount - 1}, NEW v \in Values, NEW u \in Values,
                 WriteStraddling(p, v, u)
          PROVE  AccessedOnly
      <3>1. \A q \in Pages \ {p, p + 1} : ContentsOf(mem2', q) = ContentsOf(mem2, q)
        BY <2>5, WriteStraddlingStep
      <3> QED BY <3>1, ContentsAt DEF AccessedOnly
    <2>6. CASE Shutdown
      BY <2>6, ShutdownStep
    <2> QED BY <2>2, <2>3, <2>4, <2>5, <2>6 DEF PagerNext, Access
  <1> QED BY <1>1, PagerInvariance, PTL DEF PagerSpec, FaultsContained

(* The pager implements the plain memory until a loss is reported.         *)
THEOREM PagerIsMemory == PagerSpec => IsMemory
  <1>1. PagerInit => Memory!Init
    <2> SUFFICES ASSUME PagerInit PROVE Memory!Init
      OBVIOUS
    <2>1. /\ \A p \in Pages : mem2.slots[p] = NoSlot /\ mem2.pages[p] = Absent
          /\ reply = <<>> /\ mem2.running = TRUE
          /\ mem2.outOfMemory = FALSE /\ mem2.readFailed = FALSE
      BY DEF PagerInit
    <2>2. Contents(mem2) = [p \in Pages |-> ZeroPage]
      BY <2>1 DEF Contents, ContentsOf, Resident
    <2> QED BY <2>1, <2>2 DEF Memory!Init, Memory!Pages, Memory!ZeroPage, Memory!Words,
                             Pages, ZeroPage, Words
  <1>2. PagerIInv /\ [PagerNext]_pagerVars => [Memory!Next]_(Memory!vars)
    <2> SUFFICES ASSUME PagerIInv, [PagerNext]_pagerVars
                 PROVE  [Memory!Next]_(Memory!vars)
      OBVIOUS
    <2> DEFINE deg == mem2.outOfMemory \/ mem2.readFailed
    <2>1. mem2 \in Pager /\ Degraded(mem2) = deg /\ Degraded(mem2)' = deg'
      BY DEF PagerIInv, WellFormed, Degraded
    <2>2. ASSUME Access, mem2.running, mem2'.running = mem2.running, WellFormed(mem2'),
                 Degraded(mem2')
          PROVE  Memory!Next
      BY <2>1, <2>2 DEF Memory!Next, Memory!Access, Memory!Degrade, Degraded, Pager, WellFormed
    <2>3. ASSUME WellFormed(mem2'), Later(mem2, mem2'), ~Degraded(mem2')
          PROVE  deg' = deg
      BY <2>1, <2>3 DEF Later, Degraded, Pager, WellFormed
    <2>4. ASSUME \A q \in Pages : ContentsOf(mem2', q) = ContentsOf(mem2, q)
          PROVE  Contents(mem2)' = Contents(mem2)
      BY <2>4 DEF Contents
    <2>5. ASSUME NEW p \in Pages, NEW w \in Words, Read(p, w), mem2.running
          PROVE  Memory!Next
      <3>1. /\ WellFormed(mem2') /\ Later(mem2, mem2')
            /\ \A q \in Pages : ContentsOf(mem2', q) = ContentsOf(mem2, q)
            /\ ~Degraded(mem2') => reply' = <<ContentsOf(mem2, p)[w]>>
        BY <2>5, ReadStep DEF Safe
      <3>2. CASE Degraded(mem2')
        BY <2>2, <2>5, <3>1, <3>2 DEF Access, Later
      <3>3. CASE ~Degraded(mem2')
        <4>1. Memory!Read(p, w)
          BY <2>3, <2>4, <3>1, <3>3, ContentsAt DEF Memory!Read
        <4> QED BY <2>5, <3>1, <4>1 DEF Memory!Next, Memory!Access, Memory!Pages,
                  Memory!Words, Pages, Words, Later
      <3> QED BY <3>2, <3>3
    <2>6. ASSUME NEW p \in Pages \ {PageCount - 1}, ReadStraddling(p), mem2.running
          PROVE  Memory!Next
      <3>1. /\ WellFormed(mem2') /\ Later(mem2, mem2')
            /\ \A q \in Pages : ContentsOf(mem2', q) = ContentsOf(mem2, q)
            /\ ~Degraded(mem2') =>
                 reply' = <<ContentsOf(mem2, p)[LastWord], ContentsOf(mem2, p + 1)[0]>>
        BY <2>6, ReadStraddlingStep DEF Safe
      <3>2. CASE Degraded(mem2')
        BY <2>2, <2>6, <3>1, <3>2 DEF Access, Later
      <3>3. CASE ~Degraded(mem2')
        <4>1. p + 1 \in Pages
          BY SizeAssumption DEF Pages
        <4>2. Memory!ReadStraddling(p)
          BY <2>3, <2>4, <3>1, <3>3, <4>1, ContentsAt
             DEF Memory!ReadStraddling, Memory!LastWord, LastWord
        <4> QED BY <2>6, <3>1, <4>2 DEF Memory!Next, Memory!Access, Memory!Pages, Pages, Later
      <3> QED BY <3>2, <3>3
    <2>7. ASSUME NEW p \in Pages, NEW w \in Words, NEW v \in Values, Write(p, w, v),
                 mem2.running
          PROVE  Memory!Next
      <3>1. /\ WellFormed(mem2') /\ Later(mem2, mem2') /\ reply' = <<>>
            /\ \A q \in Pages \ {p} : ContentsOf(mem2', q) = ContentsOf(mem2, q)
            /\ ~Degraded(mem2') => ContentsOf(mem2', p) = Put(ContentsOf(mem2, p), w, v)
        BY <2>7, WriteStep DEF Safe
      <3>2. CASE Degraded(mem2')
        BY <2>2, <2>7, <3>1, <3>2 DEF Access, Later
      <3>3. CASE ~Degraded(mem2')
        <4>1. Contents(mem2)' = [Contents(mem2) EXCEPT ![p][w] = v]
          BY <3>1, <3>3 DEF Contents, Put
        <4>2. Memory!Write(p, w, v)
          BY <2>3, <3>1, <3>3, <4>1 DEF Memory!Write
        <4> QED BY <2>7, <3>1, <4>2 DEF Memory!Next, Memory!Access, Memory!Pages,
                  Memory!Words, Pages, Words, Later
      <3> QED BY <3>2, <3>3
    <2>8. ASSUME NEW p \in Pages \ {PageCount - 1}, NEW v \in Values, NEW u \in Values,
                 WriteStraddling(p, v, u), mem2.running
          PROVE  Memory!Next
      <3>1. /\ WellFormed(mem2') /\ Later(mem2, mem2') /\ reply' = <<>>
            /\ \A q \in Pages \ {p, p + 1} : ContentsOf(mem2', q) = ContentsOf(mem2, q)
            /\ ~Degraded(mem2') =>
                 /\ ContentsOf(mem2', p) = Put(ContentsOf(mem2, p), LastWord, v)
                 /\ ContentsOf(mem2', p + 1) = Put(ContentsOf(mem2, p + 1), 0, u)
        BY <2>8, WriteStraddlingStep DEF Safe
      <3>2. CASE Degraded(mem2')
        BY <2>2, <2>8, <3>1, <3>2 DEF Access, Later
      <3>3. CASE ~Degraded(mem2')
        <4>0. p \in Pages /\ p + 1 \in Pages /\ p + 1 # p
          BY SizeAssumption DEF Pages
        <4>1. Contents(mem2)' = [Contents(mem2) EXCEPT ![p][LastWord] = v, ![p + 1][0] = u]
          BY <3>1, <3>3, <4>0 DEF Contents, Put
        <4>2. Memory!WriteStraddling(p, v, u)
          BY <2>3, <3>1, <3>3, <4>1 DEF Memory!WriteStraddling, Memory!LastWord, LastWord
        <4> QED BY <2>8, <3>1, <4>2 DEF Memory!Next, Memory!Access, Memory!Pages, Pages, Later
      <3> QED BY <3>2, <3>3
    <2>9. CASE Shutdown
      <3>1. /\ reply' = <<>> /\ mem2.running /\ mem2'.running = FALSE
            /\ \A q \in Pages : ContentsOf(mem2', q) = ZeroPage
            /\ mem2'.outOfMemory = mem2.outOfMemory
            /\ mem2'.readFailed = mem2.readFailed
        BY <2>9, ShutdownStep
      <3>2. Contents(mem2)' = [p \in Pages |-> ZeroPage]
        BY <3>1 DEF Contents
      <3>3. Memory!Stop
        BY <3>1, <3>2 DEF Memory!Stop, Memory!Pages, Memory!ZeroPage, Memory!Words,
                          Pages, ZeroPage, Words
      <3> QED BY <3>1, <3>3 DEF Memory!Next
    <2>10. CASE UNCHANGED pagerVars
      BY <2>10 DEF pagerVars, Memory!vars, Contents, ContentsOf, Resident
    <2> QED BY <2>5, <2>6, <2>7, <2>8, <2>9, <2>10 DEF PagerNext, Access, GuestRuns
  <1> QED BY <1>1, <1>2, PagerInvariance, PTL DEF PagerSpec, IsMemory, Memory!Spec

-----------------------------------------------------------------------------
(* The mailbox. *)


(* The interrupt flag stands exactly when there is something to take,      *)
(* except between the handler's two halves; then only the acknowledgement  *)
(* is left.                                                                *)
FlagFollowsMailbox ==
    /\ y1 => irq
    /\ irq => y1 \/ y2
    /\ y2 => irq \/ phase = "ack"
    /\ phase = "ack" /\ y2 => ~y1
    /\ phase = "reply" => irq

(* The guest may not send while an acknowledgement waits for it. *)
CreditWaitsForAck == y2 => ~credit

(* An asserted interrupt is latched, except while the handler that will    *)
(* look at it again is on its way.                                         *)
Latched ==
    \/ ipcPending \/ piPending
    \/ ~irq /\ ~vi
    \/ phase \in {"dispatch", "reply", "vi"}
    \/ phase = "ack" /\ y2

IpcIInv ==
    /\ IpcTypeOK
    /\ Accounted
    /\ AckMatchesReply
    /\ FlagFollowsMailbox
    /\ CreditWaitsForAck
    /\ Latched

(* Accounted with the places written out: the requests held are the ones   *)
(* without an answer, and two places that hold something hold two          *)
(* different requests.                                                     *)
Mail(unread, message) == IF unread THEN message ELSE None

Spread(h, c, a, d, m, requests) ==
    /\ h # None => h \in requests
    /\ c # None => c \in requests
    /\ a # None => a \in requests
    /\ d # None => d \in requests
    /\ m # None => m \in requests
    /\ \A r \in requests : r = h \/ r = c \/ r = a \/ r = d \/ r = m
    /\ h # None => h # c /\ h # a /\ h # d /\ h # m
    /\ c # None => c # a /\ c # d /\ c # m
    /\ a # None => a # d /\ a # m
    /\ d # None => d # m

(* The two ways of saying that every request is accounted for agree. *)
LEMMA AccountedIsSpread ==
    Accounted <=> Spread(hook, hci, acl, deferred, Mail(y1, armMsg), sent)
<1>1. /\ Held["eventhook"] = hook
      /\ Held["bt_hci_read"] = hci
      /\ Held["bt_acl_read"] = acl
      /\ Held["deferred"] = deferred
      /\ Held["mailbox"] = Mail(y1, armMsg)
  BY DEF Held, Mail
<1>2. ASSUME Accounted
      PROVE  Spread(hook, hci, acl, deferred, Mail(y1, armMsg), sent)
  BY <1>1, <1>2 DEF Accounted, Place, Spread
<1>3. ASSUME Spread(hook, hci, acl, deferred, Mail(y1, armMsg), sent)
      PROVE  Accounted
  <2>1. \A p \in Place : Held[p] # None => Held[p] \in sent
    BY <1>1, <1>3 DEF Place, Spread
  <2>2. \A p, q \in Place : Held[p] = Held[q] /\ Held[p] # None => p = q
    BY <1>1, <1>3 DEF Place, Spread
  <2>3. \A r \in sent : \E p \in Place : Held[p] = r
    BY <1>1, <1>3 DEF Place, Spread
  <2> QED
    BY <2>1, <2>2, <2>3 DEF Accounted
<1> QED
  BY <1>2, <1>3

(* The same equivalence in the state after a step. *)
LEMMA AccountedIsSpreadNext ==
    Accounted' <=> Spread(hook', hci', acl', deferred', Mail(y1', armMsg'), sent')
<1>1. /\ Held'["eventhook"] = hook'
      /\ Held'["bt_hci_read"] = hci'
      /\ Held'["bt_acl_read"] = acl'
      /\ Held'["deferred"] = deferred'
      /\ Held'["mailbox"] = Mail(y1', armMsg')
  BY DEF Held, Mail
<1>2. ASSUME Accounted'
      PROVE  Spread(hook', hci', acl', deferred', Mail(y1', armMsg'), sent')
  BY <1>1, <1>2 DEF Accounted, Place, Spread
<1>3. ASSUME Spread(hook', hci', acl', deferred', Mail(y1', armMsg'), sent')
      PROVE  Accounted'
  <2>1. (\A p \in Place : Held[p] # None => Held[p] \in sent)'
    BY <1>1, <1>3 DEF Place, Spread
  <2>2. (\A p, q \in Place : Held[p] = Held[q] /\ Held[p] # None => p = q)'
    BY <1>1, <1>3 DEF Place, Spread
  <2>3. (\A r \in sent : \E p \in Place : Held[p] = r)'
    BY <1>1, <1>3 DEF Place, Spread
  <2> QED
    BY <2>1, <2>2, <2>3 DEF Accounted
<1> QED
  BY <1>2, <1>3

(* What a handler does with a fresh request: parked, it joins the table;   *)
(* to be answered at once, the table holds the requests it held before.    *)
LEMMA HandlerSpreads ==
    ASSUME IpcTypeOK, ~y1,
           NEW r \in Request, r \notin sent,
           Spread(hook, hci, acl, deferred, None, sent),
           NEW disposition \in {"park", "reply"},
           HandleRequest(r, disposition)
    PROVE  /\ disposition = "park" =>
                  Spread(hook', hci', acl', deferred', None, sent \cup {r})
           /\ disposition = "reply" =>
                  Spread(hook', hci', acl', deferred', r, sent \cup {r})
<1>0. r # None /\ None \notin sent
  BY NoneAssumption DEF IpcTypeOK
<1>1. CASE KindOf[r] = "plain" /\ disposition = "reply" /\ UNCHANGED ios
  BY <1>0, <1>1 DEF Spread, ios
<1>2. CASE HandleEventhook(r, disposition)
  BY <1>0, <1>2 DEF Spread, HandleEventhook
<1>3. CASE HandleRelease(disposition)
  BY <1>0, <1>3 DEF Spread, HandleRelease
<1>4. ASSUME NEW queued \in BOOLEAN, HandleBtCommand(queued, disposition)
      PROVE  disposition = "reply" /\
             Spread(hook', hci', acl', deferred', r, sent \cup {r})
  BY <1>0, <1>4 DEF Spread, HandleBtCommand, CompleteHciRead
<1>5. CASE HandleHciRead(r, disposition)
  BY <1>0, <1>5 DEF Spread, HandleHciRead, CompleteHciRead
<1>6. CASE HandleAclRead(r, disposition)
  BY <1>0, <1>6 DEF Spread, HandleAclRead
<1> QED
  BY <1>1, <1>2, <1>3, <1>4, <1>5, <1>6 DEF HandleRequest

(* A handler leaves every place of the table to requests of its own kind. *)
LEMMA HandlerTyped ==
    ASSUME IpcTypeOK,
           NEW r \in Request,
           NEW disposition \in {"park", "reply"},
           HandleRequest(r, disposition)
    PROVE  /\ hook' \in OfKind("eventhook") \cup {None}
           /\ hci' \in OfKind("bt_hci_read") \cup {None}
           /\ acl' \in OfKind("bt_acl_read") \cup {None}
           /\ deferred' \in OfKind("eventhook") \cup OfKind("bt_hci_read")
                            \cup {None}
           /\ event' \in BOOLEAN
<1>1. CASE KindOf[r] = "plain" /\ UNCHANGED ios
  BY <1>1 DEF IpcTypeOK, ios
<1>2. CASE KindOf[r] = "eventhook" /\ HandleEventhook(r, disposition)
  BY <1>2 DEF IpcTypeOK, HandleEventhook, OfKind
<1>3. CASE HandleRelease(disposition)
  BY <1>3 DEF IpcTypeOK, HandleRelease
<1>4. ASSUME NEW queued \in BOOLEAN, HandleBtCommand(queued, disposition)
      PROVE  /\ hook' \in OfKind("eventhook") \cup {None}
             /\ hci' \in OfKind("bt_hci_read") \cup {None}
             /\ acl' \in OfKind("bt_acl_read") \cup {None}
             /\ deferred' \in OfKind("eventhook") \cup OfKind("bt_hci_read")
                              \cup {None}
             /\ event' \in BOOLEAN
  <2>1. CASE hci # None /\ (event \/ queued) /\ deferred = None
    BY <1>4, <2>1 DEF IpcTypeOK, HandleBtCommand, CompleteHciRead
  <2>2. CASE ~(hci # None /\ (event \/ queued) /\ deferred = None)
    BY <1>4, <2>2 DEF IpcTypeOK, HandleBtCommand, CompleteHciRead
  <2> QED
    BY <2>1, <2>2
<1>5. CASE KindOf[r] = "bt_hci_read" /\ HandleHciRead(r, disposition)
  BY <1>5 DEF IpcTypeOK, HandleHciRead, CompleteHciRead, OfKind
<1>6. CASE KindOf[r] = "bt_acl_read" /\ HandleAclRead(r, disposition)
  BY <1>6 DEF IpcTypeOK, HandleAclRead, OfKind
<1> QED
  BY <1>1, <1>2, <1>3, <1>4, <1>5, <1>6 DEF HandleRequest
-----------------------------------------------------------------------------
(* The inductive invariant holds at the start. *)
LEMMA Start == IpcInit => IpcIInv
<1> SUFFICES ASSUME IpcInit PROVE IpcIInv
  OBVIOUS
<1>1. IpcTypeOK
  BY DEF IpcInit, IpcTypeOK, Phase
<1>2. Accounted
  <2>1. Spread(hook, hci, acl, deferred, Mail(y1, armMsg), sent)
    BY DEF IpcInit, Spread, Mail
  <2> QED
    BY <2>1, AccountedIsSpread
<1>3. AckMatchesReply /\ FlagFollowsMailbox /\ CreditWaitsForAck /\ Latched
  BY DEF IpcInit, AckMatchesReply, FlagFollowsMailbox, CreditWaitsForAck, Latched
<1> QED
  BY <1>1, <1>2, <1>3 DEF IpcIInv

(* Sending keeps the invariant: the new request is parked, or its answer   *)
(* stands alone in a mailbox that held no reply.                           *)
LEMMA SendKeeps ==
    ASSUME ~SendsOverReply, IpcIInv, NEW r \in Request, Send(r)
    PROVE  IpcIInv'
<1>1. /\ phase \in {"critical", "queued"}
      /\ credit /\ ~y1 /\ r \notin sent
      /\ sent' = sent \cup {r}
      /\ credit' = FALSE
      /\ ppcMsg' = r
      /\ piPending' = (FlagAfterControl(y1, y2) \/ vi)
      /\ vi' = vi /\ phase' = phase
  BY DEF Send, Cause
<1>2. PICK disposition \in {"park", "reply"} :
        /\ HandleRequest(r, disposition)
        /\ IF disposition = "park" THEN Park ELSE Reply(r, TRUE)
  BY DEF Send
<1>3. IpcTypeOK /\ Accounted
  BY DEF IpcIInv
<1>4. /\ irq' = TRUE /\ ipcPending' = TRUE /\ y2' = TRUE
      /\ disposition = "park" => y1' = FALSE /\ armMsg' = armMsg
      /\ disposition = "reply" => y1' = TRUE /\ armMsg' = r
  BY <1>1, <1>2, <1>3 DEF Park, Reply, IpcTypeOK
<1>5. IpcTypeOK'
  <2>1. /\ hook' \in OfKind("eventhook") \cup {None}
        /\ hci' \in OfKind("bt_hci_read") \cup {None}
        /\ acl' \in OfKind("bt_acl_read") \cup {None}
        /\ deferred' \in OfKind("eventhook") \cup OfKind("bt_hci_read")
                         \cup {None}
        /\ event' \in BOOLEAN
    BY <1>2, <1>3, HandlerTyped
  <2>2. /\ y1' \in BOOLEAN /\ y2' \in BOOLEAN /\ irq' \in BOOLEAN
        /\ armMsg' \in Request \cup {None}
        /\ ppcMsg' \in Request \cup {None}
        /\ ipcPending' \in BOOLEAN
        /\ credit' \in BOOLEAN
        /\ vi' \in BOOLEAN
        /\ phase' \in Phase
        /\ sent' \subseteq Request
    BY <1>1, <1>3, <1>4 DEF IpcTypeOK
  <2>3. piPending' \in BOOLEAN
    BY <1>1
  <2> QED
    BY <2>1, <2>2, <2>3 DEF IpcTypeOK
<1>6. Accounted'
  <2>1. Spread(hook, hci, acl, deferred, None, sent)
    BY <1>1, <1>3, AccountedIsSpread DEF Mail
  <2>2. /\ disposition = "park" =>
              Spread(hook', hci', acl', deferred', None, sent \cup {r})
        /\ disposition = "reply" =>
              Spread(hook', hci', acl', deferred', r, sent \cup {r})
    BY <1>1, <1>2, <1>3, <2>1, HandlerSpreads
  <2>3. Spread(hook', hci', acl', deferred', Mail(y1', armMsg'), sent')
    BY <1>1, <1>2, <1>4, <2>2 DEF Mail
  <2> QED
    BY <2>3, AccountedIsSpreadNext
<1>7. AckMatchesReply' /\ FlagFollowsMailbox' /\ CreditWaitsForAck' /\ Latched'
  BY <1>1, <1>2, <1>4
  DEF AckMatchesReply, FlagFollowsMailbox, CreditWaitsForAck, Latched
<1> QED
  BY <1>5, <1>6, <1>7 DEF IpcIInv

(* A step that leaves the table and the messages alone keeps the types if   *)
(* it leaves flags to be flags, the phase a phase and sent a set of        *)
(* requests.                                                               *)
LEMMA TypeKept ==
    ASSUME IpcTypeOK, UNCHANGED <<ios, armMsg, ppcMsg>>,
           y1' \in BOOLEAN, y2' \in BOOLEAN, irq' \in BOOLEAN,
           ipcPending' \in BOOLEAN, piPending' \in BOOLEAN, vi' \in BOOLEAN,
           phase' \in Phase, credit' \in BOOLEAN, sent' \subseteq Request
    PROVE  IpcTypeOK'
<1>1. UNCHANGED <<armMsg, ppcMsg, hook, hci, acl, deferred, event>>
  BY DEF ios
<1> QED
  BY <1>1 DEF IpcTypeOK

(* What the steps below need of the types. *)
LEMMA FlagsAreFlags ==
    ASSUME IpcTypeOK
    PROVE  /\ y1 \in BOOLEAN /\ y2 \in BOOLEAN /\ irq \in BOOLEAN
           /\ ipcPending \in BOOLEAN /\ piPending \in BOOLEAN
           /\ vi \in BOOLEAN /\ phase \in Phase /\ credit \in BOOLEAN
           /\ sent \subseteq Request
BY DEF IpcTypeOK

(* Taking a reply ends its request. *)
LEMMA TakeReplyKeeps ==
    ASSUME IpcIInv, TakeReply
    PROVE  IpcIInv'
<1>1. IpcTypeOK'
  <2>1. IpcTypeOK
    BY DEF IpcIInv
  <2>2. UNCHANGED <<ios, armMsg, ppcMsg, y2, ipcPending, vi, credit>>
        /\ phase' \in Phase
    BY DEF TakeReply, Phase
  <2>3. CASE y1
    <3>1. /\ sent' = sent \ {armMsg} /\ y1' = FALSE /\ irq' = FALSE
          /\ piPending' = (FALSE \/ vi)
      BY <2>3 DEF TakeReply, Cause
    <3> QED
      BY <2>1, <2>2, <3>1, FlagsAreFlags, TypeKept
  <2>4. CASE ~y1
    <3>1. UNCHANGED <<sent, y1, irq, piPending>>
      BY <2>4 DEF TakeReply
    <3> QED
      BY <2>1, <2>2, <3>1, FlagsAreFlags, TypeKept
  <2> QED
    BY <2>3, <2>4
<1>2. Accounted'
  <2>1. Spread(hook, hci, acl, deferred, Mail(y1, armMsg), sent)
    BY AccountedIsSpread DEF IpcIInv
  <2>2. /\ hook' = hook /\ hci' = hci /\ acl' = acl /\ deferred' = deferred
        /\ armMsg' = armMsg
    BY DEF TakeReply, ios
  <2>3. CASE y1
    <3>1. sent' = sent \ {armMsg} /\ y1' = FALSE
      BY <2>3 DEF TakeReply
    <3>2. None \notin sent
      BY NoneAssumption DEF IpcIInv, IpcTypeOK
    <3>3. Spread(hook', hci', acl', deferred', Mail(y1', armMsg'), sent')
      BY <2>1, <2>2, <2>3, <3>1, <3>2 DEF Spread, Mail
    <3> QED
      BY <3>3, AccountedIsSpreadNext
  <2>4. CASE ~y1
    <3>1. sent' = sent /\ y1' = y1
      BY <2>4 DEF TakeReply
    <3> QED
      BY <2>1, <2>2, <3>1, AccountedIsSpreadNext
  <2> QED
    BY <2>3, <2>4
<1>3. AckMatchesReply' /\ FlagFollowsMailbox' /\ CreditWaitsForAck' /\ Latched'
  BY DEF IpcIInv, IpcTypeOK, TakeReply, ios, Cause,
         AckMatchesReply, FlagFollowsMailbox, CreditWaitsForAck, Latched
<1> QED
  BY <1>1, <1>2, <1>3 DEF IpcIInv

(* Publishing the deferred reply moves it from its slot to the mailbox. *)
LEMMA ServiceDeferredKeeps ==
    ASSUME IpcIInv, ServiceDeferred
    PROVE  IpcIInv'
<1>1. IpcTypeOK'
  <2>1. IpcTypeOK
    BY DEF IpcIInv
  <2>2. /\ UNCHANGED <<ppcMsg, piPending, vi, hook, hci, acl, event, phase,
                       credit, sent>>
        /\ deferred # None /\ deferred' = None /\ armMsg' = deferred
        /\ y1' = TRUE /\ y2' = (y2 \/ FALSE) /\ irq' = TRUE /\ ipcPending' = TRUE
    BY DEF ServiceDeferred, Reply, guest
  <2>3. deferred \in Request
    BY <2>1, <2>2 DEF IpcTypeOK, OfKind
  <2> QED
    BY <2>1, <2>2, <2>3 DEF IpcTypeOK
<1>2. Accounted'
  <2>1. Spread(hook, hci, acl, deferred, None, sent)
    BY AccountedIsSpread DEF IpcIInv, Mail, ServiceDeferred
  <2>2. Spread(hook', hci', acl', deferred', Mail(y1', armMsg'), sent')
    BY <2>1 DEF ServiceDeferred, Reply, guest, Spread, Mail
  <2> QED
    BY <2>2, AccountedIsSpreadNext
<1>3. AckMatchesReply' /\ FlagFollowsMailbox' /\ CreditWaitsForAck' /\ Latched'
  BY DEF IpcIInv, IpcTypeOK, ServiceDeferred, Reply, guest,
         AckMatchesReply, FlagFollowsMailbox, CreditWaitsForAck, Latched
<1> QED
  BY <1>1, <1>2, <1>3 DEF IpcIInv

(* A step that moves no request keeps every request accounted for. *)
LEMMA NothingMoves ==
    ASSUME Accounted, UNCHANGED <<hook, hci, acl, deferred, y1, armMsg, sent>>
    PROVE  Accounted'
BY AccountedIsSpread, AccountedIsSpreadNext

(* Every step keeps the inductive invariant. *)
LEMMA StepKeeps ==
    ASSUME ~SendsOverReply, IpcIInv, [IpcNext]_ipcVars
    PROVE  IpcIInv'
<1>0. /\ IpcTypeOK /\ Accounted
      /\ AckMatchesReply /\ FlagFollowsMailbox /\ CreditWaitsForAck /\ Latched
  BY DEF IpcIInv
<1>1. ASSUME NEW r \in Request, Send(r) PROVE IpcIInv'
  BY <1>1, SendKeeps
<1>2. CASE TakeReply
  BY <1>2, TakeReplyKeeps
<1>3. CASE ServiceDeferred
  BY <1>3, ServiceDeferredKeeps
<1>4. CASE DisableInterrupts \/ EnableInterrupts \/ LeaveQueued
            \/ ReturnFromInterrupt
  <2>1. UNCHANGED <<mailbox, latches, vi, ios, credit, sent>>
    BY <1>4 DEF DisableInterrupts, EnableInterrupts, LeaveQueued,
                ReturnFromInterrupt
  <2>2. phase' \in {"critical", "run", "return"}
        /\ phase \in {"run", "critical", "queued", "return"}
    BY <1>4 DEF DisableInterrupts, EnableInterrupts, LeaveQueued,
                ReturnFromInterrupt
  <2>3. IpcTypeOK'
    <3>1. phase' \in Phase
      BY <2>2 DEF Phase
    <3>2. UNCHANGED <<ios, armMsg, ppcMsg, y1, y2, irq, ipcPending, piPending, vi,
                      credit, sent>>
      BY <2>1 DEF mailbox, latches
    <3> QED
      BY <1>0, <3>1, <3>2, FlagsAreFlags, TypeKept
  <2>4. Accounted'
    BY <2>1, <1>0, NothingMoves DEF mailbox, ios
  <2>5. AckMatchesReply' /\ CreditWaitsForAck'
    BY <1>0, <2>1 DEF mailbox, AckMatchesReply, CreditWaitsForAck
  <2>6. FlagFollowsMailbox'
    BY <1>0, <2>1, <2>2 DEF mailbox, FlagFollowsMailbox
  <2>7. Latched'
    BY <1>0, <2>1, <2>2 DEF mailbox, latches, Latched
  <2> QED
    BY <2>3, <2>4, <2>5, <2>6, <2>7 DEF IpcIInv
<1>5. CASE DispatchIpc \/ DispatchVideo
  <2>1. UNCHANGED <<mailbox, latches, vi, ios, credit, sent>>
    BY <1>5 DEF DispatchIpc, DispatchVideo
  <2>2. /\ phase = "dispatch"
        /\ \/ phase' = "reply" /\ irq
           \/ phase' = "vi"
    BY <1>5 DEF DispatchIpc, DispatchVideo
  <2>3. IpcTypeOK'
    <3>1. phase' \in Phase
      BY <2>2 DEF Phase
    <3>2. UNCHANGED <<ios, armMsg, ppcMsg, y1, y2, irq, ipcPending, piPending, vi,
                      credit, sent>>
      BY <2>1 DEF mailbox, latches
    <3> QED
      BY <1>0, <3>1, <3>2, FlagsAreFlags, TypeKept
  <2>4. Accounted'
    BY <2>1, <1>0, NothingMoves DEF mailbox, ios
  <2> QED
    BY <1>0, <2>1, <2>2, <2>3, <2>4
    DEF IpcIInv, mailbox, latches, ios,
        AckMatchesReply, FlagFollowsMailbox, CreditWaitsForAck, Latched
<1>6. CASE TakeAck
  <2>1. IpcTypeOK'
    <3>1. UNCHANGED <<ios, armMsg, ppcMsg, y1, ipcPending, vi, sent>>
          /\ phase' \in Phase
      BY <1>6 DEF TakeAck, Phase
    <3>2. CASE y2
      <4>1. /\ y2' = FALSE /\ irq' = FALSE /\ credit' = TRUE
            /\ piPending' = (FALSE \/ vi)
        BY <1>6, <3>2 DEF TakeAck, Cause
      <4> QED
        BY <1>0, <3>1, <4>1, FlagsAreFlags, TypeKept
    <3>3. CASE ~y2
      <4>1. UNCHANGED <<y2, irq, piPending, credit>>
        BY <1>6, <3>3 DEF TakeAck
      <4> QED
        BY <1>0, <3>1, <4>1, FlagsAreFlags, TypeKept
    <3> QED
      BY <3>2, <3>3
  <2>2. Accounted'
    BY <1>6, <1>0, NothingMoves DEF TakeAck, ios
  <2>3. AckMatchesReply' /\ FlagFollowsMailbox' /\ CreditWaitsForAck' /\ Latched'
    BY <1>0, <1>6, FlagsAreFlags DEF TakeAck, Cause, ios,
       AckMatchesReply, FlagFollowsMailbox, CreditWaitsForAck, Latched
  <2> QED
    BY <2>1, <2>2, <2>3 DEF IpcIInv
<1>7. CASE TakeVideo
  <2>1. IpcTypeOK'
    <3>1. /\ UNCHANGED <<ios, armMsg, ppcMsg, y1, y2, irq, ipcPending, credit, sent>>
          /\ phase' = "return" /\ vi' = FALSE /\ piPending' = (irq \/ FALSE)
      BY <1>7 DEF TakeVideo, mailbox, Cause
    <3>2. phase' \in Phase
      BY <3>1 DEF Phase
    <3> QED
      BY <1>0, <3>1, <3>2, FlagsAreFlags, TypeKept
  <2>2. Accounted'
    BY <1>7, <1>0, NothingMoves DEF TakeVideo, mailbox, ios
  <2>3. AckMatchesReply' /\ FlagFollowsMailbox' /\ CreditWaitsForAck' /\ Latched'
    BY <1>0, <1>7, FlagsAreFlags DEF TakeVideo, Cause, mailbox,
       AckMatchesReply, FlagFollowsMailbox, CreditWaitsForAck, Latched
  <2> QED
    BY <2>1, <2>2, <2>3 DEF IpcIInv
<1>8. CASE SignalRetrace
  <2>1. IpcTypeOK'
    <3>1. /\ UNCHANGED <<ios, armMsg, ppcMsg, y1, y2, irq, ipcPending, phase,
                         credit, sent>>
          /\ vi' = TRUE /\ piPending' = (irq \/ TRUE)
      BY <1>8 DEF SignalRetrace, mailbox, guest, Cause
    <3> QED
      BY <1>0, <3>1, FlagsAreFlags, TypeKept
  <2>2. Accounted'
    BY <1>8, <1>0, NothingMoves DEF SignalRetrace, mailbox, ios, guest
  <2>3. AckMatchesReply' /\ FlagFollowsMailbox' /\ CreditWaitsForAck' /\ Latched'
    BY <1>0, <1>8 DEF SignalRetrace, Cause, mailbox, guest,
       AckMatchesReply, FlagFollowsMailbox, CreditWaitsForAck, Latched
  <2> QED
    BY <2>1, <2>2, <2>3 DEF IpcIInv
<1>9. CASE ServiceInterrupt
  <2>1. IpcTypeOK'
    <3>1. /\ UNCHANGED <<ios, armMsg, ppcMsg, y1, y2, irq, vi, credit, sent>>
          /\ phase' = "dispatch" /\ ipcPending' = FALSE /\ piPending' = FALSE
      BY <1>9 DEF ServiceInterrupt, mailbox
    <3>2. phase' \in Phase
      BY <3>1 DEF Phase
    <3> QED
      BY <1>0, <3>1, <3>2, FlagsAreFlags, TypeKept
  <2>2. Accounted'
    BY <1>9, <1>0, NothingMoves DEF ServiceInterrupt, mailbox, ios
  <2>3. AckMatchesReply' /\ FlagFollowsMailbox' /\ CreditWaitsForAck' /\ Latched'
    BY <1>0, <1>9 DEF ServiceInterrupt, mailbox,
       AckMatchesReply, FlagFollowsMailbox, CreditWaitsForAck, Latched
  <2> QED
    BY <2>1, <2>2, <2>3 DEF IpcIInv
<1>10. CASE UNCHANGED ipcVars
  <2>1. IpcTypeOK'
    <3>1. UNCHANGED <<ios, armMsg, ppcMsg, y1, y2, irq, ipcPending, piPending, vi,
                      phase, credit, sent>>
      BY <1>10 DEF ipcVars, mailbox, latches, guest
    <3> QED
      BY <1>0, <3>1, FlagsAreFlags, TypeKept
  <2>2. Accounted'
    BY <1>10, <1>0, NothingMoves DEF ipcVars, mailbox, ios, guest
  <2> QED
    BY <1>0, <1>10, <2>1, <2>2 DEF IpcIInv, ipcVars, mailbox, latches, guest,
       AckMatchesReply, FlagFollowsMailbox, CreditWaitsForAck, Latched
<1> QED
  BY <1>1, <1>2, <1>3, <1>4, <1>5, <1>6, <1>7, <1>8, <1>9, <1>10
  DEF IpcNext, Sends, Handler

(* The inductive invariant is an invariant. *)
LEMMA IpcInvariance ==
    ASSUME ~SendsOverReply
    PROVE  IpcSpec => []IpcIInv
<1>1. IpcInit => IpcIInv
  BY Start
<1>2. IpcIInv /\ [IpcNext]_ipcVars => IpcIInv'
  BY StepKeeps
<1> QED
  BY <1>1, <1>2, PTL DEF IpcSpec

(* Every place of ios_hle.c's request table only ever holds requests of    *)
(* its own kind.                                                           *)
THEOREM IpcTypeCorrect ==
    ASSUME ~SendsOverReply
    PROVE  IpcSpec => []IpcTypeOK
BY IpcInvariance, PTL DEF IpcIInv

(* No request is forgotten by the mailbox or the request table, answered   *)
(* twice, or answered without having been sent.                            *)
THEOREM RequestsAccounted ==
    ASSUME ~SendsOverReply
    PROVE  IpcSpec => []Accounted
BY IpcInvariance, PTL DEF IpcIInv

(* service_deferred_ipc never joins a deferred reply to the                *)
(* acknowledgement of another request.                                     *)
THEOREM AcksMatchReplies ==
    ASSUME ~SendsOverReply
    PROVE  IpcSpec => []AckMatchesReply
BY IpcInvariance, PTL DEF IpcIInv

(* Whatever asserts an interrupt while the guest runs is latched for       *)
(* service_external_interrupt to deliver.                                  *)
THEOREM InterruptsLatched ==
    ASSUME ~SendsOverReply
    PROVE  IpcSpec => []NoInterruptLost
<1>1. IpcIInv => NoInterruptLost
  BY DEF IpcIInv, FlagFollowsMailbox, Latched, NoInterruptLost
<1> QED
  BY <1>1, IpcInvariance, PTL

\* Only an acknowledgement that stands in the mailbox keeps a credit.
LEMMA CreditIsOwed == IpcSpec => [](~credit => y2)
<1>1. IpcInit => (~credit => y2)
  BY DEF IpcInit
<1>2. ASSUME ~credit => y2, [IpcNext]_ipcVars PROVE ~credit' => y2'
  <2>1. CASE \E r \in Request : Send(r)
    BY <2>1 DEF Send, Park, Reply
  <2>2. CASE TakeAck
    BY <1>2, <2>2 DEF TakeAck
  <2>3. CASE TakeReply \/ ServiceDeferred
    BY <1>2, <2>3 DEF TakeReply, ServiceDeferred, Reply, guest
  <2>4. CASE \/ DisableInterrupts \/ EnableInterrupts \/ DispatchIpc \/ DispatchVideo
             \/ LeaveQueued \/ TakeVideo \/ ReturnFromInterrupt
    BY <1>2, <2>4 DEF DisableInterrupts, EnableInterrupts, DispatchIpc, DispatchVideo,
       LeaveQueued, TakeVideo, ReturnFromInterrupt, mailbox
  <2>5. CASE SignalRetrace \/ ServiceInterrupt
    BY <1>2, <2>5 DEF SignalRetrace, ServiceInterrupt, mailbox, guest
  <2>6. CASE UNCHANGED ipcVars
    BY <1>2, <2>6 DEF ipcVars, mailbox, guest
  <2> QED
    BY <1>2, <2>1, <2>2, <2>3, <2>4, <2>5, <2>6 DEF IpcNext, Sends, Handler
<1> QED
  BY <1>1, <1>2, PTL DEF IpcSpec

(* What the main loop has at hand for a request without an answer: an      *)
(* interrupt to deliver, or the deferred reply itself, into a mailbox that *)
(* is clear.                                                               *)
Attended(r) ==
    \/ ipcPending \/ piPending
    \/ deferred = r /\ ~y1 /\ ~y2 /\ ~irq

(* The mailbox never gets stuck.  While the guest runs, a request that is  *)
(* not parked gives the main loop something to do at once: its reply is    *)
(* latched as an interrupt or can be published.  And a guest that waits    *)
(* for its credit is interrupted for it.  This is the part of              *)
(* AnswersArrive that needs no fairness: under it, only a main loop that   *)
(* stops coming to its services could leave a request without an answer.   *)
THEOREM NothingStalls ==
    ASSUME ~SendsOverReply
    PROVE  IpcSpec => [](phase \in {"run", "critical"} =>
                            /\ \A r \in Request : Waiting(r) => Attended(r)
                            /\ ~credit => ipcPending \/ piPending)
<1>1. ASSUME IpcIInv, ~credit => y2, phase \in {"run", "critical"}
      PROVE  /\ \A r \in Request : Waiting(r) => Attended(r)
             /\ ~credit => ipcPending \/ piPending
  <2>1. /\ y1 \/ y2 => irq
        /\ irq => ipcPending \/ piPending
    BY <1>1 DEF IpcIInv, FlagFollowsMailbox, Latched
  <2>2. ASSUME NEW r \in Request, Waiting(r) PROVE Attended(r)
    <3>1. Spread(hook, hci, acl, deferred, Mail(y1, armMsg), sent)
      BY <1>1, AccountedIsSpread DEF IpcIInv
    <3>2. r = deferred \/ r = Mail(y1, armMsg)
      BY <2>2, <3>1 DEF Waiting, Spread
    <3>3. r # None
      BY NoneAssumption
    <3>4. r = deferred \/ y1
      BY <3>2, <3>3 DEF Mail
    <3> QED
      BY <2>1, <3>4 DEF Attended
  <2> QED
    BY <1>1, <2>1, <2>2
<1> QED
  BY <1>1, IpcInvariance, CreditIsOwed, PTL
=============================================================================
