--------------------------- MODULE GuestClockProofs ---------------------------
(***************************************************************************)
(* What main.c does for the guest beside its code: the clocks, for any     *)
(* widths of the registers, any rates and any slices; the pacing of the    *)
(* retraces; and the native Yaz0 decoder.  ClockExact compares registers,  *)
(* which wrap, with the history, which does not; the invariant gives the   *)
(* number of turns between them as a witness, so that a step adds to it    *)
(* instead of dividing anew.  The decoder's proof finds the turn of the    *)
(* format's own expansion at which the registers stand.                    *)
(***************************************************************************)
EXTENDS GuestClock, RetracePacing, Yaz0, Lemmas

\* Rounding twice loses at most one more than rounding once.
LEMMA Rounding ==
    ASSUME NEW x \in Int, NEW y \in Int, NEW b \in Nat \ {0}
    PROVE  (x + y) \div b - ((x \div b) + (y \div b)) \in {0, 1}
  BY Division
-----------------------------------------------------------------------------
(* The registers as the history has them: the decrementer after so many    *)
(* turns, and the sample counter as it was last set, behind by less than   *)
(* one sample for each rebasing but the last.                              *)

DecrementerCounted ==
    decArmed =>
        \E turns \in Nat :
            /\ dec = clockHistory.written - clockHistory.elapsed + DecModulus * turns
            /\ (turns > 0) <=> (decPending \/ clockHistory.taken > 0)
            /\ clockHistory.taken + (IF decPending THEN 1 ELSE 0) <= turns

\* The samples that were due when the counter was last set.
SetAt == clockHistory.due - (IF aiRunning THEN (timebase - aiSince) * Rate ELSE 0)

SamplesCounted ==
    /\ clockHistory.rebased = 0 => SetAt = 0
    /\ \E behind \in Nat, turns \in Int :
          /\ behind = 0 \/ behind + 1 <= clockHistory.rebased
          /\ aiCount = clockHistory.set - behind + (SetAt \div TicksPerSecond)
                       + SampleModulus * turns

ClockIInv ==
    ClockTypeOK /\ CyclesConserved /\ DecrementerCounted /\ SamplesCounted

LEMMA Constants ==
    /\ CyclesPerTick \in Nat \ {0} /\ DecModulus \in Nat \ {0}
    /\ SampleModulus \in Nat \ {0} /\ TicksPerSecond \in Nat \ {0}
    /\ Rate \in Nat
    /\ MaxSlice \in Nat /\ 2 * MaxSlice < DecModulus
  BY ClockAssumption DEF Rate

LEMMA ClockInitial == ClockInit => ClockIInv
<1> SUFFICES ASSUME ClockInit PROVE ClockIInv
  OBVIOUS
<1> USE Constants DEF ClockInit
<1>1. ClockTypeOK
  <2> DEFINE W == 0..(DecModulus - 1)
             V == 0..(SampleModulus - 1)
  <2>1. 0 \in W /\ 0 \in V /\ 0 \in 0..(CyclesPerTick - 1)
    OBVIOUS
  <2>2. History = [cycles : Nat, skipped : Nat, written : W, elapsed : Nat,
                   taken : Nat, due : Nat, set : V, rebased : Nat]
    BY DEF History
  <2> HIDE DEF W, V
  <2>3. clockHistory \in History
    BY <2>1, <2>2
  <2>4. timebase \in Nat /\ remainder \in 0..(CyclesPerTick - 1) /\ aiSince \in 0..timebase
    BY <2>1
  <2>5. dec \in 0..(DecModulus - 1) /\ aiCount \in 0..(SampleModulus - 1)
    BY <2>1 DEF W, V
  <2>6. decArmed \in BOOLEAN /\ decPending \in BOOLEAN /\ aiRunning \in BOOLEAN /\ aiFast \in BOOLEAN
    OBVIOUS
  <2> QED
    BY <2>3, <2>4, <2>5, <2>6 DEF ClockTypeOK
<1>2. CyclesConserved
  BY DEF CyclesConserved
<1>3. DecrementerCounted
  BY DEF DecrementerCounted
<1>4. SetAt = 0
  BY DEF SetAt
<1>5. SetAt \div TicksPerSecond = 0
  BY <1>4
<1>6. aiCount = clockHistory.set - 0 + (SetAt \div TicksPerSecond) + SampleModulus * 0
  BY <1>5
<1>7. SamplesCounted
  BY <1>4, <1>6 DEF SamplesCounted
<1> QED
  BY <1>1, <1>2, <1>3, <1>7 DEF ClockIInv
-----------------------------------------------------------------------------
(* Time passes: a batch of blocks, or the rest of a frame. *)

\* What both have in common.
Advanced(passed, cycles, skipped) ==
    /\ AdvanceTimebase(passed)
    /\ Passed(passed, cycles, skipped)
    /\ UNCHANGED <<decArmed, aiRunning, aiFast, aiCount, aiSince>>

LEMMA PassedFields ==
    ASSUME ClockTypeOK, NEW passed \in Nat, NEW cycles \in Nat, NEW skipped \in Nat,
           Passed(passed, cycles, skipped)
    PROVE  /\ clockHistory' \in History
           /\ clockHistory'.cycles = clockHistory.cycles + cycles
           /\ clockHistory'.skipped = clockHistory.skipped + skipped
           /\ clockHistory'.written = clockHistory.written
           /\ clockHistory'.elapsed = clockHistory.elapsed + (IF decArmed THEN passed ELSE 0)
           /\ clockHistory'.taken = clockHistory.taken
           /\ clockHistory'.due = clockHistory.due + (IF aiRunning THEN passed * Rate ELSE 0)
           /\ clockHistory'.set = clockHistory.set
           /\ clockHistory'.rebased = clockHistory.rebased
<1> DEFINE elapsed == IF decArmed THEN clockHistory.elapsed + passed ELSE clockHistory.elapsed
           due == IF aiRunning THEN clockHistory.due + passed * Rate ELSE clockHistory.due
<1>1. clockHistory' = [clockHistory EXCEPT !.cycles = @ + cycles, !.skipped = @ + skipped,
                                           !.elapsed = elapsed, !.due = due]
  BY DEF Passed
<1>2. clockHistory \in History /\ clockHistory.elapsed \in Nat /\ clockHistory.due \in Nat
      /\ clockHistory.cycles \in Nat /\ clockHistory.skipped \in Nat
  BY DEF ClockTypeOK, History
<1>3. passed * Rate \in Nat
  BY Constants
<1>4. elapsed \in Nat /\ elapsed = clockHistory.elapsed + (IF decArmed THEN passed ELSE 0)
  BY <1>2
<1>5. due \in Nat /\ due = clockHistory.due + (IF aiRunning THEN passed * Rate ELSE 0)
  BY <1>2, <1>3
<1> HIDE DEF elapsed, due
<1>6. /\ clockHistory'.cycles = clockHistory.cycles + cycles
      /\ clockHistory'.skipped = clockHistory.skipped + skipped
      /\ clockHistory'.written = clockHistory.written
      /\ clockHistory'.elapsed = elapsed /\ clockHistory'.due = due
      /\ clockHistory'.taken = clockHistory.taken
      /\ clockHistory'.set = clockHistory.set
      /\ clockHistory'.rebased = clockHistory.rebased
  BY <1>1, <1>2 DEF History
<1>7. clockHistory' \in History
  <2> DEFINE W == 0..(DecModulus - 1)
             V == 0..(SampleModulus - 1)
  <2>1. History = [cycles : Nat, skipped : Nat, written : W, elapsed : Nat,
                   taken : Nat, due : Nat, set : V, rebased : Nat]
    BY DEF History
  <2> HIDE DEF W, V
  <2>2. clockHistory.cycles + cycles \in Nat /\ clockHistory.skipped + skipped \in Nat
    BY <1>2
  <2> QED
    BY <1>1, <1>2, <1>4, <1>5, <2>1, <2>2
<1> QED
  BY <1>4, <1>5, <1>6, <1>7

\* The decrementer falls below zero when the ticks pass its value, which is
\* then positive because a slice is short.
LEMMA Crossing ==
    ASSUME ClockTypeOK, NEW passed \in 0..MaxSlice, AdvanceTimebase(passed)
    PROVE  /\ dec' \in 0..(DecModulus - 1) /\ decPending' \in BOOLEAN
           /\ decArmed /\ passed > dec => dec' = dec - passed + DecModulus /\ decPending' = TRUE
           /\ decArmed /\ passed <= dec => dec' = dec - passed /\ decPending' = decPending
<1>1. dec \in 0..(DecModulus - 1) /\ passed \in Nat /\ decPending \in BOOLEAN
      /\ decArmed \in BOOLEAN
  BY Constants DEF ClockTypeOK
<1>2. CASE ~(decArmed /\ passed # 0)
  BY <1>1, <1>2 DEF AdvanceTimebase
<1>3. CASE (decArmed /\ passed # 0) /\ passed > dec
  <2>1. 2 * dec < DecModulus
    BY <1>1, <1>3, Constants
  <2>2. decPending' = (decPending \/ (Positive(dec) /\ passed > dec))
    BY <1>3 DEF AdvanceTimebase
  <2>3. decPending' = TRUE
    BY <1>3, <2>1, <2>2, Zenon DEF Positive
  <2>4. dec' = dec - passed + DecModulus
    BY <1>1, <1>3 DEF AdvanceTimebase, Minus
  <2>5. dec' \in 0..(DecModulus - 1)
    BY <1>1, <1>3, <2>4, Constants
  <2>6. ~(passed <= dec)
    BY <1>1, <1>3
  <2> QED
    BY <2>3, <2>4, <2>5, <2>6
<1>4. CASE (decArmed /\ passed # 0) /\ ~(passed > dec)
  <2>1. decPending' = (decPending \/ (Positive(dec) /\ passed > dec))
    BY <1>4 DEF AdvanceTimebase
  <2>2. decPending' = decPending
    BY <1>1, <1>4, <2>1, Zenon
  <2>3. dec' = dec - passed
    BY <1>1, <1>4 DEF AdvanceTimebase, Minus
  <2> QED
    BY <1>1, <1>4, <2>2, <2>3, Constants
<1> QED
  BY <1>2, <1>3, <1>4

\* Every turn of the decrementer asks for one interrupt.
LEMMA TurnsCounted ==
    ASSUME ClockTypeOK, DecrementerCounted, NEW passed \in 0..MaxSlice, NEW cycles \in Nat,
           NEW skipped \in Nat, Advanced(passed, cycles, skipped)
    PROVE  DecrementerCounted'
<1> SUFFICES ASSUME decArmed' PROVE DecrementerCounted'
  BY DEF DecrementerCounted
<1>1. decArmed /\ passed \in Nat /\ AdvanceTimebase(passed) /\ Passed(passed, cycles, skipped)
  BY Constants DEF Advanced
<1>2. PICK turns \in Nat :
          /\ dec = clockHistory.written - clockHistory.elapsed + DecModulus * turns
          /\ (turns > 0) <=> (decPending \/ clockHistory.taken > 0)
          /\ clockHistory.taken + (IF decPending THEN 1 ELSE 0) <= turns
  BY <1>1 DEF DecrementerCounted
<1>3. /\ clockHistory'.written = clockHistory.written
      /\ clockHistory'.elapsed = clockHistory.elapsed + passed
      /\ clockHistory'.taken = clockHistory.taken
  BY <1>1, PassedFields
<1>4. /\ dec \in 0..(DecModulus - 1)
      /\ clockHistory.written \in Int /\ clockHistory.elapsed \in Nat
      /\ clockHistory.taken \in Nat
  BY Constants DEF ClockTypeOK, History
<1>5. CASE passed > dec
  <2>1. dec' = dec - passed + DecModulus /\ decPending' = TRUE
    BY <1>1, <1>5, Crossing
  <2>2. DecModulus * (turns + 1) = DecModulus * turns + DecModulus
    BY Constants
  <2>3. dec' = clockHistory'.written - clockHistory'.elapsed + DecModulus * (turns + 1)
    BY <1>2, <1>3, <1>4, <2>1, <2>2, Constants
  <2>4. clockHistory.taken <= turns
    BY <1>2, <1>4
  <2>5. clockHistory'.taken + 1 <= turns + 1
    BY <1>3, <1>4, <2>4
  <2>6. turns + 1 \in Nat /\ turns + 1 > 0
    OBVIOUS
  <2> QED
    BY <2>1, <2>3, <2>5, <2>6 DEF DecrementerCounted
<1>6. CASE passed <= dec
  <2>1. dec' = dec - passed /\ decPending' = decPending
    BY <1>1, <1>6, Crossing
  <2>2. dec' = clockHistory'.written - clockHistory'.elapsed + DecModulus * turns
    BY <1>2, <1>3, <1>4, <2>1, Constants
  <2> QED
    BY <1>2, <1>3, <2>1, <2>2 DEF DecrementerCounted
<1> QED
  BY <1>1, <1>4, <1>5, <1>6

\* The samples due grow with the time since the counter was set.
LEMMA SamplesAdvance ==
    ASSUME ClockTypeOK, SamplesCounted, NEW passed \in Nat, NEW cycles \in Nat,
           NEW skipped \in Nat, Advanced(passed, cycles, skipped)
    PROVE  SamplesCounted'
<1>1. /\ timebase' = timebase + passed /\ Passed(passed, cycles, skipped)
      /\ UNCHANGED <<aiRunning, aiFast, aiCount, aiSince>>
  BY DEF Advanced, AdvanceTimebase
<1>2. /\ clockHistory'.due = clockHistory.due + (IF aiRunning THEN passed * Rate ELSE 0)
      /\ clockHistory'.set = clockHistory.set
      /\ clockHistory'.rebased = clockHistory.rebased
  BY <1>1, PassedFields
<1>3. /\ timebase \in Nat /\ aiSince \in Int /\ clockHistory.due \in Nat /\ Rate \in Nat
  BY Constants DEF ClockTypeOK, History
<1>4. Rate' = Rate
  BY <1>1 DEF Rate
<1>5. SetAt' = SetAt
  <2>1. CASE aiRunning
    <3>1. SetAt' = (clockHistory.due + passed * Rate) - ((timebase + passed) - aiSince) * Rate
      BY <1>1, <1>2, <1>4, <2>1 DEF SetAt
    <3>2. SetAt = clockHistory.due - (timebase - aiSince) * Rate
      BY <2>1 DEF SetAt
    <3> QED
      BY <1>3, <3>1, <3>2
  <2>2. CASE ~aiRunning
    BY <1>1, <1>2, <1>3, <2>2 DEF SetAt
  <2> QED
    BY <2>1, <2>2
<1> QED
  BY <1>1, <1>2, <1>5 DEF SamplesCounted

LEMMA TypeAdvance ==
    ASSUME ClockTypeOK, NEW passed \in 0..MaxSlice, NEW cycles \in Nat, NEW skipped \in Nat,
           Advanced(passed, cycles, skipped), remainder' \in 0..(CyclesPerTick - 1)
    PROVE  ClockTypeOK'
<1>1. passed \in Nat /\ AdvanceTimebase(passed) /\ Passed(passed, cycles, skipped)
      /\ timebase' = timebase + passed
  BY Constants DEF Advanced, AdvanceTimebase
<1>2. clockHistory' \in History
  BY <1>1, PassedFields
<1>3. dec' \in 0..(DecModulus - 1) /\ decPending' \in BOOLEAN
  BY <1>1, Crossing
<1> QED
  BY <1>1, <1>2, <1>3 DEF ClockTypeOK, Advanced

LEMMA RunBlocksKeeps ==
    ASSUME ClockIInv, NEW cycles \in Nat, RunBlocks(cycles)
    PROVE  ClockIInv'
<1> DEFINE total == cycles + remainder
           passed == total \div CyclesPerTick
<1>1. /\ passed <= MaxSlice /\ Advanced(passed, cycles, 0)
      /\ remainder' = total % CyclesPerTick
  BY DEF RunBlocks, Advanced
<1>2. /\ total \in Nat /\ remainder \in Nat /\ timebase \in Nat
      /\ clockHistory.cycles \in Nat /\ clockHistory.skipped \in Nat
  BY Constants DEF ClockIInv, ClockTypeOK, History
<1> HIDE DEF total
<1>3. /\ passed \in Int /\ remainder' \in 0..(CyclesPerTick - 1)
      /\ total = CyclesPerTick * passed + remainder'
  <2>1. /\ total \div CyclesPerTick \in Int /\ total % CyclesPerTick \in 0..(CyclesPerTick - 1)
        /\ total = CyclesPerTick * (total \div CyclesPerTick) + (total % CyclesPerTick)
    BY <1>2, Division, Constants
  <2> QED
    BY <1>1, <2>1
<1>4. passed \in 0..MaxSlice
  <2>1. passed >= 0
    BY <1>2, Constants
  <2> QED
    BY <1>1, <1>3, <2>1, Constants
<1> HIDE DEF passed
<1>5. timebase' = timebase + passed /\ Passed(passed, cycles, 0) /\ passed \in Nat
  BY <1>1, <1>4, Constants DEF Advanced, AdvanceTimebase
<1>6. CyclesConserved'
  <2>1. /\ clockHistory'.cycles = clockHistory.cycles + cycles
        /\ clockHistory'.skipped = clockHistory.skipped + 0
    BY <1>5, PassedFields DEF ClockIInv
  <2>2. timebase * CyclesPerTick + remainder
            = clockHistory.cycles + clockHistory.skipped * CyclesPerTick
    BY DEF ClockIInv, CyclesConserved
  <2>3. (timebase + passed) * CyclesPerTick = timebase * CyclesPerTick + CyclesPerTick * passed
    BY <1>2, <1>3, Constants
  <2>4. timebase' * CyclesPerTick + remainder' = timebase * CyclesPerTick + total
    BY <1>2, <1>3, <1>5, <2>3, Constants
  <2>5. timebase * CyclesPerTick + total
            = clockHistory'.cycles + clockHistory'.skipped * CyclesPerTick
    <3>1. timebase * CyclesPerTick \in Nat /\ clockHistory.skipped * CyclesPerTick \in Nat
      BY <1>2, Constants
    <3>2. clockHistory'.skipped = clockHistory.skipped
      BY <1>2, <2>1
    <3> QED
      BY <1>2, <2>1, <2>2, <3>1, <3>2 DEF total
  <2> QED
    BY <2>4, <2>5 DEF CyclesConserved
<1>7. ClockTypeOK'
  BY <1>1, <1>3, <1>4, TypeAdvance DEF ClockIInv
<1>8. DecrementerCounted'
  BY <1>1, <1>4, TurnsCounted DEF ClockIInv
<1>9. SamplesCounted'
  BY <1>1, <1>5, SamplesAdvance DEF ClockIInv
<1> QED
  BY <1>6, <1>7, <1>8, <1>9 DEF ClockIInv

LEMMA EndFrameKeeps ==
    ASSUME ClockIInv, NEW passed \in 0..MaxSlice, EndFrame(passed)
    PROVE  ClockIInv'
<1>1. Advanced(passed, 0, passed) /\ remainder' = remainder
  BY DEF EndFrame, Advanced
<1>2. /\ passed \in Nat /\ timebase' = timebase + passed /\ Passed(passed, 0, passed)
  BY <1>1, Constants DEF Advanced, AdvanceTimebase
<1>3. /\ remainder \in 0..(CyclesPerTick - 1) /\ timebase \in Nat
      /\ clockHistory.cycles \in Nat /\ clockHistory.skipped \in Nat
  BY DEF ClockIInv, ClockTypeOK, History
<1>4. CyclesConserved'
  <2>1. /\ clockHistory'.cycles = clockHistory.cycles + 0
        /\ clockHistory'.skipped = clockHistory.skipped + passed
    BY <1>2, PassedFields DEF ClockIInv
  <2>2. timebase * CyclesPerTick + remainder
            = clockHistory.cycles + clockHistory.skipped * CyclesPerTick
    BY DEF ClockIInv, CyclesConserved
  <2>3. /\ (timebase + passed) * CyclesPerTick = timebase * CyclesPerTick + passed * CyclesPerTick
        /\ (clockHistory.skipped + passed) * CyclesPerTick
               = clockHistory.skipped * CyclesPerTick + passed * CyclesPerTick
    BY <1>2, <1>3, Constants
  <2>4. /\ timebase * CyclesPerTick \in Nat /\ clockHistory.skipped * CyclesPerTick \in Nat
        /\ passed * CyclesPerTick \in Nat
    BY <1>2, <1>3, Constants
  <2>5. timebase' * CyclesPerTick = timebase * CyclesPerTick + passed * CyclesPerTick
    BY <1>2, <2>3
  <2>6. clockHistory'.skipped * CyclesPerTick
            = clockHistory.skipped * CyclesPerTick + passed * CyclesPerTick
    BY <2>1, <2>3
  <2>7. clockHistory'.cycles = clockHistory.cycles
    BY <1>3, <2>1
  <2> QED
    BY <1>1, <1>3, <2>2, <2>4, <2>5, <2>6, <2>7 DEF CyclesConserved
<1>5. ClockTypeOK'
  BY <1>1, <1>2, <1>3, TypeAdvance DEF ClockIInv
<1>6. DecrementerCounted'
  BY <1>1, <1>2, TurnsCounted DEF ClockIInv
<1>7. SamplesCounted'
  BY <1>1, <1>2, SamplesAdvance DEF ClockIInv
<1> QED
  BY <1>4, <1>5, <1>6, <1>7 DEF ClockIInv
-----------------------------------------------------------------------------
(* What the guest does with the decrementer. *)

LEMMA WriteDecrementerKeeps ==
    ASSUME ClockIInv, NEW value \in 0..(DecModulus - 1), WriteDecrementer(value)
    PROVE  ClockIInv'
<1>1. /\ dec' = value /\ decArmed' = TRUE /\ decPending' = FALSE
      /\ clockHistory' = [clockHistory EXCEPT !.written = value, !.elapsed = 0, !.taken = 0]
      /\ UNCHANGED <<timebase, remainder, aiRunning, aiFast, aiCount, aiSince>>
  BY DEF WriteDecrementer
<1>2. clockHistory \in History /\ ClockTypeOK
  BY DEF ClockIInv, ClockTypeOK
<1>3. /\ clockHistory'.cycles = clockHistory.cycles
      /\ clockHistory'.skipped = clockHistory.skipped
      /\ clockHistory'.written = value /\ clockHistory'.elapsed = 0
      /\ clockHistory'.taken = 0 /\ clockHistory'.due = clockHistory.due
      /\ clockHistory'.set = clockHistory.set
      /\ clockHistory'.rebased = clockHistory.rebased
  BY <1>1, <1>2 DEF History
<1>4. clockHistory' \in History
  BY <1>1, <1>2 DEF History
<1>5. ClockTypeOK'
  BY <1>1, <1>2, <1>4 DEF ClockTypeOK
<1>6. CyclesConserved'
  BY <1>1, <1>3 DEF ClockIInv, CyclesConserved
<1>7. DecrementerCounted'
  <2>1. dec' = clockHistory'.written - clockHistory'.elapsed + DecModulus * 0
    BY <1>1, <1>3, Constants
  <2>2. ~(decPending' \/ clockHistory'.taken > 0)
    BY <1>1, <1>3
  <2>3. clockHistory'.taken + (IF decPending' THEN 1 ELSE 0) <= 0
    BY <1>1, <1>3
  <2> QED
    BY <2>1, <2>2, <2>3 DEF DecrementerCounted
<1>8. SamplesCounted'
  BY <1>1, <1>3 DEF ClockIInv, SamplesCounted, SetAt, Rate
<1> QED
  BY <1>5, <1>6, <1>7, <1>8 DEF ClockIInv

LEMMA TakeDecrementerKeeps ==
    ASSUME ClockIInv, TakeDecrementer
    PROVE  ClockIInv'
<1>1. /\ decPending /\ decPending' = FALSE
      /\ clockHistory' = [clockHistory EXCEPT !.taken = @ + 1]
      /\ UNCHANGED <<timebase, remainder, dec, decArmed, aiRunning, aiFast, aiCount, aiSince>>
  BY DEF TakeDecrementer
<1>2. clockHistory \in History /\ ClockTypeOK /\ clockHistory.taken \in Nat
  BY DEF ClockIInv, ClockTypeOK, History
<1>3. /\ clockHistory'.cycles = clockHistory.cycles
      /\ clockHistory'.skipped = clockHistory.skipped
      /\ clockHistory'.written = clockHistory.written
      /\ clockHistory'.elapsed = clockHistory.elapsed
      /\ clockHistory'.taken = clockHistory.taken + 1
      /\ clockHistory'.due = clockHistory.due /\ clockHistory'.set = clockHistory.set
      /\ clockHistory'.rebased = clockHistory.rebased
  BY <1>1, <1>2 DEF History
<1>4. clockHistory' \in History
  BY <1>1, <1>2 DEF History
<1>5. ClockTypeOK'
  BY <1>1, <1>2, <1>4 DEF ClockTypeOK
<1>6. CyclesConserved'
  BY <1>1, <1>3 DEF ClockIInv, CyclesConserved
<1>7. DecrementerCounted'
  <2> SUFFICES ASSUME decArmed' PROVE DecrementerCounted'
    BY DEF DecrementerCounted
  <2>1. PICK turns \in Nat :
            /\ dec = clockHistory.written - clockHistory.elapsed + DecModulus * turns
            /\ (turns > 0) <=> (decPending \/ clockHistory.taken > 0)
            /\ clockHistory.taken + (IF decPending THEN 1 ELSE 0) <= turns
    BY <1>1 DEF ClockIInv, DecrementerCounted
  <2>2. turns > 0 /\ clockHistory.taken + 1 <= turns
    BY <1>1, <2>1
  <2>3. clockHistory'.taken > 0 /\ clockHistory'.taken + (IF decPending' THEN 1 ELSE 0) <= turns
    BY <1>1, <1>2, <1>3, <2>2
  <2> QED
    BY <1>1, <1>3, <2>1, <2>2, <2>3 DEF DecrementerCounted
<1>8. SamplesCounted'
  BY <1>1, <1>3 DEF ClockIInv, SamplesCounted, SetAt, Rate
<1> QED
  BY <1>5, <1>6, <1>7, <1>8 DEF ClockIInv
-----------------------------------------------------------------------------
(* What the guest does with the sample counter. *)

\* The counter read now, against the samples due now.
LEMMA CountNow ==
    ASSUME ClockTypeOK, SamplesCounted
    PROVE  /\ CurrentCount \in 0..(SampleModulus - 1)
           /\ \E behind \in 0..clockHistory.rebased, turns \in Int :
                  CurrentCount = clockHistory.set - behind
                                 + (clockHistory.due \div TicksPerSecond)
                                 + SampleModulus * turns
<1>1. PICK behind \in Nat, turns \in Int :
          /\ behind = 0 \/ behind + 1 <= clockHistory.rebased
          /\ aiCount = clockHistory.set - behind + (SetAt \div TicksPerSecond)
                       + SampleModulus * turns
  BY DEF SamplesCounted
<1>2. /\ aiCount \in 0..(SampleModulus - 1) /\ timebase \in Nat /\ aiSince \in Int
      /\ clockHistory.set \in Int /\ clockHistory.due \in Nat
      /\ clockHistory.rebased \in Nat
  BY Constants DEF ClockTypeOK, History
<1>3. clockHistory.rebased = 0 => SetAt = 0
  BY DEF SamplesCounted
<1>4. CASE ~aiRunning
  <2>1. CurrentCount = aiCount /\ SetAt = clockHistory.due
    BY <1>2, <1>4 DEF CurrentCount, SetAt
  <2>2. behind \in 0..clockHistory.rebased
    BY <1>1, <1>2
  <2> QED
    BY <1>1, <1>2, <2>1, <2>2
<1>5. CASE aiRunning
  <2> DEFINE since == (timebase - aiSince) * Rate
             S == since \div TicksPerSecond
             B == SetAt \div TicksPerSecond
             D == clockHistory.due \div TicksPerSecond
             Q == (aiCount + S) \div SampleModulus
  <2>1. since \in Int /\ SetAt \in Int /\ clockHistory.due = SetAt + since
    <3>1. since \in Int
      BY <1>2, Constants
    <3>2. SetAt = clockHistory.due - since
      BY <1>5 DEF SetAt
    <3> HIDE DEF since
    <3> QED
      BY <1>2, <3>1, <3>2
  <2>2. CurrentCount = (aiCount + S) % SampleModulus
    BY <1>5 DEF CurrentCount
  <2> HIDE DEF since
  <2>3. S \in Int /\ B \in Int /\ D \in Int
    BY <1>2, <2>1, Division, Constants
  <2>4. D - (B + S) \in {0, 1}
    BY <2>1, Rounding, Constants
  <2>5. SetAt = 0 => D = S
    BY <2>1
  <2> HIDE DEF S, B, D
  <2>6. /\ Q \in Int /\ (aiCount + S) % SampleModulus \in 0..(SampleModulus - 1)
        /\ aiCount + S = SampleModulus * Q + ((aiCount + S) % SampleModulus)
    BY <1>2, <2>3, Division, Constants
  <2> HIDE DEF Q
  <2> DEFINE lost == IF clockHistory.rebased = 0 THEN 0 ELSE behind + (D - (B + S))
  <2>7. lost \in 0..clockHistory.rebased
    BY <1>1, <1>2, <2>3, <2>4
  <2>8. aiCount + S = clockHistory.set - lost + D + SampleModulus * turns
    <3>1. CASE clockHistory.rebased = 0
      <4>1. SetAt = 0 /\ behind = 0 /\ D = S
        BY <1>1, <1>2, <1>3, <2>5, <3>1
      <4>2. B = 0
        BY <4>1, Constants DEF B
      <4>3. aiCount = clockHistory.set - behind + B + SampleModulus * turns
        BY <1>1 DEF B
      <4>4. SampleModulus * turns \in Int
        BY Constants
      <4> QED
        BY <1>2, <2>3, <3>1, <4>1, <4>2, <4>3, <4>4
    <3>2. CASE clockHistory.rebased # 0
      <4>1. aiCount = clockHistory.set - behind + B + SampleModulus * turns
        BY <1>1 DEF B
      <4>2. SampleModulus * turns \in Int
        BY Constants
      <4> QED
        BY <1>2, <2>3, <3>2, <4>1, <4>2
    <3> QED
      BY <3>1, <3>2
  <2> HIDE DEF lost
  <2>9. CurrentCount = clockHistory.set - lost + D + SampleModulus * (turns - Q)
    <3>1. SampleModulus * (turns - Q) = SampleModulus * turns - SampleModulus * Q
      BY <2>6, Constants
    <3>2. SampleModulus * turns \in Int /\ SampleModulus * Q \in Int
      BY <2>6, Constants
    <3>3. CurrentCount = (aiCount + S) - SampleModulus * Q
      BY <1>2, <2>2, <2>3, <2>6, <3>2
    <3> QED
      BY <1>2, <2>3, <2>7, <2>8, <3>1, <3>2, <3>3
  <2>10. turns - Q \in Int /\ CurrentCount \in 0..(SampleModulus - 1)
    BY <2>2, <2>6
  <2> QED
    BY <2>7, <2>9, <2>10 DEF D
<1> QED
  BY <1>4, <1>5

LEMMA WriteAiControlKeeps ==
    ASSUME ClockIInv, NEW running \in BOOLEAN, NEW fast \in BOOLEAN, NEW reset \in BOOLEAN,
           WriteAiControl(running, fast, reset)
    PROVE  ClockIInv'
<1>1. /\ aiCount' = IF reset THEN 0 ELSE CurrentCount
      /\ aiSince' = timebase /\ aiRunning' = running /\ aiFast' = fast
      /\ clockHistory' = [clockHistory EXCEPT
             !.due = IF reset THEN 0 ELSE @,
             !.set = IF reset THEN 0 ELSE @,
             !.rebased = IF reset THEN 0 ELSE @ + 1]
      /\ UNCHANGED <<timebase, remainder, dec, decArmed, decPending>>
  BY DEF WriteAiControl
<1>2. /\ clockHistory \in History /\ ClockTypeOK /\ timebase \in Nat
      /\ clockHistory.due \in Nat /\ clockHistory.rebased \in Nat
      /\ clockHistory.set \in 0..(SampleModulus - 1)
  BY DEF ClockIInv, ClockTypeOK, History
<1> DEFINE due == IF reset THEN 0 ELSE clockHistory.due
           set == IF reset THEN 0 ELSE clockHistory.set
           rebased == IF reset THEN 0 ELSE clockHistory.rebased + 1
<1>3. clockHistory' = [clockHistory EXCEPT !.due = due, !.set = set, !.rebased = rebased]
  BY <1>1
<1>4. due \in Nat /\ set \in 0..(SampleModulus - 1) /\ rebased \in Nat
  BY <1>2, Constants
<1> HIDE DEF due, set, rebased
<1>5. /\ clockHistory'.cycles = clockHistory.cycles
      /\ clockHistory'.skipped = clockHistory.skipped
      /\ clockHistory'.written = clockHistory.written
      /\ clockHistory'.elapsed = clockHistory.elapsed
      /\ clockHistory'.taken = clockHistory.taken
      /\ clockHistory'.due = due /\ clockHistory'.set = set
      /\ clockHistory'.rebased = rebased
  BY <1>2, <1>3 DEF History
<1>6. clockHistory' \in History
  <2> DEFINE W == 0..(DecModulus - 1)
             V == 0..(SampleModulus - 1)
  <2>1. History = [cycles : Nat, skipped : Nat, written : W, elapsed : Nat,
                   taken : Nat, due : Nat, set : V, rebased : Nat]
    BY DEF History
  <2>2. set \in V
    BY <1>4
  <2> HIDE DEF W, V
  <2> QED
    BY <1>2, <1>3, <1>4, <2>1, <2>2
<1>7. aiCount' \in 0..(SampleModulus - 1)
  <2>1. CurrentCount \in 0..(SampleModulus - 1)
    BY CountNow DEF ClockIInv
  <2>2. 0 \in 0..(SampleModulus - 1)
    BY Constants
  <2> QED
    BY <1>1, <2>1, <2>2
<1>8. ClockTypeOK'
  <2>1. aiSince' \in 0..timebase'
    BY <1>1, <1>2
  <2> QED
    BY <1>1, <1>2, <1>6, <1>7, <2>1 DEF ClockTypeOK
<1>9. CyclesConserved'
  BY <1>1, <1>5 DEF ClockIInv, CyclesConserved
<1>10. DecrementerCounted'
  BY <1>1, <1>5 DEF ClockIInv, DecrementerCounted
<1>11. SamplesCounted'
  <2>1. SetAt' = due
    <3>1. (timebase' - aiSince') * Rate' = 0
      <4>1. timebase' - aiSince' = 0
        BY <1>1, <1>2
      <4>2. Rate' \in Nat
        BY ClockAssumption DEF Rate
      <4> QED
        BY <4>1, <4>2
    <3> QED
      BY <1>4, <1>5, <3>1 DEF SetAt
  <2>2. CASE reset
    <3>1. due = 0 /\ set = 0 /\ rebased = 0 /\ aiCount' = 0
      BY <1>1, <2>2 DEF due, set, rebased
    <3>2. SetAt' \div TicksPerSecond = 0
      BY <2>1, <3>1, Constants
    <3>3. aiCount' = clockHistory'.set - 0 + (SetAt' \div TicksPerSecond) + SampleModulus * 0
      BY <1>5, <3>1, <3>2, Constants
    <3> QED
      BY <2>1, <3>1, <3>3 DEF SamplesCounted
  <2>3. CASE ~reset
    <3>1. /\ due = clockHistory.due /\ set = clockHistory.set
          /\ rebased = clockHistory.rebased + 1 /\ aiCount' = CurrentCount
      BY <1>1, <2>3 DEF due, set, rebased
    <3>2. PICK behind \in 0..clockHistory.rebased, turns \in Int :
              CurrentCount = clockHistory.set - behind
                             + (clockHistory.due \div TicksPerSecond)
                             + SampleModulus * turns
      BY CountNow DEF ClockIInv
    <3>3. behind \in Nat /\ behind + 1 <= clockHistory'.rebased /\ clockHistory'.rebased # 0
      BY <1>2, <1>5, <3>1
    <3>4. aiCount' = clockHistory'.set - behind + (SetAt' \div TicksPerSecond)
                     + SampleModulus * turns
      BY <1>5, <2>1, <3>1, <3>2
    <3> QED
      BY <3>3, <3>4 DEF SamplesCounted
  <2> QED
    BY <2>2, <2>3
<1> QED
  BY <1>8, <1>9, <1>10, <1>11 DEF ClockIInv

LEMMA WriteAiCountKeeps ==
    ASSUME ClockIInv, NEW value \in 0..(SampleModulus - 1), WriteAiCount(value)
    PROVE  ClockIInv'
<1>1. /\ aiCount' = value /\ aiSince' = timebase
      /\ clockHistory' = [clockHistory EXCEPT !.due = 0, !.set = value, !.rebased = 0]
      /\ UNCHANGED <<timebase, remainder, dec, decArmed, decPending, aiRunning, aiFast>>
  BY DEF WriteAiCount
<1>2. clockHistory \in History /\ ClockTypeOK /\ timebase \in Nat
  BY DEF ClockIInv, ClockTypeOK
<1>3. /\ clockHistory'.cycles = clockHistory.cycles
      /\ clockHistory'.skipped = clockHistory.skipped
      /\ clockHistory'.written = clockHistory.written
      /\ clockHistory'.elapsed = clockHistory.elapsed
      /\ clockHistory'.taken = clockHistory.taken
      /\ clockHistory'.due = 0 /\ clockHistory'.set = value
      /\ clockHistory'.rebased = 0
  BY <1>1, <1>2 DEF History
<1>4. clockHistory' \in History
  BY <1>1, <1>2 DEF History
<1>5. ClockTypeOK'
  <2>1. aiSince' \in 0..timebase'
    BY <1>1, <1>2
  <2> QED
    BY <1>1, <1>2, <1>4, <2>1 DEF ClockTypeOK
<1>6. CyclesConserved'
  BY <1>1, <1>3 DEF ClockIInv, CyclesConserved
<1>7. DecrementerCounted'
  BY <1>1, <1>3 DEF ClockIInv, DecrementerCounted
<1>8. SamplesCounted'
  <2>1. SetAt' = 0
    <3>1. (timebase' - aiSince') * Rate' = 0
      <4>1. timebase' - aiSince' = 0
        BY <1>1, <1>2
      <4>2. Rate' \in Nat
        BY ClockAssumption DEF Rate
      <4> QED
        BY <4>1, <4>2
    <3> QED
      BY <1>3, <3>1 DEF SetAt
  <2>2. SetAt' \div TicksPerSecond = 0
    BY <2>1, Constants
  <2>3. aiCount' = clockHistory'.set - 0 + (SetAt' \div TicksPerSecond) + SampleModulus * 0
    BY <1>1, <1>3, <2>2, Constants
  <2> QED
    BY <2>1, <2>3 DEF SamplesCounted
<1> QED
  BY <1>5, <1>6, <1>7, <1>8 DEF ClockIInv
-----------------------------------------------------------------------------
LEMMA ClockStep == ClockIInv /\ [ClockNext]_clockVars => ClockIInv'
<1> SUFFICES ASSUME ClockIInv, [ClockNext]_clockVars PROVE ClockIInv'
  OBVIOUS
<1>1. ASSUME TimePasses PROVE ClockIInv'
  <2>1. ASSUME NEW cycles \in 1..(MaxSlice * CyclesPerTick), RunBlocks(cycles)
        PROVE  ClockIInv'
    <3>1. cycles \in Nat
      <4>1. MaxSlice * CyclesPerTick \in Nat
        BY Constants
      <4> QED
        BY <4>1
    <3> QED
      BY <2>1, <3>1, RunBlocksKeeps
  <2>2. ASSUME NEW passed \in 1..MaxSlice, EndFrame(passed)
        PROVE  ClockIInv'
    <3>1. passed \in 0..MaxSlice
      BY Constants
    <3> QED
      BY <2>2, <3>1, EndFrameKeeps
  <2> QED
    BY <1>1, <2>1, <2>2 DEF TimePasses
<1>2. ASSUME DecrementerUse PROVE ClockIInv'
  BY <1>2, WriteDecrementerKeeps, TakeDecrementerKeeps DEF DecrementerUse
<1>3. ASSUME SampleUse PROVE ClockIInv'
  <2>1. {0, SampleModulus - 1} \subseteq 0..(SampleModulus - 1)
    BY Constants
  <2>2. ASSUME NEW value \in {0, SampleModulus - 1}, WriteAiCount(value)
        PROVE  ClockIInv'
    BY <2>1, <2>2, WriteAiCountKeeps
  <2> QED
    BY <1>3, <2>2, WriteAiControlKeeps DEF SampleUse
<1>4. ASSUME UNCHANGED clockVars PROVE ClockIInv'
  BY <1>4 DEF clockVars, ClockIInv, ClockTypeOK, CyclesConserved, DecrementerCounted,
              SamplesCounted, SetAt, Rate, History
<1> QED
  BY <1>1, <1>2, <1>3, <1>4 DEF ClockNext
-----------------------------------------------------------------------------
(* From witnesses back to divisions. *)

LEMMA DecrementerFollows ==
    ASSUME ClockIInv
    PROVE  DecrementerExact
<1> SUFFICES ASSUME decArmed PROVE DecrementerExact
  BY DEF DecrementerExact
<1>1. PICK turns \in Nat :
          /\ dec = clockHistory.written - clockHistory.elapsed + DecModulus * turns
          /\ (turns > 0) <=> (decPending \/ clockHistory.taken > 0)
          /\ clockHistory.taken + (IF decPending THEN 1 ELSE 0) <= turns
  BY DEF ClockIInv, DecrementerCounted
<1>2. /\ clockHistory.written \in Int /\ clockHistory.elapsed \in Int
      /\ dec \in 0..(DecModulus - 1)
  BY Constants DEF ClockIInv, ClockTypeOK, History
<1> DEFINE fallen == clockHistory.written - clockHistory.elapsed
           above == DecModulus - 1 - dec
<1>3. fallen \in Int /\ fallen = DecModulus * (0 - turns) + dec
  <2>1. DecModulus * (0 - turns) = 0 - DecModulus * turns /\ DecModulus * turns \in Int
    BY Constants
  <2> QED
    BY <1>1, <1>2, <2>1, Constants
<1>4. fallen % DecModulus = dec
  <2> HIDE DEF fallen
  <2>1. 0 - turns \in Int
    OBVIOUS
  <2> QED
    BY <1>2, <1>3, <2>1, Quotient, Constants
<1>5. Crossings = turns
  <2> DEFINE x == clockHistory.elapsed + DecModulus - 1 - clockHistory.written
  <2>1. above \in 0..(DecModulus - 1) /\ x \in Int /\ x = DecModulus * turns + above
    <3>1. DecModulus * turns \in Int
      BY Constants
    <3> QED
      BY <1>1, <1>2, <3>1, Constants
  <2> HIDE DEF x, above
  <2>2. x \div DecModulus = turns
    BY <2>1, Quotient, Constants
  <2> QED
    BY <2>2 DEF Crossings, x
<1> QED
  BY <1>1, <1>4, <1>5 DEF DecrementerExact

LEMMA SamplesFollow ==
    ASSUME ClockIInv
    PROVE  SamplesWithinRounding
<1>1. PICK behind \in 0..clockHistory.rebased, turns \in Int :
          CurrentCount = clockHistory.set - behind
                         + (clockHistory.due \div TicksPerSecond)
                         + SampleModulus * turns
  BY CountNow DEF ClockIInv
<1>2. CurrentCount \in 0..(SampleModulus - 1)
  BY CountNow DEF ClockIInv
<1> DEFINE D == clockHistory.due \div TicksPerSecond
           x == clockHistory.set - behind + D
<1>3. /\ clockHistory.set \in Int /\ clockHistory.due \in Nat
      /\ clockHistory.rebased \in Nat
  BY Constants DEF ClockIInv, ClockTypeOK, History
<1>4. D \in Int
  <2>1. clockHistory.due \in Int
    BY <1>3
  <2> QED
    BY <2>1, Division, Constants DEF D
<1> HIDE DEF D
<1>5. x \in Int /\ x = SampleModulus * (0 - turns) + CurrentCount
  <2>1. SampleModulus * (0 - turns) = 0 - SampleModulus * turns
        /\ SampleModulus * turns \in Int
    BY Constants
  <2>2. CurrentCount = clockHistory.set - behind + D + SampleModulus * turns
    BY <1>1 DEF D
  <2> QED
    BY <1>2, <1>3, <1>4, <2>1, <2>2
<1> HIDE DEF x
<1>6. x % SampleModulus = CurrentCount
  <2>1. 0 - turns \in Int
    OBVIOUS
  <2> QED
    BY <1>2, <1>5, <2>1, Quotient, Constants
<1> QED
  BY <1>6 DEF SamplesWithinRounding, x, D

(* The clocks' invariant holds always: registers in their widths, no cycle *)
(* lost, and both counters a whole number of turns from the history.       *)
THEOREM ClockInvariance == ClockSpec => []ClockIInv
  BY ClockInitial, ClockStep, PTL DEF ClockSpec

(* The registers keep their widths whatever the slices, rates and writes   *)
(* (advance_timebase's 32-bit subtraction, ai_current_sample_count).       *)
THEOREM ClockTypeCorrect == ClockSpec => []ClockTypeOK
<1>1. ClockIInv => ClockTypeOK
  BY DEF ClockIInv
<1> QED
  BY <1>1, ClockInvariance, PTL

(* For all widths, rates and slices: no cycle is lost, the decrementer     *)
(* interrupts exactly when it has fallen below zero, and the samples are   *)
(* behind by at most one for each write of the control register.           *)
THEOREM ClockIsExact == ClockSpec => []ClockExact
<1>1. ClockIInv => ClockExact
  BY DecrementerFollows, SamplesFollow DEF ClockIInv, ClockExact
<1> QED
  BY <1>1, ClockInvariance, PTL
-----------------------------------------------------------------------------
(* Retraces. *)

\* The counters of PacingTypeOK, and what it says of the threads.
Counters == ticks \in 0..TickCapacity /\ left \in 0..JobBlocks

Threads ==
    /\ pacing \in BOOLEAN /\ attempted \in BOOLEAN
    /\ vi \in BOOLEAN /\ blockRun \in BOOLEAN
    /\ main \in {"works", "receives", "waits"}
    /\ worker \in {"none", "ready", "blocked"}
    /\ loader \in {"none", "ready", "blocked"}
    /\ current \in {"main", "worker", "loader", "none"}
    /\ current = "worker" => worker = "ready"
    /\ current = "loader" => loader = "ready"
    /\ current # "main" \/ framed => main = "waits"
    /\ attempted => pacing
    /\ loader # "none" <=> worker = "blocked"

LEMMA PacingParts == PacingTypeOK <=> Counters /\ Threads
  BY DEF PacingTypeOK, Counters, Threads

LEMMA PacingInitial == PacingInit => PacingTypeOK
<1> SUFFICES ASSUME PacingInit PROVE Counters /\ Threads
  BY PacingParts
<1>1. Counters
  BY BoundAssumption DEF PacingInit, Counters
<1>2. Threads
  BY DEF PacingInit, Threads
<1> QED
  BY <1>1, <1>2

LEMMA CountersStep == Counters /\ [PacingNext]_pacingVars => Counters'
<1> SUFFICES ASSUME Counters, [PacingNext]_pacingVars PROVE Counters'
  OBVIOUS
<1>1. /\ TickCapacity \in Nat /\ JobBlocks \in Nat
      /\ ticks \in 0..TickCapacity /\ left \in 0..JobBlocks
  BY BoundAssumption DEF Counters
<1>2. ticks' \in {ticks, ticks + 1, ticks - 1}
  BY DEF PacingNext, Frame, Block, RetraceInterrupt, Thread, MainWorks, MainReceives, Select,
         WorkerRuns, LoaderRuns, Idles, AnswerArrives, pacingVars
<1>3. /\ ticks' = ticks + 1 => ticks' = ticks \/ ticks < TickCapacity
      /\ ticks' = ticks - 1 => ticks' = ticks \/ ticks > 0
  <2>1. CASE RetraceInterrupt
    BY <1>1, <2>1 DEF RetraceInterrupt
  <2>2. CASE MainReceives
    BY <1>1, <2>2 DEF MainReceives
  <2>3. CASE UNCHANGED ticks
    BY <1>1, <2>3
  <2> QED
    BY <2>1, <2>2, <2>3 DEF PacingNext, Frame, Block, Thread, MainWorks, Select,
         WorkerRuns, LoaderRuns, Idles, AnswerArrives, pacingVars
<1>4. left' = left \/ left' = JobBlocks \/ (left > 0 /\ left' = left - 1)
  BY DEF PacingNext, Frame, Block, RetraceInterrupt, Thread, MainWorks, MainReceives, Select,
         WorkerRuns, LoaderRuns, Idles, AnswerArrives, hostVars, pacingVars
<1>5. ticks' \in 0..TickCapacity
  BY <1>1, <1>2, <1>3
<1>6. left' \in 0..JobBlocks
  BY <1>1, <1>4
<1> QED
  BY <1>5, <1>6 DEF Counters

LEMMA ThreadsStep == Threads /\ [PacingNext]_pacingVars => Threads'
<1> SUFFICES ASSUME Threads, [PacingNext]_pacingVars PROVE Threads'
  OBVIOUS
<1> USE DEF Threads, hostVars, WaitingForRetrace
<1>1. CASE Frame
  BY <1>1 DEF Frame, BackgroundRunning, BeginHandoff, AsyncWorkPending
<1>2. CASE blockRun' = TRUE /\ RetraceInterrupt
  BY <1>2 DEF RetraceInterrupt
<1>3. ASSUME blockRun' = TRUE, UNCHANGED framed, MainWorks PROVE Threads'
  BY <1>3 DEF MainWorks
<1>4. ASSUME blockRun' = TRUE, UNCHANGED framed, MainReceives PROVE Threads'
  <2>1. main' \in {"works", "waits"} /\ pacing' \in BOOLEAN /\ (pacing => pacing')
    <3>1. pacing \in BOOLEAN /\ pacing' \in {pacing, TRUE}
      BY <1>4 DEF MainReceives
    <3>2. pacing' = pacing \/ pacing' = TRUE
      BY <3>1
    <3>3. ASSUME pacing' = pacing PROVE pacing' \in BOOLEAN /\ (pacing => pacing')
      BY <3>1, <3>3, Zenon
    <3>4. ASSUME pacing' = TRUE PROVE pacing' \in BOOLEAN /\ (pacing => pacing')
      BY <3>4, Zenon
    <3>5. main' \in {"works", "waits"}
      BY <1>4 DEF MainReceives
    <3>6. pacing' \in BOOLEAN /\ (pacing => pacing')
      BY <3>2, <3>3, <3>4, Zenon
    <3> QED
      BY <3>5, <3>6, Zenon
  <2>2. /\ current = "main" /\ main = "receives"
        /\ UNCHANGED <<attempted, vi, worker, loader, left, current>>
    BY <1>4 DEF MainReceives
  <2> QED
    BY <1>4, <2>1, <2>2
<1>5. ASSUME blockRun' = TRUE, UNCHANGED framed, Select PROVE Threads'
  BY <1>5 DEF Select
<1>6. ASSUME blockRun' = TRUE, UNCHANGED framed, WorkerRuns PROVE Threads'
  BY <1>6 DEF WorkerRuns
<1>7. ASSUME blockRun' = TRUE, UNCHANGED framed, LoaderRuns PROVE Threads'
  BY <1>7 DEF LoaderRuns
<1>8. ASSUME blockRun' = TRUE, UNCHANGED framed, AnswerArrives PROVE Threads'
  BY <1>8 DEF AnswerArrives
<1>9. ASSUME blockRun' = TRUE, UNCHANGED framed, Idles PROVE Threads'
  BY <1>9 DEF Idles
<1>10. CASE UNCHANGED pacingVars
  BY <1>10 DEF pacingVars
<1> QED
  BY <1>1, <1>2, <1>3, <1>4, <1>5, <1>6, <1>7, <1>8, <1>9, <1>10
  DEF PacingNext, Block, Thread

LEMMA PacingStep == PacingTypeOK /\ [PacingNext]_pacingVars => PacingTypeOK'
<1>1. PacingTypeOK' <=> Counters' /\ Threads'
  BY DEF PacingTypeOK, Counters, Threads
<1> QED
  BY <1>1, PacingParts, CountersStep, ThreadsStep

(* Whatever the guest's threads do with a retrace, a job or an answer, for *)
(* any queue and any job: the installed thread can run, the loader works   *)
(* only while the worker waits for it, and main.c gives a frame to         *)
(* background work only once it has seen the guest wait for a retrace.     *)
THEOREM PacingTypeCorrect == PacingSpec => []PacingTypeOK
  BY PacingInitial, PacingStep, PTL DEF PacingSpec

(* Retraces the main thread has not asked for: ticks in its queue, and the *)
(* interrupt that will post one more unless the thread sleeps by then.     *)
Unasked == vi /\ main # "waits"
TicksAhead == ticks + (IF Unasked THEN 1 ELSE 0)

AheadCounts ==
    /\ ticks \in Nat /\ TicksAhead \in Nat
    /\ Unasked => TicksAhead = ticks + 1
    /\ ~Unasked => TicksAhead = ticks

LEMMA TicksAheadTyped == PacingTypeOK => AheadCounts
  BY BoundAssumption DEF PacingTypeOK, TicksAhead, AheadCounts

\* The step says how the two parts change; the rest is arithmetic.
LEMMA AheadChanges ==
    ASSUME PacingTypeOK, PacingTypeOK', pacing, [PacingNext]_pacingVars
    PROVE  /\ pacing'
           /\ \/ ticks' = ticks /\ (Unasked' => Unasked)
              \/ ticks' = ticks - 1 /\ ticks > 0 /\ (Unasked' => Unasked)
              \/ ticks' <= ticks + 1 /\ Unasked /\ ~Unasked'
<1> USE DEF hostVars, WaitingForRetrace, Unasked
<1>1. CASE Frame
  <2>1. pacing' /\ ticks' = ticks /\ main' = main
    BY <1>1, Zenon DEF Frame
  <2>2. CASE SignalsRetrace(pacing')
    <3>1. main = "waits"
      BY <2>1, <2>2, Zenon DEF SignalsRetrace
    <3> QED
      BY <2>1, <3>1
  <2>3. CASE ~SignalsRetrace(pacing')
    <3>1. vi' = vi
      BY <1>1, <2>3, Zenon DEF Frame
    <3> QED
      BY <2>1, <3>1
  <2> QED
    BY <2>2, <2>3
<1>2. CASE RetraceInterrupt
  <2>1. pacing' /\ vi /\ ~vi'
    BY <1>2 DEF RetraceInterrupt
  <2>2. CASE main = "waits"
    <3>1. ticks' = ticks
      BY <1>2, <2>2 DEF RetraceInterrupt
    <3> QED
      BY <2>1, <3>1
  <2>3. CASE main # "waits"
    <3>1. ticks' = IF ticks < TickCapacity THEN ticks + 1 ELSE ticks
      BY <1>2, <2>3 DEF RetraceInterrupt
    <3>2. ticks' <= ticks + 1
      BY <3>1, TicksAheadTyped DEF AheadCounts
    <3> QED
      BY <2>1, <2>3, <3>2
  <2> QED
    BY <2>2, <2>3
<1>3. CASE MainWorks
  <2>1. pacing' /\ ticks' = ticks /\ vi' = vi /\ main # "waits"
    BY <1>3 DEF MainWorks
  <2> QED
    BY <2>1
<1>4. CASE MainReceives
  <2>1. pacing' \in {pacing, TRUE} /\ vi' = vi /\ main # "waits"
    BY <1>4 DEF MainReceives
  <2>2. pacing'
    BY <2>1, Zenon
  <2>3. CASE ticks > 0
    <3>1. ticks' = ticks - 1
      BY <1>4, <2>3 DEF MainReceives
    <3> QED
      BY <2>1, <2>2, <2>3, <3>1
  <2>4. CASE ~(ticks > 0)
    <3>1. ticks' = ticks
      BY <1>4, <2>4 DEF MainReceives
    <3> QED
      BY <2>1, <2>2, <3>1
  <2> QED
    BY <2>3, <2>4
<1>5. CASE Select \/ WorkerRuns \/ LoaderRuns \/ AnswerArrives \/ Idles
  <2>1. pacing' = pacing /\ vi' = vi /\ ticks' = ticks /\ main' = main
    BY <1>5 DEF Select, WorkerRuns, LoaderRuns, AnswerArrives, Idles
  <2> QED
    BY <2>1
<1>6. CASE UNCHANGED pacingVars
  BY <1>6 DEF pacingVars
<1> QED
  BY <1>1, <1>2, <1>3, <1>4, <1>5, <1>6 DEF PacingNext, Block, Thread

(* Once main.c paces retraces (g_vi_demand_pacing), it goes on doing so,   *)
(* and no step adds to the retraces the guest's main thread has not asked  *)
(* for: what the host signals then is for a thread that sleeps.            *)
THEOREM PacedRetracesAreAskedFor ==
    PacingSpec => [][pacing => pacing' /\ TicksAhead' <= TicksAhead]_pacingVars
<1>1. PacingTypeOK' => AheadCounts'
  BY TicksAheadTyped, PTL
<1>2. PacingTypeOK /\ PacingTypeOK' /\ [PacingNext]_pacingVars
      => [pacing => pacing' /\ TicksAhead' <= TicksAhead]_pacingVars
  <2> SUFFICES ASSUME PacingTypeOK, PacingTypeOK', [PacingNext]_pacingVars, pacing
               PROVE  pacing' /\ TicksAhead' <= TicksAhead
    OBVIOUS
  <2>1. AheadCounts /\ AheadCounts'
    BY <1>1, TicksAheadTyped
  <2>2. /\ pacing'
        /\ \/ ticks' = ticks /\ (Unasked' => Unasked)
           \/ ticks' = ticks - 1 /\ ticks > 0 /\ (Unasked' => Unasked)
           \/ ticks' <= ticks + 1 /\ Unasked /\ ~Unasked'
    BY AheadChanges
  <2> DEFINE before == Unasked
             after == Unasked'
             t == ticks
             u == ticks'
             m == IF before THEN t + 1 ELSE t
             n == IF after THEN u + 1 ELSE u
  <2>3. t \in Nat /\ u \in Nat /\ TicksAhead = m /\ TicksAhead' = n
    BY <2>1 DEF AheadCounts
  <2>4. \/ u = t /\ (after => before)
        \/ u = t - 1 /\ t > 0 /\ (after => before)
        \/ u <= t + 1 /\ before /\ ~after
    BY <2>2
  <2> HIDE DEF before, after, t, u
  <2>5. n <= m
    BY <2>3, <2>4
  <2> QED
    BY <2>2, <2>3, <2>5
<1> QED
  BY <1>2, PacingTypeCorrect, PTL DEF PacingSpec

(* The lasting half of NoTicksAhead, for any queue: when retraces are      *)
(* paced and none is ahead of the main thread, its queue stays empty for   *)
(* good, so that the thread sleeps before each retrace.                    *)
THEOREM TicksStayGone == PacingSpec => [](pacing /\ TicksAhead = 0 => [](ticks = 0))
<1> DEFINE CaughtUp == pacing /\ TicksAhead = 0
<1>1. PacingTypeOK' => AheadCounts'
  BY TicksAheadTyped, PTL
<1>2. PacingTypeOK' /\ CaughtUp
      /\ [pacing => pacing' /\ TicksAhead' <= TicksAhead]_pacingVars
      => CaughtUp'
  <2> SUFFICES ASSUME PacingTypeOK', CaughtUp,
                      [pacing => pacing' /\ TicksAhead' <= TicksAhead]_pacingVars
               PROVE  CaughtUp'
    OBVIOUS
  <2>1. CASE UNCHANGED pacingVars
    BY <2>1 DEF pacingVars, TicksAhead, Unasked
  <2>2. CASE pacing => pacing' /\ TicksAhead' <= TicksAhead
    <3>1. TicksAhead' \in Nat
      BY <1>1 DEF AheadCounts
    <3>2. pacing' /\ TicksAhead' <= 0
      BY <2>2
    <3> QED
      BY <3>1, <3>2
  <2> QED
    BY <2>1, <2>2
<1>3. PacingTypeOK /\ CaughtUp => ticks = 0
  <2> SUFFICES ASSUME PacingTypeOK, CaughtUp PROVE ticks = 0
    OBVIOUS
  <2>1. AheadCounts
    BY TicksAheadTyped
  <2> QED
    BY <2>1 DEF AheadCounts
<1> HIDE DEF CaughtUp
<1>4. PacingSpec => [](CaughtUp => [](ticks = 0))
  BY <1>2, <1>3, PacingTypeCorrect, PacedRetracesAreAskedFor, PTL
<1> QED
  BY <1>4 DEF CaughtUp
-----------------------------------------------------------------------------
(* The bits of a code byte, as the format numbers them and as the decoders *)
(* shift them out.                                                         *)

Doubled(g, n) == IF n = 0 THEN 1 ELSE 2 * g[n - 1]

LEMMA WeightExists ==
    \E g \in [0 .. GroupBits -> Nat \ {0}] : g = [n \in 0 .. GroupBits |-> Doubled(g, n)]
<1> DEFINE Solved(k) == \E g \in [0 .. GroupBits -> Nat \ {0}] :
                           \A n \in 0 .. k : g[n] = Doubled(g, n)
           T == {k \in Nat : k <= GroupBits => Solved(k)}
<1>1. GroupBits \in Nat
  BY Yaz0Assumption
<1>2. 0 \in T
  <2> DEFINE g == [n \in 0 .. GroupBits |-> 1]
  <2>1. g \in [0 .. GroupBits -> Nat \ {0}]
    OBVIOUS
  <2>2. \A n \in 0 .. 0 : g[n] = Doubled(g, n)
    BY <1>1 DEF Doubled
  <2> HIDE DEF g
  <2> QED
    BY <2>1, <2>2
<1>3. ASSUME NEW k \in T PROVE k + 1 \in T
  <2> SUFFICES ASSUME k + 1 <= GroupBits PROVE Solved(k + 1)
    OBVIOUS
  <2>1. k \in Nat /\ k <= GroupBits /\ k \in 0 .. GroupBits
    BY <1>1
  <2>2. PICK g \in [0 .. GroupBits -> Nat \ {0}] : \A n \in 0 .. k : g[n] = Doubled(g, n)
    BY <2>1
  <2> DEFINE next == 2 * g[k]
             h == [n \in 0 .. GroupBits |-> IF n = k + 1 THEN next ELSE g[n]]
  <2>3. next \in Nat \ {0}
    BY <2>1, <2>2
  <2>4. next = Doubled(g, k + 1)
    BY <2>1 DEF Doubled
  <2> HIDE DEF next
  <2>5. h \in [0 .. GroupBits -> Nat \ {0}]
    BY <2>2, <2>3
  <2>6. ASSUME NEW n \in 0 .. k + 1 PROVE h[n] = Doubled(h, n)
    <3>1. Doubled(h, n) = Doubled(g, n)
      <4>1. CASE n = 0
        BY <4>1 DEF Doubled
      <4>2. CASE n # 0
        <5>1. n - 1 \in 0 .. GroupBits /\ n - 1 # k + 1
          BY <1>1, <2>1, <4>2
        <5>2. h[n - 1] = g[n - 1]
          BY <5>1
        <5> HIDE DEF h
        <5> QED
          BY <5>2 DEF Doubled
      <4> QED
        BY <4>1, <4>2
    <3>2. CASE n = k + 1
      <4>1. n \in 0 .. GroupBits
        BY <1>1, <2>1, <3>2
      <4> QED
        BY <2>4, <3>1, <3>2, <4>1
    <3>3. CASE n # k + 1
      <4>1. n \in 0 .. k /\ n \in 0 .. GroupBits
        BY <1>1, <2>1, <3>3
      <4> QED
        BY <2>2, <3>1, <3>3, <4>1
    <3> QED
      BY <3>2, <3>3
  <2> HIDE DEF h
  <2> QED
    BY <2>5, <2>6
<1>4. GroupBits \in T
  <2>1. T \in SUBSET Nat
    OBVIOUS
  <2> HIDE DEF T
  <2> QED
    BY <1>1, <1>2, <1>3, <2>1, SetInduction
<1>5. PICK g \in [0 .. GroupBits -> Nat \ {0}] : \A n \in 0 .. GroupBits : g[n] = Doubled(g, n)
  BY <1>1, <1>4
<1>6. g = [n \in 0 .. GroupBits |-> Doubled(g, n)]
  BY <1>5
<1> QED
  BY <1>6

LEMMA Weights ==
    /\ Weight[0] = 1
    /\ \A n \in 0 .. GroupBits : Weight[n] \in Nat \ {0}
    /\ \A n \in 0 .. GroupBits - 1 : Weight[n + 1] = 2 * Weight[n]
<1>1. Weight = [n \in 0 .. GroupBits |-> Doubled(Weight, n)]
  BY WeightExists DEF Weight, Doubled
<1>2. GroupBits \in Nat
  BY Yaz0Assumption
<1>3. Weight[0] = 1
  <2>1. 0 \in 0 .. GroupBits
    BY <1>2
  <2>2. Weight[0] = Doubled(Weight, 0)
    BY <1>1, <2>1
  <2> QED
    BY <2>2 DEF Doubled
<1>4. ASSUME NEW n \in 0 .. GroupBits - 1 PROVE Weight[n + 1] = 2 * Weight[n]
  <2>1. n + 1 \in 0 .. GroupBits /\ n + 1 # 0 /\ (n + 1) - 1 = n
    BY <1>2
  <2>2. Weight[n + 1] = Doubled(Weight, n + 1)
    BY <1>1, <2>1
  <2> QED
    BY <2>1, <2>2 DEF Doubled
<1> DEFINE T == {k \in Nat : k <= GroupBits => Weight[k] \in Nat \ {0}}
<1>5. 0 \in T
  BY <1>3
<1>6. ASSUME NEW k \in T PROVE k + 1 \in T
  <2> SUFFICES ASSUME k + 1 <= GroupBits PROVE Weight[k + 1] \in Nat \ {0}
    OBVIOUS
  <2>1. k \in 0 .. GroupBits - 1 /\ k <= GroupBits
    BY <1>2
  <2>2. Weight[k] \in Nat \ {0} /\ Weight[k + 1] = 2 * Weight[k]
    BY <1>4, <2>1
  <2> DEFINE w == Weight[k]
  <2> HIDE DEF w
  <2>3. w \in Nat \ {0} => 2 * w \in Nat \ {0}
    OBVIOUS
  <2> QED
    BY <2>2, <2>3 DEF w
<1>7. T = Nat
  <2>1. T \in SUBSET Nat
    OBVIOUS
  <2> HIDE DEF T
  <2> QED
    BY <1>5, <1>6, <2>1, SetInduction
<1>8. \A n \in 0 .. GroupBits : Weight[n] \in Nat \ {0}
  <2> SUFFICES ASSUME NEW n \in 0 .. GroupBits PROVE Weight[n] \in Nat \ {0}
    OBVIOUS
  <2>1. n \in T /\ n <= GroupBits
    BY <1>2, <1>7
  <2> QED
    BY <2>1
<1> QED
  BY <1>3, <1>4, <1>8

LEMMA WeightsMultiply ==
    ASSUME NEW m \in Nat, NEW n \in Nat, m + n <= GroupBits
    PROVE  Weight[m] * Weight[n] = Weight[m + n]
<1>1. GroupBits \in Nat /\ m \in 0 .. GroupBits
  BY Yaz0Assumption
<1> DEFINE T == {k \in Nat : m + k <= GroupBits => Weight[m] * Weight[k] = Weight[m + k]}
<1>2. 0 \in T
  <2>1. Weight[0] = 1 /\ Weight[m] \in Nat \ {0} /\ m + 0 = m
    BY <1>1, Weights
  <2> QED
    BY <2>1
<1>3. ASSUME NEW k \in T PROVE k + 1 \in T
  <2> SUFFICES ASSUME m + (k + 1) <= GroupBits
               PROVE  Weight[m] * Weight[k + 1] = Weight[m + (k + 1)]
    OBVIOUS
  <2>1. /\ k \in 0 .. GroupBits - 1 /\ m + k \in 0 .. GroupBits - 1 /\ m + (k + 1) = (m + k) + 1
        /\ m + k <= GroupBits /\ k \in 0 .. GroupBits /\ m + k \in 0 .. GroupBits
    BY <1>1
  <2> DEFINE a == Weight[m]
             b == Weight[k]
             c == Weight[m + k]
  <2>2. a \in Nat /\ b \in Nat /\ c \in Nat /\ a * b = c
    BY <1>1, <2>1, Weights
  <2>3. Weight[k + 1] = 2 * b /\ Weight[m + (k + 1)] = 2 * c
    BY <2>1, Weights
  <2> HIDE DEF b, c, a
  <2>4. a * (2 * b) = 2 * (a * b)
    BY <2>2
  <2> QED
    BY <2>2, <2>3, <2>4 DEF a
<1>4. T = Nat
  <2>1. T \in SUBSET Nat
    OBVIOUS
  <2> HIDE DEF T
  <2> QED
    BY <1>2, <1>3, <2>1, SetInduction
<1> QED
  BY <1>4

\* A byte's lower part shifted up by one bit: the arithmetic.
LEMMA ShiftOne ==
    ASSUME NEW w \in Nat \ {0}, NEW v \in Nat \ {0}, NEW b \in Nat
    PROVE  /\ (b % (2 * w)) * v \in 0 .. 2 * (w * v) - 1
           /\ (b % (2 * w)) * v >= w * v <=> (b \div w) % 2 = 1
           /\ (2 * ((b % (2 * w)) * v)) % (2 * (w * v)) = (b % w) * (2 * v)
<1> DEFINE q == b \div (2 * w)
           r == b % (2 * w)
           d == r \div w
           s == r % w
<1>1. q \in Int /\ r \in 0 .. 2 * w - 1 /\ b = (2 * w) * q + r
  <2>1. 2 * w \in Nat \ {0} /\ b \in Int
    OBVIOUS
  <2> DEFINE m == 2 * w
  <2> HIDE DEF m
  <2>2. m \in Nat \ {0} => b \div m \in Int /\ b % m \in 0 .. (m - 1) /\ b = m * (b \div m) + (b % m)
    BY Division
  <2> QED
    BY <2>1, <2>2 DEF m
<1> HIDE DEF q, r
<1>2. d \in Int /\ s \in 0 .. w - 1 /\ r = w * d + s
  <2>1. r \in Int
    BY <1>1
  <2> QED
    BY <2>1, Division
<1> HIDE DEF d, s
<1>3. d \in {0, 1}
  <2>1. d >= 0
    <3> SUFFICES ASSUME d <= -1 PROVE FALSE
      BY <1>2
    <3>1. w * d <= -w
      BY <1>2
    <3> QED
      BY <1>1, <1>2, <3>1
  <2>2. d <= 1
    <3> SUFFICES ASSUME d >= 2 PROVE FALSE
      BY <1>2
    <3>1. w * d >= 2 * w
      BY <1>2
    <3> QED
      BY <1>1, <1>2, <3>1
  <2> QED
    BY <1>2, <2>1, <2>2
<1>4. b = w * (2 * q + d) + s
  <2>1. (2 * w) * q + w * d = w * (2 * q + d)
    BY <1>1, <1>2
  <2> QED
    BY <1>1, <1>2, <2>1
<1>5. b \div w = 2 * q + d /\ b % w = s
  <2>1. 2 * q + d \in Int /\ b \in Int
    BY <1>1, <1>2
  <2> QED
    BY <1>2, <1>4, <2>1, Quotient
<1>6. (2 * q + d) % 2 = d
  <2>1. 2 * q + d \in Int /\ d \in 0 .. (2 - 1) /\ 2 \in Nat \ {0}
    BY <1>1, <1>3
  <2> QED
    BY <1>1, <2>1, Quotient
<1> DEFINE p == w * v
           t == s * v
<1>7. p \in Nat \ {0} /\ t \in Nat /\ t < p
  <2>1. p \in Nat /\ t \in Nat
    BY <1>2
  <2>2. s + 1 <= w
    BY <1>2
  <2>3. (s + 1) * v <= w * v
    BY <1>2, <2>2
  <2>4. (s + 1) * v = t + v
    BY <1>2
  <2> QED
    BY <2>1, <2>3, <2>4
<1>8. r * v = d * p + t
  BY <1>1, <1>2
<1>9. s * (2 * v) = 2 * t
  BY <1>2
<1> HIDE DEF p, t
<1>10. r * v \in 0 .. 2 * p - 1 /\ (r * v >= p <=> d = 1)
  <2>1. CASE d = 0
    BY <1>7, <1>8, <2>1
  <2>2. CASE d = 1
    BY <1>7, <1>8, <2>2
  <2> QED
    BY <1>3, <2>1, <2>2
<1>11. (2 * (r * v)) % (2 * p) = 2 * t
  <2> DEFINE m == 2 * p
             a == 2 * (r * v)
             k == 2 * t
  <2>1. m \in Nat \ {0} /\ k \in 0 .. (m - 1) /\ d \in Int
    BY <1>3, <1>7
  <2>2. a = m * d + k /\ a \in Int
    <3>1. CASE d = 0
      BY <1>7, <1>8, <3>1
    <3>2. CASE d = 1
      BY <1>7, <1>8, <3>2
    <3> QED
      BY <1>3, <3>1, <3>2
  <2> HIDE DEF m, a, k
  <2>3. a % m = k
    BY <2>1, <2>2, Quotient
  <2> QED
    BY <2>3 DEF m, a, k
<1>12. (b \div w) % 2 = 1 <=> d = 1
  BY <1>5, <1>6
<1> QED
  BY <1>5, <1>9, <1>10, <1>11, <1>12 DEF r, p

\* What is left of a byte when its first k bits are shifted out.
CodeShifted(b, k) == (b % Weight[GroupBits - k]) * Weight[k]

LEMMA ByteTyped ==
    /\ GroupBits \in Nat \ {0} /\ Radix \in Nat \ {0} /\ Radix * Radix = Weight[GroupBits]
    /\ Byte = 0 .. Weight[GroupBits] - 1 /\ Weight[GroupBits] \in Nat \ {0}
<1>1. GroupBits \in Nat \ {0} /\ Radix \in Nat /\ Radix * Radix = Weight[GroupBits]
  BY Yaz0Assumption
<1>2. Weight[GroupBits] \in Nat \ {0}
  BY <1>1, Weights
<1>3. Radix # 0
  BY <1>1, <1>2
<1> QED
  BY <1>1, <1>2, <1>3 DEF Byte

LEMMA ShiftedBits ==
    ASSUME NEW b \in Byte, NEW k \in 0 .. GroupBits - 1
    PROVE  /\ CodeShifted(b, 0) = b
           /\ CodeShifted(b, k) \in Byte
           /\ CodeShifted(b, k) >= TopBit <=> (b \div Weight[GroupBits - 1 - k]) % 2 = 1
           /\ (CodeShifted(b, k) * 2) % (Radix * Radix) = CodeShifted(b, k + 1)
<1> DEFINE top == Weight[GroupBits]
           w == Weight[GroupBits - 1 - k]
           v == Weight[k]
<1>1. /\ GroupBits \in Nat /\ top \in Nat \ {0} /\ Radix * Radix = top /\ Byte = 0 .. top - 1
      /\ k \in Nat /\ k \in 0 .. GroupBits /\ GroupBits - 1 - k \in 0 .. GroupBits - 1
      /\ GroupBits - 1 - k \in Nat /\ GroupBits - 1 - k \in 0 .. GroupBits
      /\ (GroupBits - 1 - k) + 1 = GroupBits - k /\ (GroupBits - 1 - k) + k = GroupBits - 1
      /\ GroupBits - 1 \in 0 .. GroupBits - 1 /\ (GroupBits - 1) + 1 = GroupBits
  BY ByteTyped
<1>2. w \in Nat \ {0} /\ v \in Nat \ {0}
  BY <1>1, Weights
<1>3. Weight[GroupBits - k] = 2 * w
  <2>1. Weight[(GroupBits - 1 - k) + 1] = 2 * Weight[GroupBits - 1 - k]
    BY <1>1, Weights
  <2> QED
    BY <1>1, <2>1
<1>4. Weight[k + 1] = 2 * v
  BY Weights
<1>5. TopBit = w * v
  <2>1. Weight[GroupBits - 1 - k] * Weight[k] = Weight[(GroupBits - 1 - k) + k]
    BY <1>1, WeightsMultiply
  <2> QED
    BY <1>1, <2>1 DEF TopBit
<1>6. top = 2 * (w * v)
  <2>1. Weight[(GroupBits - 1) + 1] = 2 * Weight[GroupBits - 1]
    BY <1>1, Weights
  <2> QED
    BY <1>1, <1>5, <2>1 DEF TopBit
<1>7. CodeShifted(b, k) = (b % (2 * w)) * v
  BY <1>3 DEF CodeShifted
<1>8. CodeShifted(b, k + 1) = (b % w) * (2 * v)
  <2>1. GroupBits - (k + 1) = GroupBits - 1 - k
    BY <1>1
  <2> QED
    BY <1>4, <2>1 DEF CodeShifted
<1>9. CodeShifted(b, 0) = b
  <2>1. Weight[0] = 1 /\ GroupBits - 0 = GroupBits
    BY <1>1, Weights
  <2>2. b \in 0 .. top - 1
    BY <1>1
  <2>3. CodeShifted(b, 0) = (b % top) * 1
    BY <2>1 DEF CodeShifted
  <2> HIDE DEF top
  <2>4. b % top = b
    <3>1. b = top * 0 + b /\ b \in Int /\ 0 \in Int
      BY <1>1, <2>2
    <3> QED
      BY <1>1, <2>2, <3>1, Quotient
  <2> QED
    BY <2>2, <2>3, <2>4
<1>10. b \in Nat
  BY <1>1
<1> DEFINE s == CodeShifted(b, k)
           product == w * v
<1>11. /\ s \in 0 .. 2 * product - 1
       /\ s >= product <=> (b \div w) % 2 = 1
       /\ (2 * s) % (2 * product) = (b % w) * (2 * v)
  <2> DEFINE t == (b % (2 * w)) * v
  <2>1. s = t
    BY <1>7
  <2> HIDE DEF w, v, s
  <2>2. /\ t \in 0 .. 2 * product - 1
        /\ t >= product <=> (b \div w) % 2 = 1
        /\ (2 * t) % (2 * product) = (b % w) * (2 * v)
    BY <1>2, <1>10, ShiftOne
  <2> HIDE DEF t, product
  <2> QED
    BY <2>1, <2>2
<1>12. s * 2 = 2 * s
  <2> HIDE DEF s
  <2>1. s \in Int
    BY <1>2, <1>11
  <2> QED
    BY <2>1
<1> HIDE DEF s, product, w, v, top
<1>13. Byte = 0 .. 2 * product - 1 /\ Radix * Radix = 2 * product /\ TopBit = product
  BY <1>1, <1>5, <1>6 DEF product
<1> QED
  BY <1>8, <1>9, <1>11, <1>12, <1>13 DEF s, w
-----------------------------------------------------------------------------
(* The expansion of a file, turn by turn.                                  *)

LEMMA ExpansionExists ==
    ASSUME NEW file, Turns \in Nat
    PROVE  \E g : g = [n \in 0 .. Turns |->
                         IF n = 0 THEN Unexpanded ELSE ExpandTurn(file, g[n - 1])]
<1> DEFINE Right(g, n) == IF n = 0 THEN Unexpanded ELSE ExpandTurn(file, g[n - 1])
           Solved(k) == \E g : /\ g = [n \in 0 .. Turns |-> g[n]]
                               /\ \A n \in 0 .. k : g[n] = Right(g, n)
           T == {k \in Nat : k <= Turns => Solved(k)}
<1>1. 0 \in T
  <2> DEFINE g == [n \in 0 .. Turns |-> Unexpanded]
  <2>1. g = [n \in 0 .. Turns |-> g[n]]
    OBVIOUS
  <2>2. \A n \in 0 .. 0 : g[n] = Right(g, n)
    OBVIOUS
  <2> HIDE DEF g, Right
  <2> QED
    BY <2>1, <2>2
<1>2. ASSUME NEW k \in T PROVE k + 1 \in T
  <2> SUFFICES ASSUME k + 1 <= Turns PROVE Solved(k + 1)
    OBVIOUS
  <2>1. k \in Nat /\ k <= Turns /\ k \in 0 .. Turns
    OBVIOUS
  <2>2. PICK g : /\ g = [n \in 0 .. Turns |-> g[n]]
                 /\ \A n \in 0 .. k : g[n] = Right(g, n)
    BY <2>1
  <2> DEFINE next == ExpandTurn(file, g[k])
             h == [n \in 0 .. Turns |-> IF n = k + 1 THEN next ELSE g[n]]
  <2>3. h = [n \in 0 .. Turns |-> h[n]]
    OBVIOUS
  <2>4. ASSUME NEW n \in 0 .. k + 1 PROVE h[n] = Right(h, n)
    <3>1. n \in 0 .. Turns /\ (n # 0 => n - 1 \in 0 .. Turns /\ n - 1 # k + 1)
      BY <2>1
    <3>2. n # 0 => h[n - 1] = g[n - 1]
      BY <3>1
    <3>3. CASE n = k + 1
      <4>1. h[n] = next /\ n # 0 /\ n - 1 = k
        BY <2>1, <3>1, <3>3
      <4> HIDE DEF h
      <4> QED
        BY <3>2, <4>1
    <3>4. CASE n # k + 1
      <4>1. h[n] = g[n] /\ n \in 0 .. k
        BY <2>1, <3>1, <3>4
      <4> HIDE DEF h
      <4> QED
        BY <2>2, <3>2, <4>1
    <3> QED
      BY <3>3, <3>4
  <2> HIDE DEF h, Right
  <2> QED
    BY <2>3, <2>4
<1>3. Turns \in T
  <2>1. T \in SUBSET Nat
    OBVIOUS
  <2> HIDE DEF T
  <2> QED
    BY <1>1, <1>2, <2>1, SetInduction
<1>4. PICK g : /\ g = [n \in 0 .. Turns |-> g[n]]
               /\ \A n \in 0 .. Turns : g[n] = Right(g, n)
  BY <1>3
<1>5. g = [n \in 0 .. Turns |-> Right(g, n)]
  BY <1>4
<1> QED
  BY <1>5

LEMMA TurnsCount ==
    /\ Turns \in Nat /\ Turns = 3 * (OutputEnd - OutputFirst)
    /\ OutputFirst \in Nat /\ OutputEnd \in Nat /\ OutputFirst <= OutputEnd
  BY Yaz0Assumption DEF Turns

LEMMA ExpansionTurns ==
    ASSUME NEW file
    PROVE  /\ Expansion(file)[0] = Unexpanded
           /\ \A n \in 0 .. Turns - 1 :
                 Expansion(file)[n + 1] = ExpandTurn(file, Expansion(file)[n])
<1> DEFINE turn == CHOOSE g : g = [n \in 0 .. Turns |->
                         IF n = 0 THEN Unexpanded ELSE ExpandTurn(file, g[n - 1])]
<1>1. Turns \in Nat
  BY TurnsCount
<1>2. turn = [n \in 0 .. Turns |-> IF n = 0 THEN Unexpanded ELSE ExpandTurn(file, turn[n - 1])]
  BY <1>1, ExpansionExists
<1>3. Expansion(file) = turn
  BY DEF Expansion
<1> HIDE DEF turn
<1>4. turn[0] = Unexpanded
  BY <1>1, <1>2
<1>5. ASSUME NEW n \in 0 .. Turns - 1 PROVE turn[n + 1] = ExpandTurn(file, turn[n])
  <2>1. n + 1 \in 0 .. Turns /\ n + 1 # 0 /\ (n + 1) - 1 = n
    BY <1>1
  <2> QED
    BY <1>2, <2>1
<1> QED
  BY <1>3, <1>4, <1>5

\* The turns, case by case.
LEMMA EndTurn ==
    ASSUME NEW file, NEW e, Len(e.bytes) = OutputEnd
    PROVE  ExpandTurn(file, e) = e
  BY DEF ExpandTurn

CopiedByte(e) ==
    [e EXCEPT !.bytes = Append(e.bytes, e.bytes[Len(e.bytes) + 1 - e.distance]),
              !.left = e.left - 1]

LEMMA CopyTurn ==
    ASSUME NEW file, NEW e, Len(e.bytes) # OutputEnd, e.left > 0
    PROVE  ExpandTurn(file, e) = CopiedByte(e)
  BY DEF ExpandTurn, CopiedByte

LEMMA CodeTurn ==
    ASSUME NEW file, NEW e, Len(e.bytes) # OutputEnd, ~(e.left > 0), e.used = GroupBits
    PROVE  ExpandTurn(file, e)
             = [e EXCEPT !.code = ByteOf(file, e.source), !.used = 0, !.source = e.source + 1]
  BY DEF ExpandTurn

TakeLiteral(file, e) ==
    [e EXCEPT !.bytes = Append(e.bytes, ByteOf(file, e.source)),
              !.source = e.source + 1, !.used = e.used + 1]

LEMMA LiteralTurn ==
    ASSUME NEW file, NEW e, Len(e.bytes) # OutputEnd, ~(e.left > 0), e.used # GroupBits,
           Literal(e)
    PROVE  ExpandTurn(file, e) = TakeLiteral(file, e)
  BY DEF ExpandTurn, TakeLiteral

OpenToken(file, e) ==
    LET nibble == ByteOf(file, e.source) \div Radix
    IN  [e EXCEPT !.source = e.source + (IF nibble > 0 THEN 2 ELSE 3),
                  !.used = e.used + 1,
                  !.distance = 1 + ByteOf(file, e.source + 1)
                                 + (ByteOf(file, e.source) % Radix) * (Radix * Radix),
                  !.left = IF nibble > 0 THEN nibble + 2
                           ELSE ByteOf(file, e.source + 2) + LongBase]

LEMMA TokenTurn ==
    ASSUME NEW file, NEW e, Len(e.bytes) # OutputEnd, ~(e.left > 0), e.used # GroupBits,
           ~Literal(e)
    PROVE  ExpandTurn(file, e) = OpenToken(file, e)
  BY DEF ExpandTurn, OpenToken

\* What an expansion may look like.
Expanding ==
    {e \in [bytes : Seq(Byte), source : Nat, code : Byte, used : 0 .. GroupBits,
            distance : Nat, left : Nat] :
        /\ Len(e.bytes) \in OutputFirst .. OutputEnd
        /\ e.left > 0 => e.distance > 0}

LEMMA ByteOfTyped ==
    ASSUME NEW file \in Seq(Byte), NEW i \in Nat
    PROVE  ByteOf(file, i) \in Byte /\ ByteOf(file, i) \in Nat
<1>1. 0 \in Byte /\ Byte \subseteq Nat
  BY ByteTyped
<1>2. CASE i < Len(file)
  <2>1. i + 1 \in 1 .. Len(file)
    BY <1>2
  <2>2. file[i + 1] \in Byte
    BY <2>1
  <2> QED
    BY <1>1, <1>2, <2>2 DEF ByteOf
<1>3. CASE ~(i < Len(file))
  BY <1>1, <1>3 DEF ByteOf
<1> QED
  BY <1>2, <1>3

\* A token's first byte: its digits.
LEMMA Digits ==
    ASSUME NEW byte \in Byte
    PROVE  byte \div Radix \in Nat /\ byte % Radix \in Nat
<1>1. Radix \in Nat \ {0} /\ byte \in Nat
  BY ByteTyped
<1> DEFINE q == byte \div Radix
           r == byte % Radix
<1>2. q \in Int /\ r \in 0 .. Radix - 1 /\ byte = Radix * q + r
  BY <1>1, Division
<1> HIDE DEF q, r
<1>3. q >= 0
  <2> SUFFICES ASSUME q <= -1 PROVE FALSE
    BY <1>2
  <2>1. Radix * q <= -Radix
    BY <1>1, <1>2
  <2> QED
    BY <1>1, <1>2, <2>1
<1>4. q \in Nat /\ r \in Nat
  BY <1>1, <1>2, <1>3
<1> QED
  BY <1>4 DEF q, r

LEMMA UnexpandedTyped == Unexpanded \in Expanding
<1>1. /\ OutputFirst \in Nat /\ OutputEnd \in Nat /\ OutputFirst <= OutputEnd
      /\ GroupBits \in Nat /\ GroupBits \in 0 .. GroupBits
  BY TurnsCount, ByteTyped
<1>2. \A i \in 1 .. OutputFirst : Earlier[i - 1] \in Byte
  <2> SUFFICES ASSUME NEW i \in 1 .. OutputFirst PROVE Earlier[i - 1] \in Byte
    OBVIOUS
  <2> DEFINE m == Radix * Radix
             a == i - 1
  <2>1. m \in Nat \ {0} /\ Byte = 0 .. (m - 1)
    BY ByteTyped
  <2>2. a \in Position /\ a \in Int
    BY <1>1 DEF Position
  <2>3. Earlier[a] = a % m
    BY <2>2 DEF Earlier
  <2> HIDE DEF m, a
  <2>4. a % m \in 0 .. (m - 1)
    BY <2>1, <2>2, Division
  <2>5. Earlier[a] \in Byte
    BY <2>1, <2>3, <2>4
  <2> QED
    BY <2>5 DEF a
<1> DEFINE bytes == [i \in 1 .. OutputFirst |-> Earlier[i - 1]]
<1>3. bytes \in Seq(Byte) /\ Len(bytes) = OutputFirst
  <2>1. bytes \in [1 .. OutputFirst -> Byte]
    BY <1>2
  <2> HIDE DEF bytes
  <2> QED
    BY <1>1, <2>1
<1> HIDE DEF bytes
<1>4. 0 \in Byte
  BY ByteTyped
<1>5. Unexpanded = [bytes |-> bytes, source |-> 0, code |-> 0, used |-> GroupBits,
                    distance |-> 0, left |-> 0]
  BY DEF Unexpanded, bytes
<1> QED
  BY <1>1, <1>3, <1>4, <1>5 DEF Expanding

LEMMA ExpandTurnTyped ==
    ASSUME NEW file \in Seq(Byte), NEW e \in Expanding, e.distance <= Len(e.bytes)
    PROVE  /\ ExpandTurn(file, e) \in Expanding
           /\ Len(e.bytes) <= Len(ExpandTurn(file, e).bytes)
           /\ \A i \in 1 .. Len(e.bytes) : ExpandTurn(file, e).bytes[i] = e.bytes[i]
<1> DEFINE next == ExpandTurn(file, e)
           byte == ByteOf(file, e.source)
           nibble == byte \div Radix
           Goes(x) == /\ x \in Expanding /\ Len(e.bytes) <= Len(x.bytes)
                      /\ \A i \in 1 .. Len(e.bytes) : x.bytes[i] = e.bytes[i]
<1>1. /\ e \in [bytes : Seq(Byte), source : Nat, code : Byte, used : 0 .. GroupBits,
                distance : Nat, left : Nat]
      /\ e.bytes \in Seq(Byte) /\ e.source \in Nat /\ e.code \in Byte /\ e.used \in 0 .. GroupBits
      /\ e.distance \in Nat /\ e.left \in Nat
      /\ Len(e.bytes) \in OutputFirst .. OutputEnd /\ Len(e.bytes) \in Nat
      /\ e.left > 0 => e.distance > 0
  BY DEF Expanding
<1>2. /\ OutputFirst \in Nat /\ OutputEnd \in Nat /\ OutputFirst <= OutputEnd
      /\ GroupBits \in Nat \ {0} /\ 0 \in 0 .. GroupBits /\ Radix \in Nat /\ Radix * Radix \in Nat
  BY TurnsCount, ByteTyped
<1>3. ASSUME NEW x \in Byte, Len(e.bytes) # OutputEnd
      PROVE  /\ Append(e.bytes, x) \in Seq(Byte)
             /\ Len(Append(e.bytes, x)) \in OutputFirst .. OutputEnd
             /\ Len(Append(e.bytes, x)) = Len(e.bytes) + 1
             /\ \A i \in 1 .. Len(e.bytes) : Append(e.bytes, x)[i] = e.bytes[i]
  <2> DEFINE bytes == e.bytes
  <2>1. bytes \in Seq(Byte) /\ Len(bytes) \in OutputFirst .. OutputEnd /\ Len(bytes) # OutputEnd
    BY <1>1, <1>3
  <2> HIDE DEF bytes
  <2>2. /\ Append(bytes, x) \in Seq(Byte) /\ Len(Append(bytes, x)) = Len(bytes) + 1
        /\ \A i \in 1 .. Len(bytes) : Append(bytes, x)[i] = bytes[i]
    BY <1>3, <2>1
  <2>3. Len(bytes) + 1 \in OutputFirst .. OutputEnd
    BY <1>2, <2>1
  <2> QED
    BY <2>2, <2>3 DEF bytes
<1>4. byte \in Byte /\ nibble \in Nat /\ byte % Radix \in Nat
      /\ \A i \in Nat : ByteOf(file, i) \in Nat
  <2>1. byte \in Byte
    BY <1>1, ByteOfTyped
  <2> HIDE DEF byte
  <2> QED
    BY <2>1, ByteOfTyped, Digits
<1>5. CASE Len(e.bytes) = OutputEnd
  <2>1. next = e
    BY <1>5, EndTurn
  <2> HIDE DEF next
  <2>2. Goes(next)
    BY <1>1, <2>1
  <2> QED
    BY <2>2 DEF next
<1>6. CASE Len(e.bytes) # OutputEnd /\ e.left > 0
  <2> DEFINE x == e.bytes[Len(e.bytes) + 1 - e.distance]
             bytes == Append(e.bytes, x)
             rest == e.left - 1
  <2>1. next = [e EXCEPT !.bytes = bytes, !.left = rest]
    BY <1>6, CopyTurn DEF CopiedByte
  <2>2. x \in Byte
    <3>1. Len(e.bytes) + 1 - e.distance \in 1 .. Len(e.bytes)
      BY <1>1, <1>6
    <3> QED
      BY <1>1, <3>1
  <2> HIDE DEF x
  <2>3. /\ bytes \in Seq(Byte) /\ Len(bytes) \in OutputFirst .. OutputEnd
        /\ Len(bytes) = Len(e.bytes) + 1 /\ \A i \in 1 .. Len(e.bytes) : bytes[i] = e.bytes[i]
    BY <1>3, <1>6, <2>2
  <2>4. rest \in Nat /\ (rest > 0 => e.distance > 0)
    BY <1>1, <1>6
  <2> HIDE DEF next, bytes, rest
  <2>5. next \in Expanding /\ next.bytes = bytes
    BY <1>1, <2>1, <2>3, <2>4 DEF Expanding
  <2>6. Goes(next)
    BY <1>1, <2>3, <2>5
  <2> QED
    BY <2>6 DEF next
<1>7. CASE Len(e.bytes) # OutputEnd /\ ~(e.left > 0) /\ e.used = GroupBits
  <2> DEFINE source == e.source + 1
  <2>1. next = [e EXCEPT !.code = byte, !.used = 0, !.source = source]
    BY <1>7, CodeTurn
  <2>2. source \in Nat
    BY <1>1
  <2> HIDE DEF next, source, byte
  <2>3. next \in Expanding /\ next.bytes = e.bytes
    BY <1>1, <1>2, <1>4, <2>1, <2>2 DEF Expanding
  <2>4. Goes(next)
    BY <1>1, <2>3
  <2> QED
    BY <2>4 DEF next
<1>8. CASE Len(e.bytes) # OutputEnd /\ ~(e.left > 0) /\ e.used # GroupBits /\ Literal(e)
  <2> DEFINE source == e.source + 1
             used == e.used + 1
             bytes == Append(e.bytes, byte)
  <2>1. next = [e EXCEPT !.bytes = bytes, !.source = source, !.used = used]
    BY <1>8, LiteralTurn DEF TakeLiteral
  <2>2. source \in Nat /\ used \in 0 .. GroupBits
    BY <1>1, <1>2, <1>8
  <2>3. /\ bytes \in Seq(Byte) /\ Len(bytes) \in OutputFirst .. OutputEnd
        /\ Len(bytes) = Len(e.bytes) + 1 /\ \A i \in 1 .. Len(e.bytes) : bytes[i] = e.bytes[i]
    <3> HIDE DEF byte
    <3> QED
      BY <1>3, <1>4, <1>8
  <2> HIDE DEF next, source, used, bytes
  <2>4. next \in Expanding /\ next.bytes = bytes
    BY <1>1, <2>1, <2>2, <2>3 DEF Expanding
  <2>5. Goes(next)
    BY <1>1, <2>3, <2>4
  <2> QED
    BY <2>5 DEF next
<1>9. CASE Len(e.bytes) # OutputEnd /\ ~(e.left > 0) /\ e.used # GroupBits /\ ~Literal(e)
  <2> DEFINE source == e.source + (IF nibble > 0 THEN 2 ELSE 3)
             used == e.used + 1
             second == ByteOf(file, e.source + 1)
             third == ByteOf(file, e.source + 2)
             high == (byte % Radix) * (Radix * Radix)
             distance == 1 + second + high
             rest == IF nibble > 0 THEN nibble + 2 ELSE third + LongBase
  <2>1. next = [e EXCEPT !.source = source, !.used = used, !.distance = distance, !.left = rest]
    BY <1>9, TokenTurn DEF OpenToken
  <2>2. source \in Nat /\ used \in 0 .. GroupBits
    BY <1>1, <1>2, <1>9
  <2>3. second \in Nat /\ third \in Nat
    <3>1. e.source + 1 \in Nat /\ e.source + 2 \in Nat
      BY <1>1
    <3> QED
      BY <1>4, <3>1
  <2>4. high \in Nat
    <3> DEFINE r == byte % Radix
               m == Radix * Radix
    <3>1. r \in Nat /\ m \in Nat
      BY <1>2, <1>4
    <3> HIDE DEF r, m
    <3>2. r * m \in Nat
      BY <3>1
    <3> QED
      BY <3>2 DEF r, m
  <2>5. LongBase \in Nat
    BY Yaz0Assumption
  <2> HIDE DEF next, source, used, second, third, high, byte, nibble
  <2>6. distance \in Nat /\ distance > 0 /\ rest \in Nat
    BY <1>4, <2>3, <2>4, <2>5
  <2> HIDE DEF distance, rest
  <2>7. next \in Expanding /\ next.bytes = e.bytes
    BY <1>1, <2>1, <2>2, <2>6 DEF Expanding
  <2>8. Goes(next)
    BY <1>1, <2>7
  <2> QED
    BY <2>8 DEF next
<1> QED
  BY <1>5, <1>6, <1>7, <1>8, <1>9

\* Every turn of a file that is whole, and how what it has produced grows.
LEMMA ExpansionTyped ==
    ASSUME NEW file \in Stream
    PROVE  /\ file \in Seq(Byte) /\ Len(file) \in Nat
           /\ \A n \in 0 .. Turns :
                 /\ Expansion(file)[n] \in Expanding
                 /\ Expansion(file)[n].source <= Len(file)
                 /\ Expansion(file)[n].distance <= Len(Expansion(file)[n].bytes)
<1>1. file \in Seq(Byte) /\ \A n \in 0 .. Turns :
         /\ Expansion(file)[n].source <= Len(file)
         /\ Expansion(file)[n].distance <= Len(Expansion(file)[n].bytes)
  BY StreamAssumption DEF WholeFile
<1>2. Turns \in Nat
  BY TurnsCount
<1> DEFINE T == {k \in Nat : k <= Turns => Expansion(file)[k] \in Expanding}
<1>3. 0 \in T
  BY ExpansionTurns, UnexpandedTyped
<1>4. ASSUME NEW k \in T PROVE k + 1 \in T
  <2> SUFFICES ASSUME k + 1 <= Turns PROVE Expansion(file)[k + 1] \in Expanding
    OBVIOUS
  <2> DEFINE e == Expansion(file)[k]
  <2>1. k \in 0 .. Turns - 1 /\ k \in 0 .. Turns /\ k <= Turns
    BY <1>2
  <2>2. e \in Expanding /\ e.distance <= Len(e.bytes)
    BY <1>1, <2>1
  <2>3. Expansion(file)[k + 1] = ExpandTurn(file, e)
    BY <2>1, ExpansionTurns
  <2> HIDE DEF e
  <2>4. ExpandTurn(file, e) \in Expanding
    BY <1>1, <2>2, ExpandTurnTyped
  <2> QED
    BY <2>3, <2>4
<1>5. T = Nat
  <2>1. T \in SUBSET Nat
    OBVIOUS
  <2> HIDE DEF T
  <2> QED
    BY <1>3, <1>4, <2>1, SetInduction
<1>6. ASSUME NEW n \in 0 .. Turns PROVE Expansion(file)[n] \in Expanding
  <2>1. n \in T /\ n <= Turns
    BY <1>2, <1>5
  <2> QED
    BY <2>1
<1>7. Len(file) \in Nat
  BY <1>1
<1> QED
  BY <1>1, <1>6, <1>7

\* One expansion is the beginning of another.
Begins(e, f) ==
    /\ Len(e.bytes) <= Len(f.bytes)
    /\ \A i \in 1 .. Len(e.bytes) : f.bytes[i] = e.bytes[i]

LEMMA ExpansionGrows ==
    ASSUME NEW file \in Stream, NEW n \in 0 .. Turns
    PROVE  Begins(Expansion(file)[n], Expansion(file)[Turns])
<1>1. Turns \in Nat
  BY TurnsCount
<1> DEFINE e(k) == Expansion(file)[n + k]
           T == {k \in Nat : n + k <= Turns => Begins(e(0), e(k))}
<1>2. \A k \in Nat : n + k <= Turns => e(k) \in Expanding /\ e(k).distance <= Len(e(k).bytes)
  <2> SUFFICES ASSUME NEW k \in Nat, n + k <= Turns
               PROVE  e(k) \in Expanding /\ e(k).distance <= Len(e(k).bytes)
    OBVIOUS
  <2>1. n + k \in 0 .. Turns
    BY <1>1
  <2> QED
    BY <2>1, ExpansionTyped
<1>3. ASSUME NEW x \in Expanding PROVE Len(x.bytes) \in Nat
  BY <1>3 DEF Expanding
<1>4. 0 \in T
  <2>1. e(0) \in Expanding
    BY <1>1, <1>2
  <2> HIDE DEF e
  <2>2. Begins(e(0), e(0))
    BY <1>3, <2>1 DEF Begins
  <2> QED
    BY <2>2
<1>5. ASSUME NEW k \in T PROVE k + 1 \in T
  <2> SUFFICES ASSUME n + (k + 1) <= Turns PROVE Begins(e(0), e(k + 1))
    OBVIOUS
  <2>1. k \in Nat /\ n + k <= Turns /\ n + k \in 0 .. Turns - 1 /\ n + (k + 1) = (n + k) + 1 /\ n + 0 <= Turns
    BY <1>1
  <2>2. Begins(e(0), e(k)) /\ e(0) \in Expanding /\ e(k) \in Expanding /\ e(k).distance <= Len(e(k).bytes)
        /\ e(k + 1) \in Expanding
    <3>1. 0 \in Nat /\ k + 1 \in Nat /\ Begins(e(0), e(k))
      BY <2>1
    <3> HIDE DEF e
    <3> QED
      BY <1>2, <2>1, <3>1
  <2>3. e(k + 1) = ExpandTurn(file, e(k))
    BY <2>1, ExpansionTurns
  <2>4. file \in Seq(Byte)
    BY ExpansionTyped
  <2> DEFINE a == e(0)
             b == e(k)
             c == e(k + 1)
  <2>5. Begins(a, b) /\ a \in Expanding /\ b \in Expanding /\ b.distance <= Len(b.bytes) /\ c \in Expanding
        /\ c = ExpandTurn(file, b)
    BY <2>2, <2>3
  <2> HIDE DEF a, b, c
  <2>6. Begins(b, c)
    BY <2>4, <2>5, ExpandTurnTyped DEF Begins
  <2>7. Begins(a, c)
    <3>1. Len(a.bytes) \in Nat /\ Len(b.bytes) \in Nat /\ Len(c.bytes) \in Nat
      BY <1>3, <2>5
    <3>2. Len(a.bytes) <= Len(c.bytes)
      BY <2>5, <2>6, <3>1 DEF Begins
    <3>3. ASSUME NEW i \in 1 .. Len(a.bytes) PROVE c.bytes[i] = a.bytes[i]
      <4>1. i \in 1 .. Len(b.bytes)
        BY <2>5, <3>1 DEF Begins
      <4> QED
        BY <2>5, <2>6, <4>1 DEF Begins
    <3> QED
      BY <3>2, <3>3 DEF Begins
  <2> QED
    BY <2>7 DEF a, c
<1>6. T = Nat
  <2>1. T \in SUBSET Nat
    OBVIOUS
  <2> HIDE DEF T
  <2> QED
    BY <1>4, <1>5, <2>1, SetInduction
<1> DEFINE k == Turns - n
<1>7. k \in Nat /\ n + k = Turns /\ n + 0 = n /\ n + k <= Turns
  BY <1>1
<1> HIDE DEF k
<1>8. Begins(e(0), e(k))
  BY <1>6, <1>7
<1> QED
  BY <1>7, <1>8
-----------------------------------------------------------------------------
(* The decoder's registers, against the turns of the expansion.            *)

LoopRegisters == [source : Nat, bits : 0 .. GroupBits, code : Byte,
              destination : OutputFirst .. OutputEnd]

\* Registers at the loop head say where the expansion is after a token.
Matches(r, e) ==
    /\ Len(e.bytes) = r.destination
    /\ r.destination < OutputEnd =>
          /\ e.left = 0 /\ e.source = r.source /\ e.used = GroupBits - r.bits
          /\ r.bits # 0 => r.code = CodeShifted(e.code, e.used)

Agrees(memory, e) == \A a \in 0 .. Len(e.bytes) - 1 : memory[a] = e.bytes[a + 1]

Reached(file, r, memory) ==
    \E n \in 0 .. Turns :
        /\ n <= 3 * (r.destination - OutputFirst)
        /\ Matches(r, Expansion(file)[n]) /\ Agrees(memory, Expansion(file)[n])

\* The rest of the group that is being decoded is in the window.
Supplied(file, window, r) ==
    r.bits > 0 => window >= Len(file) \/ r.source + 3 * r.bits <= window

\* What the lemmas on a step take for granted.
Decoding ==
    /\ stream \in Stream /\ windowed \in Nat /\ backed \in Nat
    /\ decoded \in [Position -> Byte]

LEMMA InWindow ==
    ASSUME NEW i \in Nat, i < windowed
    PROVE  WindowByte(i) = ByteOf(stream, i)
  BY DEF WindowByte, StreamByte

\* What the window lacks reads as a byte all the same.
LEMMA WindowTyped ==
    ASSUME Decoding, NEW i \in Nat
    PROVE  WindowByte(i) \in Byte /\ WindowByte(i) \in Nat
<1>1. ByteOf(stream, i) \in Byte /\ ByteOf(stream, i) \in Nat
  <2>1. stream \in Seq(Byte)
    BY ExpansionTyped DEF Decoding
  <2> QED
    BY <2>1, ByteOfTyped
<1> DEFINE m == Radix * Radix
           b == ByteOf(stream, i)
<1>2. m \in Nat \ {0} /\ Byte = 0 .. (m - 1)
  BY ByteTyped
<1>3. b \in Byte /\ b + 1 \in Int
  BY <1>1
<1>4. WindowByte(i) = IF i < windowed THEN b ELSE (b + 1) % m
  BY DEF WindowByte, StreamByte
<1> HIDE DEF m, b
<1>5. (b + 1) % m \in Byte
  BY <1>2, <1>3, Division
<1>6. WindowByte(i) \in Byte
  BY <1>3, <1>4, <1>5
<1> QED
  BY <1>2, <1>6

\* Before a token is read there is a code byte.
LEMMA CodeRead ==
    ASSUME Decoding, NEW r \in LoopRegisters, NEW n \in 0 .. Turns,
           n <= 3 * (r.destination - OutputFirst), r.destination < OutputEnd,
           Matches(r, Expansion(stream)[n]), Supplied(stream, windowed, r), ~AtWindowEnd(r)
    PROVE  /\ WithCode(r) \in LoopRegisters /\ WithCode(r).bits > 0
           /\ WithCode(r).destination = r.destination
           /\ Supplied(stream, windowed, WithCode(r))
           /\ \E m \in 0 .. Turns :
                 /\ m <= 3 * (r.destination - OutputFirst) + 1
                 /\ Matches(WithCode(r), Expansion(stream)[m])
                 /\ Expansion(stream)[m].bytes = Expansion(stream)[n].bytes
<1> DEFINE c == WithCode(r)
           e == Expansion(stream)[n]
           f == Expansion(stream)[n + 1]
<1>1. /\ r.source \in Nat /\ r.bits \in 0 .. GroupBits /\ r.code \in Byte
      /\ r.destination \in OutputFirst .. OutputEnd /\ GroupBits \in Nat \ {0} /\ n \in Nat
      /\ windowed \in Nat
  BY TurnsCount, ByteTyped DEF LoopRegisters, Decoding
<1>2. CASE r.bits # 0
  <2>1. c = r
    BY <1>2 DEF WithCode
  <2>2. n <= 3 * (r.destination - OutputFirst) + 1
    BY <1>1, TurnsCount
  <2>3. r.bits > 0
    BY <1>1, <1>2
  <2>4. \E m \in 0 .. Turns : /\ m <= 3 * (r.destination - OutputFirst) + 1
                             /\ Matches(r, Expansion(stream)[m])
                             /\ Expansion(stream)[m].bytes = Expansion(stream)[n].bytes
    BY <2>2
  <2> HIDE DEF c
  <2> QED
    BY <2>1, <2>3, <2>4 DEF c
<1>3. CASE r.bits = 0
  <2>1. n \in 0 .. Turns - 1 /\ n + 1 \in 0 .. Turns /\ n + 1 <= 3 * (r.destination - OutputFirst) + 1
    BY <1>1, TurnsCount
  <2>2. /\ stream \in Stream /\ stream \in Seq(Byte) /\ Len(stream) \in Nat
        /\ e \in Expanding /\ f \in Expanding /\ f.source <= Len(stream)
    BY <2>1, ExpansionTyped DEF Decoding
  <2>3. f = ExpandTurn(stream, e)
    BY <2>1, ExpansionTurns
  <2>4. Matches(r, e)
    OBVIOUS
  <2> HIDE DEF e, f
  <2>5. /\ Len(e.bytes) = r.destination /\ e.left = 0 /\ e.source = r.source /\ e.used = GroupBits
    BY <1>1, <1>3, <2>4 DEF Matches
  <2> DEFINE byte == ByteOf(stream, r.source)
  <2>6. f = [e EXCEPT !.code = byte, !.used = 0, !.source = e.source + 1]
    <3>1. Len(e.bytes) # OutputEnd /\ ~(e.left > 0) /\ e.used = GroupBits
      BY <1>1, <2>5
    <3>2. ExpandTurn(stream, e)
            = [e EXCEPT !.code = ByteOf(stream, e.source), !.used = 0, !.source = e.source + 1]
      BY <3>1, CodeTurn
    <3> QED
      BY <2>3, <2>5, <3>2
  <2>7. /\ f.bytes = e.bytes /\ f.code = byte /\ f.used = 0 /\ f.source = r.source + 1
        /\ f.left = 0
    <3> HIDE DEF byte
    <3> QED
      BY <2>2, <2>5, <2>6 DEF Expanding
  <2>8. r.source < windowed
    <3>1. r.source <= SourceEnd
      BY <1>1, <1>3 DEF AtWindowEnd, SourceEnd
    <3>2. r.source + 1 <= Len(stream)
      BY <2>2, <2>7
    <3> QED
      BY <1>1, <2>2, <3>1, <3>2 DEF SourceEnd
  <2>9. WindowByte(r.source) = byte /\ byte \in Byte
    BY <1>1, <2>2, <2>8, InWindow, ByteOfTyped
  <2> HIDE DEF byte
  <2>10. c = [r EXCEPT !.code = byte, !.bits = GroupBits, !.source = r.source + 1]
    BY <1>3, <2>9 DEF WithCode
  <2>11. /\ c \in LoopRegisters /\ c.bits = GroupBits /\ c.code = byte /\ c.source = r.source + 1
         /\ c.destination = r.destination
    <3>1. r.source + 1 \in Nat /\ GroupBits \in 0 .. GroupBits
      BY <1>1
    <3> HIDE DEF c
    <3> QED
      BY <2>9, <2>10, <3>1 DEF LoopRegisters
  <2>12. Supplied(stream, windowed, c)
    <3>1. r.source <= SourceEnd
      BY <1>1, <1>3 DEF AtWindowEnd, SourceEnd
    <3>2. windowed >= Len(stream) \/ (r.source + 1) + 3 * GroupBits <= windowed
      BY <1>1, <2>2, <3>1 DEF SourceEnd
    <3> HIDE DEF c
    <3> QED
      BY <2>11, <3>2 DEF Supplied
  <2>13. Matches(c, f)
    <3>1. CodeShifted(byte, 0) = byte
      BY <1>1, <2>9, ShiftedBits
    <3>2. f.used = GroupBits - c.bits
      BY <1>1, <2>7, <2>11
    <3> HIDE DEF c
    <3> QED
      BY <2>5, <2>7, <2>11, <3>1, <3>2 DEF Matches
  <2> HIDE DEF c
  <2>14. c.bits > 0
    BY <1>1, <2>11
  <2> QED
    BY <2>1, <2>7, <2>11, <2>12, <2>13, <2>14 DEF c, e, f
<1> QED
  BY <1>1, <1>2, <1>3
-----------------------------------------------------------------------------
(* A token's bytes, the copy reading what it has itself written.           *)

CanCopy(literal, byte, distance, memory, base, last) ==
    \E g : g = [i \in 0 .. last |->
                  IF literal THEN byte
                  ELSE IF i < distance THEN memory[base + i - distance]
                  ELSE g[i - distance]]

LEMMA CopyExists ==
    ASSUME NEW literal, NEW byte, NEW distance \in Nat, ~literal => distance > 0,
           NEW memory, NEW base \in Int, NEW last \in Int
    PROVE  CanCopy(literal, byte, distance, memory, base, last)
<1> DEFINE Right(g, i) == IF literal THEN byte
                          ELSE IF i < distance THEN memory[base + i - distance]
                          ELSE g[i - distance]
           Solved(k) == \E g : /\ g = [i \in 0 .. last |-> g[i]]
                               /\ \A i \in 0 .. last : i < k => g[i] = Right(g, i)
           T == {k \in Nat : Solved(k)}
<1>1. 0 \in T
  <2> DEFINE g == [i \in 0 .. last |-> byte]
  <2>1. g = [i \in 0 .. last |-> g[i]]
    OBVIOUS
  <2>2. \A i \in 0 .. last : ~(i < 0)
    OBVIOUS
  <2> HIDE DEF g, Right
  <2> QED
    BY <2>1, <2>2
<1>2. ASSUME NEW k \in T PROVE k + 1 \in T
  <2>1. k \in Nat
    OBVIOUS
  <2>2. PICK g : /\ g = [i \in 0 .. last |-> g[i]]
                 /\ \A i \in 0 .. last : i < k => g[i] = Right(g, i)
    OBVIOUS
  <2> DEFINE next == Right(g, k)
             h == [i \in 0 .. last |-> IF i = k THEN next ELSE g[i]]
  <2> HIDE DEF next
  <2>3. h = [i \in 0 .. last |-> h[i]]
    OBVIOUS
  <2>4. ASSUME NEW i \in 0 .. last, i < k + 1 PROVE h[i] = Right(h, i)
    <3>1. Right(h, i) = Right(g, i)
      <4>1. CASE literal \/ i < distance
        BY <4>1
      <4>2. CASE ~literal /\ ~(i < distance)
        <5>1. i - distance \in 0 .. last /\ i - distance # k
          BY <2>1, <2>4, <4>2
        <5>2. h[i - distance] = g[i - distance]
          BY <5>1
        <5> HIDE DEF h
        <5> QED
          BY <4>2, <5>2
      <4> QED
        BY <4>1, <4>2
    <3>2. CASE i = k
      <4>1. h[i] = next
        BY <3>2
      <4> HIDE DEF h
      <4>2. next = Right(g, i)
        BY <3>2 DEF next
      <4> HIDE DEF Right
      <4> QED
        BY <3>1, <4>1, <4>2
    <3>3. CASE i # k
      <4>1. h[i] = g[i] /\ i < k
        BY <2>1, <2>4, <3>3
      <4> HIDE DEF h, Right
      <4> QED
        BY <2>2, <3>1, <4>1
    <3> QED
      BY <3>2, <3>3
  <2> HIDE DEF h, Right
  <2> QED
    BY <2>1, <2>3, <2>4
<1>3. T = Nat
  <2>1. T \in SUBSET Nat
    OBVIOUS
  <2> HIDE DEF T
  <2> QED
    BY <1>1, <1>2, <2>1, SetInduction
<1> DEFINE top == IF last < 0 THEN 0 ELSE last + 1
<1>4. top \in Nat /\ \A i \in 0 .. last : i < top
  OBVIOUS
<1> HIDE DEF top
<1>5. PICK g : /\ g = [i \in 0 .. last |-> g[i]]
               /\ \A i \in 0 .. last : i < top => g[i] = Right(g, i)
  BY <1>3, <1>4
<1>6. g = [i \in 0 .. last |-> Right(g, i)]
  BY <1>4, <1>5
<1> QED
  BY <1>6 DEF CanCopy
-----------------------------------------------------------------------------
(* A token: what it is in the window, and the turns that expand it.        *)

Tokens == [literal : BOOLEAN, width : 1 .. 3, length : Nat \ {0}, distance : Nat]

LEMMA TokenTyped ==
    ASSUME Decoding, NEW c \in LoopRegisters
    PROVE  /\ TokenAt(c) \in Tokens /\ (TokenAt(c).literal <=> c.code >= TopBit)
           /\ ~TokenAt(c).literal => TokenAt(c).distance > 0
<1> DEFINE first == WindowByte(c.source)
           second == WindowByte(c.source + 1)
           third == WindowByte(c.source + 2)
           short == first \div Radix
           high == (first % Radix) * Radix * Radix
           width == IF short = 0 THEN 3 ELSE 2
           length == IF short = 0 THEN third + LongBase ELSE short + 2
           distance == high + second + 1
<1>1. c.source \in Nat /\ c.source + 1 \in Nat /\ c.source + 2 \in Nat
  BY DEF LoopRegisters
<1>2. first \in Byte /\ second \in Nat /\ third \in Nat
  BY <1>1, WindowTyped
<1>3. LongBase \in Nat \ {0} /\ Radix \in Nat
  BY Yaz0Assumption
<1>4. TokenAt(c) = IF c.code >= TopBit
                   THEN [literal |-> TRUE, width |-> 1, length |-> 1, distance |-> 0]
                   ELSE [literal |-> FALSE, width |-> width, length |-> length,
                         distance |-> distance]
  BY DEF TokenAt
<1> HIDE DEF first, second, third
<1>5. short \in Nat /\ high \in Nat
  <2> DEFINE r == first % Radix
  <2>1. short \in Nat /\ r \in Nat
    BY <1>2, Digits
  <2> HIDE DEF r
  <2>2. r * Radix \in Nat
    BY <1>3, <2>1
  <2> DEFINE q == r * Radix
  <2> HIDE DEF q
  <2>3. q \in Nat => q * Radix \in Nat
    BY <1>3
  <2> QED
    BY <2>1, <2>2, <2>3 DEF q, r
<1> HIDE DEF short, high
<1>6. width \in 1 .. 3 /\ length \in Nat \ {0} /\ distance \in Nat /\ distance > 0
  BY <1>2, <1>3, <1>5
<1> HIDE DEF width, length, distance
<1>7. CASE c.code >= TopBit
  <2>1. TokenAt(c) = [literal |-> TRUE, width |-> 1, length |-> 1, distance |-> 0]
    BY <1>4, <1>7
  <2> QED
    BY <1>7, <2>1 DEF Tokens
<1>8. CASE ~(c.code >= TopBit)
  <2>1. TokenAt(c) = [literal |-> FALSE, width |-> width, length |-> length,
                      distance |-> distance]
    BY <1>4, <1>8
  <2> QED
    BY <1>6, <1>8, <2>1 DEF Tokens
<1> QED
  BY <1>7, <1>8

LEMMA LengthTyped ==
    ASSUME Decoding, NEW c \in LoopRegisters, c.destination < OutputEnd
    PROVE  /\ TokenLength(c) \in 1 .. (OutputEnd - c.destination)
           /\ TokenLength(c) <= TokenAt(c).length
           /\ TokenLength(c) = TokenAt(c).length \/ c.destination + TokenLength(c) = OutputEnd
<1>1. TokenAt(c).length \in Nat \ {0}
  BY TokenTyped DEF Tokens
<1>2. c.destination \in Nat /\ OutputEnd \in Nat
  BY TurnsCount DEF LoopRegisters
<1> QED
  BY <1>1, <1>2 DEF TokenLength

LEMMA BytesOfToken ==
    ASSUME Decoding, NEW c \in LoopRegisters, NEW i \in 0 .. TokenLength(c) - 1,
           c.destination < OutputEnd
    PROVE  TokenBytes(c)[i] =
             IF TokenAt(c).literal THEN WindowByte(c.source)
             ELSE IF i < TokenAt(c).distance
             THEN decoded[c.destination + i - TokenAt(c).distance]
             ELSE TokenBytes(c)[i - TokenAt(c).distance]
<1> DEFINE token == TokenAt(c)
           last == TokenLength(c) - 1
           bytes == CHOOSE g : g = [k \in 0 .. last |->
                       IF token.literal THEN WindowByte(c.source)
                       ELSE IF k < token.distance
                       THEN decoded[c.destination + k - token.distance]
                       ELSE g[k - token.distance]]
<1>1. TokenBytes(c) = bytes
  BY DEF TokenBytes
<1>2. token.distance \in Nat /\ (~token.literal => token.distance > 0) /\ c.destination \in Int
      /\ last \in Int
  <2>1. token.distance \in Nat /\ (~token.literal => token.distance > 0)
    BY TokenTyped DEF Tokens
  <2>2. c.destination \in Int /\ TokenLength(c) \in Int
    BY LengthTyped, TurnsCount DEF LoopRegisters
  <2> HIDE DEF token
  <2> QED
    BY <2>1, <2>2
<1> DEFINE byte == WindowByte(c.source)
           base == c.destination
<1> HIDE DEF token, last, byte, base
<1>a. \E g : g = [k \in 0 .. last |->
                    IF token.literal THEN byte
                    ELSE IF k < token.distance THEN decoded[base + k - token.distance]
                    ELSE g[k - token.distance]]
  <2>1. base \in Int
    BY <1>2 DEF base
  <2> DEFINE literal == token.literal
             distance == token.distance
  <2>2. distance \in Nat /\ (~literal => distance > 0) /\ last \in Int
    BY <1>2
  <2> HIDE DEF literal, distance
  <2>3. CanCopy(literal, byte, distance, decoded, base, last)
    BY <2>1, <2>2, CopyExists
  <2> QED
    BY <2>3 DEF literal, distance, CanCopy
<1>3. bytes = [k \in 0 .. last |->
                 IF token.literal THEN WindowByte(c.source)
                 ELSE IF k < token.distance
                 THEN decoded[c.destination + k - token.distance]
                 ELSE bytes[k - token.distance]]
  BY <1>a DEF byte, base
<1> HIDE DEF bytes
<1>4. i \in 0 .. last
  BY DEF last
<1>5. bytes[i] = IF token.literal THEN WindowByte(c.source)
                 ELSE IF i < token.distance
                 THEN decoded[c.destination + i - token.distance]
                 ELSE bytes[i - token.distance]
  BY <1>3, <1>4
<1> QED
  BY <1>1, <1>5 DEF token

LEMMA TokenAdvances ==
    ASSUME Decoding, NEW c \in LoopRegisters, c.bits > 0, c.destination < OutputEnd,
           Supplied(stream, windowed, c)
    PROVE  /\ AfterToken(c) \in LoopRegisters /\ Supplied(stream, windowed, AfterToken(c))
           /\ AfterToken(c).source = c.source + TokenAt(c).width
           /\ AfterToken(c).bits = c.bits - 1
           /\ AfterToken(c).code = (c.code * 2) % (Radix * Radix)
           /\ AfterToken(c).destination = c.destination + TokenLength(c)
<1> DEFINE source == c.source + TokenAt(c).width
           bits == c.bits - 1
           code == (c.code * 2) % (Radix * Radix)
           destination == c.destination + TokenLength(c)
<1>1. /\ c.source \in Nat /\ c.bits \in 0 .. GroupBits /\ c.code \in Nat
      /\ c.destination \in OutputFirst .. OutputEnd /\ GroupBits \in Nat
      /\ OutputFirst \in Nat /\ OutputEnd \in Nat
  BY TurnsCount, ByteTyped DEF LoopRegisters
<1>2. TokenAt(c).width \in 1 .. 3
  BY TokenTyped DEF Tokens
<1>3. TokenLength(c) \in 1 .. (OutputEnd - c.destination)
  BY LengthTyped
<1>4. source \in Nat /\ bits \in 0 .. GroupBits /\ destination \in OutputFirst .. OutputEnd
  <2> DEFINE w == TokenAt(c).width
             l == TokenLength(c)
  <2>1. w \in 1 .. 3 /\ l \in 1 .. (OutputEnd - c.destination)
    BY <1>2, <1>3
  <2> HIDE DEF w, l
  <2>2. c.source + w \in Nat /\ c.bits - 1 \in 0 .. GroupBits
        /\ c.destination + l \in OutputFirst .. OutputEnd
    BY <1>1, <2>1
  <2> QED
    BY <2>2 DEF w, l
<1>5. code \in Byte
  <2> DEFINE m == Radix * Radix
             d == c.code * 2
  <2>1. m \in Nat \ {0} /\ Byte = 0 .. (m - 1) /\ d \in Int
    BY <1>1, ByteTyped
  <2> HIDE DEF m, d
  <2>2. d % m \in Byte
    BY <2>1, Division
  <2> QED
    BY <2>2 DEF m, d
<1>6. windowed >= Len(stream) \/ (bits > 0 => source + 3 * bits <= windowed)
  <2> DEFINE w == TokenAt(c).width
  <2>1. w \in 1 .. 3 /\ windowed \in Nat
    BY <1>2 DEF Decoding
  <2> DEFINE all == windowed >= Len(stream)
             s == c.source
             b == c.bits
  <2>2. s \in Nat /\ b \in Nat /\ (all \/ s + 3 * b <= windowed)
    BY <1>1 DEF Supplied
  <2> HIDE DEF w, all, s, b
  <2>3. all \/ (s + w) + 3 * (b - 1) <= windowed
    BY <2>1, <2>2
  <2>4. windowed >= Len(stream) \/ (c.source + w) + 3 * (c.bits - 1) <= windowed
    BY <2>3 DEF all, s, b
  <2> QED
    BY <2>4 DEF w
<1>7. AfterToken(c) = [source |-> source, bits |-> bits, code |-> code,
                       destination |-> destination]
  BY DEF AfterToken
<1> HIDE DEF source, bits, code, destination
<1>8. AfterToken(c) \in LoopRegisters /\ Supplied(stream, windowed, AfterToken(c))
  BY <1>4, <1>5, <1>6, <1>7 DEF LoopRegisters, Supplied
<1> QED
  BY <1>7, <1>8 DEF source, bits, code, destination

\* Where the expansion is when a token is about to be read.
AtToken(c, n) ==
    /\ n \in 0 .. Turns /\ n <= 3 * (c.destination - OutputFirst) + 1
    /\ Matches(c, Expansion(stream)[n])

LEMMA TokenReading ==
    ASSUME Decoding, NEW c \in LoopRegisters, c.bits > 0, c.destination < OutputEnd,
           Supplied(stream, windowed, c), NEW n, AtToken(c, n),
           NEW e, e = Expansion(stream)[n], NEW f, f = Expansion(stream)[n + 1]
    PROVE  /\ n \in 0 .. Turns - 1 /\ n + 1 \in 0 .. Turns
           /\ e \in Expanding /\ f \in Expanding /\ f.distance <= Len(f.bytes)
           /\ f = ExpandTurn(stream, e)
           /\ Len(e.bytes) # OutputEnd /\ ~(e.left > 0) /\ e.used # GroupBits
           /\ Len(e.bytes) = c.destination /\ e.left = 0 /\ e.source = c.source
           /\ e.used = GroupBits - c.bits
           /\ Literal(e) <=> c.code >= TopBit
           /\ (c.code * 2) % (Radix * Radix) = CodeShifted(e.code, e.used + 1)
           /\ \A i \in 0 .. 2 : c.source + i < f.source =>
                WindowByte(c.source + i) = ByteOf(stream, c.source + i)
<1>1. /\ c.source \in Nat /\ c.bits \in 1 .. GroupBits
      /\ c.destination \in OutputFirst .. OutputEnd /\ GroupBits \in Nat \ {0}
      /\ windowed \in Nat
  BY TurnsCount, ByteTyped DEF LoopRegisters, Decoding
<1>2. n \in 0 .. Turns - 1 /\ n + 1 \in 0 .. Turns
  BY <1>1, TurnsCount DEF AtToken
<1>3. /\ stream \in Stream /\ Len(stream) \in Nat
      /\ e \in Expanding /\ f \in Expanding /\ f.source <= Len(stream)
      /\ f.distance <= Len(f.bytes)
  BY <1>2, ExpansionTyped DEF Decoding, AtToken
<1>4. f = ExpandTurn(stream, e)
  BY <1>2, ExpansionTurns
<1>5. /\ Len(e.bytes) = c.destination /\ e.left = 0 /\ e.source = c.source
      /\ e.used = GroupBits - c.bits /\ c.code = CodeShifted(e.code, e.used)
  BY <1>1 DEF AtToken, Matches
<1>6. Len(e.bytes) # OutputEnd /\ ~(e.left > 0) /\ e.used # GroupBits
      /\ e.used \in 0 .. GroupBits - 1
  BY <1>1, <1>5
<1>7. e.code \in Byte /\ f.source \in Nat
  BY <1>3 DEF Expanding
<1>8. /\ CodeShifted(e.code, e.used) >= TopBit <=> (e.code \div Weight[GroupBits - 1 - e.used]) % 2 = 1
      /\ (CodeShifted(e.code, e.used) * 2) % (Radix * Radix) = CodeShifted(e.code, e.used + 1)
  <2> DEFINE b == e.code
             k == e.used
  <2>1. b \in Byte /\ k \in 0 .. GroupBits - 1
    BY <1>6, <1>7
  <2> HIDE DEF b, k
  <2>2. /\ CodeShifted(b, k) >= TopBit <=> (b \div Weight[GroupBits - 1 - k]) % 2 = 1
        /\ (CodeShifted(b, k) * 2) % (Radix * Radix) = CodeShifted(b, k + 1)
    BY <2>1, ShiftedBits
  <2> QED
    BY <2>2 DEF b, k
<1>9. Literal(e) <=> c.code >= TopBit
  BY <1>5, <1>8 DEF Literal
<1>10. (c.code * 2) % (Radix * Radix) = CodeShifted(e.code, e.used + 1)
  BY <1>5, <1>8
<1>11. ASSUME NEW i \in 0 .. 2, c.source + i < f.source
       PROVE  WindowByte(c.source + i) = ByteOf(stream, c.source + i)
  <2>1. windowed >= Len(stream) \/ c.source + 3 * c.bits <= windowed
    BY DEF Supplied
  <2> DEFINE s == c.source
             b == c.bits
             l == Len(stream)
             t == f.source
  <2>2. /\ s \in Nat /\ b \in 1 .. GroupBits /\ l \in Nat /\ t \in Nat /\ t <= l /\ s + i < t
        /\ windowed >= l \/ s + 3 * b <= windowed
    BY <1>1, <1>3, <1>7, <1>11, <2>1
  <2> HIDE DEF s, b, l, t
  <2>3. s + i < windowed /\ s + i \in Nat
    BY <1>1, <2>2
  <2> QED
    BY <2>3, InWindow DEF s
<1> QED
  BY <1>2, <1>3, <1>4, <1>5, <1>6, <1>9, <1>10, <1>11

\* A copy token says in the window what it says in the file.
LEMMA TokenSpelled ==
    ASSUME Decoding, NEW c \in LoopRegisters, c.bits > 0, c.destination < OutputEnd,
           Supplied(stream, windowed, c), NEW n, AtToken(c, n),
           NEW e, e = Expansion(stream)[n], NEW f, f = Expansion(stream)[n + 1],
           ~TokenAt(c).literal
    PROVE  /\ f.source = c.source + TokenAt(c).width /\ f.left = TokenAt(c).length
           /\ f.distance = TokenAt(c).distance /\ f.used = e.used + 1 /\ f.code = e.code
           /\ f.bytes = e.bytes
<1> DEFINE nibble == ByteOf(stream, e.source) \div Radix
           first == ByteOf(stream, e.source)
           second == ByteOf(stream, e.source + 1)
           third == ByteOf(stream, e.source + 2)
           digit == first % Radix
<1>1. /\ e \in Expanding /\ f \in Expanding
      /\ f = ExpandTurn(stream, e) /\ Len(e.bytes) # OutputEnd /\ ~(e.left > 0)
      /\ e.used # GroupBits /\ e.source = c.source /\ (Literal(e) <=> c.code >= TopBit)
      /\ \A i \in 0 .. 2 : c.source + i < f.source =>
           WindowByte(c.source + i) = ByteOf(stream, c.source + i)
  BY TokenReading
<1>2. ~(c.code >= TopBit) /\ ~Literal(e)
  BY <1>1, TokenTyped
<1>3. f = [e EXCEPT !.source = e.source + (IF nibble > 0 THEN 2 ELSE 3),
                    !.used = e.used + 1, !.distance = 1 + second + digit * (Radix * Radix),
                    !.left = IF nibble > 0 THEN nibble + 2 ELSE third + LongBase]
  <2>1. Len(e.bytes) # OutputEnd /\ ~(e.left > 0) /\ e.used # GroupBits /\ ~Literal(e)
    BY <1>1, <1>2
  <2>2. f = OpenToken(stream, e)
    BY <1>1, <2>1, TokenTurn
  <2> QED
    BY <2>2 DEF OpenToken
<1>4. /\ first \in Byte /\ second \in Nat /\ third \in Nat /\ nibble \in Nat /\ digit \in Nat
      /\ Radix \in Nat /\ LongBase \in Nat /\ e.source \in Nat
  <2>1. e.source \in Nat /\ e.source + 1 \in Nat /\ e.source + 2 \in Nat /\ stream \in Seq(Byte)
    <3>1. e.source \in Nat
      BY <1>1 DEF Expanding
    <3>2. stream \in Seq(Byte)
      BY ExpansionTyped DEF Decoding
    <3> QED
      BY <3>1, <3>2
  <2>2. first \in Byte /\ second \in Nat /\ third \in Nat
    BY <2>1, ByteOfTyped
  <2> HIDE DEF second, third
  <2>3. nibble \in Nat /\ digit \in Nat
    <3>1. nibble = first \div Radix
      OBVIOUS
    <3> HIDE DEF first, nibble
    <3> QED
      BY <2>2, <3>1, Digits
  <2> QED
    BY <2>1, <2>2, <2>3, Yaz0Assumption
<1>5. TokenAt(c) =
        LET opening == WindowByte(c.source)
            short == opening \div Radix
        IN  [literal |-> FALSE, width |-> IF short = 0 THEN 3 ELSE 2,
             length |-> IF short = 0 THEN WindowByte(c.source + 2) + LongBase ELSE short + 2,
             distance |-> (opening % Radix) * Radix * Radix + WindowByte(c.source + 1) + 1]
  BY <1>2 DEF TokenAt
<1> DEFINE width == IF nibble > 0 THEN 2 ELSE 3
           used == e.used + 1
           rest == IF nibble > 0 THEN nibble + 2 ELSE third + LongBase
           distance == 1 + second + digit * (Radix * Radix)
           source == e.source + width
<1>6. f = [e EXCEPT !.source = source, !.used = used, !.distance = distance, !.left = rest]
  BY <1>3
<1> HIDE DEF source, used, distance, rest
<1>7. /\ f.source = source /\ f.used = used /\ f.distance = distance /\ f.left = rest
      /\ f.code = e.code /\ f.bytes = e.bytes
  <2> HIDE DEF width
  <2> QED
    BY <1>1, <1>6 DEF Expanding
<1> HIDE DEF nibble, second, third, digit
<1>8. WindowByte(c.source) = first /\ WindowByte(c.source + 1) = second
      /\ (nibble = 0 => WindowByte(c.source + 2) = third)
  <2> DEFINE s == c.source
  <2>1. s \in Nat /\ source = s + width /\ f.source = source
    BY <1>1, <1>4, <1>7 DEF source
  <2>2. s + 0 < f.source /\ s + 1 < f.source /\ (nibble = 0 => s + 2 < f.source)
    <3> HIDE DEF s
    <3> QED
      BY <1>4, <2>1
  <2>3. s + 0 = s
    BY <2>1
  <2> HIDE DEF first
  <2>4. WindowByte(s + 0) = ByteOf(stream, s + 0) /\ WindowByte(s + 1) = ByteOf(stream, s + 1)
        /\ (nibble = 0 => WindowByte(s + 2) = ByteOf(stream, s + 2))
    BY <1>1, <2>2
  <2> QED
    BY <1>1, <2>3, <2>4 DEF first, second, third
<1> HIDE DEF first
<1>9. TokenAt(c) =
        [literal |-> FALSE, width |-> IF nibble = 0 THEN 3 ELSE 2,
         length |-> IF nibble = 0 THEN third + LongBase ELSE nibble + 2,
         distance |-> digit * Radix * Radix + second + 1]
  <2>1. nibble = first \div Radix /\ digit = first % Radix
    BY DEF nibble, digit, first
  <2> QED
    BY <1>5, <1>8, <2>1
<1>10. TokenAt(c).width = width /\ TokenAt(c).length = rest
  BY <1>4, <1>9 DEF rest
<1>11. TokenAt(c).distance = distance
  <2>1. TokenAt(c).distance = digit * Radix * Radix + second + 1
    BY <1>9
  <2>2. digit * Radix * Radix = digit * (Radix * Radix)
    BY <1>4
  <2> DEFINE high == digit * (Radix * Radix)
  <2>3. high \in Nat
    <3> DEFINE m == Radix * Radix
    <3>1. m \in Nat
      BY <1>4
    <3> HIDE DEF m
    <3>2. digit * m \in Nat
      BY <1>4, <3>1
    <3> QED
      BY <3>2 DEF m
  <2>4. distance = 1 + second + high
    BY DEF distance
  <2>5. TokenAt(c).distance = high + second + 1
    BY <2>1, <2>2
  <2> HIDE DEF high
  <2> QED
    BY <1>4, <2>3, <2>4, <2>5
<1>12. source = c.source + width
  BY <1>1 DEF source
<1> HIDE DEF width
<1> QED
  BY <1>7, <1>10, <1>11, <1>12 DEF used

\* What has been written of a token.
LEMMA WrittenAt ==
    ASSUME NEW c, NEW k
    PROVE  /\ Written(c, k) = [a \in Position |-> Written(c, k)[a]]
           /\ \A a \in Position :
                 Written(c, k)[a] = IF c.destination <= a /\ a < c.destination + k
                                    THEN TokenBytes(c)[a - c.destination] ELSE decoded[a]
  BY DEF Written

\* What agrees with an expansion holds bytes.
LEMMA AgreementTyped ==
    ASSUME NEW memory, memory = [a \in Position |-> memory[a]], NEW e \in Expanding,
           Agrees(memory, e),
           \A a \in Position : ~(a < Len(e.bytes)) => memory[a] \in Byte
    PROVE  memory \in [Position -> Byte]
<1> SUFFICES ASSUME NEW a \in Position PROVE memory[a] \in Byte
  OBVIOUS
<1>1. e.bytes \in Seq(Byte) /\ Len(e.bytes) \in Nat /\ a \in Nat
  BY TurnsCount DEF Expanding, Position
<1>2. CASE a < Len(e.bytes)
  <2>1. a \in 0 .. Len(e.bytes) - 1 /\ a + 1 \in 1 .. Len(e.bytes)
    BY <1>1, <1>2
  <2>2. e.bytes[a + 1] \in Byte
    BY <1>1, <2>1
  <2> QED
    BY <2>1, <2>2 DEF Agrees
<1> QED
  BY <1>2

\* A token has been written out: the registers and the memory after it.
TokenDone(c) ==
    /\ Reached(stream, AfterToken(c), Written(c, TokenLength(c)))
    /\ \A k \in 0 .. TokenLength(c) : Written(c, k) \in [Position -> Byte]

LEMMA LiteralStep ==
    ASSUME Decoding, NEW c \in LoopRegisters, c.bits > 0, c.destination < OutputEnd,
           Supplied(stream, windowed, c), NEW n, AtToken(c, n),
           Agrees(decoded, Expansion(stream)[n]), TokenAt(c).literal
    PROVE  TokenDone(c)
<1> DEFINE e == Expansion(stream)[n]
           f == Expansion(stream)[n + 1]
           byte == ByteOf(stream, c.source)
           d == c.destination
           after == AfterToken(c)
           memory == Written(c, 1)
<1>1. /\ n \in 0 .. Turns - 1 /\ n + 1 \in 0 .. Turns
      /\ e \in Expanding /\ f \in Expanding
      /\ f = ExpandTurn(stream, e) /\ Len(e.bytes) # OutputEnd /\ ~(e.left > 0)
      /\ e.used # GroupBits /\ Len(e.bytes) = d /\ e.left = 0 /\ e.source = c.source
      /\ e.used = GroupBits - c.bits /\ (Literal(e) <=> c.code >= TopBit)
      /\ (c.code * 2) % (Radix * Radix) = CodeShifted(e.code, e.used + 1)
      /\ \A i \in 0 .. 2 : c.source + i < f.source =>
           WindowByte(c.source + i) = ByteOf(stream, c.source + i)
  BY TokenReading
<1>2. /\ c.source \in Nat /\ c.bits \in 1 .. GroupBits /\ d \in OutputFirst .. OutputEnd
      /\ d \in Nat /\ OutputFirst \in Nat /\ OutputEnd \in Nat /\ d < OutputEnd
      /\ GroupBits \in Nat /\ n \in Nat /\ n <= 3 * (d - OutputFirst) + 1
  BY TurnsCount, ByteTyped DEF LoopRegisters, AtToken
<1>3. Agrees(decoded, e)
  OBVIOUS
<1>4. Literal(e)
  BY <1>1, TokenTyped
<1> HIDE DEF e, f
<1>5. f = [e EXCEPT !.bytes = Append(e.bytes, byte), !.source = e.source + 1,
                    !.used = e.used + 1]
  <2>1. f = TakeLiteral(stream, e)
    BY <1>1, <1>4, LiteralTurn
  <2> QED
    BY <1>1, <2>1 DEF TakeLiteral
<1>6. TokenAt(c).length = 1 /\ TokenAt(c).width = 1
  BY TokenTyped DEF TokenAt
<1>7. TokenLength(c) = 1
  BY <1>2, <1>6 DEF TokenLength
<1> HIDE DEF byte
<1>8. /\ f.bytes = Append(e.bytes, byte) /\ f.source = c.source + 1 /\ f.used = e.used + 1
      /\ f.left = 0 /\ f.code = e.code
  BY <1>1, <1>5 DEF Expanding
<1>9. e.bytes \in Seq(Byte)
  BY <1>1 DEF Expanding
<1>10. /\ Len(f.bytes) = d + 1 /\ f.bytes[d + 1] = byte
       /\ \A i \in 1 .. d : f.bytes[i] = e.bytes[i]
  <2> DEFINE bytes == e.bytes
  <2>1. bytes \in Seq(Byte) /\ Len(bytes) = d
    BY <1>1, <1>9
  <2> HIDE DEF bytes
  <2>2. byte \in Byte
    BY <1>2, ByteOfTyped, ExpansionTyped DEF Decoding, byte
  <2>3. /\ Len(Append(bytes, byte)) = d + 1 /\ Append(bytes, byte)[d + 1] = byte
        /\ \A i \in 1 .. d : Append(bytes, byte)[i] = bytes[i]
    BY <2>1, <2>2
  <2> QED
    BY <1>8, <2>3 DEF bytes
<1>11. WindowByte(c.source) = byte
  <2>1. c.source + 0 < f.source /\ c.source + 0 = c.source
    BY <1>2, <1>8
  <2>2. WindowByte(c.source + 0) = ByteOf(stream, c.source + 0)
    BY <1>1, <2>1
  <2> QED
    BY <2>1, <2>2 DEF byte
<1>12. TokenBytes(c)[0] = byte
  <2>1. 0 \in 0 .. TokenLength(c) - 1
    BY <1>7
  <2> QED
    BY <1>11, <2>1, BytesOfToken
<1>13. \A a \in Position : memory[a] = IF a = d THEN byte ELSE decoded[a]
  <2> SUFFICES ASSUME NEW a \in Position
               PROVE  memory[a] = IF a = d THEN byte ELSE decoded[a]
    OBVIOUS
  <2>1. memory[a] = IF d <= a /\ a < d + 1 THEN TokenBytes(c)[a - d] ELSE decoded[a]
    BY WrittenAt
  <2>2. a \in Nat
    BY <1>2 DEF Position
  <2>3. (d <= a /\ a < d + 1) <=> a = d
    BY <1>2, <2>2
  <2>4. a = d => a - d = 0
    BY <1>2
  <2> HIDE DEF memory, d
  <2> QED
    BY <1>12, <2>1, <2>3, <2>4
<1>14. Agrees(memory, f)
  <2> SUFFICES ASSUME NEW a \in 0 .. Len(f.bytes) - 1 PROVE memory[a] = f.bytes[a + 1]
    BY DEF Agrees
  <2>1. a \in 0 .. d /\ a \in Position
    BY <1>2, <1>10 DEF Position
  <2> HIDE DEF memory, d
  <2>2. CASE a = d
    BY <1>10, <1>13, <2>1, <2>2
  <2>3. CASE a # d
    <3>1. a \in 0 .. Len(e.bytes) - 1 /\ a + 1 \in 1 .. d
      BY <1>1, <1>2, <2>1, <2>3
    <3>2. decoded[a] = e.bytes[a + 1]
      BY <1>3, <3>1 DEF Agrees
    <3> QED
      BY <1>10, <1>13, <2>1, <2>3, <3>1, <3>2
  <2> QED
    BY <2>2, <2>3
<1>15. /\ after.source = c.source + 1 /\ after.bits = c.bits - 1
       /\ after.code = CodeShifted(e.code, e.used + 1) /\ after.destination = d + 1
  BY <1>1, <1>6, <1>7, TokenAdvances
<1> HIDE DEF after, d
<1>16. Matches(after, f)
  <2>1. f.used = GroupBits - after.bits
    BY <1>1, <1>2, <1>8, <1>15
  <2> QED
    BY <1>8, <1>10, <1>15, <2>1 DEF Matches
<1>17. Reached(stream, after, memory)
  <2>1. n + 1 <= 3 * (after.destination - OutputFirst)
    BY <1>2, <1>15
  <2> HIDE DEF memory
  <2> QED
    BY <1>1, <1>14, <1>16, <2>1 DEF Reached, f
<1>18. ASSUME NEW k \in 0 .. TokenLength(c) PROVE Written(c, k) \in [Position -> Byte]
  <2>1. CASE k = 1
    <3>1. memory = [a \in Position |-> memory[a]]
      BY WrittenAt
    <3>2. ASSUME NEW a \in Position, ~(a < Len(f.bytes)) PROVE memory[a] \in Byte
      <4>1. a # d
        BY <1>2, <1>10, <3>2
      <4>2. memory[a] = decoded[a]
        BY <1>13, <4>1
      <4> QED
        BY <4>2 DEF Decoding
    <3> HIDE DEF memory
    <3>3. memory \in [Position -> Byte]
      BY <1>1, <1>14, <3>1, <3>2, AgreementTyped
    <3> QED
      BY <2>1, <3>3 DEF memory
  <2>2. CASE k = 0
    <3>1. Written(c, k) = [a \in Position |-> Written(c, k)[a]]
      BY WrittenAt
    <3>2. ASSUME NEW a \in Position PROVE Written(c, k)[a] = decoded[a]
      <4>1. Written(c, k)[a] = IF c.destination <= a /\ a < c.destination + k
                               THEN TokenBytes(c)[a - c.destination] ELSE decoded[a]
        BY WrittenAt
      <4>2. ~(c.destination <= a /\ a < c.destination + k)
        BY <1>2, <2>2 DEF Position, d
      <4> QED
        BY <4>1, <4>2
    <3>3. ASSUME NEW a \in Position PROVE Written(c, k)[a] \in Byte
      BY <3>2 DEF Decoding
    <3> QED
      BY <3>1, <3>3
  <2> QED
    BY <1>7, <2>1, <2>2
<1> QED
  BY <1>7, <1>17, <1>18 DEF TokenDone, after, memory

\* The expansion after k bytes of a copy token, and the memory with those.
Copied(c, start, k, e) ==
    /\ Len(e.bytes) = c.destination + k /\ e.left = TokenAt(c).length - k
    /\ e.source = c.source + TokenAt(c).width /\ e.distance = TokenAt(c).distance
    /\ e.used = start.used + 1 /\ e.code = start.code
    /\ Agrees(Written(c, k), e)

LEMMA CopyBegins ==
    ASSUME Decoding, NEW c \in LoopRegisters, c.bits > 0, c.destination < OutputEnd,
           Supplied(stream, windowed, c), NEW n, AtToken(c, n),
           Agrees(decoded, Expansion(stream)[n]), ~TokenAt(c).literal
    PROVE  /\ Copied(c, Expansion(stream)[n], 0, Expansion(stream)[n + 1])
           /\ TokenAt(c).distance <= c.destination
<1> DEFINE e == Expansion(stream)[n]
           f == Expansion(stream)[n + 1]
<1>1. /\ e \in Expanding /\ f \in Expanding /\ Len(e.bytes) = c.destination
      /\ f.distance <= Len(f.bytes)
  BY TokenReading
<1>2. /\ f.source = c.source + TokenAt(c).width /\ f.left = TokenAt(c).length
      /\ f.distance = TokenAt(c).distance /\ f.used = e.used + 1 /\ f.code = e.code
      /\ f.bytes = e.bytes
  BY TokenSpelled
<1>3. Agrees(decoded, e)
  OBVIOUS
<1>4. c.destination \in Nat /\ OutputEnd \in Nat /\ c.destination <= OutputEnd
  BY TurnsCount DEF LoopRegisters
<1> HIDE DEF e, f
<1>5. Agrees(Written(c, 0), f)
  <2> SUFFICES ASSUME NEW a \in 0 .. Len(f.bytes) - 1 PROVE Written(c, 0)[a] = f.bytes[a + 1]
    BY DEF Agrees
  <2>1. a \in Position /\ a \in 0 .. Len(e.bytes) - 1
    BY <1>1, <1>2, <1>4 DEF Position
  <2>2. Written(c, 0)[a] = IF c.destination <= a /\ a < c.destination + 0
                           THEN TokenBytes(c)[a - c.destination] ELSE decoded[a]
    BY <2>1, WrittenAt
  <2>3. ~(c.destination <= a /\ a < c.destination + 0)
    BY <1>4, <2>1 DEF Position
  <2>4. Written(c, 0)[a] = decoded[a]
    BY <2>2, <2>3
  <2>5. decoded[a] = e.bytes[a + 1]
    BY <1>3, <2>1 DEF Agrees
  <2> QED
    BY <1>2, <2>4, <2>5
<1>6. TokenAt(c).length \in Nat
  BY TokenTyped DEF Tokens
<1>7. f.left = TokenAt(c).length - 0 /\ Len(f.bytes) = c.destination + 0
  <2> DEFINE l == TokenAt(c).length
             d == c.destination
  <2>1. l \in Nat /\ d \in Nat /\ f.left = l /\ Len(f.bytes) = d
    BY <1>1, <1>2, <1>4, <1>6
  <2> HIDE DEF l, d
  <2>2. f.left = l - 0 /\ Len(f.bytes) = d + 0
    BY <2>1
  <2> QED
    BY <2>2 DEF l, d
<1>8. Copied(c, e, 0, f)
  BY <1>2, <1>5, <1>7 DEF Copied
<1> QED
  BY <1>1, <1>2, <1>8 DEF e, f

LEMMA CopyGoesOn ==
    ASSUME Decoding, NEW c \in LoopRegisters, c.destination < OutputEnd,
           ~TokenAt(c).literal, TokenAt(c).distance <= c.destination, NEW start,
           NEW k \in 0 .. TokenLength(c) - 1,
           NEW e \in Expanding, NEW f \in Expanding, f = ExpandTurn(stream, e),
           Copied(c, start, k, e)
    PROVE  Copied(c, start, k + 1, f)
<1> DEFINE d == c.destination
           distance == TokenAt(c).distance
           length == TokenAt(c).length
           at == d + k
           x == e.bytes[at + 1 - distance]
           old == Written(c, k)
           new == Written(c, k + 1)
<1>1. /\ d \in Nat /\ OutputEnd \in Nat /\ d < OutputEnd /\ k \in Nat
      /\ TokenLength(c) \in 1 .. (OutputEnd - d) /\ TokenLength(c) <= length
  BY LengthTyped, TurnsCount DEF LoopRegisters
<1>2. length \in Nat /\ distance \in Nat /\ distance > 0 /\ distance <= d
  BY TokenTyped DEF Tokens
<1>3. /\ Len(e.bytes) = at /\ e.left = length - k
      /\ e.source = c.source + TokenAt(c).width /\ e.distance = distance
      /\ e.used = start.used + 1 /\ e.code = start.code
      /\ Agrees(old, e)
  BY DEF Copied
<1> HIDE DEF distance, length, old
<1>4. k < TokenLength(c) /\ at \in Nat /\ at < OutputEnd /\ k < length
  <2> HIDE DEF d
  <2> QED
    BY <1>1, <1>2
<1>5. f = [e EXCEPT !.bytes = Append(e.bytes, x), !.left = e.left - 1]
  <2>1. Len(e.bytes) # OutputEnd /\ e.left > 0
    BY <1>1, <1>2, <1>3, <1>4
  <2>2. f = CopiedByte(e)
    BY <2>1, CopyTurn
  <2> HIDE DEF at
  <2> QED
    BY <1>3, <2>2 DEF CopiedByte
<1> HIDE DEF at, x
<1>6. /\ f.bytes = Append(e.bytes, x) /\ f.left = e.left - 1 /\ f.source = e.source
      /\ f.distance = e.distance /\ f.used = e.used /\ f.code = e.code
  BY <1>5 DEF Expanding
<1>7. at - distance \in 0 .. at - 1 /\ (at - distance) + 1 = at + 1 - distance
      /\ at + 1 - distance \in 1 .. at
  <2> HIDE DEF d
  <2> QED
    BY <1>1, <1>2 DEF at
<1>8. /\ Len(f.bytes) = at + 1 /\ f.bytes[at + 1] = x
      /\ \A i \in 1 .. at : f.bytes[i] = e.bytes[i]
  <2> DEFINE bytes == e.bytes
  <2>1. bytes \in Seq(Byte) /\ Len(bytes) = at
    BY <1>3 DEF Expanding
  <2> HIDE DEF bytes
  <2>2. bytes[at + 1 - distance] \in Byte
    BY <1>7, <2>1
  <2>3. x \in Byte
    BY <2>2 DEF x, bytes
  <2>4. /\ Len(Append(bytes, x)) = at + 1 /\ Append(bytes, x)[at + 1] = x
        /\ \A i \in 1 .. at : Append(bytes, x)[i] = bytes[i]
    BY <2>1, <2>3
  <2> QED
    BY <1>6, <2>4 DEF bytes
<1>9. ASSUME NEW a \in 0 .. at - 1
      PROVE  /\ old[a] = e.bytes[a + 1] /\ a \in Position
             /\ old[a] = IF d <= a THEN TokenBytes(c)[a - d] ELSE decoded[a]
             /\ new[a] = old[a]
  <2>1. old[a] = e.bytes[a + 1]
    BY <1>3 DEF Agrees
  <2>2. a \in Position /\ a < d + k /\ a < d + (k + 1)
    BY <1>1, <1>4 DEF Position, at
  <2>3. old[a] = IF d <= a /\ a < d + k THEN TokenBytes(c)[a - d] ELSE decoded[a]
    BY <2>2, WrittenAt DEF old
  <2>4. new[a] = IF d <= a /\ a < d + (k + 1) THEN TokenBytes(c)[a - d] ELSE decoded[a]
    BY <2>2, WrittenAt
  <2> HIDE DEF new, d
  <2> QED
    BY <2>1, <2>2, <2>3, <2>4
<1>10. x = IF d <= at - distance THEN TokenBytes(c)[(at - distance) - d]
           ELSE decoded[at - distance]
  <2> DEFINE from == at - distance
  <2>1. from \in 0 .. at - 1
    BY <1>7
  <2> HIDE DEF from, d
  <2>2. old[from] = e.bytes[from + 1]
        /\ old[from] = IF d <= from THEN TokenBytes(c)[from - d] ELSE decoded[from]
    BY <1>9, <2>1
  <2>3. x = e.bytes[from + 1]
    BY <1>7 DEF x, from
  <2>4. x = IF d <= from THEN TokenBytes(c)[from - d] ELSE decoded[from]
    BY <2>2, <2>3
  <2> QED
    BY <2>4 DEF from
<1>11. TokenBytes(c)[k] = IF k < distance THEN decoded[d + k - distance]
                          ELSE TokenBytes(c)[k - distance]
  BY BytesOfToken DEF distance
<1>12. new[at] = x
  <2>1. at \in Position /\ d <= at /\ at < d + (k + 1) /\ at - d = k
    BY <1>1, <1>4 DEF Position, at
  <2>2. new[at] = IF d <= at /\ at < d + (k + 1) THEN TokenBytes(c)[at - d] ELSE decoded[at]
    BY <2>1, WrittenAt
  <2>3. new[at] = TokenBytes(c)[k]
    BY <2>1, <2>2
  <2> HIDE DEF new, d
  <2>4. (k < distance <=> ~(d <= at - distance)) /\ d + k - distance = at - distance
        /\ k - distance = (at - distance) - d
    BY <1>1, <1>2 DEF at
  <2> QED
    BY <1>10, <1>11, <2>3, <2>4
<1>13. Agrees(new, f)
  <2> SUFFICES ASSUME NEW a \in 0 .. Len(f.bytes) - 1 PROVE new[a] = f.bytes[a + 1]
    BY DEF Agrees
  <2> HIDE DEF new, d
  <2>1. CASE a = at
    BY <1>8, <1>12, <2>1
  <2>2. CASE a # at
    <3>1. a \in 0 .. at - 1 /\ a + 1 \in 1 .. at
      BY <1>4, <1>8, <2>2
    <3> QED
      BY <1>8, <1>9, <3>1
  <2> QED
    BY <2>1, <2>2
<1>14. Len(f.bytes) = d + (k + 1) /\ f.left = length - (k + 1)
  <2> HIDE DEF d
  <2>1. Len(f.bytes) = d + (k + 1)
    BY <1>1, <1>8 DEF at
  <2>2. f.left = (length - k) - 1
    BY <1>3, <1>6
  <2> QED
    BY <1>1, <1>2, <2>1, <2>2
<1> QED
  BY <1>3, <1>6, <1>13, <1>14 DEF Copied, distance, length

LEMMA CopyTokenStep ==
    ASSUME Decoding, NEW c \in LoopRegisters, c.bits > 0, c.destination < OutputEnd,
           Supplied(stream, windowed, c), NEW n, AtToken(c, n),
           Agrees(decoded, Expansion(stream)[n]), ~TokenAt(c).literal
    PROVE  TokenDone(c)
<1> DEFINE e == Expansion(stream)[n]
           f(k) == Expansion(stream)[(n + 1) + k]
           length == TokenLength(c)
           d == c.destination
           T == {k \in Nat : k <= length => Copied(c, e, k, f(k))}
<1>1. /\ d \in OutputFirst .. OutputEnd /\ d < OutputEnd /\ d \in Nat /\ c.bits \in 1 .. GroupBits
      /\ OutputFirst \in Nat /\ OutputEnd \in Nat /\ Turns \in Nat
      /\ Turns = 3 * (OutputEnd - OutputFirst) /\ GroupBits \in Nat
      /\ n \in Nat /\ n <= 3 * (d - OutputFirst) + 1
  BY TurnsCount, ByteTyped DEF LoopRegisters, AtToken
<1>2. length \in 1 .. (OutputEnd - d)
      /\ (length = TokenAt(c).length \/ d + length = OutputEnd)
  BY LengthTyped
<1>3. /\ e.used = GroupBits - c.bits
      /\ (c.code * 2) % (Radix * Radix) = CodeShifted(e.code, e.used + 1)
  BY TokenReading
<1>4. Copied(c, e, 0, Expansion(stream)[n + 1]) /\ TokenAt(c).distance <= d
  BY CopyBegins
<1>5. ASSUME NEW k \in 0 .. length
      PROVE  /\ (n + 1) + k \in 0 .. Turns /\ f(k) \in Expanding
             /\ (n + 1) + k <= 3 * (d - OutputFirst) + 2 + k
  <2> HIDE DEF d, length
  <2>1. (n + 1) + k \in 0 .. Turns /\ (n + 1) + k <= 3 * (d - OutputFirst) + 2 + k
    BY <1>1, <1>2
  <2> QED
    BY <2>1, ExpansionTyped DEF Decoding
<1> HIDE DEF e, d, length
<1>6. 0 \in T
  <2>1. (n + 1) + 0 = n + 1
    BY <1>1
  <2> QED
    BY <1>4, <2>1
<1>7. ASSUME NEW k \in T PROVE k + 1 \in T
  <2> SUFFICES ASSUME k + 1 <= length PROVE Copied(c, e, k + 1, f(k + 1))
    OBVIOUS
  <2>1. /\ k \in Nat /\ k <= length /\ k \in 0 .. length - 1 /\ k \in 0 .. length
        /\ k + 1 \in 0 .. length /\ (n + 1) + (k + 1) = ((n + 1) + k) + 1
    BY <1>1, <1>2
  <2>2. Copied(c, e, k, f(k)) /\ f(k) \in Expanding /\ f(k + 1) \in Expanding
    BY <1>5, <2>1
  <2>3. (n + 1) + k \in 0 .. Turns - 1
    BY <1>1, <1>5, <2>1
  <2>4. f(k + 1) = ExpandTurn(stream, f(k))
    BY <2>1, <2>3, ExpansionTurns
  <2> DEFINE before == f(k)
             after == f(k + 1)
  <2>5. /\ before \in Expanding /\ after \in Expanding /\ after = ExpandTurn(stream, before)
        /\ Copied(c, e, k, before)
    BY <2>2, <2>4
  <2> HIDE DEF before, after
  <2>6. k \in 0 .. TokenLength(c) - 1 /\ TokenAt(c).distance <= c.destination
    BY <1>4, <2>1 DEF length, d
  <2>7. Copied(c, e, k + 1, after)
    BY <2>5, <2>6, CopyGoesOn
  <2> QED
    BY <2>7 DEF after
<1>8. ASSUME NEW k \in 0 .. length PROVE Copied(c, e, k, f(k)) /\ f(k) \in Expanding
  <2>1. T = Nat
    <3>1. T \in SUBSET Nat
      OBVIOUS
    <3> HIDE DEF T
    <3> QED
      BY <1>6, <1>7, <3>1, SetInduction
  <2>2. k \in T /\ k <= length
    BY <1>2, <2>1
  <2>3. Copied(c, e, k, f(k))
    BY <2>2
  <2> QED
    BY <1>5, <2>3
<1>9. ASSUME NEW k \in 0 .. length PROVE Written(c, k) \in [Position -> Byte]
  <2> DEFINE memory == Written(c, k)
             g == f(k)
  <2>1. g \in Expanding /\ Agrees(memory, g) /\ Len(g.bytes) = d + k
    BY <1>8 DEF Copied, d
  <2>2. memory = [a \in Position |-> memory[a]]
    BY WrittenAt
  <2>3. ASSUME NEW a \in Position, ~(a < Len(g.bytes)) PROVE memory[a] \in Byte
    <3>1. memory[a] = IF c.destination <= a /\ a < c.destination + k
                      THEN TokenBytes(c)[a - c.destination] ELSE decoded[a]
      BY WrittenAt
    <3>2. ~(a < c.destination + k)
      BY <2>1, <2>3 DEF d
    <3>3. memory[a] = decoded[a]
      BY <3>1, <3>2
    <3> QED
      BY <3>3 DEF Decoding
  <2> HIDE DEF memory, g
  <2>4. memory \in [Position -> Byte]
    BY <2>1, <2>2, <2>3, AgreementTyped
  <2> QED
    BY <2>4 DEF memory
<1> DEFINE g == f(length)
           after == AfterToken(c)
           memory == Written(c, length)
<1>10. /\ Len(g.bytes) = d + length /\ g.left = TokenAt(c).length - length
       /\ g.source = c.source + TokenAt(c).width /\ g.used = e.used + 1 /\ g.code = e.code
       /\ Agrees(memory, g)
  <2>1. length \in 0 .. length
    BY <1>2
  <2> QED
    BY <1>8, <2>1 DEF Copied, d
<1>11. /\ after.source = c.source + TokenAt(c).width /\ after.bits = c.bits - 1
       /\ after.code = CodeShifted(e.code, e.used + 1) /\ after.destination = d + length
  BY <1>3, TokenAdvances DEF d, length
<1> HIDE DEF g, after, memory
<1>12. Matches(after, g)
  <2>1. g.used = GroupBits - after.bits
    BY <1>1, <1>3, <1>10, <1>11
  <2>2. after.destination < OutputEnd => g.left = 0
    <3> SUFFICES ASSUME after.destination < OutputEnd PROVE g.left = 0
      OBVIOUS
    <3>1. TokenAt(c).length = length
      BY <1>1, <1>2, <1>11
    <3> QED
      BY <1>2, <1>10, <3>1
  <2> QED
    BY <1>10, <1>11, <2>1, <2>2 DEF Matches
<1>13. Reached(stream, after, memory)
  <2>1. length \in 0 .. length
    BY <1>2
  <2>2. (n + 1) + length \in 0 .. Turns /\ (n + 1) + length <= 3 * (d - OutputFirst) + 2 + length
    BY <1>5, <2>1
  <2>3. (n + 1) + length <= 3 * (after.destination - OutputFirst)
    BY <1>1, <1>2, <1>11, <2>2
  <2>4. g = Expansion(stream)[(n + 1) + length]
    BY DEF g
  <2> QED
    BY <1>10, <1>12, <2>2, <2>3, <2>4 DEF Reached
<1> QED
  BY <1>9, <1>13 DEF TokenDone, after, memory, length

\* One turn of either loop, whoever runs it.
LEMMA TokenStep ==
    ASSUME Decoding, NEW r \in LoopRegisters, r.destination < OutputEnd,
           Reached(stream, r, decoded), Supplied(stream, windowed, r), ~AtWindowEnd(r),
           NEW c, c = WithCode(r)
    PROVE  /\ c \in LoopRegisters /\ c.destination = r.destination
           /\ TokenDone(c) /\ TokenLength(c) \in Nat
           /\ AfterToken(c) \in LoopRegisters /\ Supplied(stream, windowed, AfterToken(c))
           /\ AfterToken(c).destination = r.destination + TokenLength(c)
           /\ AfterToken(c).destination >= r.destination
<1>1. PICK n \in 0 .. Turns :
        /\ n <= 3 * (r.destination - OutputFirst)
        /\ Matches(r, Expansion(stream)[n]) /\ Agrees(decoded, Expansion(stream)[n])
  BY DEF Reached
<1>2. /\ c \in LoopRegisters /\ c.bits > 0 /\ c.destination = r.destination
      /\ Supplied(stream, windowed, c)
      /\ \E m \in 0 .. Turns :
            /\ m <= 3 * (r.destination - OutputFirst) + 1
            /\ Matches(c, Expansion(stream)[m])
            /\ Expansion(stream)[m].bytes = Expansion(stream)[n].bytes
  BY <1>1, CodeRead
<1>3. PICK m \in 0 .. Turns :
        /\ m <= 3 * (r.destination - OutputFirst) + 1
        /\ Matches(c, Expansion(stream)[m])
        /\ Expansion(stream)[m].bytes = Expansion(stream)[n].bytes
  BY <1>2
<1>4. AtToken(c, m)
  BY <1>2, <1>3 DEF AtToken
<1>5. Agrees(decoded, Expansion(stream)[m])
  BY <1>1, <1>3 DEF Agrees
<1>6. c.destination < OutputEnd
  BY <1>2
<1>7. TokenDone(c)
  BY <1>2, <1>4, <1>5, <1>6, LiteralStep, CopyTokenStep
<1>8. /\ AfterToken(c) \in LoopRegisters /\ Supplied(stream, windowed, AfterToken(c))
      /\ AfterToken(c).destination = c.destination + TokenLength(c)
  BY <1>2, <1>6, TokenAdvances
<1>9. TokenLength(c) \in 1 .. (OutputEnd - c.destination)
  BY <1>2, <1>6, LengthTyped
<1>10. r.destination \in Nat /\ OutputEnd \in Nat
  BY TurnsCount DEF LoopRegisters
<1> DEFINE l == TokenLength(c)
           d == r.destination
<1>11. l \in 1 .. (OutputEnd - d) /\ d \in Nat /\ OutputEnd \in Nat
  BY <1>2, <1>9, <1>10
<1> HIDE DEF l, d
<1>12. l \in Nat /\ d + l >= d
  BY <1>11
<1> QED
  BY <1>2, <1>7, <1>8, <1>12 DEF l, d

\* What lies behind a destination does not matter to it.
LEMMA ReachedBefore ==
    ASSUME NEW file, NEW r \in LoopRegisters, NEW before, NEW after, Reached(file, r, before),
           \A a \in Position : a < r.destination => after[a] = before[a]
    PROVE  Reached(file, r, after)
<1>1. PICK n \in 0 .. Turns :
        /\ n <= 3 * (r.destination - OutputFirst)
        /\ Matches(r, Expansion(file)[n]) /\ Agrees(before, Expansion(file)[n])
  BY DEF Reached
<1> DEFINE e == Expansion(file)[n]
<1>2. Len(e.bytes) = r.destination /\ r.destination \in Nat /\ r.destination <= OutputEnd
      /\ OutputEnd \in Nat
  BY <1>1, TurnsCount DEF Matches, LoopRegisters
<1>3. Agrees(before, e)
  BY <1>1
<1> HIDE DEF e
<1>4. Agrees(after, e)
  <2> SUFFICES ASSUME NEW a \in 0 .. Len(e.bytes) - 1 PROVE after[a] = e.bytes[a + 1]
    BY DEF Agrees
  <2>1. a \in Position /\ a < r.destination
    BY <1>2 DEF Position
  <2> QED
    BY <1>3, <2>1 DEF Agrees
<1> QED
  BY <1>1, <1>4 DEF Reached, e

LEMMA WrittenBehind ==
    ASSUME NEW c \in LoopRegisters, NEW k, NEW a \in Position, a < c.destination
    PROVE  Written(c, k)[a] = decoded[a]
<1>1. Written(c, k)[a] = IF c.destination <= a /\ a < c.destination + k
                         THEN TokenBytes(c)[a - c.destination] ELSE decoded[a]
  BY WrittenAt
<1>2. ~(c.destination <= a)
  BY TurnsCount DEF LoopRegisters, Position
<1> QED
  BY <1>1, <1>2

\* Where it starts.
LEMMA StartReached ==
    ASSUME NEW file
    PROVE  /\ Start \in LoopRegisters /\ Reached(file, Start, Earlier)
           /\ Earlier \in [Position -> Byte]
           /\ \A window \in Nat : Supplied(file, window, Start)
<1>1. /\ OutputFirst \in Nat /\ OutputEnd \in Nat /\ OutputFirst <= OutputEnd
      /\ GroupBits \in Nat /\ Turns \in Nat /\ 0 \in Byte
  BY TurnsCount, ByteTyped
<1>2. Start \in LoopRegisters /\ Start.destination = OutputFirst /\ Start.bits = 0 /\ Start.source = 0
  BY <1>1 DEF Start, LoopRegisters
<1>3. Expansion(file)[0] = Unexpanded
  BY ExpansionTurns
<1> DEFINE bytes == [i \in 1 .. OutputFirst |-> Earlier[i - 1]]
           e == Unexpanded
<1>4. /\ e.bytes = bytes /\ e.left = 0 /\ e.source = 0 /\ e.used = GroupBits
  BY DEF Unexpanded
<1>5. e \in Expanding /\ Len(e.bytes) = OutputFirst
  <2>1. Len(bytes) = OutputFirst
    BY <1>1
  <2> QED
    BY <1>4, <2>1, UnexpandedTyped
<1>6. ASSUME NEW a \in 0 .. OutputFirst - 1 PROVE Earlier[a] = e.bytes[a + 1]
  <2>1. a + 1 \in 1 .. OutputFirst /\ (a + 1) - 1 = a
    BY <1>1
  <2> QED
    BY <1>4, <2>1
<1> HIDE DEF e, bytes
<1>7. Agrees(Earlier, e)
  BY <1>5, <1>6 DEF Agrees
<1>8. Matches(Start, e)
  <2>1. e.used = GroupBits - Start.bits
    BY <1>1, <1>2, <1>4
  <2> QED
    BY <1>2, <1>4, <1>5, <2>1 DEF Matches
<1>9. Reached(file, Start, Earlier)
  <2>1. 0 \in 0 .. Turns /\ 0 <= 3 * (Start.destination - OutputFirst)
    BY <1>1, <1>2
  <2> QED
    BY <1>3, <1>7, <1>8, <2>1 DEF Reached, e
<1>10. Earlier \in [Position -> Byte]
  <2> DEFINE m == Radix * Radix
  <2>1. m \in Nat \ {0} /\ Byte = 0 .. (m - 1)
    BY ByteTyped
  <2>2. Earlier = [a \in Position |-> a % m]
    BY DEF Earlier
  <2> HIDE DEF m
  <2>3. ASSUME NEW a \in Position PROVE a % m \in Byte
    <3>1. a \in Int
      BY <1>1 DEF Position
    <3> QED
      BY <2>1, <3>1, Division
  <2> QED
    BY <2>2, <2>3
<1>11. \A window \in Nat : Supplied(file, window, Start)
  BY <1>2 DEF Supplied
<1> QED
  BY <1>2, <1>9, <1>10, <1>11

\* The guest's registers always lie at the beginning of a token of the
\* expansion, with what it has produced in the memory before them; so do the
\* host's while it decodes, further on.
Yaz0Typed ==
    /\ stream \in Stream /\ backed \in OutputBacked /\ windowed \in Nat
    /\ registers \in LoopRegisters
    /\ native \in [registers : LoopRegisters, produced : Nat]
    /\ decoder \in {"head", "native", "guest", "done"}
    /\ decoded \in [Position -> Byte]

Yaz0IInv ==
    /\ Yaz0Typed
    /\ Reached(stream, registers, decoded) /\ Supplied(stream, windowed, registers)
    /\ decoder = "guest" => registers.destination < OutputEnd
    /\ decoder = "native" =>
          /\ Reached(stream, native.registers, decoded)
          /\ Supplied(stream, windowed, native.registers)
          /\ registers.destination <= native.registers.destination

LEMMA Yaz0Initial == Yaz0Init => Yaz0IInv
<1> SUFFICES ASSUME Yaz0Init PROVE Yaz0IInv
  OBVIOUS
<1>1. /\ stream \in Stream /\ backed \in OutputBacked /\ windowed \in Nat
      /\ registers = Start /\ native = [registers |-> Start, produced |-> 0]
      /\ decoder = "head" /\ decoded = Earlier
  BY Yaz0Assumption DEF Yaz0Init, Yaz0From
<1>2. /\ Start \in LoopRegisters /\ Reached(stream, Start, Earlier)
      /\ Earlier \in [Position -> Byte] /\ Supplied(stream, windowed, Start)
  BY <1>1, StartReached
<1> QED
  BY <1>1, <1>2 DEF Yaz0IInv, Yaz0Typed

LEMMA Yaz0Step == Yaz0IInv /\ [Yaz0Next]_yaz0Vars => Yaz0IInv'
<1> SUFFICES ASSUME Yaz0IInv, [Yaz0Next]_yaz0Vars PROVE Yaz0IInv'
  OBVIOUS
<1>1. /\ Yaz0Typed
      /\ Reached(stream, registers, decoded) /\ Supplied(stream, windowed, registers)
      /\ decoder = "guest" => registers.destination < OutputEnd
      /\ decoder = "native" =>
            /\ Reached(stream, native.registers, decoded)
            /\ Supplied(stream, windowed, native.registers)
            /\ registers.destination <= native.registers.destination
  BY DEF Yaz0IInv
<1>2. /\ stream \in Stream /\ backed \in OutputBacked /\ backed \in Nat /\ windowed \in Nat
      /\ registers \in LoopRegisters /\ native \in [registers : LoopRegisters, produced : Nat]
      /\ native.registers \in LoopRegisters /\ native.produced \in Nat
      /\ decoder \in {"head", "native", "guest", "done"} /\ decoded \in [Position -> Byte]
  BY <1>1, Yaz0Assumption DEF Yaz0Typed
<1>3. Decoding
  BY <1>2 DEF Decoding
<1>4. \A r \in LoopRegisters : r.destination \in Nat /\ r.destination <= OutputEnd
      /\ OutputEnd \in Nat
  BY TurnsCount DEF LoopRegisters
<1>5. CASE UNCHANGED yaz0Vars
  BY <1>1, <1>5 DEF yaz0Vars, Yaz0IInv, Yaz0Typed
<1>6. CASE EnterNative
  <2>1. native' = [registers |-> registers, produced |-> 0]
    BY <1>6 DEF EnterNative
  <2>2. native' \in [registers : LoopRegisters, produced : Nat] /\ native'.registers = registers
    BY <1>2, <2>1
  <2>3. registers.destination <= registers.destination
    BY <1>2, <1>4
  <2> QED
    BY <1>1, <1>2, <1>6, <2>2, <2>3 DEF EnterNative, Yaz0IInv, Yaz0Typed
<1>7. CASE NativeToken
  <2> DEFINE r == native.registers
             c == WithCode(r)
             l == TokenLength(c)
  <2>1. /\ decoder = "native" /\ r.destination < OutputEnd /\ ~AtWindowEnd(r)
        /\ decoded' = Written(c, l)
        /\ native' = [registers |-> AfterToken(c), produced |-> native.produced + l]
        /\ stream' = stream /\ backed' = backed /\ windowed' = windowed
        /\ registers' = registers /\ decoder' = decoder
    BY <1>7 DEF NativeToken, NativeDecodes
  <2>2. /\ c \in LoopRegisters /\ c.destination = r.destination
        /\ TokenDone(c) /\ l \in Nat /\ AfterToken(c) \in LoopRegisters
        /\ Supplied(stream, windowed, AfterToken(c))
        /\ AfterToken(c).destination >= r.destination
    BY <1>1, <1>2, <1>3, <2>1, TokenStep
  <2> HIDE DEF c, l
  <2>3. native' \in [registers : LoopRegisters, produced : Nat]
        /\ native'.registers = AfterToken(c)
    BY <1>2, <2>1, <2>2
  <2>4. Reached(stream, AfterToken(c), decoded') /\ decoded' \in [Position -> Byte]
    <3>1. l \in 0 .. l
      BY <2>2
    <3> QED
      BY <2>1, <2>2, <3>1 DEF TokenDone, l
  <2>5. registers.destination <= r.destination
    BY <1>1, <2>1
  <2>6. Reached(stream, registers, decoded')
    <3>1. ASSUME NEW a \in Position, a < registers.destination PROVE decoded'[a] = decoded[a]
      <4>1. a < c.destination
        BY <1>2, <1>4, <2>2, <2>5, <3>1 DEF Position
      <4> QED
        BY <2>1, <2>2, <4>1, WrittenBehind
    <3> DEFINE new == decoded'
    <3>2. \A a \in Position : a < registers.destination => new[a] = decoded[a]
      BY <3>1
    <3> HIDE DEF new
    <3>3. Reached(stream, registers, new)
      BY <1>1, <1>2, <3>2, ReachedBefore
    <3> QED
      BY <3>3 DEF new
  <2>7. registers.destination <= AfterToken(c).destination
    BY <1>2, <1>4, <2>2, <2>5
  <2> QED
    BY <1>1, <1>2, <2>1, <2>2, <2>3, <2>4, <2>6, <2>7 DEF Yaz0IInv, Yaz0Typed
<1>8. CASE NativeRefused
  <2> DEFINE r == native.registers
             c == WithCode(r)
             k == BackedBytes(c)
  <2>1. /\ decoder = "native" /\ r.destination < OutputEnd /\ ~AtWindowEnd(r)
        /\ k < TokenLength(c) /\ decoded' = Written(c, k) /\ decoder' = "guest"
        /\ stream' = stream /\ backed' = backed /\ windowed' = windowed
        /\ registers' = registers /\ native' = native
    BY <1>8 DEF NativeRefused, NativeDecodes
  <2>2. c \in LoopRegisters /\ c.destination = r.destination /\ TokenDone(c)
        /\ TokenLength(c) \in Nat
    BY <1>1, <1>2, <1>3, <2>1, TokenStep
  <2>3. k \in 0 .. TokenLength(c)
    <3>1. c.destination \in Nat
      BY <1>4, <2>2
    <3> HIDE DEF c
    <3> QED
      BY <1>2, <2>2, <3>1 DEF BackedBytes
  <2> HIDE DEF c, k
  <2>4. decoded' \in [Position -> Byte]
    BY <2>1, <2>2, <2>3 DEF TokenDone
  <2>5. registers.destination <= r.destination
    BY <1>1, <2>1
  <2>6. Reached(stream, registers, decoded')
    <3>1. ASSUME NEW a \in Position, a < registers.destination PROVE decoded'[a] = decoded[a]
      <4>1. a < c.destination
        BY <1>2, <1>4, <2>2, <2>5, <3>1 DEF Position
      <4> QED
        BY <2>1, <2>2, <4>1, WrittenBehind
    <3> DEFINE new == decoded'
    <3>2. \A a \in Position : a < registers.destination => new[a] = decoded[a]
      BY <3>1
    <3> HIDE DEF new
    <3>3. Reached(stream, registers, new)
      BY <1>1, <1>2, <3>2, ReachedBefore
    <3> QED
      BY <3>3 DEF new
  <2>7. registers.destination < OutputEnd
    BY <1>2, <1>4, <2>1, <2>5
  <2> QED
    BY <1>1, <1>2, <2>1, <2>4, <2>6, <2>7 DEF Yaz0IInv, Yaz0Typed
<1>9. CASE LeaveNative
  <2>1. /\ decoder = "native" /\ registers' = native.registers
        /\ decoder' = IF native.registers.destination = OutputEnd THEN "done"
                      ELSE IF native.produced = 0 THEN "guest" ELSE "head"
        /\ stream' = stream /\ backed' = backed /\ windowed' = windowed
        /\ native' = native /\ decoded' = decoded
    BY <1>9 DEF LeaveNative
  <2>2. decoder' \in {"head", "guest", "done"}
        /\ (decoder' = "guest" => native.registers.destination < OutputEnd)
    BY <1>2, <1>4, <2>1
  <2> QED
    BY <1>1, <1>2, <2>1, <2>2 DEF Yaz0IInv, Yaz0Typed
<1>10. CASE GuestRefill
  <2>1. /\ decoder = "guest" /\ windowed' = windowed + Refill
        /\ stream' = stream /\ backed' = backed /\ registers' = registers
        /\ native' = native /\ decoder' = decoder /\ decoded' = decoded
    BY <1>10 DEF GuestRefill
  <2>2. windowed' \in Nat /\ windowed' >= windowed
    BY <1>2, <2>1, Yaz0Assumption
  <2>3. Supplied(stream, windowed', registers)
    <3> DEFINE w == windowed'
    <3>1. w \in Nat /\ w >= windowed
      BY <2>2
    <3> HIDE DEF w
    <3>2. registers.source \in Nat /\ registers.bits \in Nat /\ Len(stream) \in Nat
      BY <1>2, ByteTyped, ExpansionTyped DEF LoopRegisters
    <3>3. Supplied(stream, w, registers)
      BY <1>1, <1>2, <3>1, <3>2 DEF Supplied
    <3> QED
      BY <3>3 DEF w
  <2> QED
    BY <1>1, <1>2, <2>1, <2>2, <2>3 DEF Yaz0IInv, Yaz0Typed
<1>11. CASE GuestToken
  <2> DEFINE c == WithCode(registers)
             l == TokenLength(c)
  <2>1. /\ decoder = "guest" /\ ~AtWindowEnd(registers)
        /\ decoded' = Written(c, l) /\ registers' = AfterToken(c)
        /\ decoder' = IF registers'.destination = OutputEnd THEN "done" ELSE "head"
        /\ stream' = stream /\ backed' = backed /\ windowed' = windowed /\ native' = native
    BY <1>11 DEF GuestToken
  <2>2. /\ TokenDone(c) /\ l \in Nat /\ AfterToken(c) \in LoopRegisters
        /\ Supplied(stream, windowed, AfterToken(c))
    BY <1>1, <1>2, <1>3, <2>1, TokenStep
  <2> HIDE DEF c, l
  <2>3. Reached(stream, AfterToken(c), decoded') /\ decoded' \in [Position -> Byte]
    <3>1. l \in 0 .. l
      BY <2>2
    <3> QED
      BY <2>1, <2>2, <3>1 DEF TokenDone, l
  <2>4. decoder' \in {"head", "done"}
    BY <2>1
  <2> QED
    BY <1>1, <1>2, <2>1, <2>2, <2>3, <2>4 DEF Yaz0IInv, Yaz0Typed
<1> QED
  BY <1>5, <1>6, <1>7, <1>8, <1>9, <1>10, <1>11 DEF Yaz0Next

\* What the invariant is for.
LEMMA ReachedIsExact ==
    ASSUME NEW file \in Stream, NEW r \in LoopRegisters, NEW memory, Reached(file, r, memory),
           NEW a \in OutputFirst .. r.destination - 1
    PROVE  memory[a] = Expansion(file)[Turns].bytes[a + 1]
<1>1. PICK n \in 0 .. Turns :
        /\ n <= 3 * (r.destination - OutputFirst)
        /\ Matches(r, Expansion(file)[n]) /\ Agrees(memory, Expansion(file)[n])
  BY DEF Reached
<1> DEFINE e == Expansion(file)[n]
           f == Expansion(file)[Turns]
<1>2. Len(e.bytes) = r.destination /\ Agrees(memory, e) /\ Begins(e, f)
  BY <1>1, ExpansionGrows DEF Matches
<1> HIDE DEF e, f
<1>3. a \in 0 .. Len(e.bytes) - 1 /\ a + 1 \in 1 .. Len(e.bytes)
  BY <1>2, TurnsCount DEF LoopRegisters
<1>4. memory[a] = e.bytes[a + 1] /\ f.bytes[a + 1] = e.bytes[a + 1]
  BY <1>2, <1>3 DEF Agrees, Begins
<1> QED
  BY <1>4 DEF f

(* The decoder's registers and memory are always where the format's own    *)
(* expansion is at the beginning of some token: the invariant              *)
(* service_yaz0_decompression and the guest's loop keep between them.      *)
THEOREM Yaz0Invariance == Yaz0Spec => []Yaz0IInv
<1> QED
  BY Yaz0Initial, Yaz0Step, PTL DEF Yaz0Spec

(* The registers the decoder puts back are registers, and memory holds     *)
(* bytes.                                                                  *)
THEOREM Yaz0TypeCorrect == Yaz0Spec => []Yaz0TypeOK
<1>1. Yaz0IInv => Yaz0TypeOK
  <2> SUFFICES ASSUME Yaz0IInv PROVE Yaz0TypeOK
    OBVIOUS
  <2>1. /\ stream \in Stream /\ backed \in OutputBacked /\ windowed \in Nat
        /\ registers \in LoopRegisters /\ native \in [registers : LoopRegisters, produced : Nat]
        /\ decoder \in {"head", "native", "guest", "done"}
        /\ decoded \in [Position -> Byte]
    BY DEF Yaz0IInv, Yaz0Typed
  <2>2. stream \in Seq(Byte)
    BY <2>1, ExpansionTyped
  <2> QED
    BY <2>1, <2>2 DEF Yaz0TypeOK, LoopRegisters
<1> QED
  BY <1>1, Yaz0Invariance, PTL

(* The bytes the guest is told of are the ones the file expands to, for    *)
(* every file, window, budget and hole in the memory: slices, refills and  *)
(* refused turns of service_yaz0_decompression neither lose nor repeat one.*)
THEOREM Yaz0IsExact == Yaz0Spec => []Yaz0Exact
<1>1. Yaz0IInv => Yaz0Exact
  <2> SUFFICES ASSUME Yaz0IInv, NEW a \in OutputFirst .. registers.destination - 1
               PROVE  decoded[a] = Expanded[a + 1]
    BY DEF Yaz0Exact
  <2>1. stream \in Stream /\ registers \in LoopRegisters /\ Reached(stream, registers, decoded)
    BY DEF Yaz0IInv, Yaz0Typed
  <2>2. decoded[a] = Expansion(stream)[Turns].bytes[a + 1]
    BY <2>1, ReachedIsExact
  <2> QED
    BY <2>2 DEF Expanded
<1> QED
  BY <1>1, Yaz0Invariance, PTL
-----------------------------------------------------------------------------
(* The decoding ends.  The host may decline, the guest may refill, and the *)
(* two hand the loop to each other at every slice; so it has to be shown   *)
(* that they do not do so for ever at one place of the output.             *)

\* A slice has produced what its registers have advanced by.
SliceCounted ==
    decoder = "native" => native.registers.destination = registers.destination + native.produced

\* Between two tokens of the guest: the loop head, the host, the guest, the end.
Rank ==
    IF decoder = "head" THEN 3 ELSE IF decoder = "native" THEN 2
    ELSE IF decoder = "guest" THEN 1 ELSE 0

\* What the host has left to fill, or what the guest's window has to grow by.
Pending ==
    IF decoder = "native" THEN OutputEnd - native.registers.destination
    ELSE IF decoder = "guest" /\ registers.source > SourceEnd THEN registers.source - SourceEnd
    ELSE 0

GetsOn ==
    \/ registers'.destination > registers.destination
    \/ /\ registers'.destination = registers.destination
       /\ \/ Rank' < Rank
          \/ Rank' = Rank /\ Pending' \in Nat /\ Pending' < Pending

LEMMA RefillsWiden ==
    ASSUME Yaz0IInv, GuestRefill
    PROVE  registers.source \in Nat /\ SourceEnd \in Int /\ SourceEnd' \in Int
           /\ SourceEnd < SourceEnd'
<1>1. /\ windowed \in Nat /\ stream \in Stream /\ registers.source \in Nat
  BY DEF Yaz0IInv, Yaz0Typed, LoopRegisters
<1>2. Len(stream) \in Nat /\ stream' = stream /\ windowed' = windowed + Refill
  BY <1>1, ExpansionTyped DEF GuestRefill
<1>3. Refill \in Nat \ {0} /\ GroupBits \in Nat
  BY Yaz0Assumption
<1> DEFINE length == Len(stream)
<1>4. /\ SourceEnd = IF windowed >= length THEN windowed ELSE windowed - (1 + 3 * GroupBits)
      /\ SourceEnd' = IF windowed + Refill >= length THEN windowed + Refill
                      ELSE (windowed + Refill) - (1 + 3 * GroupBits)
  BY <1>2 DEF SourceEnd
<1>5. length \in Nat
  BY <1>2
<1> HIDE DEF length
<1> QED
  BY <1>1, <1>3, <1>4, <1>5

LEMMA TokensAdvance ==
    ASSUME Yaz0IInv, NEW r \in LoopRegisters, r.destination < OutputEnd,
           Reached(stream, r, decoded), Supplied(stream, windowed, r), ~AtWindowEnd(r),
           NEW c, c = WithCode(r)
    PROVE  /\ TokenLength(c) \in Nat /\ TokenLength(c) > 0
           /\ TokenLength(c) <= OutputEnd - r.destination
           /\ AfterToken(c).destination = r.destination + TokenLength(c)
<1>1. Decoding
  BY Yaz0Assumption DEF Yaz0IInv, Yaz0Typed, Decoding
<1>2. /\ c \in LoopRegisters /\ c.destination = r.destination
      /\ AfterToken(c).destination = r.destination + TokenLength(c)
  BY <1>1, TokenStep
<1>3. TokenLength(c) \in 1 .. (OutputEnd - c.destination)
  BY <1>1, <1>2, LengthTyped
<1>4. r.destination \in Nat /\ OutputEnd \in Nat
  BY TurnsCount DEF LoopRegisters
<1> DEFINE l == TokenLength(c)
           d == r.destination
<1>5. l \in 1 .. (OutputEnd - d) /\ d \in Nat /\ OutputEnd \in Nat
  BY <1>2, <1>3, <1>4
<1> HIDE DEF l, d
<1>6. l \in Nat /\ l > 0 /\ l <= OutputEnd - d
  BY <1>5
<1> QED
  BY <1>2, <1>6 DEF l, d

LEMMA DecodingGetsOn ==
    ASSUME Yaz0IInv, SliceCounted, Yaz0Next
    PROVE  SliceCounted' /\ GetsOn
<1>1. /\ registers \in LoopRegisters /\ native.registers \in LoopRegisters
      /\ native.produced \in Nat
      /\ decoder = "guest" => registers.destination < OutputEnd
      /\ decoder = "native" =>
            /\ Reached(stream, native.registers, decoded)
            /\ Supplied(stream, windowed, native.registers)
      /\ Reached(stream, registers, decoded) /\ Supplied(stream, windowed, registers)
  BY DEF Yaz0IInv, Yaz0Typed
<1>2. /\ registers.destination \in Nat /\ native.registers.destination \in Nat
      /\ OutputEnd \in Nat /\ native.registers.destination <= OutputEnd
  BY <1>1, TurnsCount DEF LoopRegisters
<1>3. CASE EnterNative
  BY <1>2, <1>3 DEF EnterNative, SliceCounted, GetsOn, Rank
<1>4. CASE NativeToken
  <2> DEFINE r == native.registers
             c == WithCode(r)
             l == TokenLength(c)
  <2>1. /\ decoder = "native" /\ r.destination < OutputEnd /\ ~AtWindowEnd(r)
        /\ native' = [registers |-> AfterToken(c), produced |-> native.produced + l]
        /\ registers' = registers /\ decoder' = decoder
    BY <1>4 DEF NativeToken, NativeDecodes
  <2>2. /\ l \in Nat /\ l > 0 /\ l <= OutputEnd - r.destination
        /\ AfterToken(c).destination = r.destination + l
    BY <1>1, <2>1, TokensAdvance
  <2>3. /\ native'.registers.destination = r.destination + l
        /\ native'.produced = native.produced + l
    BY <2>1, <2>2
  <2> DEFINE d == r.destination
  <2>4. /\ l \in Nat /\ l > 0 /\ l <= OutputEnd - d /\ d \in Nat
        /\ native'.registers.destination = d + l
        /\ d = registers.destination + native.produced
    BY <1>2, <2>1, <2>2, <2>3 DEF SliceCounted
  <2>5. Pending = OutputEnd - d /\ Pending' = OutputEnd - native'.registers.destination
    BY <2>1 DEF Pending
  <2>6. Rank' = Rank /\ registers'.destination = registers.destination
    BY <2>1 DEF Rank
  <2> HIDE DEF l, d, c, r
  <2>7. Pending' \in Nat /\ Pending' < Pending
    BY <1>2, <2>4, <2>5
  <2>8. native'.registers.destination = registers.destination + (native.produced + l)
    BY <1>1, <1>2, <2>4
  <2> QED
    BY <2>1, <2>3, <2>6, <2>7, <2>8 DEF SliceCounted, GetsOn
<1>5. CASE NativeRefused
  BY <1>2, <1>5 DEF NativeRefused, NativeDecodes, SliceCounted, GetsOn, Rank
<1>6. CASE LeaveNative
  <2>1. /\ decoder = "native" /\ registers' = native.registers
        /\ decoder' = IF native.registers.destination = OutputEnd THEN "done"
                      ELSE IF native.produced = 0 THEN "guest" ELSE "head"
        /\ native.registers.destination = registers.destination + native.produced
    BY <1>6 DEF LeaveNative, SliceCounted
  <2>2. SliceCounted' /\ Rank = 2
    BY <2>1 DEF SliceCounted, Rank
  <2>3. CASE native.produced = 0
    <3>1. Rank' < Rank
      BY <2>1, <2>2, <2>3 DEF Rank
    <3>2. registers'.destination = registers.destination
      BY <1>2, <2>1, <2>3
    <3> QED
      BY <2>2, <3>1, <3>2 DEF GetsOn
  <2>4. CASE native.produced # 0
    <3>1. registers'.destination > registers.destination
      BY <1>1, <1>2, <2>1, <2>4
    <3> QED
      BY <2>2, <3>1 DEF GetsOn
  <2> QED
    BY <2>3, <2>4
<1>7. CASE GuestRefill
  <2>1. decoder = "guest" /\ decoder' = decoder /\ registers' = registers
        /\ registers.source > SourceEnd
    BY <1>7 DEF GuestRefill, AtWindowEnd
  <2>2. registers.source \in Nat /\ SourceEnd \in Int /\ SourceEnd' \in Int
        /\ SourceEnd < SourceEnd'
    BY <1>7, RefillsWiden
  <2>3. /\ Pending = registers.source - SourceEnd
        /\ Pending' = IF registers.source > SourceEnd' THEN registers.source - SourceEnd' ELSE 0
    BY <2>1 DEF Pending
  <2>4. Pending' \in Nat /\ Pending' < Pending
    BY <2>1, <2>2, <2>3
  <2> QED
    BY <2>1, <2>4 DEF SliceCounted, GetsOn, Rank
<1>8. CASE GuestToken
  <2> DEFINE c == WithCode(registers)
             l == TokenLength(c)
  <2>1. /\ decoder = "guest" /\ ~AtWindowEnd(registers) /\ registers' = AfterToken(c)
        /\ decoder' \in {"done", "head"}
    BY <1>8 DEF GuestToken
  <2>2. l \in Nat /\ l > 0 /\ AfterToken(c).destination = registers.destination + l
    BY <1>1, <2>1, TokensAdvance
  <2> HIDE DEF l, c
  <2>3. registers'.destination > registers.destination
    BY <1>2, <2>1, <2>2
  <2> QED
    BY <2>1, <2>3 DEF SliceCounted, GetsOn
<1> QED
  BY <1>3, <1>4, <1>5, <1>6, <1>7, <1>8 DEF Yaz0Next

(* Every step of the decoder gets it on, whoever takes it: the guest's     *)
(* destination moves towards the end of the output, or at the same         *)
(* destination the loop is nearer to the guest's own code, or the host has *)
(* less to fill, or the window to grow by.  So service_yaz0_decompression, *)
(* which declines and comes back at every entry of the loop, never keeps   *)
(* the guest from the next token: a stream is decoded in finitely many     *)
(* steps.                                                                  *)
THEOREM DecodingEnds == Yaz0Spec => [][GetsOn]_yaz0Vars
<1>1. Yaz0Init => SliceCounted
  BY DEF Yaz0Init, Yaz0From, SliceCounted
<1>2. ASSUME Yaz0IInv, SliceCounted, [Yaz0Next]_yaz0Vars
      PROVE  SliceCounted' /\ [GetsOn]_yaz0Vars
  <2>1. CASE Yaz0Next
    BY <1>2, <2>1, DecodingGetsOn
  <2>2. CASE UNCHANGED yaz0Vars
    BY <1>2, <2>2 DEF yaz0Vars, SliceCounted
  <2> QED
    BY <1>2, <2>1, <2>2
<1> QED
  BY <1>1, <1>2, Yaz0Invariance, PTL DEF Yaz0Spec
=============================================================================
