----------------------------- MODULE GuestClock -----------------------------
(***************************************************************************)
(* The guest's clocks, as main.c keeps them: the timebase, advanced by the *)
(* cycles a batch of blocks used and, at the end of a frame, up to the     *)
(* frame's target; the decrementer, an interrupt that is due when the      *)
(* register falls below zero; and the audio interface's sample counter,    *)
(* which is not stepped but computed from the timebase when it is read.    *)
(*                                                                         *)
(* Registers keep their width: the decrementer counts modulo DecModulus    *)
(* and the samples modulo SampleModulus (both 2^32 in the code).           *)
(***************************************************************************)
EXTENDS Integers

CONSTANTS
    CyclesPerTick,     \* SMG3DS_BROADWAY_CYCLES_PER_TIMEBASE_TICK
    DecModulus,        \* the decrementer's width
    SampleModulus,     \* the sample counter's width
    TicksPerSecond,    \* SMG3DS_TIMEBASE_FREQUENCY
    SlowRate, FastRate,  \* 32000 and 48000 samples a second
    MaxSlice,          \* bound: ticks one batch of blocks or one frame may take
    MaxTime,           \* bound: ticks in a behaviour
    MaxRebase          \* bound: writes of the AI control register

ASSUME ClockAssumption ==
    /\ CyclesPerTick \in Nat \ {0}
    /\ DecModulus \in Nat \ {0}
    /\ SampleModulus \in Nat \ {0}
    /\ TicksPerSecond \in Nat \ {0}
    /\ SlowRate \in Nat /\ FastRate \in Nat
    /\ MaxSlice \in Nat /\ 2 * MaxSlice < DecModulus
    /\ MaxTime \in Nat /\ MaxRebase \in Nat

VARIABLES
    timebase, remainder,       \* cpu->timebase, g_timebase_cycle_remainder
    dec, decArmed, decPending, \* spr[22] and the decrementer's flags
    aiRunning, aiFast,         \* bits 0 and 1 of g_ai_control
    aiCount, aiSince,          \* g_ai_sample_count, g_ai_sample_timebase
    clockHistory               \* history, see below

\* What really happened: cycles used and ticks skipped since the start;
\* the decrementer's last value written, the ticks since then and the
\* interrupts taken since then; the samples due since the counter was last
\* set, times TicksPerSecond, the value set, and the rebasings since then.
History == [cycles : Nat, skipped : Nat,
            written : 0..(DecModulus - 1), elapsed : Nat, taken : Nat,
            due : Nat, set : 0..(SampleModulus - 1), rebased : Nat]

clockVars == <<timebase, remainder, dec, decArmed, decPending,
               aiRunning, aiFast, aiCount, aiSince, clockHistory>>

ClockInit ==
    /\ timebase = 0 /\ remainder = 0
    /\ dec = 0 /\ decArmed = FALSE /\ decPending = FALSE
    /\ aiRunning = FALSE /\ aiFast = FALSE /\ aiCount = 0 /\ aiSince = 0
    /\ clockHistory = [cycles |-> 0, skipped |-> 0,
                       written |-> 0, elapsed |-> 0, taken |-> 0,
                       due |-> 0, set |-> 0, rebased |-> 0]
-----------------------------------------------------------------------------
Rate == IF aiFast THEN FastRate ELSE SlowRate

(* Mutant: the subtraction is not one of 32 bits. *)
MinusUnwrapped(value, ticks) == value - ticks

\* 32-bit subtraction of less than a whole turn.
Minus(value, ticks) ==
    IF ticks > value THEN value - ticks + DecModulus ELSE value - ticks

\* Below zero the register's top bit is set: no further interrupt is due.
Positive(value) == 2 * value < DecModulus

(* Mutant: the interrupt is due when the register reaches zero. *)
AdvanceEarly(ticks) ==
    /\ timebase' = timebase + ticks
    /\ IF decArmed /\ ticks # 0
       THEN /\ dec' = Minus(dec, ticks)
            /\ decPending' = (decPending \/ (Positive(dec) /\ ticks >= dec))
       ELSE UNCHANGED <<dec, decPending>>

(* advance_timebase *)
AdvanceTimebase(ticks) ==
    /\ timebase' = timebase + ticks
    /\ IF decArmed /\ ticks # 0
       THEN /\ dec' = Minus(dec, ticks)
            /\ decPending' = (decPending \/ (Positive(dec) /\ ticks > dec))
       ELSE UNCHANGED <<dec, decPending>>

\* History of a stretch of ticks.
Passed(ticks, cycles, skipped) ==
    clockHistory' = [clockHistory EXCEPT
        !.cycles = @ + cycles,
        !.skipped = @ + skipped,
        !.elapsed = IF decArmed THEN @ + ticks ELSE @,
        !.due = IF aiRunning THEN @ + ticks * Rate ELSE @]

\* A batch of blocks used that many cycles.
RunBlocks(cycles) ==
    LET total == cycles + remainder
        ticks == total \div CyclesPerTick
    IN  /\ timebase + ticks <= MaxTime
        /\ ticks <= MaxSlice
        /\ AdvanceTimebase(ticks)
        /\ remainder' = total % CyclesPerTick
        /\ Passed(ticks, cycles, 0)
        /\ UNCHANGED <<decArmed, aiRunning, aiFast, aiCount, aiSince>>

\* The end of a frame that used less than its share.
EndFrame(ticks) ==
    /\ timebase + ticks <= MaxTime
    /\ AdvanceTimebase(ticks)
    /\ Passed(ticks, 0, ticks)
    /\ UNCHANGED <<remainder, decArmed, aiRunning, aiFast, aiCount, aiSince>>

\* mtspr DEC
WriteDecrementer(value) ==
    /\ dec' = value
    /\ decArmed' = TRUE
    /\ decPending' = FALSE
    /\ clockHistory' = [clockHistory EXCEPT
           !.written = value, !.elapsed = 0, !.taken = 0]
    /\ UNCHANGED <<timebase, remainder, aiRunning, aiFast, aiCount, aiSince>>

\* service_decrementer_interrupt; MSR[EE] is for the composition to ask.
TakeDecrementer ==
    /\ decPending
    /\ decPending' = FALSE
    /\ clockHistory' = [clockHistory EXCEPT !.taken = @ + 1]
    /\ UNCHANGED <<timebase, remainder, dec, decArmed,
                   aiRunning, aiFast, aiCount, aiSince>>
-----------------------------------------------------------------------------
(* ai_current_sample_count *)
CurrentCount ==
    IF aiRunning
    THEN (aiCount + ((timebase - aiSince) * Rate) \div TicksPerSecond)
             % SampleModulus
    ELSE aiCount

\* ai_write_control: the count is taken at the old rate, and the time from
\* now on is counted at the new one.
WriteAiControl(running, fast, reset) ==
    /\ clockHistory.rebased < MaxRebase
    /\ aiCount' = IF reset THEN 0 ELSE CurrentCount
    /\ aiSince' = timebase
    /\ aiRunning' = running /\ aiFast' = fast
    /\ clockHistory' = [clockHistory EXCEPT
           !.due = IF reset THEN 0 ELSE @,
           !.set = IF reset THEN 0 ELSE @,
           !.rebased = IF reset THEN 0 ELSE @ + 1]
    /\ UNCHANGED <<timebase, remainder, dec, decArmed, decPending>>

\* A write of the sample counter.
WriteAiCount(value) ==
    /\ aiCount' = value
    /\ aiSince' = timebase
    /\ clockHistory' = [clockHistory EXCEPT
           !.due = 0, !.set = value, !.rebased = 0]
    /\ UNCHANGED <<timebase, remainder, dec, decArmed, decPending,
                   aiRunning, aiFast>>

TimePasses ==
    \/ \E cycles \in 1..(MaxSlice * CyclesPerTick) : RunBlocks(cycles)
    \/ \E ticks \in 1..MaxSlice : EndFrame(ticks)

\* What the guest does with the decrementer, and with the sample counter.
DecrementerUse ==
    \/ \E value \in 0..(DecModulus - 1) : WriteDecrementer(value)
    \/ TakeDecrementer

SampleUse ==
    \/ \E running, fast, reset \in BOOLEAN : WriteAiControl(running, fast, reset)
    \/ \E value \in {0, SampleModulus - 1} : WriteAiCount(value)

ClockNext == TimePasses \/ DecrementerUse \/ SampleUse

ClockSpec == ClockInit /\ [][ClockNext]_clockVars
-----------------------------------------------------------------------------
ClockTypeOK ==
    /\ timebase \in Nat
    /\ remainder \in 0..(CyclesPerTick - 1)
    /\ dec \in 0..(DecModulus - 1)
    /\ decArmed \in BOOLEAN /\ decPending \in BOOLEAN
    /\ aiRunning \in BOOLEAN /\ aiFast \in BOOLEAN
    /\ aiCount \in 0..(SampleModulus - 1)
    /\ aiSince \in 0..timebase
    /\ clockHistory \in History

(* However the guest's cycles are cut into batches, no cycle is lost or    *)
(* counted twice: the timebase and the cycles of the begun tick are the    *)
(* cycles run and the ticks skipped at the ends of frames.                 *)
CyclesConserved ==
    timebase * CyclesPerTick + remainder
        = clockHistory.cycles + clockHistory.skipped * CyclesPerTick

\* How often the register has fallen below zero since it was written.
Crossings ==
    (clockHistory.elapsed + DecModulus - 1 - clockHistory.written)
        \div DecModulus

(* The decrementer holds what was written less the time since then, and    *)
(* interrupts the guest once it has fallen below zero, not before and not  *)
(* twice, however long the slices are in which it is advanced.             *)
DecrementerExact ==
    decArmed =>
        /\ dec = (clockHistory.written - clockHistory.elapsed) % DecModulus
        /\ (Crossings > 0) <=> (decPending \/ clockHistory.taken > 0)
        /\ clockHistory.taken + (IF decPending THEN 1 ELSE 0) <= Crossings

(* The sample counter is never ahead of the samples due, and behind by at  *)
(* most one sample for every write of the control register, whatever the   *)
(* rates it has run at and however often it was stopped.                   *)
SamplesWithinRounding ==
    \E behind \in 0..clockHistory.rebased :
        CurrentCount = (clockHistory.set - behind
                        + clockHistory.due \div TicksPerSecond) % SampleModulus

ClockExact == CyclesConserved /\ DecrementerExact /\ SamplesWithinRounding
=============================================================================
