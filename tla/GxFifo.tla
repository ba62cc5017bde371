------------------------------- MODULE GxFifo -------------------------------
(***************************************************************************)
(* The command stream of gx_renderer.c.  The guest writes 1, 2, 4 or 8     *)
(* bytes at a time to the FIFO register; the host keeps the bytes of a     *)
(* command until it is complete, then executes it.  How many bytes a draw  *)
(* has depends on registers that earlier commands set.  Display lists are  *)
(* streams in guest memory, called from a stream.                          *)
(*                                                                         *)
(* A byte is a small number; a command is an opcode, one byte of operand   *)
(* and, for a draw, the vertices.  The pixels are left out: a draw is      *)
(* known by the bytes it was given.                                        *)
(***************************************************************************)
EXTENDS Naturals, Sequences, SequencesExt

CONSTANTS
    Capacity,     \* GX_FIFO_CAPACITY
    ListDepth,     \* GX_DL_MAX_DEPTH
    WriteSizes,   \* sizes of a write to the register
    ListAt,       \* display lists in guest memory: address to bytes
    MaxStream     \* bound: bytes the guest writes

Nop == 0
Cp == 1
Bp == 2
Draw == 3
Call == 4
FifoByte == 0 .. 4

ASSUME FifoAssumption ==
    /\ Capacity \in Nat /\ ListDepth \in Nat \ {0} /\ MaxStream \in Nat
    /\ WriteSizes \subseteq 1 .. Capacity - 1
    /\ \A address \in DOMAIN ListAt : ListAt[address] \in Seq(FifoByte)

\* Operands of a BP write: the mask register, and the draw-done register
\* with the value that asks for the interrupt.
BpMask == 0
DrawDoneToken == 2

VARIABLES
    fifo,        \* g_fifo, its first g_fifo_size bytes
    regs,        \* the registers and what has been executed
    pending,     \* the finish bit of g_pe_interrupt_control
    \* history:
    fifoStream,      \* the bytes written
    acked,       \* draw-dones executed when the guest last acknowledged
    dropped      \* the FIFO has overflowed

fifoVars == <<fifo, regs, pending, fifoStream, acked, dropped>>

Registers ==
    [stride : FifoByte, masked : BOOLEAN, token : FifoByte, finish : BOOLEAN,
     drawn : Seq(Seq(FifoByte)), unknown : Nat, dones : Nat]

Reset == [stride |-> 1, masked |-> FALSE, token |-> 0, finish |-> FALSE,
          drawn |-> <<>>, unknown |-> 0, dones |-> 0]

FifoInit ==
    /\ fifo = <<>> /\ regs = Reset /\ pending = FALSE
    /\ fifoStream = <<>> /\ acked = 0 /\ dropped = FALSE
-----------------------------------------------------------------------------
Decoded(size, r) == [size |-> size, regs |-> r]

(* Mutant: a masked write asks for nothing. *)
LoadBpUnmasked(r, value) ==
    IF value = BpMask THEN [r EXCEPT !.masked = TRUE]
    ELSE LET token == IF r.masked THEN r.token ELSE value
         IN  [r EXCEPT !.masked = FALSE, !.token = token,
                       !.finish = @ \/ (token = DrawDoneToken /\ ~r.masked),
                       !.dones = IF token = DrawDoneToken THEN @ + 1 ELSE @]

(* load_bp: a mask that lets nothing through holds for the next write.  A  *)
(* write that leaves draw-done in the register asks for the interrupt.     *)
LoadBp(r, value) ==
    IF value = BpMask THEN [r EXCEPT !.masked = TRUE]
    ELSE LET token == IF r.masked THEN r.token ELSE value
         IN  [r EXCEPT !.masked = FALSE, !.token = token,
                       !.finish = @ \/ token = DrawDoneToken,
                       !.dones = IF token = DrawDoneToken THEN @ + 1 ELSE @]

NopRun(bytes) ==
    CHOOSE n \in 1 .. Len(bytes) :
        /\ \A i \in 1 .. n : bytes[i] = Nop
        /\ n = Len(bytes) \/ bytes[n + 1] # Nop

(* The size of a draw: opcode, count, vertices. *)
DrawSize(r, count) == 2 + r.stride * count

(* Mutant: the vertices of a draw are not waited for. *)
DecodeEarly(bytes, r, lists) ==
    LET opcode == Head(bytes)
        operand == bytes[2]
        size == DrawSize(r, operand)
    IN  IF opcode = Nop THEN Decoded(NopRun(bytes), r)
        ELSE IF Len(bytes) < 2 THEN Decoded(0, r)
        ELSE CASE opcode = Cp -> Decoded(2, [r EXCEPT !.stride = operand])
          [] opcode = Bp -> Decoded(2, LoadBp(r, operand))
          [] opcode = Call -> Decoded(2, lists[<<operand, r>>])
          [] opcode = Draw /\ size <= Capacity ->
                LET there == IF size < Len(bytes) THEN size ELSE Len(bytes)
                IN  Decoded(there, [r EXCEPT !.drawn =
                                      Append(@, SubSeq(bytes, 3, there))])
          [] OTHER -> Decoded(1, [r EXCEPT !.unknown = @ + 1])

(* decode_one: the size of the first command, 0 if it is not complete.     *)
(* What a display list does to the registers is a function given to it.    *)
DecodeOne(bytes, r, lists) ==
    LET opcode == Head(bytes)
        operand == bytes[2]
        size == DrawSize(r, operand)
    IN  IF opcode = Nop THEN Decoded(NopRun(bytes), r)
        ELSE IF Len(bytes) < 2 THEN Decoded(0, r)
        ELSE CASE opcode = Cp -> Decoded(2, [r EXCEPT !.stride = operand])
          [] opcode = Bp -> Decoded(2, LoadBp(r, operand))
          [] opcode = Call -> Decoded(2, lists[<<operand, r>>])
          [] opcode = Draw /\ size <= Capacity ->
                IF Len(bytes) < size THEN Decoded(0, r)
                ELSE Decoded(size, [r EXCEPT !.drawn =
                                      Append(@, SubSeq(bytes, 3, size))])
          [] OTHER -> Decoded(1, [r EXCEPT !.unknown = @ + 1])

(* One turn of the loops below, which changes nothing at their end. *)
NextCommand(at, lists) ==
    LET first == DecodeOne(at.rest, at.regs, lists)
    IN  IF at.rest = <<>> \/ first.size = 0 THEN at
        ELSE [rest |-> SubSeq(at.rest, first.size + 1, Len(at.rest)),
              regs |-> first.regs]

(* process_command_stream and process_fifo: commands are executed until    *)
(* the bytes end or do not complete one.  A command has at least one byte. *)
ProcessStream(bytes, r, lists) ==
    FoldLeft(LAMBDA at, byte : NextCommand(at, lists),
             [rest |-> bytes, regs |-> r], bytes)

(* execute_display_list, where left lists may still be nested: a list too  *)
(* deep, empty or unreadable is skipped.                                   *)
ExecuteList[left \in 0 .. ListDepth] ==
    [call \in FifoByte \X Registers |->
        IF left = 0 \/ call[1] \notin DOMAIN ListAt THEN call[2]
        ELSE ProcessStream(ListAt[call[1]], call[2], ExecuteList[left - 1]).regs]

Lists == ExecuteList[ListDepth]

(* Mutant: one command is executed for each write. *)
ProcessOne(bytes, r) == NextCommand([rest |-> bytes, regs |-> r], Lists)

ProcessFifo(bytes, r) == ProcessStream(bytes, r, Lists)

(* smg3ds_gx_fifo_write empties a FIFO in which the bytes do not fit;      *)
(* external_write then takes the request for the finish interrupt.         *)
WriteFifo(chunk) ==
    /\ Len(fifoStream) + Len(chunk) <= MaxStream
    /\ LET overflow == Len(fifo) + Len(chunk) > Capacity
           start == IF overflow THEN [regs EXCEPT !.unknown = @ + 1] ELSE regs
           done == ProcessFifo((IF overflow THEN <<>> ELSE fifo) \o chunk, start)
       IN  /\ fifo' = done.rest
           /\ regs' = [done.regs EXCEPT !.finish = FALSE]
           /\ pending' = (pending \/ done.regs.finish)
           /\ dropped' = (dropped \/ overflow)
    /\ fifoStream' = fifoStream \o chunk
    /\ UNCHANGED acked

(* The guest clears the finish bit in the pixel engine's register. *)
AcknowledgeFinish ==
    /\ pending
    /\ pending' = FALSE
    /\ acked' = regs.dones
    /\ UNCHANGED <<fifo, regs, fifoStream, dropped>>

FifoNext ==
    \/ \E n \in WriteSizes : \E chunk \in [1 .. n -> FifoByte] : WriteFifo(chunk)
    \/ AcknowledgeFinish

FifoSpec == FifoInit /\ [][FifoNext]_fifoVars
-----------------------------------------------------------------------------
(* The variables stay in their types, the FIFO in its buffer, and what is  *)
(* left in it between writes is less than one command.                     *)
FifoTypeOK ==
    /\ fifo \in BoundedSeq(FifoByte, Capacity)
    /\ regs.stride \in FifoByte /\ regs.token \in FifoByte /\ ~regs.finish
    /\ pending \in BOOLEAN /\ dropped \in BOOLEAN
    /\ fifo # <<>> => DecodeOne(fifo, regs, Lists).size = 0

(* However the guest splits its stream into writes, what has been executed *)
(* is what the whole stream says, and what waits is its unfinished end     *)
(* (process_fifo).                                                         *)
StreamDecoded ==
    ~dropped =>
        LET whole == ProcessStream(fifoStream, Reset, Lists)
        IN  /\ [whole.regs EXCEPT !.finish = FALSE] = regs
            /\ whole.rest = fifo

(* The finish interrupt stands exactly when a draw-done was executed that  *)
(* the guest has not acknowledged, in a display list or not.               *)
FinishSignalled == pending <=> regs.dones > acked

(* The FIFO is only emptied with a command in it that leaves no room for a *)
(* write beside it: smaller ones are never dropped.                        *)
Largest == CHOOSE n \in WriteSizes : \A m \in WriteSizes : m <= n

DropsOnlyHuge ==
    [][~dropped /\ dropped' =>
         /\ Len(fifo) >= 2 /\ fifo[1] = Draw
         /\ DrawSize(regs, fifo[2]) > Capacity - Largest]_fifoVars
=============================================================================
