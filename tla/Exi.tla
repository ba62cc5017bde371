-------------------------------- MODULE Exi --------------------------------
(***************************************************************************)
(* The external interface of exi_hle.c: channels with a status, a DMA and  *)
(* an immediate register, and on the first channel the IPL chip with its   *)
(* ROM, its SRAM, whose first cell is the clock, and its flags.            *)
(*                                                                         *)
(* A transfer runs to its end inside the write that starts it.  The chip   *)
(* knows nothing of transfers: it sees bytes, of which the first           *)
(* CommandLength after it was selected are its command.  ROM, SRAM and     *)
(* flags are all it answers for; the serial ports read as zero.            *)
(*                                                                         *)
(* The control register matters only while it starts a transfer, so of it  *)
(* only TSTART is kept.  Bits of the status that nothing reads are left    *)
(* out.                                                                    *)
(***************************************************************************)
EXTENDS Naturals, Sequences, SequencesExt, FiniteSets

CONSTANTS
    Channel,        \* 0, 1 and 2 in the code
    ExiByte,        \* values of a byte, 0 among them
    Ones,           \* 0xff
    CommandLength,  \* four bytes
    Writes(_),      \* does the command write?
    Target(_),      \* "rom", "sram", "flags" or "none" by the command's address
    Offset(_),      \* where in the target it begins
    SramSize,       \* the chip's SRAM and its clock
    RomSize, RomByte(_), \* and its ROM
    RamSize,        \* the guest's memory
    ImmediateSize,  \* four bytes
    GuestSelect,    \* bound: chip selects the guest writes
    GuestMask,      \* bound: masks and acknowledgements, by channel
    MaxShifted      \* bound: bytes between two selections

ASSUME ExiAssumption ==
    /\ 0 \in Channel /\ Channel \subseteq Nat
    /\ \A c \in Channel : GuestMask[c] \subseteq BOOLEAN
    /\ 0 \in ExiByte /\ Ones \in ExiByte
    /\ CommandLength \in Nat \ {0} /\ SramSize \in Nat \ {0}
    /\ RomSize \in Nat \ {0} /\ \A place \in 0..(RomSize - 1) : RomByte(place) \in ExiByte
    /\ \A command \in [1..CommandLength -> ExiByte] : Offset(command) \in Nat
    /\ RamSize \in Nat \ {0} /\ ImmediateSize \in Nat \ {0}

VARIABLES
    select,         \* the chip select bits of each channel
    tcInt, tcMask,  \* transfer complete and its mask
    extInt, extMask,  \* external insertion and its mask
    start,          \* TSTART
    dmaAddress, dmaLength,
    immediate,      \* the bytes of each immediate register
    ipl,            \* g_exi.ipl
    ram,            \* the guest's memory
    iplHistory      \* history, see below

exiStatus == <<select, tcInt, tcMask, extInt, extMask>>
exiVars == <<exiStatus, start, dmaAddress, dmaLength, immediate, ipl, ram,
             iplHistory>>

\* The bytes the guest has sent since it selected the chip, the bytes it has
\* been given for them, and SRAM and flags as the command found them.
NewTransaction(chip) ==
    [sent |-> <<>>, given |-> <<>>, sram |-> chip.sram, flags |-> chip.flags]

ExiInit ==
    /\ select = [c \in Channel |-> {}]
    /\ tcInt = [c \in Channel |-> FALSE] /\ tcMask = [c \in Channel |-> FALSE]
    /\ extInt = [c \in Channel |-> c < 2] /\ extMask = [c \in Channel |-> FALSE]
    /\ start = [c \in Channel |-> FALSE]
    /\ dmaAddress = [c \in Channel |-> 0] /\ dmaLength = [c \in Channel |-> 0]
    /\ immediate = [c \in Channel |-> [i \in 1..ImmediateSize |-> 0]]
    /\ ipl = [command |-> <<>>, cursor |-> 0,
              sram |-> [i \in 0..(SramSize - 1) |-> 0], flags |-> 0]
    /\ ram = [a \in 0..(RamSize - 1) |-> 0]
    /\ iplHistory = NewTransaction(ipl)
-----------------------------------------------------------------------------
(* The chip. *)

SelectedIpl(c, bits) == c = 0 /\ bits = {2}
ValidSelect(bits) == Cardinality(bits) = 1

\* reset_ipl_transaction
Reselected(chip) == [chip EXCEPT !.command = <<>>, !.cursor = 0]

\* A byte of the command; the last one also sets the clock.
CommandByte(chip, input, now) ==
    LET command == Append(chip.command, input)
    IN  [chip EXCEPT !.command = command,
                     !.sram[0] = IF Len(command) = CommandLength THEN now ELSE @]

Place(chip) == (Offset(chip.command) + chip.cursor) % SramSize

\* A byte of the data: the chip after it, and the byte it answers.
DataByte(chip, input) ==
    LET target == Target(chip.command)
        write == Writes(chip.command)
        moved == IF target \in {"rom", "sram"}
                 THEN [chip EXCEPT !.cursor = @ + 1] ELSE chip
    IN  CASE write /\ target = "sram" ->
                [chip |-> [moved EXCEPT !.sram[Place(chip)] = input], output |-> 0]
          [] write /\ target = "flags" ->
                [chip |-> [moved EXCEPT !.flags = input], output |-> 0]
          [] ~write /\ target = "sram" ->
                [chip |-> moved, output |-> chip.sram[Place(chip)]]
          [] ~write /\ target = "flags" ->
                [chip |-> moved, output |-> chip.flags]
          [] ~write /\ target = "rom" ->
                [chip |-> moved,
                 output |-> RomByte((Offset(chip.command) + chip.cursor) % RomSize)]
          [] OTHER -> [chip |-> moved, output |-> 0]

\* ipl_transfer_byte
TransferByte(chip, input, now) ==
    IF Len(chip.command) < CommandLength
    THEN [chip |-> CommandByte(chip, input, now), output |-> Ones]
    ELSE DataByte(chip, input)

\* The bytes of one transfer, one after the other.
Shift(chip, inputs, now) ==
    FoldLeft(LAMBDA done, input :
                 LET one == TransferByte(done.chip, input, now)
                 IN  [chip |-> one.chip,
                      outputs |-> Append(done.outputs, one.output)],
             [chip |-> chip, outputs |-> <<>>], inputs)

\* A device other than the chip answers zero.
Exchange(c, inputs, now) ==
    IF SelectedIpl(c, select[c]) THEN Shift(ipl, inputs, now)
    ELSE [chip |-> ipl, outputs |-> [i \in DOMAIN inputs |-> 0]]

\* What the transfer adds to the history: a command that becomes complete
\* finds the memories as they are after the clock was set.
Recorded(c, inputs, given, now) ==
    IF ~SelectedIpl(c, select[c]) THEN iplHistory
    ELSE LET sent == iplHistory.sent \o inputs
             completes == /\ Len(iplHistory.sent) < CommandLength
                          /\ Len(sent) >= CommandLength
         IN  [sent |-> sent, given |-> iplHistory.given \o given,
              sram |-> IF completes
                       THEN [ipl.sram EXCEPT ![0] = now] ELSE iplHistory.sram,
              flags |-> IF completes THEN ipl.flags ELSE iplHistory.flags]

WithinBound(c, length) ==
    SelectedIpl(c, select[c]) =>
        Len(iplHistory.sent) + length <= MaxShifted
-----------------------------------------------------------------------------
(* complete_transfer *)

\* No device, or several: TSTART stays and nothing is signalled.
Stall(c) ==
    /\ ~ValidSelect(select[c])
    /\ start' = [start EXCEPT ![c] = TRUE]
    /\ UNCHANGED <<exiStatus, immediate, ipl, ram, iplHistory>>

Complete(c) ==
    /\ start' = [start EXCEPT ![c] = FALSE]
    /\ tcInt' = [tcInt EXCEPT ![c] = TRUE]
    /\ UNCHANGED <<select, tcMask, extInt, extMask>>

\* Bytes shifted through the immediate register, from its first byte on.
\* Reading clears the bytes that were not shifted.
Immediate(c, rw, length, now) ==
    LET inputs == [i \in 1..length |-> IF rw = "read" THEN 0 ELSE immediate[c][i]]
        done == Exchange(c, inputs, now)
    IN  /\ ValidSelect(select[c])
        /\ WithinBound(c, length)
        /\ immediate' = [immediate EXCEPT ![c] =
               IF rw = "write" THEN @
               ELSE [i \in 1..ImmediateSize |->
                        IF i <= length THEN done.outputs[i] ELSE 0]]
        /\ ipl' = done.chip
        /\ iplHistory' = Recorded(c, inputs,
               IF rw = "write" THEN done.outputs
               ELSE [i \in 1..length |-> immediate'[c][i]], now)
        /\ Complete(c)
        /\ UNCHANGED ram

\* The fourth code of the direction field transfers nothing.
ImmediateInvalid(c) ==
    /\ ValidSelect(select[c])
    /\ Complete(c)
    /\ UNCHANGED <<immediate, ipl, ram, iplHistory>>

DmaRange(c) == /\ dmaAddress[c] < RamSize
                 /\ dmaAddress[c] + dmaLength[c] <= RamSize

DmaBytes(c) == [i \in 1..dmaLength[c] |-> ram[dmaAddress[c] + i - 1]]

Dma(c, rw, now) ==
    LET inputs == IF rw = "read" THEN [i \in 1..dmaLength[c] |-> 0] ELSE DmaBytes(c)
        done == Exchange(c, inputs, now)
    IN  /\ ValidSelect(select[c])
        /\ DmaRange(c)
        /\ WithinBound(c, dmaLength[c])
        /\ ram' = IF rw = "write" THEN ram
                  ELSE [a \in DOMAIN ram |->
                           IF a - dmaAddress[c] + 1 \in DOMAIN inputs
                           THEN done.outputs[a - dmaAddress[c] + 1] ELSE ram[a]]
        /\ ipl' = done.chip
        /\ iplHistory' = Recorded(c, inputs,
               IF rw = "write" THEN done.outputs
               ELSE [i \in DOMAIN inputs |-> ram'[dmaAddress[c] + i - 1]], now)
        /\ Complete(c)
        /\ UNCHANGED immediate

\* A range outside the guest's memory: nothing moves, but it completes.
DmaRefused(c) ==
    /\ ValidSelect(select[c])
    /\ ~DmaRange(c)
    /\ Complete(c)
    /\ UNCHANGED <<immediate, ipl, ram, iplHistory>>

\* A write of the control register with TSTART.  Only the last byte of a
\* command reads the clock.
StartTransfer(c) ==
    /\ \/ Stall(c)
       \/ \E rw \in {"read", "write", "readwrite"}, length \in 1..ImmediateSize,
             now \in ExiByte : Immediate(c, rw, length, now)
       \/ ImmediateInvalid(c)
       \/ \E rw \in {"read", "write"}, now \in ExiByte : Dma(c, rw, now)
       \/ DmaRefused(c)
    /\ UNCHANGED <<dmaAddress, dmaLength>>
-----------------------------------------------------------------------------
(* The other registers. *)

\* The select bits lie in two bytes of the status: bit 1 with the bits of
\* the transfer, bits 2 and 4 with those of the insertion.
LowBits == {1}
HighBits == {2, 4}

(* Mutant: selecting the chip does not begin a new transaction. *)
KeepTransaction(c, bits) ==
    /\ iplHistory' = IF bits # select[c] /\ SelectedIpl(c, bits)
                     THEN NewTransaction(ipl) ELSE iplHistory
    /\ UNCHANGED ipl

\* write_status: a selection of the chip begins a transaction.
Reselect(c, bits) ==
    IF bits # select[c] /\ SelectedIpl(c, bits)
    THEN ipl' = Reselected(ipl) /\ iplHistory' = NewTransaction(ipl)
    ELSE UNCHANGED <<ipl, iplHistory>>

\* write_status, for a write that covers the low byte, the high byte or both.
WriteStatus(c, lanes, bits, tcm, tcAck, extm, extAck) ==
    LET low == IF "low" \in lanes THEN bits \cap LowBits ELSE select[c] \cap LowBits
        high == IF "high" \in lanes THEN bits \cap HighBits
                                    ELSE select[c] \cap HighBits
    IN  /\ select' = [select EXCEPT ![c] = low \cup high]
        /\ Reselect(c, low \cup high)
        /\ tcMask' = [tcMask EXCEPT ![c] = IF "low" \in lanes THEN tcm ELSE @]
        /\ tcInt' = [tcInt EXCEPT ![c] = @ /\ ~("low" \in lanes /\ tcAck)]
        /\ extMask' = [extMask EXCEPT ![c] =
               IF "high" \in lanes /\ c < 2 THEN extm ELSE @]
        /\ extInt' = [extInt EXCEPT ![c] =
               @ /\ ~("high" \in lanes /\ c < 2 /\ extAck)]
        /\ UNCHANGED <<start, dmaAddress, dmaLength, immediate, ram>>

WriteDmaAddress(c, address) ==
    /\ dmaAddress' = [dmaAddress EXCEPT ![c] = address]
    /\ UNCHANGED <<exiStatus, start, dmaLength, immediate, ipl, ram, iplHistory>>

WriteDmaLength(c, length) ==
    /\ dmaLength' = [dmaLength EXCEPT ![c] = length]
    /\ UNCHANGED <<exiStatus, start, dmaAddress, immediate, ipl, ram, iplHistory>>

WriteImmediate(c, bytes) ==
    /\ immediate' = [immediate EXCEPT ![c] = bytes]
    /\ UNCHANGED <<exiStatus, start, dmaAddress, dmaLength, ipl, ram, iplHistory>>

\* smg3ds_exi_interrupt_pending
ExiPending ==
    \E c \in Channel : (tcInt[c] /\ tcMask[c]) \/ (extInt[c] /\ extMask[c])

\* The guest's handler clears what its channels signal.
AcknowledgeExi(c) ==
    /\ (tcInt[c] /\ tcMask[c]) \/ (extInt[c] /\ extMask[c])
    /\ WriteStatus(c, {"low", "high"}, select[c], tcMask[c], TRUE,
                   extMask[c], TRUE)
\* What the guest's drivers write: chip selects, one device or none at a
\* time or wrongly several, and masks and acknowledgements together.
ExiWrites(c) ==
    \/ StartTransfer(c)
    \/ \E lanes \in {{"low"}, {"high"}, {"low", "high"}}, bits \in GuestSelect,
          mask, ack \in GuestMask[c] : WriteStatus(c, lanes, bits, mask, ack, mask, ack)
    \/ \E address \in 0..(RamSize - 1) : WriteDmaAddress(c, address)
    \/ \E length \in {0, RamSize} : WriteDmaLength(c, length)
    \/ \E bytes \in [1..ImmediateSize -> ExiByte] : WriteImmediate(c, bytes)

ExiNext == \E c \in Channel : ExiWrites(c) \/ AcknowledgeExi(c)

ExiSpec == ExiInit /\ [][ExiNext]_exiVars
-----------------------------------------------------------------------------
ExiTypeOK ==
    /\ select \in [Channel -> SUBSET {1, 2, 4}]
    /\ tcInt \in [Channel -> BOOLEAN] /\ tcMask \in [Channel -> BOOLEAN]
    /\ extInt \in [Channel -> BOOLEAN] /\ extMask \in [Channel -> BOOLEAN]
    /\ start \in [Channel -> BOOLEAN]
    /\ dmaAddress \in [Channel -> Nat] /\ dmaLength \in [Channel -> Nat]
    /\ immediate \in [Channel -> [1..ImmediateSize -> ExiByte]]
    /\ ipl.command \in Seq(ExiByte) /\ Len(ipl.command) <= CommandLength
    /\ ipl.cursor \in Nat
    /\ ipl.sram \in [0..(SramSize - 1) -> ExiByte] /\ ipl.flags \in ExiByte
    /\ ram \in [0..(RamSize - 1) -> ExiByte]

\* What a transaction means, by the bytes sent since the chip was selected:
\* its command, the data sent, the cells a write changes to the last byte
\* sent for each, and what a read is given.
Command(sent) == SubSeq(sent, 1, CommandLength)
Data(sent) == SubSeq(sent, CommandLength + 1, Len(sent))

LastFor(data, offset, cell) ==
    {i \in DOMAIN data :
        /\ (offset + i - 1) % SramSize = cell
        /\ \A j \in DOMAIN data : (offset + j - 1) % SramSize = cell => j <= i}

SramAfter(h) ==
    LET data == Data(h.sent)
        offset == Offset(Command(h.sent))
    IN  [cell \in 0..(SramSize - 1) |->
            IF Writes(Command(h.sent)) /\ Target(Command(h.sent)) = "sram"
               /\ LastFor(data, offset, cell) # {}
            THEN data[CHOOSE i \in LastFor(data, offset, cell) : TRUE]
            ELSE h.sram[cell]]

FlagsAfter(h) ==
    LET data == Data(h.sent)
    IN  IF Writes(Command(h.sent)) /\ Target(Command(h.sent)) = "flags"
           /\ data # <<>>
        THEN data[Len(data)] ELSE h.flags

GivenFor(h, i) ==
    LET command == Command(h.sent)
        offset == Offset(command)
        n == i - CommandLength - 1
    IN  IF i <= CommandLength THEN Ones
        ELSE IF Writes(command) THEN 0
        ELSE CASE Target(command) = "sram" -> h.sram[(offset + n) % SramSize]
               [] Target(command) = "flags" -> h.flags
               [] Target(command) = "rom" -> RomByte((offset + n) % RomSize)
               [] OTHER -> 0

(* However the guest cuts a transaction into immediate and DMA transfers,  *)
(* and whatever happens on other channels and devices in between, the chip *)
(* decodes the command from the first bytes since it was selected, writes  *)
(* and reads the cells that follow one another from its address, and the   *)
(* guest finds the answers in its register or its memory.                  *)
TransactionDecoded ==
    LET h == iplHistory
        complete == Len(h.sent) >= CommandLength
    IN  /\ Len(ipl.command) =
               IF complete THEN CommandLength ELSE Len(h.sent)
        /\ ipl.command = SubSeq(h.sent, 1, Len(ipl.command))
        /\ ipl.sram = IF complete THEN SramAfter(h) ELSE h.sram
        /\ ipl.flags = IF complete THEN FlagsAfter(h) ELSE h.flags
        /\ \A i \in DOMAIN h.sent : h.given[i] = GivenFor(h, i)
=============================================================================
