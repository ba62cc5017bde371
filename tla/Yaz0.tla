-------------------------------- MODULE Yaz0 --------------------------------
(***************************************************************************)
(* service_yaz0_decompression of main.c: the inner loop of the game's      *)
(* decoder, run natively.  It starts from the guest's registers at every   *)
(* entry of the loop, stops at an output budget or where the guest must    *)
(* refill its input window, and puts the registers back; when it finds a   *)
(* range that is not memory it declines and leaves the registers as they   *)
(* were, although it has written bytes by then.  The guest's own code goes *)
(* on whenever it declines.                                                *)
(* A position in the compressed stream stands for the address of that byte *)
(* in the window.  A byte has two digits in base Radix (nibbles).          *)
(***************************************************************************)
EXTENDS Integers, Sequences

CONSTANTS
    Radix,         \* 16
    GroupBits,     \* tokens announced by a code byte
    LongBase,      \* 18: bytes in the shortest copy whose length has its own byte
    OutputBudget,  \* SMG3DS_YAZ0_OUTPUT_BUDGET
    Stream,        \* bound: the compressed streams
    Refill,        \* bound: bytes the guest adds to its window at a time
    OutputFirst, OutputEnd,  \* where the output lies
    OutputBacked   \* bound: the first address from there on that is not memory

\* What the bits of a code byte weigh.
Weight[n \in 0..GroupBits] == IF n = 0 THEN 1 ELSE 2 * Weight[n - 1]

ASSUME Yaz0Assumption ==
    /\ GroupBits \in Nat \ {0} /\ Radix \in Nat /\ Radix * Radix = Weight[GroupBits]
    /\ OutputBudget \in Nat \ {0}
    /\ LongBase \in Nat \ {0} /\ Refill \in Nat \ {0}
    /\ OutputFirst \in Nat /\ OutputEnd \in Nat /\ OutputFirst <= OutputEnd
    /\ OutputBacked \subseteq Nat

VARIABLES
    stream,      \* the compressed bytes
    backed,      \* where the memory behind the output ends
    windowed,    \* how many of them have been in the guest's window
    registers,   \* gpr3 source, gpr7 bits, gpr8 code, gpr31 destination
    native,      \* the host's copies of them, and the bytes it has produced
    decoder,     \* who decodes: the loop head, the host, the guest, nobody
    decoded      \* the guest's memory around the output

yaz0Vars == <<stream, backed, windowed, registers, native, decoder, decoded>>

Byte == 0..(Radix * Radix - 1)
Position == 0..(OutputEnd - 1)

\* Behind the file the guest's buffer holds zeros.
ByteOf(file, i) == IF i < Len(file) THEN file[i + 1] ELSE 0
StreamByte(i) == ByteOf(stream, i)
Start == [source |-> 0, bits |-> 0, code |-> 0, destination |-> OutputFirst]

\* What lies before the output can be copied from, too.
Earlier == [a \in Position |-> a % (Radix * Radix)]

Yaz0From(streams, ends) ==
    /\ stream \in streams /\ backed \in ends
    /\ windowed = Refill
    /\ registers = Start /\ native = [registers |-> Start, produced |-> 0]
    /\ decoder = "head"
    /\ decoded = Earlier

Yaz0Init == Yaz0From(Stream, OutputBacked)
-----------------------------------------------------------------------------
(* A byte that has not come into the window reads as something else. *)
WindowByte(i) ==
    IF i < windowed THEN StreamByte(i) ELSE (StreamByte(i) + 1) % (Radix * Radix)

\* The guest keeps a whole group beyond the place where it refills.
SourceEnd ==
    IF windowed >= Len(stream) THEN windowed ELSE windowed - (1 + 3 * GroupBits)

\* The guest has to refill before the next group.
AtWindowEnd(r) == r.bits = 0 /\ r.source > SourceEnd

\* The registers with a code byte in them.
WithCode(r) ==
    IF r.bits # 0 THEN r
    ELSE [r EXCEPT !.code = WindowByte(r.source), !.bits = GroupBits, !.source = @ + 1]

TopBit == Weight[GroupBits - 1]

\* The next token: how wide it is, and where its bytes come from.
TokenAt(r) ==
    IF r.code >= TopBit
    THEN [literal |-> TRUE, width |-> 1, length |-> 1, distance |-> 0]
    ELSE LET first    == WindowByte(r.source)
             short    == first \div Radix
             long     == short = 0
         IN  [literal  |-> FALSE, width |-> IF long THEN 3 ELSE 2,
              length   |-> IF long THEN WindowByte(r.source + 2) + LongBase ELSE short + 2,
              distance |-> (first % Radix) * Radix * Radix + WindowByte(r.source + 1) + 1]

\* A copy stops at the end of the output.
TokenLength(r) ==
    LET room == OutputEnd - r.destination
    IN  IF TokenAt(r).length < room THEN TokenAt(r).length ELSE room

\* The bytes the token writes, a copy reading what it has itself written.
TokenBytes(r) ==
    LET token == TokenAt(r)
        bytes[i \in 0..(TokenLength(r) - 1)] ==
            IF token.literal THEN WindowByte(r.source)
            ELSE IF i < token.distance THEN decoded[r.destination + i - token.distance]
            ELSE bytes[i - token.distance]
    IN  bytes

\* The output with the first of those bytes in it.
Written(r, count) ==
    [a \in Position |->
        IF r.destination <= a /\ a < r.destination + count
        THEN TokenBytes(r)[a - r.destination] ELSE decoded[a]]

\* The registers after the token.
AfterToken(r) ==
    [source      |-> r.source + TokenAt(r).width,
     bits        |-> r.bits - 1,
     code        |-> (r.code * 2) % (Radix * Radix),
     destination |-> r.destination + TokenLength(r)]

\* How many of the token's bytes are memory.
BackedBytes(r) ==
    LET memory == IF backed > r.destination THEN backed - r.destination ELSE 0
    IN  IF TokenLength(r) < memory THEN TokenLength(r) ELSE memory
-----------------------------------------------------------------------------
EnterNative ==
    /\ decoder = "head"
    /\ decoder' = "native"
    /\ native' = [registers |-> registers, produced |-> 0]
    /\ UNCHANGED <<stream, backed, windowed, registers, decoded>>

NativeDecodes ==
    /\ decoder = "native"
    /\ native.registers.destination < OutputEnd
    /\ native.produced < OutputBudget

NativeToken ==
    /\ NativeDecodes
    /\ ~AtWindowEnd(native.registers)
    /\ LET r == WithCode(native.registers)
       IN  /\ BackedBytes(r) = TokenLength(r)
           /\ decoded' = Written(r, TokenLength(r))
           /\ native' = [registers |-> AfterToken(r),
                         produced  |-> native.produced + TokenLength(r)]
    /\ UNCHANGED <<stream, backed, windowed, registers, decoder>>

\* A byte of the token is not memory: those before it have been written.
NativeRefused ==
    /\ NativeDecodes
    /\ ~AtWindowEnd(native.registers)
    /\ LET r == WithCode(native.registers)
       IN  /\ BackedBytes(r) < TokenLength(r)
           /\ decoded' = Written(r, BackedBytes(r))
    /\ decoder' = "guest"
    /\ UNCHANGED <<stream, backed, windowed, registers, native>>

(* Mutant: the budget ends a slice without the bits left of its group. *)
LeaveAtGroup ==
    /\ decoder = "native"
    /\ ~NativeDecodes \/ AtWindowEnd(native.registers)
    /\ registers' = [native.registers EXCEPT !.bits = 0]
    /\ decoder' = IF native.registers.destination = OutputEnd THEN "done"
                  ELSE IF native.produced = 0 THEN "guest" ELSE "head"
    /\ UNCHANGED <<stream, backed, windowed, native, decoded>>

LeaveNative ==
    /\ decoder = "native"
    /\ ~NativeDecodes \/ AtWindowEnd(native.registers)
    /\ registers' = native.registers
    /\ decoder' = IF native.registers.destination = OutputEnd THEN "done"
                  ELSE IF native.produced = 0 THEN "guest" ELSE "head"
    /\ UNCHANGED <<stream, backed, windowed, native, decoded>>

\* The guest's own code: readSrcDataNext where the window ends,
GuestRefill ==
    /\ decoder = "guest"
    /\ AtWindowEnd(registers)
    /\ windowed' = windowed + Refill
    /\ UNCHANGED <<stream, backed, registers, native, decoder, decoded>>

\* one turn of its loop otherwise.
GuestToken ==
    /\ decoder = "guest"
    /\ ~AtWindowEnd(registers)
    /\ LET r == WithCode(registers)
       IN  /\ BackedBytes(r) = TokenLength(r)
           /\ decoded' = Written(r, TokenLength(r))
           /\ registers' = AfterToken(r)
    /\ decoder' = IF registers'.destination = OutputEnd THEN "done" ELSE "head"
    /\ UNCHANGED <<stream, backed, windowed, native>>

Yaz0Next ==
    \/ EnterNative \/ NativeToken \/ NativeRefused \/ LeaveNative
    \/ GuestRefill \/ GuestToken

Yaz0Spec == Yaz0Init /\ [][Yaz0Next]_yaz0Vars
-----------------------------------------------------------------------------
Yaz0TypeOK ==
    /\ stream \in Seq(Byte) /\ backed \in OutputBacked /\ windowed \in Nat
    /\ \A r \in {registers, native.registers} :
          /\ r.source \in Nat /\ r.bits \in 0..GroupBits /\ r.code \in Byte
          /\ r.destination \in OutputFirst..OutputEnd
    /\ native.produced \in Nat
    /\ decoder \in {"head", "native", "guest", "done"}
    /\ decoded \in [Position -> Byte]

(* The format itself: the bytes after each group of a file, read from its  *)
(* beginning without windows, budgets or refusals, byte by byte.  A turn   *)
(* copies a byte of the last token, reads a code byte or reads a token.    *)
Unexpanded ==
    [bytes |-> [i \in 1..OutputFirst |-> Earlier[i - 1]], source |-> 0,
     code |-> 0, used |-> GroupBits, distance |-> 0, left |-> 0]

Literal(e) == (e.code \div Weight[GroupBits - 1 - e.used]) % 2 = 1

ExpandTurn(file, e) ==
    LET nibble == ByteOf(file, e.source) \div Radix
        back   == 1 + ByteOf(file, e.source + 1)
                    + (ByteOf(file, e.source) % Radix) * (Radix * Radix)
    IN  IF Len(e.bytes) = OutputEnd THEN e
        ELSE IF e.left > 0
        THEN [e EXCEPT !.bytes = Append(e.bytes, e.bytes[Len(e.bytes) + 1 - e.distance]),
                       !.left = e.left - 1]
        ELSE IF e.used = GroupBits
        THEN [e EXCEPT !.code = ByteOf(file, e.source), !.used = 0, !.source = e.source + 1]
        ELSE IF Literal(e)
        THEN [e EXCEPT !.bytes = Append(e.bytes, ByteOf(file, e.source)),
                       !.source = e.source + 1, !.used = e.used + 1]
        ELSE [e EXCEPT !.source = e.source + (IF nibble > 0 THEN 2 ELSE 3), !.used = e.used + 1,
                       !.distance = back,
                       !.left = IF nibble > 0 THEN nibble + 2
                                ELSE ByteOf(file, e.source + 2) + LongBase]

\* A byte takes three turns at most: a code byte, a token, the byte.
Turns == 3 * (OutputEnd - OutputFirst)

Expansion(file) ==
    LET turn[n \in 0..Turns] == IF n = 0 THEN Unexpanded ELSE ExpandTurn(file, turn[n - 1])
    IN  turn

Expanded == Expansion(stream)[Turns].bytes

\* A file that holds what it takes to fill the output, and copies from what
\* is there.
WholeFile(file) ==
    /\ file \in Seq(Byte)
    /\ \A n \in 0..Turns :
          LET e == Expansion(file)[n]
          IN  e.source <= Len(file) /\ e.distance <= Len(e.bytes)

ASSUME StreamAssumption == \A file \in Stream : WholeFile(file)

(* However the output is cut into slices, windows and turns of the guest,  *)
(* and although a slice that declines has written bytes that are decoded   *)
(* again, the bytes up to the guest's destination are what the stream      *)
(* expands to.                                                             *)
Yaz0Exact ==
    LET expanded == Expanded
    IN  \A a \in OutputFirst..(registers.destination - 1) : decoded[a] = expanded[a + 1]
=============================================================================
