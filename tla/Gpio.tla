-------------------------------- MODULE Gpio --------------------------------
(***************************************************************************)
(* The GPIO registers of hollywood_gpio.c: an output and a direction       *)
(* register of four byte lanes, of which the guest owns some bits.  A      *)
(* write covers one, two or four lanes.  The read-only input register,     *)
(* which says whether a disc is in, keeps no state and is left out.        *)
(***************************************************************************)
EXTENDS Naturals

CONSTANTS
    GpioBit,         \* the bits of one lane
    Owned,           \* SMG3DS_GPIOB_OWNER_MASK, by lane
    DirectionReset,  \* SMG3DS_GPIOB_DIR_RESET, by lane
    GpioPattern      \* bound: what the guest writes

Lane == 0..3

ASSUME GpioAssumption ==
    /\ Owned \in [Lane -> SUBSET GpioBit]
    /\ DirectionReset \in [Lane -> SUBSET GpioBit]
    /\ GpioPattern \subseteq [Lane -> SUBSET GpioBit]

VARIABLES
    output, direction,  \* g_stats.output, g_stats.direction
    gpioHistory         \* history: the last bits written to each lane of both

gpioVars == <<output, direction, gpioHistory>>

NoBits == [l \in Lane |-> {}]

GpioInit ==
    /\ output = NoBits
    /\ direction = DirectionReset
    /\ gpioHistory = [output |-> NoBits, direction |-> DirectionReset]

\* register_access: the lanes of an access of that size, in one register.
Sizes == {1, 2, 4}
Covered(first, size) == first .. (first + size - 1)
InRegister(first, size) == size \in Sizes /\ first + size <= 4

\* merge_lane
Merged(old, bits, first, size) ==
    [l \in Lane |-> IF l \in Covered(first, size) THEN bits[l] ELSE old[l]]

(* Mutant: the bits of other owners are not kept. *)
UnmaskedBits(old, requested) == requested

\* The guest changes its own bits only.
OwnBits(old, requested) ==
    [l \in Lane |-> (old[l] \ Owned[l]) \cup (requested[l] \cap Owned[l])]

WriteOutput(bits, first, size) ==
    /\ InRegister(first, size)
    /\ output' = OwnBits(output, Merged(output, bits, first, size))
    /\ gpioHistory' = [gpioHistory EXCEPT
           !.output = Merged(@, bits, first, size)]
    /\ UNCHANGED direction

WriteDirection(bits, first, size) ==
    /\ InRegister(first, size)
    /\ direction' = OwnBits(direction, Merged(direction, bits, first, size))
    /\ gpioHistory' = [gpioHistory EXCEPT
           !.direction = Merged(@, bits, first, size)]
    /\ UNCHANGED output

GpioNext ==
    \E first \in Lane, size \in Sizes, bits \in GpioPattern :
        WriteOutput(bits, first, size) \/ WriteDirection(bits, first, size)

GpioSpec == GpioInit /\ [][GpioNext]_gpioVars

GpioTypeOK ==
    /\ output \in [Lane -> SUBSET GpioBit]
    /\ direction \in [Lane -> SUBSET GpioBit]
    /\ gpioHistory.output \in [Lane -> SUBSET GpioBit]
    /\ gpioHistory.direction \in [Lane -> SUBSET GpioBit]

(* However the guest's writes are cut into lanes, its own bits are the last *)
(* it wrote and the bits of other owners are those of the reset.            *)
LanesExact ==
    \A l \in Lane :
        /\ output[l] = gpioHistory.output[l] \cap Owned[l]
        /\ direction[l] = (gpioHistory.direction[l] \cap Owned[l])
                          \cup (DirectionReset[l] \ Owned[l])
=============================================================================
