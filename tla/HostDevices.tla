----------------------------- MODULE HostDevices -----------------------------
(***************************************************************************)
(* The devices and services of the host that work on state of their own.   *)
(* What they have in common, the guest's memory and the interrupt lines,   *)
(* is in Mem2Paging, IosIpc and ProcessorInterface; beyond that no step of *)
(* one reads or writes what another keeps.  So every behaviour exercises   *)
(* one of them, chosen at its start, and leaves the others as they were    *)
(* when the program came up.                                               *)
(***************************************************************************)
EXTENDS GuestClock, DspMailbox, Exi, Gpio, IosFiles, GuestCopy,
        DirectoryListing, DolBoot, DiscImage, Yaz0, Kpad, TextureCache, VertexBatch

CONSTANTS DiscTable   \* bound: file system tables

VARIABLE part     \* the one this behaviour exercises

Part == {"decrementer", "samples", "dsp", "exi", "gpio", "descriptors", "card",
         "streams", "copy", "listing", "boot", "image", "yaz0", "kpad", "texture", "batch"}

\* A disc with nothing on it, for the behaviours that never look at it.
EmptyDisc ==
    [i \in Index |-> CHOOSE e \in EntryType :
        e.dir /\ e.first = 0 /\ e.name = CHOOSE name \in FstName : TRUE]
Exercised(p, all, one) == IF part = p THEN all ELSE {one}

\* What stands for a part that is not exercised is a state the part can start
\* in; only an idle Yaz0 has no file at all.
ASSUME HostAssumption ==
    /\ DiscTable \cup {EmptyDisc} \subseteq [Index -> EntryType]
    /\ Header # {} /\ VertexFormat # {} /\ Primitive # {}
    /\ OutputEnd \in OutputBacked

Init ==
    /\ part \in Part
    /\ ClockInit /\ DspPowerOn /\ ExiInit /\ GpioInit /\ FilesInit
    /\ CopyInit /\ ListingInit /\ KpadInit /\ TextureInit
    /\ BootFrom(Exercised("boot", Header, CHOOSE h \in Header : TRUE))
    /\ ImageFrom(Exercised("image", DiscTable, EmptyDisc))
    /\ Yaz0From(Exercised("yaz0", Stream, <<>>),
                Exercised("yaz0", OutputBacked, OutputEnd))
    /\ BatchFrom(Exercised("batch", VertexFormat, CHOOSE f \in VertexFormat : TRUE),
                 Exercised("batch", Primitive, CHOOSE p \in Primitive : TRUE),
                 Exercised("batch", 0..MaxCount, 0),
                 Exercised("batch", BOOLEAN, FALSE))
-----------------------------------------------------------------------------
(* Everything but the named part stays. *)
OnlyClock == UNCHANGED <<part, dspVars, exiVars, gpioVars, filesVars, copyVars, listing,
    bootVars, imageVars, yaz0Vars, kpadVars, textureVars, batchVars>>
OnlyDsp == UNCHANGED <<part, clockVars, exiVars, gpioVars, filesVars, copyVars, listing,
    bootVars, imageVars, yaz0Vars, kpadVars, textureVars, batchVars>>
OnlyExi == UNCHANGED <<part, clockVars, dspVars, gpioVars, filesVars, copyVars, listing,
    bootVars, imageVars, yaz0Vars, kpadVars, textureVars, batchVars>>
OnlyGpio == UNCHANGED <<part, clockVars, dspVars, exiVars, filesVars, copyVars, listing,
    bootVars, imageVars, yaz0Vars, kpadVars, textureVars, batchVars>>
OnlyFiles == UNCHANGED <<part, clockVars, dspVars, exiVars, gpioVars, copyVars, listing,
    bootVars, imageVars, yaz0Vars, kpadVars, textureVars, batchVars>>
OnlyCopy == UNCHANGED <<part, clockVars, dspVars, exiVars, gpioVars, filesVars, listing,
    bootVars, imageVars, yaz0Vars, kpadVars, textureVars, batchVars>>
OnlyListing == UNCHANGED <<part, clockVars, dspVars, exiVars, gpioVars, filesVars, copyVars,
    bootVars, imageVars, yaz0Vars, kpadVars, textureVars, batchVars>>
OnlyBoot == UNCHANGED <<part, clockVars, dspVars, exiVars, gpioVars, filesVars, copyVars,
    listing, imageVars, yaz0Vars, kpadVars, textureVars, batchVars>>
OnlyImage == UNCHANGED <<part, clockVars, dspVars, exiVars, gpioVars, filesVars, copyVars,
    listing, bootVars, yaz0Vars, kpadVars, textureVars, batchVars>>
OnlyYaz0 == UNCHANGED <<part, clockVars, dspVars, exiVars, gpioVars, filesVars, copyVars,
    listing, bootVars, imageVars, kpadVars, textureVars, batchVars>>
OnlyKpad == UNCHANGED <<part, clockVars, dspVars, exiVars, gpioVars, filesVars, copyVars,
    listing, bootVars, imageVars, yaz0Vars, textureVars, batchVars>>
OnlyTexture == UNCHANGED <<part, clockVars, dspVars, exiVars, gpioVars, filesVars, copyVars,
    listing, bootVars, imageVars, yaz0Vars, kpadVars, batchVars>>
OnlyBatch == UNCHANGED <<part, clockVars, dspVars, exiVars, gpioVars, filesVars, copyVars,
    listing, bootVars, imageVars, yaz0Vars, kpadVars, textureVars>>

Next ==
    \/ part = "decrementer" /\ (TimePasses \/ DecrementerUse) /\ OnlyClock
    \/ part = "samples" /\ (TimePasses \/ SampleUse) /\ OnlyClock
    \/ part = "dsp" /\ DspNext /\ OnlyDsp
    \/ part = "exi" /\ ExiNext /\ OnlyExi
    \/ part = "gpio" /\ GpioNext /\ OnlyGpio
    \/ part = "descriptors" /\ DescriptorRequests /\ OnlyFiles
    \/ part = "card" /\ CardRequests /\ OnlyFiles
    \/ part = "streams" /\ StreamRequests /\ OnlyFiles
    \/ part = "copy" /\ CopyNext /\ OnlyCopy
    \/ part = "listing" /\ ListingNext /\ OnlyListing
    \/ part = "boot" /\ BootNext /\ OnlyBoot
    \/ part = "image" /\ ImageNext /\ OnlyImage
    \/ part = "yaz0" /\ Yaz0Next /\ OnlyYaz0
    \/ part = "kpad" /\ KpadNext /\ OnlyKpad
    \/ part = "texture" /\ TextureNext /\ OnlyTexture
    \/ part = "batch" /\ BatchNext /\ OnlyBatch

vars == <<part, clockVars, dspVars, exiVars, gpioVars, filesVars, copyVars, listing,
          bootVars, imageVars, yaz0Vars, kpadVars, textureVars, batchVars>>

Spec == Init /\ [][Next]_vars
-----------------------------------------------------------------------------
(* Every variable of every part stays in its type. *)
TypeOK ==
    /\ part \in Part
    /\ ClockTypeOK /\ DspTypeOK /\ ExiTypeOK /\ GpioTypeOK /\ FilesTypeOK
    /\ CopyTypeOK /\ ListingTypeOK /\ BootTypeOK /\ ImageTypeOK
    /\ Yaz0TypeOK /\ KpadTypeOK /\ TextureTypeOK /\ BatchTypeOK
=============================================================================
