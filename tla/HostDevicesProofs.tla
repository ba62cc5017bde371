-------------------------- MODULE HostDevicesProofs --------------------------
(***************************************************************************)
(* The composition of the host's devices: HostDevices is made of parts     *)
(* that keep their variables to themselves, so each part behaves there as  *)
(* its own module specifies and keeps what is proved of it.                *)
(***************************************************************************)
EXTENDS HostDevices, GuestClockProofs, ProcessorInterfaceProofs, DeviceProofs,
        FilesProofs

\* A step of the host is a step of one part, and a stutter of the others.
LEMMA OnlyOneMoves ==
    ASSUME [Next]_vars
    PROVE  /\ part' = part
           /\ [ClockNext]_clockVars /\ [DspNext]_dspVars /\ [ExiNext]_exiVars
           /\ [GpioNext]_gpioVars /\ [FilesNext]_filesVars /\ [CopyNext]_copyVars
           /\ [ListingNext]_listing /\ [BootNext]_bootVars /\ [ImageNext]_imageVars
           /\ [Yaz0Next]_yaz0Vars /\ [KpadNext]_kpadVars /\ [TextureNext]_textureVars
           /\ [BatchNext]_batchVars
           /\ part # "yaz0" => UNCHANGED yaz0Vars
<1>1. CASE (TimePasses \/ DecrementerUse \/ SampleUse) /\ OnlyClock /\ part # "yaz0"
  BY <1>1 DEF ClockNext, OnlyClock
<1>2. CASE DspNext /\ OnlyDsp /\ part # "yaz0"
  BY <1>2 DEF OnlyDsp
<1>3. CASE ExiNext /\ OnlyExi /\ part # "yaz0"
  BY <1>3 DEF OnlyExi
<1>4. CASE GpioNext /\ OnlyGpio /\ part # "yaz0"
  BY <1>4 DEF OnlyGpio
<1>5. CASE (DescriptorRequests \/ CardRequests \/ StreamRequests) /\ OnlyFiles /\ part # "yaz0"
  BY <1>5 DEF OnlyFiles, FilesNext
<1>6. CASE CopyNext /\ OnlyCopy /\ part # "yaz0"
  BY <1>6 DEF OnlyCopy
<1>7. CASE ListingNext /\ OnlyListing /\ part # "yaz0"
  BY <1>7 DEF OnlyListing
<1>8. CASE BootNext /\ OnlyBoot /\ part # "yaz0"
  BY <1>8 DEF OnlyBoot
<1>9. CASE ImageNext /\ OnlyImage /\ part # "yaz0"
  BY <1>9 DEF OnlyImage
<1>10. CASE Yaz0Next /\ OnlyYaz0 /\ part = "yaz0"
  BY <1>10 DEF OnlyYaz0
<1>11. CASE KpadNext /\ OnlyKpad /\ part # "yaz0"
  BY <1>11 DEF OnlyKpad
<1>12. CASE TextureNext /\ OnlyTexture /\ part # "yaz0"
  BY <1>12 DEF OnlyTexture
<1>13. CASE BatchNext /\ OnlyBatch /\ part # "yaz0"
  BY <1>13 DEF OnlyBatch
<1>14. CASE UNCHANGED vars
  BY <1>14 DEF vars
<1> QED
  BY <1>1, <1>2, <1>3, <1>4, <1>5, <1>6, <1>7, <1>8, <1>9, <1>10, <1>11, <1>12,
     <1>13, <1>14 DEF Next

\* At the start every part is where its own module starts it.
LEMMA PartsStart ==
    ASSUME Init
    PROVE  /\ ClockInit /\ DspPowerOn /\ ExiInit /\ GpioInit /\ FilesInit
           /\ CopyInit /\ ListingInit /\ BootInit /\ ImageInit /\ KpadInit
           /\ TextureInit /\ BatchInit
           /\ part \in Part
           /\ part = "yaz0" => Yaz0Init
           /\ part # "yaz0" => Yaz0From({<<>>}, {OutputEnd})
<1>1. BootInit
  <2>1. Exercised("boot", Header, CHOOSE h \in Header : TRUE) \subseteq Header
    BY HostAssumption DEF Exercised
  <2> QED
    BY <2>1 DEF Init, BootInit, BootFrom
<1>2. ImageInit
  <2>1. Exercised("image", DiscTable, EmptyDisc) \subseteq [Index -> EntryType]
    BY HostAssumption DEF Exercised
  <2> QED
    BY <2>1 DEF Init, ImageInit, ImageFrom
<1>3. BatchInit
  <2>1. Exercised("batch", VertexFormat, CHOOSE f \in VertexFormat : TRUE) \subseteq VertexFormat
    BY HostAssumption DEF Exercised
  <2>2. Exercised("batch", Primitive, CHOOSE p \in Primitive : TRUE) \subseteq Primitive
    BY HostAssumption DEF Exercised
  <2>3. Exercised("batch", 0..MaxCount, 0) \subseteq 0..MaxCount
    BY BatchAssumption DEF Exercised
  <2>4. Exercised("batch", BOOLEAN, FALSE) \subseteq BOOLEAN
    BY DEF Exercised
  <2>5. BatchFrom(Exercised("batch", VertexFormat, CHOOSE f \in VertexFormat : TRUE),
                  Exercised("batch", Primitive, CHOOSE p \in Primitive : TRUE),
                  Exercised("batch", 0..MaxCount, 0),
                  Exercised("batch", BOOLEAN, FALSE))
    BY DEF Init
  <2> QED
    BY <2>1, <2>2, <2>3, <2>4, <2>5 DEF BatchInit, BatchFrom
<1>4. part = "yaz0" => Yaz0Init
  BY DEF Init, Yaz0Init, Exercised
<1>5. part # "yaz0" => Yaz0From({<<>>}, {OutputEnd})
  BY DEF Init, Exercised
<1> QED
  BY <1>1, <1>2, <1>3, <1>4, <1>5 DEF Init

\* Where the decoder stands while another part is exercised.
Yaz0Rests ==
    /\ stream = <<>> /\ backed = OutputEnd /\ windowed = Refill
    /\ registers = Start /\ native = [registers |-> Start, produced |-> 0]
    /\ decoder = "head" /\ decoded = Earlier

(* What the host's devices do together is, device by device, what each     *)
(* module says the device does alone: for every part, the behaviours of    *)
(* HostDevices are behaviours of the part's own specification.  The Yaz0   *)
(* decoder has no file when another part is exercised, and rests.          *)
THEOREM PartsRefined ==
    Spec => /\ ClockSpec /\ DspSpec /\ ExiSpec /\ GpioSpec /\ FilesSpec
            /\ CopySpec /\ ListingSpec /\ BootSpec /\ ImageSpec /\ KpadSpec
            /\ TextureSpec /\ BatchSpec
            /\ [](part \in Part)
            /\ Yaz0Spec \/ []Yaz0Rests
<1>1. Init => /\ ClockInit /\ DspPowerOn /\ ExiInit /\ GpioInit /\ FilesInit
              /\ CopyInit /\ ListingInit /\ BootInit /\ ImageInit /\ KpadInit
              /\ TextureInit /\ BatchInit /\ part \in Part
              /\ Yaz0Init \/ (part # "yaz0" /\ Yaz0Rests)
  BY PartsStart DEF Yaz0From, Yaz0Rests
<1>2. [Next]_vars =>
        /\ [ClockNext]_clockVars /\ [DspNext]_dspVars /\ [ExiNext]_exiVars
        /\ [GpioNext]_gpioVars /\ [FilesNext]_filesVars /\ [CopyNext]_copyVars
        /\ [ListingNext]_listing /\ [BootNext]_bootVars /\ [ImageNext]_imageVars
        /\ [Yaz0Next]_yaz0Vars /\ [KpadNext]_kpadVars /\ [TextureNext]_textureVars
        /\ [BatchNext]_batchVars
  BY OnlyOneMoves
<1>3. part \in Part /\ [Next]_vars => (part \in Part)'
  BY OnlyOneMoves
<1>4. (part # "yaz0" /\ Yaz0Rests) /\ [Next]_vars => (part # "yaz0" /\ Yaz0Rests)'
  BY OnlyOneMoves DEF Yaz0Rests, yaz0Vars
<1> QED
  BY <1>1, <1>2, <1>3, <1>4, PTL
  DEF Spec, ClockSpec, DspSpec, ExiSpec, GpioSpec, FilesSpec, CopySpec, ListingSpec,
      BootSpec, ImageSpec, KpadSpec, TextureSpec, BatchSpec, Yaz0Spec
-----------------------------------------------------------------------------
(* So what is proved of each device holds where they are together.  A      *)
(* resting Yaz0 decoder has no output yet.                                 *)

LEMMA RestingTyped ==
    ASSUME Yaz0Rests
    PROVE  Yaz0TypeOK /\ Yaz0Exact
<1>1. stream = <<>> /\ stream \in Seq(Byte)
  BY DEF Yaz0Rests
<1>2. /\ Start.source \in Nat /\ Start.bits \in 0..GroupBits /\ Start.code \in Byte
      /\ Start.destination \in OutputFirst..OutputEnd
  <2>1. Start \in LoopRegisters
    BY StartReached
  <2> QED
    BY <2>1 DEF LoopRegisters
<1>3. decoded \in [Position -> Byte]
  BY StartReached DEF Yaz0Rests
<1>4. Yaz0TypeOK
  BY <1>1, <1>2, <1>3, Yaz0Assumption, HostAssumption DEF Yaz0Rests, Yaz0TypeOK
<1>5. OutputFirst..(registers.destination - 1) = {}
  BY Yaz0Assumption DEF Yaz0Rests, Start
<1> QED
  BY <1>4, <1>5 DEF Yaz0Exact

(* Every variable of every device keeps its type where they run together. *)
THEOREM HostTypeCorrect == Spec => []TypeOK
<1>1. Yaz0Rests => Yaz0TypeOK
  BY RestingTyped
<1>2. /\ part \in Part
      /\ ClockTypeOK /\ DspTypeOK /\ ExiTypeOK /\ GpioTypeOK /\ FilesTypeOK
      /\ CopyTypeOK /\ ListingTypeOK /\ BootTypeOK /\ ImageTypeOK
      /\ Yaz0TypeOK /\ KpadTypeOK /\ TextureTypeOK /\ BatchTypeOK
      => TypeOK
  BY DEF TypeOK
<1> QED
  BY <1>1, <1>2, PartsRefined, ClockTypeCorrect, DspTypeCorrect, ExiTypeCorrect,
     GpioTypeCorrect, FilesTypeCorrect, CopyTypeCorrect, ListingTypeCorrect,
     BootTypeCorrect, ImageTypeCorrect, Yaz0TypeCorrect, KpadTypeCorrect,
     TextureTypeCorrect, BatchTypeCorrect, PTL

(* What each device promises, it keeps among the others: the clock is      *)
(* exact, mails, transactions, lanes, files, copies, listings, images,     *)
(* decoded bytes and vertices are what the code says of them, no file of   *)
(* the title is lost and none outside its directory is touched, reads of   *)
(* the controller miss nothing, and what is shown is fresh.                *)
THEOREM PromisesKept ==
    Spec => /\ []ClockExact /\ []MailsInOrder /\ []TransactionDecoded /\ []LanesExact
            /\ []FilesExact /\ []CopyExact /\ []ListingExact /\ []ImageComplete
            /\ []ImageExact /\ []Yaz0Exact /\ []BatchWalked
            /\ FilesKept /\ OnlyTitleData /\ InputComplete /\ ShownFresh
<1>1. Yaz0Rests => Yaz0Exact
  BY RestingTyped
<1> QED
  BY <1>1, PartsRefined, ClockIsExact, MailsAreInOrder, TransactionsAreDecoded,
     GpioLanesExact, FilesAreExact, CopiesAreExact, ListingsAreExact, ImageIsComplete,
     ImageIsExact, Yaz0IsExact, BatchesAreWalked, FilesAreKept, CardIsConfined,
     InputIsComplete, ShownIsFresh, PTL
=============================================================================
