----------------------------- MODULE DeviceProofs -----------------------------
(***************************************************************************)
(* Five parts of the host that work on state of their own: the GPIO        *)
(* registers, the controller, the texture cache, the walk over a draw      *)
(* command and the command FIFO.  Each has its section: the invariant, one *)
(* lemma for the initial states and one for the steps, and the theorems    *)
(* they give.                                                              *)
(***************************************************************************)
EXTENDS Gpio, Kpad, TextureCache, VertexBatch, GxFifo, Lemmas

-----------------------------------------------------------------------------
(* The GPIO registers for any owner masks, any reset and any writes.  The  *)
(* invariant is LanesExact with the type: only in a register of four lanes *)
(* of bits does masking lane by lane say all there is to say.              *)

GpioWritten == [output : [Lane -> SUBSET GpioBit], direction : [Lane -> SUBSET GpioBit]]

GpioIInv == GpioTypeOK /\ LanesExact /\ gpioHistory \in GpioWritten

\* What a write merges into a register is bits, lane by lane the new ones
\* where the access covers the lane and the old ones elsewhere.
LEMMA MergedLanes ==
    ASSUME NEW old \in [Lane -> SUBSET GpioBit], NEW bits \in [Lane -> SUBSET GpioBit],
           NEW first, NEW size
    PROVE  /\ Merged(old, bits, first, size) \in [Lane -> SUBSET GpioBit]
           /\ \A l \in Lane : Merged(old, bits, first, size)[l]
                  = IF l \in Covered(first, size) THEN bits[l] ELSE old[l]
  BY DEF Merged

\* Masking by ownership keeps a register a register.
LEMMA OwnLanes ==
    ASSUME NEW old \in [Lane -> SUBSET GpioBit], NEW bits \in [Lane -> SUBSET GpioBit]
    PROVE  /\ OwnBits(old, bits) \in [Lane -> SUBSET GpioBit]
           /\ \A l \in Lane : OwnBits(old, bits)[l]
                  = (old[l] \ Owned[l]) \cup (bits[l] \cap Owned[l])
  BY GpioAssumption DEF OwnBits

LEMMA GpioInitial == GpioInit => GpioIInv
  BY GpioAssumption DEF GpioInit, GpioIInv, GpioTypeOK, LanesExact, NoBits, GpioWritten

\* Each register write keeps the invariant; the other register is untouched.
LEMMA GpioStep == GpioIInv /\ [GpioNext]_gpioVars => GpioIInv'
<1> SUFFICES ASSUME GpioIInv, [GpioNext]_gpioVars PROVE GpioIInv'
  OBVIOUS
<1> USE DEF GpioIInv, GpioTypeOK, LanesExact, GpioWritten
<1>1. ASSUME NEW first \in Lane, NEW size \in Sizes, NEW bits \in GpioPattern,
             WriteOutput(bits, first, size)
      PROVE  GpioIInv'
  <2> DEFINE merged == Merged(output, bits, first, size)
             told == Merged(gpioHistory.output, bits, first, size)
  <2>1. bits \in [Lane -> SUBSET GpioBit]
    BY GpioAssumption
  <2>2. /\ merged \in [Lane -> SUBSET GpioBit] /\ told \in [Lane -> SUBSET GpioBit]
        /\ \A l \in Lane :
              /\ merged[l] = IF l \in Covered(first, size) THEN bits[l] ELSE output[l]
              /\ told[l] = IF l \in Covered(first, size)
                           THEN bits[l] ELSE gpioHistory.output[l]
    BY <2>1, MergedLanes
  <2> HIDE DEF merged, told
  <2>3. /\ output' \in [Lane -> SUBSET GpioBit]
        /\ \A l \in Lane : output'[l]
              = (output[l] \ Owned[l]) \cup (merged[l] \cap Owned[l])
    BY <1>1, <2>2, OwnLanes DEF WriteOutput, merged
  <2>4. gpioHistory' = [gpioHistory EXCEPT !.output = told]
    BY <1>1 DEF WriteOutput, told
  <2>5. direction' = direction
    BY <1>1 DEF WriteOutput
  <2>6. gpioHistory'.output = told /\ gpioHistory'.direction = gpioHistory.direction
    BY <2>4
  <2>7. \A l \in Lane : output'[l] = told[l] \cap Owned[l]
    BY <2>2, <2>3
  <2> QED
    BY <2>2, <2>3, <2>4, <2>5, <2>6, <2>7
<1>2. ASSUME NEW first \in Lane, NEW size \in Sizes, NEW bits \in GpioPattern,
             WriteDirection(bits, first, size)
      PROVE  GpioIInv'
  <2> DEFINE merged == Merged(direction, bits, first, size)
             told == Merged(gpioHistory.direction, bits, first, size)
  <2>1. bits \in [Lane -> SUBSET GpioBit]
    BY GpioAssumption
  <2>2. /\ merged \in [Lane -> SUBSET GpioBit] /\ told \in [Lane -> SUBSET GpioBit]
        /\ \A l \in Lane :
              /\ merged[l] = IF l \in Covered(first, size) THEN bits[l] ELSE direction[l]
              /\ told[l] = IF l \in Covered(first, size)
                           THEN bits[l] ELSE gpioHistory.direction[l]
    BY <2>1, MergedLanes
  <2> HIDE DEF merged, told
  <2>3. /\ direction' \in [Lane -> SUBSET GpioBit]
        /\ \A l \in Lane : direction'[l]
              = (direction[l] \ Owned[l]) \cup (merged[l] \cap Owned[l])
    BY <1>2, <2>2, OwnLanes DEF WriteDirection, merged
  <2>4. gpioHistory' = [gpioHistory EXCEPT !.direction = told]
    BY <1>2 DEF WriteDirection, told
  <2>5. output' = output
    BY <1>2 DEF WriteDirection
  <2>6. gpioHistory'.direction = told /\ gpioHistory'.output = gpioHistory.output
    BY <2>4
  <2>7. \A l \in Lane : direction'[l] = (told[l] \cap Owned[l])
                                        \cup (DirectionReset[l] \ Owned[l])
    BY <2>2, <2>3
  <2> QED
    BY <2>2, <2>3, <2>4, <2>5, <2>6, <2>7
<1>3. CASE UNCHANGED gpioVars
  BY <1>3 DEF gpioVars
<1> QED
  BY <1>1, <1>2, <1>3 DEF GpioNext

\* The invariant of the proof: the three facts in every state.
THEOREM GpioInvariance == GpioSpec => []GpioIInv
  BY GpioInitial, GpioStep, PTL DEF GpioSpec

(* The registers and their history stay bits of four lanes. *)
THEOREM GpioTypeCorrect == GpioSpec => []GpioTypeOK
<1>1. GpioIInv => GpioTypeOK
  BY DEF GpioIInv
<1> QED
  BY <1>1, GpioInvariance, PTL

(* However the guest's writes of OUT and DIR are cut into lanes            *)
(* (hollywood_gpio.c's merge_lane), the guest's own bits are the last it   *)
(* wrote and those of other owners never leave their reset values.         *)
THEOREM GpioLanesExact == GpioSpec => []LanesExact
<1>1. GpioIInv => LanesExact
  BY DEF GpioIInv
<1> QED
  BY <1>1, GpioInvariance, PTL
-----------------------------------------------------------------------------
(* The controller, for any keys, any touches and any order of scans and    *)
(* reads.  InputComplete relates a read to all the scans since the last    *)
(* one; the invariant says what the latch, the pointer and the last sample *)
(* remember of them.                                                       *)

KeysKnown == held \subseteq HostKey /\ latched \subseteq HostKey
LatchComplete == pressed = latched
EdgesAddUp == toldHeld = previousHold
ClickEarned == clickReady = pointed /\ (clickReady => pointer)

KpadIInv == KeysKnown /\ LatchComplete /\ EdgesAddUp /\ ClickEarned

\* Only the A button is A.
LEMMA OnlyAIsA ==
    ASSUME NEW down \in SUBSET HostKey, "A" \in Buttons(down)
    PROVE  "A" \in down
<1>1. PICK k \in down : ButtonOf[k] = "A"
  BY DEF Buttons
<1>2. k \in DOMAIN ButtonOf
  BY KpadAssumption
<1> QED
  BY <1>1, <1>2 DEF ButtonOf

LEMMA KpadInitial == KpadInit => KpadIInv
  BY DEF KpadInit, KpadIInv, KeysKnown, LatchComplete, EdgesAddUp, ClickEarned

\* A scan adds to the latch what it adds to the history.
LEMMA ScanKeeps ==
    ASSUME KpadIInv, NEW down \in SUBSET HostKey, NEW touch \in Touch, HostFrame(down, touch)
    PROVE  KpadIInv'
<1>1. KeysKnown' /\ LatchComplete' /\ EdgesAddUp'
  BY DEF HostFrame, KpadIInv, KeysKnown, LatchComplete, EdgesAddUp
<1>2. ClickEarned'
  BY DEF HostFrame, ClickEarned
<1> QED
  BY <1>1, <1>2 DEF KpadIInv

\* A read empties the latch; the edges it reports lead from the last sample to
\* this one.
LEMMA KpadReadKeeps ==
    ASSUME KpadIInv, NEW changed \in BOOLEAN, KpadRead(changed)
    PROVE  /\ KpadIInv'
           /\ toldHeld' = sample'.hold /\ sample'.hold = Hold
           /\ sample'.pointer = pointer
<1>1. /\ sample'.hold = Hold
      /\ sample'.trigger = Hold \ previousHold
      /\ sample'.release = previousHold \ Hold
      /\ sample'.pointer = pointer
  BY DEF KpadRead
<1>2. toldHeld' = (previousHold \cup (Hold \ previousHold)) \ (previousHold \ Hold)
  BY <1>1 DEF KpadRead, KpadIInv, EdgesAddUp
<1>3. toldHeld' = Hold
  BY <1>2
<1>4. KeysKnown' /\ LatchComplete' /\ EdgesAddUp' /\ ClickEarned'
  BY <1>3 DEF KpadRead, KpadIInv, KeysKnown, LatchComplete, EdgesAddUp, ClickEarned
<1> QED
  BY <1>1, <1>3, <1>4 DEF KpadIInv

LEMMA KpadStep == KpadIInv /\ [KpadNext]_kpadVars => KpadIInv'
<1> SUFFICES ASSUME KpadIInv, [KpadNext]_kpadVars PROVE KpadIInv'
  OBVIOUS
<1>1. CASE \E down \in SUBSET HostKey, touch \in Touch : HostFrame(down, touch)
  BY <1>1, ScanKeeps
<1>2. CASE \E changed \in BOOLEAN : KpadRead(changed)
  BY <1>2, KpadReadKeeps
<1>3. CASE UNCHANGED kpadVars
  BY <1>3 DEF kpadVars, KpadIInv, KeysKnown, LatchComplete, EdgesAddUp, ClickEarned
<1> QED
  BY <1>1, <1>2, <1>3 DEF KpadNext, RefuseRead

\* What the read's sample holds, by the invariant before it.
LEMMA SampleComplete ==
    ASSUME KpadIInv, NEW changed \in BOOLEAN, KpadRead(changed)
    PROVE  /\ Buttons(pressed) \subseteq sample'.hold
           /\ toldHeld' = sample'.hold
           /\ "A" \in sample'.hold /\ "A" \notin HostKeys => pointed /\ sample'.pointer
<1>1. sample'.hold = Hold /\ sample'.pointer = pointer /\ toldHeld' = sample'.hold
  BY KpadReadKeeps
<1>2. Buttons(pressed) \subseteq Hold
  BY DEF KpadIInv, LatchComplete, Hold, HostKeys, Buttons
<1>3. ASSUME "A" \in Hold, "A" \notin HostKeys PROVE pointed /\ pointer
  <2>1. HostKeys \in SUBSET HostKey
    BY DEF HostKeys, KpadIInv, KeysKnown
  <2>2. "A" \notin Buttons(HostKeys)
    BY <2>1, <1>3, OnlyAIsA
  <2>3. clickReady
    BY <2>2, <1>3 DEF Hold
  <2> QED
    BY <2>3 DEF KpadIInv, ClickEarned
<1> QED
  BY <1>1, <1>2, <1>3

(* The invariant of the scans and the reads. *)
THEOREM KpadInvariance == KpadSpec => []KpadIInv
  BY KpadInitial, KpadStep, PTL DEF KpadSpec

LEMMA HoldIsButtons ==
    ASSUME KpadIInv
    PROVE  Hold \subseteq Buttons(DOMAIN ButtonOf)
<1>1. HostKeys \subseteq DOMAIN ButtonOf
  BY KpadAssumption DEF HostKeys, KpadIInv, KeysKnown
<1>2. Buttons(HostKeys) \subseteq Buttons(DOMAIN ButtonOf)
  BY <1>1 DEF Buttons
<1>3. "A" \in DOMAIN ButtonOf /\ ButtonOf["A"] = "A"
  BY DEF ButtonOf
<1>4. "A" \in Buttons(DOMAIN ButtonOf)
  BY <1>3 DEF Buttons
<1> QED
  BY <1>2, <1>4 DEF Hold

\* Whatever is scanned and read, only buttons are held and only keys latched.
THEOREM KpadTypeCorrect == KpadSpec => []KpadTypeOK
<1>1. ASSUME KpadInit PROVE KpadTypeOK
  <2>1. /\ held = {} /\ latched = {} /\ pressed = {} /\ previousHold = {} /\ toldHeld = {}
        /\ sample.hold = {}
    BY <1>1 DEF KpadInit, NoSample
  <2>2. {pointer, clickReady, shakePhase, connected, pointed} \subseteq BOOLEAN
    BY <1>1 DEF KpadInit
  <2> QED
    BY <2>1, <2>2 DEF KpadTypeOK
<1>2. ASSUME KpadIInv, KpadIInv', KpadTypeOK, [KpadNext]_kpadVars PROVE KpadTypeOK'
  <2>1. CASE \E down \in SUBSET HostKey, touch \in Touch : HostFrame(down, touch)
    <3>1. PICK down \in SUBSET HostKey, touch \in Touch : HostFrame(down, touch)
      BY <2>1
    <3>2. /\ held' \subseteq HostKey /\ latched' \subseteq HostKey /\ pressed' \subseteq HostKey
      BY <1>2, <3>1 DEF HostFrame, KpadTypeOK
    <3>3. {pointer', clickReady', shakePhase', connected', pointed'} \subseteq BOOLEAN
      BY <1>2, <3>1 DEF HostFrame, KpadTypeOK
    <3> QED
      BY <1>2, <3>1, <3>2, <3>3 DEF HostFrame, KpadTypeOK
  <2>2. CASE \E changed \in BOOLEAN : KpadRead(changed)
    <3>1. PICK changed \in BOOLEAN : KpadRead(changed)
      BY <2>2
    <3>2. sample'.hold = Hold /\ toldHeld' = Hold
      BY <1>2, <3>1, KpadReadKeeps
    <3>3. previousHold' = Hold
      BY <3>1 DEF KpadRead
    <3>4. {pointer', clickReady', shakePhase', connected', pointed'} \subseteq BOOLEAN
      BY <1>2, <3>1 DEF KpadRead, KpadTypeOK
    <3>5. held' \subseteq HostKey /\ latched' \subseteq HostKey /\ pressed' \subseteq HostKey
      BY <1>2, <3>1 DEF KpadRead, KpadTypeOK
    <3> QED
      BY <1>2, <3>2, <3>3, <3>4, <3>5, HoldIsButtons DEF KpadTypeOK
  <2>3. CASE UNCHANGED kpadVars
    BY <1>2, <2>3 DEF kpadVars, KpadTypeOK
  <2> QED
    BY <1>2, <2>1, <2>2, <2>3 DEF KpadNext, RefuseRead
<1> QED
  BY <1>1, <1>2, KpadInvariance, PTL DEF KpadSpec

(* However many scans of update_host_controller come between two reads of  *)
(* service_kpad_read: every key pressed since the last one is held in the  *)
(* sample, its edges lead from the last sample to this one, and an A from  *)
(* the touchscreen has been a pointer in the picture for two scans.        *)
THEOREM InputIsComplete == KpadSpec => InputComplete
<1> DEFINE Complete ==
        sample' # sample \/ (pressed # {} /\ pressed' = {}) =>
          /\ Buttons(pressed) \subseteq sample'.hold
          /\ toldHeld' = sample'.hold
          /\ "A" \in sample'.hold /\ "A" \notin HostKeys => pointed /\ sample'.pointer
<1>1. KpadIInv /\ [KpadNext]_kpadVars => [Complete]_kpadVars
  <2> SUFFICES ASSUME KpadIInv, [KpadNext]_kpadVars PROVE [Complete]_kpadVars
    OBVIOUS
  <2>1. CASE \E down \in SUBSET HostKey, touch \in Touch : HostFrame(down, touch)
    <3>1. sample' = sample /\ pressed \subseteq pressed'
      BY <2>1 DEF HostFrame
    <3> QED
      BY <3>1
  <2>2. CASE \E changed \in BOOLEAN : KpadRead(changed)
    BY <2>2, SampleComplete
  <2>3. CASE UNCHANGED kpadVars
    BY <2>3
  <2> QED
    BY <2>1, <2>2, <2>3 DEF KpadNext, RefuseRead
<1> QED
  BY <1>1, KpadInvariance, PTL DEF KpadSpec, InputComplete
-----------------------------------------------------------------------------
(* The texture cache, for any maps, images, palettes and copies.           *)
(* ShownFresh speaks of what a draw shows; the invariant says what an      *)
(* entry that may still be shown has for pixels: those of the copy whose   *)
(* generation it bears, or an image of the guest in the palette of now.    *)

Pixels ==
    {NoPixels}
    \cup [source : {"image"}, content : ImageContent, colours : Palette,
          descriptor : Descriptor]
    \cup [source : {"capture"}, content : Drawing, descriptor : Descriptor]

Entry == [valid : BOOLEAN, needsValidation : BOOLEAN, fromCapture : BOOLEAN,
          generation : Nat, pixels : Pixels, capacity : Nat]

ImagesKnown ==
    /\ image \in [ImageAddress -> ImageContent]
    /\ sinceInvalidate \in [ImageAddress -> SUBSET ImageContent]
    /\ \A a \in ImageAddress : image[a] \in sinceInvalidate[a]

CopiesKnown ==
    /\ palette \in Palette /\ efb \in Drawing
    /\ copying \in [address : ImageAddress \cup {0}, pending : BOOLEAN, drawing : Drawing]
    /\ captured \in [generation : 0..MaxCaptures, drawing : Drawing]
    /\ published = captured.drawing
    /\ keys \in [1..KeyCount -> [valid : BOOLEAN, address : ImageAddress \cup {0}]]
    /\ nextKey \in 1..KeyCount

\* An entry made from a copy: what it shows while no later one is published.
CaptureEntry(entry) ==
    /\ entry.pixels.source = "capture"
    /\ entry.generation = captured.generation => entry.pixels.content = captured.drawing

\* An entry made from an image, and what it is taken to be until it is checked.
ImageEntry(entry) ==
    /\ entry.pixels.source = "image" /\ entry.pixels.colours = palette
    /\ ~entry.needsValidation =>
          \E content \in sinceInvalidate[entry.pixels.descriptor.address] :
             Signature(entry.pixels.content) = Signature(content)

EntryFresh(entry) ==
    /\ entry \in Entry /\ entry.generation <= captured.generation
    /\ entry.valid =>
          IF entry.fromCapture THEN CaptureEntry(entry) ELSE ImageEntry(entry)

CacheFresh == cache \in [TextureMap -> Entry] /\ \A m \in TextureMap : EntryFresh(cache[m])

TextureIInv == ImagesKnown /\ CopiesKnown /\ CacheFresh

\* What is true of a new entry, made for a descriptor.
LEMMA MadeFresh ==
    ASSUME TextureIInv, NEW descriptor \in Descriptor, NEW capacity \in Nat,
           NEW entry,
           entry = [valid |-> TRUE, needsValidation |-> FALSE,
                    fromCapture |-> IsCaptured(descriptor.address),
                    generation |-> IF IsCaptured(descriptor.address)
                                   THEN captured.generation ELSE 0,
                    pixels |-> NewPixels(descriptor), capacity |-> capacity]
    PROVE  /\ EntryFresh(entry)
           /\ entry.pixels.descriptor = descriptor
           /\ IF IsCaptured(descriptor.address)
              THEN entry.pixels.source = "capture" /\ entry.pixels.content = published
              ELSE /\ entry.pixels.source = "image" /\ entry.pixels.colours = palette
                   /\ \E content \in sinceInvalidate[descriptor.address] :
                         Signature(entry.pixels.content) = Signature(content)
<1>1. /\ captured.generation \in Nat /\ captured.drawing \in Drawing
      /\ palette \in Palette /\ published = captured.drawing
  BY TextureAssumption DEF TextureIInv, CopiesKnown
<1>2. /\ descriptor.address \in ImageAddress
      /\ image[descriptor.address] \in ImageContent
      /\ image[descriptor.address] \in sinceInvalidate[descriptor.address]
  BY DEF TextureIInv, ImagesKnown, Descriptor
<1>3. IsCaptured(descriptor.address) \in BOOLEAN
  BY DEF IsCaptured
<1>4. CASE IsCaptured(descriptor.address)
  <2>1. NewPixels(descriptor) = [source |-> "capture", content |-> captured.drawing,
                                 descriptor |-> descriptor]
    BY <1>4 DEF NewPixels, FromCapture
  <2>2. NewPixels(descriptor) \in Pixels
    BY <1>1, <2>1 DEF Pixels
  <2>3. entry \in Entry /\ entry.pixels = NewPixels(descriptor)
        /\ entry.generation = captured.generation /\ entry.fromCapture = TRUE
    BY <1>1, <1>4, <2>2 DEF Entry
  <2>4. CaptureEntry(entry)
    BY <2>1, <2>3 DEF CaptureEntry
  <2> QED
    BY <1>1, <1>4, <2>1, <2>3, <2>4 DEF EntryFresh
<1>5. CASE ~IsCaptured(descriptor.address)
  <2>1. NewPixels(descriptor) = [source |-> "image", content |-> image[descriptor.address],
                                 colours |-> palette, descriptor |-> descriptor]
    BY <1>5 DEF NewPixels, FromImage
  <2>2. NewPixels(descriptor) \in Pixels
    BY <1>1, <1>2, <2>1 DEF Pixels
  <2>3. entry \in Entry /\ entry.pixels = NewPixels(descriptor)
        /\ entry.generation = 0 /\ entry.fromCapture = FALSE /\ entry.needsValidation = FALSE
    BY <1>1, <1>3, <1>5, <2>2 DEF Entry
  <2>4. ImageEntry(entry)
    BY <1>2, <2>1, <2>3 DEF ImageEntry
  <2> QED
    BY <1>1, <1>2, <1>5, <2>1, <2>3, <2>4 DEF EntryFresh
<1> QED
  BY <1>4, <1>5

\* What is true of an entry that may be shown as it is.
LEMMA HitFresh ==
    ASSUME TextureIInv, NEW m \in TextureMap, NEW descriptor \in Descriptor,
           Hit(cache[m], descriptor)
    PROVE  /\ EntryFresh([cache[m] EXCEPT !.needsValidation = FALSE])
           /\ cache[m].pixels.descriptor = descriptor
           /\ IF IsCaptured(descriptor.address)
              THEN cache[m].pixels.source = "capture" /\ cache[m].pixels.content = published
              ELSE /\ cache[m].pixels.source = "image" /\ cache[m].pixels.colours = palette
                   /\ \E content \in sinceInvalidate[descriptor.address] :
                         Signature(cache[m].pixels.content) = Signature(content)
<1> DEFINE entry == cache[m]
           shown == [entry EXCEPT !.needsValidation = FALSE]
<1>1. entry \in Entry /\ EntryFresh(entry) /\ published = captured.drawing
  BY DEF TextureIInv, CacheFresh, CopiesKnown
<1>2. entry.valid /\ entry.pixels.descriptor = descriptor
  BY DEF Hit, MadeFor
<1>3. /\ shown \in Entry /\ shown.generation = entry.generation
      /\ shown.fromCapture = entry.fromCapture /\ shown.pixels = entry.pixels
      /\ shown.needsValidation = FALSE /\ shown.valid = entry.valid
  BY <1>1 DEF Entry
<1>4. CASE IsCaptured(descriptor.address)
  <2>1. entry.fromCapture /\ entry.generation = captured.generation
    BY <1>4 DEF Hit
  <2>2. CaptureEntry(entry)
    BY <1>1, <1>2, <2>1 DEF EntryFresh
  <2>3. CaptureEntry(shown)
    BY <1>3, <2>2 DEF CaptureEntry
  <2> HIDE DEF entry, shown
  <2>4. EntryFresh(shown)
    BY <1>1, <1>3, <2>1, <2>3 DEF EntryFresh
  <2> QED
    BY <1>1, <1>2, <1>4, <2>1, <2>2, <2>4 DEF CaptureEntry, entry, shown
<1>5. CASE ~IsCaptured(descriptor.address)
  <2>1. /\ ~entry.fromCapture
        /\ ~entry.needsValidation
           \/ Signature(image[descriptor.address]) = Signature(entry.pixels.content)
    BY <1>5 DEF Hit
  <2>2. ImageEntry(entry)
    BY <1>1, <1>2, <2>1 DEF EntryFresh
  <2>3. image[descriptor.address] \in sinceInvalidate[descriptor.address]
    BY DEF TextureIInv, ImagesKnown, Descriptor
  <2>4. \E content \in sinceInvalidate[descriptor.address] :
           Signature(entry.pixels.content) = Signature(content)
    BY <1>2, <2>1, <2>2, <2>3 DEF ImageEntry
  <2>5. ImageEntry(shown)
    BY <1>2, <1>3, <2>2, <2>4 DEF ImageEntry
  <2> HIDE DEF entry, shown
  <2>6. EntryFresh(shown)
    BY <1>1, <1>3, <2>1, <2>5 DEF EntryFresh
  <2> QED
    BY <1>2, <1>5, <2>2, <2>4, <2>6 DEF ImageEntry, entry, shown
<1> QED
  BY <1>4, <1>5

\* A capture's key is one of the keys.
LEMMA KeyForAKey == ASSUME CopiesKnown, NEW address PROVE KeyFor(address) \in 1..KeyCount
<1>1. \A s \in SUBSET (1..KeyCount) : s # {} =>
         (CHOOSE k \in s : \A l \in s : k <= l) \in 1..KeyCount
  <2> SUFFICES ASSUME NEW s \in SUBSET (1..KeyCount), s # {}
               PROVE  \E k \in s : \A l \in s : k <= l
    OBVIOUS
  <2> QED
    BY LeastElement
<1> QED
  BY <1>1 DEF KeyFor, CopiesKnown

LEMMA TextureInitial == TextureInit => TextureIInv
<1> SUFFICES ASSUME TextureInit PROVE TextureIInv
  OBVIOUS
<1>1. ImageContent # {} /\ Palette # {} /\ Drawing # {}
  <2>1. PICK s \in Sampled, u \in Unsampled : TRUE
    BY TextureAssumption
  <2>2. <<s, u>> \in ImageContent
    BY <2>1 DEF ImageContent
  <2> QED
    BY <2>2, TextureAssumption
<1>2. ImagesKnown
  BY <1>1 DEF TextureInit, ImagesKnown
<1>3. CopiesKnown
  <2>1. efb \in Drawing /\ palette \in Palette /\ NoCopying.drawing \in Drawing
    BY <1>1 DEF TextureInit, NoCopying
  <2>2. KeyCount \in Nat /\ 1 \in 1..KeyCount /\ 0 \in 0..MaxCaptures
    BY TextureAssumption
  <2>3. NoKey \in [valid : BOOLEAN, address : ImageAddress \cup {0}]
    BY DEF NoKey
  <2> QED
    BY <2>1, <2>2, <2>3 DEF TextureInit, CopiesKnown, NoCopying
<1>4. CacheFresh
  <2>1. Uncached \in Entry /\ Uncached.valid = FALSE /\ Uncached.generation = 0
    BY DEF Uncached, Entry, Pixels
  <2>2. cache = [m \in TextureMap |-> Uncached] /\ captured.generation = 0
    BY DEF TextureInit
  <2> QED
    BY <2>1, <2>2 DEF CacheFresh, EntryFresh
<1> QED
  BY <1>2, <1>3, <1>4 DEF TextureIInv

\* What the guest does to its images and its frame buffer.
LEMMA GuestWritesKeep ==
    ASSUME TextureIInv,
           \/ \E address \in ImageAddress, content \in ImageContent :
                 WriteImage(address, content)
           \/ \E drawing \in Drawing : DrawEfb(drawing)
           \/ \E address \in ImageAddress : QueueCapture(address)
    PROVE  TextureIInv'
<1>1. UNCHANGED <<palette, captured, keys, nextKey, cache, published>>
  BY DEF WriteImage, DrawEfb, QueueCapture
<1>2. ImagesKnown' /\ \A a \in ImageAddress : sinceInvalidate[a] \subseteq sinceInvalidate'[a]
  <2>1. ASSUME NEW address \in ImageAddress, NEW content \in ImageContent,
               WriteImage(address, content)
        PROVE  ImagesKnown' /\ \A a \in ImageAddress :
                                  sinceInvalidate[a] \subseteq sinceInvalidate'[a]
    BY <2>1 DEF WriteImage, ImagesKnown, TextureIInv
  <2>2. UNCHANGED <<image, sinceInvalidate>>
            \/ \E address \in ImageAddress, content \in ImageContent :
                  WriteImage(address, content)
    BY DEF DrawEfb, QueueCapture
  <2>3. ASSUME UNCHANGED <<image, sinceInvalidate>>
        PROVE  ImagesKnown' /\ \A a \in ImageAddress :
                                  sinceInvalidate[a] \subseteq sinceInvalidate'[a]
    BY <2>3 DEF ImagesKnown, TextureIInv
  <2> QED
    BY <2>1, <2>2, <2>3
<1>3. CopiesKnown'
  <2>1. CopiesKnown
    BY DEF TextureIInv
  <2>2. efb' \in Drawing
    BY <2>1 DEF CopiesKnown, WriteImage, DrawEfb, QueueCapture
  <2>3. copying' \in [address : ImageAddress \cup {0}, pending : BOOLEAN, drawing : Drawing]
    <3>1. CASE UNCHANGED copying
      BY <2>1, <3>1 DEF CopiesKnown
    <3>2. CASE \E address \in ImageAddress : QueueCapture(address)
      BY <2>1, <3>2 DEF CopiesKnown, QueueCapture
    <3> QED
      BY <3>1, <3>2 DEF WriteImage, DrawEfb
  <2> QED
    BY <1>1, <2>1, <2>2, <2>3 DEF CopiesKnown
<1>4. CacheFresh'
  <2> SUFFICES ASSUME NEW m \in TextureMap PROVE EntryFresh(cache[m])'
    BY <1>1 DEF CacheFresh, TextureIInv
  <2>1. cache[m] \in Entry /\ EntryFresh(cache[m])
    BY DEF CacheFresh, TextureIInv
  <2>2. UNCHANGED <<captured, palette, cache>>
    BY <1>1
  <2>3. CaptureEntry(cache[m]) => CaptureEntry(cache[m])'
    BY <2>2 DEF CaptureEntry
  <2>4. ImageEntry(cache[m]) => ImageEntry(cache[m])'
    <3>1. ASSUME ImageEntry(cache[m]) PROVE cache[m].pixels.descriptor.address \in ImageAddress
      <4>1. cache[m].pixels.source = "image" /\ cache[m].pixels \in Pixels
        BY <2>1, <3>1 DEF ImageEntry, Entry
      <4>2. cache[m].pixels.descriptor \in Descriptor
        BY <4>1 DEF Pixels, NoPixels
      <4> QED
        BY <4>2 DEF Descriptor
    <3> QED
      BY <1>2, <2>2, <3>1 DEF ImageEntry
  <2> QED
    BY <2>1, <2>2, <2>3, <2>4 DEF EntryFresh
<1> QED
  BY <1>2, <1>3, <1>4 DEF TextureIInv

LEMMA InvalidateKeeps == TextureIInv /\ Invalidate => TextureIInv'
<1> SUFFICES ASSUME TextureIInv, Invalidate PROVE TextureIInv'
  OBVIOUS
<1>1. ImagesKnown' /\ CopiesKnown'
  BY DEF Invalidate, ImagesKnown, CopiesKnown, TextureIInv
<1>2. ASSUME NEW m \in TextureMap PROVE cache'[m] \in Entry /\ EntryFresh(cache[m])'
  <2>1. cache[m] \in Entry /\ EntryFresh(cache[m])
    BY DEF CacheFresh, TextureIInv
  <2>2. /\ cache'[m] \in Entry
        /\ cache'[m].valid = cache[m].valid
        /\ cache'[m].valid => cache'[m].needsValidation
        /\ cache'[m].fromCapture = cache[m].fromCapture
        /\ cache'[m].generation = cache[m].generation
        /\ cache'[m].pixels = cache[m].pixels
    BY <2>1 DEF Invalidate, Entry
  <2>3. UNCHANGED <<captured, palette>>
    BY DEF Invalidate
  <2> QED
    BY <2>1, <2>2, <2>3 DEF EntryFresh, CaptureEntry, ImageEntry
<1>3. CacheFresh'
  <2>1. cache' \in [TextureMap -> Entry]
    BY <1>2 DEF Invalidate
  <2> QED
    BY <1>2, <2>1 DEF CacheFresh
<1> QED
  BY <1>1, <1>3 DEF TextureIInv

LEMMA LoadPaletteKeeps ==
    ASSUME TextureIInv, NEW colours \in Palette, LoadPalette(colours)
    PROVE  TextureIInv'
<1>1. ImagesKnown' /\ CopiesKnown'
  BY DEF LoadPalette, ImagesKnown, CopiesKnown, TextureIInv
<1>2. ASSUME NEW m \in TextureMap PROVE cache'[m] \in Entry /\ EntryFresh(cache[m])'
  <2>1. cache[m] \in Entry /\ EntryFresh(cache[m])
    BY DEF CacheFresh, TextureIInv
  <2>2. /\ cache'[m] \in Entry /\ ~cache'[m].valid
        /\ cache'[m].generation = cache[m].generation
    BY <2>1 DEF LoadPalette, Entry
  <2>3. UNCHANGED captured
    BY DEF LoadPalette
  <2> QED
    BY <2>1, <2>2, <2>3 DEF EntryFresh
<1>3. CacheFresh'
  <2>1. cache' \in [TextureMap -> Entry]
    BY <1>2 DEF LoadPalette
  <2> QED
    BY <1>2, <2>1 DEF CacheFresh
<1> QED
  BY <1>1, <1>3 DEF TextureIInv

\* A copy is published under a generation that no entry bears yet.
LEMMA FinishCaptureKeeps == TextureIInv /\ FinishCapture => TextureIInv'
<1> SUFFICES ASSUME TextureIInv, FinishCapture PROVE TextureIInv'
  OBVIOUS
<1>1. /\ captured.generation \in 0..MaxCaptures /\ MaxCaptures \in Nat
      /\ captured.generation < MaxCaptures
      /\ captured'.generation = captured.generation + 1
      /\ captured'.drawing = copying.drawing
      /\ captured' \in [generation : 0..MaxCaptures, drawing : Drawing]
      /\ published' = copying.drawing
      /\ UNCHANGED <<image, palette, efb, cache, sinceInvalidate>>
  BY TextureAssumption DEF TextureIInv, CopiesKnown, FinishCapture
<1>2. ImagesKnown'
  BY <1>1 DEF TextureIInv, ImagesKnown
<1>3. CopiesKnown'
  <2> DEFINE key == KeyFor(copying.address)
             entry == [valid |-> TRUE, address |-> copying.address]
  <2>1. CopiesKnown
    BY DEF TextureIInv
  <2>2. key \in 1..KeyCount
    BY <2>1, KeyForAKey
  <2>3. entry \in [valid : BOOLEAN, address : ImageAddress \cup {0}]
    BY <2>1 DEF CopiesKnown
  <2>4. /\ keys' = [keys EXCEPT ![key] = entry] /\ nextKey' = (key % KeyCount) + 1
        /\ copying' = [copying EXCEPT !.pending = FALSE]
    BY DEF FinishCapture
  <2> HIDE DEF key, entry
  <2>5. nextKey' \in 1..KeyCount
    <3>1. KeyCount \in Nat \ {0} /\ key \in Nat
      BY <2>2, TextureAssumption
    <3>2. key % KeyCount \in 0..KeyCount - 1
      BY <3>1
    <3> QED
      BY <2>4, <3>1, <3>2
  <2>6. keys' \in [1..KeyCount -> [valid : BOOLEAN, address : ImageAddress \cup {0}]]
    BY <2>1, <2>3, <2>4 DEF CopiesKnown
  <2>7. copying' \in [address : ImageAddress \cup {0}, pending : BOOLEAN, drawing : Drawing]
    BY <2>1, <2>4 DEF CopiesKnown
  <2>8. palette' \in Palette /\ efb' \in Drawing /\ published' = captured'.drawing
    BY <1>1, <2>1 DEF CopiesKnown
  <2> QED
    BY <1>1, <2>5, <2>6, <2>7, <2>8 DEF CopiesKnown
<1>4. CacheFresh'
  <2> SUFFICES ASSUME NEW m \in TextureMap PROVE EntryFresh(cache[m])'
    BY <1>1 DEF CacheFresh, TextureIInv
  <2>1. cache[m] \in Entry /\ EntryFresh(cache[m]) /\ cache[m].generation \in Nat
    BY DEF CacheFresh, TextureIInv, Entry
  <2>2. cache[m].generation <= captured'.generation
        /\ cache[m].generation # captured'.generation
    BY <1>1, <2>1 DEF EntryFresh
  <2>3. CaptureEntry(cache[m]) => CaptureEntry(cache[m])'
    BY <1>1, <2>2 DEF CaptureEntry
  <2>4. ImageEntry(cache[m]) => ImageEntry(cache[m])'
    BY <1>1 DEF ImageEntry
  <2> QED
    BY <1>1, <2>1, <2>2, <2>3, <2>4 DEF EntryFresh
<1> QED
  BY <1>2, <1>3, <1>4 DEF TextureIInv

\* What a draw does to the entry of its map.
LEMMA DrawKeeps ==
    ASSUME TextureIInv, NEW map \in TextureMap, NEW descriptor \in Descriptor,
           \/ ShowCached(map, descriptor) \/ MakeTexture(map, descriptor)
           \/ NoMemory(map, descriptor)
    PROVE  TextureIInv'
<1>1. /\ UNCHANGED <<image, palette, efb, copying, captured, keys, nextKey,
                     sinceInvalidate, published>>
      /\ \A m \in TextureMap \ {map} : cache'[m] = cache[m]
      /\ cache \in [TextureMap -> Entry] /\ \A m \in TextureMap : EntryFresh(cache[m])
  BY DEF ShowCached, MakeTexture, NoMemory, TextureIInv, CacheFresh
<1>2. ImagesKnown' /\ CopiesKnown'
  BY <1>1 DEF TextureIInv, ImagesKnown, CopiesKnown
<1>3. \E entry : EntryFresh(entry) /\ cache' = [cache EXCEPT ![map] = entry]
  <2>1. CASE ShowCached(map, descriptor)
    <3>1. EntryFresh([cache[map] EXCEPT !.needsValidation = FALSE])
      BY <2>1, HitFresh DEF ShowCached
    <3> QED
      BY <2>1, <3>1 DEF ShowCached
  <2>2. CASE MakeTexture(map, descriptor)
    <3> DEFINE capacity == IF descriptor.size > cache[map].capacity
                           THEN descriptor.size ELSE cache[map].capacity
               entry == [valid |-> TRUE, needsValidation |-> FALSE,
                         fromCapture |-> IsCaptured(descriptor.address),
                         generation |-> IF IsCaptured(descriptor.address)
                                        THEN captured.generation ELSE 0,
                         pixels |-> NewPixels(descriptor), capacity |-> capacity]
    <3>1. capacity \in Nat
      BY <1>1, TextureAssumption DEF Descriptor, Entry
    <3>2. cache' = [cache EXCEPT ![map] = entry]
      BY <2>2 DEF MakeTexture
    <3> HIDE DEF capacity
    <3>3. EntryFresh(entry)
      BY <3>1, MadeFresh
    <3> QED
      BY <3>2, <3>3
  <2>3. CASE NoMemory(map, descriptor)
    <3> DEFINE kept == IsCaptured(descriptor.address) \/ cache[map].fromCapture
                       \/ ~MadeFor(cache[map], descriptor)
               entry == [cache[map] EXCEPT !.valid = @ /\ kept]
    <3>1. cache[map] \in Entry /\ EntryFresh(cache[map])
      BY <1>1
    <3>2. /\ entry \in Entry /\ (entry.valid => cache[map].valid)
          /\ entry.generation = cache[map].generation
          /\ entry.fromCapture = cache[map].fromCapture
          /\ entry.pixels = cache[map].pixels
          /\ entry.needsValidation = cache[map].needsValidation
      BY <3>1 DEF Entry
    <3>3. cache' = [cache EXCEPT ![map] = entry]
      BY <2>3 DEF NoMemory
    <3> HIDE DEF entry
    <3>4. EntryFresh(entry)
      BY <3>1, <3>2 DEF EntryFresh, CaptureEntry, ImageEntry
    <3> QED
      BY <3>3, <3>4
  <2> QED
    BY <2>1, <2>2, <2>3
<1>4. CacheFresh'
  <2>1. PICK entry : EntryFresh(entry) /\ cache' = [cache EXCEPT ![map] = entry]
    BY <1>3
  <2>2. entry \in Entry
    BY <2>1 DEF EntryFresh
  <2>3. cache' \in [TextureMap -> Entry] /\ cache'[map] = entry
    BY <1>1, <2>1, <2>2
  <2>4. ASSUME NEW m \in TextureMap PROVE EntryFresh(cache[m])'
    <3>1. PICK e : EntryFresh(e) /\ cache'[m] = e
      BY <1>1, <2>1, <2>3
    <3>2. UNCHANGED <<captured, palette, sinceInvalidate>>
      BY <1>1
    <3> QED
      BY <3>1, <3>2 DEF EntryFresh, CaptureEntry, ImageEntry
  <2> QED
    BY <2>3, <2>4 DEF CacheFresh
<1> QED
  BY <1>2, <1>4 DEF TextureIInv

LEMMA TextureStep == TextureIInv /\ [TextureNext]_textureVars => TextureIInv'
<1> SUFFICES ASSUME TextureIInv, [TextureNext]_textureVars PROVE TextureIInv'
  OBVIOUS
<1>1. CASE \/ \E address \in ImageAddress, content \in ImageContent :
                 WriteImage(address, content)
           \/ \E drawing \in Drawing : DrawEfb(drawing)
           \/ \E address \in ImageAddress : QueueCapture(address)
  BY <1>1, GuestWritesKeep
<1>2. CASE Invalidate
  BY <1>2, InvalidateKeeps
<1>3. CASE \E colours \in Palette : LoadPalette(colours)
  BY <1>3, LoadPaletteKeeps
<1>4. CASE FinishCapture
  BY <1>4, FinishCaptureKeeps
<1>5. CASE \E map \in TextureMap, descriptor \in Descriptor :
              \/ ShowCached(map, descriptor) \/ MakeTexture(map, descriptor)
              \/ NoMemory(map, descriptor)
  BY <1>5, DrawKeeps
<1>6. CASE UNCHANGED textureVars
  BY <1>6 DEF textureVars, TextureIInv, ImagesKnown, CopiesKnown, CacheFresh, EntryFresh,
     CaptureEntry, ImageEntry
<1> QED
  BY <1>1, <1>2, <1>3, <1>4, <1>5, <1>6 DEF TextureNext

(* The invariant of the cache, the images and the copies. *)
THEOREM TextureInvariance == TextureSpec => []TextureIInv
  BY TextureInitial, TextureStep, PTL DEF TextureSpec

(* The registers of the cache keep their types; no entry bears the         *)
(* generation of a copy yet to be published.                               *)
THEOREM TextureTypeCorrect == TextureSpec => []TextureTypeOK
<1>1. TextureIInv => TextureTypeOK
  <2> SUFFICES ASSUME TextureIInv PROVE TextureTypeOK
    OBVIOUS
  <2>1. /\ image \in [ImageAddress -> ImageContent] /\ palette \in Palette /\ efb \in Drawing
        /\ copying.pending \in BOOLEAN /\ copying.drawing \in Drawing
        /\ captured.generation \in 0..MaxCaptures /\ captured.drawing \in Drawing
        /\ DOMAIN keys = 1..KeyCount /\ nextKey \in 1..KeyCount
    BY DEF TextureIInv, ImagesKnown, CopiesKnown
  <2>2. ASSUME NEW m \in TextureMap
        PROVE  /\ {cache[m].valid, cache[m].needsValidation, cache[m].fromCapture}
                     \subseteq BOOLEAN
               /\ cache[m].generation \in 0..captured.generation
    <3>1. cache[m] \in Entry /\ cache[m].generation <= captured.generation
      BY DEF TextureIInv, CacheFresh, EntryFresh
    <3>2. /\ cache[m].valid \in BOOLEAN /\ cache[m].needsValidation \in BOOLEAN
          /\ cache[m].fromCapture \in BOOLEAN /\ cache[m].generation \in Nat
      BY <3>1 DEF Entry
    <3> QED
      BY <2>1, <3>1, <3>2, TextureAssumption
  <2> QED
    BY <2>1, <2>2 DEF TextureTypeOK
<1> QED
  BY <1>1, TextureInvariance, PTL

(* prepare_texture never shows a stale texture: whatever order images are  *)
(* written, invalidated and copied over, palettes loaded, and draws made   *)
(* from other addresses or without memory for more pixels.                 *)
THEOREM ShownIsFresh == TextureSpec => ShownFresh
<1> DEFINE Fresh ==
        \A map \in TextureMap, descriptor \in Descriptor :
          ShowCached(map, descriptor) \/ MakeTexture(map, descriptor) =>
             /\ cache'[map].pixels.descriptor = descriptor
             /\ IF IsCaptured(descriptor.address)
                THEN cache'[map].pixels.source = "capture" /\ cache'[map].pixels.content = published
                ELSE /\ cache'[map].pixels.source = "image"
                     /\ cache'[map].pixels.colours = palette
                     /\ \E content \in sinceInvalidate[descriptor.address] :
                           Signature(cache'[map].pixels.content) = Signature(content)
<1>1. TextureIInv /\ [TextureNext]_textureVars => [Fresh]_textureVars
  <2> SUFFICES ASSUME TextureIInv, NEW map \in TextureMap, NEW descriptor \in Descriptor,
                      ShowCached(map, descriptor) \/ MakeTexture(map, descriptor)
               PROVE  /\ cache'[map].pixels.descriptor = descriptor
                      /\ IF IsCaptured(descriptor.address)
                         THEN /\ cache'[map].pixels.source = "capture"
                              /\ cache'[map].pixels.content = published
                         ELSE /\ cache'[map].pixels.source = "image"
                              /\ cache'[map].pixels.colours = palette
                              /\ \E content \in sinceInvalidate[descriptor.address] :
                                    Signature(cache'[map].pixels.content)
                                       = Signature(content)
    OBVIOUS
  <2>1. cache \in [TextureMap -> Entry]
    BY DEF TextureIInv, CacheFresh
  <2>2. CASE ShowCached(map, descriptor)
    <3>1. cache'[map].pixels = cache[map].pixels
      BY <2>1, <2>2 DEF ShowCached, Entry
    <3>2. Hit(cache[map], descriptor)
      BY <2>2 DEF ShowCached
    <3>3. /\ cache[map].pixels.descriptor = descriptor
          /\ IF IsCaptured(descriptor.address)
             THEN cache[map].pixels.source = "capture" /\ cache[map].pixels.content = published
             ELSE /\ cache[map].pixels.source = "image" /\ cache[map].pixels.colours = palette
                  /\ \E content \in sinceInvalidate[descriptor.address] :
                        Signature(cache[map].pixels.content) = Signature(content)
      BY <3>2, HitFresh
    <3> DEFINE shown == cache'[map].pixels
    <3>4. shown = cache[map].pixels
      BY <3>1
    <3> HIDE DEF shown
    <3>5. /\ shown.descriptor = descriptor
          /\ IF IsCaptured(descriptor.address)
             THEN shown.source = "capture" /\ shown.content = published
             ELSE /\ shown.source = "image" /\ shown.colours = palette
                  /\ \E content \in sinceInvalidate[descriptor.address] :
                        Signature(shown.content) = Signature(content)
      BY <3>3, <3>4
    <3> QED
      BY <3>5 DEF shown
  <2>3. CASE MakeTexture(map, descriptor)
    <3> DEFINE capacity == IF descriptor.size > cache[map].capacity
                           THEN descriptor.size ELSE cache[map].capacity
    <3>1. capacity \in Nat
      BY <2>1, TextureAssumption DEF Descriptor, Entry
    <3>2. cache'[map] = [valid |-> TRUE, needsValidation |-> FALSE,
                         fromCapture |-> IsCaptured(descriptor.address),
                         generation |-> IF IsCaptured(descriptor.address)
                                        THEN captured.generation ELSE 0,
                         pixels |-> NewPixels(descriptor), capacity |-> capacity]
      BY <2>1, <2>3 DEF MakeTexture
    <3> HIDE DEF capacity
    <3> QED
      BY <3>1, <3>2, MadeFresh
  <2> QED
    BY <2>2, <2>3
<1> QED
  BY <1>1, TextureInvariance, PTL DEF TextureSpec, ShownFresh
-----------------------------------------------------------------------------
(* A draw command for every layout the registers can describe, every       *)
(* command and every skipped vertex or lost index.  First that the three   *)
(* layouts agree, then that the triangles of a primitive fit its vertices, *)
(* and last the walk itself, whose invariant says how far it has come.     *)

\* A sum of naturals is a natural.
LEMMA SumNat ==
    ASSUME NEW n \in Nat, NEW s \in [1..n -> Nat]
    PROVE  SumOf(s) \in Nat
<1> DEFINE Body(g, t) == IF t = {} THEN 0 ELSE g[t \ {Max(t)}] + s[Max(t)]
           fold == CHOOSE g : g = [t \in SUBSET (1..n) |-> Body(g, t)]
           step == [p \in (1..n) \X Nat |-> p[2] + s[p[1]]]
<1>1. SumOf(s) = fold[1..n]
  BY DEF SumOf, FoldLeft, MapThenFoldSet
<1>2. step \in FoldStep(n, Nat)
  BY DEF FoldStep
<1>3. PICK h \in [SUBSET (1..n) -> Nat] : \A t \in SUBSET (1..n) :
            h[t] = IF t = {} THEN 0 ELSE step[<<Max(t), h[t \ {Max(t)}]>>]
  <2> HIDE DEF step
  <2>1. \E g : FoldOf(g, n, Nat, 0, step)
    BY <1>2, FoldExists
  <2> QED
    BY <2>1 DEF FoldOf
<1>4. ASSUME NEW t \in SUBSET (1..n), t # {} PROVE Max(t) \in 1..n
  BY <1>4, Greatest
<1>5. h = [t \in SUBSET (1..n) |-> Body(h, t)]
  <2>1. ASSUME NEW t \in SUBSET (1..n) PROVE h[t] = Body(h, t)
    BY <1>3, <1>4
  <2> QED
    BY <1>3, <2>1
<1>6. fold = [t \in SUBSET (1..n) |-> Body(fold, t)]
  BY <1>5
<1> HIDE DEF fold
<1>7. FoldsBy(fold, n, Nat, 0, step)
  <2>1. fold[{}] = 0
    BY <1>6
  <2>2. ASSUME NEW t \in SUBSET (1..n), t # {}, fold[t \ {Max(t)}] \in Nat
        PROVE  fold[t] = step[<<Max(t), fold[t \ {Max(t)}]>>]
    BY <1>4, <1>6, <2>2
  <2> QED
    BY <2>1, <2>2 DEF FoldsBy
<1>8. FoldChains(fold, n, Nat, 0, step)
  <2> HIDE DEF step
  <2> QED
    BY <1>2, <1>7, FoldChain
<1> QED
  BY <1>1, <1>8 DEF FoldChains

LEMMA ComponentWidth == ASSUME NEW c \in 0..7 PROVE ComponentSize(c) \in 1..4
  BY DEF ComponentSize

LEMMA ColourWidth == ASSUME NEW c \in 0..7 PROVE ColourSize(c) \in Nat
  BY DEF ColourSize

\* The three ways to the width of an attribute with one index agree.
LEMMA WidthsAgree ==
    ASSUME NEW d \in 0..3, NEW direct \in Nat
    PROVE  /\ AttributeSize(d, direct) \in Nat
           /\ SkipSize(d, direct, 1) = AttributeSize(d, direct)
           /\ ReadSize(d, direct) = AttributeSize(d, direct)
  BY DEF AttributeSize, SkipSize, ReadSize, None, Direct

\* The normal, of which vertex_size and the walks each have a case of their own.
VertexNormal(f) ==
    CASE f.normal.descriptor = None -> 0
      [] f.normal.descriptor = Direct ->
           ComponentSize(f.normal.component) * (IF f.normal.ntb THEN 9 ELSE 3)
      [] OTHER -> (f.normal.descriptor - 1) * NormalIndices(f)

LEMMA NormalsAgree ==
    ASSUME NEW f \in FormatType
    PROVE  /\ VertexNormal(f) \in Nat
           /\ LET normals == IF f.normal.ntb THEN 9 ELSE 3
              IN  SkipSize(f.normal.descriptor, ComponentSize(f.normal.component) * normals,
                           IF f.normal.descriptor >= 2 /\ normals = 9 /\ f.normal.index3
                           THEN 3 ELSE 1)
                  = VertexNormal(f)
           /\ (IF f.normal.descriptor >= 2 /\ f.normal.ntb /\ f.normal.index3
               THEN 3 * ReadSize(f.normal.descriptor, 0)
               ELSE ReadSize(f.normal.descriptor,
                             ComponentSize(f.normal.component)
                             * (IF f.normal.ntb THEN 9 ELSE 3)))
              = VertexNormal(f)
<1>1. f.normal.descriptor \in 0..3 /\ f.normal.ntb \in BOOLEAN /\ f.normal.index3 \in BOOLEAN
  BY DEF FormatType, NormalAttribute
<1>2. ComponentSize(f.normal.component) \in 1..4
  BY ComponentWidth DEF FormatType, NormalAttribute
<1> DEFINE d == f.normal.descriptor
           w == ComponentSize(f.normal.component)
<1> HIDE DEF d, w
<1>3. CASE d = 0
  BY <1>1, <1>2, <1>3 DEF d, w, VertexNormal, SkipSize, ReadSize, None, Direct, NormalIndices
<1>4. CASE d = 1
  BY <1>1, <1>2, <1>4 DEF d, w, VertexNormal, SkipSize, ReadSize, None, Direct, NormalIndices
<1>5. CASE d \in 2..3
  <2>1. CASE f.normal.ntb /\ f.normal.index3
    BY <1>1, <1>5, <2>1 DEF d, VertexNormal, SkipSize, ReadSize, None, Direct, NormalIndices
  <2>2. CASE f.normal.ntb /\ ~f.normal.index3
    BY <1>1, <1>5, <2>2 DEF d, VertexNormal, SkipSize, ReadSize, None, Direct, NormalIndices
  <2>3. CASE ~f.normal.ntb
    BY <1>1, <1>5, <2>3 DEF d, VertexNormal, SkipSize, ReadSize, None, Direct, NormalIndices
  <2> QED
    BY <1>1, <2>1, <2>2, <2>3
<1> QED
  BY <1>1, <1>3, <1>4, <1>5 DEF d

\* The layouts agree on the colours and on the texture coordinates, so that the
\* walks come out where the command ends.
LEMMA LayoutsAgree ==
    ASSUME NEW f \in FormatType
    PROVE  /\ f.matrices \in Nat /\ PositionSize(f) \in Nat /\ EarlySize(f) \in Nat
           /\ FullSize(f) = EarlySize(f)
           /\ VertexSize(f) = f.matrices + PositionSize(f) + EarlySize(f)
<1> DEFINE colour(c) == ColourSize(f.colour[c].component)
           texcoord(t) == ComponentSize(f.texcoord[t].component) * (f.texcoord[t].elements + 1)
           position == ComponentSize(f.position.component) * (f.position.elements + 2)
           colours == [c \in 1..2 |-> AttributeSize(f.colour[c].descriptor, colour(c))]
           texcoords == [t \in 1..8 |-> AttributeSize(f.texcoord[t].descriptor, texcoord(t))]
<1>1. /\ f.matrices \in Nat /\ f.position \in Attribute
      /\ \A c \in 1..2 : f.colour[c] \in Attribute
      /\ \A t \in 1..8 : f.texcoord[t] \in Attribute
  BY DEF FormatType
<1>2. \A a \in Attribute : /\ a.descriptor \in 0..3 /\ a.component \in 0..7
                           /\ a.elements \in 0..1
  BY DEF Attribute
<1>3. \A c \in 1..2 : colour(c) \in Nat /\ f.colour[c].descriptor \in 0..3
  BY <1>1, <1>2, ColourWidth
<1>4. ASSUME NEW t \in 1..8 PROVE texcoord(t) \in Nat /\ f.texcoord[t].descriptor \in 0..3
  <2>1. f.texcoord[t].elements \in 0..1 /\ ComponentSize(f.texcoord[t].component) \in 1..4
    BY <1>1, <1>2, ComponentWidth
  <2> QED
    BY <1>1, <1>2, <2>1
<1>5. position \in Nat /\ f.position.descriptor \in 0..3
  <2>1. f.position.elements \in 0..1 /\ ComponentSize(f.position.component) \in 1..4
    BY <1>1, <1>2, ComponentWidth
  <2> QED
    BY <1>1, <1>2, <2>1
<1> HIDE DEF colour, texcoord, position
<1>6. /\ colours \in [1..2 -> Nat]
      /\ [c \in 1..2 |-> SkipSize(f.colour[c].descriptor, colour(c), 1)] = colours
      /\ [c \in 1..2 |-> ReadSize(f.colour[c].descriptor, colour(c))] = colours
  BY <1>3, WidthsAgree
<1>7. /\ texcoords \in [1..8 -> Nat]
      /\ [t \in 1..8 |-> SkipSize(f.texcoord[t].descriptor, texcoord(t), 1)] = texcoords
      /\ [t \in 1..8 |-> ReadSize(f.texcoord[t].descriptor, texcoord(t))] = texcoords
  BY <1>4, WidthsAgree
<1>8. SumOf(colours) \in Nat /\ SumOf(texcoords) \in Nat
  BY <1>6, <1>7, SumNat
<1>9. EarlySize(f) = VertexNormal(f) + SumOf(colours) + SumOf(texcoords)
  BY <1>6, <1>7, NormalsAgree DEF EarlySize, colour, texcoord
<1>10. FullSize(f) = VertexNormal(f) + SumOf(colours) + SumOf(texcoords)
  BY <1>6, <1>7, NormalsAgree DEF FullSize, colour, texcoord
<1>11. /\ PositionSize(f) = AttributeSize(f.position.descriptor, position)
       /\ PositionSize(f) \in Nat
  BY <1>5, WidthsAgree DEF PositionSize, position
<1>12. VertexSize(f) = f.matrices + PositionSize(f) + VertexNormal(f)
                       + SumOf(colours) + SumOf(texcoords)
  BY <1>11 DEF VertexSize, VertexNormal, colour, texcoord, position
<1> HIDE DEF colours, texcoords
<1>13. VertexNormal(f) \in Nat
  BY NormalsAgree
<1> QED
  BY <1>1, <1>8, <1>9, <1>10, <1>11, <1>12, <1>13
-----------------------------------------------------------------------------
\* Corners that are vertices, and two triangles without a common side, as
\* conditions on numbers.
Between(a, b, c, n) == a \in 0..(n - 1) /\ b \in 0..(n - 1) /\ c \in 0..(n - 1)

Apart(a, b, c, x, y, z) ==
    /\ ~(a = x /\ b = y) /\ ~(a = y /\ b = z) /\ ~(a = z /\ b = x)
    /\ ~(b = x /\ c = y) /\ ~(b = y /\ c = z) /\ ~(b = z /\ c = x)
    /\ ~(c = x /\ a = y) /\ ~(c = y /\ a = z) /\ ~(c = z /\ a = x)

\* The part of BatchWalked that is about triangles.
TrianglesFit(triangles, n) ==
    \A i \in DOMAIN triangles :
       /\ \A corner \in 1..3 : triangles[i][corner] \in 0..(n - 1)
       /\ \A j \in DOMAIN triangles :
             i # j => Sides(triangles[i]) \cap Sides(triangles[j]) = {}

LEMMA SidesApart ==
    ASSUME NEW a, NEW b, NEW c, NEW x, NEW y, NEW z, Apart(a, b, c, x, y, z)
    PROVE  Sides(<<a, b, c>>) \cap Sides(<<x, y, z>>) = {}
  BY DEF Sides, Apart

\* Triangles given by their corners fit if the corners do.
LEMMA CornersFit ==
    ASSUME NEW n \in Nat, NEW m \in Int, NEW triangles, DOMAIN triangles = 1..m,
           NEW A, NEW B, NEW C,
           \A i \in 1..m : triangles[i] = <<A[i], B[i], C[i]>> /\ Between(A[i], B[i], C[i], n),
           \A i, j \in 1..m : i # j => Apart(A[i], B[i], C[i], A[j], B[j], C[j])
    PROVE  TrianglesFit(triangles, n)
<1>1. ASSUME NEW i \in 1..m, NEW corner \in 1..3
      PROVE  triangles[i][corner] \in 0..(n - 1)
  BY DEF Between
<1>2. ASSUME NEW i \in 1..m, NEW j \in 1..m, i # j
      PROVE  Sides(triangles[i]) \cap Sides(triangles[j]) = {}
  <2>1. Apart(A[i], B[i], C[i], A[j], B[j], C[j])
    BY <1>2
  <2>2. Sides(<<A[i], B[i], C[i]>>) \cap Sides(<<A[j], B[j], C[j]>>) = {}
    BY <2>1, SidesApart
  <2> QED
    BY <2>2
<1> QED
  BY <1>1, <1>2 DEF TrianglesFit

LEMMA SingleTriangles == ASSUME NEW n \in Nat PROVE TrianglesFit(Triangles(2, n), n)
<1> DEFINE m == n \div 3
           A == [i \in 1..m |-> 3 * i - 3]
           B == [i \in 1..m |-> 3 * i - 2]
           C == [i \in 1..m |-> 3 * i - 1]
           ts == Triangles(2, n)
<1>1. m \in Int /\ m >= 0 /\ 3 * m <= n
  BY Division
<1>2. ts = [i \in 1..m |-> <<3 * i - 3, 3 * i - 2, 3 * i - 1>>]
  BY DEF Triangles
<1> HIDE DEF m
<1>3. \A i \in 1..m : ts[i] = <<A[i], B[i], C[i]>>
  BY <1>2
<1>4. \A i \in 1..m : Between(A[i], B[i], C[i], n)
  BY <1>1 DEF Between
<1>5. \A i, j \in 1..m : i # j => Apart(A[i], B[i], C[i], A[j], B[j], C[j])
  BY <1>1 DEF Apart
<1>6. DOMAIN ts = 1..m
  BY <1>2
<1>7. m \in Int
  BY <1>1
<1> HIDE DEF A, B, C, ts
<1>8. \A i \in 1..m : ts[i] = <<A[i], B[i], C[i]>> /\ Between(A[i], B[i], C[i], n)
  BY <1>3, <1>4
<1>9. TrianglesFit(ts, n)
  BY <1>5, <1>6, <1>7, <1>8, CornersFit
<1> QED
  BY <1>9 DEF ts

LEMMA FanTriangles == ASSUME NEW n \in Nat PROVE TrianglesFit(Triangles(4, n), n)
<1> DEFINE m == n - 2
           A == [i \in 1..m |-> 0]
           B == [i \in 1..m |-> i]
           C == [i \in 1..m |-> i + 1]
           ts == Triangles(4, n)
<1>1. m \in Int
  OBVIOUS
<1>2. ts = [i \in 1..m |-> <<0, i, i + 1>>]
  BY DEF Triangles
<1>3. \A i \in 1..m : ts[i] = <<A[i], B[i], C[i]>>
  BY <1>2
<1>4. \A i \in 1..m : Between(A[i], B[i], C[i], n)
  BY DEF Between
<1>5. \A i, j \in 1..m : i # j => Apart(A[i], B[i], C[i], A[j], B[j], C[j])
  BY DEF Apart
<1>6. DOMAIN ts = 1..m
  BY <1>2
<1> HIDE DEF m, A, B, C, ts
<1>7. \A i \in 1..m : ts[i] = <<A[i], B[i], C[i]>> /\ Between(A[i], B[i], C[i], n)
  BY <1>3, <1>4
<1>8. TrianglesFit(ts, n)
  BY <1>1, <1>5, <1>6, <1>7, CornersFit
<1> QED
  BY <1>8 DEF ts

LEMMA StripTriangles == ASSUME NEW n \in Nat PROVE TrianglesFit(Triangles(3, n), n)
<1> DEFINE m == n - 2
           A == [i \in 1..m |-> IF i % 2 = 1 THEN i - 1 ELSE i]
           B == [i \in 1..m |-> IF i % 2 = 1 THEN i ELSE i - 1]
           C == [i \in 1..m |-> i + 1]
           ts == Triangles(3, n)
<1>1. m \in Int
  OBVIOUS
<1>2. ts = [i \in 1..m |-> IF i % 2 = 1 THEN <<i - 1, i, i + 1>> ELSE StripTurned(i)]
  BY DEF Triangles
<1>3. \A i \in 1..m : ts[i] = <<A[i], B[i], C[i]>>
  BY <1>2 DEF StripTurned
<1>4. \A i \in 1..m : Between(A[i], B[i], C[i], n)
  BY DEF Between
<1>5. ASSUME NEW i \in 1..m, NEW j \in 1..m, i # j
      PROVE  Apart(A[i], B[i], C[i], A[j], B[j], C[j])
  <2>1. i \in Int /\ j \in Int
    OBVIOUS
  <2>2. PICK p \in Int, q \in Int : i = 2 * p + (i % 2) /\ j = 2 * q + (j % 2)
    BY <2>1, Division
  <2>3. i % 2 \in 0..1 /\ j % 2 \in 0..1
    BY <2>1, Division
  <2>4. CASE i % 2 = 1 /\ j % 2 = 1
    BY <1>5, <2>1, <2>2, <2>4 DEF Apart
  <2>5. CASE i % 2 = 0 /\ j % 2 = 0
    BY <1>5, <2>1, <2>2, <2>5 DEF Apart
  <2>6. CASE i % 2 # j % 2
    BY <2>1, <2>3, <2>6 DEF Apart
  <2> QED
    BY <2>3, <2>4, <2>5, <2>6
<1>6. DOMAIN ts = 1..m
  BY <1>2
<1> HIDE DEF m, A, B, C, ts
<1>7. \A i \in 1..m : ts[i] = <<A[i], B[i], C[i]>> /\ Between(A[i], B[i], C[i], n)
  BY <1>3, <1>4
<1>8. TrianglesFit(ts, n)
  BY <1>1, <1>5, <1>6, <1>7, CornersFit
<1> QED
  BY <1>8 DEF ts

LEMMA QuadTriangles ==
    ASSUME NEW n \in Nat, NEW kind \in {0, 1} PROVE TrianglesFit(Triangles(kind, n), n)
<1> DEFINE quads == n \div 4
           m == IF n % 4 = 3 THEN 2 * quads + 1 ELSE 2 * quads
           first(i) == 4 * ((i - 1) \div 2)
           A == [i \in 1..m |-> first(i)]
           B == [i \in 1..m |-> IF i % 2 = 1 THEN first(i) + 1 ELSE first(i) + 2]
           C == [i \in 1..m |-> IF i % 2 = 1 THEN first(i) + 2 ELSE first(i) + 3]
           halves == [i \in 1..(2 * quads) |->
                        IF i % 2 = 1 THEN <<first(i), first(i) + 1, first(i) + 2>>
                        ELSE <<first(i), first(i) + 2, first(i) + 3>>]
           ts == Triangles(kind, n)
<1>1. /\ quads \in Nat /\ n % 4 \in 0..3 /\ n = 4 * quads + (n % 4)
      /\ m = (IF n % 4 = 3 THEN 2 * quads + 1 ELSE 2 * quads)
      /\ m \in Int /\ m >= 0
  BY Division
<1>2. ts = IF n % 4 = 3 THEN Append(halves, <<n - 3, n - 2, n - 1>>) ELSE halves
  BY DEF Triangles
<1> HIDE DEF quads, ts
\* The half of quad q that comes first has an odd number, the other an even one.
<1>3. ASSUME NEW i \in 1..m
      PROVE  \E q \in 0..quads :
                /\ first(i) = 4 * q
                /\ i % 2 = 1 => i = 2 * q + 1
                /\ i % 2 # 1 => i = 2 * q + 2 /\ q < quads
  <2>1. i - 1 \in Int /\ i \in Int /\ i >= 1 /\ i <= 2 * quads + 1
        /\ (n % 4 # 3 => i <= 2 * quads)
    BY <1>1
  <2> DEFINE q == (i - 1) \div 2
  <2>2. q \in Int /\ (i - 1) % 2 \in 0..1 /\ i - 1 = 2 * q + ((i - 1) % 2)
    BY <2>1, Division
  <2> HIDE DEF q
  <2>3. CASE (i - 1) % 2 = 0
    <3>1. i = 2 * q + 1 /\ q \in 0..quads
      BY <1>1, <2>1, <2>2, <2>3
    <3>2. i % 2 = 1
      BY <2>1, <2>2, <3>1, Quotient
    <3> QED
      BY <3>1, <3>2 DEF q
  <2>4. CASE (i - 1) % 2 = 1
    <3>1. i = 2 * (q + 1) + 0 /\ i = 2 * q + 2 /\ q \in 0..quads /\ q < quads
      BY <1>1, <2>1, <2>2, <2>4
    <3>2. i % 2 = 0
      BY <2>1, <2>2, <3>1, Quotient
    <3> QED
      BY <3>1, <3>2 DEF q
  <2> QED
    BY <2>2, <2>3, <2>4
<1>4. ASSUME NEW i \in 1..(2 * quads)
      PROVE  halves[i] = <<A[i], B[i], C[i]>>
  BY <1>1
<1>5. n % 4 = 3 => <<n - 3, n - 2, n - 1>> = <<A[m], B[m], C[m]>>
  <2> SUFFICES ASSUME n % 4 = 3 PROVE <<n - 3, n - 2, n - 1>> = <<A[m], B[m], C[m]>>
    OBVIOUS
  <2>1. m = 2 * quads + 1 /\ m \in 1..m /\ m \in Int
    BY <1>1
  <2>2. m % 2 = 1 /\ (m - 1) \div 2 = quads
    BY <1>1, <2>1, Quotient
  <2> QED
    BY <1>1, <2>1, <2>2
<1>6. DOMAIN ts = 1..m /\ \A i \in 1..m : ts[i] = <<A[i], B[i], C[i]>>
  <2> HIDE DEF A, B, C
  <2>1. CASE n % 4 = 3
    <3> DEFINE last == <<n - 3, n - 2, n - 1>>
               S == {halves[i] : i \in 1..(2 * quads)} \cup {last}
    <3>1. halves \in Seq(S) /\ last \in S /\ Len(halves) = 2 * quads
      <4>1. DOMAIN halves = 1..(2 * quads) /\ \A i \in 1..(2 * quads) : halves[i] \in S
        OBVIOUS
      <4>2. 2 * quads \in Nat
        BY <1>1
      <4>3. halves = [i \in 1..(2 * quads) |-> halves[i]]
        OBVIOUS
      <4> HIDE DEF halves, last, S
      <4>4. halves \in [1..(2 * quads) -> S]
        BY <4>1, <4>3
      <4>5. halves \in Seq(S) /\ Len(halves) = 2 * quads
        BY <4>2, <4>4
      <4> QED
        BY <4>5 DEF S
    <3>2. m = 2 * quads + 1
      BY <2>1
    <3> HIDE DEF halves, last, S, m
    <3>3. /\ DOMAIN Append(halves, last) = 1..m
          /\ \A i \in 1..(2 * quads) : Append(halves, last)[i] = halves[i]
          /\ Append(halves, last)[m] = last
      BY <1>1, <3>1, <3>2
    <3>4. ts = Append(halves, last)
      BY <1>2, <2>1 DEF last
    <3>5. last = <<A[m], B[m], C[m]>>
      BY <1>5, <2>1 DEF last
    <3>6. \A i \in 1..m : i \in 1..(2 * quads) \/ i = m
      BY <1>1, <3>2
    <3> QED
      BY <1>4, <3>3, <3>4, <3>5, <3>6
  <2>2. CASE n % 4 # 3
    <3>1. ts = halves /\ m = 2 * quads /\ DOMAIN halves = 1..(2 * quads)
      BY <1>2, <2>2
    <3> HIDE DEF halves, m
    <3> QED
      BY <1>4, <3>1
  <2> QED
    BY <2>1, <2>2
\* The corners of the first and of the second half of a quad.
<1>7. ASSUME NEW i \in 1..m
      PROVE  \E p \in 0..quads :
                /\ A[i] = 4 * p
                /\ \/ i = 2 * p + 1 /\ B[i] = 4 * p + 1 /\ C[i] = 4 * p + 2
                   \/ /\ i = 2 * p + 2 /\ p < quads
                      /\ B[i] = 4 * p + 2 /\ C[i] = 4 * p + 3
  <2>1. PICK p \in 0..quads :
              /\ first(i) = 4 * p
              /\ i % 2 = 1 => i = 2 * p + 1
              /\ i % 2 # 1 => i = 2 * p + 2 /\ p < quads
    BY <1>3
  <2> HIDE DEF m, first
  <2>2. A[i] = 4 * p
    BY <2>1
  <2>3. i % 2 = 1 => B[i] = 4 * p + 1 /\ C[i] = 4 * p + 2
    BY <2>1
  <2>4. i % 2 # 1 => B[i] = 4 * p + 2 /\ C[i] = 4 * p + 3
    BY <2>1
  <2> HIDE DEF A, B, C
  <2> QED
    BY <2>1, <2>2, <2>3, <2>4
<1> HIDE DEF m, first, A, B, C
<1>8. ASSUME NEW i \in 1..m PROVE Between(A[i], B[i], C[i], n)
  <2>1. PICK p \in 0..quads :
              /\ A[i] = 4 * p
              /\ \/ i = 2 * p + 1 /\ B[i] = 4 * p + 1 /\ C[i] = 4 * p + 2
                 \/ /\ i = 2 * p + 2 /\ p < quads
                    /\ B[i] = 4 * p + 2 /\ C[i] = 4 * p + 3
    BY <1>7
  <2>2. p \in Int /\ i \in Int /\ i <= m /\ p >= 0 /\ p <= quads
    BY <1>1
  <2>3. C[i] <= n - 1
    BY <1>1, <2>1, <2>2
  <2> QED
    BY <1>1, <2>1, <2>2, <2>3 DEF Between
<1>9. ASSUME NEW i \in 1..m, NEW j \in 1..m, i # j
      PROVE  Apart(A[i], B[i], C[i], A[j], B[j], C[j])
  <2>1. PICK p \in 0..quads :
              /\ A[i] = 4 * p
              /\ \/ i = 2 * p + 1 /\ B[i] = 4 * p + 1 /\ C[i] = 4 * p + 2
                 \/ /\ i = 2 * p + 2 /\ p < quads
                    /\ B[i] = 4 * p + 2 /\ C[i] = 4 * p + 3
    BY <1>7
  <2>2. PICK r \in 0..quads :
              /\ A[j] = 4 * r
              /\ \/ j = 2 * r + 1 /\ B[j] = 4 * r + 1 /\ C[j] = 4 * r + 2
                 \/ /\ j = 2 * r + 2 /\ r < quads
                    /\ B[j] = 4 * r + 2 /\ C[j] = 4 * r + 3
    BY <1>7
  <2>3. p \in Int /\ r \in Int
    BY <1>1
  <2>4. CASE p = r
    BY <1>9, <2>1, <2>2, <2>3, <2>4 DEF Apart
  <2>5. CASE p # r
    BY <2>1, <2>2, <2>3, <2>5 DEF Apart
  <2> QED
    BY <2>4, <2>5
<1>10. m \in Int
  BY <1>1
<1>11. \A i \in 1..m : ts[i] = <<A[i], B[i], C[i]>> /\ Between(A[i], B[i], C[i], n)
  BY <1>6, <1>8
<1>12. \A i, j \in 1..m : i # j => Apart(A[i], B[i], C[i], A[j], B[j], C[j])
  BY <1>9
<1>13. DOMAIN ts = 1..m
  BY <1>6
<1>14. TrianglesFit(ts, n)
  BY <1>10, <1>11, <1>12, <1>13, CornersFit
<1> QED
  BY <1>14 DEF ts

\* Whatever a batch draws, its triangles use its vertices and face one way.
LEMMA TrianglesAlwaysFit ==
    ASSUME NEW kind \in 0..4, NEW n \in Nat PROVE TrianglesFit(Triangles(kind, n), n)
<1>1. kind \in {0, 1} \/ kind = 2 \/ kind = 3 \/ kind = 4
  OBVIOUS
<1> QED
  BY <1>1, QuadTriangles, SingleTriangles, StripTriangles, FanTriangles
-----------------------------------------------------------------------------
\* The bytes of a vertex.
Width == VertexSize(format)

WalkPhase == {"early", "culled", "full", "drawn", "refused"}

\* The vertices behind a walk, of which it has produced those not skipped.
Walked(produced, vertex) ==
    /\ {produced[i] : i \in DOMAIN produced} = (1..(vertex - 1)) \ skipping
    /\ \A i, j \in DOMAIN produced : i < j => produced[i] < produced[j]

BatchShape ==
    /\ format \in FormatType /\ primitive \in 0..4
    /\ count \in 0..MaxCount /\ skipping \subseteq 1..count /\ onScreen \in BOOLEAN
    /\ batch \in [phase : WalkPhase, vertex : 1..(Vertices + 1), offset : Nat,
                   produced : Seq(1..count)]

\* The reasons to give up a batch.
RefusedFor ==
    \/ count > MaxVertices \/ beyond # <<>>
    \/ \E v \in 1..count : Unfetchable(v)

\* The invariant of the proof: a walk is where the vertices behind it end, has
\* produced those of them that are not skipped, and ends where the command does.
BatchIInv ==
    /\ BatchShape
    /\ batch.offset = (batch.vertex - 1) * Width
    /\ Walked(batch.produced, batch.vertex)
    /\ batch.phase \in {"culled", "drawn"} =>
          batch.vertex = Vertices + 1 /\ Vertices * Width = count * Width
    /\ batch.phase = "refused" => RefusedFor

LEMMA Products ==
    ASSUME NEW a \in Nat, NEW b \in Nat, NEW w \in Nat, a <= b
    PROVE  /\ a * w \in Nat /\ b * w \in Nat /\ a * w <= b * w
           /\ (a + 1) * w = a * w + w
           /\ a * w = b * w => a = b \/ w = 0
<1>1. PICK d \in Nat : b = a + d
  <2>1. b - a \in Nat /\ b = a + (b - a)
    OBVIOUS
  <2> QED
    BY <2>1
<1>2. a * w \in Nat /\ b * w \in Nat /\ d * w \in Nat /\ b * w = a * w + d * w
  BY <1>1
<1>3. d * w = 0 => d = 0 \/ w = 0
  BY <1>1
<1> QED
  BY <1>1, <1>2, <1>3

\* What the count and the registers say of a walk.
LEMMA Room ==
    ASSUME BatchShape
    PROVE  /\ count \in Nat /\ MaxVertices \in Nat /\ Vertices \in Nat /\ Vertices <= count
           /\ Width \in Nat /\ Size = Width * count
           /\ Vertices * Width \in Nat /\ count * Width \in Nat
           /\ Vertices # count => count > MaxVertices
<1>1. count \in Nat /\ MaxVertices \in Nat /\ format \in FormatType
  BY BatchAssumption DEF BatchShape
<1>2. Vertices \in Nat /\ Vertices <= count /\ (Vertices # count => count > MaxVertices)
  BY <1>1 DEF Vertices
<1>3. Width \in Nat
  BY <1>1, LayoutsAgree DEF Width
<1>4. Size = Width * count
  BY DEF Size, Width
<1> QED
  BY <1>1, <1>2, <1>3, <1>4

LEMMA BatchInitial == BatchInit => BatchIInv
<1> SUFFICES ASSUME BatchInit PROVE BatchIInv
  OBVIOUS
<1>1. /\ format \in FormatType /\ primitive \in 0..4 /\ count \in 0..MaxCount
      /\ skipping \subseteq 1..count /\ onScreen \in BOOLEAN
      /\ batch = [phase |-> "early", vertex |-> 1, offset |-> 0, produced |-> <<>>]
  <2>1. /\ format \in VertexFormat /\ primitive \in Primitive /\ count \in 0..MaxCount
        /\ skipping \in IF format.position.descriptor > Direct THEN SUBSET (1..count) ELSE {{}}
        /\ onScreen \in BOOLEAN
        /\ batch = [phase |-> "early", vertex |-> 1, offset |-> 0, produced |-> <<>>]
    BY DEF BatchInit, BatchFrom
  <2> QED
    BY <2>1, BatchAssumption
<1>2. Vertices \in Nat
  BY <1>1, BatchAssumption DEF Vertices
<1>3. BatchShape
  BY <1>1, <1>2 DEF BatchShape, WalkPhase
<1>4. batch.vertex = 1 /\ batch.offset = 0 /\ batch.produced = <<>> /\ batch.phase = "early"
  BY <1>1
<1>5. Width \in Nat
  BY <1>3, Room
<1>6. batch.offset = (batch.vertex - 1) * Width
  BY <1>4, <1>5
<1>7. Walked(batch.produced, batch.vertex)
  BY <1>4 DEF Walked
<1> QED
  BY <1>3, <1>4, <1>6, <1>7 DEF BatchIInv

\* The registers and the command stay as they are, and with them what is
\* derived from them.
Fixed == UNCHANGED <<format, primitive, count, skipping, beyond, onScreen>>

LEMMA FixedSizes ==
    ASSUME Fixed
    PROVE  /\ Width' = Width /\ Vertices' = Vertices /\ Size' = Size
           /\ RefusedFor' = RefusedFor
           /\ \A produced, vertex :
                 Walked(produced, vertex)' = Walked(produced, vertex)
  BY DEF Fixed, Width, Vertices, Size, RefusedFor, Unfetchable, Walked

\* A batch is refused with a reason, whatever it was at.
LEMMA RefuseKeeps ==
    ASSUME BatchIInv, RefusedFor, RefuseBatch
    PROVE  BatchIInv'
<1>1. Fixed
  BY DEF RefuseBatch, Fixed
<1>2. /\ Width' = Width /\ Vertices' = Vertices /\ RefusedFor'
      /\ \A produced, vertex : Walked(produced, vertex)' = Walked(produced, vertex)
  BY <1>1, FixedSizes
<1>3. batch \in [phase : WalkPhase, vertex : 1..(Vertices + 1), offset : Nat,
                produced : Seq(1..count)]
  BY DEF BatchIInv, BatchShape
<1>4. batch' = [batch EXCEPT !.phase = "refused"]
  BY DEF RefuseBatch
<1>5. /\ batch'.phase = "refused" /\ batch'.vertex = batch.vertex
      /\ batch'.offset = batch.offset /\ batch'.produced = batch.produced
      /\ batch' \in [phase : WalkPhase, vertex : 1..(Vertices + 1), offset : Nat,
                    produced : Seq(1..count)]
  BY <1>3, <1>4 DEF WalkPhase
<1>6. BatchShape'
  BY <1>1, <1>2, <1>5 DEF BatchIInv, BatchShape, Fixed
<1>7. (batch.offset = (batch.vertex - 1) * Width)'
  BY <1>2, <1>5 DEF BatchIInv
<1>8. Walked(batch.produced, batch.vertex)'
  BY <1>1, <1>5 DEF BatchIInv, Walked, Fixed
<1> QED
  BY <1>2, <1>5, <1>6, <1>7, <1>8 DEF BatchIInv

\* A vertex more behind the walk.
LEMMA WalkedFurther ==
    ASSUME NEW v \in 1..count, NEW produced \in Seq(1..count), Walked(produced, v),
           count \in Nat
    PROVE  LET more == IF v \in skipping THEN produced ELSE Append(produced, v)
           IN  more \in Seq(1..count) /\ Walked(more, v + 1)
<1> DEFINE n == Len(produced)
           longer == Append(produced, v)
<1>1. 1..((v + 1) - 1) = (1..(v - 1)) \cup {v}
  OBVIOUS
<1>2. n \in Nat /\ DOMAIN produced = 1..n /\ \A k \in 1..n : produced[k] \in 1..(v - 1)
  BY DEF Walked
<1>3. CASE v \in skipping
  BY <1>1, <1>3 DEF Walked
<1>4. CASE v \notin skipping
  <2>1. /\ longer \in Seq(1..count) /\ DOMAIN longer = 1..(n + 1)
        /\ \A k \in 1..n : longer[k] = produced[k]
        /\ longer[n + 1] = v
    OBVIOUS
  <2> HIDE DEF longer, n
  <2>2. {longer[k] : k \in DOMAIN longer} = {produced[k] : k \in 1..n} \cup {v}
    <3>1. \A k \in 1..(n + 1) : k \in 1..n \/ k = n + 1
      BY <1>2
    <3>2. n + 1 \in 1..(n + 1) /\ \A k \in 1..n : k \in 1..(n + 1)
      BY <1>2
    <3> QED
      BY <2>1, <3>1, <3>2
  <2>3. {longer[k] : k \in DOMAIN longer} = (1..((v + 1) - 1)) \ skipping
    BY <1>1, <1>2, <1>4, <2>2 DEF Walked
  <2>4. ASSUME NEW j \in 1..(n + 1), NEW k \in 1..(n + 1), j < k
        PROVE  longer[j] < longer[k]
    <3>1. j \in 1..n
      BY <1>2, <2>4
    <3>2. CASE k \in 1..n
      BY <1>2, <2>1, <2>4, <3>1, <3>2 DEF Walked
    <3>3. CASE k = n + 1
      <4>1. longer[j] \in 1..(v - 1) /\ longer[k] = v
        BY <1>2, <2>1, <3>1, <3>3
      <4> QED
        BY <4>1
    <3> QED
      BY <1>2, <3>2, <3>3
  <2>5. Walked(longer, v + 1)
    BY <2>1, <2>3, <2>4 DEF Walked
  <2> QED
    BY <1>4, <2>1, <2>5 DEF longer
<1> QED
  BY <1>3, <1>4

\* One vertex of either walk: it ends within the command, for the widths are
\* those the command was cut off by.
LEMMA WalkKeeps ==
    ASSUME BatchIInv, batch.phase \in {"early", "full"}, batch.vertex <= Vertices,
           NEW width, width = EarlySize(format),
           NEW missing \in BOOLEAN, missing => RefusedFor,
           Walk(width, missing)
    PROVE  BatchIInv'
<1> DEFINE v == batch.vertex
           end == batch.offset + format.matrices + PositionSize(format) + width
           next == [batch EXCEPT
                      !.vertex = @ + 1, !.offset = end,
                      !.produced = IF batch.vertex \in skipping THEN @
                                   ELSE Append(@, batch.vertex)]
           more == IF v \in skipping THEN batch.produced ELSE Append(batch.produced, v)
<1>1. /\ BatchShape /\ batch.offset = (v - 1) * Width /\ Walked(batch.produced, v)
      /\ batch \in [phase : WalkPhase, vertex : 1..(Vertices + 1), offset : Nat,
                    produced : Seq(1..count)]
  BY DEF BatchIInv, BatchShape
<1>2. /\ count \in Nat /\ Vertices \in Nat /\ Vertices <= count /\ Width \in Nat
      /\ Size = Width * count
  BY <1>1, Room
<1>3. v \in 1..Vertices /\ v \in Nat /\ v - 1 \in Nat /\ v \in 1..count
  BY <1>1, <1>2
<1>4. end = v * Width /\ end \in Nat /\ end <= Size
  <2>1. format \in FormatType
    BY <1>1 DEF BatchShape
  <2>2. /\ format.matrices \in Nat /\ PositionSize(format) \in Nat /\ width \in Nat
        /\ Width = format.matrices + PositionSize(format) + width
    BY <2>1, LayoutsAgree DEF Width
  <2> HIDE DEF v
  <2>3. (v - 1) * Width \in Nat /\ ((v - 1) + 1) * Width = (v - 1) * Width + Width
    BY <1>2, <1>3, Products
  <2>4. (v - 1) + 1 = v
    BY <1>3
  <2>5. end = v * Width
    BY <1>1, <2>2, <2>3, <2>4
  <2>6. v <= count
    BY <1>3
  <2>7. v * Width \in Nat /\ v * Width <= count * Width /\ count * Width \in Nat
    BY <1>2, <1>3, <2>6, Products
  <2>8. Width * count = count * Width
    BY <1>2
  <2> QED
    BY <1>2, <2>5, <2>7, <2>8
<1> HIDE DEF end
<1>5. CASE RefuseBatch
  <2>1. RefusedFor
    <3>1. PositionMissing(v) => RefusedFor
      BY DEF PositionMissing, RefusedFor
    <3>2. PositionMissing(v) \/ missing \/ end > Size \/ batch' = next
      BY DEF Walk, end
    <3>3. ~(end > Size)
      BY <1>2, <1>4
    <3>4. batch' = next => batch'.phase = batch.phase
      BY <1>1
    <3>5. batch'.phase = "refused"
      BY <1>1, <1>5 DEF RefuseBatch
    <3> QED
      BY <3>1, <3>2, <3>3, <3>4, <3>5
  <2> QED
    BY <1>5, <2>1, RefuseKeeps
<1>6. CASE batch' = next /\ Fixed
  <2>1. /\ Width' = Width /\ Vertices' = Vertices
    BY <1>6, FixedSizes
  <2>2. more \in Seq(1..count) /\ Walked(more, v + 1)
    BY <1>1, <1>2, <1>3, WalkedFurther
  <2>3. v + 1 \in 1..(Vertices + 1) /\ (v + 1) - 1 = v
    BY <1>2, <1>3
  <2>4. /\ batch'.phase = batch.phase /\ batch'.vertex = v + 1
        /\ batch'.offset = end /\ batch'.produced = more
        /\ batch' \in [phase : WalkPhase, vertex : 1..(Vertices + 1), offset : Nat,
                      produced : Seq(1..count)]
    <3>1. batch' = [batch EXCEPT !.vertex = v + 1, !.offset = end, !.produced = more]
      BY <1>1, <1>6
    <3> HIDE DEF more
    <3> QED
      BY <1>1, <1>4, <2>2, <2>3, <3>1
  <2> HIDE DEF more
  <2>5. BatchShape'
    BY <1>1, <1>6, <2>1, <2>4 DEF BatchShape, Fixed
  <2>6. (batch.offset = (batch.vertex - 1) * Width)'
    BY <1>4, <2>1, <2>3, <2>4
  <2>7. Walked(batch.produced, batch.vertex)'
    <3>1. skipping' = skipping /\ batch'.vertex = v + 1 /\ batch'.produced = more
      BY <1>6, <2>4 DEF Fixed
    <3>2. Walked(more, v + 1)
      BY <2>2
    <3> HIDE DEF v
    <3> QED
      BY <3>1, <3>2 DEF Walked
  <2> QED
    BY <2>4, <2>5, <2>6, <2>7 DEF BatchIInv
<1> QED
  BY <1>5, <1>6 DEF Walk, end, Fixed

LEMMA EarlyVertexKeeps == BatchIInv /\ EarlyVertex => BatchIInv'
<1> SUFFICES ASSUME BatchIInv, EarlyVertex PROVE BatchIInv'
  OBVIOUS
<1> DEFINE width == EarlySize(format)
<1>1. /\ batch.phase \in {"early", "full"} /\ batch.vertex <= Vertices
      /\ Walk(width, FALSE)
  BY DEF EarlyVertex
<1> HIDE DEF width
<1>2. width = EarlySize(format) => BatchIInv'
  BY <1>1, WalkKeeps
<1> QED
  BY <1>2 DEF width

LEMMA FullVertexKeeps == BatchIInv /\ FullVertex => BatchIInv'
<1> SUFFICES ASSUME BatchIInv, FullVertex PROVE BatchIInv'
  OBVIOUS
<1> DEFINE width == FullSize(format)
           missing == Unfetchable(batch.vertex)
<1>1. /\ batch.phase \in {"early", "full"} /\ batch.vertex <= Vertices
      /\ Walk(width, missing)
  BY DEF FullVertex
<1>2. width = EarlySize(format)
  BY LayoutsAgree DEF BatchIInv, BatchShape
<1>3. missing \in BOOLEAN /\ (missing => RefusedFor)
  <2>1. batch.vertex \in 1..count
    <3>1. /\ batch.vertex \in 1..(Vertices + 1)
          /\ count \in Nat /\ Vertices \in Nat /\ Vertices <= count
      BY Room DEF BatchIInv, BatchShape
    <3> QED
      BY <1>1, <3>1
  <2>2. missing \in BOOLEAN
    BY DEF Unfetchable
  <2> QED
    BY <2>1, <2>2 DEF RefusedFor
<1> HIDE DEF width, missing
<1> QED
  BY <1>1, <1>2, <1>3, WalkKeeps

\* The end of a walk: all vertices there is room for have been walked, and the
\* command ends there unless there were more.
LEMMA WalkDone ==
    ASSUME BatchIInv, batch.vertex > Vertices
    PROVE  /\ batch.vertex = Vertices + 1
           /\ batch.offset # Size => RefusedFor
           /\ batch.offset = Size => Vertices * Width = count * Width
<1>1. /\ BatchShape /\ batch.vertex \in 1..(Vertices + 1)
      /\ batch.offset = (batch.vertex - 1) * Width
  BY DEF BatchIInv, BatchShape
<1>2. /\ count \in Nat /\ Vertices \in Nat /\ Width \in Nat /\ Size = Width * count
      /\ (Vertices # count => count > MaxVertices)
  BY <1>1, Room
<1>3. batch.vertex = Vertices + 1
  BY <1>1, <1>2
<1>4. batch.offset = Vertices * Width /\ Size = count * Width
  BY <1>1, <1>2, <1>3
<1> QED
  BY <1>2, <1>3, <1>4 DEF RefusedFor

LEMMA EarlyDoneKeeps == BatchIInv /\ EarlyDone => BatchIInv'
<1> SUFFICES ASSUME BatchIInv, EarlyDone PROVE BatchIInv'
  OBVIOUS
<1>1. /\ batch.vertex = Vertices + 1 /\ (batch.offset # Size => RefusedFor)
      /\ (batch.offset = Size => Vertices * Width = count * Width)
  BY WalkDone DEF EarlyDone
<1>2. CASE batch.offset # Size
  BY <1>1, <1>2, RefuseKeeps DEF EarlyDone
<1>3. CASE batch.offset = Size
  <2>1. Fixed
    BY <1>3 DEF EarlyDone, Fixed
  <2>2. Width' = Width /\ Vertices' = Vertices
    BY <2>1, FixedSizes
  <2>3. /\ BatchShape /\ Vertices \in Nat /\ Width \in Nat
        /\ batch \in [phase : WalkPhase, vertex : 1..(Vertices + 1), offset : Nat,
                      produced : Seq(1..count)]
    BY Room DEF BatchIInv, BatchShape
  <2>4. CASE batch' = [phase |-> "full", vertex |-> 1, offset |-> 0, produced |-> <<>>]
    <3>1. /\ batch'.phase = "full" /\ batch'.vertex = 1 /\ batch'.offset = 0
          /\ batch'.produced = <<>>
          /\ batch' \in [phase : WalkPhase, vertex : 1..(Vertices + 1), offset : Nat,
                        produced : Seq(1..count)]
      BY <2>3, <2>4 DEF WalkPhase
    <3>2. BatchShape'
      BY <2>1, <2>2, <2>3, <3>1 DEF BatchShape, Fixed
    <3>3. (batch.offset = (batch.vertex - 1) * Width)'
      BY <2>2, <2>3, <3>1
    <3>4. Walked(batch.produced, batch.vertex)'
      BY <3>1 DEF Walked
    <3> QED
      BY <3>1, <3>2, <3>3, <3>4 DEF BatchIInv
  <2>5. CASE batch' = [batch EXCEPT !.phase = "culled"]
    <3>1. /\ batch'.phase = "culled" /\ batch'.vertex = batch.vertex
          /\ batch'.offset = batch.offset /\ batch'.produced = batch.produced
          /\ batch' \in [phase : WalkPhase, vertex : 1..(Vertices + 1), offset : Nat,
                        produced : Seq(1..count)]
      BY <2>3, <2>5 DEF WalkPhase
    <3>2. BatchShape'
      BY <2>1, <2>2, <2>3, <3>1 DEF BatchShape, Fixed
    <3>3. (batch.offset = (batch.vertex - 1) * Width)'
      BY <2>2, <3>1 DEF BatchIInv
    <3>4. Walked(batch.produced, batch.vertex)'
      BY <2>1, <3>1 DEF BatchIInv, Walked, Fixed
    <3>5. (batch.vertex = Vertices + 1 /\ Vertices * Width = count * Width)'
      BY <1>1, <1>3, <2>1, <2>2, <3>1 DEF Fixed
    <3> QED
      BY <3>1, <3>2, <3>3, <3>4, <3>5 DEF BatchIInv
  <2> QED
    BY <1>3, <2>4, <2>5 DEF EarlyDone
<1> QED
  BY <1>2, <1>3

LEMMA FullDoneKeeps == BatchIInv /\ FullDone => BatchIInv'
<1> SUFFICES ASSUME BatchIInv, FullDone PROVE BatchIInv'
  OBVIOUS
<1>1. /\ batch.vertex = Vertices + 1 /\ (batch.offset # Size => RefusedFor)
      /\ (batch.offset = Size => Vertices * Width = count * Width)
  BY WalkDone DEF FullDone
<1>2. CASE batch.offset # Size
  BY <1>1, <1>2, RefuseKeeps DEF FullDone
<1>3. CASE batch.offset = Size
  <2>1. Fixed /\ batch' = [batch EXCEPT !.phase = "drawn"]
    BY <1>3 DEF FullDone, Fixed
  <2>2. Width' = Width /\ Vertices' = Vertices
    BY <2>1, FixedSizes
  <2>3. /\ BatchShape
        /\ batch \in [phase : WalkPhase, vertex : 1..(Vertices + 1), offset : Nat,
                      produced : Seq(1..count)]
    BY DEF BatchIInv, BatchShape
  <2>4. /\ batch'.phase = "drawn" /\ batch'.vertex = batch.vertex
        /\ batch'.offset = batch.offset /\ batch'.produced = batch.produced
        /\ batch' \in [phase : WalkPhase, vertex : 1..(Vertices + 1), offset : Nat,
                      produced : Seq(1..count)]
    BY <2>1, <2>3 DEF WalkPhase
  <2>5. BatchShape'
    BY <2>1, <2>2, <2>3, <2>4 DEF BatchShape, Fixed
  <2>6. (batch.offset = (batch.vertex - 1) * Width)'
    BY <2>2, <2>4 DEF BatchIInv
  <2>7. Walked(batch.produced, batch.vertex)'
    BY <2>1, <2>4 DEF BatchIInv, Walked, Fixed
  <2>8. (batch.vertex = Vertices + 1 /\ Vertices * Width = count * Width)'
    BY <1>1, <1>3, <2>1, <2>2, <2>4 DEF Fixed
  <2> QED
    BY <2>4, <2>5, <2>6, <2>7, <2>8 DEF BatchIInv
<1> QED
  BY <1>2, <1>3

LEMMA BatchStep == BatchIInv /\ [BatchNext]_batchVars => BatchIInv'
<1>1. BatchIInv /\ UNCHANGED batchVars => BatchIInv'
  BY DEF batchVars, BatchIInv, BatchShape, Walked, RefusedFor, Unfetchable, Width, Vertices
<1> QED
  BY <1>1, EarlyVertexKeeps, EarlyDoneKeeps, FullVertexKeeps, FullDoneKeeps DEF BatchNext

\* A walk is where its vertices end, and has produced those not skipped.
THEOREM BatchInvariance == BatchSpec => []BatchIInv
  BY BatchInitial, BatchStep, PTL DEF BatchSpec

\* A walk stays within its command and its vertices.
THEOREM BatchTypeCorrect == BatchSpec => []BatchTypeOK
<1>1. BatchIInv => BatchTypeOK
  <2> SUFFICES ASSUME BatchIInv PROVE BatchTypeOK
    OBVIOUS
  <2>1. /\ BatchShape /\ batch.offset = (batch.vertex - 1) * Width
        /\ batch.vertex \in 1..(Vertices + 1) /\ batch.phase \in WalkPhase
        /\ batch.produced \in Seq(1..count)
    BY DEF BatchIInv, BatchShape
  <2>2. /\ count \in Nat /\ Vertices \in Nat /\ Vertices <= count /\ Width \in Nat
        /\ Size = Width * count
    BY <2>1, Room
  <2>3. batch.vertex - 1 \in Nat /\ batch.vertex - 1 <= count
    BY <2>1, <2>2
  <2>4. /\ (batch.vertex - 1) * Width \in Nat
        /\ (batch.vertex - 1) * Width <= count * Width /\ count * Width \in Nat
    BY <2>2, <2>3, Products
  <2>5. Width * count = count * Width
    BY <2>2
  <2>6. batch.offset \in 0..Size
    BY <2>1, <2>2, <2>4, <2>5
  <2> QED
    BY <2>1, <2>6 DEF BatchTypeOK, BatchShape, WalkPhase
<1> QED
  BY <1>1, BatchInvariance, PTL

\* For every layout the registers can describe and every command, a batch is
\* given up only for a reason, what is drawn are its vertices, in their order,
\* and the triangles use them and face one way.
THEOREM BatchesAreWalked == BatchSpec => []BatchWalked
<1>1. BatchIInv => BatchWalked
  <2> SUFFICES ASSUME BatchIInv PROVE BatchWalked
    OBVIOUS
  <2> DEFINE drawn == batch.produced
             n == Len(drawn)
             triangles == Triangles(primitive, n)
  <2>1. /\ BatchShape /\ primitive \in 0..4 /\ drawn \in Seq(1..count)
    BY DEF BatchIInv, BatchShape
  <2>2. /\ count \in Nat /\ Vertices \in Nat /\ Vertices <= count /\ Width \in Nat
    BY <2>1, Room
  <2>3. batch.phase = "refused" =>
              \/ count > MaxVertices \/ beyond # <<>>
              \/ \E v \in 1..count : Unfetchable(v)
    BY DEF BatchIInv, RefusedFor
  <2>4. batch.phase \in {"culled", "drawn"} =>
              /\ {drawn[i] : i \in DOMAIN drawn} = (1..Vertices) \ skipping
              /\ \A i, j \in DOMAIN drawn : i < j => drawn[i] < drawn[j]
              /\ Vertices = count \/ VertexSize(format) = 0
    <3> SUFFICES ASSUME batch.phase \in {"culled", "drawn"}
                 PROVE  /\ {drawn[i] : i \in DOMAIN drawn} = (1..Vertices) \ skipping
                        /\ \A i, j \in DOMAIN drawn : i < j => drawn[i] < drawn[j]
                        /\ Vertices = count \/ VertexSize(format) = 0
      OBVIOUS
    <3>1. /\ Walked(drawn, batch.vertex) /\ batch.vertex = Vertices + 1
          /\ Vertices * Width = count * Width
      BY DEF BatchIInv
    <3>2. batch.vertex - 1 = Vertices
      BY <2>2, <3>1
    <3>3. Vertices = count \/ Width = 0
      BY <2>2, <3>1, Products
    <3> QED
      BY <3>1, <3>2, <3>3 DEF Walked, Width
  <2>5. TrianglesFit(triangles, n)
    <3>1. n \in Nat
      BY <2>1
    <3> HIDE DEF n
    <3> QED
      BY <2>1, <3>1, TrianglesAlwaysFit
  <2> HIDE DEF triangles
  <2>6. \A i \in DOMAIN triangles :
           /\ \A corner \in 1..3 : triangles[i][corner] \in 0..(n - 1)
           /\ \A j \in DOMAIN triangles :
                 i # j => Sides(triangles[i]) \cap Sides(triangles[j]) = {}
    BY <2>5 DEF TrianglesFit
  <2> QED
    BY <2>3, <2>4, <2>6 DEF BatchWalked, triangles
<1> QED
  BY <1>1, BatchInvariance, PTL
-----------------------------------------------------------------------------
(* The FIFO for any sizes, any display lists and any stream.               *)

\* Bytes still to be decoded, with the registers; and what may be given as
\* the effect of the display lists.
At == [rest : Seq(FifoByte), regs : Registers]
ListEffect == [FifoByte \X Registers -> Registers]

\* The run of nops at the beginning ends where the stream or the nops do.
EndsRun(bytes, n) ==
    /\ \A i \in 1 .. n : bytes[i] = Nop
    /\ n = Len(bytes) \/ bytes[n + 1] # Nop

LEMMA RunOfNops ==
    ASSUME NEW bytes \in Seq(FifoByte), bytes # <<>>, bytes[1] = Nop
    PROVE  /\ NopRun(bytes) \in 1 .. Len(bytes) /\ EndsRun(bytes, NopRun(bytes))
           /\ \A n \in 1 .. Len(bytes) : EndsRun(bytes, n) => n = NopRun(bytes)
<1> DEFINE T == {n \in 1 .. Len(bytes) : n = Len(bytes) \/ bytes[n + 1] # Nop}
<1>1. Len(bytes) \in Nat \ {0}
  OBVIOUS
<1>2. T \in SUBSET Nat /\ T # {}
  <2>1. Len(bytes) \in T
    BY <1>1
  <2> QED
    BY <2>1
<1>3. PICK m \in T : \A k \in T : m <= k
  <2> HIDE DEF T
  <2> QED
    BY <1>2, LeastElement
<1>4. m \in 1 .. Len(bytes)
  BY <1>3
<1>5. ASSUME NEW i \in 1 .. m PROVE bytes[i] = Nop
  <2>1. CASE i = 1
    BY <2>1
  <2>2. CASE i # 1
    <3>1. i - 1 \in 1 .. Len(bytes) /\ ~(m <= i - 1) /\ i - 1 # Len(bytes) /\ (i - 1) + 1 = i
      BY <1>1, <1>4, <1>5, <2>2
    <3>2. i - 1 \notin T
      BY <1>3, <3>1
    <3> QED
      BY <3>1, <3>2
  <2> QED
    BY <2>1, <2>2
<1>6. EndsRun(bytes, m)
  BY <1>3, <1>5 DEF EndsRun
<1>7. NopRun(bytes) \in 1 .. Len(bytes) /\ EndsRun(bytes, NopRun(bytes))
  BY <1>4, <1>6 DEF NopRun, EndsRun
<1>8. ASSUME NEW a \in 1 .. Len(bytes), NEW b \in 1 .. Len(bytes),
             EndsRun(bytes, a), EndsRun(bytes, b), a < b
      PROVE  FALSE
  <2>1. a # Len(bytes) /\ a + 1 \in 1 .. b
    BY <1>1, <1>8
  <2> QED
    BY <1>8, <2>1 DEF EndsRun
<1>9. ASSUME NEW n \in 1 .. Len(bytes), EndsRun(bytes, n) PROVE n = NopRun(bytes)
  <2>1. ~(n < NopRun(bytes)) /\ ~(NopRun(bytes) < n)
    BY <1>7, <1>8, <1>9
  <2> QED
    BY <1>7, <2>1
<1> QED
  BY <1>7, <1>9

\* decode_one, one kind of command after the other.
LEMMA DecodeCases ==
    ASSUME NEW bytes \in Seq(FifoByte), bytes # <<>>, NEW r \in Registers,
           NEW lists \in ListEffect
    PROVE  LET first == DecodeOne(bytes, r, lists)
           IN  /\ bytes[1] = Nop => first = Decoded(NopRun(bytes), r)
               /\ bytes[1] # Nop /\ Len(bytes) < 2 => first = Decoded(0, r)
               /\ bytes[1] = Cp /\ ~(Len(bytes) < 2)
                    => first = Decoded(2, [r EXCEPT !.stride = bytes[2]])
               /\ bytes[1] = Bp /\ ~(Len(bytes) < 2)
                    => first = Decoded(2, LoadBp(r, bytes[2]))
               /\ bytes[1] = Call /\ ~(Len(bytes) < 2)
                    => first = Decoded(2, lists[<<bytes[2], r>>])
               /\ bytes[1] = Draw /\ ~(Len(bytes) < 2) /\ ~(DrawSize(r, bytes[2]) <= Capacity)
                    => first = Decoded(1, [r EXCEPT !.unknown = r.unknown + 1])
               /\ bytes[1] = Draw /\ ~(Len(bytes) < 2)
                  /\ DrawSize(r, bytes[2]) <= Capacity /\ Len(bytes) < DrawSize(r, bytes[2])
                    => first = Decoded(0, r)
               /\ bytes[1] = Draw /\ ~(Len(bytes) < 2)
                  /\ DrawSize(r, bytes[2]) <= Capacity /\ ~(Len(bytes) < DrawSize(r, bytes[2]))
                    => first = Decoded(DrawSize(r, bytes[2]),
                                       [r EXCEPT !.drawn =
                                          Append(r.drawn, SubSeq(bytes, 3, DrawSize(r, bytes[2])))])
<1>1. Head(bytes) = bytes[1] /\ bytes[1] \in FifoByte
  OBVIOUS
<1> USE DEF Nop, Cp, Bp, Draw, Call
<1>2. bytes[1] = Nop => DecodeOne(bytes, r, lists) = Decoded(NopRun(bytes), r)
  BY <1>1 DEF DecodeOne
<1>4. bytes[1] # Nop /\ Len(bytes) < 2 => DecodeOne(bytes, r, lists) = Decoded(0, r)
  BY <1>1 DEF DecodeOne
<1>5. bytes[1] = Cp /\ ~(Len(bytes) < 2)
        => DecodeOne(bytes, r, lists) = Decoded(2, [r EXCEPT !.stride = bytes[2]])
  BY <1>1 DEF DecodeOne
<1>6. bytes[1] = Bp /\ ~(Len(bytes) < 2)
        => DecodeOne(bytes, r, lists) = Decoded(2, LoadBp(r, bytes[2]))
  BY <1>1 DEF DecodeOne
<1>7. bytes[1] = Call /\ ~(Len(bytes) < 2)
        => DecodeOne(bytes, r, lists) = Decoded(2, lists[<<bytes[2], r>>])
  BY <1>1 DEF DecodeOne
<1>8. bytes[1] = Draw /\ ~(Len(bytes) < 2) /\ ~(DrawSize(r, bytes[2]) <= Capacity)
        => DecodeOne(bytes, r, lists) = Decoded(1, [r EXCEPT !.unknown = r.unknown + 1])
  BY <1>1 DEF DecodeOne
<1>9. ASSUME bytes[1] = Draw, ~(Len(bytes) < 2), DrawSize(r, bytes[2]) <= Capacity
      PROVE  DecodeOne(bytes, r, lists) =
                IF Len(bytes) < DrawSize(r, bytes[2]) THEN Decoded(0, r)
                ELSE Decoded(DrawSize(r, bytes[2]),
                             [r EXCEPT !.drawn =
                                Append(r.drawn, SubSeq(bytes, 3, DrawSize(r, bytes[2])))])
  BY <1>1, <1>9 DEF DecodeOne
<1> QED
  BY <1>2, <1>4, <1>5, <1>6, <1>7, <1>8, <1>9

\* The registers after a draw, and after one that can never be complete.
AfterHuge(r) == [r EXCEPT !.unknown = r.unknown + 1]
AfterDraw(r, bytes, size) == [r EXCEPT !.drawn = Append(r.drawn, SubSeq(bytes, 3, size))]

LEMMA DecodeDraw ==
    ASSUME NEW bytes \in Seq(FifoByte), bytes # <<>>, NEW r \in Registers,
           NEW lists \in ListEffect, NEW size, size = DrawSize(r, bytes[2]),
           bytes[1] = Draw, ~(Len(bytes) < 2), size <= Capacity, ~(Len(bytes) < size)
    PROVE  DecodeOne(bytes, r, lists) = Decoded(size, AfterDraw(r, bytes, size))
<1>1. DecodeOne(bytes, r, lists)
        = Decoded(DrawSize(r, bytes[2]),
                  [r EXCEPT !.drawn =
                     Append(r.drawn, SubSeq(bytes, 3, DrawSize(r, bytes[2])))])
  BY DecodeCases
<1> QED
  BY <1>1 DEF AfterDraw

LEMMA DecodeHuge ==
    ASSUME NEW bytes \in Seq(FifoByte), bytes # <<>>, NEW r \in Registers,
           NEW lists \in ListEffect, bytes[1] = Draw, ~(Len(bytes) < 2),
           ~(DrawSize(r, bytes[2]) <= Capacity)
    PROVE  DecodeOne(bytes, r, lists) = Decoded(1, AfterHuge(r))
<1>1. DecodeOne(bytes, r, lists) = Decoded(1, [r EXCEPT !.unknown = r.unknown + 1])
  BY DecodeCases
<1> QED
  BY <1>1 DEF AfterHuge

LEMMA DrawSizes ==
    ASSUME NEW r \in Registers, NEW vertices \in FifoByte
    PROVE  DrawSize(r, vertices) \in Nat /\ DrawSize(r, vertices) >= 2
<1>1. r.stride \in Nat /\ vertices \in Nat
  BY DEF Registers, FifoByte
<1>2. \A a, b \in Nat : a * b \in Nat
  OBVIOUS
<1>3. r.stride * vertices \in Nat
  BY <1>1, <1>2
<1> QED
  BY <1>3 DEF DrawSize

LEMMA LoadBpTyped ==
    ASSUME NEW r \in Registers, NEW value \in FifoByte
    PROVE  LoadBp(r, value) \in Registers
<1> DEFINE token == IF r.masked THEN r.token ELSE value
           done == token = DrawDoneToken
           dones == IF done THEN r.dones + 1 ELSE r.dones
<1>1. token \in FifoByte /\ dones \in Nat /\ (r.finish \/ done) \in BOOLEAN
  BY DEF Registers
<1>2. LoadBp(r, value) = IF value = BpMask THEN [r EXCEPT !.masked = TRUE]
          ELSE [r EXCEPT !.masked = FALSE, !.token = token,
                         !.finish = r.finish \/ done, !.dones = dones]
  BY DEF LoadBp
<1> HIDE DEF token, done, dones
<1>3. [r EXCEPT !.masked = TRUE] \in Registers
  BY DEF Registers
<1>4. [r EXCEPT !.masked = FALSE, !.token = token, !.finish = r.finish \/ done,
                !.dones = dones] \in Registers
  BY <1>1 DEF Registers
<1> QED
  BY <1>2, <1>3, <1>4

LEMMA FieldsTyped ==
    ASSUME NEW r \in Registers, NEW value \in FifoByte, NEW vertices \in Seq(FifoByte)
    PROVE  /\ [r EXCEPT !.stride = value] \in Registers
           /\ [r EXCEPT !.unknown = r.unknown + 1] \in Registers
           /\ [r EXCEPT !.drawn = Append(r.drawn, vertices)] \in Registers
<1>1. Append(r.drawn, vertices) \in Seq(Seq(FifoByte))
  <2> DEFINE S == Seq(FifoByte)
  <2>1. r.drawn \in Seq(S) /\ vertices \in S
    BY DEF Registers
  <2> HIDE DEF S
  <2>2. Append(r.drawn, vertices) \in Seq(S)
    BY <2>1, AppendProperties
  <2> QED
    BY <2>2 DEF S
<1>2. r.unknown + 1 \in Nat
  BY DEF Registers
<1> QED
  BY <1>1, <1>2 DEF Registers

\* A command is not longer than the bytes it was found in, and one that is
\* not complete leaves the registers.
LEMMA DecodeTyped ==
    ASSUME NEW bytes \in Seq(FifoByte), bytes # <<>>, NEW r \in Registers,
           NEW lists \in ListEffect
    PROVE  /\ DecodeOne(bytes, r, lists).size \in 0 .. Len(bytes)
           /\ DecodeOne(bytes, r, lists).regs \in Registers
<1> DEFINE first == DecodeOne(bytes, r, lists)
           Fits(d) == d.size \in 0 .. Len(bytes) /\ d.regs \in Registers
<1>1. bytes[1] \in FifoByte /\ Len(bytes) \in Nat \ {0}
  OBVIOUS
<1>2. \A n \in 0 .. Len(bytes), q \in Registers : Fits(Decoded(n, q))
  BY DEF Decoded
<1> SUFFICES Fits(first)
  OBVIOUS
<1> HIDE DEF first, Fits
<1>3. CASE bytes[1] = Nop
  <2>1. NopRun(bytes) \in 0 .. Len(bytes)
    BY <1>3, RunOfNops
  <2>2. first = Decoded(NopRun(bytes), r)
    BY <1>3, DecodeCases DEF first
  <2> QED
    BY <1>2, <2>1, <2>2
<1>4. CASE bytes[1] # Nop /\ Len(bytes) < 2
  <2>1. first = Decoded(0, r)
    BY <1>4, DecodeCases DEF first
  <2> QED
    BY <1>1, <1>2, <2>1
<1>5. CASE bytes[1] # Nop /\ ~(Len(bytes) < 2)
  <2>1. bytes[2] \in FifoByte /\ 2 \in 0 .. Len(bytes) /\ 1 \in 0 .. Len(bytes) /\ 0 \in 0 .. Len(bytes)
    BY <1>1, <1>5
  <2>2. CASE bytes[1] = Cp
    <3>1. first = Decoded(2, [r EXCEPT !.stride = bytes[2]])
      BY <1>5, <2>2, DecodeCases DEF first
    <3>2. [r EXCEPT !.stride = bytes[2]] \in Registers
      BY <2>1, FieldsTyped
    <3> QED
      BY <1>2, <2>1, <3>1, <3>2
  <2>3. CASE bytes[1] = Bp
    <3>1. first = Decoded(2, LoadBp(r, bytes[2]))
      BY <1>5, <2>3, DecodeCases DEF first
    <3> QED
      BY <1>2, <2>1, <3>1, LoadBpTyped
  <2>4. CASE bytes[1] = Call
    <3>1. first = Decoded(2, lists[<<bytes[2], r>>])
      BY <1>5, <2>4, DecodeCases DEF first
    <3>2. lists[<<bytes[2], r>>] \in Registers
      BY <2>1 DEF ListEffect
    <3> QED
      BY <1>2, <2>1, <3>1, <3>2
  <2>5. CASE bytes[1] = Draw
    <3> DEFINE size == DrawSize(r, bytes[2])
    <3>1. size \in Nat
      BY <2>1, DrawSizes
    <3> HIDE DEF size
    <3>2. CASE ~(size <= Capacity)
      <4>1. first = Decoded(1, [r EXCEPT !.unknown = r.unknown + 1])
        <5>1. bytes[1] = Draw /\ ~(Len(bytes) < 2) /\ ~(DrawSize(r, bytes[2]) <= Capacity)
                => DecodeOne(bytes, r, lists) = Decoded(1, [r EXCEPT !.unknown = r.unknown + 1])
          BY DecodeCases
        <5> QED
          BY <1>5, <2>5, <3>2, <5>1 DEF first, size
      <4>2. [r EXCEPT !.unknown = r.unknown + 1] \in Registers
        BY <2>1, FieldsTyped
      <4> QED
        BY <1>2, <2>1, <4>1, <4>2
    <3>3. CASE size <= Capacity /\ Len(bytes) < size
      <4>1. first = Decoded(0, r)
        BY <1>5, <2>5, <3>3, DecodeCases DEF first, size
      <4> QED
        BY <1>2, <2>1, <4>1
    <3>4. CASE size <= Capacity /\ ~(Len(bytes) < size)
      <4> DEFINE vertices == SubSeq(bytes, 3, size)
      <4>1. first = Decoded(size, [r EXCEPT !.drawn = Append(r.drawn, vertices)])
        <5>1. bytes[1] = Draw /\ ~(Len(bytes) < 2) /\ DrawSize(r, bytes[2]) <= Capacity
              /\ ~(Len(bytes) < DrawSize(r, bytes[2]))
                => DecodeOne(bytes, r, lists)
                     = Decoded(DrawSize(r, bytes[2]),
                               [r EXCEPT !.drawn =
                                  Append(r.drawn, SubSeq(bytes, 3, DrawSize(r, bytes[2])))])
          BY DecodeCases
        <5> QED
          BY <1>5, <2>5, <3>4, <5>1 DEF first, size
      <4>2. vertices \in Seq(FifoByte)
        BY <1>1, <3>1, <3>4
      <4>3. size \in 0 .. Len(bytes)
        BY <1>1, <3>1, <3>4
      <4> HIDE DEF vertices
      <4>4. [r EXCEPT !.drawn = Append(r.drawn, vertices)] \in Registers
        BY <2>1, <4>2, FieldsTyped
      <4> QED
        BY <1>2, <4>1, <4>3, <4>4
    <3> QED
      BY <3>2, <3>3, <3>4
  <2> QED
    BY <1>1, <1>5, <2>2, <2>3, <2>4, <2>5 DEF FifoByte, Nop, Cp, Bp, Draw, Call
<1> QED
  BY <1>3, <1>4, <1>5
-----------------------------------------------------------------------------
(* The loop: its turns one after the other lead to a place where nothing   *)
(* more can be done, and only to one.                                      *)

\* The commands end here.
Settled(at, lists) == NextCommand(at, lists) = at

\* What the loop makes of this place.
Final(at, lists) == ProcessStream(at.rest, at.regs, lists)

Runs(turn, n, at, lists) ==
    /\ turn \in [0 .. n -> At] /\ turn[0] = at
    /\ \A k \in 0 .. n - 1 : turn[k + 1] = NextCommand(turn[k], lists)

Leads(at, end, lists) ==
    /\ Settled(end, lists)
    /\ \E n \in Nat : \E turn : Runs(turn, n, at, lists) /\ turn[n] = end

\* A turn leaves everything or shortens the rest.
LEMMA TurnTyped ==
    ASSUME NEW at \in At, NEW lists \in ListEffect
    PROVE  /\ NextCommand(at, lists) \in At
           /\ Settled(at, lists) \/ Len(NextCommand(at, lists).rest) < Len(at.rest)
           /\ Len(NextCommand(at, lists).rest) <= Len(at.rest)
<1> DEFINE first == DecodeOne(at.rest, at.regs, lists)
           rest == SubSeq(at.rest, first.size + 1, Len(at.rest))
<1>1. at.rest \in Seq(FifoByte) /\ at.regs \in Registers
  BY DEF At
<1>2. CASE at.rest = <<>> \/ first.size = 0
  <2>1. NextCommand(at, lists) = at
    BY <1>2 DEF NextCommand
  <2>2. Len(at.rest) \in Nat
    BY <1>1
  <2> QED
    BY <2>1, <2>2 DEF Settled
<1>3. CASE ~(at.rest = <<>> \/ first.size = 0)
  <2>1. first.size \in 0 .. Len(at.rest) /\ first.regs \in Registers
    BY <1>1, <1>3, DecodeTyped
  <2>2. Len(at.rest) \in Nat /\ first.size \in 1 .. Len(at.rest)
    BY <1>1, <1>3, <2>1
  <2>3. rest \in Seq(FifoByte) /\ Len(rest) = Len(at.rest) - first.size
    <3> HIDE DEF first
    <3> QED
      BY <1>1, <2>2
  <2>4. NextCommand(at, lists) = [rest |-> rest, regs |-> first.regs]
    BY <1>3 DEF NextCommand
  <2> HIDE DEF first, rest
  <2>5. NextCommand(at, lists) \in At
    BY <2>1, <2>3, <2>4 DEF At
  <2>6. Len(rest) < Len(at.rest) /\ Len(rest) <= Len(at.rest)
    BY <2>2, <2>3
  <2> QED
    BY <2>4, <2>5, <2>6
<1> QED
  BY <1>2, <1>3

LEMMA SettledWhere ==
    ASSUME NEW at \in At, NEW lists \in ListEffect
    PROVE  Settled(at, lists) <=>
              at.rest = <<>> \/ DecodeOne(at.rest, at.regs, lists).size = 0
<1> DEFINE first == DecodeOne(at.rest, at.regs, lists)
           rest == SubSeq(at.rest, first.size + 1, Len(at.rest))
<1>1. at.rest \in Seq(FifoByte) /\ at.regs \in Registers
  BY DEF At
<1>2. CASE at.rest = <<>> \/ first.size = 0
  BY <1>2 DEF NextCommand, Settled
<1>3. CASE ~(at.rest = <<>> \/ first.size = 0)
  <2>1. first.size \in 1 .. Len(at.rest) /\ Len(at.rest) \in Nat
    BY <1>1, <1>3, DecodeTyped
  <2>2. Len(rest) = Len(at.rest) - first.size
    <3> HIDE DEF first
    <3> QED
      BY <1>1, <2>1
  <2>3. NextCommand(at, lists).rest = rest
    BY <1>3 DEF NextCommand
  <2> HIDE DEF first, rest
  <2>4. Len(rest) # Len(at.rest)
    BY <2>1, <2>2
  <2> QED
    BY <1>3, <2>3, <2>4 DEF Settled, first
<1> QED
  BY <1>2, <1>3

\* A rule for what is true of the loop from every place: it is true where
\* the commands end, and before a command when it is true after it.
LEMMA ByCommands ==
    ASSUME NEW lists \in ListEffect, NEW S \in SUBSET At,
           \A at \in At : Settled(at, lists) \/ NextCommand(at, lists) \in S => at \in S
    PROVE  S = At
<1> DEFINE T == {n \in Nat : \A at \in At : Len(at.rest) <= n => at \in S}
<1>1. \A at \in At : Len(at.rest) \in Nat
  BY DEF At
<1>2. ASSUME NEW at \in At, ~Settled(at, lists)
      PROVE  NextCommand(at, lists) \in At /\ Len(NextCommand(at, lists).rest) < Len(at.rest)
  BY <1>2, TurnTyped
<1>3. 0 \in T
  <2> SUFFICES ASSUME NEW at \in At, Len(at.rest) <= 0 PROVE at \in S
    OBVIOUS
  <2>1. Settled(at, lists)
    BY <1>1, <1>2
  <2> QED
    BY <2>1
<1>4. ASSUME NEW n \in T PROVE n + 1 \in T
  <2> SUFFICES ASSUME NEW at \in At, Len(at.rest) <= n + 1 PROVE at \in S
    OBVIOUS
  <2>1. CASE Settled(at, lists)
    BY <2>1
  <2>2. CASE ~Settled(at, lists)
    <3>1. NextCommand(at, lists) \in At /\ Len(NextCommand(at, lists).rest) <= n
      BY <1>1, <1>2, <2>2
    <3> QED
      BY <3>1
  <2> QED
    BY <2>1, <2>2
<1>5. T \in SUBSET Nat
  OBVIOUS
<1> HIDE DEF T
<1>6. T = Nat
  BY <1>3, <1>4, <1>5, SetInduction
<1>7. \A at \in At : at \in S
  BY <1>1, <1>6 DEF T
<1> QED
  BY <1>7

TurnStep(n, lists) == [p \in (1 .. n) \X At |-> NextCommand(p[2], lists)]

LEMMA LoopFolds ==
    ASSUME NEW at \in At, NEW lists \in ListEffect
    PROVE  \E fold : /\ Final(at, lists) = fold[1 .. Len(at.rest)]
                     /\ FoldsBy(fold, Len(at.rest), At, at, TurnStep(Len(at.rest), lists))
<1> DEFINE n == Len(at.rest)
           Body(g, t) == IF t = {} THEN [rest |-> at.rest, regs |-> at.regs]
                         ELSE NextCommand(g[t \ {Max(t)}], lists)
           fold == CHOOSE g : g = [t \in SUBSET (1 .. n) |-> Body(g, t)]
           step == TurnStep(n, lists)
<1>1. n \in Nat /\ DOMAIN at.rest = 1 .. n
  BY DEF At
<1>2. Final(at, lists) = fold[1 .. n]
  BY <1>1 DEF Final, ProcessStream, FoldLeft, MapThenFoldSet
<1>3. step \in FoldStep(n, At)
  <2>1. \A p \in (1 .. n) \X At : NextCommand(p[2], lists) \in At
    BY TurnTyped
  <2> QED
    BY <2>1 DEF FoldStep, TurnStep
<1>4. at = [rest |-> at.rest, regs |-> at.regs]
  BY DEF At
<1>5. PICK h \in [SUBSET (1 .. n) -> At] : \A t \in SUBSET (1 .. n) :
            h[t] = IF t = {} THEN at ELSE step[<<Max(t), h[t \ {Max(t)}]>>]
  <2> HIDE DEF step, n
  <2>1. \E g : FoldOf(g, n, At, at, step)
    BY <1>1, <1>3, FoldExists
  <2> QED
    BY <2>1 DEF FoldOf
<1>6. ASSUME NEW t \in SUBSET (1 .. n), t # {} PROVE Max(t) \in 1 .. n
  BY <1>1, <1>6, Greatest
<1>7. \A i \in 1 .. n, a \in At : step[<<i, a>>] = NextCommand(a, lists)
  BY DEF TurnStep
<1>8. h = [t \in SUBSET (1 .. n) |-> Body(h, t)]
  <2> HIDE DEF step
  <2>1. ASSUME NEW t \in SUBSET (1 .. n) PROVE h[t] = Body(h, t)
    <3>1. h[t \ {Max(t)}] \in At
      BY <1>5
    <3> QED
      BY <1>4, <1>5, <1>6, <1>7, <3>1
  <2> QED
    BY <1>5, <2>1
<1>9. fold = [t \in SUBSET (1 .. n) |-> Body(fold, t)]
  BY <1>8
<1> HIDE DEF fold
<1>10. FoldsBy(fold, n, At, at, step)
  <2>1. fold[{}] = at
    BY <1>4, <1>9
  <2>2. ASSUME NEW t \in SUBSET (1 .. n), t # {}, fold[t \ {Max(t)}] \in At
        PROVE  fold[t] = step[<<Max(t), fold[t \ {Max(t)}]>>]
    <3>1. fold[t] = Body(fold, t)
      BY <1>9
    <3> HIDE DEF step
    <3> QED
      BY <1>6, <1>7, <2>2, <3>1
  <2> HIDE DEF step
  <2> QED
    BY <2>1, <2>2 DEF FoldsBy
<1> QED
  BY <1>2, <1>10

LEMMA LoopRuns ==
    ASSUME NEW at \in At, NEW lists \in ListEffect
    PROVE  \E turn : /\ Runs(turn, Len(at.rest), at, lists)
                     /\ Final(at, lists) = turn[Len(at.rest)]
<1> DEFINE n == Len(at.rest)
           step == TurnStep(n, lists)
<1>1. n \in Nat
  BY DEF At
<1>2. step \in FoldStep(n, At)
  <2>1. \A p \in (1 .. n) \X At : NextCommand(p[2], lists) \in At
    BY TurnTyped
  <2> QED
    BY <2>1 DEF FoldStep, TurnStep
<1>3. PICK fold : Final(at, lists) = fold[1 .. n] /\ FoldsBy(fold, n, At, at, step)
  BY LoopFolds
<1>4. \A k \in 1 .. n, a \in At : step[<<k, a>>] = NextCommand(a, lists)
  BY DEF TurnStep
<1> HIDE DEF n, step
<1>5. FoldChains(fold, n, At, at, step)
  BY <1>1, <1>2, <1>3, FoldChain
<1> DEFINE turn == [k \in 0 .. n |-> fold[1 .. k]]
<1>6. turn \in [0 .. n -> At] /\ turn[0] = at
  BY <1>1, <1>5 DEF FoldChains
<1>7. ASSUME NEW k \in 0 .. n - 1 PROVE turn[k + 1] = NextCommand(turn[k], lists)
  <2>1. k \in 0 .. n /\ k + 1 \in 1 .. n /\ k + 1 \in 0 .. n
    BY <1>1
  <2>2. fold[1 .. k] \in At /\ fold[1 .. k + 1] = step[<<k + 1, fold[1 .. k]>>]
    BY <1>5, <2>1 DEF FoldChains
  <2>3. fold[1 .. k + 1] = NextCommand(fold[1 .. k], lists)
    BY <1>4, <2>1, <2>2
  <2> QED
    BY <2>1, <2>3
<1>8. turn[n] = fold[1 .. n]
  BY <1>1
<1> HIDE DEF turn
<1>9. Runs(turn, n, at, lists) /\ Final(at, lists) = turn[n]
  BY <1>3, <1>6, <1>7, <1>8 DEF Runs
<1> QED
  BY <1>9 DEF n

\* As many turns as there are bytes are enough.
LEMMA FinalEnds ==
    ASSUME NEW at \in At, NEW lists \in ListEffect
    PROVE  Final(at, lists) \in At /\ Leads(at, Final(at, lists), lists)
<1> DEFINE n == Len(at.rest)
<1>1. n \in Nat
  BY DEF At
<1>2. PICK turn : Runs(turn, n, at, lists) /\ Final(at, lists) = turn[n]
  BY LoopRuns
<1> HIDE DEF n
<1> DEFINE Far(k) == Settled(turn[k], lists) \/ Len(turn[k].rest) + k <= n
           T == {k \in Nat : k <= n => Far(k)}
<1>3. turn \in [0 .. n -> At] /\ turn[0] = at
  BY <1>2 DEF Runs
<1>4. \A a \in At : Len(a.rest) \in Nat
  BY DEF At
<1>5. 0 \in T
  <2>1. Len(turn[0].rest) + 0 <= n
    BY <1>1, <1>3 DEF n
  <2> QED
    BY <2>1
<1>6. ASSUME NEW k \in T PROVE k + 1 \in T
  <2> HIDE DEF Far
  <2> SUFFICES ASSUME k + 1 <= n PROVE Far(k + 1)
    OBVIOUS
  <2>1. k \in 0 .. n - 1 /\ k \in 0 .. n /\ k + 1 \in 0 .. n /\ Far(k)
    BY <1>1
  <2> USE DEF Far
  <2>2. turn[k + 1] = NextCommand(turn[k], lists) /\ turn[k] \in At /\ turn[k + 1] \in At
    BY <1>2, <1>3, <2>1 DEF Runs
  <2>3. CASE Settled(turn[k], lists)
    <3>1. turn[k + 1] = turn[k]
      BY <2>2, <2>3 DEF Settled
    <3> QED
      BY <2>3, <3>1
  <2>4. CASE ~Settled(turn[k], lists)
    <3>1. Len(turn[k + 1].rest) < Len(turn[k].rest)
      BY <2>2, <2>4, TurnTyped
    <3>2. Len(turn[k].rest) + k <= n
      BY <2>1, <2>4
    <3>3. Len(turn[k + 1].rest) \in Nat /\ Len(turn[k].rest) \in Nat /\ k \in Nat
      BY <1>4, <2>2, <2>1
    <3> HIDE DEF Far, T
    <3>4. \A a, b, c \in Nat : b < a /\ a + c <= n => b + (c + 1) <= n
      BY <1>1
    <3>5. Len(turn[k + 1].rest) + (k + 1) <= n
      BY <3>1, <3>2, <3>3, <3>4
    <3> QED
      BY <3>5 DEF Far
  <2> QED
    BY <2>3, <2>4
<1>7. T \in SUBSET Nat
  OBVIOUS
<1>8. n \in T
  <2> HIDE DEF T
  <2> QED
    BY <1>1, <1>5, <1>6, <1>7, SetInduction
<1>9. turn[n] \in At /\ Far(n)
  BY <1>1, <1>3, <1>8
<1>10. Settled(turn[n], lists)
  <2>1. CASE Len(turn[n].rest) + n <= n
    <3>1. Len(turn[n].rest) = 0 /\ turn[n].rest \in Seq(FifoByte)
      BY <1>1, <1>4, <1>9, <2>1 DEF At
    <3>2. turn[n].rest = <<>>
      BY <3>1
    <3> QED
      BY <1>9, <3>2, SettledWhere
  <2> QED
    BY <1>9, <2>1
<1> QED
  BY <1>1, <1>2, <1>9, <1>10 DEF Leads

\* A place that stays does so for ever, so of two runs from one place the
\* longer has nothing to add to the shorter that has settled.
LEMMA RunsAgree ==
    ASSUME NEW at, NEW lists, NEW n \in Nat, NEW m \in Nat, n <= m,
           NEW short, NEW long, Runs(short, n, at, lists), Runs(long, m, at, lists),
           Settled(short[n], lists)
    PROVE  short[n] = long[m]
<1> DEFINE Same(k) == IF k <= n THEN long[k] = short[k] ELSE long[k] = short[n]
           T == {k \in Nat : k <= m => Same(k)}
<1>1. 0 \in T
  BY DEF Runs
<1>2. ASSUME NEW k \in T PROVE k + 1 \in T
  <2> HIDE DEF Same
  <2> SUFFICES ASSUME k + 1 <= m PROVE Same(k + 1)
    OBVIOUS
  <2>1. k \in Nat /\ k \in 0 .. m - 1 /\ Same(k)
    OBVIOUS
  <2>2. long[k + 1] = NextCommand(long[k], lists)
    BY <2>1 DEF Runs
  <2>3. CASE k + 1 <= n
    <3>1. k \in 0 .. n - 1 /\ k <= n
      BY <2>1, <2>3
    <3>2. short[k + 1] = NextCommand(short[k], lists)
      BY <3>1 DEF Runs
    <3> QED
      BY <2>1, <2>2, <2>3, <3>1, <3>2 DEF Same
  <2>4. CASE ~(k + 1 <= n)
    <3>1. long[k] = short[n]
      <4>1. k = n \/ ~(k <= n)
        BY <2>1, <2>4
      <4> QED
        BY <2>1, <4>1 DEF Same
    <3> QED
      BY <2>2, <2>4, <3>1 DEF Same, Settled
  <2> QED
    BY <2>3, <2>4
<1>3. T \in SUBSET Nat
  OBVIOUS
<1>4. m \in T
  <2> HIDE DEF T
  <2> QED
    BY <1>1, <1>2, <1>3, SetInduction
<1>5. Same(m)
  BY <1>4
<1> QED
  <2>1. CASE m <= n
    <3>1. m = n
      BY <2>1
    <3> QED
      BY <1>5, <3>1
  <2>2. CASE ~(m <= n)
    BY <1>5, <2>2
  <2> QED
    BY <2>1, <2>2

LEMMA OneEnd ==
    ASSUME NEW at, NEW lists, NEW a, NEW b, Leads(at, a, lists), Leads(at, b, lists)
    PROVE  a = b
<1> PICK n \in Nat : \E turn : Runs(turn, n, at, lists) /\ turn[n] = a
  BY DEF Leads
<1>1. PICK short : Runs(short, n, at, lists) /\ short[n] = a
  OBVIOUS
<1> PICK m \in Nat : \E turn : Runs(turn, m, at, lists) /\ turn[m] = b
  BY DEF Leads
<1>2. PICK long : Runs(long, m, at, lists) /\ long[m] = b
  OBVIOUS
<1>3. Settled(short[n], lists) /\ Settled(long[m], lists)
  BY <1>1, <1>2 DEF Leads
<1>4. CASE n <= m
  <2>1. short[n] = long[m]
    BY <1>1, <1>2, <1>3, <1>4, RunsAgree
  <2> QED
    BY <1>1, <1>2, <2>1
<1>5. CASE m <= n
  <2>1. long[m] = short[n]
    BY <1>1, <1>2, <1>3, <1>5, RunsAgree
  <2> QED
    BY <1>1, <1>2, <2>1
<1> QED
  BY <1>4, <1>5

\* Where nothing can be done the loop stays; elsewhere it goes on from the
\* place after one command.
LEMMA FinalStays ==
    ASSUME NEW at \in At, NEW lists \in ListEffect, Settled(at, lists)
    PROVE  Final(at, lists) = at
<1> DEFINE turn == [k \in {0} |-> at]
<1>1. 0 .. 0 = {0} /\ 0 .. 0 - 1 = {}
  OBVIOUS
<1>2. turn \in [0 .. 0 -> At] /\ turn[0] = at /\ \A k \in 0 .. 0 - 1 : FALSE
  BY <1>1
<1> HIDE DEF turn
<1>3. Runs(turn, 0, at, lists)
  BY <1>2 DEF Runs
<1>4. Leads(at, at, lists)
  BY <1>2, <1>3 DEF Leads
<1> QED
  BY <1>4, FinalEnds, OneEnd

LEMMA FinalGoesOn ==
    ASSUME NEW at \in At, NEW lists \in ListEffect
    PROVE  Final(at, lists) = Final(NextCommand(at, lists), lists)
<1> DEFINE next == NextCommand(at, lists)
           end == Final(next, lists)
<1>1. next \in At
  BY TurnTyped
<1>2. Leads(next, end, lists)
  BY <1>1, FinalEnds
<1> PICK n \in Nat : \E turn : Runs(turn, n, next, lists) /\ turn[n] = end
  BY <1>2 DEF Leads
<1>3. PICK turn : Runs(turn, n, next, lists) /\ turn[n] = end
  OBVIOUS
<1> DEFINE later == [k \in 0 .. n + 1 |-> IF k = 0 THEN at ELSE turn[k - 1]]
<1>4. later \in [0 .. n + 1 -> At] /\ later[0] = at /\ later[n + 1] = end
  <2>1. ASSUME NEW k \in 0 .. n + 1, k # 0 PROVE k - 1 \in 0 .. n
    BY <2>1
  <2>2. \A k \in 0 .. n + 1 : k # 0 => turn[k - 1] \in At
    BY <1>3, <2>1 DEF Runs
  <2>3. n + 1 \in 0 .. n + 1 /\ n + 1 # 0 /\ (n + 1) - 1 = n /\ 0 \in 0 .. n + 1
    OBVIOUS
  <2> HIDE DEF end
  <2> QED
    BY <1>3, <2>2, <2>3
<1>5. ASSUME NEW k \in 0 .. (n + 1) - 1 PROVE later[k + 1] = NextCommand(later[k], lists)
  <2>1. k \in 0 .. n + 1 /\ k + 1 \in 0 .. n + 1 /\ k + 1 # 0 /\ (k + 1) - 1 = k
    OBVIOUS
  <2>2. later[k + 1] = turn[k]
    BY <2>1
  <2>3. CASE k = 0
    BY <1>3, <2>1, <2>2, <2>3 DEF Runs
  <2>4. CASE k # 0
    <3>1. k - 1 \in 0 .. n - 1 /\ (k - 1) + 1 = k
      BY <2>4
    <3>2. turn[(k - 1) + 1] = NextCommand(turn[k - 1], lists)
      BY <1>3, <3>1 DEF Runs
    <3> QED
      BY <2>1, <2>2, <2>4, <3>1, <3>2
  <2> QED
    BY <2>3, <2>4
<1> HIDE DEF later, end, next
<1>6. Runs(later, n + 1, at, lists)
  BY <1>4, <1>5 DEF Runs
<1>7. Leads(at, end, lists)
  <2>1. n + 1 \in Nat
    OBVIOUS
  <2> QED
    BY <1>2, <1>4, <1>6, <2>1 DEF Leads
<1>8. Final(at, lists) = end
  BY <1>7, FinalEnds, OneEnd
<1> QED
  BY <1>8 DEF end, next

LEMMA FinalTyped ==
    ASSUME NEW at \in At, NEW lists \in ListEffect
    PROVE  /\ Final(at, lists) \in At /\ Settled(Final(at, lists), lists)
           /\ Len(Final(at, lists).rest) <= Len(at.rest)
<1> DEFINE S == {a \in At : Len(Final(a, lists).rest) <= Len(a.rest)}
<1>1. ASSUME NEW a \in At, Settled(a, lists) PROVE a \in S
  <2>1. Len(a.rest) \in Nat
    BY DEF At
  <2>2. Final(a, lists) = a
    BY <1>1, FinalStays
  <2> QED
    BY <2>1, <2>2
<1>2. ASSUME NEW a \in At, NextCommand(a, lists) \in S PROVE a \in S
  <2> DEFINE next == NextCommand(a, lists)
             end == Final(a, lists)
  <2>1. next \in At /\ end \in At /\ end = Final(next, lists) /\ Len(next.rest) <= Len(a.rest)
    BY TurnTyped, FinalGoesOn, FinalEnds
  <2>2. Len(end.rest) <= Len(next.rest)
    BY <1>2, <2>1
  <2> HIDE DEF next, end
  <2>3. Len(a.rest) \in Nat /\ Len(next.rest) \in Nat /\ Len(end.rest) \in Nat
    BY <2>1 DEF At
  <2>4. \A x, y, z \in Nat : x <= y /\ y <= z => x <= z
    OBVIOUS
  <2>5. Len(end.rest) <= Len(a.rest)
    BY <2>1, <2>2, <2>3, <2>4
  <2> QED
    BY <2>5 DEF end
<1>3. S \in SUBSET At
  OBVIOUS
<1>4. at \in S
  <2> HIDE DEF S
  <2> QED
    BY <1>1, <1>2, <1>3, ByCommands
<1> QED
  BY <1>4, FinalEnds DEF Leads
-----------------------------------------------------------------------------
(* Splitting: what comes later does not change what a complete command is. *)
(* Only a run of nops that ends with the bytes may grow, and then it is    *)
(* run over in two commands instead of one.                                *)

Ahead(at, more) == [rest |-> at.rest \o more, regs |-> at.regs]

LEMMA AheadTyped ==
    ASSUME NEW at \in At, NEW more \in Seq(FifoByte)
    PROVE  Ahead(at, more) \in At
<1>1. at.rest \o more \in Seq(FifoByte) /\ at.regs \in Registers
  BY Appended DEF At
<1> QED
  BY <1>1 DEF Ahead, At

LEMMA DecodeAhead ==
    ASSUME NEW bytes \in Seq(FifoByte), NEW more \in Seq(FifoByte), NEW r \in Registers,
           NEW lists \in ListEffect, bytes # <<>>, DecodeOne(bytes, r, lists).size # 0,
           bytes[1] = Nop => NopRun(bytes) # Len(bytes)
    PROVE  DecodeOne(bytes \o more, r, lists) = DecodeOne(bytes, r, lists)
<1> DEFINE both == bytes \o more
<1>1. /\ both \in Seq(FifoByte) /\ Len(both) = Len(bytes) + Len(more)
      /\ \A i \in 1 .. Len(bytes) : both[i] = bytes[i]
      /\ Len(bytes) \in Nat \ {0} /\ Len(more) \in Nat
  BY Appended
<1>2. both # <<>> /\ both[1] = bytes[1] /\ bytes[1] \in FifoByte
  BY <1>1
<1> HIDE DEF both
<1>3. CASE bytes[1] = Nop
  <2> DEFINE n == NopRun(bytes)
  <2>1. n \in 1 .. Len(bytes) /\ EndsRun(bytes, n) /\ n # Len(bytes)
    BY <1>3, RunOfNops
  <2> HIDE DEF n
  <2>2. n \in 1 .. Len(both) /\ n + 1 \in 1 .. Len(bytes) /\ \A i \in 1 .. n : i \in 1 .. Len(bytes)
    BY <1>1, <2>1
  <2>3. EndsRun(both, n)
    BY <1>1, <2>1, <2>2 DEF EndsRun
  <2>4. NopRun(both) = n
    BY <1>1, <1>2, <1>3, <2>2, <2>3, RunOfNops
  <2>5. DecodeOne(both, r, lists) = Decoded(NopRun(both), r)
    BY <1>1, <1>2, <1>3, DecodeCases
  <2>6. DecodeOne(bytes, r, lists) = Decoded(n, r)
    BY <1>3, DecodeCases DEF n
  <2> QED
    BY <2>4, <2>5, <2>6 DEF both
<1>4. CASE bytes[1] # Nop
  <2>1. ~(Len(bytes) < 2)
    <3>1. Len(bytes) < 2 => DecodeOne(bytes, r, lists) = Decoded(0, r)
      BY <1>4, DecodeCases
    <3> QED
      BY <3>1 DEF Decoded
  <2>2. ~(Len(both) < 2) /\ both[2] = bytes[2] /\ bytes[2] \in FifoByte
    BY <1>1, <2>1
  <2>3. CASE bytes[1] = Cp
    <3>1. DecodeOne(bytes, r, lists) = Decoded(2, [r EXCEPT !.stride = bytes[2]])
      BY <2>1, <2>3, DecodeCases
    <3>2. DecodeOne(both, r, lists) = Decoded(2, [r EXCEPT !.stride = both[2]])
      BY <1>1, <1>2, <2>2, <2>3, DecodeCases
    <3> QED
      BY <2>2, <3>1, <3>2 DEF both
  <2>4. CASE bytes[1] = Bp
    <3>1. DecodeOne(bytes, r, lists) = Decoded(2, LoadBp(r, bytes[2]))
      BY <2>1, <2>4, DecodeCases
    <3>2. DecodeOne(both, r, lists) = Decoded(2, LoadBp(r, both[2]))
      BY <1>1, <1>2, <2>2, <2>4, DecodeCases
    <3> QED
      BY <2>2, <3>1, <3>2 DEF both
  <2>5. CASE bytes[1] = Call
    <3>1. DecodeOne(bytes, r, lists) = Decoded(2, lists[<<bytes[2], r>>])
      BY <2>1, <2>5, DecodeCases
    <3>2. DecodeOne(both, r, lists) = Decoded(2, lists[<<both[2], r>>])
      <4>1. both \in Seq(FifoByte) /\ both # <<>> /\ both[1] = Call /\ ~(Len(both) < 2)
        BY <1>1, <1>2, <2>2, <2>5
      <4> QED
        BY <4>1, DecodeCases
    <3> QED
      BY <2>2, <3>1, <3>2 DEF both
  <2>6. CASE bytes[1] = Draw
    <3> DEFINE size == DrawSize(r, bytes[2])
    <3>1. size \in Nat /\ DrawSize(r, both[2]) = size
      BY <2>2, DrawSizes
    <3>2. CASE ~(size <= Capacity)
      <4>1. DecodeOne(bytes, r, lists) = Decoded(1, AfterHuge(r))
        BY <2>1, <2>6, <3>2, DecodeHuge
      <4>2. DecodeOne(both, r, lists) = Decoded(1, AfterHuge(r))
        <5>1. both[1] = Draw /\ ~(Len(both) < 2) /\ ~(DrawSize(r, both[2]) <= Capacity)
          BY <1>2, <2>2, <2>6, <3>1, <3>2
        <5>2. both \in Seq(FifoByte) /\ both # <<>>
          BY <1>1, <1>2
        <5> HIDE DEF size
        <5> QED
          BY <5>1, <5>2, DecodeHuge
      <4> QED
        BY <4>1, <4>2 DEF both
    <3>3. CASE size <= Capacity
      <4>1. ~(Len(bytes) < size)
        <5>1. Len(bytes) < size => DecodeOne(bytes, r, lists) = Decoded(0, r)
          BY <2>1, <2>6, <3>3, DecodeCases
        <5> QED
          BY <5>1 DEF Decoded
      <4>2. DecodeOne(bytes, r, lists) = Decoded(size, AfterDraw(r, bytes, size))
        BY <2>1, <2>6, <3>3, <4>1, DecodeDraw
      <4> HIDE DEF size
      <4>3. ~(Len(both) < size)
        BY <1>1, <3>1, <4>1
      <4> USE DEF size
      <4>4. DecodeOne(both, r, lists) = Decoded(size, AfterDraw(r, both, size))
        <5>1. both \in Seq(FifoByte) /\ both # <<>> /\ both[1] = Draw /\ ~(Len(both) < 2)
          BY <1>1, <1>2, <2>2, <2>6
        <5>2. size = DrawSize(r, both[2]) /\ size <= Capacity /\ ~(Len(both) < size)
          BY <3>1, <3>3, <4>3
        <5> HIDE DEF size
        <5> QED
          BY <5>1, <5>2, DecodeDraw
      <4> HIDE DEF size
      <4>5. SubSeq(both, 3, size) = SubSeq(bytes, 3, size)
        <5>1. \A i \in 1 .. (size - 3) + 1 : 3 + i - 1 \in 1 .. Len(bytes)
          BY <1>1, <3>1, <4>1
        <5> QED
          BY <1>1, <3>1, <4>1, <5>1
      <4> QED
        BY <4>2, <4>4, <4>5 DEF both, AfterDraw
    <3> QED
      BY <3>2, <3>3
  <2> QED
    BY <1>2, <1>4, <2>3, <2>4, <2>5, <2>6 DEF FifoByte, Nop, Cp, Bp, Draw, Call
<1> QED
  BY <1>3, <1>4

\* What is left of a sequence after some of its elements.
LEMMA DropSome ==
    ASSUME NEW S, NEW s \in Seq(S), NEW k \in 0 .. Len(s)
    PROVE  /\ SubSeq(s, k + 1, Len(s)) \in Seq(S)
           /\ Len(SubSeq(s, k + 1, Len(s))) = Len(s) - k
           /\ \A i \in 1 .. Len(s) - k : SubSeq(s, k + 1, Len(s))[i] = s[k + i]
<1> DEFINE n == Len(s)
<1>1. n \in Nat /\ k \in Nat /\ k <= n /\ \A i \in 1 .. n : s[i] \in S
  OBVIOUS
<1> HIDE DEF n
<1>2. k + 1 \in Int /\ n \in Int /\ \A i \in k + 1 .. n : s[i] \in S
  BY <1>1
<1>3. /\ SubSeq(s, k + 1, n) \in Seq(S)
      /\ Len(SubSeq(s, k + 1, n)) = IF k + 1 <= n THEN n - (k + 1) + 1 ELSE 0
      /\ \A i \in 1 .. n - (k + 1) + 1 : SubSeq(s, k + 1, n)[i] = s[(k + 1) + i - 1]
  BY <1>2, SubSeqProperties
<1>4. (IF k + 1 <= n THEN n - (k + 1) + 1 ELSE 0) = n - k /\ n - (k + 1) + 1 = n - k
  BY <1>1
<1>5. \A i \in 1 .. n - k : (k + 1) + i - 1 = k + i
  BY <1>1
<1>6. /\ SubSeq(s, k + 1, n) \in Seq(S) /\ Len(SubSeq(s, k + 1, n)) = n - k
      /\ \A i \in 1 .. n - k : SubSeq(s, k + 1, n)[i] = s[k + i]
  BY <1>3, <1>4, <1>5
<1> QED
  BY <1>6 DEF n

\* What is left of two sequences after some elements of the first, and
\* after all of it and some of the second.
LEMMA DropAhead ==
    ASSUME NEW S, NEW s \in Seq(S), NEW t \in Seq(S), NEW k \in 0 .. Len(s)
    PROVE  SubSeq(s \o t, k + 1, Len(s \o t)) = SubSeq(s, k + 1, Len(s)) \o t
<1> DEFINE both == s \o t
           left == SubSeq(s, k + 1, Len(s))
           right == left \o t
           here == SubSeq(both, k + 1, Len(both))
<1>1. /\ both \in Seq(S) /\ Len(both) = Len(s) + Len(t) /\ Len(s) \in Nat /\ Len(t) \in Nat
      /\ \A i \in 1 .. Len(s) : both[i] = s[i]
      /\ \A i \in 1 .. Len(s) + Len(t) : i > Len(s) => both[i] = t[i - Len(s)]
  BY Appended
<1>2. /\ left \in Seq(S) /\ Len(left) = Len(s) - k
      /\ \A i \in 1 .. Len(s) - k : left[i] = s[k + i]
  BY DropSome
<1> HIDE DEF both, left
<1>3. /\ right \in Seq(S) /\ Len(right) = Len(s) - k + Len(t)
      /\ \A i \in 1 .. Len(s) - k : right[i] = left[i]
      /\ \A i \in 1 .. Len(s) - k + Len(t) : i > Len(s) - k => right[i] = t[i - (Len(s) - k)]
  <2>1. /\ right \in Seq(S) /\ Len(right) = Len(left) + Len(t)
        /\ \A i \in 1 .. Len(left) : right[i] = left[i]
        /\ \A i \in 1 .. Len(left) + Len(t) : i > Len(left) => right[i] = t[i - Len(left)]
    BY <1>2, Appended
  <2> HIDE DEF right
  <2> QED
    BY <1>2, <2>1
<1>4. /\ here \in Seq(S) /\ Len(here) = Len(s) - k + Len(t)
      /\ \A i \in 1 .. Len(s) - k + Len(t) : here[i] = both[k + i]
  <2> DEFINE n == Len(both)
  <2>1. k \in 0 .. n /\ n - k = Len(s) - k + Len(t)
    BY <1>1
  <2>2. here \in Seq(S) /\ Len(here) = n - k /\ \A i \in 1 .. n - k : here[i] = both[k + i]
    BY <1>1, <2>1, DropSome
  <2> HIDE DEF n, here
  <2> QED
    BY <2>1, <2>2
<1> HIDE DEF here, right
<1>5. ASSUME NEW i \in 1 .. Len(s) - k + Len(t) PROVE here[i] = right[i]
  <2>1. CASE i <= Len(s) - k
    <3>1. i \in 1 .. Len(s) - k /\ k + i \in 1 .. Len(s)
      BY <1>1, <2>1
    <3> QED
      BY <1>1, <1>2, <1>3, <1>4, <3>1
  <2>2. CASE ~(i <= Len(s) - k)
    <3>1. /\ i > Len(s) - k /\ k + i \in 1 .. Len(s) + Len(t) /\ k + i > Len(s)
          /\ (k + i) - Len(s) = i - (Len(s) - k)
      BY <1>1, <2>2
    <3>2. i \in 1 .. Len(s) - k + Len(t)
      OBVIOUS
    <3>3. right[i] = t[i - (Len(s) - k)]
      BY <1>3, <3>1, <3>2
    <3>4. here[i] = both[k + i]
      BY <1>4, <3>2
    <3>5. both[k + i] = t[(k + i) - Len(s)]
      BY <1>1, <3>1
    <3> QED
      BY <3>1, <3>3, <3>4, <3>5, Zenon
  <2> QED
    BY <2>1, <2>2
<1> QED
  <2>1. Len(here) = Len(right) /\ \A i \in 1 .. Len(here) : here[i] = right[i]
    BY <1>1, <1>3, <1>4, <1>5
  <2>2. here = right
    BY <1>3, <1>4, <2>1, SeqEqual
  <2> QED
    BY <2>2 DEF here, right, left, both

LEMMA DropPast ==
    ASSUME NEW S, NEW s \in Seq(S), NEW t \in Seq(S), NEW k \in 0 .. Len(t)
    PROVE  SubSeq(s \o t, Len(s) + k + 1, Len(s \o t)) = SubSeq(t, k + 1, Len(t))
<1> DEFINE both == s \o t
           right == SubSeq(t, k + 1, Len(t))
           here == SubSeq(both, Len(s) + k + 1, Len(both))
<1>1. /\ both \in Seq(S) /\ Len(both) = Len(s) + Len(t) /\ Len(s) \in Nat /\ Len(t) \in Nat
      /\ \A i \in 1 .. Len(s) + Len(t) : i > Len(s) => both[i] = t[i - Len(s)]
  BY Appended
<1> HIDE DEF both
<1>2. right \in Seq(S) /\ Len(right) = Len(t) - k /\ \A i \in 1 .. Len(t) - k : right[i] = t[k + i]
  BY DropSome
<1>3. /\ here \in Seq(S) /\ Len(here) = Len(t) - k
      /\ \A i \in 1 .. Len(t) - k : here[i] = both[Len(s) + k + i]
  <2> DEFINE n == Len(both)
             m == Len(s) + k
  <2>1. m \in 0 .. n /\ n - m = Len(t) - k
    BY <1>1
  <2> HIDE DEF m
  <2>2. LET rest == SubSeq(both, m + 1, n)
        IN  rest \in Seq(S) /\ Len(rest) = n - m /\ \A i \in 1 .. n - m : rest[i] = both[m + i]
    BY <1>1, <2>1, DropSome
  <2>3. here = SubSeq(both, m + 1, n)
    BY DEF m
  <2> HIDE DEF n, here
  <2>4. Len(here) = Len(t) - k /\ \A i \in 1 .. Len(t) - k : here[i] = both[m + i]
    BY <2>1, <2>2, <2>3
  <2> QED
    BY <2>2, <2>3, <2>4 DEF m
<1> HIDE DEF here, right
<1>4. ASSUME NEW i \in 1 .. Len(t) - k PROVE here[i] = right[i]
  <2>1. /\ Len(s) + k + i \in 1 .. Len(s) + Len(t) /\ Len(s) + k + i > Len(s)
        /\ (Len(s) + k + i) - Len(s) = k + i
    BY <1>1
  <2> QED
    BY <1>1, <1>2, <1>3, <2>1
<1> QED
  BY <1>2, <1>3, <1>4 DEF here, right, both

LEMMA NextRest ==
    ASSUME NEW at \in At, NEW lists \in ListEffect, ~Settled(at, lists)
    PROVE  LET first == DecodeOne(at.rest, at.regs, lists)
           IN  /\ at.rest # <<>> /\ first.size \in 1 .. Len(at.rest)
               /\ NextCommand(at, lists) =
                    [rest |-> SubSeq(at.rest, first.size + 1, Len(at.rest)),
                     regs |-> first.regs]
<1> DEFINE first == DecodeOne(at.rest, at.regs, lists)
<1>1. at.rest \in Seq(FifoByte) /\ at.regs \in Registers
  BY DEF At
<1>2. at.rest # <<>> /\ first.size # 0
  BY SettledWhere
<1>3. first.size \in 0 .. Len(at.rest) /\ Len(at.rest) \in Nat
  BY <1>1, <1>2, DecodeTyped
<1>4. first.size \in 1 .. Len(at.rest)
  <2> HIDE DEF first
  <2> QED
    BY <1>2, <1>3
<1> QED
  BY <1>2, <1>4 DEF NextCommand

\* After one command the rest is the same, whether more follows or not.
LEMMA NextAhead ==
    ASSUME NEW at \in At, NEW more \in Seq(FifoByte), NEW lists \in ListEffect,
           ~Settled(at, lists)
    PROVE  Final(Ahead(at, more), lists) = Final(Ahead(NextCommand(at, lists), more), lists)
<1> DEFINE bytes == at.rest
           r == at.regs
           both == bytes \o more
           first == DecodeOne(bytes, r, lists)
           ahead == Ahead(at, more)
           next == NextCommand(at, lists)
<1>1. bytes \in Seq(FifoByte) /\ r \in Registers /\ Len(bytes) \in Nat
  BY DEF At
<1>2. /\ bytes # <<>> /\ first.size \in 1 .. Len(bytes)
      /\ next = [rest |-> SubSeq(bytes, first.size + 1, Len(bytes)), regs |-> first.regs]
  BY NextRest
<1>3. ahead \in At /\ next \in At /\ Ahead(next, more) \in At
  BY AheadTyped, TurnTyped
<1>4. ahead.rest = both /\ ahead.regs = r
  BY DEF Ahead
<1>5. /\ both \in Seq(FifoByte) /\ both # <<>> /\ both[1] = bytes[1]
      /\ Len(both) = Len(bytes) + Len(more) /\ Len(more) \in Nat
      /\ \A i \in 1 .. Len(bytes) : both[i] = bytes[i]
      /\ \A i \in 1 .. Len(bytes) + Len(more) : i > Len(bytes) => both[i] = more[i - Len(bytes)]
  <2>1. /\ both \in Seq(FifoByte) /\ Len(both) = Len(bytes) + Len(more) /\ Len(more) \in Nat
        /\ \A i \in 1 .. Len(bytes) : both[i] = bytes[i]
        /\ \A i \in 1 .. Len(bytes) + Len(more) : i > Len(bytes) => both[i] = more[i - Len(bytes)]
    BY <1>1, Appended
  <2>2. 1 \in 1 .. Len(bytes) /\ Len(both) # 0
    BY <1>1, <1>2, <2>1
  <2> HIDE DEF both, bytes
  <2> QED
    BY <2>1, <2>2
<1>6. CASE bytes[1] = Nop => NopRun(bytes) # Len(bytes)
  <2>1. first.size # 0
    BY <1>2
  <2>2. DecodeOne(both, r, lists) = first
    BY <1>1, <1>2, <1>6, <2>1, DecodeAhead
  <2>3. NextCommand(ahead, lists)
          = [rest |-> SubSeq(both, first.size + 1, Len(both)), regs |-> first.regs]
    BY <1>4, <1>5, <2>1, <2>2 DEF NextCommand
  <2>4. SubSeq(both, first.size + 1, Len(both))
          = SubSeq(bytes, first.size + 1, Len(bytes)) \o more
    <3>1. first.size \in 0 .. Len(bytes)
      BY <1>2
    <3> HIDE DEF first, bytes
    <3> QED
      BY <1>1, <3>1, DropAhead
  <2>5. NextCommand(ahead, lists) = Ahead(next, more)
    <3>1. next = [rest |-> SubSeq(bytes, first.size + 1, Len(bytes)), regs |-> first.regs]
      BY <1>2
    <3> HIDE DEF first, both, next, bytes
    <3>2. next.rest = SubSeq(bytes, first.size + 1, Len(bytes)) /\ next.regs = first.regs
      BY <3>1
    <3> QED
      BY <2>3, <2>4, <3>2 DEF Ahead
  <2> QED
    BY <1>3, <2>5, FinalGoesOn
<1>7. CASE bytes[1] = Nop /\ NopRun(bytes) = Len(bytes)
  <2>1. first = Decoded(Len(bytes), r)
    <3>1. first = Decoded(NopRun(bytes), r)
      BY <1>1, <1>2, <1>7, DecodeCases
    <3> QED
      BY <1>7, <3>1
  <2>2. next = [rest |-> <<>>, regs |-> r]
    <3>1. first.size = Len(bytes) /\ first.regs = r
      BY <2>1 DEF Decoded
    <3>2. SubSeq(bytes, Len(bytes) + 1, Len(bytes)) = <<>>
      BY <1>1
    <3> QED
      BY <1>2, <3>1, <3>2
  <2>3. Ahead(next, more) = [rest |-> more, regs |-> r]
    BY <2>2 DEF Ahead
  <2>4. \A i \in 1 .. Len(bytes) : bytes[i] = Nop
    BY <1>1, <1>2, <1>7, RunOfNops DEF EndsRun
  <2>5. ASSUME NEW n \in 1 .. Len(both), EndsRun(both, n)
        PROVE  NextCommand(ahead, lists) = [rest |-> SubSeq(both, n + 1, Len(both)), regs |-> r]
    <3>1. NopRun(both) = n
      BY <1>5, <1>7, <2>5, RunOfNops
    <3>2. DecodeOne(both, r, lists) = Decoded(n, r)
      BY <1>1, <1>5, <1>7, <3>1, DecodeCases
    <3>3. n # 0
      BY <2>5
    <3> QED
      BY <1>4, <1>5, <3>2, <3>3 DEF NextCommand, Decoded
  <2>6. CASE more = <<>>
    <3>1. both = bytes
      BY <1>1, <2>6
    <3>2. Ahead(at, more) = at /\ Ahead(next, more) = next
      BY <2>2, <2>6, <3>1 DEF Ahead, At
    <3> QED
      BY <3>2, FinalGoesOn
  <2>7. CASE more # <<>> /\ more[1] # Nop
    <3>1. Len(bytes) \in 1 .. Len(both) /\ Len(bytes) + 1 \in 1 .. Len(bytes) + Len(more)
      <4>1. Len(more) # 0
        BY <2>7
      <4>2. Len(bytes) # 0
        BY <1>1, <1>2
      <4> HIDE DEF bytes, both
      <4> QED
        BY <1>1, <1>5, <4>1, <4>2
    <3>2. EndsRun(both, Len(bytes))
      <4>1. both[Len(bytes) + 1] = more[1]
        <5>1. Len(bytes) + 1 > Len(bytes) /\ (Len(bytes) + 1) - Len(bytes) = 1
          BY <1>1
        <5> QED
          BY <1>5, <3>1, <5>1
      <4> QED
        BY <1>5, <2>4, <2>7, <4>1 DEF EndsRun
    <3>3. SubSeq(both, Len(bytes) + 1, Len(both)) = more
      <4>1. 0 \in 0 .. Len(more) /\ Len(bytes) + 0 + 1 = Len(bytes) + 1 /\ 0 + 1 = 1
        BY <1>1, <1>5
      <4>2. SubSeq(both, Len(bytes) + 0 + 1, Len(both)) = SubSeq(more, 0 + 1, Len(more))
        BY <1>1, <4>1, DropPast
      <4>3. SubSeq(more, 1, Len(more)) = more
        OBVIOUS
      <4> QED
        BY <4>1, <4>2, <4>3
    <3>4. NextCommand(ahead, lists) = Ahead(next, more)
      BY <2>3, <2>5, <3>1, <3>2, <3>3
    <3> QED
      BY <1>3, <3>4, FinalGoesOn
  <2>8. CASE more # <<>> /\ more[1] = Nop
    <3> DEFINE m == NopRun(more)
               n == Len(bytes) + m
    <3>1. m \in 1 .. Len(more) /\ EndsRun(more, m)
      BY <2>8, RunOfNops
    <3> HIDE DEF m
    <3>2. n \in 1 .. Len(both) /\ m \in 0 .. Len(more)
      BY <1>1, <1>5, <3>1
    <3>3. EndsRun(both, n)
      <4>1. ASSUME NEW i \in 1 .. n PROVE both[i] = Nop
        <5>1. CASE i <= Len(bytes)
          <6>1. i \in 1 .. Len(bytes)
            BY <1>1, <3>2, <5>1
          <6> QED
            BY <1>5, <2>4, <6>1
        <5>2. CASE ~(i <= Len(bytes))
          <6>1. i \in 1 .. Len(bytes) + Len(more) /\ i > Len(bytes) /\ i - Len(bytes) \in 1 .. m
            <7> HIDE DEF bytes, both
            <7> QED
              BY <1>1, <1>5, <3>1, <5>2
          <6> QED
            BY <1>5, <3>1, <6>1 DEF EndsRun
        <5> QED
          BY <5>1, <5>2
      <4>2. n = Len(both) \/ both[n + 1] # Nop
        <5>1. CASE m = Len(more)
          BY <1>5, <5>1
        <5>2. CASE m # Len(more)
          <6>1. n + 1 \in 1 .. Len(bytes) + Len(more) /\ n + 1 > Len(bytes)
                /\ (n + 1) - Len(bytes) = m + 1
            <7> HIDE DEF bytes, both
            <7> QED
              BY <1>1, <1>5, <3>1, <5>2
          <6> QED
            BY <1>5, <3>1, <5>2, <6>1 DEF EndsRun
        <5> QED
          BY <5>1, <5>2
      <4> HIDE DEF n
      <4> QED
        BY <4>1, <4>2 DEF EndsRun
    <3>4. SubSeq(both, n + 1, Len(both)) = SubSeq(more, m + 1, Len(more))
      BY <1>1, <3>2, DropPast
    <3>5. NextCommand(ahead, lists) = [rest |-> SubSeq(more, m + 1, Len(more)), regs |-> r]
      <4> HIDE DEF n, both
      <4> QED
        BY <2>5, <3>2, <3>3, <3>4
    <3>6. NextCommand(Ahead(next, more), lists)
            = [rest |-> SubSeq(more, m + 1, Len(more)), regs |-> r]
      <4>1. DecodeOne(more, r, lists) = Decoded(m, r)
        BY <1>1, <2>8, DecodeCases DEF m
      <4>2. m # 0
        BY <3>1
      <4> QED
        <5> DEFINE there == Ahead(next, more)
        <5>1. there.rest = more /\ there.regs = r
          BY <2>3
        <5>2. DecodeOne(more, r, lists).size = m /\ DecodeOne(more, r, lists).regs = r
          BY <4>1 DEF Decoded
        <5> HIDE DEF there
        <5>3. NextCommand(there, lists) = [rest |-> SubSeq(more, m + 1, Len(more)), regs |-> r]
          BY <2>8, <4>2, <5>1, <5>2 DEF NextCommand
        <5> QED
          BY <5>3 DEF there
    <3> QED
      <4> DEFINE there == Ahead(next, more)
      <4>1. NextCommand(ahead, lists) = NextCommand(there, lists) /\ ahead \in At /\ there \in At
        BY <1>3, <3>5, <3>6
      <4> HIDE DEF there, ahead
      <4>2. Final(ahead, lists) = Final(there, lists)
        BY <4>1, FinalGoesOn
      <4> QED
        BY <4>2 DEF there, ahead
  <2> QED
    BY <2>6, <2>7, <2>8
<1> QED
  BY <1>6, <1>7

\* However a stream is split, the whole leads where its parts lead.
LEMMA SplitAnywhere ==
    ASSUME NEW at \in At, NEW more \in Seq(FifoByte), NEW lists \in ListEffect
    PROVE  Final(Ahead(at, more), lists) = Final(Ahead(Final(at, lists), more), lists)
<1> DEFINE S == {a \in At : Final(Ahead(a, more), lists)
                              = Final(Ahead(Final(a, lists), more), lists)}
<1>1. ASSUME NEW a \in At, Settled(a, lists) \/ NextCommand(a, lists) \in S PROVE a \in S
  <2>1. CASE Settled(a, lists)
    BY <2>1, FinalStays
  <2>2. CASE ~Settled(a, lists)
    <3> DEFINE next == NextCommand(a, lists)
    <3>1. Final(Ahead(a, more), lists) = Final(Ahead(next, more), lists)
      BY <2>2, NextAhead
    <3>2. Final(a, lists) = Final(next, lists)
      BY FinalGoesOn
    <3>3. Final(Ahead(next, more), lists) = Final(Ahead(Final(next, lists), more), lists)
      BY <1>1, <2>2
    <3> QED
      BY <3>1, <3>2, <3>3
  <2> QED
    BY <2>1, <2>2
<1>2. S \in SUBSET At
  OBVIOUS
<1>3. at \in S
  <2> HIDE DEF S
  <2> QED
    BY <1>1, <1>2, ByCommands
<1> QED
  BY <1>3
-----------------------------------------------------------------------------
(* The request for the finish interrupt is taken after each write: what is *)
(* executed does not depend on whether it stands, and it stands when a     *)
(* draw-done was executed since it was taken.                              *)

Alike(r, q) == [r EXCEPT !.finish = FALSE] = [q EXCEPT !.finish = FALSE]

Tells(r, q) == q.dones >= r.dones /\ (q.finish <=> r.finish \/ q.dones > r.dones)

Blind(lists) ==
    \A a \in FifoByte, r \in Registers, q \in Registers :
        Alike(r, q) => Alike(lists[<<a, r>>], lists[<<a, q>>])

CountsDones(lists) == \A a \in FifoByte, r \in Registers : Tells(r, lists[<<a, r>>])

LEMMA AlikeFields ==
    ASSUME NEW r \in Registers, NEW q \in Registers
    PROVE  Alike(r, q) <=> /\ r.stride = q.stride /\ r.masked = q.masked
                           /\ r.token = q.token /\ r.drawn = q.drawn
                           /\ r.unknown = q.unknown /\ r.dones = q.dones
  BY DEF Alike, Registers

LEMMA TellsMore ==
    ASSUME NEW r \in Registers, NEW p \in Registers, NEW q \in Registers,
           Tells(r, p), Tells(p, q)
    PROVE  Tells(r, q)
<1>1. r.dones \in Nat /\ p.dones \in Nat /\ q.dones \in Nat
  BY DEF Registers
<1>2. q.dones >= r.dones /\ (q.dones > r.dones <=> p.dones > r.dones \/ q.dones > p.dones)
  BY <1>1 DEF Tells
<1> QED
  BY <1>2 DEF Tells

LEMMA TellsSame ==
    ASSUME NEW r \in Registers, NEW q \in Registers, q.dones = r.dones, q.finish = r.finish
    PROVE  Tells(r, q)
<1>1. r.dones \in Nat
  BY DEF Registers
<1>2. r.dones >= r.dones /\ ~(r.dones > r.dones)
  BY <1>1
<1> QED
  BY <1>2 DEF Tells

LEMMA LoadBpEffect ==
    ASSUME NEW r \in Registers, NEW q \in Registers, NEW value \in FifoByte
    PROVE  /\ Tells(r, LoadBp(r, value))
           /\ Alike(r, q) => Alike(LoadBp(r, value), LoadBp(q, value))
<1>1. LoadBp(r, value) \in Registers /\ LoadBp(q, value) \in Registers
  BY LoadBpTyped
<1>2. Tells(r, LoadBp(r, value))
  <2> DEFINE p == LoadBp(r, value)
             token == IF r.masked THEN r.token ELSE value
  <2>1. r.dones \in Nat /\ p.dones \in Nat /\ r.finish \in BOOLEAN
    BY <1>1 DEF Registers
  <2>2. CASE value = BpMask \/ token # DrawDoneToken
    <3>1. p.dones = r.dones /\ p.finish = r.finish
      BY <2>1, <2>2 DEF LoadBp, Registers
    <3> HIDE DEF p
    <3> QED
      BY <1>1, <3>1, TellsSame DEF p
  <2>3. CASE ~(value = BpMask \/ token # DrawDoneToken)
    <3>1. p.dones = r.dones + 1 /\ p.finish
      BY <2>1, <2>3 DEF LoadBp, Registers
    <3> HIDE DEF p
    <3>2. p.dones >= r.dones /\ p.dones > r.dones
      BY <2>1, <3>1
    <3> QED
      BY <3>1, <3>2 DEF Tells, p
  <2> QED
    BY <2>2, <2>3
<1>3. ASSUME Alike(r, q) PROVE Alike(LoadBp(r, value), LoadBp(q, value))
  <2>1. /\ r.stride = q.stride /\ r.masked = q.masked /\ r.token = q.token
        /\ r.drawn = q.drawn /\ r.unknown = q.unknown /\ r.dones = q.dones
    BY <1>3, AlikeFields
  <2>2. LET a == LoadBp(r, value)
            b == LoadBp(q, value)
        IN  /\ a.stride = b.stride /\ a.masked = b.masked /\ a.token = b.token
            /\ a.drawn = b.drawn /\ a.unknown = b.unknown /\ a.dones = b.dones
    BY <2>1 DEF LoadBp, Registers
  <2> QED
    BY <1>1, <2>2, AlikeFields
<1> QED
  BY <1>2, <1>3

\* What a command does, by the fields of the registers it reads.
LEMMA DecodeEffect ==
    ASSUME NEW bytes \in Seq(FifoByte), bytes # <<>>, NEW r \in Registers,
           NEW lists \in ListEffect, CountsDones(lists)
    PROVE  Tells(r, DecodeOne(bytes, r, lists).regs)
<1> DEFINE first == DecodeOne(bytes, r, lists)
<1>1. bytes[1] \in FifoByte /\ first.regs \in Registers
  BY DecodeTyped
<1>2. CASE bytes[1] = Nop \/ Len(bytes) < 2
  <2>1. first.regs = r
    <3>1. first = Decoded(NopRun(bytes), r) \/ first = Decoded(0, r)
      BY <1>2, DecodeCases
    <3> HIDE DEF first
    <3> QED
      BY <3>1 DEF Decoded
  <2> HIDE DEF first
  <2> QED
    BY <1>1, <2>1, TellsSame DEF first
<1>3. CASE bytes[1] # Nop /\ ~(Len(bytes) < 2)
  <2>1. bytes[2] \in FifoByte
    BY <1>3
  <2>2. CASE bytes[1] = Bp
    <3>1. first = Decoded(2, LoadBp(r, bytes[2]))
      BY <1>3, <2>2, DecodeCases
    <3> HIDE DEF first
    <3>2. first.regs = LoadBp(r, bytes[2])
      BY <3>1 DEF Decoded
    <3> QED
      BY <2>1, <3>2, LoadBpEffect DEF first
  <2>3. CASE bytes[1] = Call
    <3>1. first = Decoded(2, lists[<<bytes[2], r>>])
      BY <1>3, <2>3, DecodeCases
    <3> HIDE DEF first
    <3>2. first.regs = lists[<<bytes[2], r>>]
      BY <3>1 DEF Decoded
    <3> QED
      BY <2>1, <3>2 DEF CountsDones, first
  <2>4. CASE bytes[1] = Cp
    <3>1. first = Decoded(2, [r EXCEPT !.stride = bytes[2]])
      BY <1>3, <2>4, DecodeCases
    <3> HIDE DEF first
    <3>2. first.regs.dones = r.dones /\ first.regs.finish = r.finish
      BY <3>1 DEF Decoded, Registers
    <3> QED
      BY <1>1, <3>2, TellsSame DEF first
  <2>5. CASE bytes[1] = Draw
    <3> DEFINE size == DrawSize(r, bytes[2])
    <3>1. CASE ~(size <= Capacity)
      <4>1. first = Decoded(1, [r EXCEPT !.unknown = r.unknown + 1])
        BY <1>3, <2>5, <3>1, DecodeCases
      <4> HIDE DEF first
      <4>2. first.regs.dones = r.dones /\ first.regs.finish = r.finish
        BY <4>1 DEF Decoded, Registers
      <4> QED
        BY <1>1, <4>2, TellsSame DEF first
    <3>2. CASE size <= Capacity /\ Len(bytes) < size
      <4>1. first = Decoded(0, r)
        BY <1>3, <2>5, <3>2, DecodeCases
      <4> HIDE DEF first
      <4>2. first.regs = r
        BY <4>1 DEF Decoded
      <4> QED
        BY <1>1, <4>2, TellsSame DEF first
    <3>3. CASE size <= Capacity /\ ~(Len(bytes) < size)
      <4>1. first = Decoded(size, [r EXCEPT !.drawn = Append(r.drawn, SubSeq(bytes, 3, size))])
        BY <1>3, <2>5, <3>3, DecodeCases
      <4> HIDE DEF first, size
      <4>2. first.regs.dones = r.dones /\ first.regs.finish = r.finish
        BY <4>1 DEF Decoded, Registers
      <4> QED
        BY <1>1, <4>2, TellsSame DEF first
    <3> QED
      BY <3>1, <3>2, <3>3
  <2> QED
    BY <1>1, <1>3, <2>2, <2>3, <2>4, <2>5 DEF FifoByte, Nop, Cp, Bp, Draw, Call
<1> QED
  BY <1>2, <1>3

LEMMA DecodeAlike ==
    ASSUME NEW bytes \in Seq(FifoByte), bytes # <<>>, NEW r \in Registers, NEW q \in Registers,
           Alike(r, q), NEW lists \in ListEffect, Blind(lists)
    PROVE  /\ DecodeOne(bytes, q, lists).size = DecodeOne(bytes, r, lists).size
           /\ Alike(DecodeOne(bytes, r, lists).regs, DecodeOne(bytes, q, lists).regs)
<1> DEFINE a == DecodeOne(bytes, r, lists)
           b == DecodeOne(bytes, q, lists)
           Agree(x, y) == y.size = x.size /\ Alike(x.regs, y.regs)
<1>1. bytes[1] \in FifoByte /\ a.regs \in Registers /\ b.regs \in Registers
  BY DecodeTyped
<1>2. /\ r.stride = q.stride /\ r.masked = q.masked /\ r.token = q.token
      /\ r.drawn = q.drawn /\ r.unknown = q.unknown /\ r.dones = q.dones
  BY AlikeFields
<1>3. \A n, x, y : Alike(x, y) => Agree(Decoded(n, x), Decoded(n, y))
  BY DEF Decoded
<1> SUFFICES Agree(a, b)
  OBVIOUS
<1> HIDE DEF Agree
<1>4. CASE bytes[1] = Nop
  <2>1. a = Decoded(NopRun(bytes), r) /\ b = Decoded(NopRun(bytes), q)
    BY <1>4, DecodeCases
  <2> HIDE DEF a, b
  <2> QED
    BY <1>3, <2>1
<1>5. CASE bytes[1] # Nop /\ Len(bytes) < 2
  <2>1. a = Decoded(0, r) /\ b = Decoded(0, q)
    BY <1>5, DecodeCases
  <2> HIDE DEF a, b
  <2> QED
    BY <1>3, <2>1
<1>6. CASE bytes[1] # Nop /\ ~(Len(bytes) < 2)
  <2> DEFINE value == bytes[2]
  <2>1. value \in FifoByte
    BY <1>6
  <2>2. CASE bytes[1] = Cp
    <3>1. a = Decoded(2, [r EXCEPT !.stride = value]) /\ b = Decoded(2, [q EXCEPT !.stride = value])
      BY <1>6, <2>2, DecodeCases
    <3> HIDE DEF a, b, value
    <3>2. Alike([r EXCEPT !.stride = value], [q EXCEPT !.stride = value])
      BY <1>2, <2>1 DEF Alike, Registers
    <3> QED
      BY <1>3, <3>1, <3>2
  <2>3. CASE bytes[1] = Bp
    <3>1. a = Decoded(2, LoadBp(r, value)) /\ b = Decoded(2, LoadBp(q, value))
      BY <1>6, <2>3, DecodeCases
    <3> HIDE DEF a, b, value
    <3>2. Alike(LoadBp(r, value), LoadBp(q, value))
      BY <2>1, LoadBpEffect
    <3> QED
      BY <1>3, <3>1, <3>2
  <2>4. CASE bytes[1] = Call
    <3>1. a = Decoded(2, lists[<<value, r>>]) /\ b = Decoded(2, lists[<<value, q>>])
      BY <1>6, <2>4, DecodeCases
    <3> HIDE DEF a, b, value
    <3>2. Alike(lists[<<value, r>>], lists[<<value, q>>])
      BY <2>1 DEF Blind
    <3> QED
      BY <1>3, <3>1, <3>2
  <2>5. CASE bytes[1] = Draw
    <3> DEFINE size == DrawSize(r, value)
    <3>1. DrawSize(q, value) = size
      BY <1>2 DEF DrawSize
    <3>2. CASE ~(size <= Capacity)
      <4> DEFINE x == [r EXCEPT !.unknown = r.unknown + 1]
                 y == [q EXCEPT !.unknown = q.unknown + 1]
      <4>1. a = Decoded(1, x)
        BY <1>6, <2>5, <3>2, DecodeCases
      <4>2. b = Decoded(1, y)
        BY <1>6, <2>5, <3>1, <3>2, DecodeCases
      <4>3. Alike(x, y)
        BY <1>2 DEF Alike, Registers
      <4> HIDE DEF a, b, x, y
      <4> QED
        BY <1>3, <4>1, <4>2, <4>3
    <3>3. CASE size <= Capacity /\ Len(bytes) < size
      <4>1. a = Decoded(0, r)
        BY <1>6, <2>5, <3>3, DecodeCases
      <4>2. b = Decoded(0, q)
        BY <1>6, <2>5, <3>1, <3>3, DecodeCases
      <4> HIDE DEF a, b
      <4> QED
        BY <1>3, <4>1, <4>2
    <3>4. CASE size <= Capacity /\ ~(Len(bytes) < size)
      <4> DEFINE vertices == SubSeq(bytes, 3, size)
                 x == [r EXCEPT !.drawn = Append(r.drawn, vertices)]
                 y == [q EXCEPT !.drawn = Append(q.drawn, vertices)]
      <4>1. a = Decoded(size, x)
        BY <1>6, <2>5, <3>4, DecodeCases
      <4>2. b = Decoded(size, y)
        <5>1. bytes[1] = Draw /\ ~(Len(bytes) < 2) /\ DrawSize(q, bytes[2]) <= Capacity
              /\ ~(Len(bytes) < DrawSize(q, bytes[2]))
          BY <1>6, <2>5, <3>1, <3>4
        <5>2. b = Decoded(DrawSize(q, bytes[2]),
                          [q EXCEPT !.drawn =
                             Append(q.drawn, SubSeq(bytes, 3, DrawSize(q, bytes[2])))])
          BY <5>1, DecodeCases
        <5> QED
          BY <3>1, <5>2
      <4> HIDE DEF vertices
      <4>3. Alike(x, y)
        BY <1>2 DEF Alike, Registers
      <4> HIDE DEF a, b, x, y, size
      <4> QED
        BY <1>3, <4>1, <4>2, <4>3
    <3> QED
      BY <3>2, <3>3, <3>4
  <2> QED
    BY <1>1, <1>6, <2>2, <2>3, <2>4, <2>5 DEF FifoByte, Nop, Cp, Bp, Draw, Call
<1> QED
  BY <1>4, <1>5, <1>6

LEMMA FinalTells ==
    ASSUME NEW at \in At, NEW lists \in ListEffect, CountsDones(lists)
    PROVE  Tells(at.regs, Final(at, lists).regs)
<1> DEFINE S == {a \in At : Tells(a.regs, Final(a, lists).regs)}
<1>1. \A a \in At : a.rest \in Seq(FifoByte) /\ a.regs \in Registers
  BY DEF At
<1>2. ASSUME NEW a \in At, Settled(a, lists) PROVE a \in S
  <2>1. Final(a, lists).regs = a.regs
    BY <1>2, FinalStays
  <2> QED
    BY <1>1, <2>1, TellsSame
<1>3. ASSUME NEW a \in At, ~Settled(a, lists), NextCommand(a, lists) \in S PROVE a \in S
  <2> DEFINE next == NextCommand(a, lists)
             end == Final(a, lists)
  <2>1. next \in At /\ end \in At /\ end = Final(next, lists)
    BY TurnTyped, FinalEnds, FinalGoesOn
  <2>2. Tells(next.regs, end.regs)
    BY <1>3, <2>1
  <2>3. Tells(a.regs, next.regs)
    <3>1. a.rest # <<>> /\ next.regs = DecodeOne(a.rest, a.regs, lists).regs
      BY <1>3, NextRest
    <3> HIDE DEF next
    <3> QED
      BY <1>1, <3>1, DecodeEffect
  <2> HIDE DEF next, end
  <2>4. Tells(a.regs, end.regs)
    BY <1>1, <2>1, <2>2, <2>3, TellsMore
  <2> QED
    BY <2>4 DEF end
<1>4. S \in SUBSET At
  OBVIOUS
<1>5. at \in S
  <2> HIDE DEF S
  <2> QED
    BY <1>2, <1>3, <1>4, ByCommands
<1> QED
  BY <1>5

LEMMA FinalAlike ==
    ASSUME NEW at \in At, NEW q \in Registers, NEW lists \in ListEffect, Blind(lists),
           Alike(at.regs, q)
    PROVE  LET a == Final(at, lists)
               b == ProcessStream(at.rest, q, lists)
           IN  b.rest = a.rest /\ Alike(a.regs, b.regs)
<1> DEFINE Agree(a, x) == LET b == ProcessStream(a.rest, x, lists)
                          IN  b.rest = Final(a, lists).rest /\ Alike(Final(a, lists).regs, b.regs)
           S == {a \in At : \A x \in Registers : Alike(a.regs, x) => Agree(a, x)}
<1>1. \A a \in At : a.rest \in Seq(FifoByte) /\ a.regs \in Registers
  BY DEF At
<1>2. ASSUME NEW a \in At, NEW x \in Registers
      PROVE  LET other == [rest |-> a.rest, regs |-> x]
             IN  /\ other \in At /\ other.rest = a.rest /\ other.regs = x
                 /\ Final(other, lists) = ProcessStream(a.rest, x, lists)
  BY <1>1 DEF At, Final
<1>3. ASSUME NEW a \in At, Settled(a, lists) \/ NextCommand(a, lists) \in S,
             NEW x \in Registers, Alike(a.regs, x)
      PROVE  Agree(a, x)
  <2> DEFINE other == [rest |-> a.rest, regs |-> x]
  <2>1. /\ other \in At /\ other.rest = a.rest /\ other.regs = x
        /\ Final(other, lists) = ProcessStream(a.rest, x, lists)
    BY <1>2
  <2> HIDE DEF other
  <2>2. ASSUME a.rest # <<>>
        PROVE  /\ DecodeOne(a.rest, x, lists).size = DecodeOne(a.rest, a.regs, lists).size
               /\ Alike(DecodeOne(a.rest, a.regs, lists).regs, DecodeOne(a.rest, x, lists).regs)
    BY <1>1, <1>3, <2>2, DecodeAlike
  <2>3. Settled(other, lists) <=> Settled(a, lists)
    BY <2>1, <2>2, SettledWhere
  <2>4. CASE Settled(a, lists)
    <3>1. Final(a, lists) = a /\ Final(other, lists) = other
      BY <2>1, <2>3, <2>4, FinalStays
    <3> QED
      BY <1>3, <2>1, <3>1
  <2>5. CASE ~Settled(a, lists)
    <3> DEFINE first == DecodeOne(a.rest, a.regs, lists)
               second == DecodeOne(a.rest, x, lists)
               next == NextCommand(a, lists)
    <3>1. next \in S /\ next \in At /\ Final(a, lists) = Final(next, lists)
      BY <1>3, <2>5, TurnTyped, FinalGoesOn
    <3>2. /\ a.rest # <<>>
          /\ next = [rest |-> SubSeq(a.rest, first.size + 1, Len(a.rest)), regs |-> first.regs]
      BY <2>5, NextRest
    <3>3. NextCommand(other, lists)
            = [rest |-> SubSeq(a.rest, second.size + 1, Len(a.rest)), regs |-> second.regs]
      BY <2>1, <2>3, <2>5, NextRest
    <3>4. second.size = first.size /\ Alike(first.regs, second.regs) /\ second.regs \in Registers
      BY <1>1, <2>2, <3>2, DecodeTyped
    <3> HIDE DEF first, second, next
    <3>5. next.rest = SubSeq(a.rest, first.size + 1, Len(a.rest)) /\ next.regs = first.regs
      BY <3>2
    <3>6. NextCommand(other, lists) = [rest |-> next.rest, regs |-> second.regs]
      BY <3>3, <3>4, <3>5
    <3>7. Final(other, lists) = ProcessStream(next.rest, second.regs, lists)
      <4>1. Final(other, lists) = Final(NextCommand(other, lists), lists)
        BY <2>1, FinalGoesOn
      <4> QED
        BY <3>6, <4>1 DEF Final
    <3>8. Agree(next, second.regs)
      BY <3>1, <3>4, <3>5
    <3> QED
      BY <2>1, <3>1, <3>7, <3>8
  <2> QED
    BY <2>4, <2>5
<1>4. S \in SUBSET At
  OBVIOUS
<1>5. at \in S
  <2> HIDE DEF Agree
  <2>1. \A a \in At : Settled(a, lists) \/ NextCommand(a, lists) \in S => a \in S
    BY <1>3
  <2> HIDE DEF S
  <2> QED
    BY <1>4, <2>1, ByCommands
<1> QED
  BY <1>5
-----------------------------------------------------------------------------
(* The display lists: the effect for each depth that is left is defined    *)
(* from that for one less, and none of them changes what the above needs.  *)

NestedIn(inner, left) ==
    [call \in FifoByte \X Registers |->
        IF left = 0 \/ call[1] \notin DOMAIN ListAt THEN call[2]
        ELSE ProcessStream(ListAt[call[1]], call[2], inner).regs]

LEMMA ListsExist == \E g : g = [left \in 0 .. ListDepth |-> NestedIn(g[left - 1], left)]
<1> DEFINE D == 0 .. ListDepth
           Solved(n) == \E g : /\ g = [l \in D |-> g[l]]
                               /\ \A left \in D : left <= n =>
                                     g[left] = NestedIn(g[left - 1], left)
           T == {n \in Nat : Solved(n)}
<1>1. ListDepth \in Nat
  BY FifoAssumption
<1>2. \A x, y : NestedIn(x, 0) = NestedIn(y, 0)
  BY DEF NestedIn
<1>3. 0 \in T
  <2> DEFINE g == [l \in D |-> NestedIn(0, 0)]
  <2>1. g = [l \in D |-> g[l]]
    OBVIOUS
  <2>2. ASSUME NEW left \in D, left <= 0 PROVE g[left] = NestedIn(g[left - 1], left)
    <3>1. left = 0
      BY <2>2
    <3> QED
      BY <1>2, <3>1
  <2> HIDE DEF g
  <2> QED
    BY <2>1, <2>2
<1>4. ASSUME NEW n \in T PROVE n + 1 \in T
  <2>1. PICK g : /\ g = [l \in D |-> g[l]]
                 /\ \A left \in D : left <= n => g[left] = NestedIn(g[left - 1], left)
    OBVIOUS
  <2> DEFINE h == [l \in D |-> IF l <= n THEN g[l] ELSE NestedIn(g[l - 1], l)]
  <2>2. ASSUME NEW left \in D, left <= n + 1 PROVE h[left] = NestedIn(h[left - 1], left)
    <3>1. h[left] = NestedIn(g[left - 1], left)
      BY <2>1
    <3>2. CASE left = 0
      BY <1>2, <3>1, <3>2
    <3>3. CASE left # 0
      <4>1. left - 1 \in D /\ left - 1 <= n
        BY <1>1, <2>2, <3>3
      <4>2. h[left - 1] = g[left - 1]
        BY <4>1
      <4> QED
        BY <3>1, <4>2
    <3> QED
      BY <3>2, <3>3
  <2>3. h = [l \in D |-> h[l]]
    OBVIOUS
  <2> HIDE DEF h
  <2>4. Solved(n + 1)
    BY <2>2, <2>3
  <2>5. n + 1 \in Nat
    OBVIOUS
  <2> HIDE DEF Solved
  <2> QED
    BY <2>4, <2>5
<1>5. T \in SUBSET Nat
  OBVIOUS
<1>6. ListDepth \in T
  <2> HIDE DEF T
  <2> QED
    BY <1>1, <1>3, <1>4, <1>5, SetInduction
<1>7. PICK g : /\ g = [l \in D |-> g[l]]
               /\ \A left \in D : left <= ListDepth => g[left] = NestedIn(g[left - 1], left)
  BY <1>6
<1>8. \A left \in D : left <= ListDepth
  BY <1>1
<1>9. g = [left \in D |-> NestedIn(g[left - 1], left)]
  BY <1>7, <1>8
<1> QED
  BY <1>9

LEMMA ListsNest ==
    ASSUME NEW left \in 0 .. ListDepth
    PROVE  ExecuteList[left] = NestedIn(ExecuteList[left - 1], left)
<1>1. ExecuteList = CHOOSE g : g = [l \in 0 .. ListDepth |-> NestedIn(g[l - 1], l)]
  BY DEF ExecuteList, NestedIn
<1>2. ExecuteList = [l \in 0 .. ListDepth |-> NestedIn(ExecuteList[l - 1], l)]
  BY <1>1, ListsExist
<1> QED
  BY <1>2

Behaves(lists) == lists \in ListEffect /\ Blind(lists) /\ CountsDones(lists)

LEMMA NestedBehaves ==
    ASSUME NEW inner, NEW left, left = 0 \/ Behaves(inner)
    PROVE  Behaves(NestedIn(inner, left))
<1> DEFINE lists == NestedIn(inner, left)
<1>1. ASSUME NEW a \in FifoByte, NEW r \in Registers
      PROVE  lists[<<a, r>>] = IF left = 0 \/ a \notin DOMAIN ListAt THEN r
                               ELSE ProcessStream(ListAt[a], r, inner).regs
  BY DEF NestedIn
<1>2. ASSUME NEW a \in DOMAIN ListAt, NEW r \in Registers
      PROVE  LET at == [rest |-> ListAt[a], regs |-> r]
             IN  /\ at \in At /\ at.rest = ListAt[a] /\ at.regs = r
                 /\ Final(at, inner) = ProcessStream(ListAt[a], r, inner)
  BY FifoAssumption DEF At, Final
<1>3. ASSUME NEW a \in FifoByte, NEW r \in Registers
      PROVE  lists[<<a, r>>] \in Registers /\ Tells(r, lists[<<a, r>>])
  <2>1. CASE left = 0 \/ a \notin DOMAIN ListAt
    <3>1. lists[<<a, r>>] = r
      BY <1>1, <2>1
    <3> HIDE DEF lists
    <3> QED
      BY <3>1, TellsSame
  <2>2. CASE ~(left = 0 \/ a \notin DOMAIN ListAt)
    <3> DEFINE at == [rest |-> ListAt[a], regs |-> r]
    <3>1. /\ at \in At /\ at.regs = r
          /\ Final(at, inner) = ProcessStream(ListAt[a], r, inner)
      BY <1>2, <2>2
    <3> HIDE DEF at
    <3>2. Final(at, inner) \in At /\ Tells(r, Final(at, inner).regs)
      BY <2>2, <3>1, FinalEnds, FinalTells DEF Behaves
    <3>3. Final(at, inner).regs \in Registers
      BY <3>2 DEF At
    <3>4. lists[<<a, r>>] = Final(at, inner).regs
      BY <1>1, <2>2, <3>1
    <3> QED
      BY <3>2, <3>3, <3>4
  <2> QED
    BY <2>1, <2>2
<1>4. ASSUME NEW a \in FifoByte, NEW r \in Registers, NEW q \in Registers, Alike(r, q)
      PROVE  Alike(lists[<<a, r>>], lists[<<a, q>>])
  <2>1. CASE left = 0 \/ a \notin DOMAIN ListAt
    BY <1>1, <1>4, <2>1
  <2>2. CASE ~(left = 0 \/ a \notin DOMAIN ListAt)
    <3> DEFINE at == [rest |-> ListAt[a], regs |-> r]
    <3>1. /\ at \in At /\ at.rest = ListAt[a] /\ at.regs = r
          /\ Final(at, inner) = ProcessStream(ListAt[a], r, inner)
      BY <1>2, <2>2
    <3> HIDE DEF at
    <3>2. Alike(Final(at, inner).regs, ProcessStream(at.rest, q, inner).regs)
      BY <1>4, <2>2, <3>1, FinalAlike DEF Behaves
    <3>3. /\ lists[<<a, r>>] = Final(at, inner).regs
          /\ lists[<<a, q>>] = ProcessStream(at.rest, q, inner).regs
      BY <1>1, <2>2, <3>1
    <3> QED
      BY <3>2, <3>3
  <2> QED
    BY <2>1, <2>2
<1>5. lists \in ListEffect
  <2>1. \A call \in FifoByte \X Registers : lists[call] \in Registers
    <3> SUFFICES ASSUME NEW call \in FifoByte \X Registers PROVE lists[call] \in Registers
      OBVIOUS
    <3>1. call = <<call[1], call[2]>> /\ call[1] \in FifoByte /\ call[2] \in Registers
      OBVIOUS
    <3> HIDE DEF lists
    <3> QED
      BY <1>3, <3>1
  <2>2. lists = [call \in FifoByte \X Registers |-> lists[call]]
    BY DEF NestedIn
  <2> HIDE DEF lists
  <2> QED
    BY <2>1, <2>2 DEF ListEffect
<1> HIDE DEF lists
<1>6. Behaves(lists)
  BY <1>3, <1>4, <1>5 DEF Behaves, Blind, CountsDones
<1> QED
  BY <1>6 DEF lists

LEMMA ListsBehave == Behaves(Lists)
<1> DEFINE T == {n \in Nat : n <= ListDepth => Behaves(ExecuteList[n])}
<1>1. ListDepth \in Nat
  BY FifoAssumption
<1>2. 0 \in T
  <2>1. 0 \in 0 .. ListDepth
    BY <1>1
  <2> QED
    BY <2>1, ListsNest, NestedBehaves
<1>3. ASSUME NEW n \in T PROVE n + 1 \in T
  <2> SUFFICES ASSUME n + 1 <= ListDepth PROVE Behaves(ExecuteList[n + 1])
    OBVIOUS
  <2>1. n + 1 \in 0 .. ListDepth /\ (n + 1) - 1 = n /\ Behaves(ExecuteList[n])
    BY <1>1
  <2> QED
    BY <2>1, ListsNest, NestedBehaves
<1>4. T \in SUBSET Nat
  OBVIOUS
<1>5. ListDepth \in T
  <2> HIDE DEF T
  <2> QED
    BY <1>1, <1>2, <1>3, <1>4, SetInduction
<1> QED
  BY <1>1, <1>5 DEF Lists
-----------------------------------------------------------------------------
(* The steps.  To the promises the invariant adds the types, that what     *)
(* waits is no complete command, and that no more draw-dones were          *)
(* acknowledged than executed.                                             *)

FifoShape ==
    /\ fifo \in Seq(FifoByte) /\ Len(fifo) <= Capacity
    /\ regs \in Registers /\ ~regs.finish
    /\ pending \in BOOLEAN /\ dropped \in BOOLEAN
    /\ fifoStream \in Seq(FifoByte) /\ acked \in Nat /\ acked <= regs.dones

\* What waits, and with which registers.
Waiting == [rest |-> fifo, regs |-> regs]

FifoIInv == FifoShape /\ Settled(Waiting, Lists) /\ StreamDecoded /\ FinishSignalled

LEMMA ClearedTyped ==
    ASSUME NEW r \in Registers
    PROVE  LET q == [r EXCEPT !.finish = FALSE]
           IN  q \in Registers /\ ~q.finish /\ q.dones = r.dones /\ Alike(r, q)
  BY DEF Registers, Alike

LEMMA FifoInitial == FifoInit => FifoIInv
<1> SUFFICES ASSUME FifoInit PROVE FifoIInv
  OBVIOUS
<1>1. Reset \in Registers /\ Reset.finish = FALSE /\ Reset.dones = 0
  BY DEF Reset, Registers, FifoByte
<1>2. FifoShape
  <2>1. <<>> \in Seq(FifoByte) /\ Len(<<>>) = 0 /\ Capacity \in Nat
    BY FifoAssumption
  <2>2. fifo \in Seq(FifoByte) /\ Len(fifo) <= Capacity /\ fifoStream \in Seq(FifoByte)
    BY <2>1 DEF FifoInit
  <2>3. regs \in Registers /\ ~regs.finish /\ acked \in Nat /\ acked <= regs.dones
    BY <1>1 DEF FifoInit
  <2> QED
    BY <2>2, <2>3 DEF FifoInit, FifoShape
<1>3. Waiting = [rest |-> <<>>, regs |-> Reset] /\ Waiting \in At /\ Waiting.rest = <<>>
  BY <1>1 DEF FifoInit, Waiting, At
<1>4. Lists \in ListEffect
  BY ListsBehave DEF Behaves
<1>5. Settled(Waiting, Lists)
  BY <1>3, <1>4, SettledWhere
<1>6. Final(Waiting, Lists) = Waiting
  BY <1>3, <1>4, <1>5, FinalStays
<1>7. ProcessStream(<<>>, Reset, Lists) = [rest |-> <<>>, regs |-> Reset]
  BY <1>3, <1>6 DEF Final
<1>8. StreamDecoded
  <2>1. [Reset EXCEPT !.finish = FALSE] = Reset
    BY <1>1 DEF Reset
  <2> QED
    BY <1>7, <2>1 DEF FifoInit, StreamDecoded
<1>9. FinishSignalled
  BY <1>1 DEF FifoInit, FinishSignalled
<1> QED
  BY <1>2, <1>5, <1>8, <1>9 DEF FifoIInv

\* A write executes what has become complete.
LEMMA WriteExecutes ==
    ASSUME FifoIInv, NEW n \in WriteSizes, NEW chunk \in [1 .. n -> FifoByte], WriteFifo(chunk)
    PROVE  LET overflow == Len(fifo) + Len(chunk) > Capacity
               before == IF overflow THEN <<>> ELSE fifo
               start == IF overflow THEN [regs EXCEPT !.unknown = @ + 1] ELSE regs
               at == [rest |-> before \o chunk, regs |-> start]
               end == Final(at, Lists)
           IN  /\ chunk \in Seq(FifoByte) /\ Len(chunk) = n
               /\ at \in At /\ Len(at.rest) <= Capacity
               /\ start \in Registers /\ start.dones = regs.dones /\ ~start.finish
               /\ end \in At /\ Settled(end, Lists) /\ Len(end.rest) <= Capacity
               /\ fifo' = end.rest /\ regs' = [end.regs EXCEPT !.finish = FALSE]
               /\ pending' = (pending \/ end.regs.finish)
               /\ dropped' = (dropped \/ overflow)
               /\ fifoStream' = fifoStream \o chunk /\ acked' = acked
<1> DEFINE overflow == Len(fifo) + Len(chunk) > Capacity
           before == IF overflow THEN <<>> ELSE fifo
           start == IF overflow THEN [regs EXCEPT !.unknown = @ + 1] ELSE regs
           at == [rest |-> before \o chunk, regs |-> start]
           end == Final(at, Lists)
<1>1. n \in Nat /\ n <= Capacity /\ Capacity \in Nat
  BY FifoAssumption
<1>2. chunk \in Seq(FifoByte) /\ Len(chunk) = n
  BY <1>1
<1>3. fifo \in Seq(FifoByte) /\ Len(fifo) \in Nat /\ Len(fifo) <= Capacity /\ regs \in Registers
      /\ ~regs.finish
  BY DEF FifoIInv, FifoShape
<1>4. start \in Registers /\ start.dones = regs.dones /\ ~start.finish
  <2>1. regs.unknown + 1 \in Nat
    BY <1>3 DEF Registers
  <2>2. LET more == [regs EXCEPT !.unknown = @ + 1]
        IN  more \in Registers /\ more.dones = regs.dones /\ more.finish = regs.finish
    BY <1>3, <2>1 DEF Registers
  <2> QED
    BY <1>3, <2>2
<1>5. before \o chunk \in Seq(FifoByte) /\ Len(before \o chunk) <= Capacity
  <2>1. CASE overflow
    <3>1. before \o chunk = chunk
      BY <1>2, <2>1
    <3> QED
      BY <1>1, <1>2, <3>1
  <2>2. CASE ~overflow
    <3>1. before = fifo
      BY <2>2
    <3>2. fifo \o chunk \in Seq(FifoByte) /\ Len(fifo \o chunk) = Len(fifo) + Len(chunk)
      BY <1>2, <1>3, Appended
    <3>3. Len(fifo) + Len(chunk) <= Capacity
      BY <1>1, <1>2, <1>3, <2>2
    <3> HIDE DEF before, overflow
    <3> QED
      BY <3>1, <3>2, <3>3
  <2> QED
    BY <2>1, <2>2
<1>6. Lists \in ListEffect
  BY ListsBehave DEF Behaves
<1>7. end = ProcessFifo(before \o chunk, start)
  BY DEF Final, ProcessFifo
<1>8. /\ fifo' = end.rest /\ regs' = [end.regs EXCEPT !.finish = FALSE]
      /\ pending' = (pending \/ end.regs.finish) /\ dropped' = (dropped \/ overflow)
      /\ fifoStream' = fifoStream \o chunk /\ acked' = acked
  <2> HIDE DEF end
  <2> QED
    BY <1>7 DEF WriteFifo
<1> HIDE DEF before, start
<1>9. at \in At /\ Len(at.rest) <= Capacity
  BY <1>4, <1>5 DEF At
<1> HIDE DEF at
<1>10. end \in At /\ Settled(end, Lists) /\ Len(end.rest) <= Len(at.rest)
  BY <1>6, <1>9, FinalTyped
<1> HIDE DEF end
<1>11. Len(end.rest) <= Capacity
  <2>1. Len(end.rest) \in Nat /\ Len(at.rest) \in Nat
    BY <1>9, <1>10 DEF At
  <2>2. \A a, b, c \in Nat : a <= b /\ b <= c => a <= c
    OBVIOUS
  <2> QED
    BY <1>1, <1>9, <1>10, <2>1, <2>2
<1> HIDE DEF overflow
<1> QED
  BY <1>2, <1>4, <1>8, <1>9, <1>10, <1>11 DEF end, at, start, before, overflow

LEMMA WriteKeeps ==
    ASSUME FifoIInv, NEW n \in WriteSizes, NEW chunk \in [1 .. n -> FifoByte], WriteFifo(chunk)
    PROVE  FifoIInv'
<1> DEFINE overflow == Len(fifo) + Len(chunk) > Capacity
           before == IF overflow THEN <<>> ELSE fifo
           start == IF overflow THEN [regs EXCEPT !.unknown = @ + 1] ELSE regs
           at == [rest |-> before \o chunk, regs |-> start]
           end == Final(at, Lists)
<1>1. /\ chunk \in Seq(FifoByte) /\ at \in At
      /\ start \in Registers /\ start.dones = regs.dones /\ ~start.finish
      /\ end \in At /\ Settled(end, Lists) /\ Len(end.rest) <= Capacity
      /\ fifo' = end.rest /\ regs' = [end.regs EXCEPT !.finish = FALSE]
      /\ pending' = (pending \/ end.regs.finish)
      /\ dropped' = (dropped \/ overflow)
      /\ fifoStream' = fifoStream \o chunk /\ acked' = acked
  BY WriteExecutes
<1>2. Behaves(Lists) /\ Lists \in ListEffect
  BY ListsBehave DEF Behaves
<1>3. end.rest \in Seq(FifoByte) /\ end.regs \in Registers /\ at.regs = start /\ at.rest = before \o chunk
  BY <1>1 DEF At
<1>4. Tells(start, end.regs)
  BY <1>1, <1>2, <1>3, FinalTells DEF Behaves
<1> HIDE DEF end
<1>5. regs' \in Registers /\ ~regs'.finish /\ regs'.dones = end.regs.dones /\ Alike(end.regs, regs')
  BY <1>1, <1>3, ClearedTyped
<1>6. FifoShape'
  <2>1. pending \in BOOLEAN /\ dropped \in BOOLEAN /\ fifoStream \in Seq(FifoByte) /\ acked \in Nat
        /\ acked <= regs.dones /\ regs \in Registers
    BY DEF FifoIInv, FifoShape
  <2>2. end.regs.finish \in BOOLEAN /\ end.regs.dones \in Nat /\ regs.dones \in Nat
    BY <1>3, <2>1 DEF Registers
  <2>3. pending' \in BOOLEAN /\ dropped' \in BOOLEAN
    <3> HIDE DEF overflow
    <3>1. (dropped \/ overflow) \in BOOLEAN
      OBVIOUS
    <3> QED
      BY <1>1, <2>1, <2>2, <3>1
  <2>4. fifoStream' \in Seq(FifoByte)
    BY <1>1, <2>1, Appended
  <2>5. acked <= end.regs.dones
    <3>1. end.regs.dones >= regs.dones
      BY <1>1, <1>4 DEF Tells
    <3> QED
      BY <2>1, <2>2, <3>1
  <2> QED
    BY <1>1, <1>3, <1>5, <2>1, <2>3, <2>4, <2>5 DEF FifoShape
<1>7. Settled(Waiting, Lists)'
  <2> DEFINE there == [rest |-> fifo', regs |-> regs']
  <2>1. there \in At /\ there.rest = end.rest /\ there.regs = regs'
    BY <1>1, <1>3, <1>5 DEF At
  <2> HIDE DEF there
  <2>2. end.rest = <<>> \/ DecodeOne(end.rest, end.regs, Lists).size = 0
    BY <1>1, <1>2, SettledWhere
  <2>3. end.rest = <<>> \/ DecodeOne(end.rest, regs', Lists).size = 0
    BY <1>2, <1>3, <1>5, <2>2, DecodeAlike DEF Behaves
  <2>4. Settled(there, Lists)
    BY <1>2, <2>1, <2>3, SettledWhere
  <2> QED
    BY <2>4 DEF there, Waiting, Settled
<1>8. StreamDecoded'
  <2> SUFFICES ASSUME ~dropped'
               PROVE  LET whole == ProcessStream(fifoStream', Reset, Lists)
                      IN  /\ [whole.regs EXCEPT !.finish = FALSE] = regs'
                          /\ whole.rest = fifo'
    BY DEF StreamDecoded
  <2> DEFINE past == [rest |-> fifoStream, regs |-> Reset]
             whole == Final(past, Lists)
             now == Ahead(whole, chunk)
  <2>1. ~dropped /\ ~overflow
    BY <1>1
  <2>2. at = [rest |-> fifo \o chunk, regs |-> regs]
    BY <2>1
  <2>3. past \in At
    <3>1. Reset \in Registers
      BY DEF Reset, Registers, FifoByte
    <3> QED
      BY <3>1 DEF At, FifoIInv, FifoShape
  <2>4. whole \in At /\ whole.regs \in Registers
    BY <1>2, <2>3, FinalEnds DEF At
  <2>5. whole.rest = fifo /\ [whole.regs EXCEPT !.finish = FALSE] = regs
    BY <2>1 DEF FifoIInv, StreamDecoded, Final
  <2>6. ProcessStream(fifoStream', Reset, Lists) = Final(now, Lists)
    <3>1. Final(Ahead(past, chunk), Lists) = Final(now, Lists)
      BY <1>1, <1>2, <2>3, SplitAnywhere
    <3>2. Ahead(past, chunk) = [rest |-> fifoStream', regs |-> Reset]
      BY <1>1 DEF Ahead
    <3> HIDE DEF now
    <3> QED
      BY <3>1, <3>2 DEF Final
  <2> HIDE DEF whole
  <2>7. now \in At /\ now.rest = fifo \o chunk /\ now.regs = whole.regs
    BY <1>1, <2>4, <2>5, AheadTyped DEF Ahead
  <2> HIDE DEF now
  <2>8. regs \in Registers /\ Alike(whole.regs, regs)
    BY <2>4, <2>5, ClearedTyped
  <2>9. end = ProcessStream(fifo \o chunk, regs, Lists)
    BY <2>2 DEF end, Final
  <2>10. end.rest = Final(now, Lists).rest /\ Alike(Final(now, Lists).regs, end.regs)
    BY <1>2, <2>7, <2>8, <2>9, FinalAlike DEF Behaves
  <2> QED
    BY <1>1, <2>6, <2>10 DEF Alike
<1>9. FinishSignalled'
  <2>1. pending \in BOOLEAN /\ acked \in Nat /\ acked <= regs.dones /\ regs \in Registers
        /\ (pending <=> regs.dones > acked)
    BY DEF FifoIInv, FifoShape, FinishSignalled
  <2>2. end.regs.dones \in Nat /\ regs.dones \in Nat
    BY <1>3, <2>1 DEF Registers
  <2>3. end.regs.dones >= regs.dones /\ (end.regs.finish <=> end.regs.dones > regs.dones)
    BY <1>1, <1>4 DEF Tells
  <2>4. end.regs.dones > acked <=> regs.dones > acked \/ end.regs.dones > regs.dones
    BY <2>1, <2>2, <2>3
  <2>5. pending' <=> pending \/ end.regs.finish
    BY <1>1
  <2>6. pending' <=> end.regs.dones > acked
    BY <2>1, <2>3, <2>4, <2>5
  <2> QED
    BY <1>1, <1>5, <2>6 DEF FinishSignalled
<1> QED
  BY <1>6, <1>7, <1>8, <1>9 DEF FifoIInv

LEMMA FifoStep == FifoIInv /\ [FifoNext]_fifoVars => FifoIInv'
<1> SUFFICES ASSUME FifoIInv, [FifoNext]_fifoVars PROVE FifoIInv'
  OBVIOUS
<1>1. ASSUME NEW n \in WriteSizes, NEW chunk \in [1 .. n -> FifoByte], WriteFifo(chunk)
      PROVE  FifoIInv'
  BY <1>1, WriteKeeps
<1>2. CASE AcknowledgeFinish
  <2>1. /\ fifo' = fifo /\ regs' = regs /\ fifoStream' = fifoStream /\ dropped' = dropped
        /\ pending' = FALSE /\ acked' = regs.dones
    BY <1>2 DEF AcknowledgeFinish
  <2>2. regs.dones \in Nat
    BY DEF FifoIInv, FifoShape, Registers
  <2>3. FifoShape'
    <3>1. regs.dones <= regs.dones
      BY <2>2
    <3>2. acked' \in Nat /\ acked' <= regs'.dones
      BY <2>1, <2>2, <3>1
    <3> QED
      BY <2>1, <3>2 DEF FifoIInv, FifoShape
  <2>4. Settled(Waiting, Lists)'
    BY <2>1 DEF FifoIInv, Waiting, Settled
  <2>5. StreamDecoded'
    BY <2>1 DEF FifoIInv, StreamDecoded
  <2>6. FinishSignalled'
    <3>1. ~(regs.dones > regs.dones)
      BY <2>2
    <3> QED
      BY <2>1, <3>1 DEF FinishSignalled
  <2> QED
    BY <2>3, <2>4, <2>5, <2>6 DEF FifoIInv
<1>3. CASE UNCHANGED fifoVars
  BY <1>3 DEF fifoVars, FifoIInv, FifoShape, Waiting, Settled, StreamDecoded, FinishSignalled
<1> QED
  BY <1>1, <1>2, <1>3 DEF FifoNext

\* The invariant of the proof.
THEOREM FifoInvariance == FifoSpec => []FifoIInv
  BY FifoInitial, FifoStep, PTL DEF FifoSpec

\* For any sizes, any display lists and any stream: the FIFO stays in its
\* buffer, and what is left in it is less than one command.
THEOREM FifoTypeCorrect == FifoSpec => []FifoTypeOK
<1>1. FifoIInv => FifoTypeOK
  <2> SUFFICES ASSUME FifoIInv PROVE FifoTypeOK
    OBVIOUS
  <2>1. /\ fifo \in Seq(FifoByte) /\ Len(fifo) <= Capacity /\ regs \in Registers /\ ~regs.finish
        /\ pending \in BOOLEAN /\ dropped \in BOOLEAN /\ Settled(Waiting, Lists)
    BY DEF FifoIInv, FifoShape
  <2>2. fifo \in BoundedSeq(FifoByte, Capacity)
    <3> DEFINE n == Len(fifo)
    <3>1. n \in 0 .. Capacity /\ fifo \in [1 .. n -> FifoByte]
      BY <2>1, FifoAssumption
    <3> HIDE DEF n
    <3>2. \E m \in 0 .. Capacity : fifo \in [1 .. m -> FifoByte]
      BY <3>1
    <3> QED
      BY <3>2 DEF BoundedSeq, SeqOf
  <2>3. fifo # <<>> => DecodeOne(fifo, regs, Lists).size = 0
    <3>1. Waiting \in At /\ Waiting.rest = fifo /\ Waiting.regs = regs
      BY <2>1 DEF Waiting, At
    <3>2. Lists \in ListEffect
      BY ListsBehave DEF Behaves
    <3> QED
      BY <2>1, <3>1, <3>2, SettledWhere
  <2>4. regs.stride \in FifoByte /\ regs.token \in FifoByte
    BY <2>1 DEF Registers
  <2> QED
    BY <2>1, <2>2, <2>3, <2>4 DEF FifoTypeOK
<1> QED
  BY <1>1, FifoInvariance, PTL

\* However the guest splits its stream into writes, what has been executed
\* is what the whole stream says.
THEOREM StreamsAreDecoded == FifoSpec => []StreamDecoded
<1>1. FifoIInv => StreamDecoded
  BY DEF FifoIInv
<1> QED
  BY <1>1, FifoInvariance, PTL

\* The finish interrupt stands exactly when a draw-done was executed that the
\* guest has not acknowledged, however deep in display lists.
THEOREM FinishIsSignalled == FifoSpec => []FinishSignalled
<1>1. FifoIInv => FinishSignalled
  BY DEF FifoIInv
<1> QED
  BY <1>1, FifoInvariance, PTL

\* A full FIFO is emptied only when it holds a draw that leaves no room for a
\* write beside it.
THEOREM OnlyHugeAreDropped == FifoSpec => DropsOnlyHuge
<1> DEFINE Huge == Len(fifo) >= 2 /\ fifo[1] = Draw /\ DrawSize(regs, fifo[2]) > Capacity - Largest
<1>1. ASSUME FifoIInv, [FifoNext]_fifoVars PROVE ~dropped /\ dropped' => Huge
  <2> SUFFICES ASSUME ~dropped, dropped' PROVE Huge
    OBVIOUS
  <2>1. \E n \in WriteSizes : \E chunk \in [1 .. n -> FifoByte] : WriteFifo(chunk)
    <3>1. ~AcknowledgeFinish /\ ~(UNCHANGED fifoVars)
      BY DEF AcknowledgeFinish, fifoVars
    <3> QED
      BY <1>1, <3>1 DEF FifoNext
  <2> PICK n \in WriteSizes : \E chunk \in [1 .. n -> FifoByte] : WriteFifo(chunk)
    BY <2>1
  <2>0. PICK chunk \in [1 .. n -> FifoByte] : WriteFifo(chunk)
    OBVIOUS
  <2>2. n \in Nat /\ n < Capacity /\ Capacity \in Nat
    BY FifoAssumption
  <2>3. Len(chunk) = n /\ Len(fifo) + n > Capacity
    <3>1. Len(chunk) = n
      BY <2>2
    <3>2. dropped' = (dropped \/ Len(fifo) + Len(chunk) > Capacity)
      BY <2>0 DEF WriteFifo
    <3> QED
      BY <3>1, <3>2
  <2>4. Largest \in WriteSizes /\ n <= Largest
    <3>1. WriteSizes \in SUBSET (1 .. Capacity) /\ WriteSizes # {}
      BY <2>2, FifoAssumption
    <3>2. Max(WriteSizes) \in WriteSizes /\ \A m \in WriteSizes : m <= Max(WriteSizes)
      BY <2>2, <3>1, Greatest
    <3>3. Largest \in WriteSizes /\ \A m \in WriteSizes : m <= Largest
      BY <3>2 DEF Largest
    <3> QED
      BY <3>3
  <2>5. Largest \in Nat
    BY <2>4, FifoAssumption
  <2>6. fifo \in Seq(FifoByte) /\ Len(fifo) \in Nat /\ regs \in Registers /\ Settled(Waiting, Lists)
    BY <1>1 DEF FifoIInv, FifoShape
  <2>7. Lists \in ListEffect
    BY ListsBehave DEF Behaves
  <2>8. Len(fifo) >= 2 /\ Len(fifo) # 0
    BY <2>2, <2>3, <2>6
  <2>9. fifo # <<>> /\ fifo[1] \in FifoByte /\ fifo[2] \in FifoByte
    BY <2>6, <2>8
  <2>10. DecodeOne(fifo, regs, Lists).size = 0
    <3>1. Waiting \in At /\ Waiting.rest = fifo /\ Waiting.regs = regs
      BY <2>6 DEF Waiting, At
    <3> QED
      BY <2>6, <2>7, <2>9, <3>1, SettledWhere
  <2>11. ~(Len(fifo) < 2)
    BY <2>6, <2>8
  <2>12. fifo[1] # Nop
    <3>1. fifo[1] = Nop => DecodeOne(fifo, regs, Lists) = Decoded(NopRun(fifo), regs)
      BY <2>6, <2>7, <2>9, DecodeCases
    <3>2. fifo[1] = Nop => NopRun(fifo) \in 1 .. Len(fifo)
      BY <2>6, <2>9, RunOfNops
    <3>3. 0 \notin 1 .. Len(fifo)
      OBVIOUS
    <3> QED
      BY <2>10, <3>1, <3>2, <3>3 DEF Decoded
  <2>13. fifo[1] # Cp /\ fifo[1] # Bp /\ fifo[1] # Call
    <3>1. fifo[1] = Cp => DecodeOne(fifo, regs, Lists)
                            = Decoded(2, [regs EXCEPT !.stride = fifo[2]])
      BY <2>6, <2>7, <2>9, <2>11, DecodeCases
    <3>2. fifo[1] = Bp => DecodeOne(fifo, regs, Lists) = Decoded(2, LoadBp(regs, fifo[2]))
      BY <2>6, <2>7, <2>9, <2>11, DecodeCases
    <3>3. fifo[1] = Call => DecodeOne(fifo, regs, Lists) = Decoded(2, Lists[<<fifo[2], regs>>])
      BY <2>6, <2>7, <2>9, <2>11, DecodeCases
    <3>4. \A r : Decoded(2, r).size # 0
      BY DEF Decoded
    <3> QED
      BY <2>10, <3>1, <3>2, <3>3, <3>4
  <2>14. fifo[1] = Draw
    BY <2>9, <2>12, <2>13 DEF FifoByte, Nop, Cp, Bp, Call, Draw
  <2> DEFINE size == DrawSize(regs, fifo[2])
  <2>15. size \in Nat
    BY <2>6, <2>9, DrawSizes
  <2>16. size <= Capacity => Len(fifo) < size
    <3> SUFFICES ASSUME size <= Capacity, ~(Len(fifo) < size) PROVE FALSE
      OBVIOUS
    <3>1. size = DrawSize(regs, fifo[2])
      OBVIOUS
    <3>2. size # 0
      BY <2>6, <2>9, DrawSizes
    <3> HIDE DEF size
    <3>3. DecodeOne(fifo, regs, Lists) = Decoded(size, AfterDraw(regs, fifo, size))
      BY <2>6, <2>7, <2>9, <2>11, <2>14, <3>1, DecodeDraw
    <3> QED
      BY <2>10, <3>2, <3>3 DEF Decoded
  <2>17. size > Capacity - Largest
    <3> HIDE DEF size
    <3> DEFINE length == Len(fifo)
    <3>1. length \in Nat /\ length + n > Capacity /\ (size <= Capacity => length < size)
      BY <2>3, <2>6, <2>16
    <3> HIDE DEF length
    <3> QED
      BY <2>2, <2>4, <2>5, <2>15, <3>1
  <2> QED
    BY <2>8, <2>14, <2>17
<1>2. FifoIInv /\ [FifoNext]_fifoVars => [~dropped /\ dropped' => Huge]_fifoVars
  BY <1>1
<1> QED
  BY <1>2, FifoInvariance, PTL DEF FifoSpec, DropsOnlyHuge
===============================================================================
