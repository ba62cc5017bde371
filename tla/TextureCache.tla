----------------------------- MODULE TextureCache -----------------------------
(***************************************************************************)
(* What a draw of gx_renderer.c finds as its texture: prepare_texture with *)
(* its cache for every texture map, the invalidations the command stream   *)
(* sends, the palettes it loads, and the captures of the embedded frame    *)
(* buffer that stand in for the image at an address.                       *)
(* An image is the bytes its signature looks at and those it skips: above  *)
(* 512 bytes texture_source_signature hashes one byte in so many.          *)
(***************************************************************************)
EXTENDS Naturals, FiniteSets

CONSTANTS
    TextureMap,    \* GX_TEXTURE_MAP_COUNT
    ImageAddress,  \* bound: addresses of images and of copies
    ImageSize,     \* bound: pixels in an image
    Sampled,       \* bound: what the hashed bytes of an image may be
    Unsampled,       \* bound: what the others may be
    Palette,       \* bound: contents of the texture memory
    Drawing,       \* bound: contents of the embedded frame buffer
    KeyCount,      \* GX_EFB_CAPTURE_KEY_COUNT
    MaxCaptures    \* bound: captures published

ASSUME TextureAssumption ==
    /\ KeyCount \in Nat \ {0} /\ MaxCaptures \in Nat
    /\ ImageSize \subseteq Nat \ {0}
    /\ Sampled # {} /\ Unsampled # {} /\ Palette # {} /\ Drawing # {}

VARIABLES
    image,       \* the guest's images
    palette,     \* g_tmem
    efb,         \* g_efb
    copying,     \* the pending capture: where to, and what it holds
    captured,    \* the published one, and how many there have been
    keys,        \* g_efb_capture.keys, 1 the first
    nextKey,     \* g_efb_capture.next_key
    cache,       \* g_texture_cache
    sinceInvalidate,  \* history: what the images have been since the last invalidation
    published    \* history: the capture that is to be shown

textureVars == <<image, palette, efb, copying, captured, keys, nextKey, cache,
                 sinceInvalidate, published>>

ImageContent == Sampled \X Unsampled
NoCopying == [address |-> 0, pending |-> FALSE, drawing |-> CHOOSE d \in Drawing : TRUE]
NoKey == [valid |-> FALSE, address |-> 0]
\* image0 and image3 of a map: the size and where the image is.
Descriptor == [address : ImageAddress, size : ImageSize]

\* Pixels made from an image and a palette, or from a capture.
FromImage(descriptor) ==
    [source |-> "image", content |-> image[descriptor.address], colours |-> palette,
     descriptor |-> descriptor]
FromCapture(descriptor, drawing) ==
    [source |-> "capture", content |-> drawing, descriptor |-> descriptor]
NoPixels == [source |-> "none"]

Uncached == [valid |-> FALSE, needsValidation |-> FALSE, fromCapture |-> FALSE,
             generation |-> 0, pixels |-> NoPixels, capacity |-> 0]

TextureInit ==
    /\ image \in [ImageAddress -> {CHOOSE i \in ImageContent : TRUE}]
    /\ palette = (CHOOSE p \in Palette : TRUE)
    /\ efb = (CHOOSE d \in Drawing : TRUE)
    /\ copying = NoCopying
    /\ captured = [generation |-> 0, drawing |-> efb]
    /\ keys = [k \in 1..KeyCount |-> NoKey] /\ nextKey = 1
    /\ cache = [m \in TextureMap |-> Uncached]
    /\ sinceInvalidate = [a \in ImageAddress |-> {image[a]}]
    /\ published = efb
-----------------------------------------------------------------------------
\* The guest: it writes an image, and draws.
WriteImage(address, content) ==
    /\ image' = [image EXCEPT ![address] = content]
    /\ sinceInvalidate' = [sinceInvalidate EXCEPT ![address] = @ \cup {content}]
    /\ UNCHANGED <<palette, efb, copying, captured, keys, nextKey, cache, published>>

DrawEfb(drawing) ==
    /\ efb' = drawing
    /\ UNCHANGED <<image, palette, copying, captured, keys, nextKey, cache,
                   sinceInvalidate, published>>

\* load_bp 0x66: the images may have changed.
Invalidate ==
    /\ cache' = [m \in TextureMap |->
                    [cache[m] EXCEPT !.needsValidation = @ \/ cache[m].valid]]
    /\ sinceInvalidate' = [a \in ImageAddress |-> {image[a]}]
    /\ UNCHANGED <<image, palette, efb, copying, captured, keys, nextKey, published>>

(* Mutant: the palette is taken for an image. *)
LoadPaletteValidating(colours) ==
    /\ palette' = colours
    /\ cache' = [m \in TextureMap |->
                    [cache[m] EXCEPT !.needsValidation = @ \/ cache[m].valid]]
    /\ UNCHANGED <<image, efb, copying, captured, keys, nextKey, sinceInvalidate,
                   published>>

\* load_bp 0x65: a palette comes into texture memory.
LoadPalette(colours) ==
    /\ palette' = colours
    /\ cache' = [m \in TextureMap |->
                    [cache[m] EXCEPT !.valid = FALSE, !.needsValidation = FALSE]]
    /\ UNCHANGED <<image, efb, copying, captured, keys, nextKey, sinceInvalidate,
                   published>>

\* queue_efb_texture_capture: a later copy of the frame takes its place.
QueueCapture(address) ==
    /\ copying' = [address |-> address, pending |-> TRUE, drawing |-> efb]
    /\ UNCHANGED <<image, palette, efb, captured, keys, nextKey, cache,
                   sinceInvalidate, published>>

\* The key a capture gets: that of its address, a free one, the next in turn.
KeyFor(address) ==
    LET own   == {k \in 1..KeyCount : keys[k].valid /\ keys[k].address = address}
        free  == {k \in 1..KeyCount : ~keys[k].valid}
        First(s) == CHOOSE k \in s : \A l \in s : k <= l
    IN  IF own # {} THEN First(own) ELSE IF free # {} THEN First(free) ELSE nextKey

\* finish_efb_texture_capture, at GXCopyDisp and at presentation
FinishCapture ==
    /\ copying.pending
    /\ captured.generation < MaxCaptures
    /\ captured' = [generation |-> captured.generation + 1, drawing |-> copying.drawing]
    /\ LET key == KeyFor(copying.address)
       IN  /\ keys' = [keys EXCEPT ![key] = [valid |-> TRUE, address |-> copying.address]]
           /\ nextKey' = (key % KeyCount) + 1
    /\ copying' = [copying EXCEPT !.pending = FALSE]
    /\ published' = copying.drawing
    /\ UNCHANGED <<image, palette, efb, cache, sinceInvalidate>>

-----------------------------------------------------------------------------
\* find_efb_capture
IsCaptured(address) == \E k \in 1..KeyCount : keys[k].valid /\ keys[k].address = address

\* The entry was made for this descriptor.
MadeFor(entry, descriptor) == entry.valid /\ entry.pixels.descriptor = descriptor

\* texture_source_signature of an image
Signature(content) == content[1]

\* The entry may be shown: its pixels are those of this image, or of this capture.
Hit(entry, descriptor) ==
    /\ MadeFor(entry, descriptor)
    /\ IF IsCaptured(descriptor.address)
       THEN entry.fromCapture /\ entry.generation = captured.generation
       ELSE /\ ~entry.fromCapture
            /\ \/ ~entry.needsValidation
               \/ Signature(image[descriptor.address]) = Signature(entry.pixels.content)

NewPixels(descriptor) ==
    IF IsCaptured(descriptor.address) THEN FromCapture(descriptor, captured.drawing)
    ELSE FromImage(descriptor)

\* prepare_texture: an entry is shown as it is,
ShowCached(map, descriptor) ==
    /\ Hit(cache[map], descriptor)
    /\ cache' = [cache EXCEPT ![map].needsValidation = FALSE]
    /\ UNCHANGED <<image, palette, efb, copying, captured, keys, nextKey, sinceInvalidate,
                   published>>

\* or its pixels are made again,
MakeTexture(map, descriptor) ==
    /\ ~Hit(cache[map], descriptor)
    /\ cache' = [cache EXCEPT ![map] =
                    [valid |-> TRUE, needsValidation |-> FALSE,
                     fromCapture |-> IsCaptured(descriptor.address),
                     generation |-> IF IsCaptured(descriptor.address)
                                    THEN captured.generation ELSE 0,
                     pixels |-> NewPixels(descriptor),
                     capacity |-> IF descriptor.size > @.capacity
                                  THEN descriptor.size ELSE @.capacity]]
    /\ UNCHANGED <<image, palette, efb, copying, captured, keys, nextKey, sinceInvalidate,
                   published>>

\* or there is no memory for more pixels, and nothing is shown.  An entry whose
\* image has changed is given up by then.
NoMemory(map, descriptor) ==
    /\ ~Hit(cache[map], descriptor)
    /\ descriptor.size > cache[map].capacity
    /\ cache' = [cache EXCEPT ![map].valid =
                    @ /\ (IsCaptured(descriptor.address) \/ cache[map].fromCapture
                          \/ ~MadeFor(cache[map], descriptor))]
    /\ UNCHANGED <<image, palette, efb, copying, captured, keys, nextKey, sinceInvalidate,
                   published>>

TextureNext ==
    \/ \E address \in ImageAddress, content \in ImageContent : WriteImage(address, content)
    \/ \E drawing \in Drawing : DrawEfb(drawing)
    \/ Invalidate
    \/ \E colours \in Palette : LoadPalette(colours)
    \/ \E address \in ImageAddress : QueueCapture(address)
    \/ FinishCapture
    \/ \E map \in TextureMap, descriptor \in Descriptor :
          \/ ShowCached(map, descriptor)
          \/ MakeTexture(map, descriptor)
          \/ NoMemory(map, descriptor)

TextureSpec == TextureInit /\ [][TextureNext]_textureVars
-----------------------------------------------------------------------------
TextureTypeOK ==
    /\ image \in [ImageAddress -> ImageContent] /\ palette \in Palette /\ efb \in Drawing
    /\ copying.pending \in BOOLEAN /\ copying.drawing \in Drawing
    /\ captured.generation \in 0..MaxCaptures /\ captured.drawing \in Drawing
    /\ DOMAIN keys = 1..KeyCount /\ nextKey \in 1..KeyCount
    /\ \A m \in TextureMap :
          /\ {cache[m].valid, cache[m].needsValidation, cache[m].fromCapture} \subseteq BOOLEAN
          /\ cache[m].generation \in 0..captured.generation

(* A draw shows what its registers name.  Pixels that the frame buffer was *)
(* copied over are those of the copy last published, never of one that     *)
(* waits for the end of its frame.  Any other pixels have the colours that *)
(* are in texture memory, and an image the guest has had there since it    *)
(* last said that images change, as far as the signature can tell.         *)
ShownFresh ==
    [][\A map \in TextureMap, descriptor \in Descriptor :
          ShowCached(map, descriptor) \/ MakeTexture(map, descriptor) =>
             /\ cache'[map].pixels.descriptor = descriptor
             /\ IF IsCaptured(descriptor.address)
                THEN cache'[map].pixels.source = "capture" /\ cache'[map].pixels.content = published
                ELSE /\ cache'[map].pixels.source = "image"
                     /\ cache'[map].pixels.colours = palette
                     /\ \E content \in sinceInvalidate[descriptor.address] :
                           Signature(cache'[map].pixels.content) = Signature(content)
      ]_textureVars
=============================================================================
