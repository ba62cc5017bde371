----------------------------- MODULE VertexBatch -----------------------------
(***************************************************************************)
(* A draw command of gx_renderer.c.  Three pieces of code each derive the  *)
(* layout of a vertex from the same registers: vertex_size, from which the *)
(* command gets its length; predecode_positions, which walks the vertices  *)
(* for their positions and drops a batch that is off the screen; and       *)
(* decode_and_draw, which walks the others again for everything else.      *)
(* What the attributes hold is left out, but for the two values a walk     *)
(* depends on: a position index of all ones, which skips its vertex, and   *)
(* an index whose address does not fit in 32 bits.                         *)
(***************************************************************************)
EXTENDS Naturals, Sequences, SequencesExt

CONSTANTS
    VertexFormat,   \* bound: layouts
    Primitive,      \* bound: kinds of primitive, 0 to 4
    MaxVertices,    \* GX_MAX_VERTICES
    MaxCount        \* bound: vertices in a command

\* Descriptors: absent, direct, one byte of index (2), two (3)
None == 0
Direct == 1

\* What the registers can say of an attribute and of a vertex.
Attribute == [descriptor : 0..3, component : 0..7, elements : 0..1]
NormalAttribute == [descriptor : 0..3, component : 0..7, ntb : BOOLEAN, index3 : BOOLEAN]
FormatType ==
    [matrices : 0..9, position : Attribute, normal : NormalAttribute,
     colour : [1..2 -> Attribute], texcoord : [1..8 -> Attribute]]

ASSUME BatchAssumption ==
    /\ MaxVertices \in Nat /\ MaxCount \in Nat /\ Primitive \subseteq 0..4
    /\ VertexFormat \subseteq FormatType

ColourNames == <<"colour0", "colour1">>

VARIABLES
    format,      \* the registers of the layout
    primitive,
    count,       \* vertices the command announces
    skipping,    \* vertices whose position index is all ones
    beyond,      \* an index that leads nowhere: its vertex and attribute
    onScreen,    \* may the triangles reach the viewport?
    batch        \* the walk: phase, vertex, offset, produced

batchVars == <<format, primitive, count, skipping, beyond, onScreen, batch>>

\* What may lead nowhere: an attribute that has an index.
IndexedAttributes(f) ==
    {a \in {"position", "normal"} : f[a].descriptor > Direct}
    \cup {ColourNames[c] : c \in {d \in 1..2 : f.colour[d].descriptor > Direct}}

BatchFrom(formats, primitives, counts, visible) ==
    /\ format \in formats
    /\ primitive \in primitives
    /\ count \in counts
    /\ skipping \in IF format.position.descriptor > Direct THEN SUBSET (1..count) ELSE {{}}
    /\ beyond \in {<<>>} \cup ((1..count) \X IndexedAttributes(format))
    /\ ~(\E v \in skipping : beyond = <<v, "position">>)
    /\ onScreen \in visible
    /\ batch = [phase |-> "early", vertex |-> 1, offset |-> 0, produced |-> <<>>]

BatchInit == BatchFrom(VertexFormat, Primitive, 0..MaxCount, BOOLEAN)
-----------------------------------------------------------------------------
ComponentSize(f) == IF f < 2 THEN 1 ELSE IF f < 4 THEN 2 ELSE 4
ColourSize(f) == <<2, 3, 4, 2, 3, 4, 0, 0>>[f + 1]

AttributeSize(descriptor, direct) ==
    IF descriptor = Direct THEN direct
    ELSE IF descriptor = None THEN 0 ELSE descriptor - 1

SumOf(sizes) == FoldLeft(LAMBDA sum, size : sum + size, 0, sizes)

(* Mutant: a normal, its binormal and its tangent share an index. *)
OneIndex(f) == 1

NormalIndices(f) == IF f.normal.ntb /\ f.normal.index3 THEN 3 ELSE 1

\* vertex_size
VertexSize(f) ==
    f.matrices
    + AttributeSize(f.position.descriptor,
                    ComponentSize(f.position.component) * (f.position.elements + 2))
    + (CASE f.normal.descriptor = None -> 0
         [] f.normal.descriptor = Direct ->
              ComponentSize(f.normal.component) * (IF f.normal.ntb THEN 9 ELSE 3)
         [] OTHER -> (f.normal.descriptor - 1) * NormalIndices(f))
    + SumOf([c \in 1..2 |->
               AttributeSize(f.colour[c].descriptor, ColourSize(f.colour[c].component))])
    + SumOf([t \in 1..8 |->
               AttributeSize(f.texcoord[t].descriptor,
                             ComponentSize(f.texcoord[t].component) * (f.texcoord[t].elements + 1))])

\* skip_vertex_attribute
SkipSize(descriptor, direct, indices) ==
    CASE descriptor = None -> 0
      [] descriptor = Direct -> direct
      [] OTHER -> (descriptor - 1) * indices

\* What predecode_positions walks over behind the position.
EarlySize(f) ==
    LET normals == IF f.normal.ntb THEN 9 ELSE 3
    IN  SkipSize(f.normal.descriptor, ComponentSize(f.normal.component) * normals,
                 IF f.normal.descriptor >= 2 /\ normals = 9 /\ f.normal.index3 THEN 3 ELSE 1)
        + SumOf([c \in 1..2 |->
                   SkipSize(f.colour[c].descriptor, ColourSize(f.colour[c].component), 1)])
        + SumOf([t \in 1..8 |->
                   SkipSize(f.texcoord[t].descriptor,
                            ComponentSize(f.texcoord[t].component) * (f.texcoord[t].elements + 1), 1)])

\* reader_take for a direct attribute, reader_index for an indexed one
ReadSize(descriptor, direct) ==
    IF descriptor = Direct THEN direct ELSE SkipSize(descriptor, 0, 1)

\* What decode_and_draw reads behind the position.
FullSize(f) ==
    (IF f.normal.descriptor >= 2 /\ f.normal.ntb /\ f.normal.index3
     THEN 3 * ReadSize(f.normal.descriptor, 0)
     ELSE ReadSize(f.normal.descriptor,
                   ComponentSize(f.normal.component) * (IF f.normal.ntb THEN 9 ELSE 3)))
    + SumOf([c \in 1..2 |->
               ReadSize(f.colour[c].descriptor, ColourSize(f.colour[c].component))])
    + SumOf([t \in 1..8 |->
               ReadSize(f.texcoord[t].descriptor,
                        ComponentSize(f.texcoord[t].component) * (f.texcoord[t].elements + 1))])

PositionSize(f) ==
    ReadSize(f.position.descriptor,
             ComponentSize(f.position.component) * (f.position.elements + 2))

\* The bytes decode_one has cut off for the command, and the vertices walked.
Size == VertexSize(format) * count
Vertices == IF count > MaxVertices THEN MaxVertices ELSE count

\* An attribute of the vertex cannot be fetched: its address is beyond 32 bits,
\* or its direct size is none.  Three indices of a normal are not followed.
Unfetchable(v) ==
    \/ /\ beyond # <<>> /\ beyond[1] = v /\ beyond[2] # "position"
       /\ beyond[2] = "normal" => ~(format.normal.ntb /\ format.normal.index3)
    \/ \E c \in 1..2 :
          /\ format.colour[c].descriptor > Direct
          /\ ColourSize(format.colour[c].component) = 0

PositionMissing(v) == beyond = <<v, "position">>
-----------------------------------------------------------------------------
\* Every second triangle of a strip is turned.
StripTurned(i) == <<i, i - 1, i + 1>>

(* add_triangle_indices: vertices count from 0, lines and points have none. *)
Triangles(kind, n) ==
    CASE kind = 2 -> [i \in 1..(n \div 3) |-> <<3 * i - 3, 3 * i - 2, 3 * i - 1>>]
      [] kind \in {0, 1} ->
           LET quads == n \div 4
               halves == [i \in 1..(2 * quads) |->
                             LET first == 4 * ((i - 1) \div 2)
                             IN  IF i % 2 = 1 THEN <<first, first + 1, first + 2>>
                                 ELSE <<first, first + 2, first + 3>>]
           IN  IF n % 4 = 3 THEN Append(halves, <<n - 3, n - 2, n - 1>>) ELSE halves
      [] kind = 4 -> [i \in 1..(n - 2) |-> <<0, i, i + 1>>]
      [] kind = 3 -> [i \in 1..(n - 2) |->
                         IF i % 2 = 1 THEN <<i - 1, i, i + 1>> ELSE StripTurned(i)]

RefuseBatch ==
    /\ batch' = [batch EXCEPT !.phase = "refused"]
    /\ UNCHANGED <<format, primitive, count, skipping, beyond, onScreen>>

\* The next vertex of a walk, whose attributes behind the position are that wide.
Walk(width, missing) ==
    LET end == batch.offset + format.matrices + PositionSize(format) + width
    IN  IF PositionMissing(batch.vertex) \/ missing \/ end > Size THEN RefuseBatch
        ELSE /\ batch' = [batch EXCEPT
                    !.vertex = @ + 1, !.offset = end,
                    !.produced = IF batch.vertex \in skipping THEN @
                                 ELSE Append(@, batch.vertex)]
             /\ UNCHANGED <<format, primitive, count, skipping, beyond, onScreen>>

EarlyVertex ==
    /\ batch.phase = "early" /\ batch.vertex <= Vertices
    /\ Walk(EarlySize(format), FALSE)

MayReachViewport == Len(Triangles(primitive, Len(batch.produced))) > 0 /\ onScreen

\* All bytes must have been walked; off the screen nothing else is decoded.
EarlyDone ==
    /\ batch.phase = "early" /\ batch.vertex > Vertices
    /\ IF batch.offset # Size THEN RefuseBatch
       ELSE /\ batch' = IF MayReachViewport
                        THEN [phase |-> "full", vertex |-> 1, offset |-> 0, produced |-> <<>>]
                        ELSE [batch EXCEPT !.phase = "culled"]
            /\ UNCHANGED <<format, primitive, count, skipping, beyond, onScreen>>

FullVertex ==
    /\ batch.phase = "full" /\ batch.vertex <= Vertices
    /\ Walk(FullSize(format), Unfetchable(batch.vertex))

FullDone ==
    /\ batch.phase = "full" /\ batch.vertex > Vertices
    /\ IF batch.offset # Size THEN RefuseBatch
       ELSE /\ batch' = [batch EXCEPT !.phase = "drawn"]
            /\ UNCHANGED <<format, primitive, count, skipping, beyond, onScreen>>

BatchNext == EarlyVertex \/ EarlyDone \/ FullVertex \/ FullDone

BatchSpec == BatchInit /\ [][BatchNext]_batchVars
-----------------------------------------------------------------------------
BatchTypeOK ==
    /\ count \in 0..MaxCount /\ skipping \subseteq 1..count /\ onScreen \in BOOLEAN
    /\ batch.phase \in {"early", "culled", "full", "drawn", "refused"}
    /\ batch.vertex \in 1..(Vertices + 1) /\ batch.offset \in 0..Size
    /\ batch.produced \in Seq(1..count)

(* The pairs of vertices a triangle's sides run between, in its sense.     *)
Sides(triangle) ==
    {<<triangle[1], triangle[2]>>, <<triangle[2], triangle[3]>>, <<triangle[3], triangle[1]>>}

(* The three layouts agree: a batch is given up only for an index that     *)
(* leads nowhere, an attribute without bytes, or more vertices than there  *)
(* is room for, never because a walk comes out before or behind the end of *)
(* the command.  What is drawn are the vertices that are not skipped, in   *)
(* their order, and all of them are (vertices without any bytes excepted,  *)
(* of which those there is no room for are dropped silently); the          *)
(* triangles use no other vertices, and two triangles that share a side    *)
(* run along it in opposite senses, so that the batch faces one way.       *)
BatchWalked ==
    LET drawn == batch.produced
        triangles == Triangles(primitive, Len(drawn))
    IN  /\ batch.phase = "refused" =>
              \/ count > MaxVertices \/ beyond # <<>>
              \/ \E v \in 1..count : Unfetchable(v)
        /\ batch.phase \in {"culled", "drawn"} =>
              /\ {drawn[i] : i \in DOMAIN drawn} = (1..Vertices) \ skipping
              /\ \A i, j \in DOMAIN drawn : i < j => drawn[i] < drawn[j]
              /\ Vertices = count \/ VertexSize(format) = 0
        /\ \A i \in DOMAIN triangles :
              /\ \A corner \in 1..3 : triangles[i][corner] \in 0..(Len(drawn) - 1)
              /\ \A j \in DOMAIN triangles :
                    i # j => Sides(triangles[i]) \cap Sides(triangles[j]) = {}
=============================================================================
