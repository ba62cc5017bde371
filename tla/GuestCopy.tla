------------------------------ MODULE GuestCopy ------------------------------
(***************************************************************************)
(* How the host copies between its own buffers and the guest's memory, in  *)
(* ios_hle.c and disc.c: a range is checked once, then copied in chunks    *)
(* that end at page boundaries; a chunk whose page has a host pointer is   *)
(* copied at once, any other through the guest's memory accesses, by words *)
(* and at last by bytes.                                                   *)
(***************************************************************************)
EXTENDS Naturals, Sequences

CONSTANTS
    PageSize, WordSize,    \* SMG3DS_GUEST_COPY_PAGE_SIZE, eight bytes
    AddressSpace,          \* 2^32
    Flat,                  \* the ranges [first, size] of MEM1, its mirrors and
                           \* a MEM2 that is one block of host memory
    Mirror,                \* 2^30: what the physical address is taken modulo
    SparseFirst, SparseEnd,  \* the physical range of a sparse MEM2
    MaxCopy                \* bound: bytes in a copy

ASSUME CopyAssumption ==
    /\ PageSize \in Nat \ {0} /\ WordSize \in Nat \ {0}
    /\ AddressSpace \in Nat /\ Mirror \in Nat \ {0} /\ MaxCopy \in Nat
    /\ Flat \subseteq [first : Nat, size : Nat]
    /\ SparseFirst \in Nat /\ SparseEnd \in Nat /\ SparseEnd <= Mirror

VARIABLES
    copy,      \* the copy in progress: address, size, completed, copied
    moved      \* history: what was copied, guest address and buffer index

copyVars == <<copy, moved>>

NoCopy == [phase |-> "idle", address |-> 0, size |-> 0, completed |-> 0, copied |-> 0]

CopyInit == copy = NoCopy /\ moved = <<>>
-----------------------------------------------------------------------------
(* Mutant: a range may begin in memory and end outside it. *)
RangeBegins(address, size) ==
    \/ \E region \in Flat :
          /\ region.first <= address
          /\ address < region.first + region.size
    \/ /\ SparseFirst <= address % Mirror
       /\ (address % Mirror) + size <= SparseEnd

(* guest_range_valid *)
RangeValid(address, size) ==
    \/ size = 0
    \/ /\ address + size <= AddressSpace
       /\ \/ \E region \in Flat :
                /\ region.first <= address
                /\ address + size <= region.first + region.size
          \/ /\ SparseFirst <= address % Mirror
             /\ (address % Mirror) + size <= SparseEnd

BeginCopy(address, size) ==
    /\ copy.phase = "idle"
    /\ RangeValid(address, size)
    /\ copy' = [NoCopy EXCEPT !.phase = "copy", !.address = address, !.size = size]
    /\ moved' = <<>>

Current == copy.address + copy.completed

\* The rest of the copy, or of the page.
Chunk ==
    LET rest == copy.size - copy.completed
        page == PageSize - (Current % PageSize)
    IN  IF rest < page THEN rest ELSE page

\* Bytes from that place of the chunk on.
Moved(from, count) ==
    moved \o [i \in 1..count |-> <<Current + from + i - 1, copy.completed + from + i - 1>>]

ChunkLeft == Chunk - copy.copied
Copying == copy.phase = "copy" /\ copy.completed < copy.size

\* ppc_memory_pointer gave the page's memory.
CopyChunk ==
    /\ Copying /\ copy.copied = 0
    /\ moved' = Moved(0, Chunk)
    /\ copy' = [copy EXCEPT !.completed = @ + Chunk]

CopyWord ==
    /\ Copying /\ ChunkLeft >= WordSize
    /\ moved' = Moved(copy.copied, WordSize)
    /\ copy' = [copy EXCEPT !.copied = @ + WordSize]

CopyByte ==
    /\ Copying /\ ChunkLeft > 0 /\ ChunkLeft < WordSize
    /\ moved' = Moved(copy.copied, 1)
    /\ copy' = [copy EXCEPT !.copied = @ + 1]

ChunkDone ==
    /\ Copying /\ copy.copied > 0 /\ ChunkLeft = 0
    /\ copy' = [copy EXCEPT !.completed = @ + Chunk, !.copied = 0]
    /\ UNCHANGED moved

CopyDone ==
    /\ copy.phase = "copy" /\ copy.completed = copy.size
    /\ copy' = [copy EXCEPT !.phase = "idle"]
    /\ UNCHANGED moved

CopyNext ==
    \/ \E address \in 0..(AddressSpace - 1), size \in 0..MaxCopy : BeginCopy(address, size)
    \/ CopyChunk \/ CopyWord \/ CopyByte \/ ChunkDone \/ CopyDone

CopySpec == CopyInit /\ [][CopyNext]_copyVars
-----------------------------------------------------------------------------
CopyTypeOK ==
    /\ copy.phase \in {"idle", "copy"}
    /\ copy.address \in Nat /\ copy.size \in 0..MaxCopy
    /\ copy.completed \in 0..copy.size /\ copy.copied \in 0..PageSize

(* Every byte the host touches is one of the guest's memory. *)
Backed(address) ==
    /\ address < AddressSpace
    /\ \/ \E region \in Flat : address \in region.first..(region.first + region.size - 1)
       \/ (address % Mirror) \in SparseFirst..(SparseEnd - 1)

(* A copy that was begun moves every byte of its range, in order and once,  *)
(* each between its own address and its own place in the buffer, and       *)
(* touches nothing that is not memory, however the range lies across pages *)
(* and whichever of them have a host pointer.                              *)
CopyExact ==
    /\ \A i \in DOMAIN moved :
          moved[i] = <<copy.address + i - 1, i - 1>> /\ Backed(moved[i][1])
    /\ copy.completed = copy.size => Len(moved) = copy.size
=============================================================================
