----------------------------- MODULE DiscStream -----------------------------
(***************************************************************************)
(* The disc reads of source/disc.c: the guest names a range of bytes of    *)
(* the disc, and the host finds the extracted files the file system table  *)
(* (FST) puts there and copies the range from them.  One host file stays   *)
(* open between reads; the host remembers where it believes the position   *)
(* in that file to be, and seeks only when it wants another one.           *)
(*                                                                         *)
(* A guest read is one call.  It is split into the calls to the C library  *)
(* it makes, because each of them may fail.  A byte of a host file is      *)
(* named by the file and its position in it.                               *)
(***************************************************************************)
EXTENDS Naturals, Sequences, FiniteSets

CONSTANTS
    FileCount,      \* files in the FST
    DiscSize,       \* bound: the disc offsets
    MaxSize,        \* bound: bytes in a file
    ReadBuffer,     \* SMG3DS_DISC_READ_BUFFER_SIZE
    ShortReads,     \* may fread return less than it was asked for?
    NoFile          \* g_cached_host_file is NULL

ASSUME SizeAssumption ==
    /\ FileCount \in Nat /\ DiscSize \in Nat /\ MaxSize \in Nat
    /\ ReadBuffer \in Nat \ {0}
    /\ ShortReads \in BOOLEAN

File == 1 .. FileCount
ASSUME NoFileAssumption == NoFile \notin File

VARIABLES
    files,      \* g_files: offset and size, in the order of the FST's table
    length,     \* length of the extracted host file
    cached,     \* g_cached_host_file_index, NoFile when nothing is open
    claimed,    \* g_cached_host_file_position
    actual,     \* the position of the open stream
    validated,  \* host_validated of each file
    call        \* the read in progress, or the last one

vars == <<files, length, cached, claimed, actual, validated, call>>
host == <<cached, claimed, actual, validated>>
disc == <<files, length>>

EndOf(f) == files[f].offset + files[f].size

(* parse_fst sorts the files by offset, size and FST index, and refuses a  *)
(* table in which files that are not empty overlap.                        *)
Sorted(table) ==
    \A f, g \in File : f < g =>
        \/ table[f].offset < table[g].offset
        \/ table[f].offset = table[g].offset /\ table[f].size <= table[g].size

Disjoint(table) ==
    \A f, g \in File : f < g /\ table[f].size # 0 /\ table[g].size # 0 =>
        table[f].offset + table[f].size <= table[g].offset

Tables ==
    {table \in [File -> [offset : 0 .. DiscSize - 1, size : 0 .. MaxSize]] :
        Sorted(table) /\ Disjoint(table)}

Idle == [phase |-> "idle", result |-> "none", start |-> 0, length |-> 0,
         fits |-> TRUE, position |-> 0, segment |-> 0, previous |-> NoFile,
         written |-> <<>>]

Init ==
    /\ files \in Tables
    /\ length \in {l \in [File -> 0 .. MaxSize + 1] :
                     \A f \in File :
                        l[f] \in {files[f].size - 1, files[f].size,
                                  files[f].size + 1}}
    /\ cached = NoFile /\ claimed = 0 /\ actual = 0
    /\ validated = [f \in File |-> FALSE]
    /\ call = Idle
-----------------------------------------------------------------------------
(* find_file_at_offset.  The first file that does not begin before the     *)
(* offset, by bisection of the indices low .. high - 1.                    *)
Place == 1 .. FileCount + 1

FirstFrom(offset) ==
    LET search[range \in Place \X Place] ==
            LET low == range[1]
                high == range[2]
                middle == low + (high - low) \div 2
            IN  IF low >= high THEN low
                ELSE IF files[middle].offset < offset
                     THEN search[<<middle + 1, high>>]
                     ELSE search[<<low, middle>>]
    IN  search[<<1, FileCount + 1>>]

(* The last file before that one that is not empty, if it reaches the      *)
(* offset; else the first one that begins there and is not empty.          *)
FilesAt(offset) ==
    LET low == FirstFrom(offset)
        before == {f \in File : f < low /\ files[f].size # 0}
        reaching == {f \in before : (\A g \in before : g <= f) /\ offset < EndOf(f)}
        here == {f \in File : f >= low /\ files[f].size # 0
                               /\ \A g \in low .. f : files[g].offset = offset}
    IN  IF reaching # {} THEN reaching
        ELSE {f \in here : \A g \in here : f <= g}

(* Mutant: a file that ends at the offset still holds it. *)
MappedToTheEnd(offset, count) ==
    \A o \in offset .. offset + count - 1 :
        FilesAt(o) # {} \/ \E f \in File : EndOf(f) = o

(* validate_disc_range: every byte of the range lies in some file.         *)
Mapped(offset, count) ==
    \A o \in offset .. offset + count - 1 : FilesAt(o) # {}

(* How much of the range that is left lies in file f. *)
Least(a, b) == IF a < b THEN a ELSE b
Remaining == call.start + call.length - call.position
SegmentIn(f) == Least(Remaining, EndOf(f) - call.position)
-----------------------------------------------------------------------------
(* open_cached_host_file.  Every outcome is a record of the host's state   *)
(* and whether the stream was returned.                                    *)
Opened(ok, f, believed, real, valid) ==
    [ok |-> ok, cached |-> f, claimed |-> believed, actual |-> real,
     validated |-> valid]

(* Mutant: the believed position outlives the file. *)
ClosedInPlace == Opened(FALSE, NoFile, claimed, actual, validated)

Closed == Opened(FALSE, NoFile, 0, 0, validated)

\* Another file: fopen may fail; a file never seen before must be as long
\* as the FST says, and is left at its end.
Reopen(f) ==
    {Closed} \cup
    (IF validated[f] THEN {Opened(TRUE, f, 0, 0, validated)}
     ELSE IF length[f] < files[f].size THEN {}
     ELSE {Opened(TRUE, f, length[f], length[f],
                  [validated EXCEPT ![f] = TRUE])})

(* Mutant: whatever file is open is taken for the one asked for. *)
StreamOfAnyFile(f) ==
    IF cached # NoFile THEN {Opened(TRUE, cached, claimed, actual, validated)}
    ELSE Reopen(f)

Stream(f) ==
    IF cached = f THEN {Opened(TRUE, f, claimed, actual, validated)}
    ELSE Reopen(f)

\* A seek that fails leaves the stream where it was.
Seek(o, position) ==
    IF o.claimed = position THEN {o}
    ELSE {[o EXCEPT !.ok = FALSE],
          [o EXCEPT !.claimed = position, !.actual = position]}

OpenCached(f, position) ==
    UNION {IF o.ok THEN Seek(o, position) ELSE {o} : o \in Stream(f)}

Install(o) ==
    /\ cached' = o.cached /\ claimed' = o.claimed /\ actual' = o.actual
    /\ validated' = o.validated
-----------------------------------------------------------------------------
Finish(result) ==
    call' = [call EXCEPT !.phase = "idle", !.result = result]

(* smg3ds_disc_read: a read of nothing succeeds; a destination that does   *)
(* not fit, or a byte in no file, is refused.                              *)
Read(start, count, fits) ==
    /\ call.phase = "idle"
    /\ LET accepted == fits /\ Mapped(start, count)
       IN  call' = [Idle EXCEPT
                      !.start = start, !.length = count, !.fits = fits,
                      !.position = start,
                      !.phase = IF accepted /\ count # 0
                                THEN "validate" ELSE "idle",
                      !.result = IF ~accepted THEN "refused"
                                 ELSE IF count = 0 THEN "ok" ELSE "none"]
    /\ UNCHANGED <<disc, host>>

(* validate_host_files: each file of the range is opened at its start; the *)
(* same file twice in a row is opened once.                                *)
ValidateFile ==
    /\ call.phase = "validate" /\ Remaining # 0
    /\ \E f \in FilesAt(call.position) :
        IF f = call.previous
        THEN /\ call' = [call EXCEPT !.position = @ + SegmentIn(f)]
             /\ UNCHANGED host
        ELSE \E o \in OpenCached(f, 0) :
               /\ Install(o)
               /\ IF o.ok
                  THEN call' = [call EXCEPT !.position = @ + SegmentIn(f),
                                            !.previous = f]
                  ELSE Finish("failed")
    /\ UNCHANGED disc

Validated ==
    /\ call.phase = "validate" /\ Remaining = 0
    /\ call' = [call EXCEPT !.phase = "open", !.position = call.start]
    /\ UNCHANGED <<disc, host>>

(* stream_disc_range: open the file at the position, then copy the part of *)
(* the range that lies in it, a buffer at a time.                          *)
OpenSegment ==
    /\ call.phase = "open" /\ Remaining # 0
    /\ \E f \in FilesAt(call.position) :
         \E o \in OpenCached(f, call.position - files[f].offset) :
           /\ Install(o)
           /\ IF o.ok
              THEN call' = [call EXCEPT !.phase = "copy",
                                        !.segment = SegmentIn(f)]
              ELSE Finish("failed")
    /\ UNCHANGED disc

Chunk == Least(call.segment, ReadBuffer)

CopyChunk ==
    /\ call.phase = "copy" /\ call.segment # 0
    /\ actual + Chunk <= length[cached]
    /\ actual' = actual + Chunk
    /\ claimed' = claimed + Chunk
    /\ call' = [call EXCEPT
                  !.position = @ + Chunk, !.segment = @ - Chunk,
                  !.written = @ \o [i \in 1 .. Chunk |-> <<cached, actual + i - 1>>]]
    /\ UNCHANGED <<disc, cached, validated>>

\* At the end of the file, or when the card fails: the stream has moved,
\* the belief has not.
CopyShort ==
    /\ call.phase = "copy" /\ call.segment # 0
    /\ ShortReads \/ actual + Chunk > length[cached]
    /\ \E count \in 0 .. Chunk - 1 :
        /\ actual + count <= length[cached]
        /\ actual' = actual + count
    /\ Finish("failed")
    /\ UNCHANGED <<disc, cached, claimed, validated>>

SegmentDone ==
    /\ call.phase = "copy" /\ call.segment = 0
    /\ call' = [call EXCEPT !.phase = "open"]
    /\ UNCHANGED <<disc, host>>

Streamed ==
    /\ call.phase = "open" /\ Remaining = 0
    /\ Finish("ok")
    /\ UNCHANGED <<disc, host>>

Next ==
    \/ \E start \in 0 .. DiscSize, count \in 0 .. DiscSize, fits \in BOOLEAN :
         Read(start, count, fits)
    \/ ValidateFile \/ Validated
    \/ OpenSegment \/ CopyChunk \/ CopyShort \/ SegmentDone \/ Streamed

Spec == Init /\ [][Next]_vars
-----------------------------------------------------------------------------
(* The host's positions are positions in a file, and nothing is open where *)
(* nothing is cached; a copy is only made from an open file.               *)
TypeOK ==
    /\ files \in Tables
    /\ cached \in File \cup {NoFile}
    /\ claimed \in 0 .. MaxSize + 1
    /\ actual \in 0 .. MaxSize + 1
    /\ validated \in [File -> BOOLEAN]
    /\ cached = NoFile => claimed = 0 /\ actual = 0
    /\ call.phase \in {"idle", "validate", "open", "copy"}
    /\ call.result \in {"none", "ok", "refused", "failed"}
    /\ call.phase = "copy" => cached # NoFile /\ validated[cached]

\* The files the FST puts at an offset, by its definition.
FilesCovering(o) == {f \in File : files[f].offset <= o /\ o < EndOf(f)}

(* disc.h: "The whole range must be covered by indexed FST files; padding  *)
(* and other unmapped disc areas are rejected instead of silently          *)
(* returning zeroes."  A read is refused exactly when it does not fit or   *)
(* names a byte no file covers, and then nothing is written to the guest.  *)
UnmappedRefused ==
    /\ call.result = "refused" <=>
          \/ ~call.fits
          \/ \E o \in call.start .. call.start + call.length - 1 :
                FilesCovering(o) = {}
    /\ call.result = "refused" => call.written = <<>>

\* The byte of the disc at an offset: a file that covers it, and where in it.
ByteAt(o) ==
    LET f == CHOOSE f \in FilesCovering(o) : TRUE
    IN  <<f, o - files[f].offset>>

Expected == [i \in 1 .. call.length |-> ByteAt(call.start + i - 1)]

(* disc.h: "Reads a decrypted, partition-relative disc byte range into     *)
(* guest memory."  A read that succeeds wrote the bytes of its range.      *)
ReadsExact == call.result = "ok" => call.written = Expected

(* When the C library may read short, only a read that begins at the start *)
(* of a file and stays in it can go wrong, because every other one makes   *)
(* the host seek or open a file again.                                     *)
FromFileStart ==
    \E f \in FilesCovering(call.start) :
        call.start = files[f].offset /\ call.start + call.length <= EndOf(f)

ValidatedRange ==
    \A o \in call.start .. call.start + call.length - 1 :
        \A f \in FilesCovering(o) : validated[f]

(* What a read leaves in the guest's memory at any moment, and also when   *)
(* it has failed: nothing before every file of its range has been found as *)
(* long as the FST says; then the bytes of a first part of the range, each *)
(* in its place, and of the whole range when it has succeeded.             *)
WritesExact ==
    /\ call.written # <<>> => ValidatedRange
    /\ ~FromFileStart =>
        /\ Len(call.written) <= call.length
        /\ \A i \in 1 .. Len(call.written) : call.written[i] = ByteAt(call.start + i - 1)
        /\ call.result = "ok" => Len(call.written) = call.length
=============================================================================
