--------------------------- MODULE DiscStreamProofs ---------------------------
(***************************************************************************)
(* The disc reads of disc.c, for discs of any size with any number of      *)
(* files.  The first part is about find_file_at_offset: that its bisection *)
(* is well defined and ends where it should (by induction on the width of  *)
(* the interval), and that the walk to its left and right finds the file   *)
(* that covers an offset, whatever files are empty.  The second part is    *)
(* about the reads.                                                        *)
(***************************************************************************)
EXTENDS DiscStream, Lemmas

\* find_file_at_offset's bisection in one step: its two calls are shorter.
Halve(g, offset, range) ==
    LET middle == range[1] + (range[2] - range[1]) \div 2
    IN  IF range[1] >= range[2] THEN range[1]
        ELSE IF files[middle].offset < offset
             THEN g[<<middle + 1, range[2]>>]
             ELSE g[<<range[1], middle>>]

Width(range) == range[2] - range[1]

LEMMA Halving ==
    ASSUME NEW range \in Place \X Place, range[1] < range[2],
           NEW middle, middle = range[1] + (range[2] - range[1]) \div 2
    PROVE  /\ middle \in File /\ range[1] <= middle /\ middle < range[2]
           /\ <<middle + 1, range[2]>> \in Place \X Place
           /\ <<range[1], middle>> \in Place \X Place
           /\ Width(<<middle + 1, range[2]>>) < Width(range)
           /\ Width(<<range[1], middle>>) < Width(range)
<1> DEFINE low == range[1]
           high == range[2]
<1>1. low \in Place /\ high \in Place
  OBVIOUS
<1> USE SizeAssumption DEF Place, File, Width
<1>2. low \in Nat /\ high \in Nat /\ low < high /\ middle = low + (high - low) \div 2
      /\ 1 <= low /\ high <= FileCount + 1 /\ FileCount \in Nat
  BY <1>1
<1> HIDE DEF low, high
<1>3. middle \in Nat /\ low <= middle /\ middle < high
  BY <1>2
<1>4. middle + 1 \in Place /\ middle \in Place
  BY <1>2, <1>3
<1> QED
  BY <1>1, <1>2, <1>3, <1>4 DEF low, high

LEMMA WidthType == \A range \in Place \X Place : Width(range) \in Int /\ Width(range) <= FileCount
  BY SizeAssumption DEF Place, Width

LEMMA Cut ==
    ASSUME NEW g, NEW h, NEW offset, NEW range \in Place \X Place,
           \A r \in Place \X Place : Width(r) < Width(range) => g[r] = h[r]
    PROVE  Halve(g, offset, range) = Halve(h, offset, range)
<1>1. CASE range[1] >= range[2]
  BY <1>1 DEF Halve
<1>2. CASE range[1] < range[2]
  <2> DEFINE middle == range[1] + (range[2] - range[1]) \div 2
  <2>1. /\ <<middle + 1, range[2]>> \in Place \X Place
        /\ <<range[1], middle>> \in Place \X Place
        /\ Width(<<middle + 1, range[2]>>) < Width(range)
        /\ Width(<<range[1], middle>>) < Width(range)
    BY <1>2, Halving
  <2>2. g[<<middle + 1, range[2]>>] = h[<<middle + 1, range[2]>>]
        /\ g[<<range[1], middle>>] = h[<<range[1], middle>>]
    BY <2>1
  <2> QED
    BY <2>2 DEF Halve
<1> QED
  <2>1. range[1] \in Int /\ range[2] \in Int
    BY DEF Place
  <2> QED BY <1>1, <1>2, <2>1

LEMMA SearchExists ==
    ASSUME NEW offset
    PROVE  \E g : g = [range \in Place \X Place |-> Halve(g, offset, range)]
<1> DEFINE Solved(n) ==
      \E g : /\ g = [r \in Place \X Place |-> g[r]]
             /\ \A range \in Place \X Place :
                  Width(range) <= n => g[range] = Halve(g, offset, range)
           T == {n \in Nat : Solved(n)}
<1>1. 0 \in T
  <2> DEFINE g == [r \in Place \X Place |-> r[1]]
  <2>1. ASSUME NEW range \in Place \X Place, Width(range) <= 0
        PROVE g[range] = Halve(g, offset, range)
    <3>1. range[1] >= range[2]
      BY <2>1, SizeAssumption DEF Place, Width
    <3> QED BY <3>1 DEF Halve
  <2> QED BY <2>1
<1>2. ASSUME NEW n \in T PROVE n + 1 \in T
  <2>1. PICK g : /\ g = [r \in Place \X Place |-> g[r]]
                 /\ \A range \in Place \X Place :
                      Width(range) <= n => g[range] = Halve(g, offset, range)
    OBVIOUS
  <2> DEFINE h == [r \in Place \X Place |->
                     IF Width(r) <= n THEN g[r] ELSE Halve(g, offset, r)]
  <2>2. ASSUME NEW range \in Place \X Place, Width(range) <= n + 1
        PROVE  h[range] = Halve(h, offset, range)
    <3>1. \A r \in Place \X Place : Width(r) < Width(range) => g[r] = h[r]
      BY <2>2, WidthType
    <3> HIDE DEF h
    <3>2. Halve(g, offset, range) = Halve(h, offset, range)
      BY <3>1, Cut
    <3>3. h[range] = Halve(g, offset, range)
      BY <2>1 DEF h
    <3> QED BY <3>2, <3>3
  <2>3. h = [r \in Place \X Place |-> h[r]] OBVIOUS
  <2> HIDE DEF h
  <2>4. Solved(n + 1) BY <2>2, <2>3
  <2> QED BY <2>4
<1>3. T = Nat
  <2> HIDE DEF T
  <2>1. T \in SUBSET Nat BY DEF T
  <2> QED BY <1>1, <1>2, <2>1, SetInduction
<1>4. FileCount \in T BY <1>3, SizeAssumption
<1>5. PICK g : /\ g = [r \in Place \X Place |-> g[r]]
               /\ \A range \in Place \X Place :
                    Width(range) <= FileCount => g[range] = Halve(g, offset, range)
  BY <1>4
<1>6. \A range \in Place \X Place : g[range] = Halve(g, offset, range)
  BY <1>5, WidthType
<1>7. g = [range \in Place \X Place |-> Halve(g, offset, range)]
  BY <1>5, <1>6
<1> QED BY <1>7

LEMMA SearchIsSolution ==
    ASSUME NEW offset
    PROVE  \E g : /\ FirstFrom(offset) = g[<<1, FileCount + 1>>]
                  /\ \A range \in Place \X Place : g[range] = Halve(g, offset, range)
<1> DEFINE search == CHOOSE g : g = [range \in Place \X Place |-> Halve(g, offset, range)]
<1>1. search = [range \in Place \X Place |-> Halve(search, offset, range)]
  BY SearchExists
<1>2. FirstFrom(offset) = search[<<1, FileCount + 1>>]
  BY DEF FirstFrom, Halve
<1> HIDE DEF search
<1> QED BY <1>1, <1>2

\* Where the bisection may end: between the files that begin before the
\* offset and those that do not.
Divides(offset, place) ==
    /\ place \in Place
    /\ \A f \in File : f < place <=> files[f].offset < offset

LEMMA TablesType ==
    ASSUME NEW table \in Tables
    PROVE  /\ \A f \in File : /\ table[f].offset \in Nat /\ table[f].size \in Nat
                              /\ table[f].offset < DiscSize /\ table[f].size <= MaxSize
           /\ \A f, g \in File : f < g => table[f].offset <= table[g].offset
           /\ \A f, g \in File : f < g /\ table[f].size # 0 /\ table[g].size # 0 =>
                table[f].offset + table[f].size <= table[g].offset
<1>1. \A f \in File : /\ table[f].offset \in Nat /\ table[f].size \in Nat
                      /\ table[f].offset < DiscSize /\ table[f].size <= MaxSize
  BY SizeAssumption DEF Tables
<1> QED
  BY <1>1 DEF Tables, Sorted, Disjoint

LEMMA BisectionDivides ==
    ASSUME files \in Tables, NEW offset \in Nat
    PROVE  Divides(offset, FirstFrom(offset))
<1>1. PICK g : /\ FirstFrom(offset) = g[<<1, FileCount + 1>>]
               /\ \A range \in Place \X Place : g[range] = Halve(g, offset, range)
  BY SearchIsSolution
<1> DEFINE Bracket(range) ==
             /\ range[1] <= range[2]
             /\ \A f \in File : f < range[1] => files[f].offset < offset
             /\ \A f \in File : f >= range[2] => files[f].offset >= offset
           T == {n \in Nat : \A range \in Place \X Place :
                    Width(range) <= n /\ Bracket(range) => Divides(offset, g[range])}
<1>2. 0 \in T
  <2> SUFFICES ASSUME NEW range \in Place \X Place, Width(range) <= 0, Bracket(range)
               PROVE  Divides(offset, g[range])
    OBVIOUS
  <2>1. range[1] \in Place /\ range[2] \in Place
    OBVIOUS
  <2>2. range[1] = range[2]
    BY <2>1, SizeAssumption DEF Place, Width
  <2>3. g[range] = range[1]
    BY <1>1, <2>1, <2>2, SizeAssumption DEF Halve, Place
  <2> QED
    BY <2>1, <2>2, <2>3, TablesType, SizeAssumption DEF Divides, Place, File
<1>3. ASSUME NEW n \in T PROVE n + 1 \in T
  <2> SUFFICES ASSUME NEW range \in Place \X Place, Width(range) <= n + 1, Bracket(range)
               PROVE  Divides(offset, g[range])
    OBVIOUS
  <2>1. CASE Width(range) <= n
    BY <2>1
  <2>2. CASE ~ Width(range) <= n
    <3> DEFINE middle == range[1] + (range[2] - range[1]) \div 2
               right == <<middle + 1, range[2]>>
               left == <<range[1], middle>>
    <3>1. range[1] \in Place /\ range[2] \in Place /\ range[1] < range[2]
      BY <2>2, WidthType, SizeAssumption DEF Width, Place
    <3>2. /\ middle \in File /\ range[1] <= middle /\ middle < range[2]
          /\ right \in Place \X Place /\ left \in Place \X Place
          /\ Width(right) <= n /\ Width(left) <= n
      <4>1. /\ middle \in File /\ range[1] <= middle /\ middle < range[2]
            /\ right \in Place \X Place /\ left \in Place \X Place
            /\ Width(right) < Width(range) /\ Width(left) < Width(range)
        BY <3>1, Halving
      <4> HIDE DEF middle, right, left
      <4> QED
        BY <4>1, <2>2, WidthType
    <3>3. g[range] = IF files[middle].offset < offset THEN g[right] ELSE g[left]
      BY <1>1, <3>1, SizeAssumption DEF Halve, Place
    <3>m. right[1] = middle + 1 /\ right[2] = range[2] /\ left[1] = range[1] /\ left[2] = middle
      OBVIOUS
    <3> HIDE DEF middle, right, left
    <3>4. CASE files[middle].offset < offset
      <4>1. Bracket(right)
        BY <3>1, <3>2, <3>4, <3>m, TablesType, SizeAssumption DEF File, Place
      <4>2. Divides(offset, g[right])
        BY <4>1, <3>2
      <4> QED
        BY <4>2, <3>3, <3>4
    <3>5. CASE ~ files[middle].offset < offset
      <4>1. Bracket(left)
        BY <3>1, <3>2, <3>5, <3>m, TablesType, SizeAssumption DEF File, Place
      <4>2. Divides(offset, g[left])
        BY <4>1, <3>2
      <4> QED
        BY <4>2, <3>3, <3>5
    <3> QED
      BY <3>4, <3>5
  <2> QED
    BY <2>1, <2>2
<1>4. T = Nat
  <2> HIDE DEF T
  <2>1. T \in SUBSET Nat
    BY DEF T
  <2> QED
    BY <1>2, <1>3, <2>1, SetInduction
<1>5. <<1, FileCount + 1>> \in Place \X Place /\ Bracket(<<1, FileCount + 1>>)
  BY SizeAssumption DEF Place, File
<1>6. Width(<<1, FileCount + 1>>) <= FileCount
  BY <1>5, WidthType
<1>7. FileCount \in T
  BY <1>4, SizeAssumption
<1> QED
  BY <1>1, <1>5, <1>6, <1>7

LEMMA CoveringUnique ==
    ASSUME files \in Tables, NEW offset \in Nat,
           NEW f \in FilesCovering(offset), NEW g \in FilesCovering(offset)
    PROVE  f = g
<1>1. /\ f \in File /\ g \in File /\ files[f].size # 0 /\ files[g].size # 0
      /\ files[f].offset <= offset /\ offset < files[f].offset + files[f].size
      /\ files[g].offset <= offset /\ offset < files[g].offset + files[g].size
  BY TablesType DEF FilesCovering, EndOf
<1>2. f \in Nat /\ g \in Nat
  BY <1>1, SizeAssumption DEF File
<1>3. ASSUME f < g PROVE FALSE
  BY <1>1, <1>2, <1>3, TablesType
<1>4. ASSUME g < f PROVE FALSE
  BY <1>1, <1>2, <1>4, TablesType
<1> QED
  BY <1>2, <1>3, <1>4

LEMMA LookupFinds ==
    ASSUME files \in Tables, NEW offset \in Nat
    PROVE  FilesAt(offset) = FilesCovering(offset)
<1> DEFINE low == FirstFrom(offset)
           before == {f \in File : f < low /\ files[f].size # 0}
           reaching == {f \in before : (\A g \in before : g <= f) /\ offset < EndOf(f)}
           here == {f \in File : f >= low /\ files[f].size # 0
                               /\ \A g \in low .. f : files[g].offset = offset}
           found == IF reaching # {} THEN reaching
                    ELSE {f \in here : \A g \in here : f <= g}
<1>1. /\ low \in Place
      /\ \A f \in File : f < low <=> files[f].offset < offset
  BY BisectionDivides DEF Divides
<1>2. FilesAt(offset) = found
  BY DEF FilesAt
<1> HIDE DEF low
<1>3. \A f \in File : f \in Nat
  BY SizeAssumption DEF File
<1>4. low \in Nat /\ low >= 1
  BY <1>1, SizeAssumption DEF Place
<1>5. \A f \in File : /\ files[f].offset \in Nat /\ files[f].size \in Nat
  BY TablesType
<1>6. \A f \in reaching : f \in FilesCovering(offset)
  BY <1>1, <1>5 DEF FilesCovering, EndOf
<1>7. \A f \in here : f \in FilesCovering(offset)
  <2> SUFFICES ASSUME NEW f \in here PROVE f \in FilesCovering(offset)
    OBVIOUS
  <2>1. f \in low .. f
    BY <1>3, <1>4
  <2> QED
    BY <2>1, <1>5 DEF FilesCovering, EndOf
<1>8. ASSUME NEW f \in FilesCovering(offset), files[f].offset < offset
      PROVE  f \in reaching
  <2>1. f \in File /\ offset < EndOf(f) /\ files[f].size # 0
    BY <1>5 DEF FilesCovering, EndOf
  <2>2. f \in before
    BY <2>1, <1>1, <1>8
  <2>3. ASSUME NEW g \in before PROVE g <= f
    <3>1. CASE f < g
      <4>1. EndOf(f) <= files[g].offset
        BY <3>1, <2>1, <2>3, TablesType DEF EndOf
      <4>2. files[g].offset < offset
        BY <2>3, <1>1
      <4> QED
        BY <4>1, <4>2, <2>1, <2>3, <1>5 DEF EndOf
    <3> QED
      BY <3>1, <2>1, <2>3, <1>3
  <2> QED
    BY <2>1, <2>2, <2>3
<1>9. ASSUME NEW f \in FilesCovering(offset), files[f].offset = offset
      PROVE  f \in here /\ reaching = {}
  <2>1. f \in File /\ offset < EndOf(f) /\ files[f].size # 0
    BY <1>5 DEF FilesCovering, EndOf
  <2>2. f >= low
    BY <2>1, <1>1, <1>3, <1>4, <1>9, <1>5
  <2>3. ASSUME NEW g \in low .. f PROVE files[g].offset = offset
    <3>1. g \in File /\ g >= low /\ g <= f
      BY <1>4, <2>1, SizeAssumption DEF File
    <3>2. files[g].offset >= offset
      BY <3>1, <1>1, <1>3, <1>4, <1>5
    <3>3. files[g].offset <= offset
      BY <3>1, <2>1, <1>3, <1>9, <1>5, TablesType
    <3> QED
      BY <3>1, <3>2, <3>3, <1>5
  <2>4. reaching = {}
    <3> SUFFICES ASSUME NEW g \in reaching PROVE FALSE
      OBVIOUS
    <3>1. g \in FilesCovering(offset)
      BY <1>6
    <3>2. g = f
      BY <3>1, CoveringUnique
    <3> QED
      BY <3>2, <2>2, <2>1, <1>3, <1>4
  <2> QED
    BY <2>1, <2>2, <2>3, <2>4
<1>10. \A f \in FilesCovering(offset) : files[f].offset < offset \/ files[f].offset = offset
  BY <1>5 DEF FilesCovering
<1>11. FilesCovering(offset) \subseteq found
  <2> SUFFICES ASSUME NEW f \in FilesCovering(offset) PROVE f \in found
    OBVIOUS
  <2>1. CASE files[f].offset < offset
    BY <2>1, <1>8
  <2>2. CASE files[f].offset = offset
    <3>1. f \in here /\ reaching = {}
      BY <2>2, <1>9
    <3>2. \A g \in here : f <= g
      <4> SUFFICES ASSUME NEW g \in here PROVE f <= g
        OBVIOUS
      <4>1. f = g
        BY <1>7, CoveringUnique
      <4> QED
        BY <4>1, <3>1, <1>3
    <3> QED
      BY <3>1, <3>2
  <2> QED
    BY <2>1, <2>2, <1>10
<1>12. found \subseteq FilesCovering(offset)
  BY <1>6, <1>7
<1> QED
  BY <1>2, <1>11, <1>12
-----------------------------------------------------------------------------
(* The invariant of the reads.                                             *)

HostType ==
    /\ files \in Tables
    /\ length \in [File -> 0 .. MaxSize + 1]
    /\ cached \in File \cup {NoFile}
    /\ claimed \in 0 .. MaxSize + 1
    /\ actual \in 0 .. MaxSize + 1
    /\ validated \in [File -> BOOLEAN]
    /\ cached = NoFile => claimed = 0 /\ actual = 0
    /\ cached \in File => validated[cached]
    /\ \A f \in File : validated[f] => files[f].size <= length[f]

Phase == {"idle", "validate", "open", "copy"}
Result == {"none", "ok", "refused", "failed"}

CallType ==
    call \in [phase : Phase, result : Result, start : Nat, length : Nat,
              fits : BOOLEAN, position : Nat, segment : Nat,
              previous : File \cup {NoFile}, written : Seq(File \X Nat)]

\* A read goes on only if its whole range is covered.
Covered(start, count) ==
    \A o \in start .. start + count - 1 : FilesCovering(o) # {}

Accepted ==
    call.phase # "idle" =>
        /\ call.result = "none" /\ call.fits /\ call.length # 0
        /\ Covered(call.start, call.length)
        /\ call.start <= call.position
        /\ call.position <= call.start + call.length

\* validate_host_files leaves the file of the last byte open, at its start as
\* the host believes.
Validating ==
    call.phase = "validate" =>
        /\ call.written = <<>>
        /\ call.previous = NoFile => call.position = call.start
        /\ call.previous # NoFile =>
              /\ cached = call.previous /\ claimed = 0
              /\ call.position > call.start
              /\ cached \in FilesCovering(call.position - 1)

BeginsStreaming ==
    call.phase = "open" /\ call.position = call.start =>
        /\ call.written = <<>>
        /\ claimed = 0
        /\ cached \in FilesCovering(call.start + call.length - 1)

Copying ==
    call.phase = "copy" =>
        /\ cached \in File
        /\ claimed + files[cached].offset = call.position
        /\ call.position + call.segment <= EndOf(cached)
        /\ call.position + call.segment <= call.start + call.length
        /\ call.segment = 0 => call.position > call.start

\* A read for which the host's belief about the position must be right.
Trusted == ~ShortReads \/ ~FromFileStart

Underway == call.phase = "copy" \/ (call.phase = "open" /\ call.position > call.start)

PositionKnown ==
    /\ ~ShortReads => claimed = actual
    /\ Underway /\ Trusted => claimed = actual

\* The byte that belongs at a place of the read.
ByteOf(i) == ByteAt(call.start + i - 1)

Delivered ==
    (Underway \/ call.result = "ok") /\ Trusted =>
        /\ Len(call.written) = call.position - call.start
        /\ \A i \in 1 .. Len(call.written) : call.written[i] = ByteOf(i)

ReadComplete == call.result = "ok" => call.position = call.start + call.length

IInv ==
    /\ HostType /\ CallType
    /\ UnmappedRefused /\ Accepted
    /\ Validating /\ BeginsStreaming /\ Copying
    /\ PositionKnown /\ Delivered /\ ReadComplete
-----------------------------------------------------------------------------
(* open_cached_host_file and the parts of a range.                         *)

Outcome ==
    [ok : BOOLEAN, cached : File \cup {NoFile}, claimed : 0 .. MaxSize + 1,
     actual : 0 .. MaxSize + 1, validated : [File -> BOOLEAN]]

\* An outcome keeps what HostType says of the host's state.
Consistent(o) ==
    /\ o.cached = NoFile => o.claimed = 0 /\ o.actual = 0
    /\ o.cached \in File => o.validated[o.cached]
    /\ \A f \in File : o.validated[f] => files[f].size <= length[f]

\* The host's belief is right, or it is what it was about the same file.
KeepsBelief(o) ==
    \/ o.claimed = o.actual
    \/ o.cached = cached /\ o.claimed = claimed /\ o.actual = actual

LEMMA StreamOutcome ==
    ASSUME HostType, NEW f \in File, NEW o \in Stream(f)
    PROVE  /\ o \in Outcome /\ Consistent(o) /\ KeepsBelief(o)
           /\ o.ok => o.cached = f
<1> USE DEF HostType, Outcome, Consistent, KeepsBelief, Opened
<1>1. MaxSize \in Nat /\ f # NoFile
  BY SizeAssumption, NoFileAssumption
<1>2. /\ files[f].size \in Nat /\ length[f] \in 0 .. MaxSize + 1
  BY TablesType
<1>3. CASE cached = f
  <2>1. o = [ok |-> TRUE, cached |-> f, claimed |-> claimed, actual |-> actual,
             validated |-> validated]
    BY <1>3 DEF Stream
  <2>2. o \in Outcome /\ Consistent(o)
    BY <1>1, <1>3, <2>1
  <2>3. KeepsBelief(o) /\ o.cached = f
    BY <1>3, <2>1
  <2> QED
    BY <2>2, <2>3
<1>4. CASE cached # f
  <2>1. o \in Reopen(f)
    BY <1>4 DEF Stream
  <2>2. CASE o = Closed
    BY <1>1, <2>2, NoFileAssumption DEF Closed
  <2>3. CASE validated[f] /\ o = Opened(TRUE, f, 0, 0, validated)
    BY <1>1, <2>3
  <2>4. CASE /\ ~ length[f] < files[f].size
             /\ o = Opened(TRUE, f, length[f], length[f], [validated EXCEPT ![f] = TRUE])
    <3>1. files[f].size <= length[f]
      BY <1>2, <2>4
    <3> QED
      BY <1>1, <1>2, <2>4, <3>1
  <2> QED
    BY <2>1, <2>2, <2>3, <2>4 DEF Reopen
<1> QED
  BY <1>3, <1>4

LEMMA OpenOutcome ==
    ASSUME HostType, NEW f \in File, NEW position \in 0 .. MaxSize,
           NEW o \in OpenCached(f, position)
    PROVE  /\ o \in Outcome /\ Consistent(o) /\ KeepsBelief(o)
           /\ o.ok => o.cached = f /\ o.claimed = position
<1>1. PICK s \in Stream(f) : o \in IF s.ok THEN Seek(s, position) ELSE {s}
  BY DEF OpenCached
<1>2. /\ s \in Outcome /\ Consistent(s) /\ KeepsBelief(s)
      /\ s.ok => s.cached = f
  BY StreamOutcome
<1>3. MaxSize \in Nat /\ f # NoFile
  BY SizeAssumption, NoFileAssumption
<1>4. CASE ~s.ok
  BY <1>1, <1>2, <1>4
<1>5. CASE s.ok
  <2>1. o \in Seek(s, position)
    BY <1>1, <1>5
  <2>2. CASE s.claimed = position
    BY <2>1, <2>2, <1>2, <1>5 DEF Seek
  <2>3. CASE s.claimed # position /\ o = [s EXCEPT !.ok = FALSE]
    BY <2>3, <1>2 DEF Outcome, Consistent, KeepsBelief
  <2>4. CASE s.claimed # position /\ o = [s EXCEPT !.claimed = position, !.actual = position]
    <3>1. /\ o.ok = s.ok /\ o.cached = s.cached /\ o.validated = s.validated
          /\ o.claimed = position /\ o.actual = position
      BY <2>4, <1>2 DEF Outcome
    <3>2. o \in Outcome
      <4>1. position \in 0 .. MaxSize + 1
        BY <1>3
      <4>2. o = [ok |-> s.ok, cached |-> s.cached, claimed |-> position,
                 actual |-> position, validated |-> s.validated]
        BY <2>4, <1>2 DEF Outcome
      <4> QED
        BY <4>1, <4>2, <1>2 DEF Outcome
    <3> QED
      BY <3>1, <3>2, <1>2, <1>3, <1>5 DEF Consistent, KeepsBelief
  <2> QED
    BY <2>1, <2>2, <2>3, <2>4 DEF Seek
<1> QED
  BY <1>4, <1>5

LEMMA CoveringType ==
    ASSUME files \in Tables, NEW o \in Nat, NEW f \in FilesCovering(o)
    PROVE  /\ f \in File /\ EndOf(f) \in Nat
           /\ files[f].offset \in Nat /\ files[f].size \in Nat /\ files[f].size <= MaxSize
           /\ EndOf(f) = files[f].offset + files[f].size
           /\ files[f].offset <= o /\ o < EndOf(f)
           /\ o - files[f].offset \in 0 .. MaxSize
  BY TablesType, SizeAssumption DEF FilesCovering, EndOf

\* A segment of the range is not empty and stays in its file and in the range.
LEMMA SegmentBounds ==
    ASSUME files \in Tables, CallType, Accepted, call.phase # "idle", Remaining # 0,
           NEW f \in FilesAt(call.position)
    PROVE  /\ f \in FilesCovering(call.position)
           /\ SegmentIn(f) \in Nat /\ SegmentIn(f) > 0
           /\ call.position + SegmentIn(f) <= call.start + call.length
           /\ call.position + SegmentIn(f) <= EndOf(f)
           /\ files[f].offset <= call.position
<1>1. call.position \in Nat /\ call.start \in Nat /\ call.length \in Nat
  BY DEF CallType
<1>2. f \in FilesCovering(call.position)
  BY <1>1, LookupFinds
<1>3. /\ EndOf(f) \in Nat /\ call.position < EndOf(f)
      /\ files[f].offset <= call.position
  BY <1>1, <1>2, CoveringType
<1>4. Remaining \in Nat /\ Remaining > 0
      /\ Remaining = call.start + call.length - call.position
  BY <1>1 DEF Remaining, Accepted
<1> QED
  BY <1>1, <1>2, <1>3, <1>4 DEF SegmentIn, Least
-----------------------------------------------------------------------------
(* The steps.                                                              *)

LEMMA IdleType == Idle.phase = "idle" /\ Idle.result = "none" /\ Idle.written = <<>>
                  /\ Idle.start = 0 /\ Idle.length = 0 /\ Idle.fits = TRUE
                  /\ Idle.position = 0
  BY DEF Idle

LEMMA EmptySequence == <<>> \in Seq(File \X Nat) /\ Len(<<>>) = 0
  OBVIOUS

LEMMA DiscInitial == Init => IInv
<1> SUFFICES ASSUME Init PROVE IInv
  OBVIOUS
<1>1. HostType
  BY SizeAssumption, NoFileAssumption DEF Init, HostType
<1>2. CallType
  BY EmptySequence DEF Init, Idle, CallType, Phase, Result
<1>3. UnmappedRefused
  BY IdleType DEF Init, UnmappedRefused
<1>4. Accepted /\ Validating /\ BeginsStreaming /\ Copying /\ ReadComplete
  BY IdleType DEF Init, Accepted, Validating, BeginsStreaming, Copying, ReadComplete
<1>5. PositionKnown /\ Delivered
  BY IdleType DEF Init, PositionKnown, Delivered, Underway
<1> QED
  BY <1>1, <1>2, <1>3, <1>4, <1>5 DEF IInv

\* Functions of the disc alone.
LEMMA DiscUnchanged ==
    ASSUME UNCHANGED files
    PROVE  /\ \A o : FilesCovering(o)' = FilesCovering(o)
           /\ \A f : EndOf(f)' = EndOf(f)
  BY DEF FilesCovering, EndOf

\* The read's range does not change during it.
SameRead == /\ call'.start = call.start /\ call'.length = call.length
            /\ call'.fits = call.fits

LEMMA RangeUnchanged ==
    ASSUME UNCHANGED files, SameRead
    PROVE  /\ Trusted' = Trusted
           /\ \A i : ByteOf(i)' = ByteOf(i)
           /\ Covered(call.start, call.length)' = Covered(call.start, call.length)
  BY DiscUnchanged DEF Trusted, FromFileStart, ByteOf, ByteAt, Covered, SameRead, FilesCovering, EndOf

LEMMA ReadKeeps ==
    ASSUME IInv, NEW start \in Nat, NEW count \in Nat, NEW fits \in BOOLEAN,
           Read(start, count, fits)
    PROVE  IInv'
<1> DEFINE accepted == fits /\ Mapped(start, count)
           next == [Idle EXCEPT
                      !.start = start, !.length = count, !.fits = fits,
                      !.position = start,
                      !.phase = IF accepted /\ count # 0 THEN "validate" ELSE "idle",
                      !.result = IF ~accepted THEN "refused"
                                 ELSE IF count = 0 THEN "ok" ELSE "none"]
<1>1. /\ call' = next /\ UNCHANGED <<disc, host>>
  BY DEF Read
<1>2. /\ next.start = start /\ next.length = count /\ next.fits = fits
      /\ next.position = start /\ next.segment = 0 /\ next.previous = NoFile
      /\ next.written = <<>>
      /\ next.phase = (IF accepted /\ count # 0 THEN "validate" ELSE "idle")
      /\ next.result = (IF ~accepted THEN "refused" ELSE IF count = 0 THEN "ok" ELSE "none")
  BY DEF Idle
<1>3. CallType'
  BY <1>1, EmptySequence DEF Idle, CallType, Phase, Result
<1> HIDE DEF next
<1>4. UNCHANGED <<files, length, cached, claimed, actual, validated>>
  BY <1>1 DEF disc, host
<1>5. HostType'
  BY <1>4 DEF IInv, HostType
<1>6. \A o : FilesCovering(o)' = FilesCovering(o)
  BY <1>4, DiscUnchanged
<1>7. Mapped(start, count) <=> Covered(start, count)
  <2>1. \A o \in start .. start + count - 1 : o \in Nat
    OBVIOUS
  <2> QED
    BY <2>1, LookupFinds DEF Mapped, Covered, IInv, HostType
<1>8. accepted <=> fits /\ Covered(start, count)
  BY <1>7
<1> HIDE DEF accepted
<1>9. UnmappedRefused'
  BY <1>1, <1>2, <1>6, <1>8 DEF UnmappedRefused, Covered
<1>10. Accepted'
  BY <1>1, <1>2, <1>6, <1>8 DEF Accepted, Covered
<1>11. (Validating /\ BeginsStreaming /\ Copying /\ ReadComplete)'
  BY <1>1, <1>2 DEF Validating, BeginsStreaming, Copying, ReadComplete
<1>12. PositionKnown'
  BY <1>1, <1>2, <1>4 DEF PositionKnown, Underway, IInv
<1>13. Delivered'
  <2>1. ~Underway'
    BY <1>1, <1>2 DEF Underway
  <2>2. call'.written = <<>> /\ call'.position - call'.start = 0
    BY <1>1, <1>2
  <2> QED
    BY <2>1, <2>2, EmptySequence DEF Delivered
<1> QED
  BY <1>3, <1>5, <1>9, <1>10, <1>11, <1>12, <1>13 DEF IInv

\* A call of open_cached_host_file leaves the host's state in its types.
LEMMA InstallKeeps ==
    ASSUME HostType, UNCHANGED disc, NEW o \in Outcome, Consistent(o), Install(o)
    PROVE  HostType'
  BY DEF HostType, Outcome, Consistent, Install, disc

\* A read that fails promises nothing more.
LEMMA FailKeeps ==
    ASSUME IInv, call.phase # "idle", Finish("failed"), UNCHANGED disc, HostType',
           ~ShortReads => claimed' = actual'
    PROVE  IInv'
<1>1. call' = [call EXCEPT !.phase = "idle", !.result = "failed"]
  BY DEF Finish
<1>2. CallType /\ CallType'
  BY <1>1 DEF IInv, CallType, Phase, Result
<1>3. /\ call'.phase = "idle" /\ call'.result = "failed" /\ SameRead
      /\ call'.written = call.written
  BY <1>1, <1>2 DEF CallType, SameRead
<1>4. UNCHANGED files
  BY DEF disc
<1>5. call.result = "none" /\ call.fits /\ Covered(call.start, call.length)
  BY DEF IInv, Accepted
<1>6. UnmappedRefused'
  BY <1>3, <1>4, <1>5, DiscUnchanged DEF UnmappedRefused, Covered, SameRead
<1>7. (Accepted /\ Validating /\ BeginsStreaming /\ Copying /\ ReadComplete)'
  BY <1>3 DEF Accepted, Validating, BeginsStreaming, Copying, ReadComplete
<1>8. (PositionKnown /\ Delivered)'
  BY <1>3 DEF PositionKnown, Delivered, Underway
<1> QED
  BY <1>2, <1>6, <1>7, <1>8 DEF IInv

\* What a step that goes on with a read need not be asked again.
LEMMA GoesOn ==
    ASSUME IInv, call.phase # "idle", UNCHANGED disc, SameRead,
           call'.result = call.result, call'.written \in Seq(File \X Nat)
    PROVE  /\ UnmappedRefused'
           /\ call'.result = "none" /\ call'.fits /\ call'.length # 0
           /\ Covered(call.start, call.length)'
           /\ ReadComplete'
           /\ Trusted' = Trusted /\ \A i : ByteOf(i)' = ByteOf(i)
<1>1. UNCHANGED files
  BY DEF disc
<1>2. /\ call.result = "none" /\ call.fits /\ call.length # 0
      /\ Covered(call.start, call.length)
  BY DEF IInv, Accepted
<1>3. UnmappedRefused'
  BY <1>1, <1>2, DiscUnchanged DEF UnmappedRefused, Covered, SameRead
<1> QED
  BY <1>1, <1>2, <1>3, RangeUnchanged DEF SameRead, ReadComplete

\* A byte is in one file.
LEMMA ByteOfFile ==
    ASSUME files \in Tables, NEW o \in Nat, NEW f \in FilesCovering(o)
    PROVE  ByteAt(o) = <<f, o - files[f].offset>>
<1> DEFINE covering == FilesCovering(o)
<1>1. \A g \in covering : g = f
  BY CoveringUnique
<1>2. f \in covering
  OBVIOUS
<1>3. ByteAt(o) = <<CHOOSE g \in covering : TRUE, o - files[CHOOSE g \in covering : TRUE].offset>>
  BY DEF ByteAt
<1> HIDE DEF covering
<1>4. (CHOOSE g \in covering : TRUE) = f
  BY <1>1, <1>2
<1> QED
  BY <1>3, <1>4

LEMMA ValidateFileKeeps == IInv /\ ValidateFile => IInv'
<1> SUFFICES ASSUME IInv, ValidateFile PROVE IInv'
  OBVIOUS
<1>1. /\ call.phase = "validate" /\ Remaining # 0 /\ UNCHANGED disc
  BY DEF ValidateFile
<1>2. PICK f \in FilesAt(call.position) :
        IF f = call.previous
        THEN /\ call' = [call EXCEPT !.position = @ + SegmentIn(f)]
             /\ UNCHANGED host
        ELSE \E o \in OpenCached(f, 0) :
               /\ Install(o)
               /\ IF o.ok
                  THEN call' = [call EXCEPT !.position = @ + SegmentIn(f),
                                            !.previous = f]
                  ELSE Finish("failed")
  BY DEF ValidateFile
<1>3. HostType /\ CallType /\ Accepted /\ Validating /\ PositionKnown /\ Delivered
  BY DEF IInv
<1>4. files \in Tables /\ call.position \in Nat /\ call.start \in Nat
      /\ UNCHANGED files
  BY <1>3, <1>1 DEF HostType, CallType, disc
<1>5. /\ f \in FilesCovering(call.position)
      /\ SegmentIn(f) \in Nat /\ SegmentIn(f) > 0
      /\ call.position + SegmentIn(f) <= call.start + call.length
      /\ call.position + SegmentIn(f) <= EndOf(f)
      /\ files[f].offset <= call.position
  BY <1>1, <1>2, <1>3, <1>4, SegmentBounds
<1>6. f \in File /\ f # NoFile /\ 0 \in 0 .. MaxSize
  BY <1>4, <1>5, CoveringType, NoFileAssumption, SizeAssumption
<1> DEFINE next == call.position + SegmentIn(f)
<1>7. f \in FilesCovering(next - 1)
  <2>1. EndOf(f) \in Nat /\ files[f].offset \in Nat
    BY <1>4, <1>5, CoveringType
  <2> QED
    BY <1>4, <1>5, <1>6, <2>1 DEF FilesCovering
\* The file is open at its start, or it is the one that already is.
<1>8. ASSUME HostType', cached' = f, claimed' = 0, ~ShortReads => claimed' = actual',
             call' = [call EXCEPT !.position = next, !.previous = f]
      PROVE  IInv'
  <2> next \in Nat
    BY <1>4, <1>5
  <2> HIDE DEF next
  <2>1. CallType'
    BY <1>3, <1>6, <1>8 DEF CallType
  <2>2. /\ SameRead /\ call'.phase = "validate" /\ call'.result = call.result
        /\ call'.written = call.written /\ call'.position = next /\ call'.previous = f
    BY <1>1, <1>3, <1>8 DEF CallType, SameRead
  <2>3. call'.written \in Seq(File \X Nat)
    BY <1>3, <2>2 DEF CallType
  <2>4. /\ UnmappedRefused' /\ ReadComplete'
        /\ call'.result = "none" /\ call'.fits /\ call'.length # 0
        /\ Covered(call.start, call.length)'
    BY <1>1, <2>2, <2>3, GoesOn
  <2>5. Accepted'
    <3>1. call.start <= next /\ next <= call.start + call.length
      BY <1>1, <1>3, <1>4, <1>5 DEF Accepted, next
    <3> QED
      BY <2>2, <2>4, <3>1 DEF Accepted, SameRead, Covered
  <2>6. Validating'
    <3>1. (f \in FilesCovering(call.position - 1))'
      BY <1>4, <1>7, <2>2 DEF FilesCovering, EndOf
    <3>2. next > call.start
      BY <1>1, <1>3, <1>4, <1>5 DEF Accepted, next
    <3>3. call.written = <<>>
      BY <1>1, <1>3 DEF Validating
    <3> QED
      BY <1>6, <1>8, <2>2, <3>1, <3>2, <3>3 DEF Validating, SameRead
  <2>7. (BeginsStreaming /\ Copying)' /\ PositionKnown' /\ Delivered'
    BY <2>2, <2>4, <1>8 DEF BeginsStreaming, Copying, PositionKnown, Delivered, Underway
  <2> QED
    BY <1>8, <2>1, <2>4, <2>5, <2>6, <2>7 DEF IInv
<1>9. CASE f = call.previous
  <2>1. /\ call' = [call EXCEPT !.position = next] /\ UNCHANGED host
    BY <1>2, <1>9
  <2>2. call' = [call EXCEPT !.position = next, !.previous = f]
    BY <1>3, <1>9, <2>1 DEF CallType
  <2>3. cached = f /\ claimed = 0
    BY <1>1, <1>3, <1>6, <1>9 DEF Validating
  <2>4. HostType'
    BY <1>1, <1>3, <2>1 DEF HostType, host, disc
  <2> QED
    BY <1>3, <1>8, <2>1, <2>2, <2>3, <2>4 DEF host, PositionKnown
<1>10. CASE f # call.previous
  <2>1. PICK o \in OpenCached(f, 0) :
               /\ Install(o)
               /\ IF o.ok
                  THEN call' = [call EXCEPT !.position = @ + SegmentIn(f),
                                            !.previous = f]
                  ELSE Finish("failed")
    BY <1>2, <1>10
  <2>2. /\ o \in Outcome /\ Consistent(o) /\ KeepsBelief(o)
        /\ o.ok => o.cached = f /\ o.claimed = 0
    BY <1>3, <1>6, OpenOutcome
  <2>3. HostType'
    BY <1>1, <1>3, <2>1, <2>2, InstallKeeps
  <2>4. ~ShortReads => claimed' = actual'
    BY <1>3, <2>1, <2>2 DEF KeepsBelief, Install, PositionKnown
  <2>5. CASE o.ok
    BY <1>8, <2>1, <2>2, <2>3, <2>4, <2>5 DEF Install
  <2>6. CASE ~o.ok
    BY <1>1, <2>1, <2>3, <2>4, <2>6, FailKeeps
  <2> QED
    BY <2>5, <2>6
<1> QED
  BY <1>9, <1>10

LEMMA ValidatedKeeps == IInv /\ Validated => IInv'
<1> SUFFICES ASSUME IInv, Validated PROVE IInv'
  OBVIOUS
<1>1. /\ call.phase = "validate" /\ Remaining = 0 /\ UNCHANGED <<disc, host>>
      /\ call' = [call EXCEPT !.phase = "open", !.position = call.start]
  BY DEF Validated
<1>2. HostType /\ CallType /\ Accepted /\ Validating /\ PositionKnown
  BY DEF IInv
<1>3. CallType'
  BY <1>1, <1>2 DEF CallType, Phase
<1>4. /\ SameRead /\ call'.phase = "open" /\ call'.result = call.result
      /\ call'.written = call.written /\ call'.position = call.start
  BY <1>1, <1>2 DEF CallType, SameRead
<1>5. call'.written \in Seq(File \X Nat)
  BY <1>2, <1>4 DEF CallType
<1>6. /\ UnmappedRefused' /\ ReadComplete'
      /\ call'.result = "none" /\ call'.fits /\ call'.length # 0
      /\ Covered(call.start, call.length)'
  BY <1>1, <1>4, <1>5, GoesOn
<1>7. HostType'
  BY <1>1, <1>2 DEF HostType, host, disc
<1>8. /\ call.start \in Nat /\ call.length \in Nat /\ call.position \in Nat
      /\ call.length # 0 /\ call.position = call.start + call.length
  BY <1>1, <1>2 DEF CallType, Accepted, Remaining
<1>9. Accepted'
  BY <1>4, <1>6, <1>8 DEF Accepted, SameRead, Covered
<1>10. BeginsStreaming'
  <2>1. call.previous # NoFile
    BY <1>1, <1>2, <1>8 DEF Validating
  <2>2. /\ claimed = 0 /\ cached \in FilesCovering(call.start + call.length - 1)
        /\ call.written = <<>>
    BY <1>1, <1>2, <1>8, <2>1 DEF Validating
  <2>3. UNCHANGED <<files, cached, claimed>>
    BY <1>1 DEF host, disc
  <2> QED
    BY <1>4, <2>2, <2>3, DiscUnchanged DEF BeginsStreaming, SameRead
<1>11. Validating' /\ Copying' /\ ~Underway'
  BY <1>4, <1>8 DEF Validating, Copying, Underway, SameRead
<1>12. PositionKnown' /\ Delivered'
  BY <1>1, <1>2, <1>6, <1>11 DEF PositionKnown, Delivered, host
<1> QED
  BY <1>3, <1>6, <1>7, <1>9, <1>10, <1>11, <1>12 DEF IInv

LEMMA StreamedKeeps == IInv /\ Streamed => IInv'
<1> SUFFICES ASSUME IInv, Streamed PROVE IInv'
  OBVIOUS
<1>1. /\ call.phase = "open" /\ Remaining = 0 /\ UNCHANGED <<disc, host>>
      /\ call' = [call EXCEPT !.phase = "idle", !.result = "ok"]
  BY DEF Streamed, Finish
<1>2. HostType /\ CallType /\ Accepted /\ PositionKnown /\ Delivered
  BY DEF IInv
<1>3. CallType'
  BY <1>1, <1>2 DEF CallType, Phase, Result
<1>4. /\ SameRead /\ call'.phase = "idle" /\ call'.result = "ok"
      /\ call'.written = call.written /\ call'.position = call.position
  BY <1>1, <1>2 DEF CallType, SameRead
<1>5. UNCHANGED <<files, length, cached, claimed, actual, validated>>
  BY <1>1 DEF host, disc
<1>6. HostType'
  BY <1>2, <1>5 DEF HostType
<1>7. call.fits /\ Covered(call.start, call.length) /\ call.length # 0
  BY <1>1, <1>2 DEF Accepted
<1>8. /\ call.position = call.start + call.length
      /\ call.start \in Nat /\ call.length \in Nat /\ call.position \in Nat
  BY <1>1, <1>2 DEF Remaining, CallType
<1>9. UnmappedRefused'
  BY <1>4, <1>5, <1>7, DiscUnchanged DEF UnmappedRefused, Covered, SameRead
<1>10. (Accepted /\ Validating /\ BeginsStreaming /\ Copying /\ ReadComplete)'
  BY <1>4, <1>8 DEF Accepted, Validating, BeginsStreaming, Copying, ReadComplete, SameRead
<1>11. PositionKnown'
  BY <1>2, <1>4, <1>5 DEF PositionKnown, Underway
<1>12. Delivered'
  <2>1. Trusted' = Trusted /\ \A i : ByteOf(i)' = ByteOf(i)
    BY <1>4, <1>5, RangeUnchanged
  <2>2. Underway
    BY <1>1, <1>7, <1>8 DEF Underway
  <2> QED
    BY <1>2, <1>4, <2>1, <2>2 DEF Delivered, SameRead
<1> QED
  BY <1>3, <1>6, <1>9, <1>10, <1>11, <1>12 DEF IInv

LEMMA OpenSegmentKeeps == IInv /\ OpenSegment => IInv'
<1> SUFFICES ASSUME IInv, OpenSegment PROVE IInv'
  OBVIOUS
<1>1. /\ call.phase = "open" /\ Remaining # 0 /\ UNCHANGED disc
  BY DEF OpenSegment
<1>2. PICK f \in FilesAt(call.position) :
        \E o \in OpenCached(f, call.position - files[f].offset) :
           /\ Install(o)
           /\ IF o.ok
              THEN call' = [call EXCEPT !.phase = "copy", !.segment = SegmentIn(f)]
              ELSE Finish("failed")
  BY DEF OpenSegment
<1>3. HostType /\ CallType /\ Accepted /\ BeginsStreaming /\ PositionKnown /\ Delivered
  BY DEF IInv
<1>4. /\ files \in Tables /\ call.position \in Nat /\ call.start \in Nat
      /\ call.length \in Nat /\ UNCHANGED files
      /\ call.start <= call.position
  BY <1>1, <1>3 DEF HostType, CallType, Accepted, disc
<1>5. /\ f \in FilesCovering(call.position)
      /\ SegmentIn(f) \in Nat /\ SegmentIn(f) > 0
      /\ call.position + SegmentIn(f) <= call.start + call.length
      /\ call.position + SegmentIn(f) <= EndOf(f)
      /\ files[f].offset <= call.position
  BY <1>1, <1>2, <1>3, <1>4, SegmentBounds
<1>6. /\ f \in File /\ f # NoFile /\ call.position - files[f].offset \in 0 .. MaxSize
      /\ files[f].offset \in Nat /\ EndOf(f) \in Nat
  BY <1>4, <1>5, CoveringType, NoFileAssumption
<1>7. PICK o \in OpenCached(f, call.position - files[f].offset) :
           /\ Install(o)
           /\ IF o.ok
              THEN call' = [call EXCEPT !.phase = "copy", !.segment = SegmentIn(f)]
              ELSE Finish("failed")
  BY <1>2
<1>8. /\ o \in Outcome /\ Consistent(o) /\ KeepsBelief(o)
      /\ o.ok => o.cached = f /\ o.claimed = call.position - files[f].offset
  BY <1>3, <1>6, OpenOutcome
<1>9. HostType'
  BY <1>1, <1>3, <1>7, <1>8, InstallKeeps
<1>10. ~ShortReads => claimed' = actual'
  BY <1>3, <1>7, <1>8 DEF KeepsBelief, Install, PositionKnown
<1>11. CASE ~o.ok
  BY <1>1, <1>7, <1>9, <1>10, <1>11, FailKeeps
<1>12. CASE o.ok
  <2>1. /\ cached' = f /\ claimed' = call.position - files[f].offset
        /\ claimed' = actual' \/ (cached = f /\ claimed = claimed' /\ actual = actual')
    BY <1>7, <1>8, <1>12 DEF Install, KeepsBelief
  <2>2. call' = [call EXCEPT !.phase = "copy", !.segment = SegmentIn(f)]
    BY <1>7, <1>12
  <2>3. CallType'
    BY <1>3, <1>5, <2>2 DEF CallType, Phase
  <2>4. /\ SameRead /\ call'.phase = "copy" /\ call'.result = call.result
        /\ call'.written = call.written /\ call'.position = call.position
        /\ call'.segment = SegmentIn(f)
    BY <1>3, <2>2 DEF CallType, SameRead
  <2>5. call'.written \in Seq(File \X Nat)
    BY <1>3, <2>4 DEF CallType
  <2>6. /\ UnmappedRefused' /\ ReadComplete'
        /\ call'.result = "none" /\ call'.fits /\ call'.length # 0
        /\ Covered(call.start, call.length)'
        /\ Trusted' = Trusted /\ \A i : ByteOf(i)' = ByteOf(i)
    BY <1>1, <2>4, <2>5, GoesOn
  <2>7. Accepted'
    BY <1>1, <1>3, <2>4, <2>6 DEF Accepted, SameRead, Covered
  <2>8. Validating' /\ BeginsStreaming'
    BY <2>4 DEF Validating, BeginsStreaming
  <2>9. Copying'
    <3>1. EndOf(f)' = EndOf(f)
      BY <1>4, DiscUnchanged
    <3> HIDE DEF SegmentIn
    <3> QED
      BY <1>4, <1>5, <1>6, <2>1, <2>4, <3>1 DEF Copying, SameRead, EndOf
  <2>10. ASSUME call.position = call.start, claimed' # actual'
         PROVE  FromFileStart
    <3>1. /\ cached = f /\ claimed = 0 /\ files[f].offset = call.start
      BY <1>1, <1>3, <1>4, <1>6, <2>1, <2>10 DEF BeginsStreaming
    <3>2. f \in FilesCovering(call.start + call.length - 1)
      BY <1>1, <1>3, <2>10, <3>1 DEF BeginsStreaming
    <3>3. call.start + call.length <= EndOf(f)
      BY <1>4, <1>6, <3>2 DEF FilesCovering
    <3> QED
      BY <1>5, <2>10, <3>1, <3>3 DEF FromFileStart
  <2>11. PositionKnown'
    <3>1. ASSUME Trusted PROVE claimed' = actual'
      <4>1. CASE call.position = call.start
        BY <1>10, <2>10, <3>1, <4>1 DEF Trusted
      <4>2. CASE call.position > call.start
        BY <1>1, <1>3, <2>1, <3>1, <4>2 DEF PositionKnown, Underway
      <4> QED
        BY <1>4, <4>1, <4>2
    <3> QED
      BY <1>10, <2>6, <3>1 DEF PositionKnown
  <2>12. Delivered'
    <3>1. CASE call.position = call.start
      <4>1. call.written = <<>>
        BY <1>1, <1>3, <3>1 DEF BeginsStreaming
      <4> QED
        BY <1>4, <2>4, <3>1, <4>1, EmptySequence DEF Delivered, SameRead
    <3>2. CASE call.position > call.start
      <4>1. Underway
        BY <1>1, <3>2 DEF Underway
      <4> QED
        BY <1>3, <2>4, <2>6, <4>1 DEF Delivered, SameRead
    <3> QED
      BY <1>4, <3>1, <3>2
  <2> QED
    BY <1>9, <2>3, <2>6, <2>7, <2>8, <2>9, <2>11, <2>12 DEF IInv
<1> QED
  BY <1>11, <1>12

LEMMA SegmentDoneKeeps == IInv /\ SegmentDone => IInv'
<1> SUFFICES ASSUME IInv, SegmentDone PROVE IInv'
  OBVIOUS
<1>1. /\ call.phase = "copy" /\ call.segment = 0 /\ UNCHANGED <<disc, host>>
      /\ call' = [call EXCEPT !.phase = "open"]
  BY DEF SegmentDone
<1>2. HostType /\ CallType /\ Accepted /\ Copying /\ PositionKnown /\ Delivered
  BY DEF IInv
<1>3. CallType'
  BY <1>1, <1>2 DEF CallType, Phase
<1>4. /\ SameRead /\ call'.phase = "open" /\ call'.result = call.result
      /\ call'.written = call.written /\ call'.position = call.position
  BY <1>1, <1>2 DEF CallType, SameRead
<1>5. call'.written \in Seq(File \X Nat)
  BY <1>2, <1>4 DEF CallType
<1>6. /\ UnmappedRefused' /\ ReadComplete'
      /\ call'.result = "none" /\ call'.fits /\ call'.length # 0
      /\ Covered(call.start, call.length)'
      /\ Trusted' = Trusted /\ \A i : ByteOf(i)' = ByteOf(i)
  BY <1>1, <1>4, <1>5, GoesOn
<1>7. UNCHANGED <<files, length, cached, claimed, actual, validated>>
  BY <1>1 DEF host, disc
<1>8. HostType'
  BY <1>2, <1>7 DEF HostType
<1>9. call.position > call.start /\ call.position \in Nat /\ call.start \in Nat
  BY <1>1, <1>2 DEF Copying, CallType
<1>10. Accepted'
  BY <1>1, <1>2, <1>4, <1>6 DEF Accepted, SameRead, Covered
<1>11. (Validating /\ BeginsStreaming /\ Copying)'
  BY <1>4, <1>9 DEF Validating, BeginsStreaming, Copying, SameRead
<1>12. Underway
  BY <1>1 DEF Underway
<1>13. PositionKnown' /\ Delivered'
  BY <1>2, <1>4, <1>6, <1>7, <1>12 DEF PositionKnown, Delivered, SameRead
<1> QED
  BY <1>3, <1>6, <1>8, <1>10, <1>11, <1>13 DEF IInv

LEMMA ChunkBounds ==
    ASSUME CallType, call.segment # 0
    PROVE  Chunk \in Nat /\ Chunk > 0 /\ Chunk <= call.segment
  BY SizeAssumption DEF CallType, Chunk, Least

LEMMA CopyShortKeeps == IInv /\ CopyShort => IInv'
<1> SUFFICES ASSUME IInv, CopyShort PROVE IInv'
  OBVIOUS
<1>1. /\ call.phase = "copy" /\ call.segment # 0
      /\ ShortReads \/ actual + Chunk > length[cached]
      /\ Finish("failed")
      /\ UNCHANGED <<disc, cached, claimed, validated>>
  BY DEF CopyShort
<1>2. PICK count \in 0 .. Chunk - 1 :
        /\ actual + count <= length[cached]
        /\ actual' = actual + count
  BY DEF CopyShort
<1>3. HostType /\ CallType /\ Copying /\ PositionKnown
  BY DEF IInv
<1>4. Chunk \in Nat /\ Chunk > 0 /\ Chunk <= call.segment
  BY <1>1, <1>3, ChunkBounds
<1>5. cached \in File /\ cached # NoFile
  BY <1>1, <1>3, NoFileAssumption DEF Copying
<1>6. length[cached] \in 0 .. MaxSize + 1 /\ actual \in Nat /\ MaxSize \in Nat
  BY <1>3, <1>5, SizeAssumption DEF HostType
<1>7. actual' \in 0 .. MaxSize + 1
  BY <1>2, <1>4, <1>6
<1>8. HostType'
  BY <1>1, <1>3, <1>5, <1>7 DEF HostType, disc
<1>9. ASSUME ~ShortReads PROVE FALSE
  <2>1. actual = claimed
    BY <1>3, <1>9 DEF PositionKnown
  <2>2. /\ claimed + files[cached].offset = call.position
        /\ call.position + call.segment <= EndOf(cached)
    BY <1>1, <1>3 DEF Copying
  <2>3. files[cached].size <= length[cached]
    BY <1>3, <1>5 DEF HostType
  <2>4. files[cached].offset \in Nat /\ files[cached].size \in Nat
    BY <1>3, <1>5, TablesType DEF HostType
  <2>5. call.position \in Nat /\ call.segment \in Nat
    BY <1>3 DEF CallType
  <2> QED
    BY <1>1, <1>4, <1>6, <1>9, <2>1, <2>2, <2>3, <2>4, <2>5 DEF EndOf
<1> QED
  BY <1>1, <1>8, <1>9, FailKeeps

\* What lies between the position in a file and the end of the segment.
LEMMA WithinFile ==
    \A at, chunk, segment, position, offset, size \in Nat :
       at + offset = position /\ position + segment <= offset + size /\ chunk <= segment
         => at + chunk <= size
  OBVIOUS

LEMMA CopyChunkKeeps == IInv /\ CopyChunk => IInv'
<1> SUFFICES ASSUME IInv, CopyChunk PROVE IInv'
  OBVIOUS
<1> DEFINE part == [i \in 1 .. Chunk |-> <<cached, actual + i - 1>>]
<1>1. /\ call.phase = "copy" /\ call.segment # 0
      /\ actual + Chunk <= length[cached]
      /\ actual' = actual + Chunk
      /\ claimed' = claimed + Chunk
      /\ call' = [call EXCEPT !.position = @ + Chunk, !.segment = @ - Chunk,
                              !.written = @ \o part]
      /\ UNCHANGED <<disc, cached, validated>>
  BY DEF CopyChunk
<1>2. HostType /\ CallType /\ Accepted /\ Copying /\ PositionKnown /\ Delivered
  BY DEF IInv
<1>3. Chunk \in Nat /\ Chunk > 0 /\ Chunk <= call.segment
  BY <1>1, <1>2, ChunkBounds
<1>4. /\ cached \in File /\ cached # NoFile
      /\ claimed + files[cached].offset = call.position
      /\ call.position + call.segment <= EndOf(cached)
      /\ call.position + call.segment <= call.start + call.length
  BY <1>1, <1>2, NoFileAssumption DEF Copying
<1>5. /\ length[cached] \in 0 .. MaxSize + 1 /\ actual \in Nat /\ claimed \in Nat
      /\ MaxSize \in Nat
  BY <1>2, <1>4, SizeAssumption DEF HostType
<1>6. /\ files[cached].offset \in Nat /\ files[cached].size \in Nat
      /\ files[cached].size <= MaxSize
      /\ EndOf(cached) = files[cached].offset + files[cached].size
  BY <1>2, <1>4, TablesType DEF HostType, EndOf
<1>7. /\ call.position \in Nat /\ call.segment \in Nat /\ call.start \in Nat
      /\ call.length \in Nat /\ call.start <= call.position
  BY <1>1, <1>2 DEF CallType, Accepted
<1>20. call.written \in Seq(File \X Nat)
  BY <1>2 DEF CallType
<1>8. HostType'
  <2>1. actual' \in 0 .. MaxSize + 1 /\ claimed' \in 0 .. MaxSize + 1
    <3>1. /\ actual' = actual + Chunk /\ claimed' = claimed + Chunk
          /\ actual + Chunk <= length[cached]
      BY <1>1
    <3>2. claimed + Chunk <= files[cached].size
      BY <1>3, <1>4, <1>5, <1>6, <1>7, WithinFile
    <3>3. claimed + Chunk \in Nat /\ actual + Chunk \in Nat
      BY <1>3, <1>5
    <3> QED
      BY <1>5, <1>6, <3>1, <3>2, <3>3
  <2> QED
    BY <1>1, <1>2, <1>4, <2>1 DEF HostType, disc
<1>9. part \in Seq(File \X Nat) /\ Len(part) = Chunk
  <2>1. \A i \in 1 .. Chunk : <<cached, actual + i - 1>> \in File \X Nat
    BY <1>3, <1>4, <1>5
  <2>2. part \in [1 .. Chunk -> File \X Nat]
    BY <2>1
  <2> HIDE DEF part
  <2> QED
    BY <1>3, <2>2
<1> HIDE DEF part
<1>10. call.written \o part \in Seq(File \X Nat)
  BY <1>20, <1>9
<1>11. CallType'
  <2>1. call.position + Chunk \in Nat /\ call.segment - Chunk \in Nat
    BY <1>3, <1>7
  <2> QED
    BY <1>1, <1>2, <1>10, <2>1 DEF CallType
<1>12. /\ SameRead /\ call'.phase = "copy" /\ call'.result = call.result
       /\ call'.position = call.position + Chunk
       /\ call'.segment = call.segment - Chunk
       /\ call'.written = call.written \o part
  <2> QED
    BY <1>1, <1>2 DEF CallType, SameRead
<1>13. /\ UnmappedRefused' /\ ReadComplete'
       /\ call'.result = "none" /\ call'.fits /\ call'.length # 0
       /\ Covered(call.start, call.length)'
       /\ Trusted' = Trusted /\ \A i : ByteOf(i)' = ByteOf(i)
  BY <1>1, <1>10, <1>12, GoesOn
<1>14. Accepted'
  BY <1>3, <1>4, <1>7, <1>12, <1>13 DEF Accepted, SameRead, Covered
<1>15. (Validating /\ BeginsStreaming)'
  BY <1>12 DEF Validating, BeginsStreaming
<1>16. Copying'
  <2>1. EndOf(cached)' = EndOf(cached) /\ UNCHANGED <<files, cached>>
    BY <1>1 DEF EndOf, disc
  <2>2. claimed' = claimed + Chunk
    BY <1>1
  <2>3. /\ claimed' + files[cached].offset = call.position + Chunk
        /\ call.position + Chunk + (call.segment - Chunk) = call.position + call.segment
        /\ call.position + Chunk > call.start
    BY <1>3, <1>4, <1>5, <1>6, <1>7, <2>2
  <2> QED
    BY <1>4, <1>12, <2>1, <2>3 DEF Copying, SameRead
<1>17. Underway /\ Underway'
  BY <1>1, <1>12 DEF Underway
<1>18. PositionKnown'
  BY <1>1, <1>2, <1>13, <1>17 DEF PositionKnown
<1>19. Delivered'
  <2> SUFFICES ASSUME Trusted
               PROVE  /\ Len(call'.written) = call'.position - call'.start
                      /\ \A i \in 1 .. Len(call'.written) :
                           call'.written[i] = ByteOf(i)
    BY <1>13, <1>17 DEF Delivered
  <2>1. /\ Len(call.written) = call.position - call.start
        /\ \A i \in 1 .. Len(call.written) :
             call.written[i] = ByteOf(i)
        /\ claimed = actual
    BY <1>2, <1>17 DEF Delivered, PositionKnown
  <2>2. Len(call.written) \in Nat
    BY <1>20
  <2>3. Len(call'.written) = Len(call.written) + Chunk
    <3>1. Len(call.written \o part) = Len(call.written) + Len(part)
      BY <1>20, <1>9, Appended
    <3> QED
      BY <1>9, <1>12, <3>1
  <2>4. ASSUME NEW i \in 1 .. Len(call.written) + Chunk
        PROVE  call'.written[i] = ByteOf(i)
    <3>1. CASE i <= Len(call.written)
      <4>1. call'.written[i] = call.written[i]
        BY <1>20, <1>9, <1>12, <2>2, <3>1, Appended
      <4> QED
        BY <2>1, <2>2, <3>1, <4>1
    <3>2. CASE i > Len(call.written)
      <4> DEFINE j == i - Len(call.written)
      <4>1. j \in 1 .. Chunk
        BY <1>3, <2>2, <3>2
      <4>2. call'.written[i] = part[j]
        <5>1. i \in 1 .. Len(call.written) + Len(part)
          BY <1>9
        <5>2. (call.written \o part)[i] = part[i - Len(call.written)]
          BY <1>20, <1>9, <2>2, <3>2, <5>1, Appended
        <5> QED
          BY <1>12, <5>2
      <4>3. j \in Nat /\ i \in Nat /\ 1 <= j /\ j <= Chunk /\ j = i - Len(call.written)
        BY <1>3, <2>2, <4>1
      <4> HIDE DEF j
      <4>8. Len(call.written) = call.position - call.start
        BY <2>1
      <4> DEFINE place == call.start + i - 1
      <4>4. /\ place \in Nat
            /\ files[cached].offset <= place
            /\ place < files[cached].offset + files[cached].size
            /\ place - files[cached].offset = claimed + j - 1
        <5>1. call.position + call.segment <= files[cached].offset + files[cached].size
          BY <1>4, <1>6
        <5>2. /\ call.position = call.start + Len(call.written)
              /\ i = Len(call.written) + j
          BY <1>7, <2>2, <4>3, <4>8
        <5>3. place = call.position + j - 1
          BY <1>7, <2>2, <4>3, <5>2
        <5>4. claimed + files[cached].offset = call.position
          BY <1>4
        <5>5. /\ Chunk \in Nat /\ Chunk <= call.segment /\ call.segment \in Nat
              /\ claimed \in Nat /\ files[cached].offset \in Nat
              /\ files[cached].size \in Nat /\ call.position \in Nat
              /\ j \in Nat /\ 1 <= j /\ j <= Chunk
          BY <1>3, <1>5, <1>6, <1>7, <4>3
        <5> HIDE DEF place
        <5>6. place \in Nat /\ call.position <= place /\ place < call.position + Chunk
          BY <5>3, <5>5
        <5>7. files[cached].offset <= call.position
          BY <5>4, <5>5
        <5>8. call.position + Chunk <= files[cached].offset + files[cached].size
          BY <5>1, <5>5
        <5>9. files[cached].offset <= place
          BY <5>5, <5>6, <5>7
        <5> DEFINE end == files[cached].offset + files[cached].size
        <5>12. end \in Nat /\ call.position + Chunk \in Nat /\ call.position + Chunk <= end
          BY <5>5, <5>8
        <5> HIDE DEF end
        <5>13. place < end
          BY <5>6, <5>12
        <5>10. place < files[cached].offset + files[cached].size
          BY <5>13 DEF end
        <5>11. place - files[cached].offset = claimed + j - 1
          BY <5>3, <5>4, <5>5
        <5> QED
          BY <5>6, <5>9, <5>10, <5>11
      <4>10. ByteOf(i) = ByteAt(place)
        BY DEF ByteOf
      <4> HIDE DEF place
      <4>9. cached \in FilesCovering(place)
        BY <1>4, <1>6, <4>4 DEF FilesCovering
      <4>11. files \in Tables
        BY <1>2 DEF HostType
      <4>5. ByteAt(place) = <<cached, place - files[cached].offset>>
        BY <4>4, <4>9, <4>11, ByteOfFile
      <4>6. place - files[cached].offset = actual + j - 1
        BY <2>1, <4>4
      <4>7. part[j] = <<cached, actual + j - 1>>
        BY <4>1 DEF part
      <4> QED
        BY <4>2, <4>5, <4>6, <4>7, <4>10
    <3> QED
      BY <2>2, <3>1, <3>2
  <2>5. call'.position = call.position + Chunk /\ call'.start = call.start
    BY <1>12 DEF SameRead
  <2>6. Len(call'.written) = call'.position - call'.start
    <3>1. Len(call.written) + Chunk = (call.position + Chunk) - call.start
      BY <1>3, <1>7, <2>1, <2>2
    <3> QED
      BY <2>3, <2>5, <3>1
  <2>7. \A i \in 1 .. Len(call'.written) : call'.written[i] = ByteOf(i)
    BY <2>3, <2>4
  <2> QED
    BY <2>6, <2>7
<1> QED
  BY <1>8, <1>11, <1>13, <1>14, <1>15, <1>16, <1>18, <1>19 DEF IInv

LEMMA DiscStep == IInv /\ [Next]_vars => IInv'
<1> SUFFICES ASSUME IInv, [Next]_vars PROVE IInv'
  OBVIOUS
<1>1. ASSUME NEW start \in 0 .. DiscSize, NEW count \in 0 .. DiscSize,
             NEW fits \in BOOLEAN, Read(start, count, fits)
      PROVE  IInv'
  <2>1. start \in Nat /\ count \in Nat
    BY SizeAssumption
  <2> QED
    BY <1>1, <2>1, ReadKeeps
<1>2. CASE UNCHANGED vars
  <2>1. UNCHANGED <<files, length, cached, claimed, actual, validated, call>>
    BY <1>2 DEF vars
  <2>2. HostType' /\ CallType' /\ ReadComplete'
    BY <2>1 DEF IInv, HostType, CallType, ReadComplete
  <2>3. /\ \A o : FilesCovering(o)' = FilesCovering(o)
        /\ \A f : EndOf(f)' = EndOf(f)
        /\ Trusted' = Trusted /\ \A i : ByteOf(i)' = ByteOf(i)
    BY <2>1, DiscUnchanged, RangeUnchanged DEF SameRead
  <2>4. UnmappedRefused' /\ Accepted'
    BY <2>1, <2>3 DEF IInv, UnmappedRefused, Accepted, Covered
  <2>5. Validating' /\ BeginsStreaming' /\ Copying'
    BY <2>1, <2>3 DEF IInv, Validating, BeginsStreaming, Copying, FilesCovering, EndOf
  <2>6. PositionKnown' /\ Delivered'
    BY <2>1, <2>3 DEF IInv, PositionKnown, Delivered, Underway
  <2> QED
    BY <2>2, <2>4, <2>5, <2>6 DEF IInv
<1> QED
  BY <1>1, <1>2, ValidateFileKeeps, ValidatedKeeps, OpenSegmentKeeps, CopyChunkKeeps,
     CopyShortKeeps, SegmentDoneKeeps, StreamedKeeps DEF Next

(* The invariant of the reads, for any disc.                               *)
THEOREM ReadInvariance == Spec => []IInv
  BY DiscInitial, DiscStep, PTL DEF Spec

(* The host's positions stay in their file, and nothing is copied from a   *)
(* file that is not open and validated.                                    *)
THEOREM TypeCorrect == Spec => []TypeOK
<1>1. IInv => TypeOK
  BY NoFileAssumption DEF IInv, HostType, CallType, Copying, TypeOK, Phase, Result
<1> QED
  BY <1>1, ReadInvariance, PTL

(* A read is refused exactly when it does not fit or names a byte that no  *)
(* file covers, whatever the FST: the bisection and the walk over empty    *)
(* files miss none.                                                        *)
THEOREM RefusalsAreExact == Spec => []UnmappedRefused
<1>1. IInv => UnmappedRefused
  BY DEF IInv
<1> QED
  BY <1>1, ReadInvariance, PTL

\* What a successful read has written.
LEMMA CompleteRead ==
    ASSUME IInv, call.result = "ok", Trusted
    PROVE  call.written = Expected
<1>1. /\ call.written \in Seq(File \X Nat) /\ call.length \in Nat
      /\ call.start \in Nat
  BY DEF IInv, CallType
<1>2. Len(call.written) = call.length
  BY <1>1 DEF IInv, Delivered, ReadComplete
<1>3. \A i \in 1 .. Len(call.written) : call.written[i] = ByteAt(call.start + i - 1)
  BY DEF IInv, Delivered, ByteOf
<1>4. call.written = [i \in 1 .. call.length |-> call.written[i]]
  BY <1>1, <1>2
<1>5. \A i \in 1 .. call.length : call.written[i] = ByteAt(call.start + i - 1)
  BY <1>2, <1>3
<1> QED
  BY <1>4, <1>5, Zenon DEF Expected

(* What a read has written when it is over, also when it has failed.  The  *)
(* invariant above forgets a read that fails; these two parts follow from  *)
(* it while the read goes on, and stay when it ends.                       *)

Kept ==
    Trusted => /\ Len(call.written) <= call.length
               /\ \A i \in 1 .. Len(call.written) : call.written[i] = ByteOf(i)

\* Every file that covers a byte before a position has been found long enough.
FoundUpTo(position) ==
    \A o \in call.start .. position - 1 : \A f \in FilesCovering(o) : validated[f]

RangeFound ==
    /\ call.phase = "validate" => FoundUpTo(call.position)
    /\ call.phase \in {"open", "copy"} => FoundUpTo(call.start + call.length)
    /\ call.written # <<>> => FoundUpTo(call.start + call.length)

LEMMA KeptUnderway ==
    ASSUME IInv, call.phase # "idle" \/ call.result = "ok"
    PROVE  Kept
<1> SUFFICES ASSUME Trusted
             PROVE  /\ Len(call.written) <= call.length
                    /\ \A i \in 1 .. Len(call.written) : call.written[i] = ByteOf(i)
  BY DEF Kept
<1>1. call.position \in Nat /\ call.start \in Nat /\ call.length \in Nat /\ call.phase \in Phase
  BY DEF IInv, CallType
<1>2. CASE call.written = <<>>
  BY <1>1, <1>2, EmptySequence
<1>3. CASE Underway \/ call.result = "ok"
  <2>1. /\ Len(call.written) = call.position - call.start
        /\ \A i \in 1 .. Len(call.written) : call.written[i] = ByteOf(i)
    BY <1>3 DEF IInv, Delivered
  <2>2. call.position <= call.start + call.length
    BY <1>1, <1>3 DEF IInv, Accepted, ReadComplete, Underway
  <2> QED
    BY <1>1, <2>1, <2>2
<1>4. CASE call.phase # "idle" /\ ~Underway
  <2>1. call.phase = "validate" \/ (call.phase = "open" /\ call.position = call.start)
    BY <1>1, <1>4 DEF Underway, IInv, Accepted, Phase
  <2> QED
    BY <1>2, <2>1 DEF IInv, Validating, BeginsStreaming
<1> QED
  BY <1>2, <1>3, <1>4

\* How a read ends: without having written anything, or with what it has
\* written.
LEMMA ReadEnds ==
    ASSUME IInv, [Next]_vars, call'.phase = "idle"
    PROVE  \/ call'.written = <<>>
           \/ /\ call.phase # "idle" /\ SameRead /\ call'.written = call.written
              /\ UNCHANGED files
           \/ UNCHANGED vars
<1>1. CallType
  BY DEF IInv
<1>2. ASSUME NEW result \in Result, Finish(result), call.phase # "idle", UNCHANGED disc
      PROVE  /\ call.phase # "idle" /\ SameRead /\ call'.written = call.written
             /\ UNCHANGED files
  BY <1>1, <1>2 DEF Finish, CallType, SameRead, disc
<1>3. ASSUME NEW start \in 0 .. DiscSize, NEW count \in 0 .. DiscSize,
             NEW fits \in BOOLEAN, Read(start, count, fits)
      PROVE  call'.written = <<>>
  BY <1>3 DEF Read, Idle
<1>4. CASE ValidateFile
  BY <1>1, <1>2, <1>4 DEF ValidateFile, CallType, Result
<1>5. CASE OpenSegment
  BY <1>1, <1>2, <1>5 DEF OpenSegment, CallType, Result
<1>6. CASE CopyShort
  BY <1>2, <1>6 DEF CopyShort, Result
<1>7. CASE Streamed
  BY <1>2, <1>7 DEF Streamed, Result
<1>8. CASE Validated \/ CopyChunk \/ SegmentDone
  BY <1>1, <1>8 DEF Validated, CopyChunk, SegmentDone, CallType
<1> QED
  BY <1>3, <1>4, <1>5, <1>6, <1>7, <1>8 DEF Next

LEMMA KeptStep == IInv /\ IInv' /\ Kept /\ [Next]_vars => Kept'
<1> SUFFICES ASSUME IInv, IInv', Kept, [Next]_vars PROVE Kept'
  OBVIOUS
<1>1. CASE call'.phase # "idle"
  <2>1. (IInv /\ (call.phase # "idle" \/ call.result = "ok") => Kept)'
    BY KeptUnderway, PTL
  <2> QED
    BY <1>1, <2>1
<1>2. CASE call'.written = <<>>
  <2>1. call'.length \in Nat
    BY DEF IInv, CallType
  <2> QED
    BY <1>2, <2>1, EmptySequence DEF Kept
<1>3. CASE /\ call.phase # "idle" /\ SameRead /\ call'.written = call.written
           /\ UNCHANGED files
  <2>1. Kept
    BY <1>3, KeptUnderway
  <2> QED
    BY <1>3, <2>1, RangeUnchanged DEF Kept, SameRead
<1>4. CASE UNCHANGED vars
  <2>1. UNCHANGED files /\ call' = call
    BY <1>4 DEF vars
  <2> QED
    BY <2>1, RangeUnchanged DEF Kept, SameRead
<1> QED
  BY <1>1, <1>2, <1>3, <1>4, ReadEnds

\* A file found long enough stays found.
LEMMA OpenKeepsFound ==
    ASSUME HostType, NEW f \in File, NEW position, NEW o \in OpenCached(f, position)
    PROVE  \A g \in File : validated[g] => o.validated[g]
<1>1. PICK s \in Stream(f) : o \in IF s.ok THEN Seek(s, position) ELSE {s}
  BY DEF OpenCached
<1>2. s.validated = validated \/ s.validated = [validated EXCEPT ![f] = TRUE]
  <2>1. CASE cached = f
    BY <2>1 DEF Stream, Opened
  <2>2. CASE cached # f
    <3>1. \/ s = Closed
          \/ s = Opened(TRUE, f, 0, 0, validated)
          \/ s = Opened(TRUE, f, length[f], length[f], [validated EXCEPT ![f] = TRUE])
      BY <2>2 DEF Stream, Reopen
    <3>2. CASE s = Closed
      BY <3>2 DEF Closed, Opened
    <3>3. CASE s = Opened(TRUE, f, 0, 0, validated)
      BY <3>3 DEF Opened
    <3>4. CASE s = Opened(TRUE, f, length[f], length[f], [validated EXCEPT ![f] = TRUE])
      BY <3>4 DEF Opened
    <3> QED
      BY <3>1, <3>2, <3>3, <3>4
  <2> QED
    BY <2>1, <2>2
<1>3. s \in Outcome
  BY StreamOutcome
<1>4. o.validated = s.validated
  BY <1>1, <1>3 DEF Seek, Outcome
<1> QED
  BY <1>2, <1>4 DEF HostType

LEMMA FoundStaysFound ==
    ASSUME IInv, [Next]_vars
    PROVE  UNCHANGED files /\ \A g \in File : validated[g] => validated'[g]
<1>1. HostType /\ CallType
  BY DEF IInv
<1>2. ASSUME NEW o \in Nat PROVE FilesAt(o) \subseteq File
  BY <1>1, <1>2, LookupFinds DEF FilesCovering, HostType
<1>3. FilesAt(call.position) \subseteq File
  BY <1>1, <1>2 DEF CallType
<1>4. CASE ValidateFile
  BY <1>1, <1>3, <1>4, OpenKeepsFound DEF ValidateFile, Install, disc, host
<1>5. CASE OpenSegment
  BY <1>1, <1>3, <1>5, OpenKeepsFound DEF OpenSegment, Install, disc
<1>6. CASE Validated \/ CopyChunk \/ CopyShort \/ SegmentDone \/ Streamed
  BY <1>6 DEF Validated, CopyChunk, CopyShort, SegmentDone, Streamed, disc, host
<1>7. CASE \E start \in 0 .. DiscSize, count \in 0 .. DiscSize, fits \in BOOLEAN :
             Read(start, count, fits)
  BY <1>7 DEF Read, disc, host
<1>8. CASE UNCHANGED vars
  BY <1>8 DEF vars
<1> QED
  BY <1>4, <1>5, <1>6, <1>7, <1>8 DEF Next

LEMMA FoundKept ==
    ASSUME IInv, [Next]_vars, call'.start = call.start, NEW position, FoundUpTo(position)
    PROVE  \A o \in call'.start .. position - 1 : \A f \in FilesCovering(o)' : validated'[f]
<1>1. /\ UNCHANGED files /\ \A g \in File : validated[g] => validated'[g]
      /\ \A o : FilesCovering(o)' = FilesCovering(o) /\ FilesCovering(o) \subseteq File
  BY FoundStaysFound, DiscUnchanged DEF FilesCovering
<1> QED
  BY <1>1 DEF FoundUpTo

\* What ValidateFile goes over lies in the file it has opened.
LEMMA SegmentFound ==
    ASSUME IInv, RangeFound, ValidateFile, call'.phase = "validate"
    PROVE  /\ SameRead
           /\ \A o \in call'.start .. call'.position - 1 :
                 \A g \in FilesCovering(o)' : validated'[g]
<1>1. /\ call.phase = "validate" /\ Remaining # 0 /\ UNCHANGED disc
  BY DEF ValidateFile
<1>2. PICK f \in FilesAt(call.position) :
        IF f = call.previous
        THEN /\ call' = [call EXCEPT !.position = @ + SegmentIn(f)]
             /\ UNCHANGED host
        ELSE \E o \in OpenCached(f, 0) :
               /\ Install(o)
               /\ IF o.ok
                  THEN call' = [call EXCEPT !.position = @ + SegmentIn(f),
                                            !.previous = f]
                  ELSE Finish("failed")
  BY DEF ValidateFile
<1>3. HostType /\ CallType /\ Accepted /\ Validating
  BY DEF IInv
<1>4. files \in Tables /\ call.position \in Nat /\ call.start \in Nat /\ UNCHANGED files
  BY <1>1, <1>3 DEF HostType, CallType, disc
<1>5. /\ f \in FilesCovering(call.position)
      /\ SegmentIn(f) \in Nat /\ SegmentIn(f) > 0
      /\ call.position + SegmentIn(f) <= EndOf(f)
      /\ files[f].offset <= call.position
  BY <1>1, <1>2, <1>3, <1>4, SegmentBounds
<1>6. f \in File /\ f # NoFile /\ 0 \in 0 .. MaxSize
      /\ files[f].offset \in Nat /\ EndOf(f) \in Nat
  BY <1>4, <1>5, CoveringType, NoFileAssumption, SizeAssumption
<1>7. /\ SameRead /\ call'.position = call.position + SegmentIn(f) /\ validated'[f]
  <2>1. CASE f = call.previous
    BY <1>1, <1>2, <1>3, <1>6, <2>1 DEF CallType, SameRead, host, Validating, HostType
  <2>2. CASE f # call.previous
    <3>1. PICK o \in OpenCached(f, 0) :
             /\ Install(o)
             /\ IF o.ok THEN call' = [call EXCEPT !.position = @ + SegmentIn(f), !.previous = f]
                ELSE Finish("failed")
      BY <1>2, <2>2
    <3>2. o.ok
      BY <1>3, <3>1 DEF Finish, CallType
    <3>3. o.cached = f /\ Consistent(o)
      BY <1>3, <1>6, <3>2, OpenOutcome
    <3> QED
      BY <1>3, <1>6, <3>1, <3>2, <3>3 DEF CallType, SameRead, Install, Consistent
  <2> QED
    BY <2>1, <2>2
<1>8. \A o \in call'.start .. call.position - 1 : \A g \in FilesCovering(o)' : validated'[g]
  BY <1>1, <1>7, FoundKept DEF RangeFound, SameRead, Next
<1>9. ASSUME NEW o \in call'.start .. call'.position - 1, o >= call.position,
             NEW g \in FilesCovering(o)'
      PROVE  validated'[g]
  <2>1. o \in Nat /\ o >= files[f].offset /\ o < EndOf(f)
    BY <1>4, <1>5, <1>6, <1>7, <1>9 DEF SameRead
  <2>2. f \in FilesCovering(o) /\ g \in FilesCovering(o)
    BY <1>4, <1>6, <1>9, <2>1, DiscUnchanged DEF FilesCovering
  <2>3. g = f
    BY <1>4, <2>1, <2>2, CoveringUnique
  <2> QED
    BY <1>7, <2>3
<1>10. \A o \in call'.start .. call'.position - 1 :
          o \in call'.start .. call.position - 1 \/ o >= call.position
  BY <1>4, <1>5, <1>7 DEF SameRead
<1> QED
  BY <1>7, <1>8, <1>9, <1>10

LEMMA RangeFoundStep == IInv /\ IInv' /\ RangeFound /\ [Next]_vars => RangeFound'
<1> SUFFICES ASSUME IInv, IInv', RangeFound, [Next]_vars PROVE RangeFound'
  OBVIOUS
<1>1. CallType /\ CallType' /\ Accepted
  BY DEF IInv
<1> DEFINE whole == call.start + call.length
<1>2. ASSUME SameRead, FoundUpTo(whole), call'.phase \in {"idle", "open", "copy"}
      PROVE  RangeFound'
  <2>1. \A o \in call'.start .. whole - 1 : \A f \in FilesCovering(o)' : validated'[f]
    BY <1>2, FoundKept DEF SameRead
  <2>2. call'.start + call'.length = whole
    BY <1>2 DEF SameRead
  <2> QED
    BY <1>2, <2>1, <2>2 DEF RangeFound, FoundUpTo
<1>3. CASE call'.phase = "idle"
  <2>1. CASE call'.written = <<>>
    BY <1>3, <2>1 DEF RangeFound
  <2>2. CASE SameRead /\ call'.written = call.written
    <3>1. CASE call.written = <<>>
      BY <1>3, <2>2, <3>1 DEF RangeFound
    <3>2. CASE call.written # <<>>
      BY <1>2, <1>3, <2>2, <3>2 DEF RangeFound
    <3> QED
      BY <3>1, <3>2
  <2>3. CASE UNCHANGED vars
    BY <2>2, <2>3 DEF vars, SameRead
  <2> QED
    BY <1>3, <2>1, <2>2, <2>3, ReadEnds
<1>4. CASE ValidateFile /\ call'.phase = "validate"
  <2>1. /\ SameRead
        /\ \A o \in call'.start .. call'.position - 1 :
              \A g \in FilesCovering(o)' : validated'[g]
    BY <1>4, SegmentFound
  <2>2. call'.written = <<>>
    BY <1>4 DEF IInv, Validating
  <2> QED
    BY <1>4, <2>1, <2>2 DEF RangeFound, FoundUpTo
<1>5. CASE Validated
  <2>1. SameRead /\ call'.phase = "open" /\ call.phase = "validate" /\ Remaining = 0
    BY <1>1, <1>5 DEF Validated, CallType, SameRead
  <2>2. call.position = whole
    <3>1. call.position \in Nat /\ call.start \in Nat /\ call.length \in Nat
      BY <1>1 DEF CallType
    <3>2. call.start + call.length - call.position = 0
      BY <2>1 DEF Remaining
    <3> QED
      BY <3>1, <3>2
  <2> QED
    BY <1>2, <2>1, <2>2 DEF RangeFound
<1>6. CASE (OpenSegment \/ CopyChunk \/ SegmentDone) /\ call'.phase # "idle"
  <2>1. SameRead /\ call.phase \in {"open", "copy"} /\ call'.phase \in {"open", "copy"}
    BY <1>1, <1>6 DEF OpenSegment, CopyChunk, SegmentDone, Finish, CallType, SameRead
  <2> QED
    BY <1>2, <2>1 DEF RangeFound
<1>7. CASE CopyShort \/ Streamed
  BY <1>1, <1>3, <1>7 DEF CopyShort, Streamed, Finish, CallType
<1>8. ASSUME NEW start \in 0 .. DiscSize, NEW count \in 0 .. DiscSize,
             NEW fits \in BOOLEAN, Read(start, count, fits)
      PROVE  RangeFound'
  <2>1. /\ call'.written = <<>> /\ call'.position = call'.start /\ call'.start \in Nat
        /\ call'.phase \in {"validate", "idle"}
    BY <1>1, <1>8 DEF Read, Idle, CallType
  <2>2. \A o \in call'.start .. call'.position - 1 : FALSE
    BY <2>1
  <2> QED
    BY <2>1, <2>2 DEF RangeFound, FoundUpTo
<1>9. CASE UNCHANGED vars
  <2>1. /\ UNCHANGED <<files, validated, call>>
    BY <1>9 DEF vars
  <2> QED
    BY <2>1, DiscUnchanged DEF RangeFound, FoundUpTo
<1>10. CASE ValidateFile
  <2>1. call'.phase \in {"validate", "idle"}
    BY <1>1, <1>10 DEF ValidateFile, Finish, CallType
  <2> QED
    BY <1>3, <1>4, <1>10, <2>1
<1>11. CASE OpenSegment \/ CopyChunk \/ SegmentDone
  BY <1>3, <1>6, <1>11
<1> QED
  BY <1>5, <1>7, <1>8, <1>9, <1>10, <1>11 DEF Next

(* Whatever reads short and whatever fails in between: a read writes       *)
(* nothing before all the files of its range have been found long enough;  *)
(* one that does not begin at the start of a file it stays in has at every *)
(* moment, and when it has failed, written the bytes of a first part of    *)
(* its range and nothing else, and all of them when it succeeds.           *)
THEOREM WritesAreExact == Spec => []WritesExact
<1>1. Init => Kept /\ RangeFound
  BY IdleType, EmptySequence DEF Init, Kept, RangeFound
<1>2. Spec => [](Kept /\ RangeFound)
  BY <1>1, KeptStep, RangeFoundStep, ReadInvariance, PTL DEF Spec
<1>3. IInv /\ Kept /\ RangeFound => WritesExact
  <2> SUFFICES ASSUME IInv, Kept, RangeFound PROVE WritesExact
    OBVIOUS
  <2>1. ASSUME call.written # <<>> PROVE ValidatedRange
    <3>1. FoundUpTo(call.start + call.length)
      BY <2>1 DEF RangeFound
    <3>2. call.start + (call.length - 1) = (call.start + call.length) - 1
      BY DEF IInv, CallType
    <3> QED
      BY <3>1, <3>2 DEF FoundUpTo, ValidatedRange
  <2>2. ASSUME ~FromFileStart
        PROVE  /\ Len(call.written) <= call.length
               /\ \A i \in 1 .. Len(call.written) : call.written[i] = ByteAt(call.start + i - 1)
    BY <2>2 DEF Kept, Trusted, ByteOf
  <2>3. ASSUME ~FromFileStart, call.result = "ok" PROVE Len(call.written) = call.length
    BY <2>3 DEF IInv, CallType, Delivered, ReadComplete, Trusted
  <2> QED
    BY <2>1, <2>2, <2>3 DEF WritesExact
<1> QED
  BY <1>2, <1>3, ReadInvariance, PTL

(* Where the C library never reads short every successful read is exact:   *)
(* a validated file is long enough, so that no read of the host ends early *)
(* and its belief about the position is always right.                      *)
THEOREM ReadsAreExact == ~ShortReads => (Spec => []ReadsExact)
<1> SUFFICES ASSUME ~ShortReads PROVE Spec => []ReadsExact
  OBVIOUS
<1>1. IInv => ReadsExact
  BY CompleteRead DEF Trusted, ReadsExact
<1> QED
  BY <1>1, ReadInvariance, PTL
-----------------------------------------------------------------------------
(* A read comes to its end: every step of it, that of a failing call too,  *)
(* ends it or leaves less to do, and it is never without a file to go on   *)
(* with.                                                                   *)

\* How many steps a read has left, at most.
Left ==
    IF call.phase = "validate" THEN 3 * call.length + Remaining + 2
    ELSE IF call.phase = "open" THEN 3 * Remaining + 1
    ELSE 3 * Remaining + (IF call.segment = 0 THEN 2 ELSE 0)

LEMMA LeftCounts ==
    ASSUME IInv, call.phase # "idle"
    PROVE  /\ Left \in Nat /\ Remaining \in Nat /\ Remaining <= call.length
           /\ call.length \in Nat /\ call.start \in Nat /\ call.position \in Nat
           /\ call.segment \in Nat
           /\ Remaining = call.start + call.length - call.position
<1>1. /\ call.length \in Nat /\ call.start \in Nat /\ call.position \in Nat
      /\ call.segment \in Nat
  BY DEF IInv, CallType
<1>2. call.start <= call.position /\ call.position <= call.start + call.length
  BY DEF IInv, Accepted
<1>3. Remaining = call.start + call.length - call.position
  BY DEF Remaining
<1>4. Remaining \in Nat /\ Remaining <= call.length
  BY <1>1, <1>2, <1>3
<1>5. Left \in Nat
  BY <1>1, <1>4 DEF Left
<1> QED
  BY <1>1, <1>3, <1>4, <1>5

LEMMA LessIsLeft ==
    ASSUME IInv, IInv', [Next]_vars, call.phase # "idle"
    PROVE  UNCHANGED vars \/ call'.phase = "idle" \/ (Left' \in Nat /\ Left' < Left)
<1> SUFFICES ASSUME ~(UNCHANGED vars), call'.phase # "idle"
             PROVE  Left' \in Nat /\ Left' < Left
  OBVIOUS
<1>1. HostType /\ CallType /\ CallType' /\ Accepted
  BY DEF IInv
<1>2. /\ Left \in Nat /\ Remaining \in Nat /\ Remaining <= call.length
      /\ call.length \in Nat /\ call.start \in Nat /\ call.position \in Nat
      /\ call.segment \in Nat
      /\ Remaining = call.start + call.length - call.position
  BY LeftCounts
<1>3. (IInv /\ call.phase # "idle" =>
         /\ Left \in Nat /\ Remaining \in Nat /\ Remaining <= call.length
         /\ call.length \in Nat /\ call.start \in Nat /\ call.position \in Nat
         /\ call.segment \in Nat
         /\ Remaining = call.start + call.length - call.position)'
  BY LeftCounts, PTL
<1>4. /\ Left' \in Nat /\ Remaining' \in Nat
      /\ Remaining' = call'.start + call'.length - call'.position
  BY <1>3
<1>5. Left' = IF call'.phase = "validate" THEN 3 * call'.length + Remaining' + 2
              ELSE IF call'.phase = "open" THEN 3 * Remaining' + 1
              ELSE 3 * Remaining' + (IF call'.segment = 0 THEN 2 ELSE 0)
  BY DEF Left
<1>6. CASE ValidateFile
  <2>1. PICK f \in FilesAt(call.position) :
          IF f = call.previous
          THEN /\ call' = [call EXCEPT !.position = @ + SegmentIn(f)]
               /\ UNCHANGED host
          ELSE \E o \in OpenCached(f, 0) :
                 /\ Install(o)
                 /\ IF o.ok
                    THEN call' = [call EXCEPT !.position = @ + SegmentIn(f),
                                              !.previous = f]
                    ELSE Finish("failed")
    BY <1>6 DEF ValidateFile
  <2>2. call.phase = "validate" /\ Remaining # 0 /\ files \in Tables
    BY <1>1, <1>6 DEF ValidateFile, HostType
  <2>3. SegmentIn(f) \in Nat /\ SegmentIn(f) > 0
    BY <1>1, <2>1, <2>2, SegmentBounds
  <2>4. /\ SameRead /\ call'.phase = "validate"
        /\ call'.position = call.position + SegmentIn(f)
    BY <1>1, <2>1, <2>2 DEF Finish, CallType, SameRead
  <2>5. Left = 3 * call.length + Remaining + 2 /\ Left' = 3 * call.length + Remaining' + 2
    BY <1>5, <2>2, <2>4 DEF Left, SameRead
  <2>6. Remaining' < Remaining
    BY <1>2, <1>4, <2>3, <2>4 DEF SameRead
  <2> QED
    BY <1>2, <1>4, <2>5, <2>6
<1>7. CASE Validated
  <2>1. /\ SameRead /\ call.phase = "validate" /\ Remaining = 0
        /\ call'.phase = "open" /\ call'.position = call.start
    BY <1>1, <1>7 DEF Validated, CallType, SameRead
  <2>2. Left = 3 * call.length + 2 /\ Left' = 3 * Remaining' + 1
    BY <1>2, <1>5, <2>1 DEF Left
  <2>3. Remaining' = call.length
    BY <1>2, <1>4, <2>1 DEF SameRead
  <2> QED
    BY <1>2, <1>4, <2>2, <2>3
<1>8. CASE OpenSegment
  <2>1. PICK f \in FilesAt(call.position) :
          \E o \in OpenCached(f, call.position - files[f].offset) :
             /\ Install(o)
             /\ IF o.ok
                THEN call' = [call EXCEPT !.phase = "copy", !.segment = SegmentIn(f)]
                ELSE Finish("failed")
    BY <1>8 DEF OpenSegment
  <2>2. call.phase = "open" /\ Remaining # 0 /\ files \in Tables
    BY <1>1, <1>8 DEF OpenSegment, HostType
  <2>3. SegmentIn(f) \in Nat /\ SegmentIn(f) > 0
    BY <1>1, <2>1, <2>2, SegmentBounds
  <2>4. /\ SameRead /\ call'.phase = "copy" /\ call'.position = call.position
        /\ call'.segment = SegmentIn(f)
    BY <1>1, <2>1, <2>2 DEF Finish, CallType, SameRead
  <2>5. Remaining' = Remaining
    BY <1>2, <1>4, <2>4 DEF SameRead
  <2>6. Left = 3 * Remaining + 1 /\ Left' = 3 * Remaining
    BY <1>2, <1>5, <2>2, <2>3, <2>4, <2>5 DEF Left
  <2> QED
    BY <1>2, <1>4, <2>6
<1>9. CASE CopyChunk
  <2>1. /\ call.phase = "copy" /\ call.segment # 0
        /\ SameRead /\ call'.phase = "copy" /\ call'.position = call.position + Chunk
    BY <1>1, <1>9 DEF CopyChunk, CallType, SameRead
  <2>2. Chunk \in Nat /\ Chunk > 0
    BY <1>1, <2>1, ChunkBounds
  <2>3. Remaining' = Remaining - Chunk
    BY <1>2, <1>4, <2>1, <2>2 DEF SameRead
  <2>4. Left = 3 * Remaining /\ Left' <= 3 * Remaining' + 2
    BY <1>2, <1>4, <1>5, <2>1 DEF Left
  <2> QED
    BY <1>2, <1>4, <2>2, <2>3, <2>4
<1>10. CASE SegmentDone
  <2>1. /\ call.phase = "copy" /\ call.segment = 0
        /\ SameRead /\ call'.phase = "open" /\ call'.position = call.position
    BY <1>1, <1>10 DEF SegmentDone, CallType, SameRead
  <2>2. Remaining' = Remaining
    BY <1>2, <1>4, <2>1 DEF SameRead
  <2>3. Left = 3 * Remaining + 2 /\ Left' = 3 * Remaining + 1
    BY <1>2, <1>5, <2>1, <2>2 DEF Left
  <2> QED
    BY <1>2, <1>4, <2>3
<1>11. CASE CopyShort \/ Streamed
  BY <1>1, <1>11 DEF CopyShort, Streamed, Finish, CallType
<1>12. ~(\E start \in 0 .. DiscSize, count \in 0 .. DiscSize, fits \in BOOLEAN :
           Read(start, count, fits))
  BY DEF Read
<1> QED
  BY <1>6, <1>7, <1>8, <1>9, <1>10, <1>11, <1>12 DEF Next

(* A read of any range of any disc ends: each step of validate_host_files  *)
(* and stream_disc_range leaves less to do, by a natural number; and the   *)
(* lookup of the next file, which has found one when the range was         *)
(* accepted, finds it again, so that the error "Disc range changed while   *)
(* reading" is never reported and the model needs no step for it.          *)
THEOREM ReadsEnd ==
    Spec => /\ [][call.phase # "idle" =>
                    call'.phase = "idle" \/ (Left' \in Nat /\ Left' < Left)]_vars
            /\ [](call.phase \in {"validate", "open"} /\ Remaining # 0 =>
                    FilesAt(call.position) # {})
<1>1. ASSUME IInv, IInv', [Next]_vars
      PROVE  [call.phase # "idle" =>
                call'.phase = "idle" \/ (Left' \in Nat /\ Left' < Left)]_vars
  BY <1>1, LessIsLeft
<1>2. ASSUME IInv, call.phase \in {"validate", "open"}, Remaining # 0
      PROVE  FilesAt(call.position) # {}
  <2>1. /\ Remaining \in Nat /\ call.start \in Nat /\ call.position \in Nat
        /\ call.length \in Nat
        /\ Remaining = call.start + call.length - call.position
    BY <1>2, LeftCounts
  <2>2. call.start <= call.position /\ Covered(call.start, call.length)
    BY <1>2 DEF IInv, Accepted
  <2>3. call.position \in call.start .. call.start + call.length - 1
    BY <1>2, <2>1, <2>2
  <2>4. FilesCovering(call.position) # {}
    BY <2>2, <2>3 DEF Covered
  <2> QED
    BY <1>2, <2>1, <2>4, LookupFinds DEF IInv, HostType
<1> QED
  BY <1>1, <1>2, ReadInvariance, PTL DEF Spec
=============================================================================
