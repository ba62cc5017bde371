----------------------------- MODULE FilesProofs ------------------------------
(***************************************************************************)
(* The parts of the host that move bytes between the card, the disc and    *)
(* the guest's memory on state of their own: the files of the title, the   *)
(* listing of a directory, the copies into guest memory, the loading of    *)
(* the program and the tables of the disc.                                 *)
(***************************************************************************)
EXTENDS IosFiles, DirectoryListing, GuestCopy, DolBoot, DiscImage, Lemmas

-----------------------------------------------------------------------------
(* The files of the card, for any paths, files and failures of the C       *)
(* library.  FilesKept speaks of a step; the invariant says what the card  *)
(* looks like before it: every place is a file, a directory or nothing,    *)
(* and no file has two places.                                             *)

TreeOK == tree \in [Node -> Inode \cup NoFile]

\* No file is in two places.
OnePlace == \A m, n \in Node : tree[m] \in Inode /\ tree[m] = tree[n] => m = n

TreeIInv == TreeOK /\ OnePlace

\* What a step does to the files of the card.
Kept ==
    \A n \in Node : tree[n] \in Inode =>
        \/ \E m \in Node : tree'[m] = tree[n]
        \/ answer'.request = "remove" /\ answer'.place = n

Sure == TreeIInv' /\ Kept

LEMMA PathsHavePlaces == <<>> \in Node /\ \A path \in GuestPath : Names(path) \in Node
  BY DEF Node, PathEnd

LEMMA TreeInitial == FilesInit => TreeIInv
  BY NoFileAssumption, PathsHavePlaces DEF FilesInit, TreeIInv, TreeOK, OnePlace, NoFile

\* A step that leaves the tree alone.
LEMMA Untouching == ASSUME TreeIInv, tree' = tree PROVE Sure
  BY DEF TreeIInv, TreeOK, OnePlace, Sure, Kept

\* Directories are made where nothing was: no file changes.
LEMMA MadeTree ==
    ASSUME TreeIInv, NEW missing \in SUBSET {n \in Node : tree[n] = "none"}
    PROVE  /\ Made(missing) \in [Node -> Inode \cup NoFile]
           /\ \A n \in Node : tree[n] \in Inode => Made(missing)[n] = tree[n]
           /\ \A n \in Node : Made(missing)[n] \in Inode => Made(missing)[n] = tree[n]
           /\ \A n \in Node \ missing : Made(missing)[n] = tree[n]
  BY NoFileAssumption DEF TreeIInv, TreeOK, Made, NoFile

LEMMA MakingKeeps ==
    ASSUME TreeIInv, NEW missing \in SUBSET {n \in Node : tree[n] = "none"},
           tree' = Made(missing)
    PROVE  Sure
<1>1. TreeOK'
  BY MadeTree DEF TreeOK
<1>2. OnePlace'
  BY MadeTree DEF OnePlace, TreeIInv
<1>3. Kept
  BY MadeTree DEF Kept
<1> QED
  BY <1>1, <1>2, <1>3 DEF Sure, TreeIInv

LEMMA PartlyMadeKeeps ==
    ASSUME TreeIInv, NEW node \in Node, PartlyMade(node)
    PROVE  Sure
<1>1. PICK k \in 0..Len(node) : tree' = Made({n \in MissingAbove(node) : Len(n) <= k})
  BY DEF PartlyMade
<1>2. {n \in MissingAbove(node) : Len(n) <= k} \in SUBSET {n \in Node : tree[n] = "none"}
  BY DEF MissingAbove, Above
<1> QED
  BY <1>1, <1>2, MakingKeeps
-----------------------------------------------------------------------------
LEMMA CreateDirectoryKeeps ==
    ASSUME TreeIInv, NEW path \in GuestPath, CreateDirectory(path)
    PROVE  Sure
<1>1. Names(path) \in Node
  BY PathsHavePlaces
<1>2. CASE Untouched(path) \/ Refuse(Exists(path))
  BY <1>2, Untouching DEF Untouched, Refuse, Nothing
<1>3. CASE PartlyMade(Names(path))
  BY <1>1, <1>3, PartlyMadeKeeps
<1>4. CASE /\ ~Exists(path)
           /\ tree' = Made(MissingAbove(Names(path)) \cup {Names(path)})
  <2>1. MissingAbove(Names(path)) \cup {Names(path)} \in SUBSET {n \in Node : tree[n] = "none"}
    BY <1>1, <1>4 DEF Exists, MissingAbove, Above
  <2> QED
    BY <1>4, <2>1, MakingKeeps
<1> QED
  BY <1>2, <1>3, <1>4 DEF CreateDirectory

\* The new file is one that no place holds.
LEMMA CreateFileKeeps ==
    ASSUME TreeIInv, NEW path \in GuestPath, CreateFile(path)
    PROVE  Sure
<1> DEFINE place == Names(path)
<1>1. place \in Node
  BY PathsHavePlaces
<1> HIDE DEF place
<1>2. CASE Untouched(path) \/ Refuse(Exists(path))
  BY <1>2, Untouching DEF Untouched, Refuse, Nothing
<1>3. CASE PartlyMade(place)
  BY <1>1, <1>3, PartlyMadeKeeps
<1>4. ASSUME NEW i \in Unused, tree[place] = "none",
             tree' = [Made(MissingAbove(place)) EXCEPT ![place] = i]
      PROVE  Sure
  <2> DEFINE made == Made(MissingAbove(place))
  <2>1. MissingAbove(place) \in SUBSET {n \in Node : tree[n] = "none"}
    BY DEF MissingAbove, Above
  <2>2. /\ made \in [Node -> Inode \cup NoFile]
        /\ \A n \in Node : tree[n] \in Inode => made[n] = tree[n]
        /\ \A n \in Node : made[n] \in Inode => made[n] = tree[n]
    BY <2>1, MadeTree
  <2> HIDE DEF made
  <2>3. /\ tree' \in [Node -> Inode \cup NoFile]
        /\ tree'[place] = i
        /\ \A n \in Node \ {place} : tree'[n] = made[n]
    BY <1>1, <1>4, <2>2 DEF Unused, made
  <2>4. \A n \in Node : tree[n] # i
    BY DEF Unused
  <2>5. OnePlace'
    BY <2>2, <2>3, <2>4 DEF OnePlace, TreeIInv
  <2>6. Kept
    BY <1>4, <2>2, <2>3, NoFileAssumption DEF Kept, NoFile
  <2> QED
    BY <2>3, <2>5, <2>6 DEF Sure, TreeIInv, TreeOK
<1> QED
  BY <1>2, <1>3, <1>4 DEF CreateFile, Exists, place

LEMMA DeleteKeeps ==
    ASSUME TreeIInv, NEW path \in GuestPath, Delete(path)
    PROVE  Sure
<1>1. CASE Untouched(path) \/ Refuse(~Removable(Names(path)))
  BY <1>1, Untouching DEF Untouched, Refuse, Nothing
<1>2. CASE /\ tree' = [tree EXCEPT ![Names(path)] = "none"]
           /\ Removing(Names(path))
  <2>1. answer'.request = "remove" /\ answer'.place = Names(path)
    BY <1>2 DEF Removing
  <2>2. /\ tree' \in [Node -> Inode \cup NoFile]
        /\ \A n \in Node \ {Names(path)} : tree'[n] = tree[n]
        /\ \A n \in Node : tree'[n] \in Inode => tree'[n] = tree[n]
    BY <1>2, NoFileAssumption DEF TreeIInv, TreeOK, NoFile
  <2>3. OnePlace'
    BY <2>2 DEF OnePlace, TreeIInv
  <2>4. Kept
    BY <2>1, <2>2 DEF Kept
  <2> QED
    BY <2>2, <2>3, <2>4 DEF Sure, TreeIInv, TreeOK
<1> QED
  BY <1>1, <1>2 DEF Delete
-----------------------------------------------------------------------------
\* Wherever the rename stops, its source still has a place: its own, or the
\* destination's.
LEMMA RenameFileKeeps ==
    ASSUME TreeIInv, NEW from \in Node, NEW to \in Node, tree[from] \in Inode,
           RenameFile(from, to)
    PROVE  Sure
<1> DEFINE made == Made(MissingAbove(to))
           cleared == [made EXCEPT ![to] = "none"]
<1>1. MissingAbove(to) \in SUBSET {n \in Node : tree[n] = "none"}
  BY DEF MissingAbove, Above
<1>2. /\ made \in [Node -> Inode \cup NoFile]
      /\ \A n \in Node : tree[n] \in Inode => made[n] = tree[n]
      /\ \A n \in Node : made[n] \in Inode => made[n] = tree[n]
  BY <1>1, MadeTree
<1>3. answer'.request = "remove" /\ answer'.place = to
  BY DEF RenameFile, Removing
<1>4. \/ tree' = made
      \/ tree' = cleared
      \/ from # to /\ tree' = [cleared EXCEPT ![from] = "none", ![to] = tree[from]]
  BY DEF RenameFile
<1>5. CASE tree' = made
  BY <1>1, <1>5, MakingKeeps
<1>6. CASE tree' = cleared
  <2> HIDE DEF made
  <2>1. /\ tree' \in [Node -> Inode \cup NoFile]
        /\ \A n \in Node \ {to} : tree'[n] = made[n]
        /\ \A n \in Node : tree'[n] \in Inode => n # to /\ tree'[n] = tree[n]
    BY <1>2, <1>6, NoFileAssumption DEF NoFile
  <2>2. OnePlace'
    BY <2>1 DEF OnePlace, TreeIInv
  <2>3. Kept
    BY <1>2, <1>3, <2>1 DEF Kept
  <2> QED
    BY <2>1, <2>2, <2>3 DEF Sure, TreeIInv, TreeOK
<1>7. CASE from # to /\ tree' = [cleared EXCEPT ![from] = "none", ![to] = tree[from]]
  <2> HIDE DEF made
  <2>1. /\ tree' \in [Node -> Inode \cup NoFile]
        /\ tree'[to] = tree[from] /\ tree'[from] = "none"
        /\ \A n \in Node \ {from, to} : tree'[n] = made[n]
    BY <1>2, <1>7, NoFileAssumption DEF NoFile
  <2>2. \A n \in Node : tree'[n] \in Inode =>
            n = to \/ (n # from /\ tree'[n] = tree[n])
    BY <1>2, <2>1, NoFileAssumption DEF NoFile
  <2>3. OnePlace'
    BY <2>1, <2>2 DEF OnePlace, TreeIInv
  <2>4. Kept
    BY <1>2, <1>3, <2>1 DEF Kept
  <2> QED
    BY <2>1, <2>3, <2>4 DEF Sure, TreeIInv, TreeOK
<1> QED
  BY <1>4, <1>5, <1>6, <1>7

LEMMA RenameKeeps ==
    ASSUME TreeIInv, NEW path \in GuestPath, NEW second \in GuestPath, Rename(path, second)
    PROVE  Sure
<1>1. Names(path) \in Node /\ Names(second) \in Node
  BY PathsHavePlaces
<1>2. CASE Refuse(~Touched(path) \/ ~Touched(second)) \/ Refuse(~Exists(path))
  BY <1>2, Untouching DEF Refuse, Nothing
<1>3. CASE PartlyMade(Names(second))
  BY <1>1, <1>3, PartlyMadeKeeps
<1>4. CASE tree[Names(path)] \in Inode /\ RenameFile(Names(path), Names(second))
  BY <1>1, <1>4, RenameFileKeeps
<1> QED
  BY <1>2, <1>3, <1>4 DEF Rename

\* Descriptors and streams do not touch the tree.
LEMMA DescriptorsUntouching ==
    \/ \E path \in GuestPath : OpenDevice(path) \/ OpenRefused(path)
    \/ \E path \in StreamPath, mode \in GuestMode : OpenFile(path, mode)
    \/ \E s \in Slot : Close(s) \/ DeviceReadWrite(s) \/ AccessRefused(s) \/ FileStats(s)
    \/ \E fd \in FdBase..(FdBase + FdCount) : BadDescriptor(fd)
    \/ \E s \in Slot, size \in 1..MaxLength : Read(s, size)
    \/ \E s \in Slot, byte \in FileByte : Write(s, byte)
    \/ \E s \in Slot, whence \in {"set", "cur", "end"}, offset \in {-1, 0, 1} :
           Seek(s, whence, offset)
    \/ Shutdown
    => tree' = tree
<1>1. ASSUME NEW path \in GuestPath, OpenDevice(path) \/ OpenRefused(path)
      PROVE  tree' = tree
  BY <1>1 DEF OpenDevice, OpenRefused, Allocate, Nothing
<1>2. ASSUME NEW path \in StreamPath, NEW mode \in GuestMode, OpenFile(path, mode)
      PROVE  tree' = tree
  BY <1>2 DEF OpenFile, Allocate
<1>3. ASSUME NEW s \in Slot, Close(s) \/ DeviceReadWrite(s) \/ AccessRefused(s) \/ FileStats(s)
      PROVE  tree' = tree
  BY <1>3 DEF Close, DeviceReadWrite, AccessRefused, FileStats, Nothing
<1>4. ASSUME NEW fd, BadDescriptor(fd) PROVE tree' = tree
  BY <1>4 DEF BadDescriptor, Nothing
<1>5. ASSUME NEW s \in Slot, NEW size, Read(s, size) PROVE tree' = tree
  BY <1>5 DEF Read
<1>6. ASSUME NEW s \in Slot, NEW byte, Write(s, byte) PROVE tree' = tree
  BY <1>6 DEF Write
<1>7. ASSUME NEW s \in Slot, NEW whence, NEW offset, Seek(s, whence, offset)
      PROVE  tree' = tree
  BY <1>7 DEF Seek
<1>8. CASE Shutdown
  BY <1>8 DEF Shutdown
<1> QED
  BY <1>1, <1>2, <1>3, <1>4, <1>5, <1>6, <1>7, <1>8

LEMMA FilesStep == TreeIInv /\ [FilesNext]_filesVars => Sure
<1> SUFFICES ASSUME TreeIInv, [FilesNext]_filesVars PROVE Sure
  OBVIOUS
<1>1. StreamPath \subseteq GuestPath
  BY FilesAssumption
<1>2. CASE DescriptorRequests
  BY <1>2, DescriptorsUntouching, Untouching DEF DescriptorRequests
<1>3. CASE CardRequests
  BY <1>3, CreateDirectoryKeeps, CreateFileKeeps, DeleteKeeps, RenameKeeps DEF CardRequests
<1>4. CASE StreamRequests
  <2>1. CASE \E path \in StreamPath : CreateFile(path)
    BY <1>1, <2>1, CreateFileKeeps
  <2>2. CASE tree' = tree
    BY <2>2, Untouching
  <2> QED
    BY <1>4, <2>1, <2>2, DescriptorsUntouching DEF StreamRequests
<1>5. CASE UNCHANGED filesVars
  BY <1>5, Untouching DEF filesVars
<1> QED
  BY <1>2, <1>3, <1>4, <1>5 DEF FilesNext

(* The card's tree stays one, and no file of it is in two places.          *)
THEOREM TreeInvariance == FilesSpec => []TreeIInv
<1>1. TreeIInv /\ [FilesNext]_filesVars => TreeIInv'
  BY FilesStep DEF Sure
<1> QED
  BY <1>1, TreeInitial, PTL DEF FilesSpec

(* Whatever call of the C library fails in handle_fs_ioctl, and whatever   *)
(* the paths are, a file is lost only by being deleted or by being the     *)
(* destination of a rename.                                                *)
THEOREM FilesAreKept == FilesSpec => FilesKept
<1>1. TreeIInv /\ [FilesNext]_filesVars => [Kept]_filesVars
  BY FilesStep DEF Sure
<1> QED
  BY <1>1, TreeInvariance, PTL DEF FilesSpec, FilesKept, Kept
-----------------------------------------------------------------------------
(* What the guest's answers tell it of its files, for any of them.  The    *)
(* invariant: a stream that holds bytes back has a place for them before   *)
(* it, and the card's bytes with those the stream holds back are what the  *)
(* guest believes.                                                         *)

Stored == FileByte \cup {0, Unknown}
FileContent == {c \in Seq(Stored) : Len(c) <= MaxLength}
FdRange == FdBase..(FdBase + FdCount - 1)

StreamRecord ==
    [used : BOOLEAN, fd : Int, mode : 1..3, inode : Inode \cup {NoInode},
     at : 0..MaxLength, held : Seq(Stored), last : {"none", "read", "write"}, told : Int]

FilesShape ==
    /\ fds \in [Slot -> StreamRecord]
    /\ nextFd \in FdRange
    /\ content \in [Inode -> FileContent]
    /\ believed \in [Inode -> Seq(Stored)]

\* Bytes are held back only before the stream's place and not after a read,
\* and what the guest knows of the place is right.
Positioned(stream) ==
    /\ Len(stream.held) <= stream.at
    /\ stream.last = "read" => stream.held = <<>>
    /\ stream.told \in {Unknown, stream.at}

StreamsPositioned == \A s \in Slot : Positioned(fds[s])

\* A file is open once.
OneStream == \A s, t \in Opened : fds[s].inode = fds[t].inode => s = t

WithHeld(bytes, stream) == Overwritten(bytes, stream.at - Len(stream.held), stream.held)

OpenedExact ==
    \A s \in Opened : believed[fds[s].inode] \in
                          {Lost, WithHeld(content[fds[s].inode], fds[s])}

ClosedExact ==
    \A i \in Inode : (\A s \in Opened : fds[s].inode # i) => believed[i] \in {Lost, content[i]}

\* What a shutdown that succeeded has told.
ShutdownFlushed ==
    answer.request = "shutdown" => \A s \in Opened : fds[s].held = <<>>

StreamsIInv ==
    /\ FilesShape /\ StreamsPositioned /\ OneStream
    /\ OpenedExact /\ ClosedExact /\ ShutdownFlushed

FilesIInv == StreamsIInv /\ DescriptorsDistinct /\ AnswersExact

-----------------------------------------------------------------------------
\* The greater of two numbers, and the smaller.
LEMMA MaxOfTwo ==
    ASSUME NEW a \in Int, NEW b \in Int
    PROVE  Max({a, b}) = IF a >= b THEN a ELSE b
<1> DEFINE m == IF a >= b THEN a ELSE b
<1>1. m \in {a, b} /\ \A y \in {a, b} : m >= y
  OBVIOUS
<1>2. \A x \in {a, b} : (\A y \in {a, b} : x >= y) => x = m
  OBVIOUS
<1> HIDE DEF m
<1>3. Max({a, b}) = m
  BY <1>1, <1>2 DEF Max
<1> QED
  BY <1>3 DEF m

LEMMA MinOfTwo ==
    ASSUME NEW a \in Int, NEW b \in Int
    PROVE  Min({a, b}) = IF a <= b THEN a ELSE b
<1> DEFINE m == IF a <= b THEN a ELSE b
<1>1. m \in {a, b} /\ \A y \in {a, b} : m =< y
  OBVIOUS
<1>2. \A x \in {a, b} : (\A y \in {a, b} : x =< y) => x = m
  OBVIOUS
<1> HIDE DEF m
<1>3. Min({a, b}) = m
  BY <1>1, <1>2 DEF Min
<1> QED
  BY <1>3 DEF m

\* Bytes written at a place.
LEMMA OverlaidBytes ==
    ASSUME NEW c \in Seq(Stored), NEW a \in Nat, NEW h \in Seq(Stored)
    PROVE  /\ Overlaid(c, a, h) \in Seq(Stored)
           /\ Len(Overlaid(c, a, h)) =
                IF Len(c) >= a + Len(h) THEN Len(c) ELSE a + Len(h)
           /\ \A i \in 1..Len(Overlaid(c, a, h)) :
                Overlaid(c, a, h)[i] =
                    IF i > a /\ i <= a + Len(h) THEN h[i - a]
                    ELSE IF i <= Len(c) THEN c[i] ELSE 0
<1> DEFINE m == IF Len(c) >= a + Len(h) THEN Len(c) ELSE a + Len(h)
           at(i) == IF i > a /\ i <= a + Len(h) THEN h[i - a]
                    ELSE IF i <= Len(c) THEN c[i] ELSE 0
<1>1. Len(c) \in Nat /\ Len(h) \in Nat /\ m \in Nat
  OBVIOUS
<1>2. Max({Len(c), a + Len(h)}) = m
  BY <1>1, MaxOfTwo
<1>3. ASSUME NEW i \in 1..m PROVE at(i) \in Stored
  <2>1. CASE i > a /\ i <= a + Len(h)
    <3>1. i - a \in 1..Len(h)
      BY <2>1, <1>1
    <3> QED
      BY <2>1, <3>1
  <2>2. CASE ~(i > a /\ i <= a + Len(h)) /\ i <= Len(c)
    <3>1. i \in 1..Len(c)
      BY <2>2, <1>1
    <3> QED
      BY <2>2, <3>1
  <2>3. CASE ~(i > a /\ i <= a + Len(h)) /\ ~(i <= Len(c))
    BY <2>3 DEF Stored
  <2> QED
    BY <2>1, <2>2, <2>3
<1>4. Overlaid(c, a, h) = [i \in 1..m |-> at(i)]
  BY <1>2 DEF Overlaid
<1> HIDE DEF m, at
<1>5. /\ Overlaid(c, a, h) \in Seq(Stored)
      /\ Len(Overlaid(c, a, h)) = m
      /\ \A i \in 1..m : Overlaid(c, a, h)[i] = at(i)
  BY <1>1, <1>3, <1>4
<1> QED
  BY <1>5 DEF m, at

\* A byte written behind bytes held back is one more of them.
LEMMA OverlaidAppend ==
    ASSUME NEW c \in Seq(Stored), NEW a \in Nat, NEW h \in Seq(Stored), NEW b \in Stored
    PROVE  Overlaid(Overwritten(c, a, h), a + Len(h), <<b>>) = Overlaid(c, a, Append(h, b))
<1> DEFINE k == Append(h, b)
           w == Overwritten(c, a, h)
           n == a + Len(h)
           one == <<b>>
           left == Overlaid(w, n, one)
           right == Overlaid(c, a, k)
<1>1. /\ Len(h) \in Nat /\ Len(c) \in Nat
      /\ k \in Seq(Stored) /\ Len(k) = Len(h) + 1
      /\ one \in Seq(Stored) /\ Len(one) = 1 /\ one[1] = b
  OBVIOUS
<1>2. /\ k[Len(h) + 1] = b
      /\ \A i \in 1..Len(h) : k[i] = h[i]
  OBVIOUS
<1>3. /\ w \in Seq(Stored)
      /\ Len(w) = IF h = <<>> \/ Len(c) >= n THEN Len(c) ELSE n
      /\ \A i \in 1..Len(w) :
            w[i] = IF i > a /\ i <= n THEN h[i - a] ELSE IF i <= Len(c) THEN c[i] ELSE 0
  <2>1. CASE h = <<>>
    <3>1. w = c /\ n = a
      BY <2>1 DEF Overwritten
    <3> HIDE DEF w, n
    <3> QED
      BY <2>1, <3>1, <1>1
  <2>2. CASE h # <<>>
    <3>1. w = Overlaid(c, a, h)
      BY <2>2 DEF Overwritten
    <3> HIDE DEF w
    <3> QED
      BY <2>2, <3>1, OverlaidBytes
  <2> QED
    BY <2>1, <2>2
<1>4. n \in Nat
  BY <1>1
<1> HIDE DEF w, k, one
<1>5. /\ left \in Seq(Stored)
      /\ Len(left) = IF Len(w) >= n + 1 THEN Len(w) ELSE n + 1
      /\ \A i \in 1..Len(left) :
            left[i] = IF i > n /\ i <= n + 1 THEN one[i - n]
                      ELSE IF i <= Len(w) THEN w[i] ELSE 0
  <2>1. one \in Seq(Stored) /\ n + Len(one) = n + 1
    BY <1>1 DEF one
  <2>2. w \in Seq(Stored)
    BY <1>3
  <2> HIDE DEF n
  <2> QED
    BY <2>1, <2>2, <1>4, OverlaidBytes
<1>6. /\ right \in Seq(Stored)
      /\ Len(right) = IF Len(c) >= n + 1 THEN Len(c) ELSE n + 1
      /\ \A i \in 1..Len(right) :
            right[i] = IF i > a /\ i <= n + 1 THEN k[i - a]
                       ELSE IF i <= Len(c) THEN c[i] ELSE 0
  <2>1. a + Len(k) = n + 1
    BY <1>1
  <2> HIDE DEF n
  <2> QED
    BY <1>1, <2>1, OverlaidBytes
<1> HIDE DEF left, right
<1>7. Len(left) = Len(right)
  <2>1. h = <<>> => Len(h) = 0
    OBVIOUS
  <2> QED
    BY <1>1, <1>3, <1>4, <1>5, <1>6
<1>8. ASSUME NEW i \in 1..Len(left) PROVE left[i] = right[i]
  <2>1. i \in Nat /\ i >= 1 /\ i \in 1..Len(right)
    BY <1>1, <1>5, <1>6, <1>7
  <2>2. CASE i = n + 1
    <3>1. i > n /\ i <= n + 1 /\ i - n = 1 /\ i > a /\ i - a = Len(h) + 1
      BY <1>1, <1>4, <2>2
    <3>2. left[i] = b
      BY <1>1, <1>5, <3>1
    <3>3. right[i] = b
      BY <1>2, <1>6, <2>1, <3>1
    <3> QED
      BY <3>2, <3>3
  <2>3. CASE i > a /\ i <= n
    <3>1. ~(i > n) /\ i <= n + 1 /\ i - a \in 1..Len(h)
      BY <1>1, <1>4, <2>1, <2>3
    <3>2. right[i] = h[i - a]
      BY <1>2, <1>6, <2>1, <2>3, <3>1
    <3>3. h # <<>>
      BY <3>1
    <3>4. i <= Len(w)
      BY <1>1, <1>3, <1>4, <2>1, <2>3, <3>3
    <3>5. left[i] = w[i]
      BY <1>5, <3>1, <3>4
    <3>6. i \in 1..Len(w)
      BY <1>3, <2>1, <3>4
    <3> QED
      BY <1>3, <2>3, <3>2, <3>5, <3>6
  <2>4. CASE i <= a
    <3>1. ~(i > n) /\ ~(i > a)
      BY <1>1, <1>4, <2>1, <2>4
    <3>2. right[i] = IF i <= Len(c) THEN c[i] ELSE 0
      BY <1>6, <2>1, <3>1
    <3>3. left[i] = IF i <= Len(w) THEN w[i] ELSE 0
      BY <1>5, <3>1
    <3>4. i <= Len(w) => w[i] = IF i <= Len(c) THEN c[i] ELSE 0
      <4>1. i <= Len(w) => i \in 1..Len(w)
        BY <1>3, <2>1
      <4> QED
        BY <1>3, <3>1, <4>1
    <3>5. i <= Len(c) => i <= Len(w)
      BY <1>1, <1>3, <1>4, <2>1
    <3> QED
      BY <3>2, <3>3, <3>4, <3>5
  <2>5. CASE i > n + 1
    <3>1. ~(i <= n + 1) /\ ~(i <= n)
      BY <1>1, <1>4, <2>1, <2>5
    <3>2. right[i] = IF i <= Len(c) THEN c[i] ELSE 0
      BY <1>6, <2>1, <3>1
    <3>3. left[i] = IF i <= Len(w) THEN w[i] ELSE 0
      BY <1>5, <3>1
    <3>4. i <= Len(w) => w[i] = IF i <= Len(c) THEN c[i] ELSE 0
      <4>1. i <= Len(w) => i \in 1..Len(w)
        BY <1>3, <2>1
      <4> QED
        BY <1>3, <3>1, <4>1
    <3>5. i <= Len(c) => i <= Len(w)
      BY <1>1, <1>3, <1>4, <2>1
    <3> QED
      BY <3>2, <3>3, <3>4, <3>5
  <2> QED
    BY <1>1, <1>4, <2>1, <2>2, <2>3, <2>4, <2>5
<1> QED
  BY <1>5, <1>6, <1>7, <1>8, SeqEqual DEF left, right, k, w, one, n
-----------------------------------------------------------------------------
(* The C library's part: what a flush does to the card and to what the     *)
(* guest believes.                                                         *)

PartlyWritten(c, stream, kept) ==
    Overwritten(c, stream.at - Len(stream.held), SubSeq(stream.held, 1, kept))

LEMMA PartlyWrittenType ==
    ASSUME NEW c \in FileContent, NEW stream \in StreamRecord,
           Len(stream.held) <= stream.at, NEW kept \in 0..Len(stream.held)
    PROVE  /\ PartlyWritten(c, stream, kept) \in FileContent
           /\ kept = Len(stream.held) =>
                PartlyWritten(c, stream, kept) = WithHeld(c, stream)
<1> DEFINE h == stream.held
           a == stream.at - Len(h)
           part == SubSeq(h, 1, kept)
<1>1. h \in Seq(Stored) /\ stream.at \in 0..MaxLength /\ Len(h) <= stream.at
  BY DEF StreamRecord
<1>2. MaxLength \in Nat
  BY FilesAssumption
<1>3. c \in Seq(Stored) /\ Len(c) <= MaxLength
  BY DEF FileContent
<1> HIDE DEF h
<1>4. kept \in 0..Len(h)
  BY DEF h
<1>5. part \in Seq(Stored) /\ Len(part) = kept
  BY <1>1, <1>4
<1>6. kept = Len(h) => part = h
  BY <1>1
<1>7. a \in Nat /\ a + kept <= MaxLength
  BY <1>1, <1>2, <1>4
<1> HIDE DEF a, part
<1>8. Overwritten(c, a, part) \in FileContent
  <2>1. CASE part = <<>>
    BY <1>3, <2>1 DEF Overwritten, FileContent
  <2>2. CASE part # <<>>
    <3>1. Overlaid(c, a, part) \in Seq(Stored) /\ Len(Overlaid(c, a, part)) <= MaxLength
      BY <1>3, <1>5, <1>7, OverlaidBytes
    <3> QED
      BY <2>2, <3>1 DEF Overwritten, FileContent
  <2> QED
    BY <2>1, <2>2
<1> QED
  BY <1>6, <1>8 DEF PartlyWritten, WithHeld, h, a, part

LEMMA FlushedCard ==
    ASSUME FilesShape, NEW stream \in StreamRecord, Len(stream.held) <= stream.at,
           NEW kept \in 0..Len(stream.held), stream.inode \in Inode
    PROVE  /\ FlushedContent(stream, kept) \in [Inode -> FileContent]
           /\ \A j \in Inode \ {stream.inode} : FlushedContent(stream, kept)[j] = content[j]
           /\ FlushedContent(stream, kept)[stream.inode] =
                PartlyWritten(content[stream.inode], stream, kept)
<1>1. content \in [Inode -> FileContent]
  BY DEF FilesShape
<1>2. stream.inode # NoInode
  BY FilesAssumption
<1>3. FlushedContent(stream, kept) =
        [content EXCEPT ![stream.inode] = PartlyWritten(content[stream.inode], stream, kept)]
  BY <1>1, <1>2 DEF FlushedContent, PartlyWritten
<1>4. PartlyWritten(content[stream.inode], stream, kept) \in FileContent
  BY <1>1, PartlyWrittenType
<1> QED
  BY <1>1, <1>3, <1>4

\* A flush ends with the card holding what the stream held back, or with the
\* guest believing nothing of the file.
FlushedFile(s, ok) ==
    /\ content' \in [Inode -> FileContent] /\ believed' \in [Inode -> Seq(Stored)]
    /\ \A j \in Inode \ {fds[s].inode} : content'[j] = content[j] /\ believed'[j] = believed[j]
    /\ fds[s].inode \in Inode =>
          IF ok THEN /\ believed'[fds[s].inode] = believed[fds[s].inode]
                     /\ content'[fds[s].inode] = WithHeld(content[fds[s].inode], fds[s])
          ELSE believed'[fds[s].inode] = Lost

LEMMA LostType == Lost \in Seq(Stored)
  BY DEF Lost, Stored

LEMMA Forgetting ==
    ASSUME FilesShape, NEW i \in Inode \cup {NoInode}
    PROVE  /\ [believed EXCEPT ![i] = Lost] \in [Inode -> Seq(Stored)]
           /\ \A j \in Inode \ {i} : [believed EXCEPT ![i] = Lost][j] = believed[j]
           /\ i \in Inode => [believed EXCEPT ![i] = Lost][i] = Lost
  BY LostType DEF FilesShape

LEMMA FlushEffect ==
    ASSUME FilesShape, NEW s \in Slot, Positioned(fds[s]), NEW flush \in FlushOutcome(fds[s]),
           content' = flush.content, Believing(flush.ok, fds[s].inode)
    PROVE  flush.ok \in BOOLEAN /\ FlushedFile(s, flush.ok)
<1> DEFINE stream == fds[s]
           i == fds[s].inode
<1>1. /\ stream \in StreamRecord /\ i \in Inode \cup {NoInode}
      /\ stream.held \in Seq(Stored) /\ Len(stream.held) <= stream.at
      /\ content \in [Inode -> FileContent] /\ believed \in [Inode -> Seq(Stored)]
  BY DEF FilesShape, StreamRecord, Positioned
<1>2. \/ flush.ok = TRUE /\ flush.content = FlushedContent(stream, Len(stream.held))
      \/ /\ flush.ok = FALSE
         /\ \E kept \in 0..(Len(stream.held) - 1) : flush.content = FlushedContent(stream, kept)
  BY DEF FlushOutcome
<1>3. flush.ok \in BOOLEAN
  BY <1>2
<1>4. PICK kept \in 0..Len(stream.held) :
        /\ flush.content = FlushedContent(stream, kept)
        /\ flush.ok => kept = Len(stream.held)
  <2>1. Len(stream.held) \in 0..Len(stream.held)
    BY <1>1
  <2>2. 0..(Len(stream.held) - 1) \subseteq 0..Len(stream.held)
    BY <1>1
  <2> QED
    BY <1>2, <2>1, <2>2
<1>5. /\ believed' \in [Inode -> Seq(Stored)]
      /\ \A j \in Inode \ {i} : believed'[j] = believed[j]
      /\ i \in Inode => believed'[i] = IF flush.ok THEN believed[i] ELSE Lost
  BY <1>1, <1>3, Forgetting DEF Believing
<1>6. CASE i \in Inode
  <2>1. /\ content' \in [Inode -> FileContent]
        /\ \A j \in Inode \ {i} : content'[j] = content[j]
        /\ content'[i] = PartlyWritten(content[i], stream, kept)
    <3>1. content' = FlushedContent(stream, kept)
      BY <1>4
    <3> HIDE DEF stream
    <3>2. stream.inode = i
      BY DEF stream
    <3> HIDE DEF i
    <3>3. stream.inode \in Inode
      BY <1>6, <3>2
    <3> QED
      BY <1>1, <3>1, <3>2, <3>3, FlushedCard
  <2>2. flush.ok => content'[i] = WithHeld(content[i], stream)
    BY <1>1, <1>4, <1>6, <2>1, PartlyWrittenType
  <2> QED
    BY <1>3, <1>5, <1>6, <2>1, <2>2 DEF FlushedFile
<1>7. CASE i \notin Inode
  <2>1. content' = content
    BY <1>1, <1>4, <1>7 DEF FlushedContent
  <2> QED
    BY <1>1, <1>3, <1>5, <1>7, <2>1 DEF FlushedFile
<1> QED
  BY <1>6, <1>7
-----------------------------------------------------------------------------
(* The steps.  Most change one open stream.                                *)

\* A stream of a step's own, with what the guest believes of its file.
OneStreamChanged(s) ==
    /\ fds' \in [Slot -> StreamRecord]
    /\ \A t \in Slot \ {s} : fds'[t] = fds[t]
    /\ fds'[s].used /\ fds'[s].fd = fds[s].fd /\ fds'[s].inode = fds[s].inode
    /\ Positioned(fds'[s])
    /\ content' \in [Inode -> FileContent] /\ believed' \in [Inode -> Seq(Stored)]
    /\ \A j \in Inode \ {fds[s].inode} : content'[j] = content[j] /\ believed'[j] = believed[j]
    /\ believed'[fds[s].inode] \in {Lost, WithHeld(content'[fds[s].inode], fds'[s])}
    /\ nextFd' = nextFd

LEMMA OneStreamKeeps ==
    ASSUME StreamsIInv, DescriptorsDistinct, NEW s \in Opened, OneStreamChanged(s),
           answer'.request \notin {"full", "shutdown"}
    PROVE  StreamsIInv' /\ DescriptorsDistinct'
<1>1. s \in Slot /\ fds[s].used /\ fds[s].inode \in Inode /\ fds[s].inode # NoInode
  BY DEF Opened, StreamsIInv, FilesShape, StreamRecord
<1>2. FilesShape'
  BY DEF OneStreamChanged, StreamsIInv, FilesShape
<1>3. StreamsPositioned'
  BY DEF OneStreamChanged, StreamsIInv, StreamsPositioned, Positioned
<1>4. /\ Opened' = Opened
      /\ \A t \in Opened : fds'[t].inode = fds[t].inode
  BY <1>1 DEF OneStreamChanged, Opened
<1>5. OneStream'
  BY <1>4 DEF OneStream, StreamsIInv
<1>6. \A t \in Opened \ {s} : fds[t].inode # fds[s].inode /\ fds[t].inode \in Inode /\ t \in Slot
  BY DEF StreamsIInv, OneStream, Opened, FilesShape, StreamRecord
<1>7. OpenedExact'
  <2>1. ASSUME NEW t \in Opened
        PROVE  believed'[fds'[t].inode] \in {Lost, WithHeld(content'[fds'[t].inode], fds'[t])}
    <3>1. CASE t = s
      BY <1>4, <3>1 DEF OneStreamChanged
    <3>2. CASE t # s
      <4>1. fds'[t] = fds[t] /\ fds[t].inode \in Inode \ {fds[s].inode}
        BY <1>6, <3>2 DEF OneStreamChanged
      <4>2. believed[fds[t].inode] \in {Lost, WithHeld(content[fds[t].inode], fds[t])}
        BY DEF StreamsIInv, OpenedExact
      <4> QED
        BY <4>1, <4>2 DEF OneStreamChanged
    <3> QED
      BY <3>1, <3>2
  <2> QED
    BY <1>4, <2>1 DEF OpenedExact, WithHeld, Overwritten, Overlaid, Lost
<1>8. ClosedExact'
  <2>1. ASSUME NEW i \in Inode, \A t \in Opened : fds[t].inode # i
        PROVE  believed'[i] \in {Lost, content'[i]}
    BY <2>1 DEF OneStreamChanged, StreamsIInv, ClosedExact
  <2> QED
    BY <1>4, <2>1 DEF ClosedExact
<1>9. ShutdownFlushed'
  BY DEF ShutdownFlushed
<1>10. DescriptorsDistinct'
  <2>1. \A t \in Slot : fds'[t].used = fds[t].used \/ t = s
    BY DEF OneStreamChanged
  <2>2. \A t \in Slot : fds'[t].fd = fds[t].fd
    BY DEF OneStreamChanged
  <2> QED
    BY <1>1, <2>1, <2>2 DEF DescriptorsDistinct
<1> QED
  BY <1>2, <1>3, <1>5, <1>7, <1>8, <1>9, <1>10 DEF StreamsIInv
\* Steps that leave descriptors and files alone.
LEMMA QuietKeeps ==
    ASSUME FilesIInv, UNCHANGED <<fds, nextFd, content, believed>>,
           answer'.request \in {"other", "remove"} \/ answer' = answer
    PROVE  FilesIInv'
<1>1. FilesShape' /\ StreamsPositioned' /\ OneStream' /\ OpenedExact' /\ ClosedExact'
  BY DEF FilesIInv, StreamsIInv, FilesShape, StreamsPositioned, OneStream, OpenedExact,
         ClosedExact, Opened
<1>2. ShutdownFlushed'
  BY DEF FilesIInv, StreamsIInv, ShutdownFlushed, Opened
<1>3. DescriptorsDistinct'
  BY DEF FilesIInv, DescriptorsDistinct
<1>4. AnswersExact'
  BY DEF FilesIInv, AnswersExact
<1> QED
  BY <1>1, <1>2, <1>3, <1>4 DEF FilesIInv, StreamsIInv

LEMMA StreamReplaced ==
    ASSUME FilesShape, NEW s \in Slot, NEW r \in StreamRecord,
           fds' = [fds EXCEPT ![s] = r]
    PROVE  /\ fds' \in [Slot -> StreamRecord] /\ fds'[s] = r
           /\ \A t \in Slot \ {s} : fds'[t] = fds[t]
  BY DEF FilesShape

\* What a stream is after it has moved with nothing held back.
Emptied(stream, at, last, told) ==
    [stream EXCEPT !.at = at, !.held = <<>>, !.last = last, !.told = told]

\* A stream with the descriptor of another and nothing held back.
FlushedStream(r, stream) ==
    /\ r \in StreamRecord /\ Positioned(r) /\ r.held = <<>>
    /\ r.used = stream.used /\ r.fd = stream.fd /\ r.inode = stream.inode
    /\ \A bytes : WithHeld(bytes, r) = bytes

LEMMA EmptiedStream ==
    ASSUME NEW stream \in StreamRecord, NEW at \in 0..MaxLength,
           NEW last \in {"none", "read", "write"}, NEW told \in {Unknown, at}
    PROVE  FlushedStream(Emptied(stream, at, last, told), stream)
<1>1. MaxLength \in Nat
  BY FilesAssumption
<1>2. Unknown \in Int /\ at \in Int
  BY <1>1 DEF Unknown
<1> DEFINE r == Emptied(stream, at, last, told)
<1>3. /\ r \in StreamRecord /\ r.held = <<>> /\ r.at = at /\ r.told = told
      /\ r.used = stream.used /\ r.fd = stream.fd /\ r.inode = stream.inode
  <2>1. <<>> \in Seq(Stored) /\ told \in Int
    BY <1>2
  <2> QED
    BY <2>1 DEF Emptied, StreamRecord
<1>4. Len(r.held) = 0
  BY <1>3
<1> HIDE DEF r
<1>5. Positioned(r)
  BY <1>3, <1>4 DEF Positioned
<1>6. \A bytes : WithHeld(bytes, r) = bytes
  BY <1>3 DEF WithHeld, Overwritten
<1> QED
  BY <1>3, <1>5, <1>6 DEF r, FlushedStream

\* A stream that has been flushed moves.
LEMMA FlushedKeeps ==
    ASSUME FilesIInv, NEW s \in Opened, NEW ok \in BOOLEAN, FlushedFile(s, ok),
           NEW at \in 0..MaxLength, NEW last \in {"none", "read", "write"},
           NEW told \in {Unknown, at},
           fds' = [fds EXCEPT ![s] = Emptied(fds[s], at, last, told)],
           nextFd' = nextFd, answer'.request \notin {"full", "shutdown"}
    PROVE  /\ StreamsIInv' /\ DescriptorsDistinct'
           /\ ok => believed'[fds[s].inode] \in {Lost, content'[fds[s].inode]}
<1>1. /\ s \in Slot /\ fds[s] \in StreamRecord /\ fds[s].used /\ FilesShape
      /\ fds[s].inode \in Inode
  BY DEF Opened, FilesIInv, StreamsIInv, FilesShape, StreamRecord
<1> DEFINE r == Emptied(fds[s], at, last, told)
           i == fds[s].inode
<1>2. FlushedStream(r, fds[s])
  BY <1>1, EmptiedStream
<1> HIDE DEF r
<1>3. /\ fds' \in [Slot -> StreamRecord] /\ fds'[s] = r
      /\ \A t \in Slot \ {s} : fds'[t] = fds[t]
  BY <1>1, <1>2, StreamReplaced DEF r, FlushedStream
<1>4. believed[i] \in {Lost, WithHeld(content[i], fds[s])}
  BY DEF FilesIInv, StreamsIInv, OpenedExact
<1>5. /\ content' \in [Inode -> FileContent] /\ believed' \in [Inode -> Seq(Stored)]
      /\ \A j \in Inode \ {i} : content'[j] = content[j] /\ believed'[j] = believed[j]
      /\ believed'[i] \in {Lost, content'[i]}
  BY <1>1, <1>4 DEF FlushedFile
<1>6. OneStreamChanged(s)
  BY <1>1, <1>2, <1>3, <1>5 DEF OneStreamChanged, FlushedStream
<1>7. StreamsIInv' /\ DescriptorsDistinct'
  BY <1>6, OneStreamKeeps DEF FilesIInv
<1> QED
  BY <1>5, <1>7

LEMMA SliceLength ==
    ASSUME NEW bytes \in FileContent, NEW from \in 0..MaxLength, NEW size \in Nat
    PROVE  Len(Slice(bytes, from, size)) \in Nat /\ from + Len(Slice(bytes, from, size)) <= MaxLength
<1>1. MaxLength \in Nat /\ bytes \in Seq(Stored) /\ Len(bytes) <= MaxLength /\ Len(bytes) \in Nat
  BY FilesAssumption DEF FileContent
<1> DEFINE end == Min({from + size, Len(bytes)})
<1>2. end \in Nat /\ end <= Len(bytes)
  <2>1. from + size \in Nat
    BY <1>1
  <2>2. end = IF from + size <= Len(bytes) THEN from + size ELSE Len(bytes)
    BY <1>1, <2>1, MinOfTwo
  <2> QED
    BY <1>1, <2>1, <2>2
<1> HIDE DEF end
<1>3. CASE from + 1 <= end
  <2>1. Len(SubSeq(bytes, from + 1, end)) = end - from
    BY <1>1, <1>2, <1>3
  <2> QED
    BY <1>1, <1>2, <1>3, <2>1 DEF Slice, end
<1>4. CASE ~(from + 1 <= end)
  <2>1. Len(SubSeq(bytes, from + 1, end)) = 0
    BY <1>1, <1>2, <1>4
  <2>2. Len(Slice(bytes, from, size)) = 0
    BY <2>1 DEF Slice, end
  <2> QED
    BY <1>1, <2>2
<1> QED
  BY <1>3, <1>4
LEMMA OpenedStream ==
    ASSUME FilesIInv, NEW s \in Opened
    PROVE  /\ s \in Slot /\ fds[s] \in StreamRecord /\ fds[s].used /\ fds[s].inode \in Inode
           /\ fds[s].at \in 0..MaxLength /\ fds[s].last \in {"none", "read", "write"}
           /\ fds[s].told \in {Unknown, fds[s].at}
           /\ Positioned(fds[s]) /\ FilesShape
           /\ MaxLength \in Nat
  BY FilesAssumption
     DEF Opened, FilesIInv, StreamsIInv, FilesShape, StreamRecord, StreamsPositioned, Positioned

LEMMA ReadKeeps ==
    ASSUME FilesIInv, NEW s \in Slot, NEW size \in 1..MaxLength, Read(s, size)
    PROVE  FilesIInv'
<1>1. s \in Opened /\ nextFd' = nextFd
  BY DEF Read
<1> DEFINE i == fds[s].inode
           at == fds[s].at
<1>2. PICK flush \in FlushOutcome(fds[s]) :
        LET given == Slice(flush.content[i], at, size)
            after(read, told) == [fds EXCEPT
                ![s].at = @ + read, ![s].held = <<>>, ![s].last = "read",
                ![s].told = told]
        IN  /\ content' = flush.content
            /\ Believing(flush.ok, i)
            /\ \/ /\ flush.ok /\ Sound
                  /\ fds' = after(Len(given), Told(s, Len(given)))
                  /\ answer' = [request |-> "read", size |-> size, bytes |-> given,
                                inode |-> i, from |-> fds[s].told]
               \/ /\ Fail
                  /\ \E read \in 0..Len(given) : fds' = after(read, Unknown)
                  /\ Reply
  BY DEF Read
<1>3. /\ fds[s] \in StreamRecord /\ i \in Inode /\ at \in 0..MaxLength
      /\ fds[s].told \in {Unknown, at} /\ Positioned(fds[s]) /\ FilesShape
      /\ MaxLength \in Nat
  BY <1>1, OpenedStream
<1>4. flush.ok \in BOOLEAN /\ FlushedFile(s, flush.ok)
  BY <1>2, <1>3, FlushEffect
<1> DEFINE given == Slice(content'[i], at, size)
<1>5. Len(given) \in Nat /\ at + Len(given) <= MaxLength
  <2>1. content'[i] \in FileContent
    BY <1>3, <1>4 DEF FlushedFile
  <2>2. size \in Nat
    OBVIOUS
  <2> QED
    BY <1>3, <2>1, <2>2, SliceLength
<1>6. \A read, told : [fds EXCEPT
           ![s].at = @ + read, ![s].held = <<>>, ![s].last = "read", ![s].told = told]
         = [fds EXCEPT ![s] = Emptied(fds[s], at + read, "read", told)]
  BY <1>3 DEF Emptied, FilesShape, StreamRecord
<1> HIDE DEF given
<1>7. CASE /\ flush.ok
           /\ fds' = [fds EXCEPT
                  ![s].at = @ + Len(given), ![s].held = <<>>, ![s].last = "read",
                  ![s].told = Told(s, Len(given))]
           /\ answer' = [request |-> "read", size |-> size, bytes |-> given,
                         inode |-> i, from |-> fds[s].told]
  <2>1. at + Len(given) \in 0..MaxLength /\ Told(s, Len(given)) \in {Unknown, at + Len(given)}
    BY <1>3, <1>5 DEF Told
  <2>2. fds' = [fds EXCEPT ![s] = Emptied(fds[s], at + Len(given), "read", Told(s, Len(given)))]
    BY <1>6, <1>7
  <2>3. answer'.request \notin {"full", "shutdown"}
    BY <1>7
  <2>4. /\ StreamsIInv' /\ DescriptorsDistinct'
        /\ believed'[i] \in {Lost, content'[i]}
    <3> DEFINE place == at + Len(given)
               told == Told(s, Len(given))
    <3>1. "read" \in {"none", "read", "write"} /\ flush.ok /\ nextFd' = nextFd
      BY <1>1, <1>7
    <3>2. /\ place \in 0..MaxLength /\ told \in {Unknown, place}
          /\ fds' = [fds EXCEPT ![s] = Emptied(fds[s], place, "read", told)]
      BY <2>1, <2>2
    <3> HIDE DEF place, told
    <3> QED
      BY <1>1, <1>4, <2>3, <3>1, <3>2, FlushedKeeps
  <2>5. /\ answer'.request = "read" /\ answer'.size = size /\ answer'.bytes = given
        /\ answer'.inode = i /\ answer'.from = fds[s].told
    BY <1>7
  <2>6. AnswersExact'
    BY <1>3, <2>4, <2>5 DEF AnswersExact, given
  <2> QED
    BY <2>4, <2>6 DEF FilesIInv
<1>8. ASSUME NEW read \in 0..Len(given), Reply,
             fds' = [fds EXCEPT
                  ![s].at = @ + read, ![s].held = <<>>, ![s].last = "read",
                  ![s].told = Unknown]
      PROVE  FilesIInv'
  <2>1. at + read \in 0..MaxLength
    BY <1>3, <1>5
  <2>2. fds' = [fds EXCEPT ![s] = Emptied(fds[s], at + read, "read", Unknown)]
    BY <1>6, <1>8
  <2>3. answer'.request = "other"
    BY <1>8 DEF Reply
  <2>4. StreamsIInv' /\ DescriptorsDistinct'
    <3>1. "read" \in {"none", "read", "write"} /\ Unknown \in {Unknown, at + read}
      OBVIOUS
    <3> QED
      BY <1>1, <1>4, <2>1, <2>2, <2>3, <3>1, FlushedKeeps
  <2>5. AnswersExact'
    BY <2>3 DEF AnswersExact
  <2> QED
    BY <2>4, <2>5 DEF FilesIInv
<1> QED
  BY <1>2, <1>7, <1>8 DEF given

LEMMA SeekKeeps ==
    ASSUME FilesIInv, NEW s \in Slot, NEW whence \in {"set", "cur", "end"},
           NEW offset \in {-1, 0, 1}, Seek(s, whence, offset)
    PROVE  FilesIInv'
<1>1. s \in Opened /\ nextFd' = nextFd /\ answer'.request = "other"
  BY DEF Seek, Reply
<1> DEFINE i == fds[s].inode
           at == fds[s].at
<1>2. PICK flush \in FlushOutcome(fds[s]) :
        LET to == SeekTarget(s, whence, flush.content[fds[s].inode], offset)
        IN  /\ content' = flush.content
            /\ Believing(flush.ok, fds[s].inode)
            /\ to <= MaxLength
            /\ fds' = [fds EXCEPT ![s] =
                   IF ~flush.ok THEN Rewound(@, @.at, Unknown)
                   ELSE IF to < 0 THEN Rewound(@, @.at, @.told)
                   ELSE Rewound(@, to, to)]
  BY DEF Seek
<1>3. /\ fds[s] \in StreamRecord /\ i \in Inode /\ at \in 0..MaxLength
      /\ fds[s].told \in {Unknown, at} /\ Positioned(fds[s]) /\ FilesShape
      /\ MaxLength \in Nat
  BY <1>1, OpenedStream
<1>4. flush.ok \in BOOLEAN /\ FlushedFile(s, flush.ok)
  BY <1>2, <1>3, FlushEffect
<1> DEFINE to == SeekTarget(s, whence, content'[i], offset)
<1>5. to \in Int
  <2>1. content'[i] \in FileContent
    BY <1>3, <1>4 DEF FlushedFile
  <2>2. Len(content'[i]) \in Nat
    BY <2>1 DEF FileContent
  <2> DEFINE base == CASE whence = "set" -> 0
                       [] whence = "cur" -> at
                       [] whence = "end" -> Len(content'[i])
  <2>3. at \in Int
    BY <1>3
  <2>4. base \in Int
    <3> HIDE DEF at
    <3> DEFINE size == Len(content'[i])
    <3>1. size \in Int
      BY <2>2
    <3> HIDE DEF size
    <3>2. CASE whence = "set"
      BY <3>2 DEF base
    <3>3. CASE whence = "cur"
      BY <2>3, <3>3 DEF base
    <3>4. CASE whence = "end"
      BY <3>1, <3>4 DEF base, size
    <3> QED
      BY <3>2, <3>3, <3>4
  <2>5. to = offset + base
    BY DEF SeekTarget
  <2> HIDE DEF base, to
  <2> QED
    BY <2>4, <2>5
<1>6. \A place, told : Rewound(fds[s], place, told) = Emptied(fds[s], place, "none", told)
  BY DEF Rewound, Emptied
<1>7. to <= MaxLength
  BY <1>2
<1> HIDE DEF to
<1>8. PICK place \in 0..MaxLength : \E told \in {Unknown, place} :
        fds' = [fds EXCEPT ![s] = Emptied(fds[s], place, "none", told)]
  <2>1. fds \in [Slot -> StreamRecord]
    BY <1>3 DEF FilesShape
  <2>2. CASE ~flush.ok
    <3>1. fds' = [fds EXCEPT ![s] = Emptied(fds[s], at, "none", Unknown)]
      BY <1>2, <1>6, <2>1, <2>2
    <3> QED
      BY <1>3, <3>1
  <2>3. CASE flush.ok /\ to < 0
    <3>1. fds' = [fds EXCEPT ![s] = Emptied(fds[s], at, "none", fds[s].told)]
      BY <1>2, <1>6, <2>1, <2>3 DEF to
    <3> QED
      BY <1>3, <3>1
  <2>4. CASE flush.ok /\ ~(to < 0)
    <3>1. fds' = [fds EXCEPT ![s] = Emptied(fds[s], to, "none", to)]
      BY <1>2, <1>6, <2>1, <2>4 DEF to
    <3>2. to \in 0..MaxLength
      BY <1>3, <1>5, <1>7, <2>4
    <3> QED
      BY <3>1, <3>2
  <2> QED
    BY <1>4, <2>2, <2>3, <2>4
<1>9. StreamsIInv' /\ DescriptorsDistinct'
  <2>1. "none" \in {"none", "read", "write"} /\ answer'.request \notin {"full", "shutdown"}
    BY <1>1
  <2>2. PICK told \in {Unknown, place} :
          fds' = [fds EXCEPT ![s] = Emptied(fds[s], place, "none", told)]
    BY <1>8
  <2> QED
    BY <1>1, <1>4, <2>1, <2>2, FlushedKeeps
<1>10. AnswersExact'
  BY <1>1 DEF AnswersExact
<1> QED
  BY <1>9, <1>10 DEF FilesIInv

LEMMA FileStatsKeeps ==
    ASSUME FilesIInv, NEW s \in Slot, FileStats(s)
    PROVE  FilesIInv'
<1>1. s \in Opened /\ nextFd' = nextFd
  BY DEF FileStats
<1> DEFINE i == fds[s].inode
           at == fds[s].at
<1>2. PICK flush \in FlushOutcome(fds[s]) :
        LET size == Len(flush.content[fds[s].inode])
        IN  /\ content' = flush.content
            /\ Believing(flush.ok, fds[s].inode)
            /\ \/ /\ flush.ok /\ Sound
                  /\ fds' = [fds EXCEPT ![s] = Rewound(@, @.at, @.told)]
                  /\ answer' = [request |-> "stats", inode |-> fds[s].inode,
                                size |-> size]
               \/ /\ Fail
                  /\ \E place \in {fds[s].at, size} :
                        fds' = [fds EXCEPT ![s] = Rewound(@, place, Unknown)]
                  /\ Reply
  BY DEF FileStats
<1>3. /\ fds[s] \in StreamRecord /\ i \in Inode /\ at \in 0..MaxLength
      /\ fds[s].told \in {Unknown, at} /\ Positioned(fds[s]) /\ FilesShape
      /\ MaxLength \in Nat
  BY <1>1, OpenedStream
<1>4. flush.ok \in BOOLEAN /\ FlushedFile(s, flush.ok)
  BY <1>2, <1>3, FlushEffect
<1> DEFINE size == Len(content'[i])
<1>5. size \in 0..MaxLength
  <2>1. content'[i] \in FileContent
    BY <1>3, <1>4 DEF FlushedFile
  <2> QED
    BY <2>1 DEF FileContent
<1>6. \A place, told : Rewound(fds[s], place, told) = Emptied(fds[s], place, "none", told)
  BY DEF Rewound, Emptied
<1>7. "none" \in {"none", "read", "write"} /\ fds \in [Slot -> StreamRecord]
  BY <1>3 DEF FilesShape
<1> HIDE DEF size
<1>8. CASE /\ flush.ok
           /\ fds' = [fds EXCEPT ![s] = Rewound(@, @.at, @.told)]
           /\ answer' = [request |-> "stats", inode |-> i, size |-> size]
  <2>1. fds' = [fds EXCEPT ![s] = Emptied(fds[s], at, "none", fds[s].told)]
    BY <1>6, <1>7, <1>8
  <2>2. answer'.request \notin {"full", "shutdown"}
    BY <1>8
  <2>3. /\ StreamsIInv' /\ DescriptorsDistinct'
        /\ believed'[i] \in {Lost, content'[i]}
    <3> DEFINE told == fds[s].told
    <3>1. /\ "none" \in {"none", "read", "write"} /\ flush.ok /\ nextFd' = nextFd
          /\ at \in 0..MaxLength /\ told \in {Unknown, at}
          /\ fds' = [fds EXCEPT ![s] = Emptied(fds[s], at, "none", told)]
      BY <1>1, <1>3, <1>8, <2>1
    <3> HIDE DEF at, told
    <3> QED
      BY <1>1, <1>4, <2>2, <3>1, FlushedKeeps
  <2>4. answer'.request = "stats" /\ answer'.inode = i /\ answer'.size = size
    BY <1>8
  <2>5. AnswersExact'
    BY <2>3, <2>4 DEF AnswersExact, size
  <2> QED
    BY <2>3, <2>5 DEF FilesIInv
<1>9. ASSUME NEW place \in {at, size}, Reply,
             fds' = [fds EXCEPT ![s] = Rewound(@, place, Unknown)]
      PROVE  FilesIInv'
  <2>1. fds' = [fds EXCEPT ![s] = Emptied(fds[s], place, "none", Unknown)]
    BY <1>6, <1>7, <1>9
  <2>2. answer'.request = "other"
    BY <1>9 DEF Reply
  <2>3. place \in 0..MaxLength /\ Unknown \in {Unknown, place}
    BY <1>3, <1>5
  <2>4. StreamsIInv' /\ DescriptorsDistinct'
    BY <1>1, <1>4, <1>7, <2>1, <2>2, <2>3, FlushedKeeps
  <2>5. AnswersExact'
    BY <2>2 DEF AnswersExact
  <2> QED
    BY <2>4, <2>5 DEF FilesIInv
<1> QED
  BY <1>2, <1>8, <1>9 DEF size
\* The stream a write leaves, its byte still held back.
Writing(s, place, byte) ==
    [fds[s] EXCEPT !.at = place + 1, !.held = Append(@, byte), !.last = "write",
                   !.told = IF fds[s].last = "read" THEN Unknown ELSE Told(s, 1)]

LEMMA WritePlace ==
    ASSUME FilesIInv, NEW s \in Opened, fds[s].at < MaxLength, NEW place \in WritePlaces(s)
    PROVE  place \in fds[s].at..(MaxLength - 1) /\ (fds[s].last # "read" => place = fds[s].at)
<1>1. fds[s].at \in 0..MaxLength /\ MaxLength \in Nat /\ fds[s].inode \in Inode /\ FilesShape
  BY OpenedStream
<1>2. CASE fds[s].last # "read"
  BY <1>1, <1>2 DEF WritePlaces
<1>3. CASE fds[s].last = "read"
  <2> DEFINE size == Len(content[fds[s].inode])
             end == Min({size, MaxLength - 1})
  <2>1. size \in Nat
    BY <1>1 DEF FilesShape, FileContent
  <2>2. end \in Int /\ end <= MaxLength - 1
    <3> HIDE DEF size
    <3>1. end = IF size <= MaxLength - 1 THEN size ELSE MaxLength - 1
      BY <1>1, <2>1, MinOfTwo
    <3> QED
      BY <1>1, <2>1, <3>1
  <2>3. place \in fds[s].at..Max({fds[s].at, end})
    BY <1>3 DEF WritePlaces
  <2> HIDE DEF end
  <2>4. Max({fds[s].at, end}) = IF fds[s].at >= end THEN fds[s].at ELSE end
    BY <1>1, <2>2, MaxOfTwo
  <2> QED
    BY <1>1, <1>3, <2>2, <2>3, <2>4
<1> QED
  BY <1>2, <1>3

LEMMA WritingStream ==
    ASSUME FilesIInv, NEW s \in Opened, fds[s].at < MaxLength, NEW place \in WritePlaces(s),
           NEW byte \in FileByte
    PROVE  /\ Writing(s, place, byte) \in StreamRecord
           /\ Positioned(Writing(s, place, byte))
           /\ Writing(s, place, byte).used = fds[s].used
           /\ Writing(s, place, byte).fd = fds[s].fd
           /\ Writing(s, place, byte).inode = fds[s].inode
           /\ Writing(s, place, byte).at = place + 1
           /\ Writing(s, place, byte).held = Append(fds[s].held, byte)
           /\ Writing(s, place, byte).last = "write"
<1> DEFINE r == Writing(s, place, byte)
           told == IF fds[s].last = "read" THEN Unknown ELSE Told(s, 1)
           held == Append(fds[s].held, byte)
<1>1. /\ fds[s] \in StreamRecord /\ fds[s].at \in 0..MaxLength /\ MaxLength \in Nat
      /\ fds[s].told \in {Unknown, fds[s].at} /\ Positioned(fds[s])
      /\ fds[s].held \in Seq(Stored)
  BY OpenedStream DEF StreamRecord
<1>2. place \in fds[s].at..(MaxLength - 1) /\ (fds[s].last # "read" => place = fds[s].at)
  BY WritePlace
<1>3. place + 1 \in 0..MaxLength /\ Len(fds[s].held) <= place
  BY <1>1, <1>2 DEF Positioned
<1>4. told \in {Unknown, place + 1} /\ told \in Int
  BY <1>1, <1>2 DEF Told, Unknown
<1>5. held \in Seq(Stored) /\ Len(held) = Len(fds[s].held) + 1
  BY <1>1 DEF Stored
<1> HIDE DEF told, held
<1>6. r = [fds[s] EXCEPT !.at = place + 1, !.held = held, !.last = "write", !.told = told]
  BY DEF Writing, told, held
<1> HIDE DEF r
<1>7. /\ r \in StreamRecord
      /\ r.used = fds[s].used /\ r.fd = fds[s].fd /\ r.inode = fds[s].inode
      /\ r.at = place + 1 /\ r.held = held /\ r.last = "write" /\ r.told = told
  BY <1>1, <1>3, <1>4, <1>5, <1>6 DEF StreamRecord
<1>8. Len(held) <= place + 1
  <2>1. Len(fds[s].held) \in Nat /\ place \in Int
    BY <1>1, <1>2
  <2> QED
    BY <1>3, <1>5, <2>1
<1>9. Positioned(r)
  BY <1>4, <1>7, <1>8 DEF Positioned
<1> QED
  BY <1>7, <1>9 DEF r, held

\* One more byte is held back, before the next place.
LEMMA OneMoreHeld ==
    ASSUME NEW c, NEW r, NEW at \in Int, NEW h, Len(h) \in Int, NEW k,
           r.at = at + 1, r.held = k, Len(k) = Len(h) + 1
    PROVE  WithHeld(c, r) = Overwritten(c, at - Len(h), k)
<1> DEFINE m == Len(k)
           n == Len(h)
           top == r.at
<1>1. m = n + 1 /\ top = at + 1 /\ n \in Int
  OBVIOUS
<1> HIDE DEF m, n, top
<1>2. top - m = at - n
  BY <1>1
<1>3. r.at - Len(r.held) = at - Len(h)
  BY <1>2 DEF m, n, top
<1> QED
  BY <1>3 DEF WithHeld

\* What the guest believes after an acknowledged write is what the card would
\* have, were the stream flushed.
LEMMA WritingBelieved ==
    ASSUME FilesIInv, NEW s \in Opened, fds[s].at < MaxLength, NEW place \in WritePlaces(s),
           NEW byte \in FileByte
    PROVE  /\ BelievedWritten(s, byte) \in [Inode -> Seq(Stored)]
           /\ \A j \in Inode \ {fds[s].inode} : BelievedWritten(s, byte)[j] = believed[j]
           /\ BelievedWritten(s, byte)[fds[s].inode] \in
                {Lost, WithHeld(content[fds[s].inode], Writing(s, place, byte))}
<1> DEFINE i == fds[s].inode
           h == fds[s].held
           at == fds[s].at
           c == content[i]
           lost == believed[i] = Lost \/ fds[s].told = Unknown \/ fds[s].last = "read"
           value == IF lost THEN Lost ELSE Overlaid(believed[i], fds[s].told, <<byte>>)
<1>1. /\ i \in Inode /\ at \in 0..MaxLength /\ MaxLength \in Nat
      /\ fds[s].told \in {Unknown, at} /\ Len(h) <= at /\ h \in Seq(Stored)
      /\ FilesShape
  BY OpenedStream DEF StreamRecord, Positioned
<1>2. c \in Seq(Stored) /\ byte \in Stored
  BY <1>1 DEF FilesShape, FileContent, Stored
<1>3. believed \in [Inode -> Seq(Stored)]
  BY <1>1 DEF FilesShape
<1>4. BelievedWritten(s, byte) = [believed EXCEPT ![i] = value]
  BY <1>1, <1>3 DEF BelievedWritten
<1>5. value \in {Lost, WithHeld(c, Writing(s, place, byte))}
  <2>1. CASE lost
    BY <2>1
  <2>2. CASE ~lost
    <3>1. place = at
      BY <2>2, WritePlace
    <3>2. fds[s].told = at /\ believed[i] = WithHeld(c, fds[s])
      BY <1>1, <2>2 DEF FilesIInv, StreamsIInv, OpenedExact
    <3> DEFINE a == at - Len(h)
               k == Append(h, byte)
    <3>3. a \in Nat /\ a + Len(h) = at
      BY <1>1
    <3>4. Len(k) = Len(h) + 1 /\ k # <<>>
      BY <1>1, <1>2
    <3>5. value = Overlaid(Overwritten(c, a, h), a + Len(h), <<byte>>)
      BY <2>2, <3>2, <3>3 DEF WithHeld
    <3>6. Overlaid(Overwritten(c, a, h), a + Len(h), <<byte>>) = Overlaid(c, a, k)
      <4> HIDE DEF a, c, h
      <4> QED
        BY <1>1, <1>2, <3>3, OverlaidAppend DEF k
    <3>7. /\ Writing(s, place, byte).held = k
          /\ Writing(s, place, byte).at = at + 1
      BY <3>1, WritingStream
    <3>8. WithHeld(c, Writing(s, place, byte)) = Overwritten(c, a, k)
      <4> DEFINE w == Writing(s, place, byte)
      <4>1. at \in Int /\ Len(h) \in Int
        BY <1>1
      <4>2. w.held = k /\ w.at = at + 1
        BY <3>7
      <4>3. Len(k) = Len(h) + 1
        BY <3>4
      <4> HIDE DEF w, k, c, h, at
      <4>4. WithHeld(c, w) = Overwritten(c, at - Len(h), k)
        BY <4>1, <4>2, <4>3, OneMoreHeld
      <4> QED
        BY <4>4 DEF w
    <3> QED
      BY <3>4, <3>5, <3>6, <3>8 DEF Overwritten
  <2> QED
    BY <2>1, <2>2
<1>6. value \in Seq(Stored)
  <2>1. CASE lost
    BY <2>1, LostType
  <2>2. CASE ~lost
    <3>1. fds[s].told \in Nat
      BY <1>1, <2>2
    <3>2. believed[i] \in Seq(Stored) /\ <<byte>> \in Seq(Stored)
      BY <1>1, <1>2, <1>3
    <3> QED
      BY <2>2, <3>1, <3>2, OverlaidBytes
  <2> QED
    BY <2>1, <2>2
<1> HIDE DEF value
<1> QED
  BY <1>1, <1>3, <1>4, <1>5, <1>6

LEMMA FileWriteKeeps ==
    ASSUME FilesIInv, NEW s \in Slot, NEW byte \in FileByte, Write(s, byte)
    PROVE  FilesIInv'
<1>1. s \in Opened /\ fds[s].at < MaxLength /\ nextFd' = nextFd /\ answer'.request = "other"
  BY DEF Write, Reply
<1> DEFINE i == fds[s].inode
<1>2. PICK place \in WritePlaces(s) :
        LET stream == Writing(s, place, byte)
        IN  \/ /\ \/ fds' = [fds EXCEPT ![s] = stream] /\ UNCHANGED content
                  \/ /\ fds' = [fds EXCEPT ![s] = [stream EXCEPT !.held = <<>>]]
                     /\ content' = FlushedContent(stream, Len(stream.held))
               /\ believed' = BelievedWritten(s, byte)
            \/ /\ \E kept \in 0..(Len(stream.held) - 1) :
                     content' = FlushedContent(stream, kept)
               /\ fds' = [fds EXCEPT ![s] =
                      [stream EXCEPT !.held = <<>>, !.told = Unknown]]
               /\ Believing(FALSE, stream.inode)
  BY DEF Write, Writing
<1> DEFINE stream == Writing(s, place, byte)
<1>3. /\ s \in Slot /\ fds[s].used /\ i \in Inode /\ FilesShape
  BY <1>1, OpenedStream
<1>4. /\ stream \in StreamRecord /\ Positioned(stream)
      /\ stream.used = fds[s].used /\ stream.fd = fds[s].fd /\ stream.inode = i
      /\ stream.last = "write"
  BY <1>1, WritingStream
<1>5. /\ BelievedWritten(s, byte) \in [Inode -> Seq(Stored)]
      /\ \A j \in Inode \ {i} : BelievedWritten(s, byte)[j] = believed[j]
      /\ BelievedWritten(s, byte)[i] \in {Lost, WithHeld(content[i], stream)}
  BY <1>1, WritingBelieved
<1> HIDE DEF stream
<1>6. /\ stream.at \in 0..MaxLength /\ stream.told \in {Unknown, stream.at}
      /\ stream.held \in Seq(Stored) /\ Len(stream.held) \in Nat
      /\ Len(stream.held) <= stream.at
  BY <1>4 DEF StreamRecord, Positioned
<1>7. ASSUME NEW told \in {Unknown, stream.at}
      PROVE  FlushedStream(Emptied(stream, stream.at, "write", told), stream)
  <2>1. "write" \in {"none", "read", "write"}
    OBVIOUS
  <2> QED
    BY <1>4, <1>6, <2>1, EmptiedStream
<1>8. ASSUME OneStreamChanged(s) PROVE FilesIInv'
  <2>1. StreamsIInv' /\ DescriptorsDistinct'
    BY <1>1, <1>8, OneStreamKeeps DEF FilesIInv
  <2>2. AnswersExact'
    BY <1>1 DEF AnswersExact
  <2> QED
    BY <2>1, <2>2 DEF FilesIInv
<1>9. CASE /\ fds' = [fds EXCEPT ![s] = stream] /\ content' = content
           /\ believed' = BelievedWritten(s, byte)
  <2>1. /\ fds' \in [Slot -> StreamRecord] /\ fds'[s] = stream
        /\ \A t \in Slot \ {s} : fds'[t] = fds[t]
    BY <1>3, <1>4, <1>9, StreamReplaced
  <2>2. content' \in [Inode -> FileContent]
    BY <1>3, <1>9 DEF FilesShape
  <2>3. OneStreamChanged(s)
    BY <1>1, <1>3, <1>4, <1>5, <1>9, <2>1, <2>2 DEF OneStreamChanged
  <2> QED
    BY <1>8, <2>3
<1>10. ASSUME NEW kept \in 0..Len(stream.held), NEW told \in {Unknown, stream.at},
              content' = FlushedContent(stream, kept),
              fds' = [fds EXCEPT ![s] = Emptied(stream, stream.at, "write", told)],
              believed' \in [Inode -> Seq(Stored)],
              \A j \in Inode \ {i} : believed'[j] = believed[j],
              \/ believed'[i] = Lost
              \/ kept = Len(stream.held) /\ believed'[i] = WithHeld(content[i], stream)
       PROVE  FilesIInv'
  <2> DEFINE r == Emptied(stream, stream.at, "write", told)
  <2>1. FlushedStream(r, stream)
    BY <1>7
  <2> HIDE DEF r
  <2>2. /\ fds' \in [Slot -> StreamRecord] /\ fds'[s] = r
        /\ \A t \in Slot \ {s} : fds'[t] = fds[t]
    BY <1>3, <1>10, <2>1, StreamReplaced DEF r, FlushedStream
  <2>3. /\ content' \in [Inode -> FileContent]
        /\ \A j \in Inode \ {i} : content'[j] = content[j]
        /\ content'[i] = PartlyWritten(content[i], stream, kept)
    <3>1. stream.inode \in Inode
      BY <1>3, <1>4
    <3> QED
      BY <1>3, <1>4, <1>6, <1>10, <3>1, FlushedCard
  <2>4. kept = Len(stream.held) => content'[i] = WithHeld(content[i], stream)
    <3>1. content[i] \in FileContent
      BY <1>3 DEF FilesShape
    <3> QED
      BY <1>4, <1>6, <2>3, <3>1, PartlyWrittenType
  <2>5. believed'[i] \in {Lost, WithHeld(content'[i], r)}
    BY <1>10, <2>1, <2>4 DEF FlushedStream
  <2>6. OneStreamChanged(s)
    BY <1>1, <1>3, <1>4, <1>10, <2>1, <2>2, <2>3, <2>5 DEF OneStreamChanged, FlushedStream
  <2> QED
    BY <1>8, <2>6
<1>11. CASE /\ fds' = [fds EXCEPT ![s] = [stream EXCEPT !.held = <<>>]]
            /\ content' = FlushedContent(stream, Len(stream.held))
            /\ believed' = BelievedWritten(s, byte)
  <2>1. [stream EXCEPT !.held = <<>>] = Emptied(stream, stream.at, "write", stream.told)
    BY <1>4 DEF Emptied, StreamRecord
  <2>2. Len(stream.held) \in 0..Len(stream.held)
    BY <1>6
  <2> QED
    BY <1>5, <1>6, <1>10, <1>11, <2>1, <2>2
<1>12. ASSUME NEW kept \in 0..(Len(stream.held) - 1),
              content' = FlushedContent(stream, kept),
              fds' = [fds EXCEPT ![s] = [stream EXCEPT !.held = <<>>, !.told = Unknown]],
              Believing(FALSE, stream.inode)
       PROVE  FilesIInv'
  <2>1. [stream EXCEPT !.held = <<>>, !.told = Unknown] =
            Emptied(stream, stream.at, "write", Unknown)
    BY <1>4 DEF Emptied, StreamRecord
  <2>2. kept \in 0..Len(stream.held)
    BY <1>6
  <2>3. believed' = [believed EXCEPT ![i] = Lost]
    BY <1>4, <1>12 DEF Believing
  <2>4. /\ believed' \in [Inode -> Seq(Stored)] /\ believed'[i] = Lost
        /\ \A j \in Inode \ {i} : believed'[j] = believed[j]
    BY <1>3, <2>3, Forgetting
  <2> QED
    BY <1>10, <1>12, <2>1, <2>2, <2>4
<1> QED
  BY <1>2, <1>9, <1>11, <1>12 DEF stream
LEMMA FreeType == Free \in StreamRecord /\ Positioned(Free) /\ ~Free.used
<1>1. 0 \in 0..MaxLength
  BY FilesAssumption
<1>2. <<>> \in Seq(Stored) /\ Len(<<>>) = 0
  OBVIOUS
<1>3. Free \in StreamRecord /\ Free.held = <<>> /\ Free.at = 0 /\ Free.told = 0 /\ ~Free.used
  BY <1>1, <1>2 DEF Free, StreamRecord
<1>4. Len(Free.held) <= Free.at
  BY <1>2, <1>3
<1> QED
  BY <1>3, <1>4 DEF Positioned

LEMMA CloseKeeps ==
    ASSUME FilesIInv, NEW s \in Slot, Close(s)
    PROVE  FilesIInv'
<1> DEFINE i == fds[s].inode
<1>1. /\ fds[s].used /\ fds' = [fds EXCEPT ![s] = Free] /\ nextFd' = nextFd
      /\ answer'.request = "other"
  BY DEF Close, Reply
<1>2. PICK flush \in FlushOutcome(fds[s]) : content' = flush.content /\ Believing(flush.ok, i)
  BY DEF Close
<1>3. FilesShape /\ Positioned(fds[s]) /\ i \in Inode \cup {NoInode} /\ NoInode \notin Inode
  BY FilesAssumption DEF FilesIInv, StreamsIInv, FilesShape, StreamsPositioned, StreamRecord
<1>4. flush.ok \in BOOLEAN /\ FlushedFile(s, flush.ok)
  BY <1>2, <1>3, FlushEffect
<1>5. /\ fds' \in [Slot -> StreamRecord] /\ fds'[s] = Free
      /\ \A t \in Slot \ {s} : fds'[t] = fds[t]
  BY <1>1, <1>3, FreeType, StreamReplaced
<1>6. FilesShape'
  BY <1>1, <1>3, <1>4, <1>5 DEF FilesShape, FlushedFile
<1>7. StreamsPositioned'
  BY <1>5, FreeType DEF FilesIInv, StreamsIInv, StreamsPositioned, Positioned
<1>8. Opened' = Opened \ {s}
  BY <1>1, <1>5, FreeType DEF Opened
<1>9. ASSUME NEW t \in Opened \ {s}
      PROVE  /\ t \in Slot /\ fds'[t] = fds[t] /\ fds[t].inode \in Inode \ {i}
             /\ content'[fds[t].inode] = content[fds[t].inode]
             /\ believed'[fds[t].inode] = believed[fds[t].inode]
  <2>1. t \in Slot /\ fds[t].inode \in Inode
    BY OpenedStream
  <2>2. fds[t].inode # i
    <3>1. CASE i = NoInode
      BY <1>3, <2>1, <3>1
    <3>2. CASE i # NoInode
      BY <1>1, <3>2 DEF Opened, FilesIInv, StreamsIInv, OneStream
    <3> QED
      BY <3>1, <3>2
  <2> QED
    BY <1>4, <1>5, <2>1, <2>2 DEF FlushedFile
<1>10. OneStream'
  BY <1>8, <1>9 DEF FilesIInv, StreamsIInv, OneStream
<1>11. OpenedExact'
  <2>1. ASSUME NEW t \in Opened \ {s}
        PROVE  believed'[fds'[t].inode] \in {Lost, WithHeld(content'[fds'[t].inode], fds'[t])}
    <3>1. believed[fds[t].inode] \in {Lost, WithHeld(content[fds[t].inode], fds[t])}
      BY DEF FilesIInv, StreamsIInv, OpenedExact
    <3> QED
      BY <1>9, <3>1
  <2> QED
    BY <1>8, <2>1 DEF OpenedExact, WithHeld, Overwritten, Overlaid, Lost
<1>12. ClosedExact'
  <2>1. ASSUME NEW j \in Inode, \A t \in Opened \ {s} : fds[t].inode # j
        PROVE  believed'[j] \in {Lost, content'[j]}
    <3>1. CASE j = i
      <4>1. s \in Opened
        BY <1>1, <1>3, <3>1 DEF Opened
      <4>2. believed[i] \in {Lost, WithHeld(content[i], fds[s])}
        BY <4>1 DEF FilesIInv, StreamsIInv, OpenedExact
      <4> QED
        BY <1>4, <3>1, <4>2 DEF FlushedFile
    <3>2. CASE j # i
      <4>1. \A t \in Opened : fds[t].inode # j
        BY <2>1, <3>2
      <4> QED
        BY <1>4, <3>2, <4>1 DEF FlushedFile, FilesIInv, StreamsIInv, ClosedExact
    <3> QED
      BY <3>1, <3>2
  <2>2. \A t \in Opened \ {s} : fds'[t].inode = fds[t].inode
    BY <1>9
  <2> QED
    BY <1>8, <2>1, <2>2 DEF ClosedExact
<1>13. ShutdownFlushed' /\ AnswersExact'
  BY <1>1 DEF ShutdownFlushed, AnswersExact
<1>14. DescriptorsDistinct'
  <2>1. \A t \in Slot : fds'[t].used => t # s /\ fds'[t] = fds[t]
    BY <1>5, FreeType
  <2> QED
    BY <1>1, <2>1 DEF FilesIInv, DescriptorsDistinct
<1> QED
  BY <1>6, <1>7, <1>10, <1>11, <1>12, <1>13, <1>14 DEF FilesIInv, StreamsIInv
-----------------------------------------------------------------------------
(* allocate_fd.                                                            *)

Candidate(attempt) == FdBase + ((nextFd - FdBase + attempt) % FdCount)
Taken == {fds[s].fd : s \in {t \in Slot : fds[t].used}}
FreeAttempt == {a \in 0..(FdCount - 1) : Candidate(a) \notin Taken}

LEMMA CandidateInRange ==
    ASSUME nextFd \in FdRange, NEW a \in 0..(FdCount - 1)
    PROVE  Candidate(a) \in FdRange
<1>1. FdBase \in Nat /\ FdCount \in Nat \ {0}
  BY FilesAssumption
<1>2. nextFd - FdBase + a \in Int
  BY <1>1 DEF FdRange
<1> DEFINE r == (nextFd - FdBase + a) % FdCount
<1>3. r \in 0..(FdCount - 1)
  BY <1>1, <1>2, Division
<1> HIDE DEF r
<1>4. FdBase + r \in FdRange
  BY <1>1, <1>3 DEF FdRange
<1> QED
  BY <1>4 DEF Candidate, r

\* The attempts reach every number.
LEMMA CandidatesCover ==
    ASSUME nextFd \in FdRange, NEW fd \in FdRange
    PROVE  \E a \in 0..(FdCount - 1) : Candidate(a) = fd
<1>1. FdBase \in Nat /\ FdCount \in Nat \ {0} /\ nextFd \in Int /\ fd \in Int
  BY FilesAssumption DEF FdRange
<1> DEFINE n == nextFd - FdBase
           r == fd - FdBase
           a == IF r >= n THEN r - n ELSE r - n + FdCount
<1>2. n \in 0..(FdCount - 1) /\ r \in 0..(FdCount - 1) /\ FdBase + r = fd
  BY <1>1 DEF FdRange
<1> HIDE DEF n, r
<1>3. a \in 0..(FdCount - 1) /\ (n + a = FdCount * 0 + r \/ n + a = FdCount * 1 + r)
  BY <1>1, <1>2
<1> HIDE DEF a
<1>4. (n + a) % FdCount = r
  <2>1. n + a \in Int /\ 0 \in Int /\ 1 \in Int
    BY <1>1, <1>2, <1>3
  <2> DEFINE sum == n + a
  <2>2. \A q \in Int : sum = FdCount * q + r => sum % FdCount = r
    <3> HIDE DEF sum
    <3> QED
      BY <1>1, <1>2, <2>1, Quotient DEF sum
  <2> QED
    BY <1>3, <2>1, <2>2
<1>5. Candidate(a) = fd
  BY <1>2, <1>4 DEF Candidate, n
<1> QED
  BY <1>3, <1>5

LEMMA LeastExists ==
    ASSUME NEW T \in SUBSET Nat, T # {}
    PROVE  {m \in T : \A k \in T : m <= k} # {}
  BY LeastElement

LEMMA NewFdIsFree ==
    ASSUME FilesShape, NEW fd \in NewFd
    PROVE  fd \in FdRange /\ fd \notin Taken
<1>1. PICK a \in FreeAttempt : fd = Candidate(a)
  BY DEF NewFd, FreeAttempt, Candidate, Taken
<1> QED
  BY <1>1, CandidateInRange DEF FreeAttempt, FilesShape

\* An open is refused only when every slot is in use: the numbers in use then
\* are all of them.
LEMMA FullMeansUsed ==
    ASSUME FilesShape, NewFd = {} \/ FreeSlot = {}
    PROVE  \A s \in Slot : fds[s].used
<1>1. FdBase \in Nat /\ FdCount \in Nat \ {0} /\ nextFd \in FdRange
  BY FilesAssumption DEF FilesShape
<1> DEFINE Unfilled == {s \in Slot : ~fds[s].used}
<1>2. SUFFICES ASSUME Unfilled # {} PROVE FALSE
  OBVIOUS
<1>3. CASE FreeSlot = {}
  <2>1. Unfilled \in SUBSET Nat
    BY <1>1 DEF Slot
  <2>2. PICK m \in Unfilled : \A k \in Unfilled : m <= k
    <3> HIDE DEF Unfilled
    <3> QED
      BY <1>2, <2>1, LeastElement
  <2>3. m \in FreeSlot
    BY <2>2 DEF FreeSlot
  <2> QED
    BY <1>3, <2>3
<1>4. CASE NewFd = {}
  <2>1. FreeAttempt = {}
    <3>1. FreeAttempt \in SUBSET Nat
      BY <1>1 DEF FreeAttempt
    <3>2. NewFd = {Candidate(a) : a \in {b \in FreeAttempt : \A c \in FreeAttempt : b <= c}}
      BY DEF NewFd, FreeAttempt, Candidate, Taken
    <3>3. {b \in FreeAttempt : \A c \in FreeAttempt : b <= c} = {}
      BY <1>4, <3>2
    <3> QED
      BY <3>1, <3>3, LeastExists
  <2>2. FdRange \subseteq Taken
    <3> SUFFICES ASSUME NEW fd \in FdRange PROVE fd \in Taken
      OBVIOUS
    <3>1. PICK a \in 0..(FdCount - 1) : Candidate(a) = fd
      BY <1>1, CandidatesCover
    <3> QED
      BY <2>1, <3>1 DEF FreeAttempt
  <2> DEFINE Filled == {s \in Slot : fds[s].used}
             Reaching == {s \in Filled : fds[s].fd \in FdRange}
             f == [s \in Reaching |-> fds[s].fd]
  <2>3. IsFiniteSet(Slot) /\ Cardinality(Slot) = FdCount
    <3>1. 1 \in Int /\ FdCount \in Int /\ 1 <= FdCount
      BY <1>1
    <3>2. Cardinality(1..FdCount) = FdCount - 1 + 1
      BY <3>1, FS_Interval
    <3> QED
      BY <3>1, <3>2, FS_Interval DEF Slot
  <2>4. IsFiniteSet(FdRange) /\ Cardinality(FdRange) = FdCount
    <3>1. FdBase \in Int /\ FdBase + FdCount - 1 \in Int /\ FdBase <= FdBase + FdCount - 1
      BY <1>1
    <3>2. Cardinality(FdRange) = (FdBase + FdCount - 1) - FdBase + 1
      BY <3>1, FS_Interval DEF FdRange
    <3>3. IsFiniteSet(FdRange)
      BY <3>1, FS_Interval DEF FdRange
    <3> QED
      BY <1>1, <3>2, <3>3
  <2>5. Reaching \subseteq Slot /\ Reaching # Slot
    BY <1>2
  <2>6. IsFiniteSet(Reaching) /\ Cardinality(Reaching) < Cardinality(Slot)
    <3> HIDE DEF Reaching
    <3>1. IsFiniteSet(Reaching) /\ Cardinality(Reaching) <= Cardinality(Slot)
      BY <2>3, <2>5, FS_Subset
    <3>2. Cardinality(Reaching) # Cardinality(Slot)
      BY <2>3, <2>5, FS_Subset
    <3>3. Cardinality(Reaching) \in Nat /\ Cardinality(Slot) \in Nat
      BY <1>1, <2>3, <3>1, FS_CardinalityType
    <3> QED
      BY <3>1, <3>2, <3>3
  <2>7. f \in Surjection(Reaching, FdRange)
    <3>1. f \in [Reaching -> FdRange]
      OBVIOUS
    <3>2. ASSUME NEW fd \in FdRange PROVE \E s \in Reaching : f[s] = fd
      BY <2>2 DEF Taken
    <3> QED
      BY <3>1, <3>2 DEF Surjection
  <2>8. Cardinality(FdRange) <= Cardinality(Reaching)
    <3> HIDE DEF f, Reaching
    <3> QED
      BY <2>6, <2>7, FS_Surjection
  <2>9. Cardinality(Reaching) \in Nat
    BY <2>6, FS_CardinalityType
  <2> HIDE DEF Reaching
  <2> QED
    BY <1>1, <2>3, <2>4, <2>6, <2>8, <2>9
<1> QED
  BY <1>3, <1>4

LEMMA AllocateKeeps ==
    ASSUME FilesIInv, NEW mode \in 1..3, NEW inode \in Inode \cup {NoInode},
           \A t \in Opened : fds[t].inode # inode, Allocate(mode, inode)
    PROVE  FilesIInv'
<1>1. /\ FilesShape /\ UNCHANGED <<content, believed>> /\ NoInode \notin Inode
      /\ FdBase \in Nat /\ FdCount \in Nat \ {0}
  BY FilesAssumption DEF FilesIInv, StreamsIInv, Allocate
<1>2. CASE /\ NewFd = {} \/ FreeSlot = {}
           /\ answer' = [request |-> "full"]
           /\ UNCHANGED <<fds, nextFd>>
  <2>1. \A s \in Slot : fds[s].used
    BY <1>1, <1>2, FullMeansUsed
  <2>2. FilesShape' /\ StreamsPositioned' /\ OneStream' /\ OpenedExact' /\ ClosedExact'
    BY <1>1, <1>2 DEF FilesIInv, StreamsIInv, FilesShape, StreamsPositioned, OneStream,
                      OpenedExact, ClosedExact, Opened
  <2>3. ShutdownFlushed' /\ AnswersExact'
    BY <1>2 DEF ShutdownFlushed, AnswersExact
  <2>4. DescriptorsDistinct'
    BY <1>2, <2>1 DEF FilesIInv, DescriptorsDistinct
  <2> QED
    BY <2>2, <2>3, <2>4 DEF FilesIInv, StreamsIInv
<1>3. ASSUME NEW fd \in NewFd, NEW s \in FreeSlot,
             fds' = [fds EXCEPT ![s] =
                 [Free EXCEPT !.used = TRUE, !.fd = fd, !.mode = mode, !.inode = inode]],
             nextFd' = IF fd + 1 >= FdBase + FdCount THEN FdBase ELSE fd + 1,
             Reply
      PROVE  FilesIInv'
  <2> DEFINE r == [Free EXCEPT !.used = TRUE, !.fd = fd, !.mode = mode, !.inode = inode]
  <2>1. s \in Slot /\ ~fds[s].used /\ s \notin Opened
    BY DEF FreeSlot, Opened
  <2>2. fd \in FdRange /\ fd \notin Taken
    BY <1>1, NewFdIsFree
  <2>3. fd \in Int /\ fd >= FdBase /\ fd < FdBase + FdCount
    BY <1>1, <2>2 DEF FdRange
  <2>4. /\ r \in StreamRecord /\ r.used /\ r.fd = fd /\ r.inode = inode
        /\ r.at = Free.at /\ r.held = Free.held /\ r.last = Free.last /\ r.told = Free.told
    BY <2>3, FreeType DEF StreamRecord
  <2> HIDE DEF r
  <2>5. Positioned(r)
    BY <2>4, FreeType DEF Positioned
  <2>6. \A bytes : WithHeld(bytes, r) = bytes
    <3>1. r.held = <<>>
      BY <2>4 DEF Free
    <3> QED
      BY <3>1 DEF WithHeld, Overwritten
  <2>7. /\ fds' \in [Slot -> StreamRecord] /\ fds'[s] = r
        /\ \A t \in Slot \ {s} : fds'[t] = fds[t]
    BY <1>1, <1>3, <2>1, <2>4, StreamReplaced DEF r
  <2>8. nextFd' \in FdRange
    BY <1>1, <1>3, <2>3 DEF FdRange
  <2>9. FilesShape'
    BY <1>1, <2>7, <2>8 DEF FilesShape
  <2>10. StreamsPositioned'
    BY <2>5, <2>7 DEF FilesIInv, StreamsIInv, StreamsPositioned, Positioned
  <2>11. Opened' = Opened \cup (IF inode = NoInode THEN {} ELSE {s})
    BY <2>1, <2>4, <2>7 DEF Opened
  <2>12. \A t \in Opened : t \in Slot \ {s} /\ fds'[t] = fds[t]
    BY <2>1, <2>7 DEF Opened
  <2>13. OneStream'
    <3>1. fds'[s].inode = inode
      BY <2>4, <2>7
    <3>2. \A t \in Opened : fds'[t].inode = fds[t].inode /\ fds[t].inode # inode
      BY <2>12
    <3> QED
      BY <2>11, <3>1, <3>2 DEF FilesIInv, StreamsIInv, OneStream
  <2>14. OpenedExact'
    <3>1. ASSUME NEW t \in Opened
          PROVE  believed'[fds'[t].inode] \in {Lost, WithHeld(content'[fds'[t].inode], fds'[t])}
      BY <1>1, <2>12 DEF FilesIInv, StreamsIInv, OpenedExact
    <3>2. CASE inode = NoInode
      BY <2>11, <3>1, <3>2 DEF OpenedExact, WithHeld, Overwritten, Overlaid, Lost
    <3>3. CASE inode # NoInode
      <4>1. believed[inode] \in {Lost, content[inode]}
        BY <3>3 DEF FilesIInv, StreamsIInv, ClosedExact
      <4>2. believed'[fds'[s].inode] \in {Lost, WithHeld(content'[fds'[s].inode], fds'[s])}
        BY <1>1, <2>4, <2>6, <2>7, <4>1
      <4> QED
        BY <2>11, <3>1, <4>2 DEF OpenedExact, WithHeld, Overwritten, Overlaid, Lost
    <3> QED
      BY <3>2, <3>3
  <2>15. ClosedExact'
    <3>1. \A i \in Inode : (\A t \in Opened : fds[t].inode # i) => believed[i] \in {Lost, content[i]}
      BY DEF FilesIInv, StreamsIInv, ClosedExact
    <3>2. \A t \in Opened : t \in Opened' /\ fds'[t].inode = fds[t].inode
      BY <2>11, <2>12
    <3> QED
      BY <1>1, <3>1, <3>2 DEF ClosedExact
  <2>16. answer'.request = "other"
    BY <1>3 DEF Reply
  <2>17. ShutdownFlushed' /\ AnswersExact'
    BY <2>16 DEF ShutdownFlushed, AnswersExact
  <2>18. DescriptorsDistinct'
    <3>1. fds'[s].fd = fd
      BY <2>4, <2>7
    <3>2. \A t \in Slot \ {s} : fds'[t].used => fds[t].used /\ fds'[t].fd = fds[t].fd
      BY <2>7
    <3>3. \A t \in Slot : fds[t].used => fds[t].fd # fd
      BY <2>2 DEF Taken
    <3>4. \A t, u \in Slot : fds[t].used /\ fds[u].used /\ t # u => fds[t].fd # fds[u].fd
      BY DEF FilesIInv, DescriptorsDistinct
    <3>5. \A t \in Slot : fds[t].used => fds[t].fd \in FdRange
      BY DEF FilesIInv, DescriptorsDistinct, FdRange
    <3>6. \A t, u \in Slot : fds'[t].used /\ fds'[u].used /\ t # u => fds'[t].fd # fds'[u].fd
      <4> SUFFICES ASSUME NEW t \in Slot, NEW u \in Slot, fds'[t].used, fds'[u].used, t # u
                   PROVE  fds'[t].fd # fds'[u].fd
        OBVIOUS
      <4>1. CASE t = s
        BY <3>1, <3>2, <3>3, <4>1
      <4>2. CASE u = s
        BY <3>1, <3>2, <3>3, <4>2
      <4>3. CASE t # s /\ u # s
        BY <3>2, <3>4, <4>3
      <4> QED
        BY <4>1, <4>2, <4>3
    <3>7. \A t \in Slot : fds'[t].used => fds'[t].fd \in FdRange
      BY <2>2, <3>1, <3>2, <3>5
    <3> QED
      BY <2>16, <3>6, <3>7 DEF DescriptorsDistinct, FdRange
  <2> QED
    BY <2>9, <2>10, <2>13, <2>14, <2>15, <2>17, <2>18 DEF FilesIInv, StreamsIInv
<1> QED
  BY <1>2, <1>3 DEF Allocate
-----------------------------------------------------------------------------
LEMMA NothingKeeps == ASSUME FilesIInv, Nothing PROVE FilesIInv'
<1>1. UNCHANGED <<fds, nextFd, content, believed>> /\ answer'.request = "other"
  BY DEF Nothing, Reply
<1> QED
  BY <1>1, QuietKeeps

LEMMA PartlyMadeFiles == ASSUME FilesIInv, NEW node, PartlyMade(node) PROVE FilesIInv'
<1>1. UNCHANGED <<fds, nextFd, content, believed>> /\ answer'.request = "other"
  BY DEF PartlyMade, Reply
<1> QED
  BY <1>1, QuietKeeps

\* A new file is empty, and nobody has it open.
LEMMA CreateFileFiles ==
    ASSUME FilesIInv, NEW path, CreateFile(path)
    PROVE  FilesIInv'
<1>1. CASE Untouched(path) \/ Refuse(Exists(path))
  BY <1>1, NothingKeeps DEF Untouched, Refuse
<1>2. CASE PartlyMade(Names(path))
  BY <1>2, PartlyMadeFiles
<1>3. ASSUME NEW i \in Unused, Reply, UNCHANGED <<fds, nextFd>>,
             content' = [content EXCEPT ![i] = <<>>],
             believed' = [believed EXCEPT ![i] = <<>>]
      PROVE  FilesIInv'
  <2>1. i \in Inode /\ \A s \in Slot : fds[s].inode # i
    BY DEF Unused
  <2>2. FilesShape /\ <<>> \in Seq(Stored) /\ <<>> \in FileContent
    <3>1. Len(<<>>) = 0 /\ <<>> \in Seq(Stored)
      OBVIOUS
    <3> QED
      BY <3>1, FilesAssumption DEF FilesIInv, StreamsIInv, FileContent
  <2>3. FilesShape'
    BY <1>3, <2>2 DEF FilesShape
  <2>4. \A j \in Inode \ {i} : content'[j] = content[j] /\ believed'[j] = believed[j]
    BY <1>3, <2>2 DEF FilesShape
  <2>5. content'[i] = <<>> /\ believed'[i] = <<>>
    BY <1>3, <2>1, <2>2 DEF FilesShape
  <2>6. Opened' = Opened /\ StreamsPositioned' /\ OneStream'
    BY <1>3 DEF Opened, FilesIInv, StreamsIInv, StreamsPositioned, OneStream
  <2>7. OpenedExact'
    <3>1. ASSUME NEW t \in Opened
          PROVE  believed'[fds'[t].inode] \in {Lost, WithHeld(content'[fds'[t].inode], fds'[t])}
      <4>1. fds[t].inode \in Inode \ {i}
        BY <2>1, OpenedStream
      <4>2. believed[fds[t].inode] \in {Lost, WithHeld(content[fds[t].inode], fds[t])}
        BY DEF FilesIInv, StreamsIInv, OpenedExact
      <4> QED
        BY <1>3, <2>4, <4>1, <4>2
    <3> QED
      BY <2>6, <3>1 DEF OpenedExact, WithHeld, Overwritten, Overlaid, Lost
  <2>8. ClosedExact'
    <3>1. ASSUME NEW j \in Inode, \A t \in Opened : fds[t].inode # j
          PROVE  believed'[j] \in {Lost, content'[j]}
      <4>1. CASE j = i
        BY <2>5, <4>1
      <4>2. CASE j # i
        BY <2>4, <3>1, <4>2 DEF FilesIInv, StreamsIInv, ClosedExact
      <4> QED
        BY <4>1, <4>2
    <3> QED
      BY <1>3, <2>6, <3>1 DEF ClosedExact
  <2>9. answer'.request = "other"
    BY <1>3 DEF Reply
  <2>10. ShutdownFlushed' /\ AnswersExact'
    BY <2>9 DEF ShutdownFlushed, AnswersExact
  <2>11. DescriptorsDistinct'
    BY <1>3, <2>9 DEF FilesIInv, DescriptorsDistinct
  <2> QED
    BY <2>3, <2>6, <2>7, <2>8, <2>10, <2>11 DEF FilesIInv, StreamsIInv
<1> QED
  BY <1>1, <1>2, <1>3 DEF CreateFile

\* The requests that change the tree alone.
LEMMA TreeRequestsKeep ==
    ASSUME FilesIInv, NEW path, NEW second,
           CreateDirectory(path) \/ Delete(path) \/ Rename(path, second)
    PROVE  FilesIInv'
<1>1. CASE CreateDirectory(path)
  <2>1. UNCHANGED <<fds, nextFd, content, believed>> /\ Reply
    BY <1>1 DEF CreateDirectory, Untouched, Refuse, Nothing, PartlyMade
  <2>2. answer'.request = "other"
    BY <2>1 DEF Reply
  <2> QED
    BY <2>1, <2>2, QuietKeeps
<1>2. CASE Delete(path)
  <2>1. UNCHANGED <<fds, nextFd, content, believed>> /\ (Reply \/ Removing(Names(path)))
    BY <1>2 DEF Delete, Untouched, Refuse, Nothing
  <2>2. answer'.request \in {"other", "remove"}
    BY <2>1 DEF Reply, Removing
  <2> QED
    BY <2>1, <2>2, QuietKeeps
<1>3. CASE Rename(path, second)
  <2>1. UNCHANGED <<fds, nextFd, content, believed>> /\ (Reply \/ Removing(Names(second)))
    BY <1>3 DEF Rename, Refuse, Nothing, PartlyMade, RenameFile
  <2>2. answer'.request \in {"other", "remove"}
    BY <2>1 DEF Reply, Removing
  <2> QED
    BY <2>1, <2>2, QuietKeeps
<1> QED
  BY <1>1, <1>2, <1>3
-----------------------------------------------------------------------------
(* FS_SHUTDOWN.                                                            *)

\* What the flushes up to a stream leave on the card.
LEMMA FlushAllFile ==
    ASSUME FilesIInv, NEW last \in Slot, NEW kept \in 0..Len(fds[last].held)
    PROVE  /\ \A i \in Inode : (\A t \in Opened : fds[t].inode # i) =>
                  FlushAll(last, kept)[i] = content[i]
           /\ \A t \in Opened : FlushAll(last, kept)[fds[t].inode] =
                  IF t < last THEN WithHeld(content[fds[t].inode], fds[t])
                  ELSE IF t = last THEN PartlyWritten(content[fds[t].inode], fds[t], kept)
                  ELSE content[fds[t].inode]
<1> DEFINE Reached(i) == {t \in Opened : fds[t].inode = i /\ t <= last}
           Value(t) == FlushedContent(fds[t], IF t = last THEN kept ELSE Len(fds[t].held))
<1>1. \A i \in Inode : FlushAll(last, kept)[i] =
          IF Reached(i) = {} THEN content[i] ELSE Value(CHOOSE u \in Reached(i) : TRUE)[i]
  BY DEF FlushAll
<1>2. ASSUME NEW i \in Inode, \A t \in Opened : fds[t].inode # i
      PROVE  FlushAll(last, kept)[i] = content[i]
  <2>1. Reached(i) = {}
    BY <1>2
  <2> QED
    BY <1>1, <2>1
<1>3. ASSUME NEW t \in Opened
      PROVE  FlushAll(last, kept)[fds[t].inode] =
                  IF t < last THEN WithHeld(content[fds[t].inode], fds[t])
                  ELSE IF t = last THEN PartlyWritten(content[fds[t].inode], fds[t], kept)
                  ELSE content[fds[t].inode]
  <2> DEFINE i == fds[t].inode
             size == Len(fds[t].held)
  <2>1. /\ i \in Inode /\ fds[t] \in StreamRecord /\ Positioned(fds[t]) /\ FilesShape
        /\ t \in Int /\ last \in Int
    BY OpenedStream DEF Slot
  <2>2. size \in 0..size /\ size <= fds[t].at /\ content[i] \in FileContent
    BY <2>1 DEF StreamRecord, Positioned, FilesShape
  <2>3. ASSUME NEW k \in 0..size
        PROVE  FlushedContent(fds[t], k)[i] = PartlyWritten(content[i], fds[t], k)
    BY <2>1, <2>2, <2>3, FlushedCard
  <2>4. PartlyWritten(content[i], fds[t], size) = WithHeld(content[i], fds[t])
    BY <2>1, <2>2, PartlyWrittenType
  <2>5. \A u \in Reached(i) : u = t
    BY DEF FilesIInv, StreamsIInv, OneStream
  <2>6. CASE t < last \/ t = last
    <3>1. Reached(i) = {t}
      <4>1. t <= last
        BY <2>1, <2>6
      <4>2. t \in Reached(i)
        BY <4>1
      <4> QED
        BY <2>5, <4>2
    <3>2. FlushAll(last, kept)[i] = Value(t)[i]
      <4>1. (CHOOSE u \in Reached(i) : TRUE) = t
        BY <3>1
      <4>2. FlushAll(last, kept)[i] = Value(CHOOSE u \in Reached(i) : TRUE)[i]
        BY <1>1, <2>1, <3>1
      <4> HIDE DEF Value
      <4> QED
        BY <4>1, <4>2
    <3>3. CASE t < last
      <4>1. t # last
        BY <2>1, <3>3
      <4>2. Value(t) = FlushedContent(fds[t], size)
        BY <4>1
      <4> QED
        BY <2>2, <2>3, <2>4, <3>2, <3>3, <4>2
    <3>4. CASE t = last
      <4>1. Value(t) = FlushedContent(fds[t], kept) /\ kept \in 0..size /\ ~(t < last)
        BY <2>1, <3>4
      <4> QED
        BY <2>3, <3>2, <3>4, <4>1
    <3> QED
      BY <2>6, <3>3, <3>4
  <2>7. CASE ~(t < last \/ t = last)
    <3>1. Reached(i) = {}
      <4>1. ~(t <= last)
        BY <2>1, <2>7
      <4>2. t \notin Reached(i)
        BY <4>1
      <4> QED
        BY <2>5, <4>2
    <3> QED
      BY <1>1, <2>1, <2>7, <3>1
  <2> QED
    BY <2>6, <2>7
<1> QED
  BY <1>2, <1>3

LEMMA HeldEmptied ==
    ASSUME NEW stream \in StreamRecord, Positioned(stream)
    PROVE  /\ FlushedStream([stream EXCEPT !.held = <<>>], stream)
           /\ FlushedStream([stream EXCEPT !.held = <<>>, !.told = Unknown], stream)
<1>1. /\ stream.at \in 0..MaxLength /\ stream.last \in {"none", "read", "write"}
      /\ stream.told \in {Unknown, stream.at} /\ Unknown \in {Unknown, stream.at}
  BY DEF StreamRecord, Positioned
<1>2. \A told \in {Unknown, stream.at} :
        FlushedStream(Emptied(stream, stream.at, stream.last, told), stream)
  BY <1>1, EmptiedStream
<1>3. /\ [stream EXCEPT !.held = <<>>] = Emptied(stream, stream.at, stream.last, stream.told)
      /\ [stream EXCEPT !.held = <<>>, !.told = Unknown]
            = Emptied(stream, stream.at, stream.last, Unknown)
  BY DEF StreamRecord, Emptied
<1> QED
  BY <1>1, <1>2, <1>3

\* The streams up to one are flushed, that one perhaps not to the end.
LEMMA FlushingKeeps ==
    ASSUME FilesIInv, NEW last \in Slot, NEW kept \in 0..Len(fds[last].held),
           content' = FlushAll(last, kept), nextFd' = nextFd,
           fds' \in [Slot -> StreamRecord],
           \A t \in Slot : fds'[t] = fds[t] \/ FlushedStream(fds'[t], fds[t]),
           \A t \in Opened : IF t <= last THEN FlushedStream(fds'[t], fds[t])
                             ELSE fds'[t] = fds[t],
           believed' \in [Inode -> Seq(Stored)],
           \A i \in Inode : i # fds[last].inode => believed'[i] = believed[i],
           last \in Opened =>
              \/ believed'[fds[last].inode] = Lost
              \/ believed' = believed /\ kept = Len(fds[last].held),
           last \notin Opened => believed' = believed,
           answer'.request # "full", answer'.request = "shutdown" => last = FdCount
    PROVE  StreamsIInv' /\ DescriptorsDistinct'
<1>1. FilesShape /\ FdCount \in Nat /\ StreamsPositioned
  BY FilesAssumption DEF FilesIInv, StreamsIInv
<1>2. ASSUME NEW t \in Slot
      PROVE  /\ fds'[t].used = fds[t].used /\ fds'[t].fd = fds[t].fd
             /\ fds'[t].inode = fds[t].inode /\ Positioned(fds'[t])
  BY <1>1 DEF FlushedStream, StreamsPositioned
<1>3. /\ \A i \in Inode : (\A t \in Opened : fds[t].inode # i) => content'[i] = content[i]
      /\ \A t \in Opened : content'[fds[t].inode] =
            IF t < last THEN WithHeld(content[fds[t].inode], fds[t])
            ELSE IF t = last THEN PartlyWritten(content[fds[t].inode], fds[t], kept)
            ELSE content[fds[t].inode]
  BY FlushAllFile
<1>4. content' \in [Inode -> FileContent]
  <2>1. ASSUME NEW t \in Opened PROVE content'[fds[t].inode] \in FileContent
    <3>1. /\ fds[t].inode \in Inode /\ fds[t] \in StreamRecord
          /\ fds[t].held \in Seq(Stored) /\ Len(fds[t].held) <= fds[t].at
          /\ content[fds[t].inode] \in FileContent
      BY <1>1, OpenedStream DEF StreamRecord, Positioned, FilesShape
    <3>2. Len(fds[t].held) \in 0..Len(fds[t].held)
      BY <3>1
    <3>3. ASSUME NEW k \in 0..Len(fds[t].held)
          PROVE  PartlyWritten(content[fds[t].inode], fds[t], k) \in FileContent
      BY <3>1, PartlyWrittenType
    <3>4. WithHeld(content[fds[t].inode], fds[t]) \in FileContent
      BY <3>1, <3>2, PartlyWrittenType
    <3> QED
      BY <1>3, <3>1, <3>3, <3>4
  <2>2. ASSUME NEW i \in Inode PROVE content'[i] \in FileContent
    BY <1>1, <1>3, <2>1 DEF FilesShape
  <2>3. content' = [i \in Inode |-> content'[i]]
    BY DEF FlushAll
  <2> QED
    BY <2>2, <2>3
<1>5. FilesShape' /\ StreamsPositioned'
  BY <1>1, <1>2, <1>4 DEF FilesShape, StreamsPositioned, Positioned
<1>6. Opened' = Opened
  BY <1>2 DEF Opened
<1>7. OneStream'
  BY <1>2, <1>6 DEF OneStream, Opened, FilesIInv, StreamsIInv
<1>8. OpenedExact'
  <2>1. ASSUME NEW t \in Opened
        PROVE  believed'[fds'[t].inode] \in {Lost, WithHeld(content'[fds'[t].inode], fds'[t])}
    <3> DEFINE i == fds[t].inode
    <3>1. t \in Slot /\ t \in Int /\ last \in Int /\ i \in Inode /\ fds[t] \in StreamRecord
      BY OpenedStream DEF Slot
    <3>2. fds'[t].inode = i
      BY <1>2, <3>1
    <3>3. believed[i] \in {Lost, WithHeld(content[i], fds[t])}
      BY DEF FilesIInv, StreamsIInv, OpenedExact
    <3>4. t # last => believed'[i] = believed[i]
      <4>1. CASE last \in Opened
        <5>1. t # last => i # fds[last].inode
          BY <4>1 DEF FilesIInv, StreamsIInv, OneStream
        <5> QED
          BY <3>1, <5>1
      <4>2. CASE last \notin Opened
        BY <4>2
      <4> QED
        BY <4>1, <4>2
    <3>5. CASE t < last
      <4>1. t # last /\ t <= last
        BY <3>1, <3>5
      <4>2. WithHeld(content'[i], fds'[t]) = content'[i]
        BY <4>1 DEF FlushedStream
      <4> QED
        BY <1>3, <3>2, <3>3, <3>4, <3>5, <4>1, <4>2
    <3>6. CASE t = last
      <4>1. t <= last /\ ~(t < last)
        BY <3>1, <3>6
      <4>2. WithHeld(content'[i], fds'[t]) = content'[i]
        BY <4>1 DEF FlushedStream
      <4>3. content'[i] = PartlyWritten(content[i], fds[t], kept)
        BY <1>3, <3>6, <4>1
      <4>4. believed'[i] = Lost \/ (believed'[i] = believed[i] /\ kept = Len(fds[t].held))
        BY <3>6
      <4>5. kept = Len(fds[t].held) =>
              PartlyWritten(content[i], fds[t], kept) = WithHeld(content[i], fds[t])
        <5>1. content[i] \in FileContent /\ Len(fds[t].held) <= fds[t].at
          BY <1>1, <3>1 DEF FilesShape, StreamsPositioned, Positioned
        <5> QED
          BY <3>1, <3>6, <5>1, PartlyWrittenType
      <4> QED
        BY <3>2, <3>3, <4>2, <4>3, <4>4, <4>5
    <3>7. CASE t > last
      <4>1. t # last /\ ~(t <= last) /\ ~(t < last)
        BY <3>1, <3>7
      <4>2. content'[i] = content[i] /\ fds'[t] = fds[t]
        BY <1>3, <4>1
      <4> QED
        BY <3>2, <3>3, <3>4, <4>1, <4>2
    <3> QED
      BY <3>1, <3>5, <3>6, <3>7
  <2> QED
    BY <1>6, <2>1 DEF OpenedExact, WithHeld, Overwritten, Overlaid, Lost
<1>9. ClosedExact'
  <2>1. ASSUME NEW i \in Inode, \A t \in Opened : fds[t].inode # i
        PROVE  believed'[i] \in {Lost, content'[i]}
    <3>1. believed[i] \in {Lost, content[i]} /\ content'[i] = content[i]
      BY <1>3, <2>1 DEF FilesIInv, StreamsIInv, ClosedExact
    <3>2. believed'[i] = believed[i]
      BY <2>1
    <3> QED
      BY <3>1, <3>2
  <2>2. \A t \in Opened : fds'[t].inode = fds[t].inode
    BY <1>2 DEF Opened
  <2> QED
    BY <1>6, <2>1, <2>2 DEF ClosedExact
<1>10. ShutdownFlushed'
  <2>1. ASSUME answer'.request = "shutdown", NEW t \in Opened PROVE fds'[t].held = <<>>
    <3>1. t <= last
      BY <1>1, <2>1 DEF Opened, Slot
    <3>2. FlushedStream(fds'[t], fds[t])
      BY <3>1
    <3> QED
      BY <3>2 DEF FlushedStream
  <2> QED
    BY <1>6, <2>1 DEF ShutdownFlushed
<1>11. DescriptorsDistinct'
  <2>1. DescriptorsDistinct
    BY DEF FilesIInv
  <2>2. \A t \in Slot : fds'[t].used = fds[t].used /\ fds'[t].fd = fds[t].fd
    BY <1>2
  <2> QED
    BY <2>1, <2>2 DEF DescriptorsDistinct
<1> QED
  BY <1>5, <1>7, <1>8, <1>9, <1>10, <1>11 DEF StreamsIInv

LEMMA ShutdownKeeps == ASSUME FilesIInv, Shutdown PROVE FilesIInv'
<1>1. /\ FdCount \in Slot /\ FilesShape /\ StreamsPositioned /\ fds \in [Slot -> StreamRecord]
  BY FilesAssumption DEF Slot, FilesIInv, StreamsIInv, FilesShape
<1>2. ASSUME NEW t \in Slot
      PROVE  /\ FlushedStream([fds[t] EXCEPT !.held = <<>>], fds[t])
             /\ FlushedStream([fds[t] EXCEPT !.held = <<>>, !.told = Unknown], fds[t])
             /\ Len(fds[t].held) \in 0..Len(fds[t].held)
             /\ t \in Int
  <2>1. fds[t] \in StreamRecord /\ Positioned(fds[t])
    BY <1>1 DEF StreamsPositioned
  <2>2. fds[t].held \in Seq(Stored)
    BY <2>1 DEF StreamRecord
  <2>3. Len(fds[t].held) \in 0..Len(fds[t].held)
    BY <2>2
  <2>4. t \in Int
    BY DEF Slot
  <2> QED
    BY <2>1, <2>3, <2>4, HeldEmptied
<1>3. ASSUME NEW last \in Slot
      PROVE  /\ FlushedStreams(last) \in [Slot -> StreamRecord]
             /\ \A t \in Slot : \/ FlushedStreams(last)[t] = fds[t]
                                \/ FlushedStream(FlushedStreams(last)[t], fds[t])
             /\ \A t \in Opened : IF t <= last
                                  THEN FlushedStreams(last)[t] = [fds[t] EXCEPT !.held = <<>>]
                                  ELSE FlushedStreams(last)[t] = fds[t]
  <2>1. \A t \in Slot : FlushedStreams(last)[t] =
            IF t \in Opened /\ t <= last THEN [fds[t] EXCEPT !.held = <<>>] ELSE fds[t]
    BY DEF FlushedStreams
  <2>2. \A t \in Slot : FlushedStreams(last)[t] \in StreamRecord
    BY <1>1, <1>2, <2>1 DEF FlushedStream
  <2>3. FlushedStreams(last) \in [Slot -> StreamRecord]
    BY <2>2 DEF FlushedStreams
  <2>4. \A t \in Opened : t \in Slot
    BY DEF Opened
  <2> QED
    BY <1>2, <2>1, <2>3, <2>4
<1>4. CASE /\ content' = FlushAll(FdCount, Len(fds[FdCount].held))
           /\ fds' = FlushedStreams(FdCount)
           /\ answer' = [request |-> "shutdown"]
           /\ UNCHANGED <<nextFd, tree, believed, failures>>
  <2> DEFINE kept == Len(fds[FdCount].held)
  <2>1. kept \in 0..Len(fds[FdCount].held)
    BY <1>1, <1>2
  <2>2. answer'.request = "shutdown"
    BY <1>4
  <2>3. \A t \in Opened : IF t <= FdCount THEN FlushedStream(fds'[t], fds[t])
                          ELSE fds'[t] = fds[t]
    BY <1>1, <1>2, <1>3, <1>4 DEF Opened
  <2>4. believed' \in [Inode -> Seq(Stored)]
    BY <1>1, <1>4 DEF FilesShape
  <2>5. \A t \in Slot : fds'[t] = fds[t] \/ FlushedStream(fds'[t], fds[t])
    BY <1>1, <1>3, <1>4
  <2>6. fds' \in [Slot -> StreamRecord]
    BY <1>1, <1>3, <1>4
  <2>7. content' = FlushAll(FdCount, kept) /\ nextFd' = nextFd /\ believed' = believed
    BY <1>4
  <2> HIDE DEF kept
  <2>8. StreamsIInv' /\ DescriptorsDistinct'
    BY <1>1, <2>1, <2>2, <2>3, <2>4, <2>5, <2>6, <2>7, FlushingKeeps DEF kept
  <2>9. AnswersExact'
    BY <2>2 DEF AnswersExact
  <2> QED
    BY <2>8, <2>9 DEF FilesIInv
<1>5. ASSUME NEW s \in Opened, NEW kept \in 0..(Len(fds[s].held) - 1),
             content' = FlushAll(s, kept),
             fds' = [FlushedStreams(s) EXCEPT ![s].told = Unknown],
             Believing(FALSE, fds[s].inode), Reply, nextFd' = nextFd
      PROVE  FilesIInv'
  <2>1. s \in Slot /\ fds[s].inode \in Inode /\ s <= s
    <3>1. s \in Slot /\ fds[s].inode \in Inode
      BY OpenedStream
    <3>2. s \in Int
      BY <1>2, <3>1
    <3> QED
      BY <3>1, <3>2
  <2>2. kept \in 0..Len(fds[s].held)
    <3> DEFINE size == Len(fds[s].held)
    <3>1. size \in 0..size
      BY <1>2, <2>1
    <3>2. kept \in 0..(size - 1)
      OBVIOUS
    <3> HIDE DEF size
    <3>3. kept \in 0..size
      BY <3>1, <3>2
    <3> QED
      BY <3>3 DEF size
  <2>3. /\ FlushedStreams(s) \in [Slot -> StreamRecord]
        /\ FlushedStreams(s)[s] = [fds[s] EXCEPT !.held = <<>>]
    BY <1>3, <2>1
  <2>4. fds' = [FlushedStreams(s) EXCEPT ![s] = [fds[s] EXCEPT !.held = <<>>, !.told = Unknown]]
    <3>1. [FlushedStreams(s)[s] EXCEPT !.told = Unknown] =
              [fds[s] EXCEPT !.held = <<>>, !.told = Unknown]
      BY <2>3
    <3> QED
      BY <1>5, <2>3, <3>1
  <2>5. /\ fds'[s] = [fds[s] EXCEPT !.held = <<>>, !.told = Unknown]
        /\ \A t \in Slot \ {s} : fds'[t] = FlushedStreams(s)[t]
        /\ DOMAIN fds' = Slot
        /\ fds' = [t \in Slot |-> fds'[t]]
    BY <2>1, <2>3, <2>4
  <2>6. FlushedStream(fds'[s], fds[s])
    BY <1>2, <2>1, <2>5
  <2>7. \A t \in Slot : fds'[t] = fds[t] \/ FlushedStream(fds'[t], fds[t])
    BY <1>3, <2>1, <2>5, <2>6
  <2>8. fds' \in [Slot -> StreamRecord]
    <3>1. \A t \in Slot : fds'[t] \in StreamRecord
      BY <1>1, <2>7 DEF FlushedStream
    <3> QED
      BY <2>5, <3>1
  <2>9. \A t \in Opened : IF t <= s THEN FlushedStream(fds'[t], fds[t]) ELSE fds'[t] = fds[t]
    <3> SUFFICES ASSUME NEW t \in Opened
                 PROVE  IF t <= s THEN FlushedStream(fds'[t], fds[t]) ELSE fds'[t] = fds[t]
      OBVIOUS
    <3>1. t \in Slot
      BY DEF Opened
    <3>2. CASE t = s
      BY <2>1, <2>6, <3>2
    <3>3. CASE t # s
      <4>1. fds'[t] = FlushedStreams(s)[t]
        BY <2>5, <3>1, <3>3
      <4>2. IF t <= s THEN FlushedStreams(s)[t] = [fds[t] EXCEPT !.held = <<>>]
            ELSE FlushedStreams(s)[t] = fds[t]
        BY <1>3, <2>1
      <4>3. FlushedStream([fds[t] EXCEPT !.held = <<>>], fds[t])
        BY <1>2, <3>1
      <4> DEFINE emptied == [fds[t] EXCEPT !.held = <<>>]
      <4> HIDE DEF emptied
      <4> QED
        BY <4>1, <4>2, <4>3 DEF emptied
    <3> QED
      BY <3>2, <3>3
  <2>10. believed' = [believed EXCEPT ![fds[s].inode] = Lost]
    BY <1>5 DEF Believing
  <2>11. /\ believed' \in [Inode -> Seq(Stored)] /\ believed'[fds[s].inode] = Lost
         /\ \A i \in Inode : i # fds[s].inode => believed'[i] = believed[i]
    BY <1>1, <2>1, <2>10, Forgetting
  <2>12. answer'.request = "other"
    BY <1>5 DEF Reply
  <2>13. StreamsIInv' /\ DescriptorsDistinct'
    BY <1>5, <2>1, <2>2, <2>7, <2>8, <2>9, <2>11, <2>12, FlushingKeeps
  <2>14. AnswersExact'
    BY <2>12 DEF AnswersExact
  <2> QED
    BY <2>13, <2>14 DEF FilesIInv
<1> QED
  BY <1>4, <1>5 DEF Shutdown
-----------------------------------------------------------------------------
LEMMA FilesInitial == FilesInit => FilesIInv
<1> SUFFICES ASSUME FilesInit PROVE FilesIInv
  OBVIOUS
<1>1. FdBase \in Nat /\ FdCount \in Nat \ {0} /\ MaxLength \in Nat
  BY FilesAssumption
<1>2. <<>> \in Seq(Stored) /\ <<>> \in FileContent
  <2>1. <<>> \in Seq(Stored) /\ Len(<<>>) = 0
    OBVIOUS
  <2> QED
    BY <1>1, <2>1 DEF FileContent
<1>3. FilesShape
  <2>1. nextFd \in FdRange
    BY <1>1 DEF FilesInit, FdRange
  <2> QED
    BY <1>2, <2>1, FreeType DEF FilesInit, FilesShape
<1>4. \A s \in Slot : fds[s] = Free
  BY DEF FilesInit
<1>5. Opened = {} /\ \A s \in Slot : ~fds[s].used
  BY <1>4, FreeType DEF Opened
<1>6. StreamsPositioned
  BY <1>4, FreeType DEF StreamsPositioned
<1>7. OneStream /\ OpenedExact
  BY <1>5 DEF OneStream, OpenedExact
<1>8. ClosedExact
  BY DEF FilesInit, ClosedExact
<1>9. answer.request = "other"
  BY DEF FilesInit
<1>10. ShutdownFlushed /\ AnswersExact
  BY <1>9 DEF ShutdownFlushed, AnswersExact
<1>11. DescriptorsDistinct
  BY <1>5, <1>9 DEF DescriptorsDistinct
<1> QED
  BY <1>3, <1>6, <1>7, <1>8, <1>10, <1>11 DEF FilesIInv, StreamsIInv

LEMMA OpenKeeps ==
    ASSUME FilesIInv, NEW path,
           \/ OpenDevice(path) \/ OpenRefused(path)
           \/ \E mode \in GuestMode : OpenFile(path, mode)
    PROVE  FilesIInv'
<1>1. CASE OpenDevice(path)
  <2>1. Allocate(1, NoInode) /\ 1 \in 1..3
    BY <1>1 DEF OpenDevice
  <2>2. \A t \in Opened : fds[t].inode # NoInode
    BY DEF Opened
  <2> QED
    BY <2>1, <2>2, AllocateKeeps
<1>2. CASE OpenRefused(path)
  BY <1>2, NothingKeeps DEF OpenRefused
<1>3. ASSUME NEW mode \in GuestMode, OpenFile(path, mode)
      PROVE  FilesIInv'
  <2> DEFINE inode == tree[Names(path)]
  <2>1. inode \in Inode /\ Allocate(mode, inode) /\ \A t \in Opened : fds[t].inode # inode
    BY <1>3 DEF OpenFile
  <2>2. mode \in 1..3
    BY FilesAssumption
  <2> HIDE DEF inode
  <2> QED
    BY <2>1, <2>2, AllocateKeeps
<1> QED
  BY <1>1, <1>2, <1>3

LEMMA FilesInvariantStep == FilesIInv /\ [FilesNext]_filesVars => FilesIInv'
<1> SUFFICES ASSUME FilesIInv, [FilesNext]_filesVars PROVE FilesIInv'
  OBVIOUS
<1>1. ASSUME NEW s \in Slot, Close(s) \/ DeviceReadWrite(s) \/ AccessRefused(s) \/ FileStats(s)
      PROVE  FilesIInv'
  BY <1>1, CloseKeeps, NothingKeeps, FileStatsKeeps DEF DeviceReadWrite, AccessRefused
<1>2. CASE DescriptorRequests
  BY <1>1, <1>2, OpenKeeps, NothingKeeps DEF DescriptorRequests, BadDescriptor
<1>3. CASE CardRequests
  BY <1>3, TreeRequestsKeep, CreateFileFiles DEF CardRequests
<1>4. CASE StreamRequests
  <2>1. ASSUME NEW path \in StreamPath, CreateFile(path) \/ \E mode \in GuestMode : OpenFile(path, mode)
        PROVE  FilesIInv'
    BY <2>1, OpenKeeps, CreateFileFiles
  <2>2. ASSUME NEW s \in Slot, NEW size \in 1..MaxLength, Read(s, size)
        PROVE  FilesIInv'
    BY <2>2, ReadKeeps
  <2>3. ASSUME NEW s \in Slot, NEW byte \in FileByte, Write(s, byte)
        PROVE  FilesIInv'
    BY <2>3, FileWriteKeeps
  <2>4. ASSUME NEW s \in Slot, NEW whence \in {"set", "cur", "end"},
               NEW offset \in {-1, 0, 1}, Seek(s, whence, offset)
        PROVE  FilesIInv'
    BY <2>4, SeekKeeps
  <2> QED
    BY <1>1, <1>4, <2>1, <2>2, <2>3, <2>4, ShutdownKeeps DEF StreamRequests
<1>5. CASE UNCHANGED filesVars
  <2>1. UNCHANGED <<fds, nextFd, content, believed>> /\ answer' = answer
    BY <1>5 DEF filesVars
  <2> QED
    BY <2>1, QuietKeeps
<1> QED
  BY <1>2, <1>3, <1>4, <1>5 DEF FilesNext

(* The card and the streams together hold what the guest has been told.    *)
THEOREM FilesInvariance == FilesSpec => []FilesIInv
  BY FilesInitial, FilesInvariantStep, PTL DEF FilesSpec

(* For any files, any number of descriptors and any failures of the C      *)
(* library: handle_open gives no number twice and refuses only when all    *)
(* are used; handle_read_write and FS_GET_FILE_STATS answer with the bytes *)
(* the acknowledged writes put there; after handle_close and FS_SHUTDOWN   *)
(* those bytes are on the card.                                            *)
THEOREM FilesAreExact == FilesSpec => []FilesExact
<1>1. FilesIInv => FilesExact
  <2> SUFFICES ASSUME FilesIInv PROVE SavedOnCard
    BY DEF FilesIInv, FilesExact
  <2> SUFFICES ASSUME NEW i \in Inode, believed[i] # Lost, content[i] # believed[i]
               PROVE  answer.request # "shutdown" /\ \E s \in Opened : fds[s].inode = i
    BY DEF SavedOnCard
  <2>1. PICK s \in Opened : fds[s].inode = i
    BY DEF FilesIInv, StreamsIInv, ClosedExact
  <2>2. believed[i] = WithHeld(content[i], fds[s])
    BY <2>1 DEF FilesIInv, StreamsIInv, OpenedExact
  <2>3. fds[s].held = <<>> => WithHeld(content[i], fds[s]) = content[i]
    BY DEF WithHeld, Overwritten
  <2>4. answer.request # "shutdown"
    BY <2>2, <2>3 DEF FilesIInv, StreamsIInv, ShutdownFlushed
  <2> QED
    BY <2>1, <2>4
<1> QED
  BY <1>1, FilesInvariance, PTL

(* Whatever is opened, read, written and sought, every descriptor, stream,  *)
(* place of the card and file keeps its type, and no stream holds more     *)
(* bytes back than lie before it.                                          *)
THEOREM FilesTypeCorrect == FilesSpec => []FilesTypeOK
<1>1. FilesIInv /\ TreeIInv => FilesTypeOK
  <2> SUFFICES ASSUME FilesIInv, TreeIInv PROVE FilesTypeOK
    OBVIOUS
  <2>1. FilesShape /\ StreamsPositioned
    BY DEF FilesIInv, StreamsIInv
  <2>2. nextFd \in FdBase..(FdBase + FdCount - 1)
    BY <2>1 DEF FilesShape, FdRange
  <2>3. ASSUME NEW s \in Slot
        PROVE  /\ fds[s].used \in BOOLEAN /\ fds[s].mode \in 1..3
               /\ fds[s].inode \in Inode \cup {NoInode}
               /\ fds[s].at \in 0..MaxLength /\ Len(fds[s].held) <= fds[s].at
               /\ fds[s].last \in {"none", "read", "write"}
               /\ fds[s].told \in 0..MaxLength \cup {Unknown}
    BY <2>1 DEF FilesShape, StreamRecord, StreamsPositioned, Positioned
  <2>4. \A n \in Node : tree[n] \in Inode \cup NoFile
    BY DEF TreeIInv, TreeOK
  <2>5. \A i \in Inode : Len(content[i]) <= MaxLength
    BY <2>1 DEF FilesShape, FileContent
  <2> QED
    BY <2>2, <2>3, <2>4, <2>5 DEF FilesTypeOK
<1> QED
  BY <1>1, FilesInvariance, TreeInvariance, PTL
-----------------------------------------------------------------------------
(* Where a path of the title's leads: below the title's directory.  The    *)
(* card's reading of a path is a fold over its names; without ".." it is   *)
(* the path itself.                                                        *)

\* The names of the guest's paths and of those that serve them.
Word == STRING \cup {"data", ".tmp", "refused"}

Climbless(names) == \A i \in 1..Len(names) : names[i] # ".."

Step(place, name) ==
    IF name # ".." THEN Append(place, name)
    ELSE IF place = <<>> THEN <<>> ELSE Front(place)

LEMMA ResolvedFold ==
    ASSUME NEW names \in Seq(Word)
    PROVE  \E f \in [0..Len(names) -> Seq(Word)] :
              /\ f[0] = <<>>
              /\ \A k \in 0..Len(names) - 1 : f[k + 1] = Step(f[k], names[k + 1])
              /\ Resolved(names) = f[Len(names)]
<1> DEFINE n == Len(names)
           Body(g, s) ==
              IF s = {} THEN <<>>
              ELSE IF names[Max(s)] # ".." THEN Append(g[s \ {Max(s)}], names[Max(s)])
              ELSE IF g[s \ {Max(s)}] = <<>> THEN <<>> ELSE Front(g[s \ {Max(s)}])
           fold == CHOOSE g : g = [s \in SUBSET (1..n) |-> Body(g, s)]
           step == [p \in (1..n) \X Seq(Word) |-> Step(p[2], names[p[1]])]
<1>1. n \in Nat /\ DOMAIN names = 1..n /\ \A i \in 1..n : names[i] \in Word
  OBVIOUS
<1>2. Resolved(names) = fold[1..n]
  BY <1>1 DEF Resolved, FoldLeft, MapThenFoldSet
<1>3. step \in [(1..n) \X Seq(Word) -> Seq(Word)]
  <2>1. ASSUME NEW place \in Seq(Word), NEW name \in Word
        PROVE  Step(place, name) \in Seq(Word)
    <3>1. Append(place, name) \in Seq(Word)
      BY AppendProperties
    <3>2. <<>> \in Seq(Word)
      OBVIOUS
    <3>3. place # <<>> => Front(place) \in Seq(Word)
      BY DEF Front
    <3> QED
      BY <3>1, <3>2, <3>3 DEF Step
  <2> QED
    BY <1>1, <2>1
<1>4. PICK h \in [SUBSET (1..n) -> Seq(Word)] : \A s \in SUBSET (1..n) :
            h[s] = IF s = {} THEN <<>> ELSE step[<<Max(s), h[s \ {Max(s)}]>>]
  <2> DEFINE S == Seq(Word)
             none == <<>>
  <2>1. none \in S /\ step \in FoldStep(n, S)
    BY <1>3 DEF FoldStep
  <2>2. \E g : FoldOf(g, n, S, none, step)
    <3> HIDE DEF n, S, none, step
    <3> QED
      BY <1>1, <2>1, FoldExists
  <2> HIDE DEF step
  <2> QED
    BY <2>2 DEF FoldOf
<1>5. ASSUME NEW s \in SUBSET (1..n), s # {}
      PROVE  Max(s) \in 1..n
  BY <1>1, <1>5, Greatest
<1>6. ASSUME NEW s \in SUBSET (1..n)
      PROVE  h[s] = Body(h, s)
  <2>1. CASE s = {}
    BY <1>4, <2>1
  <2>2. CASE s # {}
    <3>1. h[s \ {Max(s)}] \in Seq(Word)
      BY <1>4
    <3>2. step[<<Max(s), h[s \ {Max(s)}]>>] = Step(h[s \ {Max(s)}], names[Max(s)])
      BY <1>5, <2>2, <3>1
    <3> QED
      BY <1>4, <2>2, <3>2 DEF Step
  <2> QED
    BY <2>1, <2>2
<1>7. h = [s \in SUBSET (1..n) |-> Body(h, s)]
  BY <1>4, <1>6
<1>8. fold = [s \in SUBSET (1..n) |-> Body(fold, s)]
  BY <1>7
<1> HIDE DEF fold
<1>9. /\ fold[{}] = <<>>
      /\ \A s \in SUBSET (1..n) : s # {} /\ fold[s \ {Max(s)}] \in Seq(Word) =>
            fold[s] = step[<<Max(s), fold[s \ {Max(s)}]>>]
  <2>1. fold[{}] = <<>>
    BY <1>8
  <2>2. ASSUME NEW s \in SUBSET (1..n), s # {}, fold[s \ {Max(s)}] \in Seq(Word)
        PROVE  fold[s] = step[<<Max(s), fold[s \ {Max(s)}]>>]
    <3>1. fold[s] = Step(fold[s \ {Max(s)}], names[Max(s)])
      BY <1>8, <2>2 DEF Step
    <3>2. step[<<Max(s), fold[s \ {Max(s)}]>>] = Step(fold[s \ {Max(s)}], names[Max(s)])
      BY <1>5, <2>2
    <3> QED
      BY <3>1, <3>2
  <2> QED
    BY <2>1, <2>2
<1>10. /\ \A k \in 0..n : fold[1..k] \in Seq(Word)
       /\ fold[1..0] = <<>>
       /\ \A k \in 0..n - 1 : fold[1..k + 1] = step[<<k + 1, fold[1..k]>>]
  <2> DEFINE S == Seq(Word)
             none == <<>>
  <2>1. none \in S /\ step \in FoldStep(n, S)
    BY <1>3 DEF FoldStep
  <2>2. FoldsBy(fold, n, S, none, step)
    BY <1>9 DEF FoldsBy
  <2>3. FoldChains(fold, n, S, none, step)
    <3> HIDE DEF n, S, none, step
    <3> QED
      BY <1>1, <2>1, <2>2, FoldChain
  <2> QED
    BY <2>3 DEF FoldChains
<1> DEFINE f == [k \in 0..n |-> fold[1..k]]
<1>11. f \in [0..n -> Seq(Word)] /\ f[0] = <<>> /\ Resolved(names) = f[n]
  BY <1>1, <1>2, <1>10
<1>12. ASSUME NEW k \in 0..n - 1 PROVE f[k + 1] = Step(f[k], names[k + 1])
  <2>1. k \in 0..n /\ k + 1 \in 1..n /\ k + 1 \in 0..n
    BY <1>1
  <2>2. step[<<k + 1, fold[1..k]>>] = Step(fold[1..k], names[k + 1])
    BY <1>10, <2>1
  <2> QED
    BY <1>10, <2>1, <2>2
<1> QED
  BY <1>11, <1>12

LEMMA ResolvedType ==
    ASSUME NEW names \in Seq(Word)
    PROVE  Resolved(names) \in Seq(Word)
<1>1. Len(names) \in 0..Len(names)
  OBVIOUS
<1> QED
  BY <1>1, ResolvedFold

LEMMA ResolvedSafe ==
    ASSUME NEW names \in Seq(Word), Climbless(names)
    PROVE  Resolved(names) = names
<1> DEFINE n == Len(names)
<1>1. n \in Nat
  OBVIOUS
<1>2. PICK f \in [0..n -> Seq(Word)] :
          /\ f[0] = <<>>
          /\ \A k \in 0..n - 1 : f[k + 1] = Step(f[k], names[k + 1])
          /\ Resolved(names) = f[n]
  BY ResolvedFold
<1>3. ASSUME NEW k \in 0..n - 1 PROVE f[k + 1] = Append(f[k], names[k + 1])
  <2>1. names[k + 1] # ".."
    BY <1>1 DEF Climbless
  <2> QED
    BY <1>2, <2>1 DEF Step
<1> DEFINE T == {k \in Nat : k <= n => f[k] = SubSeq(names, 1, k)}
<1>4. 0 \in T
  <2>1. SubSeq(names, 1, 0) = <<>>
    BY SubSeqEmpty
  <2> QED
    BY <1>2, <2>1
<1>5. ASSUME NEW k \in T PROVE k + 1 \in T
  <2> SUFFICES ASSUME k + 1 <= n PROVE f[k + 1] = SubSeq(names, 1, k + 1)
    OBVIOUS
  <2>1. k \in 0..n - 1 /\ k \in Nat /\ f[k] = SubSeq(names, 1, k)
    BY <1>1
  <2>2. f[k + 1] = Append(SubSeq(names, 1, k), names[k + 1])
    BY <1>3, <2>1
  <2>3. SubSeq(names, 1, k + 1) = Append(SubSeq(names, 1, k), names[k + 1])
    BY <1>1, <2>1
  <2> QED
    BY <2>2, <2>3
<1>6. n \in T
  <2>1. T \in SUBSET Nat
    OBVIOUS
  <2> HIDE DEF T
  <2> QED
    BY <1>1, <1>4, <1>5, <2>1, SetInduction
<1>7. f[n] = SubSeq(names, 1, n)
  BY <1>1, <1>6
<1> QED
  BY <1>2, <1>7

\* A path as it is served.
LEMMA RefusedType == Refused \in Seq(Word)
<1>1. "refused" \in Word
  BY DEF Word
<1> QED
  BY <1>1 DEF Refused

LEMMA FittingType ==
    ASSUME NEW names \in Seq(Word)
    PROVE  /\ Fitting(names) \in Seq(Word)
           /\ Fitting(names) # Refused => Fitting(names) = names
  BY RefusedType DEF Fitting

LEMMA AfterOne ==
    ASSUME NEW S, NEW d \in Seq(S), Len(d) = 1, NEW names \in Seq(S)
    PROVE  /\ d \o names \in Seq(S) /\ Len(d \o names) = 1 + Len(names)
           /\ (d \o names)[1] = d[1]
           /\ \A i \in 2..1 + Len(names) : (d \o names)[i] = names[i - 1]
<1> DEFINE both == d \o names
           rest == Len(names)
<1>1. /\ both \in Seq(S) /\ Len(both) = 1 + rest
      /\ \A i \in 1..1 : both[i] = d[i]
      /\ \A i \in 1..1 + rest : i > 1 => both[i] = names[i - 1]
  <2>1. /\ d \o names \in Seq(S)
        /\ Len(d \o names) = Len(d) + Len(names)
        /\ \A i \in 1..Len(d) : (d \o names)[i] = d[i]
        /\ \A i \in 1..Len(d) + Len(names) :
              i > Len(d) => (d \o names)[i] = names[i - Len(d)]
    BY Appended
  <2> DEFINE one == Len(d)
  <2>2. one = 1
    OBVIOUS
  <2> HIDE DEF both, rest, one
  <2> QED
    BY <2>1, <2>2 DEF both, rest, one
<1>2. rest \in Nat
  OBVIOUS
<1> HIDE DEF both, rest
<1>3. both[1] = d[1] /\ \A i \in 2..1 + rest : both[i] = names[i - 1]
  BY <1>1, <1>2
<1> QED
  BY <1>1, <1>3 DEF both, rest

LEMMA ServedNames ==
    ASSUME NEW names \in Seq(Word)
    PROVE  /\ DataDir \o names \in Seq(Word)
           /\ Len(DataDir \o names) = 1 + Len(names)
           /\ (DataDir \o names)[1] = "data"
           /\ \A i \in 2..1 + Len(names) : (DataDir \o names)[i] = names[i - 1]
<1>1. DataDir \in Seq(Word) /\ Len(DataDir) = 1 /\ DataDir[1] = "data"
  <2>1. "data" \in Word
    BY DEF Word
  <2> QED
    BY <2>1 DEF DataDir
<1> DEFINE d == DataDir
<1>2. d \in Seq(Word) /\ Len(d) = 1 /\ d[1] = "data"
  BY <1>1
<1> HIDE DEF d
<1>3. /\ d \o names \in Seq(Word) /\ Len(d \o names) = 1 + Len(names)
      /\ (d \o names)[1] = d[1]
      /\ \A i \in 2..1 + Len(names) : (d \o names)[i] = names[i - 1]
  BY <1>2, AfterOne
<1> QED
  BY <1>2, <1>3 DEF d

LEMMA TempNames ==
    ASSUME NEW names \in Seq(Word)
    PROVE  /\ <<".tmp">> \o names \in Seq(Word)
           /\ Climbless(names) => Climbless(<<".tmp">> \o names)
<1> DEFINE d == <<".tmp">>
<1>1. d \in Seq(Word) /\ Len(d) = 1 /\ d[1] # ".."
  <2>1. ".tmp" \in Word
    BY DEF Word
  <2> QED
    BY <2>1
<1> HIDE DEF d
<1>2. /\ d \o names \in Seq(Word) /\ Len(d \o names) = 1 + Len(names)
      /\ (d \o names)[1] = d[1]
      /\ \A i \in 2..1 + Len(names) : (d \o names)[i] = names[i - 1]
  BY <1>1, AfterOne
<1>3. ASSUME Climbless(names), NEW i \in 1..1 + Len(names) PROVE (d \o names)[i] # ".."
  <2>1. CASE i = 1
    BY <1>1, <1>2, <2>1
  <2>2. CASE i # 1
    <3>1. i \in 2..1 + Len(names) /\ i - 1 \in 1..Len(names)
      BY <2>2
    <3> QED
      BY <1>2, <1>3, <3>1 DEF Climbless
  <2> QED
    BY <2>1, <2>2
<1> QED
  BY <1>2, <1>3 DEF d, Climbless

LEMMA TempConcat ==
    ASSUME NEW names \in Seq(Word)
    PROVE  DataDir \o <<".tmp">> \o names = DataDir \o (<<".tmp">> \o names)
<1> DEFINE d == DataDir
           t == <<".tmp">>
<1>1. d \in Seq(Word) /\ t \in Seq(Word)
  <2>1. "data" \in Word /\ ".tmp" \in Word
    BY DEF Word
  <2> QED
    BY <2>1 DEF DataDir
<1> HIDE DEF d, t
<1>2. (d \o t) \o names = d \o (t \o names)
  BY <1>1, ConcatAssociative
<1> QED
  BY <1>2 DEF d, t

LEMMA GuestNames == \A path \in GuestPath : path.names \in Seq(Word)
<1>1. \A path \in GuestPath : path.names \in Seq(STRING)
  BY FilesAssumption DEF PathType
<1>2. Seq(STRING) \subseteq Seq(Word)
  BY SeqMonotonic DEF Word
<1> QED
  BY <1>1, <1>2

LEMMA NodesAreSequences == Node \subseteq Seq(Word)
<1>1. ASSUME NEW path \in GuestPath PROVE HostPath(path) \in Seq(Word)
  <2>1. path.names \in Seq(Word)
    BY GuestNames
  <2>2. SubSeq(path.names, 2, Len(path.names)) \in Seq(Word)
    BY <2>1
  <2> DEFINE rest == SubSeq(path.names, 2, Len(path.names))
  <2>3. DataDir \o <<".tmp">> \o rest = DataDir \o (<<".tmp">> \o rest)
    BY <2>2, TempConcat
  <2>4. /\ DataDir \o path.names \in Seq(Word)
        /\ DataDir \o (<<".tmp">> \o rest) \in Seq(Word)
    BY <2>1, <2>2, ServedNames, TempNames
  <2> HIDE DEF rest
  <2>5. Refused \in Seq(Word)
    BY RefusedType
  <2> QED
    BY <2>1, <2>3, <2>4, <2>5, FittingType DEF HostPath, rest
<1>2. \A path \in GuestPath : path.names \in Seq(Word)
  BY GuestNames
<1>3. PathEnd \subseteq Seq(Word)
  BY <1>1, <1>2, ResolvedType DEF PathEnd, Names
<1>4. ASSUME NEW end \in Seq(Word) PROVE Prefixes(end) \subseteq Seq(Word)
  <2>1. \A l \in 0..Len(end) : SubSeq(end, 1, l) \in Seq(Word)
    OBVIOUS
  <2> QED
    BY <2>1 DEF Prefixes
<1>5. <<>> \in Seq(Word)
  OBVIOUS
<1> QED
  BY <1>3, <1>4, <1>5 DEF Node

LEMMA PrefixNames ==
    ASSUME NEW S, NEW s \in Seq(S), NEW t \in Seq(S)
    PROVE  IsPrefix(s, t) <=> Len(s) <= Len(t) /\ \A i \in 1..Len(s) : s[i] = t[i]
<1> DEFINE k == Len(s)
<1>1. k \in Nat /\ Len(t) \in Nat
  OBVIOUS
<1>2. CASE k <= Len(t)
  <2> DEFINE a == SubSeq(s, 1, k)
             b == SubSeq(t, 1, k)
  <2>1. /\ a \in Seq(S) /\ Len(a) = k /\ \A i \in 1..k : a[i] = s[i]
        /\ b \in Seq(S) /\ Len(b) = k /\ \A i \in 1..k : b[i] = t[i]
    BY <1>2
  <2> HIDE DEF a, b, k
  <2>2. a = b <=> \A i \in 1..k : a[i] = b[i]
    BY <2>1, SeqEqual
  <2> QED
    BY <1>2, <2>1, <2>2 DEF IsPrefix, a, b, k
<1> QED
  BY <1>1, <1>2 DEF IsPrefix

\* The places in the title's directory.
Titles(node) == node \in Seq(Word) /\ Len(node) > 0 /\ node[1] = "data"

LEMMA DataDirNames == DataDir \in Seq(Word) /\ Len(DataDir) = 1 /\ DataDir[1] = "data"
<1>1. "data" \in Word
  BY DEF Word
<1> QED
  BY <1>1 DEF DataDir

LEMMA TitlesHavePrefix ==
    ASSUME NEW node \in Seq(Word)
    PROVE  Titles(node) <=> IsPrefix(DataDir, node)
<1> DEFINE d == DataDir
           size == Len(node)
<1>1. d \in Seq(Word) /\ Len(d) = 1 /\ d[1] = "data"
  BY DataDirNames
<1>2. size \in Nat
  OBVIOUS
<1>3. IsPrefix(d, node) <=> Len(d) <= size /\ \A i \in 1..Len(d) : d[i] = node[i]
  <2> HIDE DEF d
  <2> QED
    BY <1>1, PrefixNames
<1> HIDE DEF d, size
<1>4. (\A i \in 1..Len(d) : d[i] = node[i]) <=> node[1] = "data"
  BY <1>1
<1>5. Len(d) <= size <=> size > 0
  BY <1>1, <1>2
<1> QED
  BY <1>3, <1>4, <1>5 DEF Titles, d, size

\* Whichever test of a path lets it through, it leads into that directory.
LEMMA ServedInside ==
    ASSUME NEW path \in GuestPath, Touched(path)
    PROVE  Titles(Names(path))
<1>1. path.names \in Seq(Word)
  BY GuestNames
<1> DEFINE rest == SubSeq(path.names, 2, Len(path.names))
           temp == <<".tmp">> \o rest
<1>2. Safe(path) => Climbless(path.names)
  <2>1. ASSUME Safe(path), NEW i \in 1..Len(path.names) PROVE path.names[i] # ".."
    <3>1. path.names[i] \in ToSet(path.names)
      BY <1>1 DEF ToSet
    <3> QED
      BY <2>1, <3>1 DEF Safe, Unsafe
  <2> QED
    BY <2>1 DEF Climbless
<1>3. TitleSave(path) => Climbless(path.names)
  BY DEF TitleSave, Climbless
<1>4. rest \in Seq(Word) /\ (Climbless(path.names) => Climbless(rest))
  <2>1. /\ rest \in Seq(Word)
        /\ Len(rest) = IF 2 <= Len(path.names) THEN Len(path.names) - 1 ELSE 0
        /\ \A i \in 1..Len(path.names) - 1 : rest[i] = path.names[i + 1]
    BY <1>1
  <2> DEFINE size == Len(path.names)
  <2>2. size \in Nat
    BY <1>1
  <2> HIDE DEF rest, size
  <2>3. ASSUME Climbless(path.names), NEW i \in 1..Len(rest) PROVE rest[i] # ".."
    <3>1. i \in 1..size - 1 /\ i + 1 \in 1..size
      BY <2>1, <2>2 DEF size
    <3> QED
      BY <2>1, <2>3, <3>1 DEF Climbless, size
  <2> QED
    BY <2>1, <2>3 DEF Climbless
<1>5. temp \in Seq(Word) /\ (Climbless(rest) => Climbless(temp))
  BY <1>4, TempNames
<1>6. DataDir \o <<".tmp">> \o rest = DataDir \o temp
  BY <1>4, TempConcat
<1> HIDE DEF rest, temp
<1>7. ASSUME NEW names \in Seq(Word), Climbless(names)
      PROVE  Titles(DataDir \o names) /\ Climbless(DataDir \o names)
  <2> DEFINE d == DataDir \o names
             size == Len(names)
  <2>1. /\ d \in Seq(Word) /\ Len(d) = 1 + size /\ d[1] = "data"
        /\ \A i \in 2..1 + size : d[i] = names[i - 1]
    BY ServedNames
  <2>2. size \in Nat
    OBVIOUS
  <2> HIDE DEF d, size
  <2>3. Titles(d)
    BY <2>1, <2>2 DEF Titles
  <2>4. ASSUME NEW i \in 1..Len(d) PROVE d[i] # ".."
    <3>1. CASE i = 1
      BY <2>1, <3>1
    <3>2. CASE i # 1
      <4>1. i \in 2..1 + size /\ i - 1 \in 1..size
        BY <2>1, <2>2, <3>2
      <4> QED
        BY <1>7, <2>1, <4>1 DEF Climbless, size
    <3> QED
      BY <3>1, <3>2
  <2> QED
    BY <2>3, <2>4 DEF Climbless, d
<1>8. ASSUME NEW names \in Seq(Word), Climbless(names), Titles(names),
             HostPath(path) = Fitting(names)
      PROVE  Titles(Names(path))
  <2>1. HostPath(path) = names
    BY <1>8, FittingType DEF Touched
  <2>2. Resolved(names) = names
    BY <1>8, ResolvedSafe
  <2> QED
    BY <1>8, <2>1, <2>2 DEF Names
<1>9. CASE TitleRelative(path) \/ TitleSave(path)
  <2>1. Climbless(path.names)
    BY <1>2, <1>3, <1>9 DEF TitleRelative
  <2>2. HostPath(path) = Fitting(DataDir \o path.names)
    BY <1>9 DEF HostPath
  <2>3. DataDir \o path.names \in Seq(Word)
    BY <1>1, ServedNames
  <2> QED
    BY <1>1, <1>7, <1>8, <2>1, <2>2, <2>3
<1>10. CASE ~(TitleRelative(path) \/ TitleSave(path)) /\ TitleTemp(path)
  <2>1. Climbless(temp)
    BY <1>2, <1>4, <1>5, <1>10 DEF TitleTemp, NandSafe
  <2>2. HostPath(path) = Fitting(DataDir \o temp)
    BY <1>6, <1>10 DEF HostPath, rest
  <2>3. DataDir \o temp \in Seq(Word)
    BY <1>5, ServedNames
  <2> QED
    BY <1>5, <1>7, <1>8, <2>1, <2>2, <2>3
<1>11. CASE ~(TitleRelative(path) \/ TitleSave(path)) /\ ~TitleTemp(path)
  <2>1. IsPrefix(DataDir, path.names) /\ NandSafe(path)
    BY <1>11 DEF Touched, TitleData, HostPath
  <2>2. Titles(path.names)
    BY <1>1, <2>1, TitlesHavePrefix
  <2>3. Climbless(path.names) /\ HostPath(path) = Fitting(path.names)
    BY <1>2, <1>11, <2>1 DEF NandSafe, HostPath
  <2> QED
    BY <1>1, <1>8, <2>2, <2>3
<1> QED
  BY <1>9, <1>10, <1>11

OnDataPath(node) == IsPrefix(DataDir, node) \/ node \in Above(DataDir)

LEMMA AboveInside ==
    ASSUME NEW node \in Node, Titles(node), NEW above \in Above(node)
    PROVE  OnDataPath(above)
<1>1. above \in Node /\ above \in Seq(Word) /\ IsPrefix(above, node)
  BY NodesAreSequences DEF Above, IsStrictPrefix
<1>2. Len(above) <= Len(node) /\ \A i \in 1..Len(above) : above[i] = node[i]
  BY <1>1, PrefixNames DEF Titles
<1>3. CASE Len(above) = 0
  <2> DEFINE d == DataDir
             size == Len(above)
  <2>1. d \in Seq(Word) /\ Len(d) = 1
    BY DataDirNames
  <2> HIDE DEF d
  <2>2. IsPrefix(above, d) <=> size <= Len(d) /\ \A i \in 1..size : above[i] = d[i]
    BY <1>1, <2>1, PrefixNames
  <2> HIDE DEF size
  <2>3. size = 0 /\ size # Len(d)
    BY <1>3, <2>1 DEF size
  <2>4. size <= Len(d) /\ \A i \in 1..size : above[i] = d[i]
    BY <2>1, <2>3
  <2>5. IsPrefix(above, d) /\ above # d
    BY <2>2, <2>3, <2>4 DEF size
  <2> QED
    BY <1>1, <2>5 DEF OnDataPath, Above, IsStrictPrefix, d
<1>4. CASE Len(above) # 0
  <2>1. Len(above) \in Nat /\ Len(above) > 0
    BY <1>1, <1>4
  <2>2. above[1] = node[1]
    BY <1>2, <2>1
  <2>3. Titles(above)
    BY <1>1, <2>1, <2>2 DEF Titles
  <2> QED
    BY <1>1, <2>3, TitlesHavePrefix DEF OnDataPath
<1> QED
  BY <1>3, <1>4

Confined == \A n \in Node : tree'[n] # tree[n] => OnDataPath(n)

LEMMA MadeConfined ==
    ASSUME TreeOK, NEW node \in Node, Titles(node),
           NEW missing \in SUBSET (MissingAbove(node) \cup {node})
    PROVE  /\ DOMAIN Made(missing) = Node
           /\ \A n \in Node : Made(missing)[n] # tree[n] => OnDataPath(n)
<1>1. OnDataPath(node)
  BY TitlesHavePrefix, NodesAreSequences DEF OnDataPath
<1>2. \A n \in missing : OnDataPath(n)
  BY <1>1, AboveInside DEF MissingAbove
<1> QED
  BY <1>2 DEF Made

LEMMA StepConfined ==
    ASSUME TreeOK, NEW path \in GuestPath, NEW second \in GuestPath,
           CreateDirectory(path) \/ CreateFile(path) \/ Delete(path) \/ Rename(path, second)
    PROVE  Confined
<1> DEFINE place == Names(path)
           other == Names(second)
<1>1. place \in Node /\ other \in Node
  BY PathsHavePlaces
<1>2. Touched(path) => Titles(place) /\ OnDataPath(place)
  BY <1>1, ServedInside, TitlesHavePrefix, NodesAreSequences DEF OnDataPath
<1>3. Touched(second) => Titles(other) /\ OnDataPath(other)
  BY <1>1, ServedInside, TitlesHavePrefix, NodesAreSequences DEF OnDataPath
<1> HIDE DEF place, other
<1>4. CASE tree' = tree
  BY <1>4 DEF Confined
<1>5. ASSUME NEW node \in Node, Titles(node), PartlyMade(node) PROVE Confined
  <2>1. PICK k \in 0..Len(node) : tree' = Made({n \in MissingAbove(node) : Len(n) <= k})
    BY <1>5 DEF PartlyMade
  <2>2. {n \in MissingAbove(node) : Len(n) <= k} \in SUBSET (MissingAbove(node) \cup {node})
    OBVIOUS
  <2> QED
    BY <1>5, <2>1, <2>2, MadeConfined DEF Confined
<1>6. CASE CreateDirectory(path) /\ tree' # tree
  <2>1. Touched(path) /\ (PartlyMade(place) \/ tree' = Made(MissingAbove(place) \cup {place}))
    BY <1>6 DEF CreateDirectory, Untouched, Refuse, Nothing, place
  <2> QED
    BY <1>1, <1>2, <1>5, <2>1, MadeConfined DEF Confined
<1>7. CASE CreateFile(path) /\ tree' # tree
  <2>1. Touched(path) /\ (\/ PartlyMade(place)
                          \/ \E i \in Unused :
                                tree' = [Made(MissingAbove(place)) EXCEPT ![place] = i])
    BY <1>7 DEF CreateFile, Untouched, Refuse, Nothing, place
  <2>2. \A n \in Node : Made(MissingAbove(place))[n] # tree[n] => OnDataPath(n)
    BY <1>1, <1>2, <2>1, MadeConfined
  <2>3. DOMAIN Made(MissingAbove(place)) = Node
    BY DEF Made
  <2>4. CASE PartlyMade(place)
    BY <1>1, <1>2, <1>5, <2>1, <2>4
  <2>5. CASE \E i \in Unused : tree' = [Made(MissingAbove(place)) EXCEPT ![place] = i]
    <3>1. \A n \in Node \ {place} : tree'[n] = Made(MissingAbove(place))[n]
      BY <2>3, <2>5
    <3> QED
      BY <1>2, <2>1, <2>2, <3>1 DEF Confined
  <2> QED
    BY <2>1, <2>4, <2>5
<1>8. CASE Delete(path) /\ tree' # tree
  <2>1. Touched(path) /\ tree' = [tree EXCEPT ![place] = "none"]
    BY <1>8 DEF Delete, Untouched, Refuse, Nothing, place
  <2> QED
    BY <1>2, <2>1 DEF Confined, TreeOK
<1>9. CASE Rename(path, second) /\ tree' # tree
  <2> DEFINE made == Made(MissingAbove(other))
             cleared == [made EXCEPT ![other] = "none"]
  <2>1. /\ Touched(path) /\ Touched(second)
        /\ \/ PartlyMade(other)
           \/ tree' = made
           \/ tree' = cleared
           \/ tree' = [cleared EXCEPT ![place] = "none", ![other] = tree[place]]
    BY <1>9 DEF Rename, RenameFile, Refuse, Nothing, place, other
  <2>2. DOMAIN made = Node /\ \A n \in Node : made[n] # tree[n] => OnDataPath(n)
    BY <1>1, <1>3, <2>1, MadeConfined
  <2> HIDE DEF made
  <2>3. CASE PartlyMade(other)
    BY <1>1, <1>3, <1>5, <2>1, <2>3
  <2>4. CASE ~PartlyMade(other)
    <3>1. \A n \in Node \ {place, other} : tree'[n] = made[n]
      BY <2>1, <2>2, <2>4
    <3> QED
      BY <1>2, <1>3, <2>1, <2>2, <3>1 DEF Confined
  <2> QED
    BY <2>1, <2>3, <2>4
<1> QED
  BY <1>4, <1>6, <1>7, <1>8, <1>9

LEMMA FilesConfined == TreeIInv /\ [FilesNext]_filesVars => Confined
<1> SUFFICES ASSUME TreeIInv, [FilesNext]_filesVars PROVE Confined
  OBVIOUS
<1>1. StreamPath \subseteq GuestPath /\ TreeOK
  BY FilesAssumption DEF TreeIInv
<1>2. CASE tree' = tree
  BY <1>2 DEF Confined
<1>3. CASE DescriptorRequests
  BY <1>2, <1>3, DescriptorsUntouching DEF DescriptorRequests
<1>4. CASE CardRequests
  BY <1>1, <1>4, StepConfined DEF CardRequests
<1>5. CASE StreamRequests
  BY <1>1, <1>2, <1>5, DescriptorsUntouching, StepConfined DEF StreamRequests
<1>6. CASE UNCHANGED filesVars
  BY <1>2, <1>6 DEF filesVars
<1> QED
  BY <1>3, <1>4, <1>5, <1>6 DEF FilesNext

(* The two tests of a path, nand_path_is_title_data and the ones in        *)
(* host_path_for_nand, differ; whatever the guest's paths are, a request   *)
(* that passes both leads below the title's directory, and nothing on the  *)
(* card changes elsewhere but the directories above it.                    *)
THEOREM CardIsConfined == FilesSpec => OnlyTitleData
<1>1. TreeIInv /\ [FilesNext]_filesVars =>
        [\A n \in Node : tree'[n] # tree[n] =>
            IsPrefix(DataDir, n) \/ n \in Above(DataDir)]_tree
  BY FilesConfined DEF Confined, OnDataPath
<1> QED
  BY <1>1, TreeInvariance, PTL DEF FilesSpec, OnlyTitleData
-----------------------------------------------------------------------------
(* The copies, for any memory, page size and range.  What CopyExact says   *)
(* of the bytes moved is inductive with the range being valid; that the    *)
(* range is wholly memory is where guest_range_valid looks at its first    *)
(* byte and its size only.                                                 *)

CopyState ==
    /\ copy \in [phase : {"idle", "copy"}, address : Nat, size : 0..MaxCopy,
                 completed : Nat, copied : Nat]
    /\ copy.completed <= copy.size
    /\ copy.completed < copy.size => copy.copied <= Chunk
    /\ copy.completed = copy.size => copy.copied = 0

RangeKnown == RangeValid(copy.address, copy.size)

BytesMoved ==
    /\ moved \in Seq(Nat \X Nat)
    /\ Len(moved) = copy.completed + copy.copied
    /\ \A i \in 1..Len(moved) : moved[i] = <<copy.address + i - 1, i - 1>>

CopyIInv == CopyState /\ RangeKnown /\ BytesMoved

LEMMA ChunkInPage ==
    ASSUME CopyState
    PROVE  /\ Chunk \in Int /\ Chunk <= PageSize
           /\ Chunk <= copy.size - copy.completed
           /\ copy.completed < copy.size => Chunk > 0
<1> DEFINE rest == copy.size - copy.completed
           page == PageSize - (Current % PageSize)
<1>1. Current \in Nat /\ PageSize \in Nat \ {0}
  BY CopyAssumption DEF CopyState, Current
<1>2. Current % PageSize \in 0..(PageSize - 1)
  BY <1>1, Division
<1>3. page \in 1..PageSize
  BY <1>1, <1>2
<1>4. rest \in Nat /\ (copy.completed < copy.size => rest > 0)
  BY CopyAssumption DEF CopyState
<1>5. Chunk = IF rest < page THEN rest ELSE page
  BY DEF Chunk
<1> HIDE DEF rest, page
<1>6. /\ Chunk \in Int /\ Chunk <= PageSize /\ Chunk <= rest
      /\ copy.completed < copy.size => Chunk > 0
  BY <1>1, <1>3, <1>4, <1>5
<1> QED
  BY <1>6 DEF rest

\* Every byte of a valid range is memory.
LEMMA ValidIsBacked ==
    ASSUME NEW address \in Nat, NEW size \in Nat, RangeValid(address, size),
           NEW k \in 0..(size - 1)
    PROVE  Backed(address + k)
<1>1. size # 0 /\ k \in Nat /\ k < size /\ address + k \in Nat
  OBVIOUS
<1>2. address + size <= AddressSpace /\ AddressSpace \in Nat
  BY <1>1, CopyAssumption DEF RangeValid
<1>3. address + k < AddressSpace
  BY <1>1, <1>2
<1>4. CASE \E region \in Flat : /\ region.first <= address
                                /\ address + size <= region.first + region.size
  <2>1. PICK region \in Flat : /\ region.first <= address
                               /\ address + size <= region.first + region.size
    BY <1>4
  <2>2. region.first \in Nat /\ region.size \in Nat
    BY CopyAssumption
  <2>3. address + k \in region.first..(region.first + region.size - 1)
    BY <1>1, <2>1, <2>2
  <2> QED
    BY <1>3, <2>3 DEF Backed
<1>5. CASE SparseFirst <= address % Mirror /\ (address % Mirror) + size <= SparseEnd
  <2>1. /\ Mirror \in Nat \ {0} /\ SparseFirst \in Nat /\ SparseEnd \in Nat
        /\ SparseEnd <= Mirror
    BY CopyAssumption
  <2>2. address % Mirror \in Nat
    BY <2>1, Division
  <2>3. (address % Mirror) + k < Mirror /\ (address % Mirror) + k < SparseEnd
    BY <1>1, <1>5, <2>1, <2>2
  <2>4. (address + k) % Mirror = (address % Mirror) + k
    BY <1>1, <2>1, <2>3, ModShift
  <2>5. (address + k) % Mirror \in SparseFirst..(SparseEnd - 1)
    BY <1>1, <1>5, <2>1, <2>2, <2>3, <2>4
  <2> QED
    BY <1>3, <2>5 DEF Backed
<1> QED
  BY <1>1, <1>4, <1>5 DEF RangeValid

\* Bytes from the place the copy has come to.
LEMMA MovedKeeps ==
    ASSUME CopyIInv, NEW count \in Nat, copy.phase = "copy",
           moved' = Moved(copy.copied, count),
           copy'.address = copy.address,
           copy'.completed + copy'.copied = copy.completed + copy.copied + count
    PROVE  BytesMoved'
<1> DEFINE part == [i \in 1..count |-> <<Current + copy.copied + i - 1,
                                         copy.completed + copy.copied + i - 1>>]
<1>1. copy.address \in Nat /\ copy.completed \in Nat /\ copy.copied \in Nat
  BY DEF CopyIInv, CopyState
<1>2. moved \in Seq(Nat \X Nat)
  BY DEF CopyIInv, BytesMoved
<1>3. Len(moved) \in Nat /\ Len(moved) = copy.completed + copy.copied
  BY <1>2 DEF CopyIInv, BytesMoved
<1>4. \A i \in 1..Len(moved) : moved[i] = <<copy.address + i - 1, i - 1>>
  BY DEF CopyIInv, BytesMoved
<1>5. Current = copy.address + copy.completed
  BY DEF Current
<1>6. ASSUME NEW j \in 1..count
      PROVE  /\ Current + copy.copied + j - 1 = copy.address + (Len(moved) + j) - 1
             /\ copy.completed + copy.copied + j - 1 = (Len(moved) + j) - 1
             /\ Current + copy.copied + j - 1 \in Nat
             /\ copy.completed + copy.copied + j - 1 \in Nat
  <2> DEFINE n == Len(moved)
  <2>1. n \in Nat /\ n = copy.completed + copy.copied /\ j \in Nat /\ j >= 1
    BY <1>3
  <2> HIDE DEF n
  <2>2. /\ Current + copy.copied + j - 1 = copy.address + (n + j) - 1
        /\ copy.completed + copy.copied + j - 1 = (n + j) - 1
        /\ Current + copy.copied + j - 1 \in Nat
        /\ copy.completed + copy.copied + j - 1 \in Nat
    BY <1>1, <1>5, <2>1
  <2> QED
    BY <2>2 DEF n
<1>7. part \in Seq(Nat \X Nat) /\ Len(part) = count
  <2>1. part \in [1..count -> Nat \X Nat]
    BY <1>6
  <2> HIDE DEF part
  <2> QED
    BY <2>1
<1>8. moved' = moved \o part
  BY DEF Moved
<1>9. \A j \in 1..count : part[j] = <<copy.address + (Len(moved) + j) - 1,
                                      (Len(moved) + j) - 1>>
  BY <1>6
<1> HIDE DEF part
<1>10. /\ moved' \in Seq(Nat \X Nat) /\ Len(moved') = Len(moved) + count
       /\ \A i \in 1..Len(moved) : moved'[i] = moved[i]
       /\ \A i \in 1..Len(moved) + count : i > Len(moved) => moved'[i] = part[i - Len(moved)]
  <2>1. /\ moved \o part \in Seq(Nat \X Nat)
        /\ Len(moved \o part) = Len(moved) + Len(part)
        /\ \A i \in 1..Len(moved) : (moved \o part)[i] = moved[i]
        /\ \A i \in 1..Len(moved) + Len(part) :
             i > Len(moved) => (moved \o part)[i] = part[i - Len(moved)]
    <3> DEFINE S == Nat \X Nat
    <3>1. moved \in Seq(S) /\ part \in Seq(S)
      BY <1>2, <1>7
    <3> HIDE DEF S
    <3>2. /\ moved \o part \in Seq(S)
          /\ Len(moved \o part) = Len(moved) + Len(part)
          /\ \A i \in 1..Len(moved) : (moved \o part)[i] = moved[i]
          /\ \A i \in 1..Len(moved) + Len(part) :
               i > Len(moved) => (moved \o part)[i] = part[i - Len(moved)]
      BY <3>1, Appended
    <3> QED
      BY <3>2 DEF S
  <2> QED
    BY <1>7, <1>8, <2>1, Zenon
<1>11. ASSUME NEW i \in 1..Len(moved) + count
       PROVE  moved'[i] = <<copy.address + i - 1, i - 1>>
  <2>1. CASE i <= Len(moved)
    <3>1. i \in 1..Len(moved)
      BY <1>3, <2>1
    <3> QED
      BY <1>4, <1>10, <3>1
  <2>2. CASE i > Len(moved)
    <3>1. PICK j \in 1..count : i = Len(moved) + j /\ i - Len(moved) = j
      <4>1. i - Len(moved) \in 1..count /\ i = Len(moved) + (i - Len(moved))
        BY <1>3, <2>2
      <4> QED
        BY <4>1
    <3>2. moved'[i] = part[j]
      BY <1>10, <2>2, <3>1
    <3> QED
      BY <1>9, <3>1, <3>2
  <2> QED
    BY <1>3, <2>1, <2>2
<1>12. Len(moved') = copy'.completed + copy'.copied
  BY <1>1, <1>3, <1>10
<1> QED
  BY <1>10, <1>11, <1>12 DEF BytesMoved

LEMMA CopyInitial == CopyInit => CopyIInv
<1> SUFFICES ASSUME CopyInit PROVE CopyIInv
  OBVIOUS
<1>1. copy = [phase |-> "idle", address |-> 0, size |-> 0, completed |-> 0, copied |-> 0]
      /\ moved = <<>>
  BY DEF CopyInit, NoCopy
<1>2. CopyState
  BY <1>1, CopyAssumption DEF CopyState
<1>3. RangeKnown
  BY <1>1 DEF RangeKnown, RangeValid
<1>4. BytesMoved
  <2>1. moved \in Seq(Nat \X Nat) /\ Len(moved) = 0
    BY <1>1
  <2> QED
    BY <1>1, <2>1 DEF BytesMoved
<1> QED
  BY <1>2, <1>3, <1>4 DEF CopyIInv

\* A step of the copy itself: bytes are moved and counted, within the chunk.
LEMMA CopyStepKeeps ==
    ASSUME CopyIInv, CopyChunk \/ CopyWord \/ CopyByte
    PROVE  CopyIInv'
<1>1. /\ copy.phase = "copy" /\ copy.completed < copy.size
      /\ CopyState /\ RangeKnown
  BY DEF CopyIInv, CopyChunk, CopyWord, CopyByte, Copying
<1>2. /\ copy.address \in Nat /\ copy.size \in 0..MaxCopy /\ MaxCopy \in Nat
      /\ copy.completed \in Nat /\ copy.copied \in Nat /\ copy.copied <= Chunk
  BY <1>1, CopyAssumption DEF CopyState
<1>3. Chunk \in Int /\ Chunk > 0 /\ Chunk <= copy.size - copy.completed
  BY <1>1, ChunkInPage
<1>4. CASE CopyChunk
  <2>1. copy.copied = 0 /\ moved' = Moved(0, Chunk)
        /\ copy' = [copy EXCEPT !.completed = @ + Chunk]
    BY <1>4 DEF CopyChunk
  <2>2. /\ copy'.completed = copy.completed + Chunk /\ copy'.copied = 0
        /\ copy'.address = copy.address /\ copy'.size = copy.size
        /\ copy'.phase = copy.phase
    BY <1>1, <2>1 DEF CopyState
  <2>3. copy.completed + Chunk \in Nat /\ copy.completed + Chunk <= copy.size
        /\ Chunk \in Nat
    BY <1>2, <1>3
  <2>4. copy' \in [phase : {"idle", "copy"}, address : Nat, size : 0..MaxCopy,
                   completed : Nat, copied : Nat]
    BY <1>1, <2>1, <2>3 DEF CopyState
  <2>5. CopyState'
    <3>1. copy'.completed < copy'.size => copy'.copied <= Chunk'
      <4> SUFFICES ASSUME copy'.completed < copy'.size PROVE 0 <= Chunk'
        BY <2>2
      <4> DEFINE next == copy'.address + copy'.completed
                 rest == copy'.size - copy'.completed
                 page == PageSize - (next % PageSize)
      <4>1. Chunk' = IF rest < page THEN rest ELSE page
        BY DEF Chunk, Current
      <4>2. next \in Nat /\ PageSize \in Nat \ {0}
        BY <1>2, <2>2, <2>3, CopyAssumption
      <4>3. rest \in Nat
        BY <1>2, <2>2, <2>3
      <4> HIDE DEF next, rest
      <4>4. next % PageSize \in 0..(PageSize - 1)
        BY <4>2, Division
      <4>5. page \in Nat
        BY <4>2, <4>4
      <4> HIDE DEF page
      <4> QED
        BY <4>1, <4>3, <4>5
    <3> QED
      BY <2>2, <2>3, <2>4, <3>1 DEF CopyState
  <2>6. RangeKnown'
    BY <1>1, <2>2 DEF RangeKnown, RangeValid
  <2>7. BytesMoved'
    <3>1. moved' = Moved(copy.copied, Chunk)
      BY <2>1
    <3>2. copy'.completed + copy'.copied = copy.completed + copy.copied + Chunk
      BY <1>2, <2>1, <2>2, <2>3
    <3> QED
      BY <1>1, <2>2, <2>3, <3>1, <3>2, MovedKeeps
  <2> QED
    BY <2>5, <2>6, <2>7 DEF CopyIInv
<1>5. CASE CopyWord \/ CopyByte
  <2>1. PICK count \in Nat :
            /\ count <= Chunk - copy.copied
            /\ moved' = Moved(copy.copied, count)
            /\ copy' = [copy EXCEPT !.copied = @ + count]
    <3>1. WordSize \in Nat
      BY CopyAssumption
    <3>2. CASE CopyWord
      BY <3>1, <3>2 DEF CopyWord, ChunkLeft
    <3>3. CASE CopyByte
      <4>1. 1 <= Chunk - copy.copied
        BY <1>2, <1>3, <3>3 DEF CopyByte, ChunkLeft
      <4> QED
        BY <3>3, <4>1 DEF CopyByte
    <3> QED
      BY <1>5, <3>2, <3>3
  <2>2. /\ copy'.completed = copy.completed /\ copy'.copied = copy.copied + count
        /\ copy'.address = copy.address /\ copy'.size = copy.size
    BY <1>1, <2>1 DEF CopyState
  <2>3. Chunk' = Chunk
    BY <2>2 DEF Chunk, Current
  <2>4. copy.copied + count \in Nat /\ copy.copied + count <= Chunk
    BY <1>2, <1>3, <2>1
  <2>5. copy' \in [phase : {"idle", "copy"}, address : Nat, size : 0..MaxCopy,
                   completed : Nat, copied : Nat]
    BY <1>1, <2>1, <2>4 DEF CopyState
  <2>6. CopyState'
    BY <1>1, <1>2, <2>2, <2>3, <2>4, <2>5 DEF CopyState
  <2>7. RangeKnown'
    BY <1>1, <2>2 DEF RangeKnown, RangeValid
  <2>8. BytesMoved'
    <3>1. copy'.completed + copy'.copied = copy.completed + copy.copied + count
      BY <1>2, <2>1, <2>2
    <3> QED
      BY <1>1, <2>1, <2>2, <3>1, MovedKeeps
  <2> QED
    BY <2>6, <2>7, <2>8 DEF CopyIInv
<1> QED
  BY <1>4, <1>5

LEMMA CopyStep == CopyIInv /\ [CopyNext]_copyVars => CopyIInv'
<1> SUFFICES ASSUME CopyIInv, [CopyNext]_copyVars PROVE CopyIInv'
  OBVIOUS
<1>1. ASSUME NEW address \in 0..(AddressSpace - 1), NEW size \in 0..MaxCopy,
             BeginCopy(address, size)
      PROVE  CopyIInv'
  <2>1. address \in Nat /\ size \in 0..MaxCopy /\ size \in Nat
    BY CopyAssumption
  <2>2. copy' = [phase |-> "copy", address |-> address, size |-> size,
                 completed |-> 0, copied |-> 0] /\ moved' = <<>>
    BY <1>1 DEF BeginCopy, NoCopy
  <2>3. CopyState'
    <3>1. copy'.completed < copy'.size => copy'.copied <= Chunk'
      <4> SUFFICES ASSUME 0 < size PROVE 0 <= Chunk'
        BY <2>2
      <4> DEFINE page == PageSize - (address % PageSize)
      <4>1. Chunk' = IF size < page THEN size ELSE page
        <5>1. address + 0 = address /\ size - 0 = size
          BY <2>1
        <5> QED
          BY <2>2, <5>1 DEF Chunk, Current
      <4>2. address % PageSize \in 0..(PageSize - 1) /\ PageSize \in Nat
        BY <2>1, CopyAssumption, Division
      <4>3. page \in Nat
        BY <4>2
      <4> QED
        BY <2>1, <4>1, <4>3
    <3> QED
      BY <2>1, <2>2, <3>1 DEF CopyState
  <2>4. RangeKnown'
    BY <1>1, <2>2 DEF BeginCopy, RangeKnown, RangeValid
  <2>5. BytesMoved'
    <3>1. moved' \in Seq(Nat \X Nat) /\ Len(moved') = 0
      BY <2>2
    <3> QED
      BY <2>2, <3>1 DEF BytesMoved
  <2> QED
    BY <2>3, <2>4, <2>5 DEF CopyIInv
<1>2. CASE ChunkDone
  <2>1. /\ copy.completed < copy.size /\ CopyState /\ RangeKnown /\ BytesMoved
        /\ copy.copied > 0 /\ Chunk - copy.copied = 0
        /\ copy' = [copy EXCEPT !.completed = @ + Chunk, !.copied = 0]
        /\ moved' = moved
    BY <1>2 DEF ChunkDone, ChunkLeft, Copying, CopyIInv
  <2>2. /\ copy.address \in Nat /\ copy.size \in 0..MaxCopy /\ MaxCopy \in Nat
        /\ copy.completed \in Nat /\ copy.copied \in Nat
    BY <2>1, CopyAssumption DEF CopyState
  <2>3. Chunk = copy.copied /\ Chunk <= copy.size - copy.completed
    BY <2>1, <2>2, ChunkInPage
  <2>4. /\ copy'.completed = copy.completed + copy.copied /\ copy'.copied = 0
        /\ copy'.address = copy.address /\ copy'.size = copy.size
    BY <2>1, <2>3 DEF CopyState
  <2>5. copy.completed + copy.copied \in Nat /\ copy.completed + copy.copied <= copy.size
    BY <2>2, <2>3
  <2>6. copy' \in [phase : {"idle", "copy"}, address : Nat, size : 0..MaxCopy,
                   completed : Nat, copied : Nat]
    BY <2>1, <2>3, <2>5 DEF CopyState
  <2>7. copy'.completed < copy'.size => copy'.copied <= Chunk'
    <3> SUFFICES ASSUME copy'.completed < copy'.size PROVE 0 <= Chunk'
      BY <2>4
    <3> DEFINE next == copy'.address + copy'.completed
               rest == copy'.size - copy'.completed
               page == PageSize - (next % PageSize)
    <3>1. Chunk' = IF rest < page THEN rest ELSE page
      BY DEF Chunk, Current
    <3>2. next \in Nat /\ PageSize \in Nat \ {0}
      BY <2>2, <2>4, <2>5, CopyAssumption
    <3>3. rest \in Nat
      BY <2>2, <2>4, <2>5
    <3> HIDE DEF next, rest
    <3>4. next % PageSize \in 0..(PageSize - 1)
      BY <3>2, Division
    <3>5. page \in Nat
      BY <3>2, <3>4
    <3> HIDE DEF page
    <3> QED
      BY <3>1, <3>3, <3>5
  <2>8. CopyState'
    BY <2>4, <2>5, <2>6, <2>7 DEF CopyState
  <2>9. RangeKnown'
    BY <2>1, <2>4 DEF RangeKnown, RangeValid
  <2>10. BytesMoved'
    <3>1. copy'.completed + copy'.copied = copy.completed + copy.copied
      BY <2>2, <2>4
    <3> QED
      BY <2>1, <2>4, <3>1 DEF BytesMoved
  <2> QED
    BY <2>8, <2>9, <2>10 DEF CopyIInv
<1>3. CASE CopyDone \/ UNCHANGED copyVars
  <2>1. CopyState /\ RangeKnown /\ BytesMoved
    BY DEF CopyIInv
  <2>2. /\ copy' = [copy EXCEPT !.phase = "idle"] \/ copy' = copy
        /\ moved' = moved
    BY <1>3 DEF CopyDone, copyVars
  <2>3. /\ copy' \in [phase : {"idle", "copy"}, address : Nat, size : 0..MaxCopy,
                      completed : Nat, copied : Nat]
        /\ copy'.completed = copy.completed /\ copy'.copied = copy.copied
        /\ copy'.address = copy.address /\ copy'.size = copy.size
    BY <2>1, <2>2 DEF CopyState
  <2>4. Chunk' = Chunk
    BY <2>3 DEF Chunk, Current
  <2>5. CopyState'
    BY <2>1, <2>3, <2>4 DEF CopyState
  <2>6. RangeKnown' /\ BytesMoved'
    BY <2>1, <2>2, <2>3 DEF RangeKnown, RangeValid, BytesMoved
  <2> QED
    BY <2>5, <2>6 DEF CopyIInv
<1> QED
  BY <1>1, <1>2, <1>3, CopyStepKeeps DEF CopyNext

(* The invariant of a copy in progress. *)
THEOREM CopyInvariance == CopySpec => []CopyIInv
  BY CopyInitial, CopyStep, PTL DEF CopySpec

(* A chunk never leaves its page, and a copy its range. *)
THEOREM CopyTypeCorrect == CopySpec => []CopyTypeOK
<1>1. CopyIInv => CopyTypeOK
  <2> SUFFICES ASSUME CopyIInv PROVE CopyTypeOK
    OBVIOUS
  <2>1. CopyState
    BY DEF CopyIInv
  <2>2. /\ copy.phase \in {"idle", "copy"} /\ copy.address \in Nat
        /\ copy.size \in 0..MaxCopy /\ MaxCopy \in Nat
        /\ copy.completed \in Nat /\ copy.completed <= copy.size
        /\ copy.copied \in Nat /\ PageSize \in Nat
    BY <2>1, CopyAssumption DEF CopyState
  <2>3. copy.copied <= PageSize
    <3>1. CASE copy.completed < copy.size
      <4>1. copy.copied <= Chunk /\ Chunk <= PageSize /\ Chunk \in Int
        BY <2>1, <3>1, ChunkInPage DEF CopyState
      <4> QED
        BY <2>2, <4>1
    <3>2. CASE copy.completed = copy.size
      BY <2>1, <2>2, <3>2 DEF CopyState
    <3> QED
      BY <2>2, <3>1, <3>2
  <2> QED
    BY <2>2, <2>3 DEF CopyTypeOK
<1> QED
  BY <1>1, CopyInvariance, PTL

(* The chunked copies of ios_hle.c and disc.c move every byte of a valid   *)
(* range in order and once, and touch nothing that is not guest memory,    *)
(* for every page size, word size and layout of memory.                    *)
THEOREM CopiesAreExact == CopySpec => []CopyExact
<1>1. CopyIInv => CopyExact
  <2> SUFFICES ASSUME CopyIInv PROVE CopyExact
    OBVIOUS
  <2>1. /\ copy.address \in Nat /\ copy.size \in Nat
        /\ copy.completed \in Nat /\ copy.copied \in Nat
        /\ copy.completed <= copy.size
        /\ copy.completed < copy.size => copy.copied <= Chunk
        /\ copy.completed = copy.size => copy.copied = 0
    BY CopyAssumption DEF CopyIInv, CopyState
  <2>2. moved \in Seq(Nat \X Nat)
    BY DEF CopyIInv, BytesMoved
  <2>3. Len(moved) = copy.completed + copy.copied /\ DOMAIN moved = 1..Len(moved)
    BY <2>2 DEF CopyIInv, BytesMoved
  <2>4. copy.completed + copy.copied <= copy.size
    <3>1. CASE copy.completed < copy.size
      <4>1. copy.copied <= Chunk /\ Chunk \in Int
            /\ Chunk <= copy.size - copy.completed
        BY <2>1, <3>1, ChunkInPage DEF CopyIInv
      <4> QED
        BY <2>1, <4>1
    <3> QED
      BY <2>1, <3>1
  <2>5. ASSUME NEW i \in DOMAIN moved
        PROVE  moved[i] = <<copy.address + i - 1, i - 1>> /\ Backed(moved[i][1])
    <3> DEFINE n == copy.completed + copy.copied
    <3>1. i \in 1..n
      BY <2>3
    <3>2. i - 1 \in 0..(copy.size - 1)
      BY <2>1, <2>4, <3>1
    <3>3. Backed(copy.address + (i - 1))
      BY <2>1, <3>2, ValidIsBacked DEF CopyIInv, RangeKnown
    <3>4. copy.address + (i - 1) = copy.address + i - 1
      BY <2>1, <3>1
    <3>5. moved[i] = <<copy.address + i - 1, i - 1>>
      BY <2>3 DEF CopyIInv, BytesMoved
    <3> QED
      BY <3>3, <3>4, <3>5
  <2>6. copy.completed = copy.size => Len(moved) = copy.size
    BY <2>1, <2>3
  <2> QED
    BY <2>5, <2>6 DEF CopyExact
<1> QED
  BY <1>1, CopyInvariance, PTL
-----------------------------------------------------------------------------
(* The boot, for any header, memory and failures.  ImageComplete is about  *)
(* a guest that runs; the invariant follows its memory from section to     *)
(* section: everywhere but in the globals it is the image of the sections  *)
(* loaded so far.                                                          *)

CoveringTo(n, c) == {s \in Covering(c) : s <= n}

LastOf(s) == CHOOSE t \in s : \A u \in s : u <= t

\* What a cell holds when the first n sections have been loaded.
ImageTo(n, c) ==
    IF CoveringTo(n, c) # {}
    THEN LET s == LastOf(CoveringTo(n, c))
         IN  FromFile(dolHeader.sections[s].offset + c - Physical(dolHeader.sections[s].address))
    ELSE IF dolHeader.bss.size # 0 /\ c \in Span(dolHeader.bss) THEN Cleared ELSE Before

HoldsTo(n) == \A c \in Cell \ {GlobalsCell} : memory[c] = ImageTo(n, c)

BootState == BootTypeOK /\ dolHeader \in Header

BootProgress ==
    /\ boot = "disc" => \A c \in Cell : memory[c] = Before
    /\ boot = "bss" => \A c \in Cell \ {GlobalsCell} : memory[c] = Before
    /\ boot \in {"disc", "bss"} => loaded = 0
    /\ boot = "sections" => HoldsTo(loaded)
    /\ boot \in {"publish", "preflight", "running"} => HoldsTo(SectionCount) /\ entryPoint
    /\ boot \in {"preflight", "running"} => discReady /\ memory[GlobalsCell] = Globals

BootIInv == BootState /\ BootProgress

LEMMA HeaderTypes ==
    ASSUME dolHeader \in Header
    PROVE  /\ dolHeader.bss.address \in Nat /\ dolHeader.bss.size \in Nat
           /\ \A s \in 1..SectionCount :
                /\ dolHeader.sections[s].address \in Nat
                /\ dolHeader.sections[s].offset \in 0..(DolFileSize - 1)
                /\ dolHeader.sections[s].size \in 0..MaxSection
                /\ Physical(dolHeader.sections[s].address) \in Nat
           /\ Physical(dolHeader.bss.address) \in Nat
<1>1. DolAddress \subseteq Nat /\ DolMirror \in Nat \ {0} /\ MaxSection \in Nat
  BY DolAssumption
<1>2. dolHeader.bss.address \in Nat /\ dolHeader.bss.size \in Nat
  <2>1. dolHeader.bss \in BssType
    BY DEF Header
  <2>2. dolHeader.bss.address \in DolAddress /\ dolHeader.bss.size \in 0..MaxSection
    BY <2>1 DEF BssType
  <2>3. dolHeader.bss.address \in Nat
    BY <2>2, DolAssumption
  <2>4. \A k \in 0..MaxSection : k \in Nat
    BY <1>1
  <2> QED
    BY <2>2, <2>3, <2>4
<1>3. ASSUME NEW s \in 1..SectionCount
      PROVE  /\ dolHeader.sections[s].address \in Nat
             /\ dolHeader.sections[s].offset \in 0..(DolFileSize - 1)
             /\ dolHeader.sections[s].size \in 0..MaxSection
  <2>1. dolHeader.sections[s] \in SectionType
    BY DEF Header
  <2> QED
    BY <1>1, <2>1 DEF SectionType
<1>4. \A a \in Nat : Physical(a) \in Nat
  BY <1>1, Division DEF Physical
<1> QED
  BY <1>2, <1>3, <1>4

\* With no section loaded there is the BSS, and what was there before.
LEMMA ImageOfNone ==
    ASSUME NEW c \in Cell
    PROVE  ImageTo(0, c) = IF dolHeader.bss.size # 0 /\ c \in Span(dolHeader.bss)
                           THEN Cleared ELSE Before
<1>1. CoveringTo(0, c) = {}
  BY DolAssumption DEF CoveringTo, Covering
<1> QED
  BY <1>1 DEF ImageTo

LEMMA ImageOfAll == ASSUME NEW c PROVE ImageTo(SectionCount, c) = Image(c)
<1>1. CoveringTo(SectionCount, c) = Covering(c)
  BY DolAssumption DEF CoveringTo, Covering
<1> QED
  BY <1>1 DEF ImageTo, Image, LastOf

\* The next section goes over those before it, where it reaches.
LEMMA ImageOfNext ==
    ASSUME dolHeader \in Header, NEW n \in 0..(SectionCount - 1), NEW c \in Cell
    PROVE  LET section == dolHeader.sections[n + 1]
               i == c - Physical(section.address)
           IN  ImageTo(n + 1, c) =
                 IF c >= Physical(section.address) /\ i < section.size
                 THEN FromFile(section.offset + i) ELSE ImageTo(n, c)
<1> DEFINE section == dolHeader.sections[n + 1]
           first == Physical(section.address)
<1>1. /\ n \in Nat /\ n + 1 \in 1..SectionCount /\ SectionCount \in Nat /\ DolMemory \in Nat
      /\ c \in Nat
  BY DolAssumption DEF Cell
<1>2. first \in Nat /\ section.size \in Nat /\ section.offset \in Nat
  BY <1>1, HeaderTypes, DolAssumption
<1>3. (section.size # 0 /\ c \in Span(section)) <=> c >= first /\ c - first < section.size
  <2> DEFINE size == section.size
  <2>1. Span(section) = first..(first + size - 1)
    BY DEF Span
  <2> HIDE DEF first, size
  <2>2. size \in Nat /\ first \in Nat /\ c \in Nat
    BY <1>1, <1>2 DEF size
  <2>3. (size # 0 /\ c \in first..(first + size - 1)) <=> c >= first /\ c - first < size
    BY <2>2
  <2> QED
    BY <2>1, <2>3 DEF size
<1>4. n + 1 \in Covering(c) <=> c >= first /\ c - first < section.size
  BY <1>1, <1>3 DEF Covering
<1>5. /\ Covering(c) \subseteq 1..SectionCount
      /\ CoveringTo(n + 1, c) \ {n + 1} = CoveringTo(n, c)
  BY <1>1 DEF Covering, CoveringTo
<1>6. CASE n + 1 \in Covering(c)
  <2>1. n + 1 \in CoveringTo(n + 1, c)
    BY <1>1, <1>6 DEF CoveringTo
  <2>2. \A u \in CoveringTo(n + 1, c) : u <= n + 1 /\ u \in Nat
    BY <1>5 DEF CoveringTo
  <2>3. ASSUME NEW t \in CoveringTo(n + 1, c), \A u \in CoveringTo(n + 1, c) : u <= t
        PROVE  t = n + 1
    <3>1. n + 1 <= t /\ t <= n + 1 /\ t \in Nat
      BY <2>1, <2>2, <2>3
    <3> QED
      BY <1>1, <3>1
  <2>4. LastOf(CoveringTo(n + 1, c)) = n + 1
    BY <2>1, <2>2, <2>3 DEF LastOf
  <2>5. section.offset + c - first = section.offset + (c - first)
    <3> HIDE DEF first, section
    <3> QED
      BY <1>1, <1>2
  <2>6. ImageTo(n + 1, c) = FromFile(section.offset + c - first)
    BY <2>1, <2>4 DEF ImageTo
  <2> QED
    BY <1>4, <1>6, <2>5, <2>6
<1>7. CASE n + 1 \notin Covering(c)
  <2>1. CoveringTo(n + 1, c) = CoveringTo(n, c)
    BY <1>5, <1>7 DEF CoveringTo
  <2>2. ImageTo(n + 1, c) = ImageTo(n, c)
    BY <2>1 DEF ImageTo
  <2> QED
    BY <1>4, <1>7, <2>2
<1> QED
  BY <1>6, <1>7

LEMMA HeaderUnchanged ==
    ASSUME UNCHANGED dolHeader
    PROVE  \A n, c : ImageTo(n, c)' = ImageTo(n, c)
<1>1. \A c : Covering(c)' = Covering(c)
  BY DEF Covering, Span, Physical
<1>2. \A n, c : CoveringTo(n, c)' = CoveringTo(n, c)
  BY <1>1 DEF CoveringTo
<1> QED
  <2> SUFFICES ASSUME NEW n, NEW c PROVE ImageTo(n, c)' = ImageTo(n, c)
    OBVIOUS
  <2> DEFINE here == CoveringTo(n, c)
  <2>1. LastOf(here)' = LastOf(here)
    BY <1>2 DEF LastOf
  <2> QED
    BY <1>2, <2>1 DEF ImageTo, Span, Physical, FromFile

LEMMA BootInitial == BootInit => BootIInv
<1> SUFFICES ASSUME BootInit PROVE BootIInv
  OBVIOUS
<1>1. /\ dolHeader \in Header /\ memory = [c \in Cell |-> Before]
      /\ boot = "disc" /\ loaded = 0 /\ discReady = FALSE /\ entryPoint = FALSE
  BY DEF BootInit, BootFrom
<1>2. BootState
  <2>1. Before \in Contents /\ 0 \in 0..SectionCount
    BY DolAssumption DEF Contents
  <2> QED
    BY <1>1, <2>1 DEF BootState, BootTypeOK
<1>3. BootProgress
  BY <1>1 DEF BootProgress
<1> QED
  BY <1>2, <1>3 DEF BootIInv

\* Steps that leave the memory alone.
LEMMA QuietSteps ==
    ASSUME BootIInv, DolMissing \/ SetEntryPoint \/ Preflight \/ UNCHANGED bootVars
    PROVE  BootIInv'
<1>1. UNCHANGED <<dolHeader, memory, loaded, discReady>>
  BY DEF DolMissing, SetEntryPoint, Preflight, bootVars
<1>2. \A n : HoldsTo(n) => HoldsTo(n)'
  BY <1>1, HeaderUnchanged DEF HoldsTo
<1>3. BootState'
  BY <1>1 DEF BootIInv, BootState, BootTypeOK, DolMissing, SetEntryPoint, Preflight, bootVars
<1>4. BootProgress'
  BY <1>1, <1>2 DEF BootIInv, BootProgress, DolMissing, SetEntryPoint, Preflight, bootVars
<1> QED
  BY <1>3, <1>4 DEF BootIInv

LEMMA GlobalsSteps ==
    ASSUME BootIInv, InitDisc \/ Publish
    PROVE  BootIInv'
<1>1. /\ memory' = memory \/ memory' = [memory EXCEPT ![GlobalsCell] = Globals]
      /\ UNCHANGED <<dolHeader, loaded>>
  BY DEF InitDisc, Publish
<1>2. GlobalsCell \in Cell /\ Globals \in Contents
  BY DolAssumption DEF Cell, Contents
<1>3. memory' \in [Cell -> Contents]
      /\ \A c \in Cell \ {GlobalsCell} : memory'[c] = memory[c]
  BY <1>1, <1>2 DEF BootIInv, BootState, BootTypeOK
<1>4. \A n : HoldsTo(n) => HoldsTo(n)'
  BY <1>1, <1>3, HeaderUnchanged DEF HoldsTo
<1>5. BootState'
  BY <1>1, <1>3 DEF BootIInv, BootState, BootTypeOK, InitDisc, Publish
<1>6. BootProgress'
  BY <1>1, <1>2, <1>3, <1>4 DEF BootIInv, BootState, BootTypeOK, BootProgress, InitDisc, Publish
<1> QED
  BY <1>5, <1>6 DEF BootIInv

LEMMA ClearBssKeeps == BootIInv /\ ClearBss => BootIInv'
<1> SUFFICES ASSUME BootIInv, ClearBss PROVE BootIInv'
  OBVIOUS
<1> DEFINE bss == dolHeader.bss
<1>1. /\ boot = "bss" /\ loaded = 0
      /\ \A c \in Cell \ {GlobalsCell} : memory[c] = Before
      /\ memory \in [Cell -> Contents]
      /\ UNCHANGED <<dolHeader, loaded, discReady, entryPoint>>
  BY DEF ClearBss, BootIInv, BootState, BootTypeOK, BootProgress
<1>2. \/ boot' = "blocked" /\ memory' = memory
      \/ boot' = "sections" /\ bss.size = 0 /\ memory' = memory
      \/ /\ boot' = "sections" /\ bss.size # 0
         /\ memory' = [c \in Cell |-> IF c \in Span(bss) THEN Cleared ELSE memory[c]]
  BY DEF ClearBss
<1>3. memory' \in [Cell -> Contents]
  BY <1>1, <1>2 DEF Contents
<1>4. BootState'
  BY <1>1, <1>2, <1>3 DEF BootIInv, BootState, BootTypeOK
<1>5. CASE boot' = "blocked"
  BY <1>4, <1>5 DEF BootIInv, BootProgress
<1>6. CASE boot' = "sections"
  <2>1. ASSUME NEW c \in Cell \ {GlobalsCell}
        PROVE  memory'[c] = IF bss.size # 0 /\ c \in Span(bss) THEN Cleared ELSE Before
    BY <1>1, <1>2, <1>6
  <2>2. HoldsTo(0)'
    <3>1. \A c \in Cell : ImageTo(0, c)' = ImageTo(0, c)
      BY <1>1, HeaderUnchanged
    <3> QED
      BY <2>1, <3>1, ImageOfNone DEF HoldsTo
  <2> QED
    BY <1>1, <1>4, <1>6, <2>2 DEF BootIInv, BootProgress
<1> QED
  BY <1>2, <1>5, <1>6

\* What a read puts into memory, whole or not.
LEMMA ReadIntoType ==
    ASSUME memory \in [Cell -> Contents], dolHeader \in Header, NEW n \in 1..SectionCount,
           NEW bytes \in Nat, dolHeader.sections[n].offset + bytes <= DolFileSize
    PROVE  ReadInto(dolHeader.sections[n], bytes) \in [Cell -> Contents]
<1> DEFINE section == dolHeader.sections[n]
           first == Physical(section.address)
<1>1. first \in Nat /\ section.offset \in Nat /\ DolFileSize \in Nat /\ DolMemory \in Nat
  BY HeaderTypes, DolAssumption
<1>2. ASSUME NEW c \in Cell, c >= first, c - first < bytes
      PROVE  FromFile(section.offset + (c - first)) \in Contents
  <2> DEFINE place == section.offset + (c - first)
  <2>1. c \in Nat
    BY <1>1 DEF Cell
  <2> HIDE DEF first, section
  <2>2. section.offset + bytes <= DolFileSize
    BY DEF section
  <2>3. place \in 0..(DolFileSize - 1)
    BY <1>1, <1>2, <2>1, <2>2
  <2> QED
    BY <2>3 DEF Contents
<1> QED
  BY <1>2 DEF ReadInto

LEMMA LoadSectionKeeps == BootIInv /\ LoadSection => BootIInv'
<1> SUFFICES ASSUME BootIInv, LoadSection PROVE BootIInv'
  OBVIOUS
<1> DEFINE section == dolHeader.sections[loaded + 1]
           there == IF section.offset + section.size <= DolFileSize
                    THEN section.size ELSE DolFileSize - section.offset
<1>1. /\ boot = "sections" /\ loaded \in 0..(SectionCount - 1)
      /\ loaded + 1 \in 1..SectionCount /\ loaded \in 0..SectionCount
      /\ memory \in [Cell -> Contents] /\ dolHeader \in Header
      /\ HoldsTo(loaded)
      /\ UNCHANGED <<dolHeader, discReady, entryPoint>>
  BY DolAssumption DEF LoadSection, BootIInv, BootState, BootTypeOK, BootProgress
<1>2. /\ section.size \in Nat /\ section.offset \in 0..(DolFileSize - 1)
      /\ DolFileSize \in Nat
  BY <1>1, HeaderTypes, DolAssumption
<1>3. CASE boot' = "blocked" /\ loaded' = loaded
  <2>1. memory' \in [Cell -> Contents]
    <3>1. \/ memory' = memory
          \/ \E bytes \in 0..there : memory' = ReadInto(section, bytes)
      BY <1>1, <1>3 DEF LoadSection
    <3>2. there \in Nat /\ section.offset + there <= DolFileSize
      BY <1>2
    <3>3. ASSUME NEW bytes \in 0..there PROVE ReadInto(section, bytes) \in [Cell -> Contents]
      <4>1. bytes \in Nat /\ section.offset + bytes <= DolFileSize
        BY <1>2, <3>2
      <4> QED
        BY <1>1, <4>1, ReadIntoType
    <3> QED
      BY <1>1, <3>1, <3>3
  <2> QED
    BY <1>1, <1>3, <2>1 DEF BootIInv, BootState, BootTypeOK, BootProgress
<1>4. CASE boot' = boot /\ loaded' = loaded + 1
  <2>1. \/ section.size = 0 /\ memory' = memory
        \/ there = section.size /\ memory' = ReadInto(section, section.size)
    BY <1>1, <1>4 DEF LoadSection
  <2>2. memory' \in [Cell -> Contents]
    <3>1. CASE there = section.size
      <4>1. section.offset + section.size <= DolFileSize
        BY <1>2, <3>1
      <4> QED
        BY <1>1, <1>2, <2>1, <4>1, ReadIntoType
    <3> QED
      BY <1>1, <2>1, <3>1
  <2>3. HoldsTo(loaded)'
    <3> SUFFICES ASSUME NEW c \in Cell \ {GlobalsCell}
                 PROVE  memory'[c] = ImageTo(loaded, c)'
      BY DEF HoldsTo
    <3> DEFINE first == Physical(section.address)
    <3>1. ImageTo(loaded + 1, c) =
             IF c >= first /\ c - first < section.size
             THEN FromFile(section.offset + (c - first)) ELSE ImageTo(loaded, c)
      BY <1>1, ImageOfNext
    <3>2. memory[c] = ImageTo(loaded, c)
      BY <1>1 DEF HoldsTo
    <3>3. memory'[c] = IF c >= first /\ c - first < section.size
                       THEN FromFile(section.offset + (c - first)) ELSE memory[c]
      <4>1. CASE memory' = ReadInto(section, section.size)
        BY <4>1 DEF ReadInto
      <4>2. CASE section.size = 0 /\ memory' = memory
        <5>1. first \in Nat /\ c \in Nat
          BY <1>1, HeaderTypes, DolAssumption DEF Cell
        <5> HIDE DEF first
        <5> QED
          BY <4>2, <5>1
      <4> QED
        BY <2>1, <4>1, <4>2
    <3>4. ImageTo(loaded, c)' = ImageTo(loaded + 1, c)
      <4>1. \A n : ImageTo(n, c)' = ImageTo(n, c)
        BY <1>1, HeaderUnchanged
      <4> QED
        BY <1>4, <4>1
    <3> QED
      BY <3>1, <3>2, <3>3, <3>4
  <2>4. loaded' \in 0..SectionCount /\ boot' = "sections"
    BY <1>1, <1>4
  <2>5. BootState'
    BY <1>1, <2>2, <2>4 DEF BootIInv, BootState, BootTypeOK
  <2> QED
    BY <2>3, <2>4, <2>5 DEF BootIInv, BootProgress
<1> QED
  BY <1>3, <1>4 DEF LoadSection

LEMMA BootStep == BootIInv /\ [BootNext]_bootVars => BootIInv'
  BY QuietSteps, GlobalsSteps, ClearBssKeeps, LoadSectionKeeps DEF BootNext

(* The invariant of the boot, from the disc to the first block. *)
THEOREM BootInvariance == BootSpec => []BootIInv
  BY BootInitial, BootStep, PTL DEF BootSpec

(* A cell of the guest's memory holds what was there, a zero, the globals  *)
(* or a byte of the file, also after a read that failed halfway.           *)
THEOREM BootTypeCorrect == BootSpec => []BootTypeOK
<1>1. BootIInv => BootTypeOK
  BY DEF BootIInv, BootState
<1> QED
  BY <1>1, BootInvariance, PTL

(* A guest that main starts has the whole image of the DOL, the last       *)
(* section over those before it and over a cleared BSS, and the globals of *)
(* the disc over all, for any header that dol_loader.c accepts.            *)
THEOREM ImageIsComplete == BootSpec => []ImageComplete
<1>1. BootIInv => ImageComplete
  <2> SUFFICES ASSUME BootIInv, boot = "running"
               PROVE  /\ entryPoint /\ discReady
                      /\ memory = [c \in Cell |-> IF c = GlobalsCell
                                                  THEN Globals ELSE Image(c)]
    BY DEF ImageComplete
  <2>1. /\ entryPoint /\ discReady /\ memory[GlobalsCell] = Globals
        /\ HoldsTo(SectionCount) /\ memory \in [Cell -> Contents]
    BY DEF BootIInv, BootState, BootTypeOK, BootProgress
  <2>2. \A c \in Cell : memory[c] = IF c = GlobalsCell THEN Globals ELSE Image(c)
    BY <2>1, ImageOfAll DEF HoldsTo
  <2> QED
    BY <2>1, <2>2
<1> QED
  BY <1>1, BootInvariance, PTL
-----------------------------------------------------------------------------
(* The listing of a directory, for any entries in any order, any buffer    *)
(* and any number of names asked for.  Which names there are and how many  *)
(* bytes they need are folds; the lemmas say what one entry adds to them,  *)
(* and the invariant says of every step what has been given by then.       *)

\* A fold over one position more takes one step from the fold over the others.
SameSteps(longStep, step, n, V) ==
    \A i \in 1..n, v \in V : longStep[<<i, v>>] = step[<<i, v>>]

OneStepOn(longFold, fold, n, V, longStep) ==
    fold[1..n] \in V /\ longFold[1..n + 1] = longStep[<<n + 1, fold[1..n]>>]

LEMMA FoldOneMore ==
    ASSUME NEW n \in Nat, NEW V, NEW base \in V,
           NEW step \in FoldStep(n, V), NEW fold, FoldsBy(fold, n, V, base, step),
           NEW longStep \in FoldStep(n + 1, V),
           NEW longFold, FoldsBy(longFold, n + 1, V, base, longStep),
           SameSteps(longStep, step, n, V)
    PROVE  OneStepOn(longFold, fold, n, V, longStep)
<1> USE DEF SameSteps, OneStepOn
<1>1. FoldChains(fold, n, V, base, step)
  BY FoldChain
<1>2. n + 1 \in Nat
  OBVIOUS
<1>3. FoldChains(longFold, n + 1, V, base, longStep)
  BY <1>2, FoldChain
<1> DEFINE T == {k \in Nat : k <= n => longFold[1..k] = fold[1..k]}
<1>4. 0 \in T
  BY <1>1, <1>3 DEF FoldChains
<1>5. ASSUME NEW k \in T PROVE k + 1 \in T
  <2> SUFFICES ASSUME k + 1 <= n PROVE longFold[1..k + 1] = fold[1..k + 1]
    OBVIOUS
  <2>1. k \in 0..n - 1 /\ k \in 0..(n + 1) - 1 /\ k \in 0..n /\ k + 1 \in 1..n /\ k <= n
    OBVIOUS
  <2>2. fold[1..k] \in V /\ fold[1..k + 1] = step[<<k + 1, fold[1..k]>>]
    BY <1>1, <2>1 DEF FoldChains
  <2>3. longFold[1..k + 1] = longStep[<<k + 1, longFold[1..k]>>]
    BY <1>3, <2>1 DEF FoldChains
  <2>4. longFold[1..k] = fold[1..k]
    BY <2>1
  <2> QED
    BY <2>1, <2>2, <2>3, <2>4
<1>6. n \in T
  <2>1. T \in SUBSET Nat
    OBVIOUS
  <2> HIDE DEF T
  <2> QED
    BY <1>4, <1>5, <2>1, SetInduction
<1>7. longFold[1..n] = fold[1..n]
  BY <1>6
<1>8. n \in 0..n /\ n \in 0..(n + 1) - 1
  OBVIOUS
<1> QED
  BY <1>1, <1>3, <1>7, <1>8 DEF FoldChains

\* The two folds of the listing, as steps on numbers of positions.
ListedStep(s) ==
    [p \in (1..Len(s)) \X Seq(DirectoryName) |->
        IF Skipped(s[p[1]]) THEN p[2] ELSE Append(p[2], s[p[1]])]

BytesStep(s) ==
    [p \in (1..Len(s)) \X Nat |-> p[2] + NameLength(s[p[1]]) + 1]

LEMMA ListedFolds ==
    ASSUME NEW s \in Seq(DirectoryName)
    PROVE  /\ ListedStep(s) \in FoldStep(Len(s), Seq(DirectoryName))
           /\ \E fold : /\ Listed(s) = fold[1..Len(s)]
                        /\ FoldsBy(fold, Len(s), Seq(DirectoryName), <<>>, ListedStep(s))
<1> DEFINE n == Len(s)
           V == Seq(DirectoryName)
           Body(g, t) == IF t = {} THEN <<>>
                         ELSE IF Skipped(s[Max(t)]) THEN g[t \ {Max(t)}]
                         ELSE Append(g[t \ {Max(t)}], s[Max(t)])
           fold == CHOOSE g : g = [t \in SUBSET (1..n) |-> Body(g, t)]
           step == ListedStep(s)
           none == <<>>
<1>1. n \in Nat /\ DOMAIN s = 1..n /\ \A i \in 1..n : s[i] \in DirectoryName
  OBVIOUS
<1>2. Listed(s) = fold[1..n]
  BY <1>1 DEF Listed, FoldLeft, MapThenFoldSet
<1>3. step \in FoldStep(n, V) /\ none \in V
  <2>1. \A kept \in V, i \in 1..n : Append(kept, s[i]) \in V
    BY <1>1, AppendProperties
  <2> QED
    BY <2>1 DEF FoldStep, ListedStep
<1>4. PICK h \in [SUBSET (1..n) -> V] : \A t \in SUBSET (1..n) :
            h[t] = IF t = {} THEN none ELSE step[<<Max(t), h[t \ {Max(t)}]>>]
  <2> HIDE DEF step, V, none, n
  <2>1. \E g : FoldOf(g, n, V, none, step)
    BY <1>1, <1>3, FoldExists
  <2> QED
    BY <2>1 DEF FoldOf
<1>5. ASSUME NEW t \in SUBSET (1..n), t # {} PROVE Max(t) \in 1..n
  BY <1>1, <1>5, Greatest
<1>6. \A i \in 1..n, kept \in V :
          step[<<i, kept>>] = IF Skipped(s[i]) THEN kept ELSE Append(kept, s[i])
  BY DEF ListedStep
<1>7. h = [t \in SUBSET (1..n) |-> Body(h, t)]
  <2> HIDE DEF step
  <2>1. ASSUME NEW t \in SUBSET (1..n) PROVE h[t] = Body(h, t)
    <3>1. h[t \ {Max(t)}] \in V
      BY <1>4
    <3> QED
      BY <1>4, <1>5, <1>6, <3>1
  <2> QED
    BY <1>4, <2>1
<1>8. fold = [t \in SUBSET (1..n) |-> Body(fold, t)]
  BY <1>7
<1> HIDE DEF fold
<1>9. FoldsBy(fold, n, V, none, step)
  <2>1. fold[{}] = none
    BY <1>8
  <2>2. ASSUME NEW t \in SUBSET (1..n), t # {}, fold[t \ {Max(t)}] \in V
        PROVE  fold[t] = step[<<Max(t), fold[t \ {Max(t)}]>>]
    <3>1. fold[t] = Body(fold, t)
      BY <1>8
    <3> HIDE DEF step
    <3> QED
      BY <1>5, <1>6, <2>2, <3>1
  <2> HIDE DEF step
  <2> QED
    BY <2>1, <2>2 DEF FoldsBy
<1> QED
  BY <1>2, <1>3, <1>9

LEMMA BytesFolds ==
    ASSUME NEW s \in Seq(DirectoryName)
    PROVE  /\ BytesStep(s) \in FoldStep(Len(s), Nat)
           /\ \E fold : /\ Bytes(s) = fold[1..Len(s)]
                        /\ FoldsBy(fold, Len(s), Nat, 0, BytesStep(s))
<1> DEFINE n == Len(s)
           Body(g, t) == IF t = {} THEN 0 ELSE g[t \ {Max(t)}] + NameLength(s[Max(t)]) + 1
           fold == CHOOSE g : g = [t \in SUBSET (1..n) |-> Body(g, t)]
           step == BytesStep(s)
<1>1. n \in Nat /\ DOMAIN s = 1..n /\ \A i \in 1..n : NameLength(s[i]) \in Nat
  BY ListingAssumption
<1>2. Bytes(s) = fold[1..n]
  BY <1>1 DEF Bytes, FoldLeft, MapThenFoldSet
<1>3. step \in FoldStep(n, Nat)
  BY <1>1 DEF FoldStep, BytesStep
<1>4. PICK h \in [SUBSET (1..n) -> Nat] : \A t \in SUBSET (1..n) :
            h[t] = IF t = {} THEN 0 ELSE step[<<Max(t), h[t \ {Max(t)}]>>]
  <2> HIDE DEF step, n
  <2>1. \E g : FoldOf(g, n, Nat, 0, step)
    BY <1>1, <1>3, FoldExists
  <2> QED
    BY <2>1 DEF FoldOf
<1>5. ASSUME NEW t \in SUBSET (1..n), t # {} PROVE Max(t) \in 1..n
  BY <1>1, <1>5, Greatest
<1>6. \A i \in 1..n, sum \in Nat : step[<<i, sum>>] = sum + NameLength(s[i]) + 1
  BY DEF BytesStep
<1>7. h = [t \in SUBSET (1..n) |-> Body(h, t)]
  <2> HIDE DEF step
  <2>1. ASSUME NEW t \in SUBSET (1..n) PROVE h[t] = Body(h, t)
    <3>1. h[t \ {Max(t)}] \in Nat
      BY <1>4
    <3> QED
      BY <1>4, <1>5, <1>6, <3>1
  <2> QED
    BY <1>4, <2>1
<1>8. fold = [t \in SUBSET (1..n) |-> Body(fold, t)]
  BY <1>7
<1> HIDE DEF fold
<1>9. FoldsBy(fold, n, Nat, 0, step)
  <2>1. fold[{}] = 0
    BY <1>8
  <2>2. ASSUME NEW t \in SUBSET (1..n), t # {}, fold[t \ {Max(t)}] \in Nat
        PROVE  fold[t] = step[<<Max(t), fold[t \ {Max(t)}]>>]
    <3>1. fold[t] = Body(fold, t)
      BY <1>8
    <3> HIDE DEF step
    <3> QED
      BY <1>5, <1>6, <2>2, <3>1
  <2> HIDE DEF step
  <2> QED
    BY <2>1, <2>2 DEF FoldsBy
<1> QED
  BY <1>2, <1>3, <1>9

\* What one more entry, and one more name, add.
LEMMA ListedMore ==
    ASSUME NEW s \in Seq(DirectoryName), NEW name \in DirectoryName
    PROVE  /\ Listed(s) \in Seq(DirectoryName)
           /\ Listed(Append(s, name)) = IF Skipped(name) THEN Listed(s) ELSE Append(Listed(s), name)
<1> DEFINE n == Len(s)
           V == Seq(DirectoryName)
           long == Append(s, name)
           none == <<>>
           step == ListedStep(s)
           longStep == ListedStep(long)
<1>1. /\ n \in Nat /\ long \in V /\ Len(long) = n + 1 /\ long[n + 1] = name
      /\ \A i \in 1..n : long[i] = s[i]
  OBVIOUS
<1> HIDE DEF long
<1>2. SameSteps(longStep, step, n, V)
  BY <1>1 DEF ListedStep, SameSteps
<1>3. \A v \in V : longStep[<<n + 1, v>>] = IF Skipped(name) THEN v ELSE Append(v, name)
  BY <1>1 DEF ListedStep
<1>4. PICK fold : Listed(s) = fold[1..n] /\ FoldsBy(fold, n, V, none, step)
  BY ListedFolds
<1>5. PICK longFold : /\ Listed(long) = longFold[1..n + 1]
                      /\ FoldsBy(longFold, n + 1, V, none, longStep)
  BY <1>1, ListedFolds
<1>6. step \in FoldStep(n, V) /\ longStep \in FoldStep(n + 1, V) /\ none \in V
  BY <1>1, ListedFolds
<1> HIDE DEF n, V, none, step, longStep
<1>7. OneStepOn(longFold, fold, n, V, longStep)
  BY <1>1, <1>2, <1>4, <1>5, <1>6, FoldOneMore
<1>8. Listed(s) \in V /\ Listed(long) = IF Skipped(name) THEN Listed(s) ELSE Append(Listed(s), name)
  BY <1>3, <1>4, <1>5, <1>7 DEF OneStepOn
<1> QED
  BY <1>8 DEF long, V

LEMMA BytesMore ==
    ASSUME NEW s \in Seq(DirectoryName), NEW name \in DirectoryName
    PROVE  /\ Bytes(s) \in Nat
           /\ Bytes(Append(s, name)) = Bytes(s) + NameLength(name) + 1
<1> DEFINE n == Len(s)
           long == Append(s, name)
           step == BytesStep(s)
           longStep == BytesStep(long)
<1>1. /\ n \in Nat /\ long \in Seq(DirectoryName) /\ Len(long) = n + 1 /\ long[n + 1] = name
      /\ \A i \in 1..n : long[i] = s[i]
  OBVIOUS
<1> HIDE DEF long
<1>2. SameSteps(longStep, step, n, Nat)
  BY <1>1 DEF BytesStep, SameSteps
<1>3. \A v \in Nat : longStep[<<n + 1, v>>] = v + NameLength(name) + 1
  BY <1>1 DEF BytesStep
<1>4. PICK fold : Bytes(s) = fold[1..n] /\ FoldsBy(fold, n, Nat, 0, step)
  BY BytesFolds
<1>5. PICK longFold : /\ Bytes(long) = longFold[1..n + 1]
                      /\ FoldsBy(longFold, n + 1, Nat, 0, longStep)
  BY <1>1, BytesFolds
<1>6. step \in FoldStep(n, Nat) /\ longStep \in FoldStep(n + 1, Nat)
  BY <1>1, BytesFolds
<1> HIDE DEF n, step, longStep
<1>7. OneStepOn(longFold, fold, n, Nat, longStep)
  BY <1>1, <1>2, <1>4, <1>5, <1>6, FoldOneMore
<1>8. Bytes(s) \in Nat /\ Bytes(long) = Bytes(s) + NameLength(name) + 1
  BY <1>3, <1>4, <1>5, <1>7 DEF OneStepOn
<1> QED
  BY <1>8 DEF long

LEMMA NothingListed == Listed(<<>>) = <<>> /\ Bytes(<<>>) = 0
<1> DEFINE s == <<>>
<1>1. s \in Seq(DirectoryName) /\ Len(s) = 0 /\ 1..0 = {}
  OBVIOUS
<1>2. PICK f : Listed(s) = f[1..0] /\ FoldsBy(f, 0, Seq(DirectoryName), s, ListedStep(s))
  BY <1>1, ListedFolds
<1>3. PICK g : Bytes(s) = g[1..0] /\ FoldsBy(g, 0, Nat, 0, BytesStep(s))
  BY <1>1, BytesFolds
<1> QED
  BY <1>1, <1>2, <1>3 DEF FoldsBy
-----------------------------------------------------------------------------
\* The beginning of a sequence, and the names of it a guest that wants so many
\* is given.
Beginning(s, k) == SubSeq(s, 1, k)
Asked(names, most) == Beginning(names, IF most < Len(names) THEN most ELSE Len(names))

LEMMA BeginningMore ==
    ASSUME NEW S, NEW s \in Seq(S), NEW k \in Nat, k < Len(s)
    PROVE  /\ Beginning(s, k) \in Seq(S) /\ Len(Beginning(s, k)) = k
           /\ s[k + 1] \in S
           /\ Beginning(s, k + 1) = Append(Beginning(s, k), s[k + 1])
<1>1. /\ SubSeq(s, 1, k) \in Seq(S) /\ Len(SubSeq(s, 1, k)) = k
      /\ SubSeq(s, 1, k + 1) \in Seq(S) /\ Len(SubSeq(s, 1, k + 1)) = k + 1
      /\ s[k + 1] \in S
  OBVIOUS
<1>2. SubSeq(s, 1, k + 1) = Append(SubSeq(s, 1, k), s[k + 1])
  OBVIOUS
<1> QED
  BY <1>1, <1>2 DEF Beginning

LEMMA BeginningWhole ==
    ASSUME NEW S, NEW s \in Seq(S)
    PROVE  Beginning(s, Len(s)) = s /\ Beginning(s, 0) = <<>>
  BY DEF Beginning

LEMMA BeginningTwice ==
    ASSUME NEW S, NEW s \in Seq(S), NEW k \in Nat, NEW j \in 0..k, k <= Len(s)
    PROVE  /\ Beginning(s, k) \in Seq(S) /\ Len(Beginning(s, k)) = k
           /\ Beginning(Beginning(s, k), j) = Beginning(s, j)
  BY DEF Beginning

LEMMA ListedTyped ==
    ASSUME NEW s \in Seq(DirectoryName)
    PROVE  Listed(s) \in Seq(DirectoryName) /\ Bytes(s) \in Nat
<1> DEFINE n == Len(s)
           V == Seq(DirectoryName)
           none == <<>>
           listedStep == ListedStep(s)
           bytesStep == BytesStep(s)
<1>1. n \in Nat /\ none \in V /\ n \in 0..n
  OBVIOUS
<1>2. PICK f : Listed(s) = f[1..n] /\ FoldsBy(f, n, V, none, listedStep)
  BY ListedFolds
<1>3. PICK g : Bytes(s) = g[1..n] /\ FoldsBy(g, n, Nat, 0, bytesStep)
  BY BytesFolds
<1>4. listedStep \in FoldStep(n, V) /\ bytesStep \in FoldStep(n, Nat)
  BY ListedFolds, BytesFolds
<1> HIDE DEF n, V, none, listedStep, bytesStep
<1>5. FoldChains(f, n, V, none, listedStep)
  BY <1>1, <1>2, <1>4, FoldChain
<1>6. FoldChains(g, n, Nat, 0, bytesStep)
  BY <1>1, <1>3, <1>4, FoldChain
<1>7. Listed(s) \in V /\ Bytes(s) \in Nat
  BY <1>1, <1>2, <1>3, <1>5, <1>6 DEF FoldChains
<1> QED
  BY <1>7 DEF V

\* A beginning has no more bytes than the whole.
LEMMA BytesGrow ==
    ASSUME NEW s \in Seq(DirectoryName), NEW j \in 0..Len(s)
    PROVE  Bytes(Beginning(s, j)) <= Bytes(s)
<1> DEFINE T == {d \in Nat : j + d <= Len(s) =>
                     Bytes(Beginning(s, j)) <= Bytes(Beginning(s, j + d))}
<1>1. 0 \in T
  <2>1. j \in Nat /\ j <= Len(s) /\ j + 0 = j
    OBVIOUS
  <2>2. Beginning(s, j) \in Seq(DirectoryName)
    BY <2>1, BeginningTwice
  <2>3. Bytes(Beginning(s, j)) \in Nat
    BY <2>2, ListedTyped
  <2> QED
    BY <2>1, <2>3
<1>2. ASSUME NEW d \in T PROVE d + 1 \in T
  <2> DEFINE k == j + d
             prefix == Beginning(s, k)
  <2> SUFFICES ASSUME j + (d + 1) <= Len(s)
               PROVE  Bytes(Beginning(s, j)) <= Bytes(Beginning(s, j + (d + 1)))
    OBVIOUS
  <2>1. k \in Nat /\ k < Len(s) /\ j + (d + 1) = k + 1 /\ j \in Nat /\ j <= k
    OBVIOUS
  <2>2. Bytes(Beginning(s, j)) <= Bytes(prefix)
    BY <2>1
  <2>3. /\ prefix \in Seq(DirectoryName) /\ s[k + 1] \in DirectoryName
        /\ Beginning(s, k + 1) = Append(prefix, s[k + 1])
    <3> HIDE DEF k
    <3> QED
      BY <2>1, BeginningMore
  <2>4. Beginning(s, j) \in Seq(DirectoryName)
    BY <2>1, BeginningTwice
  <2> HIDE DEF prefix, k
  <2>5. /\ Bytes(Beginning(s, j)) \in Nat /\ Bytes(prefix) \in Nat
        /\ Bytes(Append(prefix, s[k + 1])) = Bytes(prefix) + NameLength(s[k + 1]) + 1
        /\ NameLength(s[k + 1]) \in Nat
    BY <2>3, <2>4, BytesMore, ListedTyped, ListingAssumption
  <2>6. Bytes(prefix) <= Bytes(Append(prefix, s[k + 1]))
    BY <2>5
  <2>7. Bytes(Beginning(s, k + 1)) = Bytes(Append(prefix, s[k + 1]))
    BY <2>3
  <2>8. Bytes(Beginning(s, k + 1)) \in Nat
    BY <2>5, <2>7
  <2>9. Bytes(Beginning(s, j)) <= Bytes(Beginning(s, k + 1))
    BY <2>2, <2>5, <2>6, <2>7, <2>8
  <2> QED
    BY <2>1, <2>9
<1>3. Len(s) - j \in T
  <2>1. T \in SUBSET Nat /\ Len(s) - j \in Nat
    OBVIOUS
  <2> HIDE DEF T
  <2> QED
    BY <1>1, <1>2, <2>1, SetInduction
<1>4. Bytes(Beginning(s, j)) <= Bytes(Beginning(s, Len(s)))
  <2>1. j + (Len(s) - j) = Len(s)
    OBVIOUS
  <2> QED
    BY <1>3, <2>1
<1> QED
  BY <1>4, BeginningWhole

\* What is listed of the first entries is the beginning of what is listed.
LEMMA ListedGrows ==
    ASSUME NEW s \in Seq(DirectoryName), NEW j \in 0..Len(s)
    PROVE  LET kept == Listed(Beginning(s, j))
           IN  /\ kept \in Seq(DirectoryName) /\ Listed(s) \in Seq(DirectoryName)
               /\ Len(kept) <= Len(Listed(s))
               /\ kept = Beginning(Listed(s), Len(kept))
<1> DEFINE kept == Listed(Beginning(s, j))
           Grown(names) == /\ names \in Seq(DirectoryName) /\ Len(kept) <= Len(names)
                           /\ kept = Beginning(names, Len(kept))
           T == {d \in Nat : j + d <= Len(s) => Grown(Listed(Beginning(s, j + d)))}
<1>0. kept \in Seq(DirectoryName)
  <2>1. Beginning(s, j) \in Seq(DirectoryName)
    BY BeginningTwice
  <2> QED
    BY <2>1, ListedTyped
<1> HIDE DEF kept
<1>1. 0 \in T
  <2>1. j + 0 = j
    OBVIOUS
  <2>2. Grown(kept)
    BY <1>0, BeginningWhole
  <2> QED
    BY <2>1, <2>2 DEF kept
<1>2. ASSUME NEW d \in T PROVE d + 1 \in T
  <2> DEFINE k == j + d
             names == Listed(Beginning(s, k))
             name == s[k + 1]
             more == Append(names, name)
  <2> SUFFICES ASSUME j + (d + 1) <= Len(s)
               PROVE  Grown(Listed(Beginning(s, j + (d + 1))))
    OBVIOUS
  <2>1. k \in Nat /\ k < Len(s) /\ j + (d + 1) = k + 1
    OBVIOUS
  <2>2. Grown(names)
    BY <2>1
  <2> HIDE DEF k
  <2>3. /\ Beginning(s, k) \in Seq(DirectoryName) /\ name \in DirectoryName
        /\ Beginning(s, k + 1) = Append(Beginning(s, k), name)
    BY <2>1, BeginningMore
  <2>4. Listed(Beginning(s, k + 1)) = IF Skipped(name) THEN names ELSE Append(names, name)
    BY <2>3, ListedMore
  <2> HIDE DEF names, name
  <2>5. Grown(more)
    <3>1. names \in Seq(DirectoryName) /\ more \in Seq(DirectoryName) /\ Len(more) = Len(names) + 1
          /\ Len(kept) \in Nat /\ Len(kept) <= Len(names)
      BY <1>0, <2>2, <2>3
    <3>2. Beginning(more, Len(names)) = names
      BY <3>1 DEF Beginning
    <3>3. Beginning(Beginning(more, Len(names)), Len(kept)) = Beginning(more, Len(kept))
      <4>1. Len(names) \in Nat /\ Len(names) <= Len(more) /\ Len(kept) \in 0..Len(names)
        BY <3>1
      <4> HIDE DEF more
      <4> QED
        BY <3>1, <4>1, BeginningTwice
    <3> QED
      BY <2>2, <3>1, <3>2, <3>3
  <2> QED
    BY <2>1, <2>2, <2>4, <2>5
<1>3. Len(s) - j \in T
  <2>1. T \in SUBSET Nat /\ Len(s) - j \in Nat
    OBVIOUS
  <2> HIDE DEF T
  <2> QED
    BY <1>1, <1>2, <2>1, SetInduction
<1>4. Grown(Listed(Beginning(s, Len(s))))
  <2>1. j + (Len(s) - j) = Len(s)
    OBVIOUS
  <2> QED
    BY <1>3, <2>1
<1>5. Grown(Listed(s))
  BY <1>4, BeginningWhole
<1> QED
  BY <1>0, <1>5 DEF kept
-----------------------------------------------------------------------------
ListingType ==
    [phase : {"none", "list", "done"}, left : Seq(DirectoryName), all : Seq(DirectoryName),
     given : Seq(DirectoryName), bytes : Nat, found : Nat, most : 0..MaxNames, size : Nat,
     named : BOOLEAN]

\* How many entries the host has been through, and what it has found there.
ListedAt == Len(listing.all) - Len(listing.left)
Found == Listed(Beginning(listing.all, ListedAt))

\* The buffer would hold all that was asked for.
Roomy == Bytes(Asked(Listed(listing.all), listing.most)) <= listing.size

\* The entries still to come are the others.
LeftOver ==
    /\ Len(listing.left) <= Len(listing.all)
    /\ listing.left = SubSeq(listing.all, ListedAt + 1, Len(listing.all))

GivenExact ==
    /\ listing.bytes = Bytes(listing.given) /\ listing.bytes <= listing.size
    /\ ~listing.named => listing.given = <<>>
    /\ listing.named /\ Roomy => listing.given = Asked(Found, listing.most)

\* The invariant of the proof: what is given is what was asked for among the
\* entries the host has been through, wherever it is.
ListingIInv ==
    /\ listing \in ListingType
    /\ listing.phase = "none" => listing = NoListing
    /\ LeftOver /\ GivenExact
    /\ listing.phase \in {"none", "list"} => listing.found = Len(Found)
    /\ listing.phase = "done" =>
          /\ listing.left = <<>>
          /\ listing.found = IF listing.named /\ Len(Found) > listing.most
                             THEN listing.most ELSE Len(Found)

LEMMA AskedNothing == ASSUME NEW most \in Nat PROVE Asked(<<>>, most) = <<>>
  BY DEF Asked, Beginning

\* Before the first entry nothing has been found, and nothing given.
Unlisted ==
    /\ listing \in ListingType /\ listing.left = listing.all /\ listing.given = <<>>
    /\ listing.bytes = 0 /\ listing.found = 0 /\ listing.phase \in {"none", "list"}
    /\ listing.phase = "none" => listing = NoListing

LEMMA NothingYet == Unlisted => ListingIInv
<1> SUFFICES ASSUME Unlisted PROVE ListingIInv
  OBVIOUS
<1> USE DEF Unlisted
<1>1. /\ listing.all \in Seq(DirectoryName) /\ listing.most \in Nat /\ listing.size \in Nat
  BY ListingAssumption DEF ListingType
<1>2. Len(listing.all) \in Nat /\ ListedAt = 0
  BY <1>1 DEF ListedAt
<1>3. Found = <<>> /\ Len(Found) = 0
  BY <1>1, <1>2, BeginningWhole, NothingListed DEF Found
<1>4. SubSeq(listing.all, 1, Len(listing.all)) = listing.all
  BY <1>1
<1>5. LeftOver
  BY <1>2, <1>4 DEF LeftOver
<1>6. GivenExact
  BY <1>1, <1>3, AskedNothing, NothingListed DEF GivenExact
<1> QED
  BY <1>3, <1>5, <1>6 DEF ListingIInv

LEMMA NothingYetNext == Unlisted' => ListingIInv'
  BY NothingYet, PTL

LEMMA ListingInitial == ListingInit => ListingIInv
<1> SUFFICES ASSUME ListingInit PROVE ListingIInv
  OBVIOUS
<1>1. listing = NoListing
  BY DEF ListingInit
<1>2. /\ listing \in ListingType /\ listing.left = listing.all /\ listing.given = <<>>
      /\ listing.bytes = 0 /\ listing.found = 0 /\ listing.phase = "none"
  BY <1>1, ListingAssumption DEF NoListing, ListingType
<1> QED
  BY <1>1, <1>2, NothingYet DEF Unlisted

\* A directory's entries, in whatever order.
LEMMA Entries == SetToSeqs(DirectoryName) \subseteq Seq(DirectoryName)
<1>1. Cardinality(DirectoryName) \in Nat
  BY ListingAssumption, FS_CardinalityType
<1> QED
  BY <1>1 DEF SetToSeqs

LEMMA BeginKeeps ==
    ASSUME NEW entries \in Seq(DirectoryName), NEW named \in BOOLEAN,
           NEW most \in 0..MaxNames, NEW size \in Nat,
           BeginListing(entries, named, most, size)
    PROVE  ListingIInv'
<1>1. listing' = [NoListing EXCEPT !.phase = "list", !.left = entries, !.all = entries,
                                   !.named = named, !.most = most, !.size = size]
  BY DEF BeginListing
<1>2. listing' = [phase |-> "list", left |-> entries, all |-> entries, given |-> <<>>,
                  bytes |-> 0, found |-> 0, most |-> most, size |-> size, named |-> named]
  BY <1>1 DEF NoListing
<1>3. /\ listing' \in ListingType /\ listing'.left = listing'.all /\ listing'.given = <<>>
      /\ listing'.bytes = 0 /\ listing'.found = 0 /\ listing'.phase = "list"
  BY <1>2 DEF ListingType
<1>4. Unlisted'
  BY <1>3 DEF Unlisted
<1> QED
  BY <1>4, NothingYetNext

\* The step of a listing over the entry at hand.
LEMMA EntryAtHand ==
    ASSUME ListingIInv, listing.left # <<>>
    PROVE  /\ listing.all \in Seq(DirectoryName) /\ ListedAt \in Nat /\ ListedAt < Len(listing.all)
           /\ Head(listing.left) = listing.all[ListedAt + 1]
           /\ Head(listing.left) \in DirectoryName
           /\ Tail(listing.left) = SubSeq(listing.all, ListedAt + 2, Len(listing.all))
           /\ Len(Tail(listing.left)) = Len(listing.left) - 1
           /\ Tail(listing.left) \in Seq(DirectoryName)
<1> DEFINE all == listing.all
           left == listing.left
<1>1. all \in Seq(DirectoryName) /\ left \in Seq(DirectoryName)
  BY DEF ListingIInv, ListingType
<1>2. Len(left) <= Len(all) /\ left = SubSeq(all, ListedAt + 1, Len(all)) /\ ListedAt = Len(all) - Len(left)
  BY DEF ListingIInv, LeftOver, ListedAt
<1>3. left # <<>>
  OBVIOUS
<1> HIDE DEF all, left
<1>4. Len(left) \in Nat /\ Len(left) > 0 /\ Len(all) \in Nat
  BY <1>1, <1>3
<1>5. ListedAt \in Nat /\ ListedAt < Len(all)
  BY <1>2, <1>4
<1>6. /\ Len(Tail(left)) = Len(left) - 1 /\ Tail(left) \in Seq(DirectoryName)
      /\ Head(left) \in DirectoryName
  BY <1>1, <1>3, HeadTailProperties
<1>7. ListedAt + 1 \in 1..Len(all) /\ Len(all) \in (ListedAt + 1)..Len(all) /\ (ListedAt + 1) + 1 = ListedAt + 2
  BY <1>4, <1>5
<1>8. Head(left) = all[ListedAt + 1] /\ Tail(left) = SubSeq(all, ListedAt + 2, Len(all))
  BY <1>1, <1>2, <1>7, HeadTailOfSubSeq
<1> QED
  BY <1>1, <1>5, <1>6, <1>8 DEF all, left

\* Of the names asked for, those kept so far and the next.
LEMMA AskedFurther ==
    ASSUME NEW kept \in Seq(DirectoryName), NEW name \in DirectoryName, NEW most \in Nat
    PROVE  /\ Len(kept) < most =>
                 /\ Asked(kept, most) = kept
                 /\ Asked(Append(kept, name), most) = Append(kept, name)
           /\ Len(kept) >= most => Asked(Append(kept, name), most) = Asked(kept, most)
<1> DEFINE more == Append(kept, name)
<1>1. more \in Seq(DirectoryName) /\ Len(more) = Len(kept) + 1 /\ Len(kept) \in Nat
      /\ Beginning(more, Len(kept)) = kept
  BY DEF Beginning
<1> HIDE DEF more
<1>2. ASSUME Len(kept) < most
      PROVE  Asked(kept, most) = kept /\ Asked(more, most) = more
  <2>1. ~(most < Len(kept)) /\ ~(most < Len(more))
    BY <1>1, <1>2
  <2> QED
    BY <1>1, <2>1, BeginningWhole DEF Asked
<1>3. ASSUME Len(kept) >= most
      PROVE  Asked(more, most) = Asked(kept, most)
  <2>1. most < Len(more) /\ (most < Len(kept) \/ most = Len(kept))
        /\ most \in 0..Len(kept) /\ Len(kept) <= Len(more)
    BY <1>1, <1>3
  <2>2. Beginning(Beginning(more, Len(kept)), most) = Beginning(more, most)
    BY <1>1, <2>1, BeginningTwice
  <2>3. Asked(more, most) = Beginning(more, most) /\ Asked(kept, most) = Beginning(kept, most)
    BY <2>1 DEF Asked
  <2> QED
    BY <1>1, <2>2, <2>3
<1> QED
  BY <1>2, <1>3 DEF more

\* A name that does not fit although fewer were found than were asked for: then
\* the buffer does not hold all that was asked for.
LEMMA RoomForNext ==
    ASSUME NEW names \in Seq(DirectoryName), NEW kept \in Seq(DirectoryName),
           NEW name \in DirectoryName, NEW most \in Nat, NEW size \in Nat,
           Len(kept) < most, Len(Append(kept, name)) <= Len(names),
           Append(kept, name) = Beginning(names, Len(Append(kept, name))),
           Bytes(Asked(names, most)) <= size
    PROVE  Bytes(kept) + NameLength(name) + 1 <= size
<1> DEFINE more == Append(kept, name)
           n == IF most < Len(names) THEN most ELSE Len(names)
           asked == Beginning(names, n)
<1>1. /\ more \in Seq(DirectoryName) /\ Len(more) = Len(kept) + 1 /\ Len(kept) \in Nat
      /\ Len(names) \in Nat
  OBVIOUS
<1>2. Bytes(more) = Bytes(kept) + NameLength(name) + 1
  BY BytesMore
<1>3. more = Beginning(names, Len(more)) /\ Len(more) <= Len(names)
  OBVIOUS
<1>4. Bytes(asked) <= size
  BY DEF Asked
<1> HIDE DEF more
<1>5. n \in Nat /\ n <= Len(names) /\ Len(more) \in 0..n
  BY <1>1, <1>3
<1> HIDE DEF n
<1>6. asked \in Seq(DirectoryName) /\ Len(asked) = n /\ Beginning(asked, Len(more)) = more
  BY <1>3, <1>5, BeginningTwice
<1> HIDE DEF asked
<1>7. Bytes(Beginning(asked, Len(more))) <= Bytes(asked)
  BY <1>5, <1>6, BytesGrow
<1>8. Bytes(more) \in Nat /\ Bytes(asked) \in Nat
  BY <1>1, <1>6, ListedTyped
<1>9. Bytes(more) <= size
  BY <1>4, <1>6, <1>7, <1>8
<1> QED
  BY <1>2, <1>9

LEMMA ListEntryKeeps == ListingIInv /\ ListEntry => ListingIInv'
<1> SUFFICES ASSUME ListingIInv, ListEntry PROVE ListingIInv'
  OBVIOUS
<1> DEFINE name == Head(listing.left)
           taken == ~Skipped(name) /\ Fits(name)
           names == Listed(listing.all)
           more == Append(Found, name)
<1>1. /\ listing \in ListingType /\ LeftOver /\ GivenExact /\ listing.phase = "list"
      /\ listing.found = Len(Found) /\ listing.left # <<>>
  BY DEF ListingIInv, ListEntry
<1>2. /\ listing.all \in Seq(DirectoryName) /\ ListedAt \in Nat /\ ListedAt < Len(listing.all)
      /\ name = listing.all[ListedAt + 1] /\ name \in DirectoryName
      /\ Tail(listing.left) = SubSeq(listing.all, ListedAt + 2, Len(listing.all))
      /\ Len(Tail(listing.left)) = Len(listing.left) - 1
      /\ Tail(listing.left) \in Seq(DirectoryName)
  BY <1>1, EntryAtHand
<1>3. /\ listing.left \in Seq(DirectoryName) /\ listing.given \in Seq(DirectoryName)
      /\ listing.bytes \in Nat /\ listing.found \in Nat /\ listing.size \in Nat
      /\ listing.most \in Nat /\ listing.named \in BOOLEAN /\ NameLength(name) \in Nat
      /\ Len(listing.left) \in Nat /\ Len(listing.all) \in Nat
  <2>1. NameLength(name) \in Nat
    BY <1>2, ListingAssumption
  <2>2. /\ listing.left \in Seq(DirectoryName) /\ listing.given \in Seq(DirectoryName)
        /\ listing.bytes \in Nat /\ listing.found \in Nat /\ listing.size \in Nat
        /\ listing.most \in Nat /\ listing.named \in BOOLEAN
        /\ listing.all \in Seq(DirectoryName)
    BY <1>1, ListingAssumption DEF ListingType
  <2>3. Len(listing.left) \in Nat /\ Len(listing.all) \in Nat
    BY <2>2
  <2> QED
    BY <2>1, <2>2, <2>3
<1> DEFINE given == IF taken THEN Append(listing.given, name) ELSE listing.given
           bytes == IF taken THEN listing.bytes + NameLength(name) + 1 ELSE listing.bytes
           found == IF Skipped(name) THEN listing.found ELSE listing.found + 1
<1>4. listing' = [listing EXCEPT !.left = Tail(listing.left), !.found = found,
                                 !.given = given, !.bytes = bytes]
  BY <1>1 DEF ListEntry, ListingType
<1>5. given \in Seq(DirectoryName) /\ bytes \in Nat /\ found \in Nat
  <2>1. name \in DirectoryName
    BY <1>2
  <2> HIDE DEF name, taken
  <2>2. Append(listing.given, name) \in Seq(DirectoryName)
    BY <1>3, <2>1, AppendProperties
  <2>3. bytes \in Nat /\ found \in Nat
    BY <1>3
  <2> QED
    BY <1>3, <2>2, <2>3
<1> HIDE DEF given, bytes, found, name
<1>6. /\ listing' \in ListingType /\ listing'.left = Tail(listing.left)
      /\ listing'.found = found /\ listing'.given = given /\ listing'.bytes = bytes
      /\ listing'.phase = "list" /\ listing'.all = listing.all
      /\ listing'.most = listing.most /\ listing'.size = listing.size
      /\ listing'.named = listing.named
  BY <1>1, <1>2, <1>4, <1>5 DEF ListingType
<1>7. ListedAt' = ListedAt + 1
  <2>1. Len(listing'.all) = Len(listing.all) /\ Len(listing'.left) = Len(listing.left) - 1
    BY <1>2, <1>6
  <2>2. ListedAt' = Len(listing'.all) - Len(listing'.left)
    BY DEF ListedAt
  <2>3. Len(listing.all) - (Len(listing.left) - 1) = Len(listing.all) - Len(listing.left) + 1
    BY <1>3
  <2> QED
    BY <2>1, <2>2, <2>3 DEF ListedAt
<1>8. LeftOver'
  <2>1. Len(listing.left) <= Len(listing.all)
    BY <1>1 DEF LeftOver
  <2>2. Len(Tail(listing.left)) <= Len(listing.all)
    BY <1>2, <1>3, <2>1
  <2>3. (ListedAt + 1) + 1 = ListedAt + 2
    BY <1>2
  <2> QED
    BY <1>2, <1>6, <1>7, <2>2, <2>3 DEF LeftOver
<1>9. Found \in Seq(DirectoryName) /\ Found' = IF Skipped(name) THEN Found ELSE more
  <2>1. /\ Beginning(listing.all, ListedAt) \in Seq(DirectoryName)
        /\ Beginning(listing.all, ListedAt + 1) = Append(Beginning(listing.all, ListedAt), name)
    BY <1>2, BeginningMore
  <2>2. Found' = Listed(Beginning(listing.all, ListedAt + 1))
    BY <1>6, <1>7 DEF Found
  <2> QED
    BY <1>2, <2>1, <2>2, ListedMore DEF Found
<1>10. listing'.found = Len(Found')
  BY <1>1, <1>2, <1>6, <1>9 DEF found
<1>11. Roomy' <=> Roomy
  BY <1>6 DEF Roomy
<1>12. Found \in Seq(DirectoryName) /\ name \in DirectoryName /\ listing.most \in Nat
  BY <1>2, <1>3, <1>9
<1>13. GivenExact'
  <2>1. CASE Skipped(name)
    <3>1. given = listing.given /\ bytes = listing.bytes /\ Found' = Found
      BY <1>9, <2>1 DEF given, bytes
    <3> QED
      BY <1>1, <1>6, <1>11, <3>1 DEF GivenExact
  <2>2. CASE ~Skipped(name) /\ Fits(name)
    <3>1. /\ given = Append(listing.given, name)
          /\ bytes = listing.bytes + NameLength(name) + 1 /\ Found' = more
      BY <1>9, <2>2 DEF given, bytes
    <3>2. listing.named /\ listing.found < listing.most /\ bytes <= listing.size
      BY <2>2, <3>1 DEF Fits
    <3>3. bytes = Bytes(given)
      BY <1>1, <1>2, <1>3, <3>1, BytesMore DEF GivenExact
    <3>4. ASSUME Roomy PROVE given = Asked(more, listing.most)
      <4>0. Len(Found) < listing.most
        BY <1>1, <3>2
      <4>1. Asked(Found, listing.most) = Found /\ Asked(more, listing.most) = more
        BY <1>12, <4>0, AskedFurther
      <4>2. listing.given = Found
        BY <1>1, <3>2, <3>4, <4>1 DEF GivenExact
      <4> QED
        BY <3>1, <4>1, <4>2
    <3> QED
      BY <1>6, <1>11, <3>1, <3>2, <3>3, <3>4 DEF GivenExact
  <2>3. CASE ~Skipped(name) /\ ~Fits(name)
    <3>1. given = listing.given /\ bytes = listing.bytes /\ Found' = more
      BY <1>9, <2>3 DEF given, bytes
    <3>2. ASSUME Roomy, listing.named PROVE given = Asked(more, listing.most)
      <4>1. listing.given = Asked(Found, listing.most) /\ listing.bytes = Bytes(listing.given)
        BY <1>1, <3>2 DEF GivenExact
      <4>2. CASE listing.found >= listing.most
        <5>1. Len(Found) >= listing.most
          BY <1>1, <4>2
        <5>2. Asked(more, listing.most) = Asked(Found, listing.most)
          BY <1>12, <5>1, AskedFurther
        <5> QED
          BY <3>1, <4>1, <5>2
      <4>3. CASE listing.found < listing.most
        <5>1. listing.bytes + NameLength(name) + 1 > listing.size
          BY <1>3, <2>3, <3>2, <4>3 DEF Fits
        <5>2. Asked(Found, listing.most) = Found
          <6>1. Len(Found) < listing.most
            BY <1>1, <4>3
          <6> QED
            BY <1>12, <6>1, AskedFurther
        <5>3. /\ more = Listed(Beginning(listing.all, ListedAt + 1))
              /\ ListedAt + 1 \in 0..Len(listing.all)
          BY <1>2, <1>3, <1>6, <1>7, <3>1 DEF Found
        <5>4. /\ names \in Seq(DirectoryName) /\ Len(more) <= Len(names)
              /\ more = Beginning(names, Len(more))
          BY <1>2, <5>3, ListedGrows
        <5>5. Bytes(Asked(names, listing.most)) <= listing.size
          BY <3>2 DEF Roomy
        <5>6. Len(Found) < listing.most
          BY <1>1, <4>3
        <5> HIDE DEF names
        <5>7. Bytes(Found) + NameLength(name) + 1 <= listing.size
          BY <1>2, <1>3, <1>9, <5>4, <5>5, <5>6, RoomForNext
        <5>8. Bytes(Found) = listing.bytes
          BY <4>1, <5>2
        <5> QED
          BY <1>3, <5>1, <5>7, <5>8
      <4> QED
        BY <1>3, <4>2, <4>3
    <3> QED
      BY <1>1, <1>6, <1>11, <3>1, <3>2 DEF GivenExact
  <2> QED
    BY <2>1, <2>2, <2>3
<1> QED
  BY <1>6, <1>8, <1>10, <1>13 DEF ListingIInv

LEMMA EndListingKeeps == ListingIInv /\ EndListing => ListingIInv'
<1> SUFFICES ASSUME ListingIInv, EndListing PROVE ListingIInv'
  OBVIOUS
<1> DEFINE found == IF listing.named /\ listing.found > listing.most
                    THEN listing.most ELSE listing.found
<1>1. /\ listing \in ListingType /\ LeftOver /\ GivenExact /\ listing.found = Len(Found)
      /\ listing.left = <<>> /\ listing' = [listing EXCEPT !.phase = "done", !.found = found]
  BY DEF ListingIInv, EndListing, ListingType
<1>2. found \in Nat
  BY <1>1, ListingAssumption DEF ListingType
<1>3. found = IF listing.named /\ Len(Found) > listing.most THEN listing.most ELSE Len(Found)
  BY <1>1
<1> HIDE DEF found
<1>4. /\ listing' \in ListingType /\ listing'.left = listing.left
      /\ listing'.found = found /\ listing'.given = listing.given
      /\ listing'.bytes = listing.bytes /\ listing'.phase = "done"
      /\ listing'.all = listing.all /\ listing'.most = listing.most
      /\ listing'.size = listing.size /\ listing'.named = listing.named
  BY <1>1, <1>2 DEF ListingType
<1>5. ListedAt' = ListedAt /\ Found' = Found /\ (Roomy' <=> Roomy)
  BY <1>4 DEF ListedAt, Found, Roomy
<1>6. LeftOver' /\ GivenExact'
  BY <1>1, <1>4, <1>5 DEF LeftOver, GivenExact
<1> QED
  BY <1>1, <1>3, <1>4, <1>5, <1>6 DEF ListingIInv

LEMMA ListingStep == ListingIInv /\ [ListingNext]_listing => ListingIInv'
<1> SUFFICES ASSUME ListingIInv, [ListingNext]_listing PROVE ListingIInv'
  OBVIOUS
<1>1. ASSUME NEW entries \in SetToSeqs(DirectoryName), NEW named \in BOOLEAN,
             NEW most \in 0..MaxNames, NEW size \in BufferSize,
             BeginListing(entries, named, most, size)
      PROVE  ListingIInv'
  <2>1. entries \in Seq(DirectoryName) /\ size \in Nat
    BY Entries, ListingAssumption
  <2> QED
    BY <1>1, <2>1, BeginKeeps
<1>2. CASE UNCHANGED listing
  BY <1>2 DEF ListingIInv, ListingType, LeftOver, GivenExact, ListedAt, Found, Roomy
<1> QED
  BY <1>1, <1>2, ListEntryKeeps, EndListingKeeps DEF ListingNext

\* The invariant of the proof.
THEOREM ListingInvariance == ListingSpec => []ListingIInv
  BY ListingInitial, ListingStep, PTL DEF ListingSpec

\* The count, the bytes and the limits of a listing keep their ranges.
THEOREM ListingTypeCorrect == ListingSpec => []ListingTypeOK
<1>1. ListingIInv => ListingTypeOK
  BY DEF ListingIInv, ListingType, ListingTypeOK
<1> QED
  BY <1>1, ListingInvariance, PTL

\* For any directory and any buffer: no listing is longer than the buffer, and one
\* that has room for the names asked for gives exactly these and their number.
THEOREM ListingsAreExact == ListingSpec => []ListingExact
<1>1. ListingIInv => ListingExact
  <2> SUFFICES ASSUME ListingIInv PROVE ListingExact
    OBVIOUS
  <2> DEFINE names == Listed(listing.all)
             asked == Asked(names, listing.most)
  <2>1. /\ listing \in ListingType /\ LeftOver /\ GivenExact
        /\ listing.all \in Seq(DirectoryName) /\ listing.most \in Nat
        /\ listing.named \in BOOLEAN
    BY ListingAssumption DEF ListingIInv, ListingType
  <2>2. names \in Seq(DirectoryName)
    BY <2>1, ListedTyped
  <2>3. Bytes(listing.given) <= listing.size
    BY <2>1 DEF GivenExact
  <2>4. ASSUME listing.phase = "done"
        PROVE  /\ Found = names
               /\ listing.found = IF listing.named /\ Len(names) > listing.most
                                  THEN listing.most ELSE Len(names)
    <3>1. listing.left = <<>> /\ Len(listing.all) \in Nat
      BY <2>1, <2>4 DEF ListingIInv
    <3>2. ListedAt = Len(listing.all)
      BY <3>1 DEF ListedAt
    <3>3. Found = names
      BY <2>1, <3>2, BeginningWhole DEF Found
    <3> QED
      BY <2>4, <3>3 DEF ListingIInv
  <2> HIDE DEF names
  <2>5. ASSUME listing.phase = "done", listing.named, Bytes(asked) <= listing.size
        PROVE  listing.given = asked /\ listing.found = Len(asked)
    <3>1. listing.given = asked
      BY <2>1, <2>4, <2>5 DEF GivenExact, Roomy, names
    <3>2. Len(asked) = IF listing.most < Len(names) THEN listing.most ELSE Len(names)
      BY <2>1, <2>2 DEF Asked, Beginning
    <3>3. listing.found = IF Len(names) > listing.most THEN listing.most ELSE Len(names)
      BY <2>4, <2>5
    <3> QED
      BY <2>1, <2>2, <3>1, <3>2, <3>3
  <2>6. ASSUME listing.phase = "done", ~listing.named
        PROVE  listing.given = <<>> /\ listing.found = Len(names)
    BY <2>1, <2>4, <2>6 DEF GivenExact
  <2> QED
    BY <2>3, <2>5, <2>6 DEF ListingExact, Asked, Beginning, names
<1> QED
  BY <1>1, ListingInvariance, PTL
-----------------------------------------------------------------------------
(* The tables of the disc: the parser's stack.                             *)

OpenDirectory == [dir : Index, end : Nat]

\* What the parser has at hand: at the bottom of its stack, always, the root.
Parse(count) ==
    {p \in [ok : BOOLEAN, parents : Seq(Index), stack : Seq(OpenDirectory)] :
        p.stack # <<>> /\ p.stack[1] = [dir |-> 0, end |-> count]}

LEMMA EntryTyped ==
    ASSUME fst \in [Index -> EntryType], NEW i \in Index
    PROVE  /\ fst[i].dir \in BOOLEAN /\ fst[i].name \in FstName
           /\ fst[i].first \in Nat /\ fst[i].second \in Nat
<1>1. fst[i] \in EntryType
  OBVIOUS
<1>2. ParentNumber \subseteq Nat /\ NextNumber \subseteq Nat
      /\ WordNumber \subseteq Nat /\ SizeNumber \subseteq Nat
  BY FstAssumption
<1> DEFINE entry == fst[i]
<1> HIDE DEF entry
<1>3. ASSUME entry \in [dir : {TRUE}, name : FstName, first : ParentNumber, second : NextNumber]
      PROVE  /\ entry.dir \in BOOLEAN /\ entry.name \in FstName
             /\ entry.first \in Nat /\ entry.second \in Nat
  BY <1>2, <1>3
<1>4. ASSUME entry \in [dir : {FALSE}, name : FstName, first : WordNumber, second : SizeNumber]
      PROVE  /\ entry.dir \in BOOLEAN /\ entry.name \in FstName
             /\ entry.first \in Nat /\ entry.second \in Nat
  BY <1>2, <1>4
<1> QED
  BY <1>1, <1>3, <1>4 DEF EntryType, entry

LEMMA FrameTyped ==
    ASSUME NEW frame \in OpenDirectory
    PROVE  frame.dir \in Index /\ frame.dir \in Nat /\ frame.end \in Nat
<1>1. frame.dir \in Index /\ frame.end \in Nat
  BY DEF OpenDirectory
<1>2. Index \subseteq Nat
  BY FstAssumption DEF Index
<1> QED
  BY <1>1, <1>2

\* The beginning of a sequence.
LEMMA FirstPart ==
    ASSUME NEW S, NEW s \in Seq(S), NEW m \in 1 .. Len(s)
    PROVE  /\ SubSeq(s, 1, m) \in Seq(S) /\ Len(SubSeq(s, 1, m)) = m
           /\ \A i \in 1 .. m : SubSeq(s, 1, m)[i] = s[i]
           /\ SubSeq(s, 1, m) # <<>> /\ Last(SubSeq(s, 1, m)) = s[m]
<1>1. Len(s) \in Nat /\ m \in Nat /\ m <= Len(s) /\ 1 <= m
  OBVIOUS
<1>2. SubSeq(s, 1, m) \in Seq(S)
  BY <1>1
<1>3. Len(SubSeq(s, 1, m)) = m /\ \A i \in 1 .. m : SubSeq(s, 1, m)[i] = s[i]
  BY <1>1
<1>4. m \in 1 .. m
  BY <1>1
<1>5. Last(SubSeq(s, 1, m)) = s[m]
  BY <1>3, <1>4 DEF Last
<1>6. SubSeq(s, 1, m) # <<>>
  BY <1>1, <1>3
<1> QED
  BY <1>2, <1>3, <1>5, <1>6

\* The directories that end before an index come off the top: down to the
\* highest that does not.
Uncovered(stack, index, m) ==
    /\ m \in 1 .. Len(stack)
    /\ stack[m].end > index
    /\ \A l \in 1 .. Len(stack) : stack[l].end > index => l <= m
    /\ Unstacked(stack, index) = SubSeq(stack, 1, m)

LEMMA UnstackedTop ==
    ASSUME NEW stack \in Seq(OpenDirectory), stack # <<>>, NEW index \in Nat, stack[1].end > index
    PROVE  \E m \in 1 .. Len(stack) : Uncovered(stack, index, m)
<1> DEFINE open == {k \in 1 .. Len(stack) : stack[k].end > index}
<1>1. Len(stack) \in Nat /\ 1 \in 1 .. Len(stack) /\ DOMAIN stack = 1 .. Len(stack)
  OBVIOUS
<1>2. open \in SUBSET (1 .. Len(stack)) /\ 1 \in open
  BY <1>1
<1>3. Max(open) \in open /\ \A l \in open : Max(open) >= l
  <2> HIDE DEF open
  <2> QED
    BY <1>1, <1>2, Greatest
<1> DEFINE m == CHOOSE k \in open : \A l \in open : l <= k
<1>4. m \in open /\ \A l \in open : l <= m
  <2>1. \E k \in open : \A l \in open : l <= k
    <3>1. \A l \in open : l \in Nat /\ l <= Max(open)
      BY <1>3
    <3> QED
      BY <1>3, <3>1
  <2> QED
    BY <2>1
<1>5. Unstacked(stack, index) = SubSeq(stack, 1, m)
  BY <1>1, <1>2 DEF Unstacked
<1> HIDE DEF m
<1> QED
  BY <1>4, <1>5 DEF Uncovered

\* What an entry does to the parse, with the stack it finds.
Enclosed(parse, index, count, stack) ==
    [ok |-> fst[index].dir => fst[index].first = Last(stack).dir /\ fst[index].second > index
                              /\ fst[index].second <= count
                              /\ fst[index].second <= Last(stack).end,
     parents |-> Append(parse.parents, Last(stack).dir),
     stack |-> IF fst[index].dir
               THEN Append(stack, [dir |-> index, end |-> fst[index].second])
               ELSE stack]

LEMMA IndexEntryIs ==
    ASSUME NEW parse, NEW index, NEW count
    PROVE  IndexEntry(parse, index, count)
             = IF ~parse.ok THEN parse
               ELSE Enclosed(parse, index, count, Unstacked(parse.stack, index))
  BY DEF IndexEntry, Enclosed

\* A directory goes on top of the stack.
LEMMA Pushed ==
    ASSUME NEW S, NEW s \in Seq(S), NEW x \in S
    PROVE  /\ Append(s, x) \in Seq(S) /\ Len(Append(s, x)) = Len(s) + 1
           /\ \A i \in 1 .. Len(s) : Append(s, x)[i] = s[i]
           /\ Append(s, x)[Len(s) + 1] = x /\ Append(s, x) # <<>>
  OBVIOUS

LEMMA EntryKeepsParse ==
    ASSUME fst \in [Index -> EntryType], NEW count \in 1 .. FstLength,
           NEW parse \in Parse(count), NEW index \in 1 .. count - 1
    PROVE  IndexEntry(parse, index, count) \in Parse(count)
<1>1. /\ parse.ok \in BOOLEAN /\ parse.parents \in Seq(Index) /\ parse.stack \in Seq(OpenDirectory)
      /\ parse.stack # <<>> /\ parse.stack[1] = [dir |-> 0, end |-> count]
  BY DEF Parse
<1>2. index \in Nat /\ count > index /\ index \in Index
  BY FstAssumption DEF Index
<1>3. PICK m \in 1 .. Len(parse.stack) : Uncovered(parse.stack, index, m)
  <2>1. parse.stack[1].end > index
    BY <1>1, <1>2
  <2> QED
    BY <1>1, <1>2, <2>1, UnstackedTop
<1> DEFINE stack == SubSeq(parse.stack, 1, m)
           next == Enclosed(parse, index, count, stack)
<1>4. /\ stack \in Seq(OpenDirectory) /\ stack # <<>> /\ Last(stack) = parse.stack[m] /\ Len(stack) = m
      /\ \A i \in 1 .. m : stack[i] = parse.stack[i]
  <2> DEFINE whole == parse.stack
  <2>1. whole \in Seq(OpenDirectory) /\ m \in 1 .. Len(whole)
    BY <1>1, <1>3
  <2> HIDE DEF whole, next
  <2> QED
    BY <2>1, FirstPart DEF whole
<1> HIDE DEF stack
<1>5. stack[1] = [dir |-> 0, end |-> count] /\ 1 \in 1 .. Len(stack)
  BY <1>1, <1>4
<1>6. Last(stack) \in OpenDirectory /\ Last(stack).dir \in Index
  <2>1. Last(stack) \in OpenDirectory
    BY <1>1, <1>4
  <2> QED
    BY <2>1 DEF OpenDirectory
<1>7. [dir |-> index, end |-> fst[index].second] \in OpenDirectory
  <2>1. fst[index].second \in Nat
    BY <1>2, EntryTyped
  <2> QED
    BY <1>2, <2>1 DEF OpenDirectory
<1> DEFINE taller == Append(stack, [dir |-> index, end |-> fst[index].second])
<1>8. taller \in Seq(OpenDirectory) /\ taller # <<>> /\ taller[1] = [dir |-> 0, end |-> count]
  BY <1>4, <1>5, <1>7, Pushed
<1> HIDE DEF taller
<1>9. Append(parse.parents, Last(stack).dir) \in Seq(Index)
  BY <1>1, <1>6
<1>10. next \in Parse(count)
  <2> DEFINE ok == fst[index].dir => fst[index].first = Last(stack).dir
                      /\ fst[index].second > index /\ fst[index].second <= count
                      /\ fst[index].second <= Last(stack).end
             parents == Append(parse.parents, Last(stack).dir)
             top == IF fst[index].dir THEN taller ELSE stack
  <2>1. next = [ok |-> ok, parents |-> parents, stack |-> top]
    BY DEF Enclosed, taller
  <2>2. ok \in BOOLEAN
    OBVIOUS
  <2>3. top \in Seq(OpenDirectory) /\ top # <<>> /\ top[1] = [dir |-> 0, end |-> count]
    BY <1>4, <1>5, <1>8
  <2> HIDE DEF ok, parents, top, next
  <2> QED
    BY <1>9, <2>1, <2>2, <2>3 DEF Parse, parents
<1> HIDE DEF next
<1>11. IndexEntry(parse, index, count) = IF ~parse.ok THEN parse ELSE next
  BY <1>3, IndexEntryIs DEF Uncovered, next, stack
<1> QED
  BY <1>10, <1>11

\* parse_fst's loop, entry by entry.
Unparsed(count) == [ok |-> TRUE, parents |-> <<>>, stack |-> <<[dir |-> 0, end |-> count]>>]

LEMMA ParseChain ==
    ASSUME fst \in [Index -> EntryType], NEW count \in 1 .. FstLength
    PROVE  \E f \in [0 .. count - 1 -> Parse(count)] :
              /\ f[0] = Unparsed(count)
              /\ \A k \in 0 .. count - 2 : f[k + 1] = IndexEntry(f[k], k + 1, count)
              /\ Indexed(count) = f[count - 1]
<1> DEFINE n == count - 1
           V == Parse(count)
           base == Unparsed(count)
           positions == [i \in 1 .. n |-> i]
           Body(g, s) ==
              IF s = {} THEN base
              ELSE IndexEntry(g[s \ {Max(s)}], positions[Max(s)], count)
           fold == CHOOSE g : g = [s \in SUBSET (1 .. n) |-> Body(g, s)]
           step == [p \in (1 .. n) \X V |-> IndexEntry(p[2], p[1], count)]
<1>1. n \in Nat /\ DOMAIN positions = 1 .. n
  BY FstAssumption
<1>2. Indexed(count) = fold[1 .. n]
  BY <1>1 DEF Indexed, FoldLeft, MapThenFoldSet, Unparsed
<1>3. step \in FoldStep(n, V)
  <2>1. ASSUME NEW parse \in V, NEW index \in 1 .. n PROVE IndexEntry(parse, index, count) \in V
    BY EntryKeepsParse
  <2> HIDE DEF V, n
  <2> QED
    BY <2>1 DEF FoldStep
<1>4. base \in V
  <2>1. 0 \in Index /\ count \in Nat
    BY FstAssumption DEF Index
  <2>2. [dir |-> 0, end |-> count] \in OpenDirectory
    BY <2>1 DEF OpenDirectory
  <2> DEFINE root == [dir |-> 0, end |-> count]
  <2> HIDE DEF root
  <2>3. root \in OpenDirectory => <<root>> \in Seq(OpenDirectory) /\ <<root>> # <<>> /\ <<root>>[1] = root
    OBVIOUS
  <2>4. <<>> \in Seq(Index)
    OBVIOUS
  <2> DEFINE stack == <<root>>
             parents == <<>>
  <2> HIDE DEF stack, parents
  <2>5. stack \in Seq(OpenDirectory) /\ stack # <<>> /\ stack[1] = [dir |-> 0, end |-> count]
        /\ parents \in Seq(Index)
    BY <2>2, <2>3, <2>4 DEF stack, parents, root
  <2>6. [ok |-> TRUE, parents |-> parents, stack |-> stack] \in Parse(count)
    BY <2>5 DEF Parse
  <2> QED
    BY <2>6 DEF Unparsed, parents, stack, root
<1> HIDE DEF base, V
<1>5. PICK h : FoldOf(h, n, V, base, step)
  <2> HIDE DEF step, n
  <2> QED
    BY <1>1, <1>3, <1>4, FoldExists
<1>6. ASSUME NEW s \in SUBSET (1 .. n), s # {}
      PROVE  Max(s) \in 1 .. n /\ positions[Max(s)] = Max(s)
  BY <1>1, <1>6, Greatest
<1>7. ASSUME NEW s \in SUBSET (1 .. n), NEW v \in V, s # {}
      PROVE  step[<<Max(s), v>>] = IndexEntry(v, positions[Max(s)], count)
  BY <1>6, <1>7
<1> HIDE DEF step, positions
<1>8. fold = [s \in SUBSET (1 .. n) |-> Body(fold, s)]
  <2>1. ASSUME NEW s \in SUBSET (1 .. n) PROVE h[s] = Body(h, s)
    <3>1. CASE s = {}
      BY <1>5, <3>1 DEF FoldOf
    <3>2. CASE s # {}
      <4>1. h[s \ {Max(s)}] \in V
        BY <1>5 DEF FoldOf
      <4>2. h[s] = step[<<Max(s), h[s \ {Max(s)}]>>]
        BY <1>5, <3>2 DEF FoldOf
      <4> QED
        BY <1>7, <3>2, <4>1, <4>2
    <3> QED
      BY <3>1, <3>2
  <2>2. h = [s \in SUBSET (1 .. n) |-> Body(h, s)]
    BY <1>5, <2>1 DEF FoldOf
  <2> QED
    BY <2>2
<1> HIDE DEF fold
<1>9. FoldsBy(fold, n, V, base, step)
  <2>1. fold[{}] = base
    BY <1>8
  <2>2. ASSUME NEW s \in SUBSET (1 .. n), s # {}, fold[s \ {Max(s)}] \in V
        PROVE  fold[s] = step[<<Max(s), fold[s \ {Max(s)}]>>]
    <3>1. fold[s] = IndexEntry(fold[s \ {Max(s)}], positions[Max(s)], count)
      BY <1>8, <2>2
    <3> QED
      BY <1>7, <2>2, <3>1
  <2> QED
    BY <2>1, <2>2 DEF FoldsBy
<1>10. FoldChains(fold, n, V, base, step)
  <2> HIDE DEF n
  <2> QED
    BY <1>1, <1>3, <1>4, <1>9, FoldChain
<1> DEFINE f == [k \in 0 .. n |-> fold[1 .. k]]
<1>11. f \in [0 .. n -> V] /\ f[0] = base /\ Indexed(count) = f[n]
  BY <1>1, <1>2, <1>10 DEF FoldChains
<1>12. ASSUME NEW k \in 0 .. n - 1 PROVE f[k + 1] = IndexEntry(f[k], k + 1, count)
  <2>1. k \in 0 .. n /\ k + 1 \in 1 .. n /\ k + 1 \in 0 .. n
    BY <1>1
  <2>2. f[k] \in V /\ f[k + 1] = step[<<k + 1, f[k]>>]
    BY <1>10, <2>1 DEF FoldChains
  <2> HIDE DEF f
  <2> QED
    BY <2>1, <2>2 DEF step
<1> HIDE DEF f
<1>13. n - 1 = count - 2
  OBVIOUS
<1> QED
  BY <1>11, <1>12, <1>13 DEF V, base

\* The innermost directory around an entry, and how a directory fits in it.
IsInnermost(i, d, count) ==
    /\ d \in Directories(count) /\ Inside(i, d)
    /\ \A e \in Directories(count) : Inside(i, e) => e <= d

FitsIn(d, parent, count) ==
    /\ fst[d].second \in d + 1 .. count /\ fst[d].first = parent
    /\ \A e \in Directories(count) : Inside(d, e) => e = 0 \/ fst[d].second <= fst[e].second

\* The root's range is the table.
Rooted(count) == fst[0].dir /\ fst[0].second = count

\* What the parser has found when it has gone as far as k and accepted all:
\* its stack, from the bottom up, are directories in directories, among them
\* all that are not at their end.
Stacked(stack, k) ==
    /\ \A j \in 1 .. Len(stack) :
          stack[j].dir \in 0 .. k /\ fst[stack[j].dir].dir
          /\ stack[j].end = fst[stack[j].dir].second
    /\ \A j, l \in 1 .. Len(stack) :
          j < l => stack[j].dir < stack[l].dir /\ stack[l].end <= stack[j].end
    /\ \A d \in 1 .. k :
          fst[d].dir /\ fst[d].second > k => \E j \in 1 .. Len(stack) : stack[j].dir = d

Charted(parse, k, count) ==
    /\ Len(parse.parents) = k
    /\ Stacked(parse.stack, k)
    /\ \A i \in 1 .. k : IsInnermost(i, parse.parents[i], count)
    /\ \A d \in 1 .. k : fst[d].dir => FitsIn(d, parse.parents[d], count)

\* The top of the stack is the innermost directory around the next entry.
LEMMA TopIsInnermost ==
    ASSUME fst \in [Index -> EntryType], NEW count \in 1 .. FstLength, Rooted(count),
           NEW k \in 0 .. count - 2, NEW stack \in Seq(OpenDirectory), Stacked(stack, k),
           NEW m, Uncovered(stack, k + 1, m)
    PROVE  /\ IsInnermost(k + 1, stack[m].dir, count)
           /\ \A e \in Directories(count) :
                 Inside(k + 1, e) => e = 0 \/ stack[m].end <= fst[e].second
<1>1. /\ m \in 1 .. Len(stack) /\ stack[m].end > k + 1
      /\ \A l \in 1 .. Len(stack) : stack[l].end > k + 1 => l <= m
  BY DEF Uncovered
<1>2. \A j \in 1 .. Len(stack) : stack[j] \in OpenDirectory
  OBVIOUS
<1>3. \A j \in 1 .. Len(stack) : stack[j].dir \in Nat /\ stack[j].end \in Nat
  BY <1>2, FrameTyped
<1>4. k \in Nat /\ k + 1 \in Nat /\ k + 1 < count /\ k + 1 # 0
      /\ count \in Nat /\ Len(stack) \in Nat /\ m \in Nat
  BY <1>1, FstAssumption
<1>5. /\ stack[m].dir \in 0 .. k /\ fst[stack[m].dir].dir
      /\ stack[m].end = fst[stack[m].dir].second
  BY <1>1 DEF Stacked
<1>6. ASSUME NEW e \in Directories(count), Inside(k + 1, e), e # 0
      PROVE  e <= stack[m].dir /\ stack[m].end <= fst[e].second
  <2>1. e \in Nat /\ e \in 1 .. k /\ fst[e].dir /\ fst[e].second > k + 1
    <3>1. e \in 0 .. count - 1 /\ fst[e].dir /\ e < k + 1 /\ k + 1 < fst[e].second
      BY <1>6 DEF Directories, Inside
    <3> QED
      BY <1>4, <1>6, <3>1
  <2>2. fst[e].second \in Nat
    <3>1. e \in Index
      BY <2>1, <1>4, FstAssumption DEF Index
    <3> QED
      BY <3>1, EntryTyped
  <2>3. fst[e].second > k
    BY <1>4, <2>1, <2>2
  <2>4. PICK j \in 1 .. Len(stack) : stack[j].dir = e
    BY <2>1, <2>3 DEF Stacked
  <2>5. stack[j].end = fst[e].second
    BY <2>4 DEF Stacked
  <2>6. j <= m
    BY <1>1, <2>1, <2>4, <2>5
  <2>7. CASE j = m
    BY <1>3, <2>1, <2>2, <2>4, <2>5, <2>7
  <2>8. CASE j # m
    <3>1. j < m
      BY <1>1, <2>6, <2>8
    <3>2. stack[j].dir < stack[m].dir /\ stack[m].end <= stack[j].end
      BY <1>1, <3>1 DEF Stacked
    <3>3. stack[j].dir \in Nat /\ stack[m].dir \in Nat
      BY <1>1, <1>3
    <3> QED
      BY <2>4, <2>5, <3>2, <3>3
  <2> QED
    BY <2>7, <2>8
<1>7. stack[m].dir \in Directories(count)
  BY <1>4, <1>5 DEF Directories
<1>8. Inside(k + 1, stack[m].dir)
  <2>1. stack[m].dir < k + 1
    BY <1>4, <1>5
  <2>2. k + 1 < fst[stack[m].dir].second
    BY <1>1, <1>3, <1>4, <1>5
  <2> QED
    BY <1>4, <1>5, <2>1, <2>2 DEF Inside
<1>9. \A e \in Directories(count) : Inside(k + 1, e) => e <= stack[m].dir
  <2> SUFFICES ASSUME NEW e \in Directories(count), Inside(k + 1, e)
               PROVE  e <= stack[m].dir
    OBVIOUS
  <2>1. CASE e = 0
    BY <1>5, <2>1
  <2>2. CASE e # 0
    BY <1>6, <2>2
  <2> QED
    BY <2>1, <2>2
<1> QED
  BY <1>6, <1>7, <1>8, <1>9 DEF IsInnermost

\* What is left of the stack, and it with the entry on top.
LEMMA StackGoesOn ==
    ASSUME fst \in [Index -> EntryType], NEW count \in 1 .. FstLength, Rooted(count),
           NEW k \in 0 .. count - 2, NEW stack \in Seq(OpenDirectory), Stacked(stack, k),
           NEW m, Uncovered(stack, k + 1, m),
           NEW left \in Seq(OpenDirectory), left = SubSeq(stack, 1, m)
    PROVE  /\ ~fst[k + 1].dir => Stacked(left, k + 1)
           /\ fst[k + 1].dir /\ fst[k + 1].second <= stack[m].end =>
                Stacked(Append(left, [dir |-> k + 1, end |-> fst[k + 1].second]), k + 1)
<1>1. /\ m \in 1 .. Len(stack) /\ stack[m].end > k + 1
      /\ \A l \in 1 .. Len(stack) : stack[l].end > k + 1 => l <= m
  BY DEF Uncovered
<1>2. /\ Len(left) = m /\ \A j \in 1 .. m : left[j] = stack[j]
  BY <1>1, FirstPart
<1>3. \A j \in 1 .. Len(stack) : stack[j].dir \in Nat /\ stack[j].end \in Nat
  <2>1. \A j \in 1 .. Len(stack) : stack[j] \in OpenDirectory
    OBVIOUS
  <2> QED
    BY <2>1, FrameTyped
<1>4. k \in Nat /\ k + 1 \in Nat /\ k + 1 < count /\ count \in Nat
      /\ Len(stack) \in Nat /\ m \in Nat /\ k + 1 \in Index
  BY <1>1, FstAssumption DEF Index
<1>5. \A j \in 1 .. m :
         left[j].dir \in 0 .. k /\ fst[left[j].dir].dir
         /\ left[j].end = fst[left[j].dir].second
         /\ left[j].dir \in Nat /\ left[j].end \in Nat
  <2> SUFFICES ASSUME NEW j \in 1 .. m
               PROVE  left[j].dir \in 0 .. k /\ fst[left[j].dir].dir
                      /\ left[j].end = fst[left[j].dir].second
                      /\ left[j].dir \in Nat /\ left[j].end \in Nat
    OBVIOUS
  <2>1. j \in 1 .. Len(stack)
    BY <1>1, <1>4
  <2> QED
    BY <1>2, <1>3, <2>1 DEF Stacked
<1>6. \A j, l \in 1 .. m :
         j < l => left[j].dir < left[l].dir /\ left[l].end <= left[j].end
  <2> SUFFICES ASSUME NEW j \in 1 .. m, NEW l \in 1 .. m, j < l
               PROVE  left[j].dir < left[l].dir /\ left[l].end <= left[j].end
    OBVIOUS
  <2>1. j \in 1 .. Len(stack) /\ l \in 1 .. Len(stack)
    BY <1>1, <1>4
  <2> QED
    BY <1>2, <2>1 DEF Stacked
<1>7. ASSUME NEW d \in 1 .. k, fst[d].dir, fst[d].second > k + 1
      PROVE  \E j \in 1 .. m : left[j].dir = d
  <2>1. fst[d].second \in Nat
    <3>1. d \in Index
      BY <1>4, FstAssumption DEF Index
    <3> QED
      BY <3>1, EntryTyped
  <2>2. fst[d].second > k
    BY <1>4, <1>7, <2>1
  <2>3. PICK j \in 1 .. Len(stack) : stack[j].dir = d
    BY <1>7, <2>2 DEF Stacked
  <2>4. stack[j].end = fst[d].second
    BY <2>3 DEF Stacked
  <2>5. j \in 1 .. m
    BY <1>1, <1>4, <1>7, <2>3, <2>4
  <2> QED
    BY <1>2, <2>3, <2>5
<1>8. ASSUME ~fst[k + 1].dir PROVE Stacked(left, k + 1)
  <2>1. \A j \in 1 .. m : left[j].dir \in 0 .. k + 1
    BY <1>4, <1>5
  <2>2. \A d \in 1 .. k + 1 : fst[d].dir => d \in 1 .. k
    BY <1>4, <1>8
  <2> QED
    BY <1>2, <1>5, <1>6, <1>7, <2>1, <2>2 DEF Stacked
<1>9. ASSUME fst[k + 1].dir, fst[k + 1].second <= stack[m].end
      PROVE  Stacked(Append(left, [dir |-> k + 1, end |-> fst[k + 1].second]), k + 1)
  <2> DEFINE frame == [dir |-> k + 1, end |-> fst[k + 1].second]
             taller == Append(left, frame)
  <2>1. fst[k + 1].second \in Nat
    BY <1>4, EntryTyped
  <2>2. frame \in OpenDirectory
    BY <1>4, <2>1 DEF OpenDirectory
  <2>3. frame.dir = k + 1 /\ frame.end = fst[k + 1].second
    OBVIOUS
  <2> HIDE DEF frame
  <2>4. /\ Len(taller) = m + 1 /\ \A j \in 1 .. m : taller[j] = left[j]
        /\ taller[m + 1] = frame
    BY <1>2, <2>2, Pushed
  <2> HIDE DEF taller
  <2>5. \A j \in 1 .. m + 1 : j \in 1 .. m \/ j = m + 1
    BY <1>4
  <2>6. \A j \in 1 .. m + 1 :
           taller[j].dir \in 0 .. k + 1 /\ fst[taller[j].dir].dir
           /\ taller[j].end = fst[taller[j].dir].second
    <3> SUFFICES ASSUME NEW j \in 1 .. m + 1
                 PROVE  taller[j].dir \in 0 .. k + 1 /\ fst[taller[j].dir].dir
                        /\ taller[j].end = fst[taller[j].dir].second
      OBVIOUS
    <3>1. CASE j \in 1 .. m
      <4>1. taller[j] = left[j]
        BY <2>4, <3>1
      <4>2. left[j].dir \in 0 .. k + 1
        BY <1>4, <1>5, <3>1
      <4> QED
        BY <1>5, <3>1, <4>1, <4>2
    <3>2. CASE j = m + 1
      <4>1. taller[j] = frame /\ k + 1 \in 0 .. k + 1
        BY <1>4, <2>4, <3>2
      <4> QED
        BY <1>9, <2>3, <4>1
    <3> QED
      BY <2>5, <3>1, <3>2
  <2>7. \A j \in 1 .. m : left[j].dir < k + 1 /\ fst[k + 1].second <= left[j].end
    <3> SUFFICES ASSUME NEW j \in 1 .. m
                 PROVE  left[j].dir < k + 1 /\ fst[k + 1].second <= left[j].end
      OBVIOUS
    <3>1. left[j].dir \in 0 .. k /\ left[j].end \in Nat
      BY <1>5
    <3>2. m \in 1 .. m /\ left[m] = stack[m] /\ stack[m].end \in Nat
      BY <1>1, <1>2, <1>3, <1>4
    <3>3. left[m].end <= left[j].end
      <4>1. CASE j = m
        BY <3>1, <4>1
      <4>2. CASE j # m
        <5>1. j < m
          BY <1>4, <4>2
        <5> QED
          BY <1>6, <3>2, <5>1
      <4> QED
        BY <4>1, <4>2
    <3>4. fst[k + 1].second <= left[j].end
      <4> DEFINE second == fst[k + 1].second
                 low == left[m].end
                 high == left[j].end
      <4>1. second \in Nat /\ low \in Nat /\ high \in Nat /\ second <= low /\ low <= high
        BY <1>9, <2>1, <3>1, <3>2, <3>3
      <4> HIDE DEF second, low, high
      <4>2. second <= high
        BY <4>1
      <4> QED
        BY <4>2 DEF second, high
    <3> QED
      BY <1>4, <3>1, <3>4
  <2>8. \A j, l \in 1 .. m + 1 :
           j < l => taller[j].dir < taller[l].dir /\ taller[l].end <= taller[j].end
    <3> SUFFICES ASSUME NEW j \in 1 .. m + 1, NEW l \in 1 .. m + 1, j < l
                 PROVE  taller[j].dir < taller[l].dir /\ taller[l].end <= taller[j].end
      OBVIOUS
    <3>1. j \in 1 .. m
      BY <1>4
    <3>2. CASE l \in 1 .. m
      BY <1>6, <2>4, <3>1, <3>2
    <3>3. CASE l = m + 1
      BY <2>3, <2>4, <2>7, <3>1, <3>3
    <3> QED
      BY <2>5, <3>2, <3>3
  <2>9. ASSUME NEW d \in 1 .. k + 1, fst[d].dir, fst[d].second > k + 1
        PROVE  \E j \in 1 .. m + 1 : taller[j].dir = d
    <3>1. CASE d = k + 1
      <4>1. m + 1 \in 1 .. m + 1
        BY <1>4
      <4> QED
        BY <2>3, <2>4, <3>1, <4>1
    <3>2. CASE d # k + 1
      <4>1. d \in 1 .. k
        BY <1>4, <3>2
      <4>2. PICK j \in 1 .. m : left[j].dir = d
        BY <1>7, <2>9, <4>1
      <4>3. j \in 1 .. m + 1
        BY <1>4
      <4> QED
        BY <2>4, <4>2, <4>3
    <3> QED
      BY <3>1, <3>2
  <2>10. Stacked(taller, k + 1)
    BY <2>4, <2>6, <2>8, <2>9 DEF Stacked
  <2> QED
    BY <2>10 DEF taller, frame
<1> QED
  BY <1>8, <1>9

LEMMA EntryIsCharted ==
    ASSUME fst \in [Index -> EntryType], NEW count \in 1 .. FstLength, Rooted(count),
           NEW k \in 0 .. count - 2, NEW parse \in Parse(count),
           parse.ok, Charted(parse, k, count),
           IndexEntry(parse, k + 1, count).ok
    PROVE  Charted(IndexEntry(parse, k + 1, count), k + 1, count)
<1>1. /\ parse.parents \in Seq(Index) /\ parse.stack \in Seq(OpenDirectory)
      /\ parse.stack # <<>> /\ parse.stack[1] = [dir |-> 0, end |-> count]
  BY DEF Parse
<1>2. k \in Nat /\ k + 1 \in Nat /\ k + 1 < count /\ count \in Nat /\ k + 1 \in Index
  BY FstAssumption DEF Index
<1>3. PICK m : Uncovered(parse.stack, k + 1, m)
  <2>1. parse.stack[1].end > k + 1
    BY <1>1, <1>2
  <2> QED
    BY <1>1, <1>2, <2>1, UnstackedTop
<1>4. /\ m \in 1 .. Len(parse.stack)
      /\ Unstacked(parse.stack, k + 1) = SubSeq(parse.stack, 1, m)
  BY <1>3 DEF Uncovered
<1> DEFINE left == SubSeq(parse.stack, 1, m)
           top == parse.stack[m]
           next == Enclosed(parse, k + 1, count, left)
<1>5. left \in Seq(OpenDirectory) /\ Last(left) = top
  BY <1>1, <1>4, FirstPart
<1>6. IndexEntry(parse, k + 1, count) = next
  BY <1>4, IndexEntryIs
<1>7. Stacked(parse.stack, k) /\ Len(parse.parents) = k
  BY DEF Charted
<1>8. /\ IsInnermost(k + 1, top.dir, count)
      /\ \A e \in Directories(count) : Inside(k + 1, e) => e = 0 \/ top.end <= fst[e].second
  BY <1>1, <1>3, <1>7, TopIsInnermost
<1>9. /\ ~fst[k + 1].dir => Stacked(left, k + 1)
      /\ fst[k + 1].dir /\ fst[k + 1].second <= top.end =>
           Stacked(Append(left, [dir |-> k + 1, end |-> fst[k + 1].second]), k + 1)
  BY <1>1, <1>3, <1>5, <1>7, StackGoesOn
<1> DEFINE frame == [dir |-> k + 1, end |-> fst[k + 1].second]
           parents == Append(parse.parents, top.dir)
           accepted == fst[k + 1].dir => fst[k + 1].first = top.dir
                          /\ fst[k + 1].second > k + 1 /\ fst[k + 1].second <= count
                          /\ fst[k + 1].second <= top.end
           stack == IF fst[k + 1].dir THEN Append(left, frame) ELSE left
<1> HIDE DEF left, top
<1>10. next.ok = accepted /\ next.parents = parents /\ next.stack = stack
  BY <1>5 DEF Enclosed
<1>11. accepted
  BY <1>6, <1>10
<1> HIDE DEF next
<1>12. Stacked(stack, k + 1)
  BY <1>9, <1>11
<1> HIDE DEF stack
<1>13. top \in OpenDirectory /\ top.dir \in Index /\ top.end \in Nat
  <2>1. top \in OpenDirectory
    BY <1>1, <1>4 DEF top
  <2> QED
    BY <2>1 DEF OpenDirectory
<1>14. /\ Len(parents) = k + 1 /\ \A i \in 1 .. k : parents[i] = parse.parents[i]
       /\ parents[k + 1] = top.dir
  BY <1>1, <1>7, <1>13, Pushed
<1> HIDE DEF parents
<1>15. \A i \in 1 .. k + 1 : i \in 1 .. k \/ i = k + 1
  BY <1>2
<1>16. \A i \in 1 .. k + 1 : IsInnermost(i, parents[i], count)
  <2> SUFFICES ASSUME NEW i \in 1 .. k + 1 PROVE IsInnermost(i, parents[i], count)
    OBVIOUS
  <2>1. CASE i \in 1 .. k
    BY <1>14, <2>1 DEF Charted
  <2>2. CASE i = k + 1
    BY <1>8, <1>14, <2>2
  <2> QED
    BY <1>15, <2>1, <2>2
<1>17. ASSUME fst[k + 1].dir PROVE FitsIn(k + 1, top.dir, count)
  <2>1. fst[k + 1].second \in Nat
    BY <1>2, EntryTyped
  <2>2. /\ fst[k + 1].first = top.dir /\ fst[k + 1].second > k + 1
        /\ fst[k + 1].second <= count /\ fst[k + 1].second <= top.end
    BY <1>11, <1>17
  <2>3. fst[k + 1].second \in (k + 1) + 1 .. count
    BY <1>2, <2>1, <2>2
  <2>4. ASSUME NEW e \in Directories(count), Inside(k + 1, e), e # 0
        PROVE  fst[k + 1].second <= fst[e].second
    <3>1. top.end <= fst[e].second
      BY <1>8, <2>4
    <3>2. fst[e].second \in Nat
      <4>1. e \in Index
        BY FstAssumption DEF Directories, Index
      <4> QED
        BY <4>1, EntryTyped
    <3> QED
      BY <1>13, <2>1, <2>2, <3>1, <3>2
  <2> QED
    BY <2>2, <2>3, <2>4 DEF FitsIn
<1>18. \A d \in 1 .. k + 1 : fst[d].dir => FitsIn(d, parents[d], count)
  <2> SUFFICES ASSUME NEW d \in 1 .. k + 1, fst[d].dir PROVE FitsIn(d, parents[d], count)
    OBVIOUS
  <2>1. CASE d \in 1 .. k
    BY <1>14, <2>1 DEF Charted
  <2>2. CASE d = k + 1
    BY <1>14, <1>17, <2>2
  <2> QED
    BY <1>15, <2>1, <2>2
<1> QED
  BY <1>6, <1>10, <1>12, <1>14, <1>16, <1>18 DEF Charted

\* So a table that is accepted to its end is charted to its end.
LEMMA TableIsCharted ==
    ASSUME fst \in [Index -> EntryType], NEW count \in 1 .. FstLength, Rooted(count),
           Indexed(count).ok
    PROVE  Indexed(count) \in Parse(count) /\ Charted(Indexed(count), count - 1, count)
<1>1. PICK f \in [0 .. count - 1 -> Parse(count)] :
         /\ f[0] = Unparsed(count)
         /\ \A k \in 0 .. count - 2 : f[k + 1] = IndexEntry(f[k], k + 1, count)
         /\ Indexed(count) = f[count - 1]
  BY ParseChain
<1>2. count \in Nat /\ count - 1 \in 0 .. count - 1 /\ 0 \in 0 .. count - 1
  BY FstAssumption
<1> DEFINE Good(k) == f[k].ok => Charted(f[k], k, count)
           T == {k \in Nat : k <= count - 1 => Good(k)}
<1>3. 0 \in T
  <2>1. f[0].parents = <<>> /\ f[0].stack = <<[dir |-> 0, end |-> count]>>
    BY <1>1 DEF Unparsed
  <2> DEFINE stack == f[0].stack
  <2>2. Len(stack) = 1 /\ stack[1].dir = 0 /\ stack[1].end = count
    BY <2>1
  <2> HIDE DEF stack
  <2>3. \A j \in 1 .. Len(stack) : j = 1
    BY <2>2
  <2>4. Stacked(stack, 0)
    <3>1. \A j \in 1 .. Len(stack) :
             stack[j].dir \in 0 .. 0 /\ fst[stack[j].dir].dir
             /\ stack[j].end = fst[stack[j].dir].second
      BY <2>2, <2>3 DEF Rooted
    <3>2. \A j, l \in 1 .. Len(stack) : ~(j < l)
      BY <2>3
    <3> QED
      BY <3>1, <3>2 DEF Stacked
  <2>5. Charted(f[0], 0, count)
    BY <2>1, <2>4 DEF Charted, stack
  <2> QED
    BY <2>5
<1>4. ASSUME NEW k \in T PROVE k + 1 \in T
  <2> SUFFICES ASSUME k + 1 <= count - 1, f[k + 1].ok PROVE Charted(f[k + 1], k + 1, count)
    OBVIOUS
  <2>1. k \in 0 .. count - 2 /\ k \in 0 .. count - 1
    BY <1>2
  <2>2. f[k + 1] = IndexEntry(f[k], k + 1, count) /\ f[k] \in Parse(count)
    BY <1>1, <2>1
  <2>3. f[k].ok
    BY <2>2, IndexEntryIs
  <2>4. Charted(f[k], k, count)
    BY <2>1, <2>3
  <2>5. IndexEntry(f[k], k + 1, count).ok
    BY <2>2
  <2>6. Charted(IndexEntry(f[k], k + 1, count), k + 1, count)
    BY <2>1, <2>2, <2>3, <2>4, <2>5, EntryIsCharted
  <2> QED
    BY <2>2, <2>6
<1>5. count - 1 \in T
  <2>1. T \in SUBSET Nat
    OBVIOUS
  <2>2. count - 1 \in Nat
    BY <1>2
  <2> HIDE DEF T
  <2> QED
    BY <1>3, <1>4, <2>1, <2>2, SetInduction
<1>6. f[count - 1] \in Parse(count) /\ f[count - 1].ok
  BY <1>1, <1>2
<1> QED
  BY <1>1, <1>2, <1>5, <1>6

\* What the parser accepts.
Accepted(count, parents) ==
    /\ count \in 1 .. FstLength /\ Rooted(count)
    /\ NamesValid(count) /\ ~Overlapping(count)
    /\ Indexed(count).ok /\ parents = Indexed(count).parents

LEMMA ParsedIs ==
    ASSUME fst \in [Index -> EntryType]
    PROVE  Parsed.ready => Accepted(Parsed.count, Parsed.parents)
<1> DEFINE count == fst[0].second
<1>1. count \in Nat
  <2>1. 0 \in Index
    BY FstAssumption DEF Index
  <2> QED
    BY <2>1, EntryTyped
<1>2. Parsed \in {NoDisc, [ready |-> TRUE, count |-> count, parents |-> Indexed(count).parents]}
  BY DEF Parsed
<1>3. ASSUME Parsed.ready PROVE Accepted(Parsed.count, Parsed.parents)
  <2>1. /\ fst[0].dir /\ count # 0 /\ count <= FstLength /\ NamesValid(count)
        /\ Indexed(count).ok /\ ~Overlapping(count)
    BY <1>3 DEF Parsed, NoDisc
  <2>2. Parsed.count = count /\ Parsed.parents = Indexed(count).parents
    BY <1>2, <1>3 DEF NoDisc
  <2>3. count \in 1 .. FstLength
    BY <1>1, <2>1, FstAssumption
  <2> QED
    BY <2>1, <2>2, <2>3 DEF Accepted, Rooted
<1> QED
  BY <1>3

LEMMA Tree ==
    ASSUME fst \in [Index -> EntryType], NEW count, NEW parents, Accepted(count, parents)
    PROVE  /\ count \in 1 .. FstLength /\ count \in Nat
           /\ parents \in Seq(Index) /\ Len(parents) = count - 1
           /\ \A i \in 1 .. count - 1 :
                 /\ parents[i] \in 0 .. i - 1 /\ parents[i] \in 0 .. count - 1
                 /\ fst[parents[i]].dir /\ IsInnermost(i, parents[i], count)
                 /\ fst[i].dir => FitsIn(i, parents[i], count)
<1>1. count \in 1 .. FstLength /\ count \in Nat /\ Rooted(count) /\ Indexed(count).ok
      /\ parents = Indexed(count).parents
  BY FstAssumption DEF Accepted
<1>2. Indexed(count) \in Parse(count) /\ Charted(Indexed(count), count - 1, count)
  BY <1>1, TableIsCharted
<1>3. parents \in Seq(Index) /\ Len(parents) = count - 1
  BY <1>1, <1>2 DEF Parse, Charted
<1>4. \A i \in 1 .. count - 1 :
         /\ IsInnermost(i, parents[i], count)
         /\ fst[i].dir => FitsIn(i, parents[i], count)
  BY <1>1, <1>2 DEF Charted
<1>5. ASSUME NEW i \in 1 .. count - 1
      PROVE  /\ parents[i] \in 0 .. i - 1 /\ parents[i] \in 0 .. count - 1
             /\ fst[parents[i]].dir
  <2>1. parents[i] \in Directories(count) /\ Inside(i, parents[i])
    BY <1>4 DEF IsInnermost
  <2>2. parents[i] \in 0 .. count - 1 /\ fst[parents[i]].dir
    BY <2>1 DEF Directories
  <2>3. parents[i] = 0 \/ parents[i] < i
    BY <2>1 DEF Inside
  <2> QED
    BY <1>1, <2>2, <2>3
<1> QED
  BY <1>1, <1>3, <1>4, <1>5

\* There is one innermost directory.
LEMMA OneInnermost ==
    ASSUME NEW count \in Nat, NEW i, NEW d, IsInnermost(i, d, count)
    PROVE  Innermost(i, count) = d
<1>1. d \in Directories(count) /\ Inside(i, d)
      /\ \A e \in Directories(count) : Inside(i, e) => e <= d
  BY DEF IsInnermost
<1>2. \A e \in Directories(count) : e \in Nat
  BY DEF Directories
<1>3. ASSUME NEW e \in Directories(count), Inside(i, e),
             \A b \in Directories(count) : Inside(i, b) => b <= e
      PROVE  e = d
  <2>1. e <= d /\ d <= e /\ e \in Nat /\ d \in Nat
    BY <1>1, <1>2, <1>3
  <2> QED
    BY <2>1
<1> QED
  BY <1>1, <1>3 DEF Innermost

LEMMA AcceptedIsTree ==
    ASSUME fst \in [Index -> EntryType], disc.ready, Accepted(disc.count, disc.parents)
    PROVE  TreeIndexed
<1> DEFINE count == disc.count
           parents == disc.parents
<1>1. /\ count \in 1 .. FstLength /\ count \in Nat
      /\ \A i \in 1 .. count - 1 :
            /\ IsInnermost(i, parents[i], count)
            /\ fst[i].dir => FitsIn(i, parents[i], count)
  BY Tree
<1>2. fst[0].dir /\ \A i \in 1 .. count - 1 : fst[i].name \notin BadName
  BY DEF Accepted, Rooted, NamesValid
<1> HIDE DEF count, parents
<1>3. \A i \in 1 .. count - 1 : Innermost(i, count) = parents[i]
  BY <1>1, OneInnermost
<1>4. ASSUME NEW d \in Directories(count) \ {0}
      PROVE  /\ fst[d].second \in (d + 1) .. count
             /\ \A e \in Directories(count) :
                   Inside(d, e) => e = 0 \/ fst[d].second <= fst[e].second
             /\ fst[d].first = Innermost(d, count)
  <2>1. d \in 1 .. count - 1 /\ fst[d].dir
    BY <1>1 DEF Directories
  <2>2. FitsIn(d, parents[d], count)
    BY <1>1, <2>1
  <2> QED
    BY <1>3, <2>1, <2>2 DEF FitsIn
<1>5. WellFormed(count)
  BY <1>1, <1>2, <1>4 DEF WellFormed
<1> QED
  BY <1>3, <1>5 DEF TreeIndexed, count, parents
-----------------------------------------------------------------------------
(* Paths up through the parents and down through the names.                *)

PathFrom(g, parents, i) ==
    IF i = 0 THEN <<>> ELSE Append(g[parents[i]], fst[i].name)

LEMMA PathExists ==
    ASSUME fst \in [Index -> EntryType], NEW count, NEW parents, Accepted(count, parents)
    PROVE  \E g \in [0 .. Len(parents) -> Seq(FstName)] :
              g = [i \in 0 .. Len(parents) |-> PathFrom(g, parents, i)]
<1> DEFINE n == Len(parents)
           Solved(k) == \E g \in [0 .. n -> Seq(FstName)] :
                           \A i \in 0 .. k : g[i] = PathFrom(g, parents, i)
           T == {k \in Nat : k <= n => Solved(k)}
<1>1. /\ n = count - 1 /\ n \in Nat
      /\ \A i \in 1 .. n : parents[i] \in 0 .. i - 1
      /\ \A i \in 1 .. n : fst[i].name \in FstName
  <2>1. /\ count \in 1 .. FstLength /\ count \in Nat /\ Len(parents) = count - 1
        /\ \A i \in 1 .. count - 1 : parents[i] \in 0 .. i - 1
    BY Tree
  <2>2. ASSUME NEW i \in 1 .. n PROVE fst[i].name \in FstName
    <3>1. i \in Index
      BY <2>1, FstAssumption DEF Index
    <3> QED
      BY <3>1, EntryTyped
  <2> QED
    BY <2>1, <2>2
<1> HIDE DEF n
<1>2. 0 \in T
  <2> DEFINE g == [i \in 0 .. n |-> <<>>]
  <2>1. g \in [0 .. n -> Seq(FstName)]
    OBVIOUS
  <2>2. \A i \in 0 .. 0 : g[i] = PathFrom(g, parents, i)
    BY <1>1 DEF PathFrom
  <2> HIDE DEF g
  <2> QED
    BY <2>1, <2>2
<1>3. ASSUME NEW k \in T PROVE k + 1 \in T
  <2> SUFFICES ASSUME k + 1 <= n PROVE Solved(k + 1)
    OBVIOUS
  <2>1. k \in Nat /\ k + 1 \in 1 .. n /\ k <= n /\ k + 1 \in 0 .. n
    BY <1>1
  <2>2. PICK g \in [0 .. n -> Seq(FstName)] : \A i \in 0 .. k : g[i] = PathFrom(g, parents, i)
    BY <2>1
  <2> DEFINE more == Append(g[parents[k + 1]], fst[k + 1].name)
             h == [i \in 0 .. n |-> IF i = k + 1 THEN more ELSE g[i]]
  <2>3. more \in Seq(FstName)
    <3>1. parents[k + 1] \in 0 .. n
      BY <1>1, <2>1
    <3>2. g[parents[k + 1]] \in Seq(FstName) /\ fst[k + 1].name \in FstName
      BY <1>1, <2>1, <2>2, <3>1
    <3> QED
      BY <3>2
  <2>4. more = PathFrom(g, parents, k + 1)
    BY <2>1 DEF PathFrom
  <2> HIDE DEF more
  <2>5. h \in [0 .. n -> Seq(FstName)]
    BY <2>2, <2>3
  <2>6. ASSUME NEW i \in 0 .. k + 1 PROVE h[i] = PathFrom(h, parents, i)
    <3>1. PathFrom(h, parents, i) = PathFrom(g, parents, i)
      <4>1. CASE i = 0
        BY <4>1 DEF PathFrom
      <4>2. CASE i # 0
        <5>1. i \in 1 .. n /\ parents[i] \in 0 .. i - 1
          BY <1>1, <2>1, <4>2
        <5>2. parents[i] \in 0 .. n /\ parents[i] # k + 1
          BY <1>1, <2>1, <5>1
        <5>3. h[parents[i]] = g[parents[i]]
          BY <5>2
        <5> HIDE DEF h
        <5> QED
          BY <5>3 DEF PathFrom
      <4> QED
        BY <4>1, <4>2
    <3>2. CASE i = k + 1
      BY <2>1, <2>4, <3>1, <3>2
    <3>3. CASE i # k + 1
      <4>1. i \in 0 .. k /\ i \in 0 .. n
        BY <1>1, <2>1, <3>3
      <4> QED
        BY <2>2, <3>1, <3>3, <4>1
    <3> QED
      BY <3>2, <3>3
  <2> HIDE DEF h
  <2> QED
    BY <2>5, <2>6
<1>4. n \in T
  <2>1. T \in SUBSET Nat
    OBVIOUS
  <2> HIDE DEF T
  <2> QED
    BY <1>1, <1>2, <1>3, <2>1, SetInduction
<1>5. PICK g \in [0 .. n -> Seq(FstName)] : \A i \in 0 .. n : g[i] = PathFrom(g, parents, i)
  BY <1>1, <1>4
<1>6. g = [i \in 0 .. n |-> PathFrom(g, parents, i)]
  BY <1>5
<1> QED
  BY <1>6 DEF n

LEMMA PathStep ==
    ASSUME fst \in [Index -> EntryType], NEW count, NEW parents, Accepted(count, parents)
    PROVE  /\ PathIn(parents, 0) = <<>>
           /\ \A i \in 0 .. count - 1 : PathIn(parents, i) \in Seq(FstName)
           /\ \A i \in 1 .. count - 1 :
                 PathIn(parents, i) = Append(PathIn(parents, parents[i]), fst[i].name)
<1> DEFINE n == Len(parents)
           path == CHOOSE g : g = [i \in 0 .. n |-> PathFrom(g, parents, i)]
<1>1. /\ n = count - 1 /\ n \in Nat
      /\ \A i \in 1 .. n : parents[i] \in 0 .. n
  <2>1. /\ count \in 1 .. FstLength /\ count \in Nat /\ Len(parents) = count - 1
        /\ \A i \in 1 .. count - 1 : parents[i] \in 0 .. count - 1
    BY Tree
  <2> QED
    BY <2>1, FstAssumption
<1>2. PICK h \in [0 .. n -> Seq(FstName)] : h = [i \in 0 .. n |-> PathFrom(h, parents, i)]
  BY PathExists
<1>3. path = [i \in 0 .. n |-> PathFrom(path, parents, i)]
  BY <1>2
<1>4. \A index : PathIn(parents, index) = path[index]
  BY DEF PathIn, PathFrom
<1> HIDE DEF path, n
<1>5. PathIn(parents, 0) = <<>>
  <2>1. 0 \in 0 .. n
    BY <1>1
  <2>2. path[0] = PathFrom(path, parents, 0)
    BY <1>3, <2>1
  <2> QED
    BY <1>4, <2>2 DEF PathFrom
<1>6. ASSUME NEW i \in 1 .. n
      PROVE  PathIn(parents, i) = Append(PathIn(parents, parents[i]), fst[i].name)
  <2>1. i \in 0 .. n /\ i # 0
    BY <1>1
  <2>2. path[i] = Append(path[parents[i]], fst[i].name)
    BY <1>3, <2>1 DEF PathFrom
  <2> QED
    BY <1>4, <2>2
<1> DEFINE T == {k \in Nat : \A i \in 0 .. n : i <= k => PathIn(parents, i) \in Seq(FstName)}
<1>7. 0 \in T
  <2> SUFFICES ASSUME NEW i \in 0 .. n, i <= 0 PROVE PathIn(parents, i) \in Seq(FstName)
    OBVIOUS
  <2>1. i = 0
    OBVIOUS
  <2>2. <<>> \in Seq(FstName)
    OBVIOUS
  <2> QED
    BY <1>5, <2>1, <2>2
<1>8. ASSUME NEW k \in T PROVE k + 1 \in T
  <2> SUFFICES ASSUME NEW i \in 0 .. n, i <= k + 1 PROVE PathIn(parents, i) \in Seq(FstName)
    OBVIOUS
  <2>1. CASE i <= k
    BY <2>1
  <2>2. CASE ~(i <= k)
    <3>1. i = k + 1 /\ i \in 1 .. n
      BY <1>1, <2>2
    <3>2. parents[i] \in 0 .. n /\ parents[i] <= k /\ fst[i].name \in FstName
      <4>1. /\ count \in 1 .. FstLength /\ count \in Nat
            /\ parents[i] \in 0 .. i - 1
        BY <1>1, <3>1, Tree
      <4>2. i \in Index
        BY <1>1, <3>1, <4>1, FstAssumption DEF Index
      <4> QED
        BY <1>1, <3>1, <4>1, <4>2, EntryTyped
    <3>3. PathIn(parents, parents[i]) \in Seq(FstName)
      BY <3>2
    <3>4. Append(PathIn(parents, parents[i]), fst[i].name) \in Seq(FstName)
      BY <3>2, <3>3, Pushed
    <3> QED
      BY <1>6, <3>1, <3>4
  <2> QED
    BY <2>1, <2>2
<1>9. T = Nat
  <2>1. T \in SUBSET Nat
    OBVIOUS
  <2> HIDE DEF T
  <2> QED
    BY <1>7, <1>8, <2>1, SetInduction
<1>10. \A i \in 0 .. n : PathIn(parents, i) \in Seq(FstName)
  <2> SUFFICES ASSUME NEW i \in 0 .. n PROVE PathIn(parents, i) \in Seq(FstName)
    OBVIOUS
  <2>1. n \in T /\ i <= n
    BY <1>1, <1>9
  <2> QED
    BY <2>1
<1> QED
  BY <1>1, <1>5, <1>6, <1>10

\* Where a lookup may stand, and where it may go on from.
Standing == 0 .. disc.count - 1 \cup {Missing}
AtDirectory(current) == current = Missing \/ fst[current].dir

LEMMA ChildFound ==
    ASSUME NEW parent, NEW name, disc.count \in Nat, Children(parent, name) # {}
    PROVE  \E i \in Children(parent, name) :
              i = CHOOSE k \in Children(parent, name) :
                     \A j \in Children(parent, name) : k <= j
<1> DEFINE found == Children(parent, name)
<1>1. found \in SUBSET Nat /\ found # {}
  BY DEF Children
<1>2. \E k \in found : \A j \in found : k <= j
  <2> HIDE DEF found
  <2> QED
    BY <1>1, LeastElement
<1> QED
  BY <1>2

LEMMA StepLeads ==
    ASSUME fst \in [Index -> EntryType], Accepted(disc.count, disc.parents),
           NEW current \in Standing, NEW name, NEW last \in BOOLEAN
    PROVE  LET next == StepTo(current, name, last)
           IN  /\ next \in Standing
               /\ AtDirectory(current) /\ ~last => AtDirectory(next)
               /\ AtDirectory(current) /\ ~AtDirectory(next) =>
                     Folded(name) = Folded(fst[next].name)
<1> DEFINE next == StepTo(current, name, last)
           Leads == /\ next \in Standing
                    /\ AtDirectory(current) /\ ~last => AtDirectory(next)
                    /\ AtDirectory(current) /\ ~AtDirectory(next) =>
                          Folded(name) = Folded(fst[next].name)
<1> SUFFICES Leads
  OBVIOUS
<1>1. /\ disc.count \in 1 .. FstLength /\ disc.count \in Nat /\ 0 \in 0 .. disc.count - 1
      /\ \A i \in 1 .. disc.count - 1 :
            disc.parents[i] \in 0 .. disc.count - 1 /\ fst[disc.parents[i]].dir
  BY Tree
<1>2. fst[0].dir
  BY DEF Accepted, Rooted
<1>3. AtDirectory(Missing) /\ AtDirectory(0) /\ Missing \in Standing /\ 0 \in Standing
  BY <1>1, <1>2 DEF AtDirectory, Standing
<1>4. CASE current = Missing
  <2>1. next = Missing
    BY <1>4 DEF StepTo
  <2> HIDE DEF next
  <2> QED
    BY <1>3, <2>1
<1>5. CASE current # Missing /\ name = "."
  <2>1. next = current
    BY <1>5 DEF StepTo
  <2> HIDE DEF next
  <2> QED
    BY <2>1
<1>6. CASE current # Missing /\ name = ".."
  <2>1. next = IF current = 0 THEN 0 ELSE disc.parents[current]
    BY <1>6 DEF StepTo
  <2>2. current # 0 => current \in 1 .. disc.count - 1
    BY <1>1, <1>6 DEF Standing
  <2>3. next \in Standing /\ AtDirectory(next)
    <3> HIDE DEF next
    <3> QED
      BY <1>1, <1>3, <2>1, <2>2 DEF Standing, AtDirectory
  <2> HIDE DEF next
  <2> QED
    BY <2>3
<1>7. CASE current # Missing /\ name # "." /\ name # ".." /\ Children(current, name) = {}
  <2>1. next = Missing
    BY <1>7 DEF StepTo
  <2> HIDE DEF next
  <2> QED
    BY <1>3, <2>1
<1>8. CASE current # Missing /\ name # "." /\ name # ".." /\ Children(current, name) # {}
  <2>1. PICK child \in Children(current, name) :
              child = CHOOSE k \in Children(current, name) :
                         \A j \in Children(current, name) : k <= j
    BY <1>1, <1>8, ChildFound
  <2>2. next = IF last \/ fst[child].dir THEN child ELSE Missing
    BY <1>8, <2>1 DEF StepTo
  <2>3. child \in Standing /\ Folded(fst[child].name) = Folded(name)
    BY <1>1 DEF Children, Standing
  <2> HIDE DEF next
  <2>4. CASE last \/ fst[child].dir
    BY <2>2, <2>3, <2>4 DEF AtDirectory
  <2>5. CASE ~(last \/ fst[child].dir)
    BY <1>3, <2>2, <2>5
  <2> QED
    BY <2>4, <2>5
<1> HIDE DEF next
<1> QED
  BY <1>4, <1>5, <1>6, <1>7, <1>8

\* resolve_path's loop, component by component.
PathWalk(f, path, slash, current) ==
    /\ f \in [0 .. Len(path) -> Standing]
    /\ f[0] = StartAt(current)
    /\ \A k \in 0 .. Len(path) - 1 :
          f[k + 1] = StepTo(f[k], path[k + 1], k + 1 = Len(path) /\ ~slash)
    /\ Resolve(path, slash, current) = f[Len(path)]

LEMMA StartsAtDirectory ==
    ASSUME fst \in [Index -> EntryType], Accepted(disc.count, disc.parents),
           NEW current \in Nat
    PROVE  StartAt(current) \in Standing /\ AtDirectory(StartAt(current))
           /\ StartAt(current) # Missing
<1>1. disc.count \in 1 .. FstLength /\ disc.count \in Nat /\ 0 \in 0 .. disc.count - 1
  BY Tree
<1>2. fst[0].dir /\ FstLength \in Nat
  BY FstAssumption DEF Accepted, Rooted
<1>3. CASE StartAt(current) = 0
  BY <1>1, <1>2, <1>3 DEF Standing, AtDirectory, Missing
<1>4. CASE StartAt(current) # 0
  <2>1. StartAt(current) = current /\ ~(current >= disc.count) /\ fst[current].dir
    BY <1>4 DEF StartAt
  <2> QED
    BY <1>1, <1>2, <2>1 DEF Standing, AtDirectory, Missing
<1> QED
  BY <1>3, <1>4

LEMMA WalkChain ==
    ASSUME fst \in [Index -> EntryType], Accepted(disc.count, disc.parents),
           NEW S, NEW path \in Seq(S), NEW slash \in BOOLEAN, NEW current \in Nat
    PROVE  \E f : PathWalk(f, path, slash, current)
<1> DEFINE n == Len(path)
           V == Standing
           base == StartAt(current)
           positions == [i \in DOMAIN path |-> i]
           Next1(v, i) == StepTo(v, path[i], i = n /\ ~slash)
           Body(g, s) ==
              IF s = {} THEN base
              ELSE Next1(g[s \ {Max(s)}], positions[Max(s)])
           fold == CHOOSE g : g = [s \in SUBSET (1 .. n) |-> Body(g, s)]
           step == [p \in (1 .. n) \X V |-> Next1(p[2], p[1])]
<1>1. n \in Nat /\ DOMAIN positions = 1 .. n /\ \A i \in 1 .. n : positions[i] = i
  OBVIOUS
<1>2. Resolve(path, slash, current) = fold[1 .. n]
  BY <1>1 DEF Resolve, FoldLeft, MapThenFoldSet
<1>3. step \in FoldStep(n, V)
  <2>1. ASSUME NEW v \in V, NEW i \in 1 .. n PROVE Next1(v, i) \in V
    <3> DEFINE last == i = n /\ ~slash
    <3>1. last \in BOOLEAN
      OBVIOUS
    <3> HIDE DEF last
    <3>2. StepTo(v, path[i], last) \in Standing
      BY <3>1, StepLeads
    <3> QED
      BY <3>2 DEF last
  <2> HIDE DEF V, n, Next1
  <2> QED
    BY <2>1 DEF FoldStep
<1>4. base \in V
  BY StartsAtDirectory
<1> HIDE DEF base, V
<1>5. PICK h : FoldOf(h, n, V, base, step)
  <2> HIDE DEF step, n
  <2> QED
    BY <1>1, <1>3, <1>4, FoldExists
<1>6. ASSUME NEW s \in SUBSET (1 .. n), s # {}
      PROVE  Max(s) \in 1 .. n /\ positions[Max(s)] = Max(s)
  <2>1. Max(s) \in 1 .. n
    BY <1>1, <1>6, Greatest
  <2> QED
    BY <1>1, <2>1
<1> HIDE DEF Next1
<1>7. ASSUME NEW s \in SUBSET (1 .. n), NEW v \in V, s # {}
      PROVE  step[<<Max(s), v>>] = Next1(v, positions[Max(s)])
  BY <1>6, <1>7
<1> HIDE DEF step, positions
<1>8. fold = [s \in SUBSET (1 .. n) |-> Body(fold, s)]
  <2>1. ASSUME NEW s \in SUBSET (1 .. n) PROVE h[s] = Body(h, s)
    <3>1. CASE s = {}
      BY <1>5, <3>1 DEF FoldOf
    <3>2. CASE s # {}
      <4>1. h[s \ {Max(s)}] \in V
        BY <1>5 DEF FoldOf
      <4>2. h[s] = step[<<Max(s), h[s \ {Max(s)}]>>]
        BY <1>5, <3>2 DEF FoldOf
      <4> QED
        BY <1>7, <3>2, <4>1, <4>2
    <3> QED
      BY <3>1, <3>2
  <2>2. h = [s \in SUBSET (1 .. n) |-> Body(h, s)]
    BY <1>5, <2>1 DEF FoldOf
  <2> QED
    BY <2>2
<1> HIDE DEF fold
<1>9. FoldsBy(fold, n, V, base, step)
  <2>1. fold[{}] = base
    BY <1>8
  <2>2. ASSUME NEW s \in SUBSET (1 .. n), s # {}, fold[s \ {Max(s)}] \in V
        PROVE  fold[s] = step[<<Max(s), fold[s \ {Max(s)}]>>]
    <3>1. fold[s] = Next1(fold[s \ {Max(s)}], positions[Max(s)])
      BY <1>8, <2>2
    <3> QED
      BY <1>7, <2>2, <3>1
  <2> QED
    BY <2>1, <2>2 DEF FoldsBy
<1>10. FoldChains(fold, n, V, base, step)
  <2> HIDE DEF n
  <2> QED
    BY <1>1, <1>3, <1>4, <1>9, FoldChain
<1> DEFINE f == [k \in 0 .. n |-> fold[1 .. k]]
<1>11. f \in [0 .. n -> V] /\ f[0] = base /\ Resolve(path, slash, current) = f[n]
  BY <1>1, <1>2, <1>10 DEF FoldChains
<1>12. ASSUME NEW k \in 0 .. n - 1 PROVE f[k + 1] = Next1(f[k], k + 1)
  <2>1. k \in 0 .. n /\ k + 1 \in 1 .. n /\ k + 1 \in 0 .. n
    BY <1>1
  <2>2. f[k] \in V /\ f[k + 1] = step[<<k + 1, f[k]>>]
    BY <1>10, <2>1 DEF FoldChains
  <2> HIDE DEF f
  <2> QED
    BY <2>1, <2>2 DEF step
<1> HIDE DEF f
<1> QED
  BY <1>11, <1>12 DEF V, base, Next1, PathWalk

\* A lookup that ends at a file: the last component is its name, and no
\* slash follows.
LEMMA FilesAreNamed ==
    ASSUME fst \in [Index -> EntryType], Accepted(disc.count, disc.parents),
           NEW S, NEW path \in Seq(S), NEW slash \in BOOLEAN, NEW current \in Nat
    PROVE  LET entry == Resolve(path, slash, current)
           IN  /\ entry \in Standing
               /\ entry # Missing /\ ~fst[entry].dir =>
                     path # <<>> /\ ~slash /\ Folded(Last(path)) = Folded(fst[entry].name)
<1> DEFINE entry == Resolve(path, slash, current)
           n == Len(path)
<1>1. PICK f : PathWalk(f, path, slash, current)
  BY WalkChain
<1>2. /\ f \in [0 .. n -> Standing] /\ f[0] = StartAt(current) /\ entry = f[n]
      /\ \A k \in 0 .. n - 1 : f[k + 1] = StepTo(f[k], path[k + 1], k + 1 = n /\ ~slash)
  BY <1>1 DEF PathWalk
<1>3. n \in Nat /\ n \in 0 .. n /\ (n = 0 <=> path = <<>>) /\ Last(path) = path[n]
  BY DEF Last
<1> HIDE DEF n, entry
<1> DEFINE Last1(k) == k = n /\ ~slash
           T == {k \in Nat : k <= n /\ ~Last1(k) => AtDirectory(f[k])}
<1>4. 0 \in T
  BY <1>2, StartsAtDirectory
<1>5. ASSUME NEW k \in Nat, k <= n - 1
      PROVE  /\ k \in 0 .. n - 1 /\ f[k] \in Standing /\ Last1(k + 1) \in BOOLEAN
             /\ f[k + 1] = StepTo(f[k], path[k + 1], Last1(k + 1))
  BY <1>2, <1>3, <1>5
<1>6. ASSUME NEW k \in T PROVE k + 1 \in T
  <2> SUFFICES ASSUME k + 1 <= n, ~Last1(k + 1) PROVE AtDirectory(f[k + 1])
    OBVIOUS
  <2>1. k \in Nat /\ k <= n - 1 /\ k # n /\ k <= n
    BY <1>3
  <2>2. AtDirectory(f[k])
    BY <2>1
  <2>3. f[k] \in Standing /\ Last1(k + 1) \in BOOLEAN
        /\ f[k + 1] = StepTo(f[k], path[k + 1], Last1(k + 1))
    BY <1>5, <2>1
  <2> DEFINE last == Last1(k + 1)
  <2> HIDE DEF Last1, last
  <2>4. last \in BOOLEAN /\ ~last /\ f[k + 1] = StepTo(f[k], path[k + 1], last)
    BY <2>3 DEF last
  <2> QED
    BY <2>2, <2>3, <2>4, StepLeads
<1>7. T = Nat
  <2>1. T \in SUBSET Nat
    OBVIOUS
  <2> HIDE DEF T
  <2> QED
    BY <1>4, <1>6, <2>1, SetInduction
<1>8. entry \in Standing
  BY <1>2, <1>3
<1>9. ASSUME entry # Missing, ~fst[entry].dir
      PROVE  path # <<>> /\ ~slash /\ Folded(Last(path)) = Folded(fst[entry].name)
  <2>1. ~AtDirectory(f[n])
    BY <1>2, <1>9 DEF AtDirectory
  <2>2. ~slash
    BY <1>3, <1>7, <2>1
  <2>3. n # 0
    BY <1>2, <2>1, StartsAtDirectory
  <2> DEFINE k == n - 1
  <2>4. k \in Nat /\ k <= n - 1 /\ k <= n /\ k # n /\ k + 1 = n
    BY <1>3, <2>3
  <2>5. AtDirectory(f[k])
    BY <1>7, <2>4
  <2> HIDE DEF T, k
  <2>6. f[k] \in Standing /\ Last1(k + 1) \in BOOLEAN
        /\ f[k + 1] = StepTo(f[k], path[k + 1], Last1(k + 1))
    BY <1>5, <2>4
  <2> DEFINE last == Last1(k + 1)
  <2> HIDE DEF last, Last1
  <2>7. last \in BOOLEAN /\ f[n] = StepTo(f[k], path[n], last)
    BY <2>4, <2>6 DEF last
  <2>8. Folded(path[n]) = Folded(fst[f[n]].name)
    BY <2>1, <2>5, <2>6, <2>7, StepLeads
  <2> QED
    BY <1>2, <1>3, <2>2, <2>3, <2>8
<1> QED
  BY <1>8, <1>9 DEF entry

\* No directory has two entries of one name.
Unshadowed ==
    \A j, k \in 1 .. disc.count - 1 :
        Folded(fst[j].name) = Folded(fst[k].name) /\ disc.parents[j] = disc.parents[k] => j = k

LEMMA StepsDown ==
    ASSUME fst \in [Index -> EntryType], Accepted(disc.count, disc.parents), Unshadowed,
           NEW d \in 1 .. disc.count - 1, NEW last \in BOOLEAN, last \/ fst[d].dir
    PROVE  StepTo(disc.parents[d], fst[d].name, last) = d
<1> DEFINE parent == disc.parents[d]
           name == fst[d].name
<1>1. disc.count \in 1 .. FstLength /\ disc.count \in Nat /\ parent \in 0 .. disc.count - 1
  BY Tree
<1>2. parent # Missing
  BY <1>1, FstAssumption DEF Missing
<1>3. name # "." /\ name # ".."
  <2>1. name \notin BadName
    BY DEF Accepted, NamesValid
  <2>2. name \in FstName
    <3>1. d \in Index
      BY <1>1, FstAssumption DEF Index
    <3> QED
      BY <3>1, EntryTyped
  <2>3. {".", ".."} \cap FstName \subseteq BadName
    BY FstAssumption
  <2> HIDE DEF name
  <2> QED
    BY <2>1, <2>2, <2>3
<1>4. Children(parent, name) = {d}
  BY DEF Children, Unshadowed
<1> HIDE DEF parent, name
<1>5. d = CHOOSE i \in Children(parent, name) : \A j \in Children(parent, name) : i <= j
  <2>1. d <= d
    BY <1>1
  <2> QED
    BY <1>4, <2>1
<1>6. StepTo(parent, name, last) = IF last \/ fst[d].dir THEN d ELSE Missing
  <2>1. Children(parent, name) # {}
    BY <1>4
  <2> QED
    BY <1>2, <1>3, <1>5, <2>1 DEF StepTo
<1> QED
  BY <1>6 DEF parent, name

LEMMA PathLeadsBack ==
    ASSUME fst \in [Index -> EntryType], Accepted(disc.count, disc.parents), Unshadowed,
           NEW i \in 1 .. disc.count - 1
    PROVE  Resolve(PathIn(disc.parents, i), FALSE, 0) = i
<1> DEFINE count == disc.count
           parents == disc.parents
           path == PathIn(parents, i)
           n == Len(path)
           To(d) == PathIn(parents, d)
           Begins(d) == /\ Len(To(d)) <= n
                        /\ \A k \in 1 .. Len(To(d)) : To(d)[k] = path[k]
                        /\ Len(To(d)) = n \/ fst[d].dir
<1>1. /\ count \in 1 .. FstLength /\ count \in Nat
      /\ \A d \in 1 .. count - 1 : parents[d] \in 0 .. d - 1 /\ fst[parents[d]].dir
                                   /\ parents[d] \in 0 .. count - 1
  BY Tree
<1>2. /\ To(0) = <<>>
      /\ \A d \in 0 .. count - 1 : To(d) \in Seq(FstName)
      /\ \A d \in 1 .. count - 1 : To(d) = Append(To(parents[d]), fst[d].name)
  BY PathStep
<1>3. i \in 0 .. count - 1 /\ path \in Seq(FstName) /\ n \in Nat /\ i <= i
  BY <1>1, <1>2
<1>4. PICK f : PathWalk(f, path, FALSE, 0)
  <2>1. FALSE \in BOOLEAN /\ 0 \in Nat
    OBVIOUS
  <2> HIDE DEF path
  <2> QED
    BY <1>3, <2>1, WalkChain
<1>5. /\ f[0] = StartAt(0) /\ Resolve(path, FALSE, 0) = f[n]
      /\ \A k \in 0 .. n - 1 : f[k + 1] = StepTo(f[k], path[k + 1], k + 1 = n /\ ~FALSE)
  BY <1>4 DEF PathWalk
<1>6. f[0] = 0
  BY <1>5 DEF StartAt
<1>7. \A d \in 1 .. count - 1 : fst[d].name \in FstName
  <2> SUFFICES ASSUME NEW d \in 1 .. count - 1 PROVE fst[d].name \in FstName
    OBVIOUS
  <2>1. d \in Index
    BY <1>1, FstAssumption DEF Index
  <2> QED
    BY <2>1, EntryTyped
<1> DEFINE T == {j \in Nat : \A d \in 0 .. count - 1 : d <= j /\ Begins(d) => f[Len(To(d))] = d}
<1> HIDE DEF path, n, To
<1>8. 0 \in T
  <2> SUFFICES ASSUME NEW d \in 0 .. count - 1, d <= 0 PROVE f[Len(To(d))] = d
    OBVIOUS
  <2>1. d = 0
    OBVIOUS
  <2>2. Len(To(d)) = 0
    BY <1>2, <2>1
  <2> QED
    BY <1>6, <2>1, <2>2
<1>9. ASSUME NEW j \in T PROVE j + 1 \in T
  <2> SUFFICES ASSUME NEW d \in 0 .. count - 1, d <= j + 1, Begins(d)
               PROVE  f[Len(To(d))] = d
    OBVIOUS
  <2>1. CASE d <= j
    BY <2>1
  <2>2. CASE ~(d <= j)
    <3> DEFINE p == parents[d]
               l == Len(To(p))
    <3>1. d = j + 1 /\ d \in 1 .. count - 1 /\ j \in Nat
      BY <1>1, <2>2
    <3>2. p \in 0 .. count - 1 /\ p <= j /\ fst[p].dir
      BY <1>1, <3>1
    <3>3. To(p) \in Seq(FstName) /\ To(d) = Append(To(p), fst[d].name) /\ fst[d].name \in FstName
      BY <1>2, <1>7, <3>1, <3>2
    <3>4. /\ Len(To(d)) = l + 1 /\ l \in Nat
          /\ \A k \in 1 .. l : To(d)[k] = To(p)[k]
          /\ To(d)[l + 1] = fst[d].name
      BY <3>3, Pushed
    <3> HIDE DEF p, l
    <3>5. l + 1 <= n /\ (l + 1 = n \/ fst[d].dir)
          /\ \A k \in 1 .. l + 1 : To(d)[k] = path[k]
      BY <3>4
    <3>6. Begins(p)
      <4>1. l <= n /\ \A k \in 1 .. l : k \in 1 .. l + 1
        BY <1>3, <3>4, <3>5
      <4>2. \A k \in 1 .. l : To(p)[k] = path[k]
        BY <3>4, <3>5, <4>1
      <4> QED
        BY <3>2, <4>1, <4>2 DEF l
    <3>7. f[l] = p
      BY <3>1, <3>2, <3>6 DEF l
    <3> DEFINE last == l + 1 = n /\ ~FALSE
    <3>8. l \in 0 .. n - 1 /\ l + 1 \in 1 .. l + 1
      BY <1>3, <3>4, <3>5
    <3>9. f[l + 1] = StepTo(p, path[l + 1], last)
      BY <1>5, <3>7, <3>8
    <3>10. last \in BOOLEAN /\ (last \/ fst[d].dir)
      BY <3>5
    <3> HIDE DEF last
    <3>11. path[l + 1] = fst[d].name
      BY <3>4, <3>5, <3>8
    <3>12. StepTo(p, fst[d].name, last) = d
      BY <3>1, <3>10, StepsDown DEF p
    <3> QED
      BY <3>4, <3>9, <3>11, <3>12
  <2> QED
    BY <2>1, <2>2
<1>10. i \in T
  <2>1. T \in SUBSET Nat
    OBVIOUS
  <2>2. i \in Nat
    BY <1>1
  <2> HIDE DEF T
  <2> QED
    BY <1>8, <1>9, <2>1, <2>2, SetInduction
<1>11. To(i) = path /\ Len(To(i)) = n
  BY DEF To, path, n
<1>12. Begins(i)
  BY <1>3, <1>11
<1>13. f[n] = i
  BY <1>3, <1>10, <1>11, <1>12
<1> QED
  BY <1>5, <1>13 DEF path

LEMMA AcceptedLeadsBack ==
    ASSUME fst \in [Index -> EntryType], disc.ready, Accepted(disc.count, disc.parents)
    PROVE  PathsLeadBack
<1>1. \A i \in 1 .. disc.count - 1 : Unshadowed => Resolve(PathIn(disc.parents, i), FALSE, 0) = i
  BY PathLeadsBack
<1> QED
  BY <1>1 DEF PathsLeadBack, Unshadowed

\* The bytes of one file are those of no other.
LEMMA FilesAreApart ==
    ASSUME fst \in [Index -> EntryType], NEW count \in 1 .. FstLength, ~Overlapping(count),
           NEW e \in Files(count), NEW f \in Files(count), f # e,
           NEW byte \in 0 .. fst[e].second - 1
    PROVE  OffsetUnit * fst[e].first + byte \notin (OffsetUnit * fst[f].first) .. (FileEnd(f) - 1)
<1>1. e \in Index /\ f \in Index
  BY FstAssumption DEF Files, Index
<1>2. /\ fst[e].first \in Nat /\ fst[e].second \in Nat
      /\ fst[f].first \in Nat /\ fst[f].second \in Nat
  BY <1>1, EntryTyped
<1> DEFINE a == OffsetUnit * fst[e].first
           b == OffsetUnit * fst[f].first
           s == fst[e].second
           t == fst[f].second
<1>3. a \in Nat /\ b \in Nat /\ s \in Nat /\ t \in Nat
  BY <1>2, FstAssumption
<1>4. s # 0 /\ byte \in Nat /\ byte < s
  BY <1>2
<1>5. t # 0 /\ fst[e].first <= fst[f].first => ~(b < a + s)
  BY <1>4 DEF Overlapping, FileEnd
<1>6. t # 0 /\ fst[f].first <= fst[e].first => ~(a < b + t)
  BY <1>4 DEF Overlapping, FileEnd
<1>7. fst[e].first <= fst[f].first \/ fst[f].first <= fst[e].first
  BY <1>2
<1> DEFINE end == FileEnd(f)
<1>8. end = b + t
  BY DEF FileEnd
<1> HIDE DEF a, b, s, t, end
<1>9. a + byte \notin b .. (end - 1)
  BY <1>3, <1>4, <1>5, <1>6, <1>7, <1>8
<1> QED
  BY <1>9, Zenon DEF a, b, end
-----------------------------------------------------------------------------
(* An open image is the table as parse_fst leaves it, and the last lookup  *)
(* opened what its path names.                                             *)
ImageIInv ==
    /\ fst \in [Index -> EntryType]
    /\ disc \in {NoDisc, Parsed}
    /\ lookup.entry \in 0 .. FstLength
    /\ OpensWhatIsNamed

LEMMA ReadyIsAccepted ==
    ASSUME ImageIInv, disc.ready
    PROVE  fst \in [Index -> EntryType] /\ Accepted(disc.count, disc.parents)
  BY ParsedIs DEF ImageIInv, NoDisc

\* What a table means depends on the table only.
LEMMA ParsedStays ==
    ASSUME fst' = fst PROVE Parsed' = Parsed
<1>1. \A count : Indexed(count)' = Indexed(count)
  BY DEF Indexed, FoldLeft, MapThenFoldSet, IndexEntry, Unstacked
<1>2. \A parents, index : PathIn(parents, index)' = PathIn(parents, index)
  BY DEF PathIn
<1>3. \A count : /\ NamesValid(count)' = NamesValid(count)
                 /\ Overlapping(count)' = Overlapping(count)
                 /\ Files(count)' = Files(count)
  BY DEF NamesValid, Overlapping, Files, FileEnd
<1> QED
  BY <1>1, <1>2, <1>3 DEF Parsed

LEMMA ImageInitial ==
    ASSUME ImageInit PROVE ImageIInv
<1>1. /\ fst \in [Index -> EntryType] /\ disc = NoDisc /\ lookup = NoLookup
  BY DEF ImageInit, ImageFrom
<1>2. lookup.entry = FstLength /\ lookup.opened = FALSE
  BY <1>1 DEF NoLookup, Missing
<1>3. FstLength \in 0 .. FstLength
  BY FstAssumption
<1> QED
  BY <1>1, <1>2, <1>3 DEF ImageIInv, OpensWhatIsNamed

LEMMA ImageStep ==
    ASSUME ImageIInv, [ImageNext]_imageVars PROVE ImageIInv'
<1>1. CASE UNCHANGED imageVars
  <2>1. fst' = fst /\ disc' = disc /\ lookup' = lookup
    BY <1>1 DEF imageVars
  <2>2. Parsed' = Parsed
    BY <2>1, ParsedStays
  <2> QED
    BY <2>1, <2>2 DEF ImageIInv, OpensWhatIsNamed, Files, FileEnd
<1>2. ASSUME fst' = fst, disc' \in {Parsed, NoDisc}, lookup' = NoLookup
      PROVE  ImageIInv'
  <2>1. Parsed' = Parsed
    BY <1>2, ParsedStays
  <2>2. lookup'.entry = FstLength /\ lookup'.opened = FALSE
    BY <1>2 DEF NoLookup, Missing
  <2>3. FstLength \in 0 .. FstLength
    BY FstAssumption
  <2> QED
    BY <1>2, <2>1, <2>2, <2>3 DEF ImageIInv, OpensWhatIsNamed
<1>3. CASE OpenImage
  BY <1>2, <1>3 DEF OpenImage
<1>4. CASE CloseImage
  BY <1>2, <1>4 DEF CloseImage
<1>5. ASSUME NEW length \in 0 .. PathLength, NEW current \in CurrentCell, NEW slash \in BOOLEAN,
             NEW path \in [1 .. length -> LookupName], LookUp(path, slash, current)
      PROVE  ImageIInv'
  <2> DEFINE entry == Resolve(path, slash, current)
             opens == entry # Missing /\ ~fst[entry].dir
             size == IF opens THEN fst[entry].second ELSE 0
             word == IF opens THEN fst[entry].first ELSE 0
             named == IF path = <<>> THEN NoName ELSE <<Last(path)>>
  <2>1. /\ disc.ready /\ fst' = fst /\ disc' = disc
        /\ lookup' = [last |-> named, slash |-> slash, entry |-> entry, opened |-> opens,
                      word |-> word, size |-> size]
    BY <1>5 DEF LookUp
  <2>2. fst \in [Index -> EntryType] /\ Accepted(disc.count, disc.parents)
    BY <2>1, ReadyIsAccepted
  <2>3. path \in Seq(LookupName) /\ current \in Nat
    BY FstAssumption
  <2>4. /\ entry \in Standing
        /\ opens => path # <<>> /\ ~slash /\ Folded(Last(path)) = Folded(fst[entry].name)
    BY <2>2, <2>3, FilesAreNamed
  <2>5. disc.count \in 1 .. FstLength /\ ~Overlapping(disc.count)
    BY <2>2 DEF Accepted
  <2>6. opens => entry \in Files(disc.count)
    BY <2>4 DEF Standing, Files
  <2> HIDE DEF entry
  <2>7. opens => word = fst[entry].first /\ size = fst[entry].second
    OBVIOUS
  <2> HIDE DEF word, size
  <2>8. ASSUME opens, NEW f \in Files(disc.count) \ {entry}, NEW byte \in 0 .. size - 1
        PROVE  OffsetUnit * word + byte \notin (OffsetUnit * fst[f].first) .. (FileEnd(f) - 1)
    <3>1. byte \in 0 .. fst[entry].second - 1
      BY <2>7, <2>8
    <3> QED
      BY <2>2, <2>5, <2>6, <2>7, <2>8, <3>1, FilesAreApart
  <2>9. opens => named # NoName /\ named[1] = Last(path)
    BY <2>4 DEF NoName
  <2> HIDE DEF named, opens
  <2>10. /\ lookup'.last = named /\ lookup'.slash = slash /\ lookup'.entry = entry
         /\ lookup'.opened = opens /\ lookup'.word = word /\ lookup'.size = size
    BY <2>1
  <2>11. OpensWhatIsNamed'
    <3> SUFFICES ASSUME opens
                 PROVE  /\ named # NoName /\ ~slash
                        /\ Folded(named[1]) = Folded(fst[entry].name)
                        /\ \A f \in Files(disc.count) \ {entry} : \A byte \in 0 .. size - 1 :
                              OffsetUnit * word + byte
                                \notin (OffsetUnit * fst[f].first) .. (FileEnd(f) - 1)
      BY <2>1, <2>10 DEF OpensWhatIsNamed, Files, FileEnd
    <3> QED
      BY <2>4, <2>8, <2>9
  <2>12. entry \in 0 .. FstLength
    BY <2>4, <2>5, FstAssumption DEF Standing, Missing
  <2>13. Parsed' = Parsed
    BY <2>1, ParsedStays
  <2> QED
    BY <2>1, <2>2, <2>10, <2>11, <2>12, <2>13 DEF ImageIInv
<1> QED
  BY <1>1, <1>3, <1>4, <1>5 DEF ImageNext

(* Every image smg3ds_disc_init opens is an accepted table, for any table. *)
THEOREM ImageInvariance == ImageSpec => []ImageIInv
<1>1. ImageInit => ImageIInv
  BY ImageInitial
<1>2. ImageIInv /\ [ImageNext]_imageVars => ImageIInv'
  BY ImageStep
<1> QED
  BY <1>1, <1>2, PTL DEF ImageSpec

(* parse_fst gives every entry behind the root a parent in the table.      *)
THEOREM ImageTypeCorrect == ImageSpec => []ImageTypeOK
<1>1. ImageIInv => ImageTypeOK
  <2> SUFFICES ASSUME ImageIInv PROVE ImageTypeOK
    OBVIOUS
  <2>1. lookup.entry \in 0 .. FstLength
    BY DEF ImageIInv
  <2>2. CASE disc.ready
    <3>1. /\ disc.count \in 1 .. FstLength /\ disc.count \in Nat
          /\ disc.parents \in Seq(Index) /\ Len(disc.parents) = disc.count - 1
      BY <2>2, ReadyIsAccepted, Tree
    <3>2. disc.count \in 0 .. FstLength
      BY <3>1, FstAssumption
    <3>3. disc.parents \in [1 .. disc.count - 1 -> Index]
      BY <3>1
    <3>4. disc.ready \in BOOLEAN
      <4>1. disc = NoDisc \/ disc = Parsed
        BY DEF ImageIInv
      <4>2. NoDisc.ready \in BOOLEAN
        BY DEF NoDisc
      <4>3. Parsed = NoDisc \/ Parsed.ready = TRUE
        BY DEF Parsed
      <4> QED
        BY <4>1, <4>2, <4>3
    <3> QED
      BY <2>1, <3>2, <3>3, <3>4 DEF ImageTypeOK
  <2>3. CASE ~disc.ready
    <3>1. disc = NoDisc
      BY <2>3 DEF ImageIInv, Parsed
    <3> QED
      BY <2>1, <3>1, FstAssumption DEF ImageTypeOK, NoDisc
  <2> QED
    BY <2>2, <2>3
<1> QED
  BY <1>1, ImageInvariance, PTL

(* The table is a tree indexed as its ranges say, the paths of             *)
(* build_relative_path lead resolve_path back to their entries, and        *)
(* smg3ds_disc_open_path opens the file that was named, whose bytes are in *)
(* no other, for any table, names, paths and current directory.            *)
THEOREM ImageIsExact == ImageSpec => []ImageExact
<1>1. ImageIInv => ImageExact
  <2> SUFFICES ASSUME ImageIInv PROVE ImageExact
    OBVIOUS
  <2>1. disc.ready => TreeIndexed /\ PathsLeadBack
    BY ReadyIsAccepted, AcceptedIsTree, AcceptedLeadsBack
  <2>2. ~disc.ready => TreeIndexed /\ PathsLeadBack
    BY DEF TreeIndexed, PathsLeadBack
  <2> QED
    BY <2>1, <2>2 DEF ImageExact, ImageIInv
<1> QED
  BY <1>1, ImageInvariance, PTL
===============================================================================
