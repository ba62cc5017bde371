------------------------------ MODULE IosFiles ------------------------------
(***************************************************************************)
(* The descriptors of ios_hle.c and the files behind them: IPC open,       *)
(* close, read, write and seek, and the requests to /dev/fs, on the        *)
(* console's file system kept in a directory of the SD card.               *)
(*                                                                         *)
(* The SD card and the C library are external: any call may fail, and what *)
(* has been written to a stream reaches the card when the stream is        *)
(* flushed.  A request is answered before the next one is looked at, so a  *)
(* request is one action.  Ranges of guest memory are those of GuestCopy;  *)
(* a request with a bad range or a bad string is refused before it touches *)
(* anything and is left out.                                               *)
(***************************************************************************)
EXTENDS Integers, Sequences, SequencesExt, FiniteSets

CONSTANTS
    FdBase, FdCount,   \* SMG3DS_IOS_FD_BASE, SMG3DS_IOS_FD_COUNT
    GuestPath,         \* the paths the guest names, see PathType
    PathDepth,         \* SMG3DS_HOST_PATH_CAPACITY, in names
    FileByte,          \* values of a byte
    MaxLength,         \* bound: bytes in a file
    Inode,             \* files of the card
    NoInode,
    GuestMode,         \* bound: the modes in which it opens them, of 1, 2, 3
    StreamPath,        \* bound: the files it reads and writes
    MaxFailures        \* bound: failures of the C library

\* A name "data" stands for the three of g_title_data_dir, "tmp" for the two
\* of /tmp/sys.
DataDir == <<"data">>
Temp == <<"tmp">>
Unsafe == {"..", "back\\slash"}
PathType == [absolute : BOOLEAN, names : Seq(STRING)]

ASSUME FilesAssumption ==
    /\ FdBase \in Nat /\ FdCount \in Nat \ {0}
    /\ NoInode \notin Inode
    /\ GuestPath \subseteq PathType
    /\ StreamPath \subseteq GuestPath /\ GuestMode \subseteq 1..3
    /\ MaxLength \in Nat /\ MaxFailures \in Nat

Slot == 1..FdCount
-----------------------------------------------------------------------------
(* Which paths are the title's own, and where they lie on the card. *)

Safe(path) == ToSet(path.names) \cap Unsafe = {}

\* nand_path_is_safe, title_relative_path_is_safe
NandSafe(path) == path.absolute /\ Safe(path)
TitleRelative(path) == ~path.absolute /\ path.names # <<>> /\ Safe(path)

\* title_root_file_is_save, title_temp_path_is_safe
TitleSave(path) ==
    path.absolute /\ path.names \in {<<"GameData.bin">>, <<"banner.bin">>}
TitleTemp(path) == NandSafe(path) /\ IsPrefix(Temp, path.names)

(* nand_path_is_title_data *)
TitleData(path) ==
    \/ TitleRelative(path) \/ TitleSave(path) \/ TitleTemp(path)
    \/ path.absolute /\ IsPrefix(DataDir, path.names)

Refused == <<"refused">>
Fitting(names) == IF Len(names) < PathDepth THEN names ELSE Refused

(* Mutant: a path of the title's is taken as it is. *)
HostPathUnchecked(path) ==
    IF TitleRelative(path) \/ TitleSave(path) THEN Fitting(DataDir \o path.names)
    ELSE IF TitleTemp(path)
         THEN Fitting(DataDir \o <<".tmp">> \o SubSeq(path.names, 2, Len(path.names)))
    ELSE IF path.absolute THEN Fitting(path.names)
    ELSE Refused

(* host_path_for_nand *)
HostPath(path) ==
    IF TitleRelative(path) \/ TitleSave(path) THEN Fitting(DataDir \o path.names)
    ELSE IF TitleTemp(path)
         THEN Fitting(DataDir \o <<".tmp">> \o SubSeq(path.names, 2, Len(path.names)))
    ELSE IF NandSafe(path) THEN Fitting(path.names)
    ELSE Refused

\* The card takes ".." as the directory above.
Resolved(names) ==
    FoldLeft(LAMBDA place, name :
                 IF name # ".." THEN Append(place, name)
                 ELSE IF place = <<>> THEN <<>> ELSE Front(place),
             <<>>, names)

Names(path) == Resolved(HostPath(path))

\* The places the guest's paths lead to, as they are or as they are served,
\* and those above them.
PathEnd == {Names(p) : p \in GuestPath} \cup {Resolved(p.names) : p \in GuestPath}
Node == {<<>>} \cup PathEnd \cup UNION {Prefixes(end) : end \in PathEnd}
Above(node) == {above \in Node : IsStrictPrefix(above, node)}

\* What a place is when it is no file.
NoFile == {"none", "dir"}
ASSUME NoFileAssumption == NoFile \cap Inode = {}
-----------------------------------------------------------------------------
VARIABLES
    fds,        \* g_fds, with the stream of each open file
    nextFd,     \* g_next_fd
    tree,       \* the card: "none", "dir" or a file for each place
    content,    \* the bytes of each file on the card
    believed,   \* history: the bytes as the guest's answers told it, see below
    failures,   \* how many calls have failed
    answer      \* history: the last answer, where a property asks for it

filesVars == <<fds, nextFd, tree, content, believed, failures, answer>>

\* A stream: where it stands, the bytes it holds back, written just before
\* that place, and what it did last.  "told" is history: the position the
\* guest's answers told it, or Unknown.
Unknown == -1
Free == [used |-> FALSE, fd |-> 0, mode |-> 1, inode |-> NoInode,
         at |-> 0, held |-> <<>>, last |-> "none", told |-> 0]

\* A file has the bytes the guest believes, or the guest has been told of a
\* failure and believes nothing.
Lost == <<Unknown>>

FilesInit ==
    /\ fds = [s \in Slot |-> Free]
    /\ nextFd = FdBase
    /\ tree = [n \in Node |-> IF n = <<>> THEN "dir" ELSE "none"]
    /\ content = [i \in Inode |-> <<>>]
    /\ believed = [i \in Inode |-> <<>>]
    /\ failures = 0
    /\ answer = [request |-> "other"]

Reply == answer' = [request |-> "other"]

MayFail == failures < MaxFailures
Counted(ok) == failures' = IF ok THEN failures ELSE failures + 1
Fail == MayFail /\ Counted(FALSE)
Sound == Counted(TRUE)
-----------------------------------------------------------------------------
(* The C library. *)

\* Bytes written at a place; what lies between reads as zero.
Overlaid(bytes, at, new) ==
    [i \in 1..Max({Len(bytes), at + Len(new)}) |->
        IF i > at /\ i <= at + Len(new) THEN new[i - at]
        ELSE IF i <= Len(bytes) THEN bytes[i] ELSE 0]

Slice(bytes, from, size) ==
    SubSeq(bytes, from + 1, Min({from + size, Len(bytes)}))

Overwritten(bytes, at, new) == IF new = <<>> THEN bytes ELSE Overlaid(bytes, at, new)

\* fflush: the bytes held back reach the card, or only some of them.
FlushedContent(stream, kept) ==
    IF stream.inode = NoInode THEN content
    ELSE [content EXCEPT ![stream.inode] =
             Overwritten(@, stream.at - Len(stream.held), SubSeq(stream.held, 1, kept))]

FlushOutcome(stream) ==
    {[ok |-> TRUE, content |-> FlushedContent(stream, Len(stream.held))]} \cup
    (IF stream.held # <<>> /\ MayFail
     THEN {[ok |-> FALSE, content |-> FlushedContent(stream, kept)] :
               kept \in 0..(Len(stream.held) - 1)}
     ELSE {})

\* After a failure the guest believes nothing of the file.
Believing(ok, inode) ==
    believed' = IF ok THEN believed ELSE [believed EXCEPT ![inode] = Lost]

Rewound(stream, at, told) ==
    [stream EXCEPT !.at = at, !.held = <<>>, !.last = "none", !.told = told]

Opened == {s \in Slot : fds[s].used /\ fds[s].inode # NoInode}
-----------------------------------------------------------------------------
(* Descriptors. *)

(* Mutant: the number after the last one given out is taken without a look. *)
NewFdUnchecked ==
    {nextFd}

\* allocate_fd: the first number from nextFd on that no slot has.
NewFd ==
    LET candidate(attempt) == FdBase + ((nextFd - FdBase + attempt) % FdCount)
        taken == {fds[s].fd : s \in {t \in Slot : fds[t].used}}
        free == {a \in 0..(FdCount - 1) : candidate(a) \notin taken}
    IN  {candidate(a) : a \in {b \in free : \A c \in free : b <= c}}

FreeSlot == {s \in Slot : ~fds[s].used /\ \A t \in Slot : ~fds[t].used => s <= t}

Allocate(mode, inode) ==
    /\ \/ /\ NewFd = {} \/ FreeSlot = {}
          /\ answer' = [request |-> "full"]
          /\ UNCHANGED <<fds, nextFd>>
       \/ \E fd \in NewFd, s \in FreeSlot :
             /\ fds' = [fds EXCEPT ![s] =
                    [Free EXCEPT !.used = TRUE, !.fd = fd, !.mode = mode, !.inode = inode]]
             /\ nextFd' = IF fd + 1 >= FdBase + FdCount THEN FdBase ELSE fd + 1
             /\ Reply
    /\ UNCHANGED <<tree, content, believed, failures>>

\* A request that changes nothing, whatever it answers.
Nothing == Reply /\ UNCHANGED <<fds, nextFd, tree, content, believed, failures>>

\* handle_open of a device or of a path that is not the title's: no file.
OpenDevice(path) == ~TitleData(path) /\ Allocate(1, NoInode)

\* handle_open of a file.  The title opens a file once at a time.
OpenFile(path, mode) ==
    /\ TitleData(path)
    /\ HostPath(path) # Refused
    /\ tree[Names(path)] \in Inode
    /\ \A s \in Opened : fds[s].inode # tree[Names(path)]
    /\ Allocate(mode, tree[Names(path)])

OpenRefused(path) ==
    /\ TitleData(path)
    /\ HostPath(path) = Refused \/ tree[Names(path)] \notin Inode
    /\ Nothing

\* handle_close
Close(s) ==
    /\ fds[s].used
    /\ \E flush \in FlushOutcome(fds[s]) :
          /\ content' = flush.content
          /\ Believing(flush.ok, fds[s].inode)
          /\ Counted(flush.ok)
    /\ fds' = [fds EXCEPT ![s] = Free]
    /\ Reply
    /\ UNCHANGED <<nextFd, tree>>

\* A descriptor that is not open.
BadDescriptor(fd) == (\A s \in Slot : ~(fds[s].used /\ fds[s].fd = fd)) /\ Nothing
-----------------------------------------------------------------------------
(* handle_read_write, handle_seek *)

\* Without a file reads find the end and writes are swallowed; with one the
\* mode may forbid either.
DeviceReadWrite(s) == fds[s].used /\ fds[s].inode = NoInode /\ Nothing
AccessRefused(s) == s \in Opened /\ fds[s].mode \in {1, 2} /\ Nothing

Told(s, bytes) == IF fds[s].told = Unknown THEN Unknown ELSE fds[s].told + bytes

\* A stream that holds bytes back flushes them before it reads.  On an error
\* it stands after what it has read.
Read(s, size) ==
    /\ s \in Opened /\ fds[s].mode # 2
    /\ \E flush \in FlushOutcome(fds[s]) :
          LET given == Slice(flush.content[fds[s].inode], fds[s].at, size)
              after(read, told) == [fds EXCEPT
                  ![s].at = @ + read, ![s].held = <<>>, ![s].last = "read",
                  ![s].told = told]
          IN  /\ content' = flush.content
              /\ Believing(flush.ok, fds[s].inode)
              /\ \/ /\ flush.ok /\ Sound
                    /\ fds' = after(Len(given), Told(s, Len(given)))
                    /\ answer' = [request |-> "read", size |-> size, bytes |-> given,
                                  inode |-> fds[s].inode, from |-> fds[s].told]
                 \/ /\ Fail
                    /\ \E read \in 0..Len(given) : fds' = after(read, Unknown)
                    /\ Reply
    /\ UNCHANGED <<nextFd, tree>>

\* Where a write begins: a stream that read before and was not repositioned
\* may stand anywhere up to the end of what it has read ahead.
WritePlaces(s) ==
    IF fds[s].last # "read" THEN {fds[s].at}
    ELSE fds[s].at..Max({fds[s].at, Min({Len(content[fds[s].inode]), MaxLength - 1})})

\* What the guest believes after a write that was acknowledged.
BelievedWritten(s, byte) ==
    [believed EXCEPT ![fds[s].inode] =
        IF @ = Lost \/ fds[s].told = Unknown \/ fds[s].last = "read" THEN Lost
        ELSE Overlaid(@, fds[s].told, <<byte>>)]

\* A byte written: the stream holds it back, or passes on all it holds.
Write(s, byte) ==
    /\ s \in Opened /\ fds[s].mode # 1
    /\ fds[s].at < MaxLength
    /\ \E place \in WritePlaces(s) :
         LET stream == [fds[s] EXCEPT !.at = place + 1, !.held = Append(@, byte),
                            !.last = "write",
                            !.told = IF fds[s].last = "read" THEN Unknown
                                     ELSE Told(s, 1)]
         IN  \/ /\ \/ fds' = [fds EXCEPT ![s] = stream] /\ UNCHANGED content
                   \/ /\ fds' = [fds EXCEPT ![s] = [stream EXCEPT !.held = <<>>]]
                      /\ content' = FlushedContent(stream, Len(stream.held))
                /\ believed' = BelievedWritten(s, byte)
                /\ Sound
             \/ /\ Fail
                /\ \E kept \in 0..(Len(stream.held) - 1) :
                      content' = FlushedContent(stream, kept)
                /\ fds' = [fds EXCEPT ![s] =
                       [stream EXCEPT !.held = <<>>, !.told = Unknown]]
                /\ Believing(FALSE, stream.inode)
    /\ Reply
    /\ UNCHANGED <<nextFd, tree>>

SeekTarget(s, whence, bytes, offset) ==
    offset + CASE whence = "set" -> 0
               [] whence = "cur" -> fds[s].at
               [] whence = "end" -> Len(bytes)

\* What the guest knows of the position: the answer tells it.
Seek(s, whence, offset) ==
    /\ s \in Opened
    /\ \E flush \in FlushOutcome(fds[s]) :
          LET to == SeekTarget(s, whence, flush.content[fds[s].inode], offset)
          IN  /\ content' = flush.content
              /\ Believing(flush.ok, fds[s].inode)
              /\ Counted(flush.ok)
              /\ to <= MaxLength
              /\ fds' = [fds EXCEPT ![s] =
                     IF ~flush.ok THEN Rewound(@, @.at, Unknown)
                     ELSE IF to < 0 THEN Rewound(@, @.at, @.told)
                     ELSE Rewound(@, to, to)]
    /\ Reply
    /\ UNCHANGED <<nextFd, tree>>

\* FS_GET_FILE_STATS: to the end and back.  The way back may fail.
FileStats(s) ==
    /\ s \in Opened
    /\ \E flush \in FlushOutcome(fds[s]) :
          LET size == Len(flush.content[fds[s].inode])
          IN  /\ content' = flush.content
              /\ Believing(flush.ok, fds[s].inode)
              /\ \/ /\ flush.ok /\ Sound
                    /\ fds' = [fds EXCEPT ![s] = Rewound(@, @.at, @.told)]
                    /\ answer' = [request |-> "stats", inode |-> fds[s].inode,
                                  size |-> size]
                 \/ /\ Fail
                    /\ \E at \in {fds[s].at, size} :
                          fds' = [fds EXCEPT ![s] = Rewound(@, at, Unknown)]
                    /\ Reply
    /\ UNCHANGED <<nextFd, tree>>
-----------------------------------------------------------------------------
(* handle_fs_ioctl *)

\* A path that is refused, or that the host only pretends to serve because it
\* is not the title's.
Touched(path) == HostPath(path) # Refused /\ TitleData(path)
Untouched(path) == ~Touched(path) /\ Nothing

Exists(path) == tree[Names(path)] # "none"
Refuse(condition) == condition /\ Nothing

\* make_host_directories, from the root down, as far as it comes.
MissingAbove(node) == {n \in Above(node) : tree[n] = "none"}
Blocked(node) == \E n \in Above(node) : tree[n] \in Inode
Made(missing) == [n \in Node |-> IF n \in missing THEN "dir" ELSE tree[n]]

PartlyMade(node) ==
    /\ \E k \in 0..Len(node) : tree' = Made({n \in MissingAbove(node) : Len(n) <= k})
    /\ IF Blocked(node) THEN Sound ELSE Fail
    /\ Reply
    /\ UNCHANGED <<fds, nextFd, content, believed>>

CreateDirectory(path) ==
    \/ Untouched(path)
    \/ /\ Touched(path)
       /\ \/ Refuse(Exists(path))
          \/ ~Exists(path) /\ PartlyMade(Names(path))
          \/ /\ ~Exists(path) /\ ~Blocked(Names(path))
             /\ tree' = Made(MissingAbove(Names(path)) \cup {Names(path)})
             /\ Reply
             /\ UNCHANGED <<fds, nextFd, content, believed, failures>>

Unused == {i \in Inode : (\A n \in Node : tree[n] # i)
                          /\ \A s \in Slot : fds[s].inode # i}

\* The file may be there although closing it failed.
CreateFile(path) ==
    \/ Untouched(path)
    \/ /\ Touched(path)
       /\ \/ Refuse(Exists(path))
          \/ ~Exists(path) /\ PartlyMade(Names(path))
          \/ /\ ~Exists(path) /\ ~Blocked(Names(path))
             /\ \E i \in Unused :
                    /\ tree' = [Made(MissingAbove(Names(path)))
                                   EXCEPT ![Names(path)] = i]
                    /\ content' = [content EXCEPT ![i] = <<>>]
                    /\ believed' = [believed EXCEPT ![i] = <<>>]
             /\ Sound \/ Fail
             /\ Reply
             /\ UNCHANGED <<fds, nextFd>>

\* remove: not of a directory that holds something.
Removable(node) ==
    tree[node] # "none" /\ \A n \in Node : node \in Above(n) => tree[n] = "none"

Removing(node) == answer' = [request |-> "remove", place |-> node]

Delete(path) ==
    \/ Untouched(path)
    \/ /\ Touched(path)
       /\ \/ Refuse(~Removable(Names(path)))
          \/ /\ Removable(Names(path))
             /\ tree' = [tree EXCEPT ![Names(path)] = "none"]
             /\ Removing(Names(path))
             /\ UNCHANGED <<fds, nextFd, content, believed, failures>>

(* Mutant: the source is gone before the destination has its name. *)
RenameSourceFirst(path, second) ==
    /\ Touched(path) /\ Touched(second)
    /\ tree[Names(path)] \in Inode
    /\ tree' = [tree EXCEPT ![Names(path)] = "none"]
    /\ Fail
    /\ Removing(Names(second))
    /\ UNCHANGED <<fds, nextFd, content, believed>>

\* The destination's directories, the destination, then the name: each may
\* be the last that succeeds.  Files only: the title renames no directory.
RenameFile(from, to) ==
    LET made == Made(MissingAbove(to))
        cleared == [made EXCEPT ![to] = "none"]
        free == tree[to] = "none" \/ Removable(to)
    IN  /\ ~Blocked(to)
        /\ \/ /\ tree[to] # "none"
              /\ tree' = made
              /\ IF free THEN Fail ELSE Sound
              /\ Removing(to)
           \/ /\ free
              /\ tree' = cleared
              /\ IF from = to THEN Sound ELSE Fail
              /\ Removing(to)
           \/ /\ free /\ from # to
              /\ tree' = [cleared EXCEPT ![from] = "none", ![to] = tree[from]]
              /\ Sound
              /\ Removing(to)
        /\ UNCHANGED <<fds, nextFd, content, believed>>

Rename(path, second) ==
    \/ Refuse(~Touched(path) \/ ~Touched(second))
    \/ /\ Touched(path) /\ Touched(second)
       /\ \/ Refuse(~Exists(path))
          \/ /\ tree[Names(path)] \in Inode
             /\ PartlyMade(Names(second)) \/ RenameFile(Names(path), Names(second))

\* FS_SHUTDOWN flushes every stream up to the first that fails.
FlushAll(last, kept) ==
    [i \in Inode |->
        LET s == {t \in Opened : fds[t].inode = i /\ t <= last}
        IN  IF s = {} THEN content[i]
            ELSE LET t == CHOOSE u \in s : TRUE
                 IN  FlushedContent(fds[t], IF t = last THEN kept ELSE Len(fds[t].held))[i]]

FlushedStreams(last) ==
    [s \in Slot |-> IF s \in Opened /\ s <= last
                    THEN [fds[s] EXCEPT !.held = <<>>] ELSE fds[s]]

Shutdown ==
    \/ /\ content' = FlushAll(FdCount, Len(fds[FdCount].held))
       /\ fds' = FlushedStreams(FdCount)
       /\ answer' = [request |-> "shutdown"]
       /\ UNCHANGED <<nextFd, tree, believed, failures>>
    \/ \E s \in Opened :
          /\ fds[s].held # <<>>
          /\ Fail
          /\ \E kept \in 0..(Len(fds[s].held) - 1) : content' = FlushAll(s, kept)
          /\ fds' = [FlushedStreams(s) EXCEPT ![s].told = Unknown]
          /\ Believing(FALSE, fds[s].inode)
          /\ Reply
          /\ UNCHANGED <<nextFd, tree>>
-----------------------------------------------------------------------------
DescriptorRequests ==
    \/ \E path \in GuestPath : OpenDevice(path) \/ OpenRefused(path)
    \/ \E s \in Slot : Close(s) \/ DeviceReadWrite(s)
    \/ \E fd \in FdBase..(FdBase + FdCount) : BadDescriptor(fd)

CardRequests ==
    \E path \in GuestPath :
        \/ CreateDirectory(path) \/ CreateFile(path) \/ Delete(path)
        \/ \E second \in GuestPath : Rename(path, second)

StreamRequests ==
    \/ \E path \in StreamPath :
          CreateFile(path) \/ \E mode \in GuestMode : OpenFile(path, mode)
    \/ \E s \in Slot :
          \/ Close(s) \/ AccessRefused(s) \/ FileStats(s)
          \/ \E size \in 1..MaxLength : Read(s, size)
          \/ \E byte \in FileByte : Write(s, byte)
          \/ \E whence \in {"set", "cur", "end"}, offset \in {-1, 0, 1} :
                Seek(s, whence, offset)
    \/ Shutdown

FilesNext == DescriptorRequests \/ CardRequests \/ StreamRequests

FilesSpec == FilesInit /\ [][FilesNext]_filesVars
-----------------------------------------------------------------------------
FilesTypeOK ==
    /\ nextFd \in FdBase..(FdBase + FdCount - 1)
    /\ \A s \in Slot :
          /\ fds[s].used \in BOOLEAN /\ fds[s].mode \in 1..3
          /\ fds[s].inode \in Inode \cup {NoInode}
          /\ fds[s].at \in 0..MaxLength /\ Len(fds[s].held) <= fds[s].at
          /\ fds[s].last \in {"none", "read", "write"}
          /\ fds[s].told \in 0..MaxLength \cup {Unknown}
    /\ \A n \in Node : tree[n] \in Inode \cup NoFile
    /\ \A i \in Inode : Len(content[i]) <= MaxLength

(* However descriptors are opened and closed, no two have the same number, *)
(* and an open is refused only when every one of them is in use.           *)
DescriptorsDistinct ==
    /\ \A s, t \in Slot : fds[s].used /\ fds[t].used /\ s # t => fds[s].fd # fds[t].fd
    /\ \A s \in Slot : fds[s].used => fds[s].fd \in FdBase..(FdBase + FdCount - 1)
    /\ answer.request = "full" => \A s \in Slot : fds[s].used

(* A read gives the bytes the acknowledged writes have put at the position *)
(* the guest knows, whichever of them were still held back, and a size is  *)
(* that of all of them; unless the guest was told of a failure.            *)
AnswersExact ==
    /\ answer.request = "read" =>
          \/ answer.from = Unknown \/ believed[answer.inode] = Lost
          \/ answer.bytes = Slice(believed[answer.inode], answer.from, answer.size)
    /\ answer.request = "stats" =>
          \/ believed[answer.inode] = Lost
          \/ answer.size = Len(believed[answer.inode])

(* When the guest has closed a file, or has been told that all is flushed, *)
(* the card holds what its acknowledged writes have put there: power may   *)
(* be lost from then on.                                                   *)
SavedOnCard ==
    \A i \in Inode :
        \/ believed[i] = Lost
        \/ content[i] = believed[i]
        \/ answer.request # "shutdown" /\ \E s \in Opened : fds[s].inode = i

FilesExact == DescriptorsDistinct /\ AnswersExact /\ SavedOnCard

(* A file is lost to the card only by being deleted or by being the        *)
(* destination of a rename, whichever call of a request fails: a rename    *)
(* that fails halfway has not lost its source.  (A rename of a file to     *)
(* another name of the same place does: it is its own destination.)        *)
FilesKept ==
    [][\A n \in Node : tree[n] \in Inode =>
          \/ \E m \in Node : tree'[m] = tree[n]
          \/ answer'.request = "remove" /\ answer'.place = n]_filesVars

(* No request changes anything on the card outside the title's directory,  *)
(* whatever the path is: the two tests of a path, which differ, let no     *)
(* other through.                                                          *)
OnlyTitleData ==
    [][\A n \in Node : tree'[n] # tree[n] =>
          IsPrefix(DataDir, n) \/ n \in Above(DataDir)]_tree
=============================================================================
