------------------------------ MODULE DiscImage ------------------------------
(***************************************************************************)
(* The file system table (FST) of disc.c: how a table read from fst.bin is *)
(* checked and indexed, how the SDK's path lookups and opens are answered  *)
(* from it, and what the drive's read command makes of an open file.       *)
(*                                                                         *)
(* An entry is a name, for a directory its parent and the index behind its *)
(* last descendant, for a file its offset in words and its size.  Names    *)
(* that a host file cannot have are in BadName.  Copying the bytes of a    *)
(* read is DiscStream's.                                                   *)
(***************************************************************************)
EXTENDS Naturals, Sequences, SequencesExt

CONSTANTS
    FstLength,      \* bound: entries the file has room for
    FstName,        \* names
    BadName,        \* those validate_component refuses
    Folded(_),      \* the name in lower case
    ParentNumber, NextNumber,  \* bound: the numbers of directories
    WordNumber, SizeNumber,    \* bound: those of files
    OffsetUnit,     \* bytes of a word offset
    LookupName,     \* bound: components of the guest's paths, "." and ".." too
    PathLength,     \* bound: components in a path the guest looks up
    CurrentCell,    \* bound: what the guest's cell for its directory holds
    MaxDepth        \* SMG3DS_DISC_PATH_MAX, in components

ASSUME FstAssumption ==
    /\ FstLength \in Nat \ {0}
    /\ BadName \subseteq FstName /\ {".", ".."} \cap FstName \subseteq BadName
    /\ ParentNumber \cup NextNumber \cup WordNumber \cup SizeNumber \subseteq Nat
    /\ OffsetUnit \in Nat \ {0} /\ CurrentCell \subseteq Nat
    /\ PathLength \in Nat /\ MaxDepth \in Nat

Index == 0..(FstLength - 1)
EntryType ==
    [dir : {TRUE}, name : FstName, first : ParentNumber, second : NextNumber] \cup
    [dir : {FALSE}, name : FstName, first : WordNumber, second : SizeNumber]

VARIABLES
    fst,           \* the entries of fst.bin
    disc,          \* g_stats.initialized, g_fst_entry_count, g_fst_parents
    lookup         \* the end of the path the guest looked up, and what it got

imageVars == <<fst, disc, lookup>>

NoDisc == [ready |-> FALSE, count |-> 0, parents |-> <<>>]
Missing == FstLength
NoName == <<>>
NoLookup == [last |-> NoName, slash |-> FALSE, entry |-> Missing,
             opened |-> FALSE, word |-> 0, size |-> 0]

ImageFrom(tables) ==
    /\ fst \in tables
    /\ fst[0].first = 0 /\ fst[0].name = CHOOSE name \in FstName : TRUE
    /\ disc = NoDisc
    /\ lookup = NoLookup

ImageInit == ImageFrom([Index -> EntryType])
-----------------------------------------------------------------------------
(* parse_fst *)

\* The directories that enclose an index, innermost last, as the parser has
\* stacked them: it takes those off that end before it.
Unstacked(stack, index) ==
    LET open == {k \in DOMAIN stack : stack[k].end > index}
    IN  SubSeq(stack, 1, IF open = {} THEN 0 ELSE CHOOSE k \in open : \A l \in open : l <= k)

(* Mutant: a directory may end behind the one it is in. *)
IndexEntryLoose(parse, index, count) ==
    LET stack == Unstacked(parse.stack, index)
        entry == fst[index]
        parent == Last(stack).dir
    IN  IF ~parse.ok THEN parse
        ELSE [ok |-> entry.dir => entry.first = parent /\ entry.second > index
                                  /\ entry.second <= count,
              parents |-> Append(parse.parents, parent),
              stack |-> IF entry.dir
                        THEN Append(stack, [dir |-> index, end |-> entry.second])
                        ELSE stack]

IndexEntry(parse, index, count) ==
    LET stack == Unstacked(parse.stack, index)
        entry == fst[index]
        parent == Last(stack).dir
    IN  IF ~parse.ok THEN parse
        ELSE [ok |-> entry.dir => entry.first = parent /\ entry.second > index
                                  /\ entry.second <= count
                                  /\ entry.second <= Last(stack).end,
              parents |-> Append(parse.parents, parent),
              stack |-> IF entry.dir
                        THEN Append(stack, [dir |-> index, end |-> entry.second])
                        ELSE stack]

\* "parents" begins with the entry behind the root.
Indexed(count) ==
    FoldLeft(LAMBDA parse, index : IndexEntry(parse, index, count),
             [ok |-> TRUE, parents |-> <<>>, stack |-> <<[dir |-> 0, end |-> count]>>],
             [i \in 1..(count - 1) |-> i])

Files(count) == {i \in 0..(count - 1) : ~fst[i].dir}
FileEnd(i) == OffsetUnit * fst[i].first + fst[i].second

\* compare_disc_files and the walk over the sorted files.
Overlapping(count) ==
    \E f, g \in Files(count) :
        /\ f # g /\ fst[f].second # 0 /\ fst[g].second # 0
        /\ fst[f].first <= fst[g].first
        /\ OffsetUnit * fst[g].first < FileEnd(f)

(* build_relative_path *)
PathIn(parents, index) ==
    LET path[i \in 0..Len(parents)] ==
            IF i = 0 THEN <<>> ELSE Append(path[parents[i]], fst[i].name)
    IN  path[index]

NamesValid(count) == \A i \in 1..(count - 1) : fst[i].name \notin BadName

Parsed ==
    LET count == fst[0].second
        parse == Indexed(count)
    IN  IF /\ fst[0].dir
           /\ count # 0 /\ count <= FstLength
           /\ NamesValid(count)
           /\ parse.ok
           /\ ~Overlapping(count)
           /\ \A i \in Files(count) : Len(PathIn(parse.parents, i)) <= MaxDepth
        THEN [ready |-> TRUE, count |-> count, parents |-> parse.parents]
        ELSE NoDisc

\* smg3ds_disc_init, which shuts an open image down first.  Files of the host
\* may be missing and memory short.
OpenImage ==
    /\ disc' \in {Parsed, NoDisc}
    /\ lookup' = NoLookup
    /\ UNCHANGED fst

\* smg3ds_disc_shutdown
CloseImage ==
    /\ disc.ready
    /\ disc' = NoDisc /\ lookup' = NoLookup
    /\ UNCHANGED fst
-----------------------------------------------------------------------------
(* smg3ds_disc_resolve_path *)

Children(parent, name) ==
    {i \in 1..(disc.count - 1) :
        disc.parents[i] = parent /\ Folded(fst[i].name) = Folded(name)}

\* One component; what comes behind a file is not there.
StepTo(current, name, last) ==
    IF current = Missing THEN Missing
    ELSE IF name = "." THEN current
    ELSE IF name = ".." THEN IF current = 0 THEN 0 ELSE disc.parents[current]
    ELSE IF Children(current, name) = {} THEN Missing
    ELSE LET child == CHOOSE i \in Children(current, name) :
                          \A j \in Children(current, name) : i <= j
         IN  IF last \/ fst[child].dir THEN child ELSE Missing

\* From a current directory, which the guest's cell may give wrongly.
StartAt(current) ==
    IF current >= disc.count THEN 0
    ELSE IF current # 0 /\ ~fst[current].dir THEN 0 ELSE current

Resolve(path, slash, current) ==
    FoldLeft(LAMBDA at, i : StepTo(at, path[i], i = Len(path) /\ ~slash),
             StartAt(current), [i \in DOMAIN path |-> i])

\* A lookup and an open of what it found (smg3ds_disc_open_path): a file's
\* word offset and size, a directory is not opened.  Nothing is kept between
\* two lookups, so a behaviour has one for each table it opens.
LookUp(path, slash, current) ==
    /\ disc.ready
    /\ LET entry == Resolve(path, slash, current)
           opens == entry # Missing /\ ~fst[entry].dir
       IN  lookup' = [last |-> IF path = <<>> THEN NoName ELSE <<Last(path)>>,
                      slash |-> slash, entry |-> entry, opened |-> opens,
                      word |-> IF opens THEN fst[entry].first ELSE 0,
                      size |-> IF opens THEN fst[entry].second ELSE 0]
    /\ UNCHANGED <<fst, disc>>

ImageNext ==
    \/ OpenImage \/ CloseImage
    \/ /\ disc.ready /\ lookup = NoLookup
       /\ \E length \in 0..PathLength, current \in CurrentCell, slash \in BOOLEAN :
             \E path \in [1..length -> LookupName] : LookUp(path, slash, current)

ImageSpec == ImageInit /\ [][ImageNext]_imageVars
-----------------------------------------------------------------------------
ImageTypeOK ==
    /\ disc.ready \in BOOLEAN /\ disc.count \in 0..FstLength
    /\ disc.ready => disc.parents \in [1..(disc.count - 1) -> Index]
    /\ lookup.entry \in 0..FstLength

\* What a table means: an index lies in a directory that reaches from behind
\* its own entry to its end.
Inside(i, d) == i # 0 /\ (d = 0 \/ (fst[d].dir /\ d < i /\ i < fst[d].second))
Directories(count) == {d \in 0..(count - 1) : fst[d].dir}
Innermost(i, count) ==
    CHOOSE d \in Directories(count) :
        /\ Inside(i, d)
        /\ \A e \in Directories(count) : Inside(i, e) => e <= d

WellFormed(count) ==
    /\ fst[0].dir /\ count \in 1..FstLength
    /\ \A i \in 1..(count - 1) : fst[i].name \notin BadName
    /\ \A d \in Directories(count) \ {0} :
          /\ fst[d].second \in (d + 1)..count
          /\ \A e \in Directories(count) :
                Inside(d, e) => e = 0 \/ fst[d].second <= fst[e].second
          /\ fst[d].first = Innermost(d, count)

(* The table that is accepted is a tree: every directory's range lies in   *)
(* the range of the one it is in and names it as its parent, and the       *)
(* parent of every entry is the innermost directory around it.             *)
TreeIndexed ==
    disc.ready =>
        /\ WellFormed(disc.count)
        /\ \A i \in 1..(disc.count - 1) : disc.parents[i] = Innermost(i, disc.count)

(* The path build_relative_path builds for a host file is one the guest    *)
(* can look up, and the two walks, one up through the parents and one down *)
(* through the names, find each other's entry, unless some directory has   *)
(* two entries of one name.                                                *)
PathsLeadBack ==
    disc.ready =>
        \A i \in 1..(disc.count - 1) :
            LET found == Resolve(PathIn(disc.parents, i), FALSE, 0)
                same(j, k) == Folded(fst[j].name) = Folded(fst[k].name)
                              /\ disc.parents[j] = disc.parents[k]
                shadowed == \E j, k \in 1..(disc.count - 1) : j # k /\ same(j, k)
            IN  ~shadowed => found = i

(* A lookup that opens a file has named it: its last component is the      *)
(* file's name, no slash follows, and what the guest is given are the      *)
(* bytes of that file and no other, so the drive's read of them will find  *)
(* them in it.                                                             *)
OpensWhatIsNamed ==
    lookup.opened =>
        /\ lookup.last # NoName /\ ~lookup.slash
        /\ Folded(lookup.last[1]) = Folded(fst[lookup.entry].name)
        /\ \A f \in Files(disc.count) \ {lookup.entry} :
              \A byte \in 0..(lookup.size - 1) :
                  OffsetUnit * lookup.word + byte \notin (OffsetUnit * fst[f].first)..(FileEnd(f) - 1)

ImageExact == TreeIndexed /\ PathsLeadBack /\ OpensWhatIsNamed
=============================================================================
