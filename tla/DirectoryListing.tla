-------------------------- MODULE DirectoryListing --------------------------
(***************************************************************************)
(* FS_READ_DIR of ios_hle.c: the host goes through the entries of a        *)
(* directory of the console's file system, counts those the console could  *)
(* have, and writes their names one behind the other into the guest's      *)
(* buffer.  The order of the entries is the host's.                        *)
(***************************************************************************)
EXTENDS Naturals, Sequences, SequencesExt

CONSTANTS
    BufferSize,       \* bound: sizes of the guest's buffer
    DirectoryName,    \* names of a directory's entries
    NameLength(_),    \* their lengths
    LongestName,      \* 12
    MaxNames          \* bound: names the guest asks for

ASSUME ListingAssumption ==
    /\ BufferSize \subseteq Nat /\ LongestName \in Nat /\ MaxNames \in Nat
    /\ IsFiniteSet(DirectoryName)
    /\ \A name \in DirectoryName : NameLength(name) \in Nat

VARIABLE listing      \* the listing in progress, or the last

NoListing == [phase |-> "none", left |-> <<>>, all |-> <<>>, given |-> <<>>,
              bytes |-> 0, found |-> 0, most |-> 0, size |-> 0, named |-> FALSE]

ListingInit == listing = NoListing
-----------------------------------------------------------------------------
\* The guest asks for names as well as for their number, or only for that.
\* Nothing is kept between two listings, so a behaviour has one.
BeginListing(entries, named, most, size) ==
    /\ listing = NoListing
    /\ listing' = [NoListing EXCEPT !.phase = "list", !.left = entries,
                       !.all = entries, !.named = named, !.most = most, !.size = size]

Skipped(name) == name \in {".", ".."} \/ NameLength(name) > LongestName

(* Mutant: the terminator of a name is not counted. *)
FitsWithoutEnd(name) ==
    /\ listing.named /\ listing.found < listing.most
    /\ listing.bytes + NameLength(name) <= listing.size

Fits(name) ==
    /\ listing.named /\ listing.found < listing.most
    /\ listing.bytes + NameLength(name) + 1 <= listing.size

ListEntry ==
    /\ listing.phase = "list" /\ listing.left # <<>>
    /\ LET name == Head(listing.left)
       IN  listing' = [listing EXCEPT
               !.left = Tail(@),
               !.found = IF Skipped(name) THEN @ ELSE @ + 1,
               !.given = IF ~Skipped(name) /\ Fits(name) THEN Append(@, name) ELSE @,
               !.bytes = IF ~Skipped(name) /\ Fits(name)
                         THEN @ + NameLength(name) + 1 ELSE @]

EndListing ==
    /\ listing.phase = "list" /\ listing.left = <<>>
    /\ listing' = [listing EXCEPT !.phase = "done",
           !.found = IF listing.named /\ @ > listing.most THEN listing.most ELSE @]

ListingNext ==
    \/ /\ listing = NoListing
       /\ \E entries \in SetToSeqs(DirectoryName), named \in BOOLEAN,
             most \in 0..MaxNames, size \in BufferSize :
             BeginListing(entries, named, most, size)
    \/ ListEntry \/ EndListing

ListingSpec == ListingInit /\ [][ListingNext]_listing
-----------------------------------------------------------------------------
ListingTypeOK ==
    /\ listing.phase \in {"none", "list", "done"}
    /\ listing.found \in Nat /\ listing.bytes \in Nat
    /\ listing.most \in 0..MaxNames /\ listing.named \in BOOLEAN

Bytes(names) == FoldLeft(LAMBDA sum, name : sum + NameLength(name) + 1, 0, names)
Listed(entries) ==
    FoldLeft(LAMBDA kept, name : IF Skipped(name) THEN kept ELSE Append(kept, name),
             <<>>, entries)

(* A listing never writes past the guest's buffer, and when the buffer     *)
(* would hold all the names asked for it holds exactly the first of them,  *)
(* as many as the count says.  (In a shorter one a name may be left out of *)
(* the middle, and the count includes it.)                                 *)
ListingExact ==
    LET names == Listed(listing.all)
        asked == SubSeq(names, 1, IF listing.most < Len(names) THEN listing.most
                                  ELSE Len(names))
    IN  /\ Bytes(listing.given) <= listing.size
        /\ listing.phase = "done" /\ listing.named /\ Bytes(asked) <= listing.size =>
              listing.given = asked /\ listing.found = Len(asked)
        /\ listing.phase = "done" /\ ~listing.named =>
              listing.given = <<>> /\ listing.found = Len(names)
=============================================================================
