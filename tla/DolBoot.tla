------------------------------- MODULE DolBoot -------------------------------
(***************************************************************************)
(* How the game comes into the guest's memory before its first block: the  *)
(* disc layer writes its globals (smg3ds_disc_init), dol_loader.c clears   *)
(* the BSS and loads the sections of the DOL, main writes the globals of   *)
(* the disc once more because the BSS may have covered them, and starts    *)
(* the guest only if everything before has gone well.                      *)
(***************************************************************************)
EXTENDS Naturals, Sequences

CONSTANTS
    DolMemory,      \* bytes of MEM1 (and, behind it, of a flat MEM2)
    DolMirror,      \* 2^30: what an address is taken modulo
    GlobalsCell,    \* where the SDK keeps its view of the disc
    DolFileSize,    \* bound: bytes in the DOL file
    DolAddress,     \* bound: addresses in its header
    SectionCount,   \* TEXT_COUNT + DATA_COUNT
    MaxSection      \* bound: bytes in a section

ASSUME DolAssumption ==
    /\ DolMemory \in Nat /\ GlobalsCell \in 0..(DolMemory - 1)
    /\ DolMirror \in Nat /\ DolMirror >= DolMemory
    /\ DolAddress \subseteq Nat /\ DolFileSize \in Nat
    /\ SectionCount \in Nat /\ MaxSection \in Nat

Cell == 0..(DolMemory - 1)

\* What a cell holds: what was there before, zero, the globals of the disc, or
\* a byte of the file.
Before == <<"before">>
Cleared == <<"cleared">>
Globals == <<"globals">>
FromFile(position) == <<"file", position>>
Contents == {Before, Cleared, Globals} \cup {FromFile(p) : p \in 0..(DolFileSize - 1)}

VARIABLES
    dolHeader,     \* the sections and the BSS the file names
    memory,        \* the guest's memory
    boot,          \* how far main has come
    loaded,        \* result.loaded_sections and those skipped as empty
    discReady,     \* g_stats.initialized of the disc layer
    entryPoint     \* is the guest's pc the entry point?

bootVars == <<dolHeader, memory, boot, loaded, discReady, entryPoint>>

SectionType == [offset : 0..(DolFileSize - 1), address : DolAddress, size : 0..MaxSection]
BssType == [address : DolAddress, size : 0..MaxSection]

Header == [bss : BssType, sections : [1..SectionCount -> SectionType]]

BootFrom(headers) ==
    /\ dolHeader \in headers
    /\ memory = [c \in Cell |-> Before]
    /\ boot = "disc" /\ loaded = 0 /\ discReady = FALSE /\ entryPoint = FALSE

BootInit == BootFrom(Header)
-----------------------------------------------------------------------------
(* resolve_guest *)
Physical(address) == address % DolMirror
Resolves(address, size) ==
    Physical(address) < DolMemory /\ size <= DolMemory - Physical(address)
Span(range) == Physical(range.address)..(Physical(range.address) + range.size - 1)

\* smg3ds_disc_init publishes its globals, or fails and leaves nothing.
InitDisc ==
    /\ boot = "disc"
    /\ boot' = "bss"
    /\ \/ discReady' = TRUE /\ memory' = [memory EXCEPT ![GlobalsCell] = Globals]
       \/ UNCHANGED <<discReady, memory>>
    /\ UNCHANGED <<dolHeader, loaded, entryPoint>>

\* The file may be missing or too short for its header.
DolMissing ==
    /\ boot = "bss"
    /\ boot' = "blocked"
    /\ UNCHANGED <<dolHeader, memory, loaded, discReady, entryPoint>>

ClearBss ==
    /\ boot = "bss"
    /\ LET bss == dolHeader.bss
       IN  IF bss.size = 0 THEN boot' = "sections" /\ UNCHANGED memory
           ELSE IF Resolves(bss.address, bss.size)
           THEN /\ boot' = "sections"
                /\ memory' = [c \in Cell |-> IF c \in Span(bss) THEN Cleared ELSE memory[c]]
           ELSE boot' = "blocked" /\ UNCHANGED memory
    /\ UNCHANGED <<dolHeader, loaded, discReady, entryPoint>>

\* Cells after that many bytes of the section have been read.
ReadInto(section, bytes) ==
    [c \in Cell |-> LET i == c - Physical(section.address)
                    IN  IF c >= Physical(section.address) /\ i < bytes
                        THEN FromFile(section.offset + i) ELSE memory[c]]

(* Mutant: an empty section ends the list. *)
LoadSectionUntilEmpty ==
    /\ boot = "sections" /\ loaded < SectionCount
    /\ LET section == dolHeader.sections[loaded + 1]
       IN  IF section.size = 0 \/ ~Resolves(section.address, section.size)
              \/ section.offset + section.size > DolFileSize
           THEN loaded' = SectionCount /\ UNCHANGED <<boot, memory>>
           ELSE loaded' = loaded + 1 /\ memory' = ReadInto(section, section.size)
                /\ UNCHANGED boot
    /\ UNCHANGED <<dolHeader, discReady, entryPoint>>

\* A section that is outside memory or not all in the file, or whose read
\* fails halfway, ends the load.
LoadSection ==
    /\ boot = "sections" /\ loaded < SectionCount
    /\ LET section == dolHeader.sections[loaded + 1]
           there == IF section.offset + section.size <= DolFileSize
                    THEN section.size ELSE DolFileSize - section.offset
       IN  \/ /\ section.size = 0
              /\ loaded' = loaded + 1 /\ UNCHANGED <<boot, memory>>
           \/ /\ section.size # 0 /\ ~Resolves(section.address, section.size)
              /\ boot' = "blocked" /\ UNCHANGED <<loaded, memory>>
           \/ /\ section.size # 0 /\ Resolves(section.address, section.size)
              /\ there = section.size
              /\ loaded' = loaded + 1 /\ memory' = ReadInto(section, section.size)
              /\ UNCHANGED boot
           \/ /\ section.size # 0 /\ Resolves(section.address, section.size)
              /\ boot' = "blocked" /\ UNCHANGED loaded
              /\ \E bytes \in 0..there : bytes < section.size /\ memory' = ReadInto(section, bytes)
    /\ UNCHANGED <<dolHeader, discReady, entryPoint>>

SetEntryPoint ==
    /\ boot = "sections" /\ loaded = SectionCount
    /\ boot' = "publish" /\ entryPoint' = TRUE
    /\ UNCHANGED <<dolHeader, memory, loaded, discReady>>

\* smg3ds_disc_publish_guest_state
Publish ==
    /\ boot = "publish"
    /\ IF discReady
       THEN boot' = "preflight" /\ memory' = [memory EXCEPT ![GlobalsCell] = Globals]
       ELSE boot' = "blocked" /\ UNCHANGED memory
    /\ UNCHANGED <<dolHeader, loaded, discReady, entryPoint>>

\* The self tests of the renderer, of EXI and of GPIO may still forbid it.
Preflight ==
    /\ boot = "preflight"
    /\ boot' \in {"running", "blocked"}
    /\ UNCHANGED <<dolHeader, memory, loaded, discReady, entryPoint>>

BootNext == InitDisc \/ DolMissing \/ ClearBss \/ LoadSection \/ SetEntryPoint
            \/ Publish \/ Preflight

BootSpec == BootInit /\ [][BootNext]_bootVars
-----------------------------------------------------------------------------
BootTypeOK ==
    /\ memory \in [Cell -> Contents]
    /\ boot \in {"disc", "bss", "sections", "publish", "preflight", "running", "blocked"}
    /\ loaded \in 0..SectionCount
    /\ discReady \in BOOLEAN /\ entryPoint \in BOOLEAN

\* The sections that put something into a cell, and the last of them.
Covering(c) ==
    {s \in 1..SectionCount : dolHeader.sections[s].size # 0 /\ c \in Span(dolHeader.sections[s])}

Image(c) ==
    IF Covering(c) # {}
    THEN LET s == CHOOSE t \in Covering(c) : \A u \in Covering(c) : u <= t
         IN  FromFile(dolHeader.sections[s].offset + c - Physical(dolHeader.sections[s].address))
    ELSE IF dolHeader.bss.size # 0 /\ c \in Span(dolHeader.bss) THEN Cleared ELSE Before

(* A guest that runs has the whole image of the DOL: in every cell the byte *)
(* of the last section that covers it, over a BSS that was cleared before  *)
(* any of them; and the globals of the disc over both, although the BSS    *)
(* clears them: whatever fails on the way keeps it from running.           *)
ImageComplete ==
    boot = "running" =>
        /\ entryPoint /\ discReady
        /\ memory = [c \in Cell |-> IF c = GlobalsCell THEN Globals ELSE Image(c)]
=============================================================================
