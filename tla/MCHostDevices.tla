--------------------------- MODULE MCHostDevices ---------------------------
EXTENDS HostDevices

\* DSP: packets of no words and of two.
MCPacketLength == [low \in {"n0", "n2"} |-> IF low = "n0" THEN 0 ELSE 2]

\* IPL chip: a command of two bytes, the first its kind, the second its place.
MCWrites(command) == command[1] = 1
MCTarget(command) == IF command[2] = 0 THEN "sram" ELSE "flags"
MCOffset(command) == IF command[2] = 0 THEN 1 ELSE 0
MCRomByte(address) == address % 2
\* No device, the chip, two devices at once.
MCSelect == {{}, {2}, {1, 2}}
MCMask == [c \in {0} |-> {FALSE}]

\* GPIO: the last lane belongs to others, the lanes before it partly.
MCOwned == [l \in 0..3 |-> IF l < 2 THEN {} ELSE {1}]
MCDirectionReset == [l \in 0..3 |-> IF l = 3 THEN {} ELSE {2}]
MCPattern == {[l \in 0..3 |-> {}], [l \in 0..3 |-> {1, 2}],
              [l \in 0..3 |-> IF l % 2 = 0 THEN {1} ELSE {2}]}

\* IOS: a device, files of the title by an absolute and a relative name, one
\* below /tmp, one that climbs.
Absolute(names) == [absolute |-> TRUE, names |-> names]
MCPath == {Absolute(<<"dev">>), Absolute(<<"GameData.bin">>),
           [absolute |-> FALSE, names |-> <<"GameData.bin">>],
           Absolute(<<"tmp", "banner.bin">>), Absolute(<<"data", "..", "x">>)}
MCStreamPath == {Absolute(<<"GameData.bin">>)}

\* Two ranges of flat memory, beginning at a mirror of one another.
MCFlat == {[first |-> 0, size |-> 6], [first |-> 16, size |-> 6]}

\* Names of one byte, of two, and one that is too long for the console.
MCDirectoryName == {".", "a", "bb", "long"}
MCNameLength(name) == CASE name \in {".", "a"} -> 1 [] name = "bb" -> 2 [] name = "long" -> 9

\* Tables: only the fourth entry may have a bad name, and it varies only where
\* the root counts it.
MCEntry == {e \in EntryType : e.name # ".."}
MCRoot ==
    {e \in EntryType : e.first = 0 /\ e.name = CHOOSE name \in FstName : TRUE}
MCFiller == CHOOSE e \in MCEntry : ~e.dir
MCTable ==
    {[i \in Index |-> <<root, a, b, c>>[i + 1]] :
        root \in MCRoot, a, b \in MCEntry, c \in {MCFiller}}
    \cup {[i \in Index |-> <<root, a, b, c>>[i + 1]] :
        root \in {r \in MCRoot : r.dir /\ r.second = 4}, a, b \in MCEntry, c \in EntryType}

MCFolded(name) == IF name = "A" THEN "a" ELSE name

\* Yaz0: groups of two tokens, literals and copies short and long, the last
\* group one of literals.
MCToken(literal) == IF literal THEN {<<1>>, <<2>>} ELSE {<<2, 0>>, <<2, 2>>, <<0, 1, 0>>}
MCGroup ==
    UNION {{<<2 * (IF a THEN 1 ELSE 0) + (IF b THEN 1 ELSE 0)>> \o s \o t :
               s \in MCToken(a), t \in MCToken(b)} : a, b \in BOOLEAN}
MCStream == {a \o b \o <<3, 1, 2>> : a, b \in MCGroup}

\* Layouts: every position, every normal, and pairs of colours and of texture
\* coordinates, the first and the last; and one of nothing at all.
MCAbsent == [descriptor |-> 0, component |-> 0, elements |-> 0]
MCPlain ==
    [matrices |-> 0,
     position |-> [descriptor |-> 1, component |-> 4, elements |-> 1],
     normal   |-> [descriptor |-> 0, component |-> 0, ntb |-> FALSE, index3 |-> FALSE],
     colour   |-> [c \in 1..2 |-> MCAbsent],
     texcoord |-> [t \in 1..8 |-> MCAbsent]]
MCPosition == [descriptor : 0..3, component : {1, 3}, elements : 0..1]
MCNormal == [descriptor : 0..3, component : {1, 4}, ntb : BOOLEAN, index3 : BOOLEAN]
MCColour == [descriptor : 1..3, component : {4, 6}, elements : {0}]
MCTexcoord == [descriptor : 0..3, component : {3}, elements : 0..1]
MCVertexFormat ==
    {[MCPlain EXCEPT !.position.descriptor = 0]}
    \cup {[MCPlain EXCEPT !.matrices = 2, !.position = p] : p \in MCPosition}
    \cup {[MCPlain EXCEPT !.normal = n, !.position.descriptor = 2] : n \in MCNormal}
    \cup {[MCPlain EXCEPT !.colour[1] = c, !.colour[2].descriptor = 2] : c \in MCColour}
    \cup {[MCPlain EXCEPT !.texcoord[1] = c, !.texcoord[8].descriptor = 3] : c \in MCTexcoord}
=============================================================================
