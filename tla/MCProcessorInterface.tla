------------------------ MODULE MCProcessorInterface ------------------------
EXTENDS ProcessorInterface

\* A packet of two words; it is never sent here.
MCPacketLength == [low \in {"n2"} |-> 2]

\* The IPL chip is not selected here.
MCWrites(command) == FALSE
MCTarget(command) == "none"
MCOffset(command) == 0
MCRomByte(address) == 0

\* No device, or one.
MCSelect == {{}, {1}}
MCMask == [c \in {0, 1} |-> {FALSE}]
=============================================================================
