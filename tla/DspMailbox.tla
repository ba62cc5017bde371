----------------------------- MODULE DspMailbox -----------------------------
(***************************************************************************)
(* The DSP as main.c answers for it: the mailbox towards the DSP, through  *)
(* which the guest boots a task and sends command packets; the mailbox     *)
(* from the DSP, which holds one mail and keeps one more behind it; and    *)
(* the control register with the status bits the host raises.              *)
(*                                                                         *)
(* A mail is two half words.  The register halves are written and read one *)
(* at a time; writing the low half sends, reading the low half takes.      *)
(* The status bits of the audio DMA are left out.                          *)
(***************************************************************************)
EXTENDS Naturals, Sequences

CONSTANTS
    MailHigh,       \* high halves of mails, with the top bit the host adds
    MailLow,        \* low halves
    CommandHigh,    \* 0x80f3: a command to the boot code
    ZeroHigh,       \* 0x8000: nothing but the low half
    BootLow,        \* a001, c002, a002, b002: parameters of the boot code
    StartLow,       \* d001: run the task
    PacketLength,   \* low halves of at most 16: the words of a packet
    NoMail

ASSUME DspAssumption ==
    /\ CommandHigh \in MailHigh /\ ZeroHigh \in MailHigh
    /\ CommandHigh # ZeroHigh
    /\ BootLow \subseteq MailLow /\ StartLow \in MailLow \ BootLow
    /\ DOMAIN PacketLength \subseteq MailLow \ (BootLow \cup {StartLow})
    /\ \A l \in DOMAIN PacketLength : PacketLength[l] \in 0..16

VARIABLES
    toHigh,            \* the high half of g_dsp_to_mail
    bootCommand,       \* g_dsp_boot_command: "none", "parameter" or "start"
    packetWords,       \* g_dsp_packet_words: words the packet still lacks
    packetTag,         \* g_dsp_packet_tag, NoMail for zero
    fromMail,          \* g_dsp_from_mail without its top bit
    fromFull,          \* the top bit of g_dsp_from_mail
    nextMail,          \* g_dsp_next_mail, NoMail for zero
    readyMail,         \* g_dsp_ready_mail, NoMail for zero
    dspHalt, dspInit,  \* bits 2 and 11 of g_dsp_control
    dspMask,           \* bit 8 of g_dsp_control: the interrupt is enabled
    dspInterrupt,      \* bit 7 of g_dsp_hardware_status
    initBusy,          \* bit 10 of g_dsp_hardware_status
    initReads,         \* g_dsp_init_code_reads
    unread             \* history: mails the DSP has sent and the guest not taken

dspVars == <<toHigh, bootCommand, packetWords, packetTag, fromMail, fromFull,
             nextMail, readyMail, dspHalt, dspInit, dspMask, dspInterrupt,
             initBusy, initReads, unread>>

\* The mails the host sends: the two of the boot code and the two pairs.
Feed == <<"8071", "feed">>
Chd == <<"8054", "4348">>
Started == <<"dcd1", "0000">>
Resumed == <<"f355", "1111">>
Done == <<"dcd1", "0004">>
Yields(tag) == <<"f355", tag>>

FromDsp == {Feed, Chd, Started, Resumed, Done} \cup {Yields(t) : t \in MailHigh}

ASSUME NoMailAssumption == NoMail \notin MailHigh \cup FromDsp

DspPowerOn ==
    /\ toHigh = ZeroHigh /\ bootCommand = "none"
    /\ packetWords = 0 /\ packetTag = NoMail
    /\ fromMail = NoMail /\ fromFull = FALSE
    /\ nextMail = NoMail /\ readyMail = NoMail
    /\ dspHalt = TRUE /\ dspInit = TRUE /\ dspMask = FALSE
    /\ dspInterrupt = FALSE /\ initBusy = FALSE /\ initReads = 0
    /\ unread = <<>>
-----------------------------------------------------------------------------
\* The DSP answers with two mails and interrupts the guest.
Answer(first, second) ==
    /\ fromMail' = first /\ fromFull' = TRUE
    /\ nextMail' = second
    /\ dspInterrupt' = TRUE
    /\ unread' = unread \o <<first, second>>

NoAnswer == UNCHANGED <<fromMail, fromFull, nextMail, dspInterrupt, unread>>

Booting(mail) == mail[1] = CommandHigh /\ mail[2] \in BootLow \cup {StartLow}

Count(mail) ==
    IF mail[1] = ZeroHigh /\ mail[2] \in DOMAIN PacketLength
    THEN PacketLength[mail[2]] ELSE 17

\* A command to the boot code is remembered until its operand comes.
BootMail(mail) ==
    /\ Booting(mail)
    /\ bootCommand' = IF mail[2] = StartLow THEN "start" ELSE "parameter"
    /\ NoAnswer
    /\ UNCHANGED <<packetWords, packetTag>>

BootOperand(mail) ==
    /\ ~Booting(mail)
    /\ bootCommand # "none"
    /\ IF bootCommand = "start" THEN Answer(Started, Resumed) ELSE NoAnswer
    /\ bootCommand' = "none"
    /\ UNCHANGED <<packetWords, packetTag>>

\* The length of a packet.
PacketBegins(mail) ==
    /\ ~Booting(mail)
    /\ bootCommand = "none" /\ packetWords = 0
    /\ IF Count(mail) <= 16
       THEN packetWords' = Count(mail) /\ packetTag' = NoMail
       ELSE UNCHANGED <<packetWords, packetTag>>
    /\ NoAnswer
    /\ UNCHANGED bootCommand

(* Mutant: a word is counted though no packet has begun. *)
PacketWordUncounted(mail) ==
    /\ ~Booting(mail)
    /\ bootCommand = "none"
    /\ packetWords' = packetWords - 1
    /\ packetTag' = IF packetTag = NoMail THEN mail[1] ELSE packetTag
    /\ IF packetWords = 1 THEN Answer(Done, Yields(packetTag')) ELSE NoAnswer
    /\ UNCHANGED bootCommand

\* A word of a packet; the high half of the first is the tag of the answer.
PacketWord(mail) ==
    /\ ~Booting(mail)
    /\ bootCommand = "none" /\ packetWords > 0
    /\ packetWords' = packetWords - 1
    /\ packetTag' = IF packetTag = NoMail THEN mail[1] ELSE packetTag
    /\ IF packetWords = 1 THEN Answer(Done, Yields(packetTag')) ELSE NoAnswer
    /\ UNCHANGED bootCommand

\* The guest writes the high half ...
WriteMailHigh(high) ==
    /\ toHigh' = high
    /\ UNCHANGED <<bootCommand, packetWords, packetTag, fromMail, fromFull,
                   nextMail, readyMail, dspHalt, dspInit, dspMask,
                   dspInterrupt, initBusy, initReads, unread>>

\* ... and the low half, which sends the mail.  The guest's driver takes the
\* mails of one answer before it asks for the next.
WriteMailLow(low) ==
    /\ unread = <<>>
    /\ LET mail == <<toHigh, low>>
       IN  BootMail(mail) \/ BootOperand(mail) \/ PacketBegins(mail)
           \/ PacketWord(mail)
    /\ UNCHANGED <<toHigh, readyMail, dspHalt, dspInit, dspMask,
                   initBusy, initReads>>

(* Mutant: the mail behind is not brought forward. *)
TakeMailDropping ==
    /\ fromFull' = FALSE
    /\ nextMail' = NoMail
    /\ unread' = IF fromFull THEN Tail(unread) ELSE unread
    /\ UNCHANGED <<toHigh, bootCommand, packetWords, packetTag, fromMail,
                   readyMail, dspHalt, dspInit, dspMask, dspInterrupt,
                   initBusy, initReads>>

\* Reading the low half takes the mail; the one behind it moves up.
TakeMail ==
    /\ IF nextMail # NoMail
       THEN fromMail' = nextMail /\ fromFull' = TRUE
       ELSE fromFull' = FALSE /\ UNCHANGED fromMail
    /\ nextMail' = NoMail
    /\ unread' = IF fromFull THEN Tail(unread) ELSE unread
    /\ UNCHANGED <<toHigh, bootCommand, packetWords, packetTag,
                   readyMail, dspHalt, dspInit, dspMask, dspInterrupt,
                   initBusy, initReads>>

\* A read of the status counts down the reads until the DSP is initialised.
ReadStatus ==
    /\ initReads' = IF initReads = 0 THEN 0 ELSE initReads - 1
    /\ initBusy' = (initBusy /\ initReads # 1)
    /\ UNCHANGED <<toHigh, bootCommand, packetWords, packetTag, fromMail,
                   fromFull, nextMail, readyMail, dspHalt, dspInit, dspMask,
                   dspInterrupt, unread>>

(* Mutant: the acknowledgement clears nothing. *)
WriteControlKeeping(reset, halt, init, mask, acknowledge) ==
    LET initialises == dspInit /\ ~init
        ready == IF initialises THEN Chd ELSE IF reset THEN Feed ELSE readyMail
        resumes == ready # NoMail /\ dspHalt /\ ~halt
    IN  /\ resumes => unread = <<>>
        /\ dspHalt' = halt /\ dspInit' = init /\ dspMask' = mask
        /\ dspInterrupt' = dspInterrupt
        /\ initBusy' = (initBusy \/ initialises)
        /\ initReads' = IF initialises THEN 1 ELSE initReads
        /\ readyMail' = IF resumes THEN NoMail ELSE ready
        /\ fromMail' = IF resumes THEN ready ELSE fromMail
        /\ fromFull' = (fromFull \/ resumes)
        /\ unread' = IF resumes THEN Append(unread, ready) ELSE unread
        /\ UNCHANGED <<toHigh, bootCommand, packetWords, packetTag, nextMail>>

\* A write of the control register.  Reset and the end of the initialisation
\* prepare a boot mail, which comes out when the DSP is no longer halted.
WriteControl(reset, halt, init, mask, acknowledge) ==
    LET initialises == dspInit /\ ~init
        ready == IF initialises THEN Chd ELSE IF reset THEN Feed ELSE readyMail
        resumes == ready # NoMail /\ dspHalt /\ ~halt
    IN  /\ resumes => unread = <<>>
        /\ dspHalt' = halt /\ dspInit' = init /\ dspMask' = mask
        /\ dspInterrupt' = (dspInterrupt /\ ~acknowledge)
        /\ initBusy' = (initBusy \/ initialises)
        /\ initReads' = IF initialises THEN 1 ELSE initReads
        /\ readyMail' = IF resumes THEN NoMail ELSE ready
        /\ fromMail' = IF resumes THEN ready ELSE fromMail
        /\ fromFull' = (fromFull \/ resumes)
        /\ unread' = IF resumes THEN Append(unread, ready) ELSE unread
        /\ UNCHANGED <<toHigh, bootCommand, packetWords, packetTag, nextMail>>

\* The guest's driver clears the interrupt and leaves the rest as it is.
AcknowledgeDsp ==
    dspInterrupt /\ WriteControl(FALSE, dspHalt, dspInit, dspMask, TRUE)

DspWrites ==
    \/ \E high \in MailHigh : WriteMailHigh(high)
    \/ \E low \in MailLow : WriteMailLow(low)
    \/ \E reset, halt, init, mask \in BOOLEAN :
           WriteControl(reset, halt, init, mask, FALSE)

DspNext == DspWrites \/ TakeMail \/ ReadStatus \/ AcknowledgeDsp

DspSpec == DspPowerOn /\ [][DspNext]_dspVars
-----------------------------------------------------------------------------
DspTypeOK ==
    /\ toHigh \in MailHigh
    /\ bootCommand \in {"none", "parameter", "start"}
    /\ packetWords \in 0..16
    /\ packetTag \in MailHigh \cup {NoMail}
    /\ fromMail \in FromDsp \cup {NoMail} /\ fromFull \in BOOLEAN
    /\ nextMail \in FromDsp \cup {NoMail}
    /\ readyMail \in {Feed, Chd, NoMail}
    /\ dspHalt \in BOOLEAN /\ dspInit \in BOOLEAN /\ dspMask \in BOOLEAN
    /\ dspInterrupt \in BOOLEAN
    /\ initBusy \in BOOLEAN /\ initReads \in 0..1
    /\ unread \in Seq(FromDsp)

\* The mails the guest will find if it goes on reading.
Inbox ==
    (IF fromFull THEN <<fromMail>> ELSE <<>>) \o
    (IF nextMail # NoMail THEN <<nextMail>> ELSE <<>>)

(* The guest finds every mail the DSP has sent, in order, once, and nothing *)
(* else: no mail overwrites another, none is left over from before a reset, *)
(* and a DSP that is being initialised becomes ready when it is asked.      *)
MailsInOrder ==
    /\ Inbox = unread
    /\ initBusy <=> initReads > 0
=============================================================================
