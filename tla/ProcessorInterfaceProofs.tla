----------------------- MODULE ProcessorInterfaceProofs -----------------------
(***************************************************************************)
(* The devices behind main.c's external_read and external_write on one     *)
(* processor interface: the DSP's mailboxes, the external interface, and   *)
(* the interrupt latch over both, for any mails, channels, masks and       *)
(* contents of the chip's memories.                                        *)
(***************************************************************************)
EXTENDS ProcessorInterface, Lemmas

(* The DSP's mailboxes, for any mails, packet lengths and order of         *)
(* accesses.  MailsInOrder with the type is inductive: the type is needed  *)
(* because an answer that was NoMail would not stand in the register.      *)

DspIInv == DspTypeOK /\ MailsInOrder

\* Two mails in order are two mails.
LEMMA Pair == ASSUME NEW first, NEW second PROVE <<first>> \o <<second>> = <<first, second>>
<1> DEFINE S == {first, second}
           both == <<first>> \o <<second>>
<1>1. <<first>> \in Seq(S) /\ <<second>> \in Seq(S) /\ <<first, second>> \in Seq(S)
  OBVIOUS
<1>2. both \in Seq(S) /\ Len(both) = 2 /\ both[1] = first /\ both[2] = second
  BY <1>1, ConcatProperties
<1>3. \A i \in 1..2 : both[i] = <<first, second>>[i]
  BY <1>2
<1> HIDE DEF both, S
<1>4. Len(<<first, second>>) = 2
  OBVIOUS
<1> QED
  BY <1>1, <1>2, <1>3, <1>4, SeqEqual DEF both

\* The four states of the register and of what is behind it.
LEMMA InboxCases ==
    /\ fromFull /\ nextMail # NoMail => Inbox = <<fromMail, nextMail>>
    /\ fromFull /\ nextMail = NoMail => Inbox = <<fromMail>>
    /\ ~fromFull /\ nextMail # NoMail => Inbox = <<nextMail>>
    /\ ~fromFull /\ nextMail = NoMail => Inbox = <<>>
<1>1. /\ <<>> \o <<nextMail>> = <<nextMail>> /\ <<fromMail>> \o <<>> = <<fromMail>>
      /\ <<>> \o <<>> = <<>>
  OBVIOUS
<1> QED
  BY <1>1, Pair DEF Inbox

\* The same of the state a step leads to.
LEMMA InboxCasesNext ==
    /\ fromFull' /\ nextMail' # NoMail => Inbox' = <<fromMail', nextMail'>>
    /\ fromFull' /\ nextMail' = NoMail => Inbox' = <<fromMail'>>
    /\ ~fromFull' /\ nextMail' # NoMail => Inbox' = <<nextMail'>>
    /\ ~fromFull' /\ nextMail' = NoMail => Inbox' = <<>>
<1>1. /\ <<>> \o <<nextMail'>> = <<nextMail'>> /\ <<fromMail'>> \o <<>> = <<fromMail'>>
      /\ <<>> \o <<>> = <<>>
  OBVIOUS
<1> QED
  BY <1>1, Pair DEF Inbox

\* A guest that has taken every mail has left both registers empty.
LEMMA EmptyInbox ==
    ASSUME Inbox = <<>>, fromFull \in BOOLEAN
    PROVE  ~fromFull /\ nextMail = NoMail
  BY InboxCases

\* The words a count mail announces, and 17 for any other mail.
LEMMA CountBounds == \A mail : Count(mail) \in 0..17
  BY DspAssumption DEF Count

LEMMA MailsAreMails ==
    /\ {Feed, Chd, Started, Resumed, Done} \subseteq FromDsp
    /\ \A tag \in MailHigh : Yields(tag) \in FromDsp
  BY DEF FromDsp

LEMMA DspInitial == DspPowerOn => DspIInv
<1> SUFFICES ASSUME DspPowerOn PROVE DspIInv
  OBVIOUS
<1>1. DspTypeOK
  <2>1. ZeroHigh \in MailHigh
    BY DspAssumption
  <2>2. unread = <<>> /\ packetWords = 0 /\ initReads = 0
    BY DEF DspPowerOn
  <2>3. unread \in Seq(FromDsp) /\ packetWords \in 0..16 /\ initReads \in 0..1
    BY <2>2
  <2> QED
    BY <2>1, <2>3 DEF DspPowerOn, DspTypeOK
<1>2. Inbox = <<>> /\ unread = <<>>
  BY InboxCases DEF DspPowerOn
<1>3. initBusy = FALSE /\ ~(initReads > 0)
  BY DEF DspPowerOn
<1> QED
  BY <1>1, <1>2, <1>3 DEF DspIInv, MailsInOrder
-----------------------------------------------------------------------------
\* An answer to a guest that has taken everything: two mails, in order.
LEMMA AnswerKeeps ==
    ASSUME DspIInv, unread = <<>>, NEW first \in FromDsp, NEW second \in FromDsp,
           Answer(first, second)
    PROVE  /\ Inbox' = unread'
           /\ unread' \in Seq(FromDsp)
           /\ fromMail' \in FromDsp /\ fromFull' \in BOOLEAN
           /\ nextMail' \in FromDsp /\ dspInterrupt' \in BOOLEAN
<1>1. /\ fromMail' = first /\ fromFull' = TRUE /\ nextMail' = second
      /\ dspInterrupt' = TRUE
      /\ unread' = <<>> \o <<first, second>>
  BY DEF Answer
<1>2. unread' = <<first, second>>
  BY <1>1
<1>3. second # NoMail
  BY NoMailAssumption
<1>4. Inbox' = <<first, second>>
  BY <1>1, <1>3, InboxCasesNext
<1> QED
  BY <1>1, <1>2, <1>4

\* No answer changes no mail.
LEMMA NoAnswerKeeps ==
    ASSUME DspIInv, NoAnswer
    PROVE  /\ Inbox' = unread'
           /\ unread' \in Seq(FromDsp)
           /\ fromMail' \in FromDsp \cup {NoMail} /\ fromFull' \in BOOLEAN
           /\ nextMail' \in FromDsp \cup {NoMail} /\ dspInterrupt' \in BOOLEAN
  BY DEF DspIInv, DspTypeOK, MailsInOrder, NoAnswer, Inbox

\* A mail to the DSP.
LEMMA SendKeeps ==
    ASSUME DspIInv, NEW low \in MailLow, WriteMailLow(low)
    PROVE  DspIInv'
<1> DEFINE mail == <<toHigh, low>>
           Mails == /\ Inbox' = unread'
                    /\ unread' \in Seq(FromDsp)
                    /\ fromMail' \in FromDsp \cup {NoMail} /\ fromFull' \in BOOLEAN
                    /\ nextMail' \in FromDsp \cup {NoMail} /\ dspInterrupt' \in BOOLEAN
           Words == /\ bootCommand' \in {"none", "parameter", "start"}
                    /\ packetWords' \in 0..16
                    /\ packetTag' \in MailHigh \cup {NoMail}
<1>1. /\ unread = <<>>
      /\ BootMail(mail) \/ BootOperand(mail) \/ PacketBegins(mail) \/ PacketWord(mail)
      /\ UNCHANGED <<toHigh, readyMail, dspHalt, dspInit, dspMask, initBusy, initReads>>
  BY DEF WriteMailLow
<1>2. mail[1] = toHigh /\ toHigh \in MailHigh
  BY DEF DspIInv, DspTypeOK
<1>3. /\ bootCommand \in {"none", "parameter", "start"}
      /\ packetWords \in 0..16 /\ packetTag \in MailHigh \cup {NoMail}
  BY DEF DspIInv, DspTypeOK
<1> HIDE DEF mail
<1>4. ASSUME BootMail(mail) PROVE Mails /\ Words
  <2>1. Words
    BY <1>3, <1>4 DEF BootMail
  <2> QED
    BY <2>1, <1>4, NoAnswerKeeps DEF BootMail
<1>5. ASSUME BootOperand(mail) PROVE Mails /\ Words
  <2>1. Words
    BY <1>3, <1>5 DEF BootOperand
  <2>2. Answer(Started, Resumed) \/ NoAnswer
    BY <1>5 DEF BootOperand
  <2>3. Mails
    BY <2>2, <1>1, AnswerKeeps, NoAnswerKeeps, MailsAreMails
  <2> QED
    BY <2>1, <2>3
<1>6. ASSUME PacketBegins(mail) PROVE Mails /\ Words
  <2>1. Words
    BY <1>3, <1>6, CountBounds DEF PacketBegins
  <2> QED
    BY <2>1, <1>6, NoAnswerKeeps DEF PacketBegins
<1>7. ASSUME PacketWord(mail) PROVE Mails /\ Words
  <2>1. packetTag' \in MailHigh
    BY <1>2, <1>3, <1>7 DEF PacketWord
  <2>2. Words
    BY <2>1, <1>3, <1>7 DEF PacketWord
  <2>3. Answer(Done, Yields(packetTag')) \/ NoAnswer
    BY <1>7 DEF PacketWord
  <2>4. Mails
    BY <2>1, <2>3, <1>1, AnswerKeeps, NoAnswerKeeps, MailsAreMails
  <2> QED
    BY <2>2, <2>4
<1>8. Mails /\ Words
  BY <1>1, <1>4, <1>5, <1>6, <1>7
<1> HIDE DEF Mails, Words
<1>9. DspTypeOK'
  BY <1>1, <1>8 DEF DspIInv, DspTypeOK, Mails, Words
<1>10. MailsInOrder'
  BY <1>1, <1>8 DEF DspIInv, MailsInOrder, Mails
<1> QED
  BY <1>9, <1>10 DEF DspIInv

\* Taking the mail in front leaves the one behind it.
LEMMA TakeKeeps ==
    ASSUME DspIInv, TakeMail
    PROVE  DspIInv'
<1>1. Inbox = unread /\ unread \in Seq(FromDsp)
  BY DEF DspIInv, MailsInOrder, DspTypeOK
<1>2. Inbox' = IF nextMail # NoMail THEN <<nextMail>> ELSE <<>>
  BY InboxCasesNext DEF TakeMail
<1>3. unread' = Inbox' /\ unread' \in Seq(FromDsp)
  <2>1. CASE fromFull /\ nextMail # NoMail
    <3>1. unread = <<fromMail, nextMail>>
      BY <1>1, <2>1, InboxCases
    <3>2. unread' = Tail(unread)
      BY <2>1 DEF TakeMail
    <3> QED
      BY <1>1, <1>2, <2>1, <3>1, <3>2
  <2>2. CASE fromFull /\ nextMail = NoMail
    <3>1. unread = <<fromMail>>
      BY <1>1, <2>2, InboxCases
    <3>2. unread' = Tail(unread)
      BY <2>2 DEF TakeMail
    <3> QED
      BY <1>1, <1>2, <2>2, <3>1, <3>2
  <2>3. CASE ~fromFull
    <3>1. unread' = unread
      BY <2>3 DEF TakeMail
    <3>2. Inbox = IF nextMail # NoMail THEN <<nextMail>> ELSE <<>>
      BY <2>3, InboxCases
    <3> QED
      BY <1>1, <1>2, <3>1, <3>2
  <2>4. fromFull \in BOOLEAN
    BY DEF DspIInv, DspTypeOK
  <2> QED
    BY <2>1, <2>2, <2>3, <2>4
<1>4. DspTypeOK'
  BY <1>3 DEF DspIInv, DspTypeOK, TakeMail
<1>5. MailsInOrder'
  BY <1>3 DEF DspIInv, MailsInOrder, TakeMail
<1> QED
  BY <1>4, <1>5 DEF DspIInv

\* A boot mail comes out only where no mail stands.
LEMMA ControlKeeps ==
    ASSUME DspIInv, NEW reset \in BOOLEAN, NEW halt \in BOOLEAN, NEW init \in BOOLEAN,
           NEW mask \in BOOLEAN, NEW acknowledge \in BOOLEAN,
           WriteControl(reset, halt, init, mask, acknowledge)
    PROVE  DspIInv'
<1> DEFINE initialises == dspInit /\ ~init
           ready == IF initialises THEN Chd ELSE IF reset THEN Feed ELSE readyMail
           resumes == ready # NoMail /\ dspHalt /\ ~halt
<1>1. /\ resumes => unread = <<>>
      /\ dspHalt' = halt /\ dspInit' = init /\ dspMask' = mask
      /\ dspInterrupt' = (dspInterrupt /\ ~acknowledge)
      /\ initBusy' = (initBusy \/ initialises)
      /\ initReads' = IF initialises THEN 1 ELSE initReads
      /\ readyMail' = IF resumes THEN NoMail ELSE ready
      /\ fromMail' = IF resumes THEN ready ELSE fromMail
      /\ fromFull' = (fromFull \/ resumes)
      /\ unread' = IF resumes THEN Append(unread, ready) ELSE unread
      /\ UNCHANGED <<toHigh, bootCommand, packetWords, packetTag, nextMail>>
  BY DEF WriteControl
<1>2. ready \in {Feed, Chd, NoMail} /\ resumes \in BOOLEAN /\ initialises \in BOOLEAN
  BY DEF DspIInv, DspTypeOK
<1> HIDE DEF initialises, ready, resumes
<1>3. Inbox' = unread' /\ unread' \in Seq(FromDsp)
  <2>1. CASE resumes
    <3>1. ~fromFull /\ nextMail = NoMail
      BY <1>1, <2>1, EmptyInbox DEF DspIInv, DspTypeOK, MailsInOrder
    <3>2. unread' = <<ready>> /\ ready \in FromDsp
      BY <1>1, <1>2, <2>1, MailsAreMails DEF resumes
    <3>3. Inbox' = <<ready>>
      BY <1>1, <2>1, <3>1, InboxCasesNext
    <3> QED
      BY <3>2, <3>3
  <2>2. CASE ~resumes
    <3>1. Inbox' = Inbox
      BY <1>1, <1>2, <2>2 DEF Inbox, DspIInv, DspTypeOK
    <3> QED
      BY <1>1, <2>2, <3>1 DEF DspIInv, DspTypeOK, MailsInOrder
  <2> QED
    BY <2>1, <2>2
<1>4. fromMail' \in FromDsp \cup {NoMail} /\ readyMail' \in {Feed, Chd, NoMail}
  BY <1>1, <1>2, MailsAreMails DEF DspIInv, DspTypeOK
<1>5. DspTypeOK'
  BY <1>1, <1>2, <1>3, <1>4 DEF DspIInv, DspTypeOK
<1>6. MailsInOrder'
  BY <1>1, <1>2, <1>3 DEF DspIInv, DspTypeOK, MailsInOrder
<1> QED
  BY <1>5, <1>6 DEF DspIInv

LEMMA DspStep == DspIInv /\ [DspNext]_dspVars => DspIInv'
<1> SUFFICES ASSUME DspIInv, [DspNext]_dspVars PROVE DspIInv'
  OBVIOUS
<1>1. ASSUME NEW high \in MailHigh, WriteMailHigh(high) PROVE DspIInv'
  BY <1>1 DEF WriteMailHigh, DspIInv, DspTypeOK, MailsInOrder, Inbox
<1>2. ASSUME NEW low \in MailLow, WriteMailLow(low) PROVE DspIInv'
  BY <1>2, SendKeeps
<1>3. ASSUME NEW reset \in BOOLEAN, NEW halt \in BOOLEAN, NEW init \in BOOLEAN,
             NEW mask \in BOOLEAN, WriteControl(reset, halt, init, mask, FALSE)
      PROVE  DspIInv'
  BY <1>3, ControlKeeps
<1>4. CASE TakeMail
  BY <1>4, TakeKeeps
<1>5. CASE ReadStatus
  <2>1. initReads' \in 0..1 /\ (initBusy' <=> initReads' > 0) /\ initBusy' \in BOOLEAN
    <3>1. initReads \in 0..1 /\ initBusy \in BOOLEAN /\ (initBusy <=> initReads > 0)
      BY DEF DspIInv, DspTypeOK, MailsInOrder
    <3>2. initReads' = (IF initReads = 0 THEN 0 ELSE initReads - 1)
      BY <1>5 DEF ReadStatus
    <3>3. initBusy' = (initBusy /\ initReads # 1)
      BY <1>5 DEF ReadStatus
    <3>4. initReads = 0 \/ initReads = 1
      BY <3>1
    <3>5. ASSUME initReads = 0 PROVE initBusy' = FALSE
      <4>1. ~(initReads > 0)
        BY <3>5
      <4> QED
        BY <3>1, <3>3, <4>1, Zenon
    <3>6. ASSUME initReads = 1 PROVE initBusy' = FALSE
      BY <3>3, <3>6, Zenon
    <3>7. initReads' = 0
      BY <3>2, <3>4
    <3>8. initReads' \in 0..1 /\ ~(initReads' > 0)
      BY <3>7
    <3> QED
      BY <3>4, <3>5, <3>6, <3>8, Zenon
  <2>2. UNCHANGED <<toHigh, bootCommand, packetWords, packetTag, fromMail, fromFull,
                    nextMail, readyMail, dspHalt, dspInit, dspMask, dspInterrupt, unread>>
    BY <1>5 DEF ReadStatus
  <2> QED
    BY <2>1, <2>2 DEF DspIInv, DspTypeOK, MailsInOrder, Inbox
<1>6. CASE AcknowledgeDsp
  <2>1. dspHalt \in BOOLEAN /\ dspInit \in BOOLEAN /\ dspMask \in BOOLEAN
    BY DEF DspIInv, DspTypeOK
  <2> QED
    BY <1>6, <2>1, ControlKeeps DEF AcknowledgeDsp
<1>7. CASE UNCHANGED dspVars
  BY <1>7 DEF dspVars, DspIInv, DspTypeOK, MailsInOrder, Inbox
<1> QED
  BY <1>1, <1>2, <1>3, <1>4, <1>5, <1>6, <1>7 DEF DspNext, DspWrites

(* The type and the order of the mails hold in every state. *)
THEOREM DspInvariance == DspSpec => []DspIInv
  BY DspInitial, DspStep, PTL DEF DspSpec

(* The registers of the DSP keep their ranges; a packet lacks at most 16   *)
(* words, and what stands in the mailbox is a mail the DSP sends.          *)
THEOREM DspTypeCorrect == DspSpec => []DspTypeOK
<1>1. DspIInv => DspTypeOK
  BY DEF DspIInv
<1> QED
  BY <1>1, DspInvariance, PTL

(* A guest that takes the mails of one answer before it asks for the next  *)
(* finds every mail the DSP has sent, in order and once, through a         *)
(* register of one mail with one behind it (main.c's external_write of the *)
(* DSP's control and mailbox, and external_read of it).                    *)
THEOREM MailsAreInOrder == DspSpec => []MailsInOrder
<1>1. DspIInv => MailsInOrder
  BY DEF DspIInv
<1> QED
  BY <1>1, DspInvariance, PTL
-----------------------------------------------------------------------------
(* The external interface, for any chip.  A transfer is a fold over its    *)
(* bytes; what TransactionDecoded says of the chip and of the history is   *)
(* kept by every byte, with the cursor counting the bytes of the data.     *)

Sram == [0..(SramSize - 1) -> ExiByte]

Chip == {chip \in [command : Seq(ExiByte), cursor : Nat, sram : Sram, flags : ExiByte] :
            Len(chip.command) <= CommandLength}

Transaction == [sent : Seq(ExiByte), given : Seq(ExiByte), sram : Sram, flags : ExiByte]

Whole(h) == Len(h.sent) >= CommandLength
Counts(chip) == Target(chip.command) \in {"rom", "sram"}

\* TransactionDecoded of any chip and any history, and the cursor.
DecodedBy(chip, h) ==
    /\ Len(chip.command) = IF Whole(h) THEN CommandLength ELSE Len(h.sent)
    /\ chip.command = SubSeq(h.sent, 1, Len(chip.command))
    /\ chip.cursor = IF Whole(h) /\ Counts(chip) THEN Len(h.sent) - CommandLength ELSE 0
    /\ chip.sram = IF Whole(h) THEN SramAfter(h) ELSE h.sram
    /\ chip.flags = IF Whole(h) THEN FlagsAfter(h) ELSE h.flags
    /\ Len(h.given) = Len(h.sent)
    /\ \A i \in DOMAIN h.sent : h.given[i] = GivenFor(h, i)

\* The history with one more byte.
Longer(h, chip, input, output, now) ==
    LET completes == Len(h.sent) + 1 = CommandLength
    IN  [sent |-> Append(h.sent, input), given |-> Append(h.given, output),
         sram |-> IF completes THEN [chip.sram EXCEPT ![0] = now] ELSE h.sram,
         flags |-> IF completes THEN chip.flags ELSE h.flags]

LEMMA ChipNumbers ==
    /\ CommandLength \in Nat \ {0} /\ SramSize \in Nat \ {0} /\ RomSize \in Nat \ {0}
    /\ 0 \in 0..(SramSize - 1) /\ 0 \in ExiByte /\ Ones \in ExiByte
  BY ExiAssumption

LEMMA Offsets ==
    ASSUME NEW command \in Seq(ExiByte), Len(command) = CommandLength
    PROVE  Offset(command) \in Nat
<1>1. command \in [1..CommandLength -> ExiByte]
  BY LenProperties
<1> QED
  BY <1>1, ExiAssumption

\* A sequence with one more element at its end.
LEMMA OneMore ==
    ASSUME NEW S, NEW s \in Seq(S), NEW x \in S
    PROVE  /\ Append(s, x) \in Seq(S) /\ Len(Append(s, x)) = Len(s) + 1
           /\ DOMAIN Append(s, x) = 1..Len(s) + 1
           /\ \A i \in 1..Len(s) : Append(s, x)[i] = s[i]
           /\ Append(s, x)[Len(s) + 1] = x
           /\ \A k \in 0..Len(s) : SubSeq(Append(s, x), 1, k) = SubSeq(s, 1, k)
           /\ \A k \in 0..Len(s) :
                SubSeq(Append(s, x), k + 1, Len(s) + 1) = Append(SubSeq(s, k + 1, Len(s)), x)
<1> DEFINE t == Append(s, x)
           n == Len(s)
<1>1. /\ t \in Seq(S) /\ Len(t) = n + 1 /\ DOMAIN t = 1..n + 1
      /\ \A i \in 1..n : t[i] = s[i]
      /\ t[n + 1] = x
  BY AppendProperties, LenProperties
<1>2. n \in Nat /\ \A i \in 1..n : s[i] \in S
  OBVIOUS
<1>3. ASSUME NEW k \in 0..n PROVE SubSeq(t, 1, k) = SubSeq(s, 1, k)
  <2> DEFINE a == SubSeq(t, 1, k)
             b == SubSeq(s, 1, k)
  <2>1. /\ a \in Seq(S) /\ Len(a) = k /\ \A i \in 1..k : a[i] = t[i]
        /\ b \in Seq(S) /\ Len(b) = k /\ \A i \in 1..k : b[i] = s[i]
    <3> HIDE DEF t
    <3> QED
      BY <1>1, <1>2
  <2> HIDE DEF a, b, t, n
  <2>2. \A i \in 1..k : a[i] = b[i]
    BY <1>1, <1>2, <2>1
  <2> QED
    BY <2>1, <2>2, SeqEqual
<1>4. ASSUME NEW k \in 0..n PROVE SubSeq(t, k + 1, n + 1) = Append(SubSeq(s, k + 1, n), x)
  <2> DEFINE a == SubSeq(t, k + 1, n + 1)
             c == SubSeq(s, k + 1, n)
             b == Append(c, x)
  <2>1. /\ a \in Seq(S) /\ Len(a) = n + 1 - k /\ \A i \in 1..n + 1 - k : a[i] = t[k + i]
    <3> HIDE DEF t, n
    <3>1. \A i \in k + 1..n + 1 : t[i] \in S
      BY <1>1, <1>2
    <3> QED
      BY <1>2, <3>1, SubSeqProperties
  <2>2. /\ c \in Seq(S) /\ Len(c) = n - k /\ \A i \in 1..n - k : c[i] = s[k + i]
    <3> HIDE DEF n
    <3>1. \A i \in k + 1..n : s[i] \in S
      BY <1>2
    <3> QED
      BY <1>2, <3>1, SubSeqProperties
  <2> HIDE DEF c
  <2>3. /\ b \in Seq(S) /\ Len(b) = n - k + 1 /\ \A i \in 1..n - k : b[i] = c[i]
        /\ b[n - k + 1] = x
    BY <2>2, AppendProperties
  <2> HIDE DEF a, b, t, n
  <2>4. ASSUME NEW i \in 1..n + 1 - k PROVE a[i] = b[i]
    <3>1. CASE i = n - k + 1
      <4>1. k + i = n + 1
        BY <1>2, <3>1
      <4> QED
        BY <1>1, <2>1, <2>3, <3>1, <4>1
    <3>2. CASE i # n - k + 1
      <4>1. i \in 1..n - k /\ k + i \in 1..n
        BY <1>2, <3>2
      <4> QED
        BY <1>1, <2>1, <2>2, <2>3, <4>1
    <3> QED
      BY <3>1, <3>2
  <2>5. Len(a) = Len(b)
    BY <1>2, <2>1, <2>3
  <2>6. \A i \in 1..Len(a) : a[i] = b[i]
    BY <2>1, <2>4
  <2>7. a \in Seq(S) /\ b \in Seq(S)
    BY <2>1, <2>3
  <2>8. a = b
    BY <2>5, <2>6, <2>7, SeqEqual
  <2> QED
    BY <2>8 DEF a, b, c, n, t
<1> QED
  BY <1>1, <1>3, <1>4

\* Which byte of the data a cell has, when one more has come.
LEMMA LastOfMore ==
    ASSUME NEW data \in Seq(ExiByte), NEW x \in ExiByte, NEW offset \in Nat, NEW cell
    PROVE  LastFor(Append(data, x), offset, cell) =
              IF (offset + Len(data)) % SramSize = cell THEN {Len(data) + 1}
              ELSE LastFor(data, offset, cell)
<1> DEFINE n == Len(data)
           At(i) == (offset + i - 1) % SramSize
<1>1. /\ n \in Nat /\ DOMAIN data = 1..n /\ DOMAIN Append(data, x) = 1..n + 1
      /\ offset + (n + 1) - 1 = offset + n
  BY OneMore
<1>2. LastFor(Append(data, x), offset, cell) =
        {i \in 1..n + 1 : At(i) = cell /\ \A j \in 1..n + 1 : At(j) = cell => j <= i}
  BY <1>1 DEF LastFor
<1>3. LastFor(data, offset, cell) =
        {i \in 1..n : At(i) = cell /\ \A j \in 1..n : At(j) = cell => j <= i}
  BY <1>1 DEF LastFor
<1>4. At(n + 1) = (offset + n) % SramSize
  BY <1>1
<1> HIDE DEF n, At
<1>5. CASE At(n + 1) = cell
  <2>1. \A i \in 1..n + 1 : (\A j \in 1..n + 1 : At(j) = cell => j <= i) <=> i = n + 1
    <3>1. n + 1 \in 1..n + 1 /\ \A j \in 1..n + 1 : j <= n + 1
      BY <1>1
    <3>2. \A i \in 1..n + 1 : n + 1 <= i => i = n + 1
      BY <1>1
    <3> QED
      BY <1>5, <3>1, <3>2
  <2> QED
    BY <1>1, <1>2, <1>4, <1>5, <2>1 DEF n
<1>6. CASE At(n + 1) # cell
  <2>1. \A i \in 1..n + 1 : At(i) = cell => i \in 1..n
    BY <1>1, <1>6
  <2>2. 1..n \subseteq 1..n + 1
    BY <1>1
  <2> QED
    BY <1>2, <1>3, <1>4, <1>6, <2>1, <2>2 DEF n
<1> QED
  BY <1>5, <1>6

LEMMA ChipFields ==
    ASSUME NEW chip \in Chip
    PROVE  /\ chip.command \in Seq(ExiByte) /\ Len(chip.command) \in 0..CommandLength
           /\ chip.cursor \in Nat /\ chip.sram \in Sram /\ chip.flags \in ExiByte
  BY ChipNumbers DEF Chip

\* A byte of the command.
LEMMA CommandByteFields ==
    ASSUME NEW chip \in Chip, NEW input \in ExiByte, NEW now \in ExiByte,
           Len(chip.command) < CommandLength
    PROVE  LET one == TransferByte(chip, input, now)
           IN  /\ one.chip \in Chip /\ one.output = Ones
               /\ one.chip.command = Append(chip.command, input)
               /\ one.chip.cursor = chip.cursor
               /\ one.chip.sram = IF Len(chip.command) + 1 = CommandLength
                                  THEN [chip.sram EXCEPT ![0] = now] ELSE chip.sram
               /\ one.chip.flags = chip.flags
<1> DEFINE command == Append(chip.command, input)
           next == CommandByte(chip, input, now)
           length == Len(chip.command)
           sram == [chip.sram EXCEPT ![0] = IF Len(command) = CommandLength THEN now ELSE @]
<1>1. /\ chip.command \in Seq(ExiByte) /\ length \in Nat
      /\ chip.cursor \in Nat /\ chip.sram \in Sram /\ chip.flags \in ExiByte
  BY ChipFields
<1>2. command \in Seq(ExiByte) /\ Len(command) = length + 1
  BY <1>1, AppendProperties
<1> HIDE DEF command, length
<1>3. /\ sram \in Sram
      /\ sram = IF Len(command) = CommandLength
                THEN [chip.sram EXCEPT ![0] = now] ELSE chip.sram
  <2> HIDE DEF command
  <2> QED
    BY <1>1, ChipNumbers DEF Sram
<1>4. next = [chip EXCEPT !.command = command, !.sram = sram]
  BY DEF CommandByte, command
<1> HIDE DEF sram, next
<1>5. /\ next \in [command : Seq(ExiByte), cursor : Nat, sram : Sram, flags : ExiByte]
      /\ next.command = command /\ next.cursor = chip.cursor
      /\ next.sram = sram /\ next.flags = chip.flags
  BY <1>1, <1>2, <1>3, <1>4 DEF Chip
<1>6. Len(command) <= CommandLength
  BY <1>1, <1>2, ChipNumbers DEF length
<1>7. TransferByte(chip, input, now) = [chip |-> next, output |-> Ones]
  BY DEF TransferByte, next
<1> QED
  BY <1>2, <1>3, <1>5, <1>6, <1>7 DEF Chip, command, length

\* A byte of the data.
LEMMA DataByteFields ==
    ASSUME NEW chip \in Chip, NEW input \in ExiByte, NEW now \in ExiByte,
           Len(chip.command) = CommandLength
    PROVE  LET one == TransferByte(chip, input, now)
               target == Target(chip.command)
               write == Writes(chip.command)
           IN  /\ one.chip \in Chip /\ one.output \in ExiByte
               /\ one.chip.command = chip.command
               /\ one.chip.cursor = IF Counts(chip) THEN chip.cursor + 1 ELSE chip.cursor
               /\ one.chip.sram = IF write /\ target = "sram"
                                  THEN [chip.sram EXCEPT ![Place(chip)] = input]
                                  ELSE chip.sram
               /\ one.chip.flags = IF write /\ target = "flags" THEN input ELSE chip.flags
               /\ write => one.output = 0
               /\ ~write =>
                    one.output =
                      CASE target = "sram" -> chip.sram[Place(chip)]
                        [] target = "flags" -> chip.flags
                        [] target = "rom" ->
                              RomByte((Offset(chip.command) + chip.cursor) % RomSize)
                        [] OTHER -> 0
<1> DEFINE target == Target(chip.command)
           write == Writes(chip.command)
           place == Place(chip)
           romPlace == (Offset(chip.command) + chip.cursor) % RomSize
           moved == IF target \in {"rom", "sram"} THEN [chip EXCEPT !.cursor = @ + 1] ELSE chip
           written == [moved EXCEPT !.sram[place] = input]
           flagged == [moved EXCEPT !.flags = input]
           Fields == [command : Seq(ExiByte), cursor : Nat, sram : Sram, flags : ExiByte]
<1>1. /\ chip \in Fields /\ chip.command \in Seq(ExiByte)
      /\ chip.cursor \in Nat /\ chip.sram \in Sram /\ chip.flags \in ExiByte
  BY ChipFields DEF Chip
<1>2. Offset(chip.command) + chip.cursor \in Nat
  BY <1>1, Offsets
<1>3. place \in 0..(SramSize - 1) /\ romPlace \in 0..(RomSize - 1)
  <2> DEFINE at == Offset(chip.command) + chip.cursor
  <2>1. at \in Int /\ place = at % SramSize /\ romPlace = at % RomSize
    BY <1>2 DEF Place
  <2> HIDE DEF at, place, romPlace
  <2> QED
    BY <2>1, ChipNumbers, Division
<1>4. RomByte(romPlace) \in ExiByte /\ chip.sram[place] \in ExiByte
  BY <1>1, <1>3, ExiAssumption DEF Sram
<1> HIDE DEF place, romPlace
<1>5. /\ moved \in Fields
      /\ moved.command = chip.command /\ moved.sram = chip.sram /\ moved.flags = chip.flags
      /\ moved.cursor = IF Counts(chip) THEN chip.cursor + 1 ELSE chip.cursor
  BY <1>1 DEF Counts
<1> HIDE DEF moved
<1>6. /\ written \in Fields
      /\ written.command = chip.command /\ written.flags = chip.flags
      /\ written.cursor = moved.cursor
      /\ written.sram = [chip.sram EXCEPT ![place] = input]
  BY <1>1, <1>3, <1>5 DEF Sram
<1>7. /\ flagged \in Fields
      /\ flagged.command = chip.command /\ flagged.sram = chip.sram
      /\ flagged.cursor = moved.cursor /\ flagged.flags = input
  BY <1>5
<1> HIDE DEF written, flagged
<1>8. TransferByte(chip, input, now) = DataByte(chip, input)
  BY ChipNumbers DEF TransferByte
<1>9. DataByte(chip, input) =
        CASE write /\ target = "sram" -> [chip |-> written, output |-> 0]
          [] write /\ target = "flags" -> [chip |-> flagged, output |-> 0]
          [] ~write /\ target = "sram" -> [chip |-> moved, output |-> chip.sram[place]]
          [] ~write /\ target = "flags" -> [chip |-> moved, output |-> chip.flags]
          [] ~write /\ target = "rom" -> [chip |-> moved, output |-> RomByte(romPlace)]
          [] OTHER -> [chip |-> moved, output |-> 0]
  BY DEF DataByte, moved, written, flagged, place, romPlace
<1> DEFINE one == DataByte(chip, input)
<1> HIDE DEF Fields, target, write
<1>10. \/ write /\ target = "sram" /\ one = [chip |-> written, output |-> 0]
       \/ write /\ target = "flags" /\ one = [chip |-> flagged, output |-> 0]
       \/ write /\ target \notin {"sram", "flags"} /\ one = [chip |-> moved, output |-> 0]
       \/ ~write /\ target = "sram" /\ one = [chip |-> moved, output |-> chip.sram[place]]
       \/ ~write /\ target = "flags" /\ one = [chip |-> moved, output |-> chip.flags]
       \/ ~write /\ target = "rom" /\ one = [chip |-> moved, output |-> RomByte(romPlace)]
       \/ /\ ~write /\ target \notin {"sram", "flags", "rom"}
          /\ one = [chip |-> moved, output |-> 0]
  BY <1>9, Zenon
<1> HIDE DEF one
<1>11. /\ one.chip \in Fields /\ one.output \in ExiByte
       /\ one.chip.command = chip.command /\ one.chip.cursor = moved.cursor
       /\ one.chip.sram = IF write /\ target = "sram"
                          THEN [chip.sram EXCEPT ![place] = input] ELSE chip.sram
       /\ one.chip.flags = IF write /\ target = "flags" THEN input ELSE chip.flags
  BY <1>1, <1>4, <1>5, <1>6, <1>7, <1>10, ChipNumbers
<1>12. write => one.output = 0
  BY <1>10
<1>13. ~write => one.output =
          CASE target = "sram" -> chip.sram[place]
            [] target = "flags" -> chip.flags
            [] target = "rom" -> RomByte(romPlace)
            [] OTHER -> 0
  BY <1>10
<1>14. one.chip \in Chip
  BY <1>11, ChipNumbers DEF Chip, Fields
<1> QED
  BY <1>5, <1>8, <1>11, <1>12, <1>13, <1>14 DEF one, target, write, place, romPlace

IsLonger(h2, h, chip, input, output, now) ==
    LET completes == Len(h.sent) + 1 = CommandLength
    IN  /\ h2 \in Transaction
        /\ h2.sent = Append(h.sent, input) /\ h2.given = Append(h.given, output)
        /\ h2.sram = IF completes THEN [chip.sram EXCEPT ![0] = now] ELSE h.sram
        /\ h2.flags = IF completes THEN chip.flags ELSE h.flags

LEMMA LongerType ==
    ASSUME NEW h \in Transaction, NEW chip \in Chip, NEW input \in ExiByte,
           NEW output \in ExiByte, NEW now \in ExiByte,
           NEW h2, h2 = Longer(h, chip, input, output, now)
    PROVE  IsLonger(h2, h, chip, input, output, now)
<1>1. Append(h.sent, input) \in Seq(ExiByte) /\ Append(h.given, output) \in Seq(ExiByte)
  BY AppendProperties DEF Transaction
<1>2. [chip.sram EXCEPT ![0] = now] \in Sram
  BY ChipFields, ChipNumbers DEF Sram
<1> QED
  BY <1>1, <1>2, ChipFields DEF Transaction, Longer, IsLonger

\* What the guest is given for the command.
LEMMA GivenOnes ==
    ASSUME NEW h, NEW i \in Nat, i <= CommandLength
    PROVE  GivenFor(h, i) = Ones
  BY DEF GivenFor

\* The bytes the guest is given, with one more.
LEMMA GivenMore ==
    ASSUME NEW h \in Transaction, NEW h2 \in Transaction, NEW input \in ExiByte,
           NEW output \in ExiByte,
           h2.sent = Append(h.sent, input), h2.given = Append(h.given, output),
           Len(h.given) = Len(h.sent),
           \A i \in DOMAIN h.sent : h.given[i] = GivenFor(h2, i),
           output = GivenFor(h2, Len(h.sent) + 1)
    PROVE  /\ Len(h2.given) = Len(h2.sent)
           /\ \A i \in DOMAIN h2.sent : h2.given[i] = GivenFor(h2, i)
<1> DEFINE n == Len(h.sent)
<1>1. /\ h.sent \in Seq(ExiByte) /\ h.given \in Seq(ExiByte) /\ n \in Nat
      /\ DOMAIN h.sent = 1..n
  BY DEF Transaction
<1>2. Len(h2.sent) = n + 1 /\ DOMAIN h2.sent = 1..n + 1
  BY <1>1, OneMore
<1>3. /\ Len(h2.given) = n + 1 /\ h2.given[n + 1] = output
      /\ \A i \in 1..n : h2.given[i] = h.given[i]
  BY <1>1, OneMore
<1> HIDE DEF n
<1>4. ASSUME NEW i \in 1..n + 1 PROVE h2.given[i] = GivenFor(h2, i)
  <2>1. CASE i = n + 1
    BY <1>3, <2>1 DEF n
  <2>2. CASE i # n + 1
    <3>1. i \in 1..n
      BY <1>1, <2>2
    <3> QED
      BY <1>1, <1>3, <3>1
  <2> QED
    BY <2>1, <2>2
<1> QED
  BY <1>2, <1>3, <1>4

LEMMA CommandByteKeeps ==
    ASSUME NEW chip \in Chip, NEW h \in Transaction, DecodedBy(chip, h),
           NEW input \in ExiByte, NEW now \in ExiByte, Len(h.sent) < CommandLength
    PROVE  LET one == TransferByte(chip, input, now)
           IN  DecodedBy(one.chip, Longer(h, chip, input, one.output, now))
<1> DEFINE one == TransferByte(chip, input, now)
           h2 == Longer(h, chip, input, one.output, now)
           n == Len(h.sent)
<1>1. h.sent \in Seq(ExiByte) /\ h.given \in Seq(ExiByte) /\ n \in Nat /\ DOMAIN h.sent = 1..n
  BY DEF Transaction
<1>2. ~Whole(h)
  BY <1>1, ChipNumbers DEF Whole
<1>3. chip.command = h.sent
  <2>1. SubSeq(h.sent, 1, Len(h.sent)) = h.sent
    BY <1>1, SubSeqFull
  <2> QED
    BY <1>2, <2>1 DEF DecodedBy
<1>4. /\ one.chip \in Chip /\ one.output = Ones
      /\ one.chip.command = Append(chip.command, input)
      /\ one.chip.cursor = chip.cursor
      /\ one.chip.sram = IF Len(chip.command) + 1 = CommandLength
                         THEN [chip.sram EXCEPT ![0] = now] ELSE chip.sram
      /\ one.chip.flags = chip.flags
  BY <1>3, CommandByteFields
<1> HIDE DEF one
<1>5. /\ h2 \in Transaction
      /\ h2.sent = Append(h.sent, input) /\ h2.given = Append(h.given, Ones)
      /\ h2.sram = IF n + 1 = CommandLength THEN [chip.sram EXCEPT ![0] = now] ELSE h.sram
      /\ h2.flags = IF n + 1 = CommandLength THEN chip.flags ELSE h.flags
  <2>1. one.output \in ExiByte
    BY <1>4, ChipNumbers
  <2>2. /\ h2 \in Transaction
        /\ h2.sent = Append(h.sent, input) /\ h2.given = Append(h.given, one.output)
        /\ h2.sram = IF Len(h.sent) + 1 = CommandLength
                     THEN [chip.sram EXCEPT ![0] = now] ELSE h.sram
        /\ h2.flags = IF Len(h.sent) + 1 = CommandLength THEN chip.flags ELSE h.flags
    <3>1. h2 = Longer(h, chip, input, one.output, now)
      OBVIOUS
    <3> HIDE DEF h2
    <3>2. IsLonger(h2, h, chip, input, one.output, now)
      BY <3>1, <2>1, LongerType
    <3> QED
      BY <3>2 DEF IsLonger
  <2> HIDE DEF h2
  <2> QED
    BY <1>4, <2>2
<1> SUFFICES DecodedBy(one.chip, h2)
  BY DEF one
<1> HIDE DEF h2
<1>6. h2.sent \in Seq(ExiByte) /\ Len(h2.sent) = n + 1 /\ one.chip.command = h2.sent
  BY <1>1, <1>3, <1>4, <1>5, OneMore
<1>7. chip.cursor = 0 /\ chip.sram = h.sram /\ chip.flags = h.flags
  BY <1>2 DEF DecodedBy
<1>8. Len(h2.given) = Len(h2.sent) /\ \A i \in DOMAIN h2.sent : h2.given[i] = GivenFor(h2, i)
  <2>1. Len(h.given) = n
    BY DEF DecodedBy
  <2>2. \A i \in DOMAIN h.sent : h.given[i] = GivenFor(h2, i)
    <3>1. ASSUME NEW i \in 1..n PROVE h.given[i] = GivenFor(h2, i)
      <4>1. i \in Nat /\ i <= CommandLength
        BY <1>1, ChipNumbers
      <4>2. GivenFor(h, i) = Ones /\ GivenFor(h2, i) = Ones
        BY <4>1, GivenOnes
      <4> QED
        BY <1>1, <4>2 DEF DecodedBy
    <3> QED
      BY <1>1, <3>1
  <2>3. GivenFor(h2, n + 1) = Ones
    <3>1. n + 1 \in Nat /\ n + 1 <= CommandLength
      BY <1>1, ChipNumbers
    <3> QED
      BY <3>1, GivenOnes
  <2> QED
    BY <1>5, <2>1, <2>2, <2>3, GivenMore, ChipNumbers
<1>9. SubSeq(h2.sent, 1, Len(h2.sent)) = h2.sent
  BY <1>6, SubSeqFull
<1>10. CASE n + 1 # CommandLength
  <2>1. ~Whole(h2)
    BY <1>1, <1>6, <1>10, ChipNumbers DEF Whole
  <2>2. one.chip.sram = h2.sram /\ one.chip.flags = h2.flags /\ one.chip.cursor = 0
    BY <1>3, <1>4, <1>5, <1>7, <1>10
  <2> QED
    BY <1>6, <1>8, <1>9, <2>1, <2>2 DEF DecodedBy
<1>11. CASE n + 1 = CommandLength
  <2>1. Whole(h2) /\ Len(h2.sent) = CommandLength /\ Len(h2.sent) - CommandLength = 0
    BY <1>6, <1>11, ChipNumbers DEF Whole
  <2>2. one.chip.sram = h2.sram /\ one.chip.flags = h2.flags /\ one.chip.cursor = 0
    BY <1>3, <1>4, <1>5, <1>7, <1>11
  <2>3. Data(h2.sent) = <<>>
    <3>1. CommandLength + 1 \in Int /\ Len(h2.sent) \in Int /\ Len(h2.sent) < CommandLength + 1
      BY <2>1, ChipNumbers
    <3> QED
      BY <3>1, SubSeqEmpty DEF Data
  <2>4. SramAfter(h2) = h2.sram
    <3>1. \A offset, cell : LastFor(<<>>, offset, cell) = {}
      BY DEF LastFor
    <3>2. h2.sram \in [0..(SramSize - 1) -> ExiByte]
      BY <1>5 DEF Transaction, Sram
    <3>3. SramAfter(h2) = [cell \in 0..(SramSize - 1) |-> h2.sram[cell]]
      BY <2>3, <3>1 DEF SramAfter
    <3> QED
      BY <3>2, <3>3
  <2>5. FlagsAfter(h2) = h2.flags
    BY <2>3 DEF FlagsAfter
  <2> QED
    BY <1>6, <1>8, <1>9, <2>1, <2>2, <2>4, <2>5 DEF DecodedBy
<1> QED
  BY <1>10, <1>11

LEMMA DataByteKeeps ==
    ASSUME NEW chip \in Chip, NEW h \in Transaction, DecodedBy(chip, h),
           NEW input \in ExiByte, NEW now \in ExiByte, ~(Len(h.sent) < CommandLength)
    PROVE  LET one == TransferByte(chip, input, now)
           IN  DecodedBy(one.chip, Longer(h, chip, input, one.output, now))
<1> DEFINE one == TransferByte(chip, input, now)
           h2 == Longer(h, chip, input, one.output, now)
           sent == h.sent
           command == chip.command
           data == Data(h.sent)
           size == Len(h.sent)
           n == Len(h.sent) - CommandLength
           offset == Offset(chip.command)
           target == Target(command)
           write == Writes(command)
<1>1. sent \in Seq(ExiByte) /\ h.given \in Seq(ExiByte) /\ size \in Nat /\ DOMAIN sent = 1..size
  BY DEF Transaction
<1>2. Whole(h) /\ n \in Nat /\ CommandLength \in 0..size /\ size = n + CommandLength
  BY <1>1, ChipNumbers DEF Whole
<1>3. /\ Len(command) = CommandLength /\ command = Command(sent) /\ command \in Seq(ExiByte)
      /\ chip.cursor = IF Counts(chip) THEN n ELSE 0
      /\ chip.sram = SramAfter(h) /\ chip.flags = FlagsAfter(h)
      /\ Len(h.given) = Len(h.sent)
      /\ \A i \in DOMAIN h.sent : h.given[i] = GivenFor(h, i)
  BY <1>2, ChipFields DEF DecodedBy, Command
<1>4. offset \in Nat
  BY <1>3, Offsets
<1>5. /\ one.chip \in Chip /\ one.output \in ExiByte
      /\ one.chip.command = command
      /\ one.chip.cursor = IF Counts(chip) THEN chip.cursor + 1 ELSE chip.cursor
      /\ one.chip.sram = IF write /\ target = "sram"
                         THEN [chip.sram EXCEPT ![Place(chip)] = input] ELSE chip.sram
      /\ one.chip.flags = IF write /\ target = "flags" THEN input ELSE chip.flags
      /\ write => one.output = 0
      /\ ~write => one.output =
            CASE target = "sram" -> chip.sram[Place(chip)]
              [] target = "flags" -> chip.flags
              [] target = "rom" -> RomByte((offset + chip.cursor) % RomSize)
              [] OTHER -> 0
  BY <1>3, DataByteFields
<1> HIDE DEF one
<1>6. /\ h2 \in Transaction
      /\ h2.sent = Append(sent, input) /\ h2.given = Append(h.given, one.output)
      /\ h2.sram = h.sram /\ h2.flags = h.flags
  <2>1. /\ h2 \in Transaction
        /\ h2.sent = Append(h.sent, input) /\ h2.given = Append(h.given, one.output)
        /\ h2.sram = IF Len(h.sent) + 1 = CommandLength
                     THEN [chip.sram EXCEPT ![0] = now] ELSE h.sram
        /\ h2.flags = IF Len(h.sent) + 1 = CommandLength THEN chip.flags ELSE h.flags
    <3>1. h2 = Longer(h, chip, input, one.output, now)
      OBVIOUS
    <3> HIDE DEF h2
    <3>2. IsLonger(h2, h, chip, input, one.output, now)
      BY <3>1, <1>5, LongerType
    <3> QED
      BY <3>2 DEF IsLonger
  <2>2. Len(h.sent) + 1 # CommandLength
    BY <1>1, <1>2, ChipNumbers
  <2> HIDE DEF h2
  <2> QED
    BY <2>1, <2>2
<1> SUFFICES DecodedBy(one.chip, h2)
  BY DEF one
<1> HIDE DEF h2
<1>7. /\ Command(h2.sent) = command
      /\ Data(h2.sent) = Append(data, input)
      /\ Len(h2.sent) = size + 1
      /\ data \in Seq(ExiByte) /\ Len(data) = n
  <2>1. /\ Len(h2.sent) = size + 1
        /\ SubSeq(h2.sent, 1, CommandLength) = SubSeq(sent, 1, CommandLength)
        /\ SubSeq(h2.sent, CommandLength + 1, size + 1)
             = Append(SubSeq(sent, CommandLength + 1, size), input)
    <3> DEFINE longer == Append(sent, input)
    <3>1. /\ Len(longer) = Len(sent) + 1
          /\ \A k \in 0..Len(sent) : SubSeq(longer, 1, k) = SubSeq(sent, 1, k)
          /\ \A k \in 0..Len(sent) :
               SubSeq(longer, k + 1, Len(sent) + 1) = Append(SubSeq(sent, k + 1, Len(sent)), input)
      <4>1. sent \in Seq(ExiByte)
        BY <1>1
      <4> HIDE DEF sent
      <4>2. /\ Len(longer) = Len(sent) + 1
            /\ \A k \in 0..Len(sent) : SubSeq(longer, 1, k) = SubSeq(sent, 1, k)
        BY <4>1, OneMore
      <4>3. \A k \in 0..Len(sent) :
               SubSeq(longer, k + 1, Len(sent) + 1) = Append(SubSeq(sent, k + 1, Len(sent)), input)
        BY <4>1, OneMore
      <4> QED
        BY <4>2, <4>3
    <3>2. h2.sent = longer /\ size = Len(sent)
      BY <1>6
    <3> HIDE DEF longer, sent, size
    <3> QED
      BY <1>2, <3>1, <3>2
  <2>2. data \in Seq(ExiByte) /\ Len(data) = n
    <3>1. data = SubSeq(sent, CommandLength + 1, size)
      BY DEF Data
    <3> HIDE DEF data, n, size
    <3>2. \A i \in CommandLength + 1..size : sent[i] \in ExiByte
      BY <1>1, <1>2 DEF size
    <3>3. /\ SubSeq(sent, CommandLength + 1, size) \in Seq(ExiByte)
          /\ Len(SubSeq(sent, CommandLength + 1, size)) =
               IF CommandLength + 1 <= size THEN size - (CommandLength + 1) + 1 ELSE 0
      BY <1>1, <1>2, <3>2, ChipNumbers, SubSeqProperties
    <3> QED
      BY <1>1, <1>2, <3>1, <3>3, ChipNumbers
  <2> QED
    BY <1>3, <2>1, <2>2 DEF Command, Data
<1>8. Whole(h2) /\ Len(h2.sent) - CommandLength = n + 1
  BY <1>1, <1>2, <1>7, ChipNumbers DEF Whole
<1>9. DOMAIN data = 1..n
  BY <1>7
<1> HIDE DEF sent, command, data, size, n, offset, target, write
<1>10. /\ SramAfter(h) = [cell \in 0..(SramSize - 1) |->
              IF write /\ target = "sram" /\ LastFor(data, offset, cell) # {}
              THEN data[CHOOSE i \in LastFor(data, offset, cell) : TRUE] ELSE h.sram[cell]]
       /\ SramAfter(h2) = [cell \in 0..(SramSize - 1) |->
              IF write /\ target = "sram" /\ LastFor(Append(data, input), offset, cell) # {}
              THEN Append(data, input)[CHOOSE i \in LastFor(Append(data, input), offset, cell) : TRUE]
              ELSE h.sram[cell]]
  <2>1. Command(h.sent) = command /\ offset = Offset(command) /\ Data(h.sent) = data
    BY <1>3 DEF sent, offset, data, command
  <2>2. Command(h2.sent) = command /\ Data(h2.sent) = Append(data, input) /\ h2.sram = h.sram
    BY <1>6, <1>7
  <2>3. SramAfter(h) = [cell \in 0..(SramSize - 1) |->
              IF write /\ target = "sram" /\ LastFor(data, offset, cell) # {}
              THEN data[CHOOSE i \in LastFor(data, offset, cell) : TRUE] ELSE h.sram[cell]]
    BY <2>1 DEF SramAfter, write, target
  <2>4. SramAfter(h2) = [cell \in 0..(SramSize - 1) |->
              IF write /\ target = "sram" /\ LastFor(Append(data, input), offset, cell) # {}
              THEN Append(data, input)[CHOOSE i \in LastFor(Append(data, input), offset, cell) : TRUE]
              ELSE h.sram[cell]]
    BY <2>1, <2>2 DEF SramAfter, write, target
  <2> QED
    BY <2>3, <2>4
<1>11. one.chip.sram = SramAfter(h2)
  <2>1. CASE write /\ target = "sram"
    <3> DEFINE place == (offset + n) % SramSize
               more == Append(data, input)
    <3>1. Place(chip) = place
      BY <1>3, <2>1 DEF Place, Counts, target, command, offset
    <3> HIDE DEF place
    <3>2. ASSUME NEW cell \in 0..(SramSize - 1)
          PROVE  SramAfter(h2)[cell] = IF cell = place THEN input ELSE SramAfter(h)[cell]
      <4>1. LastFor(more, offset, cell) = IF place = cell THEN {n + 1}
                                          ELSE LastFor(data, offset, cell)
        <5>1. LastFor(more, offset, cell) =
                 IF (offset + Len(data)) % SramSize = cell THEN {Len(data) + 1}
                 ELSE LastFor(data, offset, cell)
          <6>1. data \in Seq(ExiByte) /\ offset \in Nat
            BY <1>4, <1>7
          <6> QED
            BY <6>1, LastOfMore
        <5> HIDE DEF more
        <5> QED
          BY <1>7, <5>1 DEF place
      <4>2. more[n + 1] = input /\ \A i \in 1..n : more[i] = data[i]
        BY <1>7, OneMore
      <4> HIDE DEF more
      <4>3. SramAfter(h2)[cell] =
              IF LastFor(more, offset, cell) # {}
              THEN more[CHOOSE i \in LastFor(more, offset, cell) : TRUE] ELSE h.sram[cell]
        BY <1>10, <2>1 DEF more
      <4>4. SramAfter(h)[cell] =
              IF LastFor(data, offset, cell) # {}
              THEN data[CHOOSE i \in LastFor(data, offset, cell) : TRUE] ELSE h.sram[cell]
        BY <1>10, <2>1
      <4>5. CASE place = cell
        <5>1. (CHOOSE i \in {n + 1} : TRUE) = n + 1
          OBVIOUS
        <5> QED
          BY <4>1, <4>2, <4>3, <4>5, <5>1
      <4>6. CASE place # cell
        <5> DEFINE last == CHOOSE i \in LastFor(data, offset, cell) : TRUE
        <5>1. LastFor(more, offset, cell) = LastFor(data, offset, cell)
          BY <4>1, <4>6
        <5>2. CASE LastFor(data, offset, cell) = {}
          BY <4>3, <4>4, <4>6, <5>1, <5>2
        <5>3. CASE LastFor(data, offset, cell) # {}
          <6>1. last \in LastFor(data, offset, cell)
            BY <5>3
          <6>2. last \in 1..n
            BY <1>9, <6>1 DEF LastFor
          <6>3. SramAfter(h2)[cell] = more[last] /\ SramAfter(h)[cell] = data[last]
            BY <4>3, <4>4, <5>1, <5>3
          <6> QED
            BY <4>2, <4>6, <6>2, <6>3
        <5> QED
          BY <5>2, <5>3
      <4> QED
        BY <4>5, <4>6
    <3>3. one.chip.sram = [SramAfter(h) EXCEPT ![place] = input]
      BY <1>3, <1>5, <2>1, <3>1
    <3>4. /\ SramAfter(h) = [cell \in 0..(SramSize - 1) |-> SramAfter(h)[cell]]
          /\ SramAfter(h2) = [cell \in 0..(SramSize - 1) |-> SramAfter(h2)[cell]]
      BY <1>10
    <3> QED
      BY <3>2, <3>3, <3>4
  <2>2. CASE ~(write /\ target = "sram")
    BY <1>3, <1>5, <1>10, <2>2
  <2> QED
    BY <2>1, <2>2
<1>12. one.chip.flags = FlagsAfter(h2)
  <2>1. /\ FlagsAfter(h) = IF write /\ target = "flags" /\ data # <<>>
                           THEN data[Len(data)] ELSE h.flags
        /\ FlagsAfter(h2) = IF write /\ target = "flags" /\ Append(data, input) # <<>>
                            THEN Append(data, input)[Len(Append(data, input))] ELSE h.flags
    BY <1>3, <1>6, <1>7 DEF FlagsAfter, data, target, write, sent
  <2>2. Append(data, input) # <<>> /\ Append(data, input)[Len(Append(data, input))] = input
    BY <1>7, AppendProperties
  <2> QED
    BY <1>3, <1>5, <2>1, <2>2
<1>13. /\ Len(h2.given) = Len(h2.sent)
       /\ \A i \in DOMAIN h2.sent : h2.given[i] = GivenFor(h2, i)
  <2>1. \A i \in DOMAIN h.sent : h.given[i] = GivenFor(h2, i)
    <3>1. \A i : GivenFor(h2, i) = GivenFor(h, i)
      BY <1>3, <1>6, <1>7 DEF GivenFor, sent
    <3> QED
      BY <1>3, <3>1
  <2>2. one.output = GivenFor(h2, size + 1)
    <3>1. /\ ~(size + 1 <= CommandLength)
          /\ size + 1 - CommandLength - 1 = n
      BY <1>1, <1>2, ChipNumbers
    <3>2. GivenFor(h2, size + 1) =
            IF write THEN 0
            ELSE CASE target = "sram" -> h.sram[(offset + n) % SramSize]
                   [] target = "flags" -> h.flags
                   [] target = "rom" -> RomByte((offset + n) % RomSize)
                   [] OTHER -> 0
      <4> DEFINE last == size + 1
                 k == last - CommandLength - 1
      <4>1. Command(h2.sent) = command /\ offset = Offset(command)
            /\ h2.sram = h.sram /\ h2.flags = h.flags
        BY <1>6, <1>7 DEF offset, command
      <4>2. ~(last <= CommandLength) /\ k = n
        BY <1>1, <1>2, <3>1, ChipNumbers
      <4> HIDE DEF last
      <4>3. GivenFor(h2, last) =
              IF write THEN 0
              ELSE CASE target = "sram" -> h.sram[(offset + k) % SramSize]
                     [] target = "flags" -> h.flags
                     [] target = "rom" -> RomByte((offset + k) % RomSize)
                     [] OTHER -> 0
        BY <4>1, <4>2 DEF GivenFor, write, target
      <4> HIDE DEF k
      <4> QED
        BY <4>2, <4>3 DEF last
    <3>3. CASE write
      BY <1>5, <3>2, <3>3
    <3>4. CASE ~write /\ target = "sram"
      <4> DEFINE place == (offset + n) % SramSize
      <4>1. Place(chip) = place
        BY <1>3, <3>4 DEF Place, Counts, target, command, offset
      <4>2. place \in 0..(SramSize - 1)
        <5>1. offset + n \in Int
          BY <1>2, <1>4
        <5> QED
          BY <5>1, ChipNumbers, Division
      <4> HIDE DEF place
      <4>3. SramAfter(h)[place] = h.sram[place]
        BY <1>10, <3>4, <4>2
      <4> QED
        BY <1>3, <1>5, <3>2, <3>4, <4>1, <4>3 DEF place
    <3>5. CASE ~write /\ target = "flags"
      <4>1. FlagsAfter(h) = h.flags
        BY <1>3, <3>5 DEF FlagsAfter, write, sent
      <4> QED
        BY <1>3, <1>5, <3>2, <3>5, <4>1
    <3>6. CASE ~write /\ target = "rom"
      <4>1. chip.cursor = n
        BY <1>3, <3>6 DEF Counts, target, command
      <4> QED
        BY <1>5, <3>2, <3>6, <4>1
    <3>7. CASE ~write /\ target \notin {"sram", "flags", "rom"}
      BY <1>5, <3>2, <3>7
    <3> QED
      BY <3>3, <3>4, <3>5, <3>6, <3>7
  <2> QED
    BY <1>3, <1>5, <1>6, <2>1, <2>2, GivenMore DEF size, sent
<1>14. /\ Len(one.chip.command) = CommandLength
       /\ one.chip.command = SubSeq(h2.sent, 1, CommandLength)
       /\ Counts(one.chip) = Counts(chip)
  BY <1>3, <1>5, <1>7 DEF Command, Counts, command
<1>15. one.chip.cursor = IF Counts(chip) THEN n + 1 ELSE 0
  BY <1>3, <1>5
<1> QED
  BY <1>8, <1>11, <1>12, <1>13, <1>14, <1>15 DEF DecodedBy

\* A transfer, byte after byte.
Shifting == [chip : Chip, outputs : Seq(ExiByte)]

Shifted(done, input, now) ==
    LET one == TransferByte(done.chip, input, now)
    IN  [chip |-> one.chip, outputs |-> Append(done.outputs, one.output)]

LEMMA ByteType ==
    ASSUME NEW chip \in Chip, NEW input \in ExiByte, NEW now \in ExiByte
    PROVE  /\ TransferByte(chip, input, now).chip \in Chip
           /\ TransferByte(chip, input, now).output \in ExiByte
<1>1. Len(chip.command) < CommandLength \/ Len(chip.command) = CommandLength
  BY ChipFields, ChipNumbers
<1> QED
  BY <1>1, CommandByteFields, DataByteFields, ChipNumbers

LEMMA ShiftedType ==
    ASSUME NEW done \in Shifting, NEW input \in ExiByte, NEW now \in ExiByte
    PROVE  Shifted(done, input, now) \in Shifting
<1>1. done.chip \in Chip /\ done.outputs \in Seq(ExiByte)
  BY DEF Shifting
<1> DEFINE one == TransferByte(done.chip, input, now)
<1>2. one.chip \in Chip /\ one.output \in ExiByte
  BY <1>1, ByteType
<1> HIDE DEF one
<1>3. Append(done.outputs, one.output) \in Seq(ExiByte)
  BY <1>1, <1>2, AppendProperties
<1> QED
  BY <1>2, <1>3 DEF Shifted, Shifting, one

ShiftSteps(f, chip, inputs, now) ==
    /\ f \in [0..Len(inputs) -> Shifting]
    /\ f[0] = [chip |-> chip, outputs |-> <<>>]
    /\ \A k \in 0..Len(inputs) - 1 : f[k + 1] = Shifted(f[k], inputs[k + 1], now)
    /\ Shift(chip, inputs, now) = f[Len(inputs)]

LEMMA ShiftFold ==
    ASSUME NEW chip \in Chip, NEW inputs \in Seq(ExiByte), NEW now \in ExiByte
    PROVE  \E f : ShiftSteps(f, chip, inputs, now)
<1> DEFINE n == Len(inputs)
           base == [chip |-> chip, outputs |-> <<>>]
           Body(g, s) == IF s = {} THEN base
                         ELSE Shifted(g[s \ {Max(s)}], inputs[Max(s)], now)
           fold == CHOOSE g : g = [s \in SUBSET (1..n) |-> Body(g, s)]
           step == [p \in (1..n) \X Shifting |-> Shifted(p[2], inputs[p[1]], now)]
<1>1. n \in Nat /\ DOMAIN inputs = 1..n /\ \A i \in 1..n : inputs[i] \in ExiByte
  OBVIOUS
<1>2. Shift(chip, inputs, now) = fold[1..n]
  BY <1>1 DEF Shift, FoldLeft, MapThenFoldSet, Shifted
<1>3. step \in FoldStep(n, Shifting)
  BY <1>1, ShiftedType DEF FoldStep
<1>4. base \in Shifting
  <2>1. <<>> \in Seq(ExiByte)
    OBVIOUS
  <2> QED
    BY <2>1 DEF Shifting
<1>5. PICK h : FoldOf(h, n, Shifting, base, step)
  <2> HIDE DEF n, base, step
  <2> QED
    BY <1>1, <1>3, <1>4, FoldExists
<1> HIDE DEF base
<1>6. ASSUME NEW s \in SUBSET (1..n), s # {}
      PROVE  Max(s) \in 1..n
  BY <1>1, <1>6, Greatest
<1>7. h = [s \in SUBSET (1..n) |-> Body(h, s)]
  <2>1. h \in [SUBSET (1..n) -> Shifting]
    BY <1>5 DEF FoldOf
  <2>2. ASSUME NEW s \in SUBSET (1..n) PROVE h[s] = Body(h, s)
    <3>1. h[s] = IF s = {} THEN base ELSE step[<<Max(s), h[s \ {Max(s)}]>>]
      <4> HIDE DEF step
      <4> QED
        BY <1>5 DEF FoldOf
    <3>2. CASE s # {}
      <4>1. h[s \ {Max(s)}] \in Shifting
        BY <2>1
      <4>2. step[<<Max(s), h[s \ {Max(s)}]>>] = Shifted(h[s \ {Max(s)}], inputs[Max(s)], now)
        BY <1>6, <3>2, <4>1
      <4> QED
        BY <3>1, <3>2, <4>2
    <3> QED
      BY <3>1, <3>2
  <2> QED
    BY <2>1, <2>2
<1>8. fold = [s \in SUBSET (1..n) |-> Body(fold, s)]
  BY <1>7
<1> HIDE DEF fold
<1>9. FoldsBy(fold, n, Shifting, base, step)
  <2>1. fold[{}] = base
    BY <1>8
  <2>2. ASSUME NEW s \in SUBSET (1..n), s # {}, fold[s \ {Max(s)}] \in Shifting
        PROVE  fold[s] = step[<<Max(s), fold[s \ {Max(s)}]>>]
    <3>1. fold[s] = Shifted(fold[s \ {Max(s)}], inputs[Max(s)], now)
      BY <1>8, <2>2
    <3>2. step[<<Max(s), fold[s \ {Max(s)}]>>] = Shifted(fold[s \ {Max(s)}], inputs[Max(s)], now)
      BY <1>6, <2>2
    <3> QED
      BY <3>1, <3>2
  <2> QED
    BY <2>1, <2>2 DEF FoldsBy
<1>10. /\ \A k \in 0..n : fold[1..k] \in Shifting
       /\ fold[1..0] = base
       /\ \A k \in 0..n - 1 : fold[1..k + 1] = step[<<k + 1, fold[1..k]>>]
  <2>1. FoldChains(fold, n, Shifting, base, step)
    <3> HIDE DEF n, step
    <3> QED
      BY <1>1, <1>3, <1>4, <1>9, FoldChain
  <2> QED
    BY <2>1 DEF FoldChains
<1> DEFINE f == [k \in 0..n |-> fold[1..k]]
<1>11. f \in [0..n -> Shifting] /\ f[0] = base /\ Shift(chip, inputs, now) = f[n]
  BY <1>1, <1>2, <1>10
<1>12. ASSUME NEW k \in 0..n - 1 PROVE f[k + 1] = Shifted(f[k], inputs[k + 1], now)
  <2>1. k \in 0..n /\ k + 1 \in 1..n /\ k + 1 \in 0..n
    BY <1>1
  <2>2. step[<<k + 1, fold[1..k]>>] = Shifted(fold[1..k], inputs[k + 1], now)
    BY <1>10, <2>1
  <2> QED
    BY <1>10, <2>1, <2>2
<1>13. ShiftSteps(f, chip, inputs, now)
  <2> HIDE DEF f
  <2> QED
    BY <1>11, <1>12 DEF ShiftSteps, base
<1> QED
  BY <1>13

\* The history after a transfer.
After(h, chip, inputs, outputs, now) ==
    LET sent == h.sent \o inputs
        completes == Len(h.sent) < CommandLength /\ Len(sent) >= CommandLength
    IN  [sent |-> sent, given |-> h.given \o outputs,
         sram |-> IF completes THEN [chip.sram EXCEPT ![0] = now] ELSE h.sram,
         flags |-> IF completes THEN chip.flags ELSE h.flags]

LEMMA JoinOneMore ==
    ASSUME NEW S, NEW s \in Seq(S), NEW t \in Seq(S), NEW x \in S
    PROVE  s \o Append(t, x) = Append(s \o t, x)
<1>1. <<x>> \in Seq(S) /\ s \o t \in Seq(S)
  BY ConcatProperties
<1>2. Append(t, x) = t \o <<x>> /\ Append(s \o t, x) = (s \o t) \o <<x>>
  BY <1>1, AppendIsConcat
<1>3. (s \o t) \o <<x>> = s \o (t \o <<x>>)
  BY <1>1, ConcatAssociative
<1> QED
  BY <1>2, <1>3

LEMMA AfterNothing ==
    ASSUME NEW h \in Transaction, NEW chip \in Chip, NEW now
    PROVE  After(h, chip, <<>>, <<>>, now) = h
<1>1. h.sent \in Seq(ExiByte) /\ h.given \in Seq(ExiByte) /\ Len(h.sent) \in Nat
  BY DEF Transaction
<1>2. h.sent \o <<>> = h.sent /\ h.given \o <<>> = h.given
  BY <1>1, ConcatEmptySeq
<1>3. ~(Len(h.sent) < CommandLength /\ Len(h.sent) >= CommandLength)
  BY <1>1, ChipNumbers
<1>4. After(h, chip, <<>>, <<>>, now) =
        [sent |-> h.sent, given |-> h.given, sram |-> h.sram, flags |-> h.flags]
  BY <1>2, <1>3 DEF After
<1> QED
  BY <1>4 DEF Transaction

LEMMA AfterMore ==
    ASSUME NEW h \in Transaction, NEW chip \in Chip, DecodedBy(chip, h),
           NEW inputs \in Seq(ExiByte), NEW outputs \in Seq(ExiByte), NEW now \in ExiByte,
           NEW last \in Chip, DecodedBy(last, After(h, chip, inputs, outputs, now)),
           NEW input \in ExiByte, NEW output \in ExiByte
    PROVE  After(h, chip, Append(inputs, input), Append(outputs, output), now)
             = Longer(After(h, chip, inputs, outputs, now), last, input, output, now)
<1> DEFINE now1 == After(h, chip, inputs, outputs, now)
           size == Len(h.sent)
           k == Len(inputs)
<1>1. /\ h.sent \in Seq(ExiByte) /\ h.given \in Seq(ExiByte)
      /\ size \in Nat /\ k \in Nat
  BY DEF Transaction
<1>2. /\ Len(h.sent \o inputs) = size + k
      /\ Len(h.sent \o Append(inputs, input)) = size + k + 1
      /\ h.sent \o Append(inputs, input) = Append(h.sent \o inputs, input)
      /\ h.given \o Append(outputs, output) = Append(h.given \o outputs, output)
  <2>1. Append(inputs, input) \in Seq(ExiByte) /\ Len(Append(inputs, input)) = k + 1
    BY AppendProperties
  <2>2. /\ Len(h.sent \o inputs) = size + k
        /\ Len(h.sent \o Append(inputs, input)) = size + (k + 1)
    BY <1>1, <2>1, ConcatProperties
  <2> HIDE DEF size, k
  <2>3. size + (k + 1) = size + k + 1
    BY <1>1
  <2> DEFINE Joined(a, t, x) == a \o Append(t, x) = Append(a \o t, x)
  <2>4. \A a, t \in Seq(ExiByte) : \A x \in ExiByte : Joined(a, t, x)
    BY JoinOneMore
  <2> HIDE DEF Joined
  <2>5. Joined(h.sent, inputs, input) /\ Joined(h.given, outputs, output)
    BY <1>1, <2>4
  <2> QED
    BY <2>2, <2>3, <2>5 DEF Joined
<1> HIDE DEF size, k
<1> DEFINE before == size < CommandLength /\ size + k >= CommandLength
<1>3. now1 = [sent |-> h.sent \o inputs, given |-> h.given \o outputs,
              sram |-> IF before THEN [chip.sram EXCEPT ![0] = now] ELSE h.sram,
              flags |-> IF before THEN chip.flags ELSE h.flags]
  BY <1>2 DEF After, size
<1>4. After(h, chip, Append(inputs, input), Append(outputs, output), now) =
        [sent |-> Append(h.sent \o inputs, input), given |-> Append(h.given \o outputs, output),
         sram |-> IF size < CommandLength /\ size + k + 1 >= CommandLength
                  THEN [chip.sram EXCEPT ![0] = now] ELSE h.sram,
         flags |-> IF size < CommandLength /\ size + k + 1 >= CommandLength
                   THEN chip.flags ELSE h.flags]
  BY <1>2 DEF After, size
<1>5. Longer(now1, last, input, output, now) =
        [sent |-> Append(h.sent \o inputs, input), given |-> Append(h.given \o outputs, output),
         sram |-> IF size + k + 1 = CommandLength THEN [last.sram EXCEPT ![0] = now]
                  ELSE IF before THEN [chip.sram EXCEPT ![0] = now] ELSE h.sram,
         flags |-> IF size + k + 1 = CommandLength THEN last.flags
                   ELSE IF before THEN chip.flags ELSE h.flags]
  <2>1. /\ now1.sent = h.sent \o inputs /\ now1.given = h.given \o outputs
        /\ now1.sram = IF before THEN [chip.sram EXCEPT ![0] = now] ELSE h.sram
        /\ now1.flags = IF before THEN chip.flags ELSE h.flags
    BY <1>3
  <2> HIDE DEF now1, before
  <2>2. Len(now1.sent) = size + k
    BY <1>2, <2>1
  <2> QED
    BY <2>1, <2>2 DEF Longer
<1>6. CASE size + k + 1 = CommandLength
  <2>1. size < CommandLength /\ size + k + 1 >= CommandLength /\ ~before
        /\ ~(size + k >= CommandLength)
    BY <1>1, <1>6, ChipNumbers
  <2>2. last.sram = h.sram /\ last.flags = h.flags
    <3>1. ~Whole(now1)
      BY <1>2, <1>3, <2>1 DEF Whole
    <3>2. last.sram = now1.sram /\ last.flags = now1.flags
      BY <3>1 DEF DecodedBy
    <3> QED
      BY <1>3, <2>1, <3>2
  <2>3. chip.sram = h.sram /\ chip.flags = h.flags
    <3>1. ~Whole(h)
      BY <1>1, <2>1, ChipNumbers DEF Whole, size
    <3> QED
      BY <3>1 DEF DecodedBy
  <2> HIDE DEF now1, before
  <2> QED
    BY <1>4, <1>5, <1>6, <2>1, <2>2, <2>3 DEF now1
<1>7. CASE size + k + 1 # CommandLength
  <2>1. (size < CommandLength /\ size + k + 1 >= CommandLength) <=> before
    BY <1>1, <1>7, ChipNumbers
  <2>2. CASE before
    <3> HIDE DEF now1
    <3> QED
      BY <1>4, <1>5, <1>7, <2>1, <2>2 DEF now1
  <2>3. CASE ~before
    <3> HIDE DEF now1
    <3> QED
      BY <1>4, <1>5, <1>7, <2>1, <2>3 DEF now1
  <2> QED
    BY <2>2, <2>3
<1> QED
  BY <1>6, <1>7

LEMMA ShiftKeeps ==
    ASSUME NEW chip \in Chip, NEW h \in Transaction, DecodedBy(chip, h),
           NEW inputs \in Seq(ExiByte), NEW now \in ExiByte
    PROVE  LET done == Shift(chip, inputs, now)
               h2 == After(h, chip, inputs, done.outputs, now)
           IN  /\ done \in Shifting /\ Len(done.outputs) = Len(inputs)
               /\ h2 \in Transaction /\ DecodedBy(done.chip, h2)
<1> DEFINE n == Len(inputs)
           First(k) == SubSeq(inputs, 1, k)
<1>1. PICK f : ShiftSteps(f, chip, inputs, now)
  BY ShiftFold
<1>2. /\ f \in [0..n -> Shifting]
      /\ f[0] = [chip |-> chip, outputs |-> <<>>]
      /\ \A k \in 0..n - 1 : f[k + 1] = Shifted(f[k], inputs[k + 1], now)
      /\ Shift(chip, inputs, now) = f[n]
  BY <1>1 DEF ShiftSteps
<1>3. n \in Nat /\ \A i \in 1..n : inputs[i] \in ExiByte
  OBVIOUS
<1> DEFINE Hist(k) == After(h, chip, First(k), f[k].outputs, now)
           Good(k) == /\ Len(f[k].outputs) = k
                      /\ Hist(k) \in Transaction /\ DecodedBy(f[k].chip, Hist(k))
           T == {k \in Nat : k <= n => Good(k)}
<1>4. 0 \in T
  <2>1. First(0) = <<>>
    BY SubSeqEmpty
  <2>2. f[0].outputs = <<>> /\ f[0].chip = chip
    BY <1>2
  <2>3. Hist(0) = h
    BY <2>1, <2>2, AfterNothing
  <2>4. Len(<<>>) = 0
    OBVIOUS
  <2>5. Good(0)
    <3> HIDE DEF Hist
    <3> QED
      BY <2>2, <2>3, <2>4
  <2> QED
    BY <2>5
<1>5. ASSUME NEW k \in T PROVE k + 1 \in T
  <2> SUFFICES ASSUME k + 1 <= n PROVE Good(k + 1)
    OBVIOUS
  <2>1. k \in 0..n - 1 /\ k \in 0..n /\ k + 1 \in 1..n /\ Good(k)
    BY <1>3
  <2> DEFINE input == inputs[k + 1]
             one == TransferByte(f[k].chip, input, now)
             outputs == f[k].outputs
             firsts == First(k)
  <2>2. /\ input \in ExiByte /\ f[k] \in Shifting
        /\ f[k].chip \in Chip /\ outputs \in Seq(ExiByte)
    BY <1>2, <1>3, <2>1 DEF Shifting
  <2>3. f[k + 1].chip = one.chip /\ f[k + 1].outputs = Append(outputs, one.output)
    <3>1. f[k + 1] = Shifted(f[k], input, now)
      BY <1>2, <2>1
    <3> QED
      BY <3>1 DEF Shifted
  <2>4. one.chip \in Chip /\ one.output \in ExiByte
    <3> HIDE DEF input
    <3> QED
      BY <2>2, ByteType
  <2>5. firsts \in Seq(ExiByte) /\ First(k + 1) = Append(firsts, input)
    <3>1. /\ firsts \in Seq(ExiByte) /\ Append(firsts, input) = SubSeq(inputs, 1, k + 1)
      BY <1>3, <2>1
    <3> QED
      BY <3>1
  <2> HIDE DEF First, firsts, input, one, outputs
  <2>6. Hist(k + 1) = Longer(Hist(k), f[k].chip, input, one.output, now)
    <3>1. Hist(k) = After(h, chip, firsts, outputs, now)
      BY DEF firsts, outputs
    <3>2. Hist(k + 1) = After(h, chip, Append(firsts, input), Append(outputs, one.output), now)
      BY <2>3, <2>5
    <3>3. DecodedBy(f[k].chip, After(h, chip, firsts, outputs, now))
      BY <2>1, <3>1
    <3>4. After(h, chip, Append(firsts, input), Append(outputs, one.output), now)
            = Longer(After(h, chip, firsts, outputs, now), f[k].chip, input, one.output, now)
      BY <2>2, <2>4, <2>5, <3>3, AfterMore
    <3> QED
      BY <3>1, <3>2, <3>4
  <2> DEFINE old == Hist(k)
             new == Hist(k + 1)
  <2>7. old \in Transaction /\ DecodedBy(f[k].chip, old) /\ Len(outputs) = k
    BY <2>1 DEF outputs
  <2> HIDE DEF old, new, Hist
  <2>8. new = Longer(old, f[k].chip, input, one.output, now)
    BY <2>6 DEF old, new
  <2>9. new \in Transaction
    <3>1. IsLonger(new, old, f[k].chip, input, one.output, now)
      BY <2>2, <2>4, <2>7, <2>8, LongerType
    <3> QED
      BY <3>1 DEF IsLonger
  <2>10. DecodedBy(one.chip, new)
    <3>1. DecodedBy(TransferByte(f[k].chip, input, now).chip,
                    Longer(old, f[k].chip, input,
                           TransferByte(f[k].chip, input, now).output, now))
      BY <2>2, <2>7, CommandByteKeeps, DataByteKeeps
    <3> QED
      BY <2>8, <3>1 DEF one
  <2>11. Len(f[k + 1].outputs) = k + 1
    BY <2>2, <2>3, <2>4, <2>7, AppendProperties
  <2> QED
    BY <2>3, <2>9, <2>10, <2>11 DEF new
<1>6. n \in T
  <2>1. T \in SUBSET Nat
    OBVIOUS
  <2> HIDE DEF T
  <2> QED
    BY <1>3, <1>4, <1>5, <2>1, SetInduction
<1>7. Good(n)
  BY <1>3, <1>6
<1>8. First(n) = inputs
  BY SubSeqFull
<1>9. f[n] \in Shifting
  BY <1>2, <1>3
<1> HIDE DEF First
<1> QED
  BY <1>2, <1>7, <1>8, <1>9

\* The registers of the channels.
ExiRegisters ==
    /\ select \in [Channel -> SUBSET {1, 2, 4}]
    /\ tcInt \in [Channel -> BOOLEAN] /\ tcMask \in [Channel -> BOOLEAN]
    /\ extInt \in [Channel -> BOOLEAN] /\ extMask \in [Channel -> BOOLEAN]
    /\ start \in [Channel -> BOOLEAN]
    /\ dmaAddress \in [Channel -> Nat] /\ dmaLength \in [Channel -> Nat]
    /\ immediate \in [Channel -> [1..ImmediateSize -> ExiByte]]
    /\ ram \in [0..(RamSize - 1) -> ExiByte]

ChipDecoded == ipl \in Chip /\ iplHistory \in Transaction /\ DecodedBy(ipl, iplHistory)

ExiIInv == ExiRegisters /\ ChipDecoded

LEMMA ExiSafe == ExiIInv => ExiTypeOK /\ TransactionDecoded
<1> SUFFICES ASSUME ExiIInv PROVE ExiTypeOK /\ TransactionDecoded
  OBVIOUS
<1>1. ExiTypeOK
  BY ChipFields DEF ExiIInv, ExiRegisters, ChipDecoded, ExiTypeOK, Sram
<1>2. TransactionDecoded
  BY DEF ExiIInv, ChipDecoded, DecodedBy, Whole, TransactionDecoded
<1> QED
  BY <1>1, <1>2

\* A chip that begins a transaction, whatever its memories hold.
LEMMA BeginsDecoded ==
    ASSUME NEW chip \in Chip, chip.command = <<>>, chip.cursor = 0
    PROVE  /\ NewTransaction(chip) \in Transaction
           /\ DecodedBy(chip, NewTransaction(chip))
<1> DEFINE h == NewTransaction(chip)
<1>1. /\ h.sent = <<>> /\ h.given = <<>> /\ h.sram = chip.sram /\ h.flags = chip.flags
      /\ h = [sent |-> <<>>, given |-> <<>>, sram |-> chip.sram, flags |-> chip.flags]
  BY DEF NewTransaction
<1>2. <<>> \in Seq(ExiByte) /\ Len(<<>>) = 0 /\ DOMAIN <<>> = {}
  OBVIOUS
<1>3. h \in Transaction
  BY <1>1, <1>2, ChipFields DEF Transaction
<1>4. ~Whole(h)
  BY <1>1, <1>2, ChipNumbers DEF Whole
<1>5. SubSeq(h.sent, 1, Len(chip.command)) = <<>>
  BY <1>1, <1>2, SubSeqEmpty
<1> HIDE DEF h
<1>6. DecodedBy(chip, h)
  <2>1. Len(h.sent) = 0 /\ Len(h.given) = 0 /\ Len(chip.command) = 0 /\ DOMAIN h.sent = {}
    BY <1>1, <1>2
  <2> QED
    BY <1>1, <1>4, <1>5, <2>1 DEF DecodedBy
<1> QED
  BY <1>3, <1>6 DEF h

LEMMA ExiInitial == ExiInit => ExiIInv
<1> SUFFICES ASSUME ExiInit PROVE ExiIInv
  OBVIOUS
<1>1. ExiRegisters
  BY ExiAssumption DEF ExiInit, ExiRegisters
<1>2. /\ ipl = [command |-> <<>>, cursor |-> 0,
                sram |-> [i \in 0..(SramSize - 1) |-> 0], flags |-> 0]
      /\ iplHistory = NewTransaction(ipl)
  BY DEF ExiInit
<1>3. ipl \in Chip /\ ipl.command = <<>> /\ ipl.cursor = 0
  <2>1. <<>> \in Seq(ExiByte) /\ Len(<<>>) = 0
    OBVIOUS
  <2>2. [i \in 0..(SramSize - 1) |-> 0] \in Sram
    BY ChipNumbers DEF Sram
  <2>3. 0 \in Nat /\ 0 <= CommandLength
    BY ChipNumbers
  <2> DEFINE empty == <<>>
             blank == [i \in 0..(SramSize - 1) |-> 0]
  <2> HIDE DEF empty, blank
  <2>4. ipl.command = empty /\ ipl.cursor = 0
        /\ ipl \in [command : Seq(ExiByte), cursor : Nat, sram : Sram, flags : ExiByte]
    BY <1>2, <2>1, <2>2, ChipNumbers DEF empty, blank
  <2> QED
    BY <2>1, <2>3, <2>4 DEF Chip, empty
<1> QED
  BY <1>1, <1>2, <1>3, BeginsDecoded DEF ExiIInv, ChipDecoded
-----------------------------------------------------------------------------
\* Bytes exchanged with whatever device is selected.
LEMMA ExchangeKeeps ==
    ASSUME ChipDecoded, NEW c, NEW inputs \in Seq(ExiByte), NEW now \in ExiByte,
           NEW done, done = Exchange(c, inputs, now),
           NEW given, given = done.outputs
    PROVE  /\ done.chip \in Chip
           /\ given \in Seq(ExiByte) /\ Len(given) = Len(inputs)
           /\ Recorded(c, inputs, given, now) \in Transaction
           /\ DecodedBy(done.chip, Recorded(c, inputs, given, now))
<1>1. CASE SelectedIpl(c, select[c])
  <2>1. done = Shift(ipl, inputs, now)
    BY <1>1 DEF Exchange
  <2>2. Recorded(c, inputs, given, now) = After(iplHistory, ipl, inputs, given, now)
    BY <1>1 DEF Recorded, After
  <2>3. /\ done \in Shifting /\ Len(done.outputs) = Len(inputs)
        /\ After(iplHistory, ipl, inputs, done.outputs, now) \in Transaction
        /\ DecodedBy(done.chip, After(iplHistory, ipl, inputs, done.outputs, now))
    BY <2>1, ShiftKeeps DEF ChipDecoded
  <2> QED
    BY <2>2, <2>3 DEF Shifting
<1>2. CASE ~SelectedIpl(c, select[c])
  <2> DEFINE zeros == [i \in DOMAIN inputs |-> 0]
  <2>1. done.chip = ipl /\ done.outputs = zeros
    BY <1>2 DEF Exchange
  <2>2. Recorded(c, inputs, given, now) = iplHistory
    BY <1>2 DEF Recorded
  <2>3. zeros \in Seq(ExiByte) /\ Len(zeros) = Len(inputs)
    <3>1. DOMAIN inputs = 1..Len(inputs) /\ Len(inputs) \in Nat
      OBVIOUS
    <3> QED
      BY <3>1, ChipNumbers
  <2> HIDE DEF zeros
  <2> QED
    BY <2>1, <2>2, <2>3 DEF ChipDecoded
<1> QED
  BY <1>1, <1>2

LEMMA CompleteKeeps ==
    ASSUME ExiRegisters, NEW c \in Channel, Complete(c) \/ Stall(c),
           UNCHANGED <<dmaAddress, dmaLength>>,
           immediate' \in [Channel -> [1..ImmediateSize -> ExiByte]],
           ram' \in [0..(RamSize - 1) -> ExiByte]
    PROVE  ExiRegisters'
  BY DEF ExiRegisters, Complete, Stall, exiStatus

LEMMA ImmediateKeeps ==
    ASSUME ExiIInv, NEW c \in Channel, NEW rw \in {"read", "write", "readwrite"},
           NEW length \in 1..ImmediateSize, NEW now \in ExiByte,
           Immediate(c, rw, length, now), UNCHANGED <<dmaAddress, dmaLength>>
    PROVE  ExiIInv'
<1> DEFINE inputs == [i \in 1..length |-> IF rw = "read" THEN 0 ELSE immediate[c][i]]
           done == Exchange(c, inputs, now)
           given == IF rw = "write" THEN done.outputs
                    ELSE [i \in 1..length |-> immediate'[c][i]]
           register == [i \in 1..ImmediateSize |->
                           IF i <= length THEN done.outputs[i] ELSE 0]
<1>1. /\ immediate' = [immediate EXCEPT ![c] = IF rw = "write" THEN @ ELSE register]
      /\ ipl' = done.chip /\ iplHistory' = Recorded(c, inputs, given, now)
      /\ Complete(c) /\ UNCHANGED ram
  BY DEF Immediate
<1>2. /\ length \in Nat /\ 1..length \subseteq 1..ImmediateSize
      /\ immediate \in [Channel -> [1..ImmediateSize -> ExiByte]]
  BY ExiAssumption DEF ExiIInv, ExiRegisters
<1>3. inputs \in [1..length -> ExiByte]
  BY <1>2, ChipNumbers
<1> HIDE DEF inputs, done
<1>11. inputs \in Seq(ExiByte) /\ Len(inputs) = length
  BY <1>2, <1>3
<1> DEFINE outputs == done.outputs
<1>4. outputs \in Seq(ExiByte) /\ Len(outputs) = length
  BY <1>11, ExchangeKeeps DEF ExiIInv, done
<1>5. DOMAIN outputs = 1..length /\ \A i \in 1..length : outputs[i] \in ExiByte
  BY <1>4
<1>6. register \in [1..ImmediateSize -> ExiByte]
  BY <1>2, <1>5, ChipNumbers
<1> HIDE DEF register
<1>7. immediate' \in [Channel -> [1..ImmediateSize -> ExiByte]]
      /\ (rw # "write" => immediate'[c] = register)
  BY <1>1, <1>2, <1>6
<1>8. given = outputs
  <2>1. CASE rw # "write"
    <3>1. \A i \in 1..length : immediate'[c][i] = outputs[i]
      BY <1>2, <1>7, <2>1 DEF register
    <3>2. outputs = [i \in 1..length |-> outputs[i]]
      BY <1>4, <1>5
    <3> QED
      BY <2>1, <3>1, <3>2
  <2> QED
    BY <2>1
<1> HIDE DEF given
<1>9. ChipDecoded'
  BY <1>1, <1>11, <1>8, ExchangeKeeps DEF ExiIInv, ChipDecoded, done
<1> QED
  BY <1>1, <1>7, <1>9, CompleteKeeps DEF ExiIInv, ExiRegisters

LEMMA DmaKeeps ==
    ASSUME ExiIInv, NEW c \in Channel, NEW rw \in {"read", "write"}, NEW now \in ExiByte,
           Dma(c, rw, now), UNCHANGED <<dmaAddress, dmaLength>>
    PROVE  ExiIInv'
<1> DEFINE from == dmaAddress[c]
           length == dmaLength[c]
           inputs == IF rw = "read" THEN [i \in 1..length |-> 0] ELSE DmaBytes(c)
           done == Exchange(c, inputs, now)
           given == IF rw = "write" THEN done.outputs
                    ELSE [i \in DOMAIN inputs |-> ram'[from + i - 1]]
           memory == [a \in DOMAIN ram |->
                         IF a - from + 1 \in DOMAIN inputs THEN done.outputs[a - from + 1]
                         ELSE ram[a]]
<1>1. /\ ram' = IF rw = "write" THEN ram ELSE memory
      /\ ipl' = done.chip /\ iplHistory' = Recorded(c, inputs, given, now)
      /\ Complete(c) /\ UNCHANGED immediate
      /\ from < RamSize /\ from + length <= RamSize
  BY DEF Dma, DmaRange
<1>2. /\ from \in Nat /\ length \in Nat /\ RamSize \in Nat
      /\ ram \in [0..(RamSize - 1) -> ExiByte]
  BY ExiAssumption DEF ExiIInv, ExiRegisters
<1>3. DmaBytes(c) = [i \in 1..length |-> ram[from + i - 1]]
  BY DEF DmaBytes
<1> HIDE DEF from, length
<1>4. \A i \in 1..length : from + i - 1 \in 0..(RamSize - 1)
  BY <1>1, <1>2
<1>5. inputs \in [1..length -> ExiByte]
  BY <1>2, <1>3, <1>4, ChipNumbers
<1>6. inputs \in Seq(ExiByte) /\ Len(inputs) = length /\ DOMAIN inputs = 1..length
  <2> HIDE DEF inputs
  <2> QED
    BY <1>2, <1>5
<1> HIDE DEF inputs, done
<1> DEFINE outputs == done.outputs
<1>7. outputs \in Seq(ExiByte) /\ Len(outputs) = length
  BY <1>6, ExchangeKeeps DEF ExiIInv, done
<1>8. DOMAIN outputs = 1..length /\ \A i \in 1..length : outputs[i] \in ExiByte
  BY <1>7
<1>9. memory \in [0..(RamSize - 1) -> ExiByte]
  BY <1>2, <1>6, <1>8
<1>10. given = outputs
  <2>1. CASE rw # "write"
    <3>1. ASSUME NEW i \in 1..length PROVE ram'[from + i - 1] = outputs[i]
      <4>1. from + i - 1 \in 0..(RamSize - 1) /\ (from + i - 1) - from + 1 = i
        BY <1>2, <1>4
      <4>2. ram'[from + i - 1] = outputs[(from + i - 1) - from + 1]
        BY <1>1, <1>2, <1>6, <2>1, <4>1
      <4> QED
        BY <4>1, <4>2
    <3>2. outputs = [i \in 1..length |-> outputs[i]]
      BY <1>7, <1>8
    <3> QED
      BY <1>6, <2>1, <3>1, <3>2
  <2> QED
    BY <2>1
<1> HIDE DEF given, memory
<1>11. ChipDecoded'
  BY <1>1, <1>6, <1>10, ExchangeKeeps DEF ExiIInv, ChipDecoded, done
<1>12. ram' \in [0..(RamSize - 1) -> ExiByte]
  BY <1>1, <1>2, <1>9
<1> QED
  BY <1>1, <1>11, <1>12, CompleteKeeps DEF ExiIInv, ExiRegisters

LEMMA TransferKeeps ==
    ASSUME ExiIInv, NEW c \in Channel, StartTransfer(c)
    PROVE  ExiIInv'
<1>1. UNCHANGED <<dmaAddress, dmaLength>>
  BY DEF StartTransfer
<1>2. CASE Stall(c) \/ ImmediateInvalid(c) \/ DmaRefused(c)
  <2>1. Stall(c) \/ Complete(c)
    BY <1>2 DEF ImmediateInvalid, DmaRefused
  <2>2. UNCHANGED <<immediate, ipl, ram, iplHistory>>
    BY <1>2 DEF Stall, ImmediateInvalid, DmaRefused
  <2>3. ExiRegisters'
    BY <1>1, <2>1, <2>2, CompleteKeeps DEF ExiIInv, ExiRegisters
  <2>4. ChipDecoded'
    BY <2>2 DEF ExiIInv, ChipDecoded
  <2> QED
    BY <2>3, <2>4 DEF ExiIInv
<1>3. CASE \E rw \in {"read", "write", "readwrite"}, length \in 1..ImmediateSize,
              now \in ExiByte : Immediate(c, rw, length, now)
  BY <1>1, <1>3, ImmediateKeeps
<1>4. CASE \E rw \in {"read", "write"}, now \in ExiByte : Dma(c, rw, now)
  BY <1>1, <1>4, DmaKeeps
<1> QED
  BY <1>2, <1>3, <1>4 DEF StartTransfer

LEMMA StatusKeeps ==
    ASSUME ExiIInv, NEW c \in Channel, NEW lanes, NEW bits, NEW tcm \in BOOLEAN,
           NEW tcAck \in BOOLEAN, NEW extm \in BOOLEAN, NEW extAck \in BOOLEAN,
           WriteStatus(c, lanes, bits, tcm, tcAck, extm, extAck)
    PROVE  ExiIInv'
<1> DEFINE low == IF "low" \in lanes THEN bits \cap LowBits ELSE select[c] \cap LowBits
           high == IF "high" \in lanes THEN bits \cap HighBits ELSE select[c] \cap HighBits
<1>1. low \cup high \in SUBSET {1, 2, 4}
  BY DEF LowBits, HighBits
<1>2. /\ select' = [select EXCEPT ![c] = low \cup high]
      /\ Reselect(c, low \cup high)
      /\ tcMask' = [tcMask EXCEPT ![c] = IF "low" \in lanes THEN tcm ELSE @]
      /\ tcInt' = [tcInt EXCEPT ![c] = @ /\ ~("low" \in lanes /\ tcAck)]
      /\ extMask' = [extMask EXCEPT ![c] =
             IF "high" \in lanes /\ c < 2 THEN extm ELSE @]
      /\ extInt' = [extInt EXCEPT ![c] =
             @ /\ ~("high" \in lanes /\ c < 2 /\ extAck)]
      /\ UNCHANGED <<start, dmaAddress, dmaLength, immediate, ram>>
  BY DEF WriteStatus
<1> HIDE DEF low, high
<1>3. ExiRegisters'
  <2>1. select' \in [Channel -> SUBSET {1, 2, 4}]
    BY <1>1, <1>2 DEF ExiIInv, ExiRegisters
  <2>2. tcMask' \in [Channel -> BOOLEAN] /\ extMask' \in [Channel -> BOOLEAN]
    BY <1>2 DEF ExiIInv, ExiRegisters
  <2>3. tcInt' \in [Channel -> BOOLEAN] /\ extInt' \in [Channel -> BOOLEAN]
    BY <1>2 DEF ExiIInv, ExiRegisters
  <2> QED
    BY <1>2, <2>1, <2>2, <2>3 DEF ExiIInv, ExiRegisters
<1>4. ChipDecoded'
  <2>1. CASE UNCHANGED <<ipl, iplHistory>>
    BY <2>1 DEF ExiIInv, ChipDecoded
  <2>2. CASE ipl' = Reselected(ipl) /\ iplHistory' = NewTransaction(ipl)
    <3>1. /\ ipl' \in Chip /\ ipl'.command = <<>> /\ ipl'.cursor = 0
          /\ ipl'.sram = ipl.sram /\ ipl'.flags = ipl.flags
      <4>1. <<>> \in Seq(ExiByte) /\ Len(<<>>) = 0 /\ 0 <= CommandLength
        BY ChipNumbers
      <4>2. ipl' = [ipl EXCEPT !.command = <<>>, !.cursor = 0]
        BY <2>2 DEF Reselected
      <4> DEFINE empty == <<>>
      <4> HIDE DEF empty
      <4>3. /\ ipl' \in [command : Seq(ExiByte), cursor : Nat, sram : Sram, flags : ExiByte]
            /\ ipl'.command = empty /\ ipl'.cursor = 0
            /\ ipl'.sram = ipl.sram /\ ipl'.flags = ipl.flags
        BY <4>1, <4>2 DEF ExiIInv, ChipDecoded, Chip, empty
      <4> QED
        BY <4>1, <4>3 DEF Chip, empty
    <3>2. NewTransaction(ipl') = NewTransaction(ipl)
      BY <3>1 DEF NewTransaction
    <3> QED
      BY <2>2, <3>1, <3>2, BeginsDecoded DEF ChipDecoded
  <2> QED
    BY <1>2, <2>1, <2>2 DEF Reselect
<1> QED
  BY <1>3, <1>4 DEF ExiIInv

LEMMA AcknowledgeExiKeeps ==
    ASSUME ExiIInv, NEW c \in Channel, AcknowledgeExi(c)
    PROVE  ExiIInv'
<1>1. tcMask[c] \in BOOLEAN /\ extMask[c] \in BOOLEAN
  BY DEF ExiIInv, ExiRegisters
<1> QED
  BY <1>1, StatusKeeps DEF AcknowledgeExi

LEMMA ExiStep == ExiIInv /\ [ExiNext]_exiVars => ExiIInv'
<1> SUFFICES ASSUME ExiIInv, [ExiNext]_exiVars PROVE ExiIInv'
  OBVIOUS
<1>1. ASSUME NEW c \in Channel, StartTransfer(c) PROVE ExiIInv'
  BY <1>1, TransferKeeps
<1>2. ASSUME NEW c \in Channel, NEW lanes, NEW bits, NEW mask \in GuestMask[c],
             NEW ack \in GuestMask[c], WriteStatus(c, lanes, bits, mask, ack, mask, ack)
      PROVE  ExiIInv'
  <2>1. mask \in BOOLEAN /\ ack \in BOOLEAN
    BY ExiAssumption
  <2> QED
    BY <1>2, <2>1, StatusKeeps
<1>3. ASSUME NEW c \in Channel, NEW address \in 0..(RamSize - 1), WriteDmaAddress(c, address)
      PROVE  ExiIInv'
  <2>1. address \in Nat
    BY ExiAssumption
  <2> QED
    BY <1>3, <2>1 DEF WriteDmaAddress, ExiIInv, ExiRegisters, ChipDecoded, exiStatus
<1>4. ASSUME NEW c \in Channel, NEW length \in {0, RamSize}, WriteDmaLength(c, length)
      PROVE  ExiIInv'
  <2>1. length \in Nat
    BY ExiAssumption
  <2> QED
    BY <1>4, <2>1 DEF WriteDmaLength, ExiIInv, ExiRegisters, ChipDecoded, exiStatus
<1>5. ASSUME NEW c \in Channel, NEW bytes \in [1..ImmediateSize -> ExiByte],
             WriteImmediate(c, bytes)
      PROVE  ExiIInv'
  BY <1>5 DEF WriteImmediate, ExiIInv, ExiRegisters, ChipDecoded, exiStatus
<1>6. ASSUME NEW c \in Channel, AcknowledgeExi(c) PROVE ExiIInv'
  BY <1>6, AcknowledgeExiKeeps
<1>7. CASE UNCHANGED exiVars
  BY <1>7 DEF exiVars, exiStatus, ExiIInv, ExiRegisters, ChipDecoded
<1> QED
  BY <1>1, <1>2, <1>3, <1>4, <1>5, <1>6, <1>7 DEF ExiNext, ExiWrites

(* The registers, and what the chip has decoded, hold in every state. *)
THEOREM ExiInvariance == ExiSpec => []ExiIInv
  BY ExiInitial, ExiStep, PTL DEF ExiSpec

(* The registers of the channels and of the IPL chip keep their ranges:    *)
(* a command has at most its four bytes.                                   *)
THEOREM ExiTypeCorrect == ExiSpec => []ExiTypeOK
  BY ExiSafe, ExiInvariance, PTL

(* Into however many immediate and DMA transfers a guest cuts the bytes of *)
(* a transaction, whichever other channels and devices it uses between     *)
(* them, exi_hle.c's chip decodes the command from the first bytes since   *)
(* it was selected, writes and reads consecutive cells from the address on *)
(* and gives the guest the bytes that belong there, for a chip of any      *)
(* size and any decoding of its commands.                                  *)
THEOREM TransactionsAreDecoded == ExiSpec => []TransactionDecoded
  BY ExiSafe, ExiInvariance, PTL
-----------------------------------------------------------------------------
(* The interrupt latch.  LatchFollowsLines is not inductive alone: it says *)
(* nothing of the guest's handler, from which the guest comes back to      *)
(* where it does.  The invariant adds that the latch is right again before *)
(* the handler returns, and that a delivered interrupt has a line to serve.*)

Unserved == Asserted \cap piMask # {}

\* The latch is right wherever the guest may be next but in its handler.
LatchRight == cpu \in {"run", "critical", "return"} => piLatch = Unserved

\* service_external_interrupt never enters the guest's handler for nothing.
DispatchFindsLine == cpu = "dispatch" => Unserved

PiIInv == cpu \in Cpu /\ LatchRight /\ DispatchFindsLine

\* An access after which the latch is updated, that does not leave the guest
\* about to dispatch, leaves the latch right.
LEMMA UpdateKeeps ==
    ASSUME UpdateLatch, cpu' \in Cpu \ {"dispatch"}
    PROVE  PiIInv'
  BY DEF UpdateLatch, PiIInv, LatchRight, DispatchFindsLine, Unserved, Cpu

\* No device changes: neither do the lines.
LEMMA QuietLines ==
    ASSUME UNCHANGED <<exiVars, finishEnable, finishPending, dspMask, dspInterrupt>>
    PROVE  Asserted' = Asserted
  BY DEF exiVars, exiStatus, Asserted, ExiPending

LEMMA PiInitial == InterfaceInit => PiIInv
  BY DEF InterfaceInit, DspPowerOn, ExiInit, PiIInv, LatchRight, DispatchFindsLine, Unserved, Cpu

\* The guest's accesses: each updates the latch or changes no line.
LEMMA DriveKeeps == PiIInv /\ Drive => PiIInv'
<1> SUFFICES ASSUME PiIInv, Drive PROVE PiIInv'
  OBVIOUS
<1>1. cpu \in Cpu \ {"dispatch"}
  BY DEF Drive, Running, Cpu
<1>2. CASE DrawDone
  <2>1. UpdateLatch /\ cpu' = cpu
    BY <1>2 DEF DrawDone
  <2> QED
    BY <1>1, <2>1, UpdateKeeps
<1>3. ASSUME NEW enable \in BOOLEAN, Stay, WritePe(enable, FALSE)
      PROVE  PiIInv'
  <2>1. UpdateLatch /\ cpu' = cpu
    BY <1>3 DEF Stay, WritePe
  <2> QED
    BY <1>1, <2>1, UpdateKeeps
<1>4. ASSUME NEW mask, WritePiMask(mask)
      PROVE  PiIInv'
  <2>1. UpdateLatch /\ cpu' = cpu
    BY <1>4 DEF WritePiMask
  <2> QED
    BY <1>1, <2>1, UpdateKeeps
<1>5. CASE DspQuietAccess
  <2>1. UNCHANGED <<dspMask, dspInterrupt>>
    BY <1>5 DEF DspQuietAccess, WriteMailHigh, TakeMail
  <2>2. UNCHANGED <<exiVars, finishEnable, finishPending, piMask, piLatch, cpu>>
    BY <1>5 DEF DspQuietAccess, piVars
  <2>3. Asserted' = Asserted
    BY <2>1, <2>2, QuietLines
  <2> QED
    BY <2>2, <2>3 DEF PiIInv, LatchRight, DispatchFindsLine, Unserved
<1>6. CASE Stay /\ \E low \in GuestLow : DspAccess(WriteMailLow(low))
  <2>1. UpdateLatch /\ cpu' = cpu
    BY <1>6 DEF Stay, DspAccess
  <2> QED
    BY <1>1, <2>1, UpdateKeeps
<1>7. CASE Stay /\ \E mask \in BOOLEAN :
               DspAccess(WriteControl(FALSE, dspHalt, dspInit, mask, FALSE))
  <2>1. UpdateLatch /\ cpu' = cpu
    BY <1>7 DEF Stay, DspAccess
  <2> QED
    BY <1>1, <2>1, UpdateKeeps
<1>8. CASE Stay /\ \E c \in GuestChannel, bits \in GuestSelect, mask \in BOOLEAN :
               ExiAccess(WriteStatus(c, {"low", "high"}, bits, mask, FALSE, mask, FALSE))
  <2>1. UpdateLatch /\ cpu' = cpu
    BY <1>8 DEF Stay, ExiAccess
  <2> QED
    BY <1>1, <2>1, UpdateKeeps
<1>9. CASE Stay /\ \E c \in GuestChannel : ExiAccess(StartTransfer(c))
  <2>1. UpdateLatch /\ cpu' = cpu
    BY <1>9 DEF Stay, ExiAccess
  <2> QED
    BY <1>1, <2>1, UpdateKeeps
<1> QED
  BY <1>2, <1>3, <1>4, <1>5, <1>6, <1>7, <1>8, <1>9 DEF Drive

\* The device that is served updates the latch on the way back.
LEMMA ServeKeeps == PiIInv /\ Serve => PiIInv'
<1> SUFFICES ASSUME Serve PROVE PiIInv'
  OBVIOUS
<1>1. cpu' \in Cpu \ {"dispatch"}
  BY DEF Serve, Cpu
<1>2. UpdateLatch
  <2>1. CASE WritePe(finishEnable, TRUE)
    BY <2>1 DEF WritePe
  <2>2. CASE \E c \in Channel : ExiAccess(AcknowledgeExi(c))
    BY <2>2 DEF ExiAccess
  <2>3. CASE DspAccess(AcknowledgeDsp)
    BY <2>3 DEF DspAccess
  <2> QED
    BY <2>1, <2>2, <2>3 DEF Serve
<1> QED
  BY <1>1, <1>2, UpdateKeeps

\* Every step of the guest, its handler and the main loop.
LEMMA PiStep == PiIInv /\ [InterfaceNext]_interfaceVars => PiIInv'
<1> SUFFICES ASSUME PiIInv, [InterfaceNext]_interfaceVars PROVE PiIInv'
  OBVIOUS
<1> USE DEF PiIInv, LatchRight, DispatchFindsLine, Unserved, Cpu
<1>1. CASE Drive
  BY <1>1, DriveKeeps
<1>2. CASE DisableInterrupts \/ EnableInterrupts \/ Return
  <2>1. Asserted' = Asserted /\ piMask' = piMask /\ piLatch' = piLatch
    BY <1>2, QuietLines DEF DisableInterrupts, EnableInterrupts, Return, dspVars
  <2> QED
    BY <1>2, <2>1 DEF DisableInterrupts, EnableInterrupts, Return
<1>3. CASE \E line \in Line : Dispatch(line)
  BY <1>3 DEF Dispatch
<1>4. CASE Serve
  BY <1>4, ServeKeeps
<1>5. CASE ServiceExternal
  <2>1. Asserted' = Asserted /\ piMask' = piMask
    BY <1>5, QuietLines DEF ServiceExternal, dspVars
  <2>2. Unserved
    BY <1>5 DEF ServiceExternal
  <2> QED
    BY <1>5, <2>1, <2>2 DEF ServiceExternal
<1>6. CASE UNCHANGED interfaceVars
  <2>1. Asserted' = Asserted
    BY <1>6, QuietLines DEF interfaceVars, piVars, dspVars
  <2> QED
    BY <1>6, <2>1 DEF interfaceVars, piVars
<1> QED
  BY <1>1, <1>2, <1>3, <1>4, <1>5, <1>6 DEF InterfaceNext, Handler

(* Wherever the guest is, the latch is or will be right. *)
THEOREM PiInvariance == InterfaceSpec => []PiIInv
  BY PiInitial, PiStep, PTL DEF InterfaceSpec

(* Whatever the guest writes to the DSP, the external interface, the pixel *)
(* engine and the mask, whenever it runs outside its handler               *)
(* g_pi_external_pending stands exactly when an unmasked cause is asserted.*)
THEOREM LatchFollows == InterfaceSpec => []LatchFollowsLines
<1>1. PiIInv => LatchFollowsLines
  BY DEF PiIInv, LatchRight, LatchFollowsLines, Running, Unserved
<1> QED
  BY <1>1, PiInvariance, PTL

(* An interrupt the main loop delivers finds a cause to serve: the guest's *)
(* dispatcher is never entered for one that has gone.                      *)
THEOREM DeliveredHasCause == InterfaceSpec => []DispatchFindsLine
<1>1. PiIInv => DispatchFindsLine
  BY DEF PiIInv
<1> QED
  BY <1>1, PiInvariance, PTL
-----------------------------------------------------------------------------
(* The types of all the devices together. *)

PiTypeOK ==
    /\ finishEnable \in BOOLEAN /\ finishPending \in BOOLEAN
    /\ piMask \subseteq Line /\ piLatch \in BOOLEAN
    /\ cpu \in Cpu /\ serving \in Line \cup {NoLine}

DevicesIInv == DspIInv /\ ExiIInv /\ PiTypeOK

\* What one device is, no step of another changes.
LEMMA DspQuiet == DspIInv /\ UNCHANGED dspVars => DspIInv'
  BY DEF dspVars, DspIInv, DspTypeOK, MailsInOrder, Inbox

LEMMA ExiQuiet == ExiIInv /\ UNCHANGED exiVars => ExiIInv'
  BY DEF exiVars, exiStatus, ExiIInv, ExiRegisters, ChipDecoded

LEMMA LatchType == UpdateLatch => piLatch' \in BOOLEAN
  BY DEF UpdateLatch

LEMMA DevicesInitial == InterfaceInit => DevicesIInv
<1> SUFFICES ASSUME InterfaceInit PROVE DevicesIInv
  OBVIOUS
<1>1. DspIInv
  BY DspInitial DEF InterfaceInit
<1>2. ExiIInv
  BY ExiInitial DEF InterfaceInit
<1>3. PiTypeOK
  BY DEF InterfaceInit, PiTypeOK, Line, NoLine, Cpu
<1> QED
  BY <1>1, <1>2, <1>3 DEF DevicesIInv

\* The guest's accesses.
LEMMA DevicesDriven == DevicesIInv /\ Drive => DevicesIInv'
<1> SUFFICES ASSUME DevicesIInv, Drive PROVE DevicesIInv'
  OBVIOUS
<1>1. DspIInv /\ ExiIInv /\ PiTypeOK
  BY DEF DevicesIInv
<1>2. CASE DrawDone
  <2>1. DspIInv' /\ ExiIInv'
    BY <1>1, <1>2, DspQuiet, ExiQuiet DEF DrawDone
  <2>2. PiTypeOK'
    BY <1>1, <1>2, LatchType DEF DrawDone, PiTypeOK
  <2> QED
    BY <2>1, <2>2 DEF DevicesIInv
<1>3. ASSUME NEW enable \in BOOLEAN, Stay, WritePe(enable, FALSE)
      PROVE  DevicesIInv'
  <2>1. DspIInv' /\ ExiIInv'
    BY <1>1, <1>3, DspQuiet, ExiQuiet DEF WritePe
  <2>2. PiTypeOK'
    BY <1>1, <1>3, LatchType DEF WritePe, Stay, PiTypeOK
  <2> QED
    BY <2>1, <2>2 DEF DevicesIInv
<1>4. ASSUME NEW mask \in {{}, Line}, WritePiMask(mask)
      PROVE  DevicesIInv'
  <2>1. DspIInv' /\ ExiIInv'
    BY <1>1, <1>4, DspQuiet, ExiQuiet DEF WritePiMask
  <2>2. PiTypeOK'
    BY <1>1, <1>4, LatchType DEF WritePiMask, PiTypeOK
  <2> QED
    BY <2>1, <2>2 DEF DevicesIInv
<1>5. CASE DspQuietAccess
  <2>1. DspIInv'
    <3>1. ASSUME WriteMailHigh(CommandHigh) PROVE DspIInv'
      <4>1. CommandHigh \in MailHigh
        BY DspAssumption
      <4> QED
        BY <1>1, <3>1, <4>1
        DEF WriteMailHigh, DspIInv, DspTypeOK, MailsInOrder, Inbox
    <3> QED
      BY <1>1, <1>5, <3>1, TakeKeeps DEF DspQuietAccess
  <2>2. ExiIInv' /\ PiTypeOK'
    BY <1>1, <1>5, ExiQuiet DEF DspQuietAccess, piVars, PiTypeOK
  <2> QED
    BY <2>1, <2>2 DEF DevicesIInv
<1>6. ASSUME Stay, NEW low \in GuestLow, DspAccess(WriteMailLow(low))
      PROVE  DevicesIInv'
  <2>1. DspIInv'
    BY <1>1, <1>6, SendKeeps, GuestAssumption DEF DspAccess
  <2>2. ExiIInv' /\ PiTypeOK'
    BY <1>1, <1>6, ExiQuiet, LatchType DEF DspAccess, Stay, PiTypeOK
  <2> QED
    BY <2>1, <2>2 DEF DevicesIInv
<1>7. ASSUME Stay, NEW mask \in BOOLEAN,
             DspAccess(WriteControl(FALSE, dspHalt, dspInit, mask, FALSE))
      PROVE  DevicesIInv'
  <2>1. dspHalt \in BOOLEAN /\ dspInit \in BOOLEAN
    BY <1>1 DEF DspIInv, DspTypeOK
  <2>2. DspIInv'
    BY <1>1, <1>7, <2>1, ControlKeeps DEF DspAccess
  <2>3. ExiIInv' /\ PiTypeOK'
    BY <1>1, <1>7, ExiQuiet, LatchType DEF DspAccess, Stay, PiTypeOK
  <2> QED
    BY <2>2, <2>3 DEF DevicesIInv
<1>8. ASSUME Stay, NEW c \in GuestChannel, NEW bits, NEW mask \in BOOLEAN,
             ExiAccess(WriteStatus(c, {"low", "high"}, bits, mask, FALSE, mask, FALSE))
      PROVE  DevicesIInv'
  <2>1. ExiIInv'
    BY <1>1, <1>8, StatusKeeps, GuestAssumption DEF ExiAccess
  <2>2. DspIInv' /\ PiTypeOK'
    BY <1>1, <1>8, DspQuiet, LatchType DEF ExiAccess, Stay, PiTypeOK
  <2> QED
    BY <2>1, <2>2 DEF DevicesIInv
<1>9. ASSUME Stay, NEW c \in GuestChannel, ExiAccess(StartTransfer(c))
      PROVE  DevicesIInv'
  <2>1. ExiIInv'
    BY <1>1, <1>9, TransferKeeps, GuestAssumption DEF ExiAccess
  <2>2. DspIInv' /\ PiTypeOK'
    BY <1>1, <1>9, DspQuiet, LatchType DEF ExiAccess, Stay, PiTypeOK
  <2> QED
    BY <2>1, <2>2 DEF DevicesIInv
<1> QED
  BY <1>2, <1>3, <1>4, <1>5, <1>6, <1>7, <1>8, <1>9 DEF Drive

\* The handler's acknowledgement of each line.
LEMMA DevicesServed == DevicesIInv /\ Serve => DevicesIInv'
<1> SUFFICES ASSUME DevicesIInv, Serve PROVE DevicesIInv'
  OBVIOUS
<1>1. DspIInv /\ ExiIInv /\ PiTypeOK
  BY DEF DevicesIInv
<1>2. cpu' \in Cpu /\ serving' \in Line \cup {NoLine}
  BY DEF Serve, Cpu
<1>3. CASE WritePe(finishEnable, TRUE)
  <2>1. DspIInv' /\ ExiIInv'
    BY <1>1, <1>3, DspQuiet, ExiQuiet DEF WritePe
  <2>2. PiTypeOK'
    BY <1>1, <1>2, <1>3, LatchType DEF WritePe, PiTypeOK
  <2> QED
    BY <2>1, <2>2 DEF DevicesIInv
<1>4. ASSUME NEW c \in Channel, ExiAccess(AcknowledgeExi(c)) PROVE DevicesIInv'
  <2>1. ExiIInv'
    BY <1>1, <1>4, AcknowledgeExiKeeps DEF ExiAccess
  <2>2. DspIInv' /\ PiTypeOK'
    BY <1>1, <1>2, <1>4, DspQuiet, LatchType DEF ExiAccess, PiTypeOK
  <2> QED
    BY <2>1, <2>2 DEF DevicesIInv
<1>5. CASE DspAccess(AcknowledgeDsp)
  <2>1. dspHalt \in BOOLEAN /\ dspInit \in BOOLEAN /\ dspMask \in BOOLEAN
    BY <1>1 DEF DspIInv, DspTypeOK
  <2>2. DspIInv'
    BY <1>1, <1>5, <2>1, ControlKeeps DEF DspAccess, AcknowledgeDsp
  <2>3. ExiIInv' /\ PiTypeOK'
    BY <1>1, <1>2, <1>5, ExiQuiet, LatchType DEF DspAccess, PiTypeOK
  <2> QED
    BY <2>2, <2>3 DEF DevicesIInv
<1> QED
  BY <1>3, <1>4, <1>5 DEF Serve

LEMMA DevicesStep == DevicesIInv /\ [InterfaceNext]_interfaceVars => DevicesIInv'
<1> SUFFICES ASSUME DevicesIInv, [InterfaceNext]_interfaceVars PROVE DevicesIInv'
  OBVIOUS
<1>1. CASE Drive
  BY <1>1, DevicesDriven
<1>2. CASE Serve
  BY <1>2, DevicesServed
<1>3. CASE \/ DisableInterrupts \/ EnableInterrupts \/ Return \/ ServiceExternal
           \/ (\E line \in Line : Dispatch(line)) \/ UNCHANGED interfaceVars
  <2>1. UNCHANGED <<dspVars, exiVars, finishEnable, finishPending, piMask>>
    BY <1>3 DEF DisableInterrupts, EnableInterrupts, Return, ServiceExternal, Dispatch,
                interfaceVars, piVars
  <2>2. DspIInv' /\ ExiIInv'
    BY <2>1, DspQuiet, ExiQuiet DEF DevicesIInv
  <2>3. /\ piLatch' \in BOOLEAN /\ cpu' \in Cpu
        /\ serving' \in Line \cup {NoLine}
    BY <1>3 DEF DisableInterrupts, EnableInterrupts, Return, ServiceExternal, Dispatch,
                interfaceVars, piVars, DevicesIInv, PiTypeOK, Cpu
  <2>4. PiTypeOK'
    BY <2>1, <2>3 DEF DevicesIInv, PiTypeOK
  <2> QED
    BY <2>2, <2>4 DEF DevicesIInv
<1> QED
  BY <1>1, <1>2, <1>3 DEF InterfaceNext, Handler

(* The DSP, the external interface, the pixel engine, the mask, the latch  *)
(* and the guest on one processor interface keep their types, and the two  *)
(* devices what is proved of them alone, however their accesses and the    *)
(* guest's handler are interleaved.                                        *)
THEOREM DevicesInvariance == InterfaceSpec => []DevicesIInv
  BY DevicesInitial, DevicesStep, PTL DEF InterfaceSpec

(* Every variable of every device behind external_read and external_write  *)
(* that the processor interface serves keeps its range.                    *)
THEOREM InterfaceTypeCorrect == InterfaceSpec => []InterfaceTypeOK
<1>1. DevicesIInv => InterfaceTypeOK
  BY ExiSafe DEF DevicesIInv, DspIInv, PiTypeOK, InterfaceTypeOK
<1> QED
  BY <1>1, DevicesInvariance, PTL
=============================================================================
