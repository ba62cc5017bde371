------------------------------- MODULE IosIpc -------------------------------
(***************************************************************************)
(* The mailbox between the guest (Broadway) and the emulated IOS           *)
(* (Starlet): the IPC registers and interrupt latches of main.c, the       *)
(* request table of ios_hle.c, and the guest's interrupt handler.          *)
(*                                                                         *)
(* Everything runs on one host thread.  The main loop runs a block of      *)
(* guest code, then services the deferred reply and the interrupts.  One   *)
(* step of this module is one register access of the guest with everything *)
(* the host does inside it, or one of the main loop's services; a service  *)
(* may fall between any two accesses, because a block may end there.       *)
(*                                                                         *)
(* The guest itself is not in the repository.  It is modelled from the     *)
(* accesses the host answers: a request is sent with a credit that a Y2    *)
(* acknowledgement returns, and the interrupt handler takes the Y1 reply   *)
(* first and the Y2 acknowledgement second, clearing the interrupt flag    *)
(* with each.                                                              *)
(***************************************************************************)
EXTENDS Naturals

CONSTANTS
    Request,         \* addresses of the guest's request blocks
    None,            \* "valid" is false
    KindOf,          \* what each request asks for
    SendsOverReply   \* may the guest send before it has taken a reply?

Kind == {"plain", "eventhook", "release", "bt_command", "bt_invalid",
         "bt_hci_read", "bt_acl_read"}

ASSUME NoneAssumption == None \notin Request
ASSUME KindAssumption == KindOf \in [Request -> Kind]

VARIABLES
    y1, y2, irq,             \* g_ipc_control bits 4 and 2, g_ipc_irq_flag
    armMsg, ppcMsg,          \* g_ipc_arm_msg, g_ipc_ppc_msg
    ipcPending, piPending,   \* g_ipc_external_pending, g_pi_external_pending
    vi,                      \* the video interface asserts its interrupt
    hook, hci, acl,          \* g_eventhook, g_usb_reads[1], g_usb_reads[0]
    deferred,                \* g_deferred_reply
    event,                   \* g_bt_event_size # 0
    phase, credit,           \* the guest: where it is, may it send
    sent                     \* the guest's requests that have no answer yet

mailbox == <<y1, y2, irq, armMsg, ppcMsg>>
latches == <<ipcPending, piPending>>
ios     == <<hook, hci, acl, deferred, event>>
guest   == <<phase, credit, sent>>
ipcVars    == <<mailbox, latches, vi, ios, guest>>

Phase == {"run", "critical", "dispatch", "reply", "ack", "queued", "vi",
          "return"}

IpcInit ==
    /\ y1 = FALSE /\ y2 = FALSE /\ irq = FALSE
    /\ armMsg = None /\ ppcMsg = None
    /\ ipcPending = FALSE /\ piPending = FALSE
    /\ vi = FALSE
    /\ hook = None /\ hci = None /\ acl = None /\ deferred = None
    /\ event = FALSE
    /\ phase = "run" /\ credit = TRUE
    /\ sent = {}
-----------------------------------------------------------------------------
(* The IOS handlers.  Each one says what becomes of the request table and  *)
(* whether the request is answered at once or parked.                      *)

\* A finished HCI read moves to the deferred reply, if that is free.
CompleteHciRead(read, packet) ==
    IF read # None /\ packet /\ deferred = None
    THEN deferred' = read /\ hci' = None /\ event' = FALSE
    ELSE hci' = read /\ event' = packet /\ UNCHANGED deferred

HandleEventhook(r, disposition) ==
    /\ disposition = IF hook = None THEN "park" ELSE "reply"
    /\ hook' = IF hook = None THEN r ELSE hook
    /\ UNCHANGED <<hci, acl, deferred, event>>

\* No hook: ENOENT.  A deferred reply still waiting: EQUEUEFULL.
HandleRelease(disposition) ==
    /\ disposition = "reply"
    /\ IF hook # None /\ deferred = None
       THEN deferred' = hook /\ hook' = None
       ELSE UNCHANGED <<hook, deferred>>
    /\ UNCHANGED <<hci, acl, event>>

HandleBtCommand(queued, disposition) ==
    /\ disposition = "reply"
    /\ CompleteHciRead(hci, event \/ queued)
    /\ UNCHANGED <<hook, acl>>

HandleHciRead(r, disposition) ==
    /\ disposition = IF hci = None THEN "park" ELSE "reply"
    /\ IF hci = None THEN CompleteHciRead(r, event)
                     ELSE UNCHANGED <<hci, deferred, event>>
    /\ UNCHANGED <<hook, acl>>

(* Mutant: the ACL read lands in the slot of the HCI read. *)
AclReadInHciSlot(r, disposition) ==
    /\ disposition = IF hci = None THEN "park" ELSE "reply"
    /\ hci' = IF hci = None THEN r ELSE hci
    /\ UNCHANGED <<hook, acl, deferred, event>>

HandleAclRead(r, disposition) ==
    /\ disposition = IF acl = None THEN "park" ELSE "reply"
    /\ acl' = IF acl = None THEN r ELSE acl
    /\ UNCHANGED <<hook, hci, deferred, event>>

HandleRequest(r, disposition) ==
    \/ /\ KindOf[r] = "plain"
       /\ disposition = "reply"
       /\ UNCHANGED ios
    \/ KindOf[r] = "eventhook"   /\ HandleEventhook(r, disposition)
    \/ KindOf[r] = "release"     /\ HandleRelease(disposition)
    \/ KindOf[r] = "bt_command"  /\ HandleBtCommand(TRUE, disposition)
    \/ KindOf[r] = "bt_invalid"  /\ HandleBtCommand(FALSE, disposition)
    \/ KindOf[r] = "bt_hci_read" /\ HandleHciRead(r, disposition)
    \/ KindOf[r] = "bt_acl_read" /\ HandleAclRead(r, disposition)
-----------------------------------------------------------------------------
(* The registers. *)

\* The cause register: g_pi_mask lets the IPC and the video interrupt through.
Cause(ipc, video) == ipc \/ video

\* What a write to the control register leaves of the interrupt flag: it
\* drops once neither a reply nor an acknowledgement is left.
FlagAfterControl(reply, ack) == irq /\ (reply \/ ack)

(* Mutant: only an acknowledged reply latches the interrupt. *)
ReplyUnsignalled(r, acknowledge) ==
    /\ armMsg' = r
    /\ y1' = TRUE
    /\ y2' = (y2 \/ acknowledge)
    /\ irq' = TRUE
    /\ ipcPending' = (ipcPending \/ acknowledge)

\* A reply (armMsg, Y1), with the acknowledgement (Y2) or on its own.
Reply(r, acknowledge) ==
    /\ armMsg' = r
    /\ y1' = TRUE
    /\ y2' = (y2 \/ acknowledge)
    /\ irq' = TRUE
    /\ ipcPending' = TRUE

(* Mutant: a parked request raises the flag but latches no interrupt. *)
ParkSilently ==
    /\ y2' = TRUE
    /\ irq' = TRUE
    /\ UNCHANGED <<y1, armMsg, ipcPending>>

\* A parked request is acknowledged now and answered later.
Park ==
    /\ y2' = TRUE
    /\ irq' = TRUE
    /\ ipcPending' = TRUE
    /\ UNCHANGED <<y1, armMsg>>
-----------------------------------------------------------------------------
(* The guest's register accesses. *)

\* The guest writes the message register and X1; the request is handled
\* inside that write.
Send(r) ==
    /\ phase \in {"critical", "queued"}
    /\ credit
    /\ r \notin sent
    /\ SendsOverReply \/ ~y1
    /\ sent' = sent \cup {r}
    /\ credit' = FALSE
    /\ ppcMsg' = r
    /\ piPending' = Cause(FlagAfterControl(y1, y2), vi)
    /\ \E disposition \in {"park", "reply"} :
        /\ HandleRequest(r, disposition)
        /\ IF disposition = "park" THEN Park ELSE Reply(r, TRUE)
    /\ UNCHANGED <<vi, phase>>

\* The guest clears MSR[EE] around the code that sends, and sets it again.
DisableInterrupts ==
    /\ phase = "run"
    /\ phase' = "critical"
    /\ UNCHANGED <<mailbox, latches, vi, ios, credit, sent>>

EnableInterrupts ==
    /\ phase = "critical"
    /\ phase' = "run"
    /\ UNCHANGED <<mailbox, latches, vi, ios, credit, sent>>

\* The guest's interrupt dispatcher reads the cause register.  It finds
\* one: the guest acknowledges nothing outside the handler.
DispatchIpc ==
    /\ phase = "dispatch" /\ irq
    /\ phase' = "reply"
    /\ UNCHANGED <<mailbox, latches, vi, ios, credit, sent>>

DispatchVideo ==
    /\ phase = "dispatch" /\ vi
    /\ phase' = "vi"
    /\ UNCHANGED <<mailbox, latches, vi, ios, credit, sent>>

\* The guest takes the reply: it reads armMsg, clears Y1 and the flag.
TakeReply ==
    /\ phase = "reply"
    /\ phase' = "ack"
    /\ IF y1
       THEN /\ sent' = sent \ {armMsg}
            /\ y1' = FALSE
            /\ irq' = FALSE
            /\ piPending' = Cause(FALSE, vi)
       ELSE UNCHANGED <<sent, y1, irq, piPending>>
    /\ UNCHANGED <<y2, armMsg, ppcMsg, ipcPending, vi, ios, credit>>

\* The guest takes the acknowledgement: it may send again.
TakeAck ==
    /\ phase = "ack"
    /\ IF y2
       THEN /\ y2' = FALSE
            /\ irq' = FALSE
            /\ piPending' = Cause(FALSE, vi)
            /\ credit' = TRUE
            /\ phase' = "queued"
       ELSE /\ phase' = "return"
            /\ UNCHANGED <<y2, irq, piPending, credit>>
    /\ UNCHANGED <<y1, armMsg, ppcMsg, ipcPending, vi, ios, sent>>

\* Nothing (more) to send from the handler.
LeaveQueued ==
    /\ phase = "queued"
    /\ phase' = "return"
    /\ UNCHANGED <<mailbox, latches, vi, ios, credit, sent>>

\* The guest clears the retrace in the video interface's register.
TakeVideo ==
    /\ phase = "vi"
    /\ phase' = "return"
    /\ vi' = FALSE
    /\ piPending' = Cause(irq, FALSE)
    /\ UNCHANGED <<mailbox, ipcPending, ios, credit, sent>>

ReturnFromInterrupt ==
    /\ phase = "return"
    /\ phase' = "run"
    /\ UNCHANGED <<mailbox, latches, vi, ios, credit, sent>>
-----------------------------------------------------------------------------
(* The main loop's services. *)

\* A new frame: the retrace is signalled.
SignalRetrace ==
    /\ vi' = TRUE
    /\ piPending' = Cause(irq, TRUE)
    /\ UNCHANGED <<mailbox, ipcPending, ios, guest>>

(* Mutant: the mailbox need not be clear. *)
ServiceDeferredAtOnce ==
    /\ deferred # None
    /\ Reply(deferred, FALSE)
    /\ deferred' = None
    /\ UNCHANGED <<ppcMsg, piPending, vi, hook, hci, acl, event, guest>>

(* Mutant: only the previous reply must have been taken. *)
ServiceDeferredBeforeAck ==
    /\ ~y1
    /\ deferred # None
    /\ Reply(deferred, FALSE)
    /\ deferred' = None
    /\ UNCHANGED <<ppcMsg, piPending, vi, hook, hci, acl, event, guest>>

\* A deferred reply is published when the mailbox is clear.
ServiceDeferred ==
    /\ ~y1 /\ ~y2 /\ ~irq
    /\ deferred # None
    /\ Reply(deferred, FALSE)
    /\ deferred' = None
    /\ UNCHANGED <<ppcMsg, piPending, vi, hook, hci, acl, event, guest>>

\* A latched interrupt is taken when MSR[EE] is set; both latches are spent.
ServiceInterrupt ==
    /\ ipcPending \/ piPending
    /\ phase = "run"
    /\ phase' = "dispatch"
    /\ ipcPending' = FALSE /\ piPending' = FALSE
    /\ UNCHANGED <<mailbox, vi, ios, credit, sent>>

Sends == DisableInterrupts \/ \E r \in Request : Send(r)

Handler ==
    \/ DispatchIpc \/ DispatchVideo
    \/ TakeReply \/ TakeAck \/ LeaveQueued \/ TakeVideo
    \/ ReturnFromInterrupt

IpcNext ==
    \/ Sends
    \/ EnableInterrupts
    \/ Handler
    \/ SignalRetrace
    \/ ServiceDeferred
    \/ ServiceInterrupt

IpcSpec == IpcInit /\ [][IpcNext]_ipcVars

(* The main loop comes back to its services after every block; the guest's *)
(* handler and its critical sections end.  The guest's dispatcher does not *)
(* pass over the mailbox for ever in favour of the retrace, which comes    *)
(* once a frame.  The guest is never obliged to send.                      *)
IpcFairness ==
    /\ WF_ipcVars(ServiceDeferred)
    /\ WF_ipcVars(ServiceInterrupt)
    /\ WF_ipcVars(EnableInterrupts)
    /\ WF_ipcVars(Handler)
    /\ SF_ipcVars(DispatchIpc)

IpcFairSpec == IpcSpec /\ IpcFairness
-----------------------------------------------------------------------------
OfKind(k) == {r \in Request : KindOf[r] = k}

(* Every variable stays in its type, and each place of the request table   *)
(* holds only requests of its own kind.                                    *)
IpcTypeOK ==
    /\ y1 \in BOOLEAN /\ y2 \in BOOLEAN /\ irq \in BOOLEAN
    /\ armMsg \in Request \cup {None}
    /\ ppcMsg \in Request \cup {None}
    /\ ipcPending \in BOOLEAN /\ piPending \in BOOLEAN
    /\ vi \in BOOLEAN
    /\ hook \in OfKind("eventhook") \cup {None}
    /\ hci \in OfKind("bt_hci_read") \cup {None}
    /\ acl \in OfKind("bt_acl_read") \cup {None}
    /\ deferred \in OfKind("eventhook") \cup OfKind("bt_hci_read") \cup {None}
    /\ event \in BOOLEAN
    /\ phase \in Phase
    /\ credit \in BOOLEAN
    /\ sent \subseteq Request

\* The request each place of the host holds, None for an empty one.
Held == [eventhook   |-> hook,
         bt_hci_read |-> hci,
         bt_acl_read |-> acl,
         deferred    |-> deferred,
         mailbox     |-> IF y1 THEN armMsg ELSE None]

Place == {"eventhook", "bt_hci_read", "bt_acl_read", "deferred", "mailbox"}

(* A request without an answer is held in exactly one place, and nothing   *)
(* else is held: no request is forgotten, answered twice, or answered      *)
(* without having been sent.                                               *)
Accounted ==
    /\ \A p \in Place : Held[p] # None => Held[p] \in sent
    /\ \A p, q \in Place : Held[p] = Held[q] /\ Held[p] # None => p = q
    /\ \A r \in sent : \E p \in Place : Held[p] = r

(* A reply and an acknowledgement that stand together in the mailbox are   *)
(* those of one request: a deferred reply never joins the acknowledgement  *)
(* of another request (the comment above service_deferred_ipc).            *)
AckMatchesReply == y1 /\ y2 => armMsg = ppcMsg

(* Whenever the guest runs outside its interrupt handler, an unread reply  *)
(* or acknowledgement asserts the interrupt, and an asserted interrupt is  *)
(* latched for the main loop to deliver.                                   *)
NoInterruptLost ==
    phase \in {"run", "critical"} =>
        /\ y1 \/ y2 => irq
        /\ irq \/ vi => ipcPending \/ piPending

(* Once the guest stops sending, every request that is not parked gets its *)
(* answer.                                                                 *)
Waiting(r) == r \in sent /\ r \notin {hook, hci, acl}

AnswersArrive ==
    <>[][~Sends]_ipcVars => \A r \in Request : Waiting(r) ~> r \notin sent

(* A reply in the mailbox stays until the guest has taken it (ios_hle.h,   *)
(* smg3ds_ios_take_deferred_reply: "only after the previous Y1 reply has   *)
(* been consumed by the PPC").                                             *)
RepliesHeld == [][y1 /\ y1' => armMsg' = armMsg]_ipcVars

(* The comment in handle_ioctlv: IOS keeps the HCI transfer pending until  *)
(* the adapter produces a packet.  So a read does not stay parked with a   *)
(* packet waiting for it.                                                  *)
PacketCompletesRead == (hci # None /\ event) ~> ~(hci # None /\ event)
=============================================================================
