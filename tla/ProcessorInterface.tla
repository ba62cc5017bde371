------------------------- MODULE ProcessorInterface -------------------------
(***************************************************************************)
(* The devices behind external_read and external_write of main.c on one    *)
(* processor interface: its cause and mask registers, the pixel engine's   *)
(* draw-done interrupt, the latch that the main loop's                     *)
(* service_external_interrupt spends, and the guest's interrupt handler.   *)
(* (The mailbox to IOS and the video interrupt are in IosIpc.)             *)
(*                                                                         *)
(* A register access of the guest runs to its end, so a step is one access *)
(* of one device with what it does to the latch.  The devices are those of *)
(* DspMailbox and Exi; the guest drives as much of them here as raises and *)
(* clears their lines, and all of them in HostDevices.                     *)
(***************************************************************************)
EXTENDS DspMailbox, Exi

CONSTANTS
    GuestChannel,   \* bound: EXI channels the guest uses
    GuestLow        \* bound: mails it sends

ASSUME GuestAssumption == GuestChannel \subseteq Channel /\ GuestLow \subseteq MailLow

VARIABLES
    finishEnable, finishPending,  \* bits 1 and 3 of g_pe_interrupt_control
    piMask,                   \* g_pi_mask
    piLatch,                  \* g_pi_external_pending
    cpu,                      \* where the guest is
    serving                   \* the cause its handler serves

piVars == <<finishEnable, finishPending, piMask, piLatch, cpu, serving>>
interfaceVars == <<dspVars, exiVars, piVars>>

Line == {"finish", "exi", "dsp"}
NoLine == "none"
Cpu == {"run", "critical", "dispatch", "serve", "return"}

InterfaceInit ==
    /\ DspPowerOn /\ ExiInit
    /\ finishEnable = FALSE /\ finishPending = FALSE
    /\ piMask = {} /\ piLatch = FALSE
    /\ cpu = "run"
    /\ serving = NoLine
-----------------------------------------------------------------------------
(* pi_interrupt_cause *)
Asserted ==
    {line \in Line :
        \/ line = "finish" /\ finishEnable /\ finishPending
        \/ line = "exi" /\ ExiPending
        \/ line = "dsp" /\ dspMask /\ dspInterrupt}

(* update_pi_external_pending *)
UpdateLatch == piLatch' = ((Asserted' \cap piMask') # {})

Running == cpu \in {"run", "critical"}

(* Mutant: the draw-done of the FIFO does not update the latch. *)
DrawDoneUnlatched ==
    /\ finishPending' = TRUE
    /\ UNCHANGED <<dspVars, exiVars,
                   finishEnable, piMask, piLatch, cpu, serving>>

\* A write to the FIFO that completes a draw-done command (GxFifo).
DrawDone ==
    /\ finishPending' = TRUE
    /\ UNCHANGED <<dspVars, exiVars,
                   finishEnable, piMask, cpu, serving>>
    /\ UpdateLatch

WritePe(enable, acknowledge) ==
    /\ finishEnable' = enable
    /\ finishPending' = (finishPending /\ ~acknowledge)
    /\ UNCHANGED <<dspVars, exiVars, piMask>>
    /\ UpdateLatch

WritePiMask(mask) ==
    /\ piMask' = mask
    /\ UNCHANGED <<dspVars, exiVars,
                   finishEnable, finishPending, cpu, serving>>
    /\ UpdateLatch

DspAccess(step) ==
    /\ step
    /\ UNCHANGED <<exiVars,
                   finishEnable, finishPending, piMask>>
    /\ UpdateLatch

ExiAccess(step) ==
    /\ step
    /\ UNCHANGED <<dspVars,
                   finishEnable, finishPending, piMask>>
    /\ UpdateLatch

Stay == UNCHANGED <<cpu, serving>>
-----------------------------------------------------------------------------
(* The guest. *)

\* Accesses of the DSP that return before the latch is updated.
DspQuietAccess ==
    /\ (\E high \in {CommandHigh} : WriteMailHigh(high)) \/ TakeMail
    /\ UNCHANGED <<exiVars, piVars>>

Drive ==
    /\ Running
    /\ \/ DrawDone
       \/ \E enable \in BOOLEAN : Stay /\ WritePe(enable, FALSE)
       \/ \E mask \in {{}, Line} : WritePiMask(mask)
       \/ DspQuietAccess
       \/ Stay /\ \E low \in GuestLow : DspAccess(WriteMailLow(low))
       \/ Stay /\ \E mask \in BOOLEAN :
              DspAccess(WriteControl(FALSE, dspHalt, dspInit, mask, FALSE))
       \/ Stay /\ \E c \in GuestChannel, bits \in GuestSelect, mask \in BOOLEAN :
              ExiAccess(WriteStatus(c, {"low", "high"}, bits, mask, FALSE, mask, FALSE))
       \/ Stay /\ \E c \in GuestChannel : ExiAccess(StartTransfer(c))

DisableInterrupts ==
    /\ cpu = "run"
    /\ cpu' = "critical"
    /\ UNCHANGED <<dspVars, exiVars,
                   finishEnable, finishPending, piMask, piLatch, serving>>

EnableInterrupts ==
    /\ cpu = "critical"
    /\ cpu' = "run"
    /\ UNCHANGED <<dspVars, exiVars,
                   finishEnable, finishPending, piMask, piLatch, serving>>

\* The guest's dispatcher reads the cause and the mask.
Dispatch(line) ==
    /\ cpu = "dispatch"
    /\ line \in Asserted \cap piMask
    /\ cpu' = "serve" /\ serving' = line
    /\ UNCHANGED <<dspVars, exiVars,
                   finishEnable, finishPending, piMask, piLatch>>

\* The handler of the line clears what the device signals.
Serve ==
    /\ cpu = "serve"
    /\ cpu' = "return" /\ serving' = NoLine
    /\ \/ serving = "finish" /\ WritePe(finishEnable, TRUE)
       \/ serving = "exi" /\ \E c \in Channel : ExiAccess(AcknowledgeExi(c))
       \/ serving = "dsp" /\ DspAccess(AcknowledgeDsp)

Return ==
    /\ cpu = "return"
    /\ cpu' = "run"
    /\ UNCHANGED <<dspVars, exiVars,
                   finishEnable, finishPending, piMask, piLatch, serving>>

Handler == (\E line \in Line : Dispatch(line)) \/ Serve \/ Return
-----------------------------------------------------------------------------
(* The main loop's service. *)

\* service_external_interrupt
ServiceExternal ==
    /\ piLatch
    /\ cpu = "run"
    /\ piLatch' = FALSE
    /\ cpu' = "dispatch"
    /\ UNCHANGED <<dspVars, exiVars,
                   finishEnable, finishPending, piMask, serving>>

InterfaceNext ==
    \/ Drive
    \/ DisableInterrupts \/ EnableInterrupts
    \/ Handler
    \/ ServiceExternal

InterfaceSpec == InterfaceInit /\ [][InterfaceNext]_interfaceVars

(* Handlers and critical sections end.  The main loop comes back to its    *)
(* services after every batch of blocks, and the guest does not arrange    *)
(* its critical sections so that every batch ends in one; and no line is   *)
(* passed over for ever by the guest's dispatcher.                         *)
InterfaceFairness ==
    /\ WF_interfaceVars(Handler) /\ WF_interfaceVars(EnableInterrupts)
    /\ SF_interfaceVars(ServiceExternal)
    /\ \A line \in Line : SF_interfaceVars(Dispatch(line))

InterfaceFairSpec == InterfaceSpec /\ InterfaceFairness
-----------------------------------------------------------------------------
(* Every variable of every device stays in its type. *)
InterfaceTypeOK ==
    /\ DspTypeOK /\ ExiTypeOK
    /\ finishEnable \in BOOLEAN /\ finishPending \in BOOLEAN
    /\ piMask \subseteq Line /\ piLatch \in BOOLEAN
    /\ cpu \in Cpu /\ serving \in Line \cup {NoLine}

(* Whenever the guest runs outside its handler, the latch stands exactly   *)
(* when an unmasked line is asserted: no access that changes a device, its *)
(* enable bits or the mask leaves an interrupt behind that the main loop   *)
(* would not deliver, or delivers one that is no longer asserted.          *)
LatchFollowsLines ==
    Running => (piLatch <=> Asserted \cap piMask # {})

(* An asserted, unmasked line is served, withdrawn or masked in the end,   *)
(* however many other lines interrupt the guest meanwhile.                 *)
LinesServed ==
    \A line \in Line :
        line \in Asserted \cap piMask ~> line \notin Asserted \cap piMask
=============================================================================
