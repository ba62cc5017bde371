---------------------------- MODULE RetracePacing ----------------------------
(***************************************************************************)
(* How the main loop of main.c paces the guest's video retraces.  The host *)
(* renders frames faster than the guest produces them; a retrace signalled *)
(* in every host frame is always queued before the guest's main thread     *)
(* asks for it, so that thread never sleeps and the guest's scheduler,     *)
(* which is strictly by priority, never runs its loading threads.          *)
(*                                                                         *)
(* A host frame decides whether to signal a retrace and then runs blocks   *)
(* of guest code, at least one, until its time is up.  The guest's threads *)
(* are not in the repository: they are modelled as far as the host looks   *)
(* at them, one of high priority that waits for retraces, a worker of the  *)
(* asynchronous executor, and a loader the worker can block behind.        *)
(***************************************************************************)
EXTENDS Naturals

CONSTANTS
    JobBlocks,      \* bound: blocks of guest code, and waits, a job takes
    TickCapacity    \* bound: ticks the guest's message queue holds

ASSUME BoundAssumption == JobBlocks \in Nat \ {0} /\ TickCapacity \in Nat \ {0}

VARIABLES
    pacing,     \* g_vi_demand_pacing
    attempted,  \* g_vi_background_handoff_attempted
    vi,         \* vi_interrupt_pending()
    blockRun,   \* this frame has run a block
    ticks,      \* ticks queued for the main thread
    main,       \* the main thread
    worker,     \* the worker: no job, or a job that can or cannot run
    loader,     \* the loader, likewise
    left,       \* blocks the running job still takes
    current,    \* the thread the guest's OS has installed
    framed      \* history: a frame has begun since the main thread sleeps

hostVars == <<pacing, attempted>>
pacingVars == <<pacing, attempted, vi, blockRun, ticks, main, worker, loader, left,
          current, framed>>

PacingInit ==
    /\ pacing = FALSE /\ attempted = FALSE
    /\ vi = FALSE /\ blockRun = TRUE
    /\ ticks = 0
    /\ main = "works" /\ current = "main"
    /\ worker = "none" /\ loader = "none"
    /\ left = 0
    /\ framed = FALSE
-----------------------------------------------------------------------------
(* What the host reads of the guest's memory. *)

\* guest_is_waiting_for_retrace: a thread sleeps in the retrace queue.
WaitingForRetrace == main = "waits"

\* guest_background_thread_is_running and guest_async_worker_is_running:
\* while the main thread sleeps, another thread is installed.
BackgroundRunning == WaitingForRetrace /\ current \in {"worker", "loader"}

\* guest_async_work_pending: a job of the executor is not done.
AsyncWorkPending == worker # "none"

(* The decision at the head of each host frame. *)

(* Mutant: no frame is given to the guest's dispatcher. *)
NoHandoff == FALSE

(* Mutant: every frame with work pending is. *)
EndlessHandoff == WaitingForRetrace /\ AsyncWorkPending

BeginHandoff == WaitingForRetrace /\ AsyncWorkPending /\ ~attempted

(* Mutant: the frame does not look at what the guest waits for. *)
SignalEveryFrame(paced) == ~BackgroundRunning

SignalsRetrace(paced) ==
    /\ ~paced \/ (WaitingForRetrace /\ ~vi)
    /\ ~BackgroundRunning
    /\ ~BeginHandoff

(* Mutant: pacing waits for a block to begin at the guest's receive call.  *)
FrameUnlatched ==
    /\ blockRun
    /\ blockRun' = FALSE
    /\ IF SignalsRetrace(pacing)
       THEN vi' = TRUE /\ attempted' = FALSE
       ELSE /\ attempted' = (attempted \/ BackgroundRunning \/ BeginHandoff)
            /\ UNCHANGED vi
    /\ framed' = WaitingForRetrace
    /\ UNCHANGED <<pacing, ticks, main, worker, loader, left, current>>

Frame ==
    /\ blockRun
    /\ blockRun' = FALSE
    /\ pacing' = (pacing \/ WaitingForRetrace)
    /\ IF SignalsRetrace(pacing')
       THEN vi' = TRUE /\ attempted' = FALSE
       ELSE /\ attempted' = (attempted \/ BackgroundRunning \/ BeginHandoff)
            /\ UNCHANGED vi
    /\ framed' = WaitingForRetrace
    /\ UNCHANGED <<ticks, main, worker, loader, left, current>>
-----------------------------------------------------------------------------
(* Blocks of guest code. *)

\* The retrace interrupt posts a tick; the main thread, if it sleeps for
\* one, is woken with it and takes the processor.  Between falling asleep
\* and the dispatcher's choice interrupts are disabled.
RetraceInterrupt ==
    /\ vi
    /\ ~(WaitingForRetrace /\ current = "main")
    /\ vi' = FALSE
    /\ framed' = FALSE
    /\ IF WaitingForRetrace
       THEN main' = "works" /\ current' = "main" /\ UNCHANGED ticks
       ELSE /\ ticks' = IF ticks < TickCapacity THEN ticks + 1 ELSE ticks
            /\ UNCHANGED <<main, current>>
    /\ UNCHANGED <<hostVars, worker, loader, left>>

\* The main thread's own work may start a job.
MainWorks ==
    /\ current = "main" /\ main = "works"
    /\ main' = "receives"
    /\ \/ UNCHANGED <<worker, left>>
       \/ worker = "none" /\ worker' = "ready" /\ left' = JobBlocks
    /\ UNCHANGED <<hostVars, vi, ticks, loader, current>>

\* It asks for a tick.  The host sees the call if a block begins there.
MainReceives ==
    /\ current = "main" /\ main = "receives"
    /\ pacing' \in {pacing, TRUE}
    /\ IF ticks > 0 THEN main' = "works" /\ ticks' = ticks - 1
                    ELSE main' = "waits" /\ UNCHANGED ticks
    /\ UNCHANGED <<attempted, vi, worker, loader, left, current>>

\* The guest's dispatcher installs the next thread.
Select ==
    /\ current = "main" /\ main = "waits"
    /\ current' = IF loader = "ready" THEN "loader"
                  ELSE IF worker = "ready" THEN "worker" ELSE "none"
    /\ UNCHANGED <<hostVars, vi, ticks, main, worker, loader, left>>

\* A job goes on, ends, or blocks behind the loader.
WorkerRuns ==
    /\ current = "worker"
    /\ \/ /\ left > 0
          /\ left' = left - 1
          /\ UNCHANGED <<worker, loader, current>>
       \/ /\ left = 0
          /\ worker' = "none" /\ current' = "none"
          /\ UNCHANGED <<loader, left>>
       \/ /\ left > 0 /\ loader = "none"
          /\ worker' = "blocked" /\ loader' = "ready" /\ current' = "loader"
          /\ left' = left - 1
    /\ UNCHANGED <<hostVars, vi, ticks, main>>

\* The loader ends and wakes the worker, or waits for an answer of IOS, one
\* of finitely many that a job needs.
LoaderRuns ==
    /\ current = "loader"
    /\ \/ /\ loader' = "none" /\ worker' = "ready" /\ current' = "worker"
          /\ UNCHANGED left
       \/ /\ left > 0
          /\ loader' = "blocked" /\ current' = "none"
          /\ left' = left - 1
          /\ UNCHANGED worker
    /\ UNCHANGED <<hostVars, vi, ticks, main>>

\* The answer arrives; nobody promises when, or that it does.
AnswerArrives ==
    /\ loader = "blocked"
    /\ loader' = "ready"
    /\ current' = IF current = "none" THEN "loader" ELSE current
    /\ UNCHANGED <<hostVars, vi, ticks, main, worker, left>>

Idles == current = "none" /\ UNCHANGED <<hostVars, vi, ticks, main, worker,
                                         loader, left, current>>

Thread == MainWorks \/ MainReceives \/ Select \/ WorkerRuns \/ LoaderRuns
          \/ Idles

\* With interrupts disabled a thread may run on past a pending retrace, but
\* not an idle guest.
Block ==
    /\ blockRun' = TRUE
    /\ \/ RetraceInterrupt
       \/ Thread /\ ~(vi /\ current = "none") /\ UNCHANGED framed
       \/ AnswerArrives /\ UNCHANGED framed

PacingNext == Frame \/ Block

PacingSpec == PacingInit /\ [][PacingNext]_pacingVars

(* Every frame ends, by its count of blocks or by its deadline, and runs   *)
(* at least one block.  A thread does not keep interrupts disabled for     *)
(* ever.  The loader's answer need not come.  The deadline is the host's   *)
(* clock and knows nothing of the guest: it does not for ever fall between *)
(* the dispatcher's choice of a thread and the pending interrupt.          *)
PacingFairness ==
    /\ WF_pacingVars(Frame)
    /\ WF_pacingVars(Block)
    /\ WF_pacingVars(RetraceInterrupt /\ blockRun' = TRUE)
    /\ WF_pacingVars(Thread /\ blockRun' = TRUE /\ UNCHANGED framed)
    /\ SF_pacingVars(BackgroundRunning /\ ~attempted
               /\ RetraceInterrupt /\ blockRun' = TRUE)

PacingFairSpec == PacingSpec /\ PacingFairness
-----------------------------------------------------------------------------
(* The variables stay in their types, the installed thread is one that can *)
(* run, the loader works only for a job, and a frame is left to background *)
(* work (main.c:3926) only once retraces are paced.                        *)
PacingTypeOK ==
    /\ pacing \in BOOLEAN /\ attempted \in BOOLEAN
    /\ vi \in BOOLEAN /\ blockRun \in BOOLEAN
    /\ ticks \in 0 .. TickCapacity
    /\ main \in {"works", "receives", "waits"}
    /\ worker \in {"none", "ready", "blocked"}
    /\ loader \in {"none", "ready", "blocked"}
    /\ left \in 0 .. JobBlocks
    /\ current \in {"main", "worker", "loader", "none"}
    /\ current = "worker" => worker = "ready"
    /\ current = "loader" => loader = "ready"
    /\ current # "main" \/ framed => main = "waits"
    /\ attempted => pacing
    /\ loader # "none" <=> worker = "blocked"

(* "without deadlocking an idle guest" (main.c, the frame loop): a main    *)
(* thread that sleeps for a retrace is woken, even when the pending job    *)
(* waits for something that never comes.                                   *)
RetraceArrives == WaitingForRetrace ~> ~WaitingForRetrace

(* "starving lower-priority scene-loading workers" (main.c,                *)
(* observe_guest_retrace_wait): once retraces are paced, a job that can    *)
(* run gets to run until it ends or blocks.                                *)
JobsRun ==
    /\ (pacing /\ worker = "ready") ~> worker # "ready"
    /\ (pacing /\ loader = "ready") ~> loader # "ready"

(* Once retraces are paced they stop being queued ahead of the main        *)
(* thread, for good: it sleeps before each of them.                        *)
NoTicksAhead == pacing ~> [](ticks = 0)

(* "Give that handoff one unsignalled host slice whenever async work is    *)
(* pending" (main.c:3929): the first frame that finds the main thread      *)
(* asleep with a job pending signals no retrace.                           *)
HandoffGiven ==
    [][Frame /\ WaitingForRetrace /\ ~framed /\ AsyncWorkPending
         => UNCHANGED vi]_pacingVars
=============================================================================
