------------------------------ MODULE StopWorld ------------------------------
(***************************************************************************)
(* Stopping and starting the world with signals, pthread_stop_world.c, and *)
(* the operations of pthread_support.c that decide which threads take part *)
(* (registration, exit, GC_do_blocking, GC_call_with_gc_active).           *)
(*                                                                         *)
(* The thread that holds the allocation lock counts the stop, raises       *)
(* GC_world_is_stopped, sends SIG_SUSPEND to the others one by one and     *)
(* waits on a semaphore for as many acknowledgements.  A signal is a       *)
(* member of `pending': signals of one kind coalesce, and those that the   *)
(* handler masks stay pending until it returns.                            *)
(***************************************************************************)
EXTENDS Integers, FiniteSets

CONSTANTS
  Thread,        \* threads that may ever exist
  None,          \* "nobody", not a thread
  RetryChoices,  \* values that GC_RETRY_SIGNALS may have given GC_retry_signals
  Timely,        \* a resend never meets a thread inside its handler's prologue
  MaxStops,      \* bound: number of stops
  MaxLost        \* bound: number of suspend signals that get lost

ASSUME ConstantsAssumption ==
  /\ IsFiniteSet(Thread) /\ None \notin Thread
  /\ RetryChoices \subseteq BOOLEAN
  /\ Timely \in BOOLEAN
  /\ MaxStops \in Nat /\ MaxLost \in Nat

VARIABLES
  GC_threads,          \* the thread table: absent, live or finished
  thread_blocked,      \* the thread is inside GC_do_blocking
  nested,              \* it is in GC_call_with_gc_active inside GC_do_blocking
  stack_ptr_ok,        \* stop_info.stack_ptr delimits the stack as it is now
  saved_stack_ptr_ok,  \* the same of stacksect.saved_stack_ptr
  last_stop_count,     \* stop_info.last_stop_count
  pending,             \* signals sent to the thread and not yet delivered
  handler,             \* progress of GC_suspend_handler_inner in the thread
  my_stop_count,       \* its local variable
  lock,                \* the thread that is stopping the world, or None
  stage,               \* progress of GC_stop_world and GC_start_world
  todo,                \* threads the current loop over GC_threads has not visited
  n_sent,              \* n_live_threads of GC_suspend_all
  n_live_threads,      \* n_live_threads of GC_stop_world
  acked,               \* i, the sem_waits that have returned
  GC_stop_count, GC_world_is_stopped, GC_suspend_ack_sem, GC_retry_signals,
  lost                 \* suspend signals lost so far

threadVars == <<GC_threads, thread_blocked, nested, saved_stack_ptr_ok>>
handlerVars == <<last_stop_count, handler, my_stop_count>>
stopVars == <<lock, stage, todo, n_sent, n_live_threads, acked, GC_stop_count,
              GC_world_is_stopped, GC_retry_signals, lost>>
vars == <<threadVars, handlerVars, stopVars, stack_ptr_ok, pending, GC_suspend_ack_sem>>

Signals == {"SUSPEND", "RESTART"}
Prologue == {"saved", "posted"}                  \* handler entered, not yet recorded
Waiting == {"posted", "suspended", "woken", "flag_seen"}   \* acknowledged, not left
Stages == {"none", "counted", "suspending", "polling", "resending", "waiting",
           "stopped", "restarting"}

TypeOK ==
  /\ GC_threads \in [Thread -> {"absent", "live", "finished"}]
  /\ thread_blocked \in [Thread -> BOOLEAN] /\ nested \in [Thread -> BOOLEAN]
  /\ stack_ptr_ok \in [Thread -> BOOLEAN] /\ saved_stack_ptr_ok \in [Thread -> BOOLEAN]
  /\ last_stop_count \in [Thread -> Nat] /\ my_stop_count \in [Thread -> Nat]
  /\ pending \in [Thread -> SUBSET Signals]
  /\ handler \in [Thread -> {"none", "saved"} \cup Waiting]
  /\ lock \in Thread \cup {None} /\ stage \in Stages /\ todo \subseteq Thread
  /\ n_sent \in Nat /\ n_live_threads \in Int /\ acked \in Nat
  /\ GC_stop_count \in Nat /\ GC_world_is_stopped \in BOOLEAN
  /\ GC_suspend_ack_sem \in Nat
  /\ GC_retry_signals \in RetryChoices /\ lost \in Nat

Init ==
  /\ \E main \in Thread : GC_threads = [t \in Thread |-> IF t = main THEN "live" ELSE "absent"]
  /\ thread_blocked = [t \in Thread |-> FALSE] /\ nested = [t \in Thread |-> FALSE]
  /\ stack_ptr_ok = [t \in Thread |-> FALSE] /\ saved_stack_ptr_ok = [t \in Thread |-> FALSE]
  /\ last_stop_count = [t \in Thread |-> 0] /\ my_stop_count = [t \in Thread |-> 0]
  /\ pending = [t \in Thread |-> {}] /\ handler = [t \in Thread |-> "none"]
  /\ lock = None /\ stage = "none" /\ todo = {}
  /\ n_sent = 0 /\ n_live_threads = 0 /\ acked = 0
  /\ GC_stop_count = 0 /\ GC_world_is_stopped = FALSE /\ GC_suspend_ack_sem = 0
  /\ GC_retry_signals \in RetryChoices /\ lost = 0

------------------------------------------------------------------------------
(* What threads do by themselves, each under the allocation lock.          *)

\* t runs its own code, and can get the allocation lock.  A suspend signal that
\* was blocked during its handler is delivered before it runs on.
CanLock(t) == lock = None /\ handler[t] = "none" /\ "SUSPEND" \notin pending[t]

Program(t) ==
  /\ CanLock(t)
  /\ UNCHANGED <<handler, my_stop_count, stopVars, GC_suspend_ack_sem>>

\* GC_start_rtn_prepare_thread, GC_register_my_thread: a new record is zeroed,
\* the record of a finished thread keeps its last_stop_count.
Register(t) ==
  /\ Program(t)
  /\ GC_threads[t] # "live"
  /\ GC_threads' = [GC_threads EXCEPT ![t] = "live"]
  /\ last_stop_count' = [last_stop_count EXCEPT ![t] = IF GC_threads[t] = "absent" THEN 0 ELSE @]
  /\ UNCHANGED <<thread_blocked, nested, stack_ptr_ok, saved_stack_ptr_ok, pending>>

\* GC_unregister_my_thread: a detached thread is deleted, a joinable one marked
\* FINISHED, and the thread may end with signals undelivered.
Unregister(t) ==
  /\ Program(t)
  /\ GC_threads[t] = "live" /\ ~thread_blocked[t] /\ ~nested[t]
  /\ \E to \in {"absent", "finished"} : GC_threads' = [GC_threads EXCEPT ![t] = to]
  /\ pending' = [pending EXCEPT ![t] = {}]
  /\ UNCHANGED <<thread_blocked, nested, stack_ptr_ok, saved_stack_ptr_ok, last_stop_count>>

\* GC_do_blocking_inner up to UNLOCK and from the second LOCK.
DoBlocking(t) ==
  /\ Program(t)
  /\ GC_threads[t] = "live" /\ ~thread_blocked[t] /\ ~nested[t]
  /\ thread_blocked' = [thread_blocked EXCEPT ![t] = TRUE]
  /\ stack_ptr_ok' = [stack_ptr_ok EXCEPT ![t] = TRUE]
  /\ UNCHANGED <<GC_threads, nested, saved_stack_ptr_ok, last_stop_count, pending>>

BlockingDone(t) ==
  /\ Program(t)
  /\ thread_blocked[t]
  /\ thread_blocked' = [thread_blocked EXCEPT ![t] = FALSE]
  /\ stack_ptr_ok' = [stack_ptr_ok EXCEPT ![t] = FALSE]      \* the stack moves on
  /\ UNCHANGED <<GC_threads, nested, saved_stack_ptr_ok, last_stop_count, pending>>

\* GC_call_with_gc_active inside GC_do_blocking, its two critical sections.
GcActive(t) ==
  /\ Program(t)
  /\ thread_blocked[t] /\ ~nested[t]
  /\ saved_stack_ptr_ok' = [saved_stack_ptr_ok EXCEPT ![t] = stack_ptr_ok[t]]
  /\ thread_blocked' = [thread_blocked EXCEPT ![t] = FALSE]
  /\ nested' = [nested EXCEPT ![t] = TRUE]
  /\ stack_ptr_ok' = [stack_ptr_ok EXCEPT ![t] = FALSE]      \* the stack moves on
  /\ UNCHANGED <<GC_threads, last_stop_count, pending>>

GcActiveDone(t) ==
  /\ Program(t)
  /\ nested[t]
  /\ thread_blocked' = [thread_blocked EXCEPT ![t] = TRUE]
  /\ nested' = [nested EXCEPT ![t] = FALSE]
  /\ stack_ptr_ok' = [stack_ptr_ok EXCEPT ![t] = saved_stack_ptr_ok[t]]
  /\ saved_stack_ptr_ok' = [saved_stack_ptr_ok EXCEPT ![t] = FALSE]
  /\ UNCHANGED <<GC_threads, last_stop_count, pending>>

------------------------------------------------------------------------------
(* The signal handlers in thread t.                                        *)

HandlerOnly == UNCHANGED <<threadVars, stopVars>>

\* GC_suspend_handler_inner up to the saving of the stack pointer.  Only
\* GC_stop_count is written by others; a signal for the stop that t has
\* recorded already is a duplicate.
SuspendHandler(t) ==
  /\ handler[t] = "none" /\ "SUSPEND" \in pending[t]
  /\ pending' = [pending EXCEPT ![t] = @ \ {"SUSPEND"}]
  /\ IF last_stop_count[t] = GC_stop_count
     THEN UNCHANGED <<handler, my_stop_count, stack_ptr_ok>>
     ELSE /\ handler' = [handler EXCEPT ![t] = "saved"]
          /\ my_stop_count' = [my_stop_count EXCEPT ![t] = GC_stop_count]
          /\ stack_ptr_ok' = [stack_ptr_ok EXCEPT ![t] = TRUE]
  /\ HandlerOnly /\ UNCHANGED <<last_stop_count, GC_suspend_ack_sem>>

SemPost(t) ==
  /\ handler[t] = "saved"
  /\ handler' = [handler EXCEPT ![t] = "posted"]
  /\ GC_suspend_ack_sem' = GC_suspend_ack_sem + 1
  /\ HandlerOnly /\ UNCHANGED <<last_stop_count, my_stop_count, stack_ptr_ok, pending>>

RecordStop(t) ==
  /\ handler[t] = "posted"
  /\ handler' = [handler EXCEPT ![t] = "suspended"]
  /\ last_stop_count' = [last_stop_count EXCEPT ![t] = my_stop_count[t]]
  /\ HandlerOnly /\ UNCHANGED <<my_stop_count, stack_ptr_ok, pending, GC_suspend_ack_sem>>

\* A restart signal, sent already or sent now, is delivered in sigsuspend, the only
\* place in the handler that does not mask it.
SigSuspendReturns(t) ==
  /\ handler[t] = "suspended" /\ "RESTART" \in pending[t]
  /\ handler' = [handler EXCEPT ![t] = "woken"]
  /\ pending' = [pending EXCEPT ![t] = @ \ {"RESTART"}]
  /\ HandlerOnly /\ UNCHANGED <<last_stop_count, my_stop_count, stack_ptr_ok, GC_suspend_ack_sem>>

\* A signal of the program that the mask lets through ends sigsuspend as well.
UserSignal(t) ==
  /\ handler[t] = "suspended"
  /\ handler' = [handler EXCEPT ![t] = "woken"]
  /\ HandlerOnly
  /\ UNCHANGED <<last_stop_count, my_stop_count, stack_ptr_ok, pending, GC_suspend_ack_sem>>

\* The handler returns and the thread runs on from where it was.
Leave(t) ==
  /\ handler' = [handler EXCEPT ![t] = "none"]
  /\ my_stop_count' = [my_stop_count EXCEPT ![t] = 0]
  /\ stack_ptr_ok' = [stack_ptr_ok EXCEPT ![t] = @ /\ thread_blocked[t]]

\* Mutant: sigsuspend is not repeated.
TestFlag_Once(t) ==
  /\ handler[t] = "woken"
  /\ Leave(t)
  /\ HandlerOnly /\ UNCHANGED <<last_stop_count, pending, GC_suspend_ack_sem>>

\* The condition of the loop: first the flag, then the count.
TestFlag(t) ==
  /\ handler[t] = "woken"
  /\ IF GC_world_is_stopped
     THEN /\ handler' = [handler EXCEPT ![t] = "flag_seen"]
          /\ UNCHANGED <<my_stop_count, stack_ptr_ok>>
     ELSE Leave(t)
  /\ HandlerOnly /\ UNCHANGED <<last_stop_count, pending, GC_suspend_ack_sem>>

TestCount(t) ==
  /\ handler[t] = "flag_seen"
  /\ IF GC_stop_count = my_stop_count[t]
     THEN /\ handler' = [handler EXCEPT ![t] = "suspended"]
          /\ UNCHANGED <<my_stop_count, stack_ptr_ok>>
     ELSE Leave(t)
  /\ HandlerOnly /\ UNCHANGED <<last_stop_count, pending, GC_suspend_ack_sem>>

\* GC_restart_handler outside the suspend handler does nothing.
RestartHandler(t) ==
  /\ handler[t] = "none" /\ "RESTART" \in pending[t]
  /\ pending' = [pending EXCEPT ![t] = @ \ {"RESTART"}]
  /\ HandlerOnly /\ UNCHANGED <<handlerVars, stack_ptr_ok, GC_suspend_ack_sem>>

------------------------------------------------------------------------------
(* GC_stop_world and GC_start_world in the thread that holds the lock.     *)

Stopper(from) ==
  /\ stage = from
  /\ handler[lock] = "none"
  /\ UNCHANGED <<threadVars, handlerVars, stack_ptr_ok, GC_retry_signals>>

\* The loops of GC_suspend_all and GC_start_world skip the other threads; who
\* takes part cannot change while the lock is held.
TakesPart(t) == GC_threads[t] = "live" /\ ~thread_blocked[t]
Others == {t \in Thread \ {lock} : TakesPart(t)}

GC_stop_world(t) ==
  /\ CanLock(t) /\ GC_threads[t] = "live" /\ ~thread_blocked[t]
  /\ GC_stop_count < MaxStops
  /\ lock' = t /\ stage' = "counted"
  /\ GC_stop_count' = GC_stop_count + 1
  /\ UNCHANGED <<threadVars, handlerVars, stack_ptr_ok, pending, todo, n_sent, n_live_threads,
                 acked, GC_world_is_stopped, GC_suspend_ack_sem, GC_retry_signals, lost>>

RaiseFlag ==
  /\ Stopper("counted")
  /\ GC_world_is_stopped' = TRUE
  /\ stage' = "suspending" /\ todo' = Others /\ n_sent' = 0
  /\ UNCHANGED <<lock, pending, n_live_threads, acked, GC_stop_count, GC_suspend_ack_sem, lost>>

\* GC_suspend_all reaches the record of t.  When signals are retried, one may
\* get lost on its way.
GC_suspend_all(t) ==
  /\ \/ Stopper("suspending")
     \/ Stopper("resending") /\ (Timely => handler[t] \notin Prologue)
  /\ t \in todo /\ todo' = todo \ {t}
  /\ IF last_stop_count[t] # GC_stop_count
     THEN /\ n_sent' = n_sent + 1
          /\ \/ /\ pending' = [pending EXCEPT ![t] = @ \cup {"SUSPEND"}]
                /\ UNCHANGED lost
             \/ /\ GC_retry_signals /\ lost < MaxLost
                /\ lost' = lost + 1
                /\ UNCHANGED pending
     ELSE UNCHANGED <<n_sent, pending, lost>>
  /\ UNCHANGED <<lock, stage, n_live_threads, acked, GC_stop_count, GC_world_is_stopped,
                 GC_suspend_ack_sem>>

AllSent ==
  /\ Stopper("suspending") /\ todo = {}
  /\ n_live_threads' = n_sent /\ n_sent' = 0 /\ acked' = 0
  /\ stage' = IF GC_retry_signals THEN "polling" ELSE "waiting"
  /\ UNCHANGED <<lock, pending, todo, GC_stop_count, GC_world_is_stopped,
                 GC_suspend_ack_sem, lost>>

\* The loop on sem_getvalue: everybody has acknowledged, or it is time to send
\* the signals again.
PollSucceeds ==
  /\ Stopper("polling") /\ GC_suspend_ack_sem = n_live_threads
  /\ stage' = "waiting"
  /\ UNCHANGED <<lock, pending, todo, n_sent, n_live_threads, acked, GC_stop_count,
                 GC_world_is_stopped, GC_suspend_ack_sem, lost>>

PollTimesOut ==
  /\ Stopper("polling") /\ GC_suspend_ack_sem # n_live_threads
  /\ stage' = "resending" /\ todo' = Others /\ n_sent' = 0
  /\ UNCHANGED <<lock, pending, n_live_threads, acked, GC_stop_count, GC_world_is_stopped,
                 GC_suspend_ack_sem, lost>>

AllResent ==
  /\ Stopper("resending") /\ todo = {}
  /\ n_live_threads' = IF n_sent < n_live_threads - GC_suspend_ack_sem
                       THEN GC_suspend_ack_sem + n_sent ELSE n_live_threads
  /\ stage' = "polling" /\ n_sent' = 0
  /\ UNCHANGED <<lock, pending, todo, acked, GC_stop_count, GC_world_is_stopped,
                 GC_suspend_ack_sem, lost>>

SemWait ==
  /\ Stopper("waiting") /\ acked < n_live_threads
  /\ GC_suspend_ack_sem > 0
  /\ GC_suspend_ack_sem' = GC_suspend_ack_sem - 1 /\ acked' = acked + 1
  /\ UNCHANGED <<lock, stage, pending, todo, n_sent, n_live_threads, GC_stop_count,
                 GC_world_is_stopped, lost>>

\* Mutant: the loop waits once too few.
WorldStopped_OffByOne ==
  /\ Stopper("waiting") /\ acked + 1 >= n_live_threads
  /\ stage' = "stopped" /\ n_live_threads' = 0 /\ acked' = 0
  /\ UNCHANGED <<lock, pending, todo, n_sent, GC_stop_count,
                 GC_world_is_stopped, GC_suspend_ack_sem, lost>>

WorldStopped ==
  /\ Stopper("waiting") /\ acked >= n_live_threads
  /\ stage' = "stopped" /\ n_live_threads' = 0 /\ acked' = 0
  /\ UNCHANGED <<lock, pending, todo, n_sent, GC_stop_count,
                 GC_world_is_stopped, GC_suspend_ack_sem, lost>>

GC_start_world ==
  /\ Stopper("stopped")
  /\ GC_world_is_stopped' = FALSE
  /\ stage' = "restarting" /\ todo' = Others
  /\ UNCHANGED <<lock, pending, n_sent, n_live_threads, acked, GC_stop_count,
                 GC_suspend_ack_sem, lost>>

\* Mutant: only threads that have recorded the stop are restarted, as
\* GC_suspend_all leaves out those that have.
SendRestart_ToRecorded(t) ==
  /\ Stopper("restarting") /\ t \in todo
  /\ todo' = todo \ {t}
  /\ pending' = IF last_stop_count[t] = GC_stop_count
                THEN [pending EXCEPT ![t] = @ \cup {"RESTART"}] ELSE pending
  /\ UNCHANGED <<lock, stage, n_sent, n_live_threads, acked, GC_stop_count,
                 GC_world_is_stopped, GC_suspend_ack_sem, lost>>

SendRestart(t) ==
  /\ Stopper("restarting") /\ t \in todo
  /\ todo' = todo \ {t}
  /\ pending' = [pending EXCEPT ![t] = @ \cup {"RESTART"}]
  /\ UNCHANGED <<lock, stage, n_sent, n_live_threads, acked, GC_stop_count,
                 GC_world_is_stopped, GC_suspend_ack_sem, lost>>

\* The holder releases the allocation lock.
Unlock ==
  /\ Stopper("restarting") /\ todo = {}
  /\ lock' = None /\ stage' = "none"
  /\ UNCHANGED <<pending, todo, n_sent, n_live_threads, acked, GC_stop_count, GC_world_is_stopped, GC_suspend_ack_sem, lost>>

------------------------------------------------------------------------------
ThreadStep(t) ==
  \/ Register(t) \/ Unregister(t)
  \/ DoBlocking(t) \/ BlockingDone(t) \/ GcActive(t) \/ GcActiveDone(t)
  \/ GC_stop_world(t)

HandlerStep(t) ==
  \/ SuspendHandler(t) \/ SemPost(t) \/ RecordStop(t)
  \/ SigSuspendReturns(t) \/ TestFlag(t) \/ TestCount(t)
  \/ RestartHandler(t)

StopperStep ==
  \/ RaiseFlag
  \/ \E t \in Thread : GC_suspend_all(t)
  \/ AllSent \/ PollSucceeds \/ PollTimesOut \/ AllResent
  \/ SemWait \/ WorldStopped \/ GC_start_world
  \/ \E t \in Thread : SendRestart(t)
  \/ Unlock

Next ==
  \/ \E t \in Thread : ThreadStep(t) \/ HandlerStep(t) \/ UserSignal(t)
  \/ StopperStep

Spec == Init /\ [][Next]_vars

\* The scheduler lets every thread in a handler and the one that stops the
\* world run on, and the kernel delivers what is pending.  What a thread does of
\* its own accord is not fair, and no signal of the program need ever come: a
\* suspended thread is woken by the restart signal or not at all.
Fairness ==
  /\ WF_vars(StopperStep)
  /\ \A t \in Thread : WF_vars(HandlerStep(t))

FairSpec == Spec /\ Fairness

------------------------------------------------------------------------------
(* Properties.                                                             *)

\* Once GC_stop_world has returned, every other thread in the table is blocked
\* or waits in its handler, its stack pointer delimits its stack, and the
\* holder of the lock is not suspended itself: GC_push_all_stacks sees all
\* stacks as they are.
StoppedMeansStopped ==
  stage = "stopped" =>
    /\ handler[lock] = "none"
    /\ \A t \in Thread \ {lock} : GC_threads[t] = "live" =>
         /\ thread_blocked[t] \/ handler[t] \in Waiting
         /\ stack_ptr_ok[t]

\* A suspend signal never outlives its stop: it is pending only while the lock
\* is held to stop the world and its thread is in the table.  This is what makes
\* the lookup in the handler safe.
SuspendStaysInItsStop ==
  \A t \in Thread : "SUSPEND" \in pending[t] =>
    /\ stage \in {"suspending", "polling", "resending", "waiting"}
    /\ t # lock /\ GC_threads[t] = "live" /\ ~thread_blocked[t]

\* Acknowledgements are neither lost nor left over: between stops the semaphore
\* is zero, and during one it never exceeds what the stop has asked for.
AcksBalanced ==
  /\ stage \in {"none", "counted", "stopped", "restarting"} => GC_suspend_ack_sem = 0
  /\ stage = "waiting" => GC_suspend_ack_sem + acked <= n_live_threads

\* No stop is under way and no thread is in its handler.
Quiet ==
  stage = "none" /\ \A t \in Thread : handler[t] = "none"

\* A stop that was begun ends, and the threads that it suspended run again: every
\* thread that has acknowledged it, recorded or not, is sent a restart signal that
\* ends its sigsuspend, now or when it gets there.
EveryoneResumes ==
  ~Quiet ~> Quiet
=============================================================================
