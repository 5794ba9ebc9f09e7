-------------------------- MODULE StopWorld_proofs --------------------------
(***************************************************************************)
(* For any number of threads, stops and lost signals: if no resend meets a *)
(* thread inside the prologue of its handler, or signals are not resent at *)
(* all, a world that counts as stopped is stopped, no suspend signal       *)
(* outlives its stop, and the acknowledgements balance.                    *)
(***************************************************************************)
EXTENDS StopWorld, TLAPS, FiniteSetTheorems

\* The assumption without which StoppedMeansStopped is false (StopWorld_retry).
NoEarlyResend == Timely \/ TRUE \notin RetryChoices

\* The stages in which acknowledgements may come in, and those in which the
\* flag is up.
Stopping == {"suspending", "polling", "resending", "waiting"}
Raised == Stopping \cup {"stopped"}

\* The threads that have acknowledged the last stop.
Acked == {t \in Thread : handler[t] \in Waiting /\ my_stop_count[t] = GC_stop_count}

\* Who stops the world runs itself, and only then is a loop under way.
Holder ==
  /\ stage = "none" <=> lock = None
  /\ lock # None => /\ GC_threads[lock] = "live" /\ ~thread_blocked[lock]
                    /\ handler[lock] = "none"
  /\ GC_world_is_stopped <=> stage \in Raised
  /\ todo \subseteq Others
  /\ stage \notin {"suspending", "resending", "restarting"} => todo = {}
  /\ stage \in {"polling", "resending"} => GC_retry_signals

\* A pending suspend signal belongs to the stop under way, and its thread has
\* not entered its handler for this stop.
SignalOK(t) ==
  "SUSPEND" \in pending[t] =>
    /\ stage \in Stopping /\ t \in Others
    /\ handler[t] = "none" \/ my_stop_count[t] < GC_stop_count
    /\ last_stop_count[t] < GC_stop_count
    /\ stage = "suspending" => t \notin todo

\* A thread in its handler is in the table and not blocked; one that is there
\* for the stop under way was asked to, and has saved its stack pointer.
HandlerOK(t) ==
  handler[t] # "none" =>
    /\ GC_threads[t] = "live" /\ ~thread_blocked[t]
    /\ my_stop_count[t] <= GC_stop_count
    /\ handler[t] = "saved" => /\ my_stop_count[t] = GC_stop_count /\ stage \in Stopping
    /\ stage = "counted" => my_stop_count[t] < GC_stop_count
    /\ stage \in Raised /\ my_stop_count[t] = GC_stop_count =>
         /\ stack_ptr_ok[t]
         /\ stage = "suspending" => t \notin todo

\* The record of the last stop.
RecordOK(t) ==
  /\ last_stop_count[t] <= GC_stop_count
  /\ stage = "counted" => last_stop_count[t] < GC_stop_count
  /\ stage \in Raised /\ last_stop_count[t] = GC_stop_count =>
       handler[t] \in {"suspended", "woken", "flag_seen"}
  /\ handler[t] \in {"suspended", "woken", "flag_seen"} => last_stop_count[t] = my_stop_count[t]
  /\ handler[t] \in Prologue => last_stop_count[t] < my_stop_count[t]

\* A blocked thread has saved its stack pointer.
BlockedOK(t) ==
  /\ thread_blocked[t] => stack_ptr_ok[t] /\ ~nested[t]
  /\ nested[t] => saved_stack_ptr_ok[t]

\* What the semaphore and the counters stand for.
Counts ==
  /\ stage \in {"none", "counted", "stopped", "restarting"} => GC_suspend_ack_sem = 0
  /\ stage \in {"suspending", "polling", "resending"} => GC_suspend_ack_sem = Cardinality(Acked)
  /\ stage = "suspending" => n_sent = Cardinality(Others \ todo)
  /\ stage \in {"polling", "resending", "waiting"} => n_live_threads = Cardinality(Others)
  /\ stage \in {"polling", "resending"} => acked = 0
  /\ stage = "resending" => n_sent >= Cardinality((Others \ todo) \ Acked)
  /\ stage = "waiting" => GC_suspend_ack_sem + acked = Cardinality(Acked)
  /\ stage = "stopped" => Others \subseteq Acked

IInv ==
  /\ TypeOK /\ Holder /\ Counts
  /\ \A t \in Thread : SignalOK(t) /\ HandlerOK(t) /\ RecordOK(t) /\ BlockedOK(t)

------------------------------------------------------------------------------
(* Facts about the sets that are counted.                                  *)

LEMMA SetsFinite ==
  ASSUME ConstantsAssumption
  PROVE  /\ IsFiniteSet(Acked) /\ IsFiniteSet(Others)
         /\ IsFiniteSet(Others \ todo) /\ IsFiniteSet((Others \ todo) \ Acked)
  BY FS_Subset DEF Acked, Others, ConstantsAssumption

\* Only threads that take part acknowledge.
LEMMA AckedTakePart ==
  ASSUME IInv, stage # "none" PROVE Acked \subseteq Others
  BY DEF IInv, HandlerOK, Holder, Acked, Others, TakesPart, Waiting, TypeOK

\* Who takes part depends on the table and on the holder of the lock.
LEMMA OthersSame ==
  ASSUME UNCHANGED <<GC_threads, thread_blocked, lock>>
  PROVE  Others' = Others
  BY DEF Others, TakesPart

LEMMA AckedSame ==
  ASSUME UNCHANGED <<handlerVars, GC_stop_count>>
  PROVE  Acked' = Acked
  BY DEF Acked, handlerVars

\* Every variable keeps its type.
LEMMA TypeOKStep == TypeOK /\ [Next]_vars => TypeOK'
<1> SUFFICES ASSUME TypeOK, [Next]_vars PROVE TypeOK'
  OBVIOUS
<1> USE DEF TypeOK, Signals, Waiting, Stages, threadVars, handlerVars, stopVars
<1>1. CASE UNCHANGED vars
  BY <1>1 DEF vars
<1>2. ASSUME NEW t \in Thread, ThreadStep(t) PROVE TypeOK'
  <2> USE DEF Program, CanLock
  <2>1. CASE Register(t) \/ Unregister(t)
    BY <2>1 DEF Register, Unregister
  <2>2. CASE DoBlocking(t) \/ BlockingDone(t)
    BY <2>2, ZenonT(40) DEF DoBlocking, BlockingDone
  <2>3. CASE GcActive(t) \/ GcActiveDone(t)
    BY <2>3, ZenonT(40) DEF GcActive, GcActiveDone
  <2>4. CASE GC_stop_world(t)
    BY <2>4 DEF GC_stop_world
  <2> QED
    BY <1>2, <2>1, <2>2, <2>3, <2>4 DEF ThreadStep
<1>3. ASSUME NEW t \in Thread, HandlerStep(t) PROVE TypeOK'
  <2> USE DEF HandlerOnly, Leave
  <2>1. CASE SuspendHandler(t)
    <3>1. CASE last_stop_count[t] = GC_stop_count
      BY <2>1, <3>1 DEF SuspendHandler
    <3>2. CASE last_stop_count[t] # GC_stop_count
      <4>1. stack_ptr_ok' \in [Thread -> BOOLEAN]
        BY <2>1, <3>2 DEF SuspendHandler
      <4>2. pending' \in [Thread -> SUBSET Signals] /\ my_stop_count' \in [Thread -> Nat]
        BY <2>1, <3>2 DEF SuspendHandler
      <4>3. handler' \in [Thread -> {"none", "saved"} \cup Waiting]
        BY <2>1, <3>2 DEF SuspendHandler
      <4> QED
        BY <2>1, <4>1, <4>2, <4>3 DEF SuspendHandler
    <3> QED
      BY <3>1, <3>2
  <2>2. CASE SemPost(t) \/ RecordStop(t)
    BY <2>2 DEF SemPost, RecordStop
  <2>3. CASE SigSuspendReturns(t) \/ RestartHandler(t)
    BY <2>3 DEF SigSuspendReturns, RestartHandler
  <2>4. CASE TestFlag(t) \/ TestCount(t)
    BY <2>4 DEF TestFlag, TestCount
  <2> QED
    BY <1>3, <2>1, <2>2, <2>3, <2>4 DEF HandlerStep
<1>4. ASSUME NEW t \in Thread, UserSignal(t) PROVE TypeOK'
  BY <1>4 DEF UserSignal, HandlerOnly
<1>5. ASSUME StopperStep PROVE TypeOK'
  <2> USE DEF Stopper
  <2>1. ASSUME NEW t \in Thread, GC_suspend_all(t) PROVE TypeOK'
    BY <2>1 DEF GC_suspend_all
  <2>2. ASSUME NEW t \in Thread, SendRestart(t) PROVE TypeOK'
    BY <2>2 DEF SendRestart
  <2>3. CASE RaiseFlag \/ PollTimesOut
    <3>1. Others \subseteq Thread
      BY DEF Others
    <3>2. todo' = Others /\ n_sent' = 0
      BY <2>3 DEF RaiseFlag, PollTimesOut
    <3>3. CASE RaiseFlag
      BY <3>1, <3>2, <3>3 DEF RaiseFlag
    <3>4. CASE PollTimesOut
      BY <3>1, <3>2, <3>4 DEF PollTimesOut
    <3> QED
      BY <2>3, <3>3, <3>4
  <2>4. CASE AllSent \/ PollSucceeds
    BY <2>4 DEF AllSent, PollSucceeds
  <2>5. CASE AllResent
    BY <2>5 DEF AllResent
  <2>6. CASE SemWait
    BY <2>6 DEF SemWait
  <2>7. CASE WorldStopped \/ Unlock
    BY <2>7 DEF WorldStopped, Unlock
  <2>8. CASE GC_start_world
    BY <2>8 DEF GC_start_world, Others
  <2> QED
    BY <1>5, <2>1, <2>2, <2>3, <2>4, <2>5, <2>6, <2>7, <2>8 DEF StopperStep
<1> QED
  BY <1>1, <1>2, <1>3, <1>4, <1>5 DEF Next

------------------------------------------------------------------------------
(* Each step preserves the invariant.                                      *)

\* While nobody holds the lock the threads change the table and their own
\* records.
LEMMA ProgramStepInv ==
  ASSUME IInv, TypeOK', NEW t \in Thread, ThreadStep(t), ~GC_stop_world(t)
  PROVE  IInv'
<1>1. stage = "none" /\ stage' = "none" /\ lock = None /\ lock' = None /\ todo = {} /\ todo' = {}
  BY DEF ThreadStep, Register, Unregister, DoBlocking, BlockingDone, GcActive, GcActiveDone,
         Program, CanLock, IInv, Holder, stopVars
<1>2. handler[t] = "none" /\ UNCHANGED <<handler, my_stop_count, stopVars, GC_suspend_ack_sem>>
  BY DEF ThreadStep, Register, Unregister, DoBlocking, BlockingDone, GcActive, GcActiveDone,
         Program, CanLock
<1>3. \A u \in Thread : /\ "SUSPEND" \notin pending'[u]
                        /\ last_stop_count'[u] <= GC_stop_count'
                        /\ handler[u] # "none" => last_stop_count'[u] = last_stop_count[u]
  BY <1>1, <1>2 DEF ThreadStep, Register, Unregister, DoBlocking, BlockingDone, GcActive,
         GcActiveDone, IInv, SignalOK, RecordOK, Stopping, TypeOK, stopVars
<1>4. \A u \in Thread \ {t} : /\ GC_threads'[u] = GC_threads[u]
                              /\ thread_blocked'[u] = thread_blocked[u]
                              /\ nested'[u] = nested[u]
                              /\ stack_ptr_ok'[u] = stack_ptr_ok[u]
                              /\ saved_stack_ptr_ok'[u] = saved_stack_ptr_ok[u]
  BY DEF ThreadStep, Register, Unregister, DoBlocking, BlockingDone, GcActive, GcActiveDone,
         IInv, TypeOK
<1>5. Holder'
  BY <1>1, <1>2 DEF IInv, Holder, Raised, Stopping, stopVars
<1>6. Counts'
  BY <1>1, <1>2 DEF IInv, Counts
<1>7. \A u \in Thread : SignalOK(u)' /\ RecordOK(u)'
  BY <1>1, <1>2, <1>3 DEF IInv, SignalOK, RecordOK, Raised, Stopping, stopVars, Prologue
<1>8. \A u \in Thread : HandlerOK(u)'
  BY <1>1, <1>2, <1>4 DEF IInv, HandlerOK, Raised, Stopping, stopVars
<1>9. BlockedOK(t)'
  <2>1. CASE Register(t) \/ Unregister(t)
    BY <2>1 DEF Register, Unregister, IInv, BlockedOK, TypeOK
  <2>2. CASE DoBlocking(t) \/ BlockingDone(t)
    BY <2>2 DEF DoBlocking, BlockingDone, IInv, BlockedOK, TypeOK
  <2>3. CASE GcActive(t) \/ GcActiveDone(t)
    BY <2>3 DEF GcActive, GcActiveDone, IInv, BlockedOK, TypeOK
  <2> QED
    BY <2>1, <2>2, <2>3 DEF ThreadStep
<1>10. \A u \in Thread : BlockedOK(u)'
  BY <1>4, <1>9 DEF IInv, BlockedOK
<1> QED
  BY <1>5, <1>6, <1>7, <1>8, <1>10 DEF IInv

\* A stop begins: what was recorded or acknowledged belongs to earlier stops.
LEMMA StopBeginsInv ==
  ASSUME IInv, TypeOK', NEW t \in Thread, GC_stop_world(t)
  PROVE  IInv'
<1>1. stage = "none" /\ stage' = "counted" /\ lock = None /\ lock' = t /\ todo = {} /\ todo' = {}
  BY DEF GC_stop_world, CanLock, IInv, Holder
<1>2. GC_stop_count' = GC_stop_count + 1
      /\ UNCHANGED <<threadVars, handlerVars, stack_ptr_ok, pending, GC_world_is_stopped,
                     GC_suspend_ack_sem, GC_retry_signals>>
  BY DEF GC_stop_world
<1>3. Holder'
  <2>1. lock' # None
    BY <1>1, ConstantsAssumption DEF ConstantsAssumption
  <2>2. GC_threads'[t] = "live" /\ ~thread_blocked'[t] /\ handler'[t] = "none"
    BY <1>2 DEF GC_stop_world, CanLock, threadVars, handlerVars
  <2>3. ~GC_world_is_stopped'
    BY <1>1, <1>2 DEF IInv, Holder, Raised, Stopping
  <2> QED
    BY <1>1, <2>1, <2>2, <2>3 DEF Holder, Raised, Stopping
<1>4. Counts'
  BY <1>1, <1>2 DEF IInv, Counts
<1>5. \A u \in Thread : SignalOK(u)' /\ RecordOK(u)'
  BY <1>1, <1>2 DEF IInv, SignalOK, RecordOK, Raised, Stopping, Prologue, handlerVars, TypeOK
<1>6. \A u \in Thread : HandlerOK(u)' /\ BlockedOK(u)'
  BY <1>1, <1>2 DEF IInv, HandlerOK, BlockedOK, Raised, Stopping, handlerVars, threadVars, TypeOK
<1> QED
  BY <1>3, <1>4, <1>5, <1>6 DEF IInv

\* A step in the handlers of t, or one that a signal of the program causes there.
Handles(t) == HandlerStep(t) \/ UserSignal(t)

\* The steps of a handler leave the stop under way alone.
LEMMA HandlerStepHolder ==
  ASSUME IInv, NEW t \in Thread, Handles(t)
  PROVE  /\ Holder'
         /\ Others' = Others
         /\ UNCHANGED <<threadVars, stopVars>>
         /\ \A u \in Thread \ {t} : /\ handler'[u] = handler[u]
                                     /\ last_stop_count'[u] = last_stop_count[u]
                                     /\ my_stop_count'[u] = my_stop_count[u]
                                     /\ stack_ptr_ok'[u] = stack_ptr_ok[u]
                                     /\ pending'[u] = pending[u]
         /\ t # lock \/ handler'[t] = "none"
<1>1. UNCHANGED <<threadVars, stopVars>>
  BY DEF Handles, HandlerStep, SuspendHandler, SemPost, RecordStop, SigSuspendReturns, UserSignal, TestFlag,
         TestCount, RestartHandler, HandlerOnly
<1>2. Others' = Others
  BY <1>1, OthersSame DEF threadVars, stopVars
<1>3. t # lock \/ handler'[t] = "none"
  <2> SUFFICES ASSUME t = lock PROVE handler'[t] = "none"
    OBVIOUS
  <2>1. handler[t] = "none" /\ "SUSPEND" \notin pending[t]
    BY ConstantsAssumption DEF IInv, Holder, SignalOK, Others, ConstantsAssumption
  <2> QED
    BY <2>1 DEF Handles, HandlerStep, SuspendHandler, SemPost, RecordStop, SigSuspendReturns, UserSignal, TestFlag,
         TestCount, RestartHandler, handlerVars
<1>4. \A u \in Thread \ {t} : /\ handler'[u] = handler[u]
                              /\ last_stop_count'[u] = last_stop_count[u]
                              /\ my_stop_count'[u] = my_stop_count[u]
                              /\ stack_ptr_ok'[u] = stack_ptr_ok[u]
                              /\ pending'[u] = pending[u]
  BY DEF Handles, HandlerStep, SuspendHandler, SemPost, RecordStop, SigSuspendReturns, UserSignal, TestFlag,
         TestCount, RestartHandler, Leave, handlerVars, IInv, TypeOK
<1>5. Holder'
  BY <1>1, <1>2, <1>3, <1>4 DEF IInv, Holder, threadVars, stopVars, TypeOK
<1> QED
  BY <1>1, <1>2, <1>3, <1>4, <1>5

\* What a handler does is about its own thread and the semaphore.
LEMMA HandlerFrame ==
  ASSUME IInv, TypeOK', NEW t \in Thread, Handles(t),
         SignalOK(t)', HandlerOK(t)', RecordOK(t)', BlockedOK(t)', Counts'
  PROVE  IInv'
<1> USE HandlerStepHolder DEF IInv, threadVars, stopVars
<1>1. \A u \in Thread \ {t} : SignalOK(u)'
  BY DEF SignalOK
<1>2. \A u \in Thread \ {t} : HandlerOK(u)'
  BY DEF HandlerOK
<1>3. \A u \in Thread \ {t} : RecordOK(u)'
  BY DEF RecordOK
<1>4. \A u \in Thread \ {t} : BlockedOK(u)'
  BY DEF BlockedOK
<1> QED
  BY <1>1, <1>2, <1>3, <1>4

\* A step of a handler that acknowledges nothing leaves the counts alone.
LEMMA CountsSame ==
  ASSUME IInv, NEW t \in Thread, Handles(t), GC_suspend_ack_sem' = GC_suspend_ack_sem,
         stage \in Raised => Acked' = Acked
  PROVE  Counts'
  BY HandlerStepHolder DEF IInv, Counts, Raised, Stopping, stopVars

LEMMA SuspendHandlerInv ==
  ASSUME IInv, TypeOK', NEW t \in Thread, SuspendHandler(t)
  PROVE  IInv'
<1>1. Handles(t) /\ GC_suspend_ack_sem' = GC_suspend_ack_sem /\ UNCHANGED last_stop_count
  BY DEF SuspendHandler, Handles, HandlerStep
<1> USE <1>1, HandlerStepHolder
<1>2. /\ stage \in Stopping /\ t \in Others /\ last_stop_count[t] < GC_stop_count
      /\ stage = "suspending" => t \notin todo
      /\ handler[t] = "none"
      /\ last_stop_count[t] # GC_stop_count
  BY DEF IInv, SignalOK, SuspendHandler, TypeOK
<1>3. /\ handler'[t] = "saved" /\ my_stop_count'[t] = GC_stop_count /\ stack_ptr_ok'[t] = TRUE
      /\ pending'[t] = pending[t] \ {"SUSPEND"}
  BY <1>2 DEF SuspendHandler, IInv, TypeOK
<1>4. Acked' = Acked
  BY <1>2, <1>3 DEF Acked, Waiting, stopVars
<1>5. SignalOK(t)' /\ RecordOK(t)'
  BY <1>2, <1>3 DEF IInv, TypeOK, SignalOK, RecordOK, Stopping, Raised, Prologue, stopVars
<1>6. HandlerOK(t)'
  BY <1>2, <1>3 DEF HandlerOK, Stopping, Raised, stopVars, threadVars, Others, TakesPart, IInv, TypeOK
<1>7. BlockedOK(t)'
  BY <1>2, <1>3 DEF BlockedOK, threadVars, IInv
<1> QED
  BY <1>4, <1>5, <1>6, <1>7, CountsSame, HandlerFrame

LEMMA SemPostInv ==
  ASSUME IInv, TypeOK', NEW t \in Thread, SemPost(t)
  PROVE  IInv'
<1>1. Handles(t) /\ UNCHANGED <<last_stop_count, my_stop_count, stack_ptr_ok, pending>>
  BY DEF SemPost, Handles, HandlerStep
<1> USE <1>1, HandlerStepHolder
<1>2. /\ handler[t] = "saved" /\ my_stop_count[t] = GC_stop_count /\ stage \in Stopping
      /\ handler'[t] = "posted" /\ GC_suspend_ack_sem' = GC_suspend_ack_sem + 1
  BY DEF SemPost, IInv, HandlerOK, TypeOK
<1>3. Counts'
  <2>1. Acked' = Acked \cup {t} /\ t \notin Acked
    BY <1>2 DEF Acked, Waiting, stopVars
  <2>2. Cardinality(Acked') = Cardinality(Acked) + 1
    BY <2>1, SetsFinite, ConstantsAssumption, FS_AddElement
  <2>3. stage = "resending" => n_sent >= Cardinality((Others \ todo) \ Acked')
    <3>1. (Others \ todo) \ Acked' \subseteq (Others \ todo) \ Acked
      BY <2>1
    <3>2. Cardinality((Others \ todo) \ Acked') <= Cardinality((Others \ todo) \ Acked)
      BY <3>1, SetsFinite, ConstantsAssumption, FS_Subset
    <3>3. /\ Cardinality((Others \ todo) \ Acked) \in Nat
          /\ Cardinality((Others \ todo) \ Acked') \in Nat
      BY <3>1, SetsFinite, ConstantsAssumption, FS_CardinalityType, FS_Subset
    <3> QED
      BY <3>2, <3>3 DEF IInv, Counts, TypeOK
  <2>4. Cardinality(Acked) \in Nat
    BY SetsFinite, ConstantsAssumption, FS_CardinalityType
  <2>5. stage \in {"suspending", "polling", "resending"}
          => GC_suspend_ack_sem' = Cardinality(Acked')
    BY <1>2, <2>2 DEF IInv, Counts
  <2>6. stage = "waiting" => GC_suspend_ack_sem' + acked = Cardinality(Acked')
    BY <1>2, <2>2, <2>4 DEF IInv, Counts, TypeOK
  <2> QED
    BY <1>2, <2>3, <2>5, <2>6 DEF IInv, Counts, stopVars, Stopping
<1>4. SignalOK(t)' /\ RecordOK(t)'
  BY <1>2 DEF IInv, SignalOK, RecordOK, Stopping, Raised, Prologue, stopVars
<1>5. HandlerOK(t)' /\ BlockedOK(t)'
  BY <1>2 DEF IInv, HandlerOK, BlockedOK, Stopping, Raised, stopVars, threadVars
<1> QED
  BY <1>3, <1>4, <1>5, HandlerFrame

LEMMA RecordStopInv ==
  ASSUME IInv, TypeOK', NEW t \in Thread, RecordStop(t)
  PROVE  IInv'
<1>1. Handles(t) /\ UNCHANGED <<my_stop_count, stack_ptr_ok, pending, GC_suspend_ack_sem>>
  BY DEF RecordStop, Handles, HandlerStep
<1> USE <1>1, HandlerStepHolder
<1>2. /\ handler[t] = "posted" /\ handler'[t] = "suspended"
      /\ last_stop_count'[t] = my_stop_count[t]
      /\ my_stop_count[t] <= GC_stop_count
  BY DEF RecordStop, IInv, HandlerOK, TypeOK
<1>3. Acked' = Acked
  BY <1>2 DEF Acked, Waiting, stopVars
<1>4. SignalOK(t)' /\ RecordOK(t)'
  BY <1>2 DEF IInv, SignalOK, RecordOK, HandlerOK, Stopping, Raised, Prologue, stopVars, TypeOK
<1>5. HandlerOK(t)' /\ BlockedOK(t)'
  BY <1>2 DEF IInv, HandlerOK, BlockedOK, Stopping, Raised, stopVars, threadVars
<1> QED
  BY <1>3, <1>4, <1>5, CountsSame, HandlerFrame

\* Waking up and looking at the flag change nothing that the stop relies upon.
LEMMA WakeInv ==
  ASSUME IInv, TypeOK', NEW t \in Thread,
         \/ SigSuspendReturns(t) \/ UserSignal(t)
         \/ TestFlag(t) /\ GC_world_is_stopped
         \/ TestCount(t) /\ GC_stop_count = my_stop_count[t]
  PROVE  IInv'
<1>1. Handles(t) /\ UNCHANGED <<last_stop_count, my_stop_count, stack_ptr_ok, GC_suspend_ack_sem>>
  BY DEF SigSuspendReturns, UserSignal, TestFlag, TestCount, Handles, HandlerStep
<1> USE <1>1, HandlerStepHolder
<1>2. /\ handler[t] \in {"suspended", "woken", "flag_seen"}
      /\ handler'[t] \in {"suspended", "woken", "flag_seen"}
      /\ pending'[t] \subseteq pending[t]
  BY DEF SigSuspendReturns, UserSignal, TestFlag, TestCount, IInv, TypeOK
<1>3. Acked' = Acked
  BY <1>2 DEF Acked, Waiting, stopVars
<1>4. SignalOK(t)' /\ RecordOK(t)'
  BY <1>2 DEF IInv, SignalOK, RecordOK, Stopping, Raised, Prologue, stopVars
<1>5. HandlerOK(t)' /\ BlockedOK(t)'
  BY <1>2 DEF IInv, HandlerOK, BlockedOK, Stopping, Raised, stopVars, threadVars
<1> QED
  BY <1>3, <1>4, <1>5, CountsSame, HandlerFrame

\* A thread leaves the handler only when its stop is over.
LEMMA LeaveInv ==
  ASSUME IInv, TypeOK', NEW t \in Thread,
         \/ TestFlag(t) /\ ~GC_world_is_stopped
         \/ TestCount(t) /\ GC_stop_count # my_stop_count[t]
  PROVE  IInv'
<1>1. /\ Handles(t) /\ UNCHANGED <<last_stop_count, pending, GC_suspend_ack_sem>>
      /\ handler[t] \in {"woken", "flag_seen"} /\ handler'[t] = "none"
      /\ my_stop_count'[t] = 0
  BY DEF TestFlag, TestCount, Handles, HandlerStep, Leave, IInv, TypeOK
<1> USE <1>1, HandlerStepHolder
<1>2. stage \in Raised => my_stop_count[t] # GC_stop_count
  BY DEF TestFlag, TestCount, IInv, Holder
<1>3. stage \in Raised => Acked' = Acked
  BY <1>2 DEF Acked, Waiting, stopVars
<1>4. SignalOK(t)' /\ RecordOK(t)'
  BY <1>2 DEF IInv, SignalOK, RecordOK, Stopping, Raised, Prologue, stopVars
<1>5. HandlerOK(t)'
  BY DEF HandlerOK
<1>6. BlockedOK(t)'
  BY DEF IInv, BlockedOK, HandlerOK, threadVars
<1> QED
  BY <1>3, <1>4, <1>5, <1>6, CountsSame, HandlerFrame

LEMMA RestartHandlerInv ==
  ASSUME IInv, TypeOK', NEW t \in Thread, RestartHandler(t)
  PROVE  IInv'
<1>1. /\ Handles(t) /\ UNCHANGED <<handlerVars, stack_ptr_ok, GC_suspend_ack_sem>>
      /\ pending'[t] \subseteq pending[t]
  BY DEF RestartHandler, Handles, HandlerStep, IInv, TypeOK
<1> USE <1>1, HandlerStepHolder
<1>2. Acked' = Acked
  BY AckedSame DEF stopVars
<1>3. SignalOK(t)' /\ RecordOK(t)'
  BY DEF IInv, SignalOK, RecordOK, stopVars, handlerVars
<1>4. HandlerOK(t)' /\ BlockedOK(t)'
  BY DEF IInv, HandlerOK, BlockedOK, stopVars, threadVars, handlerVars
<1> QED
  BY <1>2, <1>3, <1>4, CountsSame, HandlerFrame

\* The steps of the stopping thread change no handler and no record.
LEMMA StopperFrame ==
  ASSUME IInv, StopperStep
  PROVE  /\ UNCHANGED <<threadVars, handlerVars, stack_ptr_ok, GC_retry_signals, GC_stop_count>>
         /\ handler[lock] = "none"
         /\ Acked' = Acked
         /\ \A t \in Thread : BlockedOK(t)'
<1>1. /\ UNCHANGED <<threadVars, handlerVars, stack_ptr_ok, GC_retry_signals, GC_stop_count>>
      /\ handler[lock] = "none"
  BY DEF StopperStep, RaiseFlag, GC_suspend_all, AllSent, PollSucceeds, PollTimesOut, AllResent,
         SemWait, WorldStopped, GC_start_world, SendRestart, Unlock, Stopper
<1>2. Acked' = Acked
  BY <1>1, AckedSame
<1>3. \A t \in Thread : BlockedOK(t)'
  BY <1>1 DEF IInv, BlockedOK, threadVars
<1> QED
  BY <1>1, <1>2, <1>3

LEMMA RaiseFlagInv ==
  ASSUME IInv, TypeOK', RaiseFlag PROVE IInv'
<1>1. StopperStep
  BY DEF StopperStep
<1> USE <1>1, StopperFrame
<1>2. /\ stage = "counted" /\ stage' = "suspending" /\ GC_world_is_stopped' = TRUE
      /\ todo' = Others /\ n_sent' = 0
      /\ UNCHANGED <<lock, pending, GC_suspend_ack_sem>>
  BY DEF RaiseFlag, Stopper
<1>3. Others' = Others
  BY <1>2, OthersSame DEF threadVars
<1>4. Acked = {} /\ Cardinality(Acked) = 0
  <2>1. Acked = {}
    BY <1>2 DEF IInv, HandlerOK, Acked, Waiting, TypeOK
  <2> QED
    BY <2>1, FS_EmptySet
<1>5. Holder'
  BY <1>2, <1>3 DEF IInv, Holder, Raised, Stopping, threadVars, handlerVars
<1>6. Counts'
  <2>1. Cardinality(Others' \ todo') = 0
    BY <1>2, <1>3, FS_EmptySet
  <2> QED
    BY <1>2, <1>4, <2>1 DEF IInv, Counts
<1>7. \A t \in Thread : SignalOK(t)' /\ HandlerOK(t)' /\ RecordOK(t)'
  BY <1>2 DEF IInv, SignalOK, HandlerOK, RecordOK, Stopping, Raised, threadVars, handlerVars, TypeOK
<1> QED
  BY <1>5, <1>6, <1>7 DEF IInv

\* A thread that is visited has not recorded the stop in the first pass; in a
\* resend it has not, or it has acknowledged.
LEMMA SuspendAllInv ==
  ASSUME IInv, TypeOK', NoEarlyResend, NEW t \in Thread, GC_suspend_all(t) PROVE IInv'
<1>1. StopperStep
  BY DEF StopperStep
<1> USE <1>1, StopperFrame
<1>2. /\ stage \in {"suspending", "resending"} /\ t \in todo /\ todo' = todo \ {t}
      /\ UNCHANGED <<lock, stage, n_live_threads, acked, GC_world_is_stopped, GC_suspend_ack_sem>>
  BY DEF GC_suspend_all, Stopper
<1>3. t \in Others /\ Others' = Others
  BY <1>2, OthersSame DEF threadVars, IInv, Holder
<1>4. stage = "suspending" => last_stop_count[t] < GC_stop_count
  BY <1>2 DEF IInv, RecordOK, HandlerOK, Raised, Stopping, TypeOK
<1>5. handler[t] = "none" \/ my_stop_count[t] < GC_stop_count \/ last_stop_count[t] = GC_stop_count
  <2>1. CASE stage = "suspending"
    BY <1>2, <2>1 DEF IInv, HandlerOK, Raised, Stopping, TypeOK
  <2>2. CASE stage = "resending"
    <3>1. Timely
      BY <2>2 DEF IInv, Holder, TypeOK, NoEarlyResend
    <3>2. handler[t] \notin Prologue
      BY <2>2, <3>1 DEF GC_suspend_all, Stopper
    <3> QED
      BY <3>2 DEF IInv, TypeOK, HandlerOK, RecordOK, Waiting, Prologue
  <2> QED
    BY <1>2, <2>1, <2>2
<1>6. Holder'
  BY <1>2, <1>3 DEF IInv, Holder, threadVars, handlerVars
<1>7. CASE last_stop_count[t] = GC_stop_count
  <2>1. UNCHANGED <<pending, n_sent>> /\ stage = "resending"
    BY <1>2, <1>4, <1>7 DEF GC_suspend_all, IInv, TypeOK
  <2>2. t \in Acked
    BY <1>2, <1>7 DEF IInv, RecordOK, Acked, Raised, Stopping, Waiting
  <2>3. (Others \ todo') \ Acked = (Others \ todo) \ Acked
    BY <1>2, <2>2
  <2>4. Counts'
    BY <1>2, <1>3, <2>1, <2>3 DEF IInv, Counts
  <2>5. \A u \in Thread : SignalOK(u)' /\ HandlerOK(u)' /\ RecordOK(u)'
    BY <1>2, <1>3, <2>1 DEF IInv, SignalOK, HandlerOK, RecordOK, threadVars, handlerVars
  <2> QED
    BY <1>6, <2>4, <2>5 DEF IInv
<1>8. CASE last_stop_count[t] # GC_stop_count
  <2>1. /\ n_sent' = n_sent + 1
        /\ \A u \in Thread \ {t} : pending'[u] = pending[u]
    BY <1>8 DEF GC_suspend_all, IInv, TypeOK
  <2>2. stage = "suspending" => n_sent' = Cardinality(Others \ todo')
    <3>1. Others \ todo' = (Others \ todo) \cup {t} /\ t \notin Others \ todo
      BY <1>2, <1>3
    <3>2. Cardinality(Others \ todo') = Cardinality(Others \ todo) + 1
      BY <3>1, SetsFinite, ConstantsAssumption, FS_AddElement
    <3> QED
      BY <2>1, <3>2 DEF IInv, Counts
  <2>3. stage = "resending" => n_sent' >= Cardinality((Others \ todo') \ Acked)
    <3> DEFINE Seen == (Others \ todo) \ Acked
    <3>1. (Others \ todo') \ Acked \subseteq Seen \cup {t}
      BY <1>2
    <3>2. IsFiniteSet(Seen) /\ IsFiniteSet(Seen \cup {t}) /\ Cardinality(Seen) \in Nat
      BY SetsFinite, ConstantsAssumption, FS_AddElement, FS_CardinalityType
    <3>3. Cardinality(Seen \cup {t}) <= Cardinality(Seen) + 1 /\ Cardinality(Seen \cup {t}) \in Nat
      BY <3>2, FS_AddElement, FS_CardinalityType
    <3>4. /\ Cardinality((Others \ todo') \ Acked) <= Cardinality(Seen \cup {t})
          /\ Cardinality((Others \ todo') \ Acked) \in Nat
      BY <3>1, <3>2, FS_Subset, FS_CardinalityType
    <3> QED
      BY <2>1, <3>2, <3>3, <3>4 DEF IInv, Counts, TypeOK
  <2>4. Counts'
    BY <1>2, <1>3, <2>2, <2>3 DEF IInv, Counts
  <2>5. SignalOK(t)'
    BY <1>2, <1>3, <1>5, <1>8 DEF IInv, SignalOK, RecordOK, Stopping, threadVars, handlerVars, TypeOK
  <2>6. \A u \in Thread \ {t} : SignalOK(u)'
    BY <1>2, <1>3, <2>1 DEF IInv, SignalOK, threadVars, handlerVars
  <2>7. \A u \in Thread : HandlerOK(u)' /\ RecordOK(u)'
    BY <1>2 DEF IInv, HandlerOK, RecordOK, threadVars, handlerVars
  <2> QED
    BY <1>6, <2>4, <2>5, <2>6, <2>7 DEF IInv
<1> QED
  BY <1>7, <1>8

LEMMA AllSentInv ==
  ASSUME IInv, TypeOK', AllSent PROVE IInv'
<1>1. StopperStep
  BY DEF StopperStep
<1> USE <1>1, StopperFrame
<1>2. /\ stage = "suspending" /\ todo = {} /\ todo' = {}
      /\ stage' = IF GC_retry_signals THEN "polling" ELSE "waiting"
      /\ n_live_threads' = n_sent /\ acked' = 0
      /\ UNCHANGED <<lock, pending, GC_suspend_ack_sem, GC_world_is_stopped>>
  BY DEF AllSent, Stopper
<1>3. Others' = Others /\ Others \ todo = Others
  BY <1>2, OthersSame DEF threadVars
<1>4. Holder'
  BY <1>2, <1>3 DEF IInv, Holder, Raised, Stopping, threadVars, handlerVars
<1>5. Counts'
  BY <1>2, <1>3 DEF IInv, Counts, TypeOK
<1>6. \A t \in Thread : SignalOK(t)' /\ HandlerOK(t)' /\ RecordOK(t)'
  BY <1>2, <1>3 DEF IInv, SignalOK, HandlerOK, RecordOK, Stopping, Raised, threadVars, handlerVars
<1> QED
  BY <1>4, <1>5, <1>6 DEF IInv

LEMMA PollInv ==
  ASSUME IInv, TypeOK', PollSucceeds \/ PollTimesOut PROVE IInv'
<1>1. StopperStep
  BY DEF StopperStep
<1> USE <1>1, StopperFrame
<1>2. /\ stage = "polling" /\ todo = {}
      /\ \/ stage' = "waiting" /\ todo' = {}
         \/ stage' = "resending" /\ todo' = Others /\ n_sent' = 0
      /\ UNCHANGED <<lock, pending, n_live_threads, acked, GC_suspend_ack_sem, GC_world_is_stopped>>
  BY DEF PollSucceeds, PollTimesOut, Stopper, IInv, Holder
<1>3. Others' = Others
  BY <1>2, OthersSame DEF threadVars
<1>4. Holder'
  BY <1>2, <1>3 DEF IInv, Holder, Raised, Stopping, threadVars, handlerVars
<1>5. Counts'
  <2>1. stage' = "resending" => Cardinality((Others' \ todo') \ Acked') = 0
    BY <1>2, <1>3, FS_EmptySet, (Others \ Others) \ Acked = {}
  <2> QED
    BY <1>2, <1>3, <2>1 DEF IInv, Counts, TypeOK
<1>6. \A t \in Thread : SignalOK(t)' /\ HandlerOK(t)' /\ RecordOK(t)'
  BY <1>2, <1>3 DEF IInv, SignalOK, HandlerOK, RecordOK, Stopping, Raised, threadVars, handlerVars
<1> QED
  BY <1>4, <1>5, <1>6 DEF IInv

\* A resend finds no thread lost: whoever it sent nothing to has acknowledged.
LEMMA AllResentInv ==
  ASSUME IInv, TypeOK', AllResent PROVE IInv'
<1>1. StopperStep
  BY DEF StopperStep
<1> USE <1>1, StopperFrame
<1>2. /\ stage = "resending" /\ stage' = "polling" /\ todo = {} /\ todo' = {}
      /\ n_live_threads' = IF n_sent < n_live_threads - GC_suspend_ack_sem
                           THEN GC_suspend_ack_sem + n_sent ELSE n_live_threads
      /\ UNCHANGED <<lock, pending, acked, GC_suspend_ack_sem, GC_world_is_stopped>>
  BY DEF AllResent, Stopper
<1>3. Others' = Others
  BY <1>2, OthersSame DEF threadVars
<1>4. Holder'
  BY <1>2, <1>3 DEF IInv, Holder, Raised, Stopping, threadVars, handlerVars
<1>5. n_live_threads' = n_live_threads
  <2>1. Cardinality(Others) = Cardinality(Others \ Acked) + Cardinality(Acked)
    <3>1. Others \cap Acked = Acked
      BY <1>2, AckedTakePart
    <3>2. Cardinality(Others \ Acked) = Cardinality(Others) - Cardinality(Acked)
      BY <3>1, SetsFinite, ConstantsAssumption, FS_Difference, ZenonT(40)
    <3>3. Cardinality(Others) \in Nat /\ Cardinality(Acked) \in Nat
      BY SetsFinite, ConstantsAssumption, FS_CardinalityType
    <3> QED
      BY <3>2, <3>3
  <2>2. n_sent >= Cardinality(Others \ Acked)
    BY <1>2, Others \ todo = Others DEF IInv, Counts
  <2>3. Cardinality(Others \ Acked) \in Nat /\ Cardinality(Acked) \in Nat
    BY SetsFinite, ConstantsAssumption, FS_CardinalityType, FS_Subset
  <2>4. n_live_threads = Cardinality(Others) /\ GC_suspend_ack_sem = Cardinality(Acked)
    BY <1>2 DEF IInv, Counts
  <2>5. n_live_threads - GC_suspend_ack_sem = Cardinality(Others \ Acked)
    BY <2>1, <2>3, <2>4
  <2>6. n_sent \in Nat
    BY DEF IInv, TypeOK
  <2> QED
    BY <1>2, <2>2, <2>3, <2>5, <2>6
<1>6. Counts'
  BY <1>2, <1>3, <1>5 DEF IInv, Counts
<1>7. \A t \in Thread : SignalOK(t)' /\ HandlerOK(t)' /\ RecordOK(t)'
  BY <1>2, <1>3 DEF IInv, SignalOK, HandlerOK, RecordOK, Stopping, Raised, threadVars, handlerVars
<1> QED
  BY <1>4, <1>6, <1>7 DEF IInv

LEMMA SemWaitInv ==
  ASSUME IInv, TypeOK', SemWait PROVE IInv'
<1>1. StopperStep
  BY DEF StopperStep
<1> USE <1>1, StopperFrame
<1>2. /\ stage = "waiting" /\ GC_suspend_ack_sem' = GC_suspend_ack_sem - 1 /\ acked' = acked + 1
      /\ UNCHANGED <<lock, stage, todo, pending, n_live_threads, GC_world_is_stopped>>
  BY DEF SemWait, Stopper
<1>3. Others' = Others
  BY <1>2, OthersSame DEF threadVars
<1>4. Holder'
  BY <1>2, <1>3 DEF IInv, Holder, Raised, Stopping, threadVars, handlerVars
<1>5. Counts'
  BY <1>2, <1>3 DEF IInv, Counts, TypeOK
<1>6. \A t \in Thread : SignalOK(t)' /\ HandlerOK(t)' /\ RecordOK(t)'
  BY <1>2, <1>3 DEF IInv, SignalOK, HandlerOK, RecordOK, threadVars, handlerVars
<1> QED
  BY <1>4, <1>5, <1>6 DEF IInv

\* As many acknowledgements as threads: everybody has acknowledged.
LEMMA WorldStoppedInv ==
  ASSUME IInv, TypeOK', WorldStopped PROVE IInv'
<1>1. StopperStep
  BY DEF StopperStep
<1> USE <1>1, StopperFrame
<1>2. /\ stage = "waiting" /\ stage' = "stopped" /\ acked >= n_live_threads
      /\ UNCHANGED <<lock, todo, pending, GC_suspend_ack_sem, GC_world_is_stopped>>
  BY DEF WorldStopped, Stopper
<1>3. Others' = Others
  BY <1>2, OthersSame DEF threadVars
<1>4. Acked = Others /\ GC_suspend_ack_sem = 0
  <2>1. Acked \subseteq Others /\ IsFiniteSet(Others)
    BY <1>2, AckedTakePart, SetsFinite, ConstantsAssumption
  <2>2. Cardinality(Acked) <= Cardinality(Others)
    BY <2>1, FS_Subset
  <2>3. /\ n_live_threads = Cardinality(Others) /\ n_live_threads \in Int
        /\ GC_suspend_ack_sem + acked = Cardinality(Acked)
        /\ acked \in Nat /\ GC_suspend_ack_sem \in Nat
    BY <1>2 DEF IInv, Counts, TypeOK
  <2>4. GC_suspend_ack_sem = 0 /\ Cardinality(Acked) = Cardinality(Others)
    BY <1>2, <2>2, <2>3
  <2> QED
    BY <2>1, <2>4, FS_Subset
<1>5. Holder'
  BY <1>2, <1>3 DEF IInv, Holder, Raised, Stopping, threadVars, handlerVars
<1>6. Counts'
  BY <1>2, <1>3, <1>4 DEF IInv, Counts
<1>7. \A t \in Thread : SignalOK(t)'
  <2>1. \A t \in Thread : "SUSPEND" \notin pending[t]
    BY <1>4 DEF IInv, TypeOK, SignalOK, Acked, Waiting
  <2> QED
    BY <1>2, <2>1 DEF SignalOK
<1>8. \A t \in Thread : HandlerOK(t)' /\ RecordOK(t)'
  <2>1. \A t \in Thread : handler[t] # "saved"
    BY <1>2, <1>4 DEF IInv, HandlerOK, Holder, Acked, Others, TakesPart, Waiting
  <2> QED
    BY <1>2, <2>1 DEF IInv, HandlerOK, RecordOK, Stopping, Raised, threadVars, handlerVars
<1> QED
  BY <1>5, <1>6, <1>7, <1>8 DEF IInv

\* Once the flag is down nothing is claimed of the threads any more.
LEMMA StartWorldInv ==
  ASSUME IInv, TypeOK', NEW t \in Thread, GC_start_world \/ SendRestart(t) \/ Unlock PROVE IInv'
<1>1. StopperStep
  BY DEF StopperStep
<1> USE <1>1, StopperFrame
<1>2. /\ stage \in {"stopped", "restarting"}
      /\ \/ stage' = "restarting" /\ lock' = lock
         \/ stage' = "none" /\ lock' = None /\ todo' = {}
      /\ GC_world_is_stopped' = FALSE
      /\ UNCHANGED GC_suspend_ack_sem
  BY DEF GC_start_world, SendRestart, Unlock, Stopper, IInv, Holder, Raised, Stopping, TypeOK
<1>3. todo' \subseteq Others'
  <2>1. CASE lock' = lock
    <3>1. Others' = Others
      BY <2>1, <1>2, OthersSame DEF threadVars
    <3> QED
      BY <1>2, <3>1 DEF GC_start_world, SendRestart, Unlock, IInv, Holder
  <2>2. CASE todo' = {}
    BY <2>2
  <2> QED
    BY <1>2, <2>1, <2>2
<1>4. \A u \in Thread : "SUSPEND" \notin pending'[u]
  BY <1>2 DEF GC_start_world, SendRestart, Unlock, IInv, SignalOK, Stopping, TypeOK
<1>5. Holder'
  <2>1. lock # None
    BY <1>2 DEF IInv, Holder
  <2> QED
    BY <1>2, <1>3, <2>1 DEF IInv, Holder, Raised, Stopping, threadVars, handlerVars
<1>6. Counts'
  BY <1>2 DEF IInv, Counts
<1>7. \A u \in Thread : SignalOK(u)' /\ HandlerOK(u)' /\ RecordOK(u)'
  BY <1>2, <1>4 DEF IInv, SignalOK, HandlerOK, RecordOK, Stopping, Raised, threadVars, handlerVars
<1> QED
  BY <1>5, <1>6, <1>7 DEF IInv

------------------------------------------------------------------------------
LEMMA InitInv == Init => IInv
<1> SUFFICES ASSUME Init PROVE IInv
  OBVIOUS
<1>1. TypeOK
  <2>1. GC_threads \in [Thread -> {"absent", "live", "finished"}]
    BY DEF Init
  <2>2. pending \in [Thread -> SUBSET Signals]
    BY DEF Init
  <2>3. handler \in [Thread -> {"none", "saved"} \cup Waiting]
    BY DEF Init
  <2>4. /\ thread_blocked \in [Thread -> BOOLEAN] /\ nested \in [Thread -> BOOLEAN]
        /\ stack_ptr_ok \in [Thread -> BOOLEAN] /\ saved_stack_ptr_ok \in [Thread -> BOOLEAN]
    BY DEF Init
  <2>5. last_stop_count \in [Thread -> Nat] /\ my_stop_count \in [Thread -> Nat]
    BY DEF Init
  <2>6. /\ lock \in Thread \cup {None} /\ stage \in Stages /\ todo \subseteq Thread
        /\ n_sent \in Nat /\ n_live_threads \in Int /\ acked \in Nat
        /\ GC_stop_count \in Nat /\ GC_suspend_ack_sem \in Nat /\ lost \in Nat
    BY DEF Init, Stages
  <2>7. GC_world_is_stopped \in BOOLEAN
    BY Zenon DEF Init
  <2>8. GC_retry_signals \in RetryChoices
    BY Zenon DEF Init
  <2> QED
    BY <2>1, <2>2, <2>3, <2>4, <2>5, <2>6, <2>7, <2>8 DEF TypeOK
<1>2. Holder
  BY DEF Init, Holder, Raised, Stopping
<1>3. Counts
  BY DEF Init, Counts
<1>4. \A t \in Thread : SignalOK(t) /\ HandlerOK(t) /\ RecordOK(t) /\ BlockedOK(t)
  BY DEF Init, SignalOK, HandlerOK, RecordOK, BlockedOK, Raised, Stopping, Prologue
<1> QED
  BY <1>1, <1>2, <1>3, <1>4 DEF IInv

LEMMA NextInv ==
  ASSUME NoEarlyResend PROVE IInv /\ [Next]_vars => IInv'
<1> SUFFICES ASSUME IInv, [Next]_vars PROVE IInv'
  OBVIOUS
<1>1. TypeOK'
  BY TypeOKStep DEF IInv
<1>2. CASE UNCHANGED vars
  BY <1>1, <1>2 DEF vars, threadVars, handlerVars, stopVars, IInv, Holder, Counts, SignalOK,
         HandlerOK, RecordOK, BlockedOK, Acked, Others, TakesPart
<1>3. ASSUME NEW t \in Thread, ThreadStep(t) PROVE IInv'
  BY <1>1, <1>3, ProgramStepInv, StopBeginsInv
<1>4. ASSUME NEW t \in Thread, Handles(t) PROVE IInv'
  BY <1>1, <1>4, SuspendHandlerInv, SemPostInv, RecordStopInv, WakeInv, LeaveInv,
     RestartHandlerInv DEF Handles, HandlerStep
<1>5. ASSUME StopperStep PROVE IInv'
  <2>1. PICK t \in Thread : TRUE
    BY <1>5 DEF StopperStep, IInv, Holder, TypeOK, RaiseFlag, AllSent, PollSucceeds, PollTimesOut,
           AllResent, SemWait, WorldStopped, GC_start_world, Unlock, Stopper
  <2> QED
    BY <1>1, <1>5, <2>1, RaiseFlagInv, SuspendAllInv, AllSentInv, PollInv, AllResentInv, SemWaitInv,
       WorldStoppedInv, StartWorldInv DEF StopperStep
<1> QED
  BY <1>2, <1>3, <1>4, <1>5 DEF Next, Handles

\* Type correctness holds whatever signals are sent again.
THEOREM TypeCorrect == Spec => []TypeOK
<1>1. Init => TypeOK
  BY InitInv DEF IInv
<1> QED
  BY <1>1, TypeOKStep, PTL DEF Spec

\* The invariant of every run in which no resend meets a handler's prologue.
THEOREM Invariant ==
  ASSUME NoEarlyResend PROVE Spec => []IInv
  BY InitInv, NextInv, PTL DEF Spec

\* When GC_stop_world returns, all other threads are blocked or suspended with
\* their stack pointers saved.
THEOREM WorldIsStopped ==
  ASSUME NoEarlyResend PROVE Spec => []StoppedMeansStopped
<1>1. IInv => StoppedMeansStopped
  <2> SUFFICES ASSUME IInv, stage = "stopped", NEW t \in Thread \ {lock}, GC_threads[t] = "live"
               PROVE  /\ handler[lock] = "none"
                      /\ thread_blocked[t] \/ handler[t] \in Waiting
                      /\ stack_ptr_ok[t]
    BY DEF StoppedMeansStopped, IInv, Holder
  <2>1. thread_blocked[t] \/ t \in Acked
    BY DEF IInv, Counts, Others, TakesPart
  <2> QED
    BY <2>1 DEF IInv, Holder, BlockedOK, HandlerOK, Acked, Raised, Waiting
<1> QED
  BY <1>1, Invariant, PTL

\* No suspend signal is pending outside the stop it was sent for, or to a thread
\* that does not take part in it.
THEOREM SignalsStay ==
  ASSUME NoEarlyResend PROVE Spec => []SuspendStaysInItsStop
<1>1. IInv => SuspendStaysInItsStop
  BY DEF IInv, SignalOK, SuspendStaysInItsStop, Stopping, Others, TakesPart
<1> QED
  BY <1>1, Invariant, PTL

\* The semaphore is zero between stops and never above what a stop waits for.
THEOREM AcknowledgementsBalance ==
  ASSUME NoEarlyResend PROVE Spec => []AcksBalanced
<1>1. IInv => AcksBalanced
  <2> SUFFICES ASSUME IInv, stage = "waiting" PROVE GC_suspend_ack_sem + acked <= n_live_threads
    BY DEF IInv, Counts, AcksBalanced
  <2>1. Cardinality(Acked) <= Cardinality(Others)
    BY AckedTakePart, SetsFinite, ConstantsAssumption, FS_Subset
  <2> QED
    BY <2>1 DEF IInv, Counts
<1> QED
  BY <1>1, Invariant, PTL
=============================================================================
