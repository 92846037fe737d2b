------------------------------- MODULE Rollouter -------------------------------
(***************************************************************************)
(* FullyAsyncRollouter: the coroutines of one event loop that take samples *)
(* from the pending queue, generate them concurrently and send the results *)
(* to the MessageQueue, and the calls by which a parameter synchronisation *)
(* pauses them, updates the version and resumes them.                      *)
(*                                                                         *)
(* The coroutine at the head of ready has the event loop until it really   *)
(* waits.  Taking a free asyncio.Lock, an item of a non-empty queue or the *)
(* result of a finished task is no wait.  What it wakes goes to the end of *)
(* ready, as do answers and calls from outside, at any time.  A call of    *)
(* the MessageQueue is sent in one step, run by that actor in another, and *)
(* answered in a third.                                                    *)
(***************************************************************************)
EXTENDS MessageQueue, FiniteSets, FiniteSetsExt, SequencesExt

CONSTANTS
  Total,       \* total_rollout_steps: the samples are 1..Total, Total + 1 is "DONE"
  PendingCap,  \* maxsize of pending_queue
  Configs,     \* the configurations covered
  Failures,    \* bound: how many generations may raise
  Nobody       \* the holder of a free lock

Samples == 1..Total

\* The workers of fit() and the calls of the parameter synchroniser.
Coroutines == {"feed", "proc", "consumer", "main", "monitor", "pause", "update", "resume"}

ASSUME RollouterAssumption ==
  /\ Total \in Nat \ {0} /\ PendingCap \in Nat \ {0} /\ Failures \in Nat
  /\ \A c \in Configs :
       /\ c.partial \in BOOLEAN /\ c.required \in Nat \ {0} /\ c.triggerStep \in Nat \ {0}
       /\ c.maxRequired \in Nat /\ c.maxRequired >= c.required * c.triggerStep
       /\ c.concurrent \in 1..c.maxRequired /\ c.testFreq \in Nat
  /\ Nobody \notin Coroutines /\ Finish \notin Samples

VARIABLES
  conf,          \* the configuration of this run
  at,            \* where every coroutine is
  ready, due,    \* the event loop's coroutines that can run; the samples of its "task"s
  lock, waiters, \* self.lock: its holder, and who waits for it, in order
  paused, trigger, \* self.paused, self.monitor_loop_trigger
  staleness,     \* self.staleness_samples
  counted,       \* what update_param_version will assign to it
  rversion,      \* self.current_param_version
  fed, taken,    \* samples put into and taken from pending_queue so far
  hand, loop,    \* the processor's rollout_sample (0: none), the waiting loop it is in
  bound,         \* done_tasks has been assigned in this call of the processor
  gen,           \* what the task of a sample is doing
  finished, raised, \* tasks of active_tasks that have returned, that have raised
  failed,        \* samples whose generation has raised
  cancelq, resultq, \* cancel_queue, result_queue
  transit,       \* put_sample calls that the MessageQueue has not run yet
  serverPaused,  \* the inference servers cancel their requests (partial rollout)
  stamp          \* version with which a sample was last sent

sched == <<at, ready, due, lock, waiters>>
flags == <<paused, trigger>>
counting == <<staleness, counted, rversion>>
picking == <<fed, taken, hand, loop>>
tasks == <<bound, gen, finished, raised, failed, stamp>>
queues == <<cancelq, resultq, transit>>
rVars == <<sched, flags, counting, picking, tasks, queues, serverPaused>>

Busy == {s \in Samples : gen[s] # "none"}

\* len(self.active_tasks): finished tasks stay in it until somebody waits for them.
Active == Cardinality(Busy) + finished + raised

RInit ==
  /\ conf \in Configs
  /\ at = [feed |-> "on", proc |-> "top", consumer |-> "idle", main |-> "on", monitor |-> "sleep",
           pause |-> "off", update |-> "off", resume |-> "off"]
  /\ ready = <<"feed", "proc">> /\ due = <<>> /\ lock = Nobody /\ waiters = <<>>
  /\ paused = FALSE /\ trigger = TRUE
  /\ staleness = 0 /\ counted = 0 /\ rversion = 0
  /\ fed = 0 /\ taken = 0 /\ hand = 0 /\ loop = "none"
  /\ bound = FALSE /\ gen = [s \in Samples |-> "none"] /\ finished = 0 /\ raised = 0
  /\ failed = {} /\ stamp = [s \in Samples |-> 0]
  /\ cancelq = <<>> /\ resultq = <<>> /\ transit = {} /\ serverPaused = FALSE

-----------------------------------------------------------------------------
\* The event loop and its lock.

Running(c) == ready # <<>> /\ Head(ready) = c
RunningIn(c, points) == Running(c) /\ at[c] \in points
RunningAt(c, point) == RunningIn(c, {point})

Go(c, point) == at' = [at EXCEPT ![c] = point]

\* c goes on, or waits, after waking others.
Continues(woken) == ready' = ready \o woken
Waits(woken) == ready' = Tail(ready) \o woken

\* async with self.lock
Acquire(c, point) ==
  /\ Go(c, point) /\ UNCHANGED due
  /\ IF lock = Nobody
       THEN lock' = c /\ Continues(<<>>) /\ UNCHANGED waiters
       ELSE waiters' = Append(waiters, c) /\ Waits(<<>>) /\ UNCHANGED lock

NextHolder == IF waiters = <<>> THEN <<>> ELSE <<Head(waiters)>>

\* Mutant: nobody who waits gets the lock.
ReleaseForgetsWaiters == lock' = Nobody /\ UNCHANGED waiters

\* The lock is handed over in the order of the requests.
Release ==
  IF waiters = <<>> THEN lock' = Nobody /\ UNCHANGED waiters
                    ELSE lock' = Head(waiters) /\ waiters' = Tail(waiters)

\* condition.notify_all: only the processor ever waits for the condition.
Notified == IF at.proc = "asleep" THEN <<"proc">> ELSE <<>>
GoNotifying(c, point) ==
  at' = [at EXCEPT ![c] = point, !["proc"] = IF @ = "asleep" THEN "notified" ELSE @]

-----------------------------------------------------------------------------
\* Feeding.

\* _streaming_generation_main awaits the feed, then the processor.
MainWoken(feedDone, procDone) == IF feedDone /\ procDone THEN <<"main">> ELSE <<>>

\* _feed_samples fills the pending queue without a break; "DONE" comes last.
Feed ==
  /\ RunningAt("feed", "on")
  /\ fed' = Min({taken + PendingCap, Total + 1})
  /\ Go("feed", IF fed' = Total + 1 THEN "done" ELSE "full")
  /\ Waits((IF at.proc = "get" THEN <<"proc">> ELSE <<>>)
           \o MainWoken(fed' = Total + 1, at.proc = "failed"))
  /\ UNCHANGED <<conf, mqVars, due, lock, waiters, flags, counting, taken, hand, loop, tasks, queues, serverPaused>>

-----------------------------------------------------------------------------
\* _processor_worker

\* Mutant: the staleness limit is one too high.
ShouldPauseLate == Len(queue) >= conf.maxRequired \/ staleness > conf.maxRequired

\* _should_pause_generation
ShouldPause == Len(queue) >= conf.maxRequired \/ staleness >= conf.maxRequired

\* Pauses, takes a cancelled sample, or turns to the pending queue.
ProcTop ==
  /\ RunningAt("proc", "top")
  /\ IF paused \/ ShouldPause
       THEN Acquire("proc", "mark") /\ UNCHANGED <<hand, loop, cancelq>>
       ELSE /\ UNCHANGED <<due, lock, waiters>>
            /\ IF cancelq # <<>>
                 THEN /\ hand' = Head(cancelq) /\ cancelq' = Tail(cancelq) /\ loop' = "room"
                      /\ Go("proc", "loop") /\ Continues(<<>>)
                 ELSE /\ Go("proc", "get")
                      /\ IF fed > taken THEN Continues(<<>>) ELSE Waits(<<>>)
                      /\ UNCHANGED <<hand, loop, cancelq>>
  /\ UNCHANGED <<conf, mqVars, flags, counting, fed, taken, tasks, resultq, transit, serverPaused>>

\* Takes from the pending queue; the end signal is counted as a sample too.
ProcGet ==
  /\ RunningAt("proc", "get")
  /\ taken' = taken + 1 /\ staleness' = staleness + 1
  /\ IF taken' \in Samples THEN hand' = taken' /\ loop' = "room" ELSE loop' = "end" /\ UNCHANGED hand
  /\ at' = [at EXCEPT !["proc"] = "loop", !["feed"] = IF @ = "full" THEN "on" ELSE @]
  /\ Continues(IF at.feed = "full" THEN <<"feed">> ELSE <<>>)
  /\ UNCHANGED <<conf, mqVars, due, lock, waiters, flags, counted, rversion, fed, tasks, queues, serverPaused>>

ProcMark ==
  /\ RunningAt("proc", "mark")
  /\ paused' = TRUE /\ loop' = "pause"
  /\ Release /\ Go("proc", "loop") /\ Continues(NextHolder)
  /\ UNCHANGED <<conf, mqVars, due, trigger, counting, fed, taken, hand, tasks, queues, serverPaused>>

MustDrain == IF loop = "room" THEN Active >= conf.concurrent ELSE Active > 0

ProcStops(point) == Go("proc", point) /\ Waits(NextHolder \o MainWoken(at.feed = "done", TRUE))

\* The condition of each of the three loops that wait for tasks, and what follows it.
ProcLoop ==
  /\ RunningAt("proc", "loop")
  /\ \/ MustDrain /\ Acquire("proc", "drain")
     \/ ~MustDrain /\ loop = "pause" /\ Acquire("proc", "sleep")
     \/ ~MustDrain /\ loop = "room" /\ Acquire("proc", "submit")
     \/ ~MustDrain /\ loop = "end" /\ Go("proc", "ended") /\ Waits(MainWoken(at.feed = "done", TRUE))
        /\ UNCHANGED <<due, lock, waiters>>
  /\ UNCHANGED <<conf, mqVars, flags, counting, picking, tasks, queues, serverPaused>>

\* The tasks may be gone when the lock is there; the loop over done_tasks then
\* needs an assignment of an earlier turn.  asyncio.wait never returns at once.
ProcDrain ==
  /\ RunningAt("proc", "drain")
  /\ \/ Active > 0 /\ Go("proc", "wait") /\ UNCHANGED <<lock, waiters>>
        /\ Waits(IF finished + raised > 0 THEN <<"proc">> ELSE <<>>)
     \/ Active = 0 /\ bound /\ Release /\ Go("proc", "loop") /\ Continues(NextHolder)
     \/ Active = 0 /\ ~bound /\ Release /\ ProcStops("failed")
  /\ UNCHANGED <<conf, mqVars, due, flags, counting, picking, tasks, queues, serverPaused>>

\* Mutant: done_tasks does not outlive the turn.
ProcCollectForgets ==
  /\ RunningAt("proc", "wait")
  /\ finished' = 0 /\ raised' = 0 /\ bound' = FALSE
  /\ Release
  /\ IF raised > 0 THEN ProcStops("failed") ELSE Go("proc", "loop") /\ Continues(NextHolder)
  /\ UNCHANGED <<conf, mqVars, due, flags, counting, picking, gen, failed, stamp, queues, serverPaused>>

\* asyncio.wait has returned; await raises what a task has raised.
ProcCollect ==
  /\ RunningAt("proc", "wait")
  /\ finished' = 0 /\ raised' = 0 /\ bound' = TRUE
  /\ Release
  /\ IF raised > 0 THEN ProcStops("failed") ELSE Go("proc", "loop") /\ Continues(NextHolder)
  /\ UNCHANGED <<conf, mqVars, due, flags, counting, picking, gen, failed, stamp, queues, serverPaused>>

ProcSleep ==
  /\ RunningAt("proc", "sleep")
  /\ Release
  /\ IF paused THEN Go("proc", "asleep") /\ Waits(NextHolder)
               ELSE Go("proc", "top") /\ Continues(NextHolder)
  /\ UNCHANGED <<conf, mqVars, due, flags, counting, picking, tasks, queues, serverPaused>>

\* Condition.wait acquires the lock again.
ProcNotified ==
  /\ RunningAt("proc", "notified")
  /\ Acquire("proc", IF loop = "pause" THEN "sleep" ELSE "submit")
  /\ UNCHANGED <<conf, mqVars, flags, counting, picking, tasks, queues, serverPaused>>

CreateTask ==
  /\ gen' = [gen EXCEPT ![hand] = "created"] /\ hand' = 0 /\ due' = Append(due, hand)
  /\ Go("proc", "top") /\ Continues(<<"task">> \o NextHolder)

ProcSubmit ==
  /\ RunningAt("proc", "submit")
  /\ Release
  /\ IF paused
       THEN Go("proc", "asleep") /\ Waits(NextHolder) /\ UNCHANGED <<gen, hand, due>>
       ELSE CreateTask
  /\ UNCHANGED <<conf, mqVars, flags, counting, fed, taken, loop, bound, finished, raised, failed, stamp, queues, serverPaused>>

Processor ==
  \/ ProcTop \/ ProcGet \/ ProcMark \/ ProcLoop \/ ProcDrain \/ ProcCollect
  \/ ProcSleep \/ ProcNotified \/ ProcSubmit

-----------------------------------------------------------------------------
\* _process_single_sample_streaming, a task per sample, and the inference servers.

TaskFrame == UNCHANGED <<conf, mqVars, lock, waiters, flags, counting, picking, bound, failed, transit, serverPaused>>

\* Mutant: the version the sample was fed with stays.
TaskBeginFedVersion ==
  /\ Running("task") /\ gen[Head(due)] = "created"
  /\ gen' = [gen EXCEPT ![Head(due)] = "sent"]
  /\ due' = Tail(due) /\ Waits(<<>>)
  /\ TaskFrame /\ UNCHANGED <<at, finished, raised, stamp, cancelq, resultq>>

\* The task starts and sends its request.
TaskBegin ==
  /\ Running("task") /\ gen[Head(due)] = "created"
  /\ gen' = [gen EXCEPT ![Head(due)] = "sent"] /\ stamp' = [stamp EXCEPT ![Head(due)] = rversion]
  /\ due' = Tail(due) /\ Waits(<<>>)
  /\ TaskFrame /\ UNCHANGED <<at, finished, raised, cancelq, resultq>>

ServerFrame ==
  UNCHANGED <<conf, mqVars, at, lock, waiters, flags, counting, picking, bound, finished, raised, stamp, queues, serverPaused>>

\* A server that is not paused starts to decode.
ServerStarts(s) ==
  /\ gen[s] = "sent" /\ ~serverPaused
  /\ gen' = [gen EXCEPT ![s] = "decoding"]
  /\ ServerFrame /\ UNCHANGED <<ready, due, failed>>

ServerAnswers(s, answer) ==
  /\ gen' = [gen EXCEPT ![s] = answer]
  /\ ready' = Append(ready, "task") /\ due' = Append(due, s)
  /\ ServerFrame

ServerFinishes(s) == gen[s] = "decoding" /\ ServerAnswers(s, "complete") /\ UNCHANGED failed

\* A paused server returns what there is; the sample is to be continued.
ServerCancels(s) ==
  gen[s] \in {"sent", "decoding"} /\ serverPaused /\ ServerAnswers(s, "cancelled") /\ UNCHANGED failed

ServerRaises(s) ==
  /\ gen[s] \in {"sent", "decoding"} /\ Cardinality(failed) < Failures
  /\ failed' = failed \cup {s} /\ ServerAnswers(s, "error")

\* Who waits for this task: the processor for any, pause for the last.
TaskWakes ==
  (IF at.proc = "wait" /\ finished + raised = 0 THEN <<"proc">> ELSE <<>>)
  \o (IF at.pause = "gather" /\ Cardinality(Busy) = 1 THEN <<"pause">> ELSE <<>>)

\* Mutant: a cancelled sample is sent on as well.
TaskEndSendsCancelled ==
  /\ Running("task") /\ gen[Head(due)] # "created"
  /\ LET s == Head(due)
         ok == gen[s] # "error"
         wakesConsumer == ok /\ at.consumer = "idle"
     IN  /\ gen' = [gen EXCEPT ![s] = "none"]
         /\ resultq' = IF ok THEN Append(resultq, s) ELSE resultq
         /\ cancelq' = IF gen[s] = "cancelled" THEN Append(cancelq, s) ELSE cancelq
         /\ IF gen[s] = "error" THEN raised' = raised + 1 /\ UNCHANGED finished
                                ELSE finished' = finished + 1 /\ UNCHANGED raised
         /\ at' = IF wakesConsumer THEN [at EXCEPT !["consumer"] = "on"] ELSE at
         /\ Waits((IF wakesConsumer THEN <<"consumer">> ELSE <<>>) \o TaskWakes)
  /\ due' = Tail(due)
  /\ TaskFrame /\ UNCHANGED stamp

\* A complete sample goes to the result queue, a cancelled one to the cancel queue.
TaskEnd ==
  /\ Running("task") /\ gen[Head(due)] # "created"
  /\ LET s == Head(due)
         ok == gen[s] = "complete"
         wakesConsumer == ok /\ at.consumer = "idle"
     IN  /\ gen' = [gen EXCEPT ![s] = "none"]
         /\ resultq' = IF ok THEN Append(resultq, s) ELSE resultq
         /\ cancelq' = IF gen[s] = "cancelled" THEN Append(cancelq, s) ELSE cancelq
         /\ IF gen[s] = "error" THEN raised' = raised + 1 /\ UNCHANGED finished
                                ELSE finished' = finished + 1 /\ UNCHANGED raised
         /\ at' = IF wakesConsumer THEN [at EXCEPT !["consumer"] = "on"] ELSE at
         /\ Waits((IF wakesConsumer THEN <<"consumer">> ELSE <<>>) \o TaskWakes)
  /\ due' = Tail(due)
  /\ TaskFrame /\ UNCHANGED stamp

-----------------------------------------------------------------------------
\* _consumer_worker and _streaming_generation_main

\* The call of put_sample is on its way to the MessageQueue, in neither queue.
ConsumerPuts ==
  /\ RunningAt("consumer", "on") /\ resultq # <<>>
  /\ transit' = transit \cup {Head(resultq)} /\ resultq' = Tail(resultq)
  /\ Go("consumer", "put") /\ Waits(<<>>)
  /\ UNCHANGED <<conf, mqVars, due, lock, waiters, flags, counting, picking, tasks, cancelq, serverPaused>>

\* The result queue is joined once nothing in it is unfinished.
ConsumerIdles ==
  /\ RunningAt("consumer", "on") /\ resultq = <<>>
  /\ Go("consumer", "idle") /\ Waits(IF at.main = "join" THEN <<"main">> ELSE <<>>)
  /\ UNCHANGED <<conf, mqVars, due, lock, waiters, flags, counting, picking, tasks, queues, serverPaused>>

Unfinished == resultq # <<>> \/ at.consumer # "idle"

MainJoins ==
  /\ RunningAt("main", "on") /\ at.proc = "ended" /\ Unfinished
  /\ Go("main", "join") /\ Waits(<<>>)
  /\ UNCHANGED <<conf, mqVars, due, lock, waiters, flags, counting, picking, tasks, queues, serverPaused>>

\* Mutant: the result queue is not waited for.
MainFinishesEarly ==
  /\ RunningIn("main", {"on", "join"})
  /\ transit' = transit \cup {Finish}
  /\ at' = [at EXCEPT !["main"] = "put", !["consumer"] = "off"]
  /\ ready' = RemoveFirst(Tail(ready), "consumer")
  /\ UNCHANGED <<conf, mqVars, due, lock, waiters, flags, counting, picking, tasks, cancelq, resultq, serverPaused>>

\* At the end, or when the processor has raised: cancels the consumer, but not the call it
\* may wait for, and sends the finish signal.
MainFinishes ==
  /\ RunningIn("main", {"on", "join"}) /\ (at.proc = "failed" \/ ~Unfinished)
  /\ transit' = transit \cup {Finish}
  /\ at' = [at EXCEPT !["main"] = "put", !["consumer"] = "off"]
  /\ ready' = RemoveFirst(Tail(ready), "consumer")
  /\ UNCHANGED <<conf, mqVars, due, lock, waiters, flags, counting, picking, tasks, cancelq, resultq, serverPaused>>

MainLocks ==
  /\ RunningAt("main", "put") /\ Acquire("main", "stop")
  /\ UNCHANGED <<conf, mqVars, flags, counting, picking, tasks, queues, serverPaused>>

\* self.running is FALSE from here on.
MainEnds ==
  /\ RunningAt("main", "stop")
  /\ Release /\ Go("main", "done") /\ Waits(NextHolder)
  /\ UNCHANGED <<conf, mqVars, due, flags, counting, picking, tasks, queues, serverPaused>>

Stream == ConsumerPuts \/ ConsumerIdles \/ MainJoins \/ MainFinishes \/ MainLocks \/ MainEnds

-----------------------------------------------------------------------------
\* The monitor, and the calls of the parameter synchroniser.

\* _async_monitor_loop after its sleep.
MonitorLooks ==
  /\ RunningAt("monitor", "awake")
  /\ IF trigger /\ ~ShouldPause
       THEN Acquire("monitor", "unpause")
       ELSE Go("monitor", "loop") /\ Continues(<<>>) /\ UNCHANGED <<due, lock, waiters>>
  /\ UNCHANGED <<conf, mqVars, flags, counting, picking, tasks, queues, serverPaused>>

MonitorUnpauses ==
  /\ RunningAt("monitor", "unpause")
  /\ paused' = FALSE
  /\ Release /\ GoNotifying("monitor", "loop") /\ Continues(Notified \o NextHolder)
  /\ UNCHANGED <<conf, mqVars, due, trigger, counting, picking, tasks, queues, serverPaused>>

MonitorLocks ==
  /\ RunningAt("monitor", "loop") /\ Acquire("monitor", "check")
  /\ UNCHANGED <<conf, mqVars, flags, counting, picking, tasks, queues, serverPaused>>

\* It sleeps again as long as self.running.
MonitorSleeps ==
  /\ RunningAt("monitor", "check")
  /\ Release /\ Go("monitor", IF at.main = "done" THEN "off" ELSE "sleep") /\ Waits(NextHolder)
  /\ UNCHANGED <<conf, mqVars, due, flags, counting, picking, tasks, queues, serverPaused>>

\* The first step of a call from outside.
Enters(c, point) ==
  /\ RunningAt(c, "called") /\ Acquire(c, point)
  /\ UNCHANGED <<conf, mqVars, flags, counting, picking, tasks, queues, serverPaused>>

PauseCalled == Enters("pause", "start")
UpdateCalled == Enters("update", "start")
ResumeCalled == Enters("resume", "unpause")

\* pause(): with partial rollout the servers are told to cancel.
PauseStart ==
  /\ RunningAt("pause", "start")
  /\ paused' = TRUE
  /\ IF conf.partial THEN Go("pause", "cancel") /\ Waits(<<>>) ELSE Go("pause", "tasks") /\ Continues(<<>>)
  /\ UNCHANGED <<conf, mqVars, due, lock, waiters, trigger, counting, picking, tasks, queues, serverPaused>>

\* Mutant: pause does not wait for the tasks.
PauseTasksNoWait ==
  /\ RunningAt("pause", "tasks")
  /\ Go("pause", "reset") /\ Waits(<<>>)
  /\ UNCHANGED <<conf, mqVars, due, lock, waiters, flags, counting, picking, tasks, queues, serverPaused>>

\* Mutant: pause sleeps until active_tasks is empty, from which nobody takes the
\* finished tasks meanwhile.
PauseTasksPolls ==
  /\ RunningAt("pause", "tasks")
  /\ Go("pause", IF Active = 0 THEN "reset" ELSE "tasks") /\ Waits(IF Active = 0 THEN <<>> ELSE <<"pause">>)
  /\ UNCHANGED <<conf, mqVars, due, lock, waiters, flags, counting, picking, tasks, queues, serverPaused>>

\* gather() waits for all tasks and keeps what they raise to itself.
PauseTasks ==
  /\ RunningAt("pause", "tasks")
  /\ IF Busy = {}
       THEN Go("pause", "reset") /\ Waits(<<>>) /\ finished' = 0 /\ raised' = 0
       ELSE Go("pause", "gather") /\ Waits(<<>>) /\ UNCHANGED <<finished, raised>>
  /\ UNCHANGED <<conf, mqVars, due, lock, waiters, flags, counting, picking, bound, gen, failed, stamp, queues, serverPaused>>

PauseGathered ==
  /\ RunningAt("pause", "gather")
  /\ finished' = 0 /\ raised' = 0
  /\ Go("pause", "reset") /\ Waits(<<>>)
  /\ UNCHANGED <<conf, mqVars, due, lock, waiters, flags, counting, picking, bound, gen, failed, stamp, queues, serverPaused>>

\* The prefix caches have been reset.
PauseEnd ==
  /\ RunningAt("pause", "reset")
  /\ trigger' = FALSE
  /\ Release /\ Go("pause", "returned") /\ Waits(NextHolder)
  /\ UNCHANGED <<conf, mqVars, due, paused, counting, picking, tasks, queues, serverPaused>>

\* update_param_version reads its own counts and asks the MessageQueue for its size.
UpdateStart(version) ==
  /\ RunningAt("update", "start")
  /\ rversion' = version
  /\ counted' = Active + Len(resultq) + Len(cancelq)
  /\ Go("update", "size") /\ Waits(<<>>)
  /\ UNCHANGED <<conf, mqVars, due, lock, waiters, flags, staleness, picking, tasks, queues, serverPaused>>

Validates(validate) ==
  \/ conf.testFreq > 0 /\ rversion > 0 /\ rversion % conf.testFreq = 0
  \/ validate

\* Mutant: the count is added instead of assigned.
UpdateAssignAdds ==
  /\ RunningAt("update", "assign")
  /\ staleness' = staleness + counted /\ counted' = 0
  /\ Go("update", "validate") /\ Waits(<<>>)
  /\ UNCHANGED <<conf, mqVars, due, lock, waiters, flags, rversion, picking, tasks, queues, serverPaused>>

\* The MessageQueue has told its size; it is sent the result of the validation.
UpdateAssign ==
  /\ RunningAt("update", "assign")
  /\ staleness' = counted /\ counted' = 0
  /\ Go("update", "validate") /\ Waits(<<>>)
  /\ UNCHANGED <<conf, mqVars, due, lock, waiters, flags, rversion, picking, tasks, queues, serverPaused>>

UpdateEnd ==
  /\ RunningAt("update", "put")
  /\ Release /\ Go("update", "off") /\ Waits(NextHolder)
  /\ UNCHANGED <<conf, mqVars, due, flags, counting, picking, tasks, queues, serverPaused>>

ResumeUnpauses ==
  /\ RunningAt("resume", "unpause")
  /\ paused' = FALSE /\ trigger' = TRUE
  /\ IF conf.partial
       THEN GoNotifying("resume", "server") /\ Waits(Notified) /\ UNCHANGED <<lock, waiters>>
       ELSE GoNotifying("resume", "off") /\ Waits(Notified \o NextHolder) /\ Release
  /\ UNCHANGED <<conf, mqVars, due, counting, picking, tasks, queues, serverPaused>>

ResumeEnd ==
  /\ RunningAt("resume", "server")
  /\ Release /\ Go("resume", "off") /\ Waits(NextHolder)
  /\ UNCHANGED <<conf, mqVars, due, flags, counting, picking, tasks, queues, serverPaused>>

Calls ==
  \/ MonitorLooks \/ MonitorUnpauses \/ MonitorLocks \/ MonitorSleeps \/ PauseCalled \/ PauseStart \/ PauseTasks \/ PauseGathered
  \/ PauseEnd \/ UpdateCalled \/ UpdateAssign \/ UpdateEnd \/ ResumeCalled \/ ResumeUnpauses \/ ResumeEnd

-----------------------------------------------------------------------------
\* What reaches the event loop from outside.

Scheduled(c) == c \in ToSet(ready)

Wakes(c, point) ==
  /\ ~Scheduled(c)
  /\ Go(c, point) /\ ready' = Append(ready, c)
  /\ UNCHANGED <<conf, mqVars, due, lock, waiters, flags, counting, picking, tasks, queues>>

\* The monitor's sleep is over.
Timer == at.monitor = "sleep" /\ Wakes("monitor", "awake") /\ UNCHANGED serverPaused

ActorFrame ==
  UNCHANGED <<conf, ready, due, lock, waiters, flags, staleness, rversion, picking, tasks, cancelq, resultq, serverPaused>>

\* The MessageQueue runs the calls that have been sent to it in any order: Ray promises
\* none for an asynchronous actor.
PutRuns ==
  /\ \E m \in transit : PutSample(m, conf.maxRequired) /\ transit' = transit \ {m}
  /\ ActorFrame /\ UNCHANGED <<valq, at, counted>>

\* Mutant: the samples in the MessageQueue are not counted.
SizeRunsZero ==
  /\ at.update = "size" /\ Go("update", "assign")
  /\ UNCHANGED counted
  /\ ActorFrame /\ UNCHANGED <<mqVars, transit>>

\* get_queue_size, some time after the other counts have been read.
SizeRuns ==
  /\ at.update = "size" /\ Go("update", "assign")
  /\ counted' = counted + Len(queue)
  /\ ActorFrame /\ UNCHANGED <<mqVars, transit>>

ValidateRuns(validate) ==
  /\ at.update = "validate" /\ Go("update", "put")
  /\ PutValidate([version |-> rversion, metrics |-> Validates(validate)])
  /\ ActorFrame /\ UNCHANGED <<queue, dropped, transit, counted>>

\* Answers to calls that are awaited.
PutAnswered == at.consumer = "put" /\ transit = {} /\ Wakes("consumer", "on") /\ UNCHANGED serverPaused
FinishAnswered == at.main = "put" /\ Finish \notin transit /\ Wakes("main", "put") /\ UNCHANGED serverPaused
CancelAnswered == at.pause = "cancel" /\ Wakes("pause", "tasks") /\ serverPaused' = TRUE
ResetAnswered == at.pause = "reset" /\ Wakes("pause", "reset") /\ UNCHANGED serverPaused
SizeAnswered == at.update = "assign" /\ Wakes("update", "assign") /\ UNCHANGED serverPaused
ValidateAnswered == at.update = "put" /\ Wakes("update", "put") /\ UNCHANGED serverPaused
ServerResumed == at.resume = "server" /\ Wakes("resume", "server") /\ serverPaused' = FALSE

\* The calls of the synchroniser that it does not wait for arrive; resume is handed the
\* result of update_param_version and starts when it is there.
UpdateArrives == at.update = "sent" /\ Wakes("update", "called") /\ UNCHANGED serverPaused
ResumeArrives == at.resume = "sent" /\ at.update = "off" /\ Wakes("resume", "called") /\ UNCHANGED serverPaused

Answers ==
  \/ PutAnswered \/ FinishAnswered \/ CancelAnswered \/ ResetAnswered \/ SizeAnswered
  \/ ValidateAnswered \/ ServerResumed \/ UpdateArrives \/ ResumeArrives

Server == \E s \in Samples :
  ServerStarts(s) \/ ServerFinishes(s) \/ ServerCancels(s) \/ ServerRaises(s)

\* One step of the event loop.
EventLoop == Feed \/ Processor \/ TaskBegin \/ TaskEnd \/ Stream \/ Calls
===============================================================================
