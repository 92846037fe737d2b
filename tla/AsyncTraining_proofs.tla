-------------------------- MODULE AsyncTraining_proofs --------------------------
(***************************************************************************)
(* The safety of the whole pipeline, for any number of samples, capacity   *)
(* of the pending queue and configurations: on top of the event loop's     *)
(* invariant, where every sample is, what the versions and the counters    *)
(* of trainer and rollouter say about each other, and what a paused        *)
(* rollouter cannot do.                                                    *)
(***************************************************************************)
EXTENDS AsyncLoop_proofs

-----------------------------------------------------------------------------
\* The inductive invariant.

\* At most one sample is on its way to the MessageQueue, and none while the consumer could send
\* another.  The finish signal is sent once, when the consumer is gone; only after a failure of
\* the processor can a sample arrive behind it.
Sent == at["main"] \notin {"on", "join"}
Stored ==
  /\ conf \in Configs
  /\ queue \in Seq(Samples \cup {Finish}) /\ batch \in Seq(Samples)
  /\ trained \subseteq Samples /\ dropped \subseteq Samples \cup {Finish} /\ failed \subseteq Samples
  /\ \A s \in Samples : gen[s] = "error" => s \in failed
  /\ transit \subseteq Samples \cup {Finish}
  /\ \A s, t \in transit : s \in Samples /\ t \in Samples => s = t
  /\ at["consumer"] \in {"idle", "on"} => transit = {}
  /\ Sent => at["consumer"] = "off"
  /\ ~Sent => Finish \notin transit
  /\ ~Sent \/ Finish \in transit => ~Has(queue, Finish)
  /\ Sent /\ at["proc"] # "failed" => transit \subseteq {Finish}
  /\ at["proc"] # "failed" => \A i \in 1..Len(queue) : queue[i] = Finish => i = Len(queue)

\* The trainer's batch, and the versions of trainer, call and rollouter.
Syncing == tpc \in {"wait_last", "pausing", "weights"}
Training ==
  /\ tpc \in {"collect", "train", "getval", "wait_last", "pausing", "weights", "final", "done"}
  /\ Len(batch) <= conf.required
  /\ tpc = "collect" => Len(batch) < conf.required
  /\ tpc \in {"collect", "train", "getval"} => ~final
  /\ final \in BOOLEAN
  /\ tpc = "getval" \/ (Syncing /\ ~final) => batch = <<>>
  /\ local \in 1..conf.triggerStep
  /\ version \in Nat /\ call.version \in Nat /\ rversion \in Nat
  /\ version = call.version + In(Syncing)
  /\ call.version = rversion + In(at["update"] \in {"sent", "called", "start"})

\* From the answer of the servers to pause until they are resumed they decode nothing.
Quiet ==
  /\ at["pause"] = "cancel" => conf.partial
  /\ conf.partial /\ at["pause"] \in {"tasks", "gather", "reset", "returned"} => serverPaused
  /\ conf.partial /\ (at["pause"] \in {"reset", "returned"} \/ tpc = "weights") =>
       serverPaused /\ \A s \in Samples : gen[s] # "decoding"

\* The counts that bound the samples generated ahead of the trainer.  While the size of the
\* queue is asked for, the other counts miss the sample in hand and the one on its way.
Flight == Cardinality(InFlight)
Elsewhere == InFlight \ ToSet(queue)
Covered ==
  /\ staleness \in Nat /\ counted \in Nat
  /\ Flight <= staleness + 2
  /\ at["update"] = "size" => Cardinality(Elsewhere) <= counted + In(hand # 0) + 1
  /\ at["update"] = "assign" => Flight <= counted + In(hand # 0) + 1

\* A sample that will still arrive behind the finish signal.
Late == Has(queue, Finish) /\ \E s \in Samples : s \in transit

\* Two samples more than allowed can be on their way, once per version; what may still be
\* dropped covers the excess.
Counting == at["update"] \in {"size", "assign"}
Spare == 2 * rversion + In(Ended # "no") - Cardinality(dropped) - In(Late) - 2 * In(Counting)
Bounded ==
  /\ Flight <= conf.maxRequired + 2
  /\ at["proc"] = "get" => Flight <= conf.maxRequired + 1
  /\ Spare >= 0 /\ Spare >= Flight - staleness
  /\ Spare >= Flight + In(at["proc"] = "get") - conf.maxRequired

\* What is over when the finish signal has been sent and read.
Ending ==
  /\ ~conf.partial => ~serverPaused /\ cancelq = <<>> /\ \A s \in Samples : gen[s] # "cancelled"
  /\ Sent /\ at["proc"] # "failed" => at["proc"] = "ended" /\ resultq = <<>>
  /\ tpc \in {"final", "done"} \/ final =>
       Sent /\ Finish \notin transit /\ (at["proc"] # "failed" => queue = <<>>)

\* The processor's first turn, with a pending queue that keeps it from waiting for the feed:
\* nothing but the feed has run before it, and it ends in a wait for a task.
Opening ==
  /\ tpc = "collect" /\ queue = <<>> /\ transit = {} /\ cancelq = <<>> /\ finished = 0 /\ raised = 0
  /\ \A s \in Samples : gen[s] \in {"none", "created"}
  /\ at["consumer"] = "idle" /\ at["pause"] = "off" /\ at["update"] = "off" /\ at["resume"] = "off"
  /\ lock \in {Nobody, "proc"} /\ waiters = <<>> /\ staleness = taken
  /\ at["proc"] \in {"top", "get", "mark", "loop", "drain", "submit"}
  /\ paused => loop = "pause"
  /\ at["proc"] \in {"top", "get", "mark", "submit"} => loop \in {"none", "room"}
  /\ taken = Active + In(hand # 0) + In(loop = "end")
  /\ Active <= conf.concurrent /\ (at["proc"] = "submit" => Active < conf.concurrent)
  /\ at["proc"] \in {"mark", "drain"} \/ loop = "pause" => Active > 0
  /\ IF fed = 0 THEN at["proc"] = "top" /\ Len(ready) >= 2 /\ ready[1] = "feed" /\ ready[2] = "proc"
                ELSE fed = Min({PendingCap, Total + 1}) /\ ready # <<>> /\ ready[1] = "proc"

\* done_tasks is assigned, or will be when the wait is over, once the first turn has ended.
Draining ==
  /\ raised > 0 => failed # {}
  /\ PendingCap > conf.concurrent =>
       /\ bound \/ at["proc"] = "wait" \/ Opening
       /\ at["proc"] = "failed" => failed # {}

Inv ==
  /\ LInv /\ Hand /\ Stored /\ Conserved /\ Training /\ Quiet /\ Covered /\ Bounded /\ Ending
  /\ Draining

-----------------------------------------------------------------------------
\* Which actions change what.

DataFrames ==
  /\ conf' = conf
  /\ taken' = taken \/ ProcGet
  /\ hand' = hand \/ ProcTop \/ ProcGet \/ ProcSubmit
  /\ gen' = gen \/ ProcSubmit \/ TaskBegin \/ TaskEnd \/ Server
  /\ failed' = failed \/ Server
  /\ cancelq' = cancelq \/ ProcTop \/ TaskEnd
  /\ resultq' = resultq \/ TaskEnd \/ ConsumerPuts
  /\ transit' = transit \/ ConsumerPuts \/ MainFinishes \/ PutRuns
  /\ queue' = queue \/ PutRuns \/ Collect \/ CollectEnd
  /\ dropped' = dropped \/ PutRuns
  /\ batch' = batch \/ Collect \/ Train
  /\ trained' = trained \/ Train
  /\ staleness' = staleness \/ ProcGet \/ UpdateAssign
  /\ counted' = counted \/ Update \/ SizeRuns
  /\ rversion' = rversion \/ UpdateStart(call.version)
  /\ serverPaused' = serverPaused \/ CancelAnswered \/ ServerResumed
  /\ call' = call \/ SyncSends
  /\ UNCHANGED <<tpc, local, version, final>> \/ Trainer

LEMMA DataStep ==
  ASSUME [Next]_vars
  PROVE  DataFrames
<1> USE DEF mqVars, flags, counting, picking, tasks, queues
<1>1. CASE (Feed \/ ProcMark \/ ProcLoop \/ ProcDrain \/ ProcCollect \/ ProcSleep \/ ProcNotified
            \/ ConsumerIdles \/ MainJoins \/ MainLocks \/ MainEnds \/ Calls) /\ ~UpdateAssign /\ UNCHANGED trainerVars
  <2>1. UNCHANGED <<conf, taken, hand, gen, failed, cancelq, resultq, transit, queue, dropped, staleness, counted,
                    rversion, serverPaused>>
    <3>1. CASE Feed \/ ProcMark \/ ProcLoop \/ ProcDrain \/ ProcCollect \/ ProcSleep \/ ProcNotified
      BY <3>1 DEF Feed, ProcMark, ProcLoop, ProcDrain, ProcCollect, ProcSleep, ProcNotified
    <3>2. CASE ConsumerIdles \/ MainJoins \/ MainLocks \/ MainEnds
      BY <3>2 DEF ConsumerIdles, MainJoins, MainLocks, MainEnds
    <3>3. CASE Calls
      BY <1>1, <3>3 DEF Calls, MonitorLooks, MonitorUnpauses, MonitorLocks, MonitorSleeps, PauseCalled, PauseStart, PauseTasks,
        PauseGathered, PauseEnd, UpdateCalled, UpdateEnd, ResumeCalled, ResumeUnpauses,
        ResumeEnd, Enters
    <3> QED BY <1>1, <3>1, <3>2, <3>3
  <2> QED BY <1>1, <2>1 DEF DataFrames, trainerVars
<1>2. CASE ProcTop /\ UNCHANGED trainerVars
  <2>1. UNCHANGED <<conf, taken, gen, failed, resultq, transit, queue, dropped, staleness, counted, rversion,
                    serverPaused>>
    BY <1>2 DEF ProcTop
  <2> QED BY <1>2, <2>1 DEF DataFrames, trainerVars
<1>3. CASE ProcGet /\ UNCHANGED trainerVars
  <2>1. UNCHANGED <<conf, gen, failed, cancelq, resultq, transit, queue, dropped, counted, rversion, serverPaused>>
    BY <1>3 DEF ProcGet
  <2> QED BY <1>3, <2>1 DEF DataFrames, trainerVars
<1>4. CASE ProcSubmit /\ UNCHANGED trainerVars
  <2>1. UNCHANGED <<conf, taken, failed, cancelq, resultq, transit, queue, dropped, staleness, counted, rversion,
                    serverPaused>>
    BY <1>4 DEF ProcSubmit
  <2> QED BY <1>4, <2>1 DEF DataFrames, trainerVars
<1>5. CASE TaskBegin /\ UNCHANGED trainerVars
  <2>1. UNCHANGED <<conf, taken, hand, failed, cancelq, resultq, transit, queue, dropped, staleness, counted, rversion,
                    serverPaused>>
    BY <1>5 DEF TaskBegin, TaskFrame
  <2> QED BY <1>5, <2>1 DEF DataFrames, trainerVars
<1>6. CASE TaskEnd /\ UNCHANGED trainerVars
  <2>1. UNCHANGED <<conf, taken, hand, failed, transit, queue, dropped, staleness, counted, rversion, serverPaused>>
    BY <1>6 DEF TaskEnd, TaskFrame
  <2> QED BY <1>6, <2>1 DEF DataFrames, trainerVars
<1>7. CASE ConsumerPuts /\ UNCHANGED trainerVars
  <2>1. UNCHANGED <<conf, taken, hand, gen, failed, cancelq, queue, dropped, staleness, counted, rversion, serverPaused>>
    BY <1>7 DEF ConsumerPuts
  <2> QED BY <1>7, <2>1 DEF DataFrames, trainerVars
<1>8. CASE MainFinishes /\ UNCHANGED trainerVars
  <2>1. UNCHANGED <<conf, taken, hand, gen, failed, cancelq, resultq, queue, dropped, staleness, counted, rversion,
                    serverPaused>>
    BY <1>8 DEF MainFinishes
  <2> QED BY <1>8, <2>1 DEF DataFrames, trainerVars
<1>9. CASE Update /\ UNCHANGED trainerVars
  <2>1. /\ UNCHANGED <<conf, taken, hand, gen, failed, cancelq, resultq, transit, queue, dropped, serverPaused>>
        /\ staleness' = staleness \/ UpdateAssign
        /\ rversion' = rversion \/ UpdateStart(call.version)
    BY <1>9 DEF Update, UpdateStart, UpdateAssign
  <2> QED BY <1>9, <2>1 DEF DataFrames, trainerVars
<1>10. CASE (Answers \/ Timer) /\ UNCHANGED trainerVars
  <2>1. UNCHANGED <<conf, taken, hand, gen, failed, cancelq, resultq, transit, queue, dropped, staleness, counted,
                    rversion>>
    BY <1>10 DEF Answers, Timer, PutAnswered, CancelAnswered, ResetAnswered, SizeAnswered,
      ValidateAnswered, FinishAnswered, UpdateArrives, ServerResumed, ResumeArrives, Wakes
  <2>2. serverPaused' = serverPaused \/ CancelAnswered \/ ServerResumed
    BY <1>10 DEF Answers, Timer, PutAnswered, ResetAnswered, SizeAnswered, ValidateAnswered,
      FinishAnswered, UpdateArrives, ResumeArrives
  <2> QED BY <1>10, <2>1, <2>2 DEF DataFrames, trainerVars
<1>11. CASE Server /\ UNCHANGED trainerVars
  <2>1. UNCHANGED <<conf, taken, hand, cancelq, resultq, transit, queue, dropped, staleness, counted, rversion,
                    serverPaused>>
    BY <1>11 DEF Server, ServerStarts, ServerFinishes, ServerCancels, ServerRaises,
      ServerAnswers, ServerFrame
  <2> QED BY <1>11, <2>1 DEF DataFrames, trainerVars
<1>12. CASE Trainer
  <2>1. UNCHANGED <<conf, taken, hand, gen, failed, cancelq, resultq, transit, dropped, staleness, counted, rversion,
                    serverPaused>>
    BY <1>12 DEF Trainer, Collect, CollectEnd, Train, SyncPauses, PauseReturns, SyncSends,
      ReadValidation, CallFrame, rVars
  <2>2. queue' = queue \/ Collect \/ CollectEnd
    BY <1>12 DEF Trainer, Train, SyncPauses, PauseReturns, SyncSends, ReadValidation, CallFrame
  <2>3. batch' = batch \/ Collect \/ Train
    BY <1>12 DEF Trainer, CollectEnd, SyncPauses, PauseReturns, SyncSends, ReadValidation, CallFrame
  <2>4. trained' = trained \/ Train
    BY <1>12 DEF Trainer, Collect, CollectEnd, SyncPauses, PauseReturns, SyncSends,
      ReadValidation, CallFrame
  <2>5. call' = call \/ SyncSends
    BY <1>12 DEF Trainer, Collect, CollectEnd, Train, SyncPauses, PauseReturns, ReadValidation
  <2> QED BY <1>12, <2>1, <2>2, <2>3, <2>4, <2>5 DEF DataFrames
<1>14. CASE Actor /\ UNCHANGED trainerVars
  <2>1. UNCHANGED <<conf, taken, hand, gen, failed, cancelq, resultq, staleness, rversion, serverPaused>>
    BY <1>14 DEF Actor, PutRuns, SizeRuns, ValidateRuns, ActorFrame
  <2>2. /\ UNCHANGED <<transit, queue, dropped>> \/ PutRuns
        /\ counted' = counted \/ SizeRuns
    BY <1>14 DEF Actor, PutRuns, SizeRuns, ValidateRuns, ActorFrame
  <2> QED BY <1>14, <2>1, <2>2 DEF DataFrames, trainerVars
<1>13. CASE UNCHANGED vars
  BY <1>13 DEF DataFrames, vars, rVars, trainerVars
<1> QED BY <1>1, <1>2, <1>3, <1>4, <1>5, <1>6, <1>7, <1>8, <1>9, <1>10, <1>11, <1>12, <1>13, <1>14
        DEF Next, Loop, Outside, Over, EventLoop, Processor, Stream, Update

PointFrames ==
  /\ at'["proc"] = at["proc"] \/ Processor \/ (at["proc"] = "asleep" /\ at'["proc"] = "notified")
  /\ at'["consumer"] = at["consumer"] \/ TaskEnd \/ Stream \/ PutAnswered
  /\ at'["main"] = at["main"] \/ MainJoins \/ MainFinishes \/ MainLocks \/ MainEnds
  /\ \/ at'["pause"] = at["pause"] \/ PauseCalled \/ PauseStart \/ PauseTasks \/ PauseGathered \/ PauseEnd
     \/ CancelAnswered \/ SyncPauses \/ PauseReturns
  /\ \/ at'["update"] = at["update"] \/ UpdateCalled \/ Update \/ UpdateEnd \/ SyncSends
     \/ UpdateArrives \/ SizeRuns \/ ValidateRuns(call.validate)

LEMMA PointStep ==
  ASSUME DOMAIN at = Coroutines, [Next]_vars
  PROVE  PointFrames
<1>0. {"proc", "consumer", "main", "pause", "update"} \subseteq DOMAIN at
  BY DEF Coroutines
<1>1. CASE Feed
  BY <1>0, <1>1 DEF Feed, Go, PointFrames
<1>2. CASE Processor
  <2>1. \A c \in {"consumer", "main", "pause", "update"} : at'[c] = at[c]
    BY <1>0, <1>2 DEF Processor, ProcTop, ProcGet, ProcMark, ProcLoop, ProcDrain, ProcCollect,
      ProcSleep, ProcNotified, ProcSubmit, ProcStops, CreateTask, Acquire, Go
  <2> QED BY <1>2, <2>1 DEF PointFrames
<1>3. CASE TaskBegin \/ Server \/ Collect \/ CollectEnd \/ Train \/ ReadValidation \/ UNCHANGED vars
  <2>1. at' = at
    BY <1>3 DEF TaskBegin, Server, ServerStarts, ServerFinishes, ServerCancels, ServerRaises,
      ServerAnswers, ServerFrame, Collect, CollectEnd, Train, ReadValidation, vars, rVars, sched
  <2> QED BY <2>1 DEF PointFrames
<1>4. CASE TaskEnd
  <2>1. \A c \in {"proc", "main", "pause", "update"} : at'[c] = at[c]
    BY <1>0, <1>4 DEF TaskEnd
  <2> QED BY <1>4, <2>1 DEF PointFrames
<1>5. CASE Stream
  <2>1. \A c \in {"proc", "pause", "update"} : at'[c] = at[c]
    BY <1>0, <1>5 DEF Stream, ConsumerPuts, ConsumerIdles, MainJoins, MainFinishes, MainLocks, MainEnds,
      Acquire, Go
  <2>2. at'["main"] = at["main"] \/ MainJoins \/ MainFinishes \/ MainLocks \/ MainEnds
    BY <1>0, <1>5 DEF Stream, ConsumerPuts, ConsumerIdles, Go
  <2> QED BY <1>5, <2>1, <2>2 DEF PointFrames
<1>6. CASE MonitorLooks \/ MonitorLocks \/ MonitorSleeps
  <2>1. \A c \in {"proc", "consumer", "main", "pause", "update"} : at'[c] = at[c]
    BY <1>0, <1>6 DEF MonitorLooks, MonitorLocks, MonitorSleeps, Acquire, Go
  <2> QED BY <2>1 DEF PointFrames
<1>7. CASE MonitorUnpauses \/ ResumeUnpauses
  <2>1. \E c \in {"monitor", "resume"}, point \in {"loop", "server", "off"} : GoNotifying(c, point)
    BY <1>7 DEF MonitorUnpauses, ResumeUnpauses
  <2> QED BY <1>0, <2>1 DEF GoNotifying, PointFrames
<1>8. CASE ResumeCalled \/ ResumeEnd
  <2>1. \A c \in {"proc", "consumer", "main", "pause", "update"} : at'[c] = at[c]
    BY <1>0, <1>8 DEF ResumeCalled, ResumeEnd, Enters, Acquire, Go
  <2> QED BY <2>1 DEF PointFrames
<1>9. CASE PauseCalled \/ PauseStart \/ PauseTasks \/ PauseGathered \/ PauseEnd
  <2>1. \A c \in {"proc", "consumer", "main", "update"} : at'[c] = at[c]
    BY <1>0, <1>9 DEF PauseCalled, PauseStart, PauseTasks, PauseGathered, PauseEnd, Enters,
      Acquire, Go
  <2> QED BY <1>9, <2>1 DEF PointFrames
<1>10. CASE UpdateCalled \/ Update \/ UpdateEnd
  <2>1. \A c \in {"proc", "consumer", "main", "pause"} : at'[c] = at[c]
    BY <1>0, <1>10 DEF UpdateCalled, Update, UpdateStart, UpdateAssign, UpdateEnd, Enters, Acquire, Go
  <2> QED BY <1>10, <2>1 DEF PointFrames
<1>11. CASE Answers \/ Timer
  <2>1. /\ at'["proc"] = at["proc"] /\ at'["main"] = at["main"]
        /\ at'["consumer"] = at["consumer"] \/ PutAnswered
        /\ at'["pause"] = at["pause"] \/ CancelAnswered
        /\ at'["update"] = at["update"] \/ UpdateArrives
    BY <1>0, <1>11 DEF Answers, Timer, PutAnswered, FinishAnswered, ResetAnswered, SizeAnswered, ValidateAnswered,
                       UpdateArrives, ServerResumed, ResumeArrives, CancelAnswered, Wakes, Go
  <2> QED BY <2>1 DEF PointFrames
<1>14. CASE Actor
  <2>1. /\ \A c \in {"proc", "consumer", "main", "pause"} : at'[c] = at[c]
        /\ at'["update"] = at["update"] \/ SizeRuns \/ ValidateRuns(call.validate)
    BY <1>0, <1>14 DEF Actor, PutRuns, SizeRuns, ValidateRuns, ActorFrame, Go
  <2> QED BY <2>1 DEF PointFrames
<1>12. CASE SyncPauses \/ PauseReturns
  <2>1. \A c \in {"proc", "consumer", "main", "update"} : at'[c] = at[c]
    BY <1>0, <1>12 DEF SyncPauses, PauseReturns, Go
  <2> QED BY <1>12, <2>1 DEF PointFrames
<1>13. CASE SyncSends
  <2>1. \A c \in {"proc", "consumer", "main", "pause"} : at'[c] = at[c]
    BY <1>0, <1>13 DEF SyncSends
  <2> QED BY <1>13, <2>1 DEF PointFrames
<1> QED BY <1>1, <1>2, <1>3, <1>4, <1>5, <1>6, <1>7, <1>8, <1>9, <1>10, <1>11, <1>12, <1>13, <1>14
        DEF Next, Loop, Outside, Over, EventLoop, Calls, Trainer, Update

-----------------------------------------------------------------------------
\* Where a sample can be.

\* The terms of Places.
LEMMA PlacesType ==
  ASSUME Hand, Stored, TaskList, NEW s \in Samples
  PROVE  /\ In(s > taken) \in Nat /\ In(s = hand) \in Nat /\ In(gen[s] \notin {"none", "error"}) \in Nat
         /\ Count(cancelq, s) \in Nat /\ Count(resultq, s) \in Nat
         /\ In(s \in transit) \in Nat /\ Count(queue, s) \in Nat /\ Count(batch, s) \in Nat
         /\ In(s \in trained) \in Nat /\ In(s \in dropped) \in Nat /\ In(s \in failed) \in Nat
         /\ Has(cancelq, s) <=> Count(cancelq, s) >= 1
         /\ Has(resultq, s) <=> Count(resultq, s) >= 1
         /\ Has(queue, s) <=> Count(queue, s) >= 1
         /\ Has(batch, s) <=> Count(batch, s) >= 1
<1>1. \A b \in BOOLEAN : In(b) \in Nat
  BY DEF In
<1>2. /\ cancelq \in Seq(Samples) /\ resultq \in Seq(Samples) /\ batch \in Seq(Samples)
      /\ queue \in Seq(Samples \cup {Finish})
  BY DEF Hand, Stored
<1>3. /\ In(s > taken) \in Nat /\ In(s = hand) \in Nat /\ In(gen[s] \notin {"none", "error"}) \in Nat
      /\ In(s \in transit) \in Nat /\ In(s \in trained) \in Nat /\ In(s \in dropped) \in Nat
      /\ In(s \in failed) \in Nat
  BY DEF In
<1> QED BY <1>2, <1>3, CountType

\* What it means that a sample is in one place.
LEMMA OnePlace ==
  ASSUME Hand, Stored, TaskList, Conserved, taken \in Nat, NEW s \in Samples
  PROVE  /\ s = hand => gen[s] = "none"
         /\ s > taken => /\ s # hand /\ gen[s] \in {"none", "error"}
                         /\ ~Has(cancelq, s) /\ ~Has(resultq, s) /\ ~Has(queue, s) /\ ~Has(batch, s)
                         /\ s \notin transit \cup trained \cup dropped \cup failed
         /\ gen[s] \in {"none", "error"} \/ ~Has(cancelq, s)
         /\ Has(batch, s) => s \notin trained
         /\ s \in transit => ~Has(queue, s) /\ ~Has(batch, s) /\ s \notin trained \cup dropped \cup failed
         /\ Count(batch, s) <= 1 /\ Count(queue, s) <= 1
<1> DEFINE a == In(s > taken)
           b == In(s = hand)
           c == In(gen[s] \notin {"none", "error"})
           d == Count(cancelq, s)
           e == Count(resultq, s)
           f == Count(queue, s)
           g == Count(batch, s)
           h == In(s \in trained)
           i == In(s \in dropped)
           j == In(s \in failed)
           k == In(s \in transit)
<1>1. a + b + c + d + e + k + f + g + h + i + j = 1
  BY DEF Conserved, Places
<1>2. a \in Nat /\ b \in Nat /\ c \in Nat /\ d \in Nat /\ e \in Nat /\ f \in Nat /\ g \in Nat /\ h \in Nat
      /\ i \in Nat /\ j \in Nat /\ k \in Nat
  BY PlacesType
<1>3. /\ s > taken => a = 1
      /\ s = hand => b = 1
      /\ gen[s] \notin {"none", "error"} => c = 1
      /\ s \in trained => h = 1
      /\ s \in dropped => i = 1
      /\ s \in failed => j = 1
      /\ s \in transit => k = 1
  BY DEF In
<1>4. /\ Has(cancelq, s) <=> d >= 1
      /\ Has(resultq, s) <=> e >= 1
      /\ Has(queue, s) <=> f >= 1
      /\ Has(batch, s) <=> g >= 1
  BY PlacesType
<1> HIDE DEF a, b, c, d, e, f, g, h, i, j, k
<1>5. s = hand => gen[s] \in {"none", "error"} /\ s \notin failed
  BY <1>1, <1>2, <1>3
<1>6. s = hand => gen[s] = "none"
  BY <1>5 DEF Stored
<1>7. s > taken => /\ s # hand /\ gen[s] \in {"none", "error"}
                   /\ s \notin transit /\ s \notin trained /\ s \notin dropped /\ s \notin failed
                   /\ d = 0 /\ e = 0 /\ f = 0 /\ g = 0
  BY <1>1, <1>2, <1>3
<1>8. gen[s] \in {"none", "error"} \/ d = 0
  BY <1>1, <1>2, <1>3
<1>9. g <= 1 /\ f <= 1 /\ (s \in trained => g = 0)
  BY <1>1, <1>2, <1>3
<1>10. Count(batch, s) <= 1 /\ Count(queue, s) <= 1
  BY <1>9 DEF f, g
<1>11. s \in transit => f = 0 /\ g = 0 /\ s \notin trained /\ s \notin dropped /\ s \notin failed
  BY <1>1, <1>2, <1>3
<1> QED BY <1>4, <1>6, <1>7, <1>8, <1>9, <1>10, <1>11

\* A sample in the processor's hand has no task.
LEMMA HandFree ==
  ASSUME LInv, Hand, Stored, Conserved
  PROVE  hand # 0 => gen[hand] = "none"
<1>1. TaskList /\ taken \in Nat
  BY DEF LInv, Scheduling, Feeding
<1>2. hand # 0 => hand \in Samples
  BY RollouterAssumption DEF Hand, Samples
<1> QED BY <1>1, <1>2, OnePlace

\* A full queue is not empty.
LEMMA FullQueue ==
  ASSUME Stored
  PROVE  /\ queue # <<>> => /\ Head(queue) \in Samples \cup {Finish} /\ Has(queue, Head(queue))
                            /\ Tail(queue) \in Seq(Samples \cup {Finish})
         /\ Len(queue) >= conf.maxRequired => queue # <<>>
         /\ conf.maxRequired \in Nat /\ conf.maxRequired >= 1
<1>1. queue \in Seq(Samples \cup {Finish})
  BY DEF Stored
<1>2. queue # <<>> => /\ Head(queue) = queue[1] /\ 1 \in 1..Len(queue)
                      /\ Head(queue) \in Samples \cup {Finish} /\ Tail(queue) \in Seq(Samples \cup {Finish})
  BY <1>1, EmptySeq, HeadTailProperties
<1>3. conf.maxRequired \in Nat /\ conf.maxRequired >= 1
  <2>1. conf \in Configs
    BY DEF Stored
  <2>2. conf.concurrent \in 1..conf.maxRequired /\ conf.maxRequired \in Nat
    BY <2>1, RollouterAssumption
  <2> QED BY <2>2
<1> QED BY <1>1, <1>2, <1>3, EmptySeq DEF Has

\* A queue without the finish signal holds samples.
LEMMA QueueSamples ==
  ASSUME Stored, ~Has(queue, Finish)
  PROVE  /\ queue \in Seq(Samples)
         /\ queue # <<>> => Head(queue) \in Samples /\ Has(queue, Head(queue)) /\ Tail(queue) \in Seq(Samples)
<1>1. \A i \in 1..Len(queue) : queue[i] \in Samples
  <2>1. \A i \in 1..Len(queue) : queue[i] \in Samples \cup {Finish}
    BY ElementOfSeq DEF Stored
  <2> QED BY <2>1 DEF Has
<1>2. queue \in Seq(Samples)
  <2>1. DOMAIN queue = 1..Len(queue) /\ Len(queue) \in Nat /\ queue \in Seq(Samples \cup {Finish})
    BY LenProperties DEF Stored
  <2> QED BY <1>1, <2>1, SeqDef
<1>3. queue # <<>> => Head(queue) = queue[1] /\ 1 \in 1..Len(queue) /\ Tail(queue) \in Seq(Samples)
  BY <1>2, EmptySeq, HeadTailProperties
<1> QED BY <1>1, <1>2, <1>3 DEF Has

\* What a put does to the queue: q is what is left of it.
LEMMA PutEffect ==
  ASSUME Stored, NEW m \in transit, PutSample(m, conf.maxRequired), transit' = transit \ {m}
  PROVE  \E q \in {queue, Tail(queue)} :
           /\ q \in Seq(Samples \cup {Finish})
           /\ queue' = Append(q, m) /\ queue' \in Seq(Samples \cup {Finish}) /\ Len(queue') = Len(q) + 1
           /\ \A i \in 1..Len(q) : queue'[i] = q[i] /\ Has(queue, q[i])
           /\ queue'[Len(q) + 1] = m
           /\ \A e : Has(queue', e) <=> Has(q, e) \/ e = m
           /\ \/ q = queue /\ dropped' = dropped /\ Len(queue) < conf.maxRequired
              \/ /\ q = Tail(queue) /\ queue # <<>> /\ dropped' = dropped \cup {Head(queue)}
                 /\ Len(queue) >= conf.maxRequired
                 /\ \A i \in 1..Len(q) : i + 1 \in 1..Len(queue) /\ q[i] = queue[i + 1]
<1> DEFINE All == Samples \cup {Finish}
<1>0. queue \in Seq(All) /\ m \in All /\ Len(queue) \in Nat /\ conf.maxRequired \in Nat
  BY FullQueue, LenProperties DEF Stored
<1>1. ASSUME NEW q \in Seq(All), queue' = Append(q, m)
      PROVE  /\ queue' \in Seq(All) /\ Len(queue') = Len(q) + 1
             /\ \A i \in 1..Len(q) : queue'[i] = q[i]
             /\ queue'[Len(q) + 1] = m
             /\ \A e : Has(queue', e) <=> Has(q, e) \/ e = m
  <2>1. /\ queue' \in Seq(All) /\ Len(queue') = Len(q) + 1 /\ Len(q) \in Nat
        /\ \A i \in 1..Len(q) : queue'[i] = q[i]
        /\ queue'[Len(q) + 1] = m
    BY <1>0, <1>1, AppendProperties, LenProperties
  <2>2. \A i \in 1..Len(queue') : i \in 1..Len(q) \/ i = Len(q) + 1
    BY <2>1
  <2>3. \A i \in 1..Len(q) : i \in 1..Len(queue')
    BY <2>1
  <2>4. Len(q) + 1 \in 1..Len(queue')
    BY <2>1
  <2>5. \A e : Has(queue', e) <=> Has(q, e) \/ e = m
    BY <2>1, <2>2, <2>3, <2>4 DEF Has
  <2> QED BY <2>1, <2>5
<1>2. CASE Len(queue) >= conf.maxRequired
  <2>1. queue # <<>> /\ queue' = Append(Tail(queue), m) /\ dropped' = dropped \cup {Head(queue)}
    BY <1>2, FullQueue DEF PutSample
  <2>2. /\ Tail(queue) \in Seq(All) /\ Len(Tail(queue)) = Len(queue) - 1
        /\ \A i \in 1..Len(Tail(queue)) : Tail(queue)[i] = queue[i + 1]
    BY <1>0, <2>1, HeadTailProperties
  <2>3. \A i \in 1..Len(Tail(queue)) : i + 1 \in 1..Len(queue)
    BY <1>0, <2>2
  <2>4. \A i \in 1..Len(Tail(queue)) : Has(queue, Tail(queue)[i])
    BY <2>2, <2>3 DEF Has
  <2> HIDE DEF All
  <2>5. PICK q : q = Tail(queue)
    OBVIOUS
  <2>6. q \in Seq(All) /\ queue' = Append(q, m) /\ q \in {queue, Tail(queue)}
    BY <2>1, <2>2, <2>5
  <2>7. /\ queue' \in Seq(All) /\ Len(queue') = Len(q) + 1
        /\ \A i \in 1..Len(q) : queue'[i] = q[i]
        /\ queue'[Len(q) + 1] = m
        /\ \A e : Has(queue', e) <=> Has(q, e) \/ e = m
    BY <1>1, <2>6
  <2>8. \A i \in 1..Len(q) : i + 1 \in 1..Len(queue) /\ q[i] = queue[i + 1] /\ Has(queue, q[i])
    BY <2>2, <2>3, <2>4, <2>5
  <2> QED BY <1>2, <2>1, <2>5, <2>6, <2>7, <2>8 DEF All
<1>3. CASE ~(Len(queue) >= conf.maxRequired)
  <2>1. queue' = Append(queue, m) /\ dropped' = dropped /\ Len(queue) < conf.maxRequired
    BY <1>0, <1>3 DEF PutSample
  <2>2. \A i \in 1..Len(queue) : Has(queue, queue[i])
    BY DEF Has
  <2> HIDE DEF All
  <2>3. /\ queue' \in Seq(All) /\ Len(queue') = Len(queue) + 1
        /\ \A i \in 1..Len(queue) : queue'[i] = queue[i]
        /\ queue'[Len(queue) + 1] = m
        /\ \A e : Has(queue', e) <=> Has(queue, e) \/ e = m
    BY <1>0, <1>1, <2>1
  <2> QED BY <1>0, <2>1, <2>2, <2>3 DEF All
<1> QED BY <1>2, <1>3

\* When main has sent the finish signal, processor and consumer have stopped.
LEMMA MainSends ==
  ASSUME LInv, MainFinishes
  PROVE  /\ ~Sent /\ Sent' /\ transit' = transit \cup {Finish} /\ at'["consumer"] = "off"
         /\ at'["main"] = "put" /\ at'["proc"] = at["proc"] /\ UNCHANGED <<queue, dropped, resultq>>
         /\ at["proc"] # "failed" => at["proc"] = "ended" /\ resultq = <<>> /\ at["consumer"] = "idle"
<1>1. DOMAIN at = Coroutines /\ "main" \in Runs
  BY RunningIs DEF MainFinishes, RunningIn, LInv, Scheduling, Points, Coroutines
<1>2. at["proc"] \in {"ended", "failed"}
  BY <1>1 DEF LInv, Scheduling, Runnable, MainRuns
<1> QED BY <1>1, <1>2 DEF MainFinishes, RunningIn, Sent, Unfinished, Coroutines, mqVars

\* Where the processor runs.
LEMMA ProcessorRuns ==
  ASSUME Processor
  PROVE  Running("proc") /\ at["proc"] \notin {"asleep", "ended", "failed"}
BY DEF Processor, ProcTop, ProcGet, ProcMark, ProcLoop, ProcDrain, ProcCollect, ProcSleep, ProcNotified,
       ProcSubmit, RunningAt, RunningIn

\* What sending leaves as it is.
LEMMA SentStep ==
  ASSUME LInv, [Next]_vars
  PROVE  /\ Sent' <=> Sent \/ MainFinishes
         /\ Sent => at'["proc"] = at["proc"] /\ at["proc"] \in {"ended", "failed"}
         /\ at["proc"] = "failed" => at'["proc"] = "failed"
<1>0. DOMAIN at = Coroutines
  BY DEF LInv, Scheduling, Points
<1>1. Sent' <=> Sent \/ MainFinishes
  <2>1. CASE MainFinishes
    BY <2>1, MainSends
  <2>2. CASE ~MainFinishes
    <3>1. at'["main"] = at["main"] \/ MainJoins \/ MainLocks \/ MainEnds
      BY <1>0, <2>2, PointStep DEF PointFrames
    <3>2. MainJoins => ~Sent /\ ~Sent'
      BY <1>0 DEF MainJoins, RunningAt, RunningIn, Go, Sent, Coroutines
    <3>3. MainLocks \/ MainEnds => Sent /\ Sent'
      BY <1>0 DEF MainLocks, MainEnds, RunningAt, RunningIn, Acquire, Go, Sent, Coroutines
    <3> QED BY <2>2, <3>1, <3>2, <3>3 DEF Sent
  <2> QED BY <2>1, <2>2
<1>2. ASSUME at["proc"] \in {"ended", "failed"}
      PROVE  at'["proc"] = at["proc"]
  <2>1. ~Processor
    BY <1>2, ProcessorRuns
  <2> QED BY <1>0, <1>2, <2>1, PointStep DEF PointFrames
<1>3. Sent => at["proc"] \in {"ended", "failed"}
  BY DEF LInv, Scheduling, Runnable, MainRuns, Sent
<1> QED BY <1>1, <1>2, <1>3

\* The consumer's point and the messages on their way.
LEMMA TransitStep ==
  ASSUME LInv, Hand, Stored, [Next]_vars
  PROVE  /\ transit' \subseteq Samples \cup {Finish}
         /\ \A s, t \in transit' : s \in Samples /\ t \in Samples => s = t
         /\ at'["consumer"] \in {"idle", "on"} => transit' = {}
         /\ Sent' => at'["consumer"] = "off"
         /\ ~Sent' => Finish \notin transit'
         /\ Sent' /\ at'["proc"] # "failed" => transit' \subseteq {Finish}
<1>0. /\ DOMAIN at = Coroutines /\ "consumer" \in Coroutines /\ Finish \notin Samples
      /\ resultq \in Seq(Samples)
  BY RollouterAssumption DEF LInv, Scheduling, Points, Coroutines, Hand
<1>1. CASE ConsumerPuts
  <2>1. /\ at["consumer"] = "on" /\ at'["consumer"] = "put" /\ at'["proc"] = at["proc"]
        /\ transit' = transit \cup {Head(resultq)} /\ resultq # <<>> /\ at'["main"] = at["main"]
    BY <1>0, <1>1 DEF ConsumerPuts, RunningAt, RunningIn, Go, Coroutines
  <2>2. transit = {} /\ ~Sent /\ ~Sent' /\ Head(resultq) \in Samples
    BY <1>0, <2>1, HeadTailProperties DEF Stored, Sent
  <2> QED BY <1>0, <2>1, <2>2
<1>2. CASE MainFinishes
  BY <1>0, <1>2, MainSends DEF Stored
<1>3. CASE PutRuns
  <2>1. PICK m \in transit : transit' = transit \ {m}
    BY <1>3 DEF PutRuns
  <2>2. at' = at
    BY <1>3 DEF PutRuns
  <2> QED BY <2>1, <2>2 DEF Stored, Sent
<1>4. CASE ~(ConsumerPuts \/ MainFinishes \/ PutRuns)
  <2>1. transit' = transit
    BY <1>4, DataStep DEF DataFrames
  <2>2. (Sent' <=> Sent) /\ (at'["proc"] # "failed" => at["proc"] # "failed")
    BY <1>4, SentStep
  <2>3. \/ at'["consumer"] = at["consumer"]
        \/ at["consumer"] = "idle" /\ at'["consumer"] = "on"
        \/ at["consumer"] = "on" /\ at'["consumer"] = "idle"
        \/ at["consumer"] = "put" /\ transit = {}
    <3>1. TaskEnd => \/ at'["consumer"] = at["consumer"]
                     \/ at["consumer"] = "idle" /\ at'["consumer"] = "on"
      BY <1>0 DEF TaskEnd
    <3>2. ConsumerIdles => at["consumer"] = "on" /\ at'["consumer"] = "idle"
      BY <1>0 DEF ConsumerIdles, RunningAt, RunningIn, Go
    <3>3. MainJoins \/ MainLocks \/ MainEnds => at'["consumer"] = at["consumer"]
      BY <1>0 DEF MainJoins, MainLocks, MainEnds, Acquire, Go
    <3>4. PutAnswered => at["consumer"] = "put" /\ transit = {}
      BY DEF PutAnswered
    <3> QED BY <1>0, <1>4, <3>1, <3>2, <3>3, <3>4, PointStep DEF PointFrames, Stream
  <2>4. at["consumer"] \in {"put", "idle", "on"} => ~Sent
    BY DEF Stored
  <2> QED BY <2>1, <2>2, <2>3, <2>4 DEF Stored
<1> QED BY <1>1, <1>2, <1>3, <1>4

LEMMA QueueStep ==
  ASSUME LInv, Hand, Stored, [Next]_vars
  PROVE  /\ queue' \in Seq(Samples \cup {Finish}) /\ dropped' \subseteq Samples \cup {Finish}
         /\ ~Sent' \/ Finish \in transit' => ~Has(queue', Finish)
         /\ at'["proc"] # "failed" => \A i \in 1..Len(queue') : queue'[i] = Finish => i = Len(queue')
<1> DEFINE All == Samples \cup {Finish}
<1>0. queue \in Seq(All) /\ dropped \subseteq All /\ Finish \notin Samples /\ Len(queue) \in Nat
  BY RollouterAssumption, LenProperties DEF Stored
<1>1. (Sent' <=> Sent \/ MainFinishes) /\ (at'["proc"] # "failed" => at["proc"] # "failed")
  BY SentStep
<1>2. CASE PutRuns
  <2>1. PICK m \in transit : PutSample(m, conf.maxRequired) /\ transit' = transit \ {m}
    BY <1>2 DEF PutRuns
  <2>2. at' = at /\ m \in All
    BY <1>2 DEF PutRuns, Stored
  <2>3. PICK q \in {queue, Tail(queue)} :
          /\ q \in Seq(All)
          /\ queue' = Append(q, m) /\ queue' \in Seq(All) /\ Len(queue') = Len(q) + 1
          /\ \A i \in 1..Len(q) : queue'[i] = q[i] /\ Has(queue, q[i])
          /\ queue'[Len(q) + 1] = m
          /\ \A e : Has(queue', e) <=> Has(q, e) \/ e = m
          /\ \/ q = queue /\ dropped' = dropped /\ Len(queue) < conf.maxRequired
             \/ /\ q = Tail(queue) /\ queue # <<>> /\ dropped' = dropped \cup {Head(queue)}
                /\ Len(queue) >= conf.maxRequired
                /\ \A i \in 1..Len(q) : i + 1 \in 1..Len(queue) /\ q[i] = queue[i + 1]
    BY <2>1, PutEffect
  <2>4. dropped' \subseteq All
    BY <1>0, <2>3, FullQueue
  <2>5. \A e : Has(q, e) => Has(queue, e)
    BY <2>3 DEF Has
  <2>6. ~Sent' \/ Finish \in transit' => ~Has(queue', Finish)
    <3>1. ~Sent \/ Finish \in transit' => ~Has(queue, Finish) /\ m # Finish
      BY <2>1 DEF Stored
    <3> QED BY <2>2, <2>3, <2>5, <3>1 DEF Sent
  <2>7. ASSUME at["proc"] # "failed", NEW i \in 1..Len(queue'), queue'[i] = Finish
        PROVE  i = Len(queue')
    <3>1. CASE i \in 1..Len(q)
      <4>1. Has(queue, Finish)
        BY <2>3, <2>7, <3>1
      <4>2. Sent /\ Finish \notin transit
        BY <4>1 DEF Stored
      <4> QED BY <2>7, <4>2 DEF Stored
    <3>2. CASE i \notin 1..Len(q)
      <4>1. Len(q) \in Nat
        BY <2>3, LenProperties
      <4> QED BY <2>3, <3>2, <4>1
    <3> QED BY <3>1, <3>2
  <2> QED BY <1>1, <2>3, <2>4, <2>6, <2>7
<1>3. CASE Collect \/ CollectEnd
  <2>1. queue # <<>> /\ queue' = Tail(queue) /\ UNCHANGED <<dropped, at, transit>>
    BY <1>3 DEF Collect, CollectEnd, GetSample, rVars, sched, queues
  <2>2. /\ queue' \in Seq(All) /\ Len(queue') = Len(queue) - 1
        /\ \A i \in 1..Len(queue') : queue'[i] = queue[i + 1]
    BY <1>0, <2>1, HeadTailProperties
  <2>3. \A i \in 1..Len(queue') : i + 1 \in 1..Len(queue)
    BY <1>0, <2>2
  <2>4. Has(queue', Finish) => Has(queue, Finish)
    BY <2>2, <2>3 DEF Has
  <2>5. ASSUME at["proc"] # "failed", NEW i \in 1..Len(queue'), queue'[i] = Finish
        PROVE  i = Len(queue')
    <3>1. i + 1 = Len(queue)
      BY <2>2, <2>3, <2>5 DEF Stored
    <3> QED BY <1>0, <2>2, <3>1
  <2>6. ~Sent' \/ Finish \in transit' => ~Has(queue', Finish)
    <3>1. (Sent' <=> Sent) /\ transit' = transit
      BY <2>1 DEF Sent
    <3> QED BY <2>4, <3>1 DEF Stored
  <2>7. dropped' \subseteq All /\ at'["proc"] = at["proc"]
    BY <1>0, <2>1
  <2> QED BY <2>2, <2>5, <2>6, <2>7
<1>4. CASE ~(PutRuns \/ Collect \/ CollectEnd)
  <2>1. UNCHANGED <<queue, dropped>>
    BY <1>4, DataStep DEF DataFrames
  <2>2. Has(queue', Finish) <=> Has(queue, Finish)
    BY <2>1
  <2>3. CASE MainFinishes
    BY <1>0, <1>1, <2>1, <2>2, <2>3, MainSends DEF Stored
  <2>4. CASE ~MainFinishes
    <3>1. transit' = transit \/ ConsumerPuts
      BY <1>4, <2>4, DataStep DEF DataFrames
    <3>2. ConsumerPuts => ~Sent
      BY DEF ConsumerPuts, RunningAt, RunningIn, Stored
    <3> QED BY <1>0, <1>1, <2>1, <2>2, <2>4, <3>1, <3>2 DEF Stored
  <2> QED BY <2>3, <2>4
<1> QED BY <1>2, <1>3, <1>4

LEMMA StoredStep ==
  ASSUME LInv, Hand, Stored, [Next]_vars
  PROVE  Stored'
<1>0. gen \in [Samples -> {"none", "sent", "decoding"} \cup Asks] /\ Order /\ TaskList
  BY DEF LInv, TaskList
<1>1. conf' \in Configs
  BY DataStep DEF DataFrames, Stored
<1>2. /\ queue' \in Seq(Samples \cup {Finish}) /\ dropped' \subseteq Samples \cup {Finish}
      /\ ~Sent' \/ Finish \in transit' => ~Has(queue', Finish)
      /\ at'["proc"] # "failed" => \A i \in 1..Len(queue') : queue'[i] = Finish => i = Len(queue')
  BY QueueStep
<1>3. batch' \in Seq(Samples)
  <2>1. CASE Collect
    BY <2>1, AppendProperties DEF Collect, Stored
  <2>2. CASE Train
    BY <2>2, EmptySeq DEF Train
  <2> QED BY <2>1, <2>2, DataStep DEF DataFrames, Stored
<1>4. trained' \subseteq Samples
  <2>1. CASE Train
    <3>1. \A i \in DOMAIN batch : batch[i] \in Samples
      BY LenProperties, ElementOfSeq DEF Stored
    <3> QED BY <2>1, <3>1 DEF Train, ToSet, Stored
  <2> QED BY <2>1, DataStep DEF DataFrames, Stored
<1>5. failed' \subseteq Samples /\ \A s \in Samples : gen'[s] = "error" => s \in failed'
  <2>1. CASE ProcSubmit
    <3>1. UNCHANGED failed /\ (gen' = gen \/ gen' = [gen EXCEPT ![hand] = "created"])
      BY <2>1 DEF ProcSubmit, CreateTask
    <3> QED BY <1>0, <3>1 DEF Stored
  <2>2. CASE TaskBegin
    <3>1. UNCHANGED failed /\ gen' = [gen EXCEPT ![Head(due)] = "sent"]
      BY <2>2 DEF TaskBegin, TaskFrame
    <3> QED BY <1>0, <3>1 DEF Stored
  <2>3. CASE TaskEnd
    <3>1. UNCHANGED failed /\ gen' = [gen EXCEPT ![Head(due)] = "none"]
      BY <2>3 DEF TaskEnd, TaskFrame
    <3> QED BY <1>0, <3>1 DEF Stored
  <2>4. CASE Server
    <3>1. PICK s \in Samples : ServerStarts(s) \/ ServerFinishes(s) \/ ServerCancels(s) \/ ServerRaises(s)
      BY <2>4 DEF Server
    <3>2. \/ UNCHANGED failed /\ \E answer \in {"decoding", "complete", "cancelled"} :
                                   gen' = [gen EXCEPT ![s] = answer]
          \/ failed' = failed \cup {s} /\ gen' = [gen EXCEPT ![s] = "error"]
      BY <3>1 DEF ServerStarts, ServerFinishes, ServerCancels, ServerRaises, ServerAnswers
    <3> QED BY <1>0, <3>2 DEF Stored
  <2>5. CASE ~(ProcSubmit \/ TaskBegin \/ TaskEnd \/ Server)
    BY <2>5, DataStep DEF DataFrames, Stored
  <2> QED BY <2>1, <2>2, <2>3, <2>4, <2>5
<1>6. /\ transit' \subseteq Samples \cup {Finish}
      /\ \A s, t \in transit' : s \in Samples /\ t \in Samples => s = t
      /\ at'["consumer"] \in {"idle", "on"} => transit' = {}
      /\ Sent' => at'["consumer"] = "off"
      /\ ~Sent' => Finish \notin transit'
      /\ Sent' /\ at'["proc"] # "failed" => transit' \subseteq {Finish}
  BY TransitStep
<1> QED BY <1>1, <1>2, <1>3, <1>4, <1>5, <1>6 DEF Stored

LEMMA InSet ==
  ASSUME NEW A, NEW seq \in Seq(A), NEW e
  PROVE  e \in ToSet(seq) <=> Has(seq, e)
BY LenProperties DEF ToSet, Has

\* The actions that move samples.
Moved == <<taken, hand, gen, cancelq, resultq, transit, queue, batch, trained, dropped, failed>>
Moves ==
  \/ ProcTop \/ ProcGet \/ ProcSubmit \/ TaskBegin \/ TaskEnd \/ Server \/ ConsumerPuts \/ MainFinishes
  \/ PutRuns

LEMMA MoveCases ==
  ASSUME [Next]_vars
  PROVE  \/ UNCHANGED Moved
         \/ Moves /\ UNCHANGED trainerVars
         \/ Collect \/ CollectEnd \/ Train
<1>1. CASE (EventLoop \/ Update \/ Actor \/ Answers \/ Timer \/ Server) /\ UNCHANGED trainerVars
  <2>1. UNCHANGED <<batch, trained>>
    BY <1>1 DEF trainerVars
  <2>2. ~Moves /\ ~Collect /\ ~CollectEnd => UNCHANGED <<taken, hand, gen, cancelq, resultq, transit, queue, dropped, failed>>
    BY DataStep DEF DataFrames, Moves
  <2> QED BY <1>1, <2>1, <2>2 DEF Moved
<1>2. CASE SyncPauses \/ PauseReturns \/ SyncSends \/ ReadValidation
  BY <1>2 DEF SyncPauses, PauseReturns, SyncSends, ReadValidation, CallFrame, Moved, mqVars, rVars,
              picking, tasks, queues
<1>3. CASE UNCHANGED vars
  BY <1>3 DEF vars, mqVars, rVars, picking, tasks, queues, trainerVars, Moved
<1> QED BY <1>1, <1>2, <1>3 DEF Next, Loop, Outside, Over, Trainer, Update

\* A sample is kept where it is, or moves from one place to the next.
LEMMA ConservedStep ==
  ASSUME LInv, Hand, Stored, Conserved, [Next]_vars
  PROVE  Conserved'
<1> SUFFICES ASSUME NEW s \in Samples PROVE Places(s)' = 1
  BY DEF Conserved
<1> DEFINE a == In(s > taken)
           b == In(s = hand)
           c == In(gen[s] \notin {"none", "error"})
           d == Count(cancelq, s)
           e == Count(resultq, s)
           f == Count(queue, s)
           g == Count(batch, s)
           h == In(s \in trained)
           i == In(s \in dropped)
           j == In(s \in failed)
           k == In(s \in transit)
           a1 == In(s > taken')
           b1 == In(s = hand')
           c1 == In(gen'[s] \notin {"none", "error"})
           d1 == Count(cancelq', s)
           e1 == Count(resultq', s)
           f1 == Count(queue', s)
           g1 == Count(batch', s)
           h1 == In(s \in trained')
           i1 == In(s \in dropped')
           j1 == In(s \in failed')
           k1 == In(s \in transit')
<1>1. a + b + c + d + e + k + f + g + h + i + j = 1
  BY DEF Conserved, Places
<1>2. a \in Nat /\ b \in Nat /\ c \in Nat /\ d \in Nat /\ e \in Nat /\ f \in Nat /\ g \in Nat /\ h \in Nat
      /\ i \in Nat /\ j \in Nat /\ k \in Nat
  BY PlacesType DEF LInv
<1>3. Places(s)' = a1 + b1 + c1 + d1 + e1 + k1 + f1 + g1 + h1 + i1 + j1
  BY DEF Places
<1>4. /\ taken' = taken => a1 = a
      /\ hand' = hand => b1 = b
      /\ gen' = gen => c1 = c
      /\ cancelq' = cancelq => d1 = d
      /\ resultq' = resultq => e1 = e
      /\ queue' = queue => f1 = f
      /\ batch' = batch => g1 = g
      /\ trained' = trained => h1 = h
      /\ dropped' = dropped => i1 = i
      /\ failed' = failed => j1 = j
      /\ transit' = transit => k1 = k
  OBVIOUS
<1>5. /\ TaskList /\ Order /\ taken \in Nat /\ s # 0 /\ s \in 1..Total /\ Total \in Nat
      /\ gen \in [Samples -> {"none", "sent", "decoding"} \cup Asks]
      /\ cancelq \in Seq(Samples) /\ resultq \in Seq(Samples) /\ batch \in Seq(Samples)
      /\ queue \in Seq(Samples \cup {Finish}) /\ Finish # s /\ s \in Samples \cup {Finish}
  BY RollouterAssumption DEF LInv, Scheduling, Feeding, TaskList, Hand, Stored, Samples
<1>6. /\ a1 \in Nat /\ b1 \in Nat /\ c1 \in Nat /\ d1 \in Nat /\ e1 \in Nat /\ f1 \in Nat /\ g1 \in Nat
      /\ h1 \in Nat /\ i1 \in Nat /\ j1 \in Nat /\ k1 \in Nat
  <2>1. /\ cancelq' \in Seq(Samples) /\ resultq' \in Seq(Samples) /\ batch' \in Seq(Samples)
        /\ queue' \in Seq(Samples \cup {Finish})
    BY HandStep, StoredStep DEF Hand, Stored
  <2>2. d1 \in Nat /\ e1 \in Nat /\ f1 \in Nat /\ g1 \in Nat
    BY <2>1, CountType
  <2>3. a1 \in Nat /\ b1 \in Nat /\ c1 \in Nat /\ h1 \in Nat /\ i1 \in Nat /\ j1 \in Nat /\ k1 \in Nat
    BY DEF In
  <2> QED BY <2>2, <2>3
<1>7. ASSUME UNCHANGED Moved PROVE Places(s)' = 1
  <2>1. UNCHANGED <<taken, hand, gen, cancelq, resultq, transit, queue, batch, trained, dropped, failed>>
    BY <1>7 DEF Moved
  <2> HIDE DEF a, b, c, d, e, f, g, h, i, j, k, a1, b1, c1, d1, e1, f1, g1, h1, i1, j1, k1
  <2> QED BY <1>1, <1>3, <1>4, <2>1
<1>8. ASSUME ProcTop, UNCHANGED trainerVars PROVE Places(s)' = 1
  <2>1. UNCHANGED <<taken, gen, resultq, transit, queue, batch, trained, dropped, failed>>
    BY <1>8 DEF ProcTop, mqVars, tasks, trainerVars
  <2>2. UNCHANGED <<hand, cancelq>> \/ (cancelq # <<>> /\ hand' = Head(cancelq) /\ cancelq' = Tail(cancelq))
    BY <1>8 DEF ProcTop
  <2>3. hand = 0
    BY <1>8 DEF ProcTop, RunningAt, RunningIn, Hand
  <2> DEFINE m == Head(cancelq)
             z == In(m = s)
  <2>4. cancelq # <<>> => Count(Tail(cancelq), s) = d - z
    BY <1>5, CountTail
  <2>5. z \in Nat /\ (hand' = Head(cancelq) => b1 = z)
    BY DEF In
  <2>6. cancelq' = Tail(cancelq) => d1 = Count(Tail(cancelq), s)
    OBVIOUS
  <2>7. b = 0
    BY <1>5, <2>3 DEF In
  <2>8. b1 + d1 = b + d
    <3> HIDE DEF a, b, c, d, e, f, g, h, i, j, k, a1, b1, c1, d1, e1, f1, g1, h1, i1, j1, k1, z
    <3> QED BY <1>2, <1>4, <2>2, <2>4, <2>5, <2>6, <2>7
  <2> HIDE DEF a, b, c, d, e, f, g, h, i, j, k, a1, b1, c1, d1, e1, f1, g1, h1, i1, j1, k1
  <2> QED BY <1>6, <1>1, <1>2, <1>3, <1>4, <2>1, <2>8
<1>9. ASSUME ProcGet, UNCHANGED trainerVars PROVE Places(s)' = 1
  <2>1. UNCHANGED <<gen, cancelq, resultq, transit, queue, batch, trained, dropped, failed>>
    BY <1>9 DEF ProcGet, mqVars, tasks, queues, trainerVars
  <2>2. /\ taken' = taken + 1 /\ hand = 0
        /\ IF taken + 1 \in Samples THEN hand' = taken + 1 ELSE hand' = hand
    BY <1>9 DEF ProcGet, RunningAt, RunningIn, Hand
  <2>3. a1 + b1 = a + b
    BY <1>5, <2>2 DEF In, Samples
  <2> HIDE DEF a, b, c, d, e, f, g, h, i, j, k, a1, b1, c1, d1, e1, f1, g1, h1, i1, j1, k1
  <2> QED BY <1>6, <1>1, <1>2, <1>3, <1>4, <2>1, <2>3
<1>10. ASSUME ProcSubmit, UNCHANGED trainerVars PROVE Places(s)' = 1
  <2>1. UNCHANGED <<taken, cancelq, resultq, transit, queue, batch, trained, dropped, failed>>
    BY <1>10 DEF ProcSubmit, mqVars, queues, trainerVars
  <2>2. /\ hand \in Samples /\ gen[hand] = "none"
        /\ UNCHANGED <<gen, hand>> \/ (hand' = 0 /\ gen' = [gen EXCEPT ![hand] = "created"])
    BY <1>10, HandFree, RollouterAssumption DEF ProcSubmit, CreateTask, RunningAt, RunningIn, Hand, Samples
  <2>3. b1 + c1 = b + c
    BY <1>5, <2>2 DEF In
  <2> HIDE DEF a, b, c, d, e, f, g, h, i, j, k, a1, b1, c1, d1, e1, f1, g1, h1, i1, j1, k1
  <2> QED BY <1>6, <1>1, <1>2, <1>3, <1>4, <2>1, <2>3
<1>11. ASSUME TaskBegin, UNCHANGED trainerVars PROVE Places(s)' = 1
  <2>1. UNCHANGED <<taken, hand, cancelq, resultq, transit, queue, batch, trained, dropped, failed>>
    BY <1>11 DEF TaskBegin, TaskFrame, mqVars, picking, queues, trainerVars
  <2>2. gen[Head(due)] = "created" /\ gen' = [gen EXCEPT ![Head(due)] = "sent"]
    BY <1>11 DEF TaskBegin
  <2>3. c1 = c
    BY <1>5, <2>2 DEF In
  <2> HIDE DEF a, b, c, d, e, f, g, h, i, j, k, a1, b1, c1, d1, e1, f1, g1, h1, i1, j1, k1
  <2> QED BY <1>1, <1>3, <1>4, <2>1, <2>3
<1>12. ASSUME TaskEnd, UNCHANGED trainerVars PROVE Places(s)' = 1
  <2> DEFINE t == Head(due)
  <2>1. UNCHANGED <<taken, hand, transit, queue, batch, trained, dropped, failed>>
    BY <1>12 DEF TaskEnd, TaskFrame, mqVars, picking, trainerVars
  <2>2. /\ t \in Samples /\ gen[t] \in {"complete", "cancelled", "error"}
        /\ gen' = [gen EXCEPT ![t] = "none"]
        /\ resultq' = IF gen[t] = "complete" THEN Append(resultq, t) ELSE resultq
        /\ cancelq' = IF gen[t] = "cancelled" THEN Append(cancelq, t) ELSE cancelq
    BY <1>5, <1>12, TaskRuns DEF TaskEnd, Asks
  <2> HIDE DEF t
  <2> DEFINE z == In(t = s)
  <2>3. Count(Append(resultq, t), s) = e + z /\ Count(Append(cancelq, t), s) = d + z
    BY <1>5, <2>2, CountAppend
  <2>4. gen[t] = "complete" => e1 = e + z /\ d1 = d
    BY <2>2, <2>3
  <2>5. gen[t] = "cancelled" => d1 = d + z /\ e1 = e
    BY <2>2, <2>3
  <2>6. gen[t] = "error" => d1 = d /\ e1 = e
    BY <2>2
  <2>7. IF t = s /\ gen[t] # "error" THEN z = 1 /\ c = 1 /\ c1 = 0 ELSE c1 = c
    BY <1>5, <2>2 DEF In
  <2>9. z = 0 \/ t = s
    BY DEF In
  <2> HIDE DEF a, b, c, d, e, f, g, h, i, j, k, a1, b1, c1, d1, e1, f1, g1, h1, i1, j1, k1
  <2> HIDE DEF z
  <2>8. c1 + d1 + e1 = c + d + e
    BY <1>6, <1>2, <2>2, <2>4, <2>5, <2>6, <2>7, <2>9
  <2> QED BY <1>6, <1>1, <1>2, <1>3, <1>4, <2>1, <2>8
<1>13. ASSUME Server, UNCHANGED trainerVars PROVE Places(s)' = 1
  <2>1. UNCHANGED <<taken, hand, cancelq, resultq, transit, queue, batch, trained, dropped>>
    BY <1>13 DEF Server, ServerStarts, ServerFinishes, ServerCancels, ServerRaises, ServerAnswers,
                 ServerFrame, mqVars, picking, queues, trainerVars
  <2>2. PICK t \in Samples : ServerStarts(t) \/ ServerFinishes(t) \/ ServerCancels(t) \/ ServerRaises(t)
    BY <1>13 DEF Server
  <2>3. /\ gen[t] \in {"sent", "decoding"}
        /\ \/ UNCHANGED failed /\ \E answer \in {"decoding", "complete", "cancelled"} :
                                     gen' = [gen EXCEPT ![t] = answer]
           \/ failed' = failed \cup {t} /\ gen' = [gen EXCEPT ![t] = "error"]
    BY <2>2 DEF ServerStarts, ServerFinishes, ServerCancels, ServerRaises, ServerAnswers
  <2>4. t = s => c = 1
    BY <2>3 DEF In
  <2>5. t = s => j = 0
    <3> HIDE DEF a, b, c, d, e, f, g, h, i, j, k, a1, b1, c1, d1, e1, f1, g1, h1, i1, j1, k1
    <3> QED BY <1>1, <1>2, <2>4
  <2>6. c1 + j1 = c + j
    BY <1>5, <2>3, <2>5 DEF In
  <2> HIDE DEF a, b, c, d, e, f, g, h, i, j, k, a1, b1, c1, d1, e1, f1, g1, h1, i1, j1, k1
  <2> QED BY <1>6, <1>1, <1>2, <1>3, <1>4, <2>1, <2>6
<1>14. ASSUME NEW m \in transit, PutSample(m, conf.maxRequired)
       PROVE  f1 + i1 = f + i + In(m = s)
  <2>0. m \in Samples \cup {Finish}
    BY <1>14 DEF Stored
  <2>1. CASE Len(queue) >= conf.maxRequired
    <3> DEFINE q == Tail(queue)
    <3>1. /\ queue # <<>> /\ q \in Seq(Samples \cup {Finish}) /\ Has(queue, Head(queue))
          /\ queue' = Append(q, m) /\ dropped' = dropped \cup {Head(queue)}
      BY <1>5, <1>14, <2>1, FullQueue, HeadTailProperties DEF PutSample
    <3>2. Count(q, s) = f - In(Head(queue) = s)
      BY <1>5, <3>1, CountTail
    <3>3. Count(Append(q, m), s) = Count(q, s) + In(m = s)
      <4> HIDE DEF q
      <4> QED BY <2>0, <3>1, CountAppend
    <3>4. f1 = (f - In(Head(queue) = s)) + In(m = s)
      BY <3>1, <3>2, <3>3
    <3>5. Head(queue) = s => f >= 1
      BY <1>5, <3>1, CountType
    <3>6. Head(queue) = s => i = 0
      <4> HIDE DEF a, b, c, d, e, f, g, h, i, j, k, a1, b1, c1, d1, e1, f1, g1, h1, i1, j1, k1
      <4> QED BY <1>1, <1>2, <3>5
    <3> DEFINE y == In(Head(queue) = s)
               z == In(m = s)
    <3>7. i1 = i + y
      BY <3>1, <3>6 DEF In
    <3>8. y \in Nat /\ z \in Nat /\ f1 = (f - y) + z
      BY <3>4 DEF In
    <3> HIDE DEF f, i, f1, i1, y
    <3>9. f1 + i1 = f + i + z
      <4> HIDE DEF z
      <4> QED BY <1>2, <3>7, <3>8
    <3> QED BY <3>9
  <2>2. CASE ~(Len(queue) >= conf.maxRequired)
    <3>1. queue' = Append(queue, m) /\ UNCHANGED dropped
      BY <1>14, <2>2 DEF PutSample
    <3>2. Count(Append(queue, m), s) = f + In(m = s)
      BY <1>5, <2>0, CountAppend, SMTT(30)
    <3> DEFINE z == In(m = s)
    <3>3. f1 = f + z /\ i1 = i /\ z \in Nat
      BY <3>1, <3>2 DEF In
    <3> HIDE DEF f, i, f1, i1
    <3>4. f1 + i1 = f + i + z
      <4> HIDE DEF z
      <4> QED BY <1>2, <3>3
    <3> QED BY <3>4
  <2> QED BY <2>1, <2>2
<1>15. ASSUME ConsumerPuts, UNCHANGED trainerVars PROVE Places(s)' = 1
  <2> DEFINE m == Head(resultq)
  <2>1. UNCHANGED <<taken, hand, gen, cancelq, queue, batch, trained, dropped, failed>>
    BY <1>15 DEF ConsumerPuts, mqVars, tasks, picking, trainerVars
  <2>2. /\ resultq # <<>> /\ m \in Samples
        /\ resultq' = Tail(resultq) /\ transit' = transit \cup {m}
    BY <1>5, <1>15, HeadTailProperties DEF ConsumerPuts
  <2>3. Has(resultq, m)
    BY <1>5, <2>2, EmptySeq, LenProperties DEF Has
  <2> HIDE DEF m
  <2> DEFINE z == In(m = s)
  <2>4. Count(Tail(resultq), s) = e - z
    BY <1>5, <2>2, CountTail DEF m
  <2>5. e1 = e - z /\ z \in Nat
    BY <2>2, <2>4 DEF In
  <2>6. m = s => k = 0
    <3>1. m = s => e >= 1
      BY <1>5, <2>3, CountType
    <3> HIDE DEF a, b, c, d, e, f, g, h, i, j, k, a1, b1, c1, d1, e1, f1, g1, h1, i1, j1, k1
    <3> QED BY <1>1, <1>2, <3>1
  <2>7. k1 = k + z
    BY <2>2, <2>6 DEF In
  <2> HIDE DEF z
  <2> HIDE DEF a, b, c, d, e, f, g, h, i, j, k, a1, b1, c1, d1, e1, f1, g1, h1, i1, j1, k1
  <2>8. e1 + k1 = e + k
    BY <1>6, <1>2, <2>5, <2>7
  <2> QED BY <1>6, <1>1, <1>2, <1>3, <1>4, <2>1, <2>8
<1>16. ASSUME MainFinishes, UNCHANGED trainerVars PROVE Places(s)' = 1
  <2>1. UNCHANGED <<taken, hand, gen, cancelq, resultq, queue, batch, trained, dropped, failed>>
    BY <1>16 DEF MainFinishes, mqVars, tasks, picking, trainerVars
  <2>2. transit' = transit \cup {Finish}
    BY <1>16 DEF MainFinishes
  <2>3. k1 = k
    BY <1>5, <2>2 DEF In
  <2> HIDE DEF a, b, c, d, e, f, g, h, i, j, k, a1, b1, c1, d1, e1, f1, g1, h1, i1, j1, k1
  <2> QED BY <1>6, <1>1, <1>2, <1>3, <1>4, <2>1, <2>3
<1>19. ASSUME PutRuns, UNCHANGED trainerVars PROVE Places(s)' = 1
  <2>1. UNCHANGED <<taken, hand, gen, cancelq, resultq, batch, trained, failed>>
    BY <1>19 DEF PutRuns, ActorFrame, tasks, picking, trainerVars
  <2>2. PICK m \in transit : PutSample(m, conf.maxRequired) /\ transit' = transit \ {m}
    BY <1>19 DEF PutRuns
  <2> DEFINE z == In(m = s)
  <2>3. f1 + i1 = f + i + z /\ z \in Nat
    BY <1>14, <2>2 DEF In
  <2>4. k1 = k - z
    BY <2>2 DEF In
  <2> HIDE DEF a, b, c, d, e, f, g, h, i, j, k, a1, b1, c1, d1, e1, f1, g1, h1, i1, j1, k1, z
  <2>5. k1 + f1 + i1 = k + f + i
    BY <1>6, <1>2, <2>3, <2>4
  <2> QED BY <1>6, <1>1, <1>2, <1>3, <1>4, <2>1, <2>5
<1>17. ASSUME Collect \/ CollectEnd PROVE Places(s)' = 1
  <2>1. UNCHANGED <<taken, hand, gen, cancelq, resultq, transit, trained, dropped, failed>>
    BY <1>17 DEF Collect, CollectEnd, rVars, tasks, picking, queues
  <2>2. /\ queue # <<>> /\ queue' = Tail(queue)
        /\ \/ Head(queue) \in Samples /\ batch' = Append(batch, Head(queue))
           \/ Head(queue) = Finish /\ batch' = batch
    BY <1>17 DEF Collect, CollectEnd, GetSample
  <2> DEFINE z == In(Head(queue) = s)
  <2>3. Count(Tail(queue), s) = f - z
    BY <1>5, <2>2, CountTail
  <2>4. f1 = f - z /\ z \in Nat
    BY <2>2, <2>3 DEF In
  <2>5. g1 = g + z
    <3>1. CASE Head(queue) \in Samples /\ batch' = Append(batch, Head(queue))
      BY <1>5, <3>1, CountAppend
    <3>2. CASE Head(queue) = Finish /\ batch' = batch
      <4>1. In(Head(queue) = s) = 0 /\ g1 = g
        BY <1>5, <3>2 DEF In
      <4> HIDE DEF g, g1
      <4> QED BY <1>2, <4>1
    <3> QED BY <2>2, <3>1, <3>2
  <2> HIDE DEF a, b, c, d, e, f, g, h, i, j, k, a1, b1, c1, d1, e1, f1, g1, h1, i1, j1, k1, z
  <2>6. f1 + g1 = f + g
    BY <1>6, <1>2, <2>4, <2>5
  <2> QED BY <1>6, <1>1, <1>2, <1>3, <1>4, <2>1, <2>6
<1>18. ASSUME Train PROVE Places(s)' = 1
  <2>1. UNCHANGED <<taken, hand, gen, cancelq, resultq, transit, queue, dropped, failed>>
    BY <1>18 DEF Train, mqVars, rVars, tasks, picking, queues
  <2>2. trained' = trained \cup ToSet(batch) /\ batch' = <<>>
    BY <1>18 DEF Train
  <2>3. s \in ToSet(batch) <=> g >= 1
    BY <1>5, InSet, CountType
  <2>4. g1 = 0
    BY <2>2, CountEmpty
  <2>5. g >= 1 => g = 1 /\ h = 0
    <3> HIDE DEF a, b, c, d, e, f, g, h, i, j, k, a1, b1, c1, d1, e1, f1, g1, h1, i1, j1, k1
    <3> QED BY <1>1, <1>2
  <2>6. IF g >= 1 THEN h1 = 1 ELSE h1 = h
    BY <2>2, <2>3 DEF In
  <2> HIDE DEF a, b, c, d, e, f, g, h, i, j, k, a1, b1, c1, d1, e1, f1, g1, h1, i1, j1, k1
  <2>7. g1 + h1 = g + h
    BY <1>6, <1>2, <2>4, <2>5, <2>6
  <2> QED BY <1>6, <1>1, <1>2, <1>3, <1>4, <2>1, <2>7
<1> HIDE DEF a, b, c, d, e, f, g, h, i, j, k, a1, b1, c1, d1, e1, f1, g1, h1, i1, j1, k1
<1> QED BY <1>7, <1>8, <1>9, <1>10, <1>11, <1>12, <1>13, <1>15, <1>16, <1>17, <1>18, <1>19, MoveCases
  DEF Moves

-----------------------------------------------------------------------------
\* The trainer and its versions.

LEMMA ConfType ==
  ASSUME Stored
  PROVE  /\ conf.partial \in BOOLEAN /\ conf.required \in Nat \ {0} /\ conf.triggerStep \in Nat \ {0}
         /\ conf.maxRequired \in Nat \ {0}
<1>1. conf \in Configs
  BY DEF Stored
<1>2. conf.concurrent \in 1..conf.maxRequired /\ conf.maxRequired \in Nat
  BY <1>1, RollouterAssumption
<1> QED BY <1>1, <1>2, RollouterAssumption

\* What is not the trainer's step leaves its variables alone.
LEMMA NotTrainer ==
  ASSUME [Next]_vars
  PROVE  Trainer \/ UNCHANGED trainerVars
BY DEF Next, Loop, Outside, Over, vars

LEMMA VersionStep ==
  ASSUME Points, Stored, Training, [Next]_vars, UNCHANGED trainerVars
  PROVE  rversion' \in Nat /\ call.version = rversion' + In(at'["update"] \in {"sent", "called", "start"})
<1>0. DOMAIN at = Coroutines /\ "update" \in Coroutines /\ call.version \in Nat /\ rversion \in Nat
      /\ call.version = rversion + In(at["update"] \in {"sent", "called", "start"})
  BY DEF Points, Coroutines, Training
<1>1. CASE UpdateStart(call.version)
  <2>1. rversion' = call.version /\ at'["update"] = "size"
    BY <1>0, <1>1 DEF UpdateStart, Go
  <2>2. In(at'["update"] \in {"sent", "called", "start"}) = 0
    BY <2>1 DEF In
  <2> QED BY <1>0, <2>1, <2>2
<1>2. CASE UpdateAssign \/ UpdateEnd \/ SizeRuns \/ ValidateRuns(call.validate)
  <2>1. /\ rversion' = rversion /\ at["update"] \in {"size", "assign", "validate", "put"}
        /\ at'["update"] \in {"assign", "validate", "put", "off"}
    BY <1>0, <1>2 DEF UpdateAssign, UpdateEnd, SizeRuns, ValidateRuns, ActorFrame, RunningAt, RunningIn, Go, counting
  <2> QED BY <1>0, <2>1 DEF In
<1>3. CASE UpdateCalled \/ UpdateArrives
  <2>1. rversion' = rversion /\ at["update"] \in {"sent", "called"} /\ at'["update"] \in {"called", "start"}
    BY <1>0, <1>3 DEF UpdateCalled, UpdateArrives, Wakes, Enters, RunningAt, RunningIn, Acquire, Go, counting
  <2> QED BY <1>0, <2>1 DEF In
<1>4. CASE ~(Update \/ UpdateEnd \/ UpdateCalled \/ UpdateArrives \/ SizeRuns \/ ValidateRuns(call.validate))
  <2>1. rversion' = rversion
    BY <1>4, DataStep DEF DataFrames, Update
  <2>2. at'["update"] = at["update"]
    BY <1>0, <1>4, PointStep DEF PointFrames, SyncSends, trainerVars
  <2> QED BY <1>0, <2>1, <2>2
<1> QED BY <1>1, <1>2, <1>3, <1>4 DEF Update

LEMMA TrainingStep ==
  ASSUME LInv, Stored, Training, [Next]_vars
  PROVE  Training'
<1>0. /\ Points /\ DOMAIN at = Coroutines /\ "update" \in Coroutines /\ conf' = conf
      /\ conf.required \in Nat \ {0} /\ conf.triggerStep \in Nat \ {0}
      /\ batch \in Seq(Samples) /\ Len(batch) \in Nat /\ Len(<<>>) = 0
  BY DataStep, ConfType, LenProperties DEF LInv, Scheduling, Points, Coroutines, DataFrames, Stored
<1>1. /\ version \in Nat /\ call.version \in Nat /\ rversion \in Nat /\ local \in 1..conf.triggerStep
      /\ version = call.version + In(Syncing)
      /\ call.version = rversion + In(at["update"] \in {"sent", "called", "start"})
  BY DEF Training
<1>2. CASE UNCHANGED trainerVars
  <2>1. rversion' \in Nat /\ call.version = rversion' + In(at'["update"] \in {"sent", "called", "start"})
    BY <1>0, <1>2, VersionStep
  <2>2. UNCHANGED <<tpc, batch, trained, local, version, call, final>>
    BY <1>2 DEF trainerVars
  <2> QED BY <1>0, <2>1, <2>2 DEF Training, Syncing
<1>3. CASE Collect
  <2>1. /\ tpc = "collect" /\ UNCHANGED <<at, local, version, call, final, rversion>>
        /\ \E s \in Samples : batch' = Append(batch, s)
        /\ tpc' = IF Len(batch') = conf.required THEN "train" ELSE "collect"
    BY <1>0, <1>3 DEF Collect, rVars, sched, counting
  <2>2. Len(batch') = Len(batch) + 1
    BY <1>0, <2>1, AppendProperties
  <2>3. ~Syncing /\ ~Syncing'
    BY <2>1 DEF Syncing
  <2> QED BY <1>0, <2>1, <2>2, <2>3 DEF Training, In
<1>4. CASE CollectEnd
  <2>1. /\ tpc = "collect" /\ UNCHANGED <<at, batch, call, rversion>>
        /\ \/ version' = version + 1 /\ local' = 1 /\ tpc' = "wait_last" /\ final' = TRUE
           \/ tpc' = "done" /\ UNCHANGED <<local, version, final>>
    BY <1>4 DEF CollectEnd, StartSync, rVars, sched, counting
  <2>2. ~Syncing /\ (Syncing' <=> tpc' = "wait_last")
    BY <2>1 DEF Syncing
  <2>3. version' \in Nat /\ version' = call.version' + In(Syncing')
    BY <1>0, <1>1, <2>1, <2>2 DEF In
  <2>4. rversion' \in Nat /\ call.version' = rversion' + In(at'["update"] \in {"sent", "called", "start"})
    BY <1>0, <1>1, <2>1
  <2>5. tpc' \in {"wait_last", "done"} /\ final' \in BOOLEAN /\ (Syncing' => final')
    BY <2>1, <2>2 DEF Training
  <2>6. local' \in 1..conf'.triggerStep /\ Len(batch') <= conf'.required
    BY <1>0, <1>1, <2>1 DEF Training
  <2> QED BY <1>1, <2>1, <2>3, <2>4, <2>5, <2>6 DEF Training
<1>5. CASE Train
  <2>1. /\ tpc = "train" /\ UNCHANGED <<at, call, final, rversion>> /\ batch' = <<>>
        /\ \/ local < conf.triggerStep /\ local' = local + 1 /\ tpc' = "getval" /\ UNCHANGED version
           \/ version' = version + 1 /\ local' = 1 /\ tpc' = "wait_last"
    BY <1>5 DEF Train, StartSync, rVars, sched, counting
  <2>2. ~Syncing /\ (Syncing' <=> tpc' = "wait_last")
    BY <2>1 DEF Syncing
  <2> QED BY <1>0, <1>1, <2>1, <2>2 DEF Training, In
<1>6. CASE SyncPauses \/ PauseReturns
  <2>1. /\ tpc \in {"wait_last", "pausing"} /\ tpc' \in {"pausing", "weights"}
        /\ UNCHANGED <<batch, local, version, call, final, rversion>> /\ at'["update"] = at["update"]
    BY <1>0, <1>6 DEF SyncPauses, PauseReturns, CallFrame, Go, counting
  <2>2. Syncing /\ Syncing'
    BY <2>1 DEF Syncing
  <2> QED BY <1>0, <2>1, <2>2 DEF Training, In
<1>7. CASE SyncSends
  <2>1. /\ tpc = "weights" /\ UNCHANGED <<batch, local, version, final, rversion>>
        /\ tpc' = (IF final THEN "final" ELSE "getval") /\ call'.version = version
        /\ at'["update"] = "sent"
    BY <1>0, <1>7 DEF SyncSends, CallFrame, counting
  <2>2. Syncing /\ ~Syncing' /\ at["update"] = "off"
    BY <1>0, <2>1 DEF Syncing, Points
  <2>3. version = rversion + 1
    BY <1>1, <2>2 DEF In
  <2> QED BY <1>0, <1>1, <2>1, <2>2, <2>3 DEF Training, In
<1>8. CASE ReadValidation
  <2>1. /\ UNCHANGED <<at, batch, local, version, call, final, rversion>>
        /\ \/ tpc = "getval" /\ tpc' = "collect"
           \/ tpc = "final" /\ tpc' = "done"
    BY <1>8 DEF ReadValidation, rVars, sched, counting
  <2>2. ~Syncing /\ ~Syncing'
    BY <2>1 DEF Syncing
  <2> QED BY <1>0, <2>1, <2>2 DEF Training, In
<1> QED BY <1>2, <1>3, <1>4, <1>5, <1>6, <1>7, <1>8, NotTrainer DEF Trainer

-----------------------------------------------------------------------------
\* What a paused rollouter cannot do.

LEMMA DecodeStep ==
  ASSUME TaskList, [Next]_vars, serverPaused, \A s \in Samples : gen[s] # "decoding"
  PROVE  \A s \in Samples : gen'[s] # "decoding"
<1>0. gen \in [Samples -> {"none", "sent", "decoding"} \cup Asks]
  BY DEF TaskList
<1>1. CASE ProcSubmit \/ TaskBegin \/ TaskEnd
  <2>1. \E s, what : what # "decoding" /\ (gen' = gen \/ gen' = [gen EXCEPT ![s] = what])
    <3>1. CASE ProcSubmit
      <4>1. gen' = gen \/ gen' = [gen EXCEPT ![hand] = "created"]
        BY <3>1 DEF ProcSubmit, CreateTask
      <4> QED BY <4>1
    <3>2. CASE TaskBegin
      <4>1. gen' = [gen EXCEPT ![Head(due)] = "sent"]
        BY <3>2 DEF TaskBegin
      <4> QED BY <4>1
    <3>3. CASE TaskEnd
      <4>1. gen' = [gen EXCEPT ![Head(due)] = "none"]
        BY <3>3 DEF TaskEnd
      <4> QED BY <4>1
    <3> QED BY <1>1, <3>1, <3>2, <3>3
  <2> QED BY <1>0, <2>1
<1>2. CASE Server
  <2>1. PICK s \in Samples : ServerFinishes(s) \/ ServerCancels(s) \/ ServerRaises(s)
    BY <1>2 DEF Server, ServerStarts
  <2>2. \E answer \in {"complete", "cancelled", "error"} : gen' = [gen EXCEPT ![s] = answer]
    BY <2>1 DEF ServerFinishes, ServerCancels, ServerRaises, ServerAnswers
  <2> QED BY <1>0, <2>2
<1>3. CASE ~(ProcSubmit \/ TaskBegin \/ TaskEnd \/ Server)
  BY <1>3, DataStep DEF DataFrames
<1> QED BY <1>1, <1>2, <1>3

\* The way of pause().
LEMMA PauseWay ==
  ASSUME Points, [Next]_vars
  PROVE  \/ at'["pause"] = at["pause"]
         \/ at["pause"] = "called" /\ at'["pause"] = "start"
         \/ PauseStart /\ at["pause"] = "start" /\ at'["pause"] = (IF conf.partial THEN "cancel" ELSE "tasks")
         \/ CancelAnswered /\ at["pause"] = "cancel" /\ at'["pause"] = "tasks"
         \/ PauseTasks /\ at["pause"] = "tasks" /\ at'["pause"] = (IF Busy = {} THEN "reset" ELSE "gather")
         \/ PauseGathered /\ at["pause"] = "gather" /\ at'["pause"] = "reset"
         \/ PauseEnd /\ at["pause"] = "reset" /\ at'["pause"] = "returned"
         \/ SyncPauses /\ at'["pause"] = "called"
         \/ PauseReturns /\ at["pause"] = "returned" /\ at'["pause"] = "off"
<1>0. DOMAIN at = Coroutines /\ "pause" \in Coroutines
  BY DEF Points, Coroutines
<1>1. CASE PauseCalled
  BY <1>0, <1>1 DEF PauseCalled, Enters, RunningAt, RunningIn, Acquire, Go
<1>2. CASE PauseStart
  BY <1>0, <1>2 DEF PauseStart, RunningAt, RunningIn, Go
<1>3. CASE PauseTasks \/ PauseGathered \/ PauseEnd
  BY <1>0, <1>3 DEF PauseTasks, PauseGathered, PauseEnd, RunningAt, RunningIn, Go
<1>4. CASE CancelAnswered
  BY <1>0, <1>4 DEF CancelAnswered, Wakes, Go
<1>5. CASE SyncPauses \/ PauseReturns
  BY <1>0, <1>5 DEF SyncPauses, PauseReturns, Go
<1> QED BY <1>0, <1>1, <1>2, <1>3, <1>4, <1>5, PointStep DEF PointFrames

LEMMA PausedStep ==
  ASSUME LInv, Stored, Quiet, [Next]_vars
  PROVE  Quiet'
<1>0. /\ Order /\ Locking /\ TaskList /\ Points /\ Runnable /\ DOMAIN at = Coroutines /\ conf' = conf
      /\ "pause" \in Coroutines /\ "resume" \in Coroutines
  BY DataStep DEF LInv, Scheduling, Points, Coroutines, DataFrames
<1>1. tpc' = "weights" => tpc = "weights" \/ PauseReturns
  BY NotTrainer DEF Trainer, trainerVars, Collect, CollectEnd, StartSync, Train, SyncPauses,
    SyncSends, ReadValidation
<1>2. Busy = {} => \A s \in Samples : gen[s] # "decoding"
  BY DEF Busy
<1>3. serverPaused /\ (\A s \in Samples : gen[s] # "decoding") => \A s \in Samples : gen'[s] # "decoding"
  BY <1>0, DecodeStep
<1>4. CASE ServerResumed
  <2>1. at["resume"] = "server" /\ at'["pause"] = at["pause"]
    BY <1>0, <1>4 DEF ServerResumed, Wakes, Go
  <2>2. tpc # "weights" /\ at["pause"] = "off"
    BY <1>0, <2>1 DEF Points
  <2>3. ~PauseReturns
    BY <2>2 DEF PauseReturns
  <2> QED BY <1>1, <2>1, <2>2, <2>3 DEF Quiet
<1>5. CASE CancelAnswered
  <2>1. at["pause"] = "cancel" /\ at'["pause"] = "tasks" /\ serverPaused'
    BY <1>0, <1>5 DEF CancelAnswered, Wakes, Go
  <2>2. tpc' # "weights"
    BY <1>0, <1>1, <2>1 DEF Points, PauseReturns
  <2> QED BY <2>1, <2>2 DEF Quiet
<1>6. CASE ~ServerResumed /\ ~CancelAnswered
  <2>1. serverPaused' = serverPaused
    BY <1>6, DataStep DEF DataFrames
  <2>2. PauseGathered => Busy = {}
    <3>1. PauseGathered => "pause" \in Runs /\ at["pause"] = "gather"
      BY <1>0, RunningIs DEF PauseGathered, RunningAt, RunningIn
    <3> QED BY <1>0, <3>1 DEF Runnable, CallsRun
  <2>3. at'["pause"] = "cancel" => conf.partial
    BY <1>6, <1>0, PauseWay DEF Quiet
  <2>4. conf.partial /\ at'["pause"] \in {"tasks", "gather", "reset", "returned"} => serverPaused
    BY <1>6, <1>0, PauseWay DEF Quiet
  <2>5. ASSUME conf.partial, at'["pause"] \in {"reset", "returned"} \/ tpc' = "weights"
        PROVE  serverPaused /\ \A s \in Samples : gen[s] # "decoding"
    <3>1. CASE tpc' = "weights"
      BY <1>1, <2>5, <3>1 DEF Quiet, PauseReturns
    <3>2. CASE at'["pause"] \in {"reset", "returned"}
      BY <1>0, <1>2, <1>6, <2>2, <2>5, <3>2, PauseWay DEF Quiet
    <3> QED BY <2>5, <3>1, <3>2
  <2> QED BY <1>0, <1>3, <2>1, <2>3, <2>4, <2>5 DEF Quiet
<1> QED BY <1>4, <1>5, <1>6

-----------------------------------------------------------------------------
\* The samples in flight.

\* A sequence has at least as many places as elements, and no more if none occurs twice.
LEMMA SeqElements ==
  ASSUME NEW A, NEW seq \in Seq(A)
  PROVE  /\ IsFiniteSet(ToSet(seq)) /\ Cardinality(ToSet(seq)) \in Nat /\ Cardinality(ToSet(seq)) <= Len(seq)
         /\ (\A i, k \in 1..Len(seq) : seq[i] = seq[k] => i = k) => Cardinality(ToSet(seq)) = Len(seq)
<1>1. Len(seq) \in Nat /\ DOMAIN seq = 1..Len(seq) /\ seq \in [1..Len(seq) -> A]
  BY LenProperties
<1>2. IsFiniteSet(1..Len(seq)) /\ Cardinality(1..Len(seq)) = Len(seq)
  BY <1>1, FS_Interval
<1>3. seq \in Surjection(1..Len(seq), ToSet(seq))
  BY <1>1 DEF Surjection, ToSet
<1>4. /\ IsFiniteSet(ToSet(seq)) /\ Cardinality(ToSet(seq)) <= Len(seq)
      /\ Cardinality(ToSet(seq)) = Len(seq) <=> seq \in Injection(1..Len(seq), ToSet(seq))
  BY <1>2, <1>3, FS_Surjection
<1>5. (\A i, k \in 1..Len(seq) : seq[i] = seq[k] => i = k) => seq \in Injection(1..Len(seq), ToSet(seq))
  BY <1>1, <1>3 DEF Injection, IsInjective, Surjection
<1> QED BY <1>4, <1>5, FS_CardinalityType

\* The same, where it is the counts that say so.
LEMMA CountOnce ==
  ASSUME NEW A, NEW seq \in Seq(A), \A e \in A : Count(seq, e) <= 1
  PROVE  \A i, k \in 1..Len(seq) : seq[i] = seq[k] => i = k
<1> SUFFICES ASSUME NEW i \in 1..Len(seq), NEW k \in 1..Len(seq), seq[i] = seq[k], i # k
    PROVE  FALSE
  OBVIOUS
<1> DEFINE places == {m \in DOMAIN seq : seq[m] = seq[i]}
<1>1. seq[i] \in A /\ DOMAIN seq = 1..Len(seq)
  BY ElementOfSeq, LenProperties
<1>2. IsFiniteSet(places) /\ Cardinality(places) \in Nat /\ Cardinality(places) <= 1
  BY <1>1, CountType DEF Count
<1>3. {i, k} \in SUBSET places
  BY <1>1
<1>4. Cardinality({i, k}) <= Cardinality(places)
  BY <1>2, <1>3, FS_Subset
<1> DEFINE one == {i}
<1>5. IsFiniteSet(one) /\ Cardinality(one) = 1 /\ k \notin one
  BY FS_Singleton
<1>6. Cardinality(one \cup {k}) = 2
  <2> HIDE DEF one
  <2>1. Cardinality(one \cup {k}) = IF k \in one THEN Cardinality(one) ELSE Cardinality(one) + 1
    BY <1>5, FS_AddElement
  <2>2. Cardinality(one \cup {k}) = Cardinality(one) + 1
    BY <1>5, <2>1
  <2> QED BY <1>5, <2>2
<1>7. one \cup {k} = {i, k}
  OBVIOUS
<1> QED BY <1>2, <1>4, <1>6, <1>7

LEMMA FlightType ==
  /\ InFlight \in SUBSET Samples /\ IsFiniteSet(InFlight) /\ Flight \in Nat
<1>1. InFlight \in SUBSET Samples
  BY DEF InFlight
<1>2. IsFiniteSet(InFlight)
  BY <1>1, BusyFinite, FS_Subset
<1> QED BY <1>1, <1>2, FS_CardinalityType DEF Flight

\* What has left the flight does not come back.
Gone == trained \cup ToSet(batch) \cup dropped \cup failed

LEMMA GoneStep ==
  ASSUME Stored, [Next]_vars
  PROVE  Gone \subseteq Gone'
<1>1. trained \cup ToSet(batch) \subseteq trained' \cup ToSet(batch')
  <2>1. CASE Train
    BY <2>1 DEF Train
  <2>2. CASE Collect
    <3>1. PICK s \in Samples : batch' = Append(batch, s) /\ trained' = trained
      BY <2>2 DEF Collect
    <3>2. /\ DOMAIN batch = 1..Len(batch) /\ DOMAIN Append(batch, s) = 1..Len(batch) + 1 /\ Len(batch) \in Nat
          /\ \A i \in 1..Len(batch) : Append(batch, s)[i] = batch[i]
      BY AppendProperties, LenProperties DEF Stored
    <3>3. \A i \in DOMAIN batch : i \in DOMAIN Append(batch, s) /\ Append(batch, s)[i] = batch[i]
      BY <3>2
    <3>4. ToSet(batch) \subseteq ToSet(Append(batch, s))
      BY <3>3 DEF ToSet
    <3> QED BY <3>1, <3>4
  <2> QED BY <2>1, <2>2, DataStep DEF DataFrames
<1>2. dropped \subseteq dropped'
  <2>1. CASE PutRuns
    BY <2>1 DEF PutRuns, PutSample
  <2> QED BY <2>1, DataStep DEF DataFrames
<1>3. failed \subseteq failed'
  <2>1. CASE Server
    BY <2>1 DEF Server, ServerStarts, ServerFinishes, ServerCancels, ServerRaises
  <2> QED BY <2>1, DataStep DEF DataFrames
<1> QED BY <1>1, <1>2, <1>3 DEF Gone

\* Only the processor adds to the flight, a sample at a time.
LEMMA FlightStep ==
  ASSUME LInv, Stored, [Next]_vars
  PROVE  /\ Flight' \in Nat
         /\ \/ Flight' <= Flight /\ InFlight' \subseteq InFlight
            \/ /\ Flight' <= Flight + 1 /\ ProcGet /\ taken + 1 \in Samples
               /\ InFlight' \subseteq InFlight \cup {taken + 1}
<1>0. taken \in Nat /\ Total \in Nat
  BY RollouterAssumption DEF LInv, Scheduling, Feeding
<1>1. Gone \subseteq Gone'
  BY GoneStep
<1>2. InFlight' = {s \in 1..taken' \cap Samples : s \notin Gone'}
      /\ InFlight = {s \in 1..taken \cap Samples : s \notin Gone}
  BY DEF InFlight, Gone
<1>3. Flight' = Cardinality(InFlight') /\ Flight = Cardinality(InFlight) /\ Flight \in Nat /\ IsFiniteSet(InFlight)
  BY FlightType DEF Flight
<1>4. IsFiniteSet(InFlight') /\ Flight' \in Nat
  <2>1. InFlight' \in SUBSET Samples
    BY <1>2
  <2>2. IsFiniteSet(InFlight')
    BY <2>1, BusyFinite, FS_Subset
  <2> QED BY <1>3, <2>2, FS_CardinalityType
<1>5. CASE taken' = taken \/ (taken' = taken + 1 /\ taken + 1 \notin Samples)
  <2>1. 1..taken' \cap Samples \subseteq 1..taken \cap Samples
    BY <1>0, <1>5 DEF Samples
  <2>2. InFlight' \in SUBSET InFlight
    BY <1>1, <1>2, <2>1
  <2> QED BY <1>3, <1>4, <2>2, FS_Subset
<1>6. CASE ProcGet /\ taken' = taken + 1 /\ taken + 1 \in Samples
  <2>1. 1..taken' \cap Samples \subseteq (1..taken \cap Samples) \cup {taken + 1}
    BY <1>0, <1>6
  <2>2. InFlight' \in SUBSET (InFlight \cup {taken + 1})
    BY <1>1, <1>2, <2>1
  <2>3. taken + 1 \notin InFlight
    BY <1>0, <1>2
  <2>4. IsFiniteSet(InFlight \cup {taken + 1}) /\ Cardinality(InFlight \cup {taken + 1}) = Flight + 1
    BY <1>3, <2>3, FS_AddElement
  <2> QED BY <1>4, <1>3, <1>6, <2>2, <2>4, FS_Subset
<1>7. taken' = taken \/ (ProcGet /\ taken' = taken + 1)
  BY DataStep DEF DataFrames, ProcGet
<1> QED BY <1>4, <1>5, <1>6, <1>7

LEMMA UnionBound ==
  ASSUME NEW S, NEW T, IsFiniteSet(S), IsFiniteSet(T)
  PROVE  /\ IsFiniteSet(S \cup T) /\ Cardinality(S \cup T) \in Nat
         /\ Cardinality(S \cup T) <= Cardinality(S) + Cardinality(T)
<1>1. IsFiniteSet(S \cup T) /\ Cardinality(S \cup T) = Cardinality(S) + Cardinality(T) - Cardinality(S \cap T)
  BY FS_Union
<1>2. IsFiniteSet(S \cap T)
  BY FS_Intersection
<1>3. /\ Cardinality(S) \in Nat /\ Cardinality(T) \in Nat /\ Cardinality(S \cap T) \in Nat
      /\ Cardinality(S \cup T) \in Nat
  BY <1>1, <1>2, FS_CardinalityType
<1> QED BY <1>1, <1>3

\* Where a sample in flight is, and what is surely in flight.
LEMMA FlightPlaces ==
  ASSUME Hand, Stored, TaskList, Conserved, taken \in Nat, NEW s \in Samples
  PROVE  /\ s \in InFlight => \/ s = hand \/ s \in Busy
                              \/ Has(cancelq, s) \/ Has(resultq, s) \/ s \in transit \/ Has(queue, s)
         /\ Has(resultq, s) \/ s \in transit \/ Has(queue, s) => s \in InFlight
         /\ ~((Has(resultq, s) \/ s \in transit) /\ Has(queue, s))
<1> DEFINE a == In(s > taken)
           b == In(s = hand)
           c == In(gen[s] \notin {"none", "error"})
           d == Count(cancelq, s)
           e == Count(resultq, s)
           f == Count(queue, s)
           g == Count(batch, s)
           h == In(s \in trained)
           i == In(s \in dropped)
           j == In(s \in failed)
           k == In(s \in transit)
<1>1. a + b + c + d + e + k + f + g + h + i + j = 1
  BY DEF Conserved, Places
<1>2. a \in Nat /\ b \in Nat /\ c \in Nat /\ d \in Nat /\ e \in Nat /\ f \in Nat /\ g \in Nat /\ h \in Nat
      /\ i \in Nat /\ j \in Nat /\ k \in Nat
  BY PlacesType
<1>3. /\ IF s > taken THEN a = 1 ELSE a = 0
      /\ s # hand => b = 0
      /\ gen[s] = "none" => c = 0
      /\ IF s \in trained THEN h = 1 ELSE h = 0
      /\ IF s \in dropped THEN i = 1 ELSE i = 0
      /\ IF s \in failed THEN j = 1 ELSE j = 0
      /\ IF s \in transit THEN k = 1 ELSE k = 0
  BY DEF In
<1>4. /\ Has(cancelq, s) <=> d >= 1
      /\ Has(resultq, s) <=> e >= 1
      /\ Has(queue, s) <=> f >= 1
      /\ Has(batch, s) <=> g >= 1
  BY PlacesType
<1>5. s \in InFlight <=> ~(s > taken) /\ s \notin trained /\ s \notin dropped /\ s \notin failed /\ ~Has(batch, s)
  <2>1. s \in ToSet(batch) <=> Has(batch, s)
    BY InSet DEF Stored
  <2>2. s \in 1..taken \cap Samples <=> ~(s > taken)
    BY RollouterAssumption DEF Samples
  <2> QED BY <2>1, <2>2 DEF InFlight
<1> HIDE DEF a, b, c, d, e, f, g, h, i, j, k
<1>6. s \notin Busy => gen[s] = "none"
  BY DEF Busy
<1>7. s \in InFlight =>
        s = hand \/ s \in Busy \/ Has(cancelq, s) \/ Has(resultq, s) \/ s \in transit \/ Has(queue, s)
  BY <1>1, <1>2, <1>3, <1>4, <1>5, <1>6
<1>8. Has(resultq, s) \/ s \in transit \/ Has(queue, s) => s \in InFlight
  BY <1>1, <1>2, <1>3, <1>4, <1>5
<1>9. ~((Has(resultq, s) \/ s \in transit) /\ Has(queue, s))
  BY <1>1, <1>2, <1>3, <1>4
<1> QED BY <1>7, <1>8, <1>9

LEMMA ElsewhereType ==
  ASSUME Stored
  PROVE  /\ Elsewhere \in SUBSET Samples /\ IsFiniteSet(Elsewhere) /\ Cardinality(Elsewhere) \in Nat
         /\ Len(queue) \in Nat /\ Flight <= Cardinality(Elsewhere) + Len(queue)
<1> DEFINE Q == ToSet(queue)
           E == Elsewhere
<1>1. E \in SUBSET Samples
  BY DEF Elsewhere, InFlight
<1>2. IsFiniteSet(E) /\ Cardinality(E) \in Nat
  BY <1>1, BusyFinite, FS_Subset, FS_CardinalityType
<1>3. IsFiniteSet(Q) /\ Cardinality(Q) \in Nat /\ Cardinality(Q) <= Len(queue) /\ Len(queue) \in Nat
  BY SeqElements, LenProperties DEF Stored
<1>4. InFlight \in SUBSET (E \cup Q)
  BY DEF Elsewhere
<1> HIDE DEF Q, E
<1>5. IsFiniteSet(E \cup Q) /\ Cardinality(E \cup Q) \in Nat /\ Cardinality(E \cup Q) <= Cardinality(E) + Cardinality(Q)
  BY <1>2, <1>3, UnionBound
<1>6. Cardinality(InFlight) <= Cardinality(E \cup Q)
  BY <1>4, <1>5, FS_Subset
<1>7. Flight <= Cardinality(E) + Len(queue)
  BY <1>2, <1>3, <1>5, <1>6, FlightType DEF Flight
<1> QED BY <1>1, <1>2, <1>3, <1>7 DEF E

\* What update_param_version counts before it asks for the size of the queue covers what is not
\* in the queue, up to the processor's hand and the sample on its way.
LEMMA FlightCount ==
  ASSUME LInv, Hand, Stored, Conserved
  PROVE  Cardinality(Elsewhere) <= Active + Len(resultq) + Len(cancelq) + In(hand # 0) + 1
<1> DEFINE H == {hand} \ {0}
           C == ToSet(cancelq)
           R == ToSet(resultq)
           Q == transit \cap Samples
<1>1. /\ TaskList /\ taken \in Nat /\ finished \in Nat /\ raised \in Nat
      /\ cancelq \in Seq(Samples) /\ resultq \in Seq(Samples) /\ queue \in Seq(Samples \cup {Finish})
  BY DEF LInv, Scheduling, Feeding, Hand, Stored
<1>2. /\ IsFiniteSet(C) /\ Cardinality(C) \in Nat /\ Cardinality(C) <= Len(cancelq) /\ Len(cancelq) \in Nat
      /\ IsFiniteSet(R) /\ Cardinality(R) \in Nat /\ Cardinality(R) <= Len(resultq) /\ Len(resultq) \in Nat
  BY <1>1, SeqElements, LenProperties
<1>16. IsFiniteSet(Q) /\ Cardinality(Q) \in Nat /\ Cardinality(Q) <= 1
  <2>1. CASE Q = {}
    BY <2>1, FS_EmptySet
  <2>2. CASE Q # {}
    <3>1. PICK s \in Q : TRUE
      BY <2>2
    <3>2. Q = {s}
      BY <3>1 DEF Stored
    <3> QED BY <3>2, FS_Singleton
  <2> QED BY <2>1, <2>2
<1>3. IsFiniteSet(H) /\ Cardinality(H) = In(hand # 0)
  <2>1. CASE hand = 0
    <3>1. H = {}
      BY <2>1
    <3> QED BY <2>1, <3>1, FS_EmptySet DEF In
  <2>2. CASE hand # 0
    <3>1. H = {hand}
      BY <2>2
    <3> QED BY <2>2, <3>1, FS_Singleton DEF In
  <2> QED BY <2>1, <2>2
<1>4. IsFiniteSet(Busy) /\ Cardinality(Busy) \in Nat /\ Active = Cardinality(Busy) + finished + raised
  BY BusyFinite DEF Active
<1>5. Elsewhere \in SUBSET (H \cup (Busy \cup (C \cup (R \cup Q))))
  <2> SUFFICES ASSUME NEW s \in Elsewhere PROVE s \in H \cup (Busy \cup (C \cup (R \cup Q)))
    OBVIOUS
  <2>1. s \in Samples /\ s # 0 /\ s \in InFlight /\ s \notin ToSet(queue)
    BY RollouterAssumption DEF Elsewhere, InFlight, Samples
  <2>2. s = hand \/ s \in Busy \/ Has(cancelq, s) \/ Has(resultq, s) \/ s \in transit \/ Has(queue, s)
    BY <1>1, <2>1, FlightPlaces
  <2>3. /\ (Has(cancelq, s) => s \in C) /\ (Has(resultq, s) => s \in R)
        /\ Has(queue, s) => s \in ToSet(queue)
    BY <1>1, InSet
  <2> QED BY <2>1, <2>2, <2>3
<1> DEFINE U == R \cup Q
           V == C \cup U
           W == Busy \cup V
           T == H \cup W
           h == Cardinality(H)
           b == Cardinality(Busy)
           c == Cardinality(C)
           r == Cardinality(R)
           q == Cardinality(Q)
           n == Cardinality(Elsewhere)
<1>17. Elsewhere \in SUBSET T
  BY <1>5
<1> HIDE DEF H, C, R, Q
<1>6. IsFiniteSet(U) /\ Cardinality(U) \in Nat /\ Cardinality(U) <= r + q
  BY <1>2, <1>16, UnionBound
<1> HIDE DEF U
<1>7. IsFiniteSet(V) /\ Cardinality(V) \in Nat /\ Cardinality(V) <= c + Cardinality(U)
  BY <1>2, <1>6, UnionBound
<1> HIDE DEF V
<1>8. IsFiniteSet(W) /\ Cardinality(W) \in Nat /\ Cardinality(W) <= b + Cardinality(V)
  BY <1>4, <1>7, UnionBound
<1> HIDE DEF W
<1>9. IsFiniteSet(T) /\ Cardinality(T) \in Nat /\ Cardinality(T) <= h + Cardinality(W)
  BY <1>3, <1>8, UnionBound
<1> HIDE DEF T
<1>10. n <= Cardinality(T)
  BY <1>9, <1>17, FS_Subset
<1>11. h = In(hand # 0) /\ h \in Nat /\ n \in Nat
  BY <1>3, ElsewhereType DEF In
<1>12. b \in Nat /\ c \in Nat /\ r \in Nat /\ q \in Nat /\ q <= 1
  BY <1>2, <1>4, <1>16
<1> DEFINE lc == Len(cancelq)
           lr == Len(resultq)
<1>13. /\ b <= Active /\ Active \in Nat /\ c <= lc /\ r <= lr
       /\ lc \in Nat /\ lr \in Nat
  BY <1>1, <1>2, <1>4
<1> HIDE DEF h, b, c, r, q, n, lc, lr
<1>14. n <= h + b + c + r + q
  BY <1>6, <1>7, <1>8, <1>9, <1>10, <1>11, <1>12
<1>15. n <= Active + lr + lc + h + 1
  BY <1>11, <1>12, <1>13, <1>14
<1> QED BY <1>11, <1>15 DEF lc, lr, n

\* Where update_param_version counts.
LEMMA CountingStep ==
  ASSUME Points, [Next]_vars
  PROVE  /\ UpdateStart(call.version) => at["update"] = "start" /\ at'["update"] = "size"
         /\ UpdateAssign => at["update"] = "assign" /\ at'["update"] = "validate"
         /\ SizeRuns => at["update"] = "size" /\ at'["update"] = "assign"
         /\ at'["update"] = "size" => at["update"] = "size" \/ UpdateStart(call.version)
         /\ at'["update"] = "assign" => at["update"] = "assign" \/ SizeRuns
         /\ Counting' => Counting \/ UpdateStart(call.version)
<1>0. DOMAIN at = Coroutines /\ "update" \in Coroutines
  BY DEF Points, Coroutines
<1>1. /\ UpdateStart(call.version) => at["update"] = "start" /\ at'["update"] = "size"
      /\ UpdateAssign => at["update"] = "assign" /\ at'["update"] = "validate"
      /\ SizeRuns => at["update"] = "size" /\ at'["update"] = "assign"
  BY <1>0 DEF UpdateStart, UpdateAssign, SizeRuns, RunningAt, RunningIn, Go
<1>2. /\ UpdateCalled => at'["update"] = "start"
      /\ UpdateEnd => at'["update"] = "off"
      /\ SyncSends => at'["update"] = "sent"
      /\ UpdateArrives => at'["update"] = "called"
      /\ ValidateRuns(call.validate) => at'["update"] = "put"
  BY <1>0 DEF UpdateCalled, UpdateEnd, SyncSends, UpdateArrives, ValidateRuns, Enters, Acquire, Wakes, Go
<1>3. \/ at'["update"] = at["update"]
      \/ UpdateStart(call.version) /\ at["update"] = "start" /\ at'["update"] = "size"
      \/ SizeRuns /\ at["update"] = "size" /\ at'["update"] = "assign"
      \/ at'["update"] \in {"validate", "start", "off", "sent", "called", "put"}
  BY <1>0, <1>1, <1>2, PointStep DEF PointFrames, Update
<1> QED BY <1>1, <1>3 DEF Counting

\* Meanwhile the processor cannot submit.
LEMMA HandWhileCounting ==
  ASSUME LInv, Hand, [Next]_vars, Counting, ~ProcGet
  PROVE  hand # 0 => hand' # 0
<1>0. Order /\ Locking /\ "proc" \in Coroutines /\ "update" \in Coroutines
  BY DEF LInv, Coroutines
<1>1. ~ProcSubmit
  <2>1. "update" \notin Queued
    BY <1>0, HandedAt DEF Counting
  <2>2. lock = "update"
    BY <1>0, <2>1 DEF Locking, Inside, Counting
  <2>3. ProcSubmit => lock = "proc"
    BY <1>0, RunningIs DEF ProcSubmit, RunningAt, RunningIn, Inside, AtLock
  <2> QED BY <2>2, <2>3
<1>2. ProcTop => hand = 0
  BY DEF ProcTop, RunningAt, RunningIn, Hand
<1> QED BY <1>1, <1>2, DataStep DEF DataFrames

\* A sample leaves the queue only for good.
LEMMA QueueKept ==
  ASSUME Stored, [Next]_vars, NEW s \in InFlight', s \in ToSet(queue)
  PROVE  s \in ToSet(queue')
<1>0. /\ Has(queue, s) /\ s \in Samples /\ s \notin dropped' /\ s \notin ToSet(batch') /\ Finish \notin Samples
      /\ queue \in Seq(Samples \cup {Finish}) /\ batch \in Seq(Samples)
  BY InSet, RollouterAssumption DEF Stored, InFlight
<1>1. PICK i \in 1..Len(queue) : queue[i] = s
  BY <1>0 DEF Has
<1>2. CASE PutRuns
  <2>1. PICK m \in transit : PutSample(m, conf.maxRequired) /\ transit' = transit \ {m}
    BY <1>2 DEF PutRuns
  <2>2. PICK q \in {queue, Tail(queue)} :
          /\ q \in Seq(Samples \cup {Finish})
          /\ queue' = Append(q, m) /\ queue' \in Seq(Samples \cup {Finish}) /\ Len(queue') = Len(q) + 1
          /\ \A x \in 1..Len(q) : queue'[x] = q[x] /\ Has(queue, q[x])
          /\ queue'[Len(q) + 1] = m
          /\ \A e : Has(queue', e) <=> Has(q, e) \/ e = m
          /\ \/ q = queue /\ dropped' = dropped /\ Len(queue) < conf.maxRequired
             \/ /\ q = Tail(queue) /\ queue # <<>> /\ dropped' = dropped \cup {Head(queue)}
                /\ Len(queue) >= conf.maxRequired
                /\ \A x \in 1..Len(q) : x + 1 \in 1..Len(queue) /\ q[x] = queue[x + 1]
    BY <2>1, PutEffect
  <2>3. Has(q, s)
    <3>1. CASE q = queue
      BY <1>0, <3>1
    <3>2. CASE q = Tail(queue) /\ queue # <<>> /\ dropped' = dropped \cup {Head(queue)}
      <4>1. /\ Head(queue) = queue[1] /\ Len(queue) \in Nat \ {0} /\ Len(q) = Len(queue) - 1
            /\ \A x \in 1..Len(q) : q[x] = queue[x + 1]
        BY <1>0, <3>2, HeadTailProperties, EmptySeq, LenProperties
      <4>2. i # 1
        BY <1>0, <1>1, <3>2, <4>1
      <4>3. i - 1 \in 1..Len(q) /\ (i - 1) + 1 = i
        BY <4>1, <4>2
      <4> QED BY <1>1, <4>1, <4>3 DEF Has
    <3> QED BY <2>2, <3>1, <3>2
  <2> QED BY <2>2, <2>3, InSet
<1>3. CASE Collect \/ CollectEnd
  <2>1. queue # <<>> /\ queue' = Tail(queue)
        /\ \/ batch' = Append(batch, Head(queue)) /\ Head(queue) \in Samples
           \/ Head(queue) = Finish
    BY <1>3 DEF Collect, CollectEnd, GetSample
  <2>2. /\ Head(queue) = queue[1] /\ Len(queue) \in Nat \ {0} /\ Len(queue') = Len(queue) - 1
        /\ queue' \in Seq(Samples \cup {Finish})
        /\ \A x \in 1..Len(queue') : queue'[x] = queue[x + 1]
    BY <1>0, <2>1, HeadTailProperties, EmptySeq, LenProperties
  <2>3. i # 1
    <3>1. CASE batch' = Append(batch, Head(queue)) /\ Head(queue) \in Samples
      <4>1. /\ Append(batch, Head(queue))[Len(batch) + 1] = Head(queue)
            /\ Len(batch) + 1 \in DOMAIN Append(batch, Head(queue))
        BY <1>0, <3>1, AppendProperties, LenProperties
      <4>2. Head(queue) \in ToSet(batch')
        BY <3>1, <4>1 DEF ToSet
      <4> QED BY <1>0, <1>1, <2>2, <4>2
    <3>2. CASE Head(queue) = Finish
      BY <1>0, <1>1, <2>2, <3>2
    <3> QED BY <2>1, <3>1, <3>2
  <2>4. i - 1 \in 1..Len(queue') /\ (i - 1) + 1 = i
    BY <2>2, <2>3
  <2>5. Has(queue', s)
    BY <1>1, <2>2, <2>4 DEF Has
  <2> QED BY <2>2, <2>5, InSet
<1>4. CASE ~(PutRuns \/ Collect \/ CollectEnd)
  BY <1>4, DataStep DEF DataFrames
<1> QED BY <1>2, <1>3, <1>4

LEMMA ElsewhereStep ==
  ASSUME LInv, Hand, Stored, [Next]_vars
  PROVE  /\ Cardinality(Elsewhere') \in Nat
         /\ \/ Cardinality(Elsewhere') <= Cardinality(Elsewhere)
            \/ Cardinality(Elsewhere') <= Cardinality(Elsewhere) + 1 /\ ProcGet /\ taken + 1 \in Samples
<1>1. Stored'
  BY StoredStep
<1>2. IsFiniteSet(Elsewhere) /\ Cardinality(Elsewhere) \in Nat
  BY ElsewhereType
<1>3. Elsewhere' = InFlight' \ ToSet(queue')
  BY DEF Elsewhere
<1>4. Elsewhere' \in SUBSET Samples /\ IsFiniteSet(Elsewhere') /\ Cardinality(Elsewhere') \in Nat
  <2>1. Elsewhere' \in SUBSET Samples
    BY <1>3 DEF InFlight
  <2> QED BY <2>1, BusyFinite, FS_Subset, FS_CardinalityType
<1>5. \A s \in Elsewhere' : s \in InFlight => s \in Elsewhere
  BY <1>3, QueueKept DEF Elsewhere
<1>6. CASE InFlight' \subseteq InFlight
  <2>1. Elsewhere' \in SUBSET Elsewhere
    BY <1>3, <1>5, <1>6
  <2> QED BY <1>2, <1>4, <2>1, FS_Subset
<1>7. CASE ProcGet /\ taken + 1 \in Samples /\ InFlight' \subseteq InFlight \cup {taken + 1}
  <2>1. Elsewhere' \in SUBSET (Elsewhere \cup {taken + 1})
    BY <1>3, <1>5, <1>7
  <2>2. /\ IsFiniteSet(Elsewhere \cup {taken + 1})
        /\ Cardinality(Elsewhere \cup {taken + 1}) = (IF taken + 1 \in Elsewhere THEN Cardinality(Elsewhere)
                                                       ELSE Cardinality(Elsewhere) + 1)
    BY <1>2, FS_AddElement
  <2>3. Cardinality(Elsewhere') <= Cardinality(Elsewhere \cup {taken + 1})
    BY <2>1, <2>2, FS_Subset
  <2> QED BY <1>2, <1>4, <1>7, <2>2, <2>3
<1> QED BY <1>6, <1>7, FlightStep

\* staleness_samples and the count it is to become cover the flight.
LEMMA CoveredStep ==
  ASSUME LInv, Hand, Stored, Conserved, Covered, [Next]_vars
  PROVE  Covered'
<1> DEFINE n == Cardinality(Elsewhere)
           n1 == Cardinality(Elsewhere')
           z == In(hand # 0)
           z1 == In(hand' # 0)
<1>0. /\ Points /\ DOMAIN at = Coroutines /\ "update" \in Coroutines /\ Flight \in Nat /\ Flight' \in Nat
      /\ staleness \in Nat /\ counted \in Nat /\ Flight <= staleness + 2
      /\ at["update"] = "size" => n <= counted + z + 1
      /\ at["update"] = "assign" => Flight <= counted + z + 1
      /\ z \in {0, 1} /\ z1 \in {0, 1} /\ n \in Nat /\ n1 \in Nat
  BY FlightType, FlightStep, ElsewhereType, ElsewhereStep
     DEF LInv, Scheduling, Points, Coroutines, Covered, In
<1>1. ASSUME staleness' \in Nat, counted' \in Nat, Flight' <= staleness' + 2,
             at'["update"] = "size" => n1 <= counted' + z1 + 1,
             at'["update"] = "assign" => Flight' <= counted' + z1 + 1
      PROVE  Covered'
  BY <1>1 DEF Covered
<1>2. CASE ProcGet
  <2>1. /\ staleness' = staleness + 1 /\ counted' = counted /\ hand = 0 /\ at'["update"] = at["update"]
        /\ hand' = IF taken + 1 \in Samples THEN taken + 1 ELSE hand
    BY <1>0, <1>2 DEF ProcGet, RunningAt, RunningIn, Hand
  <2>2. /\ Flight' <= Flight + 1 /\ (taken + 1 \notin Samples => Flight' <= Flight)
        /\ n1 <= n + 1 /\ (taken + 1 \notin Samples => n1 <= n)
    BY <1>0, FlightStep, ElsewhereStep
  <2>3. z = 0 /\ (taken + 1 \in Samples => z1 = 1)
    BY <2>1, RollouterAssumption DEF In, Samples
  <2> HIDE DEF n, n1, z, z1
  <2> QED BY <1>0, <1>1, <2>1, <2>2, <2>3
<1>3. ASSUME ~ProcGet
      PROVE  Flight' <= Flight /\ n1 <= n /\ (Counting => z <= z1)
  <2>1. Flight' <= Flight /\ n1 <= n
    BY <1>3, FlightStep, ElsewhereStep
  <2>2. Counting => z <= z1
    BY <1>3, HandWhileCounting DEF In
  <2> QED BY <2>1, <2>2
<1>4. CASE UpdateStart(call.version)
  <2>1. /\ staleness' = staleness /\ hand' = hand /\ at'["update"] = "size" /\ at["update"] = "start"
        /\ counted' = Active + Len(resultq) + Len(cancelq)
    BY <1>0, <1>4 DEF UpdateStart, RunningAt, RunningIn, Go, picking
  <2>2. ~ProcGet
    BY <1>0, <2>1 DEF ProcGet
  <2>3. Active \in Nat /\ Len(resultq) \in Nat /\ Len(cancelq) \in Nat
    BY BusyFinite, LenProperties DEF Active, LInv, Scheduling, Feeding, Hand, Stored
  <2>4. counted' \in Nat
    BY <2>1, <2>3
  <2>5. n <= counted' + z + 1 /\ z1 = z
    BY <2>1, FlightCount
  <2> HIDE DEF n, n1, z, z1
  <2> QED BY <1>0, <1>1, <1>3, <2>1, <2>2, <2>4, <2>5
<1>5. CASE SizeRuns
  <2>1. /\ staleness' = staleness /\ hand' = hand /\ at'["update"] = "assign" /\ at["update"] = "size"
        /\ counted' = counted + Len(queue)
    BY <1>0, <1>5 DEF SizeRuns, ActorFrame, Go, picking
  <2>2. ~ProcGet
    BY <1>0, <2>1 DEF ProcGet
  <2>3. Flight <= n + Len(queue) /\ Len(queue) \in Nat /\ z1 = z
    BY <2>1, ElsewhereType
  <2> HIDE DEF n, n1, z, z1
  <2> QED BY <1>0, <1>1, <1>3, <2>1, <2>2, <2>3
<1>6. CASE UpdateAssign
  <2>1. staleness' = counted /\ counted' = 0 /\ at'["update"] = "validate" /\ at["update"] = "assign"
    BY <1>0, <1>6 DEF UpdateAssign, RunningAt, RunningIn, Go
  <2>2. ~ProcGet
    BY <1>0, <2>1 DEF ProcGet
  <2> HIDE DEF n, n1, z, z1
  <2> QED BY <1>0, <1>1, <1>3, <2>1, <2>2
<1>7. CASE ~(ProcGet \/ Update \/ SizeRuns)
  <2>1. staleness' = staleness /\ counted' = counted
    BY <1>7, DataStep DEF DataFrames, Update
  <2>2. /\ at'["update"] = "assign" => at["update"] = "assign"
        /\ at'["update"] = "size" => at["update"] = "size"
    BY <1>0, <1>7, CountingStep DEF Update
  <2>3. at["update"] \in {"size", "assign"} => z <= z1
    BY <1>3, <1>7 DEF Counting
  <2> HIDE DEF n, n1, z, z1
  <2> QED BY <1>0, <1>1, <1>3, <1>7, <2>1, <2>2, <2>3
<1> QED BY <1>2, <1>4, <1>5, <1>6, <1>7 DEF Update

\* A sample pushed out of a full queue by another was one more in flight than is allowed.
LEMMA DropsExcess ==
  ASSUME LInv, Hand, Stored, Conserved, ~Has(queue, Finish), NEW m \in Samples, m \in transit,
         Len(queue) >= conf.maxRequired
  PROVE  Flight >= conf.maxRequired + 1 /\ Head(queue) \in InFlight
<1> DEFINE Q == ToSet(queue)
<1>1. /\ TaskList /\ taken \in Nat /\ queue \in Seq(Samples)
      /\ conf.maxRequired \in Nat /\ Len(queue) \in Nat /\ queue # <<>> /\ Head(queue) \in Samples
      /\ Has(queue, Head(queue))
  BY QueueSamples, FullQueue, LenProperties DEF LInv, Scheduling, Feeding
<1>3. \A e \in Samples : Count(queue, e) <= 1
  BY <1>1, OnePlace
<1>4. \A i, k \in 1..Len(queue) : queue[i] = queue[k] => i = k
  BY <1>1, <1>3, CountOnce
<1>5. IsFiniteSet(Q) /\ Cardinality(Q) = Len(queue)
  BY <1>1, <1>4, SeqElements
<1>6. \A s \in Q : s \in Samples /\ Has(queue, s)
  <2>1. \A s \in Q : Has(queue, s)
    BY <1>1, InSet
  <2>2. \A s \in Q : s \in Samples
    BY <1>1, <2>1, ElementOfSeq DEF Has
  <2> QED BY <2>1, <2>2
<1>7. m \notin Q
  BY <1>1, <1>6, FlightPlaces
<1>8. Q \cup {m} \in SUBSET InFlight
  BY <1>1, <1>6, FlightPlaces
<1>9. Head(queue) \in InFlight
  BY <1>1, FlightPlaces
<1> HIDE DEF Q
<1>10. Cardinality(Q \cup {m}) = Len(queue) + 1
  BY <1>5, <1>7, FS_AddElement
<1>11. Cardinality(Q \cup {m}) <= Flight
  BY <1>8, FlightType, FS_Subset DEF Flight
<1> QED BY <1>1, <1>9, <1>10, <1>11, FlightType

\* The finish signal has been sent and put.
LEMMA EndedIs ==
  /\ Ended # "no" <=> Sent /\ Finish \notin transit
  /\ Ended = "clean" <=> Sent /\ Finish \notin transit /\ at["proc"] # "failed"
BY DEF Ended, Sent

\* What putting does to what may still be dropped.
LEMMA PutSpare ==
  ASSUME LInv, Hand, Stored, Conserved, Training, Covered, Bounded, [Next]_vars, PutRuns
  PROVE  Bounded'
<1> DEFINE max == conf.maxRequired
           d == Cardinality(dropped)
           d1 == Cardinality(dropped')
           e == In(Ended # "no")
           e1 == In((Ended # "no")')
           l == In(Late)
           l1 == In(Late')
           u == In(Counting)
           g == In(at["proc"] = "get")
<1>0. /\ UNCHANGED <<conf, staleness, rversion, taken>> /\ at' = at /\ ~ProcGet
      /\ max \in Nat /\ rversion \in Nat /\ Flight \in Nat /\ Flight' \in Nat /\ staleness \in Nat
      /\ Finish \notin Samples
  <2>1. UNCHANGED <<conf, staleness, rversion, taken>> /\ at' = at
    BY DEF PutRuns, ActorFrame, picking
  <2>2. ~ProcGet
    BY <2>1 DEF ProcGet, LInv, Scheduling, Feeding
  <2> QED BY <2>1, <2>2, RollouterAssumption, FlightType, FlightStep, ConfType DEF Training, Covered
<1>1. PICK m \in transit : PutSample(m, conf.maxRequired) /\ transit' = transit \ {m}
  BY DEF PutRuns
<1>2. Flight' <= Flight /\ InFlight' \subseteq InFlight
  BY <1>0, FlightStep
<1>3. /\ IsFiniteSet(dropped) /\ d \in Nat /\ d1 \in Nat
      /\ \A x : Cardinality(dropped \cup {x}) <= d + 1
  <2>1. IsFiniteSet(Samples \cup {Finish})
    BY BusyFinite, FS_AddElement
  <2>2. dropped \in SUBSET (Samples \cup {Finish}) /\ dropped' \in SUBSET (Samples \cup {Finish})
    BY StoredStep DEF Stored
  <2>3. IsFiniteSet(dropped) /\ IsFiniteSet(dropped')
    BY <2>1, <2>2, FS_Subset
  <2>4. d \in Nat /\ d1 \in Nat
    BY <2>3, FS_CardinalityType
  <2>5. \A x : Cardinality(dropped \cup {x}) <= d + 1
    <3> TAKE x
    <3>1. Cardinality(dropped \cup {x}) = IF x \in dropped THEN d ELSE d + 1
      BY <2>3, FS_AddElement
    <3> HIDE DEF d
    <3> QED BY <2>4, <3>1
  <2> QED BY <2>3, <2>4, <2>5
<1>4. /\ Spare = 2 * rversion + e - d - l - 2 * u
      /\ Spare' = 2 * rversion + e1 - d1 - l1 - 2 * u
  BY <1>0 DEF Spare, Counting
<1>5. /\ e \in {0, 1} /\ e1 \in {0, 1} /\ l \in {0, 1} /\ l1 \in {0, 1} /\ u \in {0, 1} /\ g \in {0, 1}
      /\ (l = 1 <=> Late) /\ (l1 = 1 <=> Late')
  BY DEF In
<1>6. /\ Spare >= 0 /\ Spare >= Flight - staleness /\ Spare >= Flight + g - max
      /\ Flight <= max + 2 /\ (at["proc"] = "get" => Flight <= max + 1)
  BY DEF Bounded
<1>7. ASSUME \/ Spare' >= Spare
             \/ Spare' >= Spare - 1 /\ Flight' <= Flight - 1 /\ Spare >= 1
      PROVE  Bounded'
  <2>1. Spare' \in Int /\ Spare \in Int
    BY <1>0, <1>3, <1>4, <1>5
  <2> DEFINE s0 == Spare
             s1 == Spare'
             f0 == Flight
             f1 == Flight'
  <2>2. /\ s1 >= 0 /\ s1 >= f1 - staleness /\ s1 >= f1 + g - max
        /\ f1 <= max + 2 /\ (at["proc"] = "get" => f1 <= max + 1)
    <3>1. s0 \in Int /\ s1 \in Int /\ f0 \in Nat /\ f1 \in Nat /\ f1 <= f0
      BY <1>0, <1>2, <2>1
    <3>2. s0 >= 0 /\ s0 >= f0 - staleness /\ s0 >= f0 + g - max /\ f0 <= max + 2 /\ (at["proc"] = "get" => f0 <= max + 1)
      BY <1>6
    <3>3. s1 >= s0 \/ (s1 >= s0 - 1 /\ f1 <= f0 - 1 /\ s0 >= 1)
      BY <1>7
    <3> HIDE DEF s0, s1, f0, f1, g, max
    <3> QED BY <1>0, <1>5, <3>1, <3>2, <3>3
  <2> QED BY <1>0, <2>2 DEF Bounded
<1>8. \/ dropped' = dropped /\ d1 = d
      \/ /\ dropped' = dropped \cup {Head(queue)} /\ d1 <= d + 1
         /\ Len(queue) >= max
  BY <1>1, <1>3 DEF PutSample
<1>9. ASSUME ~Has(queue, Finish), NEW s \in Samples, s \in transit, dropped' = dropped \cup {Head(queue)},
             Len(queue) >= max
      PROVE  Flight' <= Flight - 1 /\ Spare >= 1
  <2>1. Flight >= max + 1 /\ Head(queue) \in InFlight
    BY <1>9, DropsExcess
  <2>2. InFlight' \in SUBSET (InFlight \ {Head(queue)})
    BY <1>2, <1>9 DEF InFlight
  <2>3. IsFiniteSet(InFlight \ {Head(queue)}) /\ Cardinality(InFlight \ {Head(queue)}) = Flight - 1
    BY <2>1, FlightType, FS_RemoveElement DEF Flight
  <2>4. Cardinality(InFlight') <= Flight - 1
    BY <2>2, <2>3, FS_Subset
  <2>5. Flight' <= Flight - 1
    BY <1>0, <2>4 DEF Flight
  <2>6. Spare >= 1
    <3>1. Spare \in Int
      BY <1>0, <1>3, <1>4, <1>5
    <3> HIDE DEF g, max
    <3> QED BY <1>0, <1>5, <1>6, <2>1, <3>1
  <2> QED BY <2>5, <2>6
<1>10. CASE m = Finish
  <2>1. e = 0 /\ e1 = 1 /\ l = 0 /\ ~Has(queue, Finish)
    <3>1. Sent /\ ~Has(queue, Finish)
      BY <1>1, <1>10 DEF Stored
    <3>2. ~(Ended # "no") /\ (Ended # "no")'
      <4>1. (Ended # "no")' <=> Sent' /\ Finish \notin transit'
        BY DEF Ended, Sent
      <4> QED BY <1>0, <1>1, <1>10, <3>1, <4>1, EndedIs DEF Sent
    <3> QED BY <3>1, <3>2 DEF In, Late
  <2>2. CASE dropped' = dropped /\ d1 = d
    <3> HIDE DEF d, d1, e, e1, l, l1, u, g, max
    <3>1. Spare' >= Spare
      BY <1>0, <1>3, <1>4, <1>5, <2>1, <2>2
    <3> QED BY <1>7, <3>1
  <2>3. CASE dropped' = dropped \cup {Head(queue)} /\ d1 <= d + 1 /\ Len(queue) >= max /\ ~Late'
    <3> HIDE DEF d, d1, e, e1, l, l1, u, g, max
    <3>1. Spare' >= Spare
      BY <1>0, <1>3, <1>4, <1>5, <2>1, <2>3
    <3> QED BY <1>7, <3>1
  <2>4. CASE dropped' = dropped \cup {Head(queue)} /\ d1 <= d + 1 /\ Len(queue) >= max /\ Late'
    <3>1. PICK s \in Samples : s \in transit
      BY <1>1, <2>4 DEF Late
    <3>2. Flight' <= Flight - 1 /\ Spare >= 1
      BY <1>9, <2>1, <2>4, <3>1
    <3> HIDE DEF d, d1, e, e1, l, l1, u, g, max
    <3>3. Spare' >= Spare - 1
      BY <1>0, <1>3, <1>4, <1>5, <2>1, <2>4
    <3> QED BY <1>7, <3>2, <3>3
  <2> QED BY <1>8, <2>2, <2>3, <2>4
<1>11. CASE m # Finish
  <2>1. m \in Samples
    BY <1>1, <1>11 DEF Stored
  <2>2. e1 = e
    <3>1. (Ended # "no")' <=> Sent' /\ Finish \notin transit'
      BY DEF Ended, Sent
    <3>2. (Sent' <=> Sent) /\ (Finish \in transit' <=> Finish \in transit)
      BY <1>0, <1>1, <1>11 DEF Sent
    <3>3. (Ended # "no")' <=> Ended # "no"
      BY <3>1, <3>2, EndedIs
    <3> QED BY <3>3 DEF In
  <2>3. ~Late'
    <3>1. \A s \in Samples : s \notin transit'
      BY <1>1, <2>1 DEF Stored
    <3> QED BY <3>1 DEF Late
  <2>4. Late <=> Has(queue, Finish)
    BY <1>1, <2>1 DEF Late
  <2>5. CASE Has(queue, Finish) \/ (dropped' = dropped /\ d1 = d)
    <3>1. l1 = 0 /\ (d1 = d \/ (l = 1 /\ d1 <= d + 1))
      BY <1>5, <1>8, <2>3, <2>4, <2>5
    <3> HIDE DEF d, d1, e, e1, l, l1, u, g, max
    <3>2. Spare' >= Spare
      BY <1>0, <1>3, <1>4, <1>5, <2>2, <3>1
    <3> QED BY <1>7, <3>2
  <2>6. CASE /\ ~Has(queue, Finish) /\ dropped' = dropped \cup {Head(queue)} /\ d1 <= d + 1
             /\ Len(queue) >= max
    <3>1. Flight' <= Flight - 1 /\ Spare >= 1
      BY <1>1, <1>9, <2>1, <2>6
    <3>2. l = 0 /\ l1 = 0
      BY <1>5, <2>3, <2>4, <2>6
    <3> HIDE DEF d, d1, e, e1, l, l1, u, g, max
    <3>3. Spare' >= Spare - 1
      BY <1>0, <1>3, <1>4, <1>5, <2>2, <2>6, <3>2
    <3> QED BY <1>7, <3>1, <3>3
  <2> QED BY <1>8, <2>5, <2>6
<1> QED BY <1>10, <1>11

\* Nothing else makes a sample late.
LEMMA LateStep ==
  ASSUME LInv, Hand, Stored, [Next]_vars, ~PutRuns
  PROVE  /\ Late' => Late
         /\ (Ended # "no")' <=> Ended # "no"
<1>1. Sent' <=> Sent \/ MainFinishes
  BY SentStep
<1>2. (Ended # "no")' <=> Sent' /\ Finish \notin transit'
  BY DEF Ended, Sent
<1>3. Late' <=> Has(queue', Finish) /\ \E s \in Samples : s \in transit'
  BY DEF Late
<1>4. CASE MainFinishes
  <2>1. Finish \in transit' /\ queue' = queue /\ ~Sent
    BY <1>4, MainSends
  <2>2. ~Has(queue', Finish)
    BY <2>1 DEF Stored
  <2> QED BY <1>2, <1>3, <2>1, <2>2, EndedIs
<1>5. CASE ConsumerPuts
  <2>1. ~Sent /\ queue' = queue
    BY <1>5 DEF ConsumerPuts, RunningAt, RunningIn, Stored, mqVars
  <2>2. ~Has(queue', Finish)
    BY <2>1 DEF Stored
  <2>3. ~MainFinishes
    BY <1>5, RunningIs DEF ConsumerPuts, MainFinishes, RunningAt, RunningIn, Running, LInv, Coroutines
  <2> QED BY <1>1, <1>2, <1>3, <2>1, <2>2, <2>3, EndedIs
<1>6. CASE ~MainFinishes /\ ~ConsumerPuts
  <2>1. transit' = transit
    BY <1>6, DataStep DEF DataFrames
  <2>2. Has(queue', Finish) => Has(queue, Finish)
    <3>1. CASE Collect \/ CollectEnd
      <4>1. queue # <<>> /\ queue' = Tail(queue) /\ queue \in Seq(Samples \cup {Finish})
        BY <3>1 DEF Collect, CollectEnd, GetSample, Stored
      <4>2. /\ Len(queue') = Len(queue) - 1 /\ Len(queue) \in Nat
            /\ \A i \in 1..Len(queue') : queue'[i] = queue[i + 1]
        BY <4>1, HeadTailProperties, LenProperties
      <4>3. \A i \in 1..Len(queue') : i + 1 \in 1..Len(queue)
        BY <4>2
      <4> QED BY <4>2, <4>3 DEF Has
    <3>2. CASE ~(Collect \/ CollectEnd)
      BY <3>2, DataStep DEF DataFrames
    <3> QED BY <3>1, <3>2
  <2> QED BY <1>1, <1>2, <1>3, <1>6, <2>1, <2>2, EndedIs DEF Late
<1> QED BY <1>4, <1>5, <1>6

\* ... which costs at most two samples a version, and one at the end.
LEMMA BoundedStep ==
  ASSUME LInv, Hand, Stored, Conserved, Training, Covered, Bounded, [Next]_vars
  PROVE  Bounded'
<1> DEFINE max == conf.maxRequired
           d == Cardinality(dropped)
           e == In(Ended # "no")
           e1 == In((Ended # "no")')
           l == In(Late)
           l1 == In(Late')
           u == In(Counting)
           u1 == In(Counting')
           g == In(at["proc"] = "get")
           g1 == In(at'["proc"] = "get")
           f0 == Flight
           f1 == Flight'
           s0 == Spare
           s1 == Spare'
<1>0. /\ Points /\ DOMAIN at = Coroutines /\ {"proc", "update", "main"} \subseteq Coroutines
      /\ conf' = conf /\ max \in Nat /\ rversion \in Nat /\ rversion' \in Nat
      /\ f0 \in Nat /\ f1 \in Nat /\ staleness \in Nat /\ staleness' \in Nat
      /\ f0 <= staleness + 2 /\ f1 <= staleness' + 2
  BY FlightType, FlightStep, ConfType, DataStep, CoveredStep, TrainingStep
     DEF LInv, Scheduling, Points, Coroutines, Covered, DataFrames, Training
<1>1. d \in Nat
  <2>1. IsFiniteSet(Samples \cup {Finish})
    BY BusyFinite, FS_AddElement
  <2>2. dropped \in SUBSET (Samples \cup {Finish})
    BY DEF Stored
  <2> QED BY <2>1, <2>2, FS_Subset, FS_CardinalityType
<1>2. /\ e \in {0, 1} /\ e1 \in {0, 1} /\ l \in {0, 1} /\ l1 \in {0, 1} /\ u \in {0, 1} /\ u1 \in {0, 1}
      /\ g \in {0, 1} /\ g1 \in {0, 1}
      /\ (u = 1 <=> Counting) /\ (u1 = 1 <=> Counting')
      /\ (g = 1 <=> at["proc"] = "get") /\ (g1 = 1 <=> at'["proc"] = "get")
  BY DEF In
<1>3. /\ s0 >= 0 /\ s0 >= f0 - staleness /\ s0 >= f0 + g - max
      /\ f0 <= max + 2 /\ (at["proc"] = "get" => f0 <= max + 1)
  BY DEF Bounded
<1>4. ASSUME ~PutRuns
      PROVE  /\ s0 = 2 * rversion + e - d - l - 2 * u
             /\ s1 = 2 * rversion' + e - d - l1 - 2 * u1
             /\ l1 <= l
  <2>1. dropped' = dropped
    BY <1>4, DataStep DEF DataFrames
  <2>2. e1 = e /\ l1 <= l
    BY <1>4, LateStep DEF In
  <2>3. s1 = 2 * rversion' + e1 - Cardinality(dropped') - l1 - 2 * u1
    BY DEF Spare
  <2> QED BY <2>1, <2>2, <2>3 DEF Spare
<1>5. ASSUME s1 >= 0, s1 >= f1 - staleness', s1 >= f1 + g1 - max,
             f1 <= max + 2, at'["proc"] = "get" => f1 <= max + 1
      PROVE  Bounded'
  BY <1>0, <1>5 DEF Bounded
<1>6. s0 \in Int /\ (~PutRuns => s1 \in Int)
  BY <1>0, <1>1, <1>2, <1>4 DEF Spare
<1>7. ~ProcGet => f1 <= f0
  BY FlightStep
<1>8. \/ rversion' = rversion /\ (Counting' => Counting)
      \/ UpdateStart(call.version)
  BY <1>0, DataStep, CountingStep DEF DataFrames
<1>9. ASSUME ~UpdateStart(call.version), ~PutRuns PROVE s1 >= s0
  <2>1. u1 <= u /\ rversion' = rversion
    BY <1>8, <1>9 DEF In
  <2> HIDE DEF d, e, e1, l, l1, u, u1, g, g1, s0, s1
  <2> QED BY <1>0, <1>1, <1>2, <1>4, <1>9, <2>1
<1>10. PutRuns => at' = at
  BY DEF PutRuns
<1>11. CASE ProcGet
  <2>1. /\ staleness' = staleness + 1 /\ at["proc"] = "get" /\ at'["proc"] = "loop"
        /\ at'["update"] = at["update"]
    BY <1>0, <1>11 DEF ProcGet, RunningAt, RunningIn
  <2>2. f1 <= f0 + 1
    BY <1>0, FlightStep
  <2>3. ~PutRuns /\ ~UpdateStart(call.version)
    BY <1>10, <2>1, <1>0, CountingStep
  <2>4. s1 >= s0 /\ g = 1 /\ g1 = 0
    BY <1>2, <1>9, <2>1, <2>3
  <2> HIDE DEF d, e, e1, l, l1, u, u1, g, g1, s0, s1, f0, f1, max
  <2> QED BY <1>0, <1>3, <1>5, <1>6, <2>1, <2>2, <2>3, <2>4
<1>12. CASE ProcTop
  <2>1. /\ staleness' = staleness /\ at["proc"] = "top" /\ at'["update"] = at["update"]
        /\ at'["proc"] = "get" => staleness < max
        /\ at'["proc"] # at["proc"]
    BY <1>0, <1>12 DEF ProcTop, RunningAt, RunningIn, Acquire, Go, ShouldPause, counting
  <2>2. ~ProcGet
    BY <2>1 DEF ProcGet, RunningAt, RunningIn
  <2>3. ~PutRuns /\ ~UpdateStart(call.version)
    BY <1>10, <2>1, <1>0, CountingStep
  <2>4. s1 >= s0 /\ f1 <= f0 /\ g = 0
    BY <1>2, <1>7, <1>9, <2>1, <2>2, <2>3
  <2> HIDE DEF d, e, e1, l, l1, u, u1, g, g1, s0, s1, f0, f1, max
  <2>5. s1 >= f1 + g1 - max
    BY <1>0, <1>2, <1>3, <1>6, <2>1, <2>3, <2>4
  <2> QED BY <1>0, <1>2, <1>3, <1>5, <1>6, <2>1, <2>3, <2>4, <2>5
<1>13. CASE UpdateStart(call.version)
  <2>1. /\ at'["proc"] = at["proc"] /\ staleness' = staleness /\ rversion' = call.version
        /\ at["update"] = "start" /\ at'["update"] = "size"
    BY <1>0, <1>13 DEF UpdateStart, RunningAt, RunningIn, Go
  <2>2. ~ProcGet /\ ~PutRuns
    BY <1>0, <1>10, <2>1 DEF ProcGet
  <2>3. rversion' = rversion + 1 /\ u = 0 /\ u1 = 1 /\ g1 = g
    BY <1>0, <2>1 DEF Training, In, Counting
  <2>4. f1 <= f0 /\ l1 <= l
    BY <1>4, <1>7, <2>2
  <2> HIDE DEF d, e, e1, l, l1, u, u1, g, g1, s0, s1, f0, f1, max
  <2>5. s1 >= s0
    BY <1>0, <1>1, <1>2, <1>4, <2>2, <2>3, <2>4
  <2> QED BY <1>0, <1>2, <1>3, <1>5, <1>6, <2>1, <2>2, <2>3, <2>4, <2>5
<1>14. CASE UpdateAssign
  <2>1. /\ at'["proc"] = at["proc"] /\ rversion' = rversion
        /\ at["update"] = "assign" /\ at'["update"] = "validate"
    BY <1>0, <1>14 DEF UpdateAssign, RunningAt, RunningIn, Go
  <2>2. ~ProcGet /\ ~PutRuns
    BY <1>0, <1>10, <2>1 DEF ProcGet
  <2>3. u = 1 /\ u1 = 0 /\ g1 = g
    BY <2>1 DEF In, Counting
  <2>4. f1 <= f0 /\ l1 <= l
    BY <1>4, <1>7, <2>2
  <2> HIDE DEF d, e, e1, l, l1, u, u1, g, g1, s0, s1, f0, f1, max
  <2>5. s1 >= s0 + 2
    BY <1>0, <1>1, <1>2, <1>4, <2>1, <2>2, <2>3, <2>4
  <2>6. s1 \in Int /\ s0 \in Int
    BY <1>6, <2>2
  <2>7. s1 >= 0 /\ s1 >= f1 - staleness'
    <3>1. PICK x \in Nat : x = staleness'
      BY <1>0
    <3>2. PICK y \in Nat : y = f1 /\ y <= x + 2
      BY <1>0, <3>1
    <3>3. s1 >= 2 /\ s1 >= 0
      BY <1>3, <2>5, <2>6
    <3>4. s1 >= y - x
      BY <2>6, <3>2, <3>3
    <3> QED BY <3>1, <3>2, <3>3, <3>4
  <2>8. s1 >= f1 + g1 - max
    BY <1>0, <1>2, <1>3, <2>3, <2>4, <2>5, <2>6
  <2>9. f1 <= max + 2 /\ (at'["proc"] = "get" => f1 <= max + 1)
    BY <1>0, <1>3, <2>1, <2>4
  <2> QED BY <1>5, <2>7, <2>8, <2>9
<1>15. CASE ~(ProcGet \/ ProcTop \/ Update \/ PutRuns)
  <2>1. staleness' = staleness
    BY <1>15, DataStep DEF DataFrames, Update
  <2>2. at'["proc"] = "get" => at["proc"] = "get"
    <3>1. Processor => at'["proc"] # "get"
      BY <1>0, <1>15 DEF Processor, ProcMark, ProcLoop, ProcDrain, ProcCollect, ProcSleep,
        ProcNotified, ProcSubmit, ProcStops, CreateTask, Acquire, Go
    <3> QED BY <1>0, <3>1, PointStep DEF PointFrames
  <2>3. s1 >= s0 /\ f1 <= f0 /\ g1 <= g
    BY <1>2, <1>7, <1>9, <1>15, <2>2 DEF Update
  <2> HIDE DEF d, e, e1, l, l1, u, u1, g, g1, s0, s1, f0, f1, max
  <2> QED BY <1>0, <1>2, <1>3, <1>5, <1>6, <1>15, <2>1, <2>2, <2>3
<1> QED BY <1>11, <1>12, <1>13, <1>14, <1>15, PutSpare DEF Update

-----------------------------------------------------------------------------
\* The end.

LEMMA ProcStays ==
  ASSUME LInv, [Next]_vars, at["proc"] \in {"ended", "failed"}
  PROVE  at'["proc"] = at["proc"]
<1>1. Order /\ Locking /\ "proc" \in Coroutines /\ "proc" \notin Runs /\ DOMAIN at = Coroutines
  BY DEF LInv, Scheduling, Points, Runnable, ProcRuns, Coroutines
<1>2. ~Processor
  <2>1. ~Running("proc")
    BY <1>1, RunningIs
  <2> QED BY <2>1 DEF Processor, ProcTop, ProcGet, ProcMark, ProcLoop, ProcDrain, ProcCollect,
    ProcSleep, ProcNotified, ProcSubmit, RunningAt, RunningIn
<1> QED BY <1>1, <1>2, PointStep DEF PointFrames

\* Without partial rollout nothing is ever cancelled.
LEMMA NoCancel ==
  ASSUME LInv, Stored, Quiet, Ending, [Next]_vars, ~conf.partial
  PROVE  ~serverPaused' /\ cancelq' = <<>> /\ \A s \in Samples : gen'[s] # "cancelled"
<1>0. /\ ~serverPaused /\ cancelq = <<>> /\ \A s \in Samples : gen[s] # "cancelled"
      /\ Order /\ TaskList /\ gen \in [Samples -> {"none", "sent", "decoding"} \cup Asks]
  BY DEF Ending, LInv, TaskList
<1>1. ~serverPaused'
  <2>1. ~CancelAnswered /\ (ServerResumed => ~serverPaused')
    BY DEF CancelAnswered, ServerResumed, Quiet
  <2> QED BY <1>0, <2>1, DataStep DEF DataFrames
<1>2. cancelq' = <<>>
  <2>1. TaskEnd => cancelq' = cancelq
    BY <1>0, TaskRuns DEF TaskEnd
  <2>2. ProcTop => cancelq' = cancelq
    BY <1>0 DEF ProcTop
  <2> QED BY <1>0, <2>1, <2>2, DataStep DEF DataFrames
<1>3. \A s \in Samples : gen'[s] # "cancelled"
  <2>1. CASE ProcSubmit
    <3>1. gen' = gen \/ gen' = [gen EXCEPT ![hand] = "created"]
      BY <2>1 DEF ProcSubmit, CreateTask
    <3> QED BY <1>0, <3>1
  <2>2. CASE TaskBegin
    BY <1>0, <2>2 DEF TaskBegin
  <2>3. CASE TaskEnd
    <3>1. gen' = [gen EXCEPT ![Head(due)] = "none"]
      BY <2>3 DEF TaskEnd
    <3> QED BY <1>0, <3>1
  <2>4. CASE Server
    <3>1. PICK s \in Samples : ServerStarts(s) \/ ServerFinishes(s) \/ ServerRaises(s)
      BY <1>0, <2>4 DEF Server, ServerCancels
    <3>2. \E answer \in {"decoding", "complete", "error"} : gen' = [gen EXCEPT ![s] = answer]
      BY <3>1 DEF ServerStarts, ServerFinishes, ServerRaises, ServerAnswers
    <3> QED BY <1>0, <3>2
  <2> QED BY <1>0, <2>1, <2>2, <2>3, <2>4, DataStep DEF DataFrames
<1> QED BY <1>1, <1>2, <1>3

\* Behind the end of the processor there is nothing left to send.
LEMMA AfterFinish ==
  ASSUME LInv, Hand, Stored, Ending, [Next]_vars
  PROVE  Sent' /\ at'["proc"] # "failed" => at'["proc"] = "ended" /\ resultq' = <<>>
<1>0. Order /\ Locking /\ TaskList
  BY DEF LInv, Scheduling
<1> SUFFICES ASSUME Sent', at'["proc"] # "failed"
    PROVE  at'["proc"] = "ended" /\ resultq' = <<>>
  OBVIOUS
<1>1. Sent \/ MainFinishes
  BY SentStep
<1>2. CASE MainFinishes
  <2>1. at["proc"] # "failed"
    BY SentStep
  <2> QED BY <1>2, <2>1, MainSends
<1>3. CASE Sent
  <2>1. at'["proc"] = at["proc"] /\ at["proc"] = "ended" /\ resultq = <<>> /\ at["consumer"] = "off"
    BY <1>3, SentStep DEF Ending, Stored
  <2>2. Busy = {}
    BY <2>1 DEF LInv, Scheduling, Feeding
  <2>3. ~TaskEnd
    BY <1>0, <2>2, TaskRuns DEF TaskEnd
  <2>4. ~ConsumerPuts
    BY <2>1 DEF ConsumerPuts
  <2> QED BY <2>1, <2>3, <2>4, DataStep DEF DataFrames
<1> QED BY <1>1, <1>2, <1>3

LEMMA EndingStep ==
  ASSUME LInv, Hand, Stored, Quiet, Training, Ending, [Next]_vars
  PROVE  Ending'
<1>0. conf' = conf
  BY DataStep DEF DataFrames
<1>1. ASSUME Sent, Finish \notin transit, at["proc"] # "failed" => queue = <<>>
      PROVE  Sent' /\ Finish \notin transit' /\ (at'["proc"] # "failed" => queue' = <<>>)
  <2>1. Sent' /\ ~MainFinishes /\ at'["proc"] = at["proc"]
    BY <1>1, SentStep, MainSends
  <2>2. ~ConsumerPuts
    BY <1>1 DEF ConsumerPuts, Stored, RunningAt, RunningIn
  <2>3. transit' \subseteq transit
    <3>1. transit' = transit \/ PutRuns
      BY <2>1, <2>2, DataStep DEF DataFrames
    <3> QED BY <3>1 DEF PutRuns
  <2>4. ASSUME at["proc"] # "failed" PROVE queue' = <<>>
    <3>1. transit = {} /\ queue = <<>>
      BY <1>1, <2>4 DEF Stored
    <3>2. ~PutRuns /\ ~Collect /\ ~CollectEnd
      BY <3>1 DEF PutRuns, Collect, CollectEnd, GetSample
    <3> QED BY <3>1, <3>2, DataStep DEF DataFrames
  <2> QED BY <1>1, <2>1, <2>3, <2>4
<1>2. ASSUME CollectEnd
      PROVE  Sent' /\ Finish \notin transit' /\ (at'["proc"] # "failed" => queue' = <<>>)
  <2>1. /\ queue # <<>> /\ Head(queue) = Finish /\ queue' = Tail(queue) /\ at' = at /\ transit' = transit
    BY <1>2 DEF CollectEnd, GetSample, rVars, sched, queues
  <2>2. /\ queue \in Seq(Samples \cup {Finish}) /\ Len(queue) \in Nat \ {0} /\ queue[1] = Finish
        /\ 1 \in 1..Len(queue)
    BY <2>1, EmptySeq, HeadTailProperties DEF Stored
  <2>3. Sent /\ Finish \notin transit
    BY <2>2 DEF Stored, Has
  <2>4. ASSUME at["proc"] # "failed" PROVE queue' = <<>>
    <3>1. Len(queue) = 1
      BY <2>2, <2>4 DEF Stored
    <3>2. Tail(queue) \in Seq(Samples \cup {Finish}) /\ Len(Tail(queue)) = 0
      BY <2>1, <2>2, <3>1, HeadTailProperties
    <3> QED BY <2>1, <3>2, EmptySeq
  <2> QED BY <2>1, <2>3, <2>4 DEF Sent
<1>3. tpc' \in {"final", "done"} \/ final' => tpc \in {"final", "done"} \/ final \/ CollectEnd
  <2>1. CASE UNCHANGED trainerVars
    BY <2>1 DEF trainerVars
  <2>2. CASE Collect
    BY <2>2 DEF Collect
  <2>3. CASE Train
    BY <2>3 DEF Train, StartSync
  <2>4. CASE SyncPauses \/ PauseReturns \/ SyncSends \/ ReadValidation
    BY <2>4 DEF SyncPauses, PauseReturns, SyncSends, ReadValidation, CallFrame
  <2> QED BY <2>1, <2>2, <2>3, <2>4, NotTrainer DEF Trainer
<1>4. tpc' \in {"final", "done"} \/ final' =>
        Sent' /\ Finish \notin transit' /\ (at'["proc"] # "failed" => queue' = <<>>)
  BY <1>1, <1>2, <1>3 DEF Ending
<1>5. Sent' /\ at'["proc"] # "failed" => at'["proc"] = "ended" /\ resultq' = <<>>
  BY AfterFinish
<1>6. ~conf'.partial => ~serverPaused' /\ cancelq' = <<>> /\ \A s \in Samples : gen'[s] # "cancelled"
  BY <1>0, NoCancel
<1> QED BY <1>4, <1>5, <1>6 DEF Ending

-----------------------------------------------------------------------------
\* The processor's first turn.

LEMMA FirstStays ==
  ASSUME NEW A, NEW s \in Seq(A), s # <<>>, NEW t \in Seq(A)
  PROVE  /\ s \o t # <<>> /\ (s \o t)[1] = s[1] /\ Len(s \o t) >= Len(s)
         /\ Len(s) >= 2 => (s \o t)[2] = s[2]
<1>1. /\ Len(s) \in Nat \ {0} /\ Len(t) \in Nat
  BY EmptySeq, LenProperties
<1>2. /\ s \o t \in Seq(A) /\ Len(s \o t) = Len(s) + Len(t)
      /\ \A i \in 1..Len(s) + Len(t) : (s \o t)[i] = IF i <= Len(s) THEN s[i] ELSE t[i - Len(s)]
  BY ConcatProperties
<1> DEFINE st == s \o t
           n == Len(s)
           m == Len(t)
<1> HIDE DEF st, n, m
<1>3. /\ n \in Nat \ {0} /\ m \in Nat /\ st \in Seq(A) /\ Len(st) = n + m
      /\ \A i \in 1..n + m : st[i] = IF i <= n THEN s[i] ELSE t[i - n]
  BY <1>1, <1>2 DEF st, n, m
<1>4. 1 \in 1..n + m /\ 1 <= n /\ (n >= 2 => 2 \in 1..n + m)
  BY <1>3
<1>5. st[1] = s[1] /\ (n >= 2 => st[2] = s[2])
  BY <1>3, <1>4
<1>6. st # <<>>
  BY <1>3, EmptySeq
<1>7. Len(st) >= n
  BY <1>3
<1> QED BY <1>5, <1>6, <1>7 DEF st, n

\* Nothing but feed, processor and timer makes a step during it.
LEMMA OpeningAlone ==
  ASSUME LInv, Opening, [Next]_vars
  PROVE  /\ fed = 0 => ((Feed \/ Timer) /\ UNCHANGED trainerVars) \/ UNCHANGED vars
         /\ fed # 0 => ((Processor \/ Timer) /\ UNCHANGED trainerVars) \/ UNCHANGED vars
         /\ ready # <<>> /\ Head(ready) = ready[1] /\ transit' = {}
<1>1. ready \in Seq(Coroutines \cup {"task"}) /\ (fed = 0 => Len(ready) >= 2)
  BY DEF LInv, Order, Opening
<1>2. ready # <<>>
  BY <1>1 DEF Opening
<1>3. Head(ready) = ready[1]
  BY <1>1, <1>2
<1>4. \A c : Running(c) => c = IF fed = 0 THEN "feed" ELSE "proc"
  BY <1>3 DEF Running, Opening
<1>5. ~TaskBegin /\ ~TaskEnd /\ ~Stream /\ ~Calls /\ ~Update
  <2>1. ~TaskBegin /\ ~TaskEnd
    BY <1>4 DEF TaskBegin, TaskEnd
  <2>2. ~Stream
    BY <1>4 DEF Stream, ConsumerPuts, ConsumerIdles, MainJoins, MainFinishes, MainLocks, MainEnds, RunningAt,
      RunningIn
  <2>3. ~Calls
    BY <1>4 DEF Calls, MonitorLooks, MonitorUnpauses, MonitorLocks, MonitorSleeps, PauseCalled, PauseStart, PauseTasks,
      PauseGathered, PauseEnd, UpdateCalled, UpdateAssign, UpdateEnd, ResumeCalled, ResumeUnpauses,
      ResumeEnd, Enters, RunningAt, RunningIn
  <2>4. ~Update
    BY <1>4 DEF Update, UpdateStart, UpdateAssign, RunningAt, RunningIn
  <2> QED BY <2>1, <2>2, <2>3, <2>4
<1>6. ~Answers /\ ~Server /\ ~Actor
  <2>1. ~Answers
    <3>1. at["main"] # "put"
      BY DEF Opening, LInv, Scheduling, Runnable, MainRuns
    <3> QED BY <3>1 DEF Opening, Answers, PutAnswered, FinishAnswered, CancelAnswered, ResetAnswered, SizeAnswered,
      ValidateAnswered, ServerResumed, UpdateArrives, ResumeArrives
  <2>3. ~Actor
    BY DEF Opening, Actor, PutRuns, SizeRuns, ValidateRuns
  <2>2. ~Server
    BY DEF Opening, Server, ServerStarts, ServerFinishes, ServerCancels, ServerRaises
  <2> QED BY <2>1, <2>2, <2>3
<1>7. ~Trainer
  BY DEF Opening, Trainer, Collect, CollectEnd, GetSample, Train, SyncPauses, PauseReturns, SyncSends,
         ReadValidation
<1>8. fed = 0 => ~Processor
  BY <1>4 DEF Processor, ProcTop, ProcGet, ProcMark, ProcLoop, ProcDrain, ProcCollect, ProcSleep,
              ProcNotified, ProcSubmit, RunningAt, RunningIn
<1>9. fed # 0 => ~Feed
  BY <1>4 DEF Feed, RunningAt, RunningIn
<1>10. transit' = {}
  BY <1>5, <1>6, DataStep DEF DataFrames, Opening, Stream, Actor
<1> QED BY <1>2, <1>3, <1>5, <1>6, <1>7, <1>8, <1>9, <1>10 DEF Next, Loop, Outside, Over, EventLoop, Update

\* The lock is free whenever the processor asks for it.
LEMMA OpeningAcquires ==
  ASSUME LInv, Opening, fed # 0, at["proc"] \in {"top", "loop"}, NEW point, Acquire("proc", point)
  PROVE  /\ lock' = "proc" /\ waiters' = <<>> /\ at' = [at EXCEPT !["proc"] = point]
         /\ ready' # <<>> /\ ready'[1] = "proc"
<1>1. Running("proc") /\ "proc" \in Coroutines
  <2>1. ready # <<>> /\ ready[1] = "proc" /\ ready \in Seq(Coroutines \cup {"task"})
    BY DEF Opening, LInv, Order
  <2> QED BY <2>1 DEF Running, Coroutines
<1>2. ~Inside("proc")
  BY DEF Inside, AtLock
<1>3. lock = Nobody
  BY <1>1, <1>2, RunningIs DEF LInv, Opening
<1>4. /\ lock' = "proc" /\ ready' = ready \o <<>> /\ waiters' = <<>> /\ at' = [at EXCEPT !["proc"] = point]
  BY <1>3 DEF Acquire, Continues, Go, Opening
<1>5. ready \in Seq(Coroutines \cup {"task"}) /\ ready # <<>> /\ ready[1] = "proc"
      /\ <<>> \in Seq(Coroutines \cup {"task"})
  BY DEF LInv, Order, Opening
<1> QED BY <1>4, <1>5, FirstStays

\* With room in the pending queue it goes from the top to the wait for its first task.
LEMMA OpeningStep ==
  ASSUME LInv, Hand, hand # 0 => gen[hand] = "none", Stored, PendingCap > conf.concurrent, Opening,
         [Next]_vars
  PROVE  Opening' \/ at'["proc"] = "wait"
<1> DEFINE n == Active
           cap == conf.concurrent
<1>0. /\ DOMAIN at = Coroutines /\ "proc" \in Coroutines /\ ready \in Seq(Coroutines \cup {"task"})
      /\ ready # <<>> /\ <<>> \in Seq(Coroutines \cup {"task"})
  BY DEF LInv, Order, Scheduling, Points, Coroutines, Opening
<1>1. /\ Total \in Nat \ {0} /\ PendingCap \in Nat \ {0} /\ cap \in Nat \ {0} /\ conf.maxRequired \in Nat
      /\ cap <= conf.maxRequired /\ PendingCap > cap
  BY RollouterAssumption DEF Stored
<1>2. /\ n = Cardinality(Busy) /\ n \in Nat /\ n <= Total
  <2>1. Busy \in SUBSET (1..Total)
    BY DEF Busy, Samples
  <2>2. IsFiniteSet(1..Total) /\ Cardinality(1..Total) = Total
    <3>1. \A a, b \in Int : IsFiniteSet(a..b) /\ Cardinality(a..b) = IF a > b THEN 0 ELSE b - a + 1
      BY FS_Interval
    <3>2. 1 \in Int /\ Total \in Int /\ ~(1 > Total) /\ Total - 1 + 1 = Total
      BY <1>1
    <3>3. IsFiniteSet(1..Total) /\ Cardinality(1..Total) = IF 1 > Total THEN 0 ELSE Total - 1 + 1
      BY <3>1, <3>2
    <3> QED BY <3>2, <3>3
  <2>3. Cardinality(Busy) <= Total
    BY <2>1, <2>2, FS_Subset
  <2>4. Cardinality(Busy) \in Nat
    BY BusyFinite
  <2> DEFINE b == Cardinality(Busy)
  <2> HIDE DEF b
  <2>5. b \in Nat /\ b <= Total /\ n = b + 0 + 0
    BY <2>3, <2>4 DEF b, Opening, Active
  <2> QED BY <2>5 DEF b
<1>3. taken \in Nat /\ fed \in 0..Total + 1 /\ (loop = "end" => taken = Total + 1)
  BY DEF LInv, Scheduling, Feeding
<1>4. UNCHANGED <<gen, finished, raised>> => Active' = n
  BY DEF Active, Busy
<1>5. taken = n + In(hand # 0) + In(loop = "end") /\ n <= cap
  BY DEF Opening
<1>10. transit' = {}
  BY OpeningAlone
<1> HIDE DEF n, cap
<1>6. CASE Feed /\ fed = 0 /\ UNCHANGED trainerVars
  <2>1. /\ at' = [at EXCEPT !["feed"] = IF fed' = Total + 1 THEN "done" ELSE "full"]
        /\ ready' = Tail(ready) \o (<<>> \o <<>>) /\ fed' = Min({taken + PendingCap, Total + 1})
        /\ UNCHANGED <<conf, queue, cancelq, lock, waiters, paused, staleness, taken, hand, loop, gen, finished,
                       raised>>
    BY <1>6 DEF Feed, Go, Waits, MainWoken, Opening, mqVars, flags, counting, tasks, queues
  <2>2. taken = 0 /\ fed' = Min({PendingCap, Total + 1}) /\ fed' # 0
    <3>1. n = 0 /\ taken = 0
      <4>1. hand = 0 /\ at["proc"] = "top" /\ loop \in {"none", "room"}
        BY <1>6 DEF Hand, Opening
      <4>2. In(hand # 0) = 0 /\ In(loop = "end") = 0
        BY <4>1 DEF In
      <4>3. fed - taken \in 0..PendingCap
        BY DEF LInv, Scheduling, Feeding
      <4> QED BY <1>1, <1>2, <1>3, <1>5, <1>6, <4>2, <4>3
    <3>2. taken + PendingCap = PendingCap
      BY <1>1, <3>1
    <3>3. fed' = Min({PendingCap, Total + 1})
      BY <2>1, <3>2
    <3> QED BY <1>1, <3>1, <3>3, MinOfTwo
  <2>3. ready' # <<>> /\ ready'[1] = "proc"
    <3>1. /\ Tail(ready) \in Seq(Coroutines \cup {"task"}) /\ Len(Tail(ready)) = Len(ready) - 1
          /\ \A i \in 1..Len(Tail(ready)) : Tail(ready)[i] = ready[i + 1]
      BY <1>0, HeadTailProperties
    <3>2. Len(ready) >= 2 /\ ready[2] = "proc" /\ Len(ready) \in Nat
      BY <1>0, <1>6 DEF Opening
    <3> DEFINE t == Tail(ready)
    <3> HIDE DEF t
    <3>3. Len(t) \in Nat \ {0} /\ 1 \in 1..Len(t) /\ t[1] = ready[1 + 1] /\ t \in Seq(Coroutines \cup {"task"})
      BY <3>1, <3>2 DEF t
    <3>4. t # <<>> /\ t[1] = "proc"
      BY <3>2, <3>3, EmptySeq
    <3>5. ready' = t \o (<<>> \o <<>>) /\ <<>> \o <<>> = <<>>
      BY <2>1, ConcatEmptySeq DEF t
    <3> QED BY <1>0, <3>3, <3>4, <3>5, FirstStays
  <2>4. /\ at'["proc"] = at["proc"] /\ at'["consumer"] = at["consumer"] /\ at'["pause"] = at["pause"]
        /\ at'["update"] = at["update"] /\ at'["resume"] = at["resume"]
    BY <1>0, <2>1 DEF Coroutines
  <2>5. tpc' = tpc /\ Active' = Active
    BY <1>6, <2>1 DEF trainerVars, Active, Busy
  <2> QED BY <1>10, <2>1, <2>2, <2>3, <2>4, <2>5 DEF Opening
<1>7. CASE UNCHANGED vars
  <2>1. UNCHANGED <<tpc, queue, cancelq, conf, at, ready, lock, waiters, paused, staleness, fed, taken, hand, loop,
                    gen, finished, raised>>
    BY <1>7 DEF vars, mqVars, trainerVars, rVars, sched, flags, counting, picking, tasks, queues
  <2>2. Active' = Active
    BY <2>1 DEF Active, Busy
  <2> QED BY <1>10, <2>1, <2>2 DEF Opening
<1>8. CASE Timer /\ UNCHANGED trainerVars
  <2>1. /\ ready' = Append(ready, "monitor") /\ at' = [at EXCEPT !["monitor"] = "awake"]
        /\ UNCHANGED <<conf, queue, cancelq, lock, waiters, paused, staleness, taken, fed, hand, loop, gen,
                       finished, raised, tpc>>
    BY <1>8 DEF Timer, Wakes, Go, mqVars, flags, counting, picking, tasks, queues, trainerVars
  <2>2. /\ ready' # <<>> /\ ready'[1] = ready[1] /\ Len(ready') >= Len(ready)
        /\ Len(ready) >= 2 => ready'[2] = ready[2]
    <3>1. <<"monitor">> \in Seq(Coroutines \cup {"task"}) /\ ready' = ready \o <<"monitor">>
      BY <1>0, <2>1, AppendIsConcat DEF Coroutines
    <3> QED BY <1>0, <3>1, FirstStays
  <2>3. /\ at'["proc"] = at["proc"] /\ at'["consumer"] = at["consumer"] /\ at'["pause"] = at["pause"]
        /\ at'["update"] = at["update"] /\ at'["resume"] = at["resume"]
    BY <1>0, <2>1 DEF Coroutines
  <2>4. Active' = Active
    BY <2>1 DEF Active, Busy
  <2>5. fed = 0 => Len(ready) >= 2 /\ Len(ready') >= 2
    <3>1. Len(ready) \in Nat /\ Len(ready') \in Nat
      BY <1>0, <2>1
    <3> QED BY <2>2, <3>1 DEF Opening
  <2> QED BY <1>10, <2>1, <2>2, <2>3, <2>4, <2>5 DEF Opening
<1>9. CASE Processor /\ fed # 0 /\ UNCHANGED trainerVars
  <2>0. tpc' = tpc /\ n' = Active'
    BY <1>9 DEF trainerVars, n
  <2>1. CASE ProcTop
    <3>1. /\ at["proc"] = "top" /\ ~paused /\ hand = 0 /\ loop \in {"none", "room"} /\ cancelq = <<>>
          /\ UNCHANGED <<conf, queue, paused, staleness, taken, fed, gen, finished, raised>>
      BY <2>1 DEF ProcTop, RunningAt, RunningIn, Opening, Hand, mqVars, flags, counting, tasks
    <3>2. taken = n
      BY <1>2, <1>5, <3>1 DEF In
    <3>3. CASE ShouldPause
      <4>1. Acquire("proc", "mark") /\ UNCHANGED <<hand, loop, cancelq>>
        BY <2>1, <3>3 DEF ProcTop
      <4>2. n > 0
        <5>1. queue = <<>> /\ staleness = taken
          BY DEF Opening
        <5>2. Len(queue) = 0
          BY <5>1
        <5>3. staleness >= conf.maxRequired
          BY <1>1, <3>3, <5>2 DEF ShouldPause
        <5> QED BY <1>1, <1>2, <3>2, <5>1, <5>3
      <4>3. /\ lock' = "proc" /\ waiters' = <<>> /\ at' = [at EXCEPT !["proc"] = "mark"]
            /\ ready' # <<>> /\ ready'[1] = "proc"
        BY <1>9, <3>1, <4>1, OpeningAcquires
      <4>4. Active' = Active /\ Active > 0
        BY <1>4, <3>1, <4>2 DEF n
      <4> QED BY <1>10, <1>0, <1>9, <2>0, <3>1, <4>1, <4>3, <4>4 DEF Opening, Coroutines
    <3>4. CASE ~ShouldPause
      <4>1. /\ at' = [at EXCEPT !["proc"] = "get"] /\ UNCHANGED <<lock, waiters, hand, loop, cancelq>>
            /\ IF fed > taken THEN Continues(<<>>) ELSE Waits(<<>>)
        BY <2>1, <3>1, <3>4 DEF ProcTop, Go
      <4>2. fed > taken
        <5>1. fed = Min({PendingCap, Total + 1})
          BY <1>9 DEF Opening
        <5> QED BY <1>1, <1>2, <1>5, <3>2, <5>1, MinOfTwo
      <4>3. ready' # <<>> /\ ready'[1] = "proc"
        <5>1. ready' = ready \o <<>>
          BY <4>1, <4>2 DEF Continues
        <5> QED BY <1>0, <1>9, <5>1, FirstStays DEF Opening
      <4>4. Active' = Active
        BY <1>4, <3>1 DEF n
      <4> QED BY <1>10, <1>0, <1>9, <2>0, <3>1, <4>1, <4>3, <4>4 DEF Opening, Coroutines
    <3> QED BY <3>3, <3>4
  <2>2. CASE ProcGet
    <3> DEFINE w == IF at["feed"] = "full" THEN <<"feed">> ELSE <<>>
    <3>1. /\ at["proc"] = "get" /\ ~paused /\ hand = 0 /\ loop \in {"none", "room"}
          /\ taken' = taken + 1 /\ staleness' = staleness + 1 /\ Continues(w)
          /\ IF taken' \in Samples THEN hand' = taken' /\ loop' = "room" ELSE loop' = "end" /\ UNCHANGED hand
          /\ at' = [at EXCEPT !["proc"] = "loop", !["feed"] = IF @ = "full" THEN "on" ELSE @]
          /\ UNCHANGED <<conf, queue, cancelq, paused, fed, lock, waiters, gen, finished, raised>>
      BY <2>2 DEF ProcGet, RunningAt, RunningIn, Opening, Hand, mqVars, flags, tasks, queues
    <3>2. taken = n
      BY <1>2, <1>5, <3>1 DEF In
    <3>3. taken' = n + In(hand' # 0) + In(loop' = "end")
      <4>1. CASE taken' \in Samples
        <5>1. hand' # 0 /\ loop' = "room"
          BY <1>2, <3>1, <3>2, <4>1
        <5>2. In(hand' # 0) = 1 /\ In(loop' = "end") = 0
          BY <5>1 DEF In
        <5> QED BY <1>2, <3>1, <3>2, <5>2
      <4>2. CASE taken' \notin Samples
        <5>1. hand' = 0 /\ loop' = "end"
          BY <3>1, <4>2
        <5>2. In(hand' # 0) = 0 /\ In(loop' = "end") = 1
          BY <5>1 DEF In
        <5> QED BY <1>2, <3>1, <3>2, <5>2
      <4> QED BY <4>1, <4>2
    <3>4. ready' # <<>> /\ ready'[1] = "proc"
      <4>1. w \in Seq(Coroutines \cup {"task"})
        <5>1. <<"feed">> \in Seq(Coroutines \cup {"task"}) /\ <<>> \in Seq(Coroutines \cup {"task"})
          BY DEF Coroutines
        <5> QED BY <5>1
      <4>2. Continues(w)
        BY <3>1
      <4> HIDE DEF w
      <4> QED BY <1>0, <1>9, <4>1, <4>2, FirstStays DEF Opening, Continues
    <3>5. Active' = Active /\ n = Active
      BY <1>4, <3>1 DEF n
    <3>6. /\ at'["proc"] = "loop" /\ at'["consumer"] = at["consumer"] /\ at'["pause"] = at["pause"]
          /\ at'["update"] = at["update"] /\ at'["resume"] = at["resume"]
      BY <1>0, <3>1 DEF Coroutines
    <3>7. staleness' = taken' /\ loop' # "pause" /\ ~paused'
      BY <3>1 DEF Opening
    <3> HIDE DEF w
    <3> QED BY <1>10, <1>9, <2>0, <3>1, <3>3, <3>4, <3>5, <3>6, <3>7 DEF Opening
  <2>3. CASE ProcMark
    <3>1. /\ at["proc"] = "mark" /\ hand = 0 /\ loop \in {"none", "room"} /\ loop' = "pause" /\ n > 0
          /\ Release /\ waiters = <<>> /\ Continues(NextHolder) /\ at' = [at EXCEPT !["proc"] = "loop"]
          /\ UNCHANGED <<conf, queue, cancelq, staleness, taken, fed, hand, gen, finished, raised>>
      BY <2>3 DEF ProcMark, RunningAt, RunningIn, Opening, Hand, Go, mqVars, counting, tasks, queues, n
    <3>2. lock' = Nobody /\ waiters' = <<>> /\ ready' = ready \o <<>>
      BY <3>1 DEF Release, NextHolder, Continues
    <3>3. ready' # <<>> /\ ready'[1] = "proc"
      BY <1>0, <1>9, <3>2, FirstStays DEF Opening
    <3>4. Active' = Active /\ n = Active
      BY <1>4, <3>1 DEF n
    <3>5. In(loop' = "end") = In(loop = "end")
      BY <3>1 DEF In
    <3> QED BY <1>10, <1>0, <1>9, <2>0, <3>1, <3>2, <3>3, <3>4, <3>5 DEF Opening, Coroutines
  <2>4. CASE ProcLoop
    <3>1. /\ at["proc"] = "loop" /\ (loop = "room" <=> hand # 0)
          /\ UNCHANGED <<conf, queue, cancelq, paused, staleness, taken, fed, hand, loop, gen, finished, raised>>
      BY <2>4 DEF ProcLoop, RunningAt, RunningIn, Hand, mqVars, flags, counting, picking, tasks, queues
    <3>2. ~(~MustDrain /\ loop = "end")
      <4> SUFFICES ASSUME ~MustDrain, loop = "end" PROVE FALSE
        OBVIOUS
      <4>1. hand = 0 /\ n = 0
        BY <1>2, <3>1 DEF MustDrain, n
      <4>2. In(hand # 0) = 0 /\ In(loop = "end") = 1
        BY <4>1 DEF In
      <4> QED BY <1>1, <1>3, <1>5, <4>1, <4>2
    <3>3. ~(~MustDrain /\ loop = "pause")
      BY DEF MustDrain, Opening
    <3>4. PICK point \in {"drain", "submit"} :
            /\ Acquire("proc", point)
            /\ point = "drain" => MustDrain
            /\ point = "submit" => ~MustDrain /\ loop = "room"
      BY <2>4, <3>2, <3>3 DEF ProcLoop
    <3>5. /\ lock' = "proc" /\ waiters' = <<>> /\ at' = [at EXCEPT !["proc"] = point]
          /\ ready' # <<>> /\ ready'[1] = "proc"
      BY <1>9, <3>1, <3>4, OpeningAcquires
    <3>6. /\ point = "drain" => n > 0
          /\ point = "submit" => n < cap
      BY <1>1, <1>2, <3>4 DEF MustDrain, n, cap
    <3>7. Active' = Active /\ n = Active /\ cap = conf.concurrent
      BY <1>4, <3>1 DEF n, cap
    <3> QED BY <1>10, <1>0, <1>9, <2>0, <3>1, <3>4, <3>5, <3>6, <3>7 DEF Opening, Coroutines
  <2>5. CASE ProcDrain
    <3>1. at["proc"] = "drain" /\ Active > 0
      BY <2>5 DEF ProcDrain, RunningAt, RunningIn, Opening
    <3>2. ~(Active = 0)
      BY <1>2, <3>1 DEF n
    <3>3. Go("proc", "wait")
      BY <2>5, <3>2 DEF ProcDrain
    <3> QED BY <1>0, <3>3 DEF Go
  <2>6. CASE ProcSubmit
    <3>1. /\ at["proc"] = "submit" /\ hand # 0 /\ loop = "room" /\ n < cap /\ ~paused /\ waiters = <<>>
          /\ Release /\ CreateTask /\ UNCHANGED <<conf, queue, cancelq, paused, staleness, taken, fed, loop,
                                                  finished, raised>>
      BY <2>6 DEF ProcSubmit, RunningAt, RunningIn, Opening, Hand, mqVars, flags, counting, queues, n, cap
    <3>2. lock' = Nobody /\ waiters' = <<>> /\ ready' = ready \o (<<"task">> \o <<>>)
      BY <3>1 DEF Release, NextHolder, CreateTask, Continues
    <3>3. ready' # <<>> /\ ready'[1] = "proc"
      <4>1. <<"task">> \o <<>> \in Seq(Coroutines \cup {"task"})
        BY ConcatProperties
      <4> QED BY <1>0, <1>9, <3>2, <4>1, FirstStays DEF Opening
    <3>4. at' = [at EXCEPT !["proc"] = "top"] /\ gen' = [gen EXCEPT ![hand] = "created"] /\ hand' = 0
      BY <3>1 DEF CreateTask, Go
    <3>5. hand \in Samples /\ gen[hand] = "none" /\ DOMAIN gen = Samples
      BY <1>1, <3>1 DEF Hand, Samples, LInv, TaskList
    <3>6. Active' = n + 1
      <4>1. Busy' = Busy \cup {hand} /\ hand \notin Busy
        BY <3>4, <3>5 DEF Busy
      <4>2. Cardinality(Busy \cup {hand}) = Cardinality(Busy) + 1
        BY <4>1, BusyFinite, FS_AddElement
      <4>3. Cardinality(Busy') = n + 1
        BY <1>2, <4>1, <4>2
      <4> DEFINE b == Cardinality(Busy')
      <4>4. Active' = b + 0 + 0
        BY <3>1 DEF Active, Opening
      <4> HIDE DEF b
      <4>5. b = n + 1
        BY <4>3 DEF b
      <4> QED BY <1>2, <4>4, <4>5
    <3>7. taken' = Active' + In(hand' # 0) + In(loop' = "end") /\ Active' <= cap /\ cap = conf.concurrent
      <4>1. In(hand # 0) = 1 /\ In(hand' # 0) = 0 /\ In(loop = "end") = 0 /\ In(loop' = "end") = 0
        BY <3>1, <3>4 DEF In
      <4> QED BY <1>1, <1>2, <1>5, <3>1, <3>6, <4>1 DEF cap
    <3>8. \A s \in Samples : gen'[s] \in {"none", "created"}
      BY <3>4, <3>5 DEF Opening
    <3> QED BY <1>10, <1>0, <1>9, <2>0, <3>1, <3>2, <3>3, <3>4, <3>7, <3>8 DEF Opening, Coroutines
  <2>7. ~ProcCollect /\ ~ProcSleep /\ ~ProcNotified
    BY DEF ProcCollect, ProcSleep, ProcNotified, RunningAt, RunningIn, Opening
  <2> QED BY <1>9, <2>1, <2>2, <2>3, <2>4, <2>5, <2>6, <2>7 DEF Processor
<1> QED BY <1>6, <1>7, <1>8, <1>9, OpeningAlone

\* Only ProcCollect assigns done_tasks, and only a generation that raises counts as raised.
LEMMA TaskFrames ==
  ASSUME [Next]_vars
  PROVE  /\ bound' = bound \/ (ProcCollect /\ bound' = TRUE)
         /\ raised' = raised \/ raised' = 0 \/ (TaskEnd /\ gen[Head(due)] = "error")
         /\ failed \subseteq failed'
<1> USE DEF tasks
<1>1. CASE EventLoop /\ UNCHANGED trainerVars
  <2>1. CASE Feed \/ ProcTop \/ ProcGet \/ ProcMark \/ ProcLoop \/ ProcDrain \/ ProcSleep \/ ProcNotified \/ ProcSubmit
    BY <2>1 DEF Feed, ProcTop, ProcGet, ProcMark, ProcLoop, ProcDrain, ProcSleep, ProcNotified,
      ProcSubmit
  <2>2. CASE ProcCollect
    BY <2>2 DEF ProcCollect
  <2>3. CASE TaskBegin \/ TaskEnd
    BY <2>3 DEF TaskBegin, TaskEnd, TaskFrame
  <2>4. CASE Stream
    BY <2>4 DEF Stream, ConsumerPuts, ConsumerIdles, MainJoins, MainFinishes, MainLocks, MainEnds
  <2>5. CASE Calls
    BY <2>5 DEF Calls, MonitorLooks, MonitorUnpauses, MonitorLocks, MonitorSleeps, PauseCalled, PauseStart,
      PauseTasks, PauseGathered, PauseEnd, UpdateCalled, UpdateAssign, UpdateEnd, ResumeCalled, ResumeUnpauses,
      ResumeEnd, Enters
  <2> QED BY <1>1, <2>1, <2>2, <2>3, <2>4, <2>5 DEF EventLoop, Processor
<1>2. CASE Update
  BY <1>2 DEF Update, UpdateStart, UpdateAssign
<1>3. CASE Answers \/ Timer
  BY <1>3 DEF Answers, Timer, PutAnswered, FinishAnswered, CancelAnswered, ResetAnswered, SizeAnswered,
    ValidateAnswered, ServerResumed, UpdateArrives, ResumeArrives, Wakes
<1>7. CASE Actor
  BY <1>7 DEF Actor, PutRuns, SizeRuns, ValidateRuns, ActorFrame
<1>4. CASE Server
  <2>1. PICK s \in Samples : ServerStarts(s) \/ ServerFinishes(s) \/ ServerCancels(s) \/ ServerRaises(s)
    BY <1>4 DEF Server
  <2> QED BY <2>1 DEF ServerStarts, ServerFinishes, ServerCancels, ServerRaises, ServerAnswers,
    ServerFrame
<1>5. CASE Trainer
  BY <1>5 DEF Trainer, Collect, CollectEnd, Train, SyncPauses, PauseReturns, SyncSends,
    ReadValidation, CallFrame, rVars
<1>6. CASE UNCHANGED vars
  BY <1>6 DEF vars, rVars
<1> QED BY <1>1, <1>2, <1>3, <1>4, <1>5, <1>6, <1>7 DEF Next, Loop, Outside, Over, Update

LEMMA DrainingStep ==
  ASSUME LInv, Hand, Stored, Conserved, Draining, [Next]_vars
  PROVE  Draining'
<1>0. /\ DOMAIN at = Coroutines /\ "proc" \in Coroutines /\ conf' = conf /\ Order /\ TaskList
      /\ hand # 0 => gen[hand] = "none"
  BY HandFree, DataStep DEF LInv, Scheduling, Points, Coroutines, DataFrames
<1>1. raised' > 0 => failed' # {}
  <2>1. CASE raised' = raised
    BY <2>1, TaskFrames DEF Draining
  <2>2. CASE raised' = 0
    BY <2>2
  <2>3. CASE TaskEnd /\ gen[Head(due)] = "error"
    <3>1. Head(due) \in failed
      BY <1>0, <2>3, TaskRuns DEF TaskEnd, Stored
    <3> QED BY <3>1, TaskFrames
  <2> QED BY <2>1, <2>2, <2>3, TaskFrames
<1>2. SUFFICES ASSUME PendingCap > conf.concurrent
      PROVE  /\ bound' \/ at'["proc"] = "wait" \/ Opening'
             /\ at'["proc"] = "failed" => failed' # {}
  BY <1>0, <1>1 DEF Draining
<1>3. bound \/ at["proc"] = "wait" \/ Opening
  BY <1>2 DEF Draining
<1>4. bound' \/ at'["proc"] = "wait" \/ Opening'
  <2>1. CASE bound
    BY <2>1, TaskFrames
  <2>2. CASE at["proc"] = "wait"
    <3>1. Processor => ProcCollect
      BY <2>2 DEF Processor, ProcTop, ProcGet, ProcMark, ProcLoop, ProcDrain, ProcSleep, ProcNotified,
                  ProcSubmit, RunningAt, RunningIn
    <3>2. ProcCollect => bound'
      BY DEF ProcCollect
    <3>3. at'["proc"] = at["proc"] \/ Processor
      BY <1>0, <2>2, PointStep DEF PointFrames
    <3> QED BY <2>2, <3>1, <3>2, <3>3
  <2>3. CASE Opening
    BY <1>0, <1>2, <2>3, OpeningStep
  <2> QED BY <1>3, <2>1, <2>2, <2>3
<1>5. ASSUME at'["proc"] = "failed" PROVE failed' # {}
  <2>1. CASE at["proc"] = "failed"
    BY <1>2, <2>1, TaskFrames DEF Draining
  <2>2. CASE ProcDrain
    <3>1. at["proc"] = "drain" /\ (at'["proc"] = "failed" => Active = 0 /\ ~bound)
      BY <1>0, <2>2 DEF ProcDrain, RunningAt, RunningIn, Go
    <3>2. Opening /\ Active = 0
      BY <1>3, <1>5, <3>1
    <3> QED BY <3>1, <3>2 DEF Opening
  <2>3. CASE ProcCollect
    <3>1. raised > 0
      BY <1>0, <1>5, <2>3 DEF ProcCollect, Go
    <3> QED BY <3>1, TaskFrames DEF Draining
  <2>4. CASE Processor /\ ~ProcDrain /\ ~ProcCollect
    BY <1>0, <1>5, <2>4 DEF Processor, ProcTop, ProcGet, ProcMark, ProcLoop, ProcSleep, ProcNotified,
                            ProcSubmit, CreateTask, Acquire, Go, RunningAt, RunningIn
  <2> QED BY <1>0, <1>5, <2>1, <2>2, <2>3, <2>4, PointStep DEF PointFrames
<1> QED BY <1>4, <1>5

-----------------------------------------------------------------------------
\* The invariant.

LEMMA InitInv ==
  ASSUME Init
  PROVE  Inv
<1>1. LInv /\ Hand
  BY InitLoop
<1>2. /\ conf \in Configs /\ queue = <<>> /\ dropped = {} /\ batch = <<>> /\ trained = {} /\ failed = {}
      /\ gen = [s \in Samples |-> "none"] /\ taken = 0 /\ hand = 0 /\ fed = 0 /\ loop = "none"
      /\ cancelq = <<>> /\ resultq = <<>> /\ serverPaused = FALSE /\ bound = FALSE /\ finished = 0 /\ raised = 0
      /\ staleness = 0 /\ counted = 0 /\ rversion = 0 /\ paused = FALSE /\ lock = Nobody /\ waiters = <<>>
      /\ tpc = "collect" /\ local = 1 /\ version = 0 /\ final = FALSE /\ call.version = 0
      /\ ready = <<"feed", "proc">> /\ transit = {}
  BY DEF Init, MQInit, RInit
<1>3. /\ at["proc"] = "top" /\ at["main"] = "on" /\ at["consumer"] = "idle" /\ at["pause"] = "off"
      /\ at["update"] = "off" /\ at["resume"] = "off"
  BY DEF Init, RInit
<1>4. /\ Total \in Nat \ {0} /\ conf.required \in Nat \ {0} /\ conf.triggerStep \in Nat \ {0}
      /\ conf.maxRequired \in Nat /\ conf.concurrent \in 1..conf.maxRequired
  BY <1>2, RollouterAssumption
<1>5. Stored
  <2>1. queue \in Seq(Samples \cup {Finish}) /\ batch \in Seq(Samples) /\ Len(queue) = 0
    BY <1>2
  <2>2. \A s \in Samples : gen[s] = "none"
    BY <1>2
  <2>3. ~Sent
    BY <1>3 DEF Sent
  <2>4. ~Has(queue, Finish)
    BY <2>1 DEF Has
  <2> QED BY <1>2, <1>3, <2>1, <2>2, <2>3, <2>4 DEF Stored
<1>6. Conserved
  <2> SUFFICES ASSUME NEW s \in Samples PROVE Places(s) = 1
    BY DEF Conserved
  <2>1. s > taken /\ s # hand /\ gen[s] = "none" /\ s \notin trained /\ s \notin dropped /\ s \notin failed
    BY <1>2, <1>4 DEF Samples
  <2>2. /\ In(s > taken) = 1 /\ In(s = hand) = 0 /\ In(gen[s] \notin {"none", "error"}) = 0
        /\ In(s \in trained) = 0 /\ In(s \in dropped) = 0 /\ In(s \in failed) = 0 /\ In(s \in transit) = 0
    BY <1>2, <2>1 DEF In
  <2>3. Count(cancelq, s) = 0 /\ Count(resultq, s) = 0 /\ Count(queue, s) = 0 /\ Count(batch, s) = 0
    BY <1>2, CountEmpty
  <2> QED BY <2>2, <2>3 DEF Places
<1>7. Training
  <2>1. Len(batch) = 0 /\ In(Syncing) = 0 /\ In(at["update"] \in {"sent", "called", "start"}) = 0
    BY <1>2, <1>3 DEF Syncing, In
  <2>2. version = call.version + In(Syncing) /\ call.version = rversion + In(at["update"] \in {"sent", "called", "start"})
    BY <1>2, <2>1
  <2>3. Len(batch) <= conf.required /\ Len(batch) < conf.required /\ local \in 1..conf.triggerStep
    BY <1>2, <1>4, <2>1
  <2>4. tpc = "collect" /\ ~final /\ final \in BOOLEAN /\ ~Syncing
    BY <1>2 DEF Syncing
  <2>5. version \in Nat /\ call.version \in Nat /\ rversion \in Nat
    BY <1>2
  <2> QED BY <2>2, <2>3, <2>4, <2>5 DEF Training
<1>8. Quiet
  BY <1>2, <1>3 DEF Quiet
<1>9. Flight = 0
  <2>1. InFlight = {}
    BY <1>2 DEF InFlight
  <2> QED BY <2>1, FS_EmptySet DEF Flight
<1>10. Covered
  BY <1>2, <1>3, <1>9 DEF Covered
<1>11. Bounded
  <2>1. In(Ended # "no") = 0 /\ In(Late) = 0 /\ In(Counting) = 0
    BY <1>2, <1>3 DEF Ended, Late, Counting, In
  <2>2. Cardinality(dropped) = 0
    BY <1>2, FS_EmptySet
  <2>3. Spare = 0
    BY <1>2, <2>1, <2>2 DEF Spare
  <2>4. In(at["proc"] = "get") = 0
    BY <1>3 DEF In
  <2> QED BY <1>2, <1>3, <1>4, <1>9, <2>3, <2>4 DEF Bounded
<1>12. Ending
  <2>1. \A s \in Samples : gen[s] # "cancelled"
    BY <1>2
  <2> QED BY <1>2, <1>3, <2>1 DEF Ending, Sent
<1>13. Active = 0
  <2>1. Busy = {}
    BY <1>2 DEF Busy
  <2>2. Cardinality(Busy) = 0
    BY <2>1, FS_EmptySet
  <2> QED BY <1>2, <2>2 DEF Active
<1>14. Opening
  <2>1. In(hand # 0) = 0 /\ In(loop = "end") = 0
    BY <1>2 DEF In
  <2>2. ready[1] = "feed" /\ ready[2] = "proc" /\ Len(ready) = 2
    BY <1>2
  <2>3. \A s \in Samples : gen[s] = "none"
    BY <1>2
  <2> QED BY <1>2, <1>3, <1>4, <1>13, <2>1, <2>2, <2>3 DEF Opening
<1>15. Draining
  BY <1>2, <1>3, <1>14 DEF Draining
<1> QED BY <1>1, <1>5, <1>6, <1>7, <1>8, <1>10, <1>11, <1>12, <1>15 DEF Inv

LEMMA InvStep ==
  ASSUME Inv, [Next]_vars
  PROVE  Inv'
<1> USE DEF Inv
<1>1. LInv' /\ Hand'
  BY HandFree, LoopStep, HandStep
<1>2. Stored' /\ Conserved'
  BY StoredStep, ConservedStep
<1>3. Training' /\ Quiet'
  BY TrainingStep, PausedStep
<1>4. Covered' /\ Bounded'
  BY CoveredStep, BoundedStep
<1>5. Ending' /\ Draining'
  BY EndingStep, DrainingStep
<1> QED BY <1>1, <1>2, <1>3, <1>4, <1>5

LEMMA Invariant == SafeSpec => []Inv
BY InitInv, InvStep, PTL DEF SafeSpec

-----------------------------------------------------------------------------
\* What it says of the types.

LEMMA Elements ==
  ASSUME NEW A, NEW seq \in Seq(A)
  PROVE  ToSet(seq) \subseteq A /\ \A e : e \in ToSet(seq) <=> Has(seq, e)
<1>1. DOMAIN seq = 1..Len(seq) /\ \A i \in 1..Len(seq) : seq[i] \in A
  BY LenProperties, ElementOfSeq
<1> QED BY <1>1 DEF ToSet, Has

LEMMA InvType ==
  ASSUME Inv
  PROVE  TypeOK
<1>1. Order /\ Locking /\ TaskList /\ Points /\ Feeding /\ Stored /\ Training /\ Covered
  BY DEF Inv, LInv, Scheduling
<1>2. conf \in Configs /\ lock \in {Nobody} \cup DOMAIN at
  BY <1>1 DEF Stored, Locking, Points
<1>3. ToSet(ready) \subseteq DOMAIN at \cup {"task"}
  BY <1>1, Elements DEF Order, Points
<1>4. Len(due) = Cardinality({i \in DOMAIN ready : ready[i] = "task"})
  BY <1>1 DEF TaskList, Count
<1>5. \A s \in ToSet(due) : gen[s] # "none"
  <2> SUFFICES ASSUME NEW s \in ToSet(due) PROVE gen[s] # "none"
    OBVIOUS
  <2>1. due \in Seq(Samples) /\ s \in Samples /\ Has(due, s)
    BY <1>1, Elements DEF TaskList
  <2>2. Count(due, s) >= 1 /\ Count(due, s) = In(gen[s] \in Asks)
    BY <1>1, <2>1, CountType DEF TaskList
  <2>3. gen[s] \in Asks
    BY <2>2 DEF In
  <2> QED BY <2>3 DEF Asks
<1>6. ToSet(waiters) \subseteq DOMAIN at /\ (lock = Nobody => waiters = <<>>)
  BY <1>1, Elements DEF Order, Points, Locking
<1>7. staleness \in Nat /\ fed - taken \in 0..PendingCap
  BY <1>1 DEF Covered, Feeding
<1>8. ToSet(queue) \subseteq Samples \cup {Finish} /\ ToSet(batch) \subseteq Samples
  BY <1>1, Elements DEF Stored
<1>9. trained \cup failed \cup ToSet(batch) \subseteq Samples /\ dropped \subseteq Samples \cup {Finish}
  BY <1>1, <1>8 DEF Stored
<1>10. Len(batch) <= conf.required /\ local \in 1..conf.triggerStep
  BY <1>1 DEF Training
<1>11. rversion \in 0..version
  <2>1. In(Syncing) \in Nat /\ In(at["update"] \in {"sent", "called", "start"}) \in Nat
    BY DEF In
  <2> DEFINE a == In(Syncing)
             b == In(at["update"] \in {"sent", "called", "start"})
             c == call.version
  <2>2. /\ version \in Nat /\ c \in Nat /\ rversion \in Nat /\ a \in Nat /\ b \in Nat
        /\ version = c + a /\ c = rversion + b
    BY <1>1, <2>1 DEF Training
  <2> HIDE DEF a, b, c
  <2> QED BY <2>2
<1> QED BY <1>2, <1>3, <1>4, <1>5, <1>6, <1>7, <1>8, <1>9, <1>10, <1>11 DEF TypeOK

\* At the end a sample that the trainer has not seen is in one of four places.
LEMMA InvEnd ==
  ASSUME Inv
  PROVE  EndsComplete
<1> SUFFICES ASSUME tpc = "done", at["proc"] # "failed", NEW s \in Samples
    PROVE  \/ s \in trained \cup dropped \cup failed \cup ToSet(batch)
           \/ conf.partial /\ s \in ToSet(cancelq)
  BY DEF EndsComplete
<1>1. /\ TaskList /\ Feeding /\ Points /\ Hand /\ Stored /\ Conserved /\ Ending
  BY DEF Inv, LInv, Scheduling
<1>2. queue = <<>> /\ at["proc"] = "ended" /\ resultq = <<>> /\ s \notin transit
  BY <1>1, RollouterAssumption DEF Ending, Stored
<1>3. loop = "end" /\ Busy = {} /\ taken = Total + 1 /\ hand = 0
  BY <1>1, <1>2, RollouterAssumption DEF Feeding, Hand
<1>4. ~(s > taken) /\ s # hand /\ gen[s] = "none"
  <2>1. ~(s > taken) /\ s # hand
    BY <1>3, RollouterAssumption DEF Samples
  <2>2. gen[s] = "none"
    BY <1>3 DEF Busy
  <2> QED BY <2>1, <2>2
<1>5. In(s > taken) = 0 /\ In(s = hand) = 0 /\ In(gen[s] \notin {"none", "error"}) = 0
  BY <1>4 DEF In
<1>6. Count(resultq, s) = 0 /\ Count(queue, s) = 0 /\ In(s \in transit) = 0
  BY <1>2, CountEmpty DEF In
<1>7. SUFFICES ASSUME s \notin trained, s \notin dropped, s \notin failed, s \notin ToSet(batch)
      PROVE  conf.partial /\ s \in ToSet(cancelq)
  OBVIOUS
<1>8. In(s \in trained) = 0 /\ In(s \in dropped) = 0 /\ In(s \in failed) = 0
  BY <1>7 DEF In
<1>9. Count(batch, s) = 0
  <2>1. ~Has(batch, s)
    BY <1>1, <1>7, Elements DEF Stored
  <2> QED BY <1>1, <2>1, PlacesType
<1>10. Count(cancelq, s) = 1
  <2>1. Count(cancelq, s) \in Nat
    BY <1>1, PlacesType
  <2> DEFINE c == Count(cancelq, s)
  <2>2. 0 + 0 + 0 + c + 0 + 0 + 0 + 0 + 0 + 0 + 0 = 1
    BY <1>1, <1>5, <1>6, <1>8, <1>9 DEF Conserved, Places
  <2>3. c \in Nat
    BY <2>1
  <2> HIDE DEF c
  <2>4. c = 1
    BY <2>2, <2>3
  <2> QED BY <2>4 DEF c
<1>11. Has(cancelq, s)
  BY <1>1, <1>10, PlacesType
<1>12. s \in ToSet(cancelq)
  BY <1>1, <1>11, Elements DEF Hand
<1>13. conf.partial
  BY <1>1, <1>10, CountEmpty DEF Ending
<1> QED BY <1>12, <1>13

LEMMA InvAhead ==
  ASSUME Inv
  PROVE  AheadBounded
<1> DEFINE d == Cardinality(dropped)
           e == In(Ended # "no")
           l == In(Late)
           u == In(Counting)
<1>1. Bounded /\ Training /\ TypeOK
  BY InvType DEF Inv
<1>2. d \in Nat /\ e \in Nat /\ l \in Nat /\ u \in Nat
  <2>1. dropped \in SUBSET (Samples \cup {Finish}) /\ IsFiniteSet(Samples \cup {Finish})
    BY <1>1, BusyFinite, FS_AddElement DEF TypeOK
  <2>2. IsFiniteSet(dropped)
    BY <2>1, FS_Subset
  <2> QED BY <2>2, FS_CardinalityType DEF In
<1>3. 2 * rversion + e - d - l - 2 * u >= 0 /\ rversion \in 0..version /\ version \in Nat
  BY <1>1 DEF Bounded, Spare, Training, TypeOK
<1> HIDE DEF d, e, l, u
<1>4. d <= 2 * version + e
  BY <1>2, <1>3
<1>5. Cardinality(InFlight) <= conf.maxRequired + 2
  BY <1>1 DEF Bounded, Flight
<1> QED BY <1>4, <1>5 DEF AheadBounded, d, e

-----------------------------------------------------------------------------
\* The stream of samples.

\* The abstract module's operators on sequences and sets are the standard ones.
LEMMA StreamOperators ==
  /\ \A s : Promised!ToSet(s) = ToSet(s)
  /\ \A S : Promised!Cardinality(S) = Cardinality(S)
<1>1. \A s : Promised!ToSet(s) = ToSet(s)
  BY DEF Promised!ToSet, ToSet
<1>2. \A S : Promised!Cardinality(S) = Cardinality(S)
  BY DEF Promised!Cardinality, Cardinality
<1> QED BY <1>1, <1>2

\* The queue keeps to its size, and the trainer trains on whole batches.
Sized ==
  /\ Len(queue) <= conf.maxRequired
  /\ tpc = "train" => Len(batch) = conf.required

LEMMA SizedStep ==
  ASSUME Inv, Sized, [Next]_vars
  PROVE  Sized'
<1>0. /\ Stored /\ LInv /\ Training /\ conf' = conf
      /\ conf.maxRequired \in Nat \ {0} /\ queue \in Seq(Samples \cup {Finish}) /\ Len(queue) \in Nat
      /\ batch \in Seq(Samples) /\ resultq \in Seq(Samples)
  BY ConfType, DataStep, LenProperties DEF Inv, DataFrames, Stored, Hand
<1>1. ASSUME NEW m \in Samples \cup {Finish}, PutSample(m, conf.maxRequired)
      PROVE  Len(queue') <= conf.maxRequired
  <2>1. CASE Len(queue) >= conf.maxRequired
    <3>1. queue # <<>> /\ Len(queue) = conf.maxRequired /\ queue' = Append(Tail(queue), m)
      BY <1>0, <1>1, <2>1, EmptySeq DEF PutSample, Sized
    <3>2. Tail(queue) \in Seq(Samples \cup {Finish}) /\ Len(Tail(queue)) = Len(queue) - 1
      BY <1>0, <3>1, HeadTailProperties
    <3>3. Len(queue') = Len(Tail(queue)) + 1
      BY <1>1, <3>1, <3>2, AppendProperties
    <3> QED BY <1>0, <3>1, <3>2, <3>3
  <2>2. CASE ~(Len(queue) >= conf.maxRequired)
    <3>1. queue' = Append(queue, m)
      BY <1>1, <2>2 DEF PutSample
    <3>2. Len(queue') = Len(queue) + 1
      BY <1>0, <1>1, <3>1, AppendProperties
    <3> QED BY <1>0, <2>2, <3>2
  <2> QED BY <2>1, <2>2
<1>2. Len(queue') <= conf.maxRequired
  <2>1. CASE PutRuns
    BY <1>0, <1>1, <2>1 DEF PutRuns, Stored
  <2>3. CASE Collect \/ CollectEnd
    <3>1. queue # <<>> /\ queue' = Tail(queue)
      BY <2>3 DEF Collect, CollectEnd, GetSample
    <3>2. Len(queue') = Len(queue) - 1
      BY <1>0, <3>1, HeadTailProperties
    <3> QED BY <1>0, <3>2 DEF Sized
  <2> QED BY <2>1, <2>3, DataStep DEF DataFrames, Sized
<1>3. tpc' = "train" => Len(batch') = conf.required
  <2>1. CASE UNCHANGED trainerVars
    BY <2>1 DEF trainerVars, Sized
  <2>2. CASE Collect
    <3>1. tpc' = "train" => Len(batch') = conf.required
      BY <1>0, <2>2 DEF Collect
    <3> QED BY <3>1
  <2>3. CASE CollectEnd \/ Train \/ SyncPauses \/ PauseReturns \/ SyncSends \/ ReadValidation
    <3>1. tpc' # "train"
      BY <2>3 DEF CollectEnd, Train, StartSync, SyncPauses, PauseReturns, SyncSends, ReadValidation
    <3> QED BY <3>1
  <2> QED BY <2>1, <2>2, <2>3, NotTrainer DEF Trainer
<1> QED BY <1>0, <1>2, <1>3 DEF Sized

\* The places of a sample exclude each other.
LEMMA OnlyPlace ==
  ASSUME Hand, Stored, TaskList, Conserved, NEW s \in Samples
  PROVE  LET InOut == \/ s = hand \/ gen[s] \notin {"none", "error"}
                      \/ Has(cancelq, s) \/ Has(resultq, s) \/ s \in transit
         IN  /\ s > taken => ~InOut
             /\ InOut => /\ ~Has(queue, s) /\ ~Has(batch, s)
                         /\ s \notin trained /\ s \notin dropped /\ s \notin failed
             /\ Has(queue, s) => /\ ~(s > taken) /\ ~Has(batch, s)
                                 /\ s \notin trained /\ s \notin dropped /\ s \notin failed
             /\ Has(batch, s) => s \notin trained
             /\ gen[s] \notin {"none", "error"} =>
                  s # hand /\ ~Has(cancelq, s) /\ ~Has(resultq, s) /\ s \notin transit
             /\ s \in transit =>
                  s # hand /\ gen[s] \in {"none", "error"} /\ ~Has(cancelq, s) /\ ~Has(resultq, s)
             /\ Count(batch, s) <= 1
<1> DEFINE a == In(s > taken)
           b == In(s = hand)
           c == In(gen[s] \notin {"none", "error"})
           d == Count(cancelq, s)
           e == Count(resultq, s)
           f == Count(queue, s)
           g == Count(batch, s)
           h == In(s \in trained)
           i == In(s \in dropped)
           j == In(s \in failed)
           k == In(s \in transit)
<1>1. a + b + c + d + e + k + f + g + h + i + j = 1
  BY DEF Conserved, Places
<1>2. a \in Nat /\ b \in Nat /\ c \in Nat /\ d \in Nat /\ e \in Nat /\ f \in Nat /\ g \in Nat /\ h \in Nat
      /\ i \in Nat /\ j \in Nat /\ k \in Nat
  BY PlacesType
<1>3. /\ s > taken => a = 1
      /\ s = hand => b = 1
      /\ gen[s] \notin {"none", "error"} => c = 1
      /\ s \in trained => h = 1
      /\ s \in dropped => i = 1
      /\ s \in failed => j = 1
      /\ s \in transit => k = 1
  BY DEF In
<1>4. /\ Has(cancelq, s) <=> d >= 1
      /\ Has(resultq, s) <=> e >= 1
      /\ Has(queue, s) <=> f >= 1
      /\ Has(batch, s) <=> g >= 1
  BY PlacesType
<1>5. Count(batch, s) = g
  OBVIOUS
<1> HIDE DEF a, b, c, d, e, f, g, h, i, j, k
<1> DEFINE InOut == \/ s = hand \/ gen[s] \notin {"none", "error"}
                    \/ Has(cancelq, s) \/ Has(resultq, s) \/ s \in transit
<1>6. InOut => b + c + d + e + k >= 1
  BY <1>2, <1>3, <1>4
<1>7. s > taken => ~InOut
  BY <1>1, <1>2, <1>3, <1>6
<1>8. InOut => /\ ~Has(queue, s) /\ ~Has(batch, s)
               /\ s \notin trained /\ s \notin dropped /\ s \notin failed
  <2> HIDE DEF InOut
  <2> QED BY <1>1, <1>2, <1>3, <1>4, <1>6
<1>9. Has(queue, s) => /\ ~(s > taken) /\ ~Has(batch, s)
                       /\ s \notin trained /\ s \notin dropped /\ s \notin failed
  BY <1>1, <1>2, <1>3, <1>4
<1>10. Has(batch, s) => s \notin trained
  BY <1>1, <1>2, <1>3, <1>4
<1>11. gen[s] \notin {"none", "error"} =>
         s # hand /\ ~Has(cancelq, s) /\ ~Has(resultq, s) /\ s \notin transit
  BY <1>1, <1>2, <1>3, <1>4
<1>12. s \in transit =>
         s # hand /\ gen[s] \in {"none", "error"} /\ ~Has(cancelq, s) /\ ~Has(resultq, s)
  BY <1>1, <1>2, <1>3, <1>4
<1>13. Count(batch, s) <= 1
  BY <1>1, <1>2, <1>5
<1> QED BY <1>7, <1>8, <1>9, <1>10, <1>11, <1>12, <1>13

\* What a queue holds after a put, and before a get.
LEMMA HasMoved ==
  ASSUME NEW A, NEW seq \in Seq(A), NEW e
  PROVE  /\ \A x \in A : Has(Append(seq, x), e) <=> Has(seq, e) \/ e = x
         /\ seq # <<>> => (Has(seq, e) <=> Has(Tail(seq), e) \/ e = Head(seq))
<1>1. Count(seq, e) \in Nat /\ (Has(seq, e) <=> Count(seq, e) >= 1)
  BY CountType
<1>2. ASSUME NEW x \in A PROVE Has(Append(seq, x), e) <=> Has(seq, e) \/ e = x
  <2>1. Append(seq, x) \in Seq(A)
    BY AppendProperties
  <2>2. Has(Append(seq, x), e) <=> Count(Append(seq, x), e) >= 1
    BY <2>1, CountType
  <2>3. Count(Append(seq, x), e) = Count(seq, e) + In(x = e)
    BY CountAppend
  <2>4. IF e = x THEN In(x = e) = 1 ELSE In(x = e) = 0
    BY DEF In
  <2> QED BY <1>1, <2>2, <2>3, <2>4
<1>3. ASSUME seq # <<>> PROVE Has(seq, e) <=> Has(Tail(seq), e) \/ e = Head(seq)
  <2>1. Tail(seq) \in Seq(A)
    BY <1>3, HeadTailProperties
  <2>2. Count(Tail(seq), e) \in Nat /\ (Has(Tail(seq), e) <=> Count(Tail(seq), e) >= 1)
    BY <2>1, CountType
  <2>3. Count(Tail(seq), e) = Count(seq, e) - In(Head(seq) = e)
    BY <1>3, CountTail
  <2>4. IF e = Head(seq) THEN In(Head(seq) = e) = 1 ELSE In(Head(seq) = e) = 0
    BY DEF In
  <2> QED BY <1>1, <2>2, <2>3, <2>4
<1> QED BY <1>2, <1>3

\* A sample that the rollouter has taken and not yet delivered.
Outstanding(s) ==
  s = hand \/ gen[s] \notin {"none", "error"} \/ Has(cancelq, s) \/ Has(resultq, s) \/ s \in transit

LEMMA OutIs ==
  ASSUME Inv, Inv'
  PROVE  Out = {s \in Samples : Outstanding(s)} /\ Out' = {s \in Samples : Outstanding(s)'}
<1>1. cancelq \in Seq(Samples) /\ resultq \in Seq(Samples) /\ cancelq' \in Seq(Samples) /\ resultq' \in Seq(Samples)
  BY DEF Inv, Hand
<1>2. \A s : (s \in ToSet(cancelq) <=> Has(cancelq, s)) /\ (s \in ToSet(resultq) <=> Has(resultq, s))
  BY <1>1, InSet
<1>3. \A s : (s \in ToSet(cancelq') <=> Has(cancelq', s)) /\ (s \in ToSet(resultq') <=> Has(resultq', s))
  BY <1>1, InSet
<1> QED BY <1>2, <1>3 DEF Out, Outstanding

\* Between the processor's hand, the tasks and the rollouter's queues samples only move.
LEMMA OutStep ==
  ASSUME Inv, [Next]_vars, NEW s \in Samples
  PROVE  \/ Outstanding(s)' <=> Outstanding(s)
         \/ ProcGet /\ s = taken + 1 /\ hand' = s
         \/ PutRuns /\ s \in transit /\ transit' = transit \ {s}
         \/ \E t \in Samples : ServerRaises(t) /\ s = t
<1>0. /\ Hand /\ TaskList /\ Order /\ Stored /\ LInv /\ Conserved /\ s # 0
      /\ cancelq \in Seq(Samples) /\ resultq \in Seq(Samples)
      /\ gen \in [Samples -> {"none", "sent", "decoding"} \cup Asks]
      /\ Finish \notin Samples
  BY RollouterAssumption DEF Inv, LInv, Hand, TaskList, Samples
<1>1. CASE UNCHANGED Moved
  BY <1>1 DEF Moved, Outstanding, Has
<1>2. CASE ProcTop
  <2>1. UNCHANGED <<gen, resultq, transit>> /\ hand = 0
    BY <1>0, <1>2 DEF ProcTop, mqVars, tasks, RunningAt, RunningIn, Hand
  <2>2. UNCHANGED <<hand, cancelq>> \/ (cancelq # <<>> /\ hand' = Head(cancelq) /\ cancelq' = Tail(cancelq))
    BY <1>2 DEF ProcTop
  <2>3. cancelq # <<>> => (Has(cancelq, s) <=> Has(Tail(cancelq), s) \/ s = Head(cancelq))
    BY <1>0, HasMoved
  <2> QED BY <1>0, <2>1, <2>2, <2>3 DEF Outstanding
<1>3. CASE ProcGet
  <2>1. UNCHANGED <<gen, cancelq, resultq, transit>> /\ hand = 0
    BY <1>0, <1>3 DEF ProcGet, mqVars, tasks, queues, RunningAt, RunningIn, Hand
  <2>2. hand' = taken + 1 \/ hand' = hand
    BY <1>3 DEF ProcGet
  <2> QED BY <1>0, <1>3, <2>1, <2>2 DEF Outstanding
<1>4. CASE ProcSubmit
  <2>1. UNCHANGED <<cancelq, resultq, transit>>
    BY <1>4 DEF ProcSubmit, mqVars, queues
  <2>2. /\ hand \in Samples /\ gen[hand] = "none"
        /\ UNCHANGED <<gen, hand>> \/ (hand' = 0 /\ gen' = [gen EXCEPT ![hand] = "created"])
    BY <1>0, <1>4, HandFree, RollouterAssumption DEF ProcSubmit, CreateTask, RunningAt, RunningIn, Hand, Samples
  <2> QED BY <1>0, <2>1, <2>2 DEF Outstanding
<1>5. CASE TaskBegin
  <2>1. UNCHANGED <<hand, cancelq, resultq, transit>>
    BY <1>5 DEF TaskBegin, TaskFrame, mqVars, picking, queues
  <2>2. gen[Head(due)] = "created" /\ gen' = [gen EXCEPT ![Head(due)] = "sent"]
    BY <1>5 DEF TaskBegin
  <2> QED BY <1>0, <2>1, <2>2 DEF Outstanding
<1>6. CASE TaskEnd
  <2> DEFINE t == Head(due)
  <2>1. UNCHANGED <<hand, transit>>
    BY <1>6 DEF TaskEnd, TaskFrame, picking
  <2>2. /\ t \in Samples /\ gen[t] \in {"complete", "cancelled", "error"}
        /\ gen' = [gen EXCEPT ![t] = "none"]
        /\ resultq' = IF gen[t] = "complete" THEN Append(resultq, t) ELSE resultq
        /\ cancelq' = IF gen[t] = "cancelled" THEN Append(cancelq, t) ELSE cancelq
    BY <1>0, <1>6, TaskRuns DEF TaskEnd, Asks
  <2> HIDE DEF t
  <2>3. /\ Has(Append(resultq, t), s) <=> Has(resultq, s) \/ s = t
        /\ Has(Append(cancelq, t), s) <=> Has(cancelq, s) \/ s = t
    BY <1>0, <2>2, HasMoved
  <2> QED BY <1>0, <2>1, <2>2, <2>3 DEF Outstanding
<1>7. CASE Server
  <2>1. UNCHANGED <<hand, cancelq, resultq, transit>>
    BY <1>7 DEF Server, ServerStarts, ServerFinishes, ServerCancels, ServerRaises, ServerAnswers,
                ServerFrame, mqVars, picking, queues
  <2>2. PICK t \in Samples : ServerStarts(t) \/ ServerFinishes(t) \/ ServerCancels(t) \/ ServerRaises(t)
    BY <1>7 DEF Server
  <2>3. CASE ServerRaises(t)
    <3>1. gen' = [gen EXCEPT ![t] = "error"]
      BY <2>3 DEF ServerRaises, ServerAnswers
    <3> QED BY <1>0, <2>1, <2>3, <3>1 DEF Outstanding
  <2>4. CASE ServerStarts(t) \/ ServerFinishes(t) \/ ServerCancels(t)
    <3>1. /\ gen[t] \in {"sent", "decoding"}
          /\ \E answer \in {"decoding", "complete", "cancelled"} : gen' = [gen EXCEPT ![t] = answer]
      BY <2>4 DEF ServerStarts, ServerFinishes, ServerCancels, ServerAnswers
    <3> QED BY <1>0, <2>1, <3>1 DEF Outstanding
  <2> QED BY <2>2, <2>3, <2>4
<1>8. CASE ConsumerPuts
  <2>1. /\ UNCHANGED <<gen, hand, cancelq>> /\ resultq # <<>> /\ resultq' = Tail(resultq)
        /\ transit' = transit \cup {Head(resultq)}
    BY <1>8 DEF ConsumerPuts, tasks, picking
  <2>2. Has(resultq, s) <=> Has(Tail(resultq), s) \/ s = Head(resultq)
    BY <1>0, <2>1, HasMoved
  <2> QED BY <1>8, <2>1, <2>2 DEF Outstanding
<1>9. CASE MainFinishes
  BY <1>0, <1>9 DEF MainFinishes, tasks, picking, queues, Outstanding, Has
<1>11. CASE PutRuns
  <2>1. PICK m \in transit : transit' = transit \ {m}
    BY <1>11 DEF PutRuns
  <2>2. UNCHANGED <<gen, hand, cancelq, resultq>>
    BY <1>11 DEF PutRuns, ActorFrame, tasks, picking
  <2> QED BY <1>11, <2>1, <2>2 DEF Outstanding
<1>10. CASE Collect \/ CollectEnd \/ Train
  BY <1>10 DEF Collect, CollectEnd, Train, rVars, tasks, picking, queues, Outstanding, Has
<1> QED BY <1>1, <1>2, <1>3, <1>4, <1>5, <1>6, <1>7, <1>8, <1>9, <1>10, <1>11, MoveCases DEF Moves

\* What is on its way from the processor's hand to the trainer is in flight.
Placed == \A s \in Samples : Outstanding(s) \/ Has(queue, s) => s \in InFlight

LEMMA InvPlaced ==
  ASSUME Inv
  PROVE  Placed
<1>0. Hand /\ Stored /\ TaskList /\ Conserved /\ taken \in Nat
  BY DEF Inv, LInv, Scheduling, Feeding
<1> SUFFICES ASSUME NEW s \in Samples, Outstanding(s) \/ Has(queue, s) PROVE s \in InFlight
  BY DEF Placed
<1>1. ~(s > taken) /\ ~Has(batch, s) /\ s \notin trained /\ s \notin dropped /\ s \notin failed
  <2>1. CASE Outstanding(s)
    BY <1>0, <2>1, OnlyPlace DEF Outstanding
  <2>2. CASE Has(queue, s)
    BY <1>0, <2>2, OnlyPlace
  <2> QED BY <2>1, <2>2
<1>2. s \notin ToSet(batch)
  BY <1>0, <1>1, Elements DEF Stored
<1>3. s \in 1..taken \cap Samples
  BY <1>0, <1>1, RollouterAssumption DEF Samples
<1> QED BY <1>1, <1>2, <1>3 DEF InFlight

\* What the end of the stream depends on.
LEMMA EndedStep ==
  ASSUME Inv, [Next]_vars, ~PutRuns
  PROVE  Ended' = Ended
<1>0. LInv /\ Hand /\ Stored /\ Finish \notin Samples
  BY RollouterAssumption DEF Inv
<1>1. Ended' = IF ~Sent' \/ Finish \in transit' THEN "no" ELSE IF at'["proc"] = "failed" THEN "aborted" ELSE "clean"
  BY DEF Ended, Sent
<1>2. Ended = IF ~Sent \/ Finish \in transit THEN "no" ELSE IF at["proc"] = "failed" THEN "aborted" ELSE "clean"
  BY DEF Ended, Sent
<1>3. (Sent' <=> Sent \/ MainFinishes) /\ (Sent => at'["proc"] = at["proc"])
  BY <1>0, SentStep
<1>4. CASE MainFinishes
  BY <1>0, <1>1, <1>2, <1>4, MainSends
<1>5. CASE ~MainFinishes
  <2>1. CASE ConsumerPuts
    <3>1. ~Sent
      BY <1>0, <2>1 DEF ConsumerPuts, RunningAt, RunningIn, Stored
    <3> QED BY <1>1, <1>2, <1>3, <1>5, <3>1
  <2>2. CASE ~ConsumerPuts
    <3>1. transit' = transit
      BY <1>5, <2>2, DataStep DEF DataFrames
    <3> QED BY <1>1, <1>2, <1>3, <1>5, <3>1
  <2> QED BY <2>1, <2>2
<1> QED BY <1>4, <1>5

\* A step that changes nothing of the stream.
LEMMA Unseen ==
  ASSUME UNCHANGED <<conf, taken, queue, batch, trained, dropped, failed>>, Out' = Out, Ended' = Ended
  PROVE  [Promised!StreamNext]_(Promised!streamVars)
BY DEF Promised!streamVars

\* put_sample is the stream's Put.
LEMMA PutIs ==
  ASSUME Inv, Sized, NEW m, PutSample(m, conf.maxRequired)
  PROVE  Promised!Put(m)
<1>1. conf.maxRequired \in Nat /\ Len(queue) \in Nat /\ Len(queue) <= conf.maxRequired
  BY ConfType, LenProperties DEF Inv, Stored, Sized
<1>2. CASE Len(queue) >= conf.maxRequired
  BY <1>1, <1>2 DEF PutSample, Promised!Put
<1>3. CASE ~(Len(queue) >= conf.maxRequired)
  BY <1>1, <1>3 DEF PutSample, Promised!Put
<1> QED BY <1>2, <1>3

\* The processor takes the next sample.
LEMMA TakeIs ==
  ASSUME Inv, Inv', Placed', [Next]_vars, ProcGet, UNCHANGED trainerVars
  PROVE  [Promised!StreamNext]_(Promised!streamVars)
<1>0. /\ Hand /\ taken \in Nat /\ Total \in Nat /\ Samples = 1..Total /\ conf' = conf
      /\ Hand' /\ Stored' /\ TaskList' /\ Conserved' /\ Bounded' /\ Stored
      /\ conf.maxRequired \in Nat
  BY RollouterAssumption, DataStep, ConfType DEF Inv, LInv, Scheduling, Feeding, Samples, DataFrames
<1>1. /\ UNCHANGED <<queue, dropped, failed, gen, cancelq, resultq, transit, batch, trained>> /\ taken' = taken + 1
      /\ hand = 0
      /\ IF taken + 1 \in Samples THEN hand' = taken + 1 ELSE hand' = hand
  BY <1>0 DEF ProcGet, mqVars, tasks, queues, trainerVars, RunningAt, RunningIn, Hand
<1>6. ~PutRuns
  BY <1>0, <1>1 DEF PutRuns, ActorFrame, picking
<1>2. Ended' = Ended
  BY <1>6, EndedStep
<1>3. \A s \in Samples : \/ Outstanding(s)' <=> Outstanding(s)
                         \/ s = taken + 1 /\ hand' = s
  <2>1. ~(\E t \in Samples : ServerRaises(t))
    BY <1>0, <1>1 DEF ServerRaises, ServerAnswers, ServerFrame, picking
  <2> QED BY <1>6, <2>1, OutStep
<1>4. CASE taken + 1 \notin Samples
  <2>1. Out' = Out
    BY <1>3, <1>4, OutIs
  <2>2. {s \in Samples : s > taken'} = {s \in Samples : s > taken}
    BY <1>0, <1>1, <1>4
  <2> QED BY <1>0, <1>1, <1>2, <2>1, <2>2 DEF Promised!streamVars
<1>5. CASE taken + 1 \in Samples
  <2>0. PICK s \in Samples : s = taken + 1
    BY <1>5
  <2> DEFINE fresh == {t \in Samples : t > taken}
  <2>1. s \in fresh /\ (\A t \in fresh : s <= t) /\ {t \in Samples : t > taken'} = fresh \ {s}
    BY <1>0, <1>1, <2>0
  <2>2. Outstanding(s)' /\ hand' = s
    BY <1>1, <2>0 DEF Outstanding
  <2>3. Out' = Out \cup {s}
    BY <1>3, <2>0, <2>2, OutIs
  <2> DEFINE ahead == Promised!Ahead \cup {s}
  <2>4. ahead \subseteq InFlight'
    <3> SUFFICES ASSUME NEW t, t \in Out' \/ (t \in ToSet(queue') /\ t # Finish)
                 PROVE  t \in InFlight'
      BY <1>1, <2>3, StreamOperators DEF Promised!Ahead
    <3>1. CASE t \in Out'
      BY <3>1, OutIs DEF Placed
    <3>2. CASE t \in ToSet(queue') /\ t # Finish
      <4>1. t \in Samples /\ Has(queue', t)
        BY <1>0, <3>2, Elements DEF Stored
      <4> QED BY <4>1 DEF Placed
    <3> QED BY <3>1, <3>2
  <2>5. IsFiniteSet(InFlight') /\ Cardinality(InFlight') <= conf.maxRequired + 2
    <3>1. InFlight' \in SUBSET Samples
      BY DEF InFlight
    <3>2. IsFiniteSet(InFlight')
      BY <3>1, BusyFinite, FS_Subset
    <3> QED BY <1>0, <3>2 DEF Bounded, Flight
  <2>6. Cardinality(ahead) <= conf.maxRequired + 2
    <3>1. IsFiniteSet(ahead) /\ Cardinality(ahead) <= Cardinality(InFlight')
      BY <2>4, <2>5, FS_Subset
    <3>2. Cardinality(ahead) \in Nat /\ Cardinality(InFlight') \in Nat
      BY <2>5, <3>1, FS_CardinalityType
    <3> QED BY <1>0, <2>5, <3>1, <3>2
  <2>7. Promised!Cardinality(ahead) <= conf.maxRequired + 2
    BY <2>6, StreamOperators
  <2> QED BY <1>0, <1>1, <1>2, <2>1, <2>3, <2>7 DEF Promised!Take, Promised!StreamNext
<1> QED BY <1>4, <1>5

\* The MessageQueue runs the put of a sample.
LEMMA DeliverIs ==
  ASSUME Inv, Inv', Sized, [Next]_vars, UNCHANGED trainerVars, PutRuns,
         NEW s \in Samples, s \in transit, PutSample(s, conf.maxRequired), transit' = transit \ {s}
  PROVE  Promised!Deliver
<1>0. Hand /\ Stored /\ TaskList /\ Conserved /\ Finish \notin Samples
  BY RollouterAssumption DEF Inv, LInv
<1>1. UNCHANGED <<conf, taken, hand, gen, cancelq, resultq, batch, trained, failed, at>>
  BY DEF PutRuns, ActorFrame, tasks, picking, trainerVars
<1>2. Ended # "clean" /\ Ended' = Ended
  <2>1. Finish \in transit' <=> Finish \in transit
    BY <1>0
  <2>2. ~(Sent /\ at["proc"] # "failed")
    BY <1>0 DEF Stored
  <2>3. Ended' = IF at'["main"] \in {"on", "join"} \/ Finish \in transit' THEN "no"
                 ELSE IF at'["proc"] = "failed" THEN "aborted" ELSE "clean"
    BY DEF Ended
  <2>4. Ended' = Ended
    BY <1>1, <2>1, <2>3 DEF Ended
  <2> QED BY <2>2, <2>4, EndedIs
<1>3. s \in Out
  BY OutIs DEF Outstanding
<1>4. ~Outstanding(s)'
  BY <1>0, <1>1, OnlyPlace DEF Outstanding, Has
<1>5. \A t \in Samples : t # s => (Outstanding(t)' <=> Outstanding(t))
  BY <1>1 DEF Outstanding
<1>6. Out' = Out \ {s}
  BY <1>4, <1>5, OutIs
<1>7. Promised!Put(s)
  BY PutIs
<1> QED BY <1>1, <1>2, <1>3, <1>6, <1>7 DEF Promised!Deliver

\* It runs the put of the finish signal.
LEMMA EndIs ==
  ASSUME Inv, Inv', Sized, [Next]_vars, UNCHANGED trainerVars, PutRuns,
         Finish \in transit, PutSample(Finish, conf.maxRequired), transit' = transit \ {Finish}
  PROVE  Promised!End
<1>0. Stored /\ Finish \notin Samples
  BY RollouterAssumption DEF Inv
<1>1. UNCHANGED <<conf, taken, hand, gen, cancelq, resultq, batch, trained, failed, at>>
  BY DEF PutRuns, ActorFrame, tasks, picking, trainerVars
<1>2. Ended = "no" /\ Ended' \in {"clean", "aborted"}
  <2>1. Ended' = IF at'["main"] \in {"on", "join"} \/ Finish \in transit' THEN "no"
                 ELSE IF at'["proc"] = "failed" THEN "aborted" ELSE "clean"
    BY DEF Ended
  <2>2. at["main"] \notin {"on", "join"}
    BY <1>0 DEF Stored, Sent
  <2> QED BY <1>1, <2>1, <2>2 DEF Ended
<1>3. Out' = Out
  BY <1>0, <1>1 DEF Out
<1>4. Promised!Put(Finish)
  BY PutIs
<1> QED BY <1>1, <1>2, <1>3, <1>4 DEF Promised!End

\* A generation raises, or a server does something else.
LEMMA FailIs ==
  ASSUME Inv, Inv', [Next]_vars, Server, UNCHANGED trainerVars
  PROVE  [Promised!StreamNext]_(Promised!streamVars)
<1>0. Hand /\ Stored /\ TaskList /\ Conserved
  BY DEF Inv, LInv
<1>1. /\ UNCHANGED <<conf, taken, hand, cancelq, resultq, transit, queue, dropped, at, batch, trained>> /\ Ended' = Ended
  BY DEF Server, ServerStarts, ServerFinishes, ServerCancels, ServerRaises, ServerAnswers,
         ServerFrame, mqVars, picking, queues, trainerVars, Ended
<1>2. PICK s \in Samples : ServerStarts(s) \/ ServerFinishes(s) \/ ServerCancels(s) \/ ServerRaises(s)
  BY DEF Server
<1>3. /\ gen \in [Samples -> {"none", "sent", "decoding"} \cup Asks] /\ gen[s] \in {"sent", "decoding"}
  BY <1>0, <1>2 DEF TaskList, ServerStarts, ServerFinishes, ServerCancels, ServerRaises
<1>4. CASE ServerRaises(s)
  <2>1. gen' = [gen EXCEPT ![s] = "error"] /\ failed' = failed \cup {s}
    BY <1>4 DEF ServerRaises, ServerAnswers
  <2>2. s # hand /\ ~Has(cancelq, s) /\ ~Has(resultq, s) /\ s \notin transit
    BY <1>0, <1>3, OnlyPlace
  <2>3. ~Outstanding(s)' /\ Outstanding(s)
    BY <1>1, <1>3, <2>1, <2>2 DEF Outstanding
  <2>4. \A t \in Samples : t # s => (Outstanding(t)' <=> Outstanding(t))
    BY <1>1, <1>3, <2>1 DEF Outstanding
  <2>5. s \in Out /\ Out' = Out \ {s}
    BY <2>3, <2>4, OutIs
  <2> QED BY <1>1, <2>1, <2>5 DEF Promised!Fail, Promised!StreamNext
<1>5. CASE ServerStarts(s) \/ ServerFinishes(s) \/ ServerCancels(s)
  <2>1. /\ \E answer \in {"decoding", "complete", "cancelled"} : gen' = [gen EXCEPT ![s] = answer]
        /\ failed' = failed
    BY <1>5 DEF ServerStarts, ServerFinishes, ServerCancels, ServerAnswers
  <2>2. \A t \in Samples : Outstanding(t)' <=> Outstanding(t)
    BY <1>1, <1>3, <2>1 DEF Outstanding
  <2>3. Out' = Out
    BY <2>2, OutIs
  <2> QED BY <1>1, <2>1, <2>3, Unseen
<1> QED BY <1>2, <1>4, <1>5

\* The trainer reads a sample, or the end.
LEMMA ReadIs ==
  ASSUME Inv, Inv', [Next]_vars, Collect \/ CollectEnd
  PROVE  Promised!Read \/ Promised!ReadEnd
<1>0. /\ Stored /\ Training /\ queue \in Seq(Samples \cup {Finish}) /\ Finish \notin Samples
  BY RollouterAssumption DEF Inv, Stored
<1>1. /\ UNCHANGED <<conf, taken, hand, gen, cancelq, resultq, transit, dropped, failed, at, trained>>
      /\ queue # <<>> /\ queue' = Tail(queue) /\ tpc = "collect"
  BY DEF Collect, CollectEnd, GetSample, rVars, tasks, picking, queues, sched
<1>2. Out' = Out /\ Ended' = Ended
  BY <1>1 DEF Out, Ended
<1>3. CASE Collect
  <2>1. Head(queue) \in Samples /\ batch' = Append(batch, Head(queue))
    BY <1>3 DEF Collect, GetSample
  <2>2. Len(batch) < conf.required
    BY <1>0, <1>1 DEF Training
  <2> QED BY <1>0, <1>1, <1>2, <2>1, <2>2 DEF Promised!Read
<1>4. CASE CollectEnd
  <2>1. Head(queue) = Finish /\ batch' = batch
    BY <1>4 DEF CollectEnd, GetSample
  <2>2. Len(queue) \in Nat \ {0} /\ queue[1] = Finish /\ 1 \in 1..Len(queue)
    BY <1>0, <1>1, <2>1, EmptySeq, HeadTailProperties
  <2>3. ASSUME Ended = "clean" PROVE queue' = <<>>
    <3>1. Len(queue) = 1
      BY <1>0, <2>2, <2>3, EndedIs DEF Stored
    <3>2. Tail(queue) \in Seq(Samples \cup {Finish}) /\ Len(Tail(queue)) = 0
      BY <1>0, <1>1, <3>1, HeadTailProperties
    <3> QED BY <1>1, <3>2, EmptySeq
  <2> QED BY <1>1, <1>2, <2>1, <2>3 DEF Promised!ReadEnd
<1> QED BY <1>3, <1>4

\* A batch is whole, without repetition, and new.
LEMMA TrainIs ==
  ASSUME Inv, Inv', Sized, [Next]_vars, Train
  PROVE  Promised!Train
<1>0. /\ Hand /\ Stored /\ TaskList /\ Conserved /\ batch \in Seq(Samples)
      /\ UNCHANGED <<conf, taken, hand, gen, cancelq, resultq, transit, queue, dropped, failed, at>>
      /\ trained' = trained \cup ToSet(batch) /\ batch' = <<>> /\ tpc = "train"
  BY DEF Inv, LInv, Stored, Train, mqVars, rVars, tasks, picking, queues, sched
<1>1. Out' = Out /\ Ended' = Ended
  BY <1>0 DEF Out, Ended
<1>2. Len(batch) = conf.required
  BY <1>0 DEF Sized
<1>3. \A s \in Samples : Count(batch, s) <= 1 /\ (Has(batch, s) => s \notin trained)
  BY <1>0, OnlyPlace
<1>4. Cardinality(ToSet(batch)) = conf.required
  BY <1>0, <1>2, <1>3, CountOnce, SeqElements
<1>5. ToSet(batch) \cap trained = {}
  BY <1>0, <1>3, Elements
<1>6. Promised!ToSet(batch) = ToSet(batch) /\ Promised!Cardinality(ToSet(batch)) = Cardinality(ToSet(batch))
  BY StreamOperators
<1> QED BY <1>0, <1>1, <1>2, <1>4, <1>5, <1>6 DEF Promised!Train

\* Every step is one of the stream, or changes nothing in it.
LEMMA StreamStep ==
  ASSUME Inv, Inv', Sized, Placed', [Next]_vars
  PROVE  [Promised!StreamNext]_(Promised!streamVars)
<1>0. conf' = conf /\ (taken' = taken \/ ProcGet) /\ (failed' = failed \/ Server)
  BY DataStep DEF DataFrames
<1>1. CASE PutRuns
  <2>1. PICK m \in transit : PutSample(m, conf.maxRequired) /\ transit' = transit \ {m}
    BY <1>1 DEF PutRuns
  <2>2. UNCHANGED trainerVars
    <3>1. transit' # transit
      BY <2>1
    <3>2. ~Trainer
      BY <3>1 DEF Trainer, Collect, CollectEnd, Train, SyncPauses, PauseReturns, SyncSends, ReadValidation,
        CallFrame, rVars, queues
    <3> QED BY <3>2, NotTrainer
  <2>3. m \in Samples \/ m = Finish
    BY <2>1 DEF Inv, Stored
  <2> QED BY <1>1, <2>1, <2>2, <2>3, DeliverIs, EndIs DEF Promised!StreamNext
<1>2. CASE UNCHANGED Moved
  <2>1. Out' = Out
    BY <1>2 DEF Out, Moved
  <2>2. ~PutRuns
    BY <1>2 DEF PutRuns, Moved
  <2>3. UNCHANGED <<taken, queue, batch, trained, dropped, failed>> /\ Ended' = Ended
    BY <1>2, <2>2, EndedStep DEF Moved
  <2> QED BY <1>0, <2>1, <2>3, Unseen
<1>3. CASE Moves /\ UNCHANGED trainerVars /\ ~PutRuns
  <2>1. CASE ProcGet
    BY <1>3, <2>1, TakeIs
  <2>2. CASE Server
    BY <1>3, <2>2, FailIs
  <2>4. CASE ~ProcGet /\ ~Server
    <3>1. UNCHANGED <<queue, dropped>>
      BY <1>3, <2>4 DEF Moves, ProcTop, ProcSubmit, TaskBegin, TaskEnd, TaskFrame, ConsumerPuts, MainFinishes,
        mqVars
    <3>2. UNCHANGED <<batch, trained>>
      BY <1>3 DEF trainerVars
    <3>3. ~(\E t \in Samples : ServerRaises(t))
      BY <2>4 DEF Server
    <3>4. \A s \in Samples : Outstanding(s)' <=> Outstanding(s)
      BY <1>3, <2>4, <3>3, OutStep
    <3>5. Out' = Out
      BY <3>4, OutIs
    <3>6. Ended' = Ended
      BY <1>3, EndedStep
    <3> QED BY <1>0, <2>4, <3>1, <3>2, <3>5, <3>6, Unseen
  <2> QED BY <2>1, <2>2, <2>4
<1>4. CASE Collect \/ CollectEnd
  BY <1>4, ReadIs DEF Promised!StreamNext
<1>5. CASE Train
  BY <1>5, TrainIs DEF Promised!StreamNext
<1> QED BY <1>1, <1>2, <1>3, <1>4, <1>5, MoveCases

\* The stream begins with all samples fresh.
LEMMA StreamStart ==
  ASSUME Init
  PROVE  Promised!StreamInit /\ Sized
<1>1. /\ conf \in Configs /\ taken = 0 /\ hand = 0 /\ gen = [s \in Samples |-> "none"]
      /\ cancelq = <<>> /\ resultq = <<>> /\ queue = <<>> /\ batch = <<>>
      /\ trained = {} /\ dropped = {} /\ failed = {} /\ transit = {} /\ Ended = "no" /\ tpc = "collect"
  BY DEF Init, MQInit, RInit, Ended
<1>2. Samples = 1..Total /\ Total \in Nat
  BY RollouterAssumption DEF Samples
<1>3. {s \in Samples : s > taken} = Samples
  BY <1>1, <1>2
<1>4. Out = {}
  <2>1. ToSet(cancelq) = {} /\ ToSet(resultq) = {}
    BY <1>1 DEF ToSet
  <2> QED BY <1>1, <1>2, <2>1 DEF Out
<1>5. Sized
  <2>1. conf.maxRequired \in Nat
    BY <1>1, RollouterAssumption
  <2>2. Len(queue) = 0
    BY <1>1
  <2> QED BY <1>1, <2>1, <2>2 DEF Sized
<1> QED BY <1>1, <1>3, <1>4, <1>5 DEF Promised!StreamInit

-----------------------------------------------------------------------------
\* The theorems.

\* The types of the whole pipeline, and what the program counters of the coroutines say
\* about the event loop's queues.
THEOREM TypeCorrect == SafeSpec => []TypeOK
BY Invariant, InvType, PTL

\* asyncio.Lock and the hand-over of the loop: of the processor, the monitor and the calls
\* pause, update_param_version and resume one at most is in a section under self.lock.
THEOREM LockExcludes ==
  SafeSpec => [](\A c, d \in Coroutines :
                   Inside(c) /\ Inside(d) /\ c \notin Queued /\ d \notin Queued => c = d)
<1>1. ASSUME Inv
      PROVE  \A c, d \in Coroutines : Inside(c) /\ Inside(d) /\ c \notin Queued /\ d \notin Queued => c = d
  BY <1>1 DEF Inv, LInv, Locking
<1> QED BY <1>1, Invariant, PTL

\* Between _feed_samples and the trainer's batches no sample is lost or delivered twice,
\* whatever the interleaving of processor, tasks, consumer, pause and trainer.
THEOREM SamplesConserved == SafeSpec => []Conserved
<1>1. Inv => Conserved
  BY DEF Inv
<1> QED BY <1>1, Invariant, PTL

\* With partial rollout no server decodes between the cancellation that pause() asks for
\* and resume(), while sync_weights exchanges the weights.
THEOREM QuietDuringSync == SafeSpec => []NoDecodeDuringSync
<1>1. Inv => NoDecodeDuringSync
  BY DEF Inv, Quiet, NoDecodeDuringSync
<1> QED BY <1>1, Invariant, PTL

\* staleness_samples never falls short of the samples in flight by more than two, whatever
\* moves between the tasks and the queues while update_param_version waits for the size of
\* the MessageQueue, and whichever calls that runs before it answers.
THEOREM StalenessSound == SafeSpec => []StalenessCovers
<1>1. Inv => StalenessCovers
  BY DEF Inv, Covered, Flight, StalenessCovers
<1> QED BY <1>1, Invariant, PTL

\* max_required_samples bounds what is generated ahead of the trainer up to two, and a queue
\* of that size drops at most two samples per version.
THEOREM AheadIsBounded == SafeSpec => []AheadBounded
BY Invariant, InvAhead, PTL

\* With room for more than max_concurrent_samples in the pending queue, _processor_worker
\* only ever raises what a generation has raised.
THEOREM ProcessorSound == SafeSpec => []ProcessorFails
<1>1. Inv => ProcessorFails
  BY DEF Inv, Draining, ProcessorFails
<1> QED BY <1>1, Invariant, PTL

\* When both sides are done every sample has been trained on or is in a known remainder.
THEOREM EndAccounts == SafeSpec => []EndsComplete
BY Invariant, InvEnd, PTL

\* Every step of the rollouter, its tasks, the servers, the calls and the trainer is a step
\* of the stream of samples, or changes nothing in it: samples are taken in their order and
\* delivered once, a full queue drops its oldest message, batches are whole and new.
THEOREM StreamImplemented == SafeSpec => ImplementsStream
<1>1. Init => Promised!StreamInit /\ Sized
  BY StreamStart
<1>2. Inv => Placed
  BY InvPlaced
<1>3. Inv /\ Sized /\ [Next]_vars => Sized'
  BY SizedStep
<1>4. Inv /\ Inv' /\ Sized /\ Placed' /\ [Next]_vars => [Promised!StreamNext]_(Promised!streamVars)
  BY StreamStep
<1> QED BY <1>1, <1>2, <1>3, <1>4, Invariant, PTL DEF SafeSpec, ImplementsStream, Promised!StreamSpec
===============================================================================
