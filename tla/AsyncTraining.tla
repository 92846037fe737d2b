----------------------------- MODULE AsyncTraining -----------------------------
(***************************************************************************)
(* Fully asynchronous training: the rollouter, the MessageQueue, the       *)
(* FullyAsyncTrainer that reads batches of samples from it, and the        *)
(* ParameterSynchronizer through which the trainer hands over new weights. *)
(***************************************************************************)
EXTENDS Rollouter

CONSTANT NoResult  \* get_validate found nothing

VARIABLES
  tpc,      \* where the trainer is
  batch,    \* samples collected for the next step
  trained,  \* samples trained on
  local,    \* local_trigger_step
  version,  \* the trainer's current_param_version
  call,     \* arguments of the update_param_version last sent
  final,    \* the final synchronisation has begun
  lastVal   \* val_data

trainerVars == <<tpc, batch, trained, local, version, call, final, lastVal>>
vars == <<conf, mqVars, rVars, trainerVars>>

\* Version 0 was synchronised and validated before fit.
Init ==
  /\ MQInit /\ RInit
  /\ tpc = "collect" /\ batch = <<>> /\ trained = {}
  /\ local = 1 /\ version = 0 /\ final = FALSE
  /\ call = [version |-> 0, validate |-> TRUE]
  /\ lastVal = [version |-> 0, metrics |-> TRUE]

-----------------------------------------------------------------------------
\* The trainer.

RollouterIdle == at.update = "off" /\ at.resume = "off"

StartSync == version' = version + 1 /\ local' = 1 /\ tpc' = "wait_last"

\* One get_sample of _get_samples_from_queue.
Collect ==
  /\ tpc = "collect"
  /\ \E s \in Samples :
       /\ GetSample(s)
       /\ batch' = Append(batch, s)
       /\ tpc' = IF Len(batch') = conf.required THEN "train" ELSE "collect"
  /\ UNCHANGED <<conf, dropped, valq, rVars, trained, local, version, call, final, lastVal>>

\* None ends the loop.  The last version is synchronised once more, with a
\* validation, unless the last validation result read has metrics.
CollectEnd ==
  /\ tpc = "collect" /\ GetSample(Finish)
  /\ IF lastVal = NoResult \/ ~lastVal.metrics
       THEN StartSync /\ final' = TRUE
       ELSE tpc' = "done" /\ UNCHANGED <<version, local, final>>
  /\ UNCHANGED <<conf, dropped, valq, rVars, batch, trained, call, lastVal>>

\* A training step, and _trigger_parameter_sync_after_step.
Train ==
  /\ tpc = "train"
  /\ trained' = trained \cup ToSet(batch) /\ batch' = <<>>
  /\ IF local < conf.triggerStep
       THEN local' = local + 1 /\ tpc' = "getval" /\ UNCHANGED version
       ELSE StartSync
  /\ UNCHANGED <<conf, mqVars, rVars, call, final, lastVal>>

CallFrame == UNCHANGED <<conf, mqVars, due, lock, waiters, flags, counting, picking, tasks, queues, serverPaused,
                         batch, trained, local, version, final, lastVal>>

\* wait_last_valid, then sync_weights calls pause.
SyncPauses ==
  /\ tpc = "wait_last" /\ RollouterIdle
  /\ at' = [at EXCEPT !["pause"] = "called"] /\ ready' = Append(ready, "pause")
  /\ tpc' = "pausing"
  /\ CallFrame /\ UNCHANGED call

PauseReturns ==
  /\ tpc = "pausing" /\ at.pause = "returned"
  /\ Go("pause", "off") /\ tpc' = "weights"
  /\ CallFrame /\ UNCHANGED <<ready, call>>

\* The weights have arrived; update_param_version and resume are called, not awaited.
SyncSends ==
  /\ tpc = "weights"
  /\ at' = [at EXCEPT !["update"] = "sent", !["resume"] = "sent"] /\ UNCHANGED ready
  /\ call' = [version |-> version, validate |-> final]
  /\ tpc' = IF final THEN "final" ELSE "getval"
  /\ CallFrame

\* get_validate_sync after every step, and after the final synchronisation.
ReadValidation ==
  /\ \/ tpc = "getval" /\ tpc' = "collect"
     \/ tpc = "final" /\ RollouterIdle /\ tpc' = "done"
  /\ GetValidate(lastVal', NoResult)
  /\ UNCHANGED <<conf, queue, dropped, rVars, batch, trained, local, version, call, final>>

Trainer == Collect \/ CollectEnd \/ Train \/ SyncPauses \/ PauseReturns \/ SyncSends \/ ReadValidation

-----------------------------------------------------------------------------
\* What the MessageQueue runs of the calls sent to it.
Actor == PutRuns \/ SizeRuns \/ ValidateRuns(call.validate)

Loop == (EventLoop \/ UpdateStart(call.version)) /\ UNCHANGED trainerVars
Outside == (Actor \/ Answers \/ Timer \/ Server) /\ UNCHANGED trainerVars

Over == tpc = "done" /\ at.monitor = "off" /\ ready = <<>> /\ UNCHANGED vars

Next == Trainer \/ Loop \/ Outside \/ Over

SafeSpec == Init /\ [][Next]_vars

\* The processes run, calls are answered, the monitor's sleeps and the generations end.
Spec ==
  /\ SafeSpec
  /\ WF_vars(Trainer) /\ WF_vars(Loop)
  /\ WF_vars(Actor /\ UNCHANGED trainerVars) /\ WF_vars(Answers /\ UNCHANGED trainerVars)
  /\ WF_vars(Timer /\ UNCHANGED trainerVars)
  /\ \A s \in Samples :
       WF_vars((ServerStarts(s) \/ ServerFinishes(s) \/ ServerCancels(s)) /\ UNCHANGED trainerVars)

-----------------------------------------------------------------------------
\* Properties.

\* The types, and what the program counters say about the state they go with.
TypeOK ==
  /\ conf \in Configs /\ lock \in {Nobody} \cup DOMAIN at
  /\ ToSet(ready) \subseteq DOMAIN at \cup {"task"}
  /\ Len(due) = Cardinality({i \in DOMAIN ready : ready[i] = "task"})
  /\ \A s \in ToSet(due) : gen[s] # "none"
  /\ ToSet(waiters) \subseteq DOMAIN at /\ (lock = Nobody => waiters = <<>>)
  /\ staleness \in Nat /\ fed - taken \in 0..PendingCap
  /\ ToSet(queue) \subseteq Samples \cup {Finish}
  /\ trained \cup failed \cup ToSet(batch) \subseteq Samples
  /\ dropped \subseteq Samples \cup {Finish}
  /\ Len(batch) <= conf.required /\ local \in 1..conf.triggerStep
  /\ rversion \in 0..version

Count(seq, s) == Cardinality({i \in DOMAIN seq : seq[i] = s})
In(cond) == IF cond THEN 1 ELSE 0

\* How often a sample occurs on its way from the pending queue to the trainer.
Places(s) ==
  In(s > taken) + In(s = hand) + In(gen[s] \notin {"none", "error"})
  + Count(cancelq, s) + Count(resultq, s) + In(s \in transit) + Count(queue, s) + Count(batch, s)
  + In(s \in trained) + In(s \in dropped) + In(s \in failed)

\* No interleaving of processor, tasks, consumer, pause and trainer loses a sample or
\* delivers one twice: each is in one place, or in the queue's or the tasks' losses.
Conserved == \A s \in Samples : Places(s) = 1

\* Samples that the rollouter has taken and not yet delivered.
Out == {s \in Samples : \/ s = hand \/ gen[s] \notin {"none", "error"}
                        \/ s \in ToSet(cancelq) \cup ToSet(resultq) \cup transit}

\* The finish signal is in the queue: the last message unless the processor has failed.
Ended ==
  IF at.main \in {"on", "join"} \/ Finish \in transit THEN "no"
  ELSE IF at.proc = "failed" THEN "aborted" ELSE "clean"

Promised == INSTANCE SampleStream
  WITH fresh <- {s \in Samples : s > taken}, out <- Out, ended <- Ended

\* Every step of processor, tasks, servers, consumer, calls and trainer is a step of the
\* stream of samples, or changes nothing in it.
ImplementsStream == Promised!StreamSpec

\* Samples taken by the rollouter that the trainer has not read.
InFlight == {s \in 1..taken \cap Samples :
               s \notin trained \cup ToSet(batch) \cup dropped \cup failed}

\* The staleness threshold bounds the samples generated ahead of the trainer, up to two
\* that update_param_version may miss: the one in the processor's hand, and the one on its
\* way to the MessageQueue if that tells its size first.  For these two a full queue may
\* drop as many samples per version, and one more for the finish signal.
AheadBounded ==
  /\ Cardinality(InFlight) <= conf.maxRequired + 2
  /\ Cardinality(dropped) <= 2 * version + In(Ended # "no")

\* staleness_samples covers what is in flight up to those two, also while a synchronisation
\* counts it anew: its own terms are read before the await and the size of the MessageQueue
\* during it, in no order with the puts that are under way, while samples move on between
\* the tasks and the queues, and the sum is assigned after it.
StalenessCovers == Cardinality(InFlight) <= staleness + 2

\* The loops that wait for tasks find done_tasks assigned even when pause() has emptied
\* active_tasks: only a generation that raises ends the processor with an exception, if
\* the pending queue holds more than the tasks that fit, so that the processor has waited
\* for a task before the first synchronisation.  With a smaller one it is wrong.
ProcessorFails == PendingCap > conf.concurrent /\ at.proc = "failed" => failed # {}

\* A sample that is trained on is older than the weights by the versions a full quota lasts
\* for, and by two more: a synchronisation can overtake a generation that the monitor has let
\* begin meanwhile, and while its update_param_version waits the trainer can read a whole
\* version's samples, which staleness_samples then does not count.
AgeBounded ==
  tpc \in {"collect", "train"} =>
    \A i \in DOMAIN batch :
      version - stamp[batch[i]] <= (conf.maxRequired + 1) \div (conf.required * conf.triggerStep) + 2

\* With partial rollout no server decodes while the weights are exchanged.
NoDecodeDuringSync == tpc = "weights" /\ conf.partial => \A s \in Samples : gen[s] # "decoding"

\* At the end every sample has been trained on or is in a known remainder: the last
\* incomplete batch, the drop of the finish signal, a generation that has raised, or, with
\* partial rollout, samples cancelled behind the end signal.  A processor that has failed
\* takes those behind it along.
EndsComplete ==
  tpc = "done" /\ at.proc # "failed" =>
    \A s \in Samples : \/ s \in trained \cup dropped \cup failed \cup ToSet(batch)
                       \/ conf.partial /\ s \in ToSet(cancelq)

\* The rollouter and the trainer both come to an end unless a generation fails.
Finishes == <>(failed # {} \/ (tpc = "done" /\ at.main = "done"))

\* A synchronisation that has begun gets its weights across: pause() always returns.
SyncCompletes == tpc = "wait_last" ~> tpc \in {"getval", "final"}

\* README.md:203 "When triggering parameter synchronization, if Rollouter has ongoing
\* tasks, it will wait for the tasks to complete and not add new tasks."
RestDuringSync == tpc = "weights" /\ ~conf.partial => Busy = {}

\* README.md:212 "The interrupted samples will continue to be generated after
\* synchronization."
InterruptedContinue == \A s \in Samples : gen[s] = "cancelled" ~> gen[s] = "decoding"
===============================================================================
