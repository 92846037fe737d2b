----------------------------- MODULE SampleStream -----------------------------
(***************************************************************************)
(* What asynchronous training promises about its samples, with no mention  *)
(* of coroutines, tasks, servers or locks.  The samples are taken in their *)
(* order, a bounded number of them ahead of the trainer, and come out in   *)
(* any order into a bounded queue, from which the trainer reads batches of *)
(* one size.  A sample is delivered and trained on once, or it is lost in  *)
(* one of two ways: its generation has failed, or it was the oldest one in *)
(* the queue when the queue was full.                                      *)
(***************************************************************************)
EXTENDS Integers, Sequences, FiniteSets, SequencesExt

CONSTANTS
  Samples,  \* numbers, in their order
  Configs,  \* conf.required samples make a batch, conf.maxRequired fill the queue
  Finish    \* the message that ends the stream

VARIABLES
  conf,
  fresh,    \* samples not yet taken
  out,      \* samples taken and not yet in the queue
  queue, batch, trained, dropped, failed,
  ended     \* whether Finish has been put into the queue, and how

streamVars == <<conf, fresh, out, queue, batch, trained, dropped, failed, ended>>

StreamInit ==
  /\ conf \in Configs
  /\ fresh = Samples /\ out = {} /\ queue = <<>> /\ batch = <<>>
  /\ trained = {} /\ dropped = {} /\ failed = {} /\ ended = "no"

\* The samples between the ones to be taken and the trainer.
Ahead == out \cup (ToSet(queue) \ {Finish})

Take ==
  \E s \in fresh :
    /\ \A t \in fresh : s <= t
    /\ fresh' = fresh \ {s} /\ out' = out \cup {s}
    /\ Cardinality(Ahead \cup {s}) <= conf.maxRequired + 2
    /\ UNCHANGED <<conf, queue, batch, trained, dropped, failed, ended>>

Put(m) ==
  \/ /\ Len(queue) < conf.maxRequired
     /\ queue' = Append(queue, m) /\ UNCHANGED dropped
  \/ /\ Len(queue) = conf.maxRequired
     /\ queue' = Append(Tail(queue), m) /\ dropped' = dropped \cup {Head(queue)}

Deliver ==
  /\ ended # "clean"
  /\ \E s \in out : out' = out \ {s} /\ Put(s)
  /\ UNCHANGED <<conf, fresh, batch, trained, failed, ended>>

Fail ==
  /\ \E s \in out : out' = out \ {s} /\ failed' = failed \cup {s}
  /\ UNCHANGED <<conf, fresh, queue, batch, trained, dropped, ended>>

\* Nothing is put into the queue after Finish.
End ==
  /\ ended = "no" /\ ended' \in {"clean", "aborted"} /\ Put(Finish)
  /\ UNCHANGED <<conf, fresh, out, batch, trained, failed>>

Read ==
  /\ queue # <<>> /\ Head(queue) # Finish /\ Len(batch) < conf.required
  /\ queue' = Tail(queue) /\ batch' = Append(batch, Head(queue))
  /\ UNCHANGED <<conf, fresh, out, trained, dropped, failed, ended>>

ReadEnd ==
  /\ queue # <<>> /\ Head(queue) = Finish /\ queue' = Tail(queue)
  /\ ended = "clean" => queue' = <<>>
  /\ UNCHANGED <<conf, fresh, out, batch, trained, dropped, failed, ended>>

\* A batch has its size, and no sample in it twice or trained on before.
Train ==
  /\ Len(batch) = conf.required /\ Cardinality(ToSet(batch)) = conf.required
  /\ ToSet(batch) \cap trained = {}
  /\ batch' = <<>> /\ trained' = trained \cup ToSet(batch)
  /\ UNCHANGED <<conf, fresh, out, queue, dropped, failed, ended>>

StreamNext == Take \/ Deliver \/ Fail \/ End \/ Read \/ ReadEnd \/ Train

StreamSpec == StreamInit /\ [][StreamNext]_streamVars
===============================================================================
