----------------------------- MODULE MessageQueue -----------------------------
(***************************************************************************)
(* The MessageQueue actor between rollouter and trainer: a bounded queue   *)
(* of samples, ended by one Finish message, and a queue of validation      *)
(* results.  Its methods run one after the other under the actor's lock:   *)
(* each is one step, whenever the actor comes to run the call.             *)
(***************************************************************************)
EXTENDS Integers, Sequences

CONSTANT Finish  \* the sample None that ends the stream

VARIABLES
  queue,    \* samples not yet read by the trainer
  dropped,  \* samples pushed out of a full queue
  valq      \* validation results not yet read by the trainer

mqVars == <<queue, dropped, valq>>

MQInit == queue = <<>> /\ dropped = {} /\ valq = <<>>

\* put_sample: a full queue loses its oldest sample.
PutSample(m, size) ==
  IF Len(queue) >= size
    THEN queue' = Append(Tail(queue), m) /\ dropped' = dropped \cup {Head(queue)}
    ELSE queue' = Append(queue, m) /\ UNCHANGED dropped

\* get_sample: waits until there is one.
GetSample(m) == queue # <<>> /\ m = Head(queue) /\ queue' = Tail(queue)

PutValidate(v) == valq' = Append(valq, v)

\* get_validate: the oldest result, or nothing.
GetValidate(v, nothing) ==
  IF valq = <<>> THEN v = nothing /\ UNCHANGED valq
                 ELSE v = Head(valq) /\ valq' = Tail(valq)
===============================================================================
