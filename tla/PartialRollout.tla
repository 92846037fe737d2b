----------------------------- MODULE PartialRollout -----------------------------
(***************************************************************************)
(* Partial rollout of one sample: the agent loop sends its responses to    *)
(* the inference servers, a parameter synchronisation cancels what they    *)
(* are generating, and the sample is sent again until no response of it    *)
(* was cancelled.                                                          *)
(*                                                                         *)
(* A token is [pos, ver]: its position in the response and the version of  *)
(* the weights that generated it.  A log probability is identified with    *)
(* the token it belongs to.                                                *)
(***************************************************************************)
EXTENDS Integers, Sequences, FiniteSets, SequencesExt

CONSTANTS
  Responses,       \* the rollout.n responses of the sample
  Servers,         \* inference servers
  ResponseLength,  \* response_length
  Configs,         \* the prompts and engines covered
  MaxVersion,      \* bound: synchronisations
  None             \* no output yet

ASSUME PartialAssumption ==
  /\ ResponseLength \in Nat \ {0} /\ MaxVersion \in Nat
  /\ \A c \in Configs : c.room \in Nat /\ c.room >= ResponseLength /\ c.failing \in BOOLEAN

VARIABLES
  conf,     \* the configuration
  job,      \* the sample: "queued" (pending_queue or cancel_queue), "running",
            \* "left", or "failed" when its task has raised
  output,   \* agent_loop_output_list
  request,  \* the request of each response
  stamp,    \* param_version of the sample
  paused,   \* of each server
  phase,    \* of the synchronisation
  weights,  \* version of the servers' weights
  current   \* current_param_version of the rollouter

sync == <<conf, paused, phase, weights, current>>
vars == <<job, output, request, stamp, sync>>

\* Tokens that fit behind the prompt: max_model_len - len(prompt_ids).
Room == conf.room

\* Whether the engine may raise.
Failing == conf.failing

\* A request: the server's req_output is got, its cancel_event is set or not.
FreshRequest(at, server) == [at |-> at, server |-> server, got |-> <<>>, set |-> FALSE]
NoRequest == FreshRequest("none", None)

Init ==
  /\ conf \in Configs
  /\ job = "queued" /\ output = [i \in Responses |-> None]
  /\ request = [i \in Responses |-> NoRequest] /\ stamp = 0
  /\ paused = [s \in Servers |-> FALSE] /\ phase = "open" /\ weights = 0 /\ current = 0

-----------------------------------------------------------------------------
\* The task of the sample.

Earlier(i) == IF output[i] = None THEN <<>> ELSE output[i].response_ids
EarlierProbs(i) == IF output[i] = None THEN <<>> ELSE output[i].log_probs

\* response_ids[: self.response_length]
Cut(ids) == IF Len(ids) > ResponseLength THEN SubSeq(ids, 1, ResponseLength) ELSE ids

Cancelled(i) == output[i] # None /\ output[i].is_cancel

\* Mutant: responses that are complete are generated again.
UnfinishedAll == Responses

\* Complete responses are returned as they are.
Unfinished == {i \in Responses : output[i] = None \/ Cancelled(i)}

\* The task starts and sends a request for each of them, to any server.  pause() holds
\* the lock that submitting takes until the tasks there are have ended.
Begin ==
  /\ job = "queued" /\ phase # "cancelling"
  /\ job' = "running" /\ stamp' = current
  /\ \E server \in [Responses -> Servers] :
       request' = [i \in Responses |->
                     IF i \in Unfinished THEN FreshRequest("sent", server[i]) ELSE NoRequest]
  /\ UNCHANGED <<output, sync>>

\* Mutants: earlier tokens are lost; nothing is cut.
AnswerNewOnly(i, got, cancel) ==
  /\ request' = [request EXCEPT ![i] = NoRequest]
  /\ output' = [output EXCEPT ![i] =
       [response_ids |-> Cut(got), log_probs |-> EarlierProbs(i) \o got,
        is_cancel |-> cancel, first |-> IF output[i] = None THEN stamp ELSE output[i].first, last |-> stamp]]
  /\ UNCHANGED <<job, stamp>>
AnswerUncut(i, got, cancel) ==
  /\ request' = [request EXCEPT ![i] = NoRequest]
  /\ output' = [output EXCEPT ![i] =
       [response_ids |-> Earlier(i) \o got, log_probs |-> EarlierProbs(i) \o got,
        is_cancel |-> cancel, first |-> IF output[i] = None THEN stamp ELSE output[i].first, last |-> stamp]]
  /\ UNCHANGED <<job, stamp>>

\* run() after generate_for_partial: what is new goes behind the earlier output; the
\* tokens are cut to response_length, their log probabilities are not.
Answer(i, got, cancel) ==
  /\ request' = [request EXCEPT ![i] = NoRequest]
  /\ output' = [output EXCEPT ![i] =
       [response_ids |-> Cut(Earlier(i) \o got), log_probs |-> EarlierProbs(i) \o got,
        is_cancel |-> cancel, first |-> IF output[i] = None THEN stamp ELSE output[i].first, last |-> stamp]]
  /\ UNCHANGED <<job, stamp>>

Answered == job = "running" /\ \A i \in Responses : request[i].at = "none"

\* A sample with a cancelled response goes to the cancel queue.
End ==
  /\ Answered
  /\ job' = IF \E i \in Responses : Cancelled(i) THEN "queued" ELSE "left"
  /\ UNCHANGED <<output, request, stamp, sync>>

-----------------------------------------------------------------------------
\* generate_for_partial on a server.

\* A paused server answers at once, with nothing.
Arrive(i) ==
  /\ request[i].at = "sent"
  /\ IF paused[request[i].server]
       THEN Answer(i, <<>>, TRUE)
       ELSE request' = [request EXCEPT ![i].at = "generating"] /\ UNCHANGED <<job, output, stamp>>
  /\ UNCHANGED sync

\* The next token, until nothing fits any more.
Token(i) ==
  LET next == Len(Earlier(i)) + Len(request[i].got) + 1
  IN  /\ request[i].at = "generating" /\ next <= Room
      /\ request' = [request EXCEPT ![i].got = Append(@, [pos |-> next, ver |-> weights])]
      /\ UNCHANGED <<job, output, stamp, sync>>

\* The generation is done, with the cancel event set or not.
Complete(i) ==
  /\ request[i].at = "generating" /\ request[i].got # <<>>
  /\ Answer(i, request[i].got, FALSE)
  /\ UNCHANGED sync

\* The cancel event comes first: what has been generated so far, if anything.
Interrupt(i) ==
  /\ request[i].at = "generating" /\ request[i].set
  /\ Answer(i, request[i].got, TRUE)
  /\ UNCHANGED sync

\* With no room behind the earlier output max_tokens is 0, which SamplingParams refuses; an
\* engine may raise at any time.  The error ends the task: what the other requests still
\* answer goes nowhere.
Raise(i) ==
  /\ request[i].at = "generating" /\ (Failing \/ Len(Earlier(i)) >= Room)
  /\ job' = "failed" /\ request' = [j \in Responses |-> NoRequest]
  /\ UNCHANGED <<output, stamp, sync>>

-----------------------------------------------------------------------------
\* A synchronisation, as far as it touches the servers.

SyncFrame == UNCHANGED <<conf, job, output, stamp>>

StartCancel ==
  /\ phase = "open" /\ weights < MaxVersion /\ job \notin {"left", "failed"}
  /\ phase' = "cancelling"
  /\ SyncFrame /\ UNCHANGED <<request, paused, weights, current>>

\* The servers are told one by one.
CancelServer(s) ==
  /\ phase = "cancelling" /\ ~paused[s]
  /\ paused' = [paused EXCEPT ![s] = TRUE]
  /\ request' = [i \in Responses |-> IF request[i].at = "generating" /\ request[i].server = s
                                       THEN [request[i] EXCEPT !.set = TRUE] ELSE request[i]]
  /\ SyncFrame /\ UNCHANGED <<phase, weights, current>>

\* Mutant: the tasks are not waited for.
GatherNone ==
  /\ phase = "cancelling" /\ \A s \in Servers : paused[s]
  /\ phase' = "weights"
  /\ SyncFrame /\ UNCHANGED <<request, paused, weights, current>>

\* pause() waits for the tasks there are; another one may start before the resume.
Gather ==
  /\ phase = "cancelling" /\ (\A s \in Servers : paused[s]) /\ job # "running"
  /\ phase' = "weights"
  /\ SyncFrame /\ UNCHANGED <<request, paused, weights, current>>

NewWeights ==
  /\ phase = "weights" /\ weights' = weights + 1 /\ phase' = "version"
  /\ SyncFrame /\ UNCHANGED <<request, paused, current>>

UpdateVersion ==
  /\ phase = "version" /\ current' = weights /\ phase' = "resuming"
  /\ SyncFrame /\ UNCHANGED <<request, paused, weights>>

\* Mutant: the servers stay paused.
ResumeServerNot(s) ==
  /\ phase = "resuming" /\ paused[s]
  /\ phase' = "open" /\ UNCHANGED paused
  /\ SyncFrame /\ UNCHANGED <<request, weights, current>>

ResumeServer(s) ==
  /\ phase = "resuming" /\ paused[s]
  /\ paused' = [paused EXCEPT ![s] = FALSE]
  /\ phase' = IF \E t \in Servers : paused'[t] THEN "resuming" ELSE "open"
  /\ SyncFrame /\ UNCHANGED <<request, weights, current>>

-----------------------------------------------------------------------------
Generation(i) == Arrive(i) \/ Token(i) \/ Complete(i) \/ Interrupt(i) \/ Raise(i)
Sync ==
  \/ Gather \/ NewWeights \/ UpdateVersion
  \/ \E s \in Servers : CancelServer(s) \/ ResumeServer(s)

Over == job \in {"left", "failed"} /\ UNCHANGED vars

Next == Begin \/ End \/ StartCancel \/ Sync \/ Over \/ \E i \in Responses : Generation(i)

SafeSpec == Init /\ [][Next]_vars

\* Tasks start and requests arrive, are generated and answered; a synchronisation that
\* has begun goes on.  None need ever begin.
Spec ==
  /\ SafeSpec
  /\ WF_vars(Begin) /\ WF_vars(End) /\ WF_vars(Sync)
  /\ \A i \in Responses : WF_vars(Generation(i))

-----------------------------------------------------------------------------
\* Properties.

Tokens == [pos : Nat \ {0}, ver : 0..MaxVersion]

\* The types of the sample, its requests and the servers; a response is never longer
\* than response_length.
TypeOK ==
  /\ conf \in Configs
  /\ job \in {"queued", "running", "left", "failed"} /\ {stamp, weights, current} \subseteq 0..MaxVersion
  /\ phase \in {"open", "cancelling", "weights", "version", "resuming"}
  /\ paused \in [Servers -> BOOLEAN]
  /\ \A i \in Responses :
       /\ request[i].at \in {"none", "sent", "generating"} /\ request[i].got \in Seq(Tokens)
       /\ output[i] # None => output[i].response_ids \in Seq(Tokens) /\ Len(output[i].response_ids) <= ResponseLength

Present(i) == output[i] # None

\* However often a response is interrupted and continued, its tokens are those from the
\* first to the last position, each once, and each has its own log probability at its
\* position, though only the tokens are cut to response_length.
NothingLostOrTwice ==
  \A i \in Responses : Present(i) =>
    /\ \A k \in DOMAIN output[i].response_ids : output[i].response_ids[k].pos = k
    /\ IsPrefix(output[i].response_ids, output[i].log_probs)

\* The weights never change under a request.  So param_version_start is no later than the
\* first token of a response, the versions of its tokens never decrease, and
\* param_version_end misses at most the one version that a request may cross a
\* synchronisation for.
VersionsBracket ==
  \A i \in Responses :
    /\ \A k \in DOMAIN request[i].got : request[i].got[k].ver = request[i].got[1].ver
    /\ Present(i) =>
         LET ids == output[i].response_ids
         IN  /\ \A k \in DOMAIN ids : ids[k].ver \in output[i].first..output[i].last + 1
             /\ \A k \in 1..Len(ids) - 1 : ids[k].ver <= ids[k + 1].ver

\* A response that was not cancelled stays as it is while others are continued.
FinishedKept ==
  [][\A i \in Responses : Present(i) /\ ~Cancelled(i) => output'[i] = output[i]]_output

\* The sample is generated in the end, however many synchronisations interrupt it.  When
\* the engine does not fail, its task raises only where the prompt leaves room for
\* response_length tokens and no more: then a response may be cancelled with nothing left
\* to generate, and is sent again all the same.
Leaves == <>(job = "left" \/ (job = "failed" /\ (Failing \/ Room = ResponseLength)))
===============================================================================
