--------------------------- MODULE AtomicCheckpoint ---------------------------
(***************************************************************************)
(* What a checkpointed training run promises, with no mention of files: a  *)
(* run makes progress one step at a time, from time to time it commits its *)
(* progress in one indivisible step, a crash loses what was not committed, *)
(* and a restarted run always continues from exactly the last commit.      *)
(* Two things spoil it: a commit of a state that cannot be resumed, and a  *)
(* crash in the middle of a commit, which leaves nothing.                  *)
(***************************************************************************)
EXTENDS Naturals

VARIABLES
  up,        \* a training process is running
  at,        \* the step it has reached; 0 when no process runs
  durable,   \* the last committed step; 0 when nothing was committed
  usable     \* a restart can continue from it

avars == <<up, at, durable, usable>>

AInit == up = FALSE /\ at = 0 /\ durable = 0 /\ usable = TRUE

Advance == up /\ at' = at + 1 /\ UNCHANGED <<up, durable, usable>>

Commit == up /\ durable' = at /\ usable' \in BOOLEAN /\ UNCHANGED <<up, at>>

Down == up /\ up' = FALSE /\ at' = 0

Fail == Down /\ UNCHANGED <<durable, usable>>

\* The crash hits the commit of the step that was reached.
FailCommitting == Down /\ durable = at /\ durable' = 0 /\ usable' = FALSE

Recover == ~up /\ usable /\ up' = TRUE /\ at' = durable /\ UNCHANGED <<durable, usable>>

ANext == Advance \/ Commit \/ Fail \/ FailCommitting \/ Recover

\* The safety half, which is what the proof of refinement establishes.
ASafe == AInit /\ [][ANext]_avars

\* A run that is down and has something to continue from is brought back.
ASpec == ASafe /\ WF_avars(Recover)
===============================================================================
