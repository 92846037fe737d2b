---------------------------- MODULE MCAsyncTraining ----------------------------
(* Small instances of AsyncTraining for TLC. *)
EXTENDS AsyncTraining

Conf(partial, required, triggerStep, maxRequired, concurrent) ==
  [partial |-> partial, required |-> required, triggerStep |-> triggerStep,
   maxRequired |-> maxRequired, concurrent |-> concurrent, testFreq |-> 1]

Tight == Conf(FALSE, 1, 1, 1, 1)
TwoSteps == Conf(FALSE, 1, 2, 2, 1)
Slack == Conf(FALSE, 2, 1, 3, 1)
Interrupted == Conf(TRUE, 2, 1, 2, 2)

Streamed == {Tight, TwoSteps, Conf(FALSE, 2, 1, 3, 2), Interrupted, Conf(TRUE, 3, 1, 5, 1)}
Bounded == {Tight, TwoSteps, Slack, Conf(FALSE, 3, 1, 6, 1), Conf(FALSE, 2, 1, 2, 2),
            Interrupted, Conf(TRUE, 3, 1, 4, 1)}
RaceOnly == {Conf(FALSE, 1, 1, 3, 1)}
LostOnly == {Conf(TRUE, 1, 1, 3, 1)}
===============================================================================
