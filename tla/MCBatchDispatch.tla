---------------------------- MODULE MCBatchDispatch ----------------------------
(* Small instances of BatchDispatch for TLC. *)
EXTENDS BatchDispatch

Batch(prompts, n, labeled, sp, maxToken, lengths) ==
  [prompts |-> prompts, n |-> n, labeled |-> labeled, world |-> 2, sp |-> sp, maxToken |-> maxToken,
   lens |-> [1..prompts * n -> lengths]]

\* Two workers.  Six rows of three lengths, the first of the middle one; six prompts of
\* one response, one of which may be left out; eight rows; and both workers in one
\* sequence-parallel group, where a row may be longer than one worker's share of the tokens.
SixRows == Batch(3, 2, {1, 2}, 1, 6144, {1024, 4096, 6144})

All == {[SixRows EXCEPT !.lens = {l \in @ : l[1] = 4096}],
        Batch(6, 1, {1, 2, 3, 4, 5}, 1, 8192, {1024, 6144}),
        Batch(2, 4, {1, 2}, 1, 6144, {2048, 5120}),
        Batch(2, 3, {1}, 2, 5120, {2048, 6144})}
===============================================================================
