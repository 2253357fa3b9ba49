---------------------------- MODULE JobLifecycle ----------------------------
(***************************************************************************)
(* What the queue and its workers promise each enqueued job, whatever the  *)
(* number of workers: attempts are made one at a time and counted from 1,  *)
(* an attempt that raises is followed by the next one, and only a job that *)
(* has used all of MaxAttempts is dead-lettered.  A job whose worker died  *)
(* stays "running" or "between" for ever.                                  *)
(***************************************************************************)
EXTENDS Naturals

CONSTANTS Jobs, MaxAttempts

VARIABLES phase,   \* where the job is
          tries    \* the numbers of the attempts made or waiting to be made

vars == <<phase, tries>>

Phase == {"new", "queued", "running", "between", "done", "dead"}

Init == phase = [j \in Jobs |-> "new"] /\ tries = [j \in Jobs |-> {}]

Move(j, from, to) == phase[j] = from /\ phase' = [phase EXCEPT ![j] = to]

Submit(j) == Move(j, "new", "queued") /\ tries' = [tries EXCEPT ![j] = {1}]

Start(j) == Move(j, "queued", "running") /\ UNCHANGED tries

Succeed(j) == Move(j, "running", "done") /\ UNCHANGED tries

Fail(j) == Move(j, "running", "between") /\ UNCHANGED tries

Retry(j) ==
  /\ Move(j, "between", "queued")
  /\ \E k \in 1..(MaxAttempts - 1) :
       tries[j] = 1..k /\ tries' = [tries EXCEPT ![j] = 1..(k + 1)]

GiveUp(j) ==
  /\ Move(j, "between", "dead")
  /\ tries[j] = 1..MaxAttempts
  /\ UNCHANGED tries

Next == \E j \in Jobs :
  Submit(j) \/ Start(j) \/ Succeed(j) \/ Fail(j) \/ Retry(j) \/ GiveUp(j)

Spec == Init /\ [][Next]_vars
=============================================================================
