-------------------------- MODULE MCDeferredScheduler --------------------------
(* Instances of the deferred scheduler for TLC. *)
EXTENDS DeferredScheduler, TLC

Interchangeable == Permutations(Payload)

\* Time passes only while the loop exports or waits with nothing ready to receive:
\* the machine is otherwise infinitely fast, and no lateness is the scheduler's.
NothingReady ==
  /\ Waiting /\ ~wake /\ ~(closeChClosed /\ ~armed)
  /\ loopPc = "timed" => now < timerAt
  /\ loopPc = "timed" /\ armed /\ DrainTimeout > 0 => now < drainAt

PromptSpec ==
  Init /\ [][Next /\ (now' # now => loopPc \in {"fire", "done"} \/ NothingReady)]_vars
================================================================================
