----------------------------- MODULE Lifecycle -----------------------------
(***************************************************************************)
(* What one application promises those who run it, entrypoint.sh and       *)
(* Litestream: increments are committed only between the moment it begins  *)
(* to serve and its exit, it exits with success only when it was asked to  *)
(* stop, and never once something has failed.  It may be killed and begin  *)
(* anew at any time.  Application, in which the queue, the tasks and the   *)
(* deadline are, keeps this; Durability relies on it.                      *)
(***************************************************************************)
EXTENDS Integers

VARIABLES phase,      \* where the application is
          requested,  \* it was asked to stop
          commits     \* increments committed, of earlier applications included

vars == <<phase, requested, commits>>

Init == phase \in {"down", "starting"} /\ requested = FALSE /\ commits = 0

Go(from, to) == phase \in from /\ phase' \in to /\ UNCHANGED <<requested, commits>>

Kill == phase' = "down" /\ UNCHANGED <<requested, commits>>

Start ==
  /\ phase = "down" /\ phase' = "starting" /\ requested' = FALSE
  /\ UNCHANGED commits

Request ==
  /\ phase # "down" /\ ~requested /\ requested' = TRUE
  /\ UNCHANGED <<phase, commits>>

Open == ~requested /\ Go({"starting"}, {"preparing", "err"})

\* Asked to stop before it serves, it ends well unless the database does not close.
Withdraw == requested /\ Go({"starting", "preparing"}, {"ok"})
PrepareFails == Go({"preparing"}, {"err"})

Serve == ~requested /\ Go({"preparing"}, {"serving"})

Commit ==
  /\ phase \in {"serving", "draining", "failing"} /\ commits' = commits + 1
  /\ UNCHANGED <<phase, requested>>

Drain == requested /\ Go({"serving"}, {"draining"})
Fail == Go({"serving", "draining"}, {"failing"})

ExitOk == Go({"draining"}, {"ok"})
ExitErr == Go({"draining", "failing"}, {"err"})

Next == Kill \/ Start \/ Request \/ Open \/ Withdraw \/ PrepareFails
        \/ Serve \/ Commit \/ Drain \/ Fail \/ ExitOk \/ ExitErr

Spec == Init /\ [][Next]_vars
=============================================================================
