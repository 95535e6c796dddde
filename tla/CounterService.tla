--------------------------- MODULE CounterService ---------------------------
(***************************************************************************)
(* What the write queue promises the callers of Database::increment: a     *)
(* single log of increments, each applied at most once, whatever the       *)
(* caller is told.  "ok" carries the position of the call in the log,      *)
(* "refused" and "failed" mean it is not in the log and never will be, and *)
(* "unknown" (the reply was lost, or the caller went away) promises        *)
(* nothing: the increment may be in the log, may enter it later, or never. *)
(***************************************************************************)
EXTENDS Integers, Sequences

CONSTANTS Caller,   \* the calls of Database::increment
          Saved     \* the counter's value when the log is empty

VARIABLES log,      \* the applied increments, oldest first
          outcome,  \* outcome[c]: what call c has been told so far
          answer    \* answer[c]: the counter value an "ok" carries

vars == <<log, outcome, answer>>

Applied(c) == \E i \in DOMAIN log : log[i] = c

Init ==
  /\ log = <<>>
  /\ outcome = [c \in Caller |-> "idle"]
  /\ answer = [c \in Caller |-> Saved]

Settle(c, from, to) ==
  /\ outcome[c] = from
  /\ outcome' = [outcome EXCEPT ![c] = to]

Submit(c) == Settle(c, "idle", "pending") /\ UNCHANGED <<log, answer>>

Refuse(c) == Settle(c, "idle", "refused") /\ UNCHANGED <<log, answer>>

\* A call whose caller has stopped waiting may still take effect.
Apply(c) ==
  /\ outcome[c] \in {"pending", "unknown"}
  /\ ~Applied(c)
  /\ log' = Append(log, c)
  /\ UNCHANGED <<outcome, answer>>

Acknowledge(c) ==
  /\ Settle(c, "pending", "ok")
  /\ \E i \in DOMAIN log : log[i] = c /\ answer' = [answer EXCEPT ![c] = Saved + i]
  /\ UNCHANGED log

Fail(c) ==
  /\ Settle(c, "pending", "failed")
  /\ ~Applied(c)
  /\ UNCHANGED <<log, answer>>

Abandon(c) == Settle(c, "pending", "unknown") /\ UNCHANGED <<log, answer>>

Next == \E c \in Caller :
  Submit(c) \/ Refuse(c) \/ Apply(c) \/ Acknowledge(c) \/ Fail(c) \/ Abandon(c)

Spec == Init /\ [][Next]_vars
=============================================================================
