---------------------------- MODULE DirectRound ----------------------------
(***************************************************************************)
(* contention.rs, direct: connections of their own, without a busy         *)
(* timeout, run increment_connection on one disposable database at once.   *)
(* The transaction is deferred: BEGIN takes nothing, UPDATE takes a read   *)
(* snapshot and then asks for the write lock, and SQLite refuses with BUSY *)
(* when another connection holds the lock and with BUSY_SNAPSHOT when the  *)
(* snapshot is no longer the newest.  The lock is held over the sleep      *)
(* until COMMIT.                                                           *)
(***************************************************************************)
EXTENDS Integers, FiniteSets

CONSTANTS Writer,   \* the connections, one task each
          None      \* "nobody holds the write lock"

ASSUME DirectAssumption == IsFiniteSet(Writer) /\ Writer # {} /\ None \notin Writer

VARIABLES
  step,     \* where each task is
  seen,     \* the counter in the snapshot its UPDATE read
  code,     \* the SQLite result code of its transaction
  lock,     \* the connection that holds the write lock
  counter,  \* the committed value
  round,    \* what direct has made of it
  final     \* the value the observer read

vars == <<step, seen, code, lock, counter, round, final>>

OK == 0
BUSY == 5
IOERR == 10
BUSY_SNAPSHOT == 5 + 2 * 256

Committed == {w \in Writer : step[w] = "committed"}
Running == round = "running"
Value(w) == seen[w] + 1   \* what UPDATE ... RETURNING gives

Init ==
  /\ step = [w \in Writer |-> "spawned"]
  /\ seen = [w \in Writer |-> 0] /\ code = [w \in Writer |-> OK]
  /\ lock = None /\ counter = 0
  /\ round = "running" /\ final = 0

-----------------------------------------------------------------------------
Goto(w, from, to) == Running /\ step[w] = from /\ step' = [step EXCEPT ![w] = to]

Arrive(w) ==
  /\ Goto(w, "spawned", "arrived")
  /\ UNCHANGED <<seen, code, lock, counter, round, final>>

\* The barrier lets the tasks go when the last one has arrived.
Begin(w) ==
  /\ Goto(w, "arrived", "begun") /\ \A v \in Writer : step[v] # "spawned"
  /\ UNCHANGED <<seen, code, lock, counter, round, final>>

Read(w) ==
  /\ Goto(w, "begun", "read")
  /\ seen' = [seen EXCEPT ![w] = counter]
  /\ UNCHANGED <<code, lock, counter, round, final>>

Fresh(w) == seen[w] = counter

\* mutant: the value is read in one transaction and written in the next
LockUnversioned(w) ==
  /\ Goto(w, "read", "holding") /\ lock = None
  /\ lock' = w
  /\ UNCHANGED <<seen, code, counter, round, final>>

Lock(w) ==
  /\ Goto(w, "read", "holding") /\ lock = None /\ Fresh(w)
  /\ lock' = w
  /\ UNCHANGED <<seen, code, counter, round, final>>

Refuse(w) ==
  /\ Goto(w, "read", "failed") /\ (lock # None \/ ~Fresh(w))
  /\ code' = [code EXCEPT ![w] = IF lock # None THEN BUSY ELSE BUSY_SNAPSHOT]
  /\ UNCHANGED <<seen, lock, counter, round, final>>

Commit(w) ==
  /\ Goto(w, "holding", "committed")
  /\ lock' = None /\ counter' = Value(w)
  /\ UNCHANGED <<seen, code, round, final>>

Release(w) == IF lock = w THEN None ELSE lock

\* Any other error: of BEGIN, UPDATE or COMMIT, which rolls back, or of close.
Break(w) ==
  /\ Running /\ step[w] \notin {"spawned", "arrived", "broken"}
  /\ step' = [step EXCEPT ![w] = "failed"]
  /\ code' = [code EXCEPT ![w] = IOERR]
  /\ lock' = Release(w)
  /\ UNCHANGED <<seen, counter, round, final>>

AnyBusy(c) == TRUE       \* mutant: every error counts as contention
PlainBusy(c) == c = BUSY   \* mutant: extended codes are experiment errors
IsBusy(c) == c % 256 = BUSY

\* Request::record
Record(w) ==
  /\ Goto(w, "failed", IF IsBusy(code[w]) THEN "busy" ELSE "broken")
  /\ UNCHANGED <<seen, code, lock, counter, round, final>>

\* mutant: an error is not noticed until nobody is left
GiveUpLast ==
  /\ Running /\ \A w \in Writer : step[w] = "broken"
  /\ round' = "failed"
  /\ UNCHANGED <<step, seen, code, lock, counter, final>>

\* collect gives up at the first error and aborts the other tasks.
GiveUp ==
  /\ Running /\ \E w \in Writer : step[w] = "broken"
  /\ round' = "failed"
  /\ UNCHANGED <<step, seen, code, lock, counter, final>>

AllDone == \A w \in Writer : step[w] \in {"committed", "busy"}

Report ==
  /\ Running /\ AllDone
  /\ final' = counter /\ round' = "done"
  /\ UNCHANGED <<step, seen, code, lock, counter>>

-----------------------------------------------------------------------------
Task(w) == Arrive(w) \/ Begin(w) \/ Read(w) \/ Lock(w) \/ Refuse(w) \/ Commit(w) \/ Record(w)

Next == (\E w \in Writer : Task(w) \/ Break(w)) \/ GiveUp \/ Report

Spec == Init /\ [][Next]_vars

\* The runtime polls every task and SQLite answers it; nothing has to break.
Fairness == (\A w \in Writer : WF_vars(Task(w))) /\ WF_vars(GiveUp \/ Report)

FairSpec == Spec /\ Fairness

-----------------------------------------------------------------------------
(* Properties.                                                             *)

TypeOK ==
  /\ step \in [Writer -> {"spawned", "arrived", "begun", "read", "holding", "committed",
                          "failed", "busy", "broken"}]
  /\ seen \in [Writer -> Int] /\ code \in [Writer -> {OK, BUSY, IOERR, BUSY_SNAPSHOT}]
  /\ lock \in Writer \cup {None}
  /\ lock # None => step[lock] = "holding"
  /\ \A w \in Writer : step[w] = "holding" => lock = w
  /\ counter \in Int /\ final \in Int
  /\ round \in {"running", "done", "failed"}

\* The round loses no update: the connections that committed were given the
\* values 1, 2, ..., one each, and the observer reads how many they are.
ReportIsTrue ==
  round = "done" =>
    /\ final = Cardinality(Committed)
    /\ {Value(w) : w \in Committed} = 1 .. final

\* A commit is of the newest snapshot and counts exactly one more, in a round that
\* breaks as well; nothing else moves the counter.
EveryCommitCounts ==
  [][IF \E w \in Writer : step[w] = "holding" /\ step'[w] = "committed"
     THEN counter' = counter + 1
     ELSE counter' = counter]_vars

\* Contention alone neither stops everybody nor fails the round: somebody commits,
\* with all others refused, unless something else than contention went wrong.
ContentionIsNoError ==
  /\ round = "done" => Committed # {}
  /\ round = "failed" => \E w \in Writer : code[w] = IOERR

\* The round ends.
RoundEnds == Running ~> ~Running
=============================================================================
