----------------------------- MODULE WriteQueue -----------------------------
(***************************************************************************)
(* src/database.rs: the bounded queue of increments, the single Writer     *)
(* task that owns the only writable SQLite connection, that connection's   *)
(* SQLite thread, and the pool of read-only connections.  A caller is one  *)
(* call of Database::increment.  Everything the writer does between two    *)
(* awaits is one action; every await is a point where callers, readers,    *)
(* the SQLite thread or an abort may get in between.                       *)
(***************************************************************************)
EXTENDS Integers, Sequences

CONSTANTS Caller,     \* the calls of Database::increment, one each
          Capacity,   \* capacity of the mpsc channel
          ReadSlots,  \* connections of the read-only pool
          Saved,      \* counter value found in the database file
          None        \* "no command is being executed"

ASSUME QueueAssumption ==
  /\ Capacity \in Nat \ {0}
  /\ ReadSlots \in Nat \ {0}
  /\ Saved \in Int
  /\ None \notin Caller

VARIABLES
  call,      \* call[c]: where the call is, as its caller sees it
  reply,     \* reply[c]: what became of the oneshot sender of c's Command
  value,     \* value[c]: the value sent with an Ok reply
  queue,     \* commands in the channel
  closed,    \* the channel's receiver was closed or dropped
  ready,     \* the AtomicBool behind /ready
  held,      \* somebody still owns a Database, hence a channel sender
  shutdown,  \* the writer's CancellationToken
  pc,        \* the await, or stretch between awaits, the writer is at
  current,   \* the command it executes
  result,    \* what process, and later run, returned
  commit,    \* what the SQLite thread made of the COMMIT it was sent
  written,   \* the value UPDATE ... RETURNING produced
  counter,   \* the committed value
  pool,      \* the read-only pool
  reading,   \* its connections in use
  accepted,  \* history: every admitted call, oldest first
  log        \* history: every committed call, oldest first

callers == <<call, reply, value>>
channel == <<queue, closed, accepted>>
flags   == <<ready, held, shutdown>>
writer  == <<pc, current, result, written>>
sqlite  == <<commit, counter, log>>
readers == <<pool, reading>>
vars    == <<callers, channel, flags, writer, sqlite, readers>>

Stopped == pc \in {"returned", "aborted"}
AdmitsOneFewer == ~closed /\ Len(queue) < Capacity - 1   \* mutant: off by one
Admits == ~closed /\ Len(queue) < Capacity
ReadyFlagOnly == ready   \* mutant: no is_closed check
Ready == ready /\ ~closed   \* what is_ready checks before it reads
Waiting(c) == call[c] = "waiting"
Logged(c) == \E i \in DOMAIN log : log[i] = c
Queued(c) == \E i \in DOMAIN queue : queue[i] = c

Init ==
  /\ call = [c \in Caller |-> "idle"]
  /\ reply = [c \in Caller |-> "unsent"]
  /\ value = [c \in Caller |-> Saved]
  /\ queue = <<>> /\ closed = FALSE
  /\ ready = TRUE /\ held = TRUE /\ shutdown = FALSE
  /\ pc = "select" /\ current = None /\ result = "none" /\ written = Saved
  /\ commit = "none" /\ counter = Saved
  /\ pool = "open" /\ reading = 0
  /\ accepted = <<>> /\ log = <<>>

-----------------------------------------------------------------------------
(* Callers, readers and whoever holds the capability.                      *)

Admit(c) ==
  /\ held /\ call[c] = "idle" /\ Admits
  /\ call' = [call EXCEPT ![c] = "waiting"]
  /\ queue' = Append(queue, c)
  /\ accepted' = Append(accepted, c)
  /\ UNCHANGED <<reply, value, closed, flags, writer, sqlite, readers>>

Reject(c) ==
  /\ held /\ call[c] = "idle" /\ ~Admits
  /\ call' = [call EXCEPT ![c] = "rejected"]
  /\ UNCHANGED <<reply, value, channel, flags, writer, sqlite, readers>>

ToldFailed(r) == IF r = "dropped" THEN "failed" ELSE r   \* mutant: a lost reply is a failure
Told(r) == IF r = "dropped" THEN "unknown" ELSE r

ReceiveReply(c) ==
  /\ Waiting(c) /\ reply[c] # "unsent"
  /\ call' = [call EXCEPT ![c] = Told(reply[c])]
  /\ UNCHANGED <<reply, value, channel, flags, writer, sqlite, readers>>

\* The caller's future is dropped: the client disconnected.
Disconnect(c) ==
  /\ Waiting(c)
  /\ call' = [call EXCEPT ![c] = "gone"]
  /\ UNCHANGED <<reply, value, channel, flags, writer, sqlite, readers>>

BeginRead ==
  /\ held /\ pool = "open" /\ reading < ReadSlots
  /\ reading' = reading + 1
  /\ UNCHANGED <<callers, channel, flags, writer, sqlite, pool>>

EndRead ==
  /\ reading > 0
  /\ reading' = reading - 1
  /\ UNCHANGED <<callers, channel, flags, writer, sqlite, pool>>

StopReadiness ==
  /\ held /\ ready' = FALSE
  /\ UNCHANGED <<callers, channel, held, shutdown, writer, sqlite, readers>>

RequestShutdown ==
  /\ shutdown' = TRUE
  /\ UNCHANGED <<callers, channel, ready, held, writer, sqlite, readers>>

ReleaseHandles ==
  /\ held' = FALSE
  /\ UNCHANGED <<callers, channel, ready, shutdown, writer, sqlite, readers>>

-----------------------------------------------------------------------------
(* Writer::process.                                                        *)

\* The select is biased: a cancelled token wins over a queued command.
Receive ==
  /\ pc = "drain" \/ (pc = "select" /\ ~shutdown)
  /\ queue # <<>>
  /\ current' = Head(queue) /\ queue' = Tail(queue)
  /\ pc' = "execute"
  /\ UNCHANGED <<callers, closed, accepted, flags, result, written, sqlite, readers>>

\* mutant: the channel is left open
SeeShutdownKeepsOpen ==
  /\ pc = "select" /\ shutdown /\ pc' = "drain"
  /\ UNCHANGED <<callers, channel, flags, current, result, written, sqlite, readers>>

SeeShutdown ==
  /\ pc = "select" /\ shutdown
  /\ closed' = TRUE /\ pc' = "drain"
  /\ UNCHANGED <<callers, queue, accepted, flags, current, result, written, sqlite, readers>>

\* recv gives None in the select loop: every Database was dropped.
ChannelGone ==
  /\ pc = "select" /\ ~shutdown /\ queue = <<>>
  /\ ~held /\ reading = 0 /\ \A c \in Caller : ~Waiting(c)
  /\ result' = "err" /\ pc' = "stop"
  /\ UNCHANGED <<callers, channel, flags, current, written, sqlite, readers>>

StopsUndrained == TRUE   \* mutant: queued commands are not awaited
ChannelEmpty == queue = <<>>

DrainDone ==
  /\ pc = "drain" /\ closed /\ ChannelEmpty
  /\ result' = "ok" /\ pc' = "stop"
  /\ UNCHANGED <<callers, channel, flags, current, written, sqlite, readers>>

\* BEGIN and UPDATE ... RETURNING succeed and COMMIT is on its way.
Update ==
  /\ pc = "execute"
  /\ written' = counter + 1
  /\ commit' = "sent" /\ pc' = "commit"
  /\ UNCHANGED <<callers, channel, flags, current, result, counter, log, readers>>

\* The SQLite thread runs COMMIT even if the writer was aborted meanwhile.
Land ==
  /\ commit = "sent"
  /\ commit' = "done" /\ counter' = written
  /\ log' = Append(log, current)
  /\ UNCHANGED <<callers, channel, flags, writer, readers>>

CommitFails ==
  /\ commit = "sent"
  /\ commit' = "failed"
  /\ UNCHANGED <<callers, channel, flags, writer, counter, log, readers>>

RepliesEarly == commit # "failed"   \* mutant: Ok is sent before COMMIT is answered
Committed == commit = "done"

\* Sending to a caller that is gone is not an error: the loop goes on.
Reply ==
  /\ pc = "commit" /\ Committed
  /\ reply' = [reply EXCEPT ![current] = "ok"]
  /\ value' = [value EXCEPT ![current] = written]
  /\ pc' = IF closed THEN "drain" ELSE "select"
  /\ current' = None /\ commit' = "none"
  /\ UNCHANGED <<call, channel, flags, result, written, counter, log, readers>>

\* BEGIN, UPDATE or COMMIT failed: execute replies, and process returns.
ReplyErrorServesOn ==   \* mutant: the loop goes on after a failed write
  /\ pc = "execute" \/ (pc = "commit" /\ commit = "failed")
  /\ reply' = [reply EXCEPT ![current] = "failed"]
  /\ pc' = IF closed THEN "drain" ELSE "select"
  /\ current' = None /\ commit' = "none"
  /\ UNCHANGED <<call, value, channel, flags, result, written, counter, log, readers>>

ReplyError ==
  /\ pc = "execute" \/ (pc = "commit" /\ commit = "failed")
  /\ reply' = [reply EXCEPT ![current] = "failed"]
  /\ result' = "err" /\ pc' = "stop"
  /\ current' = None /\ commit' = "none"
  /\ UNCHANGED <<call, value, channel, flags, written, counter, log, readers>>

-----------------------------------------------------------------------------
(* The rest of Writer::run.                                                *)

StopAdmission ==
  /\ pc = "stop"
  /\ ready' = FALSE /\ closed' = TRUE /\ pool' = "closing"
  /\ pc' = "closeReaders"
  /\ UNCHANGED <<callers, queue, accepted, held, shutdown, current, result, written, sqlite, reading>>

ReadersIgnored == TRUE   \* mutant: the pool is not waited for
ReadersIdle == reading = 0

CloseReaders ==
  /\ pc = "closeReaders" /\ ReadersIdle
  /\ pool' = "closed" /\ pc' = "closeConnection"
  /\ UNCHANGED <<callers, channel, flags, current, result, written, sqlite, reading>>

\* Dropping the receiver drops the reply senders of the commands in it.
KeepCommands(C) == reply' = reply   \* mutant: the commands outlive the receiver
DropCommands(C) == reply' = [c \in Caller |-> IF c \in C THEN "dropped" ELSE reply[c]]

CloseConnection ==
  /\ pc = "closeConnection"
  /\ result' \in {result, "err"} /\ pc' = "returned"
  /\ DropCommands({c \in Caller : Queued(c)})
  /\ queue' = <<>>
  /\ UNCHANGED <<call, value, closed, accepted, flags, current, written, sqlite, readers>>

\* JoinHandle::abort takes effect, or the task panics, at an await; "stop" has
\* none.  A COMMIT already sent stays with the SQLite thread.
Abort ==
  /\ pc \notin {"stop", "returned", "aborted"}
  /\ DropCommands({c \in Caller : Queued(c) \/ c = current})
  /\ queue' = <<>> /\ closed' = TRUE
  /\ pc' = "aborted" /\ result' = "err"
  /\ commit' = IF commit = "sent" THEN "sent" ELSE "none"
  /\ current' = IF commit = "sent" THEN current ELSE None
  /\ UNCHANGED <<call, value, accepted, flags, written, counter, log, readers>>

-----------------------------------------------------------------------------
Client(c) == Admit(c) \/ Reject(c) \/ ReceiveReply(c) \/ Disconnect(c)
Owner == StopReadiness \/ RequestShutdown \/ ReleaseHandles
Work == \/ Receive \/ SeeShutdown \/ ChannelGone \/ DrainDone \/ Update \/ Reply \/ ReplyError
        \/ StopAdmission \/ CloseReaders \/ CloseConnection
Storage == Land \/ CommitFails

Next ==
  \/ \E c \in Caller : Client(c)
  \/ BeginRead \/ EndRead
  \/ Owner \/ Work \/ Storage \/ Abort

Spec == Init /\ [][Next]_vars

\* The runtime polls woken tasks, and the SQLite thread answers what it is sent.
Fairness ==
  /\ WF_vars(Work) /\ WF_vars(Storage) /\ WF_vars(EndRead)
  /\ \A c \in Caller : WF_vars(ReceiveReply(c))

FairSpec == Spec /\ Fairness

-----------------------------------------------------------------------------
(* Properties.                                                             *)

CallState == {"idle", "waiting", "rejected", "ok", "failed", "unknown", "gone"}
ReplyState == {"unsent", "ok", "failed", "dropped"}

TypeOK ==
  /\ call \in [Caller -> CallState] /\ reply \in [Caller -> ReplyState]
  /\ value \in [Caller -> Int]
  /\ queue \in Seq(Caller) /\ Len(queue) <= Capacity
  /\ closed \in BOOLEAN /\ ready \in BOOLEAN /\ held \in BOOLEAN /\ shutdown \in BOOLEAN
  /\ pc \in {"select", "drain", "execute", "commit", "stop", "closeReaders",
             "closeConnection", "returned", "aborted"}
  /\ current \in Caller \cup {None}
  /\ result \in {"none", "ok", "err"}
  /\ commit \in {"none", "sent", "done", "failed"}
  /\ written \in Int /\ counter \in Int
  /\ pool \in {"open", "closing", "closed"}
  /\ reading \in 0 .. ReadSlots
  /\ accepted \in Seq(Caller) /\ log \in Seq(Caller)

\* Increments commit in the order they were admitted and none is skipped: a
\* write that fails ends the log, no later one is committed past it.
CommitsInAdmissionOrder ==
  /\ Len(log) <= Len(accepted)
  /\ \A i \in DOMAIN log : log[i] = accepted[i]

\* What a caller is told is true for good: Ok carries the position of its own
\* commit in the history, and a rejected or failed call is never committed.
AnswersMatchLog == \A c \in Caller :
  /\ call[c] = "ok" => \E i \in DOMAIN log : log[i] = c /\ value[c] = Saved + i
  /\ call[c] \in {"rejected", "failed"} => ~Logged(c)

\* run returns Ok only if every admitted call was committed and answered.
CleanStopRunsEverything ==
  pc = "returned" /\ result = "ok" =>
    /\ log = accepted
    /\ \A i \in DOMAIN accepted : reply[accepted[i]] = "ok"

\* Once the writer has stopped, however it did, no admitted call is left without an
\* answer, and only a COMMIT that was already on its way when the task was aborted
\* can still change the file: that of a call which was told "unknown".
StoppedIsQuiescent ==
  /\ Stopped => queue = <<>> /\ ~Admits /\ \A c \in Caller : Waiting(c) => reply[c] # "unsent"
  /\ Stopped /\ commit = "sent" => pc = "aborted" /\ reply[current] = "dropped"
  /\ pc = "returned" => reading = 0

\* The queue implements one atomic, at-most-once log of increments.
Outcome(c) == CASE call[c] = "waiting"  -> "pending"
                [] call[c] = "rejected" -> "refused"
                [] call[c] = "gone"     -> "unknown"
                [] OTHER                -> call[c]
Answer(c) == IF call[c] = "ok" THEN value[c] ELSE Saved

Service == INSTANCE CounterService WITH
  outcome <- [c \in Caller |-> Outcome(c)], answer <- [c \in Caller |-> Answer(c)]

ImplementsService == Service!Spec

\* Every call that is admitted is answered or given up, however the writer ends.
Answered == \A c \in Caller : Waiting(c) ~> ~Waiting(c)

\* A cancelled token stops the writer, queued commands and busy readers or not.
ShutdownCompletes == shutdown ~> Stopped

\* The comment at increment: an accepted write still executes.  (False: a write
\* that fails makes process return, and run drops what is still queued.)
AcceptedWritesExecute ==
  pc = "returned" => \A c \in Caller : call[c] = "unknown" => Logged(c)
=============================================================================
