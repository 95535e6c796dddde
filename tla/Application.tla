---------------------------- MODULE Application ----------------------------
(***************************************************************************)
(* src/startup.rs: the process around the write queue.  The supervisor     *)
(* (Application::build, then ApplicationRuntime) opens the database and    *)
(* spawns the writer, waits for the replication barrier, binds and spawns  *)
(* the HTTP task, and drains HTTP before the writer when it is told to     *)
(* stop or when a task stops by itself.  Every step of the writer, of the  *)
(* callers and of the readers is the one of WriteQueue; this module says   *)
(* when the process lets it happen.                                        *)
(*                                                                         *)
(* A connection is one POST /counter, so a handler runs from Connect       *)
(* until its call is over.  axum serves each connection in a task of its   *)
(* own: these tasks outlive the HTTP task when that one is aborted.  The   *)
(* pages, GET /counter and GET /ready have handlers too: of those that     *)
(* read the database only the number is kept; /ready is probed by one      *)
(* client at a time, as a kubelet does.                                    *)
(***************************************************************************)
EXTENDS WriteQueue

VARIABLES
  requested,   \* the token the signal task cancels
  cancel,      \* the token HTTP drains on
  sup,         \* where the supervisor is
  http,        \* the HTTP task
  httpKept,    \* runtime.http is Some
  writerKept,  \* runtime.writer is Some
  connected,   \* connections the HTTP task has accepted
  probe,       \* where the handler of GET /ready is, or what it answered last
  expired,     \* the shutdown deadline passed and the tasks were aborted
  failure,     \* the error first_failure would return
  exit         \* how the process ended

process == <<requested, cancel, sup, http, httpKept, writerKept, connected, probe, expired, failure,
             exit>>
appVars == <<vars, process>>

Handling == {c \in connected : call[c] \in {"idle", "waiting"}}
Asking == probe \in {"asked", "reading"}
ProbeReads == IF probe = "reading" THEN 1 ELSE 0   \* its share of the connections
CallsDone == Handling = {}   \* mutant: a handler that reads is not waited for
HandlersDone == Handling = {} /\ reading = 0 /\ ~Asking
HttpStopped == http \in {"ok", "failed"}
Alive == sup \notin {"start", "exited"}

AppInit ==
  /\ Init
  /\ requested = FALSE /\ cancel = FALSE
  /\ sup = "start" /\ http = "none"
  /\ httpKept = FALSE /\ writerKept = FALSE
  /\ connected = {} /\ probe = "none" /\ expired = FALSE /\ failure = FALSE
  /\ exit = "none"

-----------------------------------------------------------------------------
(* The outside world: a termination signal, clients, tasks that die.       *)

Signal ==
  /\ sup # "exited" /\ ~requested
  /\ requested' = TRUE
  /\ UNCHANGED <<vars, cancel, sup, http, httpKept, writerKept, connected, probe, expired, failure, exit>>

Connect(c) ==
  /\ http = "serving" /\ sup # "exited" /\ c \notin connected
  /\ connected' = connected \cup {c}
  /\ UNCHANGED <<vars, requested, cancel, sup, http, httpKept, writerKept, probe, expired, failure, exit>>

\* The client leaves before its handler has called increment.
HangUp(c) ==
  /\ sup # "exited" /\ c \in connected /\ call[c] = "idle"
  /\ connected' = connected \ {c}
  /\ UNCHANGED <<vars, requested, cancel, sup, http, httpKept, writerKept, probe, expired, failure, exit>>

Handle(c) == Alive /\ c \in connected /\ Client(c) /\ UNCHANGED process

\* The handlers of the pages and of GET /counter read through the pool.
Handlers == Alive /\ http \notin {"none", "ok"}
ReadHandler ==
  /\ Handlers
  /\ BeginRead \/ (reading > ProbeReads /\ EndRead)
  /\ UNCHANGED process

\* GET /ready looks at the flag and the channel, awaits a connection and the read of
\* the counter, and then answers.
ProbeTo(to) ==
  /\ Handlers /\ probe' = to
  /\ UNCHANGED <<requested, cancel, sup, http, httpKept, writerKept, connected, expired, failure, exit>>

Probe == ~Asking /\ ProbeTo(IF Ready THEN "asked" ELSE "refused") /\ UNCHANGED vars
ProbeBegins == probe = "asked" /\ BeginRead /\ ProbeTo("reading")
ProbeAnswers == probe = "reading" /\ EndRead /\ ProbeTo("ready")

\* The pool is closed or has no connection in time, the read fails, or the client
\* hangs up.
ProbeFails ==
  /\ Asking /\ ProbeTo("refused")
  /\ IF probe = "reading" THEN EndRead ELSE UNCHANGED vars

ProbeHandler == Probe \/ ProbeBegins \/ ProbeAnswers \/ ProbeFails

HttpStep(next) ==
  /\ sup # "exited" /\ http' = next
  /\ UNCHANGED <<vars, requested, cancel, sup, httpKept, writerKept, connected, probe, expired, failure, exit>>

HttpDrains == http = "serving" /\ cancel /\ HttpStep("draining")
HttpDrained == http = "draining" /\ HandlersDone /\ HttpStep("ok")

\* The task panics or is aborted; expiry asks for that.
HttpDies == http \in {"serving", "draining"} /\ HttpStep("failed")

WriterStep == Alive /\ Work /\ UNCHANGED process
StorageStep == Alive /\ Storage /\ UNCHANGED process
WriterDies == Alive /\ Abort /\ UNCHANGED process

-----------------------------------------------------------------------------
(* Application::build.                                                     *)

ExitClean(failed) == sup' = "exited" /\ failure' = failed /\ exit' = "ok"   \* mutant
Exit(failed) ==
  /\ sup' = "exited" /\ failure' = failed
  /\ exit' = IF failed THEN "err" ELSE "ok"

Build ==
  /\ sup = "start" /\ ~requested
  /\ \/ sup' = "prepare" /\ writerKept' = TRUE /\ UNCHANGED <<failure, exit>>
     \/ Exit(TRUE) /\ UNCHANGED writerKept          \* Database::open failed
  /\ UNCHANGED <<vars, requested, cancel, http, httpKept, connected, probe, expired>>

StopBeforeOpen ==
  /\ sup = "start" /\ requested /\ Exit(FALSE)
  /\ UNCHANGED <<vars, requested, cancel, http, httpKept, writerKept, connected, probe, expired>>

\* The barrier passed, the listener is bound and nobody asked to stop.
Serve ==
  /\ sup = "prepare" /\ ~requested /\ ~Stopped
  /\ sup' = "running" /\ http' = "serving" /\ httpKept' = TRUE
  /\ UNCHANGED <<vars, requested, cancel, writerKept, connected, probe, expired, failure, exit>>

-----------------------------------------------------------------------------
(* ApplicationRuntime::run_until_stop and shutdown.                        *)

\* stop_readiness, cancel the HTTP token, start the deadline.
BeginShutdownClosing(from, failed) ==   \* mutant: the channel is closed at once
  /\ sup = from /\ sup' = "drainHttp"
  /\ ready' = FALSE /\ cancel' = TRUE /\ failure' = failed /\ closed' = TRUE
  /\ UNCHANGED <<callers, queue, accepted, held, shutdown, writer, sqlite, readers>>
  /\ UNCHANGED <<requested, http, connected, probe, expired, exit>>

BeginShutdown(from, failed) ==
  /\ sup = from /\ sup' = "drainHttp"
  /\ ready' = FALSE /\ cancel' = TRUE /\ failure' = failed
  /\ UNCHANGED <<callers, channel, held, shutdown, writer, sqlite, readers>>
  /\ UNCHANGED <<requested, http, connected, probe, expired, exit>>

\* The selects are biased: the request first, then the tasks in this order.
StopRequested ==
  /\ requested
  /\ BeginShutdown("prepare", FALSE) \/ BeginShutdown("running", FALSE)
  /\ UNCHANGED <<httpKept, writerKept>>

PrepareFails ==
  /\ ~requested /\ ~Stopped /\ BeginShutdown("prepare", TRUE)
  /\ UNCHANGED <<httpKept, writerKept>>

HttpLost ==
  /\ ~requested /\ HttpStopped /\ BeginShutdown("running", TRUE)
  /\ httpKept' = FALSE /\ UNCHANGED writerKept

WriterLostIgnored ==   \* mutant: only the build watches the writer
  /\ ~requested /\ Stopped /\ BeginShutdown("prepare", TRUE)
  /\ writerKept' = FALSE /\ UNCHANGED httpKept

WriterLost ==
  /\ ~requested /\ Stopped
  /\ BeginShutdown("prepare", TRUE) \/ (~HttpStopped /\ BeginShutdown("running", TRUE))
  /\ writerKept' = FALSE /\ UNCHANGED httpKept

\* drain: only when the HTTP task is over is the writer told to stop.
TaskIgnored == TRUE   \* mutant: the task is not awaited
HttpJoined == httpKept => HttpStopped

TellWriter ==
  /\ sup = "drainHttp" /\ HttpJoined
  /\ sup' = "drainWriter" /\ shutdown' = TRUE /\ httpKept' = FALSE
  /\ failure' = (failure \/ (httpKept /\ http = "failed"))
  /\ UNCHANGED <<callers, channel, ready, held, writer, sqlite, readers>>
  /\ UNCHANGED <<requested, cancel, http, writerKept, connected, probe, expired, exit>>

WriterJoined == writerKept => Stopped

FinishDrain ==
  /\ sup = "drainWriter" /\ WriterJoined
  /\ Exit(failure \/ (writerKept /\ result = "err"))
  /\ writerKept' = FALSE
  /\ UNCHANGED <<vars, requested, cancel, http, httpKept, connected, probe, expired>>

ExpireOnHttp ==   \* mutant: the deadline covers the HTTP drain only
  /\ sup = "drainHttp"
  /\ sup' = "abortWait" /\ shutdown' = TRUE /\ expired' = TRUE
  /\ UNCHANGED <<callers, channel, ready, held, writer, sqlite, readers>>
  /\ UNCHANGED <<requested, cancel, http, httpKept, writerKept, connected, probe, failure, exit>>

\* The deadline may fire at any await of the drain.
Expire ==
  /\ sup \in {"drainHttp", "drainWriter"}
  /\ sup' = "abortWait" /\ shutdown' = TRUE /\ expired' = TRUE
  /\ UNCHANGED <<callers, channel, ready, held, writer, sqlite, readers>>
  /\ UNCHANGED <<requested, cancel, http, httpKept, writerKept, connected, probe, failure, exit>>

Aborted ==
  /\ sup = "abortWait" /\ HttpJoined /\ WriterJoined
  /\ Exit(TRUE)
  /\ httpKept' = FALSE /\ writerKept' = FALSE
  /\ UNCHANGED <<vars, requested, cancel, http, connected, probe, expired>>

-----------------------------------------------------------------------------
Supervise == \/ Build \/ StopBeforeOpen \/ Serve
             \/ StopRequested \/ PrepareFails \/ HttpLost \/ WriterLost
             \/ TellWriter \/ FinishDrain \/ Aborted

AppNext ==
  \/ Signal \/ HttpDrains \/ HttpDrained \/ HttpDies
  \/ \E c \in Caller : Connect(c) \/ HangUp(c) \/ Handle(c)
  \/ ReadHandler \/ ProbeHandler \/ WriterStep \/ StorageStep \/ WriterDies
  \/ Supervise \/ Expire

AppSpec == AppInit /\ [][AppNext]_appVars

\* The supervisor and the writer are polled and the deadline fires.  Nothing is
\* assumed of clients, of handlers or of the SQLite thread: an abort, once asked
\* for, takes effect at the task's next await, and "stop" is the one stretch of
\* the writer without one.
AppFairness ==
  /\ WF_appVars(Supervise) /\ WF_appVars(Expire)
  /\ WF_appVars(expired /\ HttpDies) /\ WF_appVars(expired /\ WriterDies)
  /\ WF_appVars(WriterStep /\ pc = "stop")

AppFairSpec == AppSpec /\ AppFairness

-----------------------------------------------------------------------------
(* Properties.                                                             *)

AppTypeOK ==
  /\ TypeOK
  /\ requested \in BOOLEAN /\ cancel \in BOOLEAN
  /\ sup \in {"start", "prepare", "running", "drainHttp", "drainWriter", "abortWait", "exited"}
  /\ http \in {"none", "serving", "draining", "ok", "failed"}
  /\ httpKept \in BOOLEAN /\ writerKept \in BOOLEAN
  /\ connected \in SUBSET Caller
  /\ probe \in {"none", "asked", "reading", "ready", "refused"}
  /\ ProbeReads <= reading
  /\ expired \in BOOLEAN /\ failure \in BOOLEAN
  /\ exit \in {"none", "ok", "err"}

\* The process reports success only if it was asked to stop and lost nothing: every
\* handler finished, every admitted increment is committed and its caller, if it did
\* not leave, was told so, and the database's connections are closed if it was opened.
CleanExitLosesNothing ==
  exit = "ok" =>
    /\ requested /\ http \in {"none", "ok"}
    /\ Handling = {} /\ reading = 0 /\ ~Asking /\ log = accepted
    /\ \A c \in Caller : call[c] \in {"idle", "rejected"} \/ (call[c] \in {"ok", "gone"} /\ Logged(c))
    /\ shutdown => pc = "returned" /\ result = "ok" /\ pool = "closed"

\* The writer is told to stop only after every handler has finished, unless the
\* deadline passed or the HTTP task was lost.
WriterToldLast ==
  shutdown /\ ~expired /\ http # "failed" => Handling = {} /\ reading = 0 /\ ~Asking

\* Neither of the two tasks that the supervisor owns, HTTP and the writer, runs when
\* it is done.  Connections of an aborted HTTP task may: they are tasks of their own.
NothingOutlivesExit ==
  sup = "exited" =>
    /\ ~httpKept /\ ~writerKept
    /\ http \notin {"serving", "draining"}
    /\ shutdown => Stopped

\* A handler that is already running may find the queue full while the process
\* drains, but never closed: an orderly shutdown refuses no request it accepted.
DrainKeepsAdmitting ==
  [][\A c \in Caller :
       call[c] = "idle" /\ call'[c] = "rejected" =>
         \/ Len(queue) = Capacity
         \/ expired \/ http = "failed" \/ result = "err"]_appVars

\* What /ready is worth, although everything may change while it reads.  Only a probe
\* that was under way when the writer stopped, aborted or not, can still vouch for it,
\* and none vouches once the writer closes its connection.  A probe is turned away
\* without a read, the only other way to refuse, only if a shutdown began or the
\* writer is on its way out: a full queue and a slow write do not count.
ReadinessTruthful ==
  [][/\ Stopped /\ ~Asking => ~Asking' /\ (probe' = "ready" => probe = "ready")
     /\ Asking /\ probe' = "ready" => pc \notin {"closeConnection", "returned"}
     /\ ~Asking /\ probe' = "refused" /\ probe # "refused" => cancel \/ result # "none"]_appVars

\* Inside the process the write queue keeps its own specification.
ImplementsQueue == Spec

\* The process implements the lifecycle its container relies on.  A shutdown during
\* startup has nothing to drain: to the outside it is still preparing.
Phase == CASE sup = "start"   -> "starting"
           [] sup = "exited"  -> exit
           [] sup = "prepare" -> "preparing"
           [] sup = "running" -> "serving"
           [] sup \in {"drainHttp", "drainWriter", "abortWait"} ->
                IF http = "none" THEN "preparing"
                ELSE IF failure \/ expired THEN "failing" ELSE "draining"

Life == INSTANCE Lifecycle WITH phase <- Phase, commits <- Len(log)
ImplementsLifecycle == Life!Spec

\* A request to stop ends the process, and so does the loss of the writer, even
\* if clients stay connected and the SQLite thread never answers.
EndsWhenItMust == (requested \/ Stopped) ~> sup = "exited"
=============================================================================
