--------------------------- MODULE ContentionLab ---------------------------
(***************************************************************************)
(* POST /contention: routes.rs admits one experiment at a time and drops   *)
(* it after ten seconds or when its client leaves; contention.rs runs the  *)
(* direct round (DirectRound's subject, one step here) and then the queued *)
(* one, in which as many tasks as the queue has places call increment on a *)
(* write queue of their own.  The writer is not a task: it is polled with  *)
(* the collection of the answers, and dropped with it.  The callers are    *)
(* tasks: dropping their JoinSet aborts them at their next await.          *)
(***************************************************************************)
EXTENDS WriteQueue, FiniteSets

CONSTANT Post   \* the requests to POST /contention

ASSUME LabAssumption == IsFiniteSet(Caller) /\ Capacity = Cardinality(Caller)

VARIABLES
  permits,  \* the semaphore
  post,     \* post[p]: what became of the request
  stage,    \* the experiment that runs, or ran last
  final     \* the counter it read at the end

lab == <<permits, post, stage, final>>
labVars == <<vars, lab>>

Running(p) == post[p] = "running"
Active == stage \in {"direct", "queued", "counted"}

LabInit ==
  /\ Init
  /\ permits = 1 /\ post = [p \in Post |-> "idle"]
  /\ stage = "none" /\ final = Saved

-----------------------------------------------------------------------------
(* run_contention.                                                         *)

Acquire(p) ==
  /\ post[p] = "idle" /\ permits > 0
  /\ permits' = permits - 1
  /\ post' = [post EXCEPT ![p] = "running"]
  /\ stage' = "direct"
  /\ UNCHANGED <<vars, final>>

TurnAway(p) ==
  /\ post[p] = "idle" /\ permits = 0
  /\ post' = [post EXCEPT ![p] = "busy"]
  /\ UNCHANGED <<vars, permits, stage, final>>

\* mutant: the writer is a task of its own
DropDetached == UNCHANGED vars

\* Dropping the experiment drops the writer, wherever it awaits.
Drop == IF stage = "direct" \/ Stopped THEN UNCHANGED vars ELSE Abort

ReleaseNothing == permits   \* mutant: the permit is never returned
Release == permits + 1

Finish(response) ==
  /\ Drop
  /\ \E p \in Post : Running(p) /\ post' = [post EXCEPT ![p] = response]
  /\ permits' = Release
  /\ stage' = IF stage = "direct" THEN "none" ELSE "ended"
  /\ UNCHANGED final

TimeOutDirect == stage = "direct" /\ Finish("timeout")   \* mutant: the queued round has no limit
TimeOut == Active /\ Finish("timeout")
ClientLeaves == Active /\ Finish("gone")

-----------------------------------------------------------------------------
(* The experiment.                                                         *)

DirectFails == stage = "direct" /\ Finish("error")

\* A new file in a new directory: nothing of an earlier experiment is in it.
Open ==
  /\ stage = "direct" /\ stage' = "queued"
  /\ call' = [c \in Caller |-> "idle"] /\ reply' = [c \in Caller |-> "unsent"]
  /\ value' = [c \in Caller |-> Saved]
  /\ queue' = <<>> /\ closed' = FALSE /\ accepted' = <<>>
  /\ ready' = TRUE /\ held' = TRUE /\ shutdown' = FALSE
  /\ pc' = "select" /\ current' = None /\ result' = "none" /\ written' = Saved
  /\ commit' = "none" /\ counter' = Saved /\ log' = <<>>
  /\ pool' = "open" /\ reading' = 0
  /\ UNCHANGED <<permits, post, final>>

\* A caller's task; once the experiment is dropped it may get this far still.
Call(c) ==
  /\ stage \in {"queued", "ended"}
  /\ Admit(c) \/ Reject(c) \/ ReceiveReply(c) \/ (stage = "ended" /\ Disconnect(c))
  /\ UNCHANGED lab

PollWriter == stage \in {"queued", "counted"} /\ Work /\ UNCHANGED lab
SqliteThread == Storage /\ UNCHANGED lab

SomeAnswered == \E c \in Caller : call[c] = "ok"   \* mutant: the first answer is enough
AllAnswered == \A c \in Caller : call[c] = "ok"

\* Every answer is in: read the counter, then let the writer go.
Collect ==
  /\ stage = "queued" /\ AllAnswered
  /\ final' = counter /\ shutdown' = TRUE /\ stage' = "counted"
  /\ UNCHANGED <<callers, channel, ready, held, writer, sqlite, readers, permits, post>>

\* A caller's error, or that of the final read, ends the experiment at once.
CollectFails ==
  /\ stage = "queued"
  /\ AllAnswered \/ \E c \in Caller : call[c] \in {"rejected", "failed", "unknown"}
  /\ Finish("error")

WriterFails ==
  /\ stage \in {"queued", "counted"} /\ pc = "returned" /\ result = "err"
  /\ Finish("error")

Report == stage = "counted" /\ pc = "returned" /\ result = "ok" /\ Finish("ok")

-----------------------------------------------------------------------------
LabNext ==
  \/ \E p \in Post : Acquire(p) \/ TurnAway(p)
  \/ \E c \in Caller : Call(c)
  \/ DirectFails \/ Open \/ PollWriter \/ SqliteThread \/ Collect
  \/ CollectFails \/ WriterFails \/ Report \/ TimeOut \/ ClientLeaves

LabSpec == LabInit /\ [][LabNext]_labVars

\* The timer fires and the handler is polled; "stop" is the one stretch of the
\* writer in which it is not waiting.
LabFairness == WF_labVars(TimeOut) /\ WF_labVars(PollWriter /\ pc = "stop")

LabFairSpec == LabSpec /\ LabFairness

-----------------------------------------------------------------------------
(* Properties.                                                             *)

LabTypeOK ==
  /\ TypeOK
  /\ post \in [Post -> {"idle", "running", "busy", "ok", "error", "timeout", "gone"}]
  /\ stage \in {"none", "direct", "queued", "counted", "ended"} /\ final \in Int
  /\ permits \in {0, 1}
  /\ permits = 0 <=> Active
  /\ Active <=> \E p \in Post : Running(p)

\* A report is complete: everybody's increment is committed, with the values that
\* follow each other, the counter read is the last one and the file is closed.
ReportIsComplete ==
  [][\A p \in Post : Running(p) /\ post'[p] = "ok" =>
       /\ {log[i] : i \in DOMAIN log} = Caller
       /\ {value[c] : c \in Caller} = Saved + 1 .. final
       /\ final = Saved + Cardinality(Caller) /\ counter = final
       /\ pool = "closed" /\ commit = "none"]_labVars

\* When the handler is gone its experiment has no writer, admits nothing and leaves
\* no caller waiting for an answer, so that the next one starts alone.
NothingOutlivesHandler ==
  stage = "ended" =>
    /\ Stopped /\ ~Admits
    /\ \A c \in Caller : Waiting(c) => reply[c] # "unsent"

\* The queue has a place for everybody: a refusal can only mean that it closed.
QueueFits ==
  [][\A c \in Caller : call[c] = "idle" /\ call'[c] = "rejected" => closed]_labVars

\* Every request is answered or given up, and its permit comes back for the next one.
EveryPostAnswered == \A p \in Post : Running(p) ~> ~Running(p) /\ permits > 0
=============================================================================
