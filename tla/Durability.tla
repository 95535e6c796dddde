---------------------------- MODULE Durability ----------------------------
(***************************************************************************)
(* One pod of the deployment, and the pods that replace it: entrypoint.sh  *)
(* restores the database file, Litestream replicates it and runs the       *)
(* application as its child, the application opens the file and waits for  *)
(* replication.rs's barrier before it serves.  The file lives in the pod's *)
(* emptyDir: it survives a container and not the pod.  Litestream and the  *)
(* object store are external; they are modelled by what the scripts and    *)
(* the barrier ask of them.  The chart runs one owner at a time.           *)
(*                                                                         *)
(* The application is any that keeps Lifecycle: each of its steps here is  *)
(* the step of that module, together with what it does to the file, and    *)
(* one guard is added, that of the barrier on Serve.                       *)
(*                                                                         *)
(* A database is the sequence of increments committed to it.  The writer   *)
(* and its queue are WriteQueue's subject: here a commit is one step.      *)
(***************************************************************************)
EXTENDS Integers, Sequences

CONSTANTS MaxCommits,   \* bound on the increments ever committed
          Absent        \* no such file, or nothing in the object store

ASSUME DurabilityAssumption == MaxCommits \in Nat /\ Absent \notin Seq(1 .. MaxCommits)

VARIABLES
  disk,       \* the database file in the pod's emptyDir
  replica,    \* what a restore from the object store would produce
  phase,      \* where the container, and in it the application, is
  barrier,    \* while it prepares: in a sync, between two, or past them
  requested,  \* SIGTERM has reached the application
  late,       \* the barrier's deadline has passed
  commits,    \* history: increments ever committed
  base        \* history: Len(disk) when an application last began to serve

vars == <<disk, replica, phase, barrier, requested, late, commits, base>>

Life == INSTANCE Lifecycle

\* What a step of the application leaves alone: the files, or the barrier too.
files == <<disk, replica, base>>
outside == <<files, barrier, late>>

\* Transactions in a database: the migrations are the first one.
Txid(database) == IF database = Absent THEN 0 ELSE Len(database) + 1

Waiting == phase = "preparing" /\ barrier \in {"sync", "pause"}
Serving == phase \in {"serving", "draining", "failing"}
Exited == phase \in {"ok", "err"}

Init ==
  /\ disk = Absent /\ replica = Absent
  /\ phase = "down" /\ barrier = "sync" /\ requested = FALSE /\ late = FALSE
  /\ commits = 0 /\ base = 0

-----------------------------------------------------------------------------
(* entrypoint.sh, and the ways a container ends.                           *)

RestoreNothing == disk   \* mutant: a pod always starts afresh
RestoreOver == IF replica = Absent THEN disk ELSE replica   \* mutant: no -if-db-not-exists
Restored == IF disk = Absent THEN replica ELSE disk

\* A restore that fails ends the script: the container is started again.
Restore ==
  /\ Life!Start
  /\ disk' = Restored
  /\ barrier' = "sync" /\ late' = FALSE
  /\ UNCHANGED <<replica, base>>

Crash == phase # "down" /\ Life!Kill /\ UNCHANGED outside

PodLost == Life!Kill /\ disk' = Absent /\ UNCHANGED <<replica, base, barrier, late>>

Terminate == Life!Request /\ UNCHANGED outside

\* Litestream's background replication.
Upload ==
  /\ phase # "down" /\ disk # Absent
  /\ \E n \in 0 .. Len(disk) :
       /\ n >= Txid(replica)
       /\ replica' = SubSeq(disk, 1, n)
  /\ UNCHANGED <<disk, phase, barrier, requested, late, commits, base>>

\* The child has exited: Litestream attempts a last sync, or skips it.
FinalSync ==
  /\ Exited /\ Life!Kill
  /\ replica' \in {replica, IF disk = Absent THEN replica ELSE disk}
  /\ UNCHANGED <<disk, base, barrier, late>>

-----------------------------------------------------------------------------
(* The application, up to the barrier and through it.                      *)

AlwaysCreated == <<>>    \* mutant: the migrations replace saved data
Created == IF disk = Absent THEN <<>> ELSE disk

\* Database::open creates a missing file and runs the migrations.
Open ==
  /\ Life!Open
  /\ disk' = Created
  /\ UNCHANGED <<replica, base, barrier, late>>

Deadline ==
  /\ Waiting /\ ~late /\ late' = TRUE
  /\ UNCHANGED <<files, phase, barrier, requested, commits>>

\* One step of the barrier's loop.
Await(from, to) ==
  /\ phase = "preparing" /\ barrier \in from /\ barrier' = to
  /\ UNCHANGED <<files, phase, requested, late, commits>>

ReplicaIgnored(txid, replicaTxid) == txid > 0       \* mutant: local sync is enough
Complete(txid, replicaTxid) == txid > 0 /\ replicaTxid >= txid

\* litestream sync has exited 0; its report may be that of an instant ago.
SyncReports ==
  /\ ~requested /\ ~late
  /\ \E txid \in {0, Txid(disk)}, replicaTxid \in 0 .. Txid(replica) :
       Await({"sync"}, IF Complete(txid, replicaTxid) THEN "passed" ELSE "pause")

SyncFails == ~requested /\ ~late /\ Await({"sync"}, "pause")
Retry == ~requested /\ ~late /\ Await({"pause"}, "sync")

\* A request to stop makes the barrier return Ok without any sync.
Interrupt == requested /\ Await({"sync", "pause"}, "passed")

ExpireRetries ==   \* mutant: never gives up
  /\ late /\ ~requested /\ Await({"sync", "pause"}, "sync")

Expire == late /\ ~requested /\ Waiting /\ Life!PrepareFails /\ UNCHANGED outside

\* A setting or a report is bad, a program is missing, the port is taken, the writer is
\* lost, or the database does not close when the startup gives up.
PrepareFails == Life!PrepareFails /\ UNCHANGED outside

\* The request is noticed before anything is opened, or before anything is served.
Withdraw == Life!Withdraw /\ UNCHANGED outside

-----------------------------------------------------------------------------
(* The application while it serves.                                        *)

ServeUnchecked ==   \* mutant: the barrier's Ok is enough
  /\ phase = "preparing" /\ barrier = "passed"
  /\ phase' = "serving" /\ base' = Len(disk)
  /\ UNCHANGED <<disk, replica, barrier, requested, late, commits>>

Serve ==
  /\ barrier = "passed" /\ Life!Serve
  /\ base' = Len(disk)
  /\ UNCHANGED <<disk, replica, barrier, late>>

Commit ==
  /\ commits < MaxCommits /\ Life!Commit
  /\ disk' = Append(disk, commits + 1)
  /\ UNCHANGED <<replica, base, barrier, late>>

Drain == Life!Drain /\ UNCHANGED outside
Fail == Life!Fail /\ UNCHANGED outside
ExitOk == Life!ExitOk /\ UNCHANGED outside
ExitErr == Life!ExitErr /\ UNCHANGED outside

-----------------------------------------------------------------------------
Barrier == SyncReports \/ SyncFails \/ Retry \/ Interrupt

Next ==
  \/ Restore \/ Crash \/ PodLost \/ Terminate \/ Upload \/ FinalSync
  \/ Open \/ Deadline \/ Barrier \/ Expire \/ PrepareFails \/ Withdraw
  \/ Serve \/ Commit \/ Drain \/ Fail \/ ExitOk \/ ExitErr

Spec == Init /\ [][Next]_vars

\* Timers fire and the woken barrier is polled.  The sync itself may hang.
Fairness == WF_vars(Deadline) /\ WF_vars(Expire \/ Interrupt)

FairSpec == Spec /\ Fairness

-----------------------------------------------------------------------------
(* Properties.                                                             *)

Database == Seq(1 .. MaxCommits) \cup {Absent}

TypeOK ==
  /\ disk \in Database /\ replica \in Database
  /\ phase \in {"down", "starting", "preparing", "serving", "draining", "failing", "ok", "err"}
  /\ barrier \in {"sync", "pause", "passed"}
  /\ requested \in BOOLEAN /\ late \in BOOLEAN
  /\ commits \in 0 .. MaxCommits /\ base \in 0 .. MaxCommits
  /\ Serving \/ phase = "preparing" => disk # Absent
  /\ phase = "starting" => barrier = "sync"

\* One history: the replica never holds anything that its owner's file does not.
ReplicaIsPrefix ==
  replica # Absent /\ disk # Absent =>
    /\ Len(replica) <= Len(disk)
    /\ \A i \in 1 .. Len(replica) : replica[i] = disk[i]

\* Only commits made since an application last began to serve are not yet safe
\* from the loss of the pod: the barrier covers every earlier one.
OnlyTheLastRunIsAtRisk == base > 0 => Txid(replica) > base

\* A database is created afresh only before any increment was committed and where the
\* store has none.  Later pods go on from what the store holds, be it the empty database
\* that the very first barrier left there.
FreshOnlyAtFirst == phase = "starting" /\ disk = Absent => commits = 0 /\ replica = Absent

\* Within a pod the file only ever grows, whichever container wrote to it and
\* however that one ended.
FileOnlyGrows ==
  [][disk # Absent /\ disk' # Absent =>
       /\ Len(disk) <= Len(disk')
       /\ \A i \in 1 .. Len(disk) : disk[i] = disk'[i]]_vars

\* The deployment implements a log with a stable prefix.
Kept(database) == IF database = Absent THEN <<>> ELSE database
Content == IF disk = Absent THEN Kept(replica) ELSE disk
Stable == Len(Kept(replica))

Log == INSTANCE DurableLog WITH
  Id <- 1 .. MaxCommits, log <- Content, stable <- Stable
ImplementsLog == Log!Spec

\* What an application found when it began to serve stays for good, each increment at
\* its place in the history, whatever crashes or is lost later.
FoundStays ==
  [][base <= base' /\ \A i \in 1 .. base : /\ i \in DOMAIN Content /\ i \in DOMAIN Content'
                                         /\ Content'[i] = Content[i]]_vars

\* The barrier ends: it passes, fails, or is cut short.
BarrierEnds == Waiting ~> ~Waiting
=============================================================================
