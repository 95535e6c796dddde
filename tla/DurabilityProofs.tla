-------------------------- MODULE DurabilityProofs --------------------------
(***************************************************************************)
(* The durability of committed increments, for any number of them and any  *)
(* succession of crashes, stops and lost pods.  Inv adds to the properties *)
(* what the barrier has established when it has passed: everything in the  *)
(* file is in the replica, and it stays there until the next commit.       *)
(***************************************************************************)
EXTENDS Durability, TLAPS, SequenceTheorems

Passed == phase = "preparing" /\ barrier = "passed"

HistoryInv ==
  /\ ReplicaIsPrefix
  /\ disk # Absent => Len(disk) <= commits
  /\ replica # Absent => Len(replica) <= commits
  /\ phase = "starting" /\ disk = Absent => replica = Absent

CoverInv ==
  /\ OnlyTheLastRunIsAtRisk
  /\ commits > 0 \/ Serving => replica # Absent
  /\ Passed /\ ~requested => replica # Absent /\ Len(disk) <= Len(replica)

Inv == TypeOK /\ HistoryInv /\ CoverInv

USE DurabilityAssumption DEF DurabilityAssumption

\* A prefix of a sequence, element by element: what Upload puts in the store.
LEMMA PrefixFacts ==
  ASSUME NEW S, NEW s \in Seq(S), NEW n \in 0 .. Len(s)
  PROVE  /\ SubSeq(s, 1, n) \in Seq(S)
         /\ Len(SubSeq(s, 1, n)) = n
         /\ \A i \in 1 .. n : SubSeq(s, 1, n)[i] = s[i]
<1>1. Len(s) \in Nat /\ \A i \in 1 .. Len(s) : s[i] \in S BY LenProperties
<1>2. \A i \in 1 .. n : s[i] \in S BY <1>1
<1> HIDE DEF TypeOK
<1>3. /\ SubSeq(s, 1, n) \in Seq(S)
      /\ Len(SubSeq(s, 1, n)) = IF 1 <= n THEN n - 1 + 1 ELSE 0
      /\ \A i \in 1 .. n - 1 + 1 : SubSeq(s, 1, n)[i] = s[1 + i - 1]
  BY <1>1, <1>2, SubSeqProperties
<1> QED BY <1>1, <1>3

\* A file or an object store that holds a database holds a sequence of increments.
LEMMA Present ==
  ASSUME TypeOK
  PROVE  /\ disk # Absent => disk \in Seq(1 .. MaxCommits) /\ Len(disk) \in Nat
         /\ replica # Absent => replica \in Seq(1 .. MaxCommits) /\ Len(replica) \in Nat
BY LenProperties DEF TypeOK, Database

-----------------------------------------------------------------------------
(* The invariant.                                                          *)

\* The steps of the application that touch no database.
Quiet == \/ Crash \/ Terminate \/ Deadline \/ Barrier \/ Expire \/ PrepareFails
         \/ Withdraw \/ Drain \/ Fail \/ ExitOk \/ ExitErr

\* A quiet step moves the application, and to a place where nothing more is claimed.
LEMMA QuietStep ==
  ASSUME TypeOK, CoverInv, HistoryInv, Quiet
  PROVE  /\ UNCHANGED <<disk, replica, commits, base>>
         /\ TypeOK'
         /\ phase' = "starting" => phase = "starting"
         /\ Serving' => Serving
         /\ Passed' /\ ~requested' =>
              (Passed /\ ~requested) \/ (replica # Absent /\ Len(disk) <= Len(replica))
<1> USE DEF TypeOK, Waiting, Serving, Passed, files, outside, Life!Go
<1>1. CASE Crash BY <1>1 DEF Crash, Life!Kill
<1>2. CASE Terminate BY <1>2 DEF Terminate, Life!Request
<1>3. CASE Withdraw BY <1>3 DEF Withdraw, Life!Withdraw
<1>4. CASE Deadline BY <1>4 DEF Deadline
<1>5. CASE SyncReports
  <2>1. PICK txid \in {0, Txid(disk)}, replicaTxid \in 0 .. Txid(replica) :
          Await({"sync"}, IF Complete(txid, replicaTxid) THEN "passed" ELSE "pause")
    BY <1>5 DEF SyncReports
  <2>2. CASE Complete(txid, replicaTxid)
    <3>1. disk # Absent /\ txid = Len(disk) + 1 /\ txid > 0 BY <2>1, <2>2, Present DEF Complete, Txid
    <3>2. replica # Absent /\ replicaTxid <= Len(replica) + 1
      BY <2>1, <2>2, <3>1, Present DEF Complete, Txid
    <3>3. Len(disk) <= Len(replica) BY <2>1, <2>2, <3>1, <3>2, Present DEF Complete, Txid
    <3> QED BY <2>1, <2>2, <3>2, <3>3 DEF Await
  <2>3. CASE ~Complete(txid, replicaTxid) BY <2>1, <2>3 DEF Await
  <2> QED BY <2>2, <2>3
<1>6. CASE SyncFails \/ Retry \/ Interrupt
  BY <1>6 DEF SyncFails, Retry, Interrupt, Await
<1>7. CASE Expire \/ PrepareFails BY <1>7 DEF Expire, PrepareFails, Life!PrepareFails
<1>8. CASE Drain BY <1>8 DEF Drain, Life!Drain
<1>9. CASE Fail BY <1>9 DEF Fail, Life!Fail
<1>10. CASE ExitOk BY <1>10 DEF ExitOk, Life!ExitOk
<1>11. CASE ExitErr BY <1>11 DEF ExitErr, Life!ExitErr
<1> QED
  BY <1>1, <1>2, <1>3, <1>4, <1>5, <1>6, <1>7, <1>8, <1>9, <1>10, <1>11 DEF Quiet, Barrier

\* Every step keeps the types, and no pod commits past the bound.
LEMMA TypeStep ==
  ASSUME TypeOK, HistoryInv, CoverInv, [Next]_vars
  PROVE  TypeOK'
<1> USE DEF TypeOK, Database, Waiting, Serving, Exited, Passed, Life!Start, Life!Kill, Life!Open,
            Life!Serve, Life!Commit, Life!Go
<1>1. CASE Quiet BY <1>1, QuietStep
<1>2. CASE Restore BY <1>2 DEF Restore, Restored
<1>3. CASE PodLost BY <1>3 DEF PodLost
<1>4. CASE Upload BY <1>4, Present, PrefixFacts DEF Upload
<1>5. CASE FinalSync BY <1>5 DEF FinalSync
<1>6. CASE Open
  <2>1. Created \in Seq(1 .. MaxCommits) BY Present, EmptySeq DEF Created
  <2> QED BY <1>6, <2>1 DEF Open
<1>7. CASE Serve
  <2>1. Len(disk) \in 0 .. MaxCommits BY <1>7, Present DEF Serve, HistoryInv
  <2> QED BY <1>7, <2>1 DEF Serve
<1>8. CASE Commit
  <2>1. disk \in Seq(1 .. MaxCommits) /\ commits + 1 \in 1 .. MaxCommits
    BY <1>8, Present DEF Commit
  <2>2. Append(disk, commits + 1) \in Seq(1 .. MaxCommits) BY <2>1, AppendProperties
  <2>3. /\ disk' = Append(disk, commits + 1) /\ commits' = commits + 1
        /\ UNCHANGED <<replica, phase, barrier, requested, late, base>>
    BY <1>8 DEF Commit
  <2>4. disk' \in Seq(1 .. MaxCommits) /\ commits' \in 0 .. MaxCommits
    BY <2>1, <2>2, <2>3
  <2>5. disk' \in Database /\ disk' # Absent BY <2>4
  <2> QED BY <2>3, <2>4, <2>5
<1>9. CASE UNCHANGED vars BY <1>9 DEF vars
<1> QED BY <1>1, <1>2, <1>3, <1>4, <1>5, <1>6, <1>7, <1>8, <1>9 DEF Next, Quiet

\* There is one history: the replica follows its owner's file, and a file is only
\* created where there is nothing to restore.
LEMMA HistoryStep ==
  ASSUME TypeOK, HistoryInv, CoverInv, [Next]_vars
  PROVE  HistoryInv'
<1> USE DEF HistoryInv, ReplicaIsPrefix, Life!Start, Life!Kill, Life!Open,
            Life!Serve, Life!Commit, Life!Go
<1>1. CASE Quiet BY <1>1, QuietStep
<1>2. CASE Restore BY <1>2, Present DEF Restore, Restored
<1>3. CASE PodLost BY <1>3 DEF PodLost
<1>4. CASE Upload
  <2>1. PICK n \in 0 .. Len(disk) : n >= Txid(replica) /\ replica' = SubSeq(disk, 1, n)
    BY <1>4 DEF Upload
  <2>2. disk # Absent /\ disk' = disk /\ commits' = commits BY <1>4 DEF Upload
  <2>3. Len(replica') = n /\ \A i \in 1 .. n : replica'[i] = disk[i]
    BY <2>1, <2>2, Present, PrefixFacts
  <2>4. Len(disk) \in Nat /\ Len(disk) <= commits /\ n <= commits
    BY <2>1, <2>2, Present DEF TypeOK
  <2> QED BY <2>2, <2>3, <2>4
<1>5. CASE FinalSync BY <1>5, Present DEF FinalSync
<1>6. CASE Open BY <1>6, Present, EmptySeq DEF Open, Created, TypeOK
<1>7. CASE Serve BY <1>7 DEF Serve
<1>8. CASE Commit
  <2>1. disk # Absent BY <1>8 DEF Commit, TypeOK, Serving
  <2>2. disk \in Seq(1 .. MaxCommits) /\ commits + 1 \in 1 .. MaxCommits /\ Len(disk) \in Nat
    BY <1>8, <2>1, Present DEF Commit, TypeOK
  <2>3. /\ Len(disk') = Len(disk) + 1
        /\ \A i \in 1 .. Len(disk) : disk'[i] = disk[i]
    BY <1>8, <2>2, AppendProperties DEF Commit
  <2>4. replica' = replica /\ commits' = commits + 1 /\ phase' = phase /\ phase # "starting"
    BY <1>8 DEF Commit, Life!Commit
  <2> QED BY <2>1, <2>2, <2>3, <2>4, Present DEF TypeOK
<1>9. CASE UNCHANGED vars BY <1>9 DEF vars
<1> QED BY <1>1, <1>2, <1>3, <1>4, <1>5, <1>6, <1>7, <1>8, <1>9 DEF Next, Quiet

\* What was served from is in the replica: the barrier saw it there, and the
\* replica of one owner only grows.
LEMMA CoverStep ==
  ASSUME TypeOK, HistoryInv, CoverInv, [Next]_vars
  PROVE  CoverInv'
<1> USE DEF CoverInv, OnlyTheLastRunIsAtRisk, Serving, Passed, Life!Start, Life!Kill, Life!Open,
            Life!Serve, Life!Commit, Life!Go
<1>1. CASE Quiet BY <1>1, QuietStep DEF Serving
<1>2. CASE Restore BY <1>2 DEF Restore
<1>3. CASE PodLost BY <1>3 DEF PodLost
<1>4. CASE Upload
  <2>1. PICK n \in 0 .. Len(disk) : n >= Txid(replica) /\ replica' = SubSeq(disk, 1, n)
    BY <1>4 DEF Upload
  <2>2. /\ disk # Absent /\ disk' = disk /\ phase' = phase /\ barrier' = barrier /\ requested' = requested
        /\ commits' = commits /\ base' = base
    BY <1>4 DEF Upload
  <2>3. replica' \in Seq(1 .. MaxCommits) /\ Len(replica') = n
    BY <2>1, <2>2, Present, PrefixFacts
  <2>4. replica' # Absent BY <2>3
  <2>5. Txid(replica)' = n + 1 BY <2>3, <2>4 DEF Txid
  <2>6. Txid(replica) \in Nat /\ n \in Nat BY <2>1, <2>2, Present DEF Txid
  <2>7. base > 0 => Txid(replica)' > base BY <2>1, <2>5, <2>6 DEF TypeOK
  <2>8. Passed /\ ~requested => Len(disk) <= n
    BY <2>1, <2>2, <2>6, Present DEF Txid
  <2> QED BY <2>2, <2>3, <2>4, <2>7, <2>8
<1>5. CASE FinalSync
  <2>1. CASE replica' = replica BY <1>5, <2>1 DEF FinalSync, Txid
  <2>2. CASE disk # Absent /\ replica' = disk
    <3>1. Txid(replica)' >= Txid(replica) /\ Txid(replica) \in Nat
      BY <2>2, Present DEF Txid, HistoryInv, ReplicaIsPrefix
    <3>2. Txid(replica)' \in Nat BY <2>2, Present DEF Txid
    <3> QED BY <1>5, <2>2, <3>1, <3>2 DEF FinalSync, TypeOK
  <2>3. replica' = replica \/ (disk # Absent /\ replica' = disk) BY <1>5 DEF FinalSync
  <2> QED BY <2>1, <2>2, <2>3
<1>6. CASE Open BY <1>6 DEF Open, Txid, TypeOK
<1>7. CASE Serve
  <2>1. replica # Absent /\ Len(disk) <= Len(replica) /\ base' = Len(disk) /\ disk # Absent
    BY <1>7 DEF Serve, TypeOK
  <2>2. Txid(replica) > Len(disk) BY <2>1, Present DEF Txid
  <2> QED BY <1>7, <2>1, <2>2 DEF Serve, Txid
<1>8. CASE Commit BY <1>8 DEF Commit, Txid
<1>9. CASE UNCHANGED vars BY <1>9 DEF vars, Txid
<1> QED BY <1>1, <1>2, <1>3, <1>4, <1>5, <1>6, <1>7, <1>8, <1>9 DEF Next, Quiet

\* Inv holds in every state of the deployment.
LEMMA InvAlways == Spec => []Inv
<1>1. Init => Inv
  <2> SUFFICES ASSUME Init PROVE Inv OBVIOUS
  <2>1. TypeOK
    <3>1. disk \in Database /\ replica \in Database BY DEF Init, Database
    <3>2. commits \in 0 .. MaxCommits /\ base \in 0 .. MaxCommits BY DEF Init
    <3>3. requested \in BOOLEAN /\ late \in BOOLEAN BY DEF Init
    <3>4. phase = "down" /\ barrier = "sync" BY DEF Init
    <3> QED BY <3>1, <3>2, <3>3, <3>4 DEF TypeOK, Serving
  <2>2. HistoryInv BY DEF Init, HistoryInv, ReplicaIsPrefix
  <2>3. CoverInv BY DEF Init, CoverInv, OnlyTheLastRunIsAtRisk, Serving, Passed
  <2> QED BY <2>1, <2>2, <2>3 DEF Inv
<1>2. Inv /\ [Next]_vars => Inv' BY TypeStep, HistoryStep, CoverStep DEF Inv
<1> QED BY <1>1, <1>2, PTL DEF Spec

-----------------------------------------------------------------------------
(* The deployment's properties.                                            *)

\* The state of the deployment keeps its types.
THEOREM TypeCorrect == Spec => []TypeOK
<1>1. Inv => TypeOK BY DEF Inv
<1> QED BY <1>1, InvAlways, PTL

\* The replica never holds anything that its owner's file does not.
THEOREM OneHistory == Spec => []ReplicaIsPrefix
<1>1. Inv => ReplicaIsPrefix BY DEF Inv, HistoryInv
<1> QED BY <1>1, InvAlways, PTL

\* The barrier makes every commit of earlier runs safe before the next run serves.
THEOREM BoundedLoss == Spec => []OnlyTheLastRunIsAtRisk
<1>1. Inv => OnlyTheLastRunIsAtRisk BY DEF Inv, CoverInv
<1> QED BY <1>1, InvAlways, PTL

\* No database is created once an increment was committed, nor beside a replica.
THEOREM NoFreshStart == Spec => []FreshOnlyAtFirst
<1>1. Inv => FreshOnlyAtFirst BY DEF Inv, CoverInv, HistoryInv, FreshOnlyAtFirst, TypeOK
<1> QED BY <1>1, InvAlways, PTL

\* Neither a restore nor a migration takes anything out of a pod's file.
THEOREM FileGrows == Spec => FileOnlyGrows
<1> DEFINE Grows == disk # Absent /\ disk' # Absent =>
             Len(disk) <= Len(disk') /\ \A i \in 1 .. Len(disk) : disk[i] = disk'[i]
<1>1. Inv /\ [Next]_vars => Grows
  <2> SUFFICES ASSUME Inv, [Next]_vars, disk # Absent PROVE Grows OBVIOUS
  <2>1. TypeOK /\ HistoryInv /\ CoverInv BY DEF Inv
  <2>2. disk \in Seq(1 .. MaxCommits) /\ Len(disk) \in Nat BY <2>1, Present
  <2>3. CASE disk' = disk BY <2>2, <2>3
  <2>4. CASE disk' = Absent BY <2>4
  <2>5. CASE Commit
    <3>1. commits + 1 \in 1 .. MaxCommits BY <2>1, <2>5 DEF Commit, TypeOK
    <3> QED BY <2>2, <2>5, <3>1, AppendProperties DEF Commit
  <2>6. disk' = disk \/ disk' = Absent \/ Commit
    <3>1. CASE Quiet BY <2>1, <3>1, QuietStep
    <3>2. CASE Restore \/ PodLost \/ Upload \/ FinalSync \/ Open \/ Serve
      BY <3>2 DEF Restore, Restored, PodLost, Upload, FinalSync, Open, Created, Serve
    <3>3. CASE UNCHANGED vars BY <3>3 DEF vars
    <3> QED BY <3>1, <3>2, <3>3 DEF Next, Quiet
  <2> QED BY <2>3, <2>4, <2>5, <2>6
<1>2. Grows => [Grows]_vars OBVIOUS
<1> QED BY <1>1, InvAlways, PTL DEF Spec, FileOnlyGrows

-----------------------------------------------------------------------------
(* The deployment implements DurableLog.                                   *)

\* Losing the pod takes the log back to its stable prefix, which is the replica.
LEMMA LossIsPrefix ==
  ASSUME Inv
  PROVE  SubSeq(Content, 1, Stable) = Kept(replica)
<1> USE DEF Content, Stable, Kept
<1>1. CASE replica = Absent BY <1>1, SubSeqEmpty
<1>2. CASE replica # Absent
  <2>1. replica \in Seq(1 .. MaxCommits) /\ Len(replica) \in Nat BY <1>2, Present DEF Inv
  <2>2. CASE disk = Absent
    <3>1. Len(replica) \in 0 .. Len(replica) BY <2>1
    <3>2. /\ SubSeq(replica, 1, Len(replica)) \in Seq(1 .. MaxCommits)
          /\ Len(SubSeq(replica, 1, Len(replica))) = Len(replica)
          /\ \A i \in 1 .. Len(replica) : SubSeq(replica, 1, Len(replica))[i] = replica[i]
      BY <2>1, <3>1, PrefixFacts
    <3>3. SubSeq(replica, 1, Len(replica)) = replica BY <2>1, <3>2, SeqEqual
    <3> QED BY <1>2, <2>2, <3>3
  <2>3. CASE disk # Absent
    <3>1. disk \in Seq(1 .. MaxCommits) /\ Len(disk) \in Nat BY <2>3, Present DEF Inv
    <3>2. Len(replica) \in 0 .. Len(disk) /\ \A i \in 1 .. Len(replica) : replica[i] = disk[i]
      BY <1>2, <2>1, <2>3, <3>1 DEF Inv, HistoryInv, ReplicaIsPrefix
    <3>3. /\ SubSeq(disk, 1, Len(replica)) \in Seq(1 .. MaxCommits)
          /\ Len(SubSeq(disk, 1, Len(replica))) = Len(replica)
          /\ \A i \in 1 .. Len(replica) : SubSeq(disk, 1, Len(replica))[i] = disk[i]
      BY <3>1, <3>2, PrefixFacts
    <3>4. SubSeq(disk, 1, Len(replica)) = replica BY <2>1, <3>2, <3>3, SeqEqual
    <3> QED BY <1>2, <2>3, <3>4
  <2> QED BY <2>2, <2>3
<1> QED BY <1>1, <1>2

\* A longer replica is a longer stable prefix of the same log.
LEMMA Stabilized ==
  ASSUME Inv, disk # Absent, disk' = disk, replica' \in Seq(1 .. MaxCommits),
         replica' # Absent, Len(replica') >= Stable, Len(replica') <= Len(disk)
  PROVE  Log!Stabilize \/ UNCHANGED <<Content, Stable>>
<1>1. Content = disk /\ Content' = disk BY DEF Content, Kept
<1>2. Stable' = Len(replica') BY DEF Stable, Kept
<1>3. Stable \in Nat /\ Len(disk) \in Nat BY Present DEF Inv, Stable, Kept
<1>4. Len(replica') \in Nat BY LenProperties
<1>5. CASE Stable' = Stable BY <1>1, <1>5
<1>6. CASE Stable' # Stable
  <2>1. Stable' \in Stable + 1 .. Len(Content) BY <1>1, <1>2, <1>3, <1>4, <1>6
  <2> QED BY <1>1, <2>1 DEF Log!Stabilize
<1> QED BY <1>5, <1>6

\* Every step of the deployment is a step of the durable log or leaves it alone.
LEMMA LogStep == Inv /\ [Next]_vars => [Log!Next]_<<Content, Stable>>
<1> SUFFICES ASSUME Inv, [Next]_vars PROVE [Log!Next]_<<Content, Stable>> OBVIOUS
<1>1. TypeOK /\ HistoryInv /\ CoverInv BY DEF Inv
<1>2. CASE disk' = disk /\ replica' = replica BY <1>2 DEF Content, Stable, Kept
<1>3. CASE Quiet BY <1>1, <1>2, <1>3, QuietStep
<1>4. CASE Restore BY <1>4 DEF Restore, Restored, Content, Stable, Kept
<1>5. CASE PodLost
  <2>1. Content' = SubSeq(Content, 1, Stable)
    BY <1>5, LossIsPrefix DEF PodLost, Content
  <2>2. Stable' = Stable BY <1>5 DEF PodLost, Stable, Kept
  <2> QED BY <2>1, <2>2 DEF Log!Next, Log!Lose
<1>6. CASE Upload
  <2>1. PICK n \in 0 .. Len(disk) : n >= Txid(replica) /\ replica' = SubSeq(disk, 1, n)
    BY <1>6 DEF Upload
  <2>2. disk # Absent /\ disk' = disk BY <1>6 DEF Upload
  <2>3. replica' \in Seq(1 .. MaxCommits) /\ Len(replica') = n
    BY <1>1, <2>1, <2>2, Present, PrefixFacts
  <2>4. n >= Stable /\ n <= Len(disk)
    BY <1>1, <2>1, <2>2, Present DEF Txid, Stable, Kept
  <2> QED BY <2>2, <2>3, <2>4, Stabilized DEF Log!Next
<1>7. CASE FinalSync
  <2>1. CASE replica' = replica BY <1>2, <1>7, <2>1 DEF FinalSync
  <2>2. CASE disk # Absent /\ replica' = disk
    <3>1. disk \in Seq(1 .. MaxCommits) /\ Len(disk) \in Nat BY <1>1, <2>2, Present
    <3>2. Len(disk) >= Stable
      BY <1>1, <2>2, <3>1 DEF Stable, Kept, HistoryInv, ReplicaIsPrefix
    <3>3. disk' = disk BY <1>7 DEF FinalSync
    <3> QED BY <2>2, <3>1, <3>2, <3>3, Stabilized DEF Log!Next
  <2>3. replica' = replica \/ (disk # Absent /\ replica' = disk) BY <1>7 DEF FinalSync
  <2> QED BY <2>1, <2>2, <2>3
<1>8. CASE Open
  <2>1. disk = Absent => replica = Absent
    BY <1>1, <1>8 DEF Open, Life!Open, Life!Go, HistoryInv
  <2>2. <<>> # Absent
    <3>1. <<>> \in Seq(1 .. MaxCommits) BY EmptySeq
    <3> QED BY <3>1
  <2> QED BY <1>8, <2>1, <2>2 DEF Open, Created, Content, Stable, Kept
<1>9. CASE Serve BY <1>2, <1>9 DEF Serve
<1>10. CASE Commit
  <2>1. disk # Absent BY <1>1, <1>10 DEF Commit, Life!Commit, TypeOK, Serving
  <2>2. commits + 1 \in 1 .. MaxCommits /\ disk' = Append(disk, commits + 1)
    BY <1>1, <1>10 DEF Commit, TypeOK
  <2>3. disk' # Absent BY <1>1, <2>1, <2>2, Present, AppendProperties
  <2>4. Content' = Append(Content, commits + 1) BY <2>1, <2>2, <2>3 DEF Content, Kept
  <2>5. Stable' = Stable BY <1>10 DEF Commit, Stable, Kept
  <2> QED BY <2>2, <2>4, <2>5 DEF Log!Next, Log!Commit
<1>11. CASE UNCHANGED vars BY <1>2, <1>11 DEF vars
<1> QED BY <1>3, <1>4, <1>5, <1>6, <1>7, <1>8, <1>9, <1>10, <1>11 DEF Next, Quiet

\* A deployment is a log of increments with a stable prefix: whatever crashes or is
\* lost, increments are not reordered, replaced or lost from the middle.
THEOREM Refinement == Spec => ImplementsLog
<1>1. Init => Log!Init BY EmptySeq DEF Init, Log!Init, Content, Stable, Kept
<1>2. Inv /\ [Next]_vars => [Log!Next]_Log!vars BY LogStep DEF Log!vars
<1> QED BY <1>1, <1>2, InvAlways, PTL DEF Spec, ImplementsLog, Log!Spec

\* The log that the deployment keeps, and its stable part, which covers what an
\* application found when it last began to serve.
LEMMA ContentFacts ==
  ASSUME Inv
  PROVE  /\ Content \in Seq(1 .. MaxCommits) /\ Len(Content) \in Nat
         /\ DOMAIN Content = 1 .. Len(Content)
         /\ Stable \in Nat /\ base <= Stable /\ Stable <= Len(Content)
<1> USE DEF Content, Stable, Kept
<1>1. TypeOK /\ HistoryInv /\ CoverInv BY DEF Inv
<1>2. Kept(replica) \in Seq(1 .. MaxCommits) BY <1>1, Present, EmptySeq
<1>3. Content \in Seq(1 .. MaxCommits) BY <1>1, <1>2, Present
<1>4. /\ Len(Content) \in Nat /\ Stable \in Nat
      /\ DOMAIN Content = 1 .. Len(Content)
  BY <1>2, <1>3, LenProperties
<1>5. base <= Stable
  <2>1. CASE base > 0
    <3>1. Txid(replica) > base BY <1>1, <2>1 DEF CoverInv, OnlyTheLastRunIsAtRisk
    <3>2. replica # Absent BY <2>1, <3>1, <1>1 DEF Txid, TypeOK
    <3> QED BY <1>1, <3>1, <3>2, Present DEF Txid, TypeOK
  <2>2. CASE ~(base > 0) BY <1>1, <1>4, <2>2 DEF TypeOK
  <2> QED BY <2>1, <2>2
<1>6. Stable <= Len(Content)
  <2>1. CASE disk = Absent BY <1>4, <2>1
  <2>2. CASE disk # Absent /\ replica # Absent
    BY <1>1, <2>2 DEF HistoryInv, ReplicaIsPrefix
  <2>3. CASE disk # Absent /\ replica = Absent
    <3>1. Stable = 0 BY <2>3
    <3> QED BY <1>4, <3>1
  <2> QED BY <2>1, <2>2, <2>3
<1> QED BY <1>3, <1>4, <1>5, <1>6

\* What an application found when it began to serve is never lost or altered again.
THEOREM FoundForGood == Spec => FoundStays
<1> DEFINE Stays == /\ base <= base'
                    /\ \A i \in 1 .. base : /\ i \in DOMAIN Content /\ i \in DOMAIN Content'
                                           /\ Content'[i] = Content[i]
<1>1. Inv /\ [Next]_vars => Stays
  <2> SUFFICES ASSUME Inv, [Next]_vars PROVE Stays OBVIOUS
  <2>1. TypeOK /\ HistoryInv /\ CoverInv /\ base \in Nat BY DEF Inv, TypeOK
  <2>2. base <= base'
    <3>1. CASE Serve
      <4>1. disk # Absent /\ base' = Len(disk)
        BY <2>1, <3>1 DEF Serve, Life!Serve, Life!Go, TypeOK
      <4>2. Content = disk BY <4>1 DEF Content
      <4> QED BY <2>1, <4>1, <4>2, ContentFacts
    <3>2. CASE Quiet
      <4>1. base' = base BY <2>1, <3>2, QuietStep
      <4> QED BY <2>1, <4>1
    <3>3. CASE Restore \/ PodLost \/ Upload \/ FinalSync \/ Open \/ Commit \/ UNCHANGED vars
      <4>1. base' = base
        BY <3>3 DEF Restore, PodLost, Upload, FinalSync, Open, Commit, vars
      <4> QED BY <2>1, <4>1
    <3> QED BY <3>1, <3>2, <3>3 DEF Next, Quiet
  <2>3. /\ Content \in Seq(1 .. MaxCommits) /\ Len(Content) \in Nat
        /\ DOMAIN Content = 1 .. Len(Content)
        /\ Stable \in Nat /\ base <= Stable /\ Stable <= Len(Content)
    BY ContentFacts
  <2>4. ASSUME NEW i \in 1 .. base
        PROVE  i \in DOMAIN Content /\ i \in DOMAIN Content' /\ Content'[i] = Content[i]
    <3>1. i \in 1 .. Stable /\ i \in 1 .. Len(Content) BY <2>1, <2>3, <2>4
    <3>2. CASE Log!Commit
      <4>1. PICK id \in 1 .. MaxCommits : Content' = Append(Content, id) BY <3>2 DEF Log!Commit
      <4>2. /\ Len(Content') = Len(Content) + 1 /\ Content'[i] = Content[i]
            /\ DOMAIN Content' = 1 .. Len(Content')
        BY <2>3, <3>1, <4>1, AppendProperties, LenProperties
      <4> QED BY <2>3, <3>1, <4>2
    <3>3. CASE Log!Lose
      <4>1. Content' = SubSeq(Content, 1, Stable) BY <3>3 DEF Log!Lose
      <4>2. /\ Content' \in Seq(1 .. MaxCommits) /\ Len(Content') = Stable
            /\ \A j \in 1 .. Stable : Content'[j] = Content[j]
        BY <2>3, <4>1, PrefixFacts
      <4>3. DOMAIN Content' = 1 .. Len(Content') BY <4>2, LenProperties
      <4> QED BY <2>3, <3>1, <4>2, <4>3
    <3>4. CASE Content' = Content BY <2>3, <3>1, <3>4
    <3>5. Log!Commit \/ Log!Lose \/ Content' = Content
      BY LogStep DEF Log!Next, Log!Stabilize
    <3> QED BY <3>2, <3>3, <3>4, <3>5
  <2> QED BY <2>2, <2>4
<1>2. Stays => [Stays]_vars OBVIOUS
<1> QED BY <1>1, InvAlways, PTL DEF Spec, FoundStays
=============================================================================
