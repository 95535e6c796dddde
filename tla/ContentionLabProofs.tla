------------------------- MODULE ContentionLabProofs -------------------------
(***************************************************************************)
(* The contention lab's safety, for any number of callers and requests.    *)
(* Between two experiments the lab takes WriteQueue's own steps, and Open  *)
(* starts the next one in WriteQueue's initial state, so the queue's       *)
(* invariant holds of every experiment.  LabInv adds what the stage of an  *)
(* experiment says about its request, its writer and its answers.          *)
(***************************************************************************)
EXTENDS ContentionLab, ApplicationProofs, FiniteSetTheorems

-----------------------------------------------------------------------------
(* Distinct calls.                                                         *)

\* A sequence without repetitions is no longer than the set of what is in it, and
\* as long when everything is in it.
LEMMA DistinctBound ==
  ASSUME NEW S, IsFiniteSet(S), NEW s \in Seq(S),
         \A i, j \in 1 .. Len(s) : s[i] = s[j] => i = j
  PROVE  /\ Len(s) <= Cardinality(S)
         /\ (\A x \in S : \E i \in 1 .. Len(s) : s[i] = x) => Len(s) = Cardinality(S)
<1>1. Len(s) \in Nat /\ DOMAIN s = 1 .. Len(s) /\ s \in [1 .. Len(s) -> S]
  BY LenProperties
<1>2. Cardinality(1 .. Len(s)) = Len(s)
  BY <1>1, FS_Interval
<1>3. s \in Injection(1 .. Len(s), S)
  BY <1>1 DEF Injection, IsInjective
<1>4. Cardinality(1 .. Len(s)) <= Cardinality(S)
  BY <1>3, FS_Injection
<1>5. ASSUME \A x \in S : \E i \in 1 .. Len(s) : s[i] = x PROVE Len(s) = Cardinality(S)
  <2>1. s \in Surjection(1 .. Len(s), S) BY <1>1, <1>5 DEF Surjection
  <2> QED BY <1>2, <1>3, <2>1, FS_Injection
<1> QED BY <1>2, <1>4, <1>5

-----------------------------------------------------------------------------
(* The lab drives a write queue.                                           *)

\* Dropping the experiment is WriteQueue's Abort, or nothing.
LEMMA FinishStep == ASSUME NEW response, Finish(response) PROVE [Next]_vars
BY DEF Finish, Drop, Next

\* A step of the lab is a step of the queue, leaves it alone, or starts a new one.
LEMMA LabQueueStep == [LabNext]_labVars => [Next]_vars \/ Init'
<1> SUFFICES ASSUME [LabNext]_labVars PROVE [Next]_vars \/ Init'
  OBVIOUS
<1>1. CASE \E p \in Post : Acquire(p) \/ TurnAway(p) BY <1>1 DEF Acquire, TurnAway
<1>2. CASE \E c \in Caller : Call(c) BY <1>2 DEF Call, Next, Client
<1>3. CASE DirectFails \/ CollectFails \/ WriterFails \/ Report \/ TimeOut \/ ClientLeaves
  BY <1>3, FinishStep DEF DirectFails, CollectFails, WriterFails, Report, TimeOut, ClientLeaves
<1>4. CASE Open BY <1>4 DEF Open, Init
<1>5. CASE PollWriter \/ SqliteThread BY <1>5 DEF PollWriter, SqliteThread, Next
<1>6. CASE Collect
  <2>1. RequestShutdown
    BY <1>6 DEF Collect, RequestShutdown
  <2> QED BY <2>1 DEF Next, Owner
<1>7. CASE UNCHANGED labVars BY <1>7 DEF labVars
<1> QED BY <1>1, <1>2, <1>3, <1>4, <1>5, <1>6, <1>7 DEF LabNext

\* The queue's invariant holds of the experiment's queue.
LEMMA QueueInv == LabSpec => []Inv
<1>1. LabInit => Inv BY InvInit DEF LabInit
<1>2. Inv /\ [LabNext]_labVars => Inv'
  <2>1. Init' => Inv' BY InvInit, PTL
  <2> QED BY <2>1, LabQueueStep, InvStep
<1> QED BY <1>1, <1>2, PTL DEF LabSpec

\* The queue of the lab is at any time a write queue or made anew: an experiment
\* takes no step that the queue of the application could not take.
THEOREM LabIsQueues == LabSpec => Init /\ [][Next \/ Init']_vars
<1>1. LabInit => Init BY DEF LabInit
<1>2. [LabNext]_labVars => [Next \/ Init']_vars BY LabQueueStep
<1> QED BY <1>1, <1>2, PTL DEF LabSpec

-----------------------------------------------------------------------------
(* What the stage of an experiment says.                                   *)

LabType ==
  /\ post \in [Post -> {"idle", "running", "busy", "ok", "error", "timeout", "gone"}]
  /\ stage \in {"none", "direct", "queued", "counted", "ended"} /\ final \in Int
  /\ permits \in {0, 1}
  /\ permits = 0 <=> Active
  /\ Active <=> \E p \in Post : Running(p)
  /\ \A p, q \in Post : Running(p) /\ Running(q) => p = q

StageInv ==
  /\ stage = "ended" => Stopped
  /\ stage = "counted" =>
       /\ \A c \in Caller : call[c] = "ok"
       /\ final = Saved + Cardinality(Caller)

LabInv == LabType /\ StageInv

\* Every admitted call has one place in the log of admissions, of which the log of
\* commits is a prefix.
LEMMA AtMostEveryone ==
  ASSUME Inv
  PROVE  /\ Len(queue) <= Len(accepted)
         /\ \A c \in Caller : call[c] = "idle" => Len(accepted) < Cardinality(Caller)
<1>1. accepted \in Seq(Caller) /\ Len(accepted) \in Nat /\ Len(log) \in Nat /\ Len(queue) \in Nat
  BY LenProperties DEF Inv, TypeOK
<1>2. Len(queue) <= Len(accepted)
  BY <1>1 DEF Inv, HistoryInv, InHand
<1>3. ASSUME NEW c \in Caller, call[c] = "idle" PROVE Len(accepted) < Cardinality(Caller)
  <2>1. \A i \in 1 .. Len(accepted) : accepted[i] # c
    BY <1>3 DEF Inv, AdmissionInv
  <2>2. Len(accepted) <= Cardinality(Caller)
    BY <1>1, DistinctBound, LabAssumption DEF Inv, AdmissionInv
  <2>3. accepted \in Seq(Caller \ {c})
    BY <1>1, <2>1, SeqDef
  <2>4. IsFiniteSet(Caller \ {c}) /\ Cardinality(Caller \ {c}) = Cardinality(Caller) - 1
    BY FS_RemoveElement, LabAssumption
  <2>5. Len(accepted) <= Cardinality(Caller \ {c})
    BY <2>3, <2>4, DistinctBound DEF Inv, AdmissionInv
  <2>6. Cardinality(Caller) \in Nat BY LabAssumption, FS_CardinalityType
  <2> QED BY <1>1, <2>4, <2>5, <2>6
<1> QED BY <1>2, <1>3

\* When everybody has an answer the log holds everybody, once.
LEMMA EveryoneOnce ==
  ASSUME Inv, \A c \in Caller : call[c] = "ok"
  PROVE  /\ Len(log) = Cardinality(Caller) /\ counter = Saved + Cardinality(Caller)
         /\ \A c \in Caller : \E i \in 1 .. Len(log) : log[i] = c /\ value[c] = Saved + i
         /\ \A i, j \in 1 .. Len(log) : log[i] = log[j] => i = j
<1>1. log \in Seq(Caller) /\ Len(log) \in Nat /\ Len(accepted) \in Nat /\ Len(queue) \in Nat
  BY LenProperties DEF Inv, TypeOK
<1>2. \A c \in Caller : \E i \in 1 .. Len(log) : log[i] = c /\ value[c] = Saved + i
  BY DEF Inv, ReplyInv
<1>3. Len(log) <= Len(accepted)
  BY <1>1 DEF Inv, HistoryInv, InHand
<1>4. \A i, j \in 1 .. Len(log) : log[i] = log[j] => i = j
  BY <1>1, <1>3 DEF Inv, HistoryInv, AdmissionInv
<1>5. Len(log) = Cardinality(Caller)
  BY <1>1, <1>2, <1>4, DistinctBound, LabAssumption
<1> QED BY <1>2, <1>4, <1>5 DEF Inv, CounterInv

-----------------------------------------------------------------------------
(* LabInv is inductive.                                                    *)

LEMMA LabInvInit == LabInit => LabInv
BY QueueAssumption DEF LabInit, LabInv, LabType, StageInv, Active, Running

\* The end of an experiment frees the permit, and leaves its writer stopped.
LEMMA FinishKeeps ==
  ASSUME LabInv, Active, NEW response, Finish(response),
         response \in {"ok", "error", "timeout", "gone"}
  PROVE  LabInv'
<1>1. PICK p \in Post : Running(p) /\ post' = [post EXCEPT ![p] = response]
  BY DEF Finish
<1>2. permits = 0 /\ permits' = 1
  BY DEF LabInv, LabType, Finish, Release
<1>3. \A q \in Post : ~Running(q)'
  BY <1>1 DEF LabInv, LabType, Running
<1>4. stage' \in {"none", "ended"} /\ ~Active' /\ final' = final
  BY DEF Finish, Active
<1>5. stage' = "ended" => Stopped'
  <2>1. CASE stage = "direct" BY <2>1 DEF Finish
  <2>2. CASE stage # "direct" /\ Stopped
    BY <2>2 DEF Finish, Drop, Stopped, vars, writer
  <2>3. CASE stage # "direct" /\ ~Stopped
    BY <2>3 DEF Finish, Drop, Abort, Stopped
  <2> QED BY <2>1, <2>2, <2>3
<1>6. post' \in [Post -> {"idle", "running", "busy", "ok", "error", "timeout", "gone"}]
  BY <1>1 DEF LabInv, LabType
<1> QED BY <1>2, <1>3, <1>4, <1>5, <1>6 DEF LabInv, LabType, StageInv

\* An answer that a caller has is not taken back, and a stopped writer stays stopped.
LEMMA CallKeeps ==
  ASSUME NEW c \in Caller, Admit(c) \/ Reject(c) \/ ReceiveReply(c) \/ Disconnect(c), TypeOK
  PROVE  /\ \A d \in Caller : call[d] = "ok" => call'[d] = "ok"
         /\ Stopped => Stopped'
BY DEF Admit, Reject, ReceiveReply, Disconnect, Waiting, TypeOK, Stopped, writer

\* Every step of the lab keeps LabInv.
LEMMA LabInvStep == Inv /\ LabInv /\ [LabNext]_labVars => LabInv'
<1> SUFFICES ASSUME Inv, LabInv, [LabNext]_labVars PROVE LabInv'
  OBVIOUS
<1>1. ASSUME NEW p \in Post, Acquire(p) PROVE LabInv'
  <2>1. ~Active /\ permits = 1 /\ permits' = 0 /\ stage' = "direct" /\ Active'
    BY <1>1 DEF Acquire, LabInv, LabType, Active
  <2>2. \A q \in Post : Running(q)' <=> q = p
    BY <1>1, <2>1 DEF Acquire, LabInv, LabType, Running
  <2> QED BY <1>1, <2>1, <2>2 DEF Acquire, LabInv, LabType, StageInv
<1>2. ASSUME NEW p \in Post, TurnAway(p) PROVE LabInv'
  <2>1. \A q \in Post : Running(q)' <=> Running(q)
    BY <1>2 DEF TurnAway, LabInv, LabType, Running
  <2>2. Active' <=> Active BY <1>2 DEF TurnAway, Active
  <2>3. call' = call /\ pc' = pc BY <1>2 DEF TurnAway, vars, callers, writer
  <2> QED BY <1>2, <2>1, <2>2, <2>3 DEF TurnAway, LabInv, LabType, StageInv, Stopped
<1>3. CASE DirectFails \/ CollectFails \/ WriterFails \/ Report \/ TimeOut \/ ClientLeaves
  <2>1. Active
    BY <1>3 DEF DirectFails, CollectFails, WriterFails, Report, TimeOut, ClientLeaves, Active
  <2>2. CASE DirectFails \/ CollectFails \/ WriterFails
    BY <2>1, <2>2, FinishKeeps DEF DirectFails, CollectFails, WriterFails
  <2>3. CASE Report BY <2>1, <2>3, FinishKeeps DEF Report
  <2>4. CASE TimeOut BY <2>1, <2>4, FinishKeeps DEF TimeOut
  <2>5. CASE ClientLeaves BY <2>1, <2>5, FinishKeeps DEF ClientLeaves
  <2> QED BY <1>3, <2>2, <2>3, <2>4, <2>5
<1>4. ASSUME UNCHANGED lab, \A c \in Caller : call[c] = "ok" => call'[c] = "ok",
             stage = "ended" => (Stopped => Stopped')
      PROVE  LabInv'
  <2>1. Active' <=> Active BY <1>4 DEF lab, Active
  <2>2. \A q \in Post : Running(q)' <=> Running(q) BY <1>4 DEF lab, Running
  <2> QED BY <1>4, <2>1, <2>2 DEF lab, LabInv, LabType, StageInv
<1>5. CASE Open
  <2>1. Active' /\ Active BY <1>5 DEF Open, Active
  <2>2. \A q \in Post : Running(q)' <=> Running(q) BY <1>5 DEF Open, Running
  <2> QED BY <1>5, <2>1, <2>2 DEF Open, LabInv, LabType, StageInv
<1>6. CASE Collect
  <2>1. Active' /\ Active BY <1>6 DEF Collect, Active
  <2>2. \A q \in Post : Running(q)' <=> Running(q) BY <1>6 DEF Collect, Running
  <2>3. counter = Saved + Cardinality(Caller) /\ \A c \in Caller : call[c] = "ok"
    BY <1>6, EveryoneOnce DEF Collect, AllAnswered
  <2>4. call' = call /\ final' = counter /\ counter \in Int
    BY <1>6 DEF Collect, callers, Inv, TypeOK
  <2> QED BY <1>6, <2>1, <2>2, <2>3, <2>4 DEF Collect, LabInv, LabType, StageInv
<1>7. ASSUME NEW c \in Caller, Call(c) PROVE LabInv'
  BY <1>4, <1>7, CallKeeps DEF Call, Inv
<1>8. CASE PollWriter
  <2>1. call' = call
    BY <1>8 DEF PollWriter, Work, Receive, SeeShutdown, ChannelGone, DrainDone, Update, Reply,
       ReplyError, StopAdmission, CloseReaders, CloseConnection, callers
  <2>2. stage # "ended" BY <1>8 DEF PollWriter
  <2> QED BY <1>4, <1>8, <2>1, <2>2 DEF PollWriter
<1>9. CASE SqliteThread
  BY <1>4, <1>9 DEF SqliteThread, Storage, Land, CommitFails, callers, writer, Stopped
<1>10. CASE UNCHANGED labVars
  BY <1>4, <1>10 DEF labVars, vars, callers, writer, Stopped
<1> QED
  BY <1>1, <1>2, <1>3, <1>5, <1>6, <1>7, <1>8, <1>9, <1>10 DEF LabNext

\* Both invariants hold throughout.
LEMMA LabInvAlways == LabSpec => [](Inv /\ LabInv)
<1>1. LabInit => LabInv BY LabInvInit
<1>2. Inv /\ LabInv /\ [LabNext]_labVars => LabInv' BY LabInvStep
<1> QED BY <1>1, <1>2, QueueInv, PTL DEF LabSpec

-----------------------------------------------------------------------------
(* The theorems.                                                           *)

\* The lab's state keeps its types; the permit is out exactly while an experiment runs.
THEOREM LabTypeCorrect == LabSpec => []LabTypeOK
<1>1. Inv /\ LabInv => LabTypeOK BY DEF Inv, LabInv, LabType, LabTypeOK
<1> QED BY <1>1, LabInvAlways, PTL

\* An experiment whose handler is gone has no writer, admits nothing and leaves no
\* caller waiting, wherever it was dropped: the next one starts alone.
THEOREM NoOrphanExperiment == LabSpec => []NothingOutlivesHandler
<1>1. Inv /\ LabInv => NothingOutlivesHandler
  <2> SUFFICES ASSUME Inv, LabInv, stage = "ended"
               PROVE  /\ Stopped /\ ~Admits
                      /\ \A c \in Caller : Waiting(c) => reply[c] # "unsent"
    BY DEF NothingOutlivesHandler
  <2>1. Stopped /\ closed BY DEF Inv, ControlInv, LabInv, StageInv
  <2>2. queue = <<>> /\ ~Busy BY <2>1 DEF Inv, ControlInv, Stopped, Busy
  <2>3. Len(queue) = 0 BY <2>2
  <2>4. \A c \in Caller : Waiting(c) => reply[c] # "unsent"
    BY <2>2, <2>3 DEF Inv, ReplyInv
  <2> QED BY <2>1, <2>4 DEF Admits
<1> QED BY <1>1, LabInvAlways, PTL

\* A queue of as many places as callers refuses nobody before it is closed.
THEOREM QueueSuffices == LabSpec => QueueFits
<1>1. Inv /\ [LabNext]_labVars =>
        [\A c \in Caller : call[c] = "idle" /\ call'[c] = "rejected" => closed]_labVars
  <2> SUFFICES ASSUME Inv, [LabNext]_labVars, NEW c \in Caller,
                      call[c] = "idle", call'[c] = "rejected"
               PROVE  closed
    OBVIOUS
  <2>1. CASE \E p \in Post : Acquire(p) \/ TurnAway(p)
    BY <2>1 DEF Acquire, TurnAway, vars, callers
  <2>2. ASSUME NEW d \in Caller, Call(d) PROVE closed
    <3>1. ~Admits /\ ~closed => FALSE
      <4>1. Len(queue) <= Len(accepted) /\ Len(accepted) < Cardinality(Caller)
        BY AtMostEveryone
      <4>2. Len(queue) \in Nat /\ Len(accepted) \in Nat /\ Cardinality(Caller) \in Nat
        BY LenProperties, FS_CardinalityType, LabAssumption DEF Inv, TypeOK
      <4> QED BY <4>1, <4>2, LabAssumption DEF Admits
    <3>2. Reject(d)
      BY <2>2 DEF Call, Admit, ReceiveReply, Disconnect, Told, Waiting, Inv, TypeOK, ReplyState
    <3> QED BY <3>1, <3>2 DEF Reject
  <2>3. ASSUME NEW response, Finish(response) PROVE FALSE
    <3>1. call' = call BY <2>3 DEF Finish, Drop, Abort, vars, callers
    <3> QED BY <3>1
  <2>4. CASE DirectFails \/ CollectFails \/ WriterFails \/ Report \/ TimeOut \/ ClientLeaves
    BY <2>3, <2>4 DEF DirectFails, CollectFails, WriterFails, Report, TimeOut, ClientLeaves
  <2>5. CASE Open BY <2>5 DEF Open
  <2>6. CASE PollWriter
    BY <2>6 DEF PollWriter, Work, Receive, SeeShutdown, ChannelGone, DrainDone, Update, Reply,
       ReplyError, StopAdmission, CloseReaders, CloseConnection, callers
  <2>7. CASE SqliteThread BY <2>7 DEF SqliteThread, Storage, Land, CommitFails, callers
  <2>8. CASE Collect BY <2>8 DEF Collect, callers
  <2>9. CASE UNCHANGED labVars BY <2>9 DEF labVars, vars, callers
  <2> QED BY <2>1, <2>2, <2>4, <2>5, <2>6, <2>7, <2>8, <2>9 DEF LabNext
<1> QED BY <1>1, QueueInv, PTL DEF LabSpec, QueueFits

\* The state in which an experiment reports: everybody's increment, in a closed file.
LEMMA CompleteWhenReported ==
  ASSUME Inv, LabInv, Report
  PROVE  /\ {log[i] : i \in DOMAIN log} = Caller
         /\ {value[c] : c \in Caller} = Saved + 1 .. final
         /\ final = Saved + Cardinality(Caller) /\ counter = final
         /\ pool = "closed" /\ commit = "none"
<1>1. /\ stage = "counted" /\ pc = "returned"
      /\ \A c \in Caller : call[c] = "ok"
      /\ final = Saved + Cardinality(Caller)
  BY DEF Report, LabInv, StageInv
<1>2. /\ Len(log) = Cardinality(Caller) /\ counter = final
      /\ \A c \in Caller : \E i \in 1 .. Len(log) : log[i] = c /\ value[c] = Saved + i
      /\ \A i, j \in 1 .. Len(log) : log[i] = log[j] => i = j
  BY <1>1, EveryoneOnce
<1>3. log \in Seq(Caller) /\ Len(log) \in Nat /\ DOMAIN log = 1 .. Len(log)
      /\ \A i \in 1 .. Len(log) : log[i] \in Caller
  BY LenProperties DEF Inv, TypeOK
<1>4. {log[i] : i \in DOMAIN log} = Caller
  BY <1>2, <1>3
<1>5. {value[c] : c \in Caller} = Saved + 1 .. final
  <2>1. ASSUME NEW c \in Caller PROVE value[c] \in Saved + 1 .. final
    BY <1>1, <1>2, <1>3, QueueAssumption
  <2>2. ASSUME NEW n \in Saved + 1 .. final PROVE \E c \in Caller : value[c] = n
    <3>1. n - Saved \in 1 .. Len(log) /\ n = Saved + (n - Saved)
      BY <1>1, <1>2, <1>3, QueueAssumption
    <3>2. PICK c \in Caller : c = log[n - Saved]
      BY <1>3, <3>1
    <3>3. PICK i \in 1 .. Len(log) : log[i] = c /\ value[c] = Saved + i
      BY <1>2
    <3>4. i = n - Saved BY <1>2, <3>1, <3>2, <3>3
    <3> QED BY <3>1, <3>3, <3>4
  <2> QED BY <2>1, <2>2
<1>6. pool = "closed" /\ commit = "none"
  BY <1>1 DEF Inv, ControlInv, TypeOK
<1> QED BY <1>1, <1>2, <1>4, <1>5, <1>6

\* What POST /contention reports of the queued round is complete: one increment of
\* every caller, in the values they were told, in a file that is closed again.
THEOREM CompleteReport == LabSpec => ReportIsComplete
<1> DEFINE Complete == /\ {log[i] : i \in DOMAIN log} = Caller
                       /\ {value[c] : c \in Caller} = Saved + 1 .. final
                       /\ final = Saved + Cardinality(Caller) /\ counter = final
                       /\ pool = "closed" /\ commit = "none"
<1>1. Inv /\ LabInv /\ [LabNext]_labVars =>
        [\A p \in Post : Running(p) /\ post'[p] = "ok" => Complete]_labVars
  <2> SUFFICES ASSUME Inv, LabInv, [LabNext]_labVars, NEW p \in Post,
                      Running(p), post'[p] = "ok"
               PROVE  Complete
    OBVIOUS
  <2>1. CASE Report BY <2>1, CompleteWhenReported
  <2>2. ASSUME NEW response, Finish(response), response # "ok" PROVE FALSE
    <3>1. PICK q \in Post : Running(q) /\ post' = [post EXCEPT ![q] = response]
      BY <2>2 DEF Finish
    <3>2. q = p BY <3>1 DEF LabInv, LabType
    <3> QED BY <2>2, <3>1, <3>2 DEF LabInv, LabType
  <2>3. CASE DirectFails \/ CollectFails \/ WriterFails \/ TimeOut \/ ClientLeaves
    <3>1. CASE DirectFails \/ CollectFails \/ WriterFails
      BY <2>2, <3>1 DEF DirectFails, CollectFails, WriterFails
    <3>2. CASE TimeOut BY <2>2, <3>2 DEF TimeOut
    <3>3. CASE ClientLeaves BY <2>2, <3>3 DEF ClientLeaves
    <3> QED BY <2>3, <3>1, <3>2, <3>3
  <2>4. ASSUME NEW q \in Post, Acquire(q) \/ TurnAway(q) PROVE FALSE
    <3>1. post[q] = "idle" /\ post'[p] = (IF p = q THEN post'[q] ELSE "running")
      BY <2>4 DEF Acquire, TurnAway, Running, LabInv, LabType
    <3> QED BY <3>1, <2>4 DEF Running
  <2>5. CASE (\E c \in Caller : Call(c)) \/ PollWriter \/ SqliteThread \/ UNCHANGED labVars
    BY <2>5 DEF Call, PollWriter, SqliteThread, lab, labVars, Running
  <2>6. CASE Open \/ Collect BY <2>6 DEF Open, Collect, Running
  <2> QED BY <2>1, <2>3, <2>4, <2>5, <2>6 DEF LabNext
<1> QED BY <1>1, LabInvAlways, PTL DEF LabSpec, ReportIsComplete
=============================================================================
