-------------------------- MODULE ApplicationProofs --------------------------
(***************************************************************************)
(* The safety of the write queue and of the process that drives it, for    *)
(* any callers, capacity and number of read connections.                   *)
(*                                                                         *)
(* The invariants of WriteQueue are not inductive: Inv adds what the       *)
(* writer's position says about the four places an admitted call can be    *)
(* (the queue, the writer's hands, the log, or nowhere any more).  Then    *)
(* the process is shown to drive the queue by WriteQueue's own steps, so   *)
(* that Inv holds inside it, and AppInv ties the supervisor's position to  *)
(* the tasks it supervises.                                                *)
(***************************************************************************)
EXTENDS Application, TLAPS, SequenceTheorems

-----------------------------------------------------------------------------
(* The write queue.                                                        *)

\* The current command is neither committed nor given up.
InFlight == pc = "execute" \/ commit = "sent" \/ (pc = "commit" /\ commit = "failed")
Busy == pc \in {"execute", "commit"}
Serving == pc \in {"select", "drain"} \/ Busy
InHand == IF InFlight THEN 1 ELSE 0

ControlInv ==
  /\ commit # "none" => pc \in {"commit", "aborted"}
  /\ pc = "commit" => commit # "none"
  /\ InFlight \/ Busy => current \in Caller
  /\ current # None => Busy \/ pc = "aborted"
  /\ Serving <=> result = "none"
  /\ result = "ok" => closed /\ shutdown
  /\ pc = "drain" => shutdown
  /\ Stopped => closed
  /\ closed => shutdown \/ Stopped \/ pc \in {"closeReaders", "closeConnection"}
  /\ pool # "open" => ~ready
  /\ pc \in {"closeReaders", "closeConnection"} => closed /\ pool # "open"
  /\ pc \in {"closeConnection", "returned"} => pool = "closed" /\ reading = 0
  /\ pc = "returned" => queue = <<>>
  /\ pc = "aborted" => queue = <<>> /\ result = "err"

\* accepted = log \o (the command in hand) \o (commands given up) \o queue
HistoryInv ==
  /\ Len(log) + InHand + Len(queue) <= Len(accepted)
  /\ Serving => Len(accepted) = Len(log) + InHand + Len(queue)
  /\ \A i \in 1 .. Len(log) : log[i] = accepted[i]
  /\ InFlight => accepted[Len(log) + 1] = current
  /\ \A i \in 1 .. Len(queue) : queue[i] = accepted[Len(accepted) - Len(queue) + i]

AdmissionInv ==
  /\ \A i, j \in 1 .. Len(accepted) : accepted[i] = accepted[j] => i = j
  /\ \A i \in 1 .. Len(accepted) : call[accepted[i]] \notin {"idle", "rejected"}

CounterInv ==
  /\ counter = Saved + Len(log)
  /\ commit = "sent" => written = counter + 1
  /\ commit = "done" =>
       written = counter /\ Len(log) > 0 /\ log[Len(log)] = current

ReplyInv ==
  /\ \A i \in 1 .. Len(queue) : reply[queue[i]] = "unsent"
  /\ Busy => reply[current] = "unsent"
  /\ commit = "sent" => reply[current] \in {"unsent", "dropped"}
  /\ \A c \in Caller :
       /\ call[c] \in {"idle", "rejected"} => reply[c] = "unsent"
       /\ call[c] = "ok" => reply[c] = "ok"
       /\ call[c] = "failed" => reply[c] = "failed"
       /\ reply[c] = "ok" => \E i \in 1 .. Len(log) : log[i] = c /\ value[c] = Saved + i
       /\ reply[c] = "failed" => \A i \in 1 .. Len(log) : log[i] # c
       /\ Waiting(c) /\ reply[c] = "unsent" =>
            (\E i \in 1 .. Len(queue) : queue[i] = c) \/ (Busy /\ c = current)

DrainInv ==
  /\ Serving => \A i \in 1 .. Len(log) :
       reply[log[i]] = "ok" \/ (commit = "done" /\ i = Len(log))
  /\ result = "ok" =>
       /\ Len(log) = Len(accepted)
       /\ \A i \in 1 .. Len(log) : reply[log[i]] = "ok"

\* What the caller's side of a call says about the writer's side.
CallInv ==
  /\ \A c \in Caller : call[c] \notin {"idle", "rejected"} =>
       \E i \in 1 .. Len(accepted) : accepted[i] = c
  /\ \A c \in Caller : call[c] = "unknown" => reply[c] = "dropped"
  /\ pc = "aborted" /\ commit = "sent" => reply[current] = "dropped"

Inv == /\ TypeOK /\ ControlInv /\ HistoryInv /\ AdmissionInv
       /\ CounterInv /\ ReplyInv /\ DrainInv /\ CallInv
-----------------------------------------------------------------------------
(* Type correctness.                                                       *)

\* What Append returns, element by element: the form in which Admit and Land use it.
LEMMA AppendFacts ==
  ASSUME NEW S, NEW s \in Seq(S), NEW e \in S
  PROVE  /\ Append(s, e) \in Seq(S)
         /\ Len(Append(s, e)) = Len(s) + 1
         /\ Len(s) \in Nat
         /\ \A i \in 1 .. Len(s) : Append(s, e)[i] = s[i]
         /\ Append(s, e)[Len(s) + 1] = e
OBVIOUS

\* What Head and Tail return, element by element: the form in which Receive uses them.
LEMMA HeadTailFacts ==
  ASSUME NEW S, NEW s \in Seq(S), s # <<>>
  PROVE  /\ Head(s) \in S /\ Head(s) = s[1]
         /\ Tail(s) \in Seq(S)
         /\ Len(s) \in Nat /\ Len(s) > 0
         /\ Len(Tail(s)) = Len(s) - 1
         /\ \A i \in 1 .. Len(Tail(s)) : Tail(s)[i] = s[i + 1]
BY HeadTailProperties, EmptySeq

\* Every step of a caller, of the writer or of the SQLite thread keeps the types,
\* and try_send never takes the queue past its capacity.
LEMMA TypeStep ==
  ASSUME TypeOK, ControlInv, [Next]_vars
  PROVE  TypeOK'
<1> USE QueueAssumption DEF TypeOK, CallState, ReplyState
<1> USE DEF callers, channel, flags, writer, sqlite, readers
<1>1. ASSUME NEW c \in Caller, Admit(c) PROVE TypeOK'
  <2>1. queue' \in Seq(Caller) /\ Len(queue') = Len(queue) + 1 /\ accepted' \in Seq(Caller)
    BY <1>1, AppendFacts DEF Admit
  <2>2. Len(queue) \in Nat /\ Len(queue) < Capacity
    BY <1>1, LenProperties DEF Admit, Admits
  <2> QED BY <1>1, <2>1, <2>2 DEF Admit
<1>2. ASSUME NEW c \in Caller, Reject(c) \/ ReceiveReply(c) \/ Disconnect(c) PROVE TypeOK'
  <2>1. CASE Reject(c) BY <2>1 DEF Reject
  <2>2. CASE ReceiveReply(c)
    <3>1. Told(reply[c]) \in {"ok", "failed", "unknown"} BY <2>2 DEF ReceiveReply, Told
    <3> QED BY <2>2, <3>1 DEF ReceiveReply
  <2>3. CASE Disconnect(c) BY <2>3 DEF Disconnect
  <2> QED BY <1>2, <2>1, <2>2, <2>3
<1>3. CASE BeginRead \/ EndRead BY <1>3 DEF BeginRead, EndRead
<1>4. CASE Owner
  <2>1. CASE StopReadiness BY <2>1 DEF StopReadiness
  <2>2. CASE RequestShutdown BY <2>2 DEF RequestShutdown
  <2>3. CASE ReleaseHandles
    <3>1. held' \in BOOLEAN BY <2>3 DEF ReleaseHandles
    <3>2. /\ UNCHANGED <<callers, channel, writer, sqlite, readers>>
          /\ ready' \in BOOLEAN /\ shutdown' \in BOOLEAN
      BY <2>3 DEF ReleaseHandles
    <3> QED BY <3>1, <3>2
  <2> QED BY <1>4, <2>1, <2>2, <2>3 DEF Owner
<1>5. CASE Receive
  <2>1. Head(queue) \in Caller /\ Tail(queue) \in Seq(Caller) /\ Len(Tail(queue)) = Len(queue) - 1
    BY <1>5, HeadTailFacts DEF Receive
  <2>2. Len(queue) \in Nat BY LenProperties
  <2> QED BY <1>5, <2>1, <2>2 DEF Receive
<1>6. CASE SeeShutdown \/ ChannelGone \/ DrainDone
  BY <1>6 DEF SeeShutdown, ChannelGone, DrainDone
<1>7. CASE Update BY <1>7 DEF Update
<1>8. CASE Land
  <2>1. current \in Caller BY <1>8 DEF Land, ControlInv, InFlight
  <2>2. log' \in Seq(Caller) BY <1>8, <2>1, AppendFacts DEF Land
  <2> QED BY <1>8, <2>2 DEF Land
<1>9. CASE CommitFails BY <1>9 DEF CommitFails
<1>10. CASE Reply BY <1>10 DEF Reply
<1>11. CASE ReplyError BY <1>11 DEF ReplyError
<1>12. CASE StopAdmission BY <1>12 DEF StopAdmission
<1>13. CASE CloseReaders BY <1>13 DEF CloseReaders
<1>14. CASE CloseConnection
  <2>1. queue' \in Seq(Caller) /\ Len(queue') = 0 BY <1>14 DEF CloseConnection
  <2> QED BY <1>14, <2>1 DEF CloseConnection, DropCommands
<1>15. CASE Abort
  <2>1. queue' \in Seq(Caller) /\ Len(queue') = 0 BY <1>15 DEF Abort
  <2> QED BY <1>15, <2>1 DEF Abort, DropCommands
<1>16. CASE UNCHANGED vars BY <1>16 DEF vars
<1> QED
  BY <1>1, <1>2, <1>3, <1>4, <1>5, <1>6, <1>7, <1>8, <1>9, <1>10, <1>11, <1>12, <1>13,
     <1>14, <1>15, <1>16 DEF Next, Client, Work, Storage
-----------------------------------------------------------------------------
(* The writer's control and the history, one lemma per part of Inv.        *)

\* Where the writer is fixes what it holds, what became of its COMMIT and which of
\* the channel, the pool and the flags it has already closed.
LEMMA ControlStep ==
  ASSUME TypeOK, ControlInv, [Next]_vars
  PROVE  ControlInv'
<1> USE QueueAssumption DEF ControlInv, InFlight, Busy, Serving, Stopped
<1> USE DEF callers, channel, flags, writer, sqlite, readers
<1>1. ASSUME NEW c \in Caller, Client(c) PROVE ControlInv'
  <2>1. CASE Admit(c) BY <2>1 DEF Admit, Admits
  <2>2. CASE Reject(c) BY <2>2 DEF Reject
  <2>3. CASE ReceiveReply(c) BY <2>3 DEF ReceiveReply
  <2>4. CASE Disconnect(c) BY <2>4 DEF Disconnect
  <2> QED BY <1>1, <2>1, <2>2, <2>3, <2>4 DEF Client
<1>2. CASE BeginRead BY <1>2 DEF BeginRead
<1>3. CASE EndRead BY <1>3 DEF EndRead, TypeOK
<1>4. CASE StopReadiness BY <1>4 DEF StopReadiness
<1>5. CASE RequestShutdown BY <1>5 DEF RequestShutdown
<1>6. CASE ReleaseHandles
  <2>1. UNCHANGED <<callers, channel, ready, shutdown, writer, sqlite, readers>>
    BY <1>6 DEF ReleaseHandles
  <2> QED BY <2>1
<1>7. CASE Receive
  <2>1. Head(queue) \in Caller BY <1>7, HeadTailFacts DEF Receive, TypeOK
  <2> QED BY <1>7, <2>1 DEF Receive
<1>8. CASE SeeShutdown BY <1>8 DEF SeeShutdown
<1>9. CASE ChannelGone BY <1>9 DEF ChannelGone
<1>10. CASE DrainDone BY <1>10 DEF DrainDone
<1>11. CASE Update BY <1>11 DEF Update
<1>12. CASE Land BY <1>12 DEF Land
<1>13. CASE CommitFails BY <1>13 DEF CommitFails
<1>14. CASE Reply BY <1>14 DEF Reply, Committed
<1>15. CASE ReplyError BY <1>15 DEF ReplyError
<1>16. CASE StopAdmission BY <1>16 DEF StopAdmission
<1>17. CASE CloseReaders BY <1>17 DEF CloseReaders, ReadersIdle
<1>18. CASE CloseConnection BY <1>18 DEF CloseConnection
<1>19. CASE Abort BY <1>19 DEF Abort
<1>20. CASE UNCHANGED vars BY <1>20 DEF vars
<1> QED
  BY <1>1, <1>2, <1>3, <1>4, <1>5, <1>6, <1>7, <1>8, <1>9, <1>10, <1>11, <1>12, <1>13,
     <1>14, <1>15, <1>16, <1>17, <1>18, <1>19, <1>20 DEF Next, Owner, Work, Storage

\* accepted stays the log, then the command in hand, then the queue: the receiver
\* takes the oldest command and only its COMMIT extends the log.
LEMMA HistoryStep ==
  ASSUME TypeOK, TypeOK', ControlInv, HistoryInv, [Next]_vars
  PROVE  HistoryInv'
<1> USE DEF HistoryInv, InHand, InFlight, Busy, Serving
<1> USE DEF callers, channel, flags, writer, sqlite, readers
<1>L. /\ Len(log) \in Nat /\ Len(queue) \in Nat /\ Len(accepted) \in Nat
      /\ Len(log') \in Nat /\ Len(queue') \in Nat /\ Len(accepted') \in Nat
      /\ log \in Seq(Caller) /\ queue \in Seq(Caller) /\ accepted \in Seq(Caller)
  BY LenProperties DEF TypeOK
<1>1. ASSUME NEW c \in Caller, Admit(c) PROVE HistoryInv'
  <2>1. /\ Len(queue') = Len(queue) + 1 /\ Len(accepted') = Len(accepted) + 1
        /\ \A i \in 1 .. Len(queue) : queue'[i] = queue[i]
        /\ \A i \in 1 .. Len(accepted) : accepted'[i] = accepted[i]
        /\ queue'[Len(queue) + 1] = c /\ accepted'[Len(accepted) + 1] = c
    BY <1>1, <1>L, AppendFacts DEF Admit
  <2>2. UNCHANGED <<log, pc, commit, current>>
    BY <1>1 DEF Admit
  <2>3. \A i \in 1 .. Len(queue') :
          queue'[i] = accepted'[Len(accepted') - Len(queue') + i]
    <3>1. TAKE i \in 1 .. Len(queue')
    <3>2. CASE i \in 1 .. Len(queue)
      <4>1. Len(accepted) - Len(queue) + i \in 1 .. Len(accepted) BY <3>2, <1>L
      <4>2. Len(accepted') - Len(queue') + i = Len(accepted) - Len(queue) + i BY <2>1, <1>L
      <4> QED BY <4>1, <4>2, <3>2, <2>1
    <3>3. CASE i = Len(queue) + 1 BY <3>3, <2>1, <1>L
    <3> QED BY <3>1, <3>2, <3>3, <2>1, <1>L
  <2>4. /\ \A i \in 1 .. Len(log) : i \in 1 .. Len(accepted)
        /\ InFlight => Len(log) + 1 \in 1 .. Len(accepted)
    BY <1>L
  <2>5. /\ \A i \in 1 .. Len(log') : log'[i] = accepted'[i]
        /\ InFlight' => accepted'[Len(log') + 1] = current'
    BY <2>1, <2>2, <2>4
  <2>6. /\ Len(log') + InHand' + Len(queue') <= Len(accepted')
        /\ Serving' => Len(accepted') = Len(log') + InHand' + Len(queue')
    <3>1. InHand' = InHand /\ (Serving' <=> Serving) /\ Len(log') = Len(log) BY <2>2
    <3>2. /\ Len(log) + InHand + Len(queue) <= Len(accepted)
          /\ Serving => Len(accepted) = Len(log) + InHand + Len(queue)
          /\ InHand \in {0, 1}
      OBVIOUS
    <3> HIDE DEF InHand, Serving
    <3> QED BY <3>1, <3>2, <2>1, <1>L
  <2> QED BY <2>3, <2>5, <2>6
<1>2. CASE UNCHANGED <<log, queue, accepted, pc, commit, current>>
  BY <1>2
<1>3. CASE Receive
  <2>1. /\ Len(queue') = Len(queue) - 1 /\ current' = queue[1] /\ Len(queue) > 0
        /\ \A i \in 1 .. Len(queue') : queue'[i] = queue[i + 1]
    BY <1>3, <1>L, HeadTailFacts DEF Receive
  <2>2. pc \in {"select", "drain"} /\ pc' = "execute" /\ UNCHANGED <<log, accepted, commit>>
    BY <1>3 DEF Receive
  <2>3. Len(accepted) = Len(log) + Len(queue) /\ commit = "none"
    BY <2>2 DEF ControlInv
  <2>4. queue[1] = accepted[Len(log) + 1]
    BY <2>1, <2>3, <1>L
  <2>5. \A i \in 1 .. Len(queue') :
          queue'[i] = accepted[Len(accepted) - Len(queue') + i]
    BY <2>1, <1>L
  <2> QED BY <2>1, <2>2, <2>3, <2>4, <2>5, <1>L
<1>4. CASE SeeShutdown \/ ChannelGone \/ DrainDone \/ StopAdmission \/ CloseReaders
  <2>1. /\ UNCHANGED <<log, queue, accepted, current, commit>>
        /\ ~Busy /\ ~Busy' /\ (Serving' => Serving)
    BY <1>4 DEF SeeShutdown, ChannelGone, DrainDone, StopAdmission, CloseReaders
  <2> QED BY <2>1, <1>L DEF ControlInv
<1>5. CASE Update BY <1>5, <1>L DEF Update, ControlInv
<1>6. CASE Land
  <2>1. current \in Caller BY <1>6 DEF Land, ControlInv
  <2>2. /\ Len(log') = Len(log) + 1 /\ log'[Len(log) + 1] = current
        /\ \A i \in 1 .. Len(log) : log'[i] = log[i]
    BY <1>6, <2>1, <1>L, AppendFacts DEF Land
  <2>3. /\ commit = "sent" /\ commit' = "done" /\ pc \in {"commit", "aborted"}
        /\ UNCHANGED <<pc, queue, accepted, current>>
    BY <1>6 DEF Land, ControlInv
  <2>4. \A i \in 1 .. Len(log') : log'[i] = accepted[i]
    <3>1. TAKE i \in 1 .. Len(log')
    <3>2. CASE i \in 1 .. Len(log) BY <3>2, <2>2
    <3>3. CASE i = Len(log) + 1 BY <3>3, <2>2, <2>3
    <3> QED BY <3>1, <3>2, <3>3, <2>2, <1>L
  <2> QED BY <2>2, <2>3, <2>4, <1>L
<1>7. CASE CommitFails BY <1>7, <1>L DEF CommitFails, ControlInv
<1>8. CASE Reply
  <2>1. /\ pc = "commit" /\ commit = "done" /\ pc' \in {"select", "drain"} /\ commit' = "none"
        /\ UNCHANGED <<log, queue, accepted>>
    BY <1>8 DEF Reply, Committed
  <2> QED BY <2>1, <1>L
<1>9. CASE ReplyError
  <2>1. /\ pc' = "stop" /\ commit' = "none"
        /\ UNCHANGED <<log, queue, accepted>>
    BY <1>9 DEF ReplyError
  <2> QED BY <2>1, <1>L
<1>10. CASE CloseConnection \/ Abort
  <2>1. /\ queue' = <<>> /\ pc' \in {"returned", "aborted"}
        /\ commit' = "sent" => commit = "sent" /\ current' = current
        /\ UNCHANGED <<log, accepted>>
    BY <1>10 DEF CloseConnection, Abort
  <2>2. Len(queue') = 0 BY <2>1
  <2> QED BY <2>1, <2>2, <1>L
<1>11. ASSUME NEW c \in Caller, Client(c), ~Admit(c)
       PROVE  UNCHANGED <<log, queue, accepted, pc, commit, current>>
  BY <1>11 DEF Client, Reject, ReceiveReply, Disconnect
<1>12. CASE BeginRead \/ EndRead \/ Owner \/ UNCHANGED vars
  <2>1. UNCHANGED <<log, queue, accepted, pc, commit, current>>
    BY <1>12 DEF BeginRead, EndRead, Owner, StopReadiness, RequestShutdown, ReleaseHandles, vars
  <2> QED BY <1>2, <2>1
<1> QED
  BY <1>1, <1>2, <1>3, <1>4, <1>5, <1>6, <1>7, <1>8, <1>9, <1>10, <1>11, <1>12
  DEF Next, Client, Work, Storage

\* The admitted calls are exactly those try_send accepted, each of them once.
LEMMA AdmissionStep ==
  ASSUME TypeOK, AdmissionInv, [Next]_vars
  PROVE  AdmissionInv'
<1> USE DEF AdmissionInv
<1> USE DEF callers, channel, flags, writer, sqlite, readers
<1>L. Len(accepted) \in Nat /\ accepted \in Seq(Caller) /\ call \in [Caller -> CallState]
  BY LenProperties DEF TypeOK
<1>E. \A i \in 1 .. Len(accepted) : accepted[i] \in Caller
  BY <1>L, ElementOfSeq
<1>1. ASSUME NEW c \in Caller, Admit(c) PROVE AdmissionInv'
  <2>1. /\ Len(accepted') = Len(accepted) + 1
        /\ \A i \in 1 .. Len(accepted) : accepted'[i] = accepted[i]
        /\ accepted'[Len(accepted) + 1] = c
    BY <1>1, <1>L, AppendFacts DEF Admit
  <2>2. call[c] = "idle" /\ call' = [call EXCEPT ![c] = "waiting"]
    BY <1>1 DEF Admit
  <2>3. \A i \in 1 .. Len(accepted) : accepted[i] # c /\ call'[accepted[i]] = call[accepted[i]]
    BY <2>2, <1>E, <1>L
  <2>4. \A i \in 1 .. Len(accepted') : i \in 1 .. Len(accepted) \/ i = Len(accepted) + 1
    BY <2>1, <1>L
  <2>5. call'[c] = "waiting" BY <2>2, <1>L
  <2> QED BY <2>1, <2>3, <2>4, <2>5
<1>2. ASSUME NEW c \in Caller, Reject(c) \/ ReceiveReply(c) \/ Disconnect(c)
      PROVE  AdmissionInv'
  <2>1. CASE Reject(c) BY <2>1, <1>E, <1>L DEF Reject
  <2>2. CASE ReceiveReply(c)
    <3>1. Told(reply[c]) \notin {"idle", "rejected"} BY DEF Told, TypeOK, ReplyState
    <3> QED BY <2>2, <3>1, <1>E, <1>L DEF ReceiveReply
  <2>3. CASE Disconnect(c) BY <2>3, <1>E, <1>L DEF Disconnect
  <2> QED BY <1>2, <2>1, <2>2, <2>3
<1>3. CASE UNCHANGED <<call, accepted>> BY <1>3
<1>4. CASE BeginRead \/ EndRead \/ Owner \/ Storage \/ UNCHANGED vars
  BY <1>3, <1>4
  DEF BeginRead, EndRead, Owner, StopReadiness, RequestShutdown, ReleaseHandles,
      Storage, Land, CommitFails, vars
<1>5. CASE Work \/ Abort
  BY <1>3, <1>5
  DEF Work, Receive, SeeShutdown, ChannelGone, DrainDone, Update, Reply, ReplyError,
      StopAdmission, CloseReaders, CloseConnection, Abort
<1> QED BY <1>1, <1>2, <1>4, <1>5 DEF Next, Client

\* The counter in the file is the saved value plus the number of commits.
LEMMA CounterStep ==
  ASSUME TypeOK, ControlInv, CounterInv, [Next]_vars
  PROVE  CounterInv'
<1> USE QueueAssumption DEF CounterInv
<1> USE DEF callers, channel, flags, writer, sqlite, readers
<1>L. /\ Len(log) \in Nat /\ log \in Seq(Caller) /\ counter \in Int /\ written \in Int
  BY LenProperties DEF TypeOK
<1>1. CASE UNCHANGED <<counter, log, commit, written, current>> BY <1>1
<1>2. CASE Receive
  <2>1. commit = "none" BY <1>2 DEF Receive, ControlInv
  <2> QED BY <1>2, <2>1 DEF Receive
<1>3. CASE Update
  <2>1. commit' = "sent" /\ written' = counter + 1 /\ UNCHANGED <<counter, log>>
    BY <1>3 DEF Update
  <2> QED BY <2>1
<1>4. CASE Land
  <2>1. current \in Caller BY <1>4 DEF Land, ControlInv, InFlight
  <2>2. Len(log') = Len(log) + 1 /\ log'[Len(log) + 1] = current
    BY <1>4, <2>1, <1>L, AppendFacts DEF Land
  <2>3. commit' = "done" /\ counter' = counter + 1 /\ UNCHANGED <<written, current>>
        /\ written = counter + 1
    BY <1>4 DEF Land
  <2> QED BY <2>2, <2>3, <1>L
<1>5. CASE CommitFails \/ Reply \/ ReplyError
  <2>1. commit' \notin {"sent", "done"} /\ UNCHANGED <<counter, log>>
    BY <1>5 DEF CommitFails, Reply, ReplyError
  <2> QED BY <2>1
<1>6. CASE Abort
  <2>1. /\ commit' \in {"sent", "none"} /\ (commit' = "sent" => commit = "sent")
        /\ UNCHANGED <<counter, log, written>>
    BY <1>6 DEF Abort
  <2> QED BY <2>1
<1>7. CASE BeginRead \/ EndRead \/ Owner \/ UNCHANGED vars
  BY <1>1, <1>7
  DEF BeginRead, EndRead, Owner, StopReadiness, RequestShutdown, ReleaseHandles, vars
<1>8. CASE SeeShutdown \/ ChannelGone \/ DrainDone \/ StopAdmission \/ CloseReaders \/ CloseConnection
  BY <1>1, <1>8
  DEF SeeShutdown, ChannelGone, DrainDone, StopAdmission, CloseReaders, CloseConnection
<1>9. ASSUME NEW c \in Caller, Client(c) PROVE CounterInv'
  BY <1>1, <1>9 DEF Client, Admit, Reject, ReceiveReply, Disconnect
<1> QED
  BY <1>2, <1>3, <1>4, <1>5, <1>6, <1>7, <1>8, <1>9 DEF Next, Work, Storage

\* The command in the writer's hands is one that no queued command and no
\* commit so far is about, until its own COMMIT is answered.
LEMMA HandIsFresh ==
  ASSUME TypeOK, ControlInv, HistoryInv, AdmissionInv, CounterInv
  PROVE  /\ \A i \in 1 .. Len(queue) : call[queue[i]] \notin {"idle", "rejected"}
         /\ InFlight \/ Busy => \A i \in 1 .. Len(queue) : queue[i] # current
         /\ InFlight => \A i \in 1 .. Len(log) : log[i] # current
         /\ InFlight \/ Busy => call[current] \notin {"idle", "rejected"}
<1>L. /\ Len(log) \in Nat /\ Len(queue) \in Nat /\ Len(accepted) \in Nat
      /\ InHand = IF InFlight THEN 1 ELSE 0
  BY LenProperties DEF TypeOK, InHand
<1> DEFINE at == IF InFlight THEN Len(log) + 1 ELSE Len(log)
<1>1. ASSUME InFlight \/ Busy
      PROVE  at \in 1 .. Len(accepted) /\ accepted[at] = current /\ at <= Len(log) + InHand
  <2>1. CASE InFlight BY <2>1, <1>L DEF HistoryInv
  <2>2. CASE ~InFlight
    <3>1. commit = "done" BY <1>1, <2>2 DEF InFlight, Busy, ControlInv, TypeOK
    <3>2. Len(log) > 0 /\ log[Len(log)] = current BY <3>1 DEF CounterInv
    <3> QED BY <2>2, <3>2, <1>L DEF HistoryInv
  <2> QED BY <2>1, <2>2
<1>2. ASSUME InFlight \/ Busy, NEW i \in 1 .. Len(queue) PROVE queue[i] # current
  <2>1. /\ queue[i] = accepted[Len(accepted) - Len(queue) + i]
        /\ Len(log) + InHand + Len(queue) <= Len(accepted)
    BY DEF HistoryInv
  <2>2. /\ Len(accepted) - Len(queue) + i \in 1 .. Len(accepted)
        /\ Len(accepted) - Len(queue) + i > Len(log) + InHand
    BY <2>1, <1>L
  <2>3. Len(accepted) - Len(queue) + i # at BY <1>1, <1>2, <2>2, <1>L
  <2> QED BY <1>1, <1>2, <2>1, <2>2, <2>3 DEF AdmissionInv
<1>3. ASSUME InFlight, NEW i \in 1 .. Len(log) PROVE log[i] # current
  <2>1. log[i] = accepted[i] /\ i \in 1 .. Len(accepted) /\ i # at
    BY <1>3, <1>1, <1>L DEF HistoryInv
  <2> QED BY <1>1, <1>3, <2>1 DEF AdmissionInv
<1>4. InFlight \/ Busy => call[current] \notin {"idle", "rejected"}
  BY <1>1 DEF AdmissionInv
<1>5. \A i \in 1 .. Len(queue) : call[queue[i]] \notin {"idle", "rejected"}
  <2>1. \A i \in 1 .. Len(queue) : Len(accepted) - Len(queue) + i \in 1 .. Len(accepted)
    BY <1>L DEF HistoryInv
  <2> QED BY <2>1 DEF HistoryInv, AdmissionInv
<1> QED BY <1>2, <1>3, <1>4, <1>5

\* A reply sender is used once: Ok after its own COMMIT, an error only when there
\* will be no COMMIT, dropped only by a writer that is gone.
LEMMA ReplyStep ==
  ASSUME TypeOK, TypeOK', ControlInv, HistoryInv, AdmissionInv, CounterInv, ReplyInv, [Next]_vars
  PROVE  ReplyInv'
<1> USE DEF ReplyInv, Busy, Waiting
<1> USE DEF callers, channel, flags, writer, sqlite, readers
<1>L. /\ Len(log) \in Nat /\ log \in Seq(Caller)
      /\ Len(queue) \in Nat /\ queue \in Seq(Caller)
      /\ call \in [Caller -> CallState] /\ reply \in [Caller -> ReplyState]
      /\ value \in [Caller -> Int]
  BY LenProperties DEF TypeOK
<1>E. \A i \in 1 .. Len(queue) : queue[i] \in Caller
  BY <1>L, ElementOfSeq
<1>1. ASSUME NEW c \in Caller, Admit(c) PROVE ReplyInv'
  <2>1. /\ Len(queue') = Len(queue) + 1 /\ queue'[Len(queue) + 1] = c
        /\ \A i \in 1 .. Len(queue) : queue'[i] = queue[i]
    BY <1>1, <1>L, AppendFacts DEF Admit
  <2>2. /\ call[c] = "idle" /\ call' = [call EXCEPT ![c] = "waiting"]
        /\ UNCHANGED <<reply, value, pc, current, commit, log>>
    BY <1>1 DEF Admit
  <2>3. \A i \in 1 .. Len(queue') : i \in 1 .. Len(queue) \/ i = Len(queue) + 1
    BY <2>1, <1>L
  <2>4. \A i \in 1 .. Len(queue) : i \in 1 .. Len(queue')
    BY <2>1, <1>L
  <2>5. Len(queue) + 1 \in 1 .. Len(queue')
    BY <2>1, <1>L
  <2>6. \A i \in 1 .. Len(queue') : reply'[queue'[i]] = "unsent"
    BY <2>1, <2>2, <2>3
  <2>7. ASSUME NEW d \in Caller, call'[d] = "waiting", reply'[d] = "unsent"
        PROVE  (\E i \in 1 .. Len(queue') : queue'[i] = d) \/ (Busy' /\ d = current')
    <3>1. CASE d = c BY <3>1, <2>1, <2>5
    <3>2. CASE d # c BY <3>2, <2>7, <2>1, <2>2, <2>4, <1>L
    <3> QED BY <3>1, <3>2
  <2>8. \A d \in Caller : d # c => call'[d] = call[d]
    BY <2>2, <1>L
  <2>9. call'[c] = "waiting" /\ reply[c] = "unsent"
    BY <2>2, <1>L
  <2> QED BY <2>2, <2>6, <2>7, <2>8, <2>9
<1>2. ASSUME NEW c \in Caller, Reject(c) \/ ReceiveReply(c) \/ Disconnect(c) PROVE ReplyInv'
  <2>1. CASE Reject(c) BY <2>1, <1>L DEF Reject
  <2>2. CASE ReceiveReply(c)
    <3>1. /\ reply[c] = "ok" => Told(reply[c]) = "ok"
          /\ reply[c] = "failed" => Told(reply[c]) = "failed"
          /\ reply[c] = "dropped" => Told(reply[c]) = "unknown"
          /\ reply[c] \in {"ok", "failed", "dropped"}
      BY <2>2, <1>L DEF ReceiveReply, Told, ReplyState
    <3> QED BY <2>2, <3>1, <1>L DEF ReceiveReply
  <2>3. CASE Disconnect(c) BY <2>3, <1>L DEF Disconnect
  <2> QED BY <1>2, <2>1, <2>2, <2>3
<1>3. CASE UNCHANGED <<call, reply, value, queue, log, pc, commit, current>> BY <1>3
<1>4. CASE Receive
  <2>1. /\ Len(queue') = Len(queue) - 1 /\ current' = queue[1] /\ Len(queue) > 0
        /\ \A i \in 1 .. Len(queue') : queue'[i] = queue[i + 1]
    BY <1>4, <1>L, HeadTailFacts DEF Receive
  <2>2. /\ pc \in {"select", "drain"} /\ pc' = "execute" /\ commit = "none"
        /\ UNCHANGED <<call, reply, value, log, commit>>
    BY <1>4 DEF Receive, ControlInv
  <2>3. \A i \in 1 .. Len(queue') : reply'[queue'[i]] = "unsent"
    <3>1. \A i \in 1 .. Len(queue') : i + 1 \in 1 .. Len(queue) BY <2>1, <1>L
    <3> QED BY <3>1, <2>1, <2>2
  <2>4. reply'[current'] = "unsent" BY <2>1, <2>2, <1>L
  <2>5. ASSUME NEW d \in Caller, call'[d] = "waiting", reply'[d] = "unsent"
        PROVE  (\E i \in 1 .. Len(queue') : queue'[i] = d) \/ (Busy' /\ d = current')
    <3>1. PICK i \in 1 .. Len(queue) : queue[i] = d BY <2>5, <2>2
    <3>2. CASE i = 1 BY <3>1, <3>2, <2>1, <2>2
    <3>3. CASE i # 1
      <4>1. i - 1 \in 1 .. Len(queue') /\ (i - 1) + 1 = i BY <3>3, <2>1, <1>L
      <4>2. queue'[i - 1] = queue[(i - 1) + 1] BY <4>1, <2>1
      <4>3. queue'[i - 1] = d BY <4>1, <4>2, <3>1
      <4> QED BY <4>1, <4>3
    <3> QED BY <3>2, <3>3
  <2> QED BY <2>2, <2>3, <2>4, <2>5
<1>5. CASE SeeShutdown \/ ChannelGone \/ DrainDone \/ StopAdmission \/ CloseReaders
  <2>1. /\ UNCHANGED <<call, reply, value, queue, log, commit, current>>
        /\ ~Busy /\ ~Busy'
    BY <1>5 DEF SeeShutdown, ChannelGone, DrainDone, StopAdmission, CloseReaders
  <2> QED BY <2>1
<1>6. CASE Update
  <2>1. /\ UNCHANGED <<call, reply, value, queue, log, current>> /\ Busy /\ Busy'
    BY <1>6 DEF Update
  <2> QED BY <2>1
<1>7. CASE Land
  <2>1. /\ current \in Caller /\ commit = "sent" /\ commit' = "done"
        /\ UNCHANGED <<call, reply, value, queue, pc, current>>
    BY <1>7 DEF Land, ControlInv, InFlight
  <2>2. /\ Len(log') = Len(log) + 1 /\ log'[Len(log) + 1] = current
        /\ \A i \in 1 .. Len(log) : log'[i] = log[i]
    BY <1>7, <2>1, <1>L, AppendFacts DEF Land
  <2>3. /\ \A i \in 1 .. Len(log) : i \in 1 .. Len(log')
        /\ \A i \in 1 .. Len(log') : i \in 1 .. Len(log) \/ i = Len(log) + 1
    BY <2>2, <1>L
  <2>4. reply[current] # "failed" BY <2>1
  <2>5. \A d \in Caller :
          /\ reply[d] = "ok" => \E i \in 1 .. Len(log') : log'[i] = d /\ value[d] = Saved + i
          /\ reply[d] = "failed" => \A i \in 1 .. Len(log') : log'[i] # d
    BY <2>2, <2>3, <2>4
  <2> QED BY <2>1, <2>5
<1>8. CASE CommitFails BY <1>8 DEF CommitFails
<1>9. CASE Reply
  <2>1. /\ pc = "commit" /\ commit = "done" /\ current \in Caller
        /\ commit' = "none" /\ ~Busy'
        /\ reply' = [reply EXCEPT ![current] = "ok"]
        /\ value' = [value EXCEPT ![current] = written]
        /\ UNCHANGED <<call, queue, log>>
    BY <1>9 DEF Reply, Committed, ControlInv
  <2>2. /\ value'[current] = Saved + Len(log) /\ log[Len(log)] = current
        /\ Len(log) \in 1 .. Len(log)
    BY <2>1, <1>L DEF CounterInv
  <2>3. /\ \A i \in 1 .. Len(queue) : queue[i] # current
        /\ call[current] \notin {"idle", "rejected", "failed"}
        /\ reply[current] = "unsent" /\ reply'[current] = "ok"
    BY <2>1, <1>L, HandIsFresh
  <2>4. \A d \in Caller : d # current => reply'[d] = reply[d] /\ value'[d] = value[d]
    BY <2>1, <1>L
  <2>5. \A i \in 1 .. Len(queue') : reply'[queue'[i]] = "unsent"
    BY <2>1, <2>3, <2>4, <1>E
  <2> QED BY <2>1, <2>2, <2>3, <2>4, <2>5
<1>10. CASE ReplyError
  <2>1. /\ InFlight /\ Busy /\ current \in Caller
        /\ commit' = "none" /\ ~Busy'
        /\ reply' = [reply EXCEPT ![current] = "failed"]
        /\ UNCHANGED <<call, value, queue, log>>
    BY <1>10 DEF ReplyError, ControlInv, InFlight
  <2>2. /\ \A i \in 1 .. Len(queue) : queue[i] # current
        /\ \A i \in 1 .. Len(log) : log[i] # current
        /\ call[current] \notin {"idle", "rejected", "ok"}
        /\ reply[current] = "unsent" /\ reply'[current] = "failed"
    BY <2>1, <1>L, HandIsFresh
  <2>3. \A d \in Caller : d # current => reply'[d] = reply[d]
    BY <2>1, <1>L
  <2>4. \A i \in 1 .. Len(queue') : reply'[queue'[i]] = "unsent"
    BY <2>1, <2>2, <2>3, <1>E
  <2> QED BY <2>1, <2>2, <2>3, <2>4
<1>11. CASE CloseConnection \/ Abort
  <2> DEFINE D == {c \in Caller : Queued(c) \/ (Abort /\ c = current)}
  <2>1. /\ UNCHANGED <<call, value, log>> /\ ~Busy'
        /\ commit' = "sent" => commit = "sent" /\ current' = current /\ current \in Caller
        /\ Len(queue') = 0
        /\ Busy => Abort
    BY <1>11 DEF CloseConnection, Abort, ControlInv, InFlight
  <2>2. \A d \in Caller : reply'[d] = IF d \in D THEN "dropped" ELSE reply[d]
    <3>1. CASE CloseConnection
      <4>1. ~Abort BY <3>1 DEF CloseConnection, Abort
      <4> QED BY <3>1, <4>1 DEF CloseConnection, DropCommands
    <3>2. CASE Abort BY <3>2 DEF Abort, DropCommands
    <3> QED BY <1>11, <3>1, <3>2
  <2>3. \A d \in D : reply[d] = "unsent" /\ call[d] \notin {"idle", "rejected"}
    <3>1. \A d \in Caller : Queued(d) => reply[d] = "unsent" /\ call[d] \notin {"idle", "rejected"}
      BY <1>L, HandIsFresh DEF Queued
    <3>2. ASSUME Abort, current \in Caller
          PROVE  reply[current] = "unsent" /\ call[current] \notin {"idle", "rejected"}
      <4>1. Busy BY <3>2, QueueAssumption DEF Abort, ControlInv
      <4> QED BY <4>1, HandIsFresh
    <3> QED BY <3>1, <3>2
  <2>4. \A d \in Caller : call[d] = "waiting" /\ reply[d] = "unsent" => d \in D
    BY <2>1, <1>L DEF Queued
  <2> HIDE DEF D
  <2>5. \A d \in Caller :
          /\ call'[d] \in {"idle", "rejected"} => reply'[d] = "unsent"
          /\ reply[d] # "unsent" => reply'[d] = reply[d]
          /\ reply'[d] \in {"ok", "failed"} => reply[d] = reply'[d]
          /\ call'[d] = "waiting" => reply'[d] # "unsent"
    BY <2>1, <2>2, <2>3, <2>4
  <2>6. commit' = "sent" => reply'[current'] \in {"unsent", "dropped"}
    BY <2>1, <2>2
  <2> QED BY <2>1, <2>5, <2>6
<1>12. CASE BeginRead \/ EndRead \/ Owner \/ UNCHANGED vars
  BY <1>3, <1>12
  DEF BeginRead, EndRead, Owner, StopReadiness, RequestShutdown, ReleaseHandles, vars
<1> QED
  BY <1>1, <1>2, <1>4, <1>5, <1>6, <1>7, <1>8, <1>9, <1>10, <1>11, <1>12
  DEF Next, Client, Work, Storage

\* A process that returned Ok has drained the channel and answered every command.
LEMMA DrainStep ==
  ASSUME TypeOK, TypeOK', ControlInv, HistoryInv, AdmissionInv, CounterInv, ReplyInv, DrainInv,
         [Next]_vars
  PROVE  DrainInv'
<1> USE DEF DrainInv, Serving, Busy
<1> USE DEF callers, channel, flags, writer, sqlite, readers
<1>L. /\ Len(log) \in Nat /\ log \in Seq(Caller) /\ Len(queue) \in Nat /\ Len(accepted) \in Nat
      /\ \A i \in 1 .. Len(log) : log[i] \in Caller
      /\ reply \in [Caller -> ReplyState]
  BY LenProperties, ElementOfSeq DEF TypeOK
<1>1. ASSUME NEW c \in Caller, Client(c) PROVE DrainInv'
  <2>1. /\ UNCHANGED <<log, reply, pc, commit, result>>
        /\ result = "ok" => UNCHANGED accepted
    BY <1>1 DEF Client, Admit, Admits, Reject, ReceiveReply, Disconnect, ControlInv
  <2> QED BY <2>1
<1>2. CASE UNCHANGED <<log, reply, pc, commit, result, accepted>> BY <1>2
<1>3. CASE Receive \/ SeeShutdown \/ ChannelGone \/ Update \/ StopAdmission \/ CloseReaders
  <2>1. /\ UNCHANGED <<log, reply, accepted>> /\ (Serving' => Serving)
        /\ result' = "ok" => result = "ok"
        /\ commit' \in {commit, "sent"} /\ (pc # "execute" => commit' = commit)
        /\ pc = "execute" => commit = "none"
    BY <1>3 DEF Receive, SeeShutdown, ChannelGone, Update, StopAdmission, CloseReaders, ControlInv
  <2> QED BY <2>1
<1>4. CASE DrainDone
  <2>1. /\ pc = "drain" /\ pc' = "stop" /\ commit = "none" /\ queue = <<>>
        /\ UNCHANGED <<log, reply, accepted>>
    BY <1>4 DEF DrainDone, ChannelEmpty, ControlInv
  <2>2. Len(queue) = 0 BY <2>1
  <2>3. Len(log) = Len(accepted) BY <2>1, <2>2, <1>L DEF HistoryInv, InHand, InFlight
  <2> QED BY <2>1, <2>3
<1>5. CASE Land
  <2>1. /\ current \in Caller /\ commit' = "done" /\ pc \in {"commit", "aborted"} /\ result # "ok"
        /\ commit = "sent" /\ UNCHANGED <<reply, pc, result>>
    BY <1>5 DEF Land, ControlInv, InFlight
  <2>2. Len(log') = Len(log) + 1 /\ \A i \in 1 .. Len(log) : log'[i] = log[i]
    BY <1>5, <2>1, <1>L, AppendFacts DEF Land
  <2>3. \A i \in 1 .. Len(log') : i \in 1 .. Len(log) \/ i = Len(log')
    BY <2>2, <1>L
  <2> QED BY <2>1, <2>2, <2>3
<1>6. CASE CommitFails
  <2>1. /\ commit = "sent" /\ UNCHANGED <<log, reply, pc, result, accepted>>
    BY <1>6 DEF CommitFails
  <2> QED BY <2>1
<1>7. CASE Reply
  <2>1. /\ commit = "done" /\ pc = "commit" /\ current \in Caller /\ result = "none"
        /\ reply' = [reply EXCEPT ![current] = "ok"]
        /\ UNCHANGED <<log, result, accepted>>
    BY <1>7 DEF Reply, Committed, ControlInv
  <2>2. log[Len(log)] = current BY <2>1 DEF CounterInv
  <2>3. \A i \in 1 .. Len(log) : reply'[log[i]] = "ok" BY <2>1, <2>2, <1>L
  <2> QED BY <2>1, <2>3
<1>8. CASE ReplyError \/ Abort
  <2>1. ~Serving' /\ result' = "err" BY <1>8 DEF ReplyError, Abort
  <2> QED BY <2>1
<1>9. CASE CloseConnection
  <2>1. /\ ~Serving' /\ (result' = "ok" => result = "ok") /\ UNCHANGED <<log, accepted>>
    BY <1>9 DEF CloseConnection
  <2>2. \A d \in Caller : reply[d] # "unsent" => reply'[d] = reply[d]
    <3>1. \A d \in Caller : reply[d] # "unsent" => ~Queued(d)
      BY LenProperties DEF Queued, ReplyInv, TypeOK
    <3> QED BY <3>1, <1>9 DEF CloseConnection, DropCommands
  <2> QED BY <2>1, <2>2, <1>L
<1>10. CASE BeginRead \/ EndRead \/ Owner \/ UNCHANGED vars
  BY <1>2, <1>10
  DEF BeginRead, EndRead, Owner, StopReadiness, RequestShutdown, ReleaseHandles, vars
<1> QED
  BY <1>1, <1>3, <1>4, <1>5, <1>6, <1>7, <1>8, <1>9, <1>10 DEF Next, Work, Storage
\* A reply sender is used at most once: what was sent, or dropped, stays.
LEMMA ReplyKept ==
  ASSUME TypeOK, ControlInv, ReplyInv, [Next]_vars, NEW c \in Caller, reply[c] # "unsent"
  PROVE  reply'[c] = reply[c]
<1> USE DEF callers, channel, flags, writer, sqlite, readers
<1>1. reply \in [Caller -> ReplyState] BY DEF TypeOK
<1>2. ~Queued(c)
  <2>1. DOMAIN queue = 1 .. Len(queue) BY LenProperties DEF TypeOK
  <2> QED BY <2>1 DEF Queued, ReplyInv
<1>3. Busy => c # current BY DEF ReplyInv
<1>4. CASE Reply \/ ReplyError
  <2>1. pc \in {"execute", "commit"} BY <1>4 DEF Reply, ReplyError
  <2>2. c # current BY <1>3, <2>1 DEF Busy
  <2>3. reply' = [reply EXCEPT ![current] = "ok"] \/ reply' = [reply EXCEPT ![current] = "failed"]
    BY <1>4 DEF Reply, ReplyError
  <2> QED BY <1>1, <2>2, <2>3
<1>5. CASE CloseConnection BY <1>2, <1>5 DEF CloseConnection, DropCommands
<1>6. CASE Abort
  <2>1. c # current
    <3>1. CASE Busy BY <1>3, <3>1
    <3>2. CASE ~Busy
      <4>1. current = None BY <1>6, <3>2 DEF Abort, ControlInv
      <4> QED BY <4>1, QueueAssumption
    <3> QED BY <3>1, <3>2
  <2> QED BY <1>2, <1>6, <2>1 DEF Abort, DropCommands
<1>7. CASE ~(Reply \/ ReplyError \/ CloseConnection \/ Abort)
  <2>1. CASE \E d \in Caller : Client(d)
    BY <2>1 DEF Client, Admit, Reject, ReceiveReply, Disconnect
  <2>2. CASE BeginRead \/ EndRead \/ Owner \/ Storage \/ UNCHANGED vars
    BY <2>2 DEF BeginRead, EndRead, Owner, StopReadiness, RequestShutdown, ReleaseHandles,
       Storage, Land, CommitFails, vars
  <2>3. CASE Work
    BY <1>7, <2>3 DEF Work, Receive, SeeShutdown, ChannelGone, DrainDone, Update, StopAdmission,
       CloseReaders
  <2> QED BY <1>7, <2>1, <2>2, <2>3 DEF Next
<1> QED BY <1>4, <1>5, <1>6, <1>7

\* A caller learns what was sent, and an abort drops the reply of the COMMIT it leaves.
LEMMA CallStep ==
  ASSUME TypeOK, ControlInv, ReplyInv, CallInv, [Next]_vars
  PROVE  CallInv'
<1> USE DEF callers, channel, flags, writer, sqlite, readers
<1>L. /\ call \in [Caller -> CallState] /\ reply \in [Caller -> ReplyState]
      /\ accepted \in Seq(Caller) /\ Len(accepted) \in Nat
  BY LenProperties DEF TypeOK
<1>1. \A c \in Caller : reply[c] = "dropped" => reply'[c] = "dropped" BY ReplyKept
<1>2. ASSUME NEW c \in Caller, call'[c] # call[c]
      PROVE  \/ Admit(c)
             \/ UNCHANGED accepted /\ call'[c] = "rejected"
             \/ UNCHANGED accepted /\ call[c] = "waiting" /\ call'[c] \in {Told(reply[c]), "gone"}
  <2>1. PICK d \in Caller : Client(d)
    <3>1. ~(BeginRead \/ EndRead \/ Owner \/ Storage \/ Abort \/ UNCHANGED vars)
      BY <1>2 DEF BeginRead, EndRead, Owner, StopReadiness, RequestShutdown, ReleaseHandles,
         Storage, Land, CommitFails, Abort, vars
    <3>2. ~Work
      BY <1>2 DEF Work, Receive, SeeShutdown, ChannelGone, DrainDone, Update, Reply, ReplyError,
         StopAdmission, CloseReaders, CloseConnection
    <3> QED BY <3>1, <3>2 DEF Next
  <2>2. c = d BY <1>2, <1>L, <2>1 DEF Client, Admit, Reject, ReceiveReply, Disconnect
  <2> QED BY <1>L, <2>1, <2>2 DEF Client, Reject, ReceiveReply, Disconnect, Waiting
<1>3. /\ Len(accepted') \in Nat /\ Len(accepted) <= Len(accepted')
      /\ \A i \in 1 .. Len(accepted) : accepted'[i] = accepted[i]
  <2>1. CASE \E c \in Caller : Admit(c) BY <1>L, <2>1, AppendFacts DEF Admit
  <2>2. CASE UNCHANGED accepted BY <1>L, <2>2
  <2>3. (\E c \in Caller : Admit(c)) \/ UNCHANGED accepted
    <3>1. Work \/ Storage \/ Abort => UNCHANGED accepted
      BY DEF Work, Receive, SeeShutdown, ChannelGone, DrainDone, Update, Reply, ReplyError,
         StopAdmission, CloseReaders, CloseConnection, Storage, Land, CommitFails, Abort
    <3> QED BY <3>1 DEF Next, Client, Reject, ReceiveReply, Disconnect, BeginRead, EndRead, Owner,
         StopReadiness, RequestShutdown, ReleaseHandles, vars
  <2> QED BY <2>1, <2>2, <2>3
<1>4. ASSUME NEW c \in Caller, call'[c] \notin {"idle", "rejected"}
      PROVE  \E i \in 1 .. Len(accepted') : accepted'[i] = c
  <2>1. CASE Admit(c)
    <3>1. Len(accepted') = Len(accepted) + 1 /\ accepted'[Len(accepted) + 1] = c
      BY <1>L, <2>1, AppendFacts DEF Admit
    <3> QED BY <1>L, <3>1
  <2>2. CASE ~Admit(c)
    <3>1. call[c] \notin {"idle", "rejected"} BY <1>2, <1>4, <2>2
    <3>2. PICK i \in 1 .. Len(accepted) : accepted[i] = c BY <3>1 DEF CallInv
    <3> QED BY <1>L, <1>3, <3>2
  <2> QED BY <2>1, <2>2
<1>5. ASSUME NEW c \in Caller, call'[c] = "unknown" PROVE reply'[c] = "dropped"
  <2>1. CASE call[c] = "unknown" BY <1>1, <2>1 DEF CallInv
  <2>2. CASE call[c] # "unknown"
    <3>1. ~Admit(c) BY <1>5, <1>L DEF Admit
    <3>2. call'[c] = Told(reply[c]) BY <1>2, <1>5, <2>2, <3>1
    <3>3. reply[c] = "dropped" BY <1>5, <1>L, <3>2 DEF Told, ReplyState
    <3> QED BY <1>1, <3>3
  <2> QED BY <2>1, <2>2
<1>6. ASSUME pc' = "aborted", commit' = "sent" PROVE reply'[current'] = "dropped"
  <2>1. CASE Abort
    <3>1. commit = "sent" /\ current' = current /\ current \in Caller
      BY <1>6, <2>1 DEF Abort, ControlInv, InFlight
    <3> QED BY <2>1, <3>1 DEF Abort, DropCommands
  <2>2. CASE ~Abort
    <3>1. pc = "aborted" /\ commit = "sent" /\ current' = current
      <4>1. ~Work
        BY <1>6 DEF Work, Receive, SeeShutdown, ChannelGone, DrainDone, Update, Reply, ReplyError,
           StopAdmission, CloseReaders, CloseConnection
      <4>2. ~Storage BY <1>6 DEF Storage, Land, CommitFails
      <4> QED BY <1>6, <2>2, <4>1, <4>2 DEF Next, Client, Admit, Reject, ReceiveReply, Disconnect,
             BeginRead, EndRead, Owner, StopReadiness, RequestShutdown, ReleaseHandles, vars
    <3>2. current \in Caller /\ reply[current] = "dropped"
      BY <3>1 DEF CallInv, ControlInv, InFlight
    <3> QED BY <1>1, <3>1, <3>2
  <2> QED BY <2>1, <2>2
<1> QED BY <1>4, <1>5, <1>6 DEF CallInv

-----------------------------------------------------------------------------
(* The invariant and what follows from it.                                 *)

\* Database::open leaves the queue in a state that satisfies Inv.
LEMMA InvInit == Init => Inv
<1> SUFFICES ASSUME Init PROVE Inv
  OBVIOUS
<1>1. /\ queue = <<>> /\ log = <<>> /\ accepted = <<>>
      /\ Len(queue) = 0 /\ Len(log) = 0 /\ Len(accepted) = 0
      /\ queue \in Seq(Caller) /\ log \in Seq(Caller) /\ accepted \in Seq(Caller)
  BY DEF Init
<1>2. TypeOK
  <2>1. /\ call \in [Caller -> CallState] /\ reply \in [Caller -> ReplyState]
        /\ value \in [Caller -> Int] /\ Len(queue) <= Capacity /\ reading \in 0 .. ReadSlots
        /\ current \in Caller \cup {None} /\ written \in Int /\ counter \in Int
    BY <1>1, QueueAssumption DEF Init, CallState, ReplyState
  <2>2. closed \in BOOLEAN /\ ready \in BOOLEAN /\ held \in BOOLEAN /\ shutdown \in BOOLEAN
    BY Zenon DEF Init
  <2> QED BY <1>1, <2>1, <2>2 DEF Init, TypeOK
<1>3. ControlInv BY DEF Init, ControlInv, InFlight, Busy, Serving, Stopped
<1>4. HistoryInv BY <1>1 DEF Init, HistoryInv, InHand, InFlight, Serving, Busy
<1>5. AdmissionInv BY <1>1 DEF AdmissionInv
<1>6. CounterInv BY <1>1, QueueAssumption DEF Init, CounterInv
<1>7. ReplyInv BY <1>1 DEF Init, ReplyInv, Busy, Waiting
<1>8. DrainInv BY <1>1 DEF Init, DrainInv
<1>9. CallInv BY DEF Init, CallInv
<1> QED BY <1>2, <1>3, <1>4, <1>5, <1>6, <1>7, <1>8, <1>9 DEF Inv

\* Inv is inductive.
LEMMA InvStep == Inv /\ [Next]_vars => Inv'
BY TypeStep, ControlStep, HistoryStep, AdmissionStep, CounterStep, ReplyStep, DrainStep,
   CallStep
DEF Inv

\* Inv holds in every state of the write queue.
LEMMA InvAlways == Spec => []Inv
BY InvInit, InvStep, PTL DEF Spec

\* Every variable of the write queue keeps its type; the queue never holds more
\* commands than its capacity.
THEOREM TypeCorrect == Spec => []TypeOK
<1>1. Inv => TypeOK BY DEF Inv
<1> QED BY <1>1, InvAlways, PTL

\* Increments commit in admission order without a gap.
THEOREM AdmissionOrder == Spec => []CommitsInAdmissionOrder
<1>1. Inv => CommitsInAdmissionOrder
  <2> SUFFICES ASSUME Inv PROVE CommitsInAdmissionOrder
    OBVIOUS
  <2>1. Len(log) \in Nat /\ Len(queue) \in Nat /\ Len(accepted) \in Nat /\ DOMAIN log = 1 .. Len(log)
    BY LenProperties DEF Inv, TypeOK
  <2> QED BY <2>1 DEF Inv, HistoryInv, InHand, CommitsInAdmissionOrder
<1> QED BY <1>1, InvAlways, PTL

\* No caller is ever told something the log contradicts.
THEOREM AnswersAreTrue == Spec => []AnswersMatchLog
<1>1. Inv => AnswersMatchLog
  <2> SUFFICES ASSUME Inv, NEW c \in Caller
               PROVE  /\ call[c] = "ok" => \E i \in DOMAIN log : log[i] = c /\ value[c] = Saved + i
                      /\ call[c] \in {"rejected", "failed"} => ~Logged(c)
    BY DEF AnswersMatchLog
  <2>1. /\ Len(log) \in Nat /\ Len(queue) \in Nat /\ Len(accepted) \in Nat
        /\ DOMAIN log = 1 .. Len(log)
    BY LenProperties DEF Inv, TypeOK
  <2>2. call[c] = "ok" => \E i \in DOMAIN log : log[i] = c /\ value[c] = Saved + i
    BY <2>1 DEF Inv, ReplyInv
  <2>3. call[c] = "failed" => ~Logged(c)
    BY <2>1 DEF Inv, ReplyInv, Logged
  <2>4. call[c] = "rejected" => ~Logged(c)
    <3>1. \A i \in 1 .. Len(log) : i \in 1 .. Len(accepted) /\ log[i] = accepted[i]
      BY <2>1 DEF Inv, HistoryInv, InHand
    <3> QED BY <2>1, <3>1 DEF Inv, AdmissionInv, Logged
  <2> QED BY <2>2, <2>3, <2>4
<1> QED BY <1>1, InvAlways, PTL

\* The value a caller is told is the position of its call in admission order, so a call
\* admitted after another one is told more.
AnswersInAdmissionOrder ==
  /\ \A i \in DOMAIN accepted : call[accepted[i]] = "ok" => value[accepted[i]] = Saved + i
  /\ \A i, j \in DOMAIN accepted :
       i < j /\ call[accepted[i]] = "ok" /\ call[accepted[j]] = "ok" =>
         value[accepted[i]] < value[accepted[j]]

\* The writer's order is the one in which try_send succeeded, and the replies show it.
THEOREM AnswersInOrder == Spec => []AnswersInAdmissionOrder
<1>1. Inv => AnswersInAdmissionOrder
  <2> SUFFICES ASSUME Inv PROVE AnswersInAdmissionOrder
    OBVIOUS
  <2>1. /\ Len(log) \in Nat /\ Len(queue) \in Nat /\ Len(accepted) \in Nat
        /\ DOMAIN accepted = 1 .. Len(accepted)
        /\ \A i \in 1 .. Len(accepted) : accepted[i] \in Caller
    BY LenProperties, ElementOfSeq DEF Inv, TypeOK
  <2>2. ASSUME NEW i \in 1 .. Len(accepted), call[accepted[i]] = "ok"
        PROVE  value[accepted[i]] = Saved + i
    <3>1. PICK k \in 1 .. Len(log) : log[k] = accepted[i] /\ value[accepted[i]] = Saved + k
      BY <2>1, <2>2 DEF Inv, ReplyInv
    <3>2. k \in 1 .. Len(accepted) /\ accepted[k] = accepted[i]
      <4>1. log[k] = accepted[k] BY <3>1 DEF Inv, HistoryInv
      <4>2. InHand \in Nat /\ Len(log) + InHand + Len(queue) <= Len(accepted)
        BY DEF InHand, Inv, HistoryInv
      <4> HIDE DEF Inv
      <4>3. Len(log) <= Len(accepted) BY <2>1, <4>2
      <4> QED BY <2>1, <3>1, <4>1, <4>3
    <3>3. k = i BY <3>2 DEF Inv, AdmissionInv
    <3> QED BY <3>1, <3>3
  <2>3. ASSUME NEW i \in 1 .. Len(accepted), NEW j \in 1 .. Len(accepted), i < j,
               call[accepted[i]] = "ok", call[accepted[j]] = "ok"
        PROVE  value[accepted[i]] < value[accepted[j]]
    <3>1. value[accepted[i]] = Saved + i /\ value[accepted[j]] = Saved + j BY <2>2, <2>3
    <3>2. Saved + i < Saved + j BY <2>1, <2>3, QueueAssumption
    <3> QED BY <3>1, <3>2
  <2> QED BY <2>1, <2>2, <2>3 DEF AnswersInAdmissionOrder
<1> QED BY <1>1, InvAlways, PTL

\* When run returns Ok every admitted call is committed and answered.
THEOREM CleanStop == Spec => []CleanStopRunsEverything
<1>1. Inv => CleanStopRunsEverything
  <2> SUFFICES ASSUME Inv, result = "ok"
               PROVE  log = accepted /\ \A i \in DOMAIN accepted : reply[accepted[i]] = "ok"
    BY DEF CleanStopRunsEverything
  <2>1. Len(log) = Len(accepted) /\ \A i \in 1 .. Len(log) : log[i] = accepted[i]
    BY DEF Inv, DrainInv, HistoryInv
  <2>2. log \in Seq(Caller) /\ accepted \in Seq(Caller) BY DEF Inv, TypeOK
  <2>3. log = accepted BY <2>1, <2>2, SeqEqual
  <2>4. DOMAIN accepted = 1 .. Len(accepted) BY <2>2, LenProperties
  <2> QED BY <2>1, <2>3, <2>4 DEF Inv, DrainInv
<1> QED BY <1>1, InvAlways, PTL

\* When the writer has stopped nobody waits for nothing, and the file is left alone but
\* for a COMMIT whose caller was told "unknown".
THEOREM Quiescence == Spec => []StoppedIsQuiescent
<1>1. Inv => StoppedIsQuiescent
  <2> SUFFICES ASSUME Inv, Stopped
               PROVE  /\ queue = <<>> /\ ~Admits
                      /\ \A c \in Caller : Waiting(c) => reply[c] # "unsent"
                      /\ commit = "sent" => pc = "aborted" /\ reply[current] = "dropped"
                      /\ pc = "returned" => reading = 0
    BY DEF StoppedIsQuiescent, Stopped
  <2>1. queue = <<>> /\ closed /\ ~Busy BY DEF Inv, ControlInv, Stopped, Busy
  <2>2. Len(queue) = 0 BY <2>1
  <2>3. \A c \in Caller : Waiting(c) => reply[c] # "unsent" BY <2>1, <2>2 DEF Inv, ReplyInv
  <2>4. commit = "sent" => pc = "aborted" /\ reply[current] = "dropped"
    BY DEF Inv, ControlInv, CallInv, Stopped
  <2>5. pc = "returned" => reading = 0 BY DEF Inv, ControlInv
  <2> QED BY <2>1, <2>3, <2>4, <2>5 DEF Admits
<1> QED BY <1>1, InvAlways, PTL
-----------------------------------------------------------------------------
(* The write queue implements CounterService.                              *)

\* A step that moves one call and nothing else a caller can see.
LEMMA OneCallMoves ==
  ASSUME TypeOK, NEW c \in Caller, NEW to \in CallState,
         call' = [call EXCEPT ![c] = to], value' = value
  PROVE  /\ \A d \in Caller : d # c => Outcome(d)' = Outcome(d) /\ Answer(d)' = Answer(d)
         /\ Outcome(c)' = CASE to = "waiting"  -> "pending"
                             [] to = "rejected" -> "refused"
                             [] to = "gone"     -> "unknown"
                             [] OTHER           -> to
         /\ Answer(c)' = IF to = "ok" THEN value[c] ELSE Saved
BY DEF Outcome, Answer, TypeOK

\* Every step of the write queue is a step of the abstract log or leaves it alone.
LEMMA ServiceStep ==
  ASSUME Inv, [Next]_vars
  PROVE  [Service!Next]_(Service!vars)
<1> USE DEF callers, channel, flags, writer, sqlite, readers
<1> USE DEF Service!Next, Service!Settle
<1>T. TypeOK BY DEF Inv
<1>1. ASSUME NEW c \in Caller, Admit(c) PROVE Service!Submit(c)
  <2>1. /\ call[c] = "idle" /\ call' = [call EXCEPT ![c] = "waiting"]
        /\ UNCHANGED <<value, log>>
    BY <1>1 DEF Admit
  <2>2. "waiting" \in CallState BY DEF CallState
  <2>3. Outcome(c) = "idle" /\ Answer(c) = Saved BY <2>1 DEF Outcome, Answer
  <2> QED BY <1>T, <2>1, <2>2, <2>3, OneCallMoves DEF Service!Submit
<1>2. ASSUME NEW c \in Caller, Reject(c) PROVE Service!Refuse(c)
  <2>1. /\ call[c] = "idle" /\ call' = [call EXCEPT ![c] = "rejected"]
        /\ UNCHANGED <<value, log>>
    BY <1>2 DEF Reject
  <2>2. "rejected" \in CallState BY DEF CallState
  <2>3. Outcome(c) = "idle" /\ Answer(c) = Saved BY <2>1 DEF Outcome, Answer
  <2> QED BY <1>T, <2>1, <2>2, <2>3, OneCallMoves DEF Service!Refuse
<1>3. ASSUME NEW c \in Caller, Disconnect(c) PROVE Service!Abandon(c)
  <2>1. /\ call[c] = "waiting" /\ call' = [call EXCEPT ![c] = "gone"]
        /\ UNCHANGED <<value, log>>
    BY <1>3 DEF Disconnect, Waiting
  <2>2. "gone" \in CallState BY DEF CallState
  <2>3. Outcome(c) = "pending" /\ Answer(c) = Saved BY <2>1 DEF Outcome, Answer
  <2> QED BY <1>T, <2>1, <2>2, <2>3, OneCallMoves DEF Service!Abandon
<1>4. ASSUME NEW c \in Caller, ReceiveReply(c)
      PROVE  Service!Acknowledge(c) \/ Service!Fail(c) \/ Service!Abandon(c)
  <2>1. /\ call[c] = "waiting" /\ reply[c] # "unsent"
        /\ call' = [call EXCEPT ![c] = Told(reply[c])]
        /\ UNCHANGED <<value, log>>
    BY <1>4 DEF ReceiveReply, Waiting
  <2>2. Outcome(c) = "pending" /\ Answer(c) = Saved BY <2>1 DEF Outcome, Answer
  <2>3. DOMAIN log = 1 .. Len(log) BY <1>T, LenProperties DEF TypeOK
  <2>4. CASE reply[c] = "ok"
    <3>1. Told(reply[c]) = "ok" /\ "ok" \in CallState BY <2>4 DEF Told, CallState
    <3>2. PICK i \in DOMAIN log : log[i] = c /\ value[c] = Saved + i
      BY <2>3, <2>4 DEF Inv, ReplyInv
    <3>3. Outcome(c)' = "ok" /\ Answer(c)' = Saved + i
      BY <1>T, <2>1, <3>1, <3>2, OneCallMoves
    <3>4. \A d \in Caller : d # c => Outcome(d)' = Outcome(d) /\ Answer(d)' = Answer(d)
      BY <1>T, <2>1, <3>1, OneCallMoves
    <3> QED BY <2>1, <2>2, <3>2, <3>3, <3>4 DEF Service!Acknowledge
  <2>5. CASE reply[c] = "failed"
    <3>1. Told(reply[c]) = "failed" /\ "failed" \in CallState BY <2>5 DEF Told, CallState
    <3>2. ~Service!Applied(c) BY <2>3, <2>5 DEF Inv, ReplyInv, Service!Applied
    <3> QED BY <1>T, <2>1, <2>2, <3>1, <3>2, OneCallMoves DEF Service!Fail
  <2>6. CASE reply[c] = "dropped"
    <3>1. Told(reply[c]) = "unknown" /\ "unknown" \in CallState BY <2>6 DEF Told, CallState
    <3> QED BY <1>T, <2>1, <2>2, <3>1, OneCallMoves DEF Service!Abandon
  <2> QED BY <1>T, <2>1, <2>4, <2>5, <2>6 DEF TypeOK, ReplyState
<1>5. ASSUME Land PROVE current \in Caller /\ Service!Apply(current)
  <2>1. /\ commit = "sent" /\ InFlight /\ current \in Caller
        /\ log' = Append(log, current) /\ UNCHANGED <<call, value>>
    BY <1>5 DEF Land, Inv, ControlInv, InFlight
  <2>2. \A i \in 1 .. Len(log) : log[i] # current
    BY <1>T, <2>1, HandIsFresh DEF Inv
  <2>3. DOMAIN log = 1 .. Len(log) BY <1>T, LenProperties DEF TypeOK
  <2>4. call[current] \notin {"idle", "rejected"}
    BY <1>T, <2>1, HandIsFresh DEF Inv
  <2>5. call[current] \notin {"ok", "failed"}
    BY <2>1 DEF Inv, ReplyInv
  <2>6. Outcome(current) \in {"pending", "unknown"}
    BY <1>T, <2>1, <2>4, <2>5 DEF Outcome, TypeOK, CallState
  <2>7. \A d \in Caller : Outcome(d)' = Outcome(d) /\ Answer(d)' = Answer(d)
    BY <2>1 DEF Outcome, Answer
  <2> QED BY <2>1, <2>2, <2>3, <2>6, <2>7 DEF Service!Apply, Service!Applied
<1>6. ASSUME UNCHANGED <<call, log>>,
             \A d \in Caller : value'[d] = value[d] \/ call[d] # "ok"
      PROVE  UNCHANGED Service!vars
  <2>1. \A d \in Caller : Outcome(d)' = Outcome(d) /\ Answer(d)' = Answer(d)
    BY <1>6 DEF Outcome, Answer
  <2> QED BY <1>6, <2>1 DEF Service!vars
<1>7. CASE Reply
  <2>1. /\ pc = "commit" /\ current \in Caller /\ UNCHANGED <<call, log>>
        /\ value' = [value EXCEPT ![current] = written]
    BY <1>7 DEF Reply, Inv, ControlInv, Busy
  <2>2. call[current] # "ok" BY <2>1 DEF Inv, ReplyInv, Busy
  <2>3. \A d \in Caller : d # current => value'[d] = value[d] BY <1>T, <2>1 DEF TypeOK
  <2> QED BY <1>6, <2>1, <2>2, <2>3
<1>8. CASE BeginRead \/ EndRead \/ Owner \/ CommitFails \/ Abort \/ UNCHANGED vars
  <2>1. UNCHANGED <<call, value, log>>
    BY <1>8 DEF BeginRead, EndRead, Owner, StopReadiness, RequestShutdown, ReleaseHandles,
       CommitFails, Abort, vars
  <2> QED BY <1>6, <2>1
<1>9. CASE Work /\ ~Reply
  <2>1. UNCHANGED <<call, value, log>>
    BY <1>9 DEF Work, Receive, SeeShutdown, ChannelGone, DrainDone, Update, ReplyError,
       StopAdmission, CloseReaders, CloseConnection
  <2> QED BY <1>6, <2>1
<1> QED
  BY <1>1, <1>2, <1>3, <1>4, <1>5, <1>7, <1>8, <1>9 DEF Next, Client, Work, Storage

\* The queue, its writer and its SQLite thread together are one atomic log of
\* increments: every step is a step of CounterService or invisible in it.
THEOREM Refinement == Spec => ImplementsService
<1>1. Init => Service!Init
  BY DEF Init, Service!Init, Outcome, Answer
<1>2. Inv /\ [Next]_vars => [Service!Next]_(Service!vars)
  BY ServiceStep
<1> QED BY <1>1, <1>2, InvAlways, PTL DEF Spec, ImplementsService, Service!Spec

-----------------------------------------------------------------------------
(* Every step of the process is a step of the write queue or none.         *)

\* A step of the readiness probe is a reader's step or none for the queue, and runs
\* only in a handler.
LEMMA ProbeStep ==
  ASSUME ProbeHandler
  PROVE  /\ BeginRead \/ EndRead \/ UNCHANGED vars
         /\ sup \notin {"start", "exited"} /\ http \notin {"none", "ok"}
         /\ probe' \in {"asked", "reading", "ready", "refused"}
         /\ UNCHANGED <<requested, cancel, sup, http, httpKept, writerKept, connected, expired,
                       failure, exit>>
         /\ UNCHANGED <<callers, channel, flags, writer, sqlite, pool>>
<1> USE DEF ProbeTo, Handlers, Alive, readers, vars
<1>1. CASE Probe BY <1>1 DEF Probe
<1>2. CASE ProbeBegins BY <1>2 DEF ProbeBegins, BeginRead
<1>3. CASE ProbeAnswers BY <1>3 DEF ProbeAnswers, EndRead
<1>4. CASE ProbeFails BY <1>4 DEF ProbeFails, EndRead
<1> QED BY <1>1, <1>2, <1>3, <1>4 DEF ProbeHandler

\* The supervisor never gives its Database away.
LEMMA HeldStep == held /\ [AppNext]_appVars => held'
<1> SUFFICES ASSUME held, [AppNext]_appVars PROVE held'
  OBVIOUS
<1> USE DEF vars, callers, channel, flags, writer, sqlite, readers, process
<1>1. CASE Signal \/ HttpDrains \/ HttpDrained \/ HttpDies \/ \E c \in Caller : Connect(c) \/ HangUp(c)
  BY <1>1 DEF Signal, HttpDrains, HttpDrained, HttpDies, HttpStep, Connect, HangUp
<1>2. ASSUME NEW c \in Caller, Handle(c) PROVE held'
  BY <1>2 DEF Handle, Client, Admit, Reject, ReceiveReply, Disconnect
<1>3. CASE ReadHandler \/ StorageStep \/ WriterDies
  BY <1>3 DEF ReadHandler, BeginRead, EndRead, StorageStep, Storage, Land, CommitFails,
     WriterDies, Abort
<1>4. CASE WriterStep
  BY <1>4 DEF WriterStep, Work, Receive, SeeShutdown, ChannelGone, DrainDone, Update, Reply,
     ReplyError, StopAdmission, CloseReaders, CloseConnection
<1>5. CASE Supervise \/ Expire
  BY <1>5 DEF Supervise, Build, StopBeforeOpen, Serve, StopRequested, PrepareFails, HttpLost,
     WriterLost, TellWriter, FinishDrain, Aborted, BeginShutdown, Expire
<1>6. CASE ProbeHandler
  <2>1. UNCHANGED flags BY <1>6, ProbeStep
  <2> QED BY <2>1
<1>7. CASE UNCHANGED appVars BY <1>7 DEF appVars
<1> QED BY <1>1, <1>2, <1>3, <1>4, <1>5, <1>6, <1>7 DEF AppNext

\* Every step of the process is a step of the write queue or leaves it alone.
LEMMA QueueStep == held /\ [AppNext]_appVars => [Next]_vars
<1> SUFFICES ASSUME held, [AppNext]_appVars PROVE [Next]_vars
  OBVIOUS
<1>1. CASE Signal \/ HttpDrains \/ HttpDrained \/ HttpDies \/ \E c \in Caller : Connect(c) \/ HangUp(c)
  BY <1>1 DEF Signal, HttpDrains, HttpDrained, HttpDies, HttpStep, Connect, HangUp
<1>2. CASE \E c \in Caller : Handle(c) BY <1>2 DEF Handle, Next
<1>3. CASE ReadHandler \/ WriterStep \/ StorageStep \/ WriterDies
  BY <1>3 DEF ReadHandler, WriterStep, StorageStep, WriterDies, Next
<1>4. ASSUME NEW from, NEW failed, BeginShutdown(from, failed) PROVE StopReadiness
  BY <1>4 DEF BeginShutdown, StopReadiness
<1>5. CASE StopRequested \/ PrepareFails \/ HttpLost \/ WriterLost
  BY <1>4, <1>5 DEF StopRequested, PrepareFails, HttpLost, WriterLost, Next, Owner
<1>6. CASE TellWriter \/ Expire
  <2>1. RequestShutdown BY <1>6 DEF TellWriter, Expire, RequestShutdown
  <2> QED BY <2>1 DEF Next, Owner
<1>7. CASE Build \/ StopBeforeOpen \/ Serve \/ FinishDrain \/ Aborted
  BY <1>7 DEF Build, StopBeforeOpen, Serve, FinishDrain, Aborted
<1>8. CASE ProbeHandler BY <1>8, ProbeStep DEF Next
<1>9. CASE UNCHANGED appVars BY <1>9 DEF appVars
<1> QED BY <1>1, <1>2, <1>3, <1>5, <1>6, <1>7, <1>8, <1>9 DEF AppNext, Supervise

\* Inside the process the write queue keeps its specification, and with it every
\* property proved of it.
THEOREM QueueImplemented == AppSpec => ImplementsQueue
<1>1. AppInit => held /\ Init BY DEF AppInit, Init
<1>2. held /\ [AppNext]_appVars => held' BY HeldStep
<1>3. held /\ [AppNext]_appVars => [Next]_vars BY QueueStep
<1> QED BY <1>1, <1>2, <1>3, PTL DEF AppSpec, Spec, ImplementsQueue

\* And so the whole process is one atomic log of increments, whatever is signalled,
\* dies or runs out of time.
THEOREM ServiceImplemented == AppSpec => ImplementsService
BY QueueImplemented, Refinement DEF ImplementsQueue

-----------------------------------------------------------------------------
(* What the supervisor's position says about its tasks.                    *)

TaskInv ==
  /\ http \in {"none", "ok"} => HandlersDone
  /\ http \in {"serving", "draining"} => httpKept
  /\ shutdown /\ ~expired => http \notin {"serving", "draining"}
  /\ \A c \in Caller : c \notin connected => call[c] = "idle"
  /\ sup \in {"start", "prepare"} => http = "none" /\ ~httpKept
  /\ sup \in {"start", "prepare", "running", "drainHttp"} => ~shutdown
  /\ sup = "start" => ~writerKept /\ accepted = <<>> /\ log = <<>>
  /\ sup \in {"prepare", "running"} => writerKept
  /\ sup = "running" => httpKept
  /\ sup = "drainWriter" => ~httpKept
  /\ sup \in {"drainWriter", "abortWait"} => shutdown
  /\ Alive => writerKept \/ Stopped
  /\ sup = "exited" => ~httpKept /\ ~writerKept /\ (shutdown => Stopped)

\* failure is FALSE only while nothing went wrong.
FailureInv ==
  /\ sup = "drainHttp" /\ ~failure => requested /\ writerKept /\ (httpKept \/ http = "none")
  /\ sup = "drainWriter" /\ ~failure => requested /\ writerKept /\ http \in {"none", "ok"}
  /\ exit = "ok" =>
       /\ sup = "exited" /\ requested /\ http \in {"none", "ok"}
       /\ shutdown => pc = "returned" /\ result = "ok"
       /\ ~shutdown => accepted = <<>> /\ log = <<>>

ProcessType ==
  /\ requested \in BOOLEAN /\ cancel \in BOOLEAN
  /\ sup \in {"start", "prepare", "running", "drainHttp", "drainWriter", "abortWait", "exited"}
  /\ http \in {"none", "serving", "draining", "ok", "failed"}
  /\ httpKept \in BOOLEAN /\ writerKept \in BOOLEAN
  /\ connected \in SUBSET Caller
  /\ probe \in {"none", "asked", "reading", "ready", "refused"}
  /\ expired \in BOOLEAN /\ failure \in BOOLEAN
  /\ exit \in {"none", "ok", "err"}

\* What takes readiness back, and the probe's share of the readers.
ReadyInv ==
  /\ ProbeReads <= reading
  /\ sup \in {"drainHttp", "drainWriter", "abortWait"} \/ shutdown => cancel
  /\ ~ready => cancel \/ result # "none"

AppInv == ProcessType /\ TaskInv /\ FailureInv /\ ReadyInv

\* The supervisor's variables keep their types.
LEMMA ProcessTypeStep ==
  ASSUME ProcessType, [AppNext]_appVars
  PROVE  ProcessType'
<1> USE DEF ProcessType
<1>1. CASE UNCHANGED process BY <1>1 DEF process
<1>2. CASE (\E c \in Caller : Handle(c)) \/ ReadHandler \/ WriterStep \/ StorageStep \/ WriterDies \/ UNCHANGED appVars
  BY <1>1, <1>2 DEF Handle, ReadHandler, WriterStep, StorageStep, WriterDies, appVars
<1>3. CASE Signal BY <1>3 DEF Signal
<1>4. CASE \E c \in Caller : Connect(c) \/ HangUp(c) BY <1>4 DEF Connect, HangUp
<1>5. CASE HttpDrains \/ HttpDrained \/ HttpDies
  BY <1>5 DEF HttpDrains, HttpDrained, HttpDies, HttpStep
<1>6. CASE Build BY <1>6 DEF Build, Exit
<1>7. CASE StopBeforeOpen BY <1>7 DEF StopBeforeOpen, Exit
<1>8. CASE Serve BY <1>8 DEF Serve
<1>9. CASE StopRequested BY <1>9 DEF StopRequested, BeginShutdown
<1>10. CASE PrepareFails BY <1>10 DEF PrepareFails, BeginShutdown
<1>11. CASE HttpLost BY <1>11 DEF HttpLost, BeginShutdown
<1>12. CASE WriterLost BY <1>12 DEF WriterLost, BeginShutdown
<1>13. CASE TellWriter BY <1>13 DEF TellWriter
<1>14. CASE FinishDrain BY <1>14 DEF FinishDrain, Exit
<1>15. CASE Expire BY <1>15 DEF Expire
<1>16. CASE Aborted BY <1>16 DEF Aborted, Exit
<1>17. CASE ProbeHandler BY <1>17, ProbeStep
<1> QED
  BY <1>2, <1>3, <1>4, <1>5, <1>6, <1>7, <1>8, <1>9, <1>10, <1>11, <1>12, <1>13, <1>14,
     <1>15, <1>16, <1>17 DEF AppNext, Supervise

\* What a step of the writer or of the SQLite thread leaves alone.
LEMMA WriterSideStep ==
  ASSUME Work \/ Storage \/ Abort
  PROVE  /\ UNCHANGED <<call, reading, shutdown, accepted>>
         /\ Stopped => Stopped'
<1> USE DEF Stopped, callers, channel, flags, writer, sqlite, readers
<1>1. CASE Storage BY <1>1 DEF Storage, Land, CommitFails
<1>2. CASE Abort BY <1>2 DEF Abort
<1>3. CASE Work
  BY <1>3 DEF Work, Receive, SeeShutdown, ChannelGone, DrainDone, Update, Reply, ReplyError,
     StopAdmission, CloseReaders, CloseConnection
<1> QED BY <1>1, <1>2, <1>3

\* The supervisor keeps a task's handle exactly until the task is over, and tells
\* the writer to stop only when HTTP is over or the deadline has passed.
LEMMA TaskStep ==
  ASSUME TypeOK, ProcessType, TaskInv, [AppNext]_appVars
  PROVE  TaskInv'
<1> USE DEF TaskInv, HandlersDone, Handling, Asking, Alive, Stopped, HttpStopped, ProcessType
<1> USE DEF vars, callers, channel, flags, writer, sqlite, readers, process
<1>1. CASE Signal BY <1>1 DEF Signal
<1>2. ASSUME NEW c \in Caller, Connect(c) \/ HangUp(c) PROVE TaskInv'
  <2>1. CASE Connect(c) BY <2>1 DEF Connect
  <2>2. CASE HangUp(c) BY <2>2 DEF HangUp
  <2> QED BY <1>2, <2>1, <2>2
<1>3. ASSUME NEW c \in Caller, Handle(c) PROVE TaskInv'
  <2>1. /\ sup \notin {"start", "exited"} /\ c \in connected /\ UNCHANGED process
        /\ call[c] \in {"idle", "waiting"}
        /\ \A d \in Caller : d # c => call'[d] = call[d]
        /\ UNCHANGED <<reading, shutdown, pc>>
    BY <1>3 DEF Handle, Client, Admit, Reject, ReceiveReply, Disconnect, Waiting, TypeOK
  <2>2. http \notin {"none", "ok"} BY <2>1
  <2> QED BY <2>1, <2>2
<1>4. CASE ReadHandler
  <2>1. /\ http \notin {"none", "ok"} /\ UNCHANGED process
        /\ UNCHANGED <<call, shutdown, pc, accepted, log>>
    BY <1>4 DEF ReadHandler, Handlers, BeginRead, EndRead
  <2> QED BY <2>1
<1>5. CASE WriterStep \/ StorageStep \/ WriterDies
  <2>1. UNCHANGED process /\ (Work \/ Storage \/ Abort)
    BY <1>5 DEF WriterStep, StorageStep, WriterDies
  <2>2. /\ sup \notin {"start", "exited"}
        /\ UNCHANGED <<sup, http, httpKept, writerKept, connected, probe, expired>>
    BY <1>5, <2>1 DEF WriterStep, StorageStep, WriterDies
  <2>3. UNCHANGED <<call, reading, shutdown, accepted>> /\ (Stopped => Stopped')
    BY <2>1, WriterSideStep
  <2>4. HandlersDone' <=> HandlersDone BY <2>2, <2>3
  <2> HIDE DEF HandlersDone, Stopped
  <2> QED BY <2>2, <2>3, <2>4
<1>6. CASE HttpDrains BY <1>6 DEF HttpDrains, HttpStep
<1>7. CASE HttpDrained BY <1>7 DEF HttpDrained, HttpStep
<1>8. CASE HttpDies BY <1>8 DEF HttpDies, HttpStep
<1>9. CASE Build BY <1>9 DEF Build, Exit
<1>10. CASE StopBeforeOpen BY <1>10 DEF StopBeforeOpen, Exit
<1>11. CASE Serve BY <1>11 DEF Serve
<1>12. CASE StopRequested
  <2>1. /\ sup \in {"prepare", "running"} /\ sup' = "drainHttp"
        /\ UNCHANGED <<call, pc, shutdown, reading, http, httpKept, writerKept, connected, probe,
                      expired>>
    BY <1>12 DEF StopRequested, BeginShutdown
  <2> QED BY <2>1
<1>13. CASE PrepareFails BY <1>13 DEF PrepareFails, BeginShutdown
<1>14. CASE HttpLost BY <1>14 DEF HttpLost, BeginShutdown
<1>15. CASE WriterLost BY <1>15 DEF WriterLost, BeginShutdown
<1>16. CASE TellWriter BY <1>16 DEF TellWriter, HttpJoined
<1>17. CASE FinishDrain BY <1>17 DEF FinishDrain, Exit, WriterJoined
<1>18. CASE Expire BY <1>18 DEF Expire
<1>19. CASE Aborted BY <1>19 DEF Aborted, Exit, HttpJoined, WriterJoined
<1>20. CASE UNCHANGED appVars BY <1>20 DEF appVars
<1>21. CASE ProbeHandler
  <2>1. /\ sup \notin {"start", "exited"} /\ http \notin {"none", "ok"}
        /\ UNCHANGED <<sup, http, httpKept, writerKept, connected, expired>>
        /\ UNCHANGED <<call, shutdown, pc, accepted, log>>
    BY <1>21, ProbeStep
  <2> QED BY <2>1
<1> QED
  BY <1>1, <1>2, <1>3, <1>4, <1>5, <1>6, <1>7, <1>8, <1>9, <1>10, <1>11, <1>12, <1>13, <1>14,
     <1>15, <1>16, <1>17, <1>18, <1>19, <1>20, <1>21 DEF AppNext, Supervise

\* A lost task, a failed drain and an expired deadline each leave their trace in
\* the error the process will exit with.
LEMMA FailureStep ==
  ASSUME Inv, ProcessType, TaskInv, FailureInv, [AppNext]_appVars
  PROVE  FailureInv'
<1> USE DEF FailureInv, Alive, HttpStopped, ProcessType
<1> USE DEF vars, callers, channel, flags, writer, sqlite, readers, process
<1>1. CASE Signal BY <1>1 DEF Signal
<1>2. ASSUME NEW c \in Caller, Connect(c) \/ HangUp(c) PROVE FailureInv'
  BY <1>2 DEF Connect, HangUp
<1>3. CASE (\E c \in Caller : Handle(c)) \/ ReadHandler \/ WriterStep \/ StorageStep \/ WriterDies
  <2>1. sup \notin {"start", "exited"} /\ UNCHANGED process
    BY <1>3 DEF Handle, ReadHandler, Handlers, WriterStep, StorageStep, WriterDies
  <2> QED BY <2>1
<1>4. CASE HttpDrains BY <1>4 DEF HttpDrains, HttpStep, TaskInv
<1>5. CASE HttpDrained BY <1>5 DEF HttpDrained, HttpStep, TaskInv
<1>6. CASE HttpDies BY <1>6 DEF HttpDies, HttpStep, TaskInv
<1>7. CASE Build BY <1>7 DEF Build, Exit
<1>8. CASE StopBeforeOpen BY <1>8 DEF StopBeforeOpen, Exit, TaskInv
<1>9. CASE Serve BY <1>9 DEF Serve
<1>10. CASE StopRequested BY <1>10 DEF StopRequested, BeginShutdown, TaskInv
<1>11. CASE PrepareFails BY <1>11 DEF PrepareFails, BeginShutdown
<1>12. CASE HttpLost BY <1>12 DEF HttpLost, BeginShutdown
<1>13. CASE WriterLost BY <1>13 DEF WriterLost, BeginShutdown
<1>14. CASE TellWriter BY <1>14 DEF TellWriter, HttpJoined, TaskInv
<1>15. CASE FinishDrain
  <2>1. Stopped /\ result # "err" => pc = "returned" /\ result = "ok"
    BY DEF Inv, TypeOK, ControlInv, Stopped, Serving, Busy
  <2> QED BY <1>15, <2>1 DEF FinishDrain, Exit, WriterJoined, TaskInv
<1>16. CASE Expire BY <1>16 DEF Expire
<1>17. CASE Aborted BY <1>17 DEF Aborted, Exit
<1>18. CASE UNCHANGED appVars BY <1>18 DEF appVars
<1>19. CASE ProbeHandler
  <2>1. sup \notin {"start", "exited"}
        /\ UNCHANGED <<requested, sup, http, httpKept, writerKept, failure, exit>>
    BY <1>19, ProbeStep
  <2> QED BY <2>1
<1> QED
  BY <1>1, <1>2, <1>3, <1>4, <1>5, <1>6, <1>7, <1>8, <1>9, <1>10, <1>11, <1>12, <1>13, <1>14,
     <1>15, <1>16, <1>17, <1>18, <1>19 DEF AppNext, Supervise

\* Readiness goes only when a shutdown begins or the writer's loop is over, and a
\* probe that reads has one of the connections in use.
LEMMA ReadyStep ==
  ASSUME TypeOK, ControlInv, ProcessType, ReadyInv, [AppNext]_appVars
  PROVE  ReadyInv'
<1> USE DEF ReadyInv, ProbeReads
<1> USE DEF vars, callers, channel, flags, writer, sqlite, readers, process
<1>R. reading \in Nat BY QueueAssumption DEF TypeOK
<1>1. CASE UNCHANGED <<probe, reading, sup, shutdown, cancel, ready, result>> BY <1>1
<1>2. CASE Signal \/ HttpDrains \/ HttpDrained \/ HttpDies \/ UNCHANGED appVars
  BY <1>1, <1>2 DEF Signal, HttpDrains, HttpDrained, HttpDies, HttpStep, appVars
<1>3. ASSUME NEW c \in Caller, Connect(c) \/ HangUp(c) \/ Handle(c) PROVE ReadyInv'
  BY <1>1, <1>3 DEF Connect, HangUp, Handle, Client, Admit, Reject, ReceiveReply, Disconnect
<1>4. CASE ReadHandler
  <2>1. UNCHANGED <<probe, sup, shutdown, cancel, ready, result>>
    BY <1>4 DEF ReadHandler, BeginRead, EndRead
  <2>2. reading' = reading + 1 \/ (reading > ProbeReads /\ reading' = reading - 1)
    BY <1>4 DEF ReadHandler, BeginRead, EndRead
  <2> QED BY <2>1, <2>2, <1>R
<1>5. CASE ProbeHandler
  <2>1. UNCHANGED <<sup, shutdown, cancel, ready, result>> BY <1>5, ProbeStep
  <2>2. \/ probe' = "reading" /\ probe # "reading" /\ reading' = reading + 1
        \/ probe' # "reading" /\ reading' \in Nat
    <3>1. CASE Probe BY <3>1, <1>R DEF Probe, ProbeTo
    <3>2. CASE ProbeBegins BY <3>2 DEF ProbeBegins, ProbeTo, BeginRead
    <3>3. CASE ProbeAnswers BY <3>3, <1>R DEF ProbeAnswers, ProbeTo, EndRead
    <3>4. CASE ProbeFails BY <3>4, <1>R DEF ProbeFails, ProbeTo, EndRead
    <3> QED BY <1>5, <3>1, <3>2, <3>3, <3>4 DEF ProbeHandler
  <2> QED BY <2>1, <2>2, <1>R
<1>6. CASE StorageStep
  BY <1>1, <1>6 DEF StorageStep, Storage, Land, CommitFails
<1>7. CASE WriterDies BY <1>7 DEF WriterDies, Abort
<1>8. CASE WriterStep
  <2>1. UNCHANGED <<probe, reading, sup, shutdown, cancel>>
    BY <1>8, WriterSideStep DEF WriterStep
  <2>2. ~ready' => ~ready \/ result' # "none"
    <3>1. pc = "stop" => result # "none" BY DEF ControlInv, Serving, Busy
    <3>2. ready' # ready => pc = "stop" /\ result' = result
      BY <1>8 DEF WriterStep, Work, Receive, SeeShutdown, ChannelGone, DrainDone, Update, Reply,
         ReplyError, StopAdmission, CloseReaders, CloseConnection
    <3> QED BY <3>1, <3>2
  <2>3. result # "none" => result' # "none"
    BY <1>8 DEF WriterStep, Work, Receive, SeeShutdown, ChannelGone, DrainDone, Update, Reply,
       ReplyError, StopAdmission, CloseReaders, CloseConnection
  <2> QED BY <2>1, <2>2, <2>3
<1>9. CASE Build \/ StopBeforeOpen \/ Serve \/ FinishDrain \/ Aborted
  BY <1>9 DEF Build, StopBeforeOpen, Serve, FinishDrain, Aborted, Exit
<1>10. CASE StopRequested \/ PrepareFails \/ HttpLost \/ WriterLost
  BY <1>10 DEF StopRequested, PrepareFails, HttpLost, WriterLost, BeginShutdown
<1>11. CASE TellWriter \/ Expire BY <1>11 DEF TellWriter, Expire
<1> QED
  BY <1>2, <1>3, <1>4, <1>5, <1>6, <1>7, <1>8, <1>9, <1>10, <1>11 DEF AppNext, Supervise
-----------------------------------------------------------------------------
(* The process's properties.                                               *)

\* Both invariants hold in every state of the process.
LEMMA AppInvAlways == AppSpec => [](Inv /\ AppInv)
<1>1. AppInit => AppInv
  <2> SUFFICES ASSUME AppInit PROVE AppInv
    OBVIOUS
  <2>1. ProcessType BY DEF AppInit, ProcessType
  <2>2. TaskInv BY DEF AppInit, Init, TaskInv, HandlersDone, Handling, Asking, Alive
  <2>3. FailureInv BY DEF AppInit, FailureInv
  <2>4. ReadyInv BY DEF AppInit, Init, ReadyInv, ProbeReads
  <2> QED BY <2>1, <2>2, <2>3, <2>4 DEF AppInv
<1>2. Inv /\ AppInv /\ [AppNext]_appVars => AppInv'
  BY ProcessTypeStep, TaskStep, FailureStep, ReadyStep DEF Inv, AppInv
<1>3. AppSpec => []Inv
  BY QueueImplemented, InvAlways, PTL DEF ImplementsQueue
<1> QED BY <1>1, <1>2, <1>3, PTL DEF AppSpec

\* Type correctness of the whole process.
THEOREM AppTypeCorrect == AppSpec => []AppTypeOK
<1>1. Inv /\ AppInv => AppTypeOK BY DEF Inv, AppInv, ProcessType, ReadyInv, AppTypeOK
<1> QED BY <1>1, AppInvAlways, PTL

\* The process exits with success only when nothing it accepted is lost.
THEOREM CleanExit == AppSpec => []CleanExitLosesNothing
<1>1. Inv /\ AppInv => CleanExitLosesNothing
  <2> SUFFICES ASSUME Inv, AppInv, exit = "ok"
               PROVE  /\ requested /\ http \in {"none", "ok"}
                      /\ HandlersDone /\ log = accepted
                      /\ \A c \in Caller : \/ call[c] \in {"idle", "rejected"}
                                           \/ call[c] \in {"ok", "gone"} /\ Logged(c)
                      /\ shutdown => pc = "returned" /\ result = "ok" /\ pool = "closed"
    BY DEF CleanExitLosesNothing, HandlersDone
  <2>1. requested /\ http \in {"none", "ok"} /\ HandlersDone
    BY DEF AppInv, FailureInv, TaskInv
  <2>2. shutdown => pc = "returned" /\ result = "ok" /\ pool = "closed"
    BY DEF AppInv, FailureInv, Inv, ControlInv
  <2>3. log = accepted /\ \A i \in 1 .. Len(log) : reply[log[i]] = "ok"
    <3>1. CASE ~shutdown
      <4>1. accepted = <<>> /\ log = <<>> BY <3>1 DEF AppInv, FailureInv
      <4>2. Len(log) = 0 BY <4>1
      <4> QED BY <4>1, <4>2
    <3>2. CASE shutdown
      <4>1. /\ Len(log) = Len(accepted) /\ \A i \in 1 .. Len(log) : log[i] = accepted[i]
            /\ \A i \in 1 .. Len(log) : reply[log[i]] = "ok"
        BY <2>2, <3>2 DEF Inv, DrainInv, HistoryInv
      <4>2. log \in Seq(Caller) /\ accepted \in Seq(Caller) BY DEF Inv, TypeOK
      <4> QED BY <4>1, <4>2, SeqEqual
    <3> QED BY <3>1, <3>2
  <2>4. ASSUME NEW c \in Caller, call[c] \notin {"idle", "rejected"}
        PROVE  call[c] \in {"ok", "gone"} /\ Logged(c)
    <3>1. PICK i \in 1 .. Len(accepted) : accepted[i] = c BY <2>4 DEF Inv, CallInv
    <3>2. reply[c] = "ok" BY <2>3, <3>1
    <3>3. call[c] # "waiting"
      BY <2>1, <2>4 DEF HandlersDone, Handling, AppInv, TaskInv
    <3>4. call[c] \notin {"failed", "unknown"} BY <3>2 DEF Inv, ReplyInv, CallInv
    <3>5. call[c] \in CallState BY DEF Inv, TypeOK
    <3>6. Logged(c)
      <4>1. DOMAIN log = 1 .. Len(log) BY LenProperties DEF Inv, TypeOK
      <4> QED BY <2>3, <3>1, <4>1 DEF Logged
    <3> QED BY <2>4, <3>3, <3>4, <3>5, <3>6 DEF CallState
  <2> QED BY <2>1, <2>2, <2>3, <2>4
<1> QED BY <1>1, AppInvAlways, PTL

\* HTTP drains before the writer is told to stop.
THEOREM ShutdownOrder == AppSpec => []WriterToldLast
<1>1. AppInv => WriterToldLast BY DEF AppInv, TaskInv, ProcessType, WriterToldLast, HandlersDone
<1> QED BY <1>1, AppInvAlways, PTL

\* Neither of the supervisor's two tasks outlives it.
THEOREM NoOrphanTask == AppSpec => []NothingOutlivesExit
<1>1. AppInv => NothingOutlivesExit BY DEF AppInv, TaskInv, NothingOutlivesExit
<1> QED BY <1>1, AppInvAlways, PTL

\* What /ready is worth: see ReadinessTruthful.
THEOREM Readiness == AppSpec => ReadinessTruthful
<1> DEFINE Late == Stopped /\ ~Asking => ~Asking' /\ (probe' = "ready" => probe = "ready")
<1> DEFINE Open == Asking /\ probe' = "ready" => pc \notin {"closeConnection", "returned"}
<1> DEFINE Refusal ==
      ~Asking /\ probe' = "refused" /\ probe # "refused" => cancel \/ result # "none"
<1>1. ASSUME Inv, AppInv, [AppNext]_appVars PROVE Late /\ Open /\ Refusal
  <2>I. /\ ReadyInv /\ ControlInv /\ reading \in Nat
        /\ Stopped => closed
        /\ closed => cancel \/ result # "none"
    <3>1. ReadyInv /\ ControlInv /\ reading \in Nat
      BY <1>1, QueueAssumption DEF Inv, AppInv, TypeOK
    <3> QED BY <3>1 DEF ReadyInv, ControlInv, Stopped, Serving, Busy
  <2>1. CASE ProbeHandler
    <3>1. CASE Probe
      <4>1. ~Asking /\ probe' = IF Ready THEN "asked" ELSE "refused"
        BY <3>1 DEF Probe, ProbeTo
      <4> QED BY <4>1, <2>I DEF Ready, Asking, ReadyInv
    <3>2. CASE ProbeBegins
      <4>1. probe = "asked" /\ probe' = "reading" BY <3>2 DEF ProbeBegins, ProbeTo
      <4> QED BY <4>1 DEF Asking
    <3>3. CASE ProbeAnswers
      <4>1. probe = "reading" /\ probe' = "ready" BY <3>3 DEF ProbeAnswers, ProbeTo
      <4>2. reading # 0 BY <4>1, <2>I DEF ReadyInv, ProbeReads
      <4> QED BY <4>1, <4>2, <2>I DEF Asking, ControlInv
    <3>4. CASE ProbeFails
      <4>1. Asking /\ probe' = "refused" BY <3>4 DEF ProbeFails, ProbeTo
      <4> QED BY <4>1 DEF Asking
    <3> QED BY <2>1, <3>1, <3>2, <3>3, <3>4 DEF ProbeHandler
  <2>2. CASE ~ProbeHandler
    <3>1. probe' = probe
      BY <1>1, <2>2 DEF AppNext, appVars, process, Signal, HttpDrains, HttpDrained, HttpDies,
         HttpStep, Connect, HangUp, Handle, ReadHandler, WriterStep, StorageStep, WriterDies,
         Supervise, Build, StopBeforeOpen, Serve, StopRequested, PrepareFails, HttpLost,
         WriterLost, TellWriter, FinishDrain, Aborted, BeginShutdown, Expire
    <3> QED BY <3>1 DEF Asking
  <2> QED BY <2>1, <2>2
<1>2. Inv /\ AppInv /\ [AppNext]_appVars => [Late /\ Open /\ Refusal]_appVars
  BY <1>1
<1> QED BY <1>2, AppInvAlways, PTL DEF AppSpec, ReadinessTruthful

\* An orderly shutdown never turns away a request it has accepted because the
\* queue is closed.
THEOREM DrainAdmits == AppSpec => DrainKeepsAdmitting
<1> DEFINE P(c) == call[c] = "idle" /\ call'[c] = "rejected" =>
                     \/ Len(queue) = Capacity
                     \/ expired \/ http = "failed" \/ result = "err"
<1>1. ASSUME Inv, AppInv, [AppNext]_appVars, NEW c \in Caller,
             call[c] = "idle", call'[c] = "rejected"
      PROVE  Len(queue) = Capacity \/ expired \/ http = "failed" \/ result = "err"
  <2>1. Handle(c) /\ ~Admits
    <3> USE DEF vars, callers, channel, flags, writer, sqlite, readers, process
    <3>1. call' # call BY <1>1
    <3>2. \E d \in Caller : Handle(d)
      <4>1. ~(Signal \/ HttpDrains \/ HttpDrained \/ HttpDies \/ \E d \in Caller : Connect(d) \/ HangUp(d))
        BY <3>1 DEF Signal, HttpDrains, HttpDrained, HttpDies, HttpStep, Connect, HangUp
      <4>2. ~(ReadHandler \/ ProbeHandler \/ WriterStep \/ StorageStep \/ WriterDies)
        BY <3>1, WriterSideStep, ProbeStep
        DEF ReadHandler, BeginRead, EndRead, WriterStep, StorageStep, WriterDies
      <4>3. ~(Supervise \/ Expire \/ UNCHANGED appVars)
        BY <3>1 DEF Supervise, Build, StopBeforeOpen, Serve, StopRequested, PrepareFails, HttpLost,
           WriterLost, TellWriter, FinishDrain, Aborted, BeginShutdown, Expire, appVars
      <4> QED BY <1>1, <4>1, <4>2, <4>3 DEF AppNext
    <3>3. PICK d \in Caller : Handle(d) BY <3>2
    <3>4. call \in [Caller -> CallState] BY <1>1 DEF Inv, TypeOK
    <3>5. ~Admit(d) /\ ~ReceiveReply(d) /\ ~Disconnect(d)
      BY <1>1, <3>4 DEF Admit, ReceiveReply, Disconnect, Waiting, Told, Inv, TypeOK, ReplyState
    <3>6. Reject(d) BY <3>3, <3>5 DEF Handle, Client
    <3>7. d = c BY <1>1, <3>4, <3>6 DEF Reject
    <3> QED BY <3>3, <3>6, <3>7 DEF Reject
  <2>2. c \in connected /\ ~HandlersDone
    BY <1>1, <2>1 DEF Handle, HandlersDone, Handling
  <2>3. CASE ~closed
    <3>1. Len(queue) \in Nat /\ Len(queue) <= Capacity /\ Capacity \in Nat
      BY <1>1, LenProperties, QueueAssumption DEF Inv, TypeOK
    <3> QED BY <2>1, <2>3, <3>1 DEF Admits
  <2>4. CASE closed
    <3>1. CASE shutdown
      BY <1>1, <2>2, <3>1 DEF AppInv, TaskInv, ProcessType
    <3>2. CASE ~shutdown
      BY <1>1, <2>4, <3>2 DEF Inv, TypeOK, ControlInv, Stopped, Serving, Busy
    <3> QED BY <3>1, <3>2
  <2> QED BY <2>3, <2>4
<1>2. Inv /\ AppInv /\ [AppNext]_appVars => [\A c \in Caller : P(c)]_appVars
  BY <1>1
<1> QED BY <1>2, AppInvAlways, PTL DEF AppSpec, DrainKeepsAdmitting

-----------------------------------------------------------------------------
(* The process's lifecycle.                                                *)

\* What distinguishes a process that never served, and one whose time is up.
LifeInv ==
  /\ http = "none" => connected = {}
  /\ sup = "running" => http # "none"
  /\ expired => sup \in {"abortWait", "exited"}
  /\ sup = "abortWait" => expired

\* It is kept by every step.
LEMMA LifeInvStep ==
  ASSUME ProcessType, TaskInv, LifeInv, [AppNext]_appVars
  PROVE  LifeInv'
<1> USE DEF LifeInv, ProcessType
<1>1. CASE UNCHANGED process BY <1>1 DEF process
<1>2. CASE (\E c \in Caller : Handle(c)) \/ ReadHandler \/ WriterStep \/ StorageStep \/ WriterDies \/ UNCHANGED appVars
  BY <1>1, <1>2 DEF Handle, ReadHandler, WriterStep, StorageStep, WriterDies, appVars
<1>3. CASE Signal BY <1>3 DEF Signal
<1>4. CASE \E c \in Caller : Connect(c) \/ HangUp(c) BY <1>4 DEF Connect, HangUp
<1>5. CASE HttpDrains \/ HttpDrained \/ HttpDies
  BY <1>5 DEF HttpDrains, HttpDrained, HttpDies, HttpStep
<1>6. CASE Build \/ StopBeforeOpen BY <1>6 DEF Build, StopBeforeOpen, Exit
<1>7. CASE Serve BY <1>7 DEF Serve
<1>8. CASE StopRequested \/ PrepareFails \/ HttpLost \/ WriterLost
  BY <1>8 DEF StopRequested, PrepareFails, HttpLost, WriterLost, BeginShutdown
<1>9. CASE TellWriter BY <1>9 DEF TellWriter
<1>10. CASE FinishDrain BY <1>10 DEF FinishDrain, Exit
<1>11. CASE Expire BY <1>11 DEF Expire
<1>12. CASE Aborted BY <1>12 DEF Aborted, Exit
<1>13. CASE ProbeHandler
  <2>1. UNCHANGED <<http, connected, sup, expired>> BY <1>13, ProbeStep
  <2> QED BY <2>1
<1> QED
  BY <1>2, <1>3, <1>4, <1>5, <1>6, <1>7, <1>8, <1>9, <1>10, <1>11, <1>12, <1>13
  DEF AppNext, Supervise

\* No commit is on its way before the process has served anybody.
LEMMA NoEarlyCommit ==
  ASSUME Inv, ProcessType, TaskInv, LifeInv, http = "none"
  PROVE  commit # "sent"
<1>1. \A c \in Caller : call[c] = "idle" BY DEF LifeInv, TaskInv
<1>2. InFlight => call[current] \notin {"idle", "rejected"} BY HandIsFresh DEF Inv
<1>3. InFlight => current \in Caller BY DEF Inv, ControlInv
<1> QED BY <1>1, <1>2, <1>3 DEF InFlight

\* Only the SQLite thread makes the log longer.
LEMMA LogStep ==
  ASSUME [AppNext]_appVars, ~(StorageStep /\ Land)
  PROVE  log' = log
<1> USE DEF vars, callers, channel, flags, writer, sqlite, readers, process
<1>1. CASE Signal \/ HttpDrains \/ HttpDrained \/ HttpDies \/ \E c \in Caller : Connect(c) \/ HangUp(c)
  BY <1>1 DEF Signal, HttpDrains, HttpDrained, HttpDies, HttpStep, Connect, HangUp
<1>2. ASSUME NEW c \in Caller, Handle(c) PROVE log' = log
  BY <1>2 DEF Handle, Client, Admit, Reject, ReceiveReply, Disconnect
<1>3. CASE ReadHandler \/ StorageStep \/ WriterDies
  BY <1>3 DEF ReadHandler, BeginRead, EndRead, StorageStep, Storage, CommitFails, WriterDies, Abort
<1>4. CASE WriterStep
  BY <1>4 DEF WriterStep, Work, Receive, SeeShutdown, ChannelGone, DrainDone, Update, Reply,
     ReplyError, StopAdmission, CloseReaders, CloseConnection
<1>5. CASE Supervise \/ Expire
  BY <1>5 DEF Supervise, Build, StopBeforeOpen, Serve, StopRequested, PrepareFails, HttpLost,
     WriterLost, TellWriter, FinishDrain, Aborted, BeginShutdown, Expire
<1>6. CASE ProbeHandler
  <2>1. UNCHANGED sqlite BY <1>6, ProbeStep
  <2> QED BY <2>1
<1>7. CASE UNCHANGED appVars BY <1>7 DEF appVars
<1> QED BY <1>1, <1>2, <1>3, <1>4, <1>5, <1>6, <1>7 DEF AppNext

\* Every step of the process is one that an application's lifecycle allows.
LEMMA LifecycleStep ==
  ASSUME Inv, AppInv, LifeInv, [AppNext]_appVars
  PROVE  [Life!Next]_Life!vars
<1> USE DEF LifeInv
<1>T. ProcessType /\ TaskInv /\ FailureInv BY DEF AppInv
<1> DEFINE Same == Phase' = Phase /\ requested' = requested
<1>V. log' = log /\ Same => [Life!Next]_Life!vars BY DEF Life!vars
<1>0. CASE StorageStep /\ Land
  <2>1. /\ commit = "sent" /\ log' = Append(log, current) /\ UNCHANGED process
        /\ sup \notin {"start", "exited"}
    BY <1>0 DEF StorageStep, Land, Alive
  <2>2. http # "none" BY <2>1, <1>T, NoEarlyCommit
  <2>3. Len(log') = Len(log) + 1
    <3>1. log \in Seq(Caller) /\ current \in Caller
      BY <2>1 DEF Inv, TypeOK, ControlInv, InFlight
    <3> QED BY <2>1, <3>1, AppendProperties
  <2>4. sup \in {"running", "drainHttp", "drainWriter", "abortWait"}
    BY <1>T, <2>1, <2>2 DEF ProcessType, TaskInv
  <2>5. Phase \in {"serving", "draining", "failing"} BY <2>2, <2>4 DEF Phase
  <2>6. Phase' = Phase BY <2>1 DEF Phase, process
  <2>7. Life!Commit BY <2>1, <2>3, <2>5, <2>6 DEF Life!Commit, process
  <2> QED BY <2>7 DEF Life!Next
<1>L. ASSUME ~(StorageStep /\ Land) PROVE log' = log BY <1>L, LogStep
<1>1. CASE ~(StorageStep /\ Land) /\ UNCHANGED process
  <2>1. Same BY <1>1 DEF Phase, process
  <2> QED BY <1>1, <1>L, <1>V, <2>1
<1>2. ASSUME ~(StorageStep /\ Land), ~UNCHANGED process PROVE [Life!Next]_Life!vars
  <2>L. log' = log BY <1>2, <1>L
  <2> USE DEF Phase, ProcessType
  <2>1. CASE Signal
    <3>1. Life!Request BY <1>T, <2>1, <2>L DEF Signal, Life!Request
    <3> QED BY <3>1 DEF Life!Next
  <2>2. CASE HttpDrains \/ HttpDrained \/ HttpDies
    <3>1. Same BY <1>T, <2>2 DEF HttpDrains, HttpDrained, HttpDies, HttpStep
    <3> QED BY <3>1, <2>L, <1>V
  <2>3. CASE \E c \in Caller : Connect(c) \/ HangUp(c)
    <3>1. UNCHANGED <<requested, sup, http, failure, expired, exit>>
      BY <2>3 DEF Connect, HangUp
    <3>2. Same BY <3>1
    <3> QED BY <3>2, <2>L, <1>V
  <2>4. CASE Build
    <3>1. Life!Open BY <1>T, <2>4, <2>L DEF Build, Exit, Life!Open, Life!Go
    <3> QED BY <3>1 DEF Life!Next
  <2>5. CASE StopBeforeOpen
    <3>1. Life!Withdraw BY <1>T, <2>5, <2>L DEF StopBeforeOpen, Exit, Life!Withdraw, Life!Go
    <3> QED BY <3>1 DEF Life!Next
  <2>6. CASE Serve
    <3>1. Life!Serve BY <1>T, <2>6, <2>L DEF Serve, Life!Serve, Life!Go
    <3> QED BY <3>1 DEF Life!Next
  <2>7. ASSUME NEW failed \in BOOLEAN, BeginShutdown("prepare", failed) PROVE Same
    BY <1>T, <2>7 DEF BeginShutdown, TaskInv
  <2>8. ASSUME BeginShutdown("running", FALSE), requested PROVE Life!Drain
    BY <1>T, <2>8, <2>L DEF BeginShutdown, Life!Drain, Life!Go
  <2>9. ASSUME BeginShutdown("running", TRUE) PROVE Life!Fail
    BY <1>T, <2>9, <2>L DEF BeginShutdown, Life!Fail, Life!Go
  <2>10. CASE StopRequested \/ PrepareFails \/ HttpLost \/ WriterLost
    <3>1. \/ \E failed \in BOOLEAN : BeginShutdown("prepare", failed)
          \/ BeginShutdown("running", FALSE) /\ requested
          \/ BeginShutdown("running", TRUE)
      BY <2>10 DEF StopRequested, PrepareFails, HttpLost, WriterLost
    <3> QED BY <3>1, <2>L, <1>V, <2>7, <2>8, <2>9 DEF Life!Next
  <2>11. CASE TellWriter
    <3>1. Same \/ Life!Fail BY <1>T, <2>11, <2>L DEF TellWriter, Life!Fail, Life!Go
    <3> QED BY <3>1, <2>L, <1>V DEF Life!Next
  <2>12. CASE FinishDrain
    <3>1. Life!Withdraw \/ Life!PrepareFails \/ Life!ExitOk \/ Life!ExitErr
      BY <1>T, <2>12, <2>L DEF FinishDrain, Exit, FailureInv, Life!Withdraw, Life!PrepareFails,
         Life!ExitOk, Life!ExitErr, Life!Go
    <3> QED BY <3>1 DEF Life!Next
  <2>13. CASE Expire
    <3>1. Same \/ Life!Fail BY <1>T, <2>13, <2>L DEF Expire, Life!Fail, Life!Go
    <3> QED BY <3>1, <2>L, <1>V DEF Life!Next
  <2>14. CASE Aborted
    <3>1. Life!PrepareFails \/ Life!ExitErr
      BY <1>T, <2>14, <2>L DEF Aborted, Exit, Life!PrepareFails, Life!ExitErr, Life!Go
    <3> QED BY <3>1 DEF Life!Next
  <2>15. CASE ProbeHandler
    <3>1. UNCHANGED <<requested, sup, http, failure, expired, exit>> BY <2>15, ProbeStep
    <3>2. Same BY <3>1
    <3> QED BY <3>2, <2>L, <1>V
  <2> QED
    BY <1>2, <2>1, <2>2, <2>3, <2>4, <2>5, <2>6, <2>10, <2>11, <2>12, <2>13, <2>14, <2>15
    DEF AppNext, Supervise, Handle, ReadHandler, WriterStep, StorageStep, WriterDies, appVars, process
<1> QED BY <1>0, <1>1, <1>2

\* The process has the lifecycle that the deployment, in DurabilityProofs, relies on:
\* it commits only while it serves, exits with success only if it was asked to stop,
\* and never once something has failed.
THEOREM LifecycleKept == AppSpec => ImplementsLifecycle
<1>1. AppInit => LifeInv /\ Life!Init
  BY DEF AppInit, Init, LifeInv, Life!Init, Phase
<1>2. Inv /\ AppInv /\ LifeInv /\ [AppNext]_appVars => LifeInv'
  BY LifeInvStep DEF AppInv
<1>3. Inv /\ AppInv /\ LifeInv /\ [AppNext]_appVars => [Life!Next]_Life!vars
  BY LifecycleStep
<1> QED BY <1>1, <1>2, <1>3, AppInvAlways, PTL DEF AppSpec, ImplementsLifecycle, Life!Spec
=============================================================================
