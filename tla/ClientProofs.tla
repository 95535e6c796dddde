---------------------------- MODULE ClientProofs ----------------------------
(***************************************************************************)
(* What clients see of the counter, for any number of posts.  ServiceInv   *)
(* is the counter service's own invariant; LedgerInv counts intents        *)
(* against the posts that may still be applied, and ShowInv puts what a    *)
(* page shows before every post it still waits for.                        *)
(***************************************************************************)
EXTENDS Client, TLAPS, SequenceTheorems, FiniteSetTheorems

Outcomes == {"idle", "pending", "refused", "ok", "failed", "unknown", "gone", "lost"}

ServiceInv ==
  /\ log \in Seq(Caller) /\ outcome \in [Caller -> Outcomes] /\ answer \in [Caller -> Nat]
  /\ posted \in 0 .. MaxPosts
  /\ \A c \in Caller : c > posted => outcome[c] = "idle"
  /\ \A i, j \in 1 .. Len(log) : log[i] = log[j] => i = j
  /\ \A i \in 1 .. Len(log) : outcome[log[i]] \notin {"idle", "refused", "failed", "lost"}
  /\ \A c \in Caller : outcome[c] = "ok" =>
       \E i \in 1 .. Len(log) : log[i] = c /\ answer[c] = Saved + i

-----------------------------------------------------------------------------
(* The service.                                                            *)

\* What appending a call to the log does, element by element.
LEMMA AppendFacts ==
  ASSUME NEW S1, NEW s \in Seq(S1), NEW e \in S1
  PROVE  /\ Append(s, e) \in Seq(S1) /\ Len(Append(s, e)) = Len(s) + 1 /\ Len(s) \in Nat
         /\ \A i \in 1 .. Len(s) : Append(s, e)[i] = s[i]
         /\ Append(s, e)[Len(s) + 1] = e
OBVIOUS

\* A step of the service: one call moves to an outcome that its history allows, or
\* one that was not applied is appended to the log.
LEMMA ServeMoves ==
  ASSUME ServiceInv, NEW c \in Caller, Serve(c)
  PROVE  /\ c <= posted /\ outcome' \in [Caller -> Outcomes] /\ answer' \in [Caller -> Nat]
         /\ \A d \in Caller : d # c => outcome'[d] = outcome[d] /\ answer'[d] = answer[d]
         /\ \/ /\ log' = Append(log, c) /\ outcome' = outcome /\ answer' = answer
               /\ outcome[c] \in {"pending", "unknown"}
               /\ \A i \in 1 .. Len(log) : log[i] # c
            \/ /\ log' = log /\ answer' = answer
               /\ outcome[c] = "idle" /\ outcome'[c] \in {"pending", "refused"}
            \/ /\ log' = log /\ answer' = answer /\ outcome[c] = "pending"
               /\ outcome'[c] = "failed" /\ \A i \in 1 .. Len(log) : log[i] # c
            \/ /\ log' = log /\ answer' = answer /\ outcome[c] = "pending" /\ outcome'[c] = "unknown"
            \/ /\ log' = log /\ outcome[c] = "pending" /\ outcome'[c] = "ok"
               /\ \E i \in 1 .. Len(log) : log[i] = c /\ answer'[c] = Saved + i
<1> USE ClientAssumption DEF ServiceInv, Outcomes, S!Settle, S!Applied
<1>1. DOMAIN log = 1 .. Len(log) /\ c <= posted BY LenProperties DEF Serve
<1>2. CASE S!Submit(c) BY <1>1, <1>2 DEF S!Submit
<1>3. CASE S!Refuse(c) BY <1>1, <1>3 DEF S!Refuse
<1>4. CASE S!Apply(c) BY <1>1, <1>4 DEF S!Apply
<1>5. CASE S!Acknowledge(c)
  <2>1. PICK i \in 1 .. Len(log) : log[i] = c /\ answer' = [answer EXCEPT ![c] = Saved + i]
    BY <1>1, <1>5 DEF S!Acknowledge
  <2>2. Saved + i \in Nat BY LenProperties
  <2> QED BY <1>1, <1>5, <2>1, <2>2 DEF S!Acknowledge
<1>6. CASE S!Fail(c) BY <1>1, <1>6 DEF S!Fail
<1>7. CASE S!Abandon(c) BY <1>1, <1>7 DEF S!Abandon
<1> QED BY <1>2, <1>3, <1>4, <1>5, <1>6, <1>7 DEF Serve

\* What is left of the log and of its calls after a restart.
LEMMA RestartFacts ==
  ASSUME ServiceInv, NEW n \in 0 .. Len(log), Restart(n)
  PROVE  /\ log' \in Seq(Caller) /\ Len(log') = n /\ Len(log) \in Nat /\ n \in Nat
         /\ \A i \in 1 .. n : i \in 1 .. Len(log) /\ log'[i] = log[i]
         /\ outcome' \in [Caller -> Outcomes] /\ answer' = answer /\ posted' = posted
         /\ \A c \in Caller :
              \/ outcome[c] \in {"pending", "unknown"} /\ outcome'[c] = "gone"
              \/ outcome[c] = "ok" /\ outcome'[c] = "lost" /\ \A i \in 1 .. n : log[i] # c
              \/ outcome[c] = "ok" /\ outcome'[c] = "ok" /\ \E i \in 1 .. n : log[i] = c
              \/ outcome[c] \notin {"pending", "unknown", "ok"} /\ outcome'[c] = outcome[c]
<1>1. Len(log) \in Nat /\ n \in Nat /\ n <= Len(log) /\ log \in Seq(Caller)
  BY LenProperties DEF ServiceInv
<1>2. log' = SubSeq(log, 1, n) BY DEF Restart
<1>3. log' \in Seq(Caller) /\ Len(log') = n /\ \A i \in 1 .. n : log'[i] = log[i]
  <2>1. \A i \in 1 .. n : log[i] \in Caller BY <1>1, LenProperties
  <2>2. log' = [i \in 1 .. n |-> log[i]] BY <1>1, <1>2
  <2>3. log' \in Seq(Caller) BY <1>1, <2>1, <2>2
  <2>4. DOMAIN log' = 1 .. n BY <2>2
  <2> QED BY <1>1, <2>2, <2>3, <2>4, LenProperties
<1>4. outcome' \in [Caller -> Outcomes] /\ answer' = answer /\ posted' = posted
  BY DEF Restart, ServiceInv, Outcomes
<1>5. ASSUME NEW c \in Caller
      PROVE  \/ outcome[c] \in {"pending", "unknown"} /\ outcome'[c] = "gone"
             \/ outcome[c] = "ok" /\ outcome'[c] = "lost" /\ \A i \in 1 .. n : log[i] # c
             \/ outcome[c] = "ok" /\ outcome'[c] = "ok" /\ \E i \in 1 .. n : log[i] = c
             \/ outcome[c] \notin {"pending", "unknown", "ok"} /\ outcome'[c] = outcome[c]
  BY <1>5 DEF Restart
<1> QED BY <1>1, <1>3, <1>4, <1>5

\* Whatever clients do leaves the service alone and at most sends one more post.
LEMMA ClientMoves ==
  ASSUME [Next]_vars, \A c \in Caller : ~Serve(c), \A n \in 0 .. Len(log) : ~Restart(n)
  PROVE  UNCHANGED service /\ (posted' = posted \/ (posted < MaxPosts /\ posted' = posted + 1))
<1> USE DEF service
<1>1. CASE RenderPage BY <1>1 DEF RenderPage
<1>2. CASE Click \/ SubmitForm \/ AgentPost \/ AgentRetry
  BY <1>2 DEF Click, SubmitForm, AgentPost, AgentRetry, Post, New
<1>3. CASE \E c \in Caller : Reply(c) \/ Lost(c) BY <1>3 DEF Reply, Lost, Finish
<1>4. CASE Ask \/ FormReply \/ FormLost \/ Arrive \/ NavFails \/ AgentStop
  BY <1>4 DEF Ask, FormReply, FormLost, Arrive, NavFails, AgentStop
<1>5. CASE UNCHANGED vars BY <1>5 DEF vars
<1> QED BY <1>1, <1>2, <1>3, <1>4, <1>5 DEF Next

\* Between restarts the clients use the service through its own operations and in no
\* other way: what they see is what the write queue, which implements it, may do to them.
THEOREM ServiceUsed == Spec => S!Init /\ [][S!Next \/ \E n \in 0 .. Len(log) : Restart(n)]_S!vars
<1>1. Init => S!Init BY DEF Init
<1>2. [Next]_vars => [S!Next \/ \E n \in 0 .. Len(log) : Restart(n)]_S!vars
  <2> SUFFICES ASSUME [Next]_vars, \A n \in 0 .. Len(log) : ~Restart(n) PROVE [S!Next]_S!vars
    OBVIOUS
  <2>1. CASE \A c \in Caller : ~Serve(c) BY <2>1, ClientMoves DEF service, S!vars
  <2>2. CASE \E c \in Caller : Serve(c) BY <2>2 DEF Serve, S!Next
  <2> QED BY <2>1, <2>2
<1> QED BY <1>1, <1>2, PTL DEF Spec

LEMMA ServiceStep == ServiceInv /\ [Next]_vars => ServiceInv'
<1> SUFFICES ASSUME ServiceInv, [Next]_vars PROVE ServiceInv'
  OBVIOUS
<1>1. CASE (\A c \in Caller : ~Serve(c)) /\ \A n \in 0 .. Len(log) : ~Restart(n)
  <2>1. log' = log /\ outcome' = outcome /\ answer' = answer
    BY <1>1, ClientMoves DEF service
  <2>2. posted' \in 0 .. MaxPosts /\ posted <= posted'
    BY <1>1, ClientMoves, ClientAssumption DEF ServiceInv
  <2>3. \A c \in Caller : c > posted' => outcome[c] = "idle"
    BY <2>2, ClientAssumption DEF ServiceInv, Caller
  <2> QED BY <2>1, <2>2, <2>3 DEF ServiceInv
<1>2. ASSUME NEW c \in Caller, Serve(c) PROVE ServiceInv'
  <2>1. posted' = posted BY <1>2 DEF Serve
  <2>2. c <= posted BY <1>2, ServeMoves
  <2>3. CASE log' = Append(log, c) /\ outcome' = outcome /\ answer' = answer
    <3>1. outcome[c] \in {"pending", "unknown"} /\ \A i \in 1 .. Len(log) : log[i] # c
      <4>1. log' # log BY <2>3, AppendFacts DEF ServiceInv
      <4> QED BY <1>2, <4>1, ServeMoves
    <3>2. /\ log' \in Seq(Caller) /\ Len(log') = Len(log) + 1 /\ Len(log) \in Nat
          /\ \A i \in 1 .. Len(log) : log'[i] = log[i]
          /\ log'[Len(log) + 1] = c
      BY <2>3, AppendFacts DEF ServiceInv
    <3>3. \A i \in 1 .. Len(log') : (i \in 1 .. Len(log) /\ log'[i] = log[i]) \/ (i = Len(log) + 1 /\ log'[i] = c)
      BY <3>2
    <3>4. \A i, j \in 1 .. Len(log') : log'[i] = log'[j] => i = j
      <4> SUFFICES ASSUME NEW i \in 1 .. Len(log'), NEW j \in 1 .. Len(log'), log'[i] = log'[j]
                   PROVE  i = j
        OBVIOUS
      <4>1. CASE i \in 1 .. Len(log) /\ log'[i] = log[i]
        <5>1. log[i] # c BY <3>1, <4>1
        <5>2. j \in 1 .. Len(log) /\ log'[j] = log[j] BY <3>3, <4>1, <5>1
        <5>3. log[i] = log[j] BY <4>1, <5>2
        <5> QED BY <4>1, <5>2, <5>3 DEF ServiceInv
      <4>2. CASE i = Len(log) + 1 /\ log'[i] = c
        BY <3>1, <3>3, <4>2 DEF ServiceInv
      <4> QED BY <3>3, <4>1, <4>2
    <3>5. \A i \in 1 .. Len(log') : outcome[log'[i]] \notin {"idle", "refused", "failed", "lost"}
      BY <3>1, <3>3 DEF ServiceInv
    <3>6. \A d \in Caller : outcome[d] = "ok" =>
            \E i \in 1 .. Len(log') : log'[i] = d /\ answer[d] = Saved + i
      <4> SUFFICES ASSUME NEW d \in Caller, outcome[d] = "ok"
                   PROVE  \E i \in 1 .. Len(log') : log'[i] = d /\ answer[d] = Saved + i
        OBVIOUS
      <4>1. PICK i \in 1 .. Len(log) : log[i] = d /\ answer[d] = Saved + i BY DEF ServiceInv
      <4>2. i \in 1 .. Len(log') BY <3>2
      <4> QED BY <3>2, <4>1, <4>2
    <3> QED BY <2>1, <2>3, <3>2, <3>4, <3>5, <3>6 DEF ServiceInv
  <2>4. CASE log' = log
    <3>1. \A i \in 1 .. Len(log) : outcome'[log[i]] \notin {"idle", "refused", "failed", "lost"}
      <4> SUFFICES ASSUME NEW i \in 1 .. Len(log)
                   PROVE  outcome'[log[i]] \notin {"idle", "refused", "failed", "lost"}
        OBVIOUS
      <4>1. log[i] \in Caller BY LenProperties DEF ServiceInv
      <4>2. Append(log, c) # log BY AppendFacts DEF ServiceInv
      <4>3. outcome[log[i]] \notin {"idle", "refused", "failed", "lost"} BY DEF ServiceInv
      <4>4. CASE log[i] = c BY <1>2, <2>4, <4>2, <4>3, <4>4, ServeMoves
      <4>5. CASE log[i] # c BY <1>2, <4>1, <4>3, <4>5, ServeMoves
      <4> QED BY <4>4, <4>5
    <3>2. \A d \in Caller : outcome'[d] = "ok" =>
            \E i \in 1 .. Len(log) : log[i] = d /\ answer'[d] = Saved + i
      <4>1. Append(log, c) # log BY AppendFacts DEF ServiceInv
      <4>2. ASSUME NEW d \in Caller, outcome'[d] = "ok", d # c
            PROVE  \E i \in 1 .. Len(log) : log[i] = d /\ answer'[d] = Saved + i
        <5>1. outcome'[d] = outcome[d] /\ answer'[d] = answer[d] BY <1>2, <4>2, ServeMoves
        <5> QED BY <4>2, <5>1 DEF ServiceInv
      <4>3. ASSUME outcome'[c] = "ok"
            PROVE  \E i \in 1 .. Len(log) : log[i] = c /\ answer'[c] = Saved + i
        BY <1>2, <2>4, <4>1, <4>3, ServeMoves
      <4> QED BY <4>2, <4>3
    <3>3. \A d \in Caller : d > posted => outcome'[d] = "idle"
      <4> SUFFICES ASSUME NEW d \in Caller, d > posted PROVE outcome'[d] = "idle"
        OBVIOUS
      <4>1. d # c BY <2>2, ClientAssumption DEF ServiceInv, Caller
      <4>2. outcome'[d] = outcome[d] BY <1>2, <4>1, ServeMoves
      <4> QED BY <4>2 DEF ServiceInv
    <3>4. outcome' \in [Caller -> Outcomes] /\ answer' \in [Caller -> Nat]
      BY <1>2, ServeMoves
    <3> QED BY <2>1, <2>4, <3>1, <3>2, <3>3, <3>4 DEF ServiceInv
  <2> QED BY <1>2, <2>3, <2>4, ServeMoves
<1>3. ASSUME NEW n \in 0 .. Len(log), Restart(n) PROVE ServiceInv'
  <2>1. /\ log' \in Seq(Caller) /\ Len(log') = n
        /\ \A i \in 1 .. n : i \in 1 .. Len(log) /\ log'[i] = log[i]
        /\ outcome' \in [Caller -> Outcomes] /\ answer' = answer /\ posted' = posted
    BY <1>3, RestartFacts
  <2>2. \A c \in Caller : c > posted => outcome'[c] = "idle"
    BY <1>3, RestartFacts DEF ServiceInv
  <2>3. ASSUME NEW i \in 1 .. n, NEW j \in 1 .. n, log'[i] = log'[j] PROVE i = j
    <3>1. i \in 1 .. Len(log) /\ j \in 1 .. Len(log) /\ log[i] = log[j] BY <2>1, <2>3
    <3> QED BY <3>1 DEF ServiceInv
  <2>4. \A i \in 1 .. n : outcome'[log'[i]] \notin {"idle", "refused", "failed", "lost"}
    <3> SUFFICES ASSUME NEW i \in 1 .. n
                 PROVE  outcome'[log[i]] \notin {"idle", "refused", "failed", "lost"}
      BY <2>1
    <3>1. log[i] \in Caller BY <2>1, LenProperties DEF ServiceInv
    <3>2. outcome[log[i]] \notin {"idle", "refused", "failed", "lost"} BY <2>1 DEF ServiceInv
    <3> QED BY <1>3, <3>1, <3>2, RestartFacts
  <2>5. ASSUME NEW c \in Caller, outcome'[c] = "ok"
        PROVE  \E i \in 1 .. n : log'[i] = c /\ answer[c] = Saved + i
    <3>1. outcome[c] = "ok" /\ \E i \in 1 .. n : log[i] = c BY <1>3, <2>5, RestartFacts
    <3>2. PICK i \in 1 .. n : log[i] = c BY <3>1
    <3>3. PICK j \in 1 .. Len(log) : log[j] = c /\ answer[c] = Saved + j BY <3>1 DEF ServiceInv
    <3>4. i = j BY <2>1, <3>2, <3>3 DEF ServiceInv
    <3> QED BY <2>1, <3>2, <3>3, <3>4
  <2>6. answer \in [Caller -> Nat] /\ posted \in 0 .. MaxPosts BY DEF ServiceInv
  <2> QED BY <2>1, <2>2, <2>3, <2>4, <2>5, <2>6 DEF ServiceInv
<1> QED BY <1>1, <1>2, <1>3

-----------------------------------------------------------------------------
(* Intents.                                                                *)

Refused(c) == outcome[c] = "refused"
MayCount == {c \in 1 .. posted : ~Refused(c)}
Owed == IF agent # None /\ Refused(agent) THEN 1 ELSE 0

\* A post that may count has an intent of its own, and so has a refused one that
\* the API client has not repeated yet.
LedgerInv ==
  /\ intents \in 0 .. posted /\ agent \in 0 .. posted
  /\ IsFiniteSet(MayCount) /\ Cardinality(MayCount) + Owed <= intents

\* One more post that is not refused.
LEMMA OneMore ==
  ASSUME ServiceInv, LedgerInv, posted < MaxPosts, posted' = posted + 1, outcome' = outcome
  PROVE  IsFiniteSet(MayCount') /\ Cardinality(MayCount') = Cardinality(MayCount) + 1
<1>1. posted \in Nat /\ posted + 1 \in Caller /\ posted + 1 > posted
  BY ClientAssumption DEF ServiceInv, Caller
<1>2. outcome[posted + 1] = "idle" BY <1>1 DEF ServiceInv
<1>3. MayCount' = MayCount \cup {posted + 1}
  BY <1>1, <1>2 DEF MayCount, Refused
<1>4. posted + 1 \notin MayCount BY <1>1 DEF MayCount
<1> QED BY <1>3, <1>4, FS_AddElement DEF LedgerInv

LEMMA LedgerStep == ServiceInv /\ LedgerInv /\ [Next]_vars => LedgerInv'
<1> SUFFICES ASSUME ServiceInv, LedgerInv, [Next]_vars PROVE LedgerInv'
  OBVIOUS
<1>0. /\ Cardinality(MayCount) \in Nat /\ Owed \in {0, 1}
      /\ posted \in Nat /\ intents \in Nat /\ intents <= posted /\ agent \in 0 .. posted
  BY FS_CardinalityType, ClientAssumption DEF LedgerInv, Owed, ServiceInv
<1>1. ASSUME NEW c \in Caller, Serve(c) PROVE LedgerInv'
  <2>1. UNCHANGED <<posted, agent, intents>> /\ c \in 1 .. posted
    BY <1>1, ServeMoves, ClientAssumption DEF Serve, Caller, ServiceInv
  <2>2. \A d \in 1 .. posted : d \in Caller
    BY ClientAssumption DEF Caller, ServiceInv
  <2>3. \A d \in 1 .. posted : d # c => outcome'[d] = outcome[d]
    BY <1>1, <2>2, ServeMoves
  <2>4. CASE outcome'[c] = "refused" /\ outcome[c] # "refused"
    <3>1. MayCount' = MayCount \ {c} /\ c \in MayCount
      BY <2>1, <2>3, <2>4 DEF MayCount, Refused
    <3>2. IsFiniteSet(MayCount') /\ Cardinality(MayCount') = Cardinality(MayCount) - 1
      BY <3>1, FS_RemoveElement DEF LedgerInv
    <3>3. Owed' <= Owed + 1 /\ Owed' \in Int BY <1>0 DEF Owed
    <3> QED BY <1>0, <2>1, <3>2, <3>3 DEF LedgerInv
  <2>5. CASE ~(outcome'[c] = "refused" /\ outcome[c] # "refused")
    <3>1. outcome'[c] = "refused" <=> outcome[c] = "refused"
      BY <1>1, <2>5, ServeMoves
    <3>2. MayCount' = MayCount BY <2>1, <2>3, <3>1 DEF MayCount, Refused
    <3>3. Owed' = Owed BY <2>1, <2>3, <3>1 DEF Owed, Refused, LedgerInv, None
    <3> QED BY <2>1, <3>2, <3>3 DEF LedgerInv
  <2> QED BY <2>4, <2>5
<1>2. ASSUME \A c \in Caller : ~Serve(c), \A n \in 0 .. Len(log) : ~Restart(n) PROVE LedgerInv'
  <2>1. outcome' = outcome BY <1>2, ClientMoves DEF service
  <2>2. CASE Click \/ SubmitForm
    <3>1. posted < MaxPosts /\ posted' = posted + 1 /\ intents' = intents + 1 /\ agent' = agent
      BY <2>2 DEF Click, SubmitForm, Post, New, Meant
    <3>2. Owed' = Owed BY <2>1, <3>1 DEF Owed, Refused
    <3>3. agent' \in 0 .. posted' /\ intents' \in 0 .. posted' BY <1>0, <3>1
    <3> QED BY <1>0, <2>1, <3>1, <3>2, <3>3, OneMore DEF LedgerInv
  <2>3. CASE AgentPost
    <3>1. posted < MaxPosts /\ posted' = posted + 1 /\ intents' = intents + 1 /\ agent' = posted + 1
      BY <2>3 DEF AgentPost, Post, New, Meant
    <3>2. posted + 1 \in Caller /\ posted + 1 > posted
      BY <3>1, ClientAssumption DEF ServiceInv, Caller
    <3>3. outcome[posted + 1] = "idle" BY <3>2 DEF ServiceInv
    <3>4. Owed' = 0 BY <2>1, <3>1, <3>3 DEF Owed, Refused
    <3>5. agent' \in 0 .. posted' /\ intents' \in 0 .. posted' BY <1>0, <3>1
    <3> QED BY <1>0, <2>1, <3>1, <3>4, <3>5, OneMore DEF LedgerInv
  <2>4. CASE AgentRetry
    <3>1. posted < MaxPosts /\ posted' = posted + 1 /\ intents' = intents /\ agent' = posted + 1
      BY <2>4 DEF AgentRetry, Post, New
    <3>2. posted + 1 \in Caller /\ posted + 1 > posted
      BY <3>1, ClientAssumption DEF ServiceInv, Caller
    <3>3. outcome[posted + 1] = "idle" BY <3>2 DEF ServiceInv
    <3>4. Owed' = 0 BY <2>1, <3>1, <3>3 DEF Owed, Refused
    <3>5. Refused(agent) /\ agent # None
      <4>1. agent \in Caller
        BY <2>4, ClientAssumption DEF AgentRetry, AnsweredPost, LedgerInv, ServiceInv, Caller, None
      <4>2. outcome[agent] \in {"refused", "ok", "failed", "unknown", "lost"}
        BY <2>4, <4>1 DEF AgentRetry, AnsweredPost, ServiceInv, Outcomes
      <4> QED BY <2>4, <4>2 DEF AgentRetry, AnsweredPost, Code, Refused
    <3>6. Owed = 1 BY <3>5 DEF Owed
    <3>7. agent' \in 0 .. posted' /\ intents' \in 0 .. posted' BY <1>0, <3>1
    <3> QED BY <1>0, <2>1, <3>1, <3>4, <3>6, <3>7, OneMore DEF LedgerInv
  <2>5. CASE AgentStop
    <3>1. Owed' = 0 /\ MayCount' = MayCount /\ UNCHANGED <<posted, intents>> /\ agent' = 0
      BY <2>1, <2>5 DEF AgentStop, Owed, MayCount, Refused, None
    <3> QED BY <1>0, <3>1 DEF LedgerInv, ServiceInv
  <2>6. CASE UNCHANGED <<posted, agent, intents>>
    <3>1. Owed' = Owed /\ MayCount' = MayCount BY <2>1, <2>6 DEF Owed, MayCount, Refused
    <3> QED BY <2>6, <3>1 DEF LedgerInv
  <2>7. CASE RenderPage BY <2>6, <2>7 DEF RenderPage
  <2>8. CASE \E c \in Caller : Reply(c) \/ Lost(c) BY <2>6, <2>8 DEF Reply, Lost, Finish
  <2>9. CASE Ask \/ FormReply \/ FormLost \/ Arrive \/ NavFails
    BY <2>6, <2>9 DEF Ask, FormReply, FormLost, Arrive, NavFails
  <2>10. CASE UNCHANGED vars BY <2>6, <2>10 DEF vars
  <2> QED BY <1>2, <2>2, <2>3, <2>4, <2>5, <2>7, <2>8, <2>9, <2>10 DEF Next
<1>3. ASSUME NEW n \in 0 .. Len(log), Restart(n) PROVE LedgerInv'
  <2>1. UNCHANGED <<posted, agent, intents>> BY <1>3 DEF Restart
  <2>2. \A c \in 1 .. posted : c \in Caller BY ClientAssumption DEF Caller, ServiceInv
  <2>3. \A c \in 1 .. posted : outcome'[c] = "refused" <=> outcome[c] = "refused"
    BY <1>3, <2>2, RestartFacts
  <2>4. MayCount' = MayCount BY <2>1, <2>3 DEF MayCount, Refused
  <2>5. Owed' = Owed BY <1>0, <2>1, <2>3 DEF Owed, Refused, None
  <2> QED BY <2>1, <2>4, <2>5 DEF LedgerInv
<1> QED BY <1>1, <1>2, <1>3

-----------------------------------------------------------------------------
(* The tab.                                                                *)

PageType == [view : {"blank", "page", "failed"}, shown : Nat, scripted : BOOLEAN,
             busy : BOOLEAN, status : {"none", "saving", "saved", "unsure"},
             own : 0 .. MaxPosts, old : BOOLEAN]
NavType == [is : {"none", "asked", "rendered"}, value : Nat, own : 0 .. MaxPosts, old : BOOLEAN]

TabType ==
  /\ page \in PageType /\ page.own <= posted /\ nav \in NavType /\ nav.own <= posted
  /\ form \in 0 .. posted
  /\ sent = {} \/ \E c \in 1 .. posted : sent = {c}
  /\ page.busy <=> sent # {}

\* Post c was acknowledged and, unless lost, is in the log at a place that v covers.
Covers(v, c) ==
  /\ outcome[c] \in {"ok", "lost"}
  /\ outcome[c] = "ok" => \E i \in 1 .. Len(log) : log[i] = c /\ Saved + i <= v
\* Every place of post c in the log is beyond the value v.
Beyond(v, c) == \A i \in 1 .. Len(log) : log[i] = c => v < Saved + i
\* Post c comes after post d: in the log, and in the value it is answered with.
Follows(c, d) ==
  \A i \in 1 .. Len(log) : log[i] = d =>
    /\ \A j \in 1 .. Len(log) : log[j] = c => i < j
    /\ outcome[c] \in {"ok", "lost"} => Saved + i <= answer[c]

ShowInv ==
  /\ page.view = "page" /\ ~page.old => page.shown <= Saved + Len(log)
  /\ nav.is = "rendered" /\ ~nav.old => nav.value <= Saved + Len(log)
  /\ sent # {} => page.view = "page"
  /\ \A c \in sent : ~page.old => Beyond(page.shown, c) /\ outcome[c] # "lost"
  /\ nav.own # None => Covers(Saved + Len(log), nav.own)
  /\ nav.own # None /\ nav.is = "rendered" => Covers(nav.value, nav.own)
  /\ page.own # None => Covers(page.shown, page.own) /\ \A c \in sent : Follows(c, page.own)

TabInv == TabType /\ ShowInv
Inv == ServiceInv /\ LedgerInv /\ TabInv

\* The posts that the tab knows of are posts.
LEMMA TabPosts ==
  ASSUME ServiceInv, TabType
  PROVE  /\ sent \subseteq Caller /\ posted + 1 \notin sent
         /\ page.own # None => page.own \in Caller
         /\ nav.own # None => nav.own \in Caller
         /\ page.shown \in Nat /\ nav.value \in Nat
<1>1. posted \in Nat /\ posted <= MaxPosts /\ MaxPosts \in Nat BY ClientAssumption DEF ServiceInv
<1>2. sent = {} \/ \E c \in 1 .. posted : sent = {c} BY DEF TabType
<1>3. sent \subseteq Caller /\ posted + 1 \notin sent BY <1>1, <1>2 DEF Caller
<1>4. page \in PageType /\ nav \in NavType BY DEF TabType
<1>5. /\ page.own \in 0 .. MaxPosts /\ nav.own \in 0 .. MaxPosts
      /\ page.shown \in Nat /\ nav.value \in Nat
  BY <1>4 DEF PageType, NavType
<1>6. \A c \in 0 .. MaxPosts : c # 0 => c \in Caller BY <1>1 DEF Caller
<1> QED BY <1>3, <1>5, <1>6 DEF None

\* What a step of the service does to the log, as the tab sees it.
LEMMA LogGrows ==
  ASSUME ServiceInv, NEW c \in Caller, Serve(c)
  PROVE  /\ Len(log) \in Nat /\ Len(log') \in Nat /\ Len(log) <= Len(log')
         /\ \A i \in 1 .. Len(log) : i \in 1 .. Len(log') /\ log'[i] = log[i]
         /\ \A i \in 1 .. Len(log') : i \in 1 .. Len(log) \/ (i = Len(log) + 1 /\ log'[i] = c)
<1>1. CASE log' = Append(log, c)
  <2>1. /\ Len(log') = Len(log) + 1 /\ Len(log) \in Nat /\ \A i \in 1 .. Len(log) : log'[i] = log[i]
        /\ log'[Len(log) + 1] = c
    BY <1>1, AppendFacts DEF ServiceInv
  <2> QED BY <2>1
<1>2. CASE log' = log BY <1>2, LenProperties DEF ServiceInv
<1> QED BY <1>1, <1>2, ServeMoves

\* What it leaves alone: a post that has its answer, and the number of lost ones.
LEMMA AnswersStay ==
  ASSUME ServiceInv, NEW c \in Caller, Serve(c), NEW d \in Caller
  PROVE  /\ outcome[d] \in {"ok", "lost"} =>
              /\ outcome'[d] = outcome[d] /\ answer'[d] = answer[d]
              /\ \A i \in 1 .. Len(log') : log'[i] = d => i \in 1 .. Len(log) /\ log[i] = d
         /\ outcome'[d] = "lost" => outcome[d] = "lost"
         /\ outcome'[d] \in {"ok", "lost"} =>
              \/ outcome[d] \in {"ok", "lost"}
              \/ \E j \in 1 .. Len(log) : log[j] = d /\ answer'[d] = Saved + j
<1>1. CASE d # c
  <2>1. outcome'[d] = outcome[d] /\ answer'[d] = answer[d] BY <1>1, ServeMoves
  <2> QED BY <1>1, <2>1, LogGrows
<1>2. CASE d = c
  <2>1. outcome[c] \in {"idle", "pending", "unknown"}
    BY ServeMoves
  <2>2. outcome'[c] = "ok" => \E j \in 1 .. Len(log) : log[j] = c /\ answer'[c] = Saved + j
    BY <2>1, ServeMoves
  <2>3. outcome'[c] # "lost" BY <2>1, ServeMoves
  <2> QED BY <1>2, <2>1, <2>2, <2>3
<1> QED BY <1>1, <1>2

LEMMA CoversStays ==
  ASSUME ServiceInv, NEW c \in Caller, Serve(c), NEW d \in Caller, NEW v, Covers(v, d)
  PROVE  /\ outcome'[d] \in {"ok", "lost"}
         /\ outcome'[d] = "ok" => \E i \in 1 .. Len(log') : log'[i] = d /\ Saved + i <= v
<1>1. outcome[d] \in {"ok", "lost"} BY DEF Covers
<1>2. outcome'[d] = outcome[d] BY <1>1, AnswersStay
<1>3. ASSUME outcome'[d] = "ok" PROVE \E i \in 1 .. Len(log') : log'[i] = d /\ Saved + i <= v
  <2>1. PICK i \in 1 .. Len(log) : log[i] = d /\ Saved + i <= v BY <1>2, <1>3 DEF Covers
  <2> QED BY <2>1, LogGrows
<1> QED BY <1>1, <1>2, <1>3

LEMMA TabServes == ASSUME Inv, NEW c \in Caller, Serve(c) PROVE TabInv'
<1> USE ClientAssumption DEF Inv, TabInv
<1>1. UNCHANGED <<posted, page, sent, form, nav>> BY DEF Serve
<1>2. TabType' BY <1>1 DEF TabType
<1>3. \A i \in 1 .. Len(log) : i \in 1 .. Len(log') /\ log'[i] = log[i] BY LogGrows
<1>4. Len(log) \in Nat /\ Len(log') \in Nat /\ Len(log) <= Len(log') BY LogGrows
<1>5. /\ sent \subseteq Caller /\ page.shown \in Nat /\ nav.value \in Nat
      /\ page.own # None => page.own \in Caller
      /\ nav.own # None => nav.own \in Caller
  BY TabPosts
<1>6. nav.own # None => Covers(Saved + Len(log), nav.own)'
  <2> SUFFICES ASSUME nav.own # None PROVE Covers(Saved + Len(log), nav.own)'
    BY <1>1
  <2>1. Covers(Saved + Len(log), nav.own) BY DEF ShowInv
  <2>2. /\ outcome'[nav.own] \in {"ok", "lost"}
        /\ outcome'[nav.own] = "ok" =>
             \E i \in 1 .. Len(log') : log'[i] = nav.own /\ Saved + i <= Saved + Len(log)
    BY <1>5, <2>1, CoversStays
  <2>3. \A i \in 1 .. Len(log') : Saved + i <= Saved + Len(log') BY <1>4
  <2> QED BY <1>1, <2>2, <2>3 DEF Covers
<1>7. nav.own # None /\ nav.is = "rendered" => Covers(nav.value, nav.own)'
  <2> SUFFICES ASSUME nav.own # None, nav.is = "rendered" PROVE Covers(nav.value, nav.own)'
    BY <1>1
  <2>1. Covers(nav.value, nav.own) BY DEF ShowInv
  <2> QED BY <1>1, <1>5, <2>1, CoversStays DEF Covers
<1>8. page.own # None => Covers(page.shown, page.own)'
  <2> SUFFICES ASSUME page.own # None PROVE Covers(page.shown, page.own)'
    BY <1>1
  <2>1. Covers(page.shown, page.own) BY DEF ShowInv
  <2> QED BY <1>1, <1>5, <2>1, CoversStays DEF Covers
<1>9. ASSUME NEW d \in sent, ~page.old PROVE Beyond(page.shown, d)' /\ outcome'[d] # "lost"
  <2>1. page.shown <= Saved + Len(log) /\ Beyond(page.shown, d) /\ outcome[d] # "lost"
    BY <1>9 DEF ShowInv
  <2>2. ASSUME NEW i \in 1 .. Len(log'), log'[i] = d PROVE page.shown < Saved + i
    <3>1. CASE i \in 1 .. Len(log) BY <1>3, <2>1, <2>2, <3>1 DEF Beyond
    <3>2. CASE i = Len(log) + 1 BY <1>4, <1>5, <2>1, <3>2
    <3> QED BY <3>1, <3>2, LogGrows
  <2>3. outcome'[d] # "lost" BY <1>5, <2>1, AnswersStay
  <2> QED BY <1>1, <2>2, <2>3 DEF Beyond
<1>10. ASSUME page.own # None, NEW d \in sent PROVE Follows(d, page.own)'
  <2>1. Follows(d, page.own) /\ outcome[page.own] \in {"ok", "lost"} /\ page.own \in Caller /\ d \in Caller
    BY <1>5, <1>10 DEF ShowInv, Covers
  <2>2. ASSUME NEW i \in 1 .. Len(log'), log'[i] = page.own
        PROVE  /\ \A j \in 1 .. Len(log') : log'[j] = d => i < j
               /\ outcome'[d] \in {"ok", "lost"} => Saved + i <= answer'[d]
    <3>1. i \in 1 .. Len(log) /\ log[i] = page.own BY <2>1, <2>2, AnswersStay
    <3>2. /\ \A j \in 1 .. Len(log) : log[j] = d => i < j
          /\ outcome[d] \in {"ok", "lost"} => Saved + i <= answer[d]
      BY <2>1, <3>1 DEF Follows
    <3>3. ASSUME NEW j \in 1 .. Len(log'), log'[j] = d PROVE i < j
      <4>1. CASE j \in 1 .. Len(log) BY <1>3, <3>2, <3>3, <4>1
      <4>2. CASE j = Len(log) + 1 BY <1>4, <3>1, <4>2
      <4> QED BY <4>1, <4>2, LogGrows
    <3>4. ASSUME outcome'[d] \in {"ok", "lost"} PROVE Saved + i <= answer'[d]
      <4>1. CASE outcome[d] \in {"ok", "lost"} BY <2>1, <3>2, <4>1, AnswersStay
      <4>2. CASE \E j \in 1 .. Len(log) : log[j] = d /\ answer'[d] = Saved + j
        <5>1. PICK j \in 1 .. Len(log) : log[j] = d /\ answer'[d] = Saved + j BY <4>2
        <5>2. i < j BY <3>2, <5>1
        <5> QED BY <1>4, <3>1, <5>1, <5>2
      <4> QED BY <2>1, <3>4, <4>1, <4>2, AnswersStay
    <3> QED BY <3>3, <3>4
  <2> QED BY <1>1, <2>2 DEF Follows
<1> QED BY <1>1, <1>2, <1>4, <1>5, <1>6, <1>7, <1>8, <1>9, <1>10 DEF ShowInv

\* A restart: what was lost is in no claim, and what is left keeps its place.
LEMMA TabRestarts == ASSUME Inv, NEW n \in 0 .. Len(log), Restart(n) PROVE TabInv'
<1> USE ClientAssumption DEF Inv, TabInv
<1>1. /\ UNCHANGED <<posted, sent, form, answer>>
      /\ page' = [page EXCEPT !.old = @ \/ (page.view = "page" /\ n < Len(log))]
      /\ nav' = [nav EXCEPT !.old = @ \/ (nav.is = "rendered" /\ n < Len(log))]
  BY DEF Restart
<1>2. page \in PageType /\ nav \in NavType BY DEF TabType
<1>3. /\ page' \in PageType /\ page'.view = page.view /\ page'.shown = page.shown
      /\ page'.own = page.own /\ page'.busy = page.busy
  BY <1>1, <1>2 DEF PageType
<1>4. /\ nav' \in NavType /\ nav'.is = nav.is /\ nav'.value = nav.value /\ nav'.own = nav.own
  BY <1>1, <1>2 DEF NavType
<1>5. page'.old <=> (page.old \/ (page.view = "page" /\ n < Len(log)))
  BY <1>1, <1>2 DEF PageType
<1>6. nav'.old <=> (nav.old \/ (nav.is = "rendered" /\ n < Len(log)))
  BY <1>1, <1>2 DEF NavType
<1>7. TabType' BY <1>1, <1>3, <1>4 DEF TabType
<1>8. /\ Len(log') = n /\ Len(log) \in Nat /\ n \in Nat
      /\ \A i \in 1 .. n : i \in 1 .. Len(log) /\ log'[i] = log[i]
  BY RestartFacts
<1>9. /\ sent \subseteq Caller /\ page.shown \in Nat /\ nav.value \in Nat
      /\ page.own # None => page.own \in Caller
      /\ nav.own # None => nav.own \in Caller
  BY TabPosts
<1>10. ASSUME NEW c \in Caller, NEW v, Covers(v, c)
       PROVE  /\ outcome'[c] \in {"ok", "lost"}
              /\ outcome'[c] = "ok" => \E i \in 1 .. n : log'[i] = c /\ Saved + i <= v
  <2>1. outcome[c] \in {"ok", "lost"} BY <1>10 DEF Covers
  <2>2. outcome'[c] \in {"ok", "lost"} BY <2>1, RestartFacts
  <2>3. ASSUME outcome'[c] = "ok" PROVE \E i \in 1 .. n : log'[i] = c /\ Saved + i <= v
    <3>1. outcome[c] = "ok" /\ \E j \in 1 .. n : log[j] = c BY <2>1, <2>3, RestartFacts
    <3>2. PICK j \in 1 .. n : log[j] = c BY <3>1
    <3>3. PICK i \in 1 .. Len(log) : log[i] = c /\ Saved + i <= v BY <1>10, <3>1 DEF Covers
    <3>4. i = j BY <1>8, <3>2, <3>3 DEF ServiceInv
    <3> QED BY <1>8, <3>2, <3>3, <3>4
  <2> QED BY <2>2, <2>3
<1>11. page'.view = "page" /\ ~page'.old => page'.shown <= Saved + Len(log')
  BY <1>3, <1>5, <1>8 DEF ShowInv
<1>12. nav'.is = "rendered" /\ ~nav'.old => nav'.value <= Saved + Len(log')
  BY <1>4, <1>6, <1>8 DEF ShowInv
<1>13. ASSUME NEW c \in sent, ~page'.old PROVE Beyond(page.shown, c)' /\ outcome'[c] # "lost"
  <2>1. page.view = "page" BY <1>13 DEF ShowInv
  <2>2. n = Len(log) /\ ~page.old BY <1>5, <1>8, <1>13, <2>1
  <2>3. Beyond(page.shown, c) /\ outcome[c] # "lost" BY <1>13, <2>2 DEF ShowInv
  <2>4. c \in Caller BY <1>9, <1>13
  <2>5. outcome[c] = "ok" => \E i \in 1 .. n : log[i] = c BY <2>2, <2>4 DEF ServiceInv
  <2>6. outcome'[c] # "lost" BY <2>3, <2>4, <2>5, RestartFacts
  <2> QED BY <1>3, <1>8, <2>2, <2>3, <2>6 DEF Beyond
<1>14. nav'.own # None => Covers(Saved + Len(log), nav.own)'
  <2> SUFFICES ASSUME nav.own # None PROVE Covers(Saved + Len(log), nav.own)'
    BY <1>4
  <2>1. Covers(Saved + Len(log), nav.own) BY DEF ShowInv
  <2>2. /\ outcome'[nav.own] \in {"ok", "lost"}
        /\ outcome'[nav.own] = "ok" =>
             \E i \in 1 .. n : log'[i] = nav.own /\ Saved + i <= Saved + Len(log)
    BY <1>9, <1>10, <2>1
  <2>3. \A i \in 1 .. n : Saved + i <= Saved + n BY <1>8
  <2> QED BY <1>4, <1>8, <2>2, <2>3 DEF Covers
<1>15. nav'.own # None /\ nav'.is = "rendered" => Covers(nav.value, nav.own)'
  <2> SUFFICES ASSUME nav.own # None, nav.is = "rendered" PROVE Covers(nav.value, nav.own)'
    BY <1>4
  <2>1. Covers(nav.value, nav.own) BY DEF ShowInv
  <2>2. /\ outcome'[nav.own] \in {"ok", "lost"}
        /\ outcome'[nav.own] = "ok" => \E i \in 1 .. n : log'[i] = nav.own /\ Saved + i <= nav.value
    BY <1>9, <1>10, <2>1
  <2> QED BY <1>4, <1>8, <2>2 DEF Covers
<1>16. page'.own # None => Covers(page.shown, page.own)'
  <2> SUFFICES ASSUME page.own # None PROVE Covers(page.shown, page.own)'
    BY <1>3
  <2>1. Covers(page.shown, page.own) BY DEF ShowInv
  <2>2. /\ outcome'[page.own] \in {"ok", "lost"}
        /\ outcome'[page.own] = "ok" => \E i \in 1 .. n : log'[i] = page.own /\ Saved + i <= page.shown
    BY <1>9, <1>10, <2>1
  <2> QED BY <1>3, <1>8, <2>2 DEF Covers
<1>17. ASSUME page.own # None, NEW c \in sent PROVE Follows(c, page.own)'
  <2>1. Follows(c, page.own) /\ c \in Caller BY <1>9, <1>17 DEF ShowInv
  <2>2. outcome'[c] \in {"ok", "lost"} => outcome[c] \in {"ok", "lost"}
    BY <2>1, RestartFacts
  <2> QED BY <1>1, <1>3, <1>8, <2>1, <2>2 DEF Follows
<1>18. (sent # {} => page.view = "page")' BY <1>1, <1>3 DEF ShowInv
<1> QED BY <1>1, <1>3, <1>7, <1>11, <1>12, <1>13, <1>14, <1>15, <1>16, <1>17, <1>18 DEF ShowInv

\* A new post is not in the log yet, and is beyond whatever a page shows.
LEMMA NewIsBeyond == ASSUME ServiceInv, NEW v PROVE Beyond(v, posted + 1)
<1>1. \A i \in 1 .. Len(log) : log[i] \in Caller BY LenProperties DEF ServiceInv
<1>2. posted + 1 > posted /\ posted \in Nat BY ClientAssumption DEF ServiceInv
<1>3. \A i \in 1 .. Len(log) : log[i] # posted + 1 BY <1>1, <1>2 DEF ServiceInv
<1> QED BY <1>3 DEF Beyond

LEMMA NewIsIdle ==
  ASSUME ServiceInv, posted < MaxPosts
  PROVE  outcome[posted + 1] = "idle" /\ \A i \in 1 .. Len(log) : log[i] # posted + 1
<1>1. posted + 1 > posted /\ posted + 1 \in Caller BY ClientAssumption DEF ServiceInv, Caller
<1>2. outcome[posted + 1] = "idle" BY <1>1 DEF ServiceInv
<1>3. \A i \in 1 .. Len(log) : outcome[log[i]] # "idle" BY DEF ServiceInv
<1> QED BY <1>2, <1>3

\* A page that gives way to the browser's own, or to an error page.
LEMMA TabBlank ==
  ASSUME Inv, UNCHANGED <<log, outcome, answer, posted>>, NEW view \in {"blank", "failed"},
         page' = Blank(view), sent' = {}, nav' \in {nav, NoNav}, form' \in {form, None}
  PROVE  TabInv'
<1> USE ClientAssumption DEF Inv, TabInv, None
<1>1. TabType /\ ShowInv /\ posted \in 0 .. MaxPosts BY DEF ServiceInv
<1>2. /\ page' \in PageType /\ page'.own = 0 /\ page'.busy = FALSE /\ page'.view = view
  BY DEF Blank, PageType
<1>3. NoNav \in NavType /\ NoNav.own = 0 /\ NoNav.is = "none" BY DEF NoNav, NavType
<1>4. TabType' BY <1>1, <1>2, <1>3 DEF TabType
<1>5. CASE nav' = nav BY <1>1, <1>2, <1>4, <1>5 DEF ShowInv, Covers
<1>6. CASE nav' = NoNav BY <1>2, <1>3, <1>4, <1>6 DEF ShowInv
<1> QED BY <1>5, <1>6

\* The tab's own steps.
LEMMA TabMoves ==
  ASSUME Inv, [Next]_vars, \A c \in Caller : ~Serve(c), \A n \in 0 .. Len(log) : ~Restart(n)
  PROVE  TabInv'
<1> USE ClientAssumption DEF Inv, TabInv
<1>1. UNCHANGED <<log, outcome, answer>> BY ClientMoves DEF service
<1>2. posted \in Nat /\ posted' \in Nat /\ posted <= posted' /\ posted' <= MaxPosts
  BY ClientMoves DEF ServiceInv
<1>3. Len(log) \in Nat BY LenProperties DEF ServiceInv
<1>4. ASSUME NEW v, NEW d
      PROVE  /\ Covers(v, d) <=>
                  /\ outcome'[d] \in {"ok", "lost"}
                  /\ outcome'[d] = "ok" => \E i \in 1 .. Len(log') : log'[i] = d /\ Saved + i <= v
             /\ Beyond(v, d) <=> \A i \in 1 .. Len(log') : log'[i] = d => v < Saved + i
  BY <1>1 DEF Covers, Beyond
<1>5. TabType /\ ShowInv OBVIOUS
\* A step that leaves the page, the script's posts and the page under way alone.
<1>6. ASSUME UNCHANGED <<page, sent, nav>>, form' \in 0 .. posted' PROVE TabInv'
  <2>1. TabType' BY <1>2, <1>5, <1>6 DEF TabType, PageType, NavType
  <2>2. ShowInv' BY <1>1, <1>5, <1>6 DEF ShowInv, Covers, Beyond, Follows
  <2> QED BY <2>1, <2>2
\* One that only changes what the tab waits for.
<1>7. ASSUME UNCHANGED <<page, sent>>, nav' \in NavType, nav'.own <= posted', form' \in 0 .. posted',
             nav'.is = "rendered" /\ ~nav'.old => nav'.value <= Saved + Len(log),
             nav'.own # None => Covers(Saved + Len(log), nav'.own),
             nav'.own # None /\ nav'.is = "rendered" => Covers(nav'.value, nav'.own)
      PROVE  TabInv'
  <2>1. TabType' BY <1>2, <1>5, <1>7 DEF TabType, PageType
  <2>2. ShowInv' BY <1>1, <1>5, <1>7 DEF ShowInv, Covers, Beyond, Follows
  <2> QED BY <2>1, <2>2
<1>8. CASE AgentPost \/ AgentRetry \/ AgentStop \/ UNCHANGED vars
  BY <1>2, <1>5, <1>6, <1>8 DEF AgentPost, AgentRetry, AgentStop, vars, TabType
<1>9. CASE RenderPage
  <2>1. nav' = [nav EXCEPT !.is = "rendered", !.value = Saved + Len(log), !.old = FALSE]
        /\ UNCHANGED <<posted, page, sent, form>>
    BY <1>9 DEF RenderPage
  <2>2. nav \in NavType /\ Saved + Len(log) \in Nat BY <1>3, <1>5 DEF TabType
  <2>3. nav' \in NavType /\ nav'.own = nav.own /\ nav'.value = Saved + Len(log)
    BY <2>1, <2>2 DEF NavType
  <2>4. form \in 0 .. posted /\ nav.own <= posted /\ (nav.own # None => Covers(Saved + Len(log), nav.own))
    BY <1>5 DEF TabType, ShowInv
  <2>5. nav'.value <= Saved + Len(log) BY <2>2, <2>3
  <2> QED BY <1>2, <1>7, <2>1, <2>3, <2>4, <2>5
<1>10. CASE Ask
  <2>1. nav' = [NoNav EXCEPT !.is = "asked"] /\ form' = None /\ UNCHANGED <<posted, page, sent>>
    BY <1>10 DEF Ask
  <2>2. nav' = [is |-> "asked", value |-> Saved, own |-> 0, old |-> FALSE]
    BY <2>1 DEF NoNav, None
  <2>3. nav' \in NavType /\ nav'.own = None /\ nav'.is = "asked"
    BY <2>2 DEF NavType, None, ServiceInv
  <2> QED BY <1>2, <1>7, <2>1, <2>3 DEF None
<1>11. CASE SubmitForm
  <2>1. form' = posted + 1 /\ posted' = posted + 1 /\ nav' = NoNav /\ UNCHANGED <<page, sent>>
    BY <1>11 DEF SubmitForm, Post, New
  <2>2. nav' \in NavType /\ nav'.own = None /\ nav'.is = "none"
    BY <2>1 DEF NavType, NoNav, None, ServiceInv
  <2> QED BY <1>2, <1>7, <2>1, <2>2 DEF None
<1>12. CASE FormReply
  <2>1. form \in Caller /\ form # None /\ outcome[form] \in {"refused", "ok", "failed", "unknown", "lost"}
    BY <1>5, <1>12 DEF FormReply, AnsweredPost, TabType, ServiceInv, Outcomes, Caller, None
  <2>2. CASE Redirects(form)
    <3>1. nav' = [NoNav EXCEPT !.is = "asked", !.own = form] /\ form' = None
          /\ UNCHANGED <<posted, page, sent>>
      BY <1>12, <2>2 DEF FormReply
    <3>2. outcome[form] \in {"ok", "lost"} BY <2>1, <2>2 DEF Redirects, Code
    <3>3. outcome[form] = "ok" => \E i \in 1 .. Len(log) : log[i] = form
      BY <2>1 DEF ServiceInv
    <3>4. Covers(Saved + Len(log), form) BY <1>3, <3>2, <3>3 DEF Covers
    <3>5. form \in 0 .. MaxPosts /\ form <= posted BY <1>2, <1>5 DEF TabType
    <3>6. nav' \in NavType /\ nav'.own = form /\ nav'.is = "asked"
      BY <3>1, <3>5 DEF NavType, NoNav, None
    <3> QED BY <1>2, <1>7, <3>1, <3>4, <3>5, <3>6 DEF None
  <2>3. CASE ~Redirects(form)
    BY <1>1, <1>12, <2>3, TabBlank DEF FormReply
  <2> QED BY <2>2, <2>3
<1>13. CASE FormLost BY <1>1, <1>13, TabBlank DEF FormLost
<1>14. CASE NavFails BY <1>1, <1>14, TabBlank DEF NavFails
<1>15. CASE Arrive
  <2>1. PICK scripted \in BOOLEAN :
          page' = [Blank("page") EXCEPT !.shown = nav.value, !.own = nav.own, !.old = nav.old,
                                        !.scripted = scripted]
    BY <1>15 DEF Arrive
  <2>2. /\ nav.is = "rendered" /\ nav' = NoNav /\ sent' = {} /\ UNCHANGED <<posted, form>>
    BY <1>15 DEF Arrive
  <2>3. /\ page' \in PageType /\ page'.shown = nav.value /\ page'.own = nav.own /\ page'.old = nav.old
        /\ page'.busy = FALSE /\ page'.view = "page"
    BY <1>5, <2>1 DEF TabType, PageType, NavType, Blank
  <2>4. nav' \in NavType /\ nav'.own = 0 /\ nav'.is = "none"
    BY <2>2 DEF NavType, NoNav, None, ServiceInv
  <2>5. form \in 0 .. posted /\ nav.own <= posted /\ posted' = posted BY <1>5, <2>2 DEF TabType
  <2>6. TabType' BY <2>2, <2>3, <2>4, <2>5 DEF TabType, ServiceInv
  <2>7. ShowInv' BY <1>1, <1>5, <2>2, <2>3, <2>4 DEF ShowInv, Covers, Beyond, None
  <2> QED BY <2>6, <2>7
<1>16. CASE Click
  <2>1. page.view = "page" /\ ~page.busy /\ posted' = posted + 1 /\ sent' = sent \cup {posted + 1}
        /\ page' = [page EXCEPT !.busy = TRUE, !.status = "saving"] /\ UNCHANGED <<form, nav>>
    BY <1>16 DEF Click, Post, New
  <2>2. sent' = {posted + 1} BY <1>5, <2>1 DEF TabType
  <2>3. page' \in PageType /\ page'.busy = TRUE /\ page'.view = "page" /\ page'.shown = page.shown
        /\ page'.own = page.own /\ page'.old = page.old
    BY <1>5, <2>1 DEF TabType, PageType
  <2>4. /\ page'.own <= posted' /\ nav' \in NavType /\ nav'.own <= posted' /\ form' \in 0 .. posted'
    <3>1. page.own <= posted /\ page.own \in Nat /\ nav.own <= posted /\ nav.own \in Nat
      BY <1>5 DEF TabType, PageType, NavType
    <3>2. form \in 0 .. posted /\ nav \in NavType BY <1>5 DEF TabType
    <3> QED BY <1>2, <2>1, <2>3, <3>1, <3>2
  <2>5. posted + 1 \in 1 .. posted' /\ sent' # {} BY <1>2, <2>1, <2>2
  <2>6. TabType' BY <2>2, <2>3, <2>4, <2>5 DEF TabType
  <2>7. Beyond(page.shown, posted + 1) BY NewIsBeyond
  <2>8. outcome[posted + 1] = "idle" /\ \A i \in 1 .. Len(log) : log[i] # posted + 1
    BY <1>16, NewIsIdle DEF Click, Post
  <2>9. \A d : Follows(posted + 1, d) BY <2>8 DEF Follows
  <2>10. ShowInv' BY <1>1, <1>5, <2>1, <2>2, <2>3, <2>7, <2>8, <2>9 DEF ShowInv, Covers, Beyond, Follows
  <2> QED BY <2>6, <2>10
\* The page's request has ended, and the page shows a value that is not ahead of the log.
<1>17. ASSUME NEW c \in Caller, c \in sent, NEW shown, NEW status \in {"saved", "unsure"},
              Finish(c, shown, status), shown \in Nat,
              ~page.old => shown <= Saved + Len(log),
              page.own # None => Covers(shown, page.own)
       PROVE  TabInv'
  <2>1. sent' = {} BY <1>5, <1>17 DEF Finish, TabType
  <2>2. /\ page' \in PageType /\ page'.busy = FALSE /\ page'.shown = shown /\ page'.own = page.own
        /\ page'.view = page.view /\ page'.old = page.old /\ UNCHANGED <<posted, form, nav>>
    BY <1>5, <1>17 DEF Finish, TabType, PageType
  <2>3. TabType' BY <1>2, <1>5, <2>1, <2>2 DEF TabType
  <2>4. ShowInv' BY <1>1, <1>5, <1>17, <2>1, <2>2 DEF ShowInv, Covers, Beyond
  <2> QED BY <2>3, <2>4
<1>18. ASSUME NEW c \in Caller, Reply(c) \/ Lost(c) PROVE TabInv'
  <2>1. c \in sent BY <1>18 DEF Reply, Lost
  <2>2. /\ page.shown \in Nat
        /\ ~page.old => page.shown <= Saved + Len(log)
        /\ page.own # None => Covers(page.shown, page.own)
    BY <1>5, <2>1 DEF TabType, PageType, ShowInv
  <2>3. CASE Finish(c, page.shown, "unsure") BY <1>17, <2>1, <2>2, <2>3
  <2>4. CASE AnsweredPost(c) /\ Confirms(c) /\ Finish(c, answer[c], "saved")
    <3>1. outcome[c] \in {"ok", "lost"} /\ answer[c] \in Nat
      BY <2>4 DEF AnsweredPost, Confirms, Code, ServiceInv, Outcomes
    <3>2. ASSUME ~page.old PROVE answer[c] <= Saved + Len(log)
      <4>1. outcome[c] = "ok" BY <1>5, <2>1, <3>1, <3>2 DEF ShowInv
      <4>2. PICK i \in 1 .. Len(log) : log[i] = c /\ answer[c] = Saved + i
        BY <4>1 DEF ServiceInv
      <4> QED BY <1>3, <4>2
    <3>3. ASSUME page.own # None PROVE Covers(answer[c], page.own)
      <4>1. Covers(page.shown, page.own) /\ Follows(c, page.own) BY <1>5, <2>1, <3>3 DEF ShowInv
      <4> QED BY <3>1, <4>1 DEF Covers, Follows
    <3> QED BY <1>17, <2>1, <2>4, <3>1, <3>2, <3>3
  <2> QED BY <1>18, <2>3, <2>4 DEF Reply, Lost
<1> QED
  BY <1>8, <1>9, <1>10, <1>11, <1>12, <1>13, <1>14, <1>15, <1>16, <1>18 DEF Next

-----------------------------------------------------------------------------
(* The invariant.                                                          *)

LEMMA InvInit == Init => Inv
<1> SUFFICES ASSUME Init PROVE Inv
  OBVIOUS
<1> USE ClientAssumption
<1>1. /\ log = <<>> /\ outcome = [c \in Caller |-> "idle"] /\ answer = [c \in Caller |-> Saved]
      /\ posted = 0 /\ sent = {} /\ form = 0 /\ agent = 0 /\ intents = 0
      /\ page = Blank("blank") /\ nav = NoNav
  BY DEF Init, S!Init, None
<1>2. log \in Seq(Caller) /\ Len(log) = 0 BY <1>1
<1>3. ServiceInv BY <1>1, <1>2 DEF ServiceInv, Outcomes
<1>4. LedgerInv
  <2>1. MayCount = {} BY <1>1 DEF MayCount
  <2>2. Owed = 0 BY <1>1 DEF Owed, None
  <2> QED BY <1>1, <2>1, <2>2, FS_EmptySet DEF LedgerInv
<1>5. TabType BY <1>1 DEF TabType, PageType, NavType, Blank, NoNav, None
<1>6. ShowInv BY <1>1 DEF ShowInv, Blank, NoNav, None
<1> QED BY <1>3, <1>4, <1>5, <1>6 DEF Inv, TabInv

LEMMA InvStep == Inv /\ [Next]_vars => Inv'
<1> SUFFICES ASSUME Inv, [Next]_vars PROVE Inv'
  OBVIOUS
<1>1. ServiceInv' BY ServiceStep DEF Inv
<1>2. LedgerInv' BY LedgerStep DEF Inv
<1>3. TabInv'
  <2>1. CASE \E c \in Caller : Serve(c) BY <2>1, TabServes
  <2>2. CASE \E n \in 0 .. Len(log) : Restart(n) BY <2>2, TabRestarts
  <2>3. CASE (\A c \in Caller : ~Serve(c)) /\ \A n \in 0 .. Len(log) : ~Restart(n)
    BY <2>3, TabMoves
  <2> QED BY <2>1, <2>2, <2>3
<1> QED BY <1>1, <1>2, <1>3 DEF Inv

LEMMA InvAlways == Spec => []Inv
BY InvInit, InvStep, PTL DEF Spec

-----------------------------------------------------------------------------
(* The theorems.                                                           *)

\* Types, and the one request under way behind the disabled button of counter.js.
THEOREM TypeCorrect == Spec => []TypeOK
<1>1. Inv => TypeOK
  <2> SUFFICES ASSUME Inv PROVE TypeOK
    OBVIOUS
  <2>1. posted \in 0 .. MaxPosts /\ posted \in Nat BY ClientAssumption DEF Inv, ServiceInv
  <2>2. page \in PageType /\ page.own <= posted /\ nav \in NavType /\ nav.own <= posted
    BY DEF Inv, TabInv, TabType
  <2>3. page.own \in 0 .. posted /\ nav.own \in 0 .. posted
    BY <2>1, <2>2 DEF PageType, NavType
  <2>4. Cardinality(sent) <= 1 /\ sent \subseteq 1 .. posted
    <3>1. CASE sent = {} BY <3>1, FS_EmptySet
    <3>2. CASE \E c \in 1 .. posted : sent = {c}
      <4>1. PICK c \in 1 .. posted : sent = {c} BY <3>2
      <4>2. Cardinality({c}) = 1 BY FS_Singleton
      <4> QED BY <4>1, <4>2
    <3> QED BY <3>1, <3>2 DEF Inv, TabInv, TabType
  <2>5. /\ page.view \in {"blank", "page", "failed"} /\ page.shown \in Nat
        /\ {page.scripted, page.busy, page.old, nav.old} \subseteq BOOLEAN
        /\ page.status \in {"none", "saving", "saved", "unsure"}
        /\ nav.is \in {"none", "asked", "rendered"} /\ nav.value \in Nat
    BY <2>2 DEF PageType, NavType
  <2>6. form \in 0 .. posted /\ (page.busy <=> sent # {}) BY DEF Inv, TabInv, TabType
  <2>7. agent \in 0 .. posted /\ intents \in 0 .. posted BY DEF Inv, LedgerInv
  <2> QED BY <2>1, <2>3, <2>4, <2>5, <2>6, <2>7 DEF TypeOK
<1> QED BY <1>1, InvAlways, PTL

\* A sequence of distinct elements of a finite set is no longer than the set is large.
LEMMA DistinctBound ==
  ASSUME NEW T, IsFiniteSet(T), NEW n \in Nat, NEW f, \A i \in 1 .. n : f[i] \in T,
         \A i, j \in 1 .. n : f[i] = f[j] => i = j
  PROVE  n <= Cardinality(T)
<1> DEFINE g == [i \in 1 .. n |-> f[i]]
<1>1. g \in [1 .. n -> T] OBVIOUS
<1>2. g \in Injection(1 .. n, T) BY <1>1 DEF Injection, IsInjective
<1>3. IsFiniteSet(1 .. n) /\ Cardinality(1 .. n) = n BY FS_Interval
<1>4. Cardinality(1 .. n) <= Cardinality(T) BY <1>2, <1>3, FS_Injection
<1> QED BY <1>3, <1>4

\* What counts was meant: the log of increments is no longer than the users' intents,
\* through lost replies, abandoned posts and the API client's retries.
THEOREM CountedOnce == Spec => []OncePerIntent
<1>1. Inv => OncePerIntent
  <2> SUFFICES ASSUME Inv PROVE OncePerIntent
    OBVIOUS
  <2>1. Len(log) \in Nat /\ \A i \in 1 .. Len(log) : log[i] \in Caller
    BY LenProperties DEF Inv, ServiceInv
  <2>2. posted \in Nat BY ClientAssumption DEF Inv, ServiceInv
  <2>3. \A i \in 1 .. Len(log) : log[i] \in MayCount
    <3> SUFFICES ASSUME NEW i \in 1 .. Len(log) PROVE log[i] \in MayCount
      OBVIOUS
    <3>1. log[i] \in Caller /\ outcome[log[i]] \notin {"idle", "refused"}
      BY <2>1 DEF Inv, ServiceInv
    <3>2. ~(log[i] > posted) BY <3>1 DEF Inv, ServiceInv
    <3>3. log[i] \in 1 .. posted BY <2>2, <3>1, <3>2, ClientAssumption DEF Caller
    <3> QED BY <3>1, <3>3 DEF MayCount, Refused
  <2>4. IsFiniteSet(MayCount) /\ Cardinality(MayCount) + Owed <= intents
    BY DEF Inv, LedgerInv
  <2>5. Len(log) <= Cardinality(MayCount)
    BY <2>1, <2>3, <2>4, DistinctBound DEF Inv, ServiceInv
  <2>6. Cardinality(MayCount) \in Nat /\ Owed \in {0, 1} /\ intents \in Int
    BY <2>4, FS_CardinalityType DEF Owed, Inv, LedgerInv
  <2> QED BY <2>1, <2>4, <2>5, <2>6 DEF OncePerIntent
<1> QED BY <1>1, InvAlways, PTL

\* pages::increment redirects after the commit, so the page that follows has the
\* form's own increment in its value, whoever increments in between and whatever is
\* lost in between, unless that increment itself is lost.
THEOREM OwnIncrementShown == Spec => []FormShowsItself
<1>1. Inv => FormShowsItself
  <2> SUFFICES ASSUME Inv, page.own # None, outcome[page.own] # "lost"
               PROVE  \E i \in DOMAIN log : log[i] = page.own /\ page.shown >= Saved + i
    BY DEF FormShowsItself
  <2>1. DOMAIN log = 1 .. Len(log) BY LenProperties DEF Inv, ServiceInv
  <2>2. Covers(page.shown, page.own) BY DEF Inv, TabInv, ShowInv
  <2>3. PICK i \in 1 .. Len(log) : log[i] = page.own /\ Saved + i <= page.shown
    BY <2>2 DEF Covers
  <2>4. page.shown >= Saved + i
    BY <2>3, ClientAssumption DEF Inv, TabInv, TabType, PageType
  <2> QED BY <2>1, <2>3, <2>4
<1> QED BY <1>1, InvAlways, PTL

\* counter.js writes the counter of a page only upwards, and never beyond what is saved:
\* through restarts of the application, and until what the page counted is lost.
THEOREM ShownRises == Spec => NeverBackwards
<1>1. Inv /\ Inv' /\ [Next]_vars =>
        [Arrive \/ (page.view = "page" /\ page'.view = "page" /\ ~page'.old =>
           page.shown <= page'.shown /\ page'.shown <= Saved + Len(log'))]_vars
  <2> SUFFICES ASSUME Inv, Inv', Next, ~Arrive, page.view = "page", page'.view = "page", ~page'.old
               PROVE  page.shown <= page'.shown /\ page'.shown <= Saved + Len(log')
    OBVIOUS
  <2>1. page'.shown <= Saved + Len(log') BY DEF Inv, TabInv, ShowInv
  <2>2. page \in PageType /\ page.shown \in Nat BY DEF Inv, TabInv, TabType, PageType
  <2>3. CASE page' = page BY <2>1, <2>2, <2>3
  <2>4. ASSUME NEW c \in Caller, Reply(c) \/ Lost(c) PROVE page.shown <= page'.shown
    <3>1. CASE \E status : Finish(c, page.shown, status)
      BY <2>2, <3>1 DEF Finish, PageType
    <3>2. CASE c \in sent /\ AnsweredPost(c) /\ Confirms(c) /\ Finish(c, answer[c], "saved")
      <4>1. page'.shown = answer[c] /\ page'.old = page.old BY <2>2, <3>2 DEF Finish, PageType
      <4>2. Beyond(page.shown, c) /\ outcome[c] # "lost" BY <3>2, <4>1 DEF Inv, TabInv, ShowInv
      <4>3. outcome[c] = "ok"
        BY <3>2, <4>2 DEF AnsweredPost, Confirms, Code, Inv, ServiceInv, Outcomes
      <4>4. PICK i \in 1 .. Len(log) : log[i] = c /\ answer[c] = Saved + i
        BY <4>3 DEF Inv, ServiceInv
      <4>5. page.shown < Saved + i BY <4>2, <4>4 DEF Beyond
      <4>6. i \in Int /\ Saved \in Nat BY ClientAssumption
      <4> QED BY <2>2, <4>1, <4>4, <4>5, <4>6
    <3> QED BY <2>4, <3>1, <3>2 DEF Reply, Lost
  <2>5. CASE Click BY <2>1, <2>2, <2>5 DEF Click, PageType
  <2>6. ASSUME NEW c \in Caller, Serve(c) PROVE page' = page BY <2>6 DEF Serve
  <2>7. CASE RenderPage \/ SubmitForm \/ Ask \/ AgentPost \/ AgentRetry \/ AgentStop
    BY <2>3, <2>7 DEF RenderPage, SubmitForm, Ask, AgentPost, AgentRetry, AgentStop
  <2>8. CASE FormReply BY <2>3, <2>8 DEF FormReply, Blank
  <2>9. CASE FormLost \/ NavFails BY <2>9 DEF FormLost, NavFails, Blank
  <2>10. (\E c \in Caller : Serve(c) \/ Reply(c) \/ Lost(c)) => page.shown <= page'.shown
    BY <2>2, <2>4, <2>6
  <2>11. ASSUME NEW n \in 0 .. Len(log), Restart(n) PROVE page.shown <= page'.shown
    BY <2>2, <2>11 DEF Restart, PageType
  <2> QED BY <2>1, <2>5, <2>7, <2>8, <2>9, <2>10, <2>11 DEF Next
<1> QED BY <1>1, InvAlways, PTL DEF Spec, NeverBackwards
=============================================================================
