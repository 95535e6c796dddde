------------------------- MODULE DirectRoundProofs -------------------------
(***************************************************************************)
(* The direct round's report, for any number of connections.  Inv follows  *)
(* the ledger of the commits: as long as nothing broke, the counter is the *)
(* number of connections that committed, and they hold its values.         *)
(***************************************************************************)
EXTENDS DirectRound, TLAPS, FiniteSetTheorems

USE DirectAssumption DEF DirectAssumption

Broke == \E w \in Writer : code[w] = IOERR
Refused(w) == code[w] \in {BUSY, BUSY_SNAPSHOT}

TaskInv == \A w \in Writer :
  /\ seen[w] \in 0 .. counter
  /\ step[w] = "holding" => seen[w] = counter
  /\ step[w] = "failed" => Refused(w) \/ code[w] = IOERR
  /\ step[w] = "busy" => Refused(w)
  /\ step[w] = "broken" => code[w] = IOERR
  /\ step[w] \notin {"failed", "busy", "broken"} => code[w] = OK

LedgerInv ==
  /\ counter \in Nat
  /\ ~Broke => /\ counter = Cardinality(Committed)
               /\ {Value(w) : w \in Committed} = 1 .. counter
               /\ (\E w \in Writer : Refused(w)) => lock # None \/ counter > 0

RoundInv ==
  /\ round = "failed" => Broke
  /\ round = "done" => AllDone /\ final = counter

Inv == TypeOK /\ TaskInv /\ LedgerInv /\ RoundInv

\* A task's step goes from one place to another while the round runs.
LEMMA Moves ==
  ASSUME TypeOK, NEW w \in Writer, NEW from, NEW to, Goto(w, from, to)
  PROVE  /\ Running /\ step[w] = from /\ step'[w] = to
         /\ \A v \in Writer : v # w => step'[v] = step[v]
BY DEF Goto, TypeOK

\* A step that neither commits nor breaks leaves the set of the committed alone.
LEMMA SameCommitted ==
  ASSUME TypeOK, NEW w \in Writer, NEW from, NEW to, Goto(w, from, to),
         from # "committed", to # "committed"
  PROVE  Committed' = Committed
BY Moves DEF Committed

\* Every step keeps the types, and the lock with the one task that holds it.
LEMMA TypeStep ==
  ASSUME Inv, [Next]_vars
  PROVE  TypeOK'
<1> USE DEF TypeOK, OK, BUSY, IOERR, BUSY_SNAPSHOT, Goto, Running
<1>0. TypeOK /\ TaskInv BY DEF Inv
<1>1. ASSUME NEW w \in Writer, Arrive(w) PROVE TypeOK' BY <1>0, <1>1 DEF Arrive
<1>2. ASSUME NEW w \in Writer, Begin(w) PROVE TypeOK' BY <1>0, <1>2 DEF Begin
<1>3. ASSUME NEW w \in Writer, Read(w) PROVE TypeOK' BY <1>0, <1>3 DEF Read
<1>4. ASSUME NEW w \in Writer, Lock(w) PROVE TypeOK' BY <1>0, <1>4 DEF Lock
<1>5. ASSUME NEW w \in Writer, Refuse(w) PROVE TypeOK' BY <1>0, <1>5 DEF Refuse
<1>6. ASSUME NEW w \in Writer, Commit(w) PROVE TypeOK' BY <1>0, <1>6 DEF Commit, Value
<1>7. ASSUME NEW w \in Writer, Record(w) PROVE TypeOK' BY <1>0, <1>7 DEF Record
<1>8. ASSUME NEW w \in Writer, Break(w) PROVE TypeOK' BY <1>0, <1>8 DEF Break, Release
<1>9. CASE GiveUp \/ Report BY <1>0, <1>9 DEF GiveUp, Report
<1>10. CASE UNCHANGED vars BY <1>0, <1>10 DEF vars
<1> QED BY <1>1, <1>2, <1>3, <1>4, <1>5, <1>6, <1>7, <1>8, <1>9, <1>10 DEF Next, Task

\* A task knows no value newer than the counter, and has a result code that its
\* place explains; one that holds the lock has the newest snapshot.
LEMMA TaskStep ==
  ASSUME Inv, [Next]_vars
  PROVE  TaskInv'
<1> USE DEF TypeOK, TaskInv, OK, BUSY, IOERR, BUSY_SNAPSHOT, Goto, Running, Refused
<1>0. TypeOK /\ TaskInv /\ counter \in Nat BY DEF Inv, LedgerInv
<1>1. ASSUME NEW w \in Writer, Arrive(w) PROVE TaskInv' BY <1>0, <1>1 DEF Arrive
<1>2. ASSUME NEW w \in Writer, Begin(w) PROVE TaskInv' BY <1>0, <1>2 DEF Begin
<1>3. ASSUME NEW w \in Writer, Read(w) PROVE TaskInv' BY <1>0, <1>3 DEF Read
<1>4. ASSUME NEW w \in Writer, Lock(w) PROVE TaskInv' BY <1>0, <1>4 DEF Lock, Fresh
<1>5. ASSUME NEW w \in Writer, Refuse(w) PROVE TaskInv' BY <1>0, <1>5 DEF Refuse
<1>6. ASSUME NEW w \in Writer, Commit(w) PROVE TaskInv'
  <2>1. lock = w /\ seen[w] = counter /\ counter' = counter + 1
    BY <1>0, <1>6 DEF Commit, Value
  <2>2. \A v \in Writer : v # w => step[v] # "holding" BY <1>0, <2>1
  <2> QED BY <1>0, <1>6, <2>1, <2>2 DEF Commit
<1>7. ASSUME NEW w \in Writer, Record(w) PROVE TaskInv'
  <2>1. /\ step[w] = "failed" /\ UNCHANGED <<seen, code, counter>>
        /\ step' = [step EXCEPT ![w] = IF IsBusy(code[w]) THEN "busy" ELSE "broken"]
    BY <1>7 DEF Record
  <2>2. code[w] \in {BUSY, IOERR, BUSY_SNAPSHOT} BY <1>0, <2>1
  <2>3. IsBusy(code[w]) => Refused(w) BY <2>2 DEF IsBusy
  <2>4. ~IsBusy(code[w]) => code[w] = IOERR BY <2>2 DEF IsBusy
  <2> HIDE DEF IsBusy
  <2> QED BY <1>0, <2>1, <2>3, <2>4
<1>8. ASSUME NEW w \in Writer, Break(w) PROVE TaskInv' BY <1>0, <1>8 DEF Break
<1>9. CASE GiveUp \/ Report BY <1>0, <1>9 DEF GiveUp, Report
<1>10. CASE UNCHANGED vars BY <1>0, <1>10 DEF vars
<1> QED BY <1>1, <1>2, <1>3, <1>4, <1>5, <1>6, <1>7, <1>8, <1>9, <1>10 DEF Next, Task

\* A commit adds one connection and its value, the next one, to the ledger.
LEMMA CommitAdds ==
  ASSUME Inv, NEW w \in Writer, Commit(w), ~Broke
  PROVE  /\ counter' = Cardinality(Committed)'
         /\ {Value(v) : v \in Committed}' = 1 .. counter'
<1>1. TypeOK /\ TaskInv /\ counter \in Nat BY DEF Inv, LedgerInv
<1>2. /\ counter = Cardinality(Committed)
      /\ {Value(v) : v \in Committed} = 1 .. counter
  BY DEF Inv, LedgerInv
<1>3. /\ step[w] = "holding" /\ step' = [step EXCEPT ![w] = "committed"]
      /\ counter' = counter + 1 /\ seen[w] = counter /\ seen' = seen
  BY <1>1 DEF Commit, Goto, Value, TaskInv
<1>4. w \notin Committed BY <1>3 DEF Committed
<1>5. Committed' = Committed \cup {w} BY <1>1, <1>3 DEF Committed, TypeOK
<1>6. IsFiniteSet(Committed) BY FS_Subset DEF Committed
<1>7. Cardinality(Committed') = Cardinality(Committed) + 1
  BY <1>4, <1>5, <1>6, FS_AddElement
<1>8. {Value(v) : v \in Committed}' = {Value(v) : v \in Committed} \cup {Value(w)}
  BY <1>3, <1>5 DEF Value
<1>9. Value(w) = counter + 1 BY <1>3 DEF Value
<1>10. 1 .. counter + 1 = (1 .. counter) \cup {counter + 1} BY <1>1
<1> QED BY <1>2, <1>3, <1>7, <1>8, <1>9, <1>10

\* The ledger: as long as nothing broke the counter counts the commits.
LEMMA LedgerStep ==
  ASSUME Inv, [Next]_vars
  PROVE  LedgerInv'
<1> USE DEF Broke, Refused
<1>0. TypeOK /\ TaskInv /\ LedgerInv BY DEF Inv
<1>1. ASSUME NEW w \in Writer, Arrive(w) \/ Begin(w) \/ Read(w) \/ Lock(w) \/ Record(w)
      PROVE  LedgerInv'
  <2>1. Committed' = Committed
    BY <1>0, <1>1, SameCommitted DEF Arrive, Begin, Read, Lock, Record
  <2>2. \A v \in Committed : seen'[v] = seen[v]
    BY <1>0, <1>1 DEF Arrive, Begin, Read, Lock, Record, Goto, Committed, TypeOK
  <2>3. {Value(v) : v \in Committed}' = {Value(v) : v \in Committed}
    BY <2>1, <2>2 DEF Value
  <2>4. code' = code /\ counter' = counter /\ (lock # None => lock' # None)
    BY <1>1 DEF Arrive, Begin, Read, Lock, Record
  <2> QED BY <1>0, <2>1, <2>3, <2>4 DEF LedgerInv
<1>2. ASSUME NEW w \in Writer, Refuse(w) PROVE LedgerInv'
  <2>1. Committed' = Committed BY <1>0, <1>2, SameCommitted DEF Refuse
  <2>2. {Value(v) : v \in Committed}' = {Value(v) : v \in Committed}
    BY <1>2, <2>1 DEF Refuse, Value
  <2>3. counter' = counter /\ lock' = lock BY <1>2 DEF Refuse
  <2>4. Broke' <=> Broke
    BY <1>0, <1>2 DEF Refuse, Goto, TypeOK, TaskInv, OK, BUSY, IOERR, BUSY_SNAPSHOT
  <2>5. lock # None \/ counter > 0
    BY <1>0, <1>2 DEF Refuse, Fresh, TaskInv, LedgerInv
  <2> QED BY <1>0, <2>1, <2>2, <2>3, <2>4, <2>5 DEF LedgerInv
<1>3. ASSUME NEW w \in Writer, Commit(w) PROVE LedgerInv'
  <2>1. code' = code /\ counter' = counter + 1
    BY <1>0, <1>3 DEF Commit, Goto, Value, TaskInv
  <2>2. ~Broke => /\ counter' = Cardinality(Committed)'
                  /\ {Value(v) : v \in Committed}' = 1 .. counter'
    BY <1>3, CommitAdds
  <2> QED BY <1>0, <2>1, <2>2 DEF LedgerInv
<1>4. ASSUME NEW w \in Writer, Break(w) PROVE LedgerInv'
  <2>1. code'[w] = IOERR /\ counter' = counter BY <1>0, <1>4 DEF Break, TypeOK
  <2> QED BY <1>0, <2>1 DEF LedgerInv
<1>5. CASE UNCHANGED <<step, seen, code, lock, counter>>
  BY <1>0, <1>5 DEF LedgerInv, Committed, Value
<1> QED BY <1>1, <1>2, <1>3, <1>4, <1>5 DEF Next, Task, GiveUp, Report, vars

\* The round fails only when something broke, and reports only when all are done.
LEMMA RoundStep ==
  ASSUME Inv, [Next]_vars
  PROVE  RoundInv'
<1>0. TypeOK /\ TaskInv /\ RoundInv BY DEF Inv
<1>1. ASSUME NEW w \in Writer, Task(w) \/ Break(w) PROVE RoundInv'
  <2>1. Running /\ round' = round
    BY <1>1 DEF Task, Arrive, Begin, Read, Lock, Refuse, Commit, Record, Break, Goto
  <2> QED BY <2>1 DEF RoundInv, Running
<1>2. CASE GiveUp BY <1>0, <1>2 DEF GiveUp, RoundInv, TaskInv, Broke
<1>3. CASE Report BY <1>3 DEF Report, RoundInv, AllDone
<1>4. CASE UNCHANGED vars
  BY <1>0, <1>4 DEF vars, RoundInv, Broke, AllDone
<1> QED BY <1>1, <1>2, <1>3, <1>4 DEF Next

\* Inv holds in every state of the round.
LEMMA InvAlways == Spec => []Inv
<1>1. Init => Inv
  <2> SUFFICES ASSUME Init PROVE Inv OBVIOUS
  <2>1. TypeOK BY DEF Init, TypeOK, OK, BUSY, IOERR, BUSY_SNAPSHOT
  <2>2. TaskInv BY DEF Init, TaskInv, OK
  <2>3. Committed = {} BY DEF Init, Committed
  <2>4. Cardinality(Committed) = 0 /\ {Value(w) : w \in Committed} = 1 .. 0
    BY <2>3, FS_EmptySet
  <2>5. \A w \in Writer : ~Refused(w)
    BY DEF Init, Refused, OK, BUSY, BUSY_SNAPSHOT
  <2>6. LedgerInv BY <2>4, <2>5 DEF Init, LedgerInv
  <2>7. RoundInv BY DEF Init, RoundInv
  <2> QED BY <2>1, <2>2, <2>6, <2>7 DEF Inv
<1>2. Inv /\ [Next]_vars => Inv' BY TypeStep, TaskStep, LedgerStep, RoundStep DEF Inv
<1> QED BY <1>1, <1>2, PTL DEF Spec

-----------------------------------------------------------------------------
(* The round's properties.                                                 *)

\* A round that reports is one in which nothing broke.
LEMMA NothingBroke ==
  ASSUME Inv, round = "done"
  PROVE  AllDone /\ final = counter /\ ~Broke
<1>1. AllDone /\ final = counter BY DEF Inv, RoundInv
<1>2. \A w \in Writer : code[w] # IOERR
  BY <1>1 DEF Inv, TaskInv, AllDone, Refused, OK, BUSY, IOERR, BUSY_SNAPSHOT
<1> QED BY <1>1, <1>2 DEF Broke

\* The state of the round keeps its types and the lock its only holder.
THEOREM TypeCorrect == Spec => []TypeOK
<1>1. Inv => TypeOK BY DEF Inv
<1> QED BY <1>1, InvAlways, PTL

\* No update is lost: the report counts the commits and their values.
THEOREM TrueReport == Spec => []ReportIsTrue
<1>1. Inv => ReportIsTrue
  BY NothingBroke DEF Inv, LedgerInv, ReportIsTrue
<1> QED BY <1>1, InvAlways, PTL

\* Contention alone never refuses everybody, and fails no round.
THEOREM ContentionMeasured == Spec => []ContentionIsNoError
<1>1. Inv /\ round = "done" => Committed # {}
  <2> SUFFICES ASSUME Inv, round = "done", Committed = {} PROVE FALSE
    OBVIOUS
  <2>1. AllDone /\ ~Broke BY NothingBroke
  <2>2. \A w \in Writer : step[w] = "busy" BY <2>1 DEF AllDone, Committed
  <2>3. \A w \in Writer : Refused(w) BY <2>2 DEF Inv, TaskInv
  <2>4. lock = None BY <2>2 DEF Inv, TypeOK
  <2>5. counter = 0 BY <2>1, FS_EmptySet DEF Inv, LedgerInv
  <2> QED BY <2>1, <2>3, <2>4, <2>5 DEF Inv, LedgerInv
<1>2. Inv => ContentionIsNoError BY <1>1 DEF Inv, RoundInv, Broke, ContentionIsNoError
<1> QED BY <1>2, InvAlways, PTL

\* No commit overwrites another one, whatever breaks in between.
THEOREM NoLostUpdate == Spec => EveryCommitCounts
<1> DEFINE Commits == \E w \in Writer : step[w] = "holding" /\ step'[w] = "committed"
           Counts == IF Commits THEN counter' = counter + 1 ELSE counter' = counter
<1>1. Inv /\ [Next]_vars => Counts
  <2> SUFFICES ASSUME Inv, [Next]_vars PROVE Counts OBVIOUS
  <2>1. TypeOK /\ TaskInv BY DEF Inv
  <2>2. ASSUME NEW w \in Writer, Commit(w) PROVE Counts
    <3>1. step[w] = "holding" /\ step'[w] = "committed" BY <2>1, <2>2, Moves DEF Commit
    <3>2. counter' = counter + 1 BY <2>1, <2>2, <3>1 DEF Commit, Value, TaskInv
    <3> QED BY <3>1, <3>2
  <2>3. ASSUME NEW w \in Writer, Commits, Task(w) \/ Break(w) PROVE Commit(w)
    <3>1. PICK v \in Writer : step[v] = "holding" /\ step'[v] = "committed" BY <2>3
    <3>2. ~Break(w) BY <2>1, <3>1 DEF Break, TypeOK
    <3>3. ~(Arrive(w) \/ Begin(w) \/ Read(w) \/ Lock(w) \/ Refuse(w) \/ Record(w))
      BY <2>1, <3>1, Moves DEF Arrive, Begin, Read, Lock, Refuse, Record
    <3> QED BY <2>3, <3>2, <3>3 DEF Task
  <2>4. CASE \E w \in Writer : Commit(w) BY <2>2, <2>4
  <2>5. CASE ~\E w \in Writer : Commit(w)
    <3>1. counter' = counter
      BY <2>5 DEF Next, Task, Arrive, Begin, Read, Lock, Refuse, Record, Break, GiveUp, Report, vars
    <3>2. CASE GiveUp \/ Report \/ UNCHANGED vars
      <4>1. step' = step BY <3>2 DEF GiveUp, Report, vars
      <4> QED BY <3>1, <4>1
    <3>3. CASE \E w \in Writer : Task(w) \/ Break(w) BY <2>3, <2>5, <3>1, <3>3
    <3> QED BY <3>2, <3>3 DEF Next
  <2> QED BY <2>4, <2>5
<1>2. Counts => [Counts]_vars OBVIOUS
<1> QED BY <1>1, InvAlways, PTL DEF Spec, EveryCommitCounts
=============================================================================
