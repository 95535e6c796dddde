-------------------------- MODULE PromotionProofs --------------------------
(***************************************************************************)
(* What a released version denotes, for any commits, versions and number   *)
(* of promotions.  Inv carries what each command of a promotion has        *)
(* learned: its tag was pushed, its commit is on the default branch, CI    *)
(* passed it, its image is published.  None of that is ever undone, so it  *)
(* still holds when a put is executed, however late.                       *)
(***************************************************************************)
EXTENDS Promotion, TLAPS

USE PromotionAssumption DEF PromotionAssumption

\* The latest run of a commit that CI passed is among those that succeeded.
CiInv == \A c \in Commit : ci[c] = "success" => c \in green

Sound(j) == j \in pushed /\ j[2] \in branch
Tested(j) == Sound(j) /\ j[2] \in green

RunInv == \A p \in Run :
  /\ step[p] \notin {"idle", "failed"} => Sound(job[p])
  /\ step[p] \in {"source", "target", "put", "wait", "recheck", "ok"} => Tested(job[p])
  /\ step[p] \in {"target", "put", "wait", "recheck"} => Source(p) \in images

PutInv == \A r \in puts : Tested(r[2])

Inv == TypeOK /\ CiInv /\ RunInv /\ PutInv /\ ReleasedIsTested /\ SuccessIsTrue

\* Nothing is released, passed or under way at first.
LEMMA InitOK == Init => Inv
BY DEF Init, Inv, TypeOK, CiInv, RunInv, PutInv, ReleasedIsTested, SuccessIsTrue, Ended, Job

\* What was learned stays true: nothing leaves the branch, the registry, the
\* commits that passed or the tags that were pushed, and no version moves.
LEMMA Monotone ==
  ASSUME TypeOK, [Next]_vars
  PROVE  /\ branch \subseteq branch' /\ green \subseteq green'
         /\ images \subseteq images' /\ pushed \subseteq pushed'
         /\ \A v \in Version : released[v] # None => released'[v] = released[v]
<1> USE DEF TypeOK, github, registry
<1>1. CASE Others
  <2>1. ASSUME NEW c \in Commit,
               Merge(c) \/ StartCi(c) \/ PublishImage(c) \/ CiSucceeds(c) \/ CiFails(c)
        PROVE  /\ branch \subseteq branch' /\ green \subseteq green'
               /\ images \subseteq images' /\ pushed = pushed' /\ released' = released
    BY <2>1 DEF Merge, StartCi, PublishImage, CiSucceeds, CiFails, CiBecomes
  <2>2. CASE \E v \in Version, c \in Commit : PushTag(v, c) BY <2>2 DEF PushTag
  <2>3. CASE ExecutePut BY <2>3 DEF ExecutePut, Stored, Job
  <2>4. CASE LosePut BY <2>4 DEF LosePut
  <2> QED BY <1>1, <2>1, <2>2, <2>3, <2>4 DEF Others
<1>2. ASSUME NEW p \in Run, Begin(p) \/ Script(p) \/ Deadline(p) \/ Fails(p)
      PROVE  UNCHANGED <<github, registry>>
  BY <1>2 DEF Begin, Script, Deadline, Fails, Poll, Wake, LookupSource, LookupTarget,
              PutImage, Unanswered, Recheck
<1>3. CASE UNCHANGED vars BY <1>3 DEF vars
<1> QED BY <1>1, <1>2, <1>3 DEF Next

\* Every command of a promotion leaves the rest of the world alone and goes
\* where its answer tells it.
LEMMA ScriptStep ==
  ASSUME Inv, NEW p \in Run, Begin(p) \/ Script(p) \/ Deadline(p) \/ Fails(p)
  PROVE  Inv'
<1>0. TypeOK /\ CiInv /\ RunInv /\ PutInv /\ ReleasedIsTested /\ SuccessIsTrue BY DEF Inv
<1> USE DEF TypeOK, RunInv, SuccessIsTrue, Sound, Tested, Source, Target, Goto, Ended, github, registry
<1>1. UNCHANGED <<github, registry>>
  BY DEF Begin, Script, Deadline, Fails, Poll, Wake, LookupSource, LookupTarget,
         PutImage, Unanswered, Recheck
<1>2. CiInv' /\ ReleasedIsTested' BY <1>0, <1>1 DEF CiInv, ReleasedIsTested
<1>3. CASE Begin(p)
  <2>1. PICK j \in pushed :
          /\ job' = [job EXCEPT ![p] = j]
          /\ step' = [step EXCEPT ![p] = IF j[2] \in branch THEN "poll" ELSE "failed"]
    BY <1>3 DEF Begin
  <2>2. j \in Job BY <1>0
  <2>3. puts' = puts /\ late' = late \ {p} BY <1>3 DEF Begin
  <2>4. TypeOK' BY <1>0, <1>1, <2>1, <2>2, <2>3
  <2>5. RunInv' BY <1>0, <1>1, <2>1, <2>2
  <2>6. SuccessIsTrue' BY <1>0, <1>1, <2>1
  <2>7. PutInv' BY <1>0, <1>1, <2>3 DEF PutInv
  <2> QED BY <1>2, <2>4, <2>5, <2>6, <2>7 DEF Inv
<1>4. CASE PutImage(p)
  <2>1. /\ step[p] = "put" /\ step' = [step EXCEPT ![p] = "wait"]
        /\ puts' = puts \cup {<<p, job[p]>>} /\ UNCHANGED <<job, late>>
    BY <1>4 DEF PutImage
  <2>2. Tested(job[p]) /\ Source(p) \in images /\ job[p] \in Job BY <1>0, <2>1
  <2>3. TypeOK' BY <1>0, <1>1, <2>1, <2>2
  <2>4. RunInv' /\ SuccessIsTrue' BY <1>0, <1>1, <2>1, <2>2
  <2>5. PutInv' BY <1>0, <1>1, <2>1, <2>2 DEF PutInv
  <2> QED BY <1>2, <2>3, <2>4, <2>5 DEF Inv
<1>5. CASE Poll(p) \/ Wake(p) \/ LookupSource(p) \/ LookupTarget(p) \/ Unanswered(p)
           \/ Recheck(p) \/ Deadline(p) \/ Fails(p)
  <2> USE DEF Poll, Wake, LookupSource, LookupTarget, Unanswered, Recheck, Deadline, Fails,
              SameDigest, Published, Passes
  <2>1. UNCHANGED <<job, puts>> /\ late' \subseteq late \cup {p} BY <1>5
  <2>2. PICK s : step' = [step EXCEPT ![p] = s]
    <3>1. CASE Deadline(p)
      <4>1. step' = [step EXCEPT ![p] = step[p]] BY <1>0, <3>1
      <4> QED BY <4>1
    <3> QED BY <1>5, <3>1
  <2>3. TypeOK' BY <1>0, <1>1, <1>5, <2>1
  <2>4. RunInv' BY <1>0, <1>1, <1>5, <2>1 DEF CiInv
  <2>5. SuccessIsTrue' BY <1>0, <1>1, <1>5, <2>1
  <2>6. PutInv' BY <1>0, <1>1, <2>1 DEF PutInv
  <2> QED BY <1>2, <2>3, <2>4, <2>5, <2>6 DEF Inv
<1> QED BY <1>3, <1>4, <1>5 DEF Script

\* GitHub, people and the registry take nothing away; a put that is executed
\* late finds its version free, or leaves it as it is.
LEMMA OthersStep ==
  ASSUME Inv, Others
  PROVE  Inv'
<1>0. TypeOK /\ CiInv /\ RunInv /\ PutInv /\ ReleasedIsTested /\ SuccessIsTrue BY DEF Inv
<1> USE DEF TypeOK, Sound, Tested, Source, github, registry
<1>1. ASSUME NEW c \in Commit,
             Merge(c) \/ StartCi(c) \/ PublishImage(c) \/ CiSucceeds(c) \/ CiFails(c)
      PROVE  Inv'
  <2> USE DEF Merge, StartCi, PublishImage, CiSucceeds, CiFails, CiBecomes
  <2>1. /\ UNCHANGED <<released, pushed, step, job, late, puts>>
        /\ branch \subseteq branch' /\ green \subseteq green' /\ images \subseteq images'
    BY <1>0, <1>1
  <2>2. TypeOK' BY <1>0, <1>1
  <2>3. CiInv' BY <1>0, <1>1 DEF CiInv
  <2>4. RunInv' /\ SuccessIsTrue' BY <1>0, <2>1 DEF RunInv, SuccessIsTrue
  <2>5. PutInv' /\ ReleasedIsTested' BY <1>0, <2>1 DEF PutInv, ReleasedIsTested
  <2> QED BY <2>2, <2>3, <2>4, <2>5 DEF Inv
<1>2. ASSUME NEW v \in Version, NEW c \in Commit, PushTag(v, c) PROVE Inv'
  <2>1. UNCHANGED <<branch, ci, green, images, released, step, job, late, puts>>
    BY <1>2 DEF PushTag
  <2>2. pushed' = pushed \cup {<<v, c>>} BY <1>2 DEF PushTag
  <2>3. TypeOK' BY <1>0, <2>1, <2>2 DEF Job
  <2>4. RunInv' /\ SuccessIsTrue' BY <1>0, <2>1, <2>2 DEF RunInv, SuccessIsTrue
  <2>5. CiInv' /\ PutInv' /\ ReleasedIsTested' BY <1>0, <2>1, <2>2 DEF CiInv, PutInv, ReleasedIsTested
  <2> QED BY <2>3, <2>4, <2>5 DEF Inv
<1>3. CASE ExecutePut
  <2>1. PICK r \in puts :
          /\ puts' = puts \ {r}
          /\ released' = [released EXCEPT ![r[2][1]] = Stored(r[2][1], r[2][2])]
          /\ step' = IF step[r[1]] = "wait" /\ job[r[1]] = r[2]
                     THEN [step EXCEPT ![r[1]] = IF released[r[2][1]] = None THEN "ok" ELSE "recheck"]
                     ELSE step
          /\ UNCHANGED <<github, images, job, late>>
    BY <1>3 DEF ExecutePut
  <2>2. /\ r[1] \in Run /\ r[2] \in Job /\ r[2][1] \in Version /\ r[2][2] \in Commit
        /\ r[2] = <<r[2][1], r[2][2]>> /\ Tested(r[2]) /\ r[2][2] \in images
    BY <1>0 DEF Job, PutInv
  <2>3. \A v \in Version : \/ released'[v] = released[v]
                           \/ v = r[2][1] /\ released[v] = None /\ released'[v] = r[2][2]
    BY <1>0, <2>1, <2>2 DEF Stored
  <2>4. \A p \in Run : \/ step'[p] = step[p]
                       \/ /\ step[p] = "wait" /\ job[p] = r[2]
                          /\ step'[p] = IF released[r[2][1]] = None THEN "ok" ELSE "recheck"
    BY <1>0, <2>1
  <2>5. TypeOK'
    <3>1. released' \in [Version -> Commit \cup {None}] BY <1>0, <2>1, <2>2 DEF Stored
    <3>2. step' \in [Run -> Ended \cup {"poll", "sleep", "source", "target", "put", "wait", "recheck"}]
      BY <1>0, <2>1, <2>2 DEF Ended
    <3> QED BY <1>0, <2>1, <3>1, <3>2
  <2>6. RunInv' BY <1>0, <2>1, <2>4 DEF RunInv
  <2>7. SuccessIsTrue'
    <3>1. \A p \in Run : job[p] \in Job /\ job[p][1] \in Version BY <1>0 DEF Job
    <3>2. SUFFICES ASSUME NEW p \in Run, step'[p] = "ok"
                   PROVE  released'[job[p][1]] = job[p][2]
      BY <2>1 DEF SuccessIsTrue
    <3>3. CASE step[p] = "ok"
      BY <1>0, <2>3, <3>1, <3>3 DEF SuccessIsTrue, Job
    <3>4. CASE step[p] # "ok"
      <4>1. job[p] = r[2] /\ released[r[2][1]] = None BY <2>4, <3>2, <3>4
      <4>2. released'[r[2][1]] = r[2][2] BY <1>0, <2>1, <2>2, <4>1 DEF Stored
      <4> QED BY <4>1, <4>2
    <3> QED BY <3>3, <3>4
  <2>8. ReleasedIsTested'
    BY <1>0, <2>1, <2>2, <2>3 DEF ReleasedIsTested
  <2>9. CiInv' /\ PutInv' BY <1>0, <2>1 DEF CiInv, PutInv
  <2> QED BY <2>5, <2>6, <2>7, <2>8, <2>9 DEF Inv
<1>4. CASE LosePut
  <2>1. puts' \subseteq puts /\ UNCHANGED <<github, registry, step, job, late>>
    BY <1>4 DEF LosePut
  <2> QED BY <1>0, <2>1 DEF Inv, CiInv, RunInv, PutInv, ReleasedIsTested, SuccessIsTrue
<1> QED BY <1>1, <1>2, <1>3, <1>4 DEF Others

\* Inv is inductive.
LEMMA Step == Inv /\ [Next]_vars => Inv'
<1>1. CASE UNCHANGED vars
  BY <1>1 DEF vars, github, registry, Inv, TypeOK, CiInv, RunInv, PutInv, Sound, Tested, Source,
              ReleasedIsTested, SuccessIsTrue
<1> QED BY <1>1, ScriptStep, OthersStep DEF Next

\* Inv holds throughout.
LEMMA Invariance == Spec => []Inv
BY InitOK, Step, PTL DEF Spec

-----------------------------------------------------------------------------
\* The state keeps its types, and only published images are ever put.
THEOREM TypeCorrect == Spec => []TypeOK
<1>1. Inv => TypeOK BY DEF Inv
<1> QED BY <1>1, Invariance, PTL

\* A version denotes the image of a tagged commit of the default branch that
\* passed CI, whichever runs of CI and of the workflow raced.
THEOREM OnlyTestedReleases == Spec => []ReleasedIsTested
<1>1. Inv => ReleasedIsTested BY DEF Inv
<1> QED BY <1>1, Invariance, PTL

\* A promotion reports success only of what the registry says and goes on saying.
THEOREM TrueSuccess == Spec => []SuccessIsTrue
<1>1. Inv => SuccessIsTrue BY DEF Inv
<1> QED BY <1>1, Invariance, PTL
=============================================================================
