-------------------------- MODULE ReleaseTagProofs --------------------------
(***************************************************************************)
(* What bin/release.sh guarantees, for any clones, versions and commits.   *)
(* Everything a run of the helper has learned stays true: tags on origin   *)
(* and images are never taken back, and its own local tag is left alone.   *)
(* Inv says what has been learned at each command, and that no tag of any  *)
(* clone comes from elsewhere, so that a leftover may be pushed by anybody. *)
(***************************************************************************)
EXTENDS ReleaseTag, TLAPS

Checked == images \cup ByHand
Held == {"push", "wait"}
Looked == {"commit", "image", "tag", "push", "wait", "pushed"}

TagInv ==
  /\ PublishedIsChecked
  /\ \A k \in Clone, v \in Version : local[k][v] # None => local[k][v] \in Checked

\* What a run of the helper has learned: of what was reported before it, that it is
\* on origin, and then that it is earlier.
Learned(r) ==
  /\ r.at \in {"tag", "push", "wait", "pushed"} => r.commit \in images
  /\ r.at = "remote" => \A v \in r.before : origin[v] # None
  /\ r.at \in Looked => \A v \in r.before : v < r.version

RunInv ==
  /\ \A v \in reported : origin[v] # None
  /\ \A k \in Clone : Learned(run[k])
  /\ \A p \in sent : Learned(p[2]) /\ p[2].at = "wait"
  /\ PushedIsTrue

Inv == TypeOK /\ TagInv /\ RunInv

-----------------------------------------------------------------------------
LEMMA InvInit == Init => Inv
<1> SUFFICES ASSUME Init PROVE Inv
  OBVIOUS
<1>1. TypeOK BY DEF Init, TypeOK, Refs, Running, Idle, LocalTag
<1>2. TagInv BY DEF Init, TagInv, PublishedIsChecked
<1>3. RunInv BY DEF Init, RunInv, Learned, PushedIsTrue, Idle, Looked
<1> QED BY <1>1, <1>2, <1>3 DEF Inv

\* What a run holds is not disturbed by tags and images that are added.
LEMMA Monotone ==
  ASSUME Inv,
         branch \subseteq branch', images \subseteq images', images' \subseteq branch',
         branch' \in SUBSET Commit,
         origin' \in Refs, \A v \in Version : origin[v] # None => origin'[v] = origin[v],
         local' \in [Clone -> Refs],
         \A k \in Clone, v \in Version :
           ~Free(k) /\ local[k][v] # None => local'[k][v] = local[k][v],
         \A v \in Version : origin'[v] # None => origin'[v] \in images' \cup ByHand,
         \A k \in Clone, v \in Version : local'[k][v] # None => local'[k][v] \in images' \cup ByHand,
         run' = run, sent' \subseteq sent, reported' = reported
  PROVE  Inv'
<1> USE ReleaseAssumption
<1>1. TypeOK'
  <2>1. ASSUME NEW k \in Clone, run[k].at \in Held PROVE LocalTag(k)' = run[k].commit
    <3>1. run[k] \in Running /\ ~Free(k)
      BY <2>1 DEF Inv, TypeOK, Held, Free, Idle
    <3>2. run[k].version \in Version /\ run[k].commit \in images
      BY <2>1, <3>1 DEF Inv, RunInv, Learned, Running, Held
    <3>3. LocalTag(k) = run[k].commit /\ run[k].commit # None
      BY <2>1, <3>2 DEF Inv, TypeOK, Held
    <3> QED BY <3>1, <3>2, <3>3 DEF LocalTag
  <2>2. /\ sent' \in SUBSET ((Clone \cup {None}) \X Running)
        /\ \A p \in sent' : p[2].commit \in images' /\ (p[1] # None => run'[p[1]] = p[2])
    BY DEF Inv, TypeOK
  <2> QED BY <2>1, <2>2 DEF Inv, TypeOK, Held
<1>2. TagInv' BY DEF TagInv, PublishedIsChecked, Checked
<1>3. RunInv'
  <2>0. \A v \in Version : origin[v] # None => origin'[v] # None BY DEF Inv, TypeOK
  <2>1. ASSUME NEW r \in Running \cup {Idle}, Learned(r) PROVE Learned(r)'
    BY <2>0, <2>1 DEF Learned, Running, Idle
  <2>2. /\ \A k \in Clone : Learned(run[k])'
        /\ \A p \in sent' : Learned(p[2])' /\ p[2].at = "wait"
        /\ \A v \in reported' : origin'[v] # None
    <3>1. \A k \in Clone : run[k] \in Running \cup {Idle} /\ Learned(run[k]) BY DEF Inv, TypeOK, RunInv
    <3>2. \A p \in sent' : p[2] \in Running /\ Learned(p[2]) /\ p[2].at = "wait"
      BY DEF Inv, TypeOK, RunInv
    <3>3. \A v \in reported : v \in Version /\ origin[v] # None BY DEF Inv, TypeOK, RunInv
    <3> QED BY <2>0, <2>1, <3>1, <3>2, <3>3
  <2>3. ASSUME NEW k \in Clone, run[k].at = "pushed"
        PROVE  origin'[run[k].version] = run[k].commit
    <3>1. run[k] \in Running BY <2>3 DEF Inv, TypeOK, Idle
    <3>2. origin[run[k].version] = run[k].commit /\ run[k].commit \in images
      BY <2>3 DEF Inv, RunInv, PushedIsTrue, Learned
    <3>3. run[k].commit # None BY <3>2 DEF Inv, TypeOK
    <3> QED BY <3>1, <3>2, <3>3 DEF Running
  <2> QED BY <2>1, <2>2, <2>3 DEF RunInv, PushedIsTrue
<1> QED BY <1>1, <1>2, <1>3 DEF Inv

\* CI, people and the network only add tags and images, and leave a clone's own tags
\* alone while its helper runs.
LEMMA OutsideStep == Inv /\ (People \/ LosePush) => Inv'
<1> SUFFICES ASSUME Inv, People \/ LosePush PROVE Inv'
  OBVIOUS
<1> USE DEF outside
<1>1. /\ branch \in SUBSET Commit /\ images \in SUBSET branch
      /\ origin \in Refs /\ local \in [Clone -> Refs]
      /\ \A v \in Version : origin[v] # None => origin[v] \in images \cup ByHand
      /\ \A k \in Clone, v \in Version : local[k][v] # None => local[k][v] \in images \cup ByHand
  BY DEF Inv, TypeOK, TagInv, PublishedIsChecked, Checked
<1>2. ASSUME NEW refs \in Refs, NEW from \in Refs
      PROVE  /\ Fill(refs, from) \in Refs
             /\ \A v \in Version : Fill(refs, from)[v] = IF refs[v] = None THEN from[v] ELSE refs[v]
  BY DEF Fill, Refs
<1>3. CASE LosePush BY <1>1, <1>3, Monotone DEF LosePush
<1>4. ASSUME NEW c \in Commit, Merge(c) \/ Publish(c) PROVE Inv'
  BY <1>1, <1>4, Monotone DEF Merge, Publish
<1>5. ASSUME NEW k \in Clone, PushTags(k) PROVE Inv'
  <2>1. local[k] \in Refs /\ origin' = Fill(origin, local[k]) BY <1>1, <1>5 DEF PushTags
  <2>2. /\ origin' \in Refs
        /\ \A v \in Version : origin'[v] = IF origin[v] = None THEN local[k][v] ELSE origin[v]
    BY <1>1, <1>2, <2>1
  <2>3. /\ \A v \in Version : origin[v] # None => origin'[v] = origin[v]
        /\ \A v \in Version : origin'[v] # None => origin'[v] \in images \cup ByHand
    BY <1>1, <2>2
  <2> QED BY <1>1, <1>5, <2>2, <2>3, Monotone DEF PushTags
<1>6. ASSUME NEW k \in Clone, FetchTags(k) PROVE Inv'
  <2>1. local' = [local EXCEPT ![k] = Fill(local[k], origin)] /\ local[k] \in Refs
    BY <1>1, <1>6 DEF FetchTags
  <2>2. local' \in [Clone -> Refs]
    BY <1>1, <1>2, <2>1
  <2>3. \A j \in Clone, v \in Version :
          local'[j][v] = IF j = k /\ local[k][v] = None THEN origin[v] ELSE local[j][v]
    BY <1>1, <1>2, <2>1
  <2>4. /\ \A j \in Clone, v \in Version : local[j][v] # None => local'[j][v] = local[j][v]
        /\ \A j \in Clone, v \in Version : local'[j][v] # None => local'[j][v] \in images \cup ByHand
    BY <1>1, <2>3
  <2> QED BY <1>1, <1>6, <2>2, <2>4, Monotone DEF FetchTags
<1>7. ASSUME NEW k \in Clone, NEW v \in Version, NEW c \in ByHand \cup {None}, Free(k),
             local' = [local EXCEPT ![k][v] = c], UNCHANGED <<outside, origin, run, sent, reported>>
      PROVE  Inv'
  <2>1. local' \in [Clone -> Refs]
    BY <1>1, <1>7, ReleaseAssumption DEF Refs
  <2>2. \A j \in Clone, w \in Version : local'[j][w] = IF j = k /\ w = v THEN c ELSE local[j][w]
    BY <1>1, <1>7 DEF Refs
  <2>3. /\ \A j \in Clone, w \in Version : ~Free(j) /\ local[j][w] # None => local'[j][w] = local[j][w]
        /\ \A j \in Clone, w \in Version : local'[j][w] # None => local'[j][w] \in images \cup ByHand
    BY <1>1, <1>7, <2>2
  <2> QED BY <1>1, <1>7, <2>1, <2>3, Monotone
<1>8. ASSUME NEW k \in Clone, NEW v \in Version,
             DeleteTag(k, v) \/ \E c \in ByHand : HandTag(k, v, c)
      PROVE  Inv'
  BY <1>7, <1>8 DEF DeleteTag, HandTag
<1> QED BY <1>3, <1>4, <1>5, <1>6, <1>8 DEF People

-----------------------------------------------------------------------------
(* The helper.                                                             *)

\* Where the helper in clone k may get, given what it has learned and left behind.
Allowed(k, r) ==
  /\ r \in Running \cup {Idle} /\ Learned(r)
  /\ r.at \in Held => local[k][r.version] = r.commit
  /\ r.at = "pushed" => origin[r.version] = r.commit

LEMMA MoveStep ==
  ASSUME Inv, NEW k \in Clone, NEW r, Allowed(k, r),
         run' = [run EXCEPT ![k] = r], UNCHANGED <<outside, origin, local, reported>>,
         \A p \in sent' : \/ p = <<k, r>> /\ r.at = "wait"
                          \/ p \in sent /\ p[1] # k
                          \/ \E q \in sent : p = <<None, q[2]>>
  PROVE  Inv'
<1> USE DEF outside
<1>1. \A j \in Clone : run'[j] = IF j = k THEN r ELSE run[j] BY DEF Inv, TypeOK
<1>3. r.at # "idle" => r \in Running BY DEF Allowed, Idle
<1>2. ASSUME NEW p \in sent'
      PROVE  /\ p \in (Clone \cup {None}) \X Running /\ p[2].commit \in images
             /\ p[1] # None => run'[p[1]] = p[2]
             /\ Learned(p[2]) /\ p[2].at = "wait"
  <2>1. CASE p = <<k, r>> /\ r.at = "wait" BY <1>1, <1>3, <2>1 DEF Allowed, Learned
  <2>2. CASE p \in sent /\ p[1] # k BY <1>1, <2>2 DEF Inv, TypeOK, RunInv
  <2>3. CASE \E q \in sent : p = <<None, q[2]>> BY <2>3 DEF Inv, TypeOK, RunInv
  <2> QED BY <1>2, <2>1, <2>2, <2>3
<1>4. TypeOK'
  <2>1. /\ sent' \in SUBSET ((Clone \cup {None}) \X Running)
        /\ \A p \in sent' : p[2].commit \in images /\ (p[1] # None => run'[p[1]] = p[2])
    BY <1>2
  <2>2. run' \in [Clone -> Running \cup {Idle}] BY DEF Inv, TypeOK, Allowed
  <2>3. \A j \in Clone : run'[j].at \in Held => local[j][run'[j].version] = run'[j].commit
    BY <1>1 DEF Inv, TypeOK, LocalTag, Held, Allowed
  <2> QED BY <2>1, <2>2, <2>3 DEF Inv, TypeOK, LocalTag, Held
<1>5. TagInv' BY DEF Inv, TagInv, PublishedIsChecked, Checked
<1>6. RunInv'
  <2>1. \A j \in Clone : Learned(run[j])' BY <1>1 DEF Inv, RunInv, Learned, Allowed
  <2>2. \A p \in sent' : Learned(p[2])' /\ p[2].at = "wait" BY <1>2 DEF Learned
  <2>3. PushedIsTrue' BY <1>1 DEF Inv, RunInv, PushedIsTrue, Allowed
  <2> QED BY <2>1, <2>2, <2>3 DEF Inv, RunInv
<1> QED BY <1>4, <1>5, <1>6 DEF Inv

\* Only a helper that waits has a push of its own under way.
LEMMA NotSent ==
  ASSUME Inv, NEW k \in Clone, run[k].at # "wait"
  PROVE  \A p \in sent : p[1] # k
BY ReleaseAssumption DEF Inv, TypeOK, RunInv

\* Idle is always allowed.
LEMMA StopAllowed == \A k \in Clone : Allowed(k, Idle)
BY DEF Allowed, Idle, Learned, Held, Looked

\* What a step of the helper that is at a command finds there.
LEMMA AtCommand ==
  ASSUME Inv, NEW k \in Clone, run[k].at # "idle",
         NEW to \in {"commit", "image", "tag", "push", "wait", "pushed"}
  PROVE  /\ run[k] \in Running /\ Learned(run[k])
         /\ At(k, to) \in Running /\ At(k, to).at = to
         /\ At(k, to).version = run[k].version /\ At(k, to).commit = run[k].commit
         /\ At(k, to).before = run[k].before
<1>1. run[k] \in Running BY DEF Inv, TypeOK, Idle
<1> QED BY <1>1 DEF At, Running, Inv, RunInv

\* The commands before the tag, and the end of a run, change nothing but the run.
LEMMA ScriptStep ==
  ASSUME Inv, NEW k \in Clone,
         \/ ListLocal(k) \/ ListRemote(k) \/ ResolveCommit(k) \/ LookUpImage(k)
         \/ Push(k) \/ Fails(k)
  PROVE  Inv'
<1> USE ReleaseAssumption DEF outside
<1>1. CASE ListLocal(k)
  <2>1. PICK v \in Version : run' = [run EXCEPT ![k] =
                 [Idle EXCEPT !.at = "remote", !.version = v, !.before = reported]]
    BY <1>1 DEF ListLocal
  <2>2. Allowed(k, [Idle EXCEPT !.at = "remote", !.version = v, !.before = reported])
    BY DEF Allowed, Idle, Running, Learned, Held, Looked, Inv, TypeOK, RunInv
  <2>3. \A p \in sent : p[1] # k BY <1>1, NotSent DEF ListLocal, Free
  <2> QED BY <1>1, <2>1, <2>2, <2>3, MoveStep DEF ListLocal
<1>2. CASE ListRemote(k)
  <2> DEFINE r == At(k, "commit")
  <2>1. run[k].at = "remote" /\ run' = [run EXCEPT ![k] = IF LaterThanOrigin(k) THEN r ELSE Idle]
    BY <1>2 DEF ListRemote, Goto
  <2>2. ASSUME LaterThanOrigin(k) PROVE Allowed(k, r)
    <3>1. r \in Running /\ r.at = "commit" /\ r.version = run[k].version /\ r.before = run[k].before
      BY <2>1, AtCommand
    <3>2. \A v \in r.before : v \in Version /\ origin[v] # None
      BY <2>1, <3>1, AtCommand DEF Learned, Running
    <3>3. \A v \in r.before : v < r.version
      BY <2>2, <3>1, <3>2 DEF LaterThanOrigin, Later, Tags
    <3> QED BY <3>1, <3>3 DEF Allowed, Learned, Held
  <2>3. \A p \in sent : p[1] # k BY <2>1, NotSent
  <2> QED BY <1>2, <2>1, <2>2, <2>3, StopAllowed, MoveStep DEF ListRemote
<1>3. CASE ResolveCommit(k)
  <2>1. PICK c \in Commit : run[k].at = "commit" /\
          run' = [run EXCEPT ![k] = IF c \in branch THEN [At(k, "image") EXCEPT !.commit = c] ELSE Idle]
    BY <1>3 DEF ResolveCommit, Goto
  <2> DEFINE r == [At(k, "image") EXCEPT !.commit = c]
  <2>2. At(k, "image") \in Running /\ Learned(run[k]) BY <2>1, AtCommand
  <2>3. r \in Running /\ r.at = "image" /\ r.version = run[k].version /\ r.before = run[k].before
    BY <2>1, <2>2, AtCommand DEF Running
  <2>4. Allowed(k, r) BY <2>1, <2>2, <2>3 DEF Allowed, Learned, Held, Looked
  <2>5. \A p \in sent : p[1] # k BY <2>1, NotSent
  <2> QED BY <1>3, <2>1, <2>4, <2>5, StopAllowed, MoveStep DEF ResolveCommit
<1>4. CASE LookUpImage(k)
  <2>1. PICK next \in {At(k, "tag"), Idle} : run[k].at = "image" /\
          run' = [run EXCEPT ![k] = IF Verified(k) THEN next ELSE Idle]
    BY <1>4 DEF LookUpImage, Goto
  <2>2. ASSUME Verified(k) PROVE Allowed(k, At(k, "tag"))
    BY <2>1, <2>2, AtCommand DEF Allowed, Learned, Verified, Held, Looked
  <2>3. \A p \in sent : p[1] # k BY <2>1, NotSent
  <2> QED BY <1>4, <2>1, <2>2, <2>3, StopAllowed, MoveStep DEF LookUpImage
<1>5. CASE Push(k)
  <2>1. run[k].at = "push" /\ run' = [run EXCEPT ![k] = At(k, "wait")]
        /\ sent' = sent \cup {<<k, At(k, "wait")>>}
    BY <1>5 DEF Push, Goto
  <2>2. local[k][run[k].version] = run[k].commit BY <2>1 DEF Inv, TypeOK, LocalTag
  <2>3. Allowed(k, At(k, "wait"))
    BY <2>1, <2>2, AtCommand DEF Allowed, Learned, Held, Looked
  <2>4. At(k, "wait").at = "wait" BY <2>1, AtCommand
  <2>5. \A p \in sent : p[1] # k BY <2>1, NotSent
  <2> QED BY <1>5, <2>1, <2>3, <2>4, <2>5, MoveStep DEF Push
<1>6. CASE Fails(k)
  <2>1. \A p \in sent' : (p \in sent /\ p[1] # k) \/ \E q \in sent : p = <<None, q[2]>>
    BY <1>6 DEF Fails
  <2>2. run' = [run EXCEPT ![k] = Idle] /\ UNCHANGED <<outside, origin, local, reported>>
    BY <1>6 DEF Fails
  <2>3. Allowed(k, Idle) BY StopAllowed
  <2> QED BY <2>1, <2>2, <2>3, MoveStep
<1> QED BY <1>1, <1>2, <1>3, <1>4, <1>5, <1>6

\* git tag adds the helper's own tag, of a commit it has checked, or ends the run.
LEMMA TagStep == ASSUME Inv, NEW k \in Clone, Tag(k) PROVE Inv'
<1> USE ReleaseAssumption DEF outside
<1> DEFINE v == run[k].version
           c == run[k].commit
<1>1. run[k].at = "tag" /\ run[k] \in Running /\ Learned(run[k])
  BY AtCommand DEF Tag, Goto
<1>2. v \in Version /\ c \in images /\ c \in Commit /\ c # None
  BY <1>1 DEF Learned, Running, Inv, TypeOK
<1>3. local' = [local EXCEPT ![k][v] = IF @ = None THEN c ELSE @] BY DEF Tag
<1>4. /\ local' \in [Clone -> Refs]
      /\ \A j \in Clone, w \in Version :
           local'[j][w] = IF j = k /\ w = v /\ local[k][v] = None THEN c ELSE local[j][w]
  BY <1>2, <1>3 DEF Inv, TypeOK, Refs
<1>5. run' = [run EXCEPT ![k] = IF local[k][v] = None THEN At(k, "push") ELSE Idle]
  BY DEF Tag, Goto, LocalTag
<1>6. /\ \A j \in Clone : j # k => run'[j] = run[j]
      /\ run'[k] = Idle \/ (run'[k] = At(k, "push") /\ local'[k][v] = c)
  BY <1>2, <1>4, <1>5 DEF Inv, TypeOK
<1>7. /\ At(k, "push") \in Running /\ At(k, "push").at = "push" /\ At(k, "push").version = v
      /\ At(k, "push").commit = c /\ At(k, "push").before = run[k].before
  BY <1>1, AtCommand
<1>8. TypeOK'
  <2>1. ASSUME NEW j \in Clone, run'[j].at \in Held PROVE local'[j][run'[j].version] = run'[j].commit
    <3>1. CASE j = k BY <1>6, <1>7, <2>1, <3>1 DEF Idle, Held
    <3>2. CASE j # k
      <4>0. run[j].at \in Held /\ run[j] \in Running BY <1>6, <2>1, <3>2 DEF Inv, TypeOK, Held, Idle
      <4>1. run[j].version \in Version /\ local[j][run[j].version] = run[j].commit
        BY <4>0 DEF Inv, TypeOK, LocalTag, Held, Running
      <4>2. run'[j].version = run[j].version /\ run'[j].commit = run[j].commit BY <1>6, <3>2
      <4>3. local'[j][run[j].version] = local[j][run[j].version] BY <1>4, <3>2, <4>1
      <4> QED BY <4>1, <4>2, <4>3
    <3> QED BY <3>1, <3>2
  <2>2. run' \in [Clone -> Running \cup {Idle}] BY <1>5, <1>7 DEF Inv, TypeOK
  <2>3. UNCHANGED <<branch, images, origin, sent, reported>> BY DEF Tag
  <2>4. \A p \in sent : p[1] # None => run'[p[1]] = p[2]
    BY <1>1, <1>6, NotSent DEF Inv, TypeOK
  <2> QED BY <1>4, <2>1, <2>2, <2>3, <2>4 DEF Inv, TypeOK, LocalTag, Held
<1>9. TagInv'
  <2>1. UNCHANGED <<images, origin>> BY DEF Tag
  <2>2. PublishedIsChecked' BY <2>1 DEF Inv, TagInv, PublishedIsChecked
  <2>3. ASSUME NEW j \in Clone, NEW w \in Version, local'[j][w] # None
        PROVE  local'[j][w] \in Checked
    <3>1. local'[j][w] = c \/ local'[j][w] = local[j][w] BY <1>4
    <3>2. local[j][w] # None => local[j][w] \in Checked BY DEF Inv, TagInv
    <3> QED BY <1>2, <2>3, <3>1, <3>2 DEF Checked
  <2>4. Checked' = Checked BY <2>1 DEF Checked
  <2> QED BY <2>2, <2>3, <2>4 DEF TagInv
<1>10. RunInv'
  <2>1. ASSUME NEW j \in Clone PROVE Learned(run[j])'
    <3>1. CASE j = k BY <1>1, <1>6, <1>7, <3>1 DEF Learned, Idle, Looked, Tag
    <3>2. CASE j # k BY <1>6, <3>2 DEF Inv, RunInv, Learned, Tag
    <3> QED BY <3>1, <3>2
  <2>2. \A p \in sent' : Learned(p[2])' /\ p[2].at = "wait"
    BY DEF Inv, RunInv, Learned, Tag
  <2>3. PushedIsTrue' BY <1>6, <1>7 DEF Inv, RunInv, PushedIsTrue, Tag, Idle
  <2> QED BY <2>1, <2>2, <2>3 DEF Inv, RunInv, Tag
<1> QED BY <1>8, <1>9, <1>10 DEF Inv

\* A push that is executed gives a free version to a commit that was checked; if its
\* sender still waits for it, the sender learns which.
LEMMA ExecuteStep == ASSUME Inv, ExecutePush PROVE Inv'
<1> USE ReleaseAssumption DEF outside
<1>1. PICK p \in sent :
        LET k == p[1]  v == p[2].version  free == origin[v] = None IN
        /\ sent' = sent \ {p}
        /\ origin' = [origin EXCEPT ![v] = IF free THEN p[2].commit ELSE @]
        /\ run' = IF k = None THEN run ELSE [run EXCEPT ![k] = Report(k, free)]
        /\ reported' = reported \cup {w \in {v} : k # None /\ run'[k].at = "pushed"}
        /\ UNCHANGED <<outside, local>>
  BY DEF ExecutePush
<1> DEFINE k == p[1]
           v == p[2].version
           c == p[2].commit
<1>2. /\ p[2] \in Running /\ Learned(p[2]) /\ p[2].at = "wait"
      /\ c \in images /\ c \in Commit /\ c # None /\ v \in Version
      /\ k # None => k \in Clone /\ run[k] = p[2]
  BY DEF Inv, TypeOK, RunInv, Running
<1>3. /\ origin' \in Refs
      /\ \A w \in Version : origin'[w] = IF w = v /\ origin[v] = None THEN c ELSE origin[w]
  BY <1>1, <1>2 DEF Inv, TypeOK, Refs
<1>4. /\ \A j \in Clone : run'[j] = run[j] \/ run'[j] = Idle
                          \/ (j = k /\ origin[v] = None /\ run'[k] = At(k, "pushed"))
      /\ run' \in [Clone -> Running \cup {Idle}]
      /\ \A j \in Clone : j # k => run'[j] = run[j]
  <2>1. CASE k # None
    <3>1. At(k, "pushed") \in Running BY <1>2, <2>1, AtCommand
    <3> QED BY <1>1, <1>2, <2>1, <3>1 DEF Report, Inv, TypeOK
  <2>2. CASE k = None BY <1>1, <2>2 DEF Inv, TypeOK
  <2> QED BY <2>1, <2>2
<1>5. ASSUME k # None
      PROVE  /\ At(k, "pushed").at = "pushed" /\ At(k, "pushed").version = v
             /\ At(k, "pushed").commit = c /\ At(k, "pushed").before = p[2].before
  BY <1>2, <1>5, AtCommand
<1>6. UNCHANGED <<branch, images, local>> /\ sent' = sent \ {p} BY <1>1
<1>7. /\ \A w \in Version : origin[w] # None => origin'[w] # None
      /\ origin'[v] # None
  BY <1>2, <1>3 DEF Inv, TypeOK
<1>8. reported' \subseteq reported \cup {v} BY <1>1
<1>9. ASSUME NEW r \in Running \cup {Idle}, Learned(r) PROVE Learned(r)'
  BY <1>6, <1>7, <1>9 DEF Learned, Running, Idle
<1>10. TypeOK'
  <2>1. ASSUME NEW j \in Clone, run'[j].at \in Held PROVE local[j][run'[j].version] = run'[j].commit
    <3>1. run'[j] = run[j] BY <1>2, <1>4, <1>5, <2>1 DEF Held, Idle
    <3> QED BY <2>1, <3>1 DEF Inv, TypeOK, LocalTag, Held
  <2>2. ASSUME NEW q \in sent', q[1] # None PROVE run'[q[1]] = q[2]
    <3>1. q \in sent /\ q # p /\ q[1] \in Clone /\ run[q[1]] = q[2]
      BY <1>6, <2>2 DEF Inv, TypeOK
    <3>2. q = <<q[1], q[2]>> /\ p = <<k, p[2]>> BY <3>1 DEF Inv, TypeOK
    <3>3. q[1] # k BY <1>2, <2>2, <3>1, <3>2
    <3> QED BY <1>4, <3>1, <3>3
  <2>3. reported' \in SUBSET Version BY <1>2, <1>8 DEF Inv, TypeOK
  <2> QED BY <1>3, <1>4, <1>6, <2>1, <2>2, <2>3 DEF Inv, TypeOK, LocalTag, Held
<1>11. TagInv' BY <1>2, <1>3, <1>6 DEF Inv, TagInv, PublishedIsChecked, Checked
<1>12. RunInv'
  <2>1. ASSUME NEW j \in Clone PROVE Learned(run[j])'
    <3>1. CASE run'[j] = run[j]
      <4>1. Learned(run[j]) /\ run[j] \in Running \cup {Idle} BY DEF Inv, TypeOK, RunInv
      <4>2. run'[j].at = run[j].at /\ run'[j].commit = run[j].commit
            /\ run'[j].before = run[j].before /\ run'[j].version = run[j].version
        BY <3>1
      <4>3. \A w \in run[j].before : w \in Version BY <4>1 DEF Running, Idle
      <4> QED BY <1>6, <1>7, <4>1, <4>2, <4>3 DEF Learned
    <3>2. CASE run'[j] = Idle BY <3>2 DEF Learned, Idle, Looked
    <3>3. CASE j = k /\ run'[k] = At(k, "pushed")
      <4>1. k # None BY <3>3, ReleaseAssumption
      <4> QED BY <1>2, <1>5, <1>6, <3>3, <4>1 DEF Learned, Looked
    <3> QED BY <1>4, <3>1, <3>2, <3>3
  <2>2. \A q \in sent' : Learned(q[2])' /\ q[2].at = "wait"
    <3>1. \A q \in sent' : q[2] \in Running /\ Learned(q[2]) /\ q[2].at = "wait"
      BY <1>6 DEF Inv, TypeOK, RunInv
    <3> QED BY <1>9, <3>1
  <2>3. ASSUME NEW j \in Clone, run'[j].at = "pushed"
        PROVE  origin'[run'[j].version] = run'[j].commit
    <3>1. CASE run'[j] = run[j]
      <4>1. run[j] \in Running /\ run[j].version \in Version /\ run[j].commit # None
        BY <2>3, <3>1 DEF Inv, TypeOK, RunInv, Learned, Running, Idle
      <4>2. origin[run[j].version] = run[j].commit
        BY <2>3, <3>1 DEF Inv, RunInv, PushedIsTrue
      <4> QED BY <1>3, <3>1, <4>1, <4>2
    <3>2. CASE run'[j] = Idle BY <2>3, <3>2 DEF Idle
    <3>3. CASE j = k /\ origin[v] = None /\ run'[k] = At(k, "pushed")
      <4>1. k # None BY <3>3, ReleaseAssumption
      <4> QED BY <1>2, <1>3, <1>5, <3>3, <4>1
    <3> QED BY <1>4, <3>1, <3>2, <3>3
  <2>4. \A w \in reported' : origin'[w] # None
    BY <1>7, <1>8 DEF Inv, TypeOK, RunInv
  <2> QED BY <2>1, <2>2, <2>3, <2>4 DEF RunInv, PushedIsTrue
<1> QED BY <1>10, <1>11, <1>12 DEF Inv

LEMMA InvStep == Inv /\ [Next]_vars => Inv'
<1> SUFFICES ASSUME Inv, [Next]_vars PROVE Inv'
  OBVIOUS
<1>1. CASE ExecutePush BY <1>1, ExecuteStep
<1>2. CASE LosePush \/ People BY <1>2, OutsideStep
<1>3. ASSUME NEW k \in Clone, Script(k) PROVE Inv'
  BY <1>3, ScriptStep, TagStep DEF Script
<1>4. CASE UNCHANGED vars
  BY <1>4 DEF vars, outside, Inv, TypeOK, LocalTag, TagInv, PublishedIsChecked, Checked, RunInv,
     Learned, PushedIsTrue
<1> QED BY <1>1, <1>2, <1>3, <1>4 DEF Next

LEMMA InvAlways == Spec => []Inv
BY InvInit, InvStep, PTL DEF Spec

-----------------------------------------------------------------------------
(* The theorems.                                                           *)

\* The state keeps its types; a helper pushes its own tag, of a commit it checked.
THEOREM TypeCorrect == Spec => []TypeOK
<1>1. Inv => TypeOK BY DEF Inv
<1> QED BY <1>1, InvAlways, PTL

\* A version on origin denotes a merged commit with an image, or one that people
\* tagged themselves, leftovers of failed runs included.
THEOREM OnlyCheckedCommits == Spec => []PublishedIsChecked
<1>1. Inv => PublishedIsChecked BY DEF Inv, TagInv
<1> QED BY <1>1, InvAlways, PTL

\* A run that reports its push is right for ever.
THEOREM TruePush == Spec => []PushedIsTrue
<1>1. Inv => PushedIsTrue BY DEF Inv, RunInv
<1> QED BY <1>1, InvAlways, PTL

\* A version that a helper publishes is later than all that were reported before its
\* run began.
THEOREM OrderKept == Spec => OrderAsReported
<1>1. Inv => \A p \in sent : \A v \in p[2].before : v < p[2].version
  BY DEF Inv, RunInv, Learned, Looked
<1>2. Inv /\ [Next]_vars =>
        [\A p \in sent : p \notin sent' /\ origin' # origin =>
           \A v \in p[2].before : v < p[2].version]_vars
  BY <1>1
<1> QED BY <1>2, InvAlways, PTL DEF Spec, OrderAsReported
=============================================================================
