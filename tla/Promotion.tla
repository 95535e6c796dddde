----------------------------- MODULE Promotion -----------------------------
(***************************************************************************)
(* The promotion of a tested image to a release: a version tag is pushed,  *)
(* release.yaml checks its commit, wait_for_ci.sh polls for that commit's  *)
(* CI run and retag_image.sh gives the commit's image the version's tag.   *)
(* Promotions run concurrently, are retried, and race one another in the   *)
(* registry; CI runs are rerun behind their backs; version tags are pushed *)
(* by people, at any commit, and moved although they should not be.        *)
(*                                                                         *)
(* GitHub and the registry are external: they are what the scripts ask of  *)
(* them.  An image is named by the commit it was built from, which stands  *)
(* for its digest too.  That GitHub runs the promotions of one tag one at  *)
(* a time is not used: retag_image.sh answers for concurrent ones.         *)
(***************************************************************************)
CONSTANTS Commit, Version,
          Run,    \* executions of the release workflow
          None    \* no image has that version

ASSUME PromotionAssumption == None \notin Commit

VARIABLES
  branch,     \* commits reachable from the default branch
  ci,         \* per commit, its latest CI run for a push to that branch
  green,      \* history: commits one of whose CI runs succeeded
  images,     \* registry: commits whose image is tagged with their SHA
  released,   \* registry: per version, the image tagged with it
  pushed,     \* <<version, commit>> of the tag pushes so far
  step,       \* per run, the command it is at
  job,        \* per run, the <<version, commit>> it promotes
  late,       \* runs whose wait for CI has used up its time
  puts        \* <<run, job>> of the put-image requests under way

github == <<branch, ci, green, pushed>>
registry == <<images, released>>
vars == <<github, registry, step, job, late, puts>>

Job == Version \X Commit
Ended == {"idle", "ok", "failed"}

Init ==
  /\ branch = {} /\ ci = [c \in Commit |-> "missing"] /\ green = {} /\ pushed = {}
  /\ images = {} /\ released = [v \in Version |-> None]
  /\ step = [p \in Run |-> "idle"] /\ job \in [Run -> Job]
  /\ late = {} /\ puts = {}

-----------------------------------------------------------------------------
(* ci.yaml, and the people who merge, tag and rerun.                       *)

CiBecomes(c, state) ==
  /\ ci' = [ci EXCEPT ![c] = state]
  /\ UNCHANGED <<branch, pushed, released, step, job, late, puts>>

Merge(c) ==
  /\ c \notin branch /\ branch' = branch \cup {c}
  /\ UNCHANGED <<ci, green, pushed, registry, step, job, late, puts>>

\* A push starts CI, and anybody may rerun it.
StartCi(c) ==
  /\ c \in branch /\ ci[c] # "pending"
  /\ CiBecomes(c, "pending") /\ UNCHANGED <<green, images>>

\* The image is published before its run is over, and only where it is missing.
PublishImage(c) ==
  /\ ci[c] = "pending" /\ images' = images \cup {c}
  /\ UNCHANGED <<github, released, step, job, late, puts>>

\* A run may succeed without an image: publishing can be switched off.
CiSucceeds(c) ==
  /\ ci[c] = "pending" /\ CiBecomes(c, "success")
  /\ green' = green \cup {c} /\ UNCHANGED images

CiFails(c) ==
  /\ ci[c] = "pending" /\ CiBecomes(c, "failure") /\ UNCHANGED <<green, images>>

PushTag(v, c) ==
  /\ pushed' = pushed \cup {<<v, c>>}
  /\ UNCHANGED <<branch, ci, green, registry, step, job, late, puts>>

-----------------------------------------------------------------------------
(* release.yaml and its scripts, as run p executes them.                   *)

Goto(p, from, to) == step[p] = from /\ step' = [step EXCEPT ![p] = to]
Source(p) == job[p][2]
Target(p) == released[job[p][1]]

\* The workflow starts for a pushed tag, or is rerun, and validates the commit.
Begin(p) ==
  /\ step[p] \in Ended
  /\ \E j \in pushed :
       /\ job' = [job EXCEPT ![p] = j]
       /\ step' = [step EXCEPT ![p] = IF j[2] \in branch THEN "poll" ELSE "failed"]
  /\ late' = late \ {p}
  /\ UNCHANGED <<github, registry, puts>>

PassesUnlessFailed(c) == ci[c] # "failure"   \* mutant: an unfinished run will do
Passes(c) == ci[c] = "success"

\* wait_for_ci.sh: one look at the latest run of that commit.
Poll(p) ==
  /\ Goto(p, "poll", IF Passes(Source(p)) THEN "source"
                     ELSE IF ci[Source(p)] = "failure" \/ p \in late THEN "failed"
                     ELSE "sleep")
  /\ UNCHANGED <<github, registry, job, late, puts>>

Deadline(p) ==
  /\ step[p] \in {"poll", "sleep"} /\ p \notin late /\ late' = late \cup {p}
  /\ UNCHANGED <<github, registry, step, job, puts>>

WakeToPoll(p) ==   \* mutant: the deadline bounds the sleep and not the loop
  /\ Goto(p, "sleep", "poll") /\ late' = late \ {p}
  /\ UNCHANGED <<github, registry, job, puts>>

Wake(p) ==
  /\ Goto(p, "sleep", IF p \in late THEN "failed" ELSE "poll")
  /\ UNCHANGED <<github, registry, job, late, puts>>

Published(c) == c \in images

\* retag_image.sh: lookup_image of the source.
LookupSource(p) ==
  /\ Goto(p, "source", IF Published(Source(p)) THEN "target" ELSE "failed")
  /\ UNCHANGED <<github, registry, job, late, puts>>

AnyDigest(p) == Target(p) # None   \* mutant: the digests are not compared
SameDigest(p) == Target(p) = Source(p)

\* lookup_image of the version: done, refused, or free to be put.
LookupTarget(p) ==
  /\ Goto(p, "target", IF SameDigest(p) THEN "ok"
                       ELSE IF Target(p) = None THEN "put" ELSE "failed")
  /\ UNCHANGED <<github, registry, job, late, puts>>

PutImage(p) ==
  /\ Goto(p, "put", "wait") /\ puts' = puts \cup {<<p, job[p]>>}
  /\ UNCHANGED <<github, registry, job, late>>

\* After a refused or unanswered put, a fresh lookup decides.
Recheck(p) ==
  /\ Goto(p, "recheck", IF SameDigest(p) THEN "ok" ELSE "failed")
  /\ UNCHANGED <<github, registry, job, late, puts>>

\* A command fails, answers nonsense, or the runner is lost.
Fails(p) ==
  /\ step[p] \notin Ended /\ step' = [step EXCEPT ![p] = "failed"]
  /\ UNCHANGED <<github, registry, job, late, puts>>

Unanswered(p) ==
  /\ Goto(p, "wait", "recheck")
  /\ UNCHANGED <<github, registry, job, late, puts>>

-----------------------------------------------------------------------------
(* The registry executes a put at any time, long after its sender gave up  *)
(* on it included, and refuses to move a version that exists.              *)

Stored(v, c) == IF released[v] = None THEN c ELSE released[v]

ExecutePut ==
  \E r \in puts :
    LET p == r[1]  v == r[2][1]  c == r[2][2] IN
    /\ puts' = puts \ {r}
    /\ released' = [released EXCEPT ![v] = Stored(v, c)]
    /\ step' = IF step[p] = "wait" /\ job[p] = r[2]
               THEN [step EXCEPT ![p] = IF released[v] = None THEN "ok" ELSE "recheck"]
               ELSE step
    /\ UNCHANGED <<github, images, job, late>>

LosePut == /\ \E r \in puts : puts' = puts \ {r}
           /\ UNCHANGED <<github, registry, step, job, late>>

-----------------------------------------------------------------------------
Others ==
  \/ \E c \in Commit : Merge(c) \/ StartCi(c) \/ PublishImage(c) \/ CiSucceeds(c) \/ CiFails(c)
  \/ \E v \in Version, c \in Commit : PushTag(v, c)
  \/ ExecutePut \/ LosePut

Script(p) ==
  \/ Poll(p) \/ Wake(p) \/ LookupSource(p) \/ LookupTarget(p)
  \/ PutImage(p) \/ Unanswered(p) \/ Recheck(p)

Next == Others \/ \E p \in Run : Begin(p) \/ Script(p) \/ Deadline(p) \/ Fails(p)

Spec == Init /\ [][Next]_vars

\* A script's commands end, its clock runs and the AWS client times out; CI,
\* the registry and people owe it nothing.
Fairness == \A p \in Run : /\ WF_vars(Script(p))
                           /\ WF_vars(Deadline(p))

FairSpec == Spec /\ Fairness

-----------------------------------------------------------------------------
(* Properties.                                                             *)

\* Types; and a run at the registry's write side has seen its image there.
TypeOK ==
  /\ branch \in SUBSET Commit /\ green \in SUBSET Commit /\ images \in SUBSET Commit
  /\ ci \in [Commit -> {"missing", "pending", "success", "failure"}]
  /\ released \in [Version -> Commit \cup {None}]
  /\ pushed \in SUBSET Job /\ job \in [Run -> Job]
  /\ step \in [Run -> Ended \cup {"poll", "sleep", "source", "target", "put", "wait", "recheck"}]
  /\ late \in SUBSET Run /\ puts \in SUBSET (Run \X Job)
  /\ \A r \in puts : r[2][2] \in images

\* A version denotes only an image that CI passed, of a commit of the default
\* branch that somebody tagged with that version.
ReleasedIsTested ==
  \A v \in Version : released[v] # None =>
    /\ <<v, released[v]>> \in pushed
    /\ released[v] \in images \cap green \cap branch

\* A promotion that reports success is right, and stays right: the version
\* denotes its commit's image, whoever else promoted that version.
SuccessIsTrue ==
  \A p \in Run : step[p] = "ok" => released[job[p][1]] = job[p][2]

\* A promotion ends, although CI may never, and may lose its put.
PromotionEnds == \A p \in Run : step[p] \notin Ended ~> step[p] \in Ended
=============================================================================
