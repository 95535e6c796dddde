----------------------------- MODULE ReleaseTag -----------------------------
(***************************************************************************)
(* bin/release.sh: people, each in a clone, give versions to commits.  A   *)
(* run of the helper lists the tags it must be later than, resolves and    *)
(* checks the commit, looks for its image, and only then tags and pushes;  *)
(* nothing is locked in between.  A push that fails may have landed, or    *)
(* land later, and leaves the local tag behind.  Beside the helper, people *)
(* tag, push all their tags, fetch and delete as the docs allow them to.   *)
(*                                                                         *)
(* Versions are numbers in the order of sort -V.  origin and the registry  *)
(* are external.  Nobody deletes or moves a tag on origin, and nobody but  *)
(* a background fetch touches the tags of a clone whose helper runs.       *)
(***************************************************************************)
EXTENDS Integers

CONSTANTS Clone,    \* the clones; each runs one helper at a time
          Version, Commit,
          ByHand,   \* the commits that people tag themselves, without the helper
          None      \* no such tag, and nobody

ASSUME ReleaseAssumption ==
  Version \subseteq Nat /\ ByHand \subseteq Commit /\ None \notin Commit \cup Clone

VARIABLES
  branch,   \* commits on origin's default branch
  images,   \* commits whose image is in the registry
  origin,   \* origin's tags: the commit of each version
  local,    \* the tags of each clone
  run,      \* per clone its helper: the command it is at, its version and commit,
            \* and, as history, the versions reported as pushed before it began
  sent,     \* pushes under way: <<the clone that waits for it, or None, its run>>
  reported  \* history: the versions that some helper reported as pushed

outside == <<branch, images>>
vars == <<outside, origin, local, run, sent, reported>>

Tags(refs) == {v \in Version : refs[v] # None}
Idle == [at |-> "idle", version |-> None, commit |-> None, before |-> {}]

Init ==
  /\ branch = {} /\ images = {}
  /\ origin = [v \in Version |-> None]
  /\ local = [k \in Clone |-> [v \in Version |-> None]]
  /\ run = [k \in Clone |-> Idle]
  /\ sent = {} /\ reported = {}

-----------------------------------------------------------------------------
(* The helper in clone k.  A script that stops leaves nothing but its tag.  *)

Goto(k, from, next) == run[k].at = from /\ run' = [run EXCEPT ![k] = next]
At(k, to) == [run[k] EXCEPT !.at = to]
LocalTag(k) == local[k][run[k].version]

\* None of the tags is this version or a later one.
Later(v, refs) == \A w \in Tags(refs) : w < v

Free(k) == run[k].at \in {"idle", "pushed"}

\* The arguments are well formed: git tag --list.
ListLocal(k) ==
  /\ Free(k)
  /\ \E v \in Version : Later(v, local[k]) /\
       run' = [run EXCEPT ![k] = [Idle EXCEPT !.at = "remote", !.version = v, !.before = reported]]
  /\ UNCHANGED <<outside, origin, local, sent, reported>>

AnyListing(k) == TRUE   \* mutant: the clone is taken to be up to date
LaterThanOrigin(k) == Later(run[k].version, origin)

\* git ls-remote --tags
ListRemote(k) ==
  /\ Goto(k, "remote", IF LaterThanOrigin(k) THEN At(k, "commit") ELSE Idle)
  /\ UNCHANGED <<outside, origin, local, sent, reported>>

\* mutant: the tag is made before the image is looked for
ResolveAndTag(k) ==
  /\ \E c \in Commit :
       /\ Goto(k, "commit", At(k, "image"))
       /\ local' = [local EXCEPT ![k][run[k].version] = IF @ = None THEN c ELSE @]
  /\ UNCHANGED <<outside, origin, sent, reported>>

\* Fetch the default branch, resolve the argument, look for it in the branch.
ResolveCommit(k) ==
  /\ \E c \in Commit :
       Goto(k, "commit", IF c \in branch THEN [At(k, "image") EXCEPT !.commit = c] ELSE Idle)
  /\ UNCHANGED <<outside, origin, local, sent, reported>>

Verified(k) == run[k].commit \in images

\* The registry lookup; a preview ends here.
LookUpImage(k) ==
  /\ \E next \in {At(k, "tag"), Idle} : Goto(k, "image", IF Verified(k) THEN next ELSE Idle)
  /\ UNCHANGED <<outside, origin, local, sent, reported>>

\* git tag refuses a tag that exists, and the script ends with it.
Tag(k) ==
  /\ Goto(k, "tag", IF LocalTag(k) = None THEN At(k, "push") ELSE Idle)
  /\ local' = [local EXCEPT ![k][run[k].version] = IF @ = None THEN run[k].commit ELSE @]
  /\ UNCHANGED <<outside, origin, sent, reported>>

Push(k) ==
  /\ Goto(k, "push", At(k, "wait"))
  /\ sent' = sent \cup {<<k, At(k, "wait")>>}
  /\ UNCHANGED <<outside, origin, local, reported>>

\* A command fails, the push is not answered, or ^C: nobody waits for it any more.
Fails(k) ==
  /\ ~Free(k) /\ run' = [run EXCEPT ![k] = Idle]
  /\ sent' = {IF p[1] = k THEN <<None, p[2]>> ELSE p : p \in sent}
  /\ UNCHANGED <<outside, origin, local, reported>>

-----------------------------------------------------------------------------
(* origin executes a push late or never, and refuses a tag that it has.    *)

LosePush ==
  /\ \E p \in sent : sent' = sent \ {p}
  /\ UNCHANGED <<outside, origin, local, run, reported>>

ReportAnyway(k, free) == At(k, "pushed")   \* mutant: the result of the push is ignored
Report(k, free) == IF free THEN At(k, "pushed") ELSE Idle

ExecutePush ==
  \E p \in sent :
    LET k == p[1]  v == p[2].version  free == origin[v] = None IN
    /\ sent' = sent \ {p}
    /\ origin' = [origin EXCEPT ![v] = IF free THEN p[2].commit ELSE @]
    /\ run' = IF k = None THEN run ELSE [run EXCEPT ![k] = Report(k, free)]
    /\ reported' = reported \cup {w \in {v} : k # None /\ run'[k].at = "pushed"}
    /\ UNCHANGED <<outside, local>>

-----------------------------------------------------------------------------
(* CI, and people at their clones.                                         *)

Merge(c) ==
  /\ branch' = branch \cup {c}
  /\ UNCHANGED <<images, origin, local, run, sent, reported>>

\* CI publishes images of the default branch.
Publish(c) ==
  /\ c \in branch /\ images' = images \cup {c}
  /\ UNCHANGED <<branch, origin, local, run, sent, reported>>

HandTag(k, v, c) ==
  /\ Free(k) /\ local[k][v] = None
  /\ local' = [local EXCEPT ![k][v] = c]
  /\ UNCHANGED <<outside, origin, run, sent, reported>>

DeleteTag(k, v) ==
  /\ Free(k) /\ local' = [local EXCEPT ![k][v] = None]
  /\ UNCHANGED <<outside, origin, run, sent, reported>>

Fill(refs, from) == [v \in Version |-> IF refs[v] = None THEN from[v] ELSE refs[v]]

\* git push origin --tags, leftovers of failed helpers included.
PushTags(k) ==
  /\ Free(k) /\ origin' = Fill(origin, local[k])
  /\ UNCHANGED <<outside, local, run, sent, reported>>

FetchTags(k) ==
  /\ local' = [local EXCEPT ![k] = Fill(@, origin)]
  /\ UNCHANGED <<outside, origin, run, sent, reported>>

-----------------------------------------------------------------------------
Script(k) ==
  \/ ListLocal(k) \/ ListRemote(k) \/ ResolveCommit(k) \/ LookUpImage(k)
  \/ Tag(k) \/ Push(k) \/ Fails(k)

People ==
  \/ \E c \in Commit : Merge(c) \/ Publish(c)
  \/ \E k \in Clone : PushTags(k) \/ FetchTags(k)
  \/ \E k \in Clone, v \in Version : DeleteTag(k, v) \/ \E c \in ByHand : HandTag(k, v, c)

Next == ExecutePush \/ LosePush \/ People \/ \E k \in Clone : Script(k)

Spec == Init /\ [][Next]_vars

-----------------------------------------------------------------------------
(* Properties.                                                             *)

Refs == [Version -> Commit \cup {None}]

Running == [at : {"remote", "commit", "image", "tag", "push", "wait", "pushed"},
            version : Version, commit : Commit \cup {None}, before : SUBSET Version]

\* Types; and what is pushed is the helper's own tag, of a commit it checked.
TypeOK ==
  /\ branch \in SUBSET Commit /\ images \in SUBSET branch
  /\ origin \in Refs /\ local \in [Clone -> Refs]
  /\ run \in [Clone -> Running \cup {Idle}]
  /\ sent \in SUBSET ((Clone \cup {None}) \X Running) /\ reported \in SUBSET Version
  /\ \A k \in Clone : run[k].at \in {"push", "wait"} => LocalTag(k) = run[k].commit
  /\ \A p \in sent : p[2].commit \in images /\ (p[1] # None => run[p[1]] = p[2])

\* A version on origin denotes a commit of the default branch with an image, even
\* as the leftover of a failed run that somebody's git push --tags took along,
\* unless people tag that commit themselves.
PublishedIsChecked ==
  \A v \in Version : origin[v] # None => origin[v] \in images \cup ByHand

\* A run that reports its push is right for ever: on origin its version denotes
\* the commit that it checked, whoever else gave out that version.
PushedIsTrue ==
  \A k \in Clone : run[k].at = "pushed" => origin[run[k].version] = run[k].commit

\* What the check of the order is worth without a lock: a version that a helper
\* publishes, however late its push is executed, is later than every version that a
\* helper in any clone had reported as pushed before this run began.  Only runs that
\* overlap, pushes that nobody waited for and people's own can be out of order.
OrderAsReported ==
  [][\A p \in sent : p \notin sent' /\ origin' # origin =>
       \A v \in p[2].before : v < p[2].version]_vars
=============================================================================
