-------------------------------- MODULE Site --------------------------------
(***************************************************************************)
(* The dashboard's styles and scripts, from the build to a browser.  A     *)
(* build of a revision concatenates its files in an order that must not    *)
(* depend on the directory listing, minifies them, and names each bundle   *)
(* by a hash of its bytes; the application serves exactly the two bundles it embeds.  One   *)
(* pod at a time serves, so between a page and its assets another revision *)
(* may have taken over.  The browser caches assets by URL, for good, and   *)
(* the page never.                                                         *)
(*                                                                         *)
(* Paths are numbers in path order, and a minifier is some function of     *)
(* the texts, which may be the same for different texts.  A build that     *)
(* fails, in a minifier for one, makes no image, and a page whose database *)
(* reads fail is no page.                                                  *)
(***************************************************************************)
EXTENDS Integers, Sequences, SequencesExt

CONSTANTS Revision,
          Styles, Scripts,   \* the paths there may be below src/dashboard
          Base,              \* styles.css, the path of the shared styles
          Text,              \* Text[r][p]: what revision r has at path p, or None
          Tools,             \* Tools[r][k]: its minifier, by version and options
          Minify(_, _),      \* what a minifier makes of the texts
          MaxEvents,         \* bound: stops, losses, evictions and departures
          None

ASSUME SiteAssumption ==
  /\ Styles \cup Scripts \subseteq Nat /\ IsFiniteSet(Styles \cup Scripts)
  /\ Base \in Styles /\ \A r \in Revision : Text[r][Base] # None
  /\ MaxEvents \in Nat

VARIABLES
  served,   \* the image that answers, or None
  page,     \* the page in the tab: the image that rendered it, or None
  got,      \* what became of each asset that the page links to
  cache,    \* the assets the browser keeps
  events

vars == <<served, page, got, cache, events>>

Kinds == {"css", "js"}
Paths(k) == IF k = "css" THEN Styles ELSE Scripts

-----------------------------------------------------------------------------
(* build.rs *)

ByPath(p, q) == p < q   \* mutant: the shared styles sorted like any other file

\* collect_assets: by their extension, wherever they are.
Files(r, k) == {p \in Paths(k) : Text[r][p] # None}

Before(p, q) == p # q /\ (p = Base \/ (q # Base /\ p < q))

AsListed(paths) == SetToSeqs(paths)   \* mutant: the bundle in directory order

\* Directories are listed in any order; sort_by leaves no inversion.
Sorted(paths) ==
  {s \in SetToSeqs(paths) : \A i, j \in DOMAIN s : i < j => ~Before(s[j], s[i])}

\* concatenate_assets joins the texts, and the minifier of their kind takes them whole.
Bundle(r, k, s) == Minify(Tools[r][k], [i \in DOMAIN s |-> Text[r][s[i]]])
Bundles(r, k) == {Bundle(r, k, s) : s \in Sorted(Files(r, k))}

Images == UNION {{[revision |-> r, asset |-> [k \in Kinds |-> IF k = "css" THEN c ELSE j]] :
                    c \in Bundles(r, "css"), j \in Bundles(r, "js")} : r \in Revision}

Bytes == UNION {Bundles(r, k) : r \in Revision, k \in Kinds}

Unversioned(k, bytes) == <<k>>   \* mutant: /assets/site.css
Url(k, bytes) == <<k, bytes>>    \* the hash has no collisions

-----------------------------------------------------------------------------
Loading == [k \in Kinds |-> [is |-> "loading", bytes |-> None]]

Init ==
  /\ served = None /\ page = None
  /\ got = Loading /\ cache = {} /\ events = 0

Event == events < MaxEvents /\ events' = events + 1

\* The pod is replaced or restarted: the old process is gone before the next serves.
Stop == served # None /\ Event /\ served' = None /\ UNCHANGED <<page, got, cache>>

Start ==
  /\ served = None /\ served' \in Images
  /\ UNCHANGED <<page, got, cache, events>>

-----------------------------------------------------------------------------
(* The browser *)

Settled == page # None /\ \A k \in Kinds : got[k].is # "loading"

CachedPage == IF page # None THEN page ELSE served
LoadStale ==   \* mutant: the page may be cached like its assets
  /\ page = None \/ Settled
  /\ served # None /\ page' = CachedPage /\ got' = Loading
  /\ UNCHANGED <<served, cache, events>>

\* GET /, first or again: no-cache, so the page is the serving image's.
Load ==
  /\ page = None \/ Settled
  /\ served # None /\ page' = served /\ got' = Loading
  /\ UNCHANGED <<served, cache, events>>

Leave == Event /\ page' = None /\ got' = Loading /\ UNCHANGED <<served, cache>>

Link(k) == Url(k, page.asset[k])
Wants(k) == page # None /\ got[k].is = "loading"
Cached(k) == \E e \in cache : e.url = Link(k)
Becomes(k, is, bytes) == got' = [got EXCEPT ![k] = [is |-> is, bytes |-> bytes]]

FromCache(k) ==
  /\ Wants(k)
  /\ \E e \in cache : e.url = Link(k) /\ Becomes(k, "loaded", e.bytes)
  /\ UNCHANGED <<served, page, cache, events>>

\* The routes are the two URLs of the embedded bundles.
Serves(k, url) == url = Url(k, served.asset[k])

\* A response is kept, being immutable; a 404 is not.
FromServer(k) ==
  /\ Wants(k) /\ ~Cached(k) /\ served # None
  /\ IF Serves(k, Link(k))
     THEN /\ Becomes(k, "loaded", served.asset[k])
          /\ cache' = cache \cup {[url |-> Link(k), bytes |-> served.asset[k]]}
     ELSE Becomes(k, "notfound", None) /\ UNCHANGED cache
  /\ UNCHANGED <<served, page, events>>

\* The request is lost, or there is no server to answer it.
Lost(k) ==
  /\ Wants(k) /\ ~Cached(k) /\ Becomes(k, "lost", None)
  /\ \/ served = None /\ UNCHANGED events
     \/ served # None /\ Event
  /\ UNCHANGED <<served, page, cache>>

Evict ==
  /\ Event /\ \E e \in cache : cache' = cache \ {e}
  /\ UNCHANGED <<served, page, got>>

Fetch(k) == FromCache(k) \/ FromServer(k) \/ Lost(k)

Next == Stop \/ Start \/ Load \/ Leave \/ Evict \/ \E k \in Kinds : Fetch(k)

Spec == Init /\ [][Next]_vars

\* The pod comes back, requests end, and the user reloads.
FairSpec ==
  Spec /\ WF_vars(Start) /\ WF_vars(Load) /\ \A k \in Kinds : WF_vars(Fetch(k))

-----------------------------------------------------------------------------
(* Properties. *)

\* Types; and what the browser keeps under a URL is what that URL was made of.
TypeOK ==
  /\ served \in Images \cup {None} /\ page \in Images \cup {None}
  /\ got \in [Kinds -> [is : {"loading", "loaded", "notfound", "lost"}, bytes : Bytes \cup {None}]]
  /\ \A e \in cache : e.bytes \in Bytes /\ \E k \in Kinds : e.url = Url(k, e.bytes)
  /\ events \in 0..MaxEvents

\* Whatever has been deployed, rolled back, cached and evicted since, an asset that a
\* page runs is the one it was rendered with; and its styles were made with the shared
\* ones first, on which those of the components rely, wherever they were built.
NeverMixed ==
  \A k \in Kinds : got[k].is = "loaded" =>
    /\ got[k].bytes = page.asset[k]
    /\ k = "css" => LET r == page.revision IN
         \E s \in SetToSeqs(Files(r, k)) : s[1] = Base /\ got[k].bytes = Bundle(r, k, s)

\* What a revision makes the assets of a kind from: the texts at their paths, of files
\* that come and go as well, and the minifier.
Source(r, k) == [text |-> [p \in Paths(k) |-> Text[r][p]], tools |-> Tools[r][k]]

\* A page finds an asset gone only because another source of it is deployed: a restart,
\* a rebuild elsewhere, or a revision that touches neither these files nor their
\* minifier never takes it away.
GoneOnlyIfChanged ==
  [][\A k \in Kinds : got[k].is = "loading" /\ got'[k].is = "notfound" =>
       Source(served.revision, k) # Source(page.revision, k)]_vars

\* A page left without its assets by a deployment or an outage is made whole by reloading.
ReloadHeals == []<>(\A k \in Kinds : got[k].is = "loaded")
=============================================================================
