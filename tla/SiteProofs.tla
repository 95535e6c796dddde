----------------------------- MODULE SiteProofs -----------------------------
(***************************************************************************)
(* The dashboard's assets, for any finite sets of styles and scripts, any  *)
(* minifiers, revisions and number of deployments.  First, a sort without  *)
(* ties has one result: what build.rs makes of a revision does not depend  *)
(* on how its directories are listed.  Then the browser's side: SiteInv    *)
(* says that a URL never stands for two contents, in the cache included.   *)
(***************************************************************************)
EXTENDS Site, TLAPS, FiniteSetTheorems, NaturalsInduction

-----------------------------------------------------------------------------
(* Sorting.                                                                *)

\* Before is a total order of the paths.
LEMMA BeforeOrders ==
  ASSUME NEW p \in Nat, NEW q \in Nat, p # q
  PROVE  (Before(p, q) \/ Before(q, p)) /\ ~(Before(p, q) /\ Before(q, p))
BY SiteAssumption DEF Before

\* A listing names every path, and names it once.
LEMMA ListingFacts ==
  ASSUME NEW paths, IsFiniteSet(paths), NEW s \in SetToSeqs(paths)
  PROVE  /\ Cardinality(paths) \in Nat /\ DOMAIN s = 1 .. Cardinality(paths)
         /\ \A i \in DOMAIN s : s[i] \in paths
         /\ \A i, j \in DOMAIN s : s[i] = s[j] => i = j
         /\ \A p \in paths : \E i \in DOMAIN s : s[i] = p
<1> DEFINE n == Cardinality(paths)
<1>1. n \in Nat BY FS_CardinalityType
<1>2. s \in [1 .. n -> paths] /\ \A i, j \in 1 .. n : i # j => s[i] # s[j]
  BY DEF SetToSeqs
<1>3. s \in Injection(1 .. n, paths) BY <1>2 DEF Injection, IsInjective
<1>4. Cardinality(1 .. n) = n BY <1>1, FS_Interval
<1>5. s \in Surjection(1 .. n, paths) BY <1>3, <1>4, FS_Injection
<1> QED BY <1>1, <1>2, <1>5 DEF Surjection

\* Any set of natural numbers that is not empty has a smallest element.
LEMMA Smallest ==
  ASSUME NEW T \in SUBSET Nat, T # {}
  PROVE  \E m \in T : \A k \in T : m <= k
<1>1. IsWellFoundedOn(OpToRel(<, Nat), Nat) BY NatLessThanWellFounded
<1>2. PICK m \in T : \A k \in T : ~(<<k, m>> \in OpToRel(<, Nat)) BY <1>1, WFMin
<1>3. \A k \in T : ~(k < m) BY <1>2 DEF OpToRel
<1> QED BY <1>3

\* Sorting has at most one result, whatever order the paths were listed in.
LEMMA SortedOnce ==
  ASSUME NEW paths \in SUBSET Nat, IsFiniteSet(paths),
         NEW s \in Sorted(paths), NEW t \in Sorted(paths)
  PROVE  s = t
<1> DEFINE n == Cardinality(paths)
           D == {i \in 1 .. n : s[i] # t[i]}
<1>1. s \in SetToSeqs(paths) /\ t \in SetToSeqs(paths) BY DEF Sorted
<1>2. /\ n \in Nat /\ DOMAIN s = 1 .. n /\ DOMAIN t = 1 .. n
      /\ \A i \in 1 .. n : s[i] \in paths /\ t[i] \in paths
      /\ \A i, j \in 1 .. n : (s[i] = s[j] => i = j) /\ (t[i] = t[j] => i = j)
      /\ \A p \in paths : (\E i \in 1 .. n : s[i] = p) /\ (\E i \in 1 .. n : t[i] = p)
  BY <1>1, ListingFacts
<1>3. s = [i \in 1 .. n |-> s[i]] /\ t = [i \in 1 .. n |-> t[i]]
  BY <1>1, <1>2 DEF SetToSeqs
<1>4. SUFFICES ASSUME D # {} PROVE FALSE BY <1>2, <1>3
<1>5. PICK d \in D : \A k \in D : d <= k
  <2>1. D \in SUBSET Nat OBVIOUS
  <2> QED BY <1>4, <2>1, Smallest
<1>6. d \in 1 .. n /\ s[d] # t[d] /\ \A k \in 1 .. d - 1 : s[k] = t[k]
  BY <1>2, <1>5
<1>7. PICK i \in 1 .. n : s[i] = t[d] BY <1>2, <1>6
<1>8. PICK j \in 1 .. n : t[j] = s[d] BY <1>2, <1>6
<1>9. d < i
  <2>1. i # d BY <1>6, <1>7
  <2>2. i \in 1 .. d - 1 => t[i] = t[d] BY <1>6, <1>7
  <2> QED BY <1>2, <1>6, <2>1, <2>2
<1>10. d < j
  <2>1. j # d BY <1>6, <1>8
  <2>2. j \in 1 .. d - 1 => s[j] = s[d] BY <1>6, <1>8
  <2> QED BY <1>2, <1>6, <2>1, <2>2
<1>11. ~Before(t[d], s[d])
  <2>1. ~Before(s[i], s[d]) BY <1>2, <1>6, <1>9 DEF Sorted
  <2> QED BY <1>7, <2>1
<1>12. ~Before(s[d], t[d])
  <2>1. ~Before(t[j], t[d]) BY <1>2, <1>6, <1>10 DEF Sorted
  <2> QED BY <1>8, <2>1
<1>13. s[d] \in Nat /\ t[d] \in Nat BY <1>2, <1>6
<1> QED BY <1>6, <1>11, <1>12, <1>13, BeforeOrders

\* Of any paths one comes before all others.
LEMMA FirstPath ==
  ASSUME NEW paths \in SUBSET Nat, paths # {}
  PROVE  \E p \in paths : \A q \in paths : q # p => Before(p, q)
<1>1. CASE Base \in paths BY <1>1 DEF Before
<1>2. CASE Base \notin paths
  <2>1. PICK p \in paths : \A q \in paths : p <= q BY Smallest
  <2> QED BY <1>2, <2>1 DEF Before
<1> QED BY <1>1, <1>2

\* A sorted arrangement behind a path that comes before all of it is sorted.
LEMMA SortedWithFirst ==
  ASSUME NEW paths \in SUBSET Nat, IsFiniteSet(paths), NEW p \in paths,
         \A q \in paths : q # p => Before(p, q),
         NEW u \in Sorted(paths \ {p})
  PROVE  [i \in 1 .. Cardinality(paths) |-> IF i = 1 THEN p ELSE u[i - 1]] \in Sorted(paths)
<1> DEFINE n == Cardinality(paths)
           rest == paths \ {p}
           s == [i \in 1 .. n |-> IF i = 1 THEN p ELSE u[i - 1]]
<1>1. n \in Nat /\ IsFiniteSet(rest) /\ Cardinality(rest) = n - 1
  BY FS_CardinalityType, FS_RemoveElement
<1>2. u \in SetToSeqs(rest) BY DEF Sorted
<1>3. /\ n - 1 \in Nat /\ DOMAIN u = 1 .. n - 1
      /\ \A i \in 1 .. n - 1 : u[i] \in rest
      /\ \A i, j \in 1 .. n - 1 : u[i] = u[j] => i = j
  BY <1>1, <1>2, ListingFacts
<1>4. \A i \in 1 .. n : i # 1 => i - 1 \in 1 .. n - 1 /\ s[i] = u[i - 1] /\ s[i] \in rest
  BY <1>1, <1>3
<1>5. 1 \in 1 .. n => s[1] = p OBVIOUS
<1>6. s \in [1 .. n -> paths] BY <1>1, <1>4, <1>5
<1>7. ASSUME NEW i \in 1 .. n, NEW j \in 1 .. n, i # j PROVE s[i] # s[j]
  <2>1. CASE i = 1 BY <1>4, <1>5, <1>7, <2>1
  <2>2. CASE j = 1 BY <1>4, <1>5, <1>7, <2>2
  <2>3. CASE i # 1 /\ j # 1
    <3>1. i - 1 # j - 1 BY <1>7
    <3> QED BY <1>3, <1>4, <2>3, <3>1
  <2> QED BY <2>1, <2>2, <2>3
<1>8. ASSUME NEW i \in 1 .. n, NEW j \in 1 .. n, i < j PROVE ~Before(s[j], s[i])
  <2>1. j # 1 /\ s[j] = u[j - 1] /\ s[j] \in rest BY <1>4, <1>8
  <2>2. CASE i = 1
    <3>1. s[i] = p /\ s[j] # p /\ s[j] \in paths BY <1>5, <2>1, <2>2
    <3>2. Before(p, s[j]) BY <3>1
    <3> QED BY <3>1, <3>2, BeforeOrders
  <2>3. CASE i # 1
    <3>1. i - 1 \in DOMAIN u /\ j - 1 \in DOMAIN u /\ i - 1 < j - 1 /\ s[i] = u[i - 1]
      BY <1>3, <1>4, <1>8, <2>1, <2>3
    <3>2. ~Before(u[j - 1], u[i - 1]) BY <3>1 DEF Sorted
    <3> QED BY <2>1, <3>1, <3>2
  <2> QED BY <2>2, <2>3
<1>9. s \in SetToSeqs(paths) BY <1>6, <1>7 DEF SetToSeqs
<1>10. DOMAIN s = 1 .. n OBVIOUS
<1> QED BY <1>8, <1>9, <1>10 DEF Sorted

\* Sorting has a result, by a smallest set of paths that had none.
LEMMA SortedExists ==
  ASSUME NEW paths \in SUBSET Nat, IsFiniteSet(paths)
  PROVE  \E s : s \in Sorted(paths)
<1> DEFINE Fails(T) == IsFiniteSet(T) /\ Sorted(T) = {}
           N == {n \in Nat : \E T \in SUBSET Nat : Fails(T) /\ Cardinality(T) = n}
<1> SUFFICES ASSUME Sorted(paths) = {} PROVE FALSE
  OBVIOUS
<1>1. Cardinality(paths) \in N BY FS_CardinalityType
<1>2. PICK m \in N : \A k \in N : m <= k
  <2>1. N \in SUBSET Nat OBVIOUS
  <2> QED BY <1>1, <2>1, Smallest
<1>3. PICK T \in SUBSET Nat : Fails(T) /\ Cardinality(T) = m BY <1>2
<1>4. T # {}
  <2> SUFFICES ASSUME T = {} PROVE FALSE
    OBVIOUS
  <2>1. Cardinality(T) = 0 BY FS_EmptySet
  <2> DEFINE e == [i \in 1 .. 0 |-> 0]
  <2>2. e \in [1 .. Cardinality(T) -> T] /\ DOMAIN e = {} BY <2>1
  <2>3. e \in SetToSeqs(T) BY <2>1, <2>2 DEF SetToSeqs
  <2>4. e \in Sorted(T) BY <2>2, <2>3 DEF Sorted
  <2> QED BY <1>3, <2>4
<1>5. PICK p \in T : \A q \in T : q # p => Before(p, q) BY <1>4, FirstPath
<1>6. /\ m \in Nat /\ IsFiniteSet(T \ {p}) /\ Cardinality(T \ {p}) = m - 1
      /\ Cardinality(T \ {p}) \in Nat
  BY <1>3, FS_CardinalityType, FS_RemoveElement
<1>7. m - 1 \notin N BY <1>2, <1>6
<1>8. PICK u : u \in Sorted(T \ {p})
  <2>1. T \ {p} \in SUBSET Nat OBVIOUS
  <2> QED BY <1>6, <1>7, <2>1
<1> QED BY <1>3, <1>5, <1>8, SortedWithFirst

-----------------------------------------------------------------------------
(* Builds.                                                                 *)

LEMMA FilesFacts ==
  ASSUME NEW r \in Revision, NEW k \in Kinds
  PROVE  Files(r, k) \in SUBSET Nat /\ IsFiniteSet(Files(r, k))
<1>1. Files(r, k) \subseteq Styles \cup Scripts BY DEF Files, Paths
<1>2. IsFiniteSet(Files(r, k)) BY <1>1, SiteAssumption, FS_Subset
<1> QED BY <1>1, <1>2, SiteAssumption

\* A build is reproducible: a revision has one bundle of each kind, in whatever order
\* the directories of build.rs were listed, and so one URL for it.
Reproducible == \A r \in Revision, k \in Kinds : \E b : Bundles(r, k) = {b}

\* So a rebuild of the same revision never takes an asset away from a page.
THEOREM OneBuild == Reproducible
<1> SUFFICES ASSUME NEW r \in Revision, NEW k \in Kinds PROVE \E b : Bundles(r, k) = {b}
  BY DEF Reproducible
<1>1. Files(r, k) \in SUBSET Nat /\ IsFiniteSet(Files(r, k)) BY FilesFacts
<1>2. PICK s : s \in Sorted(Files(r, k)) BY <1>1, SortedExists
<1>3. \A t \in Sorted(Files(r, k)) : t = s BY <1>1, <1>2, SortedOnce
<1>4. Sorted(Files(r, k)) = {s} BY <1>2, <1>3
<1>5. Bundles(r, k) = {Bundle(r, k, s)} BY <1>4 DEF Bundles
<1> QED BY <1>5

\* Two revisions whose bundles of a kind differ have different sources for it.
LEMMA BundleTells ==
  ASSUME NEW q \in Revision, NEW r \in Revision, NEW k \in Kinds,
         NEW b \in Bundles(q, k), NEW c \in Bundles(r, k), Source(q, k) = Source(r, k)
  PROVE  b = c
<1>1. Tools[q][k] = Tools[r][k] /\ \A p \in Paths(k) : Text[q][p] = Text[r][p]
  <2> DEFINE texts(x) == [p \in Paths(k) |-> Text[x][p]]
  <2>1. Source(q, k).tools = Source(r, k).tools /\ Source(q, k).text = Source(r, k).text
    OBVIOUS
  <2>2. Tools[q][k] = Tools[r][k] /\ texts(q) = texts(r) BY <2>1 DEF Source
  <2>3. ASSUME NEW p \in Paths(k) PROVE Text[q][p] = Text[r][p]
    <3>1. texts(q)[p] = texts(r)[p] BY <2>2
    <3> QED BY <3>1
  <2> QED BY <2>2, <2>3
<1>2. Files(q, k) = Files(r, k) BY <1>1 DEF Files
<1>3. Files(q, k) \in SUBSET Nat /\ IsFiniteSet(Files(q, k)) BY FilesFacts
<1>4. PICK s \in Sorted(Files(q, k)) : b = Bundle(q, k, s) BY DEF Bundles
<1>5. PICK t \in Sorted(Files(r, k)) : c = Bundle(r, k, t) BY DEF Bundles
<1>6. s = t BY <1>2, <1>3, SortedOnce
<1>7. \A i \in DOMAIN s : s[i] \in Paths(k)
  <2>1. s \in SetToSeqs(Files(q, k)) BY DEF Sorted
  <2>2. \A i \in DOMAIN s : s[i] \in Files(q, k) BY <1>3, <2>1, ListingFacts
  <2> QED BY <2>2 DEF Files
<1>8. [i \in DOMAIN s |-> Text[q][s[i]]] = [i \in DOMAIN s |-> Text[r][s[i]]] BY <1>1, <1>7
<1>9. Bundle(q, k, s) = Bundle(r, k, s) BY <1>1, <1>8 DEF Bundle
<1> QED BY <1>4, <1>5, <1>6, <1>9

\* The shared styles come first.
LEMMA BaseFirst ==
  ASSUME NEW r \in Revision, NEW b \in Bundles(r, "css")
  PROVE  \E s \in SetToSeqs(Files(r, "css")) : s[1] = Base /\ b = Bundle(r, "css", s)
<1> DEFINE F == Files(r, "css")
           n == Cardinality(F)
<1>1. "css" \in Kinds /\ Base \in F BY SiteAssumption DEF Kinds, Files, Paths
<1>2. F \in SUBSET Nat /\ IsFiniteSet(F) BY <1>1, FilesFacts
<1>3. PICK s \in Sorted(F) : b = Bundle(r, "css", s) BY DEF Bundles
<1>4. s \in SetToSeqs(F) BY DEF Sorted
<1>5. /\ n \in Nat /\ DOMAIN s = 1 .. n
      /\ \A i \in 1 .. n : s[i] \in F
      /\ \A p \in F : \E i \in 1 .. n : s[i] = p
  BY <1>2, <1>4, ListingFacts
<1>6. PICK i \in 1 .. n : s[i] = Base BY <1>1, <1>5
<1>7. 1 \in 1 .. n BY <1>5, <1>6
<1>8. s[1] = Base
  <2> SUFFICES ASSUME s[1] # Base PROVE FALSE
    OBVIOUS
  <2>1. 1 < i BY <1>5, <1>6
  <2>2. ~Before(Base, s[1]) BY <1>5, <1>6, <1>7, <2>1 DEF Sorted
  <2> QED BY <2>2 DEF Before
<1> QED BY <1>3, <1>4, <1>8

\* An image holds the bundles of its own revision.
LEMMA ImageFacts ==
  ASSUME NEW m \in Images, NEW k \in Kinds
  PROVE  m.revision \in Revision /\ m.asset[k] \in Bundles(m.revision, k) /\ m.asset[k] \in Bytes
<1>1. PICK r \in Revision : \E c \in Bundles(r, "css"), j \in Bundles(r, "js") :
        m = [revision |-> r, asset |-> [l \in Kinds |-> IF l = "css" THEN c ELSE j]]
  BY DEF Images
<1> PICK c \in Bundles(r, "css"), j \in Bundles(r, "js") :
        m = [revision |-> r, asset |-> [l \in Kinds |-> IF l = "css" THEN c ELSE j]]
  BY <1>1
<1>2. m.revision = r /\ m.asset[k] = IF k = "css" THEN c ELSE j BY <1>1
<1>3. m.asset[k] \in Bundles(r, k) BY <1>2 DEF Kinds
<1> QED BY <1>2, <1>3 DEF Bytes

-----------------------------------------------------------------------------
(* The browser.                                                            *)

\* What a page runs is its own.
OwnInv == \A k \in Kinds :
  got[k].is = "loaded" => page # None /\ got[k].bytes = page.asset[k]

SiteInv == TypeOK /\ OwnInv

\* Every asset of a new page is still to be loaded.
LEMMA LoadingFacts ==
  /\ Loading \in [Kinds -> [is : {"loading", "loaded", "notfound", "lost"}, bytes : Bytes \cup {None}]]
  /\ \A k \in Kinds : Loading[k].is = "loading"
BY DEF Loading

\* What an asset becomes touches no other asset.
LEMMA BecomesFacts ==
  ASSUME TypeOK, NEW k \in Kinds, NEW is \in {"loading", "loaded", "notfound", "lost"},
         NEW bytes \in Bytes \cup {None}, Becomes(k, is, bytes)
  PROVE  /\ got' \in [Kinds -> [is : {"loading", "loaded", "notfound", "lost"}, bytes : Bytes \cup {None}]]
         /\ got'[k].is = is /\ got'[k].bytes = bytes
         /\ \A l \in Kinds : l # k => got'[l] = got[l]
BY DEF Becomes, TypeOK

LEMMA SiteInit == Init => SiteInv
<1> SUFFICES ASSUME Init PROVE SiteInv
  OBVIOUS
<1>1. TypeOK BY LoadingFacts, SiteAssumption DEF Init, TypeOK
<1>2. OwnInv BY LoadingFacts DEF Init, OwnInv
<1> QED BY <1>1, <1>2 DEF SiteInv

\* A fetch ends with the page's own bytes, or with none.
LEMMA FetchStep ==
  ASSUME SiteInv, NEW k \in Kinds, Fetch(k)
  PROVE  SiteInv'
<1>1. page \in Images /\ page # None BY DEF Fetch, FromCache, FromServer, Lost, Wants, SiteInv, TypeOK
<1>2. page.asset[k] \in Bytes BY <1>1, ImageFacts
<1>3. UNCHANGED page BY DEF Fetch, FromCache, FromServer, Lost
<1>4. ASSUME Becomes(k, "loaded", page.asset[k]), UNCHANGED <<served, events>>,
             \A e \in cache' : e \in cache \/ e = [url |-> Link(k), bytes |-> page.asset[k]]
      PROVE  SiteInv'
  <2>1. /\ got' \in [Kinds -> [is : {"loading", "loaded", "notfound", "lost"}, bytes : Bytes \cup {None}]]
        /\ got'[k].is = "loaded" /\ got'[k].bytes = page.asset[k]
        /\ \A l \in Kinds : l # k => got'[l] = got[l]
    BY <1>2, <1>4, BecomesFacts DEF SiteInv
  <2>2. OwnInv' BY <1>1, <1>3, <2>1 DEF OwnInv, SiteInv
  <2>3. \A e \in cache' : e.bytes \in Bytes /\ \E l \in Kinds : e.url = Url(l, e.bytes)
    BY <1>2, <1>4 DEF SiteInv, TypeOK, Link
  <2>4. TypeOK' BY <1>3, <1>4, <2>1, <2>3 DEF SiteInv, TypeOK
  <2> QED BY <2>2, <2>4 DEF SiteInv
<1>5. ASSUME NEW is \in {"notfound", "lost"}, Becomes(k, is, None), UNCHANGED <<served, cache>>,
             events' \in 0..MaxEvents
      PROVE  SiteInv'
  <2>1. /\ got' \in [Kinds -> [is : {"loading", "loaded", "notfound", "lost"}, bytes : Bytes \cup {None}]]
        /\ got'[k].is = is
        /\ \A l \in Kinds : l # k => got'[l] = got[l]
    <3>1. TypeOK /\ is \in {"loading", "loaded", "notfound", "lost"}
      BY DEF SiteInv
    <3> QED BY <1>5, <3>1, BecomesFacts
  <2>2. OwnInv' BY <1>3, <1>5, <2>1 DEF OwnInv, SiteInv
  <2>3. TypeOK' BY <1>3, <1>5, <2>1 DEF SiteInv, TypeOK
  <2> QED BY <2>2, <2>3 DEF SiteInv
<1>6. CASE FromCache(k)
  <2>1. PICK e \in cache : e.url = Link(k) /\ Becomes(k, "loaded", e.bytes)
    BY <1>6 DEF FromCache
  <2>2. PICK l \in Kinds : e.url = Url(l, e.bytes) BY DEF SiteInv, TypeOK
  <2>3. <<l, e.bytes>> = <<k, page.asset[k]>> BY <2>1, <2>2 DEF Link, Url
  <2>4. e.bytes = page.asset[k] BY <2>3
  <2> QED BY <1>4, <1>6, <2>1, <2>4 DEF FromCache
<1>7. CASE FromServer(k) /\ Serves(k, Link(k))
  <2>1. <<k, page.asset[k]>> = <<k, served.asset[k]>> BY <1>7 DEF Serves, Link, Url
  <2>2. page.asset[k] = served.asset[k] BY <2>1
  <2> QED BY <1>4, <1>7, <2>2 DEF FromServer
<1>8. CASE FromServer(k) /\ ~Serves(k, Link(k))
  BY <1>5, <1>8 DEF FromServer, SiteInv, TypeOK
<1>9. CASE Lost(k)
  <2>1. events' \in 0..MaxEvents BY <1>9, SiteAssumption DEF Lost, Event, SiteInv, TypeOK
  <2> QED BY <1>5, <1>9, <2>1 DEF Lost
<1> QED BY <1>6, <1>7, <1>8, <1>9 DEF Fetch

LEMMA SiteStep == SiteInv /\ [Next]_vars => SiteInv'
<1> SUFFICES ASSUME SiteInv, [Next]_vars PROVE SiteInv'
  OBVIOUS
<1> USE DEF SiteInv, TypeOK, OwnInv
<1>1. Event => events' \in 0..MaxEvents BY SiteAssumption DEF Event
<1>2. CASE Stop BY <1>1, <1>2 DEF Stop
<1>3. CASE Start BY <1>3 DEF Start
<1>4. CASE Load BY <1>4, LoadingFacts DEF Load
<1>5. CASE Leave BY <1>1, <1>5, LoadingFacts DEF Leave
<1>6. CASE Evict
  <2>1. cache' \subseteq cache BY <1>6 DEF Evict
  <2> QED BY <1>1, <1>6, <2>1 DEF Evict
<1>7. CASE \E k \in Kinds : Fetch(k) BY <1>7, FetchStep
<1>8. CASE UNCHANGED vars BY <1>8 DEF vars
<1> QED BY <1>2, <1>3, <1>4, <1>5, <1>6, <1>7, <1>8 DEF Next

LEMMA SiteInvAlways == Spec => []SiteInv
BY SiteInit, SiteStep, PTL DEF Spec

-----------------------------------------------------------------------------
(* The properties.                                                         *)

\* Type correctness; the cache never has a URL for something else.
THEOREM TypeCorrect == Spec => []TypeOK
<1>1. SiteInv => TypeOK BY DEF SiteInv
<1> QED BY <1>1, SiteInvAlways, PTL

\* A page runs the styles and scripts it was rendered with, the shared styles first.
THEOREM OwnAssets == Spec => []NeverMixed
<1>1. SiteInv => NeverMixed
  <2> SUFFICES ASSUME SiteInv, NEW k \in Kinds, got[k].is = "loaded"
               PROVE  /\ got[k].bytes = page.asset[k]
                      /\ k = "css" => \E s \in SetToSeqs(Files(page.revision, k)) :
                           s[1] = Base /\ got[k].bytes = Bundle(page.revision, k, s)
    BY DEF NeverMixed
  <2>1. page \in Images /\ got[k].bytes = page.asset[k] BY DEF SiteInv, TypeOK, OwnInv
  <2>2. page.revision \in Revision /\ page.asset[k] \in Bundles(page.revision, k)
    BY <2>1, ImageFacts
  <2>3. ASSUME k = "css"
        PROVE  \E s \in SetToSeqs(Files(page.revision, k)) :
                 s[1] = Base /\ got[k].bytes = Bundle(page.revision, k, s)
    BY <2>1, <2>2, <2>3, BaseFirst
  <2> QED BY <2>1, <2>3
<1> QED BY <1>1, SiteInvAlways, PTL

\* An asset is gone only when the revision that serves has another source for it.
THEOREM GoneForAReason == Spec => GoneOnlyIfChanged
<1> DEFINE Gone(k) == got[k].is = "loading" /\ got'[k].is = "notfound" =>
                        Source(served.revision, k) # Source(page.revision, k)
<1>1. ASSUME SiteInv, [Next]_vars, NEW k \in Kinds, got[k].is = "loading", got'[k].is = "notfound"
      PROVE  Source(served.revision, k) # Source(page.revision, k)
  <2>1. ~(Stop \/ Start \/ Load \/ Leave \/ Evict \/ UNCHANGED vars)
    BY <1>1, LoadingFacts DEF Stop, Start, Load, Leave, Evict, vars
  <2>2. PICK l \in Kinds : Fetch(l) BY <1>1, <2>1 DEF Next
  <2>3. got \in [Kinds -> [is : {"loading", "loaded", "notfound", "lost"}, bytes : Bytes \cup {None}]]
    BY <1>1 DEF SiteInv, TypeOK
  <2>4. ASSUME NEW is, NEW bytes, Becomes(l, is, bytes) PROVE l = k /\ is = "notfound"
    <3>1. got' = [got EXCEPT ![l] = [is |-> is, bytes |-> bytes]] BY <2>4 DEF Becomes
    <3>2. l = k BY <1>1, <2>3, <3>1
    <3>3. got'[k] = [is |-> is, bytes |-> bytes] BY <2>3, <3>1, <3>2
    <3> QED BY <1>1, <3>2, <3>3
  <2>5. FromServer(l) /\ ~Serves(l, Link(l)) /\ l = k
    <3>1. ~FromCache(l) /\ ~Lost(l) BY <2>4 DEF FromCache, Lost
    <3>2. FromServer(l) BY <2>2, <3>1 DEF Fetch
    <3>3. CASE Serves(l, Link(l))
      <4>1. Becomes(l, "loaded", served.asset[l]) BY <3>2, <3>3 DEF FromServer
      <4> QED BY <2>4, <4>1
    <3>4. CASE ~Serves(l, Link(l))
      <4>1. Becomes(l, "notfound", None) BY <3>2, <3>4 DEF FromServer
      <4> QED BY <2>4, <3>2, <3>4, <4>1
    <3> QED BY <3>3, <3>4
  <2>6. page \in Images /\ served \in Images
    BY <1>1, <2>5 DEF FromServer, Wants, SiteInv, TypeOK
  <2>7. page.asset[k] # served.asset[k] BY <2>5 DEF Serves, Link
  <2>8. /\ page.revision \in Revision /\ page.asset[k] \in Bundles(page.revision, k)
        /\ served.revision \in Revision /\ served.asset[k] \in Bundles(served.revision, k)
    BY <2>6, ImageFacts
  <2> QED BY <2>7, <2>8, BundleTells
<1>2. SiteInv /\ [Next]_vars => [\A k \in Kinds : Gone(k)]_vars BY <1>1
<1> QED BY <1>2, SiteInvAlways, PTL DEF Spec, GoneOnlyIfChanged
=============================================================================
