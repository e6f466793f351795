-------------------------- MODULE Decisions_proofs --------------------------
(***************************************************************************)
(* What the program decides by pure functions.  First BackupContract: which*)
(* object is the latest, what a name or a configuration selects and what   *)
(* retention leaves, for backends and pages of any size.  FoldLeft and     *)
(* Listing are defined by recursion and by CHOOSE: their equations are     *)
(* derived from the existence of a loop and of a listing.  Then            *)
(* Configuration, for any number of settings, any texts, host lists and    *)
(* URIs; its properties hold of every value of settings and need no        *)
(* inductive invariant.                                                    *)
(***************************************************************************)
EXTENDS BackupContract, Configuration, SequenceTheorems, FiniteSetTheorems,
        WellFoundedInduction, TLAPS

(* An object as a listing shows it.                                        *)
Object == [name : Name, modified : Nat \ {0}]

LaterThan(a, b) ==
  a.modified > b.modified \/ (a.modified = b.modified /\ NameBefore(a.name, b.name))

(* r is the latest backup of a set of objects, or there is none.           *)
IsLatest(r, objs) ==
  IF \A c \in objs : ~IsEligible(c.name) THEN r = None
  ELSE /\ r \in objs /\ IsEligible(r.name)
       /\ \A c \in objs : IsEligible(c.name) => c = r \/ LaterThan(r, c)

-----------------------------------------------------------------------------
(* The order on objects. *)

(* An object has a time; its name is made of ranks.                        *)
LEMMA ObjectFields ==
  ASSUME NEW a \in Object
  PROVE  /\ a.modified \in Nat /\ a.modified # 0
         /\ a.name.dir \in Nat /\ a.name.leaf \in Nat
         /\ a = [name |-> a.name, modified |-> a.modified]
         /\ a.name = [dir |-> a.name.dir, leaf |-> a.name.leaf]
         /\ a # None
<1>1. a.name \in Name /\ a.modified \in Nat \ {0}
  BY DEF Object
<1>2. a = [name |-> a.name, modified |-> a.modified]
  BY DEF Object
<1>3. a.name.dir \in Nat /\ a.name.leaf \in Nat
  BY <1>1, BackupContractAssumption DEF Name
<1>4. a.name = [dir |-> a.name.dir, leaf |-> a.name.leaf]
  BY <1>1 DEF Name
<1>5. None.modified = 0
  BY DEF None
<1> QED
  BY <1>1, <1>2, <1>3, <1>4, <1>5

(* Of two different objects one is later.                                  *)
LEMMA OneIsLater ==
  ASSUME NEW a \in Object, NEW b \in Object
  PROVE  a = b \/ LaterThan(a, b) \/ LaterThan(b, a)
<1>1. a.name = b.name /\ a.modified = b.modified => a = b
  BY ObjectFields
<1>2. a.name.dir = b.name.dir /\ a.name.leaf = b.name.leaf => a.name = b.name
  BY ObjectFields
<1>3. /\ a.modified \in Nat /\ a.name.dir \in Nat /\ a.name.leaf \in Nat
      /\ b.modified \in Nat /\ b.name.dir \in Nat /\ b.name.leaf \in Nat
  BY ObjectFields
<1> QED
  BY <1>1, <1>2, <1>3 DEF LaterThan, NameBefore

(* Later than a later one is later; of two only one is later.              *)
LEMMA LaterIsOrder ==
  ASSUME NEW a \in Object, NEW b \in Object, NEW c \in Object
  PROVE  /\ LaterThan(a, b) /\ LaterThan(b, c) => LaterThan(a, c)
         /\ ~(LaterThan(a, b) /\ LaterThan(b, a))
<1>1. \A x \in {a, b, c} :
        x.modified \in Nat /\ x.name.dir \in Nat /\ x.name.leaf \in Nat
  BY ObjectFields
<1> QED
  BY <1>1 DEF LaterThan, NameBefore

(* chooseLaterObject returns the later one of two objects.                 *)
LEMMA ChooseLaterIsLater ==
  ASSUME NEW a \in Object, NEW b \in Object
  PROVE  /\ ChooseLater(a, b) \in {a, b}
         /\ ChooseLater(a, b) = a => a = b \/ LaterThan(a, b)
         /\ ChooseLater(a, b) # a => ChooseLater(a, b) = b /\ LaterThan(b, a)
         /\ ChooseLater(None, b) = b
<1>1. a # None
  BY ObjectFields
<1>2. LaterThan(b, a) <=> \/ b.modified > a.modified
                          \/ b.modified = a.modified /\ NameBefore(b.name, a.name)
  BY DEF LaterThan
<1>3. ChooseLater(a, b) = IF LaterThan(b, a) THEN b ELSE a
  BY <1>1, <1>2 DEF ChooseLater
<1> QED
  BY <1>3, OneIsLater, LaterIsOrder DEF ChooseLater

(* There is only one latest.                                               *)
LEMMA LatestIsUnique ==
  ASSUME NEW objs \in SUBSET Object, NEW r, NEW q, IsLatest(r, objs), IsLatest(q, objs)
  PROVE  r = q
  BY LaterIsOrder DEF IsLatest

(* The latest of two sets is the later one of their latest.                *)
LEMMA LatestOfTwo ==
  ASSUME NEW A \in SUBSET Object, NEW B \in SUBSET Object,
         NEW r, NEW q, IsLatest(r, A), IsLatest(q, B)
  PROVE  IsLatest(IF q = None THEN r ELSE ChooseLater(r, q), A \cup B)
<1>1. r = None \/ (r \in Object /\ r # None)
  BY ObjectFields DEF IsLatest
<1>2. q = None \/ (q \in Object /\ q # None)
  BY ObjectFields DEF IsLatest
<1>3. CASE q = None
  <2>1. \A c \in B : ~IsEligible(c.name)
    BY <1>3, ObjectFields DEF IsLatest
  <2> QED
    BY <1>3, <2>1 DEF IsLatest
<1>4. CASE r = None /\ q # None
  <2>1. \A c \in A : ~IsEligible(c.name)
    BY <1>4, ObjectFields DEF IsLatest
  <2>2. ChooseLater(r, q) = q
    BY <1>2, <1>4, ChooseLaterIsLater
  <2> QED
    BY <1>4, <2>1, <2>2 DEF IsLatest
<1>5. CASE r # None /\ q # None
  <2> DEFINE k == ChooseLater(r, q)
  <2>1. /\ r \in A /\ IsEligible(r.name) /\ r \in Object
        /\ \A c \in A : IsEligible(c.name) => c = r \/ LaterThan(r, c)
    BY <1>5 DEF IsLatest
  <2>2. /\ q \in B /\ IsEligible(q.name) /\ q \in Object
        /\ \A c \in B : IsEligible(c.name) => c = q \/ LaterThan(q, c)
    BY <1>5 DEF IsLatest
  <2>3. \/ k = r /\ (r = q \/ LaterThan(r, q))
        \/ k = q /\ LaterThan(q, r)
    BY <2>1, <2>2, ChooseLaterIsLater
  <2> HIDE DEF k
  <2>4. ASSUME NEW c \in A \cup B, IsEligible(c.name)
        PROVE  c = k \/ LaterThan(k, c)
    <3>1. c \in Object
      OBVIOUS
    <3> QED
      BY <2>1, <2>2, <2>3, <2>4, <3>1, LaterIsOrder
  <2>5. IsLatest(k, A \cup B)
    BY <2>1, <2>2, <2>3, <2>4 DEF IsLatest
  <2> QED
    BY <1>5, <2>5 DEF k
<1> QED
  BY <1>3, <1>4, <1>5

(* A single object is the latest of itself, if it is a backup.             *)
LEMMA LatestWithOne ==
  ASSUME NEW A \in SUBSET Object, NEW c \in Object, NEW r, IsLatest(r, A)
  PROVE  IsLatest(ChooseEligible(r, c), A \cup {c})
<1>1. CASE IsEligible(c.name)
  <2>1. IsLatest(c, {c})
    BY <1>1 DEF IsLatest
  <2> QED
    BY <1>1, <2>1, LatestOfTwo, ObjectFields DEF ChooseEligible
<1>2. CASE ~IsEligible(c.name)
  BY <1>2 DEF ChooseEligible, IsLatest
<1> QED
  BY <1>1, <1>2

-----------------------------------------------------------------------------
(* The two loops: over the objects of a page, and over the pages. *)

Step(paged, current, x) ==
  IF paged THEN ChooseFromPage(current, x) ELSE ChooseEligible(current, x)

(* t holds, for every set of places of a sequence, what the loop over them *)
(* makes of nothing.                                                       *)
IsLoop(paged, seq, t) ==
  t = [s \in SUBSET DOMAIN seq |->
         IF s = {} THEN None ELSE Step(paged, t[s \ {Max(s)}], seq[Max(s)])]

Loop(paged, seq) == CHOOSE t : IsLoop(paged, seq, t)

(* A set of numbers that is not empty has a least one.                     *)
LEMMA NatMinimum ==
  ASSUME NEW T \in SUBSET Nat, T # {}
  PROVE  \E x \in T : \A y \in T : x <= y
<1>1. PICK x \in T : \A y \in T : <<y, x>> \notin OpToRel(<, Nat)
  BY NatLessThanWellFounded, WFMin
<1>2. ASSUME NEW y \in T, y < x PROVE FALSE
  <2>1. <<y, x>> \in OpToRel(<, Nat)
    BY <1>2 DEF OpToRel
  <2> QED
    BY <1>1, <2>1
<1> QED
  BY <1>2

(* Some places of a sequence have a last one.                              *)
LEMMA LastPlace ==
  ASSUME NEW n \in Nat, NEW s \in SUBSET (1..n), s # {}
  PROVE  Max(s) \in s
<1> DEFINE Gaps == {n - y : y \in s}
<1>1. \A y \in s : y \in Nat /\ n - y \in Nat
  OBVIOUS
<1>2. Gaps \in SUBSET Nat /\ Gaps # {}
  BY <1>1
<1>3. PICK d \in Gaps : \A e \in Gaps : d <= e
  BY <1>2, NatMinimum
<1>4. PICK x \in s : d = n - x
  OBVIOUS
<1>5. ASSUME NEW y \in s PROVE x >= y
  <2>1. n - x <= n - y
    BY <1>3, <1>4
  <2> QED
    BY <1>1, <2>1
<1> QED
  BY <1>5 DEF Max

(* Without its last place there are fewer.                                 *)
LEMMA OneFewer ==
  ASSUME NEW n \in Nat, NEW s \in SUBSET (1..n)
  PROVE  /\ Cardinality(s) \in Nat /\ Cardinality(s) <= n
         /\ s # {} => /\ s \ {Max(s)} \in SUBSET (1..n)
                      /\ Cardinality(s \ {Max(s)}) = Cardinality(s) - 1
         /\ Cardinality(s) = 0 => s = {}
<1>1. IsFiniteSet(1..n) /\ Cardinality(1..n) = n
  BY FS_Interval
<1>2. IsFiniteSet(s) /\ Cardinality(s) <= n
  BY <1>1, FS_Subset
<1> QED
  BY <1>2, LastPlace, FS_RemoveElement, FS_CardinalityType, FS_EmptySet

(* Up to a number of places, t is what the loop makes.                     *)
LoopUpTo(paged, seq, k, t) ==
  t = [s \in {r \in SUBSET DOMAIN seq : Cardinality(r) <= k} |->
         IF s = {} THEN None ELSE Step(paged, t[s \ {Max(s)}], seq[Max(s)])]

(* A loop over finitely many places has a result.                          *)
LEMMA LoopExists ==
  ASSUME NEW paged, NEW seq, NEW n \in Nat, DOMAIN seq = 1..n
  PROVE  \E t : IsLoop(paged, seq, t)
<1> DEFINE D == DOMAIN seq
           Upto(k) == {r \in SUBSET D : Cardinality(r) <= k}
           Missing == {k \in Nat : ~\E t : LoopUpTo(paged, seq, k, t)}
<1>0. ASSUME NEW s \in SUBSET D
      PROVE  /\ Cardinality(s) \in Nat /\ Cardinality(s) <= n
             /\ s # {} => /\ s \ {Max(s)} \in SUBSET D
                          /\ Cardinality(s \ {Max(s)}) = Cardinality(s) - 1
             /\ Cardinality(s) = 0 => s = {}
  <2>1. s \in SUBSET (1..n)
    OBVIOUS
  <2> QED
    BY <2>1, OneFewer
<1>1. LoopUpTo(paged, seq, 0, [s \in Upto(0) |-> None])
  <2>1. ASSUME NEW s \in Upto(0) PROVE s = {}
    <3>1. s \in SUBSET D /\ Cardinality(s) <= 0
      OBVIOUS
    <3>2. Cardinality(s) \in Nat /\ (Cardinality(s) = 0 => s = {})
      BY <1>0, <3>1
    <3> QED
      BY <3>1, <3>2
  <2> QED
    BY <2>1 DEF LoopUpTo
<1>2. ASSUME NEW k \in Nat, NEW t, LoopUpTo(paged, seq, k, t)
      PROVE  \E u : LoopUpTo(paged, seq, k + 1, u)
  <2> DEFINE u == [s \in Upto(k + 1) |->
                     IF s = {} THEN None ELSE Step(paged, t[s \ {Max(s)}], seq[Max(s)])]
  <2>1. ASSUME NEW s \in Upto(k + 1), s # {}
        PROVE  s \ {Max(s)} \in Upto(k) /\ s \ {Max(s)} \in Upto(k + 1)
    <3>1. s \in SUBSET D /\ Cardinality(s) <= k + 1
      OBVIOUS
    <3>2. /\ Cardinality(s) \in Nat /\ s \ {Max(s)} \in SUBSET D
          /\ Cardinality(s \ {Max(s)}) = Cardinality(s) - 1
      BY <1>0, <2>1, <3>1
    <3> QED
      BY <3>1, <3>2
  <2>2. ASSUME NEW s \in Upto(k) PROVE u[s] = t[s] /\ s \in Upto(k + 1)
    <3>1. s \in Upto(k + 1)
      <4>1. s \in SUBSET D /\ Cardinality(s) <= k
        OBVIOUS
      <4>2. Cardinality(s) \in Nat
        BY <1>0, <4>1
      <4> QED
        BY <4>1, <4>2
    <3>2. t[s] = IF s = {} THEN None ELSE Step(paged, t[s \ {Max(s)}], seq[Max(s)])
      BY <1>2 DEF LoopUpTo
    <3> QED
      BY <3>1, <3>2
  <2>3. ASSUME NEW s \in Upto(k + 1)
        PROVE  u[s] = IF s = {} THEN None ELSE Step(paged, u[s \ {Max(s)}], seq[Max(s)])
    BY <2>1, <2>2
  <2>4. LoopUpTo(paged, seq, k + 1, u)
    BY <2>3 DEF LoopUpTo
  <2> QED
    BY <2>4
<1>3. Missing = {}
  <2> SUFFICES ASSUME Missing # {} PROVE FALSE
    OBVIOUS
  <2>1. PICK k \in Missing : \A m \in Missing : k <= m
    BY NatMinimum
  <2>2. k # 0
    BY <1>1
  <2>3. k - 1 \in Nat /\ k - 1 \notin Missing
    BY <2>1, <2>2
  <2>4. \E t : LoopUpTo(paged, seq, k - 1, t)
    BY <2>3
  <2> QED
    BY <1>2, <2>3, <2>4
<1>4. PICK t : LoopUpTo(paged, seq, n, t)
  BY <1>3
<1>5. Upto(n) = SUBSET D
  BY <1>0
<1> QED
  BY <1>4, <1>5 DEF LoopUpTo, IsLoop

(* The loop over some places is the one over all but the last, and a step. *)
LEMMA LoopEquation ==
  ASSUME NEW paged, NEW seq, NEW n \in Nat, DOMAIN seq = 1..n, NEW s \in SUBSET DOMAIN seq
  PROVE  Loop(paged, seq)[s] =
           IF s = {} THEN None
           ELSE Step(paged, Loop(paged, seq)[s \ {Max(s)}], seq[Max(s)])
<1>1. IsLoop(paged, seq, Loop(paged, seq))
  BY LoopExists DEF Loop
<1> QED
  BY <1>1 DEF IsLoop

(* FoldLeft is this loop.                                                  *)
LEMMA LatestEligibleIsLoop ==
  ASSUME NEW seq
  PROVE  LatestEligible(seq) = Loop(FALSE, seq)[DOMAIN seq]
  BY DEF LatestEligible, FoldLeft, MapThenFoldSet, Loop, IsLoop, Step

LEMMA LatestOfPagesIsLoop ==
  ASSUME NEW pages
  PROVE  FoldLeft(ChooseFromPage, None, pages) = Loop(TRUE, pages)[DOMAIN pages]
  BY DEF FoldLeft, MapThenFoldSet, Loop, IsLoop, Step

(* Of some sets of places one has no places, or lacks a set with one fewer.*)
LEMMA FirstSet ==
  ASSUME NEW n \in Nat, NEW S \in SUBSET (SUBSET (1..n)), S # {}
  PROVE  \E s \in S : \/ s = {}
                     \/ /\ Max(s) \in s /\ s \ {Max(s)} \in SUBSET (1..n)
                        /\ s \ {Max(s)} \notin S
<1> DEFINE Sizes == {Cardinality(s) : s \in S}
<1>0. \A s \in S : Cardinality(s) \in Nat
  BY OneFewer
<1>1. Sizes \in SUBSET Nat /\ Sizes # {}
  BY <1>0
<1>2. PICK k \in Sizes : \A m \in Sizes : k <= m
  BY <1>1, NatMinimum
<1>3. PICK s \in S : k = Cardinality(s)
  OBVIOUS
<1>4. CASE s # {}
  <2>1. /\ Cardinality(s) \in Nat /\ s \ {Max(s)} \in SUBSET (1..n)
        /\ Cardinality(s \ {Max(s)}) = Cardinality(s) - 1 /\ Max(s) \in s
    BY <1>4, OneFewer, LastPlace
  <2>2. s \ {Max(s)} \in S => Cardinality(s) <= Cardinality(s \ {Max(s)})
    BY <1>2, <1>3
  <2>3. s \ {Max(s)} \notin S
    BY <2>1, <2>2
  <2> QED
    BY <2>1, <2>3
<1> QED
  BY <1>4

(* latestEligibleObject returns the latest of the backups it is given.     *)
LEMMA LatestEligibleIsLatest ==
  ASSUME NEW seq \in Seq(Object)
  PROVE  IsLatest(LatestEligible(seq), Range(seq))
<1> DEFINE D == 1..Len(seq)
           At(s) == {seq[i] : i \in s}
           L(s) == Loop(FALSE, seq)[s]
           Bad == {s \in SUBSET D : ~IsLatest(L(s), At(s))}
<1>1. DOMAIN seq = D /\ Len(seq) \in Nat /\ \A i \in D : seq[i] \in Object
  OBVIOUS
<1>2. ASSUME NEW s \in SUBSET D
      PROVE  L(s) = IF s = {} THEN None
                    ELSE ChooseEligible(L(s \ {Max(s)}), seq[Max(s)])
  <2>1. s \in SUBSET DOMAIN seq
    BY <1>1
  <2>2. Loop(FALSE, seq)[s] =
          IF s = {} THEN None ELSE Step(FALSE, Loop(FALSE, seq)[s \ {Max(s)}], seq[Max(s)])
    BY <1>1, <2>1, LoopEquation
  <2> QED
    BY <2>2 DEF Step
<1>3. Bad = {}
  <2> SUFFICES ASSUME Bad # {} PROVE FALSE
    OBVIOUS
  <2>1. PICK s \in Bad : \/ s = {}
                        \/ /\ Max(s) \in s /\ s \ {Max(s)} \in SUBSET D
                           /\ s \ {Max(s)} \notin Bad
    <3>1. Bad \in SUBSET (SUBSET D)
      OBVIOUS
    <3> HIDE DEF Bad
    <3> QED
      BY <1>1, <3>1, FirstSet
  <2>2. CASE s = {}
    <3>1. L(s) = None /\ At(s) = {}
      BY <1>2, <2>2
    <3>2. IsLatest(None, {})
      BY DEF IsLatest
    <3> QED
      BY <2>1, <3>1, <3>2
  <2>3. CASE s # {}
    <3> DEFINE m == Max(s)
               r == s \ {m}
    <3>1. m \in s /\ r \in SUBSET D /\ r \notin Bad
      BY <2>1, <2>3
    <3>2. L(s) = ChooseEligible(L(r), seq[m])
      BY <1>2, <2>3
    <3> HIDE DEF m, L
    <3>3. IsLatest(L(r), At(r)) /\ At(r) \in SUBSET Object /\ seq[m] \in Object
      BY <1>1, <3>1
    <3>4. At(s) = At(r) \cup {seq[m]}
      BY <3>1
    <3>5. IsLatest(L(s), At(s))
      BY <3>2, <3>3, <3>4, LatestWithOne
    <3> QED
      BY <2>1, <3>5
  <2> QED
    BY <2>2, <2>3
<1>4. D \in SUBSET D /\ At(D) = Range(seq) /\ L(D) = LatestEligible(seq)
  BY <1>1, LatestEligibleIsLoop DEF Range
<1>5. IsLatest(L(D), At(D))
  BY <1>3, <1>4
<1> QED
  BY <1>4, <1>5

(* The latest of the pages is the latest of what they show.                *)
LEMMA LatestOfPagesIsLatest ==
  ASSUME NEW pages \in Seq(Seq(Object))
  PROVE  IsLatest(FoldLeft(ChooseFromPage, None, pages),
                  UNION {Range(pages[i]) : i \in DOMAIN pages})
<1> DEFINE D == 1..Len(pages)
           At(s) == UNION {Range(pages[i]) : i \in s}
           L(s) == Loop(TRUE, pages)[s]
           Bad == {s \in SUBSET D : ~IsLatest(L(s), At(s))}
<1>1. DOMAIN pages = D /\ Len(pages) \in Nat /\ \A i \in D : pages[i] \in Seq(Object)
  OBVIOUS
<1>2. ASSUME NEW s \in SUBSET D
      PROVE  L(s) = IF s = {} THEN None
                    ELSE ChooseFromPage(L(s \ {Max(s)}), pages[Max(s)])
  <2>1. s \in SUBSET DOMAIN pages
    BY <1>1
  <2>2. Loop(TRUE, pages)[s] =
          IF s = {} THEN None ELSE Step(TRUE, Loop(TRUE, pages)[s \ {Max(s)}], pages[Max(s)])
    BY <1>1, <2>1, LoopEquation
  <2> QED
    BY <2>2 DEF Step
<1>3. Bad = {}
  <2> SUFFICES ASSUME Bad # {} PROVE FALSE
    OBVIOUS
  <2>1. PICK s \in Bad : \/ s = {}
                        \/ /\ Max(s) \in s /\ s \ {Max(s)} \in SUBSET D
                           /\ s \ {Max(s)} \notin Bad
    <3>1. Bad \in SUBSET (SUBSET D)
      OBVIOUS
    <3> HIDE DEF Bad
    <3> QED
      BY <1>1, <3>1, FirstSet
  <2>2. CASE s = {}
    <3>1. L(s) = None /\ At(s) = {}
      BY <1>2, <2>2
    <3>2. IsLatest(None, {})
      BY DEF IsLatest
    <3> QED
      BY <2>1, <3>1, <3>2
  <2>3. CASE s # {}
    <3> DEFINE m == Max(s)
               r == s \ {m}
               p == LatestEligible(pages[m])
    <3>1. m \in s /\ r \in SUBSET D /\ r \notin Bad
      BY <2>1, <2>3
    <3>2. L(s) = IF p = None THEN L(r) ELSE ChooseLater(L(r), p)
      BY <1>2, <2>3 DEF ChooseFromPage
    <3> HIDE DEF m, L
    <3>3. ASSUME NEW i \in D PROVE Range(pages[i]) \in SUBSET Object
      BY <1>1 DEF Range
    <3>4. IsLatest(L(r), At(r)) /\ At(r) \in SUBSET Object
      BY <3>1, <3>3
    <3>5. IsLatest(p, Range(pages[m])) /\ Range(pages[m]) \in SUBSET Object
      BY <1>1, <3>1, <3>3, LatestEligibleIsLatest
    <3> HIDE DEF p
    <3>6. At(s) = At(r) \cup Range(pages[m])
      BY <3>1
    <3> HIDE DEF At, r
    <3>7. IsLatest(L(s), At(s))
      BY <3>2, <3>4, <3>5, <3>6, LatestOfTwo
    <3> QED
      BY <2>1, <3>7
  <2> QED
    BY <2>2, <2>3
<1>4. D \in SUBSET D /\ At(D) = UNION {Range(pages[i]) : i \in DOMAIN pages}
      /\ L(D) = FoldLeft(ChooseFromPage, None, pages)
  BY <1>1, LatestOfPagesIsLoop
<1>5. IsLatest(L(D), At(D))
  BY <1>3, <1>4
<1> QED
  BY <1>4, <1>5

-----------------------------------------------------------------------------
(* Listings. *)

(* What can be on a backend.                                               *)
IsContent(content) ==
  /\ DOMAIN content \in SUBSET Name /\ IsFiniteSet(DOMAIN content)
  /\ \A n \in DOMAIN content : content[n] \in Nat \ {0}

(* Objects of a backend have different names.                              *)
LEMMA ScopedObjects ==
  ASSUME NEW content, IsContent(content)
  PROVE  /\ Scoped(content) \in SUBSET Object /\ IsFiniteSet(Scoped(content))
         /\ \A a, b \in Scoped(content) : a.name = b.name => a = b
<1> DEFINE M == {m \in DOMAIN content : m.dir \in {Prefix} \cup Below}
           f == [n \in M |-> [name |-> n, modified |-> content[n]]]
<1>1. Scoped(content) \in SUBSET Object
  BY DEF Scoped, Object, IsContent
<1>2. f \in Surjection(M, Scoped(content))
  BY DEF Surjection, Scoped
<1>3. IsFiniteSet(M)
  BY FS_Subset DEF IsContent
<1>4. IsFiniteSet(Scoped(content))
  BY <1>2, <1>3, FS_Surjection
<1> QED
  BY <1>1, <1>4 DEF Scoped

(* Names are ordered.                                                      *)
LEMMA NamesAreOrdered ==
  ASSUME NEW a \in Object, NEW b \in Object, NEW c \in Object
  PROVE  /\ ~NameBefore(a.name, a.name)
         /\ NameBefore(a.name, b.name) => ~NameBefore(b.name, a.name)
         /\ NameBefore(a.name, b.name) /\ NameBefore(b.name, c.name)
              => NameBefore(a.name, c.name)
         /\ a.name = b.name \/ NameBefore(a.name, b.name) \/ NameBefore(b.name, a.name)
<1>1. \A x \in {a, b, c} : x.name.dir \in Nat /\ x.name.leaf \in Nat
  BY ObjectFields
<1>2. a.name.dir = b.name.dir /\ a.name.leaf = b.name.leaf => a.name = b.name
  BY ObjectFields
<1> QED
  BY <1>1, <1>2 DEF NameBefore

IsListing(seq, objs) ==
  /\ seq \in [1..Cardinality(objs) -> objs]
  /\ \A i, j \in DOMAIN seq : i < j => NameBefore(seq[i].name, seq[j].name)

(* Objects with different names can be listed by name: each in the place   *)
(* that the number of those before it gives it.                            *)
LEMMA ListingExists ==
  ASSUME NEW objs \in SUBSET Object, IsFiniteSet(objs),
         \A a, b \in objs : a.name = b.name => a = b
  PROVE  \E seq : IsListing(seq, objs)
<1> DEFINE N == Cardinality(objs)
           Earlier(c) == {d \in objs : NameBefore(d.name, c.name)}
           rank == [c \in objs |-> Cardinality(Earlier(c)) + 1]
<1>1. N \in Nat /\ IsFiniteSet(1..N) /\ Cardinality(1..N) = N
  BY FS_CardinalityType, FS_Interval
<1>2. ASSUME NEW c \in objs
      PROVE  /\ IsFiniteSet(Earlier(c)) /\ Cardinality(Earlier(c)) \in Nat
             /\ Cardinality(Earlier(c)) < N
  <2>1. c \notin Earlier(c) /\ Earlier(c) \in SUBSET objs
    BY NamesAreOrdered
  <2>2. Earlier(c) # objs
    BY <2>1
  <2> HIDE DEF Earlier
  <2> QED
    BY <1>1, <2>1, <2>2, FS_Subset, FS_CardinalityType
<1>3. ASSUME NEW c \in objs, NEW d \in objs, NameBefore(c.name, d.name)
      PROVE  rank[c] < rank[d]
  <2>1. Earlier(c) \in SUBSET Earlier(d)
    BY <1>3, NamesAreOrdered
  <2>2. c \in Earlier(d) /\ c \notin Earlier(c)
    BY <1>3, NamesAreOrdered
  <2>3. Cardinality(Earlier(c)) < Cardinality(Earlier(d))
    <3>1. Earlier(c) # Earlier(d)
      BY <2>2
    <3>2. /\ IsFiniteSet(Earlier(d)) /\ Cardinality(Earlier(d)) \in Nat
          /\ Cardinality(Earlier(c)) \in Nat
      BY <1>2
    <3> HIDE DEF Earlier
    <3> QED
      BY <2>1, <3>1, <3>2, FS_Subset
  <2>4. Cardinality(Earlier(c)) \in Nat /\ Cardinality(Earlier(d)) \in Nat
    BY <1>2
  <2> HIDE DEF Earlier
  <2> QED
    BY <2>3, <2>4
<1>4. rank \in [objs -> 1..N]
  <2>1. ASSUME NEW c \in objs PROVE Cardinality(Earlier(c)) + 1 \in 1..N
    <3>1. Cardinality(Earlier(c)) \in Nat /\ Cardinality(Earlier(c)) < N
      BY <1>2
    <3> HIDE DEF Earlier, N
    <3> QED
      BY <1>1, <3>1
  <2> QED
    BY <2>1
<1>5. ASSUME NEW c \in objs, NEW d \in objs, c # d
      PROVE  NameBefore(c.name, d.name) \/ NameBefore(d.name, c.name)
  BY <1>5, NamesAreOrdered
<1>6. \A c \in objs : rank[c] \in Nat
  BY <1>1, <1>4
<1> HIDE DEF rank
<1>7. rank \in Injection(objs, 1..N)
  BY <1>3, <1>4, <1>5, <1>6 DEF Injection, IsInjective
<1>8. rank \in Surjection(objs, 1..N)
  BY <1>1, <1>7, FS_Injection
<1> DEFINE seq == [i \in 1..N |-> CHOOSE c \in objs : rank[c] = i]
<1>9. ASSUME NEW i \in 1..N PROVE seq[i] \in objs /\ rank[seq[i]] = i
  <2>1. \E c \in objs : rank[c] = i
    BY <1>8 DEF Surjection
  <2> QED
    BY <2>1
<1>10. ASSUME NEW i \in 1..N, NEW j \in 1..N, i < j
       PROVE  NameBefore(seq[i].name, seq[j].name)
  <2> HIDE DEF seq
  <2>1. rank[seq[i]] < rank[seq[j]] /\ seq[i] # seq[j]
    BY <1>1, <1>9, <1>10
  <2>2. ~(rank[seq[j]] < rank[seq[i]])
    BY <1>6, <1>9, <2>1
  <2> QED
    BY <1>3, <1>5, <1>9, <2>1, <2>2
<1>11. IsListing(seq, objs)
  BY <1>9, <1>10 DEF IsListing
<1> QED
  BY <1>11

(* A listing shows every object under the prefix, and nothing else.        *)
LEMMA ListingIsComplete ==
  ASSUME NEW content, IsContent(content)
  PROVE  /\ Listing(content) \in Seq(Object)
         /\ Range(Listing(content)) = Scoped(content)
<1> DEFINE objs == Scoped(content)
           N == Cardinality(objs)
           seq == Listing(content)
<1>1. /\ objs \in SUBSET Object /\ IsFiniteSet(objs)
      /\ N \in Nat /\ IsFiniteSet(1..N) /\ Cardinality(1..N) = N
  <2>1. objs \in SUBSET Object /\ IsFiniteSet(objs)
    BY ScopedObjects
  <2>2. N \in Nat
    BY <2>1, FS_CardinalityType
  <2>3. IsFiniteSet(1..N) /\ Cardinality(1..N) = N
    BY <2>2, FS_Interval
  <2> QED
    BY <2>1, <2>2, <2>3
<1>2. IsListing(seq, objs)
  <2>1. \E s : IsListing(s, objs)
    BY ScopedObjects, ListingExists
  <2> QED
    BY <2>1 DEF IsListing, Listing
<1> HIDE DEF seq, objs
<1>3. seq \in [1..N -> objs]
  BY <1>2 DEF IsListing
<1>4. seq \in Injection(1..N, objs)
  <2>1. ASSUME NEW i \in 1..N, NEW j \in 1..N, i < j PROVE seq[i] # seq[j]
    BY <1>1, <1>2, <1>3, <2>1, NamesAreOrdered DEF IsListing
  <2>2. ASSUME NEW i \in 1..N, NEW j \in 1..N, i # j PROVE i < j \/ j < i
    BY <1>1, <2>2
  <2> QED
    BY <1>3, <2>1, <2>2 DEF Injection, IsInjective
<1>5. seq \in Surjection(1..N, objs)
  BY <1>1, <1>4, FS_Injection
<1>6. Range(seq) = objs
  BY <1>3, <1>5 DEF Surjection, Range
<1>7. seq \in Seq(Object)
  BY <1>1, <1>3
<1> QED
  BY <1>6, <1>7 DEF seq, objs

(* The places of a listing of length len that page i shows.                *)
LastOnPage(len, size, i) == IF i * size < len THEN i * size ELSE len
OnPage(len, size, i) == ((i - 1) * size + 1)..LastOnPage(len, size, i)

(* A page shows a part of the listing.                                     *)
LEMMA PageShowsPart ==
  ASSUME NEW seq \in Seq(Object), NEW size \in Nat \ {0}, NEW i \in Nat \ {0}
  PROVE  /\ Page(seq, size, i) \in Seq(Object)
         /\ OnPage(Len(seq), size, i) \in SUBSET DOMAIN seq
         /\ Range(Page(seq, size, i)) = {seq[k] : k \in OnPage(Len(seq), size, i)}
<1> DEFINE m == (i - 1) * size + 1
           n == LastOnPage(Len(seq), size, i)
           page == Page(seq, size, i)
<1>1. m \in Nat /\ m >= 1 /\ n \in Nat /\ n <= Len(seq) /\ Len(seq) \in Nat
  BY DEF LastOnPage
<1>2. page = SubSeq(seq, m, n) /\ OnPage(Len(seq), size, i) = m..n
  BY DEF Page, LastOnPage, OnPage
<1> HIDE DEF m, n, page
<1>3. \A k \in m..n : seq[k] \in Object /\ k \in DOMAIN seq
  BY <1>1
<1>4. /\ page \in Seq(Object)
      /\ Len(page) = IF m <= n THEN n - m + 1 ELSE 0
      /\ \A k \in 1..n - m + 1 : page[k] = seq[m + k - 1]
  BY <1>1, <1>2, <1>3, SubSeqProperties
<1>5. DOMAIN page = 1..(n - m + 1)
  BY <1>1, <1>4
<1>6. ASSUME NEW k \in 1..n - m + 1 PROVE m + k - 1 \in m..n
  BY <1>1
<1>7. ASSUME NEW k \in m..n PROVE k - m + 1 \in 1..n - m + 1 /\ m + (k - m + 1) - 1 = k
  BY <1>1
<1>8. ASSUME NEW k \in m..n PROVE page[k - m + 1] = seq[k]
  BY <1>4, <1>7
<1>9. Range(page) = {seq[k] : k \in m..n}
  BY <1>4, <1>5, <1>6, <1>7, <1>8 DEF Range
<1> QED
  BY <1>2, <1>3, <1>4, <1>9 DEF page

(* Every place of a listing is on a page.                                  *)
LEMMA PlaceIsOnPage ==
  ASSUME NEW len \in Nat, NEW size \in Nat \ {0}, NEW j \in 1..len
  PROVE  \E i \in 1..((len + size - 1) \div size) : j \in OnPage(len, size, i)
<1> DEFINE Reaching == {i \in Nat : j <= i * size}
<1>1. j <= j * size /\ j \in Nat
  OBVIOUS
<1>2. Reaching \in SUBSET Nat /\ Reaching # {}
  BY <1>1
<1>3. PICK i \in Reaching : \A k \in Reaching : i <= k
  BY <1>2, NatMinimum
<1>4. i \in Nat /\ j <= i * size
  OBVIOUS
<1>5. i # 0
  BY <1>4
<1>6. i - 1 \in Nat /\ (i - 1) * size + size = i * size
  BY <1>4, <1>5
<1>7. (i - 1) * size < j
  <2>1. i - 1 \notin Reaching
    BY <1>3, <1>4, <1>6
  <2>2. (i - 1) * size \in Nat
    BY <1>6
  <2> QED
    BY <1>1, <1>6, <2>1, <2>2
<1>8. i <= (len + size - 1) \div size
  <2>1. i * size <= len + size - 1 /\ len + size - 1 \in Nat
    BY <1>4, <1>6, <1>7
  <2> QED
    BY <1>4, <2>1
<1>9. (len + size - 1) \div size \in Nat
  <2>1. len + size - 1 \in Nat
    OBVIOUS
  <2> QED
    BY <2>1
<1>10. j \in OnPage(len, size, i)
  <2>1. j <= LastOnPage(len, size, i) /\ LastOnPage(len, size, i) \in Nat
    BY <1>4 DEF LastOnPage
  <2>2. (i - 1) * size \in Nat
    BY <1>6
  <2> QED
    BY <1>1, <1>7, <2>1, <2>2 DEF OnPage
<1>11. i \in 1..((len + size - 1) \div size)
  <2> DEFINE C == (len + size - 1) \div size
  <2>1. C \in Nat /\ i <= C
    BY <1>8, <1>9
  <2> HIDE DEF C
  <2>2. i \in 1..C
    BY <1>4, <1>5, <2>1
  <2> QED
    BY <2>2 DEF C
<1> QED
  BY <1>10, <1>11

PagesOf(seq, size) == [i \in 1..PageCount(seq, size) |-> Page(seq, size, i)]

(* The pages show the whole listing.                                       *)
LEMMA PagesShowAll ==
  ASSUME NEW seq \in Seq(Object), NEW size \in Nat \ {0}
  PROVE  /\ PagesOf(seq, size) \in Seq(Seq(Object))
         /\ UNION {Range(PagesOf(seq, size)[i]) : i \in DOMAIN PagesOf(seq, size)}
              = Range(seq)
<1> DEFINE C == PageCount(seq, size)
           pages == PagesOf(seq, size)
<1>1. Len(seq) \in Nat /\ DOMAIN seq = 1..Len(seq)
  OBVIOUS
<1>2. C \in Nat /\ C = (Len(seq) + size - 1) \div size
  <2>1. Len(seq) + size - 1 \in Nat
    OBVIOUS
  <2> QED
    BY <2>1 DEF PageCount
<1>3. pages = [i \in 1..C |-> Page(seq, size, i)]
  BY DEF PagesOf
<1> HIDE DEF C, pages
<1>4. ASSUME NEW i \in 1..C
      PROVE  /\ i \in Nat \ {0}
             /\ Page(seq, size, i) \in Seq(Object)
             /\ OnPage(Len(seq), size, i) \in SUBSET DOMAIN seq
             /\ Range(Page(seq, size, i)) = {seq[k] : k \in OnPage(Len(seq), size, i)}
  <2>1. i \in Nat \ {0}
    BY <1>2
  <2> QED
    BY <2>1, PageShowsPart
<1>5. /\ pages \in Seq(Seq(Object)) /\ DOMAIN pages = 1..C
      /\ \A i \in 1..C : pages[i] = Page(seq, size, i)
  <2>1. DOMAIN pages = 1..C /\ \A i \in 1..C : pages[i] = Page(seq, size, i)
    BY <1>3
  <2>2. \A i \in 1..C : pages[i] \in Seq(Object)
    BY <1>4, <2>1
  <2>3. pages = [i \in 1..C |-> pages[i]]
    BY <1>3, <2>1
  <2> DEFINE T == Seq(Object)
  <2>4. pages \in [1..C -> T]
    BY <2>2, <2>3
  <2> HIDE DEF T
  <2>5. pages \in Seq(T)
    BY <1>2, <2>4, SeqDef
  <2> QED
    BY <2>1, <2>5 DEF T
<1>6. ASSUME NEW i \in 1..C, NEW c \in Range(pages[i]) PROVE c \in Range(seq)
  <2>1. PICK k \in OnPage(Len(seq), size, i) : c = seq[k]
    BY <1>4, <1>5
  <2> QED
    BY <1>4, <2>1 DEF Range
<1>7. ASSUME NEW c \in Range(seq) PROVE \E i \in 1..C : c \in Range(pages[i])
  <2>1. PICK j \in 1..Len(seq) : c = seq[j]
    BY <1>1 DEF Range
  <2>2. PICK i \in 1..C : j \in OnPage(Len(seq), size, i)
    BY <1>1, <1>2, PlaceIsOnPage
  <2> QED
    BY <1>4, <1>5, <2>1, <2>2
<1>8. UNION {Range(pages[i]) : i \in DOMAIN pages} = Range(seq)
  BY <1>5, <1>6, <1>7
<1> QED
  BY <1>5, <1>8 DEF pages

(* For every page size the latest of the pages is the latest of all.       *)
LEMMA LatestIsOfScoped ==
  ASSUME NEW content, IsContent(content), NEW size \in Nat \ {0}
  PROVE  IsLatest(LatestOfPages(Listing(content), size), Scoped(content))
<1> DEFINE seq == Listing(content)
           pages == PagesOf(seq, size)
<1>1. seq \in Seq(Object) /\ Range(seq) = Scoped(content)
  BY ListingIsComplete
<1>2. LatestOfPages(seq, size) = FoldLeft(ChooseFromPage, None, pages)
  BY DEF LatestOfPages, PagesOf
<1> HIDE DEF seq
<1>3. pages \in Seq(Seq(Object)) /\ UNION {Range(pages[i]) : i \in DOMAIN pages} = Range(seq)
  BY <1>1, PagesShowAll
<1> HIDE DEF pages
<1>4. IsLatest(FoldLeft(ChooseFromPage, None, pages),
               UNION {Range(pages[i]) : i \in DOMAIN pages})
  BY <1>3, LatestOfPagesIsLatest
<1> QED
  BY <1>1, <1>2, <1>3, <1>4 DEF seq

-----------------------------------------------------------------------------
(* The inductive invariant: what is on the backend are finitely many       *)
(* objects, each modified at a clock reading, and only if one fits.        *)

BackendInv ==
  /\ IsContent(objects)
  /\ unreadable \in SUBSET Name
  /\ DOMAIN objects # {} => MaxObjects \in Nat \ {0}

(* Writing an object, and a name that stops answering, keep it.            *)
LEMMA BackendIsKept == Spec => []BackendInv
<1>1. Init => BackendInv
  <2> SUFFICES ASSUME Init PROVE BackendInv
    OBVIOUS
  <2>1. IsFiniteSet({}) /\ DOMAIN objects = {}
    BY FS_EmptySet DEF Init
  <2> QED
    BY <2>1 DEF Init, BackendInv, IsContent
<1>2. BackendInv /\ [Next]_vars => BackendInv'
  <2> SUFFICES ASSUME BackendInv, [Next]_vars PROVE BackendInv'
    OBVIOUS
  <2>1. ASSUME NEW n \in Name, NEW time \in Clock, Put(n, time) PROVE BackendInv'
    <3> DEFINE D == DOMAIN objects
    <3>1. DOMAIN objects' = D \cup {n} /\ D \in SUBSET Name /\ IsFiniteSet(D)
      BY <2>1 DEF Put, BackendInv, IsContent
    <3>2. IsFiniteSet(D \cup {n})
      BY <3>1, FS_AddElement
    <3>3. time \in Nat \ {0}
      BY BackupContractAssumption DEF Clock
    <3>4. \A m \in D \cup {n} : objects'[m] \in Nat \ {0}
      BY <2>1, <3>3 DEF Put, BackendInv, IsContent
    <3>5. IsContent(objects')
      BY <3>1, <3>2, <3>4 DEF IsContent
    <3>6. MaxObjects \in Nat \ {0}
      <4>1. CASE n \in D
        <5>1. D # {}
          BY <4>1
        <5> QED
          BY <5>1 DEF BackendInv
      <4>2. CASE n \notin D
        <5>1. Cardinality(D) < MaxObjects /\ Cardinality(D) \in Nat
          BY <2>1, <3>1, <4>2, FS_CardinalityType DEF Put
        <5> HIDE DEF D
        <5> QED
          BY <5>1, BackupContractAssumption
      <4> QED
        BY <4>1, <4>2
    <3>7. unreadable' = unreadable
      BY <2>1 DEF Put
    <3> QED
      BY <3>5, <3>6, <3>7 DEF BackendInv
  <2>2. ASSUME NEW n \in Name, Flip(n) PROVE BackendInv'
    BY <2>2 DEF Flip, BackendInv
  <2>3. ASSUME UNCHANGED vars PROVE BackendInv'
    BY <2>3 DEF vars, BackendInv
  <2> QED
    BY <2>1, <2>2, <2>3 DEF Next
<1> QED
  BY <1>1, <1>2, PTL DEF Spec

-----------------------------------------------------------------------------
(* The latest backup. *)

(* Among what a listing shows, the backups are those of the content.       *)
LEMMA BackupsAreScoped ==
  ASSUME NEW content, IsContent(content)
  PROVE  /\ \A c \in Scoped(content) :
              /\ c.name \in DOMAIN content /\ c.modified = content[c.name]
              /\ c = [name |-> c.name, modified |-> content[c.name]]
              /\ IsEligible(c.name) => c.name \in Backups(content)
         /\ \A n \in Backups(content) :
              /\ [name |-> n, modified |-> content[n]] \in Scoped(content)
              /\ IsEligible(n)
  BY DEF Scoped, Backups, IsEligible

(* Whatever the page size of the listing, an unnamed restore selects the   *)
(* most recently modified backup, and finds one whenever there is one      *)
(* (getLastUpdatedObjectName, latestEligibleObject, chooseLaterObject).    *)
THEOREM LatestOfAnyPaging == Spec => []LatestIsNewest
<1>1. BackendInv => LatestIsNewest
  <2> SUFFICES ASSUME BackendInv, NEW size \in 1..(MaxObjects + 1)
               PROVE  LET latest == LatestOfPages(Listing(objects), size) IN
                      IF Backups(objects) = {} THEN latest = None
                      ELSE /\ latest.name \in Backups(objects)
                           /\ \A n \in Backups(objects) :
                                \/ latest = [name |-> n, modified |-> objects[n]]
                                \/ latest.modified > objects[n]
                                \/ latest.modified = objects[n] /\ NameBefore(latest.name, n)
    BY DEF LatestIsNewest
  <2> DEFINE latest == LatestOfPages(Listing(objects), size)
  <2>1. IsContent(objects)
    BY DEF BackendInv
  <2>2. size \in Nat \ {0}
    BY BackupContractAssumption
  <2>3. IsLatest(latest, Scoped(objects))
    BY <2>1, <2>2, LatestIsOfScoped
  <2> HIDE DEF latest
  <2>4. CASE Backups(objects) = {}
    <3>1. \A c \in Scoped(objects) : ~IsEligible(c.name)
      BY <2>1, <2>4, BackupsAreScoped
    <3>2. latest = None
      BY <2>3, <3>1 DEF IsLatest
    <3> QED
      BY <2>4, <3>2 DEF latest
  <2>5. CASE Backups(objects) # {}
    <3>1. /\ latest \in Scoped(objects) /\ IsEligible(latest.name)
          /\ \A c \in Scoped(objects) :
               IsEligible(c.name) => c = latest \/ LaterThan(latest, c)
      BY <2>1, <2>3, <2>5, BackupsAreScoped DEF IsLatest
    <3>2. latest.name \in Backups(objects)
      BY <2>1, <3>1, BackupsAreScoped
    <3>3. ASSUME NEW n \in Backups(objects)
          PROVE  \/ latest = [name |-> n, modified |-> objects[n]]
                 \/ latest.modified > objects[n]
                 \/ latest.modified = objects[n] /\ NameBefore(latest.name, n)
      <4> DEFINE c == [name |-> n, modified |-> objects[n]]
      <4>1. c \in Scoped(objects) /\ IsEligible(c.name)
        BY <2>1, BackupsAreScoped
      <4>2. c = latest \/ LaterThan(latest, c)
        BY <3>1, <4>1
      <4> QED
        BY <4>2 DEF LaterThan
    <3> QED
      BY <2>5, <3>2, <3>3 DEF latest
  <2> QED
    BY <2>4, <2>5 DEF latest
<1> QED
  BY <1>1, BackendIsKept, PTL

-----------------------------------------------------------------------------
(* Looking up an explicit name, and the backend of a restore. *)

(* A backend is selected when it is the one requested, or the only one.    *)
LEMMA SelectionIsExact ==
  ASSUME NEW configured \in SUBSET BackendNames, NEW requested \in BackendNames \cup {""}
  PROVE  LET selected == SelectRestoreStorage(configured, requested) IN
         /\ selected # {} => selected \in {{requested}, configured}
         /\ selected = {} <=> requested \notin configured
                                /\ (requested # "" \/ Cardinality(configured) # 1)
<1> DEFINE fits == {b \in configured : requested \in {"", b}}
           selected == SelectRestoreStorage(configured, requested)
<1>1. Cardinality({}) # 1 /\ Cardinality({requested}) = 1
  BY FS_EmptySet, FS_Singleton
<1>2. "" \notin configured
  BY DEF BackendNames
<1>3. selected = IF Cardinality(fits) = 1 THEN fits ELSE {}
  BY DEF SelectRestoreStorage
<1>4. CASE requested = ""
  <2>1. fits = configured
    BY <1>4
  <2>2. Cardinality(configured) = 1 => configured # {}
    BY <1>1, Zenon
  <2> HIDE DEF fits, selected
  <2>3. /\ selected # {} => selected \in {{requested}, configured}
        /\ selected = {} <=> requested \notin configured
                               /\ (requested # "" \/ Cardinality(configured) # 1)
    BY <1>2, <1>3, <1>4, <2>1, <2>2
  <2> QED
    BY <2>3 DEF selected
<1>5. CASE requested # "" /\ requested \in configured
  <2>1. fits = {requested}
    BY <1>5
  <2> HIDE DEF fits, selected
  <2>2. selected = {requested}
    BY <1>1, <1>3, <2>1
  <2> QED
    BY <1>5, <2>2 DEF selected
<1>6. CASE requested # "" /\ requested \notin configured
  <2>1. fits = {}
    BY <1>6
  <2> HIDE DEF fits, selected
  <2>2. selected = {}
    BY <1>1, <1>3, <2>1
  <2> QED
    BY <1>6, <2>2 DEF selected
<1> QED
  BY <1>4, <1>5, <1>6

(* An explicit name resolves to the first of its candidates that is there  *)
(* or cannot be checked.                                                   *)
LEMMA FirstCandidateDecides ==
  ASSUME NEW content, NEW bad, NEW request \in Name
  PROVE  LET result == ResolveExplicit(content, bad, request)
             managed == [dir |-> Prefix, leaf |-> request.leaf]
             bare == request.dir = Root /\ request.leaf \in Stamped
             known == DOMAIN content \cup bad
             Settled(name) == [status |-> IF name \in bad THEN "error" ELSE "found",
                               name |-> name]
         IN result = IF bare /\ managed \in known THEN Settled(managed)
                     ELSE IF request \in known THEN Settled(request) ELSE NotFound
<1> DEFINE result == ResolveExplicit(content, bad, request)
           managed == [dir |-> Prefix, leaf |-> request.leaf]
           bare == request.dir = Root /\ request.leaf \in Stamped
           known == DOMAIN content \cup bad
           Settled(name) == [status |-> IF name \in bad THEN "error" ELSE "found",
                             name |-> name]
           candidates == LookupCandidates(request)
           settled == {i \in DOMAIN candidates : candidates[i] \in known}
           first == CHOOSE i \in settled : \A j \in settled : i <= j
<1>1. result = IF settled = {} THEN NotFound ELSE Settled(candidates[first])
  BY DEF ResolveExplicit
<1>2. candidates = IF bare THEN <<managed, request>> ELSE <<request>>
  BY DEF LookupCandidates
<1> HIDE DEF result, managed, bare, known, Settled, candidates
<1>3. CASE bare /\ managed \in known
  <2>1. 1 \in settled /\ settled \in SUBSET {1, 2} /\ candidates[1] = managed
    BY <1>2, <1>3
  <2> HIDE DEF settled
  <2>2. first \in settled /\ \A j \in settled : first <= j
    <3>1. \E i \in settled : \A j \in settled : i <= j
      BY <2>1
    <3> QED
      BY <3>1
  <2> HIDE DEF first
  <2>3. result = Settled(managed)
    BY <1>1, <2>1, <2>2
  <2> QED
    BY <1>3, <2>3 DEF result, managed, bare, known, Settled
<1>4. CASE bare /\ managed \notin known /\ request \in known
  <2>1. settled = {2} /\ candidates[2] = request
    BY <1>2, <1>4
  <2> HIDE DEF settled
  <2>2. first = 2
    BY <2>1
  <2> HIDE DEF first
  <2>3. result = Settled(request)
    BY <1>1, <2>1, <2>2
  <2> QED
    BY <1>4, <2>3 DEF result, managed, bare, known, Settled
<1>5. CASE ~bare /\ request \in known
  <2>1. settled = {1} /\ candidates[1] = request
    BY <1>2, <1>5
  <2> HIDE DEF settled
  <2>2. first = 1
    BY <2>1
  <2> HIDE DEF first
  <2>3. result = Settled(request)
    BY <1>1, <2>1, <2>2
  <2> QED
    BY <1>5, <2>3 DEF result, managed, bare, known, Settled
<1>6. CASE ~(bare /\ managed \in known) /\ request \notin known
  <2>1. settled = {}
    BY <1>2, <1>6
  <2> HIDE DEF settled
  <2>2. result = NotFound
    BY <1>1, <2>1
  <2> QED
    BY <1>6, <2>2 DEF result, managed, bare, known, Settled
<1> QED
  BY <1>3, <1>4, <1>5, <1>6 DEF result, managed, bare, known, Settled

(* Neither an explicit name nor a backend is ever guessed                  *)
(* (LookupBackupCandidates and its callers, SelectRestoreStorage).         *)
THEOREM LookupIsExact == Spec => []LookupNeverGuesses
<1>1. LookupNeverGuesses
  <2>1. ASSUME NEW configured \in SUBSET BackendNames,
               NEW requested \in BackendNames \cup {""}
        PROVE  LET selected == SelectRestoreStorage(configured, requested) IN
               /\ selected # {} => selected \in {{requested}, configured}
               /\ selected = {} <=> requested \notin configured
                                      /\ (requested # "" \/ Cardinality(configured) # 1)
    BY SelectionIsExact
  <2>2. ASSUME NEW request \in Name
        PROVE  LET result == ResolveExplicit(objects, unreadable, request)
                   managed == [dir |-> Prefix, leaf |-> request.leaf]
                   bare == request.dir = Root /\ request.leaf \in Stamped
               IN /\ result.status = "found" =>
                       /\ result.name \in DOMAIN objects \ unreadable
                       /\ result.name = request \/ (bare /\ result.name = managed)
                  /\ bare /\ managed \in DOMAIN objects \cup unreadable =>
                       result = [status |-> IF managed \in unreadable THEN "error" ELSE "found",
                                 name |-> managed]
                  /\ request \in DOMAIN objects \ unreadable => result.status # "notFound"
    <3> DEFINE result == ResolveExplicit(objects, unreadable, request)
               managed == [dir |-> Prefix, leaf |-> request.leaf]
               bare == request.dir = Root /\ request.leaf \in Stamped
               known == DOMAIN objects \cup unreadable
    <3>1. result = IF bare /\ managed \in known
                     THEN [status |-> IF managed \in unreadable THEN "error" ELSE "found",
                           name |-> managed]
                   ELSE IF request \in known
                     THEN [status |-> IF request \in unreadable THEN "error" ELSE "found",
                           name |-> request]
                   ELSE NotFound
      BY FirstCandidateDecides
    <3>2. NotFound.status = "notFound"
      BY DEF NotFound
    <3> HIDE DEF result, managed, bare
    <3>3. /\ result.status = "found" =>
               /\ result.name \in DOMAIN objects \ unreadable
               /\ result.name = request \/ (bare /\ result.name = managed)
          /\ bare /\ managed \in DOMAIN objects \cup unreadable =>
               result = [status |-> IF managed \in unreadable THEN "error" ELSE "found",
                         name |-> managed]
          /\ request \in DOMAIN objects \ unreadable => result.status # "notFound"
      BY <3>1, <3>2
    <3> QED
      BY <3>3 DEF result, managed, bare
  <2> QED
    BY <2>1, <2>2 DEF LookupNeverGuesses
<1> QED
  BY <1>1, PTL

-----------------------------------------------------------------------------
(* Retention. *)

(* What a retention leaves is content, without the planned objects; it     *)
(* keeps the preserved one, what has not expired and what is no backup.    *)
LEMMA RetainedKeeps ==
  ASSUME NEW content, IsContent(content), NEW days, NEW now, NEW preserve
  PROVE  LET kept == Retained(content, days, now, preserve) IN
         /\ IsContent(kept) /\ DOMAIN kept \in SUBSET DOMAIN content
         /\ \A n \in DOMAIN kept : kept[n] = content[n]
         /\ \A n \in DOMAIN content :
              \/ n = preserve
              \/ ~IsEligible(n)
              \/ ~IsExpired(content[n], days, now)
              => n \in DOMAIN kept
<1> DEFINE plan == DeletionPlan(Listing(content), days, now, preserve)
           kept == Retained(content, days, now, preserve)
<1>1. \A c \in plan : /\ c \in Scoped(content) /\ IsEligible(c.name)
                      /\ c.name # preserve /\ IsExpired(c.modified, days, now)
  BY ListingIsComplete DEF DeletionPlan
<1>2. \A c \in plan : c.modified = content[c.name]
  BY <1>1, BackupsAreScoped
<1>3. /\ DOMAIN kept = DOMAIN content \ {c.name : c \in plan}
      /\ \A n \in DOMAIN kept : kept[n] = content[n]
  BY DEF Retained
<1> HIDE DEF plan, kept
<1>4. IsContent(kept)
  <2>1. IsFiniteSet(DOMAIN kept)
    BY <1>3, FS_Subset DEF IsContent
  <2> QED
    BY <1>3, <2>1 DEF IsContent
<1>5. \A n \in DOMAIN content :
        \/ n = preserve
        \/ ~IsEligible(n)
        \/ ~IsExpired(content[n], days, now)
        => n \in DOMAIN kept
  BY <1>1, <1>2, <1>3
<1> QED
  BY <1>3, <1>4, <1>5 DEF kept

(* After a retention that preserved a backup a restore still finds one,    *)
(* the same as before unless that had expired, and nothing but backups of  *)
(* the prefix is gone (planDeletionObjects, enforceRetention).             *)
THEOREM RetentionLeavesRestorable == Spec => []RetentionKeepsRestorable
<1>1. BackendInv => RetentionKeepsRestorable
  <2> SUFFICES ASSUME BackendInv, NEW preserve \in Backups(objects),
                      NEW now \in Clock, NEW days \in 0..2
               PROVE  LET before == LatestOfPages(Listing(objects), MaxObjects)
                          kept == Retained(objects, days, now, preserve)
                          after == LatestOfPages(Listing(kept), MaxObjects)
                      IN /\ after # None
                         /\ after # before => IsExpired(before.modified, days, now)
                         /\ \A n \in DOMAIN objects : ~IsEligible(n) => n \in DOMAIN kept
    BY DEF RetentionKeepsRestorable
  <2> DEFINE before == LatestOfPages(Listing(objects), MaxObjects)
             kept == Retained(objects, days, now, preserve)
             after == LatestOfPages(Listing(kept), MaxObjects)
  <2>1. IsContent(objects)
    BY DEF BackendInv
  <2>2. MaxObjects \in Nat \ {0}
    <3>1. DOMAIN objects # {}
      BY DEF Backups
    <3> QED
      BY <3>1 DEF BackendInv
  <2>3. /\ IsContent(kept) /\ DOMAIN kept \in SUBSET DOMAIN objects
        /\ \A n \in DOMAIN kept : kept[n] = objects[n]
        /\ \A n \in DOMAIN objects :
             \/ n = preserve
             \/ ~IsEligible(n)
             \/ ~IsExpired(objects[n], days, now)
             => n \in DOMAIN kept
    BY <2>1, RetainedKeeps
  <2>4. IsLatest(before, Scoped(objects)) /\ IsLatest(after, Scoped(kept))
    BY <2>1, <2>2, <2>3, LatestIsOfScoped
  <2>5. Scoped(objects) \in SUBSET Object /\ Scoped(kept) \in SUBSET Object
    BY <2>1, <2>3, ScopedObjects
  <2> HIDE DEF before, kept, after
  <2>6. Scoped(kept) \in SUBSET Scoped(objects)
    BY <2>3 DEF Scoped
  <2>7. after # None
    <3>1. preserve \in Backups(kept)
      BY <2>3 DEF Backups
    <3>2. PICK c \in Scoped(kept) : IsEligible(c.name)
      <4>1. [name |-> preserve, modified |-> kept[preserve]] \in Scoped(kept)
            /\ IsEligible(preserve)
        BY <2>3, <3>1, BackupsAreScoped
      <4> QED
        BY <4>1
    <3>3. after \in Scoped(kept)
      BY <2>4, <3>2 DEF IsLatest
    <3> QED
      BY <2>5, <3>3, ObjectFields
  <2>8. ASSUME ~IsExpired(before.modified, days, now) PROVE after = before
    <3>1. \E c \in Scoped(objects) : IsEligible(c.name)
      <4>1. [name |-> preserve, modified |-> objects[preserve]] \in Scoped(objects)
            /\ IsEligible(preserve)
        BY <2>1, BackupsAreScoped
      <4> QED
        BY <4>1
    <3>2. before \in Scoped(objects) /\ IsEligible(before.name)
          /\ \A c \in Scoped(objects) : IsEligible(c.name) => c = before \/ LaterThan(before, c)
      BY <2>4, <3>1 DEF IsLatest
    <3>3. /\ before.name \in DOMAIN objects /\ before.modified = objects[before.name]
          /\ before = [name |-> before.name, modified |-> objects[before.name]]
      BY <2>1, <3>2, BackupsAreScoped
    <3>4. before.name \in DOMAIN kept /\ kept[before.name] = objects[before.name]
      BY <2>3, <2>8, <3>3
    <3>5. before.name \in Backups(kept)
      BY <3>2, <3>4 DEF Backups
    <3>6. before \in Scoped(kept)
      BY <2>3, <3>3, <3>4, <3>5, BackupsAreScoped
    <3>7. IsLatest(before, Scoped(kept))
      BY <2>6, <3>2, <3>6 DEF IsLatest
    <3> QED
      BY <2>4, <2>5, <3>7, LatestIsUnique
  <2>9. \A n \in DOMAIN objects : ~IsEligible(n) => n \in DOMAIN kept
    BY <2>3
  <2> QED
    BY <2>7, <2>8, <2>9 DEF before, kept, after
<1> QED
  BY <1>1, BackendIsKept, PTL

-----------------------------------------------------------------------------
(* The settings of the two commands. *)

(* An argument of mongorestore is there when its option is on.             *)
LEMMA ArgumentsAreOptions ==
  ASSUME NEW m, m.uri = "", NEW o \in MongoOption \ {"uri", "uriPrune"}
  PROVE  /\ o \in DOMAIN AppendToolOptions(m) <=> IsOn(m, o)
         /\ IsOn(m, o) => AppendToolOptions(m)[o] = m[o]
  BY DEF AppendToolOptions, IsOn, BoolOption

(* Without a --uri there is no URI argument.                             *)
LEMMA NoUriArgument ==
  ASSUME NEW m, m.uri = ""
  PROVE  "uri" \notin DOMAIN AppendToolOptions(m)
  BY DEF AppendToolOptions, IsOn, BoolOption

(* What mongorestore connects to, in terms of the options.                 *)
LEMMA ToolConnectionOfOptions ==
  ASSUME NEW m, m.uri = ""
  PROVE  ToolConnection(AppendToolOptions(m)) =
           [set |-> Hosts(m.host).set,
            members |-> Addresses(Hosts(m.host).members, m.port),
            login |-> Login(m.username, m.password, m.authenticationMechanism,
                            SourceOf(m.authenticationMechanism,
                                     m.authenticationDatabase, m.db)),
            tls |-> Tls(m.ssl = "true", m.sslCAFile, m.sslPEMKeyFile),
            db |-> m.db]
<1> DEFINE a == AppendToolOptions(m)
           arg(o) == IF o \in DOMAIN a THEN a[o] ELSE ""
<1>1. \A o \in MongoOption \ {"uri", "uriPrune"} :
        arg(o) = IF IsOn(m, o) THEN m[o] ELSE ""
  BY ArgumentsAreOptions
<1>2. arg("uri") = ""
  BY NoUriArgument
<1>3. /\ arg("host") = m.host /\ arg("port") = m.port
      /\ arg("username") = m.username /\ arg("password") = m.password
  BY <1>1 DEF MongoOption, IsOn, BoolOption
<1>4. /\ arg("authenticationDatabase") = m.authenticationDatabase
      /\ arg("authenticationMechanism") = m.authenticationMechanism
      /\ arg("db") = m.db
  BY <1>1 DEF MongoOption, IsOn, BoolOption
<1>5. /\ arg("sslCAFile") = m.sslCAFile /\ arg("sslPEMKeyFile") = m.sslPEMKeyFile
      /\ arg("ssl") = "true" <=> m.ssl = "true"
  BY <1>1 DEF MongoOption, IsOn, BoolOption
<1> HIDE DEF a
<1>6. ToolConnection(a) =
        [set |-> Hosts(arg("host")).set,
         members |-> Addresses(Hosts(arg("host")).members, arg("port")),
         login |-> Login(arg("username"), arg("password"), arg("authenticationMechanism"),
                         SourceOf(arg("authenticationMechanism"),
                                  arg("authenticationDatabase"), arg("db"))),
         tls |-> Tls(arg("ssl") = "true", arg("sslCAFile"), arg("sslPEMKeyFile")),
         db |-> arg("db")]
  BY <1>2 DEF ToolConnection
<1> HIDE DEF arg
<1>7. (arg("ssl") = "true") = (m.ssl = "true")
  BY <1>5
<1> QED
  BY <1>3, <1>4, <1>5, <1>6, <1>7 DEF a

(* The client of the updates, in terms of the options.                     *)
LEMMA ClientOfOptions ==
  ASSUME NEW m, m.uri = ""
  PROVE  MongoClientOptions(m) =
           [set |-> Hosts(m.host).set,
            members |-> Addresses(Hosts(m.host).members, m.port),
            login |-> Login(m.username, m.password, m.authenticationMechanism,
                            SourceOf(m.authenticationMechanism,
                                     m.authenticationDatabase, "")),
            tls |-> Tls(m.ssl = "true" \/ m.sslCAFile # "" \/ m.sslPEMKeyFile # "",
                        m.sslCAFile, m.sslPEMKeyFile),
            db |-> m.db]
  BY DEF MongoClientOptions, MongoConnectionURI, ClientMembers

(* Two logins that are the same, but for a default of the authentication   *)
(* database.                                                               *)
SameButDefault(client, tool, named, db) ==
  \/ client = tool
  \/ named = "" /\ tool.source = db /\ client = [tool EXCEPT !.source = "admin"]

(* The fallback of the authentication database matters only when none is   *)
(* named, the mechanism has no database of its own, and somebody signs in. *)
LEMMA LoginsDifferByDefault ==
  ASSUME NEW user, NEW password, NEW mechanism, NEW named, NEW db
  PROVE  SameButDefault(Login(user, password, mechanism, SourceOf(mechanism, named, "")),
                        Login(user, password, mechanism, SourceOf(mechanism, named, db)),
                        named, db)
<1> DEFINE tool == Login(user, password, mechanism, SourceOf(mechanism, named, db))
           client == Login(user, password, mechanism, SourceOf(mechanism, named, ""))
<1>1. CASE user = "" /\ mechanism = ""
  BY <1>1 DEF Login, SameButDefault
<1>2. CASE named # "" \/ mechanism \in ExternalMechanism \/ db = ""
  BY <1>2 DEF SourceOf, SameButDefault
<1>3. CASE /\ ~(user = "" /\ mechanism = "")
           /\ named = "" /\ mechanism \notin ExternalMechanism /\ db # ""
  <2> DEFINE secret == IF user = "" THEN "" ELSE password
  <2>1. SourceOf(mechanism, named, db) = db /\ SourceOf(mechanism, named, "") = "admin"
    BY <1>3 DEF SourceOf
  <2>2. /\ tool = [username |-> user, password |-> secret,
                   mechanism |-> mechanism, source |-> db]
        /\ client = [username |-> user, password |-> secret,
                     mechanism |-> mechanism, source |-> "admin"]
    BY <1>3, <2>1 DEF Login
  <2> HIDE DEF tool, client, secret
  <2>3. tool.source = db /\ client = [tool EXCEPT !.source = "admin"]
    BY <2>2
  <2> QED
    BY <1>3, <2>3 DEF tool, client, SameButDefault
<1> QED
  BY <1>1, <1>2, <1>3

(* Whatever is set, without a --uri the updates go where the restore went, *)
(* as the same user but for the default of the authentication database,    *)
(* and with at least its TLS.                                              *)
THEOREM HostIsFollowed == SettingsSpec => []UpdatesFollowHost
<1> DEFINE m == Config("restore")
           restore == ToolConnection(AppendToolOptions(m))
           updates == MongoClientOptions(m)
           servers == Addresses(Hosts(m.host).members, m.port)
           tool == Login(m.username, m.password, m.authenticationMechanism,
                         SourceOf(m.authenticationMechanism, m.authenticationDatabase, m.db))
           client == Login(m.username, m.password, m.authenticationMechanism,
                           SourceOf(m.authenticationMechanism, m.authenticationDatabase, ""))
           anyFile == m.sslCAFile # "" \/ m.sslPEMKeyFile # ""
           toolTls == Tls(m.ssl = "true", m.sslCAFile, m.sslPEMKeyFile)
           clientTls == Tls(m.ssl = "true" \/ anyFile, m.sslCAFile, m.sslPEMKeyFile)
<1>1. ASSUME m.uri = ""
      PROVE  /\ restore = [set |-> Hosts(m.host).set, members |-> servers,
                           login |-> tool, tls |-> toolTls, db |-> m.db]
             /\ updates = [set |-> Hosts(m.host).set, members |-> servers,
                           login |-> client, tls |-> clientTls, db |-> m.db]
  <2> HIDE DEF m
  <2> QED
    BY <1>1, ToolConnectionOfOptions, ClientOfOptions
<1>2. SameButDefault(client, tool, m.authenticationDatabase, m.db)
  <2> HIDE DEF m
  <2> QED
    BY LoginsDifferByDefault
<1>3. toolTls.on => clientTls = toolTls
  <2>1. toolTls.on = (m.ssl = "true")
    <3> DEFINE ca == IF m.ssl = "true" THEN m.sslCAFile ELSE ""
               key == IF m.ssl = "true" THEN m.sslPEMKeyFile ELSE ""
    <3>1. toolTls = [on |-> m.ssl = "true", ca |-> ca, key |-> key]
      BY DEF Tls
    <3> HIDE DEF m, toolTls, ca, key
    <3> QED
      BY <3>1
  <2>2. ASSUME m.ssl = "true" PROVE clientTls = toolTls
    <3>1. (m.ssl = "true" \/ anyFile) = (m.ssl = "true")
      BY <2>2
    <3> QED
      BY <3>1
  <2> QED
    BY <2>1, <2>2
<1> HIDE DEF m, restore, updates, servers, tool, client, toolTls, clientTls
<1>4. ASSUME m.uri = ""
      PROVE  /\ updates.set = restore.set /\ updates.members = restore.members
             /\ updates.db = restore.db
             /\ updates.login = client /\ restore.login = tool
             /\ updates.tls = clientTls /\ restore.tls = toolTls
  <2>1. /\ restore = [set |-> Hosts(m.host).set, members |-> servers,
                      login |-> tool, tls |-> toolTls, db |-> m.db]
        /\ updates = [set |-> Hosts(m.host).set, members |-> servers,
                      login |-> client, tls |-> clientTls, db |-> m.db]
    BY <1>1, <1>4
  <2> QED
    BY <2>1
<1>5. UpdatesFollowHost
  BY <1>2, <1>3, <1>4 DEF UpdatesFollowHost, SameButDefault, m, restore, updates
<1> QED
  BY <1>5, PTL

-----------------------------------------------------------------------------

(* There are three prefixes, and the last two are common to the commands. *)
LEMMA ThreePrefixes == \A i \in 1..3 : i \in {1, 2, 3}
  OBVIOUS

(* The first of some of the common prefixes is a common one.              *)
LEMMA FirstOfTwo ==
  ASSUME NEW s, s \subseteq {2, 3}, s # {}
  PROVE  First(s) \in {2, 3}
<1>1. \E i \in s : \A j \in s : i <= j
  <2>1. CASE 2 \in s
    BY <2>1
  <2>2. CASE 2 \notin s
    <3>1. s = {3}
      BY <2>2
    <3> QED
      BY <3>1
  <2> QED
    BY <2>1, <2>2
<1> QED
  BY <1>1 DEF First

(* An option that neither command is given on its own has one value.       *)
LEMMA SharedOptionsAgree ==
  ASSUME NEW o,
         \A c \in Command : Getenv(OwnPrefix(c), o) = "" /\ ~IsSet(CommandLine(c), o)
  PROVE  Bind("archive", o) = Bind("restore", o)
<1> DEFINE set(c) == {i \in 1..3 : Getenv(EnvPrefixes(c)[i], o) # ""}
<1>1. /\ EnvPrefixes("archive")[2] = EnvPrefixes("restore")[2]
      /\ EnvPrefixes("archive")[3] = EnvPrefixes("restore")[3]
      /\ \A c \in Command : EnvPrefixes(c)[1] = OwnPrefix(c)
  BY DEF EnvPrefixes
<1>2. \A i \in {2, 3} : EnvPrefixes("archive")[i] = EnvPrefixes("restore")[i]
  BY <1>1
<1>3. \A c \in Command : set(c) \subseteq {2, 3}
  <2>1. \A c \in Command : Getenv(EnvPrefixes(c)[1], o) = ""
    BY <1>1
  <2> QED
    BY <2>1, ThreePrefixes
<1>4. set("archive") = set("restore")
  BY <1>2, <1>3 DEF Command
<1>5. ASSUME set("archive") # {}
      PROVE  First(set("archive")) \in {2, 3}
  BY <1>3, <1>5, FirstOfTwo DEF Command
<1>6. GetValue("archive", o) = GetValue("restore", o)
  BY <1>2, <1>4, <1>5 DEF GetValue
<1> QED
  BY <1>6 DEF Bind, FromEnv, Command

(* Backend by backend, the restore looks where the archive puts its        *)
(* backups, or one of the two was given a setting of its own for it.       *)
THEOREM PlacesAgree == SettingsSpec => []RestoreLooksWhereArchivePuts
<1>1. ASSUME NEW b \in DOMAIN Required,
             \A c \in Command, o \in Required[b] \cup {"backupPrefix"} :
               Getenv(OwnPrefix(c), o) = "" /\ ~IsSet(CommandLine(c), o)
      PROVE  Place("archive", b) = Place("restore", b)
  <2>1. \A o \in Required[b] \cup {"backupPrefix"} :
          Bind("archive", o) = Bind("restore", o)
    BY <1>1, SharedOptionsAgree
  <2>2. b \in Enabled("archive") <=> b \in Enabled("restore")
    BY <2>1 DEF Enabled
  <2>3. CASE b \in Enabled("archive")
    BY <2>1, <2>2, <2>3 DEF Place
  <2>4. CASE b \notin Enabled("archive")
    BY <2>2, <2>4 DEF Place
  <2> QED
    BY <2>3, <2>4
<1>2. RestoreLooksWhereArchivePuts
  BY <1>1 DEF RestoreLooksWhereArchivePuts
<1> QED
  BY <1>2, PTL
=============================================================================
