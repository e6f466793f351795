-------------------------- MODULE Extraction_proofs --------------------------
(***************************************************************************)
(* Theorems about Extraction, for any paths, sizes, limits and width of    *)
(* the counters.  The limit on the total is about a sum over the files; a  *)
(* file more adds its size to it (SumOfOneMore), which the fold that the   *)
(* sum is defined by has to be shown to do.                                *)
(***************************************************************************)
EXTENDS Extraction, FiniteSetTheorems, WellFoundedInduction, TLAPS

-----------------------------------------------------------------------------
(* Sums over the values of a function. *)

SumOf(f) == MapThenSumSet(LAMBDA p : f[p], DOMAIN f)

Some(s) == CHOOSE x \in s : TRUE

(* t is the sum of f over every subset of a set.                           *)
IsTotals(f, D, t) ==
  t = [s \in SUBSET D |-> IF s = {} THEN 0 ELSE f[Some(s)] + t[s \ {Some(s)}]]

Totals(f, D) == CHOOSE t : IsTotals(f, D, t)

(* A set of numbers that is not empty has a least one.                     *)
LEMMA NatMinimum ==
  ASSUME NEW T \in SUBSET Nat, T # {}
  PROVE  \E x \in T : \A y \in T : x <= y
<1>1. PICK x \in T : \A y \in T : <<y, x>> \notin OpToRel(<, Nat)
  BY NatLessThanWellFounded, WFMin
<1>2. ASSUME NEW y \in T, y < x PROVE FALSE
  <2>1. <<y, x>> \in OpToRel(<, Nat)
    BY <1>2 DEF OpToRel
  <2> QED
    BY <1>1, <2>1
<1> QED
  BY <1>2

(* A set of subsets that is not empty has one with the fewest elements.    *)
LEMMA SmallestSubset ==
  ASSUME NEW D, IsFiniteSet(D), NEW S \in SUBSET (SUBSET D), S # {}
  PROVE  \E s \in S : \A r \in S : Cardinality(s) <= Cardinality(r)
<1> DEFINE Sizes == {Cardinality(s) : s \in S}
<1>1. Sizes \in SUBSET Nat /\ Sizes # {}
  BY FS_Subset, FS_CardinalityType
<1>2. PICK n \in Sizes : \A m \in Sizes : n <= m
  BY <1>1, NatMinimum
<1> QED
  BY <1>2

(* The choice is from the set.                                            *)
LEMMA SomeIsElement == \A s : s # {} => Some(s) \in s
  BY DEF Some

(* Removing an element leaves a smaller subset.                            *)
LEMMA OneFewer ==
  ASSUME NEW D, IsFiniteSet(D), NEW s \in SUBSET D, NEW x \in s
  PROVE  /\ s \ {x} \in SUBSET D
         /\ Cardinality(s \ {x}) < Cardinality(s)
         /\ Cardinality(s) \in Nat /\ Cardinality(s \ {x}) \in Nat
<1>1. IsFiniteSet(s)
  BY FS_Subset
<1>2. Cardinality(s \ {x}) = Cardinality(s) - 1 /\ IsFiniteSet(s \ {x})
  BY <1>1, FS_RemoveElement
<1> QED
  BY <1>1, <1>2, FS_CardinalityType

(* Up to a number of elements, t is the sum.                               *)
TotalsUpTo(f, D, n, t) ==
  t = [s \in {r \in SUBSET D : Cardinality(r) <= n} |->
         IF s = {} THEN 0 ELSE f[Some(s)] + t[s \ {Some(s)}]]

(* The sums over the subsets of a finite set exist: those over one element *)
(* more are made from the others.                                          *)
LEMMA TotalsExist ==
  ASSUME NEW f, NEW D, IsFiniteSet(D)
  PROVE  \E t : IsTotals(f, D, t)
<1> DEFINE Upto(n) == {r \in SUBSET D : Cardinality(r) <= n}
           Missing == {n \in Nat : ~\E t : TotalsUpTo(f, D, n, t)}
<1>1. TotalsUpTo(f, D, 0, [s \in Upto(0) |-> 0])
  <2>1. \A s \in Upto(0) : s = {}
    BY FS_Subset, FS_CardinalityType, FS_EmptySet
  <2> QED
    BY <2>1 DEF TotalsUpTo
<1>2. ASSUME NEW n \in Nat, NEW t, TotalsUpTo(f, D, n, t)
      PROVE  \E u : TotalsUpTo(f, D, n + 1, u)
  <2> DEFINE u == [s \in Upto(n + 1) |->
                     IF s = {} THEN 0 ELSE f[Some(s)] + t[s \ {Some(s)}]]
  <2>1. ASSUME NEW s \in Upto(n), s # {} PROVE t[s] = f[Some(s)] + t[s \ {Some(s)}]
    BY <1>2, <2>1 DEF TotalsUpTo
  <2>2. ASSUME NEW s \in Upto(n + 1), s # {}
        PROVE  s \ {Some(s)} \in Upto(n) /\ s \ {Some(s)} \in Upto(n + 1)
    BY <2>2, OneFewer, SomeIsElement
  <2>3. ASSUME NEW s \in Upto(n) PROVE u[s] = t[s] /\ s \in Upto(n + 1)
    <3>1. s \in Upto(n + 1)
      BY FS_Subset, FS_CardinalityType
    <3>2. t[s] = IF s = {} THEN 0 ELSE f[Some(s)] + t[s \ {Some(s)}]
      BY <1>2 DEF TotalsUpTo
    <3> QED
      BY <3>1, <3>2
  <2>4. ASSUME NEW s \in Upto(n + 1)
        PROVE  u[s] = IF s = {} THEN 0 ELSE f[Some(s)] + u[s \ {Some(s)}]
    BY <2>2, <2>3
  <2>5. TotalsUpTo(f, D, n + 1, u)
    BY <2>4 DEF TotalsUpTo
  <2> QED
    BY <2>5
<1>3. Missing = {}
  <2> SUFFICES ASSUME Missing # {} PROVE FALSE
    OBVIOUS
  <2>1. PICK n \in Missing : \A m \in Missing : n <= m
    BY NatMinimum
  <2>2. n # 0
    BY <1>1
  <2>3. n - 1 \in Nat /\ n - 1 \notin Missing
    BY <2>1, <2>2
  <2>4. \E t : TotalsUpTo(f, D, n - 1, t)
    BY <2>3
  <2> QED
    BY <1>2, <2>3, <2>4
<1>4. PICK t : TotalsUpTo(f, D, Cardinality(D), t)
  BY <1>3, FS_CardinalityType
<1>5. Upto(Cardinality(D)) = SUBSET D
  BY FS_Subset
<1> QED
  BY <1>4, <1>5 DEF TotalsUpTo, IsTotals

(* The equation of the sums.                                               *)
LEMMA TotalsEquation ==
  ASSUME NEW f, NEW D, IsFiniteSet(D), NEW s \in SUBSET D
  PROVE  Totals(f, D)[s] =
           IF s = {} THEN 0 ELSE f[Some(s)] + Totals(f, D)[s \ {Some(s)}]
<1>1. IsTotals(f, D, Totals(f, D))
  BY TotalsExist DEF Totals
<1> QED
  BY <1>1 DEF IsTotals

(* A sum of natural numbers is one.                                        *)
LEMMA TotalsType ==
  ASSUME NEW D, IsFiniteSet(D), NEW f, \A x \in D : f[x] \in Nat, NEW s \in SUBSET D
  PROVE  Totals(f, D)[s] \in Nat
<1> DEFINE Bad == {r \in SUBSET D : Totals(f, D)[r] \notin Nat}
<1> SUFFICES ASSUME Bad # {} PROVE FALSE
  OBVIOUS
<1>1. PICK r \in Bad : \A q \in Bad : Cardinality(r) <= Cardinality(q)
  BY SmallestSubset
<1>2. r # {}
  <2>1. Totals(f, D)[r] = IF r = {} THEN 0 ELSE f[Some(r)] + Totals(f, D)[r \ {Some(r)}]
    BY <1>1, TotalsEquation
  <2> QED
    BY <1>1, <2>1
<1>3. r \ {Some(r)} \in SUBSET D /\ r \ {Some(r)} \notin Bad
  BY <1>1, <1>2, OneFewer, SomeIsElement
<1>4. Totals(f, D)[r] = f[Some(r)] + Totals(f, D)[r \ {Some(r)}]
  BY <1>2, TotalsEquation
<1>5. f[Some(r)] \in Nat
  BY <1>2, SomeIsElement
<1> QED
  BY <1>1, <1>3, <1>4, <1>5

(* Any element can be the one that is taken out.                           *)
LEMMA TotalsWithout ==
  ASSUME NEW D, IsFiniteSet(D), NEW f, \A x \in D : f[x] \in Nat,
         NEW s \in SUBSET D, NEW x \in s
  PROVE  Totals(f, D)[s] = f[x] + Totals(f, D)[s \ {x}]
<1> DEFINE T == Totals(f, D)
           Bad == {r \in SUBSET D : \E y \in r : T[r] # f[y] + T[r \ {y}]}
<1> SUFFICES ASSUME Bad # {} PROVE FALSE
  OBVIOUS
<1>1. PICK r \in Bad : \A q \in Bad : Cardinality(r) <= Cardinality(q)
  BY SmallestSubset
<1>2. PICK y \in r : T[r] # f[y] + T[r \ {y}]
  BY <1>1
<1> DEFINE c == Some(r)
<1>3. c \in r /\ T[r] = f[c] + T[r \ {c}]
  BY <1>1, <1>2, TotalsEquation, SomeIsElement
<1>4. c # y
  BY <1>2, <1>3
<1>5. r \ {c} \in SUBSET D /\ r \ {c} \notin Bad
  BY <1>1, <1>3, OneFewer
<1>6. r \ {y} \in SUBSET D /\ r \ {y} \notin Bad
  <2>1. /\ r \ {y} \in SUBSET D
        /\ Cardinality(r \ {y}) < Cardinality(r)
        /\ Cardinality(r) \in Nat /\ Cardinality(r \ {y}) \in Nat
    BY <1>1, <1>2, OneFewer
  <2>2. r \ {y} \in Bad => Cardinality(r) <= Cardinality(r \ {y})
    BY <1>1
  <2> HIDE DEF Bad
  <2> QED
    BY <2>1, <2>2
<1> HIDE DEF c
<1>7. T[r \ {c}] = f[y] + T[(r \ {c}) \ {y}]
  BY <1>2, <1>4, <1>5
<1>8. T[r \ {y}] = f[c] + T[(r \ {y}) \ {c}]
  BY <1>3, <1>4, <1>6
<1>9. (r \ {c}) \ {y} = (r \ {y}) \ {c} /\ (r \ {c}) \ {y} \in SUBSET D
  BY <1>1
<1>10. f[c] \in Nat /\ f[y] \in Nat /\ T[(r \ {c}) \ {y}] \in Nat
  BY <1>1, <1>2, <1>3, <1>9, TotalsType
<1> DEFINE rest == T[(r \ {c}) \ {y}]
<1>11. T[r] = f[c] + (f[y] + rest)
  BY <1>3, <1>7
<1>12. T[r \ {y}] = f[c] + rest
  BY <1>8, <1>9
<1>13. f[c] + (f[y] + rest) = f[y] + (f[c] + rest)
  <2>1. f[c] \in Nat /\ f[y] \in Nat /\ rest \in Nat
    BY <1>10
  <2> HIDE DEF rest
  <2> QED
    BY <2>1
<1> QED
  BY <1>2, <1>11, <1>12, <1>13

(* Functions that agree have the same sums.                                *)
LEMMA TotalsAgree ==
  ASSUME NEW D, IsFiniteSet(D), NEW E, IsFiniteSet(E), D \subseteq E,
         NEW f, NEW g, \A x \in D : f[x] = g[x]
  PROVE  Totals(f, D)[D] = Totals(g, E)[D]
<1> DEFINE Bad == {r \in SUBSET D : Totals(f, D)[r] # Totals(g, E)[r]}
<1> SUFFICES ASSUME Bad # {} PROVE FALSE
  OBVIOUS
<1>1. PICK r \in Bad : \A q \in Bad : Cardinality(r) <= Cardinality(q)
  BY SmallestSubset
<1>2. /\ Totals(f, D)[r] = IF r = {} THEN 0 ELSE f[Some(r)] + Totals(f, D)[r \ {Some(r)}]
      /\ Totals(g, E)[r] = IF r = {} THEN 0 ELSE g[Some(r)] + Totals(g, E)[r \ {Some(r)}]
  BY TotalsEquation
<1>3. r # {}
  BY <1>1, <1>2
<1>4. r \ {Some(r)} \in SUBSET D /\ r \ {Some(r)} \notin Bad
  BY <1>1, <1>3, OneFewer, SomeIsElement
<1>5. Some(r) \in D
  BY <1>3, SomeIsElement
<1> QED
  BY <1>1, <1>2, <1>3, <1>4, <1>5

(* The fold computes this sum.                                            *)
LEMMA SumIsTotal == \A f : SumOf(f) = Totals(f, DOMAIN f)[DOMAIN f]
  BY DEF SumOf, MapThenSumSet, MapThenFoldSet, Totals, IsTotals, Some

(* The sum of no files.                                                    *)
LEMMA SumOfNone == ASSUME NEW f, DOMAIN f = {} PROVE SumOf(f) = 0
  BY SumIsTotal, TotalsEquation, FS_EmptySet

(* The sum with one file more.                                             *)
LEMMA SumOfOneMore ==
  ASSUME NEW f, IsFiniteSet(DOMAIN f), \A x \in DOMAIN f : f[x] \in Nat,
         NEW p, p \notin DOMAIN f, NEW n \in Nat,
         NEW g, g = [q \in DOMAIN f \cup {p} |-> IF q = p THEN n ELSE f[q]]
  PROVE  SumOf(f) \in Nat /\ SumOf(g) = SumOf(f) + n
<1> DEFINE D == DOMAIN f
           E == DOMAIN f \cup {p}
<1>1. IsFiniteSet(E) /\ DOMAIN g = E /\ \A x \in E : g[x] \in Nat
  BY FS_AddElement
<1>2. Totals(g, E)[E] = g[p] + Totals(g, E)[E \ {p}]
  BY <1>1, TotalsWithout
<1>3. E \ {p} = D /\ g[p] = n
  OBVIOUS
<1>4. Totals(g, E)[D] = Totals(f, D)[D]
  BY <1>1, TotalsAgree
<1>5. Totals(f, D)[D] \in Nat
  BY TotalsType
<1> QED
  BY <1>1, <1>2, <1>3, <1>4, <1>5, SumIsTotal

-----------------------------------------------------------------------------
(* The extraction. *)

Int64 == -MaxInt - 1 .. MaxInt

(* What the counters can hold is not changed.                              *)
LEMMA WrapIsExact ==
  ASSUME NEW n \in 0..MaxInt
  PROVE  Wrap(n) = n
<1>1. MaxInt \in Nat /\ n \in Nat
  BY ExtractionAssumption
<1> DEFINE values == 2 * (MaxInt + 1)
<1>2. values \in Nat /\ n < values
  BY <1>1
<1>3. n % values = n
  <2> HIDE DEF values
  <2> QED
    BY <1>1, <1>2
<1> QED
  BY <1>1, <1>3 DEF Wrap

(* A size that is accepted fits, so that the counter does not overflow.    *)
LEMMA AcceptedFits ==
  ASSUME Valid, maxEntryBytes \in Int64, maxTotalBytes \in Int64, totalBytes \in Nat,
         NEW size \in Int, SizeAccepted(size)
  PROVE  /\ size \in Nat /\ size <= maxEntryBytes
         /\ totalBytes + size <= maxTotalBytes
         /\ Wrap(totalBytes + size) = totalBytes + size
<1>0. MaxInt \in Nat
  BY ExtractionAssumption
<1>1. size \in Nat /\ size <= maxEntryBytes /\ maxEntryBytes <= maxTotalBytes
  BY DEF SizeAccepted, Valid, Int64
<1>2. maxTotalBytes - size \in 0..MaxInt
  BY <1>0, <1>1 DEF Int64
<1>3. totalBytes <= maxTotalBytes - size
  BY <1>2, WrapIsExact DEF SizeAccepted
<1>4. totalBytes + size \in 0..MaxInt /\ totalBytes + size <= maxTotalBytes
  BY <1>0, <1>1, <1>3 DEF Int64
<1> QED
  BY <1>1, <1>4, WrapIsExact

Types ==
  /\ pc \in {"validate", "stage", "extract", "delete", "rename", "unwind", "ok",
             "failed", "crashed"}
  /\ maxEntries \in Int64 /\ maxEntryBytes \in Int64 /\ maxTotalBytes \in Int64
  /\ entryCount \in Nat /\ totalBytes \in Nat
  /\ IsFiniteSet(DOMAIN files)
  /\ files \in [DOMAIN files -> Nat]

(* What is on disk is within the counters, and these within the limits.    *)
Counted ==
  /\ pc = "validate" => DOMAIN files = {} /\ ~staging /\ entryCount = 0 /\ totalBytes = 0
  /\ pc = "stage" => DOMAIN files = {} /\ ~staging /\ Valid /\ entryCount = 0 /\ totalBytes = 0
  /\ pc = "extract" => /\ staging /\ Valid
                       /\ Cardinality(DOMAIN files) <= entryCount
                       /\ entryCount <= maxEntries
                       /\ SumOf(files) <= totalBytes
                       /\ totalBytes <= maxTotalBytes
  /\ staging => /\ Cardinality(DOMAIN files) <= maxEntries
                /\ \A p \in DOMAIN files : files[p] <= maxEntryBytes
                /\ SumOf(files) <= maxTotalBytes

(* The files are those that were declared, until one fails.                *)
Declared ==
  /\ complete \/ pc \in {"validate", "stage", "extract"} =>
       \A h \in headers : h.path \in DOMAIN files /\ (files[h.path] = h.size \/ h.path \in lost)
  /\ pc \in {"validate", "stage", "extract"} => ~complete
  /\ pc \in {"delete", "rename", "ok"} => complete

(* Where the staging directory and the destination are.                    *)
Placed ==
  /\ before \in {"absent", "old"} /\ dest \in {"absent", "old", "damaged", "extracted"}
  /\ dest # before => complete
  /\ pc \in {"ok", "failed"} => ~staging \/ unremoved
  /\ pc \in {"validate", "stage"} => ~staging
  /\ pc = "ok" <=> dest = "extracted"

ExtractInv == Types /\ Counted /\ Declared /\ Placed

(* The initial states.                                                     *)
LEMMA InitExtracts ==
  ASSUME Init
  PROVE  ExtractInv
<1>1. DOMAIN files = {} /\ files \in [DOMAIN files -> Nat]
  BY DEF Init
<1>2. Types
  BY <1>1, FS_EmptySet, ExtractionAssumption DEF Init, Types, Int64
<1>3. Counted
  BY <1>1 DEF Init, Counted
<1>4. Declared /\ Placed
  BY DEF Init, Declared, Placed
<1> QED
  BY <1>2, <1>3, <1>4 DEF ExtractInv

(* One file more, of a size that was accepted.                             *)
LEMMA FileAdded ==
  ASSUME ExtractInv, pc = "extract", NEW p, p \notin DOMAIN files, NEW n \in Nat
  PROVE  /\ IsFiniteSet(DOMAIN Holding(p, n))
         /\ Holding(p, n) \in [DOMAIN Holding(p, n) -> Nat]
         /\ DOMAIN Holding(p, n) = DOMAIN files \cup {p}
         /\ Cardinality(DOMAIN Holding(p, n)) <= entryCount + 1
         /\ SumOf(Holding(p, n)) \in Nat /\ SumOf(Holding(p, n)) <= totalBytes + n
         /\ n <= maxEntryBytes => \A q \in DOMAIN Holding(p, n) : Holding(p, n)[q] <= maxEntryBytes
<1> USE DEF ExtractInv, Types
<1>1. Holding(p, n) = [q \in DOMAIN files \cup {p} |-> IF q = p THEN n ELSE files[q]]
  BY DEF Holding
<1>2. IsFiniteSet(DOMAIN files \cup {p}) /\ Cardinality(DOMAIN files \cup {p}) = Cardinality(DOMAIN files) + 1
  BY FS_AddElement
<1>3. Cardinality(DOMAIN files) \in Nat /\ Cardinality(DOMAIN files) <= entryCount
  BY FS_CardinalityType DEF Counted
<1>4. SumOf(files) \in Nat /\ SumOf(Holding(p, n)) = SumOf(files) + n
  BY <1>1, SumOfOneMore
<1>5. SumOf(files) <= totalBytes
  BY DEF Counted
<1>6. ASSUME n <= maxEntryBytes, NEW q \in DOMAIN files \cup {p}
      PROVE  Holding(p, n)[q] <= maxEntryBytes
  BY <1>1, <1>6 DEF Counted
<1> QED
  BY <1>1, <1>2, <1>3, <1>4, <1>5, <1>6

(* A regular file that is whole, or whose Close failed.                    *)
LEMMA FileExtracted ==
  ASSUME ExtractInv, NEW p \in Path, NEW size \in Size, RegularFile(p, size), SizeAccepted(size),
         CanCreate(p), UNCHANGED pc,
         NEW n \in Nat, n = 0 \/ n = size, files' = Holding(p, n),
         totalBytes' = Wrap(totalBytes + size),
         (n = size /\ lost' = lost) \/ lost' = lost \cup {p}
  PROVE  ExtractInv'
<1>0. p \notin DOMAIN files /\ pc = "extract" /\ entryCount < maxEntries /\ entryCount' = entryCount + 1
  BY DEF CanCreate, RegularFile, CountsEntry
<1>1. UNCHANGED <<maxEntries, maxEntryBytes, maxTotalBytes, staging, before, dest, complete, unremoved>>
  BY DEF RegularFile, limits
<1>2. Valid /\ Types /\ staging /\ maxEntries \in Int /\ maxTotalBytes \in Int /\ maxEntryBytes \in Int
  BY <1>0, ExtractionAssumption DEF ExtractInv, Counted, Types, Int64
<1>3. size \in Int
  BY ExtractionAssumption
<1>4. /\ size \in Nat /\ size <= maxEntryBytes /\ totalBytes + size <= maxTotalBytes
      /\ totalBytes' = totalBytes + size
  BY <1>2, <1>3, AcceptedFits DEF Types
<1>5. n <= maxEntryBytes /\ n <= size
  BY <1>2, <1>4
<1>10. /\ IsFiniteSet(DOMAIN files') /\ files' \in [DOMAIN files' -> Nat]
       /\ Cardinality(DOMAIN files') <= entryCount + 1
  BY <1>0, FileAdded
<1>6. Types'
  <2>1. totalBytes' \in Nat /\ entryCount' \in Nat
    BY <1>0, <1>2, <1>4 DEF Types
  <2> QED
    BY <1>0, <1>1, <1>2, <1>10, <2>1 DEF Types
<1>7. Counted'
  <2>1. Cardinality(DOMAIN files') <= entryCount' /\ entryCount' <= maxEntries
    BY <1>0, <1>2, <1>10 DEF Types
  <2>2. SumOf(files') <= totalBytes'
    <3>1. SumOf(files') \in Nat /\ SumOf(files') <= totalBytes + n
      BY <1>0, FileAdded
    <3> QED
      BY <1>2, <1>4, <1>5, <3>1 DEF Types
  <2>3. \A q \in DOMAIN files' : files'[q] <= maxEntryBytes
    BY <1>0, <1>5, FileAdded
  <2>4. Cardinality(DOMAIN files') \in Nat /\ SumOf(files') \in Nat
    <3>1. Cardinality(DOMAIN files') \in Nat
      BY <1>10, FS_CardinalityType
    <3>2. SumOf(files') \in Nat
      BY <1>0, FileAdded
    <3> QED
      BY <3>1, <3>2
  <2> QED
    BY <1>0, <1>1, <1>2, <1>4, <2>1, <2>2, <2>3, <2>4 DEF Counted, Valid, Types
<1>8. Declared'
  <2>1. headers' = headers \cup {[path |-> p, size |-> size]}
    BY DEF RegularFile
  <2>2. \A h \in headers : h.path \in DOMAIN files /\ (files[h.path] = h.size \/ h.path \in lost)
    BY <1>0 DEF ExtractInv, Declared
  <2>3. /\ files' = [q \in DOMAIN files \cup {p} |-> IF q = p THEN n ELSE files[q]]
        /\ lost \subseteq lost' /\ (n = size \/ p \in lost')
    BY DEF Holding
  <2>4. \A h \in headers' : h.path \in DOMAIN files' /\ (files'[h.path] = h.size \/ h.path \in lost')
    BY <1>0, <2>1, <2>2, <2>3
  <2> QED
    BY <1>0, <1>1, <2>4 DEF ExtractInv, Declared
<1>9. Placed'
  BY <1>0, <1>1 DEF ExtractInv, Placed
<1> QED
  BY <1>6, <1>7, <1>8, <1>9 DEF ExtractInv

(* A regular file that fails may have left bytes, within the limits.       *)
LEMMA FileFailed ==
  ASSUME ExtractInv, NEW p \in Path, NEW size \in Size, RegularFile(p, size),
         OnError, UNCHANGED <<totalBytes, lost>>,
         \/ files' = files
         \/ /\ SizeAccepted(size) /\ CanCreate(p)
            /\ files' \in {Holding(p, 0), Holding(p, size)}
  PROVE  ExtractInv'
<1>0. pc = "extract" /\ pc' = "unwind" /\ entryCount < maxEntries /\ entryCount' = entryCount + 1
  BY DEF RegularFile, CountsEntry, OnError
<1>1. UNCHANGED <<maxEntries, maxEntryBytes, maxTotalBytes, staging, before, dest, complete, unremoved>>
  BY DEF RegularFile, limits
<1>2. Valid /\ Types /\ staging /\ maxEntries \in Int /\ maxTotalBytes \in Int /\ maxEntryBytes \in Int
  BY <1>0, ExtractionAssumption DEF ExtractInv, Counted, Types, Int64
<1>3. Declared' /\ Placed'
  BY <1>0, <1>1 DEF ExtractInv, Declared, Placed
<1>4. CASE files' = files
  <2>1. Types'
    BY <1>0, <1>1, <1>2, <1>4 DEF Types
  <2>2. Counted'
    BY <1>0, <1>1, <1>2, <1>4 DEF ExtractInv, Counted
  <2> QED
    BY <1>3, <2>1, <2>2 DEF ExtractInv
<1>5. ASSUME NEW n \in Nat, n <= size, SizeAccepted(size), CanCreate(p), files' = Holding(p, n)
      PROVE  ExtractInv'
  <2>1. p \notin DOMAIN files /\ size \in Int
    BY <1>5, ExtractionAssumption DEF CanCreate
  <2>2. size \in Nat /\ size <= maxEntryBytes /\ totalBytes + size <= maxTotalBytes
    BY <1>2, <1>5, <2>1, AcceptedFits DEF Types
  <2>3. n <= maxEntryBytes /\ totalBytes + n <= maxTotalBytes
    BY <1>2, <1>5, <2>2 DEF Types
  <2>4. Types'
    <3>1. IsFiniteSet(DOMAIN files') /\ files' \in [DOMAIN files' -> Nat]
      BY <1>0, <1>5, <2>1, FileAdded
    <3>2. totalBytes' \in Nat /\ entryCount' \in Nat
      BY <1>0, <1>2 DEF Types
    <3> QED
      BY <1>0, <1>1, <1>2, <3>1, <3>2 DEF Types
  <2>5. SumOf(files') <= maxTotalBytes
    <3>1. SumOf(files') \in Nat /\ SumOf(files') <= totalBytes + n
      BY <1>0, <1>5, <2>1, FileAdded
    <3> QED
      BY <1>2, <2>3, <3>1 DEF Types
  <2>6. Cardinality(DOMAIN files') <= maxEntries
    <3>1. Cardinality(DOMAIN files') <= entryCount + 1 /\ IsFiniteSet(DOMAIN files')
      BY <1>0, <1>5, <2>1, FileAdded
    <3>2. Cardinality(DOMAIN files') \in Nat
      BY <3>1, FS_CardinalityType
    <3> QED
      BY <1>0, <1>2, <3>1, <3>2 DEF Types
  <2>7. \A q \in DOMAIN files' : files'[q] <= maxEntryBytes
    BY <1>0, <1>5, <2>1, <2>3, FileAdded
  <2>8. Counted'
    BY <1>0, <1>1, <2>5, <2>6, <2>7 DEF Counted
  <2> QED
    BY <1>3, <2>4, <2>8 DEF ExtractInv
<1>6. CASE SizeAccepted(size) /\ CanCreate(p) /\ files' \in {Holding(p, 0), Holding(p, size)}
  <2>1. size \in Nat
    BY <1>6, ExtractionAssumption DEF SizeAccepted
  <2> QED
    BY <1>5, <1>6, <2>1
<1> QED
  BY <1>4, <1>6

(* A regular file: extracted, extracted in part, or refused.               *)
LEMMA RegularFileKeeps ==
  ASSUME ExtractInv, NEW p \in Path, NEW size \in Size, RegularFile(p, size)
  PROVE  ExtractInv'
<1>1. SizeAccepted(size) => size \in Nat
  BY ExtractionAssumption DEF SizeAccepted
<1>2. CASE SizeAccepted(size) /\ CanCreate(p) /\ UNCHANGED pc
           /\ files' = Holding(p, size) /\ totalBytes' = Wrap(totalBytes + size) /\ lost' = lost
  BY <1>1, <1>2, FileExtracted
<1>3. CASE SizeAccepted(size) /\ CanCreate(p) /\ UNCHANGED pc
           /\ files' = Holding(p, 0) /\ totalBytes' = Wrap(totalBytes + size)
           /\ lost' = lost \cup {p}
  <2>1. 0 \in Nat
    OBVIOUS
  <2> QED
    BY <1>3, <2>1, FileExtracted
<1>4. CASE OnError /\ UNCHANGED <<totalBytes, lost>>
           /\ \/ files' = files
              \/ /\ SizeAccepted(size) /\ CanCreate(p)
                 /\ files' \in {Holding(p, 0), Holding(p, size)}
  BY <1>4, FileFailed
<1> QED
  BY <1>2, <1>3, <1>4 DEF RegularFile, tree

(* The steps that write no file.                                           *)
LEMMA OtherStepsKeep ==
  ASSUME ExtractInv, UNCHANGED <<limits, files, lost, before, headers>>,
         UNCHANGED totalBytes, entryCount' \in {entryCount, entryCount + 1}
  PROVE  /\ Types /\ (pc' \in {"validate", "stage", "extract", "delete", "rename", "unwind",
                                "ok", "failed", "crashed"} => Types')
         /\ IsFiniteSet(DOMAIN files) /\ Cardinality(DOMAIN files) \in Nat
         /\ SumOf(files') = SumOf(files)
<1>1. Types
  BY DEF ExtractInv
<1> QED
  BY <1>1, FS_CardinalityType DEF Types, limits

(* A step of UnTar keeps the invariant.                                    *)
LEMMA StepKeeps ==
  ASSUME ExtractInv, [Next]_vars
  PROVE  ExtractInv'
<1> USE DEF counters, tree, history, limits
<1>1. CASE Validate
  <2>1. Types'
    BY <1>1, OtherStepsKeep DEF Validate
  <2> QED
    BY <1>1, <2>1 DEF Validate, ExtractInv, Counted, Declared, Placed, Valid
<1>2. CASE Stage
  <2>1. Types' /\ SumOf(files) = 0 /\ Cardinality(DOMAIN files) = 0
    BY <1>2, OtherStepsKeep, SumOfNone, FS_EmptySet DEF Stage, ExtractInv, Counted
  <2>2. Types /\ maxEntries \in Int /\ maxTotalBytes \in Int
    BY ExtractionAssumption DEF ExtractInv, Types, Int64
  <2> QED
    BY <1>2, <2>1, <2>2 DEF Stage, ExtractInv, Counted, Declared, Placed, Valid
<1>3. CASE ReadFails \/ TooManyEntries
  <2>1. Types'
    BY <1>3, OtherStepsKeep DEF ReadFails, TooManyEntries, OnError
  <2> QED
    BY <1>3, <2>1 DEF ReadFails, TooManyEntries, OnError, ExtractInv, Counted, Declared, Placed
<1>4. CASE EndOfArchive
  <2>1. Types'
    BY <1>4, OtherStepsKeep DEF EndOfArchive
  <2> QED
    BY <1>4, <2>1 DEF EndOfArchive, ExtractInv, Counted, Declared, Placed
<1>5. CASE \E p \in Path : Directory(p)
  <2>1. Types' /\ Cardinality(DOMAIN files) \in Nat
    BY <1>5, OtherStepsKeep DEF Directory, CountsEntry, OnError, ExtractInv, Types
  <2>2. Types /\ maxEntries \in Int
    BY ExtractionAssumption DEF ExtractInv, Types, Int64
  <2> QED
    BY <1>5, <2>1, <2>2
       DEF Directory, CountsEntry, OnError, ExtractInv, Types, Counted, Declared, Placed, Valid
<1>6. CASE \E p \in Path, size \in Size : RegularFile(p, size)
  BY <1>6, RegularFileKeeps
<1>7. CASE Delete
  <2>1. Types'
    BY <1>7, OtherStepsKeep DEF Delete
  <2> QED
    BY <1>7, <2>1 DEF Delete, ExtractInv, Counted, Declared, Placed
<1>8. CASE Rename
  <2>1. Types'
    BY <1>8, OtherStepsKeep DEF Rename, AfterRenameError
  <2> QED
    BY <1>8, <2>1 DEF Rename, AfterRenameError, ExtractInv, Counted, Declared, Placed
<1>9. CASE RemoveStaging
  <2>1. Types'
    BY <1>9, OtherStepsKeep DEF RemoveStaging
  <2> QED
    BY <1>9, <2>1 DEF RemoveStaging, ExtractInv, Counted, Declared, Placed
<1>10. CASE Crash
  <2>1. Types'
    BY <1>10, OtherStepsKeep DEF Crash
  <2> QED
    BY <1>10, <2>1 DEF Crash, ExtractInv, Counted, Declared, Placed
<1>11. CASE UNCHANGED vars
  BY <1>11 DEF vars, ExtractInv, Types, Counted, Declared, Placed, Valid
<1> QED
  BY <1>1, <1>2, <1>3, <1>4, <1>5, <1>6, <1>7, <1>8, <1>9, <1>10, <1>11 DEF Next

(* What is on disk is within the counters and within the limits.           *)
LEMMA Invariance == Spec => []ExtractInv
<1>1. Init => ExtractInv
  BY InitExtracts
<1>2. ExtractInv /\ [Next]_vars => ExtractInv'
  BY StepKeeps
<1> QED
  BY <1>1, <1>2, PTL DEF Spec

-----------------------------------------------------------------------------

(* Whatever the archive declares, the files on disk stay within the limits *)
(* on their number, on each and on all of them, without overflow.          *)
THEOREM LimitsAreKept == Spec => []LimitsHold
<1>1. SumOf(files) = MapThenSumSet(LAMBDA p : files[p], DOMAIN files)
  BY DEF SumOf
<1>2. ExtractInv => LimitsHold
  BY <1>1 DEF ExtractInv, Counted, LimitsHold
<1> QED
  BY <1>2, Invariance, PTL

(* The destination is touched only when the whole archive was extracted,   *)
(* and what replaces it holds every declared file.                         *)
THEOREM DestinationWhole == Spec => []DestinationIsWhole
<1>1. ExtractInv => DestinationIsWhole
  BY DEF ExtractInv, Declared, Placed, DestinationIsWhole
<1> QED
  BY <1>1, Invariance, PTL

(* A call that returns leaves no staging directory, unless removing it     *)
(* failed, and succeeds exactly when the destination was replaced.         *)
THEOREM ReturnsAreClean == Spec => []ReturnIsClean
<1>1. ExtractInv => ReturnIsClean
  BY DEF ExtractInv, Placed, ReturnIsClean
<1> QED
  BY <1>1, Invariance, PTL
=============================================================================
