------------------------- MODULE SharedStorage_proofs -------------------------
(***************************************************************************)
(* Runs never empty a backend, for any page size and any content: a single *)
(* archiver not at all, and any number of uncoordinated ones as long as    *)
(* each starts its retention soon after its own upload.                    *)
(***************************************************************************)
EXTENDS SharedStorage, FiniteSetTheorems, WellFoundedInduction, TLAPS

(* The clock bounds what is stored, and what is stored bounds the clock a  *)
(* run prunes by: that is why the newest backup never looks expired.       *)
Clocks ==
  /\ newest <= now /\ now # Absent
  /\ \A a \in Archiver :
       /\ stage[a] = "stored" => stored[a] <= newest /\ now <= stored[a] + MaxStall
       /\ stage[a] = "prune" => stored[a] <= newest
                                  /\ cut[a] <= stored[a] + MaxStall + MaxSkew

(* What a run is about to delete is gone or as old as the page showed it:  *)
(* nobody stores under a name that was listed.                             *)
RunPlans(a) ==
  /\ own[a] = Nobody \/ own[a] \in used
  /\ plan[a] \subseteq used
  /\ plan[a] # {} => stage[a] = "prune"
  /\ \A n \in plan[a] : modified[n] = Absent \/ cut[a] > modified[n] + ExpiryDays
  /\ stage[a] = "upload" =>
       /\ own[a] \in Name /\ modified[own[a]] = Absent
       /\ \A c \in Archiver :
            /\ own[a] \notin plan[c]
            /\ c # a => own[c] # own[a]

Plans ==
  /\ \A n \in Name : modified[n] # Absent => n \in used
  /\ truncated \subseteq Stored
  /\ \A a \in Archiver : RunPlans(a)

Types ==
  /\ now \in Nat
  /\ modified \in [Name -> Nat]
  /\ used \subseteq Name
  /\ newest \in Nat
  /\ stage \in [Archiver -> {"idle", "upload", "stored", "prune", "done"}]
  /\ own \in [Archiver -> Name \cup {Nobody}]
  /\ stored \in [Archiver -> Nat]
  /\ cut \in [Archiver -> Nat]
  /\ plan \in [Archiver -> SUBSET Name]

BaseInv == Types /\ Clocks /\ Plans

StorageInv == BaseInv /\ NewestSurvives

-----------------------------------------------------------------------------

(* No name is the absence of one.                                          *)
LEMMA NobodyIsNoName == Nobody \notin Name
  BY DEF Nobody, Name

(* What a page shows is stored.                                            *)
LEMMA PageIsStored ==
  ASSUME NEW from
  PROVE  Page(from) \subseteq Stored /\ Stored \subseteq Name
  BY DEF Page, Stored

(* The heart of the matter: nothing that a run deletes is as recent as the *)
(* newest backup, because the run's own backup is not.                     *)
LEMMA DeletedIsOlder ==
  ASSUME BaseInv, Prompt, NEW a \in Archiver, stage[a] = "prune",
         NEW n \in plan[a], modified[n] # Absent
  PROVE  modified[n] < newest
PROOF
<1>1. modified[n] + ExpiryDays < cut[a]
  BY DEF BaseInv, Plans, RunPlans
<1>2. cut[a] <= stored[a] + MaxStall + MaxSkew /\ stored[a] <= newest
  BY DEF BaseInv, Clocks
<1>3. MaxStall + MaxSkew <= ExpiryDays
  BY DEF Prompt
<1>4. /\ modified[n] \in Nat /\ newest \in Nat /\ cut[a] \in Nat /\ stored[a] \in Nat
  BY DEF BaseInv, Types
<1> QED
  BY <1>1, <1>2, <1>3, <1>4, SharedStorageAssumption

(* Some backup that is as recent as any is not about to be deleted by a.   *)
Spared(a) == newest # Absent => \E m \in Whole : modified[m] = newest /\ m \notin plan[a]

(* A plan spares some newest backup when retention is prompt.              *)
LEMMA PromptSpares ==
  ASSUME StorageInv, Prompt, NEW a \in Archiver, stage[a] = "prune"
  PROVE  Spared(a)
PROOF
<1> SUFFICES ASSUME newest # Absent
    PROVE  \E m \in Whole : modified[m] = newest /\ m \notin plan[a]
  BY DEF Spared
<1>1. PICK m \in Whole : modified[m] = newest
  BY DEF StorageInv, NewestSurvives
<1>2. newest \in Nat
  BY DEF StorageInv, BaseInv, Types
<1>3. m \notin plan[a]
  BY <1>1, <1>2, DeletedIsOlder DEF StorageInv
<1> QED
  BY <1>1, <1>3

(* Time passes.                                                            *)
LEMMA TickPreserves ==
  ASSUME BaseInv, Tick
  PROVE  BaseInv' /\ (NewestSurvives => NewestSurvives')
PROOF
<1> USE SharedStorageAssumption DEF BaseInv, Tick, bucket, runs
<1>1. Types' /\ Plans'
  BY DEF Types, Plans, RunPlans, Stored
<1>2. Clocks'
  BY DEF Types, Clocks, Absent
<1>3. (NewestSurvives => NewestSurvives')
  BY DEF NewestSurvives, Whole, Stored
<1> QED
  BY <1>1, <1>2, <1>3

(* A new run takes a name that nobody has had.                             *)
LEMMA StartPreserves ==
  ASSUME BaseInv, NEW a \in Archiver, StartRun(a)
  PROVE  BaseInv' /\ (NewestSurvives => NewestSurvives')
PROOF
<1> USE SharedStorageAssumption DEF BaseInv, bucket
<1>1. PICK n \in Name \ used :
        own' = [own EXCEPT ![a] = n] /\ used' = used \cup {n}
  BY DEF StartRun
<1>2. /\ stage[a] \in {"idle", "done"} /\ stage' = [stage EXCEPT ![a] = "upload"]
      /\ stored' = [stored EXCEPT ![a] = 0] /\ cut' = [cut EXCEPT ![a] = 0]
      /\ UNCHANGED <<now, modified, truncated, newest, plan>>
  BY DEF StartRun
<1>3. Types'
  BY <1>1, <1>2 DEF Types
<1>4. Clocks'
  BY <1>2 DEF Types, Clocks
<1>5. Plans'
  <2> SUFFICES ASSUME NEW c \in Archiver PROVE RunPlans(c)'
    BY <1>1, <1>2 DEF Plans, Stored
  <2>1. CASE c = a
    <3>1. plan[a] = {}
      BY <1>2 DEF Plans, RunPlans
    <3> QED
      BY <1>1, <1>2, <2>1, <3>1, NobodyIsNoName DEF Types, Plans, RunPlans
  <2>2. CASE c # a
    <3>1. /\ own'[c] = own[c] /\ stage'[c] = stage[c] /\ cut'[c] = cut[c]
          /\ plan' = plan /\ modified' = modified
      BY <1>1, <1>2, <2>2 DEF Types
    <3>2. \A d \in Archiver : own'[d] = own[d] \/ own'[d] = n
      BY <1>1 DEF Types
    <3>3. own[c] # n /\ used \subseteq used'
      BY <1>1, NobodyIsNoName DEF Plans, RunPlans
    <3> QED
      BY <3>1, <3>2, <3>3 DEF Plans, RunPlans
  <2> QED
    BY <2>1, <2>2
<1>6. (NewestSurvives => NewestSurvives')
  BY <1>2 DEF NewestSurvives, Whole, Stored
<1> QED
  BY <1>3, <1>4, <1>5, <1>6

(* Storing the whole archive under an own, unused name makes it the newest *)
(* backup; storing a part of it leaves the newest one where it is.         *)
LEMMA StorePreserves ==
  ASSUME BaseInv, NEW a \in Archiver, stage[a] = "upload", Store(a) \/ StorePart(a)
  PROVE  /\ modified' \in [Name -> Nat] /\ newest' \in Nat
         /\ newest <= newest' /\ newest' <= now /\ (Store(a) => newest' = now)
         /\ \A n \in Name : modified'[n] # Absent => n \in used
         /\ truncated' \subseteq Stored'
         /\ \A c \in Archiver : \A n \in plan[c] : modified'[n] = modified[n]
         /\ \A n \in Name : n # own[a] => modified'[n] = modified[n]
         /\ (NewestSurvives => NewestSurvives')
PROOF
<1> USE SharedStorageAssumption
<1>1. /\ modified' = [modified EXCEPT ![own[a]] = now]
      /\ own[a] \in Name /\ own[a] \in used /\ modified[own[a]] = Absent
      /\ \A c \in Archiver : own[a] \notin plan[c]
  BY NobodyIsNoName DEF Store, StorePart, BaseInv, Plans, RunPlans
<1>2. /\ modified \in [Name -> Nat] /\ newest \in Nat /\ now \in Nat
      /\ newest <= now /\ truncated \subseteq Stored
      /\ \A c \in Archiver : plan[c] \subseteq Name
  BY DEF BaseInv, Types, Clocks, Plans
<1>3. modified' \in [Name -> Nat] /\ modified'[own[a]] = now
  BY <1>1, <1>2
<1>4. \A n \in Name : n # own[a] => modified'[n] = modified[n]
  BY <1>1, <1>2
<1>5. \A n \in Name : modified'[n] # Absent => n \in used
  BY <1>1, <1>4 DEF BaseInv, Plans
<1>6. \A c \in Archiver : \A n \in plan[c] : modified'[n] = modified[n]
  BY <1>1, <1>2, <1>4
<1>7. now # Absent
  BY DEF BaseInv, Clocks
<1>8. CASE Store(a)
  <2>1. newest' = now /\ truncated' = truncated
    BY <1>8 DEF Store
  <2>2. truncated \subseteq Stored' /\ own[a] \notin truncated
    BY <1>1, <1>2, <1>4 DEF Stored
  <2>3. (NewestSurvives => NewestSurvives')
    BY <1>1, <1>3, <1>7, <2>1, <2>2 DEF NewestSurvives, Whole, Stored
  <2> QED
    BY <1>2, <1>3, <1>4, <1>5, <1>6, <2>1, <2>2, <2>3
<1>9. CASE StorePart(a) /\ ~Store(a)
  <2>1. newest' = newest /\ truncated' = truncated \cup {own[a]}
    BY <1>9 DEF StorePart
  <2>2. truncated' \subseteq Stored'
    BY <1>1, <1>2, <1>3, <1>4, <1>7, <2>1 DEF Stored
  <2>3. (NewestSurvives => NewestSurvives')
    <3> SUFFICES ASSUME NewestSurvives, newest # Absent
        PROVE  \E m \in Whole' : modified'[m] = newest
      BY <2>1 DEF NewestSurvives
    <3>1. PICK m \in Whole : modified[m] = newest
      BY DEF BaseInv, NewestSurvives
    <3>2. m # own[a] /\ m \in Name /\ m \notin truncated
      BY <1>1, <3>1 DEF Whole, Stored
    <3>3. modified'[m] = newest /\ m \notin truncated'
      BY <1>4, <2>1, <3>1, <3>2
    <3> QED
      BY <3>2, <3>3 DEF Whole, Stored
  <2> QED
    BY <1>2, <1>3, <1>4, <1>5, <1>6, <1>9, <2>1, <2>2, <2>3
<1> QED
  BY <1>8, <1>9

(* What is stored now is no older than anything in a plan.                 *)
LEMMA UploadPreserves ==
  ASSUME BaseInv, NEW a \in Archiver, Upload(a)
  PROVE  BaseInv' /\ (NewestSurvives => NewestSurvives')
PROOF
<1> USE SharedStorageAssumption
<1>1. /\ stage[a] = "upload" /\ Store(a)
      /\ stored' = [stored EXCEPT ![a] = now]
      /\ stage' = [stage EXCEPT ![a] = "stored"]
      /\ UNCHANGED <<now, used, own, cut, plan>>
  BY DEF Upload
<1>2. /\ modified' \in [Name -> Nat] /\ newest' \in Nat
      /\ newest <= newest' /\ newest' = now
      /\ \A n \in Name : modified'[n] # Absent => n \in used
      /\ truncated' \subseteq Stored'
      /\ \A c \in Archiver : \A n \in plan[c] : modified'[n] = modified[n]
      /\ \A n \in Name : n # own[a] => modified'[n] = modified[n]
      /\ (NewestSurvives => NewestSurvives')
  BY <1>1, StorePreserves
<1>3. Types'
  BY <1>1, <1>2 DEF BaseInv, Types
<1>4. Clocks'
  <2>1. \A c \in Archiver : c # a => stored'[c] = stored[c] /\ stage'[c] = stage[c]
    BY <1>1 DEF BaseInv, Types
  <2>2. stored'[a] = now /\ stage'[a] = "stored"
    BY <1>1 DEF BaseInv, Types
  <2> QED
    BY <1>1, <1>2, <2>1, <2>2 DEF BaseInv, Types, Clocks
<1>5. Plans'
  <2> SUFFICES ASSUME NEW c \in Archiver PROVE RunPlans(c)'
    BY <1>1, <1>2 DEF Plans
  <2>1. c # a => stage'[c] = stage[c]
    BY <1>1 DEF BaseInv, Types
  <2>2. plan[a] = {} /\ stage'[a] = "stored"
    BY <1>1 DEF BaseInv, Types, Plans, RunPlans
  <2>3. stage'[c] = "upload" => own[c] # own[a] /\ stage[c] = "upload"
    BY <1>1, <2>1, <2>2 DEF BaseInv, Plans, RunPlans
  <2> QED
    BY <1>1, <1>2, <2>1, <2>2, <2>3 DEF BaseInv, Plans, RunPlans
<1> QED
  BY <1>2, <1>3, <1>4, <1>5 DEF BaseInv

(* A run that ends forgets its plan; its object may have been stored.      *)
LEMMA ForgetPreserves ==
  ASSUME BaseInv, NEW a \in Archiver, Forget(a),
         UNCHANGED <<now, used>>,
         UNCHANGED bucket \/ (stage[a] = "upload" /\ (Store(a) \/ StorePart(a)))
  PROVE  BaseInv' /\ (NewestSurvives => NewestSurvives')
PROOF
<1> USE SharedStorageAssumption
<1>1. /\ modified' \in [Name -> Nat] /\ newest' \in Nat
      /\ newest <= newest' /\ newest' <= now
      /\ \A n \in Name : modified'[n] # Absent => n \in used
      /\ truncated' \subseteq Stored'
      /\ \A c \in Archiver : \A n \in plan[c] : modified'[n] = modified[n]
      /\ \A n \in Name : n # own[a] \/ stage[a] # "upload" => modified'[n] = modified[n]
      /\ (NewestSurvives => NewestSurvives')
  <2>1. CASE stage[a] = "upload" /\ (Store(a) \/ StorePart(a))
    BY <2>1, StorePreserves
  <2>2. CASE UNCHANGED bucket
    BY <2>2 DEF bucket, BaseInv, Types, Clocks, Plans, NewestSurvives, Whole, Stored
  <2> QED
    BY <2>1, <2>2
<1>2. /\ \A c \in Archiver : c # a => /\ stage'[c] = stage[c] /\ own'[c] = own[c]
                                      /\ stored'[c] = stored[c] /\ cut'[c] = cut[c]
                                      /\ plan'[c] = plan[c]
      /\ stage'[a] = "idle" /\ own'[a] = Nobody /\ plan'[a] = {}
  BY DEF Forget, BaseInv, Types
<1>3. Types'
  BY <1>1 DEF BaseInv, Types, Forget
<1>4. Clocks'
  BY <1>1, <1>2 DEF BaseInv, Types, Clocks
<1>5. Plans'
  <2> SUFFICES ASSUME NEW c \in Archiver PROVE RunPlans(c)'
    BY <1>1 DEF Plans
  <2>1. CASE c = a
    BY <1>2, <2>1 DEF RunPlans
  <2>2. CASE c # a
    <3>1. stage[c] = "upload" => modified'[own[c]] = modified[own[c]]
      BY <1>1, <2>2 DEF BaseInv, Plans, RunPlans
    <3>2. stage[c] = "upload" => own[c] # Nobody
      BY NobodyIsNoName DEF BaseInv, Plans, RunPlans
    <3> QED
      BY <1>1, <1>2, <2>2, <3>1, <3>2 DEF BaseInv, Plans, RunPlans
  <2> QED
    BY <2>1, <2>2
<1> QED
  BY <1>1, <1>3, <1>4, <1>5 DEF BaseInv

(* Retention reads a clock that is at most MaxSkew ahead.                  *)
LEMMA BeginPreserves ==
  ASSUME BaseInv, NEW a \in Archiver, BeginRetention(a)
  PROVE  BaseInv' /\ (NewestSurvives => NewestSurvives')
PROOF
<1> USE SharedStorageAssumption
<1>1. PICK clock \in 0..(MaxTime + MaxSkew) :
        clock <= now + MaxSkew /\ cut' = [cut EXCEPT ![a] = clock]
  BY DEF BeginRetention
<1>2. /\ stage[a] = "stored" /\ stage' = [stage EXCEPT ![a] = "prune"]
      /\ plan' = [plan EXCEPT ![a] = {}]
      /\ UNCHANGED <<now, modified, truncated, newest, used, own, stored>>
  BY DEF BeginRetention, bucket
<1>3. Types'
  BY <1>1, <1>2 DEF BaseInv, Types
<1>4. Clocks'
  <2>1. /\ \A c \in Archiver : c # a => cut'[c] = cut[c] /\ stage'[c] = stage[c]
        /\ cut'[a] = clock /\ stage'[a] = "prune"
    BY <1>1, <1>2 DEF BaseInv, Types
  <2>2. /\ now <= stored[a] + MaxStall /\ stored[a] <= newest
        /\ now \in Nat /\ stored[a] \in Nat
    BY <1>2 DEF BaseInv, Types, Clocks
  <2>3. clock <= stored[a] + MaxStall + MaxSkew
    BY <1>1, <2>2
  <2> QED
    BY <1>2, <2>1, <2>2, <2>3 DEF BaseInv, Clocks
<1>5. Plans'
  BY <1>1, <1>2 DEF BaseInv, Types, Plans, RunPlans, Stored
<1>6. (NewestSurvives => NewestSurvives')
  BY <1>2 DEF BaseInv, NewestSurvives, Whole, Stored
<1> QED
  BY <1>3, <1>4, <1>5, <1>6 DEF BaseInv

(* A new plan holds what its page showed as expired.                       *)
LEMMA PrunePreserves ==
  ASSUME BaseInv, NEW a \in Archiver, PrunePage(a)
  PROVE  BaseInv' /\ (NewestSurvives => NewestSurvives')
PROOF
<1> DEFINE page == Page(pruneAt[a])
<1>1. /\ stage[a] = "prune" /\ plan' = [plan EXCEPT ![a] = Chosen(a, page)]
      /\ UNCHANGED <<now, modified, truncated, newest, used, stage, own, stored, cut>>
  BY DEF PrunePage, bucket
<1>2. /\ Chosen(a, page) \subseteq Name
      /\ \A n \in Chosen(a, page) : /\ modified[n] # Absent
                                    /\ cut[a] > modified[n] + ExpiryDays
  BY PageIsStored DEF Chosen, Stored, Expired
<1>3. Types'
  BY <1>1, <1>2 DEF BaseInv, Types
<1>4. Clocks' /\ (NewestSurvives => NewestSurvives')
  BY <1>1 DEF BaseInv, Clocks, NewestSurvives, Whole, Stored
<1>5. Plans'
  <2> SUFFICES ASSUME NEW c \in Archiver PROVE RunPlans(c)'
    BY <1>1 DEF BaseInv, Plans, Stored
  <2>1. /\ \A d \in Archiver : d # a => plan'[d] = plan[d]
        /\ plan'[a] = Chosen(a, page)
    BY <1>1 DEF BaseInv, Types
  <2>2. Chosen(a, page) \subseteq used
    BY <1>2 DEF BaseInv, Plans
  <2>3. stage[c] = "upload" => \A d \in Archiver : own[c] \notin plan'[d]
    BY <1>2, <2>1 DEF BaseInv, Plans, RunPlans
  <2>4. \A n \in plan'[c] : modified[n] = Absent \/ cut[c] > modified[n] + ExpiryDays
    BY <1>2, <2>1 DEF BaseInv, Plans, RunPlans
  <2>5. plan'[c] \subseteq used /\ (plan'[c] # {} => stage[c] = "prune")
    BY <1>1, <2>1, <2>2 DEF BaseInv, Plans, RunPlans
  <2> QED
    BY <1>1, <2>3, <2>4, <2>5 DEF BaseInv, Plans, RunPlans
<1> QED
  BY <1>3, <1>4, <1>5 DEF BaseInv

(* Deleting from a plan that spares a newest backup leaves one.            *)
LEMMA DeletePreserves ==
  ASSUME BaseInv, NEW a \in Archiver, Delete(a)
  PROVE  BaseInv' /\ (Spared(a) => NewestSurvives')
PROOF
<1> USE SharedStorageAssumption
<1>1. PICK n \in plan[a] :
        /\ modified' = [modified EXCEPT ![n] = Absent]
        /\ plan' = [plan EXCEPT ![a] = plan[a] \ {n}]
        /\ truncated' = truncated \ {n}
  BY DEF Delete
<1>2. stage[a] = "prune" /\ UNCHANGED <<now, newest, used, stage, own, stored, cut>>
  BY DEF Delete
<1>3. n \in Name
  BY DEF BaseInv, Types
<1>4. /\ modified' \in [Name -> Nat]
      /\ \A m \in Name : modified'[m] = modified[m] \/ modified'[m] = Absent
      /\ \A m \in Name : m # n => modified'[m] = modified[m]
  BY <1>1, <1>3 DEF BaseInv, Types, Absent
<1>5. Types'
  BY <1>1, <1>2, <1>4 DEF BaseInv, Types
<1>6. Clocks'
  BY <1>2, <1>4 DEF BaseInv, Types, Clocks, Absent
<1>7. Plans'
  <2>1. \A c \in Archiver : plan'[c] \subseteq plan[c]
    BY <1>1 DEF BaseInv, Types
  <2>2. \A c \in Archiver : plan[c] \subseteq Name
    BY DEF BaseInv, Types
  <2>3. \A m \in Name : modified'[m] # Absent => m \in used'
    BY <1>2, <1>4 DEF BaseInv, Plans
  <2>3a. truncated' \subseteq Stored'
    BY <1>1, <1>4 DEF BaseInv, Plans, Stored
  <2> SUFFICES ASSUME NEW c \in Archiver PROVE RunPlans(c)'
    BY <2>3, <2>3a DEF Plans
  <2>4. \A m \in plan'[c] : modified'[m] = Absent \/ cut[c] > modified'[m] + ExpiryDays
    BY <1>4, <2>1, <2>2 DEF BaseInv, Plans, RunPlans
  <2>5. plan'[c] \subseteq used /\ (plan'[c] # {} => stage[c] = "prune")
    BY <2>1 DEF BaseInv, Plans, RunPlans
  <2>6. stage[c] = "upload" => /\ modified'[own[c]] = Absent
                               /\ \A d \in Archiver : own[c] \notin plan'[d]
    BY <1>4, <2>1 DEF BaseInv, Plans, RunPlans
  <2> QED
    BY <1>2, <2>4, <2>5, <2>6 DEF BaseInv, Plans, RunPlans
<1>8. (Spared(a) => NewestSurvives')
  <2> SUFFICES ASSUME Spared(a), newest # Absent
        PROVE  \E m \in Whole' : modified'[m] = newest
    BY <1>2 DEF NewestSurvives
  <2>1. PICK m \in Whole : modified[m] = newest /\ m \notin plan[a]
    BY DEF Spared
  <2>2. modified'[m] = newest
    BY <1>4, <2>1 DEF Whole, Stored
  <2> QED
    BY <1>1, <2>1, <2>2 DEF Whole, Stored
<1> QED
  BY <1>5, <1>6, <1>7, <1>8 DEF BaseInv

(* Restores only read; a run that completes only says so.                  *)
LEMMA ReadPreserves ==
  ASSUME BaseInv,
         \/ \E r \in Restorer : RestorerStep(r)
         \/ \E a \in Archiver : FinishRetention(a)
         \/ UNCHANGED vars
  PROVE  BaseInv' /\ (NewestSurvives => NewestSurvives')
PROOF
<1>1. CASE \/ \E r \in Restorer : RestorerStep(r)
           \/ UNCHANGED vars
  <2>1. UNCHANGED <<now, modified, truncated, newest, runs>>
    BY <1>1 DEF RestorerStep, BeginLookup, LookupPage, Download, vars, bucket
  <2> QED
    BY <2>1 DEF BaseInv, Types, Clocks, Plans, RunPlans, NewestSurvives, Whole, Stored, runs
<1>2. CASE \E a \in Archiver : FinishRetention(a)
  <2>1. PICK a \in Archiver : FinishRetention(a)
    BY <1>2
  <2>2. /\ stage[a] = "prune" /\ plan[a] = {} /\ stage' = [stage EXCEPT ![a] = "done"]
        /\ UNCHANGED <<now, modified, truncated, newest, used, own, stored, cut, plan>>
    BY <2>1 DEF FinishRetention, bucket
  <2>3. Types'
    BY <2>2 DEF BaseInv, Types
  <2>4. \A c \in Archiver : stage'[c] = stage[c] \/ (c = a /\ stage'[c] = "done")
    BY <2>2 DEF BaseInv, Types
  <2>5. Clocks' /\ (NewestSurvives => NewestSurvives')
    BY <2>2, <2>4 DEF BaseInv, Clocks, NewestSurvives, Whole, Stored
  <2>6. Plans'
    BY <2>2, <2>4 DEF BaseInv, Plans, RunPlans, Stored
  <2> QED
    BY <2>3, <2>5, <2>6 DEF BaseInv
<1> QED
  BY <1>1, <1>2

(* There is no plan at first.                                              *)
LEMMA InitEstablishes ==
  ASSUME Init
  PROVE  StorageInv
PROOF
<1> USE SharedStorageAssumption DEF Init
<1>1. Types
  BY DEF Types, Stored, Absent
<1>2. Clocks
  BY DEF Clocks, Stored, Absent
<1>3. Plans
  BY NobodyIsNoName DEF Plans, RunPlans, Stored
<1>4. NewestSurvives
  BY DEF NewestSurvives, Whole, Stored, Absent
<1> QED
  BY <1>1, <1>2, <1>3, <1>4 DEF StorageInv, BaseInv

-----------------------------------------------------------------------------

(* Most of the invariant holds whatever the clocks are; a newest backup    *)
(* stays wherever every retention spares one.                              *)
Spares == \A a \in Archiver : stage[a] = "prune" => Spared(a)

LEMMA StepPreserves ==
  ASSUME BaseInv, [Next]_vars
  PROVE  BaseInv' /\ (NewestSurvives /\ Spares => NewestSurvives')
<1>1. CASE Tick
  BY <1>1, TickPreserves
<1>2. CASE \E a \in Archiver : ArchiverStep(a)
  <2>1. PICK a \in Archiver : ArchiverStep(a)
    BY <1>2
  <2>2. CASE UploadFails(a)
    BY <2>2, ForgetPreserves DEF UploadFails
  <2>3. CASE Abort(a)
    BY <2>3, ForgetPreserves DEF Abort
  <2>4. CASE Delete(a)
    BY <2>4, DeletePreserves DEF Delete, Spares
  <2> QED
    BY <2>1, <2>2, <2>3, <2>4, StartPreserves, UploadPreserves, BeginPreserves,
       PrunePreserves, ReadPreserves DEF ArchiverStep
<1>3. CASE (\E r \in Restorer : RestorerStep(r)) \/ UNCHANGED vars
  BY <1>3, ReadPreserves
<1> QED
  BY <1>1, <1>2, <1>3 DEF Next

(* What a plan holds is older than something that is stored.               *)
THEOREM Invariance == ASSUME Prompt PROVE Spec => []StorageInv
<1>1. StorageInv /\ [Next]_vars => StorageInv'
  BY StepPreserves, PromptSpares DEF StorageInv, Spares
<1> QED
  BY <1>1, InitEstablishes, PTL DEF Spec

(* DeleteOldObjects: whatever uncoordinated runs, crashes and stale pages  *)
(* do, the most recent backup there has been is still on the backend.      *)
THEOREM NewestIsKept == ASSUME Prompt PROVE Spec => []NewestSurvives
<1>1. StorageInv => NewestSurvives
  BY DEF StorageInv, BaseInv
<1> QED
  BY <1>1, Invariance, PTL

(* deleteExpiredObjects: when a backup goes, a more recent one stays.      *)
THEOREM DeletionLeavesNewer == ASSUME Prompt PROVE Spec => DeletedOnlyWhenNewer
<1> DEFINE Newer == \A n \in Name :
                      modified[n] # Absent /\ modified'[n] = Absent =>
                        \E m \in Whole' : modified'[m] > modified[n]
<1>1. StorageInv /\ StorageInv' /\ [Next]_vars => [Newer]_vars
  <2> SUFFICES ASSUME StorageInv, StorageInv', [Next]_vars,
                      NEW n \in Name, modified[n] # Absent, modified'[n] = Absent
               PROVE  \E m \in Whole' : modified'[m] > modified[n]
    OBVIOUS
  <2>1. PICK a \in Archiver : Delete(a)
    <3>1. modified' # modified
      OBVIOUS
    <3>2. ASSUME NEW a \in Archiver, Store(a) \/ StorePart(a), stage[a] = "upload"
           PROVE  FALSE
      <4>1. modified' = [modified EXCEPT ![own[a]] = now] /\ own[a] \in Name
        BY <3>2 DEF Store, StorePart, StorageInv, BaseInv, Plans, RunPlans
      <4>2. modified[own[a]] = Absent
        BY <3>2 DEF StorageInv, BaseInv, Plans, RunPlans
      <4> QED
        BY <4>1, <4>2 DEF StorageInv, BaseInv, Types
    <3> QED
      BY <3>1, <3>2
      DEF Next, Tick, ArchiverStep, StartRun, Upload, UploadFails, BeginRetention,
          PrunePage, FinishRetention, Abort, RestorerStep, BeginLookup, LookupPage,
          Download, vars, bucket
  <2>2. PICK k \in plan[a] : modified' = [modified EXCEPT ![k] = Absent]
    BY <2>1 DEF Delete
  <2>3. k = n /\ stage[a] = "prune" /\ newest' = newest
    BY <2>1, <2>2 DEF Delete, StorageInv, BaseInv, Types
  <2>4. modified[n] < newest
    BY <2>2, <2>3, DeletedIsOlder DEF StorageInv
  <2>5. PICK m \in Whole' : modified'[m] = newest
    <3>1. newest # Absent
      BY <2>4 DEF StorageInv, BaseInv, Types, Absent
    <3> QED
      BY <2>3, <3>1 DEF StorageInv, BaseInv, NewestSurvives
  <2> QED
    BY <2>4, <2>5
<1> QED
  BY <1>1, Invariance, PTL DEF Spec, DeletedOnlyWhenNewer

-----------------------------------------------------------------------------
(* A single archiver. *)

(* It never deletes its own object, and while it prunes nobody stores a    *)
(* more recent one: it needs no promise about time.                        *)
OwnIsNewest ==
  \A a \in Archiver : stage[a] \in {"stored", "prune"} =>
    /\ own[a] \in Whole /\ modified[own[a]] = newest
    /\ own[a] \notin plan[a]

(* A plan without the newest backup spares it.                             *)
LEMMA OwnSpares ==
  ASSUME OwnIsNewest, NEW a \in Archiver, stage[a] = "prune"
  PROVE  Spared(a)
  BY DEF OwnIsNewest, Spared

(* The backup of a single archiver stays the newest until it ends.         *)
LEMMA OwnStays ==
  ASSUME StorageInv, OwnIsNewest, NEW a \in Archiver, ArchiverStep(a),
         \A b \in Archiver : a = b
  PROVE  OwnIsNewest'
PROOF
<1> USE SharedStorageAssumption DEF StorageInv, BaseInv, Types, bucket
<1> SUFFICES ASSUME stage'[a] \in {"stored", "prune"}
    PROVE  /\ own'[a] \in Whole' /\ modified'[own'[a]] = newest'
           /\ own'[a] \notin plan'[a]
  BY DEF OwnIsNewest
<1>1. CASE Upload(a)
  <2>1. /\ stage[a] = "upload" /\ own' = own /\ plan' = plan
        /\ modified' = [modified EXCEPT ![own[a]] = now]
        /\ newest' = now /\ truncated' = truncated
    BY <1>1 DEF Upload, Store
  <2>2. /\ own[a] \in Name /\ modified[own[a]] = Absent /\ plan[a] = {}
        /\ truncated \subseteq Stored /\ now # Absent
    BY <2>1 DEF Plans, RunPlans, Clocks
  <2> QED
    BY <2>1, <2>2 DEF Whole, Stored
<1>2. CASE BeginRetention(a)
  <2>1. stage[a] = "stored" /\ plan'[a] = {} /\ UNCHANGED <<modified, truncated, newest, own>>
    BY <1>2 DEF BeginRetention
  <2> QED
    BY <2>1 DEF OwnIsNewest, Whole, Stored
<1>3. CASE PrunePage(a)
  <2>1. /\ stage[a] = "prune" /\ plan' = [plan EXCEPT ![a] = Chosen(a, Page(pruneAt[a]))]
        /\ UNCHANGED <<modified, truncated, newest, own>>
    BY <1>3 DEF PrunePage
  <2> QED
    BY <2>1 DEF OwnIsNewest, Whole, Stored, Chosen
<1>4. CASE Delete(a)
  <2>1. PICK n \in plan[a] : /\ modified' = [modified EXCEPT ![n] = Absent]
                             /\ plan' = [plan EXCEPT ![a] = plan[a] \ {n}]
                             /\ truncated' = truncated \ {n}
    BY <1>4 DEF Delete
  <2>2. stage[a] = "prune" /\ own' = own /\ newest' = newest
    BY <1>4 DEF Delete
  <2>3. own[a] \in Whole /\ modified[own[a]] = newest /\ own[a] \notin plan[a]
    BY <2>2 DEF OwnIsNewest
  <2> QED
    BY <2>1, <2>2, <2>3 DEF Whole, Stored
<1>5. CASE StartRun(a)
  BY <1>5 DEF StartRun
<1>6. CASE FinishRetention(a)
  BY <1>6 DEF FinishRetention
<1>7. CASE UploadFails(a) \/ Abort(a)
  BY <1>7 DEF UploadFails, Abort, Forget
<1> QED
  BY <1>1, <1>2, <1>3, <1>4, <1>5, <1>6, <1>7 DEF ArchiverStep

(* DeleteOldObjects: a single archiver keeps the most recent backup even   *)
(* when it stalls past the expiry and its clock is wrong, because it       *)
(* preserves its own object.                                               *)
THEOREM AloneKeepsNewest ==
  ASSUME \A a, b \in Archiver : a = b
  PROVE  Spec => []NewestSurvives
<1>1. Init => StorageInv /\ OwnIsNewest
  BY InitEstablishes DEF Init, OwnIsNewest
<1>2. StorageInv /\ OwnIsNewest /\ [Next]_vars => StorageInv' /\ OwnIsNewest'
  <2> SUFFICES ASSUME StorageInv, OwnIsNewest, [Next]_vars
      PROVE  StorageInv' /\ OwnIsNewest'
    OBVIOUS
  <2>1. StorageInv'
    <3>1. \A a \in Archiver : stage[a] = "prune" => Spared(a)
      BY OwnSpares
    <3> QED
      BY <3>1, StepPreserves DEF StorageInv, Spares
  <2>2. CASE \E a \in Archiver : ArchiverStep(a)
    BY <2>1, <2>2, OwnStays
  <2>3. CASE Tick \/ (\E r \in Restorer : RestorerStep(r)) \/ UNCHANGED vars
    <3>1. UNCHANGED <<modified, truncated, newest, stage, own, plan>>
      BY <2>3 DEF Tick, RestorerStep, BeginLookup, LookupPage, Download, vars, bucket, runs
    <3> QED
      BY <2>1, <3>1 DEF OwnIsNewest, Whole, Stored
  <2> QED
    BY <2>1, <2>2, <2>3 DEF Next
<1>3. StorageInv => NewestSurvives
  BY DEF StorageInv, BaseInv
<1> QED
  BY <1>1, <1>2, <1>3, PTL DEF Spec

-----------------------------------------------------------------------------
(* Restores. *)

(* A set of numbers that is not empty has a least one.                     *)
LEMMA NatMinimum ==
  ASSUME NEW T \in SUBSET Nat, T # {}
  PROVE  \E x \in T : \A y \in T : x <= y
PROOF
<1>1. PICK x \in T : \A y \in T : <<y, x>> \notin OpToRel(<, Nat)
  BY NatLessThanWellFounded, WFMin
<1>2. ASSUME NEW y \in T, y < x PROVE FALSE
  <2>1. <<y, x>> \in OpToRel(<, Nat)
    BY <1>2 DEF OpToRel
  <2> QED
    BY <1>1, <2>1
<1> QED
  BY <1>2

(* latestObject chooses the latest of the objects it is given.             *)
LEMMA LatestIsLatest ==
  ASSUME NEW C, C # {}, NEW bound \in Nat,
         \A c \in C : c \in [name : Nat, time : Nat] /\ c.time <= bound
  PROVE  Latest(C) \in C /\ \A d \in C \ {Latest(C)} : Later(Latest(C), d)
PROOF
<1> DEFINE Ages == {bound - c.time : c \in C}
<1>1. PICK age \in Ages : \A other \in Ages : age <= other
  <2>1. Ages \in SUBSET Nat /\ Ages # {}
    OBVIOUS
  <2> QED
    BY <2>1, NatMinimum
<1>2. PICK c \in C : age = bound - c.time
  OBVIOUS
<1>3. \A d \in C : d.time <= c.time
  BY <1>1, <1>2
<1> DEFINE Names == {d.name : d \in {e \in C : e.time = c.time}}
<1>4. PICK n \in Names : \A other \in Names : n <= other
  <2>1. Names \in SUBSET Nat /\ Names # {}
    OBVIOUS
  <2> QED
    BY <2>1, NatMinimum
<1>5. PICK e \in C : e.time = c.time /\ e.name = n
  OBVIOUS
<1>6. ASSUME NEW d \in C, d # e PROVE Later(e, d)
  <2>1. d.time < e.time \/ (d.time = e.time /\ e.name <= d.name)
    BY <1>3, <1>4, <1>5
  <2>2. d.time = e.time => d.name # e.name
    BY <1>6
  <2> QED
    BY <2>1, <2>2 DEF Later
<1>7. \E k \in C : \A d \in C \ {k} : Later(k, d)
  BY <1>6
<1> QED
  BY <1>7 DEF Latest

(* The chosen object is as it was listed, or gone and then less recent than*)
(* the newest backup; no run can still upload under its name.              *)
LookKnows(r) ==
  /\ IF best[r].time = Absent THEN best[r] = None ELSE best[r].name \in used
  /\ view[r] \in {"list", "chosen"} /\ best[r].time # Absent =>
       modified[best[r].name] = best[r].time \/ best[r].time < newest
  /\ view[r] \in {"chosen", "missing"} => best[r].time # Absent
  /\ view[r] = "missing" => best[r].time < newest
  /\ \A a \in Archiver : stage[a] = "upload" => own[a] # best[r].name

LookInv ==
  /\ best \in [Restorer -> [name : Name \cup {Nobody}, time : Nat]]
  /\ view \in [Restorer -> {"idle", "list", "nothing", "chosen", "restored",
                            "corrupt", "missing"}]
  /\ \A n \in Name : modified[n] <= now
  /\ \A r \in Restorer : best[r].time <= now /\ LookKnows(r)

(* No archiver takes away what a restore knows, except for a newer backup. *)
LEMMA ArchiversKeepLooks ==
  ASSUME StorageInv, StorageInv', LookInv, Prompt, Tick \/ \E a \in Archiver : ArchiverStep(a)
  PROVE  LookInv'
PROOF
<1> USE SharedStorageAssumption
<1>1. UNCHANGED <<view, best>> /\ now <= now' /\ now \in Nat /\ now' \in Nat
  BY DEF Tick, ArchiverStep, StartRun, Upload, UploadFails, BeginRetention, PrunePage,
         Delete, FinishRetention, Abort, restores, StorageInv, BaseInv, Types
<1>2. CASE Tick
  <2>1. UNCHANGED <<modified, newest, used, stage, own>>
    BY <1>2 DEF Tick, bucket, runs
  <2> QED
    BY <1>1, <2>1 DEF LookInv, LookKnows, StorageInv, BaseInv, Types
<1>3. ASSUME NEW a \in Archiver, StartRun(a) PROVE LookInv'
  <2>1. PICK n \in Name \ used : /\ own' = [own EXCEPT ![a] = n]
                                 /\ used' = used \cup {n}
    BY <1>3 DEF StartRun
  <2>2. UNCHANGED <<modified, newest, now>> /\ stage' = [stage EXCEPT ![a] = "upload"]
    BY <1>3 DEF StartRun, bucket
  <2> SUFFICES ASSUME NEW r \in Restorer PROVE LookKnows(r)'
    BY <1>1, <2>2 DEF LookInv
  <2>3. LookKnows(r)
    BY DEF LookInv
  <2>4. best[r].name # n
    BY <2>1, <2>3, NobodyIsNoName DEF LookKnows, None
  <2>5. \A c \in Archiver : stage'[c] = "upload" => own'[c] # best[r].name
    BY <2>1, <2>2, <2>3, <2>4 DEF LookKnows, StorageInv, BaseInv, Types
  <2> QED
    BY <1>1, <2>1, <2>2, <2>3, <2>5 DEF LookKnows
<1>4. ASSUME NEW a \in Archiver,
             /\ UNCHANGED <<modified, newest, now, used>>
             /\ \A c \in Archiver : stage'[c] = "upload" => stage[c] = "upload" /\ own'[c] = own[c]
      PROVE  LookInv'
  BY <1>1, <1>4 DEF LookInv, LookKnows
<1>5. ASSUME NEW a \in Archiver,
             BeginRetention(a) \/ PrunePage(a) \/ FinishRetention(a) \/ Abort(a)
      PROVE  LookInv'
  <2>1. UNCHANGED <<modified, newest, now, used>>
    BY <1>5 DEF BeginRetention, PrunePage, FinishRetention, Abort, bucket
  <2>2. \A c \in Archiver : stage'[c] = "upload" => stage[c] = "upload" /\ own'[c] = own[c]
    BY <1>5 DEF BeginRetention, PrunePage, FinishRetention, Abort, Forget, StorageInv, BaseInv, Types
  <2> QED
    BY <1>4, <2>1, <2>2
<1>6. ASSUME NEW a \in Archiver, Upload(a) \/ UploadFails(a) PROVE LookInv'
  <2>1. \A c \in Archiver : stage'[c] = "upload" => stage[c] = "upload" /\ own'[c] = own[c]
    BY <1>6 DEF Upload, UploadFails, Forget, StorageInv, BaseInv, Types
  <2>2. UNCHANGED <<now, used>> /\ stage[a] = "upload"
    BY <1>6 DEF Upload, UploadFails
  <2>3. CASE Store(a) \/ StorePart(a)
    <3>1. /\ newest <= newest' /\ newest' \in Nat
          /\ \A n \in Name : n # own[a] => modified'[n] = modified[n]
      BY <2>2, <2>3, StorePreserves DEF StorageInv
    <3>2. \A n \in Name : modified'[n] <= now'
      BY <1>1, <2>2, <2>3, <3>1 DEF Store, StorePart, StorageInv, BaseInv, Types, LookInv
    <3> SUFFICES ASSUME NEW r \in Restorer PROVE LookKnows(r)'
      BY <1>1, <2>2, <3>2 DEF LookInv
    <3>3. LookKnows(r) /\ best[r].name # own[a] /\ best[r].time \in Nat
      BY <2>2 DEF LookInv, LookKnows
    <3>4. best[r].time # Absent => best[r].name \in Name
      BY <3>3 DEF LookKnows, StorageInv, BaseInv, Types
    <3> QED
      BY <1>1, <2>1, <2>2, <3>1, <3>3, <3>4 DEF LookKnows, StorageInv, BaseInv, Types
  <2>4. CASE UNCHANGED bucket
    BY <1>4, <2>1, <2>2, <2>4 DEF bucket
  <2> QED
    BY <1>6, <2>3, <2>4 DEF Upload, UploadFails
<1>7. ASSUME NEW a \in Archiver, Delete(a) PROVE LookInv'
  <2>1. PICK n \in plan[a] : modified' = [modified EXCEPT ![n] = Absent]
    BY <1>7 DEF Delete
  <2>2. stage[a] = "prune" /\ UNCHANGED <<now, newest, used, stage, own>>
    BY <1>7 DEF Delete
  <2>3. n \in Name /\ modified \in [Name -> Nat]
    BY DEF StorageInv, BaseInv, Types
  <2>4. modified[n] # Absent => modified[n] < newest
    BY <2>2, DeletedIsOlder DEF StorageInv
  <2>5. \A m \in Name : modified'[m] <= now'
    BY <2>1, <2>2, <2>3 DEF LookInv, Absent, StorageInv, BaseInv, Types
  <2> SUFFICES ASSUME NEW r \in Restorer PROVE LookKnows(r)'
    BY <1>1, <2>2, <2>5 DEF LookInv
  <2>6. LookKnows(r)
    BY DEF LookInv
  <2>7. best[r].time # Absent => best[r].name \in Name
    BY <2>6 DEF LookKnows, StorageInv, BaseInv, Types
  <2>8. \A m \in Name : m # n => modified'[m] = modified[m]
    BY <2>1, <2>3
  <2> QED
    BY <1>1, <2>2, <2>4, <2>6, <2>7, <2>8 DEF LookKnows
<1> QED
  BY <1>2, <1>3, <1>5, <1>6, <1>7 DEF ArchiverStep

(* What a step of a restore knows of its best stays true.                  *)
LEMMA RestorersKeepLooks ==
  ASSUME StorageInv, LookInv, NEW s \in Restorer, RestorerStep(s)
  PROVE  LookInv'
PROOF
<1> USE SharedStorageAssumption
<1>1. UNCHANGED <<now, modified, truncated, newest, used, stage, own>>
  BY DEF RestorerStep, BeginLookup, LookupPage, Download, bucket, runs
<1>2. /\ \A n \in Name : modified'[n] <= now'
      /\ now \in Nat /\ newest \in Nat
  BY <1>1 DEF LookInv, StorageInv, BaseInv, Types
<1>3. ASSUME NEW b \in [name : Name \cup {Nobody}, time : Nat],
             NEW v \in {"idle", "list", "nothing", "chosen", "restored", "corrupt", "missing"},
             best' = [best EXCEPT ![s] = b], view' = [view EXCEPT ![s] = v],
             b.time <= now, LookKnows(s)'
      PROVE  LookInv'
  <2>1. best' \in [Restorer -> [name : Name \cup {Nobody}, time : Nat]]
    BY <1>3 DEF LookInv
  <2>2. ASSUME NEW r \in Restorer PROVE best'[r].time <= now' /\ LookKnows(r)'
    <3>1. CASE r = s
      BY <1>1, <1>3, <3>1 DEF LookInv
    <3>2. CASE r # s
      BY <1>1, <1>3, <3>2 DEF LookInv, LookKnows
    <3> QED
      BY <3>1, <3>2
  <2> QED
    BY <1>2, <1>3, <2>1, <2>2 DEF LookInv
<1>a. /\ None \in [name : Name \cup {Nobody}, time : Nat]
      /\ None.time = Absent /\ None.name = Nobody /\ None.time <= now
  BY <1>2 DEF None, Absent
<1>4. CASE BeginLookup(s)
  <2>1. best' = [best EXCEPT ![s] = None] /\ view' = [view EXCEPT ![s] = "list"]
    BY <1>4 DEF BeginLookup
  <2>2. best'[s] = None /\ view'[s] = "list"
    BY <2>1 DEF LookInv
  <2>3. LookKnows(s)'
    BY <1>1, <1>a, <2>2, NobodyIsNoName DEF LookKnows, StorageInv, BaseInv, Plans, RunPlans
  <2>4. "list" \in {"idle", "list", "nothing", "chosen", "restored", "corrupt", "missing"}
    OBVIOUS
  <2> QED
    BY <1>3, <1>a, <2>1, <2>3, <2>4
<1>5. CASE LookupPage(s)
  <2> DEFINE C == Candidates(s)
  <2>1. \A c \in C : /\ c \in [name : Name \cup {Nobody}, time : Nat] /\ c.time <= now
                     /\ (c.time # Absent => c.name \in used)
                     /\ (c.time # Absent =>
                           modified[c.name] = c.time \/ c.time < newest)
                     /\ \A a \in Archiver : stage[a] = "upload" => own[a] # c.name
    <3>1. view[s] = "list" /\ LookKnows(s) /\ best[s].time <= now
          /\ best[s] \in [name : Name \cup {Nobody}, time : Nat]
      BY <1>5 DEF LookupPage, LookInv
    <3>2. ASSUME NEW n \in Page(lookAt[s])
          PROVE  /\ n \in Name /\ modified[n] \in Nat /\ modified[n] <= now
                 /\ n \in used
                 /\ \A a \in Archiver : stage[a] = "upload" => own[a] # n
      <4>1. n \in Name /\ modified[n] # Absent
        BY PageIsStored DEF Stored
      <4> QED
        BY <4>1 DEF LookInv, StorageInv, BaseInv, Types, Plans, RunPlans
    <3> QED
      BY <3>1, <3>2 DEF Candidates, LookKnows
  <2>2. Latest(C) = None \/ Latest(C) \in C
    <3>1. \A c \in C : c \in [name : Nat, time : Nat] /\ c.time <= now
      BY <2>1 DEF Name, Nobody
    <3> QED
      BY <1>2, <3>1, LatestIsLatest DEF Latest
  <2>3. /\ best' = [best EXCEPT ![s] = Latest(C)]
        /\ best'[s] = Latest(C)
    BY <1>5 DEF LookupPage, LookInv
  <2>4. PICK v \in {"list", "nothing", "chosen"} :
          view' = [view EXCEPT ![s] = v] /\ (v = "chosen" => best'[s] # None)
    BY <1>5 DEF LookupPage
  <2>5. view'[s] = v
    BY <2>4 DEF LookInv
  <2>6. CASE Latest(C) = None
    <3>2. v # "chosen"
      BY <2>3, <2>4, <2>6
    <3>3. LookKnows(s)'
      BY <1>1, <1>a, <2>3, <2>4, <2>5, <2>6, <3>2, NobodyIsNoName
         DEF LookKnows, StorageInv, BaseInv, Plans, RunPlans
    <3> QED
      BY <1>3, <1>a, <2>3, <2>4, <2>6, <3>3
  <2>7. CASE Latest(C) \in C
    <3>1. Latest(C).time # Absent
      <4>1. \A n \in Page(lookAt[s]) : modified[n] # Absent
        BY PageIsStored DEF Stored
      <4>2. best[s] # None => best[s].time # Absent
        BY DEF LookInv, LookKnows
      <4>3. CASE Latest(C) = best[s] /\ best[s] # None
        BY <4>2, <4>3
      <4>4. CASE \E n \in Page(lookAt[s]) : Latest(C) = [name |-> n, time |-> modified[n]]
        BY <4>1, <4>4
      <4> QED
        BY <2>7, <4>3, <4>4 DEF Candidates
    <3>2. LookKnows(s)'
      BY <1>1, <2>1, <2>3, <2>5, <2>7, <3>1 DEF LookKnows
    <3> QED
      BY <1>3, <2>1, <2>3, <2>4, <2>7, <3>2
  <2> QED
    BY <2>2, <2>6, <2>7
<1>6. CASE Download(s)
  <2>1. best' = [best EXCEPT ![s] = best[s]] /\ best' = best
    BY <1>6 DEF Download, LookInv
  <2>2. PICK v \in {"restored", "corrupt", "missing"} :
          /\ view' = [view EXCEPT ![s] = v]
          /\ v = "missing" => best[s].name \notin Stored
    BY <1>6 DEF Download
  <2>3. view'[s] = v
    BY <2>2 DEF LookInv
  <2>4. LookKnows(s) /\ view[s] = "chosen" /\ best[s].time <= now
        /\ best[s] \in [name : Name \cup {Nobody}, time : Nat]
    BY <1>6 DEF Download, LookInv
  <2>5. v = "missing" => best[s].time < newest
    BY <2>2, <2>4 DEF LookKnows, Stored, StorageInv, BaseInv, Types
  <2>6. LookKnows(s)'
    BY <1>1, <2>1, <2>3, <2>4, <2>5 DEF LookKnows
  <2> QED
    BY <1>3, <2>1, <2>2, <2>4, <2>6
<1> QED
  BY <1>4, <1>5, <1>6 DEF RestorerStep

(* GetTargetObjectName, then Download: an object that was deleted between  *)
(* the two has left a more recent whole backup behind.                     *)
THEOREM MissingIsReplaced == ASSUME Prompt PROVE Spec => []MissingMeansNewer
<1>1. Init => LookInv
  BY SharedStorageAssumption, NobodyIsNoName
     DEF Init, LookInv, LookKnows, None, Absent, Stored
<1>2. StorageInv /\ StorageInv' /\ LookInv /\ [Next]_vars => LookInv'
  <2> SUFFICES ASSUME StorageInv, StorageInv', LookInv, [Next]_vars PROVE LookInv'
    OBVIOUS
  <2>1. CASE UNCHANGED vars
    BY <2>1 DEF vars, bucket, runs, restores, LookInv, LookKnows
  <2> QED
    BY <2>1, ArchiversKeepLooks, RestorersKeepLooks DEF Next
<1>3. StorageInv /\ LookInv => MissingMeansNewer
  <2> SUFFICES ASSUME StorageInv, LookInv, NEW r \in Restorer, view[r] = "missing"
      PROVE  \E n \in Whole : modified[n] > best[r].time
    BY DEF MissingMeansNewer
  <2>1. best[r].time \in Nat /\ best[r].time < newest /\ newest \in Nat
    BY DEF LookInv, LookKnows, StorageInv, BaseInv, Types
  <2>2. PICK n \in Whole : modified[n] = newest
    BY <2>1 DEF StorageInv, BaseInv, NewestSurvives, Absent
  <2> QED
    BY <2>1, <2>2
<1> QED
  BY <1>1, <1>2, <1>3, Invariance, PTL DEF Spec

-----------------------------------------------------------------------------
(* Listings. *)

(* Names that are not none have a largest one.                             *)
LEMMA LargestName ==
  ASSUME NEW T \in SUBSET Name, T # {}
  PROVE  \E x \in T : \A y \in T : y <= x
PROOF
<1> DEFINE Below == {NumNames - y : y \in T}
<1>1. \A y \in T : NumNames \in Nat /\ y \in Nat /\ NumNames - y \in Nat
  BY SharedStorageAssumption DEF Name
<1>2. Below \in SUBSET Nat /\ Below # {}
  BY <1>1
<1>3. PICK d \in Below : \A e \in Below : d <= e
  BY <1>2, NatMinimum
<1>4. PICK x \in T : d = NumNames - x
  OBVIOUS
<1>5. ASSUME NEW y \in T PROVE y <= x
  <2>1. NumNames - x <= NumNames - y
    BY <1>3, <1>4
  <2> QED
    BY <1>1, <2>1
<1> QED
  BY <1>5

(* A page shows what comes next in the list, all of it up to where the     *)
(* listing goes on.                                                        *)
LEMMA Listing ==
  ASSUME NEW from \in 0..EndOfList
  PROVE  /\ After(from) \in from..EndOfList
         /\ \A n \in Stored : n > from => (n \in Page(from) <=> n <= After(from))
PROOF
<1> USE SharedStorageAssumption
<1> DEFINE ahead == {n \in Stored : n > from}
           Before(n) == {m \in ahead : m < n}
<1>1. /\ \A n \in Stored : n \in 1..NumNames /\ n <= EndOfList
      /\ EndOfList = NumNames + 1
  BY DEF Stored, Name, EndOfList
<1>2. IsFiniteSet(ahead)
  <2>1. IsFiniteSet(Name)
    BY FS_Interval DEF Name
  <2> QED
    BY <2>1, FS_Subset, PageIsStored
<1>3. ASSUME NEW n \in ahead, NEW m \in ahead, m <= n
      PROVE  /\ Cardinality(Before(m)) \in Nat /\ Cardinality(Before(n)) \in Nat
             /\ Cardinality(Before(m)) <= Cardinality(Before(n))
  <2>1. Before(m) \subseteq Before(n) /\ Before(n) \subseteq ahead
    BY <1>1, <1>3
  <2>2. IsFiniteSet(Before(n)) /\ IsFiniteSet(Before(m))
    BY <1>2, <2>1, FS_Subset
  <2> QED
    BY <2>1, <2>2, FS_Subset, FS_CardinalityType
<1>4. Page(from) = {n \in ahead : Cardinality(Before(n)) < PageSize}
  BY DEF Page
<1>5. ASSUME NEW n \in ahead, n \notin Page(from), NEW m \in Page(from)
      PROVE  m < n
  <2> HIDE DEF Before
  <2> SUFFICES ASSUME n <= m PROVE FALSE
    BY <1>1, <1>4
  <2> QED
    BY <1>3, <1>4, <1>5
<1>6. CASE \E n \in Stored : n > from /\ n \notin Page(from)
  <2>1. PICK l \in ahead : \A n \in ahead : l <= n
    <3>1. ahead \in SUBSET Nat /\ ahead # {}
      BY <1>1, <1>6
    <3> QED
      BY <3>1, NatMinimum
  <2>2. Before(l) = {}
    BY <1>1, <2>1
  <2>3. l \in Page(from)
    BY <1>4, <2>2, FS_EmptySet
  <2>4. PICK last \in Page(from) : \A m \in Page(from) : m <= last
    <3>1. Page(from) \in SUBSET Name
      BY PageIsStored
    <3> QED
      BY <2>3, <3>1, LargestName
  <2>5. After(from) \in Page(from) /\ \A m \in Page(from) : m <= After(from)
    BY <1>6, <2>4 DEF After
  <2> QED
    BY <1>1, <1>4, <1>5, <2>5
<1>7. CASE ~ \E n \in Stored : n > from /\ n \notin Page(from)
  <2>1. After(from) = EndOfList
    BY <1>7 DEF After
  <2> QED
    BY <1>1, <1>7, <2>1
<1> QED
  BY <1>6, <1>7

-----------------------------------------------------------------------------
(* What a restore chooses. *)

ListTypes ==
  /\ pruneAt \in [Archiver -> 0..EndOfList]
  /\ lookAt \in [Restorer -> 0..EndOfList]
  /\ view \in [Restorer -> {"idle", "list", "nothing", "chosen", "restored",
                            "corrupt", "missing"}]
  /\ best \in [Restorer -> [name : Name \cup {Nobody}, time : Nat]]
  /\ throughout \in [Restorer -> SUBSET Name]

(* An object is at least as good as the one stored under a name.           *)
Covers(b, n) == b.time > modified[n] \/ (b.time = modified[n] /\ b.name <= n)

(* The best so far covers all that the listing has passed and that was     *)
(* there all along: such a name is not stored again, and passed only once. *)
PickKnows(r) ==
  /\ throughout[r] \subseteq Stored
  /\ best[r].name <= lookAt[r]
  /\ \A n \in throughout[r] : n <= lookAt[r] => Covers(best[r], n)
  /\ view[r] \in {"chosen", "nothing"} => lookAt[r] = EndOfList
  /\ view[r] = "nothing" => best[r] = None

PickInv ==
  /\ ListTypes
  /\ \A n \in Name : modified[n] <= now
  /\ \A r \in Restorer : best[r].time <= now /\ PickKnows(r)

(* A step that leaves what was there all along as it is, or drops it.      *)
LEMMA DropsKeepPicks ==
  ASSUME PickInv, UNCHANGED <<view, lookAt, best>>,
         now \in Nat, now' \in Nat, now <= now', modified' \in [Name -> Nat],
         pruneAt' \in [Archiver -> 0..EndOfList],
         throughout' \in [Restorer -> SUBSET Name],
         \A n \in Name : modified'[n] <= now',
         \A r \in Restorer : \A n \in throughout'[r] :
           n \in throughout[r] /\ modified'[n] = modified[n]
  PROVE  PickInv'
PROOF
<1>1. ListTypes'
  BY DEF PickInv, ListTypes
<1>2. ASSUME NEW r \in Restorer PROVE best'[r].time <= now' /\ PickKnows(r)'
  <2>1. best[r].time <= now /\ best[r].time \in Nat
    BY DEF PickInv, ListTypes
  <2>2. throughout'[r] \subseteq Stored'
    BY DEF PickInv, PickKnows, ListTypes, Stored
  <2> QED
    BY <2>1, <2>2 DEF PickInv, PickKnows, Covers
<1> QED
  BY <1>1, <1>2 DEF PickInv

(* Runs store under names of their own and delete for good.                *)
LEMMA ArchiversKeepPicks ==
  ASSUME BaseInv, BaseInv', PickInv, Tick \/ \E a \in Archiver : ArchiverStep(a)
  PROVE  PickInv'
PROOF
<1> USE SharedStorageAssumption
<1>1. /\ UNCHANGED <<view, lookAt, best>> /\ now <= now'
      /\ now \in Nat /\ now' \in Nat /\ now # Absent
      /\ modified \in [Name -> Nat] /\ modified' \in [Name -> Nat]
      /\ throughout \in [Restorer -> SUBSET Name]
      /\ \A r \in Restorer : throughout[r] \subseteq Stored
      /\ \A n \in Name : modified[n] <= now
  BY DEF Tick, ArchiverStep, StartRun, Upload, UploadFails, BeginRetention, PrunePage,
         Delete, FinishRetention, Abort, restores, BaseInv, Types, Clocks, PickInv,
         ListTypes, PickKnows
<1>2. pruneAt' \in [Archiver -> 0..EndOfList]
  <2>1. \A a \in Archiver : After(pruneAt[a]) \in 0..EndOfList
    BY Listing DEF PickInv, ListTypes
  <2>2. 0 \in 0..EndOfList
    BY DEF EndOfList
  <2> QED
    BY <2>1, <2>2 DEF Tick, ArchiverStep, StartRun, Upload, UploadFails, BeginRetention,
           PrunePage, Delete, FinishRetention, Abort, Forget, runs, PickInv, ListTypes
<1>3. CASE UNCHANGED <<modified, throughout>>
  <2>1. \A n \in Name : modified'[n] <= now'
    BY <1>1, <1>3
  <2> QED
    BY <1>1, <1>2, <1>3, <2>1, DropsKeepPicks
<1>4. ASSUME NEW a \in Archiver, stage[a] = "upload", Store(a) \/ StorePart(a), now' = now
      PROVE  PickInv'
  <2>1. /\ modified' = [modified EXCEPT ![own[a]] = now] /\ throughout' = throughout
        /\ own[a] \in Name /\ modified[own[a]] = Absent
    BY <1>4 DEF Store, StorePart, BaseInv, Plans, RunPlans
  <2>2. \A n \in Name : modified'[n] <= now'
    BY <1>1, <1>4, <2>1
  <2>3. \A n \in Stored : modified'[n] = modified[n]
    BY <1>1, <2>1 DEF Stored
  <2> QED
    BY <1>1, <1>2, <2>1, <2>2, <2>3, DropsKeepPicks
<1>5. ASSUME NEW a \in Archiver, Delete(a) PROVE PickInv'
  <2>1. PICK n \in plan[a] :
          /\ modified' = [modified EXCEPT ![n] = Absent]
          /\ throughout' = [r \in Restorer |-> throughout[r] \ {n}]
    BY <1>5 DEF Delete
  <2>2. n \in Name
    BY DEF BaseInv, Types
  <2>3. \A m \in Name : modified'[m] <= now'
    BY <1>1, <2>1, <2>2 DEF Absent
  <2>4. throughout' \in [Restorer -> SUBSET Name]
    BY <1>1, <2>1
  <2>5. ASSUME NEW r \in Restorer, NEW m \in throughout'[r]
        PROVE  m \in throughout[r] /\ modified'[m] = modified[m]
    BY <1>1, <2>1, <2>5
  <2> QED
    BY <1>1, <1>2, <2>3, <2>4, <2>5, DropsKeepPicks
<1> QED
  BY <1>3, <1>4, <1>5
  DEF Tick, ArchiverStep, StartRun, Upload, UploadFails, BeginRetention, PrunePage,
      FinishRetention, Abort, bucket

(* A page further, the best still covers what the listing has passed.      *)
LEMMA PageKeepsPicks ==
  ASSUME BaseInv, PickInv, NEW r \in Restorer,
         NEW b, b = Latest(Candidates(r)), NEW to, to = After(lookAt[r])
  PROVE  /\ b \in [name : Name \cup {Nobody}, time : Nat] /\ b.time <= now
         /\ to \in 0..EndOfList /\ b.name <= to
         /\ \A n \in throughout[r] : n <= to => Covers(b, n)
PROOF
<1> USE SharedStorageAssumption
<1> DEFINE C == Candidates(r)
<1>1. /\ lookAt[r] \in 0..EndOfList /\ EndOfList \in Nat
      /\ best[r] \in [name : Name \cup {Nobody}, time : Nat]
      /\ best[r].time <= now /\ best[r].name <= lookAt[r]
      /\ throughout[r] \subseteq Stored /\ Stored \subseteq Name
      /\ \A n \in throughout[r] : n <= lookAt[r] => Covers(best[r], n)
      /\ now \in Nat
  BY DEF PickInv, PickKnows, ListTypes, BaseInv, Types, EndOfList, Stored
<1>2. \A n \in Stored : modified[n] \in Nat /\ modified[n] # Absent /\ modified[n] <= now
                         /\ n \in Nat
  BY DEF PickInv, BaseInv, Types, Stored, Name
<1>3. /\ to \in lookAt[r]..EndOfList
      /\ \A n \in Stored : n > lookAt[r] => (n \in Page(lookAt[r]) <=> n <= to)
  BY <1>1, Listing
<1>4. \A n \in Page(lookAt[r]) : n \in Stored /\ n > lookAt[r] /\ n <= to
  BY <1>3, PageIsStored DEF Page
<1>5. to \in Nat /\ lookAt[r] \in Nat /\ to \in 0..EndOfList /\ lookAt[r] <= to
  BY <1>1, <1>3
<1>6. ASSUME NEW c \in C
      PROVE  /\ c \in [name : Name \cup {Nobody}, time : Nat]
             /\ c \in [name : Nat, time : Nat]
             /\ c.time <= now /\ c.name <= to
  <2>1. CASE c = best[r]
    BY <1>1, <1>5, <2>1 DEF Name, Nobody
  <2>2. CASE \E n \in Page(lookAt[r]) : c = [name |-> n, time |-> modified[n]]
    BY <1>1, <1>2, <1>4, <2>2
  <2> QED
    BY <2>1, <2>2 DEF Candidates
<1>7. CASE C = {}
  <2>1. b = None /\ best[r] = None /\ Page(lookAt[r]) = {}
    BY <1>7 DEF Latest, Candidates
  <2>2. /\ None \in [name : Name \cup {Nobody}, time : Nat]
        /\ None.name = 0 /\ None.time = 0
    BY DEF None, Nobody, Absent
  <2>3. \A n \in throughout[r] : n <= to => n <= lookAt[r]
    BY <1>1, <1>2, <1>3, <1>5, <2>1
  <2> QED
    BY <1>1, <1>5, <2>1, <2>2, <2>3
<1>8. CASE C # {}
  <2>1. b \in C /\ \A d \in C \ {b} : Later(b, d)
    BY <1>1, <1>6, <1>8, LatestIsLatest
  <2>2. b.time \in Nat /\ b.name \in Nat
    BY <1>6, <2>1
  <2>3. ASSUME NEW n \in throughout[r], n <= to PROVE Covers(b, n)
    <3>1. CASE n <= lookAt[r]
      <4>1. Covers(best[r], n)
        BY <1>1, <3>1
      <4>2. best[r] # None
        BY <1>1, <1>2, <4>1 DEF Covers, None, Absent
      <4>3. best[r] = b \/ Later(b, best[r])
        BY <2>1, <4>2 DEF Candidates
      <4>4. best[r].time \in Nat /\ best[r].name \in Nat
        BY <1>1 DEF Name, Nobody
      <4> QED
        BY <1>1, <1>2, <2>2, <4>1, <4>3, <4>4 DEF Covers, Later
    <3>2. CASE n > lookAt[r]
      <4> DEFINE c == [name |-> n, time |-> modified[n]]
      <4>1. c \in C
        BY <1>1, <1>3, <2>3, <3>2 DEF Candidates
      <4>2. c = b \/ Later(b, c)
        BY <2>1, <4>1
      <4> QED
        BY <1>1, <1>2, <2>2, <4>2 DEF Covers, Later
    <3> QED
      BY <1>1, <1>2, <1>5, <3>1, <3>2
  <2> QED
    BY <1>5, <1>6, <2>1, <2>3
<1> QED
  BY <1>7, <1>8

(* A restore starts with nothing passed, and ends with all of it.          *)
LEMMA RestorersKeepPicks ==
  ASSUME BaseInv, PickInv, NEW s \in Restorer, RestorerStep(s)
  PROVE  PickInv'
PROOF
<1> USE SharedStorageAssumption
<1> DEFINE Views == {"idle", "list", "nothing", "chosen", "restored", "corrupt", "missing"}
<1>1. /\ UNCHANGED <<now, modified, pruneAt>>
      /\ \A n \in Name : modified'[n] <= now'
      /\ now \in Nat
  BY DEF RestorerStep, BeginLookup, LookupPage, Download, bucket, runs, PickInv, BaseInv, Types
<1>2. ASSUME NEW b \in [name : Name \cup {Nobody}, time : Nat], NEW v \in Views,
             NEW to \in 0..EndOfList, NEW all \in SUBSET Name,
             best' = [best EXCEPT ![s] = b], view' = [view EXCEPT ![s] = v],
             lookAt' = [lookAt EXCEPT ![s] = to],
             throughout' = [throughout EXCEPT ![s] = all],
             b.time <= now, PickKnows(s)'
      PROVE  PickInv'
  <2>1. ListTypes'
    BY <1>1, <1>2 DEF PickInv, ListTypes
  <2>2. ASSUME NEW r \in Restorer PROVE best'[r].time <= now' /\ PickKnows(r)'
    <3>1. CASE r = s
      BY <1>1, <1>2, <3>1 DEF PickInv, ListTypes
    <3>2. CASE r # s
      BY <1>1, <1>2, <3>2 DEF PickInv, ListTypes, PickKnows, Covers, Stored
    <3> QED
      BY <3>1, <3>2
  <2> QED
    BY <1>1, <2>1, <2>2 DEF PickInv
<1>3. /\ best[s] \in [name : Name \cup {Nobody}, time : Nat] /\ best[s].time <= now
      /\ lookAt[s] \in 0..EndOfList /\ throughout[s] \in SUBSET Name
      /\ best = [best EXCEPT ![s] = best[s]] /\ lookAt = [lookAt EXCEPT ![s] = lookAt[s]]
      /\ throughout = [throughout EXCEPT ![s] = throughout[s]]
      /\ PickKnows(s)
  BY DEF PickInv, ListTypes
<1>4. CASE BeginLookup(s)
  <2>1. /\ best' = [best EXCEPT ![s] = None] /\ view' = [view EXCEPT ![s] = "list"]
        /\ lookAt' = [lookAt EXCEPT ![s] = 0]
        /\ throughout' = [throughout EXCEPT ![s] = Stored]
    BY <1>4 DEF BeginLookup
  <2>2. /\ None \in [name : Name \cup {Nobody}, time : Nat] /\ None.name = 0
        /\ None.time <= now /\ 0 \in 0..EndOfList /\ Stored \in SUBSET Name
    BY <1>1 DEF None, Nobody, Absent, EndOfList, Stored
  <2>3. PickKnows(s)'
    <3>1. best'[s] = None /\ view'[s] = "list" /\ lookAt'[s] = 0 /\ throughout'[s] = Stored
      BY <2>1 DEF PickInv, ListTypes
    <3>2. Stored' = Stored /\ \A n \in Stored : ~(n <= 0)
      BY <1>1 DEF Stored, Name
    <3> QED
      BY <2>2, <3>1, <3>2 DEF PickKnows
  <2> QED
    BY <1>2, <2>1, <2>2, <2>3
<1>5. CASE LookupPage(s)
  <2> DEFINE b == Latest(Candidates(s))
             to == After(lookAt[s])
  <2>1. /\ b \in [name : Name \cup {Nobody}, time : Nat] /\ b.time <= now
        /\ to \in 0..EndOfList /\ b.name <= to
        /\ \A n \in throughout[s] : n <= to => Covers(b, n)
    BY PageKeepsPicks
  <2> HIDE DEF b, to
  <2>2. /\ best' = [best EXCEPT ![s] = b] /\ lookAt' = [lookAt EXCEPT ![s] = to]
        /\ throughout' = throughout
        /\ best'[s] = b /\ lookAt'[s] = to
    BY <1>5 DEF LookupPage, bucket, PickInv, ListTypes, b, to
  <2>3. PICK v \in Views :
          /\ view' = [view EXCEPT ![s] = v]
          /\ v \in {"chosen", "nothing"} => to = EndOfList
          /\ v = "nothing" => b = None
    BY <1>5, <2>2 DEF LookupPage
  <2>4. PickKnows(s)'
    <3>1. view'[s] = v /\ Stored' = Stored
      BY <1>1, <2>3 DEF PickInv, ListTypes, Stored
    <3> QED
      BY <1>1, <1>3, <2>1, <2>2, <2>3, <3>1 DEF PickKnows, Covers
  <2>5. throughout' = [throughout EXCEPT ![s] = throughout[s]]
    BY <1>3, <2>2
  <2>6. throughout[s] \in SUBSET Name
    BY <1>3
  <2> HIDE DEF Views
  <2> QED
    BY <1>2, <2>1, <2>2, <2>3, <2>4, <2>5, <2>6
<1>6. CASE Download(s)
  <2>1. UNCHANGED <<best, lookAt, throughout>>
    BY <1>6 DEF Download, bucket
  <2>2. PICK v \in {"restored", "corrupt", "missing"} : view' = [view EXCEPT ![s] = v]
    BY <1>6 DEF Download
  <2>3. PickKnows(s)'
    BY <1>1, <1>3, <2>1, <2>2 DEF PickKnows, Covers, Stored, PickInv, ListTypes
  <2>4. /\ best' = [best EXCEPT ![s] = best[s]] /\ lookAt' = [lookAt EXCEPT ![s] = lookAt[s]]
        /\ throughout' = [throughout EXCEPT ![s] = throughout[s]]
    BY <1>3, <2>1
  <2>5. v \in Views
    OBVIOUS
  <2>6. /\ best[s] \in [name : Name \cup {Nobody}, time : Nat] /\ best[s].time <= now
        /\ lookAt[s] \in 0..EndOfList /\ throughout[s] \in SUBSET Name
    BY <1>3
  <2> HIDE DEF Views
  <2> QED
    BY <1>2, <2>2, <2>3, <2>4, <2>5, <2>6
<1> QED
  BY <1>4, <1>5, <1>6 DEF RestorerStep

(* Without any promise about clocks.                                       *)
LEMMA PicksInvariance == Spec => [](BaseInv /\ PickInv)
<1>1. Init => BaseInv /\ PickInv
  <2> SUFFICES ASSUME Init PROVE BaseInv /\ PickInv
    OBVIOUS
  <2>1. BaseInv
    BY InitEstablishes DEF StorageInv
  <2>2. ListTypes
    BY SharedStorageAssumption DEF Init, ListTypes, None, Absent, EndOfList
  <2>3. \A n \in Name : modified[n] <= now
    BY DEF Init, Absent
  <2>4. \A r \in Restorer : best[r].time <= now /\ PickKnows(r)
    BY DEF Init, PickKnows, None, Absent, Nobody
  <2> QED
    BY <2>1, <2>2, <2>3, <2>4 DEF PickInv
<1>2. BaseInv /\ PickInv /\ [Next]_vars => BaseInv' /\ PickInv'
  <2> SUFFICES ASSUME BaseInv, PickInv, [Next]_vars PROVE BaseInv' /\ PickInv'
    OBVIOUS
  <2>1. BaseInv'
    BY StepPreserves
  <2>2. CASE UNCHANGED vars
    BY <2>1, <2>2 DEF vars, bucket, runs, restores, PickInv, ListTypes, PickKnows,
                      Covers, Stored
  <2> QED
    BY <2>1, <2>2, ArchiversKeepPicks, RestorersKeepPicks DEF Next
<1> QED
  BY <1>1, <1>2, PTL DEF Spec

(* Every variable keeps its type; where a listing goes on is a name of the *)
(* page or the end.                                                        *)
THEOREM TypeCorrect == Spec => []TypeOK
<1>1. BaseInv /\ PickInv => TypeOK
  BY DEF BaseInv, Types, Plans, RunPlans, PickInv, ListTypes, TypeOK
<1> QED
  BY <1>1, PicksInvariance, PTL

(* GetTargetObjectName with no name: for any page size, and whatever is    *)
(* stored and deleted meanwhile, nothing that was there all along is later *)
(* than what is chosen, and "none" is only said of nothing.                *)
THEOREM NewestIsPicked == Spec => []PickIsNewest
<1>1. BaseInv /\ PickInv => PickIsNewest
  <2> SUFFICES ASSUME BaseInv, PickInv, NEW r \in Restorer,
                      view[r] \in {"chosen", "nothing"}, NEW n \in throughout[r]
               PROVE  Covers(best[r], n) /\ view[r] = "chosen"
    BY DEF PickIsNewest, Covers
  <2>1. n \in Stored /\ n <= EndOfList
    BY SharedStorageAssumption DEF PickInv, PickKnows, Stored, Name, EndOfList
  <2>2. Covers(best[r], n)
    BY <2>1 DEF PickInv, PickKnows
  <2>3. CASE view[r] = "nothing"
    <3>1. best[r] = None
      BY <2>3 DEF PickInv, PickKnows
    <3> QED
      BY <2>1, <2>2, <3>1 DEF Covers, None, Absent, Stored, BaseInv, Types
  <2> QED
    BY <2>2, <2>3
<1> QED
  BY <1>1, PicksInvariance, PTL

-----------------------------------------------------------------------------
(* What a retention leaves. *)

(* Behind the place of the listing, all that is expired is in the plan:    *)
(* what was stored since is too young.                                     *)
Swept(a) ==
  stage[a] \in {"prune", "done"} =>
    /\ cut[a] <= now + MaxSkew
    /\ \A n \in Stored \ {own[a]} :
         n <= pruneAt[a] /\ Expired(modified[n], cut[a]) => n \in plan[a]
    /\ stage[a] = "done" => pruneAt[a] = EndOfList

SweepInv == \A a \in Archiver : Swept(a)

(* What another run does leaves a retention its sweep.                     *)
LEMMA OthersKeepSweep ==
  ASSUME BaseInv, BaseInv', NEW a \in Archiver, Swept(a),
         stage'[a] = stage[a], own'[a] = own[a], cut'[a] = cut[a],
         pruneAt'[a] = pruneAt[a], plan'[a] = plan[a], now <= now',
         MaxSkew <= ExpiryDays,
         \A n \in Name : modified'[n] \in {modified[n], Absent, now}
  PROVE  Swept(a)'
PROOF
<1> SUFFICES ASSUME stage[a] \in {"prune", "done"}
    PROVE  /\ cut[a] <= now' + MaxSkew
           /\ \A n \in Stored' \ {own[a]} :
                n <= pruneAt[a] /\ cut[a] > modified'[n] + ExpiryDays => n \in plan[a]
           /\ stage[a] = "done" => pruneAt[a] = EndOfList
  BY DEF Swept, Expired
<1>1. /\ cut[a] \in Nat /\ now \in Nat /\ now' \in Nat
      /\ MaxSkew \in Nat /\ ExpiryDays \in Nat
      /\ cut[a] <= now + MaxSkew
  BY SharedStorageAssumption DEF BaseInv, Types, Swept
<1>2. ASSUME NEW n \in Stored', n # own[a], n <= pruneAt[a],
             cut[a] > modified'[n] + ExpiryDays
      PROVE  n \in plan[a]
  <2>1. modified'[n] # Absent /\ n \in Name
    BY DEF Stored
  <2>2. modified'[n] # now
    BY <1>1, <1>2
  <2>3. modified'[n] = modified[n]
    BY <2>1, <2>2
  <2> QED
    BY <1>2, <2>1, <2>3 DEF Swept, Stored, Expired
<1> QED
  BY <1>1, <1>2 DEF Swept

(* What a step of a retention leaves of its own sweep.                     *)
LEMMA OwnStepKeepsSweep ==
  ASSUME BaseInv, BaseInv', PickInv, NEW a \in Archiver, Swept(a), ArchiverStep(a)
  PROVE  Swept(a)'
PROOF
<1> USE SharedStorageAssumption
<1>1. CASE StartRun(a) \/ Upload(a) \/ UploadFails(a) \/ Abort(a)
  <2>1. stage'[a] \in {"idle", "upload", "stored"}
    BY <1>1 DEF StartRun, Upload, UploadFails, Abort, Forget, BaseInv, Types
  <2> QED
    BY <2>1 DEF Swept
<1>2. CASE BeginRetention(a)
  <2>1. /\ stage'[a] = "prune" /\ pruneAt'[a] = 0 /\ now' = now
        /\ cut'[a] <= now + MaxSkew
    BY <1>2 DEF BeginRetention, BaseInv, Types, PickInv, ListTypes
  <2>2. \A n \in Stored' : ~(n <= 0)
    BY DEF Stored, Name
  <2> QED
    BY <2>1, <2>2 DEF Swept
<1>3. CASE PrunePage(a)
  <2> DEFINE from == pruneAt[a]
             to == After(from)
  <2>1. /\ stage[a] = "prune" /\ plan[a] = {} /\ Stored' = Stored
        /\ plan'[a] = Chosen(a, Page(from)) /\ pruneAt'[a] = to
        /\ UNCHANGED <<now, modified, own, cut, stage>>
    BY <1>3 DEF PrunePage, bucket, BaseInv, Types, PickInv, ListTypes, Stored
  <2>2. /\ from \in Nat /\ \A n \in Stored : n \in Nat
        /\ \A n \in Stored : n > from => (n \in Page(from) <=> n <= to)
    BY Listing DEF PickInv, ListTypes, Stored, Name, EndOfList
  <2>3. ASSUME NEW n \in Stored \ {own[a]}, n <= to, Expired(modified[n], cut[a])
        PROVE  n \in plan'[a]
    <3>1. CASE n <= from
      BY <2>1, <2>3, <3>1 DEF Swept
    <3>2. CASE n > from
      BY <2>1, <2>2, <2>3, <3>2 DEF Chosen
    <3> QED
      BY <2>2, <3>1, <3>2
  <2> QED
    BY <2>1, <2>3 DEF Swept, Expired
<1>4. CASE Delete(a)
  <2>1. PICK k \in plan[a] : /\ modified' = [modified EXCEPT ![k] = Absent]
                             /\ plan' = [plan EXCEPT ![a] = plan[a] \ {k}]
    BY <1>4 DEF Delete
  <2>2. /\ stage[a] = "prune" /\ UNCHANGED <<now, own, cut, stage, pruneAt>>
        /\ plan'[a] = plan[a] \ {k} /\ k \in Name
    BY <1>4, <2>1 DEF Delete, BaseInv, Types
  <2>3. Stored' = Stored \ {k} /\ \A n \in Stored' : modified'[n] = modified[n]
    BY <2>1, <2>2 DEF Stored, BaseInv, Types
  <2> QED
    BY <2>2, <2>3 DEF Swept, Expired
<1>5. CASE FinishRetention(a)
  <2>1. /\ stage[a] = "prune" /\ pruneAt[a] = EndOfList /\ Stored' = Stored
        /\ UNCHANGED <<now, modified, own, cut, pruneAt, plan>>
    BY <1>5 DEF FinishRetention, bucket, Stored
  <2> QED
    BY <2>1 DEF Swept, Expired
<1> QED
  BY <1>1, <1>2, <1>3, <1>4, <1>5 DEF ArchiverStep

(* No step uncovers an expired backup.                                     *)
LEMMA StepKeepsSweep ==
  ASSUME BaseInv, BaseInv', PickInv, SweepInv, [Next]_vars, MaxSkew <= ExpiryDays
  PROVE  SweepInv'
PROOF
<1> SUFFICES ASSUME NEW a \in Archiver PROVE Swept(a)'
  BY DEF SweepInv
<1>1. Swept(a)
  BY DEF SweepInv
<1>2. CASE \E b \in Archiver : ArchiverStep(b)
  <2>1. PICK b \in Archiver : ArchiverStep(b)
    BY <1>2
  <2>2. CASE a = b
    BY <1>1, <2>1, <2>2, OwnStepKeepsSweep
  <2>3. CASE a # b
    <3>1. /\ stage'[a] = stage[a] /\ own'[a] = own[a] /\ cut'[a] = cut[a]
          /\ pruneAt'[a] = pruneAt[a] /\ plan'[a] = plan[a] /\ now' = now
      BY <2>1, <2>3
         DEF ArchiverStep, StartRun, Upload, UploadFails, BeginRetention, PrunePage,
             Delete, FinishRetention, Abort, Forget, BaseInv, Types, PickInv, ListTypes
    <3>2. \/ UNCHANGED modified
          \/ modified' = [modified EXCEPT ![own[b]] = now]
          \/ \E n \in plan[b] : modified' = [modified EXCEPT ![n] = Absent]
      BY <2>1 DEF ArchiverStep, StartRun, Upload, UploadFails, BeginRetention, PrunePage,
                  Delete, FinishRetention, Abort, bucket, Store, StorePart
    <3>3. \A n \in Name : modified'[n] \in {modified[n], Absent, now}
      BY <3>2 DEF BaseInv, Types
    <3>4. now <= now'
      BY <3>1 DEF BaseInv, Types
    <3> QED
      BY <1>1, <3>1, <3>3, <3>4, OthersKeepSweep
  <2> QED
    BY <2>2, <2>3
<1>3. CASE Tick \/ (\E r \in Restorer : RestorerStep(r)) \/ UNCHANGED vars
  <2>1. UNCHANGED <<modified, runs>> /\ now <= now'
    BY <1>3 DEF Tick, RestorerStep, BeginLookup, LookupPage, Download, vars, bucket,
                BaseInv, Types
  <2> QED
    BY <1>1, <2>1, OthersKeepSweep DEF runs
<1> QED
  BY <1>2, <1>3 DEF Next

(* DeleteOldObjects: a retention that completes leaves nothing that was    *)
(* expired by its clock, on any number of pages of any size, whatever other*)
(* runs store and delete meanwhile, as long as clocks do not disagree by   *)
(* more than the expiry.                                                   *)
THEOREM RetentionIsComplete ==
  ASSUME MaxSkew <= ExpiryDays
  PROVE  Spec => []RetentionComplete
<1>1. Init => SweepInv
  BY DEF Init, SweepInv, Swept
<1>2. BaseInv /\ PickInv /\ BaseInv' /\ SweepInv /\ [Next]_vars => SweepInv'
  BY StepKeepsSweep
<1>3. BaseInv /\ PickInv /\ SweepInv => RetentionComplete
  <2> SUFFICES ASSUME BaseInv, SweepInv, NEW a \in Archiver, stage[a] = "done",
                      NEW n \in Stored \ {own[a]}, Expired(modified[n], cut[a])
               PROVE  FALSE
    BY DEF RetentionComplete
  <2>1. plan[a] = {}
    BY DEF BaseInv, Plans, RunPlans
  <2>2. n <= EndOfList
    BY SharedStorageAssumption DEF Stored, Name, EndOfList
  <2> QED
    BY <2>1, <2>2 DEF SweepInv, Swept
<1> QED
  BY <1>1, <1>2, <1>3, PicksInvariance, PTL DEF Spec

=============================================================================
