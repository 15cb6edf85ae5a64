-------------------------- MODULE TransfersProofs --------------------------
(***************************************************************************)
(* Proofs about the upload dialog over its two stores: the shape of the    *)
(* state, LoopsWait, NothingListedTwice and NewsKept. The invariant        *)
(* TransfersInv has one part per store and one for the dialog, and NewsInv *)
(* follows what ended while it was closed; a list is described position by *)
(* position, by what Array.map, Array.filter and appending do to it.       *)
(***************************************************************************)
EXTENDS UploadDialog, FiniteSetTheorems, WellFoundedInduction, TLAPS

\* Some numbers have a smallest one.
LEMMA Smallest ==
    ASSUME NEW S \in SUBSET Nat, S # {}
    PROVE  \E n \in S : \A m \in S : n <= m
<1> DEFINE R == {ss \in Nat \X Nat : ss[1] < ss[2]}
<1>0. IsWellFoundedOn(R, Nat)
  BY NatLessThanWellFounded DEF OpToRel
<1> HIDE DEF R
<1>1. PICK n \in S : \A m \in S : ~(<<m, n>> \in R)
  BY <1>0, WFMin
<1>2. \A m, n1 \in Nat : <<m, n1>> \in R <=> m < n1
  BY DEF R
<1>3. \A m \in S : m \in Nat /\ n \in Nat /\ ~(m < n)
  BY <1>1, <1>2
<1> QED
  BY <1>3

\* The numbers of S below n; there is one more of them below the next number.
Below(S, n) == {i \in S : i < n}

\* Finitely many numbers are below one.
LEMMA BelowFinite ==
    ASSUME NEW S \in SUBSET Nat, IsFiniteSet(S), NEW n \in Nat
    PROVE  /\ IsFiniteSet(Below(S, n))
           /\ Cardinality(Below(S, n)) \in Nat
<1>1. Below(S, n) \in SUBSET S
  BY DEF Below
<1>2. IsFiniteSet(Below(S, n))
  BY <1>1, FS_Subset
<1> QED
  BY <1>2, FS_CardinalityType

\* Above a number that is not the last there is a next one.
LEMMA NextBelow ==
    ASSUME NEW S \in SUBSET Nat, IsFiniteSet(S), NEW n \in S,
           Cardinality(Below(S, n)) + 1 < Cardinality(S)
    PROVE  \E m \in S : Cardinality(Below(S, m)) = Cardinality(Below(S, n)) + 1
<1> DEFINE Up == Below(S, n) \cup {n}
           Above == {q \in S : n < q}
<1>0. /\ \A x \in S : x \in Nat
      /\ Cardinality(S) \in Nat /\ Cardinality(Below(S, n)) \in Nat
  BY BelowFinite, FS_CardinalityType
<1>1. IsFiniteSet(Below(S, n)) /\ n \notin Below(S, n)
  BY BelowFinite DEF Below
<1>2. Cardinality(Up) = Cardinality(Below(S, n)) + 1
  BY <1>1, FS_AddElement
<1>3. Above \in SUBSET Nat /\ Above # {}
  <2>1. Up # S
    <3> HIDE DEF Up
    <3> QED
      BY <1>0, <1>2
  <2>2. PICK q \in S : q \notin Below(S, n) /\ q # n
    BY <2>1 DEF Below
  <2>3. q \in Above
    BY <1>0, <2>2 DEF Below
  <2> QED
    BY <1>0, <2>3
<1>4. PICK m \in Above : \A q \in Above : m <= q
  <2> HIDE DEF Above
  <2> QED
    BY <1>3, Smallest
<1>5. Below(S, m) = Up /\ m \in S
  <2>1. m \in S /\ n < m /\ (\A q \in S : n < q => m <= q)
    BY <1>4
  <2> SUFFICES \A q \in S : q < m <=> (q < n \/ q = n)
    BY <2>1 DEF Below
  <2> QED
    BY <1>0, <2>1
<1> QED
  BY <1>2, <1>5

\* The k-th of finitely many numbers is one of them, and has k - 1 below it.
LEMMA NthIs ==
    ASSUME NEW S \in SUBSET Nat, IsFiniteSet(S), NEW k \in 1..Cardinality(S)
    PROVE  Nth(S, k) \in S /\ Cardinality(Below(S, Nth(S, k))) = k - 1
<1> DEFINE Bad == {c \in 1..Cardinality(S) : \A n \in S : Cardinality(Below(S, n)) # c - 1}
<1>0. Cardinality(S) \in Nat
  BY FS_CardinalityType
<1>2. k \notin Bad
  <2> SUFFICES ASSUME Bad # {} PROVE FALSE
    OBVIOUS
  <2>1. PICK c \in Bad : \A d \in Bad : c <= d
    <3>1. Bad \in SUBSET Nat
      BY <1>0
    <3> HIDE DEF Bad
    <3> QED
      BY <3>1, Smallest
  <2>2. c \in 1..Cardinality(S) /\ (\A n \in S : Cardinality(Below(S, n)) # c - 1)
    BY <2>1
  <2>3. CASE c = 1
    <3>1. S # {}
      BY <1>0, <2>2, <2>3, FS_EmptySet
    <3>2. PICK n \in S : \A m \in S : n <= m
      BY <3>1, Smallest
    <3>3. Below(S, n) = {}
      <4>1. \A m \in S : m \in Nat /\ n \in Nat /\ ~(m < n)
        BY <3>2
      <4> QED
        BY <4>1 DEF Below
    <3>4. Cardinality(Below(S, n)) = 0
      BY <3>3, FS_EmptySet
    <3> QED
      BY <2>2, <2>3, <3>4
  <2>4. CASE c # 1
    <3>1. c \in Nat /\ 1 < c /\ c <= Cardinality(S)
      BY <1>0, <2>2, <2>4
    <3>2. c - 1 \in 1..Cardinality(S) /\ c - 1 \notin Bad
      BY <1>0, <2>1, <3>1
    <3>3. PICK n \in S : Cardinality(Below(S, n)) = (c - 1) - 1
      BY <3>2
    <3>4. Cardinality(Below(S, n)) + 1 < Cardinality(S)
      BY <1>0, <3>1, <3>3
    <3>5. PICK m \in S : Cardinality(Below(S, m)) = Cardinality(Below(S, n)) + 1
      BY <3>4, NextBelow
    <3> QED
      BY <2>2, <3>1, <3>3, <3>5
  <2> QED
    BY <2>3, <2>4
<1>3. \E n \in S : Cardinality({i \in S : i < n}) = k - 1
  BY <1>2 DEF Below
<1> QED
  BY <1>3 DEF Nth, Below

-----------------------------------------------------------------------------
(* Lists.                                                                   *)

\* Two numbers with as many below them are the same place among the kept ones.
LEMMA NthOnce ==
    ASSUME NEW S \in SUBSET Nat, IsFiniteSet(S),
           NEW j \in 1..Cardinality(S), NEW k \in 1..Cardinality(S), Nth(S, j) = Nth(S, k)
    PROVE  j = k
<1>1. j - 1 = k - 1
  BY NthIs
<1> QED
  BY <1>1, FS_CardinalityType

\* Array.filter keeps elements of the list, each of them once.
LEMMA KeptIs ==
    ASSUME NEW T, NEW list \in Seq(T), NEW at \in SUBSET DOMAIN list
    PROVE  /\ IsFiniteSet(at) /\ Cardinality(at) \in Nat
           /\ Kept(list, at) \in Seq(T)
           /\ Len(Kept(list, at)) = Cardinality(at)
           /\ DOMAIN Kept(list, at) = 1..Cardinality(at)
           /\ \A k \in 1..Cardinality(at) :
                /\ Nth(at, k) \in at
                /\ Kept(list, at)[k] = list[Nth(at, k)]
           /\ \A j, k \in 1..Cardinality(at) : Nth(at, j) = Nth(at, k) => j = k
<1>1. DOMAIN list = 1..Len(list) /\ Len(list) \in Nat
  OBVIOUS
<1>2. at \in SUBSET Nat /\ IsFiniteSet(at)
  <2>1. IsFiniteSet(1..Len(list))
    BY <1>1, FS_Interval
  <2> QED
    BY <1>1, <2>1, FS_Subset
<1>3. Cardinality(at) \in Nat
  BY <1>2, FS_CardinalityType
<1>4. \A k \in 1..Cardinality(at) : Nth(at, k) \in at
  BY <1>2, NthIs
<1>5. \A j, k \in 1..Cardinality(at) : Nth(at, j) = Nth(at, k) => j = k
  BY <1>2, NthOnce
<1>6. \A k \in 1..Cardinality(at) : list[Nth(at, k)] \in T
  BY <1>4
<1>7. Kept(list, at) \in Seq(T) /\ Len(Kept(list, at)) = Cardinality(at)
  BY <1>3, <1>6 DEF Kept
<1> QED
  BY <1>2, <1>3, <1>4, <1>5, <1>7 DEF Kept

\* Array.find finds a job of the list when there is one.
LEMMA FirstWithIs ==
    ASSUME NEW T, NEW list \in Seq(T), NEW S, WithStatus(list, S) # {}
    PROVE  \E i \in DOMAIN list : list[i].status \in S /\ FirstWith(list, S) = list[i].id
<1> DEFINE At == {i \in DOMAIN list : list[i].status \in S}
<1>1. At \in SUBSET Nat /\ At # {}
  BY DEF WithStatus, Range
<1>2. \E i \in At : \A k \in At : i <= k
  <2> HIDE DEF At
  <2> QED
    BY <1>1, Smallest
<1>3. \E i \in DOMAIN list : /\ list[i].status \in S
                             /\ \A k \in DOMAIN list : list[k].status \in S => i <= k
  BY <1>2
<1> QED
  BY <1>3 DEF FirstWith

-----------------------------------------------------------------------------
(* The list of upload jobs.                                                 *)

Over == {"done", "failed"}

\* A list of upload jobs: no id twice, and no file in two live jobs.
WellListed(list) ==
    /\ list \in Seq(UploadJob)
    /\ \A i, k \in DOMAIN list : list[i].id = list[k].id => i = k
    /\ \A i, k \in DOMAIN list :
          /\ list[i].file = list[k].file
          /\ list[i].status \notin Over
          /\ list[k].status \notin Over
          => i = k

\* A new status for some jobs changes nothing else.
LEMMA StatusIs ==
    ASSUME NEW list \in Seq(UploadJob), NEW S, NEW v \in UploadStatus
    PROVE  LET new == Patched(list, S, "status", v) IN
           /\ new \in Seq(UploadJob) /\ DOMAIN new = DOMAIN list
           /\ \A i \in DOMAIN list :
                /\ new[i].id = list[i].id /\ new[i].file = list[i].file
                /\ new[i].status = IF list[i].id \in S THEN v ELSE list[i].status
<1> DEFINE new == Patched(list, S, "status", v)
           to(j) == IF j.id \in S THEN [j EXCEPT !["status"] = v] ELSE j
<1>1. \A j \in UploadJob :
        /\ to(j) \in UploadJob /\ to(j).id = j.id /\ to(j).file = j.file
        /\ to(j).status = IF j.id \in S THEN v ELSE j.status
  BY DEF UploadJob
<1>2. DOMAIN new = DOMAIN list /\ (\A i \in DOMAIN list : new[i] = to(list[i]))
  BY DEF Patched
<1>3. \A i \in DOMAIN list : list[i] \in UploadJob
  OBVIOUS
<1>4. new \in Seq(UploadJob)
  <2>1. DOMAIN list = 1..Len(list) /\ Len(list) \in Nat
    OBVIOUS
  <2>2. new = [i \in 1..Len(list) |-> to(list[i])]
    BY <2>1 DEF Patched
  <2>3. \A i \in 1..Len(list) : to(list[i]) \in UploadJob
    BY <1>1, <1>3, <2>1
  <2> HIDE DEF new, to
  <2> QED
    BY <2>1, <2>2, <2>3
<1> HIDE DEF to
<1> QED
  BY <1>1, <1>2, <1>3, <1>4

\* A list stays well formed when jobs end, or when only live jobs change.
LEMMA StatusKeepsList ==
    ASSUME NEW list, WellListed(list), NEW S, NEW v \in UploadStatus,
           \/ v \in Over
           \/ \A i \in DOMAIN list : list[i].id \in S => list[i].status \notin Over
    PROVE  WellListed(Patched(list, S, "status", v))
<1> DEFINE new == Patched(list, S, "status", v)
<1>1. /\ new \in Seq(UploadJob) /\ DOMAIN new = DOMAIN list
      /\ \A i \in DOMAIN list :
           /\ new[i].id = list[i].id /\ new[i].file = list[i].file
           /\ new[i].status = IF list[i].id \in S THEN v ELSE list[i].status
  BY StatusIs DEF WellListed
<1> HIDE DEF new
<1>2. \A i \in DOMAIN list : new[i].status \notin Over => list[i].status \notin Over
  BY <1>1
<1>3. \A i, k \in DOMAIN new : new[i].id = new[k].id => i = k
  BY <1>1 DEF WellListed
<1>4. ASSUME NEW i \in DOMAIN new, NEW k \in DOMAIN new, new[i].file = new[k].file,
             new[i].status \notin Over, new[k].status \notin Over
      PROVE  i = k
  <2>1. list[i].file = list[k].file /\ list[i].status \notin Over /\ list[k].status \notin Over
    BY <1>1, <1>2, <1>4
  <2> QED
    BY <1>1, <2>1 DEF WellListed
<1>5. WellListed(new)
  BY <1>1, <1>3, <1>4 DEF WellListed
<1> QED
  BY <1>5 DEF new

\* A list stays well formed when jobs are taken out.
LEMMA WithoutKeepsList ==
    ASSUME NEW list, WellListed(list), NEW S
    PROVE  /\ WellListed(Without(list, S))
           /\ \A k \in DOMAIN Without(list, S) :
                \E i \in DOMAIN list : /\ Without(list, S)[k] = list[i]
                                       /\ list[i].id \notin S
<1> DEFINE at == {i \in DOMAIN list : list[i].id \notin S}
           new == Without(list, S)
<1>1. /\ new \in Seq(UploadJob) /\ DOMAIN new = 1..Cardinality(at)
      /\ \A k \in DOMAIN new : Nth(at, k) \in at /\ new[k] = list[Nth(at, k)]
      /\ \A j, k \in DOMAIN new : Nth(at, j) = Nth(at, k) => j = k
  <2>1. list \in Seq(UploadJob) /\ at \in SUBSET DOMAIN list /\ new = Kept(list, at)
    BY DEF WellListed, Without
  <2> HIDE DEF at, new
  <2> QED
    BY <2>1, KeptIs
<1>2. \A k \in DOMAIN new : Nth(at, k) \in DOMAIN list /\ list[Nth(at, k)].id \notin S
  BY <1>1
<1> HIDE DEF at, new
<1>3. WellListed(new)
  BY <1>1, <1>2 DEF WellListed
<1> QED
  BY <1>1, <1>2, <1>3 DEF new

\* A list stays well formed when jobs with new ids are added, of files that no
\* live job has.
LEMMA AddedKeepsList ==
    ASSUME NEW list, WellListed(list), NEW add, WellListed(add),
           \A i \in DOMAIN list, k \in DOMAIN add : list[i].id # add[k].id,
           \A i \in DOMAIN list, k \in DOMAIN add :
              list[i].status \notin Over => list[i].file # add[k].file
    PROVE  WellListed(list \o add)
<1> DEFINE new == list \o add
<1>1. /\ list \in Seq(UploadJob) /\ add \in Seq(UploadJob) /\ new \in Seq(UploadJob)
      /\ Len(list) \in Nat /\ Len(add) \in Nat /\ DOMAIN new = 1..(Len(list) + Len(add))
      /\ DOMAIN list = 1..Len(list) /\ DOMAIN add = 1..Len(add)
  BY DEF WellListed
<1>2. \A i \in DOMAIN new :
        \/ i \in DOMAIN list /\ new[i] = list[i]
        \/ i - Len(list) \in DOMAIN add /\ new[i] = add[i - Len(list)]
  BY <1>1
<1> HIDE DEF new
<1>3. \A i \in DOMAIN new : i \in Nat
  BY <1>1
<1>4. ASSUME NEW i \in DOMAIN new, NEW k \in DOMAIN new, new[i].id = new[k].id
      PROVE  i = k
  BY SMTT(60), <1>1, <1>2, <1>3, <1>4 DEF WellListed
<1>5. ASSUME NEW i \in DOMAIN new, NEW k \in DOMAIN new, new[i].file = new[k].file,
             new[i].status \notin Over, new[k].status \notin Over
      PROVE  i = k
  <2>1. CASE i \in DOMAIN list /\ new[i] = list[i] /\ k \in DOMAIN list /\ new[k] = list[k]
    BY <1>5, <2>1 DEF WellListed
  <2>2. CASE /\ i - Len(list) \in DOMAIN add /\ new[i] = add[i - Len(list)]
             /\ k - Len(list) \in DOMAIN add /\ new[k] = add[k - Len(list)]
    <3>1. i - Len(list) = k - Len(list)
      BY <1>5, <2>2 DEF WellListed
    <3> QED
      BY <1>1, <1>3, <3>1
  <2>3. CASE /\ i \in DOMAIN list /\ new[i] = list[i]
             /\ k - Len(list) \in DOMAIN add /\ new[k] = add[k - Len(list)]
    BY <1>5, <2>3
  <2>4. CASE /\ k \in DOMAIN list /\ new[k] = list[k]
             /\ i - Len(list) \in DOMAIN add /\ new[i] = add[i - Len(list)]
    BY <1>5, <2>4
  <2> QED
    BY <1>2, <2>1, <2>2, <2>3, <2>4
<1> QED
  BY <1>1, <1>4, <1>5 DEF WellListed, new

-----------------------------------------------------------------------------
(* The upload store.                                                        *)

\* The loop waits for the one transfer in flight, a job that is uploading has
\* one, and the job whose file is looked up has not been taken by anything.
BatchOk ==
    /\ active \subseteq Id /\ batch \in Batch
    /\ batch.phase = "off" <=> batch.id = NoId
    /\ active # {} => batch.phase = "wait" /\ active = {batch.id}
    /\ \A i \in DOMAIN jobs : jobs[i].status = "uploading" <=> jobs[i].id \in active
    /\ batch.phase = "restore" =>
          \A i \in DOMAIN jobs : jobs[i].id = batch.id => jobs[i].status \in Pending

UploadInv ==
    /\ WellListed(jobs) /\ BatchOk
    /\ files \subseteq Id /\ blob \in [Id -> BOOLEAN] /\ completed \in BOOLEAN

\* No job has the id that stands for none.
LEMMA IdFacts == NoId \notin Id /\ IsFiniteSet(Id) /\ Id \in SUBSET Nat
  BY UploadAssumption DEF NoId

\* One round of the loop, over a list in which nothing is uploading.
LEMMA NextJobKeeps ==
    ASSUME NEW list, WellListed(list), NEW inMemory, NEW transfers, transfers = {},
           \A i \in DOMAIN list : list[i].status # "uploading",
           NextJob(list, inMemory, transfers), completed \in BOOLEAN
    PROVE  WellListed(jobs') /\ BatchOk' /\ completed' \in BOOLEAN
<1>1. CASE WithStatus(list, Pending) = {}
  <2>1. /\ jobs' = list /\ active' = {} /\ batch' = Idle
        /\ completed' = (completed \/ WithStatus(list, {"done"}) # {})
    BY <1>1 DEF NextJob, MarkUploadsCompleted
  <2>2. BatchOk'
    BY <2>1 DEF BatchOk, Batch, Idle
  <2> QED
    BY <2>1, <2>2
<1>2. CASE WithStatus(list, Pending) # {}
  <2> DEFINE id == FirstWith(list, Pending)
  <2>1. completed' = completed
    BY <1>2 DEF NextJob
  <2>2. PICK i \in DOMAIN list : list[i].status \in Pending /\ id = list[i].id
    BY <1>2, FirstWithIs DEF WellListed
  <2>3. id \in Id /\ id # NoId
    <3>1. list[i] \in UploadJob
      BY <2>2 DEF WellListed
    <3> QED
      BY <2>2, <3>1, IdFacts DEF UploadJob
  <2>4. \A k \in DOMAIN list : list[k].id = id => list[k].status \in Pending
    BY <2>2 DEF WellListed
  <2>5. CASE id \in inMemory
    <3>1. /\ jobs' = Patched(list, {id}, "status", "uploading") /\ active' = {id}
          /\ batch' = [phase |-> "wait", id |-> id]
      BY <1>2, <2>5 DEF NextJob, SetStatus
    <3> HIDE DEF id
    <3>2. WellListed(jobs')
      BY <2>4, <3>1, StatusKeepsList DEF Pending, Over, UploadStatus
    <3>3. /\ DOMAIN jobs' = DOMAIN list
          /\ \A k \in DOMAIN list :
               /\ jobs'[k].id = list[k].id
               /\ jobs'[k].status = IF list[k].id \in {id} THEN "uploading" ELSE list[k].status
      BY <3>1, StatusIs DEF WellListed, UploadStatus
    <3>4. \A k \in DOMAIN jobs' : jobs'[k].status = "uploading" <=> jobs'[k].id \in active'
      BY <3>1, <3>3
    <3>5. BatchOk'
      BY <2>3, <3>1, <3>4 DEF BatchOk, Batch
    <3> QED
      BY <2>1, <3>2, <3>5
  <2>6. CASE id \notin inMemory
    <3>1. jobs' = list /\ active' = {} /\ batch' = [phase |-> "restore", id |-> id]
      BY <1>2, <2>6 DEF NextJob
    <3> HIDE DEF id
    <3>2. BatchOk'
      BY <2>3, <2>4, <3>1 DEF BatchOk, Batch
    <3> QED
      BY <2>1, <3>1, <3>2
  <2> QED
    BY <2>5, <2>6
<1> QED
  BY <1>1, <1>2

\* startAll, which starts nothing while it runs.
LEMMA StartAllKeeps ==
    ASSUME UploadInv, StartAll
    PROVE  UploadInv'
<1>1. CASE batch.phase = "off"
  <2>1. NextJob(jobs, files, active) /\ UNCHANGED <<files, blob>>
    BY <1>1 DEF StartAll
  <2>2. active = {} /\ (\A i \in DOMAIN jobs : jobs[i].status # "uploading")
    BY <1>1 DEF UploadInv, BatchOk
  <2>3. WellListed(jobs') /\ BatchOk' /\ completed' \in BOOLEAN
    BY <2>1, <2>2, NextJobKeeps DEF UploadInv
  <2> QED
    BY <2>1, <2>3 DEF UploadInv
<1>2. CASE batch.phase # "off"
  BY <1>2 DEF StartAll, uploadVars, UploadInv, BatchOk
<1> QED
  BY <1>1, <1>2

\* startJob after idbGet: nothing has been started in between.
LEMMA RestoreEndsKeeps ==
    ASSUME UploadInv, RestoreEnds
    PROVE  UploadInv'
<1>1. /\ batch.phase = "restore" /\ batch.id \in Id /\ active = {} /\ UNCHANGED blob
      /\ \A i \in DOMAIN jobs : jobs[i].status # "uploading"
  BY DEF RestoreEnds, UploadInv, BatchOk, Batch
<1>2. CASE files' = files \cup {batch.id} /\ Begin(jobs, batch.id) /\ UNCHANGED completed
  <2> DEFINE id == batch.id
  <2>1. /\ jobs' = Patched(jobs, {id}, "status", "uploading") /\ active' = {id}
        /\ batch' = [phase |-> "wait", id |-> id]
    BY <1>1, <1>2 DEF Begin, SetStatus
  <2>2. \A i \in DOMAIN jobs : jobs[i].id \in {id} => jobs[i].status \in Pending
    BY <1>1 DEF UploadInv, BatchOk
  <2>3. id \in Id /\ id # NoId
    BY <1>1, IdFacts
  <2> HIDE DEF id
  <2>4. WellListed(jobs')
    BY <2>1, <2>2, StatusKeepsList DEF UploadInv, Pending, Over, UploadStatus
  <2>5. /\ DOMAIN jobs' = DOMAIN jobs
        /\ \A k \in DOMAIN jobs :
             /\ jobs'[k].id = jobs[k].id
             /\ jobs'[k].status = IF jobs[k].id \in {id} THEN "uploading" ELSE jobs[k].status
    BY <2>1, StatusIs DEF UploadInv, WellListed, UploadStatus
  <2>6. \A k \in DOMAIN jobs' : jobs'[k].status = "uploading" <=> jobs'[k].id \in active'
    BY <1>1, <2>1, <2>5
  <2>7. BatchOk'
    BY <2>1, <2>3, <2>6 DEF BatchOk, Batch
  <2>8. files' \subseteq Id
    BY <1>1, <1>2 DEF UploadInv
  <2> QED
    BY <1>1, <1>2, <2>4, <2>7, <2>8 DEF UploadInv
<1>3. CASE NextJob(jobs, files, active) /\ UNCHANGED files
  <2>1. WellListed(jobs') /\ BatchOk' /\ completed' \in BOOLEAN
    BY <1>1, <1>3, NextJobKeeps DEF UploadInv
  <2> QED
    BY <1>1, <1>3, <2>1 DEF UploadInv
<1> QED
  BY <1>2, <1>3 DEF RestoreEnds

\* A transfer that is in flight is the one that the loop waits for.
LEMMA ResolveKeeps ==
    ASSUME UploadInv, NEW id \in active, NEW v \in Over,
           Resolve(id, SetStatus(jobs, id, v))
    PROVE  WellListed(jobs') /\ BatchOk' /\ completed' \in BOOLEAN
<1> DEFINE list == Patched(jobs, {id}, "status", v)
<1>1. batch.phase = "wait" /\ batch.id = id /\ active = {id} /\ active \ {id} = {}
  BY DEF UploadInv, BatchOk
<1>2. NextJob(list, files, active \ {id})
  BY <1>1 DEF Resolve, SetStatus
<1>3. v \in UploadStatus /\ v # "uploading"
  BY DEF Over, UploadStatus
<1>4. WellListed(list)
  BY <1>3, StatusKeepsList DEF UploadInv
<1>5. /\ DOMAIN list = DOMAIN jobs
      /\ \A k \in DOMAIN jobs :
           list[k].status = IF jobs[k].id \in {id} THEN v ELSE jobs[k].status
  BY <1>3, StatusIs DEF UploadInv, WellListed
<1> HIDE DEF list
<1>6. \A k \in DOMAIN list : list[k].status # "uploading"
  BY <1>1, <1>3, <1>5 DEF UploadInv, BatchOk
<1>7. completed \in BOOLEAN
  BY DEF UploadInv
<1> DEFINE none == active \ {id}
<1>8. none = {} /\ NextJob(list, files, none)
  BY <1>1, <1>2
<1> HIDE DEF none
<1> QED
  BY <1>4, <1>6, <1>7, <1>8, NextJobKeeps

\* onSuccess and onError.
LEMMA TransferEndsKeeps ==
    ASSUME UploadInv, NEW id \in Id, TransferEnds(id)
    PROVE  UploadInv'
<1>1. CASE TransferDone(id)
  <2>1. /\ id \in active /\ Resolve(id, SetStatus(jobs, id, "done"))
        /\ blob' = [b \in Id |-> blob[b] /\ b \notin {id}] /\ UNCHANGED files
    BY <1>1 DEF TransferDone, IdbDelete
  <2>2. WellListed(jobs') /\ BatchOk' /\ completed' \in BOOLEAN
    BY <2>1, ResolveKeeps DEF Over
  <2>3. blob' \in [Id -> BOOLEAN]
    BY <2>1
  <2> QED
    BY <2>1, <2>2, <2>3 DEF UploadInv
<1>2. CASE TransferFailed(id)
  <2>1. /\ id \in active /\ Resolve(id, SetStatus(jobs, id, "failed"))
        /\ UNCHANGED <<files, blob>>
    BY <1>2 DEF TransferFailed
  <2>2. WellListed(jobs') /\ BatchOk' /\ completed' \in BOOLEAN
    BY <2>1, ResolveKeeps DEF Over
  <2> QED
    BY <2>1, <2>2 DEF UploadInv
<1> QED
  BY <1>1, <1>2 DEF TransferEnds

\* onUploadUrlAvailable.
LEMMA UrlAvailableKeeps ==
    ASSUME UploadInv, NEW id \in Id, UploadUrlAvailable(id)
    PROVE  UploadInv'
<1> DEFINE to(j) == IF j.id \in {id} THEN [j EXCEPT !["url"] = TRUE] ELSE j
<1>1. \A j \in UploadJob : /\ to(j) \in UploadJob /\ to(j).id = j.id
                           /\ to(j).file = j.file /\ to(j).status = j.status
  BY DEF UploadJob
<1>2. /\ jobs \in Seq(UploadJob) /\ DOMAIN jobs = 1..Len(jobs) /\ Len(jobs) \in Nat
      /\ \A i \in DOMAIN jobs : jobs[i] \in UploadJob
  BY DEF UploadInv, WellListed
<1>3. jobs' = [i \in 1..Len(jobs) |-> to(jobs[i])]
  BY <1>2 DEF UploadUrlAvailable, Patched
<1> HIDE DEF to
<1>4. jobs' \in Seq(UploadJob) /\ DOMAIN jobs' = DOMAIN jobs
  BY <1>1, <1>2, <1>3
<1>5. \A i \in DOMAIN jobs : /\ jobs'[i].id = jobs[i].id /\ jobs'[i].file = jobs[i].file
                             /\ jobs'[i].status = jobs[i].status
  BY <1>1, <1>2, <1>3
<1>6. WellListed(jobs')
  BY <1>4, <1>5 DEF UploadInv, WellListed
<1>7. UNCHANGED <<files, blob, active, batch, completed>>
  BY DEF UploadUrlAvailable
<1>8. BatchOk'
  BY <1>4, <1>5, <1>7 DEF UploadInv, BatchOk
<1> QED
  BY <1>6, <1>7, <1>8 DEF UploadInv

\* A transfer that is removed leaves the loop waiting for it.
LEMMA RemoveJobsKeeps ==
    ASSUME UploadInv, NEW S, RemoveJobs(S), completed' \in BOOLEAN
    PROVE  UploadInv'
<1>1. /\ jobs' = Without(jobs, S) /\ active' = active \ S /\ files' = files \ S
      /\ blob' = [b \in Id |-> blob[b] /\ b \notin S] /\ batch' = batch
  BY DEF RemoveJobs, IdbDelete
<1>2. /\ WellListed(jobs')
      /\ \A k \in DOMAIN jobs' :
           \E i \in DOMAIN jobs : jobs'[k] = jobs[i] /\ jobs[i].id \notin S
  BY <1>1, WithoutKeepsList DEF UploadInv
<1>3. \A k \in DOMAIN jobs' : jobs'[k].status = "uploading" <=> jobs'[k].id \in active'
  BY <1>1, <1>2 DEF UploadInv, BatchOk
<1>4. batch.phase = "restore" =>
        \A k \in DOMAIN jobs' : jobs'[k].id = batch.id => jobs'[k].status \in Pending
  BY <1>2 DEF UploadInv, BatchOk
<1>5. BatchOk'
  BY <1>1, <1>3, <1>4 DEF UploadInv, BatchOk
<1>6. files' \subseteq Id /\ blob' \in [Id -> BOOLEAN]
  BY <1>1 DEF UploadInv
<1> QED
  BY <1>2, <1>5, <1>6 DEF UploadInv

\* The empty list of upload jobs.
LEMMA EmptyList == WellListed(<<>>) /\ DOMAIN <<>> = {}
<1>1. <<>> \in Seq(UploadJob) /\ DOMAIN <<>> = {}
  OBVIOUS
<1> QED
  BY <1>1 DEF WellListed

\* clearAllUploads: the loop goes on waiting.
LEMMA ClearAllKeeps ==
    ASSUME UploadInv, ClearAllUploads, completed' \in BOOLEAN
    PROVE  UploadInv'
<1>1. jobs' = <<>> /\ files' = {} /\ active' = {} /\ UNCHANGED <<blob, batch>>
  BY DEF ClearAllUploads
<1>2. BatchOk'
  BY <1>1, EmptyList DEF UploadInv, BatchOk
<1> QED
  BY <1>1, <1>2, EmptyList DEF UploadInv

\* resetIdle.
LEMMA ResetIdleKeeps ==
    ASSUME UploadInv, ResetIdle, completed' \in BOOLEAN
    PROVE  UploadInv'
<1>0. UNCHANGED <<blob, active, batch>>
  BY DEF ResetIdle
<1>1. CASE jobs' = <<>> /\ files' = {}
  <2>1. BatchOk'
    BY <1>0, <1>1, EmptyList DEF UploadInv, BatchOk
  <2> QED
    BY <1>0, <1>1, <2>1, EmptyList DEF UploadInv
<1>2. CASE UNCHANGED <<jobs, files>>
  BY <1>0, <1>2 DEF UploadInv, BatchOk
<1> QED
  BY <1>1, <1>2 DEF ResetIdle

\* After a reload nothing is uploading.
LEMMA LoadKeeps ==
    ASSUME UploadInv, LoadUploads
    PROVE  UploadInv'
<1> DEFINE list == Patched(jobs, InFlight, "status", "interrupted")
<1>1. PICK old : jobs' = Without(list, old)
  BY DEF LoadUploads
<1>2. files' = {} /\ active' = {} /\ batch' = Idle /\ UNCHANGED <<blob, completed>>
  BY DEF LoadUploads
<1>3. "interrupted" \in UploadStatus
  BY DEF UploadStatus
<1>4. \A i \in DOMAIN jobs : jobs[i].id \in InFlight => jobs[i].status \notin Over
  <2> SUFFICES ASSUME NEW i \in DOMAIN jobs, jobs[i].id \in InFlight
               PROVE  jobs[i].status \notin Over
    OBVIOUS
  <2>1. PICK k \in DOMAIN jobs : jobs[k].id = jobs[i].id /\ jobs[k].status \notin Over
    BY DEF InFlight, Live, Range, Over
  <2> QED
    BY <2>1 DEF UploadInv, WellListed
<1>5. WellListed(list)
  BY <1>3, <1>4, StatusKeepsList DEF UploadInv
<1>6. /\ DOMAIN list = DOMAIN jobs
      /\ \A k \in DOMAIN jobs :
           list[k].status = IF jobs[k].id \in InFlight THEN "interrupted" ELSE jobs[k].status
  BY <1>3, StatusIs DEF UploadInv, WellListed
<1>7. \A k \in DOMAIN jobs : jobs[k].status = "uploading" => jobs[k].id \in InFlight
  BY DEF InFlight, Live, Range
<1> HIDE DEF list
<1>8. \A k \in DOMAIN list : list[k].status # "uploading"
  BY <1>6, <1>7
<1>9. /\ WellListed(jobs')
      /\ \A k \in DOMAIN jobs' : jobs'[k].status # "uploading"
  BY <1>1, <1>5, <1>8, WithoutKeepsList
<1>10. BatchOk'
  BY <1>2, <1>9 DEF BatchOk, Batch, Idle
<1> QED
  BY <1>2, <1>9, <1>10 DEF UploadInv

\* addFiles: what is resumed was listed, and what is added is of files that no
\* live job has, each picked once.
LEMMA AddFilesKeeps ==
    ASSUME UploadInv, NEW selection \in Seq(File), AddFiles(selection)
    PROVE  UploadInv'
<1> DEFINE resumed == {j \in Range(jobs) : \E f \in Range(selection) : j \in Resumable(f)}
           wanted(f) == Resumable(f) # {} \/ ~Listed(f)
           first == {i \in DOMAIN selection : \A k \in 1..i-1 : selection[k] # selection[i]}
           at == {i \in first :
                    /\ Resumable(selection[i]) = {} /\ ~Listed(selection[i])
                    /\ Cardinality({k \in first : k < i /\ wanted(selection[k])}) < Slots}
           taken == Kept(selection, at)
           fresh == [k \in 1..Len(taken) |-> Nth(FreeIds, k)]
           back == {j.id : j \in resumed}
           put == back \cup Range(fresh)
           list == Patched(jobs, back, "status", "queued")
           add == [k \in 1..Len(taken) |->
                     [id |-> fresh[k], file |-> taken[k], status |-> "queued", url |-> FALSE]]
<1>1. /\ Cardinality(FreeIds) >= Len(taken)
      /\ jobs' = list \o add /\ files' = files \cup put
      /\ IdbPut(put) /\ UNCHANGED <<active, batch, completed>>
  BY DEF AddFiles
<1>2. /\ \A i \in at : i \in DOMAIN selection /\ ~Listed(selection[i])
      /\ \A i, k \in at : selection[i] = selection[k] => i = k
  <2>1. \A i \in at : /\ i \in DOMAIN selection /\ ~Listed(selection[i]) /\ i \in Nat /\ i >= 1
                      /\ \A k \in 1..i-1 : selection[k] # selection[i]
    OBVIOUS
  <2> HIDE DEF at
  <2> SUFFICES ASSUME NEW i \in at, NEW k \in at, selection[i] = selection[k]
               PROVE  i = k
    BY <2>1
  <2>2. i \in Nat /\ k \in Nat /\ ~(i < k) /\ ~(k < i)
    BY <2>1
  <2> QED
    BY <2>2
<1>3. /\ taken \in Seq(File) /\ Len(taken) \in Nat
      /\ \A k \in 1..Len(taken) : Nth(at, k) \in at /\ taken[k] = selection[Nth(at, k)]
      /\ \A j, k \in 1..Len(taken) : Nth(at, j) = Nth(at, k) => j = k
  <2>1. at \in SUBSET DOMAIN selection
    BY <1>2
  <2> HIDE DEF at
  <2>2. /\ Cardinality(at) \in Nat /\ Kept(selection, at) \in Seq(File)
        /\ Len(Kept(selection, at)) = Cardinality(at)
        /\ \A k \in 1..Cardinality(at) :
             Nth(at, k) \in at /\ Kept(selection, at)[k] = selection[Nth(at, k)]
        /\ \A j, k \in 1..Cardinality(at) : Nth(at, j) = Nth(at, k) => j = k
    BY <2>1, KeptIs
  <2> QED
    BY <2>2
<1> HIDE DEF at, taken
<1>4. /\ \A k \in 1..Len(taken) : taken[k] \in File /\ ~Listed(taken[k])
      /\ \A j, k \in 1..Len(taken) : taken[j] = taken[k] => j = k
  BY <1>2, <1>3
<1>5. /\ \A k \in 1..Len(taken) : fresh[k] \in FreeIds
      /\ \A j, k \in 1..Len(taken) : fresh[j] = fresh[k] => j = k
  <2>1. FreeIds \in SUBSET Nat /\ IsFiniteSet(FreeIds) /\ Cardinality(FreeIds) \in Nat
    BY IdFacts, FS_Subset, FS_CardinalityType DEF FreeIds
  <2>2. \A k \in 1..Len(taken) : k \in 1..Cardinality(FreeIds)
    BY <1>1, <1>3, <2>1
  <2>3. \A k \in 1..Len(taken) : fresh[k] = Nth(FreeIds, k)
    OBVIOUS
  <2> HIDE DEF fresh
  <2> QED
    BY <2>1, <2>2, <2>3, NthIs, NthOnce
<1>6. \A id \in FreeIds : id \in Id /\ id \notin Ids(jobs) \cup active /\ id # batch.id
  BY DEF FreeIds
<1> HIDE DEF fresh
<1>7. \A i \in DOMAIN jobs : jobs[i].id \in back =>
        jobs[i].status = "interrupted"
  <2> SUFFICES ASSUME NEW i \in DOMAIN jobs, jobs[i].id \in back
               PROVE  jobs[i].status = "interrupted"
    OBVIOUS
  <2>1. PICK k \in DOMAIN jobs : jobs[k].id = jobs[i].id /\ jobs[k].status = "interrupted"
    BY DEF Range, Resumable
  <2> QED
    BY <2>1 DEF UploadInv, WellListed
<1>8. back \subseteq Id
  <2>1. \A i \in DOMAIN jobs : jobs[i] \in UploadJob
    BY DEF UploadInv, WellListed
  <2>2. \A j \in resumed : j.id \in Id
    BY <2>1 DEF Range, UploadJob
  <2> QED
    BY <2>2
<1> HIDE DEF back, resumed
<1>9. /\ WellListed(list) /\ DOMAIN list = DOMAIN jobs
      /\ \A i \in DOMAIN jobs :
           /\ list[i].id = jobs[i].id /\ list[i].file = jobs[i].file
           /\ list[i].status = IF jobs[i].id \in back THEN "queued" ELSE jobs[i].status
  <2>1. "queued" \in UploadStatus /\ "interrupted" \notin Over
    BY DEF UploadStatus, Over
  <2> QED
    BY <1>7, <2>1, StatusKeepsList, StatusIs DEF UploadInv, WellListed
<1>10. /\ add \in Seq(UploadJob) /\ DOMAIN add = 1..Len(taken) /\ Len(add) = Len(taken)
       /\ \A k \in DOMAIN add : /\ add[k].id = fresh[k] /\ add[k].file = taken[k]
                                /\ add[k].status = "queued"
  <2>1. \A k \in 1..Len(taken) :
          [id |-> fresh[k], file |-> taken[k], status |-> "queued", url |-> FALSE] \in UploadJob
    BY <1>4, <1>5, <1>6 DEF UploadJob, UploadStatus
  <2> QED
    BY <1>3, <2>1
<1> HIDE DEF add, list
<1>11. WellListed(add)
  BY <1>4, <1>5, <1>10 DEF WellListed
<1>12. \A i \in DOMAIN jobs : list[i].status \notin Over =>
         jobs[i].status \notin Over
  BY <1>7, <1>9 DEF Over
<1>13. \A i \in DOMAIN jobs : jobs[i].status \notin Over => Listed(jobs[i].file)
  BY DEF Listed, Live, Range, Over
<1>14. \A i \in DOMAIN list, k \in DOMAIN add : list[i].id # add[k].id
  <2>1. \A i \in DOMAIN jobs : jobs[i].id \in Ids(jobs)
    BY DEF Ids, Range
  <2> QED
    BY <1>5, <1>6, <1>9, <1>10, <2>1
<1>15. \A i \in DOMAIN list, k \in DOMAIN add :
         list[i].status \notin Over => list[i].file # add[k].file
  BY <1>4, <1>9, <1>10, <1>12, <1>13
<1>16. WellListed(jobs')
  BY <1>1, <1>9, <1>11, <1>14, <1>15, AddedKeepsList
<1>17. \A i \in DOMAIN jobs' :
         \/ i \in DOMAIN list /\ jobs'[i] = list[i]
         \/ \E k \in DOMAIN add : jobs'[i] = add[k]
  BY <1>1, <1>9, <1>10 DEF WellListed
<1>18. BatchOk'
  <2>1. \A i \in DOMAIN jobs' : jobs'[i].status = "uploading" <=> jobs'[i].id \in active
    <3>1. \A i \in DOMAIN list :
            /\ list[i].id = jobs[i].id
            /\ list[i].status = "uploading" <=> jobs[i].status = "uploading"
      BY <1>7, <1>9
    <3>2. \A i \in DOMAIN list : list[i].status = "uploading" <=> list[i].id \in active
      BY <1>9, <3>1 DEF UploadInv, BatchOk
    <3>3. \A k \in DOMAIN add : add[k].status = "queued" /\ add[k].id \notin active
      BY <1>5, <1>6, <1>10
    <3> QED
      BY <1>17, <3>2, <3>3
  <2>2. batch.phase = "restore" =>
          \A i \in DOMAIN jobs' : jobs'[i].id = batch.id => jobs'[i].status \in Pending
    BY <1>5, <1>6, <1>9, <1>10, <1>17 DEF UploadInv, BatchOk, Pending
  <2> QED
    BY <1>1, <2>1, <2>2 DEF UploadInv, BatchOk
<1>19. files' \subseteq Id
  <2>1. Range(fresh) \subseteq Id
    BY <1>5, <1>6 DEF Range, fresh
  <2> QED
    BY <1>1, <1>8, <2>1 DEF UploadInv
<1>20. blob' \in [Id -> BOOLEAN]
  <2>1. PICK stored \in SUBSET put :
          blob' = [id \in Id |-> IF id \in put THEN id \in stored ELSE blob[id]]
    BY <1>1 DEF IdbPut
  <2> HIDE DEF put
  <2>2. \A id \in Id : (IF id \in put THEN id \in stored ELSE blob[id]) \in BOOLEAN
    <3>1. \A id \in Id : blob[id] \in BOOLEAN /\ (id \in stored) \in BOOLEAN
      BY DEF UploadInv
    <3> QED
      BY <3>1
  <2> QED
    BY <2>1, <2>2
<1> QED
  BY <1>1, <1>16, <1>18, <1>19, <1>20 DEF UploadInv

-----------------------------------------------------------------------------
(* The list of URL jobs.                                                    *)

\* No id and no URL twice.
WellCarded(list) ==
    /\ list \in Seq(UrlJob)
    /\ \A i, k \in DOMAIN list : list[i].id = list[k].id => i = k
    /\ \A i, k \in DOMAIN list : list[i].url = list[k].url => i = k

\* A new status for some jobs, and an entry of theirs, change nothing else.
LEMMA UrlStatusIs ==
    ASSUME NEW list, WellCarded(list), NEW S, NEW v \in UrlStatus
    PROVE  LET new == Patched(list, S, "status", v) IN
           /\ WellCarded(new) /\ DOMAIN new = DOMAIN list
           /\ \A i \in DOMAIN list :
                /\ new[i].id = list[i].id /\ new[i].entry = list[i].entry
                /\ new[i].status = IF list[i].id \in S THEN v ELSE list[i].status
<1> DEFINE to(j) == IF j.id \in S THEN [j EXCEPT !["status"] = v] ELSE j
           new == Patched(list, S, "status", v)
<1>1. \A j \in UrlJob :
        /\ to(j) \in UrlJob /\ to(j).id = j.id /\ to(j).url = j.url /\ to(j).entry = j.entry
        /\ to(j).status = IF j.id \in S THEN v ELSE j.status
  BY DEF UrlJob
<1>2. /\ DOMAIN list = 1..Len(list) /\ Len(list) \in Nat
      /\ \A i \in DOMAIN list : list[i] \in UrlJob
  BY DEF WellCarded
<1>3. new = [i \in 1..Len(list) |-> to(list[i])]
  BY <1>2 DEF Patched
<1> HIDE DEF to, new
<1>4. /\ new \in Seq(UrlJob) /\ DOMAIN new = DOMAIN list
      /\ \A i \in DOMAIN list : new[i] = to(list[i])
  BY <1>1, <1>2, <1>3
<1>5. \A i \in DOMAIN list :
        /\ new[i].id = list[i].id /\ new[i].url = list[i].url /\ new[i].entry = list[i].entry
        /\ new[i].status = IF list[i].id \in S THEN v ELSE list[i].status
  BY <1>1, <1>2, <1>4
<1>6. WellCarded(new)
  BY <1>4, <1>5 DEF WellCarded
<1> QED
  BY <1>4, <1>5, <1>6 DEF new

\* An entry for some jobs changes nothing else.
LEMMA UrlEntryIs ==
    ASSUME NEW list, WellCarded(list), NEW S
    PROVE  LET new == Patched(list, S, "entry", TRUE) IN
           /\ WellCarded(new) /\ DOMAIN new = DOMAIN list
           /\ \A i \in DOMAIN list :
                /\ new[i].id = list[i].id /\ new[i].status = list[i].status
                /\ list[i].id \notin S => new[i] = list[i]
<1> DEFINE to(j) == IF j.id \in S THEN [j EXCEPT !["entry"] = TRUE] ELSE j
           new == Patched(list, S, "entry", TRUE)
<1>1. \A j \in UrlJob :
        /\ to(j) \in UrlJob /\ to(j).id = j.id /\ to(j).url = j.url /\ to(j).status = j.status
        /\ j.id \notin S => to(j) = j
  BY DEF UrlJob
<1>2. /\ DOMAIN list = 1..Len(list) /\ Len(list) \in Nat
      /\ \A i \in DOMAIN list : list[i] \in UrlJob
  BY DEF WellCarded
<1>3. new = [i \in 1..Len(list) |-> to(list[i])]
  BY <1>2 DEF Patched
<1> HIDE DEF to, new
<1>4. /\ new \in Seq(UrlJob) /\ DOMAIN new = DOMAIN list
      /\ \A i \in DOMAIN list : new[i] = to(list[i])
  BY <1>1, <1>2, <1>3
<1>5. \A i \in DOMAIN list :
        /\ new[i].id = list[i].id /\ new[i].url = list[i].url /\ new[i].status = list[i].status
        /\ list[i].id \notin S => new[i] = list[i]
  BY <1>1, <1>2, <1>4
<1>6. WellCarded(new)
  BY <1>4, <1>5 DEF WellCarded
<1> QED
  BY <1>4, <1>5, <1>6 DEF new

\* A list stays well formed when jobs are taken out.
LEMMA UrlWithout ==
    ASSUME NEW list, WellCarded(list), NEW S
    PROVE  /\ WellCarded(Without(list, S))
           /\ \A k \in DOMAIN Without(list, S) :
                \E i \in DOMAIN list : Without(list, S)[k] = list[i]
<1> DEFINE at == {i \in DOMAIN list : list[i].id \notin S}
           new == Without(list, S)
<1>1. /\ new \in Seq(UrlJob) /\ DOMAIN new = 1..Cardinality(at)
      /\ \A k \in DOMAIN new : Nth(at, k) \in at /\ new[k] = list[Nth(at, k)]
      /\ \A j, k \in DOMAIN new : Nth(at, j) = Nth(at, k) => j = k
  <2>1. list \in Seq(UrlJob) /\ at \in SUBSET DOMAIN list /\ new = Kept(list, at)
    BY DEF WellCarded, Without
  <2> HIDE DEF at, new
  <2> QED
    BY <2>1, KeptIs
<1>2. \A k \in DOMAIN new : Nth(at, k) \in DOMAIN list
  BY <1>1
<1> HIDE DEF at, new
<1>3. WellCarded(new)
  BY <1>1, <1>2 DEF WellCarded
<1> QED
  BY <1>1, <1>2, <1>3 DEF new

\* A list stays well formed when jobs with new ids and URLs are added.
LEMMA UrlAdded ==
    ASSUME NEW list, WellCarded(list), NEW add, WellCarded(add),
           \A i \in DOMAIN list, k \in DOMAIN add :
              list[i].id # add[k].id /\ list[i].url # add[k].url
    PROVE  /\ WellCarded(list \o add)
           /\ \A i \in DOMAIN (list \o add) :
                \/ \E k \in DOMAIN list : (list \o add)[i] = list[k]
                \/ \E k \in DOMAIN add : (list \o add)[i] = add[k]
<1> DEFINE new == list \o add
<1>1. /\ list \in Seq(UrlJob) /\ add \in Seq(UrlJob) /\ new \in Seq(UrlJob)
      /\ Len(list) \in Nat /\ Len(add) \in Nat /\ DOMAIN new = 1..(Len(list) + Len(add))
      /\ DOMAIN list = 1..Len(list) /\ DOMAIN add = 1..Len(add)
  BY DEF WellCarded
<1>2. \A i \in DOMAIN new :
        \/ i \in DOMAIN list /\ new[i] = list[i]
        \/ i - Len(list) \in DOMAIN add /\ new[i] = add[i - Len(list)]
  BY <1>1
<1> HIDE DEF new
<1>3. \A i \in DOMAIN new : i \in Nat
  BY <1>1
<1>4. ASSUME NEW i \in DOMAIN new, NEW k \in DOMAIN new, new[i].id = new[k].id
      PROVE  i = k
  BY SMTT(60), <1>1, <1>2, <1>3, <1>4 DEF WellCarded
<1>5. ASSUME NEW i \in DOMAIN new, NEW k \in DOMAIN new, new[i].url = new[k].url
      PROVE  i = k
  BY SMTT(60), <1>1, <1>2, <1>3, <1>5 DEF WellCarded
<1>6. WellCarded(new)
  BY <1>1, <1>4, <1>5 DEF WellCarded
<1>7. \A i \in DOMAIN new : \/ \E k \in DOMAIN list : new[i] = list[k]
                            \/ \E k \in DOMAIN add : new[i] = add[k]
  BY <1>2
<1> QED
  BY <1>6, <1>7 DEF new

-----------------------------------------------------------------------------
(* The URL download store.                                                  *)

\* What is queued has not been submitted, and the loop waits for the entry of
\* what is being downloaded.
RunnerOk ==
    /\ runner \in Runner
    /\ runner.phase = "off" <=> runner.id = NoId
    /\ \A i \in DOMAIN urlJobs : urlJobs[i].status = "queued" =>
          ~urlJobs[i].entry /\ urlJobs[i].id # runner.id
    /\ \A i \in DOMAIN urlJobs : urlJobs[i].status = "downloading" /\ urlJobs[i].entry =>
          runner = [phase |-> "wait", id |-> urlJobs[i].id]

Polled ==
    /\ timer \in UrlId \cup {NoId} /\ polls \in [Slot -> Poll]
    /\ entry \in [UrlId -> EntryStatus]

UrlInv == WellCarded(urlJobs) /\ RunnerOk /\ Polled /\ urlCompleted \in BOOLEAN

\* No job has the id that stands for none.
LEMMA UrlIdFacts == NoId \notin UrlId /\ IsFiniteSet(UrlId) /\ UrlId \in SUBSET Nat
  BY UrlAssumption DEF NoId

\* One round of the loop, over a list in which nothing that has an entry is
\* queued or downloading.
LEMMA NextUrlKeeps ==
    ASSUME NEW list, WellCarded(list), NextUrl(list), urlCompleted \in BOOLEAN,
           \A i \in DOMAIN list : list[i].status \in {"queued", "downloading"} => ~list[i].entry
    PROVE  WellCarded(urlJobs') /\ RunnerOk' /\ urlCompleted' \in BOOLEAN
<1>1. CASE WithStatus(list, {"queued"}) = {}
  <2>1. /\ urlJobs' = list /\ runner' = Stopped
        /\ urlCompleted' = (urlCompleted \/ WithStatus(list, {"done"}) # {})
    BY <1>1 DEF NextUrl, MarkUrlDownloadsCompleted
  <2>2. \A i \in DOMAIN list : list[i].status # "queued"
    BY <1>1 DEF WithStatus, Range
  <2>3. RunnerOk'
    BY <2>1, <2>2 DEF RunnerOk, Runner, Stopped
  <2> QED
    BY <2>1, <2>3
<1>2. CASE WithStatus(list, {"queued"}) # {}
  <2> DEFINE id == FirstWith(list, {"queued"})
  <2>1. /\ urlJobs' = Patched(list, {id}, "status", "downloading")
        /\ runner' = [phase |-> "submit", id |-> id] /\ urlCompleted' = urlCompleted
    BY <1>2 DEF NextUrl, SetStatus
  <2>2. PICK i \in DOMAIN list : list[i].status = "queued" /\ id = list[i].id
    BY <1>2, FirstWithIs DEF WellCarded
  <2>3. id \in UrlId /\ id # NoId
    <3>1. list[i] \in UrlJob
      BY <2>2 DEF WellCarded
    <3> QED
      BY <2>2, <3>1, UrlIdFacts DEF UrlJob
  <2> HIDE DEF id
  <2>4. /\ WellCarded(urlJobs') /\ DOMAIN urlJobs' = DOMAIN list
        /\ \A k \in DOMAIN list :
             /\ urlJobs'[k].id = list[k].id /\ urlJobs'[k].entry = list[k].entry
             /\ urlJobs'[k].status = IF list[k].id \in {id} THEN "downloading" ELSE list[k].status
    BY <2>1, UrlStatusIs DEF UrlStatus
  <2>5. \A k \in DOMAIN list : list[k].id = id => list[k].status = "queued"
    BY <2>2 DEF WellCarded
  <2>6. \A k \in DOMAIN urlJobs' :
          urlJobs'[k].status \in {"queued", "downloading"} => ~urlJobs'[k].entry
    BY <2>4, <2>5
  <2>7. \A k \in DOMAIN urlJobs' : urlJobs'[k].status = "queued" => urlJobs'[k].id # id
    BY <2>4
  <2>8. RunnerOk'
    BY <2>1, <2>3, <2>6, <2>7 DEF RunnerOk, Runner
  <2> QED
    BY <2>1, <2>4, <2>8
<1> QED
  BY <1>1, <1>2

\* A list of which only elements are left keeps what is said of each of them.
LEMMA FewerCards ==
    ASSUME UrlInv, WellCarded(urlJobs'), runner' = runner,
           \A k \in DOMAIN urlJobs' : \E i \in DOMAIN urlJobs : urlJobs'[k] = urlJobs[i]
    PROVE  RunnerOk'
BY DEF UrlInv, RunnerOk

\* startDownloads, which starts nothing while it runs.
LEMMA StartDownloadsKeeps ==
    ASSUME UrlInv, StartDownloads
    PROVE  UrlInv'
<1>1. CASE runner.phase = "off"
  <2>1. NextUrl(urlJobs) /\ UNCHANGED <<timer, polls, entry>>
    BY <1>1 DEF StartDownloads
  <2>2. \A i \in DOMAIN urlJobs :
          urlJobs[i].status \in {"queued", "downloading"} => ~urlJobs[i].entry
    <3>1. \A i \in DOMAIN urlJobs : urlJobs[i] \in UrlJob
      BY DEF UrlInv, WellCarded
    <3>2. \A i \in DOMAIN urlJobs : urlJobs[i].status = "downloading" => ~urlJobs[i].entry
      BY <1>1, <3>1 DEF UrlInv, RunnerOk, UrlJob
    <3> QED
      BY <3>2 DEF UrlInv, RunnerOk
  <2>3. WellCarded(urlJobs') /\ RunnerOk' /\ urlCompleted' \in BOOLEAN
    BY <2>1, <2>2, NextUrlKeeps DEF UrlInv
  <2> QED
    BY <2>1, <2>3 DEF UrlInv, Polled
<1>2. CASE runner.phase # "off"
  BY <1>2 DEF StartDownloads, urlVars, UrlInv, RunnerOk, Polled
<1> QED
  BY <1>1, <1>2

\* submitOne, up to the moment when the interval is set.
LEMMA SubmitAnsweredKeeps ==
    ASSUME UrlInv, SubmitAnswered
    PROVE  UrlInv'
<1>1. CASE ServerAccepts
  <2>1. UNCHANGED <<urlJobs, runner, timer, polls, urlCompleted>>
    BY <1>1 DEF ServerAccepts
  <2>2. entry' \in [UrlId -> EntryStatus]
    BY <1>1 DEF ServerAccepts, UrlInv, Polled, EntryStatus
  <2>3. RunnerOk'
    BY <2>1 DEF UrlInv, RunnerOk
  <2> QED
    BY <2>1, <2>2, <2>3 DEF UrlInv, Polled
<1>2. CASE SubmitAccepted
  <2> DEFINE id == runner.id
  <2>1. /\ runner.phase = "submit" /\ id \in UrlId /\ id # NoId
        /\ urlJobs' = Patched(urlJobs, {id}, "entry", TRUE)
        /\ timer' = id /\ UNCHANGED <<polls, entry, urlCompleted>>
    BY <1>2, UrlIdFacts DEF SubmitAccepted, UrlInv, RunnerOk, Runner
  <2>2. runner' = [phase |-> "wait", id |-> id]
    BY <1>2 DEF SubmitAccepted, UrlInv, RunnerOk, Runner
  <2>7. id = runner.id
    OBVIOUS
  <2> HIDE DEF id
  <2>3. /\ WellCarded(urlJobs') /\ DOMAIN urlJobs' = DOMAIN urlJobs
        /\ \A i \in DOMAIN urlJobs :
             /\ urlJobs'[i].id = urlJobs[i].id /\ urlJobs'[i].status = urlJobs[i].status
             /\ urlJobs[i].id \notin {id} => urlJobs'[i] = urlJobs[i]
    <3> DEFINE new == Patched(urlJobs, {id}, "entry", TRUE)
    <3>1. WellCarded(urlJobs)
      BY DEF UrlInv
    <3>2. /\ WellCarded(new) /\ DOMAIN new = DOMAIN urlJobs
          /\ \A i \in DOMAIN urlJobs :
               /\ new[i].id = urlJobs[i].id /\ new[i].status = urlJobs[i].status
               /\ urlJobs[i].id \notin {id} => new[i] = urlJobs[i]
      BY <3>1, UrlEntryIs
    <3>3. urlJobs' = new
      BY <2>1
    <3> HIDE DEF new
    <3> QED
      BY <3>2, <3>3
  <2>4. \A i \in DOMAIN urlJobs' : urlJobs'[i].status = "queued" =>
          ~urlJobs'[i].entry /\ urlJobs'[i].id # id
    BY <2>3, <2>7 DEF UrlInv, RunnerOk
  <2>5. \A i \in DOMAIN urlJobs' :
          urlJobs'[i].status = "downloading" /\ urlJobs'[i].entry => urlJobs'[i].id = id
    <3> SUFFICES ASSUME NEW i \in DOMAIN urlJobs, urlJobs[i].id # id
                 PROVE  ~(urlJobs'[i].status = "downloading" /\ urlJobs'[i].entry)
      BY <2>3
    <3>1. urlJobs'[i] = urlJobs[i]
      BY <2>3
    <3>2. runner # [phase |-> "wait", id |-> urlJobs[i].id]
      BY <2>1
    <3> QED
      BY <3>1, <3>2 DEF UrlInv, RunnerOk
  <2>6. RunnerOk'
    BY <2>1, <2>2, <2>4, <2>5 DEF RunnerOk, Runner
  <2> QED
    BY <2>1, <2>3, <2>6 DEF UrlInv, Polled
<1>3. CASE SubmitRefused
  <2> DEFINE list == Patched(urlJobs, {runner.id}, "status", "failed")
  <2>1. /\ runner.phase = "submit" /\ NextUrl(list) /\ UNCHANGED <<timer, polls, entry>>
    BY <1>3 DEF SubmitRefused, SetStatus
  <2>2. /\ WellCarded(list) /\ DOMAIN list = DOMAIN urlJobs
        /\ \A i \in DOMAIN urlJobs :
             /\ list[i].entry = urlJobs[i].entry
             /\ list[i].status = IF urlJobs[i].id \in {runner.id} THEN "failed"
                                                                   ELSE urlJobs[i].status
    BY UrlStatusIs DEF UrlInv, UrlStatus
  <2> HIDE DEF list
  <2>3. \A i \in DOMAIN urlJobs :
          urlJobs[i].status \in {"queued", "downloading"} => ~urlJobs[i].entry
    <3>1. \A i \in DOMAIN urlJobs : urlJobs[i].status = "downloading" => ~urlJobs[i].entry
      BY <2>1 DEF UrlInv, RunnerOk
    <3> QED
      BY <3>1 DEF UrlInv, RunnerOk
  <2>4. \A i \in DOMAIN list :
          list[i].status \in {"queued", "downloading"} => ~list[i].entry
    BY <2>2, <2>3
  <2>5. WellCarded(urlJobs') /\ RunnerOk' /\ urlCompleted' \in BOOLEAN
    BY <2>1, <2>2, <2>4, NextUrlKeeps DEF UrlInv
  <2> QED
    BY <2>1, <2>5 DEF UrlInv, Polled
<1> QED
  BY <1>1, <1>2, <1>3 DEF SubmitAnswered

\* The polls leave the list to the one answer that the loop waits for.
LEMMA PollsKeep ==
    ASSUME UrlInv, NEW s \in Slot, PollAnswered(s) \/ PollThrows(s) \/ Tick(s)
    PROVE  UrlInv'
<1>0. /\ polls \in [Slot -> Poll] /\ NoPoll \in Poll /\ timer \in UrlId \cup {NoId}
      /\ entry \in [UrlId -> EntryStatus] /\ polls[s] \in Poll
  BY DEF UrlInv, Polled, NoPoll, Poll
<1>1. CASE Tick(s)
  <2>1. /\ polls' = [polls EXCEPT ![s] = [phase |-> "list", id |-> timer]]
        /\ UNCHANGED <<urlJobs, runner, timer, entry, urlCompleted>>
    BY <1>1 DEF Tick
  <2>2. polls' \in [Slot -> Poll]
    BY <1>0, <2>1 DEF Poll
  <2>3. RunnerOk'
    BY <2>1 DEF UrlInv, RunnerOk
  <2> QED
    BY <2>1, <2>2, <2>3 DEF UrlInv, Polled
<1>2. CASE ListArrives(s)
  <2>1. UNCHANGED <<urlJobs, runner, entry, urlCompleted>>
    BY <1>2 DEF ListArrives
  <2>2. polls' \in [Slot -> Poll] /\ timer' \in UrlId \cup {NoId}
    <3>1. CASE polls' = [polls EXCEPT ![s] = NoPoll] /\ UNCHANGED timer
      BY <1>0, <3>1
    <3>2. CASE polls' = [polls EXCEPT ![s].phase = "entry"] /\ timer' = ClearTimer(polls[s].id)
      BY <1>0, <3>2 DEF ClearTimer, Poll
    <3> QED
      BY <1>2, <3>1, <3>2 DEF ListArrives
  <2>3. RunnerOk'
    BY <2>1 DEF UrlInv, RunnerOk
  <2> QED
    BY <2>1, <2>2, <2>3 DEF UrlInv, Polled
<1>3. CASE PollThrows(s)
  <2>1. /\ polls' = [polls EXCEPT ![s] = NoPoll]
        /\ UNCHANGED <<urlJobs, runner, timer, entry, urlCompleted>>
    BY <1>3 DEF PollThrows
  <2>2. polls' \in [Slot -> Poll]
    BY <1>0, <2>1
  <2>3. RunnerOk'
    BY <2>1 DEF UrlInv, RunnerOk
  <2> QED
    BY <2>1, <2>2, <2>3 DEF UrlInv, Polled
<1>4. CASE EntryArrives(s)
  <2> DEFINE id == polls[s].id
             v == IF entry[id] = "failed" THEN "failed" ELSE "done"
             list == Patched(urlJobs, {id}, "status", v)
  <2>1. /\ polls' = [polls EXCEPT ![s] = NoPoll] /\ UNCHANGED <<timer, entry>>
        /\ IF Resolves(id) THEN NextUrl(list)
                           ELSE urlJobs' = list /\ UNCHANGED <<runner, urlCompleted>>
    BY <1>4 DEF EntryArrives, SetStatus
  <2>2. Polled'
    BY <1>0, <2>1 DEF Polled
  <2>3. v \in UrlStatus /\ v \notin {"queued", "downloading"}
    BY DEF UrlStatus
  <2> HIDE DEF v, id
  <2>4. /\ WellCarded(list) /\ DOMAIN list = DOMAIN urlJobs
        /\ \A i \in DOMAIN urlJobs :
             /\ list[i].id = urlJobs[i].id /\ list[i].entry = urlJobs[i].entry
             /\ list[i].status = IF urlJobs[i].id \in {id} THEN v ELSE urlJobs[i].status
    BY <2>3, UrlStatusIs DEF UrlInv
  <2> HIDE DEF list
  <2>5. \A i \in DOMAIN list : list[i].status \in {"queued", "downloading"} =>
          list[i].status = urlJobs[i].status /\ urlJobs[i].id # id
    BY <2>3, <2>4
  <2>6. CASE Resolves(id)
    <3>1. \A i \in DOMAIN urlJobs :
            urlJobs[i].status \in {"queued", "downloading"} /\ urlJobs[i].entry =>
               urlJobs[i].id = id
      BY <2>6 DEF Resolves, UrlInv, RunnerOk
    <3>3. \A i \in DOMAIN list :
            list[i].status \in {"queued", "downloading"} => ~list[i].entry
      BY <2>4, <2>5, <3>1
    <3>2. WellCarded(urlJobs') /\ RunnerOk' /\ urlCompleted' \in BOOLEAN
      BY <2>1, <2>4, <2>6, <3>3, NextUrlKeeps DEF UrlInv
    <3> QED
      BY <2>2, <3>2 DEF UrlInv
  <2>7. CASE ~Resolves(id)
    <3>1. urlJobs' = list /\ UNCHANGED <<runner, urlCompleted>>
      BY <2>1, <2>7
    <3>2. RunnerOk'
      BY <2>4, <2>5, <3>1 DEF UrlInv, RunnerOk
    <3> QED
      BY <2>2, <2>4, <3>1, <3>2 DEF UrlInv
  <2> QED
    BY <2>6, <2>7
<1> QED
  BY <1>1, <1>2, <1>3, <1>4 DEF PollAnswered

\* submitOne that throws, and the end of a download on the server.
LEMMA ThrowsAndEndsKeep ==
    ASSUME UrlInv, SubmitThrows \/ \E id \in UrlId : DownloadEnds(id)
    PROVE  UrlInv'
<1>1. CASE SubmitThrows
  <2>1. /\ runner.phase = "submit" /\ runner' = Stopped
        /\ UNCHANGED <<urlJobs, timer, polls, entry, urlCompleted>>
    BY <1>1 DEF SubmitThrows
  <2>2. \A i \in DOMAIN urlJobs : urlJobs[i].id # NoId
    <3>1. \A i \in DOMAIN urlJobs : urlJobs[i] \in UrlJob
      BY DEF UrlInv, WellCarded
    <3> QED
      BY <3>1, UrlIdFacts DEF UrlJob
  <2>3. RunnerOk'
    BY <2>1, <2>2 DEF UrlInv, RunnerOk, Runner, Stopped
  <2> QED
    BY <2>1, <2>3 DEF UrlInv, Polled
<1>2. ASSUME NEW id \in UrlId, DownloadEnds(id)
      PROVE  UrlInv'
  <2>1. UNCHANGED <<urlJobs, runner, timer, polls, urlCompleted>>
    BY <1>2 DEF DownloadEnds
  <2>2. entry' \in [UrlId -> EntryStatus]
    BY <1>2 DEF DownloadEnds, UrlInv, Polled, EntryStatus
  <2>3. RunnerOk'
    BY <2>1 DEF UrlInv, RunnerOk
  <2> QED
    BY <2>1, <2>2, <2>3 DEF UrlInv, Polled
<1> QED
  BY <1>1, <1>2

\* The handlers of the dialog, which put another list in the place of the list.
LEMMA EmptyCards == WellCarded(<<>>) /\ DOMAIN <<>> = {}
<1>1. <<>> \in Seq(UrlJob) /\ DOMAIN <<>> = {}
  OBVIOUS
<1> QED
  BY <1>1 DEF WellCarded

\* The list is cleared, or loses jobs, while the loop and its timer go on.
LEMMA ListReplacedKeeps ==
    ASSUME UrlInv, runner' = runner, Polled', urlCompleted' \in BOOLEAN,
           \/ urlJobs' = urlJobs
           \/ ClearAllUrlDownloads
           \/ ResetIdleDownloads
           \/ \E S : RemoveUrls(S)
    PROVE  UrlInv'
<1>1. CASE urlJobs' = urlJobs
  BY <1>1 DEF UrlInv, RunnerOk
<1>2. CASE urlJobs' = <<>>
  <2>1. RunnerOk'
    BY <1>2, EmptyCards DEF UrlInv, RunnerOk
  <2> QED
    BY <1>2, <2>1, EmptyCards DEF UrlInv
<1>3. ASSUME NEW S, RemoveUrls(S)
      PROVE  UrlInv'
  <2>1. /\ WellCarded(urlJobs')
        /\ \A k \in DOMAIN urlJobs' : \E i \in DOMAIN urlJobs : urlJobs'[k] = urlJobs[i]
    BY <1>3, UrlWithout DEF RemoveUrls, UrlInv
  <2>2. RunnerOk'
    BY <2>1, FewerCards
  <2> QED
    BY <2>1, <2>2 DEF UrlInv
<1> QED
  BY <1>1, <1>2, <1>3 DEF ClearAllUrlDownloads, ResetIdleDownloads

\* After a reload nothing is queued or downloading.
LEMMA LoadUrlsKeeps ==
    ASSUME UrlInv, LoadUrlDownloads
    PROVE  UrlInv'
<1> DEFINE S == {j.id : j \in UrlActive}
           list == Patched(urlJobs, S, "status", "checking")
<1>1. PICK old : urlJobs' = Without(list, old)
  BY DEF LoadUrlDownloads
<1>2. /\ runner' = Stopped /\ timer' = NoId /\ polls' = [s \in Slot |-> NoPoll]
      /\ UNCHANGED <<entry, urlCompleted>>
  BY DEF LoadUrlDownloads
<1>3. /\ WellCarded(list) /\ DOMAIN list = DOMAIN urlJobs
      /\ \A i \in DOMAIN urlJobs :
           list[i].status = IF urlJobs[i].id \in S THEN "checking" ELSE urlJobs[i].status
  BY UrlStatusIs DEF UrlInv, UrlStatus
<1>4. \A i \in DOMAIN urlJobs :
        urlJobs[i].status \in {"queued", "downloading"} => urlJobs[i].id \in S
  BY DEF UrlActive, WithStatus, Range
<1> HIDE DEF S, list
<1>5. \A i \in DOMAIN list : list[i].status \notin {"queued", "downloading"}
  BY <1>3, <1>4
<1>6. /\ WellCarded(urlJobs')
      /\ \A k \in DOMAIN urlJobs' : urlJobs'[k].status \notin {"queued", "downloading"}
  BY <1>1, <1>3, <1>5, UrlWithout
<1>7. RunnerOk'
  BY <1>2, <1>6 DEF RunnerOk, Runner, Stopped
<1>8. Polled'
  BY <1>2 DEF UrlInv, Polled, NoPoll, Poll
<1> QED
  BY <1>2, <1>6, <1>7, <1>8 DEF UrlInv

\* checkUrls: a URL that is added is not in the list, and is added once.
LEMMA AddUrlsIs ==
    ASSUME UrlInv, NEW accepted \in Seq(Url), AddUrls(accepted)
    PROVE  /\ WellCarded(urlJobs') /\ UNCHANGED <<runner, timer, polls, urlCompleted>>
           /\ entry' = [id \in UrlId |-> IF id \in Ids(urlJobs') \ Ids(urlJobs) THEN "none"
                                                                               ELSE entry[id]]
           /\ \A i \in DOMAIN urlJobs : i \in DOMAIN urlJobs' /\ urlJobs'[i] = urlJobs[i]
           /\ \A i \in DOMAIN urlJobs' :
                \/ i \in DOMAIN urlJobs /\ urlJobs'[i] = urlJobs[i]
                \/ /\ urlJobs'[i].status = "queued" /\ urlJobs'[i].entry = FALSE
                   /\ urlJobs'[i].id \in FreeUrlIds
<1> DEFINE at == {i \in DOMAIN accepted : /\ accepted[i] \notin Existing
                                          /\ \A k \in 1..i-1 : accepted[k] # accepted[i]}
           new == Kept(accepted, at)
           add == [k \in 1..Len(new) |-> [id |-> Nth(FreeUrlIds, k), url |-> new[k],
                                          status |-> "queued", entry |-> FALSE]]
<1>1. /\ Cardinality(FreeUrlIds) >= Len(new) /\ urlJobs' = urlJobs \o add
      /\ entry' = [id \in UrlId |-> IF id \in Ids(urlJobs') \ Ids(urlJobs) THEN "none"
                                                                          ELSE entry[id]]
      /\ UNCHANGED <<runner, timer, polls, urlCompleted>>
  BY DEF AddUrls
<1>2. /\ \A i \in at : i \in DOMAIN accepted /\ accepted[i] \notin Existing
      /\ \A i, k \in at : accepted[i] = accepted[k] => i = k
  <2>1. \A i \in at : /\ i \in DOMAIN accepted /\ accepted[i] \notin Existing
                      /\ i \in Nat /\ i >= 1
                      /\ \A k \in 1..i-1 : accepted[k] # accepted[i]
    OBVIOUS
  <2> HIDE DEF at
  <2> SUFFICES ASSUME NEW i \in at, NEW k \in at, accepted[i] = accepted[k]
               PROVE  i = k
    BY <2>1
  <2>2. i \in Nat /\ k \in Nat /\ ~(i < k) /\ ~(k < i)
    BY <2>1
  <2> QED
    BY <2>2
<1>3. /\ new \in Seq(Url) /\ Len(new) \in Nat
      /\ \A k \in 1..Len(new) : Nth(at, k) \in at /\ new[k] = accepted[Nth(at, k)]
      /\ \A j, k \in 1..Len(new) : Nth(at, j) = Nth(at, k) => j = k
  <2>1. at \in SUBSET DOMAIN accepted
    BY <1>2
  <2> HIDE DEF at
  <2>2. /\ Cardinality(at) \in Nat /\ Kept(accepted, at) \in Seq(Url)
        /\ Len(Kept(accepted, at)) = Cardinality(at)
        /\ \A k \in 1..Cardinality(at) :
             Nth(at, k) \in at /\ Kept(accepted, at)[k] = accepted[Nth(at, k)]
        /\ \A j, k \in 1..Cardinality(at) : Nth(at, j) = Nth(at, k) => j = k
    BY <2>1, KeptIs
  <2> QED
    BY <2>2
<1> HIDE DEF at, new
<1>4. /\ \A k \in 1..Len(new) : new[k] \in Url /\ new[k] \notin Existing
      /\ \A j, k \in 1..Len(new) : new[j] = new[k] => j = k
  BY <1>2, <1>3
<1>5. /\ \A k \in 1..Len(new) : Nth(FreeUrlIds, k) \in FreeUrlIds
      /\ \A j, k \in 1..Len(new) : Nth(FreeUrlIds, j) = Nth(FreeUrlIds, k) => j = k
  <2>1. /\ FreeUrlIds \in SUBSET Nat /\ IsFiniteSet(FreeUrlIds)
        /\ Cardinality(FreeUrlIds) \in Nat
    BY UrlIdFacts, FS_Subset, FS_CardinalityType DEF FreeUrlIds
  <2>2. \A k \in 1..Len(new) : k \in 1..Cardinality(FreeUrlIds)
    BY <1>1, <1>3, <2>1
  <2> QED
    BY <2>1, <2>2, NthIs, NthOnce
<1>6. \A id \in FreeUrlIds : id \in UrlId /\ id \notin Ids(urlJobs) /\ id # runner.id
  BY DEF FreeUrlIds
<1>7. /\ add \in Seq(UrlJob) /\ DOMAIN add = 1..Len(new)
      /\ \A k \in DOMAIN add :
           /\ add[k].id = Nth(FreeUrlIds, k) /\ add[k].url = new[k]
           /\ add[k].status = "queued" /\ add[k].entry = FALSE
  <2>1. \A k \in 1..Len(new) :
          [id |-> Nth(FreeUrlIds, k), url |-> new[k], status |-> "queued", entry |-> FALSE]
             \in UrlJob
    BY <1>4, <1>5, <1>6 DEF UrlJob, UrlStatus
  <2> QED
    BY <1>3, <2>1
<1> HIDE DEF add
<1>8. WellCarded(add)
  BY <1>4, <1>5, <1>7 DEF WellCarded
<1>9. \A i \in DOMAIN urlJobs, k \in DOMAIN add :
        urlJobs[i].id # add[k].id /\ urlJobs[i].url # add[k].url
  <2>1. \A i \in DOMAIN urlJobs : urlJobs[i].id \in Ids(urlJobs) /\ urlJobs[i].url \in Existing
    BY DEF Ids, Range, Existing
  <2> QED
    BY <1>4, <1>5, <1>6, <1>7, <2>1
<1>10. WellCarded(urlJobs')
  BY <1>1, <1>8, <1>9, UrlAdded DEF UrlInv
<1>11. /\ \A i \in DOMAIN urlJobs : i \in DOMAIN urlJobs' /\ urlJobs'[i] = urlJobs[i]
       /\ \A i \in DOMAIN urlJobs' : \/ i \in DOMAIN urlJobs /\ urlJobs'[i] = urlJobs[i]
                                     \/ \E k \in DOMAIN add : urlJobs'[i] = add[k]
  <2>1. /\ urlJobs \in Seq(UrlJob) /\ Len(urlJobs) \in Nat /\ DOMAIN urlJobs = 1..Len(urlJobs)
        /\ Len(add) \in Nat /\ DOMAIN add = 1..Len(add)
    BY <1>7 DEF UrlInv, WellCarded
  <2>2. /\ DOMAIN urlJobs' = 1..(Len(urlJobs) + Len(add))
        /\ \A i \in DOMAIN urlJobs' : urlJobs'[i] = IF i <= Len(urlJobs) THEN urlJobs[i]
                                                    ELSE add[i - Len(urlJobs)]
    BY <1>1, <1>7, <2>1
  <2>3. \A i \in DOMAIN urlJobs' : i > Len(urlJobs) => i - Len(urlJobs) \in DOMAIN add
    BY <2>1, <2>2
  <2> QED
    BY <2>1, <2>2, <2>3
<1>12. \A k \in DOMAIN add : /\ add[k].status = "queued" /\ add[k].entry = FALSE
                             /\ add[k].id \in FreeUrlIds
  BY <1>5, <1>7
<1> QED
  BY <1>1, <1>10, <1>11, <1>12

\* And the new cards are queued, under ids of their own.
LEMMA AddUrlsKeeps ==
    ASSUME UrlInv, NEW accepted \in Seq(Url), AddUrls(accepted)
    PROVE  UrlInv'
<1>1. RunnerOk'
  <2>1. \A id \in FreeUrlIds : id # runner.id
    BY DEF FreeUrlIds
  <2> QED
    BY <2>1, AddUrlsIs DEF UrlInv, RunnerOk
<1>2. entry' \in [UrlId -> EntryStatus]
  BY AddUrlsIs DEF UrlInv, Polled, EntryStatus
<1> QED
  BY <1>1, <1>2, AddUrlsIs DEF UrlInv, Polled

-----------------------------------------------------------------------------
(* The dialog.                                                              *)

\* A check may be left behind only while there is room for it.
DialogInv ==
    /\ dialog \in [open : BOOLEAN, tab : {"computer", "url"}, text : BOOLEAN,
                   checking : BOOLEAN, starting : BOOLEAN]
    /\ question \in Question
    /\ strays \in 0..MaxChecks
    /\ dialog.checking => strays < MaxChecks
    /\ scenario \in Scenario /\ reloads \in 0..scenario.reloads

TransfersInv == UploadInv /\ UrlInv /\ DialogInv

\* What a step leaves alone stays well formed.
LEMMA StoresSame ==
    ASSUME TransfersInv
    PROVE  /\ UNCHANGED uploadVars => UploadInv'
           /\ UNCHANGED urlVars => UrlInv'
           /\ UNCHANGED dialogVars => DialogInv'
<1>1. ASSUME UNCHANGED uploadVars PROVE UploadInv'
  BY <1>1 DEF TransfersInv, uploadVars, UploadInv, BatchOk
<1>2. ASSUME UNCHANGED urlVars PROVE UrlInv'
  BY <1>2 DEF TransfersInv, urlVars, UrlInv, RunnerOk, Polled
<1>3. ASSUME UNCHANGED dialogVars PROVE DialogInv'
  BY <1>3 DEF TransfersInv, dialogVars, DialogInv
<1> QED
  BY <1>1, <1>2, <1>3

\* The dialog closed, newly opened, and without a question.
LEMMA ClosedIs ==
    /\ Closed \in [open : BOOLEAN, tab : {"computer", "url"}, text : BOOLEAN,
                   checking : BOOLEAN, starting : BOOLEAN]
    /\ [Closed EXCEPT !.open = TRUE]
          \in [open : BOOLEAN, tab : {"computer", "url"}, text : BOOLEAN,
               checking : BOOLEAN, starting : BOOLEAN]
    /\ ~[Closed EXCEPT !.open = TRUE].checking
    /\ ~Closed.checking /\ NoQuestion \in Question
<1>1. Closed \in [open : BOOLEAN, tab : {"computer", "url"}, text : BOOLEAN,
                  checking : BOOLEAN, starting : BOOLEAN]
  BY DEF Closed
<1>2. /\ [Closed EXCEPT !.open = TRUE]
            \in [open : BOOLEAN, tab : {"computer", "url"}, text : BOOLEAN,
                 checking : BOOLEAN, starting : BOOLEAN]
      /\ ~[Closed EXCEPT !.open = TRUE].checking
  BY <1>1 DEF Closed
<1>3. ~Closed.checking
  BY DEF Closed
<1>4. NoQuestion \in Question
  BY DEF NoQuestion, Question
<1> QED
  BY <1>1, <1>2, <1>3, <1>4

\* The tab starts empty, with nothing under way.
LEMMA InitHolds == Init => TransfersInv
<1> SUFFICES ASSUME Init PROVE TransfersInv
  OBVIOUS
<1>1. UploadInv
  <2>1. /\ jobs = <<>> /\ files = {} /\ active = {} /\ blob = [id \in Id |-> FALSE]
        /\ batch = Idle /\ completed = FALSE
    BY DEF Init, UploadInit
  <2>2. BatchOk
    BY <2>1, EmptyList DEF BatchOk, Batch, Idle
  <2> QED
    BY <2>1, <2>2, EmptyList DEF UploadInv
<1>2. UrlInv
  <2>1. /\ urlJobs = <<>> /\ runner = Stopped /\ timer = NoId
        /\ polls = [s \in Slot |-> NoPoll] /\ entry = [id \in UrlId |-> "none"]
        /\ urlCompleted = FALSE
    BY DEF Init, UrlInit
  <2>2. RunnerOk /\ Polled
    BY <2>1, EmptyCards DEF RunnerOk, Runner, Stopped, Polled, NoPoll, Poll, EntryStatus
  <2> QED
    BY <2>1, <2>2, EmptyCards DEF UrlInv
<1>3. DialogInv
  BY ClosedIs, DialogAssumption DEF Init, DialogInv
<1> QED
  BY <1>1, <1>2, <1>3 DEF TransfersInv

\* Closing the dialog forgets that a batch was completed, and leaves a check behind.
LEMMA CloseKeeps ==
    ASSUME TransfersInv, CloseDialog
    PROVE  DialogInv' /\ completed' \in BOOLEAN /\ urlCompleted' \in BOOLEAN
<1>1. /\ dialog' = Closed /\ question' = NoQuestion /\ UNCHANGED <<reloads, scenario>>
      /\ completed' = FALSE /\ urlCompleted' = FALSE
      /\ strays' = strays + (IF dialog.checking THEN 1 ELSE 0)
  BY DEF CloseDialog, ClearUploadsCompleted, ClearUrlDownloadsCompleted
<1>2. strays' \in 0..MaxChecks
  BY <1>1, DialogAssumption DEF TransfersInv, DialogInv
<1>3. DialogInv'
  BY <1>1, <1>2, ClosedIs DEF TransfersInv, DialogInv
<1> QED
  BY <1>1, <1>3

\* useUploadDialog.
LEMMA OpenDialogKeeps ==
    ASSUME TransfersInv, OpenDialog
    PROVE  TransfersInv'
<1>1. dialog' = [Closed EXCEPT !.open = TRUE] /\ UNCHANGED <<question, strays, reloads, scenario>>
  BY DEF OpenDialog
<1>2. DialogInv'
  BY <1>1, ClosedIs DEF TransfersInv, DialogInv
<1>3. CASE StoresUnchanged
  BY <1>2, <1>3, StoresSame DEF StoresUnchanged, TransfersInv
<1>4. CASE /\ ResetIdle /\ ResetIdleDownloads
           /\ UNCHANGED <<completed, runner, timer, polls, entry, urlCompleted>>
  <2>1. UploadInv'
    BY <1>4, ResetIdleKeeps DEF TransfersInv, UploadInv
  <2>2. UrlInv'
    BY <1>4, ListReplacedKeeps DEF TransfersInv, UrlInv, Polled
  <2> QED
    BY <1>2, <2>1, <2>2 DEF TransfersInv
<1> QED
  BY <1>3, <1>4 DEF OpenDialog

\* The cross and the keyboard, with the question that may come up.
LEMMA CloseAttemptKeeps ==
    ASSUME TransfersInv, HandleCloseAttempt
    PROVE  TransfersInv'
<1>1. CASE /\ CloseDialog
           /\ UNCHANGED <<jobs, files, blob, active, batch, urlJobs, runner, timer, polls, entry>>
  <2>1. DialogInv' /\ completed' \in BOOLEAN /\ urlCompleted' \in BOOLEAN
    BY <1>1, CloseKeeps
  <2>2. UploadInv'
    BY <1>1, <2>1 DEF TransfersInv, UploadInv, BatchOk
  <2>3. UrlInv'
    BY <1>1, <2>1, ListReplacedKeeps DEF TransfersInv, UrlInv, Polled
  <2> QED
    BY <2>1, <2>2, <2>3 DEF TransfersInv
<1>2. CASE /\ question' = Unstarted
           /\ StoresUnchanged /\ UNCHANGED <<dialog, strays, reloads, scenario>>
  <2>1. Unstarted \in Question
    <3>1. \A j \in Range(jobs) : j.id \in Id
      <4>1. \A i \in DOMAIN jobs : jobs[i] \in UploadJob
        BY DEF TransfersInv, UploadInv, WellListed
      <4> QED
        BY <4>1 DEF Range, UploadJob
    <3>2. \A j \in Range(urlJobs) : j.id \in UrlId
      <4>1. \A i \in DOMAIN urlJobs : urlJobs[i] \in UrlJob
        BY DEF TransfersInv, UrlInv, WellCarded
      <4> QED
        BY <4>1 DEF Range, UrlJob
    <3> QED
      BY <3>1, <3>2 DEF Unstarted, Question, WithStatus
  <2>2. DialogInv'
    BY <1>2, <2>1 DEF TransfersInv, DialogInv
  <2> QED
    BY <1>2, <2>2, StoresSame DEF StoresUnchanged, TransfersInv
<1> QED
  BY <1>1, <1>2 DEF HandleCloseAttempt

\* discardPending.
LEMMA ConfirmDiscardKeeps ==
    ASSUME TransfersInv, ConfirmDiscard
    PROVE  TransfersInv'
<1>1. /\ RemoveJobs(question.jobs) /\ RemoveUrls(question.urls) /\ CloseDialog
      /\ UNCHANGED <<runner, timer, polls, entry>>
  BY DEF ConfirmDiscard
<1>2. DialogInv' /\ completed' \in BOOLEAN /\ urlCompleted' \in BOOLEAN
  BY <1>1, CloseKeeps
<1>3. UploadInv'
  BY <1>1, <1>2, RemoveJobsKeeps DEF TransfersInv
<1>4. UrlInv'
  BY <1>1, <1>2, ListReplacedKeeps DEF TransfersInv, UrlInv, Polled
<1> QED
  BY <1>2, <1>3, <1>4 DEF TransfersInv

\* A question is asked or dismissed.
LEMMA QuestionsKeep ==
    ASSUME TransfersInv, AskCancelAll \/ DismissQuestion
    PROVE  TransfersInv'
<1>1. StoresUnchanged /\ UNCHANGED <<dialog, strays, reloads, scenario>>
  BY DEF AskCancelAll, DismissQuestion
<1>2. question' \in Question
  <2>1. CASE AskCancelAll
    <3>1. question' = [kind |-> "cancelAll", jobs |-> {},
                       urls |-> {j.id : j \in {u \in Range(urlJobs) : u.entry}}]
      BY <2>1 DEF AskCancelAll
    <3>2. \A j \in Range(urlJobs) : j.id \in UrlId
      <4>1. \A i \in DOMAIN urlJobs : urlJobs[i] \in UrlJob
        BY DEF TransfersInv, UrlInv, WellCarded
      <4> QED
        BY <4>1 DEF Range, UrlJob
    <3> QED
      BY <3>1, <3>2 DEF Question
  <2>2. CASE DismissQuestion
    BY <2>2, ClosedIs DEF DismissQuestion
  <2> QED
    BY <2>1, <2>2
<1>3. DialogInv'
  BY <1>1, <1>2 DEF TransfersInv, DialogInv
<1> QED
  BY <1>1, <1>3, StoresSame DEF StoresUnchanged, TransfersInv

\* Both queues are dropped.
LEMMA ConfirmCancelAllKeeps ==
    ASSUME TransfersInv, ConfirmCancelAll
    PROVE  TransfersInv'
<1>1. /\ ClearAllUploads /\ ClearAllUrlDownloads /\ question' = NoQuestion
      /\ UNCHANGED <<completed, runner, timer, polls, urlCompleted>>
      /\ UNCHANGED <<dialog, strays, reloads, scenario>>
  BY DEF ConfirmCancelAll
<1>2. entry' \in [UrlId -> EntryStatus]
  BY DEF ConfirmCancelAll, TransfersInv, UrlInv, Polled, EntryStatus
<1>3. UploadInv'
  BY <1>1, ClearAllKeeps DEF TransfersInv, UploadInv
<1>4. UrlInv'
  BY <1>1, <1>2, ListReplacedKeeps DEF TransfersInv, UrlInv, Polled
<1>5. DialogInv'
  BY <1>1, ClosedIs DEF TransfersInv, DialogInv
<1> QED
  BY <1>3, <1>4, <1>5 DEF TransfersInv

\* The handlers that only change what the dialog shows.
LEMMA DialogOnlyKeeps ==
    ASSUME TransfersInv, SwitchTab \/ TypeUrls \/ HandleCheckUrls
    PROVE  TransfersInv'
<1>1. StoresUnchanged /\ UNCHANGED <<question, strays, reloads, scenario>>
  BY DEF SwitchTab, TypeUrls, HandleCheckUrls
<1>2. /\ dialog' \in [open : BOOLEAN, tab : {"computer", "url"}, text : BOOLEAN,
                      checking : BOOLEAN, starting : BOOLEAN]
      /\ dialog'.checking => dialog.checking \/ strays < MaxChecks
  <2>1. CASE SwitchTab
    BY <2>1 DEF SwitchTab, TransfersInv, DialogInv
  <2>2. CASE TypeUrls
    BY <2>2 DEF TypeUrls, TransfersInv, DialogInv
  <2>3. CASE HandleCheckUrls
    BY <2>3 DEF HandleCheckUrls, TransfersInv, DialogInv
  <2> QED
    BY <2>1, <2>2, <2>3
<1>3. DialogInv'
  BY <1>1, <1>2 DEF TransfersInv, DialogInv
<1> QED
  BY <1>1, <1>3, StoresSame DEF StoresUnchanged, TransfersInv

\* Starting one queue abandons the other.
LEMMA StartsKeep ==
    ASSUME TransfersInv, HandleStartFiles \/ HandleStartUrls
    PROVE  TransfersInv'
<1>1. CASE HandleStartFiles
  <2>1. /\ StartAll /\ ClearAllUrlDownloads
        /\ UNCHANGED <<runner, timer, polls, entry, urlCompleted>> /\ UNCHANGED dialogVars
    BY <1>1 DEF HandleStartFiles
  <2>2. UploadInv'
    BY <2>1, StartAllKeeps DEF TransfersInv
  <2>3. UrlInv'
    BY <2>1, ListReplacedKeeps DEF TransfersInv, UrlInv, Polled
  <2> QED
    BY <2>1, <2>2, <2>3, StoresSame DEF TransfersInv
<1>2. CASE HandleStartUrls
  <2>1. /\ ClearAllUploads /\ StartDownloads
        /\ dialog' = [dialog EXCEPT !.starting = (runner.phase = "off")]
        /\ UNCHANGED completed /\ UNCHANGED <<question, strays, reloads, scenario>>
    BY <1>2 DEF HandleStartUrls
  <2>2. UploadInv'
    BY <2>1, ClearAllKeeps DEF TransfersInv, UploadInv
  <2>3. UrlInv'
    BY <2>1, StartDownloadsKeeps DEF TransfersInv
  <2>4. DialogInv'
    <3>1. (runner.phase = "off") \in BOOLEAN
      OBVIOUS
    <3>2. /\ dialog' \in [open : BOOLEAN, tab : {"computer", "url"}, text : BOOLEAN,
                          checking : BOOLEAN, starting : BOOLEAN]
          /\ dialog'.checking = dialog.checking
      BY <2>1, <3>1 DEF TransfersInv, DialogInv
    <3> QED
      BY <2>1, <3>2 DEF TransfersInv, DialogInv
  <2> QED
    BY <2>2, <2>3, <2>4 DEF TransfersInv
<1> QED
  BY <1>1, <1>2

\* Files are added, and cards removed.
LEMMA CardsKeep ==
    ASSUME TransfersInv,
           \/ \E selection \in Selection : AddSelected(selection)
           \/ \E id \in Id : RemoveCard(id)
           \/ \E id \in UrlId : RemoveUrlCard(id)
    PROVE  TransfersInv'
<1>1. ASSUME NEW selection \in Selection, AddSelected(selection)
      PROVE  TransfersInv'
  <2>1. AddFiles(selection) /\ UNCHANGED urlVars /\ UNCHANGED dialogVars
    BY <1>1 DEF AddSelected
  <2>2. UploadInv'
    BY <2>1, AddFilesKeeps, DialogAssumption DEF TransfersInv
  <2> QED
    BY <2>1, <2>2, StoresSame DEF TransfersInv
<1>2. ASSUME NEW id \in Id, RemoveCard(id)
      PROVE  TransfersInv'
  <2>1. RemoveJobs({id}) /\ UNCHANGED completed /\ UNCHANGED urlVars /\ UNCHANGED dialogVars
    BY <1>2 DEF RemoveCard
  <2>2. UploadInv'
    BY <2>1, RemoveJobsKeeps DEF TransfersInv, UploadInv
  <2> QED
    BY <2>1, <2>2, StoresSame DEF TransfersInv
<1>3. ASSUME NEW id \in UrlId, RemoveUrlCard(id)
      PROVE  TransfersInv'
  <2>1. /\ RemoveUrls({id}) /\ UNCHANGED <<runner, timer, polls, entry, urlCompleted>>
        /\ UNCHANGED uploadVars /\ UNCHANGED dialogVars
    BY <1>3 DEF RemoveUrlCard
  <2>2. UrlInv'
    BY <2>1, ListReplacedKeeps DEF TransfersInv, UrlInv, Polled
  <2> QED
    BY <2>1, <2>2, StoresSame DEF TransfersInv
<1> QED
  BY <1>1, <1>2, <1>3

\* A hard refresh.
LEMMA ReloadKeeps ==
    ASSUME TransfersInv, Reload
    PROVE  TransfersInv'
<1>1. /\ LoadUploads /\ LoadUrlDownloads
      /\ reloads < scenario.reloads /\ reloads' = reloads + 1
      /\ dialog' = Closed /\ question' = NoQuestion /\ strays' = 0 /\ UNCHANGED scenario
  BY DEF Reload
<1>2. DialogInv'
  <2>1. scenario \in Scenario /\ scenario.reloads \in Nat /\ reloads \in Nat
    BY DialogAssumption DEF TransfersInv, DialogInv
  <2>2. reloads' \in 0..scenario'.reloads /\ strays' \in 0..MaxChecks
    BY <1>1, <2>1, DialogAssumption
  <2> QED
    BY <1>1, <2>1, <2>2, ClosedIs DEF DialogInv
<1>3. UploadInv' /\ UrlInv'
  BY <1>1, LoadKeeps, LoadUrlsKeeps DEF TransfersInv
<1> QED
  BY <1>2, <1>3 DEF TransfersInv

\* An answer to a check, wanted or stray.
LEMMA CheckAnsweredKeeps ==
    ASSUME TransfersInv, NEW accepted \in Accepted, CheckAnswered(accepted)
    PROVE  TransfersInv'
<1>1. AddUrls(accepted) /\ UNCHANGED uploadVars /\ UNCHANGED <<question, reloads, scenario>>
  BY DEF CheckAnswered
<1>2. UrlInv'
  BY <1>1, AddUrlsKeeps, DialogAssumption DEF TransfersInv
<1>3. DialogInv'
  <2>1. CASE /\ dialog.checking /\ UNCHANGED strays
             /\ dialog' = [dialog EXCEPT !.checking = FALSE,
                                         !.text = @ /\ Len(urlJobs') = Len(urlJobs)]
    <3>1. (dialog.text /\ Len(urlJobs') = Len(urlJobs)) \in BOOLEAN
      OBVIOUS
    <3>2. /\ dialog' \in [open : BOOLEAN, tab : {"computer", "url"}, text : BOOLEAN,
                          checking : BOOLEAN, starting : BOOLEAN]
          /\ ~dialog'.checking
      BY <2>1, <3>1 DEF TransfersInv, DialogInv
    <3> QED
      BY <1>1, <2>1, <3>2 DEF TransfersInv, DialogInv
  <2>2. CASE strays > 0 /\ strays' = strays - 1 /\ UNCHANGED dialog
    <3>1. strays' \in 0..MaxChecks /\ strays' < MaxChecks
      BY <2>2, DialogAssumption DEF TransfersInv, DialogInv
    <3> QED
      BY <1>1, <2>2, <3>1 DEF TransfersInv, DialogInv
  <2> QED
    BY <2>1, <2>2 DEF CheckAnswered
<1> QED
  BY <1>1, <1>2, <1>3, StoresSame DEF TransfersInv

\* What happens to the uploads by itself.
LEMMA UploadStepsKeep ==
    ASSUME TransfersInv,
           \/ UploadStep(RestoreEnds)
           \/ \E id \in Id : UploadStep(UploadUrlAvailable(id)) \/ UploadStep(TransferEnds(id))
    PROVE  TransfersInv'
<1>1. UNCHANGED urlVars /\ UNCHANGED dialogVars
  BY DEF UploadStep
<1>2. RestoreEnds \/ (\E id \in Id : UploadUrlAvailable(id) \/ TransferEnds(id))
  BY DEF UploadStep
<1>3. UploadInv'
  BY <1>2, RestoreEndsKeeps, UrlAvailableKeeps, TransferEndsKeeps DEF TransfersInv
<1> QED
  BY <1>1, <1>3, StoresSame DEF TransfersInv

\* What happens to the downloads by itself.
LEMMA UrlStepsKeep ==
    ASSUME TransfersInv,
           \/ UrlStep(SubmitAnswered) \/ UrlStep(CallFails)
           \/ \E s \in Slot : UrlStep(Tick(s)) \/ UrlStep(PollAnswered(s))
           \/ \E id \in UrlId : UrlStep(DownloadEnds(id))
    PROVE  TransfersInv'
<1>1. UNCHANGED uploadVars /\ UNCHANGED dialogVars
  BY DEF UrlStep
<1>2. \/ SubmitAnswered \/ SubmitThrows
      \/ \E s \in Slot : Tick(s) \/ PollAnswered(s) \/ PollThrows(s)
      \/ \E id \in UrlId : DownloadEnds(id)
  BY DEF UrlStep, CallFails
<1>3. UrlInv'
  BY <1>2, SubmitAnsweredKeeps, PollsKeep, ThrowsAndEndsKeep DEF TransfersInv
<1> QED
  BY <1>1, <1>3, StoresSame DEF TransfersInv

\* Every step keeps the invariant.
LEMMA NextKeeps == TransfersInv /\ [Next]_vars => TransfersInv'
<1> SUFFICES ASSUME TransfersInv, [Next]_vars PROVE TransfersInv'
  OBVIOUS
<1>1. CASE UNCHANGED vars
  BY <1>1, StoresSame DEF vars, TransfersInv
<1>2. CASE UserStep
  BY <1>2, OpenDialogKeeps, CloseAttemptKeeps, ConfirmDiscardKeeps, QuestionsKeep,
     ConfirmCancelAllKeeps, DialogOnlyKeeps, StartsKeep, CardsKeep, ReloadKeeps DEF UserStep
<1>3. CASE \E accepted \in Accepted : CheckAnswered(accepted)
  BY <1>3, CheckAnsweredKeeps
<1>4. CASE \/ UploadStep(RestoreEnds)
           \/ \E id \in Id : UploadStep(UploadUrlAvailable(id)) \/ UploadStep(TransferEnds(id))
  BY <1>4, UploadStepsKeep
<1>5. CASE \/ UrlStep(SubmitAnswered) \/ UrlStep(CallFails)
           \/ \E s \in Slot : UrlStep(Tick(s)) \/ UrlStep(PollAnswered(s))
           \/ \E id \in UrlId : UrlStep(DownloadEnds(id))
  BY <1>5, UrlStepsKeep
<1> QED
  BY <1>1, <1>2, <1>3, <1>4, <1>5 DEF Next

\* The invariant holds at every moment.
LEMMA SpecTransfersInv == Spec => []TransfersInv
BY InitHolds, NextKeeps, PTL DEF Spec

-----------------------------------------------------------------------------
(* The properties.                                                          *)

\* A list has as many ids as jobs when no id is there twice.
LEMMA IdsCounted ==
    ASSUME NEW T, NEW list \in Seq(T),
           \A i, k \in DOMAIN list : list[i].id = list[k].id => i = k
    PROVE  Cardinality(Ids(list)) = Len(list)
<1> DEFINE f == [i \in 1..Len(list) |-> list[i].id]
<1>1. Len(list) \in Nat /\ DOMAIN list = 1..Len(list)
  OBVIOUS
<1>2. Ids(list) = {list[i].id : i \in DOMAIN list}
  BY DEF Ids, Range
<1>3. f \in Bijection(1..Len(list), Ids(list))
  <2>1. f \in [1..Len(list) -> Ids(list)]
    BY <1>1, <1>2
  <2>2. \A i, k \in 1..Len(list) : f[i] = f[k] => i = k
    BY <1>1
  <2>3. \A id \in Ids(list) : \E i \in 1..Len(list) : f[i] = id
    BY <1>1, <1>2
  <2> QED
    BY <2>1, <2>2, <2>3 DEF Bijection, Injection, IsInjective, Surjection
<1>4. ExistsBijection(1..Len(list), Ids(list))
  BY <1>3 DEF ExistsBijection
<1> QED
  BY <1>1, <1>4, FS_CountingElements

\* The shape of the state, at every moment: above all no id twice in a list, and
\* no loop that is off and waits for something.
THEOREM SpecTransfersTypeOK == Spec => []TransfersTypeOK
<1>1. ASSUME TransfersInv PROVE TransfersTypeOK
  <2>1. /\ Cardinality(Ids(jobs)) = Len(jobs)
        /\ Cardinality(Ids(urlJobs)) = Len(urlJobs)
    BY <1>1, IdsCounted DEF TransfersInv, UploadInv, UrlInv, WellListed, WellCarded
  <2> QED
    BY <1>1, <2>1 DEF TransfersTypeOK, TransfersInv, UploadInv, BatchOk, WellListed,
       UrlInv, RunnerOk, Polled, WellCarded, DialogInv
<1> QED
  BY <1>1, SpecTransfersInv, PTL

\* Each loop waits for the one transfer under way, for any files, URLs and
\* number of them (LoopsWait).
THEOREM SpecLoopsWait == Spec => []LoopsWait
<1>1. ASSUME TransfersInv PROVE LoopsWait
  BY <1>1 DEF LoopsWait, TransfersInv, UploadInv, BatchOk, UrlInv, RunnerOk, WithStatus, Range
<1> QED
  BY <1>1, SpecTransfersInv, PTL

\* No file has two live jobs and no URL two cards, however many are picked at
\* once and whatever checks are in flight (NothingListedTwice).
THEOREM SpecNothingListedTwice == Spec => []NothingListedTwice
<1>1. ASSUME TransfersInv PROVE NothingListedTwice
  <2>1. \A j, k \in Live : j.file = k.file => j = k
    BY <1>1 DEF TransfersInv, UploadInv, WellListed, Live, Range, Over
  <2>2. \A j, k \in Range(urlJobs) : j.url = k.url => j = k
    BY <1>1 DEF TransfersInv, UrlInv, WellCarded, Range
  <2> QED
    BY <2>1, <2>2 DEF NothingListedTwice
<1> QED
  BY <1>1, SpecTransfersInv, PTL
-----------------------------------------------------------------------------
(* The news: what ended well while the dialog was closed.                   *)

\* Before a reload: the timer and the polls are about cards that have an entry,
\* the last poll about one that the server is done with, and a card that has
\* ended says of its entry what the server says.
Polling(id) == id = timer \/ \E s \in Slot : polls[s].phase # "none" /\ polls[s].id = id
PollsAsk ==
    /\ timer # NoId => entry[timer] # "none"
    /\ \A s \in Slot :
          /\ polls[s].phase # "none" => polls[s].id \in UrlId /\ entry[polls[s].id] # "none"
          /\ polls[s].phase = "entry" => entry[polls[s].id] # "downloading"
CardOk(c) ==
    /\ c.status # "checking"
    /\ Polling(c.id) => c.entry
    /\ runner.phase = "submit" /\ runner.id = c.id => c.status = "downloading" /\ ~c.entry
    /\ c.status = "done" => entry[c.id] \in {"ready", "deleted"}
    /\ c.status = "failed" => entry[c.id] \in {"none", "failed", "deleted"}
CardsSay == \A i \in DOMAIN urlJobs : CardOk(urlJobs[i])
Asking == PollsAsk /\ CardsSay

\* What ended is still listed, and the lists are not cleared when the dialog
\* opens: they have been marked as completed, or something in them is under way.
FileNews == \E id \in Id : <<"file", id>> \in news
UrlNews  == \E id \in UrlId : <<"url", id>> \in news
NewsShown ==
    /\ news \subseteq Ended
    /\ FileNews => completed \/ Live # {}
    /\ UrlNews => urlCompleted \/ UrlActive # {}

NewsInv ==
    /\ question.kind # "none" => dialog.open
    /\ dialog.open => news = {}
    /\ reloads = 0 => Asking /\ (~dialog.open => NewsShown)

\* The ids of the jobs of a list that ended well.
Done(list) == {list[i].id : i \in {k \in DOMAIN list : list[k].status = "done"}}

LEMMA EndedIs ==
    Ended = {<<"file", id>> : id \in Done(jobs)} \cup {<<"url", id>> : id \in Done(urlJobs)}
BY DEF Ended, Done, WithStatus, Range

\* What a step of the stores keeps of the files and of the URLs while the dialog
\* is closed.
FilesKept ==
    /\ Done(jobs) \subseteq Done(jobs')
    /\ \/ Done(jobs') # {} => completed' \/ Live' # {}
       \/ Done(jobs') = Done(jobs) /\ completed' = completed /\ (Live # {} => Live' # {})
UrlsKept ==
    /\ Done(urlJobs) \subseteq Done(urlJobs')
    /\ \/ Done(urlJobs') # {} => urlCompleted' \/ UrlActive' # {}
       \/ /\ Done(urlJobs') = Done(urlJobs) /\ urlCompleted' = urlCompleted
          /\ UrlActive # {} => UrlActive' # {}

\* Then the news are shown still.
LEMMA NewsStep ==
    ASSUME NewsShown, FilesKept, UrlsKept, news' = news \cup (Ended' \ Ended)
    PROVE  NewsShown'
<1>1. Ended' = {<<"file", id>> : id \in Done(jobs')} \cup {<<"url", id>> : id \in Done(urlJobs')}
  BY DEF Ended, Done, WithStatus, Range
<1>2. news' \subseteq Ended'
  BY <1>1, EndedIs DEF NewsShown, FilesKept, UrlsKept
<1>3. \A id : /\ <<"file", id>> \in news' => id \in Done(jobs')
              /\ <<"url", id>> \in news' => id \in Done(urlJobs')
  BY <1>1, <1>2
<1>4. ASSUME Done(jobs') = Done(jobs), NEW id, <<"file", id>> \in news'
      PROVE  <<"file", id>> \in news
  <2>1. id \in Done(jobs)
    BY <1>3, <1>4
  <2>2. <<"file", id>> \in Ended
    BY <2>1, EndedIs
  <2> QED
    BY <1>4, <2>2
<1>5. ASSUME Done(urlJobs') = Done(urlJobs), NEW id, <<"url", id>> \in news'
      PROVE  <<"url", id>> \in news
  <2>1. id \in Done(urlJobs)
    BY <1>3, <1>5
  <2>2. <<"url", id>> \in Ended
    BY <2>1, EndedIs
  <2> QED
    BY <1>5, <2>2
<1>6. FileNews' => completed' \/ Live' # {}
  <2> SUFFICES ASSUME NEW id \in Id, <<"file", id>> \in news' PROVE completed' \/ Live' # {}
    BY DEF FileNews
  <2>1. Done(jobs') # {}
    BY <1>3
  <2>2. Done(jobs') = Done(jobs) => FileNews
    BY <1>4 DEF FileNews
  <2> QED
    BY <2>1, <2>2 DEF FilesKept, NewsShown
<1>7. UrlNews' => urlCompleted' \/ UrlActive' # {}
  <2> SUFFICES ASSUME NEW id \in UrlId, <<"url", id>> \in news'
               PROVE  urlCompleted' \/ UrlActive' # {}
    BY DEF UrlNews
  <2>1. Done(urlJobs') # {}
    BY <1>3
  <2>2. Done(urlJobs') = Done(urlJobs) => UrlNews
    BY <1>5 DEF UrlNews
  <2> QED
    BY <2>1, <2>2 DEF UrlsKept, NewsShown
<1> QED
  BY <1>2, <1>6, <1>7 DEF NewsShown

\* A round of the loop leaves what is done, and marks it at the end.
LEMMA NextJobNews ==
    ASSUME NEW list, WellListed(list), NEW inMemory, NEW transfers,
           NextJob(list, inMemory, transfers)
    PROVE  /\ Done(jobs') = Done(list)
           /\ Done(jobs') # {} => completed' \/ Live' # {}
<1>1. CASE WithStatus(list, Pending) = {}
  <2>1. jobs' = list /\ completed' = (completed \/ WithStatus(list, {"done"}) # {})
    BY <1>1 DEF NextJob, MarkUploadsCompleted
  <2> QED
    BY <2>1 DEF Done, WithStatus, Range
<1>2. CASE WithStatus(list, Pending) # {}
  <2> DEFINE id == FirstWith(list, Pending)
  <2>1. PICK i \in DOMAIN list : list[i].status \in Pending /\ id = list[i].id
    BY <1>2, FirstWithIs DEF WellListed
  <2>2. jobs' = Patched(list, {id}, "status", "uploading") \/ jobs' = list
    BY <1>2 DEF NextJob, SetStatus
  <2> HIDE DEF id
  <2>3. \A k \in DOMAIN list : list[k].id = id => list[k].status \in Pending
    BY <2>1 DEF WellListed
  <2>4. /\ DOMAIN jobs' = DOMAIN list
        /\ \A k \in DOMAIN list :
             /\ jobs'[k].id = list[k].id
             /\ jobs'[k].status = list[k].status
                \/ (list[k].status \in Pending /\ jobs'[k].status = "uploading")
    BY <2>2, <2>3, StatusIs DEF WellListed, UploadStatus
  <2>5. Done(jobs') = Done(list)
    BY <2>4 DEF Done, Pending
  <2>6. Live' # {}
    BY <2>1, <2>4 DEF Live, Range, Pending
  <2> QED
    BY <2>5, <2>6
<1> QED
  BY <1>1, <1>2

\* What happens to the uploads by itself keeps what is done: the transfer that ends
\* is of a job that reads uploading.
LEMMA UploadsNews ==
    ASSUME UploadInv,
           RestoreEnds \/ \E id \in Id : UploadUrlAvailable(id) \/ TransferEnds(id)
    PROVE  FilesKept
<1>1. ASSUME NextJob(jobs, files, active) PROVE FilesKept
  BY <1>1, NextJobNews DEF UploadInv, FilesKept
<1>2. ASSUME NEW new, jobs' = new, UNCHANGED completed, DOMAIN new = DOMAIN jobs,
             \A i \in DOMAIN jobs :
                /\ new[i].id = jobs[i].id
                /\ \/ new[i].status = jobs[i].status
                   \/ jobs[i].status \notin Over /\ new[i].status \notin Over
      PROVE  FilesKept
  <2>1. Done(jobs') = Done(jobs)
    BY <1>2 DEF Done, Over
  <2>2. Live # {} => Live' # {}
    BY <1>2 DEF Live, Range, Over
  <2> QED
    BY <1>2, <2>1, <2>2 DEF FilesKept
<1>3. ASSUME batch.phase = "restore", Begin(jobs, batch.id), UNCHANGED completed PROVE FilesKept
  <2>1. jobs' = Patched(jobs, {batch.id}, "status", "uploading")
    BY <1>3 DEF Begin, SetStatus
  <2>2. \A i \in DOMAIN jobs : jobs[i].id = batch.id => jobs[i].status \in Pending
    BY <1>3 DEF UploadInv, BatchOk
  <2> DEFINE new == Patched(jobs, {batch.id}, "status", "uploading")
  <2>4. /\ DOMAIN new = DOMAIN jobs
        /\ \A i \in DOMAIN jobs :
             /\ new[i].id = jobs[i].id
             /\ new[i].status = IF jobs[i].id \in {batch.id} THEN "uploading" ELSE jobs[i].status
    BY StatusIs DEF UploadInv, WellListed, UploadStatus
  <2> HIDE DEF new
  <2>3. /\ jobs' = new /\ DOMAIN new = DOMAIN jobs
        /\ \A i \in DOMAIN jobs :
             /\ new[i].id = jobs[i].id
             /\ \/ new[i].status = jobs[i].status
                \/ jobs[i].status \notin Over /\ new[i].status \notin Over
    BY <2>1, <2>2, <2>4 DEF Pending, Over, new
  <2> QED
    BY <1>2, <1>3, <2>3
<1>4. ASSUME NEW id \in Id, UploadUrlAvailable(id) PROVE FilesKept
  <2> DEFINE to(j) == IF j.id \in {id} THEN [j EXCEPT !["url"] = TRUE] ELSE j
  <2>1. \A j \in UploadJob : to(j).id = j.id /\ to(j).status = j.status
    BY DEF UploadJob
  <2>2. jobs' = [i \in DOMAIN jobs |-> to(jobs[i])] /\ UNCHANGED completed
    BY <1>4 DEF UploadUrlAvailable, Patched
  <2>3. \A i \in DOMAIN jobs : jobs[i] \in UploadJob
    BY DEF UploadInv, WellListed
  <2> HIDE DEF to
  <2> QED
    BY <1>2, <2>1, <2>2, <2>3
<1>5. ASSUME NEW id \in active, NEW v \in Over, Resolve(id, SetStatus(jobs, id, v)) PROVE FilesKept
  <2> DEFINE list == Patched(jobs, {id}, "status", v)
  <2>1. batch.phase = "wait" /\ batch.id = id
    BY DEF UploadInv, BatchOk
  <2>2. NextJob(list, files, active \ {id})
    BY <1>5, <2>1 DEF Resolve, SetStatus
  <2>3. v \in UploadStatus
    BY DEF Over, UploadStatus
  <2>4. /\ WellListed(list) /\ DOMAIN list = DOMAIN jobs
        /\ \A k \in DOMAIN jobs :
             /\ list[k].id = jobs[k].id
             /\ list[k].status = IF jobs[k].id \in {id} THEN v ELSE jobs[k].status
    BY SMTT(60), <2>3, StatusKeepsList, StatusIs DEF UploadInv, WellListed
  <2> HIDE DEF list
  <2>5. \A k \in DOMAIN jobs : jobs[k].status = "done" => jobs[k].id # id
    BY DEF UploadInv, BatchOk
  <2>6. Done(jobs) \subseteq Done(list)
    BY <2>4, <2>5 DEF Done
  <2> QED
    BY <2>2, <2>4, <2>6, NextJobNews DEF FilesKept
<1> QED
  BY <1>1, <1>3, <1>4, <1>5 DEF RestoreEnds, TransferEnds, TransferDone, TransferFailed, Over

\* A round of the other loop: the same cards, of which it may have started one.
LEMMA NextUrlIs ==
    ASSUME NEW list, WellCarded(list), NextUrl(list)
    PROVE  /\ DOMAIN urlJobs' = DOMAIN list
           /\ \A i \in DOMAIN list :
                /\ urlJobs'[i].id = list[i].id /\ urlJobs'[i].entry = list[i].entry
                /\ \/ urlJobs'[i].status = list[i].status
                   \/ list[i].status = "queued" /\ urlJobs'[i].status = "downloading"
                /\ runner'.phase = "submit" /\ runner'.id = list[i].id =>
                      list[i].status = "queued" /\ urlJobs'[i].status = "downloading"
           /\ Done(urlJobs') # {} => urlCompleted' \/ UrlActive' # {}
<1>1. CASE WithStatus(list, {"queued"}) = {}
  <2>1. /\ urlJobs' = list /\ runner' = Stopped
        /\ urlCompleted' = (urlCompleted \/ WithStatus(list, {"done"}) # {})
    BY <1>1 DEF NextUrl, MarkUrlDownloadsCompleted
  <2>2. Done(list) # {} => WithStatus(list, {"done"}) # {}
    BY DEF Done, WithStatus, Range
  <2> QED
    BY <2>1, <2>2 DEF Stopped
<1>2. CASE WithStatus(list, {"queued"}) # {}
  <2> DEFINE id == FirstWith(list, {"queued"})
  <2>1. /\ urlJobs' = Patched(list, {id}, "status", "downloading")
        /\ runner' = [phase |-> "submit", id |-> id]
    BY <1>2 DEF NextUrl, SetStatus
  <2>2. PICK i \in DOMAIN list : list[i].status = "queued" /\ id = list[i].id
    BY <1>2, FirstWithIs DEF WellCarded
  <2> HIDE DEF id
  <2>3. /\ DOMAIN urlJobs' = DOMAIN list
        /\ \A k \in DOMAIN list :
             /\ urlJobs'[k].id = list[k].id /\ urlJobs'[k].entry = list[k].entry
             /\ urlJobs'[k].status = IF list[k].id \in {id} THEN "downloading" ELSE list[k].status
    BY <2>1, UrlStatusIs DEF UrlStatus
  <2>4. \A k \in DOMAIN list : list[k].id = id => list[k].status = "queued"
    BY <2>2 DEF WellCarded
  <2>5. UrlActive' # {}
    BY <2>2, <2>3 DEF UrlActive, WithStatus, Range
  <2> QED
    BY <2>1, <2>3, <2>4, <2>5
<1> QED
  BY <1>1, <1>2

\* What is known of a card but for the loop.
CardShown(c) ==
    /\ c.status # "checking"
    /\ Polling(c.id) => c.entry
    /\ c.status = "queued" => ~c.entry
    /\ c.status = "done" => entry[c.id] \in {"ready", "deleted"}
    /\ c.status = "failed" => entry[c.id] \in {"none", "failed", "deleted"}

\* A round of the loop over cards that are right keeps them so.
LEMMA NextUrlNews ==
    ASSUME NEW list, WellCarded(list), NextUrl(list), PollsAsk', entry' = entry,
           \A id \in UrlId : Polling(id)' => Polling(id),
           \A i \in DOMAIN list : CardShown(list[i])
    PROVE  /\ Asking' /\ Done(urlJobs') = Done(list)
           /\ Done(urlJobs') # {} => urlCompleted' \/ UrlActive' # {}
<1>1. CardsSay'
  <2> SUFFICES ASSUME NEW i \in DOMAIN urlJobs' PROVE CardOk(urlJobs[i])'
    BY DEF CardsSay
  <2>1. list[i].id \in UrlId
    <3>1. list[i] \in UrlJob
      BY NextUrlIs DEF WellCarded
    <3> QED
      BY <3>1 DEF UrlJob
  <2> QED
    BY <2>1, NextUrlIs DEF CardShown, CardOk
<1>2. Done(urlJobs') = Done(list)
  BY NextUrlIs DEF Done
<1> QED
  BY <1>1, <1>2, NextUrlIs DEF Asking

\* The cards are right without the loop, queued ones included.
LEMMA CardsShown ==
    ASSUME UrlInv, CardsSay, NEW i \in DOMAIN urlJobs
    PROVE  CardShown(urlJobs[i])
BY DEF UrlInv, RunnerOk, CardsSay, CardOk, CardShown

\* Fewer cards, or what the server has deleted.
LEMMA FewerAsk ==
    ASSUME Asking, UNCHANGED <<runner, timer, polls, entry>>,
           \A k \in DOMAIN urlJobs' : \E i \in DOMAIN urlJobs : urlJobs'[k] = urlJobs[i]
    PROVE  Asking'
<1>1. \A id : Polling(id)' <=> Polling(id)
  BY DEF Polling
<1> QED
  BY <1>1 DEF Asking, PollsAsk, CardsSay, CardOk

\* submitOne.
LEMMA SubmitNews ==
    ASSUME UrlInv, Asking, SubmitAnswered \/ SubmitThrows
    PROVE  Asking' /\ UrlsKept
<1>1. CASE ServerAccepts
  <2>1. /\ runner.phase = "submit" /\ entry[runner.id] = "none"
        /\ entry' = [entry EXCEPT ![runner.id] = "downloading"]
        /\ UNCHANGED <<urlJobs, runner, timer, polls, urlCompleted>>
    BY <1>1 DEF ServerAccepts
  <2>2. \A id \in UrlId : entry'[id] = IF id = runner.id THEN "downloading" ELSE entry[id]
    BY <2>1 DEF UrlInv, Polled
  <2>3. \A id : Polling(id)' <=> Polling(id)
    BY <2>1 DEF Polling
  <2>4. CardsSay'
    <3> SUFFICES ASSUME NEW i \in DOMAIN urlJobs PROVE CardOk(urlJobs[i])'
      BY <2>1 DEF CardsSay
    <3>1. CardOk(urlJobs[i])
      BY DEF Asking, CardsSay
    <3>2. urlJobs[i].id \in UrlId
      <4>1. urlJobs[i] \in UrlJob
        BY DEF UrlInv, WellCarded
      <4> QED
        BY <4>1 DEF UrlJob
    <3> QED
      BY <2>1, <2>2, <2>3, <3>1, <3>2 DEF CardOk
  <2>5. PollsAsk'
    BY <2>1, <2>2, UrlIdFacts DEF Asking, PollsAsk, UrlInv, Polled
  <2> QED
    BY <2>1, <2>4, <2>5 DEF Asking, UrlsKept, UrlActive
<1>2. CASE SubmitAccepted
  <2> DEFINE id == runner.id
             new == Patched(urlJobs, {id}, "entry", TRUE)
  <2>1. /\ runner.phase = "submit" /\ entry[id] # "none" /\ urlJobs' = new
        /\ runner'.phase = "wait" /\ timer' = id /\ UNCHANGED <<polls, entry, urlCompleted>>
    BY <1>2 DEF SubmitAccepted, UrlInv, RunnerOk, Runner
  <2>2. /\ DOMAIN new = DOMAIN urlJobs
        /\ \A i \in DOMAIN urlJobs :
             /\ new[i].id = urlJobs[i].id /\ new[i].status = urlJobs[i].status
             /\ new[i].entry = IF urlJobs[i].id \in {id} THEN TRUE ELSE urlJobs[i].entry
    <3> DEFINE to(j) == IF j.id \in {id} THEN [j EXCEPT !["entry"] = TRUE] ELSE j
    <3>1. \A j \in UrlJob : /\ to(j).id = j.id /\ to(j).status = j.status
                            /\ to(j).entry = IF j.id \in {id} THEN TRUE ELSE j.entry
      BY DEF UrlJob
    <3>2. DOMAIN new = DOMAIN urlJobs /\ \A i \in DOMAIN urlJobs : new[i] = to(urlJobs[i])
      BY DEF Patched
    <3>3. \A i \in DOMAIN urlJobs : urlJobs[i] \in UrlJob
      BY DEF UrlInv, WellCarded
    <3> HIDE DEF to, new
    <3> QED
      BY ZenonT(60), <3>1, <3>2, <3>3
  <2> HIDE DEF new, id
  <2>3. CardsSay'
    <3> SUFFICES ASSUME NEW i \in DOMAIN urlJobs PROVE CardOk(urlJobs[i])'
      BY <2>1, <2>2 DEF CardsSay
    <3>1. \A j : Polling(j)' => j = id \/ Polling(j)
      BY <2>1 DEF Polling
    <3>2. CardOk(urlJobs[i])
      BY DEF Asking, CardsSay
    <3> QED
      BY <2>1, <2>2, <3>1, <3>2 DEF CardOk
  <2>4. PollsAsk'
    BY <2>1 DEF Asking, PollsAsk
  <2>5. UrlsKept
    <3>1. Done(urlJobs') = Done(urlJobs)
      BY ZenonT(60), <2>1, <2>2 DEF Done
    <3>2. UrlActive # {} => UrlActive' # {}
      <4> SUFFICES ASSUME NEW i \in DOMAIN urlJobs,
                          urlJobs[i].status \in {"queued", "downloading", "checking"}
                   PROVE  UrlActive' # {}
        BY DEF UrlActive, WithStatus, Range
      <4> QED
        BY <2>1, <2>2 DEF UrlActive, WithStatus, Range
    <3> QED
      BY <2>1, <3>1, <3>2 DEF UrlsKept
  <2> QED
    BY <2>1, <2>2, <2>3, <2>4, <2>5 DEF Asking, CardsSay
<1>3. CASE SubmitRefused
  <2> DEFINE id == runner.id
             list == Patched(urlJobs, {id}, "status", "failed")
  <2>1. /\ runner.phase = "submit" /\ entry[id] = "none" /\ NextUrl(list)
        /\ UNCHANGED <<timer, polls, entry>>
    BY <1>3 DEF SubmitRefused, SetStatus
  <2>2. /\ WellCarded(list) /\ DOMAIN list = DOMAIN urlJobs
        /\ \A i \in DOMAIN urlJobs :
             /\ list[i].id = urlJobs[i].id /\ list[i].entry = urlJobs[i].entry
             /\ list[i].status = IF urlJobs[i].id \in {id} THEN "failed" ELSE urlJobs[i].status
    BY UrlStatusIs DEF UrlInv, UrlStatus
  <2>3. \A i \in DOMAIN urlJobs : urlJobs[i].id = id => urlJobs[i].status = "downloading"
    BY <2>1 DEF Asking, CardsSay, CardOk
  <2> HIDE DEF list, id
  <2>4. \A i \in DOMAIN list : CardShown(list[i])
    BY <2>1, <2>2, <2>3, CardsShown DEF CardShown, Asking
  <2>5. PollsAsk' /\ (\A j \in UrlId : Polling(j)' => Polling(j))
    BY <2>1 DEF Asking, PollsAsk, Polling
  <2>6. Done(urlJobs) \subseteq Done(list)
    BY <2>2, <2>3 DEF Done
  <2> QED
    BY <2>1, <2>2, <2>4, <2>5, <2>6, NextUrlNews DEF UrlsKept
<1>4. CASE SubmitThrows
  <2>1. /\ runner.phase = "submit" /\ runner' = Stopped
        /\ UNCHANGED <<urlJobs, timer, polls, entry, urlCompleted>>
    BY <1>4 DEF SubmitThrows
  <2>2. Asking'
    BY <2>1 DEF Asking, PollsAsk, CardsSay, CardOk, Polling, Stopped
  <2> QED
    BY <2>1, <2>2 DEF UrlsKept, UrlActive
<1> QED
  BY <1>1, <1>2, <1>3, <1>4 DEF SubmitAnswered

\* The polls: one that ends late finds its card as the server has it.
LEMMA PollsNews ==
    ASSUME UrlInv, Asking, NEW s \in Slot, Tick(s) \/ PollAnswered(s) \/ PollThrows(s)
    PROVE  Asking' /\ UrlsKept
<1>0. polls \in [Slot -> Poll] /\ entry' = entry
  BY DEF UrlInv, Polled, Tick, PollAnswered, ListArrives, EntryArrives, PollThrows
<1>1. ASSUME NEW p, p \in Poll, polls' = [polls EXCEPT ![s] = p],
             timer' \in {timer, NoId},
             p.phase # "none" => p.id \in UrlId /\ Polling(p.id) /\ entry[p.id] # "none",
             p.phase = "entry" => entry[p.id] # "downloading"
      PROVE  PollsAsk' /\ (\A id \in UrlId : Polling(id)' => Polling(id))
  <2>1. \A q \in Slot : polls'[q] = IF q = s THEN p ELSE polls[q]
    BY <1>0, <1>1
  <2> QED
    BY <1>0, <1>1, <2>1, UrlIdFacts DEF Asking, PollsAsk, Polling
<1>2. \A i \in DOMAIN urlJobs : urlJobs[i].id \in UrlId
  <2>1. \A i \in DOMAIN urlJobs : urlJobs[i] \in UrlJob
    BY DEF UrlInv, WellCarded
  <2> QED
    BY <2>1 DEF UrlJob
<1>3. ASSUME PollsAsk', \A id \in UrlId : Polling(id)' => Polling(id),
             UNCHANGED <<urlJobs, runner, urlCompleted>>
      PROVE  Asking' /\ UrlsKept
  <2>1. CardsSay'
    BY <1>0, <1>2, <1>3 DEF Asking, CardsSay, CardOk
  <2> QED
    BY <1>3, <2>1 DEF Asking, UrlsKept, UrlActive
<1>4. NoPoll \in Poll /\ NoPoll.phase = "none"
  BY DEF NoPoll, Poll
<1>5. CASE PollThrows(s)
  BY <1>1, <1>3, <1>4, <1>5 DEF PollThrows
<1>6. CASE Tick(s)
  <2> DEFINE p == [phase |-> "list", id |-> timer]
  <2>1. /\ timer # NoId /\ polls' = [polls EXCEPT ![s] = p]
        /\ UNCHANGED <<urlJobs, runner, timer, urlCompleted>>
    BY <1>6 DEF Tick
  <2>2. p \in Poll /\ p.id = timer /\ p.phase = "list" /\ timer \in UrlId
    BY <2>1 DEF UrlInv, Polled, Poll
  <2>3. Polling(timer) /\ entry[timer] # "none"
    BY <2>1 DEF Polling, Asking, PollsAsk
  <2> HIDE DEF p
  <2> QED
    BY <1>1, <1>3, <2>1, <2>2, <2>3
<1>7. CASE ListArrives(s)
  <2> DEFINE id == polls[s].id
             p == [phase |-> "entry", id |-> id]
  <2>1. polls[s].phase = "list" /\ UNCHANGED <<urlJobs, runner, urlCompleted>>
    BY <1>7 DEF ListArrives
  <2>2. id \in UrlId /\ entry[id] # "none" /\ Polling(id)
    BY <2>1 DEF Asking, PollsAsk, Polling
  <2>3. CASE polls' = [polls EXCEPT ![s] = NoPoll] /\ UNCHANGED timer
    BY <1>1, <1>3, <1>4, <2>1, <2>3
  <2>4. CASE entry[id] # "downloading"
    <3>1. polls' = [polls EXCEPT ![s].phase = "entry"] /\ timer' \in {timer, NoId}
      BY <1>7, <2>4 DEF ListArrives, ClearTimer
    <3>2. polls[s] \in Poll /\ p \in Poll
      BY <1>0, <2>2 DEF Poll
    <3>3. [polls[s] EXCEPT !.phase = "entry"] = p
      BY <3>2 DEF Poll
    <3>4. polls' = [polls EXCEPT ![s] = p] /\ p.id = id /\ p.phase = "entry"
      BY <3>1, <3>3
    <3> HIDE DEF p
    <3> QED
      BY <1>1, <1>3, <2>1, <2>2, <2>4, <3>1, <3>2, <3>4
  <2> QED
    BY <1>7, <2>3, <2>4 DEF ListArrives
<1>8. CASE EntryArrives(s)
  <2> DEFINE id == polls[s].id
             v == IF entry[id] = "failed" THEN "failed" ELSE "done"
             list == Patched(urlJobs, {id}, "status", v)
  <2>1. /\ polls[s].phase = "entry" /\ entry[id] # "deleted"
        /\ polls' = [polls EXCEPT ![s] = NoPoll] /\ UNCHANGED timer
        /\ IF Resolves(id) THEN NextUrl(list)
                           ELSE urlJobs' = list /\ UNCHANGED <<runner, urlCompleted>>
    BY <1>8 DEF EntryArrives, SetStatus
  <2>2. id \in UrlId /\ entry[id] \in {"ready", "failed"} /\ Polling(id)
    BY <2>1 DEF Asking, PollsAsk, Polling, UrlInv, Polled, EntryStatus
  <2>3. PollsAsk' /\ (\A j \in UrlId : Polling(j)' => Polling(j))
    BY <1>1, <1>4, <2>1
  <2>4. v \in UrlStatus /\ v = IF entry[id] = "failed" THEN "failed" ELSE "done"
    BY DEF UrlStatus
  <2> HIDE DEF v, id
  <2>5. /\ WellCarded(list) /\ DOMAIN list = DOMAIN urlJobs
        /\ \A i \in DOMAIN urlJobs :
             /\ list[i].id = urlJobs[i].id /\ list[i].entry = urlJobs[i].entry
             /\ list[i].status = IF urlJobs[i].id \in {id} THEN v ELSE urlJobs[i].status
    BY <2>4, UrlStatusIs DEF UrlInv
  <2> HIDE DEF list
  <2>6. \A i \in DOMAIN list : CardShown(list[i])
    BY <2>2, <2>4, <2>5, CardsShown DEF CardShown, Asking
  <2>7. \A i \in DOMAIN urlJobs : urlJobs[i].id = id /\ urlJobs[i].status = "done" => v = "done"
    BY <2>2, <2>4 DEF Asking, CardsSay, CardOk
  <2>8. Done(urlJobs) \subseteq Done(list)
    BY <2>5, <2>7 DEF Done
  <2>9. CASE Resolves(id)
    BY <1>0, <1>2, <2>1, <2>3, <2>5, <2>6, <2>8, <2>9, NextUrlNews DEF UrlsKept
  <2>10. CASE ~Resolves(id)
    <3>1. urlJobs' = list /\ UNCHANGED <<runner, urlCompleted>>
      BY <2>1, <2>10
    <3>2. \A i \in DOMAIN urlJobs : urlJobs[i].id = id => urlJobs[i].status = v
      <4> SUFFICES ASSUME NEW i \in DOMAIN urlJobs, urlJobs[i].id = id
                   PROVE  urlJobs[i].status = v
        OBVIOUS
      <4>1. CardOk(urlJobs[i]) /\ urlJobs[i].entry
        BY <2>2 DEF Asking, CardsSay, CardOk
      <4>2. urlJobs[i].status \notin {"queued", "downloading", "checking"}
        BY <2>10, <4>1 DEF UrlInv, RunnerOk, Resolves, CardOk
      <4>3. urlJobs[i].status \in UrlStatus
        <5>1. urlJobs[i] \in UrlJob
          BY DEF UrlInv, WellCarded
        <5> QED
          BY <5>1 DEF UrlJob
      <4> QED
        BY <2>2, <2>4, <4>1, <4>2, <4>3 DEF CardOk, UrlStatus
    <3>3. \A i \in DOMAIN urlJobs : list[i].status = urlJobs[i].status
      BY <2>5, <3>2
    <3>4. CardsSay'
      <4> SUFFICES ASSUME NEW i \in DOMAIN urlJobs' PROVE CardOk(urlJobs[i])'
        BY DEF CardsSay
      <4> QED
        BY <1>0, <1>2, <2>3, <2>5, <3>1, <3>3 DEF Asking, CardsSay, CardOk
    <3>5. Done(urlJobs') = Done(urlJobs)
      BY <2>5, <3>1, <3>3 DEF Done
    <3>6. UrlActive # {} => UrlActive' # {}
      <4> SUFFICES ASSUME NEW i \in DOMAIN urlJobs,
                          urlJobs[i].status \in {"queued", "downloading", "checking"}
                   PROVE  UrlActive' # {}
        BY DEF UrlActive, WithStatus, Range
      <4> QED
        BY <2>5, <3>1, <3>3 DEF UrlActive, WithStatus, Range
    <3> QED
      BY <2>3, <3>1, <3>4, <3>5, <3>6 DEF Asking, UrlsKept
  <2> QED
    BY <2>9, <2>10
<1> QED
  BY <1>5, <1>6, <1>7, <1>8 DEF PollAnswered

\* The end of a download on the server.
LEMMA DownloadNews ==
    ASSUME UrlInv, Asking, NEW id \in UrlId, DownloadEnds(id)
    PROVE  Asking' /\ UrlsKept
<1>1. PICK status \in {"ready", "failed"} :
        /\ entry[id] = "downloading" /\ entry' = [entry EXCEPT ![id] = status]
        /\ UNCHANGED <<urlJobs, runner, timer, polls, urlCompleted>>
  BY DEF DownloadEnds
<1>2. \A j \in UrlId : entry'[j] = IF j = id THEN status ELSE entry[j]
  BY <1>1 DEF UrlInv, Polled
<1>3. \A j : Polling(j)' <=> Polling(j)
  BY <1>1 DEF Polling
<1>4. CardsSay'
  <2> SUFFICES ASSUME NEW i \in DOMAIN urlJobs' PROVE CardOk(urlJobs[i])'
    BY DEF CardsSay
  <2>1. CardOk(urlJobs[i]) /\ urlJobs[i] \in UrlJob
    BY <1>1 DEF Asking, CardsSay, UrlInv, WellCarded
  <2>2. urlJobs[i].id \in UrlId
    BY <2>1 DEF UrlJob
  <2> QED
    BY <1>1, <1>2, <1>3, <2>1, <2>2 DEF CardOk
<1>5. PollsAsk'
  BY <1>1, <1>2, UrlIdFacts DEF Asking, PollsAsk, UrlInv, Polled
<1> QED
  BY <1>1, <1>4, <1>5 DEF Asking, UrlsKept, UrlActive

\* Cards are added under ids that no poll is about.
LEMMA AddUrlsNews ==
    ASSUME UrlInv, Asking, NEW accepted \in Seq(Url), AddUrls(accepted)
    PROVE  Asking' /\ UrlsKept
<1>1. /\ UNCHANGED <<runner, timer, polls, urlCompleted>>
      /\ entry' = [id \in UrlId |-> IF id \in Ids(urlJobs') \ Ids(urlJobs) THEN "none"
                                                                          ELSE entry[id]]
      /\ \A i \in DOMAIN urlJobs : i \in DOMAIN urlJobs' /\ urlJobs'[i] = urlJobs[i]
      /\ \A i \in DOMAIN urlJobs' :
           \/ i \in DOMAIN urlJobs /\ urlJobs'[i] = urlJobs[i]
           \/ /\ urlJobs'[i].status = "queued" /\ urlJobs'[i].entry = FALSE
              /\ urlJobs'[i].id \in FreeUrlIds
  BY AddUrlsIs
<1>2. \A id \in FreeUrlIds : id # runner.id /\ id # timer /\ (\A s \in Slot : polls[s].id # id)
  BY DEF FreeUrlIds
<1>3. \A id \in Ids(urlJobs') \ Ids(urlJobs) : id \in FreeUrlIds
  BY <1>1 DEF Ids, Range
<1>4. \A id \in UrlId : Polling(id) \/ id \in Ids(urlJobs) => entry'[id] = entry[id]
  BY <1>1, <1>2, <1>3 DEF Polling
<1>5. \A id : Polling(id)' <=> Polling(id)
  BY <1>1 DEF Polling
<1>6. CardsSay'
  <2> SUFFICES ASSUME NEW i \in DOMAIN urlJobs' PROVE CardOk(urlJobs[i])'
    BY DEF CardsSay
  <2>1. CASE i \in DOMAIN urlJobs /\ urlJobs'[i] = urlJobs[i]
    <3>1. CardOk(urlJobs[i]) /\ urlJobs[i] \in UrlJob /\ urlJobs[i].id \in Ids(urlJobs)
      BY <2>1 DEF Asking, CardsSay, UrlInv, WellCarded, Ids, Range
    <3>2. entry'[urlJobs[i].id] = entry[urlJobs[i].id]
      BY <1>4, <3>1 DEF UrlJob
    <3> QED
      BY <1>1, <1>5, <2>1, <3>1, <3>2 DEF CardOk
  <2>2. CASE /\ urlJobs'[i].status = "queued" /\ urlJobs'[i].entry = FALSE
             /\ urlJobs'[i].id \in FreeUrlIds
    <3>1. ~Polling(urlJobs'[i].id)
      BY <1>2, <2>2 DEF Polling
    <3> QED
      BY <1>1, <1>2, <1>5, <2>2, <3>1 DEF CardOk
  <2> QED
    BY <1>1, <2>1, <2>2
<1>7. PollsAsk'
  <2>1. timer # NoId => timer \in UrlId /\ Polling(timer)
    BY DEF UrlInv, Polled, Polling
  <2>2. \A s \in Slot : polls[s].phase # "none" => polls[s].id \in UrlId /\ Polling(polls[s].id)
    BY DEF Asking, PollsAsk, Polling
  <2> QED
    BY <1>1, <1>4, <2>1, <2>2 DEF Asking, PollsAsk, Poll
<1>8. Done(urlJobs') = Done(urlJobs)
  BY <1>1 DEF Done
<1>9. UrlActive # {} => UrlActive' # {}
  <2> SUFFICES ASSUME NEW i \in DOMAIN urlJobs,
                      urlJobs[i].status \in {"queued", "downloading", "checking"}
               PROVE  UrlActive' # {}
    BY DEF UrlActive, WithStatus, Range
  <2> QED
    BY <1>1 DEF UrlActive, WithStatus, Range
<1> QED
  BY <1>1, <1>6, <1>7, <1>8, <1>9 DEF Asking, UrlsKept


\* What the dialog shows at last: the news are there when it opens, unless the page
\* has been reloaded.
NewsStepOk == dialog'.open => news \subseteq Ended' \/ reloads # 0

\* The lists of cards that the handlers leave.
LEMMA HandlersAsk ==
    ASSUME TransfersInv, Asking,
           \/ UNCHANGED urlVars
           \/ /\ \/ ClearAllUrlDownloads \/ ResetIdleDownloads
                 \/ (\E S : RemoveUrls(S)) \/ urlJobs' = urlJobs
              /\ UNCHANGED <<runner, timer, polls, entry>>
           \/ StartDownloads \/ ConfirmCancelAll
    PROVE  Asking'
<1>1. CASE /\ urlJobs' = <<>> \/ urlJobs' = urlJobs
           /\ UNCHANGED <<runner, timer, polls, entry>>
  BY <1>1, FewerAsk
<1>2. ASSUME NEW S, RemoveUrls(S), UNCHANGED <<runner, timer, polls, entry>> PROVE Asking'
  <2>1. \A k \in DOMAIN urlJobs' : \E i \in DOMAIN urlJobs : urlJobs'[k] = urlJobs[i]
    BY <1>2, UrlWithout DEF RemoveUrls, TransfersInv, UrlInv
  <2> QED
    BY <1>2, <2>1, FewerAsk
<1>3. CASE NextUrl(urlJobs) /\ UNCHANGED <<timer, polls, entry>>
  <2>1. PollsAsk' /\ (\A id \in UrlId : Polling(id)' => Polling(id))
    BY <1>3 DEF Asking, PollsAsk, Polling
  <2>2. WellCarded(urlJobs) /\ (\A i \in DOMAIN urlJobs : CardShown(urlJobs[i]))
    BY CardsShown DEF Asking, TransfersInv, UrlInv
  <2> QED
    BY <1>3, <2>1, <2>2, NextUrlNews
<1>4. CASE ConfirmCancelAll
  <2>1. PICK deleted \in SUBSET question.urls :
          entry' = [id \in UrlId |-> IF id \in deleted THEN "deleted" ELSE entry[id]]
    BY <1>4 DEF ConfirmCancelAll
  <2>2. urlJobs' = <<>> /\ UNCHANGED <<timer, polls>>
    BY <1>4 DEF ConfirmCancelAll, ClearAllUrlDownloads
  <2>3. \A id \in UrlId : entry'[id] = "deleted" \/ entry'[id] = entry[id]
    BY <2>1
  <2>4. PollsAsk'
    BY <2>2, <2>3 DEF Asking, PollsAsk, TransfersInv, UrlInv, Polled
  <2> QED
    BY <2>2, <2>4 DEF Asking, CardsSay
<1> QED
  BY <1>1, <1>2, <1>3, <1>4 DEF urlVars, StartDownloads, ClearAllUrlDownloads, ResetIdleDownloads

\* A handler of the open dialog, which stays open.
LEMMA OpenNews ==
    ASSUME TransfersInv, NewsInv, Remember, reloads' = reloads, dialog.open, dialog'.open,
           Asking => Asking'
    PROVE  NewsInv' /\ NewsStepOk
BY DEF NewsInv, NewsStepOk, Remember

\* Opening the dialog clears only lists in which there is no news.
LEMMA OpenDialogNews ==
    ASSUME TransfersInv, NewsInv, Remember, OpenDialog
    PROVE  NewsInv' /\ NewsStepOk
<1>1. /\ ~dialog.open /\ dialog'.open /\ reloads' = reloads
      /\ \/ JustCompleted /\ UNCHANGED <<jobs, urlVars>>
         \/ /\ ~JustCompleted /\ ResetIdle /\ ResetIdleDownloads
            /\ UNCHANGED <<runner, timer, polls, entry>>
  BY DEF OpenDialog, StoresUnchanged, uploadVars, Closed
<1>2. Asking => Asking'
  BY <1>1, HandlersAsk DEF urlVars
<1>3. NewsStepOk
  <2> SUFFICES ASSUME reloads = 0, NEW n \in news PROVE n \in Ended'
    BY DEF NewsStepOk
  <2>1. NewsShown
    BY <1>1 DEF NewsInv
  <2>2. CASE UNCHANGED <<jobs, urlVars>>
    BY <2>1, <2>2 DEF NewsShown, Ended, urlVars
  <2>3. CASE ~JustCompleted /\ ResetIdle /\ ResetIdleDownloads
    <3>1. n \in Ended
      BY <2>1 DEF NewsShown
    <3>2. CASE \E id \in Done(jobs) : n = <<"file", id>>
      <4>1. PICK id \in Done(jobs) : n = <<"file", id>>
        BY <3>2
      <4>2. id \in Id
        <5>1. \A i \in DOMAIN jobs : jobs[i] \in UploadJob
          BY DEF TransfersInv, UploadInv, WellListed
        <5> QED
          BY <5>1 DEF Done, UploadJob
      <4>3. Live # {}
        BY <2>1, <2>3, <4>1, <4>2 DEF NewsShown, FileNews, JustCompleted
      <4>4. jobs' = jobs
        BY <2>3, <4>3 DEF ResetIdle
      <4> QED
        BY <4>1, <4>4 DEF Ended, Done, WithStatus, Range
    <3>3. CASE \E id \in Done(urlJobs) : n = <<"url", id>>
      <4>1. PICK id \in Done(urlJobs) : n = <<"url", id>>
        BY <3>3
      <4>2. id \in UrlId
        <5>1. \A i \in DOMAIN urlJobs : urlJobs[i] \in UrlJob
          BY DEF TransfersInv, UrlInv, WellCarded
        <5> QED
          BY <5>1 DEF Done, UrlJob
      <4>3. UrlActive # {}
        BY <2>1, <2>3, <4>1, <4>2 DEF NewsShown, UrlNews, JustCompleted
      <4>4. urlJobs' = urlJobs
        BY <2>3, <4>3 DEF ResetIdleDownloads
      <4> QED
        BY <4>1, <4>4 DEF Ended, Done, WithStatus, Range
    <3> QED
      BY <3>1, <3>2, <3>3, EndedIs
  <2> QED
    BY <1>1, <2>2, <2>3
<1> QED
  BY <1>1, <1>2, <1>3 DEF NewsInv, Remember, OpenDialog

\* Nothing ends in the handlers that close the dialog.
LEMMA CloseNews ==
    ASSUME TransfersInv, NewsInv, Remember, CloseDialog, dialog.open,
           UNCHANGED <<runner, timer, polls, entry>>,
           \/ UNCHANGED <<jobs, urlJobs>>
           \/ \E S, T : RemoveJobs(S) /\ RemoveUrls(T)
    PROVE  NewsInv' /\ NewsStepOk
<1>1. question' = NoQuestion /\ dialog' = Closed /\ reloads' = reloads
  BY DEF CloseDialog
<1>2. Asking => Asking'
  BY HandlersAsk
<1>3. Ended' \subseteq Ended
  <2>1. CASE UNCHANGED <<jobs, urlJobs>>
    BY <2>1 DEF Ended
  <2>2. ASSUME NEW S, NEW T, RemoveJobs(S), RemoveUrls(T) PROVE Ended' \subseteq Ended
    <3>1. \A k \in DOMAIN jobs' : \E i \in DOMAIN jobs : jobs'[k] = jobs[i]
      BY <2>2, WithoutKeepsList DEF RemoveJobs, TransfersInv, UploadInv
    <3>2. \A k \in DOMAIN urlJobs' : \E i \in DOMAIN urlJobs : urlJobs'[k] = urlJobs[i]
      BY <2>2, UrlWithout DEF RemoveUrls, TransfersInv, UrlInv
    <3>3. Done(jobs') \subseteq Done(jobs) /\ Done(urlJobs') \subseteq Done(urlJobs)
      BY <3>1, <3>2 DEF Done
    <3>4. Ended' = {<<"file", id>> : id \in Done(jobs')}
                    \cup {<<"url", id>> : id \in Done(urlJobs')}
      BY DEF Ended, Done, WithStatus, Range
    <3> QED
      BY <3>3, <3>4, EndedIs
  <2> QED
    BY <2>1, <2>2
<1>4. news' = {}
  BY <1>1, <1>3 DEF NewsInv, Remember, Closed
<1>5. NewsShown' /\ ~dialog'.open /\ question'.kind = "none"
  BY <1>1, <1>4 DEF NewsShown, FileNews, UrlNews, Closed, NoQuestion
<1> QED
  BY <1>1, <1>2, <1>5 DEF NewsInv, NewsStepOk

\* What the user does.
LEMMA UserNewsKept ==
    ASSUME TransfersInv, NewsInv, Remember, UserStep
    PROVE  NewsInv' /\ NewsStepOk
<1>1. CASE OpenDialog
  BY <1>1, OpenDialogNews
<1>2. CASE HandleCloseAttempt
  <2>1. dialog.open
    BY <1>2 DEF HandleCloseAttempt, Front
  <2>2. CASE /\ CloseDialog
             /\ UNCHANGED <<jobs, files, blob, active, batch, urlJobs, runner, timer, polls, entry>>
    BY <2>1, <2>2, CloseNews
  <2>3. CASE StoresUnchanged /\ UNCHANGED <<dialog, strays, reloads, scenario>>
    BY <2>1, <2>3, OpenNews, HandlersAsk DEF StoresUnchanged
  <2> QED
    BY <1>2, <2>2, <2>3 DEF HandleCloseAttempt
<1>3. CASE ConfirmDiscard
  <2>1. /\ RemoveJobs(question.jobs) /\ RemoveUrls(question.urls) /\ CloseDialog
        /\ UNCHANGED <<runner, timer, polls, entry>> /\ dialog.open
    BY <1>3 DEF ConfirmDiscard, NewsInv
  <2> QED
    BY <2>1, CloseNews
<1>4. CASE AskCancelAll \/ DismissQuestion
  <2>1. StoresUnchanged /\ UNCHANGED <<dialog, reloads>> /\ dialog.open
    BY <1>4 DEF AskCancelAll, DismissQuestion, CancelAllOffered, Front, NewsInv
  <2> QED
    BY <2>1, OpenNews, HandlersAsk DEF StoresUnchanged
<1>5. CASE ConfirmCancelAll
  <2>1. UNCHANGED <<dialog, reloads>> /\ dialog.open
    BY <1>5 DEF ConfirmCancelAll, NewsInv
  <2> QED
    BY <1>5, <2>1, OpenNews, HandlersAsk
<1>6. CASE SwitchTab \/ TypeUrls \/ HandleCheckUrls
  <2>1. StoresUnchanged /\ reloads' = reloads /\ dialog.open
    BY <1>6 DEF SwitchTab, TypeUrls, HandleCheckUrls, UrlTab, CheckOffered, OnTab, Front
  <2>2. dialog'.open
    BY <1>6, <2>1 DEF SwitchTab, TypeUrls, HandleCheckUrls, TransfersInv, DialogInv
  <2> QED
    BY <2>1, <2>2, OpenNews, HandlersAsk DEF StoresUnchanged
<1>7. CASE HandleStartFiles
  <2>1. /\ ClearAllUrlDownloads /\ UNCHANGED <<runner, timer, polls, entry>>
        /\ UNCHANGED <<dialog, reloads>> /\ dialog.open
    BY <1>7 DEF HandleStartFiles, StartFilesOffered, OnTab, Front, dialogVars
  <2> QED
    BY <2>1, OpenNews, HandlersAsk
<1>8. CASE HandleStartUrls
  <2>1. StartDownloads /\ reloads' = reloads /\ dialog.open
    BY <1>8 DEF HandleStartUrls, StartUrlsOffered, OnTab, Front
  <2>2. dialog'.open
    BY <1>8, <2>1 DEF HandleStartUrls, TransfersInv, DialogInv
  <2> QED
    BY <2>1, <2>2, OpenNews, HandlersAsk
<1>9. CASE \/ \E selection \in Selection : AddSelected(selection)
           \/ \E id \in Id : RemoveCard(id)
  <2>1. UNCHANGED urlVars /\ UNCHANGED <<dialog, reloads>> /\ dialog.open
    BY <1>9 DEF AddSelected, RemoveCard, ComputerTab, OnTab, JobCard, Front, dialogVars
  <2> QED
    BY <2>1, OpenNews, HandlersAsk
<1>10. ASSUME NEW id \in UrlId, RemoveUrlCard(id) PROVE NewsInv' /\ NewsStepOk
  <2>1. /\ RemoveUrls({id}) /\ UNCHANGED <<runner, timer, polls, entry>>
        /\ UNCHANGED <<dialog, reloads>> /\ dialog.open
    BY <1>10 DEF RemoveUrlCard, UrlCard, Front, dialogVars
  <2> QED
    BY <2>1, OpenNews, HandlersAsk
<1>11. CASE Reload
  <2>1. question' = NoQuestion /\ dialog' = Closed /\ reloads' = reloads + 1
    BY <1>11 DEF Reload
  <2>2. reloads' # 0
    BY <2>1, DialogAssumption DEF TransfersInv, DialogInv
  <2> QED
    BY <2>1, <2>2 DEF NewsInv, NewsStepOk, Closed, NoQuestion
<1> QED
  BY <1>1, <1>2, <1>3, <1>4, <1>5, <1>6, <1>7, <1>8, <1>9, <1>10, <1>11 DEF UserStep

\* What happens by itself while the dialog is open or closed.
LEMMA StoresNews ==
    ASSUME TransfersInv, NewsInv, Remember, UNCHANGED <<question, reloads>>,
           dialog'.open = dialog.open,
           Asking => Asking' /\ UrlsKept /\ FilesKept
    PROVE  NewsInv' /\ NewsStepOk
<1>1. CASE dialog.open
  BY <1>1, OpenNews
<1>2. CASE ~dialog.open
  <2>1. news' = news \cup (Ended' \ Ended)
    BY <1>2 DEF Remember
  <2>2. reloads = 0 => Asking' /\ NewsShown'
    BY <1>2, <2>1, NewsStep DEF NewsInv
  <2> QED
    BY <1>2, <2>2 DEF NewsInv, NewsStepOk
<1> QED
  BY <1>1, <1>2

\* Lists that a step leaves alone.
LEMMA ListsSame ==
    /\ UNCHANGED uploadVars => FilesKept
    /\ UNCHANGED urlVars => UrlsKept /\ (Asking => Asking')
<1>1. UNCHANGED uploadVars => FilesKept
  BY DEF uploadVars, FilesKept, Live
<1>2. UNCHANGED urlVars => UrlsKept
  BY DEF urlVars, UrlsKept, UrlActive
<1>3. UNCHANGED urlVars /\ Asking => Asking'
  BY FewerAsk DEF urlVars
<1> QED
  BY <1>1, <1>2, <1>3

\* Every step keeps the invariant, and the news where the dialog shows them.
LEMMA NewsNext ==
    TransfersInv /\ NewsInv /\ [Next]_vars => NewsInv' /\ (NewsStepOk \/ UNCHANGED vars)
<1> SUFFICES ASSUME TransfersInv, NewsInv, [Next]_vars
             PROVE  NewsInv' /\ (NewsStepOk \/ UNCHANGED vars)
  OBVIOUS
<1>1. CASE UNCHANGED vars
  <2>1. /\ UNCHANGED <<question, reloads, dialog, news, completed, jobs, urlCompleted, urlJobs>>
        /\ UNCHANGED urlVars
    BY <1>1 DEF vars, dialogVars, uploadVars, urlVars
  <2>2. Asking => Asking'
    BY <2>1, ListsSame
  <2>3. NewsShown => NewsShown'
    BY <2>1 DEF NewsShown, FileNews, UrlNews, Ended, Live, UrlActive
  <2> QED
    BY <1>1, <2>1, <2>2, <2>3 DEF NewsInv
<1>2. CASE UserStep /\ Remember
  BY <1>2, UserNewsKept
<1>3. CASE (\E accepted \in Accepted : CheckAnswered(accepted)) /\ Remember
  <2>1. PICK accepted \in Accepted : CheckAnswered(accepted)
    BY <1>3
  <2>2. AddUrls(accepted) /\ UNCHANGED uploadVars /\ UNCHANGED <<question, reloads>>
    BY <2>1 DEF CheckAnswered
  <2>3. dialog'.open = dialog.open
    BY <2>1 DEF CheckAnswered, TransfersInv, DialogInv
  <2>4. Asking => Asking' /\ UrlsKept
    BY <2>2, AddUrlsNews, DialogAssumption DEF TransfersInv
  <2> QED
    BY <1>3, <2>2, <2>3, <2>4, ListsSame, StoresNews
<1>4. CASE /\ \/ UploadStep(RestoreEnds)
              \/ \E id \in Id : UploadStep(UploadUrlAvailable(id)) \/ UploadStep(TransferEnds(id))
           /\ Remember
  <2>1. /\ RestoreEnds \/ (\E id \in Id : UploadUrlAvailable(id) \/ TransferEnds(id))
        /\ UNCHANGED urlVars /\ UNCHANGED <<dialog, question, reloads>>
    BY <1>4 DEF UploadStep, dialogVars
  <2>2. FilesKept
    BY <2>1, UploadsNews DEF TransfersInv
  <2> QED
    BY <1>4, <2>1, <2>2, ListsSame, StoresNews
<1>5. CASE /\ \/ UrlStep(SubmitAnswered) \/ UrlStep(CallFails)
              \/ \E s \in Slot : UrlStep(Tick(s)) \/ UrlStep(PollAnswered(s))
              \/ \E id \in UrlId : UrlStep(DownloadEnds(id))
           /\ Remember
  <2>1. UNCHANGED uploadVars /\ UNCHANGED <<dialog, question, reloads>>
    BY <1>5 DEF UrlStep, dialogVars
  <2>2. \/ SubmitAnswered \/ SubmitThrows
        \/ \E s \in Slot : Tick(s) \/ PollAnswered(s) \/ PollThrows(s)
        \/ \E id \in UrlId : DownloadEnds(id)
    BY <1>5 DEF UrlStep, CallFails
  <2>3. Asking => Asking' /\ UrlsKept
    BY <2>2, SubmitNews, PollsNews, DownloadNews DEF TransfersInv
  <2> QED
    BY <1>5, <2>1, <2>3, ListsSame, StoresNews
<1> QED
  BY <1>1, <1>2, <1>3, <1>4, <1>5 DEF Next

\* There are no news yet.
LEMMA NewsInit == Init => NewsInv
<1> SUFFICES ASSUME Init PROVE NewsInv
  OBVIOUS
<1>1. /\ urlJobs = <<>> /\ timer = NoId /\ polls = [s \in Slot |-> NoPoll]
      /\ question = NoQuestion /\ dialog = Closed /\ news = {}
  BY DEF Init, UrlInit
<1>2. Asking
  BY <1>1 DEF Asking, PollsAsk, CardsSay, NoPoll
<1>3. NewsShown
  BY <1>1 DEF NewsShown, FileNews, UrlNews
<1> QED
  BY <1>1, <1>2, <1>3 DEF NewsInv, NoQuestion, Closed

\* What ended well while the dialog was closed is there when it opens, for any
\* number of transfers and of polls in flight (NewsKept).
THEOREM SpecNewsKept == Spec => NewsKept
<1>1. Spec => []NewsInv
  BY NewsInit, NewsNext, SpecTransfersInv, PTL DEF Spec
<1>2. TransfersInv /\ NewsInv /\ [Next]_vars => [NewsStepOk]_vars
  BY NewsNext
<1>3. NewsStepOk = (dialog'.open => news \subseteq Ended' \/ reloads # 0)
  BY DEF NewsStepOk
<1> QED
  BY <1>1, <1>2, <1>3, SpecTransfersInv, PTL DEF Spec, NewsKept, NewsStepOk
=============================================================================
