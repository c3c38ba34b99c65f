--------------------------- MODULE BucketsProofs ---------------------------
(***************************************************************************)
(* Proofs about Buckets, for any set of Buckets and any mapping to names:  *)
(* types; at most one Bucket of a name holds a finalizer; objects only go  *)
(* by a reconcile that read reclaim policy Delete, of a Bucket that is     *)
(* being deleted, and a deletion under Delete is complete; the status is   *)
(* true; quota updates keep the filer entry; no temporary key stays.       *)
(***************************************************************************)
EXTENDS Buckets, FiniteSetTheorems, TLAPS

-----------------------------------------------------------------------------
(* Records *)

\* The constants of the model are of their types.
LEMMA QuotaConstants == NoQuota \in Quota /\ Limits(1, 0) \in Quota
BY DEF NoQuota, Limits, Quota

\* A Bucket that does not exist is well typed.
LEMMA Spec0Type == Spec0 \in BucketObject
BY QuotaConstants DEF Spec0, BucketObject

\* So are the bucket that is not there and the one just created.
LEMMA BackendConstants == Absent \in BackendBucket /\ Created \in BackendBucket
<1>1. Absent \in BackendBucket
  BY DEF Absent, BackendBucket
<1>2. Created \in BackendBucket
  BY <1>1 DEF Created, BackendBucket
<1> QED
  BY <1>1, <1>2

\* So is a worker with nothing to do.
LEMMA IdleType == Idle \in Worker /\ Idle.pc = "idle"
BY Spec0Type, BackendConstants DEF Idle, Worker, PC

StatusObject == [ready: BOOLEAN, obs: Nat, applied: BOOLEAN]
Budget == [left: 0 .. MaxDisturb, kept: SUBSET Guarantee]

\* So is the status of a new Bucket.
LEMMA Status0Type == Status0 \in StatusObject
BY DEF Status0, StatusObject

\* A disturbance keeps the type of the budget.
LEMMA DisturbanceType ==
    ASSUME NEW d, Disturbance(d), budget \in Budget
    PROVE  budget' \in Budget
<1>1. budget.left \in 0 .. MaxDisturb /\ budget.kept \in SUBSET Guarantee
  BY DEF Budget
<1>2. budget.left - 1 \in 0 .. MaxDisturb
  BY <1>1, BucketsAssumption DEF Disturbance
<1> QED
  BY <1>1, <1>2 DEF Disturbance, Budget

\* What the steps do to a Bucket keeps its type.
LEMMA BucketMoves ==
    ASSUME NEW o \in BucketObject
    PROVE  /\ [o EXCEPT !.phase = "live"] \in BucketObject
           /\ [o EXCEPT !.fin = TRUE] \in BucketObject
           /\ [o EXCEPT !.phase = "deleting", !.gen = o.gen + 1] \in BucketObject
<1>1. [o EXCEPT !.phase = "live"] \in BucketObject
  BY DEF BucketObject
<1>2. [o EXCEPT !.fin = TRUE] \in BucketObject
  BY DEF BucketObject
<1>3. ASSUME NEW g \in Nat PROVE [o EXCEPT !.phase = "deleting", !.gen = g] \in BucketObject
  BY DEF BucketObject
<1>4. o.gen + 1 \in Nat
  BY DEF BucketObject
<1> QED
  BY <1>1, <1>2, <1>3, <1>4

\* An edited Bucket is well typed.
LEMMA BucketWishes ==
    ASSUME NEW o \in BucketObject, NEW q \in Quota, NEW p \in BOOLEAN,
           NEW r \in {"Retain", "Delete"}
    PROVE  /\ [o EXCEPT !.quota = q, !.public = p, !.reclaim = r, !.gen = o.gen + 1]
                \in BucketObject
           /\ [Spec0 EXCEPT !.phase = "admitted", !.gen = 1, !.quota = q, !.reclaim = r]
                \in BucketObject
<1>1. ASSUME NEW g \in Nat
      PROVE  [o EXCEPT !.quota = q, !.public = p, !.reclaim = r, !.gen = g] \in BucketObject
  BY DEF BucketObject
<1>2. o.gen + 1 \in Nat
  BY DEF BucketObject
<1>3. [Spec0 EXCEPT !.phase = "admitted", !.gen = 1, !.quota = q, !.reclaim = r] \in BucketObject
  BY Spec0Type DEF BucketObject
<1> QED
  BY <1>1, <1>2, <1>3

\* What the steps do to a bucket in the store keeps its type.
LEMMA BackendMoves ==
    ASSUME NEW e \in BackendBucket, NEW q \in Quota, NEW objs \in SUBSET Bucket
    PROVE  /\ [e EXCEPT !.objects = objs] \in BackendBucket
           /\ [e EXCEPT !.ext = 1 - @] \in BackendBucket
           /\ [e EXCEPT !.size = q.size, !.count = q.count] \in BackendBucket
           /\ [WithQuota(e, q.size) EXCEPT !.objects = objs] \in BackendBucket
<1>1. q.size \in 0 .. 2 /\ q.count \in 0 .. 1
  BY DEF Quota
<1>2. [e EXCEPT !.objects = objs] \in BackendBucket
  BY DEF BackendBucket
<1>3. [e EXCEPT !.ext = 1 - @] \in BackendBucket
  BY DEF BackendBucket
<1>4. ASSUME NEW s \in 0 .. 2, NEW c \in 0 .. 1
      PROVE  [e EXCEPT !.size = s, !.count = c] \in BackendBucket
  BY DEF BackendBucket
<1>5. ASSUME NEW s \in 0 .. 2
      PROVE  [[e EXCEPT !.size = s] EXCEPT !.objects = objs] \in BackendBucket
  BY DEF BackendBucket
<1> QED
  BY <1>1, <1>2, <1>3, <1>4, <1>5 DEF WithQuota

\* What the steps do to a worker keeps its type.
LEMMA WorkerMoves ==
    ASSUME NEW x \in Worker, NEW l \in PC, NEW ok \in BOOLEAN
    PROVE  /\ [x EXCEPT !.pc = l] \in Worker
           /\ [x EXCEPT !.pc = l, !.ok = ok] \in Worker
BY DEF Worker

\* The fields of a well typed worker.
LEMMA WorkerReads ==
    ASSUME NEW x \in Worker, NEW l \in PC, NEW s \in BucketObject, NEW e \in BackendBucket
    PROVE  /\ [Idle EXCEPT !.snap = s, !.pc = l] \in Worker
           /\ [x EXCEPT !.entry = e, !.pc = l] \in Worker
           /\ [x EXCEPT !.snap.fin = TRUE, !.pc = l] \in Worker
<1>1. [Idle EXCEPT !.snap = s, !.pc = l] \in Worker
  BY IdleType DEF Worker
<1>2. [x EXCEPT !.entry = e, !.pc = l] \in Worker
  BY DEF Worker
<1>3. x.snap \in BucketObject
  BY DEF Worker
<1>4. [x EXCEPT !.snap = [x.snap EXCEPT !.fin = TRUE], !.pc = l] \in Worker
  BY <1>3, BucketMoves DEF Worker
<1> QED
  BY <1>1, <1>2, <1>4

\* What becomes of the workers when that of b becomes x.
LEMMA WorkerAt ==
    ASSUME NEW b \in Bucket, NEW x \in Worker, w \in [Bucket -> Worker],
           w' = [w EXCEPT ![b] = x]
    PROVE  /\ w' \in [Bucket -> Worker]
           /\ w'[b] = x
           /\ \A o \in Bucket \ {b} : w'[o] = w[o]
OBVIOUS

\* Goto moves the program counter of one worker and nothing else.
LEMMA GotoMoves ==
    ASSUME NEW b \in Bucket, NEW l \in PC, w \in [Bucket -> Worker], Goto(b, l)
    PROVE  /\ w' \in [Bucket -> Worker]
           /\ w'[b] = [w[b] EXCEPT !.pc = l]
           /\ \A o \in Bucket \ {b} : w'[o] = w[o]
<1>1. [w[b] EXCEPT !.pc = l] \in Worker
  BY WorkerMoves
<1>2. w' = [w EXCEPT ![b] = [w[b] EXCEPT !.pc = l]]
  BY DEF Goto
<1> QED
  BY <1>1, <1>2, WorkerAt

\* The same for a step that also says how the call went.
LEMMA GotoOkMoves ==
    ASSUME NEW b \in Bucket, NEW l \in PC, NEW ok \in BOOLEAN, w \in [Bucket -> Worker],
           w' = [w EXCEPT ![b].pc = l, ![b].ok = ok]
    PROVE  /\ w' \in [Bucket -> Worker]
           /\ w'[b] = [w[b] EXCEPT !.pc = l, !.ok = ok]
           /\ \A o \in Bucket \ {b} : w'[o] = w[o]
<1>1. [w[b] EXCEPT !.pc = l, !.ok = ok] \in Worker
  BY WorkerMoves
<1>2. w' = [w EXCEPT ![b] = [w[b] EXCEPT !.pc = l, !.ok = ok]]
  BY DEF Worker
<1> QED
  BY <1>1, <1>2, WorkerAt

\* Finish leaves the worker idle and the queue a set of Buckets.
LEMMA FinishMoves ==
    ASSUME NEW b \in Bucket, NEW again \in BOOLEAN, w \in [Bucket -> Worker],
           queue \subseteq Bucket, Finish(b, again)
    PROVE  /\ w' \in [Bucket -> Worker]
           /\ w'[b] = Idle
           /\ \A o \in Bucket \ {b} : w'[o] = w[o]
           /\ queue' \subseteq Bucket
<1>1. queue' \subseteq Bucket
  BY DEF Finish
<1>2. w' = [w EXCEPT ![b] = Idle]
  BY DEF Finish
<1> QED
  BY <1>1, <1>2, WorkerAt, IdleType

-----------------------------------------------------------------------------
(* Types *)

\* The initial states are well typed.
LEMMA TypeInit == Init => TypeOK
<1> SUFFICES ASSUME Init PROVE TypeOK
  OBVIOUS
<1>1. spec \in [Bucket -> BucketObject]
  BY Spec0Type DEF Init
<1>2. status \in [Bucket -> StatusObject]
  BY Status0Type DEF Init
<1>3. backend \in [Name -> BackendBucket]
  BY BackendConstants DEF Init
<1>4. w \in [Bucket -> Worker]
  BY IdleType DEF Init
<1>5. budget \in Budget
  BY BucketsAssumption DEF Init, Budget
<1>6. keys \in [Name -> Int]
  BY DEF Init
<1> QED
  BY <1>1, <1>2, <1>3, <1>4, <1>5, <1>6 DEF Init, TypeOK, StatusObject, Budget

\* A step of the bucket in the store that b is mapped to.
LEMMA BackendAt ==
    ASSUME NEW n \in Name, NEW e \in BackendBucket, backend \in [Name -> BackendBucket],
           backend' = [backend EXCEPT ![n] = e]
    PROVE  backend' \in [Name -> BackendBucket]
OBVIOUS

\* Every Bucket maps to a name of the store.
LEMMA NameType == \A b \in Bucket : NameOf[b] \in Name
BY BucketsAssumption

\* The steps of users and of the API server.
LEMMA UserType ==
    ASSUME TypeOK, NEW b \in Bucket, Admit(b) \/ Create(b) \/ Edit(b) \/ Delete(b)
    PROVE  TypeOK'
<1>0. /\ spec \in [Bucket -> BucketObject] /\ spec[b] \in BucketObject
      /\ status \in [Bucket -> StatusObject] /\ budget \in Budget
  BY DEF TypeOK, StatusObject, Budget
<1>1. CASE Admit(b)
  <2>1. PICK q \in {NoQuota, Limits(1, 0)}, r \in {"Retain", "Delete"} :
          spec' = [spec EXCEPT ![b] = [Spec0 EXCEPT !.phase = "admitted", !.gen = 1,
                                                    !.quota = q, !.reclaim = r]]
    BY <1>1 DEF Admit
  <2>2. q \in Quota
    BY QuotaConstants
  <2>3. spec' \in [Bucket -> BucketObject]
    BY <1>0, <2>1, <2>2, BucketWishes
  <2>4. budget' \in Budget
    BY <1>0, <1>1, DisturbanceType DEF Admit
  <2> QED
    BY <1>1, <2>3, <2>4 DEF Admit, TypeOK, Budget
<1>2. CASE Create(b)
  <2>1. spec' = [spec EXCEPT ![b] = [spec[b] EXCEPT !.phase = "live"]]
    BY <1>2 DEF Create
  <2>2. spec' \in [Bucket -> BucketObject]
    BY <1>0, <2>1, BucketMoves
  <2>3. status' \in [Bucket -> StatusObject]
    BY <1>0, <1>2, Status0Type DEF Create
  <2> QED
    BY <1>2, <2>2, <2>3 DEF Create, Enqueue, TypeOK, StatusObject
<1>3. CASE Edit(b)
  <2>1. PICK x \in Wishes, r \in {"Retain", "Delete"} :
          spec' = [spec EXCEPT ![b].quota = x.quota, ![b].public = x.public,
                               ![b].reclaim = r, ![b].gen = @ + 1]
    BY <1>3, Zenon DEF Edit
  <2>2. x.quota \in Quota /\ x.public \in BOOLEAN
    BY BucketsAssumption
  <2>3. spec' = [spec EXCEPT ![b] = [spec[b] EXCEPT !.quota = x.quota, !.public = x.public,
                                                    !.reclaim = r, !.gen = spec[b].gen + 1]]
    BY <1>0, <2>1
  <2>4. spec' \in [Bucket -> BucketObject]
    BY <1>0, <2>2, <2>3, BucketWishes
  <2>5. budget' \in Budget
    BY <1>0, <1>3, DisturbanceType DEF Edit
  <2> QED
    BY <1>3, <2>4, <2>5 DEF Edit, Enqueue, TypeOK, Budget
<1>4. CASE Delete(b)
  <2>1. spec' \in [Bucket -> BucketObject]
    BY <1>0, <1>4, BucketMoves, Spec0Type DEF Delete
  <2>2. budget' \in Budget
    BY <1>0, <1>4, DisturbanceType DEF Delete
  <2> QED
    BY <1>4, <2>1, <2>2 DEF Delete, Enqueue, TypeOK, Budget
<1> QED
  BY <1>1, <1>2, <1>3, <1>4

\* The steps after the finalizer and after the bucket are program counters.
LEMMA AfterType ==
    ASSUME NEW b \in Bucket
    PROVE  AfterFinalizer(b) \in PC /\ AfterBucket(b) \in PC
BY DEF AfterFinalizer, AfterBucket, PC

\* What Provisioned does to the workers.
LEMMA ProvisionedMoves ==
    ASSUME NEW b \in Bucket, w \in [Bucket -> Worker], Provisioned(b)
    PROVE  /\ w' \in [Bucket -> Worker]
           /\ w'[b] = [w[b] EXCEPT !.pc = AfterBucket(b), !.ok = TRUE]
           /\ \A o \in Bucket \ {b} : w'[o] = w[o]
<1>1. AfterBucket(b) \in PC /\ TRUE \in BOOLEAN
  BY AfterType
<1>2. w' = [w EXCEPT ![b].pc = AfterBucket(b), ![b].ok = TRUE]
  BY DEF Provisioned
<1> QED
  BY <1>1, <1>2, GotoOkMoves

\* What Ensured does to the workers.
LEMMA EnsuredMoves ==
    ASSUME NEW b \in Bucket, NEW ok \in BOOLEAN, w \in [Bucket -> Worker], Ensured(b, ok)
    PROVE  /\ w' \in [Bucket -> Worker]
           /\ w'[b] = [w[b] EXCEPT !.pc = "status", !.ok = ok]
           /\ \A o \in Bucket \ {b} : w'[o] = w[o]
<1>1. "status" \in PC
  BY DEF PC
<1>2. w' = [w EXCEPT ![b].pc = "status", ![b].ok = ok]
  BY DEF Ensured
<1> QED
  BY <1>1, <1>2, GotoOkMoves

\* What Reconcile, AddFinalizer and LookupEntry read into the worker.
ReconcilePC(b) ==
    CASE spec[b].phase = "deleting" -> "delLookup"
      [] ~spec[b].fin -> "finalizer"
      [] OTHER -> AfterFinalizer(b)

\* What Reconcile does to the workers: one of them starts, or none.
LEMMA ReconcileMoves ==
    ASSUME NEW b \in Bucket, TypeOK, Reconcile(b)
    PROVE  /\ w' \in [Bucket -> Worker]
           /\ \A o \in Bucket \ {b} : w'[o] = w[o]
           /\ \/ w'[b] = w[b]
              \/ Exists(b) /\ w'[b] = [Idle EXCEPT !.snap = spec[b], !.pc = ReconcilePC(b)]
<1>1. CASE ~Exists(b)
  BY <1>1 DEF Reconcile, TypeOK
<1>2. CASE Exists(b)
  <2>1. ReconcilePC(b) \in PC
    <3>1. "delLookup" \in PC /\ "finalizer" \in PC
      BY DEF PC
    <3>2. AfterFinalizer(b) \in PC
      BY AfterType
    <3> QED
      BY <3>1, <3>2 DEF ReconcilePC
  <2>2. [Idle EXCEPT !.snap = spec[b], !.pc = ReconcilePC(b)] \in Worker
    <3>1. spec[b] \in BucketObject
      BY DEF TypeOK
    <3> QED
      BY <2>1, <3>1, WorkerReads, IdleType, BackendConstants
  <2>3. w' = [w EXCEPT ![b] = [Idle EXCEPT !.snap = spec[b], !.pc = ReconcilePC(b)]]
    BY <1>2 DEF Reconcile, ReconcilePC
  <2> QED
    BY <1>2, <2>2, <2>3, WorkerAt DEF TypeOK
<1> QED
  BY <1>1, <1>2

Finalized(b) == [w[b] EXCEPT !.snap.fin = TRUE, !.pc = AfterFinalizer(b)]

\* What AddFinalizer does to the worker when the update is accepted.
LEMMA FinalizerMoves ==
    ASSUME NEW b \in Bucket, TypeOK,
           w' = [w EXCEPT ![b].snap.fin = TRUE, ![b].pc = AfterFinalizer(b)]
    PROVE  /\ w' \in [Bucket -> Worker]
           /\ \A o \in Bucket \ {b} : w'[o] = w[o]
           /\ w'[b] = Finalized(b)
<1>1. Finalized(b) \in Worker
  BY AfterType, WorkerReads, BackendConstants, Spec0Type DEF TypeOK, Finalized
<1>2. w' = [w EXCEPT ![b] = Finalized(b)]
  BY DEF TypeOK, Finalized
<1> QED
  BY <1>1, <1>2, WorkerAt DEF TypeOK

\* What LookupEntry does to the worker when the entry is there.
LEMMA EntryMoves ==
    ASSUME NEW b \in Bucket, TypeOK,
           w' = [w EXCEPT ![b].entry = Mine(b), ![b].pc = "update"]
    PROVE  /\ w' \in [Bucket -> Worker]
           /\ \A o \in Bucket \ {b} : w'[o] = w[o]
           /\ w'[b] = [w[b] EXCEPT !.entry = Mine(b), !.pc = "update"]
<1>1. Mine(b) \in BackendBucket /\ "update" \in PC
  BY NameType DEF TypeOK, Mine, PC
<1>2. [w[b] EXCEPT !.entry = Mine(b), !.pc = "update"] \in Worker
  BY <1>1, WorkerReads, Spec0Type DEF TypeOK
<1>3. w' = [w EXCEPT ![b] = [w[b] EXCEPT !.entry = Mine(b), !.pc = "update"]]
  BY DEF TypeOK
<1> QED
  BY <1>2, <1>3, WorkerAt DEF TypeOK

\* Failed: out of EnsureBucket to the status, out of emptyBucket over the key, or out.
LEMMA FailedMoves ==
    ASSUME NEW b \in Bucket, TypeOK, Failed(b)
    PROVE  /\ w' \in [Bucket -> Worker] /\ queue' \subseteq Bucket
           /\ \A o \in Bucket \ {b} : w'[o] = w[o]
           /\ \/ /\ w[b].pc \in {"lookup", "create", "quota", "entry", "update"}
                 /\ w'[b] = [w[b] EXCEPT !.pc = "status", !.ok = FALSE]
              \/ /\ w[b].pc \in {"allow", "empty"}
                 /\ w'[b] = [w[b] EXCEPT !.pc = "dropKey", !.ok = FALSE]
              \/ w'[b] = Idle
<1>0. w \in [Bucket -> Worker] /\ queue \subseteq Bucket
  BY DEF TypeOK
<1>1. CASE /\ w[b].pc \in {"lookup", "create", "quota", "entry", "update"}
           /\ Ensured(b, FALSE) /\ UNCHANGED queue
  BY <1>0, <1>1, EnsuredMoves
<1>2. CASE /\ w[b].pc \in {"allow", "empty"}
           /\ w' = [w EXCEPT ![b].pc = "dropKey", ![b].ok = FALSE] /\ UNCHANGED queue
  <2>1. "dropKey" \in PC
    BY DEF PC
  <2> QED
    BY <1>0, <1>2, <2>1, GotoOkMoves
<1>3. CASE Finish(b, TRUE)
  BY <1>0, <1>3, FinishMoves
<1> QED
  BY <1>1, <1>2, <1>3 DEF Failed

\* The steps of the workers.
LEMMA WorkerType ==
    ASSUME TypeOK, NEW b \in Bucket, WorkerStep(b)
    PROVE  TypeOK'
<1>0. /\ w \in [Bucket -> Worker] /\ w[b] \in Worker /\ w[b].snap \in BucketObject
      /\ spec \in [Bucket -> BucketObject] /\ spec[b] \in BucketObject
      /\ backend \in [Name -> BackendBucket] /\ NameOf[b] \in Name
      /\ Mine(b) \in BackendBucket
      /\ status \in [Bucket -> StatusObject]
      /\ keys \in [Name -> Int] /\ budget \in Budget /\ queue \subseteq Bucket
  BY NameType DEF TypeOK, StatusObject, Budget, Worker, Mine
<1>1. CASE Reconcile(b)
  <2>1. w' \in [Bucket -> Worker]
    BY <1>1, ReconcileMoves
  <2> QED
    BY <1>1, <2>1 DEF Reconcile, TypeOK
<1>2. CASE AddFinalizer(b)
  <2>1. CASE /\ spec' = [spec EXCEPT ![b].fin = TRUE]
             /\ w' = [w EXCEPT ![b].snap.fin = TRUE, ![b].pc = AfterFinalizer(b)]
             /\ UNCHANGED queue
    <3>1. w' \in [Bucket -> Worker]
      BY <2>1, FinalizerMoves
    <3>2. spec' = [spec EXCEPT ![b] = [spec[b] EXCEPT !.fin = TRUE]]
      BY <1>0, <2>1
    <3>3. spec' \in [Bucket -> BucketObject]
      BY <1>0, <3>2, BucketMoves
    <3> QED
      BY <1>2, <2>1, <3>1, <3>3 DEF AddFinalizer, TypeOK
  <2>2. CASE UNCHANGED spec /\ Finish(b, TRUE)
    <3>1. w' \in [Bucket -> Worker] /\ queue' \subseteq Bucket
      BY <1>0, <2>2, FinishMoves
    <3> QED
      BY <1>2, <2>2, <3>1 DEF AddFinalizer, TypeOK
  <2> QED
    BY <1>2, <2>1, <2>2 DEF AddFinalizer
<1>3. CASE Lookup(b)
  <2>1. w' \in [Bucket -> Worker]
    <3>1. "create" \in PC
      BY DEF PC
    <3> QED
      BY <1>0, <1>3, <3>1, ProvisionedMoves, GotoMoves DEF Lookup
  <2> QED
    BY <1>3, <2>1 DEF Lookup, TypeOK
<1>4. CASE CreateBucket(b)
  <2>1. w' \in [Bucket -> Worker]
    BY <1>0, <1>4, ProvisionedMoves, EnsuredMoves DEF CreateBucket
  <2>2. backend' \in [Name -> BackendBucket]
    BY <1>0, <1>4, BackendConstants DEF CreateBucket
  <2> QED
    BY <1>4, <2>1, <2>2 DEF CreateBucket, TypeOK
<1>5. CASE ApplyQuota(b)
  <2>1. w' \in [Bucket -> Worker]
    BY <1>0, <1>5, EnsuredMoves DEF ApplyQuota
  <2>2. backend' \in [Name -> BackendBucket]
    <3>1. CASE UNCHANGED backend
      BY <1>0, <3>1
    <3>2. CASE ~UNCHANGED backend
      <4> DEFINE q == w[b].snap.quota
      <4>1. q \in Quota
        BY <1>0 DEF BucketObject
      <4>2. backend' = [backend EXCEPT ![NameOf[b]].size = q.size, ![NameOf[b]].count = q.count]
        BY <1>5, <3>2 DEF ApplyQuota, garageBucketQuotas
      <4>3. backend' = [backend EXCEPT ![NameOf[b]] =
                          [backend[NameOf[b]] EXCEPT !.size = q.size, !.count = q.count]]
        BY <1>0, <4>2
      <4> HIDE DEF q
      <4>4. [backend[NameOf[b]] EXCEPT !.size = q.size, !.count = q.count] \in BackendBucket
        BY <1>0, <4>1, BackendMoves
      <4> QED
        BY <1>0, <4>3, <4>4, BackendAt
    <3> QED
      BY <3>1, <3>2
  <2> QED
    BY <1>5, <2>1, <2>2 DEF ApplyQuota, TypeOK
<1>6. CASE LookupEntry(b)
  <2>1. w' \in [Bucket -> Worker]
    BY <1>0, <1>6, EntryMoves, EnsuredMoves DEF LookupEntry
  <2> QED
    BY <1>6, <2>1 DEF LookupEntry, TypeOK
<1>7. CASE UpdateEntry(b)
  <2>1. w' \in [Bucket -> Worker]
    BY <1>0, <1>7, EnsuredMoves DEF UpdateEntry
  <2>2. backend' \in [Name -> BackendBucket]
    <3>1. CASE UNCHANGED backend
      BY <1>0, <3>1
    <3>2. CASE ~UNCHANGED backend
      <4> DEFINE e == w[b].entry
                 q == w[b].snap.quota
                 objs == Mine(b).objects
      <4>1. q \in Quota /\ e \in BackendBucket /\ objs \in SUBSET Bucket
        BY <1>0 DEF BucketObject, Worker, BackendBucket
      <4>2. backend' = [backend EXCEPT ![NameOf[b]] =
                          [WithQuota(e, q.size) EXCEPT !.objects = objs]]
        BY <1>7, <3>2 DEF UpdateEntry
      <4> HIDE DEF q, e, objs
      <4>3. [WithQuota(e, q.size) EXCEPT !.objects = objs] \in BackendBucket
        BY <4>1, BackendMoves
      <4> QED
        BY <1>0, <4>2, <4>3, BackendAt
    <3> QED
      BY <3>1, <3>2
  <2> QED
    BY <1>7, <2>1, <2>2 DEF UpdateEntry, TypeOK
<1>8. CASE UpdateStatus(b)
  <2>1. w' \in [Bucket -> Worker] /\ queue' \subseteq Bucket
    <3>1. (~w[b].ok) \in BOOLEAN
      BY Zenon
    <3> QED
      BY <1>0, <1>8, <3>1, FinishMoves DEF UpdateStatus
  <2>2. status' \in [Bucket -> StatusObject]
    <3>1. CASE UNCHANGED status
      BY <1>0, <3>1
    <3>2. CASE ~UNCHANGED status
      <4>1. PICK a \in BOOLEAN : status' = [status EXCEPT ![b].ready = w[b].ok,
                                       ![b].obs = w[b].snap.gen, ![b].applied = a]
        BY <1>0, <1>8, <3>2 DEF UpdateStatus, ObservedGeneration, StatusObject
      <4>2. w[b].ok \in BOOLEAN /\ w[b].snap.gen \in Nat
        BY <1>0 DEF Worker, BucketObject
      <4> QED
        BY <1>0, <4>1, <4>2 DEF StatusObject
    <3> QED
      BY <3>1, <3>2
  <2> QED
    BY <1>8, <2>1, <2>2 DEF UpdateStatus, TypeOK, StatusObject
<1>9. CASE DeleteLookup(b)
  <2>1. w' \in [Bucket -> Worker]
    <3>1. {"release", "mkKey", "empty"} \subseteq PC
      BY DEF PC
    <3> QED
      BY <1>0, <1>9, <3>1, GotoMoves DEF DeleteLookup
  <2> QED
    BY <1>9, <2>1 DEF DeleteLookup, TypeOK
<1>10. CASE CreateKey(b)
  <2>1. w' \in [Bucket -> Worker]
    <3>1. "allow" \in PC
      BY DEF PC
    <3> QED
      BY <1>0, <1>10, <3>1, GotoMoves DEF CreateKey
  <2>2. keys' \in [Name -> Int]
    BY <1>0, <1>10 DEF CreateKey
  <2> QED
    BY <1>10, <2>1, <2>2 DEF CreateKey, TypeOK
<1>11. CASE AllowKey(b)
  <2>1. w' \in [Bucket -> Worker]
    <3>1. "empty" \in PC /\ "dropKey" \in PC
      BY DEF PC
    <3> QED
      BY <1>0, <1>11, <3>1, GotoMoves, GotoOkMoves DEF AllowKey
  <2> QED
    BY <1>11, <2>1 DEF AllowKey, TypeOK
<1>12. CASE EmptyBucket(b)
  <2>1. w' \in [Bucket -> Worker]
    <3>1. "delete" \in PC /\ "dropKey" \in PC
      BY DEF PC
    <3> QED
      BY <1>0, <1>12, <3>1, GotoOkMoves DEF EmptyBucket
  <2>2. backend' \in [Name -> BackendBucket]
    <3>1. backend' = [backend EXCEPT ![NameOf[b]] = [backend[NameOf[b]] EXCEPT !.objects = {}]]
      BY <1>0, <1>12 DEF EmptyBucket
    <3>2. [backend[NameOf[b]] EXCEPT !.objects = {}] \in BackendBucket
      BY <1>0, BackendMoves, QuotaConstants
    <3> QED
      BY <1>0, <3>1, <3>2, BackendAt
  <2> QED
    BY <1>12, <2>1, <2>2 DEF EmptyBucket, TypeOK
<1>13. CASE DropKey(b)
  <2>1. w' \in [Bucket -> Worker] /\ queue' \subseteq Bucket
    <3>1. "delete" \in PC
      BY DEF PC
    <3> QED
      BY <1>0, <1>13, <3>1, GotoMoves, FinishMoves DEF DropKey
  <2>2. keys' \in [Name -> Int]
    BY <1>0, <1>13 DEF DropKey
  <2>3. budget' \in Budget
    BY <1>0, <1>13, DisturbanceType DEF DropKey
  <2> QED
    BY <1>13, <2>1, <2>2, <2>3 DEF DropKey, TypeOK, Budget
<1>14. CASE DeleteBucket(b)
  <2>1. w' \in [Bucket -> Worker] /\ queue' \subseteq Bucket
    <3>1. "release" \in PC
      BY DEF PC
    <3> QED
      BY <1>0, <1>14, <3>1, GotoMoves, FinishMoves DEF DeleteBucket, Refused
  <2>2. backend' \in [Name -> BackendBucket]
    BY <1>0, <1>14, BackendConstants DEF DeleteBucket
  <2> QED
    BY <1>14, <2>1, <2>2 DEF DeleteBucket, TypeOK
<1>15. CASE RemoveFinalizer(b)
  <2>1. w' \in [Bucket -> Worker] /\ queue' \subseteq Bucket
    BY <1>0, <1>15, FinishMoves DEF RemoveFinalizer
  <2>2. spec' \in [Bucket -> BucketObject]
    BY <1>0, <1>15, Spec0Type DEF RemoveFinalizer
  <2> QED
    BY <1>15, <2>1, <2>2 DEF RemoveFinalizer, TypeOK
<1> QED
  BY <1>1, <1>2, <1>3, <1>4, <1>5, <1>6, <1>7, <1>8, <1>9, <1>10, <1>11, <1>12, <1>13,
     <1>14, <1>15 DEF WorkerStep

\* The disturbances.
LEMMA DisturbedType ==
    ASSUME TypeOK,
           \/ \E b \in Bucket : CallFails(b) \/ AnswerLost(b) \/ Put(b)
           \/ \E n \in Name : ExtEdit(n)
           \/ Stop \/ CredsLost \/ CredsBack
    PROVE  TypeOK'
<1>0. /\ w \in [Bucket -> Worker] /\ budget \in Budget
      /\ backend \in [Name -> BackendBucket] /\ keys \in [Name -> Int]
  BY DEF TypeOK, Budget
<1>1. ASSUME NEW b \in Bucket, CallFails(b) PROVE TypeOK'
  <2>1. w' \in [Bucket -> Worker] /\ queue' \subseteq Bucket
    BY <1>1, FailedMoves DEF CallFails
  <2>2. budget' \in Budget
    BY <1>0, <1>1, DisturbanceType DEF CallFails
  <2> QED
    BY <1>1, <2>1, <2>2 DEF CallFails, TypeOK, Budget
<1>2. ASSUME NEW b \in Bucket, AnswerLost(b) PROVE TypeOK'
  <2>1. w' \in [Bucket -> Worker] /\ queue' \subseteq Bucket
    BY <1>2, FailedMoves DEF AnswerLost
  <2>2. budget' \in Budget
    BY <1>0, <1>2, DisturbanceType DEF AnswerLost
  <2>3. backend' \in [Name -> BackendBucket]
    BY <1>0, <1>2, NameType, BackendConstants DEF AnswerLost
  <2>4. keys' \in [Name -> Int]
    BY <1>0, <1>2 DEF AnswerLost
  <2> QED
    BY <1>2, <2>1, <2>2, <2>3, <2>4 DEF AnswerLost, TypeOK, Budget
<1>3. ASSUME NEW b \in Bucket, Put(b) PROVE TypeOK'
  <2>1. NameOf[b] \in Name /\ backend[NameOf[b]] \in BackendBucket
    BY <1>0, NameType
  <2> DEFINE objs == backend[NameOf[b]].objects \cup {b}
  <2>2. objs \in SUBSET Bucket
    BY <2>1 DEF BackendBucket
  <2>3. backend' = [backend EXCEPT ![NameOf[b]] = [backend[NameOf[b]] EXCEPT !.objects = objs]]
    BY <1>0, <1>3, <2>1 DEF Put
  <2> HIDE DEF objs
  <2>4. [backend[NameOf[b]] EXCEPT !.objects = objs] \in BackendBucket
    BY <2>1, <2>2, BackendMoves, QuotaConstants
  <2>5. backend' \in [Name -> BackendBucket]
    BY <1>0, <2>1, <2>3, <2>4, BackendAt
  <2>6. budget' \in Budget
    BY <1>0, <1>3, DisturbanceType DEF Put
  <2> QED
    BY <1>3, <2>5, <2>6 DEF Put, TypeOK, Budget
<1>4. ASSUME NEW n \in Name, ExtEdit(n) PROVE TypeOK'
  <2>1. backend' = [backend EXCEPT ![n] = [backend[n] EXCEPT !.ext = 1 - @]]
    BY <1>0, <1>4 DEF ExtEdit
  <2>2. [backend[n] EXCEPT !.ext = 1 - @] \in BackendBucket
    BY <1>0, BackendMoves, QuotaConstants
  <2>3. backend' \in [Name -> BackendBucket]
    BY <1>0, <2>1, <2>2, BackendAt
  <2>4. budget' \in Budget
    BY <1>0, <1>4, DisturbanceType DEF ExtEdit
  <2> QED
    BY <1>4, <2>3, <2>4 DEF ExtEdit, TypeOK, Budget
<1>5. CASE Stop
  <2>1. w' \in [Bucket -> Worker]
    BY <1>5, IdleType DEF Stop
  <2>2. budget' \in Budget
    BY <1>0, <1>5, DisturbanceType DEF Stop
  <2> QED
    BY <1>5, <2>1, <2>2 DEF Stop, TypeOK, Budget
<1>6. CASE CredsLost
  <2>1. budget' \in Budget
    BY <1>0, <1>6, DisturbanceType DEF CredsLost
  <2> QED
    BY <1>6, <2>1 DEF CredsLost, TypeOK, Budget
<1>7. CASE CredsBack
  BY <1>7 DEF CredsBack, TypeOK
<1> QED
  BY <1>1, <1>2, <1>3, <1>4, <1>5, <1>6, <1>7

\* Every step preserves the types.
LEMMA TypeStep == TypeOK /\ [Next]_vars => TypeOK'
<1> SUFFICES ASSUME TypeOK, [Next]_vars PROVE TypeOK'
  OBVIOUS
<1>1. CASE UNCHANGED vars
  BY <1>1 DEF vars, TypeOK
<1>2. CASE Next
  BY <1>2, UserType, WorkerType, DisturbedType DEF Next
<1> QED
  BY <1>1, <1>2

\* Every variable keeps its type.
THEOREM BucketsTypeCorrect == Spec => []TypeOK
BY TypeInit, TypeStep, PTL DEF Spec

-----------------------------------------------------------------------------
(* The inductive invariant *)

\* The steps of EnsureBucket and after; those of DeleteBucket, and of these the ones
\* that are only reached with reclaim policy Delete.
Ensuring == {"lookup", "create", "quota", "entry", "update", "status"}
Destroying == {"mkKey", "allow", "empty", "dropKey", "delete"}
Reclaiming == Destroying \cup {"delLookup", "release"}

\* What one Bucket, its status and its worker have to do with each other.
Sound(b) ==
    /\ spec[b].fin => Exists(b)
    /\ spec[b].phase = "deleting" => spec[b].fin
    /\ w[b].pc = "finalizer" => w[b].snap.phase = "live"
    /\ w[b].pc \in Ensuring => spec[b].fin
    /\ w[b].pc \in Reclaiming => spec[b].phase = "deleting"
    /\ w[b].pc \in Destroying => w[b].snap.reclaim = "Delete"
    /\ w[b].pc = "update" => w[b].entry.there
    /\ spec[b].phase = "live" /\ status[b].ready => spec[b].fin

AllSound == \A b \in Bucket : Sound(b)

\* The invariant holds at the start.
LEMMA SoundInit == Init => AllSound
BY DEF Init, AllSound, Sound, Exists, Spec0, Status0, Idle, Ensuring, Reclaiming, Destroying

\* A step that leaves all but b alone has to answer for b only.
LEMMA SoundElsewhere ==
    ASSUME AllSound, NEW b \in Bucket, Sound(b)',
           \A o \in Bucket \ {b} : spec'[o] = spec[o] /\ status'[o] = status[o] /\ w'[o] = w[o]
    PROVE  AllSound'
<1> SUFFICES ASSUME NEW o \in Bucket, o # b PROVE Sound(o)'
  BY DEF AllSound
<1>1. Sound(o) /\ spec'[o] = spec[o] /\ status'[o] = status[o] /\ w'[o] = w[o]
  BY DEF AllSound
<1> QED
  BY <1>1 DEF Sound, Exists

\* A worker that goes on with the same Bucket.
LEMMA SoundMove ==
    ASSUME NEW b \in Bucket, Sound(b), spec'[b] = spec[b], status'[b] = status[b],
           w'[b].snap = w[b].snap, w[b].pc \in PC,
           \/ w[b].pc \in Ensuring /\ w'[b].pc \in Ensuring \ {"update"}
           \/ w[b].pc \in Ensuring /\ w'[b].pc = "update" /\ w'[b].entry.there
           \/ w[b].pc \in Reclaiming /\ w'[b].pc = "release"
           \/ /\ w[b].pc \in Reclaiming /\ w'[b].pc \in Destroying
              /\ w[b].snap.reclaim = "Delete"
    PROVE  Sound(b)'
BY DEF Sound, Exists, Ensuring, Reclaiming, Destroying

\* A worker that returns leaves its Bucket sound.
LEMMA SoundIdle ==
    ASSUME NEW b \in Bucket, Sound(b), spec'[b] = spec[b], status'[b] = status[b],
           w'[b] = Idle
    PROVE  Sound(b)'
<1>1. w'[b].pc = "idle"
  BY IdleType
<1> QED
  BY <1>1 DEF Sound, Exists, Ensuring, Reclaiming, Destroying

\* After the finalizer, and after the bucket, EnsureBucket goes on.
LEMMA AfterEnsuring ==
    ASSUME NEW b \in Bucket
    PROVE  /\ AfterFinalizer(b) \in Ensuring \ {"update"}
           /\ AfterBucket(b) \in Ensuring \ {"update"}
BY DEF AfterFinalizer, AfterBucket, Ensuring

\* Reading the Bucket to begin with.
LEMMA SoundReconcile ==
    ASSUME TypeOK, AllSound, NEW b \in Bucket, Reconcile(b)
    PROVE  AllSound'
<1> SUFFICES Sound(b)'
  BY ReconcileMoves, SoundElsewhere DEF Reconcile
<1>1. \A o \in Bucket : spec'[o] = spec[o] /\ status'[o] = status[o]
  BY DEF Reconcile
<1>2. Sound(b) /\ Idle \in Worker
  BY IdleType DEF AllSound
<1>3. CASE w'[b] = w[b]
  BY <1>1, <1>2, <1>3 DEF Sound, Exists
<1>4. CASE Exists(b) /\ w'[b] = [Idle EXCEPT !.snap = spec[b], !.pc = ReconcilePC(b)]
  <2>1. w'[b].snap = spec[b] /\ w'[b].pc = ReconcilePC(b)
    BY <1>2, <1>4 DEF Worker
  <2>2. spec[b].phase \in {"live", "deleting"} /\ AfterFinalizer(b) \in {"lookup", "status"}
    BY <1>4 DEF Exists, AfterFinalizer
  <2>3. CASE spec[b].phase = "deleting"
    <3>0. spec[b].fin
      BY <1>2, <2>3 DEF Sound
    <3>1. w'[b].pc = "delLookup"
      BY <2>1, <2>3, <3>0 DEF ReconcilePC
    <3> QED
      BY <1>1, <1>2, <2>1, <2>3, <3>1 DEF Sound, Exists, Ensuring, Reclaiming, Destroying
  <2>4. CASE spec[b].phase = "live" /\ ~spec[b].fin
    <3>1. w'[b].pc = "finalizer"
      BY <2>1, <2>4 DEF ReconcilePC
    <3> QED
      BY <1>1, <1>2, <2>1, <2>4, <3>1 DEF Sound, Exists, Ensuring, Reclaiming, Destroying
  <2>5. CASE spec[b].phase = "live" /\ spec[b].fin
    <3>1. w'[b].pc \in {"lookup", "status"}
      BY <2>1, <2>2, <2>5 DEF ReconcilePC
    <3> QED
      BY <1>1, <1>2, <2>1, <2>5, <3>1 DEF Sound, Exists, Ensuring, Reclaiming, Destroying
  <2> QED
    BY <2>2, <2>3, <2>4, <2>5
<1> QED
  BY <1>3, <1>4, ReconcileMoves

\* The finalizer goes on when the Bucket is as it was read, and so is live.
LEMMA SoundFinalizer ==
    ASSUME TypeOK, AllSound, NEW b \in Bucket, AddFinalizer(b)
    PROVE  AllSound'
<1>0. /\ Sound(b) /\ w[b] \in Worker /\ spec[b] \in BucketObject
      /\ spec \in [Bucket -> BucketObject] /\ w \in [Bucket -> Worker] /\ queue \subseteq Bucket
  BY DEF TypeOK, AllSound
<1>1. CASE UNCHANGED spec /\ Finish(b, TRUE)
  <2>1. w'[b] = Idle /\ \A o \in Bucket \ {b} : w'[o] = w[o]
    BY <1>0, <1>1, FinishMoves
  <2>2. Sound(b)'
    BY <1>0, <1>1, <2>1, SoundIdle DEF AddFinalizer
  <2> QED
    BY <1>1, <2>1, <2>2, SoundElsewhere DEF AddFinalizer
<1>2. CASE /\ spec[b] = w[b].snap
           /\ spec' = [spec EXCEPT ![b].fin = TRUE]
           /\ w' = [w EXCEPT ![b].snap.fin = TRUE, ![b].pc = AfterFinalizer(b)]
  <2>1. w'[b] = Finalized(b) /\ \A o \in Bucket \ {b} : w'[o] = w[o]
    BY <1>2, FinalizerMoves
  <2>2. w'[b].pc \in Ensuring \ {"update"}
    BY <1>0, <2>1, AfterEnsuring DEF Finalized, Worker
  <2>3. /\ spec'[b] = [spec[b] EXCEPT !.fin = TRUE]
        /\ \A o \in Bucket \ {b} : spec'[o] = spec[o]
    BY <1>0, <1>2
  <2>4. spec[b].phase = "live"
    BY <1>0, <1>2 DEF AddFinalizer, Sound
  <2>5. spec'[b].phase = "live" /\ spec'[b].fin
    BY <1>0, <2>3, <2>4 DEF BucketObject
  <2>6. Sound(b)'
    BY <2>2, <2>5 DEF Sound, Exists, Ensuring, Reclaiming, Destroying
  <2> QED
    BY <2>1, <2>3, <2>6, SoundElsewhere DEF AddFinalizer
<1> QED
  BY <1>1, <1>2 DEF AddFinalizer

\* EnsureBucket goes on with the Bucket as read, and stays within EnsureBucket.
LEMMA EnsuringMoves ==
    ASSUME TypeOK, NEW b \in Bucket,
           Lookup(b) \/ CreateBucket(b) \/ ApplyQuota(b) \/ LookupEntry(b) \/ UpdateEntry(b)
    PROVE  /\ w[b].pc \in Ensuring /\ UNCHANGED <<spec, status>>
           /\ \A o \in Bucket \ {b} : w'[o] = w[o]
           /\ w'[b].snap = w[b].snap /\ w'[b].pc \in Ensuring
           /\ w'[b].pc = "update" => w'[b].entry.there
<1>0. /\ w[b] \in Worker /\ w[b].pc \in PC /\ w \in [Bucket -> Worker]
      /\ w[b].pc \in Ensuring
  BY DEF TypeOK, Worker, Lookup, CreateBucket, ApplyQuota, LookupEntry, UpdateEntry,
         Ensuring
<1>1. UNCHANGED <<spec, status>>
  BY DEF Lookup, CreateBucket, ApplyQuota, LookupEntry, UpdateEntry
<1>2. /\ \A o \in Bucket \ {b} : w'[o] = w[o]
      /\ \/ w'[b] = [w[b] EXCEPT !.pc = AfterBucket(b), !.ok = TRUE]
         \/ \E ok \in BOOLEAN : w'[b] = [w[b] EXCEPT !.pc = "status", !.ok = ok]
         \/ w'[b] = [w[b] EXCEPT !.pc = "create"]
         \/ w'[b] = [w[b] EXCEPT !.entry = Mine(b), !.pc = "update"] /\ Mine(b).there
  <2>1. CASE Lookup(b)
    <3>1. "create" \in PC
      BY DEF PC
    <3> QED
      BY <1>0, <2>1, <3>1, ProvisionedMoves, GotoMoves DEF Lookup
  <2>2. CASE CreateBucket(b)
    BY <1>0, <2>2, ProvisionedMoves, EnsuredMoves DEF CreateBucket
  <2>3. CASE ApplyQuota(b)
    BY <1>0, <2>3, EnsuredMoves DEF ApplyQuota
  <2>4. CASE LookupEntry(b)
    BY <1>0, <2>4, EntryMoves, EnsuredMoves DEF LookupEntry
  <2>5. CASE UpdateEntry(b)
    BY <1>0, <2>5, EnsuredMoves DEF UpdateEntry
  <2> QED
    BY <2>1, <2>2, <2>3, <2>4, <2>5
<1>3. "status" \in Ensuring \ {"update"} /\ "create" \in Ensuring \ {"update"}
  BY DEF Ensuring
<1>4. /\ w'[b].snap = w[b].snap
      /\ \/ w'[b].pc \in Ensuring \ {"update"}
         \/ w'[b].pc = "update" /\ w'[b].entry.there
  <2>1. CASE w'[b] = [w[b] EXCEPT !.pc = AfterBucket(b), !.ok = TRUE]
    <3>1. w'[b].snap = w[b].snap /\ w'[b].pc = AfterBucket(b)
      BY <1>0, <2>1 DEF Worker
    <3> QED
      BY <3>1, AfterEnsuring
  <2>2. CASE \E ok \in BOOLEAN : w'[b] = [w[b] EXCEPT !.pc = "status", !.ok = ok]
    <3>1. w'[b].snap = w[b].snap /\ w'[b].pc = "status"
      BY <1>0, <2>2 DEF Worker
    <3> QED
      BY <3>1, <1>3
  <2>3. CASE w'[b] = [w[b] EXCEPT !.pc = "create"]
    <3>1. w'[b].snap = w[b].snap /\ w'[b].pc = "create"
      BY <1>0, <2>3 DEF Worker
    <3> QED
      BY <3>1, <1>3
  <2>4. CASE w'[b] = [w[b] EXCEPT !.entry = Mine(b), !.pc = "update"] /\ Mine(b).there
    BY <1>0, <2>4 DEF Worker
  <2> QED
    BY <1>2, <2>1, <2>2, <2>3, <2>4
<1>5. "update" \in Ensuring
  BY DEF Ensuring
<1> QED
  BY <1>0, <1>1, <1>2, <1>4, <1>5

\* What a worker does in between it does within EnsureBucket, or within DeleteBucket.
LEMMA SoundEnsuring ==
    ASSUME TypeOK, AllSound, NEW b \in Bucket,
           Lookup(b) \/ CreateBucket(b) \/ ApplyQuota(b) \/ LookupEntry(b) \/ UpdateEntry(b)
    PROVE  AllSound'
<1>0. Sound(b) /\ w[b].pc \in PC
  BY DEF TypeOK, AllSound, Worker
<1>1. Sound(b)'
  BY <1>0, EnsuringMoves, SoundMove
<1> QED
  BY <1>1, EnsuringMoves, SoundElsewhere

\* DeleteBucket goes on with the Bucket as read, destroys it under Delete only, or
\* returns.
LEMMA ReclaimingMoves ==
    ASSUME TypeOK, AllSound, NEW b \in Bucket,
           \/ DeleteLookup(b) \/ CreateKey(b) \/ AllowKey(b) \/ EmptyBucket(b)
           \/ DropKey(b) \/ DeleteBucket(b)
    PROVE  /\ w[b].pc = "delLookup" \/ w[b].pc \in Destroying
           /\ UNCHANGED <<spec, status>>
           /\ \A o \in Bucket \ {b} : w'[o] = w[o]
           /\ \/ w'[b] = Idle
              \/ /\ w'[b].snap = w[b].snap
                 /\ \/ w'[b].pc = "release"
                    \/ w'[b].pc \in Destroying /\ w[b].snap.reclaim = "Delete"
<1>0. /\ Sound(b) /\ w[b] \in Worker /\ w[b].pc \in PC /\ w \in [Bucket -> Worker]
      /\ w[b].snap.reclaim \in {"Retain", "Delete"} /\ queue \subseteq Bucket
  BY DEF TypeOK, AllSound, Worker, BucketObject
<1>1. UNCHANGED <<spec, status>>
  BY DEF DeleteLookup, CreateKey, AllowKey, EmptyBucket, DropKey, DeleteBucket, Refused
<1>2. w[b].pc = "delLookup" \/ w[b].pc \in Destroying
  BY DEF DeleteLookup, CreateKey, AllowKey, EmptyBucket, DropKey, DeleteBucket, Refused, Destroying
<1>3. {"mkKey", "allow", "empty", "dropKey", "delete"} \subseteq PC /\ "release" \in PC
  BY DEF PC
<1>4. \/ w'[b] = Idle /\ \A o \in Bucket \ {b} : w'[o] = w[o]
      \/ \E l \in PC :
           /\ l = "release" \/ (l \in Destroying /\ w[b].snap.reclaim = "Delete")
           /\ \/ Goto(b, l)
              \/ \E ok \in BOOLEAN : w' = [w EXCEPT ![b].pc = l, ![b].ok = ok]
  <2>1. CASE DeleteLookup(b)
    BY <1>0, <1>3, <2>1 DEF DeleteLookup, Destroying
  <2>2. CASE ~DeleteLookup(b)
    <3>1. w[b].snap.reclaim = "Delete"
      BY <1>0, <2>2 DEF CreateKey, AllowKey, EmptyBucket, DropKey, DeleteBucket, Sound, Destroying
    <3>2. CASE CreateKey(b)
      BY <1>3, <3>1, <3>2 DEF CreateKey, Destroying
    <3>3. CASE AllowKey(b)
      BY <1>3, <3>1, <3>3 DEF AllowKey, Destroying
    <3>4. CASE EmptyBucket(b)
      BY <1>3, <3>1, <3>4 DEF EmptyBucket, Destroying
    <3>5. CASE DropKey(b)
      BY <1>0, <1>3, <3>1, <3>5, FinishMoves DEF DropKey, Destroying
    <3>6. CASE DeleteBucket(b)
      BY <1>0, <1>3, <3>6, FinishMoves DEF DeleteBucket, Refused
    <3> QED
      BY <2>2, <3>2, <3>3, <3>4, <3>5, <3>6
  <2> QED
    BY <2>1, <2>2
<1>5. CASE w'[b] = Idle /\ \A o \in Bucket \ {b} : w'[o] = w[o]
  BY <1>1, <1>2, <1>5
<1>6. ASSUME NEW l \in PC, l = "release" \/ (l \in Destroying /\ w[b].snap.reclaim = "Delete"),
             Goto(b, l) \/ \E ok \in BOOLEAN : w' = [w EXCEPT ![b].pc = l, ![b].ok = ok]
      PROVE  /\ w'[b].snap = w[b].snap /\ w'[b].pc = l
             /\ \A o \in Bucket \ {b} : w'[o] = w[o]
  <2>1. CASE Goto(b, l)
    <3>1. /\ w'[b] = [w[b] EXCEPT !.pc = l]
          /\ \A o \in Bucket \ {b} : w'[o] = w[o]
      BY <1>0, <2>1, GotoMoves
    <3> QED
      BY <1>0, <3>1 DEF Worker
  <2>2. ASSUME NEW ok \in BOOLEAN, w' = [w EXCEPT ![b].pc = l, ![b].ok = ok]
        PROVE  /\ w'[b].snap = w[b].snap /\ w'[b].pc = l
               /\ \A o \in Bucket \ {b} : w'[o] = w[o]
    BY <1>0, <2>2, GotoOkMoves DEF Worker
  <2> QED
    BY <1>6, <2>1, <2>2
<1> QED
  BY <1>1, <1>2, <1>4, <1>5, <1>6

\* The steps of DeleteBucket: the Bucket stays one that is being deleted.
LEMMA SoundReclaiming ==
    ASSUME TypeOK, AllSound, NEW b \in Bucket,
           \/ DeleteLookup(b) \/ CreateKey(b) \/ AllowKey(b) \/ EmptyBucket(b)
           \/ DropKey(b) \/ DeleteBucket(b)
    PROVE  AllSound'
<1>0. Sound(b) /\ w[b].pc \in PC
  BY DEF TypeOK, AllSound, Worker
<1>1. w[b].pc \in Reclaiming /\ (w[b].pc \in Destroying => w[b].snap.reclaim = "Delete")
  BY <1>0, ReclaimingMoves DEF Reclaiming, Sound
<1>2. CASE w'[b] = Idle
  <2>1. Sound(b)'
    BY <1>0, <1>2, ReclaimingMoves, SoundIdle
  <2> QED
    BY <2>1, ReclaimingMoves, SoundElsewhere
<1>3. CASE w'[b] # Idle
  <2>1. Sound(b)'
    BY <1>0, <1>1, <1>3, ReclaimingMoves, SoundMove
  <2> QED
    BY <2>1, ReclaimingMoves, SoundElsewhere
<1> QED
  BY <1>2, <1>3

\* The status says Ready of a Bucket that holds its finalizer.
LEMMA SoundStatus ==
    ASSUME TypeOK, AllSound, NEW b \in Bucket, UpdateStatus(b)
    PROVE  AllSound'
<1>0. /\ Sound(b) /\ w \in [Bucket -> Worker] /\ queue \subseteq Bucket
      /\ status \in [Bucket -> StatusObject] /\ (~w[b].ok) \in BOOLEAN
  BY DEF TypeOK, AllSound, StatusObject
<1>1. w'[b] = Idle /\ \A o \in Bucket \ {b} : w'[o] = w[o]
  BY <1>0, FinishMoves DEF UpdateStatus
<1>2. UNCHANGED spec /\ \A o \in Bucket \ {b} : status'[o] = status[o]
  BY <1>0 DEF UpdateStatus
<1>3. w'[b].pc = "idle" /\ spec[b].fin
  BY <1>0, <1>1, IdleType DEF UpdateStatus, Sound, Ensuring
<1>4. Sound(b)'
  BY <1>0, <1>2, <1>3 DEF Sound, Exists, Ensuring, Reclaiming, Destroying
<1> QED
  BY <1>1, <1>2, <1>4, SoundElsewhere

\* The finalizer goes, and the Bucket with it.
LEMMA SoundRelease ==
    ASSUME TypeOK, AllSound, NEW b \in Bucket, RemoveFinalizer(b)
    PROVE  AllSound'
<1>0. /\ Sound(b) /\ w \in [Bucket -> Worker] /\ queue \subseteq Bucket
      /\ spec \in [Bucket -> BucketObject]
  BY DEF TypeOK, AllSound
<1>1. w'[b] = Idle /\ \A o \in Bucket \ {b} : w'[o] = w[o]
  BY <1>0, FinishMoves DEF RemoveFinalizer
<1>2. /\ spec'[b] = spec[b] \/ spec'[b] = Spec0
      /\ \A o \in Bucket \ {b} : spec'[o] = spec[o]
      /\ UNCHANGED status
  BY <1>0 DEF RemoveFinalizer
<1>3. w'[b].pc = "idle"
  BY <1>1, IdleType
<1>4. Sound(b)'
  BY <1>0, <1>2, <1>3 DEF Sound, Exists, Ensuring, Reclaiming, Destroying, Spec0
<1> QED
  BY <1>1, <1>2, <1>4, SoundElsewhere

\* Users delete a Bucket once and edit it as long as it is there; a Bucket that is not
\* there, or only admitted, has no finalizer.
LEMMA SoundUser ==
    ASSUME TypeOK, AllSound, NEW b \in Bucket, Admit(b) \/ Create(b) \/ Edit(b) \/ Delete(b)
    PROVE  AllSound'
<1>0. /\ Sound(b) /\ spec \in [Bucket -> BucketObject] /\ spec[b] \in BucketObject
      /\ status \in [Bucket -> StatusObject]
  BY DEF TypeOK, AllSound, StatusObject
<1>1. /\ UNCHANGED w
      /\ \A o \in Bucket \ {b} : spec'[o] = spec[o] /\ status'[o] = status[o]
  BY <1>0 DEF Admit, Create, Edit, Delete
<1>3. CASE Admit(b)
  <2>0. spec[b].phase # "deleting"
    BY <1>3 DEF Admit
  <2>1. spec'[b].phase = "admitted" /\ ~spec'[b].fin /\ ~spec[b].fin
    BY <1>0, <1>3, Spec0Type DEF Admit, BucketObject, Sound, Exists, Spec0
  <2>2. Sound(b)'
    BY <1>0, <1>1, <2>0, <2>1 DEF Sound, Exists, Reclaiming
  <2> QED
    BY <1>1, <2>2, SoundElsewhere
<1>4. CASE Create(b)
  <2>0. spec[b].phase # "deleting"
    BY <1>4 DEF Create
  <2>1. spec'[b].phase = "live" /\ ~spec[b].fin /\ spec'[b].fin = spec[b].fin
    BY <1>0, <1>4 DEF Create, BucketObject, Sound, Exists
  <2>2. ~status'[b].ready
    BY <1>0, <1>4 DEF Create, Status0
  <2>3. Sound(b)'
    BY <1>0, <1>1, <2>0, <2>1, <2>2 DEF Sound, Exists, Reclaiming
  <2> QED
    BY <1>1, <2>3, SoundElsewhere
<1>5. CASE Edit(b)
  <2>1. PICK x \in Wishes, r \in {"Retain", "Delete"} :
          spec' = [spec EXCEPT ![b].quota = x.quota, ![b].public = x.public,
                               ![b].reclaim = r, ![b].gen = @ + 1]
    BY <1>5, Zenon DEF Edit
  <2>2. spec'[b].phase = spec[b].phase /\ spec'[b].fin = spec[b].fin
    BY <1>0, <2>1 DEF BucketObject
  <2>3. UNCHANGED status
    BY <1>5 DEF Edit
  <2>4. Sound(b)'
    BY <1>0, <1>1, <2>2, <2>3 DEF Sound, Exists, Reclaiming
  <2> QED
    BY <1>1, <2>4, SoundElsewhere
<1>6. CASE Delete(b)
  <2>0. spec[b].phase # "deleting"
    BY <1>6 DEF Delete
  <2>1. \/ spec[b].fin /\ spec'[b].phase = "deleting" /\ spec'[b].fin
        \/ ~spec[b].fin /\ spec'[b].phase = "none" /\ ~spec'[b].fin
    BY <1>0, <1>6 DEF Delete, BucketObject, Spec0
  <2>2. Sound(b)'
    BY <1>0, <1>1, <2>0, <2>1 DEF Sound, Exists, Reclaiming
  <2> QED
    BY <1>1, <2>2, SoundElsewhere
<1> QED
  BY <1>3, <1>4, <1>5, <1>6

\* A call that fails.
LEMMA SoundFailed ==
    ASSUME TypeOK, AllSound, NEW b \in Bucket, Failed(b), UNCHANGED <<spec, status>>
    PROVE  AllSound'
<1>0. /\ Sound(b) /\ w[b] \in Worker /\ w[b].pc \in PC
      /\ w[b].snap.reclaim \in {"Retain", "Delete"}
  BY DEF TypeOK, AllSound, Worker, BucketObject
<1>1. CASE /\ w[b].pc \in {"lookup", "create", "quota", "entry", "update"}
           /\ w'[b] = [w[b] EXCEPT !.pc = "status", !.ok = FALSE]
  <2>1. w'[b].snap = w[b].snap /\ w'[b].pc = "status"
    BY <1>0, <1>1 DEF Worker
  <2>2. w[b].pc \in Ensuring /\ w'[b].pc \in Ensuring \ {"update"}
    BY <1>1, <2>1 DEF Ensuring
  <2> QED
    BY <1>0, <2>1, <2>2, FailedMoves, SoundMove, SoundElsewhere
<1>2. CASE /\ w[b].pc \in {"allow", "empty"}
           /\ w'[b] = [w[b] EXCEPT !.pc = "dropKey", !.ok = FALSE]
  <2>1. w'[b].snap = w[b].snap /\ w'[b].pc = "dropKey"
    BY <1>0, <1>2 DEF Worker
  <2>2. w[b].pc \in Reclaiming /\ w'[b].pc \in Destroying /\ w[b].snap.reclaim = "Delete"
    BY <1>0, <1>2, <2>1 DEF Reclaiming, Destroying, Sound
  <2> QED
    BY <1>0, <2>1, <2>2, FailedMoves, SoundMove, SoundElsewhere
<1>3. CASE w'[b] = Idle
  BY <1>0, <1>3, FailedMoves, SoundIdle, SoundElsewhere
<1> QED
  BY <1>1, <1>2, <1>3, FailedMoves

\* Every step preserves the invariant.
LEMMA SoundStep == TypeOK /\ AllSound /\ [Next]_vars => AllSound'
<1> SUFFICES ASSUME TypeOK, AllSound, [Next]_vars PROVE AllSound'
  OBVIOUS
<1>1. ASSUME NEW b \in Bucket, WorkerStep(b) PROVE AllSound'
  BY <1>1, SoundReconcile, SoundFinalizer, SoundEnsuring, SoundStatus, SoundReclaiming,
     SoundRelease DEF WorkerStep
<1>2. ASSUME NEW b \in Bucket, Admit(b) \/ Create(b) \/ Edit(b) \/ Delete(b) PROVE AllSound'
  BY <1>2, SoundUser
<1>3. ASSUME NEW b \in Bucket, CallFails(b) \/ AnswerLost(b) PROVE AllSound'
  BY <1>3, SoundFailed DEF CallFails, AnswerLost
<1>4. CASE Stop
  <2> SUFFICES ASSUME NEW b \in Bucket PROVE Sound(b)'
    BY DEF AllSound
  <2>1. Sound(b) /\ w'[b] = Idle /\ UNCHANGED <<spec, status>>
    BY <1>4 DEF Stop, AllSound
  <2> QED
    BY <2>1, SoundIdle
<1>5. CASE UNCHANGED <<spec, status, w>>
  BY <1>5 DEF AllSound, Sound, Exists
<1> QED
  BY <1>1, <1>2, <1>3, <1>4, <1>5 DEF Next, Put, ExtEdit, CredsLost, CredsBack, vars

-----------------------------------------------------------------------------
(* The theorems *)

\* Every reachable state of the bucket reconcilers (bucket_controller.go, EnsureBucket
\* and DeleteBucket of the drivers) is well typed and sound: nothing is provisioned
\* without a finalizer, and nothing destroyed but for a deleted Bucket of reclaim
\* policy Delete.
THEOREM BucketsInvariant == Spec => [](TypeOK /\ AllSound)
<1>1. Init => TypeOK /\ AllSound
  BY TypeInit, SoundInit
<1>2. TypeOK /\ AllSound /\ [Next]_vars => (TypeOK /\ AllSound)'
  BY TypeStep, SoundStep
<1> QED
  BY <1>1, <1>2, PTL DEF Spec

\* No step gives the finalizer to a second Bucket of a name.
LEMMA HolderStep == TypeOK /\ AllSound /\ OneHolder /\ [Next]_vars => OneHolder'
<1> SUFFICES ASSUME TypeOK, AllSound, OneHolder, [Next]_vars PROVE OneHolder'
  OBVIOUS
<1>0. spec \in [Bucket -> BucketObject]
  BY DEF TypeOK
<1>1. CASE \A b \in Bucket : spec'[b].fin => spec[b].fin
  BY <1>1 DEF OneHolder
<1>2. ASSUME NEW b \in Bucket, AddFinalizer(b) PROVE OneHolder'
  <2>1. CASE UNCHANGED spec
    BY <1>1, <2>1
  <2>2. CASE BucketValidate(b) /\ spec' = [spec EXCEPT ![b].fin = TRUE]
    <3>1. \A o \in Bucket \ {b} : NameOf[o] = NameOf[b] => ~spec[o].fin
      BY <2>2 DEF BucketValidate, AllSound, Sound
    <3>2. \A o \in Bucket \ {b} : spec'[o] = spec[o]
      BY <1>0, <2>2
    <3> QED
      BY <3>1, <3>2 DEF OneHolder
  <2> QED
    BY <1>2, <2>1, <2>2 DEF AddFinalizer
<1>3. ASSUME NEW b \in Bucket, Admit(b) \/ Create(b) \/ Edit(b) \/ Delete(b)
      PROVE  OneHolder'
  <2>1. \A o \in Bucket \ {b} : spec'[o] = spec[o]
    BY <1>0, <1>3 DEF Admit, Create, Edit, Delete
  <2>2. spec'[b].fin => spec[b].fin
    <3>0. spec[b] \in BucketObject
      BY <1>0
    <3>1. CASE Admit(b)
      BY <1>0, <3>1 DEF Admit, Spec0
    <3>2. CASE Create(b)
      BY <1>0, <3>0, <3>2 DEF Create, BucketObject
    <3>3. CASE Edit(b)
      <4>1. PICK x \in Wishes, r \in {"Retain", "Delete"} :
              spec' = [spec EXCEPT ![b].quota = x.quota, ![b].public = x.public,
                                   ![b].reclaim = r, ![b].gen = @ + 1]
        BY <3>3, Zenon DEF Edit
      <4> QED
        BY <1>0, <3>0, <4>1 DEF BucketObject
    <3>4. CASE Delete(b)
      BY <1>0, <3>0, <3>4 DEF Delete, BucketObject, Spec0
    <3> QED
      BY <1>3, <3>1, <3>2, <3>3, <3>4
  <2> QED
    BY <1>1, <2>1, <2>2
<1>4. ASSUME NEW b \in Bucket, RemoveFinalizer(b) PROVE OneHolder'
  <2>1. \A o \in Bucket : spec'[o] = spec[o] \/ ~spec'[o].fin
    <3>1. CASE UNCHANGED spec
      BY <3>1
    <3>2. CASE spec' = [spec EXCEPT ![b] = Spec0]
      BY <1>0, <3>2 DEF Spec0
    <3> QED
      BY <1>4, <3>1, <3>2 DEF RemoveFinalizer
  <2> QED
    BY <1>1, <2>1
<1>5. CASE UNCHANGED spec
  BY <1>1, <1>5
<1> QED
  BY <1>2, <1>3, <1>4, <1>5
     DEF Next, WorkerStep, Reconcile, Lookup, CreateBucket, ApplyQuota, LookupEntry,
         UpdateEntry, UpdateStatus, DeleteLookup, CreateKey, AllowKey, EmptyBucket, DropKey,
         DeleteBucket, CallFails, AnswerLost, Put, ExtEdit, Stop, CredsLost, CredsBack, vars

\* However many Buckets map to a name and whatever passes the webhook together, at
\* most one of them ever holds the finalizer without which nothing is provisioned.
THEOREM HolderUnique == Spec => []OneHolder
<1>1. Init => OneHolder
  BY DEF Init, OneHolder, Spec0
<1> QED
  BY <1>1, HolderStep, BucketsInvariant, PTL DEF Spec

\* Buckets that differ in their objects at most.
Alike(e, f) == e.there = f.there /\ e.size = f.size /\ e.count = f.count /\ e.ext = f.ext

\* A guarantee that stands stood before, and its own disturbance did not happen.
LEMMA GuaranteeStands ==
    ASSUME TypeOK, NEW d, Disturbance(d), NEW g, Kept(g)'
    PROVE  Kept(g) /\ g \notin Voids(d)
  BY DEF Disturbance, Kept

\* Every step leaves the driver alone, and what a disturbance ends does not come back.
LEMMA GuaranteesEnd ==
    ASSUME TypeOK, [Next]_vars
    PROVE  driver' = driver /\ \A g : Kept(g)' => Kept(g)
<1>1. UNCHANGED driver
  BY Zenon DEF Next, WorkerStep, Reconcile, AddFinalizer, Lookup, CreateBucket, ApplyQuota,
       LookupEntry, UpdateEntry, UpdateStatus, DeleteLookup, CreateKey, AllowKey, EmptyBucket,
       DropKey, DeleteBucket, RemoveFinalizer, Admit, Create, Edit, Delete, CallFails,
       AnswerLost, Put, ExtEdit, Stop, CredsLost, CredsBack, vars
<1>2. ASSUME NEW b \in Bucket, Edit(b) PROVE \E d : Disturbance(d)
  <2>1. PICK x \in Wishes, r \in {"Retain", "Delete"} :
          Disturbance(IF Destroys(b) /\ r = "Retain" THEN "racedPolicy" ELSE "edit")
    BY <1>2, Zenon DEF Edit
  <2> QED
    BY <2>1, Zenon
<1>3. UNCHANGED budget \/ \E d : Disturbance(d)
  BY <1>2, Zenon DEF Next, WorkerStep, Reconcile, AddFinalizer, Lookup, CreateBucket, ApplyQuota,
       LookupEntry, UpdateEntry, UpdateStatus, DeleteLookup, CreateKey, AllowKey, EmptyBucket,
       DropKey, DeleteBucket, RemoveFinalizer, Admit, Create, Delete, CallFails,
       AnswerLost, Put, ExtEdit, Stop, CredsLost, CredsBack, vars
<1> QED BY <1>1, <1>3, GuaranteeStands DEF Kept

About(b) ==
    \/ WorkerStep(b) \/ Admit(b) \/ Create(b) \/ Edit(b) \/ Delete(b)
    \/ CallFails(b) \/ AnswerLost(b) \/ Put(b)

\* A step about o leaves the other Buckets alone, and the bucket of a holder as well.
LEMMA OthersLeave ==
    ASSUME TypeOK, AllSound, OneHolder, NEW o \in Bucket, About(o),
           NEW b \in Bucket, b # o
    PROVE  /\ spec'[b] = spec[b] /\ status'[b] = status[b] /\ w'[b] = w[b]
           /\ spec[b].fin => Alike(Mine(b), backend'[NameOf[b]])
<1>0. /\ spec \in [Bucket -> BucketObject] /\ w \in [Bucket -> Worker]
      /\ status \in [Bucket -> StatusObject] /\ backend \in [Name -> BackendBucket]
      /\ NameOf[b] \in Name /\ NameOf[o] \in Name
  BY NameType DEF TypeOK, StatusObject
<1>1. spec'[b] = spec[b] /\ status'[b] = status[b]
  <2>1. CASE AddFinalizer(o) \/ RemoveFinalizer(o) \/ Admit(o) \/ Create(o) \/ Edit(o) \/ Delete(o)
    BY <1>0, <2>1 DEF AddFinalizer, RemoveFinalizer, Admit, Create, Edit, Delete
  <2>2. CASE UpdateStatus(o)
    BY <1>0, <2>2 DEF UpdateStatus
  <2>3. CASE UNCHANGED <<spec, status>>
    BY <2>3
  <2> QED BY <2>1, <2>2, <2>3, Zenon DEF About, WorkerStep, Reconcile, Lookup, CreateBucket, ApplyQuota,
       LookupEntry, UpdateEntry, DeleteLookup, CreateKey, AllowKey, EmptyBucket,
       DropKey, DeleteBucket, CallFails, AnswerLost, Put
<1>2. w'[b] = w[b]
  <2> USE <1>0 DEF Finish, Goto, Ensured, Provisioned
  <2>1. CASE Reconcile(o) \/ AddFinalizer(o) \/ Lookup(o) \/ CreateBucket(o)
    BY <2>1 DEF Reconcile, AddFinalizer, Lookup, CreateBucket
  <2>2. CASE ApplyQuota(o) \/ LookupEntry(o) \/ UpdateEntry(o) \/ UpdateStatus(o)
    BY <2>2 DEF ApplyQuota, LookupEntry, UpdateEntry, UpdateStatus
  <2>3. CASE DeleteLookup(o) \/ CreateKey(o) \/ AllowKey(o) \/ EmptyBucket(o)
    BY <2>3 DEF DeleteLookup, CreateKey, AllowKey, EmptyBucket
  <2>4. CASE DropKey(o) \/ DeleteBucket(o) \/ RemoveFinalizer(o)
    BY <2>4 DEF DropKey, DeleteBucket, RemoveFinalizer, Refused
  <2>5. CASE CallFails(o) \/ AnswerLost(o)
    BY <2>5, FailedMoves DEF CallFails, AnswerLost
  <2>6. CASE Admit(o) \/ Create(o) \/ Edit(o) \/ Delete(o) \/ Put(o)
    BY <2>6 DEF Admit, Create, Edit, Delete, Put
  <2> QED BY <2>1, <2>2, <2>3, <2>4, <2>5, <2>6 DEF About, WorkerStep
<1>3. ASSUME spec[b].fin PROVE Alike(Mine(b), backend'[NameOf[b]])
  <2>1. CASE UNCHANGED backend
    BY <2>1 DEF Alike, Mine
  <2>2. CASE Put(o)
    BY <1>0, <2>2 DEF Put, Alike, Mine, BackendBucket
  <2>3. CASE \/ CreateBucket(o) \/ ApplyQuota(o) \/ UpdateEntry(o) \/ EmptyBucket(o)
             \/ DeleteBucket(o) \/ (AnswerLost(o) /\ w[o].pc = "create")
    <3>1. w[o].pc \in Ensuring \cup Reclaiming
      BY <2>3 DEF CreateBucket, ApplyQuota, UpdateEntry, EmptyBucket, DeleteBucket, Ensuring,
             Reclaiming, Destroying
    <3>2. spec[o].fin
      BY <3>1 DEF AllSound, Sound
    <3>3. NameOf[b] # NameOf[o]
      BY <1>3, <3>2 DEF OneHolder
    <3>4. backend'[NameOf[b]] = backend[NameOf[b]]
      BY <1>0, <2>3, <3>3 DEF CreateBucket, ApplyQuota, UpdateEntry, EmptyBucket, DeleteBucket,
             AnswerLost
    <3> QED BY <3>4 DEF Alike, Mine
  <2>4. CASE AnswerLost(o) /\ w[o].pc # "create"
    BY <2>1, <2>4 DEF AnswerLost
  <2> QED BY <2>1, <2>2, <2>3, <2>4, Zenon DEF About, WorkerStep, Reconcile, AddFinalizer, Lookup,
       LookupEntry, UpdateStatus, DeleteLookup, CreateKey, AllowKey,
       DropKey, RemoveFinalizer, Admit, Create, Edit, Delete, CallFails
<1> QED BY <1>1, <1>2, <1>3

\* While its guarantee stands, a deletion that read Delete is of a Bucket that says so.
PolicyHeld ==
    Kept("policy") => \A b \in Bucket : Destroys(b) => spec[b].reclaim = "Delete"

\* A deletion is under way that was not before only when the Bucket was just read.
LEMMA DestroysBefore ==
    ASSUME TypeOK, AllSound, OneHolder, [Next]_vars, NEW b \in Bucket, Destroys(b)'
    PROVE  \/ Reconcile(b) /\ spec[b].reclaim = "Delete"
           \/ Destroys(b) /\ (spec'[b] = spec[b] \/ Edit(b))
<1>0. /\ w \in [Bucket -> Worker] /\ w[b] \in Worker /\ w[b].pc \in PC /\ queue \subseteq Bucket
      /\ spec \in [Bucket -> BucketObject] /\ Sound(b) /\ Idle.pc = "idle"
  BY IdleType DEF TypeOK, Worker, AllSound
<1>1. CASE w'[b] = w[b] /\ spec'[b] = spec[b]
  BY <1>1 DEF Destroys
<1>2. CASE Admit(b) \/ Create(b) \/ Edit(b) \/ Delete(b)
  <2>1. Destroys(b)
    BY <1>2 DEF Admit, Create, Edit, Delete, Destroys
  <2>2. spec[b].phase = "deleting"
    BY <1>0, <2>1 DEF Sound, Destroys, Reclaiming, Destroying
  <2> QED
    BY <1>2, <2>1, <2>2 DEF Admit, Create, Delete
<1>3. CASE Reconcile(b)
  <2>1. CASE w'[b] = w[b]
    BY <1>1, <1>3, <2>1 DEF Reconcile
  <2>2. CASE w'[b] = [Idle EXCEPT !.snap = spec[b], !.pc = ReconcilePC(b)]
    <3>1. w'[b].snap = spec[b]
      BY <2>2, IdleType DEF Worker
    <3> QED
      BY <1>3, <3>1 DEF Destroys
  <2> QED
    BY <1>3, <2>1, <2>2, ReconcileMoves
<1>4. CASE Put(b)
  BY <1>1, <1>4 DEF Put
<1>5. CASE w'[b].pc \in Ensuring \cup {"idle"}
  BY <1>5 DEF Destroys, Ensuring
<1>6. CASE w[b].pc \in Destroying \cup {"delLookup"} /\ w'[b].snap = w[b].snap /\ spec'[b] = spec[b]
  BY <1>6 DEF Destroys, Destroying
<1>7. CASE AddFinalizer(b) \/ UpdateStatus(b) \/ RemoveFinalizer(b)
  <2>1. w'[b] = Idle \/ w'[b] = Finalized(b)
    BY <1>0, <1>7, FinishMoves, FinalizerMoves DEF AddFinalizer, UpdateStatus, RemoveFinalizer
  <2>2. w'[b].pc = "idle" \/ w'[b].pc = AfterFinalizer(b)
    BY <1>0, <2>1 DEF Finalized, Worker
  <2> QED
    BY <1>5, <2>2, AfterEnsuring
<1>8. CASE Lookup(b) \/ CreateBucket(b) \/ ApplyQuota(b) \/ LookupEntry(b) \/ UpdateEntry(b)
  <2>1. w[b].pc \in Ensuring
    BY <1>8 DEF Lookup, CreateBucket, ApplyQuota, LookupEntry, UpdateEntry, Ensuring
  <2> QED
    BY <1>0, <1>5, <1>8, <2>1, EnsuringMoves
<1>9. CASE \/ DeleteLookup(b) \/ CreateKey(b) \/ AllowKey(b) \/ EmptyBucket(b)
           \/ DropKey(b) \/ DeleteBucket(b)
  BY <1>0, <1>5, <1>6, <1>9, ReclaimingMoves
<1>10. CASE CallFails(b) \/ AnswerLost(b)
  <2>1. Failed(b) /\ UNCHANGED spec
    BY <1>10 DEF CallFails, AnswerLost
  <2>2. CASE w'[b] = [w[b] EXCEPT !.pc = "status", !.ok = FALSE]
    BY <1>0, <1>5, <2>2 DEF Worker, Ensuring
  <2>3. CASE w[b].pc \in {"allow", "empty"} /\ w'[b] = [w[b] EXCEPT !.pc = "dropKey", !.ok = FALSE]
    BY <1>0, <1>6, <2>1, <2>3 DEF Worker, Destroying
  <2>4. CASE w'[b] = Idle
    BY <1>0, <1>5, <2>4
  <2> QED
    BY <2>1, <2>2, <2>3, <2>4, FailedMoves
<1>11. CASE Stop
  <2>1. w'[b] = Idle
    BY <1>11 DEF Stop
  <2> QED
    BY <1>0, <1>5, <2>1
<1>12. CASE \E o \in Bucket \ {b} : About(o)
  BY <1>1, <1>12, OthersLeave
<1>13. CASE (\E n \in Name : ExtEdit(n)) \/ CredsLost \/ CredsBack \/ UNCHANGED vars
  BY <1>1, <1>13 DEF ExtEdit, CredsLost, CredsBack, vars
<1> QED
  BY <1>2, <1>3, <1>4, <1>7, <1>8, <1>9, <1>10, <1>11, <1>12, <1>13 DEF Next, WorkerStep, About

\* An edit of the policy under a running deletion ends the guarantee.
LEMMA PolicyStep == TypeOK /\ AllSound /\ OneHolder /\ PolicyHeld /\ [Next]_vars => PolicyHeld'
<1> SUFFICES ASSUME TypeOK, AllSound, OneHolder, PolicyHeld, [Next]_vars, Kept("policy")',
                    NEW b \in Bucket, Destroys(b)'
             PROVE  spec'[b].reclaim = "Delete"
  BY DEF PolicyHeld
<1>0. Kept("policy") /\ spec \in [Bucket -> BucketObject] /\ spec[b] \in BucketObject
  BY GuaranteesEnd DEF TypeOK
<1>1. CASE Reconcile(b) /\ spec[b].reclaim = "Delete"
  BY <1>1 DEF Reconcile
<1>2. CASE Destroys(b) /\ spec'[b] = spec[b]
  BY <1>0, <1>2 DEF PolicyHeld
<1>3. CASE Destroys(b) /\ Edit(b)
  <2>1. PICK x \in Wishes, r \in {"Retain", "Delete"} :
          /\ Disturbance(IF Destroys(b) /\ r = "Retain" THEN "racedPolicy" ELSE "edit")
          /\ spec' = [spec EXCEPT ![b].quota = x.quota, ![b].public = x.public,
                                  ![b].reclaim = r, ![b].gen = @ + 1]
    BY <1>3, Zenon DEF Edit
  <2>2. r # "Retain"
    <3>1. ASSUME r = "Retain" PROVE FALSE
      <4>1. Disturbance("racedPolicy")
        BY <1>3, <2>1, <3>1
      <4>2. "policy" \notin Voids("racedPolicy")
        BY <4>1, GuaranteeStands
      <4> QED
        BY <4>2 DEF Voids
    <3> QED
      BY <3>1
  <2>3. spec'[b].reclaim = r
    BY <1>0, <2>1 DEF BucketObject
  <2> QED
    BY <2>2, <2>3
<1> QED
  BY <1>1, <1>2, <1>3, DestroysBefore

\* The policy a running deletion acts on is that of the Bucket, until it is edited
\* under it.
LEMMA PolicyIsHeld == Spec => []PolicyHeld
<1>1. Init => PolicyHeld
  BY DEF Init, PolicyHeld, Destroys, Idle
<1> QED
  BY <1>1, PolicyStep, BucketsInvariant, HolderUnique, PTL DEF Spec

\* The step DataKept allows, for one name.
Keeps(n) ==
    \/ ~backend[n].there
    \/ backend'[n].there /\ backend[n].objects \subseteq backend'[n].objects
    \/ /\ \E b \in Bucket :
            /\ NameOf[b] = n /\ Destroys(b) /\ spec[b].phase = "deleting"
            /\ spec[b].reclaim = "Delete" \/ ~Kept("policy")
       /\ \A b \in Bucket : NameOf[b] = n => ~(spec[b].phase = "live" /\ status[b].ready)

\* A worker that destroys is the worker of the one holder of the name.
LEMMA DestroyerAlone ==
    ASSUME TypeOK, AllSound, OneHolder, PolicyHeld, NEW b \in Bucket, w[b].pc \in Destroying,
           \A n \in Name \ {NameOf[b]} : backend'[n] = backend[n]
    PROVE  \A n \in Name : Keeps(n)
<1>1. Sound(b)
  BY DEF AllSound
<1>2. /\ spec[b].phase = "deleting" /\ spec[b].fin /\ Destroys(b)
      /\ spec[b].reclaim = "Delete" \/ ~Kept("policy")
  <2>1. spec[b].phase = "deleting" /\ spec[b].fin
    BY <1>1 DEF Sound, Reclaiming
  <2>2. Destroys(b)
    BY <1>1 DEF Sound, Destroying, Destroys
  <2> QED
    BY <2>1, <2>2 DEF PolicyHeld
<1>3. ASSUME NEW o \in Bucket, NameOf[o] = NameOf[b], spec[o].phase = "live", status[o].ready
      PROVE  FALSE
  <2>1. spec[o].fin
    BY <1>3 DEF AllSound, Sound
  <2>2. o = b
    BY <1>2, <1>3, <2>1 DEF OneHolder
  <2> QED
    BY <1>2, <1>3, <2>2
<1> SUFFICES ASSUME NEW n \in Name PROVE Keeps(n)
  OBVIOUS
<1>4. CASE n = NameOf[b]
  BY <1>2, <1>3, <1>4 DEF Keeps
<1>5. CASE n # NameOf[b]
  <2>1. backend'[n] = backend[n]
    BY <1>5
  <2>2. backend[n].there \in BOOLEAN
    BY DEF TypeOK, BackendBucket
  <2> QED
    BY <2>1, <2>2 DEF Keeps
<1> QED
  BY <1>4, <1>5

\* No step takes data away but for the holder's deletion.
LEMMA DataStep ==
    TypeOK /\ AllSound /\ OneHolder /\ PolicyHeld /\ [Next]_vars => \A n \in Name : Keeps(n)
<1> SUFFICES ASSUME TypeOK, AllSound, OneHolder, PolicyHeld, [Next]_vars
             PROVE  \A n \in Name : Keeps(n)
  OBVIOUS
<1>0. backend \in [Name -> BackendBucket] /\ w \in [Bucket -> Worker]
  BY DEF TypeOK
<1>1. CASE \A n \in Name : backend[n].there =>
               backend'[n].there /\ backend[n].objects \subseteq backend'[n].objects
  BY <1>1 DEF Keeps
<1>2. ASSUME NEW b \in Bucket, CreateBucket(b) \/ AnswerLost(b)
      PROVE  \A n \in Name : Keeps(n)
  <2>1. UNCHANGED backend \/ (~Mine(b).there /\ backend' = [backend EXCEPT ![NameOf[b]] = Created])
    BY <1>2 DEF CreateBucket, AnswerLost
  <2> QED
    BY <1>0, <1>1, <2>1 DEF Mine
<1>3. ASSUME NEW b \in Bucket, ApplyQuota(b) PROVE \A n \in Name : Keeps(n)
  <2>1. CASE UNCHANGED backend
    BY <1>1, <2>1
  <2>2. CASE ~UNCHANGED backend
    <3>1. PICK q : backend' = [backend EXCEPT ![NameOf[b]].size = q.size,
                                              ![NameOf[b]].count = q.count]
      BY <1>3, <2>2 DEF ApplyQuota
    <3>2. \A n \in Name : /\ backend'[n].there = backend[n].there
                         /\ backend'[n].objects = backend[n].objects
      BY <1>0, <3>1 DEF BackendBucket
    <3> QED
      BY <1>1, <3>2
  <2> QED
    BY <2>1, <2>2
<1>4. ASSUME NEW b \in Bucket, UpdateEntry(b) PROVE \A n \in Name : Keeps(n)
  <2>1. CASE UNCHANGED backend
    BY <1>1, <2>1
  <2>2. CASE ~UNCHANGED backend
    <3> DEFINE e == [WithQuota(w[b].entry, w[b].snap.quota.size) EXCEPT !.objects = Mine(b).objects]
    <3>1. backend' = [backend EXCEPT ![NameOf[b]] = e]
      BY <1>4, <2>2 DEF UpdateEntry
    <3>2. w[b].entry.there /\ w[b].entry \in BackendBucket
      BY <1>0, <1>4 DEF UpdateEntry, AllSound, Sound, Worker
    <3>3. e.there /\ e.objects = Mine(b).objects
      BY <3>2 DEF WithQuota, BackendBucket
    <3> HIDE DEF e
    <3> QED
      BY <1>0, <1>1, <3>1, <3>3 DEF Mine
  <2> QED
    BY <2>1, <2>2
<1>5. ASSUME NEW b \in Bucket, EmptyBucket(b) \/ DeleteBucket(b)
      PROVE  \A n \in Name : Keeps(n)
  <2>1. w[b].pc \in Destroying
    BY <1>5 DEF EmptyBucket, DeleteBucket, Destroying
  <2>2. \A n \in Name \ {NameOf[b]} : backend'[n] = backend[n]
    BY <1>0, <1>5 DEF EmptyBucket, DeleteBucket
  <2> QED
    BY <2>1, <2>2, DestroyerAlone
<1>6. ASSUME NEW b \in Bucket, Put(b) PROVE \A n \in Name : Keeps(n)
  <2>1. \A n \in Name : /\ backend'[n].there = backend[n].there
                       /\ backend[n].objects \subseteq backend'[n].objects
    BY <1>0, <1>6 DEF Put, BackendBucket
  <2> QED
    BY <1>1, <2>1
<1>7. ASSUME NEW m \in Name, ExtEdit(m) PROVE \A n \in Name : Keeps(n)
  <2>1. \A n \in Name : /\ backend'[n].there = backend[n].there
                       /\ backend'[n].objects = backend[n].objects
    BY <1>0, <1>7 DEF ExtEdit, BackendBucket
  <2> QED
    BY <1>1, <2>1
<1>8. CASE UNCHANGED backend
  BY <1>1, <1>8
<1> QED
  BY <1>2, <1>3, <1>4, <1>5, <1>6, <1>7, <1>8
     DEF Next, WorkerStep, Reconcile, AddFinalizer, Lookup, LookupEntry, UpdateStatus,
         DeleteLookup, CreateKey, AllowKey, DropKey, RemoveFinalizer, Admit, Create, Edit,
         Delete, CallFails, Stop, CredsLost, CredsBack, vars

\* For any Buckets, names and number of disturbances: objects go only by a reconcile of
\* the one holder of their bucket's name that read reclaim policy Delete, while that
\* Bucket is being deleted (and, unless the policy was edited during that reconcile,
\* still says Delete), and never from under another Bucket of that name that is Ready.
THEOREM DataIsKept == Spec => DataKept
<1>1. TypeOK /\ AllSound /\ OneHolder /\ PolicyHeld /\ [Next]_vars
        => [\A n \in Name : Keeps(n)]_vars
  BY DataStep
<1>2. Spec => [][\A n \in Name : Keeps(n)]_vars
  BY <1>1, BucketsInvariant, HolderUnique, PolicyIsHeld, PTL DEF Spec
<1> QED
  BY <1>2 DEF DataKept, Keeps

-----------------------------------------------------------------------------
(* What the status says, what the store does, and what is left behind *)

\* A quota that is left out has no limits.
WellFormed(q) == q.declared \/ (q.size = 0 /\ q.count = 0)

\* The limits of q that the driver can set are those of the bucket e.
InForce(q, e) ==
    /\ q.size # 0 => e.size = q.size
    /\ Garage /\ q.count # 0 => e.count = q.count

Supported(s) == ~s.public /\ (Garage \/ ~(s.quota.declared /\ s.quota.count # 0))

\* The status is no younger than the Bucket the worker read, and that one no younger than
\* the Bucket: a generation stands for a quota.
Dated(s, st, x) ==
    /\ WellFormed(s.quota) /\ WellFormed(x.snap.quota)
    /\ s.phase \in {"live", "deleting"} => st.obs <= s.gen
    /\ x.pc = "finalizer" => ~x.ok
    /\ x.pc \in Ensuring =>
         /\ st.obs <= x.snap.gen /\ x.snap.gen <= s.gen
         /\ x.snap.gen = s.gen => x.snap.quota = s.quota /\ x.snap.public = s.public

\* What the status promises of the bucket e in the store.
Promised(s, st, e) ==
    s.phase = "live" /\ st.ready =>
      /\ e.there
      /\ st.applied /\ st.obs = s.gen => Supported(s) /\ InForce(s.quota, e)

\* What the worker x has got done on the bucket e.
Underway(x, e) ==
    /\ x.pc \in {"entry", "update"} => ~Garage
    /\ x.pc \in {"quota", "entry", "update"} => e.there
    /\ x.pc = "status" /\ x.ok => e.there /\ InForce(x.snap.quota, e)
    /\ x.pc = "update" /\ Kept("entry") => x.entry.ext = e.ext
    /\ x.pc = "release" /\ x.snap.reclaim = "Delete" /\ Kept("creds") => ~e.there

Accounted(b) ==
    /\ Dated(spec[b], status[b], w[b])
    /\ Promised(spec[b], status[b], Mine(b))
    /\ Underway(w[b], Mine(b))

AllAccounted == (Kept("creds") => creds) /\ \A b \in Bucket : Accounted(b)

\* The fields of a worker that moves on.
LEMMA WorkerFields ==
    ASSUME NEW x \in Worker, NEW l, NEW ok \in BOOLEAN, NEW e
    PROVE  /\ [x EXCEPT !.pc = l, !.ok = ok].pc = l
           /\ [x EXCEPT !.pc = l, !.ok = ok].ok = ok
           /\ [x EXCEPT !.pc = l, !.ok = ok].snap = x.snap
           /\ [x EXCEPT !.pc = l].pc = l /\ [x EXCEPT !.pc = l].ok = x.ok
           /\ [x EXCEPT !.pc = l].snap = x.snap
           /\ [x EXCEPT !.entry = e, !.pc = l].pc = l
           /\ [x EXCEPT !.entry = e, !.pc = l].entry = e
           /\ [x EXCEPT !.entry = e, !.pc = l].snap = x.snap
  BY DEF Worker

\* A driver that names no unsupported feature supports what the Bucket asks for.
LEMMA SupportedFeatures ==
    ASSUME TypeOK, NEW s \in BucketObject
    PROVE  UnsupportedFeatures(s) = {} <=> Supported(s)
<1>1. CASE Garage
  <2>1. garageUnsupported(s) = {} <=> ~s.public
    BY DEF garageUnsupported, RequestedFeatures
  <2> QED BY <1>1, <2>1 DEF UnsupportedFeatures, Supported
<1>2. CASE ~Garage
  <2>1. seaweedFSUnsupported(s) = {} <=> ~s.public /\ ~(s.quota.declared /\ s.quota.count # 0)
    BY DEF seaweedFSUnsupported
  <2> QED BY <1>2, <2>1 DEF UnsupportedFeatures, Supported
<1> QED BY <1>1, <1>2

\* The initial states keep the accounts.
LEMMA AccountedInit == Init => AllAccounted
<1> SUFFICES ASSUME Init PROVE AllAccounted
  OBVIOUS
<1>1. creds
  BY DEF Init
<1>2. ASSUME NEW b \in Bucket PROVE Accounted(b)
  <2>1. spec[b] = Spec0 /\ status[b] = Status0 /\ w[b] = Idle
    BY DEF Init
  <2> QED
    BY <2>1 DEF Accounted, Dated, Promised, Underway, WellFormed, Spec0, Status0, Idle, NoQuota,
         Ensuring
<1> QED
  BY <1>1, <1>2 DEF AllAccounted

\* A Bucket that a step is not about keeps its accounts.
LEMMA AccountedElsewhere ==
    ASSUME TypeOK, [Next]_vars, NEW b \in Bucket, Sound(b), Accounted(b),
           spec'[b] = spec[b], status'[b] = status[b], w'[b] = w[b],
           spec[b].fin => Alike(Mine(b), backend'[NameOf[b]])
    PROVE  Accounted(b)'
<1>1. driver' = driver /\ \A g : Kept(g)' => Kept(g)
  BY GuaranteesEnd
<1>2. CASE spec[b].fin
  BY <1>1, <1>2 DEF Accounted, Dated, Promised, Underway, InForce, Supported, Garage, Mine, Alike
<1>3. CASE ~spec[b].fin
  <2>1. w[b].pc \notin Ensuring \cup Reclaiming
    BY <1>3 DEF Sound
  <2>2. ~(spec[b].phase = "live" /\ status[b].ready)
    BY <1>3 DEF Sound
  <2> QED
    BY <2>1, <2>2 DEF Accounted, Dated, Promised, Underway, Ensuring, Reclaiming
<1> QED
  BY <1>2, <1>3

\* A worker that ends leaves the accounts as they are.
LEMMA AccountedIdle ==
    ASSUME TypeOK, [Next]_vars, NEW b \in Bucket, Accounted(b),
           spec'[b] = spec[b], status'[b] = status[b], w'[b] = Idle,
           Alike(Mine(b), backend'[NameOf[b]])
    PROVE  Accounted(b)'
<1>1. driver' = driver
  BY GuaranteesEnd
<1>2. /\ Idle.pc = "idle" /\ WellFormed(Idle.snap.quota)
  BY DEF Idle, Spec0, NoQuota, WellFormed
<1>3. Dated(spec[b], status[b], Idle)
  BY <1>2 DEF Accounted, Dated, Ensuring
<1>4. Promised(spec[b], status[b], Mine(b))'
  BY <1>1 DEF Accounted, Promised, InForce, Supported, Garage, Mine, Alike
<1>5. Underway(w[b], Mine(b))'
  BY <1>2 DEF Underway
<1> QED
  BY <1>3, <1>4, <1>5 DEF Accounted, Dated

\* A worker that moves on with the same Bucket keeps its dates.
LEMMA DatedMove ==
    ASSUME NEW b \in Bucket, Dated(spec[b], status[b], w[b]),
           spec'[b] = spec[b], status'[b] = status[b],
           w'[b].snap = w[b].snap, w'[b].pc # "finalizer",
           w'[b].pc \in Ensuring => w[b].pc \in Ensuring
    PROVE  Dated(spec[b], status[b], w[b])'
BY DEF Dated

\* When there is no quota call to make, there is no limit to set.
LEMMA NothingToSet ==
    ASSUME NEW b \in Bucket, WellFormed(w[b].snap.quota), AfterBucket(b) = "status", NEW e
    PROVE  InForce(w[b].snap.quota, e)
<1>1. CASE Garage
  BY <1>1 DEF AfterBucket, WellFormed, InForce
<1>2. CASE ~Garage
  BY <1>2 DEF AfterBucket, WellFormed, InForce
<1> QED
  BY <1>1, <1>2

\* The bucket is found or made: what is left is the quota, if there is one to set.
LEMMA AccountedProvisioned ==
    ASSUME TypeOK, [Next]_vars, NEW b \in Bucket, Accounted(b), Provisioned(b),
           w[b].pc \in Ensuring, spec' = spec, status' = status,
           backend'[NameOf[b]].there,
           Alike(Mine(b), backend'[NameOf[b]]) \/ ~Mine(b).there
    PROVE  Accounted(b)'
<1>0. driver' = driver /\ w[b] \in Worker
  BY GuaranteesEnd DEF TypeOK
<1>1. w'[b] = [w[b] EXCEPT !.pc = AfterBucket(b), !.ok = TRUE]
  BY ProvisionedMoves DEF TypeOK
<1>2. w'[b].snap = w[b].snap /\ w'[b].pc = AfterBucket(b)
  BY <1>0, <1>1, WorkerFields
<1>3. AfterBucket(b) \in {"quota", "entry", "status"} /\ (AfterBucket(b) = "entry" => ~Garage)
  BY DEF AfterBucket
<1>4. Dated(spec[b], status[b], w[b])'
  <2>1. w'[b].pc # "finalizer"
    BY <1>2, <1>3
  <2> QED
    BY <1>2, <2>1, DatedMove DEF Accounted
<1>5. Promised(spec[b], status[b], Mine(b))'
  BY <1>0 DEF Accounted, Promised, InForce, Supported, Garage, Mine, Alike
<1>6. Underway(w[b], Mine(b))'
  <2>1. WellFormed(w[b].snap.quota)
    BY DEF Accounted, Dated
  <2>2. AfterBucket(b) = "status" => InForce(w[b].snap.quota, backend'[NameOf[b]])
    BY <2>1, NothingToSet
  <2> QED
    BY <1>0, <1>2, <1>3, <2>2 DEF Underway, InForce, Garage, Mine
<1> QED
  BY <1>4, <1>5, <1>6 DEF Accounted

\* EnsureBucket ends without having done its work.
LEMMA AccountedUnensured ==
    ASSUME TypeOK, [Next]_vars, NEW b \in Bucket, Accounted(b),
           w'[b] = [w[b] EXCEPT !.pc = "status", !.ok = FALSE],
           w[b].pc \in Ensuring, spec' = spec, status' = status,
           Alike(Mine(b), backend'[NameOf[b]]) \/ ~Mine(b).there
    PROVE  Accounted(b)'
<1>0. driver' = driver /\ w[b] \in Worker
  BY GuaranteesEnd DEF TypeOK
<1>2. w'[b].snap = w[b].snap /\ w'[b].pc = "status" /\ ~w'[b].ok
  BY <1>0, WorkerFields
<1>4. Dated(spec[b], status[b], w[b])'
  <2>1. w'[b].pc # "finalizer"
    BY <1>2
  <2> QED
    BY <1>2, <2>1, DatedMove DEF Accounted
<1>5. Promised(spec[b], status[b], Mine(b))'
  BY <1>0 DEF Accounted, Promised, InForce, Supported, Garage, Mine, Alike
<1>6. Underway(w[b], Mine(b))'
  BY <1>2 DEF Underway
<1> QED
  BY <1>4, <1>5, <1>6 DEF Accounted


\* The Bucket is read, and gets its finalizer.
LEMMA AccountedRead ==
    ASSUME TypeOK, [Next]_vars, NEW b \in Bucket, Sound(b), Accounted(b),
           Reconcile(b) \/ AddFinalizer(b)
    PROVE  Accounted(b)'
<1>0. /\ driver' = driver /\ w[b] \in Worker /\ spec[b] \in BucketObject
      /\ status' = status /\ backend' = backend
  BY GuaranteesEnd DEF TypeOK, Reconcile, AddFinalizer
<1>a. Alike(Mine(b), backend'[NameOf[b]])
  BY <1>0 DEF Alike, Mine
<1>1. CASE Reconcile(b)
  <2>0. spec' = spec
    BY <1>1 DEF Reconcile
  <2>1. CASE w'[b] = w[b]
    BY <1>0, <1>a, <2>0, <2>1, AccountedElsewhere
  <2>2. CASE Exists(b) /\ w'[b] = [Idle EXCEPT !.snap = spec[b], !.pc = ReconcilePC(b)]
    <3>1. w'[b].snap = spec[b] /\ ~w'[b].ok /\ w'[b].pc = ReconcilePC(b)
      BY <2>2 DEF Idle
    <3>2. ReconcilePC(b) \in {"delLookup", "finalizer", "lookup", "status"}
      BY Zenon DEF ReconcilePC, AfterFinalizer
    <3>3. Dated(spec[b], status[b], w[b])'
      BY <1>0, <2>0, <2>2, <3>1 DEF Accounted, Dated, Exists, BucketObject
    <3>4. Promised(spec[b], status[b], Mine(b))'
      BY <1>0, <2>0 DEF Accounted, Promised, InForce, Supported, Garage, Mine
    <3>5. Underway(w[b], Mine(b))'
      BY <3>1, <3>2 DEF Underway
    <3> QED
      BY <3>3, <3>4, <3>5 DEF Accounted
  <2> QED
    BY <1>1, <2>1, <2>2, ReconcileMoves
<1>2. CASE AddFinalizer(b)
  <2>1. CASE spec[b] = w[b].snap /\ BucketValidate(b)
    <3>1. /\ spec' = [spec EXCEPT ![b].fin = TRUE]
          /\ w' = [w EXCEPT ![b].snap.fin = TRUE, ![b].pc = AfterFinalizer(b)]
      BY <1>2, <2>1 DEF AddFinalizer
    <3>2. spec'[b] = [spec[b] EXCEPT !.fin = TRUE]
      BY <3>1 DEF TypeOK
    <3>3. w'[b] = Finalized(b)
      BY <3>1, FinalizerMoves
    <3>4. /\ spec'[b].phase = spec[b].phase /\ spec'[b].gen = spec[b].gen
          /\ spec'[b].quota = spec[b].quota /\ spec'[b].public = spec[b].public
      BY <1>0, <3>2 DEF BucketObject
    <3>5. /\ w'[b].snap.gen = w[b].snap.gen /\ w'[b].snap.quota = w[b].snap.quota
          /\ w'[b].snap.public = w[b].snap.public
          /\ w'[b].pc = AfterFinalizer(b) /\ w'[b].ok = w[b].ok
      BY <1>0, <3>3 DEF Finalized, Worker, BucketObject
    <3>6. AfterFinalizer(b) \in {"lookup", "status"}
      BY DEF AfterFinalizer
    <3>7. ~w[b].ok /\ spec[b].phase = "live" /\ spec[b].gen \in Nat
      BY <1>0, <1>2, <2>1 DEF AddFinalizer, Accounted, Dated, Sound, BucketObject
    <3>8. Dated(spec[b], status[b], w[b])'
      BY <1>0, <2>1, <3>4, <3>5, <3>6, <3>7 DEF Accounted, Dated
    <3>9. Promised(spec[b], status[b], Mine(b))'
      BY <1>0, <3>4 DEF Accounted, Promised, InForce, Supported, Garage, Mine
    <3>10. Underway(w[b], Mine(b))'
      BY <3>5, <3>6, <3>7 DEF Underway
    <3> QED
      BY <3>8, <3>9, <3>10 DEF Accounted
  <2>2. CASE ~(spec[b] = w[b].snap /\ BucketValidate(b))
    <3>1. spec' = spec /\ Finish(b, TRUE)
      BY <1>2, <2>2 DEF AddFinalizer
    <3>2. w'[b] = Idle
      BY <3>1, FinishMoves DEF TypeOK
    <3> QED
      BY <1>0, <1>a, <3>1, <3>2, AccountedIdle
  <2> QED
    BY <2>1, <2>2
<1> QED
  BY <1>1, <1>2

\* A quota is set: the status of the present generation, if there is one, is about it.
LEMMA AccountedQuota ==
    ASSUME TypeOK, [Next]_vars, NEW b \in Bucket, Accounted(b),
           w[b].pc \in Ensuring, spec' = spec, status' = status,
           w'[b] = [w[b] EXCEPT !.pc = "status", !.ok = TRUE],
           backend'[NameOf[b]].there, InForce(w[b].snap.quota, backend'[NameOf[b]])
    PROVE  Accounted(b)'
<1>0. /\ driver' = driver /\ w[b] \in Worker /\ w[b].snap \in BucketObject
      /\ spec[b] \in BucketObject /\ status[b] \in StatusObject
  BY GuaranteesEnd DEF TypeOK, Worker, StatusObject
<1>1. w'[b].snap = w[b].snap /\ w'[b].pc = "status"
  BY <1>0, WorkerFields
<1>2. Dated(spec[b], status[b], w[b])'
  <2>1. w'[b].pc # "finalizer"
    BY <1>1
  <2> QED
    BY <1>1, <2>1, DatedMove DEF Accounted
<1>3. status[b].obs = spec[b].gen => w[b].snap.quota = spec[b].quota
  <2>1. status[b].obs \in Nat /\ spec[b].gen \in Nat /\ w[b].snap.gen \in Nat
    BY <1>0 DEF StatusObject, BucketObject
  <2>2. /\ status[b].obs <= w[b].snap.gen /\ w[b].snap.gen <= spec[b].gen
        /\ w[b].snap.gen = spec[b].gen => w[b].snap.quota = spec[b].quota
    BY DEF Accounted, Dated
  <2> QED
    BY <2>1, <2>2
<1>4. Promised(spec[b], status[b], Mine(b))'
  BY <1>0, <1>3 DEF Accounted, Promised, InForce, Supported, Garage, Mine
<1>5. Underway(w[b], Mine(b))'
  BY <1>0, <1>1 DEF Underway, InForce, Garage, Mine
<1> QED
  BY <1>2, <1>4, <1>5 DEF Accounted

\* EnsureBucket, call by call.
LEMMA AccountedEnsure ==
    ASSUME TypeOK, [Next]_vars, NEW b \in Bucket, Sound(b), Accounted(b),
           \/ Lookup(b) \/ CreateBucket(b) \/ ApplyQuota(b) \/ LookupEntry(b) \/ UpdateEntry(b)
    PROVE  Accounted(b)'
<1>0. /\ driver' = driver /\ w \in [Bucket -> Worker] /\ w[b] \in Worker /\ NameOf[b] \in Name
      /\ spec' = spec /\ status' = status /\ backend \in [Name -> BackendBucket]
  BY GuaranteesEnd, NameType
     DEF TypeOK, Lookup, CreateBucket, ApplyQuota, LookupEntry, UpdateEntry
<1>a. w[b].pc \in Ensuring
  BY DEF Lookup, CreateBucket, ApplyQuota, LookupEntry, UpdateEntry, Ensuring
<1>b. UNCHANGED backend => Alike(Mine(b), backend'[NameOf[b]])
  BY DEF Alike, Mine
<1>c. ASSUME Ensured(b, FALSE), UNCHANGED backend PROVE Accounted(b)'
  <2>1. w'[b] = [w[b] EXCEPT !.pc = "status", !.ok = FALSE]
    BY <1>0, <1>c, EnsuredMoves
  <2> QED
    BY <1>0, <1>a, <1>b, <1>c, <2>1, AccountedUnensured
<1>d. ASSUME UNCHANGED backend, Mine(b).there, Provisioned(b) PROVE Accounted(b)'
  <2>1. backend'[NameOf[b]].there
    BY <1>d DEF Mine
  <2> QED
    BY <1>0, <1>a, <1>b, <1>d, <2>1, AccountedProvisioned
<1>1. CASE Lookup(b)
  <2>1. CASE Mine(b).there
    BY <1>1, <1>d, <2>1 DEF Lookup
  <2>2. CASE ~Mine(b).there
    <3>1. w'[b] = [w[b] EXCEPT !.pc = "create"]
      <4>1. "create" \in PC
        BY DEF PC
      <4> QED
        BY <1>0, <1>1, <2>2, <4>1, GotoMoves DEF Lookup
    <3>2. w'[b].pc = "create" /\ w'[b].snap = w[b].snap /\ backend' = backend
      BY <1>0, <1>1, <3>1, WorkerFields DEF Lookup
    <3>3. Dated(spec[b], status[b], w[b])'
      BY <1>0, <1>a, <3>2, DatedMove DEF Accounted
    <3>4. Promised(spec[b], status[b], Mine(b))'
      BY <1>0, <3>2 DEF Accounted, Promised, InForce, Supported, Garage, Mine
    <3>5. Underway(w[b], Mine(b))'
      BY <3>2 DEF Underway
    <3> QED
      BY <3>3, <3>4, <3>5 DEF Accounted
  <2> QED
    BY <2>1, <2>2
<1>2. CASE CreateBucket(b)
  <2>1. CASE Mine(b).there
    BY <1>2, <1>c, <1>d, <2>1 DEF CreateBucket
  <2>2. CASE ~Mine(b).there
    <3>1. backend' = [backend EXCEPT ![NameOf[b]] = Created] /\ Provisioned(b)
      BY <1>2, <2>2 DEF CreateBucket
    <3>2. backend'[NameOf[b]].there
      BY <1>0, <3>1 DEF Created, Absent
    <3> QED
      BY <1>0, <1>a, <2>2, <3>1, <3>2, AccountedProvisioned
  <2> QED
    BY <2>1, <2>2
<1>3. CASE ApplyQuota(b)
  <2>1. CASE ~Mine(b).there
    BY <1>3, <1>c, <2>1 DEF ApplyQuota
  <2>2. CASE Mine(b).there
    <3> DEFINE q == garageBucketQuotas(w[b].snap.quota)
    <3>1. /\ backend' = [backend EXCEPT ![NameOf[b]].size = q.size, ![NameOf[b]].count = q.count]
          /\ Ensured(b, TRUE)
      BY <1>3, <2>2 DEF ApplyQuota
    <3>2. /\ backend'[NameOf[b]].there /\ backend'[NameOf[b]].size = q.size
          /\ backend'[NameOf[b]].count = q.count
      BY <1>0, <2>2, <3>1 DEF BackendBucket, Mine
    <3>3. InForce(w[b].snap.quota, backend'[NameOf[b]])
      BY <3>2 DEF InForce, garageBucketQuotas
    <3>4. w'[b] = [w[b] EXCEPT !.pc = "status", !.ok = TRUE]
      BY <1>0, <3>1, EnsuredMoves
    <3> QED
      BY <1>0, <1>a, <3>2, <3>3, <3>4, AccountedQuota
  <2> QED
    BY <2>1, <2>2
<1>4. CASE LookupEntry(b)
  <2>1. CASE ~Mine(b).there
    BY <1>4, <1>c, <2>1 DEF LookupEntry
  <2>2. CASE Mine(b).there
    <3>1. w'[b] = [w[b] EXCEPT !.entry = Mine(b), !.pc = "update"]
      BY <1>4, <2>2, EntryMoves DEF LookupEntry
    <3>2. /\ w'[b].pc = "update" /\ w'[b].snap = w[b].snap /\ w'[b].entry = Mine(b)
          /\ backend' = backend
      BY <1>0, <1>4, <3>1, WorkerFields DEF LookupEntry
    <3>3. Dated(spec[b], status[b], w[b])'
      BY <1>0, <1>a, <3>2, DatedMove DEF Accounted
    <3>4. Promised(spec[b], status[b], Mine(b))'
      BY <1>0, <3>2 DEF Accounted, Promised, InForce, Supported, Garage, Mine
    <3>5. ~Garage
      BY <1>4 DEF LookupEntry, Accounted, Underway
    <3>6. Underway(w[b], Mine(b))'
      BY <1>0, <2>2, <3>2, <3>5 DEF Underway, Mine, Garage
    <3> QED
      BY <3>3, <3>4, <3>6 DEF Accounted
  <2> QED
    BY <2>1, <2>2
<1>5. CASE UpdateEntry(b)
  <2>1. CASE ~Mine(b).there
    BY <1>5, <1>c, <2>1 DEF UpdateEntry
  <2>2. CASE Mine(b).there
    <3> DEFINE e == [WithQuota(w[b].entry, w[b].snap.quota.size) EXCEPT !.objects = Mine(b).objects]
    <3>1. backend' = [backend EXCEPT ![NameOf[b]] = e] /\ Ensured(b, TRUE)
      BY <1>5, <2>2 DEF UpdateEntry
    <3>2. w[b].entry.there /\ w[b].entry \in BackendBucket /\ ~Garage
      BY <1>0, <1>5 DEF UpdateEntry, Sound, Worker, Accounted, Underway
    <3>3. e.there /\ e.size = w[b].snap.quota.size
      BY <3>2 DEF WithQuota, BackendBucket
    <3> HIDE DEF e
    <3>4. backend'[NameOf[b]] = e
      BY <1>0, <3>1
    <3>5. InForce(w[b].snap.quota, backend'[NameOf[b]])
      BY <3>2, <3>3, <3>4 DEF InForce
    <3>6. w'[b] = [w[b] EXCEPT !.pc = "status", !.ok = TRUE]
      BY <1>0, <3>1, EnsuredMoves
    <3> QED
      BY <1>0, <1>a, <3>3, <3>4, <3>5, <3>6, AccountedQuota
  <2> QED
    BY <2>1, <2>2
<1> QED
  BY <1>1, <1>2, <1>3, <1>4, <1>5


\* The status says what EnsureBucket came to, of the Bucket as it was read.
LEMMA AccountedStatus ==
    ASSUME TypeOK, [Next]_vars, NEW b \in Bucket, Sound(b), Accounted(b), UpdateStatus(b)
    PROVE  Accounted(b)'
<1>0. /\ driver' = driver /\ w[b] \in Worker /\ w[b].snap \in BucketObject
      /\ spec[b] \in BucketObject /\ status[b] \in StatusObject /\ w[b].pc = "status"
      /\ spec' = spec /\ backend' = backend /\ status \in [Bucket -> StatusObject]
  BY GuaranteesEnd DEF TypeOK, Worker, StatusObject, UpdateStatus
<1>1. w'[b] = Idle
  <2>1. Finish(b, ~w[b].ok) /\ (~w[b].ok) \in BOOLEAN
    BY <1>0 DEF UpdateStatus, Worker
  <2> QED
    BY <2>1, FinishMoves DEF TypeOK
<1>2. Exists(b)
  BY <1>0 DEF Sound, Ensuring
<1>3. /\ status'[b].ready <=> w[b].ok
      /\ status'[b].obs = w[b].snap.gen
      /\ w[b].ok => (status'[b].applied <=> UnsupportedFeatures(w[b].snap) = {})
  <2>1. ASSUME NEW a \in BOOLEAN, NEW r \in BOOLEAN, NEW g \in Nat
        PROVE  /\ [status[b] EXCEPT !.ready = r, !.obs = g, !.applied = a].ready = r
               /\ [status[b] EXCEPT !.ready = r, !.obs = g, !.applied = a].obs = g
               /\ [status[b] EXCEPT !.ready = r, !.obs = g, !.applied = a].applied = a
    BY <1>0 DEF StatusObject
  <2> DEFINE a == IF w[b].ok THEN UnsupportedFeatures(w[b].snap) = {} ELSE status[b].applied
  <2>2. a \in BOOLEAN /\ w[b].ok \in BOOLEAN /\ w[b].snap.gen \in Nat
    BY <1>0 DEF Worker, BucketObject, StatusObject
  <2>3. w[b].ok => (a <=> UnsupportedFeatures(w[b].snap) = {})
    OBVIOUS
  <2>4. status'[b] = [status[b] EXCEPT !.ready = w[b].ok, !.obs = w[b].snap.gen, !.applied = a]
    BY <1>0, <1>2 DEF UpdateStatus, ObservedGeneration
  <2> HIDE DEF a
  <2>5. /\ status'[b].ready = w[b].ok /\ status'[b].obs = w[b].snap.gen /\ status'[b].applied = a
    BY <2>1, <2>2, <2>4
  <2> QED
    BY <2>2, <2>3, <2>5
<1>4. /\ w[b].snap.gen <= spec[b].gen
      /\ w[b].snap.gen = spec[b].gen => w[b].snap.quota = spec[b].quota
                                        /\ w[b].snap.public = spec[b].public
  BY <1>0 DEF Accounted, Dated, Ensuring
<1>5. Idle.pc = "idle" /\ WellFormed(Idle.snap.quota)
  BY DEF Idle, Spec0, NoQuota, WellFormed
<1>6. Dated(spec[b], status[b], w[b])'
  BY <1>0, <1>1, <1>3, <1>4, <1>5 DEF Accounted, Dated, Ensuring
<1>7. Promised(spec[b], status[b], Mine(b))'
  <2>1. UnsupportedFeatures(w[b].snap) = {} <=> Supported(w[b].snap)
    BY <1>0, SupportedFeatures
  <2>2. w[b].ok => Mine(b).there /\ InForce(w[b].snap.quota, Mine(b))
    BY <1>0 DEF Accounted, Underway
  <2> QED
    BY <1>0, <1>3, <1>4, <2>1, <2>2 DEF Promised, InForce, Supported, Garage, Mine
<1>8. Underway(w[b], Mine(b))'
  BY <1>1, <1>5 DEF Underway
<1> QED
  BY <1>6, <1>7, <1>8 DEF Accounted

\* A step of DeleteBucket that does not yet let go of the Bucket, or only without a bucket.
LEMMA AccountedReclaimMove ==
    ASSUME TypeOK, [Next]_vars, NEW b \in Bucket, Sound(b), Accounted(b),
           w[b].pc \in Reclaiming, spec' = spec, status' = status,
           w'[b].snap = w[b].snap, w'[b].pc \in Reclaiming,
           w'[b].pc = "release" /\ w[b].snap.reclaim = "Delete" /\ Kept("creds")'
             => ~backend'[NameOf[b]].there
    PROVE  Accounted(b)'
<1>1. spec[b].phase = "deleting"
  BY DEF Sound
<1>2. /\ w'[b].pc # "finalizer" /\ w'[b].pc \notin Ensuring
      /\ w'[b].pc \notin {"quota", "entry", "update", "status"}
  BY DEF Reclaiming, Destroying, Ensuring
<1>3. Dated(spec[b], status[b], w[b])'
  BY <1>2, DatedMove DEF Accounted
<1>4. Promised(spec[b], status[b], Mine(b))'
  BY <1>1 DEF Promised
<1>5. Underway(w[b], Mine(b))'
  BY <1>2 DEF Underway, Mine
<1> QED
  BY <1>3, <1>4, <1>5 DEF Accounted

\* A worker that ends while its Bucket is being deleted.
LEMMA AccountedReclaimEnd ==
    ASSUME TypeOK, [Next]_vars, NEW b \in Bucket, Sound(b), Accounted(b),
           w[b].pc \in Reclaiming, spec' = spec, status' = status, w'[b] = Idle
    PROVE  Accounted(b)'
<1>1. spec[b].phase = "deleting"
  BY DEF Sound
<1>2. Idle.pc = "idle" /\ WellFormed(Idle.snap.quota)
  BY DEF Idle, Spec0, NoQuota, WellFormed
<1> QED
  BY <1>1, <1>2 DEF Accounted, Dated, Promised, Underway, Ensuring

\* DeleteBucket, call by call.
LEMMA AccountedReclaim ==
    ASSUME TypeOK, [Next]_vars, NEW b \in Bucket, Sound(b), Accounted(b),
           Kept("creds") => creds,
           \/ DeleteLookup(b) \/ CreateKey(b) \/ AllowKey(b) \/ EmptyBucket(b) \/ DropKey(b)
           \/ DeleteBucket(b)
    PROVE  Accounted(b)'
<1>0. /\ w \in [Bucket -> Worker] /\ w[b] \in Worker /\ NameOf[b] \in Name
      /\ spec' = spec /\ status' = status /\ backend \in [Name -> BackendBucket]
      /\ queue \subseteq Bucket
  BY NameType
     DEF TypeOK, DeleteLookup, CreateKey, AllowKey, EmptyBucket, DropKey, DeleteBucket
<1>a. w[b].pc \in Reclaiming
  BY DEF DeleteLookup, CreateKey, AllowKey, EmptyBucket, DropKey, DeleteBucket, Reclaiming,
         Destroying
<1>b. ASSUME NEW l \in Reclaiming, Goto(b, l) \/ \E ok \in BOOLEAN : w' = [w EXCEPT ![b].pc = l, ![b].ok = ok],
             l = "release" /\ w[b].snap.reclaim = "Delete" /\ Kept("creds")'
               => ~backend'[NameOf[b]].there
      PROVE  Accounted(b)'
  <2>0. l \in PC
    BY DEF Reclaiming, Destroying, PC
  <2>1. \/ w'[b] = [w[b] EXCEPT !.pc = l]
        \/ \E ok \in BOOLEAN : w'[b] = [w[b] EXCEPT !.pc = l, !.ok = ok]
    BY <1>0, <1>b, <2>0, GotoMoves, GotoOkMoves
  <2>2. w'[b].snap = w[b].snap /\ w'[b].pc = l
    <3>1. CASE w'[b] = [w[b] EXCEPT !.pc = l]
      BY <1>0, <3>1, WorkerFields
    <3>2. ASSUME NEW ok \in BOOLEAN, w'[b] = [w[b] EXCEPT !.pc = l, !.ok = ok]
          PROVE  w'[b].snap = w[b].snap /\ w'[b].pc = l
      BY <1>0, <3>2, WorkerFields
    <3> QED
      BY <2>1, <3>1, <3>2
  <2> QED
    BY <1>0, <1>a, <1>b, <2>2, AccountedReclaimMove
<1>c. ASSUME Finish(b, TRUE) PROVE Accounted(b)'
  <2>1. w'[b] = Idle
    BY <1>0, <1>c, FinishMoves
  <2> QED
    BY <1>0, <1>a, <2>1, AccountedReclaimEnd
<1>d. {"mkKey", "allow", "empty", "dropKey", "delete", "release"} \subseteq Reclaiming
  BY DEF Reclaiming, Destroying
<1>1. CASE DeleteLookup(b)
  <2> DEFINE l == IF w[b].snap.reclaim = "Retain" \/ ~creds \/ ~Mine(b).there THEN "release"
                  ELSE IF Garage THEN "mkKey" ELSE "empty"
  <2>1. Goto(b, l) /\ UNCHANGED <<backend, budget>>
    BY <1>1 DEF DeleteLookup
  <2>2. l \in Reclaiming
    BY <1>d
  <2>3. l = "release" /\ w[b].snap.reclaim = "Delete" /\ Kept("creds")'
          => ~backend'[NameOf[b]].there
    BY <2>1 DEF Mine, Kept
  <2> HIDE DEF l
  <2> QED
    BY <1>b, <2>1, <2>2, <2>3
<1>2. CASE CreateKey(b)
  BY <1>2, <1>b, <1>d DEF CreateKey
<1>3. CASE AllowKey(b)
  BY <1>3, <1>b, <1>d DEF AllowKey
<1>4. CASE EmptyBucket(b)
  <2>1. CASE Garage
    BY <1>4, <1>b, <1>d, <2>1 DEF EmptyBucket
  <2>2. CASE ~Garage
    BY <1>4, <1>b, <1>d, <2>2 DEF EmptyBucket
  <2> QED
    BY <2>1, <2>2
<1>5. CASE DropKey(b)
  BY <1>5, <1>b, <1>c, <1>d DEF DropKey
<1>6. CASE DeleteBucket(b)
  <2>1. CASE Refuses(b)
    BY <1>6, <1>c, <2>1 DEF DeleteBucket, Refused
  <2>2. CASE ~Refuses(b)
    <3>1. backend' = [backend EXCEPT ![NameOf[b]] = Absent] /\ Goto(b, "release")
      BY <1>6, <2>2 DEF DeleteBucket
    <3>2. ~backend'[NameOf[b]].there
      BY <1>0, <3>1 DEF Absent
    <3> QED
      BY <1>b, <1>d, <3>1, <3>2
  <2> QED
    BY <2>1, <2>2
<1> QED
  BY <1>1, <1>2, <1>3, <1>4, <1>5, <1>6

\* The Bucket is let go.
LEMMA AccountedRelease ==
    ASSUME TypeOK, [Next]_vars, NEW b \in Bucket, Sound(b), Accounted(b), RemoveFinalizer(b)
    PROVE  Accounted(b)'
<1>0. status' = status /\ w[b].pc \in Reclaiming
  BY DEF RemoveFinalizer, Reclaiming
<1>1. w'[b] = Idle
  BY FinishMoves DEF RemoveFinalizer, TypeOK
<1>2. CASE spec' = spec
  BY <1>0, <1>1, <1>2, AccountedReclaimEnd
<1>3. CASE spec' = [spec EXCEPT ![b] = Spec0]
  <2>1. spec'[b] = Spec0
    BY <1>3 DEF TypeOK
  <2> QED
    BY <1>1, <2>1 DEF Accounted, Dated, Promised, Underway, WellFormed, Spec0, Idle, NoQuota,
         Ensuring
<1> QED
  BY <1>2, <1>3 DEF RemoveFinalizer


\* The steps of users and of the API server: a new generation is one no status is of yet.
LEMMA AccountedUser ==
    ASSUME TypeOK, [Next]_vars, NEW b \in Bucket, Sound(b), Accounted(b),
           Admit(b) \/ Create(b) \/ Edit(b) \/ Delete(b)
    PROVE  Accounted(b)'
<1>0. /\ driver' = driver /\ w' = w /\ backend' = backend /\ w[b] \in Worker
      /\ w[b].snap \in BucketObject /\ spec \in [Bucket -> BucketObject]
      /\ spec[b] \in BucketObject /\ status \in [Bucket -> StatusObject]
      /\ status[b] \in StatusObject /\ \A g : Kept(g)' => Kept(g)
  BY GuaranteesEnd DEF TypeOK, Worker, StatusObject, Admit, Create, Edit, Delete
<1>a. spec[b].gen \in Nat /\ w[b].snap.gen \in Nat /\ status[b].obs \in Nat
  BY <1>0 DEF BucketObject, StatusObject
<1>b. Underway(w[b], Mine(b))'
  BY <1>0 DEF Accounted, Underway, InForce, Garage, Mine
<1>1. CASE Admit(b)
  <2>1. PICK q \in {NoQuota, Limits(1, 0)}, r \in {"Retain", "Delete"} :
          spec' = [spec EXCEPT ![b] = [Spec0 EXCEPT !.phase = "admitted", !.gen = 1,
                                                    !.quota = q, !.reclaim = r]]
    BY <1>1 DEF Admit
  <2>2. spec'[b].phase = "admitted" /\ spec'[b].quota = q /\ status' = status
    BY <1>0, <1>1, <2>1 DEF Spec0, Admit
  <2>3. WellFormed(q)
    BY DEF WellFormed, NoQuota, Limits
  <2>4. w[b].pc \notin Ensuring
    BY <1>1 DEF Admit, Sound, Exists
  <2>5. Dated(spec[b], status[b], w[b])'
    BY <1>0, <2>2, <2>3, <2>4 DEF Accounted, Dated
  <2>6. Promised(spec[b], status[b], Mine(b))'
    BY <2>2 DEF Promised
  <2> QED
    BY <1>b, <2>5, <2>6 DEF Accounted
<1>2. CASE Create(b)
  <2>1. spec'[b] = [spec[b] EXCEPT !.phase = "live"] /\ status'[b] = Status0
    BY <1>0, <1>2 DEF Create
  <2>2. /\ spec'[b].phase = "live" /\ spec'[b].quota = spec[b].quota /\ spec'[b].gen = spec[b].gen
        /\ status'[b].obs = 0 /\ ~status'[b].ready
    BY <1>0, <2>1 DEF BucketObject, Status0
  <2>3. w[b].pc \notin Ensuring
    BY <1>2 DEF Create, Sound, Exists
  <2>4. Dated(spec[b], status[b], w[b])'
    BY <1>0, <1>a, <2>2, <2>3 DEF Accounted, Dated
  <2>5. Promised(spec[b], status[b], Mine(b))'
    BY <2>2 DEF Promised
  <2> QED
    BY <1>b, <2>4, <2>5 DEF Accounted
<1>3. CASE Edit(b)
  <2>1. PICK x \in Wishes, r \in {"Retain", "Delete"} :
          spec' = [spec EXCEPT ![b].quota = x.quota, ![b].public = x.public,
                               ![b].reclaim = r, ![b].gen = @ + 1]
    BY <1>3, Zenon DEF Edit
  <2>2. WellFormed(x.quota)
    BY BucketsAssumption DEF WellFormed, NoQuota
  <2>3. spec'[b] = [spec[b] EXCEPT !.quota = x.quota, !.public = x.public,
                                   !.reclaim = r, !.gen = spec[b].gen + 1]
    BY <1>0, <2>1
  <2>4. /\ spec'[b].phase = spec[b].phase /\ spec'[b].quota = x.quota
        /\ spec'[b].gen = spec[b].gen + 1 /\ status' = status
    BY <1>0, <1>3, <2>3 DEF BucketObject, Edit
  <2>5. spec[b].phase \in {"live", "deleting"}
    BY <1>3 DEF Edit, Exists
  <2>6. status[b].obs <= spec[b].gen
    BY <2>5 DEF Accounted, Dated
  <2>7. w[b].pc \in Ensuring => status[b].obs <= w[b].snap.gen /\ w[b].snap.gen <= spec[b].gen
    BY DEF Accounted, Dated
  <2>8. Dated(spec[b], status[b], w[b])'
    BY <1>0, <1>a, <2>2, <2>4, <2>6, <2>7 DEF Accounted, Dated
  <2>9. Promised(spec[b], status[b], Mine(b))'
    BY <1>0, <1>a, <2>4, <2>5, <2>6 DEF Accounted, Promised, Mine
  <2> QED
    BY <1>b, <2>8, <2>9 DEF Accounted
<1>4. CASE Delete(b)
  <2>0. status' = status /\ spec[b].phase = "live"
    BY <1>4 DEF Delete
  <2>1. CASE spec[b].fin
    <3>1. spec'[b] = [spec[b] EXCEPT !.phase = "deleting", !.gen = spec[b].gen + 1]
      BY <1>0, <1>4, <2>1 DEF Delete
    <3>2. /\ spec'[b].phase = "deleting" /\ spec'[b].quota = spec[b].quota
          /\ spec'[b].gen = spec[b].gen + 1
      BY <1>0, <3>1 DEF BucketObject
    <3>3. status[b].obs <= spec[b].gen
      BY <2>0 DEF Accounted, Dated
    <3>4. w[b].pc \in Ensuring => status[b].obs <= w[b].snap.gen /\ w[b].snap.gen <= spec[b].gen
      BY DEF Accounted, Dated
    <3>5. Dated(spec[b], status[b], w[b])'
      BY <1>0, <1>a, <2>0, <3>2, <3>3, <3>4 DEF Accounted, Dated
    <3>6. Promised(spec[b], status[b], Mine(b))'
      BY <3>2 DEF Promised
    <3> QED
      BY <1>b, <3>5, <3>6 DEF Accounted
  <2>2. CASE ~spec[b].fin
    <3>1. spec'[b] = Spec0
      BY <1>0, <1>4, <2>2 DEF Delete
    <3>2. w[b].pc \notin Ensuring
      BY <2>2 DEF Sound
    <3>a. spec'[b].phase = "none" /\ WellFormed(spec'[b].quota)
      BY <3>1 DEF Spec0, WellFormed, NoQuota
    <3>3. Dated(spec[b], status[b], w[b])'
      BY <1>0, <3>a, <3>2 DEF Accounted, Dated
    <3>4. Promised(spec[b], status[b], Mine(b))'
      BY <3>1 DEF Promised, Spec0
    <3> QED
      BY <1>b, <3>3, <3>4 DEF Accounted
  <2> QED
    BY <2>1, <2>2
<1> QED
  BY <1>1, <1>2, <1>3, <1>4

\* A call fails, or its answer is lost: the bucket made meanwhile is no one's promise.
LEMMA AccountedFailed ==
    ASSUME TypeOK, [Next]_vars, NEW b \in Bucket, Sound(b), Accounted(b),
           CallFails(b) \/ AnswerLost(b)
    PROVE  Accounted(b)'
<1>0. /\ driver' = driver /\ spec' = spec /\ status' = status /\ w[b] \in Worker
      /\ backend \in [Name -> BackendBucket] /\ NameOf[b] \in Name
  BY GuaranteesEnd, NameType DEF TypeOK, CallFails, AnswerLost
<1>1. \/ UNCHANGED backend
      \/ /\ w[b].pc = "create" /\ ~Mine(b).there
         /\ backend' = [backend EXCEPT ![NameOf[b]] = Created]
  BY DEF CallFails, AnswerLost
<1>2. Alike(Mine(b), backend'[NameOf[b]]) \/ ~Mine(b).there
  BY <1>1 DEF Alike, Mine
<1>3. Failed(b)
  BY DEF CallFails, AnswerLost
<1>4. CASE /\ w[b].pc \in {"lookup", "create", "quota", "entry", "update"}
           /\ w'[b] = [w[b] EXCEPT !.pc = "status", !.ok = FALSE]
  <2>1. w[b].pc \in Ensuring
    BY <1>4 DEF Ensuring
  <2> QED
    BY <1>0, <1>2, <1>4, <2>1, AccountedUnensured
<1>5. CASE /\ w[b].pc \in {"allow", "empty"}
           /\ w'[b] = [w[b] EXCEPT !.pc = "dropKey", !.ok = FALSE]
  <2>1. w'[b].snap = w[b].snap /\ w'[b].pc = "dropKey"
    BY <1>0, <1>5, WorkerFields
  <2>2. w[b].pc \in Reclaiming /\ w'[b].pc \in Reclaiming /\ w'[b].pc # "release"
    BY <1>5, <2>1 DEF Reclaiming, Destroying
  <2> QED
    BY <1>0, <2>1, <2>2, AccountedReclaimMove
<1>6. CASE w'[b] = Idle
  <2>1. CASE Alike(Mine(b), backend'[NameOf[b]])
    BY <1>0, <1>6, <2>1, AccountedIdle
  <2>2. CASE ~Mine(b).there
    <3>1. Idle.pc = "idle" /\ WellFormed(Idle.snap.quota)
      BY DEF Idle, Spec0, NoQuota, WellFormed
    <3> QED
      BY <1>0, <1>6, <2>2, <3>1 DEF Accounted, Dated, Promised, Underway, Ensuring
  <2> QED
    BY <1>2, <2>1, <2>2
<1> QED
  BY <1>3, <1>4, <1>5, <1>6, FailedMoves

\* A step keeps the accounts of the Bucket it is about.
LEMMA AccountedAbout ==
    ASSUME TypeOK, [Next]_vars, NEW b \in Bucket, Sound(b), Accounted(b),
           Kept("creds") => creds, About(b)
    PROVE  Accounted(b)'
<1>1. CASE Put(b)
  <2>1. spec' = spec /\ status' = status /\ w' = w
    BY <1>1 DEF Put
  <2>2. Alike(Mine(b), backend'[NameOf[b]])
    BY <1>1, NameType DEF TypeOK, Put, Alike, Mine, BackendBucket
  <2> QED
    BY <2>1, <2>2, AccountedElsewhere
<1> QED
  BY <1>1, AccountedRead, AccountedEnsure, AccountedStatus, AccountedReclaim, AccountedRelease,
     AccountedUser, AccountedFailed DEF About, WorkerStep

\* Every step keeps the accounts of every Bucket.
LEMMA AccountedStep == TypeOK /\ AllSound /\ OneHolder /\ AllAccounted /\ [Next]_vars => AllAccounted'
<1> SUFFICES ASSUME TypeOK, AllSound, OneHolder, AllAccounted, [Next]_vars PROVE AllAccounted'
  OBVIOUS
<1>0. \A b \in Bucket : Sound(b) /\ Accounted(b)
  BY DEF AllSound, AllAccounted
<1>1. (Kept("creds") => creds)'
  <2>1. Kept("creds")' => Kept("creds")
    BY GuaranteesEnd
  <2>2. CASE CredsLost
    <3>1. Disturbance("credsLost") /\ "creds" \in Voids("credsLost")
      BY <2>2 DEF CredsLost, Voids
    <3> QED
      BY <3>1, GuaranteeStands
  <2>3. CASE CredsBack
    BY <2>3 DEF CredsBack
  <2>4. CASE UNCHANGED creds
    BY <2>1, <2>4 DEF AllAccounted
  <2> QED
    BY <2>2, <2>3, <2>4, Zenon DEF Next, WorkerStep, Reconcile, AddFinalizer, Lookup, CreateBucket,
       ApplyQuota, LookupEntry, UpdateEntry, UpdateStatus, DeleteLookup, CreateKey, AllowKey,
       EmptyBucket, DropKey, DeleteBucket, RemoveFinalizer, Admit, Create, Edit, Delete, CallFails,
       AnswerLost, Put, ExtEdit, Stop, vars
<1>2. ASSUME NEW b \in Bucket PROVE Accounted(b)'
  <2>0. Sound(b) /\ Accounted(b) /\ (Kept("creds") => creds)
    BY <1>0 DEF AllAccounted
  <2>1. ASSUME NEW o \in Bucket, About(o) PROVE Accounted(b)'
    <3>1. CASE o = b
      BY <2>0, <2>1, <3>1, AccountedAbout
    <3>2. CASE o # b
      BY <2>0, <2>1, <3>2, OthersLeave, AccountedElsewhere
    <3> QED
      BY <3>1, <3>2
  <2>2. ASSUME NEW n \in Name, ExtEdit(n) PROVE Accounted(b)'
    <3>0. /\ spec' = spec /\ status' = status /\ w' = w /\ backend \in [Name -> BackendBucket]
          /\ NameOf[b] \in Name
      BY <2>2, NameType DEF ExtEdit, TypeOK
    <3>1. CASE n # NameOf[b]
      <4>1. Alike(Mine(b), backend'[NameOf[b]])
        BY <2>2, <3>0, <3>1 DEF ExtEdit, Alike, Mine
      <4> QED
        BY <2>0, <3>0, <4>1, AccountedElsewhere
    <3>2. CASE n = NameOf[b]
      <4>1. driver' = driver /\ \A g : Kept(g)' => Kept(g)
        BY GuaranteesEnd
      <4>2. /\ backend'[NameOf[b]].there = Mine(b).there
            /\ backend'[NameOf[b]].size = Mine(b).size /\ backend'[NameOf[b]].count = Mine(b).count
        BY <2>2, <3>0, <3>2 DEF ExtEdit, Mine, BackendBucket
      <4>3. w[b].pc = "update" => ~Kept("entry")'
        <5>1. SUFFICES ASSUME w[b].pc = "update" PROVE ~Kept("entry")'
          OBVIOUS
        <5>2. Disturbance("racedEdit")
          BY <2>2, <3>2, <5>1 DEF ExtEdit
        <5>3. "entry" \in Voids("racedEdit")
          BY DEF Voids
        <5> QED
          BY <5>2, <5>3, GuaranteeStands
      <4>4. Promised(spec[b], status[b], Mine(b))'
        BY <2>0, <3>0, <4>1, <4>2 DEF Accounted, Promised, InForce, Supported, Garage, Mine
      <4>5. Underway(w[b], Mine(b))'
        BY <2>0, <3>0, <4>1, <4>2, <4>3 DEF Accounted, Underway, InForce, Garage, Mine
      <4> QED
        BY <2>0, <3>0, <4>4, <4>5 DEF Accounted, Dated
    <3> QED
      BY <3>1, <3>2
  <2>3. CASE Stop
    <3>1. w'[b] = Idle /\ spec' = spec /\ status' = status /\ backend' = backend
      BY <2>3 DEF Stop
    <3>2. Alike(Mine(b), backend'[NameOf[b]])
      BY <3>1 DEF Alike, Mine
    <3> QED
      BY <2>0, <3>1, <3>2, AccountedIdle
  <2>4. CASE CredsLost \/ CredsBack \/ UNCHANGED vars
    <3>1. w' = w /\ spec' = spec /\ status' = status /\ backend' = backend
      BY <2>4 DEF CredsLost, CredsBack, vars
    <3>2. Alike(Mine(b), backend'[NameOf[b]])
      BY <3>1 DEF Alike, Mine
    <3> QED
      BY <2>0, <3>1, <3>2, AccountedElsewhere
  <2> QED
    BY <2>1, <2>2, <2>3, <2>4 DEF Next, About
<1> QED
  BY <1>1, <1>2 DEF AllAccounted

\* The accounts are kept in every state.
LEMMA AccountsKept == Spec => []AllAccounted
<1>1. TypeOK /\ AllSound /\ OneHolder /\ AllAccounted /\ [Next]_vars => AllAccounted'
  BY AccountedStep
<1> QED
  BY <1>1, AccountedInit, BucketsInvariant, HolderUnique, PTL DEF Spec


\* What the status calls applied, the store enforces: for any Buckets, wishes and
\* interleaving of edits with reconciles, a Ready status of the present generation that
\* says FeaturesApplied is backed by the limits of the bucket.
THEOREM AppliedEnforced == Spec => []AppliedIsEnforced
<1>1. TypeOK /\ AllAccounted => AppliedIsEnforced
  <2> SUFFICES ASSUME TypeOK, AllAccounted, NEW b \in Bucket,
                      spec[b].phase = "live", status[b].ready, status[b].applied,
                      status[b].obs = spec[b].gen
               PROVE  /\ ~spec[b].public
                      /\ spec[b].quota.size # 0 => Mine(b).size = spec[b].quota.size
                      /\ spec[b].quota.count # 0 => Mine(b).count = spec[b].quota.count
    BY DEF AppliedIsEnforced
  <2>1. Supported(spec[b]) /\ InForce(spec[b].quota, Mine(b)) /\ WellFormed(spec[b].quota)
    BY DEF AllAccounted, Accounted, Promised, Dated
  <2>2. CASE Garage
    BY <2>1, <2>2 DEF Supported, InForce
  <2>3. CASE ~Garage
    <3>1. spec[b].quota.count = 0
      BY <2>1, <2>3 DEF Supported, WellFormed
    <3> QED
      BY <2>1, <3>1 DEF Supported, InForce
  <2> QED
    BY <2>2, <2>3
<1> QED
  BY <1>1, AccountsKept, BucketsTypeCorrect, PTL

Reclaimed(b) ==
    spec[b].phase = "deleting" /\ spec'[b].phase = "none" /\ spec[b].reclaim = "Delete"
      => ~backend[NameOf[b]].there \/ ~Kept("creds")

\* Only the removal of its finalizer ends a Bucket that is being deleted.
LEMMA ReclaimedStep ==
    ASSUME TypeOK, AllSound, AllAccounted, [Next]_vars, NEW b \in Bucket
    PROVE  Reclaimed(b)
<1> SUFFICES ASSUME spec[b].phase = "deleting", spec'[b].phase = "none",
                    spec[b].reclaim = "Delete", Kept("creds")
             PROVE  ~backend[NameOf[b]].there
  BY DEF Reclaimed
<1>0. spec \in [Bucket -> BucketObject]
  BY DEF TypeOK
<1>1. RemoveFinalizer(b)
  <2>1. spec'[b] # spec[b]
    OBVIOUS
  <2>2. ASSUME NEW o \in Bucket, Admit(o) \/ Create(o) \/ Delete(o) PROVE FALSE
    <3>1. spec[o].phase \in {"none", "admitted", "live"}
      BY <2>2 DEF Admit, Create, Delete
    <3>2. o # b
      BY <3>1
    <3> QED
      BY <1>0, <2>1, <2>2, <3>2 DEF Admit, Create, Delete
  <2>6. ASSUME NEW o \in Bucket, Edit(o) PROVE FALSE
    <3>1. PICK x \in Wishes, r \in {"Retain", "Delete"} :
            spec' = [spec EXCEPT ![o].quota = x.quota, ![o].public = x.public,
                                 ![o].reclaim = r, ![o].gen = @ + 1]
      BY <2>6, Zenon DEF Edit
    <3>2. spec'[b].phase = spec[b].phase
      BY <1>0, <3>1 DEF BucketObject
    <3> QED
      BY <3>2
  <2>3. ASSUME NEW o \in Bucket, AddFinalizer(o) PROVE FALSE
    <3>1. UNCHANGED spec \/ spec' = [spec EXCEPT ![o].fin = TRUE]
      BY <2>3 DEF AddFinalizer
    <3>2. spec'[b].phase = spec[b].phase
      BY <1>0, <3>1 DEF BucketObject
    <3> QED
      BY <3>2
  <2>4. ASSUME NEW o \in Bucket, o # b, RemoveFinalizer(o) PROVE FALSE
    BY <1>0, <2>1, <2>4 DEF RemoveFinalizer
  <2>5. CASE UNCHANGED spec
    BY <2>1, <2>5
  <2> QED
    BY <2>2, <2>3, <2>4, <2>5, <2>6, Zenon DEF Next, WorkerStep, Reconcile, Lookup, CreateBucket,
       ApplyQuota, LookupEntry, UpdateEntry, UpdateStatus, DeleteLookup, CreateKey, AllowKey,
       EmptyBucket, DropKey, DeleteBucket, CallFails, AnswerLost, Put, ExtEdit, Stop, CredsLost,
       CredsBack, vars
<1>2. w[b].pc = "release" /\ w[b].snap = spec[b]
  BY <1>1 DEF RemoveFinalizer, AllSound, Sound, Reclaiming
<1> QED
  BY <1>2 DEF AllAccounted, Accounted, Underway, Mine

\* A Bucket with reclaim policy Delete is not let go before its bucket is gone, whatever
\* clients write and whichever call fails, as long as the admin credentials are there.
THEOREM ReclaimIsComplete == Spec => ReclaimComplete
<1>1. TypeOK /\ AllSound /\ AllAccounted /\ [Next]_vars => [\A b \in Bucket : Reclaimed(b)]_vars
  BY ReclaimedStep
<1>2. Spec => [][\A b \in Bucket : Reclaimed(b)]_vars
  BY <1>1, BucketsInvariant, AccountsKept, PTL DEF Spec
<1> QED
  BY <1>2 DEF ReclaimComplete, Reclaimed

EntryStays(n) ==
    /\ backend[n].there /\ backend'[n].there /\ Kept("entry")
    => backend'[n].ext = backend[n].ext \/ budget' # budget

\* A bucket that is and stays there changes in its ext by an edit of the entry only, or by
\* a quota update that did not see one.
LEMMA EntryStep ==
    ASSUME TypeOK, AllSound, AllAccounted, [Next]_vars, NEW n \in Name
    PROVE  EntryStays(n)
<1> SUFFICES ASSUME backend[n].there, backend'[n].there, Kept("entry")
             PROVE  backend'[n].ext = backend[n].ext \/ budget' # budget
  BY DEF EntryStays
<1>0. backend \in [Name -> BackendBucket] /\ w \in [Bucket -> Worker]
  BY DEF TypeOK
<1>1. ASSUME NEW b \in Bucket, CreateBucket(b) \/ AnswerLost(b)
      PROVE  backend'[n].ext = backend[n].ext
  <2>1. UNCHANGED backend \/ (~Mine(b).there /\ backend' = [backend EXCEPT ![NameOf[b]] = Created])
    BY <1>1 DEF CreateBucket, AnswerLost
  <2> QED
    BY <1>0, <2>1 DEF Mine
<1>2. ASSUME NEW b \in Bucket, ApplyQuota(b) \/ EmptyBucket(b) \/ Put(b)
      PROVE  backend'[n].ext = backend[n].ext
  <2>1. CASE ApplyQuota(b)
    <3>1. CASE UNCHANGED backend
      BY <3>1
    <3>2. CASE ~UNCHANGED backend
      <4>1. PICK q : backend' = [backend EXCEPT ![NameOf[b]].size = q.size,
                                                ![NameOf[b]].count = q.count]
        BY <2>1, <3>2 DEF ApplyQuota
      <4> QED
        BY <1>0, <4>1 DEF BackendBucket
    <3> QED
      BY <3>1, <3>2
  <2>2. CASE EmptyBucket(b) \/ Put(b)
    BY <1>0, <2>2 DEF EmptyBucket, Put, BackendBucket
  <2> QED
    BY <1>2, <2>1, <2>2
<1>3. ASSUME NEW b \in Bucket, DeleteBucket(b) PROVE backend'[n].ext = backend[n].ext
  <2>1. UNCHANGED backend \/ backend' = [backend EXCEPT ![NameOf[b]] = Absent]
    BY <1>3 DEF DeleteBucket
  <2>2. ~Absent.there
    BY DEF Absent
  <2> QED
    BY <1>0, <2>1, <2>2
<1>4. ASSUME NEW b \in Bucket, UpdateEntry(b) PROVE backend'[n].ext = backend[n].ext
  <2>1. CASE UNCHANGED backend
    BY <2>1
  <2>2. CASE ~UNCHANGED backend
    <3> DEFINE e == [WithQuota(w[b].entry, w[b].snap.quota.size) EXCEPT !.objects = Mine(b).objects]
    <3>1. backend' = [backend EXCEPT ![NameOf[b]] = e]
      BY <1>4, <2>2 DEF UpdateEntry
    <3>2. w[b].entry.ext = Mine(b).ext /\ w[b].entry \in BackendBucket
      BY <1>0, <1>4 DEF UpdateEntry, AllAccounted, Accounted, Underway, Worker
    <3>3. e.ext = Mine(b).ext
      BY <3>2 DEF WithQuota, BackendBucket
    <3> HIDE DEF e
    <3> QED
      BY <1>0, <3>1, <3>3 DEF Mine
  <2> QED
    BY <2>1, <2>2
<1>5. ASSUME NEW m \in Name, ExtEdit(m) PROVE budget' # budget
  <2>1. budget.left \in 0 .. MaxDisturb /\ budget'.left = budget.left - 1
    BY <1>5 DEF ExtEdit, Disturbance, TypeOK
  <2> QED
    BY <2>1, BucketsAssumption
<1>6. CASE UNCHANGED backend
  BY <1>6
<1> QED
  BY <1>1, <1>2, <1>3, <1>4, <1>5, <1>6, Zenon
     DEF Next, WorkerStep, Reconcile, AddFinalizer, Lookup, LookupEntry, UpdateStatus,
         DeleteLookup, CreateKey, AllowKey, DropKey, RemoveFinalizer, Admit, Create, Edit,
         Delete, CallFails, Stop, CredsLost, CredsBack, vars

\* A quota update writes the rest of the filer entry back as it was, unless somebody
\* wrote the entry between its two calls.
THEOREM EntryIsKept == Spec => EntryKept
<1>1. TypeOK /\ AllSound /\ AllAccounted /\ [Next]_vars => [\A n \in Name : EntryStays(n)]_vars
  BY EntryStep
<1>2. Spec => [][\A n \in Name : EntryStays(n)]_vars
  BY <1>1, BucketsInvariant, AccountsKept, PTL DEF Spec
<1> QED
  BY <1>2 DEF EntryKept, EntryStays


-----------------------------------------------------------------------------
(* The temporary owner key *)

\* The worker x has a temporary key in the store.
Holding(x) == Garage /\ x.pc \in {"allow", "empty", "dropKey"}

Counted(n) ==
    /\ (\E b \in Bucket : NameOf[b] = n /\ Holding(w[b])) => keys[n] = 1
    /\ (\A b \in Bucket : NameOf[b] = n => ~Holding(w[b])) => keys[n] = 0

Keyed(x) == x.pc \in {"mkKey", "allow", "dropKey"} => Garage

KeyHeld ==
    /\ \A b \in Bucket : Keyed(w[b])
    /\ Kept("keys") => \A n \in Name : Counted(n)

\* A worker with a key is the worker of the one holder of the name.
LEMMA HolderAlone ==
    ASSUME AllSound, OneHolder, NEW b \in Bucket, w[b].pc \in Destroying,
           NEW o \in Bucket, NameOf[o] = NameOf[b], Holding(w[o])
    PROVE  o = b
<1>1. w[o].pc \in Destroying
  BY DEF Holding, Destroying
<1>2. spec[b].fin /\ spec[o].fin
  BY <1>1 DEF AllSound, Sound, Reclaiming
<1> QED
  BY <1>2 DEF OneHolder

\* A step that neither makes nor removes a key, nor changes whether b's worker has one.
LEMMA KeyFrame ==
    ASSUME TypeOK, [Next]_vars, KeyHeld, NEW b \in Bucket,
           \A o \in Bucket \ {b} : w'[o] = w[o], keys' = keys, Keyed(w[b])',
           Holding(w[b])' <=> Holding(w[b])
    PROVE  KeyHeld'
<1>1. driver' = driver /\ \A g : Kept(g)' => Kept(g)
  BY GuaranteesEnd
<1>2. \A o \in Bucket : Keyed(w[o])'
  BY <1>1 DEF KeyHeld, Keyed, Garage
<1>3. \A o \in Bucket : Holding(w[o])' <=> Holding(w[o])
  BY <1>1 DEF Holding, Garage
<1>4. ASSUME Kept("keys")', NEW n \in Name PROVE Counted(n)'
  <2>1. Counted(n)
    BY <1>1, <1>4 DEF KeyHeld
  <2> QED
    BY <1>3, <2>1 DEF Counted
<1> QED
  BY <1>2, <1>4 DEF KeyHeld

\* A step that moves b's worker and the keys of its name.
LEMMA KeyMove ==
    ASSUME TypeOK, AllSound, OneHolder, KeyHeld, [Next]_vars, NEW b \in Bucket,
           w[b].pc \in Destroying, \A o \in Bucket \ {b} : w'[o] = w[o], Keyed(w[b])',
           \A n \in Name \ {NameOf[b]} : keys'[n] = keys[n],
           Holding(w[b])' => keys'[NameOf[b]] = 1, ~Holding(w[b])' => keys'[NameOf[b]] = 0
    PROVE  KeyHeld'
<1>1. driver' = driver /\ \A g : Kept(g)' => Kept(g)
  BY GuaranteesEnd
<1>2. \A o \in Bucket : Keyed(w[o])'
  BY <1>1 DEF KeyHeld, Keyed, Garage
<1>3. \A o \in Bucket \ {b} : Holding(w[o])' <=> Holding(w[o])
  BY <1>1 DEF Holding, Garage
<1>4. \A o \in Bucket : NameOf[o] = NameOf[b] /\ Holding(w[o])' => o = b
  BY <1>3, HolderAlone
<1>5. ASSUME Kept("keys")', NEW n \in Name PROVE Counted(n)'
  <2>1. Counted(n)
    BY <1>1, <1>5 DEF KeyHeld
  <2>2. CASE n = NameOf[b]
    BY <1>4, <2>2 DEF Counted
  <2>3. CASE n # NameOf[b]
    <3>1. \A o \in Bucket : NameOf[o] = n => o # b
      BY <2>3
    <3>2. keys'[n] = keys[n]
      BY <2>3
    <3> QED
      BY <1>3, <2>1, <3>1, <3>2 DEF Counted
  <2> QED
    BY <2>2, <2>3
<1> QED
  BY <1>2, <1>5 DEF KeyHeld

\* A disturbance that ends the guarantee.
LEMMA KeyVoid ==
    ASSUME TypeOK, [Next]_vars, NEW d, Disturbance(d), "keys" \in Voids(d),
           \A o \in Bucket : Keyed(w[o])'
    PROVE  KeyHeld'
BY GuaranteeStands DEF KeyHeld

\* There is no key at the start.
LEMMA KeyInit == Init => KeyHeld
BY DEF Init, KeyHeld, Keyed, Counted, Holding, Idle

\* Making the key and removing it.
LEMMA KeySteps ==
    ASSUME TypeOK, AllSound, OneHolder, KeyHeld, [Next]_vars, NEW b \in Bucket,
           CreateKey(b) \/ DropKey(b)
    PROVE  KeyHeld'
<1>0. /\ driver' = driver /\ w \in [Bucket -> Worker] /\ w[b] \in Worker /\ NameOf[b] \in Name
      /\ keys \in [Name -> Int] /\ queue \subseteq Bucket /\ Garage
      /\ \A g : Kept(g)' => Kept(g)
  BY GuaranteesEnd, NameType DEF TypeOK, CreateKey, DropKey, KeyHeld, Keyed
<1>d. w[b].pc \in Destroying
  BY DEF CreateKey, DropKey, Destroying
<1>1. CASE CreateKey(b)
  <2>1. /\ \A o \in Bucket \ {b} : w'[o] = w[o]
        /\ w'[b] = [w[b] EXCEPT !.pc = "allow"]
        /\ keys' = [keys EXCEPT ![NameOf[b]] = @ + 1] /\ UNCHANGED budget
    <3>1. "allow" \in PC
      BY DEF PC
    <3> QED
      BY <1>0, <1>1, <3>1, GotoMoves DEF CreateKey
  <2>2. w'[b].pc = "allow" /\ \A n \in Name \ {NameOf[b]} : keys'[n] = keys[n]
    BY <1>0, <2>1 DEF Worker
  <2>3. Holding(w[b])' /\ Keyed(w[b])'
    BY <1>0, <2>2 DEF Holding, Keyed, Garage
  <2>4. CASE Kept("keys")
    <3>1. \A o \in Bucket : NameOf[o] = NameOf[b] => ~Holding(w[o])
      BY <1>1, <1>d, HolderAlone DEF Holding, CreateKey
    <3>2. keys[NameOf[b]] = 0
      BY <1>0, <2>4, <3>1 DEF KeyHeld, Counted
    <3>3. keys'[NameOf[b]] = 1
      BY <1>0, <2>1, <3>2
    <3> QED
      BY <1>d, <2>1, <2>2, <2>3, <3>3, KeyMove
  <2>5. CASE ~Kept("keys")
    <3>1. \A o \in Bucket : Keyed(w[o])'
      BY <1>0, <2>1, <2>3 DEF KeyHeld, Keyed, Garage
    <3> QED
      BY <1>0, <2>5, <3>1 DEF KeyHeld
  <2> QED
    BY <2>4, <2>5
<1>2. CASE DropKey(b)
  <2>1. /\ \A o \in Bucket \ {b} : w'[o] = w[o]
        /\ w'[b] = [w[b] EXCEPT !.pc = "delete"] \/ w'[b] = Idle
    <3>1. "delete" \in PC
      BY DEF PC
    <3>2. Goto(b, "delete") \/ Finish(b, TRUE)
      BY <1>2 DEF DropKey
    <3> QED
      BY <1>0, <3>1, <3>2, GotoMoves, FinishMoves
  <2>2. w'[b].pc \in {"delete", "idle"}
    BY <1>0, <2>1, IdleType DEF Worker
  <2>3. ~Holding(w[b])' /\ Keyed(w[b])'
    BY <2>2 DEF Holding, Keyed
  <2>a. \A o \in Bucket : Keyed(w[o])'
    BY <1>0, <2>1, <2>3 DEF KeyHeld, Keyed, Garage
  <2>4. CASE Disturbance("dropFails")
    <3>1. "keys" \in Voids("dropFails")
      BY DEF Voids
    <3> QED
      BY <2>4, <2>a, <3>1, KeyVoid
  <2>5. CASE keys' = [keys EXCEPT ![NameOf[b]] = @ - 1] /\ UNCHANGED budget
    <3>1. CASE Kept("keys")
      <4>1. Holding(w[b])
        BY <1>0, <1>2 DEF Holding, DropKey
      <4>2. keys[NameOf[b]] = 1
        BY <1>0, <3>1, <4>1 DEF KeyHeld, Counted
      <4>3. keys'[NameOf[b]] = 0 /\ \A n \in Name \ {NameOf[b]} : keys'[n] = keys[n]
        BY <1>0, <2>5, <4>2
      <4> QED
        BY <1>d, <2>1, <2>3, <4>3, KeyMove
    <3>2. CASE ~Kept("keys")
      BY <1>0, <2>a, <3>2 DEF KeyHeld
    <3> QED
      BY <3>1, <3>2
  <2> QED
    BY <1>2, <2>4, <2>5 DEF DropKey
<1> QED
  BY <1>1, <1>2


\* The other steps of a worker: the key is carried along to the call that removes it.
LEMMA KeyCarried ==
    ASSUME TypeOK, AllSound, OneHolder, KeyHeld, [Next]_vars, NEW b \in Bucket, About(b),
           ~CreateKey(b), ~DropKey(b), ~AnswerLost(b)
    PROVE  KeyHeld'
<1>0. /\ driver' = driver /\ w \in [Bucket -> Worker] /\ w[b] \in Worker
      /\ queue \subseteq Bucket
  BY GuaranteesEnd DEF TypeOK
<1>1. keys' = keys
  BY Zenon DEF About, WorkerStep, Reconcile, AddFinalizer, Lookup, CreateBucket,
       ApplyQuota, LookupEntry, UpdateEntry, UpdateStatus, DeleteLookup, AllowKey,
       EmptyBucket, DeleteBucket, RemoveFinalizer, Admit, Create, Edit, Delete, CallFails, Put
<1>2. \A o \in Bucket \ {b} : w'[o] = w[o]
  BY OthersLeave
<1>3. Keyed(w[b]) /\ Keyed(w[b])' /\ (Holding(w[b])' <=> Holding(w[b]))
  <2>0. Keyed(w[b])
    BY DEF KeyHeld
  <2>a. ASSUME w'[b].pc \notin {"mkKey", "allow", "empty", "dropKey"},
               w[b].pc \notin {"allow", "empty", "dropKey"}
        PROVE  Keyed(w[b]) /\ Keyed(w[b])' /\ (Holding(w[b])' <=> Holding(w[b]))
    BY <2>0, <2>a DEF Keyed, Holding
  <2>1. CASE Reconcile(b)
    <3>1. CASE w'[b] = w[b]
      BY <1>0, <2>0, <3>1 DEF Keyed, Holding, Garage
    <3>2. CASE w'[b] = [Idle EXCEPT !.snap = spec[b], !.pc = ReconcilePC(b)]
      <4>1. w'[b].pc = ReconcilePC(b)
        BY <3>2 DEF Idle
      <4>2. ReconcilePC(b) \in {"delLookup", "finalizer", "lookup", "status"}
        BY Zenon DEF ReconcilePC, AfterFinalizer
      <4> QED
        BY <2>1, <2>a, <4>1, <4>2 DEF Reconcile
    <3> QED
      BY <2>1, <3>1, <3>2, ReconcileMoves
  <2>2. CASE AddFinalizer(b)
    <3>1. w'[b] = Idle \/ w'[b] = Finalized(b)
      BY <1>0, <2>2, FinishMoves, FinalizerMoves DEF AddFinalizer
    <3>2. Finalized(b).pc \in {"lookup", "status"}
      BY <1>0 DEF Finalized, AfterFinalizer, Worker
    <3> QED
      BY <2>2, <2>a, <3>1, <3>2, IdleType DEF AddFinalizer
  <2>3. CASE Lookup(b) \/ CreateBucket(b) \/ ApplyQuota(b) \/ LookupEntry(b) \/ UpdateEntry(b)
    <3>1. w'[b].pc \in {"create", "update", "quota", "entry", "status"}
      BY <1>0, <2>3 DEF Lookup, CreateBucket, ApplyQuota, LookupEntry, UpdateEntry, Goto,
           Provisioned, Ensured, AfterBucket, Worker
    <3>2. w[b].pc \in Ensuring
      BY <2>3 DEF Lookup, CreateBucket, ApplyQuota, LookupEntry, UpdateEntry, Ensuring
    <3> QED
      BY <2>a, <3>1, <3>2 DEF Ensuring
  <2>4. CASE UpdateStatus(b) \/ RemoveFinalizer(b)
    <3>1. w'[b] = Idle /\ w[b].pc \in {"status", "release"}
      BY <1>0, <2>4 DEF UpdateStatus, RemoveFinalizer, Finish
    <3> QED
      BY <2>a, <3>1, IdleType
  <2>5. CASE DeleteLookup(b)
    <3>1. w'[b].pc \in {"release", "mkKey", "empty"}
      BY <1>0, <2>5 DEF DeleteLookup, Goto, Worker
    <3>2. /\ w'[b].pc = "mkKey" => Garage
          /\ w'[b].pc = "empty" => ~Garage
      BY <1>0, <2>5 DEF DeleteLookup, Goto, Worker
    <3>3. w[b].pc = "delLookup"
      BY <2>5 DEF DeleteLookup
    <3> QED
      BY <1>0, <3>1, <3>2, <3>3 DEF Keyed, Holding, Garage
  <2>6. CASE AllowKey(b)
    <3>1. w'[b].pc \in {"empty", "dropKey"} /\ w[b].pc = "allow"
      BY <1>0, <2>6 DEF AllowKey, Goto, Worker
    <3> QED
      BY <1>0, <2>0, <3>1 DEF Keyed, Holding, Garage
  <2>7. CASE EmptyBucket(b)
    <3>1. w[b].pc = "empty" /\ w'[b].pc = IF Garage THEN "dropKey" ELSE "delete"
      BY <1>0, <2>7 DEF EmptyBucket, Worker
    <3> QED
      BY <1>0, <3>1 DEF Keyed, Holding, Garage
  <2>8. CASE DeleteBucket(b)
    <3>1. w'[b].pc \in {"release", "idle"} /\ w[b].pc = "delete"
      BY <1>0, <2>8, IdleType DEF DeleteBucket, Refused, Finish, Goto, Worker
    <3> QED
      BY <2>a, <3>1
  <2>9. CASE CallFails(b)
    <3>1. w[b].pc \notin {"idle", "dropKey"} /\ Failed(b)
      BY <2>9 DEF CallFails
    <3>2. CASE w[b].pc \in {"lookup", "create", "quota", "entry", "update"}
      <4>1. Ensured(b, FALSE)
        BY <3>1, <3>2 DEF Failed
      <4>2. w'[b] = [w[b] EXCEPT !.pc = "status", !.ok = FALSE]
        BY <1>0, <4>1, EnsuredMoves
      <4>3. w'[b].pc = "status"
        BY <1>0, <4>2 DEF Worker
      <4> QED
        BY <2>a, <3>2, <4>3
    <3>3. CASE Garage /\ w[b].pc \in {"allow", "empty"}
      <4>1. w'[b].pc = "dropKey"
        BY <1>0, <3>1, <3>3 DEF Failed, Worker
      <4> QED
        BY <1>0, <3>3, <4>1 DEF Keyed, Holding, Garage
    <3>4. CASE /\ w[b].pc \notin {"lookup", "create", "quota", "entry", "update"}
               /\ ~(Garage /\ w[b].pc \in {"allow", "empty"})
      <4>1. Finish(b, TRUE)
        BY <3>1, <3>4 DEF Failed
      <4>2. w'[b].pc = "idle"
        BY <1>0, <4>1, FinishMoves, IdleType
      <4>3. ~Holding(w[b])
        BY <3>1, <3>4 DEF Holding
      <4> QED
        BY <2>0, <4>2, <4>3 DEF Keyed, Holding
    <3> QED
      BY <3>2, <3>3, <3>4
  <2>10. CASE Admit(b) \/ Create(b) \/ Edit(b) \/ Delete(b) \/ Put(b)
    <3>1. w' = w
      BY <2>10 DEF Admit, Create, Edit, Delete, Put
    <3> QED
      BY <1>0, <2>0, <3>1 DEF Keyed, Holding, Garage
  <2> QED
    BY <2>0, <2>1, <2>2, <2>3, <2>4, <2>5, <2>6, <2>7, <2>8, <2>9, <2>10 DEF About, WorkerStep
<1> QED
  BY <1>1, <1>2, <1>3, KeyFrame

\* Every step keeps the count of the keys.
LEMMA KeyStep == TypeOK /\ AllSound /\ OneHolder /\ KeyHeld /\ [Next]_vars => KeyHeld'
<1> SUFFICES ASSUME TypeOK, AllSound, OneHolder, KeyHeld, [Next]_vars PROVE KeyHeld'
  OBVIOUS
<1>0. driver' = driver /\ w \in [Bucket -> Worker]
  BY GuaranteesEnd DEF TypeOK
<1>1. ASSUME NEW b \in Bucket, About(b) PROVE KeyHeld'
  <2>1. CASE AnswerLost(b)
    <3>1. Disturbance("answerLost") /\ "keys" \in Voids("answerLost") /\ Failed(b)
      BY <2>1 DEF AnswerLost, Voids
    <3>2. \A o \in Bucket \ {b} : w'[o] = w[o]
      BY <1>1, OthersLeave
    <3>3. w'[b].pc \in {"status", "idle"}
      BY <1>0, <2>1, <3>1, IdleType DEF AnswerLost, Failed, Ensured, Finish, Worker
    <3>4. \A o \in Bucket : Keyed(w[o])'
      BY <1>0, <3>2, <3>3 DEF KeyHeld, Keyed, Garage
    <3> QED
      BY <3>1, <3>4, KeyVoid
  <2>2. CASE CreateKey(b) \/ DropKey(b)
    BY <2>2, KeySteps
  <2>3. CASE ~CreateKey(b) /\ ~DropKey(b) /\ ~AnswerLost(b)
    BY <1>1, <2>3, KeyCarried
  <2> QED
    BY <2>1, <2>2, <2>3
<1>2. CASE Stop
  <2>1. Disturbance("stop") /\ "keys" \in Voids("stop")
    BY <1>2 DEF Stop, Voids
  <2>2. \A o \in Bucket : Keyed(w[o])'
    BY <1>2, IdleType DEF Stop, Keyed
  <2> QED
    BY <2>1, <2>2, KeyVoid
<1>3. CASE UNCHANGED <<w, keys>>
  <2>1. (\A g : Kept(g)' => Kept(g)) /\ w' = w /\ keys' = keys
    BY <1>3, GuaranteesEnd
  <2> QED
    BY <1>0, <2>1 DEF KeyHeld, Keyed, Counted, Holding, Garage
<1> QED
  BY <1>1, <1>2, <1>3 DEF Next, About, ExtEdit, CredsLost, CredsBack, vars

\* The temporary owner key of a Garage bucket is there exactly while the worker that made
\* it is on its way to the call that removes it, whichever call fails in between.
THEOREM NoKeyIsLeft == Spec => []NoKeyLeft
<1>1. AllSound /\ OneHolder /\ KeyHeld => NoKeyLeft
  <2> SUFFICES ASSUME AllSound, OneHolder, KeyHeld, Kept("keys"), NEW n \in Name
               PROVE  keys[n] = Cardinality({b \in Bucket : NameOf[b] = n /\
                                w[b].pc \in {"allow", "empty", "dropKey"} /\ Garage})
    BY DEF NoKeyLeft
  <2> DEFINE H == {b \in Bucket : NameOf[b] = n /\ w[b].pc \in {"allow", "empty", "dropKey"} /\ Garage}
  <2>1. \A b \in Bucket : b \in H <=> NameOf[b] = n /\ Holding(w[b])
    BY DEF Holding
  <2>2. Counted(n)
    BY DEF KeyHeld
  <2>3. CASE H = {}
    BY <2>1, <2>2, <2>3, FS_EmptySet DEF Counted
  <2>4. ASSUME NEW b \in H PROVE keys[n] = Cardinality(H)
    <3>0. w[b].pc \in Destroying /\ NameOf[b] = n
      BY DEF Destroying
    <3>1. ASSUME NEW o \in H PROVE o = b
      <4>1. NameOf[o] = NameOf[b] /\ Holding(w[o]) /\ o \in Bucket /\ b \in Bucket
        BY <2>1, <3>0
      <4> QED
        BY <3>0, <4>1, HolderAlone
    <3>2. H = {b}
      BY <3>1
    <3>3. Cardinality({b}) = 1
      BY FS_Singleton
    <3>4. keys[n] = 1
      BY <2>1, <2>2 DEF Counted
    <3> QED
      BY <3>2, <3>3, <3>4
  <2> QED
    BY <2>3, <2>4
<1>2. TypeOK /\ AllSound /\ OneHolder /\ KeyHeld /\ [Next]_vars => KeyHeld'
  BY KeyStep
<1> QED
  BY <1>1, <1>2, KeyInit, BucketsInvariant, HolderUnique, PTL DEF Spec


=============================================================================
