------------------------------ MODULE Buckets ------------------------------
(***************************************************************************)
(* Buckets on their way to the backend and back: the admission webhook,    *)
(* EnsureBucket and DeleteBucket of the Garage and the SeaweedFS driver    *)
(* call by call, quotas, and the FeaturesApplied condition.  Several       *)
(* Buckets may map to one bucket name of the store; the webhook, which     *)
(* sees every creation and every update, is what keeps them apart.         *)
(*                                                                         *)
(* Abstractions.                                                           *)
(*  - One store, Ready and answering throughout; what readiness does to    *)
(*    Buckets is the subject of the modules Binding and GarageSystem.      *)
(*  - Sizes and counts of a quota are small numbers, 0 when left out.      *)
(*  - An object is known by the Bucket it was written through.             *)
(*  - Of the filer entry of a SeaweedFS bucket all that is not the quota   *)
(*    is one value, ext.                                                   *)
(*  - The BucketReady and Ready conditions move together.                  *)
(***************************************************************************)
EXTENDS Integers, FiniteSets

CONSTANTS
    Bucket,      \* Buckets
    Name,        \* bucket names in the store
    NameOf,      \* BucketDisplayName: spec.bucketName, or metadata.name
    Drivers,     \* the drivers the store may have
    Wishes,      \* quota and public access a Bucket may be edited to
    Disturb,     \* the disturbances that may happen
    MaxDisturb   \* how many of them

Faults == {"stop", "callFails", "answerLost", "dropFails", "credsLost", "raced",
           "racedEdit", "racedPolicy"}
Intents == {"edit", "put", "extEdit", "delete"}

\* What is promised until a disturbance ends it: no two Buckets of one name pass the
\* webhook together, the admin credentials are there to delete with, a temporary
\* key is removed, an edit of the filer entry is not in a quota update's way, and
\* nobody turns Delete into Retain while a deletion that read Delete is running.
Guarantee == {"unique", "creds", "keys", "entry", "policy"}

Voids(d) ==
    CASE d = "raced" -> {"unique"}
      [] d = "credsLost" -> {"creds"}
      [] d \in {"stop", "answerLost", "dropFails"} -> {"keys"}
      [] d = "racedEdit" -> {"entry"}
      [] d = "racedPolicy" -> {"policy"}
      [] OTHER -> {}

\* spec.quota: left out, or with limits, of which 0 is none
Quota == [declared: BOOLEAN, size: 0 .. 2, count: 0 .. 1]
NoQuota == [declared |-> FALSE, size |-> 0, count |-> 0]
Limits(size, count) == [declared |-> TRUE, size |-> size, count |-> count]

ASSUME BucketsAssumption ==
    /\ Wishes \subseteq [quota: Quota, public: BOOLEAN]
    /\ \A x \in Wishes : x.quota.declared \/ x.quota = NoQuota
    /\ NameOf \in [Bucket -> Name]
    /\ Drivers \subseteq {"Garage", "SeaweedFS"}
    /\ Disturb \subseteq Faults \cup Intents
    /\ MaxDisturb \in Nat

VARIABLES
    driver,   \* the driver of the store
    spec,     \* spec[b]: the Bucket
    status,   \* status[b]: its status
    backend,  \* backend[n]: the bucket in the store
    keys,     \* keys[n]: temporary reclaim keys in the store
    creds,    \* the admin token or Secret is there
    queue,    \* Buckets in the work queue
    w,        \* w[b]: the worker of b
    budget    \* disturbances left, and the guarantees they left intact

vars == <<driver, spec, status, backend, keys, creds, queue, w, budget>>

-----------------------------------------------------------------------------
(* Types *)

Spec0 == [phase |-> "none", fin |-> FALSE, gen |-> 0, quota |-> NoQuota,
          public |-> FALSE, reclaim |-> "Retain"]
Status0 == [ready |-> FALSE, obs |-> 0, applied |-> FALSE]
Absent == [there |-> FALSE, size |-> 0, count |-> 0, ext |-> 0, objects |-> {}]
Created == [Absent EXCEPT !.there = TRUE]

PC == {"idle", "finalizer", "lookup", "create", "quota", "entry", "update", "status",
       "delLookup", "mkKey", "allow", "empty", "dropKey", "delete", "release"}

\* snap: the Bucket as read; entry: the filer entry as read; ok: whether the last
\* call did what it should
Idle == [pc |-> "idle", snap |-> Spec0, entry |-> Absent, ok |-> FALSE]

BucketObject == [phase: {"none", "admitted", "live", "deleting"}, fin: BOOLEAN,
                 gen: Nat, quota: Quota, public: BOOLEAN,
                 reclaim: {"Retain", "Delete"}]
BackendBucket == [there: BOOLEAN, size: 0 .. 2, count: 0 .. 1, ext: 0 .. 1,
                  objects: SUBSET Bucket]

Worker == [pc: PC, snap: BucketObject, entry: BackendBucket, ok: BOOLEAN]

\* Every Bucket, every bucket of the store and every reconcile keeps its type, limits
\* within the range a quota can ask for included (garageBucketQuotas).
TypeOK ==
    /\ driver \in Drivers
    /\ spec \in [Bucket -> BucketObject]
    /\ status \in [Bucket -> [ready: BOOLEAN, obs: Nat, applied: BOOLEAN]]
    /\ backend \in [Name -> BackendBucket]
    /\ keys \in [Name -> Int]
    /\ creds \in BOOLEAN
    /\ queue \subseteq Bucket
    /\ w \in [Bucket -> Worker]
    /\ budget \in [left: 0 .. MaxDisturb, kept: SUBSET Guarantee]

Init ==
    /\ driver \in Drivers
    /\ spec = [b \in Bucket |-> Spec0]
    /\ status = [b \in Bucket |-> Status0]
    /\ backend = [n \in Name |-> Absent]
    /\ keys = [n \in Name |-> 0]
    /\ creds = TRUE
    /\ queue = {}
    /\ w = [b \in Bucket |-> Idle]
    /\ budget = [left |-> MaxDisturb, kept |-> Guarantee]

Disturbance(d) ==
    /\ d \in Disturb
    /\ budget.left > 0
    /\ budget' = [left |-> budget.left - 1, kept |-> budget.kept \ Voids(d)]

Kept(g) == g \in budget.kept

Garage == driver = "Garage"
Exists(b) == spec[b].phase \in {"live", "deleting"}
Mine(b) == backend[NameOf[b]]

-----------------------------------------------------------------------------
(* Admission *)

\* mutated form: a Bucket that is being deleted does not count
BucketValidate_LiveOnly(b) ==
    \A o \in Bucket \ {b} : NameOf[o] = NameOf[b] => spec[o].phase # "live"

\* On creation and on every update: no other Bucket has the name.
BucketValidate(b) ==
    \A o \in Bucket \ {b} : NameOf[o] = NameOf[b] => ~Exists(o)

\* The webhook lists the Buckets ...
Admit(b) ==
    /\ spec[b].phase = "none"
    /\ BucketValidate(b)
    /\ IF \E o \in Bucket \ {b} : NameOf[o] = NameOf[b] /\ spec[o].phase = "admitted"
       THEN Disturbance("raced") ELSE UNCHANGED budget
    /\ \E q \in {NoQuota, Limits(1, 0)}, r \in {"Retain", "Delete"} :
         spec' = [spec EXCEPT ![b] = [Spec0 EXCEPT !.phase = "admitted", !.gen = 1,
                                                   !.quota = q, !.reclaim = r]]
    /\ UNCHANGED <<driver, status, backend, keys, creds, queue, w>>

\* mutated form: an event that arrives during a reconcile is dropped
Enqueue_IdleOnly(b) == queue' = IF w[b].pc = "idle" THEN queue \cup {b} ELSE queue

\* A change of the generation puts the Bucket in the work queue.
Enqueue(b) == queue' = queue \cup {b}

\* ... and the API server stores the new one later.
Create(b) ==
    /\ spec[b].phase = "admitted"
    /\ spec' = [spec EXCEPT ![b].phase = "live"]
    /\ status' = [status EXCEPT ![b] = Status0]
    /\ Enqueue(b)
    /\ UNCHANGED <<driver, backend, keys, creds, w, budget>>

\* A deletion that read reclaim policy Delete, and has not yet come to its end.
Destroys(b) ==
    /\ w[b].pc \in {"delLookup", "mkKey", "allow", "empty", "dropKey", "delete"}
    /\ w[b].snap.reclaim = "Delete"

\* The spec is open to edits, the reclaim policy included, also while the Bucket is
\* being deleted: only the store and the bucket name are immutable.
Edit(b) ==
    /\ Exists(b) /\ BucketValidate(b)
    /\ \E x \in Wishes, r \in {"Retain", "Delete"} :
         /\ <<x.quota, x.public, r>> # <<spec[b].quota, spec[b].public, spec[b].reclaim>>
         /\ Disturbance(IF Destroys(b) /\ r = "Retain" THEN "racedPolicy" ELSE "edit")
         /\ spec' = [spec EXCEPT ![b].quota = x.quota, ![b].public = x.public,
                                 ![b].reclaim = r, ![b].gen = @ + 1]
    /\ Enqueue(b)
    /\ UNCHANGED <<driver, status, backend, keys, creds, w>>

\* Without a finalizer the object goes at once.
Delete(b) ==
    /\ spec[b].phase = "live"
    /\ Disturbance("delete")
    /\ spec' = [spec EXCEPT ![b] =
                   IF spec[b].fin
                   THEN [spec[b] EXCEPT !.phase = "deleting", !.gen = spec[b].gen + 1]
                   ELSE Spec0]
    /\ Enqueue(b)
    /\ UNCHANGED <<driver, status, backend, keys, creds, w>>

-----------------------------------------------------------------------------
(* The reconciler *)

Goto(b, label) == w' = [w EXCEPT ![b].pc = label]

\* An error, or a Bucket that is not Ready, comes back; a Ready one does not.
Finish(b, again) ==
    /\ w' = [w EXCEPT ![b] = Idle]
    /\ queue' = IF again THEN queue \cup {b} ELSE queue

\* EnsureBucket returned, with the bucket provisioned or not.
Ensured(b, ok) == w' = [w EXCEPT ![b].pc = "status", ![b].ok = ok]

AfterFinalizer(b) == IF creds THEN "lookup" ELSE "status"

Reconcile(b) ==
    /\ w[b].pc = "idle" /\ b \in queue
    /\ queue' = queue \ {b}
    /\ w' = IF Exists(b)
            THEN [w EXCEPT ![b] =
                   [Idle EXCEPT !.snap = spec[b],
                                !.pc = CASE spec[b].phase = "deleting" -> "delLookup"
                                         [] ~spec[b].fin -> "finalizer"
                                         [] OTHER -> AfterFinalizer(b)]]
            ELSE w
    /\ UNCHANGED <<driver, spec, status, backend, keys, creds, budget>>

\* An Update: refused by the webhook, or by a newer resource version.
AddFinalizer(b) ==
    /\ w[b].pc = "finalizer"
    /\ IF spec[b] = w[b].snap /\ BucketValidate(b)
       THEN /\ spec' = [spec EXCEPT ![b].fin = TRUE]
            /\ w' = [w EXCEPT ![b].snap.fin = TRUE, ![b].pc = AfterFinalizer(b)]
            /\ UNCHANGED queue
       ELSE UNCHANGED spec /\ Finish(b, TRUE)
    /\ UNCHANGED <<driver, status, backend, keys, creds, budget>>

RequestedFeatures(s) ==
    (IF s.quota.declared /\ (s.quota.size # 0 \/ s.quota.count # 0) THEN {"quota"} ELSE {})
    \cup (IF s.public THEN {"PublicRead"} ELSE {})

garageUnsupported(s) == RequestedFeatures(s) \ {"quota"}

seaweedFSUnsupported(s) ==
    (IF s.public THEN {"PublicRead"} ELSE {})
    \cup (IF s.quota.declared /\ s.quota.count # 0 THEN {"quota"} ELSE {})

UnsupportedFeatures(s) == IF Garage THEN garageUnsupported(s) ELSE seaweedFSUnsupported(s)

\* mutated form: the status is dated by the Bucket as it is now
ObservedGeneration_Latest(b) == spec[b].gen

ObservedGeneration(b) == w[b].snap.gen

\* FeaturesApplied is only touched once the bucket is provisioned.
UpdateStatus(b) ==
    /\ w[b].pc = "status"
    /\ status' = IF ~Exists(b) THEN status
                 ELSE [status EXCEPT
                         ![b].ready = w[b].ok,
                         ![b].obs = ObservedGeneration(b),
                         ![b].applied = IF w[b].ok THEN UnsupportedFeatures(w[b].snap) = {}
                                        ELSE @]
    /\ Finish(b, ~w[b].ok)
    /\ UNCHANGED <<driver, spec, backend, keys, creds, budget>>

-----------------------------------------------------------------------------
(* EnsureBucket *)

\* Garage sets what is declared, an empty quota too; SeaweedFS only a size.
AfterBucket(b) ==
    CASE Garage -> IF w[b].snap.quota.declared THEN "quota" ELSE "status"
      [] OTHER -> IF w[b].snap.quota.declared /\ w[b].snap.quota.size # 0
                  THEN "entry" ELSE "status"

Provisioned(b) == w' = [w EXCEPT ![b].pc = AfterBucket(b), ![b].ok = TRUE]

Lookup(b) ==
    /\ w[b].pc = "lookup"
    /\ IF Mine(b).there THEN Provisioned(b) ELSE Goto(b, "create")
    /\ UNCHANGED <<driver, spec, status, backend, keys, creds, queue, budget>>

\* SeaweedFS takes a bucket that appeared meanwhile for its own.
CreateBucket(b) ==
    /\ w[b].pc = "create"
    /\ IF Mine(b).there
       THEN UNCHANGED backend /\ (IF Garage THEN Ensured(b, FALSE) ELSE Provisioned(b))
       ELSE backend' = [backend EXCEPT ![NameOf[b]] = Created] /\ Provisioned(b)
    /\ UNCHANGED <<driver, spec, status, keys, creds, queue, budget>>

\* mutated form: maxSize is taken for a count of larger units
garageBucketQuotas_Units(q) == [size |-> q.size * 2, count |-> q.count]

garageBucketQuotas(q) == [size |-> q.size, count |-> q.count]

\* updateBucket: both limits are replaced.
ApplyQuota(b) ==
    /\ w[b].pc = "quota"
    /\ IF Mine(b).there
       THEN LET q == garageBucketQuotas(w[b].snap.quota)
            IN /\ backend' = [backend EXCEPT ![NameOf[b]].size = q.size,
                                             ![NameOf[b]].count = q.count]
               /\ Ensured(b, TRUE)
       ELSE UNCHANGED backend /\ Ensured(b, FALSE)
    /\ UNCHANGED <<driver, spec, status, keys, creds, queue, budget>>

\* setBucketQuota: the entry is read ...
LookupEntry(b) ==
    /\ w[b].pc = "entry"
    /\ IF Mine(b).there THEN w' = [w EXCEPT ![b].entry = Mine(b), ![b].pc = "update"]
       ELSE Ensured(b, FALSE)
    /\ UNCHANGED <<driver, spec, status, backend, keys, creds, queue, budget>>

\* mutated form: an entry that holds the quota and nothing else
WithQuota_Bare(entry, size) == [Created EXCEPT !.size = size]

\* The quota is appended to the entry as read: the last occurrence counts.
WithQuota(entry, size) == [entry EXCEPT !.size = size]

\* ... and written back, all of it but the objects below it.
UpdateEntry(b) ==
    /\ w[b].pc = "update"
    /\ IF Mine(b).there
       THEN /\ backend' = [backend EXCEPT ![NameOf[b]] =
                             [WithQuota(w[b].entry, w[b].snap.quota.size)
                                EXCEPT !.objects = Mine(b).objects]]
            /\ Ensured(b, TRUE)
       ELSE UNCHANGED backend /\ Ensured(b, FALSE)
    /\ UNCHANGED <<driver, spec, status, keys, creds, queue, budget>>

-----------------------------------------------------------------------------
(* DeleteBucket *)

\* Nothing is done for Retain, without credentials, or without a bucket.
DeleteLookup(b) ==
    /\ w[b].pc = "delLookup"
    /\ Goto(b, IF w[b].snap.reclaim = "Retain" \/ ~creds \/ ~Mine(b).there THEN "release"
               ELSE IF Garage THEN "mkKey" ELSE "empty")
    /\ UNCHANGED <<driver, spec, status, backend, keys, creds, queue, budget>>

\* Garage is emptied with a key made for it.
CreateKey(b) ==
    /\ w[b].pc = "mkKey"
    /\ keys' = [keys EXCEPT ![NameOf[b]] = @ + 1]
    /\ Goto(b, "allow")
    /\ UNCHANGED <<driver, spec, status, backend, creds, queue, budget>>

AllowKey(b) ==
    /\ w[b].pc = "allow"
    /\ IF Mine(b).there THEN Goto(b, "empty")
       ELSE w' = [w EXCEPT ![b].pc = "dropKey", ![b].ok = FALSE]
    /\ UNCHANGED <<driver, spec, status, backend, keys, creds, queue, budget>>

EmptyBucket(b) ==
    /\ w[b].pc = "empty"
    /\ backend' = [backend EXCEPT ![NameOf[b]].objects = {}]
    /\ w' = [w EXCEPT ![b].pc = IF Garage THEN "dropKey" ELSE "delete", ![b].ok = TRUE]
    /\ UNCHANGED <<driver, spec, status, keys, creds, queue, budget>>

\* The deferred deleteKey, on the way out of emptyBucket with and without an error;
\* its own error is ignored.
DropKey(b) ==
    /\ w[b].pc = "dropKey"
    /\ \/ keys' = [keys EXCEPT ![NameOf[b]] = @ - 1] /\ UNCHANGED budget
       \/ UNCHANGED keys /\ Disturbance("dropFails")
    /\ IF w[b].ok THEN Goto(b, "delete") /\ UNCHANGED queue ELSE Finish(b, TRUE)
    /\ UNCHANGED <<driver, spec, status, backend, creds>>

\* Garage does not delete a bucket that was written to since it was emptied.
Refuses(b) == Garage /\ Mine(b).objects # {}

\* mutated form: Garage's refusal is taken for a bucket that is gone
Refused_AsGone(b) == Goto(b, "release") /\ UNCHANGED queue

\* The refusal is an error, and the deletion starts over.
Refused(b) == Finish(b, TRUE)

DeleteBucket(b) ==
    /\ w[b].pc = "delete"
    /\ IF Refuses(b) THEN UNCHANGED backend /\ Refused(b)
       ELSE /\ backend' = [backend EXCEPT ![NameOf[b]] = Absent]
            /\ Goto(b, "release") /\ UNCHANGED queue
    /\ UNCHANGED <<driver, spec, status, keys, creds, budget>>

RemoveFinalizer(b) ==
    /\ w[b].pc = "release"
    /\ IF spec[b] = w[b].snap /\ BucketValidate(b)
       THEN spec' = [spec EXCEPT ![b] = Spec0] /\ Finish(b, FALSE)
       ELSE UNCHANGED spec /\ Finish(b, TRUE)
    /\ UNCHANGED <<driver, status, backend, keys, creds, budget>>

-----------------------------------------------------------------------------
(* Disturbances *)

\* The controller restarts and lists all Buckets.
Stop ==
    /\ \E b \in Bucket : w[b].pc # "idle"
    /\ Disturbance("stop")
    /\ w' = [b \in Bucket |-> Idle]
    /\ queue' = {b \in Bucket : Exists(b)}
    /\ UNCHANGED <<driver, spec, status, backend, keys, creds>>

\* mutated form: an error leaves emptyBucket by the shortest way
Failed_KeyLeft(b) ==
    IF w[b].pc \in {"lookup", "create", "quota", "entry", "update"}
    THEN Ensured(b, FALSE) /\ UNCHANGED queue
    ELSE Finish(b, TRUE)

Failed(b) ==
    CASE w[b].pc \in {"lookup", "create", "quota", "entry", "update"} ->
           Ensured(b, FALSE) /\ UNCHANGED queue
      [] Garage /\ w[b].pc \in {"allow", "empty"} ->
           w' = [w EXCEPT ![b].pc = "dropKey", ![b].ok = FALSE] /\ UNCHANGED queue
      [] OTHER -> Finish(b, TRUE)

CallFails(b) ==
    /\ w[b].pc \notin {"idle", "dropKey"}
    /\ Disturbance("callFails")
    /\ Failed(b)
    /\ UNCHANGED <<driver, spec, status, backend, keys, creds>>

\* A bucket or a key is made, and the answer is lost.
AnswerLost(b) ==
    /\ Disturbance("answerLost")
    /\ \/ /\ w[b].pc = "create" /\ ~Mine(b).there
          /\ backend' = [backend EXCEPT ![NameOf[b]] = Created]
          /\ UNCHANGED keys
       \/ /\ w[b].pc = "mkKey"
          /\ keys' = [keys EXCEPT ![NameOf[b]] = @ + 1]
          /\ UNCHANGED backend
    /\ Failed(b)
    /\ UNCHANGED <<driver, spec, status, creds>>

CredsLost ==
    /\ creds
    /\ Disturbance("credsLost")
    /\ creds' = FALSE
    /\ UNCHANGED <<driver, spec, status, backend, keys, queue, w>>

\* EnsureCluster makes the credentials again.
CredsBack ==
    /\ ~creds /\ creds' = TRUE
    /\ UNCHANGED <<driver, spec, status, backend, keys, queue, w, budget>>

\* A client writes an object through b.
Put(b) ==
    /\ Exists(b) /\ Mine(b).there /\ status[b].ready /\ b \notin Mine(b).objects
    /\ Disturbance("put")
    /\ backend' = [backend EXCEPT ![NameOf[b]].objects = @ \cup {b}]
    /\ UNCHANGED <<driver, spec, status, keys, creds, queue, w>>

\* Somebody else changes the filer entry of the bucket.
ExtEdit(n) ==
    /\ driver = "SeaweedFS" /\ backend[n].there
    /\ Disturbance(IF \E b \in Bucket : NameOf[b] = n /\ w[b].pc = "update"
                   THEN "racedEdit" ELSE "extEdit")
    /\ backend' = [backend EXCEPT ![n].ext = 1 - @]
    /\ UNCHANGED <<driver, spec, status, keys, creds, queue, w>>

-----------------------------------------------------------------------------
WorkerStep(b) ==
    \/ Reconcile(b) \/ AddFinalizer(b) \/ Lookup(b) \/ CreateBucket(b)
    \/ ApplyQuota(b) \/ LookupEntry(b) \/ UpdateEntry(b) \/ UpdateStatus(b)
    \/ DeleteLookup(b) \/ CreateKey(b) \/ AllowKey(b) \/ EmptyBucket(b)
    \/ DropKey(b) \/ DeleteBucket(b) \/ RemoveFinalizer(b)

Next ==
    \/ \E b \in Bucket :
         \/ WorkerStep(b) \/ Admit(b) \/ Create(b) \/ Edit(b) \/ Delete(b)
         \/ CallFails(b) \/ AnswerLost(b) \/ Put(b)
    \/ \E n \in Name : ExtEdit(n)
    \/ Stop \/ CredsLost \/ CredsBack

Spec == Init /\ [][Next]_vars

\* The work queue serves every Bucket in it, and EnsureCluster runs again and again.
Fairness ==
    /\ \A b \in Bucket : WF_vars(WorkerStep(b)) /\ WF_vars(Create(b))
    /\ WF_vars(CredsBack)

FairSpec == Spec /\ Fairness

-----------------------------------------------------------------------------
(* Properties *)

\* Two Buckets may pass the webhook together, but only one of them is ever worked
\* on: the finalizer is an update, and the webhook refuses it to the second.
OneHolder ==
    \A b, o \in Bucket : NameOf[b] = NameOf[o] /\ spec[b].fin /\ spec[o].fin => b = o

\* Objects, and the bucket they are in, go only by a reconcile that read reclaim policy
\* Delete, of a Bucket that is still being deleted, and not from under another Bucket
\* that works. The policy is Delete to the end, unless it was changed to Retain while
\* that reconcile was running: a running deletion does not look again.
DataKept ==
    [][\A n \in Name :
         \/ ~backend[n].there
         \/ backend'[n].there /\ backend[n].objects \subseteq backend'[n].objects
         \/ /\ \E b \in Bucket :
                 /\ NameOf[b] = n /\ Destroys(b) /\ spec[b].phase = "deleting"
                 /\ spec[b].reclaim = "Delete" \/ ~Kept("policy")
            /\ \A b \in Bucket : NameOf[b] = n => ~(spec[b].phase = "live" /\ status[b].ready)
      ]_vars

\* A Bucket with reclaim policy Delete is not let go before its bucket is gone, also
\* when clients write while it is emptied; lost admin credentials excepted.
ReclaimComplete ==
    [][\A b \in Bucket :
         spec[b].phase = "deleting" /\ spec'[b].phase = "none" /\ spec[b].reclaim = "Delete"
           => ~backend[NameOf[b]].there \/ ~Kept("creds")]_vars

\* What the status calls applied, the store enforces: a Ready Bucket whose status is
\* of its present generation and says FeaturesApplied has its limits in force.
AppliedIsEnforced ==
    \A b \in Bucket :
      /\ spec[b].phase = "live" /\ status[b].ready /\ status[b].applied
      /\ status[b].obs = spec[b].gen
      => /\ ~spec[b].public
         /\ spec[b].quota.size # 0 => Mine(b).size = spec[b].quota.size
         /\ spec[b].quota.count # 0 => Mine(b).count = spec[b].quota.count

\* The owner key made to empty a Garage bucket lives as long as the call that needs
\* it, on the error paths too; a stop and a lost answer leave it behind.
NoKeyLeft ==
    Kept("keys") =>
      \A n \in Name : keys[n] = Cardinality({b \in Bucket : NameOf[b] = n /\
                                              w[b].pc \in {"allow", "empty", "dropKey"} /\ Garage})

\* A quota update leaves the rest of the filer entry as it was, unless somebody wrote
\* the entry between its two calls.
EntryKept ==
    [][\A n \in Name :
         /\ backend[n].there /\ backend'[n].there /\ Kept("entry")
         => backend'[n].ext = backend[n].ext \/ budget' # budget]_vars

Settled(b) ==
    \/ spec[b].phase # "live"
    \/ status[b].ready /\ status[b].obs = spec[b].gen

\* Every Bucket comes to be Ready at its last generation, edits during a reconcile
\* included, and a deleted one goes; two Buckets of one name block each other.
BucketsSettle ==
    <>[](\A b \in Bucket : Settled(b) /\ spec[b].phase # "deleting") \/ []<>~Kept("unique")

=============================================================================
