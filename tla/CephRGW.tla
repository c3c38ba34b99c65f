------------------------------ MODULE CephRGW ------------------------------
(***************************************************************************)
(* The Ceph RGW driver: the object store, one bucket with its owner user,  *)
(* and access users that are let into the bucket by statements of one      *)
(* shared bucket policy.  Rook turns CephObjectStoreUsers into RGW users   *)
(* with keys, in its own time; a key is rotated by deleting the user and   *)
(* creating it again until Rook has issued another key.                    *)
(*                                                                         *)
(* Every call of a reconcile that another actor can observe or disturb is  *)
(* a step.  Outages of a store that was Ready are the subject of the other *)
(* modules.                                                                *)
(*                                                                         *)
(* Abstractions.                                                           *)
(*  - A policy is one statement per access (its permission) and one that   *)
(*    somebody else wrote, or a text the driver cannot parse.              *)
(*  - The credentials Secret and the status are written in one step; the   *)
(*    calls in between are the subject of module BucketAccess.             *)
(*  - Of the reads through the controller's cache only that of the         *)
(*    BucketAccess can be behind, by the last status write.                *)
(*  - Claims and authorization are left to the modules Binding and         *)
(*    BucketAccess: an access is wanted until it is deleted.               *)
(*  - The owner gets one key in its life: it is deleted with the bucket    *)
(*    and not created again.                                               *)
(***************************************************************************)
EXTENDS Integers, FiniteSets

CONSTANTS
    Access,        \* BucketAccesses
    Worker,        \* how many of them are reconciled at a time
    Reclaims,      \* reclaim policies the bucket may have
    Disturb,       \* the disturbances that may happen
    MaxDisturb     \* how many of them

Owner == "owner"
User == Access \cup {Owner}

Faults == {"stop", "readOwner", "secretLost", "lag"}
Intents == {"rotate", "permission", "deleteAccess", "deleteBucket", "foreign"}

\* What is promised until a disturbance ends it: a key handed out is one RGW keeps,
\* no statement is lost, a revoked access leaves nothing, a deleted bucket leaves
\* nothing, a status is read as it was last written.
Guarantee == {"keys", "statements", "revoked", "deleted", "fresh"}

ASSUME CephAssumption ==
    /\ Owner \notin Access
    /\ Worker \in Nat \ {0}
    /\ Reclaims \subseteq {"Retain", "Delete"}
    /\ Disturb \subseteq Faults \cup Intents
    /\ MaxDisturb \in Nat

NoKey == 0

\* A user's key is at any time in at most six places; a seventh is always new.
Key == 1 .. 7
KeyOrNone == {NoKey} \cup Key
Permission == {"ReadOnly", "ReadWrite"}
NoStmt == "none"

VARIABLES
    rook,     \* rook[u]: the CephObjectStoreUser of u
    secret,   \* secret[u]: the key in the Secret Rook made for u
    rgw,      \* rgw[u]: the key RGW accepts of u
    store,    \* ElasticCluster, CephObjectStore, and the ObjectStore's Ready
    bucket,   \* the Bucket, and the bucket in RGW
    policy,   \* the bucket policy in RGW
    access,   \* access[a]: the BucketAccess and its credentials Secret
    bw,       \* the worker of the Bucket
    aw,       \* aw[a]: the worker of access a
    budget    \* disturbances left, and the guarantees they left intact

vars == <<rook, secret, rgw, store, bucket, policy, access, bw, aw, budget>>

-----------------------------------------------------------------------------
(* Types *)

\* A conditioned statement has parts (a Condition, say) that policyStatement has
\* no field for.
Policy == [stmt: [Access -> Permission \cup {NoStmt}],
           foreign: {"none", "plain", "conditioned", "garbled"}]
NoPolicy == [stmt |-> [a \in Access |-> NoStmt], foreign |-> "none"]

Phase == {"live", "deleting", "gone"}

\* What a reconcile reads of a BucketAccess.  want: the rotate annotation, obs:
\* status.observedRotation; rec: status.accessKeyID.
Version == [phase: Phase, perm: Permission, want: 0 .. MaxDisturb, obs: 0 .. MaxDisturb,
            rec: KeyOrNone]
NoVersion == [phase |-> "live", perm |-> "ReadOnly", want |-> 0, obs |-> 0, rec |-> NoKey]

\* cred: the key in the credentials Secret; due: the access is in the work queue;
\* lag: the controller's cache still has the version old.
AccessObject ==
    [phase: Phase, perm: Permission, want: 0 .. MaxDisturb, obs: 0 .. MaxDisturb,
     rec: KeyOrNone, cred: KeyOrNone, ready: BOOLEAN, due: BOOLEAN,
     lag: BOOLEAN, old: Version]
NewAccess ==
    [phase |-> "live", perm |-> "ReadOnly", want |-> 0, obs |-> 0,
     rec |-> NoKey, cred |-> NoKey, ready |-> FALSE, due |-> TRUE,
     lag |-> FALSE, old |-> NoVersion]

BucketPC == {"idle", "keys", "delBucket", "delOwner", "release"}
AccessPC == {"idle", "delUser", "newUser", "mkUser", "keys", "readPolicy",
             "writePolicy", "record", "readDrop", "writeDrop", "dropUser", "release"}

\* rot, rec, perm: the annotation, the recorded key and the permission as read; key:
\* the key in hand; read: the policy as parsed.
AccessWorker == [pc: AccessPC, rot: 0 .. MaxDisturb, rec: KeyOrNone, key: KeyOrNone,
                 perm: Permission, read: Policy]
IdleWorker == [pc |-> "idle", rot |-> 0, rec |-> NoKey, key |-> NoKey,
               perm |-> "ReadOnly", read |-> NoPolicy]

\* The types of the store, the users, the policy, the accesses and the workers.
TypeOK ==
    /\ rook \in [User -> {"absent", "live", "going"}]
    /\ secret \in [User -> KeyOrNone]
    /\ rgw \in [User -> KeyOrNone]
    /\ store \in [elastic: BOOLEAN, cos: {"absent", "creating", "ready"}, ready: BOOLEAN]
    /\ bucket \in [phase: Phase, ready: BOOLEAN, exists: BOOLEAN, reclaim: Reclaims]
    /\ policy \in Policy
    /\ access \in [Access -> AccessObject]
    /\ bw \in BucketPC
    /\ aw \in [Access -> AccessWorker]
    /\ budget \in [left: 0 .. MaxDisturb, kept: SUBSET Guarantee]

Init ==
    /\ rook = [u \in User |-> "absent"]
    /\ secret = [u \in User |-> NoKey]
    /\ rgw = [u \in User |-> NoKey]
    /\ store = [elastic |-> FALSE, cos |-> "absent", ready |-> FALSE]
    /\ bucket \in [phase: {"live"}, ready: {FALSE}, exists: {FALSE}, reclaim: Reclaims]
    /\ policy = NoPolicy
    /\ access = [a \in Access |-> NewAccess]
    /\ bw = "idle"
    /\ aw = [a \in Access |-> IdleWorker]
    /\ budget = [left |-> MaxDisturb, kept |-> Guarantee]

Kept(g) == g \in budget.kept

Disturbance(d, ends) ==
    /\ d \in Disturb
    /\ budget.left > 0
    /\ budget' = [left |-> budget.left - 1, kept |-> budget.kept \ ends]

-----------------------------------------------------------------------------
(* Rook and RGW *)

\* A key of u that is in nobody's hands.
FreshKey(u) ==
    CHOOSE k \in Key :
        k \notin IF u = Owner THEN {}
                 ELSE {secret[u], access[u].rec, access[u].cred, access[u].old.rec,
                       aw[u].key, aw[u].rec}

\* A user gets its key, and the Secret is written with it.
IssueKey(u) ==
    /\ rook[u] = "live"
    /\ store.cos = "ready"
    /\ rgw[u] = NoKey
    /\ rgw' = [rgw EXCEPT ![u] = FreshKey(u)]
    /\ secret' = [secret EXCEPT ![u] = FreshKey(u)]
    /\ UNCHANGED <<rook, store, bucket, policy, access, bw, aw, budget>>

\* A Secret that is missing is written again.
RestoreSecret(u) ==
    /\ rook[u] = "live"
    /\ rgw[u] # NoKey
    /\ secret[u] = NoKey
    /\ secret' = [secret EXCEPT ![u] = rgw[u]]
    /\ UNCHANGED <<rook, rgw, store, bucket, policy, access, bw, aw, budget>>

\* A deleted user loses its key behind Rook's finalizer ...
RemoveUser(u) ==
    /\ rook[u] = "going"
    /\ rook' = [rook EXCEPT ![u] = "absent"]
    /\ rgw' = [rgw EXCEPT ![u] = NoKey]
    /\ UNCHANGED <<secret, store, bucket, policy, access, bw, aw, budget>>

\* ... and its Secret is garbage collected some time later.
CollectSecret(u) ==
    /\ rook[u] = "absent"
    /\ secret[u] # NoKey
    /\ secret' = [secret EXCEPT ![u] = NoKey]
    /\ UNCHANGED <<rook, rgw, store, bucket, policy, access, bw, aw, budget>>

\* The object store comes up.
StoreUp ==
    /\ store.cos = "creating"
    /\ store' = [store EXCEPT !.cos = "ready"]
    /\ UNCHANGED <<rook, secret, rgw, bucket, policy, access, bw, aw, budget>>

-----------------------------------------------------------------------------
(* EnsureCluster, ensureUser, deleteUser *)

\* ensureObjectStore renders a missing CephObjectStore.
ensureObjectStore(cos) == IF cos = "absent" THEN "creating" ELSE cos

\* EnsureCluster gates on the ElasticCluster, renders the CephObjectStore, and is
\* ready when that is.
EnsureCluster ==
    LET cos == IF store.elastic THEN ensureObjectStore(store.cos) ELSE store.cos
        new == [store EXCEPT !.cos = cos, !.ready = store.elastic /\ cos = "ready"]
    IN  /\ new # store
        /\ store' = new
        /\ UNCHANGED <<rook, secret, rgw, bucket, policy, access, bw, aw, budget>>

\* ensureUser creates a missing user; one that is going is found and left as it is.
ensureUser(u) == rook' = [rook EXCEPT ![u] = IF @ = "absent" THEN "live" ELSE @]

deleteUser(u) == rook' = [rook EXCEPT ![u] = IF @ = "absent" THEN @ ELSE "going"]

-----------------------------------------------------------------------------
(* The Bucket: EnsureBucket and DeleteBucket *)

\* A Bucket that is not Ready is reconciled until it is: EnsureBucket starts with
\* the owner user.
EnsureOwner ==
    /\ bw = "idle"
    /\ bucket.phase = "live"
    /\ store.ready
    /\ ~bucket.ready
    /\ ensureUser(Owner)
    /\ bw' = "keys"
    /\ UNCHANGED <<secret, rgw, store, bucket, policy, access, aw, budget>>

\* userKeys: without keys the bucket waits for Rook; s3util.EnsureBucket creates it
\* with the owner's key, and the status says Ready.
CreateBucket ==
    /\ bw = "keys"
    /\ bucket' = IF secret[Owner] = NoKey THEN bucket
                 ELSE [bucket EXCEPT !.exists = TRUE, !.ready = TRUE]
    /\ bw' = "idle"
    /\ UNCHANGED <<rook, secret, rgw, store, policy, access, aw, budget>>

DeleteBucket_Retain ==   \* mutated form: the reclaim policy is not looked at
    /\ bw = "idle"
    /\ bucket.phase = "deleting"
    /\ bw' = IF secret[Owner] # NoKey THEN "delBucket" ELSE "delOwner"
    /\ UNCHANGED <<rook, secret, rgw, store, bucket, policy, access, aw, budget>>

\* DeleteBucket leaves a retained bucket alone; without keys to delete the bucket
\* with, only the owner goes.
DeleteBucket ==
    /\ bw = "idle"
    /\ bucket.phase = "deleting"
    /\ bw' = CASE bucket.reclaim = "Retain" -> "release"
               [] bucket.reclaim = "Delete" /\ secret[Owner] # NoKey -> "delBucket"
               [] OTHER -> "delOwner"
    /\ UNCHANGED <<rook, secret, rgw, store, bucket, policy, access, aw, budget>>

\* s3util.DeleteBucket empties the bucket and removes it, and its policy with it;
\* it fails with a key that RGW no longer accepts.
RemoveBucket ==
    /\ bw = "delBucket"
    /\ IF rgw[Owner] # NoKey
       THEN /\ bucket' = [bucket EXCEPT !.exists = FALSE]
            /\ policy' = NoPolicy
            /\ bw' = "delOwner"
       ELSE bw' = "idle" /\ UNCHANGED <<bucket, policy>>
    /\ UNCHANGED <<rook, secret, rgw, store, access, aw, budget>>

RemoveOwner ==
    /\ bw = "delOwner"
    /\ deleteUser(Owner)
    /\ bw' = "release"
    /\ UNCHANGED <<secret, rgw, store, bucket, policy, access, aw, budget>>

\* The Bucket's finalizer goes last.
ReleaseBucket ==
    /\ bw = "release"
    /\ bucket' = [bucket EXCEPT !.phase = "gone"]
    /\ bw' = "idle"
    /\ UNCHANGED <<rook, secret, rgw, store, policy, access, aw, budget>>

-----------------------------------------------------------------------------
(* The policy document *)

\* parsePolicy: what policyStatement has no field for is dropped.
parsePolicy(p) == [p EXCEPT !.foreign = IF @ = "conditioned" THEN "plain" ELSE @]

Parses(p) == p.foreign # "garbled"

upsert_Alone(p, a, perm) == [NoPolicy EXCEPT !.stmt[a] = perm]   \* mutated form

upsert(p, a, perm) == [p EXCEPT !.stmt[a] = perm]
remove(p, a) == [p EXCEPT !.stmt[a] = NoStmt]

\* The owner's key is accepted and there is a bucket to have a policy.
OwnerServes == bucket.exists /\ rgw[Owner] # NoKey

PolicyReadable_Open == OwnerServes   \* mutated form: fails open

\* GetBucketPolicy succeeds and the policy is one the driver understands; anything
\* else fails the reconcile.
PolicyReadable == OwnerServes /\ Parses(policy)

\* The policy is written back only if it changed, and only if RGW takes it.
SetPolicy(old, new) ==
    policy' = IF new # old /\ OwnerServes THEN new ELSE policy

-----------------------------------------------------------------------------
(* EnsureAccess *)

Goto(a, p) == aw' = [aw EXCEPT ![a].pc = p]
Idle(a) == aw' = [aw EXCEPT ![a] = IdleWorker]

WorkerFree == Cardinality({a \in Access : aw[a].pc # "idle"}) < Worker

NotReady_Once(a) ==   \* mutated form: the reconcile is not tried again
    /\ Idle(a)
    /\ access' = [access EXCEPT ![a].ready = FALSE]

\* The reconcile ends without the access being ready, and is tried again.  The status
\* is written with the recorded key as read; with a cache that is behind, the write
\* is a conflict and left out.
NotReady(a) ==
    /\ Idle(a)
    /\ access' = IF access[a].lag THEN [access EXCEPT ![a].due = TRUE]
                 ELSE [access EXCEPT ![a].ready = FALSE, ![a].due = TRUE,
                                     ![a].rec = IF aw[a].rec = NoKey THEN @ ELSE aw[a].rec]

\* The BucketAccess as it is, and as the cache has it.
Current(a) == [phase |-> access[a].phase, perm |-> access[a].perm, want |-> access[a].want,
               obs |-> access[a].obs, rec |-> access[a].rec]
Seen(a) == IF access[a].lag THEN access[a].old ELSE Current(a)

\* mintFresh: a rotation is due, or there are no credentials yet.  The credentials
\* Secret is read past the cache.
mintFresh(v, cred) == v.want # v.obs \/ v.rec = NoKey \/ cred = NoKey

NeedsNewUser_Any(recorded, k) == k = NoKey   \* mutated form: any key is new enough

\* A key is fresh when it is not the recorded one.
NeedsNewUser(recorded, k) == k = NoKey \/ k = recorded

\* The reconcile starts; EnsureAccess reads the user's keys.  Until Rook has
\* issued a fresh one the user is deleted and created again.
TakeAccess(a) ==
    /\ Seen(a).phase = "live"
    /\ access[a].due
    /\ aw[a].pc = "idle"
    /\ WorkerFree
    /\ bucket.ready
    /\ bucket.phase # "gone"
    /\ LET v == Seen(a)
           k == secret[a]
           fresh == mintFresh(v, access[a].cred)
           next == CASE ~fresh -> "mkUser"
                     [] fresh /\ NeedsNewUser(v.rec, k) -> "delUser"
                     [] OTHER -> "readPolicy"
       IN  aw' = [aw EXCEPT ![a] =
                   [pc |-> next, rot |-> v.want, rec |-> v.rec, perm |-> v.perm,
                    key |-> IF next = "readPolicy" THEN k ELSE NoKey, read |-> NoPolicy]]
    /\ access' = [access EXCEPT ![a].due = FALSE]
    /\ UNCHANGED <<rook, secret, rgw, store, bucket, policy, bw, budget>>

\* If Rook has issued a fresh key since the keys were read, the user goes with it,
\* and the next reconcile may still find that key in the Secret.  A status read too
\* late may call for a key that was issued already.
DeleteForRotation(a) ==
    /\ aw[a].pc = "delUser"
    /\ deleteUser(a)
    /\ Goto(a, "newUser")
    /\ budget' = IF NeedsNewUser(aw[a].rec, secret[a]) /\ mintFresh(Current(a), access[a].cred)
                 THEN budget ELSE [budget EXCEPT !.kept = @ \ {"keys"}]
    /\ UNCHANGED <<secret, rgw, store, bucket, policy, access, bw>>

CreateForRotation(a) ==
    /\ aw[a].pc = "newUser"
    /\ ensureUser(a)
    /\ NotReady(a)
    /\ UNCHANGED <<secret, rgw, store, bucket, policy, bw, budget>>

EnsureAccessUser(a) ==
    /\ aw[a].pc = "mkUser"
    /\ ensureUser(a)
    /\ Goto(a, "keys")
    /\ UNCHANGED <<secret, rgw, store, bucket, policy, access, bw, budget>>

ReadAccessKeys(a) ==
    /\ aw[a].pc = "keys"
    /\ IF secret[a] = NoKey
       THEN NotReady(a)
       ELSE aw' = [aw EXCEPT ![a].pc = "readPolicy", ![a].key = secret[a]] /\ UNCHANGED access
    /\ UNCHANGED <<rook, secret, rgw, store, bucket, policy, bw, budget>>

\* grantBucketAccess: the owner's keys are read, and with them the policy; it
\* fails closed ...
ReadPolicy(a) ==
    /\ aw[a].pc = "readPolicy"
    /\ IF secret[Owner] # NoKey /\ PolicyReadable
       THEN /\ aw' = [aw EXCEPT ![a].pc = "writePolicy",
                                ![a].read = IF Parses(policy) THEN parsePolicy(policy) ELSE NoPolicy]
            /\ UNCHANGED access
       ELSE NotReady(a)
    /\ UNCHANGED <<rook, secret, rgw, store, bucket, policy, bw, budget>>

\* ... and the statement of this user is put into what was read, and that is
\* written back.
WritePolicy(a) ==
    /\ aw[a].pc = "writePolicy"
    /\ SetPolicy(aw[a].read, upsert(aw[a].read, a, aw[a].perm))
    /\ IF OwnerServes THEN Goto(a, "record") /\ UNCHANGED access ELSE NotReady(a)
    /\ UNCHANGED <<rook, secret, rgw, store, bucket, bw, budget>>

\* The credentials Secret and the status take the key; the rotation is observed.  The
\* status is written over the latest version, or not at all.  The cache may stay
\* behind, and an event of the claim start another reconcile at once.
Record(a) ==
    /\ aw[a].pc = "record"
    /\ ~access[a].lag
    /\ LET done == [access[a] EXCEPT !.rec = aw[a].key, !.cred = aw[a].key,
                                     !.obs = aw[a].rot, !.ready = TRUE]
       IN  \/ access' = [access EXCEPT ![a] = done] /\ UNCHANGED budget
           \/ /\ Disturbance("lag", {"fresh"})
              /\ access' = [access EXCEPT ![a] = [done EXCEPT !.due = TRUE, !.lag = TRUE,
                                                              !.old = Current(a)]]
    /\ Idle(a)
    /\ UNCHANGED <<rook, secret, rgw, store, bucket, policy, bw>>

\* The cache catches up; what it brings is an event.
CacheSync(a) ==
    /\ access[a].lag
    /\ access' = [access EXCEPT ![a].lag = FALSE, ![a].old = NoVersion,
                      ![a].due = @ \/ access[a].want # access[a].old.want
                                   \/ access[a].perm # access[a].old.perm]
    /\ UNCHANGED <<rook, secret, rgw, store, bucket, policy, bw, aw, budget>>

\* A Bucket that is gone takes the credentials with it; the driver is not asked.
BucketLost(a) ==
    /\ access[a].phase = "live"
    /\ ~access[a].lag
    /\ aw[a].pc = "idle"
    /\ bucket.phase = "gone"
    /\ access[a].rec # NoKey
    /\ access' = [access EXCEPT ![a].rec = NoKey, ![a].cred = NoKey, ![a].ready = FALSE]
    /\ UNCHANGED <<rook, secret, rgw, store, bucket, policy, bw, aw, budget>>

-----------------------------------------------------------------------------
(* DeleteAccess *)

Released(a) ==
    /\ ~access[a].lag
    /\ access' = [access EXCEPT ![a] = [NewAccess EXCEPT !.phase = "gone", !.due = FALSE]]

\* The owner's keys are read; the policy is left alone if they are missing or that
\* fails.  Without a Bucket there is nothing to revoke.
DeleteAccess(a) ==
    /\ aw[a].pc = "idle"
    /\ WorkerFree
    /\ Seen(a).phase = "deleting"
    /\ \/ bucket.phase = "gone" /\ Released(a) /\ UNCHANGED <<aw, budget>>
       \/ /\ bucket.phase # "gone"
          /\ UNCHANGED access
          /\ \/ Goto(a, IF secret[Owner] = NoKey THEN "dropUser" ELSE "readDrop") /\ UNCHANGED budget
             \/ Disturbance("readOwner", {"revoked"}) /\ Goto(a, "dropUser")
    /\ UNCHANGED <<rook, secret, rgw, store, bucket, policy, bw>>

ReadToDrop(a) ==
    /\ aw[a].pc = "readDrop"
    /\ IF PolicyReadable
       THEN aw' = [aw EXCEPT ![a].pc = "writeDrop", ![a].read = parsePolicy(policy)]
       ELSE Idle(a)
    /\ UNCHANGED <<rook, secret, rgw, store, bucket, policy, access, bw, budget>>

WriteDrop_Keep(a) ==   \* mutated form: the statement is not removed
    /\ aw[a].pc = "writeDrop"
    /\ Goto(a, "dropUser")
    /\ UNCHANGED <<rook, secret, rgw, store, bucket, policy, access, bw, budget>>

WriteDrop(a) ==
    /\ aw[a].pc = "writeDrop"
    /\ SetPolicy(aw[a].read, remove(aw[a].read, a))
    /\ IF OwnerServes THEN Goto(a, "dropUser") ELSE Idle(a)
    /\ UNCHANGED <<rook, secret, rgw, store, bucket, access, bw, budget>>

DropUser(a) ==
    /\ aw[a].pc = "dropUser"
    /\ deleteUser(a)
    /\ Goto(a, "release")
    /\ UNCHANGED <<secret, rgw, store, bucket, policy, access, bw, budget>>

\* The finalizer of the access goes last.
ReleaseAccess(a) ==
    /\ aw[a].pc = "release"
    /\ Released(a)
    /\ Idle(a)
    /\ UNCHANGED <<rook, secret, rgw, store, bucket, policy, bw, budget>>

-----------------------------------------------------------------------------
(* Faults, and what users and administrators do *)

\* The controller is restarted: reconciles in flight are gone, all are due, and the
\* cache is filled anew.
Stop ==
    /\ Disturbance("stop", {})
    /\ bw' = "idle"
    /\ aw' = [a \in Access |-> IdleWorker]
    /\ access' = [a \in Access |-> [access[a] EXCEPT !.due = @ \/ access[a].phase # "gone",
                                                     !.lag = FALSE, !.old = NoVersion]]
    /\ UNCHANGED <<rook, secret, rgw, store, bucket, policy>>

\* A Secret Rook made is deleted.  Without the owner's keys a deletion skips the
\* policy, and the bucket.
SecretLost(u) ==
    /\ secret[u] # NoKey
    /\ Disturbance("secretLost", IF u = Owner THEN {"revoked", "deleted"} ELSE {})
    /\ secret' = [secret EXCEPT ![u] = NoKey]
    /\ UNCHANGED <<rook, rgw, store, bucket, policy, access, bw, aw>>

\* The ElasticCluster becomes Ready.
ElasticUp ==
    /\ ~store.elastic
    /\ store' = [store EXCEPT !.elastic = TRUE]
    /\ UNCHANGED <<rook, secret, rgw, bucket, policy, access, bw, aw, budget>>

Rotate(a) ==
    /\ access[a].phase = "live"
    /\ Disturbance("rotate", {})
    /\ access' = [access EXCEPT ![a].want = @ + 1, ![a].due = @ \/ ~access[a].lag]
    /\ UNCHANGED <<rook, secret, rgw, store, bucket, policy, bw, aw>>

ChangePermission(a) ==
    /\ access[a].phase = "live"
    /\ access[a].perm = "ReadOnly"
    /\ Disturbance("permission", {})
    /\ access' = [access EXCEPT ![a].perm = "ReadWrite", ![a].due = @ \/ ~access[a].lag]
    /\ UNCHANGED <<rook, secret, rgw, store, bucket, policy, bw, aw>>

UserDeletesAccess(a) ==
    /\ access[a].phase = "live"
    /\ Disturbance("deleteAccess", {})
    /\ access' = [access EXCEPT ![a].phase = "deleting"]
    /\ UNCHANGED <<rook, secret, rgw, store, bucket, policy, bw, aw>>

\* A Bucket deleted before its accesses leaves them nothing to be revoked from.
AdminDeletesBucket ==
    /\ bucket.phase = "live"
    /\ Disturbance("deleteBucket", {"revoked"})
    /\ bucket' = [bucket EXCEPT !.phase = "deleting"]
    /\ UNCHANGED <<rook, secret, rgw, store, policy, access, bw, aw>>

\* Somebody with the owner's key edits the rest of the policy.  An update that has
\* been read and not yet written overwrites it.
ForeignEdit(f) ==
    /\ bucket.exists
    /\ f # policy.foreign
    /\ Disturbance("foreign", IF \E a \in Access : aw[a].pc \in {"writePolicy", "writeDrop"}
                              THEN {"statements"} ELSE {})
    /\ policy' = [policy EXCEPT !.foreign = f]
    /\ UNCHANGED <<rook, secret, rgw, store, bucket, access, bw, aw>>

-----------------------------------------------------------------------------
(* The specification *)

RookStep(u) == IssueKey(u) \/ RestoreSecret(u) \/ RemoveUser(u) \/ CollectSecret(u)

BucketStep ==
    \/ EnsureOwner \/ CreateBucket
    \/ DeleteBucket \/ RemoveBucket \/ RemoveOwner \/ ReleaseBucket

AccessStep(a) ==
    \/ TakeAccess(a) \/ DeleteForRotation(a) \/ CreateForRotation(a)
    \/ EnsureAccessUser(a) \/ ReadAccessKeys(a) \/ ReadPolicy(a) \/ WritePolicy(a)
    \/ Record(a) \/ BucketLost(a)
    \/ DeleteAccess(a) \/ ReadToDrop(a) \/ WriteDrop(a) \/ DropUser(a) \/ ReleaseAccess(a)

Environment ==
    \/ Stop \/ AdminDeletesBucket
    \/ \E u \in User : SecretLost(u)
    \/ \E a \in Access : Rotate(a) \/ ChangePermission(a) \/ UserDeletesAccess(a)
    \/ \E f \in {"none", "conditioned", "garbled"} : ForeignEdit(f)

Next ==
    \/ EnsureCluster \/ StoreUp \/ ElasticUp
    \/ BucketStep
    \/ \E u \in User : RookStep(u)
    \/ \E a \in Access : AccessStep(a) \/ CacheSync(a)
    \/ Environment

Spec == Init /\ [][Next]_vars

\* Reconciles are queued until they succeed; Rook's operator works off its own
\* queue, and the cache follows its watch.  Every access gets its turn at the
\* workers (SF).  A reconcile that finds no new key deletes the user again, so the
\* last line is needed: some time Rook issues the key between two reconciles, which
\* are RequeueInterval apart.
Fairness ==
    /\ WF_vars(EnsureCluster) /\ WF_vars(StoreUp) /\ WF_vars(ElasticUp)
    /\ WF_vars(BucketStep)
    /\ \A u \in User : WF_vars(RookStep(u))
    /\ \A a \in Access : SF_vars(AccessStep(a)) /\ WF_vars(CacheSync(a))
    /\ \A a \in Access : SF_vars(aw[a].pc = "idle" /\ IssueKey(a))

FairSpec == Spec /\ Fairness

-----------------------------------------------------------------------------
(* Properties *)

\* An access that says it is Ready, with no rotation asked for.
Serving(a) ==
    /\ access[a].phase = "live" /\ access[a].ready
    /\ access[a].want = access[a].obs
    /\ bucket.phase = "live"

\* The key in the credentials Secret of a Ready access is the one RGW accepts of a
\* user that stays (access.go EnsureAccess).
ReadyHasKey ==
    \A a \in Access : Serving(a) => access[a].cred = rgw[a] /\ rook[a] = "live"

\* A key and a statement behind every Ready access: the key in its credentials
\* Secret is the one RGW accepts, and the bucket policy has a statement for its
\* user.  Policy updates of other accesses, unparseable policies, restarts and
\* rotations cut short take neither away (access.go EnsureAccess,
\* updateBucketPolicy), as long as Rook issues no key just when the user is about to
\* be deleted again.
ReadyWorks ==
    /\ Kept("keys") => ReadyHasKey
    /\ Kept("statements") =>
         \A a \in Access : Serving(a) => policy.stmt[a] # NoStmt

\* A policy update touches one statement: what other accesses were granted and what
\* others wrote is still in the policy it writes (up to the fields policyStatement
\* has no name for, such as a Condition), and a policy that does not parse is not
\* written at all (access.go updateBucketPolicy, "Fail closed").
OthersKept ==
    [][\A a \in Access :
         /\ aw[a].pc \in {"writePolicy", "writeDrop"} /\ aw'[a] # aw[a]
         /\ Kept("statements")
         => /\ \A b \in Access \ {a} : policy'.stmt[b] = policy.stmt[b]
            /\ parsePolicy(policy').foreign = parsePolicy(policy).foreign]_vars

\* A deleted access leaves nothing behind: no statement in the bucket policy and no
\* user that is not on its way out, whatever restarts and updates of other accesses
\* come in between, provided the owner's keys could be read (access.go DeleteAccess).
RevokedLeavesNothing ==
    \A a \in Access :
        access[a].phase = "gone" /\ Kept("revoked") /\ Kept("statements")
        => policy.stmt[a] = NoStmt /\ rook[a] # "live"

\* The reclaim policy decides over the data: under Delete nothing is left of a
\* Bucket that is gone, under Retain its bucket, once created, and the owner user
\* that makes it accessible stay (buckets.go DeleteBucket).
ReclaimHonoured ==
    bucket.phase = "gone" =>
        IF bucket.reclaim = "Delete"
        THEN Kept("deleted") => ~bucket.exists /\ rook[Owner] # "live"
        ELSE bucket.ready => bucket.exists /\ rook[Owner] = "live"

\* A rotation that is reported done handed out another key: the user had been
\* deleted and created again in between, unless a reconcile read a status that had
\* been written over (access.go EnsureAccess, mintFresh).
RotationChangesKey ==
    [][\A a \in Access :
         access'[a].obs > access[a].obs /\ access[a].rec # NoKey /\ Kept("fresh")
         => access'[a].cred # access[a].cred]_vars

Settled(a) ==
    /\ access[a].ready
    /\ access[a].obs = access[a].want
    /\ access[a].cred = rgw[a]
    /\ policy.stmt[a] = access[a].perm

\* Every access that stays wanted is served in the end, with the permission and the
\* rotation asked for, and every deleted one is released, if the policy can be
\* parsed and Rook does not issue a key just when the user is deleted again
\* (access.go EnsureAccess, DeleteAccess; RequeueInterval).
Converges ==
    \A a \in Access :
        (<>[](bucket.phase = "live" /\ Kept("keys") /\ Kept("statements") /\ Parses(policy))) =>
            /\ <>[](access[a].phase = "live") => <>[]Settled(a)
            /\ access[a].phase = "deleting" ~> access[a].phase = "gone"

=============================================================================
