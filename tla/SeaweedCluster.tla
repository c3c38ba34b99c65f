--------------------------- MODULE SeaweedCluster ---------------------------
(***************************************************************************)
(* The data plane of the SeaweedFS driver: EnsureCluster, DeleteCluster    *)
(* and what they lean on.  A store of redundancy High keeps its filer      *)
(* metadata in a PostgreSQL database that managed-postgres runs: the       *)
(* driver asks for it with a Postgres object, waits for the credentials,   *)
(* renders them into filer.toml and rolls master, volume and filer out.    *)
(* Then it bootstraps the S3 admin identity on the filer.                  *)
(*                                                                         *)
(* Every call of a reconcile that another actor can observe or disturb is  *)
(* a step of the worker.  The StatefulSet controller, the garbage          *)
(* collector and managed-postgres take steps of their own.                 *)
(*                                                                         *)
(* Abstractions.                                                           *)
(*  - The masters are up together or not at all, and so are the volume     *)
(*    servers; filer pods are told apart, for each may have read another   *)
(*    filer.toml.  A component's claims are made and removed together.     *)
(*  - Services are applied with the step that starts the reconcile.        *)
(*  - The host in the credentials Secret is left out: it comes and goes,   *)
(*    and the driver falls back on a name that is always right.            *)
(*  - A filer that cannot log into the database exits and is started       *)
(*    again with the filer.toml of that moment; one that has logged in     *)
(*    keeps running, whatever happens to the Secret.                       *)
(***************************************************************************)
EXTENDS Integers, FiniteSets

CONSTANTS
    Redundancies,  \* spec.redundancy the store may have
    Reclaims,      \* spec.reclaimPolicy the store may have
    Disturb,       \* the disturbances that may happen
    MaxDisturb     \* how many of them

Faults == {"stop", "callFails", "staleRead", "podLost", "pgOperatorStops",
           "drift", "adminLost", "pgLost"}
Intents == {"scale", "delete", "deleteInRollout", "podLostInTeardown"}

\* What is promised until a disturbance ends it: the database password stays the
\* one the filers read, the admin Secret stays, a deletion finds every claim.
Guarantee == {"password", "admin", "reclaim"}

Voids(d) ==
    CASE d = "pgLost" -> {"password", "admin"}
      [] d = "adminLost" -> {"admin"}
      [] d \in {"deleteInRollout", "podLostInTeardown"} -> {"reclaim"}
      [] OTHER -> {}

ASSUME SeaweedAssumption ==
    /\ Redundancies \subseteq {"None", "Standard", "High"}
    /\ Reclaims \subseteq {"Retain", "Delete"}
    /\ Disturb \subseteq Faults \cup Intents
    /\ MaxDisturb \in Nat

Comp == {"master", "volume", "filer"}

\* Passwords and admin keys: there are twelve places to keep one (InUse), so that
\* of thirteen one is always new.
None == 0
Word == 1 .. 13
WordOrNone == {None} \cup Word

VARIABLES
    store,     \* the ObjectStore: spec, phase, and the Ready condition
    postgres,  \* the Postgres object
    creds,     \* password in the Secret managed-postgres writes
    role,      \* password the database accepts
    operator,  \* managed-postgres: a password it has not recorded yet
    config,    \* the filer.toml Secret
    sets,      \* sets[c]: the replicas of the StatefulSet of c, 0: not there
    claims,    \* claims[c]: the PersistentVolumeClaims of c
    up,        \* master and volume servers that are ready
    filer,     \* filer[i]: the i-th filer pod
    admin,     \* key in the S3 admin Secret
    identity,  \* key of the admin identity on the filer
    w,         \* the worker of the ObjectStore
    budget     \* disturbances left, and the guarantees they left intact

vars == <<store, postgres, creds, role, operator, config, sets, claims, up,
          filer, admin, identity, w, budget>>

-----------------------------------------------------------------------------
(* Types *)

\* ours: the fields the driver manages are as it wants them
Postgres == [there: BOOLEAN, ours: BOOLEAN, hash: WordOrNone]
NoPostgres == [there |-> FALSE, ours |-> FALSE, hash |-> None]

Pod == [up: BOOLEAN, word: WordOrNone]
Down == [up |-> FALSE, word |-> None]
NoConfig == [there |-> FALSE, word |-> None]

PC == {"idle", "getPostgres", "putPostgres", "creds", "config", "master",
       "volume", "filer", "rollout", "getAdmin", "putAdmin", "identity", "status",
       "listClaims", "dropClaims", "release"}

\* seen: the Postgres object as read; word: the password or the key in hand;
\* list: the claims still to delete; ready: what the status will say
Worker == [pc: PC, seen: Postgres, word: WordOrNone, list: SUBSET Comp,
           ready: BOOLEAN]
Idle == [pc |-> "idle", seen |-> NoPostgres, word |-> None, list |-> {},
         ready |-> FALSE]

\* The types of the store, the database, the pods, the claims and the worker.
TypeOK ==
    /\ store \in [redundancy: Redundancies, reclaim: Reclaims, nodes: 0 .. 4,
                  phase: {"live", "deleting", "gone"}, ready: BOOLEAN]
    /\ postgres \in Postgres
    /\ {creds, role, operator, admin, identity} \subseteq WordOrNone
    /\ config \in [there: BOOLEAN, word: WordOrNone]
    /\ sets \in [Comp -> 0 .. 4]
    /\ claims \in [Comp -> {"none", "bound", "going"}]
    /\ up \subseteq {"master", "volume"}
    /\ filer \in [1 .. 3 -> Pod]
    /\ w \in Worker
    /\ budget \in [left: 0 .. MaxDisturb, kept: SUBSET Guarantee]

-----------------------------------------------------------------------------
(* The spec of the store *)

High == store.redundancy = "High"

minVolumeNodes(r) == CASE r = "None" -> 1 [] r = "High" -> 3 [] OTHER -> 2

\* spec.storage.nodes, 0 when it is left out
ObjectStoreValidate(r, nodes) == nodes > 0 => nodes >= minVolumeNodes(r)

topology(r) ==
    CASE r = "None" -> [master |-> 1, volume |-> 1]
      [] r = "High" -> [master |-> 3, volume |-> 4]
      [] OTHER -> [master |-> 3, volume |-> 3]

volumeServers == IF store.nodes >= 1 THEN store.nodes ELSE topology(store.redundancy).volume

usesPostgres == High

filerReplicas == IF usesPostgres THEN 3 ELSE 1

Replicas(c) ==
    CASE c = "master" -> topology(store.redundancy).master
      [] c = "volume" -> volumeServers
      [] OTHER -> filerReplicas

\* The filer of a store without a database keeps its metadata on a claim.
HasClaim(c) == c # "filer" \/ ~usesPostgres

InUse ==
    {postgres.hash, w.seen.hash, creds, role, operator, config.word, admin,
     identity, w.word} \cup {filer[i].word : i \in 1 .. 3}

\* randomHex, and the generator of managed-postgres
Fresh == CHOOSE n \in Word : n \notin InUse

Init ==
    /\ \E r \in Redundancies, p \in Reclaims, n \in {0, 2, 3} :
         /\ ObjectStoreValidate(r, n)
         /\ store = [redundancy |-> r, reclaim |-> p, nodes |-> n,
                     phase |-> "live", ready |-> FALSE]
    /\ postgres = NoPostgres
    /\ creds = None /\ role = None /\ operator = None
    /\ config = NoConfig
    /\ sets = [c \in Comp |-> 0]
    /\ claims = [c \in Comp |-> "none"]
    /\ up = {}
    /\ filer = [i \in 1 .. 3 |-> Down]
    /\ admin = None /\ identity = None
    /\ w = Idle
    /\ budget = [left |-> MaxDisturb, kept |-> Guarantee]

Disturbance(d) ==
    /\ d \in Disturb
    /\ budget.left > 0
    /\ budget' = [left |-> budget.left - 1, kept |-> budget.kept \ Voids(d)]

Kept(g) == g \in budget.kept

plane == <<sets, claims, up, filer>>
database == <<postgres, creds, role, operator>>
s3 == <<admin, identity>>

Goto(label) == w' = [w EXCEPT !.pc = label]

\* EnsureCluster returns: an error and a message both leave the store not Ready.
Return(ready) == w' = [Idle EXCEPT !.pc = "status", !.ready = ready]

-----------------------------------------------------------------------------
(* EnsureCluster *)

Reconcile ==
    /\ w.pc = "idle"
    /\ \/ store.phase = "live" /\ Goto(IF usesPostgres THEN "getPostgres" ELSE "config")
       \/ store.phase = "deleting" /\ Goto("listClaims")
    /\ UNCHANGED <<store, database, config, plane, s3, budget>>

\* mutated form: the users of the Postgres object are written as the driver builds
\* them, without the hash that managed-postgres put there
preservePgUserSecrets_Not(existing) == [there |-> TRUE, ours |-> TRUE, hash |-> None]

preservePgUserSecrets(existing) ==
    [there |-> TRUE, ours |-> TRUE, hash |-> existing.hash]

GetPostgres ==
    /\ w.pc = "getPostgres"
    /\ w' = [w EXCEPT !.seen = postgres,
                      !.pc = IF postgres = preservePgUserSecrets(postgres)
                             THEN "creds" ELSE "putPostgres"]
    /\ UNCHANGED <<store, database, config, plane, s3, budget>>

\* Create, or Update with the resource version that was read.
PutPostgres ==
    /\ w.pc = "putPostgres"
    /\ IF postgres = w.seen
       THEN /\ postgres' = IF w.seen.there THEN preservePgUserSecrets(w.seen)
                           ELSE [there |-> TRUE, ours |-> TRUE, hash |-> None]
            /\ Goto("creds")
       ELSE UNCHANGED postgres /\ Return(FALSE)
    /\ UNCHANGED <<store, creds, role, operator, config, plane, s3, budget>>

pgCreds ==
    /\ w.pc = "creds"
    /\ IF creds = None THEN Return(FALSE)
       ELSE w' = [w EXCEPT !.word = creds, !.pc = "config"]
    /\ UNCHANGED <<store, database, config, plane, s3, budget>>

ApplyConfig ==
    /\ w.pc = "config"
    /\ config' = [there |-> TRUE, word |-> w.word]
    /\ Goto("master")
    /\ UNCHANGED <<store, database, plane, s3, budget>>

After == [master |-> "volume", volume |-> "filer", filer |-> "rollout"]

ApplyWorkload(c) ==
    /\ w.pc = c
    /\ sets' = [sets EXCEPT ![c] = Replicas(c)]
    /\ Goto(After[c])
    /\ UNCHANGED <<store, database, config, claims, up, filer, s3, budget>>

RolledOut == up = {"master", "volume"} /\ \A i \in 1 .. filerReplicas : filer[i].up

Rollout ==
    /\ w.pc = "rollout"
    /\ IF RolledOut THEN w' = [Idle EXCEPT !.pc = "getAdmin"] ELSE Return(FALSE)
    /\ UNCHANGED <<store, database, config, plane, s3, budget>>

\* The read goes through the cache, which may not have the Secret yet.
ensureAdminSecret ==
    /\ w.pc = "getAdmin"
    /\ \/ /\ admin # None
          /\ w' = [w EXCEPT !.word = admin, !.pc = "identity"]
          /\ UNCHANGED budget
       \/ /\ IF admin = None THEN UNCHANGED budget ELSE Disturbance("staleRead")
          /\ w' = [w EXCEPT !.word = Fresh, !.pc = "putAdmin"]
    /\ UNCHANGED <<store, database, config, plane, s3>>

\* mutated form: the Secret is written over
CreateAdminSecret_Over(key) == admin' = key /\ Goto("identity")

CreateAdminSecret(key) ==
    IF admin = None THEN admin' = key /\ Goto("identity")
    ELSE UNCHANGED admin /\ Return(FALSE)

PutAdminSecret ==
    /\ w.pc = "putAdmin"
    /\ CreateAdminSecret(w.word)
    /\ UNCHANGED <<store, database, config, plane, identity, budget>>

\* A filer answers while it runs and its database takes its password.
Answers(i) == filer[i].up /\ (usesPostgres => filer[i].word = role)

\* mutated form: an identity that is there is left as it is
writeIdentity_Once(key) == identity' = IF identity = None THEN key ELSE identity

writeIdentity(key) == identity' = key

\* The Service picks any of the filers that are up.
ensureAdminIdentity ==
    /\ w.pc = "identity"
    /\ \/ /\ \E i \in 1 .. 3 : Answers(i)
          /\ writeIdentity(w.word)
          /\ Return(TRUE)
       \/ /\ \E i \in 1 .. 3 : ~Answers(i) /\ (filer[i].up \/ \A j \in 1 .. 3 : ~filer[j].up)
          /\ UNCHANGED identity
          /\ Return(FALSE)
    /\ UNCHANGED <<store, database, config, plane, admin, budget>>

\* finish: a Ready store is requeued too
Status ==
    /\ w.pc = "status"
    /\ store' = IF store.phase = "gone" THEN store
                ELSE [store EXCEPT !.ready = w.ready]
    /\ w' = Idle
    /\ UNCHANGED <<database, config, plane, s3, budget>>

-----------------------------------------------------------------------------
(* DeleteCluster *)

\* mutated form: only the claims with the volume component's labels are listed
ListedClaims_VolumeOnly ==
    IF store.reclaim = "Delete" THEN {c \in {"volume"} : claims[c] # "none"} ELSE {}

ListedClaims ==
    IF store.reclaim = "Delete" THEN {c \in Comp : claims[c] # "none"} ELSE {}

ListClaims ==
    /\ w.pc = "listClaims"
    /\ w' = [w EXCEPT !.list = ListedClaims, !.pc = "dropClaims"]
    /\ UNCHANGED <<store, database, config, plane, s3, budget>>

\* A claim goes with the pods that have it mounted.
DropClaim(c) ==
    /\ w.pc = "dropClaims" /\ c \in w.list
    /\ claims' = [claims EXCEPT ![c] =
                     IF @ = "bound" /\ sets[c] > 0 THEN "going" ELSE @]
    /\ w' = [w EXCEPT !.list = @ \ {c}]
    /\ UNCHANGED <<store, database, config, sets, up, filer, s3, budget>>

Release ==
    /\ w.pc = "dropClaims" /\ w.list = {}
    /\ store' = [store EXCEPT !.phase = "gone"]
    /\ w' = Idle
    /\ UNCHANGED <<database, config, plane, s3, budget>>

-----------------------------------------------------------------------------
(* Kubernetes and managed-postgres *)

\* The StatefulSet controller makes the claims of a set, and its pods.
MakeClaim(c) ==
    /\ sets[c] > 0 /\ HasClaim(c) /\ claims[c] = "none"
    /\ claims' = [claims EXCEPT ![c] = "bound"]
    /\ UNCHANGED <<store, database, config, sets, up, filer, s3, w, budget>>

ServerUp(c) ==
    /\ c \in {"master", "volume"} \ up
    /\ sets[c] > 0 /\ claims[c] = "bound"
    /\ c = "volume" => "master" \in up
    /\ up' = up \cup {c}
    /\ UNCHANGED <<store, database, config, sets, claims, filer, s3, w, budget>>

\* A filer comes up once it has reached a master and opened its store.
FilerUp(i) ==
    /\ ~filer[i].up /\ i <= sets["filer"]
    /\ \A j \in 1 .. i - 1 : filer[j].up
    /\ config.there /\ "master" \in up
    /\ IF usesPostgres THEN role # None /\ config.word = role ELSE claims["filer"] = "bound"
    /\ filer' = [filer EXCEPT ![i] = [up |-> TRUE, word |-> config.word]]
    /\ UNCHANGED <<store, database, config, sets, claims, up, s3, w, budget>>

\* managed-postgres generates a password for a user that has none, stores it in
\* the Secret, and then records its hash and sets the role.
GeneratePassword ==
    /\ postgres.there /\ postgres.hash = None /\ operator = None
    /\ operator' = Fresh /\ creds' = operator'
    /\ UNCHANGED <<store, postgres, role, config, plane, s3, w, budget>>

RecordPassword ==
    /\ operator # None
    /\ operator' = None
    /\ IF postgres.there
       THEN postgres' = [postgres EXCEPT !.hash = operator] /\ role' = operator
       ELSE UNCHANGED <<postgres, role>>
    /\ UNCHANGED <<store, creds, config, plane, s3, w, budget>>

\* What the ObjectStore owns goes after it: the sets and their pods, the Secrets,
\* the Postgres object.
Collect ==
    /\ store.phase = "gone"
    /\ \E c \in Comp : sets[c] > 0
    /\ sets' = [c \in Comp |-> 0]
    /\ up' = {}
    /\ filer' = [i \in 1 .. 3 |-> Down]
    /\ claims' = [c \in Comp |-> IF claims[c] = "going" THEN "none" ELSE claims[c]]
    /\ config' = NoConfig
    /\ admin' = None
    /\ postgres' = NoPostgres /\ creds' = None /\ role' = None /\ operator' = None
    /\ UNCHANGED <<store, identity, w, budget>>

-----------------------------------------------------------------------------
(* Disturbances *)

Stop ==
    /\ w.pc # "idle"
    /\ Disturbance("stop")
    /\ w' = Idle
    /\ UNCHANGED <<store, database, config, plane, s3>>

CallFails ==
    /\ w.pc \notin {"idle", "status"}
    /\ Disturbance("callFails")
    /\ IF store.phase = "live" THEN Return(FALSE) ELSE w' = Idle
    /\ UNCHANGED <<store, database, config, plane, s3>>

\* A pod that goes lets go of the claim it had mounted.
PodLost(d) ==
    /\ IF d = "podLost" THEN store.phase = "live" ELSE store.phase # "live"
    /\ Disturbance(d)
    /\ \/ \E c \in up :
            /\ up' = up \ {c}
            /\ claims' = [claims EXCEPT ![c] = IF @ = "going" THEN "none" ELSE @]
            /\ UNCHANGED filer
       \/ \E i \in {j \in 1 .. 3 : filer[j].up} :
            /\ filer' = [filer EXCEPT ![i] = Down]
            /\ claims' = [claims EXCEPT !["filer"] = IF @ = "going" THEN "none" ELSE @]
            /\ UNCHANGED up
    /\ UNCHANGED <<store, database, config, sets, s3, w>>

\* Before it recorded the password it generated.
OperatorStops ==
    /\ operator # None
    /\ Disturbance("pgOperatorStops")
    /\ operator' = None
    /\ UNCHANGED <<store, postgres, creds, role, config, plane, s3, w>>

\* Somebody edits a field of the Postgres object that the driver manages.
Drift ==
    /\ postgres.there
    /\ Disturbance("drift")
    /\ postgres' = [postgres EXCEPT !.ours = FALSE]
    /\ UNCHANGED <<store, creds, role, operator, config, plane, s3, w>>

AdminLost ==
    /\ admin # None
    /\ Disturbance("adminLost")
    /\ admin' = None
    /\ UNCHANGED <<store, database, config, plane, identity, w>>

\* The Postgres object, and with it the database, is deleted under the store.
PostgresLost ==
    /\ postgres.there
    /\ Disturbance("pgLost")
    /\ postgres' = NoPostgres /\ creds' = None /\ role' = None /\ operator' = None
    /\ identity' = None
    /\ UNCHANGED <<store, config, plane, admin, w>>

Scale ==
    /\ store.phase = "live"
    /\ Disturbance("scale")
    /\ \E n \in 1 .. 4 :
         /\ ObjectStoreValidate(store.redundancy, n)
         /\ store' = [store EXCEPT !.nodes = n]
    /\ UNCHANGED <<database, config, plane, s3, w>>

\* Deleted with every claim made, or while the sets are still making them.
DeleteStore ==
    /\ store.phase = "live"
    /\ Disturbance(IF \A c \in Comp : HasClaim(c) => claims[c] = "bound"
                   THEN "delete" ELSE "deleteInRollout")
    /\ store' = [store EXCEPT !.phase = "deleting"]
    /\ UNCHANGED <<database, config, plane, s3, w>>

-----------------------------------------------------------------------------
WorkerStep ==
    \/ Reconcile \/ GetPostgres \/ PutPostgres \/ pgCreds \/ ApplyConfig
    \/ \E c \in Comp : ApplyWorkload(c)
    \/ Rollout \/ ensureAdminSecret \/ PutAdminSecret \/ ensureAdminIdentity
    \/ Status \/ ListClaims \/ Release
    \/ \E c \in Comp : DropClaim(c)

KubernetesStep ==
    \/ \E c \in Comp : MakeClaim(c) \/ ServerUp(c)
    \/ \E i \in 1 .. 3 : FilerUp(i)
    \/ Collect

OperatorStep == GeneratePassword \/ RecordPassword

Next ==
    \/ WorkerStep \/ KubernetesStep \/ OperatorStep
    \/ Stop \/ CallFails \/ OperatorStops \/ Drift \/ AdminLost \/ PostgresLost
    \/ \E d \in {"podLost", "podLostInTeardown"} : PodLost(d)
    \/ Scale \/ DeleteStore

Spec == Init /\ [][Next]_vars

\* The work queue serves the store again and again; Kubernetes and the operator
\* do what is theirs to do.
Fairness ==
    /\ WF_vars(WorkerStep)
    /\ \A c \in Comp : WF_vars(MakeClaim(c)) /\ WF_vars(ServerUp(c))
    /\ \A i \in 1 .. 3 : WF_vars(FilerUp(i))
    /\ WF_vars(Collect)
    /\ WF_vars(GeneratePassword) /\ WF_vars(RecordPassword)

FairSpec == Spec /\ Fairness

-----------------------------------------------------------------------------
(* Properties *)

\* A filer that came up is never shut out of its database: while the operator's
\* hash is carried over by every update of the Postgres object, no password is
\* generated a second time behind a filer that has read the first.
FilerAuthenticates ==
    Kept("password") /\ usesPostgres =>
        \A i \in 1 .. 3 : filer[i].up /\ store.phase # "gone" => filer[i].word = role

\* The admin Secret of a store that says Ready opens the S3 gateway: the Secret is
\* written once, and the identity on the filer is brought in line with it.
AdminOpens ==
    store.ready /\ store.phase # "gone" /\ Kept("admin") =>
        admin # None /\ identity = admin

\* A claim that is bound is given up in a deletion with reclaim policy Delete and in
\* no other step: not by a scale down, a lost pod or a worker that was stopped.
ClaimsStay ==
    \A c \in Comp : claims[c] = "bound" /\ claims'[c] # "bound" =>
        store.phase = "deleting" /\ store.reclaim = "Delete"

\* The claims of a store go with a deletion with reclaim policy Delete and with
\* nothing else, and such a deletion leaves none, unless a set made one behind the
\* list: the store was deleted in the middle of its rollout, or a pod went with its
\* claim before the set was collected.
ClaimsFollowReclaim ==
    /\ [][ClaimsStay]_vars
    /\ (store.phase = "deleting" /\ store.reclaim = "Delete") ~>
         ((\A c \in Comp : claims[c] = "none") \/ ~Kept("reclaim"))

\* A store that is not deleted becomes Ready and stays so, with its admin Secret in
\* force, after the disturbances of the run, the loss of the database excepted.
Converges ==
    <>[](\/ store.ready /\ admin # None /\ identity = admin
         \/ store.phase # "live"
         \/ ~Kept("password"))

=============================================================================
