------------------------ MODULE SeaweedClusterProofs ------------------------
(***************************************************************************)
(* Proofs about the data plane of the SeaweedFS driver, for every set of   *)
(* disturbances and every number of them.                                  *)
(*                                                                         *)
(* The invariant has three parts that do not depend on one another.        *)
(*  - DatabaseInv: the hash on the Postgres object is the password of the  *)
(*    role, and a password the operator has not recorded yet is one of a   *)
(*    user that has none.  A second password is hence never generated      *)
(*    behind a filer that logged in with the first.                        *)
(*  - AdminInv: the key the worker carries to the filer is the one in the  *)
(*    Secret.                                                              *)
(*  - ReclaimInv: the worker of a deletion has every claim that is still   *)
(*    bound on its list.                                                   *)
(***************************************************************************)
EXTENDS SeaweedCluster, FiniteSetTheorems, TLAPS

-----------------------------------------------------------------------------
(* The invariants *)

\* The password of the database, and the filers that logged in with it.
DatabaseInv ==
    /\ postgres.hash = role
    /\ ~postgres.there => role = None
    /\ operator # None => postgres.there /\ role = None
    /\ Kept("password") /\ usesPostgres =>
         \A i \in 1 .. 3 : filer[i].up => role # None /\ filer[i].word = role

\* The S3 admin Secret, the key in the worker's hand and the identity on the filer.
AdminInv ==
    /\ w.pc = "putAdmin" => w.word # None
    /\ Kept("admin") /\ store.phase # "gone" =>
         /\ w.pc = "identity" => admin # None /\ w.word = admin
         /\ (w.pc = "status" /\ w.ready) \/ store.ready => admin # None /\ identity = admin

\* Claims are deleted by the worker of a deletion with reclaim policy Delete.
Deleting ==
    /\ w.pc \in {"listClaims", "dropClaims"} => store.phase = "deleting"
    /\ w.list # {} => w.pc = "dropClaims" /\ store.reclaim = "Delete"
    /\ store.phase = "gone" => w.pc = "idle"

\* A deletion that began with every claim bound finds each of them.
ReclaimInv ==
    /\ \A c \in Comp : claims[c] # "none" /\ store.phase # "gone" => sets[c] > 0
    /\ \A c \in Comp : claims[c] = "going" => store.phase # "live"
    /\ Kept("reclaim") =>
         /\ store.phase # "live" =>
              \A c \in Comp : HasClaim(c) =>
                claims[c] # "none" \/ (store.phase = "gone" /\ sets[c] = 0)
         /\ store.reclaim = "Delete" =>
              /\ w.pc = "dropClaims" => \A c \in Comp : claims[c] = "bound" => c \in w.list
              /\ store.phase = "gone" => \A c \in Comp : claims[c] # "bound"

SeaweedInv == TypeOK /\ DatabaseInv /\ AdminInv /\ Deleting /\ ReclaimInv

-----------------------------------------------------------------------------
(* Types *)

\* The size of 1 .. n.
LEMMA Count ==
    ASSUME NEW n \in Nat
    PROVE  IsFiniteSet(1 .. n) /\ Cardinality(1 .. n) = n
<1>1. 1 \in Int /\ n \in Int
  OBVIOUS
<1>2. IsFiniteSet(1 .. n) /\ Cardinality(1 .. n) = IF 1 > n THEN 0 ELSE n - 1 + 1
  BY <1>1, FS_Interval, Zenon
<1>3. (IF 1 > n THEN 0 ELSE n - 1 + 1) = n
  OBVIOUS
<1> QED BY <1>2, <1>3

\* Thirteen words do not fit in twelve places: a new password, or a new admin key,
\* can always be found (randomHex).
LEMMA FreshWord == Fresh \in Word /\ Fresh # None
<1> DEFINE p == <<postgres.hash, w.seen.hash, creds, role, operator, config.word, admin,
                  identity, w.word, filer[1].word, filer[2].word, filer[3].word>>
           places == {p[i] : i \in 1 .. 12}
           f == [i \in 1 .. 12 |-> p[i]]
<1>1. Cardinality(places) <= 12 /\ IsFiniteSet(places)
  <2>1. f \in Surjection(1 .. 12, places)
    BY DEF Surjection
  <2>2. IsFiniteSet(1 .. 12) /\ Cardinality(1 .. 12) = 12
    BY Count
  <2> HIDE DEF places, f
  <2> QED BY <2>1, <2>2, FS_Surjection
<1>2. InUse \subseteq places
  <2>1. p[1] = postgres.hash /\ p[2] = w.seen.hash /\ p[3] = creds /\ p[4] = role
        /\ p[5] = operator /\ p[6] = config.word /\ p[7] = admin /\ p[8] = identity
        /\ p[9] = w.word /\ p[10] = filer[1].word /\ p[11] = filer[2].word /\ p[12] = filer[3].word
    OBVIOUS
  <2>2. \A i \in 1 .. 12 : p[i] \in places
    OBVIOUS
  <2>3. InUse = {p[1], p[2], p[3], p[4], p[5], p[6], p[7], p[8], p[9]} \cup {filer[i].word : i \in 1 .. 3}
    BY <2>1 DEF InUse
  <2>4. ASSUME NEW i \in 1 .. 3 PROVE filer[i].word \in {p[10], p[11], p[12]}
    <3>1. i = 1 \/ i = 2 \/ i = 3
      OBVIOUS
    <3> QED BY <2>1, <3>1
  <2> HIDE DEF p, places
  <2> QED BY <2>2, <2>3, <2>4
<1>3. \E n \in Word : n \notin InUse
  <2>1. SUFFICES ASSUME Word \subseteq places PROVE FALSE
    BY <1>2
  <2>2. Cardinality(Word) = 13
    BY Count DEF Word
  <2> HIDE DEF places
  <2>3. Cardinality(Word) <= Cardinality(places)
    BY <1>1, <2>1, FS_Subset
  <2>4. Cardinality(places) \in Nat
    BY <1>1, FS_CardinalityType
  <2> QED BY <1>1, <2>2, <2>3, <2>4
<1>4. Fresh \in Word
  BY <1>3 DEF Fresh
<1> QED BY <1>4 DEF Word, None

\* The worker as the steps change it.
LEMMA Workers ==
    ASSUME TypeOK
    PROVE  /\ Idle \in Worker
           /\ \A p \in PC : [w EXCEPT !.pc = p] \in Worker
           /\ \A p \in PC : [Idle EXCEPT !.pc = p] \in Worker
           /\ \A b \in BOOLEAN : [Idle EXCEPT !.pc = "status", !.ready = b] \in Worker
           /\ \A p \in PC, k \in WordOrNone : [w EXCEPT !.word = k, !.pc = p] \in Worker
           /\ \A p \in PC, g \in Postgres : [w EXCEPT !.seen = g, !.pc = p] \in Worker
           /\ \A p \in PC, l \in SUBSET Comp : [w EXCEPT !.list = l, !.pc = p] \in Worker
           /\ \A l \in SUBSET Comp : [w EXCEPT !.list = l] \in Worker
<1>1. w \in Worker
  BY DEF TypeOK
<1>2. Idle \in Worker
  BY DEF Idle, Worker, PC, NoPostgres, Postgres, WordOrNone
<1>3. \A p \in PC : [w EXCEPT !.pc = p] \in Worker
  BY <1>1 DEF Worker
<1>4. \A p \in PC : [Idle EXCEPT !.pc = p] \in Worker
  BY <1>2 DEF Worker
<1>5. \A b \in BOOLEAN : [Idle EXCEPT !.pc = "status", !.ready = b] \in Worker
  <2>1. "status" \in PC
    BY DEF PC
  <2> QED BY <1>2, <2>1 DEF Worker
<1>6. \A p \in PC, k \in WordOrNone : [w EXCEPT !.word = k, !.pc = p] \in Worker
  BY <1>1 DEF Worker
<1>7. \A p \in PC, g \in Postgres : [w EXCEPT !.seen = g, !.pc = p] \in Worker
  BY <1>1 DEF Worker
<1>8. \A p \in PC, l \in SUBSET Comp : [w EXCEPT !.list = l, !.pc = p] \in Worker
  BY <1>1 DEF Worker
<1>9. \A l \in SUBSET Comp : [w EXCEPT !.list = l] \in Worker
  BY <1>1 DEF Worker
<1> QED BY <1>2, <1>3, <1>4, <1>5, <1>6, <1>7, <1>8, <1>9

\* A component has between one and four replicas.
LEMMA ReplicaCount ==
    ASSUME TypeOK, NEW c \in Comp
    PROVE  Replicas(c) \in 1 .. 4
<1>1. store.nodes \in 0 .. 4
  BY DEF TypeOK
<1>2. topology(store.redundancy).master \in 1 .. 4 /\ topology(store.redundancy).volume \in 1 .. 4
  <2>1. topology(store.redundancy) \in [master: 1 .. 4, volume: 1 .. 4]
    <3>1. /\ [master |-> 1, volume |-> 1] \in [master: 1 .. 4, volume: 1 .. 4]
          /\ [master |-> 3, volume |-> 4] \in [master: 1 .. 4, volume: 1 .. 4]
          /\ [master |-> 3, volume |-> 3] \in [master: 1 .. 4, volume: 1 .. 4]
      OBVIOUS
    <3>2. \/ topology(store.redundancy) = [master |-> 1, volume |-> 1]
          \/ topology(store.redundancy) = [master |-> 3, volume |-> 4]
          \/ topology(store.redundancy) = [master |-> 3, volume |-> 3]
      BY DEF topology
    <3> QED BY <3>1, <3>2
  <2> QED BY <2>1
<1> QED BY <1>1, <1>2 DEF Replicas, volumeServers, filerReplicas, Comp

\* A disturbance is paid from the budget.
LEMMA DisturbanceType ==
    ASSUME TypeOK, NEW d, Disturbance(d)
    PROVE  budget' \in [left: 0 .. MaxDisturb, kept: SUBSET Guarantee]
<1>1. budget.left \in 0 .. MaxDisturb /\ budget.left > 0 /\ budget.kept \in SUBSET Guarantee
  BY DEF TypeOK, Disturbance
<1>2. budget.left - 1 \in 0 .. MaxDisturb /\ budget.kept \ Voids(d) \in SUBSET Guarantee
  BY <1>1, SeaweedAssumption
<1> QED BY <1>2 DEF Disturbance

\* The types, as the worker's steps keep them.
LEMMA TypeWorker ==
    ASSUME TypeOK, WorkerStep
    PROVE  TypeOK'
<1>q. UNCHANGED <<store, database, config, plane, s3, budget>> /\ w' \in Worker => TypeOK'
  BY DEF TypeOK, database, plane, s3
<1>s. \A n \in 1 .. 4 : n \in 0 .. 4
  OBVIOUS
<1> USE Workers
<1>p. PC = {"idle", "getPostgres", "putPostgres", "creds", "config", "master",
            "volume", "filer", "rollout", "getAdmin", "putAdmin", "identity", "status",
            "listClaims", "dropClaims", "release"}
  BY DEF PC
<1>w. w \in Worker /\ w.word \in WordOrNone /\ w.seen \in Postgres /\ w.list \subseteq Comp
  BY DEF TypeOK, Worker
<1>r. ASSUME NEW b \in BOOLEAN, Return(b) PROVE w' \in Worker
  BY <1>r DEF Return
<1>g. ASSUME NEW l \in PC, Goto(l) PROVE w' \in Worker
  BY <1>g DEF Goto
<1>f. Fresh \in WordOrNone /\ None \in WordOrNone
  BY FreshWord DEF WordOrNone
<1>1. CASE Reconcile
  <2>1. (IF usesPostgres THEN "getPostgres" ELSE "config") \in PC
    BY DEF PC
  <2>2. w' \in Worker
    BY <1>1, <1>g, <1>p, <2>1 DEF Reconcile
  <2> QED BY <1>1, <1>q, <2>2 DEF Reconcile
<1>2. CASE GetPostgres
  <2>1. (IF postgres = preservePgUserSecrets(postgres) THEN "creds" ELSE "putPostgres") \in PC
    BY DEF PC
  <2>2. postgres \in Postgres
    BY DEF TypeOK
  <2>3. w' \in Worker
    BY <1>2, <2>1, <2>2 DEF GetPostgres
  <2> QED BY <1>2, <1>q, <2>3 DEF GetPostgres
<1>3. CASE PutPostgres
  <2>1. w' \in Worker
    BY <1>3, <1>g, <1>r, <1>p DEF PutPostgres
  <2>2. postgres' \in Postgres
    <3>1. preservePgUserSecrets(w.seen) \in Postgres
      BY <1>w DEF Postgres, preservePgUserSecrets
    <3>2. [there |-> TRUE, ours |-> TRUE, hash |-> None] \in Postgres
      BY <1>f DEF Postgres
    <3>3. postgres \in Postgres
      BY DEF TypeOK
    <3> QED BY <1>3, <3>1, <3>2, <3>3 DEF PutPostgres
  <2> QED BY <1>3, <2>1, <2>2 DEF PutPostgres, TypeOK, plane, s3
<1>4. CASE pgCreds
  <2>1. creds \in WordOrNone
    BY DEF TypeOK
  <2>2. w' \in Worker
    <3>1. CASE creds = None
      BY <1>4, <1>r, <3>1 DEF pgCreds
    <3>2. CASE creds # None
      <4>1. w' = [w EXCEPT !.word = creds, !.pc = "config"] /\ "config" \in PC
        BY <1>4, <1>p, <3>2 DEF pgCreds
      <4> QED BY <2>1, <4>1
    <3> QED BY <3>1, <3>2
  <2> QED BY <1>4, <1>q, <2>2 DEF pgCreds
<1>5. CASE ApplyConfig
  <2>1. w' \in Worker
    BY <1>5, <1>g, <1>p DEF ApplyConfig
  <2> QED BY <1>5, <1>w, <2>1 DEF ApplyConfig, TypeOK, database, plane, s3
<1>6. ASSUME NEW c \in Comp, ApplyWorkload(c) PROVE TypeOK'
  <2>1. After[c] \in PC
    <3>1. After["master"] = "volume" /\ After["volume"] = "filer" /\ After["filer"] = "rollout"
      BY DEF After
    <3> QED BY <3>1, <1>p DEF Comp
  <2>2. w' \in Worker
    BY <1>6, <1>g, <2>1 DEF ApplyWorkload
  <2>3. sets' \in [Comp -> 0 .. 4]
    <3>1. Replicas(c) \in 0 .. 4 /\ sets \in [Comp -> 0 .. 4]
      <4>1. Replicas(c) \in 1 .. 4
        BY ReplicaCount
      <4>3. sets \in [Comp -> 0 .. 4]
        BY DEF TypeOK
      <4> QED BY <1>s, <4>1, <4>3, Zenon
    <3> QED BY <1>6, <3>1 DEF ApplyWorkload
  <2> QED BY <1>6, <2>2, <2>3 DEF ApplyWorkload, TypeOK, database, s3
<1>7. CASE Rollout
  <2>1. w' \in Worker
    BY <1>7, <1>r, <1>p DEF Rollout
  <2> QED BY <1>7, <1>q, <2>1 DEF Rollout
<1>8. CASE ensureAdminSecret
  <2>1. admin \in WordOrNone
    BY DEF TypeOK
  <2>2. w' \in Worker
    <3>1. \/ w' = [w EXCEPT !.word = admin, !.pc = "identity"]
          \/ w' = [w EXCEPT !.word = Fresh, !.pc = "putAdmin"]
      BY <1>8 DEF ensureAdminSecret
    <3>2. "identity" \in PC /\ "putAdmin" \in PC
      BY <1>p
    <3>3. CASE w' = [w EXCEPT !.word = admin, !.pc = "identity"]
      BY <2>1, <3>2, <3>3
    <3>4. CASE w' = [w EXCEPT !.word = Fresh, !.pc = "putAdmin"]
      BY <1>f, <3>2, <3>4
    <3> QED BY <3>1, <3>3, <3>4
  <2>3. budget' \in [left: 0 .. MaxDisturb, kept: SUBSET Guarantee]
    BY <1>8, DisturbanceType DEF ensureAdminSecret, TypeOK
  <2> QED BY <1>8, <2>2, <2>3 DEF ensureAdminSecret, TypeOK, database, plane, s3
<1>9. CASE PutAdminSecret
  <2>1. w' \in Worker
    BY <1>9, <1>g, <1>r, <1>p DEF PutAdminSecret, CreateAdminSecret
  <2>2. admin' \in WordOrNone
    BY <1>9, <1>w DEF PutAdminSecret, CreateAdminSecret, TypeOK
  <2> QED BY <1>9, <2>1, <2>2 DEF PutAdminSecret, TypeOK, database, plane
<1>10. CASE ensureAdminIdentity
  <2>1. w' \in Worker
    BY <1>10, <1>r DEF ensureAdminIdentity
  <2>2. identity' \in WordOrNone
    BY <1>10, <1>w DEF ensureAdminIdentity, writeIdentity, TypeOK
  <2> QED BY <1>10, <2>1, <2>2 DEF ensureAdminIdentity, TypeOK, database, plane
<1>11. CASE Status
  <2>1. w.ready \in BOOLEAN
    BY <1>w DEF Worker
  <2>2. \A b \in BOOLEAN : [store EXCEPT !.ready = b] \in
            [redundancy: Redundancies, reclaim: Reclaims, nodes: 0 .. 4,
             phase: {"live", "deleting", "gone"}, ready: BOOLEAN]
    BY DEF TypeOK
  <2>3. store' \in [redundancy: Redundancies, reclaim: Reclaims, nodes: 0 .. 4,
                    phase: {"live", "deleting", "gone"}, ready: BOOLEAN]
    BY <1>11, <2>1, <2>2, Zenon DEF Status, TypeOK
  <2> QED BY <1>11, <2>3 DEF Status, TypeOK, database, plane, s3
<1>12. CASE ListClaims
  <2>1. ListedClaims \subseteq Comp
    BY DEF ListedClaims
  <2>2. w' \in Worker
    BY <1>12, <1>p, <2>1 DEF ListClaims
  <2> QED BY <1>12, <1>q, <2>2 DEF ListClaims
<1>13. CASE Release
  BY <1>13 DEF Release, TypeOK, database, plane, s3
<1>14. ASSUME NEW c \in Comp, DropClaim(c) PROVE TypeOK'
  <2>1. w.list \ {c} \subseteq Comp
    BY <1>w
  <2>2. w' \in Worker
    BY <1>14, <2>1 DEF DropClaim
  <2>3. claims' \in [Comp -> {"none", "bound", "going"}]
    BY <1>14 DEF DropClaim, TypeOK
  <2> QED BY <1>14, <2>2, <2>3 DEF DropClaim, TypeOK, database, s3
<1> QED BY <1>1, <1>2, <1>3, <1>4, <1>5, <1>6, <1>7, <1>8, <1>9, <1>10, <1>11, <1>12, <1>13, <1>14
        DEF WorkerStep

\* The types, as Kubernetes and managed-postgres keep them.
LEMMA TypeOutside ==
    ASSUME TypeOK, KubernetesStep \/ OperatorStep
    PROVE  TypeOK'
<1>f. Fresh \in WordOrNone /\ None \in WordOrNone
  BY FreshWord DEF WordOrNone
<1>d. Down \in Pod /\ NoPostgres \in Postgres
      /\ NoConfig \in [there: BOOLEAN, word: WordOrNone]
  BY <1>f DEF Down, Pod, NoPostgres, Postgres, NoConfig
<1>1. ASSUME NEW c \in Comp, MakeClaim(c) PROVE TypeOK'
  BY <1>1 DEF MakeClaim, TypeOK, database, s3
<1>2. ASSUME NEW c \in Comp, ServerUp(c) PROVE TypeOK'
  BY <1>2 DEF ServerUp, TypeOK, database, s3
<1>3. ASSUME NEW i \in 1 .. 3, FilerUp(i) PROVE TypeOK'
  <2>1. [up |-> TRUE, word |-> config.word] \in Pod
    BY DEF Pod, TypeOK
  <2>2. filer' \in [1 .. 3 -> Pod]
    BY <1>3, <2>1 DEF FilerUp, TypeOK
  <2> QED BY <1>3, <2>2 DEF FilerUp, TypeOK, database, s3
<1>4. CASE Collect
  <2>1. claims' \in [Comp -> {"none", "bound", "going"}]
    BY <1>4 DEF Collect, TypeOK
  <2> QED BY <1>4, <1>d, <1>f, <2>1 DEF Collect, TypeOK
<1>5. CASE GeneratePassword
  BY <1>5, <1>f DEF GeneratePassword, TypeOK, plane, s3
<1>6. CASE RecordPassword
  <2>1. \A k \in WordOrNone : [postgres EXCEPT !.hash = k] \in Postgres
    BY DEF Postgres, TypeOK
  <2>2. operator \in WordOrNone /\ role \in WordOrNone
    BY DEF TypeOK
  <2>3. postgres' \in Postgres /\ role' \in WordOrNone /\ operator' \in WordOrNone
    BY <1>6, <1>f, <2>1, <2>2 DEF RecordPassword, TypeOK
  <2> QED BY <1>6, <2>3 DEF RecordPassword, TypeOK, plane, s3
<1> QED BY <1>1, <1>2, <1>3, <1>4, <1>5, <1>6 DEF KubernetesStep, OperatorStep

\* The types, as disturbances keep them.
LEMMA TypeDisturbed ==
    ASSUME TypeOK,
           \/ Stop \/ CallFails \/ OperatorStops \/ Drift \/ AdminLost \/ PostgresLost
           \/ \E d \in {"podLost", "podLostInTeardown"} : PodLost(d)
           \/ Scale \/ DeleteStore
    PROVE  TypeOK'
<1> DEFINE Budget == [left: 0 .. MaxDisturb, kept: SUBSET Guarantee]
<1>n. None \in WordOrNone /\ Down \in Pod /\ NoPostgres \in Postgres
  BY DEF WordOrNone, Down, Pod, NoPostgres, Postgres
<1>b. budget' \in Budget
  BY DisturbanceType DEF Stop, CallFails, OperatorStops, Drift, AdminLost, PostgresLost, PodLost,
     Scale, DeleteStore
<1> HIDE DEF Budget
<1>1. CASE Stop
  BY <1>1, <1>b, Workers DEF Stop, TypeOK, database, plane, s3, Budget
<1>2. CASE CallFails
  <2>1. w' \in Worker
    BY <1>2, Workers DEF CallFails, Return
  <2> QED BY <1>2, <1>b, <2>1 DEF CallFails, TypeOK, database, plane, s3, Budget
<1>3. CASE OperatorStops
  BY <1>3, <1>b, <1>n DEF OperatorStops, TypeOK, plane, s3, Budget
<1>4. CASE Drift
  <2>1. postgres' \in Postgres
    BY <1>4 DEF Drift, TypeOK, Postgres
  <2> QED BY <1>4, <1>b, <2>1 DEF Drift, TypeOK, plane, s3, Budget
<1>5. CASE AdminLost
  BY <1>5, <1>b, <1>n DEF AdminLost, TypeOK, database, plane, Budget
<1>6. CASE PostgresLost
  BY <1>6, <1>b, <1>n DEF PostgresLost, TypeOK, plane, Budget
<1>7. ASSUME NEW d \in {"podLost", "podLostInTeardown"}, PodLost(d) PROVE TypeOK'
  <2>a. up \subseteq {"master", "volume"} /\ filer \in [1 .. 3 -> Pod]
    BY DEF TypeOK
  <2>1. up' \subseteq {"master", "volume"} /\ filer' \in [1 .. 3 -> Pod]
    <3>1. \/ UNCHANGED filer /\ \E c \in up : up' = up \ {c}
          \/ UNCHANGED up /\ \E i \in 1 .. 3 : filer' = [filer EXCEPT ![i] = Down]
      BY <1>7 DEF PodLost
    <3> QED BY <1>n, <2>a, <3>1
  <2>2. claims' \in [Comp -> {"none", "bound", "going"}]
    BY <1>7 DEF PodLost, TypeOK
  <2> QED BY <1>7, <1>b, <2>1, <2>2 DEF PodLost, TypeOK, database, s3, Budget
<1>8. CASE Scale
  <2>1. PICK n \in 1 .. 4 : store' = [store EXCEPT !.nodes = n]
    BY <1>8 DEF Scale
  <2>2. n \in 0 .. 4
    OBVIOUS
  <2>3. store' \in [redundancy: Redundancies, reclaim: Reclaims, nodes: 0 .. 4,
                    phase: {"live", "deleting", "gone"}, ready: BOOLEAN]
    BY <2>1, <2>2 DEF TypeOK
  <2> QED BY <1>8, <1>b, <2>3 DEF Scale, TypeOK, database, plane, s3, Budget
<1>9. CASE DeleteStore
  BY <1>9, <1>b DEF DeleteStore, TypeOK, database, plane, s3, Budget
<1> QED BY <1>1, <1>2, <1>3, <1>4, <1>5, <1>6, <1>7, <1>8, <1>9

\* Every step keeps the types.
LEMMA TypeStep == TypeOK /\ [Next]_vars => TypeOK'
<1>1. ASSUME TypeOK, UNCHANGED vars PROVE TypeOK'
  BY <1>1 DEF TypeOK, vars
<1> QED BY <1>1, TypeWorker, TypeOutside, TypeDisturbed DEF Next

-----------------------------------------------------------------------------
(* What no step changes *)

\* Guarantees are lost and never regained.
LEMMA KeptShrinks ==
    ASSUME TypeOK, [Next]_vars, NEW g, Kept(g)'
    PROVE  Kept(g)
<1>1. ASSUME NEW d, Disturbance(d) PROVE Kept(g)
  BY <1>1 DEF Disturbance, Kept
<1>2. UNCHANGED budget \/ \E d : Disturbance(d)
  BY Zenon DEF Next, vars, WorkerStep, Reconcile, GetPostgres, PutPostgres, pgCreds, ApplyConfig,
     ApplyWorkload, Rollout, ensureAdminSecret, PutAdminSecret, ensureAdminIdentity, Status,
     ListClaims, Release, DropClaim, KubernetesStep, MakeClaim, ServerUp, FilerUp, Collect,
     OperatorStep, GeneratePassword, RecordPassword, Stop, CallFails, OperatorStops, Drift,
     AdminLost, PostgresLost, PodLost, Scale, DeleteStore
<1> QED BY <1>1, <1>2 DEF Kept

\* The redundancy and the reclaim policy of a store stay, and the store is only ever
\* deleted, and then released by the worker that dropped its claims.
LEMMA StoreStep ==
    ASSUME TypeOK, [Next]_vars
    PROVE  /\ store'.redundancy = store.redundancy
           /\ store'.reclaim = store.reclaim
           /\ \/ store'.phase = store.phase
              \/ DeleteStore /\ store.phase = "live" /\ store'.phase = "deleting"
              \/ Release /\ store'.phase = "gone"
           /\ \/ store'.ready = store.ready
              \/ Status /\ store'.ready = w.ready
<1>s. store \in [redundancy: Redundancies, reclaim: Reclaims, nodes: 0 .. 4,
                 phase: {"live", "deleting", "gone"}, ready: BOOLEAN]
  BY DEF TypeOK
<1>1. UNCHANGED store \/ Status \/ Release \/ Scale \/ DeleteStore
  BY Zenon DEF Next, vars, WorkerStep, Reconcile, GetPostgres, PutPostgres, pgCreds, ApplyConfig,
     ApplyWorkload, Rollout, ensureAdminSecret, PutAdminSecret, ensureAdminIdentity,
     ListClaims, DropClaim, KubernetesStep, MakeClaim, ServerUp, FilerUp, Collect,
     OperatorStep, GeneratePassword, RecordPassword, Stop, CallFails, OperatorStops, Drift,
     AdminLost, PostgresLost, PodLost
<1>2. CASE Status
  <2>1. store' = store \/ store' = [store EXCEPT !.ready = w.ready]
    BY <1>2 DEF Status
  <2> QED BY <1>2, <1>s, <2>1
<1>3. CASE Release
  BY <1>3, <1>s DEF Release
<1>4. CASE Scale
  BY <1>4, <1>s DEF Scale
<1>5. CASE DeleteStore
  BY <1>5, <1>s DEF DeleteStore
<1> QED BY <1>1, <1>2, <1>3, <1>4, <1>5

-----------------------------------------------------------------------------
(* The database *)

\* Who touches the database or a filer.
LEMMA DatabaseElsewhere ==
    ASSUME [Next]_vars
    PROVE  \/ UNCHANGED <<postgres, role, operator, filer>>
           \/ PutPostgres \/ GeneratePassword \/ RecordPassword \/ Collect
           \/ OperatorStops \/ Drift \/ PostgresLost
           \/ \E i \in 1 .. 3 : FilerUp(i)
           \/ \E d \in {"podLost", "podLostInTeardown"} : PodLost(d)
<1> QED
  BY Zenon DEF Next, vars, WorkerStep, Reconcile, GetPostgres, pgCreds, ApplyConfig,
     ApplyWorkload, Rollout, ensureAdminSecret, PutAdminSecret, ensureAdminIdentity, Status,
     ListClaims, Release, DropClaim, KubernetesStep, MakeClaim, ServerUp,
     OperatorStep, Stop, CallFails, AdminLost, Scale, DeleteStore, database, plane

\* Every step keeps the database's part of the invariant.
LEMMA DatabaseStep ==
    ASSUME TypeOK, DatabaseInv, [Next]_vars
    PROVE  DatabaseInv'
<1>r. usesPostgres' = usesPostgres
  BY StoreStep DEF usesPostgres, High
<1>k. Kept("password")' => Kept("password")
  BY KeptShrinks
<1>p. postgres \in Postgres /\ filer \in [1 .. 3 -> Pod]
  BY DEF TypeOK
<1> DEFINE Logins == \A i \in 1 .. 3 : filer[i].up => role # None /\ filer[i].word = role
<1>i. /\ postgres.hash = role
      /\ ~postgres.there => role = None
      /\ operator # None => postgres.there /\ role = None
      /\ Kept("password") /\ usesPostgres => Logins
  BY DEF DatabaseInv
<1>g. SUFFICES /\ postgres'.hash = role'
               /\ ~postgres'.there => role' = None
               /\ operator' # None => postgres'.there /\ role' = None
               /\ Kept("password")' /\ usesPostgres /\ Logins => Logins'
  BY <1>i, <1>r, <1>k DEF DatabaseInv
<1>1. CASE UNCHANGED <<postgres, role, operator, filer>>
  BY <1>1, <1>i
<1>2. CASE PutPostgres
  <2>1. UNCHANGED <<role, operator, filer>>
    BY <1>2 DEF PutPostgres, plane
  <2>2. \/ postgres' = postgres
        \/ postgres.there /\ postgres' = [there |-> TRUE, ours |-> TRUE, hash |-> postgres.hash]
        \/ ~postgres.there /\ postgres' = [there |-> TRUE, ours |-> TRUE, hash |-> None]
    BY <1>2 DEF PutPostgres, preservePgUserSecrets
  <2> QED BY <1>i, <2>1, <2>2
<1>3. CASE GeneratePassword
  <2>1. postgres.there /\ postgres.hash = None /\ UNCHANGED <<postgres, role, filer>>
    BY <1>3 DEF GeneratePassword, plane
  <2> QED BY <1>i, <2>1
<1>4. CASE RecordPassword
  <2>1. operator # None /\ operator' = None /\ UNCHANGED filer
        /\ postgres' = [postgres EXCEPT !.hash = operator] /\ role' = operator
    BY <1>4, <1>i DEF RecordPassword, plane
  <2>2. postgres'.hash = operator /\ postgres'.there = postgres.there
    BY <1>p, <2>1 DEF Postgres
  <2>3. role = None
    BY <1>i, <2>1
  <2> QED BY <1>i, <2>1, <2>2, <2>3
<1>5. CASE Collect
  <2>1. \A i \in 1 .. 3 : ~filer'[i].up
    BY <1>5 DEF Collect, Down
  <2> QED BY <1>5, <2>1 DEF Collect, NoPostgres
<1>6. CASE OperatorStops
  <2>1. UNCHANGED <<postgres, role, filer>> /\ operator' = None
    BY <1>6 DEF OperatorStops, plane
  <2> QED BY <1>i, <2>1
<1>7. CASE Drift
  <2>1. UNCHANGED <<role, operator, filer>> /\ postgres' = [postgres EXCEPT !.ours = FALSE]
    BY <1>7 DEF Drift, plane
  <2>2. postgres'.hash = postgres.hash /\ postgres'.there = postgres.there
    BY <1>p, <2>1 DEF Postgres
  <2> QED BY <1>i, <2>1, <2>2
<1>8. CASE PostgresLost
  <2>1. ~Kept("password")'
    BY <1>8 DEF PostgresLost, Disturbance, Kept, Voids
  <2> QED BY <1>8, <2>1 DEF PostgresLost, NoPostgres
<1>9. ASSUME NEW i \in 1 .. 3, FilerUp(i)
      PROVE  /\ UNCHANGED <<postgres, role, operator>>
             /\ usesPostgres /\ Logins => Logins'
  <2>1. UNCHANGED <<postgres, role, operator>>
        /\ filer' = [filer EXCEPT ![i] = [up |-> TRUE, word |-> config.word]]
        /\ (usesPostgres => role # None /\ config.word = role)
    BY <1>9 DEF FilerUp, database
  <2> QED BY <1>p, <2>1
<1>10. ASSUME NEW d \in {"podLost", "podLostInTeardown"}, PodLost(d)
       PROVE  /\ UNCHANGED <<postgres, role, operator>>
              /\ Logins => Logins'
  <2>1. UNCHANGED <<postgres, role, operator>>
        /\ (UNCHANGED filer \/ \E i \in 1 .. 3 : filer' = [filer EXCEPT ![i] = Down])
    BY <1>10 DEF PodLost, database
  <2>2. ~Down.up
    BY DEF Down
  <2> QED BY <1>p, <2>1, <2>2
<1> HIDE DEF Logins
<1>11. CASE \E i \in 1 .. 3 : FilerUp(i)
  BY <1>9, <1>11, <1>i
<1>12. CASE \E d \in {"podLost", "podLostInTeardown"} : PodLost(d)
  BY <1>10, <1>12, <1>i
<1> QED BY <1>1, <1>2, <1>3, <1>4, <1>5, <1>6, <1>7, <1>8, <1>11, <1>12, DatabaseElsewhere

-----------------------------------------------------------------------------
(* The admin identity *)

\* Who touches the admin Secret or the identity, and what the others do to the worker.
LEMMA AdminElsewhere ==
    ASSUME TypeOK, [Next]_vars
    PROVE  \/ /\ UNCHANGED <<admin, identity>>
              /\ \/ UNCHANGED w
                 \/ w'.pc \notin {"putAdmin", "identity", "status"}
                 \/ w'.pc = "status" /\ ~w'.ready
           \/ ensureAdminSecret \/ PutAdminSecret \/ ensureAdminIdentity
           \/ Collect \/ AdminLost \/ PostgresLost
<1> DEFINE Away == /\ UNCHANGED <<admin, identity>>
                   /\ \/ UNCHANGED w
                      \/ w'.pc \notin {"putAdmin", "identity", "status"}
                      \/ w'.pc = "status" /\ ~w'.ready
<1>0. SUFFICES \/ Away
               \/ ensureAdminSecret \/ PutAdminSecret \/ ensureAdminIdentity
               \/ Collect \/ AdminLost \/ PostgresLost
  OBVIOUS
<1>w. w \in Worker
  BY DEF TypeOK
<1>g. ASSUME NEW l \in PC \ {"putAdmin", "identity", "status"}, UNCHANGED <<admin, identity>>, Goto(l)
      PROVE Away
  BY <1>g, <1>w DEF Goto, Worker
<1>r. ASSUME UNCHANGED <<admin, identity>>, Return(FALSE) PROVE Away
  BY <1>r DEF Return, Idle
<1>i. ASSUME UNCHANGED <<admin, identity>>, w' = Idle PROVE Away
  BY <1>i DEF Idle
<1>p. /\ "getPostgres" \in PC /\ "config" \in PC /\ "listClaims" \in PC /\ "creds" \in PC
      /\ "master" \in PC
  BY DEF PC
<1>1. CASE Reconcile
  BY <1>1, <1>g, <1>p DEF Reconcile, s3
<1>2. CASE GetPostgres
  BY <1>2, <1>w DEF GetPostgres, s3, Worker
<1>3. CASE PutPostgres
  BY <1>3, <1>g, <1>r, <1>p DEF PutPostgres, s3
<1>4. CASE pgCreds
  <2>1. CASE creds = None
    BY <1>4, <1>r, <2>1 DEF pgCreds, s3
  <2>2. CASE creds # None
    BY <1>4, <1>w, <2>2 DEF pgCreds, s3, Worker
  <2> QED BY <2>1, <2>2
<1>5. CASE ApplyConfig
  BY <1>5, <1>g, <1>p DEF ApplyConfig, s3
<1>6. ASSUME NEW c \in Comp, ApplyWorkload(c) PROVE Away
  <2>1. After["master"] = "volume" /\ After["volume"] = "filer" /\ After["filer"] = "rollout"
    BY DEF After
  <2>2. After[c] \in PC \ {"putAdmin", "identity", "status"}
    BY <2>1 DEF Comp, PC
  <2> QED BY <1>6, <1>g, <2>2 DEF ApplyWorkload, s3
<1>7. CASE Rollout
  BY <1>7, <1>r DEF Rollout, s3, Idle
<1>8. CASE Status
  BY <1>8, <1>i DEF Status, s3
<1>9. CASE ListClaims
  BY <1>9, <1>w DEF ListClaims, s3, Worker
<1>10. CASE Release
  BY <1>10, <1>i DEF Release, s3
<1>11. ASSUME NEW c \in Comp, DropClaim(c) PROVE Away
  <2>1. w'.pc = "dropClaims"
    BY <1>11, <1>w DEF DropClaim, Worker
  <2> QED BY <1>11, <2>1 DEF DropClaim, s3
<1>12. CASE Stop
  BY <1>12, <1>i DEF Stop, s3
<1>13. CASE CallFails
  BY <1>13, <1>i, <1>r DEF CallFails, s3
<1> HIDE DEF Away
<1>14. ASSUME UNCHANGED <<admin, identity, w>> PROVE Away
  BY <1>14 DEF Away
<1>15. \/ UNCHANGED <<admin, identity, w>>
       \/ Reconcile \/ GetPostgres \/ PutPostgres \/ pgCreds \/ ApplyConfig
       \/ \E c \in Comp : ApplyWorkload(c)
       \/ Rollout \/ Status \/ ListClaims \/ Release
       \/ \E c \in Comp : DropClaim(c)
       \/ Stop \/ CallFails
       \/ ensureAdminSecret \/ PutAdminSecret \/ ensureAdminIdentity
       \/ Collect \/ AdminLost \/ PostgresLost
  BY Zenon DEF Next, vars, WorkerStep, KubernetesStep, MakeClaim, ServerUp, FilerUp,
     OperatorStep, GeneratePassword, RecordPassword, OperatorStops, Drift, PodLost, Scale,
     DeleteStore, s3
<1> QED
  BY <1>1, <1>2, <1>3, <1>4, <1>5, <1>6, <1>7, <1>8, <1>9, <1>10, <1>11, <1>12, <1>13, <1>14, <1>15, Zenon

\* Every step keeps the admin identity's part of the invariant.
LEMMA AdminStep ==
    ASSUME TypeOK, AdminInv, [Next]_vars
    PROVE  AdminInv'
<1> DEFINE Opens == admin # None /\ identity = admin
           Trusted == Kept("admin") /\ store.phase # "gone"
<1>w. w \in Worker
  BY DEF TypeOK
<1>a. /\ w.pc = "putAdmin" => w.word # None
      /\ Trusted => /\ w.pc = "identity" => admin # None /\ w.word = admin
                    /\ (w.pc = "status" /\ w.ready) \/ store.ready => Opens
  BY DEF AdminInv
<1>t. Trusted' => Trusted
  <2>1. store.phase = "gone" => store'.phase = "gone"
    BY StoreStep
  <2>2. Kept("admin")' => Kept("admin")
    BY KeptShrinks
  <2> QED BY <2>1, <2>2
<1>r. store'.ready => store.ready \/ (w.pc = "status" /\ w.ready)
  <2>1. store'.ready = store.ready \/ (Status /\ store'.ready = w.ready)
    BY StoreStep
  <2> QED BY <2>1 DEF Status
<1>g. SUFFICES /\ w'.pc = "putAdmin" => w'.word # None
               /\ Trusted /\ Kept("admin")' =>
                    /\ w'.pc = "identity" => admin' # None /\ w'.word = admin'
                    /\ w'.pc = "status" /\ w'.ready => Opens'
                    /\ store.ready \/ (w.pc = "status" /\ w.ready) => Opens'
  BY <1>t, <1>r DEF AdminInv
<1>1. CASE /\ UNCHANGED <<admin, identity>>
           /\ \/ UNCHANGED w
              \/ w'.pc \notin {"putAdmin", "identity", "status"}
              \/ w'.pc = "status" /\ ~w'.ready
  BY <1>a, <1>1
<1>2. CASE ensureAdminSecret
  <2>1. /\ UNCHANGED <<admin, identity>>
        /\ \/ admin # None /\ w' = [w EXCEPT !.word = admin, !.pc = "identity"]
           \/ w' = [w EXCEPT !.word = Fresh, !.pc = "putAdmin"]
    BY <1>2 DEF ensureAdminSecret, s3
  <2>2. \/ admin # None /\ w'.word = admin /\ w'.pc = "identity"
        \/ w'.word # None /\ w'.pc = "putAdmin"
    BY <1>w, <2>1, FreshWord DEF Worker
  <2> QED BY <1>a, <2>1, <2>2
<1>3. CASE PutAdminSecret
  <2>1. w.pc = "putAdmin" /\ UNCHANGED identity
    BY <1>3 DEF PutAdminSecret
  <2>2. CASE admin = None
    <3>1. admin' = w.word /\ w' = [w EXCEPT !.pc = "identity"]
      BY <1>3, <2>2 DEF PutAdminSecret, CreateAdminSecret, Goto
    <3>2. w'.pc = "identity" /\ w'.word = w.word
      BY <1>w, <3>1 DEF Worker
    <3> QED BY <1>a, <2>1, <2>2, <3>1, <3>2
  <2>3. CASE admin # None
    <3>1. admin' = admin /\ w'.pc = "status" /\ ~w'.ready
      BY <1>3, <2>3 DEF PutAdminSecret, CreateAdminSecret, Return, Idle
    <3> QED BY <1>a, <2>1, <3>1
  <2> QED BY <2>2, <2>3
<1>4. CASE ensureAdminIdentity
  <2>1. /\ w.pc = "identity" /\ UNCHANGED admin /\ w'.pc = "status"
        /\ \/ identity' = w.word
           \/ UNCHANGED identity /\ ~w'.ready
    BY <1>4 DEF ensureAdminIdentity, writeIdentity, Return, Idle
  <2> QED BY <1>a, <2>1
<1>5. CASE AdminLost \/ PostgresLost
  <2>1. ~Kept("admin")' /\ UNCHANGED w
    BY <1>5 DEF AdminLost, PostgresLost, Disturbance, Kept, Voids
  <2> QED BY <1>a, <2>1
<1>6. CASE Collect
  <2>1. ~Trusted /\ UNCHANGED w
    BY <1>6 DEF Collect
  <2> QED BY <1>a, <2>1
<1> QED BY <1>1, <1>2, <1>3, <1>4, <1>5, <1>6, AdminElsewhere

-----------------------------------------------------------------------------
(* The claims *)

\* What the steps do to the worker's place in a deletion and to its list.
LEMMA WorkerElsewhere ==
    ASSUME TypeOK, [Next]_vars
    PROVE  \/ UNCHANGED w
           \/ /\ w'.pc \notin {"listClaims", "dropClaims"}
              /\ w'.list = {} \/ (w'.list = w.list /\ w.pc # "dropClaims")
              /\ w'.pc = "idle" \/ store.phase # "gone" \/ w.pc # "idle"
           \/ Reconcile /\ store.phase = "deleting" /\ w'.pc = "listClaims" /\ w'.list = w.list
           \/ ListClaims
           \/ \E c \in Comp : DropClaim(c)
<1> DEFINE Away == /\ w'.pc \notin {"listClaims", "dropClaims"}
                   /\ w'.list = {} \/ (w'.list = w.list /\ w.pc # "dropClaims")
                   /\ w'.pc = "idle" \/ store.phase # "gone" \/ w.pc # "idle"
           ToList == /\ Reconcile /\ store.phase = "deleting"
                     /\ w'.pc = "listClaims" /\ w'.list = w.list
<1>0. SUFFICES UNCHANGED w \/ Away \/ ToList \/ ListClaims \/ \E c \in Comp : DropClaim(c)
  OBVIOUS
<1>w. w \in Worker
  BY DEF TypeOK
<1>g. ASSUME NEW l \in PC \ {"listClaims", "dropClaims"}, Goto(l),
             w.pc # "dropClaims", store.phase # "gone" \/ w.pc # "idle"
      PROVE  Away
  BY <1>g, <1>w DEF Goto, Worker
<1>r. ASSUME NEW b \in BOOLEAN, Return(b), w.pc # "idle" PROVE Away
  BY <1>r DEF Return, Idle
<1>i. ASSUME w' = Idle PROVE Away
  BY <1>i DEF Idle
<1>p. /\ "getPostgres" \in PC /\ "config" \in PC /\ "creds" \in PC
      /\ "master" \in PC /\ "identity" \in PC
  BY DEF PC
<1>1. CASE Reconcile
  <2>1. CASE store.phase = "live"
    <3>1. /\ w.pc = "idle"
          /\ w' = [w EXCEPT !.pc = "getPostgres"] \/ w' = [w EXCEPT !.pc = "config"]
      BY <1>1, <2>1 DEF Reconcile, Goto
    <3> QED BY <1>w, <2>1, <3>1 DEF Worker
  <2>2. CASE store.phase # "live"
    <3>1. store.phase = "deleting" /\ w' = [w EXCEPT !.pc = "listClaims"]
      BY <1>1, <2>2 DEF Reconcile, Goto
    <3> QED BY <1>1, <1>w, <3>1 DEF Worker
  <2> QED BY <2>1, <2>2
<1>2. CASE GetPostgres
  BY <1>2, <1>w DEF GetPostgres, Worker
<1>3. CASE PutPostgres
  BY <1>3, <1>g, <1>r, <1>p DEF PutPostgres
<1>4. CASE pgCreds
  <2>1. CASE creds = None
    BY <1>4, <1>r, <2>1 DEF pgCreds
  <2>2. CASE creds # None
    BY <1>4, <1>w, <2>2 DEF pgCreds, Worker
  <2> QED BY <2>1, <2>2
<1>5. CASE ApplyConfig
  BY <1>5, <1>g, <1>p DEF ApplyConfig
<1>6. ASSUME NEW c \in Comp, ApplyWorkload(c) PROVE Away
  <2>1. After["master"] = "volume" /\ After["volume"] = "filer" /\ After["filer"] = "rollout"
    BY DEF After
  <2>2. After[c] \in PC \ {"listClaims", "dropClaims"} /\ c \notin {"idle", "dropClaims"}
    BY <2>1 DEF Comp, PC
  <2> QED BY <1>6, <1>g, <2>2 DEF ApplyWorkload
<1>7. CASE Rollout
  BY <1>7, <1>r DEF Rollout, Idle
<1>8. CASE ensureAdminSecret
  <2>1. /\ w.pc = "getAdmin"
        /\ \/ w' = [w EXCEPT !.word = admin, !.pc = "identity"]
           \/ w' = [w EXCEPT !.word = Fresh, !.pc = "putAdmin"]
    BY <1>8 DEF ensureAdminSecret
  <2> QED BY <1>w, <2>1 DEF Worker
<1>9. CASE PutAdminSecret
  BY <1>9, <1>g, <1>r, <1>p DEF PutAdminSecret, CreateAdminSecret
<1>10. CASE ensureAdminIdentity
  BY <1>10, <1>r DEF ensureAdminIdentity
<1>11. CASE Status \/ Release \/ Stop
  BY <1>11, <1>i DEF Status, Release, Stop
<1>12. CASE CallFails
  BY <1>12, <1>i, <1>r DEF CallFails
<1> HIDE DEF Away, ToList
<1>13. \/ UNCHANGED w
       \/ Reconcile \/ GetPostgres \/ PutPostgres \/ pgCreds \/ ApplyConfig
       \/ (\E c \in Comp : ApplyWorkload(c)) \/ Rollout
       \/ ensureAdminSecret \/ PutAdminSecret \/ ensureAdminIdentity
       \/ Status \/ Release \/ Stop \/ CallFails
       \/ ListClaims \/ \E c \in Comp : DropClaim(c)
  BY Zenon DEF Next, vars, WorkerStep, KubernetesStep, MakeClaim, ServerUp, FilerUp, Collect,
     OperatorStep, GeneratePassword, RecordPassword, OperatorStops, Drift, AdminLost, PostgresLost,
     PodLost, Scale, DeleteStore
<1> QED
  BY <1>1, <1>2, <1>3, <1>4, <1>5, <1>6, <1>7, <1>8, <1>9, <1>10, <1>11, <1>12, <1>13, Zenon

\* Every step keeps the worker of a deletion in its place.
LEMMA DeletingStep ==
    ASSUME TypeOK, Deleting, [Next]_vars
    PROVE  Deleting'
<1>w. w \in Worker
  BY DEF TypeOK
<1>d. /\ w.pc \in {"listClaims", "dropClaims"} => store.phase = "deleting"
      /\ w.list # {} => w.pc = "dropClaims" /\ store.reclaim = "Delete"
      /\ store.phase = "gone" => w.pc = "idle"
  BY DEF Deleting
<1>s. /\ store'.reclaim = store.reclaim
      /\ \/ store'.phase = store.phase
         \/ DeleteStore /\ store.phase = "live" /\ store'.phase = "deleting"
         \/ Release /\ store'.phase = "gone"
  BY StoreStep
<1>1. CASE Release
  BY <1>1 DEF Release, Deleting, Idle
<1>2. CASE ~Release /\ UNCHANGED w
  BY <1>2, <1>d, <1>s DEF Deleting
<1>3. CASE ~Release /\ ListClaims
  <2>1. w.pc = "listClaims" /\ UNCHANGED store /\ w'.pc = "dropClaims" /\ w'.list = ListedClaims
    BY <1>3, <1>w DEF ListClaims, Worker
  <2>2. ListedClaims # {} => store.reclaim = "Delete"
    BY DEF ListedClaims
  <2> QED BY <1>d, <1>s, <2>1, <2>2 DEF Deleting
<1>4. ASSUME NEW c \in Comp, DropClaim(c) PROVE Deleting'
  <2>1. w.pc = "dropClaims" /\ UNCHANGED store /\ w'.pc = w.pc /\ w'.list = w.list \ {c}
    BY <1>4, <1>w DEF DropClaim, Worker
  <2> QED BY <1>d, <2>1 DEF Deleting
<1>5. CASE Reconcile /\ store.phase = "deleting" /\ w'.pc = "listClaims" /\ w'.list = w.list
  <2>1. w.pc = "idle" /\ UNCHANGED store
    BY <1>5 DEF Reconcile
  <2> QED BY <1>5, <1>d, <2>1 DEF Deleting
<1>6. CASE /\ ~Release
           /\ w'.pc \notin {"listClaims", "dropClaims"}
           /\ w'.list = {} \/ (w'.list = w.list /\ w.pc # "dropClaims")
           /\ w'.pc = "idle" \/ store.phase # "gone" \/ w.pc # "idle"
  <2>1. w'.list = {}
    BY <1>6, <1>d
  <2> QED BY <1>6, <1>d, <1>s, <2>1 DEF Deleting
<1> QED BY <1>1, <1>2, <1>3, <1>4, <1>5, <1>6, WorkerElsewhere

\* Who touches the claims or the sets.
LEMMA ClaimsElsewhere ==
    ASSUME [Next]_vars
    PROVE  \/ UNCHANGED <<claims, sets>>
           \/ \E c \in Comp : ApplyWorkload(c) \/ DropClaim(c) \/ MakeClaim(c)
           \/ Collect
           \/ \E d \in {"podLost", "podLostInTeardown"} : PodLost(d)
<1> QED
  BY Zenon DEF Next, vars, WorkerStep, Reconcile, GetPostgres, PutPostgres, pgCreds, ApplyConfig,
     Rollout, ensureAdminSecret, PutAdminSecret, ensureAdminIdentity, Status,
     ListClaims, Release, KubernetesStep, ServerUp, FilerUp,
     OperatorStep, GeneratePassword, RecordPassword, Stop, CallFails, OperatorStops, Drift,
     AdminLost, PostgresLost, Scale, DeleteStore, plane

\* A deletion that leaves the guarantee intact began with every claim bound.
LEMMA DeleteFindsAll ==
    ASSUME TypeOK, DeleteStore, Kept("reclaim")', NEW c \in Comp, HasClaim(c)
    PROVE  claims[c] = "bound"
<1>1. SUFFICES ASSUME ~(\A x \in Comp : HasClaim(x) => claims[x] = "bound") PROVE FALSE
  OBVIOUS
<1>2. Disturbance("deleteInRollout")
  BY <1>1 DEF DeleteStore
<1>3. Voids("deleteInRollout") = {"reclaim"}
  BY DEF Voids
<1> QED BY <1>2, <1>3 DEF Disturbance, Kept

\* Every step keeps the claims' part of the invariant.
LEMMA ReclaimStep ==
    ASSUME TypeOK, Deleting, ReclaimInv, [Next]_vars
    PROVE  ReclaimInv'
<1>t. /\ claims \in [Comp -> {"none", "bound", "going"}] /\ sets \in [Comp -> 0 .. 4] /\ w \in Worker
      /\ store.phase \in {"live", "deleting", "gone"}
  BY DEF TypeOK
<1>d. /\ w.pc \in {"listClaims", "dropClaims"} => store.phase = "deleting"
      /\ store.phase = "gone" => w.pc = "idle"
  BY DEF Deleting
<1>k. Kept("reclaim")' => Kept("reclaim")
  BY KeptShrinks
<1>s. /\ store'.reclaim = store.reclaim
      /\ \/ store'.phase = store.phase
         \/ DeleteStore /\ store.phase = "live" /\ store'.phase = "deleting"
         \/ Release /\ store'.phase = "gone"
  BY StoreStep
<1>h. \A c \in Comp : HasClaim(c)' = HasClaim(c)
  <2>1. store'.redundancy = store.redundancy
    BY StoreStep
  <2> QED BY <2>1 DEF HasClaim, usesPostgres, High
<1>i. /\ \A c \in Comp : claims[c] # "none" /\ store.phase # "gone" => sets[c] > 0
      /\ \A c \in Comp : claims[c] = "going" => store.phase # "live"
      /\ Kept("reclaim") /\ store.phase # "live" =>
           \A c \in Comp : HasClaim(c) => claims[c] # "none" \/ (store.phase = "gone" /\ sets[c] = 0)
      /\ Kept("reclaim") /\ store.reclaim = "Delete" /\ w.pc = "dropClaims" =>
           \A c \in Comp : claims[c] = "bound" => c \in w.list
      /\ Kept("reclaim") /\ store.reclaim = "Delete" /\ store.phase = "gone" =>
           \A c \in Comp : claims[c] # "bound"
  BY DEF ReclaimInv
<1>g. SUFFICES ASSUME NEW c \in Comp
      PROVE  /\ claims'[c] # "none" /\ store'.phase # "gone" => sets'[c] > 0
             /\ claims'[c] = "going" => store'.phase # "live"
             /\ Kept("reclaim")' =>
                  /\ store'.phase # "live" /\ HasClaim(c) =>
                       claims'[c] # "none" \/ (store'.phase = "gone" /\ sets'[c] = 0)
                  /\ store.reclaim = "Delete" =>
                       /\ w'.pc = "dropClaims" /\ claims'[c] = "bound" => c \in w'.list
                       /\ store'.phase = "gone" => claims'[c] # "bound"
  BY <1>s, <1>h DEF ReclaimInv
<1>1. CASE UNCHANGED <<claims, sets>>
  <2>1. claims[c] # "none" /\ store'.phase # "gone" => sets[c] > 0
    BY <1>i, <1>s
  <2>2. claims[c] = "going" => store'.phase # "live"
    BY <1>i, <1>s
  <2>3. Kept("reclaim")' /\ store'.phase # "live" /\ HasClaim(c) =>
          claims[c] # "none" \/ (store'.phase = "gone" /\ sets[c] = 0)
    <3>1. CASE DeleteStore
      BY <3>1, DeleteFindsAll, <1>t
    <3>2. CASE Release
      <4>1. store.phase = "deleting"
        BY <3>2, <1>d DEF Release
      <4> QED BY <1>i, <1>k, <4>1
    <3>3. CASE store'.phase = store.phase
      BY <1>i, <1>k, <3>3
    <3> QED BY <1>s, <3>1, <3>2, <3>3
  <2>4. Kept("reclaim")' /\ store.reclaim = "Delete" /\ w'.pc = "dropClaims" /\ claims[c] = "bound"
          => c \in w'.list
    <3>1. CASE UNCHANGED w
      BY <1>i, <1>k, <3>1
    <3>2. CASE ListClaims
      <4>1. w'.list = ListedClaims
        BY <1>t, <3>2 DEF ListClaims, Worker
      <4> QED BY <4>1 DEF ListedClaims
    <3>3. ASSUME NEW x \in Comp, DropClaim(x), claims[c] = "bound", Kept("reclaim")',
                 store.reclaim = "Delete"
          PROVE  c \in w'.list
      <4>1. /\ w.pc = "dropClaims" /\ w'.list = w.list \ {x}
            /\ claims' = [claims EXCEPT ![x] =
                            IF claims[x] = "bound" /\ sets[x] > 0 THEN "going" ELSE claims[x]]
        BY <1>t, <3>3 DEF DropClaim, Worker
      <4>2. sets[c] > 0
        BY <1>d, <1>i, <3>3, <4>1
      <4>3. c # x
        BY <1>1, <1>t, <3>3, <4>1, <4>2
      <4> QED BY <1>i, <1>k, <3>3, <4>1, <4>3
    <3> QED BY <3>1, <3>2, <3>3, WorkerElsewhere
  <2>5. Kept("reclaim")' /\ store.reclaim = "Delete" /\ store'.phase = "gone" => claims[c] # "bound"
    <3>1. CASE Release
      <4>1. w.pc = "dropClaims" /\ w.list = {}
        BY <3>1 DEF Release
      <4> QED BY <1>i, <1>k, <4>1
    <3>2. CASE ~Release
      BY <1>i, <1>k, <1>s, <3>2
    <3> QED BY <3>1, <3>2
  <2> QED BY <1>1, <2>1, <2>2, <2>3, <2>4, <2>5
<1>2. ASSUME NEW x \in Comp, ApplyWorkload(x)
      PROVE  /\ store.phase # "gone" /\ UNCHANGED <<store, claims>> /\ w'.pc # "dropClaims"
             /\ sets[c] > 0 => sets'[c] > 0
  <2>1. /\ w.pc = x /\ UNCHANGED <<store, claims>> /\ w' = [w EXCEPT !.pc = After[x]]
        /\ sets' = [sets EXCEPT ![x] = Replicas(x)]
    BY <1>2 DEF ApplyWorkload, Goto
  <2>2. After["master"] = "volume" /\ After["volume"] = "filer" /\ After["filer"] = "rollout"
    BY DEF After
  <2>3. w'.pc # "dropClaims"
    BY <1>t, <2>1, <2>2 DEF Worker, Comp
  <2>4. Replicas(x) \in 1 .. 4
    BY ReplicaCount
  <2>5. sets[c] > 0 => sets'[c] > 0
    BY <1>t, <2>1, <2>4
  <2>6. store.phase # "gone"
    BY <1>d, <2>1 DEF Comp
  <2> QED BY <2>1, <2>3, <2>5, <2>6
<1>3. CASE \E x \in Comp : ApplyWorkload(x)
  <2>1. /\ store.phase # "gone" /\ UNCHANGED <<store, claims>> /\ w'.pc # "dropClaims"
        /\ sets[c] > 0 => sets'[c] > 0
    BY <1>2, <1>3
  <2> QED BY <1>i, <1>k, <2>1
<1>4. ASSUME NEW x \in Comp, DropClaim(x)
      PROVE  /\ w.pc = "dropClaims" /\ UNCHANGED <<store, sets>> /\ w'.list = w.list \ {x}
             /\ c # x => claims'[c] = claims[c]
             /\ claims[c] = "none" <=> claims'[c] = "none"
             /\ claims'[c] = "bound" => claims[c] = "bound"
             /\ c = x /\ sets[c] > 0 => claims'[c] # "bound"
  BY <1>t, <1>4 DEF DropClaim, Worker
<1>5. CASE \E x \in Comp : DropClaim(x)
  <2>1. PICK x \in Comp : DropClaim(x)
    BY <1>5
  <2>2. /\ w.pc = "dropClaims" /\ UNCHANGED <<store, sets>> /\ w'.list = w.list \ {x}
        /\ c # x => claims'[c] = claims[c]
        /\ claims[c] = "none" <=> claims'[c] = "none"
        /\ claims'[c] = "bound" => claims[c] = "bound"
        /\ c = x /\ sets[c] > 0 => claims'[c] # "bound"
    BY <1>4, <2>1
  <2>3. store.phase = "deleting"
    BY <1>d, <2>2
  <2>4. claims[c] = "bound" => sets[c] > 0
    BY <1>i, <2>3
  <2> QED BY <1>i, <1>k, <2>2, <2>3, <2>4
<1>6. ASSUME NEW x \in Comp, MakeClaim(x)
      PROVE  /\ UNCHANGED <<store, sets, w>>
             /\ \/ claims'[c] = claims[c]
                \/ HasClaim(c) /\ sets[c] > 0 /\ claims[c] = "none" /\ claims'[c] = "bound"
  BY <1>t, <1>6 DEF MakeClaim
<1>7. CASE \E x \in Comp : MakeClaim(x)
  <2>1. /\ UNCHANGED <<store, sets, w>>
        /\ \/ claims'[c] = claims[c]
           \/ HasClaim(c) /\ sets[c] > 0 /\ claims[c] = "none" /\ claims'[c] = "bound"
    BY <1>6, <1>7
  <2>2. sets[c] \in 0 .. 4
    BY <1>t
  <2>3. CASE claims'[c] = claims[c]
    BY <1>i, <1>k, <2>1, <2>3
  <2>4. CASE HasClaim(c) /\ sets[c] > 0 /\ claims[c] = "none" /\ claims'[c] = "bound"
    <3>1. Kept("reclaim") => store.phase = "live"
      BY <1>i, <2>2, <2>4
    <3> QED BY <1>d, <1>k, <2>1, <2>4, <3>1
  <2> QED BY <2>1, <2>3, <2>4
<1>8. CASE Collect
  <2>1. /\ store.phase = "gone" /\ UNCHANGED <<store, w>> /\ sets'[c] = 0
        /\ claims'[c] = IF claims[c] = "going" THEN "none" ELSE claims[c]
    BY <1>8 DEF Collect
  <2>2. w.pc = "idle"
    BY <1>d, <2>1
  <2> QED BY <1>i, <1>k, <2>1, <2>2
<1>9. ASSUME NEW d \in {"podLost", "podLostInTeardown"}, PodLost(d)
      PROVE  /\ UNCHANGED <<store, sets, w>>
             /\ claims'[c] = claims[c] \/ (claims[c] = "going" /\ claims'[c] = "none")
             /\ store.phase # "live" => ~Kept("reclaim")'
  <2>1. UNCHANGED <<store, sets, w>>
    BY <1>9 DEF PodLost
  <2>2. claims'[c] = claims[c] \/ (claims[c] = "going" /\ claims'[c] = "none")
    <3>1. \E x : claims' = [claims EXCEPT ![x] = IF claims[x] = "going" THEN "none" ELSE claims[x]]
      BY <1>9 DEF PodLost
    <3> QED BY <1>t, <3>1
  <2>3. store.phase # "live" => ~Kept("reclaim")'
    <3>1. store.phase # "live" => d = "podLostInTeardown"
      BY <1>9 DEF PodLost
    <3>2. Voids("podLostInTeardown") = {"reclaim"}
      BY DEF Voids
    <3> QED BY <1>9, <3>1, <3>2 DEF PodLost, Disturbance, Kept
  <2> QED BY <2>1, <2>2, <2>3
<1>10. CASE \E d \in {"podLost", "podLostInTeardown"} : PodLost(d)
  <2>1. /\ UNCHANGED <<store, sets, w>>
        /\ claims'[c] = claims[c] \/ (claims[c] = "going" /\ claims'[c] = "none")
        /\ store.phase # "live" => ~Kept("reclaim")'
    BY <1>9, <1>10
  <2> QED BY <1>d, <1>i, <1>k, <2>1
<1> QED BY <1>1, <1>3, <1>5, <1>7, <1>8, <1>10, ClaimsElsewhere

\* Who gives up a claim that is bound.
LEMMA ClaimsStayStep ==
    ASSUME TypeOK, Deleting, [Next]_vars
    PROVE  ClaimsStay
<1>t. claims \in [Comp -> {"none", "bound", "going"}] /\ w \in Worker
  BY DEF TypeOK
<1> SUFFICES ASSUME NEW c \in Comp, claims[c] = "bound", claims'[c] # "bound"
             PROVE  store.phase = "deleting" /\ store.reclaim = "Delete"
  BY DEF ClaimsStay
<1>1. ASSUME NEW x \in Comp, DropClaim(x)
      PROVE  store.phase = "deleting" /\ store.reclaim = "Delete"
  BY <1>1 DEF DropClaim, Deleting
<1>2. ASSUME NEW x \in Comp, ApplyWorkload(x) \/ MakeClaim(x) PROVE FALSE
  BY <1>t, <1>2 DEF ApplyWorkload, MakeClaim
<1>3. CASE Collect
  BY <1>3 DEF Collect
<1>4. ASSUME NEW d, PodLost(d) PROVE FALSE
  <2>1. \E x : claims' = [claims EXCEPT ![x] = IF claims[x] = "going" THEN "none" ELSE claims[x]]
    BY <1>4 DEF PodLost
  <2> QED BY <1>t, <2>1
<1> QED BY <1>1, <1>2, <1>3, <1>4, ClaimsElsewhere

-----------------------------------------------------------------------------
(* The theorems *)

\* A store is created with nothing of its data plane there.
LEMMA InitInv == Init => SeaweedInv
<1> SUFFICES ASSUME Init PROVE SeaweedInv
  OBVIOUS
<1>1. PICK r \in Redundancies, p \in Reclaims, n \in {0, 2, 3} :
        store = [redundancy |-> r, reclaim |-> p, nodes |-> n, phase |-> "live", ready |-> FALSE]
  BY DEF Init
<1>2. TypeOK
  <2>1. store \in [redundancy: Redundancies, reclaim: Reclaims, nodes: 0 .. 4,
                   phase: {"live", "deleting", "gone"}, ready: BOOLEAN]
    BY <1>1
  <2>2. None \in WordOrNone /\ Down \in Pod /\ NoPostgres \in Postgres
        /\ NoConfig \in [there: BOOLEAN, word: WordOrNone]
    BY DEF WordOrNone, Down, Pod, NoPostgres, Postgres, NoConfig
  <2>3. Idle \in Worker
    BY <2>2 DEF Idle, Worker, PC
  <2>4. budget \in [left: 0 .. MaxDisturb, kept: SUBSET Guarantee]
    <3>1. MaxDisturb \in 0 .. MaxDisturb
      BY SeaweedAssumption
    <3> QED BY <3>1 DEF Init
  <2> QED BY <2>1, <2>2, <2>3, <2>4 DEF Init, TypeOK
<1>3. DatabaseInv
  BY DEF Init, DatabaseInv, NoPostgres, Down
<1>4. AdminInv
  BY <1>1 DEF Init, AdminInv, Idle
<1>5. Deleting
  BY <1>1 DEF Init, Deleting, Idle
<1>6. ReclaimInv
  BY <1>1 DEF Init, ReclaimInv, Idle
<1> QED BY <1>2, <1>3, <1>4, <1>5, <1>6 DEF SeaweedInv

\* Every step keeps the invariant.
LEMMA SeaweedStep == SeaweedInv /\ [Next]_vars => SeaweedInv'
<1> QED BY TypeStep, DatabaseStep, AdminStep, DeletingStep, ReclaimStep DEF SeaweedInv

\* The types, whatever is lost, edited, scaled or deleted.
THEOREM SeaweedTypeCorrect == Spec => []TypeOK
<1>1. SeaweedInv => TypeOK
  BY DEF SeaweedInv
<1> QED BY InitInv, SeaweedStep, <1>1, PTL DEF Spec

\* A filer that logged into its database is never shut out of it
\* (postgres.go ensurePostgres, preservePgUserSecrets).
THEOREM SeaweedFilerAuthenticates == Spec => []FilerAuthenticates
<1>1. SeaweedInv => FilerAuthenticates
  BY DEF SeaweedInv, DatabaseInv, FilerAuthenticates
<1> QED BY InitInv, SeaweedStep, <1>1, PTL DEF Spec

\* The admin Secret of a Ready store opens its gateway (seaweedfs.go ensureAdminSecret,
\* ensureAdminIdentity), whatever the worker was stopped at or read from its cache.
THEOREM SeaweedAdminOpens == Spec => []AdminOpens
<1>1. SeaweedInv => AdminOpens
  BY DEF SeaweedInv, AdminInv, AdminOpens
<1> QED BY InitInv, SeaweedStep, <1>1, PTL DEF Spec

\* Data goes with a deletion with reclaim policy Delete and with nothing else
\* (seaweedfs.go DeleteCluster): the action half of ClaimsFollowReclaim.
THEOREM SeaweedClaimsStay == Spec => [][ClaimsStay]_vars
<1>1. SeaweedInv /\ [Next]_vars => [ClaimsStay]_vars
  BY ClaimsStayStep DEF SeaweedInv
<1> QED BY InitInv, SeaweedStep, <1>1, PTL DEF Spec

\* The safety half of what a deletion with reclaim policy Delete promises: when
\* DeleteCluster lets the store go, no claim is left that is not on its way out,
\* unless a set could make one behind the list.
THEOREM SeaweedDeletionDrops ==
    Spec => [](store.phase = "gone" /\ store.reclaim = "Delete" /\ Kept("reclaim") =>
                 \A c \in Comp : claims[c] # "bound")
<1> DEFINE Dropped == store.phase = "gone" /\ store.reclaim = "Delete" /\ Kept("reclaim") =>
                        \A c \in Comp : claims[c] # "bound"
<1>1. SeaweedInv => Dropped
  BY DEF SeaweedInv, ReclaimInv
<1> QED BY InitInv, SeaweedStep, <1>1, PTL DEF Spec

=============================================================================
