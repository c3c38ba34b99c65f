--------------------------- MODULE CephRGWProofs ---------------------------
(***************************************************************************)
(* The Ceph RGW driver: types, the reclaim policy, rotations, and, with    *)
(* one access reconciled at a time, the bucket policy, for any number of   *)
(* accesses and disturbances.                                              *)
(***************************************************************************)
EXTENDS CephRGW, FiniteSetTheorems, TLAPS

-----------------------------------------------------------------------------
(* Types *)

\* A rotation costs a disturbance, so there are never more of them than that; what
\* was observed, or is being worked on, was asked for.
Budgeted ==
    \A a \in Access : /\ access[a].want + budget.left <= MaxDisturb
                      /\ access[a].obs <= access[a].want
                      /\ access[a].lag => access[a].old.want <= access[a].want
                      /\ aw[a].rot <= access[a].want
                      /\ aw[a].pc = "idle" => aw[a].rot = 0

CephTypes == TypeOK /\ Budgeted

\* Keys that steps write are keys; a key that is in nobody's hands can be found.
LEMMA FreshKeys ==
    ASSUME TypeOK, NEW u \in User
    PROVE  /\ FreshKey(u) \in Key
           /\ u # Owner => FreshKey(u) \notin {secret[u], access[u].rec, access[u].cred,
                                             access[u].old.rec, aw[u].key, aw[u].rec}
<1> DEFINE hands == IF u = Owner THEN {}
                    ELSE {secret[u], access[u].rec, access[u].cred, access[u].old.rec,
                          aw[u].key, aw[u].rec}
<1>1. \E k \in Key : k \notin hands
  <2>1. CASE u = Owner
    BY <2>1 DEF Key
  <2>2. CASE u # Owner
    <3>1. \A i, j, k, l, m, n : \E x \in 1 .. 7 : x \notin {i, j, k, l, m, n}
      OBVIOUS
    <3> QED BY <2>2, <3>1 DEF Key
  <2> QED BY <2>1, <2>2
<1>2. FreshKey(u) \in Key /\ FreshKey(u) \notin hands
  BY <1>1, Zenon DEF FreshKey
<1> QED BY <1>2

\* The worker of one access, and the access, as the steps change them.
LEMMA Fields ==
    ASSUME TypeOK, NEW a \in Access
    PROVE  /\ IdleWorker \in AccessWorker
           /\ \A p \in AccessPC : [aw[a] EXCEPT !.pc = p] \in AccessWorker
           /\ \A p \in AccessPC, k \in KeyOrNone : [aw[a] EXCEPT !.pc = p, !.key = k] \in AccessWorker
           /\ \A p \in AccessPC, r \in Policy : [aw[a] EXCEPT !.pc = p, !.read = r] \in AccessWorker
           /\ \A f \in Phase : [NewAccess EXCEPT !.phase = f, !.due = FALSE] \in AccessObject
           /\ \A k \in KeyOrNone : [access[a] EXCEPT !.ready = FALSE, !.due = TRUE, !.rec = k]
                                   \in AccessObject
           /\ \A d \in BOOLEAN : [access[a] EXCEPT !.due = d] \in AccessObject
           /\ \A k \in KeyOrNone, n \in 0 .. MaxDisturb :
                [access[a] EXCEPT !.rec = k, !.cred = k, !.obs = n, !.ready = TRUE] \in AccessObject
           /\ [access[a] EXCEPT !.rec = NoKey, !.cred = NoKey, !.ready = FALSE] \in AccessObject
           /\ \A n \in 0 .. MaxDisturb, d \in BOOLEAN :
                [access[a] EXCEPT !.want = n, !.due = d] \in AccessObject
           /\ \A q \in Permission, d \in BOOLEAN :
                [access[a] EXCEPT !.perm = q, !.due = d] \in AccessObject
           /\ \A f \in Phase : [access[a] EXCEPT !.phase = f] \in AccessObject
           /\ \A d \in BOOLEAN :
                [access[a] EXCEPT !.due = d, !.lag = FALSE, !.old = NoVersion] \in AccessObject
           /\ Current(a) \in Version /\ Seen(a) \in Version
<1>1. NoPolicy \in Policy
  BY DEF NoPolicy, Policy
<1>2. 0 \in 0 .. MaxDisturb
  BY CephAssumption
<1>3. IdleWorker \in AccessWorker
  BY <1>1, <1>2 DEF IdleWorker, AccessWorker, AccessPC, KeyOrNone, Permission
<1>4. aw[a] \in AccessWorker /\ access[a] \in AccessObject
  BY DEF TypeOK
<1>5. /\ \A p \in AccessPC : [aw[a] EXCEPT !.pc = p] \in AccessWorker
      /\ \A p \in AccessPC, k \in KeyOrNone : [aw[a] EXCEPT !.pc = p, !.key = k] \in AccessWorker
      /\ \A p \in AccessPC, r \in Policy : [aw[a] EXCEPT !.pc = p, !.read = r] \in AccessWorker
  BY <1>4 DEF AccessWorker
<1>10. NoVersion \in Version
  BY <1>2 DEF NoVersion, Version, Phase, KeyOrNone, Permission
<1>6. \A f \in Phase : [NewAccess EXCEPT !.phase = f, !.due = FALSE] \in AccessObject
  BY <1>2, <1>10 DEF NewAccess, AccessObject, KeyOrNone, Permission
<1>7. /\ \A k \in KeyOrNone : [access[a] EXCEPT !.ready = FALSE, !.due = TRUE, !.rec = k]
                              \in AccessObject
      /\ \A d \in BOOLEAN : [access[a] EXCEPT !.due = d] \in AccessObject
      /\ \A k \in KeyOrNone, n \in 0 .. MaxDisturb :
           [access[a] EXCEPT !.rec = k, !.cred = k, !.obs = n, !.ready = TRUE] \in AccessObject
  BY <1>4 DEF AccessObject
<1>8. [access[a] EXCEPT !.rec = NoKey, !.cred = NoKey, !.ready = FALSE] \in AccessObject
  BY <1>4 DEF AccessObject, KeyOrNone
<1>9. /\ \A n \in 0 .. MaxDisturb, d \in BOOLEAN :
           [access[a] EXCEPT !.want = n, !.due = d] \in AccessObject
      /\ \A q \in Permission, d \in BOOLEAN :
           [access[a] EXCEPT !.perm = q, !.due = d] \in AccessObject
      /\ \A f \in Phase : [access[a] EXCEPT !.phase = f] \in AccessObject
      /\ \A d \in BOOLEAN :
           [access[a] EXCEPT !.due = d, !.lag = FALSE, !.old = NoVersion] \in AccessObject
  BY <1>4, <1>10 DEF AccessObject
<1>11. Current(a) \in Version
  BY <1>4 DEF Current, Version, AccessObject
<1>12. Seen(a) \in Version
  BY <1>4, <1>11 DEF Seen, AccessObject
<1> QED BY <1>3, <1>5, <1>6, <1>7, <1>8, <1>9, <1>11, <1>12

-----------------------------------------------------------------------------
(* What the steps of one access do *)

\* The access and its worker become A and W; every other one is left alone.
Becomes(a, A, W) ==
    /\ access' = [access EXCEPT ![a] = A]
    /\ aw' = [aw EXCEPT ![a] = W]

\* The access's own user may be created or deleted.
OwnUser(a) == \E x \in {"absent", "live", "going"} : rook' = [rook EXCEPT ![a] = x]

\* What a reconcile that fails leaves of the access, and one that succeeds, with the
\* cache behind it or not.
Failed(a) ==
    IF access[a].lag THEN [access[a] EXCEPT !.due = TRUE]
    ELSE [access[a] EXCEPT !.ready = FALSE, !.due = TRUE,
                           !.rec = IF aw[a].rec = NoKey THEN access[a].rec ELSE aw[a].rec]
Done(a) == [access[a] EXCEPT !.rec = aw[a].key, !.cred = aw[a].key,
                             !.obs = aw[a].rot, !.ready = TRUE]
DoneLate(a) == [Done(a) EXCEPT !.due = TRUE, !.lag = TRUE, !.old = Current(a)]

Minting(a) == mintFresh(Seen(a), access[a].cred)

\* The worker of a reconcile that starts at next.
Started(a, next) ==
    [pc |-> next, rot |-> Seen(a).want, rec |-> Seen(a).rec, perm |-> Seen(a).perm,
     key |-> IF next = "readPolicy" THEN secret[a] ELSE NoKey, read |-> NoPolicy]

Fails(a) == Becomes(a, Failed(a), IdleWorker)

\* The parts of the reconcile that end it or go on.
LEMMA Parts ==
    ASSUME TypeOK, NEW a \in Access
    PROVE  /\ \A p : Goto(a, p) /\ UNCHANGED access => Becomes(a, access[a], [aw[a] EXCEPT !.pc = p])
           /\ Idle(a) /\ UNCHANGED access => Becomes(a, access[a], IdleWorker)
           /\ NotReady(a) => Fails(a)
           /\ ensureUser(a) => OwnUser(a)
           /\ deleteUser(a) => OwnUser(a)
<1>1. access = [access EXCEPT ![a] = access[a]]
  BY DEF TypeOK
<1>2. a \in User
  BY DEF User
<1>3. ensureUser(a) => rook' = [rook EXCEPT ![a] = IF rook[a] = "absent" THEN "live" ELSE rook[a]]
  BY DEF ensureUser
<1>4. deleteUser(a) => rook' = [rook EXCEPT ![a] = IF rook[a] = "absent" THEN rook[a] ELSE "going"]
  BY DEF deleteUser
<1>5. rook[a] \in {"absent", "live", "going"}
  BY <1>2 DEF TypeOK
<1>6. \A p : Goto(a, p) => aw' = [aw EXCEPT ![a] = [aw[a] EXCEPT !.pc = p]]
  BY DEF Goto
<1>7. NotReady(a) => Fails(a)
  <2>1. CASE access[a].lag
    <3>1. [access EXCEPT ![a].due = TRUE] = [access EXCEPT ![a] = Failed(a)]
      BY <2>1 DEF Failed, TypeOK
    <3> QED BY <2>1, <3>1 DEF NotReady, Fails, Becomes, Idle
  <2>2. CASE ~access[a].lag
    <3>1. [access EXCEPT ![a].ready = FALSE, ![a].due = TRUE,
                         ![a].rec = IF aw[a].rec = NoKey THEN @ ELSE aw[a].rec]
          = [access EXCEPT ![a] = Failed(a)]
      BY <2>2 DEF Failed, TypeOK, AccessObject
    <3> QED BY <2>2, <3>1 DEF NotReady, Fails, Becomes, Idle
  <2> QED BY <2>1, <2>2
<1> QED BY <1>1, <1>3, <1>4, <1>5, <1>6, <1>7 DEF Becomes, Idle, OwnUser

\* What a reconcile of EnsureAccess does to its access and its worker, step by step.
LEMMA EnsureEffects ==
    ASSUME TypeOK, NEW a \in Access
    PROVE  /\ TakeAccess(a) =>
                \E next \in {"mkUser", "delUser", "readPolicy"} :
                   /\ next = "mkUser" <=> ~Minting(a)
                   /\ next = "readPolicy" <=> Minting(a) /\ ~NeedsNewUser(Seen(a).rec, secret[a])
                   /\ Becomes(a, [access[a] EXCEPT !.due = FALSE], Started(a, next))
           /\ DeleteForRotation(a) => Becomes(a, access[a], [aw[a] EXCEPT !.pc = "newUser"])
           /\ CreateForRotation(a) => Fails(a)
           /\ EnsureAccessUser(a) => Becomes(a, access[a], [aw[a] EXCEPT !.pc = "keys"])
           /\ ReadAccessKeys(a) =>
                \/ Fails(a)
                \/ /\ secret[a] # NoKey
                   /\ Becomes(a, access[a], [aw[a] EXCEPT !.pc = "readPolicy", !.key = secret[a]])
           /\ ReadPolicy(a) =>
                \/ Fails(a)
                \/ /\ PolicyReadable
                   /\ Becomes(a, access[a], [aw[a] EXCEPT !.pc = "writePolicy",
                                                          !.read = parsePolicy(policy)])
           /\ WritePolicy(a) =>
                \/ ~OwnerServes /\ Fails(a)
                \/ /\ OwnerServes
                   /\ Becomes(a, access[a], [aw[a] EXCEPT !.pc = "record"])
           /\ Record(a) =>
                \/ Becomes(a, Done(a), IdleWorker)
                \/ Becomes(a, DoneLate(a), IdleWorker) /\ ~Kept("fresh")'
           /\ BucketLost(a) =>
                Becomes(a, [access[a] EXCEPT !.rec = NoKey, !.cred = NoKey, !.ready = FALSE], aw[a])
<1>1. access = [access EXCEPT ![a] = access[a]] /\ aw = [aw EXCEPT ![a] = aw[a]]
  BY DEF TypeOK
<1>2. ASSUME TakeAccess(a)
      PROVE  \E next \in {"mkUser", "delUser", "readPolicy"} :
                   /\ next = "mkUser" <=> ~Minting(a)
                   /\ next = "readPolicy" <=> Minting(a) /\ ~NeedsNewUser(Seen(a).rec, secret[a])
                   /\ Becomes(a, [access[a] EXCEPT !.due = FALSE], Started(a, next))
  <2> DEFINE nxt == CASE ~Minting(a) -> "mkUser"
                      [] Minting(a) /\ NeedsNewUser(Seen(a).rec, secret[a]) -> "delUser"
                      [] OTHER -> "readPolicy"
  <2>1. /\ nxt \in {"mkUser", "delUser", "readPolicy"}
        /\ nxt = "mkUser" <=> ~Minting(a)
        /\ nxt = "readPolicy" <=> Minting(a) /\ ~NeedsNewUser(Seen(a).rec, secret[a])
    OBVIOUS
  <2>2. Becomes(a, [access[a] EXCEPT !.due = FALSE], Started(a, nxt))
    BY <1>2, Zenon DEF TakeAccess, Becomes, Started, Minting
  <2> HIDE DEF nxt
  <2> QED BY <2>1, <2>2
<1>3. DeleteForRotation(a) => Becomes(a, access[a], [aw[a] EXCEPT !.pc = "newUser"])
  BY Parts DEF DeleteForRotation
<1>4. CreateForRotation(a) => Fails(a)
  BY Parts DEF CreateForRotation
<1>5. EnsureAccessUser(a) => Becomes(a, access[a], [aw[a] EXCEPT !.pc = "keys"])
  BY Parts DEF EnsureAccessUser
<1>6. ReadAccessKeys(a) =>
                \/ Fails(a)
                \/ /\ secret[a] # NoKey
                   /\ Becomes(a, access[a], [aw[a] EXCEPT !.pc = "readPolicy", !.key = secret[a]])
  <2>1. [aw EXCEPT ![a].pc = "readPolicy", ![a].key = secret[a]]
        = [aw EXCEPT ![a] = [aw[a] EXCEPT !.pc = "readPolicy", !.key = secret[a]]]
    BY DEF TypeOK
  <2> QED BY <1>1, <2>1, Parts DEF ReadAccessKeys, Becomes
<1>7. ReadPolicy(a) =>
                \/ Fails(a)
                \/ /\ PolicyReadable
                   /\ Becomes(a, access[a], [aw[a] EXCEPT !.pc = "writePolicy",
                                                          !.read = parsePolicy(policy)])
  <2>1. \A r : [aw EXCEPT ![a].pc = "writePolicy", ![a].read = r]
               = [aw EXCEPT ![a] = [aw[a] EXCEPT !.pc = "writePolicy", !.read = r]]
    BY DEF TypeOK
  <2>2. PolicyReadable => Parses(policy)
    BY DEF PolicyReadable
  <2> QED BY <1>1, <2>1, <2>2, Parts DEF ReadPolicy, Becomes
<1>8. WritePolicy(a) =>
                \/ ~OwnerServes /\ Fails(a)
                \/ /\ OwnerServes
                   /\ Becomes(a, access[a], [aw[a] EXCEPT !.pc = "record"])
  BY Parts DEF WritePolicy
<1>9. Record(a) =>
                \/ Becomes(a, Done(a), IdleWorker)
                \/ Becomes(a, DoneLate(a), IdleWorker) /\ ~Kept("fresh")'
  <2>1. Disturbance("lag", {"fresh"}) => ~Kept("fresh")'
    BY DEF Disturbance, Kept
  <2> QED BY <2>1, Zenon DEF Record, Becomes, Idle, Done, DoneLate
<1>10. BucketLost(a) =>
                Becomes(a, [access[a] EXCEPT !.rec = NoKey, !.cred = NoKey, !.ready = FALSE], aw[a])
  <2>1. [access EXCEPT ![a].rec = NoKey, ![a].cred = NoKey, ![a].ready = FALSE]
        = [access EXCEPT ![a] = [access[a] EXCEPT !.rec = NoKey, !.cred = NoKey, !.ready = FALSE]]
    BY DEF TypeOK
  <2> QED BY <1>1, <2>1 DEF BucketLost, Becomes
<1> QED BY <1>2, <1>3, <1>4, <1>5, <1>6, <1>7, <1>8, <1>9, <1>10

\* The same for DeleteAccess.
LEMMA DeleteEffects ==
    ASSUME TypeOK, NEW a \in Access
    PROVE  /\ DeleteAccess(a) =>
                \/ /\ bucket.phase = "gone"
                   /\ Becomes(a, [NewAccess EXCEPT !.phase = "gone", !.due = FALSE], aw[a])
                \/ /\ secret[Owner] # NoKey
                   /\ Becomes(a, access[a], [aw[a] EXCEPT !.pc = "readDrop"])
                \/ /\ secret[Owner] = NoKey \/ "revoked" \notin budget'.kept
                   /\ Becomes(a, access[a], [aw[a] EXCEPT !.pc = "dropUser"])
           /\ ReadToDrop(a) =>
                \/ Becomes(a, access[a], IdleWorker)
                \/ /\ PolicyReadable
                   /\ Becomes(a, access[a], [aw[a] EXCEPT !.pc = "writeDrop",
                                                          !.read = parsePolicy(policy)])
           /\ WriteDrop(a) =>
                \/ ~OwnerServes /\ Becomes(a, access[a], IdleWorker)
                \/ OwnerServes /\ Becomes(a, access[a], [aw[a] EXCEPT !.pc = "dropUser"])
           /\ DropUser(a) => Becomes(a, access[a], [aw[a] EXCEPT !.pc = "release"])
           /\ ReleaseAccess(a) =>
                Becomes(a, [NewAccess EXCEPT !.phase = "gone", !.due = FALSE], IdleWorker)
<1>1. access = [access EXCEPT ![a] = access[a]] /\ aw = [aw EXCEPT ![a] = aw[a]]
  BY DEF TypeOK
<1>2. DeleteAccess(a) =>
                \/ /\ bucket.phase = "gone"
                   /\ Becomes(a, [NewAccess EXCEPT !.phase = "gone", !.due = FALSE], aw[a])
                \/ /\ secret[Owner] # NoKey
                   /\ Becomes(a, access[a], [aw[a] EXCEPT !.pc = "readDrop"])
                \/ /\ secret[Owner] = NoKey \/ "revoked" \notin budget'.kept
                   /\ Becomes(a, access[a], [aw[a] EXCEPT !.pc = "dropUser"])
  <2>1. Released(a) /\ UNCHANGED aw =>
          Becomes(a, [NewAccess EXCEPT !.phase = "gone", !.due = FALSE], aw[a])
    BY <1>1 DEF Released, Becomes
  <2>2. Disturbance("readOwner", {"revoked"}) => "revoked" \notin budget'.kept
    BY DEF Disturbance
  <2> QED BY <2>1, <2>2, Parts DEF DeleteAccess
<1>3. ReadToDrop(a) =>
                \/ Becomes(a, access[a], IdleWorker)
                \/ /\ PolicyReadable
                   /\ Becomes(a, access[a], [aw[a] EXCEPT !.pc = "writeDrop",
                                                          !.read = parsePolicy(policy)])
  <2>1. \A r : [aw EXCEPT ![a].pc = "writeDrop", ![a].read = r]
               = [aw EXCEPT ![a] = [aw[a] EXCEPT !.pc = "writeDrop", !.read = r]]
    BY DEF TypeOK
  <2> QED BY <1>1, <2>1, Parts DEF ReadToDrop, Becomes
<1>4. WriteDrop(a) =>
                \/ ~OwnerServes /\ Becomes(a, access[a], IdleWorker)
                \/ OwnerServes /\ Becomes(a, access[a], [aw[a] EXCEPT !.pc = "dropUser"])
  BY Parts DEF WriteDrop
<1>5. DropUser(a) => Becomes(a, access[a], [aw[a] EXCEPT !.pc = "release"])
  BY Parts DEF DropUser
<1>6. ReleaseAccess(a) =>
                Becomes(a, [NewAccess EXCEPT !.phase = "gone", !.due = FALSE], IdleWorker)
  BY DEF ReleaseAccess, Released, Idle, Becomes
<1> QED BY <1>2, <1>3, <1>4, <1>5, <1>6

\* What no step of an access touches.
LEMMA AccessFrame ==
    ASSUME TypeOK, NEW a \in Access, AccessStep(a)
    PROVE  /\ UNCHANGED <<secret, rgw, store, bucket, bw>>
           /\ UNCHANGED policy \/ WritePolicy(a) \/ WriteDrop(a)
           /\ \/ UNCHANGED rook
              \/ ensureUser(a) /\ aw[a].pc \in {"newUser", "mkUser"}
              \/ deleteUser(a) /\ aw[a].pc \in {"delUser", "dropUser"}
           /\ UNCHANGED rook \/ OwnUser(a)
<1>1. /\ UNCHANGED <<secret, rgw, store, bucket, bw>>
      /\ UNCHANGED policy \/ WritePolicy(a) \/ WriteDrop(a)
      /\ \/ UNCHANGED rook
         \/ ensureUser(a) /\ aw[a].pc \in {"newUser", "mkUser"}
         \/ deleteUser(a) /\ aw[a].pc \in {"delUser", "dropUser"}
  BY DEF AccessStep, TakeAccess, DeleteForRotation, CreateForRotation, EnsureAccessUser,
     ReadAccessKeys, ReadPolicy, WritePolicy, Record, BucketLost, DeleteAccess, ReadToDrop,
     WriteDrop, DropUser, ReleaseAccess
<1> QED BY <1>1, Parts

\* A step of an access takes nothing but a disturbance from the budget.
LEMMA AccessBudget ==
    ASSUME TypeOK, NEW a \in Access, AccessStep(a)
    PROVE  /\ budget' \in [left: 0 .. MaxDisturb, kept: SUBSET Guarantee]
           /\ budget'.left <= budget.left /\ budget'.kept \subseteq budget.kept
<1>1. \/ UNCHANGED budget
      \/ \E ends : budget.left > 0 /\ budget' = [left |-> budget.left - 1, kept |-> budget.kept \ ends]
      \/ budget' = [budget EXCEPT !.kept = @ \ {"keys"}]
  BY Zenon DEF AccessStep, TakeAccess, DeleteForRotation, CreateForRotation, EnsureAccessUser,
     ReadAccessKeys, ReadPolicy, WritePolicy, Record, BucketLost, DeleteAccess, ReadToDrop,
     WriteDrop, DropUser, ReleaseAccess, Disturbance
<1>2. budget.left \in 0 .. MaxDisturb /\ budget.kept \subseteq Guarantee /\ MaxDisturb \in Nat
  BY CephAssumption DEF TypeOK
<1> QED BY <1>1, <1>2 DEF TypeOK

\* The policies steps write are policies.
LEMMA Policies ==
    ASSUME NEW p \in Policy, NEW a \in Access
    PROVE  /\ NoPolicy \in Policy
           /\ parsePolicy(p) \in Policy
           /\ parsePolicy(p).stmt = p.stmt
           /\ \A q \in Permission : /\ upsert(p, a, q) \in Policy
                                    /\ upsert(p, a, q).foreign = p.foreign
                                    /\ upsert(p, a, q).stmt = [p.stmt EXCEPT ![a] = q]
           /\ remove(p, a) \in Policy
           /\ remove(p, a).foreign = p.foreign
           /\ remove(p, a).stmt = [p.stmt EXCEPT ![a] = NoStmt]
  BY DEF Policy, NoPolicy, parsePolicy, upsert, remove

\* What is left after a reconcile, and what one starts with, field by field.
LEMMA EndFields ==
    ASSUME TypeOK, NEW a \in Access
    PROVE  /\ Failed(a) \in AccessObject /\ Done(a) \in AccessObject /\ DoneLate(a) \in AccessObject
           /\ \A next \in {"mkUser", "delUser", "readPolicy"} : Started(a, next) \in AccessWorker
           /\ Failed(a).phase = access[a].phase /\ Failed(a).cred = access[a].cred
           /\ Failed(a).want = access[a].want /\ Failed(a).obs = access[a].obs
           /\ Failed(a).lag = access[a].lag /\ Failed(a).old = access[a].old
           /\ access[a].lag => Failed(a).rec = access[a].rec /\ Failed(a).ready = access[a].ready
           /\ ~access[a].lag => /\ Failed(a).rec = IF aw[a].rec = NoKey THEN access[a].rec ELSE aw[a].rec
                                /\ ~Failed(a).ready
           /\ \A A \in {Done(a), DoneLate(a)} :
                /\ A.phase = access[a].phase /\ A.want = access[a].want
                /\ A.rec = aw[a].key /\ A.cred = aw[a].key /\ A.obs = aw[a].rot /\ A.ready
           /\ Done(a).lag = access[a].lag /\ Done(a).old = access[a].old
           /\ DoneLate(a).lag /\ DoneLate(a).old = Current(a)
<1>1. /\ access[a] \in AccessObject /\ aw[a] \in AccessWorker /\ secret[a] \in KeyOrNone
      /\ Current(a) \in Version /\ Seen(a) \in Version
  BY Fields DEF TypeOK, User
<1>2. aw[a].key \in KeyOrNone /\ aw[a].rec \in KeyOrNone /\ aw[a].rot \in 0 .. MaxDisturb
  BY <1>1 DEF AccessWorker
<1>3. /\ Failed(a) \in AccessObject
      /\ Failed(a).phase = access[a].phase /\ Failed(a).cred = access[a].cred
      /\ Failed(a).want = access[a].want /\ Failed(a).obs = access[a].obs
      /\ Failed(a).lag = access[a].lag /\ Failed(a).old = access[a].old
      /\ access[a].lag => Failed(a).rec = access[a].rec /\ Failed(a).ready = access[a].ready
      /\ ~access[a].lag => /\ Failed(a).rec = IF aw[a].rec = NoKey THEN access[a].rec ELSE aw[a].rec
                           /\ ~Failed(a).ready
  <2>1. CASE access[a].lag
    BY <1>1, <2>1 DEF Failed, AccessObject
  <2>2. CASE ~access[a].lag
    <3>1. PICK k \in KeyOrNone : k = IF aw[a].rec = NoKey THEN access[a].rec ELSE aw[a].rec
      BY <1>1, <1>2 DEF AccessObject
    <3>2. Failed(a) = [access[a] EXCEPT !.ready = FALSE, !.due = TRUE, !.rec = k]
      BY <2>2, <3>1 DEF Failed
    <3> QED BY <1>1, <2>2, <3>1, <3>2 DEF AccessObject
  <2> QED BY <2>1, <2>2
<1>4. /\ Done(a) \in AccessObject
      /\ Done(a).phase = access[a].phase /\ Done(a).want = access[a].want
      /\ Done(a).rec = aw[a].key /\ Done(a).cred = aw[a].key /\ Done(a).obs = aw[a].rot
      /\ Done(a).ready /\ Done(a).lag = access[a].lag /\ Done(a).old = access[a].old
  BY <1>1, <1>2 DEF Done, AccessObject
<1>5. /\ DoneLate(a) \in AccessObject
      /\ DoneLate(a).phase = access[a].phase /\ DoneLate(a).want = access[a].want
      /\ DoneLate(a).rec = aw[a].key /\ DoneLate(a).cred = aw[a].key /\ DoneLate(a).obs = aw[a].rot
      /\ DoneLate(a).ready /\ DoneLate(a).lag /\ DoneLate(a).old = Current(a)
  <2> HIDE DEF Done
  <2> QED BY <1>1, <1>4 DEF DoneLate, AccessObject
<1>6. ASSUME NEW next \in {"mkUser", "delUser", "readPolicy"} PROVE Started(a, next) \in AccessWorker
  BY <1>1 DEF Started, AccessWorker, AccessPC, KeyOrNone, Version, NoPolicy, Policy
<1> QED BY <1>3, <1>4, <1>5, <1>6, Zenon

\* One access's part of the types.
LEMMA AccessTypes ==
    ASSUME CephTypes, NEW a \in Access, AccessStep(a)
    PROVE  \E A \in AccessObject, W \in AccessWorker :
              /\ Becomes(a, A, W)
              /\ A.want <= access[a].want /\ A.obs <= A.want /\ W.rot <= A.want
              /\ A.lag => A.old.want <= A.want
              /\ W.pc = "idle" => W.rot = 0
<1> DEFINE Good(A, W) == /\ Becomes(a, A, W) /\ A \in AccessObject /\ W \in AccessWorker
                         /\ A.want <= access[a].want /\ A.obs <= A.want /\ W.rot <= A.want
                         /\ A.lag => A.old.want <= A.want
                         /\ W.pc = "idle" => W.rot = 0
<1>0. /\ TypeOK /\ aw[a] \in AccessWorker /\ access[a] \in AccessObject /\ secret[a] \in KeyOrNone
      /\ access[a].obs <= access[a].want /\ aw[a].rot <= access[a].want
      /\ access[a].lag => access[a].old.want <= access[a].want
      /\ aw[a].pc = "idle" => aw[a].rot = 0
      /\ access[a].want \in 0 .. MaxDisturb /\ access[a].obs \in 0 .. MaxDisturb
      /\ aw[a].rot \in 0 .. MaxDisturb /\ MaxDisturb \in Nat /\ aw[a].key \in KeyOrNone
  BY CephAssumption DEF CephTypes, Budgeted, TypeOK, User, AccessWorker, AccessObject
<1>1. IdleWorker.pc = "idle" /\ IdleWorker.rot = 0 /\ IdleWorker \in AccessWorker
  BY <1>0, Fields DEF IdleWorker
<1>2. ASSUME NEW p \in AccessPC \ {"idle"}, Becomes(a, access[a], [aw[a] EXCEPT !.pc = p])
      PROVE  \E A, W : Good(A, W)
  <2>1. /\ [aw[a] EXCEPT !.pc = p].rot = aw[a].rot /\ [aw[a] EXCEPT !.pc = p].pc = p
        /\ [aw[a] EXCEPT !.pc = p] \in AccessWorker
    BY <1>0, <1>2, Fields DEF AccessWorker
  <2>2. Good(access[a], [aw[a] EXCEPT !.pc = p])
    BY <1>0, <1>2, <2>1
  <2> QED BY <2>2, Zenon
<1>3. ASSUME NEW p \in AccessPC \ {"idle"}, NEW x \in Policy,
             Becomes(a, access[a], [aw[a] EXCEPT !.pc = p, !.read = x])
      PROVE  \E A, W : Good(A, W)
  <2> DEFINE W == [aw[a] EXCEPT !.pc = p, !.read = x]
  <2>1. W.rot = aw[a].rot /\ W.pc = p /\ W \in AccessWorker
    BY <1>0, <1>3, Fields DEF AccessWorker
  <2>2. Good(access[a], W)
    BY <1>0, <1>3, <2>1
  <2> QED BY <2>2, Zenon
<1>4. ASSUME Fails(a)
      PROVE  \E A, W : Good(A, W)
  <2>1. Good(Failed(a), IdleWorker)
    BY <1>0, <1>1, <1>4, EndFields DEF Fails
  <2> QED BY <2>1, Zenon
<1>5. ASSUME NEW W \in AccessWorker, (W = aw[a] /\ aw[a].pc = "idle") \/ W = IdleWorker,
             Becomes(a, [NewAccess EXCEPT !.phase = "gone", !.due = FALSE], W)
      PROVE  \E B, V : Good(B, V)
  <2> DEFINE A == [NewAccess EXCEPT !.phase = "gone", !.due = FALSE]
  <2>1. A.want = 0 /\ A.obs = 0 /\ ~A.lag
    BY DEF NewAccess
  <2>2. A \in AccessObject
    BY <1>0, Fields DEF Phase
  <2>3. Good(A, W)
    BY <1>0, <1>1, <1>5, <2>1, <2>2
  <2> QED BY <2>3, Zenon
<1>6. CASE TakeAccess(a)
  <2>1. PICK next \in {"mkUser", "delUser", "readPolicy"} :
               Becomes(a, [access[a] EXCEPT !.due = FALSE], Started(a, next))
    BY <1>0, <1>6, EnsureEffects
  <2> DEFINE A == [access[a] EXCEPT !.due = FALSE]
  <2>2. /\ A.want = access[a].want /\ A.obs = access[a].obs
        /\ A.lag = access[a].lag /\ A.old = access[a].old
    BY <1>0 DEF AccessObject
  <2>3. A \in AccessObject
    BY <1>0, Fields
  <2>4. Started(a, next) \in AccessWorker
    BY <1>0, EndFields
  <2>5. /\ Started(a, next).rot = Seen(a).want /\ Started(a, next).pc = next
        /\ Seen(a).want <= access[a].want
    BY <1>0 DEF Started, Seen, Current
  <2>6. Good(A, Started(a, next))
    BY <1>0, <2>1, <2>2, <2>3, <2>4, <2>5
  <2> QED BY <2>6, Zenon
<1>7. CASE DeleteForRotation(a) \/ EnsureAccessUser(a) \/ DropUser(a)
  BY <1>0, <1>2, <1>7, EnsureEffects, DeleteEffects DEF AccessPC
<1>8. CASE CreateForRotation(a)
  BY <1>0, <1>4, <1>8, EnsureEffects
<1>9. CASE ReadAccessKeys(a)
  <2> DEFINE W == [aw[a] EXCEPT !.pc = "readPolicy", !.key = secret[a]]
  <2>1. CASE Becomes(a, access[a], W)
    <3>1. W.rot = aw[a].rot /\ W.pc = "readPolicy"
      BY <1>0 DEF AccessWorker
    <3>2. W \in AccessWorker
      BY <1>0, Fields DEF AccessPC
    <3>3. Good(access[a], W)
      BY <1>0, <2>1, <3>1, <3>2
    <3> QED BY <3>3, Zenon
  <2> QED BY <1>0, <1>4, <1>9, <2>1, EnsureEffects
<1>10. CASE ReadPolicy(a)
  <2>1. parsePolicy(policy) \in Policy /\ "writePolicy" \in AccessPC \ {"idle"}
    BY <1>0, Policies DEF TypeOK, AccessPC
  <2> QED BY <1>0, <1>3, <1>4, <1>10, <2>1, EnsureEffects
<1>11. CASE WritePolicy(a)
  BY <1>0, <1>2, <1>4, <1>11, EnsureEffects DEF AccessPC
<1>12. CASE Record(a)
  <2>1. PICK A \in {Done(a), DoneLate(a)} : Becomes(a, A, IdleWorker)
    BY <1>0, <1>12, EnsureEffects
  <2>2. A.want = access[a].want /\ A.obs = aw[a].rot /\ A \in AccessObject
    BY <1>0, EndFields
  <2>3. A.lag => A.old.want <= A.want
    <3>1. CASE A = Done(a)
      BY <1>0, <2>2, <3>1, EndFields
    <3>2. CASE A = DoneLate(a)
      <4>1. A.old = Current(a)
        BY <1>0, <3>2, EndFields
      <4>2. Current(a).want = access[a].want
        BY DEF Current
      <4>3. A.want = access[a].want
        BY <1>0, <3>2, EndFields
      <4> QED BY <1>0, <4>1, <4>2, <4>3
    <3> QED BY <3>1, <3>2
  <2>4. Good(A, IdleWorker)
    BY <1>0, <1>1, <2>1, <2>2, <2>3
  <2> QED BY <2>4, Zenon
<1>13. CASE BucketLost(a)
  <2> DEFINE A == [access[a] EXCEPT !.rec = NoKey, !.cred = NoKey, !.ready = FALSE]
  <2>1. /\ A.want = access[a].want /\ A.obs = access[a].obs
        /\ A.lag = access[a].lag /\ A.old = access[a].old
    BY <1>0 DEF AccessObject
  <2>2. A \in AccessObject
    BY <1>0, Fields
  <2>3. Becomes(a, A, aw[a])
    BY <1>0, <1>13, EnsureEffects
  <2>4. Good(A, aw[a])
    BY <1>0, <2>1, <2>2, <2>3
  <2> QED BY <2>4, Zenon
<1>14. CASE DeleteAccess(a)
  <2>1. aw[a].pc = "idle"
    BY <1>14 DEF DeleteAccess
  <2> QED BY <1>0, <1>2, <1>5, <1>14, <2>1, DeleteEffects DEF AccessPC
<1>15. CASE ReadToDrop(a)
  <2>1. parsePolicy(policy) \in Policy /\ "writeDrop" \in AccessPC \ {"idle"}
    BY <1>0, Policies DEF TypeOK, AccessPC
  <2>2. ASSUME Becomes(a, access[a], IdleWorker) PROVE \E A, W : Good(A, W)
    <3>1. Good(access[a], IdleWorker)
      BY <1>0, <1>1, <2>2
    <3> QED BY <3>1, Zenon
  <2> QED BY <1>0, <1>3, <1>15, <2>1, <2>2, DeleteEffects
<1>16. CASE WriteDrop(a)
  <2>2. ASSUME Becomes(a, access[a], IdleWorker) PROVE \E A, W : Good(A, W)
    <3>1. Good(access[a], IdleWorker)
      BY <1>0, <1>1, <2>2
    <3> QED BY <3>1, Zenon
  <2> QED BY <1>0, <1>2, <1>16, <2>2, DeleteEffects DEF AccessPC
<1>17. CASE ReleaseAccess(a)
  BY <1>0, <1>1, <1>5, <1>17, DeleteEffects
<1>18. \E A, W : Good(A, W)
  BY <1>6, <1>7, <1>8, <1>9, <1>10, <1>11, <1>12, <1>13, <1>14, <1>15, <1>16, <1>17 DEF AccessStep
<1> QED BY <1>18

\* A disturbance takes one from the budget.
LEMMA DisturbanceType ==
    ASSUME TypeOK, NEW d, NEW ends, Disturbance(d, ends)
    PROVE  /\ budget' \in [left: 0 .. MaxDisturb, kept: SUBSET Guarantee]
           /\ budget'.left = budget.left - 1
           /\ budget'.kept = budget.kept \ ends
  BY CephAssumption DEF TypeOK, Disturbance

ByUser(a) == Rotate(a) \/ ChangePermission(a) \/ UserDeletesAccess(a)

\* What users do to an access: ask for a rotation or more permission, or delete it.
LEMMA ByUserEffects ==
    ASSUME TypeOK, Budgeted, NEW a \in Access, ByUser(a)
    PROVE  /\ budget' \in [left: 0 .. MaxDisturb, kept: SUBSET Guarantee]
           /\ access'[a] \in AccessObject
           /\ access'[a].want + budget'.left <= access[a].want + budget.left
           /\ access'[a].want >= access[a].want /\ access'[a].obs = access[a].obs
           /\ budget'.left <= budget.left
           /\ access'[a].want \in {access[a].want, access[a].want + 1}
           /\ access'[a].rec = access[a].rec /\ access'[a].cred = access[a].cred
           /\ access'[a].ready = access[a].ready
           /\ access'[a].lag = access[a].lag /\ access'[a].old = access[a].old
           /\ access[a].phase = "live" /\ access'[a].phase \in {"live", "deleting"}
           /\ access' = [access EXCEPT ![a] = access'[a]]
           /\ UNCHANGED <<rook, secret, rgw, store, bucket, policy, bw, aw>>
<1>0. /\ access \in [Access -> AccessObject] /\ access[a] \in AccessObject
      /\ access[a].want \in 0 .. MaxDisturb /\ access[a].lag \in BOOLEAN
      /\ access[a].want + budget.left <= MaxDisturb /\ MaxDisturb \in Nat /\ budget.left \in Nat
  BY CephAssumption DEF TypeOK, AccessObject, Budgeted
<1>1. /\ UNCHANGED <<rook, secret, rgw, store, bucket, policy, bw, aw>> /\ access[a].phase = "live"
      /\ budget' \in [left: 0 .. MaxDisturb, kept: SUBSET Guarantee]
      /\ budget'.left = budget.left - 1 /\ budget.left > 0
  BY DisturbanceType DEF ByUser, Rotate, ChangePermission, UserDeletesAccess, Disturbance
<1>2. PICK d \in BOOLEAN : d = (access[a].due \/ ~access[a].lag)
  OBVIOUS
<1>6. /\ \A n \in 0 .. MaxDisturb, e \in BOOLEAN :
           [access[a] EXCEPT !.want = n, !.due = e] \in AccessObject
      /\ \A q \in Permission, e \in BOOLEAN :
           [access[a] EXCEPT !.perm = q, !.due = e] \in AccessObject
      /\ \A f \in Phase : [access[a] EXCEPT !.phase = f] \in AccessObject
  BY Fields
<1>3. CASE Rotate(a)
  <2>1. PICK n \in 0 .. MaxDisturb : n = access[a].want + 1
    BY <1>0, <1>1
  <2>2. access' = [access EXCEPT ![a].want = access[a].want + 1,
                                 ![a].due = access[a].due \/ ~access[a].lag]
    BY <1>3, Zenon DEF Rotate
  <2>3. access' = [access EXCEPT ![a].want = n, ![a].due = d]
    BY <1>2, <2>1, <2>2, Zenon
  <2>4. access'[a] = [access[a] EXCEPT !.want = n, !.due = d]
    BY <1>0, <2>3
  <2>5. access' = [access EXCEPT ![a] = [access[a] EXCEPT !.want = n, !.due = d]]
    BY <1>0, <2>3
  <2>6. access' = [access EXCEPT ![a] = access'[a]]
    BY <2>4, <2>5, Zenon
  <2>7. access'[a] \in AccessObject
    BY <1>6, <2>4, Zenon
  <2> QED BY <1>0, <1>1, <2>1, <2>4, <2>6, <2>7 DEF AccessObject
<1>4. CASE ChangePermission(a)
  <2>1. access' = [access EXCEPT ![a].perm = "ReadWrite", ![a].due = access[a].due \/ ~access[a].lag]
    BY <1>4, Zenon DEF ChangePermission
  <2>2. access' = [access EXCEPT ![a].perm = "ReadWrite", ![a].due = d]
    BY <1>2, <2>1, Zenon
  <2>3. access'[a] = [access[a] EXCEPT !.perm = "ReadWrite", !.due = d]
    BY <1>0, <2>2
  <2>4. access' = [access EXCEPT ![a] = [access[a] EXCEPT !.perm = "ReadWrite", !.due = d]]
    BY <1>0, <2>2
  <2>5. access' = [access EXCEPT ![a] = access'[a]]
    BY <2>3, <2>4, Zenon
  <2>6. \A e \in BOOLEAN : [access[a] EXCEPT !.perm = "ReadWrite", !.due = e] \in AccessObject
    <3>1. "ReadWrite" \in Permission
      BY DEF Permission
    <3> QED BY <1>6, <3>1
  <2>7. access'[a] \in AccessObject
    BY <2>3, <2>6, Zenon
  <2> QED BY <1>0, <1>1, <2>3, <2>5, <2>7 DEF AccessObject
<1>5. CASE UserDeletesAccess(a)
  <2>1. /\ access'[a] = [access[a] EXCEPT !.phase = "deleting"]
        /\ access' = [access EXCEPT ![a] = access'[a]]
    BY <1>0, <1>5 DEF UserDeletesAccess
  <2>2. "deleting" \in Phase
    BY DEF Phase
  <2>3. access'[a] \in AccessObject
    BY <1>6, <2>1, <2>2, Zenon
  <2> QED BY <1>0, <1>1, <2>1, <2>3 DEF AccessObject
<1> QED BY <1>3, <1>4, <1>5 DEF ByUser

\* The cache catches up: nothing is left of the version it had.
LEMMA SyncEffects ==
    ASSUME TypeOK, NEW a \in Access, CacheSync(a)
    PROVE  /\ access'[a] \in AccessObject
           /\ access'[a].want = access[a].want /\ access'[a].obs = access[a].obs
           /\ access'[a].rec = access[a].rec /\ access'[a].cred = access[a].cred
           /\ access'[a].ready = access[a].ready /\ access'[a].phase = access[a].phase
           /\ ~access'[a].lag
           /\ access' = [access EXCEPT ![a] = access'[a]]
           /\ UNCHANGED <<rook, secret, rgw, store, bucket, policy, bw, aw, budget>>
<1>0. access \in [Access -> AccessObject] /\ access[a] \in AccessObject
  BY DEF TypeOK
<1> DEFINE due == access[a].due \/ access[a].want # access[a].old.want
                                \/ access[a].perm # access[a].old.perm
<1>1. PICK d \in BOOLEAN : d = due
  <2>1. due \in BOOLEAN
    OBVIOUS
  <2> QED BY <2>1, Zenon
<1>2. access' = [access EXCEPT ![a].lag = FALSE, ![a].old = NoVersion, ![a].due = due]
  BY Zenon DEF CacheSync
<1>3. access' = [access EXCEPT ![a].lag = FALSE, ![a].old = NoVersion, ![a].due = d]
  BY <1>1, <1>2, Zenon
<1>4. access'[a] = [access[a] EXCEPT !.due = d, !.lag = FALSE, !.old = NoVersion]
  BY <1>0, <1>3 DEF AccessObject
<1>5. access' = [access EXCEPT ![a] = [access[a] EXCEPT !.lag = FALSE, !.old = NoVersion, !.due = d]]
  BY <1>0, <1>3
<1>6. access'[a] \in AccessObject
  BY <1>4, Fields, Zenon
<1>7. access' = [access EXCEPT ![a] = access'[a]]
  BY <1>0, <1>5
<1> QED BY <1>0, <1>4, <1>6, <1>7 DEF CacheSync, AccessObject

\* Every step keeps the types.
LEMMA TypeStep ==
    ASSUME CephTypes, [Next]_vars
    PROVE  CephTypes'
<1>0. TypeOK /\ Budgeted /\ MaxDisturb \in Nat /\ Access \subseteq User /\ Owner \in User
  BY CephAssumption DEF CephTypes, User
<1> USE DEF CephTypes
<1>1. ASSUME UNCHANGED <<access, aw>>, budget' = budget \/ \E d, ends : Disturbance(d, ends)
      PROVE  /\ Budgeted'
             /\ budget' \in [left: 0 .. MaxDisturb, kept: SUBSET Guarantee]
  <2>1. budget' \in [left: 0 .. MaxDisturb, kept: SUBSET Guarantee] /\ budget'.left <= budget.left
    BY <1>0, <1>1, DisturbanceType DEF TypeOK
  <2>2. \A a \in Access : access[a].want \in Nat
    BY <1>0 DEF TypeOK, AccessObject
  <2> QED BY <1>0, <1>1, <2>1, <2>2 DEF Budgeted, TypeOK
<1>2. CASE EnsureCluster \/ StoreUp \/ ElasticUp
  <2>1. store' \in [elastic: BOOLEAN, cos: {"absent", "creating", "ready"}, ready: BOOLEAN]
    <3>1. CASE EnsureCluster
      <4> DEFINE cos == IF store.elastic THEN ensureObjectStore(store.cos) ELSE store.cos
      <4>1. cos \in {"absent", "creating", "ready"}
        BY <1>0 DEF ensureObjectStore, TypeOK
      <4>2. \A c \in {"absent", "creating", "ready"}, b \in BOOLEAN :
               [store EXCEPT !.cos = c, !.ready = b]
               \in [elastic: BOOLEAN, cos: {"absent", "creating", "ready"}, ready: BOOLEAN]
        BY <1>0 DEF TypeOK
      <4>3. store' = [store EXCEPT !.cos = cos, !.ready = store.elastic /\ cos = "ready"]
        BY <3>1, Zenon DEF EnsureCluster
      <4>4. (store.elastic /\ cos = "ready") \in BOOLEAN
        OBVIOUS
      <4> HIDE DEF cos
      <4> QED BY <4>1, <4>2, <4>3, <4>4, Zenon
    <3>2. CASE StoreUp \/ ElasticUp
      BY <1>0, <3>2 DEF StoreUp, ElasticUp, TypeOK
    <3> QED BY <1>2, <3>1, <3>2
  <2>2. UNCHANGED <<rook, secret, rgw, bucket, policy, access, bw, aw, budget>>
    BY <1>2 DEF EnsureCluster, StoreUp, ElasticUp
  <2> QED BY <1>0, <1>1, <2>1, <2>2 DEF TypeOK
<1>3. CASE BucketStep
  <2>1. /\ bw' \in BucketPC /\ policy' \in Policy
        /\ rook' \in [User -> {"absent", "live", "going"}]
        /\ UNCHANGED <<secret, rgw, store, access, aw, budget>>
    <3>1. NoPolicy \in Policy
      BY DEF NoPolicy, Policy
    <3> QED BY <1>0, <1>3, <3>1 DEF BucketStep, EnsureOwner, CreateBucket, DeleteBucket, RemoveBucket,
               RemoveOwner, ReleaseBucket, ensureUser, deleteUser, TypeOK, BucketPC
  <2>2. bucket' \in [phase: Phase, ready: BOOLEAN, exists: BOOLEAN, reclaim: Reclaims]
    BY <1>0, <1>3 DEF BucketStep, EnsureOwner, CreateBucket, DeleteBucket, RemoveBucket,
       RemoveOwner, ReleaseBucket, TypeOK, Phase
  <2> QED BY <1>0, <1>1, <2>1, <2>2 DEF TypeOK
<1>4. ASSUME NEW u \in User, RookStep(u) PROVE CephTypes'
  <2>1. FreshKey(u) \in KeyOrNone
    BY <1>0, FreshKeys DEF KeyOrNone
  <2>2. UNCHANGED <<store, bucket, policy, access, bw, aw, budget>>
    BY <1>4 DEF RookStep, IssueKey, RestoreSecret, RemoveUser, CollectSecret
  <2>3. /\ rook' \in [User -> {"absent", "live", "going"}]
        /\ secret' \in [User -> KeyOrNone] /\ rgw' \in [User -> KeyOrNone]
    BY <1>0, <1>4, <2>1 DEF RookStep, IssueKey, RestoreSecret, RemoveUser, CollectSecret, TypeOK, KeyOrNone
  <2> QED BY <1>0, <1>1, <2>2, <2>3 DEF TypeOK
<1>5. ASSUME NEW a \in Access, AccessStep(a) PROVE CephTypes'
  <2>1. PICK A \in AccessObject, W \in AccessWorker :
              /\ Becomes(a, A, W)
              /\ A.want <= access[a].want /\ A.obs <= A.want /\ W.rot <= A.want
              /\ A.lag => A.old.want <= A.want
              /\ W.pc = "idle" => W.rot = 0
    BY <1>5, AccessTypes
  <2>2. access' \in [Access -> AccessObject] /\ aw' \in [Access -> AccessWorker]
    BY <1>0, <2>1 DEF Becomes, TypeOK
  <2>3. rook' \in [User -> {"absent", "live", "going"}]
    BY <1>0, <1>5, AccessFrame DEF OwnUser, TypeOK
  <2>4. policy' \in Policy
    <3>1. aw[a].read \in Policy /\ aw[a].perm \in Permission /\ policy \in Policy
      BY <1>0 DEF TypeOK, AccessWorker
    <3>2. ASSUME NEW new \in Policy, SetPolicy(aw[a].read, new) PROVE policy' \in Policy
      BY <3>1, <3>2 DEF SetPolicy
    <3>3. upsert(aw[a].read, a, aw[a].perm) \in Policy /\ remove(aw[a].read, a) \in Policy
      BY <3>1, Policies
    <3> QED BY <1>0, <1>5, <3>1, <3>2, <3>3, AccessFrame DEF WritePolicy, WriteDrop
  <2>5. Budgeted'
    <3>1. /\ \A b \in Access : access[b].want \in Nat
          /\ A.want \in Nat /\ budget.left \in Nat /\ budget'.left \in Nat
          /\ budget'.left <= budget.left
      BY <1>0, <1>5, AccessBudget DEF TypeOK, AccessObject
    <3>2. access'[a] = A /\ aw'[a] = W
      BY <1>0, <2>1 DEF Becomes, TypeOK
    <3>3. \A b \in Access \ {a} : access'[b] = access[b] /\ aw'[b] = aw[b]
      BY <1>0, <2>1 DEF Becomes, TypeOK
    <3>4. A.want + budget'.left <= MaxDisturb
      BY <1>0, <2>1, <3>1 DEF Budgeted
    <3> QED BY <1>0, <2>1, <3>1, <3>2, <3>3, <3>4 DEF Budgeted
  <2>6. UNCHANGED <<secret, rgw, store, bucket, bw>>
    BY <1>0, <1>5, AccessFrame
  <2> QED BY <1>0, <1>5, <2>2, <2>3, <2>4, <2>5, <2>6, AccessBudget DEF TypeOK
<1>6. CASE Stop
  <2>1. \A a \in Access : aw'[a] = IdleWorker /\ IdleWorker \in AccessWorker
    BY <1>0, <1>6, Fields DEF Stop
  <2>2. ASSUME NEW a \in Access
        PROVE  /\ access'[a] \in AccessObject /\ access'[a].want = access[a].want
               /\ access'[a].obs = access[a].obs /\ ~access'[a].lag
    <3>1. PICK d \in BOOLEAN :
             access'[a] = [access[a] EXCEPT !.due = d, !.lag = FALSE, !.old = NoVersion]
      <4>1. (access[a].due \/ access[a].phase # "gone") \in BOOLEAN
        OBVIOUS
      <4>2. access'[a] = [access[a] EXCEPT !.due = access[a].due \/ access[a].phase # "gone",
                                           !.lag = FALSE, !.old = NoVersion]
        BY <1>6, Zenon DEF Stop
      <4> QED BY <4>1, <4>2, Zenon
    <3>2. access'[a] \in AccessObject
      BY <1>0, <3>1, Fields, Zenon
    <3> QED BY <1>0, <3>1, <3>2 DEF TypeOK, AccessObject
  <2>3. /\ budget' \in [left: 0 .. MaxDisturb, kept: SUBSET Guarantee]
        /\ budget'.left = budget.left - 1
    BY <1>0, <1>6, DisturbanceType DEF Stop
  <2>4. \A a \in Access : access[a].want \in Nat /\ budget.left \in Nat
    BY <1>0 DEF TypeOK, AccessObject
  <2>5. Budgeted'
    BY <1>0, <2>1, <2>2, <2>3, <2>4 DEF Budgeted, IdleWorker
  <2>6. access' \in [Access -> AccessObject] /\ aw' \in [Access -> AccessWorker]
    BY <1>6, <2>1, <2>2 DEF Stop
  <2> QED BY <1>0, <1>6, <2>3, <2>5, <2>6 DEF Stop, TypeOK, BucketPC
<1>7. CASE AdminDeletesBucket
  BY <1>0, <1>1, <1>7 DEF AdminDeletesBucket, TypeOK, Phase
<1>8. ASSUME NEW u \in User, SecretLost(u) PROVE CephTypes'
  BY <1>0, <1>1, <1>8 DEF SecretLost, TypeOK, KeyOrNone
<1>9. ASSUME NEW f \in {"none", "conditioned", "garbled"}, ForeignEdit(f) PROVE CephTypes'
  <2>1. policy' \in Policy
    BY <1>0, <1>9 DEF ForeignEdit, TypeOK, Policy
  <2> QED BY <1>0, <1>1, <1>9, <2>1 DEF ForeignEdit, TypeOK
<1>10. ASSUME NEW a \in Access, ByUser(a) \/ CacheSync(a)
       PROVE  CephTypes'
  <2>1. /\ budget' \in [left: 0 .. MaxDisturb, kept: SUBSET Guarantee]
        /\ access'[a] \in AccessObject
        /\ access'[a].want + budget'.left <= access[a].want + budget.left
        /\ access'[a].want >= access[a].want /\ access'[a].obs = access[a].obs
        /\ access'[a].lag => (access[a].lag /\ access'[a].old = access[a].old)
        /\ budget'.left <= budget.left
        /\ access' = [access EXCEPT ![a] = access'[a]]
        /\ UNCHANGED <<rook, secret, rgw, store, bucket, policy, bw, aw>>
    <3>1. CASE ByUser(a)
      BY <1>0, <3>1, ByUserEffects
    <3>2. CASE CacheSync(a)
      <4>1. /\ access[a].want \in Nat /\ budget.left \in Nat /\ UNCHANGED budget
            /\ budget \in [left: 0 .. MaxDisturb, kept: SUBSET Guarantee]
        BY <1>0, <3>2, SyncEffects DEF TypeOK, AccessObject
      <4> QED BY <1>0, <3>2, <4>1, SyncEffects
    <3> QED BY <1>10, <3>1, <3>2
  <2>2. access' \in [Access -> AccessObject] /\ \A b \in Access \ {a} : access'[b] = access[b]
    BY <1>0, <2>1 DEF TypeOK
  <2>3. ASSUME NEW b \in Access
        PROVE  /\ access'[b].want + budget'.left <= MaxDisturb
               /\ access'[b].obs <= access'[b].want
               /\ access'[b].lag => access'[b].old.want <= access'[b].want
               /\ aw'[b].rot <= access'[b].want
               /\ aw'[b].pc = "idle" => aw'[b].rot = 0
    <3>1. /\ access[b].want + budget.left <= MaxDisturb /\ access[b].obs <= access[b].want
          /\ access[b].lag => access[b].old.want <= access[b].want
          /\ aw[b].rot <= access[b].want
          /\ aw'[b] = aw[b]
          /\ aw'[b].pc = "idle" => aw'[b].rot = 0
      BY <1>0, <2>1 DEF Budgeted
    <3>2. /\ access[b].want \in Nat /\ access'[b].want \in Nat /\ access[b].obs \in Nat
          /\ access[b].old.want \in Nat /\ aw[b].rot \in Nat
          /\ budget.left \in Nat /\ budget'.left \in Nat
      BY <1>0, <2>1, <2>2 DEF TypeOK, AccessObject, AccessWorker, Version
    <3>3. CASE b = a
      BY <1>0, <2>1, <3>1, <3>2, <3>3
    <3>4. CASE b # a
      BY <1>0, <2>1, <2>2, <3>1, <3>2, <3>4
    <3> QED BY <3>3, <3>4
  <2>4. Budgeted'
    BY <2>3 DEF Budgeted
  <2> QED BY <1>0, <2>1, <2>2, <2>4 DEF TypeOK
<1>11. CASE UNCHANGED vars
  BY <1>0, <1>11 DEF vars, TypeOK, Budgeted
<1> QED BY <1>2, <1>3, <1>4, <1>5, <1>6, <1>7, <1>8, <1>9, <1>10, <1>11 DEF Next, Environment, ByUser

-----------------------------------------------------------------------------
(* The inductive invariant *)

\* The owner user and the bucket.  A live Bucket's owner is not on its way out and has
\* had no key before; with the bucket there is a key to reach it with, until a lost
\* Secret ends what depends on it; a Bucket on its way out follows its reclaim policy.
OwnerInv ==
    /\ bucket.phase = "live" =>
         /\ rook[Owner] # "going"
         /\ rook[Owner] = "absent" => secret[Owner] = NoKey
         /\ bucket.exists => rook[Owner] = "live" /\ rgw[Owner] # NoKey
    /\ rook[Owner] = "live" /\ secret[Owner] # NoKey => rgw[Owner] # NoKey
    /\ ~bucket.exists => policy = NoPolicy
    /\ bw = "keys" => bucket.phase # "gone" /\ rook[Owner] = "live"
    /\ bw \in {"delBucket", "delOwner", "release"} => bucket.phase = "deleting"
    /\ bw \in {"delBucket", "delOwner"} => bucket.reclaim = "Delete"
    /\ bucket.reclaim = "Retain" =>
         /\ rook[Owner] # "going"
         /\ bucket.ready => bucket.exists /\ rook[Owner] = "live"
    /\ Kept("deleted") =>
         /\ bucket.exists => secret[Owner] # NoKey /\ rook[Owner] = "live"
         /\ bw = "delOwner" => ~bucket.exists
         /\ bw = "release" /\ bucket.reclaim = "Delete" => ~bucket.exists /\ rook[Owner] # "live"
    /\ Kept("revoked") => bucket.phase = "live" /\ (bucket.exists => secret[Owner] # NoKey)
    /\ ReclaimHonoured

InHand == {"readPolicy", "writePolicy", "record"}
Ensuring == {"delUser", "newUser", "mkUser", "keys"} \cup InHand
Dropping == {"readDrop", "writeDrop", "dropUser", "release"}

\* What an access, its worker and a cache that is behind remember of phases, keys and
\* rotations; as long as every status was read as it was last written, the recorded key
\* is the one in the credentials Secret, and a key in hand for a rotation is another.
KeyInv(a) ==
    /\ aw[a].pc \in Dropping => access[a].phase = "deleting"
    /\ access[a].phase = "gone" => aw[a].pc = "idle" /\ ~access[a].lag
    /\ access[a].rec = NoKey <=> access[a].cred = NoKey
    /\ access[a].ready => access[a].cred # NoKey
    /\ aw[a].pc \in Ensuring /\ aw[a].rec # NoKey => access[a].cred # NoKey
    /\ aw[a].pc \in {"mkUser", "keys"} => access[a].cred # NoKey
    /\ aw[a].pc \in InHand => aw[a].key # NoKey
    /\ access[a].lag =>
         /\ access[a].rec = access[a].cred /\ access[a].cred # NoKey
         /\ access[a].old.phase = "deleting" => access[a].phase = "deleting"
         /\ aw[a].pc \in Ensuring => aw[a].rec = access[a].old.rec
         /\ aw[a].pc \in {"delUser", "newUser"} => mintFresh(access[a].old, access[a].cred)
    /\ Kept("fresh") =>
         /\ ~access[a].lag /\ access[a].rec = access[a].cred
         /\ aw[a].pc \in Ensuring => aw[a].rec = access[a].rec
         /\ aw[a].pc \in {"mkUser", "keys"} => aw[a].rot = access[a].obs /\ access[a].rec # NoKey
         /\ aw[a].pc \in InHand /\ aw[a].rot # access[a].obs => aw[a].key # access[a].rec

\* RGW accepts key k of a user that stays, and the Secret has no other.
Live(a, k) == rgw[a] = k /\ rook[a] = "live" /\ secret[a] \in {NoKey, k}

\* Key k is not, and will not be, in the Secret.
Dead(a, k) == secret[a] # k /\ (rgw[a] = k => rook[a] = "going")

\* The keys a reconcile may take for the recorded one: what the status says, what the
\* cache says, what a reconcile under way has read.
Recorded(a) ==
    {k \in KeyOrNone : \/ k = access[a].rec
                       \/ access[a].lag /\ k = access[a].old.rec
                       \/ aw[a].pc \in Ensuring /\ k = aw[a].rec}

\* A key in the Secret that some reconcile may take for a fresh one is live, and so are
\* the key of the credentials Secret when it is not to be rotated, and a key in the
\* worker's hand.  What only the cache takes for the recorded key does not come back.
LiveKeys(a) ==
    /\ rook[a] = "absent" => rgw[a] = NoKey
    /\ Kept("keys") /\ bucket.phase = "live" /\ access[a].phase = "live" =>
        /\ \A r \in Recorded(a) : secret[a] \notin {NoKey, r} => Live(a, secret[a])
        /\ access[a].cred # NoKey /\ access[a].want = access[a].obs => Live(a, access[a].cred)
        /\ access[a].lag =>
             /\ ~mintFresh(access[a].old, access[a].cred) => Live(a, access[a].cred)
             /\ access[a].old.rec \notin {NoKey, access[a].rec} => Dead(a, access[a].old.rec)
        /\ aw[a].pc \in {"mkUser", "keys"} => Live(a, access[a].cred)
        /\ aw[a].pc \in InHand => Live(a, aw[a].key)
        /\ aw[a].pc = "delUser" /\ aw[a].rec \notin {NoKey, access[a].rec} => Dead(a, aw[a].rec)

\* With one worker: one access at a time is reconciled.
OneBusy == \A a, b \in Access : aw[a].pc # "idle" /\ aw[b].pc # "idle" => a = b

Writing(a) == aw[a].pc \in {"writePolicy", "writeDrop"}

\* What was read of the policy is what is there, until somebody else edits it or it
\* goes with the bucket; then it is not written.
ReadInv(a) ==
    Writing(a) =>
        /\ bucket.exists \/ (bucket.phase # "live" /\ bw # "keys")
        /\ aw[a].read.foreign \notin {"conditioned", "garbled"}
        /\ bucket.exists => /\ aw[a].read.stmt = policy.stmt
                            /\ Kept("statements") => aw[a].read.foreign = parsePolicy(policy).foreign

\* A ready access has its statement; one that is released has none, and no user.
StatementInv(a) ==
    /\ bucket.phase = "live" /\ access[a].phase = "live" /\ (access[a].ready \/ aw[a].pc = "record")
         => policy.stmt[a] # NoStmt
    /\ Kept("revoked") =>
         /\ aw[a].pc \in {"dropUser", "release"} \/ access[a].phase = "gone" => policy.stmt[a] = NoStmt
         /\ aw[a].pc = "release" \/ access[a].phase = "gone" => rook[a] # "live"

-----------------------------------------------------------------------------
(* The owner and the bucket *)

\* Guarantees only ever end.
LEMMA KeptShrinks ==
    ASSUME TypeOK, [Next]_vars
    PROVE  \A g : Kept(g)' => Kept(g)
<1>1. ASSUME NEW a \in Access, AccessStep(a) \/ CacheSync(a) PROVE budget'.kept \subseteq budget.kept
  BY <1>1, AccessBudget DEF CacheSync
<1>2. CASE \/ EnsureCluster \/ StoreUp \/ ElasticUp \/ BucketStep \/ UNCHANGED vars
           \/ \E u \in User : RookStep(u)
  <2>1. UNCHANGED budget
    BY <1>2 DEF EnsureCluster, StoreUp, ElasticUp, BucketStep, EnsureOwner, CreateBucket, DeleteBucket,
       RemoveBucket, RemoveOwner, ReleaseBucket, RookStep, IssueKey, RestoreSecret, RemoveUser,
       CollectSecret, vars
  <2> QED BY <2>1 DEF Kept
<1>3. CASE Environment
  <2>1. \E d, ends : Disturbance(d, ends)
    BY <1>3, Zenon DEF Environment, Stop, AdminDeletesBucket, SecretLost, Rotate, ChangePermission,
       UserDeletesAccess, ForeignEdit
  <2> QED BY <2>1, DisturbanceType DEF Kept
<1> QED BY <1>1, <1>2, <1>3 DEF Next, Kept

\* A step of an access leaves a policy alone that it cannot reach.
LEMMA NoBucketNoPolicy ==
    ASSUME TypeOK, NEW a \in Access, AccessStep(a), ~bucket.exists
    PROVE  UNCHANGED policy
  BY AccessFrame DEF WritePolicy, WriteDrop, SetPolicy, OwnerServes

\* No step of an access, of Rook or of the Bucket's worker breaks the order in which
\* the owner user and the bucket are made and unmade.
LEMMA OwnerInvStep ==
    ASSUME TypeOK, OwnerInv, [Next]_vars
    PROVE  OwnerInv'
<1>0. /\ Owner \in User /\ Owner \notin Access
      /\ bucket \in [phase: Phase, ready: BOOLEAN, exists: BOOLEAN, reclaim: Reclaims]
      /\ \A r \in Reclaims : r \in {"Retain", "Delete"}
  BY CephAssumption DEF User, TypeOK
<1>k. \A g : Kept(g)' => Kept(g)
  BY KeptShrinks
<1> USE DEF OwnerInv, ReclaimHonoured
<1>1. ASSUME UNCHANGED <<bucket, bw>>, rook'[Owner] = rook[Owner], secret'[Owner] = secret[Owner],
             rgw'[Owner] = rgw[Owner], bucket.exists \/ UNCHANGED policy
      PROVE  OwnerInv'
  BY <1>1, <1>k
<1>2. CASE EnsureCluster \/ StoreUp \/ ElasticUp \/ UNCHANGED vars
  BY <1>1, <1>2 DEF EnsureCluster, StoreUp, ElasticUp, vars
<1>3. ASSUME NEW a \in Access, AccessStep(a) PROVE OwnerInv'
  <2>1. rook'[Owner] = rook[Owner]
    BY <1>0, <1>3, AccessFrame DEF OwnUser, TypeOK
  <2>2. UNCHANGED <<secret, rgw, bucket, bw>>
    BY <1>3, AccessFrame
  <2> QED BY <1>0, <1>1, <1>3, <2>1, <2>2, NoBucketNoPolicy
<1>4. ASSUME NEW a \in Access, ByUser(a) \/ CacheSync(a) PROVE OwnerInv'
  BY <1>1, <1>4 DEF ByUser, Rotate, ChangePermission, UserDeletesAccess, CacheSync
<1>5. ASSUME NEW f, ForeignEdit(f) PROVE OwnerInv'
  BY <1>1, <1>5 DEF ForeignEdit
<1>6. ASSUME NEW u \in User, SecretLost(u) PROVE OwnerInv'
  <2>1. /\ UNCHANGED <<rook, rgw, bucket, bw, policy>>
        /\ secret' = [secret EXCEPT ![u] = NoKey]
        /\ u = Owner => ~Kept("revoked")' /\ ~Kept("deleted")'
    BY <1>6, DisturbanceType DEF SecretLost, Kept
  <2> QED BY <1>0, <1>1, <1>k, <2>1 DEF TypeOK
<1>7. CASE Stop
  BY <1>7, <1>k DEF Stop
<1>8. CASE AdminDeletesBucket
  <2>1. /\ UNCHANGED <<rook, secret, rgw, policy, bw>>
        /\ bucket.phase = "live" /\ bucket'.phase = "deleting" /\ bucket'.ready = bucket.ready
        /\ bucket'.exists = bucket.exists /\ bucket'.reclaim = bucket.reclaim
        /\ ~Kept("revoked")'
    BY <1>0, <1>8, DisturbanceType DEF AdminDeletesBucket, Kept
  <2> QED BY <1>k, <2>1
<1>9. ASSUME NEW u \in User, RookStep(u) PROVE OwnerInv'
  <2>1. FreshKey(u) # NoKey
    BY FreshKeys DEF Key, NoKey
  <2>2. UNCHANGED <<bucket, bw, policy, budget>>
    BY <1>9 DEF RookStep, IssueKey, RestoreSecret, RemoveUser, CollectSecret
  <2>3. CASE u # Owner
    BY <1>0, <1>1, <1>9, <2>2, <2>3 DEF RookStep, IssueKey, RestoreSecret, RemoveUser, CollectSecret, TypeOK
  <2>4. CASE u = Owner
    <3>1. CASE IssueKey(u)
      BY <1>0, <1>k, <2>1, <2>2, <2>4, <3>1 DEF IssueKey, TypeOK
    <3>2. CASE RestoreSecret(u)
      BY <1>0, <1>k, <2>2, <2>4, <3>2 DEF RestoreSecret, TypeOK
    <3>3. CASE RemoveUser(u)
      BY <1>0, <1>k, <2>2, <2>4, <3>3 DEF RemoveUser, TypeOK
    <3>4. CASE CollectSecret(u)
      BY <1>0, <1>k, <2>2, <2>4, <3>4 DEF CollectSecret, TypeOK
    <3> QED BY <1>9, <3>1, <3>2, <3>3, <3>4 DEF RookStep
  <2> QED BY <2>3, <2>4
<1>10. CASE EnsureOwner
  <2>1. /\ UNCHANGED <<secret, rgw, bucket, policy, budget>> /\ bucket.phase = "live" /\ bw' = "keys"
        /\ rook'[Owner] = IF rook[Owner] = "absent" THEN "live" ELSE rook[Owner]
    BY <1>0, <1>10 DEF EnsureOwner, ensureUser, TypeOK
  <2>2. rook'[Owner] = "live"
    BY <1>0, <2>1 DEF TypeOK
  <2> QED BY <1>k, <2>1, <2>2
<1>11. CASE CreateBucket
  BY <1>0, <1>k, <1>11 DEF CreateBucket
<1>12. CASE DeleteBucket
  <2>1. /\ UNCHANGED <<rook, secret, rgw, bucket, policy, budget>> /\ bucket.phase = "deleting"
        /\ \/ bucket.reclaim = "Retain" /\ bw' = "release"
           \/ bucket.reclaim = "Delete" /\ bw' = "delBucket"
           \/ bucket.reclaim = "Delete" /\ secret[Owner] = NoKey /\ bw' = "delOwner"
    BY <1>0, <1>12 DEF DeleteBucket
  <2> QED BY <1>k, <2>1
<1>13. CASE RemoveBucket
  BY <1>0, <1>k, <1>13 DEF RemoveBucket
<1>14. CASE RemoveOwner
  <2>1. /\ UNCHANGED <<secret, rgw, bucket, policy, budget>> /\ bw = "delOwner" /\ bw' = "release"
        /\ rook'[Owner] # "live"
    BY <1>0, <1>14 DEF RemoveOwner, deleteUser, TypeOK
  <2> QED BY <1>k, <2>1
<1>15. CASE ReleaseBucket
  <2>1. /\ UNCHANGED <<rook, secret, rgw, policy, budget>> /\ bw = "release" /\ bw' = "idle"
        /\ bucket'.phase = "gone" /\ bucket'.ready = bucket.ready
        /\ bucket'.exists = bucket.exists /\ bucket'.reclaim = bucket.reclaim
    BY <1>0, <1>15 DEF ReleaseBucket
  <2> QED BY <1>0, <1>k, <2>1
<1> QED BY <1>2, <1>3, <1>4, <1>5, <1>6, <1>7, <1>8, <1>9, <1>10, <1>11, <1>12, <1>13, <1>14, <1>15
        DEF Next, BucketStep, Environment, ByUser

-----------------------------------------------------------------------------
(* Keys and rotations *)

\* The parts of an access that the invariants speak of stay, but perhaps Ready.
SameKeys(a) ==
    /\ access'[a].phase = access[a].phase
    /\ access'[a].rec = access[a].rec /\ access'[a].cred = access[a].cred
    /\ access'[a].want = access[a].want /\ access'[a].obs = access[a].obs
    /\ access'[a].lag = access[a].lag /\ access'[a].old = access[a].old

\* The worker goes on to p with what it knows.
GoesOn(a, p) ==
    /\ access'[a] = access[a]
    /\ aw'[a].pc = p /\ aw'[a].rot = aw[a].rot /\ aw'[a].perm = aw[a].perm
    /\ aw'[a].rec = aw[a].rec

\* The worker gives up, and writes the recorded key as it has read it.
GivesUp(a) ==
    /\ access'[a].phase = access[a].phase /\ access'[a].cred = access[a].cred
    /\ access'[a].want = access[a].want /\ access'[a].obs = access[a].obs
    /\ access'[a].lag = access[a].lag /\ access'[a].old = access[a].old
    /\ access[a].lag => access'[a].rec = access[a].rec /\ access'[a].ready = access[a].ready
    /\ ~access[a].lag =>
         /\ access'[a].rec = IF aw[a].rec = NoKey THEN access[a].rec ELSE aw[a].rec
         /\ ~access'[a].ready
    /\ aw'[a] = IdleWorker

\* Only the access itself, its worker and its user are touched.
LEMMA Becoming ==
    ASSUME TypeOK, NEW a \in Access, NEW A, NEW W, Becomes(a, A, W)
    PROVE  /\ access'[a] = A /\ aw'[a] = W
           /\ \A b \in Access \ {a} : access'[b] = access[b] /\ aw'[b] = aw[b]
  BY DEF Becomes, TypeOK

\* The steps of other accesses.
LEMMA OtherAccess ==
    ASSUME CephTypes, NEW a \in Access, NEW b \in Access \ {a}, AccessStep(a)
    PROVE  access'[b] = access[b] /\ aw'[b] = aw[b] /\ rook'[b] = rook[b]
<1>1. TypeOK /\ b \in User
  BY DEF CephTypes, User
<1>2. \E A, W : Becomes(a, A, W)
  BY AccessTypes
<1>3. access'[b] = access[b] /\ aw'[b] = aw[b]
  BY <1>1, <1>2, Becoming
<1>4. rook'[b] = rook[b]
  BY <1>1, AccessFrame DEF OwnUser, TypeOK
<1> QED BY <1>3, <1>4

\* The steps of EnsureAccess, field by field.
LEMMA EnsureFields ==
    ASSUME TypeOK, NEW a \in Access
    PROVE  /\ TakeAccess(a) =>
                /\ SameKeys(a) /\ access'[a].ready = access[a].ready
                /\ aw'[a].rot = Seen(a).want /\ aw'[a].rec = Seen(a).rec
                /\ \/ aw'[a].pc = "mkUser" /\ ~Minting(a)
                   \/ aw'[a].pc = "delUser" /\ Minting(a)
                   \/ /\ aw'[a].pc = "readPolicy" /\ aw'[a].key = secret[a]
                      /\ ~NeedsNewUser(Seen(a).rec, secret[a])
           /\ DeleteForRotation(a) => GoesOn(a, "newUser")
           /\ CreateForRotation(a) => GivesUp(a)
           /\ EnsureAccessUser(a) => GoesOn(a, "keys")
           /\ ReadAccessKeys(a) =>
                \/ GivesUp(a)
                \/ GoesOn(a, "readPolicy") /\ secret[a] # NoKey /\ aw'[a].key = secret[a]
           /\ ReadPolicy(a) =>
                \/ GivesUp(a)
                \/ /\ GoesOn(a, "writePolicy") /\ aw'[a].key = aw[a].key
                   /\ PolicyReadable /\ aw'[a].read = parsePolicy(policy)
           /\ WritePolicy(a) =>
                \/ GivesUp(a)
                \/ GoesOn(a, "record") /\ aw'[a].key = aw[a].key /\ OwnerServes
           /\ Record(a) =>
                /\ access'[a].phase = access[a].phase /\ access'[a].want = access[a].want
                /\ access'[a].rec = aw[a].key /\ access'[a].cred = aw[a].key
                /\ access'[a].obs = aw[a].rot /\ access'[a].ready /\ aw'[a] = IdleWorker
                /\ \/ ~access'[a].lag
                   \/ access'[a].lag /\ access'[a].old = Current(a) /\ ~Kept("fresh")'
           /\ BucketLost(a) =>
                /\ access'[a].phase = access[a].phase /\ access'[a].rec = NoKey /\ access'[a].cred = NoKey
                /\ ~access'[a].ready /\ ~access'[a].lag /\ aw'[a] = aw[a]
<1>0. access[a] \in AccessObject /\ aw[a] \in AccessWorker
  BY DEF TypeOK
<1>1. Fails(a) => GivesUp(a)
  <2>1. SUFFICES ASSUME Fails(a) PROVE GivesUp(a)
    OBVIOUS
  <2>2. access'[a] = Failed(a) /\ aw'[a] = IdleWorker
    BY <2>1, Becoming DEF Fails
  <2> QED BY <2>2, EndFields DEF GivesUp
<1>2. ASSUME NEW p, Becomes(a, access[a], [aw[a] EXCEPT !.pc = p])
      PROVE  GoesOn(a, p) /\ aw'[a].key = aw[a].key
  <2>1. access'[a] = access[a] /\ aw'[a] = [aw[a] EXCEPT !.pc = p]
    BY <1>2, Becoming
  <2> QED BY <1>0, <2>1 DEF GoesOn, AccessWorker
<1>3. ASSUME TakeAccess(a)
      PROVE  /\ SameKeys(a) /\ access'[a].ready = access[a].ready
             /\ aw'[a].rot = Seen(a).want /\ aw'[a].rec = Seen(a).rec
             /\ \/ aw'[a].pc = "mkUser" /\ ~Minting(a)
                \/ aw'[a].pc = "delUser" /\ Minting(a)
                \/ /\ aw'[a].pc = "readPolicy" /\ aw'[a].key = secret[a]
                   /\ ~NeedsNewUser(Seen(a).rec, secret[a])
  <2>1. PICK next \in {"mkUser", "delUser", "readPolicy"} :
            /\ next = "mkUser" <=> ~Minting(a)
            /\ next = "readPolicy" <=> Minting(a) /\ ~NeedsNewUser(Seen(a).rec, secret[a])
            /\ Becomes(a, [access[a] EXCEPT !.due = FALSE], Started(a, next))
    BY <1>3, EnsureEffects
  <2>2. access'[a] = [access[a] EXCEPT !.due = FALSE] /\ aw'[a] = Started(a, next)
    BY <2>1, Becoming
  <2>3. SameKeys(a) /\ access'[a].ready = access[a].ready
    BY <1>0, <2>2 DEF SameKeys, AccessObject
  <2>4. /\ Started(a, next).pc = next
        /\ Started(a, next).rot = Seen(a).want /\ Started(a, next).rec = Seen(a).rec
        /\ next = "readPolicy" => Started(a, next).key = secret[a]
    BY DEF Started
  <2> QED BY <2>1, <2>2, <2>3, <2>4
<1>4. DeleteForRotation(a) => GoesOn(a, "newUser")
  BY <1>2, EnsureEffects
<1>5. CreateForRotation(a) => GivesUp(a)
  BY <1>1, EnsureEffects
<1>6. EnsureAccessUser(a) => GoesOn(a, "keys")
  BY <1>2, EnsureEffects
<1>7. ReadAccessKeys(a) =>
                \/ GivesUp(a)
                \/ GoesOn(a, "readPolicy") /\ secret[a] # NoKey /\ aw'[a].key = secret[a]
  <2>1. ASSUME Becomes(a, access[a], [aw[a] EXCEPT !.pc = "readPolicy", !.key = secret[a]])
        PROVE  GoesOn(a, "readPolicy") /\ aw'[a].key = secret[a]
    <3>1. access'[a] = access[a] /\ aw'[a] = [aw[a] EXCEPT !.pc = "readPolicy", !.key = secret[a]]
      BY <2>1, Becoming
    <3> QED BY <1>0, <3>1 DEF GoesOn, AccessWorker
  <2> QED BY <1>1, <2>1, EnsureEffects
<1>8. ReadPolicy(a) =>
                \/ GivesUp(a)
                \/ /\ GoesOn(a, "writePolicy") /\ aw'[a].key = aw[a].key
                   /\ PolicyReadable /\ aw'[a].read = parsePolicy(policy)
  <2>1. ASSUME Becomes(a, access[a], [aw[a] EXCEPT !.pc = "writePolicy", !.read = parsePolicy(policy)])
        PROVE  /\ GoesOn(a, "writePolicy") /\ aw'[a].key = aw[a].key
               /\ aw'[a].read = parsePolicy(policy)
    <3>1. /\ access'[a] = access[a]
          /\ aw'[a] = [aw[a] EXCEPT !.pc = "writePolicy", !.read = parsePolicy(policy)]
      BY <2>1, Becoming
    <3> QED BY <1>0, <3>1 DEF GoesOn, AccessWorker
  <2> QED BY <1>1, <2>1, EnsureEffects
<1>9. WritePolicy(a) =>
                \/ GivesUp(a)
                \/ GoesOn(a, "record") /\ aw'[a].key = aw[a].key /\ OwnerServes
  BY <1>1, <1>2, EnsureEffects
<1>10. ASSUME Record(a)
       PROVE  /\ access'[a].phase = access[a].phase /\ access'[a].want = access[a].want
              /\ access'[a].rec = aw[a].key /\ access'[a].cred = aw[a].key
              /\ access'[a].obs = aw[a].rot /\ access'[a].ready /\ aw'[a] = IdleWorker
              /\ \/ ~access'[a].lag
                 \/ access'[a].lag /\ access'[a].old = Current(a) /\ ~Kept("fresh")'
  <2>1. CASE Becomes(a, Done(a), IdleWorker)
    <3>1. access'[a] = Done(a) /\ aw'[a] = IdleWorker /\ ~access[a].lag
      BY <1>10, <2>1, Becoming DEF Record
    <3> QED BY <3>1, EndFields
  <2>2. CASE Becomes(a, DoneLate(a), IdleWorker) /\ ~Kept("fresh")'
    <3>1. access'[a] = DoneLate(a) /\ aw'[a] = IdleWorker
      BY <2>2, Becoming
    <3> QED BY <2>2, <3>1, EndFields
  <2> QED BY <1>10, <2>1, <2>2, EnsureEffects
<1>11. ASSUME BucketLost(a)
       PROVE  /\ access'[a].phase = access[a].phase /\ access'[a].rec = NoKey /\ access'[a].cred = NoKey
              /\ ~access'[a].ready /\ ~access'[a].lag /\ aw'[a] = aw[a]
  <2> DEFINE A == [access[a] EXCEPT !.rec = NoKey, !.cred = NoKey, !.ready = FALSE]
  <2>0. Becomes(a, A, aw[a]) /\ ~access[a].lag
    BY <1>11, EnsureEffects DEF BucketLost
  <2>1. access'[a] = A /\ aw'[a] = aw[a]
    BY <2>0, Becoming, Zenon
  <2> QED BY <1>0, <2>0, <2>1 DEF AccessObject
<1> QED BY <1>3, <1>4, <1>5, <1>6, <1>7, <1>8, <1>9, <1>10, <1>11

\* The steps of DeleteAccess, field by field.
LEMMA DeleteFields ==
    ASSUME TypeOK, NEW a \in Access
    PROVE  /\ DeleteAccess(a) =>
                \/ /\ bucket.phase = "gone" /\ aw'[a] = aw[a]
                   /\ access'[a] = [NewAccess EXCEPT !.phase = "gone", !.due = FALSE]
                \/ access'[a] = access[a] /\ aw'[a].pc = "readDrop"
                \/ /\ access'[a] = access[a] /\ aw'[a].pc = "dropUser"
                   /\ secret[Owner] = NoKey \/ "revoked" \notin budget'.kept
           /\ ReadToDrop(a) =>
                \/ access'[a] = access[a] /\ aw'[a] = IdleWorker
                \/ /\ access'[a] = access[a] /\ aw'[a].pc = "writeDrop"
                   /\ PolicyReadable /\ aw'[a].read = parsePolicy(policy)
           /\ WriteDrop(a) =>
                \/ access'[a] = access[a] /\ aw'[a] = IdleWorker
                \/ OwnerServes /\ access'[a] = access[a] /\ aw'[a].pc = "dropUser"
           /\ DropUser(a) => access'[a] = access[a] /\ aw'[a].pc = "release"
           /\ ReleaseAccess(a) =>
                /\ access'[a] = [NewAccess EXCEPT !.phase = "gone", !.due = FALSE]
                /\ aw'[a] = IdleWorker
<1>0. aw[a] \in AccessWorker
  BY DEF TypeOK
<1>1. ASSUME NEW p, Becomes(a, access[a], [aw[a] EXCEPT !.pc = p])
      PROVE  access'[a] = access[a] /\ aw'[a].pc = p
  <2>1. access'[a] = access[a] /\ aw'[a] = [aw[a] EXCEPT !.pc = p]
    BY <1>1, Becoming
  <2> QED BY <1>0, <2>1 DEF AccessWorker
<1>2. ASSUME NEW A, NEW W, Becomes(a, A, W) PROVE access'[a] = A /\ aw'[a] = W
  BY <1>2, Becoming
<1>3. ASSUME NEW x, Becomes(a, access[a], [aw[a] EXCEPT !.pc = "writeDrop", !.read = x])
      PROVE  access'[a] = access[a] /\ aw'[a].pc = "writeDrop" /\ aw'[a].read = x
  <2>1. access'[a] = access[a] /\ aw'[a] = [aw[a] EXCEPT !.pc = "writeDrop", !.read = x]
    BY <1>3, Becoming
  <2> QED BY <1>0, <2>1 DEF AccessWorker
<1>4. DeleteAccess(a) =>
                \/ /\ bucket.phase = "gone" /\ aw'[a] = aw[a]
                   /\ access'[a] = [NewAccess EXCEPT !.phase = "gone", !.due = FALSE]
                \/ access'[a] = access[a] /\ aw'[a].pc = "readDrop"
                \/ /\ access'[a] = access[a] /\ aw'[a].pc = "dropUser"
                   /\ secret[Owner] = NoKey \/ "revoked" \notin budget'.kept
  BY <1>1, <1>2, DeleteEffects
<1>5. ReadToDrop(a) =>
                \/ access'[a] = access[a] /\ aw'[a] = IdleWorker
                \/ /\ access'[a] = access[a] /\ aw'[a].pc = "writeDrop"
                   /\ PolicyReadable /\ aw'[a].read = parsePolicy(policy)
  BY <1>2, <1>3, DeleteEffects
<1>6. WriteDrop(a) =>
                \/ access'[a] = access[a] /\ aw'[a] = IdleWorker
                \/ OwnerServes /\ access'[a] = access[a] /\ aw'[a].pc = "dropUser"
  BY <1>1, <1>2, DeleteEffects
<1>7. DropUser(a) => access'[a] = access[a] /\ aw'[a].pc = "release"
  BY <1>1, DeleteEffects
<1>8. ReleaseAccess(a) =>
                /\ access'[a] = [NewAccess EXCEPT !.phase = "gone", !.due = FALSE]
                /\ aw'[a] = IdleWorker
  BY <1>2, DeleteEffects
<1> QED BY <1>4, <1>5, <1>6, <1>7, <1>8

\* What users and the cache do to an access; others are left alone.
Touches(a) == ByUser(a) \/ CacheSync(a)

\* The keys of an access that is touched stay, and its phase and rotations only go on.
LEMMA TouchedFields ==
    ASSUME CephTypes, NEW a \in Access, Touches(a)
    PROVE  /\ UNCHANGED <<rook, secret, rgw, store, bucket, policy, bw, aw>>
           /\ \A b \in Access \ {a} : access'[b] = access[b]
           /\ access'[a].rec = access[a].rec /\ access'[a].cred = access[a].cred
           /\ access'[a].obs = access[a].obs /\ access'[a].ready = access[a].ready
           /\ access'[a].want \in {access[a].want, access[a].want + 1}
           /\ access'[a].phase = access[a].phase
              \/ (access[a].phase = "live" /\ access'[a].phase = "deleting")
           /\ access'[a].lag => (access[a].lag /\ access'[a].old = access[a].old)
<1>1. TypeOK /\ Budgeted
  BY DEF CephTypes
<1>2. CASE ByUser(a)
  <2>1. \A b \in Access \ {a} : access'[b] = access[b]
    <3>1. access' = [access EXCEPT ![a] = access'[a]]
      BY <1>1, <1>2, ByUserEffects
    <3> QED BY <1>1, <3>1 DEF TypeOK
  <2> QED BY <1>1, <1>2, <2>1, ByUserEffects
<1>3. CASE CacheSync(a)
  <2>1. \A b \in Access \ {a} : access'[b] = access[b]
    <3>1. access' = [access EXCEPT ![a] = access'[a]]
      BY <1>1, <1>3, SyncEffects
    <3> QED BY <1>1, <3>1 DEF TypeOK
  <2> QED BY <1>1, <1>3, <2>1, SyncEffects
<1> QED BY <1>2, <1>3 DEF Touches

\* A restart forgets what is in flight, and what the cache was behind with.
LEMMA StopFields ==
    ASSUME TypeOK, Stop, NEW a \in Access
    PROVE  /\ UNCHANGED <<rook, secret, rgw, store, bucket, policy>>
           /\ access'[a].phase = access[a].phase
           /\ access'[a].rec = access[a].rec /\ access'[a].cred = access[a].cred
           /\ access'[a].want = access[a].want /\ access'[a].obs = access[a].obs
           /\ access'[a].ready = access[a].ready /\ ~access'[a].lag
           /\ aw'[a] = IdleWorker
<1> DEFINE due == access[a].due \/ access[a].phase # "gone"
<1>1. access'[a] = [access[a] EXCEPT !.due = due, !.lag = FALSE, !.old = NoVersion]
  BY Zenon DEF Stop
<1>2. access[a] \in AccessObject
  BY DEF TypeOK
<1> HIDE DEF due
<1> QED BY <1>1, <1>2 DEF Stop, AccessObject

\* Steps that leave accesses and their workers alone.
LEMMA Elsewhere ==
    ASSUME [Next]_vars
    PROVE  \/ \E a \in Access : AccessStep(a)
           \/ \E a \in Access : Touches(a)
           \/ Stop
           \/ UNCHANGED <<access, aw>>
  BY Zenon DEF Next, Environment, EnsureCluster, StoreUp, ElasticUp, BucketStep, EnsureOwner,
     CreateBucket, DeleteBucket, RemoveBucket, RemoveOwner, ReleaseBucket, RookStep, IssueKey,
     RestoreSecret, RemoveUser, CollectSecret, AdminDeletesBucket, SecretLost, ForeignEdit, vars,
     Touches, ByUser

\* What an access and its worker remember of keys holds through every step of either.
LEMMA KeyInvStep ==
    ASSUME CephTypes, NEW a \in Access, KeyInv(a), [Next]_vars
    PROVE  KeyInv(a)'
<1>0. TypeOK
  BY DEF CephTypes
<1>k. Kept("fresh")' => Kept("fresh")
  BY <1>0, KeptShrinks
<1>1. ASSUME access'[a] = access[a], aw'[a] = aw[a] PROVE KeyInv(a)'
  BY <1>1, <1>k DEF KeyInv
<1>2. ASSUME GivesUp(a), aw[a].pc \in Ensuring PROVE KeyInv(a)'
  BY <1>2, <1>k DEF KeyInv, GivesUp, IdleWorker, InHand, Dropping, Ensuring
<1>3. ASSUME NEW b \in Access, AccessStep(b), b # a PROVE KeyInv(a)'
  BY <1>1, <1>3, OtherAccess
<1>4. ASSUME AccessStep(a) PROVE KeyInv(a)'
  <2>1. CASE TakeAccess(a)
    <3>1. /\ SameKeys(a) /\ access'[a].ready = access[a].ready
          /\ aw'[a].rot = Seen(a).want /\ aw'[a].rec = Seen(a).rec
          /\ \/ aw'[a].pc = "mkUser" /\ ~Minting(a)
             \/ aw'[a].pc = "delUser" /\ Minting(a)
             \/ /\ aw'[a].pc = "readPolicy" /\ aw'[a].key = secret[a]
                /\ ~NeedsNewUser(Seen(a).rec, secret[a])
      BY <1>0, <2>1, EnsureFields
    <3>2. /\ access[a].lag => Seen(a) = access[a].old /\ access[a].old.phase = "live"
          /\ ~access[a].lag => /\ Seen(a).phase = access[a].phase /\ Seen(a).want = access[a].want
                               /\ Seen(a).obs = access[a].obs /\ Seen(a).rec = access[a].rec
          /\ Seen(a).phase = "live" /\ aw[a].pc = "idle"
      BY <2>1 DEF TakeAccess, Seen, Current
    <3>3. /\ aw'[a].pc \in Ensuring /\ aw'[a].pc \notin Dropping
          /\ aw'[a].pc \in InHand => aw'[a].key # NoKey /\ aw'[a].key # aw'[a].rec
          /\ aw'[a].pc \in {"mkUser", "keys"} => ~Minting(a)
          /\ aw'[a].pc \in {"delUser", "newUser"} => Minting(a)
      BY <3>1 DEF Ensuring, Dropping, InHand, NeedsNewUser
    <3>4. access[a].phase # "gone"
      BY <3>2 DEF KeyInv
    <3> QED BY <1>k, <3>1, <3>2, <3>3, <3>4 DEF KeyInv, SameKeys, Minting, mintFresh
  <2>2. CASE DeleteForRotation(a) \/ EnsureAccessUser(a)
    <3>1. \/ aw[a].pc = "delUser" /\ GoesOn(a, "newUser")
          \/ aw[a].pc = "mkUser" /\ GoesOn(a, "keys")
      BY <1>0, <2>2, EnsureFields DEF DeleteForRotation, EnsureAccessUser
    <3> QED BY <1>k, <3>1 DEF KeyInv, GoesOn, InHand, Dropping, Ensuring
  <2>3. CASE CreateForRotation(a)
    BY <1>0, <1>2, <2>3, EnsureFields DEF CreateForRotation, Ensuring
  <2>4. CASE ReadAccessKeys(a)
    <3>1. CASE GivesUp(a)
      BY <1>2, <2>4, <3>1 DEF ReadAccessKeys, Ensuring
    <3>2. CASE GoesOn(a, "readPolicy") /\ secret[a] # NoKey /\ aw'[a].key = secret[a]
      BY <1>k, <2>4, <3>2 DEF ReadAccessKeys, KeyInv, GoesOn, InHand, Dropping, Ensuring
    <3> QED BY <1>0, <2>4, <3>1, <3>2, EnsureFields
  <2>5. CASE ReadPolicy(a) \/ WritePolicy(a)
    <3>1. aw[a].pc \in {"readPolicy", "writePolicy"}
      BY <2>5 DEF ReadPolicy, WritePolicy
    <3>2. CASE GivesUp(a)
      BY <1>2, <3>1, <3>2 DEF Ensuring, InHand
    <3>3. CASE (GoesOn(a, "writePolicy") \/ GoesOn(a, "record")) /\ aw'[a].key = aw[a].key
      BY <1>k, <3>1, <3>3 DEF KeyInv, GoesOn, InHand, Dropping, Ensuring
    <3> QED BY <1>0, <2>5, <3>2, <3>3, EnsureFields
  <2>6. CASE Record(a)
    <3>1. /\ access'[a].phase = access[a].phase
          /\ access'[a].rec = aw[a].key /\ access'[a].cred = aw[a].key /\ aw'[a] = IdleWorker
          /\ \/ ~access'[a].lag
             \/ access'[a].lag /\ access'[a].old = Current(a) /\ ~Kept("fresh")'
      BY <1>0, <2>6, EnsureFields
    <3>2. aw[a].pc = "record" /\ Current(a).phase = access[a].phase
      BY <2>6 DEF Record, Current
    <3>3. aw[a].key # NoKey /\ access[a].phase # "gone"
      BY <3>2 DEF KeyInv, InHand
    <3> QED BY <3>1, <3>2, <3>3 DEF KeyInv, IdleWorker, InHand, Dropping, Ensuring
  <2>7. CASE BucketLost(a)
    <3>1. aw[a].pc = "idle" /\ access[a].phase = "live"
      BY <2>7 DEF BucketLost
    <3>2. /\ access'[a].phase = access[a].phase /\ access'[a].rec = NoKey /\ access'[a].cred = NoKey
          /\ ~access'[a].ready /\ ~access'[a].lag /\ aw'[a] = aw[a]
      BY <1>0, <2>7, EnsureFields
    <3> QED BY <3>1, <3>2 DEF KeyInv, InHand, Dropping, Ensuring
  <2>8. CASE DeleteAccess(a) \/ ReadToDrop(a) \/ WriteDrop(a) \/ DropUser(a) \/ ReleaseAccess(a)
    <3>1. aw[a].pc \in Dropping \/ access[a].phase = "deleting"
      <4>1. CASE DeleteAccess(a)
        BY <4>1 DEF DeleteAccess, Seen, Current, KeyInv
      <4> QED BY <2>8, <4>1 DEF ReadToDrop, WriteDrop, DropUser, ReleaseAccess, Dropping
    <3>2. access[a].phase = "deleting"
      BY <3>1 DEF KeyInv
    <3>3. \/ access'[a] = access[a] /\ aw'[a].pc \in {"idle"} \cup Dropping
          \/ /\ access'[a] = [NewAccess EXCEPT !.phase = "gone", !.due = FALSE]
             /\ aw'[a].pc = "idle"
      BY <1>0, <2>8, DeleteFields DEF DeleteAccess, IdleWorker, Dropping
    <3>4. CASE access'[a] = access[a] /\ aw'[a].pc \in {"idle"} \cup Dropping
      BY <1>k, <3>2, <3>4 DEF KeyInv, InHand, Dropping, Ensuring
    <3>5. CASE /\ access'[a] = [NewAccess EXCEPT !.phase = "gone", !.due = FALSE]
               /\ aw'[a].pc = "idle"
      BY <3>5 DEF KeyInv, NewAccess, InHand, Dropping, Ensuring
    <3> QED BY <3>3, <3>4, <3>5
  <2> QED BY <1>4, <2>1, <2>2, <2>3, <2>4, <2>5, <2>6, <2>7, <2>8 DEF AccessStep
<1>5. ASSUME NEW b \in Access, Touches(b) PROVE KeyInv(a)'
  <2>1. CASE b # a
    BY <1>1, <1>5, <2>1, TouchedFields
  <2>2. CASE b = a
    <3>1. /\ aw' = aw /\ access'[a].rec = access[a].rec /\ access'[a].cred = access[a].cred
          /\ access'[a].obs = access[a].obs /\ access'[a].ready = access[a].ready
          /\ access'[a].phase = access[a].phase
             \/ (access[a].phase = "live" /\ access'[a].phase = "deleting")
          /\ access'[a].lag => (access[a].lag /\ access'[a].old = access[a].old)
      BY <1>5, <2>2, TouchedFields
    <3> QED BY <1>k, <3>1 DEF KeyInv
  <2> QED BY <2>1, <2>2
<1>6. CASE Stop
  <2>1. /\ access'[a].phase = access[a].phase
        /\ access'[a].rec = access[a].rec /\ access'[a].cred = access[a].cred
        /\ access'[a].ready = access[a].ready /\ ~access'[a].lag
        /\ aw'[a].pc = "idle"
    BY <1>0, <1>6, StopFields DEF IdleWorker
  <2> QED BY <1>k, <2>1 DEF KeyInv, InHand, Dropping, Ensuring
<1>7. CASE UNCHANGED <<access, aw>>
  BY <1>1, <1>7
<1> QED BY <1>3, <1>4, <1>5, <1>6, <1>7, Elsewhere

\* A Bucket never comes back to life.
LEMMA BucketPhase ==
    ASSUME TypeOK, [Next]_vars
    PROVE  bucket'.phase = "live" => bucket.phase = "live"
<1>1. \/ bucket' = bucket
      \/ BucketStep \/ AdminDeletesBucket
      \/ \E a \in Access : AccessStep(a)
  BY Zenon DEF Next, Environment, EnsureCluster, StoreUp, ElasticUp, RookStep, IssueKey,
     RestoreSecret, RemoveUser, CollectSecret, Stop, SecretLost, ForeignEdit, Rotate,
     ChangePermission, UserDeletesAccess, CacheSync, vars
<1>2. ASSUME NEW a \in Access, AccessStep(a) PROVE bucket' = bucket
  BY <1>2, AccessFrame
<1>3. CASE BucketStep \/ AdminDeletesBucket
  BY <1>3 DEF BucketStep, EnsureOwner, CreateBucket, DeleteBucket, RemoveBucket, RemoveOwner,
     ReleaseBucket, AdminDeletesBucket, TypeOK
<1> QED BY <1>1, <1>2, <1>3

\* A key that is live stays live until its user is deleted, which the access's own
\* worker does and only when no such key is in use.
LEMMA LiveKeysStep ==
    ASSUME CephTypes, OwnerInv, NEW a \in Access, KeyInv(a), LiveKeys(a), [Next]_vars
    PROVE  LiveKeys(a)'
<1>0. /\ TypeOK /\ access[a].obs <= access[a].want /\ a \in User /\ a # Owner
      /\ access[a].obs \in Nat /\ access[a].want \in Nat
      /\ secret[a] \in KeyOrNone /\ access[a].rec \in KeyOrNone
      /\ access[a].old.rec \in KeyOrNone /\ aw[a].rec \in KeyOrNone
      /\ rook[a] \in {"absent", "live", "going"}
  BY CephAssumption DEF CephTypes, Budgeted, TypeOK, AccessObject, AccessWorker, Version, User
<1>k. (Kept("keys") /\ bucket.phase = "live")' => Kept("keys") /\ bucket.phase = "live"
  BY <1>0, BucketPhase, KeptShrinks
<1>s. ASSUME rook'[a] = rook[a] \/ ensureUser(a), UNCHANGED <<rgw, secret>>
      PROVE  /\ \A k : Live(a, k) => Live(a, k)'
             /\ \A k : k # NoKey /\ Dead(a, k) => Dead(a, k)'
             /\ rook'[a] = "absent" => rgw'[a] = NoKey
  <2>1. rook'[a] = rook[a] \/ (rook[a] = "absent" /\ rook'[a] = "live")
    BY <1>0, <1>s DEF ensureUser, TypeOK
  <2> QED BY <1>s, <2>1 DEF Live, Dead, LiveKeys
<1>1. ASSUME access'[a] = access[a], aw'[a] = aw[a], rook'[a] = rook[a], rgw'[a] = rgw[a],
             secret'[a] = secret[a]
      PROVE  LiveKeys(a)'
  BY <1>1, <1>k DEF LiveKeys, Live, Dead, Recorded
<1>2. ASSUME GivesUp(a), aw[a].pc \in Ensuring, rook'[a] = rook[a] \/ ensureUser(a),
             UNCHANGED <<rgw, secret>>
      PROVE  LiveKeys(a)'
  <2>1. Recorded(a)' \subseteq Recorded(a)
    BY <1>2 DEF Recorded, GivesUp, IdleWorker, Ensuring, InHand
  <2>2. aw'[a].pc = "idle"
    BY <1>2 DEF GivesUp, IdleWorker
  <2> QED BY <1>2, <1>k, <1>s, <2>1, <2>2 DEF LiveKeys, GivesUp, InHand
<1>3. ASSUME NEW b \in Access, AccessStep(b), b # a PROVE LiveKeys(a)'
  <2>1. UNCHANGED <<secret, rgw>>
    BY <1>0, <1>3, AccessFrame
  <2> QED BY <1>1, <1>3, <2>1, OtherAccess
<1>4. ASSUME AccessStep(a) PROVE LiveKeys(a)'
  <2>0. UNCHANGED <<secret, rgw>>
    BY <1>0, <1>4, AccessFrame
  <2>1. CASE TakeAccess(a)
    <3>1. rook' = rook
      BY <2>1 DEF TakeAccess
    <3>2. /\ SameKeys(a) /\ aw'[a].rec = Seen(a).rec
          /\ \/ aw'[a].pc = "mkUser" /\ ~Minting(a)
             \/ aw'[a].pc = "delUser" /\ Minting(a)
             \/ /\ aw'[a].pc = "readPolicy" /\ aw'[a].key = secret[a]
                /\ ~NeedsNewUser(Seen(a).rec, secret[a])
      BY <1>0, <2>1, EnsureFields
    <3>3. /\ access[a].lag => Seen(a) = access[a].old
          /\ ~access[a].lag => /\ Seen(a).want = access[a].want /\ Seen(a).obs = access[a].obs
                               /\ Seen(a).rec = access[a].rec
      BY DEF Seen, Current
    <3>4. Recorded(a)' \subseteq Recorded(a) /\ Seen(a).rec \in Recorded(a)
      BY <1>0, <3>2, <3>3 DEF Recorded, SameKeys
    <3>5. /\ \A k : Live(a, k) => Live(a, k)'
          /\ \A k : k # NoKey /\ Dead(a, k) => Dead(a, k)'
          /\ rook'[a] = "absent" => rgw'[a] = NoKey
      BY <1>s, <2>0, <3>1
    <3>6. SUFFICES ASSUME (Kept("keys") /\ bucket.phase = "live" /\ access[a].phase = "live")'
                   PROVE  LiveKeys(a)'
      BY <3>5 DEF LiveKeys
    <3>7. Kept("keys") /\ bucket.phase = "live" /\ access[a].phase = "live"
      BY <1>k, <3>2, <3>6 DEF SameKeys
    <3>8. aw'[a].pc = "mkUser" => Live(a, access[a].cred)
      BY <3>2, <3>3, <3>7 DEF LiveKeys, Minting, mintFresh
    <3>9. aw'[a].pc = "readPolicy" => Live(a, secret[a])
      BY <3>2, <3>4, <3>7 DEF LiveKeys, NeedsNewUser
    <3>10. aw'[a].rec \notin {NoKey, access[a].rec} => Dead(a, aw'[a].rec)
      BY <3>2, <3>3, <3>7 DEF LiveKeys
    <3>11. /\ aw'[a].pc \in {"mkUser", "keys"} => aw'[a].pc = "mkUser"
           /\ aw'[a].pc \in InHand => aw'[a].pc = "readPolicy" /\ aw'[a].key = secret[a]
      BY <3>2 DEF InHand
    <3> QED BY <2>0, <3>2, <3>4, <3>5, <3>7, <3>8, <3>9, <3>10, <3>11 DEF LiveKeys, SameKeys
  <2>2. CASE DeleteForRotation(a)
    <3>1. /\ GoesOn(a, "newUser") /\ aw[a].pc = "delUser"
          /\ Kept("keys")' => /\ NeedsNewUser(aw[a].rec, secret[a])
                              /\ mintFresh(Current(a), access[a].cred)
      <4>1. ~(NeedsNewUser(aw[a].rec, secret[a]) /\ mintFresh(Current(a), access[a].cred))
              => budget' = [budget EXCEPT !.kept = @ \ {"keys"}]
        BY <2>2 DEF DeleteForRotation
      <4>2. budget' = [budget EXCEPT !.kept = @ \ {"keys"}] => ~Kept("keys")'
        BY <1>0 DEF Kept, TypeOK
      <4> QED BY <1>0, <2>2, <4>1, <4>2, EnsureFields DEF DeleteForRotation
    <3>2. rook'[a] = "absent" => rook[a] = "absent"
      BY <1>0, <2>2 DEF DeleteForRotation, deleteUser, TypeOK
    <3>3. rook'[a] = "absent" => rgw'[a] = NoKey
      BY <2>0, <3>2 DEF LiveKeys
    <3>4. SUFFICES ASSUME (Kept("keys") /\ bucket.phase = "live" /\ access[a].phase = "live")'
                   PROVE  LiveKeys(a)'
      BY <3>3 DEF LiveKeys
    <3>5. Kept("keys") /\ bucket.phase = "live" /\ access[a].phase = "live"
      BY <1>k, <3>1, <3>4 DEF GoesOn
    <3>6. secret[a] \in {NoKey, aw[a].rec}
      BY <3>1, <3>4 DEF NeedsNewUser
    <3>7. secret[a] \in {NoKey, access[a].rec}
      BY <3>1, <3>5, <3>6 DEF LiveKeys, Dead
    <3>8. \A r \in Recorded(a)' : secret[a] \in {NoKey, r}
      <4>1. access[a].lag => aw[a].rec = access[a].old.rec
        BY <3>1 DEF KeyInv, Ensuring
      <4> QED BY <3>1, <3>6, <3>7, <4>1 DEF Recorded, GoesOn
    <3>9. ~(access[a].cred # NoKey /\ access[a].want = access[a].obs)
      BY <3>1, <3>4 DEF KeyInv, mintFresh, Current
    <3>10. access[a].lag => mintFresh(access[a].old, access[a].cred)
      BY <3>1 DEF KeyInv
    <3>11. \A k : Dead(a, k) => Dead(a, k)'
      <4>1. rgw[a] # NoKey => rook'[a] = "going"
        BY <1>0, <2>2 DEF DeleteForRotation, deleteUser, TypeOK, LiveKeys
      <4>2. rook[a] = "going" => rook'[a] = "going"
        BY <1>0, <2>2 DEF DeleteForRotation, deleteUser, TypeOK
      <4> QED BY <2>0, <4>1, <4>2 DEF Dead
    <3> QED BY <2>0, <3>1, <3>3, <3>5, <3>8, <3>9, <3>10, <3>11 DEF LiveKeys, GoesOn, InHand
  <2>3. CASE CreateForRotation(a)
    <3>1. GivesUp(a) /\ ensureUser(a) /\ aw[a].pc \in Ensuring
      BY <1>0, <2>3, EnsureFields DEF CreateForRotation, Ensuring
    <3> QED BY <1>2, <2>0, <3>1
  <2>4. CASE EnsureAccessUser(a)
    <3>1. GoesOn(a, "keys") /\ aw[a].pc = "mkUser" /\ ensureUser(a)
      BY <1>0, <2>4, EnsureFields DEF EnsureAccessUser
    <3>2. Recorded(a)' = Recorded(a)
      BY <3>1 DEF Recorded, GoesOn, Ensuring
    <3> QED BY <1>k, <1>s, <2>0, <3>1, <3>2 DEF LiveKeys, GoesOn, InHand
  <2>5. CASE ReadAccessKeys(a)
    <3>1. rook' = rook /\ aw[a].pc = "keys"
      BY <2>5 DEF ReadAccessKeys
    <3>2. CASE GivesUp(a)
      BY <1>2, <2>0, <3>1, <3>2 DEF Ensuring
    <3>3. CASE GoesOn(a, "readPolicy") /\ secret[a] # NoKey /\ aw'[a].key = secret[a]
      <4>1. Recorded(a)' = Recorded(a)
        BY <3>1, <3>3 DEF Recorded, GoesOn, Ensuring, InHand
      <4>2. Live(a, access[a].cred) /\ secret[a] # NoKey => Live(a, secret[a])
        BY DEF Live
      <4> QED BY <1>k, <1>s, <2>0, <3>1, <3>3, <4>1, <4>2 DEF LiveKeys, GoesOn, InHand
    <3> QED BY <1>0, <2>5, <3>2, <3>3, EnsureFields
  <2>6. CASE ReadPolicy(a) \/ WritePolicy(a)
    <3>1. rook' = rook /\ aw[a].pc \in {"readPolicy", "writePolicy"}
      BY <2>6 DEF ReadPolicy, WritePolicy
    <3>2. CASE GivesUp(a)
      BY <1>2, <2>0, <3>1, <3>2 DEF Ensuring, InHand
    <3>3. CASE (GoesOn(a, "writePolicy") \/ GoesOn(a, "record")) /\ aw'[a].key = aw[a].key
      <4>1. Recorded(a)' = Recorded(a)
        BY <3>1, <3>3 DEF Recorded, GoesOn, Ensuring, InHand
      <4> QED BY <1>k, <1>s, <2>0, <3>1, <3>3, <4>1 DEF LiveKeys, GoesOn, InHand
    <3> QED BY <1>0, <2>6, <3>2, <3>3, EnsureFields
  <2>7. CASE Record(a)
    <3>1. rook' = rook /\ aw[a].pc = "record" /\ Current(a).rec = access[a].rec
      BY <2>7 DEF Record, Current
    <3>2. /\ access'[a].phase = access[a].phase
          /\ access'[a].rec = aw[a].key /\ access'[a].cred = aw[a].key
          /\ aw'[a].pc = "idle"
          /\ access'[a].lag => access'[a].old.rec = access[a].rec
      BY <1>0, <2>7, <3>1, EnsureFields DEF IdleWorker
    <3>3. /\ \A k : Live(a, k) => Live(a, k)'
          /\ rook'[a] = "absent" => rgw'[a] = NoKey
      BY <1>s, <2>0, <3>1
    <3>4. SUFFICES ASSUME (Kept("keys") /\ bucket.phase = "live" /\ access[a].phase = "live")'
                   PROVE  LiveKeys(a)'
      BY <3>3 DEF LiveKeys
    <3>5. Live(a, aw[a].key) /\ \A r \in Recorded(a) : secret[a] \notin {NoKey, r} => Live(a, secret[a])
      BY <1>k, <3>1, <3>2, <3>4 DEF LiveKeys, InHand
    <3>6. \A r \in Recorded(a)' : secret[a] \notin {NoKey, r} => Live(a, secret[a])
      BY <1>0, <3>2, <3>5 DEF Recorded, Ensuring, InHand, Live
    <3>7. \A k : k \notin {NoKey, aw[a].key} => Dead(a, k)'
      BY <2>0, <3>1, <3>5 DEF Live, Dead
    <3> QED BY <2>0, <3>2, <3>3, <3>5, <3>6, <3>7 DEF LiveKeys, InHand
  <2>8. CASE BucketLost(a)
    <3>1. bucket'.phase = "gone" /\ rook' = rook
      BY <2>8 DEF BucketLost
    <3> QED BY <2>0, <3>1 DEF LiveKeys
  <2>9. CASE DeleteAccess(a) \/ ReadToDrop(a) \/ WriteDrop(a) \/ DropUser(a) \/ ReleaseAccess(a)
    <3>1. access[a].phase = "deleting"
      <4>1. CASE DeleteAccess(a)
        BY <4>1 DEF DeleteAccess, Seen, Current, KeyInv
      <4> QED BY <2>9, <4>1 DEF ReadToDrop, WriteDrop, DropUser, ReleaseAccess, Dropping, KeyInv
    <3>2. access'[a] = access[a] \/ access'[a] = [NewAccess EXCEPT !.phase = "gone", !.due = FALSE]
      BY <1>0, <2>9, DeleteFields
    <3>3. access'[a].phase # "live"
      BY <3>1, <3>2 DEF NewAccess
    <3>4. rook'[a] = "absent" => rook[a] = "absent"
      BY <1>0, <2>9 DEF DeleteAccess, ReadToDrop, WriteDrop, DropUser, ReleaseAccess, deleteUser, TypeOK
    <3> QED BY <2>0, <3>3, <3>4 DEF LiveKeys
  <2> QED BY <1>4, <2>1, <2>2, <2>3, <2>4, <2>5, <2>6, <2>7, <2>8, <2>9 DEF AccessStep
<1>5. ASSUME NEW b \in Access, Touches(b) PROVE LiveKeys(a)'
  <2>1. UNCHANGED <<rook, secret, rgw, aw>>
    BY <1>5, TouchedFields
  <2>2. CASE b # a
    BY <1>1, <1>5, <2>1, <2>2, TouchedFields
  <2>3. CASE b = a
    <3>1. /\ access'[a].rec = access[a].rec /\ access'[a].cred = access[a].cred
          /\ access'[a].obs = access[a].obs
          /\ access'[a].want \in {access[a].want, access[a].want + 1}
          /\ access'[a].phase = access[a].phase \/ access'[a].phase = "deleting"
          /\ access'[a].lag => (access[a].lag /\ access'[a].old = access[a].old)
      BY <1>5, <2>3, TouchedFields
    <3>2. Recorded(a)' \subseteq Recorded(a)
      BY <2>1, <3>1 DEF Recorded
    <3>3. access'[a].want = access'[a].obs => access[a].want = access[a].obs
      BY <1>0, <3>1
    <3>4. /\ \A k : Live(a, k) => Live(a, k)'
          /\ \A k : k # NoKey /\ Dead(a, k) => Dead(a, k)'
          /\ rook'[a] = "absent" => rgw'[a] = NoKey
      BY <1>s, <2>1
    <3> QED BY <1>k, <2>1, <3>1, <3>2, <3>3, <3>4 DEF LiveKeys
  <2> QED BY <2>2, <2>3
<1>6. CASE Stop
  <2>1. /\ UNCHANGED <<rook, secret, rgw>>
        /\ access'[a].phase = access[a].phase
        /\ access'[a].rec = access[a].rec /\ access'[a].cred = access[a].cred
        /\ access'[a].want = access[a].want /\ access'[a].obs = access[a].obs
        /\ ~access'[a].lag /\ aw'[a].pc = "idle"
    BY <1>0, <1>6, StopFields DEF IdleWorker
  <2>2. Recorded(a)' \subseteq Recorded(a)
    BY <2>1 DEF Recorded, Ensuring, InHand
  <2>3. /\ \A k : Live(a, k) => Live(a, k)'
        /\ rook'[a] = "absent" => rgw'[a] = NoKey
    BY <1>s, <2>1
  <2> QED BY <1>k, <2>1, <2>2, <2>3 DEF LiveKeys, InHand
<1>7. ASSUME NEW u \in User, RookStep(u) PROVE LiveKeys(a)'
  <2>1. UNCHANGED <<access, aw>>
    BY <1>7 DEF RookStep, IssueKey, RestoreSecret, RemoveUser, CollectSecret
  <2>2. CASE u # a
    BY <1>0, <1>1, <1>7, <2>1, <2>2 DEF RookStep, IssueKey, RestoreSecret, RemoveUser, CollectSecret, TypeOK
  <2>r. Recorded(a)' = Recorded(a)
    BY <2>1 DEF Recorded
  <2>3. CASE IssueKey(a)
    <3>1. /\ rook[a] = "live" /\ rook'[a] = "live" /\ rgw[a] = NoKey
          /\ rgw'[a] = FreshKey(a) /\ secret'[a] = FreshKey(a)
      BY <1>0, <2>3 DEF IssueKey, TypeOK
    <3>2. /\ FreshKey(a) # NoKey
          /\ FreshKey(a) \notin {access[a].rec, access[a].cred, access[a].old.rec, aw[a].key, aw[a].rec}
      BY <1>0, FreshKeys DEF Key, NoKey
    <3>3. Live(a, secret[a])'
      BY <3>1 DEF Live
    <3>4. \A k : Live(a, k) => k = NoKey
      BY <3>1 DEF Live
    <3>5. Dead(a, access[a].old.rec)' /\ Dead(a, aw[a].rec)'
      BY <2>1, <3>1, <3>2 DEF Dead
    <3> QED BY <1>k, <2>1, <3>1, <3>3, <3>4, <3>5 DEF LiveKeys, KeyInv, InHand
  <2>4. CASE RestoreSecret(a)
    <3>1. /\ rook[a] = "live" /\ rook' = rook /\ rgw' = rgw /\ rgw[a] # NoKey
          /\ secret[a] = NoKey /\ secret'[a] = rgw[a]
      BY <1>0, <2>4 DEF RestoreSecret, TypeOK
    <3>2. /\ \A k : Live(a, k) => Live(a, k)'
          /\ \A k : Dead(a, k) => Dead(a, k)'
          /\ Live(a, secret[a])'
      BY <3>1 DEF Live, Dead
    <3> QED BY <1>k, <2>1, <3>1, <3>2 DEF LiveKeys
  <2>5. CASE RemoveUser(a)
    <3>1. rook[a] = "going" /\ secret' = secret /\ rgw'[a] = NoKey
      BY <1>0, <2>5 DEF RemoveUser, TypeOK
    <3>2. /\ \A k : ~Live(a, k)
          /\ \A k : k # NoKey /\ Dead(a, k) => Dead(a, k)'
      BY <3>1 DEF Live, Dead
    <3> QED BY <1>k, <2>1, <2>r, <3>1, <3>2 DEF LiveKeys
  <2>6. CASE CollectSecret(a)
    <3>1. /\ rook[a] = "absent" /\ rook' = rook /\ rgw' = rgw /\ secret'[a] = NoKey
      BY <1>0, <2>6 DEF CollectSecret, TypeOK
    <3>2. /\ \A k : Live(a, k) => Live(a, k)'
          /\ \A k : k # NoKey /\ Dead(a, k) => Dead(a, k)'
      BY <3>1 DEF Live, Dead
    <3> QED BY <1>k, <2>1, <3>1, <3>2 DEF LiveKeys
  <2> QED BY <1>7, <2>2, <2>3, <2>4, <2>5, <2>6 DEF RookStep
<1>8. ASSUME NEW u \in User, SecretLost(u) PROVE LiveKeys(a)'
  <2>1. /\ UNCHANGED <<access, aw, rook, rgw>> /\ secret'[a] \in {secret[a], NoKey}
    BY <1>0, <1>8 DEF SecretLost, TypeOK
  <2>2. /\ \A k : Live(a, k) => Live(a, k)'
        /\ \A k : k # NoKey /\ Dead(a, k) => Dead(a, k)'
    BY <2>1 DEF Live, Dead
  <2>3. Recorded(a)' = Recorded(a)
    BY <2>1 DEF Recorded
  <2>4. secret'[a] # NoKey => secret'[a] = secret[a]
    BY <2>1
  <2> QED BY <1>k, <2>1, <2>2, <2>3, <2>4 DEF LiveKeys
<1>9. CASE \/ EnsureCluster \/ StoreUp \/ ElasticUp \/ BucketStep \/ AdminDeletesBucket
           \/ \E f \in {"none", "conditioned", "garbled"} : ForeignEdit(f)
           \/ UNCHANGED vars
  <2>1. UNCHANGED <<access, aw, rgw, secret>>
    BY <1>9 DEF EnsureCluster, StoreUp, ElasticUp, BucketStep, EnsureOwner, CreateBucket, DeleteBucket,
       RemoveBucket, RemoveOwner, ReleaseBucket, AdminDeletesBucket, ForeignEdit, vars
  <2>2. rook'[a] = rook[a]
    BY <1>0, <1>9 DEF EnsureCluster, StoreUp, ElasticUp, BucketStep, EnsureOwner, CreateBucket, DeleteBucket,
       RemoveBucket, RemoveOwner, ReleaseBucket, AdminDeletesBucket, ForeignEdit, vars, ensureUser,
       deleteUser, TypeOK
  <2> QED BY <1>1, <2>1, <2>2
<1> QED BY <1>3, <1>4, <1>5, <1>6, <1>7, <1>8, <1>9 DEF Next, Environment, Touches, ByUser

-----------------------------------------------------------------------------
(* The bucket policy, with one worker *)

\* A reconcile starts when no other is under way.
LEMMA OneBusyStep ==
    ASSUME Worker = 1, CephTypes, OneBusy, [Next]_vars
    PROVE  OneBusy'
<1>0. TypeOK
  BY DEF CephTypes
<1>1. ASSUME WorkerFree PROVE \A b \in Access : aw[b].pc = "idle"
  <2> DEFINE busy == {b \in Access : aw[b].pc # "idle"}
  <2>1. SUFFICES ASSUME NEW b \in busy PROVE FALSE
    OBVIOUS
  <2>2. busy = {b}
    BY <2>1 DEF OneBusy
  <2>3. Cardinality({b}) = 1
    BY FS_Singleton
  <2> QED BY <1>1, <2>2, <2>3 DEF WorkerFree
<1>2. ASSUME NEW a \in Access, AccessStep(a) PROVE OneBusy'
  <2>1. \A b \in Access \ {a} : aw'[b] = aw[b]
    BY <1>2, OtherAccess
  <2>2. CASE TakeAccess(a) \/ DeleteAccess(a)
    BY <1>1, <2>1, <2>2 DEF OneBusy, TakeAccess, DeleteAccess
  <2>3. CASE aw[a].pc # "idle"
    BY <2>1, <2>3 DEF OneBusy
  <2>4. CASE BucketLost(a)
    <3>1. UNCHANGED aw
      BY <2>4 DEF BucketLost
    <3> QED BY <3>1 DEF OneBusy
  <2> QED BY <1>2, <2>2, <2>3, <2>4 DEF AccessStep, DeleteForRotation, CreateForRotation, EnsureAccessUser,
          ReadAccessKeys, ReadPolicy, WritePolicy, Record, ReadToDrop, WriteDrop, DropUser, ReleaseAccess
<1>3. ASSUME NEW a \in Access, Touches(a) PROVE UNCHANGED aw
  BY <1>3, TouchedFields
<1>4. CASE Stop
  <2>1. \A a \in Access : aw'[a] = IdleWorker
    BY <1>0, <1>4, StopFields
  <2> QED BY <2>1 DEF OneBusy, IdleWorker
<1>5. CASE UNCHANGED aw
  BY <1>5 DEF OneBusy
<1> QED BY <1>2, <1>3, <1>4, <1>5, Elsewhere

\* What a policy update writes: the statement of one access.
LEMMA Update ==
    ASSUME TypeOK, NEW a \in Access, ReadInv(a), WritePolicy(a) \/ WriteDrop(a)
    PROVE  /\ ~OwnerServes => UNCHANGED policy
           /\ \A b \in Access \ {a} : policy'.stmt[b] = policy.stmt[b]
           /\ OwnerServes /\ WritePolicy(a) => policy'.stmt[a] = aw[a].perm
           /\ OwnerServes /\ WriteDrop(a) => policy'.stmt[a] = NoStmt
           /\ Kept("statements") => parsePolicy(policy').foreign = parsePolicy(policy).foreign
<1> DEFINE old == aw[a].read
           new == IF WritePolicy(a) THEN upsert(old, a, aw[a].perm) ELSE remove(old, a)
<1>1. /\ old \in Policy /\ policy \in Policy /\ aw[a].perm \in Permission
      /\ NoStmt \notin Permission
  BY DEF TypeOK, AccessWorker, NoStmt, Permission
<1>2. Writing(a) /\ SetPolicy(old, new)
  <2>1. CASE WritePolicy(a)
    BY <2>1 DEF WritePolicy, Writing
  <2>2. CASE WriteDrop(a) /\ ~WritePolicy(a)
    BY <2>2 DEF WriteDrop, Writing
  <2> QED BY <2>1, <2>2
<1>3. WriteDrop(a) => ~WritePolicy(a)
  BY DEF WritePolicy, WriteDrop
<1>4. /\ new.foreign = old.foreign
      /\ WritePolicy(a) => new.stmt = [old.stmt EXCEPT ![a] = aw[a].perm]
      /\ WriteDrop(a) => new.stmt = [old.stmt EXCEPT ![a] = NoStmt]
  <2>1. CASE WritePolicy(a)
    BY <1>1, <1>3, <2>1, Policies
  <2>2. CASE ~WritePolicy(a)
    BY <1>1, <2>2, Policies
  <2> QED BY <2>1, <2>2
<1> HIDE DEF new, old
<1>5. old.stmt \in [Access -> Permission \cup {NoStmt}]
  BY <1>1 DEF Policy
<1>6. CASE ~OwnerServes
  BY <1>2, <1>6 DEF SetPolicy
<1>7. CASE OwnerServes
  <2>1. /\ old.stmt = policy.stmt /\ old.foreign \notin {"conditioned", "garbled"}
        /\ Kept("statements") => old.foreign = parsePolicy(policy).foreign
    BY <1>2, <1>7 DEF ReadInv, OwnerServes, old
  <2>2. policy' = new \/ (policy' = policy /\ new = old)
    BY <1>2, <1>7 DEF SetPolicy
  <2>3. policy'.stmt = new.stmt
    BY <2>1, <2>2
  <2>4. Kept("statements") => parsePolicy(policy').foreign = parsePolicy(policy).foreign
    <3>1. new \in Policy
      BY <1>1, Policies DEF new
    <3>2. policy' = new => parsePolicy(policy').foreign = new.foreign
      BY <1>4, <2>1, <3>1 DEF parsePolicy, Policy
    <3> QED BY <1>4, <2>1, <2>2, <3>2
  <2> QED BY <1>4, <1>5, <1>7, <2>1, <2>3, <2>4
<1> QED BY <1>6, <1>7

\* What others than accesses do to the policy: edit its foreign part, or remove it with
\* the bucket.
LEMMA PolicyElsewhere ==
    ASSUME TypeOK, OwnerInv, [Next]_vars, UNCHANGED <<access, aw>>
    PROVE  \/ \E a \in Access : AccessStep(a) \/ Touches(a)
           \/ Stop
           \/ /\ \A a \in Access : rook'[a] = "live" => rook[a] = "live"
              /\ \/ /\ UNCHANGED policy
                    /\ bucket'.exists => bucket.exists \/ bw = "keys"
                    /\ bucket'.exists \/ ~bucket.exists
                    /\ bw' = "keys" => bw = "keys" \/ bucket.phase = "live"
                 \/ /\ bucket.phase = "deleting" /\ bucket'.phase = "deleting" /\ ~bucket'.exists
                    /\ bw' # "keys"
                 \/ /\ UNCHANGED <<bucket, bw>> /\ policy'.stmt = policy.stmt
                    /\ \A a \in Access : Writing(a) => ~Kept("statements")'
<1>0. \A a \in Access : a \in User /\ a # Owner
  BY CephAssumption DEF User
<1>1. CASE EnsureCluster \/ StoreUp \/ ElasticUp \/ UNCHANGED vars \/ \E u \in User : SecretLost(u)
  <2>1. UNCHANGED <<rook, policy, bucket, bw>>
    BY <1>1 DEF EnsureCluster, StoreUp, ElasticUp, SecretLost, vars
  <2> QED BY <2>1
<1>2. ASSUME NEW u \in User, RookStep(u)
      PROVE  UNCHANGED <<policy, bucket, bw>> /\ \A a \in Access : rook'[a] = "live" => rook[a] = "live"
  BY <1>0, <1>2 DEF RookStep, IssueKey, RestoreSecret, RemoveUser, CollectSecret, TypeOK
<1>3. CASE AdminDeletesBucket
  <2>1. UNCHANGED <<rook, policy, bw>> /\ bucket'.exists = bucket.exists
    BY <1>3 DEF AdminDeletesBucket, TypeOK
  <2> QED BY <2>1
<1>4. ASSUME NEW f, ForeignEdit(f)
      PROVE  /\ UNCHANGED <<rook, bucket, bw>> /\ policy'.stmt = policy.stmt
             /\ \A a \in Access : Writing(a) => ~Kept("statements")'
  <2>1. UNCHANGED <<rook, bucket, bw>> /\ policy' = [policy EXCEPT !.foreign = f]
    BY <1>4 DEF ForeignEdit
  <2>2. policy'.stmt = policy.stmt
    BY <2>1 DEF TypeOK, Policy
  <2>3. \A a \in Access : Writing(a) => ~Kept("statements")'
    BY <1>4 DEF ForeignEdit, Writing, Disturbance, Kept
  <2> QED BY <2>1, <2>2, <2>3
<1>5. CASE EnsureOwner \/ RemoveOwner
  <2>1. UNCHANGED <<policy, bucket>>
    BY <1>5 DEF EnsureOwner, RemoveOwner
  <2>2. bw' = "keys" => bucket.phase = "live"
    BY <1>5 DEF EnsureOwner, RemoveOwner
  <2>3. \A a \in Access : rook'[a] = rook[a]
    BY <1>0, <1>5 DEF EnsureOwner, RemoveOwner, ensureUser, deleteUser, TypeOK
  <2> QED BY <2>1, <2>2, <2>3
<1>6. CASE CreateBucket \/ ReleaseBucket
  <2>1. /\ UNCHANGED <<rook, policy>> /\ bw' = "idle"
        /\ bucket'.exists = bucket.exists \/ (bucket'.exists /\ bw = "keys")
    BY <1>6 DEF CreateBucket, ReleaseBucket, TypeOK
  <2> QED BY <2>1
<1>7. CASE DeleteBucket
  BY <1>7 DEF DeleteBucket
<1>8. CASE RemoveBucket
  <2>1. UNCHANGED rook /\ bw = "delBucket" /\ bw' # "keys" /\ bucket.phase = "deleting"
    BY <1>8 DEF RemoveBucket, OwnerInv
  <2>2. UNCHANGED <<policy, bucket>> \/ (bucket'.phase = bucket.phase /\ ~bucket'.exists)
    BY <1>8 DEF RemoveBucket, TypeOK
  <2> QED BY <2>1, <2>2
<1> QED BY <1>1, <1>2, <1>3, <1>4, <1>5, <1>6, <1>7, <1>8 DEF Next, BucketStep, Environment,
        Touches, ByUser

PolicyInv == OneBusy /\ \A a \in Access : ReadInv(a) /\ StatementInv(a)

\* What an access has read of the policy stays what is there until it is written back.
LEMMA ReadInvStep ==
    ASSUME CephTypes, OwnerInv, PolicyInv, NEW a \in Access, [Next]_vars
    PROVE  ReadInv(a)'
<1>0. TypeOK /\ OneBusy /\ ReadInv(a) /\ policy \in Policy
  BY DEF CephTypes, PolicyInv, TypeOK
<1>k. \A g : Kept(g)' => Kept(g)
  BY <1>0, KeptShrinks
<1>1. ASSUME UNCHANGED <<bucket, bw, policy>>, aw'[a] = aw[a] PROVE ReadInv(a)'
  BY <1>0, <1>1, <1>k DEF ReadInv, Writing
<1>2. ASSUME NEW b \in Access, AccessStep(b) PROVE ReadInv(a)'
  <2>0. UNCHANGED <<bucket, bw>>
    BY <1>0, <1>2, AccessFrame
  <2>1. CASE b # a
    <3>1. aw'[a] = aw[a]
      BY <1>2, <2>1, OtherAccess
    <3>2. Writing(a) => UNCHANGED policy
      BY <1>0, <1>2, <2>1, AccessFrame DEF Writing, OneBusy, WritePolicy, WriteDrop
    <3>3. CASE Writing(a)
      BY <1>1, <2>0, <3>1, <3>2, <3>3
    <3>4. CASE ~Writing(a)
      BY <3>1, <3>4 DEF ReadInv, Writing
    <3> QED BY <3>3, <3>4
  <2>2. CASE b = a /\ (ReadPolicy(a) \/ ReadToDrop(a))
    <3>1. \/ aw'[a] = IdleWorker
          \/ PolicyReadable /\ aw'[a].read = parsePolicy(policy)
      BY <1>0, <2>2, EnsureFields, DeleteFields DEF GivesUp
    <3>2. CASE aw'[a] = IdleWorker
      BY <3>2 DEF ReadInv, Writing, IdleWorker
    <3>3. CASE PolicyReadable /\ aw'[a].read = parsePolicy(policy)
      <4>1. UNCHANGED policy
        BY <2>2 DEF ReadPolicy, ReadToDrop
      <4>2. bucket.exists /\ policy.foreign # "garbled"
        BY <3>3 DEF PolicyReadable, OwnerServes, Parses
      <4>3. /\ parsePolicy(policy).stmt = policy.stmt
            /\ parsePolicy(policy).foreign \notin {"conditioned", "garbled"}
        BY <1>0, <4>2 DEF parsePolicy, Policy
      <4>4. parsePolicy(policy') = parsePolicy(policy)
        BY <4>1
      <4> QED BY <2>0, <3>3, <4>1, <4>2, <4>3, <4>4 DEF ReadInv, parsePolicy
    <3> QED BY <3>1, <3>2, <3>3
  <2>3. CASE b = a /\ ~ReadPolicy(a) /\ ~ReadToDrop(a)
    <3>1. aw'[a].pc \notin {"writePolicy", "writeDrop"}
      <4>1. CASE TakeAccess(a) \/ DeleteForRotation(a) \/ CreateForRotation(a) \/ EnsureAccessUser(a)
        BY <1>0, <4>1, EnsureFields DEF GoesOn, GivesUp, IdleWorker
      <4>2. CASE ReadAccessKeys(a) \/ WritePolicy(a)
        BY <1>0, <4>2, EnsureFields DEF GoesOn, GivesUp, IdleWorker
      <4>3. CASE Record(a) \/ BucketLost(a)
        <5>1. CASE Record(a)
          BY <1>0, <5>1, EnsureFields DEF IdleWorker
        <5>2. CASE BucketLost(a)
          <6>1. aw[a].pc = "idle" /\ aw' = aw
            BY <5>2 DEF BucketLost
          <6> QED BY <6>1
        <5> QED BY <4>3, <5>1, <5>2
      <4>4. CASE DeleteAccess(a) \/ WriteDrop(a) \/ DropUser(a) \/ ReleaseAccess(a)
        BY <1>0, <4>4, DeleteFields DEF DeleteAccess, IdleWorker
      <4> QED BY <1>2, <2>3, <4>1, <4>2, <4>3, <4>4 DEF AccessStep
    <3> QED BY <3>1 DEF ReadInv, Writing
  <2> QED BY <2>1, <2>2, <2>3
<1>3. ASSUME NEW b \in Access, Touches(b) PROVE ReadInv(a)'
  BY <1>0, <1>1, <1>3, TouchedFields
<1>4. CASE Stop
  <2>1. aw'[a] = IdleWorker
    BY <1>0, <1>4, StopFields
  <2> QED BY <2>1 DEF ReadInv, Writing, IdleWorker
<1>5. ASSUME UNCHANGED <<access, aw>>,
             \/ /\ UNCHANGED policy
                /\ bucket'.exists => bucket.exists \/ bw = "keys"
                /\ bucket'.exists \/ ~bucket.exists
                /\ bw' = "keys" => bw = "keys" \/ bucket.phase = "live"
             \/ /\ bucket.phase = "deleting" /\ bucket'.phase = "deleting" /\ ~bucket'.exists
                /\ bw' # "keys"
             \/ /\ UNCHANGED <<bucket, bw>> /\ policy'.stmt = policy.stmt
                /\ \A b \in Access : Writing(b) => ~Kept("statements")'
      PROVE  ReadInv(a)'
  BY <1>0, <1>5, <1>k, BucketPhase DEF ReadInv, Writing
<1> QED BY <1>0, <1>2, <1>3, <1>4, <1>5, Elsewhere, PolicyElsewhere

\* A statement stays while its access is ready, and is gone when the access is.
LEMMA StatementInvStep ==
    ASSUME CephTypes, OwnerInv, PolicyInv, NEW a \in Access, KeyInv(a), [Next]_vars
    PROVE  StatementInv(a)'
<1>0. TypeOK /\ OneBusy /\ StatementInv(a) /\ \A b \in Access : ReadInv(b)
  BY DEF CephTypes, PolicyInv
<1>k. \A g : Kept(g)' => Kept(g)
  BY <1>0, KeptShrinks
<1>b. bucket'.phase = "live" => bucket.phase = "live"
  BY <1>0, BucketPhase
<1>u. a \in User /\ aw[a].perm \in Permission /\ NoStmt \notin Permission
  BY <1>0 DEF TypeOK, User, AccessWorker, Permission, NoStmt
<1>1. ASSUME access'[a] = access[a], aw'[a] = aw[a], policy'.stmt[a] = policy.stmt[a],
             rook'[a] = "live" => rook[a] = "live"
      PROVE  StatementInv(a)'
  BY <1>0, <1>1, <1>k, <1>b DEF StatementInv
<1>2. ASSUME access'[a].phase = access[a].phase, access'[a].ready => access[a].ready,
             aw'[a] = IdleWorker, policy'.stmt[a] = policy.stmt[a],
             rook'[a] = "live" => rook[a] = "live" \/ aw[a].pc # "idle"
      PROVE  StatementInv(a)'
  BY <1>0, <1>2, <1>k, <1>b DEF StatementInv, IdleWorker, KeyInv
<1>g. GivesUp(a) => /\ access'[a].phase = access[a].phase
                    /\ access'[a].ready => access[a].ready
                    /\ aw'[a] = IdleWorker
  BY DEF GivesUp
<1>3. ASSUME NEW b \in Access, AccessStep(b), b # a PROVE StatementInv(a)'
  <2>1. policy'.stmt[a] = policy.stmt[a]
    BY <1>0, <1>3, AccessFrame, Update
  <2> QED BY <1>1, <1>3, <2>1, OtherAccess
<1>4. ASSUME AccessStep(a) PROVE StatementInv(a)'
  <2>1. CASE TakeAccess(a)
    <3>1. UNCHANGED <<policy, rook>>
      BY <2>1 DEF TakeAccess
    <3>2. /\ SameKeys(a) /\ access'[a].ready = access[a].ready
          /\ aw'[a].pc \in {"mkUser", "delUser", "readPolicy"}
      BY <1>0, <2>1, EnsureFields
    <3> QED BY <1>0, <1>k, <1>b, <3>1, <3>2 DEF StatementInv, SameKeys
  <2>2. CASE DeleteForRotation(a) \/ EnsureAccessUser(a)
    <3>1. UNCHANGED policy /\ aw[a].pc \in {"delUser", "mkUser"}
      BY <2>2 DEF DeleteForRotation, EnsureAccessUser
    <3>2. access'[a] = access[a] /\ aw'[a].pc \in {"newUser", "keys"}
      BY <1>0, <2>2, EnsureFields DEF GoesOn
    <3> QED BY <1>0, <1>k, <1>b, <3>1, <3>2 DEF StatementInv, KeyInv
  <2>3. CASE CreateForRotation(a)
    <3>1. UNCHANGED policy /\ aw[a].pc = "newUser"
      BY <2>3 DEF CreateForRotation
    <3>2. GivesUp(a)
      BY <1>0, <2>3, EnsureFields
    <3> QED BY <1>2, <1>g, <3>1, <3>2
  <2>4. CASE ReadAccessKeys(a) \/ ReadPolicy(a)
    <3>1. UNCHANGED <<policy, rook>> /\ aw[a].pc \in {"keys", "readPolicy"}
      BY <2>4 DEF ReadAccessKeys, ReadPolicy
    <3>2. \/ GivesUp(a)
          \/ access'[a] = access[a] /\ aw'[a].pc \in {"readPolicy", "writePolicy"}
      BY <1>0, <2>4, EnsureFields DEF GoesOn
    <3>3. CASE access'[a] = access[a] /\ aw'[a].pc \in {"readPolicy", "writePolicy"}
      BY <1>0, <1>k, <1>b, <3>1, <3>3 DEF StatementInv
    <3> QED BY <1>2, <1>g, <3>1, <3>2, <3>3
  <2>5. CASE WritePolicy(a)
    <3>1. UNCHANGED rook /\ aw[a].pc = "writePolicy"
      BY <2>5 DEF WritePolicy
    <3>2. \/ ~OwnerServes /\ GivesUp(a)
          \/ OwnerServes /\ access'[a] = access[a] /\ aw'[a].pc = "record"
      <4>1. CASE OwnerServes
        <5>1. Becomes(a, access[a], [aw[a] EXCEPT !.pc = "record"])
          BY <1>0, <2>5, <4>1, EnsureEffects
        <5>2. access'[a] = access[a] /\ aw'[a] = [aw[a] EXCEPT !.pc = "record"]
          BY <1>0, <5>1, Becoming
        <5> QED BY <1>0, <4>1, <5>2 DEF TypeOK, AccessWorker
      <4>2. CASE ~OwnerServes
        BY <1>0, <2>5, <4>2, EnsureFields
      <4> QED BY <4>1, <4>2
    <3>3. CASE ~OwnerServes /\ GivesUp(a)
      BY <1>0, <1>2, <1>g, <2>5, <3>1, <3>3, Update
    <3>4. CASE OwnerServes /\ access'[a] = access[a] /\ aw'[a].pc = "record"
      <4>1. policy'.stmt[a] # NoStmt
        BY <1>0, <1>u, <2>5, <3>4, Update
      <4>2. access[a].phase # "gone"
        BY <3>1 DEF KeyInv
      <4> QED BY <1>0, <1>k, <3>1, <3>4, <4>1, <4>2 DEF StatementInv
    <3> QED BY <3>2, <3>3, <3>4
  <2>6. CASE Record(a)
    <3>1. UNCHANGED <<policy, rook>> /\ aw[a].pc = "record"
      BY <2>6 DEF Record
    <3>2. access'[a].phase = access[a].phase /\ aw'[a] = IdleWorker
      BY <1>0, <2>6, EnsureFields
    <3> QED BY <1>0, <1>k, <1>b, <3>1, <3>2 DEF StatementInv, IdleWorker, KeyInv
  <2>7. CASE BucketLost(a)
    <3>1. UNCHANGED <<policy, rook>> /\ aw[a].pc = "idle" /\ access[a].phase = "live"
      BY <2>7 DEF BucketLost
    <3>2. access'[a].phase = access[a].phase /\ ~access'[a].ready /\ aw'[a] = aw[a]
      BY <1>0, <2>7, EnsureFields
    <3> QED BY <3>1, <3>2 DEF StatementInv
  <2>8. CASE DeleteAccess(a)
    <3>1. UNCHANGED <<policy, rook, bucket>> /\ aw[a].pc = "idle" /\ access[a].phase = "deleting"
      BY <2>8 DEF DeleteAccess, Seen, Current, KeyInv
    <3>2. \/ /\ bucket.phase = "gone" /\ aw'[a] = aw[a]
             /\ access'[a] = [NewAccess EXCEPT !.phase = "gone", !.due = FALSE]
          \/ access'[a] = access[a] /\ aw'[a].pc = "readDrop"
          \/ /\ access'[a] = access[a] /\ aw'[a].pc = "dropUser"
             /\ secret[Owner] = NoKey \/ "revoked" \notin budget'.kept
      BY <1>0, <2>8, DeleteFields
    <3>3. Kept("revoked")' => bucket.phase = "live" /\ (secret[Owner] = NoKey => policy = NoPolicy)
      BY <1>k DEF OwnerInv
    <3>4. NoPolicy.stmt[a] = NoStmt
      BY DEF NoPolicy
    <3>5. access'[a].phase \in {"gone", "deleting"}
      BY <3>1, <3>2 DEF NewAccess
    <3> QED BY <1>0, <1>k, <3>1, <3>2, <3>3, <3>4, <3>5 DEF StatementInv, Kept
  <2>9. CASE ReadToDrop(a)
    <3>1. UNCHANGED <<policy, rook>> /\ access[a].phase = "deleting"
      BY <2>9 DEF ReadToDrop, KeyInv, Dropping
    <3>2. access'[a] = access[a] /\ aw'[a].pc \in {"idle", "writeDrop"}
      BY <1>0, <2>9, DeleteFields DEF IdleWorker
    <3> QED BY <3>1, <3>2 DEF StatementInv
  <2>10. CASE WriteDrop(a)
    <3>1. UNCHANGED rook /\ access[a].phase = "deleting"
      BY <2>10 DEF WriteDrop, KeyInv, Dropping
    <3>2. \/ access'[a] = access[a] /\ aw'[a].pc = "idle"
          \/ OwnerServes /\ access'[a] = access[a] /\ aw'[a].pc = "dropUser"
      BY <1>0, <2>10, DeleteFields DEF IdleWorker
    <3>3. OwnerServes => policy'.stmt[a] = NoStmt
      BY <1>0, <2>10, Update
    <3> QED BY <3>1, <3>2, <3>3 DEF StatementInv
  <2>11. CASE DropUser(a)
    <3>1. /\ UNCHANGED policy /\ aw[a].pc = "dropUser" /\ access[a].phase = "deleting"
          /\ rook'[a] # "live"
      BY <1>0, <1>u, <2>11 DEF DropUser, deleteUser, KeyInv, Dropping, TypeOK
    <3>2. access'[a] = access[a] /\ aw'[a].pc = "release"
      BY <1>0, <2>11, DeleteFields
    <3> QED BY <1>0, <1>k, <3>1, <3>2 DEF StatementInv
  <2>12. CASE ReleaseAccess(a)
    <3>1. UNCHANGED <<policy, rook>> /\ aw[a].pc = "release"
      BY <2>12 DEF ReleaseAccess
    <3>2. access'[a].phase = "gone" /\ aw'[a] = IdleWorker
      BY <1>0, <2>12, DeleteFields DEF NewAccess
    <3> QED BY <1>0, <1>k, <3>1, <3>2 DEF StatementInv, IdleWorker
  <2> QED BY <1>4, <2>1, <2>2, <2>3, <2>4, <2>5, <2>6, <2>7, <2>8, <2>9, <2>10, <2>11, <2>12 DEF AccessStep
<1>5. ASSUME NEW b \in Access, Touches(b) PROVE StatementInv(a)'
  <2>1. UNCHANGED <<rook, policy, aw>>
    BY <1>5, TouchedFields
  <2>2. CASE b # a
    BY <1>0, <1>1, <1>5, <2>1, <2>2, TouchedFields
  <2>3. CASE b = a
    <3>1. /\ access'[a].ready = access[a].ready
          /\ access'[a].phase = access[a].phase
             \/ (access[a].phase = "live" /\ access'[a].phase = "deleting")
      BY <1>5, <2>3, TouchedFields
    <3> QED BY <1>0, <1>k, <1>b, <2>1, <3>1 DEF StatementInv
  <2> QED BY <2>2, <2>3
<1>6. CASE Stop
  BY <1>0, <1>2, <1>6, StopFields
<1>7. ASSUME UNCHANGED <<access, aw>>, rook'[a] = "live" => rook[a] = "live",
             \/ policy'.stmt = policy.stmt
             \/ bucket.phase = "deleting" /\ bucket'.phase = "deleting"
      PROVE  StatementInv(a)'
  BY <1>0, <1>7, <1>k, <1>b DEF StatementInv, OwnerInv
<1> QED BY <1>0, <1>3, <1>4, <1>5, <1>6, <1>7, Elsewhere, PolicyElsewhere

-----------------------------------------------------------------------------
(* The theorems *)

\* What holds whatever the number of workers.
KeysInv == \A a \in Access : KeyInv(a) /\ LiveKeys(a)
CephInv == CephTypes /\ OwnerInv /\ KeysInv

\* At first there is nothing.
LEMMA InitInv == Init => CephInv /\ PolicyInv
<1> SUFFICES ASSUME Init PROVE CephInv /\ PolicyInv
  OBVIOUS
<1>1. CephTypes
  <2>1. NewAccess \in AccessObject /\ IdleWorker \in AccessWorker /\ NoPolicy \in Policy
    BY CephAssumption DEF NewAccess, NoVersion, Version, AccessObject, Phase, KeyOrNone, Permission,
       IdleWorker, AccessWorker, AccessPC, NoPolicy, Policy
  <2>2. /\ rook \in [User -> {"absent", "live", "going"}]
        /\ secret \in [User -> KeyOrNone] /\ rgw \in [User -> KeyOrNone]
    <3>1. NoKey \in KeyOrNone
      BY DEF KeyOrNone
    <3> QED BY <3>1 DEF Init
  <2>a. store \in [elastic: BOOLEAN, cos: {"absent", "creating", "ready"}, ready: BOOLEAN]
    BY DEF Init
  <2>b. bucket \in [phase: Phase, ready: BOOLEAN, exists: BOOLEAN, reclaim: Reclaims]
    BY CephAssumption DEF Init, Phase
  <2>c. budget \in [left: 0 .. MaxDisturb, kept: SUBSET Guarantee]
    <3>1. MaxDisturb \in 0 .. MaxDisturb
      BY CephAssumption
    <3> QED BY <3>1 DEF Init
  <2>3. TypeOK
    BY <2>1, <2>2, <2>a, <2>b, <2>c DEF Init, TypeOK, BucketPC
  <2>4. Budgeted
    BY CephAssumption DEF Init, Budgeted, NewAccess, IdleWorker
  <2> QED BY <2>3, <2>4 DEF CephTypes
<1>2. OwnerInv
  <2>1. Owner \in User
    BY DEF User
  <2>2. bucket.phase = "live" /\ ~bucket.ready /\ ~bucket.exists
    BY DEF Init
  <2> QED BY <2>1, <2>2 DEF Init, OwnerInv, ReclaimHonoured
<1>3. KeysInv
  <2>1. Access \subseteq User
    BY DEF User
  <2>2. \A a \in Access : KeyInv(a)
    BY DEF Init, KeyInv, NewAccess, IdleWorker, InHand, Dropping, Ensuring
  <2>3. \A a \in Access : LiveKeys(a)
    BY <2>1 DEF Init, LiveKeys, NewAccess, IdleWorker, InHand
  <2> QED BY <2>2, <2>3 DEF KeysInv
<1>4. PolicyInv
  BY DEF Init, PolicyInv, OneBusy, ReadInv, Writing, StatementInv, NewAccess, IdleWorker
<1> QED BY <1>1, <1>2, <1>3, <1>4 DEF CephInv

\* Every step keeps it.
LEMMA CephInvStep == CephInv /\ [Next]_vars => CephInv'
<1> SUFFICES ASSUME CephInv, [Next]_vars PROVE CephInv'
  OBVIOUS
<1>1. CephTypes /\ TypeOK /\ OwnerInv /\ \A a \in Access : KeyInv(a) /\ LiveKeys(a)
  BY DEF CephInv, CephTypes, KeysInv
<1>2. CephTypes'
  BY <1>1, TypeStep
<1>3. OwnerInv'
  BY <1>1, OwnerInvStep
<1>4. ASSUME NEW a \in Access PROVE KeyInv(a)' /\ LiveKeys(a)'
  BY <1>1, KeyInvStep, LiveKeysStep
<1> QED BY <1>2, <1>3, <1>4 DEF CephInv, KeysInv

\* And with one worker, the policy.
LEMMA PolicyInvStep ==
    ASSUME Worker = 1
    PROVE  CephInv /\ PolicyInv /\ [Next]_vars => PolicyInv'
<1> SUFFICES ASSUME CephInv, PolicyInv, [Next]_vars PROVE PolicyInv'
  OBVIOUS
<1>1. CephTypes /\ OwnerInv /\ OneBusy /\ \A a \in Access : KeyInv(a)
  BY DEF CephInv, PolicyInv, KeysInv
<1>2. OneBusy'
  BY <1>1, OneBusyStep
<1>3. ASSUME NEW a \in Access PROVE ReadInv(a)' /\ StatementInv(a)'
  BY <1>1, ReadInvStep, StatementInvStep
<1> QED BY <1>2, <1>3 DEF PolicyInv

\* Types, whatever is rotated, deleted, lost or restarted.
THEOREM CephTypeCorrect == Spec => []TypeOK
<1>1. CephInv => TypeOK
  BY DEF CephInv, CephTypes
<1> QED BY InitInv, CephInvStep, <1>1, PTL DEF Spec

\* The reclaim policy decides over the bucket and its owner (buckets.go DeleteBucket),
\* for any number of accesses, restarts and lost Secrets.
THEOREM CephReclaim == Spec => []ReclaimHonoured
<1>1. CephInv => ReclaimHonoured
  BY DEF CephInv, OwnerInv
<1> QED BY InitInv, CephInvStep, <1>1, PTL DEF Spec

\* The key of a Ready access is the one RGW accepts, however rotations are cut short,
\* as long as Rook issues no key just when the user is deleted again (access.go
\* EnsureAccess), for any number of workers.
THEOREM CephReadyHasKey == Spec => [](Kept("keys") => ReadyHasKey)
<1>1. CephInv => (Kept("keys") => ReadyHasKey)
  <2> SUFFICES ASSUME CephInv, Kept("keys"), NEW a \in Access, Serving(a)
               PROVE  access[a].cred = rgw[a] /\ rook[a] = "live"
    BY DEF ReadyHasKey
  <2>1. KeyInv(a) /\ LiveKeys(a)
    BY DEF CephInv, KeysInv
  <2> QED BY <2>1 DEF Serving, KeyInv, LiveKeys, Live
<1> QED BY InitInv, CephInvStep, <1>1, PTL DEF Spec

\* A rotation that is reported done handed out another key (access.go EnsureAccess,
\* mintFresh), for every history of restarts and lost Secrets in which no reconcile has
\* read a status that had been written over.
THEOREM CephRotations == Spec => RotationChangesKey
<1> DEFINE Rotated == \A a \in Access :
                        access'[a].obs > access[a].obs /\ access[a].rec # NoKey /\ Kept("fresh")
                        => access'[a].cred # access[a].cred
<1>1. ASSUME CephInv, [Next]_vars PROVE [Rotated]_vars
  <2> SUFFICES ASSUME NEW a \in Access, access'[a].obs > access[a].obs, access[a].rec # NoKey,
                      Kept("fresh")
               PROVE  access'[a].cred # access[a].cred
    OBVIOUS
  <2>1. TypeOK /\ CephTypes /\ KeyInv(a) /\ access[a].obs \in Nat /\ access[a].rec = access[a].cred
    BY <1>1 DEF CephInv, CephTypes, KeysInv, TypeOK, AccessObject, KeyInv
  <2>2. access'[a].obs # access[a].obs
    BY <2>1
  <2>3. CASE Record(a)
    <3>1. access'[a].cred = aw[a].key /\ access'[a].obs = aw[a].rot
      BY <2>1, <2>3, EnsureFields
    <3>2. aw[a].pc = "record"
      BY <2>3 DEF Record
    <3> QED BY <2>1, <2>2, <3>1, <3>2 DEF KeyInv, InHand
  <2>4. CASE AccessStep(a) /\ ~Record(a)
    <3>1. CASE \/ TakeAccess(a) \/ DeleteForRotation(a) \/ CreateForRotation(a) \/ EnsureAccessUser(a)
               \/ ReadAccessKeys(a) \/ ReadPolicy(a) \/ WritePolicy(a)
      <4>1. access'[a].obs = access[a].obs
        BY <2>1, <3>1, EnsureFields DEF SameKeys, GoesOn, GivesUp
      <4> QED BY <2>2, <4>1
    <3>2. CASE BucketLost(a)
      <4>1. access'[a].cred = NoKey
        BY <2>1, <3>2, EnsureFields
      <4> QED BY <2>1, <4>1
    <3>3. CASE DeleteAccess(a) \/ ReadToDrop(a) \/ WriteDrop(a) \/ DropUser(a) \/ ReleaseAccess(a)
      <4>1. access'[a] = access[a] \/ access'[a].obs = 0
        BY <2>1, <3>3, DeleteFields DEF NewAccess
      <4> QED BY <2>1, <2>2, <4>1
    <3> QED BY <2>4, <3>1, <3>2, <3>3 DEF AccessStep
  <2>5. ASSUME NEW b \in Access, AccessStep(b), b # a PROVE FALSE
    BY <2>1, <2>2, <2>5, OtherAccess
  <2>6. ASSUME NEW b \in Access, Touches(b) PROVE FALSE
    BY <2>1, <2>2, <2>6, TouchedFields
  <2>7. CASE Stop
    BY <2>1, <2>2, <2>7, StopFields
  <2>8. CASE UNCHANGED <<access, aw>>
    BY <2>2, <2>8
  <2> QED BY <1>1, <2>3, <2>4, <2>5, <2>6, <2>7, <2>8, Elsewhere
<1> QED BY InitInv, CephInvStep, <1>1, PTL DEF Spec, RotationChangesKey

\* With one access reconciled at a time, as the controller does, a Ready access has a
\* live key and a statement in the bucket policy (access.go EnsureAccess,
\* updateBucketPolicy).
THEOREM CephReady ==
    ASSUME Worker = 1
    PROVE  Spec => []ReadyWorks
<1>1. CephInv /\ PolicyInv => ReadyWorks
  <2> SUFFICES ASSUME CephInv, PolicyInv, NEW a \in Access, Serving(a)
               PROVE  /\ Kept("keys") => access[a].cred = rgw[a] /\ rook[a] = "live"
                      /\ policy.stmt[a] # NoStmt
    BY DEF ReadyWorks, ReadyHasKey
  <2>1. KeyInv(a) /\ LiveKeys(a) /\ StatementInv(a)
    BY DEF CephInv, KeysInv, PolicyInv
  <2> QED BY <2>1 DEF Serving, KeyInv, LiveKeys, Live, StatementInv
<1>2. CephInv /\ PolicyInv /\ [Next]_vars => (CephInv /\ PolicyInv)'
  BY CephInvStep, PolicyInvStep
<1> QED BY InitInv, <1>1, <1>2, PTL DEF Spec

\* With one access reconciled at a time, a released access has left no statement and no
\* user behind, unless the owner's keys could not be read (access.go DeleteAccess).
THEOREM CephRevoked ==
    ASSUME Worker = 1
    PROVE  Spec => []RevokedLeavesNothing
<1>1. CephInv /\ PolicyInv => RevokedLeavesNothing
  BY DEF PolicyInv, StatementInv, RevokedLeavesNothing
<1>2. CephInv /\ PolicyInv /\ [Next]_vars => (CephInv /\ PolicyInv)'
  BY CephInvStep, PolicyInvStep
<1> QED BY InitInv, <1>1, <1>2, PTL DEF Spec

\* With one access reconciled at a time, a policy update keeps what it does not own
\* (access.go updateBucketPolicy).
THEOREM CephOthersKept ==
    ASSUME Worker = 1
    PROVE  Spec => OthersKept
<1> DEFINE Others == \A a \in Access :
                       /\ aw[a].pc \in {"writePolicy", "writeDrop"} /\ aw'[a] # aw[a]
                       /\ Kept("statements")
                       => /\ \A b \in Access \ {a} : policy'.stmt[b] = policy.stmt[b]
                          /\ parsePolicy(policy').foreign = parsePolicy(policy).foreign
<1>1. ASSUME CephInv, PolicyInv, [Next]_vars PROVE [Others]_vars
  <2> SUFFICES ASSUME NEW a \in Access, aw[a].pc \in {"writePolicy", "writeDrop"}, aw'[a] # aw[a],
                      Kept("statements")
               PROVE  /\ \A b \in Access \ {a} : policy'.stmt[b] = policy.stmt[b]
                      /\ parsePolicy(policy').foreign = parsePolicy(policy).foreign
    OBVIOUS
  <2>1. TypeOK /\ CephTypes /\ ReadInv(a)
    BY <1>1 DEF CephInv, CephTypes, PolicyInv
  <2>2. CASE AccessStep(a)
    <3>1. WritePolicy(a) \/ WriteDrop(a)
      BY <2>2 DEF AccessStep, TakeAccess, DeleteForRotation, CreateForRotation, EnsureAccessUser,
         ReadAccessKeys, ReadPolicy, Record, BucketLost, DeleteAccess, ReadToDrop, DropUser, ReleaseAccess
    <3> QED BY <2>1, <3>1, Update
  <2>3. ASSUME NEW b \in Access, AccessStep(b), b # a PROVE FALSE
    BY <2>1, <2>3, OtherAccess
  <2>4. ASSUME NEW b \in Access, Touches(b) PROVE FALSE
    BY <2>1, <2>4, TouchedFields
  <2>5. CASE Stop
    BY <2>1, <2>5, StopFields
  <2> QED BY <1>1, <2>2, <2>3, <2>4, <2>5, Elsewhere
<1>2. CephInv /\ PolicyInv /\ [Next]_vars => (CephInv /\ PolicyInv)'
  BY CephInvStep, PolicyInvStep
<1> QED BY InitInv, <1>1, <1>2, PTL DEF Spec, OthersKept

=============================================================================
