---------------------------- MODULE EscrowProofs ----------------------------
(***************************************************************************)
(* Theorems about EscrowController, for every value of its constants.  The *)
(* history of EscrowHistory is used only for ReplacedAtMostOnceTooOften.    *)
(***************************************************************************)
EXTENDS EscrowHistory, TLAPS

(***************************************************************************)
(* What the worker holds refers to what Key Manager Plus stores.  The pair *)
(* in a Secret is the one the last clause of AttemptRefers describes, so   *)
(* neither PairConsistent nor TypeOK is inductive alone.                   *)
(***************************************************************************)
AttemptRefers ==
    /\ pc = "resolve" => att.csr \in 0..Len(csrs)
    /\ pc \in {"sign", "fetch", "export", "write"} => att.csr \in 1..Len(csrs)
    /\ pc = "export" => att.fetched \subseteq 1..Len(certs)
    /\ pc = "write" => att.leaf \in 1..Len(certs) /\ certs[att.leaf].csr = att.csr

SecretsRefer ==
    \A s \in SecretNames : holdsPair(secrets[s]) =>
        /\ secrets[s].leaf \in 1..Len(certs)
        /\ certs[secrets[s].leaf].csr = secrets[s].key

CachesRefer ==
    \A s \in SecretNames : holdsPair(cSecrets[s]) => cSecrets[s].leaf \in 1..Len(certs)

CertsRefer == \A n \in 1..Len(certs) : certs[n].csr \in 1..Len(csrs)

PairInv == TypeOK /\ AttemptRefers /\ SecretsRefer /\ CachesRefer /\ CertsRefer

-----------------------------------------------------------------------------
\* A condition update yields a status (setCondition).
LEMMA SetConditionType ==
    ASSUME NEW st \in StatusType, NEW g \in Nat,
           NEW ready \in {"Unknown", "True", "False"}, NEW reason \in Reasons
    PROVE  setCondition(st, g, ready, reason) \in StatusType
BY DEF setCondition, StatusType

\* The request of a spec asks for an identity (provisionRequest).
LEMMA RequestType ==
    ASSUME NEW sp \in Specs
    PROVE  provisionRequest(sp) \in Identities
BY DEF provisionRequest, Identity, Identities, AltNames

\* Whatever the CA's template does, the result is an identity.
LEMMA TemplateType ==
    ASSUME NEW id \in Identities, NEW t
    PROVE  CertifiedIdentity(id, t) \in Identities
BY DEF CertifiedIdentity, Identities

\* A failure ends the attempt with a status and a result (Reconcile).
LEMMA FailTypes ==
    ASSUME NEW e, NEW step \in Reasons, WorkerTypes, pc # "idle", Fail(e, step)
    PROVE  WorkerTypes' /\ AttemptRefers'
<1>1. snap.status \in StatusType /\ snap.generation \in Nat
  BY DEF WorkerTypes, ObjectType
<1>2. setCondition(snap.status, snap.generation, "False", step) \in StatusType
  BY <1>1, SetConditionType
<1>3. out' \in ResultType
  BY <1>2 DEF Fail, ResultType
<1> QED
  BY <1>3 DEF Fail, WorkerTypes, AttemptRefers

\* The step of one action to the next keeps what the worker holds.
LEMMA GoTypes ==
    ASSUME NEW step \in Steps \cup {"finish"}, WorkerTypes, pc # "idle", Go(step),
           att' \in AttemptType
    PROVE  WorkerTypes'
BY DEF Go, WorkerTypes, Steps

\* Storing a CSR: the log grows by one entry and keeps the others.
LEMMA StoreTypes ==
    ASSUME ServiceTypes, NEW id \in Identities, NEW password \in Int,
           NEW origin \in {"escrow", "created", "imported"}, StoreCSR(id, password, origin)
    PROVE  /\ ServiceTypes'
           /\ Len(csrs') = Len(csrs) + 1
           /\ \A i \in 1..Len(csrs) : csrs'[i] = csrs[i]
           /\ csrs'[Len(csrs) + 1] = [ id |-> id, password |-> password, origin |-> origin ]
<1> DEFINE c == [ id |-> id, password |-> password, origin |-> origin ]
<1>1. c \in CSRType
  BY DEF CSRType
<1>2. csrs \in Seq(CSRType) /\ csrs' = Append(csrs, c)
  BY DEF ServiceTypes, StoreCSR
<1> HIDE DEF c
<1>3. /\ csrs' \in Seq(CSRType) /\ Len(csrs') = Len(csrs) + 1
      /\ \A i \in 1..Len(csrs) : csrs'[i] = csrs[i]
      /\ csrs'[Len(csrs) + 1] = c
  BY <1>1, <1>2
<1>4. Len(csrs) \in Nat
  BY <1>2
<1>5. listed' \subseteq 1..Len(csrs')
  <2>1. listed \subseteq 1..Len(csrs)
    BY DEF ServiceTypes
  <2>2. listed' \subseteq listed \cup {Len(csrs) + 1}
    BY DEF StoreCSR
  <2>3. Len(csrs) \in Nat /\ Len(csrs') = Len(csrs) + 1
    BY <1>3, <1>4
  <2>4. 1..Len(csrs) \cup {Len(csrs) + 1} \subseteq 1..Len(csrs')
    BY <2>3
  <2> QED
    BY <2>1, <2>2, <2>4, Zenon
<1>6. ServiceTypes'
  BY <1>3, <1>5 DEF ServiceTypes, StoreCSR
<1> QED
  BY <1>3, <1>6 DEF c

\* Issuing a certificate: likewise.
LEMMA IssueTypes ==
    ASSUME ServiceTypes, now \in Nat, NEW csr \in 1..Len(csrs), NEW t, Issue(csr, t)
    PROVE  /\ ServiceTypes'
           /\ Len(certs') = Len(certs) + 1
           /\ \A n \in 1..Len(certs) : certs'[n] = certs[n]
           /\ certs'[Len(certs) + 1].csr = csr
           /\ UNCHANGED csrs
<1> DEFINE c == [ csr |-> csr, id |-> CertifiedIdentity(csrs[csr].id, t),
                  notBefore |-> now, notAfter |-> now + Lifetime ]
<1>0. csrs \in Seq(CSRType) /\ certs \in Seq(CertType) /\ Len(csrs) \in Nat /\ Len(certs) \in Nat
  BY DEF ServiceTypes
<1>1. csrs[csr].id \in Identities
  <2>1. csrs[csr] \in CSRType
    BY <1>0
  <2> QED
    BY <2>1 DEF CSRType
<1>2. CertifiedIdentity(csrs[csr].id, t) \in Identities
  BY <1>1, TemplateType
<1>3. c \in CertType
  BY <1>0, <1>2, LifetimeAssumption DEF CertType, IDs
<1>4. certs' = Append(certs, c) /\ UNCHANGED csrs
  BY DEF Issue
<1>c. c.csr = csr
  OBVIOUS
<1> HIDE DEF c
<1>5. /\ certs' \in Seq(CertType) /\ Len(certs') = Len(certs) + 1
      /\ \A n \in 1..Len(certs) : certs'[n] = certs[n]
      /\ certs'[Len(certs) + 1] = c
  BY <1>0, <1>3, <1>4
<1>6. published' \subseteq 1..Len(certs')
  <2>1. published \subseteq 1..Len(certs)
    BY DEF ServiceTypes
  <2>2. published' \subseteq published \cup {Len(certs) + 1}
    BY DEF Issue
  <2>3. Len(certs) \in Nat /\ Len(certs') = Len(certs) + 1
    BY <1>0, <1>5
  <2>4. 1..Len(certs) \cup {Len(certs) + 1} \subseteq 1..Len(certs')
    BY <2>3
  <2> QED
    BY <2>1, <2>2, <2>4, Zenon
<1>7. ServiceTypes'
  BY <1>4, <1>5, <1>6 DEF ServiceTypes, Issue
<1> QED
  BY <1>4, <1>5, <1>7, <1>c

-----------------------------------------------------------------------------
(***************************************************************************)
(* The logs of Key Manager Plus only grow, so what refers to them goes on  *)
(* doing so.                                                               *)
(***************************************************************************)
LogsGrow ==
    /\ Len(csrs') \in Nat /\ Len(csrs) <= Len(csrs')
    /\ Len(certs') \in Nat /\ Len(certs) <= Len(certs')
    /\ \A i \in 1..Len(csrs) : csrs'[i] = csrs[i]
    /\ \A n \in 1..Len(certs) : certs'[n] = certs[n]

\* The logs have lengths.
LEMMA LogLengths ==
    ASSUME ServiceTypes
    PROVE  Len(csrs) \in Nat /\ Len(certs) \in Nat
BY DEF ServiceTypes

\* A step without a call that changes Key Manager Plus keeps its logs.
LEMMA SameLogs ==
    ASSUME PairInv, UNCHANGED kmp
    PROVE  LogsGrow /\ ServiceTypes' /\ CertsRefer'
<1>1. Len(csrs) \in Nat /\ Len(certs) \in Nat
  BY LogLengths DEF PairInv, TypeOK
<1> QED
  BY <1>1 DEF PairInv, TypeOK, ServiceTypes, CertsRefer, LogsGrow, kmp

\* createCSR, or another user's request, adds one record (StoreCSR).
LEMMA StoredLogs ==
    ASSUME PairInv, NEW id \in Identities, NEW password \in Int,
           NEW origin \in {"escrow", "created", "imported"}, StoreCSR(id, password, origin)
    PROVE  /\ LogsGrow /\ ServiceTypes' /\ CertsRefer'
           /\ Len(csrs') = Len(csrs) + 1
<1>0. ServiceTypes /\ Len(csrs) \in Nat /\ Len(certs) \in Nat
  BY LogLengths DEF PairInv, TypeOK
<1>1. /\ ServiceTypes' /\ Len(csrs') = Len(csrs) + 1
      /\ \A i \in 1..Len(csrs) : csrs'[i] = csrs[i]
  BY <1>0, StoreTypes
<1>2. certs' = certs
  BY DEF StoreCSR
<1>3. LogsGrow
  BY <1>0, <1>1, <1>2 DEF LogsGrow
<1>4. CertsRefer'
  BY <1>0, <1>1, <1>2 DEF PairInv, CertsRefer
<1> QED
  BY <1>1, <1>3, <1>4

\* signCSR, or another user's signing, adds one certificate (Issue).
LEMMA IssuedLogs ==
    ASSUME PairInv, NEW csr \in 1..Len(csrs), NEW t, Issue(csr, t)
    PROVE  /\ LogsGrow /\ ServiceTypes' /\ CertsRefer'
           /\ Len(certs') = Len(certs) + 1
<1>0. ServiceTypes /\ now \in Nat /\ Len(csrs) \in Nat /\ Len(certs) \in Nat
  BY LogLengths DEF PairInv, TypeOK, RestTypes
<1>1. /\ ServiceTypes' /\ Len(certs') = Len(certs) + 1
      /\ \A n \in 1..Len(certs) : certs'[n] = certs[n]
      /\ certs'[Len(certs) + 1].csr = csr
      /\ csrs' = csrs
  BY <1>0, IssueTypes
<1>2. LogsGrow
  BY <1>0, <1>1 DEF LogsGrow
<1>3. CertsRefer'
  BY <1>0, <1>1 DEF PairInv, CertsRefer
<1> QED
  BY <1>1, <1>2, <1>3

\* The pair in a Secret stays a pair while the Secrets do not change.
LEMMA SecretsStillRefer ==
    ASSUME PairInv, LogsGrow, UNCHANGED secrets
    PROVE  SecretsRefer'
<1> SUFFICES ASSUME NEW s \in SecretNames, holdsPair(secrets[s])
             PROVE  /\ secrets[s].leaf \in 1..Len(certs')
                    /\ certs'[secrets[s].leaf].csr = secrets[s].key
  BY DEF SecretsRefer, holdsPair
<1>1. /\ secrets[s].leaf \in 1..Len(certs)
      /\ certs[secrets[s].leaf].csr = secrets[s].key
  BY DEF PairInv, SecretsRefer
<1>2. Len(certs) \in Nat
  BY LogLengths DEF PairInv, TypeOK
<1> QED
  BY <1>1, <1>2 DEF LogsGrow

\* The informer cache of the Secrets goes on naming certificates that exist.
LEMMA CachesStillRefer ==
    ASSUME PairInv, LogsGrow, UNCHANGED cSecrets
    PROVE  CachesRefer'
<1>1. Len(certs) \in Nat
  BY LogLengths DEF PairInv, TypeOK
<1>2. CachesRefer
  BY DEF PairInv
<1> QED
  BY <1>1, <1>2 DEF CachesRefer, LogsGrow, holdsPair

\* What Provision holds between two calls is not invalidated by anyone else.
LEMMA AttemptStillRefers ==
    ASSUME PairInv, LogsGrow, UNCHANGED <<pc, att>>
    PROVE  AttemptRefers'
<1>1. Len(csrs) \in Nat /\ Len(certs) \in Nat
  BY LogLengths DEF PairInv, TypeOK
<1>2. AttemptRefers
  BY DEF PairInv
<1>3. pc = "resolve" => att.csr \in 0..Len(csrs')
  BY <1>1, <1>2 DEF AttemptRefers, LogsGrow
<1>4. pc \in {"sign", "fetch", "export", "write"} => att.csr \in 1..Len(csrs')
  BY <1>1, <1>2 DEF AttemptRefers, LogsGrow
<1>5. pc = "export" => att.fetched \subseteq 1..Len(certs')
  BY <1>1, <1>2 DEF AttemptRefers, LogsGrow
<1>6. pc = "write" => att.leaf \in 1..Len(certs') /\ certs'[att.leaf].csr = att.csr
  BY <1>1, <1>2 DEF AttemptRefers, LogsGrow
<1> QED
  BY <1>3, <1>4, <1>5, <1>6 DEF AttemptRefers

-----------------------------------------------------------------------------
(***************************************************************************)
(* One lemma per action: it preserves PairInv.                             *)
(***************************************************************************)
\* A renewal time is an instant, and the wait for it at least one tick (until).
LEMMA WaitType ==
    ASSUME ServiceTypes, now \in Nat, NEW leaf \in 1..Len(certs), NEW rb \in Nat
    PROVE  until(renewalTime(certs[leaf], rb)) \in Int /\ until(renewalTime(certs[leaf], rb)) > 0
<1>1. certs[leaf] \in CertType
  BY DEF ServiceTypes
<1>2. certs[leaf].notAfter \in Int /\ certs[leaf].notBefore \in Int
  BY <1>1 DEF CertType
<1>3. renewalTime(certs[leaf], rb) \in Int
  BY <1>2 DEF renewalTime
<1> QED
  BY <1>3 DEF until

\* Reconcile up to the decision to issue (kmpcertificate_controller.go:92-121).
LEMMA ReconcileInv ==
    ASSUME PairInv, NEW o \in Objects,
           ReconcileGone(o) \/ ReconcileCurrent(o) \/ ReconcileDue(o)
    PROVE  PairInv'
<1>1. /\ UNCHANGED <<obj, secrets, cObj, cSecrets, timer, env, kmp, now, faults, crashes>>
      /\ queue' = queue \ {o}
  BY DEF ReconcileGone, ReconcileCurrent, ReconcileDue, Take, api, caches, budget
<1>2. LogsGrow /\ ServiceTypes' /\ CertsRefer'
  BY <1>1, SameLogs
<1>3. SecretsRefer' /\ CachesRefer'
  BY <1>1, <1>2, SecretsStillRefer, CachesStillRefer
<1>4. APITypes' /\ CacheTypes' /\ QueueTypes' /\ RestTypes'
  BY <1>1 DEF PairInv, TypeOK, APITypes, CacheTypes, QueueTypes, RestTypes
<1>5. WorkerTypes' /\ AttemptRefers'
  <2>0. WorkerTypes /\ AttemptRefers /\ cObj[o] \in ObjectType \cup {Absent}
    BY DEF PairInv, TypeOK, CacheTypes
  <2>1. CASE ReconcileGone(o)
    <3>1. UNCHANGED <<pc, cur, snap, att, out>>
      BY <2>1 DEF ReconcileGone, worker
    <3>2. WorkerTypes'
      BY <2>0, <3>1 DEF WorkerTypes
    <3> QED
      BY <1>2, <3>1, <3>2, AttemptStillRefers
  <2>2. CASE ReconcileCurrent(o)
    <3> DEFINE sp == cObj[o].spec
               secret == cSecrets[sp.secret]
    <3>1. cObj[o] \in ObjectType
      BY <2>0, <2>2 DEF ReconcileCurrent
    <3>2. /\ sp \in Specs /\ cObj[o].status \in StatusType /\ cObj[o].generation \in Nat
      BY <3>1 DEF ObjectType
    <3>3. sp.secret \in SecretNames /\ sp.renewBefore \in Nat
      BY <3>2, SpecsAssumption
    <3>4. holdsPair(secret)
      BY <2>2 DEF ReconcileCurrent, issuanceNeeded
    <3>5. secret.leaf \in 1..Len(certs)
      BY <3>3, <3>4 DEF PairInv, CachesRefer
    <3>6. until(renewalTime(certs[secret.leaf], sp.renewBefore)) \in Int
      BY <3>3, <3>5, WaitType DEF PairInv, TypeOK, RestTypes
    <3>7. setCondition(cObj[o].status, cObj[o].generation, "True", "holds") \in StatusType
      BY <3>2, SetConditionType DEF Reasons
    <3>8. out' \in ResultType
      BY <2>2, <3>6, <3>7 DEF ReconcileCurrent, ResultType
    <3> QED
      BY <2>0, <2>2, <3>1, <3>8 DEF ReconcileCurrent, WorkerTypes, AttemptRefers
  <2>3. CASE ReconcileDue(o)
    BY <2>0, <2>3 DEF ReconcileDue, WorkerTypes, AttemptRefers
  <2> QED
    BY <2>1, <2>2, <2>3
<1> QED
  BY <1>2, <1>3, <1>4, <1>5 DEF PairInv, TypeOK

\* The steps that leave the API server, the caches and the queue alone.
LEMMA ElsewhereTypes ==
    ASSUME PairInv, Elsewhere, faults' \in Nat
    PROVE  /\ APITypes' /\ CacheTypes' /\ QueueTypes' /\ RestTypes'
           /\ UNCHANGED <<secrets, cSecrets>>
BY DEF PairInv, TypeOK, Elsewhere, api, caches, APITypes, CacheTypes, QueueTypes, RestTypes

\* The number of faults stays a number.
LEMMA AnsweredType ==
    ASSUME PairInv, NEW e, Answered(e)
    PROVE  faults' \in Nat
BY DEF PairInv, TypeOK, RestTypes, Answered

\* What is left to show of a step that only talks to Key Manager Plus.
LEMMA CallInv ==
    ASSUME PairInv, Elsewhere, faults' \in Nat, LogsGrow, ServiceTypes', CertsRefer',
           WorkerTypes', AttemptRefers'
    PROVE  PairInv'
<1>1. /\ APITypes' /\ CacheTypes' /\ QueueTypes' /\ RestTypes'
      /\ UNCHANGED <<secrets, cSecrets>>
  BY ElsewhereTypes
<1>2. SecretsRefer' /\ CachesRefer'
  BY <1>1, SecretsStillRefer, CachesStillRefer
<1> QED
  BY <1>1, <1>2 DEF PairInv, TypeOK

\* The issuer, its Secret, the password and the client (issue).
LEMMA PrepareInv ==
    ASSUME PairInv, Prepare
    PROVE  PairInv'
<1>0. WorkerTypes /\ pc # "idle" /\ Elsewhere /\ UNCHANGED <<kmp, faults>>
  BY DEF PairInv, TypeOK, Prepare
<1>1. LogsGrow /\ ServiceTypes' /\ CertsRefer'
  BY <1>0, SameLogs
<1>2. faults' \in Nat
  BY <1>0 DEF PairInv, TypeOK, RestTypes
<1>3. WorkerTypes' /\ AttemptRefers'
  <2>1. CASE Go("create") /\ UNCHANGED att
    BY <1>0, <2>1 DEF Go, WorkerTypes, Steps, AttemptRefers
  <2>2. CASE Fail(prepareError(snap.spec), "prepare")
    BY <1>0, <2>2, FailTypes DEF Reasons
  <2> QED
    BY <2>1, <2>2 DEF Prepare
<1> QED
  BY <1>0, <1>1, <1>2, <1>3, CallInv

\* createCSR: the id it reports, if any, is that of the record just stored.
LEMMA CreateCSRInv ==
    ASSUME PairInv, CreateCSR
    PROVE  PairInv'
<1>0. WorkerTypes /\ ServiceTypes /\ pc = "create" /\ Elsewhere
  BY DEF PairInv, TypeOK, CreateCSR
<1>1. Len(csrs) \in Nat
  BY <1>0, LogLengths
<1>2. snap.spec \in Specs
  BY <1>0 DEF WorkerTypes, ObjectType
<1> DEFINE password == IF snap.spec.password = "generated" THEN FreshPassword ELSE UserPassword
<1>3. password \in Int
  BY <1>1 DEF FreshPassword, UserPassword
<1>4. provisionRequest(snap.spec) \in Identities
  BY <1>2, RequestType
<1>5. PICK r \in Replies, stored \in Bool :
        /\ call(r) = Nil => stored
        /\ Answered(call(r))
        /\ IF stored
           THEN StoreCSR(provisionRequest(snap.spec), password, "escrow")
           ELSE UNCHANGED kmp
        /\ IF call(r) = Nil
           THEN /\ att' = [ att EXCEPT !.password = password,
                                       !.csr = IF ReportsID THEN Len(csrs) + 1 ELSE NoID ]
                /\ Go("resolve")
           ELSE Fail(call(r), "create")
  BY DEF CreateCSR
<1> HIDE DEF password
<1>6. faults' \in Nat
  BY <1>5, AnsweredType
<1>7. LogsGrow /\ ServiceTypes' /\ CertsRefer' /\ (stored => Len(csrs') = Len(csrs) + 1)
  <2>1. CASE stored
    <3>1. StoreCSR(provisionRequest(snap.spec), password, "escrow")
      BY <1>5, <2>1
    <3> QED
      BY <1>3, <1>4, <3>1, StoredLogs
  <2>2. CASE ~stored
    BY <1>5, <2>2, SameLogs
  <2> QED
    BY <2>1, <2>2
<1>8. WorkerTypes' /\ AttemptRefers'
  <2>1. CASE call(r) = Nil
    <3>1. /\ att' = [ att EXCEPT !.password = password,
                                 !.csr = IF ReportsID THEN Len(csrs) + 1 ELSE NoID ]
          /\ Go("resolve") /\ stored
      BY <1>5, <2>1
    <3>2. att' \in AttemptType /\ att'.csr \in 0..(Len(csrs) + 1)
      <4> DEFINE i == IF ReportsID THEN Len(csrs) + 1 ELSE NoID
      <4>1. i \in IDs /\ i \in 0..(Len(csrs) + 1)
        BY <1>1 DEF IDs, NoID
      <4>2. att' = [ att EXCEPT !.password = password, !.csr = i ]
        BY <3>1
      <4> HIDE DEF i
      <4> QED
        BY <1>0, <1>3, <4>1, <4>2 DEF WorkerTypes, AttemptType
    <3>3. WorkerTypes'
      BY <1>0, <3>1, <3>2, GoTypes DEF Steps
    <3>4. att'.csr \in 0..Len(csrs') /\ pc' = "resolve"
      BY <1>7, <3>1, <3>2 DEF Go
    <3> QED
      BY <3>3, <3>4 DEF AttemptRefers
  <2>2. CASE call(r) # Nil
    <3>1. Fail(call(r), "create")
      BY <1>5, <2>2
    <3> QED
      BY <1>0, <3>1, FailTypes DEF Reasons, Steps
  <2> QED
    BY <2>1, <2>2
<1> QED
  BY <1>0, <1>6, <1>7, <1>8, CallInv

\* createCSR refused at the bound of the store.
LEMMA StoreFullInv ==
    ASSUME PairInv, StoreFull
    PROVE  PairInv'
<1>0. WorkerTypes /\ pc # "idle" /\ Elsewhere /\ UNCHANGED <<kmp, faults>>
  BY DEF PairInv, TypeOK, StoreFull
<1>1. LogsGrow /\ ServiceTypes' /\ CertsRefer'
  BY <1>0, SameLogs
<1>2. faults' \in Nat
  BY <1>0 DEF PairInv, TypeOK, RestTypes
<1>3. Fail(call([ Success EXCEPT !.code = 503 ]), "create")
  BY DEF StoreFull
<1>4. WorkerTypes' /\ AttemptRefers'
  BY <1>0, <1>3, FailTypes DEF Reasons, Steps
<1> QED
  BY <1>0, <1>1, <1>2, <1>4, CallInv

\* resolveCSRID: whichever id is found, it names a record.
LEMMA ResolveInv ==
    ASSUME PairInv, ResolveCSRID
    PROVE  PairInv'
<1>0. WorkerTypes /\ AttemptRefers /\ ServiceTypes /\ pc = "resolve" /\ Elsewhere /\ UNCHANGED kmp
  BY DEF PairInv, TypeOK, ResolveCSRID
<1>1. LogsGrow /\ ServiceTypes' /\ CertsRefer' /\ Len(csrs) \in Nat /\ csrs' = csrs
  BY <1>0, SameLogs, LogLengths DEF kmp
<1> DEFINE found == ListedFor(csrs, listed, snap.spec.commonName)
<1>2. found \subseteq 1..Len(csrs)
  BY <1>0 DEF ServiceTypes, ListedFor
<1> HIDE DEF found
<1>3. CASE att.csr # NoID /\ Go("sign") /\ UNCHANGED <<att, faults>>
  <2>1. att.csr \in 1..Len(csrs) /\ pc' = "sign" /\ att' = att
    BY <1>0, <1>1, <1>3 DEF AttemptRefers, NoID, Go
  <2>2. att' \in AttemptType
    BY <1>0, <2>1 DEF WorkerTypes
  <2>3. WorkerTypes'
    BY <1>0, <1>3, <2>2, GoTypes DEF Steps
  <2>4. AttemptRefers'
    BY <1>1, <2>1 DEF AttemptRefers
  <2>5. faults' \in Nat
    BY <1>3 DEF PairInv, TypeOK, RestTypes
  <2> QED
    BY <1>0, <1>1, <2>3, <2>4, <2>5, CallInv
<1>4. CASE Fail(ErrInvalidConfig, "resolve") /\ UNCHANGED faults
  <2>1. WorkerTypes' /\ AttemptRefers'
    BY <1>0, <1>4, FailTypes DEF Reasons, Steps
  <2>2. faults' \in Nat
    BY <1>4 DEF PairInv, TypeOK, RestTypes
  <2> QED
    BY <1>0, <1>1, <2>1, <2>2, CallInv
<1>5. ASSUME NEW r, NEW e, Answered(FindCSRID(r)), Fail(e, "resolve")
      PROVE  PairInv'
  <2>1. WorkerTypes' /\ AttemptRefers'
    BY <1>0, <1>5, FailTypes DEF Reasons, Steps
  <2>2. faults' \in Nat
    BY <1>5, AnsweredType
  <2> QED
    BY <1>0, <1>1, <2>1, <2>2, CallInv
<1>6. ASSUME NEW r, NEW best \in found, Answered(FindCSRID(r)), Go("sign"),
             att' = [ att EXCEPT !.csr = best ]
      PROVE  PairInv'
  <2>1. best \in 1..Len(csrs)
    BY <1>2, <1>6
  <2>2. att' \in AttemptType /\ att'.csr = best
    BY <1>0, <1>1, <1>6, <2>1 DEF WorkerTypes, AttemptType, IDs
  <2>3. WorkerTypes'
    BY <1>0, <1>6, <2>2, GoTypes DEF Steps
  <2>4. AttemptRefers'
    BY <1>1, <1>6, <2>1, <2>2 DEF AttemptRefers, Go
  <2>5. faults' \in Nat
    BY <1>6, AnsweredType
  <2> QED
    BY <1>0, <1>1, <2>3, <2>4, <2>5, CallInv
<1> QED
  BY <1>3, <1>4, <1>5, <1>6 DEF ResolveCSRID, highestID, found

\* signCSR: the certificate issued is for the record that was resolved.
LEMMA SignInv ==
    ASSUME PairInv, SignStoredCSR
    PROVE  PairInv'
<1>0. WorkerTypes /\ AttemptRefers /\ ServiceTypes /\ pc = "sign" /\ Elsewhere
  BY DEF PairInv, TypeOK, SignStoredCSR
<1>1. Len(csrs) \in Nat /\ Len(certs) \in Nat /\ att.csr \in 1..Len(csrs)
  BY <1>0, LogLengths DEF AttemptRefers
<1>2. PICK r \in Replies, signed \in Bool, t \in TemplatesInUse :
        /\ Answered(SignCSR(r))
        /\ IF signed THEN Issue(att.csr, t) ELSE UNCHANGED kmp
        /\ IF SignCSR(r) = Nil
           THEN /\ att' = [ att EXCEPT !.serial = IF ReportsSerial THEN Len(certs) + 1 ELSE NoID ]
                /\ Go("fetch")
           ELSE Fail(SignCSR(r), "sign")
  BY DEF SignStoredCSR
<1>3. faults' \in Nat
  BY <1>2, AnsweredType
<1>4. LogsGrow /\ ServiceTypes' /\ CertsRefer'
  <2>1. CASE signed
    <3>1. Issue(att.csr, t)
      BY <1>2, <2>1
    <3> QED
      BY <1>1, <3>1, IssuedLogs
  <2>2. CASE ~signed
    BY <1>2, <2>2, SameLogs
  <2> QED
    BY <2>1, <2>2
<1>5. WorkerTypes' /\ AttemptRefers'
  <2>1. CASE SignCSR(r) = Nil
    <3> DEFINE n == IF ReportsSerial THEN Len(certs) + 1 ELSE NoID
    <3>1. n \in IDs
      BY <1>1 DEF IDs, NoID
    <3>2. att' = [ att EXCEPT !.serial = n ] /\ Go("fetch")
      BY <1>2, <2>1
    <3> HIDE DEF n
    <3>3. att' \in AttemptType /\ att'.csr = att.csr
      BY <1>0, <3>1, <3>2 DEF WorkerTypes, AttemptType
    <3>4. WorkerTypes'
      BY <1>0, <3>2, <3>3, GoTypes DEF Steps
    <3>5. att'.csr \in 1..Len(csrs') /\ pc' = "fetch"
      BY <1>1, <1>4, <3>2, <3>3 DEF LogsGrow, Go
    <3> QED
      BY <3>4, <3>5 DEF AttemptRefers
  <2>2. CASE SignCSR(r) # Nil
    <3>1. Fail(SignCSR(r), "sign")
      BY <1>2, <2>2
    <3> QED
      BY <1>0, <3>1, FailTypes DEF Reasons, Steps
  <2> QED
    BY <2>1, <2>2
<1> QED
  BY <1>0, <1>3, <1>4, <1>5, CallInv

\* fetchCertificate: what is returned has been issued.
LEMMA FetchInv ==
    ASSUME PairInv, FetchCertificate
    PROVE  PairInv'
<1>0. WorkerTypes /\ AttemptRefers /\ ServiceTypes /\ pc = "fetch" /\ Elsewhere /\ UNCHANGED kmp
  BY DEF PairInv, TypeOK, FetchCertificate
<1>1. LogsGrow /\ ServiceTypes' /\ CertsRefer' /\ Len(certs) \in Nat /\ csrs' = csrs /\ certs' = certs
  BY <1>0, SameLogs, LogLengths DEF kmp
<1> DEFINE candidates == PublishedFor(csrs, certs, published, snap.spec.commonName, att.serial)
<1>2. candidates \subseteq 1..Len(certs)
  BY <1>0 DEF ServiceTypes, PublishedFor
<1> HIDE DEF candidates
<1>3. ASSUME NEW e, NEW returned \in SUBSET candidates, Answered(e), Go("export"),
             att' = [ att EXCEPT !.fetched = returned ]
      PROVE  PairInv'
  <2>1. returned \subseteq 1..Len(certs) /\ returned \in SUBSET IDs
    BY <1>1, <1>2, <1>3 DEF IDs
  <2>2. att' \in AttemptType /\ att'.fetched = returned /\ att'.csr = att.csr
    BY <1>0, <1>3, <2>1 DEF WorkerTypes, AttemptType
  <2>3. WorkerTypes'
    BY <1>0, <1>3, <2>2, GoTypes DEF Steps
  <2>4. AttemptRefers'
    BY <1>0, <1>1, <1>3, <2>1, <2>2 DEF AttemptRefers, Go
  <2>5. faults' \in Nat
    BY <1>3, AnsweredType
  <2> QED
    BY <1>0, <1>1, <2>3, <2>4, <2>5, CallInv
<1>4. ASSUME NEW e, Answered(e), Go("fetch"), att' = [ att EXCEPT !.polls = @ + 1 ]
      PROVE  PairInv'
  <2>2. att' \in AttemptType /\ att'.csr = att.csr
    BY <1>0, <1>4 DEF WorkerTypes, AttemptType
  <2>3. WorkerTypes'
    BY <1>0, <1>4, <2>2, GoTypes DEF Steps
  <2>4. AttemptRefers'
    BY <1>0, <1>1, <1>4, <2>2 DEF AttemptRefers, Go
  <2>5. faults' \in Nat
    BY <1>4, AnsweredType
  <2> QED
    BY <1>0, <1>1, <2>3, <2>4, <2>5, CallInv
<1>5. ASSUME NEW e, Answered(e), Fail(e, "fetch")
      PROVE  PairInv'
  <2>1. WorkerTypes' /\ AttemptRefers'
    BY <1>0, <1>5, FailTypes DEF Reasons, Steps
  <2>2. faults' \in Nat
    BY <1>5, AnsweredType
  <2> QED
    BY <1>0, <1>1, <2>1, <2>2, CallInv
<1> QED
  BY <1>3, <1>4, <1>5 DEF FetchCertificate, candidates

\* Export, parse and findLeaf: the leaf is for the key that was exported.
LEMMA ExportInv ==
    ASSUME PairInv, ExportAndVerify
    PROVE  PairInv'
<1>0. WorkerTypes /\ AttemptRefers /\ ServiceTypes /\ pc = "export" /\ Elsewhere /\ UNCHANGED kmp
  BY DEF PairInv, TypeOK, ExportAndVerify
<1>1. LogsGrow /\ ServiceTypes' /\ CertsRefer' /\ Len(certs) \in Nat /\ csrs' = csrs /\ certs' = certs
  BY <1>0, SameLogs, LogLengths DEF kmp
<1>2. ASSUME NEW a, NEW e, NEW step \in Reasons, Answered(a), Fail(e, step)
      PROVE  PairInv'
  <2>1. WorkerTypes' /\ AttemptRefers'
    BY <1>0, <1>2, FailTypes
  <2>2. faults' \in Nat
    BY <1>2, AnsweredType
  <2> QED
    BY <1>0, <1>1, <2>1, <2>2, CallInv
<1>3. ASSUME NEW a, NEW leaf \in leavesFor(att.csr), Answered(a), Go("write"),
             att' = [ att EXCEPT !.leaf = leaf ]
      PROVE  PairInv'
  <2>1. leaf \in 1..Len(certs) /\ certs[leaf].csr = att.csr
    BY <1>0, <1>3 DEF leavesFor, AttemptRefers
  <2>2. att' \in AttemptType /\ att'.leaf = leaf /\ att'.csr = att.csr
    BY <1>0, <1>1, <1>3, <2>1 DEF WorkerTypes, AttemptType, IDs
  <2>3. WorkerTypes'
    BY <1>0, <1>3, <2>2, GoTypes DEF Steps
  <2>4. AttemptRefers'
    BY <1>0, <1>1, <1>3, <2>1, <2>2 DEF AttemptRefers, Go
  <2>5. faults' \in Nat
    BY <1>3, AnsweredType
  <2> QED
    BY <1>0, <1>1, <2>3, <2>4, <2>5, CallInv
<1>4. PICK r \in Replies :
        /\ Answered(exportError(r))
        /\ \/ Fail(exportError(r), "export")
           \/ Fail(ErrUnusableResponse, "export")
           \/ Fail(ErrUnusableResponse, "bundle")
           \/ \E leaf \in leavesFor(att.csr) :
               \/ Go("write") /\ att' = [ att EXCEPT !.leaf = leaf ]
               \/ Fail(ErrUnusableResponse, "names")
  BY DEF ExportAndVerify
<1>5. "export" \in Reasons /\ "bundle" \in Reasons /\ "names" \in Reasons
  BY DEF Reasons, Steps
<1> QED
  BY <1>2, <1>3, <1>4, <1>5

\* The Secret that is written holds the pair of the attempt.
LEMMA DesiredSecretType ==
    ASSUME PairInv, pc = "write", NEW cached \in SecretType \cup {Absent}
    PROVE  /\ desiredSecret(cached) \in SecretType
           /\ desiredSecret(cached).leaf = att.leaf
           /\ desiredSecret(cached).key = att.csr
           /\ desiredSecret(cached).owner = cur
<1>1. cur \in Objects /\ att \in AttemptType
  BY DEF PairInv, TypeOK, WorkerTypes
<1>2. att.leaf \in IDs /\ att.csr \in IDs /\ att.password \in Int
  BY <1>1 DEF AttemptType
<1> DEFINE p == IF snap.spec.password = "generated" THEN att.password
                ELSE IF cached = Absent THEN NoPassword ELSE cached.password
<1>3. p \in Int
  <2>1. cached # Absent => cached.password \in Int
    BY DEF SecretType
  <2>2. NoPassword \in Int
    BY DEF NoPassword
  <2> HIDE DEF NoPassword
  <2> QED
    BY <1>2, <2>1, <2>2
<1>4. desiredSecret(cached) = [ exists |-> TRUE, owner |-> cur, leaf |-> att.leaf,
                                key |-> att.csr, password |-> p ]
  BY DEF desiredSecret
<1> HIDE DEF p
<1> QED
  BY <1>1, <1>2, <1>3, <1>4 DEF SecretType

\* writeSecret: certificate and key of one attempt are written together.
LEMMA WriteInv ==
    ASSUME PairInv, WriteSecret
    PROVE  PairInv'
<1> DEFINE s == snap.spec.secret
<1>0. /\ WorkerTypes /\ AttemptRefers /\ ServiceTypes /\ APITypes /\ CacheTypes /\ pc = "write"
      /\ UNCHANGED <<obj, cObj, cSecrets, queue, timer, env, kmp, now, crashes>>
  BY DEF PairInv, TypeOK, WriteSecret, caches
<1>1. LogsGrow /\ ServiceTypes' /\ CertsRefer' /\ certs' = certs
  BY <1>0, SameLogs DEF kmp
<1>2. CachesRefer' /\ CacheTypes' /\ QueueTypes'
  BY <1>0, <1>1, CachesStillRefer DEF PairInv, TypeOK, CacheTypes, QueueTypes
<1>3. snap.spec \in Specs /\ snap.status \in StatusType /\ snap.generation \in Nat
  BY <1>0 DEF WorkerTypes, ObjectType
<1>4. s \in SecretNames /\ snap.spec.renewBefore \in Nat
  BY <1>3, SpecsAssumption
<1>5. cSecrets[s] \in SecretType \cup {Absent}
  BY <1>0, <1>4 DEF CacheTypes
<1>6. /\ desiredSecret(cSecrets[s]) \in SecretType
      /\ desiredSecret(cSecrets[s]).leaf = att.leaf
      /\ desiredSecret(cSecrets[s]).key = att.csr
  BY <1>0, <1>5, DesiredSecretType
<1>7. faults' \in Nat
  <2>1. UNCHANGED faults \/ Answered(OtherError)
    BY DEF WriteSecret
  <2> QED
    BY <2>1, AnsweredType DEF PairInv, TypeOK, RestTypes
<1>8. RestTypes'
  BY <1>0, <1>7 DEF PairInv, TypeOK, RestTypes
<1>9. APITypes' /\ SecretsRefer'
  <2>1. CASE UNCHANGED secrets
    BY <1>0, <1>1, <2>1, SecretsStillRefer DEF APITypes
  <2>2. CASE secrets' = [ secrets EXCEPT ![s] = desiredSecret(cSecrets[s]) ]
    <3>1. APITypes'
      BY <1>0, <1>4, <1>6, <2>2 DEF APITypes
    <3>2. att.leaf \in 1..Len(certs) /\ certs[att.leaf].csr = att.csr
      BY <1>0 DEF AttemptRefers
    <3>3. \A x \in SecretNames : secrets'[x] = IF x = s THEN desiredSecret(cSecrets[s]) ELSE secrets[x]
      BY <1>0, <2>2 DEF APITypes
    <3>4. SecretsRefer
      BY DEF PairInv
    <3>5. SecretsRefer'
      BY <1>1, <1>6, <3>2, <3>3, <3>4 DEF SecretsRefer, holdsPair
    <3> QED
      BY <3>1, <3>5
  <2> QED
    BY <2>1, <2>2 DEF WriteSecret
<1>10. WorkerTypes' /\ AttemptRefers'
  <2>1. CASE Fail(OtherError, "write")
    BY <1>0, <2>1, FailTypes DEF Reasons, Steps
  <2>2. CASE /\ pc' = "finish" /\ UNCHANGED <<cur, snap, att>>
             /\ out' = [ status |-> issuedStatus, result |-> "after",
                         wait |-> until(renewalTime(certs[att.leaf], snap.spec.renewBefore)) ]
    <3>1. until(renewalTime(certs[att.leaf], snap.spec.renewBefore)) \in Int
      BY <1>0, <1>4, WaitType DEF AttemptRefers, PairInv, TypeOK, RestTypes
    <3>2. setCondition(snap.status, snap.generation, "True", "issued") \in StatusType
      BY <1>3, SetConditionType DEF Reasons
    <3>3. issuedStatus \in StatusType
      BY <1>0, <3>2 DEF issuedStatus, StatusType, WorkerTypes, AttemptType
    <3>4. out' \in ResultType
      BY <2>2, <3>1, <3>3 DEF ResultType
    <3> QED
      BY <1>0, <2>2, <3>4 DEF WorkerTypes, AttemptRefers
  <2> QED
    BY <2>1, <2>2 DEF WriteSecret
<1> QED
  BY <1>1, <1>2, <1>8, <1>9, <1>10 DEF PairInv, TypeOK

\* The worker at rest.
LEMMA IdleTypes ==
    ASSUME pc' = "idle", cur' = NoObject, snap' = Absent, att' = NoAttempt, out' = NoResult
    PROVE  WorkerTypes' /\ AttemptRefers'
<1>1. NoAttempt \in AttemptType
  BY DEF NoAttempt, AttemptType, IDs, NoID, NoPassword
<1>2. NoResult \in ResultType
  BY DEF NoResult, ResultType, NoStatus, StatusType, Reasons, IDs, NoID
<1> QED
  BY <1>1, <1>2 DEF WorkerTypes, AttemptRefers

\* The deferred status update and the return of Reconcile.
LEMMA FinishInv ==
    ASSUME PairInv, Finish
    PROVE  PairInv'
<1>0. /\ WorkerTypes /\ APITypes /\ QueueTypes /\ RestTypes /\ pc = "finish"
      /\ UNCHANGED <<secrets, cObj, cSecrets, env, kmp, now, crashes>>
  BY DEF PairInv, TypeOK, Finish, caches
<1>1. LogsGrow /\ ServiceTypes' /\ CertsRefer'
  BY <1>0, SameLogs
<1>2. SecretsRefer' /\ CachesRefer' /\ CacheTypes'
  BY <1>0, <1>1, SecretsStillRefer, CachesStillRefer DEF PairInv, TypeOK, CacheTypes
<1>3. cur \in Objects /\ snap \in ObjectType /\ out.status \in StatusType /\ out.wait \in Int
  BY <1>0 DEF WorkerTypes, ResultType
<1>4. faults' \in Nat
  <2>1. UNCHANGED faults \/ Answered(OtherError)
    BY DEF Finish
  <2> QED
    BY <1>0, <2>1, AnsweredType DEF RestTypes
<1>5. RestTypes'
  BY <1>0, <1>4 DEF RestTypes
<1>6. APITypes'
  <2>1. \/ UNCHANGED obj
        \/ obj[cur] = snap /\ obj' = [ obj EXCEPT ![cur].status = out.status ]
    BY DEF Finish
  <2>2. CASE obj[cur] = snap /\ obj' = [ obj EXCEPT ![cur].status = out.status ]
    <3>1. [ obj[cur] EXCEPT !.status = out.status ] \in ObjectType
      BY <1>3, <2>2 DEF ObjectType
    <3> QED
      BY <1>0, <1>3, <2>2, <3>1 DEF APITypes
  <2> QED
    BY <1>0, <2>1, <2>2 DEF APITypes
<1>7. PICK result : Return(result)
  BY DEF Finish
<1>8. QueueTypes'
  <2>1. queue' \subseteq Objects
    BY <1>0, <1>3, <1>7 DEF Return, QueueTypes
  <2>2. timer' \in [ Objects -> Int ]
    <3>1. now + out.wait \in Int /\ timer[cur] \in Int
      BY <1>0, <1>3 DEF RestTypes, QueueTypes
    <3> QED
      BY <1>0, <1>3, <1>7, <3>1 DEF Return, QueueTypes
  <2> QED
    BY <2>1, <2>2 DEF QueueTypes
<1>9. WorkerTypes' /\ AttemptRefers'
  BY <1>7, IdleTypes DEF Return
<1> QED
  BY <1>1, <1>2, <1>5, <1>6, <1>8, <1>9 DEF PairInv, TypeOK

\* A crash loses the attempt; the caches are filled again from the API server.
LEMMA CrashInv ==
    ASSUME PairInv, Crash
    PROVE  PairInv'
<1>0. /\ UNCHANGED <<obj, secrets, env, kmp, now, faults>>
      /\ cObj' = obj /\ cSecrets' = secrets /\ queue' \subseteq Objects
      /\ timer' = [ o \in Objects |-> NoTimer ] /\ crashes' = crashes + 1
  BY DEF Crash, api
<1>1. LogsGrow /\ ServiceTypes' /\ CertsRefer' /\ certs' = certs
  BY <1>0, SameLogs DEF kmp
<1>2. SecretsRefer'
  BY <1>0, <1>1, SecretsStillRefer
<1>3. CachesRefer'
  BY <1>0, <1>1 DEF PairInv, SecretsRefer, CachesRefer, holdsPair
<1>4. APITypes' /\ CacheTypes' /\ QueueTypes' /\ RestTypes'
  BY <1>0 DEF PairInv, TypeOK, APITypes, CacheTypes, QueueTypes, RestTypes, NoTimer
<1>5. WorkerTypes' /\ AttemptRefers'
  BY IdleTypes DEF Crash
<1> QED
  BY <1>1, <1>2, <1>3, <1>4, <1>5 DEF PairInv, TypeOK

\* The worker does nothing and Key Manager Plus changes nothing it refers to.
LEMMA WorkerWaits ==
    ASSUME PairInv, LogsGrow, UNCHANGED worker
    PROVE  WorkerTypes' /\ AttemptRefers'
<1>1. UNCHANGED <<pc, cur, snap, att, out>>
  BY DEF worker
<1>2. AttemptRefers'
  BY <1>1, AttemptStillRefers
<1> QED
  BY <1>1, <1>2 DEF PairInv, TypeOK, WorkerTypes

\* Informer events and timers: the caches take over what the API server holds.
LEMMA InformersInv ==
    ASSUME PairInv, Informers
    PROVE  PairInv'
<1>0. UNCHANGED <<obj, secrets, worker, env, kmp, now, faults, crashes>>
  BY DEF Informers, SyncObject, SyncSecret, TimerFires, api, budget
<1>1. LogsGrow /\ ServiceTypes' /\ CertsRefer' /\ certs' = certs
  BY <1>0, SameLogs DEF kmp
<1>2. SecretsRefer' /\ WorkerTypes' /\ AttemptRefers'
  BY <1>0, <1>1, SecretsStillRefer, WorkerWaits
<1>3. APITypes' /\ RestTypes'
  BY <1>0 DEF PairInv, TypeOK, APITypes, RestTypes
<1>4. QueueTypes'
  BY DEF PairInv, TypeOK, QueueTypes, Informers, SyncObject, SyncSecret, TimerFires, ToQueue, NoTimer
<1>5. CacheTypes' /\ CachesRefer'
  <2>1. CASE UNCHANGED cSecrets
    <3>1. CachesRefer'
      BY <1>1, <2>1, CachesStillRefer
    <3>2. CacheTypes'
      BY <2>1 DEF PairInv, TypeOK, APITypes, CacheTypes, Informers, SyncObject, SyncSecret,
                  TimerFires, caches
    <3> QED
      BY <3>1, <3>2
  <2>2. ASSUME NEW s \in SecretNames, SyncSecret(s)
        PROVE  CacheTypes' /\ CachesRefer'
    <3>1. cSecrets' = [ cSecrets EXCEPT ![s] = secrets[s] ] /\ UNCHANGED cObj
      BY <2>2 DEF SyncSecret
    <3>2. CacheTypes'
      BY <3>1 DEF PairInv, TypeOK, APITypes, CacheTypes
    <3>3. \A x \in SecretNames : cSecrets'[x] = IF x = s THEN secrets[s] ELSE cSecrets[x]
      BY <3>1 DEF PairInv, TypeOK, CacheTypes
    <3>4. CachesRefer'
      BY <1>1, <3>3 DEF PairInv, CachesRefer, SecretsRefer, holdsPair
    <3> QED
      BY <3>2, <3>4
  <2>3. UNCHANGED cSecrets \/ \E s \in SecretNames : SyncSecret(s)
    BY DEF Informers, SyncObject, TimerFires, caches
  <2> QED
    BY <2>1, <2>2, <2>3
<1> QED
  BY <1>1, <1>2, <1>3, <1>4, <1>5 DEF PairInv, TypeOK

\* A spec edit of a resource yields a resource.
LEMMA EditType ==
    ASSUME NEW ob \in ObjectType, NEW sp \in Specs
    PROVE  [ exists |-> TRUE, generation |-> ob.generation + 1, spec |-> sp,
             status |-> ob.status ] \in ObjectType
<1>1. ob.generation \in Nat /\ ob.status \in StatusType
  BY DEF ObjectType
<1>2. ob.generation + 1 \in Nat
  BY <1>1
<1> QED
  BY <1>1, <1>2 DEF ObjectType

\* Edits and deletions by users and by the garbage collector.
LEMMA UsersInv ==
    ASSUME PairInv, Users
    PROVE  PairInv'
<1>0. UNCHANGED <<cObj, cSecrets, queue, timer, worker, kmp, now, faults, crashes>>
  BY DEF Users, EditSpec, DeleteObject, DeleteSecret, ChangeEnvironment, caches, budget
<1>1. LogsGrow /\ ServiceTypes' /\ CertsRefer' /\ certs' = certs
  BY <1>0, SameLogs DEF kmp
<1>2. CachesRefer' /\ WorkerTypes' /\ AttemptRefers'
  BY <1>0, <1>1, CachesStillRefer, WorkerWaits
<1>3. CacheTypes' /\ QueueTypes'
  BY <1>0 DEF PairInv, TypeOK, CacheTypes, QueueTypes
<1>4. RestTypes'
  BY <1>0, ServiceAssumption DEF PairInv, TypeOK, RestTypes, Users, EditSpec, DeleteObject,
                                 DeleteSecret, ChangeEnvironment
<1>5. APITypes
  BY DEF PairInv, TypeOK
<1>6. ASSUME NEW o \in Objects, EditSpec(o)
      PROVE  APITypes' /\ UNCHANGED secrets
  <2>1. PICK sp \in Specs :
          obj' = [ obj EXCEPT ![o] = [ exists |-> TRUE, generation |-> obj[o].generation + 1,
                                       spec |-> sp, status |-> obj[o].status ] ]
    BY <1>6 DEF EditSpec
  <2> DEFINE edited == [ exists |-> TRUE, generation |-> obj[o].generation + 1,
                         spec |-> sp, status |-> obj[o].status ]
  <2>2. obj[o] \in ObjectType
    BY <1>5, <1>6 DEF EditSpec, APITypes
  <2>3. edited \in ObjectType
    BY <2>2, EditType
  <2>4. obj' = [ obj EXCEPT ![o] = edited ]
    BY <2>1
  <2> HIDE DEF edited
  <2>6. obj' \in [ Objects -> ObjectType \cup {Absent} ]
    BY <1>5, <2>3, <2>4 DEF APITypes
  <2> QED
    BY <1>5, <1>6, <2>6 DEF APITypes, EditSpec
<1>7. ASSUME NEW o \in Objects, DeleteObject(o)
      PROVE  APITypes' /\ UNCHANGED secrets
  BY <1>5, <1>7 DEF APITypes, DeleteObject
<1>8. ASSUME NEW s \in SecretNames, DeleteSecret(s)
      PROVE  APITypes' /\ SecretsRefer'
  <2>1. secrets' = [ secrets EXCEPT ![s] = Absent ] /\ UNCHANGED obj
    BY <1>8 DEF DeleteSecret
  <2>2. APITypes'
    BY <1>5, <2>1 DEF APITypes
  <2>3. \A x \in SecretNames : secrets'[x] = IF x = s THEN Absent ELSE secrets[x]
    BY <1>5, <2>1 DEF APITypes
  <2>4. SecretsRefer'
    BY <1>1, <2>3 DEF PairInv, SecretsRefer, holdsPair
  <2> QED
    BY <2>2, <2>4
<1>9. APITypes' /\ SecretsRefer'
  BY <1>1, <1>5, <1>6, <1>7, <1>8, SecretsStillRefer DEF Users, ChangeEnvironment, api, APITypes
<1> QED
  BY <1>1, <1>2, <1>3, <1>4, <1>9 DEF PairInv, TypeOK

\* Listing, publishing and other users leave the logs well formed.
LEMMA ServiceLogs ==
    ASSUME PairInv, Service
    PROVE  LogsGrow /\ ServiceTypes' /\ CertsRefer'
<1>0. ServiceTypes /\ Len(csrs) \in Nat /\ Len(certs) \in Nat /\ CertsRefer
  BY LogLengths DEF PairInv, TypeOK
<1>1. CASE ListCSR
  <2>1. UNCHANGED <<csrs, certs, published>> /\ listed' \subseteq 1..Len(csrs)
    BY <1>0, <1>1 DEF ListCSR, ServiceTypes
  <2> QED
    BY <1>0, <2>1 DEF ServiceTypes, CertsRefer, LogsGrow
<1>2. CASE PublishCertificate
  <2>1. UNCHANGED <<csrs, certs, listed>> /\ published' \subseteq 1..Len(certs)
    BY <1>0, <1>2 DEF PublishCertificate, ServiceTypes
  <2> QED
    BY <1>0, <2>1 DEF ServiceTypes, CertsRefer, LogsGrow
<1>3. CASE OutsideStores
  <2>1. PICK sp \in Specs, origin \in {"created", "imported"} :
          StoreCSR(provisionRequest(sp), FreshPassword, origin)
    BY <1>3 DEF OutsideStores
  <2>2. FreshPassword \in Int
    BY <1>0 DEF FreshPassword
  <2>3. provisionRequest(sp) \in Identities
    BY RequestType
  <2> QED
    BY <2>1, <2>2, <2>3, StoredLogs
<1>4. CASE OutsideSigns
  <2>1. PICK i \in OutsideCSRs, t \in TemplatesInUse : Issue(i, t)
    BY <1>4 DEF OutsideSigns
  <2>2. i \in 1..Len(csrs)
    BY DEF OutsideCSRs
  <2> QED
    BY <2>1, <2>2, IssuedLogs
<1> QED
  BY <1>1, <1>2, <1>3, <1>4 DEF Service

\* Listing, publishing and the other users of Key Manager Plus.
LEMMA ServiceInv ==
    ASSUME PairInv, Service
    PROVE  PairInv'
<1>0. UNCHANGED <<obj, secrets, cObj, cSecrets, queue, timer, worker, env, now, faults, crashes>>
  BY DEF Service, ListCSR, PublishCertificate, OutsideStores, OutsideSigns, api, caches, budget
<1>2. LogsGrow /\ ServiceTypes' /\ CertsRefer'
  BY ServiceLogs
<1>3. SecretsRefer' /\ CachesRefer' /\ WorkerTypes' /\ AttemptRefers'
  BY <1>0, <1>2, SecretsStillRefer, CachesStillRefer, WorkerWaits
<1>4. APITypes' /\ CacheTypes' /\ QueueTypes' /\ RestTypes'
  BY <1>0 DEF PairInv, TypeOK, APITypes, CacheTypes, QueueTypes, RestTypes
<1> QED
  BY <1>2, <1>3, <1>4 DEF PairInv, TypeOK

\* The passing of time.
LEMMA StutterInv ==
    ASSUME PairInv, UNCHANGED <<api, caches, queue, timer, worker, env, kmp, budget>>,
           now' \in Nat
    PROVE  PairInv'
<1>0. UNCHANGED <<obj, secrets, cObj, cSecrets, queue, timer, worker, env, kmp, faults, crashes>>
  BY DEF api, caches, budget
<1>1. LogsGrow /\ ServiceTypes' /\ CertsRefer'
  BY <1>0, SameLogs
<1>2. SecretsRefer' /\ CachesRefer' /\ WorkerTypes' /\ AttemptRefers'
  BY <1>0, <1>1, SecretsStillRefer, CachesStillRefer, WorkerWaits
<1>3. APITypes' /\ CacheTypes' /\ QueueTypes' /\ RestTypes'
  BY <1>0 DEF PairInv, TypeOK, APITypes, CacheTypes, QueueTypes, RestTypes
<1> QED
  BY <1>1, <1>2, <1>3 DEF PairInv, TypeOK

\* The invariant holds when the controller starts.
LEMMA InitInv == Init => PairInv
<1> SUFFICES ASSUME Init PROVE PairInv
  OBVIOUS
<1>1. WorkerTypes /\ AttemptRefers
  <2>1. NoAttempt \in AttemptType
    BY DEF NoAttempt, AttemptType, IDs, NoID, NoPassword
  <2>2. NoResult \in ResultType
    BY DEF NoResult, ResultType, NoStatus, StatusType, Reasons, IDs, NoID
  <2> QED
    BY <2>1, <2>2 DEF Init, WorkerTypes, AttemptRefers
<1>2. ServiceTypes /\ CertsRefer
  BY DEF Init, ServiceTypes, CertsRefer
<1>3. EmptySecret \in SecretType
  BY DEF EmptySecret, SecretType, IDs, NoID, NoPassword
<1>4. PICK f \in [ Objects -> Specs ] :
        obj = [ o \in Objects |-> [ exists |-> TRUE, generation |-> 1, spec |-> f[o],
                                    status |-> NoStatus ] ]
  BY DEF Init
<1>5. NoStatus \in StatusType
  BY DEF NoStatus, StatusType, Reasons, IDs, NoID
<1>6. obj \in [ Objects -> ObjectType \cup {Absent} ]
  BY <1>4, <1>5 DEF ObjectType
<1>7. PICK given \in SUBSET Preexisting :
        secrets = [ s \in SecretNames |-> IF s \in given THEN EmptySecret ELSE Absent ]
  BY DEF Init
<1>8. secrets \in [ SecretNames -> SecretType \cup {Absent} ]
  BY <1>3, <1>7
<1>9. \A s \in SecretNames : ~holdsPair(secrets[s])
  BY <1>7 DEF holdsPair, EmptySecret
<1>10. APITypes /\ CacheTypes /\ QueueTypes /\ RestTypes
  BY <1>6, <1>8, ServiceAssumption
     DEF Init, APITypes, CacheTypes, QueueTypes, RestTypes, NoTimer
<1>11. SecretsRefer /\ CachesRefer
  BY <1>9 DEF Init, SecretsRefer, CachesRefer
<1> QED
  BY <1>1, <1>2, <1>10, <1>11 DEF PairInv, TypeOK

\* Every step keeps the invariant: one case per action.
LEMMA NextInv == PairInv /\ [Next]_vars => PairInv'
<1> SUFFICES ASSUME PairInv, [Next]_vars PROVE PairInv'
  OBVIOUS
<1>1. CASE WorkerStep
  BY <1>1, ReconcileInv, PrepareInv, CreateCSRInv, StoreFullInv, ResolveInv, SignInv,
     FetchInv, ExportInv, WriteInv, FinishInv DEF WorkerStep
<1>2. CASE Informers
  BY <1>2, InformersInv
<1>3. CASE Users
  BY <1>3, UsersInv
<1>4. CASE Service
  BY <1>4, ServiceInv
<1>5. CASE Crash
  BY <1>5, CrashInv
<1>6. CASE Tick
  <2>1. now' \in Nat
    BY <1>6 DEF Tick, PairInv, TypeOK, RestTypes
  <2> QED
    BY <1>6, <2>1, StutterInv DEF Tick
<1>7. CASE Wait \/ UNCHANGED vars
  <2>1. now' \in Nat
    BY <1>7 DEF Wait, vars, PairInv, TypeOK, RestTypes
  <2> QED
    BY <1>7, <2>1, StutterInv DEF Wait, vars
<1> QED
  BY <1>1, <1>2, <1>3, <1>4, <1>5, <1>6, <1>7 DEF Next

-----------------------------------------------------------------------------
\* The inductive invariant holds.
THEOREM Invariance == Spec => []PairInv
BY InitInv, NextInv, PTL DEF Spec

\* Every state is well typed: the worker of the escrow controller always has
\* the resource it works on, and ids it uses name records that exist.
THEOREM TypeCorrectness == Spec => []TypeOK
<1>1. PairInv => TypeOK
  BY DEF PairInv
<1> QED
  BY <1>1, Invariance, PTL

\* Provision and writeSecret never publish a certificate with the key of
\* another CSR, whatever Key Manager Plus lists, publishes and answers, whoever
\* else uses it, and wherever the controller crashes.
THEOREM PairConsistency == Spec => []PairConsistent
<1>1. PairInv => PairConsistent
  BY DEF PairInv, SecretsRefer, PairConsistent
<1> QED
  BY <1>1, Invariance, PTL

-----------------------------------------------------------------------------
(***************************************************************************)
(* What the escrow controller writes to a Secret: who may write, which     *)
(* certificate, which password, and when.  Everything rests on two facts   *)
(* about the worker: it reaches the write only through the checks that end *)
(* Provision, and nothing but the write puts anything into a Secret.  With *)
(* them the controller implements the abstract certificate store.          *)
(***************************************************************************)
(***************************************************************************)
(* What Provision established of the attempt that is about to be written:  *)
(* the certificate carries the names asked for, and a protected export was *)
(* opened with the password of the attempt.                                *)
(***************************************************************************)
AttemptVerified ==
    pc = "write" => verifyProvisionedNames(snap.spec, certs[att.leaf].id)

AttemptOpened ==
    pc = "write" /\ EncryptedExport => csrs[att.csr].password = att.password

\* A password that the user supplies is the password of every attempt.
AttemptSupplied ==
    pc \in {"resolve", "sign", "fetch", "export", "write"} /\ snap.spec.password = "supplied" =>
        att.password = UserPassword

\* Recoverable, with the fact that the record it names exists.
SecretsOpen ==
    \A s \in SecretNames : holdsPair(secrets[s]) =>
        /\ secrets[s].key \in 1..Len(csrs)
        /\ csrs[secrets[s].key].password \in {UserPassword, secrets[s].password}

\* The specs for which the two name checks of the code agree: no organization,
\* and addresses given as addresses.
SpecsWithoutGaps ==
    \A sp \in Specs :
        /\ sp.organization = ""
        /\ sp.ipAddresses \subseteq IPs
        /\ sp.dnsNames \cap IPs = {}

-----------------------------------------------------------------------------
\* No step takes anything out of the logs of Key Manager Plus.
LEMMA NextLogs ==
    ASSUME PairInv, [Next]_vars
    PROVE  LogsGrow
<1>0. WorkerTypes /\ ServiceTypes /\ AttemptRefers /\ Len(csrs) \in Nat /\ Len(certs) \in Nat
  BY LogLengths DEF PairInv, TypeOK
<1>1. CASE UNCHANGED kmp
  BY <1>1, SameLogs
<1>2. CASE CreateCSR
  <2>1. snap.spec \in Specs
    BY <1>0, <1>2 DEF CreateCSR, WorkerTypes, ObjectType
  <2>2. provisionRequest(snap.spec) \in Identities
    BY <2>1, RequestType
  <2>3. FreshPassword \in Int /\ UserPassword \in Int
    BY <1>0 DEF FreshPassword, UserPassword
  <2>4. UNCHANGED kmp \/ StoreCSR(provisionRequest(snap.spec), FreshPassword, "escrow")
                      \/ StoreCSR(provisionRequest(snap.spec), UserPassword, "escrow")
    BY <1>2 DEF CreateCSR
  <2> QED
    BY <2>2, <2>3, <2>4, SameLogs, StoredLogs
<1>3. CASE SignStoredCSR
  <2>1. att.csr \in 1..Len(csrs)
    BY <1>0, <1>3 DEF SignStoredCSR, AttemptRefers
  <2>2. UNCHANGED kmp \/ \E t \in TemplatesInUse : Issue(att.csr, t)
    BY <1>3 DEF SignStoredCSR
  <2> QED
    BY <2>1, <2>2, SameLogs, IssuedLogs
<1>4. CASE Service
  BY <1>4, ServiceLogs
<1>5. UNCHANGED kmp \/ CreateCSR \/ SignStoredCSR \/ Service
  <2>1. CASE WorkerStep
    BY <2>1 DEF WorkerStep, ReconcileGone, ReconcileCurrent, ReconcileDue, Take, Prepare,
                StoreFull, ResolveCSRID, FetchCertificate, ExportAndVerify, WriteSecret, Finish
  <2>2. CASE Informers
    BY <2>2 DEF Informers, SyncObject, SyncSecret, TimerFires
  <2>3. CASE Users
    BY <2>3 DEF Users, EditSpec, DeleteObject, DeleteSecret, ChangeEnvironment
  <2>4. CASE Crash \/ Tick \/ Wait \/ UNCHANGED vars
    BY <2>4 DEF Crash, Tick, Wait, vars
  <2> QED
    BY <2>1, <2>2, <2>3, <2>4 DEF Next
<1> QED
  BY <1>1, <1>2, <1>3, <1>4, <1>5

\* The worker stands at the write only when Provision's checks have passed, or
\* when it stood there before.
LEMMA ReachesWrite ==
    ASSUME PairInv, [Next]_vars, pc' = "write"
    PROVE  \/ UNCHANGED <<pc, snap, att>>
           \/ /\ UNCHANGED <<snap, csrs, certs>> /\ att'.password = att.password
              /\ att'.csr = att.csr /\ exportReadable
              /\ verifyProvisionedNames(snap.spec, certs[att'.leaf].id)
<1>1. CASE ExportAndVerify
  <2>1. PICK leaf \in leavesFor(att.csr) :
          /\ exportReadable /\ verifyProvisionedNames(snap.spec, certs[leaf].id)
          /\ Go("write") /\ att' = [ att EXCEPT !.leaf = leaf ]
    BY <1>1 DEF ExportAndVerify, Fail
  <2>2. att \in AttemptType
    BY DEF PairInv, TypeOK, WorkerTypes
  <2>3. att'.password = att.password /\ att'.csr = att.csr /\ att'.leaf = leaf
    BY <2>1, <2>2 DEF AttemptType
  <2> QED
    BY <1>1, <2>1, <2>3 DEF ExportAndVerify, Go, kmp
<1>2. CASE WorkerStep /\ ~ExportAndVerify
  BY <1>2 DEF WorkerStep, ReconcileGone, ReconcileCurrent, ReconcileDue, Take, Prepare, CreateCSR,
              StoreFull, ResolveCSRID, SignStoredCSR, FetchCertificate, WriteSecret, Finish,
              Return, Fail, Go, worker
<1>3. CASE ~WorkerStep
  BY <1>3 DEF Next, Informers, SyncObject, SyncSecret, TimerFires, Users, EditSpec, DeleteObject,
              DeleteSecret, ChangeEnvironment, Service, ListCSR, PublishCertificate, OutsideStores,
              OutsideSigns, Crash, Tick, Wait, vars, worker
<1> QED
  BY <1>1, <1>2, <1>3

\* A Secret changes only by a deletion, or by the write of the worker.
LEMMA SecretChanges ==
    ASSUME PairInv, [Next]_vars, NEW s \in SecretNames, secrets'[s] # secrets[s]
    PROVE  \/ secrets'[s] = Absent
           \/ /\ pc = "write" /\ s = snap.spec.secret /\ writable(s)
              /\ secrets'[s] = desiredSecret(cSecrets[s])
              /\ UNCHANGED <<csrs, certs>>
<1>0. secrets \in [ SecretNames -> SecretType \cup {Absent} ]
  BY DEF PairInv, TypeOK, APITypes
<1>1. CASE WriteSecret
  <2>1. /\ pc = "write" /\ writable(snap.spec.secret) /\ UNCHANGED <<csrs, certs>>
        /\ secrets' = [ secrets EXCEPT ![snap.spec.secret] = desiredSecret(cSecrets[snap.spec.secret]) ]
    BY <1>1 DEF WriteSecret, kmp
  <2>2. s = snap.spec.secret
    BY <1>0, <2>1
  <2> QED
    BY <1>0, <2>1, <2>2
<1>2. ASSUME NEW x \in SecretNames, DeleteSecret(x)
      PROVE  secrets'[s] = Absent
  BY <1>0, <1>2 DEF DeleteSecret
<1>3. UNCHANGED secrets \/ WriteSecret \/ \E x \in SecretNames : DeleteSecret(x)
  <2>1. CASE WorkerStep
    BY <2>1 DEF WorkerStep, ReconcileGone, ReconcileCurrent, ReconcileDue, Take, Prepare, CreateCSR,
                StoreFull, ResolveCSRID, SignStoredCSR, FetchCertificate, ExportAndVerify, Finish,
                Elsewhere, api
  <2>2. CASE ~WorkerStep
    BY <2>2 DEF Next, Informers, SyncObject, SyncSecret, TimerFires, Users, EditSpec, DeleteObject,
                ChangeEnvironment, Service, ListCSR, PublishCertificate, OutsideStores,
                OutsideSigns, Crash, Tick, Wait, vars, api
  <2> QED
    BY <2>1, <2>2
<1> QED
  BY <1>1, <1>2, <1>3

-----------------------------------------------------------------------------
\* The checks that end Provision still hold of the attempt when it is written.
LEMMA VerifiedStep ==
    ASSUME PairInv, AttemptVerified, AttemptOpened, [Next]_vars
    PROVE  AttemptVerified' /\ AttemptOpened'
<1> SUFFICES ASSUME pc' = "write"
             PROVE  /\ verifyProvisionedNames(snap'.spec, certs'[att'.leaf].id)
                    /\ EncryptedExport => csrs'[att'.csr].password = att'.password
  BY DEF AttemptVerified, AttemptOpened, verifyProvisionedNames
<1>1. LogsGrow
  BY NextLogs
<1>2. CASE UNCHANGED <<pc, snap, att>>
  <2>1. att.leaf \in 1..Len(certs) /\ att.csr \in 1..Len(csrs)
    BY <1>2 DEF PairInv, AttemptRefers
  <2>2. certs'[att.leaf] = certs[att.leaf] /\ csrs'[att.csr] = csrs[att.csr]
    BY <1>1, <2>1 DEF LogsGrow
  <2> QED
    BY <1>2, <2>2 DEF AttemptVerified, AttemptOpened
<1>3. CASE /\ UNCHANGED <<snap, csrs, certs>> /\ att'.password = att.password
           /\ att'.csr = att.csr /\ exportReadable
           /\ verifyProvisionedNames(snap.spec, certs[att'.leaf].id)
  BY <1>3 DEF exportReadable
<1> QED
  BY <1>2, <1>3, ReachesWrite

\* A KMPCertificate never takes over the Secret of another: SetControllerReference
\* guards every write, whatever the caches hold.
THEOREM OwnershipKept == Spec => OwnerKept
<1>1. ASSUME PairInv, [Next]_vars, NEW s \in SecretNames,
             secrets[s] # Absent, secrets'[s] # Absent, secrets[s].owner \in Objects
      PROVE  secrets'[s].owner = secrets[s].owner
  <2>1. CASE secrets'[s] # secrets[s]
    <3>1. writable(s) /\ secrets'[s] = desiredSecret(cSecrets[s])
      BY <1>1, <2>1, SecretChanges
    <3>2. secrets[s].owner \in {cur, NoObject}
      BY <1>1, <3>1 DEF writable
    <3>3. secrets[s].owner = cur
      BY <1>1, <3>2, SpecsAssumption
    <3> QED
      BY <3>1, <3>3 DEF desiredSecret
  <2> QED
    BY <2>1
<1>2. PairInv /\ [Next]_vars =>
        [ \A s \in SecretNames :
            secrets[s] # Absent /\ secrets'[s] # Absent /\ secrets[s].owner \in Objects =>
              secrets'[s].owner = secrets[s].owner ]_vars
  BY <1>1
<1> QED
  BY <1>2, Invariance, PTL DEF Spec, OwnerKept

\* The checks that end Provision hold whenever the worker is about to write.
THEOREM VerifiedBeforeWrite == Spec => [](PairInv /\ AttemptVerified /\ AttemptOpened)
<1>1. Init => PairInv /\ AttemptVerified /\ AttemptOpened
  BY InitInv DEF Init, AttemptVerified, AttemptOpened
<1>2. (PairInv /\ AttemptVerified /\ AttemptOpened) /\ [Next]_vars
        => (PairInv /\ AttemptVerified /\ AttemptOpened)'
  BY NextInv, VerifiedStep
<1> QED
  BY <1>1, <1>2, PTL DEF Spec

\* Where the two name checks agree, what is written is what issuanceNeeded will
\* accept: a certificate is not replaced as soon as it is issued.
LEMMA NameChecksAgree ==
    ASSUME SpecsWithoutGaps, NEW sp \in Specs, NEW leaf, verifyProvisionedNames(sp, leaf)
    PROVE  matchesSpec(sp, leaf)
BY DEF SpecsWithoutGaps, verifyProvisionedNames, matchesSpec

\* The resource in hand names a spec whenever the worker is busy.
LEMMA SnapSpec ==
    ASSUME PairInv, pc = "write"
    PROVE  snap.spec \in Specs
BY DEF PairInv, TypeOK, WorkerTypes, ObjectType

\* Without an organization in the spec, and with addresses only where addresses
\* belong, every certificate writeSecret publishes matches the spec it was
\* requested for, whatever the CA's template does.
THEOREM PublishedMatches ==
    ASSUME SpecsWithoutGaps
    PROVE  Spec => OnlyMatchingPublished
<1>1. ASSUME PairInv, AttemptVerified, [Next]_vars, NEW s \in SecretNames,
             secrets'[s] # secrets[s], secrets'[s] # Absent
      PROVE  matchesSpec(snap.spec, certs[secrets'[s].leaf].id)
  <2>1. pc = "write" /\ secrets'[s] = desiredSecret(cSecrets[s])
    BY <1>1, SecretChanges
  <2>2. secrets'[s].leaf = att.leaf
    BY <2>1 DEF desiredSecret
  <2>3. verifyProvisionedNames(snap.spec, certs[att.leaf].id) /\ snap.spec \in Specs
    BY <1>1, <2>1, SnapSpec DEF AttemptVerified
  <2> QED
    BY <2>2, <2>3, NameChecksAgree
<1>2. PairInv /\ AttemptVerified /\ [Next]_vars =>
        [ \A s \in SecretNames :
            secrets'[s] # secrets[s] /\ secrets'[s] # Absent =>
              matchesSpec(snap.spec, certs[secrets'[s].leaf].id) ]_vars
  BY <1>1
<1> QED
  BY <1>2, VerifiedBeforeWrite, PTL DEF Spec, OnlyMatchingPublished

\* The worker keeps the resource in hand and, once the CSR is created, the
\* password of the attempt.
LEMMA SuppliedStep ==
    ASSUME PairInv, AttemptSupplied, [Next]_vars
    PROVE  AttemptSupplied'
<1> DEFINE Later == {"resolve", "sign", "fetch", "export", "write"}
<1> SUFFICES ASSUME pc' \in Later, snap'.spec.password = "supplied"
             PROVE  att'.password = UserPassword
  BY DEF AttemptSupplied, UserPassword
<1>0. att \in AttemptType
  BY DEF PairInv, TypeOK, WorkerTypes
<1>1. CASE CreateCSR
  <2>1. /\ snap' = snap
        /\ att' = [ att EXCEPT !.password = UserPassword,
                               !.csr = IF ReportsID THEN Len(csrs) + 1 ELSE NoID ]
    BY <1>1 DEF CreateCSR, Fail, Go
  <2> QED
    BY <1>0, <2>1 DEF AttemptType
<1>2. \/ CreateCSR
      \/ pc \in Later /\ snap' = snap /\ att'.password = att.password
  <2>1. CASE \E o \in Objects : ReconcileGone(o) \/ ReconcileCurrent(o) \/ ReconcileDue(o)
    BY <2>1 DEF ReconcileGone, ReconcileCurrent, ReconcileDue, Take, worker
  <2>2. CASE Prepare \/ StoreFull
    BY <2>2 DEF Prepare, StoreFull, Fail, Go
  <2>3. CASE ResolveCSRID
    BY <1>0, <2>3 DEF ResolveCSRID, Fail, Go, AttemptType
  <2>4. CASE SignStoredCSR
    BY <1>0, <2>4 DEF SignStoredCSR, Fail, Go, AttemptType
  <2>5. CASE FetchCertificate
    BY <1>0, <2>5 DEF FetchCertificate, Fail, Go, AttemptType
  <2>6. CASE ExportAndVerify
    BY <1>0, <2>6 DEF ExportAndVerify, Fail, Go, AttemptType
  <2>7. CASE WriteSecret \/ Finish
    BY <2>7 DEF WriteSecret, Finish, Fail, Return
  <2>8. CASE ~WorkerStep
    BY <2>8 DEF Next, Informers, SyncObject, SyncSecret, TimerFires, Users, EditSpec, DeleteObject,
                DeleteSecret, ChangeEnvironment, Service, ListCSR, PublishCertificate, OutsideStores,
                OutsideSigns, Crash, Tick, Wait, vars, worker
  <2> QED
    BY <2>1, <2>2, <2>3, <2>4, <2>5, <2>6, <2>7, <2>8 DEF WorkerStep
<1> QED
  BY <1>1, <1>2 DEF AttemptSupplied

\* A step keeps the recorded passwords those of the records they are kept for.
LEMMA OpenStep ==
    ASSUME EncryptedExport, PairInv, AttemptOpened, AttemptSupplied, SecretsOpen, [Next]_vars
    PROVE  SecretsOpen'
<1> SUFFICES ASSUME NEW s \in SecretNames, holdsPair(secrets'[s])
             PROVE  /\ secrets'[s].key \in 1..Len(csrs')
                    /\ csrs'[secrets'[s].key].password \in {UserPassword, secrets'[s].password}
  BY DEF SecretsOpen, holdsPair, UserPassword
<1>1. LogsGrow /\ Len(csrs) \in Nat
  BY NextLogs, LogLengths DEF PairInv, TypeOK
<1>2. CASE secrets'[s] = secrets[s]
  <2>1. /\ secrets[s].key \in 1..Len(csrs)
        /\ csrs[secrets[s].key].password \in {UserPassword, secrets[s].password}
    BY <1>2 DEF SecretsOpen
  <2> QED
    BY <1>1, <1>2, <2>1 DEF LogsGrow
<1>3. CASE secrets'[s] # secrets[s]
  <2>1. pc = "write" /\ secrets'[s] = desiredSecret(cSecrets[s]) /\ UNCHANGED csrs
    BY <1>3, SecretChanges DEF holdsPair
  <2>2. snap.spec.password \in {"generated", "supplied"}
    BY <2>1, SnapSpec, SpecsAssumption
  <2>3. /\ secrets'[s].key = att.csr
        /\ snap.spec.password = "generated" => secrets'[s].password = att.password
    BY <2>1 DEF desiredSecret
  <2>4. att.csr \in 1..Len(csrs) /\ csrs[att.csr].password = att.password
    BY <2>1 DEF PairInv, AttemptRefers, AttemptOpened
  <2>5. snap.spec.password = "supplied" => att.password = UserPassword
    BY <2>1 DEF AttemptSupplied
  <2> QED
    BY <2>1, <2>2, <2>3, <2>4, <2>5
<1> QED
  BY <1>2, <1>3

\* Where exports are protected, a key made under a generated password has that
\* password beside it in the Secret, although specs switch between generated and
\* supplied passwords, and also when the CSR was found by its common name and is
\* another one than the one created (Provision, writeSecret).
THEOREM Recoverability ==
    ASSUME EncryptedExport
    PROVE  Spec => []Recoverable
<1>1. Init => AttemptSupplied /\ SecretsOpen
  BY DEF Init, AttemptSupplied, SecretsOpen, EmptySecret, holdsPair, Absent, NoID
<1>2. PairInv /\ AttemptOpened /\ AttemptSupplied /\ SecretsOpen /\ [Next]_vars
        => AttemptSupplied' /\ SecretsOpen'
  BY SuppliedStep, OpenStep
<1>3. SecretsOpen => Recoverable
  BY DEF SecretsOpen, Recoverable
<1> QED
  BY <1>1, <1>2, <1>3, VerifiedBeforeWrite, PTL DEF Spec

-----------------------------------------------------------------------------
(***************************************************************************)
(* When a certificate is replaced, with caches that lag.  The cache of a   *)
(* Secret is at most one version behind the Secret, because a write needs  *)
(* the cache to hold the version it replaces; so what the decision to      *)
(* issue was taken on is the Secret as it is or as it was before.          *)
(***************************************************************************)
CacheRecent ==
    \A s \in SecretNames : secrets[s] # Absent => cSecrets[s] \in {secrets[s], replaced[s]}

ReplacedRefers ==
    \A s \in SecretNames : holdsPair(replaced[s]) => replaced[s].leaf \in 1..Len(certs)

InIssue == {"prepare"} \cup Steps

\* What issue was started for is still true when it comes to the write: nothing
\* but the worker puts a certificate into a Secret, and time only goes on.
CalledFor ==
    pc \in InIssue /\ secrets[snap.spec.secret] # Absent =>
        \/ issuanceNeeded(snap.spec, secrets[snap.spec.secret])
        \/ issuanceNeeded(snap.spec, replaced[snap.spec.secret])

HistoryInv == CacheRecent /\ ReplacedRefers /\ CalledFor

\* The worker is in the middle of issue only after the decision to issue; its
\* steps up to the write leave the Secrets alone.
LEMMA InIssueSteps ==
    ASSUME [Next]_vars, pc' \in InIssue
    PROVE  \/ \E o \in Objects : ReconcileDue(o)
           \/ /\ pc \in InIssue /\ UNCHANGED snap
              /\ UNCHANGED secrets \/ \E s \in SecretNames : DeleteSecret(s)
              /\ UNCHANGED now \/ now' = now + 1
<1>1. CASE WorkerStep
  <2>1. CASE \E o \in Objects : ReconcileGone(o) \/ ReconcileCurrent(o)
    BY <2>1 DEF ReconcileGone, ReconcileCurrent, Take, Return, worker, InIssue, Steps
  <2>2. CASE Prepare \/ CreateCSR \/ StoreFull \/ ResolveCSRID
    BY <2>2 DEF Prepare, CreateCSR, StoreFull, ResolveCSRID, Return, Fail, Go, worker, Elsewhere,
                api, InIssue, Steps
  <2>3. CASE SignStoredCSR
    BY <2>3 DEF SignStoredCSR, Return, Fail, Go, worker, Elsewhere, api, InIssue, Steps
  <2>5. CASE FetchCertificate
    BY <2>5 DEF FetchCertificate, Return, Fail, Go, worker, Elsewhere, api, InIssue, Steps
  <2>4. CASE ExportAndVerify \/ WriteSecret \/ Finish
    BY <2>4 DEF ExportAndVerify, WriteSecret, Finish, Return, Fail, Go, worker, Elsewhere, api,
                InIssue, Steps
  <2> QED  BY <1>1, <2>1, <2>2, <2>3, <2>4, <2>5 DEF WorkerStep
<1>2. CASE ~WorkerStep
  BY <1>2 DEF Next, Informers, SyncObject, SyncSecret, TimerFires, Users, EditSpec, DeleteObject,
              DeleteSecret, ChangeEnvironment, Service, ListCSR, PublishCertificate, OutsideStores,
              OutsideSigns, Crash, Tick, Wait, vars, worker, api, InIssue, Steps
<1> QED
  BY <1>1, <1>2

\* An issuance that is needed stays needed.
LEMMA StillNeeded ==
    ASSUME PairInv, LogsGrow, NEW sp \in Specs, NEW secret,
           holdsPair(secret) => secret.leaf \in 1..Len(certs),
           issuanceNeeded(sp, secret), now' \in Nat, now <= now'
    PROVE  holdsPair(secret) =>
             \/ ~matchesSpec(sp, certs'[secret.leaf].id)
             \/ now' >= renewalTime(certs'[secret.leaf], sp.renewBefore)
<1> SUFFICES ASSUME holdsPair(secret)
             PROVE  \/ ~matchesSpec(sp, certs'[secret.leaf].id)
                    \/ now' >= renewalTime(certs'[secret.leaf], sp.renewBefore)
  OBVIOUS
<1> DEFINE cert == certs[secret.leaf]
           due  == renewalTime(cert, sp.renewBefore)
<1>1. secret.leaf \in 1..Len(certs) /\ ServiceTypes /\ now \in Nat
  BY DEF PairInv, TypeOK, RestTypes
<1>2. certs'[secret.leaf] = cert /\ cert \in CertType
  BY <1>1 DEF LogsGrow, ServiceTypes
<1>3. due \in Int
  BY <1>2, SpecsAssumption DEF renewalTime, CertType
<1>4. ~matchesSpec(sp, cert.id) \/ now >= due
  BY DEF issuanceNeeded
<1> HIDE DEF due
<1>5. now >= due => now' >= due
  BY <1>1, <1>3
<1> QED
  BY <1>2, <1>4, <1>5 DEF due

\* Nothing but a sync or a restart changes the cache of a Secret, and both make
\* it current.
LEMMA CacheChanges ==
    ASSUME PairInv, [Next]_vars, NEW s \in SecretNames, cSecrets'[s] # cSecrets[s]
    PROVE  cSecrets'[s] = secrets[s] /\ UNCHANGED secrets
<1>0. cSecrets \in [ SecretNames -> SecretType \cup {Absent} ]
  BY DEF PairInv, TypeOK, CacheTypes
<1>1. ASSUME NEW x \in SecretNames, SyncSecret(x)
      PROVE  cSecrets'[s] = secrets[s] /\ UNCHANGED secrets
  BY <1>0, <1>1 DEF SyncSecret, api
<1>2. CASE Crash
  BY <1>2 DEF Crash, api
<1>3. UNCHANGED cSecrets \/ Crash \/ \E x \in SecretNames : SyncSecret(x)
  <2>1. CASE WorkerStep
    BY <2>1 DEF WorkerStep, ReconcileGone, ReconcileCurrent, ReconcileDue, Take, Prepare, CreateCSR,
                StoreFull, ResolveCSRID, SignStoredCSR, FetchCertificate, ExportAndVerify,
                WriteSecret, Finish, Elsewhere, caches
  <2>2. CASE ~WorkerStep
    BY <2>2 DEF Next, Informers, SyncObject, TimerFires, Users, EditSpec, DeleteObject,
                DeleteSecret, ChangeEnvironment, Service, ListCSR, PublishCertificate,
                OutsideStores, OutsideSigns, Tick, Wait, vars, caches
  <2> QED
    BY <2>1, <2>2
<1> QED
  BY <1>1, <1>2, <1>3

\* The cache stays at most one version behind.
LEMMA RecentStep ==
    ASSUME PairInv, CacheRecent, [Next]_vars, Remember
    PROVE  CacheRecent'
<1> SUFFICES ASSUME NEW s \in SecretNames, secrets'[s] # Absent
             PROVE  cSecrets'[s] \in {secrets'[s], replaced'[s]}
  BY DEF CacheRecent, Absent
<1>1. CASE cSecrets'[s] # cSecrets[s]
  BY <1>1, CacheChanges
<1>2. CASE cSecrets'[s] = cSecrets[s] /\ secrets'[s] = secrets[s]
  BY <1>2 DEF CacheRecent, Remember
<1>3. CASE cSecrets'[s] = cSecrets[s] /\ secrets'[s] # secrets[s]
  <2>1. writable(s)
    BY <1>3, SecretChanges
  <2> QED
    BY <1>3, <2>1 DEF writable, Remember
<1> QED
  BY <1>1, <1>2, <1>3

\* What a Secret was refers to a certificate that exists.
LEMMA ReplacedStep ==
    ASSUME PairInv, ReplacedRefers, [Next]_vars, Remember
    PROVE  ReplacedRefers'
<1> SUFFICES ASSUME NEW s \in SecretNames, holdsPair(replaced'[s])
             PROVE  replaced'[s].leaf \in 1..Len(certs')
  BY DEF ReplacedRefers, holdsPair, Absent, NoID
<1>1. LogsGrow /\ Len(certs) \in Nat
  BY NextLogs, LogLengths DEF PairInv, TypeOK
<1>2. replaced'[s] \in {replaced[s], secrets[s]}
  BY DEF Remember
<1>3. replaced'[s].leaf \in 1..Len(certs)
  BY <1>2 DEF ReplacedRefers, PairInv, SecretsRefer
<1> QED
  BY <1>1, <1>3 DEF LogsGrow

\* Every step keeps what the attempt in hand was started for.
LEMMA CalledForStep ==
    ASSUME PairInv, HistoryInv, [Next]_vars, Remember
    PROVE  CalledFor'
<1> SUFFICES ASSUME pc' \in InIssue, secrets'[snap'.spec.secret] # Absent
             PROVE  \/ issuanceNeeded(snap.spec, secrets[snap.spec.secret])'
                    \/ issuanceNeeded(snap.spec, replaced[snap.spec.secret])'
  BY DEF CalledFor, Absent
<1>1. ASSUME NEW o \in Objects, ReconcileDue(o)
      PROVE  \/ issuanceNeeded(snap.spec, secrets[snap.spec.secret])'
             \/ issuanceNeeded(snap.spec, replaced[snap.spec.secret])'
  <2> DEFINE s == cObj[o].spec.secret
  <2>1. /\ UNCHANGED <<secrets, certs, now>> /\ snap' = cObj[o]
        /\ issuanceNeeded(cObj[o].spec, cSecrets[s])
    BY <1>1 DEF ReconcileDue, Take, api, kmp
  <2>2. s \in SecretNames
    BY <1>1, SpecsAssumption DEF ReconcileDue, PairInv, TypeOK, CacheTypes, ObjectType
  <2>3. cSecrets[s] \in {secrets[s], replaced[s]} /\ replaced'[s] = replaced[s]
    BY <2>1, <2>2 DEF HistoryInv, CacheRecent, Remember
  <2> QED
    BY <2>1, <2>3 DEF issuanceNeeded, holdsPair, matchesSpec, renewalTime
<1>2. ASSUME pc \in InIssue, UNCHANGED snap,
             UNCHANGED secrets \/ \E s \in SecretNames : DeleteSecret(s),
             UNCHANGED now \/ now' = now + 1
      PROVE  \/ issuanceNeeded(snap.spec, secrets[snap.spec.secret])'
             \/ issuanceNeeded(snap.spec, replaced[snap.spec.secret])'
  <2> DEFINE s == snap.spec.secret
  <2>1. LogsGrow /\ now \in Nat /\ now' \in Nat /\ now <= now'
    BY <1>2, NextLogs DEF PairInv, TypeOK, RestTypes
  <2>2. snap.spec \in Specs /\ s \in SecretNames
    BY <1>2, SpecsAssumption DEF PairInv, TypeOK, WorkerTypes, ObjectType, InIssue, Steps
  <2>3. secrets'[s] = secrets[s] /\ replaced'[s] = replaced[s]
    BY <1>2, <2>2 DEF DeleteSecret, PairInv, TypeOK, APITypes, Remember
  <2>4. issuanceNeeded(snap.spec, secrets[s]) \/ issuanceNeeded(snap.spec, replaced[s])
    BY <1>2, <2>3 DEF HistoryInv, CalledFor
  <2>5. /\ holdsPair(secrets[s]) => secrets[s].leaf \in 1..Len(certs)
        /\ holdsPair(replaced[s]) => replaced[s].leaf \in 1..Len(certs)
    BY <2>2 DEF PairInv, SecretsRefer, HistoryInv, ReplacedRefers
  <2>6. ASSUME NEW secret, secret \in {secrets[s], replaced[s]}, issuanceNeeded(snap.spec, secret)
        PROVE  holdsPair(secret) =>
                 \/ ~matchesSpec(snap.spec, certs'[secret.leaf].id)
                 \/ now' >= renewalTime(certs'[secret.leaf], snap.spec.renewBefore)
    BY <2>1, <2>2, <2>5, <2>6, StillNeeded
  <2>7. CASE issuanceNeeded(snap.spec, secrets[s])
    BY <1>2, <2>3, <2>6, <2>7 DEF issuanceNeeded, holdsPair, matchesSpec, renewalTime
  <2>8. CASE issuanceNeeded(snap.spec, replaced[s])
    BY <1>2, <2>3, <2>6, <2>8 DEF issuanceNeeded, holdsPair, matchesSpec, renewalTime
  <2> QED
    BY <2>4, <2>7, <2>8
<1> QED
  BY <1>1, <1>2, InIssueSteps

\* The history only watches.
LEMMA HistoryImpliesSpec == HistorySpec => Spec
<1>1. HistoryInit => Init
  BY DEF HistoryInit
<1>2. [Next /\ Remember]_historyVars => [Next]_vars
  BY DEF historyVars
<1> QED
  BY <1>1, <1>2, PTL DEF HistorySpec, Spec

\* Whatever the informer caches hold when they are read, and whoever deletes,
\* edits or signs between the decision to issue and the write, a certificate is
\* replaced only when it, or else what the Secret was before it, called for it
\* (issuanceNeeded, writeSecret).
THEOREM ReplacedAtMostOnceTooOften == HistorySpec => ReplacedOnceTooOften
<1>1. ASSUME PairInv, HistoryInv, [Next /\ Remember]_historyVars, NEW s \in SecretNames,
             holdsPair(secrets[s]), holdsPair(secrets'[s]), secrets'[s] # secrets[s]
      PROVE  issuanceNeeded(snap.spec, secrets[s]) \/ issuanceNeeded(snap.spec, replaced[s])
  <2>1. [Next]_vars
    BY <1>1 DEF historyVars
  <2>2. pc = "write" /\ s = snap.spec.secret
    BY <1>1, <2>1, SecretChanges DEF holdsPair
  <2> QED
    BY <1>1, <2>2 DEF HistoryInv, CalledFor, InIssue, Steps, holdsPair
<1>2. PairInv /\ HistoryInv /\ [Next /\ Remember]_historyVars =>
        [ \A s \in SecretNames :
            holdsPair(secrets[s]) /\ holdsPair(secrets'[s]) /\ secrets'[s] # secrets[s] =>
              \/ issuanceNeeded(snap.spec, secrets[s])
              \/ issuanceNeeded(snap.spec, replaced[s]) ]_historyVars
  BY <1>1
<1>3. HistoryInit => HistoryInv
  BY DEF HistoryInit, Init, HistoryInv, CacheRecent, ReplacedRefers, CalledFor, InIssue,
         Steps, holdsPair
<1>4. PairInv /\ HistoryInv /\ [Next /\ Remember]_historyVars => HistoryInv'
  <2> SUFFICES ASSUME PairInv, HistoryInv, [Next /\ Remember]_historyVars
               PROVE  HistoryInv'
    OBVIOUS
  <2>1. CASE Next /\ Remember
    BY <2>1, RecentStep, ReplacedStep, CalledForStep DEF HistoryInv
  <2>2. CASE UNCHANGED historyVars
    BY <2>2 DEF historyVars, vars, api, caches, worker, kmp, HistoryInv, CacheRecent,
                ReplacedRefers, CalledFor, issuanceNeeded, holdsPair, matchesSpec, renewalTime
  <2> QED
    BY <2>1, <2>2
<1> QED
  BY <1>2, <1>3, <1>4, Invariance, HistoryImpliesSpec, PTL DEF HistorySpec, ReplacedOnceTooOften

-----------------------------------------------------------------------------
(***************************************************************************)
(* The escrow controller implements CertificateStore, and the window in    *)
(* which a certificate is not due.                                         *)
(***************************************************************************)

\* What a step does to the certificates and the Secrets: nothing, one more
\* certificate, one Secret less, or the write of the worker.
Issues ==
    /\ UNCHANGED secrets /\ Len(certs') = Len(certs) + 1
    /\ \A n \in 1..Len(certs) : certs'[n] = certs[n]
    /\ certs'[Len(certs) + 1].csr \in Nat

Deletes ==
    /\ UNCHANGED certs
    /\ \E s \in SecretNames : secrets' = [ secrets EXCEPT ![s] = Absent ]

Writes ==
    /\ UNCHANGED certs /\ pc = "write" /\ writable(snap.spec.secret)
    /\ secrets' = [ secrets EXCEPT ![snap.spec.secret] = desiredSecret(cSecrets[snap.spec.secret]) ]

\* Signing a stored CSR is the only thing that adds a certificate.
LEMMA IssueIssues ==
    ASSUME PairInv, NEW csr \in 1..Len(csrs), NEW t, Issue(csr, t), UNCHANGED secrets
    PROVE  Issues
<1>0. ServiceTypes /\ now \in Nat /\ Len(csrs) \in Nat
  BY LogLengths DEF PairInv, TypeOK, RestTypes
<1>1. /\ Len(certs') = Len(certs) + 1
      /\ \A n \in 1..Len(certs) : certs'[n] = certs[n]
      /\ certs'[Len(certs) + 1].csr = csr
  BY <1>0, IssueTypes
<1> QED  BY <1>0, <1>1 DEF Issues

\* Every step is of one of the four kinds.
LEMMA StepKinds ==
    ASSUME PairInv, [Next]_vars
    PROVE  UNCHANGED <<secrets, certs>> \/ Issues \/ Deletes \/ Writes
<1>1. CASE SignStoredCSR
  <2>1. att.csr \in 1..Len(csrs) /\ UNCHANGED secrets
    BY <1>1 DEF SignStoredCSR, PairInv, AttemptRefers, Elsewhere, api
  <2>2. UNCHANGED certs \/ \E t \in TemplatesInUse : Issue(att.csr, t)
    BY <1>1 DEF SignStoredCSR, kmp
  <2> QED  BY <2>1, <2>2, IssueIssues
<1>2. CASE OutsideSigns
  <2>1. PICK i \in OutsideCSRs, t \in TemplatesInUse : Issue(i, t)
    BY <1>2 DEF OutsideSigns
  <2>2. i \in 1..Len(csrs) /\ UNCHANGED secrets
    BY <1>2 DEF OutsideCSRs, OutsideSigns, api
  <2> QED  BY <2>1, <2>2, IssueIssues
<1>3. CASE WriteSecret
  BY <1>3 DEF WriteSecret, Writes, kmp
<1>4. ASSUME NEW s \in SecretNames, DeleteSecret(s) PROVE Deletes
  BY <1>4 DEF DeleteSecret, Deletes, kmp
<1>5. CASE CreateCSR
  BY <1>5 DEF CreateCSR, StoreCSR, Elsewhere, api, kmp
<1>6. CASE WorkerStep /\ ~SignStoredCSR /\ ~WriteSecret /\ ~CreateCSR
  BY <1>6 DEF WorkerStep, ReconcileGone, ReconcileCurrent, ReconcileDue, Take, Prepare,
              StoreFull, ResolveCSRID, FetchCertificate, ExportAndVerify, Finish,
              Elsewhere, api, kmp
<1>7. CASE Service /\ ~OutsideSigns
  BY <1>7 DEF Service, ListCSR, PublishCertificate, OutsideStores, StoreCSR, api
<1>8. CASE Users /\ ~\E s \in SecretNames : DeleteSecret(s)
  BY <1>8 DEF Users, EditSpec, DeleteObject, ChangeEnvironment, api, kmp
<1>9. CASE Informers \/ Crash \/ Tick \/ Wait \/ UNCHANGED vars
  BY <1>9 DEF Informers, SyncObject, SyncSecret, TimerFires, Crash, Tick, Wait, vars, api, kmp
<1> QED
  BY <1>1, <1>2, <1>3, <1>4, <1>5, <1>6, <1>7, <1>8, <1>9 DEF Next

-----------------------------------------------------------------------------
(***************************************************************************)
(* The refinement.                                                         *)
(***************************************************************************)
Held == [ s \in SecretNames |-> Shown(secrets[s]) ]

\* Empty and prepared Secrets are what the store starts with.
LEMMA InitRefines == Init => Store!Init
<1> SUFFICES ASSUME Init PROVE Store!Init
  OBVIOUS
<1>1. StoredKeys = <<>>
  BY DEF Init, StoredKeys
<1>2. ASSUME NEW s \in SecretNames
      PROVE  Shown(secrets[s]) \in {Store!Empty, Store!Prepared}
  <2>1. secrets[s] \in {EmptySecret, Absent}
    BY DEF Init
  <2>2. EmptySecret # Absent
    <3>1. EmptySecret.exists # Absent.exists
      BY DEF EmptySecret, Absent
    <3> QED  BY <3>1
  <2>3. CASE secrets[s] = Absent
    BY <2>3 DEF Shown, Store!Empty
  <2>4. CASE secrets[s] = EmptySecret
    <3>1. Shown(secrets[s]) = [ taken |-> TRUE, owner |-> NoObject, cert |-> NoID, key |-> NoID ]
      BY <2>2, <2>4 DEF Shown, EmptySecret
    <3> QED  BY <3>1 DEF Store!Prepared, Store!Holding, Store!NoOne, NoObject, NoID
  <2> QED  BY <2>1, <2>3, <2>4
<1> QED  BY <1>1, <1>2 DEF Store!Init

\* One more certificate is Issue.
LEMMA IssuesRefines ==
    ASSUME PairInv, Issues
    PROVE  Store!Issue
<1>0. Len(certs) \in Nat
  BY LogLengths DEF PairInv, TypeOK
<1>1. /\ Len(StoredKeys) = Len(certs) /\ Len(StoredKeys') = Len(certs) + 1
      /\ \A n \in 1..Len(certs) : StoredKeys[n] = certs[n].csr /\ StoredKeys'[n] = certs'[n].csr
      /\ StoredKeys'[Len(certs) + 1] = certs'[Len(certs) + 1].csr
  BY <1>0 DEF Issues, StoredKeys
<1>2. Held' = Held
  BY DEF Issues, Held, Shown
<1> QED  BY <1>0, <1>1, <1>2 DEF Issues, Store!Issue, Held

\* A Secret less is GiveUp.
LEMMA DeletesRefines ==
    ASSUME PairInv, Deletes
    PROVE  \E s \in SecretNames : Store!GiveUp(s)
<1>0. secrets \in [ SecretNames -> SecretType \cup {Absent} ]
  BY DEF PairInv, TypeOK, APITypes
<1>1. PICK s \in SecretNames : secrets' = [ secrets EXCEPT ![s] = Absent ]
  BY DEF Deletes
<1>2. Held' = [ Held EXCEPT ![s] = Store!Empty ]
  BY <1>0, <1>1 DEF Held, Shown, Store!Empty
<1>3. StoredKeys' = StoredKeys
  BY DEF Deletes, StoredKeys
<1> QED  BY <1>2, <1>3 DEF Store!GiveUp, Held

\* The write of the worker is Publish: the certificate exists, the key beside it
\* is its own, and the Secret is free or was the writer's before.
LEMMA WritesRefines ==
    ASSUME PairInv, Writes
    PROVE  \E s \in SecretNames : Store!Publish(s)
<1> DEFINE s == snap.spec.secret
<1>0. secrets \in [ SecretNames -> SecretType \cup {Absent} ] /\ Len(certs) \in Nat
  BY LogLengths DEF PairInv, TypeOK, APITypes
<1>1. cur \in Objects /\ snap.spec \in Specs
  BY DEF Writes, PairInv, TypeOK, WorkerTypes, ObjectType
<1>2. s \in SecretNames
  BY <1>1, SpecsAssumption
<1>3. att.leaf \in 1..Len(certs) /\ certs[att.leaf].csr = att.csr
  BY DEF Writes, PairInv, AttemptRefers
<1>4. StoredKeys' = StoredKeys
  BY DEF Writes, StoredKeys
<1>5. Len(StoredKeys) = Len(certs) /\ StoredKeys[att.leaf] = att.csr
  BY <1>0, <1>3 DEF StoredKeys
<1>6. Store!Free(s, cur)
  <2>1. secrets[s] # Absent => secrets[s].owner \in {cur, NoObject}
    BY DEF Writes, writable
  <2>2. Held[s] = Shown(secrets[s])
    BY <1>2 DEF Held
  <2> QED  BY <2>1, <2>2 DEF Store!Free, Store!NoOne, NoObject, Shown, Held
<1>7. Held' = [ Held EXCEPT ![s] = Store!Holding(cur, att.leaf, StoredKeys[att.leaf]) ]
  <2>1. Shown(desiredSecret(cSecrets[s])) = Store!Holding(cur, att.leaf, StoredKeys[att.leaf])
    BY <1>5 DEF Shown, desiredSecret, Absent, Store!Holding
  <2>2. ASSUME NEW x \in SecretNames
        PROVE  secrets'[x] = IF x = s THEN desiredSecret(cSecrets[s]) ELSE secrets[x]
    BY <1>0, <1>2 DEF Writes
  <2>3. ASSUME NEW x \in SecretNames
        PROVE  Shown(secrets'[x]) = IF x = s THEN Store!Holding(cur, att.leaf, StoredKeys[att.leaf])
                                    ELSE Shown(secrets[x])
    BY <2>1, <2>2
  <2> QED  BY <2>3 DEF Held
<1> HIDE DEF s
<1>8. Store!Publish(s)
  <2>1. att.leaf \in 1..Len(StoredKeys)
    BY <1>3, <1>5
  <2> QED  BY <1>1, <1>4, <1>6, <1>7, <2>1 DEF Store!Publish, Held
<1> QED  BY <1>2, <1>8

\* Through crashes, lost answers, stale caches and other users, for every number
\* of resources, Secrets and certificates, the controller implements the
\* certificate store: what is in a Secret has been issued, is beside its own
\* key, and belongs to one resource until it is given up (Reconcile, writeSecret).
THEOREM EscrowImplementsStore == Spec => ImplementsStore
<1>1. PairInv /\ [Next]_vars => [Store!Next]_(Store!vars)
  <2> SUFFICES ASSUME PairInv, [Next]_vars PROVE [Store!Next]_(Store!vars)
    OBVIOUS
  <2>1. CASE UNCHANGED <<secrets, certs>>
    <3>1. StoredKeys' = StoredKeys /\ Held' = Held
      BY <2>1 DEF StoredKeys, Held, Shown
    <3> QED  BY <3>1 DEF Store!vars, Held
  <2>2. CASE Issues
    BY <2>2, IssuesRefines DEF Store!Next
  <2>3. CASE Deletes
    BY <2>3, DeletesRefines DEF Store!Next
  <2>4. CASE Writes
    BY <2>4, WritesRefines DEF Store!Next
  <2> QED  BY <2>1, <2>2, <2>3, <2>4, StepKinds
<1> QED
  BY <1>1, InitRefines, Invariance, PTL DEF Spec, ImplementsStore, Store!Spec

-----------------------------------------------------------------------------
\* A certificate is not due when it has just been issued exactly when renewBefore
\* is shorter than its lifetime; from there on every reconcile issues another
\* one (renewalTime, issuanceNeeded).
THEOREM RenewalWindow ==
    ASSUME NEW cert \in CertType, cert.notAfter = cert.notBefore + Lifetime,
           NEW renewBefore \in Nat
    PROVE  (renewalTime(cert, renewBefore) > cert.notBefore) <=> (renewBefore < Lifetime)
<1>1. cert.notBefore \in Int /\ cert.notAfter \in Int
  BY DEF CertType
<1>2. cert.notAfter - cert.notBefore = Lifetime
  BY <1>1, LifetimeAssumption
<1>3. Lifetime \div 3 \in Nat /\ Lifetime \div 3 < Lifetime
  BY LifetimeAssumption
<1> QED
  BY <1>1, <1>2, <1>3, LifetimeAssumption DEF renewalTime

-----------------------------------------------------------------------------
(***************************************************************************)
(* One attempt, one CSR.  Where Key Manager Plus reports ids, an attempt   *)
(* works on the request it stored itself, which nobody has signed before;  *)
(* what it publishes is then newer than anything in a Secret.  Neither     *)
(* SignedOnce nor PublishedForward is inductive without this.              *)
(***************************************************************************)
InAttempt == {"resolve", "sign", "fetch", "export", "write"}

\* The CSR of the attempt is the record createCSR stored for it.
OwnRequest ==
    pc \in InAttempt /\ ReportsID =>
        /\ att.csr \in 1..Len(csrs)
        /\ csrs[att.csr] = [ id |-> provisionRequest(snap.spec), password |-> att.password,
                             origin |-> "escrow" ]

\* Nobody has signed it before the attempt does.
NotSigned ==
    pc \in {"resolve", "sign"} /\ ReportsID =>
        \A n \in 1..Len(certs) : certs[n].csr # att.csr

\* What the attempt had signed is newer than what the Secrets hold.
SignedNew ==
    pc \in {"fetch", "export", "write"} =>
        \A s \in SecretNames : holdsPair(secrets[s]) =>
            /\ ReportsID => \A n \in 1..Len(certs) :
                              certs[n].csr = att.csr => n > secrets[s].leaf
            /\ ReportsSerial => att.serial > secrets[s].leaf

\* A certificate that was asked for by its serial number is that one.
FetchedSerial ==
    /\ pc = "export" /\ att.serial # NoID => att.fetched \subseteq {att.serial}
    /\ pc = "write" /\ att.serial # NoID => att.leaf = att.serial

OwnInv == OwnRequest /\ NotSigned /\ SignedNew /\ FetchedSerial /\ (ReportsID => SignedOnce)

\* The templates in use leave the organization alone.
OrganizationKept ==
    \A n \in 1..Len(certs) : certs[n].id.org = csrs[certs[n].csr].id.org

-----------------------------------------------------------------------------
(***************************************************************************)
(* What each call leaves behind when the attempt goes on after it.         *)
(***************************************************************************)

\* The attempt goes on only by its own calls.
LEMMA AttemptSteps ==
    ASSUME [Next]_vars, pc' \in InAttempt
    PROVE  \/ CreateCSR \/ ResolveCSRID \/ SignStoredCSR \/ FetchCertificate \/ ExportAndVerify
           \/ UNCHANGED <<pc, snap, att>>
<1>1. CASE WorkerStep
  BY <1>1 DEF WorkerStep, ReconcileGone, ReconcileCurrent, ReconcileDue, Take, Prepare, StoreFull,
              WriteSecret, Finish, Return, Fail, Go, worker, InAttempt
<1>2. CASE ~WorkerStep
  BY <1>2 DEF Next, Informers, SyncObject, SyncSecret, TimerFires, Users, EditSpec, DeleteObject,
              DeleteSecret, ChangeEnvironment, Service, ListCSR, PublishCertificate, OutsideStores,
              OutsideSigns, Crash, Tick, Wait, vars, worker, InAttempt
<1> QED  BY <1>1, <1>2

\* createCSR stored the request of the spec in hand under the attempt's password.
LEMMA CreateOutcome ==
    ASSUME PairInv, CreateCSR, pc' \in InAttempt
    PROVE  /\ pc' = "resolve" /\ UNCHANGED <<snap, secrets, certs>>
           /\ Len(csrs') = Len(csrs) + 1
           /\ csrs'[Len(csrs) + 1] = [ id |-> provisionRequest(snap.spec),
                                       password |-> att'.password, origin |-> "escrow" ]
           /\ ReportsID => att'.csr = Len(csrs) + 1
<1> DEFINE password == IF snap.spec.password = "generated" THEN FreshPassword ELSE UserPassword
           i == IF ReportsID THEN Len(csrs) + 1 ELSE NoID
<1>1. /\ StoreCSR(provisionRequest(snap.spec), password, "escrow") /\ Go("resolve")
      /\ att' = [ att EXCEPT !.password = password, !.csr = i ]
  BY DEF CreateCSR, Fail, InAttempt
<1>2. att \in AttemptType /\ csrs \in Seq(CSRType) /\ UNCHANGED secrets
  BY DEF PairInv, TypeOK, WorkerTypes, ServiceTypes, CreateCSR, Elsewhere, api
<1> HIDE DEF password, i
<1>3. att'.password = password /\ att'.csr = i
  BY <1>1, <1>2 DEF AttemptType
<1>4. /\ csrs' = Append(csrs, [ id |-> provisionRequest(snap.spec), password |-> password,
                                origin |-> "escrow" ])
      /\ UNCHANGED certs
  BY <1>1 DEF StoreCSR
<1>5. /\ Len(csrs') = Len(csrs) + 1
      /\ csrs'[Len(csrs) + 1] = [ id |-> provisionRequest(snap.spec), password |-> password,
                                  origin |-> "escrow" ]
  BY <1>2, <1>4
<1> QED  BY <1>1, <1>2, <1>3, <1>4, <1>5 DEF Go, i

\* An id that was reported is not looked up.
LEMMA ResolveOutcome ==
    ASSUME PairInv, ResolveCSRID, pc' \in InAttempt
    PROVE  /\ pc = "resolve" /\ pc' = "sign" /\ UNCHANGED <<snap, secrets, csrs, certs>>
           /\ att.csr # NoID => att' = att
BY Zenon DEF ResolveCSRID, Fail, Go, Elsewhere, api, kmp, InAttempt

\* signCSR signed the CSR of the attempt, and reports the serial number or none.
LEMMA SignOutcome ==
    ASSUME PairInv, SignStoredCSR, pc' \in InAttempt
    PROVE  /\ pc = "sign" /\ pc' = "fetch" /\ UNCHANGED <<snap, secrets, csrs>>
           /\ Len(certs') = Len(certs) + 1 /\ certs'[Len(certs) + 1].csr = att.csr
           /\ \A n \in 1..Len(certs) : certs'[n] = certs[n]
           /\ att'.csr = att.csr /\ att'.password = att.password
           /\ att'.serial = IF ReportsSerial THEN Len(certs) + 1 ELSE NoID
<1> DEFINE n == IF ReportsSerial THEN Len(certs) + 1 ELSE NoID
<1>1. PICK t \in TemplatesInUse : /\ Issue(att.csr, t) /\ Go("fetch")
                                  /\ att' = [ att EXCEPT !.serial = n ]
  BY DEF SignStoredCSR, Fail, InAttempt
<1>2. /\ pc = "sign" /\ UNCHANGED secrets /\ att \in AttemptType /\ ServiceTypes /\ now \in Nat
      /\ att.csr \in 1..Len(csrs)
  BY DEF SignStoredCSR, Elsewhere, api, PairInv, TypeOK, WorkerTypes, RestTypes, AttemptRefers
<1> HIDE DEF n
<1>3. att'.csr = att.csr /\ att'.password = att.password /\ att'.serial = n
  BY <1>1, <1>2 DEF AttemptType
<1>4. /\ Len(certs') = Len(certs) + 1 /\ certs'[Len(certs) + 1].csr = att.csr
      /\ \A m \in 1..Len(certs) : certs'[m] = certs[m]
      /\ csrs' = csrs
  BY <1>1, <1>2, IssueTypes
<1> QED  BY <1>1, <1>2, <1>3, <1>4 DEF Go, n

\* A poll changes nothing; a fetch by serial number brings that certificate.
LEMMA FetchOutcome ==
    ASSUME PairInv, FetchCertificate, pc' \in InAttempt
    PROVE  /\ pc = "fetch" /\ pc' \in {"fetch", "export"} /\ UNCHANGED <<snap, secrets, csrs, certs>>
           /\ att'.csr = att.csr /\ att'.password = att.password /\ att'.serial = att.serial
           /\ pc' = "export" /\ att.serial # NoID => att'.fetched \subseteq {att.serial}
<1>0. pc = "fetch" /\ UNCHANGED <<secrets, csrs, certs>> /\ att \in AttemptType
  BY DEF FetchCertificate, Elsewhere, api, kmp, PairInv, TypeOK, WorkerTypes
<1> DEFINE candidates == PublishedFor(csrs, certs, published, snap.spec.commonName, att.serial)
<1>1. att.serial # NoID => candidates \subseteq {att.serial}
  BY DEF PublishedFor
<1> HIDE DEF candidates
<1>2. \/ \E returned \in SUBSET candidates :
           Go("export") /\ att' = [ att EXCEPT !.fetched = returned ]
      \/ Go("fetch") /\ att' = [ att EXCEPT !.polls = @ + 1 ]
  BY DEF FetchCertificate, Fail, InAttempt, candidates
<1>3. CASE \E returned \in SUBSET candidates :
             Go("export") /\ att' = [ att EXCEPT !.fetched = returned ]
  BY <1>0, <1>1, <1>3 DEF Go, AttemptType
<1>4. CASE Go("fetch") /\ att' = [ att EXCEPT !.polls = @ + 1 ]
  BY <1>0, <1>4 DEF Go, AttemptType
<1> QED  BY <1>2, <1>3, <1>4

\* The leaf is one of the certificates that were fetched.
LEMMA ExportOutcome ==
    ASSUME PairInv, ExportAndVerify, pc' \in InAttempt
    PROVE  /\ pc = "export" /\ pc' = "write" /\ UNCHANGED <<snap, secrets, csrs, certs>>
           /\ att'.csr = att.csr /\ att'.password = att.password /\ att'.serial = att.serial
           /\ att'.leaf \in att.fetched
<1>0. pc = "export" /\ UNCHANGED <<secrets, csrs, certs>> /\ att \in AttemptType
  BY DEF ExportAndVerify, Elsewhere, api, kmp, PairInv, TypeOK, WorkerTypes
<1>1. PICK leaf \in leavesFor(att.csr) : Go("write") /\ att' = [ att EXCEPT !.leaf = leaf ]
  BY DEF ExportAndVerify, Fail, InAttempt
<1> QED  BY <1>0, <1>1 DEF Go, AttemptType, leavesFor

-----------------------------------------------------------------------------
\* A certificate that appears is for the CSR of an attempt, which then no longer
\* waits to sign, or for a CSR of someone else that nobody had signed.
LEMMA NewCertificate ==
    ASSUME PairInv, [Next]_vars, certs' # certs
    PROVE  \E i \in 1..Len(csrs) :
             /\ Len(certs') = Len(certs) + 1 /\ certs'[Len(certs) + 1].csr = i
             /\ \A n \in 1..Len(certs) : certs'[n] = certs[n]
             /\ UNCHANGED csrs
             /\ \/ pc = "sign" /\ i = att.csr /\ pc' \in {"fetch", "finish"}
                \/ /\ csrs[i].origin # "escrow" /\ UNCHANGED <<pc, snap, att>>
                   /\ \A n \in 1..Len(certs) : certs[n].csr # i
<1>0. ServiceTypes /\ now \in Nat
  BY DEF PairInv, TypeOK, RestTypes
<1>1. CASE SignStoredCSR
  <2>1. PICK t \in TemplatesInUse : Issue(att.csr, t)
    BY <1>1 DEF SignStoredCSR, kmp
  <2>2. att.csr \in 1..Len(csrs) /\ pc = "sign" /\ pc' \in {"fetch", "finish"}
    BY <1>1 DEF SignStoredCSR, Fail, Go, PairInv, AttemptRefers
  <2>3. /\ Len(certs') = Len(certs) + 1 /\ certs'[Len(certs) + 1].csr = att.csr
        /\ \A n \in 1..Len(certs) : certs'[n] = certs[n]
        /\ UNCHANGED csrs
    BY <1>0, <2>1, <2>2, IssueTypes
  <2> QED  BY <2>2, <2>3
<1>2. CASE OutsideSigns
  <2>1. PICK i \in OutsideCSRs, t \in TemplatesInUse :
          (\A n \in 1..Len(certs) : certs[n].csr # i) /\ Issue(i, t)
    BY <1>2 DEF OutsideSigns
  <2>2. i \in 1..Len(csrs) /\ csrs[i].origin # "escrow" /\ UNCHANGED <<pc, snap, att>>
    BY <1>2 DEF OutsideCSRs, OutsideSigns, worker
  <2>3. /\ Len(certs') = Len(certs) + 1 /\ certs'[Len(certs) + 1].csr = i
        /\ \A n \in 1..Len(certs) : certs'[n] = certs[n]
        /\ UNCHANGED csrs
    BY <1>0, <2>1, <2>2, IssueTypes
  <2> QED  BY <2>1, <2>2, <2>3
<1>3. CASE WorkerStep /\ ~SignStoredCSR
  BY <1>3 DEF WorkerStep, ReconcileGone, ReconcileCurrent, ReconcileDue, Take, Prepare, CreateCSR,
              StoreCSR, StoreFull, ResolveCSRID, FetchCertificate, ExportAndVerify, WriteSecret,
              Finish, kmp
<1>4. CASE ~WorkerStep /\ ~OutsideSigns
  BY <1>4 DEF Next, Informers, SyncObject, SyncSecret, TimerFires, Users, EditSpec, DeleteObject,
              DeleteSecret, ChangeEnvironment, Service, ListCSR, PublishCertificate, OutsideStores,
              StoreCSR, Crash, Tick, Wait, vars, kmp
<1> QED  BY <1>1, <1>2, <1>3, <1>4

\* The attempt keeps to the request it stored.
LEMMA OwnRequestStep ==
    ASSUME PairInv, OwnRequest, [Next]_vars
    PROVE  OwnRequest'
<1> SUFFICES ASSUME pc' \in InAttempt, ReportsID
             PROVE  /\ att'.csr \in 1..Len(csrs')
                    /\ csrs'[att'.csr] = [ id |-> provisionRequest(snap'.spec),
                                           password |-> att'.password, origin |-> "escrow" ]
  BY DEF OwnRequest, InAttempt, provisionRequest, Identity
<1>0. LogsGrow /\ Len(csrs) \in Nat
  BY NextLogs, LogLengths DEF PairInv, TypeOK
<1>1. CASE CreateCSR
  BY <1>0, <1>1, CreateOutcome DEF LogsGrow
<1>2. CASE UNCHANGED snap /\ att'.csr = att.csr /\ att'.password = att.password /\ pc \in InAttempt
  <2>1. /\ att.csr \in 1..Len(csrs)
        /\ csrs[att.csr] = [ id |-> provisionRequest(snap.spec), password |-> att.password,
                             origin |-> "escrow" ]
    BY <1>2 DEF OwnRequest
  <2>2. csrs'[att.csr] = csrs[att.csr] /\ att.csr \in 1..Len(csrs')
    BY <1>0, <2>1 DEF LogsGrow
  <2> QED  BY <1>2, <2>1, <2>2
<1>3. CASE ResolveCSRID
  <2>1. pc = "resolve" /\ UNCHANGED snap /\ (att.csr # NoID => att' = att)
    BY <1>3, ResolveOutcome
  <2>2. att.csr # NoID
    BY <1>0, <2>1 DEF OwnRequest, InAttempt, NoID
  <2> QED  BY <1>2, <2>1, <2>2 DEF InAttempt
<1>4. CASE SignStoredCSR
  BY <1>2, <1>4, SignOutcome DEF InAttempt
<1>5. CASE FetchCertificate
  BY <1>2, <1>5, FetchOutcome DEF InAttempt
<1>6. CASE ExportAndVerify
  BY <1>2, <1>6, ExportOutcome DEF InAttempt
<1>7. CASE UNCHANGED <<pc, snap, att>>
  BY <1>2, <1>7
<1> QED  BY <1>1, <1>3, <1>4, <1>5, <1>6, <1>7, AttemptSteps

\* Nobody else signs it.
LEMMA NotSignedStep ==
    ASSUME PairInv, OwnRequest, NotSigned, [Next]_vars
    PROVE  NotSigned'
<1> SUFFICES ASSUME pc' \in {"resolve", "sign"}, ReportsID, NEW n \in 1..Len(certs')
             PROVE  certs'[n].csr # att'.csr
  BY DEF NotSigned
<1>0. Len(csrs) \in Nat /\ Len(certs) \in Nat /\ CertsRefer /\ pc' \in InAttempt
  BY LogLengths DEF PairInv, TypeOK, InAttempt
<1>1. CASE CreateCSR
  BY <1>0, <1>1, CreateOutcome DEF CertsRefer
<1>2. CASE ResolveCSRID
  <2>1. pc = "resolve" /\ UNCHANGED certs /\ (att.csr # NoID => att' = att)
    BY <1>0, <1>2, ResolveOutcome
  <2>2. att.csr # NoID
    BY <1>0, <2>1 DEF OwnRequest, InAttempt, NoID
  <2> QED  BY <2>1, <2>2 DEF NotSigned
<1>3. CASE UNCHANGED <<pc, snap, att>>
  <2>1. CASE UNCHANGED certs
    BY <1>3, <2>1 DEF NotSigned
  <2>2. CASE certs' # certs
    <3>1. csrs[att.csr].origin = "escrow"
      BY <1>0, <1>3 DEF OwnRequest
    <3> QED  BY <1>0, <1>3, <2>2, <3>1, NewCertificate DEF NotSigned
  <2> QED  BY <2>1, <2>2
<1> QED
  BY <1>0, <1>1, <1>2, <1>3, AttemptSteps, SignOutcome, FetchOutcome, ExportOutcome

\* An attempt goes on beside Secrets that only get fewer.
LEMMA SecretsOnlyRemoved ==
    ASSUME PairInv, [Next]_vars, pc' \in {"fetch", "export", "write"},
           NEW s \in SecretNames, holdsPair(secrets'[s])
    PROVE  secrets'[s] = secrets[s]
<1>0. secrets \in [ SecretNames -> SecretType \cup {Absent} ]
  BY DEF PairInv, TypeOK, APITypes
<1>1. pc' \in InIssue /\ secrets'[s] # Absent
  BY DEF InIssue, Steps, holdsPair
<1>2. UNCHANGED secrets \/ \E x \in SecretNames : DeleteSecret(x)
  BY <1>1, InIssueSteps DEF ReconcileDue
<1>3. ASSUME NEW x \in SecretNames, DeleteSecret(x)
      PROVE  secrets'[s] = secrets[s]
  BY <1>0, <1>1, <1>3 DEF DeleteSecret
<1> QED  BY <1>2, <1>3

\* What the attempt has signed comes after what was signed before it.
LEMMA SignedNewStep ==
    ASSUME PairInv, OwnRequest, NotSigned, SignedNew, [Next]_vars
    PROVE  SignedNew'
<1> SUFFICES ASSUME pc' \in {"fetch", "export", "write"}, NEW s \in SecretNames,
                    holdsPair(secrets'[s])
             PROVE  /\ ReportsID => \A n \in 1..Len(certs') :
                                      certs'[n].csr = att'.csr => n > secrets'[s].leaf
                    /\ ReportsSerial => att'.serial > secrets'[s].leaf
  BY DEF SignedNew, holdsPair, Absent
<1>0. /\ Len(csrs) \in Nat /\ Len(certs) \in Nat /\ pc' \in InAttempt
      /\ secrets'[s] = secrets[s]
  BY LogLengths, SecretsOnlyRemoved DEF PairInv, TypeOK, InAttempt
<1>1. secrets[s].leaf \in 1..Len(certs) /\ holdsPair(secrets[s])
  BY <1>0 DEF PairInv, SecretsRefer, holdsPair
<1>2. CASE SignStoredCSR
  <2>1. /\ pc = "sign" /\ Len(certs') = Len(certs) + 1 /\ att'.csr = att.csr
        /\ \A n \in 1..Len(certs) : certs'[n] = certs[n]
        /\ att'.serial = IF ReportsSerial THEN Len(certs) + 1 ELSE NoID
    BY <1>0, <1>2, SignOutcome
  <2>2. ReportsID => \A n \in 1..Len(certs) : certs[n].csr # att.csr
    BY <2>1 DEF NotSigned
  <2> QED  BY <1>0, <1>1, <2>1, <2>2
<1>3. CASE /\ pc \in {"fetch", "export"} /\ UNCHANGED certs
           /\ att'.csr = att.csr /\ att'.serial = att.serial
  BY <1>0, <1>1, <1>3 DEF SignedNew
<1>4. CASE UNCHANGED <<pc, snap, att>>
  <2>1. CASE UNCHANGED certs
    BY <1>0, <1>1, <1>4, <2>1 DEF SignedNew
  <2>2. CASE certs' # certs
    <3>1. PICK i \in 1..Len(csrs) :
            /\ Len(certs') = Len(certs) + 1 /\ certs'[Len(certs) + 1].csr = i
            /\ \A n \in 1..Len(certs) : certs'[n] = certs[n]
            /\ csrs[i].origin # "escrow"
      BY <1>4, <2>2, NewCertificate
    <3>2. ReportsID => csrs[att.csr].origin = "escrow"
      BY <1>0, <1>4 DEF OwnRequest
    <3> QED  BY <1>0, <1>1, <1>4, <3>1, <3>2 DEF SignedNew
  <2> QED  BY <2>1, <2>2
<1>5. CASE FetchCertificate
  BY <1>0, <1>3, <1>5, FetchOutcome
<1>6. CASE ExportAndVerify
  BY <1>0, <1>3, <1>6, ExportOutcome
<1> QED
  BY <1>0, <1>2, <1>4, <1>5, <1>6, AttemptSteps, CreateOutcome, ResolveOutcome

\* What was fetched by serial number stays that certificate.
LEMMA FetchedSerialStep ==
    ASSUME PairInv, FetchedSerial, [Next]_vars
    PROVE  FetchedSerial'
<1> SUFFICES ASSUME pc' \in {"export", "write"}, att'.serial # NoID
             PROVE  /\ pc' = "export" => att'.fetched \subseteq {att'.serial}
                    /\ pc' = "write" => att'.leaf = att'.serial
  BY DEF FetchedSerial
<1>0. pc' \in InAttempt
  BY DEF InAttempt
<1>1. CASE FetchCertificate
  BY <1>0, <1>1, FetchOutcome
<1>2. CASE ExportAndVerify
  BY <1>0, <1>2, ExportOutcome DEF FetchedSerial
<1>3. CASE UNCHANGED <<pc, snap, att>>
  BY <1>3 DEF FetchedSerial
<1> QED
  BY <1>0, <1>1, <1>2, <1>3, AttemptSteps, CreateOutcome, ResolveOutcome, SignOutcome

\* A certificate more is no second one for its CSR.
LEMMA SignedOnceStep ==
    ASSUME PairInv, NotSigned, SignedOnce, ReportsID, [Next]_vars
    PROVE  SignedOnce'
<1>0. /\ Len(csrs) \in Nat /\ Len(certs) \in Nat /\ CertsRefer /\ LogsGrow
  BY LogLengths, NextLogs DEF PairInv, TypeOK
<1>1. \A n \in 1..Len(certs) : csrs'[certs[n].csr] = csrs[certs[n].csr]
  BY <1>0 DEF CertsRefer, LogsGrow
<1>2. CASE UNCHANGED certs
  BY <1>1, <1>2 DEF SignedOnce
<1>3. CASE certs' # certs
  <2>1. PICK i \in 1..Len(csrs) :
          /\ Len(certs') = Len(certs) + 1 /\ certs'[Len(certs) + 1].csr = i
          /\ \A n \in 1..Len(certs) : certs'[n] = certs[n]
          /\ \A n \in 1..Len(certs) : certs[n].csr # i
    BY <1>3, NewCertificate DEF NotSigned
  <2>2. ASSUME NEW m \in 1..Len(certs'), NEW n \in 1..Len(certs'),
               certs'[m].csr = certs'[n].csr, csrs'[certs'[n].csr].origin = "escrow"
        PROVE  m = n
    <3>1. CASE m \in 1..Len(certs) /\ n \in 1..Len(certs)
      BY <1>1, <2>1, <2>2, <3>1 DEF SignedOnce
    <3>2. CASE m = Len(certs) + 1 \/ n = Len(certs) + 1
      BY <1>0, <2>1, <2>2, <3>2
    <3> QED  BY <1>0, <2>1, <3>1, <3>2
  <2> QED  BY <2>2 DEF SignedOnce
<1> QED  BY <1>2, <1>3

\* The invariant: an attempt works on one request, its own, from createCSR to the
\* write, and what it signs is new (Provision).
THEOREM OwnRequests == Spec => [](PairInv /\ OwnInv)
<1>1. Init => OwnInv
  BY DEF Init, OwnInv, OwnRequest, NotSigned, SignedNew, FetchedSerial, SignedOnce, InAttempt
<1>2. PairInv /\ OwnInv /\ [Next]_vars => OwnInv'
  <2> SUFFICES ASSUME PairInv, OwnInv, [Next]_vars PROVE OwnInv'
    OBVIOUS
  <2>1. OwnRequest' /\ NotSigned' /\ SignedNew' /\ FetchedSerial'
    BY OwnRequestStep, NotSignedStep, SignedNewStep, FetchedSerialStep DEF OwnInv
  <2>2. ReportsID => SignedOnce'
    BY SignedOnceStep DEF OwnInv
  <2> QED  BY <2>1, <2>2 DEF OwnInv
<1> QED  BY <1>1, <1>2, Invariance, PTL DEF Spec

\* Where createCSR reports the id, no attempt signs the CSR of another: the race
\* of the lookup by name needs an answer without an id (resolveCSRID).
THEOREM SignsOwn ==
    ASSUME ReportsID
    PROVE  Spec => []SignsOwnCSR
<1>1. OwnInv => SignsOwnCSR
  BY DEF OwnInv, OwnRequest, SignsOwnCSR, InAttempt
<1> QED  BY <1>1, OwnRequests, PTL

\* And none of them is signed twice, however often answers are lost, attempts
\* fail after signCSR or the process dies (Provision).
THEOREM SignedOnlyOnce ==
    ASSUME ReportsID
    PROVE  Spec => []SignedOnce
<1>1. OwnInv => SignedOnce
  BY DEF OwnInv
<1> QED  BY <1>1, OwnRequests, PTL

\* Where Key Manager Plus tells which CSR or which certificate is meant, what a
\* Secret shows is only ever replaced by something newer (findLeaf, writeSecret).
THEOREM PublishedOnlyForward ==
    ASSUME ReportsID \/ ReportsSerial
    PROVE  Spec => PublishedForward
<1>1. ASSUME PairInv, OwnInv, [Next]_vars, NEW s \in SecretNames,
             holdsPair(secrets[s]), holdsPair(secrets'[s]), secrets'[s] # secrets[s]
      PROVE  secrets'[s].leaf > secrets[s].leaf
  <2>0. Len(certs) \in Nat /\ secrets'[s] # Absent
    BY <1>1, LogLengths DEF PairInv, TypeOK, holdsPair
  <2>1. pc = "write" /\ secrets'[s] = desiredSecret(cSecrets[s])
    BY <1>1, <2>0, SecretChanges
  <2>2. secrets'[s].leaf = att.leaf
    BY <2>1 DEF desiredSecret
  <2>3. att.leaf \in 1..Len(certs) /\ certs[att.leaf].csr = att.csr
    BY <1>1, <2>1 DEF PairInv, AttemptRefers
  <2>4. secrets[s].leaf \in 1..Len(certs)
    BY <1>1 DEF PairInv, SecretsRefer
  <2>5. CASE ReportsID
    BY <1>1, <2>1, <2>2, <2>3, <2>5 DEF OwnInv, SignedNew
  <2>6. CASE ReportsSerial
    <3>1. att.serial > secrets[s].leaf
      BY <1>1, <2>1, <2>6 DEF OwnInv, SignedNew
    <3>2. att.serial \in Nat
      BY <1>1 DEF PairInv, TypeOK, WorkerTypes, AttemptType, IDs
    <3>3. att.serial # NoID
      BY <2>0, <2>4, <3>1, <3>2 DEF NoID
    <3>4. att.leaf = att.serial
      BY <1>1, <2>1, <3>3 DEF OwnInv, FetchedSerial
    <3> QED  BY <2>2, <3>1, <3>4
  <2> QED  BY <2>5, <2>6
<1>2. PairInv /\ OwnInv /\ [Next]_vars =>
        [ \A s \in SecretNames :
            holdsPair(secrets[s]) /\ holdsPair(secrets'[s]) /\ secrets'[s] # secrets[s] =>
              secrets'[s].leaf > secrets[s].leaf ]_vars
  BY <1>1
<1> QED  BY <1>2, OwnRequests, PTL DEF Spec, PublishedForward

-----------------------------------------------------------------------------
(***************************************************************************)
(* Publishing what matches, with an organization.                          *)
(***************************************************************************)

\* No template in use clears the organization, and the spec has addresses
\* where addresses belong.
OrganizationSafe ==
    /\ "dropsOrganization" \notin TemplatesInUse
    /\ \A sp \in Specs : sp.ipAddresses \subseteq IPs /\ sp.dnsNames \cap IPs = {}

\* The other templates leave the organization alone.
LEMMA TemplateKeepsOrganization ==
    ASSUME NEW id \in Identities, NEW t, t # "dropsOrganization"
    PROVE  CertifiedIdentity(id, t).org = id.org
<1> DEFINE cns == { sp.commonName : sp \in Specs } \cup {"rewritten"}
           orgs == { sp.organization : sp \in Specs } \cup {""}
<1>0. id \in [ cn : cns, dns : SUBSET AltNames, ips : SUBSET AltNames, org : orgs ]
  BY Zenon DEF Identities
<1> HIDE DEF cns, orgs
<1>1. CASE t = "dropsNames"
  <2>1. CertifiedIdentity(id, t) = [ id EXCEPT !.dns = {}, !.ips = {} ]
    BY <1>1 DEF CertifiedIdentity
  <2> QED  BY <1>0, <2>1
<1>2. CASE t = "rewritesName"
  <2>1. CertifiedIdentity(id, t) = [ id EXCEPT !.cn = "rewritten" ]
    BY <1>2 DEF CertifiedIdentity
  <2> QED  BY <1>0, <2>1
<1>3. CASE t \notin {"dropsNames", "rewritesName"}
  BY <1>3 DEF CertifiedIdentity
<1> QED  BY <1>1, <1>2, <1>3

\* What a certificate says comes from its CSR, through a template in use.
LEMMA IssuedFrom ==
    ASSUME PairInv, NEW i \in 1..Len(csrs), NEW t, Issue(i, t)
    PROVE  certs'[Len(certs) + 1].id = CertifiedIdentity(csrs[i].id, t) /\ csrs[i].id \in Identities
<1>0. csrs \in Seq(CSRType) /\ certs \in Seq(CertType)
  BY DEF PairInv, TypeOK, ServiceTypes
<1> DEFINE c == [ csr |-> i, id |-> CertifiedIdentity(csrs[i].id, t),
                  notBefore |-> now, notAfter |-> now + Lifetime ]
<1>1. certs' = Append(certs, c)
  BY DEF Issue
<1>2. c.id = CertifiedIdentity(csrs[i].id, t)
  OBVIOUS
<1> HIDE DEF c
<1>3. certs'[Len(certs) + 1] = c
  BY <1>0, <1>1
<1>4. csrs[i] \in CSRType
  BY <1>0
<1> QED  BY <1>2, <1>3, <1>4 DEF CSRType

LEMMA OrganizationStep ==
    ASSUME OrganizationSafe, PairInv, OrganizationKept, [Next]_vars
    PROVE  OrganizationKept'
<1>0. /\ Len(csrs) \in Nat /\ Len(certs) \in Nat /\ CertsRefer /\ LogsGrow
  BY LogLengths, NextLogs DEF PairInv, TypeOK
<1>1. \A n \in 1..Len(certs) : csrs'[certs[n].csr] = csrs[certs[n].csr]
  BY <1>0 DEF CertsRefer, LogsGrow
<1>2. CASE UNCHANGED certs
  BY <1>1, <1>2 DEF OrganizationKept
<1>3. CASE certs' # certs
  <2>1. \E i \in 1..Len(csrs), t \in TemplatesInUse : Issue(i, t)
    <3>1. CASE SignStoredCSR
      BY <1>3, <3>1 DEF SignStoredCSR, kmp, PairInv, AttemptRefers
    <3>2. CASE OutsideSigns
      BY <3>2 DEF OutsideSigns, OutsideCSRs
    <3>3. CASE WorkerStep /\ ~SignStoredCSR
      BY <1>3, <3>3 DEF WorkerStep, ReconcileGone, ReconcileCurrent, ReconcileDue, Take, Prepare,
                  CreateCSR, StoreCSR, StoreFull, ResolveCSRID, FetchCertificate, ExportAndVerify,
                  WriteSecret, Finish, kmp
    <3>4. CASE ~WorkerStep /\ ~OutsideSigns
      BY <1>3, <3>4 DEF Next, Informers, SyncObject, SyncSecret, TimerFires, Users, EditSpec,
                  DeleteObject, DeleteSecret, ChangeEnvironment, Service, ListCSR,
                  PublishCertificate, OutsideStores, StoreCSR, Crash, Tick, Wait, vars, kmp
    <3> QED  BY <3>1, <3>2, <3>3, <3>4
  <2>2. PICK i \in 1..Len(csrs), t \in TemplatesInUse : Issue(i, t)
    BY <2>1
  <2>3. /\ Len(certs') = Len(certs) + 1 /\ certs'[Len(certs) + 1].csr = i
        /\ \A n \in 1..Len(certs) : certs'[n] = certs[n]
        /\ UNCHANGED csrs
    BY <2>2, IssueTypes DEF PairInv, TypeOK, RestTypes
  <2>4. certs'[Len(certs) + 1].id.org = csrs[i].id.org
    BY <2>2, IssuedFrom, TemplateKeepsOrganization DEF OrganizationSafe
  <2> QED  BY <1>0, <2>3, <2>4 DEF OrganizationKept
<1> QED  BY <1>2, <1>3

\* With an organization too, what writeSecret publishes matches the spec, if no
\* template clears the organization and the controller knows its own CSR: then
\* the organization nobody checks came from the spec itself.
THEOREM PublishedMatchesOrganization ==
    ASSUME ReportsID, OrganizationSafe
    PROVE  Spec => OnlyMatchingPublished
<1>1. ASSUME PairInv, OwnInv, AttemptVerified, OrganizationKept, [Next]_vars,
             NEW s \in SecretNames, secrets'[s] # secrets[s], secrets'[s] # Absent
      PROVE  matchesSpec(snap.spec, certs[secrets'[s].leaf].id)
  <2>1. pc = "write" /\ secrets'[s] = desiredSecret(cSecrets[s])
    BY <1>1, SecretChanges
  <2>2. secrets'[s].leaf = att.leaf
    BY <2>1 DEF desiredSecret
  <2>3. verifyProvisionedNames(snap.spec, certs[att.leaf].id) /\ snap.spec \in Specs
    BY <1>1, <2>1, SnapSpec DEF AttemptVerified
  <2>4. att.leaf \in 1..Len(certs) /\ certs[att.leaf].csr = att.csr
    BY <1>1, <2>1 DEF PairInv, AttemptRefers
  <2>5. certs[att.leaf].id.org = csrs[att.csr].id.org
    BY <1>1, <2>4 DEF OrganizationKept
  <2>6. csrs[att.csr].id = provisionRequest(snap.spec)
    BY <1>1, <2>1 DEF OwnInv, OwnRequest, InAttempt
  <2>7. provisionRequest(snap.spec).org = snap.spec.organization
    BY DEF provisionRequest, Identity
  <2>8. certs[att.leaf].id.org = snap.spec.organization
    BY <2>5, <2>6, <2>7
  <2> QED  BY <2>2, <2>3, <2>8 DEF OrganizationSafe, verifyProvisionedNames, matchesSpec
<1>2. PairInv /\ OwnInv /\ AttemptVerified /\ OrganizationKept /\ [Next]_vars =>
        [ \A s \in SecretNames :
            secrets'[s] # secrets[s] /\ secrets'[s] # Absent =>
              matchesSpec(snap.spec, certs[secrets'[s].leaf].id) ]_vars
  BY <1>1
<1>3. Init => OrganizationKept
  BY DEF Init, OrganizationKept
<1>4. PairInv /\ OrganizationKept /\ [Next]_vars => OrganizationKept'
  BY OrganizationStep
<1> QED
  BY <1>2, <1>3, <1>4, OwnRequests, VerifiedBeforeWrite, PTL DEF Spec, OnlyMatchingPublished

-----------------------------------------------------------------------------
(***************************************************************************)
(* What a status tells.                                                    *)
(***************************************************************************)

\* A status tells of one certificate, which exists.
Told(st, issued) ==
    /\ st.leaf # NoID => st.leaf \in 1..Len(issued) /\ issued[st.leaf].csr = st.csr
    /\ st.serial # NoID => st.serial = st.leaf

StatusTold ==
    /\ \A o \in Objects : (obj[o] # Absent => Told(obj[o].status, certs))
                          /\ (cObj[o] # Absent => Told(cObj[o].status, certs))
    /\ pc # "idle" => Told(snap.status, certs)
    /\ pc = "finish" => Told(out.status, certs)

\* The deferred update changes nothing but the status of the resource in hand.
LEMMA UpdateOnly ==
    ASSUME PairInv, pc = "finish", obj[cur] = snap,
           obj' = [ obj EXCEPT ![cur].status = out.status ]
    PROVE  /\ \A o \in Objects : o # cur => obj'[o] = obj[o]
           /\ obj'[cur].status = out.status /\ obj'[cur].generation = obj[cur].generation
           /\ obj'[cur] # Absent /\ obj[cur] # Absent
<1>1. /\ obj \in [ Objects -> ObjectType \cup {Absent} ] /\ cur \in Objects
      /\ snap \in ObjectType /\ out.status \in StatusType
  BY DEF PairInv, TypeOK, APITypes, WorkerTypes, ResultType
<1>2. \A o \in Objects : o # cur => obj'[o] = obj[o]
  BY <1>1
<1>3. obj'[cur] = [ snap EXCEPT !.status = out.status ]
  BY <1>1
<1>4. obj'[cur] \in ObjectType /\ obj'[cur].status = out.status /\ obj'[cur].generation = snap.generation
  BY <1>1, <1>3 DEF ObjectType
<1>5. Absent \notin ObjectType
  BY DEF Absent, ObjectType
<1> QED  BY <1>1, <1>2, <1>4, <1>5

\* A certificate more changes nothing for the others.
LEMMA ToldStays ==
    ASSUME PairInv, LogsGrow, NEW st, Told(st, certs)
    PROVE  Told(st, certs')
<1>1. Len(certs) \in Nat
  BY LogLengths DEF PairInv, TypeOK
<1> QED  BY <1>1 DEF Told, LogsGrow

\* Reporting a failure, or that a Secret is current, keeps what the status tells.
LEMMA ToldCondition ==
    ASSUME NEW st \in StatusType, NEW g, NEW ready, NEW reason, NEW issued, Told(st, issued)
    PROVE  Told(setCondition(st, g, ready, reason), issued)
<1> DEFINE new == setCondition(st, g, ready, reason)
<1>1. new.csr = st.csr /\ new.serial = st.serial /\ new.leaf = st.leaf
  BY DEF setCondition, StatusType
<1> HIDE DEF new
<1>2. Told(new, issued)
  BY <1>1 DEF Told
<1> QED  BY <1>2 DEF new

\* Reporting an issuance tells of the certificate that was written.
LEMMA ToldIssued ==
    ASSUME PairInv, FetchedSerial, pc = "write"
    PROVE  Told(issuedStatus, certs)
<1>1. snap.status \in StatusType
  BY DEF PairInv, TypeOK, WorkerTypes, ObjectType
<1>2. issuedStatus.csr = att.csr /\ issuedStatus.serial = att.serial /\ issuedStatus.leaf = att.leaf
  <2> DEFINE set == setCondition(snap.status, snap.generation, "True", "issued")
  <2>1. DOMAIN set = DOMAIN snap.status
    BY <1>1 DEF setCondition, StatusType
  <2>2. {"csr", "serial", "leaf"} \subseteq DOMAIN set
    BY <1>1, <2>1 DEF StatusType
  <2>3. issuedStatus = [ set EXCEPT !.csr = att.csr, !.serial = att.serial, !.leaf = att.leaf ]
    BY DEF issuedStatus
  <2> HIDE DEF set
  <2> QED  BY <2>2, <2>3
<1>3. att.leaf \in 1..Len(certs) /\ certs[att.leaf].csr = att.csr
  BY DEF PairInv, AttemptRefers
<1>4. att.serial # NoID => att.leaf = att.serial
  BY DEF FetchedSerial
<1> HIDE DEF issuedStatus
<1> QED  BY <1>2, <1>3, <1>4 DEF Told

\* Where the status of a resource, in the API server, can come from.
LEMMA ObjectStatus ==
    ASSUME PairInv, [Next]_vars, NEW o \in Objects, obj'[o] # Absent
    PROVE  \/ obj[o] # Absent /\ obj'[o].status = obj[o].status
           \/ pc = "finish" /\ obj'[o].status = out.status
<1>0. obj \in [ Objects -> ObjectType \cup {Absent} ]
  BY DEF PairInv, TypeOK, APITypes
<1>1. CASE UNCHANGED obj
  BY <1>1
<1>2. CASE pc = "finish" /\ obj[cur] = snap /\ obj' = [ obj EXCEPT ![cur].status = out.status ]
  BY <1>2, UpdateOnly
<1>3. ASSUME NEW x \in Objects, EditSpec(x)
      PROVE  obj[o] # Absent /\ obj'[o].status = obj[o].status
  BY <1>0, <1>3 DEF EditSpec
<1>4. ASSUME NEW x \in Objects, DeleteObject(x)
      PROVE  obj[o] # Absent /\ obj'[o].status = obj[o].status
  BY <1>0, <1>4 DEF DeleteObject
<1>5. CASE Finish
  BY <1>1, <1>2, <1>5 DEF Finish
<1>6. CASE WorkerStep /\ ~Finish
  BY <1>1, <1>6 DEF WorkerStep, ReconcileGone, ReconcileCurrent, ReconcileDue, Take, Prepare,
              CreateCSR, StoreFull, ResolveCSRID, SignStoredCSR, FetchCertificate, ExportAndVerify,
              WriteSecret, Elsewhere, api
<1>7. CASE ~WorkerStep
  BY <1>1, <1>3, <1>4, <1>7 DEF Next, Informers, SyncObject, SyncSecret, TimerFires, Users,
              DeleteSecret, ChangeEnvironment, Service, ListCSR, PublishCertificate, OutsideStores,
              OutsideSigns, Crash, Tick, Wait, vars, api
<1> QED  BY <1>5, <1>6, <1>7

\* The cache takes over what the API server holds.
LEMMA CachedObject ==
    ASSUME PairInv, [Next]_vars, NEW o \in Objects
    PROVE  cObj'[o] \in {cObj[o], obj[o]}
<1>0. cObj \in [ Objects -> ObjectType \cup {Absent} ]
  BY DEF PairInv, TypeOK, CacheTypes
<1>1. ASSUME NEW x \in Objects, SyncObject(x)
      PROVE  cObj'[o] \in {cObj[o], obj[o]}
  BY <1>0, <1>1 DEF SyncObject
<1>2. UNCHANGED cObj \/ cObj' = obj \/ \E x \in Objects : SyncObject(x)
  <2>1. CASE WorkerStep
    BY <2>1 DEF WorkerStep, ReconcileGone, ReconcileCurrent, ReconcileDue, Take, Prepare, CreateCSR,
                StoreFull, ResolveCSRID, SignStoredCSR, FetchCertificate, ExportAndVerify,
                WriteSecret, Finish, Elsewhere, caches
  <2>2. CASE ~WorkerStep
    BY <2>2 DEF Next, Informers, SyncSecret, TimerFires, Users, EditSpec, DeleteObject,
                DeleteSecret, ChangeEnvironment, Service, ListCSR, PublishCertificate,
                OutsideStores, OutsideSigns, Crash, Tick, Wait, vars, caches
  <2> QED  BY <2>1, <2>2
<1> QED  BY <1>1, <1>2

\* The worker has in hand what it read from the cache.
LEMMA SnapInHand ==
    ASSUME [Next]_vars, pc' # "idle"
    PROVE  \/ pc # "idle" /\ UNCHANGED snap
           \/ \E o \in Objects : cObj[o] # Absent /\ snap' = cObj[o]
<1>1. CASE WorkerStep
  BY <1>1 DEF WorkerStep, ReconcileGone, ReconcileCurrent, ReconcileDue, Take, Prepare, CreateCSR,
              StoreFull, ResolveCSRID, SignStoredCSR, FetchCertificate, ExportAndVerify,
              WriteSecret, Finish, Return, Fail, Go, worker
<1>2. CASE ~WorkerStep
  BY <1>2 DEF Next, Informers, SyncObject, SyncSecret, TimerFires, Users, EditSpec, DeleteObject,
              DeleteSecret, ChangeEnvironment, Service, ListCSR, PublishCertificate, OutsideStores,
              OutsideSigns, Crash, Tick, Wait, vars, worker
<1> QED  BY <1>1, <1>2

\* What the worker is about to report: a condition on the status it read, or the
\* issuance it has just written.
LEMMA ReportedStatus ==
    ASSUME PairInv, [Next]_vars, pc' = "finish"
    PROVE  \/ pc = "finish" /\ UNCHANGED out
           \/ \E ready, reason :
                out'.status = setCondition(snap'.status, snap'.generation, ready, reason)
           \/ pc = "write" /\ out'.status = issuedStatus
<1>1. ASSUME NEW e, NEW step, Fail(e, step)
      PROVE  \E ready, reason :
               out'.status = setCondition(snap'.status, snap'.generation, ready, reason)
  <2>1. out'.status = setCondition(snap'.status, snap'.generation, "False", step)
    BY <1>1 DEF Fail
  <2> QED  BY <2>1
<1>2. CASE Prepare \/ CreateCSR \/ StoreFull \/ ResolveCSRID \/ SignStoredCSR \/ FetchCertificate
           \/ ExportAndVerify
  <2>1. CASE Prepare \/ CreateCSR \/ StoreFull
    BY <1>1, <2>1 DEF Prepare, CreateCSR, StoreFull, Go
  <2>2. CASE ResolveCSRID \/ SignStoredCSR
    BY <1>1, <2>2 DEF ResolveCSRID, SignStoredCSR, Go
  <2>3. CASE FetchCertificate
    BY <1>1, <2>3 DEF FetchCertificate, Go
  <2>4. CASE ExportAndVerify
    BY <1>1, <2>4 DEF ExportAndVerify, Go
  <2> QED  BY <1>2, <2>1, <2>2, <2>3, <2>4
<1>3. CASE WriteSecret
  BY <1>1, <1>3 DEF WriteSecret
<1>4. ASSUME NEW o \in Objects, ReconcileCurrent(o)
      PROVE  \E ready, reason :
               out'.status = setCondition(snap'.status, snap'.generation, ready, reason)
  <2>1. out'.status = setCondition(snap'.status, snap'.generation, "True", "holds")
    BY <1>4 DEF ReconcileCurrent
  <2> QED  BY <2>1
<1>5. ASSUME NEW o \in Objects, ReconcileGone(o) \/ ReconcileDue(o)
      PROVE  pc = "finish" /\ UNCHANGED out
  BY <1>5 DEF ReconcileGone, ReconcileDue, Take, worker
<1>6. CASE Finish
  BY <1>6 DEF Finish, Return
<1>7. CASE ~WorkerStep
  BY <1>7 DEF Next, Informers, SyncObject, SyncSecret, TimerFires, Users, EditSpec, DeleteObject,
              DeleteSecret, ChangeEnvironment, Service, ListCSR, PublishCertificate, OutsideStores,
              OutsideSigns, Crash, Tick, Wait, vars, worker
<1> QED  BY <1>2, <1>3, <1>4, <1>5, <1>6, <1>7, Zenon DEF WorkerStep

\* No step mixes two issuances in one status.
LEMMA ToldStep ==
    ASSUME PairInv, PairInv', FetchedSerial, StatusTold, [Next]_vars
    PROVE  StatusTold'
<1>0. LogsGrow
  BY NextLogs
<1>1. ASSUME NEW o \in Objects, obj'[o] # Absent
      PROVE  Told(obj'[o].status, certs')
  <2>1. Told(obj'[o].status, certs)
    BY <1>1, ObjectStatus DEF StatusTold
  <2> QED  BY <1>0, <2>1, ToldStays
<1>2. ASSUME NEW o \in Objects, cObj'[o] # Absent
      PROVE  Told(cObj'[o].status, certs')
  <2>1. Told(cObj'[o].status, certs)
    BY <1>2, CachedObject DEF StatusTold
  <2> QED  BY <1>0, <2>1, ToldStays
<1>3. ASSUME pc' # "idle"
      PROVE  Told(snap'.status, certs) /\ snap'.status \in StatusType
  BY <1>3, SnapInHand DEF StatusTold, PairInv, TypeOK, WorkerTypes, ObjectType
<1>4. ASSUME pc' = "finish"
      PROVE  Told(out'.status, certs)
  <2>1. CASE pc = "finish" /\ UNCHANGED out
    BY <2>1 DEF StatusTold
  <2>2. CASE \E ready, reason :
               out'.status = setCondition(snap'.status, snap'.generation, ready, reason)
    BY <1>3, <1>4, <2>2, ToldCondition
  <2>3. CASE pc = "write" /\ out'.status = issuedStatus
    BY <2>3, ToldIssued
  <2> QED  BY <1>4, <2>1, <2>2, <2>3, ReportedStatus
<1>5. pc' # "idle" => Told(snap'.status, certs')
  BY <1>0, <1>3, ToldStays
<1>6. pc' = "finish" => Told(out'.status, certs')
  BY <1>0, <1>4, ToldStays
<1> QED  BY <1>1, <1>2, <1>5, <1>6 DEF StatusTold

\* A status never mixes two issuances, through lost and conflicting updates,
\* failures after a success, crashes and stale reads (issue, Reconcile).
THEOREM StatusOneIssuance == Spec => []StatusOfOneIssuance
<1>1. Init => StatusTold
  BY DEF Init, StatusTold, Told, NoStatus
<1>2. PairInv /\ PairInv' /\ OwnInv /\ StatusTold /\ [Next]_vars => StatusTold'
  BY ToldStep DEF OwnInv
<1>3. StatusTold => StatusOfOneIssuance
  BY DEF StatusTold, Told, StatusOfOneIssuance
<1> QED  BY <1>1, <1>2, <1>3, OwnRequests, PTL DEF Spec
=============================================================================
