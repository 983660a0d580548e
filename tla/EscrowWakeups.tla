--------------------------- MODULE EscrowWakeups ---------------------------
(***************************************************************************)
(* No wake-up of the escrow controller is lost, where no resource names a  *)
(* Secret that another one controls and Key Manager Plus identifies what   *)
(* it stores or signs.                                                     *)
(***************************************************************************)
EXTENDS EscrowProofs

\* No resource names a Secret that another one controls.
OwnNames ==
    \A o \in Objects : obj[o] # Absent =>
        LET secret == cSecrets[obj[o].spec.secret]
        IN  secret # Absent => secret.owner \in {o, NoObject}

\* Key Manager Plus reports the id of a CSR it stores, or the serial number of a
\* certificate it signs: the status of a resource changes with every issuance.
Identifies == ReportsID \/ ReportsSerial

-----------------------------------------------------------------------------
(***************************************************************************)
(* The inductive invariant.                                                *)
(***************************************************************************)

\* Caches lag behind the API server; what the worker has in hand was in the cache,
\* and still is unless the resource has been queued since.
Versions ==
    /\ \A o \in Objects : obj[o] # Absent =>
         cObj[o] # Absent /\ cObj[o].generation <= obj[o].generation
    /\ pc # "idle" =>
         /\ cObj[cur] = snap \/ cur \in queue
         /\ obj[cur] # Absent => snap.generation <= obj[cur].generation
         /\ obj[cur] = snap => cObj[cur] = snap

\* Only KMPCertificates put a certificate into a Secret.
OwnedPairs ==
    \A s \in SecretNames :
        /\ holdsPair(secrets[s]) => secrets[s].owner \in Objects
        /\ holdsPair(cSecrets[s]) => cSecrets[s].owner \in Objects

\* The CSR and the certificate that a status tells of exist.
Known(st) == st.csr <= Len(csrs) /\ st.serial <= Len(certs)

KnownStatus ==
    /\ \A o \in Objects : (obj[o] # Absent => Known(obj[o].status))
                          /\ (cObj[o] # Absent => Known(cObj[o].status))
    /\ pc # "idle" => Known(snap.status)
    /\ pc = "finish" => Known(out.status)

\* Those of an attempt are newer than those the status tells of.
AttemptNew ==
    /\ pc \in {"resolve", "sign", "fetch", "export", "write"} /\ ReportsID =>
         att.csr > snap.status.csr
    /\ pc \in {"fetch", "export", "write"} => att.serial <= Len(certs)
    /\ pc \in {"fetch", "export", "write"} /\ ReportsSerial => att.serial > snap.status.serial

Holds(sp, secret) == holdsPair(secret) /\ matchesSpec(sp, certs[secret.leaf].id)

\* What Reconcile is about to return: unless it retries, the status speaks of the
\* generation it read, and when it is True and not new the Secret is current.
Decided ==
    pc = "finish" /\ out.result # "retry" =>
        /\ out.status.observedGeneration = snap.generation
        /\ \/ out.status.ready = "False" /\ out.result = "stop"
           \/ /\ out.status.ready = "True" /\ out.result = "after" /\ out.wait > 0
              /\ \/ out.status # snap.status \/ obj[cur] # snap \/ cur \in queue
                 \/ Holds(snap.spec, cSecrets[snap.spec.secret])

\* A resource is queued, about to be, in hand, or settled in what the caches show.
Settled(o) ==
    LET st == obj[o].status
    IN  /\ st.observedGeneration = obj[o].generation
        /\ \/ st.ready = "False"
           \/ /\ st.ready = "True" /\ timer[o] # NoTimer
              /\ Holds(obj[o].spec, cSecrets[obj[o].spec.secret])

Awake ==
    \A o \in Objects : obj[o] # Absent =>
        o \in queue \/ cObj[o] # obj[o] \/ (pc # "idle" /\ cur = o) \/ Settled(o)

WakeInv == Versions /\ OwnedPairs /\ KnownStatus /\ AttemptNew /\ Decided /\ Awake

-----------------------------------------------------------------------------
\* What a status tells of stays known: the logs only grow.
LEMMA KnownStays ==
    ASSUME ServiceTypes, LogsGrow, NEW st \in StatusType, Known(st)
    PROVE  st.csr <= Len(csrs') /\ st.serial <= Len(certs')
<1>1. /\ Len(csrs) \in Nat /\ Len(certs) \in Nat /\ st.csr \in Nat /\ st.serial \in Nat
      /\ st.csr <= Len(csrs) /\ st.serial <= Len(certs)
  BY LogLengths DEF StatusType, IDs, Known
<1>2. /\ Len(csrs') \in Nat /\ Len(csrs) <= Len(csrs')
      /\ Len(certs') \in Nat /\ Len(certs) <= Len(certs')
  BY DEF LogsGrow
<1> QED  BY <1>1, <1>2

\* A cached Secret that matches a spec goes on matching it.
LEMMA HoldsStays ==
    ASSUME CachesRefer, LogsGrow, NEW sp, NEW s \in SecretNames, UNCHANGED cSecrets,
           Holds(sp, cSecrets[s])
    PROVE  holdsPair(cSecrets'[s]) /\ matchesSpec(sp, certs'[cSecrets'[s].leaf].id)
<1>1. holdsPair(cSecrets[s]) /\ matchesSpec(sp, certs[cSecrets[s].leaf].id)
  BY DEF Holds
<1>2. certs'[cSecrets[s].leaf] = certs[cSecrets[s].leaf]
  BY <1>1 DEF CachesRefer, LogsGrow
<1> QED  BY <1>1, <1>2

\* The parts of the invariant that speak of the resource in hand carry over while
\* neither the API server nor the caches change.
LEMMA StatusesStay ==
    ASSUME PairInv, KnownStatus, LogsGrow, UNCHANGED <<obj, cObj>>
    PROVE  \A o \in Objects : (obj'[o] # Absent => Known(obj[o].status)')
                              /\ (cObj'[o] # Absent => Known(cObj[o].status)')
<1> SUFFICES ASSUME NEW o \in Objects
             PROVE  /\ obj[o] # Absent => Known(obj[o].status)'
                    /\ cObj[o] # Absent => Known(cObj[o].status)'
  BY DEF Known
<1>0. ServiceTypes /\ APITypes /\ CacheTypes
  BY DEF PairInv, TypeOK
<1>1. ASSUME obj[o] # Absent PROVE Known(obj[o].status)'
  <2>1. obj[o].status \in StatusType /\ Known(obj[o].status)
    BY <1>0, <1>1 DEF APITypes, ObjectType, KnownStatus
  <2> QED  BY <1>0, <2>1, KnownStays DEF Known
<1>2. ASSUME cObj[o] # Absent PROVE Known(cObj[o].status)'
  <2>1. cObj[o].status \in StatusType /\ Known(cObj[o].status)
    BY <1>0, <1>2 DEF CacheTypes, ObjectType, KnownStatus
  <2> QED  BY <1>0, <2>1, KnownStays DEF Known
<1> QED  BY <1>1, <1>2

\* A resource that is not in hand stays awake or settled while only the worker
\* and Key Manager Plus go on.
LEMMA SettledStays ==
    ASSUME PairInv, LogsGrow, UNCHANGED <<obj, cSecrets>>, NEW o \in Objects, obj[o] # Absent,
           Settled(o), timer'[o] = timer[o]
    PROVE  Settled(o)'
<1>1. obj[o].spec.secret \in SecretNames /\ CachesRefer
  BY SpecsAssumption DEF PairInv, TypeOK, APITypes, ObjectType
<1>2. ASSUME Holds(obj[o].spec, cSecrets[obj[o].spec.secret])
      PROVE  Holds(obj[o].spec, cSecrets[obj[o].spec.secret])'
  BY <1>1, <1>2, HoldsStays DEF Holds, holdsPair, matchesSpec
<1> QED  BY <1>2, Zenon DEF Settled

-----------------------------------------------------------------------------
(***************************************************************************)
(* Steps of a worker that has a resource in hand.                          *)
(***************************************************************************)

\* What is left to show of a step in the middle of a reconcile.
LEMMA BusyStep ==
    ASSUME PairInv, WakeInv, LogsGrow, pc # "idle", pc' # "idle",
           UNCHANGED <<obj, cObj, cSecrets, queue, timer, cur, snap>>,
           OwnedPairs', AttemptNew', Decided', pc' = "finish" => Known(out.status)'
    PROVE  WakeInv'
<1>0. ServiceTypes /\ WorkerTypes /\ KnownStatus /\ Versions /\ Awake
  BY DEF PairInv, TypeOK, WakeInv
<1>1. Versions'
  BY <1>0 DEF Versions
<1>2. KnownStatus'
  <2>1. \A o \in Objects : (obj'[o] # Absent => Known(obj[o].status)')
                           /\ (cObj'[o] # Absent => Known(cObj[o].status)')
    BY <1>0, StatusesStay
  <2>2. Known(snap.status)'
    <3>1. snap.status \in StatusType /\ Known(snap.status)
      BY <1>0 DEF WorkerTypes, ObjectType, KnownStatus
    <3> QED  BY <1>0, <3>1, KnownStays DEF Known
  <2> QED  BY <2>1, <2>2 DEF KnownStatus
<1>3. Awake'
  <2> SUFFICES ASSUME NEW o \in Objects, obj[o] # Absent
               PROVE  o \in queue \/ cObj[o] # obj[o] \/ cur = o \/ Settled(o)'
    BY DEF Awake
  <2>1. o \in queue \/ cObj[o] # obj[o] \/ cur = o \/ Settled(o)
    BY <1>0 DEF Awake
  <2>2. Settled(o) => Settled(o)'
    BY SettledStays
  <2> QED  BY <2>1, <2>2
<1> QED  BY <1>1, <1>2, <1>3 DEF WakeInv

\* A failure is reported against the generation that was read, and retried unless
\* it is permanent (Reconcile's error branch).
LEMMA FailWake ==
    ASSUME PairInv, WakeInv, LogsGrow, pc # "idle", NEW e, NEW step \in Reasons, Fail(e, step)
    PROVE  AttemptNew' /\ Decided' /\ Known(out.status)' /\ pc' # "idle" /\ UNCHANGED <<cur, snap>>
<1> DEFINE st == setCondition(snap.status, snap.generation, "False", step)
<1>0. /\ pc' = "finish" /\ UNCHANGED <<cur, snap, att>>
      /\ out' = [ status |-> st, result |-> IF IsPermanent(e) THEN "stop" ELSE "retry", wait |-> 0 ]
  BY DEF Fail
<1>1. /\ ServiceTypes /\ snap.status \in StatusType /\ snap.generation \in Nat
      /\ Known(snap.status)
  BY DEF PairInv, TypeOK, WorkerTypes, ObjectType, WakeInv, KnownStatus
<1>2. /\ st.observedGeneration = snap.generation /\ st.ready = "False"
      /\ st.csr = snap.status.csr /\ st.serial = snap.status.serial
  BY <1>1 DEF setCondition, StatusType
<1>3. st.csr <= Len(csrs') /\ st.serial <= Len(certs')
  BY <1>1, <1>2, KnownStays
<1>4. out'.status = st /\ out'.result \in {"stop", "retry"}
  BY <1>0
<1> HIDE DEF st
<1>5. Known(out.status)'
  BY <1>3, <1>4 DEF Known
<1>6. Decided'
  BY <1>0, <1>2, <1>4 DEF Decided
<1>7. AttemptNew'
  BY <1>0 DEF AttemptNew
<1> QED  BY <1>0, <1>5, <1>6, <1>7

\* The step from one call to the next says nothing to the API server.
LEMMA GoWake ==
    ASSUME NEW step \in Steps, Go(step)
    PROVE  Decided' /\ pc' # "idle" /\ pc' # "finish" /\ UNCHANGED <<cur, snap>>
BY DEF Go, Steps, Decided

\* Steps that talk to Key Manager Plus only.
LEMMA CallWake ==
    ASSUME PairInv, WakeInv, LogsGrow, pc # "idle", pc' # "idle", Elsewhere,
           UNCHANGED <<cur, snap>>, AttemptNew', Decided', pc' = "finish" => Known(out.status)'
    PROVE  WakeInv'
<1>1. UNCHANGED <<obj, secrets, cObj, cSecrets, queue, timer>>
  BY DEF Elsewhere, api, caches
<1>2. OwnedPairs'
  BY <1>1 DEF WakeInv, OwnedPairs, holdsPair
<1> QED  BY <1>1, <1>2, BusyStep

\* Prepare makes no call yet: it goes on, or fails.
LEMMA PrepareWake ==
    ASSUME PairInv, WakeInv, LogsGrow, Prepare
    PROVE  WakeInv'
<1>0. pc # "idle" /\ Elsewhere
  BY DEF Prepare
<1>1. CASE Go("create")
  <2>1. AttemptNew'
    BY <1>1 DEF Go, AttemptNew
  <2> QED  BY <1>0, <1>1, <2>1, GoWake, CallWake DEF Steps
<1>2. CASE Fail(prepareError(snap.spec), "prepare")
  BY <1>0, <1>2, FailWake, CallWake DEF Reasons
<1> QED  BY <1>1, <1>2 DEF Prepare

\* createCSR reports an id that no status knows yet.
LEMMA CreateWake ==
    ASSUME PairInv, WakeInv, LogsGrow, CreateCSR
    PROVE  WakeInv'
<1>0. pc = "create" /\ Elsewhere
  BY DEF CreateCSR
<1>1. ASSUME NEW password, Go("resolve"),
             att' = [ att EXCEPT !.password = password,
                                 !.csr = IF ReportsID THEN Len(csrs) + 1 ELSE NoID ]
      PROVE  WakeInv'
  <2>1. att \in AttemptType /\ Len(csrs) \in Nat /\ pc' = "resolve" /\ UNCHANGED snap
    BY <1>1, LogLengths DEF PairInv, TypeOK, WorkerTypes, Go
  <2>2. ReportsID => att'.csr = Len(csrs) + 1
    BY <1>1, <2>1 DEF AttemptType
  <2>3. snap.status.csr \in Nat /\ snap.status.csr <= Len(csrs)
    BY <1>0 DEF PairInv, TypeOK, WorkerTypes, ObjectType, StatusType, IDs, WakeInv, KnownStatus, Known
  <2>4. AttemptNew'
    BY <2>1, <2>2, <2>3 DEF AttemptNew
  <2> QED  BY <1>0, <1>1, <2>4, GoWake, CallWake DEF Steps
<1>2. ASSUME NEW e, Fail(e, "create")
      PROVE  WakeInv'
  BY <1>0, <1>2, FailWake, CallWake DEF Reasons, Steps
<1>3. \/ \E password : /\ Go("resolve")
                       /\ att' = [ att EXCEPT !.password = password,
                                              !.csr = IF ReportsID THEN Len(csrs) + 1 ELSE NoID ]
      \/ \E e : Fail(e, "create")
  BY Zenon DEF CreateCSR
<1> QED  BY <1>1, <1>2, <1>3

\* A full store is an outage.
LEMMA StoreFullWake ==
    ASSUME PairInv, WakeInv, LogsGrow, StoreFull
    PROVE  WakeInv'
<1>1. pc = "create" /\ Elsewhere /\ \E e : Fail(e, "create")
  BY Zenon DEF StoreFull
<1> QED  BY <1>1, FailWake, CallWake DEF Reasons, Steps

\* The id is looked up only when createCSR reported none.
LEMMA ResolveWake ==
    ASSUME PairInv, WakeInv, LogsGrow, ResolveCSRID
    PROVE  WakeInv'
<1>0. pc = "resolve" /\ Elsewhere
  BY DEF ResolveCSRID
<1>1. ASSUME Go("sign"), UNCHANGED att \/ att.csr = NoID
      PROVE  WakeInv'
  <2>1. snap.status.csr \in Nat /\ pc' = "sign" /\ UNCHANGED snap
    BY <1>0, <1>1 DEF PairInv, TypeOK, WorkerTypes, ObjectType, StatusType, IDs, Go
  <2>2. ReportsID => att.csr > snap.status.csr
    BY <1>0 DEF WakeInv, AttemptNew
  <2>3. ReportsID => UNCHANGED att
    BY <1>1, <2>1, <2>2 DEF NoID
  <2>4. AttemptNew'
    BY <2>1, <2>2, <2>3 DEF AttemptNew
  <2> QED  BY <1>0, <1>1, <2>4, GoWake, CallWake DEF Steps
<1>2. ASSUME NEW e, Fail(e, "resolve")
      PROVE  WakeInv'
  BY <1>0, <1>2, FailWake, CallWake DEF Reasons, Steps
<1>3. (Go("sign") /\ (UNCHANGED att \/ att.csr = NoID)) \/ \E e : Fail(e, "resolve")
  BY Zenon DEF ResolveCSRID
<1> QED  BY <1>1, <1>2, <1>3

\* signCSR reports a serial number that no status knows yet.
LEMMA SignWake ==
    ASSUME PairInv, WakeInv, LogsGrow, SignStoredCSR
    PROVE  WakeInv'
<1>0. pc = "sign" /\ Elsewhere
  BY DEF SignStoredCSR
<1>1. ASSUME Go("fetch"), NEW t, Issue(att.csr, t),
             att' = [ att EXCEPT !.serial = IF ReportsSerial THEN Len(certs) + 1 ELSE NoID ]
      PROVE  WakeInv'
  <2>1. /\ att \in AttemptType /\ Len(certs) \in Nat /\ pc' = "fetch" /\ UNCHANGED snap
        /\ ServiceTypes /\ now \in Nat /\ att.csr \in 1..Len(csrs)
    BY <1>0, <1>1, LogLengths DEF PairInv, TypeOK, WorkerTypes, RestTypes, Go, AttemptRefers
  <2>2. Len(certs') = Len(certs) + 1
    BY <1>1, <2>1, IssueTypes
  <2>3. att'.serial = (IF ReportsSerial THEN Len(certs) + 1 ELSE NoID) /\ att'.csr = att.csr
    BY <1>1, <2>1 DEF AttemptType
  <2>4. snap.status.serial \in Nat /\ snap.status.serial <= Len(certs)
    BY <1>0 DEF PairInv, TypeOK, WorkerTypes, ObjectType, StatusType, IDs, WakeInv, KnownStatus, Known
  <2>5. ReportsID => att.csr > snap.status.csr
    BY <1>0 DEF WakeInv, AttemptNew
  <2>6. att'.serial <= Len(certs') /\ (ReportsSerial => att'.serial > snap.status.serial)
    BY <2>1, <2>2, <2>3, <2>4 DEF NoID
  <2>7. AttemptNew'
    BY <2>1, <2>3, <2>5, <2>6 DEF AttemptNew
  <2> QED  BY <1>0, <1>1, <2>7, GoWake, CallWake DEF Steps
<1>2. ASSUME NEW e, Fail(e, "sign")
      PROVE  WakeInv'
  BY <1>0, <1>2, FailWake, CallWake DEF Reasons, Steps
<1>3. \/ /\ Go("fetch")
         /\ \E t : Issue(att.csr, t)
         /\ att' = [ att EXCEPT !.serial = IF ReportsSerial THEN Len(certs) + 1 ELSE NoID ]
      \/ \E e : Fail(e, "sign")
  BY Zenon DEF SignStoredCSR
<1> QED  BY <1>1, <1>2, <1>3

\* The last steps of Provision keep the ids of the attempt.
LEMMA SameIDs ==
    ASSUME PairInv, WakeInv, LogsGrow, pc \in {"fetch", "export"}, UNCHANGED snap,
           att'.csr = att.csr, att'.serial = att.serial, pc' \in Steps
    PROVE  AttemptNew'
<1>1. /\ Len(certs) \in Nat /\ att.serial \in Nat
      /\ Len(certs') \in Nat /\ Len(certs) <= Len(certs')
  BY LogLengths DEF PairInv, TypeOK, WorkerTypes, AttemptType, IDs, LogsGrow
<1>2. /\ att.serial <= Len(certs)
      /\ ReportsID => att.csr > snap.status.csr
      /\ ReportsSerial => att.serial > snap.status.serial
  BY DEF WakeInv, AttemptNew
<1>3. att.serial <= Len(certs')
  BY <1>1, <1>2
<1> QED  BY <1>2, <1>3 DEF AttemptNew

\* Polls and the answer that ends them leave the ids alone.
LEMMA FetchWake ==
    ASSUME PairInv, WakeInv, LogsGrow, FetchCertificate
    PROVE  WakeInv'
<1>0. pc = "fetch" /\ Elsewhere /\ att \in AttemptType
  BY DEF FetchCertificate, PairInv, TypeOK, WorkerTypes
<1>1. ASSUME NEW step \in {"export", "fetch"}, Go(step),
             att'.csr = att.csr, att'.serial = att.serial
      PROVE  WakeInv'
  <2>1. step \in Steps /\ pc' \in Steps /\ UNCHANGED snap
    BY <1>1 DEF Go, Steps
  <2>2. AttemptNew'
    BY <1>0, <1>1, <2>1, SameIDs
  <2> QED  BY <1>0, <1>1, <2>1, <2>2, GoWake, CallWake
<1>2. ASSUME NEW e, Fail(e, "fetch")
      PROVE  WakeInv'
  BY <1>0, <1>2, FailWake, CallWake DEF Reasons, Steps
<1>3. \/ Go("export") /\ \E returned : att' = [ att EXCEPT !.fetched = returned ]
      \/ Go("fetch") /\ att' = [ att EXCEPT !.polls = @ + 1 ]
      \/ \E e : Fail(e, "fetch")
  BY Zenon DEF FetchCertificate
<1>4. CASE Go("export") /\ \E returned : att' = [ att EXCEPT !.fetched = returned ]
  <2>1. att'.csr = att.csr /\ att'.serial = att.serial
    BY <1>0, <1>4 DEF AttemptType
  <2> QED  BY <1>1, <1>4, <2>1
<1>5. CASE Go("fetch") /\ att' = [ att EXCEPT !.polls = @ + 1 ]
  <2>1. att'.csr = att.csr /\ att'.serial = att.serial
    BY <1>0, <1>5 DEF AttemptType
  <2> QED  BY <1>1, <1>5, <2>1
<1> QED  BY <1>2, <1>3, <1>4, <1>5

\* Export and verification choose the leaf.
LEMMA ExportWake ==
    ASSUME PairInv, WakeInv, LogsGrow, ExportAndVerify
    PROVE  WakeInv'
<1>0. pc = "export" /\ Elsewhere /\ att \in AttemptType
  BY DEF ExportAndVerify, PairInv, TypeOK, WorkerTypes
<1>1. ASSUME Go("write"), NEW leaf, att' = [ att EXCEPT !.leaf = leaf ]
      PROVE  WakeInv'
  <2>1. "write" \in Steps /\ pc' \in Steps /\ UNCHANGED snap
    BY <1>1 DEF Go, Steps
  <2>2. att'.csr = att.csr /\ att'.serial = att.serial
    BY <1>0, <1>1 DEF AttemptType
  <2>3. AttemptNew'
    BY <1>0, <2>1, <2>2, SameIDs
  <2> QED  BY <1>0, <1>1, <2>1, <2>3, GoWake, CallWake
<1>2. ASSUME NEW e, NEW step \in {"export", "bundle", "names"}, Fail(e, step)
      PROVE  WakeInv'
  <2>1. step \in Reasons
    BY DEF Reasons, Steps
  <2> QED  BY <1>0, <1>2, <2>1, FailWake, CallWake
<1>3. \/ Go("write") /\ \E leaf : att' = [ att EXCEPT !.leaf = leaf ]
      \/ \E e : Fail(e, "export") \/ Fail(e, "bundle") \/ Fail(e, "names")
  BY Zenon DEF ExportAndVerify
<1> QED  BY <1>1, <1>2, <1>3

\* An issuance shows in the status: its CSR or its certificate is a new one.
LEMMA IssuanceShows ==
    ASSUME Identifies, PairInv, WakeInv, pc = "write"
    PROVE  /\ issuedStatus # snap.status
           /\ issuedStatus.observedGeneration = snap.generation /\ issuedStatus.ready = "True"
           /\ issuedStatus.csr <= Len(csrs) /\ issuedStatus.serial <= Len(certs)
<1>1. /\ snap.status \in StatusType /\ snap.generation \in Nat /\ att \in AttemptType
      /\ Len(csrs) \in Nat /\ Len(certs) \in Nat /\ att.csr \in 1..Len(csrs)
  BY LogLengths DEF PairInv, TypeOK, WorkerTypes, ObjectType, AttemptRefers
<1>2. /\ att.serial <= Len(certs)
      /\ ReportsID => att.csr > snap.status.csr
      /\ ReportsSerial => att.serial > snap.status.serial
  BY DEF WakeInv, AttemptNew
<1>3. /\ att.csr \in Nat /\ att.serial \in Nat
      /\ snap.status.csr \in Nat /\ snap.status.serial \in Nat
  BY <1>1 DEF AttemptType, StatusType, IDs
<1>4. /\ issuedStatus.observedGeneration = snap.generation /\ issuedStatus.ready = "True"
      /\ issuedStatus.csr = att.csr /\ issuedStatus.serial = att.serial
  BY <1>1 DEF issuedStatus, setCondition, StatusType
<1>5. att.csr # snap.status.csr \/ att.serial # snap.status.serial
  BY <1>2, <1>3 DEF Identifies
<1> QED  BY <1>1, <1>2, <1>4, <1>5

\* A write that succeeds leaves an update of the status to make, and one that fails
\* is reported; a write whose answer was lost shows in the watch of the Secret.
LEMMA WriteWake ==
    ASSUME Identifies, PairInv, WakeInv, LogsGrow, WriteSecret
    PROVE  WakeInv'
<1> DEFINE s == snap.spec.secret
<1>0. /\ pc = "write" /\ UNCHANGED <<obj, cObj, cSecrets, queue, timer, kmp, now>>
      /\ cur \in Objects /\ ServiceTypes /\ now \in Nat
      /\ cSecrets \in [ SecretNames -> SecretType \cup {Absent} ]
      /\ secrets \in [ SecretNames -> SecretType \cup {Absent} ]
      /\ att.leaf \in 1..Len(certs) /\ snap.spec \in Specs
  BY DEF WriteSecret, caches, PairInv, TypeOK, APITypes, CacheTypes, WorkerTypes, RestTypes, ObjectType,
         AttemptRefers
<1>1. s \in SecretNames /\ snap.spec.renewBefore \in Nat
  BY <1>0, SpecsAssumption
<1>2. UNCHANGED secrets \/ secrets' = [ secrets EXCEPT ![s] = desiredSecret(cSecrets[s]) ]
  BY DEF WriteSecret
<1>3. OwnedPairs'
  <2> SUFFICES ASSUME NEW x \in SecretNames
               PROVE  /\ holdsPair(secrets'[x]) => secrets'[x].owner \in Objects
                      /\ holdsPair(cSecrets'[x]) => cSecrets'[x].owner \in Objects
    BY DEF OwnedPairs, holdsPair
  <2>1. secrets'[x] = secrets[x] \/ secrets'[x].owner = cur
    <3>1. desiredSecret(cSecrets[s]).owner = cur
      BY DEF desiredSecret
    <3> QED  BY <1>0, <1>1, <1>2, <3>1
  <2> QED  BY <1>0, <2>1 DEF WakeInv, OwnedPairs
<1>4. CASE /\ pc' = "finish" /\ UNCHANGED <<cur, snap, att>>
           /\ out' = [ status |-> issuedStatus, result |-> "after",
                       wait |-> until(renewalTime(certs[att.leaf], snap.spec.renewBefore)) ]
  <2>1. out'.status = issuedStatus /\ out'.result = "after" /\ out'.wait > 0
    BY <1>0, <1>1, <1>4, WaitType
  <2>2. Decided'
    BY <1>0, <1>4, <2>1, IssuanceShows DEF Decided
  <2>3. Known(out.status)'
    BY <1>0, <2>1, IssuanceShows DEF Known, kmp
  <2>4. AttemptNew'
    BY <1>4 DEF AttemptNew
  <2> QED  BY <1>0, <1>3, <1>4, <2>2, <2>3, <2>4, BusyStep
<1>5. CASE Fail(OtherError, "write")
  <2>1. AttemptNew' /\ Decided' /\ Known(out.status)' /\ pc' # "idle" /\ UNCHANGED <<cur, snap>>
    BY <1>0, <1>5, FailWake DEF Reasons, Steps
  <2> QED  BY <1>0, <1>3, <2>1, BusyStep
<1> QED  BY <1>4, <1>5, Zenon DEF WriteSecret

-----------------------------------------------------------------------------
(***************************************************************************)
(* The beginning and the end of a reconcile.                               *)
(***************************************************************************)

\* A resource that is taken from the queue is in hand.
LEMMA TakeWake ==
    ASSUME PairInv, WakeInv, LogsGrow, NEW o \in Objects, Take(o), cObj[o] # Absent,
           pc' \in {"prepare", "finish"}, cur' = o, snap' = cObj[o],
           Decided', pc' = "finish" => Known(out.status)'
    PROVE  WakeInv'
<1>0. /\ UNCHANGED <<obj, secrets, cObj, cSecrets, timer>> /\ queue' = queue \ {o} /\ pc = "idle"
      /\ ServiceTypes /\ APITypes /\ CacheTypes /\ Versions /\ KnownStatus /\ OwnedPairs /\ Awake
  BY DEF Take, api, caches, PairInv, TypeOK, WakeInv
<1>1. Versions'
  BY <1>0 DEF Versions
<1>2. OwnedPairs'
  BY <1>0 DEF OwnedPairs, holdsPair
<1>3. KnownStatus'
  <2>1. \A x \in Objects : (obj'[x] # Absent => Known(obj[x].status)')
                           /\ (cObj'[x] # Absent => Known(cObj[x].status)')
    BY <1>0, StatusesStay
  <2>2. Known(snap.status)'
    BY <1>0, <2>1 DEF Known
  <2> QED  BY <2>1, <2>2 DEF KnownStatus
<1>4. AttemptNew'
  BY DEF AttemptNew
<1>5. Awake'
  <2> SUFFICES ASSUME NEW x \in Objects, obj[x] # Absent
               PROVE  x \in queue' \/ cObj[x] # obj[x] \/ cur' = x \/ Settled(x)'
    BY <1>0 DEF Awake
  <2>1. x \in queue \/ cObj[x] # obj[x] \/ Settled(x)
    BY <1>0 DEF Awake
  <2>2. Settled(x) => Settled(x)'
    BY <1>0, SettledStays
  <2> QED  BY <1>0, <2>1, <2>2
<1> QED  BY <1>1, <1>2, <1>3, <1>4, <1>5 DEF WakeInv

\* The three outcomes of the decision: gone, current, due.
LEMMA ReconcileWake ==
    ASSUME PairInv, WakeInv, LogsGrow, NEW o \in Objects,
           ReconcileGone(o) \/ ReconcileCurrent(o) \/ ReconcileDue(o)
    PROVE  WakeInv'
<1>1. CASE ReconcileGone(o)
  <2>0. /\ UNCHANGED <<obj, secrets, cObj, cSecrets, timer, pc, cur, snap, att, out>>
        /\ queue' = queue \ {o} /\ pc = "idle" /\ cObj[o] = Absent
        /\ Versions /\ KnownStatus /\ OwnedPairs /\ Awake /\ AttemptNew /\ Decided
    BY <1>1 DEF ReconcileGone, Take, api, caches, worker, WakeInv
  <2>1. obj[o] = Absent
    BY <2>0 DEF Versions
  <2>2. Versions' /\ OwnedPairs' /\ AttemptNew' /\ Decided'
    BY <2>0 DEF Versions, OwnedPairs, holdsPair, AttemptNew, Decided
  <2>3. KnownStatus'
    BY <2>0, StatusesStay DEF KnownStatus
  <2>4. Awake'
    <3> SUFFICES ASSUME NEW x \in Objects, obj[x] # Absent
                 PROVE  x \in queue' \/ cObj[x] # obj[x] \/ Settled(x)'
      BY <2>0 DEF Awake
    <3>1. x \in queue \/ cObj[x] # obj[x] \/ Settled(x)
      BY <2>0 DEF Awake
    <3>2. Settled(x) => Settled(x)'
      BY <2>0, SettledStays
    <3> QED  BY <2>0, <2>1, <3>1, <3>2
  <2> QED  BY <2>2, <2>3, <2>4 DEF WakeInv
<1>2. CASE ReconcileCurrent(o)
  <2> DEFINE sp == cObj[o].spec
             secret == cSecrets[sp.secret]
             st == setCondition(cObj[o].status, cObj[o].generation, "True", "holds")
             wait == until(renewalTime(certs[secret.leaf], sp.renewBefore))
  <2>0. /\ Take(o) /\ cObj[o] # Absent /\ ~issuanceNeeded(sp, secret)
        /\ out' = [ status |-> st, result |-> "after", wait |-> wait ]
        /\ pc' = "finish" /\ cur' = o /\ snap' = cObj[o] /\ UNCHANGED <<cSecrets, kmp>>
    BY <1>2 DEF ReconcileCurrent, Take, caches
  <2>1. /\ ServiceTypes /\ now \in Nat /\ CachesRefer /\ cObj[o].status \in StatusType
        /\ cObj[o].generation \in Nat /\ sp \in Specs
        /\ Known(cObj[o].status)
    BY <2>0 DEF PairInv, TypeOK, CacheTypes, RestTypes, ObjectType, WakeInv, KnownStatus
  <2>2. sp.secret \in SecretNames /\ sp.renewBefore \in Nat
    BY <2>1, SpecsAssumption
  <2>3. Holds(sp, secret) /\ secret.leaf \in 1..Len(certs)
    BY <2>0, <2>1, <2>2 DEF issuanceNeeded, Holds, CachesRefer
  <2>4. wait > 0
    BY <2>1, <2>2, <2>3, WaitType
  <2>5. /\ st.observedGeneration = cObj[o].generation /\ st.ready = "True"
        /\ st.csr = cObj[o].status.csr /\ st.serial = cObj[o].status.serial
    BY <2>1 DEF setCondition, StatusType
  <2>6. out'.status = st /\ out'.result = "after" /\ out'.wait = wait
    BY <2>0
  <2>7. Holds(snap.spec, cSecrets[snap.spec.secret])'
    BY <2>0, <2>3 DEF Holds, holdsPair, matchesSpec, kmp
  <2> HIDE DEF st, wait
  <2>8. Decided'
    BY <2>0, <2>4, <2>5, <2>6, <2>7 DEF Decided
  <2>9. Known(out.status)'
    BY <2>0, <2>1, <2>5, <2>6 DEF Known, kmp
  <2> QED  BY <2>0, <2>8, <2>9, TakeWake
<1>3. CASE ReconcileDue(o)
  <2>1. Take(o) /\ cObj[o] # Absent /\ pc' = "prepare" /\ cur' = o /\ snap' = cObj[o]
    BY <1>3 DEF ReconcileDue
  <2>2. Decided'
    BY <2>1 DEF Decided
  <2> QED  BY <2>1, <2>2, TakeWake
<1> QED  BY <1>1, <1>2, <1>3

\* A timer that Return sets is set.
LEMMA ReturnTimer ==
    ASSUME PairInv, pc = "finish", Return("after"), out.wait > 0
    PROVE  timer'[cur] # NoTimer
<1>1. /\ timer \in [ Objects -> Int ] /\ cur \in Objects /\ now \in Nat /\ out.wait \in Int
  BY DEF PairInv, TypeOK, QueueTypes, WorkerTypes, RestTypes, ResultType
<1>2. timer'[cur] = IF timer[cur] = NoTimer \/ timer[cur] > now + out.wait
                    THEN now + out.wait ELSE timer[cur]
  BY <1>1 DEF Return
<1>3. now + out.wait # NoTimer
  BY <1>1 DEF NoTimer
<1> QED  BY <1>2, <1>3

\* The status update and the return: what is not requeued is either seen again by
\* the watch of the resource, or settled with its timer.
LEMMA FinishWake ==
    ASSUME PairInv, WakeInv, LogsGrow, Finish
    PROVE  WakeInv'
<1>0. /\ pc = "finish" /\ cur \in Objects /\ snap \in ObjectType
      /\ UNCHANGED <<secrets, cObj, cSecrets, kmp>>
      /\ ServiceTypes /\ APITypes /\ CacheTypes
      /\ Versions /\ KnownStatus /\ OwnedPairs /\ Awake /\ Decided
      /\ timer \in [ Objects -> Int ]
  BY DEF Finish, caches, PairInv, TypeOK, WorkerTypes, QueueTypes, WakeInv
<1> DEFINE Updated == /\ obj[cur] = snap /\ out.status # snap.status
                      /\ obj' = [ obj EXCEPT ![cur].status = out.status ]
<1>1. PICK result : /\ Return(result)
                    /\ \/ result = "retry"
                       \/ result = out.result /\ (out.status = snap.status \/ Updated)
  BY Zenon DEF Finish
<1>2. UNCHANGED obj \/ Updated
  BY Zenon DEF Finish
<1>3. /\ pc' = "idle" /\ queue' = (IF result = "retry" THEN queue \cup {cur} ELSE queue)
      /\ \A o \in Objects : o # cur => timer'[o] = timer[o]
  BY <1>0, <1>1 DEF Return
<1>4. \A o \in Objects : o # cur => obj'[o] = obj[o]
  BY <1>0, <1>2, UpdateOnly
<1>5. /\ obj'[cur] # Absent => obj[cur] # Absent /\ obj'[cur].generation = obj[cur].generation
      /\ obj'[cur] = obj[cur] \/ obj'[cur].status = out.status
  BY <1>0, <1>2, UpdateOnly
<1>6. Versions'
  BY <1>0, <1>3, <1>4, <1>5 DEF Versions
<1>7. OwnedPairs'
  BY <1>0 DEF OwnedPairs, holdsPair
<1>8. KnownStatus'
  BY <1>0, <1>3, <1>4, <1>5 DEF KnownStatus, Known, kmp
<1>9. AttemptNew' /\ Decided'
  BY <1>3 DEF AttemptNew, Decided
<1>10. Awake'
  <2> SUFFICES ASSUME NEW o \in Objects, obj'[o] # Absent
               PROVE  o \in queue' \/ cObj[o] # obj'[o] \/ Settled(o)'
    BY <1>0 DEF Awake
  <2>1. CASE o # cur
    <3>1. o \in queue \/ cObj[o] # obj[o] \/ Settled(o)
      BY <1>0, <1>4, <2>1 DEF Awake
    <3>2. Settled(o) => Settled(o)'
      BY <1>0, <1>3, <1>4, <2>1 DEF Settled, Holds, holdsPair, matchesSpec, kmp
    <3> QED  BY <1>3, <1>4, <2>1, <3>1, <3>2
  <2>2. CASE o = cur /\ result = "retry"
    BY <1>3, <2>2
  <2>3. CASE o = cur /\ ~UNCHANGED obj
    <3>1. obj'[cur].status = out.status /\ out.status # snap.status /\ obj[cur] = snap
      BY <1>0, <1>2, <2>3, UpdateOnly
    <3>2. cObj[cur] = snap
      BY <1>0, <3>1 DEF Versions
    <3> QED  BY <2>3, <3>1, <3>2
  <2>4. CASE o = cur /\ result # "retry" /\ UNCHANGED obj /\ cObj[cur] = obj[cur] /\ cur \notin queue
    <3>0. Updated => obj'[cur].status # obj[cur].status
      BY <1>0, UpdateOnly
    <3>1. obj[cur] = snap /\ out.status = snap.status /\ out.result # "retry"
      BY <1>0, <1>1, <2>4, <3>0 DEF Versions
    <3>2. /\ out.status.observedGeneration = snap.generation
          /\ \/ out.status.ready = "False"
             \/ /\ out.status.ready = "True" /\ out.result = "after" /\ out.wait > 0
                /\ Holds(snap.spec, cSecrets[snap.spec.secret])
      BY <1>0, <2>4, <3>1 DEF Decided
    <3>3. out.result = "after" /\ out.wait > 0 => timer'[cur] # NoTimer
      BY <1>0, <1>1, <2>4, ReturnTimer
    <3>4. /\ obj'[o].status.observedGeneration = obj'[o].generation
          /\ \/ obj'[o].status.ready = "False"
             \/ /\ obj'[o].status.ready = "True" /\ timer'[o] # NoTimer
                /\ Holds(obj[o].spec, cSecrets[obj[o].spec.secret])
      BY <2>4, <3>1, <3>2, <3>3
    <3>5. Settled(o)'
      BY <1>0, <2>4, <3>4 DEF Settled, Holds, holdsPair, matchesSpec, kmp
    <3> QED  BY <3>5
  <2> QED  BY <1>3, <2>1, <2>2, <2>3, <2>4
<1> QED  BY <1>6, <1>7, <1>8, <1>9, <1>10 DEF WakeInv

-----------------------------------------------------------------------------
(***************************************************************************)
(* Steps of the others: informers, users, Key Manager Plus, the clock, and *)
(* the end and start of the process.                                       *)
(***************************************************************************)

\* What the worker knows carries over while it waits.
LEMMA WorkerKnows ==
    ASSUME PairInv, WakeInv, LogsGrow, UNCHANGED worker
    PROVE  AttemptNew' /\ (pc' # "idle" => Known(snap.status)') /\ (pc' = "finish" => Known(out.status)')
<1>0. UNCHANGED <<pc, cur, snap, att, out>> /\ ServiceTypes
  BY DEF worker, PairInv, TypeOK
<1>1. Len(certs) \in Nat /\ Len(certs') \in Nat /\ Len(certs) <= Len(certs') /\ att.serial \in Nat
  BY LogLengths DEF PairInv, TypeOK, WorkerTypes, AttemptType, IDs, LogsGrow
<1>2. att.serial <= Len(certs) => att.serial <= Len(certs')
  BY <1>1
<1>3. AttemptNew'
  BY <1>0, <1>2 DEF AttemptNew, WakeInv
<1>4. ASSUME pc # "idle" PROVE Known(snap.status)'
  <2>1. snap.status \in StatusType /\ Known(snap.status)
    BY <1>4 DEF PairInv, TypeOK, WorkerTypes, ObjectType, WakeInv, KnownStatus
  <2> QED  BY <1>0, <2>1, KnownStays DEF Known
<1>5. ASSUME pc = "finish" PROVE Known(out.status)'
  <2>1. out.status \in StatusType /\ Known(out.status)
    BY <1>5 DEF PairInv, TypeOK, WorkerTypes, ResultType, WakeInv, KnownStatus
  <2> QED  BY <1>0, <2>1, KnownStays DEF Known
<1> QED  BY <1>0, <1>3, <1>4, <1>5

\* An event of a resource queues it.
LEMMA SyncObjectWake ==
    ASSUME PairInv, WakeInv, LogsGrow, NEW o \in Objects, SyncObject(o)
    PROVE  WakeInv'
<1>0. /\ UNCHANGED <<obj, secrets, cSecrets, timer, worker, pc, cur, snap, att, out, kmp>>
      /\ cObj' = [ cObj EXCEPT ![o] = obj[o] ] /\ queue' = queue \cup {o}
      /\ cObj \in [ Objects -> ObjectType \cup {Absent} ]
      /\ obj \in [ Objects -> ObjectType \cup {Absent} ]
      /\ Versions /\ KnownStatus /\ OwnedPairs /\ Awake /\ Decided
  BY DEF SyncObject, ToQueue, api, worker, PairInv, TypeOK, APITypes, CacheTypes, WakeInv
<1>1. /\ cObj'[o] = obj[o] /\ \A x \in Objects : x # o => cObj'[x] = cObj[x]
      /\ o \in queue' /\ \A x \in queue : x \in queue'
  BY <1>0
<1>2. Versions'
  <2>1. obj[o] # Absent => obj[o].generation \in Nat
    BY <1>0 DEF ObjectType
  <2>2. pc # "idle" => cur \in Objects
    BY DEF PairInv, TypeOK, WorkerTypes
  <2> QED  BY <1>0, <1>1, <2>1, <2>2 DEF Versions
<1>3. KnownStatus'
  BY <1>0, <1>1, WorkerKnows DEF KnownStatus, Known, kmp
<1>4. OwnedPairs'
  BY <1>0 DEF OwnedPairs, holdsPair
<1>5. Decided'
  BY <1>0, <1>1 DEF Decided, Holds, holdsPair, matchesSpec, kmp
<1>6. Awake'
  <2> SUFFICES ASSUME NEW x \in Objects, obj[x] # Absent
               PROVE  x \in queue' \/ cObj'[x] # obj[x] \/ (pc # "idle" /\ cur = x) \/ Settled(x)'
    BY <1>0 DEF Awake
  <2>1. Settled(x) => Settled(x)'
    BY <1>0, SettledStays
  <2> QED  BY <1>0, <1>1, <2>1 DEF Awake
<1> QED  BY <1>0, <1>2, <1>3, <1>4, <1>5, <1>6, WorkerKnows DEF WakeInv

\* A Secret that a resource relies on is controlled by it, so that its event
\* wakes the resource.
LEMMA OwnerWoken ==
    ASSUME PairInv, OwnNames, OwnedPairs, NEW o \in Objects, obj[o] # Absent,
           NEW s \in SecretNames, SyncSecret(s), s = obj[o].spec.secret, holdsPair(cSecrets[s])
    PROVE  o \in queue'
<1>1. cSecrets[s].owner \in Objects /\ cSecrets[s].owner \in {o, NoObject} /\ cSecrets[s] # Absent
  BY DEF OwnedPairs, OwnNames, holdsPair
<1>2. cSecrets[s].owner = o
  BY <1>1, SpecsAssumption
<1> QED  BY <1>1, <1>2 DEF SyncSecret, ToQueue, ownerOf

\* An event of a Secret queues the resource that relies on it.
LEMMA SyncSecretWake ==
    ASSUME PairInv, WakeInv, OwnNames, LogsGrow, NEW s \in SecretNames, SyncSecret(s)
    PROVE  WakeInv'
<1>0. /\ UNCHANGED <<obj, secrets, cObj, timer, worker, pc, cur, snap, att, out, kmp>>
      /\ cSecrets' = [ cSecrets EXCEPT ![s] = secrets[s] ]
      /\ cSecrets \in [ SecretNames -> SecretType \cup {Absent} ]
      /\ Versions /\ KnownStatus /\ OwnedPairs /\ Awake /\ Decided
  BY DEF SyncSecret, api, worker, PairInv, TypeOK, CacheTypes, WakeInv
<1>1. /\ cSecrets'[s] = secrets[s] /\ \A x \in SecretNames : x # s => cSecrets'[x] = cSecrets[x]
      /\ \A x \in queue : x \in queue'
  BY <1>0 DEF SyncSecret, ToQueue
<1>2. Versions'
  BY <1>0, <1>1 DEF Versions
<1>3. KnownStatus'
  BY <1>0, WorkerKnows DEF KnownStatus, Known, kmp
<1>4. OwnedPairs'
  BY <1>0, <1>1 DEF OwnedPairs, holdsPair
<1>5. ASSUME NEW o \in Objects, obj[o] # Absent, Holds(obj[o].spec, cSecrets[obj[o].spec.secret])
      PROVE  o \in queue' \/ Holds(obj[o].spec, cSecrets[obj[o].spec.secret])'
  <2>1. obj[o].spec.secret \in SecretNames
    BY <1>5, SpecsAssumption DEF PairInv, TypeOK, APITypes, ObjectType
  <2>2. CASE obj[o].spec.secret = s
    BY <1>0, <1>5, <2>2, OwnerWoken DEF Holds
  <2>3. CASE obj[o].spec.secret # s
    BY <1>0, <1>1, <1>5, <2>1, <2>3 DEF Holds, holdsPair, matchesSpec, kmp
  <2> QED  BY <2>2, <2>3
<1>6. Decided'
  <2> SUFFICES ASSUME pc = "finish", out.result # "retry", out.status = snap.status,
                      obj[cur] = snap, cur \notin queue',
                      Holds(snap.spec, cSecrets[snap.spec.secret])
               PROVE  Holds(snap.spec, cSecrets[snap.spec.secret])'
    BY <1>0, <1>1 DEF Decided
  <2>1. cur \in Objects /\ obj[cur] # Absent
    <3>1. snap \in ObjectType /\ cur \in Objects
      BY DEF PairInv, TypeOK, WorkerTypes
    <3>2. Absent \notin ObjectType
      BY DEF Absent, ObjectType
    <3> QED  BY <3>1, <3>2
  <2>2. PICK o \in Objects : o = cur
    BY <2>1
  <2>3. Holds(obj[o].spec, cSecrets[obj[o].spec.secret])'
    BY <1>5, <2>1, <2>2
  <2> QED  BY <1>0, <2>2, <2>3
<1>7. Awake'
  <2> SUFFICES ASSUME NEW x \in Objects, obj[x] # Absent
               PROVE  x \in queue' \/ cObj[x] # obj[x] \/ (pc # "idle" /\ cur = x) \/ Settled(x)'
    BY <1>0 DEF Awake
  <2>1. Settled(x) => x \in queue' \/ Settled(x)'
    BY <1>0, <1>5 DEF Settled
  <2> QED  BY <1>0, <1>1, <2>1 DEF Awake
<1> QED  BY <1>0, <1>2, <1>3, <1>4, <1>6, <1>7, WorkerKnows DEF WakeInv

\* A timer that has fired is a queued resource.
LEMMA TimerWake ==
    ASSUME PairInv, WakeInv, LogsGrow, NEW o \in Objects, TimerFires(o)
    PROVE  WakeInv'
<1>0. /\ UNCHANGED <<obj, secrets, cObj, cSecrets, worker, pc, cur, snap, att, out, kmp>>
      /\ queue' = queue \cup {o} /\ \A x \in Objects : x # o => timer'[x] = timer[x]
      /\ Versions /\ KnownStatus /\ OwnedPairs /\ Awake /\ Decided
  BY DEF TimerFires, ToQueue, api, caches, worker, PairInv, TypeOK, QueueTypes, WakeInv
<1>1. Versions' /\ OwnedPairs' /\ Decided'
  BY <1>0 DEF Versions, OwnedPairs, Decided, Holds, holdsPair, matchesSpec, kmp
<1>2. KnownStatus'
  BY <1>0, WorkerKnows DEF KnownStatus, Known, kmp
<1>3. Awake'
  <2> SUFFICES ASSUME NEW x \in Objects, obj[x] # Absent, x # o
               PROVE  x \in queue' \/ cObj[x] # obj[x] \/ (pc # "idle" /\ cur = x) \/ Settled(x)'
    BY <1>0 DEF Awake
  <2>1. Settled(x) => Settled(x)'
    BY <1>0, SettledStays
  <2> QED  BY <1>0, <2>1 DEF Awake
<1> QED  BY <1>0, <1>1, <1>2, <1>3, WorkerKnows DEF WakeInv

\* Edits and deletions are seen by the watches.
LEMMA UsersWake ==
    ASSUME PairInv, WakeInv, LogsGrow, Users
    PROVE  WakeInv'
<1>0. /\ UNCHANGED <<cObj, cSecrets, queue, timer, worker, pc, cur, snap, att, out, kmp>>
      /\ obj \in [ Objects -> ObjectType \cup {Absent} ]
      /\ secrets \in [ SecretNames -> SecretType \cup {Absent} ]
      /\ Versions /\ KnownStatus /\ OwnedPairs /\ Awake /\ Decided /\ CacheTypes /\ WorkerTypes
  BY DEF Users, EditSpec, DeleteObject, DeleteSecret, ChangeEnvironment, caches, worker, PairInv,
         TypeOK, APITypes, WakeInv
<1>1. Absent \notin ObjectType
  BY DEF Absent, ObjectType
\* An edit makes a generation that no cache holds; a deletion leaves nothing to do.
<1>2. /\ OwnedPairs'
      /\ \A o \in Objects :
           \/ obj'[o] = obj[o] \/ obj'[o] = Absent
           \/ /\ obj[o] # Absent /\ obj'[o] \in ObjectType
              /\ obj'[o].generation = obj[o].generation + 1 /\ obj'[o].status = obj[o].status
  <2>1. ASSUME NEW x \in Objects, EditSpec(x)
        PROVE  \A o \in Objects :
                 \/ obj'[o] = obj[o]
                 \/ /\ obj[o] # Absent /\ obj'[o] \in ObjectType
                    /\ obj'[o].generation = obj[o].generation + 1 /\ obj'[o].status = obj[o].status
    <3>1. PICK sp \in Specs :
            obj' = [ obj EXCEPT ![x] = [ exists |-> TRUE, generation |-> obj[x].generation + 1,
                                         spec |-> sp, status |-> obj[x].status ] ]
      BY <2>1 DEF EditSpec
    <3>2. obj[x] # Absent /\ obj[x] \in ObjectType
      BY <1>0, <2>1 DEF EditSpec
    <3>3. [ exists |-> TRUE, generation |-> obj[x].generation + 1,
            spec |-> sp, status |-> obj[x].status ] \in ObjectType
      BY <3>2, EditType
    <3> QED  BY <1>0, <3>1, <3>2, <3>3
  <2>2. ASSUME NEW x \in Objects, DeleteObject(x)
        PROVE  \A o \in Objects : obj'[o] = obj[o] \/ obj'[o] = Absent
    BY <1>0, <2>2 DEF DeleteObject
  <2>3. ASSUME NEW x \in SecretNames, DeleteSecret(x)
        PROVE  OwnedPairs' /\ UNCHANGED obj
    <3>1. \A s \in SecretNames : secrets'[s] = secrets[s] \/ secrets'[s] = Absent
      BY <1>0, <2>3 DEF DeleteSecret
    <3> QED  BY <1>0, <2>3, <3>1 DEF DeleteSecret, OwnedPairs, holdsPair
  <2>4. UNCHANGED secrets => OwnedPairs'
    BY <1>0 DEF OwnedPairs, holdsPair
  <2> QED
    BY <2>1, <2>2, <2>3, <2>4 DEF Users, EditSpec, DeleteObject, ChangeEnvironment, api
<1>3. \A o \in Objects :
        \/ obj'[o] = obj[o] \/ obj'[o] = Absent
        \/ /\ obj'[o] # Absent /\ obj'[o] # cObj[o] /\ cObj[o] # Absent
           /\ cObj[o].generation <= obj'[o].generation
           /\ obj'[o].status = obj[o].status /\ obj[o] # Absent
           /\ pc # "idle" /\ cur = o => obj'[o] # snap /\ snap.generation <= obj'[o].generation
  <2> SUFFICES ASSUME NEW o \in Objects, obj[o] # Absent, obj'[o] \in ObjectType,
                      obj'[o].generation = obj[o].generation + 1
               PROVE  /\ obj'[o] # cObj[o] /\ cObj[o] # Absent
                      /\ cObj[o].generation <= obj'[o].generation
                      /\ pc # "idle" /\ cur = o =>
                           obj'[o] # snap /\ snap.generation <= obj'[o].generation
    BY <1>1, <1>2
  <2>1. cObj[o] # Absent /\ cObj[o].generation <= obj[o].generation
    BY <1>0 DEF Versions
  <2>2. obj[o].generation \in Nat /\ cObj[o].generation \in Nat
    BY <1>0, <2>1 DEF CacheTypes, ObjectType
  <2>3. ASSUME pc # "idle", cur = o
        PROVE  obj'[o] # snap /\ snap.generation <= obj'[o].generation
    <3>1. snap.generation \in Nat /\ snap.generation <= obj[o].generation
      BY <1>0, <2>3 DEF WorkerTypes, ObjectType, Versions
    <3> QED  BY <2>2, <3>1
  <2> QED  BY <2>1, <2>2, <2>3
<1>4. pc # "idle" => cur \in Objects /\ snap # Absent
  BY <1>0, <1>1 DEF WorkerTypes
<1>5. Versions'
  BY <1>0, <1>3, <1>4 DEF Versions
<1>6. KnownStatus'
  BY <1>0, <1>3, WorkerKnows DEF KnownStatus, Known, kmp
<1>7. Decided'
  <2>1. obj[cur] # snap /\ pc # "idle" => obj'[cur] # snap
    BY <1>3, <1>4
  <2> QED  BY <1>0, <2>1 DEF Decided, Holds, holdsPair, matchesSpec, kmp
<1>8. Awake'
  <2> SUFFICES ASSUME NEW x \in Objects, obj'[x] # Absent
               PROVE  x \in queue \/ cObj[x] # obj'[x] \/ (pc # "idle" /\ cur = x) \/ Settled(x)'
    BY <1>0 DEF Awake
  <2>1. CASE obj'[x] = obj[x]
    <3>1. Settled(x) => Settled(x)'
      BY <1>0, <2>1 DEF Settled, Holds, holdsPair, matchesSpec, kmp
    <3> QED  BY <1>0, <2>1, <3>1 DEF Awake
  <2> QED  BY <1>3, <2>1
<1> QED  BY <1>0, <1>2, <1>5, <1>6, <1>7, <1>8, WorkerKnows DEF WakeInv

\* The next process lists everything and queues it.
LEMMA CrashWake ==
    ASSUME PairInv, WakeInv, LogsGrow, Crash
    PROVE  WakeInv'
<1>0. /\ UNCHANGED <<obj, secrets, kmp>> /\ cObj' = obj /\ cSecrets' = secrets /\ pc' = "idle"
      /\ queue' = { o \in Objects : obj[o] # Absent }
      /\ obj \in [ Objects -> ObjectType \cup {Absent} ]
      /\ KnownStatus /\ OwnedPairs
  BY DEF Crash, api, PairInv, TypeOK, APITypes, WakeInv
<1>1. Versions'
  <2> SUFFICES ASSUME NEW o \in Objects, obj[o] # Absent
               PROVE  obj[o].generation <= obj[o].generation
    BY <1>0 DEF Versions
  <2>1. obj[o].generation \in Nat
    BY <1>0 DEF ObjectType
  <2> QED  BY <2>1
<1>2. OwnedPairs' /\ AttemptNew' /\ Decided' /\ Awake'
  BY <1>0 DEF OwnedPairs, holdsPair, AttemptNew, Decided, Awake
<1>3. KnownStatus'
  BY <1>0 DEF KnownStatus, Known, kmp
<1> QED  BY <1>1, <1>2, <1>3 DEF WakeInv

\* Key Manager Plus and the clock.
LEMMA ElsewhereWake ==
    ASSUME PairInv, WakeInv, LogsGrow,
           UNCHANGED <<obj, secrets, cObj, cSecrets, queue, timer, worker>>
    PROVE  WakeInv'
<1>0. /\ UNCHANGED <<pc, cur, snap, att, out>> /\ CachesRefer
      /\ Versions /\ KnownStatus /\ OwnedPairs /\ Awake /\ Decided
  BY DEF worker, PairInv, WakeInv
<1>1. Versions' /\ OwnedPairs'
  BY <1>0 DEF Versions, OwnedPairs, holdsPair
<1>2. KnownStatus'
  BY <1>0, StatusesStay, WorkerKnows DEF KnownStatus
<1>3. Decided'
  <2> SUFFICES ASSUME pc = "finish", Holds(snap.spec, cSecrets[snap.spec.secret])
               PROVE  Holds(snap.spec, cSecrets[snap.spec.secret])'
    BY <1>0 DEF Decided
  <2>1. snap.spec.secret \in SecretNames
    BY SpecsAssumption DEF PairInv, TypeOK, WorkerTypes, ObjectType
  <2> QED  BY <1>0, <2>1, HoldsStays DEF Holds, holdsPair, matchesSpec
<1>4. Awake'
  <2> SUFFICES ASSUME NEW x \in Objects, obj[x] # Absent
               PROVE  x \in queue \/ cObj[x] # obj[x] \/ (pc # "idle" /\ cur = x) \/ Settled(x)'
    BY <1>0 DEF Awake
  <2>1. Settled(x) => Settled(x)'
    BY <1>0, SettledStays
  <2> QED  BY <1>0, <2>1 DEF Awake
<1> QED  BY <1>0, <1>1, <1>2, <1>3, <1>4, WorkerKnows DEF WakeInv

-----------------------------------------------------------------------------
\* Everything is queued at the start.
LEMMA InitWake == Init => WakeInv
<1> SUFFICES ASSUME Init PROVE WakeInv
  OBVIOUS
<1>1. /\ cObj = obj /\ cSecrets = secrets /\ queue = Objects /\ pc = "idle"
      /\ csrs = <<>> /\ certs = <<>>
  BY DEF Init
<1>2. PICK f \in [ Objects -> Specs ] :
        obj = [ o \in Objects |-> [ exists |-> TRUE, generation |-> 1, spec |-> f[o],
                                    status |-> NoStatus ] ]
  BY DEF Init
<1>3. Versions
  BY <1>1, <1>2 DEF Versions, Absent
<1>4. OwnedPairs
  BY <1>1 DEF Init, OwnedPairs, holdsPair, EmptySecret
<1>5. KnownStatus
  BY <1>1, <1>2 DEF KnownStatus, Known, NoStatus, NoID
<1>6. AttemptNew /\ Decided /\ Awake
  BY <1>1 DEF AttemptNew, Decided, Awake
<1> QED  BY <1>3, <1>4, <1>5, <1>6 DEF WakeInv

\* Every step keeps the invariant.
LEMMA NextWake ==
    ASSUME Identifies, PairInv, OwnNames, WakeInv, [Next]_vars
    PROVE  WakeInv'
<1>0. LogsGrow
  BY NextLogs
<1>1. CASE WorkerStep
  BY <1>0, <1>1, ReconcileWake, PrepareWake, CreateWake, StoreFullWake, ResolveWake, SignWake,
     FetchWake, ExportWake, WriteWake, FinishWake DEF WorkerStep
<1>2. CASE Informers
  BY <1>0, <1>2, SyncObjectWake, SyncSecretWake, TimerWake DEF Informers
<1>3. CASE Users
  BY <1>0, <1>3, UsersWake
<1>4. CASE Crash
  BY <1>0, <1>4, CrashWake
<1>5. CASE Service \/ Tick \/ Wait \/ UNCHANGED vars
  <2>1. UNCHANGED <<obj, secrets, cObj, cSecrets, queue, timer, worker>>
    BY <1>5 DEF Service, ListCSR, PublishCertificate, OutsideStores, OutsideSigns, Tick, Wait, vars,
                api, caches
  <2> QED  BY <1>0, <2>1, ElsewhereWake
<1> QED  BY <1>1, <1>2, <1>3, <1>4, <1>5 DEF Next

\* No wake-up is lost: where no resource names a Secret that another one controls,
\* and every issuance shows in the status, a resource that is not queued and whose
\* events have been seen has a Ready condition that tells the truth about its
\* present generation and, when that is True, a timer for the renewal (Reconcile,
\* the watches of SetupWithManager, RequeueAfter).
THEOREM NoWakeupLost ==
    ASSUME Identifies
    PROVE  Spec /\ []OwnNames => []SettledWhenQuiet
<1>1. PairInv /\ OwnNames /\ WakeInv /\ [Next]_vars => WakeInv'
  BY NextWake
<1>2. WakeInv => SettledWhenQuiet
  BY DEF WakeInv, Awake, Settled, Holds, SettledWhenQuiet, Quiet, Current
<1> QED  BY <1>1, <1>2, InitWake, Invariance, PTL DEF Spec

\* A resource that is alone shares its Secret with no other.
THEOREM NoWakeupLostAlone ==
    ASSUME Identifies, NEW o, Objects = {o}
    PROVE  Spec => []SettledWhenQuiet
<1>1. PairInv => OwnNames
  <2> SUFFICES ASSUME PairInv, obj[o] # Absent
               PROVE  LET secret == cSecrets[obj[o].spec.secret]
                      IN  secret # Absent => secret.owner \in {o, NoObject}
    BY DEF OwnNames
  <2>1. obj[o].spec.secret \in SecretNames
    BY SpecsAssumption DEF PairInv, TypeOK, APITypes, ObjectType
  <2> QED  BY <2>1 DEF PairInv, TypeOK, CacheTypes, SecretType
<1> QED  BY <1>1, NoWakeupLost, Invariance, PTL
=============================================================================
