-------------------------- MODULE EscrowController --------------------------
(***************************************************************************)
(* The escrowed-key flow: KMPCertificateReconciler                         *)
(* (internal/controllers/kmpcertificate_controller.go) running Provision   *)
(* (internal/kmp/provision.go) against Key Manager Plus.                   *)
(*                                                                         *)
(* One worker takes KMPCertificates from the work queue.  Every call it    *)
(* makes to Key Manager Plus or to the API server is a step of its own, so *)
(* edits, deletions, other users of Key Manager Plus, the clock, informer  *)
(* events and crashes come between any two of them.                        *)
(***************************************************************************)
EXTENDS Client, KeyManagerPlus, FiniteSets

CONSTANTS
    Objects,          \* the KMPCertificate resources
    SecretNames,      \* the names their Secrets can have
    Specs,            \* the specs they can be given
    Preexisting,      \* the Secrets that may be there, empty, from the start
    IPs,              \* the alternative names that net.ParseIP accepts
    Lifetime,         \* validity of an issued certificate, in clock ticks
    Replies,          \* how Key Manager Plus may answer (subset of Answers)
    TemplatesInUse,   \* what the CA may do (subset of Templates)
    Environments,     \* the states the issuer and its Secrets can be in
    ReportsID,        \* createCSR reports the id of the stored CSR
    ReportsSerial,    \* signCSR reports the serial number
    HasLookup,        \* signing.csrLookupOperation is set
    ListLag,          \* a stored CSR shows in the list operation only later
    PublishLag,       \* a signed certificate can be fetched only later
    CacheLag,         \* informer caches may lag behind the API server
    EncryptedExport,  \* exportCSR protects the key with the password
    UserOps           \* subset of {"edit", "deleteSecret", "deleteObject"}

CONSTANTS             \* bounds
    MaxTime, MaxGeneration, MaxCSRs, MaxPolls, MaxFaults, MaxCrashes, MaxOutside

Bool == {TRUE, FALSE}
NoObject == "none"

EnvStates == {"ok", "issuerMissing", "unknownKind", "noAuthSecret",
              "invalidIssuer", "noPasswordSecret", "emptyPassword"}

ASSUME SpecsAssumption ==
    /\ Objects # {} /\ NoObject \notin Objects /\ Preexisting \subseteq SecretNames
    /\ \A sp \in Specs :
        /\ sp.secret \in SecretNames
        /\ sp.password \in {"generated", "supplied"}
        /\ sp.renewBefore \in Nat
ASSUME LifetimeAssumption == Lifetime \in Nat \ {0}
ASSUME ServiceAssumption ==
    /\ Success \in Replies /\ Replies \subseteq Answers
    /\ TemplatesInUse \subseteq Templates
    /\ Environments \subseteq EnvStates
    /\ {ReportsID, ReportsSerial, HasLookup, ListLag, PublishLag, CacheLag,
        EncryptedExport} \subseteq Bool
ASSUME BoundsAssumption ==
    {MaxTime, MaxGeneration, MaxCSRs, MaxPolls, MaxFaults, MaxCrashes, MaxOutside} \subseteq Nat

VARIABLES
    obj,        \* API server: the KMPCertificates
    secrets,    \* API server: the Secrets
    cObj,       \* informer cache of obj
    cSecrets,   \* informer cache of secrets
    queue,      \* work queue: resources to reconcile
    timer,      \* RequeueAfter: when a resource is added to the queue again
    pc,         \* the worker: what it does next
    cur,        \*   the resource it reconciles
    snap,       \*   that resource as it read it
    att,        \*   the issuance attempt
    out,        \*   the status and the result it will return
    env,        \* the issuer, its auth Secret and the password Secret
    csrs, listed, certs, published,   \* Key Manager Plus
    now,        \* the clock
    faults, crashes                   \* failures so far

api    == <<obj, secrets>>
caches == <<cObj, cSecrets>>
worker == <<pc, cur, snap, att, out>>
kmp    == <<csrs, listed, certs, published>>
budget == <<faults, crashes>>
vars   == <<api, caches, queue, timer, worker, env, kmp, now, budget>>

Absent   == [ exists |-> FALSE ]
NoTimer  == -1
NoPassword == 0       \* no keystore-password entry in the Secret
UserPassword == -1    \* the password keyStorePasswordSecretRef supplies

NoStatus == [ ready |-> "Unknown", reason |-> "none", observedGeneration |-> 0,
              csr |-> NoID, serial |-> NoID, leaf |-> NoID ]
\* A Secret some user made, without a certificate, a key or an owner.
EmptySecret == [ exists |-> TRUE, owner |-> NoObject, leaf |-> NoID, key |-> NoID,
                 password |-> NoPassword ]
NoAttempt == [ password |-> NoPassword, csr |-> NoID, serial |-> NoID, polls |-> 0,
               fetched |-> {}, leaf |-> NoID ]
NoResult == [ status |-> NoStatus, result |-> "none", wait |-> 0 ]

-----------------------------------------------------------------------------
\* Pure parts of the reconciler.

\* The request sent for a spec: DNS names and IP addresses travel as one list
\* of alternative names, which Key Manager Plus sorts by what they parse as.
provisionRequest(sp) ==
    LET alt == sp.dnsNames \cup sp.ipAddresses
    IN  Identity(sp.commonName, alt \ IPs, alt \cap IPs, sp.organization)

\* Mutant: the alternative names are not looked at.
verifyCommonNameOnly(sp, leaf) == leaf.cn = sp.commonName

\* The names of a request a certificate has to carry to be published.
verifyProvisionedNames(sp, leaf) ==
    LET alt == sp.dnsNames \cup sp.ipAddresses
    IN  /\ leaf.cn = sp.commonName
        /\ \A n \in alt : IF n \in IPs THEN n \in leaf.ips ELSE n \in leaf.dns

\* The spec a published certificate still has to match.
matchesSpec(sp, leaf) ==
    /\ leaf.cn = sp.commonName
    /\ sp.dnsNames \subseteq leaf.dns
    /\ \A n \in sp.ipAddresses : n \in IPs /\ n \in leaf.ips
    /\ sp.organization # "" => leaf.org = sp.organization

renewalTime(cert, renewBefore) ==
    cert.notAfter - (IF renewBefore > 0
                     THEN renewBefore
                     ELSE (cert.notAfter - cert.notBefore) \div 3)

\* At least one second, the tick of the clock.
until(at) == IF at - now < 1 THEN 1 ELSE at - now

\* The Secret is there, with a certificate and a key.
holdsPair(secret) == secret # Absent /\ secret.leaf # NoID

issuanceNeeded(sp, secret) ==
    holdsPair(secret) =>
        \/ ~matchesSpec(sp, certs[secret.leaf].id)
        \/ now >= renewalTime(certs[secret.leaf], sp.renewBefore)

setCondition(st, generation, ready, reason) ==
    [ st EXCEPT !.ready = ready, !.reason = reason, !.observedGeneration = generation ]

\* Mutant: whatever is wrong with the issuer is taken for a misconfiguration.
prepareErrorFinal(sp) == IF env = "ok" THEN Nil ELSE ErrInvalidConfig

\* What goes wrong before Key Manager Plus is called.  The builder's error is
\* formatted into a new one, so that what it wraps is lost.
prepareError(sp) ==
    CASE env = "issuerMissing"    -> OtherError
      [] env = "unknownKind"      -> ErrInvalidConfig
      [] env = "noAuthSecret"     -> OtherError
      [] env = "noPasswordSecret" /\ sp.password = "supplied" -> OtherError
      [] env = "emptyPassword" /\ sp.password = "supplied"    -> ErrInvalidConfig
      [] env = "invalidIssuer"    -> OtherError
      [] OTHER                    -> Nil

ToQueue(S) == queue' = queue \cup (S \cap Objects)

-----------------------------------------------------------------------------
Init ==
    /\ \E f \in [Objects -> Specs] :
        obj = [ o \in Objects |-> [ exists |-> TRUE, generation |-> 1, spec |-> f[o],
                                    status |-> NoStatus ] ]
    /\ \E given \in SUBSET Preexisting :
        secrets = [ s \in SecretNames |-> IF s \in given THEN EmptySecret ELSE Absent ]
    /\ cObj = obj /\ cSecrets = secrets
    /\ queue = Objects
    /\ timer = [ o \in Objects |-> NoTimer ]
    /\ pc = "idle" /\ cur = NoObject /\ snap = Absent /\ att = NoAttempt /\ out = NoResult
    /\ env \in Environments
    /\ csrs = <<>> /\ listed = {} /\ certs = <<>> /\ published = {}
    /\ now = 0 /\ faults = 0 /\ crashes = 0

-----------------------------------------------------------------------------
(***************************************************************************)
(* Key Manager Plus: what a call changes there, and what happens in it     *)
(* without the controller.                                                 *)
(***************************************************************************)
StoreCSR(id, password, origin) ==
    /\ csrs' = Append(csrs, [ id |-> id, password |-> password, origin |-> origin ])
    /\ listed' = IF ListLag THEN listed ELSE listed \cup {Len(csrs) + 1}
    /\ UNCHANGED <<certs, published>>

Issue(csr, template) ==
    /\ certs' = Append(certs, [ csr |-> csr, id |-> CertifiedIdentity(csrs[csr].id, template),
                                notBefore |-> now, notAfter |-> now + Lifetime ])
    /\ published' = IF PublishLag THEN published ELSE published \cup {Len(certs) + 1}
    /\ UNCHANGED <<csrs, listed>>

\* A generated password is used for one stored CSR only, so the id that CSR
\* gets stands for it.
FreshPassword == Len(csrs) + 1

ListCSR ==
    /\ \E i \in 1..Len(csrs) \ listed : listed' = listed \cup {i}
    /\ UNCHANGED <<csrs, certs, published, api, caches, queue, timer, worker, env, now, budget>>

PublishCertificate ==
    /\ \E n \in 1..Len(certs) \ published : published' = published \cup {n}
    /\ UNCHANGED <<csrs, listed, certs, api, caches, queue, timer, worker, env, now, budget>>

\* Another user of Key Manager Plus: the issuer controllers importing a CSR,
\* another cluster, an operator.
OutsideCSRs == { i \in 1..Len(csrs) : csrs[i].origin # "escrow" }

OutsideStores ==
    /\ Cardinality(OutsideCSRs) < MaxOutside /\ Len(csrs) < MaxCSRs
    /\ \E sp \in Specs, origin \in {"created", "imported"} :
        StoreCSR(provisionRequest(sp), FreshPassword, origin)
    /\ UNCHANGED <<api, caches, queue, timer, worker, env, now, budget>>

OutsideSigns ==
    /\ \E i \in OutsideCSRs, t \in TemplatesInUse :
        /\ \A n \in 1..Len(certs) : certs[n].csr # i
        /\ Issue(i, t)
    /\ UNCHANGED <<api, caches, queue, timer, worker, env, now, budget>>

-----------------------------------------------------------------------------
(***************************************************************************)
(* The worker.  Its steps leave the clock, the environment and the caches  *)
(* alone; those that only talk to Key Manager Plus also leave the API      *)
(* server and the work queue alone.                                        *)
(***************************************************************************)
Go(step) == pc' = step /\ UNCHANGED <<cur, snap, out>>

\* Mutant: a signCSR that failed is sent again for the same CSR.
FailSignsAgain(e, step) ==
    /\ IF step = "sign" /\ ~IsPermanent(e) THEN UNCHANGED <<pc, out>>
       ELSE pc' = "finish" /\ out' = [ NoResult EXCEPT !.status = snap.status, !.result = "stop" ]
    /\ UNCHANGED <<cur, snap, att>>

\* Reconcile's error branch: a permanent error is not retried.
Fail(e, step) ==
    /\ pc' = "finish"
    /\ out' = [ status |-> setCondition(snap.status, snap.generation, "False", step),
                result |-> IF IsPermanent(e) THEN "stop" ELSE "retry",
                wait   |-> 0 ]
    /\ UNCHANGED <<cur, snap, att>>

\* Any answer but a success is a fault; the instance allows MaxFaults.
Answered(e) ==
    /\ e # Nil => faults < MaxFaults
    /\ faults' = IF e = Nil THEN faults ELSE faults + 1

Elsewhere == UNCHANGED <<api, caches, queue, timer, env, now, crashes>>

\* Informer caches lag.  CacheLag = FALSE leaves out the behaviours in which the
\* worker reads one that does, for instances that would be too large otherwise.
Fresh == CacheLag \/ (cObj = obj /\ cSecrets = secrets)

Take(o) ==
    /\ pc = "idle" /\ o \in queue /\ Fresh
    /\ queue' = queue \ {o}
    /\ UNCHANGED <<api, caches, timer, env, kmp, now, budget>>

\* Reconcile up to the decision whether to issue, in three outcomes: the
\* resource is gone, the Secret is current, or a certificate is needed.
ReconcileGone(o) ==
    /\ Take(o) /\ cObj[o] = Absent
    /\ UNCHANGED worker

ReconcileCurrent(o) ==
    /\ Take(o) /\ cObj[o] # Absent
    /\ LET sp == cObj[o].spec
           secret == cSecrets[sp.secret]
       IN  /\ ~issuanceNeeded(sp, secret)
           /\ out' = [ status |-> setCondition(cObj[o].status, cObj[o].generation, "True", "holds"),
                       result |-> "after",
                       wait   |-> until(renewalTime(certs[secret.leaf], sp.renewBefore)) ]
    /\ pc' = "finish" /\ cur' = o /\ snap' = cObj[o]
    /\ UNCHANGED att

\* Mutant: the resource that was read is not kept.
ReconcileForgets(o) ==
    /\ Take(o) /\ cObj[o] # Absent
    /\ issuanceNeeded(cObj[o].spec, cSecrets[cObj[o].spec.secret])
    /\ pc' = "prepare" /\ cur' = o
    /\ UNCHANGED <<snap, att, out>>

ReconcileDue(o) ==
    /\ Take(o) /\ cObj[o] # Absent
    /\ issuanceNeeded(cObj[o].spec, cSecrets[cObj[o].spec.secret])
    /\ pc' = "prepare" /\ cur' = o /\ snap' = cObj[o]
    /\ UNCHANGED <<att, out>>

\* issue up to the first call to Key Manager Plus: the issuer, its auth
\* Secret, the password and the client.
Prepare ==
    /\ pc = "prepare"
    /\ IF prepareError(snap.spec) = Nil
       THEN Go("create") /\ UNCHANGED att
       ELSE Fail(prepareError(snap.spec), "prepare")
    /\ Elsewhere /\ UNCHANGED <<kmp, faults>>

\* A failed call may have been carried out: the answer was lost on its way.
CreateCSR ==
    /\ pc = "create"
    /\ LET password == IF snap.spec.password = "generated" THEN FreshPassword ELSE UserPassword
       IN  \E r \in Replies, stored \in Bool :
            /\ call(r) = Nil => stored
            /\ stored => Len(csrs) < MaxCSRs
            /\ Answered(call(r))
            /\ IF stored
               THEN StoreCSR(provisionRequest(snap.spec), password, "escrow")
               ELSE UNCHANGED kmp
            /\ IF call(r) = Nil
               THEN /\ att' = [ att EXCEPT !.password = password,
                                           !.csr = IF ReportsID THEN Len(csrs) + 1 ELSE NoID ]
                    /\ Go("resolve")
               ELSE Fail(call(r), "create")
    /\ Elsewhere

\* At the bound the store is full and Key Manager Plus cannot serve the call.
StoreFull ==
    /\ pc = "create" /\ Len(csrs) = MaxCSRs
    /\ Fail(call([ Success EXCEPT !.code = 503 ]), "create")
    /\ Elsewhere /\ UNCHANGED <<kmp, faults>>

ResolveCSRID ==
    /\ pc = "resolve"
    /\ LET found == ListedFor(csrs, listed, snap.spec.commonName)
       IN  \/ /\ att.csr # NoID
              /\ Go("sign") /\ UNCHANGED <<att, faults>>
           \/ /\ att.csr = NoID /\ ~HasLookup
              /\ Fail(ErrInvalidConfig, "resolve") /\ UNCHANGED faults
           \/ /\ att.csr = NoID /\ HasLookup
              /\ \E r \in Replies :
                  LET e == FindCSRID(IF found = {} THEN [ r EXCEPT !.payload = "none" ] ELSE r)
                  IN  /\ Answered(FindCSRID(r))
                      /\ \/ e # Nil /\ Fail(e, "resolve")
                         \/ /\ e = Nil /\ Go("sign")
                            /\ \E id \in highestID(found) :
                                att' = [ att EXCEPT !.csr = id ]
    /\ Elsewhere /\ UNCHANGED kmp

SignStoredCSR ==
    /\ pc = "sign"
    /\ \E r \in Replies, signed \in Bool, t \in TemplatesInUse :
        /\ SignCSR(r) = Nil => signed
        /\ Answered(SignCSR(r))
        /\ IF signed THEN Issue(att.csr, t) ELSE UNCHANGED kmp
        /\ IF SignCSR(r) = Nil
           THEN /\ att' = [ att EXCEPT !.serial = IF ReportsSerial THEN Len(certs) + 1 ELSE NoID ]
                /\ Go("fetch")
           ELSE Fail(SignCSR(r), "sign")
    /\ Elsewhere

\* fetchCertificate: MaxPolls is the number of polls the timeout leaves room
\* for; running out of them before the certificate is published is a fault.
\* Key Manager Plus returns what it has published of what was asked for, some or
\* all of it when that is the certificates of a common name.
FetchCertificate ==
    /\ pc = "fetch"
    /\ LET candidates == PublishedFor(csrs, certs, published, snap.spec.commonName, att.serial)
       IN  \E r \in Replies, returned \in SUBSET candidates :
            LET e == GetCertificate(IF returned = {} THEN [ r EXCEPT !.payload = "none" ] ELSE r)
            IN  /\ returned = {} => candidates = {}
                /\ \/ /\ e = Nil /\ Answered(Nil)
                      /\ Go("export") /\ att' = [ att EXCEPT !.fetched = returned ]
                   \/ /\ e # Nil /\ ~IsPermanent(e) /\ att.polls < MaxPolls
                      /\ Answered(GetCertificate(r))
                      /\ Go("fetch") /\ att' = [ att EXCEPT !.polls = @ + 1 ]
                   \/ /\ e # Nil /\ (IsPermanent(e) \/ att.polls >= MaxPolls)
                      /\ Answered(e)
                      /\ Fail(e, "fetch")
    /\ Elsewhere /\ UNCHANGED kmp

\* The call, and an answer in which no private key is found.
exportError(r) ==
    IF callRaw(r) # Nil           THEN callRaw(r)
    ELSE IF r.payload # "there"   THEN ErrUnusableResponse
    ELSE Nil

\* What the export holds: an imported CSR has no private key there, and a key
\* under another password cannot be read.
exportReadable ==
    /\ csrs[att.csr].origin # "imported"
    /\ EncryptedExport => csrs[att.csr].password = att.password

\* Mutant: any certificate of the answer is taken for the leaf.
leavesForAnyKey(key) == att.fetched

\* findLeaf: the certificates for the exported key, the key of CSR att.csr.
leavesFor(key) == { n \in att.fetched : certs[n].csr = key }

ExportAndVerify ==
    /\ pc = "export"
    /\ \E r \in Replies :
        /\ Answered(exportError(r))
        /\ \/ exportError(r) # Nil /\ Fail(exportError(r), "export")
           \/ exportError(r) = Nil /\ ~exportReadable /\ Fail(ErrUnusableResponse, "export")
           \/ /\ exportError(r) = Nil /\ exportReadable /\ leavesFor(att.csr) = {}
              /\ Fail(ErrUnusableResponse, "bundle")
           \/ /\ exportError(r) = Nil /\ exportReadable
              /\ \E leaf \in leavesFor(att.csr) :
                  IF verifyProvisionedNames(snap.spec, certs[leaf].id)
                  THEN Go("write") /\ att' = [ att EXCEPT !.leaf = leaf ]
                  ELSE Fail(ErrUnusableResponse, "names")
    /\ Elsewhere /\ UNCHANGED kmp

\* Mutant: a password that is already recorded is not replaced.
desiredSecretKeepsPassword(cached) ==
    [ exists |-> TRUE, owner |-> cur, leaf |-> att.leaf, key |-> att.csr,
      password |-> IF cached = Absent THEN att.password ELSE cached.password ]

\* The Secret CreateOrUpdate makes of the cached one.  The entry with the
\* password is only set when the password was generated, and kept otherwise.
desiredSecret(cached) ==
    [ exists |-> TRUE, owner |-> cur, leaf |-> att.leaf, key |-> att.csr,
      password |-> IF snap.spec.password = "generated" THEN att.password
                   ELSE IF cached = Absent THEN NoPassword ELSE cached.password ]

\* Mutant: no controller reference is checked.
writableByAnyone(s) == secrets[s] = cSecrets[s]

\* Mutant: the Secret is written whatever version it has.
writableUnversioned(s) == cSecrets[s] # Absent => cSecrets[s].owner \in {cur, NoObject}

\* Create succeeds when there is no such Secret; Update when no other resource
\* controls it and it is still the version the cache holds.  A cached version
\* can be compared by value: no version of a resource recurs while it is
\* cached, since a write needs the cache to hold the version it replaces.
writable(s) ==
    /\ secrets[s] = cSecrets[s]
    /\ cSecrets[s] # Absent => cSecrets[s].owner \in {cur, NoObject}

\* Mutant: the id of the CSR is recorded once and kept.
issuedStatusFirstCSR ==
    [ setCondition(snap.status, snap.generation, "True", "issued")
        EXCEPT !.csr = IF @ = NoID THEN att.csr ELSE @, !.serial = att.serial, !.leaf = att.leaf ]

issuedStatus ==
    [ setCondition(snap.status, snap.generation, "True", "issued")
        EXCEPT !.csr = att.csr, !.serial = att.serial, !.leaf = att.leaf ]

WriteSecret ==
    /\ pc = "write" /\ Fresh
    /\ LET s == snap.spec.secret
       IN  \/ /\ writable(s)
              /\ secrets' = [ secrets EXCEPT ![s] = desiredSecret(cSecrets[s]) ]
              /\ pc' = "finish"
              /\ out' = [ status |-> issuedStatus, result |-> "after",
                          wait |-> until(renewalTime(certs[att.leaf], snap.spec.renewBefore)) ]
              /\ UNCHANGED <<cur, snap, att, faults>>
           \/ /\ ~writable(s)
              /\ Fail(OtherError, "write") /\ UNCHANGED <<secrets, faults>>
           \/ /\ Answered(OtherError)     \* the API server fails, or its answer is lost
              /\ Fail(OtherError, "write")
              /\ \/ UNCHANGED secrets
                 \/ writable(s) /\ secrets' = [ secrets EXCEPT ![s] = desiredSecret(cSecrets[s]) ]
    /\ UNCHANGED <<obj, caches, queue, timer, env, kmp, now, crashes>>

\* Mutant: the renewal is not scheduled.
ReturnWithoutTimer(result) ==
    /\ queue' = IF result = "retry" THEN queue \cup {cur} ELSE queue
    /\ pc' = "idle" /\ cur' = NoObject /\ snap' = Absent /\ att' = NoAttempt /\ out' = NoResult
    /\ UNCHANGED timer

\* What controller-runtime does with a result: an error puts the resource back
\* (after a back-off), RequeueAfter does so later, unless it is due earlier.
Return(result) ==
    /\ queue' = IF result = "retry" THEN queue \cup {cur} ELSE queue
    /\ timer' = IF result = "after"
                THEN [ timer EXCEPT ![cur] =
                         IF @ = NoTimer \/ @ > now + out.wait THEN now + out.wait ELSE @ ]
                ELSE timer
    /\ pc' = "idle" /\ cur' = NoObject /\ snap' = Absent /\ att' = NoAttempt /\ out' = NoResult

\* The deferred status update, and the return.
Finish ==
    /\ pc = "finish"
    /\ LET changed == out.status # snap.status
           update  == obj' = [ obj EXCEPT ![cur].status = out.status ]
       IN  \/ ~changed /\ Return(out.result) /\ UNCHANGED <<obj, faults>>
           \/ changed /\ obj[cur] = snap /\ update /\ Return(out.result) /\ UNCHANGED faults
           \/ changed /\ obj[cur] # snap /\ Return("retry") /\ UNCHANGED <<obj, faults>>
           \/ /\ changed /\ Answered(OtherError) /\ Return("retry")
              /\ UNCHANGED obj \/ (obj[cur] = snap /\ update)
    /\ UNCHANGED <<secrets, caches, env, kmp, now, crashes>>

\* The worker can be anywhere when the process ends.  The next one lists all
\* resources: its caches are current and everything is queued.
Crash ==
    /\ crashes < MaxCrashes /\ crashes' = crashes + 1
    /\ cObj' = obj /\ cSecrets' = secrets
    /\ queue' = { o \in Objects : obj[o] # Absent }
    /\ timer' = [ o \in Objects |-> NoTimer ]
    /\ pc' = "idle" /\ cur' = NoObject /\ snap' = Absent /\ att' = NoAttempt /\ out' = NoResult
    /\ UNCHANGED <<api, env, kmp, now, faults>>

-----------------------------------------------------------------------------
(***************************************************************************)
(* Informers, clock and users.                                             *)
(***************************************************************************)
SyncObject(o) ==
    /\ cObj[o] # obj[o]
    /\ cObj' = [ cObj EXCEPT ![o] = obj[o] ]
    /\ ToQueue({o})
    /\ UNCHANGED <<api, cSecrets, timer, worker, env, kmp, now, budget>>

\* Mutant: the controller does not watch the Secrets it owns.
ownerNotWatched(secret) == {}

ownerOf(secret) == IF secret = Absent THEN {} ELSE {secret.owner}

\* Owns: an event of a Secret enqueues the resource that controls it.
SyncSecret(s) ==
    /\ cSecrets[s] # secrets[s]
    /\ cSecrets' = [ cSecrets EXCEPT ![s] = secrets[s] ]
    /\ ToQueue(ownerOf(cSecrets[s]) \cup ownerOf(secrets[s]))
    /\ UNCHANGED <<api, cObj, timer, worker, env, kmp, now, budget>>

TimerFires(o) ==
    /\ timer[o] # NoTimer /\ timer[o] <= now
    /\ timer' = [ timer EXCEPT ![o] = NoTimer ]
    /\ ToQueue({o})
    /\ UNCHANGED <<api, caches, worker, env, kmp, now, budget>>

Tick ==
    /\ now < MaxTime /\ now' = now + 1
    /\ UNCHANGED <<api, caches, queue, timer, worker, env, kmp, budget>>

EditSpec(o) ==
    /\ "edit" \in UserOps /\ obj[o] # Absent /\ obj[o].generation < MaxGeneration
    /\ \E sp \in Specs \ {obj[o].spec} :
        obj' = [ obj EXCEPT ![o] = [ exists |-> TRUE, generation |-> obj[o].generation + 1,
                                     spec |-> sp, status |-> obj[o].status ] ]
    /\ UNCHANGED <<secrets, caches, queue, timer, worker, env, kmp, now, budget>>

DeleteObject(o) ==
    /\ "deleteObject" \in UserOps /\ obj[o] # Absent
    /\ obj' = [ obj EXCEPT ![o] = Absent ]
    /\ UNCHANGED <<secrets, caches, queue, timer, worker, env, kmp, now, budget>>

\* The garbage collector, or a user, removes a Secret.
DeleteSecret(s) ==
    /\ secrets[s] # Absent
    /\ \/ "deleteSecret" \in UserOps
       \/ secrets[s].owner \in Objects /\ obj[secrets[s].owner] = Absent
    /\ secrets' = [ secrets EXCEPT ![s] = Absent ]
    /\ UNCHANGED <<obj, caches, queue, timer, worker, env, kmp, now, budget>>

ChangeEnvironment ==
    /\ env' \in Environments \ {env}
    /\ UNCHANGED <<api, caches, queue, timer, worker, kmp, now, budget>>

-----------------------------------------------------------------------------
WorkerStep ==
    \/ \E o \in Objects : ReconcileGone(o) \/ ReconcileCurrent(o) \/ ReconcileDue(o)
    \/ Prepare \/ CreateCSR \/ StoreFull \/ ResolveCSRID \/ SignStoredCSR
    \/ FetchCertificate \/ ExportAndVerify \/ WriteSecret \/ Finish

Informers ==
    \/ \E o \in Objects : SyncObject(o) \/ TimerFires(o)
    \/ \E s \in SecretNames : SyncSecret(s)

Users ==
    \/ \E o \in Objects : EditSpec(o) \/ DeleteObject(o)
    \/ \E s \in SecretNames : DeleteSecret(s)
    \/ ChangeEnvironment

Service == ListCSR \/ PublishCertificate \/ OutsideStores \/ OutsideSigns

\* A controller with nothing queued waits for an event; anywhere else the
\* worker must be able to go on, which TLC's deadlock check shows.
Wait ==
    /\ pc = "idle" /\ queue = {} /\ cObj = obj /\ cSecrets = secrets
    /\ UNCHANGED vars

Next == WorkerStep \/ Informers \/ Users \/ Service \/ Crash \/ Tick \/ Wait

Spec == Init /\ [][Next]_vars

-----------------------------------------------------------------------------
(***************************************************************************)
(* Types.                                                                  *)
(***************************************************************************)
Steps == {"create", "resolve", "sign", "fetch", "export", "write"}
Reasons == {"none", "holds", "issued", "prepare", "bundle", "names"} \cup Steps
IDs == Nat

AltNames == UNION { sp.dnsNames \cup sp.ipAddresses : sp \in Specs }
Identities == [ cn : { sp.commonName : sp \in Specs } \cup {"rewritten"},
                dns : SUBSET AltNames, ips : SUBSET AltNames,
                org : { sp.organization : sp \in Specs } \cup {""} ]
CSRType  == [ id : Identities, password : Int, origin : {"escrow", "created", "imported"} ]
CertType == [ csr : IDs, id : Identities, notBefore : Int, notAfter : Int ]

StatusType == [ ready : {"Unknown", "True", "False"}, reason : Reasons,
                observedGeneration : Nat, csr : IDs, serial : IDs, leaf : IDs ]
ObjectType == [ exists : {TRUE}, generation : Nat, spec : Specs, status : StatusType ]
SecretType == [ exists : {TRUE}, owner : Objects \cup {NoObject}, leaf : IDs, key : IDs,
                password : Int ]
AttemptType == [ password : Int, csr : IDs, serial : IDs, polls : Nat,
                 fetched : SUBSET IDs, leaf : IDs ]
ResultType == [ status : StatusType, result : {"none", "stop", "retry", "after"}, wait : Int ]

APITypes ==
    /\ obj \in [ Objects -> ObjectType \cup {Absent} ]
    /\ secrets \in [ SecretNames -> SecretType \cup {Absent} ]
CacheTypes ==
    /\ cObj \in [ Objects -> ObjectType \cup {Absent} ]
    /\ cSecrets \in [ SecretNames -> SecretType \cup {Absent} ]
QueueTypes ==
    /\ queue \subseteq Objects
    /\ timer \in [ Objects -> Int ]
WorkerTypes ==
    /\ pc \in {"idle", "prepare", "finish"} \cup Steps
    /\ pc = "idle" => cur = NoObject /\ snap = Absent
    /\ pc # "idle" => cur \in Objects /\ snap \in ObjectType
    /\ att \in AttemptType /\ out \in ResultType
ServiceTypes ==
    /\ csrs \in Seq(CSRType) /\ certs \in Seq(CertType)
    /\ listed \subseteq 1..Len(csrs) /\ published \subseteq 1..Len(certs)
RestTypes ==
    /\ env \in EnvStates
    /\ now \in Nat /\ faults \in Nat /\ crashes \in Nat

\* The type invariant: every variable holds a value of its kind; the worker has
\* a resource in hand whenever it is not idle (Reconcile).
TypeOK == APITypes /\ CacheTypes /\ QueueTypes /\ WorkerTypes /\ ServiceTypes /\ RestTypes

(***************************************************************************)
(* Safety.                                                                 *)
(***************************************************************************)

\* A mismatched pair is never published: the key in a Secret is the key the
\* certificate beside it was issued for (Provision, provision.go:83-84).
PairConsistent ==
    \A s \in SecretNames : holdsPair(secrets[s]) =>
        certs[secrets[s].leaf].csr = secrets[s].key

\* The escrowed key stays recoverable: a key made under a generated password
\* has that password beside it in the Secret, also after the spec was switched
\* between generated and supplied passwords, retries, lost writes and crashes
\* (writeSecret; KeyStorePasswordSecretRef, kmpcertificate_types.go:99-103).
Recoverable ==
    \A s \in SecretNames : holdsPair(secrets[s]) =>
        csrs[secrets[s].key].password \in {UserPassword, secrets[s].password}

\* What is written to a Secret is a certificate that the reconciler itself
\* will accept as matching the spec it was requested for (verifyProvisionedNames
\* against matchesSpec), so that it is not replaced right away.
OnlyMatchingPublished ==
    [][ \A s \in SecretNames :
          secrets'[s] # secrets[s] /\ secrets'[s] # Absent =>
            matchesSpec(snap.spec, certs[secrets'[s].leaf].id) ]_vars

\* A Secret that one KMPCertificate controls is not taken over by another
\* (SetControllerReference in writeSecret).
OwnerKept ==
    [][ \A s \in SecretNames :
          secrets[s] # Absent /\ secrets'[s] # Absent /\ secrets[s].owner \in Objects =>
            secrets'[s].owner = secrets[s].owner ]_vars

\* "A replacement is requested once the certificate reaches renewBefore of its
\* expiry [...] and whenever the Secret stops matching the spec" (README.md:434-436):
\* a certificate is replaced only when it is due, or stopped matching the spec
\* the reconciler works on (issuanceNeeded).
ReplacedOnlyWhenNeeded ==
    [][ \A s \in SecretNames :
          secrets[s] # Absent /\ secrets'[s] # Absent /\ secrets'[s] # secrets[s] =>
            issuanceNeeded(snap.spec, secrets[s]) ]_vars

Quiet(o) ==
    /\ pc = "idle" /\ o \notin queue
    /\ obj[o] # Absent /\ cObj[o] = obj[o] /\ cSecrets = secrets

Current(o) ==
    LET sp == obj[o].spec
        secret == secrets[sp.secret]
    IN  holdsPair(secret) /\ matchesSpec(sp, certs[secret.leaf].id)

\* No wake-up is lost: once a resource is not queued and its events have been
\* seen, its Ready condition tells the truth about the present generation and,
\* when it is True, a timer is set for the renewal.
SettledWhenQuiet ==
    \A o \in Objects : Quiet(o) =>
        LET st == obj[o].status
        IN  /\ st.observedGeneration = obj[o].generation
            /\ \/ st.ready = "False"
               \/ st.ready = "True" /\ Current(o) /\ timer[o] # NoTimer

\* What a Secret shows only moves forward: a certificate in it is never replaced
\* by one that was issued earlier, whatever answers were lost, whichever
\* certificates of the name are still fetched, and although every retry starts
\* from a new CSR (Provision, writeSecret).
PublishedForward ==
    [][ \A s \in SecretNames :
          holdsPair(secrets[s]) /\ holdsPair(secrets'[s]) /\ secrets'[s] # secrets[s] =>
            secrets'[s].leaf > secrets[s].leaf ]_vars

\* No request of the controller is signed twice: what follows a lost answer of
\* signCSR, a failure after it or a crash is an attempt with a CSR of its own
\* (Provision, provision.go:93-117).
SignedOnce ==
    \A m, n \in 1..Len(certs) :
        certs[m].csr = certs[n].csr /\ csrs[certs[n].csr].origin = "escrow" => m = n

\* A status tells of one issuance: its CSR id, its serial number and its dates
\* belong to one certificate, also when updates conflict or are lost and when a
\* failure is reported over an earlier success (issue, the deferred update of
\* Reconcile; kmpcertificate_controller.go:105-113, 212-218).
StatusOfOneIssuance ==
    \A o \in Objects : obj[o] # Absent =>
        LET st == obj[o].status
        IN  /\ st.leaf # NoID => certs[st.leaf].csr = st.csr
            /\ st.serial # NoID => st.serial = st.leaf

\* A request is never signed against someone else's CSR: the CSR that is signed
\* is the one createCSR made for this attempt, as its password shows
\* (resolveCSRID, FindCSRID).
SignsOwnCSR ==
    pc = "sign" => csrs[att.csr].password = att.password

(***************************************************************************)
(* The abstract view: Secrets as places, KMPCertificates as owners, stored *)
(* CSRs as keys.                                                           *)
(***************************************************************************)
StoredKeys == [ n \in 1..Len(certs) |-> certs[n].csr ]

\* What a Secret holds, as its readers see it.
Shown(secret) ==
    IF secret = Absent
    THEN [ taken |-> FALSE ]
    ELSE [ taken |-> TRUE, owner |-> secret.owner, cert |-> secret.leaf, key |-> secret.key ]

Store == INSTANCE CertificateStore
    WITH Places <- SecretNames, Owners <- Objects, Keys <- Nat,
         issued <- StoredKeys, held <- [ s \in SecretNames |-> Shown(secrets[s]) ]

\* Through crashes, lost answers, stale caches and other users of Key Manager
\* Plus, the reconciler implements the certificate store: every step publishes
\* one issued certificate with its own key in a place its owner may have,
\* empties a place, issues, or leaves all of this alone (Reconcile, writeSecret).
ImplementsStore == Store!Spec

(***************************************************************************)
(* Liveness.  The worker, the informers and the timers keep running, Key   *)
(* Manager Plus lists and publishes what it stored, the clock advances.    *)
(***************************************************************************)
Fairness ==
    /\ WF_vars(WorkerStep)
    /\ \A o \in Objects : WF_vars(SyncObject(o)) /\ WF_vars(TimerFires(o))
    /\ \A s \in SecretNames : WF_vars(SyncSecret(s))
    /\ WF_vars(ListCSR) /\ WF_vars(PublishCertificate) /\ WF_vars(Tick)

FairSpec == Spec /\ Fairness

\* Nothing is wrong with the issuer and its Secrets but that one is missing.
AtMostMissing == env \in {"ok", "issuerMissing", "noAuthSecret", "noPasswordSecret"}

\* An issuer or a Secret that is missing for a while, and transient failures of
\* Key Manager Plus, only delay: once the issuer and its Secrets stay in order,
\* every KMPCertificate ends up with a Secret that holds a matching certificate
\* that is not due (unless its timer lies past the bound of the clock), and with
\* Ready=True.  Reconcile watches none of them; it retries, and renews.
EventuallyIssued ==
    []AtMostMissing /\ <>[](env = "ok") =>
    <>[](\A o \in Objects : obj[o] # Absent =>
            /\ obj[o].status.ready = "True" /\ Current(o)
            /\ \/ ~issuanceNeeded(obj[o].spec, secrets[obj[o].spec.secret])
               \/ timer[o] > MaxTime)
=============================================================================
