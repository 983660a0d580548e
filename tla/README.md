# kmp-issuer: a TLA+ verification project

kmp-issuer lets a Kubernetes cluster obtain certificates through ManageEngine
Key Manager Plus. This directory holds TLA+ modules that model its control flow,
TLC configurations that check them on small instances, and TLAPS proofs for
every instance. `PROJECT.json` lists components, runs, mutants, the map from
definitions to source lines, findings, hazards and theorems.

## Inventory

| Component | State | Operations | Interacts with | Modelled by |
| --- | --- | --- | --- | --- |
| KMPCertificate controller (`internal/controllers/kmpcertificate_controller.go`, `internal/kmp/provision.go`) | KMPCertificate spec and status, the target Secret; nothing in memory outlives a reconcile | `Reconcile`: `issuanceNeeded`, `issue` (`resolveIssuer`, `keyStorePassword`, `Provision`, `writeSecret`), deferred status update | API server through informer caches, work queue, Key Manager Plus | `EscrowController` |
| REST client (`internal/kmp/client.go`, `create.go`, `response.go`, `errors.go`) | none | `call`, `callRaw`, `CreateCSR`, `ImportCSR`, `FindCSRID`, `SignCSR`, `GetCertificate`, `ExportCSR`, `Ping`; `IsPermanent`, `IsAuthFailure` | Key Manager Plus | `Client` |
| Key Manager Plus and the CA behind it (external) | stored CSRs with their keys, issued certificates, what the list and the certificate store show | store, list, sign, publish, export | every user of it | `KeyManagerPlus`, and the actions of `EscrowController` |
| Issuer controllers (`internal/controllers/signer.go`, `internal/signer/kmp.go`, `internal/kmp/signer.go`, `verify.go`) | Ready condition of the issuer, status of CertificateRequests and CertificateSigningRequests (kept by issuer-lib) | `Check`, `Sign` (`ImportCSR`, `resolveCSRID`, `SignCSR`, `fetchCertificate`, `BuildBundle`, `verifyRequestedNames`) | issuer-lib, Key Manager Plus | `RequestSigning`, `SigningOptions` |
| Chain (`internal/kmp/chain.go`) | none outside the loop | `BuildBundle`, `findLeaf`, `popIssuer` | both flows | `Bundle`; the choice of the leaf also in both flows |
| Response search (`internal/kmp/response.go`) | none | `findScalar`, `findIDForCommonName`, `collectStringsFor` | client | `Responses` |
| Exported keys (`internal/kmp/privatekey.go`) | none | `ParseExportedPrivateKey` | escrow flow | result only, in `EscrowController` |
| API types, manager process, manifests, generated code | - | - | - | types as far as decisions need them; a crash and restart; the rest not at all |

What is hard here, and hard to test:

* one issuance is at least six remote calls, and edits, deletions, other
  resources, other users of Key Manager Plus, informer events and crashes come
  between any two of them;
* no call is idempotent and every answer can be lost after the call was carried
  out;
* decisions are taken on informer caches that lag, independently per kind;
* whether an attempt is ever repeated depends on the class of an error that
  travels through several layers, and a permanent failure is not requeued;
* records in Key Manager Plus are found by common name, which is not unique;
* the same names are checked twice, by two functions that differ;
* requests of several kinds are signed at once, next to a worker that checks the
  issuer, and each of them may change what the others wait for;
* answers have no fixed form: fields are searched for in nested maps whose order
  Go randomises, and chains are put together out of unordered certificates.

What makes the parts correct: a Secret never holds a mismatched pair;
a key made under a generated password has that password beside it; only
certificates with the names asked for are published; a Secret is not taken over; a
certificate is replaced only when needed, or once too often after a stale read, and
by something newer; no request is signed twice; a status tells
of one issuance; no wake-up is lost; every resource ends up issued and is renewed;
outages are retried and rejections are not; a rejected token is never reported
as healthy; a request is answered with a certificate for its own key and names,
or not at all; outages delay requests and never fail them before their time; a
chain is a single chain and reaches the root; an id that is looked up belongs to
the name.

## Modules

```
CertificateStore        what both flows promise
   ^ implemented by
EscrowController        RequestSigning          Bundle
   |  EXTENDS              |  EXTENDS              (chain of one answer)
   +---- KeyManagerPlus ---+
   +---- Client            +---- SigningOptions -- Client
                                  ClientCalls ---- Client
                                  MCClient ------- ClientCalls, Responses
```

`Client` - an answer of Key Manager Plus is a record of what the code tells
apart (transport, status code, JSON or not, status field, message, payload);
each operation is a function from an answer to an error, with the source's
names. Status codes are all numbers of three digits (`Codes`); the classes of
answers the properties speak of (`Outage`, `Rejection`, `RejectedToken`) stand at
the end of the module. `ClientCalls` is the client by itself: one operation
called on one answer.

`Responses` - a document is a scalar, a list or a map whose keys are reduced to
their role (id, name, other); `findScalar`, `collectStringsFor`,
`findIDForCommonName` and the choice in `FindCSRID` are recursive operators. A
`range` over a Go map is a choice, so `findScalar` and `findIDForCommonName`
return the set of possible results. `MCClient` applies every operation to every
answer (`ClientCalls`), and the searches to every document of its size.

`KeyManagerPlus` - the external service: identities, what a CA template makes of
them, what the list and the certificate search return.

`EscrowController` - the escrow flow. Its state:

| Variable | In the code |
| --- | --- |
| `obj`, `secrets` | KMPCertificates and Secrets at the API server |
| `cObj`, `cSecrets` | the informer caches `mgr.GetClient()` reads from |
| `queue`, `timer` | controller-runtime's work queue and `RequeueAfter` |
| `pc`, `cur`, `snap`, `att`, `out` | the one worker: where it is in `Reconcile`/`issue`/`Provision`, the resource as it was read, the locals of `Provision`, the status and result to return |
| `env` | state of the issuer, its auth Secret and the password Secret |
| `csrs`, `listed`, `certs`, `published` | Key Manager Plus |
| `now`, `faults`, `crashes` | the clock, and failures so far |

Its worker actions follow the source in order: `ReconcileGone`,
`ReconcileCurrent` and `ReconcileDue` (the three outcomes up to the decision),
`Prepare` (`issue` up to the first call), `CreateCSR`, `ResolveCSRID`,
`SignStoredCSR`, `FetchCertificate`, `ExportAndVerify` (export, key parsing,
`findLeaf`, name check), `WriteSecret` (`CreateOrUpdate` with
`SetControllerReference`), `Finish` (the deferred status update and the return).
A call can fail with any answer in `Replies`, before or after it was carried out;
an update of the API server can conflict, fail, or succeed without its answer.
Around the worker: `SyncObject`, `SyncSecret` (the watches of
`SetupWithManager`), `TimerFires`, `Tick`, `Crash`, the users' `EditSpec`,
`DeleteObject`, `DeleteSecret` (also garbage collection), `ChangeEnvironment`,
and Key Manager Plus with its other users: `ListCSR`, `PublishCertificate`,
`OutsideStores`, `OutsideSigns`.

Abstractions: a CSR id and a serial number are positions in the logs; a
generated password is unique and named after the record it protects; the
organization stands for the organizational unit too; a certificate and its chain
are one value; one clock tick is the second `until` rounds up to; the minute of
`issuanceFailureRequeue` is not seen because controller-runtime ignores
`RequeueAfter` when an error is returned. Reads from an informer cache do not
fail. A pre-existing Secret is of type `kubernetes.io/tls` and empty.

`SigningOptions` - the signing configuration: `Validate`, `signRequest` (merged
with what the request asks for) and `details` (what is sent).

`RequestSigning` - the issuer controllers. Its state:

| Variable | In the code |
| --- | --- |
| `req` | requests and their status |
| `issuer`, `token` | the issuer with its Ready condition, and what its auth Secret holds |
| `queue`, `checkQueued` | the work queues of the request controllers and of the issuer controller |
| `reported` | the error a request reported against the issuer (issuer-lib's event source) |
| `w` | one worker per kind of request and one for the issuer: where it is in `Sign` or `Check`, and its locals |
| `csrs`, `listed`, `certs`, `published` | Key Manager Plus |
| `setting`, `now`, `faults` | which world this is, the clock, failures so far |

Actions of a worker, in the order of the source: `StartRequest` or `StartCheck`,
`ReadSecret` (`getIssuerDetails`, the Secret, `signerFromIssuerAndSecretData`),
`HealthCheck` (`Ping`), `ImportCSR`, `ResolveCSRID`, `SignImported`,
`FetchCertificate` (with `findLeaf` and `verifyRequestedNames`), and
`FinishRequest` or `FinishCheck`. Around them: `CreateRequest`, `EditIssuer`,
`EditSecret`, `Tick`, `Crash`, `ListCSR`, `PublishCertificate`.

issuer-lib is not in the repository and is modelled from how the code configures
and describes it: a request waits until its issuer is Ready for its present
generation; an `IssuerError` leaves the request alone and makes the issuer
controller set the condition, and stays reported until that status has been
written; a `PermanentError` fails the request or the issuer, another error is
retried, a request's only until `MaxRetryDuration`; a failed issuer is left alone
until its generation changes; a change of the Ready condition wakes the pending
requests. Its caches are taken to be current.

Abstractions: mail addresses and URIs are compared like DNS names and stand among
them; names that differ in case are one name; a request without a common name is
filed under its first DNS name; durations are counted in hours. Errors of
`GetCertificateDetails`, `ParseCSR` and `ParseSingleCertificateChainPEM` do not
occur for requests the API server accepted and for what `BuildBundle` returns
(`SingleChain`), and the second construction of the signer in `Sign` has the same
arguments as the one the health check used.

`Bundle` - `BuildBundle`, one step per pass of its loop. A certificate has a
subject, an issuer, a key, the key that signed it, and whether it may sign; names
and keys are independent, so namesakes and cross-signing occur.

`CertificateStore` - the abstract specification. A place (a Secret, the status of
a request) holds nothing, or a certificate that has been issued beside the key it
has been issued for; it belongs to one owner until it is given up; nothing issued
ever changes. `Store` in `EscrowController` and in `RequestSigning` are its
instances, `ImplementsStore` the refinements. In the first the places are Secrets
and the owners KMPCertificates, in the second requests are both; the abstract
`issued` is the key of every certificate in the log of Key Manager Plus.

`EscrowHistory` - `EscrowController` with one history variable, `replaced`: what a
Secret was before it last changed. It is written and never read by the program's
actions, and is there for `ReplacedOnceTooOften`, which relates a write to the version
a lagging cache may have shown.

`MCEscrow`, `MCEscrowHistory`, `MCSigning`, `MCBundle`, `MCClient` - the instances.

The theorems are in `EscrowProofs`, `EscrowWakeups`, `SigningProofs`,
`SigningWakeups`, `SigningOutcomes`, `BundleProofs`, `ClientProofs` (the lemmas about
the client's operations) and `ClientCalls`.

## Runs

Runs that pass:

| Run | Shows |
| --- | --- |
| `escrow_edits` | edits of names, of `renewBefore` and between generated and supplied passwords, Secret deletions, a crash, a fault, lagging caches: `TypeOK`, `PairConsistent`, `Recoverable`, `SettledWhenQuiet`, `SignedOnce`, `PublishedForward`, `ReplacedOnceTooOften`, `ImplementsStore` |
| `escrow_liveness` | an issuer that is missing or misconfigured at times, serial numbers, late publication, a fault, a restart: `EventuallyIssued` through at least one renewal, `SettledWhenQuiet`, `StatusOfOneIssuance` |
| `escrow_lookup` | two resources, one Secret, edits and deletions, ids looked up by common name while another user stores and signs CSRs with fewer or more names: `PairConsistent`, `OnlyMatchingPublished`, `OwnerKept` |
| `client_calls` | all operations on all answers: `OutageRetried`, `RejectionNotRetried`, `RejectedTokenUnhealthy`; the searches on all small documents: `LookupFindsOwn`, `IDReadWhenThere` |
| `signing` | two requests of one name at once, in five worlds, with restarts, lost answers and lost patches: `TypeOK`, `IssuedForRequest`, `SignedAsAsked`, `OutageOnlyDelays`, `NoLostRequest`, `SignedOnce`, `EventuallyAnswered`, `ImplementsStore` |
| `bundle` | every answer of up to four certificates out of ten: `TypeOK`, `SingleChain`, `EndsAtRoot`, `Terminates` |

Runs that refute what a comment or document says of the code; each is a finding
in `PROJECT.json`, with the quoted line:

| Run | The code |
| --- | --- |
| `escrow_stale_cache` | the status update wakes the reconciler before its cache shows the Secret: a certificate just issued is issued again and replaced |
| `escrow_stale_fetch` | a renewal without serial numbers fails and is not retried when the fetch by common name finds the old certificate |
| `escrow_lookup_race` | the highest id of a common name may be another user's CSR, which is then signed |
| `escrow_organization` | a dropped organization is published, and then replaced for ever |
| `client_probe` | an empty successful answer fails the health probe |
| `signing_secret` | an issuer that failed for a rejected token stays failed after the token in its Secret has been put right |

### What the properties leave out

Each condition in a property stands for something the code does not promise:

* That a certificate is replaced only when it is due or stopped matching
  (`ReplacedOnlyWhenNeeded`) does not hold: `escrow_stale_cache`. What holds with lagging
  caches is `ReplacedOnceTooOften`: a replacement answers to the certificate it
  replaces or to what the Secret was before that one, so a stale read costs one
  certificate and two good ones in a row are not followed by a third.
* `Recoverable` says nothing of the `keystore-password` entry beside a key made under a
  supplied password: `writeSecret` keeps the entry of an earlier, generated one there,
  although it opens nothing any more. It needs protected exports: without them a CSR
  found by name may be another one's, with another password.
* `EventuallyIssued` is about issuers and Secrets that are missing at worst
  (`AtMostMissing`): for these the error is retried. After a misconfiguration that is
  permanent, an unknown kind of issuer or an empty password, nothing is requeued,
  and none of these objects is watched; the repair is noticed at the next event of the
  resource, at a restart, or at the informer's periodic resync.
* `SignedAsAsked` accepts no validity at all only where a Microsoft CA's template
  decides, or where no duration was asked for.
* `SettledWhenQuiet` says nothing of the CSR id and the serial number in the
  status: when the process ends between the Secret's write and the status
  update, the next reconcile finds the Secret current, reports Ready, and leaves
  both unrecorded.
* `SettledWhenQuiet` needs more than it shows in the runs' instances, as its proof
  brought to light. Where a resource names a Secret that another one controls, the
  events of that Secret wake the other one only: with two resources and one Secret,
  as in `escrow_lookup`, the invariant fails, a resource stays Ready on a Secret
  that is gone. And where Key Manager Plus reports neither an id nor a serial
  number and the CSR found by name is an old one, an issuance can leave the status
  as it was, so that the deferred update is skipped and nothing but the Secret's
  own events tells of the write; if the Secret is deleted before the informer has
  shown it, and the two events are merged, no reconcile follows. Only a relist of
  the informer merges them in this way.
* No property says that a misconfigured issuer is not retried for a
  KMPCertificate: `issue` formats the builder's error with `%v`
  (`kmpcertificate_controller.go:195`), so that `IsPermanent` no longer sees
  `ErrInvalidConfig`. `controllers/signer.go` keeps the cause.
* `SignedAsAsked` and `OutageOnlyDelays` need Key Manager Plus to report ids and
  serial numbers. Without them a request may sign a CSR of the same name that was
  stored by another one, with its own options: the other request, fetching by
  name, can be answered with a CA certificate it did not ask for, because
  `verifyRequestedNames` compares names only; and a fetch that finds the other's
  certificate is taken for unusable and fails the request.
* `SignedOnce` needs ids, in both flows, and `PublishedForward` ids or serial
  numbers. Without them the list from which the id is looked up may lag: the CSR of
  an earlier attempt is found and signed again (`SignedOnce` fails with the constants of
  `escrow_lookup`), and once certificates are renewed, a fetch by name may return an
  earlier certificate for its key.
* `StatusOfOneIssuance` does not say that the status tells of the certificate in the
  Secret. After a crash, a lost answer or a conflict between the Secret's write and
  the status update, the status keeps what it told of an earlier issuance, as the
  code intends: what it tells is then old, but not mixed.
* `EventuallyAnswered` needs an issuer that is not failed for good. A permanent
  error that a request reports while the issuer is being edited is applied to
  the new generation, which then fails without having been checked.
* `EndsAtRoot` needs an answer without cross-signing. With it `popIssuer` takes
  the first issuer and never goes back, and the chain may end before a root that
  another order of the answer would have reached.
* `IDReadWhenThere` allows any id: where one record has two keys of the id role,
  `findScalar` returns either, from call to call.

`PairConsistent` and `OnlyMatchingPublished` hold in `escrow_lookup` although
`SignsOwnCSR` fails in `escrow_lookup_race`: when another record is signed, its
key is exported too, so the pair is consistent, and its names are checked.

### Bounds

`MaxTime` clock ticks, `MaxGeneration` spec edits, `MaxCSRs` records,
`MaxPolls` polls of one fetch, `MaxFaults` failed calls, `MaxCrashes`,
`MaxOutside` CSRs of other users. One resource is enough for everything but
ownership, since one worker handles resources one at a time and they share only
Secrets; two are used there. Two specs make an edit, and two records an issuance
that overlaps with what an earlier one left behind; `Lifetime = 3` makes a
certificate due after two ticks, so that `MaxTime = 3` contains a renewal. In
`escrow_edits` three records are two attempts that published and one that is in
hand, which is what a certificate replaced twice takes. With
one poll both outcomes of the polling loop occur. At `MaxCSRs` records
`StoreFull` answers 503, so a full store retries like any outage; in
`escrow_liveness` the bound leaves room for the fault, the restart and the renewal.
Where `CacheLag = FALSE` (`escrow_liveness`, `escrow_lookup`, `escrow_stale_fetch`), `Fresh`
leaves out the behaviours in which the worker reads a cache that is behind, to keep
the instance small; nothing in the code makes caches fresh. `escrow_edits` and
`escrow_stale_cache` have lagging caches, and no theorem assumes fresh ones. The
resources of `escrow_lookup` are symmetric: they differ in nothing but the spec that
`Init` gives them, and the properties name none.

`signing` starts in one of five worlds (`Settings`), each with its own requests,
specs, Secrets, answers and faults, so that one run covers what one cross product
could not: outages in front of a service that identifies everything; a Secret
that comes and goes; lookup by name with a lagging list and a template that drops
names; a service that reports neither ids nor names; misconfigured issuers and
Secrets that are edited. `MaxRetryDuration = 0` and `MaxTime = 1` let a request
fail both before and after its deadline; `MaxCSRs = 2` is one CSR for each request,
or two attempts of one, and `StoreFull` answers from then on; `MaxPolls = 1`.
`CreateRequest` is taken only while there is time left for the deadline to pass.
Two requests are enough: a worker handles one at a time, and what a third could
do to a second the first can. Requests for 25 hours and for one hour meet the edges
of the rounding to days: a day that has begun counts, and less than a day is one.

`bundle`: four certificates are a leaf, a decoy or a second intermediate, and a
cycle of two authorities, or a leaf with a chain of three; the pool of ten holds
each kind once or twice. `client_calls`: the status codes at both ends of every
class the client tells apart (0 for none, 199 to 300, 400, 401, 403, 408, 409, 429,
499, 500, 503) with every other part of an answer; records of two fields, nested
once, and lists of two, so that both orders of a map, both levels and both kinds of
ids occur.

Deadlock is checked in all runs: `Wait` lets only a controller with nothing
queued and nothing unseen stand still.

### Fairness

`FairSpec` assumes weak fairness of the worker (a goroutine of the manager that
takes from the queue as long as there is something), of the informers and
requeue timers (controller-runtime), of the clock, and of Key Manager Plus
listing and publishing what it stored. Nothing is assumed of users, of other
users of Key Manager Plus, of crashes or of faults; the instances bound the last
two. `EventuallyIssued` excepts a renewal whose timer lies past `MaxTime`.

`RequestSigning` assumes the same of each of its workers, of the clock and of Key
Manager Plus. That the issuer stays usable from some time on is a hypothesis of
`EventuallyAnswered` and `SecretChangeNoticed`, not a fairness condition.
`Bundle` assumes that its loop runs: it waits for nothing.

## Proofs

`EscrowProofs` proves `PairInv` inductive for every value of the constants:

* `TypeOK` and `PairConsistent` are not inductive. The pair in a Secret is
  written from the worker's locals, so `AttemptRefers` says what these are at
  each step: from `sign` on the id names a stored record, what was fetched has
  been issued, and at `write` the leaf was issued for the record whose key was
  exported.
* `CertsRefer`, `SecretsRefer` and `CachesRefer` say that what refers to the logs
  of Key Manager Plus refers to something that is there. They survive other
  users' actions because the logs only grow (`LogsGrow`).

One lemma per action shows it preserves `PairInv`; `NextInv` puts them together.
From it follow `TypeCorrectness` and `PairConsistency`.

What is written to a Secret rests on two lemmas of the same module: the worker
reaches `write` only through the checks that end `Provision` (`ReachesWrite`), and a
Secret changes only by a deletion or by that write (`SecretChanges`). From them:

* `OwnershipKept`: `OwnerKept`, without assumptions;
* `VerifiedBeforeWrite`: the names were checked and the password opened the
  export, for the spec in hand and the attempt being written;
* `PublishedMatches`: `OnlyMatchingPublished`, for specs without an organization,
  with addresses only in `ipAddresses` (`SpecsWithoutGaps`). `escrow_organization`
  shows that the first condition is needed;
* `Recoverability`: `Recoverable`, where exports are protected. Besides the password that
  opened the export (`AttemptOpened`) it needs that of an attempt for a spec with a
  supplied password (`AttemptSupplied`), since that is not the one in the Secret;
* `ReplacedAtMostOnceTooOften`: `ReplacedOnceTooOften`, without assumptions, caches
  included. A write needs the cache to hold the version it replaces, so a cache is
  never more than one version behind a Secret that is there (`CacheRecent`). The
  decision is taken in `ReconcileDue` on one of the two versions, and the write comes
  four calls later; `CalledFor` says that what called for it lasts until then, because only
  the worker puts certificates into Secrets and time only goes on.

What an attempt works on is the subject of `OwnInv`, which `OwnRequests` proves
inductive on top of `PairInv`. Neither `SignedOnce` nor `PublishedForward` is
inductive: both depend on what the locals of an attempt stand for, between calls
that other users, edits and deletions interrupt. Where ids are reported, the CSR
in hand is the record that `createCSR` stored for this attempt, with its spec and
its password (`OwnRequest`), and nobody has signed it before the attempt does
(`NotSigned`); what the attempt had signed is newer than everything in a Secret,
since the log grows and only the worker fills Secrets (`SignedNew`); a fetch by
serial number yields that certificate and no other (`FetchedSerial`). From it:

* `SignsOwn`: `SignsOwnCSR`, where ids are reported. `escrow_lookup_race` shows that
  the condition is needed: the theorem marks how far the finding goes;
* `SignedOnlyOnce`: `SignedOnce`, where ids are reported;
* `PublishedOnlyForward`: `PublishedForward`, where ids or serial numbers are reported.
  With a serial number the leaf is the certificate just signed; with an id it is
  some certificate for a key that no earlier one was issued for;
* `PublishedMatchesOrganization`: `OnlyMatchingPublished` for specs with an
  organization, where ids are reported and no template clears it
  (`OrganizationSafe`). Nothing in the code compares the organization before the
  write; it matches because the certificate goes back to the attempt's own CSR.
  `escrow_organization` shows the condition on the templates is needed;
* `StatusOneIssuance`: `StatusOfOneIssuance`, without conditions. A status is copied
  from the resource to a cache, to the worker's snapshot, to the outcome of
  `Reconcile` and back, so the invariant (`StatusTold`) says the same of each copy;
  for a new status it needs `FetchedSerial`, or the CSR id and the serial number
  could be those of two certificates.

`EscrowImplementsStore` is `Spec => ImplementsStore`. `StepKinds` shows that every
step leaves Secrets and certificates alone, issues one certificate, deletes one
Secret, or writes one. The first three are a stutter, `Issue` and `GiveUp` of the
abstract store; that the write is `Publish` needs `PairInv` (the certificate has been
issued, for the key beside it) and the guard of `SetControllerReference` (the place
is free). `RenewalWindow` says when a certificate is due the moment it is issued.

`EscrowWakeups` proves `SettledWhenQuiet` (`NoWakeupLost`), for the behaviours in
which no resource names a Secret that another one controls (`[]OwnNames`) and a
service that reports ids or serial numbers (`Identifies`); both are needed, see
above. For a single resource the first is no condition (`NoWakeupLostAlone`).
`SettledWhenQuiet` speaks of quiet states only, so `WakeInv` says what keeps a resource
awake in all the others:

* `Awake`: a resource is queued, its cached version is old, it is in hand, or it is
  settled in what the caches show;
* `Decided`: when `Reconcile` is about to return without a retry, either the status
  is new (its update will be an event), or the resource has changed or is queued
  again, or the Secret is current in the cache;
* `Versions`: what is in hand is the cached version unless the resource has been
  queued since, and caches are not ahead: then a status update or an edit makes a
  version that no cache holds;
* `KnownStatus` and `AttemptNew`: a status tells only of records that exist, an
  attempt makes newer ones, so every issuance changes the status;
* `OwnedPairs`: a certificate is only in a Secret that a resource controls, so the
  event of its deletion wakes that resource.

`BundleProofs` proves `BundleInv` inductive, for answers of any length. The
single chain is not inductive by itself: that no certificate comes twice needs
chain and remaining certificates to be disjoint and to make up the answer
(`Partition`), and that the chain ends at the root needs to know that the loop
stopped because nothing that is left is an issuer, or at a root. From it follow
`BundleTypes`, `BundleIsChain` and, because the certificates of a finished chain
are closed under issuers (`DoneIsClosed`), `BundleReachesRoot`.

`SigningProofs` proves, for every issuer and request, that the rounded validity
covers the duration (`ValidityCovers`) and that validated options make complete
sign requests (`ValidatedIsComplete`). Then `SignInv`, for any number of requests,
kinds and worlds: what the locals of `Sign` refer to exists (`LocalsRefer`), and both
what `Sign` is about to return and what a request was answered with is a certificate
for its own key and names (`GoodFor`). `IssuedForRequest` alone is not inductive: the
answer is copied from the worker's locals, with steps of the other workers, edits
and restarts in between. From it follow `SigningTypes`, `AnswersMatch` and
`SigningImplementsStore`: answering a request is `Publish`, signing a CSR is `Issue`,
and nothing else shows.

`SigningWakeups` proves `NoLostRequest` (`NoRequestLost`). A request that is not queued
may rely on a check, and a check on a report or on the generation of the issuer, so
the invariant (`WakeInv`) follows the whole chain: which generation a check is about,
that a report that is not yet the Ready condition has a check coming
(`ChecksComing`), and that a request without a place in a queue has an issuer that
is not ready or is about to be reported (`RequestsKept`).

`SigningOutcomes` proves `SignedAsAsked` (`AnswersAsAsked`; that a validity is left out only
where it may be is `SentOrLeft`) and `OutageOnlyDelays`
(`OutagesOnlyDelay`). For the first the locals have to be those of the request in
hand (`AskInv`): with ids and serial numbers a worker signs the CSR it imported and
fetches what it had signed. For the second (`OutageInv`) no worker may hold a
permanent result, no permanent report may be on its way, and certificates must say
what their CSRs say, so that the verification after the fetch does not fail; that no
outage is taken for permanent in any call comes from the lemmas of `ClientProofs`.

It also proves `SignedOnce` of the issuer controllers (`ImportedSignedOnce`), where ids
are reported. `FreshInv` says that a CSR in the hands of a worker before `signCSR` was
imported for the request in hand and has not been signed. That no other worker
signs it in between is because a CSR belongs to one request, a request to one
kind, and a kind to one worker.

`ClientProofs` shows of each operation what it makes of an outage, of a rejection and
of a success; `ClientCalls` concludes `OutagesRetried`, `RejectionsNotRetried` and
`ProbeNoticesToken`, for every status code of three digits and not only those of the
run. The attempt to prove them showed that definitions written as `CASE` with guards
that overlap leave open which case is meant (TLC takes the first); they are
`IF`/`ELSE IF` now, in the order of the code.

Assumptions on the constants are named in the modules that declare them
(`SpecsAssumption`, `LifetimeAssumption`, `ServiceAssumption`,
`BoundsAssumption`; `RequestsAssumption`, `SettingsAssumption`, `SigningBounds`;
`PoolAssumption`, `MaxCertsAssumption`; `StatusCodesAssumption`), and TLC evaluates them
in the runs. They say what kind of values the constants are; the conditions under
which a theorem holds stand in the theorem.

Only model-checked: everything that needs fairness (`EventuallyIssued`,
`EventuallyAnswered`, `Terminates`), which is out of the prover's reach, and the
searches in documents (`LookupFindsOwn`, `IDReadWhenThere`): they are about `RECURSIVE`
operators, and a proof would be an induction over documents. Every other invariant and
action property of a passing run is a theorem.

## Not modelled

Encoding of requests, decoding of keys and certificates (for a private key, only
whether the export yields it), wording of errors and
events, TLS and proxy settings of the HTTP client, flags, metrics and probes of
the manager, leader election (only the leader runs the controllers), generated
code, manifests, tests.

The periodic resync of controller-runtime's informers (about every ten hours unless
configured, and `cmd/main.go` does not) enqueues every resource. It bounds how long a
missed event or a failure without a requeue lasts, and no property relies on it:
`SettledWhenQuiet` and `EventuallyIssued` show what the controller does by itself. The
attempt a resync starts can lose the race of `escrow_stale_fetch` again. The issuer that
`signing_secret` is about is left alone by issuer-lib until its generation changes.

## Plan

1. The progress of an attempt without fairness: that an attempt of the escrow flow
   visits its calls in the order of the source and polls at most `MaxPolls` times, as an
   action property.
2. What a crash may cost: a bound on the certificates that are issued and not
   published, in terms of `crashes`, `faults` and the writes that conflicted.
3. The status of a KMPCertificate against its Secret: `StatusOfOneIssuance` says that a
   status tells of one certificate; a condition under which that is the one in
   the Secret (no crash, no lost or conflicting update since the write) is left.
