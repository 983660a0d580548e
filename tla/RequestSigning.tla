--------------------------- MODULE RequestSigning ---------------------------
(***************************************************************************)
(* The issuer controllers: Check and Sign of internal/controllers/signer.go *)
(* under issuer-lib, with the Signer of internal/kmp/signer.go behind them. *)
(*                                                                         *)
(* There is one worker per kind of request (CertificateRequest and         *)
(* CertificateSigningRequest) and one that checks the issuer.  They share  *)
(* the issuer, its auth Secret and Key Manager Plus, and every call to Key *)
(* Manager Plus is a step of its own.  issuer-lib is external: the retries, *)
(* the Ready condition and the wake-ups are modelled from how              *)
(* SetupWithManager configures it and Check and Sign rely on it.           *)
(***************************************************************************)
EXTENDS SigningOptions, KeyManagerPlus, FiniteSets

CONSTANTS
    Requests,           \* the requests that may be made
    Kinds,              \* their kinds, with one worker each
    Asked,              \* what each of them asks for
    Settings,           \* the worlds to start in, by name
    MaxRetryDuration    \* how long a request is retried, in clock ticks

CONSTANTS               \* bounds
    MaxTime, MaxCSRs, MaxPolls      \* (a setting bounds faults and edits)

Bool == {TRUE, FALSE}
Checker == "issuer"     \* the worker that runs Check
Workers == Kinds \cup {Checker}
NoRequest == "none"

\* What the auth Secret can hold: nothing, no token, a CA bundle without a
\* certificate, a token that Key Manager Plus rejects, one that it accepts.
Tokens == {"missing", "empty", "badBundle", "rejected", "good"}

(***************************************************************************)
(* What a request asks for.  Mail addresses and URIs are compared like DNS *)
(* names and stand among them; names that differ in case are one name.     *)
(* "first" is the first of the DNS names, "" when there is none.           *)
(***************************************************************************)
ASSUME RequestsAssumption ==
    /\ Checker \notin Kinds /\ NoRequest \notin Requests
    /\ \A r \in Requests :
        /\ Asked[r].kind \in Kinds
        /\ LET id == Asked[r].id IN id = Identity(id.cn, id.dns, id.ips, id.org)
        /\ Asked[r].isCA \in Bool /\ Asked[r].hours \in Nat

\* A setting: the requests that are made, the specs the issuer can be given, what
\* its Secret can hold, how Key Manager Plus answers and what it reports, what the
\* CA does, and how many faults there are and edits of the issuer.
ASSUME SettingsAssumption ==
    \A name \in DOMAIN Settings : LET s == Settings[name] IN
        /\ s.specs \subseteq IssuerSpec /\ s.tokens \subseteq Tokens
        /\ Success \in s.replies /\ s.replies \subseteq Answers
        /\ s.templates \subseteq Templates /\ s.requests \subseteq Requests
        /\ s.faults \in Nat /\ s.edits \in Nat
        /\ {s.reportsID, s.reportsSerial, s.reportsName, s.listLag, s.publishLag} \subseteq Bool
ASSUME SigningBounds ==
    {MaxRetryDuration, MaxTime, MaxCSRs, MaxPolls} \subseteq Nat

VARIABLES
    setting,      \* the name of the world this is
    req,          \* the requests: state, creation time, certificate
    issuer,       \* the issuer: generation, spec, Ready condition
    token,        \* what its auth Secret holds
    queue,        \* requests to reconcile
    checkQueued,  \* the issuer is to be reconciled
    reported,     \* the error a request reported against the issuer
    w,            \* the workers
    csrs, listed, certs, published,   \* Key Manager Plus
    now,          \* the clock
    faults        \* failed calls and restarts so far

cluster == <<req, issuer, queue, checkQueued, reported>>
kmp     == <<csrs, listed, certs, published>>
vars    == <<setting, cluster, token, w, kmp, now, faults>>

world == Settings[setting]

NoSpec == [ none |-> TRUE ]
Idle == [ pc |-> "idle", req |-> NoRequest, spec |-> NoSpec, generation |-> 0,
          token |-> "missing", csr |-> NoID, name |-> "", serial |-> NoID, polls |-> 0,
          blame |-> "request", result |-> "ok", cert |-> NoID ]
NotMade == [ state |-> "absent", created |-> 0, cert |-> NoID ]

Pending == { r \in Requests : req[r].state = "pending" }

-----------------------------------------------------------------------------
Init ==
    /\ setting \in DOMAIN Settings
    /\ \E sp \in world.specs :
        issuer = [ generation |-> 1, spec |-> sp, ready |-> "Unknown", observed |-> 0 ]
    /\ token \in world.tokens
    /\ req = [ r \in Requests |-> NotMade ]
    /\ queue = {} /\ checkQueued = TRUE /\ reported = "none"
    /\ w = [ k \in Workers |-> Idle ]
    /\ csrs = <<>> /\ listed = {} /\ certs = <<>> /\ published = {}
    /\ now = 0 /\ faults = 0

-----------------------------------------------------------------------------
(***************************************************************************)
(* Errors and outcomes.                                                    *)
(***************************************************************************)

permanentIfUnrecoverable(e) == IF IsPermanent(e) THEN "permanent" ELSE "retry"

\* The client needs a URL with a scheme and a host, and certificates in the CA
\* bundle where there is one.
NewClient(spec, held) ==
    IF spec.URL = "unusable" \/ held = "badBundle" THEN OtherError ELSE Nil

\* Building the client and the signer out of the spec and the Secret.
signerFromIssuerAndSecretData(spec, held) ==
    CASE held = "empty"                 -> ErrInvalidConfig
      [] NewClient(spec, held) # Nil    -> ErrInvalidConfig
      [] OTHER                          -> Validate(spec)

Goto(k, step) == w' = [ w EXCEPT ![k].pc = step ]

\* The locals of Sign are gone when it returns.
Return(k, blame, result, cert) ==
    w' = [ w EXCEPT ![k] = [ Idle EXCEPT !.pc = "finish", !.req = w[k].req,
                                         !.generation = w[k].generation,
                                         !.blame = blame, !.result = result, !.cert = cert ] ]

Fail(k, e) == Return(k, "request", permanentIfUnrecoverable(e), NoID)

\* An error of getSecretData is returned as an IssuerError.
FailIssuer(k, e) == Return(k, "issuer", permanentIfUnrecoverable(e), NoID)

Answered(e) ==
    /\ e # Nil => faults < world.faults
    /\ faults' = IF e = Nil THEN faults ELSE faults + 1

Elsewhere == UNCHANGED <<setting, cluster, token, now>>

-----------------------------------------------------------------------------
(***************************************************************************)
(* getSecretData, which Check and Sign both start with.                    *)
(***************************************************************************)
ReadSecret(k) ==
    /\ w[k].pc = "secret"
    /\ LET e == signerFromIssuerAndSecretData(w[k].spec, token)
       IN  \/ token = "missing" /\ FailIssuer(k, OtherError)
           \/ token # "missing" /\ e # Nil /\ FailIssuer(k, e)
           \/ /\ token # "missing" /\ e = Nil
              /\ w' = [ w EXCEPT ![k].pc = "ping", ![k].token = token ]
    /\ Elsewhere /\ UNCHANGED <<kmp, faults>>

\* Key Manager Plus rejects the probe, for a certificate that does not exist;
\* with a wrong token it says so.
ProbeAnswer == [ Success EXCEPT !.status = "other", !.payload = "none" ]
TokenAnswer == [ ProbeAnswer EXCEPT !.message = "auth" ]

HealthCheck(k) ==
    /\ w[k].pc = "ping"
    /\ \E r \in world.replies :
        LET e == Ping(IF r # Success THEN r
                      ELSE IF w[k].token = "rejected" THEN TokenAnswer ELSE ProbeAnswer)
        IN  /\ Answered(IF r = Success THEN Nil ELSE e)
            /\ \/ e # Nil /\ FailIssuer(k, e)
               \/ e = Nil /\ k = Checker /\ Return(k, "issuer", "ok", NoID)
               \/ e = Nil /\ k # Checker /\ Goto(k, "import")
    /\ Elsewhere /\ UNCHANGED kmp

-----------------------------------------------------------------------------
(***************************************************************************)
(* Key Manager Plus.  A request without a common name is filed under its   *)
(* first DNS name, the only name there is.                                 *)
(***************************************************************************)
csrCommonName(r) == IF Asked[r].id.cn # "" THEN Asked[r].id.cn ELSE Asked[r].first

StoreCSR(r) ==
    /\ csrs' = Append(csrs, [ id |-> [ Asked[r].id EXCEPT !.cn = csrCommonName(r) ],
                              key |-> Asked[r].key, req |-> r ])
    /\ listed' = IF world.listLag THEN listed ELSE listed \cup {Len(csrs) + 1}
    /\ UNCHANGED <<certs, published>>

\* Only signing with a root reads a validity (0: the CA decides) and whether the
\* certificate is an intermediate CA.
Issue(csr, sent, template) ==
    /\ certs' = Append(certs,
         [ csr  |-> csr, id |-> CertifiedIdentity(csrs[csr].id, template),
           ca   |-> "IsIntermediate" \in DOMAIN sent /\ sent.IsIntermediate = "true",
           days |-> IF "ValidityDays" \in DOMAIN sent THEN sent.ValidityDays ELSE 0 ])
    /\ published' = IF world.publishLag THEN published ELSE published \cup {Len(certs) + 1}
    /\ UNCHANGED <<csrs, listed>>

ListCSR ==
    /\ \E i \in 1..Len(csrs) \ listed : listed' = listed \cup {i}
    /\ UNCHANGED <<csrs, certs, published, setting, cluster, token, w, now, faults>>

PublishCertificate ==
    /\ \E n \in 1..Len(certs) \ published : published' = published \cup {n}
    /\ UNCHANGED <<csrs, listed, certs, setting, cluster, token, w, now, faults>>

-----------------------------------------------------------------------------
(***************************************************************************)
(* Sign.  A failed call may have been carried out all the same.            *)
(***************************************************************************)
ImportCSR(k) ==
    /\ w[k].pc = "import"
    /\ \E r \in world.replies, stored \in Bool :
        /\ call(r) = Nil => stored
        /\ stored => Len(csrs) < MaxCSRs
        /\ Answered(call(r))
        /\ IF stored THEN StoreCSR(w[k].req) ELSE UNCHANGED kmp
        /\ \/ call(r) # Nil /\ Fail(k, call(r))
           \/ /\ call(r) = Nil
              /\ w' = [ w EXCEPT ![k].pc = "resolve",
                         ![k].csr  = IF world.reportsID THEN Len(csrs) + 1 ELSE NoID,
                         ![k].name = IF world.reportsName THEN csrCommonName(w[k].req) ELSE "" ]
    /\ Elsewhere

\* At the bound the store is full and Key Manager Plus cannot serve the call.
StoreFull(k) ==
    /\ w[k].pc = "import" /\ Len(csrs) = MaxCSRs
    /\ Fail(k, call([ Success EXCEPT !.code = 503 ]))
    /\ Elsewhere /\ UNCHANGED <<kmp, faults>>

\* Mutant: the id is looked up although it was reported.
ResolveByName(k) ==
    /\ w[k].pc = "resolve"
    /\ \E id \in highestID(ListedFor(csrs, listed, csrCommonName(w[k].req))) :
        w' = [ w EXCEPT ![k].pc = "sign", ![k].csr = id ]
    /\ Elsewhere /\ UNCHANGED <<kmp, faults>>

ResolveCSRID(k) ==
    /\ w[k].pc = "resolve"
    /\ LET name  == IF w[k].name # "" THEN w[k].name ELSE csrCommonName(w[k].req)
           found == ListedFor(csrs, listed, name)
       IN  \/ w[k].csr # NoID /\ Goto(k, "sign") /\ UNCHANGED faults
           \/ /\ w[k].csr = NoID
              /\ w[k].spec.CSRLookupOperation = "" \/ name = ""
              /\ Fail(k, ErrInvalidConfig) /\ UNCHANGED faults
           \/ /\ w[k].csr = NoID /\ w[k].spec.CSRLookupOperation # "" /\ name # ""
              /\ \E r \in world.replies :
                  LET e == FindCSRID(IF found = {} THEN [ r EXCEPT !.payload = "none" ] ELSE r)
                  IN  /\ Answered(FindCSRID(r))
                      /\ \/ e # Nil /\ Fail(k, e)
                         \/ /\ e = Nil
                            /\ \E id \in highestID(found) :
                                w' = [ w EXCEPT ![k].pc = "sign", ![k].csr = id ]
    /\ Elsewhere /\ UNCHANGED kmp

\* The names the certificate is fetched by: the one signCSR reports, the one
\* importCSR reported, the common name of the request (not its DNS names).
SignImported(k) ==
    /\ w[k].pc = "sign"
    /\ \E r \in world.replies, signed \in Bool, t \in world.templates :
        LET sent   == details(signRequest(w[k].spec, w[k].csr, Asked[w[k].req]))
            serial == IF world.reportsSerial THEN Len(certs) + 1 ELSE NoID
            name   == IF world.reportsName THEN csrs[w[k].csr].id.cn
                      ELSE IF w[k].name # "" THEN w[k].name ELSE Asked[w[k].req].id.cn
        IN  /\ SignCSR(r) = Nil => signed
            /\ Answered(SignCSR(r))
            /\ IF signed THEN Issue(w[k].csr, sent, t) ELSE UNCHANGED kmp
            /\ \/ SignCSR(r) # Nil /\ Fail(k, SignCSR(r))
               \/ SignCSR(r) = Nil /\ name = "" /\ serial = NoID /\ Fail(k, ErrInvalidConfig)
               \/ /\ SignCSR(r) = Nil /\ ~(name = "" /\ serial = NoID)
                  /\ w' = [ w EXCEPT ![k].pc = "fetch", ![k].name = name, ![k].serial = serial ]
    /\ Elsewhere

\* Mutant: the key of the certificate is not compared.
leavesForAnyKey(r, returned) == returned

\* findLeaf: the certificates for the key of the request.
leavesFor(r, returned) == { n \in returned : csrs[certs[n].csr].key = Asked[r].key }

\* Mutant: the alternative names are not compared.
verifyCommonName(r, leaf) == Asked[r].id.cn # "" => leaf.cn = Asked[r].id.cn

verifyRequestedNames(r, leaf) ==
    /\ Asked[r].id.cn # "" => leaf.cn = Asked[r].id.cn
    /\ Asked[r].id.dns \subseteq leaf.dns
    /\ Asked[r].id.ips \subseteq leaf.ips

\* BuildBundle and the check of the names, after a fetch that found something.
Assemble(k, returned) ==
    \/ leavesFor(w[k].req, returned) = {} /\ Fail(k, ErrUnusableResponse)
    \/ \E n \in leavesFor(w[k].req, returned) :
        IF verifyRequestedNames(w[k].req, certs[n].id)
        THEN Return(k, "request", "ok", n)
        ELSE Fail(k, ErrUnusableResponse)

\* fetchCertificate: MaxPolls is the number of polls the timeout leaves room for.
FetchCertificate(k) ==
    /\ w[k].pc = "fetch"
    /\ LET candidates == PublishedFor(csrs, certs, published, w[k].name, w[k].serial)
       IN  \E r \in world.replies, returned \in SUBSET candidates :
            LET e == GetCertificate(IF returned = {} THEN [ r EXCEPT !.payload = "none" ] ELSE r)
            IN  /\ returned = {} => candidates = {}
                /\ Answered(GetCertificate(r))
                /\ \/ e = Nil /\ Assemble(k, returned)
                   \/ /\ e # Nil /\ ~IsPermanent(e) /\ w[k].polls < MaxPolls
                      /\ w' = [ w EXCEPT ![k].polls = @ + 1 ]
                   \/ /\ e # Nil /\ (IsPermanent(e) \/ w[k].polls >= MaxPolls)
                      /\ Fail(k, e)
    /\ Elsewhere /\ UNCHANGED kmp

-----------------------------------------------------------------------------
(***************************************************************************)
(* issuer-lib: what becomes of requests and of the issuer.                 *)
(***************************************************************************)
IssuerReady == issuer.ready = "True" /\ issuer.observed = issuer.generation

Take(k, r) ==
    /\ w[k].pc = "idle" /\ r \in queue /\ Asked[r].kind = k
    /\ queue' = queue \ {r}
    /\ UNCHANGED <<setting, req, issuer, checkQueued, reported, token, kmp, now, faults>>

\* Already answered, or to wait for the issuer.
SkipRequest(k, r) ==
    /\ Take(k, r) /\ (r \notin Pending \/ ~IssuerReady)
    /\ UNCHANGED w

\* Mutant: the worker does not keep the issuer it was given.
StartWithoutIssuer(k, r) ==
    /\ Take(k, r) /\ r \in Pending /\ IssuerReady
    /\ w' = [ w EXCEPT ![k] = [ Idle EXCEPT !.pc = "secret", !.req = r ] ]

StartRequest(k, r) ==
    /\ Take(k, r) /\ r \in Pending /\ IssuerReady
    /\ w' = [ w EXCEPT ![k] = [ Idle EXCEPT !.pc = "secret", !.req = r, !.spec = issuer.spec ] ]

Expired(r) == now > req[r].created + MaxRetryDuration

Answer(r, state, cert) ==
    /\ req' = [ req EXCEPT ![r].state = state, ![r].cert = cert ]
    /\ UNCHANGED queue

\* Mutant: the error is noted but the issuer is not woken.
ReportSilently(result) == reported' = result /\ UNCHANGED checkQueued

\* ReportError: the issuer is reconciled with this error.
Report(result) == reported' = result /\ checkQueued' = TRUE

\* An error is final when it is permanent, or has been retried for too long.
Final(r, result) == result = "permanent" \/ (result = "retry" /\ Expired(r))

\* The request is answered, retried, or left waiting for the issuer; when the
\* patch of its status fails it is reconciled again.
FinishRequest(k) ==
    /\ k \in Kinds /\ w[k].pc = "finish"
    /\ LET r == w[k].req
           result == w[k].result
       IN  /\ IF w[k].blame = "issuer" THEN Report(result) ELSE UNCHANGED <<checkQueued, reported>>
           /\ \/ /\ UNCHANGED faults
                 /\ \/ w[k].blame = "issuer" /\ UNCHANGED <<req, queue>>
                    \/ w[k].blame = "request" /\ result = "ok" /\ Answer(r, "issued", w[k].cert)
                    \/ w[k].blame = "request" /\ Final(r, result) /\ Answer(r, "failed", NoID)
                    \/ /\ w[k].blame = "request" /\ result = "retry" /\ ~Expired(r)
                       /\ queue' = queue \cup {r} /\ UNCHANGED req
              \/ Answered(OtherError) /\ queue' = queue \cup {r} /\ UNCHANGED req
    /\ w' = [ w EXCEPT ![k] = Idle ]
    /\ UNCHANGED <<setting, issuer, token, kmp, now>>

\* An issuer that failed for good is left alone until its generation changes.
FailedForGood == issuer.ready = "Failed" /\ issuer.observed = issuer.generation

StartCheck ==
    /\ w[Checker].pc = "idle" /\ checkQueued /\ checkQueued' = FALSE
    /\ LET held == [ Idle EXCEPT !.generation = issuer.generation ]
       IN  \/ FailedForGood /\ UNCHANGED <<w, reported>>
           \/ /\ ~FailedForGood /\ reported = "none"
              /\ w' = [ w EXCEPT ![Checker] = [ held EXCEPT !.pc = "secret", !.spec = issuer.spec ] ]
              /\ UNCHANGED reported
           \/ /\ ~FailedForGood /\ reported # "none" /\ reported' = "none"
              /\ w' = [ w EXCEPT ![Checker] =
                         [ held EXCEPT !.pc = "finish", !.blame = "request", !.result = reported ] ]
    /\ UNCHANGED <<setting, req, issuer, queue, token, kmp, now, faults>>

Condition(result) ==
    CASE result = "ok" -> "True" [] result = "permanent" -> "Failed" [] OTHER -> "Pending"

\* Mutant: an issuer that cannot be checked is not checked again.
checkAgainNever(result) == FALSE

checkAgain(result) == result = "retry"

\* "Returning an IssuerError will change the status of the Issuer" (Sign): the
\* report stays until it has.  A change of the Ready condition wakes the
\* requests of the issuer.
FinishCheck ==
    /\ w[Checker].pc = "finish"
    /\ LET result  == w[Checker].result
           updated == [ issuer EXCEPT !.ready = Condition(result), !.observed = w[Checker].generation ]
           changed == \/ updated.observed # issuer.observed
                      \/ (updated.ready = "True") # (issuer.ready = "True")
       IN  \/ /\ issuer' = updated
              /\ queue' = IF changed THEN queue \cup Pending ELSE queue
              /\ checkQueued' = (checkQueued \/ checkAgain(result))
              /\ UNCHANGED <<reported, faults>>
           \/ /\ Answered(OtherError) /\ checkQueued' = TRUE
              /\ reported' = IF w[Checker].blame = "request" THEN result ELSE reported
              /\ UNCHANGED <<issuer, queue>>
    /\ w' = [ w EXCEPT ![Checker] = Idle ]
    /\ UNCHANGED <<setting, req, token, kmp, now>>

-----------------------------------------------------------------------------
(***************************************************************************)
(* Users, the clock, the process.                                          *)
(***************************************************************************)
CreateRequest(r) ==
    /\ r \in world.requests /\ req[r] = NotMade /\ now + MaxRetryDuration < MaxTime
    /\ req' = [ req EXCEPT ![r].state = "pending", ![r].created = now ]
    /\ queue' = queue \cup {r}
    /\ UNCHANGED <<setting, issuer, checkQueued, reported, token, w, kmp, now, faults>>

EditIssuer ==
    /\ issuer.generation <= world.edits
    /\ \E sp \in world.specs \ {issuer.spec} :
        issuer' = [ issuer EXCEPT !.generation = @ + 1, !.spec = sp ]
    /\ checkQueued' = TRUE
    /\ UNCHANGED <<setting, req, queue, reported, token, w, kmp, now, faults>>

\* Nothing watches the auth Secret.
EditSecret ==
    /\ token' \in world.tokens \ {token}
    /\ UNCHANGED <<setting, cluster, w, kmp, now, faults>>

Tick ==
    /\ now < MaxTime /\ now' = now + 1
    /\ UNCHANGED <<setting, cluster, token, w, kmp, faults>>

Crash ==
    /\ Answered(OtherError)
    /\ w' = [ k \in Workers |-> Idle ]
    /\ queue' = Pending /\ checkQueued' = TRUE /\ reported' = "none"
    /\ UNCHANGED <<setting, req, issuer, token, kmp, now>>

-----------------------------------------------------------------------------
SignStep(k) ==
    \/ ImportCSR(k) \/ StoreFull(k) \/ ResolveCSRID(k) \/ SignImported(k) \/ FetchCertificate(k)

RequestStep(k) ==
    \/ \E r \in Requests : SkipRequest(k, r) \/ StartRequest(k, r)
    \/ ReadSecret(k) \/ HealthCheck(k) \/ SignStep(k) \/ FinishRequest(k)

CheckStep == StartCheck \/ ReadSecret(Checker) \/ HealthCheck(Checker) \/ FinishCheck

Service == ListCSR \/ PublishCertificate

Users == (\E r \in Requests : CreateRequest(r)) \/ EditIssuer \/ EditSecret

\* Controllers with nothing queued wait for an event.
Wait ==
    /\ queue = {} /\ ~checkQueued /\ \A k \in Workers : w[k].pc = "idle"
    /\ UNCHANGED vars

Next ==
    \/ \E k \in Kinds : RequestStep(k)
    \/ CheckStep \/ Service \/ Users \/ Tick \/ Crash \/ Wait

Spec == Init /\ [][Next]_vars

\* Each worker is a goroutine that runs as long as it has something to do; Key
\* Manager Plus lists and publishes what it stored; the clock advances.
Fairness ==
    /\ \A k \in Kinds : WF_vars(RequestStep(k))
    /\ WF_vars(CheckStep) /\ WF_vars(ListCSR) /\ WF_vars(PublishCertificate) /\ WF_vars(Tick)

FairSpec == Spec /\ Fairness

-----------------------------------------------------------------------------
(***************************************************************************)
(* Types.                                                                  *)
(***************************************************************************)
Results == {"ok", "permanent", "retry"}
Steps == {"secret", "ping", "import", "resolve", "sign", "fetch", "finish"}
Names == { csrCommonName(r) : r \in Requests } \cup { Asked[r].id.cn : r \in Requests } \cup {""}

RequestState == [ state : {"absent", "pending", "issued", "failed"}, created : Nat, cert : Nat ]
IssuerState == [ generation : Nat, spec : IssuerSpec, observed : Nat,
                 ready : {"Unknown", "True", "Pending", "Failed"} ]
WorkerState == [ pc : Steps \cup {"idle"}, req : Requests \cup {NoRequest},
                 spec : IssuerSpec \cup {NoSpec}, generation : Nat, token : Tokens,
                 csr : Nat, name : Names, serial : Nat, polls : Nat,
                 blame : {"issuer", "request"}, result : Results, cert : Nat ]

\* A stored CSR is one of the requests, a certificate what a template made of one.
CSRType == { [ id |-> [ Asked[r].id EXCEPT !.cn = csrCommonName(r) ], key |-> Asked[r].key,
               req |-> r ] : r \in Requests }
CertType == [ csr : Nat, id : { CertifiedIdentity(c.id, t) : c \in CSRType, t \in Templates },
              ca : Bool, days : Nat ]

ClusterTypes ==
    /\ req \in [ Requests -> RequestState ]
    /\ issuer \in IssuerState /\ issuer.spec \in world.specs /\ token \in world.tokens
    /\ queue \subseteq Requests /\ checkQueued \in Bool /\ reported \in Results \cup {"none"}

WorkerTypes ==
    /\ w \in [ Workers -> WorkerState ]
    /\ \A k \in Kinds : w[k].pc # "idle" => w[k].req \in { r \in Requests : Asked[r].kind = k }
    /\ \A k \in Workers : w[k].pc \notin {"idle", "finish"} => w[k].spec \in world.specs
    /\ w[Checker].pc \in {"idle", "secret", "ping", "finish"}

ServiceTypes ==
    /\ csrs \in Seq(CSRType) /\ certs \in Seq(CertType)
    /\ listed \subseteq 1..Len(csrs) /\ published \subseteq 1..Len(certs)

\* The type invariant: every variable holds a value of its kind, and a worker
\* that is not idle has a request of its kind in hand (Sign), or none when it
\* checks the issuer (Check).
TypeOK ==
    /\ setting \in DOMAIN Settings /\ {now, faults} \subseteq Nat
    /\ ClusterTypes /\ WorkerTypes /\ ServiceTypes

(***************************************************************************)
(* Safety.                                                                 *)
(***************************************************************************)

\* A request is only ever answered with a certificate for its own key that
\* carries every name it asked for, although requests of one name share Key
\* Manager Plus and may sign and fetch each other's (Signer.Sign; "signing the
\* wrong request would issue a certificate for someone else's key",
\* client.go:398-401).
IssuedForRequest ==
    \A r \in Requests : req[r].state = "issued" =>
        LET cert == certs[req[r].cert]
        IN  /\ csrs[cert.csr].key = Asked[r].key
            /\ Asked[r].id.cn # "" => cert.id.cn = Asked[r].id.cn
            /\ Asked[r].id.dns \subseteq cert.id.dns /\ Asked[r].id.ips \subseteq cert.id.ips

Identifies == world.reportsID /\ world.reportsSerial
Pinned(flag) == \E sp \in world.specs : sp.IsIntermediate = flag
PinnedDays(n) == n # 0 /\ \E sp \in world.specs : sp.ValidityDays = n

\* Microsoft CAs are not sent a validity: their template decides.
LeftToTemplate(n) == n = 0 /\ \E sp \in world.specs : signType(sp) # "signWithRoot"

\* Where Key Manager Plus identifies what it stores and signs, an answer is what
\* was asked for: a CA certificate only for a request that wants one (or an
\* issuer that pins it), and a validity that covers the duration asked for, also
\* one of less than a day, and not a day more (or is pinned, or left to the
\* template of a Microsoft CA) (signRequest, details).
SignedAsAsked ==
    \A r \in Requests : req[r].state = "issued" /\ Identifies =>
        LET cert == certs[req[r].cert]
        IN  /\ cert.ca => Asked[r].isCA \/ Pinned("true")
            /\ \/ PinnedDays(cert.days) \/ LeftToTemplate(cert.days)
               \/ 24 * cert.days >= Asked[r].hours /\ 24 * (cert.days - 1) < Asked[r].hours

\* Where importCSR reports the id, no CSR is signed twice, although two workers
\* sign requests of one name side by side, answers of signCSR are lost and Sign is
\* retried from the start (Signer.Sign, resolveCSRID).
SignedOnce ==
    world.reportsID =>
        \A m, n \in 1..Len(certs) : certs[m].csr = certs[n].csr => m = n

\* A world in which things fail only for a while.
OnlyOutages ==
    /\ Identifies
    /\ \A r \in world.replies : r = Success \/ Outage(r)
    /\ world.tokens \subseteq {"missing", "good"} /\ world.templates = {"supplied"}
    /\ \A sp \in world.specs : signerFromIssuerAndSecretData(sp, "good") = Nil

\* "Timeouts, connection failures and server errors are returned unchanged and
\* are retried" (permanentIfUnrecoverable): outages, a Secret that is missing
\* for a while, lost answers and restarts never fail the issuer, and fail a
\* request only once MaxRetryDuration is over.
OutageOnlyDelays ==
    OnlyOutages =>
        /\ issuer.ready # "Failed"
        /\ \A r \in Requests : req[r].state = "failed" => Expired(r)

\* No wake-up is lost: a request that is neither queued nor in hand waits for an
\* issuer that is about to be checked, or that has failed for good.
NoLostRequest ==
    \A r \in Pending :
        \/ r \in queue \/ \E k \in Kinds : w[k].req = r
        \/ checkQueued \/ w[Checker].pc # "idle" \/ FailedForGood

(***************************************************************************)
(* The abstract view: the requests are places, and have themselves as      *)
(* owners.                                                                 *)
(***************************************************************************)
Store == INSTANCE CertificateStore
    WITH Places <- Requests, Owners <- Requests, Keys <- { Asked[r].key : r \in Requests },
         issued <- [ n \in 1..Len(certs) |-> csrs[certs[n].csr].key ],
         held   <- [ r \in Requests |->
                       IF req[r].state = "issued"
                       THEN [ taken |-> TRUE, owner |-> r, cert |-> req[r].cert, key |-> Asked[r].key ]
                       ELSE [ taken |-> FALSE ] ]

\* The issuer controllers implement the certificate store, whatever requests of
\* one name do to each other's CSRs: a step that answers a request publishes one
\* certificate that has been issued for the key the request is about (Sign).
ImplementsStore == Store!Spec

(***************************************************************************)
(* Liveness.                                                               *)
(***************************************************************************)
Usable == token = "good" /\ signerFromIssuerAndSecretData(issuer.spec, token) = Nil

\* Every request is answered, by a certificate or a failure, once the issuer
\* stays usable and is not failed for good: MaxRetryDuration and the readiness
\* events of issuer-lib see to it (SetupWithManager, Sign, Check).
EventuallyAnswered ==
    <>[](Usable /\ ~FailedForGood) =>
        \A r \in Requests : (r \in Pending) ~> (r \notin Pending)

\* "issuer-lib stops retrying until the issuer or the Secret changes"
\* (README.md:323-324): an issuer whose Secret has been put right becomes ready.
SecretChangeNoticed == <>[]Usable => <>(issuer.ready = "True")
=============================================================================
