--------------------------- MODULE SigningProofs ---------------------------
(***************************************************************************)
(* Theorems about RequestSigning, for every value of its constants: types, *)
(* what a request is answered with, the refinement of CertificateStore,    *)
(* and what is sent to Key Manager Plus.                                   *)
(***************************************************************************)
EXTENDS RequestSigning, TLAPS

(***************************************************************************)
(* The signing configuration.                                              *)
(***************************************************************************)

\* The validity sent for a duration covers it, with less than a day to spare
\* ("rounded up to whole days", signRequest).
THEOREM ValidityCovers ==
    ASSUME NEW hours \in Nat, hours > 0
    PROVE  /\ validityDays(hours) \in Nat \ {0}
           /\ 24 * validityDays(hours) >= hours
           /\ 24 * (validityDays(hours) - 1) < hours
<1> DEFINE days == (hours + 23) \div 24
<1>1. days \in Nat /\ days >= 1 /\ 24 * days >= hours /\ 24 * (days - 1) < hours
  OBVIOUS
<1> HIDE DEF days
<1>2. validityDays(hours) = days
  BY <1>1 DEF validityDays, days
<1> QED  BY <1>1, <1>2

\* Options that Validate accepts yield a complete request: every field its sign
\* type needs is sent, and none of them is empty (Validate, details).
THEOREM ValidatedIsComplete ==
    ASSUME NEW o \in IssuerSpec, Validate(o) = Nil, NEW csr, NEW asked,
           NEW f \in RequiredFields(signType(o)) \ {"CSRID"}
    PROVE  LET sent == details(signRequest(o, csr, asked))
           IN  f \in DOMAIN sent /\ sent[f] # ""
<1> DEFINE r == signRequest(o, csr, asked)
<1>1. ErrInvalidConfig # Nil
  BY DEF ErrInvalidConfig, Nil
<1>2. /\ r.SignType = signType(o) /\ r.ServerName = o.ServerName /\ r.CAName = o.CAName
      /\ r.TemplateName = o.TemplateName /\ r.AgentName = o.AgentName
      /\ r.RootCertificateCommonName = o.RootCertificateCommonName
  BY DEF signRequest
<1>3. signType(o) \in SignTypes /\ signType(o) # ""
  BY DEF signType, IssuerSpec, SignTypes
<1> HIDE DEF r
<1>4. r[f] # ""
  <2>1. CASE signType(o) = "MSCA"
    <3>1. requireMSCAFields(o) = Nil /\ f \in {"SignType", "ServerName", "CAName", "TemplateName"}
      BY <2>1 DEF Validate, RequiredFields
    <3>2. o.ServerName # "" /\ o.CAName # "" /\ o.TemplateName # ""
      BY <3>1, <1>1 DEF requireMSCAFields
    <3> QED  BY <3>1, <3>2, <1>2, <1>3
  <2>2. CASE signType(o) = "MSCAusingAgent"
    <3>1. /\ o.AgentName # "" /\ requireMSCAFields(o) = Nil
          /\ f \in {"SignType", "ServerName", "CAName", "TemplateName", "AgentName"}
      BY <2>2, <1>1 DEF Validate, RequiredFields
    <3>2. o.ServerName # "" /\ o.CAName # "" /\ o.TemplateName # ""
      BY <3>1, <1>1 DEF requireMSCAFields
    <3> QED  BY <3>1, <3>2, <1>2, <1>3
  <2>3. CASE signType(o) = "signWithRoot"
    <3>1. /\ o.RootCertificateCommonName # ""
          /\ f \in {"SignType", "RootCertificateCommonName"}
      BY <2>3, <1>1 DEF Validate, RequiredFields
    <3> QED  BY <3>1, <1>2, <1>3
  <2> QED  BY <2>1, <2>2, <2>3, <1>3 DEF SignTypes
<1> QED  BY <1>2, <1>4 DEF details, r

-----------------------------------------------------------------------------
(***************************************************************************)
(* The inductive invariant.  What a worker holds refers to what Key        *)
(* Manager Plus stores; what it is about to answer with is for the key and *)
(* the names of its request.  The answer of a request is the last of these, *)
(* so neither TypeOK nor IssuedForRequest is inductive alone.              *)
(***************************************************************************)
GoodFor(r, n) ==
    /\ n \in 1..Len(certs)
    /\ csrs[certs[n].csr].key = Asked[r].key
    /\ verifyRequestedNames(r, certs[n].id)

LocalTypes(k, v) ==
    /\ v \in WorkerState
    /\ k \in Kinds /\ v.pc # "idle" => v.req \in Requests /\ Asked[v.req].kind = k
    /\ v.pc \notin {"idle", "finish"} => v.spec \in world.specs
    /\ k = Checker => v.pc \in {"idle", "secret", "ping", "finish"}

LocalRefers(k, v) ==
    /\ v.pc = "resolve" => v.csr \in 0..Len(csrs)
    /\ v.pc \in {"sign", "fetch"} => v.csr \in 1..Len(csrs)
    /\ k \in Kinds /\ v.pc = "finish" /\ v.blame = "request" /\ v.result = "ok" =>
         GoodFor(v.req, v.cert)

LocalsRefer == \A k \in Workers : LocalRefers(k, w[k])

CertsRefer == \A n \in 1..Len(certs) : certs[n].csr \in 1..Len(csrs)

AnswersRefer == \A r \in Requests : req[r].state = "issued" => GoodFor(r, req[r].cert)

SignInv == TypeOK /\ LocalsRefer /\ CertsRefer /\ AnswersRefer

\* Nothing that Key Manager Plus has stored or signed changes.
LogsGrow ==
    /\ Len(csrs) <= Len(csrs') /\ \A i \in 1..Len(csrs) : csrs'[i] = csrs[i]
    /\ Len(certs) <= Len(certs') /\ \A n \in 1..Len(certs) : certs'[n] = certs[n]

\* Only the worker k moves.
Moves(k) ==
    /\ w' = [ x \in Workers |-> w'[x] ]
    /\ \A x \in Workers : x # k => w'[x] = w[x]

-----------------------------------------------------------------------------
\* What a setting offers is what the code accepts.
LEMMA WorldTypes ==
    ASSUME setting \in DOMAIN Settings
    PROVE  /\ world.specs \subseteq IssuerSpec /\ world.tokens \subseteq Tokens
           /\ world.replies \subseteq Answers /\ Success \in world.replies
           /\ world.templates \subseteq Templates /\ world.requests \subseteq Requests
BY SettingsAssumption DEF world

\* The request workers are not the one that checks the issuer.
LEMMA KindsAreWorkers ==
    /\ Checker \in Workers /\ Checker \notin Kinds
    /\ \A k \in Kinds : k \in Workers /\ k # Checker
BY RequestsAssumption DEF Workers

\* The locals of a worker that has nothing to do.
LEMMA IdleType ==
    /\ Idle \in WorkerState /\ Idle.pc = "idle" /\ Idle.req = NoRequest
    /\ Idle.blame = "request" /\ Idle.result = "ok"
BY DEF Idle, WorkerState, Tokens, Names, NoID, Results

LEMMA LogLengths ==
    ASSUME ServiceTypes
    PROVE  Len(csrs) \in Nat /\ Len(certs) \in Nat
BY DEF ServiceTypes

\* The parts of TypeOK that are about one worker.
LEMMA LocalTypesHold ==
    ASSUME WorkerTypes, NEW k \in Workers
    PROVE  LocalTypes(k, w[k])
BY DEF WorkerTypes, LocalTypes

\* A certificate that answers a request keeps doing so.
LEMMA GoodStays ==
    ASSUME ServiceTypes, CertsRefer, LogsGrow, NEW r, NEW n, GoodFor(r, n)
    PROVE  GoodFor(r, n)'
<1>0. Len(csrs) \in Nat /\ Len(certs) \in Nat
  BY LogLengths
<1>1. n \in 1..Len(certs) /\ certs[n].csr \in 1..Len(csrs)
  BY DEF GoodFor, CertsRefer
<1>2. certs'[n] = certs[n] /\ csrs'[certs[n].csr] = csrs[certs[n].csr] /\ n \in 1..Len(certs')
  BY <1>0, <1>1 DEF LogsGrow
<1>3. verifyRequestedNames(r, certs[n].id)'
  BY <1>2 DEF GoodFor, verifyRequestedNames
<1> QED  BY <1>2, <1>3 DEF GoodFor

\* When one worker moves and the logs grow, the others keep what they have.
LEMMA Frame ==
    ASSUME SignInv, NEW k \in Workers, Moves(k), LogsGrow, UNCHANGED setting,
           LocalTypes(k, w[k])', LocalRefers(k, w[k])'
    PROVE  WorkerTypes' /\ LocalsRefer'
<1>1. ASSUME NEW x \in Workers PROVE LocalTypes(x, w[x])'
  <2>1. CASE x = k
    BY <2>1
  <2>2. CASE x # k
    BY <2>2, LocalTypesHold DEF Moves, LocalTypes, SignInv, TypeOK, world
  <2> QED  BY <2>1, <2>2
<1>2. ASSUME NEW x \in Workers PROVE LocalRefers(x, w[x])'
  <2>1. CASE x = k
    BY <2>1
  <2>2. CASE x # k
    <3>1. LocalRefers(x, w[x]) /\ w'[x] = w[x] /\ CertsRefer
      BY <2>2 DEF SignInv, LocalsRefer, Moves
    <3>2. Len(csrs) \in Nat /\ Len(certs) \in Nat /\ Len(csrs') \in Int /\ Len(certs') \in Int
      BY LogLengths DEF SignInv, TypeOK, LogsGrow
    <3>3. ASSUME NEW r, NEW n, GoodFor(r, n) PROVE GoodFor(r, n)'
      BY <3>1, <3>3, GoodStays DEF SignInv, TypeOK
    <3> QED  BY <3>1, <3>2, <3>3 DEF LocalRefers, LogsGrow
  <2> QED  BY <2>1, <2>2
<1>3. WorkerTypes'
  <2>1. w' \in [ Workers -> WorkerState ]
    BY <1>1 DEF LocalTypes, Moves
  <2> QED  BY <1>1, <2>1, KindsAreWorkers DEF LocalTypes, WorkerTypes
<1> QED  BY <1>2, <1>3 DEF LocalsRefer

\* A step of one worker that leaves the cluster alone.
LEMMA OneMoves ==
    ASSUME SignInv, NEW k \in Workers, Moves(k), Elsewhere, faults' \in Nat,
           LocalTypes(k, w[k])', LocalRefers(k, w[k])',
           ServiceTypes', CertsRefer', LogsGrow
    PROVE  SignInv'
<1>1. WorkerTypes' /\ LocalsRefer'
  BY Frame DEF Elsewhere
<1>2. ClusterTypes'
  BY DEF SignInv, TypeOK, ClusterTypes, Elsewhere, cluster, world
<1>3. AnswersRefer'
  <2>1. req' = req /\ ServiceTypes /\ CertsRefer
    BY DEF Elsewhere, cluster, SignInv, TypeOK
  <2> QED  BY <2>1, GoodStays DEF SignInv, AnswersRefer
<1>4. setting' \in DOMAIN Settings /\ now' \in Nat
  BY DEF SignInv, TypeOK, Elsewhere
<1> QED  BY <1>1, <1>2, <1>3, <1>4 DEF SignInv, TypeOK

\* The same when Key Manager Plus does not change either.
LEMMA KmpUnchanged ==
    ASSUME SignInv, UNCHANGED kmp
    PROVE  ServiceTypes' /\ CertsRefer' /\ LogsGrow
<1>1. Len(csrs) \in Nat /\ Len(certs) \in Nat
  BY LogLengths DEF SignInv, TypeOK
<1> QED  BY <1>1 DEF SignInv, TypeOK, ServiceTypes, CertsRefer, LogsGrow, kmp

\* A fault is counted.
LEMMA AnsweredType ==
    ASSUME SignInv, NEW e, Answered(e)
    PROVE  faults' \in Nat
BY DEF SignInv, TypeOK, Answered

\* Sign and Check return: the request stays in hand, its other locals are gone.
LEMMA ReturnMoves ==
    ASSUME WorkerTypes, NEW k \in Workers, w[k].pc # "idle", UNCHANGED setting,
           NEW blame \in {"issuer", "request"}, NEW result \in Results, NEW cert \in Nat,
           Return(k, blame, result, cert)
    PROVE  /\ Moves(k) /\ LocalTypes(k, w[k])'
           /\ w'[k].pc = "finish" /\ w'[k].req = w[k].req /\ w'[k].generation = w[k].generation
           /\ w'[k].blame = blame /\ w'[k].result = result /\ w'[k].cert = cert
<1> DEFINE v == [ Idle EXCEPT !.pc = "finish", !.req = w[k].req, !.generation = w[k].generation,
                              !.blame = blame, !.result = result, !.cert = cert ]
<1>0. w \in [ Workers -> WorkerState ] /\ LocalTypes(k, w[k])
  BY LocalTypesHold DEF WorkerTypes
<1>1. w' = [ w EXCEPT ![k] = v ]
  BY DEF Return
<1>2. v \in WorkerState
  <2>1. w[k].req \in Requests \cup {NoRequest} /\ w[k].generation \in Nat
    BY <1>0 DEF LocalTypes, WorkerState
  <2> QED  BY <2>1, IdleType DEF WorkerState, Steps
<1>3. /\ v.pc = "finish" /\ v.req = w[k].req /\ v.generation = w[k].generation
      /\ v.blame = blame /\ v.result = result /\ v.cert = cert
  BY DEF Idle
<1> HIDE DEF v
<1>4. w'[k] = v /\ Moves(k)
  BY <1>0, <1>1 DEF Moves
<1>5. LocalTypes(k, w[k])'
  BY <1>0, <1>2, <1>3, <1>4 DEF LocalTypes
<1> QED  BY <1>3, <1>4, <1>5

\* An error ends Sign or Check.
LEMMA FailMoves ==
    ASSUME SignInv, NEW k \in Workers, w[k].pc # "idle", Elsewhere, NEW e,
           Fail(k, e) \/ FailIssuer(k, e),
           ServiceTypes', CertsRefer', LogsGrow, faults' \in Nat
    PROVE  SignInv'
<1>1. PICK blame \in {"issuer", "request"} :
        Return(k, blame, permanentIfUnrecoverable(e), NoID)
  BY DEF Fail, FailIssuer
<1>2. permanentIfUnrecoverable(e) \in Results /\ permanentIfUnrecoverable(e) # "ok" /\ NoID \in Nat
  BY DEF permanentIfUnrecoverable, Results, NoID
<1>3. /\ Moves(k) /\ LocalTypes(k, w[k])'
      /\ w'[k].pc = "finish" /\ w'[k].result # "ok"
  BY <1>1, <1>2, ReturnMoves DEF SignInv, TypeOK, Elsewhere
<1>4. LocalRefers(k, w[k])'
  BY <1>3 DEF LocalRefers
<1> QED  BY <1>3, <1>4, OneMoves

-----------------------------------------------------------------------------
(***************************************************************************)
(* The steps of Sign and Check.                                            *)
(***************************************************************************)
LEMMA ReadSecretInv ==
    ASSUME SignInv, NEW k \in Workers, ReadSecret(k)
    PROVE  SignInv'
<1>0. w[k].pc = "secret" /\ Elsewhere /\ UNCHANGED kmp /\ faults' \in Nat
  BY DEF ReadSecret, SignInv, TypeOK
<1>1. ServiceTypes' /\ CertsRefer' /\ LogsGrow
  BY <1>0, KmpUnchanged
<1>2. CASE \E e : FailIssuer(k, e)
  BY <1>0, <1>1, <1>2, FailMoves
<1>3. CASE w' = [ w EXCEPT ![k].pc = "ping", ![k].token = token ]
  <2>0. w \in [ Workers -> WorkerState ] /\ LocalTypes(k, w[k]) /\ token \in Tokens
    BY LocalTypesHold, WorldTypes DEF SignInv, TypeOK, WorkerTypes, ClusterTypes
  <2>1. Moves(k) /\ w'[k] = [ w[k] EXCEPT !.pc = "ping", !.token = token ]
    BY <1>3, <2>0 DEF Moves
  <2>2. LocalTypes(k, w[k])'
    BY <1>0, <2>0, <2>1 DEF LocalTypes, WorkerState, Steps, Elsewhere, world
  <2>3. LocalRefers(k, w[k])'
    BY <2>0, <2>1 DEF LocalRefers, LocalTypes, WorkerState
  <2> QED  BY <1>0, <1>1, <2>1, <2>2, <2>3, OneMoves
<1> QED  BY <1>2, <1>3 DEF ReadSecret

LEMMA HealthCheckInv ==
    ASSUME SignInv, NEW k \in Workers, HealthCheck(k)
    PROVE  SignInv'
<1>0. w[k].pc = "ping" /\ Elsewhere /\ UNCHANGED kmp
  BY DEF HealthCheck
<1>f. faults' \in Nat
  <2>1. PICK e : Answered(e)
    BY DEF HealthCheck
  <2> QED  BY <2>1, AnsweredType
<1>1. ServiceTypes' /\ CertsRefer' /\ LogsGrow
  BY <1>0, KmpUnchanged
<1>2. CASE \E e : FailIssuer(k, e)
  BY <1>0, <1>f, <1>1, <1>2, FailMoves
<1>3. CASE Return(k, "issuer", "ok", NoID)
  <2>1. Moves(k) /\ LocalTypes(k, w[k])' /\ w'[k].pc = "finish" /\ w'[k].blame = "issuer"
    BY <1>0, <1>3, ReturnMoves DEF SignInv, TypeOK, Elsewhere, Results, NoID
  <2>2. LocalRefers(k, w[k])'
    BY <2>1 DEF LocalRefers
  <2> QED  BY <1>0, <1>f, <1>1, <2>1, <2>2, OneMoves
<1>4. CASE k # Checker /\ Goto(k, "import")
  <2>0. w \in [ Workers -> WorkerState ] /\ LocalTypes(k, w[k])
    BY LocalTypesHold DEF SignInv, TypeOK, WorkerTypes
  <2>1. Moves(k) /\ w'[k] = [ w[k] EXCEPT !.pc = "import" ]
    BY <1>4, <2>0 DEF Moves, Goto
  <2>2. LocalTypes(k, w[k])'
    BY <1>0, <1>4, <2>0, <2>1 DEF LocalTypes, WorkerState, Steps, Elsewhere, world
  <2>3. LocalRefers(k, w[k])'
    BY <2>0, <2>1 DEF LocalRefers, LocalTypes, WorkerState
  <2> QED  BY <1>0, <1>f, <1>1, <2>1, <2>2, <2>3, OneMoves
<1> QED  BY <1>2, <1>3, <1>4 DEF HealthCheck

\* Importing a request: the log grows by an entry of its own.
LEMMA StoreGrows ==
    ASSUME SignInv, NEW r \in Requests, StoreCSR(r)
    PROVE  /\ ServiceTypes' /\ CertsRefer' /\ LogsGrow /\ UNCHANGED certs
           /\ Len(csrs') = Len(csrs) + 1
           /\ csrs'[Len(csrs) + 1] = [ id  |-> [ Asked[r].id EXCEPT !.cn = csrCommonName(r) ],
                                       key |-> Asked[r].key, req |-> r ]
<1> DEFINE c == [ id  |-> [ Asked[r].id EXCEPT !.cn = csrCommonName(r) ],
                  key |-> Asked[r].key, req |-> r ]
<1>0. csrs \in Seq(CSRType) /\ Len(csrs) \in Nat /\ Len(certs) \in Nat /\ ServiceTypes /\ CertsRefer
  BY LogLengths DEF SignInv, TypeOK, ServiceTypes
<1>1. c \in CSRType /\ csrs' = Append(csrs, c) /\ UNCHANGED <<certs, published>>
  BY DEF CSRType, StoreCSR
<1>2. listed' \subseteq listed \cup {Len(csrs) + 1}
  BY DEF StoreCSR
<1> HIDE DEF c
<1>3. /\ csrs' \in Seq(CSRType) /\ Len(csrs') = Len(csrs) + 1 /\ csrs'[Len(csrs) + 1] = c
      /\ \A i \in 1..Len(csrs) : csrs'[i] = csrs[i]
  BY <1>0, <1>1
<1>4. ServiceTypes'
  BY <1>0, <1>1, <1>2, <1>3 DEF ServiceTypes
<1>5. CertsRefer' /\ LogsGrow
  BY <1>0, <1>1, <1>3 DEF CertsRefer, LogsGrow
<1> QED  BY <1>1, <1>3, <1>4, <1>5 DEF c

\* Sign after the import: the request and its spec stay in hand.
LEMMA AfterImport ==
    ASSUME w \in [ Workers -> WorkerState ], NEW k \in Workers, NEW id \in Nat, NEW name \in Names,
           w' = [ w EXCEPT ![k].pc = "resolve", ![k].csr = id, ![k].name = name ]
    PROVE  /\ Moves(k) /\ w'[k] \in WorkerState /\ w'[k].pc = "resolve" /\ w'[k].csr = id
           /\ w'[k].req = w[k].req /\ w'[k].spec = w[k].spec
<1>1. ASSUME NEW v \in WorkerState
      PROVE  LET u == [ v EXCEPT !.pc = "resolve", !.csr = id, !.name = name ]
             IN  /\ u \in WorkerState /\ u.pc = "resolve" /\ u.csr = id
                 /\ u.req = v.req /\ u.spec = v.spec
  BY <1>1 DEF WorkerState, Steps
<1>2. /\ w'[k] = [ w[k] EXCEPT !.pc = "resolve", !.csr = id, !.name = name ]
      /\ Moves(k)
  BY DEF Moves
<1>3. w[k] \in WorkerState
  OBVIOUS
<1> DEFINE u == [ w[k] EXCEPT !.pc = "resolve", !.csr = id, !.name = name ]
<1>4. /\ u \in WorkerState /\ u.pc = "resolve" /\ u.csr = id
      /\ u.req = w[k].req /\ u.spec = w[k].spec
  BY <1>1, <1>3, Zenon
<1>5. w'[k] = u /\ Moves(k)
  BY <1>2, Zenon
<1> HIDE DEF u
<1> QED  BY <1>4, <1>5, Zenon

LEMMA ImportCSRInv ==
    ASSUME SignInv, NEW k \in Kinds, ImportCSR(k)
    PROVE  SignInv'
<1>0. w[k].pc = "import" /\ Elsewhere /\ k \in Workers /\ k # Checker
  BY KindsAreWorkers DEF ImportCSR
<1>a. /\ w \in [ Workers -> WorkerState ] /\ LocalTypes(k, w[k]) /\ w[k].req \in Requests
  BY <1>0, LocalTypesHold DEF SignInv, TypeOK, WorkerTypes, LocalTypes
<1>f. faults' \in Nat
  <2>1. PICK e : Answered(e)
    BY DEF ImportCSR
  <2> QED  BY <2>1, AnsweredType
<1>1. /\ ServiceTypes' /\ CertsRefer' /\ LogsGrow
  BY <1>a, StoreGrows, KmpUnchanged DEF ImportCSR
<1>2. CASE \E e : Fail(k, e)
  BY <1>0, <1>f, <1>1, <1>2, FailMoves
<1>3. ASSUME NEW id, id \in {Len(csrs) + 1, NoID},
             NEW name, name \in {csrCommonName(w[k].req), ""},
             StoreCSR(w[k].req),
             w' = [ w EXCEPT ![k].pc = "resolve", ![k].csr = id, ![k].name = name ]
      PROVE  SignInv'
  <2>0. StoreCSR(w[k].req) /\ id \in {Len(csrs) + 1, NoID} /\ name \in {csrCommonName(w[k].req), ""}
    BY <1>3, Zenon
  <2>1. name \in Names
    BY <2>0, <1>a DEF Names
  <2>2. id \in Nat /\ id \in 0..Len(csrs')
    <3>1. Len(csrs) \in Nat /\ Len(csrs') = Len(csrs) + 1
      BY <1>a, <2>0, StoreGrows, LogLengths DEF SignInv, TypeOK
    <3>2. id = Len(csrs) + 1 \/ id = 0
      BY <2>0 DEF NoID
    <3> QED  BY <3>1, <3>2
  <2>3. /\ Moves(k) /\ w'[k] \in WorkerState /\ w'[k].pc = "resolve" /\ w'[k].csr = id
        /\ w'[k].req = w[k].req /\ w'[k].spec = w[k].spec
    BY <1>0, <1>3, <1>a, <2>1, <2>2, AfterImport, Zenon
  <2>4. LocalTypes(k, w[k])'
    BY <1>0, <1>a, <2>3 DEF LocalTypes, Elsewhere, world
  <2>5. LocalRefers(k, w[k])'
    BY <2>3, <2>2 DEF LocalRefers
  <2> QED  BY <1>0, <1>f, <1>1, <2>3, <2>4, <2>5, OneMoves
<1> QED  BY <1>2, <1>3, Zenon DEF ImportCSR

LEMMA StoreFullInv ==
    ASSUME SignInv, NEW k \in Kinds, StoreFull(k)
    PROVE  SignInv'
<1>0. w[k].pc # "idle" /\ Elsewhere /\ UNCHANGED kmp /\ faults' \in Nat /\ k \in Workers
  BY KindsAreWorkers DEF StoreFull, SignInv, TypeOK
<1>1. \E e : Fail(k, e)
  BY DEF StoreFull
<1> QED  BY <1>0, <1>1, KmpUnchanged, FailMoves

LEMMA ResolveCSRIDInv ==
    ASSUME SignInv, NEW k \in Kinds, ResolveCSRID(k)
    PROVE  SignInv'
<1>0. w[k].pc = "resolve" /\ Elsewhere /\ UNCHANGED kmp /\ k \in Workers /\ k # Checker
  BY KindsAreWorkers DEF ResolveCSRID
<1>a. /\ w \in [ Workers -> WorkerState ] /\ LocalTypes(k, w[k]) /\ LocalRefers(k, w[k])
      /\ Len(csrs) \in Nat /\ listed \subseteq 1..Len(csrs)
  BY <1>0, LocalTypesHold, LogLengths DEF SignInv, TypeOK, WorkerTypes, LocalsRefer, ServiceTypes
<1>f. faults' \in Nat
  <2>1. CASE UNCHANGED faults
    BY <2>1 DEF SignInv, TypeOK
  <2>2. CASE \E e : Answered(e)
    BY <2>2, AnsweredType
  <2> QED  BY <2>1, <2>2 DEF ResolveCSRID
<1>1. ServiceTypes' /\ CertsRefer' /\ LogsGrow
  BY <1>0, KmpUnchanged
<1>2. CASE \E e : Fail(k, e)
  BY <1>0, <1>f, <1>1, <1>2, FailMoves
<1>3. CASE w[k].csr # NoID /\ Goto(k, "sign")
  <2>1. Moves(k) /\ w'[k] = [ w[k] EXCEPT !.pc = "sign" ]
    BY <1>0, <1>3, <1>a DEF Moves, Goto
  <2>2. LocalTypes(k, w[k])'
    BY <1>0, <1>a, <2>1 DEF LocalTypes, WorkerState, Steps, Elsewhere, world
  <2>3. w[k].csr \in 1..Len(csrs)
    BY <1>0, <1>a, <1>3 DEF LocalRefers, NoID
  <2>4. w'[k].pc = "sign" /\ w'[k].csr = w[k].csr /\ csrs' = csrs
    BY <1>0, <1>a, <2>1 DEF LocalTypes, WorkerState, kmp
  <2>5. LocalRefers(k, w[k])'
    BY <2>3, <2>4 DEF LocalRefers
  <2> QED  BY <1>0, <1>f, <1>1, <2>1, <2>2, <2>5, OneMoves
<1>4. ASSUME NEW id \in listed, w' = [ w EXCEPT ![k].pc = "sign", ![k].csr = id ]
      PROVE  SignInv'
  <2>1. Moves(k) /\ w'[k] = [ w[k] EXCEPT !.pc = "sign", !.csr = id ]
    BY <1>0, <1>4, <1>a DEF Moves
  <2>2. id \in 1..Len(csrs) /\ id \in Nat
    BY <1>a, <1>4
  <2>3. LocalTypes(k, w[k])'
    BY <1>0, <1>a, <2>1, <2>2 DEF LocalTypes, WorkerState, Steps, Elsewhere, world
  <2>4. w'[k].pc = "sign" /\ w'[k].csr = id /\ csrs' = csrs
    BY <1>0, <1>a, <2>1 DEF LocalTypes, WorkerState, kmp
  <2>5. LocalRefers(k, w[k])'
    BY <2>2, <2>4 DEF LocalRefers
  <2> QED  BY <1>0, <1>f, <1>1, <2>1, <2>3, <2>5, OneMoves
<1> QED
  <2>1. ASSUME NEW found, NEW id \in highestID(found) PROVE id \in found
    BY <2>1 DEF highestID
  <2>2. ASSUME NEW name, NEW id \in ListedFor(csrs, listed, name) PROVE id \in listed
    BY <2>2 DEF ListedFor
  <2> QED  BY <1>2, <1>3, <1>4, <2>1, <2>2, Zenon DEF ResolveCSRID

\* What is sent for a request: the validity is the one the issuer pins, or covers
\* the duration asked for, or is left out; a CA certificate is asked for only when
\* the request is for one or the issuer pins it (signRequest, details).
LEMMA SentAsAsked ==
    ASSUME NEW o \in IssuerSpec, NEW csr, NEW asked, asked.hours \in Nat, asked.isCA \in Bool
    PROVE  LET sent == details(signRequest(o, csr, asked))
           IN  /\ "ValidityDays" \in DOMAIN sent =>
                    \/ sent.ValidityDays = o.ValidityDays
                    \/ asked.hours > 0 /\ sent.ValidityDays = validityDays(asked.hours)
               /\ "IsIntermediate" \in DOMAIN sent /\ sent.IsIntermediate = "true" =>
                    o.IsIntermediate = "true" \/ asked.isCA
<1> DEFINE r == signRequest(o, csr, asked)
<1>1. /\ \/ r.ValidityDays = o.ValidityDays
         \/ asked.hours > 0 /\ r.ValidityDays = validityDays(asked.hours)
      /\ r.IsIntermediate = "true" => o.IsIntermediate = "true" \/ asked.isCA
  BY DEF signRequest
<1> HIDE DEF r
<1>2. \A f \in DOMAIN details(r) : details(r)[f] = r[f]
  BY DEF details
<1> QED  BY <1>1, <1>2 DEF r

\* Signing: the log of certificates grows by one for the CSR that was signed.
LEMMA IssueGrows ==
    ASSUME SignInv, NEW csr \in 1..Len(csrs), NEW t \in Templates, NEW sent,
           "ValidityDays" \in DOMAIN sent => sent.ValidityDays \in Nat,
           Issue(csr, sent, t)
    PROVE  /\ ServiceTypes' /\ CertsRefer' /\ LogsGrow /\ UNCHANGED csrs
           /\ Len(certs') = Len(certs) + 1
           /\ certs'[Len(certs) + 1] =
                [ csr  |-> csr, id |-> CertifiedIdentity(csrs[csr].id, t),
                  ca   |-> "IsIntermediate" \in DOMAIN sent /\ sent.IsIntermediate = "true",
                  days |-> IF "ValidityDays" \in DOMAIN sent THEN sent.ValidityDays ELSE 0 ]
<1> DEFINE id == CertifiedIdentity(csrs[csr].id, t)
           ca == "IsIntermediate" \in DOMAIN sent /\ sent.IsIntermediate = "true"
           days == IF "ValidityDays" \in DOMAIN sent THEN sent.ValidityDays ELSE 0
           c == [ csr |-> csr, id |-> id, ca |-> ca, days |-> days ]
<1>0. /\ csrs \in Seq(CSRType) /\ certs \in Seq(CertType) /\ Len(csrs) \in Nat /\ Len(certs) \in Nat
      /\ ServiceTypes /\ CertsRefer
  BY LogLengths DEF SignInv, TypeOK, ServiceTypes
<1>1. csrs[csr] \in CSRType /\ csr \in Nat
  BY <1>0
<1>2. c \in CertType
  <2>1. id \in { CertifiedIdentity(x.id, y) : x \in CSRType, y \in Templates }
    BY <1>1, SMT
  <2>2. ca \in Bool
    BY Zenon DEF Bool
  <2>3. days \in Nat
    OBVIOUS
  <2> HIDE DEF id, ca, days
  <2> QED  BY <1>1, <2>1, <2>2, <2>3 DEF CertType
<1>3. certs' = Append(certs, c) /\ published' \subseteq published \cup {Len(certs) + 1}
      /\ UNCHANGED <<csrs, listed>>
  BY DEF Issue
<1>4. c.csr = csr
  OBVIOUS
<1> HIDE DEF c
<1>5. /\ certs' \in Seq(CertType) /\ Len(certs') = Len(certs) + 1 /\ certs'[Len(certs) + 1] = c
      /\ \A n \in 1..Len(certs) : certs'[n] = certs[n]
  BY <1>0, <1>2, <1>3
<1>6. ServiceTypes'
  BY <1>0, <1>3, <1>5 DEF ServiceTypes
<1>7. CertsRefer' /\ LogsGrow
  BY <1>0, <1>3, <1>4, <1>5 DEF CertsRefer, LogsGrow
<1> QED  BY <1>3, <1>5, <1>6, <1>7 DEF c

\* A stored CSR carries the names of a request, and the name it is filed under.
LEMMA CSRName ==
    ASSUME NEW c \in CSRType
    PROVE  \E r \in Requests :
             /\ c.req = r /\ c.key = Asked[r].key
             /\ c.id = Identity(csrCommonName(r), Asked[r].id.dns, Asked[r].id.ips, Asked[r].id.org)
             /\ c.id.cn = csrCommonName(r) /\ c.id.cn \in Names
<1>1. PICK r \in Requests : c = [ id  |-> [ Asked[r].id EXCEPT !.cn = csrCommonName(r) ],
                                  key |-> Asked[r].key, req |-> r ]
  BY DEF CSRType
<1> DEFINE i == Asked[r].id
<1>2. i = Identity(i.cn, i.dns, i.ips, i.org)
  BY RequestsAssumption
<1> HIDE DEF i
<1>3. [ i EXCEPT !.cn = csrCommonName(r) ] = Identity(csrCommonName(r), i.dns, i.ips, i.org)
  BY <1>2 DEF Identity
<1>4. csrCommonName(r) \in Names
  BY DEF Names
<1>5. c.id = Identity(csrCommonName(r), i.dns, i.ips, i.org) /\ c.req = r /\ c.key = Asked[r].key
  BY <1>1, <1>3 DEF i
<1>6. Identity(csrCommonName(r), i.dns, i.ips, i.org).cn = csrCommonName(r)
  BY DEF Identity
<1> QED  BY <1>4, <1>5, <1>6, Zenon DEF i

\* Sign after the signing: the CSR stays in hand.
LEMMA AfterSigning ==
    ASSUME w \in [ Workers -> WorkerState ], NEW k \in Workers,
           NEW name \in Names, NEW serial \in Nat,
           w' = [ w EXCEPT ![k].pc = "fetch", ![k].name = name, ![k].serial = serial ]
    PROVE  /\ Moves(k) /\ w'[k] \in WorkerState /\ w'[k].pc = "fetch" /\ w'[k].serial = serial
           /\ w'[k].csr = w[k].csr /\ w'[k].req = w[k].req /\ w'[k].spec = w[k].spec
<1>1. ASSUME NEW v \in WorkerState
      PROVE  LET u == [ v EXCEPT !.pc = "fetch", !.name = name, !.serial = serial ]
             IN  /\ u \in WorkerState /\ u.pc = "fetch" /\ u.serial = serial
                 /\ u.csr = v.csr /\ u.req = v.req /\ u.spec = v.spec
  BY <1>1 DEF WorkerState, Steps
<1>2. /\ w'[k] = [ w[k] EXCEPT !.pc = "fetch", !.name = name, !.serial = serial ]
      /\ Moves(k)
  BY DEF Moves
<1>3. w[k] \in WorkerState
  OBVIOUS
<1> DEFINE u == [ w[k] EXCEPT !.pc = "fetch", !.name = name, !.serial = serial ]
<1>4. /\ u \in WorkerState /\ u.pc = "fetch" /\ u.serial = serial
      /\ u.csr = w[k].csr /\ u.req = w[k].req /\ u.spec = w[k].spec
  BY <1>1, <1>3, Zenon
<1>5. w'[k] = u /\ Moves(k)
  BY <1>2, Zenon
<1> HIDE DEF u
<1> QED  BY <1>4, <1>5, Zenon

\* Signing a CSR as an accepted issuer and a request say: the validity is a number.
LEMMA SentDays ==
    ASSUME SignInv, NEW k \in Kinds, w[k].pc = "sign",
           "ValidityDays" \in DOMAIN details(signRequest(w[k].spec, w[k].csr, Asked[w[k].req]))
    PROVE  details(signRequest(w[k].spec, w[k].csr, Asked[w[k].req])).ValidityDays \in Nat
<1> DEFINE asked == Asked[w[k].req]
           sent == details(signRequest(w[k].spec, w[k].csr, asked))
<1>1. w[k].spec \in IssuerSpec /\ w[k].req \in Requests
  BY KindsAreWorkers, LocalTypesHold, WorldTypes DEF SignInv, TypeOK, LocalTypes
<1>2. asked.hours \in Nat /\ asked.isCA \in Bool
  BY <1>1, RequestsAssumption
<1> HIDE DEF asked
<1>3. \/ sent.ValidityDays = w[k].spec.ValidityDays
      \/ asked.hours > 0 /\ sent.ValidityDays = validityDays(asked.hours)
  BY <1>1, <1>2, SentAsAsked DEF asked
<1> HIDE DEF sent
<1>4. w[k].spec.ValidityDays \in Nat
  BY <1>1 DEF IssuerSpec
<1>5. asked.hours > 0 => validityDays(asked.hours) \in Nat
  BY <1>2, ValidityCovers
<1> QED  BY <1>3, <1>4, <1>5 DEF sent, asked

LEMMA SignImportedInv ==
    ASSUME SignInv, NEW k \in Kinds, SignImported(k)
    PROVE  SignInv'
<1>0. w[k].pc = "sign" /\ Elsewhere /\ k \in Workers /\ k # Checker
  BY KindsAreWorkers DEF SignImported
<1>a. /\ w \in [ Workers -> WorkerState ] /\ LocalTypes(k, w[k]) /\ w[k].req \in Requests
      /\ w[k].csr \in 1..Len(csrs) /\ Len(csrs) \in Nat /\ Len(certs) \in Nat
      /\ csrs \in Seq(CSRType)
  BY <1>0, LocalTypesHold, LogLengths
  DEF SignInv, TypeOK, WorkerTypes, LocalTypes, LocalsRefer, LocalRefers, ServiceTypes
<1>f. faults' \in Nat
  <2>1. PICK e : Answered(e)
    BY DEF SignImported
  <2> QED  BY <2>1, AnsweredType
<1>1. ServiceTypes' /\ CertsRefer' /\ LogsGrow /\ Len(csrs') \in Nat /\ Len(csrs') >= Len(csrs)
  <2>1. ASSUME UNCHANGED kmp PROVE ServiceTypes' /\ CertsRefer' /\ LogsGrow /\ UNCHANGED csrs
    BY <2>1, KmpUnchanged DEF kmp
  <2>2. ASSUME NEW t \in Templates,
               Issue(w[k].csr, details(signRequest(w[k].spec, w[k].csr, Asked[w[k].req])), t)
        PROVE  ServiceTypes' /\ CertsRefer' /\ LogsGrow /\ UNCHANGED csrs
    BY <1>0, <1>a, <2>2, SentDays, IssueGrows
  <2>3. world.templates \subseteq Templates
    BY WorldTypes DEF SignInv, TypeOK
  <2>4. ServiceTypes' /\ CertsRefer' /\ LogsGrow /\ UNCHANGED csrs
    BY <2>1, <2>2, <2>3, Zenon DEF SignImported
  <2> QED  BY <1>a, <2>4
<1>2. CASE \E e : Fail(k, e)
  BY <1>0, <1>f, <1>1, <1>2, FailMoves
<1>3. ASSUME NEW name, name \in {csrs[w[k].csr].id.cn, w[k].name, Asked[w[k].req].id.cn},
             NEW serial, serial \in {Len(certs) + 1, NoID},
             w' = [ w EXCEPT ![k].pc = "fetch", ![k].name = name, ![k].serial = serial ]
      PROVE  SignInv'
  <2>0. /\ name \in {csrs[w[k].csr].id.cn, w[k].name, Asked[w[k].req].id.cn}
        /\ serial \in {Len(certs) + 1, NoID}
    BY <1>3, Zenon
  <2>1. name \in Names
    <3>1. csrs[w[k].csr] \in CSRType
      BY <1>a
    <3>2. csrs[w[k].csr].id.cn \in Names
      BY <3>1, CSRName, Zenon
    <3>3. w[k].name \in Names
      BY <1>a DEF LocalTypes, WorkerState
    <3>4. Asked[w[k].req].id.cn \in Names
      BY <1>a DEF Names
    <3> QED  BY <2>0, <3>2, <3>3, <3>4
  <2>2. serial \in Nat
    <3>1. serial = Len(certs) + 1 \/ serial = 0
      BY <2>0 DEF NoID
    <3> QED  BY <1>a, <3>1
  <2>3. /\ Moves(k) /\ w'[k] \in WorkerState /\ w'[k].pc = "fetch"
        /\ w'[k].csr = w[k].csr /\ w'[k].req = w[k].req /\ w'[k].spec = w[k].spec
    BY <1>0, <1>3, <1>a, <2>1, <2>2, AfterSigning, Zenon
  <2>4. LocalTypes(k, w[k])'
    BY <1>0, <1>a, <2>3 DEF LocalTypes, Elsewhere, world
  <2>5. LocalRefers(k, w[k])'
    BY <1>1, <1>a, <2>3 DEF LocalRefers
  <2> QED  BY <1>0, <1>f, <1>1, <2>3, <2>4, <2>5, OneMoves
<1> QED  BY <1>2, <1>3, Zenon DEF SignImported

LEMMA FetchCertificateInv ==
    ASSUME SignInv, NEW k \in Kinds, FetchCertificate(k)
    PROVE  SignInv'
<1>0. w[k].pc = "fetch" /\ Elsewhere /\ UNCHANGED kmp /\ k \in Workers /\ k # Checker
  BY KindsAreWorkers DEF FetchCertificate
<1>a. /\ w \in [ Workers -> WorkerState ] /\ LocalTypes(k, w[k]) /\ LocalRefers(k, w[k])
      /\ Len(certs) \in Nat /\ published \subseteq 1..Len(certs)
  BY <1>0, LocalTypesHold, LogLengths DEF SignInv, TypeOK, WorkerTypes, LocalsRefer, ServiceTypes
<1>f. faults' \in Nat
  <2>1. PICK e : Answered(e)
    BY Zenon DEF FetchCertificate
  <2> QED  BY <2>1, AnsweredType
<1>1. ServiceTypes' /\ CertsRefer' /\ LogsGrow
  BY <1>0, KmpUnchanged
<1>2. CASE \E e : Fail(k, e)
  BY <1>0, <1>f, <1>1, <1>2, FailMoves
<1>3. ASSUME NEW n \in published, csrs[certs[n].csr].key = Asked[w[k].req].key,
             verifyRequestedNames(w[k].req, certs[n].id),
             Return(k, "request", "ok", n)
      PROVE  SignInv'
  <2>1. n \in 1..Len(certs) /\ n \in Nat
    BY <1>a
  <2>2. GoodFor(w[k].req, n)
    BY <1>3, <2>1 DEF GoodFor
  <2>3. /\ Moves(k) /\ LocalTypes(k, w[k])'
        /\ w'[k].pc = "finish" /\ w'[k].req = w[k].req /\ w'[k].cert = n
    BY <1>0, <1>3, <2>1, ReturnMoves DEF SignInv, TypeOK, Elsewhere, Results
  <2>4. GoodFor(w[k].req, w[k].cert)'
    BY <1>0, <2>2, <2>3 DEF GoodFor, verifyRequestedNames, kmp
  <2>5. LocalRefers(k, w[k])'
    BY <2>3, <2>4 DEF LocalRefers
  <2> QED  BY <1>0, <1>f, <1>1, <2>3, <2>5, OneMoves
<1>4. CASE w' = [ w EXCEPT ![k].polls = @ + 1 ]
  <2>1. Moves(k) /\ w'[k] = [ w[k] EXCEPT !.polls = @ + 1 ]
    BY <1>0, <1>4, <1>a DEF Moves
  <2>a. w[k].polls + 1 \in Nat
    BY <1>a DEF LocalTypes, WorkerState
  <2>b. PICK p \in Nat : w'[k] = [ w[k] EXCEPT !.polls = p ]
    BY <2>1, <2>a
  <2>2. LocalTypes(k, w[k])'
    BY <1>0, <1>a, <2>b DEF LocalTypes, WorkerState, Elsewhere, world
  <2>3. w'[k].pc = "fetch" /\ w'[k].csr = w[k].csr /\ csrs' = csrs
    BY <1>0, <1>a, <2>1 DEF LocalTypes, WorkerState, kmp
  <2>4. LocalRefers(k, w[k])'
    BY <1>0, <1>a, <2>3 DEF LocalRefers
  <2> QED  BY <1>0, <1>f, <1>1, <2>1, <2>2, <2>4, OneMoves
<1> QED
  <2>1. ASSUME NEW returned, returned \subseteq published, Assemble(k, returned)
        PROVE  SignInv'
    <3>1. CASE \E e : Fail(k, e)
      BY <1>2, <3>1
    <3>2. ASSUME NEW n \in leavesFor(w[k].req, returned),
                 verifyRequestedNames(w[k].req, certs[n].id), Return(k, "request", "ok", n)
          PROVE  SignInv'
      <4>1. n \in published /\ csrs[certs[n].csr].key = Asked[w[k].req].key
        BY <2>1, <3>2 DEF leavesFor
      <4> QED  BY <1>3, <3>2, <4>1
    <3> QED  BY <2>1, <3>1, <3>2, Zenon DEF Assemble
  <2>2. \A name, serial : PublishedFor(csrs, certs, published, name, serial) \subseteq published
    BY DEF PublishedFor
  <2> DEFINE candidates == PublishedFor(csrs, certs, published, w[k].name, w[k].serial)
  <2>3. candidates \subseteq published
    BY <2>2
  <2>4. \/ \E returned \in SUBSET candidates : Assemble(k, returned)
        \/ w' = [ w EXCEPT ![k].polls = @ + 1 ]
        \/ \E e : Fail(k, e)
    BY Zenon DEF FetchCertificate
  <2> HIDE DEF candidates
  <2> QED  BY <1>2, <1>4, <2>1, <2>3, <2>4

-----------------------------------------------------------------------------
(***************************************************************************)
(* The steps of issuer-lib, of the users and of Key Manager Plus.          *)
(***************************************************************************)

\* Answers stay what they are while Key Manager Plus only grows.
LEMMA AnswersStay ==
    ASSUME SignInv, LogsGrow, UNCHANGED req
    PROVE  AnswersRefer'
<1>1. ServiceTypes /\ CertsRefer
  BY DEF SignInv, TypeOK
<1> QED  BY <1>1, GoodStays DEF SignInv, AnswersRefer

\* The workers keep what they have while Key Manager Plus only grows.
LEMMA WorkersStay ==
    ASSUME SignInv, LogsGrow, UNCHANGED <<setting, w>>
    PROVE  WorkerTypes' /\ LocalsRefer'
<1>1. WorkerTypes'
  BY DEF SignInv, TypeOK, WorkerTypes, world
<1>2. ASSUME NEW x \in Workers PROVE LocalRefers(x, w[x])'
  <2>1. LocalRefers(x, w[x]) /\ w'[x] = w[x] /\ CertsRefer /\ ServiceTypes
    BY DEF SignInv, LocalsRefer, TypeOK
  <2>2. Len(csrs) \in Nat /\ Len(certs) \in Nat /\ Len(csrs') \in Int /\ Len(certs') \in Int
    BY LogLengths DEF SignInv, TypeOK, LogsGrow
  <2>3. ASSUME NEW r, NEW n, GoodFor(r, n) PROVE GoodFor(r, n)'
    BY <2>1, <2>3, GoodStays
  <2> QED  BY <2>1, <2>2, <2>3 DEF LocalRefers, LogsGrow
<1> QED  BY <1>1, <1>2 DEF LocalsRefer

\* A worker that is given new locals.
LEMMA Given ==
    ASSUME SignInv, NEW k \in Workers, NEW v, w' = [ w EXCEPT ![k] = v ],
           UNCHANGED <<setting, kmp>>, LocalTypes(k, v), LocalRefers(k, v)
    PROVE  Moves(k) /\ w'[k] = v /\ WorkerTypes' /\ LocalsRefer'
<1>1. Moves(k) /\ w'[k] = v
  BY DEF Moves, SignInv, TypeOK, WorkerTypes
<1>2. LocalTypes(k, w[k])'
  BY <1>1 DEF LocalTypes, world
<1>3. LocalRefers(k, w[k])'
  <2>1. \A r, n : GoodFor(r, n)' = GoodFor(r, n)
    BY DEF GoodFor, verifyRequestedNames, kmp
  <2> QED  BY <1>1, <2>1 DEF LocalRefers, kmp
<1> QED  BY <1>1, <1>2, <1>3, KmpUnchanged, Frame

LEMMA SkipRequestInv ==
    ASSUME SignInv, NEW k \in Kinds, NEW r \in Requests, SkipRequest(k, r)
    PROVE  SignInv'
<1>1. /\ UNCHANGED <<setting, req, issuer, checkQueued, reported, token, w, kmp, now, faults>>
      /\ queue' = queue \ {r}
  BY DEF SkipRequest, Take
<1>2. ClusterTypes'
  BY <1>1 DEF SignInv, TypeOK, ClusterTypes, world
<1>3. /\ ServiceTypes' /\ CertsRefer' /\ WorkerTypes' /\ LocalsRefer' /\ AnswersRefer'
  BY <1>1, KmpUnchanged, WorkersStay, AnswersStay
<1> QED  BY <1>1, <1>2, <1>3 DEF SignInv, TypeOK

LEMMA StartRequestInv ==
    ASSUME SignInv, NEW k \in Kinds, NEW r \in Requests, StartRequest(k, r)
    PROVE  SignInv'
<1> DEFINE v == [ Idle EXCEPT !.pc = "secret", !.req = r, !.spec = issuer.spec ]
<1>1. /\ UNCHANGED <<setting, req, issuer, checkQueued, reported, token, kmp, now, faults>>
      /\ queue' = queue \ {r} /\ Asked[r].kind = k /\ k \in Workers /\ k # Checker
      /\ w' = [ w EXCEPT ![k] = v ]
  BY KindsAreWorkers DEF StartRequest, Take
<1>2. issuer.spec \in IssuerSpec /\ issuer.spec \in world.specs
  BY WorldTypes DEF SignInv, TypeOK, ClusterTypes
<1>3. v \in WorkerState
  BY <1>2, IdleType DEF WorkerState, Steps
<1>4. v.pc = "secret" /\ v.req = r /\ v.spec = issuer.spec
  BY DEF Idle
<1> HIDE DEF v
<1>5. LocalTypes(k, v) /\ LocalRefers(k, v)
  BY <1>1, <1>2, <1>3, <1>4 DEF LocalTypes, LocalRefers
<1>6. ClusterTypes'
  BY <1>1 DEF SignInv, TypeOK, ClusterTypes, world
<1>7. /\ ServiceTypes' /\ CertsRefer' /\ WorkerTypes' /\ LocalsRefer' /\ AnswersRefer'
  BY <1>1, <1>5, KmpUnchanged, Given, AnswersStay
<1> QED  BY <1>1, <1>6, <1>7 DEF SignInv, TypeOK

\* A worker may become idle at any time.
LEMMA IdleLocals ==
    ASSUME NEW k \in Workers
    PROVE  LocalTypes(k, Idle) /\ LocalRefers(k, Idle)
BY IdleType DEF LocalTypes, LocalRefers

\* What becomes of a request whose Sign has returned.
LEMMA FinishOutcome ==
    ASSUME SignInv, NEW k \in Kinds, FinishRequest(k)
    PROVE  /\ w[k].pc = "finish" /\ w[k].req \in Requests
           /\ \/ UNCHANGED req
              \/ /\ w[k].blame = "request" /\ w[k].result = "ok"
                 /\ req' = [ req EXCEPT ![w[k].req].state = "issued", ![w[k].req].cert = w[k].cert ]
              \/ /\ w[k].blame = "request" /\ Final(w[k].req, w[k].result)
                 /\ req' = [ req EXCEPT ![w[k].req].state = "failed", ![w[k].req].cert = NoID ]
<1>1. w[k].pc = "finish"
  BY DEF FinishRequest
<1>2. w[k].req \in Requests
  BY <1>1, KindsAreWorkers, LocalTypesHold DEF SignInv, TypeOK, LocalTypes
<1> QED  BY <1>1, <1>2, Zenon DEF FinishRequest, Answer

LEMMA FinishRequestInv ==
    ASSUME SignInv, NEW k \in Kinds, FinishRequest(k)
    PROVE  SignInv'
<1> DEFINE r == w[k].req
<1>0. /\ w[k].pc = "finish" /\ r \in Requests /\ k \in Workers
      /\ w' = [ w EXCEPT ![k] = Idle ] /\ UNCHANGED <<setting, issuer, token, kmp, now>>
  BY FinishOutcome, KindsAreWorkers DEF FinishRequest
<1>a. /\ req \in [ Requests -> RequestState ] /\ queue \subseteq Requests
      /\ checkQueued \in Bool /\ reported \in Results \cup {"none"} /\ w[k] \in WorkerState
      /\ LocalRefers(k, w[k])
  BY <1>0 DEF SignInv, TypeOK, ClusterTypes, WorkerTypes, LocalsRefer
<1>b. w[k].result \in Results /\ w[k].cert \in Nat
  BY <1>a DEF WorkerState
<1>1. faults' \in Nat
  <2>1. UNCHANGED faults \/ Answered(OtherError)
    BY Zenon DEF FinishRequest
  <2> QED  BY <2>1, AnsweredType DEF SignInv, TypeOK
<1>2. queue' \subseteq Requests
  <2>1. UNCHANGED queue \/ queue' = queue \cup {r}
    BY Zenon DEF FinishRequest, Answer
  <2> QED  BY <1>0, <1>a, <2>1
<1>3. checkQueued' \in Bool /\ reported' \in Results \cup {"none"}
  <2>1. (UNCHANGED <<checkQueued, reported>>) \/ Report(w[k].result)
    BY Zenon DEF FinishRequest
  <2> QED  BY <1>a, <1>b, <2>1 DEF Report, Bool
<1>4. req' \in [ Requests -> RequestState ] /\ AnswersRefer'
  <2>1. CASE UNCHANGED req
    BY <1>0, <1>a, <2>1, KmpUnchanged, AnswersStay
  <2>2. CASE /\ w[k].blame = "request" /\ w[k].result = "ok"
             /\ req' = [ req EXCEPT ![r].state = "issued", ![r].cert = w[k].cert ]
    <3>1. /\ req' \in [ Requests -> RequestState ] /\ req'[r].cert = w[k].cert
          /\ \A x \in Requests : x # r => req'[x] = req[x]
      BY <1>0, <1>a, <1>b, <2>2 DEF RequestState
    <3>2. GoodFor(r, w[k].cert)
      BY <1>0, <1>a, <2>2 DEF LocalRefers
    <3>3. \A x \in Requests : req'[x].state = "issued" => GoodFor(x, req'[x].cert)
      BY <3>1, <3>2 DEF SignInv, AnswersRefer
    <3>4. \A x, n : GoodFor(x, n)' = GoodFor(x, n)
      BY <1>0 DEF GoodFor, verifyRequestedNames, kmp
    <3> QED  BY <3>1, <3>3, <3>4 DEF AnswersRefer
  <2>3. CASE req' = [ req EXCEPT ![r].state = "failed", ![r].cert = NoID ]
    <3>1. /\ req' \in [ Requests -> RequestState ] /\ req'[r].state = "failed"
          /\ \A x \in Requests : x # r => req'[x] = req[x]
      BY <1>0, <1>a, <2>3 DEF RequestState, NoID
    <3>2. \A x \in Requests : req'[x].state = "issued" => GoodFor(x, req'[x].cert)
      BY <3>1 DEF SignInv, AnswersRefer
    <3>3. \A x, n : GoodFor(x, n)' = GoodFor(x, n)
      BY <1>0 DEF GoodFor, verifyRequestedNames, kmp
    <3> QED  BY <3>1, <3>2, <3>3 DEF AnswersRefer
  <2> QED  BY <2>1, <2>2, <2>3, FinishOutcome
<1>5. ClusterTypes'
  BY <1>0, <1>2, <1>3, <1>4 DEF SignInv, TypeOK, ClusterTypes, world
<1>6. /\ ServiceTypes' /\ CertsRefer' /\ WorkerTypes' /\ LocalsRefer'
  BY <1>0, KmpUnchanged, Given, IdleLocals
<1> QED  BY <1>0, <1>1, <1>4, <1>5, <1>6 DEF SignInv, TypeOK

LEMMA StartCheckInv ==
    ASSUME SignInv, StartCheck
    PROVE  SignInv'
<1> DEFINE held == [ Idle EXCEPT !.generation = issuer.generation ]
           v == [ held EXCEPT !.pc = "secret", !.spec = issuer.spec ]
           u == [ held EXCEPT !.pc = "finish", !.blame = "request", !.result = reported ]
<1>0. /\ UNCHANGED <<setting, req, issuer, queue, token, kmp, now, faults>> /\ checkQueued' = FALSE
      /\ reported' \in {reported, "none"} /\ Checker \in Workers
  BY KindsAreWorkers DEF StartCheck
<1>1. ClusterTypes'
  BY <1>0 DEF SignInv, TypeOK, ClusterTypes, world, Bool
<1>2. /\ issuer.generation \in Nat /\ issuer.spec \in IssuerSpec /\ issuer.spec \in world.specs
      /\ reported \in Results \cup {"none"}
  BY WorldTypes DEF SignInv, TypeOK, ClusterTypes, IssuerState
<1>3. held \in WorkerState
  BY <1>2, IdleType DEF WorkerState
<1>4. WorkerTypes' /\ LocalsRefer'
  <2>1. CASE UNCHANGED w
    BY <1>0, <2>1, KmpUnchanged, WorkersStay
  <2>2. CASE w' = [ w EXCEPT ![Checker] = v ]
    <3>1. v \in WorkerState /\ v.pc = "secret" /\ v.spec = issuer.spec
      BY <1>2, <1>3 DEF WorkerState, Steps
    <3> HIDE DEF v
    <3>2. LocalTypes(Checker, v) /\ LocalRefers(Checker, v)
      BY <1>2, <3>1, KindsAreWorkers DEF LocalTypes, LocalRefers
    <3> QED  BY <1>0, <2>2, <3>2, Given
  <2>3. CASE reported # "none" /\ w' = [ w EXCEPT ![Checker] = u ]
    <3>1. u \in WorkerState /\ u.pc = "finish"
      BY <1>2, <1>3, <2>3 DEF WorkerState, Steps
    <3> HIDE DEF u
    <3>2. LocalTypes(Checker, u) /\ LocalRefers(Checker, u)
      BY <3>1, KindsAreWorkers DEF LocalTypes, LocalRefers
    <3> QED  BY <1>0, <2>3, <3>2, Given
  <2> QED  BY <2>1, <2>2, <2>3, Zenon DEF StartCheck
<1>5. ServiceTypes' /\ CertsRefer' /\ AnswersRefer'
  BY <1>0, KmpUnchanged, AnswersStay
<1> QED  BY <1>0, <1>1, <1>4, <1>5 DEF SignInv, TypeOK

LEMMA FinishCheckInv ==
    ASSUME SignInv, FinishCheck
    PROVE  SignInv'
<1>0. /\ UNCHANGED <<setting, req, token, kmp, now>> /\ Checker \in Workers
      /\ w' = [ w EXCEPT ![Checker] = Idle ] /\ w[Checker].pc = "finish"
  BY KindsAreWorkers DEF FinishCheck
<1>a. /\ w[Checker] \in WorkerState /\ issuer \in IssuerState /\ queue \subseteq Requests
      /\ issuer.spec \in world.specs /\ checkQueued \in Bool /\ reported \in Results \cup {"none"}
  BY <1>0 DEF SignInv, TypeOK, ClusterTypes, WorkerTypes
<1>b. w[Checker].result \in Results /\ w[Checker].generation \in Nat
  BY <1>a DEF WorkerState
<1>1. faults' \in Nat
  <2>1. UNCHANGED faults \/ Answered(OtherError)
    BY Zenon DEF FinishCheck
  <2> QED  BY <2>1, AnsweredType DEF SignInv, TypeOK
<1>2. issuer' \in IssuerState /\ issuer'.spec \in world.specs
  <2>1. Condition(w[Checker].result) \in {"True", "Failed", "Pending"}
    BY DEF Condition
  <2>2. UNCHANGED issuer \/ issuer' = [ issuer EXCEPT !.ready = Condition(w[Checker].result),
                                                     !.observed = w[Checker].generation ]
    BY Zenon DEF FinishCheck
  <2> QED  BY <1>a, <1>b, <2>1, <2>2 DEF IssuerState
<1>3. queue' \subseteq Requests
  <2>1. queue' \in {queue, queue \cup Pending}
    BY DEF FinishCheck
  <2> QED  BY <1>a, <2>1 DEF Pending
<1>4. checkQueued' \in Bool /\ reported' \in Results \cup {"none"}
  <2>1. reported' \in {reported, w[Checker].result}
    BY DEF FinishCheck
  <2>2. checkQueued' = TRUE \/ checkQueued' = (checkQueued \/ checkAgain(w[Checker].result))
    BY Zenon DEF FinishCheck
  <2>3. checkQueued' \in Bool
    BY <2>2, Zenon DEF Bool
  <2> QED  BY <1>a, <1>b, <2>1, <2>3
<1>5. ClusterTypes'
  BY <1>0, <1>2, <1>3, <1>4 DEF SignInv, TypeOK, ClusterTypes, world
<1>6. /\ ServiceTypes' /\ CertsRefer' /\ WorkerTypes' /\ LocalsRefer' /\ AnswersRefer'
  BY <1>0, KmpUnchanged, Given, IdleLocals, AnswersStay
<1> QED  BY <1>0, <1>1, <1>5, <1>6 DEF SignInv, TypeOK

LEMMA CreateRequestInv ==
    ASSUME SignInv, NEW r \in Requests, CreateRequest(r)
    PROVE  SignInv'
<1>0. /\ UNCHANGED <<setting, issuer, checkQueued, reported, token, w, kmp, now, faults>>
      /\ req' = [ req EXCEPT ![r].state = "pending", ![r].created = now ]
      /\ queue' = queue \cup {r} /\ now \in Nat
  BY DEF CreateRequest, SignInv, TypeOK
<1>1. /\ req' \in [ Requests -> RequestState ] /\ req'[r].state = "pending"
      /\ \A x \in Requests : x # r => req'[x] = req[x]
  BY <1>0 DEF SignInv, TypeOK, ClusterTypes, RequestState
<1>2. ClusterTypes'
  BY <1>0, <1>1 DEF SignInv, TypeOK, ClusterTypes, world
<1>3. AnswersRefer'
  <2>1. \A x \in Requests : req'[x].state = "issued" => GoodFor(x, req'[x].cert)
    BY <1>1 DEF SignInv, AnswersRefer
  <2>2. \A x, n : GoodFor(x, n)' = GoodFor(x, n)
    BY <1>0 DEF GoodFor, verifyRequestedNames, kmp
  <2> QED  BY <2>1, <2>2 DEF AnswersRefer
<1>4. ServiceTypes' /\ CertsRefer' /\ WorkerTypes' /\ LocalsRefer'
  BY <1>0, KmpUnchanged, WorkersStay
<1> QED  BY <1>0, <1>2, <1>3, <1>4 DEF SignInv, TypeOK

\* The issuer and its Secret are edited, and time passes.
LEMMA SurroundingsInv ==
    ASSUME SignInv, EditIssuer \/ EditSecret \/ Tick
    PROVE  SignInv'
<1>0. UNCHANGED <<setting, req, queue, reported, w, kmp, faults>>
  BY DEF EditIssuer, EditSecret, Tick, cluster
<1>1. now' \in Nat
  <2>1. now' = now \/ now' = now + 1
    BY Zenon DEF EditIssuer, EditSecret, Tick
  <2> QED  BY <2>1 DEF SignInv, TypeOK
<1>2. ClusterTypes'
  <2>0. /\ issuer \in IssuerState /\ issuer.spec \in world.specs /\ token \in world.tokens
        /\ checkQueued \in Bool /\ world.specs \subseteq IssuerSpec
    BY WorldTypes DEF SignInv, TypeOK, ClusterTypes
  <2>1. issuer' \in IssuerState /\ issuer'.spec \in world.specs /\ checkQueued' \in Bool
    <3>1. CASE EditIssuer
      <4>1. PICK sp \in world.specs :
              issuer' = [ issuer EXCEPT !.generation = issuer.generation + 1, !.spec = sp ]
        BY <3>1 DEF EditIssuer
      <4>a. issuer.generation + 1 \in Nat
        BY <2>0 DEF IssuerState
      <4>2. PICK g \in Nat : issuer' = [ issuer EXCEPT !.generation = g, !.spec = sp ]
        BY <4>a, <4>1, Zenon
      <4>3. checkQueued' \in Bool
        BY <3>1 DEF EditIssuer, Bool
      <4> QED  BY <2>0, <4>2, <4>3 DEF IssuerState
    <3>2. CASE EditSecret \/ Tick
      BY <2>0, <3>2 DEF EditSecret, Tick, cluster
    <3> QED  BY <3>1, <3>2
  <2>2. token' \in world.tokens
    BY <2>0 DEF EditIssuer, EditSecret, Tick
  <2> QED  BY <1>0, <2>1, <2>2 DEF SignInv, TypeOK, ClusterTypes, world
<1>3. ServiceTypes' /\ CertsRefer' /\ WorkerTypes' /\ LocalsRefer' /\ AnswersRefer'
  BY <1>0, KmpUnchanged, WorkersStay, AnswersStay
<1> QED  BY <1>0, <1>1, <1>2, <1>3 DEF SignInv, TypeOK

LEMMA CrashInv ==
    ASSUME SignInv, Crash
    PROVE  SignInv'
<1>0. /\ UNCHANGED <<setting, req, issuer, token, kmp, now>>
      /\ w' = [ k \in Workers |-> Idle ]
      /\ queue' = Pending /\ checkQueued' = TRUE /\ reported' = "none"
  BY DEF Crash
<1>1. faults' \in Nat
  BY AnsweredType DEF Crash
<1>2. ClusterTypes'
  BY <1>0 DEF SignInv, TypeOK, ClusterTypes, world, Pending, Bool
<1>3. \A k \in Workers : w'[k] = Idle
  BY <1>0
<1>4. WorkerTypes'
  BY <1>0, <1>3, IdleType, KindsAreWorkers DEF WorkerTypes
<1>5. LocalsRefer'
  BY <1>3, IdleType DEF LocalsRefer, LocalRefers
<1>6. ServiceTypes' /\ CertsRefer' /\ AnswersRefer'
  BY <1>0, KmpUnchanged, AnswersStay
<1> QED  BY <1>0, <1>1, <1>2, <1>4, <1>5, <1>6 DEF SignInv, TypeOK

\* Key Manager Plus lists a CSR or publishes a certificate that it has.
LEMMA ServiceInv ==
    ASSUME SignInv, Service
    PROVE  SignInv'
<1>0. UNCHANGED <<csrs, certs, setting, req, issuer, queue, checkQueued, reported, token, w, now, faults>>
  BY DEF Service, ListCSR, PublishCertificate, cluster
<1>1. ServiceTypes'
  <2>1. listed' \subseteq 1..Len(csrs) /\ published' \subseteq 1..Len(certs)
    BY DEF Service, ListCSR, PublishCertificate, SignInv, TypeOK, ServiceTypes
  <2> QED  BY <1>0, <2>1 DEF ServiceTypes, SignInv, TypeOK
<1>2. CertsRefer' /\ LogsGrow
  BY <1>0, LogLengths DEF SignInv, TypeOK, CertsRefer, LogsGrow
<1>3. ClusterTypes'
  BY <1>0 DEF SignInv, TypeOK, ClusterTypes, world
<1>4. WorkerTypes' /\ LocalsRefer' /\ AnswersRefer'
  BY <1>0, <1>2, WorkersStay, AnswersStay
<1> QED  BY <1>0, <1>1, <1>2, <1>3, <1>4 DEF SignInv, TypeOK

LEMMA SignInvInit ==
    Init => SignInv
<1> SUFFICES ASSUME Init PROVE SignInv
  OBVIOUS
<1>0. /\ setting \in DOMAIN Settings /\ world.specs \subseteq IssuerSpec
      /\ \E sp \in world.specs :
           issuer = [ generation |-> 1, spec |-> sp, ready |-> "Unknown", observed |-> 0 ]
      /\ token \in world.tokens /\ now = 0 /\ faults = 0
      /\ queue = {} /\ checkQueued = TRUE /\ reported = "none"
      /\ req = [ r \in Requests |-> NotMade ] /\ w = [ k \in Workers |-> Idle ]
      /\ csrs = <<>> /\ listed = {} /\ certs = <<>> /\ published = {}
  BY WorldTypes DEF Init
<1>1. NotMade \in RequestState /\ NotMade.state = "absent"
  BY DEF NotMade, RequestState, NoID
<1>2. ClusterTypes
  <2>1. issuer \in IssuerState /\ issuer.spec \in world.specs
    BY <1>0 DEF IssuerState
  <2>2. req \in [ Requests -> RequestState ]
    BY <1>0, <1>1
  <2> QED  BY <1>0, <2>1, <2>2 DEF ClusterTypes, Bool
<1>3. \A k \in Workers : w[k] = Idle
  BY <1>0
<1>4. WorkerTypes
  BY <1>0, <1>3, IdleType, KindsAreWorkers DEF WorkerTypes
<1>5. LocalsRefer
  BY <1>3, IdleType DEF LocalsRefer, LocalRefers
<1>6. ServiceTypes /\ CertsRefer
  BY <1>0 DEF ServiceTypes, CertsRefer
<1>7. AnswersRefer
  BY <1>0, <1>1 DEF AnswersRefer
<1> QED  BY <1>0, <1>2, <1>4, <1>5, <1>6, <1>7 DEF SignInv, TypeOK

LEMMA SignInvNext ==
    SignInv /\ [Next]_vars => SignInv'
<1> SUFFICES ASSUME SignInv, [Next]_vars PROVE SignInv'
  OBVIOUS
<1>1. ASSUME NEW k \in Kinds, RequestStep(k) PROVE SignInv'
  <2>1. ASSUME NEW r \in Requests, SkipRequest(k, r) \/ StartRequest(k, r) PROVE SignInv'
    BY <2>1, SkipRequestInv, StartRequestInv
  <2>2. CASE ReadSecret(k) \/ HealthCheck(k)
    BY <2>2, KindsAreWorkers, ReadSecretInv, HealthCheckInv
  <2>3. CASE SignStep(k)
    BY <2>3, ImportCSRInv, StoreFullInv, ResolveCSRIDInv, SignImportedInv, FetchCertificateInv
    DEF SignStep
  <2> QED  BY <1>1, <2>1, <2>2, <2>3, FinishRequestInv DEF RequestStep
<1>2. CASE CheckStep
  BY <1>2, KindsAreWorkers, StartCheckInv, ReadSecretInv, HealthCheckInv, FinishCheckInv DEF CheckStep
<1>3. CASE Users
  BY <1>3, CreateRequestInv, SurroundingsInv DEF Users
<1>4. CASE UNCHANGED vars
  <2>1. UNCHANGED <<setting, req, issuer, queue, checkQueued, reported, token, w, kmp, now, faults>>
    BY <1>4 DEF vars, cluster
  <2>2. ClusterTypes'
    BY <2>1 DEF SignInv, TypeOK, ClusterTypes, world
  <2>3. ServiceTypes' /\ CertsRefer' /\ WorkerTypes' /\ LocalsRefer' /\ AnswersRefer'
    BY <2>1, KmpUnchanged, WorkersStay, AnswersStay
  <2> QED  BY <2>1, <2>2, <2>3 DEF SignInv, TypeOK
<1> QED  BY <1>1, <1>2, <1>3, <1>4, ServiceInv, SurroundingsInv, CrashInv DEF Next, Wait

LEMMA SignInvHolds ==
    Spec => []SignInv
BY SignInvInit, SignInvNext, PTL DEF Spec

\* In every state each variable holds a value of its kind, and a worker that is
\* not idle has a request of its kind in hand and a spec that the issuer had
\* (Sign, Check).
THEOREM SigningTypes ==
    Spec => []TypeOK
<1>1. SignInv => TypeOK
  BY DEF SignInv
<1> QED  BY <1>1, SignInvHolds, PTL

\* Whatever requests of one name do to each other's CSRs and certificates, and
\* whatever fails, a request is only ever answered with a certificate for its own
\* key that carries the names it asked for (Signer.Sign, BuildBundle).
THEOREM AnswersMatch ==
    Spec => []IssuedForRequest
<1>1. SignInv => IssuedForRequest
  BY DEF SignInv, AnswersRefer, GoodFor, verifyRequestedNames, IssuedForRequest
<1> QED  BY <1>1, SignInvHolds, PTL

-----------------------------------------------------------------------------
(***************************************************************************)
(* The issuer controllers implement CertificateStore: the proof follows    *)
(* what a step can do to the certificates and to the answers.              *)
(***************************************************************************)

\* What a step does to the certificates and to the requests: nothing that shows,
\* a new request, one more certificate, or the answer of a request.
Quiet == LogsGrow /\ UNCHANGED <<req, certs>>

Creates ==
    /\ UNCHANGED <<csrs, certs>>
    /\ \E r \in Requests : /\ req[r].state # "issued"
                           /\ req' = [ req EXCEPT ![r].state = "pending", ![r].created = now ]

Issues ==
    /\ UNCHANGED <<req, csrs>> /\ LogsGrow /\ Len(certs') = Len(certs) + 1
    /\ certs'[Len(certs) + 1].csr \in 1..Len(csrs)

Grants ==
    /\ UNCHANGED <<csrs, certs>>
    /\ \E r \in Requests, n \in Nat :
        /\ GoodFor(r, n)
        /\ req' = [ req EXCEPT ![r].state = "issued", ![r].cert = n ]

Refuses ==
    /\ UNCHANGED <<csrs, certs>>
    /\ \E r \in Requests : req' = [ req EXCEPT ![r].state = "failed", ![r].cert = NoID ]

\* Importing a request shows nothing; signing a CSR adds a certificate for it.
LEMMA SignStepKinds ==
    ASSUME SignInv, NEW k \in Kinds, SignStep(k)
    PROVE  Quiet \/ Issues
<1>1. CASE ImportCSR(k)
  <2>1. w[k].pc = "import" /\ req' = req
    BY <1>1 DEF ImportCSR, Elsewhere, cluster
  <2>2. w[k].req \in Requests
    BY <2>1, KindsAreWorkers, LocalTypesHold DEF SignInv, TypeOK, LocalTypes
  <2>3. LogsGrow /\ UNCHANGED certs
    BY <1>1, <2>2, StoreGrows, KmpUnchanged DEF ImportCSR, kmp
  <2> QED  BY <2>1, <2>3 DEF Quiet
<1>2. CASE SignImported(k)
  <2> DEFINE sent == details(signRequest(w[k].spec, w[k].csr, Asked[w[k].req]))
  <2>1. w[k].pc = "sign" /\ req' = req /\ k \in Workers
    BY <1>2, KindsAreWorkers DEF SignImported, Elsewhere, cluster
  <2>2. w[k].csr \in 1..Len(csrs) /\ world.templates \subseteq Templates
    BY <2>1, WorldTypes DEF SignInv, TypeOK, LocalsRefer, LocalRefers
  <2>3. (UNCHANGED kmp) \/ \E t \in world.templates : Issue(w[k].csr, sent, t)
    BY <1>2, Zenon DEF SignImported
  <2>4. "ValidityDays" \in DOMAIN sent => sent.ValidityDays \in Nat
    BY <2>1, SentDays
  <2> HIDE DEF sent
  <2>5. CASE UNCHANGED kmp
    BY <2>1, <2>5, KmpUnchanged DEF Quiet, kmp
  <2>6. ASSUME NEW t \in Templates, Issue(w[k].csr, sent, t) PROVE Issues
    <3>1. /\ LogsGrow /\ UNCHANGED csrs /\ Len(certs') = Len(certs) + 1
          /\ certs'[Len(certs) + 1] =
               [ csr  |-> w[k].csr, id |-> CertifiedIdentity(csrs[w[k].csr].id, t),
                 ca   |-> "IsIntermediate" \in DOMAIN sent /\ sent.IsIntermediate = "true",
                 days |-> IF "ValidityDays" \in DOMAIN sent THEN sent.ValidityDays ELSE 0 ]
      BY <2>2, <2>4, <2>6, IssueGrows
    <3>2. certs'[Len(certs) + 1].csr = w[k].csr
      BY <3>1
    <3> QED  BY <2>1, <2>2, <3>1, <3>2 DEF Issues
  <2> QED  BY <2>2, <2>3, <2>5, <2>6
<1>3. CASE StoreFull(k) \/ ResolveCSRID(k) \/ FetchCertificate(k)
  <2>1. UNCHANGED kmp /\ req' = req
    BY <1>3 DEF StoreFull, ResolveCSRID, FetchCertificate, Elsewhere, cluster
  <2> QED  BY <2>1, KmpUnchanged DEF Quiet, kmp
<1> QED  BY <1>1, <1>2, <1>3 DEF SignStep

\* Every step is of one of the five kinds.
LEMMA StepKinds ==
    ASSUME SignInv, [Next]_vars
    PROVE  Quiet \/ Creates \/ Issues \/ Grants \/ Refuses
<1>0. ASSUME UNCHANGED <<req, kmp>> PROVE Quiet
  BY <1>0, KmpUnchanged DEF Quiet, kmp
<1>1. ASSUME NEW k \in Kinds, FinishRequest(k) PROVE Quiet \/ Grants \/ Refuses
  <2>0. k \in Workers /\ UNCHANGED kmp
    BY <1>1, KindsAreWorkers DEF FinishRequest
  <2>1. CASE UNCHANGED req
    BY <1>0, <2>0, <2>1
  <2>2. CASE /\ w[k].blame = "request" /\ w[k].result = "ok"
             /\ req' = [ req EXCEPT ![w[k].req].state = "issued", ![w[k].req].cert = w[k].cert ]
    <3>1. w[k].pc = "finish" /\ w[k].req \in Requests
      BY <1>1, FinishOutcome
    <3>2. GoodFor(w[k].req, w[k].cert)
      BY <2>0, <2>2, <3>1 DEF SignInv, LocalsRefer, LocalRefers
    <3>3. w[k].cert \in Nat
      BY <2>0 DEF SignInv, TypeOK, WorkerTypes, WorkerState
    <3> QED  BY <2>0, <2>2, <3>1, <3>2, <3>3 DEF Grants, kmp
  <2>3. CASE req' = [ req EXCEPT ![w[k].req].state = "failed", ![w[k].req].cert = NoID ]
    <3>1. w[k].req \in Requests
      BY <1>1, FinishOutcome
    <3> QED  BY <2>0, <2>3, <3>1 DEF Refuses, kmp
  <2> QED  BY <1>1, <2>1, <2>2, <2>3, FinishOutcome
<1>2. ASSUME NEW k \in Kinds, RequestStep(k), ~FinishRequest(k), ~SignStep(k)
      PROVE  Quiet
  BY <1>0, <1>2 DEF RequestStep, SkipRequest, StartRequest, Take, ReadSecret, HealthCheck,
                    Elsewhere, cluster
<1>3. ASSUME NEW r \in Requests, CreateRequest(r) PROVE Creates
  <2>1. req[r].state = "absent"
    BY <1>3 DEF CreateRequest, NotMade
  <2>2. /\ UNCHANGED <<csrs, certs>>
        /\ req' = [ req EXCEPT ![r].state = "pending", ![r].created = now ]
    BY <1>3 DEF CreateRequest, kmp
  <2> QED  BY <2>1, <2>2 DEF Creates
<1>4. CASE Service
  <2>1. UNCHANGED <<req, csrs, certs>>
    BY <1>4 DEF Service, ListCSR, PublishCertificate, cluster
  <2> QED  BY <2>1, LogLengths DEF Quiet, LogsGrow, SignInv, TypeOK
<1>5. CASE CheckStep \/ EditIssuer \/ EditSecret \/ Tick \/ Crash \/ Wait \/ UNCHANGED vars
  <2>1. UNCHANGED <<req, kmp>>
    BY <1>5 DEF CheckStep, StartCheck, ReadSecret, HealthCheck, FinishCheck, EditIssuer, EditSecret,
                Tick, Crash, Wait, vars, Elsewhere, cluster
  <2> QED  BY <1>0, <2>1
<1> QED  BY <1>1, <1>2, <1>3, <1>4, <1>5, SignStepKinds DEF Next, Users

-----------------------------------------------------------------------------
(***************************************************************************)
(* The refinement.                                                         *)
(***************************************************************************)
IssuedKeys == [ n \in 1..Len(certs) |-> csrs[certs[n].csr].key ]

Shown(r, state, cert) ==
    IF state = "issued"
    THEN [ taken |-> TRUE, owner |-> r, cert |-> cert, key |-> Asked[r].key ]
    ELSE [ taken |-> FALSE ]

Held == [ r \in Requests |-> Shown(r, req[r].state, req[r].cert) ]

\* The keys of what has been issued stay.
LEMMA KeysStay ==
    ASSUME SignInv, LogsGrow, NEW n \in 1..Len(certs)
    PROVE  csrs'[certs'[n].csr].key = csrs[certs[n].csr].key
<1>1. certs'[n] = certs[n] /\ certs[n].csr \in 1..Len(csrs)
  BY DEF LogsGrow, SignInv, CertsRefer
<1> QED  BY <1>1 DEF LogsGrow

LEMMA InitRefines == Init => Store!Init
<1> SUFFICES ASSUME Init PROVE Store!Init
  OBVIOUS
<1>1. IssuedKeys = <<>>
  BY DEF Init, IssuedKeys
<1>2. Held \in [ Requests -> {Store!Empty, Store!Prepared} ]
  <2>1. \A r \in Requests : req[r].state = "absent"
    BY DEF Init, NotMade
  <2> QED  BY <2>1 DEF Held, Shown, Store!Empty
<1> QED  BY <1>1, <1>2 DEF Store!Init, IssuedKeys, Held, Shown

\* Nothing shows in the store.
LEMMA QuietRefines ==
    ASSUME SignInv, Quiet \/ Creates
    PROVE  UNCHANGED Store!vars
<1>0. LogsGrow /\ UNCHANGED certs
  <2>1. ASSUME UNCHANGED <<csrs, certs>> PROVE LogsGrow
    BY <2>1, LogLengths DEF LogsGrow, SignInv, TypeOK
  <2> QED  BY <2>1 DEF Quiet, Creates
<1>1. IssuedKeys' = IssuedKeys
  BY <1>0, KeysStay DEF IssuedKeys
<1>2. ASSUME NEW x \in Requests
      PROVE  Shown(x, req'[x].state, req'[x].cert) = Shown(x, req[x].state, req[x].cert)
  <2>1. CASE Quiet
    BY <2>1 DEF Quiet
  <2>2. CASE Creates
    <3>1. PICK r \in Requests :
            /\ req[r].state # "issued"
            /\ req' = [ req EXCEPT ![r].state = "pending", ![r].created = now ]
      BY <2>2 DEF Creates
    <3>2. req \in [ Requests -> RequestState ]
      BY DEF SignInv, TypeOK, ClusterTypes
    <3>3. /\ req'[r].state = "pending"
          /\ x # r => req'[x] = req[x]
      BY <3>1, <3>2 DEF RequestState
    <3> QED  BY <3>1, <3>3 DEF Shown
  <2> QED  BY <2>1, <2>2
<1>3. Held' = Held
  BY <1>2 DEF Held
<1> QED  BY <1>1, <1>3 DEF Store!vars, IssuedKeys, Held, Shown

\* One more certificate is Issue: it is for the key of a stored CSR.
LEMMA IssuesRefines ==
    ASSUME SignInv, Issues
    PROVE  Store!Issue
<1> DEFINE new == Len(certs) + 1
<1>0. Len(certs) \in Nat /\ csrs \in Seq(CSRType)
  BY LogLengths DEF SignInv, TypeOK, ServiceTypes
<1>1. /\ Len(IssuedKeys) = Len(certs) /\ Len(IssuedKeys') = new
      /\ \A n \in 1..Len(certs) : /\ IssuedKeys[n] = csrs[certs[n].csr].key
                                  /\ IssuedKeys'[n] = csrs'[certs'[n].csr].key
      /\ IssuedKeys'[new] = csrs'[certs'[new].csr].key
  BY <1>0 DEF Issues, IssuedKeys
<1>2. \A n \in 1..Len(certs) : IssuedKeys'[n] = IssuedKeys[n]
  BY <1>1, KeysStay DEF Issues
<1>3. IssuedKeys'[new] \in { Asked[r].key : r \in Requests }
  <2>1. csrs[certs'[new].csr] \in CSRType
    BY <1>0 DEF Issues
  <2>2. \E r \in Requests : csrs[certs'[new].csr].key = Asked[r].key
    BY <2>1, CSRName
  <2> QED  BY <1>1, <2>2 DEF Issues
<1>4. Held' = Held
  BY DEF Issues, Held
<1>5. Store!Issue <=> /\ Len(IssuedKeys') = Len(IssuedKeys) + 1
                      /\ IssuedKeys'[Len(IssuedKeys) + 1] \in { Asked[r].key : r \in Requests }
                      /\ \A n \in 1..Len(IssuedKeys) : IssuedKeys'[n] = IssuedKeys[n]
                      /\ UNCHANGED Held
  BY DEF Store!Issue, IssuedKeys, Held, Shown
<1> QED  BY <1>1, <1>2, <1>3, <1>4, <1>5

\* An answer is Publish: the certificate exists and is for the key of the request,
\* and the place of a request is only ever its own.
LEMMA GrantsRefines ==
    ASSUME SignInv, Grants
    PROVE  \E r \in Requests : Store!Publish(r)
<1>1. PICK r \in Requests, n \in Nat :
        /\ GoodFor(r, n)
        /\ req' = [ req EXCEPT ![r].state = "issued", ![r].cert = n ]
  BY DEF Grants
<1>2. req \in [ Requests -> RequestState ] /\ Len(certs) \in Nat
  BY LogLengths DEF SignInv, TypeOK, ClusterTypes
<1>3. /\ req'[r].state = "issued" /\ req'[r].cert = n
      /\ \A x \in Requests : x # r => req'[x] = req[x]
  BY <1>1, <1>2 DEF RequestState
<1>4. /\ n \in 1..Len(IssuedKeys) /\ IssuedKeys[n] = Asked[r].key /\ UNCHANGED IssuedKeys
  BY <1>1, <1>2 DEF GoodFor, IssuedKeys, Grants
<1>5. Held' = [ Held EXCEPT ![r] = Store!Holding(r, n, IssuedKeys[n]) ]
  <2>1. ASSUME NEW x \in Requests
        PROVE  Shown(x, req'[x].state, req'[x].cert) =
                 IF x = r THEN Store!Holding(r, n, IssuedKeys[n]) ELSE Shown(x, req[x].state, req[x].cert)
    BY <1>3, <1>4 DEF Shown, Store!Holding
  <2> QED  BY <2>1 DEF Held
<1>6. Held[r].taken => Held[r].owner \in {r, Store!NoOne}
  BY DEF Held, Shown
<1>7. Store!Publish(r) <=>
        /\ \E owner \in Requests, m \in 1..Len(IssuedKeys) :
             /\ Held[r].taken => Held[r].owner \in {owner, Store!NoOne}
             /\ Held' = [ Held EXCEPT ![r] = Store!Holding(owner, m, IssuedKeys[m]) ]
        /\ UNCHANGED IssuedKeys
  BY DEF Store!Publish, Store!Free, IssuedKeys, Held, Shown
<1> QED  BY <1>4, <1>5, <1>6, <1>7

\* A refusal is GiveUp.
LEMMA RefusesRefines ==
    ASSUME SignInv, Refuses
    PROVE  \E r \in Requests : Store!GiveUp(r)
<1>1. PICK r \in Requests : req' = [ req EXCEPT ![r].state = "failed", ![r].cert = NoID ]
  BY DEF Refuses
<1>2. req \in [ Requests -> RequestState ]
  BY DEF SignInv, TypeOK, ClusterTypes
<1>3. req'[r].state = "failed" /\ \A x \in Requests : x # r => req'[x] = req[x]
  BY <1>1, <1>2 DEF RequestState
<1>4. UNCHANGED IssuedKeys
  BY DEF IssuedKeys, Refuses
<1>5. Held' = [ Held EXCEPT ![r] = Store!Empty ]
  <2>1. ASSUME NEW x \in Requests
        PROVE  Shown(x, req'[x].state, req'[x].cert) =
                 IF x = r THEN Store!Empty ELSE Shown(x, req[x].state, req[x].cert)
    BY <1>3 DEF Shown, Store!Empty
  <2> QED  BY <2>1 DEF Held
<1>6. Store!GiveUp(r) <=> Held' = [ Held EXCEPT ![r] = Store!Empty ] /\ UNCHANGED IssuedKeys
  BY DEF Store!GiveUp, IssuedKeys, Held, Shown
<1> QED  BY <1>4, <1>5, <1>6

\* For every number of requests, workers, CSRs and certificates, with lost answers,
\* lookups that find another request's CSR and restarts, the issuer controllers
\* implement the certificate store: a request is answered with a certificate that
\* has been issued, for the key the request is about, and nothing issued is ever
\* changed (Sign, SetupWithManager).
THEOREM SigningImplementsStore == Spec => ImplementsStore
<1>1. SignInv /\ [Next]_vars => [Store!Next]_(Store!vars)
  <2> SUFFICES ASSUME SignInv, [Next]_vars PROVE [Store!Next]_(Store!vars)
    OBVIOUS
  <2>1. CASE Quiet \/ Creates
    BY <2>1, QuietRefines
  <2>2. CASE Issues
    BY <2>2, IssuesRefines DEF Store!Next
  <2>3. CASE Grants
    BY <2>3, GrantsRefines DEF Store!Next
  <2>4. CASE Refuses
    BY <2>4, RefusesRefines DEF Store!Next
  <2> QED  BY <2>1, <2>2, <2>3, <2>4, StepKinds
<1> QED
  BY <1>1, InitRefines, SignInvHolds, PTL DEF Spec, ImplementsStore, Store!Spec
=============================================================================
