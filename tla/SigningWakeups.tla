--------------------------- MODULE SigningWakeups ---------------------------
(***************************************************************************)
(* No request of an issuer is forgotten: the wake-ups that issuer-lib and  *)
(* the controllers owe each other, as an inductive invariant.              *)
(***************************************************************************)
EXTENDS SigningProofs

Busy == w[Checker].pc # "idle"

InHand(r) == \E k \in Kinds : w[k].req = r

\* The error that a request reported is about to become the Ready condition.
Reporting == w[Checker].pc = "finish" /\ w[Checker].blame = "request"

\* What a worker holds: a request only while it works on it, and never an
\* IssuerError without an error.
HandsOK ==
    /\ \A k \in Kinds : w[k].pc = "idle" => w[k].req = NoRequest
    /\ \A k \in Kinds : w[k].pc = "finish" /\ w[k].blame = "issuer" => w[k].result # "ok"
    /\ Reporting => w[Checker].result # "ok"
    /\ reported # "ok"

\* A check is about a generation that the issuer has had, and is not made of an
\* issuer that failed for good.
ChecksOK ==
    /\ issuer.observed <= issuer.generation
    /\ Busy => w[Checker].generation <= issuer.generation /\ ~FailedForGood
    /\ Busy => w[Checker].generation = issuer.generation \/ checkQueued

\* Whoever relies on a check has one coming: a report, an issuer that is not
\* ready, and the requests that are not queued.
ChecksComing ==
    /\ reported # "none" => checkQueued \/ FailedForGood
    /\ ~IssuerReady => checkQueued \/ Busy \/ FailedForGood

RequestsKept ==
    \A r \in Pending :
        \/ r \in queue \/ InHand(r)
        \/ ~IssuerReady \/ reported # "none" \/ Reporting

WakeInv == HandsOK /\ ChecksOK /\ ChecksComing /\ RequestsKept

-----------------------------------------------------------------------------
(***************************************************************************)
(* The steps of Sign and Check, of which the queues see nothing.           *)
(***************************************************************************)
Advances(k) ==
    /\ Moves(k) /\ UNCHANGED cluster
    /\ w[k].pc \notin {"idle", "finish"} /\ w'[k].pc # "idle"
    /\ w'[k].req = w[k].req
    /\ k = Checker => w'[k].generation = w[k].generation
    /\ w'[k].pc = "finish" =>
         IF k = Checker THEN w'[k].blame = "issuer"
         ELSE w'[k].blame = "issuer" => w'[k].result # "ok"

\* An error ends Sign or Check.
LEMMA FailAdvances ==
    ASSUME SignInv, NEW k \in Workers, w[k].pc \notin {"idle", "finish"}, Elsewhere, NEW e,
           FailIssuer(k, e) \/ (k # Checker /\ Fail(k, e))
    PROVE  Advances(k)
<1>1. PICK blame \in {"issuer", "request"} :
        /\ Return(k, blame, permanentIfUnrecoverable(e), NoID)
        /\ k = Checker => blame = "issuer"
  BY DEF Fail, FailIssuer
<1>2. permanentIfUnrecoverable(e) \in Results /\ permanentIfUnrecoverable(e) # "ok" /\ NoID \in Nat
  BY DEF permanentIfUnrecoverable, Results, NoID
<1>3. /\ Moves(k) /\ w'[k].pc = "finish" /\ w'[k].req = w[k].req
      /\ w'[k].generation = w[k].generation /\ w'[k].blame = blame /\ w'[k].result # "ok"
  BY <1>1, <1>2, ReturnMoves DEF SignInv, TypeOK, Elsewhere
<1> QED  BY <1>1, <1>3 DEF Advances, Elsewhere

LEMMA ReadSecretAdvances ==
    ASSUME SignInv, NEW k \in Workers, ReadSecret(k)
    PROVE  Advances(k)
<1>0. w[k].pc = "secret" /\ Elsewhere
  BY DEF ReadSecret
<1>1. CASE \E e : FailIssuer(k, e)
  BY <1>0, <1>1, FailAdvances
<1>2. CASE w' = [ w EXCEPT ![k].pc = "ping", ![k].token = token ]
  <2>0. w \in [ Workers -> WorkerState ]
    BY DEF SignInv, TypeOK, WorkerTypes
  <2>1. Moves(k) /\ w'[k] = [ w[k] EXCEPT !.pc = "ping", !.token = token ]
    BY <1>2, <2>0 DEF Moves
  <2>2. w'[k].pc = "ping" /\ w'[k].req = w[k].req /\ w'[k].generation = w[k].generation
    BY <2>0, <2>1 DEF WorkerState
  <2> QED  BY <1>0, <2>1, <2>2 DEF Advances, Elsewhere
<1> QED  BY <1>1, <1>2 DEF ReadSecret

LEMMA HealthCheckAdvances ==
    ASSUME SignInv, NEW k \in Workers, HealthCheck(k)
    PROVE  Advances(k)
<1>0. w[k].pc = "ping" /\ Elsewhere
  BY DEF HealthCheck
<1>1. CASE \E e : FailIssuer(k, e)
  BY <1>0, <1>1, FailAdvances
<1>2. CASE k = Checker /\ Return(k, "issuer", "ok", NoID)
  <2>1. /\ Moves(k) /\ w'[k].pc = "finish" /\ w'[k].blame = "issuer"
        /\ w'[k].req = w[k].req /\ w'[k].generation = w[k].generation
    BY <1>0, <1>2, ReturnMoves DEF SignInv, TypeOK, Elsewhere, Results, NoID
  <2> QED  BY <1>0, <1>2, <2>1 DEF Advances, Elsewhere
<1>3. CASE Goto(k, "import")
  <2>0. w \in [ Workers -> WorkerState ]
    BY DEF SignInv, TypeOK, WorkerTypes
  <2>1. Moves(k) /\ w'[k] = [ w[k] EXCEPT !.pc = "import" ]
    BY <1>3, <2>0 DEF Moves, Goto
  <2>2. w'[k].pc = "import" /\ w'[k].req = w[k].req /\ w'[k].generation = w[k].generation
    BY <2>0, <2>1 DEF WorkerState
  <2> QED  BY <1>0, <2>1, <2>2 DEF Advances, Elsewhere
<1> QED  BY <1>1, <1>2, <1>3, Zenon DEF HealthCheck

LEMMA ImportCSRAdvances ==
    ASSUME SignInv, NEW k \in Kinds, ImportCSR(k)
    PROVE  Advances(k)
<1>0. /\ w[k].pc = "import" /\ Elsewhere /\ k \in Workers /\ k # Checker
      /\ w \in [ Workers -> WorkerState ]
  BY KindsAreWorkers DEF ImportCSR, SignInv, TypeOK, WorkerTypes
<1>1. CASE \E e : Fail(k, e)
  BY <1>0, <1>1, FailAdvances
<1>2. ASSUME NEW id, NEW name,
             w' = [ w EXCEPT ![k].pc = "resolve", ![k].csr = id, ![k].name = name ]
      PROVE  Moves(k) /\ w'[k].pc = "resolve" /\ w'[k].req = w[k].req
  <2>1. ASSUME NEW v \in WorkerState
        PROVE  LET u == [ v EXCEPT !.pc = "resolve", !.csr = id, !.name = name ]
               IN  u.pc = "resolve" /\ u.req = v.req
    BY <2>1 DEF WorkerState
  <2>2. w'[k] = [ w[k] EXCEPT !.pc = "resolve", !.csr = id, !.name = name ] /\ Moves(k)
    BY <1>0, <1>2 DEF Moves
  <2>3. w[k] \in WorkerState
    BY <1>0
  <2> QED  BY <2>1, <2>2, <2>3, Zenon
<1>3. CASE Moves(k) /\ w'[k].pc = "resolve" /\ w'[k].req = w[k].req
  BY <1>0, <1>3 DEF Advances, Elsewhere
<1> QED  BY <1>1, <1>2, <1>3, Zenon DEF ImportCSR

LEMMA ResolveCSRIDAdvances ==
    ASSUME SignInv, NEW k \in Kinds, ResolveCSRID(k)
    PROVE  Advances(k)
<1>0. /\ w[k].pc = "resolve" /\ Elsewhere /\ k \in Workers /\ k # Checker
      /\ w \in [ Workers -> WorkerState ]
  BY KindsAreWorkers DEF ResolveCSRID, SignInv, TypeOK, WorkerTypes
<1>1. CASE \E e : Fail(k, e)
  BY <1>0, <1>1, FailAdvances
<1>2. CASE Goto(k, "sign")
  <2>1. Moves(k) /\ w'[k] = [ w[k] EXCEPT !.pc = "sign" ]
    BY <1>0, <1>2 DEF Moves, Goto
  <2>2. w'[k].pc = "sign" /\ w'[k].req = w[k].req
    BY <1>0, <2>1 DEF WorkerState
  <2> QED  BY <1>0, <2>1, <2>2 DEF Advances, Elsewhere
<1>3. ASSUME NEW id, w' = [ w EXCEPT ![k].pc = "sign", ![k].csr = id ]
      PROVE  Advances(k)
  <2>1. Moves(k) /\ w'[k] = [ w[k] EXCEPT !.pc = "sign", !.csr = id ]
    BY <1>0, <1>3 DEF Moves
  <2>2. w'[k].pc = "sign" /\ w'[k].req = w[k].req
    BY <1>0, <2>1 DEF WorkerState
  <2> QED  BY <1>0, <2>1, <2>2 DEF Advances, Elsewhere
<1> QED  BY <1>1, <1>2, <1>3, Zenon DEF ResolveCSRID

LEMMA SignImportedAdvances ==
    ASSUME SignInv, NEW k \in Kinds, SignImported(k)
    PROVE  Advances(k)
<1>0. /\ w[k].pc = "sign" /\ Elsewhere /\ k \in Workers /\ k # Checker
      /\ w \in [ Workers -> WorkerState ]
  BY KindsAreWorkers DEF SignImported, SignInv, TypeOK, WorkerTypes
<1>1. CASE \E e : Fail(k, e)
  BY <1>0, <1>1, FailAdvances
<1>2. ASSUME NEW name, NEW serial,
             w' = [ w EXCEPT ![k].pc = "fetch", ![k].name = name, ![k].serial = serial ]
      PROVE  Moves(k) /\ w'[k].pc = "fetch" /\ w'[k].req = w[k].req
  <2>1. ASSUME NEW v \in WorkerState
        PROVE  LET u == [ v EXCEPT !.pc = "fetch", !.name = name, !.serial = serial ]
               IN  u.pc = "fetch" /\ u.req = v.req
    BY <2>1 DEF WorkerState
  <2>2. w'[k] = [ w[k] EXCEPT !.pc = "fetch", !.name = name, !.serial = serial ] /\ Moves(k)
    BY <1>0, <1>2 DEF Moves
  <2>3. w[k] \in WorkerState
    BY <1>0
  <2> QED  BY <2>1, <2>2, <2>3, Zenon
<1>3. CASE Moves(k) /\ w'[k].pc = "fetch" /\ w'[k].req = w[k].req
  BY <1>0, <1>3 DEF Advances, Elsewhere
<1> QED  BY <1>1, <1>2, <1>3, Zenon DEF SignImported

LEMMA FetchCertificateAdvances ==
    ASSUME SignInv, NEW k \in Kinds, FetchCertificate(k)
    PROVE  Advances(k)
<1>0. /\ w[k].pc = "fetch" /\ Elsewhere /\ k \in Workers /\ k # Checker
      /\ w \in [ Workers -> WorkerState ] /\ published \subseteq Nat
  BY KindsAreWorkers, LogLengths DEF FetchCertificate, SignInv, TypeOK, WorkerTypes, ServiceTypes
<1>1. CASE \E e : Fail(k, e)
  BY <1>0, <1>1, FailAdvances
<1>2. ASSUME NEW n \in Nat, Return(k, "request", "ok", n) PROVE Advances(k)
  <2>1. /\ Moves(k) /\ w'[k].pc = "finish" /\ w'[k].blame = "request" /\ w'[k].req = w[k].req
    BY <1>0, <1>2, ReturnMoves DEF SignInv, TypeOK, Elsewhere, Results
  <2> QED  BY <1>0, <2>1 DEF Advances, Elsewhere
<1>3. CASE w' = [ w EXCEPT ![k].polls = @ + 1 ]
  <2>1. Moves(k) /\ w'[k].pc = w[k].pc /\ w'[k].req = w[k].req
    BY <1>0, <1>3 DEF Moves, WorkerState
  <2> QED  BY <1>0, <2>1 DEF Advances, Elsewhere
<1>4. ASSUME NEW returned, returned \subseteq published, Assemble(k, returned) PROVE Advances(k)
  <2>1. \A r : leavesFor(r, returned) \subseteq Nat
    BY <1>0, <1>4 DEF leavesFor
  <2> QED  BY <1>1, <1>2, <1>4, <2>1 DEF Assemble
<1> DEFINE candidates == PublishedFor(csrs, certs, published, w[k].name, w[k].serial)
<1>5. candidates \subseteq published
  BY DEF PublishedFor
<1>6. \/ \E returned \in SUBSET candidates : Assemble(k, returned)
      \/ w' = [ w EXCEPT ![k].polls = @ + 1 ]
      \/ \E e : Fail(k, e)
  BY Zenon DEF FetchCertificate
<1> HIDE DEF candidates
<1> QED  BY <1>1, <1>3, <1>4, <1>5, <1>6

-----------------------------------------------------------------------------
(***************************************************************************)
(* Every step keeps the invariant.                                         *)
(***************************************************************************)

\* Nobody waits for anything new while Sign and Check are at work.
LEMMA AdvancesWake ==
    ASSUME SignInv, WakeInv, NEW k \in Workers, Advances(k)
    PROVE  WakeInv'
<1>0. UNCHANGED <<req, issuer, queue, checkQueued, reported>> /\ Pending' = Pending
  BY DEF Advances, cluster, Pending
<1>1. \A x \in Workers : w'[x].req = w[x].req /\ (w'[x].pc = "idle" <=> w[x].pc = "idle")
  BY DEF Advances, Moves
<1>2. (Busy' <=> Busy) /\ w'[Checker].generation = w[Checker].generation /\ (Reporting' <=> Reporting)
  <2>1. CASE k = Checker
    BY <1>1, <2>1, KindsAreWorkers DEF Advances, Busy, Reporting
  <2>2. CASE k # Checker
    BY <2>2, KindsAreWorkers DEF Advances, Moves, Busy, Reporting
  <2> QED  BY <2>1, <2>2
<1>3. \A r : InHand(r)' <=> InHand(r)
  BY <1>1, KindsAreWorkers DEF InHand
<1>4. (FailedForGood' <=> FailedForGood) /\ (IssuerReady' <=> IssuerReady)
  BY <1>0 DEF FailedForGood, IssuerReady
<1>5. HandsOK'
  <2>1. Reporting => w'[Checker].result = w[Checker].result
    BY KindsAreWorkers DEF Advances, Moves, Reporting
  <2>2. ASSUME NEW x \in Kinds, w'[x].pc = "finish", w'[x].blame = "issuer"
        PROVE  w'[x].result # "ok"
    <3>1. CASE x = k
      BY <2>2, <3>1, KindsAreWorkers DEF Advances
    <3>2. CASE x # k
      BY <2>2, <3>2, KindsAreWorkers DEF Advances, Moves, WakeInv, HandsOK
    <3> QED  BY <3>1, <3>2
  <2> QED  BY <1>0, <1>1, <1>2, <2>1, <2>2, KindsAreWorkers DEF WakeInv, HandsOK
<1>6. ChecksOK'
  BY <1>0, <1>2, <1>4 DEF WakeInv, ChecksOK
<1>7. ChecksComing'
  BY <1>0, <1>2, <1>4 DEF WakeInv, ChecksComing
<1>8. RequestsKept'
  BY <1>0, <1>2, <1>3, <1>4 DEF WakeInv, RequestsKept
<1> QED  BY <1>5, <1>6, <1>7, <1>8 DEF WakeInv

\* The issuer, its report and the worker that checks it are left alone.
IssuerStays == UNCHANGED <<issuer, checkQueued, reported>> /\ w'[Checker] = w[Checker]

LEMMA IssuerStaysWake ==
    ASSUME WakeInv, IssuerStays
    PROVE  /\ ChecksOK' /\ ChecksComing' /\ (Reporting' <=> Reporting)
           /\ (Reporting => w'[Checker].result # "ok")
           /\ (IssuerReady' <=> IssuerReady) /\ reported' # "ok"
<1>1. (FailedForGood' <=> FailedForGood) /\ (IssuerReady' <=> IssuerReady)
      /\ (Busy' <=> Busy) /\ (Reporting' <=> Reporting)
  BY DEF IssuerStays, FailedForGood, IssuerReady, Busy, Reporting
<1>2. ChecksOK'
  BY <1>1 DEF WakeInv, ChecksOK, IssuerStays
<1>3. ChecksComing'
  BY <1>1 DEF WakeInv, ChecksComing, IssuerStays
<1> QED  BY <1>1, <1>2, <1>3 DEF WakeInv, HandsOK, IssuerStays

LEMMA StillWake ==
    ASSUME WakeInv, UNCHANGED <<cluster, w>>
    PROVE  WakeInv'
<1>0. IssuerStays /\ UNCHANGED <<req, queue>> /\ Pending' = Pending
  BY DEF IssuerStays, cluster, Pending
<1>1. \A r : InHand(r)' <=> InHand(r)
  BY DEF InHand
<1>2. RequestsKept'
  BY <1>0, <1>1, IssuerStaysWake DEF WakeInv, RequestsKept, IssuerStays
<1>3. HandsOK'
  BY <1>0, IssuerStaysWake DEF WakeInv, HandsOK
<1> QED  BY <1>0, <1>2, <1>3, IssuerStaysWake DEF WakeInv

\* A request is skipped only when it is answered or the issuer is not ready.
LEMMA SkipRequestWake ==
    ASSUME WakeInv, NEW k \in Kinds, NEW r \in Requests, SkipRequest(k, r)
    PROVE  WakeInv'
<1>0. /\ IssuerStays /\ UNCHANGED <<req, w>> /\ Pending' = Pending /\ queue' = queue \ {r}
      /\ r \notin Pending \/ ~IssuerReady
  BY DEF SkipRequest, Take, IssuerStays, Pending
<1>1. \A x : InHand(x)' <=> InHand(x)
  BY <1>0 DEF InHand
<1>2. RequestsKept'
  BY <1>0, <1>1, IssuerStaysWake DEF WakeInv, RequestsKept, IssuerStays
<1>3. HandsOK'
  BY <1>0, IssuerStaysWake DEF WakeInv, HandsOK
<1> QED  BY <1>0, <1>2, <1>3, IssuerStaysWake DEF WakeInv

\* A request that leaves the queue is in hand; the worker had none.
LEMMA StartRequestWake ==
    ASSUME SignInv, WakeInv, NEW k \in Kinds, NEW r \in Requests, StartRequest(k, r)
    PROVE  WakeInv'
<1> DEFINE v == [ Idle EXCEPT !.pc = "secret", !.req = r, !.spec = issuer.spec ]
<1>0. /\ UNCHANGED <<issuer, checkQueued, reported>>
      /\ UNCHANGED req /\ Pending' = Pending /\ queue' = queue \ {r} /\ w[k].pc = "idle"
      /\ w' = [ w EXCEPT ![k] = v ]
  BY DEF StartRequest, Take, Pending
<1>1. v.pc = "secret" /\ v.req = r
  BY DEF Idle
<1> HIDE DEF v
<1>2. w'[k] = v /\ \A x \in Workers : x # k => w'[x] = w[x]
  BY <1>0, KindsAreWorkers DEF SignInv, TypeOK, WorkerTypes
<1>3. IssuerStays
  BY <1>0, <1>2, KindsAreWorkers DEF IssuerStays
<1>4. \A x \in Requests : InHand(x) => InHand(x)'
  <2>1. w[k].req = NoRequest
    BY <1>0 DEF WakeInv, HandsOK
  <2>2. ASSUME NEW x \in Requests, NEW y \in Kinds, w[y].req = x PROVE w'[y].req = x
    BY <1>2, <2>1, <2>2, RequestsAssumption, KindsAreWorkers
  <2> QED  BY <2>2 DEF InHand
<1>5. InHand(r)'
  BY <1>1, <1>2 DEF InHand
<1>6. RequestsKept'
  BY <1>0, <1>3, <1>4, <1>5, IssuerStaysWake DEF WakeInv, RequestsKept, Pending
<1>7. HandsOK'
  BY <1>1, <1>2, <1>3, IssuerStaysWake, KindsAreWorkers DEF WakeInv, HandsOK
<1> QED  BY <1>3, <1>6, <1>7, IssuerStaysWake DEF WakeInv

LEMMA CreateRequestWake ==
    ASSUME SignInv, WakeInv, NEW r \in Requests, CreateRequest(r)
    PROVE  WakeInv'
<1>0. /\ IssuerStays /\ UNCHANGED w /\ queue' = queue \cup {r}
      /\ req' = [ req EXCEPT ![r].state = "pending", ![r].created = now ]
  BY DEF CreateRequest, IssuerStays
<1>1. Pending' \subseteq Pending \cup {r}
  BY <1>0 DEF Pending, SignInv, TypeOK, ClusterTypes
<1>2. \A x : InHand(x)' <=> InHand(x)
  BY <1>0 DEF InHand
<1>3. RequestsKept'
  BY <1>0, <1>1, <1>2, IssuerStaysWake DEF WakeInv, RequestsKept, IssuerStays
<1>4. HandsOK'
  BY <1>0, IssuerStaysWake DEF WakeInv, HandsOK
<1> QED  BY <1>0, <1>3, <1>4, IssuerStaysWake DEF WakeInv

\* A new generation has not been observed, and wakes the worker that checks.
LEMMA EditIssuerWake ==
    ASSUME SignInv, WakeInv, EditIssuer
    PROVE  WakeInv'
<1>0. /\ UNCHANGED <<req, queue, reported, w>> /\ Pending' = Pending /\ checkQueued' = TRUE
      /\ \E sp : issuer' = [ issuer EXCEPT !.generation = issuer.generation + 1, !.spec = sp ]
  BY DEF EditIssuer, Pending
<1>1. issuer \in IssuerState /\ issuer.generation \in Nat /\ issuer.observed \in Nat
  BY DEF SignInv, TypeOK, ClusterTypes, IssuerState
<1>2. issuer'.generation = issuer.generation + 1 /\ issuer'.observed = issuer.observed
  BY <1>0, <1>1 DEF IssuerState
<1>3. ~IssuerReady' /\ ~FailedForGood'
  BY <1>1, <1>2 DEF IssuerReady, FailedForGood, WakeInv, ChecksOK
<1>4. HandsOK'
  BY <1>0 DEF WakeInv, HandsOK, Reporting
<1>5. ChecksOK'
  <2>1. w[Checker].generation \in Nat
    BY KindsAreWorkers DEF SignInv, TypeOK, WorkerTypes, WorkerState
  <2> QED  BY <1>0, <1>1, <1>2, <1>3, <2>1 DEF WakeInv, ChecksOK, Busy
<1>6. ChecksComing'
  BY <1>0 DEF ChecksComing
<1>7. RequestsKept'
  BY <1>3 DEF RequestsKept
<1> QED  BY <1>4, <1>5, <1>6, <1>7 DEF WakeInv

\* A restart forgets the queues, and lists everything anew.
LEMMA CrashWake ==
    ASSUME SignInv, WakeInv, Crash
    PROVE  WakeInv'
<1>0. /\ UNCHANGED <<req, issuer>> /\ Pending' = Pending /\ w' = [ k \in Workers |-> Idle ]
      /\ queue' = Pending /\ checkQueued' = TRUE /\ reported' = "none"
  BY DEF Crash, Pending
<1>1. \A k \in Workers : w'[k].pc = "idle" /\ w'[k].req = NoRequest
  BY <1>0, IdleType
<1>2. HandsOK' /\ ChecksOK'
  BY <1>0, <1>1, KindsAreWorkers DEF WakeInv, HandsOK, ChecksOK, Reporting, Busy
<1>3. ChecksComing' /\ RequestsKept'
  BY <1>0 DEF ChecksComing, RequestsKept
<1> QED  BY <1>2, <1>3 DEF WakeInv

\* The request in hand is answered, queued again, or waits for the issuer, which
\* has been told.
LEMMA FinishRequestWake ==
    ASSUME SignInv, WakeInv, NEW k \in Kinds, FinishRequest(k)
    PROVE  WakeInv'
<1> DEFINE r == w[k].req
<1>0. /\ w[k].pc = "finish" /\ r \in Requests /\ UNCHANGED issuer
      /\ w' = [ w EXCEPT ![k] = Idle ] /\ w \in [ Workers -> WorkerState ]
  BY FinishOutcome DEF FinishRequest, SignInv, TypeOK, WorkerTypes
<1>1. w'[k] = Idle /\ \A x \in Workers : x # k => w'[x] = w[x]
  BY <1>0, KindsAreWorkers
<1>2. /\ w'[Checker] = w[Checker] /\ (Busy' <=> Busy) /\ (Reporting' <=> Reporting)
      /\ (FailedForGood' <=> FailedForGood) /\ (IssuerReady' <=> IssuerReady)
  BY <1>0, <1>1, KindsAreWorkers DEF Busy, Reporting, FailedForGood, IssuerReady
<1>3. \A x \in Requests : x # r /\ InHand(x) => InHand(x)'
  BY <1>1, KindsAreWorkers DEF InHand
<1>4. queue \subseteq queue' /\ r \in Requests
  <2>1. UNCHANGED queue \/ queue' = queue \cup {r}
    BY Zenon DEF FinishRequest, Answer
  <2> QED  BY <1>0, <2>1
<1>5. Pending' \subseteq Pending
  <2>1. /\ req \in [ Requests -> RequestState ]
        /\ \/ UNCHANGED req
           \/ \E state \in {"issued", "failed"} : \E n :
                req' = [ req EXCEPT ![r].state = state, ![r].cert = n ]
    BY FinishOutcome DEF SignInv, TypeOK, ClusterTypes
  <2>2. CASE UNCHANGED req
    BY <2>2 DEF Pending
  <2>3. ASSUME NEW state \in {"issued", "failed"}, NEW n,
               req' = [ req EXCEPT ![r].state = state, ![r].cert = n ]
        PROVE  Pending' \subseteq Pending
    <3>1. req'[r].state # "pending" /\ \A x \in Requests : x # r => req'[x] = req[x]
      BY <1>0, <2>1, <2>3 DEF RequestState
    <3> QED  BY <3>1 DEF Pending
  <2> QED  BY <2>1, <2>2, <2>3
<1>6. w[k].result \in Results /\ w[k].blame \in {"issuer", "request"}
  BY <1>0, KindsAreWorkers DEF WorkerState
<1>7. \/ w[k].blame = "issuer" /\ Report(w[k].result) /\ w[k].result # "ok"
      \/ w[k].blame = "request" /\ UNCHANGED <<checkQueued, reported>>
  <2>1. IF w[k].blame = "issuer" THEN Report(w[k].result) ELSE UNCHANGED <<checkQueued, reported>>
    BY Zenon DEF FinishRequest
  <2> QED  BY <1>0, <1>6, <2>1 DEF WakeInv, HandsOK
<1>8. r \in Pending' => r \in queue' \/ reported' # "none"
  <2>1. CASE w[k].blame = "issuer"
    BY <1>6, <1>7, <2>1 DEF Report, Results
  <2>2. CASE w[k].blame = "request"
    <3>1. req \in [ Requests -> RequestState ]
      BY DEF SignInv, TypeOK, ClusterTypes
    <3>2. \/ \E state \in {"issued", "failed"} : \E n :
               req' = [ req EXCEPT ![r].state = state, ![r].cert = n ]
          \/ queue' = queue \cup {r}
      <4>1. \/ Answer(r, "issued", w[k].cert) \/ Answer(r, "failed", NoID)
            \/ queue' = queue \cup {r}
        BY <2>2, Zenon DEF FinishRequest
      <4> QED  BY <4>1 DEF Answer
    <3>3. ASSUME NEW state \in {"issued", "failed"}, NEW n,
                 req' = [ req EXCEPT ![r].state = state, ![r].cert = n ]
          PROVE  r \notin Pending'
      BY <1>0, <3>1, <3>3 DEF RequestState, Pending
    <3> QED  BY <3>2, <3>3
  <2> QED  BY <1>6, <2>1, <2>2
<1> HIDE DEF r
<1>9. checkQueued => checkQueued'
  BY <1>7 DEF Report
<1>10. HandsOK'
  <2>1. reported' # "ok"
    BY <1>7 DEF Report, WakeInv, HandsOK
  <2> QED  BY <1>1, <1>2, <2>1, IdleType, KindsAreWorkers DEF WakeInv, HandsOK
<1>11. ChecksOK'
  BY <1>0, <1>2, <1>9 DEF WakeInv, ChecksOK
<1>12. ChecksComing'
  BY <1>2, <1>7, <1>9 DEF WakeInv, ChecksComing, Report
<1>13. RequestsKept'
  <2>1. ASSUME NEW x \in Pending', x # r
        PROVE  \/ x \in queue' \/ InHand(x)' \/ ~IssuerReady' \/ reported' # "none" \/ Reporting'
    <3>1. x \in Pending /\ x \in Requests
      BY <1>5, <2>1 DEF Pending
    <3>2. reported # "none" => reported' # "none"
      BY <1>6, <1>7 DEF Report, Results
    <3> QED  BY <1>2, <1>3, <1>4, <2>1, <3>1, <3>2 DEF WakeInv, RequestsKept
  <2> QED  BY <1>8, <2>1 DEF RequestsKept
<1> QED  BY <1>10, <1>11, <1>12, <1>13 DEF WakeInv

\* A report that is taken up is about to become the Ready condition; a check of an
\* issuer that failed for good is dropped.
LEMMA StartCheckWake ==
    ASSUME SignInv, WakeInv, StartCheck
    PROVE  WakeInv'
<1> DEFINE held == [ Idle EXCEPT !.generation = issuer.generation ]
           v == [ held EXCEPT !.pc = "secret", !.spec = issuer.spec ]
           u == [ held EXCEPT !.pc = "finish", !.blame = "request", !.result = reported ]
<1>0. /\ UNCHANGED <<req, issuer, queue>> /\ Pending' = Pending /\ ~Busy
      /\ (FailedForGood' <=> FailedForGood) /\ (IssuerReady' <=> IssuerReady)
      /\ w \in [ Workers -> WorkerState ] /\ issuer.generation \in Nat
  BY DEF StartCheck, Pending, Busy, FailedForGood, IssuerReady, SignInv, TypeOK, WorkerTypes,
         ClusterTypes, IssuerState
<1>1. CASE FailedForGood /\ UNCHANGED <<w, reported>>
  <2>1. \A x : InHand(x)' <=> InHand(x)
    BY <1>1 DEF InHand
  <2>2. ~Reporting /\ ~Reporting'
    BY <1>0, <1>1 DEF Busy, Reporting
  <2>3. HandsOK' /\ ChecksOK' /\ ChecksComing'
    BY <1>0, <1>1, <2>2 DEF WakeInv, HandsOK, ChecksOK, ChecksComing, Busy
  <2>4. RequestsKept'
    BY <1>0, <1>1, <2>1, <2>2 DEF WakeInv, RequestsKept
  <2> QED  BY <2>3, <2>4 DEF WakeInv
<1>2. ASSUME NEW x \in WorkerState, w' = [ w EXCEPT ![Checker] = x ], ~FailedForGood,
             x.generation = issuer.generation, reported' = "none", x.pc # "idle",
             IF reported = "none" THEN x.pc = "secret"
             ELSE x.pc = "finish" /\ x.blame = "request" /\ x.result = reported
      PROVE  WakeInv'
  <2>1. w'[Checker] = x /\ \A k \in Kinds : w'[k] = w[k]
    BY <1>0, <1>2, KindsAreWorkers
  <2>2. \A r : InHand(r)' <=> InHand(r)
    BY <2>1 DEF InHand
  <2>3. Busy' /\ (Reporting' <=> reported # "none")
    BY <1>2, <2>1 DEF Busy, Reporting
  <2>4. HandsOK'
    BY <1>2, <2>1, <2>3 DEF WakeInv, HandsOK
  <2>5. ChecksOK' /\ ChecksComing'
    BY <1>0, <1>2, <2>1, <2>3 DEF WakeInv, ChecksOK, ChecksComing
  <2>6. RequestsKept'
    BY <1>0, <2>2, <2>3 DEF WakeInv, RequestsKept, Reporting, Busy
  <2> QED  BY <2>4, <2>5, <2>6 DEF WakeInv
<1>3. held \in WorkerState /\ held.generation = issuer.generation
  BY <1>0, IdleType DEF WorkerState
<1>4. issuer.spec \in IssuerSpec /\ reported \in Results \cup {"none"}
  BY WorldTypes DEF SignInv, TypeOK, ClusterTypes
<1>5. CASE ~FailedForGood /\ reported = "none" /\ w' = [ w EXCEPT ![Checker] = v ] /\ UNCHANGED reported
  <2>1. v \in WorkerState /\ v.pc = "secret" /\ v.generation = issuer.generation
    BY <1>3, <1>4 DEF WorkerState, Steps
  <2> HIDE DEF v
  <2> QED  BY <1>2, <1>5, <2>1
<1>6. CASE ~FailedForGood /\ reported # "none" /\ reported' = "none" /\ w' = [ w EXCEPT ![Checker] = u ]
  <2>1. /\ u \in WorkerState /\ u.pc = "finish" /\ u.generation = issuer.generation
        /\ u.blame = "request" /\ u.result = reported
    BY <1>3, <1>4, <1>6 DEF WorkerState, Steps
  <2> HIDE DEF u
  <2> QED  BY <1>2, <1>6, <2>1
<1> QED  BY <1>1, <1>5, <1>6, Zenon DEF StartCheck

\* The Ready condition wakes the requests when it changes; what was not observed
\* has been queued, and a check that is to be repeated is.
LEMMA FinishCheckWake ==
    ASSUME SignInv, WakeInv, FinishCheck
    PROVE  WakeInv'
<1> DEFINE result == w[Checker].result
<1>0. /\ UNCHANGED req /\ Pending' = Pending /\ Checker \in Workers
      /\ w' = [ w EXCEPT ![Checker] = Idle ] /\ w[Checker].pc = "finish"
      /\ w \in [ Workers -> WorkerState ]
  BY KindsAreWorkers DEF FinishCheck, Pending, SignInv, TypeOK, WorkerTypes
<1>1. w'[Checker] = Idle /\ \A k \in Kinds : w'[k] = w[k]
  BY <1>0, KindsAreWorkers
<1>2. /\ \A r : InHand(r)' <=> InHand(r)
      /\ Busy /\ ~Busy' /\ ~Reporting' /\ (Reporting <=> w[Checker].blame = "request")
  BY <1>0, <1>1, IdleType DEF InHand, Busy, Reporting
<1>3. /\ result \in Results /\ w[Checker].generation \in Nat /\ w[Checker] \in WorkerState
      /\ issuer \in IssuerState /\ issuer.generation \in Nat /\ issuer.observed \in Nat
  BY <1>0 DEF WorkerState, SignInv, TypeOK, ClusterTypes, IssuerState
<1>4. /\ w[Checker].generation <= issuer.generation /\ ~FailedForGood
      /\ w[Checker].generation = issuer.generation \/ checkQueued
      /\ reported # "none" => checkQueued
  BY <1>2 DEF WakeInv, ChecksOK, ChecksComing
<1>h. ASSUME reported' # "ok" PROVE HandsOK'
  BY <1>h, <1>1, <1>2 DEF WakeInv, HandsOK
<1>5. CASE /\ issuer' = [ issuer EXCEPT !.ready = Condition(result), !.observed = w[Checker].generation ]
           /\ queue' = IF \/ w[Checker].generation # issuer.observed
                          \/ (Condition(result) = "True") # (issuer.ready = "True")
                       THEN queue \cup Pending ELSE queue
           /\ checkQueued' = (checkQueued \/ checkAgain(result)) /\ UNCHANGED reported
  <2>1. /\ issuer'.ready = Condition(result) /\ issuer'.observed = w[Checker].generation
        /\ issuer'.generation = issuer.generation
    BY <1>3, <1>5 DEF IssuerState
  <2>2. /\ result = "ok" <=> Condition(result) = "True"
        /\ result = "permanent" <=> Condition(result) = "Failed"
    BY <1>3 DEF Condition, Results
  <2>3. ChecksOK'
    BY <1>2, <1>4, <2>1 DEF ChecksOK
  <2>4. checkQueued => checkQueued'
    BY <1>5
  <2>5. result = "retry" => checkQueued'
    BY <1>5 DEF checkAgain
  <2>6. ~IssuerReady' => checkQueued' \/ FailedForGood'
    BY <1>3, <1>4, <2>1, <2>2, <2>4, <2>5 DEF IssuerReady, FailedForGood, Results
  <2>7. ChecksComing'
    BY <1>4, <1>5, <2>4, <2>6 DEF ChecksComing
  <2>8. RequestsKept'
    <3>1. CASE \/ w[Checker].generation # issuer.observed
               \/ (Condition(result) = "True") # (issuer.ready = "True")
      <4>1. queue' = queue \cup Pending
        BY <1>5, <3>1, Zenon
      <4> QED  BY <1>0, <4>1 DEF RequestsKept
    <3>2. CASE /\ w[Checker].generation = issuer.observed
               /\ Condition(result) = "True" <=> issuer.ready = "True"
      <4>1. IssuerReady' <=> IssuerReady
        BY <2>1, <3>2 DEF IssuerReady
      <4>2. queue' = queue \/ queue' = queue \cup Pending
        BY <1>5, Zenon
      <4>3. Reporting => ~IssuerReady'
        BY <2>1, <2>2 DEF IssuerReady, WakeInv, HandsOK
      <4> QED  BY <1>0, <1>2, <1>5, <4>1, <4>2, <4>3 DEF WakeInv, RequestsKept
    <3> QED  BY <3>1, <3>2, Zenon
  <2>9. HandsOK'
    BY <1>5, <1>h DEF WakeInv, HandsOK
  <2> QED  BY <2>3, <2>7, <2>8, <2>9 DEF WakeInv
<1>6. CASE /\ checkQueued' = TRUE /\ UNCHANGED <<issuer, queue>>
           /\ reported' = IF w[Checker].blame = "request" THEN result ELSE reported
  <2>1. (FailedForGood' <=> FailedForGood) /\ (IssuerReady' <=> IssuerReady)
    BY <1>6 DEF FailedForGood, IssuerReady
  <2>2. ChecksOK' /\ ChecksComing'
    BY <1>2, <1>6 DEF WakeInv, ChecksOK, ChecksComing
  <2>3. /\ reported' # "ok" /\ (Reporting => reported' # "none")
        /\ (~Reporting => reported' = reported)
    BY <1>2, <1>3, <1>6 DEF WakeInv, HandsOK, Results
  <2>4. RequestsKept'
    BY <1>0, <1>2, <1>6, <2>1, <2>3 DEF WakeInv, RequestsKept
  <2> QED  BY <1>h, <2>2, <2>3, <2>4 DEF WakeInv
<1>7. \/ /\ issuer' = [ issuer EXCEPT !.ready = Condition(result), !.observed = w[Checker].generation ]
         /\ queue' = IF \/ w[Checker].generation # issuer.observed
                        \/ (Condition(result) = "True") # (issuer.ready = "True")
                     THEN queue \cup Pending ELSE queue
         /\ checkQueued' = (checkQueued \/ checkAgain(result)) /\ UNCHANGED reported
      \/ /\ checkQueued' = TRUE /\ UNCHANGED <<issuer, queue>>
         /\ reported' = IF w[Checker].blame = "request" THEN result ELSE reported
  <2>1. [ issuer EXCEPT !.ready = Condition(result), !.observed = w[Checker].generation ].observed
          = w[Checker].generation
    BY <1>3 DEF IssuerState
  <2>2. [ issuer EXCEPT !.ready = Condition(result), !.observed = w[Checker].generation ].ready
          = Condition(result)
    BY <1>3 DEF IssuerState
  <2> QED  BY <2>1, <2>2, Zenon DEF FinishCheck
<1> QED  BY <1>5, <1>6, <1>7

-----------------------------------------------------------------------------
LEMMA WakeInvInit == Init => WakeInv
<1> SUFFICES ASSUME Init PROVE WakeInv
  OBVIOUS
<1>0. /\ w = [ k \in Workers |-> Idle ] /\ checkQueued /\ reported = "none"
      /\ req = [ r \in Requests |-> NotMade ] /\ issuer.generation = 1 /\ issuer.observed = 0
  BY DEF Init
<1>1. \A k \in Workers : w[k].pc = "idle" /\ w[k].req = NoRequest
  BY <1>0, IdleType
<1>2. Pending = {}
  BY <1>0 DEF Pending, NotMade
<1>3. HandsOK /\ ChecksOK
  BY <1>0, <1>1, KindsAreWorkers DEF HandsOK, ChecksOK, Reporting, Busy
<1>4. ChecksComing /\ RequestsKept
  BY <1>0, <1>2 DEF ChecksComing, RequestsKept
<1> QED  BY <1>3, <1>4 DEF WakeInv

LEMMA WakeInvNext == SignInv /\ WakeInv /\ [Next]_vars => WakeInv'
<1> SUFFICES ASSUME SignInv, WakeInv, [Next]_vars PROVE WakeInv'
  OBVIOUS
<1>1. ASSUME NEW k \in Workers, ReadSecret(k) \/ HealthCheck(k) PROVE WakeInv'
  BY <1>1, ReadSecretAdvances, HealthCheckAdvances, AdvancesWake
<1>2. ASSUME NEW k \in Kinds, SignStep(k) PROVE WakeInv'
  <2>1. CASE StoreFull(k)
    <3>1. w[k].pc = "import" /\ Elsewhere /\ \E e : Fail(k, e)
      BY <2>1 DEF StoreFull
    <3> QED  BY <3>1, FailAdvances, AdvancesWake, KindsAreWorkers
  <2>2. CASE ~StoreFull(k)
    BY <1>2, <2>2, ImportCSRAdvances, ResolveCSRIDAdvances, SignImportedAdvances,
       FetchCertificateAdvances, AdvancesWake, KindsAreWorkers DEF SignStep
  <2> QED  BY <2>1, <2>2
<1>3. ASSUME NEW k \in Kinds, RequestStep(k) PROVE WakeInv'
  BY <1>1, <1>2, <1>3, SkipRequestWake, StartRequestWake, FinishRequestWake, KindsAreWorkers
  DEF RequestStep
<1>4. CASE CheckStep
  BY <1>1, <1>4, StartCheckWake, FinishCheckWake, KindsAreWorkers DEF CheckStep
<1>5. CASE Service \/ EditSecret \/ Tick \/ UNCHANGED vars
  BY <1>5, StillWake DEF Service, ListCSR, PublishCertificate, EditSecret, Tick, vars
<1>6. CASE Users
  BY <1>5, <1>6, CreateRequestWake, EditIssuerWake DEF Users
<1> QED  BY <1>3, <1>4, <1>5, <1>6, CrashWake DEF Next, Wait

\* No wake-up is lost, for every number of requests and issuer edits, with failed
\* status patches, errors reported by requests and restarts: a request that is
\* neither queued nor in hand waits for an issuer that is about to be checked or
\* has failed for good (SetupWithManager, Sign, Check).
THEOREM NoRequestLost == Spec => []NoLostRequest
<1>1. WakeInv => NoLostRequest
  BY DEF WakeInv, ChecksComing, RequestsKept, NoLostRequest, InHand, Busy, Reporting
<1> QED
  BY <1>1, SignInvHolds, WakeInvInit, WakeInvNext, PTL DEF Spec
=============================================================================
