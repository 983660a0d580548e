-------------------------- MODULE SigningOutcomes --------------------------
(***************************************************************************)
(* What comes of a request where Key Manager Plus identifies what it       *)
(* stores and signs: the certificate is what was asked for, what fails     *)
(* only for a while only delays it, and no CSR is signed twice.            *)
(***************************************************************************)
EXTENDS SigningProofs, ClientProofs

AsAsked(r, n) ==
    /\ n \in 1..Len(certs)
    /\ certs[n].ca => Asked[r].isCA \/ Pinned("true")
    /\ \/ PinnedDays(certs[n].days)
       \/ LeftToTemplate(certs[n].days)
       \/ 24 * certs[n].days >= Asked[r].hours /\ 24 * (certs[n].days - 1) < Asked[r].hours

\* The CSR that a worker has in hand is the one it imported, the certificate that
\* it waits for the one it had signed.
AskLocal(v) ==
    /\ v.pc \in {"resolve", "sign", "fetch"} =>
         v.csr \in 1..Len(csrs) /\ csrs[v.csr].req = v.req
    /\ v.pc = "fetch" => certs[v.serial].csr = v.csr /\ AsAsked(v.req, v.serial)
    /\ v.pc = "finish" /\ v.blame = "request" /\ v.result = "ok" => AsAsked(v.req, v.cert)

AskInv ==
    Identifies =>
        /\ \A k \in Kinds : AskLocal(w[k])
        /\ \A r \in Requests : req[r].state = "issued" => AsAsked(r, req[r].cert)

\* Under OnlyOutages: no error is permanent, only a good token is used, and
\* certificates say what their CSRs say.
OutageLocal(v) ==
    /\ v.pc = "finish" => v.result # "permanent"
    /\ v.pc = "ping" => v.token = "good"

CertsSayCSRs == \A n \in 1..Len(certs) : certs[n].id = csrs[certs[n].csr].id

OutageInv ==
    OnlyOutages =>
        /\ (\A k \in Workers : OutageLocal(w[k])) /\ CertsSayCSRs
        /\ issuer.ready # "Failed" /\ reported # "permanent"
        /\ \A r \in Requests : req[r].state = "failed" => Expired(r)

-----------------------------------------------------------------------------
(***************************************************************************)
(* Signed as asked.                                                        *)
(***************************************************************************)

\* A certificate stays what was asked for.
LEMMA AsAskedStays ==
    ASSUME ServiceTypes, LogsGrow, UNCHANGED setting, NEW r, NEW n, AsAsked(r, n)
    PROVE  AsAsked(r, n)'
<1>1. n \in 1..Len(certs)
  BY DEF AsAsked
<1>2. certs'[n] = certs[n] /\ n \in 1..Len(certs')
  BY <1>1, LogLengths DEF LogsGrow
<1> QED  BY <1>2 DEF AsAsked, Pinned, PinnedDays, LeftToTemplate, world

\* The locals of the workers that do not move keep referring to what they did.
LEMMA AskLocalStays ==
    ASSUME SignInv, LogsGrow, UNCHANGED setting, NEW v, AskLocal(v)
    PROVE  AskLocal(v)'
<1>0. ServiceTypes /\ Len(csrs) \in Nat /\ Len(certs) \in Nat
  BY LogLengths DEF SignInv, TypeOK
<1>1. \A r, n : AsAsked(r, n) => AsAsked(r, n)'
  BY <1>0, AsAskedStays
<1>2. v.pc \in {"resolve", "sign", "fetch"} => v.csr \in 1..Len(csrs') /\ csrs'[v.csr].req = v.req
  BY <1>0 DEF AskLocal, LogsGrow
<1>3. v.pc = "fetch" => certs'[v.serial] = certs[v.serial]
  BY DEF AskLocal, AsAsked, LogsGrow
<1> QED  BY <1>1, <1>2, <1>3 DEF AskLocal

\* A step of one worker that leaves the requests alone.
LEMMA AskFrame ==
    ASSUME SignInv, AskInv, NEW k \in Workers, Moves(k), LogsGrow, UNCHANGED <<setting, req>>,
           k \in Kinds /\ Identifies => AskLocal(w[k])'
    PROVE  AskInv'
<1> SUFFICES ASSUME Identifies
             PROVE  /\ \A x \in Kinds : AskLocal(w[x])'
                    /\ \A r \in Requests : req'[r].state = "issued" => AsAsked(r, req[r].cert)'
  BY DEF AskInv, Identifies, world
<1>1. ASSUME NEW x \in Kinds PROVE AskLocal(w[x])'
  <2>1. CASE x = k
    BY <2>1
  <2>2. CASE x # k
    <3>1. w'[x] = w[x] /\ AskLocal(w[x])
      BY <2>2, KindsAreWorkers DEF Moves, AskInv
    <3>2. \A v : AskLocal(v) => AskLocal(v)'
      BY AskLocalStays
    <3> QED  BY <3>1, <3>2 DEF AskLocal
  <2> QED  BY <2>1, <2>2
<1>2. ASSUME NEW r \in Requests, req'[r].state = "issued" PROVE AsAsked(r, req[r].cert)'
  <2>1. ServiceTypes /\ AsAsked(r, req[r].cert) /\ req' = req
    BY <1>2 DEF AskInv, SignInv, TypeOK
  <2>2. \A n : AsAsked(r, n) => AsAsked(r, n)'
    BY <2>1, AsAskedStays
  <2> QED  BY <2>1, <2>2 DEF AsAsked
<1> QED  BY <1>1, <1>2

\* A step that moves no worker, or makes one idle.
LEMMA AskStill ==
    ASSUME SignInv, AskInv, LogsGrow, UNCHANGED setting,
           \A k \in Kinds : w'[k] = w[k] \/ w'[k].pc \in {"idle", "secret"},
           \A r \in Requests : req'[r].state = "issued" => req'[r] = req[r]
    PROVE  AskInv'
<1> SUFFICES ASSUME Identifies
             PROVE  /\ \A x \in Kinds : AskLocal(w[x])'
                    /\ \A r \in Requests : req'[r].state = "issued" => AsAsked(r, req[r].cert)'
  BY DEF AskInv, Identifies, world
<1>1. ASSUME NEW x \in Kinds PROVE AskLocal(w[x])'
  <2>1. CASE w'[x].pc \in {"idle", "secret"}
    BY <2>1 DEF AskLocal
  <2>2. CASE w'[x] = w[x]
    <3>1. AskLocal(w[x])
      BY DEF AskInv
    <3>2. \A v : AskLocal(v) => AskLocal(v)'
      BY AskLocalStays
    <3> QED  BY <2>2, <3>1, <3>2 DEF AskLocal
  <2> QED  BY <2>1, <2>2
<1>2. ASSUME NEW r \in Requests, req'[r].state = "issued" PROVE AsAsked(r, req[r].cert)'
  <2>1. ServiceTypes /\ AsAsked(r, req[r].cert) /\ req'[r] = req[r]
    BY <1>2 DEF AskInv, SignInv, TypeOK
  <2>2. \A n : AsAsked(r, n) => AsAsked(r, n)'
    BY <2>1, AsAskedStays
  <2> QED  BY <2>1, <2>2 DEF AsAsked
<1> QED  BY <1>1, <1>2

\* An error ends Sign.
LEMMA FailAsk ==
    ASSUME SignInv, AskInv, NEW k \in Workers, w[k].pc # "idle", Elsewhere, LogsGrow, NEW e,
           Fail(k, e) \/ FailIssuer(k, e)
    PROVE  AskInv'
<1>1. PICK blame \in {"issuer", "request"} :
        Return(k, blame, permanentIfUnrecoverable(e), NoID)
  BY DEF Fail, FailIssuer
<1>2. permanentIfUnrecoverable(e) \in Results /\ permanentIfUnrecoverable(e) # "ok" /\ NoID \in Nat
  BY DEF permanentIfUnrecoverable, Results, NoID
<1>3. Moves(k) /\ w'[k].pc = "finish" /\ w'[k].result # "ok"
  BY <1>1, <1>2, ReturnMoves DEF SignInv, TypeOK, Elsewhere
<1>4. AskLocal(w[k])' /\ UNCHANGED <<setting, req>>
  BY <1>3 DEF AskLocal, Elsewhere, cluster
<1> QED  BY <1>3, <1>4, AskFrame

\* Before the import nothing is in hand.
LEMMA StartAsk ==
    ASSUME SignInv, AskInv, NEW k \in Workers, ReadSecret(k) \/ HealthCheck(k)
    PROVE  AskInv'
<1>0. /\ w[k].pc \in {"secret", "ping"} /\ Elsewhere /\ UNCHANGED <<setting, req>> /\ LogsGrow
      /\ w \in [ Workers -> WorkerState ]
  BY KmpUnchanged DEF ReadSecret, HealthCheck, Elsewhere, cluster, SignInv, TypeOK, WorkerTypes
<1>1. CASE \E e : FailIssuer(k, e)
  BY <1>0, <1>1, FailAsk
<1>2. CASE k = Checker /\ Return(k, "issuer", "ok", NoID)
  <2>1. Moves(k) /\ k \notin Kinds
    BY <1>0, <1>2, ReturnMoves, KindsAreWorkers DEF SignInv, TypeOK, Results, NoID
  <2> QED  BY <1>0, <2>1, AskFrame
<1>3. CASE Goto(k, "import")
  <2>1. Moves(k) /\ w'[k].pc = "import"
    BY <1>0, <1>3 DEF Moves, Goto, WorkerState
  <2> QED  BY <1>0, <2>1, AskFrame DEF AskLocal
<1>4. CASE w' = [ w EXCEPT ![k].pc = "ping", ![k].token = token ]
  <2>1. Moves(k) /\ w'[k].pc = "ping"
    BY <1>0, <1>4 DEF Moves, WorkerState
  <2> QED  BY <1>0, <2>1, AskFrame DEF AskLocal
<1> QED  BY <1>1, <1>2, <1>3, <1>4, Zenon DEF ReadSecret, HealthCheck

\* The id that importCSR reports is the one of the CSR it stored.
LEMMA ImportAsk ==
    ASSUME SignInv, AskInv, NEW k \in Kinds, ImportCSR(k)
    PROVE  AskInv'
<1>0. /\ w[k].pc = "import" /\ Elsewhere /\ UNCHANGED <<setting, req>> /\ k \in Workers /\ k # Checker
      /\ w \in [ Workers -> WorkerState ] /\ Len(csrs) \in Nat
  BY KindsAreWorkers, LogLengths
  DEF ImportCSR, Elsewhere, cluster, SignInv, TypeOK, WorkerTypes
<1>a. w[k].req \in Requests
  BY <1>0, LocalTypesHold DEF SignInv, TypeOK, LocalTypes
<1>b. LogsGrow
  BY <1>a, StoreGrows, KmpUnchanged DEF ImportCSR
<1>1. CASE \E e : Fail(k, e)
  BY <1>0, <1>b, <1>1, FailAsk
<1>2. ASSUME NEW id, Identifies => id = Len(csrs) + 1, id \in {Len(csrs) + 1, NoID},
             NEW name, name \in {csrCommonName(w[k].req), ""}, StoreCSR(w[k].req),
             w' = [ w EXCEPT ![k].pc = "resolve", ![k].csr = id, ![k].name = name ]
      PROVE  AskInv'
  <2>0. /\ StoreCSR(w[k].req) /\ id \in {Len(csrs) + 1, NoID}
        /\ name \in {csrCommonName(w[k].req), ""} /\ (Identifies => id = Len(csrs) + 1)
    BY <1>2, Zenon
  <2>1. name \in Names
    BY <2>0, <1>a DEF Names
  <2>2. id \in Nat
    <3>1. id = Len(csrs) + 1 \/ id = 0
      BY <2>0 DEF NoID
    <3> QED  BY <1>0, <3>1
  <2>3. /\ Moves(k) /\ w'[k].pc = "resolve" /\ w'[k].csr = id /\ w'[k].req = w[k].req
    BY <1>0, <1>2, <2>1, <2>2, AfterImport, Zenon
  <2>4. ASSUME Identifies PROVE AskLocal(w[k])'
    <3> DEFINE r == w[k].req
               c == [ id  |-> [ Asked[r].id EXCEPT !.cn = csrCommonName(r) ],
                      key |-> Asked[r].key, req |-> r ]
    <3>a. Len(csrs') = Len(csrs) + 1 /\ csrs'[Len(csrs) + 1] = c
      BY <1>a, <2>0, StoreGrows
    <3>b. c.req = r
      OBVIOUS
    <3> HIDE DEF c
    <3>1. csrs'[Len(csrs) + 1].req = w[k].req
      BY <3>a, <3>b
    <3>c. w'[k].csr = Len(csrs) + 1
      BY <2>0, <2>3, <2>4
    <3>2. w'[k].csr \in 1..Len(csrs') /\ csrs'[w'[k].csr].req = w'[k].req
      BY <1>0, <2>3, <3>a, <3>1, <3>c
    <3> QED  BY <2>3, <3>2 DEF AskLocal
  <2> QED  BY <1>0, <1>b, <2>3, <2>4, AskFrame
<1>3. ASSUME NEW id, id = (IF world.reportsID THEN Len(csrs) + 1 ELSE NoID)
      PROVE  id \in {Len(csrs) + 1, NoID} /\ (Identifies => id = Len(csrs) + 1)
  BY <1>3 DEF Identifies
<1> QED  BY <1>1, <1>2, <1>3, Zenon DEF ImportCSR

\* With the id of the CSR in hand nothing is looked up.
LEMMA ResolveAsk ==
    ASSUME SignInv, AskInv, NEW k \in Kinds, ResolveCSRID(k)
    PROVE  AskInv'
<1>0. /\ w[k].pc = "resolve" /\ Elsewhere /\ UNCHANGED <<setting, req>> /\ k \in Workers
      /\ w \in [ Workers -> WorkerState ] /\ LogsGrow /\ UNCHANGED kmp
  BY KindsAreWorkers, KmpUnchanged
  DEF ResolveCSRID, Elsewhere, cluster, SignInv, TypeOK, WorkerTypes
<1>1. CASE \E e : Fail(k, e)
  BY <1>0, <1>1, FailAsk
<1>2. CASE Goto(k, "sign")
  <2>1. Moves(k) /\ w'[k] = [ w[k] EXCEPT !.pc = "sign" ]
    BY <1>0, <1>2 DEF Moves, Goto
  <2>2. w'[k].pc = "sign" /\ w'[k].req = w[k].req /\ w'[k].csr = w[k].csr
    BY <1>0, <2>1 DEF WorkerState
  <2>3. Identifies => AskLocal(w[k])'
    BY <1>0, <2>2 DEF AskInv, AskLocal, kmp
  <2> QED  BY <1>0, <2>1, <2>3, AskFrame
<1>3. ASSUME NEW id, w[k].csr = NoID, w' = [ w EXCEPT ![k].pc = "sign", ![k].csr = id ]
      PROVE  AskInv'
  <2>1. ~Identifies
    <3>1. Identifies => w[k].csr \in 1..Len(csrs)
      BY <1>0 DEF AskInv, AskLocal
    <3> QED  BY <1>3, <3>1 DEF NoID
  <2>2. Moves(k)
    BY <1>0, <1>3 DEF Moves
  <2> QED  BY <1>0, <2>1, <2>2, AskFrame
<1> QED  BY <1>1, <1>2, <1>3, Zenon DEF ResolveCSRID

\* A validity is left out only where a template decides or no duration was asked
\* for, and is never sent as none (signRequest, details).
LEMMA SentOrLeft ==
    ASSUME NEW o \in IssuerSpec, NEW csr, NEW asked, asked.hours \in Nat
    PROVE  LET sent == details(signRequest(o, csr, asked))
           IN  /\ "ValidityDays" \in DOMAIN sent => sent.ValidityDays # 0
               /\ "ValidityDays" \notin DOMAIN sent =>
                    signType(o) # "signWithRoot" \/ asked.hours = 0
<1> DEFINE r == signRequest(o, csr, asked)
<1>1. r.SignType = signType(o)
  BY DEF signRequest
<1>2. signType(o) = "signWithRoot" /\ asked.hours > 0 => r.ValidityDays # 0
  <2>1. asked.hours > 0 => validityDays(asked.hours) # 0
    BY ValidityCovers
  <2> QED  BY <2>1 DEF signRequest
<1> HIDE DEF r
<1>3. DOMAIN details(r) = RequiredFields(r.SignType) \cup OptionalFields(r)
  BY DEF details
<1>4. "ValidityDays" \notin RequiredFields(r.SignType)
  BY DEF RequiredFields
<1>5. "ValidityDays" \in OptionalFields(r) <=> r.SignType = "signWithRoot" /\ r.ValidityDays # 0
  BY DEF OptionalFields
<1>6. "ValidityDays" \in DOMAIN details(r) => details(r).ValidityDays = r.ValidityDays
  BY DEF details
<1> QED  BY <1>1, <1>2, <1>3, <1>4, <1>5, <1>6 DEF r

\* What is signed for a request is what it asks for, or what the issuer pins.
LEMMA SignedForAsked ==
    ASSUME SignInv, NEW k \in Kinds, w[k].pc = "sign", NEW t \in Templates,
           Issue(w[k].csr, details(signRequest(w[k].spec, w[k].csr, Asked[w[k].req])), t),
           UNCHANGED setting, NEW r, r = w[k].req, NEW new, new = Len(certs) + 1
    PROVE  /\ LogsGrow /\ UNCHANGED csrs /\ Len(certs') = new /\ new \in 1..Len(certs')
           /\ certs'[new].csr = w[k].csr
           /\ certs'[new].id = CertifiedIdentity(csrs[w[k].csr].id, t)
           /\ AsAsked(r, new)'
<1> DEFINE o == w[k].spec
           asked == Asked[r]
           sent == details(signRequest(o, w[k].csr, asked))
           ca == "IsIntermediate" \in DOMAIN sent /\ sent.IsIntermediate = "true"
           days == IF "ValidityDays" \in DOMAIN sent THEN sent.ValidityDays ELSE 0
<1>0. /\ o \in IssuerSpec /\ o \in world.specs /\ w[k].req \in Requests
      /\ w[k].csr \in 1..Len(csrs) /\ Len(certs) \in Nat
  BY KindsAreWorkers, LocalTypesHold, WorldTypes, LogLengths
  DEF SignInv, TypeOK, LocalTypes, LocalsRefer, LocalRefers
<1>1. asked.hours \in Nat /\ asked.isCA \in Bool
  BY <1>0, RequestsAssumption
<1>2. "ValidityDays" \in DOMAIN sent => sent.ValidityDays \in Nat
  BY SentDays
<1>3. /\ "ValidityDays" \in DOMAIN sent =>
           \/ sent.ValidityDays = o.ValidityDays
           \/ asked.hours > 0 /\ sent.ValidityDays = validityDays(asked.hours)
      /\ ca => o.IsIntermediate = "true" \/ asked.isCA
  BY <1>0, <1>1, SentAsAsked
<1>4. /\ LogsGrow /\ UNCHANGED csrs /\ Len(certs') = new
      /\ certs'[new] = [ csr |-> w[k].csr, id |-> CertifiedIdentity(csrs[w[k].csr].id, t),
                         ca |-> ca, days |-> days ]
  BY <1>0, <1>2, IssueGrows
<1>5. \/ days = 0 /\ (signType(o) # "signWithRoot" \/ asked.hours = 0)
      \/ days # 0 /\ days = o.ValidityDays
      \/ asked.hours > 0 /\ days = validityDays(asked.hours)
  BY <1>0, <1>1, <1>3, SentOrLeft
<1> HIDE DEF sent, ca, days, asked
<1>6. /\ certs'[new].csr = w[k].csr /\ certs'[new].id = CertifiedIdentity(csrs[w[k].csr].id, t)
      /\ certs'[new].ca = ca /\ certs'[new].days = days
  BY <1>4
<1>7. certs'[new].ca => asked.isCA \/ Pinned("true")
  BY <1>0, <1>3, <1>6 DEF Pinned
<1>8. \/ PinnedDays(days) \/ LeftToTemplate(days)
      \/ 24 * days >= asked.hours /\ 24 * (days - 1) < asked.hours
  <2>1. /\ days # 0 /\ days = o.ValidityDays => PinnedDays(days)
        /\ days = 0 /\ signType(o) # "signWithRoot" => LeftToTemplate(days)
    BY <1>0 DEF PinnedDays, LeftToTemplate
  <2>2. ASSUME asked.hours > 0, days = validityDays(asked.hours)
        PROVE  24 * days >= asked.hours /\ 24 * (days - 1) < asked.hours
    BY <1>1, <2>2, ValidityCovers
  <2>3. days = 0 /\ asked.hours = 0 => 24 * days >= asked.hours /\ 24 * (days - 1) < asked.hours
    OBVIOUS
  <2> QED  BY <1>5, <2>1, <2>2, <2>3
<1>9. /\ certs'[new].ca => asked.isCA \/ \E sp \in world.specs : sp.IsIntermediate = "true"
      /\ \/ certs'[new].days # 0 /\ \E sp \in world.specs : sp.ValidityDays = certs'[new].days
         \/ certs'[new].days = 0 /\ \E sp \in world.specs : signType(sp) # "signWithRoot"
         \/ 24 * certs'[new].days >= asked.hours /\ 24 * (certs'[new].days - 1) < asked.hours
  BY <1>6, <1>7, <1>8 DEF Pinned, PinnedDays, LeftToTemplate
<1>10. new \in 1..Len(certs')
  BY <1>0, <1>4
<1>11. AsAsked(r, new)'
  BY <1>9, <1>10 DEF AsAsked, Pinned, PinnedDays, LeftToTemplate, world, asked
<1> QED  BY <1>4, <1>6, <1>10, <1>11

\* What a signing leaves in hand: the names it can be fetched by are names, and
\* the serial number is the one of the certificate that was issued.
LEMMA SignAsk ==
    ASSUME SignInv, AskInv, NEW k \in Kinds, SignImported(k)
    PROVE  AskInv'
<1> DEFINE sent == details(signRequest(w[k].spec, w[k].csr, Asked[w[k].req]))
<1>0. /\ w[k].pc = "sign" /\ Elsewhere /\ UNCHANGED <<setting, req>> /\ k \in Workers
      /\ w \in [ Workers -> WorkerState ] /\ Len(certs) \in Nat /\ csrs \in Seq(CSRType)
      /\ world.templates \subseteq Templates
  BY KindsAreWorkers, LogLengths, WorldTypes
  DEF SignImported, Elsewhere, cluster, SignInv, TypeOK, WorkerTypes, ServiceTypes
<1>a. w[k].req \in Requests /\ w[k].csr \in 1..Len(csrs)
  BY <1>0, LocalTypesHold DEF SignInv, TypeOK, LocalTypes, LocalsRefer, LocalRefers
<1>b. ASSUME NEW t \in Templates, Issue(w[k].csr, sent, t) PROVE LogsGrow
  BY <1>0, <1>b, SignedForAsked
<1> HIDE DEF sent
<1>c. LogsGrow
  <2>1. ASSUME UNCHANGED kmp PROVE LogsGrow
    BY <2>1, KmpUnchanged
  <2> QED  BY <1>0, <1>b, <2>1, Zenon DEF SignImported, sent
<1>1. CASE \E e : Fail(k, e)
  BY <1>0, <1>c, <1>1, FailAsk
<1>2. ASSUME NEW name, name \in {csrs[w[k].csr].id.cn, w[k].name, Asked[w[k].req].id.cn},
             NEW serial, serial \in {Len(certs) + 1, NoID}, Identifies => serial = Len(certs) + 1,
             NEW t \in Templates, Issue(w[k].csr, sent, t),
             w' = [ w EXCEPT ![k].pc = "fetch", ![k].name = name, ![k].serial = serial ]
      PROVE  AskInv'
  <2>0. /\ name \in {csrs[w[k].csr].id.cn, w[k].name, Asked[w[k].req].id.cn}
        /\ serial \in {Len(certs) + 1, NoID} /\ (Identifies => serial = Len(certs) + 1)
        /\ Issue(w[k].csr, sent, t)
    BY <1>2, Zenon
  <2>1. name \in Names
    <3>1. csrs[w[k].csr] \in CSRType
      BY <1>0, <1>a
    <3>2. csrs[w[k].csr].id.cn \in Names
      BY <3>1, CSRName, Zenon
    <3>3. w[k].name \in Names
      BY <1>0 DEF WorkerState
    <3>4. Asked[w[k].req].id.cn \in Names
      BY <1>a DEF Names
    <3> QED  BY <2>0, <3>2, <3>3, <3>4
  <2>2. serial \in Nat
    <3>1. serial = Len(certs) + 1 \/ serial = 0
      BY <2>0 DEF NoID
    <3> QED  BY <1>0, <3>1
  <2>3. /\ Moves(k) /\ w'[k].pc = "fetch" /\ w'[k].serial = serial
        /\ w'[k].csr = w[k].csr /\ w'[k].req = w[k].req
    <3>1. w' = [ w EXCEPT ![k].pc = "fetch", ![k].name = name, ![k].serial = serial ]
      BY <1>2, Zenon
    <3>2. w \in [ Workers -> WorkerState ] /\ k \in Workers
      BY <1>0
    <3>3. /\ w'[k] = [ w[k] EXCEPT !.pc = "fetch", !.name = name, !.serial = serial ]
          /\ Moves(k)
      BY <3>1, <3>2 DEF Moves
    <3>4. w[k] \in WorkerState
      BY <3>2
    <3> QED  BY <3>3, <3>4 DEF WorkerState
  <2>4. ASSUME Identifies PROVE AskLocal(w[k])'
    <3>1. serial = Len(certs) + 1
      BY <2>0, <2>4
    <3>2. ASSUME NEW r, r = w[k].req
          PROVE  UNCHANGED csrs /\ certs'[serial].csr = w[k].csr /\ AsAsked(r, serial)'
      BY <1>0, <2>0, <3>1, <3>2, SignedForAsked DEF sent
    <3>3. w[k].csr \in 1..Len(csrs) /\ csrs[w[k].csr].req = w[k].req
      BY <1>0, <2>4 DEF AskInv, AskLocal
    <3>4. AsAsked(w[k].req, w[k].serial)'
      BY <2>3, <3>2 DEF AsAsked
    <3> QED  BY <2>3, <3>2, <3>3, <3>4 DEF AskLocal
  <2> QED  BY <1>0, <1>c, <2>3, <2>4, AskFrame
<1> DEFINE number  == IF world.reportsSerial THEN Len(certs) + 1 ELSE NoID
           subject == IF world.reportsName THEN csrs[w[k].csr].id.cn
                      ELSE IF w[k].name # "" THEN w[k].name ELSE Asked[w[k].req].id.cn
<1>3. number \in {Len(certs) + 1, NoID} /\ (Identifies => number = Len(certs) + 1)
  BY DEF Identifies
<1>4. subject \in {csrs[w[k].csr].id.cn, w[k].name, Asked[w[k].req].id.cn}
  BY Zenon
<1>5. PICK t \in world.templates :
        \/ \E e : Fail(k, e)
        \/ /\ Issue(w[k].csr, sent, t)
           /\ w' = [ w EXCEPT ![k].pc = "fetch", ![k].name = subject, ![k].serial = number ]
  BY Zenon DEF SignImported, sent
<1> HIDE DEF number, subject
<1>6. t \in Templates
  BY <1>0
<1> QED  BY <1>1, <1>2, <1>3, <1>4, <1>5, <1>6, Zenon

\* Fetching by serial number can only find the certificate that was signed.
LEMMA FetchAsk ==
    ASSUME SignInv, AskInv, NEW k \in Kinds, FetchCertificate(k)
    PROVE  AskInv'
<1> DEFINE candidates == PublishedFor(csrs, certs, published, w[k].name, w[k].serial)
<1>0. /\ w[k].pc = "fetch" /\ Elsewhere /\ UNCHANGED <<setting, req>> /\ k \in Workers
      /\ w \in [ Workers -> WorkerState ] /\ LogsGrow /\ UNCHANGED kmp
      /\ published \subseteq Nat
  BY KindsAreWorkers, KmpUnchanged, LogLengths
  DEF FetchCertificate, Elsewhere, cluster, SignInv, TypeOK, WorkerTypes, ServiceTypes
<1>a. candidates \subseteq published /\ (Identifies => candidates \subseteq {w[k].serial})
  <2>1. ASSUME Identifies PROVE w[k].serial # NoID
    <3>1. w[k].serial \in 1..Len(certs)
      BY <1>0, <2>1 DEF AskInv, AskLocal, AsAsked
    <3> QED  BY <3>1 DEF NoID
  <2> QED  BY <2>1 DEF PublishedFor
<1> HIDE DEF candidates
<1>1. CASE \E e : Fail(k, e)
  BY <1>0, <1>1, FailAsk
<1>2. ASSUME NEW n \in candidates, Return(k, "request", "ok", n) PROVE AskInv'
  <2>1. n \in Nat /\ (Identifies => n = w[k].serial)
    BY <1>0, <1>a, <1>2
  <2>2. Moves(k) /\ w'[k].pc = "finish" /\ w'[k].req = w[k].req /\ w'[k].cert = n
    BY <1>0, <1>2, <2>1, ReturnMoves DEF SignInv, TypeOK, Elsewhere, Results
  <2>3. ASSUME Identifies PROVE AskLocal(w[k])'
    <3>1. AsAsked(w[k].req, w[k].serial) /\ UNCHANGED certs
      BY <1>0, <2>3 DEF AskInv, AskLocal, kmp
    <3>2. AsAsked(w[k].req, w[k].cert)'
      BY <1>0, <2>1, <2>2, <2>3, <3>1 DEF AsAsked, Pinned, PinnedDays, LeftToTemplate, world
    <3> QED  BY <2>2, <3>2 DEF AskLocal
  <2> QED  BY <1>0, <2>2, <2>3, AskFrame
<1>3. CASE w' = [ w EXCEPT ![k].polls = @ + 1 ]
  <2>1. /\ Moves(k) /\ w'[k].pc = "fetch" /\ w'[k].req = w[k].req /\ w'[k].csr = w[k].csr
        /\ w'[k].serial = w[k].serial
    BY <1>0, <1>3 DEF Moves, WorkerState
  <2>2. ASSUME Identifies PROVE AskLocal(w[k])'
    <3>1. AskLocal(w[k]) /\ UNCHANGED <<csrs, certs>>
      BY <1>0, <2>2 DEF AskInv, kmp
    <3>2. AsAsked(w[k].req, w[k].serial)'
      BY <1>0, <2>1, <3>1 DEF AskLocal, AsAsked, Pinned, PinnedDays, LeftToTemplate, world
    <3> QED  BY <1>0, <2>1, <3>1, <3>2 DEF AskLocal
  <2> QED  BY <1>0, <2>1, <2>2, AskFrame
<1>4. ASSUME NEW returned, returned \subseteq candidates, Assemble(k, returned) PROVE AskInv'
  <2>1. \A r : leavesFor(r, returned) \subseteq candidates
    BY <1>4 DEF leavesFor
  <2> QED  BY <1>1, <1>2, <1>4, <2>1 DEF Assemble
<1>5. \/ \E returned \in SUBSET candidates : Assemble(k, returned)
      \/ w' = [ w EXCEPT ![k].polls = @ + 1 ]
      \/ \E e : Fail(k, e)
  BY Zenon DEF FetchCertificate, candidates
<1> QED  BY <1>1, <1>3, <1>4, <1>5

\* The answer of a request is what its worker had in hand.
LEMMA FinishAsk ==
    ASSUME SignInv, AskInv, NEW k \in Kinds, FinishRequest(k)
    PROVE  AskInv'
<1>0. /\ w[k].pc = "finish" /\ w[k].req \in Requests /\ k \in Workers
      /\ w' = [ w EXCEPT ![k] = Idle ] /\ UNCHANGED <<setting, kmp>>
      /\ w \in [ Workers -> WorkerState ] /\ req \in [ Requests -> RequestState ]
  BY FinishOutcome, KindsAreWorkers
  DEF FinishRequest, SignInv, TypeOK, WorkerTypes, ClusterTypes
<1>1. Moves(k) /\ w'[k] = Idle /\ LogsGrow /\ \A x \in Kinds : w'[x] = w[x] \/ w'[x].pc = "idle"
  BY <1>0, IdleType, KindsAreWorkers, KmpUnchanged DEF Moves
<1>2. CASE UNCHANGED req
  BY <1>0, <1>1, <1>2, AskStill
<1>3. CASE req' = [ req EXCEPT ![w[k].req].state = "failed", ![w[k].req].cert = NoID ]
  <2>1. \A r \in Requests : req'[r].state = "issued" => req'[r] = req[r]
    BY <1>0, <1>3 DEF RequestState
  <2> QED  BY <1>0, <1>1, <2>1, AskStill
<1>4. CASE /\ w[k].blame = "request" /\ w[k].result = "ok"
           /\ req' = [ req EXCEPT ![w[k].req].state = "issued", ![w[k].req].cert = w[k].cert ]
  <2> SUFFICES ASSUME Identifies PROVE AskInv'
    BY <1>0 DEF AskInv, Identifies, world
  <2>1. /\ req'[w[k].req].cert = w[k].cert
        /\ \A r \in Requests : r # w[k].req => req'[r] = req[r]
    BY <1>0, <1>4 DEF RequestState
  <2>2. AsAsked(w[k].req, w[k].cert)
    BY <1>0, <1>4 DEF AskInv, AskLocal
  <2>3. ASSUME NEW r \in Requests, req'[r].state = "issued" PROVE AsAsked(r, req'[r].cert)
    BY <2>1, <2>2, <2>3 DEF AskInv
  <2>4. \A r, n : AsAsked(r, n) => AsAsked(r, n)'
    BY <1>0, <1>1, AsAskedStays DEF SignInv, TypeOK
  <2>5. \A r \in Requests : req'[r].state = "issued" => AsAsked(r, req[r].cert)'
    BY <2>3, <2>4 DEF AsAsked
  <2>6. ASSUME NEW x \in Kinds PROVE AskLocal(w[x])'
    <3>1. CASE w'[x].pc = "idle"
      BY <3>1 DEF AskLocal
    <3>2. CASE w'[x] = w[x]
      <4>1. AskLocal(w[x]) /\ \A v : AskLocal(v) => AskLocal(v)'
        BY <1>0, <1>1, AskLocalStays DEF AskInv
      <4> QED  BY <3>2, <4>1 DEF AskLocal
    <3> QED  BY <1>1, <3>1, <3>2
  <2> QED  BY <2>5, <2>6 DEF AskInv
<1> QED  BY <1>2, <1>3, <1>4, FinishOutcome

LEMMA AskInvInit == Init => AskInv
<1> SUFFICES ASSUME Init PROVE AskInv
  OBVIOUS
<1>1. w = [ k \in Workers |-> Idle ] /\ req = [ r \in Requests |-> NotMade ]
  BY DEF Init
<1>2. \A k \in Kinds : w[k].pc = "idle"
  BY <1>1, IdleType, KindsAreWorkers
<1>3. \A r \in Requests : req[r].state = "absent"
  BY <1>1 DEF NotMade
<1> QED  BY <1>2, <1>3 DEF AskInv, AskLocal

LEMMA AskInvNext == SignInv /\ AskInv /\ [Next]_vars => AskInv'
<1> SUFFICES ASSUME SignInv, AskInv, [Next]_vars PROVE AskInv'
  OBVIOUS
<1>0. req \in [ Requests -> RequestState ] /\ w \in [ Workers -> WorkerState ]
  BY DEF SignInv, TypeOK, ClusterTypes, WorkerTypes
<1>1. ASSUME NEW k \in Kinds, SignStep(k) PROVE AskInv'
  <2>1. CASE StoreFull(k)
    <3>1. w[k].pc = "import" /\ Elsewhere /\ LogsGrow /\ \E e : Fail(k, e)
      BY <2>1, KmpUnchanged DEF StoreFull
    <3> QED  BY <3>1, FailAsk, KindsAreWorkers
  <2>2. CASE ~StoreFull(k)
    BY <1>1, <2>2, ImportAsk, ResolveAsk, SignAsk, FetchAsk DEF SignStep
  <2> QED  BY <2>1, <2>2
<1>2. ASSUME NEW k \in Kinds, NEW r \in Requests, SkipRequest(k, r) \/ StartRequest(k, r)
      PROVE  AskInv'
  <2>1. UNCHANGED <<setting, req, kmp>>
    BY <1>2 DEF SkipRequest, StartRequest, Take
  <2>2. \A x \in Kinds : w'[x] = w[x] \/ w'[x].pc \in {"idle", "secret"}
    <3>1. CASE SkipRequest(k, r)
      BY <3>1 DEF SkipRequest
    <3>2. CASE StartRequest(k, r)
      <4> DEFINE v == [ Idle EXCEPT !.pc = "secret", !.req = r, !.spec = issuer.spec ]
      <4>1. w' = [ w EXCEPT ![k] = v ]
        BY <3>2 DEF StartRequest
      <4>2. v.pc = "secret"
        BY DEF Idle
      <4> HIDE DEF v
      <4> QED  BY <1>0, <4>1, <4>2, KindsAreWorkers
    <3> QED  BY <1>2, <3>1, <3>2
  <2> QED  BY <2>1, <2>2, KmpUnchanged, AskStill
<1>3. ASSUME NEW k \in Kinds, RequestStep(k) PROVE AskInv'
  BY <1>1, <1>2, <1>3, StartAsk, FinishAsk, KindsAreWorkers DEF RequestStep
<1>4. CASE CheckStep
  <2>1. CASE StartCheck \/ FinishCheck
    <3>1. UNCHANGED <<setting, req, kmp>> /\ (UNCHANGED w \/ \E v : w' = [ w EXCEPT ![Checker] = v ])
      BY <2>1 DEF StartCheck, FinishCheck
    <3>2. \A x \in Kinds : w'[x] = w[x]
      BY <1>0, <3>1, KindsAreWorkers
    <3> QED  BY <3>1, <3>2, KmpUnchanged, AskStill
  <2> QED  BY <1>4, <2>1, StartAsk, KindsAreWorkers DEF CheckStep
<1>5. ASSUME NEW r \in Requests, CreateRequest(r) PROVE AskInv'
  <2>1. /\ UNCHANGED <<setting, w, kmp>>
        /\ req' = [ req EXCEPT ![r].state = "pending", ![r].created = now ]
    BY <1>5 DEF CreateRequest
  <2>2. \A x \in Requests : req'[x].state = "issued" => req'[x] = req[x]
    BY <1>0, <2>1 DEF RequestState
  <2> QED  BY <2>1, <2>2, KmpUnchanged, AskStill
<1>6. CASE Service
  <2>1. UNCHANGED <<setting, req, w, csrs, certs>>
    BY <1>6 DEF Service, ListCSR, PublishCertificate, cluster
  <2>2. LogsGrow
    BY <2>1, LogLengths DEF LogsGrow, SignInv, TypeOK
  <2> QED  BY <2>1, <2>2, AskStill
<1>7. CASE Crash
  <2>1. UNCHANGED <<setting, req, kmp>> /\ \A k \in Kinds : w'[k].pc = "idle"
    BY <1>7, IdleType, KindsAreWorkers DEF Crash
  <2> QED  BY <2>1, KmpUnchanged, AskStill
<1>8. CASE EditIssuer \/ EditSecret \/ Tick \/ Wait \/ UNCHANGED vars
  <2>1. UNCHANGED <<setting, req, w, kmp>>
    BY <1>8 DEF EditIssuer, EditSecret, Tick, Wait, vars, cluster
  <2> QED  BY <2>1, KmpUnchanged, AskStill
<1> QED  BY <1>3, <1>4, <1>5, <1>6, <1>7, <1>8 DEF Next, Users

LEMMA AskInvHolds == Spec => []AskInv
BY SignInvHolds, AskInvInit, AskInvNext, PTL DEF Spec

\* Where Key Manager Plus identifies what it stores and signs, every answer is
\* what was asked for: a CA certificate only where the request or the issuer asks
\* for one, and a validity that is pinned, left to the CA, or covers the duration
\* that was asked for and not a day more (signRequest, details, Sign).
THEOREM AnswersAsAsked == Spec => []SignedAsAsked
<1>1. AskInv => SignedAsAsked
  BY DEF AskInv, AsAsked, SignedAsAsked
<1> QED  BY <1>1, AskInvHolds, PTL

-----------------------------------------------------------------------------
(***************************************************************************)
(* Outages only delay.                                                     *)
(***************************************************************************)

\* Every answer of such a world is a success or an outage, and the errors that
\* the operations make of it are transient.
LEMMA OutageReplies ==
    ASSUME SignInv, OnlyOutages, NEW r \in world.replies
    PROVE  /\ r \in Answers /\ (r = Success \/ Outage(r))
           /\ \A e \in {call(r), SignCSR(r), GetCertificate(r)} : e # Nil => ~IsPermanent(e)
           /\ r # Success => Ping(r) # Nil /\ ~IsPermanent(Ping(r))
<1>1. r \in Answers /\ (r = Success \/ Outage(r))
  BY WorldTypes DEF SignInv, TypeOK, OnlyOutages
<1>2. CASE r = Success
  BY <1>1, <1>2, SuccessOps
<1>3. CASE Outage(r)
  <2>1. ASSUME NEW e \in {call(r), SignCSR(r), GetCertificate(r), Ping(r)}
        PROVE  e # Nil /\ ~IsPermanent(e)
    BY <1>1, <1>3, OutageOps DEF Transient
  <2> QED  BY <1>1, <2>1
<1> QED  BY <1>1, <1>2, <1>3

\* So is the one of a fetch that finds nothing yet.
LEMMA OutageNothing ==
    ASSUME SignInv, OnlyOutages, NEW r \in world.replies,
           NEW q, q = [ r EXCEPT !.payload = "none" ]
    PROVE  GetCertificate(q) # Nil /\ ~IsPermanent(GetCertificate(q))
<1>1. r \in Answers /\ (r = Success \/ Outage(r))
  BY OutageReplies
<1>2. CASE r = Success
  BY <1>2, NothingYet, ErrorNotNil DEF Transient
<1>3. CASE Outage(r)
  <2>1. q \in Answers /\ q.net = r.net /\ q.code = r.code
    BY <1>1 DEF Answers, AnswersOf
  <2>2. Outage(q)
    BY <1>3, <2>1 DEF Outage
  <2> QED  BY <2>1, <2>2, OutageOps DEF Transient
<1> QED  BY <1>1, <1>2, <1>3

\* The probe accepts that its certificate does not exist.
LEMMA ProbeAccepted == Ping(ProbeAnswer) = Nil
<1> DEFINE r == ProbeAnswer
<1>1. /\ r.net = "answered" /\ r.code = 200 /\ r.json = "json" /\ r.status = "other"
      /\ r.message = "none" /\ r.payload = "none"
  BY DEF ProbeAnswer, Success
<1> HIDE DEF r
<1>2. do(r) = Nil /\ is2xx(r.code) /\ ~succeeded(r) /\ ~hintsAtAuth(r)
  BY <1>1 DEF do, is2xx, succeeded, hintsAtAuth
<1>3. call(r) = rejected(r)
  BY <1>1, <1>2, Zenon DEF call
<1>4. ASSUME NEW e, e = rejected(r)
      PROVE  e # Nil /\ e.kind = "api" /\ e.StatusCode = 200 /\ e.APIStatus /\ ~e.authHint
  <2>1. e.kind = "api" /\ e.StatusCode = 200
    BY <1>1, <1>4 DEF rejected, APIError
  <2>2. (e.APIStatus <=> (r.status # "none")) /\ (e.authHint <=> hintsAtAuth(r))
    BY <1>4, Zenon DEF rejected, APIError
  <2> QED  BY <1>1, <1>2, <2>1, <2>2, ErrorNotNil
<1>5. GetCertificate(r) = rejected(r)
  BY <1>3, <1>4, Zenon DEF GetCertificate
<1>6. ASSUME NEW e, e = GetCertificate(r)
      PROVE  e # Nil /\ ~IsAuthFailure(e) /\ is2xx(e.StatusCode) /\ e.APIStatus
  BY <1>4, <1>5, <1>6 DEF IsAuthFailure, is2xx
<1>7. Ping(r) = Nil
  BY <1>6, Zenon DEF Ping
<1> QED  BY <1>7 DEF r

\* Certificates stay what their CSRs say while none is issued.
LEMMA CertsStillSay ==
    ASSUME SignInv, CertsSayCSRs, LogsGrow, UNCHANGED certs
    PROVE  CertsSayCSRs'
BY LogLengths DEF SignInv, TypeOK, CertsSayCSRs, LogsGrow, CertsRefer

\* A step of one worker that answers nothing.
LEMMA OutageFrame ==
    ASSUME OutageInv, NEW k \in Workers, Moves(k),
           UNCHANGED <<setting, req, issuer, reported, now>>,
           OnlyOutages => OutageLocal(w[k])' /\ CertsSayCSRs'
    PROVE  OutageInv'
<1> SUFFICES ASSUME OnlyOutages PROVE OutageInv'
  BY DEF OutageInv, OnlyOutages, Identifies, world
<1>1. ASSUME NEW x \in Workers PROVE OutageLocal(w[x])'
  BY DEF OutageInv, Moves, OutageLocal
<1>2. \A r \in Requests : req'[r].state = "failed" => Expired(r)'
  BY DEF OutageInv, Expired
<1> QED  BY <1>1, <1>2 DEF OutageInv

\* An error that is not permanent ends Sign or Check.
LEMMA OutageFail ==
    ASSUME SignInv, OutageInv, NEW k \in Workers, w[k].pc # "idle", Elsewhere, NEW e,
           Fail(k, e) \/ FailIssuer(k, e),
           OnlyOutages => ~IsPermanent(e) /\ CertsSayCSRs'
    PROVE  OutageInv'
<1>1. PICK blame \in {"issuer", "request"} :
        Return(k, blame, permanentIfUnrecoverable(e), NoID)
  BY DEF Fail, FailIssuer
<1>2. permanentIfUnrecoverable(e) \in Results /\ NoID \in Nat
  BY DEF permanentIfUnrecoverable, Results, NoID
<1>3. Moves(k) /\ w'[k].pc = "finish" /\ w'[k].result = permanentIfUnrecoverable(e)
  BY <1>1, <1>2, ReturnMoves DEF SignInv, TypeOK, Elsewhere
<1>4. OnlyOutages => OutageLocal(w[k])'
  BY <1>3 DEF OutageLocal, permanentIfUnrecoverable
<1>5. UNCHANGED <<setting, req, issuer, reported, now>>
  BY DEF Elsewhere, cluster
<1> QED  BY <1>3, <1>4, <1>5, OutageFrame

LEMMA ReadSecretOutage ==
    ASSUME SignInv, OutageInv, NEW k \in Workers, ReadSecret(k)
    PROVE  OutageInv'
<1>0. /\ w[k].pc = "secret" /\ Elsewhere /\ UNCHANGED <<setting, req, issuer, reported, now>>
      /\ LogsGrow /\ UNCHANGED certs /\ w \in [ Workers -> WorkerState ]
  BY KmpUnchanged DEF ReadSecret, Elsewhere, cluster, kmp, SignInv, TypeOK, WorkerTypes
<1>1. OnlyOutages => CertsSayCSRs'
  BY <1>0, CertsStillSay DEF OutageInv
<1>2. OnlyOutages => /\ token \in {"missing", "good"}
                     /\ signerFromIssuerAndSecretData(w[k].spec, "good") = Nil
  <2>1. token \in world.tokens /\ w[k].spec \in world.specs
    BY <1>0 DEF SignInv, TypeOK, ClusterTypes, WorkerTypes
  <2> QED  BY <2>1 DEF OnlyOutages
<1>3. CASE FailIssuer(k, OtherError)
  BY <1>0, <1>1, <1>3, NotPermanent, OutageFail
<1>4. ASSUME NEW e, e = signerFromIssuerAndSecretData(w[k].spec, token), token # "missing", e # Nil,
             FailIssuer(k, e)
      PROVE  OutageInv'
  <2>1. ~OnlyOutages
    BY <1>2, <1>4
  <2> QED  BY <1>0, <1>4, <2>1, OutageFail
<1>5. CASE token # "missing" /\ w' = [ w EXCEPT ![k].pc = "ping", ![k].token = token ]
  <2>1. Moves(k) /\ w'[k].pc = "ping" /\ w'[k].token = token
    BY <1>0, <1>5 DEF Moves, WorkerState
  <2>2. OnlyOutages => OutageLocal(w[k])'
    BY <1>2, <1>5, <2>1 DEF OutageLocal
  <2> QED  BY <1>0, <1>1, <2>1, <2>2, OutageFrame
<1> QED  BY <1>3, <1>4, <1>5, Zenon DEF ReadSecret

LEMMA HealthCheckOutage ==
    ASSUME SignInv, OutageInv, NEW k \in Workers, HealthCheck(k)
    PROVE  OutageInv'
<1>0. /\ w[k].pc = "ping" /\ Elsewhere /\ UNCHANGED <<setting, req, issuer, reported, now>>
      /\ LogsGrow /\ UNCHANGED certs /\ w \in [ Workers -> WorkerState ]
  BY KmpUnchanged DEF HealthCheck, Elsewhere, cluster, kmp, SignInv, TypeOK, WorkerTypes
<1>1. OnlyOutages => CertsSayCSRs'
  BY <1>0, CertsStillSay DEF OutageInv
<1>2. OnlyOutages => w[k].token # "rejected"
  BY <1>0 DEF OutageInv, OutageLocal
<1>3. ASSUME NEW r \in world.replies, NEW e, e # Nil,
             e = Ping(IF r # Success THEN r
                      ELSE IF w[k].token = "rejected" THEN TokenAnswer ELSE ProbeAnswer),
             FailIssuer(k, e)
      PROVE  OutageInv'
  <2>1. OnlyOutages => ~IsPermanent(e)
    <3> SUFFICES ASSUME OnlyOutages PROVE ~IsPermanent(e)
      OBVIOUS
    <3>1. CASE r # Success
      BY <1>3, <3>1, OutageReplies
    <3>2. CASE r = Success
      BY <1>2, <1>3, <3>2, ProbeAccepted
    <3> QED  BY <3>1, <3>2
  <2> QED  BY <1>0, <1>1, <1>3, <2>1, OutageFail
<1>4. CASE Return(k, "issuer", "ok", NoID)
  <2>1. Moves(k) /\ w'[k].pc = "finish" /\ w'[k].result = "ok"
    BY <1>0, <1>4, ReturnMoves DEF SignInv, TypeOK, Results, NoID
  <2> QED  BY <1>0, <1>1, <2>1, OutageFrame DEF OutageLocal
<1>5. CASE Goto(k, "import")
  <2>1. Moves(k) /\ w'[k].pc = "import"
    BY <1>0, <1>5 DEF Moves, Goto, WorkerState
  <2> QED  BY <1>0, <1>1, <2>1, OutageFrame DEF OutageLocal
<1> QED  BY <1>3, <1>4, <1>5, Zenon DEF HealthCheck

LEMMA ImportOutage ==
    ASSUME SignInv, OutageInv, NEW k \in Kinds, ImportCSR(k) \/ StoreFull(k)
    PROVE  OutageInv'
<1>0. /\ w[k].pc = "import" /\ Elsewhere /\ UNCHANGED <<setting, req, issuer, reported, now>>
      /\ k \in Workers /\ w \in [ Workers -> WorkerState ] /\ w[k].req \in Requests
  BY KindsAreWorkers, LocalTypesHold
  DEF ImportCSR, StoreFull, Elsewhere, cluster, SignInv, TypeOK, WorkerTypes, LocalTypes
<1>1. LogsGrow /\ UNCHANGED certs
  <2>1. CASE UNCHANGED kmp
    BY <2>1, KmpUnchanged DEF kmp
  <2>2. CASE StoreCSR(w[k].req)
    BY <1>0, <2>2, StoreGrows DEF StoreCSR
  <2> QED  BY <2>1, <2>2 DEF ImportCSR, StoreFull
<1>2. OnlyOutages => CertsSayCSRs'
  BY <1>1, CertsStillSay DEF OutageInv
<1>3. ASSUME NEW r \in world.replies, call(r) # Nil, Fail(k, call(r)) PROVE OutageInv'
  BY <1>0, <1>2, <1>3, OutageReplies, OutageFail
<1>4. CASE StoreFull(k)
  <2> DEFINE r == [ Success EXCEPT !.code = 503 ]
  <2>1. r \in Answers /\ r.code = 503
    BY DEF Success, Answers, AnswersOf, Codes
  <2> HIDE DEF r
  <2>2. ~IsPermanent(call(r))
    BY <2>1, OutageOps DEF Outage, Transient
  <2>3. Fail(k, call(r))
    BY <1>4 DEF StoreFull, r
  <2> QED  BY <1>0, <1>2, <2>2, <2>3, OutageFail
<1>5. ASSUME NEW id \in Nat, NEW name \in Names,
             w' = [ w EXCEPT ![k].pc = "resolve", ![k].csr = id, ![k].name = name ]
      PROVE  OutageInv'
  <2>1. Moves(k) /\ w'[k].pc = "resolve"
    BY <1>0, <1>5, AfterImport, Zenon
  <2> QED  BY <1>0, <1>2, <2>1, OutageFrame DEF OutageLocal
<1>6. Len(csrs) + 1 \in Nat /\ NoID \in Nat /\ csrCommonName(w[k].req) \in Names /\ "" \in Names
  <2>1. \A r \in Requests : csrCommonName(r) \in Names
    BY DEF Names
  <2>2. "" \in Names
    BY DEF Names
  <2>3. Len(csrs) + 1 \in Nat /\ NoID \in Nat
    BY LogLengths DEF SignInv, TypeOK, NoID
  <2> QED  BY <1>0, <2>1, <2>2, <2>3
<1>7. ASSUME NEW id, id = (IF world.reportsID THEN Len(csrs) + 1 ELSE NoID),
             NEW name, name = (IF world.reportsName THEN csrCommonName(w[k].req) ELSE "")
      PROVE  id \in Nat /\ name \in Names
  BY <1>6, <1>7
<1> QED  BY <1>3, <1>4, <1>5, <1>7, Zenon DEF ImportCSR

\* The id that importCSR reported is there, so that nothing is looked up.
LEMMA ResolveOutage ==
    ASSUME SignInv, AskInv, OutageInv, NEW k \in Kinds, ResolveCSRID(k)
    PROVE  OutageInv'
<1>0. /\ w[k].pc = "resolve" /\ Elsewhere /\ UNCHANGED <<setting, req, issuer, reported, now>>
      /\ LogsGrow /\ UNCHANGED certs /\ w \in [ Workers -> WorkerState ] /\ k \in Workers
  BY KmpUnchanged, KindsAreWorkers
  DEF ResolveCSRID, Elsewhere, cluster, kmp, SignInv, TypeOK, WorkerTypes
<1>1. OnlyOutages => CertsSayCSRs'
  BY <1>0, CertsStillSay DEF OutageInv
<1>2. CASE OnlyOutages
  <2>1. w[k].csr \in 1..Len(csrs)
    BY <1>0, <1>2 DEF AskInv, AskLocal, OnlyOutages
  <2>2. w[k].csr # NoID
    BY <2>1 DEF NoID
  <2>3. Goto(k, "sign")
    BY <2>2, Zenon DEF ResolveCSRID
  <2>4. Moves(k) /\ w'[k].pc = "sign"
    BY <1>0, <2>3 DEF Moves, Goto, WorkerState
  <2> QED  BY <1>0, <1>1, <2>4, OutageFrame DEF OutageLocal
<1>3. CASE ~OnlyOutages
  BY <1>0, <1>3 DEF OutageInv, OnlyOutages, Identifies, world
<1> QED  BY <1>2, <1>3

\* The certificate that is issued.
LEMMA IssuedRecord ==
    ASSUME SignInv, NEW csr, NEW sent, NEW t, Issue(csr, sent, t)
    PROVE  /\ UNCHANGED csrs /\ Len(certs') = Len(certs) + 1
           /\ certs'[Len(certs) + 1].csr = csr
           /\ certs'[Len(certs) + 1].id = CertifiedIdentity(csrs[csr].id, t)
           /\ \A n \in 1..Len(certs) : certs'[n] = certs[n]
<1>1. PICK ca, days : certs' = Append(certs, [ csr |-> csr, ca |-> ca, days |-> days,
                                               id |-> CertifiedIdentity(csrs[csr].id, t) ])
  BY Zenon DEF Issue
<1> DEFINE c == [ csr |-> csr, ca |-> ca, days |-> days, id |-> CertifiedIdentity(csrs[csr].id, t) ]
<1>2. c.csr = csr /\ c.id = CertifiedIdentity(csrs[csr].id, t)
  OBVIOUS
<1>3. UNCHANGED csrs /\ certs' = Append(certs, c) /\ certs \in Seq(CertType) /\ Len(certs) \in Nat
  BY <1>1, LogLengths DEF Issue, SignInv, TypeOK, ServiceTypes
<1> HIDE DEF c
<1>4. /\ Len(certs') = Len(certs) + 1 /\ certs'[Len(certs) + 1] = c
      /\ \A n \in 1..Len(certs) : certs'[n] = certs[n]
  BY <1>3
<1> QED  BY <1>2, <1>3, <1>4

\* What the CA signs says what its CSR says, and the serial number is reported.
LEMMA SignOutage ==
    ASSUME SignInv, OutageInv, NEW k \in Kinds, SignImported(k)
    PROVE  OutageInv'
<1> DEFINE sent == details(signRequest(w[k].spec, w[k].csr, Asked[w[k].req]))
<1>0. /\ w[k].pc = "sign" /\ Elsewhere /\ UNCHANGED <<setting, req, issuer, reported, now>>
      /\ w \in [ Workers -> WorkerState ] /\ k \in Workers /\ Len(certs) \in Nat
  BY KindsAreWorkers, LogLengths
  DEF SignImported, Elsewhere, cluster, SignInv, TypeOK, WorkerTypes
<1>a. w[k].csr \in 1..Len(csrs)
  BY <1>0 DEF SignInv, LocalsRefer, LocalRefers
<1> HIDE DEF sent
<1>1. CASE ~OnlyOutages
  BY <1>0, <1>1 DEF OutageInv, OnlyOutages, Identifies, world
<1>2. CASE OnlyOutages
  <2>1. world.templates = {"supplied"} /\ world.reportsSerial /\ CertsSayCSRs
    BY <1>2 DEF OnlyOutages, Identifies, OutageInv
  <2>2. ASSUME NEW t \in world.templates, Issue(w[k].csr, sent, t) PROVE CertsSayCSRs'
    <3> DEFINE c == certs'[Len(certs) + 1]
    <3>1. /\ UNCHANGED csrs /\ Len(certs') = Len(certs) + 1
          /\ c.csr = w[k].csr /\ c.id = CertifiedIdentity(csrs[w[k].csr].id, t)
          /\ \A n \in 1..Len(certs) : certs'[n] = certs[n]
      BY <1>0, <1>a, <2>2, IssuedRecord
    <3>2. CertifiedIdentity(csrs[w[k].csr].id, t) = csrs[w[k].csr].id
      BY <2>1 DEF CertifiedIdentity
    <3> HIDE DEF c
    <3>3. ASSUME NEW n \in 1..Len(certs') PROVE certs'[n].id = csrs'[certs'[n].csr].id
      <4>1. n \in 1..Len(certs) \/ n = Len(certs) + 1
        BY <1>0, <3>1
      <4> QED  BY <2>1, <3>1, <3>2, <4>1 DEF CertsSayCSRs, c
    <3> QED  BY <3>3 DEF CertsSayCSRs
  <2>3. CertsSayCSRs'
    <3>1. CASE UNCHANGED kmp
      BY <2>1, <3>1 DEF kmp, CertsSayCSRs
    <3> QED  BY <2>2, <3>1, Zenon DEF SignImported, sent
  <2>4. ASSUME NEW r \in world.replies, SignCSR(r) # Nil, Fail(k, SignCSR(r)) PROVE OutageInv'
    BY <1>0, <2>3, <2>4, OutageReplies, OutageFail
  <2>5. ASSUME NEW name, NEW serial,
               w' = [ w EXCEPT ![k].pc = "fetch", ![k].name = name, ![k].serial = serial ]
        PROVE  OutageInv'
    <3>1. Moves(k) /\ w'[k].pc = "fetch"
      BY <1>0, <2>5 DEF Moves, WorkerState
    <3> QED  BY <1>0, <2>3, <3>1, OutageFrame DEF OutageLocal
  <2>6. ASSUME NEW serial, serial = (IF world.reportsSerial THEN Len(certs) + 1 ELSE NoID)
        PROVE  serial # NoID
    BY <1>0, <2>1, <2>6 DEF NoID
  <2> QED  BY <2>4, <2>5, <2>6, Zenon DEF SignImported
<1> QED  BY <1>1, <1>2

\* A certificate for the CSR of a request is for its key, and carries its names.
LEMMA OwnCertificate ==
    ASSUME SignInv, CertsSayCSRs, NEW r, NEW n \in 1..Len(certs), csrs[certs[n].csr].req = r
    PROVE  csrs[certs[n].csr].key = Asked[r].key /\ verifyRequestedNames(r, certs[n].id)
<1> DEFINE c == csrs[certs[n].csr]
<1>1. c \in CSRType /\ certs[n].id = c.id
  BY DEF SignInv, TypeOK, ServiceTypes, CertsRefer, CertsSayCSRs
<1>2. /\ c.key = Asked[r].key
      /\ c.id = Identity(csrCommonName(r), Asked[r].id.dns, Asked[r].id.ips, Asked[r].id.org)
  BY <1>1, CSRName
<1> HIDE DEF c
<1>3. c.id.cn = csrCommonName(r) /\ c.id.dns = Asked[r].id.dns /\ c.id.ips = Asked[r].id.ips
  BY <1>2 DEF Identity
<1>4. Asked[r].id.cn # "" => csrCommonName(r) = Asked[r].id.cn
  BY DEF csrCommonName
<1>5. verifyRequestedNames(r, c.id)
  BY <1>3, <1>4 DEF verifyRequestedNames
<1> QED  BY <1>1, <1>2, <1>5 DEF c

\* What is fetched by the serial number passes the checks of the bundle.
LEMMA FetchOutage ==
    ASSUME SignInv, AskInv, OutageInv, NEW k \in Kinds, FetchCertificate(k)
    PROVE  OutageInv'
<1> DEFINE candidates == PublishedFor(csrs, certs, published, w[k].name, w[k].serial)
<1>0. /\ w[k].pc = "fetch" /\ Elsewhere /\ UNCHANGED <<setting, req, issuer, reported, now>>
      /\ LogsGrow /\ UNCHANGED certs /\ w \in [ Workers -> WorkerState ] /\ k \in Workers
  BY KmpUnchanged, KindsAreWorkers
  DEF FetchCertificate, Elsewhere, cluster, kmp, SignInv, TypeOK, WorkerTypes
<1>1. CASE ~OnlyOutages
  BY <1>0, <1>1 DEF OutageInv, OnlyOutages, Identifies, world
<1>2. CASE OnlyOutages
  <2>0. CertsSayCSRs /\ CertsSayCSRs'
    BY <1>0, <1>2, CertsStillSay DEF OutageInv
  <2>1. /\ w[k].serial \in 1..Len(certs) /\ certs[w[k].serial].csr = w[k].csr
        /\ csrs[w[k].csr].req = w[k].req
    BY <1>0, <1>2 DEF AskInv, AskLocal, AsAsked, OnlyOutages
  <2>2. candidates \subseteq {w[k].serial}
    <3>1. w[k].serial # NoID
      BY <2>1 DEF NoID
    <3> QED  BY <3>1 DEF PublishedFor
  <2>3. /\ csrs[certs[w[k].serial].csr].key = Asked[w[k].req].key
        /\ verifyRequestedNames(w[k].req, certs[w[k].serial].id)
    BY <2>0, <2>1, OwnCertificate
  <2> HIDE DEF candidates
  <2>4. ASSUME NEW returned, returned \subseteq candidates, returned # {}, Assemble(k, returned)
        PROVE  OutageInv'
    <3>1. returned = {w[k].serial}
      BY <2>2, <2>4
    <3>2. leavesFor(w[k].req, returned) = {w[k].serial}
      BY <2>3, <3>1 DEF leavesFor
    <3>3. Return(k, "request", "ok", w[k].serial)
      BY <2>3, <2>4, <3>2 DEF Assemble
    <3>4. Moves(k) /\ w'[k].pc = "finish" /\ w'[k].result = "ok"
      BY <1>0, <2>1, <3>3, ReturnMoves DEF SignInv, TypeOK, Results
    <3> QED  BY <1>0, <2>0, <3>4, OutageFrame DEF OutageLocal
  <2>5. CASE w' = [ w EXCEPT ![k].polls = @ + 1 ]
    <3>1. Moves(k) /\ w'[k].pc = "fetch"
      BY <1>0, <2>5 DEF Moves, WorkerState
    <3> QED  BY <1>0, <2>0, <3>1, OutageFrame DEF OutageLocal
  <2>6. ASSUME NEW r \in world.replies, NEW e, Fail(k, e), e # Nil,
               e \in {GetCertificate(r), GetCertificate([ r EXCEPT !.payload = "none" ])}
        PROVE  OutageInv'
    <3>1. ~IsPermanent(e)
      BY <1>2, <2>6, OutageReplies, OutageNothing
    <3> QED  BY <1>0, <2>0, <2>6, <3>1, OutageFail
  <2>7. ASSUME NEW r \in world.replies, GetCertificate([ r EXCEPT !.payload = "none" ]) = Nil
        PROVE  FALSE
    BY <1>2, <2>7, OutageNothing
  <2>8. PICK r \in world.replies, returned \in SUBSET candidates :
          LET e == GetCertificate(IF returned = {} THEN [ r EXCEPT !.payload = "none" ] ELSE r)
          IN  \/ e = Nil /\ Assemble(k, returned)
              \/ w' = [ w EXCEPT ![k].polls = @ + 1 ]
              \/ e # Nil /\ Fail(k, e)
    BY Zenon DEF FetchCertificate, candidates
  <2>9. CASE returned = {}
    <3>1. \/ GetCertificate([ r EXCEPT !.payload = "none" ]) = Nil
          \/ w' = [ w EXCEPT ![k].polls = @ + 1 ]
          \/ \E e : /\ e = GetCertificate([ r EXCEPT !.payload = "none" ])
                    /\ e # Nil /\ Fail(k, e)
      BY <2>8, <2>9, Zenon
    <3> QED  BY <2>5, <2>6, <2>7, <3>1, Zenon
  <2>10. CASE returned # {}
    <3>1. \/ Assemble(k, returned)
          \/ w' = [ w EXCEPT ![k].polls = @ + 1 ]
          \/ \E e : e = GetCertificate(r) /\ e # Nil /\ Fail(k, e)
      BY <2>8, <2>10, Zenon
    <3>2. returned \subseteq candidates
      OBVIOUS
    <3> QED  BY <2>4, <2>5, <2>6, <2>10, <3>1, <3>2, Zenon
  <2> QED  BY <2>9, <2>10
<1> QED  BY <1>1, <1>2

\* A step that moves no worker to where it can have failed, and fails no request.
LEMMA OutageStill ==
    ASSUME SignInv, OutageInv, UNCHANGED <<setting, csrs, certs>>,
           \A k \in Workers : w'[k] = w[k] \/ w'[k].pc \in {"idle", "secret"},
           issuer'.ready = issuer.ready, reported' \in {reported, "none"},
           now' \in Nat, now <= now',
           \A r \in Requests : req'[r].state = "failed" =>
               req[r].state = "failed" /\ req'[r].created = req[r].created
    PROVE  OutageInv'
<1> SUFFICES ASSUME OnlyOutages PROVE OutageInv'
  BY DEF OutageInv, OnlyOutages, Identifies, world
<1>1. ASSUME NEW k \in Workers PROVE OutageLocal(w[k])'
  BY DEF OutageInv, OutageLocal
<1>2. CertsSayCSRs'
  BY DEF OutageInv, CertsSayCSRs
<1>3. ASSUME NEW r \in Requests, req'[r].state = "failed" PROVE Expired(r)'
  <2>1. Expired(r) /\ req'[r].created = req[r].created /\ req[r].created \in Nat
    BY <1>3 DEF OutageInv, SignInv, TypeOK, ClusterTypes, RequestState
  <2>2. now \in Nat /\ MaxRetryDuration \in Nat
    BY SigningBounds DEF SignInv, TypeOK
  <2> QED  BY <2>1, <2>2 DEF Expired
<1>4. issuer'.ready # "Failed" /\ reported' # "permanent"
  BY DEF OutageInv
<1> QED  BY <1>1, <1>2, <1>3, <1>4 DEF OutageInv

\* A request is given up only when it has been retried for long enough.
LEMMA FinishOutage ==
    ASSUME SignInv, OutageInv, NEW k \in Kinds, FinishRequest(k)
    PROVE  OutageInv'
<1>0. /\ w[k].pc = "finish" /\ w[k].req \in Requests /\ k \in Workers
      /\ w' = [ w EXCEPT ![k] = Idle ] /\ UNCHANGED <<setting, issuer, csrs, certs, now>>
      /\ w \in [ Workers -> WorkerState ] /\ req \in [ Requests -> RequestState ]
      /\ (reported' = w[k].result \/ UNCHANGED reported)
  BY FinishOutcome, KindsAreWorkers
  DEF FinishRequest, Report, kmp, SignInv, TypeOK, WorkerTypes, ClusterTypes
<1> SUFFICES ASSUME OnlyOutages PROVE OutageInv'
  BY <1>0 DEF OutageInv, OnlyOutages, Identifies, world
<1>1. w[k].result # "permanent"
  BY <1>0 DEF OutageInv, OutageLocal
<1>2. ASSUME NEW x \in Workers PROVE OutageLocal(w[x])'
  <2>1. CASE x = k
    BY <1>0, <2>1, IdleType DEF OutageLocal
  <2>2. CASE x # k
    BY <1>0, <2>2 DEF OutageInv, OutageLocal
  <2> QED  BY <2>1, <2>2
<1>3. CertsSayCSRs' /\ issuer'.ready # "Failed" /\ reported' # "permanent"
  BY <1>0, <1>1 DEF OutageInv, CertsSayCSRs
<1>4. ASSUME NEW r \in Requests, req'[r].state = "failed" PROVE Expired(r)'
  <2>1. req'[r].created = req[r].created /\ (req[r].state = "failed" \/ Expired(r))
    <3>1. CASE UNCHANGED req
      BY <1>4, <3>1
    <3>2. CASE req' = [ req EXCEPT ![w[k].req].state = "issued", ![w[k].req].cert = w[k].cert ]
      BY <1>0, <1>4, <3>2 DEF RequestState
    <3>3. CASE /\ Final(w[k].req, w[k].result)
               /\ req' = [ req EXCEPT ![w[k].req].state = "failed", ![w[k].req].cert = NoID ]
      <4>1. Expired(w[k].req)
        BY <1>1, <3>3 DEF Final
      <4> QED  BY <1>0, <1>4, <3>3, <4>1 DEF RequestState
    <3> QED  BY <3>1, <3>2, <3>3, FinishOutcome
  <2>2. Expired(r)
    BY <2>1 DEF OutageInv
  <2> QED  BY <1>0, <2>1, <2>2 DEF Expired
<1> QED  BY <1>2, <1>3, <1>4 DEF OutageInv

\* The issuer is not failed by what is reported to it.
LEMMA CheckOutage ==
    ASSUME SignInv, OutageInv, StartCheck \/ FinishCheck
    PROVE  OutageInv'
<1>0. /\ UNCHANGED <<setting, req, csrs, certs, now>> /\ Checker \in Workers
      /\ w \in [ Workers -> WorkerState ] /\ reported \in Results \cup {"none"}
      /\ issuer \in IssuerState /\ now \in Nat
  BY KindsAreWorkers
  DEF StartCheck, FinishCheck, kmp, Workers, SignInv, TypeOK, WorkerTypes, ClusterTypes
<1> SUFFICES ASSUME OnlyOutages PROVE OutageInv'
  BY <1>0 DEF OutageInv, OnlyOutages, Identifies, world
<1>1. CertsSayCSRs' /\ \A r \in Requests : req'[r].state = "failed" => Expired(r)'
  BY <1>0 DEF OutageInv, CertsSayCSRs, Expired
<1>2. issuer.ready # "Failed" /\ reported # "permanent" /\ \A k \in Workers : OutageLocal(w[k])
  BY DEF OutageInv
<1>3. ASSUME NEW v, w' = [ w EXCEPT ![Checker] = v ], OutageLocal(v)
      PROVE  \A k \in Workers : OutageLocal(w[k])'
  BY <1>0, <1>2, <1>3 DEF OutageLocal
<1>4. CASE StartCheck
  <2> DEFINE held == [ Idle EXCEPT !.generation = issuer.generation ]
             v == [ held EXCEPT !.pc = "secret", !.spec = issuer.spec ]
             u == [ held EXCEPT !.pc = "finish", !.blame = "request", !.result = reported ]
  <2>1. OutageLocal(v) /\ OutageLocal(u)
    BY <1>2 DEF OutageLocal, Idle
  <2>2. \/ UNCHANGED w \/ w' = [ w EXCEPT ![Checker] = v ] \/ w' = [ w EXCEPT ![Checker] = u ]
    BY <1>4, Zenon DEF StartCheck
  <2>3. UNCHANGED issuer /\ reported' \in {reported, "none"}
    BY <1>4 DEF StartCheck
  <2> HIDE DEF held, v, u
  <2>4. \A k \in Workers : OutageLocal(w[k])'
    <3>1. CASE UNCHANGED w
      BY <1>2, <3>1 DEF OutageLocal
    <3> QED  BY <1>3, <2>1, <2>2, <3>1
  <2> QED  BY <1>1, <1>2, <2>3, <2>4 DEF OutageInv
<1>5. CASE FinishCheck
  <2> DEFINE result == w[Checker].result
  <2>1. w[Checker].pc = "finish" /\ result # "permanent" /\ result \in Results
    BY <1>0, <1>2, <1>5 DEF FinishCheck, OutageLocal, WorkerState
  <2>2. w' = [ w EXCEPT ![Checker] = Idle ] /\ OutageLocal(Idle)
    BY <1>5, IdleType DEF FinishCheck, OutageLocal
  <2>3. \/ UNCHANGED issuer
        \/ issuer' = [ issuer EXCEPT !.ready = Condition(result), !.observed = w[Checker].generation ]
    BY <1>5, Zenon DEF FinishCheck
  <2>4. reported' \in {reported, result}
    BY <1>5 DEF FinishCheck
  <2> HIDE DEF result
  <2>5. Condition(result) # "Failed"
    BY <2>1 DEF Condition
  <2>6. issuer'.ready # "Failed"
    BY <1>0, <1>2, <2>3, <2>5 DEF IssuerState
  <2> QED  BY <1>1, <1>2, <1>3, <2>1, <2>2, <2>4, <2>6 DEF OutageInv
<1> QED  BY <1>4, <1>5

LEMMA OutageInvInit == Init => OutageInv
<1> SUFFICES ASSUME Init PROVE OutageInv
  OBVIOUS
<1>1. \A k \in Workers : w[k].pc = "idle"
  BY IdleType DEF Init
<1>2. issuer.ready = "Unknown" /\ reported = "none" /\ certs = <<>>
  BY DEF Init
<1>3. \A r \in Requests : req[r].state = "absent"
  BY DEF Init, NotMade
<1> QED  BY <1>1, <1>2, <1>3 DEF OutageInv, OutageLocal, CertsSayCSRs

LEMMA OutageInvNext == SignInv /\ AskInv /\ OutageInv /\ [Next]_vars => OutageInv'
<1> SUFFICES ASSUME SignInv, AskInv, OutageInv, [Next]_vars PROVE OutageInv'
  OBVIOUS
<1>0. /\ req \in [ Requests -> RequestState ] /\ w \in [ Workers -> WorkerState ]
      /\ now \in Nat /\ issuer \in IssuerState
  BY DEF SignInv, TypeOK, ClusterTypes, WorkerTypes
<1>1. ASSUME NEW k \in Kinds, NEW r \in Requests, SkipRequest(k, r) \/ StartRequest(k, r)
      PROVE  OutageInv'
  <2>1. UNCHANGED <<setting, req, csrs, certs, issuer, reported, now>>
    BY <1>1 DEF SkipRequest, StartRequest, Take, kmp
  <2>2. \A x \in Workers : w'[x] = w[x] \/ w'[x].pc \in {"idle", "secret"}
    <3>1. CASE SkipRequest(k, r)
      BY <3>1 DEF SkipRequest
    <3>2. CASE StartRequest(k, r)
      <4> DEFINE v == [ Idle EXCEPT !.pc = "secret", !.req = r, !.spec = issuer.spec ]
      <4>1. w' = [ w EXCEPT ![k] = v ]
        BY <3>2 DEF StartRequest
      <4>2. v.pc = "secret"
        BY DEF Idle
      <4> HIDE DEF v
      <4> QED  BY <1>0, <4>1, <4>2, KindsAreWorkers
    <3> QED  BY <1>1, <3>1, <3>2
  <2> QED  BY <1>0, <2>1, <2>2, OutageStill
<1>2. ASSUME NEW k \in Kinds, RequestStep(k) PROVE OutageInv'
  BY <1>1, <1>2, ReadSecretOutage, HealthCheckOutage, ImportOutage, ResolveOutage, SignOutage,
     FetchOutage, FinishOutage, KindsAreWorkers DEF RequestStep, SignStep
<1>3. CASE CheckStep
  BY <1>3, CheckOutage, ReadSecretOutage, HealthCheckOutage, KindsAreWorkers DEF CheckStep, Workers
<1>4. ASSUME NEW r \in Requests, CreateRequest(r) PROVE OutageInv'
  <2>1. /\ UNCHANGED <<setting, w, csrs, certs, issuer, reported, now>>
        /\ req' = [ req EXCEPT ![r].state = "pending", ![r].created = now ]
    BY <1>4 DEF CreateRequest, kmp
  <2>2. \A x \in Requests : req'[x].state = "failed" => req'[x] = req[x]
    BY <1>0, <2>1 DEF RequestState
  <2> QED  BY <1>0, <2>1, <2>2, OutageStill
<1>5. CASE Service \/ EditSecret \/ Wait \/ UNCHANGED vars
  <2>1. UNCHANGED <<setting, req, w, csrs, certs, issuer, reported, now>>
    BY <1>5 DEF Service, ListCSR, PublishCertificate, EditSecret, Wait, vars, cluster, kmp
  <2> QED  BY <1>0, <2>1, OutageStill
<1>6. CASE Tick
  <2>1. UNCHANGED <<setting, req, w, csrs, certs, issuer, reported>> /\ now' = now + 1
    BY <1>6 DEF Tick, cluster, kmp
  <2> QED  BY <1>0, <2>1, OutageStill
<1>7. CASE EditIssuer
  <2>1. UNCHANGED <<setting, req, w, csrs, certs, reported, now>>
    BY <1>7 DEF EditIssuer, kmp
  <2>2. issuer'.ready = issuer.ready
    BY <1>0, <1>7 DEF EditIssuer, IssuerState
  <2> QED  BY <1>0, <2>1, <2>2, OutageStill
<1>8. CASE Crash
  <2>1. /\ UNCHANGED <<setting, req, csrs, certs, issuer, now>> /\ reported' = "none"
        /\ \A k \in Workers : w'[k].pc = "idle"
    BY <1>8, IdleType DEF Crash, kmp
  <2> QED  BY <1>0, <2>1, OutageStill
<1> QED  BY <1>2, <1>3, <1>4, <1>5, <1>6, <1>7, <1>8 DEF Next, Users

\* In a world in which things fail only for a while, whatever is lost, repeated or
\* restarted, the issuer is never failed, and no request before MaxRetryDuration
\* is over (permanentIfUnrecoverable; Check, Sign).
THEOREM OutagesOnlyDelay == Spec => []OutageOnlyDelays
<1>1. Spec => []OutageInv
  BY SignInvHolds, AskInvHolds, OutageInvInit, OutageInvNext, PTL DEF Spec
<1>2. OutageInv => OutageOnlyDelays
  BY DEF OutageInv, OutageOnlyDelays
<1> QED  BY <1>1, <1>2, PTL

-----------------------------------------------------------------------------
(***************************************************************************)
(* Signed once.  Where importCSR reports the id, the CSR a worker is about *)
(* to sign is the one it imported for its request, and it has not been     *)
(* signed; no other worker has it, since requests of two kinds differ.     *)
(***************************************************************************)
FreshLocal(v) ==
    v.pc \in {"resolve", "sign"} =>
        /\ v.csr \in 1..Len(csrs) /\ csrs[v.csr].req = v.req
        /\ \A n \in 1..Len(certs) : certs[n].csr # v.csr

FreshInv == world.reportsID => (\A k \in Kinds : FreshLocal(w[k])) /\ SignedOnce

\* Until something is signed.
LEMMA FreshFrame ==
    ASSUME SignInv, FreshInv, LogsGrow, UNCHANGED <<setting, certs>>,
           \A k \in Kinds : w'[k] = w[k] \/ (world.reportsID => FreshLocal(w[k])')
    PROVE  FreshInv'
<1> SUFFICES ASSUME world.reportsID
             PROVE  (\A x \in Kinds : FreshLocal(w[x])') /\ SignedOnce'
  BY DEF FreshInv, world
<1>0. Len(csrs) \in Nat
  BY LogLengths DEF SignInv, TypeOK
<1>1. ASSUME NEW x \in Kinds, w'[x] = w[x] PROVE FreshLocal(w[x])'
  <2>1. FreshLocal(w[x])
    BY DEF FreshInv
  <2> QED  BY <1>0, <1>1, <2>1 DEF FreshLocal, LogsGrow
<1>2. SignedOnce'
  BY DEF FreshInv, SignedOnce, world
<1> QED  BY <1>1, <1>2

\* What is imported is new.
LEMMA ImportFresh ==
    ASSUME SignInv, FreshInv, NEW k \in Kinds, ImportCSR(k)
    PROVE  FreshInv'
<1>0. /\ w[k].pc = "import" /\ Elsewhere /\ UNCHANGED setting /\ k \in Workers /\ k # Checker
      /\ w \in [ Workers -> WorkerState ] /\ Len(csrs) \in Nat /\ Len(certs) \in Nat
  BY KindsAreWorkers, LogLengths
  DEF ImportCSR, Elsewhere, SignInv, TypeOK, WorkerTypes
<1>a. w[k].req \in Requests
  BY <1>0, LocalTypesHold DEF SignInv, TypeOK, LocalTypes
<1>b. LogsGrow /\ UNCHANGED certs
  BY <1>a, StoreGrows, KmpUnchanged DEF ImportCSR, kmp
<1>1. ASSUME NEW e, Fail(k, e) PROVE FreshInv'
  <2>1. Moves(k) /\ w'[k].pc = "finish"
    BY <1>0, <1>1, ReturnMoves
    DEF Fail, permanentIfUnrecoverable, Results, NoID, SignInv, TypeOK
  <2> QED  BY <1>0, <1>b, <2>1, FreshFrame, KindsAreWorkers DEF FreshLocal, Moves
<1>2. ASSUME NEW id, world.reportsID => id = Len(csrs) + 1, id \in {Len(csrs) + 1, NoID},
             NEW name, name \in {csrCommonName(w[k].req), ""}, StoreCSR(w[k].req),
             w' = [ w EXCEPT ![k].pc = "resolve", ![k].csr = id, ![k].name = name ]
      PROVE  FreshInv'
  <2>0. /\ StoreCSR(w[k].req) /\ id \in {Len(csrs) + 1, NoID}
        /\ name \in {csrCommonName(w[k].req), ""} /\ (world.reportsID => id = Len(csrs) + 1)
    BY <1>2, Zenon
  <2>1. name \in Names
    BY <2>0, <1>a DEF Names
  <2>2. id \in Nat
    <3>1. id = Len(csrs) + 1 \/ id = 0
      BY <2>0 DEF NoID
    <3> QED  BY <1>0, <3>1
  <2>3. /\ Moves(k) /\ w'[k].pc = "resolve" /\ w'[k].csr = id /\ w'[k].req = w[k].req
    BY <1>0, <1>2, <2>1, <2>2, AfterImport, Zenon
  <2>4. ASSUME world.reportsID PROVE FreshLocal(w[k])'
    <3> DEFINE r == w[k].req
               c == [ id  |-> [ Asked[r].id EXCEPT !.cn = csrCommonName(r) ],
                      key |-> Asked[r].key, req |-> r ]
    <3>a. Len(csrs') = Len(csrs) + 1 /\ csrs'[Len(csrs) + 1] = c
      BY <1>a, <2>0, StoreGrows
    <3>b. c.req = r
      OBVIOUS
    <3> HIDE DEF c
    <3>1. csrs'[Len(csrs) + 1].req = w[k].req
      BY <3>a, <3>b
    <3>2. w'[k].csr = Len(csrs) + 1
      BY <2>0, <2>3, <2>4
    <3>3. \A n \in 1..Len(certs) : certs[n].csr # Len(csrs) + 1
      BY <1>0 DEF SignInv, CertsRefer
    <3> QED  BY <1>0, <1>b, <2>3, <3>a, <3>1, <3>2, <3>3 DEF FreshLocal
  <2> QED  BY <1>0, <1>b, <2>3, <2>4, FreshFrame, KindsAreWorkers DEF Moves
<1>3. ASSUME NEW id, id = (IF world.reportsID THEN Len(csrs) + 1 ELSE NoID)
      PROVE  id \in {Len(csrs) + 1, NoID} /\ (world.reportsID => id = Len(csrs) + 1)
  BY <1>3
<1> QED  BY <1>1, <1>2, <1>3, Zenon DEF ImportCSR

\* A reported id is signed as it is.
LEMMA ResolveFresh ==
    ASSUME SignInv, FreshInv, NEW k \in Kinds, ResolveCSRID(k)
    PROVE  FreshInv'
<1>0. /\ w[k].pc = "resolve" /\ Elsewhere /\ UNCHANGED setting /\ k \in Workers
      /\ w \in [ Workers -> WorkerState ] /\ LogsGrow /\ UNCHANGED kmp
  BY KindsAreWorkers, KmpUnchanged
  DEF ResolveCSRID, Elsewhere, SignInv, TypeOK, WorkerTypes
<1>1. ASSUME NEW e, Fail(k, e) PROVE FreshInv'
  <2>1. Moves(k) /\ w'[k].pc = "finish"
    BY <1>0, <1>1, ReturnMoves
    DEF Fail, permanentIfUnrecoverable, Results, NoID, SignInv, TypeOK
  <2> QED  BY <1>0, <2>1, FreshFrame, KindsAreWorkers DEF FreshLocal, Moves, kmp
<1>2. CASE Goto(k, "sign")
  <2>1. Moves(k) /\ w'[k] = [ w[k] EXCEPT !.pc = "sign" ]
    BY <1>0, <1>2 DEF Moves, Goto
  <2>2. w'[k].pc = "sign" /\ w'[k].req = w[k].req /\ w'[k].csr = w[k].csr
    BY <1>0, <2>1 DEF WorkerState
  <2>3. world.reportsID => FreshLocal(w[k])'
    BY <1>0, <2>2 DEF FreshInv, FreshLocal, kmp
  <2> QED  BY <1>0, <2>1, <2>3, FreshFrame, KindsAreWorkers DEF Moves, kmp
<1>3. ASSUME NEW id, w[k].csr = NoID, w' = [ w EXCEPT ![k].pc = "sign", ![k].csr = id ]
      PROVE  FreshInv'
  <2>1. ~world.reportsID
    <3>1. world.reportsID => w[k].csr \in 1..Len(csrs)
      BY <1>0 DEF FreshInv, FreshLocal
    <3> QED  BY <1>3, <3>1 DEF NoID
  <2> QED  BY <1>0, <2>1 DEF FreshInv, world
<1> QED  BY <1>1, <1>2, <1>3, Zenon DEF ResolveCSRID

\* A worker that signs gives its CSR up, and no other one has it.
LEMMA SignFresh ==
    ASSUME SignInv, FreshInv, NEW k \in Kinds, SignImported(k)
    PROVE  FreshInv'
<1> DEFINE sent == details(signRequest(w[k].spec, w[k].csr, Asked[w[k].req]))
<1>0. /\ w[k].pc = "sign" /\ Elsewhere /\ UNCHANGED setting /\ k \in Workers
      /\ w \in [ Workers -> WorkerState ] /\ Len(certs) \in Nat /\ Len(csrs) \in Nat
      /\ world.templates \subseteq Templates
  BY KindsAreWorkers, LogLengths, WorldTypes
  DEF SignImported, Elsewhere, SignInv, TypeOK, WorkerTypes
<1>a. w[k].csr \in 1..Len(csrs)
  BY <1>0 DEF SignInv, LocalsRefer, LocalRefers
<1>b. "ValidityDays" \in DOMAIN sent => sent.ValidityDays \in Nat
  BY <1>0, SentDays
<1>1. Moves(k) /\ w'[k].pc \in {"fetch", "finish"}
  <2>1. ASSUME NEW e, Fail(k, e) PROVE Moves(k) /\ w'[k].pc = "finish"
    BY <1>0, <2>1, ReturnMoves
    DEF Fail, permanentIfUnrecoverable, Results, NoID, SignInv, TypeOK
  <2>2. ASSUME NEW name, NEW serial,
               w' = [ w EXCEPT ![k].pc = "fetch", ![k].name = name, ![k].serial = serial ]
        PROVE  Moves(k) /\ w'[k].pc = "fetch"
    <3>1. /\ w'[k] = [ w[k] EXCEPT !.pc = "fetch", !.name = name, !.serial = serial ]
          /\ Moves(k)
      BY <1>0, <2>2 DEF Moves
    <3>2. w[k] \in WorkerState
      BY <1>0
    <3>3. ASSUME NEW v \in WorkerState
          PROVE  [ v EXCEPT !.pc = "fetch", !.name = name, !.serial = serial ].pc = "fetch"
      BY <3>3 DEF WorkerState
    <3> QED  BY <3>1, <3>2, <3>3, Zenon
  <2> QED  BY <2>1, <2>2, Zenon DEF SignImported
<1>2. (UNCHANGED kmp) \/ \E t \in world.templates : Issue(w[k].csr, sent, t)
  BY Zenon DEF SignImported
<1> HIDE DEF sent
<1>3. CASE UNCHANGED kmp
  BY <1>0, <1>1, <1>3, KmpUnchanged, FreshFrame, KindsAreWorkers DEF FreshLocal, Moves, kmp
<1>4. ASSUME NEW t \in Templates, Issue(w[k].csr, sent, t) PROVE FreshInv'
  <2>1. /\ LogsGrow /\ UNCHANGED csrs /\ Len(certs') = Len(certs) + 1
        /\ certs'[Len(certs) + 1] =
             [ csr  |-> w[k].csr, id |-> CertifiedIdentity(csrs[w[k].csr].id, t),
               ca   |-> "IsIntermediate" \in DOMAIN sent /\ sent.IsIntermediate = "true",
               days |-> IF "ValidityDays" \in DOMAIN sent THEN sent.ValidityDays ELSE 0 ]
    BY <1>a, <1>b, <1>4, IssueGrows
  <2>2. certs'[Len(certs) + 1].csr = w[k].csr /\ \A n \in 1..Len(certs) : certs'[n] = certs[n]
    BY <2>1 DEF LogsGrow
  <2> SUFFICES ASSUME world.reportsID
               PROVE  (\A x \in Kinds : FreshLocal(w[x])') /\ SignedOnce'
    BY <1>0 DEF FreshInv, world
  <2>3. \A n \in 1..Len(certs) : certs[n].csr # w[k].csr
    BY <1>0 DEF FreshInv, FreshLocal
  <2>4. SignedOnce'
    BY <1>0, <2>1, <2>2, <2>3 DEF FreshInv, SignedOnce
  <2>5. ASSUME NEW x \in Kinds PROVE FreshLocal(w[x])'
    <3>1. CASE x = k
      BY <1>1, <3>1 DEF FreshLocal
    <3>2. CASE x # k /\ w[x].pc \notin {"resolve", "sign"}
      BY <1>1, <3>2, KindsAreWorkers DEF FreshLocal, Moves
    <3>3. CASE x # k /\ w[x].pc \in {"resolve", "sign"}
      <4>1. w'[x] = w[x] /\ x \in Workers
        BY <1>1, <3>3, KindsAreWorkers DEF Moves
      <4>2. Asked[w[x].req].kind = x /\ Asked[w[k].req].kind = k
        BY <1>0, <3>3, <4>1, LocalTypesHold DEF SignInv, TypeOK, LocalTypes
      <4>3. csrs[w[x].csr].req = w[x].req /\ csrs[w[k].csr].req = w[k].req
        BY <1>0, <3>3 DEF FreshInv, FreshLocal
      <4>4. w[x].csr # w[k].csr
        BY <3>3, <4>2, <4>3
      <4>5. FreshLocal(w[x])
        BY DEF FreshInv
      <4> QED  BY <1>0, <2>1, <2>2, <3>3, <4>1, <4>4, <4>5 DEF FreshLocal
    <3> QED  BY <3>1, <3>2, <3>3
  <2> QED  BY <2>4, <2>5
<1> QED  BY <1>0, <1>2, <1>3, <1>4

\* Every other step leaves the certificates alone, and no worker closer to signing.
LEMMA FreshInvNext == SignInv /\ FreshInv /\ [Next]_vars => FreshInv'
<1> SUFFICES ASSUME SignInv, FreshInv, [Next]_vars PROVE FreshInv'
  OBVIOUS
<1>0. w \in [ Workers -> WorkerState ]
  BY DEF SignInv, TypeOK, WorkerTypes
<1>a. ASSUME UNCHANGED <<setting, kmp>>,
             \A k \in Kinds : w'[k] = w[k] \/ w'[k].pc \notin {"resolve", "sign"}
      PROVE  FreshInv'
  BY <1>a, KmpUnchanged, FreshFrame DEF FreshLocal, kmp
<1>b. ASSUME NEW k \in Workers, NEW blame \in {"issuer", "request"}, NEW result \in Results,
             NEW cert \in Nat, Return(k, blame, result, cert), w[k].pc # "idle",
             UNCHANGED <<setting, kmp>>
      PROVE  FreshInv'
  <2>1. Moves(k) /\ w'[k].pc = "finish"
    BY <1>b, ReturnMoves DEF SignInv, TypeOK
  <2> QED  BY <1>a, <1>b, <2>1, KindsAreWorkers DEF Moves
<1>c. ASSUME NEW k \in Workers, NEW e, Fail(k, e) \/ FailIssuer(k, e), w[k].pc # "idle",
             UNCHANGED <<setting, kmp>>
      PROVE  FreshInv'
  BY <1>b, <1>c DEF Fail, FailIssuer, permanentIfUnrecoverable, Results, NoID
<1>1. ASSUME NEW k \in Workers, ReadSecret(k) \/ HealthCheck(k) PROVE FreshInv'
  <2>0. w[k].pc \in {"secret", "ping"} /\ UNCHANGED <<setting, kmp>>
    BY <1>1 DEF ReadSecret, HealthCheck, Elsewhere
  <2>1. CASE \E e : FailIssuer(k, e)
    BY <1>c, <2>0, <2>1
  <2>2. CASE Return(k, "issuer", "ok", NoID)
    BY <1>b, <2>0, <2>2 DEF Results, NoID
  <2>3. CASE Goto(k, "import")
    <3>1. w'[k].pc = "import" /\ \A x \in Workers : x # k => w'[x] = w[x]
      BY <1>0, <2>3 DEF Goto, WorkerState
    <3> QED  BY <1>a, <2>0, <3>1, KindsAreWorkers
  <2>4. CASE w' = [ w EXCEPT ![k].pc = "ping", ![k].token = token ]
    <3>1. w'[k].pc = "ping" /\ \A x \in Workers : x # k => w'[x] = w[x]
      BY <1>0, <2>4 DEF WorkerState
    <3> QED  BY <1>a, <2>0, <3>1, KindsAreWorkers
  <2> QED  BY <1>1, <2>1, <2>2, <2>3, <2>4, Zenon DEF ReadSecret, HealthCheck
<1>2. ASSUME NEW k \in Kinds, FetchCertificate(k) PROVE FreshInv'
  <2>0. w[k].pc = "fetch" /\ UNCHANGED <<setting, kmp>> /\ k \in Workers /\ certs \in Seq(CertType)
    BY <1>2, KindsAreWorkers DEF FetchCertificate, Elsewhere, SignInv, TypeOK, ServiceTypes
  <2>1. CASE \E e : Fail(k, e)
    BY <1>c, <2>0, <2>1
  <2>2. ASSUME NEW returned \in SUBSET PublishedFor(csrs, certs, published, w[k].name, w[k].serial),
               Assemble(k, returned)
        PROVE  FreshInv'
    <3>1. CASE \E e : Fail(k, e)
      BY <1>c, <2>0, <3>1
    <3>2. ASSUME NEW n \in leavesFor(w[k].req, returned), Return(k, "request", "ok", n)
          PROVE  FreshInv'
      <4>1. n \in published
        BY <2>2, <3>2 DEF leavesFor, PublishedFor
      <4>2. n \in Nat
        BY <4>1 DEF SignInv, TypeOK, ServiceTypes
      <4> QED  BY <1>b, <2>0, <3>2, <4>2 DEF Results
    <3> QED  BY <2>2, <3>1, <3>2, Zenon DEF Assemble
  <2>3. CASE w' = [ w EXCEPT ![k].polls = @ + 1 ]
    <3>1. w'[k].pc = "fetch" /\ \A x \in Workers : x # k => w'[x] = w[x]
      BY <1>0, <2>0, <2>3 DEF WorkerState
    <3> QED  BY <1>a, <2>0, <3>1, KindsAreWorkers
  <2> QED  BY <1>2, <2>1, <2>2, <2>3, Zenon DEF FetchCertificate
<1>3. ASSUME NEW k \in Kinds, NEW r \in Requests, SkipRequest(k, r) \/ StartRequest(k, r)
      PROVE  FreshInv'
  <2>1. UNCHANGED <<setting, kmp>>
    BY <1>3 DEF SkipRequest, StartRequest, Take
  <2>2. CASE SkipRequest(k, r)
    BY <1>a, <2>1, <2>2 DEF SkipRequest
  <2>3. CASE StartRequest(k, r)
    <3> DEFINE v == [ Idle EXCEPT !.pc = "secret", !.req = r, !.spec = issuer.spec ]
    <3>1. w' = [ w EXCEPT ![k] = v ] /\ v.pc = "secret"
      BY <2>3 DEF StartRequest, Idle
    <3> HIDE DEF v
    <3>2. \A x \in Kinds : w'[x] = w[x] \/ w'[x].pc = "secret"
      BY <1>0, <3>1, KindsAreWorkers
    <3> QED  BY <1>a, <2>1, <3>2
  <2> QED  BY <1>3, <2>2, <2>3
<1>4. ASSUME NEW k \in Kinds, FinishRequest(k) \/ StoreFull(k) PROVE FreshInv'
  <2>1. CASE FinishRequest(k)
    <3>1. UNCHANGED <<setting, kmp>> /\ w' = [ w EXCEPT ![k] = Idle ]
      BY <2>1 DEF FinishRequest
    <3>2. \A x \in Kinds : w'[x] = w[x] \/ w'[x].pc = "idle"
      BY <1>0, <3>1, KindsAreWorkers, IdleType
    <3> QED  BY <1>a, <3>1, <3>2
  <2>2. CASE StoreFull(k)
    <3>1. w[k].pc = "import" /\ UNCHANGED <<setting, kmp>> /\ \E e : Fail(k, e)
      BY <2>2 DEF StoreFull, Elsewhere
    <3> QED  BY <1>c, <3>1, KindsAreWorkers
  <2> QED  BY <1>4, <2>1, <2>2
<1>5. ASSUME NEW k \in Kinds, RequestStep(k) PROVE FreshInv'
  BY <1>1, <1>2, <1>3, <1>4, <1>5, ImportFresh, ResolveFresh, SignFresh, KindsAreWorkers
  DEF RequestStep, SignStep
<1>6. CASE CheckStep
  <2>1. CASE StartCheck \/ FinishCheck
    <3>1. /\ UNCHANGED <<setting, kmp>>
          /\ UNCHANGED w \/ \E v : w' = [ w EXCEPT ![Checker] = v ]
      BY <2>1 DEF StartCheck, FinishCheck
    <3>2. \A x \in Kinds : w'[x] = w[x]
      BY <1>0, <3>1, KindsAreWorkers
    <3> QED  BY <1>a, <3>1, <3>2
  <2> QED  BY <1>1, <1>6, <2>1, KindsAreWorkers DEF CheckStep
<1>7. CASE Service
  <2>1. UNCHANGED <<setting, w, csrs, certs>>
    BY <1>7 DEF Service, ListCSR, PublishCertificate
  <2>2. LogsGrow
    BY <2>1, LogLengths DEF LogsGrow, SignInv, TypeOK
  <2> QED  BY <2>1, <2>2, FreshFrame
<1>8. CASE Crash
  <2>1. UNCHANGED <<setting, kmp>> /\ \A k \in Kinds : w'[k].pc = "idle"
    BY <1>8, IdleType, KindsAreWorkers DEF Crash
  <2> QED  BY <1>a, <2>1
<1>9. CASE Users \/ Tick \/ Wait \/ UNCHANGED vars
  <2>1. UNCHANGED <<setting, w, kmp>>
    BY <1>9 DEF Users, CreateRequest, EditIssuer, EditSecret, Tick, Wait, vars
  <2> QED  BY <1>a, <2>1
<1> QED  BY <1>5, <1>6, <1>7, <1>8, <1>9 DEF Next

\* Where importCSR reports ids, whatever two workers do side by side and however
\* often answers of signCSR are lost, no stored CSR is signed a second time: a
\* retry of Sign starts with an import of its own (Signer.Sign, resolveCSRID).
THEOREM ImportedSignedOnce == Spec => []SignedOnce
<1>1. Init => FreshInv
  <2> SUFFICES ASSUME Init PROVE FreshInv
    OBVIOUS
  <2>1. \A k \in Kinds : w[k].pc = "idle"
    BY IdleType, KindsAreWorkers DEF Init
  <2>2. Len(certs) = 0
    BY DEF Init
  <2>3. SignedOnce
    BY <2>2 DEF SignedOnce
  <2> QED  BY <2>1, <2>3 DEF FreshInv, FreshLocal
<1>2. FreshInv => SignedOnce
  BY DEF FreshInv, SignedOnce
<1> QED  BY <1>1, <1>2, FreshInvNext, SignInvHolds, PTL DEF Spec
=============================================================================
