------------------------------- MODULE Bundle -------------------------------
(***************************************************************************)
(* BuildBundle of internal/kmp/chain.go: out of the certificates an answer *)
(* of Key Manager Plus holds, pick the one issued for the requested key    *)
(* and order the chain above it.  One step per pass of the loop.           *)
(*                                                                         *)
(* A certificate is a record of its subject and issuer names, its public   *)
(* key, the key its signature verifies with, and whether it may sign at    *)
(* all.  Names and keys are independent: two authorities may share a name, *)
(* one key may be certified twice (cross-signing).                         *)
(***************************************************************************)
EXTENDS Naturals, Sequences

CONSTANTS
    Pool,       \* the certificates Key Manager Plus may hold
    CSRKeys,    \* the public keys of requests
    MaxCerts    \* bound: certificates in one answer

NoKey == "none"     \* no public key to compare with

ASSUME PoolAssumption ==
    /\ \A c \in Pool : c.isCA \in {TRUE, FALSE}
    /\ NoKey \notin CSRKeys
ASSUME MaxCertsAssumption == MaxCerts \in Nat

VARIABLES
    certs,      \* the certificates of the answer, in the order they were found
    csrKey,     \* the public key of the request, or NoKey
    chain,      \* the chain so far, leaf first
    remaining,  \* the certificates not yet in it
    pc          \* "leaf", "climb", "done" or "failed"

vars == <<certs, csrKey, chain, remaining, pc>>

Elements(s) == { s[i] : i \in 1..Len(s) }
Last(s) == s[Len(s)]

\* certificatesFromStrings drops what it has seen before.
Distinct(s) == \A i, j \in 1..Len(s) : s[i] = s[j] => i = j

\* CheckSignatureFrom: the parent may sign, and its key verifies the signature.
CheckSignatureFrom(child, parent) == parent.isCA /\ child.signedBy = parent.key

isSelfSigned(c) == c.subject = c.issuer /\ CheckSignatureFrom(c, c)

isIssuer(candidate, child) ==
    candidate.subject = child.issuer /\ CheckSignatureFrom(child, candidate)

\* The positions popIssuer and findLeaf stop at: the first that fits.
issuerAt(s, child) ==
    { i \in 1..Len(s) : /\ isIssuer(s[i], child)
                        /\ \A j \in 1..(i - 1) : ~isIssuer(s[j], child) }

leafAt(s, key) ==
    { i \in 1..Len(s) : IF key = NoKey
                        THEN i = 1
                        ELSE /\ s[i].key = key
                             /\ \A j \in 1..(i - 1) : s[j].key # key }

\* Mutant: the candidate that was taken stays among the remaining ones.
withoutNothing(s, i) == s

without(s, i) == SubSeq(s, 1, i - 1) \o SubSeq(s, i + 1, Len(s))

-----------------------------------------------------------------------------
Inputs == UNION { { s \in [ 1..n -> Pool ] : Distinct(s) } : n \in 0..MaxCerts }

Init ==
    /\ certs \in Inputs /\ csrKey \in CSRKeys \cup {NoKey}
    /\ chain = <<>> /\ remaining = <<>> /\ pc = "leaf"

\* No certificate, or none for the requested key: the answer is unusable.
NoLeaf ==
    /\ pc = "leaf" /\ leafAt(certs, csrKey) = {}
    /\ pc' = "failed"
    /\ UNCHANGED <<certs, csrKey, chain, remaining>>

FindLeaf ==
    /\ pc = "leaf"
    /\ \E i \in leafAt(certs, csrKey) :
        chain' = <<certs[i]>> /\ remaining' = without(certs, i)
    /\ pc' = "climb"
    /\ UNCHANGED <<certs, csrKey>>

PopIssuer ==
    /\ pc = "climb"
    /\ \E i \in issuerAt(remaining, Last(chain)) :
        /\ chain' = Append(chain, remaining[i])
        /\ remaining' = without(remaining, i)
        /\ pc' = IF isSelfSigned(remaining[i]) THEN "done" ELSE "climb"
    /\ UNCHANGED <<certs, csrKey>>

\* Mutants: the loop goes on when there is no issuer; it gives up when the
\* certificate that comes next is not the issuer.
NoIssuerContinues ==
    /\ pc = "climb" /\ \A i \in 1..Len(remaining) : ~isIssuer(remaining[i], Last(chain))
    /\ UNCHANGED vars
NoIssuerAtFront ==
    /\ pc = "climb" /\ \A i \in 1..Len(remaining) : i = 1 => ~isIssuer(remaining[i], Last(chain))
    /\ pc' = "done"
    /\ UNCHANGED <<certs, csrKey, chain, remaining>>

NoIssuer ==
    /\ pc = "climb" /\ \A i \in 1..Len(remaining) : ~isIssuer(remaining[i], Last(chain))
    /\ pc' = "done"
    /\ UNCHANGED <<certs, csrKey, chain, remaining>>

\* The bundle, or the error, has been returned.
Returned == pc \in {"done", "failed"} /\ UNCHANGED vars

Next == NoLeaf \/ FindLeaf \/ PopIssuer \/ NoIssuer \/ Returned

Spec == Init /\ [][Next]_vars

\* The loop runs in the caller's goroutine and waits for nothing.
FairSpec == Spec /\ WF_vars(NoLeaf \/ FindLeaf \/ PopIssuer \/ NoIssuer)

-----------------------------------------------------------------------------
\* The type invariant of the loop's variables (BuildBundle): what has been taken
\* out of the answer is in the chain.
TypeOK ==
    /\ certs \in Seq(Pool) /\ csrKey \in CSRKeys \cup {NoKey}
    /\ chain \in Seq(Pool) /\ remaining \in Seq(Pool)
    /\ pc \in {"leaf", "climb", "done", "failed"}
    /\ pc \in {"climb", "done"} =>
        chain # <<>> /\ Len(chain) + Len(remaining) = Len(certs)

\* pki.ParseSingleCertificateChainPEM "rejects a bundle that is not a single
\* chain" (Bundle.ChainPEM, chain.go:37-40): every certificate is signed by the
\* next, no certificate comes twice, and the first one is for the request's key.
SingleChain ==
    chain # <<>> =>
        /\ \A i \in 1..(Len(chain) - 1) : isIssuer(chain[i + 1], chain[i])
        /\ Distinct(chain)
        /\ csrKey # NoKey => chain[1].key = csrKey

\* The certificates of the answer that follow from those in S: their issuers.
ClosedUnderIssuers(S) ==
    \A c \in S, d \in Elements(certs) : isIssuer(d, c) => d \in S

\* A root that some chain of the answer's certificates leads to from the leaf.
ReachableRoot(root) ==
    /\ root \in Elements(certs) /\ isSelfSigned(root)
    /\ \A S \in SUBSET Elements(certs) :
        chain[1] \in S /\ ClosedUnderIssuers(S) => root \in S

\* No certificate of the answer has two issuers in it.
NoCrossSigning ==
    \A c, d, e \in Elements(certs) : isIssuer(d, c) /\ isIssuer(e, c) => d = e

\* "ending at the root when Key Manager Plus returned one" (chain.go:33-35):
\* whatever the order of the answer, and whatever else is in it, the chain ends
\* at the root it can reach, as long as nothing in the answer is cross-signed.
EndsAtRoot ==
    pc = "done" /\ NoCrossSigning =>
        \A root \in Elements(certs) : ReachableRoot(root) => Last(chain) = root

\* BuildBundle returns on every answer, also when authorities signed each other.
Terminates == <>(pc \in {"done", "failed"})
=============================================================================
