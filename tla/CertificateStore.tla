-------------------------- MODULE CertificateStore --------------------------
(***************************************************************************)
(* What the two flows promise their users, without Key Manager Plus, work  *)
(* queues or retries: a place (the Secret of a KMPCertificate, the status  *)
(* of a request) holds nothing, or a certificate that has been issued      *)
(* together with the key it has been issued for.  Whoever has a place      *)
(* keeps it until it is given up, and nothing issued is ever changed.      *)
(***************************************************************************)
EXTENDS Naturals, Sequences

CONSTANTS
    Places,     \* where certificates are published
    Owners,     \* who publishes them
    Keys        \* the keys they are issued for

VARIABLES
    issued,     \* the key of each certificate, in the order they were issued
    held        \* what each place holds

vars == <<issued, held>>

NoOne == "none"
Empty == [ taken |-> FALSE ]
Holding(owner, cert, key) == [ taken |-> TRUE, owner |-> owner, cert |-> cert, key |-> key ]

\* A place somebody prepared, without a certificate.
Prepared == Holding(NoOne, 0, 0)

Init ==
    /\ issued = <<>>
    /\ held \in [ Places -> {Empty, Prepared} ]

\* One more certificate; those that were issued stay what they were.
Issue ==
    /\ Len(issued') = Len(issued) + 1
    /\ issued'[Len(issued) + 1] \in Keys
    /\ \A n \in 1..Len(issued) : issued'[n] = issued[n]
    /\ UNCHANGED held

Free(place, owner) == held[place].taken => held[place].owner \in {owner, NoOne}

Publish(place) ==
    /\ \E owner \in Owners, n \in 1..Len(issued) :
        /\ Free(place, owner)
        /\ held' = [ held EXCEPT ![place] = Holding(owner, n, issued[n]) ]
    /\ UNCHANGED issued

GiveUp(place) ==
    /\ held' = [ held EXCEPT ![place] = Empty ]
    /\ UNCHANGED issued

Next == Issue \/ \E place \in Places : Publish(place) \/ GiveUp(place)

Spec == Init /\ [][Next]_vars
=============================================================================
