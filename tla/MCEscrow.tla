------------------------------ MODULE MCEscrow ------------------------------
(***************************************************************************)
(* Small instances of EscrowController.                                    *)
(***************************************************************************)
EXTENDS EscrowController, TLC

CONSTANTS o1, o2, s1

\* Resources differ only in the specs they are given.
mcSymmetry == Permutations(Objects)

mcSpec(secret, cn, dns, ips, org, renewBefore, password) ==
    [ secret |-> secret, commonName |-> cn, dnsNames |-> dns, ipAddresses |-> ips,
      organization |-> org, renewBefore |-> renewBefore, password |-> password ]

mcIPs == {"10.0.0.1"}

\* One spec, the same with an address added, and that with a supplied password
\* and with a renewBefore that reaches the lifetime of a certificate.
mcPlain == mcSpec(s1, "app", {"www"}, {}, "org", 0, "generated")
mcMore  == mcSpec(s1, "app", {"www"}, {"10.0.0.1"}, "org", 0, "generated")
mcUser  == [ mcMore EXCEPT !.password = "supplied", !.renewBefore = Lifetime ]

\* Without an organization, which a template could drop.
mcBareSpec  == {[ mcPlain EXCEPT !.organization = "" ]}
mcBareSpecs == mcBareSpec \cup {[ mcMore EXCEPT !.organization = "" ]}
mcOneSpec   == {mcPlain}
mcPasswords == {mcPlain, mcUser}

\* Answers of Key Manager Plus.
mcLost     == [ Success EXCEPT !.net = "refused" ]
mcBusy     == [ Success EXCEPT !.code = 503 ]
mcRejected == [ Success EXCEPT !.status = "other" ]
mcNothing  == [ Success EXCEPT !.payload = "none" ]

mcReliable  == {Success}
mcTransient == {Success, mcLost, mcBusy}
mcAnswers   == {Success, mcLost, mcRejected, mcNothing}
=============================================================================
