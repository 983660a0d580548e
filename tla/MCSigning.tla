----------------------------- MODULE MCSigning -----------------------------
(***************************************************************************)
(* Two requests of one name, of either kind, for different keys.  One is   *)
(* for a CA certificate and has no common name, only the DNS name.  The    *)
(* durations are just above a day and less than one.                       *)
(***************************************************************************)
EXTENDS RequestSigning

mcAsk(kind, cn, dns, first, key, isCA, hours) ==
    [ kind |-> kind, id |-> Identity(cn, dns, {}, ""), first |-> first, key |-> key,
      isCA |-> isCA, hours |-> hours ]

mcAsked ==
    [ r \in {"cr", "csr"} |->
        IF r = "cr" THEN mcAsk("CertificateRequest", "app", {"app", "www"}, "www", "k1", FALSE, 25)
                    ELSE mcAsk("CertificateSigningRequest", "", {"app"}, "app", "k2", TRUE, 1) ]

\* Signing with a root, through an agent, and options that do not validate.
mcRoot ==
    [ URL |-> "usable", SignType |-> "signWithRoot", ServerName |-> "", CAName |-> "",
      TemplateName |-> "", AgentName |-> "", AgentResponseTimeoutSeconds |-> 0,
      RootCertificateCommonName |-> "root", RootCertificateSerialNumber |-> "",
      ValidityDays |-> 0, IsIntermediate |-> "nil", CSRLookupOperation |-> "getCSRs" ]
mcAgent ==
    [ mcRoot EXCEPT !.SignType = "MSCAusingAgent", !.ServerName = "s", !.CAName = "c",
                    !.TemplateName = "t", !.AgentName = "a", !.CSRLookupOperation = "" ]
mcInvalid == [ mcAgent EXCEPT !.AgentName = "" ]

mcLost     == [ Success EXCEPT !.net = "refused" ]
mcBusy     == [ Success EXCEPT !.code = 503 ]
mcRejected == [ Success EXCEPT !.status = "other", !.message = "failure" ]

\* Outages only, in front of a Key Manager Plus that identifies everything.
mcOutages ==
    [ requests |-> {"cr", "csr"}, specs |-> {mcRoot}, tokens |-> {"good"},
      replies |-> {Success, mcLost, mcBusy}, templates |-> {"supplied"},
      reportsID |-> TRUE, reportsSerial |-> TRUE, reportsName |-> FALSE,
      listLag |-> FALSE, publishLag |-> TRUE, faults |-> 1, edits |-> 0 ]

\* The same for one request, with a Secret that comes and goes.
mcMissing ==
    [ mcOutages EXCEPT !.requests = {"cr"}, !.tokens = {"missing", "good"}, !.faults = 2 ]

\* Ids are looked up, certificates are fetched by name.
mcByName ==
    [ mcOutages EXCEPT !.replies = {Success}, !.templates = {"supplied", "dropsNames"},
                       !.reportsID = FALSE, !.reportsSerial = FALSE, !.reportsName = TRUE,
                       !.listLag = TRUE, !.publishLag = FALSE, !.faults = 0 ]

\* As documented: no id and no name is reported.
mcAnonymous ==
    [ mcByName EXCEPT !.templates = {"supplied"}, !.reportsName = FALSE,
                      !.listLag = FALSE, !.publishLag = TRUE ]

\* An issuer and a Secret that are misconfigured in one way or another.
mcBroken ==
    [ mcOutages EXCEPT !.requests = {"csr"}, !.specs = {mcAgent, mcInvalid},
                       !.tokens = Tokens \ {"missing"}, !.replies = {Success, mcRejected},
                       !.publishLag = FALSE, !.reportsID = FALSE, !.faults = 1, !.edits = 1 ]

mcSettings ==
    [ outages |-> mcOutages, missing |-> mcMissing, byName |-> mcByName,
      anonymous |-> mcAnonymous, broken |-> mcBroken ]

mcSecret ==
    [ rejected |-> [ mcOutages EXCEPT !.requests = {"cr"}, !.tokens = {"rejected", "good"},
                                      !.replies = {Success}, !.faults = 0 ] ]
=============================================================================
