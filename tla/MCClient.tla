------------------------------ MODULE MCClient ------------------------------
(***************************************************************************)
(* The client on its own: every operation on every answer, and the search  *)
(* for the id of a CSR in small documents.                                 *)
(***************************************************************************)
EXTENDS ClientCalls, Responses

VARIABLES doc, found        \* a document, and the id found in it

(***************************************************************************)
(* Documents: records of up to two fields, one of which may be a record    *)
(* itself, and lists of two such records, bare or in a field.              *)
(***************************************************************************)
mcName == Scalar("text", 1)
mcScalars ==
    { Field("id", Scalar("number", 1)), Field("id", Scalar("number", 2)),
      Field("id", Scalar("text", 1)), Field("id", Scalar("text", 2)), Field("id", Blank),
      Field("name", mcName), Field("name", Scalar("text", 2)) }

mcMaps(fields) == { Map(s) : s \in UNION { [ 1..n -> fields ] : n \in 0..2 } }
mcFlat == mcMaps(mcScalars)
mcLists == { List(<<a, b>>) : a, b \in mcFlat }
mcDocs ==
    mcMaps(mcScalars \cup { Field("other", m) : m \in mcFlat }) \cup mcLists
        \cup { Map(<<Field("other", l)>>) : l \in mcLists }

\* An answer that succeeds carries a document; the others are met without one.
MCInit ==
    /\ Init /\ found = NotFound
    /\ doc \in IF answer = Success THEN mcDocs ELSE {Map(<<>>)}

\* The id that a lookup finds, or the one that ImportCSR reads, in a document.
Search ==
    /\ op = "none"
    /\ \/ op' = "foundID" /\ found' \in foundCSRIDs(doc, mcName)
       \/ op' = "readID" /\ found' \in findScalar(doc, "id")
    /\ UNCHANGED <<answer, err, doc>>

MCNext == Search \/ (Next /\ UNCHANGED <<doc, found>>)

MCSpec == MCInit /\ [][MCNext]_<<vars, doc, found>>

-----------------------------------------------------------------------------
RECURSIVE Nodes(_)
Nodes(node) == UNION { Nodes(children(node)[i]) : i \in DOMAIN children(node) } \cup {node}

\* The ids that stand in one record with the name that is looked for.
IDsBesideName ==
    UNION { under(m, "id") : m \in { n \in Nodes(doc) :
        n.type = "map" /\ mcName \in under(n, "name") } }
IDsAnywhere == UNION { under(m, "id") : m \in { n \in Nodes(doc) : n.type = "map" } }

\* "Signing the wrong request would issue a certificate for someone else's key"
\* (FindCSRID, client.go:398-401): however the document is nested and in whatever
\* order its maps are read, the id found belongs to the name, and is the highest
\* number among those that do; without names only a document with one id counts.
LookupFindsOwn ==
    op = "foundID" /\ found # NotFound =>
        \/ /\ found \in IDsBesideName
           /\ LET numbers == { v.n : v \in { u \in IDsBesideName : u.kind = "number" } }
              IN  numbers # {} => found.kind = "number" /\ found.n \in highestID(numbers)
        \/ /\ IDsAnywhere = {found}
           /\ \A m \in Nodes(doc) : m.type = "map" => under(m, "name") = {}

\* The two searches agree: an id is read from an import response exactly when
\* there is one anywhere (findScalar against all nodes), so that a lookup is not
\* made, or an issuance given up, for an id that was there (ImportCSR).
IDReadWhenThere ==
    op = "readID" =>
        IF IDsAnywhere = {} THEN found = NotFound ELSE found \in IDsAnywhere
=============================================================================
