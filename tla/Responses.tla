----------------------------- MODULE Responses -----------------------------
(***************************************************************************)
(* The search for fields in a decoded answer (internal/kmp/response.go)    *)
(* and for the id of a stored CSR in it (FindCSRID).                       *)
(*                                                                         *)
(* A document is a scalar, a list, or a map.  The fields of a map come in  *)
(* the order of their keys (sortedKeys); a key is reduced to its role, the *)
(* list of key names it is found in after normalisation: two keys of one   *)
(* map may have one role.  Where the code ranges over a Go map its order   *)
(* is a choice, so a search has a set of outcomes.                         *)
(***************************************************************************)
EXTENDS Integers, Sequences, SequencesExt

\* Scalars: numbers (quoted or bare), other texts, and what is empty or null.
Scalar(kind, n) == [ type |-> "scalar", kind |-> kind, n |-> n ]
Blank == Scalar("blank", 0)
Field(role, value) == [ role |-> role, value |-> value ]
Map(fields) == [ type |-> "map", fields |-> fields ]
List(items) == [ type |-> "list", items |-> items ]

NotFound == Blank

\* scalarString: the value has a text, and it is not empty.
scalarString(v) == v.type = "scalar" /\ v.kind # "blank"

\* The scalars a map has under keys of one role.
under(map, role) ==
    { map.fields[i].value : i \in { j \in DOMAIN map.fields :
        map.fields[j].role = role /\ scalarString(map.fields[j].value) } }

\* What is searched when nothing is found in a node itself.
children(node) ==
    CASE node.type = "map"  -> [ i \in DOMAIN node.fields |-> node.fields[i].value ]
      [] node.type = "list" -> node.items
      [] OTHER              -> <<>>

\* Mutant: nothing below the first level is searched.
findScalarAtTop(node, role) ==
    IF node.type = "map" /\ under(node, role) # {} THEN under(node, role) ELSE {NotFound}

\* findScalar: a match at this level, any of them, before the first one below.
RECURSIVE findScalar(_, _)
findScalar(node, role) ==
    IF node.type = "map" /\ under(node, role) # {}
    THEN under(node, role)
    ELSE LET kids  == children(node)
             found == { i \in DOMAIN kids : findScalar(kids[i], role) # {NotFound} }
         IN  IF found = {} THEN {NotFound}
             ELSE findScalar(kids[CHOOSE i \in found : \A j \in found : i <= j], role)

\* collectStringsFor: all of them, in the order of the keys.
RECURSIVE collectStringsFor(_, _)
collectStringsFor(node, role) ==
    LET kids == children(node)
        here(i) == IF /\ node.type = "map" /\ node.fields[i].role = role
                      /\ scalarString(kids[i])
                   THEN <<kids[i]>> ELSE <<>>
    IN  FoldLeft(LAMBDA all, some : all \o some, <<>>,
                 [ i \in DOMAIN kids |-> here(i) \o collectStringsFor(kids[i], role) ])

recordMatches(map, commonName) == commonName \in under(map, "name")

\* Mutant: the first id that is found is kept.
considerFirst(best, id) == IF best = NotFound THEN id ELSE best

\* One id of a matching record: a larger number replaces what there is, a text
\* is taken only while there is nothing.
consider(best, id) ==
    CASE id.kind = "number" /\ best.kind # "number" /\ id.n >= 0 -> id
      [] id.kind = "number" /\ best.kind = "number" /\ id.n > best.n -> id
      [] id.kind = "text" /\ best = NotFound -> id
      [] OTHER -> best

\* findIDForCommonName: the walk, from the ids that may be the best so far.
RECURSIVE walk(_, _, _)
walk(node, commonName, bests) ==
    LET ids  == IF node.type = "map" /\ recordMatches(node, commonName)
                THEN under(node, "id") ELSE {}
        here == { FoldLeft(consider, best, order) : best \in bests, order \in SetToSeqs(ids) }
    IN  FoldLeft(LAMBDA sofar, kid : walk(kid, commonName, sofar), here, children(node))

findIDForCommonName(doc, commonName) == walk(doc, commonName, {NotFound})

\* FindCSRID: an id beside the name, or the only id where nothing is named.
foundCSRIDs(doc, commonName) ==
    LET beside == findIDForCommonName(doc, commonName)
        ids    == collectStringsFor(doc, "id")
    IN  IF beside # {NotFound} THEN beside
        ELSE IF Len(ids) = 1 /\ collectStringsFor(doc, "name") = <<>>
             THEN {ids[1]} ELSE {NotFound}
=============================================================================
