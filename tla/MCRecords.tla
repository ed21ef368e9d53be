--------------------------------- MODULE MCRecords ---------------------------------
(* What editors record, for TLC: VerificationRegistry, GraphProposals and       *)
(* RelationTrust.  The registry shares nothing with the graph, and verifying    *)
(* and adjudicating an assessment change nothing of each other, so a behaviour  *)
(* moves one side only, on the part of the instance that matters to it.         *)
EXTENDS VerificationRegistry, RelationTrust, TLC

CONSTANTS p1, p2, p3, same, relation, v1, v2, d1, d2

Tuple == p1 :> relation @@ p2 :> relation @@ p3 :> relation @@ same :> NoTuple
Target == p1 :> v1 @@ p2 :> v1 @@ p3 :> v2 @@ same :> v1

VARIABLE side

recordVars == <<vars, relationVars, side>>

RecordsInit ==
    /\ side \in {"registry", "graph", "verify", "adjudicate"}
    /\ Init
    /\ TrustInit
    /\ side # "graph" => edge[relation] = NoRow

\* One decider at a time and the origins p1 and p2 of the edge are enough for the
\* assessments of p1; an adjudication needs the first alone.
FewDecisions ==
    /\ desk'[d2] = NoRow
    /\ \A p \in {p3, same} : proposal'[p] = NoRow

RecordsNext ==
    /\ UNCHANGED side
    /\ \/ side = "registry" /\ Next /\ UNCHANGED relationVars
       \/ side = "graph" /\ GraphNext /\ UNCHANGED <<vars, trustVars>>
       \/ /\ side = "verify" /\ TrustNext /\ UNCHANGED vars
          /\ FewDecisions
          /\ designated' = {} /\ \A r \in Seats : seat'[r].pc # "adjudicate"
       \/ /\ side = "adjudicate" /\ TrustNext /\ UNCHANGED vars
          /\ FewDecisions
          /\ proposal'[p2] = NoRow /\ \A r \in Seats : seat'[r].pc # "mark"

RecordsSpec == RecordsInit /\ [][RecordsNext]_recordVars

RecordsSymmetry == Permutations(Requests) \union Permutations(Seats)
===============================================================================
