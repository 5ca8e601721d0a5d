------------------------ MODULE MCRelationshipExchange ------------------------
(* The instances of RelationshipExchange that TLC checks. *)
EXTENDS RelationshipExchange, TLC

\* Exchange ids are uuids: any two behave alike.
Symmetry == Permutations(Exchange)
=============================================================================
