--------------------------- MODULE MCCommunityAsks ---------------------------
(* A submit made twice, and a status read, as one of two identities.        *)
EXTENDS CommunityAsks, TLC
CONSTANTS d1, d2, submit, submit2, status

TheCalls == {submit, submit2, status}
DidOf == [c \in TheCalls |-> d1]
KeyOf == [c \in TheCalls |-> IF c = status THEN status ELSE submit]

\* The two submits are identical.
Symmetry == Permutations({submit, submit2})

\* Two calls under way at once.
TwoAtOnce == Cardinality({c \in Calls : call[c] \notin {"idle", "answered", "failed"}}) <= 2
=============================================================================
