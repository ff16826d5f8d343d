-------------------------- MODULE MCOAuthSessions --------------------------
EXTENDS OAuthSessions, TLC

CONSTANT u1

MCOwnerOf == [f \in Flows |-> u1]
Symmetry == Permutations(Sessions) \cup Permutations(Requests)
                \cup Permutations(Flows)
=============================================================================
