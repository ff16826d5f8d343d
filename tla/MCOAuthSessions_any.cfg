SPECIFICATION Spec
CONSTANTS
  u1 = u1  Users = {u1}  Orgs = {o1}  Flows = {f1, f2}  Sessions = {s1, s2}
  Requests = {r1, r2}
  NoFlow = NoFlow  NoSession = NoSession  NoOrg = NoOrg
  OwnerOf <- MCOwnerOf
  MaxPairs = 2  MaxChanges = 1
SYMMETRY Symmetry
INVARIANTS TypeOK BagHasOneOutcome CodeYieldsOneSession ServedWereMembers HeldPairIsCurrent RevocationHasCause
PROPERTY RevokedForGood
CHECK_DEADLOCK FALSE
