SPECIFICATION Spec
CONSTANTS
  Users = {u1, u2}
  Requests = {q1, q2}
  Invites = {i1}
  None = None
  OrgRoles = {"admin", "guest"}
  CaseRoles = {"owner"}
SYMMETRY Symmetry
INVARIANTS TypeOK KeepsLead
PROPERTIES RevokedAdmitsNobody
