------------------------- MODULE OAuthSessions_proofs -------------------------
(***************************************************************************)
(* The authorization server for any users, organizations, flows, sessions  *)
(* and requests in flight.  IInv is inductive; each lemma below shows one  *)
(* of its parts kept by every step.                                        *)
(***************************************************************************)
EXTENDS OAuthSessions, TLAPS

(* A request past its first statement names the rows it has read.          *)
AtConsent == {"decoded", "consumed", "eligible"}
AtSession == {"rowread", "rotate", "reuse", "outsider"}
RequestOK(r) ==
    /\ req[r].pc \in AtConsent \cup {"coderead"} => req[r].flow \in Flows
    /\ req[r].pc = "coderead" => code[req[r].flow].st # "none"
    /\ req[r].pc = "eligible" => req[r].org \in Orgs
    /\ req[r].pc = "found" => req[r].session \in Sessions
                              /\ Exists(req[r].session)
    /\ req[r].pc \in AtSession =>
         /\ req[r].flow \in Flows
         /\ req[r].session \in Sessions
         /\ row[req[r].session].flow = req[r].flow
    /\ req[r].pc \in AtSession => req[r].op \in {"refresh", "call"}
    /\ req[r].pc \in {"decoded"} => req[r].op \in {"allow", "deny"}
    /\ req[r].pc \in {"consumed", "eligible"} => req[r].op = "allow"
RequestInv == \A r \in Requests : RequestOK(r)

(* Sessions belong to the organization of their code.                      *)
RowInv == \A s \in Sessions : Exists(s) => row[s].org \in Orgs
CodeOrgInv == \A f \in Flows : code[f].st # "none" => code[f].org \in Orgs

(* Between the insert of the consumed row and the code there is one request *)
(* per bag, and no outcome yet.                                            *)
Pending(r) == req[r].pc \in {"consumed", "eligible"}
BagInv ==
  /\ \A f \in Flows : outcomes[f] <= 1
  /\ \A f \in Flows : ~consumed[f] => outcomes[f] = 0
  /\ \A r \in Requests : Pending(r) => /\ consumed[req[r].flow]
                                       /\ outcomes[req[r].flow] = 0
  /\ \A r, q \in Requests :
       Pending(r) /\ Pending(q) /\ req[r].flow = req[q].flow => r = q

(* A code is issued once, so it is used once.                              *)
IssuedInv == \A f \in Flows : code[f].st # "none" => outcomes[f] > 0
CodeInv ==
  /\ \A f \in Flows : code[f].used => outcomes[f] > 0
  /\ \A s \in Sessions : Exists(s) => code[row[s].flow].used
  /\ CodeYieldsOneSession

(* A membership found good was good; one found missing has lapsed.         *)
EntitledInv ==
  /\ \A u \in Users, o \in Orgs : ~Eligible(u, o) => <<u, o>> \in lapsed
  /\ \A r \in Requests :
       /\ /\ req[r].pc = "rowread"
          /\ Eligible(OwnerOf[req[r].flow], row[req[r].session].org)
          => req[r].entitled
       /\ req[r].pc = "rotate" => req[r].entitled
       /\ req[r].pc = "served" /\ req[r].op \in {"refresh", "call"}
            => req[r].entitled

(* What makes a request revoke all sessions of its owner.                  *)
CauseInv ==
  /\ \A r \in Requests :
       /\ req[r].pc = "reuse" => row[req[r].session].revoked # "no"
       /\ req[r].pc = "outsider" =>
            <<OwnerOf[req[r].flow], row[req[r].session].org>> \in lapsed
  /\ \A s \in Sessions : row[s].revoked # "no" => Exists(s)
  /\ RevocationHasCause

(* While nothing overlaps and nothing is lost, the pair of the row is the  *)
(* one answer under way, or else what the client holds.                    *)
PairInv ==
  \A f \in Flows :
    /\ (\A s \in Sessions : row[s].flow # f) =>
         held[f] = 0 /\ answers[f] = {} /\ ~Refreshing(f)
    /\ smooth[f] =>
         /\ \A r, q \in Requests :
              /\ req[r].op = "refresh" /\ req[r].flow = f /\ ~Free(r)
              /\ req[q].op = "refresh" /\ req[q].flow = f /\ ~Free(q)
              => r = q
         /\ Refreshing(f) => answers[f] = {}
         /\ \A s \in Sessions : row[s].flow = f =>
              /\ row[s].access = row[s].refresh
              /\ answers[f] = {} => held[f] = row[s].refresh
              /\ answers[f] # {} => answers[f] = {row[s].refresh}

(* Only a refresh rotates.                                                 *)
RefreshInv == \A r \in Requests :
    req[r].pc \in {"rotate", "outsider"} => req[r].op = "refresh"

IInv == /\ TypeOK /\ RequestInv /\ RowInv /\ CodeOrgInv /\ BagInv /\ IssuedInv
        /\ CodeInv /\ RefreshInv
        /\ EntitledInv /\ CauseInv /\ PairInv


(* The initial states satisfy every part of IInv.                          *)
LEMMA InitIInv == Init => IInv
  <1> SUFFICES ASSUME Init PROVE IInv
    OBVIOUS
  <1> USE NoneAssumption, OwnerAssumption
          DEF Init, NoCode, NoRow, Idle, Exists, Eligible
  <1>1. /\ NoRow \in Rows
        /\ Idle \in Requested
        /\ NoCode \in [st : {"none", "fresh", "old"}, used : BOOLEAN,
                      org : Orgs \cup {NoOrg}]
    BY DEF Rows, Requested, Counters, Operations
  <1>6. TypeOK
    <2> HIDE DEF NoRow, Idle, NoCode
    <2> QED
      BY <1>1 DEF TypeOK
  <1>2. RequestInv /\ RowInv /\ CodeOrgInv
    BY DEF RequestInv, RequestOK, RowInv, CodeOrgInv, AtConsent, AtSession
  <1>3. BagInv /\ IssuedInv /\ CodeInv
    BY DEF BagInv, Pending, CodeInv, CodeYieldsOneSession, IssuedInv
  <1>4. EntitledInv /\ CauseInv
    BY DEF EntitledInv, CauseInv, RevocationHasCause
  <1>5. PairInv /\ RefreshInv
    BY DEF PairInv, RefreshInv, Refreshing, Free
  <1> QED
    BY <1>6, <1>2, <1>3, <1>4, <1>5 DEF IInv

(* The parts of TypeOK.                                                     *)
ReqType == req \in [Requests -> Requested]
RowType == row \in [Sessions -> Rows]
CodeType == code \in [Flows -> [st : {"none", "fresh", "old"}, used : BOOLEAN,
                               org : Orgs \cup {NoOrg}]]
RestType ==
  /\ member \in [Users -> SUBSET Orgs]
  /\ bag \in [Flows -> {"none", "signed", "old"}]
  /\ consumed \in [Flows -> BOOLEAN]
  /\ held \in [Flows -> Nat]
  /\ answers \in [Flows -> SUBSET Nat]
  /\ issued \in [Flows -> Nat]
  /\ changes \in Nat
  /\ outcomes \in [Flows -> Nat]
  /\ asked \subseteq Sessions
  /\ lapsed \subseteq Users \X Orgs
  /\ smooth \in [Flows -> BOOLEAN]

(* TypeOK is the conjunction of its parts.                                 *)
LEMMA Types == TypeOK <=> ReqType /\ RowType /\ CodeType /\ RestType
  BY DEF TypeOK, ReqType, RowType, CodeType, RestType

(* The row exchangeCode inserts is a row.                                  *)
LEMMA RowUpdates ==
  ASSUME NEW f \in Flows, NEW o \in Orgs \cup {NoOrg}, NEW n \in Nat
  PROVE  [NoRow EXCEPT !.flow = f, !.org = o, !.access = n, !.refresh = n]
            \in Rows
  BY DEF Rows, NoRow

(* Moving on, refusing and starting keep the type of requests.             *)
LEMMA GoToType ==
  ASSUME ReqType, NEW r \in Requests, NEW pc \in Counters, GoTo(r, pc)
  PROVE  ReqType'
  BY DEF ReqType, Requested, GoTo

(* ... refusing ...                                                        *)
LEMMA RefuseType ==
  ASSUME ReqType, NEW r \in Requests, Refuse(r)
  PROVE  ReqType'
  BY DEF ReqType, Requested, Refuse, Idle, Counters, Operations

(* A request that starts at session s.                                     *)
StartsAt(r, pc, op, f, s, b) ==
  req' = [req EXCEPT ![r] = [Idle EXCEPT !.pc = pc, !.op = op, !.flow = f,
                                !.session = s, !.entitled = b]]
(* ... and starting at a session.                                          *)
LEMMA StartType ==
  ASSUME ReqType, NEW r \in Requests, NEW pc \in Counters, NEW op \in Operations,
         NEW f \in Flows \cup {NoFlow}, NEW s \in Sessions, NEW b \in BOOLEAN,
         StartsAt(r, pc, op, f, s, b)
  PROVE  ReqType'
  BY DEF ReqType, Requested, Idle, StartsAt

(* Requests keep their type.                                               *)
LEMMA StepReqType ==
  ASSUME ReqType, [Next]_vars
  PROVE  ReqType'
  <1> USE DEF Free, Refuse, GoTo, Idle, server, client, history
  <1>1. CASE UNCHANGED vars
    BY <1>1 DEF vars, ReqType, Requested, Counters, Operations
  <1>2. ASSUME NEW r \in Requests, Serve(r) PROVE ReqType'
    <2>1. ASSUME NEW f \in Flows, NEW op \in {"allow", "deny"}, Decode(r, f, op)
          PROVE  ReqType'
      BY <2>1 DEF Decode, ReqType, Requested, Counters, Operations
    <2>2. CASE Consume(r)
      BY <2>2 DEF Consume, ReqType, Requested, Counters, Operations
    <2>3. CASE ConsumeConflicts(r)
      BY <2>3 DEF ConsumeConflicts, ReqType, Requested, Counters, Operations
    <2>4. ASSUME NEW o \in Orgs, CheckConsent(r, o)
          PROVE  ReqType'
      <3>1. CASE Eligible(OwnerOf[req[r].flow], o)
        BY <3>1, <2>4 DEF CheckConsent, ReqType, Requested, Counters
      <3>2. CASE ~Eligible(OwnerOf[req[r].flow], o)
        BY <3>2, <2>4, RefuseType DEF CheckConsent
      <3> QED
        BY <3>1, <3>2
    <2>5. CASE IssueCode(r)
      BY <2>5 DEF IssueCode, ReqType, Requested, Counters, Operations
    <2>6. ASSUME NEW f \in Flows, ReadCode(r, f)
          PROVE  ReqType'
      BY <2>6 DEF ReadCode, ReqType, Requested, Counters, Operations
    <2>7. ASSUME NEW s \in Sessions, Exchange(r, s)
          PROVE  ReqType'
      BY <2>7 DEF Exchange, ReqType, Requested, Counters, Operations
    <2>8. CASE ExchangeLoses(r)
      BY <2>8 DEF ExchangeLoses, ReqType, Requested, Counters, Operations
    <2>9. ASSUME NEW f \in Flows, Refresh(r, f)
          PROVE  ReqType'
      <3>1. CASE Refuse(r)
        BY <3>1, RefuseType
      <3>2. ASSUME NEW s \in Sessions, NEW pc \in {"rowread", "reuse"},
                   StartsAt(r, pc, "refresh", f, s,
                            Eligible(OwnerOf[f], row[s].org))
            PROVE  ReqType'
        <4>1. Eligible(OwnerOf[f], row[s].org) \in BOOLEAN
          BY DEF Eligible
        <4> QED
          BY <3>2, <4>1, StartType DEF Counters, Operations
      <3>3. \/ Refuse(r)
            \/ \E s \in Sessions, pc \in {"rowread", "reuse"} :
                 StartsAt(r, pc, "refresh", f, s, Eligible(OwnerOf[f], row[s].org))
        BY <2>9 DEF Refresh, StartsAt
      <3> QED
        BY <3>1, <3>2, <3>3
    <2>10. CASE CheckOwner(r)
      BY <2>10 DEF CheckOwner, ReqType, Requested, Counters, Operations
    <2>11. CASE Rotate(r)
      BY <2>11 DEF Rotate, ReqType, Requested, Counters, Operations
    <2>12. CASE RevokeAll(r)
      BY <2>12 DEF RevokeAll, ReqType, Requested, Counters, Operations
    <2>13. ASSUME NEW s \in Sessions, FindToRevoke(r, s)
          PROVE  ReqType'
      <3>1. row[s].flow \in Flows
        BY <2>13 DEF FindToRevoke, Live, Exists
      <3> QED
        BY <2>13, <3>1 DEF FindToRevoke, ReqType, Requested, Counters, Operations
    <2>14. CASE RevokeSession(r)
      BY <2>14 DEF RevokeSession, ReqType, Requested, Counters, Operations
    <2>15. ASSUME NEW f \in Flows, NEW s \in Sessions, Call(r, f, s)
          PROVE  ReqType'
      <3>1. Eligible(OwnerOf[f], row[s].org) \in BOOLEAN
        BY DEF Eligible
      <3>2. StartsAt(r, "rowread", "call", f, s, Eligible(OwnerOf[f], row[s].org))
        BY <2>15 DEF Call, StartsAt
      <3> QED
        BY <3>1, <3>2, StartType DEF Counters, Operations
    <2>16. CASE Admit(r)
      BY <2>16, RefuseType, GoToType DEF Admit, Counters
    <2>17. CASE RequestDies(r)
      BY <2>17 DEF RequestDies, ReqType, Requested, Counters, Operations
    <2> QED
      BY <1>2, <2>1, <2>2, <2>3, <2>4, <2>5, <2>6, <2>7, <2>8, <2>9, <2>10,
             <2>11, <2>12, <2>13, <2>14, <2>15, <2>16, <2>17
         DEF Serve
  <1>3. ASSUME Environment PROVE ReqType'
    <2>1. ASSUME NEW f \in Flows, Authorize(f)
          PROVE  ReqType'
      BY <2>1 DEF Authorize, ReqType, Requested, Counters, Operations
    <2>2. ASSUME NEW f \in Flows, BagExpires(f)
          PROVE  ReqType'
      BY <2>2 DEF BagExpires, Passes, ReqType, Requested, Counters, Operations
    <2>3. ASSUME NEW f \in Flows, CodeExpires(f)
          PROVE  ReqType'
      BY <2>3 DEF CodeExpires, Passes, ReqType, Requested, Counters, Operations
    <2>4. ASSUME NEW f \in Flows, NEW n \in answers[f], Receive(f, n)
          PROVE  ReqType'
      BY <2>4 DEF Receive, ReqType, Requested, Counters, Operations
    <2>5. ASSUME NEW f \in Flows, NEW n \in answers[f], LoseAnswer(f, n)
          PROVE  ReqType'
      BY <2>5 DEF LoseAnswer, ReqType, Requested, Counters, Operations
    <2>6. ASSUME NEW s \in Sessions, TokenExpires(s)
          PROVE  ReqType'
      BY <2>6 DEF TokenExpires, Passes, ReqType, Requested, Counters, Operations
    <2>7. ASSUME NEW u \in Users, NEW o \in Orgs, MembershipChanges(u, o)
          PROVE  ReqType'
      <3> DEFINE new(q) == [req[q] EXCEPT !.entitled = @ \/ o \notin member[u]]
      <3>1. \A q \in Requests : req'[q] \in {req[q], new(q)}
        BY <2>7 DEF MembershipChanges
      <3>2. \A q \in Requests : new(q) \in Requested
        BY DEF ReqType, Requested
      <3>3. req' = [q \in Requests |-> req'[q]]
        BY <2>7 DEF MembershipChanges
      <3> HIDE DEF new
      <3> QED
        BY <3>1, <3>2, <3>3 DEF ReqType
    <2> QED
      BY <1>3, <2>1, <2>2, <2>3, <2>4, <2>5, <2>6, <2>7 DEF Environment
  <1> QED
    BY <1>1, <1>2, <1>3 DEF Next

(* Session rows keep their type.                                           *)
LEMMA StepRowType ==
  ASSUME ReqType, RowType, CodeType, RestType, RequestInv, [Next]_vars
  PROVE  RowType'
  <1> USE DEF Free, Refuse, GoTo, Idle, server, client, history
  <1>1. CASE UNCHANGED vars
    BY <1>1 DEF vars, RowType
  <1>2. ASSUME NEW r \in Requests, Serve(r) PROVE RowType'
    <2>1. ASSUME NEW f \in Flows, NEW op \in {"allow", "deny"}, Decode(r, f, op)
          PROVE  RowType'
      BY <2>1 DEF Decode, RowType
    <2>2. CASE Consume(r)
      BY <2>2 DEF Consume, RowType
    <2>3. CASE ConsumeConflicts(r)
      BY <2>3 DEF ConsumeConflicts, RowType
    <2>4. ASSUME NEW o \in Orgs, CheckConsent(r, o)
          PROVE  RowType'
      BY <2>4 DEF CheckConsent, RowType
    <2>5. CASE IssueCode(r)
      BY <2>5 DEF IssueCode, RowType
    <2>6. ASSUME NEW f \in Flows, ReadCode(r, f)
          PROVE  RowType'
      BY <2>6 DEF ReadCode, RowType
    <2>7. ASSUME NEW s \in Sessions, Exchange(r, s)
          PROVE  RowType'
      <3> DEFINE f == req[r].flow
                 n == issued[f] + 1
                 m == [NoRow EXCEPT !.flow = f, !.org = code[f].org,
                                    !.access = n, !.refresh = n]
      <3>1. f \in Flows /\ n \in Nat
        BY <2>7 DEF Exchange, RequestInv, RequestOK, RestType
      <3>2. code[f].org \in Orgs \cup {NoOrg}
        BY <3>1 DEF CodeType
      <3>3. m \in Rows
        BY <3>1, <3>2, RowUpdates DEF NoRow, Rows
      <3>4. row' = [row EXCEPT ![s] = m]
        BY <2>7 DEF Exchange
      <3> HIDE DEF m
      <3> QED
        BY <3>3, <3>4 DEF RowType
    <2>8. CASE ExchangeLoses(r)
      BY <2>8 DEF ExchangeLoses, RowType
    <2>9. ASSUME NEW f \in Flows, Refresh(r, f)
          PROVE  RowType'
      BY <2>9 DEF Refresh, RowType
    <2>10. CASE CheckOwner(r)
      BY <2>10 DEF CheckOwner, RowType
    <2>11. CASE Rotate(r)
      <3> DEFINE n == issued[req[r].flow] + 1
                 m(s) == [row[s] EXCEPT !.access = n, !.refresh = n,
                              !.accessOld = FALSE, !.refreshOld = FALSE]
      <3>1. n \in Nat
        BY <2>11 DEF Rotate, RequestInv, RequestOK, AtSession, RestType
      <3>2. \A s \in Sessions : m(s) \in Rows
        BY <3>1 DEF RowType, Rows
      <3>3. row' = [row EXCEPT ![req[r].session] = m(req[r].session)]
        BY <2>11 DEF Rotate
      <3> HIDE DEF m
      <3> QED
        BY <3>2, <3>3 DEF RowType
    <2>12. CASE RevokeAll(r)
      <3> DEFINE m(s) == [row[s] EXCEPT !.revoked = ReasonOf(req[r].pc)]
      <3>1. \A s \in Sessions : m(s) \in Rows
        BY DEF RowType, Rows, ReasonOf
      <3>2. \A s \in Sessions : row'[s] \in {row[s], m(s)}
        BY <2>12 DEF RevokeAll
      <3>3. row' = [s \in Sessions |-> row'[s]]
        BY <2>12 DEF RevokeAll
      <3> HIDE DEF m
      <3> QED
        BY <3>1, <3>2, <3>3 DEF RowType
    <2>13. ASSUME NEW s \in Sessions, FindToRevoke(r, s)
          PROVE  RowType'
      BY <2>13 DEF FindToRevoke, RowType
    <2>14. CASE RevokeSession(r)
      <3> DEFINE m(s) == [row[s] EXCEPT !.revoked = "user"]
      <3>1. \A s \in Sessions : m(s) \in Rows
        BY DEF RowType, Rows
      <3>2. row' \in {row, [row EXCEPT ![req[r].session] = m(req[r].session)]}
        BY <2>14 DEF RevokeSession
      <3> HIDE DEF m
      <3> QED
        BY <3>1, <3>2 DEF RowType
    <2>15. ASSUME NEW f \in Flows, NEW s \in Sessions, Call(r, f, s)
          PROVE  RowType'
      BY <2>15 DEF Call, RowType
    <2>16. CASE Admit(r)
      BY <2>16 DEF Admit, RowType
    <2>17. CASE RequestDies(r)
      BY <2>17 DEF RequestDies, RowType
    <2> QED
      BY <1>2, <2>1, <2>2, <2>3, <2>4, <2>5, <2>6, <2>7, <2>8, <2>9, <2>10,
             <2>11, <2>12, <2>13, <2>14, <2>15, <2>16, <2>17
         DEF Serve
  <1>3. ASSUME Environment PROVE RowType'
    <2>1. ASSUME NEW f \in Flows, Authorize(f)
          PROVE  RowType'
      BY <2>1 DEF Authorize, RowType
    <2>2. ASSUME NEW f \in Flows, BagExpires(f)
          PROVE  RowType'
      BY <2>2 DEF BagExpires, Passes, RowType
    <2>3. ASSUME NEW f \in Flows, CodeExpires(f)
          PROVE  RowType'
      BY <2>3 DEF CodeExpires, Passes, RowType
    <2>4. ASSUME NEW f \in Flows, NEW n \in answers[f], Receive(f, n)
          PROVE  RowType'
      BY <2>4 DEF Receive, RowType
    <2>5. ASSUME NEW f \in Flows, NEW n \in answers[f], LoseAnswer(f, n)
          PROVE  RowType'
      BY <2>5 DEF LoseAnswer, RowType
    <2>6. ASSUME NEW s \in Sessions, TokenExpires(s)
          PROVE  RowType'
      <3> DEFINE a(x) == [row[x] EXCEPT !.accessOld = TRUE]
                 b(x) == [row[x] EXCEPT !.refreshOld = TRUE]
      <3>1. \A x \in Sessions : a(x) \in Rows /\ b(x) \in Rows
        BY DEF RowType, Rows
      <3>2. row' \in {[row EXCEPT ![s] = a(s)], [row EXCEPT ![s] = b(s)]}
        BY <2>6 DEF TokenExpires
      <3> HIDE DEF a, b
      <3> QED
        BY <3>1, <3>2 DEF RowType
    <2>7. ASSUME NEW u \in Users, NEW o \in Orgs, MembershipChanges(u, o)
          PROVE  RowType'
      BY <2>7 DEF MembershipChanges, Passes, RowType
    <2> QED
      BY <1>3, <2>1, <2>2, <2>3, <2>4, <2>5, <2>6, <2>7 DEF Environment
  <1> QED
    BY <1>1, <1>2, <1>3 DEF Next

(* Code rows keep their type.                                              *)
LEMMA StepCodeType ==
  ASSUME ReqType, CodeType, RequestInv, [Next]_vars
  PROVE  CodeType'
  <1> USE DEF Free, Refuse, GoTo, Idle, server, client, history
  <1>1. CASE UNCHANGED vars
    BY <1>1 DEF vars, CodeType
  <1>2. ASSUME NEW r \in Requests, Serve(r) PROVE CodeType'
    <2>1. ASSUME NEW f \in Flows, NEW op \in {"allow", "deny"}, Decode(r, f, op)
          PROVE  CodeType'
      BY <2>1 DEF Decode, CodeType
    <2>2. CASE Consume(r)
      BY <2>2 DEF Consume, CodeType
    <2>3. CASE ConsumeConflicts(r)
      BY <2>3 DEF ConsumeConflicts, CodeType
    <2>4. ASSUME NEW o \in Orgs, CheckConsent(r, o)
          PROVE  CodeType'
      BY <2>4 DEF CheckConsent, CodeType
    <2>5. CASE IssueCode(r)
      <3>1. req[r].org \in Orgs
        BY <2>5 DEF IssueCode, RequestInv, RequestOK
      <3> QED
        BY <2>5, <3>1 DEF IssueCode, CodeType
    <2>6. ASSUME NEW f \in Flows, ReadCode(r, f)
          PROVE  CodeType'
      BY <2>6 DEF ReadCode, CodeType
    <2>7. ASSUME NEW s \in Sessions, Exchange(r, s)
          PROVE  CodeType'
      BY <2>7 DEF Exchange, CodeType
    <2>8. CASE ExchangeLoses(r)
      BY <2>8 DEF ExchangeLoses, CodeType
    <2>9. ASSUME NEW f \in Flows, Refresh(r, f)
          PROVE  CodeType'
      BY <2>9 DEF Refresh, CodeType
    <2>10. CASE CheckOwner(r)
      BY <2>10 DEF CheckOwner, CodeType
    <2>11. CASE Rotate(r)
      BY <2>11 DEF Rotate, CodeType
    <2>12. CASE RevokeAll(r)
      BY <2>12 DEF RevokeAll, CodeType
    <2>13. ASSUME NEW s \in Sessions, FindToRevoke(r, s)
          PROVE  CodeType'
      BY <2>13 DEF FindToRevoke, CodeType
    <2>14. CASE RevokeSession(r)
      BY <2>14 DEF RevokeSession, CodeType
    <2>15. ASSUME NEW f \in Flows, NEW s \in Sessions, Call(r, f, s)
          PROVE  CodeType'
      BY <2>15 DEF Call, CodeType
    <2>16. CASE Admit(r)
      BY <2>16 DEF Admit, CodeType
    <2>17. CASE RequestDies(r)
      BY <2>17 DEF RequestDies, CodeType
    <2> QED
      BY <1>2, <2>1, <2>2, <2>3, <2>4, <2>5, <2>6, <2>7, <2>8, <2>9, <2>10,
             <2>11, <2>12, <2>13, <2>14, <2>15, <2>16, <2>17
         DEF Serve
  <1>3. ASSUME Environment PROVE CodeType'
    <2>1. ASSUME NEW f \in Flows, Authorize(f)
          PROVE  CodeType'
      BY <2>1 DEF Authorize, CodeType
    <2>2. ASSUME NEW f \in Flows, BagExpires(f)
          PROVE  CodeType'
      BY <2>2 DEF BagExpires, Passes, CodeType
    <2>3. ASSUME NEW f \in Flows, CodeExpires(f)
          PROVE  CodeType'
      BY <2>3 DEF CodeExpires, CodeType
    <2>4. ASSUME NEW f \in Flows, NEW n \in answers[f], Receive(f, n)
          PROVE  CodeType'
      BY <2>4 DEF Receive, CodeType
    <2>5. ASSUME NEW f \in Flows, NEW n \in answers[f], LoseAnswer(f, n)
          PROVE  CodeType'
      BY <2>5 DEF LoseAnswer, CodeType
    <2>6. ASSUME NEW s \in Sessions, TokenExpires(s)
          PROVE  CodeType'
      BY <2>6 DEF TokenExpires, Passes, CodeType
    <2>7. ASSUME NEW u \in Users, NEW o \in Orgs, MembershipChanges(u, o)
          PROVE  CodeType'
      BY <2>7 DEF MembershipChanges, Passes, CodeType
    <2> QED
      BY <1>3, <2>1, <2>2, <2>3, <2>4, <2>5, <2>6, <2>7 DEF Environment
  <1> QED
    BY <1>1, <1>2, <1>3 DEF Next

(* The other variables keep their types.                                   *)
LEMMA StepRestType ==
  ASSUME RestType, RequestInv, [Next]_vars
  PROVE  RestType'
  <1> USE DEF Free, Refuse, GoTo, Idle, server, client, history
  <1>1. CASE UNCHANGED vars
    BY <1>1 DEF vars, RestType, RequestInv, RequestOK, AtConsent, AtSession
  <1>2. ASSUME NEW r \in Requests, Serve(r) PROVE RestType'
    <2>1. ASSUME NEW f \in Flows, NEW op \in {"allow", "deny"}, Decode(r, f, op)
          PROVE  RestType'
      BY <2>1 DEF Decode, RestType, RequestInv, RequestOK, AtConsent, AtSession
    <2>2. CASE Consume(r)
      BY <2>2 DEF Consume, RestType, RequestInv, RequestOK, AtConsent, AtSession
    <2>3. CASE ConsumeConflicts(r)
      BY <2>3 DEF ConsumeConflicts, RestType, RequestInv, RequestOK, AtConsent,
             AtSession
    <2>4. ASSUME NEW o \in Orgs, CheckConsent(r, o)
          PROVE  RestType'
      BY <2>4 DEF CheckConsent, RestType, RequestInv, RequestOK, AtConsent,
             AtSession
    <2>5. CASE IssueCode(r)
      BY <2>5 DEF IssueCode, RestType, RequestInv, RequestOK, AtConsent,
             AtSession
    <2>6. ASSUME NEW f \in Flows, ReadCode(r, f)
          PROVE  RestType'
      BY <2>6 DEF ReadCode, RestType, RequestInv, RequestOK, AtConsent,
             AtSession
    <2>7. ASSUME NEW s \in Sessions, Exchange(r, s)
          PROVE  RestType'
      BY <2>7 DEF Exchange, RestType, RequestInv, RequestOK, AtConsent,
             AtSession
    <2>8. CASE ExchangeLoses(r)
      BY <2>8 DEF ExchangeLoses, RestType, RequestInv, RequestOK, AtConsent,
             AtSession
    <2>9. ASSUME NEW f \in Flows, Refresh(r, f)
          PROVE  RestType'
      BY <2>9 DEF Refresh, RestType, RequestInv, RequestOK, AtConsent, AtSession
    <2>10. CASE CheckOwner(r)
      BY <2>10 DEF CheckOwner, RestType, RequestInv, RequestOK, AtConsent,
             AtSession
    <2>11. CASE Rotate(r)
      BY <2>11 DEF Rotate, RestType, RequestInv, RequestOK, AtConsent, AtSession
    <2>12. CASE RevokeAll(r)
      BY <2>12 DEF RevokeAll, RestType, RequestInv, RequestOK, AtConsent,
             AtSession
    <2>13. ASSUME NEW s \in Sessions, FindToRevoke(r, s)
          PROVE  RestType'
      BY <2>13 DEF FindToRevoke, RestType, RequestInv, RequestOK, AtConsent,
             AtSession
    <2>14. CASE RevokeSession(r)
      BY <2>14 DEF RevokeSession, RestType, RequestInv, RequestOK, AtConsent,
             AtSession
    <2>15. ASSUME NEW f \in Flows, NEW s \in Sessions, Call(r, f, s)
          PROVE  RestType'
      BY <2>15 DEF Call, RestType, RequestInv, RequestOK, AtConsent, AtSession
    <2>16. CASE Admit(r)
      BY <2>16 DEF Admit, RestType, RequestInv, RequestOK, AtConsent, AtSession
    <2>17. CASE RequestDies(r)
      BY <2>17 DEF RequestDies, RestType, RequestInv, RequestOK, AtConsent,
             AtSession
    <2> QED
      BY <1>2, <2>1, <2>2, <2>3, <2>4, <2>5, <2>6, <2>7, <2>8, <2>9, <2>10,
             <2>11, <2>12, <2>13, <2>14, <2>15, <2>16, <2>17
         DEF Serve
  <1>3. ASSUME Environment PROVE RestType'
    <2>1. ASSUME NEW f \in Flows, Authorize(f)
          PROVE  RestType'
      BY <2>1 DEF Authorize, RestType, RequestInv, RequestOK, AtConsent,
             AtSession
    <2>2. ASSUME NEW f \in Flows, BagExpires(f)
          PROVE  RestType'
      BY <2>2 DEF BagExpires, Passes, RestType, RequestInv, RequestOK, AtConsent,
             AtSession
    <2>3. ASSUME NEW f \in Flows, CodeExpires(f)
          PROVE  RestType'
      BY <2>3 DEF CodeExpires, Passes, RestType, RequestInv, RequestOK,
             AtConsent, AtSession
    <2>4. ASSUME NEW f \in Flows, NEW n \in answers[f], Receive(f, n)
          PROVE  RestType'
      BY <2>4 DEF Receive, RestType, RequestInv, RequestOK, AtConsent, AtSession
    <2>5. ASSUME NEW f \in Flows, NEW n \in answers[f], LoseAnswer(f, n)
          PROVE  RestType'
      BY <2>5 DEF LoseAnswer, RestType, RequestInv, RequestOK, AtConsent,
             AtSession
    <2>6. ASSUME NEW s \in Sessions, TokenExpires(s)
          PROVE  RestType'
      BY <2>6 DEF TokenExpires, Passes, RestType, RequestInv, RequestOK,
             AtConsent, AtSession
    <2>7. ASSUME NEW u \in Users, NEW o \in Orgs, MembershipChanges(u, o)
          PROVE  RestType'
      BY <2>7 DEF MembershipChanges, Passes, RestType, RequestInv, RequestOK,
             AtConsent, AtSession
    <2> QED
      BY <1>3, <2>1, <2>2, <2>3, <2>4, <2>5, <2>6, <2>7 DEF Environment
  <1> QED
    BY <1>1, <1>2, <1>3 DEF Next

(* TypeOK is kept by every step.                                           *)
LEMMA StepTypeOK ==
  ASSUME TypeOK, RequestInv, [Next]_vars
  PROVE  TypeOK'
  <1>1. (TypeOK <=> ReqType /\ RowType /\ CodeType /\ RestType)'
    BY DEF TypeOK, ReqType, RowType, CodeType, RestType
  <1> QED
    BY <1>1, Types, StepReqType, StepRowType, StepCodeType, StepRestType


(* What the steps do to a request and to a row, field by field.            *)
Others(r) == \A q \in Requests : q # r => req'[q] = req[q]
(* GoTo changes the counter of one request only.                           *)
LEMMA Gone ==
  ASSUME ReqType, NEW r \in Requests, NEW pc \in Counters, GoTo(r, pc)
  PROVE  /\ Others(r)
         /\ req'[r].pc = pc /\ req'[r].op = req[r].op
         /\ req'[r].flow = req[r].flow /\ req'[r].org = req[r].org
         /\ req'[r].session = req[r].session
         /\ req'[r].entitled = req[r].entitled
  BY DEF ReqType, Requested, GoTo, Others

(* Refuse leaves one request idle.                                         *)
LEMMA Refused ==
  ASSUME ReqType, NEW r \in Requests, Refuse(r)
  PROVE  Others(r) /\ req'[r].pc = "idle" /\ req'[r].op = "none"
  BY DEF ReqType, Requested, Refuse, Idle, Others

(* A request that starts carries what it was given.                        *)
LEMMA Started ==
  ASSUME ReqType, NEW r \in Requests, NEW pc, NEW op, NEW f, NEW s, NEW b,
         StartsAt(r, pc, op, f, s, b)
  PROVE  /\ Others(r)
         /\ req'[r].pc = pc /\ req'[r].op = op /\ req'[r].flow = f
         /\ req'[r].session = s /\ req'[r].entitled = b
  BY DEF ReqType, StartsAt, Idle, Others

(* complete goes on with the chosen organization or refuses.               *)
LEMMA Decided ==
  ASSUME ReqType, NEW r \in Requests, NEW o \in Orgs, CheckConsent(r, o)
  PROVE  /\ Others(r)
         /\ \/ req'[r].pc = "idle" /\ req'[r].op = "none"
            \/ /\ req'[r].pc = "eligible" /\ req'[r].op = req[r].op
               /\ req'[r].org = o /\ req'[r].flow = req[r].flow
  <1>1. CASE Eligible(OwnerOf[req[r].flow], o)
    BY <1>1 DEF CheckConsent, ReqType, Requested, Others
  <1>2. CASE ~Eligible(OwnerOf[req[r].flow], o)
    BY <1>2, Refused DEF CheckConsent
  <1> QED
    BY <1>1, <1>2

(* Refresh either refuses or goes on with a row of the flow that is live    *)
(* or, for reuse, is not.                                                  *)
LEMMA Refreshed ==
  ASSUME ReqType, NEW r \in Requests, NEW f \in Flows, Refresh(r, f)
  PROVE  /\ Others(r)
         /\ \/ req'[r].pc = "idle" /\ req'[r].op = "none"
            \/ \E s \in Sessions :
                 /\ row[s].flow = f
                 /\ req'[r].pc = IF row[s].revoked = "no" THEN "rowread"
                                                          ELSE "reuse"
                 /\ req'[r].op = "refresh" /\ req'[r].flow = f
                 /\ req'[r].session = s
                 /\ req'[r].entitled = Eligible(OwnerOf[f], row[s].org)
  <1>1. CASE Refuse(r)
    BY <1>1, Refused
  <1>2. ASSUME NEW s \in Sessions, row[s].flow = f,
               StartsAt(r, IF row[s].revoked = "no" THEN "rowread" ELSE "reuse",
                        "refresh", f, s, Eligible(OwnerOf[f], row[s].org))
        PROVE  /\ Others(r)
               /\ req'[r].pc = IF row[s].revoked = "no" THEN "rowread"
                                                        ELSE "reuse"
               /\ req'[r].op = "refresh" /\ req'[r].flow = f
               /\ req'[r].session = s
               /\ req'[r].entitled = Eligible(OwnerOf[f], row[s].org)
    BY <1>2, Started
  <1>3. \/ Refuse(r)
        \/ \E s \in Sessions :
             /\ row[s].flow = f
             /\ StartsAt(r, IF row[s].revoked = "no" THEN "rowread" ELSE "reuse",
                         "refresh", f, s, Eligible(OwnerOf[f], row[s].org))
    BY DEF Refresh, StartsAt
  <1> QED
    BY <1>1, <1>2, <1>3

(* A call is served to a member or refused.                                *)
LEMMA Admitted ==
  ASSUME ReqType, NEW r \in Requests, Admit(r)
  PROVE  /\ Others(r)
         /\ \/ req'[r].pc = "idle" /\ req'[r].op = "none"
            \/ /\ req'[r].pc = "served" /\ req'[r].op = "call"
               /\ Eligible(OwnerOfRow(req[r].session), row[req[r].session].org)
               /\ req'[r].entitled = req[r].entitled
  <1>1. CASE GoTo(r, "served")
            /\ Eligible(OwnerOfRow(req[r].session), row[req[r].session].org)
    <2>1. "served" \in Counters
      BY DEF Counters
    <2> HIDE DEF GoTo
    <2> QED
      BY <1>1, <2>1, Gone DEF Admit
  <1>2. CASE Refuse(r)
    BY <1>2, Refused
  <1> QED
    BY <1>1, <1>2 DEF Admit

(* No step changes the flow or the organization of a session that exists.  *)
RowsKeep ==
  /\ \A s \in Sessions : Exists(s) => /\ row'[s].flow = row[s].flow
                                      /\ row'[s].org = row[s].org
  /\ \A f \in Flows : code[f].st # "none" => code'[f].st # "none"
(* Rotate changes the pair of one row.                                     *)
LEMMA Rotated ==
  ASSUME RowType, ReqType, NEW r \in Requests, Rotate(r)
  PROVE  /\ \A s \in Sessions : row'[s].revoked = row[s].revoked
         /\ \A s \in Sessions : row'[s].flow = row[s].flow
                                /\ row'[s].org = row[s].org
  <1> DEFINE n == issued[req[r].flow] + 1
             m(s) == [row[s] EXCEPT !.access = n, !.refresh = n,
                              !.accessOld = FALSE, !.refreshOld = FALSE]
  <1>1. row' = [row EXCEPT ![req[r].session] = m(req[r].session)]
    BY DEF Rotate
  <1>2. \A s \in Sessions : m(s).revoked = row[s].revoked
                           /\ m(s).flow = row[s].flow /\ m(s).org = row[s].org
    BY DEF RowType, Rows
  <1> HIDE DEF m
  <1> QED
    BY <1>1, <1>2 DEF RowType

(* Expiry changes no pair and no revocation.                               *)
LEMMA Aged ==
  ASSUME RowType, NEW s \in Sessions, TokenExpires(s)
  PROVE  \A t \in Sessions : /\ row'[t].revoked = row[t].revoked
                             /\ row'[t].flow = row[t].flow
                             /\ row'[t].org = row[t].org
                             /\ row'[t].access = row[t].access
                             /\ row'[t].refresh = row[t].refresh
  <1>1. CASE row' = [row EXCEPT ![s].accessOld = TRUE]
    BY <1>1 DEF RowType, Rows
  <1>2. CASE row' = [row EXCEPT ![s].refreshOld = TRUE]
    BY <1>2 DEF RowType, Rows
  <1> QED
    BY <1>1, <1>2 DEF TokenExpires

(* RevokeAll revokes sessions of the owner and changes nothing else.       *)
LEMMA AllRevoked ==
  ASSUME RowType, ReqType, NEW r \in Requests, RevokeAll(r)
  PROVE  \A s \in Sessions :
           /\ row'[s].flow = row[s].flow /\ row'[s].org = row[s].org
           /\ row'[s].access = row[s].access /\ row'[s].refresh = row[s].refresh
           /\ row[s].revoked # "no" => row'[s].revoked = row[s].revoked
           /\ row'[s].revoked # row[s].revoked =>
                OwnerOfRow(s) = OwnerOf[req[r].flow] /\ Exists(s)
  BY DEF RevokeAll, RowType, Rows, Live

(* RevokeSession revokes the session it has found.                         *)
LEMMA OneRevoked ==
  ASSUME RowType, ReqType, NEW r \in Requests, RevokeSession(r)
  PROVE  \A s \in Sessions :
           /\ row'[s].flow = row[s].flow /\ row'[s].org = row[s].org
           /\ row'[s].access = row[s].access /\ row'[s].refresh = row[s].refresh
           /\ row[s].revoked # "no" => row'[s].revoked = row[s].revoked
           /\ row'[s].revoked # row[s].revoked =>
                s = req[r].session /\ Exists(s)
  BY DEF RevokeSession, RowType, Rows, Live

(* Exchange fills one free row.                                            *)
LEMMA Opened ==
  ASSUME RowType, ReqType, NoneAssumption, NEW r \in Requests,
         NEW s \in Sessions, Exchange(r, s)
  PROVE  /\ \A t \in Sessions : t # s => row'[t] = row[t]
         /\ row'[s].flow = req[r].flow /\ row'[s].org = code[req[r].flow].org
         /\ row'[s].revoked = "no" /\ ~Exists(s)
         /\ row'[s].access = issued[req[r].flow] + 1
         /\ row'[s].refresh = issued[req[r].flow] + 1
  <1> DEFINE f == req[r].flow
             n == issued[f] + 1
             m == [NoRow EXCEPT !.flow = f, !.org = code[f].org,
                                !.access = n, !.refresh = n]
  <1>1. row' = [row EXCEPT ![s] = m] /\ ~Exists(s)
    BY DEF Exchange
  <1>2. /\ m.flow = f /\ m.org = code[f].org /\ m.revoked = "no"
        /\ m.access = n /\ m.refresh = n
    BY DEF NoRow
  <1> HIDE DEF m
  <1> QED
    BY <1>1, <1>2 DEF RowType

(* A request that another one's step leaves alone stays as it was.         *)
LEMMA OthersKeep ==
  ASSUME RequestInv, NEW r \in Requests, Others(r), RowsKeep, RequestOK(r)'
  PROVE  RequestInv'
  <1>1. ASSUME NEW q \in Requests, q # r PROVE RequestOK(q)'
    BY <1>1 DEF RequestInv, RequestOK, Others, RowsKeep, Exists, AtSession
  <1> QED
    BY <1>1 DEF RequestInv

(* A request's rows stay what it has read.                                 *)
LEMMA StepRequestInv ==
  ASSUME ReqType, RowType, CodeType, RequestInv, [Next]_vars
  PROVE  RequestInv'
  <1> USE DEF Free, Refuse, GoTo, Idle, server, client, history
  <1>1. CASE UNCHANGED vars
    BY <1>1 DEF vars, ReqType, RowType, CodeType, RequestInv, RequestOK,
             AtConsent, AtSession, Exists, Live
  <1>2. ASSUME NEW r \in Requests, Serve(r) PROVE RequestInv'
    <2>1. ASSUME NEW f \in Flows, NEW op \in {"allow", "deny"}, Decode(r, f, op)
          PROVE  RequestInv'
      BY <2>1 DEF Decode, ReqType, RowType, CodeType, RequestInv, RequestOK,
             AtConsent, AtSession, Exists, Live
    <2>2. CASE Consume(r)
      <3>1. RowsKeep
        BY <2>2 DEF Consume, RowsKeep
      <3>2. /\ req[r].pc = "decoded" /\ req[r].flow \in Flows
            /\ \/ req[r].op = "allow" /\ GoTo(r, "consumed")
               \/ req[r].op = "deny" /\ GoTo(r, "served")
        BY <2>2 DEF Consume, RequestInv, RequestOK, AtConsent
      <3>3. {"consumed", "served"} \subseteq Counters
        BY DEF Counters
      <3> HIDE DEF GoTo
      <3>4. Others(r) /\ RequestOK(r)'
        BY <3>2, <3>3, Gone DEF RequestOK, AtConsent, AtSession
      <3> QED
        BY <3>1, <3>4, OthersKeep
    <2>3. CASE ConsumeConflicts(r)
      BY <2>3 DEF ConsumeConflicts, ReqType, RowType, CodeType, RequestInv,
             RequestOK, AtConsent, AtSession, Exists, Live
    <2>4. ASSUME NEW o \in Orgs, CheckConsent(r, o)
          PROVE  RequestInv'
      <3>1. RowsKeep
        BY <2>4 DEF CheckConsent, RowsKeep
      <3>2. req[r].flow \in Flows /\ req[r].op = "allow"
        BY <2>4 DEF CheckConsent, RequestInv, RequestOK, AtConsent
      <3>3. Others(r) /\ RequestOK(r)'
        BY <2>4, <3>2, Decided DEF RequestOK, AtConsent, AtSession
      <3> QED
        BY <3>1, <3>3, OthersKeep
    <2>5. CASE IssueCode(r)
      BY <2>5 DEF IssueCode, ReqType, RowType, CodeType, RequestInv, RequestOK,
             AtConsent, AtSession, Exists, Live
    <2>6. ASSUME NEW f \in Flows, ReadCode(r, f)
          PROVE  RequestInv'
      BY <2>6 DEF ReadCode, ReqType, RowType, CodeType, RequestInv, RequestOK,
             AtConsent, AtSession, Exists, Live
    <2>7. ASSUME NEW s \in Sessions, Exchange(r, s)
          PROVE  RequestInv'
      BY <2>7 DEF Exchange, ReqType, RowType, CodeType, RequestInv, RequestOK,
             AtConsent, AtSession, Exists, Live
    <2>8. CASE ExchangeLoses(r)
      BY <2>8 DEF ExchangeLoses, ReqType, RowType, CodeType, RequestInv,
             RequestOK, AtConsent, AtSession, Exists, Live
    <2>9. ASSUME NEW f \in Flows, Refresh(r, f)
          PROVE  RequestInv'
      <3>1. RowsKeep /\ row' = row
        BY <2>9 DEF Refresh, RowsKeep
      <3>2. Others(r) /\ RequestOK(r)'
        BY <2>9, <3>1, Refreshed DEF RequestOK, AtConsent, AtSession, Exists
      <3> QED
        BY <3>1, <3>2, OthersKeep
    <2>10. CASE CheckOwner(r)
      BY <2>10 DEF CheckOwner, ReqType, RowType, CodeType, RequestInv, RequestOK,
             AtConsent, AtSession, Exists, Live
    <2>11. CASE Rotate(r)
      <3>1. RowsKeep
        BY <2>11, Rotated DEF RowsKeep, Rotate
      <3>2. GoTo(r, "served") /\ "served" \in Counters
        BY <2>11 DEF Rotate, Counters
      <3> HIDE DEF GoTo
      <3>3. Others(r) /\ RequestOK(r)'
        BY <3>2, Gone DEF RequestOK, AtConsent, AtSession
      <3> QED
        BY <3>1, <3>3, OthersKeep
    <2>12. CASE RevokeAll(r)
      BY <2>12 DEF RevokeAll, ReqType, RowType, CodeType, RequestInv, RequestOK,
             AtConsent, AtSession, Exists, Live
    <2>13. ASSUME NEW s \in Sessions, FindToRevoke(r, s)
          PROVE  RequestInv'
      BY <2>13 DEF FindToRevoke, ReqType, RowType, CodeType, RequestInv,
             RequestOK, AtConsent, AtSession, Exists, Live
    <2>14. CASE RevokeSession(r)
      BY <2>14 DEF RevokeSession, ReqType, RowType, CodeType, RequestInv,
             RequestOK, AtConsent, AtSession, Exists, Live
    <2>15. ASSUME NEW f \in Flows, NEW s \in Sessions, Call(r, f, s)
          PROVE  RequestInv'
      BY <2>15 DEF Call, ReqType, RowType, CodeType, RequestInv, RequestOK,
             AtConsent, AtSession, Exists, Live
    <2>16. CASE Admit(r)
      <3>1. RowsKeep
        BY <2>16 DEF Admit, RowsKeep
      <3>2. Others(r) /\ RequestOK(r)'
        BY <2>16, Admitted DEF RequestOK, AtConsent, AtSession
      <3> QED
        BY <3>1, <3>2, OthersKeep
    <2>17. CASE RequestDies(r)
      BY <2>17 DEF RequestDies, ReqType, RowType, CodeType, RequestInv, RequestOK,
             AtConsent, AtSession, Exists, Live
    <2> QED
      BY <1>2, <2>1, <2>2, <2>3, <2>4, <2>5, <2>6, <2>7, <2>8, <2>9, <2>10,
             <2>11, <2>12, <2>13, <2>14, <2>15, <2>16, <2>17
         DEF Serve
  <1>3. ASSUME Environment PROVE RequestInv'
    <2>1. ASSUME NEW f \in Flows, Authorize(f)
          PROVE  RequestInv'
      BY <2>1 DEF Authorize, ReqType, RowType, CodeType, RequestInv, RequestOK,
             AtConsent, AtSession, Exists, Live
    <2>2. ASSUME NEW f \in Flows, BagExpires(f)
          PROVE  RequestInv'
      BY <2>2 DEF BagExpires, Passes, ReqType, RowType, CodeType, RequestInv,
             RequestOK, AtConsent, AtSession, Exists, Live
    <2>3. ASSUME NEW f \in Flows, CodeExpires(f)
          PROVE  RequestInv'
      BY <2>3 DEF CodeExpires, Passes, ReqType, RowType, CodeType, RequestInv,
             RequestOK, AtConsent, AtSession, Exists, Live
    <2>4. ASSUME NEW f \in Flows, NEW n \in answers[f], Receive(f, n)
          PROVE  RequestInv'
      BY <2>4 DEF Receive, ReqType, RowType, CodeType, RequestInv, RequestOK,
             AtConsent, AtSession, Exists, Live
    <2>5. ASSUME NEW f \in Flows, NEW n \in answers[f], LoseAnswer(f, n)
          PROVE  RequestInv'
      BY <2>5 DEF LoseAnswer, ReqType, RowType, CodeType, RequestInv, RequestOK,
             AtConsent, AtSession, Exists, Live
    <2>6. ASSUME NEW s \in Sessions, TokenExpires(s)
          PROVE  RequestInv'
      <3>1. RowsKeep /\ req' = req
        BY <2>6, Aged DEF TokenExpires, RowsKeep
      <3> QED
        BY <3>1 DEF RequestInv, RequestOK, RowsKeep, Exists, AtSession
    <2>7. ASSUME NEW u \in Users, NEW o \in Orgs, MembershipChanges(u, o)
          PROVE  RequestInv'
      BY <2>7 DEF MembershipChanges, Passes, ReqType, RowType, CodeType,
             RequestInv, RequestOK, AtConsent, AtSession, Exists, Live
    <2> QED
      BY <1>3, <2>1, <2>2, <2>3, <2>4, <2>5, <2>6, <2>7 DEF Environment
  <1> QED
    BY <1>1, <1>2, <1>3 DEF Next

(* Organizations of codes and sessions stay organizations.                 *)
LEMMA StepOrgInv ==
  ASSUME ReqType, RowType, CodeType, RequestInv, RowInv, CodeOrgInv, [Next]_vars
  PROVE  (RowInv /\ CodeOrgInv)'
  <1> USE DEF Free, Refuse, GoTo, Idle, server, client, history
  <1>1. CASE UNCHANGED vars
    BY <1>1 DEF vars, RowType, CodeType, RequestInv, RequestOK, AtConsent,
             AtSession, Exists, RowInv, CodeOrgInv
  <1>2. ASSUME NEW r \in Requests, Serve(r) PROVE (RowInv /\ CodeOrgInv)'
    <2>1. ASSUME NEW f \in Flows, NEW op \in {"allow", "deny"}, Decode(r, f, op)
          PROVE  (RowInv /\ CodeOrgInv)'
      BY <2>1 DEF Decode, RowType, CodeType, RequestInv, RequestOK, AtConsent,
             AtSession, Exists, RowInv, CodeOrgInv
    <2>2. CASE Consume(r)
      BY <2>2 DEF Consume, RowType, CodeType, RequestInv, RequestOK, AtConsent,
             AtSession, Exists, RowInv, CodeOrgInv
    <2>3. CASE ConsumeConflicts(r)
      BY <2>3 DEF ConsumeConflicts, RowType, CodeType, RequestInv, RequestOK,
             AtConsent, AtSession, Exists, RowInv, CodeOrgInv
    <2>4. ASSUME NEW o \in Orgs, CheckConsent(r, o)
          PROVE  (RowInv /\ CodeOrgInv)'
      BY <2>4 DEF CheckConsent, RowType, CodeType, RequestInv, RequestOK,
             AtConsent, AtSession, Exists, RowInv, CodeOrgInv
    <2>5. CASE IssueCode(r)
      BY <2>5 DEF IssueCode, RowType, CodeType, RequestInv, RequestOK, AtConsent,
             AtSession, Exists, RowInv, CodeOrgInv
    <2>6. ASSUME NEW f \in Flows, ReadCode(r, f)
          PROVE  (RowInv /\ CodeOrgInv)'
      BY <2>6 DEF ReadCode, RowType, CodeType, RequestInv, RequestOK, AtConsent,
             AtSession, Exists, RowInv, CodeOrgInv
    <2>7. ASSUME NEW s \in Sessions, Exchange(r, s)
          PROVE  (RowInv /\ CodeOrgInv)'
      <3>1. /\ code[req[r].flow].st # "none" => code[req[r].flow].org \in Orgs
            /\ req[r].flow \in Flows /\ code[req[r].flow].st # "none"
        BY <2>7 DEF Exchange, RequestInv, RequestOK, CodeOrgInv
      <3>2. RowInv'
        BY <2>7, <3>1, Opened, NoneAssumption DEF RowInv, Exists
      <3>3. \A f \in Flows : code'[f].st = code[f].st /\ code'[f].org = code[f].org
        BY <2>7 DEF Exchange, CodeType
      <3> QED
        BY <3>2, <3>3 DEF CodeOrgInv
    <2>8. CASE ExchangeLoses(r)
      BY <2>8 DEF ExchangeLoses, RowType, CodeType, RequestInv, RequestOK,
             AtConsent, AtSession, Exists, RowInv, CodeOrgInv
    <2>9. ASSUME NEW f \in Flows, Refresh(r, f)
          PROVE  (RowInv /\ CodeOrgInv)'
      BY <2>9 DEF Refresh, RowType, CodeType, RequestInv, RequestOK, AtConsent,
             AtSession, Exists, RowInv, CodeOrgInv
    <2>10. CASE CheckOwner(r)
      BY <2>10 DEF CheckOwner, RowType, CodeType, RequestInv, RequestOK,
             AtConsent, AtSession, Exists, RowInv, CodeOrgInv
    <2>11. CASE Rotate(r)
      <3>1. code' = code
        BY <2>11 DEF Rotate
      <3> QED
        BY <2>11, <3>1, Rotated DEF RowInv, CodeOrgInv, Exists
    <2>12. CASE RevokeAll(r)
      BY <2>12 DEF RevokeAll, RowType, CodeType, RequestInv, RequestOK, AtConsent,
             AtSession, Exists, RowInv, CodeOrgInv
    <2>13. ASSUME NEW s \in Sessions, FindToRevoke(r, s)
          PROVE  (RowInv /\ CodeOrgInv)'
      BY <2>13 DEF FindToRevoke, RowType, CodeType, RequestInv, RequestOK,
             AtConsent, AtSession, Exists, RowInv, CodeOrgInv
    <2>14. CASE RevokeSession(r)
      BY <2>14 DEF RevokeSession, RowType, CodeType, RequestInv, RequestOK,
             AtConsent, AtSession, Exists, RowInv, CodeOrgInv
    <2>15. ASSUME NEW f \in Flows, NEW s \in Sessions, Call(r, f, s)
          PROVE  (RowInv /\ CodeOrgInv)'
      BY <2>15 DEF Call, RowType, CodeType, RequestInv, RequestOK, AtConsent,
             AtSession, Exists, RowInv, CodeOrgInv
    <2>16. CASE Admit(r)
      BY <2>16 DEF Admit, RowType, CodeType, RequestInv, RequestOK, AtConsent,
             AtSession, Exists, RowInv, CodeOrgInv
    <2>17. CASE RequestDies(r)
      BY <2>17 DEF RequestDies, RowType, CodeType, RequestInv, RequestOK,
             AtConsent, AtSession, Exists, RowInv, CodeOrgInv
    <2> QED
      BY <1>2, <2>1, <2>2, <2>3, <2>4, <2>5, <2>6, <2>7, <2>8, <2>9, <2>10,
             <2>11, <2>12, <2>13, <2>14, <2>15, <2>16, <2>17
         DEF Serve
  <1>3. ASSUME Environment PROVE (RowInv /\ CodeOrgInv)'
    <2>1. ASSUME NEW f \in Flows, Authorize(f)
          PROVE  (RowInv /\ CodeOrgInv)'
      BY <2>1 DEF Authorize, RowType, CodeType, RequestInv, RequestOK, AtConsent,
             AtSession, Exists, RowInv, CodeOrgInv
    <2>2. ASSUME NEW f \in Flows, BagExpires(f)
          PROVE  (RowInv /\ CodeOrgInv)'
      BY <2>2 DEF BagExpires, Passes, RowType, CodeType, RequestInv, RequestOK,
             AtConsent, AtSession, Exists, RowInv, CodeOrgInv
    <2>3. ASSUME NEW f \in Flows, CodeExpires(f)
          PROVE  (RowInv /\ CodeOrgInv)'
      BY <2>3 DEF CodeExpires, Passes, RowType, CodeType, RequestInv, RequestOK,
             AtConsent, AtSession, Exists, RowInv, CodeOrgInv
    <2>4. ASSUME NEW f \in Flows, NEW n \in answers[f], Receive(f, n)
          PROVE  (RowInv /\ CodeOrgInv)'
      BY <2>4 DEF Receive, RowType, CodeType, RequestInv, RequestOK, AtConsent,
             AtSession, Exists, RowInv, CodeOrgInv
    <2>5. ASSUME NEW f \in Flows, NEW n \in answers[f], LoseAnswer(f, n)
          PROVE  (RowInv /\ CodeOrgInv)'
      BY <2>5 DEF LoseAnswer, RowType, CodeType, RequestInv, RequestOK,
             AtConsent, AtSession, Exists, RowInv, CodeOrgInv
    <2>6. ASSUME NEW s \in Sessions, TokenExpires(s)
          PROVE  (RowInv /\ CodeOrgInv)'
      <3>1. code' = code
        BY <2>6 DEF TokenExpires
      <3> QED
        BY <2>6, <3>1, Aged DEF RowInv, CodeOrgInv, Exists
    <2>7. ASSUME NEW u \in Users, NEW o \in Orgs, MembershipChanges(u, o)
          PROVE  (RowInv /\ CodeOrgInv)'
      BY <2>7 DEF MembershipChanges, Passes, RowType, CodeType, RequestInv,
             RequestOK, AtConsent, AtSession, Exists, RowInv, CodeOrgInv
    <2> QED
      BY <1>3, <2>1, <2>2, <2>3, <2>4, <2>5, <2>6, <2>7 DEF Environment
  <1> QED
    BY <1>1, <1>2, <1>3 DEF Next

(* One request per bag gets past verify.                                   *)
LEMMA StepBagInv ==
  ASSUME ReqType, RestType, RequestInv, BagInv, [Next]_vars
  PROVE  BagInv'
  <1> USE DEF Free, Refuse, GoTo, Idle, server, client, history
  <1>1. CASE UNCHANGED vars
    BY <1>1 DEF vars, ReqType, RestType, RequestInv, RequestOK, AtConsent,
             BagInv, Pending
  <1>2. ASSUME NEW r \in Requests, Serve(r) PROVE BagInv'
    <2>1. ASSUME NEW f \in Flows, NEW op \in {"allow", "deny"}, Decode(r, f, op)
          PROVE  BagInv'
      BY <2>1 DEF Decode, ReqType, RestType, RequestInv, RequestOK, AtConsent,
             BagInv, Pending
    <2>2. CASE Consume(r)
      <3> DEFINE f == req[r].flow
      <3>1. /\ f \in Flows /\ consumed' = [consumed EXCEPT ![f] = TRUE]
            /\ ~consumed[f] /\ outcomes[f] = 0
            /\ \A q \in Requests : Pending(q) => req[q].flow # f
        BY <2>2 DEF Consume, RequestInv, RequestOK, AtConsent, BagInv
      <3>2. {"consumed", "served"} \subseteq Counters
        BY DEF Counters
      <3>3. CASE GoTo(r, "consumed") /\ UNCHANGED outcomes
        <4> HIDE DEF GoTo
        <4>1. /\ Others(r) /\ req'[r].pc = "consumed" /\ req'[r].flow = f
          BY <3>2, <3>3, Gone
        <4> QED
          BY <3>1, <3>3, <4>1 DEF BagInv, Pending, Others, RestType
      <3>4. CASE GoTo(r, "served") /\ outcomes' = [outcomes EXCEPT ![f] = @ + 1]
        <4> HIDE DEF GoTo
        <4>1. Others(r) /\ req'[r].pc = "served"
          BY <3>2, <3>4, Gone
        <4> QED
          BY <3>1, <3>4, <4>1 DEF BagInv, Pending, Others, RestType
      <3> QED
        BY <2>2, <3>3, <3>4 DEF Consume
    <2>3. CASE ConsumeConflicts(r)
      BY <2>3 DEF ConsumeConflicts, ReqType, RestType, RequestInv, RequestOK,
             AtConsent, BagInv, Pending
    <2>4. ASSUME NEW o \in Orgs, CheckConsent(r, o)
          PROVE  BagInv'
      <3>1. UNCHANGED <<consumed, outcomes>> /\ req[r].pc = "consumed"
        BY <2>4 DEF CheckConsent
      <3>2. Others(r) /\ (Pending(r)' => req'[r].flow = req[r].flow)
        BY <2>4, Decided DEF Pending
      <3> QED
        BY <3>1, <3>2 DEF BagInv, Pending, Others
    <2>5. CASE IssueCode(r)
      BY <2>5 DEF IssueCode, ReqType, RestType, RequestInv, RequestOK, AtConsent,
             BagInv, Pending
    <2>6. ASSUME NEW f \in Flows, ReadCode(r, f)
          PROVE  BagInv'
      BY <2>6 DEF ReadCode, ReqType, RestType, RequestInv, RequestOK, AtConsent,
             BagInv, Pending
    <2>7. ASSUME NEW s \in Sessions, Exchange(r, s)
          PROVE  BagInv'
      BY <2>7 DEF Exchange, ReqType, RestType, RequestInv, RequestOK, AtConsent,
             BagInv, Pending
    <2>8. CASE ExchangeLoses(r)
      BY <2>8 DEF ExchangeLoses, ReqType, RestType, RequestInv, RequestOK,
             AtConsent, BagInv, Pending
    <2>9. ASSUME NEW f \in Flows, Refresh(r, f)
          PROVE  BagInv'
      <3>1. UNCHANGED <<consumed, outcomes>>
        BY <2>9 DEF Refresh
      <3>2. Others(r) /\ ~Pending(r)'
        BY <2>9, Refreshed DEF Pending
      <3> QED
        BY <3>1, <3>2 DEF BagInv, Pending, Others
    <2>10. CASE CheckOwner(r)
      BY <2>10 DEF CheckOwner, ReqType, RestType, RequestInv, RequestOK,
             AtConsent, BagInv, Pending
    <2>11. CASE Rotate(r)
      BY <2>11 DEF Rotate, ReqType, RestType, RequestInv, RequestOK, AtConsent,
             BagInv, Pending
    <2>12. CASE RevokeAll(r)
      BY <2>12 DEF RevokeAll, ReqType, RestType, RequestInv, RequestOK, AtConsent,
             BagInv, Pending
    <2>13. ASSUME NEW s \in Sessions, FindToRevoke(r, s)
          PROVE  BagInv'
      BY <2>13 DEF FindToRevoke, ReqType, RestType, RequestInv, RequestOK,
             AtConsent, BagInv, Pending
    <2>14. CASE RevokeSession(r)
      BY <2>14 DEF RevokeSession, ReqType, RestType, RequestInv, RequestOK,
             AtConsent, BagInv, Pending
    <2>15. ASSUME NEW f \in Flows, NEW s \in Sessions, Call(r, f, s)
          PROVE  BagInv'
      BY <2>15 DEF Call, ReqType, RestType, RequestInv, RequestOK, AtConsent,
             BagInv, Pending
    <2>16. CASE Admit(r)
      <3>1. UNCHANGED <<consumed, outcomes>>
        BY <2>16 DEF Admit
      <3>2. Others(r) /\ ~Pending(r)'
        BY <2>16, Admitted DEF Pending
      <3> QED
        BY <3>1, <3>2 DEF BagInv, Pending, Others
    <2>17. CASE RequestDies(r)
      BY <2>17 DEF RequestDies, ReqType, RestType, RequestInv, RequestOK,
             AtConsent, BagInv, Pending
    <2> QED
      BY <1>2, <2>1, <2>2, <2>3, <2>4, <2>5, <2>6, <2>7, <2>8, <2>9, <2>10,
             <2>11, <2>12, <2>13, <2>14, <2>15, <2>16, <2>17
         DEF Serve
  <1>3. ASSUME Environment PROVE BagInv'
    <2>1. ASSUME NEW f \in Flows, Authorize(f)
          PROVE  BagInv'
      BY <2>1 DEF Authorize, ReqType, RestType, RequestInv, RequestOK, AtConsent,
             BagInv, Pending
    <2>2. ASSUME NEW f \in Flows, BagExpires(f)
          PROVE  BagInv'
      BY <2>2 DEF BagExpires, Passes, ReqType, RestType, RequestInv, RequestOK,
             AtConsent, BagInv, Pending
    <2>3. ASSUME NEW f \in Flows, CodeExpires(f)
          PROVE  BagInv'
      BY <2>3 DEF CodeExpires, Passes, ReqType, RestType, RequestInv, RequestOK,
             AtConsent, BagInv, Pending
    <2>4. ASSUME NEW f \in Flows, NEW n \in answers[f], Receive(f, n)
          PROVE  BagInv'
      BY <2>4 DEF Receive, ReqType, RestType, RequestInv, RequestOK, AtConsent,
             BagInv, Pending
    <2>5. ASSUME NEW f \in Flows, NEW n \in answers[f], LoseAnswer(f, n)
          PROVE  BagInv'
      BY <2>5 DEF LoseAnswer, ReqType, RestType, RequestInv, RequestOK,
             AtConsent, BagInv, Pending
    <2>6. ASSUME NEW s \in Sessions, TokenExpires(s)
          PROVE  BagInv'
      BY <2>6 DEF TokenExpires, Passes, ReqType, RestType, RequestInv, RequestOK,
             AtConsent, BagInv, Pending
    <2>7. ASSUME NEW u \in Users, NEW o \in Orgs, MembershipChanges(u, o)
          PROVE  BagInv'
      BY <2>7 DEF MembershipChanges, Passes, ReqType, RestType, RequestInv,
             RequestOK, AtConsent, BagInv, Pending
    <2> QED
      BY <1>3, <2>1, <2>2, <2>3, <2>4, <2>5, <2>6, <2>7 DEF Environment
  <1> QED
    BY <1>1, <1>2, <1>3 DEF Next

(* A code that is used stays used, and rows that only move in other columns *)
(* keep the sessions of a code as they are.                                *)
LEMMA CodeKept ==
  ASSUME CodeInv, BagInv, RestType,
         \A s \in Sessions : row'[s].flow = row[s].flow,
         \A f \in Flows : code'[f].used = code[f].used,
         \A f \in Flows : outcomes'[f] >= outcomes[f] /\ outcomes'[f] \in Nat
  PROVE  CodeInv'
  <1>1. \A f \in Flows : code'[f].used => outcomes'[f] > 0
    BY DEF CodeInv, RestType
  <1>2. \A s \in Sessions : Exists(s)' <=> Exists(s)
    BY DEF Exists
  <1>3. \A s \in Sessions : Exists(s)' => code'[row'[s].flow].used
    BY <1>2 DEF CodeInv, Exists
  <1>4. CodeYieldsOneSession'
    BY <1>2 DEF CodeInv, CodeYieldsOneSession
  <1> QED
    BY <1>1, <1>3, <1>4 DEF CodeInv


(* A code that exists has been sent.                                       *)
LEMMA StepIssuedInv ==
  ASSUME CodeType, RestType, RequestInv, IssuedInv, [Next]_vars
  PROVE  IssuedInv'
  <1> USE DEF Free, Refuse, GoTo, Idle, server, client, history
  <1>1. CASE UNCHANGED vars
    BY <1>1 DEF vars, CodeType, RestType, IssuedInv
  <1>2. ASSUME NEW r \in Requests, Serve(r) PROVE IssuedInv'
    <2>1. ASSUME NEW f \in Flows, NEW op \in {"allow", "deny"}, Decode(r, f, op)
          PROVE  IssuedInv'
      BY <2>1 DEF Decode, CodeType, RestType, IssuedInv
    <2>2. CASE Consume(r)
      BY <2>2 DEF Consume, CodeType, RestType, IssuedInv
    <2>3. CASE ConsumeConflicts(r)
      BY <2>3 DEF ConsumeConflicts, CodeType, RestType, IssuedInv
    <2>4. ASSUME NEW o \in Orgs, CheckConsent(r, o)
          PROVE  IssuedInv'
      BY <2>4 DEF CheckConsent, CodeType, RestType, IssuedInv
    <2>5. CASE IssueCode(r)
      <3>1. req[r].flow \in Flows
        BY <2>5 DEF IssueCode, RequestInv, RequestOK, AtConsent
      <3> QED
        BY <2>5, <3>1 DEF IssueCode, IssuedInv, CodeType, RestType
    <2>6. ASSUME NEW f \in Flows, ReadCode(r, f)
          PROVE  IssuedInv'
      BY <2>6 DEF ReadCode, CodeType, RestType, IssuedInv
    <2>7. ASSUME NEW s \in Sessions, Exchange(r, s)
          PROVE  IssuedInv'
      BY <2>7 DEF Exchange, CodeType, RestType, IssuedInv
    <2>8. CASE ExchangeLoses(r)
      BY <2>8 DEF ExchangeLoses, CodeType, RestType, IssuedInv
    <2>9. ASSUME NEW f \in Flows, Refresh(r, f)
          PROVE  IssuedInv'
      BY <2>9 DEF Refresh, CodeType, RestType, IssuedInv
    <2>10. CASE CheckOwner(r)
      BY <2>10 DEF CheckOwner, CodeType, RestType, IssuedInv
    <2>11. CASE Rotate(r)
      BY <2>11 DEF Rotate, CodeType, RestType, IssuedInv
    <2>12. CASE RevokeAll(r)
      BY <2>12 DEF RevokeAll, CodeType, RestType, IssuedInv
    <2>13. ASSUME NEW s \in Sessions, FindToRevoke(r, s)
          PROVE  IssuedInv'
      BY <2>13 DEF FindToRevoke, CodeType, RestType, IssuedInv
    <2>14. CASE RevokeSession(r)
      BY <2>14 DEF RevokeSession, CodeType, RestType, IssuedInv
    <2>15. ASSUME NEW f \in Flows, NEW s \in Sessions, Call(r, f, s)
          PROVE  IssuedInv'
      BY <2>15 DEF Call, CodeType, RestType, IssuedInv
    <2>16. CASE Admit(r)
      BY <2>16 DEF Admit, CodeType, RestType, IssuedInv
    <2>17. CASE RequestDies(r)
      BY <2>17 DEF RequestDies, CodeType, RestType, IssuedInv
    <2> QED
      BY <1>2, <2>1, <2>2, <2>3, <2>4, <2>5, <2>6, <2>7, <2>8, <2>9, <2>10,
             <2>11, <2>12, <2>13, <2>14, <2>15, <2>16, <2>17
         DEF Serve
  <1>3. ASSUME Environment PROVE IssuedInv'
    <2>1. ASSUME NEW f \in Flows, Authorize(f)
          PROVE  IssuedInv'
      BY <2>1 DEF Authorize, CodeType, RestType, IssuedInv
    <2>2. ASSUME NEW f \in Flows, BagExpires(f)
          PROVE  IssuedInv'
      BY <2>2 DEF BagExpires, Passes, CodeType, RestType, IssuedInv
    <2>3. ASSUME NEW f \in Flows, CodeExpires(f)
          PROVE  IssuedInv'
      BY <2>3 DEF CodeExpires, Passes, CodeType, RestType, IssuedInv
    <2>4. ASSUME NEW f \in Flows, NEW n \in answers[f], Receive(f, n)
          PROVE  IssuedInv'
      BY <2>4 DEF Receive, CodeType, RestType, IssuedInv
    <2>5. ASSUME NEW f \in Flows, NEW n \in answers[f], LoseAnswer(f, n)
          PROVE  IssuedInv'
      BY <2>5 DEF LoseAnswer, CodeType, RestType, IssuedInv
    <2>6. ASSUME NEW s \in Sessions, TokenExpires(s)
          PROVE  IssuedInv'
      BY <2>6 DEF TokenExpires, Passes, CodeType, RestType, IssuedInv
    <2>7. ASSUME NEW u \in Users, NEW o \in Orgs, MembershipChanges(u, o)
          PROVE  IssuedInv'
      BY <2>7 DEF MembershipChanges, Passes, CodeType, RestType, IssuedInv
    <2> QED
      BY <1>3, <2>1, <2>2, <2>3, <2>4, <2>5, <2>6, <2>7 DEF Environment
  <1> QED
    BY <1>1, <1>2, <1>3 DEF Next

(* A used code has one session.                                            *)
LEMMA StepCodeInv ==
  ASSUME ReqType, RowType, CodeType, RestType, RequestInv, BagInv, IssuedInv, CodeInv, [Next]_vars
  PROVE  CodeInv'
  <1> USE DEF Free, Refuse, GoTo, Idle, server, client, history
  <1>1. CASE UNCHANGED vars
    BY <1>1 DEF vars, RowType, CodeType, RestType, CodeInv,
             CodeYieldsOneSession, Exists
  <1>2. ASSUME NEW r \in Requests, Serve(r) PROVE CodeInv'
    <2>1. ASSUME NEW f \in Flows, NEW op \in {"allow", "deny"}, Decode(r, f, op)
          PROVE  CodeInv'
      BY <2>1 DEF Decode, RowType, CodeType, RestType, CodeInv,
             CodeYieldsOneSession, Exists
    <2>2. CASE Consume(r)
      BY <2>2 DEF Consume, RowType, CodeType, RestType, CodeInv,
             CodeYieldsOneSession, Exists
    <2>3. CASE ConsumeConflicts(r)
      BY <2>3 DEF ConsumeConflicts, RowType, CodeType, RestType, CodeInv,
             CodeYieldsOneSession, Exists
    <2>4. ASSUME NEW o \in Orgs, CheckConsent(r, o)
          PROVE  CodeInv'
      BY <2>4 DEF CheckConsent, RowType, CodeType, RestType, CodeInv,
             CodeYieldsOneSession, Exists
    <2>5. CASE IssueCode(r)
      <3> DEFINE f == req[r].flow
      <3>1. f \in Flows /\ outcomes[f] = 0 /\ ~code[f].used
        BY <2>5 DEF IssueCode, RequestInv, RequestOK, AtConsent, BagInv, Pending,
                  CodeInv, RestType
      <3>2. /\ row' = row
            /\ \A g \in Flows : code'[g].used = code[g].used
        BY <2>5, <3>1 DEF IssueCode, CodeType
      <3>3. \A g \in Flows : outcomes'[g] >= outcomes[g] /\ outcomes'[g] \in Nat
        BY <2>5, <3>1 DEF IssueCode, RestType
      <3> QED
        BY <3>2, <3>3, CodeKept
    <2>6. ASSUME NEW f \in Flows, ReadCode(r, f)
          PROVE  CodeInv'
      BY <2>6 DEF ReadCode, RowType, CodeType, RestType, CodeInv,
             CodeYieldsOneSession, Exists
    <2>7. ASSUME NEW s \in Sessions, Exchange(r, s)
          PROVE  CodeInv'
      <3> DEFINE f == req[r].flow
      <3>1. /\ f \in Flows /\ ~code[f].used /\ code[f].st # "none"
            /\ code'[f].used /\ UNCHANGED outcomes
            /\ \A g \in Flows : g # f => code'[g] = code[g]
        BY <2>7 DEF Exchange, RequestInv, RequestOK, CodeType
      <3>2. outcomes[f] > 0
        BY <3>1 DEF IssuedInv
      <3>3. /\ \A t \in Sessions : t # s => row'[t] = row[t]
            /\ row'[s].flow = f
        BY <2>7, Opened, NoneAssumption
      <3>4. \A t \in Sessions : Exists(t) => row[t].flow # f
        BY <3>1 DEF CodeInv
      <3>5. CodeYieldsOneSession'
        BY <3>3, <3>4 DEF CodeInv, CodeYieldsOneSession, Exists
      <3>6. \A t \in Sessions : Exists(t)' => code'[row'[t].flow].used
        BY <3>1, <3>3, <3>4 DEF CodeInv, Exists
      <3>7. \A g \in Flows : code'[g].used => outcomes'[g] > 0
        BY <3>1, <3>2 DEF CodeInv
      <3> QED
        BY <3>5, <3>6, <3>7 DEF CodeInv
    <2>8. CASE ExchangeLoses(r)
      BY <2>8 DEF ExchangeLoses, RowType, CodeType, RestType, CodeInv,
             CodeYieldsOneSession, Exists
    <2>9. ASSUME NEW f \in Flows, Refresh(r, f)
          PROVE  CodeInv'
      BY <2>9 DEF Refresh, RowType, CodeType, RestType, CodeInv,
             CodeYieldsOneSession, Exists
    <2>10. CASE CheckOwner(r)
      BY <2>10 DEF CheckOwner, RowType, CodeType, RestType, CodeInv,
             CodeYieldsOneSession, Exists
    <2>11. CASE Rotate(r)
      <3>1. UNCHANGED <<code, outcomes>>
        BY <2>11 DEF Rotate
      <3>2. \A t \in Sessions : row'[t].flow = row[t].flow
        BY <2>11, Rotated
      <3>3. \A f \in Flows : outcomes'[f] >= outcomes[f] /\ outcomes'[f] \in Nat
        BY <3>1 DEF RestType
      <3> QED
        BY <3>1, <3>2, <3>3, CodeKept
    <2>12. CASE RevokeAll(r)
      <3>1. UNCHANGED <<code, outcomes>>
        BY <2>12 DEF RevokeAll
      <3>2. \A t \in Sessions : row'[t].flow = row[t].flow
        BY <2>12, AllRevoked
      <3>3. \A f \in Flows : outcomes'[f] >= outcomes[f] /\ outcomes'[f] \in Nat
        BY <3>1 DEF RestType
      <3> QED
        BY <3>1, <3>2, <3>3, CodeKept
    <2>13. ASSUME NEW s \in Sessions, FindToRevoke(r, s)
          PROVE  CodeInv'
      BY <2>13 DEF FindToRevoke, RowType, CodeType, RestType, CodeInv,
             CodeYieldsOneSession, Exists
    <2>14. CASE RevokeSession(r)
      <3>1. UNCHANGED <<code, outcomes>>
        BY <2>14 DEF RevokeSession
      <3>2. \A t \in Sessions : row'[t].flow = row[t].flow
        BY <2>14, OneRevoked
      <3>3. \A f \in Flows : outcomes'[f] >= outcomes[f] /\ outcomes'[f] \in Nat
        BY <3>1 DEF RestType
      <3> QED
        BY <3>1, <3>2, <3>3, CodeKept
    <2>15. ASSUME NEW f \in Flows, NEW s \in Sessions, Call(r, f, s)
          PROVE  CodeInv'
      BY <2>15 DEF Call, RowType, CodeType, RestType, CodeInv,
             CodeYieldsOneSession, Exists
    <2>16. CASE Admit(r)
      BY <2>16 DEF Admit, RowType, CodeType, RestType, CodeInv,
             CodeYieldsOneSession, Exists
    <2>17. CASE RequestDies(r)
      BY <2>17 DEF RequestDies, RowType, CodeType, RestType, CodeInv,
             CodeYieldsOneSession, Exists
    <2> QED
      BY <1>2, <2>1, <2>2, <2>3, <2>4, <2>5, <2>6, <2>7, <2>8, <2>9, <2>10,
             <2>11, <2>12, <2>13, <2>14, <2>15, <2>16, <2>17
         DEF Serve
  <1>3. ASSUME Environment PROVE CodeInv'
    <2>1. ASSUME NEW f \in Flows, Authorize(f)
          PROVE  CodeInv'
      BY <2>1 DEF Authorize, RowType, CodeType, RestType, CodeInv,
             CodeYieldsOneSession, Exists
    <2>2. ASSUME NEW f \in Flows, BagExpires(f)
          PROVE  CodeInv'
      BY <2>2 DEF BagExpires, Passes, RowType, CodeType, RestType, CodeInv,
             CodeYieldsOneSession, Exists
    <2>3. ASSUME NEW f \in Flows, CodeExpires(f)
          PROVE  CodeInv'
      BY <2>3 DEF CodeExpires, Passes, RowType, CodeType, RestType, CodeInv,
             CodeYieldsOneSession, Exists
    <2>4. ASSUME NEW f \in Flows, NEW n \in answers[f], Receive(f, n)
          PROVE  CodeInv'
      BY <2>4 DEF Receive, RowType, CodeType, RestType, CodeInv,
             CodeYieldsOneSession, Exists
    <2>5. ASSUME NEW f \in Flows, NEW n \in answers[f], LoseAnswer(f, n)
          PROVE  CodeInv'
      BY <2>5 DEF LoseAnswer, RowType, CodeType, RestType, CodeInv,
             CodeYieldsOneSession, Exists
    <2>6. ASSUME NEW s \in Sessions, TokenExpires(s)
          PROVE  CodeInv'
      <3>1. UNCHANGED <<code, outcomes>>
        BY <2>6 DEF TokenExpires
      <3>2. \A t \in Sessions : row'[t].flow = row[t].flow
        BY <2>6, Aged
      <3>3. \A f \in Flows : outcomes'[f] >= outcomes[f] /\ outcomes'[f] \in Nat
        BY <3>1 DEF RestType
      <3> QED
        BY <3>1, <3>2, <3>3, CodeKept
    <2>7. ASSUME NEW u \in Users, NEW o \in Orgs, MembershipChanges(u, o)
          PROVE  CodeInv'
      BY <2>7 DEF MembershipChanges, Passes, RowType, CodeType, RestType,
             CodeInv, CodeYieldsOneSession, Exists
    <2> QED
      BY <1>3, <2>1, <2>2, <2>3, <2>4, <2>5, <2>6, <2>7 DEF Environment
  <1> QED
    BY <1>1, <1>2, <1>3 DEF Next

(* Memberships only change in MembershipChanges, and every loss is noted.  *)
MemberInv == \A u \in Users, o \in Orgs : ~Eligible(u, o) => <<u, o>> \in lapsed
RequestEntitled(r) ==
    /\ /\ req[r].pc = "rowread"
       /\ Eligible(OwnerOf[req[r].flow], row[req[r].session].org)
       => req[r].entitled
    /\ req[r].pc = "rotate" => req[r].entitled
    /\ req[r].pc = "served" /\ req[r].op \in {"refresh", "call"}
         => req[r].entitled
(* EntitledInv by request.                                                 *)
LEMMA Entitled == EntitledInv <=> MemberInv /\ \A r \in Requests : RequestEntitled(r)
  BY DEF EntitledInv, MemberInv, RequestEntitled

(* What keeps EntitledInv when memberships stand.                          *)
LEMMA EntitledKept ==
  ASSUME EntitledInv, RequestInv, UNCHANGED <<member, lapsed>>, RowsKeep,
         NEW r \in Requests, Others(r), RequestEntitled(r)'
  PROVE  EntitledInv'
  <1>1. ASSUME NEW q \in Requests, q # r PROVE RequestEntitled(q)'
    BY <1>1 DEF EntitledInv, RequestEntitled, Others, RowsKeep, RequestInv,
         RequestOK, AtSession, Exists, Eligible
  <1>2. (EntitledInv <=> MemberInv /\ \A q \in Requests : RequestEntitled(q))'
    BY DEF EntitledInv, MemberInv, RequestEntitled
  <1> QED
    BY <1>1, <1>2 DEF EntitledInv, MemberInv, Eligible

(* Who goes on has been a member.                                          *)
LEMMA StepEntitledInv ==
  ASSUME ReqType, RowType, CodeType, RestType, RequestInv, RowInv, EntitledInv, [Next]_vars
  PROVE  EntitledInv'
  <1> USE DEF Free, Refuse, GoTo, Idle, server, client, history
  <1>1. CASE UNCHANGED vars
    BY <1>1 DEF vars, EntitledInv, Eligible, RequestInv, RequestOK, AtSession
  <1>2. ASSUME NEW r \in Requests, Serve(r) PROVE EntitledInv'
    <2>1. ASSUME NEW f \in Flows, NEW op \in {"allow", "deny"}, Decode(r, f, op)
          PROVE  EntitledInv'
      <3>1. UNCHANGED <<member, lapsed>> /\ RowsKeep
        BY <2>1 DEF Decode, RowsKeep, CodeType
      <3>2. Others(r) /\ RequestEntitled(r)'
        BY <2>1, Refused
           DEF RequestEntitled, Others, ReqType, Decode
      <3> QED
        BY <3>1, <3>2, EntitledKept
    <2>2. CASE Consume(r)
      <3>1. UNCHANGED <<member, lapsed>> /\ RowsKeep
        BY <2>2 DEF Consume, RowsKeep, CodeType
      <3>3. /\ \/ GoTo(r, "consumed")
               \/ GoTo(r, "served") /\ req[r].op = "deny"
            /\ {"consumed", "served"} \subseteq Counters
        BY <2>2 DEF Consume, Counters
      <3> HIDE DEF GoTo
      <3>2. Others(r) /\ RequestEntitled(r)'
        BY <3>3, Gone
           DEF RequestEntitled
      <3> QED
        BY <3>1, <3>2, EntitledKept
    <2>3. CASE ConsumeConflicts(r)
      <3>1. UNCHANGED <<member, lapsed>> /\ RowsKeep
        BY <2>3 DEF ConsumeConflicts, RowsKeep, CodeType
      <3>2. Others(r) /\ RequestEntitled(r)'
        BY <2>3, Refused
           DEF RequestEntitled, Others, ReqType, ConsumeConflicts
      <3> QED
        BY <3>1, <3>2, EntitledKept
    <2>4. ASSUME NEW o \in Orgs, CheckConsent(r, o)
          PROVE  EntitledInv'
      <3>1. UNCHANGED <<member, lapsed>> /\ RowsKeep
        BY <2>4 DEF CheckConsent, RowsKeep, CodeType
      <3>2. Others(r) /\ RequestEntitled(r)'
        BY <2>4, Decided
           DEF RequestEntitled
      <3> QED
        BY <3>1, <3>2, EntitledKept
    <2>5. CASE IssueCode(r)
      <3>1. UNCHANGED <<member, lapsed>> /\ RowsKeep
        BY <2>5 DEF IssueCode, RowsKeep, CodeType
      <3>3. GoTo(r, "served") /\ req[r].op = "allow" /\ "served" \in Counters
        BY <2>5 DEF IssueCode, RequestInv, RequestOK, Counters
      <3> HIDE DEF GoTo
      <3>2. Others(r) /\ RequestEntitled(r)'
        BY <3>3, Gone
           DEF RequestEntitled
      <3> QED
        BY <3>1, <3>2, EntitledKept
    <2>6. ASSUME NEW f \in Flows, ReadCode(r, f)
          PROVE  EntitledInv'
      <3>1. UNCHANGED <<member, lapsed>> /\ RowsKeep
        BY <2>6 DEF ReadCode, RowsKeep, CodeType
      <3>2. Others(r) /\ RequestEntitled(r)'
        BY <2>6, Refused
           DEF RequestEntitled, Others, ReqType, ReadCode
      <3> QED
        BY <3>1, <3>2, EntitledKept
    <2>7. ASSUME NEW s \in Sessions, Exchange(r, s)
          PROVE  EntitledInv'
      <3>1. UNCHANGED <<member, lapsed>> /\ RowsKeep
        BY <2>7, Opened, NoneAssumption DEF Exchange, RowsKeep, CodeType
      <3>2. Others(r) /\ RequestEntitled(r)'
        BY <2>7, Refused
           DEF RequestEntitled, Exchange
      <3> QED
        BY <3>1, <3>2, EntitledKept
    <2>8. CASE ExchangeLoses(r)
      <3>1. UNCHANGED <<member, lapsed>> /\ RowsKeep
        BY <2>8 DEF ExchangeLoses, RowsKeep, CodeType
      <3>2. Others(r) /\ RequestEntitled(r)'
        BY <2>8, Refused
           DEF RequestEntitled, Others, ReqType, ExchangeLoses
      <3> QED
        BY <3>1, <3>2, EntitledKept
    <2>9. ASSUME NEW f \in Flows, Refresh(r, f)
          PROVE  EntitledInv'
      <3>1. UNCHANGED <<member, lapsed>> /\ RowsKeep
        BY <2>9 DEF Refresh, RowsKeep, CodeType
      <3>3. row' = row /\ member' = member
        BY <2>9 DEF Refresh
      <3>2. Others(r) /\ RequestEntitled(r)'
        BY <2>9, <3>3, Refreshed
           DEF RequestEntitled, Eligible
      <3> QED
        BY <3>1, <3>2, EntitledKept
    <2>10. CASE CheckOwner(r)
      <3> DEFINE s == req[r].session
                 pc == IF Eligible(OwnerOfRow(s), row[s].org) THEN "rotate"
                                                             ELSE "outsider"
      <3>1. UNCHANGED <<member, lapsed>> /\ RowsKeep
        BY <2>10 DEF CheckOwner, RowsKeep
      <3>2. GoTo(r, pc) /\ pc \in Counters /\ req[r].op = "refresh"
        BY <2>10 DEF CheckOwner, Counters
      <3>3. Eligible(OwnerOfRow(s), row[s].org) => req[r].entitled
        BY <2>10 DEF CheckOwner, EntitledInv, OwnerOfRow, RequestInv, RequestOK,
                  AtSession
      <3>4. pc \in {"rotate", "outsider"}
            /\ (pc = "rotate" => Eligible(OwnerOfRow(s), row[s].org))
        OBVIOUS
      <3> HIDE DEF GoTo, pc
      <3>5. Others(r) /\ RequestEntitled(r)'
        BY <3>2, <3>3, <3>4, Gone DEF RequestEntitled
      <3> QED
        BY <3>1, <3>5, EntitledKept
    <2>11. CASE Rotate(r)
      <3>1. UNCHANGED <<member, lapsed>> /\ RowsKeep
        BY <2>11, Rotated DEF Rotate, RowsKeep, CodeType
      <3>3. GoTo(r, "served") /\ req[r].entitled /\ "served" \in Counters
        BY <2>11 DEF Rotate, EntitledInv, Counters
      <3> HIDE DEF GoTo
      <3>2. Others(r) /\ RequestEntitled(r)'
        BY <3>3, Gone
           DEF RequestEntitled
      <3> QED
        BY <3>1, <3>2, EntitledKept
    <2>12. CASE RevokeAll(r)
      <3>1. UNCHANGED <<member, lapsed>> /\ RowsKeep
        BY <2>12, AllRevoked DEF RevokeAll, RowsKeep, CodeType
      <3>2. Others(r) /\ RequestEntitled(r)'
        BY <2>12, Refused
           DEF RequestEntitled, RevokeAll
      <3> QED
        BY <3>1, <3>2, EntitledKept
    <2>13. ASSUME NEW s \in Sessions, FindToRevoke(r, s)
          PROVE  EntitledInv'
      <3>1. UNCHANGED <<member, lapsed>> /\ RowsKeep
        BY <2>13 DEF FindToRevoke, RowsKeep, CodeType
      <3>2. Others(r) /\ RequestEntitled(r)'
        BY <2>13, Refused
           DEF RequestEntitled, Others, ReqType, FindToRevoke
      <3> QED
        BY <3>1, <3>2, EntitledKept
    <2>14. CASE RevokeSession(r)
      <3>1. UNCHANGED <<member, lapsed>> /\ RowsKeep
        BY <2>14, OneRevoked DEF RevokeSession, RowsKeep, CodeType
      <3>2. Others(r) /\ RequestEntitled(r)'
        BY <2>14, Refused
           DEF RequestEntitled, RevokeSession
      <3> QED
        BY <3>1, <3>2, EntitledKept
    <2>15. ASSUME NEW f \in Flows, NEW s \in Sessions, Call(r, f, s)
          PROVE  EntitledInv'
      <3>1. UNCHANGED <<member, lapsed>> /\ RowsKeep
        BY <2>15 DEF Call, RowsKeep, CodeType
      <3>3. StartsAt(r, "rowread", "call", f, s, Eligible(OwnerOf[f], row[s].org))
        BY <2>15 DEF Call, StartsAt
      <3>4. row' = row /\ (Eligible(OwnerOf[f], row[s].org)'
                            <=> Eligible(OwnerOf[f], row[s].org))
        BY <2>15 DEF Call, Eligible
      <3>5. /\ Others(r) /\ req'[r].pc = "rowread"
            /\ req'[r].flow = f /\ req'[r].session = s
            /\ req'[r].entitled = Eligible(OwnerOf[f], row[s].org)
        BY <3>3, Started
      <3>2. Others(r) /\ RequestEntitled(r)'
        BY <3>5, <3>4
           DEF RequestEntitled
      <3> QED
        BY <3>1, <3>2, EntitledKept
    <2>16. CASE Admit(r)
      <3>1. UNCHANGED <<member, lapsed>> /\ RowsKeep
        BY <2>16 DEF Admit, RowsKeep, CodeType
      <3>3. Eligible(OwnerOfRow(req[r].session), row[req[r].session].org)
              => req[r].entitled
        BY <2>16 DEF Admit, EntitledInv, OwnerOfRow, RequestInv, RequestOK, AtSession
      <3>2. Others(r) /\ RequestEntitled(r)'
        BY <2>16, <3>3, Admitted
           DEF RequestEntitled
      <3> QED
        BY <3>1, <3>2, EntitledKept
    <2>17. CASE RequestDies(r)
      <3>1. UNCHANGED <<member, lapsed>> /\ RowsKeep
        BY <2>17 DEF RequestDies, RowsKeep, CodeType
      <3>2. Others(r) /\ RequestEntitled(r)'
        BY <2>17, Refused
           DEF RequestEntitled, Others, ReqType, RequestDies
      <3> QED
        BY <3>1, <3>2, EntitledKept
    <2> QED
      BY <1>2, <2>1, <2>2, <2>3, <2>4, <2>5, <2>6, <2>7, <2>8, <2>9, <2>10,
             <2>11, <2>12, <2>13, <2>14, <2>15, <2>16, <2>17
         DEF Serve
  <1>3. ASSUME Environment PROVE EntitledInv'
    <2>1. ASSUME NEW f \in Flows, Authorize(f)
          PROVE  EntitledInv'
      BY <2>1 DEF Authorize, EntitledInv, Eligible, RequestInv, RequestOK,
             AtSession
    <2>2. ASSUME NEW f \in Flows, BagExpires(f)
          PROVE  EntitledInv'
      BY <2>2 DEF BagExpires, Passes, EntitledInv, Eligible, RequestInv,
             RequestOK, AtSession
    <2>3. ASSUME NEW f \in Flows, CodeExpires(f)
          PROVE  EntitledInv'
      BY <2>3 DEF CodeExpires, Passes, EntitledInv, Eligible, RequestInv,
             RequestOK, AtSession
    <2>4. ASSUME NEW f \in Flows, NEW n \in answers[f], Receive(f, n)
          PROVE  EntitledInv'
      BY <2>4 DEF Receive, EntitledInv, Eligible, RequestInv, RequestOK,
             AtSession
    <2>5. ASSUME NEW f \in Flows, NEW n \in answers[f], LoseAnswer(f, n)
          PROVE  EntitledInv'
      BY <2>5 DEF LoseAnswer, EntitledInv, Eligible, RequestInv, RequestOK,
             AtSession
    <2>6. ASSUME NEW s \in Sessions, TokenExpires(s)
          PROVE  EntitledInv'
      <3>1. UNCHANGED <<member, lapsed, req>>
        BY <2>6 DEF TokenExpires
      <3>2. \A t \in Sessions : row'[t].org = row[t].org
        BY <2>6, Aged
      <3> QED
        BY <3>1, <3>2 DEF EntitledInv, Eligible, RequestInv, RequestOK, AtSession
    <2>7. ASSUME NEW u \in Users, NEW o \in Orgs, MembershipChanges(u, o)
          PROVE  EntitledInv'
      <3>1. \A v \in Users, p \in Orgs :
              /\ v = u /\ p = o => (Eligible(v, p)' <=> ~Eligible(v, p))
              /\ v # u \/ p # o => (Eligible(v, p)' <=> Eligible(v, p))
        BY <2>7 DEF MembershipChanges, Eligible, RestType
      <3>2. row' = row /\ lapsed' = lapsed \cup {<<u, o>>}
        BY <2>7 DEF MembershipChanges
      <3>3. MemberInv'
        BY <3>1, <3>2 DEF EntitledInv, MemberInv
      <3>4. ASSUME NEW q \in Requests PROVE RequestEntitled(q)'
        <4> DEFINE hit == /\ req[q].op \in {"refresh", "call"}
                          /\ ~Free(q) /\ OwnerOf[req[q].flow] = u
                          /\ row[req[q].session].org = o
        <4>1. /\ req'[q].pc = req[q].pc /\ req'[q].op = req[q].op
              /\ req'[q].flow = req[q].flow
              /\ req'[q].session = req[q].session
              /\ ~hit => req'[q].entitled = req[q].entitled
              /\ hit /\ ~Eligible(u, o) => req'[q].entitled
              /\ req[q].entitled => req'[q].entitled
          <5>1. CASE hit
            <6>1. req'[q] = [req[q] EXCEPT !.entitled = @ \/ o \notin member[u]]
              BY <2>7, <5>1 DEF MembershipChanges
            <6>2. /\ req'[q].pc = req[q].pc /\ req'[q].op = req[q].op
                  /\ req'[q].flow = req[q].flow
                  /\ req'[q].session = req[q].session
              BY <6>1 DEF ReqType, Requested
            <6>3. req'[q].entitled = (req[q].entitled \/ o \notin member[u])
              BY <6>1 DEF ReqType, Requested
            <6> HIDE DEF hit
            <6> QED
              BY <5>1, <6>2, <6>3, Zenon DEF Eligible
          <5>2. CASE ~hit
            <6>1. req'[q] = req[q]
              BY <2>7, <5>2 DEF MembershipChanges
            <6> QED
              BY <5>2, <6>1
          <5> QED
            BY <5>1, <5>2
        <4>2. req[q].pc = "rowread" =>
                /\ req[q].op \in {"refresh", "call"} /\ ~Free(q)
                /\ OwnerOf[req[q].flow] \in Users
                /\ row[req[q].session].org \in Orgs
          BY OwnerAssumption DEF RequestInv, RequestOK, AtSession, RowInv, Exists
        <4> HIDE DEF Free
        <4>3. CASE req[q].pc = "rowread"
          BY <3>1, <3>2, <4>1, <4>2, <4>3 DEF EntitledInv, RequestEntitled
        <4>4. CASE req[q].pc # "rowread"
          BY <4>1, <4>4 DEF EntitledInv, RequestEntitled
        <4> QED
          BY <4>3, <4>4
      <3>5. (EntitledInv <=> MemberInv /\ \A q \in Requests : RequestEntitled(q))'
        BY DEF EntitledInv, MemberInv, RequestEntitled
      <3> QED
        BY <3>3, <3>4, <3>5
    <2> QED
      BY <1>3, <2>1, <2>2, <2>3, <2>4, <2>5, <2>6, <2>7 DEF Environment
  <1> QED
    BY <1>1, <1>2, <1>3 DEF Next

(* A step that revokes sessions has a cause for each; a cause stays one.   *)
RevokedKeep == \A s \in Sessions : row[s].revoked # "no"
                                     => row'[s].revoked = row[s].revoked

(* A revoked session stays revoked for the same reason.                    *)
LEMMA StepRevokedKeep ==
  ASSUME ReqType, RowType, CauseInv, [Next]_vars
  PROVE  RevokedKeep
  <1> USE DEF Free, Refuse, GoTo, Idle, server, client, history
  <1>1. CASE UNCHANGED vars
    BY <1>1 DEF vars, RevokedKeep
  <1>2. ASSUME NEW r \in Requests, Serve(r) PROVE RevokedKeep
    <2>1. ASSUME NEW f \in Flows, NEW op \in {"allow", "deny"}, Decode(r, f, op)
          PROVE  RevokedKeep
      BY <2>1 DEF Decode, RevokedKeep
    <2>2. CASE Consume(r)
      BY <2>2 DEF Consume, RevokedKeep
    <2>3. CASE ConsumeConflicts(r)
      BY <2>3 DEF ConsumeConflicts, RevokedKeep
    <2>4. ASSUME NEW o \in Orgs, CheckConsent(r, o)
          PROVE  RevokedKeep
      BY <2>4 DEF CheckConsent, RevokedKeep
    <2>5. CASE IssueCode(r)
      BY <2>5 DEF IssueCode, RevokedKeep
    <2>6. ASSUME NEW f \in Flows, ReadCode(r, f)
          PROVE  RevokedKeep
      BY <2>6 DEF ReadCode, RevokedKeep
    <2>7. ASSUME NEW s \in Sessions, Exchange(r, s)
          PROVE  RevokedKeep
      BY <2>7, Opened, NoneAssumption DEF RevokedKeep, CauseInv
    <2>8. CASE ExchangeLoses(r)
      BY <2>8 DEF ExchangeLoses, RevokedKeep
    <2>9. ASSUME NEW f \in Flows, Refresh(r, f)
          PROVE  RevokedKeep
      BY <2>9 DEF Refresh, RevokedKeep
    <2>10. CASE CheckOwner(r)
      BY <2>10 DEF CheckOwner, RevokedKeep
    <2>11. CASE Rotate(r)
      BY <2>11, Rotated DEF RevokedKeep
    <2>12. CASE RevokeAll(r)
      BY <2>12, AllRevoked DEF RevokedKeep
    <2>13. ASSUME NEW s \in Sessions, FindToRevoke(r, s)
          PROVE  RevokedKeep
      BY <2>13 DEF FindToRevoke, RevokedKeep
    <2>14. CASE RevokeSession(r)
      BY <2>14, OneRevoked DEF RevokedKeep
    <2>15. ASSUME NEW f \in Flows, NEW s \in Sessions, Call(r, f, s)
          PROVE  RevokedKeep
      BY <2>15 DEF Call, RevokedKeep
    <2>16. CASE Admit(r)
      BY <2>16 DEF Admit, RevokedKeep
    <2>17. CASE RequestDies(r)
      BY <2>17 DEF RequestDies, RevokedKeep
    <2> QED
      BY <1>2, <2>1, <2>2, <2>3, <2>4, <2>5, <2>6, <2>7, <2>8, <2>9, <2>10,
             <2>11, <2>12, <2>13, <2>14, <2>15, <2>16, <2>17
         DEF Serve
  <1>3. ASSUME Environment PROVE RevokedKeep
    <2>1. ASSUME NEW f \in Flows, Authorize(f)
          PROVE  RevokedKeep
      BY <2>1 DEF Authorize, RevokedKeep
    <2>2. ASSUME NEW f \in Flows, BagExpires(f)
          PROVE  RevokedKeep
      BY <2>2 DEF BagExpires, Passes, RevokedKeep
    <2>3. ASSUME NEW f \in Flows, CodeExpires(f)
          PROVE  RevokedKeep
      BY <2>3 DEF CodeExpires, Passes, RevokedKeep
    <2>4. ASSUME NEW f \in Flows, NEW n \in answers[f], Receive(f, n)
          PROVE  RevokedKeep
      BY <2>4 DEF Receive, RevokedKeep
    <2>5. ASSUME NEW f \in Flows, NEW n \in answers[f], LoseAnswer(f, n)
          PROVE  RevokedKeep
      BY <2>5 DEF LoseAnswer, RevokedKeep
    <2>6. ASSUME NEW s \in Sessions, TokenExpires(s)
          PROVE  RevokedKeep
      BY <2>6, Aged DEF RevokedKeep
    <2>7. ASSUME NEW u \in Users, NEW o \in Orgs, MembershipChanges(u, o)
          PROVE  RevokedKeep
      BY <2>7 DEF MembershipChanges, Passes, RevokedKeep
    <2> QED
      BY <1>3, <2>1, <2>2, <2>3, <2>4, <2>5, <2>6, <2>7 DEF Environment
  <1> QED
    BY <1>1, <1>2, <1>3 DEF Next

(* Sessions keep their flow and organization, codes their existence.       *)
LEMMA StepRowsKeep ==
  ASSUME ReqType, RowType, CodeType, [Next]_vars
  PROVE  RowsKeep
  <1> USE DEF Free, Refuse, GoTo, Idle, server, client, history
  <1>1. CASE UNCHANGED vars
    BY <1>1 DEF vars, RowsKeep, CodeType
  <1>2. ASSUME NEW r \in Requests, Serve(r) PROVE RowsKeep
    <2>1. ASSUME NEW f \in Flows, NEW op \in {"allow", "deny"}, Decode(r, f, op)
          PROVE  RowsKeep
      BY <2>1 DEF Decode, RowsKeep, CodeType
    <2>2. CASE Consume(r)
      BY <2>2 DEF Consume, RowsKeep, CodeType
    <2>3. CASE ConsumeConflicts(r)
      BY <2>3 DEF ConsumeConflicts, RowsKeep, CodeType
    <2>4. ASSUME NEW o \in Orgs, CheckConsent(r, o)
          PROVE  RowsKeep
      BY <2>4 DEF CheckConsent, RowsKeep, CodeType
    <2>5. CASE IssueCode(r)
      BY <2>5 DEF IssueCode, RowsKeep, CodeType
    <2>6. ASSUME NEW f \in Flows, ReadCode(r, f)
          PROVE  RowsKeep
      BY <2>6 DEF ReadCode, RowsKeep, CodeType
    <2>7. ASSUME NEW s \in Sessions, Exchange(r, s)
          PROVE  RowsKeep
      BY <2>7, Opened, NoneAssumption DEF RowsKeep, CodeType, Exchange
    <2>8. CASE ExchangeLoses(r)
      BY <2>8 DEF ExchangeLoses, RowsKeep, CodeType
    <2>9. ASSUME NEW f \in Flows, Refresh(r, f)
          PROVE  RowsKeep
      BY <2>9 DEF Refresh, RowsKeep, CodeType
    <2>10. CASE CheckOwner(r)
      BY <2>10 DEF CheckOwner, RowsKeep, CodeType
    <2>11. CASE Rotate(r)
      BY <2>11, Rotated DEF RowsKeep, CodeType, Rotate
    <2>12. CASE RevokeAll(r)
      BY <2>12, AllRevoked DEF RowsKeep, CodeType, RevokeAll
    <2>13. ASSUME NEW s \in Sessions, FindToRevoke(r, s)
          PROVE  RowsKeep
      BY <2>13 DEF FindToRevoke, RowsKeep, CodeType
    <2>14. CASE RevokeSession(r)
      BY <2>14, OneRevoked DEF RowsKeep, CodeType, RevokeSession
    <2>15. ASSUME NEW f \in Flows, NEW s \in Sessions, Call(r, f, s)
          PROVE  RowsKeep
      BY <2>15 DEF Call, RowsKeep, CodeType
    <2>16. CASE Admit(r)
      BY <2>16 DEF Admit, RowsKeep, CodeType
    <2>17. CASE RequestDies(r)
      BY <2>17 DEF RequestDies, RowsKeep, CodeType
    <2> QED
      BY <1>2, <2>1, <2>2, <2>3, <2>4, <2>5, <2>6, <2>7, <2>8, <2>9, <2>10,
             <2>11, <2>12, <2>13, <2>14, <2>15, <2>16, <2>17
         DEF Serve
  <1>3. ASSUME Environment PROVE RowsKeep
    <2>1. ASSUME NEW f \in Flows, Authorize(f)
          PROVE  RowsKeep
      BY <2>1 DEF Authorize, RowsKeep, CodeType
    <2>2. ASSUME NEW f \in Flows, BagExpires(f)
          PROVE  RowsKeep
      BY <2>2 DEF BagExpires, Passes, RowsKeep, CodeType
    <2>3. ASSUME NEW f \in Flows, CodeExpires(f)
          PROVE  RowsKeep
      BY <2>3 DEF CodeExpires, Passes, RowsKeep, CodeType
    <2>4. ASSUME NEW f \in Flows, NEW n \in answers[f], Receive(f, n)
          PROVE  RowsKeep
      BY <2>4 DEF Receive, RowsKeep, CodeType
    <2>5. ASSUME NEW f \in Flows, NEW n \in answers[f], LoseAnswer(f, n)
          PROVE  RowsKeep
      BY <2>5 DEF LoseAnswer, RowsKeep, CodeType
    <2>6. ASSUME NEW s \in Sessions, TokenExpires(s)
          PROVE  RowsKeep
      BY <2>6, Aged DEF RowsKeep, CodeType, TokenExpires, Passes
    <2>7. ASSUME NEW u \in Users, NEW o \in Orgs, MembershipChanges(u, o)
          PROVE  RowsKeep
      BY <2>7 DEF MembershipChanges, Passes, RowsKeep, CodeType
    <2> QED
      BY <1>3, <2>1, <2>2, <2>3, <2>4, <2>5, <2>6, <2>7 DEF Environment
  <1> QED
    BY <1>1, <1>2, <1>3 DEF Next

Cause(s) == \E t \in Sessions :
              /\ Exists(t) /\ OwnerOfRow(t) = OwnerOfRow(s)
              /\ t \in asked \/ <<OwnerOfRow(t), row[t].org>> \in lapsed
CauseRequest(r) ==
  /\ req[r].pc = "reuse" => row[req[r].session].revoked # "no"
  /\ req[r].pc = "outsider" =>
       <<OwnerOf[req[r].flow], row[req[r].session].org>> \in lapsed

(* What keeps CauseInv, for any step.                                      *)
LEMMA CauseKept ==
  ASSUME CauseInv, RequestInv, RowsKeep, RevokedKeep,
         asked \subseteq asked', lapsed \subseteq lapsed',
         \A s \in Sessions : row'[s].revoked # "no" /\ row[s].revoked = "no"
                               => Exists(s) /\ Cause(s)',
         \A r \in Requests : CauseRequest(r)'
  PROVE  CauseInv'
  <1>1. \A s \in Sessions : Exists(s) => Exists(s)' /\ OwnerOfRow(s)' = OwnerOfRow(s)
                                         /\ row'[s].org = row[s].org
    BY DEF RowsKeep, Exists, OwnerOfRow
  <1>2. ASSUME NEW s \in Sessions, row'[s].revoked # "no"
        PROVE  Exists(s)' /\ Cause(s)'
    <2>1. CASE row[s].revoked = "no"
      BY <1>1, <1>2, <2>1
    <2>2. CASE row[s].revoked # "no"
      <3>1. Exists(s)
        BY <2>2 DEF CauseInv
      <3>2. PICK t \in Sessions :
              /\ Exists(t) /\ OwnerOfRow(t) = OwnerOfRow(s)
              /\ t \in asked \/ <<OwnerOfRow(t), row[t].org>> \in lapsed
        BY <2>2 DEF CauseInv, RevocationHasCause
      <3> QED
        BY <1>1, <3>1, <3>2 DEF Cause
    <2> QED
      BY <2>1, <2>2
  <1>3. RevocationHasCause'
    BY <1>2 DEF RevocationHasCause, Cause
  <1> QED
    BY <1>2, <1>3 DEF CauseInv, CauseRequest

(* Requests the step leaves alone keep their cause.                        *)
LEMMA CauseOthers ==
  ASSUME CauseInv, RequestInv, RowsKeep, RevokedKeep, lapsed \subseteq lapsed',
         NEW r \in Requests, Others(r), CauseRequest(r)'
  PROVE  \A q \in Requests : CauseRequest(q)'
  <1>1. ASSUME NEW q \in Requests, q # r PROVE CauseRequest(q)'
    BY <1>1 DEF CauseInv, CauseRequest, Others, RowsKeep, RevokedKeep,
         RequestInv, RequestOK, AtSession, Exists
  <1> QED
    BY <1>1

(* Every revocation has its cause.                                         *)
LEMMA StepCauseInv ==
  ASSUME ReqType, RowType, CodeType, RequestInv, RowInv, EntitledInv, CauseInv, [Next]_vars
  PROVE  CauseInv'
  <1> USE DEF Free, Refuse, GoTo, Idle, server, client, history
  <1>1. CASE UNCHANGED vars
    BY <1>1 DEF vars, CauseInv, RevocationHasCause, Exists, OwnerOfRow
  <1>2. ASSUME NEW r \in Requests, Serve(r) PROVE CauseInv'
    <2>1. ASSUME NEW f \in Flows, NEW op \in {"allow", "deny"}, Decode(r, f, op)
          PROVE  CauseInv'
      <3>1. RowsKeep /\ RevokedKeep
        BY StepRowsKeep, StepRevokedKeep
      <3>2. asked \subseteq asked' /\ lapsed \subseteq lapsed'
        BY <2>1 DEF Decode
      <3>3. \A t \in Sessions : row'[t].revoked # "no" /\ row[t].revoked = "no"
                                 => Exists(t) /\ Cause(t)'
        BY <2>1 DEF Decode
      <3>4. Others(r) /\ CauseRequest(r)'
        BY <2>1, Refused DEF CauseRequest, Others, ReqType, Decode
      <3>5. \A q \in Requests : CauseRequest(q)'
        BY <3>1, <3>2, <3>4, CauseOthers
      <3> QED
        BY <3>1, <3>2, <3>3, <3>5, CauseKept
    <2>2. CASE Consume(r)
      <3>1. RowsKeep /\ RevokedKeep
        BY StepRowsKeep, StepRevokedKeep
      <3>2. asked \subseteq asked' /\ lapsed \subseteq lapsed'
        BY <2>2 DEF Consume
      <3>3. \A t \in Sessions : row'[t].revoked # "no" /\ row[t].revoked = "no"
                                 => Exists(t) /\ Cause(t)'
        BY <2>2 DEF Consume
      <3>6. (\E pc \in {"consumed", "served"} : GoTo(r, pc)) /\ {"consumed", "served"} \subseteq Counters
        BY <2>2 DEF Consume, Counters
      <3> HIDE DEF GoTo
      <3>4. Others(r) /\ CauseRequest(r)'
        BY <3>6, Gone DEF CauseRequest
      <3>5. \A q \in Requests : CauseRequest(q)'
        BY <3>1, <3>2, <3>4, CauseOthers
      <3> QED
        BY <3>1, <3>2, <3>3, <3>5, CauseKept
    <2>3. CASE ConsumeConflicts(r)
      <3>1. RowsKeep /\ RevokedKeep
        BY StepRowsKeep, StepRevokedKeep
      <3>2. asked \subseteq asked' /\ lapsed \subseteq lapsed'
        BY <2>3 DEF ConsumeConflicts
      <3>3. \A t \in Sessions : row'[t].revoked # "no" /\ row[t].revoked = "no"
                                 => Exists(t) /\ Cause(t)'
        BY <2>3 DEF ConsumeConflicts
      <3>4. Others(r) /\ CauseRequest(r)'
        BY <2>3, Refused DEF CauseRequest, Others, ReqType, ConsumeConflicts
      <3>5. \A q \in Requests : CauseRequest(q)'
        BY <3>1, <3>2, <3>4, CauseOthers
      <3> QED
        BY <3>1, <3>2, <3>3, <3>5, CauseKept
    <2>4. ASSUME NEW o \in Orgs, CheckConsent(r, o)
          PROVE  CauseInv'
      <3>1. RowsKeep /\ RevokedKeep
        BY StepRowsKeep, StepRevokedKeep
      <3>2. asked \subseteq asked' /\ lapsed \subseteq lapsed'
        BY <2>4 DEF CheckConsent
      <3>3. \A t \in Sessions : row'[t].revoked # "no" /\ row[t].revoked = "no"
                                 => Exists(t) /\ Cause(t)'
        BY <2>4 DEF CheckConsent
      <3>4. Others(r) /\ CauseRequest(r)'
        BY <2>4, Decided DEF CauseRequest
      <3>5. \A q \in Requests : CauseRequest(q)'
        BY <3>1, <3>2, <3>4, CauseOthers
      <3> QED
        BY <3>1, <3>2, <3>3, <3>5, CauseKept
    <2>5. CASE IssueCode(r)
      <3>1. RowsKeep /\ RevokedKeep
        BY StepRowsKeep, StepRevokedKeep
      <3>2. asked \subseteq asked' /\ lapsed \subseteq lapsed'
        BY <2>5 DEF IssueCode
      <3>3. \A t \in Sessions : row'[t].revoked # "no" /\ row[t].revoked = "no"
                                 => Exists(t) /\ Cause(t)'
        BY <2>5 DEF IssueCode
      <3>6. (\E pc \in {"served"} : GoTo(r, pc)) /\ {"served"} \subseteq Counters
        BY <2>5 DEF IssueCode, Counters
      <3> HIDE DEF GoTo
      <3>4. Others(r) /\ CauseRequest(r)'
        BY <3>6, Gone DEF CauseRequest
      <3>5. \A q \in Requests : CauseRequest(q)'
        BY <3>1, <3>2, <3>4, CauseOthers
      <3> QED
        BY <3>1, <3>2, <3>3, <3>5, CauseKept
    <2>6. ASSUME NEW f \in Flows, ReadCode(r, f)
          PROVE  CauseInv'
      <3>1. RowsKeep /\ RevokedKeep
        BY StepRowsKeep, StepRevokedKeep
      <3>2. asked \subseteq asked' /\ lapsed \subseteq lapsed'
        BY <2>6 DEF ReadCode
      <3>3. \A t \in Sessions : row'[t].revoked # "no" /\ row[t].revoked = "no"
                                 => Exists(t) /\ Cause(t)'
        BY <2>6 DEF ReadCode
      <3>4. Others(r) /\ CauseRequest(r)'
        BY <2>6, Refused DEF CauseRequest, Others, ReqType, ReadCode
      <3>5. \A q \in Requests : CauseRequest(q)'
        BY <3>1, <3>2, <3>4, CauseOthers
      <3> QED
        BY <3>1, <3>2, <3>3, <3>5, CauseKept
    <2>7. ASSUME NEW s \in Sessions, Exchange(r, s)
          PROVE  CauseInv'
      <3>1. RowsKeep /\ RevokedKeep
        BY StepRowsKeep, StepRevokedKeep
      <3>2. asked \subseteq asked' /\ lapsed \subseteq lapsed'
        BY <2>7 DEF Exchange
      <3>3. \A t \in Sessions : row'[t].revoked # "no" /\ row[t].revoked = "no"
                                 => Exists(t) /\ Cause(t)'
        BY <2>7, Opened, NoneAssumption
      <3>4. Others(r) /\ CauseRequest(r)'
        BY <2>7, Refused DEF CauseRequest, Exchange
      <3>5. \A q \in Requests : CauseRequest(q)'
        BY <3>1, <3>2, <3>4, CauseOthers
      <3> QED
        BY <3>1, <3>2, <3>3, <3>5, CauseKept
    <2>8. CASE ExchangeLoses(r)
      <3>1. RowsKeep /\ RevokedKeep
        BY StepRowsKeep, StepRevokedKeep
      <3>2. asked \subseteq asked' /\ lapsed \subseteq lapsed'
        BY <2>8 DEF ExchangeLoses
      <3>3. \A t \in Sessions : row'[t].revoked # "no" /\ row[t].revoked = "no"
                                 => Exists(t) /\ Cause(t)'
        BY <2>8 DEF ExchangeLoses
      <3>4. Others(r) /\ CauseRequest(r)'
        BY <2>8, Refused DEF CauseRequest, Others, ReqType, ExchangeLoses
      <3>5. \A q \in Requests : CauseRequest(q)'
        BY <3>1, <3>2, <3>4, CauseOthers
      <3> QED
        BY <3>1, <3>2, <3>3, <3>5, CauseKept
    <2>9. ASSUME NEW f \in Flows, Refresh(r, f)
          PROVE  CauseInv'
      <3>1. RowsKeep /\ RevokedKeep
        BY StepRowsKeep, StepRevokedKeep
      <3>2. asked \subseteq asked' /\ lapsed \subseteq lapsed'
        BY <2>9 DEF Refresh
      <3>3. \A t \in Sessions : row'[t].revoked # "no" /\ row[t].revoked = "no"
                                 => Exists(t) /\ Cause(t)'
        BY <2>9 DEF Refresh
      <3>6. row' = row
        BY <2>9 DEF Refresh
      <3>4. Others(r) /\ CauseRequest(r)'
        BY <2>9, <3>6, Refreshed DEF CauseRequest
      <3>5. \A q \in Requests : CauseRequest(q)'
        BY <3>1, <3>2, <3>4, CauseOthers
      <3> QED
        BY <3>1, <3>2, <3>3, <3>5, CauseKept
    <2>10. CASE CheckOwner(r)
      <3>1. RowsKeep /\ RevokedKeep
        BY StepRowsKeep, StepRevokedKeep
      <3>2. asked \subseteq asked' /\ lapsed \subseteq lapsed'
        BY <2>10 DEF CheckOwner
      <3>3. \A t \in Sessions : row'[t].revoked # "no" /\ row[t].revoked = "no"
                                 => Exists(t) /\ Cause(t)'
        BY <2>10 DEF CheckOwner
      <3> DEFINE s == req[r].session
                 pc == IF Eligible(OwnerOfRow(s), row[s].org) THEN "rotate"
                                                             ELSE "outsider"
      <3>6. /\ s \in Sessions /\ row[s].flow = req[r].flow
            /\ req[r].flow \in Flows /\ row[s].org \in Orgs
        BY <2>10 DEF CheckOwner, RequestInv, RequestOK, AtSession, RowInv, Exists
      <3>7. row' = row /\ lapsed' = lapsed
            /\ (pc = "outsider" => <<OwnerOf[req[r].flow], row[s].org>> \in lapsed)
        BY <2>10, <3>6, OwnerAssumption DEF CheckOwner, EntitledInv, OwnerOfRow
      <3>8. GoTo(r, pc) /\ pc \in Counters /\ pc # "reuse"
        BY <2>10 DEF CheckOwner, Counters
      <3> HIDE DEF GoTo, pc
      <3>4. Others(r) /\ CauseRequest(r)'
        BY <3>7, <3>8, Gone DEF CauseRequest
      <3>5. \A q \in Requests : CauseRequest(q)'
        BY <3>1, <3>2, <3>4, CauseOthers
      <3> QED
        BY <3>1, <3>2, <3>3, <3>5, CauseKept
    <2>11. CASE Rotate(r)
      <3>1. RowsKeep /\ RevokedKeep
        BY StepRowsKeep, StepRevokedKeep
      <3>2. asked \subseteq asked' /\ lapsed \subseteq lapsed'
        BY <2>11 DEF Rotate
      <3>3. \A t \in Sessions : row'[t].revoked # "no" /\ row[t].revoked = "no"
                                 => Exists(t) /\ Cause(t)'
        BY <2>11, Rotated
      <3>6. (\E pc \in {"served"} : GoTo(r, pc)) /\ {"served"} \subseteq Counters
        BY <2>11 DEF Rotate, Counters
      <3> HIDE DEF GoTo
      <3>4. Others(r) /\ CauseRequest(r)'
        BY <3>6, Gone DEF CauseRequest
      <3>5. \A q \in Requests : CauseRequest(q)'
        BY <3>1, <3>2, <3>4, CauseOthers
      <3> QED
        BY <3>1, <3>2, <3>3, <3>5, CauseKept
    <2>12. CASE RevokeAll(r)
      <3>1. RowsKeep /\ RevokedKeep
        BY StepRowsKeep, StepRevokedKeep
      <3>2. asked \subseteq asked' /\ lapsed \subseteq lapsed'
        BY <2>12 DEF RevokeAll
      <3>3. \A t \in Sessions : row'[t].revoked # "no" /\ row[t].revoked = "no"
                                 => Exists(t) /\ Cause(t)'
        <4>1. /\ req[r].session \in Sessions /\ Exists(req[r].session)
              /\ row[req[r].session].flow = req[r].flow
          BY <2>12 DEF RevokeAll, RequestInv, RequestOK, AtSession, Exists
        <4>2. Cause(req[r].session)
          <5>1. CASE req[r].pc = "reuse"
            BY <4>1, <5>1 DEF CauseInv, RevocationHasCause, Cause
          <5>2. CASE req[r].pc = "outsider"
            BY <4>1, <5>2 DEF CauseInv, Cause, OwnerOfRow
          <5> QED
            BY <2>12, <5>1, <5>2 DEF RevokeAll
        <4>3. OwnerOfRow(req[r].session) = OwnerOf[req[r].flow]
          BY <4>1 DEF OwnerOfRow
        <4>4. \A t \in Sessions :
                row'[t].revoked # row[t].revoked
                  => OwnerOf[row[t].flow] = OwnerOf[req[r].flow] /\ Exists(t)
          BY <2>12, AllRevoked DEF OwnerOfRow
        <4>5. \A t \in Sessions : row'[t].flow = row[t].flow
                                   /\ row'[t].org = row[t].org
          BY <2>12, AllRevoked
        <4>6. PICK w \in Sessions :
                /\ row[w].flow \in Flows
                /\ OwnerOf[row[w].flow] = OwnerOf[req[r].flow]
                /\ \/ w \in asked
                   \/ <<OwnerOf[row[w].flow], row[w].org>> \in lapsed
          BY <4>2, <4>3 DEF Cause, Exists, OwnerOfRow
        <4>7. /\ row'[w].flow \in Flows
              /\ OwnerOf[row'[w].flow] = OwnerOf[req[r].flow]
              /\ \/ w \in asked'
                 \/ <<OwnerOf[row'[w].flow], row'[w].org>> \in lapsed'
          BY <3>2, <4>5, <4>6
        <4> QED
          BY <4>4, <4>5, <4>7 DEF Cause, Exists, OwnerOfRow
      <3>4. Others(r) /\ CauseRequest(r)'
        BY <2>12, Refused DEF CauseRequest, RevokeAll
      <3>5. \A q \in Requests : CauseRequest(q)'
        BY <3>1, <3>2, <3>4, CauseOthers
      <3> QED
        BY <3>1, <3>2, <3>3, <3>5, CauseKept
    <2>13. ASSUME NEW s \in Sessions, FindToRevoke(r, s)
          PROVE  CauseInv'
      <3>1. RowsKeep /\ RevokedKeep
        BY StepRowsKeep, StepRevokedKeep
      <3>2. asked \subseteq asked' /\ lapsed \subseteq lapsed'
        BY <2>13 DEF FindToRevoke
      <3>3. \A t \in Sessions : row'[t].revoked # "no" /\ row[t].revoked = "no"
                                 => Exists(t) /\ Cause(t)'
        BY <2>13 DEF FindToRevoke
      <3>4. Others(r) /\ CauseRequest(r)'
        BY <2>13, Refused DEF CauseRequest, Others, ReqType, FindToRevoke
      <3>5. \A q \in Requests : CauseRequest(q)'
        BY <3>1, <3>2, <3>4, CauseOthers
      <3> QED
        BY <3>1, <3>2, <3>3, <3>5, CauseKept
    <2>14. CASE RevokeSession(r)
      <3>1. RowsKeep /\ RevokedKeep
        BY StepRowsKeep, StepRevokedKeep
      <3>2. asked \subseteq asked' /\ lapsed \subseteq lapsed'
        BY <2>14 DEF RevokeSession
      <3>3. \A t \in Sessions : row'[t].revoked # "no" /\ row[t].revoked = "no"
                                 => Exists(t) /\ Cause(t)'
        <4>1. \A t \in Sessions :
                row'[t].revoked # row[t].revoked => t \in asked' /\ Exists(t)
          BY <2>14, OneRevoked DEF RevokeSession
        <4>2. \A t \in Sessions : Exists(t)' <=> Exists(t)
          BY <2>14, OneRevoked DEF Exists
        <4> QED
          BY <4>1, <4>2 DEF Cause
      <3>4. Others(r) /\ CauseRequest(r)'
        BY <2>14, Refused DEF CauseRequest, RevokeSession
      <3>5. \A q \in Requests : CauseRequest(q)'
        BY <3>1, <3>2, <3>4, CauseOthers
      <3> QED
        BY <3>1, <3>2, <3>3, <3>5, CauseKept
    <2>15. ASSUME NEW f \in Flows, NEW s \in Sessions, Call(r, f, s)
          PROVE  CauseInv'
      <3>1. RowsKeep /\ RevokedKeep
        BY StepRowsKeep, StepRevokedKeep
      <3>2. asked \subseteq asked' /\ lapsed \subseteq lapsed'
        BY <2>15 DEF Call
      <3>3. \A t \in Sessions : row'[t].revoked # "no" /\ row[t].revoked = "no"
                                 => Exists(t) /\ Cause(t)'
        BY <2>15 DEF Call
      <3>6. StartsAt(r, "rowread", "call", f, s, Eligible(OwnerOf[f], row[s].org))
        BY <2>15 DEF Call, StartsAt
      <3>4. Others(r) /\ CauseRequest(r)'
        BY <3>6, Started DEF CauseRequest
      <3>5. \A q \in Requests : CauseRequest(q)'
        BY <3>1, <3>2, <3>4, CauseOthers
      <3> QED
        BY <3>1, <3>2, <3>3, <3>5, CauseKept
    <2>16. CASE Admit(r)
      <3>1. RowsKeep /\ RevokedKeep
        BY StepRowsKeep, StepRevokedKeep
      <3>2. asked \subseteq asked' /\ lapsed \subseteq lapsed'
        BY <2>16 DEF Admit
      <3>3. \A t \in Sessions : row'[t].revoked # "no" /\ row[t].revoked = "no"
                                 => Exists(t) /\ Cause(t)'
        BY <2>16 DEF Admit
      <3>4. Others(r) /\ CauseRequest(r)'
        BY <2>16, Admitted DEF CauseRequest
      <3>5. \A q \in Requests : CauseRequest(q)'
        BY <3>1, <3>2, <3>4, CauseOthers
      <3> QED
        BY <3>1, <3>2, <3>3, <3>5, CauseKept
    <2>17. CASE RequestDies(r)
      <3>1. RowsKeep /\ RevokedKeep
        BY StepRowsKeep, StepRevokedKeep
      <3>2. asked \subseteq asked' /\ lapsed \subseteq lapsed'
        BY <2>17 DEF RequestDies
      <3>3. \A t \in Sessions : row'[t].revoked # "no" /\ row[t].revoked = "no"
                                 => Exists(t) /\ Cause(t)'
        BY <2>17 DEF RequestDies
      <3>4. Others(r) /\ CauseRequest(r)'
        BY <2>17, Refused DEF CauseRequest, Others, ReqType, RequestDies
      <3>5. \A q \in Requests : CauseRequest(q)'
        BY <3>1, <3>2, <3>4, CauseOthers
      <3> QED
        BY <3>1, <3>2, <3>3, <3>5, CauseKept
    <2> QED
      BY <1>2, <2>1, <2>2, <2>3, <2>4, <2>5, <2>6, <2>7, <2>8, <2>9, <2>10,
             <2>11, <2>12, <2>13, <2>14, <2>15, <2>16, <2>17
         DEF Serve
  <1>3. ASSUME Environment PROVE CauseInv'
    <2>1. ASSUME NEW f \in Flows, Authorize(f)
          PROVE  CauseInv'
      BY <2>1 DEF Authorize, CauseInv, RevocationHasCause, Exists, OwnerOfRow
    <2>2. ASSUME NEW f \in Flows, BagExpires(f)
          PROVE  CauseInv'
      BY <2>2 DEF BagExpires, Passes, CauseInv, RevocationHasCause, Exists,
             OwnerOfRow
    <2>3. ASSUME NEW f \in Flows, CodeExpires(f)
          PROVE  CauseInv'
      BY <2>3 DEF CodeExpires, Passes, CauseInv, RevocationHasCause, Exists,
             OwnerOfRow
    <2>4. ASSUME NEW f \in Flows, NEW n \in answers[f], Receive(f, n)
          PROVE  CauseInv'
      BY <2>4 DEF Receive, CauseInv, RevocationHasCause, Exists, OwnerOfRow
    <2>5. ASSUME NEW f \in Flows, NEW n \in answers[f], LoseAnswer(f, n)
          PROVE  CauseInv'
      BY <2>5 DEF LoseAnswer, CauseInv, RevocationHasCause, Exists, OwnerOfRow
    <2>6. ASSUME NEW s \in Sessions, TokenExpires(s)
          PROVE  CauseInv'
      <3>1. RowsKeep /\ RevokedKeep
        BY StepRowsKeep, StepRevokedKeep
      <3>2. asked \subseteq asked' /\ lapsed \subseteq lapsed'
        BY <2>6 DEF TokenExpires
      <3>3. \A t \in Sessions : row'[t].revoked = row[t].revoked
        BY <2>6, Aged
      <3>4. \A q \in Requests : req'[q].pc = req[q].pc
              /\ req'[q].session = req[q].session /\ req'[q].flow = req[q].flow
        BY <2>6 DEF TokenExpires
      <3>5. \A q \in Requests : CauseRequest(q)'
        BY <3>1, <3>2, <3>4 DEF CauseInv, CauseRequest, RowsKeep, RevokedKeep,
           RequestInv, RequestOK, AtSession, Exists
      <3> QED
        BY <3>1, <3>2, <3>3, <3>5, CauseKept
    <2>7. ASSUME NEW u \in Users, NEW o \in Orgs, MembershipChanges(u, o)
          PROVE  CauseInv'
      <3>1. RowsKeep /\ RevokedKeep
        BY StepRowsKeep, StepRevokedKeep
      <3>2. asked \subseteq asked' /\ lapsed \subseteq lapsed'
        BY <2>7 DEF MembershipChanges
      <3>3. \A t \in Sessions : row'[t].revoked = row[t].revoked
        BY <2>7 DEF MembershipChanges
      <3>4. \A q \in Requests : req'[q].pc = req[q].pc
              /\ req'[q].session = req[q].session /\ req'[q].flow = req[q].flow
        BY <2>7 DEF MembershipChanges, ReqType, Requested
      <3>5. \A q \in Requests : CauseRequest(q)'
        BY <3>1, <3>2, <3>4 DEF CauseInv, CauseRequest, RowsKeep, RevokedKeep,
           RequestInv, RequestOK, AtSession, Exists
      <3> QED
        BY <3>1, <3>2, <3>3, <3>5, CauseKept
    <2> QED
      BY <1>3, <2>1, <2>2, <2>3, <2>4, <2>5, <2>6, <2>7 DEF Environment
  <1> QED
    BY <1>1, <1>2, <1>3 DEF Next

(* PairInv is a statement per flow, over the refreshes in flight for it.   *)
Refreshes(r, f) == req[r].op = "refresh" /\ req[r].flow = f /\ ~Free(r)
Busy(f) == \E r \in Requests : Refreshes(r, f)
PairOK(f) ==
    /\ (\A s \in Sessions : row[s].flow # f) =>
         held[f] = 0 /\ answers[f] = {} /\ ~Busy(f)
    /\ smooth[f] =>
         /\ \A r, q \in Requests : Refreshes(r, f) /\ Refreshes(q, f) => r = q
         /\ Busy(f) => answers[f] = {}
         /\ \A s \in Sessions : row[s].flow = f =>
              /\ row[s].access = row[s].refresh
              /\ answers[f] = {} => held[f] = row[s].refresh
              /\ answers[f] # {} => answers[f] = {row[s].refresh}
(* PairInv by flow.                                                        *)
LEMMA Pairs == PairInv <=> \A f \in Flows : PairOK(f)
  BY DEF PairInv, PairOK, Refreshes, Busy, Refreshing
(* ... in the next state.                                                  *)
LEMMA PairsNext == PairInv' <=> \A f \in Flows : PairOK(f)'
  BY DEF PairInv, PairOK, Refreshes, Busy, Refreshing

(* Nothing that PairOK(f) looks at has changed, or a refresh is over.      *)
PairRows == \A s \in Sessions : /\ row'[s].flow = row[s].flow
                                /\ row'[s].access = row[s].access
                                /\ row'[s].refresh = row[s].refresh
NoNewRefresh == \A r \in Requests, f \in Flows : Refreshes(r, f)' => Refreshes(r, f)
(* A step that leaves a flow alone keeps its pair in step.                 *)
LEMMA PairKept ==
  ASSUME NEW f \in Flows, PairOK(f),
         \A s \in Sessions : row[s].flow = f \/ row'[s].flow = f =>
            /\ row'[s].flow = row[s].flow
            /\ row'[s].access = row[s].access
            /\ row'[s].refresh = row[s].refresh,
         \A r \in Requests : Refreshes(r, f)' => Refreshes(r, f),
         answers'[f] = answers[f], held'[f] = held[f], smooth'[f] = smooth[f]
  PROVE  PairOK(f)'
  <1>1. Busy(f)' => Busy(f)
    BY DEF Busy
  <1> HIDE DEF Refreshes, Busy
  <1> QED
    BY <1>1 DEF PairOK

(* ... for all flows.                                                      *)
LEMMA AllKept ==
  ASSUME PairInv, PairRows, NoNewRefresh, UNCHANGED <<answers, held, smooth>>
  PROVE  PairInv'
  BY Pairs, PairsNext, PairKept DEF PairRows, NoNewRefresh

(* A step that leaves a request not refreshing adds no refresh.            *)
LEMMA RefreshEnds ==
  ASSUME NEW r \in Requests, Others(r), \A f \in Flows : ~Refreshes(r, f)'
  PROVE  NoNewRefresh
  BY DEF NoNewRefresh, Refreshes, Free, Others

(* Calls never rotate.                                                     *)
LEMMA StepRefreshInv ==
  ASSUME ReqType, RefreshInv, [Next]_vars
  PROVE  RefreshInv'
  <1> USE DEF Free, Refuse, GoTo, Idle, server, client, history
  <1>1. CASE UNCHANGED vars
    BY <1>1 DEF vars, ReqType, RefreshInv
  <1>2. ASSUME NEW r \in Requests, Serve(r) PROVE RefreshInv'
    <2>1. ASSUME NEW f \in Flows, NEW op \in {"allow", "deny"}, Decode(r, f, op)
          PROVE  RefreshInv'
      <3>1. Others(r) /\ req'[r].pc \notin {"rotate", "outsider"}
        BY <2>1 DEF Decode, ReqType, Others
      <3> QED
        BY <3>1 DEF RefreshInv, Others
    <2>2. CASE Consume(r)
      <3>2. /\ \E pc \in {"consumed", "served"} : GoTo(r, pc)
            /\ {"consumed", "served"} \subseteq Counters
        BY <2>2 DEF Consume, Counters
      <3> HIDE DEF GoTo
      <3>1. Others(r) /\ req'[r].pc \notin {"rotate", "outsider"}
        BY <3>2, Gone
      <3> QED
        BY <3>1 DEF RefreshInv, Others
    <2>3. CASE ConsumeConflicts(r)
      BY <2>3 DEF ConsumeConflicts, ReqType, RefreshInv
    <2>4. ASSUME NEW o \in Orgs, CheckConsent(r, o)
          PROVE  RefreshInv'
      <3>1. Others(r) /\ req'[r].pc \notin {"rotate", "outsider"}
        BY <2>4, Decided
      <3> QED
        BY <3>1 DEF RefreshInv, Others
    <2>5. CASE IssueCode(r)
      BY <2>5 DEF IssueCode, ReqType, RefreshInv
    <2>6. ASSUME NEW f \in Flows, ReadCode(r, f)
          PROVE  RefreshInv'
      BY <2>6 DEF ReadCode, ReqType, RefreshInv
    <2>7. ASSUME NEW s \in Sessions, Exchange(r, s)
          PROVE  RefreshInv'
      BY <2>7 DEF Exchange, ReqType, RefreshInv
    <2>8. CASE ExchangeLoses(r)
      BY <2>8 DEF ExchangeLoses, ReqType, RefreshInv
    <2>9. ASSUME NEW f \in Flows, Refresh(r, f)
          PROVE  RefreshInv'
      <3>1. Others(r) /\ req'[r].pc \notin {"rotate", "outsider"}
        BY <2>9, Refreshed
      <3> QED
        BY <3>1 DEF RefreshInv, Others
    <2>10. CASE CheckOwner(r)
      <3>1. (\E pc \in Counters : GoTo(r, pc)) /\ req[r].op = "refresh"
        BY <2>10 DEF CheckOwner, Counters
      <3>2. Others(r) /\ req'[r].op = "refresh"
        <4> HIDE DEF GoTo
        <4> QED
          BY <3>1, Gone
      <3> QED
        BY <3>2 DEF RefreshInv, Others
    <2>11. CASE Rotate(r)
      BY <2>11 DEF Rotate, ReqType, RefreshInv
    <2>12. CASE RevokeAll(r)
      BY <2>12 DEF RevokeAll, ReqType, RefreshInv
    <2>13. ASSUME NEW s \in Sessions, FindToRevoke(r, s)
          PROVE  RefreshInv'
      BY <2>13 DEF FindToRevoke, ReqType, RefreshInv
    <2>14. CASE RevokeSession(r)
      BY <2>14 DEF RevokeSession, ReqType, RefreshInv
    <2>15. ASSUME NEW f \in Flows, NEW s \in Sessions, Call(r, f, s)
          PROVE  RefreshInv'
      <3>2. StartsAt(r, "rowread", "call", f, s, Eligible(OwnerOf[f], row[s].org))
        BY <2>15 DEF Call, StartsAt
      <3>1. Others(r) /\ req'[r].pc \notin {"rotate", "outsider"}
        BY <3>2, Started
      <3> QED
        BY <3>1 DEF RefreshInv, Others
    <2>16. CASE Admit(r)
      <3>1. Others(r) /\ req'[r].pc \notin {"rotate", "outsider"}
        BY <2>16, Admitted
      <3> QED
        BY <3>1 DEF RefreshInv, Others
    <2>17. CASE RequestDies(r)
      BY <2>17 DEF RequestDies, ReqType, RefreshInv
    <2> QED
      BY <1>2, <2>1, <2>2, <2>3, <2>4, <2>5, <2>6, <2>7, <2>8, <2>9, <2>10,
             <2>11, <2>12, <2>13, <2>14, <2>15, <2>16, <2>17
         DEF Serve
  <1>3. ASSUME Environment PROVE RefreshInv'
    <2>1. ASSUME NEW f \in Flows, Authorize(f)
          PROVE  RefreshInv'
      BY <2>1 DEF Authorize, ReqType, RefreshInv
    <2>2. ASSUME NEW f \in Flows, BagExpires(f)
          PROVE  RefreshInv'
      BY <2>2 DEF BagExpires, Passes, ReqType, RefreshInv
    <2>3. ASSUME NEW f \in Flows, CodeExpires(f)
          PROVE  RefreshInv'
      BY <2>3 DEF CodeExpires, Passes, ReqType, RefreshInv
    <2>4. ASSUME NEW f \in Flows, NEW n \in answers[f], Receive(f, n)
          PROVE  RefreshInv'
      BY <2>4 DEF Receive, ReqType, RefreshInv
    <2>5. ASSUME NEW f \in Flows, NEW n \in answers[f], LoseAnswer(f, n)
          PROVE  RefreshInv'
      BY <2>5 DEF LoseAnswer, ReqType, RefreshInv
    <2>6. ASSUME NEW s \in Sessions, TokenExpires(s)
          PROVE  RefreshInv'
      BY <2>6 DEF TokenExpires, Passes, ReqType, RefreshInv
    <2>7. ASSUME NEW u \in Users, NEW o \in Orgs, MembershipChanges(u, o)
          PROVE  RefreshInv'
      BY <2>7 DEF MembershipChanges, Passes, ReqType, RefreshInv
    <2> QED
      BY <1>3, <2>1, <2>2, <2>3, <2>4, <2>5, <2>6, <2>7 DEF Environment
  <1> QED
    BY <1>1, <1>2, <1>3 DEF Next

(* Rows and clients stay in step.                                          *)
LEMMA StepPairInv ==
  ASSUME ReqType, RowType, CodeType, RestType, RequestInv, CodeInv, RefreshInv, PairInv, [Next]_vars
  PROVE  PairInv'
  <1> USE DEF Free, Refuse, GoTo, Idle, server, client, history
  <1>1. CASE UNCHANGED vars
    BY <1>1 DEF vars, PairInv, Refreshing
  <1>2. ASSUME NEW r \in Requests, Serve(r) PROVE PairInv'
    <2>1. ASSUME NEW f \in Flows, NEW op \in {"allow", "deny"}, Decode(r, f, op)
          PROVE  PairInv'
      <3>1. PairRows /\ UNCHANGED <<answers, held, smooth>>
        BY <2>1 DEF Decode, PairRows
      <3>3. Others(r) /\ \A g \in Flows : ~Refreshes(r, g)'
        BY <2>1, Refused DEF Refreshes, Others, ReqType, Decode
      <3>2. NoNewRefresh
        BY <3>3, RefreshEnds
      <3> QED
        BY <3>1, <3>2, AllKept
    <2>2. CASE Consume(r)
      <3>1. PairRows /\ UNCHANGED <<answers, held, smooth>>
        BY <2>2 DEF Consume, PairRows
      <3>4. /\ \E pc \in {"consumed", "served"} : GoTo(r, pc)
            /\ {"consumed", "served"} \subseteq Counters /\ req[r].op # "refresh"
        BY <2>2 DEF Consume, Counters, RequestInv, RequestOK
      <3> HIDE DEF GoTo
      <3>3. Others(r) /\ \A g \in Flows : ~Refreshes(r, g)'
        BY <3>4, Gone DEF Refreshes
      <3>2. NoNewRefresh
        BY <3>3, RefreshEnds
      <3> QED
        BY <3>1, <3>2, AllKept
    <2>3. CASE ConsumeConflicts(r)
      <3>1. PairRows /\ UNCHANGED <<answers, held, smooth>>
        BY <2>3 DEF ConsumeConflicts, PairRows
      <3>3. Others(r) /\ \A g \in Flows : ~Refreshes(r, g)'
        BY <2>3, Refused DEF Refreshes, Others, ReqType, ConsumeConflicts
      <3>2. NoNewRefresh
        BY <3>3, RefreshEnds
      <3> QED
        BY <3>1, <3>2, AllKept
    <2>4. ASSUME NEW o \in Orgs, CheckConsent(r, o)
          PROVE  PairInv'
      <3>1. PairRows /\ UNCHANGED <<answers, held, smooth>>
        BY <2>4 DEF CheckConsent, PairRows
      <3>4. req[r].op = "allow"
        BY <2>4 DEF CheckConsent, RequestInv, RequestOK
      <3>3. Others(r) /\ \A g \in Flows : ~Refreshes(r, g)'
        BY <2>4, Decided, <3>4 DEF Refreshes
      <3>2. NoNewRefresh
        BY <3>3, RefreshEnds
      <3> QED
        BY <3>1, <3>2, AllKept
    <2>5. CASE IssueCode(r)
      <3>1. PairRows /\ UNCHANGED <<answers, held, smooth>>
        BY <2>5 DEF IssueCode, PairRows
      <3>4. /\ \E pc \in {"served"} : GoTo(r, pc)
            /\ {"served"} \subseteq Counters /\ req[r].op # "refresh"
        BY <2>5 DEF IssueCode, Counters, RequestInv, RequestOK
      <3> HIDE DEF GoTo
      <3>3. Others(r) /\ \A g \in Flows : ~Refreshes(r, g)'
        BY <3>4, Gone DEF Refreshes
      <3>2. NoNewRefresh
        BY <3>3, RefreshEnds
      <3> QED
        BY <3>1, <3>2, AllKept
    <2>6. ASSUME NEW f \in Flows, ReadCode(r, f)
          PROVE  PairInv'
      <3>1. PairRows /\ UNCHANGED <<answers, held, smooth>>
        BY <2>6 DEF ReadCode, PairRows
      <3>3. Others(r) /\ \A g \in Flows : ~Refreshes(r, g)'
        BY <2>6, Refused DEF Refreshes, Others, ReqType, ReadCode
      <3>2. NoNewRefresh
        BY <3>3, RefreshEnds
      <3> QED
        BY <3>1, <3>2, AllKept
    <2>7. ASSUME NEW s \in Sessions, Exchange(r, s)
          PROVE  PairInv'
      <3>0. PICK g \in Flows : g = req[r].flow
        BY <2>7 DEF Exchange, RequestInv, RequestOK
      <3>00. PICK n \in Nat : n = issued[g] + 1
        BY DEF RestType
      <3>1. /\ g \in Flows /\ n \in Nat /\ ~code[g].used
            /\ UNCHANGED <<held, smooth>>
            /\ answers' = [answers EXCEPT ![g] = @ \cup {n}]
        BY <2>7, <3>0, <3>00 DEF Exchange
      <3>2. /\ \A t \in Sessions : t # s => row'[t] = row[t]
            /\ row'[s].flow = g /\ ~Exists(s)
            /\ row'[s].access = n /\ row'[s].refresh = n
        BY <2>7, <3>0, <3>00, Opened, NoneAssumption
      <3>3. \A t \in Sessions : row[t].flow # g
        BY <3>1 DEF CodeInv, Exists
      <3>4. Others(r) /\ \A f \in Flows : ~Refreshes(r, f)'
        BY <2>7, Refused DEF Exchange, Refreshes
      <3>5. NoNewRefresh
        BY <3>4, RefreshEnds
      <3>6. held[g] = 0 /\ answers[g] = {} /\ ~Busy(g)
        BY <3>1, <3>3, Pairs DEF PairOK
      <3>7. ~Busy(g)' /\ answers'[g] = {n}
        BY <3>1, <3>5, <3>6 DEF Busy, NoNewRefresh, RestType
      <3>8. PairOK(g)'
        <4> HIDE DEF Refreshes
        <4>1. \A t \in Sessions : row'[t].flow = g => t = s
          BY <3>2, <3>3
        <4> QED
          BY <3>2, <3>7, <4>1 DEF PairOK, Busy
      <3>9. ASSUME NEW f \in Flows, f # g PROVE PairOK(f)'
        <4>1. PairOK(f)
          BY Pairs
        <4>2. \A t \in Sessions : row[t].flow = f \/ row'[t].flow = f => row'[t] = row[t]
          BY <3>2, <3>9 DEF Exists
        <4>3. /\ answers'[f] = answers[f] /\ held'[f] = held[f]
              /\ smooth'[f] = smooth[f]
          BY <3>1, <3>9 DEF RestType
        <4> QED
          BY <3>5, <4>1, <4>2, <4>3, PairKept DEF NoNewRefresh
      <3> QED
        BY <3>8, <3>9, PairsNext
    <2>8. CASE ExchangeLoses(r)
      <3>1. PairRows /\ UNCHANGED <<answers, held, smooth>>
        BY <2>8 DEF ExchangeLoses, PairRows
      <3>3. Others(r) /\ \A g \in Flows : ~Refreshes(r, g)'
        BY <2>8, Refused DEF Refreshes, Others, ReqType, ExchangeLoses
      <3>2. NoNewRefresh
        BY <3>3, RefreshEnds
      <3> QED
        BY <3>1, <3>2, AllKept
    <2>9. ASSUME NEW f \in Flows, Refresh(r, f)
          PROVE  PairInv'
      <3>1. /\ row' = row /\ UNCHANGED <<answers, held>> /\ held[f] > 0
            /\ smooth' = [smooth EXCEPT ![f] = @ /\ ~Refreshing(f)
                                               /\ answers[f] = {}]
        BY <2>9 DEF Refresh
      <3>2. Others(r) /\ \A g \in Flows : g # f => ~Refreshes(r, g)'
        BY <2>9, Refreshed DEF Refreshes
      <3>3. \A q \in Requests, g \in Flows :
              Refreshes(q, g)' => Refreshes(q, g) \/ (q = r /\ g = f)
        BY <3>2 DEF Refreshes, Others
      <3>4. smooth'[f] => smooth[f] /\ ~Busy(f) /\ answers[f] = {}
        BY <3>1 DEF RestType, Refreshing, Busy, Refreshes
      <3>5. PairOK(f)'
        <4>1. PairOK(f)
          BY Pairs
        <4>2. ~(\A s \in Sessions : row[s].flow # f)
          BY <3>1, <4>1 DEF PairOK, RestType
        <4>3. smooth'[f] => \A q \in Requests : Refreshes(q, f)' => q = r
          BY <3>3, <3>4 DEF Busy
        <4> HIDE DEF Refreshes, Busy
        <4> QED
          BY <3>1, <3>4, <4>1, <4>2, <4>3 DEF PairOK
      <3>6. ASSUME NEW g \in Flows, g # f PROVE PairOK(g)'
        <4>1. PairOK(g)
          BY Pairs
        <4>2. smooth'[g] = smooth[g]
          BY <3>1, <3>6 DEF RestType
        <4> QED
          BY <3>1, <3>3, <3>6, <4>1, <4>2, PairKept
      <3> QED
        BY <3>5, <3>6, PairsNext
    <2>10. CASE CheckOwner(r)
      <3>1. PairRows /\ UNCHANGED <<answers, held, smooth>>
        BY <2>10 DEF CheckOwner, PairRows
      <3>3. /\ \E pc \in {"rotate", "outsider"} : GoTo(r, pc)
            /\ {"rotate", "outsider"} \subseteq Counters
            /\ req[r].op = "refresh" /\ ~Free(r)
        BY <2>10 DEF CheckOwner, Counters
      <3>4. /\ Others(r) /\ req'[r].op = req[r].op
            /\ req'[r].flow = req[r].flow
        <4> HIDE DEF GoTo
        <4> QED
          BY <3>3, Gone
      <3>2. NoNewRefresh
        BY <3>3, <3>4 DEF NoNewRefresh, Refreshes, Others
      <3> QED
        BY <3>1, <3>2, AllKept
    <2>11. CASE Rotate(r)
      <3>0. PICK f \in Flows, s \in Sessions :
              /\ f = req[r].flow /\ s = req[r].session /\ row[s].flow = f
        BY <2>11 DEF Rotate, RequestInv, RequestOK, AtSession
      <3>00. PICK n \in Nat : n = issued[f] + 1
        BY DEF RestType
      <3> DEFINE m == [row[s] EXCEPT !.access = n, !.refresh = n,
                            !.accessOld = FALSE, !.refreshOld = FALSE]
      <3>1. /\ f \in Flows /\ s \in Sessions /\ row[s].flow = f /\ n \in Nat
            /\ req[r].pc = "rotate"
        BY <2>11, <3>0 DEF Rotate
      <3>2. /\ UNCHANGED <<held, smooth>>
            /\ answers' = [answers EXCEPT ![f] = @ \cup {n}]
            /\ row' = [row EXCEPT ![s] = m]
        BY <2>11, <3>0, <3>00 DEF Rotate
      <3>3. m.flow = f /\ m.access = n /\ m.refresh = n
        BY <3>1 DEF RowType, Rows
      <3>4. /\ GoTo(r, "served") /\ "served" \in Counters
        BY <2>11 DEF Rotate, Counters
      <3>5. Others(r) /\ req'[r].pc = "served"
        <4> HIDE DEF GoTo
        <4> QED
          BY <3>4, Gone
      <3>6. NoNewRefresh /\ \A g \in Flows : ~Refreshes(r, g)'
        BY <3>5, RefreshEnds DEF Refreshes
      <3>7. /\ \A t \in Sessions : t # s => row'[t] = row[t]
            /\ row'[s].flow = f /\ row'[s].access = n /\ row'[s].refresh = n
        <4> HIDE DEF m
        <4> QED
          BY <3>1, <3>2, <3>3 DEF RowType
      <3>8. \A t \in Sessions : row'[t].flow = f => t = s
        BY <3>1, <3>7 DEF CodeInv, CodeYieldsOneSession, Exists
      <3>9. PairOK(f)'
        <4>1. PairOK(f)
          BY <3>1, Pairs
        <4>2. req[r].op = "refresh" => Refreshes(r, f)
          BY <3>0, <3>1 DEF Refreshes
        <4>3. req[r].op = "refresh"
          BY <3>1 DEF RefreshInv
        <4>4. smooth[f] => answers[f] = {}
                /\ \A q \in Requests : Refreshes(q, f) => q = r
          BY <4>1, <4>2, <4>3 DEF PairOK, Busy
        <4>5. smooth[f] => ~Busy(f)'
          BY <3>1, <3>6, <4>4 DEF Busy, NoNewRefresh
        <4>6. smooth[f] => answers'[f] = {n}
          BY <3>1, <3>2, <4>4 DEF RestType
        <4>7. smooth'[f] = smooth[f]
          BY <3>2
        <4> HIDE DEF Refreshes, m
        <4> QED
          BY <3>1, <3>7, <3>8, <4>5, <4>6, <4>7 DEF PairOK, Busy
      <3>10. ASSUME NEW g \in Flows, g # f PROVE PairOK(g)'
        <4>1. PairOK(g)
          BY Pairs
        <4>2. /\ answers'[g] = answers[g] /\ held'[g] = held[g]
              /\ smooth'[g] = smooth[g]
          BY <3>2, <3>10 DEF RestType
        <4>3. \A t \in Sessions : row[t].flow = g \/ row'[t].flow = g => row'[t] = row[t]
          BY <3>1, <3>7, <3>10
        <4> QED
          BY <3>6, <4>1, <4>2, <4>3, PairKept DEF NoNewRefresh
      <3> QED
        BY <3>9, <3>10, PairsNext
    <2>12. CASE RevokeAll(r)
      <3>1. PairRows /\ UNCHANGED <<answers, held, smooth>>
        BY <2>12, AllRevoked DEF RevokeAll, PairRows
      <3>3. Others(r) /\ \A g \in Flows : ~Refreshes(r, g)'
        BY <2>12, Refused DEF Refreshes, RevokeAll
      <3>2. NoNewRefresh
        BY <3>3, RefreshEnds
      <3> QED
        BY <3>1, <3>2, AllKept
    <2>13. ASSUME NEW s \in Sessions, FindToRevoke(r, s)
          PROVE  PairInv'
      <3>1. PairRows /\ UNCHANGED <<answers, held, smooth>>
        BY <2>13 DEF FindToRevoke, PairRows
      <3>3. Others(r) /\ \A g \in Flows : ~Refreshes(r, g)'
        BY <2>13, Refused DEF Refreshes, Others, ReqType, FindToRevoke
      <3>2. NoNewRefresh
        BY <3>3, RefreshEnds
      <3> QED
        BY <3>1, <3>2, AllKept
    <2>14. CASE RevokeSession(r)
      <3>1. PairRows /\ UNCHANGED <<answers, held, smooth>>
        BY <2>14, OneRevoked DEF RevokeSession, PairRows
      <3>3. Others(r) /\ \A g \in Flows : ~Refreshes(r, g)'
        BY <2>14, Refused DEF Refreshes, RevokeSession
      <3>2. NoNewRefresh
        BY <3>3, RefreshEnds
      <3> QED
        BY <3>1, <3>2, AllKept
    <2>15. ASSUME NEW f \in Flows, NEW s \in Sessions, Call(r, f, s)
          PROVE  PairInv'
      <3>1. PairRows /\ UNCHANGED <<answers, held, smooth>>
        BY <2>15 DEF Call, PairRows
      <3>4. StartsAt(r, "rowread", "call", f, s, Eligible(OwnerOf[f], row[s].org))
        BY <2>15 DEF Call, StartsAt
      <3>3. Others(r) /\ \A g \in Flows : ~Refreshes(r, g)'
        BY <3>4, Started DEF Refreshes
      <3>2. NoNewRefresh
        BY <3>3, RefreshEnds
      <3> QED
        BY <3>1, <3>2, AllKept
    <2>16. CASE Admit(r)
      <3>1. PairRows /\ UNCHANGED <<answers, held, smooth>>
        BY <2>16 DEF Admit, PairRows
      <3>3. Others(r) /\ \A g \in Flows : ~Refreshes(r, g)'
        BY <2>16, Admitted DEF Refreshes
      <3>2. NoNewRefresh
        BY <3>3, RefreshEnds
      <3> QED
        BY <3>1, <3>2, AllKept
    <2>17. CASE RequestDies(r)
      <3>1. PairRows /\ UNCHANGED <<answers, held, smooth>>
        BY <2>17 DEF RequestDies, PairRows
      <3>3. Others(r) /\ \A g \in Flows : ~Refreshes(r, g)'
        BY <2>17, Refused DEF Refreshes, Others, ReqType, RequestDies
      <3>2. NoNewRefresh
        BY <3>3, RefreshEnds
      <3> QED
        BY <3>1, <3>2, AllKept
    <2> QED
      BY <1>2, <2>1, <2>2, <2>3, <2>4, <2>5, <2>6, <2>7, <2>8, <2>9, <2>10,
             <2>11, <2>12, <2>13, <2>14, <2>15, <2>16, <2>17
         DEF Serve
  <1>3. ASSUME Environment PROVE PairInv'
    <2>1. ASSUME NEW f \in Flows, Authorize(f)
          PROVE  PairInv'
      BY <2>1 DEF Authorize, PairInv, Refreshing
    <2>2. ASSUME NEW f \in Flows, BagExpires(f)
          PROVE  PairInv'
      BY <2>2 DEF BagExpires, Passes, PairInv, Refreshing
    <2>3. ASSUME NEW f \in Flows, CodeExpires(f)
          PROVE  PairInv'
      BY <2>3 DEF CodeExpires, Passes, PairInv, Refreshing
    <2>4. ASSUME NEW f \in Flows, NEW n \in answers[f], Receive(f, n)
          PROVE  PairInv'
      <3>1. /\ UNCHANGED <<row, req>>
            /\ answers' = [answers EXCEPT ![f] = @ \ {n}]
            /\ \A g \in Flows : g # f => /\ answers'[g] = answers[g]
                                         /\ held'[g] = held[g]
                                         /\ smooth'[g] = smooth[g]
        BY <2>4 DEF Receive, RestType
      <3>2. \A q \in Requests, g \in Flows : Refreshes(q, g)' <=> Refreshes(q, g)
        BY <3>1 DEF Refreshes
      <3>3. PairOK(f)
        BY Pairs
      <3>4. ~(\A s \in Sessions : row[s].flow # f)
        BY <3>3 DEF PairOK
      <3>7. /\ held' = [held EXCEPT ![f] = n] /\ smooth' = smooth
        BY <2>4 DEF Receive
      <3>8. smooth[f] => /\ answers[f] = {n} /\ ~Busy(f)
                         /\ \A s \in Sessions : row[s].flow = f =>
                              row[s].access = n /\ row[s].refresh = n
        BY <3>3 DEF PairOK
      <3>9. smooth[f] => answers'[f] = {} /\ held'[f] = n /\ ~Busy(f)'
        BY <3>1, <3>2, <3>7, <3>8 DEF RestType, Busy
      <3>5. PairOK(f)'
        <4> HIDE DEF Refreshes
        <4> QED
          BY <3>1, <3>2, <3>4, <3>7, <3>8, <3>9 DEF PairOK, Busy
      <3>6. ASSUME NEW g \in Flows, g # f PROVE PairOK(g)'
        BY <3>1, <3>2, <3>6, Pairs, PairKept
      <3> QED
        BY <3>5, <3>6, PairsNext
    <2>5. ASSUME NEW f \in Flows, NEW n \in answers[f], LoseAnswer(f, n)
          PROVE  PairInv'
      <3>1. /\ UNCHANGED <<row, req>>
            /\ answers' = [answers EXCEPT ![f] = @ \ {n}]
            /\ \A g \in Flows : g # f => /\ answers'[g] = answers[g]
                                         /\ held'[g] = held[g]
                                         /\ smooth'[g] = smooth[g]
        BY <2>5 DEF LoseAnswer, RestType
      <3>2. \A q \in Requests, g \in Flows : Refreshes(q, g)' <=> Refreshes(q, g)
        BY <3>1 DEF Refreshes
      <3>3. PairOK(f)
        BY Pairs
      <3>4. ~(\A s \in Sessions : row[s].flow # f)
        BY <3>3 DEF PairOK
      <3>7. ~smooth'[f]
        BY <2>5 DEF LoseAnswer, RestType
      <3>5. PairOK(f)'
        BY <3>1, <3>4, <3>7 DEF PairOK
      <3>6. ASSUME NEW g \in Flows, g # f PROVE PairOK(g)'
        BY <3>1, <3>2, <3>6, Pairs, PairKept
      <3> QED
        BY <3>5, <3>6, PairsNext
    <2>6. ASSUME NEW s \in Sessions, TokenExpires(s)
          PROVE  PairInv'
      <3>1. PairRows /\ UNCHANGED <<answers, held, smooth>>
        BY <2>6, Aged DEF TokenExpires, PairRows
      <3>2. NoNewRefresh
        BY <2>6 DEF TokenExpires, NoNewRefresh, Refreshes
      <3> QED
        BY <3>1, <3>2, AllKept
    <2>7. ASSUME NEW u \in Users, NEW o \in Orgs, MembershipChanges(u, o)
          PROVE  PairInv'
      <3>1. PairRows /\ UNCHANGED <<answers, held, smooth>>
        BY <2>7 DEF MembershipChanges, PairRows
      <3>3. \A q \in Requests : req'[q].pc = req[q].pc
              /\ req'[q].op = req[q].op /\ req'[q].flow = req[q].flow
        BY <2>7 DEF MembershipChanges, ReqType, Requested
      <3>2. NoNewRefresh
        BY <3>3 DEF NoNewRefresh, Refreshes
      <3> QED
        BY <3>1, <3>2, AllKept
    <2> QED
      BY <1>3, <2>1, <2>2, <2>3, <2>4, <2>5, <2>6, <2>7 DEF Environment
  <1> QED
    BY <1>1, <1>2, <1>3 DEF Next

(* IInv is inductive.                                                      *)
LEMMA StepIInv == IInv /\ [Next]_vars => IInv'
  <1> SUFFICES ASSUME IInv, [Next]_vars PROVE IInv'
    OBVIOUS
  <1>1. ReqType /\ RowType /\ CodeType /\ RestType
    BY Types DEF IInv
  <1>2. TypeOK' /\ RequestInv'
    BY <1>1, StepTypeOK, StepRequestInv DEF IInv
  <1>3. RowInv' /\ CodeOrgInv'
    BY <1>1, StepOrgInv DEF IInv
  <1>4. BagInv' /\ IssuedInv' /\ CodeInv'
    BY <1>1, StepBagInv, StepIssuedInv, StepCodeInv DEF IInv
  <1>5. EntitledInv' /\ CauseInv'
    BY <1>1, StepEntitledInv, StepCauseInv DEF IInv
  <1>6. RefreshInv' /\ PairInv'
    BY <1>1, StepRefreshInv, StepPairInv DEF IInv
  <1> QED
    BY <1>2, <1>3, <1>4, <1>5, <1>6 DEF IInv

(* IInv holds in every reachable state.                                    *)
THEOREM Invariance == Spec => []IInv
  <1>1. Init => IInv
    BY InitIInv
  <1>2. IInv /\ [Next]_vars => IInv'
    BY StepIInv
  <1> QED
    BY <1>1, <1>2, PTL DEF Spec

(* The variables keep their types: in particular a session is only revoked *)
(* for one of the reasons its column knows.                                *)
THEOREM TypeCorrect == Spec => []TypeOK
  <1>1. IInv => TypeOK
    BY DEF IInv
  <1> QED
    BY <1>1, Invariance, PTL

(* One bag, one code or one denial: verify's insert decides between the     *)
(* requests that decoded it.                                               *)
THEOREM BagOnce == Spec => []BagHasOneOutcome
  <1>1. IInv => BagHasOneOutcome
    BY DEF IInv, BagInv, BagHasOneOutcome
  <1> QED
    BY <1>1, Invariance, PTL

(* One code, one session: the conditional update of exchangeCode decides.  *)
THEOREM CodeOnce == Spec => []CodeYieldsOneSession
  <1>1. IInv => CodeYieldsOneSession
    BY DEF IInv, CodeInv
  <1> QED
    BY <1>1, Invariance, PTL

(* Calls and refreshes are only served to owners that were members after   *)
(* the request came in: authenticate and exchangeRefreshToken look.        *)
THEOREM MembersOnly == Spec => []ServedWereMembers
  <1>1. IInv => ServedWereMembers
    BY DEF IInv, EntitledInv, ServedWereMembers
  <1> QED
    BY <1>1, Invariance, PTL

(* revokeAllSessionsForOwner only runs after a disconnect by the owner or  *)
(* the loss of a membership.                                               *)
THEOREM CausedRevocations == Spec => []RevocationHasCause
  <1>1. IInv => RevocationHasCause
    BY DEF IInv, CauseInv
  <1> QED
    BY <1>1, Invariance, PTL

(* The rotation of exchangeRefreshToken, conditioned on the id only, keeps  *)
(* a client that refreshes one at a time in step with its session's row.   *)
THEOREM HeldIsCurrent == Spec => []HeldPairIsCurrent
  <1>1. IInv => HeldPairIsCurrent
    BY DEF IInv, PairInv, HeldPairIsCurrent
  <1> QED
    BY <1>1, Invariance, PTL

(* No step takes a revocation back, a rotation in flight included.         *)
THEOREM NeverRevived == Spec => RevokedForGood
  <1>1. IInv /\ [Next]_vars =>
          [\A s \in Sessions : row[s].revoked # "no"
                                 => row'[s].revoked = row[s].revoked]_vars
    BY Types, StepRevokedKeep DEF IInv, RevokedKeep
  <1> QED
    BY <1>1, Invariance, PTL DEF Spec, RevokedForGood
=============================================================================
