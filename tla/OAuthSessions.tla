---------------------------- MODULE OAuthSessions ----------------------------
(***************************************************************************)
(* The OAuth authorization server that connects external agents, and the   *)
(* check MCP makes on every call.  A flow is one connection of one client  *)
(* installation: it has a signed state bag, a code, a session and, at the  *)
(* client, the token pair of the last answer that arrived.  A request goes *)
(* from one awaited statement to the next; other requests run in between.  *)
(* Tokens are named by their flow and the number of the pair, so that a    *)
(* hash lookup is a comparison of numbers.                                 *)
(***************************************************************************)
EXTENDS Naturals, FiniteSets

CONSTANTS Users, Orgs, Flows, Sessions, Requests, OwnerOf, NoFlow, NoSession, NoOrg,
          MaxPairs,      \* token pairs issued per flow
          MaxChanges     \* changes of a membership, and expiries

ASSUME OwnerAssumption == OwnerOf \in [Flows -> Users]
ASSUME NoneAssumption ==
    /\ NoFlow \notin Flows
    /\ NoSession \notin Sessions
    /\ NoOrg \notin Orgs
ASSUME BoundsAssumption == MaxPairs \in Nat /\ MaxChanges \in Nat

VARIABLES
    member,     \* member[u]: organizations where u is an admin or a member; a
                \* guest's row counts like none
    bag,        \* bag[f]: the signed bag, "old" after its ten minutes
    consumed,   \* consumed[f]: the oauth_consumed_state row of the bag
    code,       \* code[f]: the oauth_code row
    row,        \* row[s]: the oauth_session row
    req,        \* req[r]: a request in flight
    held,       \* held[f]: the pair the client holds, 0 before the first
    answers,    \* answers[f]: pairs in answers under way to the client
    issued,     \* issued[f]: pairs generated so far
    changes,
    outcomes,   \* history: codes and denials sent to the client of f
    asked,      \* history: sessions their user has disconnected
    lapsed,     \* history: pairs <<user, organization>> that were no members
    smooth      \* history: no refresh of f overlapped and no answer was lost

vars == <<member, bag, consumed, code, row, req, held, answers, issued,
          changes, outcomes, asked, lapsed, smooth>>

server == <<bag, consumed, code, row>>
client == <<held, answers, issued, smooth>>
history == <<outcomes, asked, lapsed>>

NoCode == [st |-> "none", used |-> FALSE, org |-> NoOrg]
NoRow == [flow |-> NoFlow, org |-> NoOrg, access |-> 0, refresh |-> 0,
          accessOld |-> FALSE, refreshOld |-> FALSE, revoked |-> "no"]
Idle == [pc |-> "idle", op |-> "none", flow |-> NoFlow, org |-> NoOrg,
         session |-> NoSession, entitled |-> FALSE]

Eligible(u, o) == o \in member[u]
Exists(s) == row[s].flow \in Flows
Live(s) == Exists(s) /\ row[s].revoked = "no"
OwnerOfRow(s) == OwnerOf[row[s].flow]

Free(r) == req[r].pc \in {"idle", "served"}
Refuse(r) == req' = [req EXCEPT ![r] = Idle]
GoTo(r, pc) == req' = [req EXCEPT ![r].pc = pc]

-----------------------------------------------------------------------------
(* Consent: authorize signs a bag; complete and deny consume it.           *)

\* GET /oauth/authorize: the parameters are those of a registered client.
Authorize(f) ==
    /\ bag[f] = "none"
    /\ bag' = [bag EXCEPT ![f] = "signed"]
    /\ UNCHANGED <<member, consumed, code, row, req, client, changes, history>>

\* complete and deny decode the bag and check its age.
Decode(r, f, op) ==
    /\ Free(r)
    /\ bag[f] = "signed"
    /\ req' = [req EXCEPT ![r] = [Idle EXCEPT !.pc = "decoded", !.op = op,
                                              !.flow = f]]
    /\ UNCHANGED <<member, server, client, changes, history>>

\* Mutant: the consumed row is saved with upsert semantics.
Consume_Upserts(r) ==
    LET f == req[r].flow IN
    /\ req[r].pc = "decoded"
    /\ consumed' = [consumed EXCEPT ![f] = TRUE]
    /\ GoTo(r, IF req[r].op = "allow" THEN "consumed" ELSE "served")
    /\ outcomes' = [outcomes EXCEPT ![f] = IF req[r].op = "deny" THEN @ + 1
                                                               ELSE @]
    /\ UNCHANGED <<member, bag, code, row, client, changes, asked, lapsed>>

\* verify inserts the consumed row; the primary key refuses the second.  deny
\* has nothing left to do but to answer.
Consume(r) ==
    LET f == req[r].flow IN
    /\ req[r].pc = "decoded"
    /\ ~consumed[f]
    /\ consumed' = [consumed EXCEPT ![f] = TRUE]
    /\ \/ /\ req[r].op = "allow"
          /\ GoTo(r, "consumed")
          /\ UNCHANGED outcomes
       \/ /\ req[r].op = "deny"
          /\ GoTo(r, "served")
          /\ outcomes' = [outcomes EXCEPT ![f] = @ + 1]
    /\ UNCHANGED <<member, bag, code, row, client, changes, asked,
                   lapsed>>

ConsumeConflicts(r) ==
    /\ req[r].pc = "decoded"
    /\ consumed[req[r].flow]
    /\ Refuse(r)
    /\ UNCHANGED <<member, server, client, changes, history>>

\* complete reads the membership in the chosen organization.
CheckConsent(r, o) ==
    /\ req[r].pc = "consumed"
    /\ IF Eligible(OwnerOf[req[r].flow], o)
       THEN req' = [req EXCEPT ![r].pc = "eligible", ![r].org = o]
       ELSE Refuse(r)
    /\ UNCHANGED <<member, server, client, changes, history>>

IssueCode(r) ==
    LET f == req[r].flow IN
    /\ req[r].pc = "eligible"
    /\ code' = [code EXCEPT ![f] = [st |-> "fresh", used |-> FALSE,
                                    org |-> req[r].org]]
    /\ outcomes' = [outcomes EXCEPT ![f] = @ + 1]
    /\ GoTo(r, "served")
    /\ UNCHANGED <<member, bag, consumed, row, client, changes, asked,
                   lapsed>>

-----------------------------------------------------------------------------
(* The token endpoint, authorization_code.                                 *)

\* exchangeCode reads the code row; verifier and redirect are the client's own.
ReadCode(r, f) ==
    /\ Free(r)
    /\ code[f].st = "fresh"
    /\ ~code[f].used
    /\ req' = [req EXCEPT ![r] = [Idle EXCEPT !.pc = "coderead",
                                              !.op = "exchange", !.flow = f]]
    /\ UNCHANGED <<member, server, client, changes, history>>

\* Mutant: the code is marked without asking whether it is unused.
Exchange_Unconditional(r, s) ==
    LET f == req[r].flow
        n == issued[f] + 1
    IN
    /\ req[r].pc = "coderead"
    /\ n <= MaxPairs
    /\ ~Exists(s)
    /\ code' = [code EXCEPT ![f].used = TRUE]
    /\ row' = [row EXCEPT ![s] = [NoRow EXCEPT !.flow = f, !.org = code[f].org,
                                               !.access = n, !.refresh = n]]
    /\ issued' = [issued EXCEPT ![f] = n]
    /\ answers' = [answers EXCEPT ![f] = @ \cup {n}]
    /\ Refuse(r)
    /\ UNCHANGED <<member, bag, consumed, held, smooth, changes, history>>

\* One transaction: the code is consumed by an update that wants it unused, and
\* the session is inserted.
Exchange(r, s) ==
    LET f == req[r].flow
        n == issued[f] + 1
    IN
    /\ req[r].pc = "coderead"
    /\ n <= MaxPairs
    /\ ~code[f].used
    /\ ~Exists(s)
    /\ code' = [code EXCEPT ![f].used = TRUE]
    /\ row' = [row EXCEPT ![s] = [NoRow EXCEPT !.flow = f, !.org = code[f].org,
                                               !.access = n, !.refresh = n]]
    /\ issued' = [issued EXCEPT ![f] = n]
    /\ answers' = [answers EXCEPT ![f] = @ \cup {n}]
    /\ Refuse(r)
    /\ UNCHANGED <<member, bag, consumed, held, smooth, changes, history>>

\* The loser of two exchanges updates no row and aborts.
ExchangeLoses(r) ==
    /\ req[r].pc = "coderead"
    /\ code[req[r].flow].used
    /\ Refuse(r)
    /\ UNCHANGED <<member, server, client, changes, history>>

-----------------------------------------------------------------------------
(* The token endpoint, refresh_token.                                      *)

Refreshing(f) ==
    \E r \in Requests : req[r].op = "refresh" /\ req[r].flow = f /\ ~Free(r)

\* Mutant: a token that finds nothing is taken for reuse.
Refresh_MissIsReuse(r, f) ==
    LET found == {s \in Sessions : row[s].flow = f /\ row[s].refresh = held[f]}
        begin == [Idle EXCEPT !.op = "refresh", !.flow = f]
    IN
    /\ Free(r)
    /\ held[f] > 0
    /\ \/ found = {} /\ req' = [req EXCEPT ![r] = [begin EXCEPT !.pc = "reuse"]]
       \/ \E s \in found :
             /\ row[s].revoked = "no"
             /\ req' = [req EXCEPT ![r] = [begin EXCEPT !.pc = "rowread",
                            !.session = s,
                            !.entitled = Eligible(OwnerOf[f], row[s].org)]]
    /\ UNCHANGED <<member, server, client, changes, history>>

\* A client refreshes with the token it holds.  The lookup is by hash: a token
\* that was rotated out finds nothing.  A row that is found revoked is taken for
\* reuse of its token; one that has expired is refused and left alone.
Refresh(r, f) ==
    LET found == {s \in Sessions : row[s].flow = f /\ row[s].refresh = held[f]}
    IN
    /\ Free(r)
    /\ held[f] > 0
    /\ smooth' = [smooth EXCEPT ![f] = @ /\ ~Refreshing(f) /\ answers[f] = {}]
    /\ \/ /\ \/ found = {}
             \/ \E s \in found : row[s].revoked = "no" /\ row[s].refreshOld
          /\ Refuse(r)
       \/ \E s \in found :
             /\ row[s].revoked # "no" \/ ~row[s].refreshOld
             /\ req' = [req EXCEPT ![r] =
                    [Idle EXCEPT !.pc = IF row[s].revoked = "no"
                                        THEN "rowread" ELSE "reuse",
                                 !.op = "refresh", !.flow = f, !.session = s,
                                 !.entitled = Eligible(OwnerOf[f], row[s].org)]]
    /\ UNCHANGED <<member, server, held, answers, issued, changes, history>>

\* Mutant: the refresh does not look at the membership.
CheckOwner_Trusts(r) ==
    /\ req[r].pc = "rowread"
    /\ req[r].op = "refresh"
    /\ GoTo(r, "rotate")
    /\ UNCHANGED <<member, server, client, changes, history>>

\* The eligibility check of the refresh.
CheckOwner(r) ==
    LET s == req[r].session IN
    /\ req[r].pc = "rowread"
    /\ req[r].op = "refresh"
    /\ GoTo(r, IF Eligible(OwnerOfRow(s), row[s].org) THEN "rotate"
                                                      ELSE "outsider")
    /\ UNCHANGED <<member, server, client, changes, history>>

\* Mutant: the refresh token is not replaced in the row.
Rotate_AccessOnly(r) ==
    LET s == req[r].session
        f == req[r].flow
        n == issued[f] + 1
    IN
    /\ req[r].pc = "rotate"
    /\ n <= MaxPairs
    /\ row' = [row EXCEPT ![s].access = n, ![s].accessOld = FALSE]
    /\ issued' = [issued EXCEPT ![f] = n]
    /\ answers' = [answers EXCEPT ![f] = @ \cup {n}]
    /\ GoTo(r, "served")
    /\ UNCHANGED <<member, bag, consumed, code, held, smooth, changes, history>>

\* Mutant: the row read before is saved whole.
Rotate_SavesRow(r) ==
    LET s == req[r].session
        f == req[r].flow
        n == issued[f] + 1
    IN
    /\ req[r].pc = "rotate"
    /\ n <= MaxPairs
    /\ row' = [row EXCEPT ![s].access = n, ![s].refresh = n,
                          ![s].accessOld = FALSE, ![s].refreshOld = FALSE,
                          ![s].revoked = "no"]
    /\ issued' = [issued EXCEPT ![f] = n]
    /\ answers' = [answers EXCEPT ![f] = @ \cup {n}]
    /\ GoTo(r, "served")
    /\ UNCHANGED <<member, bag, consumed, code, held, smooth, changes, history>>

\* The update names the session's id only: not the token that was presented,
\* and not whether the session is still live.
Rotate(r) ==
    LET s == req[r].session
        f == req[r].flow
        n == issued[f] + 1
    IN
    /\ req[r].pc = "rotate"
    /\ n <= MaxPairs
    /\ row' = [row EXCEPT ![s].access = n, ![s].refresh = n,
                          ![s].accessOld = FALSE, ![s].refreshOld = FALSE]
    /\ issued' = [issued EXCEPT ![f] = n]
    /\ answers' = [answers EXCEPT ![f] = @ \cup {n}]
    /\ GoTo(r, "served")
    /\ UNCHANGED <<member, bag, consumed, code, held, smooth, changes, history>>

\* Mutant: a reason the column does not have.
ReasonOf_State(pc) == pc

ReasonOf(pc) == IF pc = "reuse" THEN "refresh_reuse" ELSE "membership_revoked"

\* revokeAllSessionsForOwner: every live session of the owner, in any org.
RevokeAll(r) ==
    LET u == OwnerOf[req[r].flow] IN
    /\ req[r].pc \in {"reuse", "outsider"}
    /\ row' = [s \in Sessions |->
                  IF Live(s) /\ OwnerOfRow(s) = u
                  THEN [row[s] EXCEPT !.revoked = ReasonOf(req[r].pc)]
                  ELSE row[s]]
    /\ Refuse(r)
    /\ UNCHANGED <<member, bag, consumed, code, client, changes, history>>

-----------------------------------------------------------------------------
(* Revocation and calls.                                                   *)

\* The disconnect button (by id, of the owner's own) and POST /oauth/revoke (by
\* a token of the row) find a live row and revoke it by a second statement.
FindToRevoke(r, s) ==
    /\ Free(r)
    /\ Live(s)
    /\ req' = [req EXCEPT ![r] = [Idle EXCEPT !.pc = "found", !.op = "revoke",
                                     !.flow = row[s].flow, !.session = s]]
    /\ UNCHANGED <<member, server, client, changes, history>>

RevokeSession(r) ==
    LET s == req[r].session IN
    /\ req[r].pc = "found"
    /\ row' = IF Live(s) THEN [row EXCEPT ![s].revoked = "user"] ELSE row
    /\ asked' = asked \cup {s}
    /\ Refuse(r)
    /\ UNCHANGED <<member, bag, consumed, code, client, changes, outcomes,
                   lapsed>>

\* authenticate: validateAccessToken reads the row by the token of the client.
Call(r, f, s) ==
    /\ Free(r)
    /\ held[f] > 0
    /\ row[s].flow = f /\ row[s].access = held[f]
    /\ row[s].revoked = "no"
    /\ ~row[s].accessOld
    /\ req' = [req EXCEPT ![r] = [Idle EXCEPT !.pc = "rowread", !.op = "call",
                                     !.flow = f, !.session = s,
                                     !.entitled = Eligible(OwnerOf[f], row[s].org)]]
    /\ UNCHANGED <<member, server, client, changes, history>>

\* ... and the membership of the owner, read again on every call.
Admit(r) ==
    LET s == req[r].session IN
    /\ req[r].pc = "rowread"
    /\ req[r].op = "call"
    /\ IF Eligible(OwnerOfRow(s), row[s].org) THEN GoTo(r, "served")
                                              ELSE Refuse(r)
    /\ UNCHANGED <<member, server, client, changes, history>>

-----------------------------------------------------------------------------
(* Client, time, members and failures.                                     *)

Receive(f, n) ==
    /\ n \in answers[f]
    /\ answers' = [answers EXCEPT ![f] = @ \ {n}]
    /\ held' = [held EXCEPT ![f] = n]
    /\ UNCHANGED <<member, server, req, issued, smooth, changes, history>>

LoseAnswer(f, n) ==
    /\ n \in answers[f]
    /\ answers' = [answers EXCEPT ![f] = @ \ {n}]
    /\ smooth' = [smooth EXCEPT ![f] = FALSE]
    /\ UNCHANGED <<member, server, req, held, issued, changes, history>>

Passes == changes < MaxChanges /\ changes' = changes + 1

BagExpires(f) ==
    /\ Passes
    /\ bag[f] = "signed"
    /\ bag' = [bag EXCEPT ![f] = "old"]
    /\ UNCHANGED <<member, consumed, code, row, req, client, history>>

CodeExpires(f) ==
    /\ Passes
    /\ code[f].st = "fresh"
    /\ code' = [code EXCEPT ![f].st = "old"]
    /\ UNCHANGED <<member, bag, consumed, row, req, client, history>>

\* An hour passes, or thirty days without a refresh.
TokenExpires(s) ==
    /\ Passes
    /\ Exists(s)
    /\ \/ ~row[s].accessOld /\ row' = [row EXCEPT ![s].accessOld = TRUE]
       \/ /\ row[s].accessOld /\ ~row[s].refreshOld
          /\ row' = [row EXCEPT ![s].refreshOld = TRUE]
    /\ UNCHANGED <<member, bag, consumed, code, req, client, history>>

\* Organizations change members on their own (module Memberships).
\* entitled notes that the owner has been a member since the request came in.
MembershipChanges(u, o) ==
    /\ Passes
    /\ member' = [member EXCEPT ![u] = IF o \in @ THEN @ \ {o} ELSE @ \cup {o}]
    /\ req' = [r \in Requests |->
                  IF req[r].op \in {"refresh", "call"} /\ ~Free(r)
                     /\ OwnerOf[req[r].flow] = u /\ row[req[r].session].org = o
                  THEN [req[r] EXCEPT !.entitled = @ \/ o \notin member[u]]
                  ELSE req[r]]
    /\ lapsed' = lapsed \cup {<<u, o>>}
    /\ UNCHANGED <<server, client, outcomes, asked>>

\* The process serving a request dies; what it wrote stays.
RequestDies(r) ==
    /\ ~Free(r)
    /\ Refuse(r)
    /\ UNCHANGED <<member, server, client, changes, history>>

-----------------------------------------------------------------------------
Init ==
    /\ member \in [Users -> SUBSET Orgs]
    /\ bag = [f \in Flows |-> "none"]
    /\ consumed = [f \in Flows |-> FALSE]
    /\ code = [f \in Flows |-> NoCode]
    /\ row = [s \in Sessions |-> NoRow]
    /\ req = [r \in Requests |-> Idle]
    /\ held = [f \in Flows |-> 0]
    /\ answers = [f \in Flows |-> {}]
    /\ issued = [f \in Flows |-> 0]
    /\ changes = 0
    /\ outcomes = [f \in Flows |-> 0]
    /\ asked = {}
    /\ lapsed = {p \in Users \X Orgs : p[2] \notin member[p[1]]}
    /\ smooth = [f \in Flows |-> TRUE]

Serve(r) ==
    \/ \E f \in Flows, op \in {"allow", "deny"} : Decode(r, f, op)
    \/ Consume(r)
    \/ ConsumeConflicts(r)
    \/ \E o \in Orgs : CheckConsent(r, o)
    \/ IssueCode(r)
    \/ \E f \in Flows : ReadCode(r, f)
    \/ \E s \in Sessions : Exchange(r, s)
    \/ ExchangeLoses(r)
    \/ \E f \in Flows : Refresh(r, f)
    \/ CheckOwner(r)
    \/ Rotate(r)
    \/ RevokeAll(r)
    \/ \E s \in Sessions : FindToRevoke(r, s)
    \/ RevokeSession(r)
    \/ \E f \in Flows, s \in Sessions : Call(r, f, s)
    \/ Admit(r)
    \/ RequestDies(r)

Environment ==
    \/ \E f \in Flows : Authorize(f) \/ BagExpires(f) \/ CodeExpires(f)
    \/ \E f \in Flows : \E n \in answers[f] : Receive(f, n) \/ LoseAnswer(f, n)
    \/ \E s \in Sessions : TokenExpires(s)
    \/ \E u \in Users, o \in Orgs : MembershipChanges(u, o)

Next == (\E r \in Requests : Serve(r)) \/ Environment

Spec == Init /\ [][Next]_vars

-----------------------------------------------------------------------------
Operations == {"none", "allow", "deny", "exchange", "refresh", "revoke", "call"}
Counters == {"idle", "served", "decoded", "consumed", "eligible", "coderead",
             "rowread", "rotate", "reuse", "outsider", "found"}
Rows == [flow : Flows \cup {NoFlow}, org : Orgs \cup {NoOrg}, access : Nat,
         refresh : Nat, accessOld : BOOLEAN, refreshOld : BOOLEAN,
         revoked : {"no", "user", "refresh_reuse", "membership_revoked"}]
Requested == [pc : Counters, op : Operations, flow : Flows \cup {NoFlow},
              org : Orgs \cup {NoOrg}, session : Sessions \cup {NoSession},
              entitled : BOOLEAN]

\* The type invariant.
TypeOK ==
    /\ member \in [Users -> SUBSET Orgs]
    /\ bag \in [Flows -> {"none", "signed", "old"}]
    /\ consumed \in [Flows -> BOOLEAN]
    /\ code \in [Flows -> [st : {"none", "fresh", "old"}, used : BOOLEAN,
                           org : Orgs \cup {NoOrg}]]
    /\ row \in [Sessions -> Rows]
    /\ req \in [Requests -> Requested]
    /\ held \in [Flows -> Nat]
    /\ answers \in [Flows -> SUBSET Nat]
    /\ issued \in [Flows -> Nat]
    /\ changes \in Nat
    /\ outcomes \in [Flows -> Nat]
    /\ asked \subseteq Sessions
    /\ lapsed \subseteq Users \X Orgs
    /\ smooth \in [Flows -> BOOLEAN]

\* Two tabs that allow and deny, or allow twice, with one bag: the client is
\* sent at most one code or one denial.
BagHasOneOutcome == \A f \in Flows : outcomes[f] <= 1

\* However often a client repeats the exchange of its code, and in whatever
\* order the repeats run, one session comes of it.
CodeYieldsOneSession ==
    \A s, t \in Sessions : Exists(s) /\ row[s].flow = row[t].flow => s = t

\* No step brings a revoked session back or changes why it was revoked: also
\* not the rotation of a refresh that had read the session before.
RevokedForGood ==
    [][\A s \in Sessions : row[s].revoked # "no"
                               => row'[s].revoked = row[s].revoked]_vars

\* A call or refresh is served only if its owner was a member of the session's
\* organization at some moment since the request came in.
ServedWereMembers ==
    \A r \in Requests :
        req[r].pc = "served" /\ req[r].op \in {"call", "refresh"}
            => req[r].entitled

\* A client that refreshes one at a time and loses no answer holds the pair of
\* its session's row, whatever else happens to the session.
HeldPairIsCurrent ==
    \A f \in Flows, s \in Sessions :
        /\ row[s].flow = f
        /\ smooth[f] /\ held[f] > 0 /\ answers[f] = {}
        => row[s].access = held[f] /\ row[s].refresh = held[f]

\* A session is revoked only because its owner disconnected an agent, or had no
\* membership in the organization of one: never by repeated, lost or crossing
\* requests alone, and never by what another user does.
RevocationHasCause ==
    \A s \in Sessions :
        row[s].revoked # "no" =>
            \E t \in Sessions :
                /\ Exists(t) /\ OwnerOfRow(t) = OwnerOfRow(s)
                /\ t \in asked \/ <<OwnerOfRow(t), row[t].org>> \in lapsed
=============================================================================
