------------------------------- MODULE Accounts -------------------------------
(***************************************************************************)
(* The members of one organisation, their invitations and their sessions:  *)
(* apps/api/src/modules/auth/identity.service.ts with the routes of          *)
(* auth.controller.ts, the session half of auth.guard.ts, and               *)
(* modules/members/members.controller.ts.                                   *)
(*                                                                         *)
(* Every request reads what it decides on first and writes in a later       *)
(* statement that names its rows by id. An invitation is to one user, and   *)
(* a token that was superseded finds no row, so tokens are left out; so are  *)
(* the custom permissions, which nothing here depends on.                   *)
(***************************************************************************)
EXTENDS Naturals, FiniteSets, Sequences

CONSTANTS
  Users,             \* the people
  Founder,           \* the owner that provisioning created
  MemberHandlers,    \* the requests that may be in progress at the same time
  Rest,              \* no request
  MaxMemberRequests  \* bound: how many requests one behaviour has

Role == {"OWNER", "ADMIN", "MEMBER"}
InviteStatus == {"PENDING", "ACCEPTED", "REVOKED", "EXPIRED"}
MemberOp ==
  {"leave", "transfer", "change", "invite", "resend", "revoke", "expire", "accept", "joined",
   "switch", "enter"}

Invitation == [to : Users, role : {"ADMIN", "MEMBER"}, status : InviteStatus, late : BOOLEAN]

\* What a request has found: who it is about, the other one, the role and the invitation.
MemberRequest == [op : MemberOp, by : Users, to : Users, role : Role, row : Nat]

ASSUME AccountAssumption ==
  /\ Founder \in Users
  /\ MaxMemberRequests \in Nat
  /\ Rest \notin MemberRequest

VARIABLES
  role,           \* [Users -> Role or "none"]: the membership row of the user
  left,           \* the users whose membership row has deleted_at set
  pinned,         \* the users whose session has the organisation as its active one
  invites,        \* Seq([to, role, status, late]): the invitation rows
  memberRequest,  \* [MemberHandlers -> what a request in progress has found, or Rest]
  joins,          \* [DOMAIN invites -> Nat]: history, how often each was accepted
  memberCrossed,  \* history: the kinds of requests that overlapped
  demoted,        \* history: an owner has accepted an invitation or handed the ownership to himself
  memberRequests  \* history: requests so far

memberRows == <<role, left, pinned>>
accountVars == <<memberRows, invites, memberRequest, joins, memberCrossed, demoted, memberRequests>>

MemberCrossing == {"members", "invitation", "session"}

AccountTypeOK ==
  /\ role \in [Users -> Role \cup {"none"}]
  /\ left \subseteq {u \in Users : role[u] # "none"}
  /\ pinned \subseteq Users
  /\ invites \in Seq(Invitation)
  /\ \A i, j \in DOMAIN invites :
       invites[i].to = invites[j].to /\ invites[i].status = invites[j].status => i = j
  /\ memberRequest \in [MemberHandlers -> MemberRequest \cup {Rest}]
  /\ \A r \in MemberHandlers :
       memberRequest[r] # Rest => memberRequest[r].row \in 0..Len(invites)
  /\ joins \in Seq(Nat) /\ Len(joins) = Len(invites)
  /\ memberCrossed \subseteq MemberCrossing
  /\ demoted \in BOOLEAN
  /\ memberRequests \in 0..MaxMemberRequests

\* The organisation as provisioning leaves it.
AccountInit ==
  /\ role = [u \in Users |-> IF u = Founder THEN "OWNER" ELSE "none"]
  /\ left = {}
  /\ pinned = {}
  /\ invites = << >>
  /\ memberRequest = [r \in MemberHandlers |-> Rest]
  /\ joins = << >>
  /\ memberCrossed = {}
  /\ demoted = FALSE
  /\ memberRequests = 0

-----------------------------------------------------------------------------
(* A request finds what it decides on ...                                  *)

Member(u) == role[u] # "none" /\ u \notin left
Owners == {u \in Users : Member(u) /\ role[u] = "OWNER"}

\* Seeded fault: memberships that were left are counted among the owners.
OtherOwnersEver(u) == {v \in Users : role[v] = "OWNER"} \ {u}

OtherOwners(u) == Owners \ {u}

Pending(i) == invites[i].status = "PENDING"

Invited(u) == \E i \in DOMAIN invites : invites[i].to = u /\ Pending(i)

Acceptable(i) == Pending(i) /\ ~ invites[i].late

Plain(op, u) == [op |-> op, by |-> u, to |-> u, role |-> "MEMBER", row |-> 0]

On(op, i) == [Plain(op, invites[i].to) EXCEPT !.row = i]

\* The requests that would pass every check made on what they read. The role of an
\* invitation is never OWNER.
MemberFound ==
  {Plain("leave", u) : u \in {u \in Users :
     Member(u) /\ (role[u] = "OWNER" => OtherOwners(u) # {})}}
  \cup {[Plain("transfer", u) EXCEPT !.to = v] : u \in Owners, v \in {v \in Users : Member(v)}}
  \cup {[Plain("change", u) EXCEPT !.role = p] : u \in {u \in Users :
          Member(u) /\ (role[u] = "OWNER" => OtherOwners(u) # {})}, p \in Role}
  \cup {[Plain("change", u) EXCEPT !.role = "OWNER"] : u \in Owners}
  \cup {[Plain("invite", u) EXCEPT !.role = p] :
          u \in {u \in Users : ~ Invited(u)}, p \in {"ADMIN", "MEMBER"}}
  \cup {[On("invite", i) EXCEPT !.role = p] :
          i \in {i \in DOMAIN invites : Pending(i)}, p \in {"ADMIN", "MEMBER"}}
  \cup {On(op, i) :
          op \in {"resend", "revoke"}, i \in {i \in DOMAIN invites : Pending(i)}}
  \cup {On("expire", i) : i \in {i \in DOMAIN invites : Pending(i) /\ invites[i].late}}
  \cup {[On("accept", i) EXCEPT !.role = invites[i].role] :
          i \in {i \in DOMAIN invites : Acceptable(i)}}
  \cup {Plain("switch", u) : u \in {u \in Users : Member(u)}}
  \cup {Plain("enter", u) : u \in {u \in Users : u \notin pinned /\ Member(u)}}

\* How q overlaps the requests in progress.
MemberCrossings(r, q) ==
  LET beside == {memberRequest[s] : s \in MemberHandlers \ {r}} \ {Rest}
      Meet(S, T) == \E p \in beside : (p.op \in S /\ q.op \in T) \/ (p.op \in T /\ q.op \in S)
      membership == {"leave", "transfer", "change", "accept"}
      invitation == {"invite", "resend", "revoke", "expire", "accept"}
  IN {x \in MemberCrossing :
        \/ x = "members" /\ Meet(membership, membership)
        \/ x = "invitation" /\ Meet(invitation, invitation)
        \/ x = "session" /\ Meet({"leave"}, {"accept", "joined", "switch", "enter"})}

MemberFind(r) ==
  /\ memberRequest[r] = Rest
  /\ memberRequests < MaxMemberRequests
  /\ memberRequests' = memberRequests + 1
  /\ \E q \in MemberFound : /\ memberRequest' = [memberRequest EXCEPT ![r] = q]
                            /\ memberCrossed' = memberCrossed \cup MemberCrossings(r, q)
  /\ UNCHANGED <<memberRows, invites, joins, demoted>>

(* ... and acts on it.                                                     *)

MemberDoing(r, op) == memberRequest[r] # Rest /\ memberRequest[r].op = op
MemberAnswer(r) == memberRequest' = [memberRequest EXCEPT ![r] = Rest]

\* The sessions pinned to the organisation are unpinned with the membership.
Unpinned(u) == pinned \ {u}

LeaveOrg(r) ==
  /\ MemberDoing(r, "leave")
  /\ left' = left \cup {memberRequest[r].by}
  /\ pinned' = Unpinned(memberRequest[r].by)
  /\ MemberAnswer(r)
  /\ UNCHANGED <<role, invites, joins, memberCrossed, demoted, memberRequests>>

\* The new owner first, then the old one: two statements of one transaction.
Transferred(roles, from, to) == [[roles EXCEPT ![to] = "OWNER"] EXCEPT ![from] = "ADMIN"]

Transfer(r) ==
  /\ MemberDoing(r, "transfer")
  /\ LET q == memberRequest[r]
     IN /\ role' = Transferred(role, q.by, q.to)
        /\ demoted' = (demoted \/ q.by = q.to)
  /\ MemberAnswer(r)
  /\ UNCHANGED <<left, pinned, invites, joins, memberCrossed, memberRequests>>

ChangeRole(r) ==
  /\ MemberDoing(r, "change")
  /\ role' = [role EXCEPT ![memberRequest[r].by] = memberRequest[r].role]
  /\ MemberAnswer(r)
  /\ UNCHANGED <<left, pinned, invites, joins, memberCrossed, demoted, memberRequests>>

\* An upsert, which may be two statements: the pending invitation to that address that
\* was found is written over, whatever its status is by then, or one is created, which
\* fails on the index if another was meanwhile.
Invite(r) ==
  /\ MemberDoing(r, "invite")
  /\ LET q == memberRequest[r]
     IN \/ /\ q.row # 0
           /\ invites' = [invites EXCEPT ![q.row].role = q.role, ![q.row].late = FALSE]
           /\ UNCHANGED joins
        \/ /\ q.row = 0 /\ ~ Invited(q.by)
           /\ invites' = Append(invites, [to |-> q.by, role |-> q.role, status |-> "PENDING",
                                         late |-> FALSE])
           /\ joins' = Append(joins, 0)
        \/ q.row = 0 /\ Invited(q.by) /\ UNCHANGED <<invites, joins>>
  /\ MemberAnswer(r)
  /\ UNCHANGED <<memberRows, memberCrossed, demoted, memberRequests>>

\* A new token and a new expiry, for the row as it is by then.
Resend(r) ==
  /\ MemberDoing(r, "resend")
  /\ invites' = [invites EXCEPT ![memberRequest[r].row].late = FALSE]
  /\ MemberAnswer(r)
  /\ UNCHANGED <<memberRows, joins, memberCrossed, demoted, memberRequests>>

\* Seeded fault: the index leaves the status out of account.
FreeAny(i, s) == TRUE

\* An address has one invitation of each status at most: a second one that would be
\* revoked, accepted or expired fails on the index, and its transaction with it.
Free(i, s) == \A j \in DOMAIN invites \ {i} : invites[j].to = invites[i].to => invites[j].status # s

Revoke(r) ==
  /\ MemberDoing(r, "revoke")
  /\ LET i == memberRequest[r].row
     IN invites' = IF Free(i, "REVOKED") THEN [invites EXCEPT ![i].status = "REVOKED"] ELSE invites
  /\ MemberAnswer(r)
  /\ UNCHANGED <<memberRows, joins, memberCrossed, demoted, memberRequests>>

\* Its date passes.
Lapse ==
  /\ \E i \in DOMAIN invites :
       Pending(i) /\ ~ invites[i].late /\ invites' = [invites EXCEPT ![i].late = TRUE]
  /\ UNCHANGED <<memberRows, memberRequest, joins, memberCrossed, demoted, memberRequests>>

\* Somebody tries it after that.
Expire(r) ==
  /\ MemberDoing(r, "expire")
  /\ LET i == memberRequest[r].row
     IN invites' = IF Free(i, "EXPIRED") THEN [invites EXCEPT ![i].status = "EXPIRED"] ELSE invites
  /\ MemberAnswer(r)
  /\ UNCHANGED <<memberRows, joins, memberCrossed, demoted, memberRequests>>

\* The membership is created or revived with the role of the invitation as it was read,
\* and the session goes to the organisation in statements of its own.
Accept(r) ==
  /\ MemberDoing(r, "accept")
  /\ LET q == memberRequest[r]
     IN IF Free(q.row, "ACCEPTED")
          THEN /\ role' = [role EXCEPT ![q.by] = q.role]
               /\ left' = left \ {q.by}
               /\ invites' = [invites EXCEPT ![q.row].status = "ACCEPTED"]
               /\ joins' = [joins EXCEPT ![q.row] = @ + 1]
               /\ demoted' = (demoted \/ q.by \in Owners)
               /\ memberRequest' = [memberRequest EXCEPT ![r] = Plain("joined", q.by)]
          ELSE MemberAnswer(r) /\ UNCHANGED <<role, left, invites, joins, demoted>>
  /\ UNCHANGED <<pinned, memberCrossed, memberRequests>>

Joined(r) ==
  /\ MemberDoing(r, "joined")
  /\ IF Member(memberRequest[r].by)
       THEN memberRequest' = [memberRequest EXCEPT ![r].op = "switch"]
       ELSE MemberAnswer(r)
  /\ UNCHANGED <<memberRows, invites, joins, memberCrossed, demoted, memberRequests>>

\* switch-organization, and the first request of a session without an organisation, that
\* goes to the user's default one.
Pin(r) ==
  /\ MemberDoing(r, "switch") \/ MemberDoing(r, "enter")
  /\ pinned' = pinned \cup {memberRequest[r].by}
  /\ MemberAnswer(r)
  /\ UNCHANGED <<role, left, invites, joins, memberCrossed, demoted, memberRequests>>

AccountNext ==
  \/ Lapse
  \/ \E r \in MemberHandlers :
       \/ MemberFind(r) \/ LeaveOrg(r) \/ Transfer(r) \/ ChangeRole(r) \/ Invite(r) \/ Resend(r)
       \/ Revoke(r) \/ Expire(r) \/ Accept(r) \/ Joined(r) \/ Pin(r)

AccountSpec == AccountInit /\ [][AccountNext]_accountVars

-----------------------------------------------------------------------------
\* "An organisation without an owner is unadministrable" (identity.service.ts:148): no
\* sequence of requests leaves it without one, unless an owner accepts an invitation as
\* something less or transfers the ownership to himself, or two requests about the
\* members overlapped.
OwnerRemains == Owners # {} \/ demoted \/ "members" \in memberCrossed

\* An invitation lets somebody in once, and not after it was revoked, unless two requests
\* about it overlapped (identity.service.ts:265).
InvitationUsedOnce ==
  \A i \in DOMAIN invites :
    \/ joins[i] <= 1 /\ (invites[i].status = "REVOKED" => joins[i] = 0)
    \/ "invitation" \in memberCrossed

\* "Any session pinned to this org is unpinned, so the next request re-defaults"
\* (identity.service.ts:171): no session stays in an organisation its user has left, unless
\* it went there while he was leaving.
PinnedIsMember == \A u \in pinned : Member(u) \/ "session" \in memberCrossed

\* All three: an owner remains, an invitation is used once, a session is where its user is
\* a member.
MembersSound == OwnerRemains /\ InvitationUsedOnce /\ PinnedIsMember
=============================================================================
