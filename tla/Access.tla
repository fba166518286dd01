-------------------------------- MODULE Access ---------------------------------
(***************************************************************************)
(* apps/accounts, apps/tenants and apps/roles: how people get into an      *)
(* organization.  Who signs up gets an organization of their own; others   *)
(* are invited, and accepting an invitation makes the membership, the      *)
(* profile (by a signal), the mark on the invitation and the role one      *)
(* after the other.  Nobody ever leaves: no view deletes a membership.     *)
(***************************************************************************)
EXTENDS Naturals, FiniteSets

CONSTANTS
    Workers,     \* the server processes
    Users,       \* the people, each with one address
    MaxTenants,  \* bound: the organizations that are followed, in the order of their slugs
    Roles,       \* the roles, the same in each organization
    MaxAborts    \* bound: how many requests may end half-way

VARIABLES
    account,     \* table CustomUser
    owner,       \* table Tenant: the owner of each, "none" for no row
    member,      \* table TenantMembership
    profile,     \* table UserProfile
    invitation,  \* table UserInvitation, unique for an address and an organization
    holds,       \* table TenantUserRole
    req,         \* what each worker holds of the request it serves
    aborts       \* how many requests have ended half-way

tables == <<account, owner, member, profile, invitation, holds>>
vars == <<tables, req, aborts>>

None == "none"
Tenants == 1..MaxTenants

Invitation == [status : {None, "pending", "expired", "accepted"}, role : Roles \cup {None}]
NoInvitation == [status |-> None, role |-> None]

Request == [op : {None, "sign_up", "create", "invite", "accept", "assign"},
            pc : {"idle", "user", "slug", "tenant", "membership", "profile", "pending",
                  "insert", "accepted", "role"},
            u : Users \cup {None}, t : {0} \cup Tenants, role : Roles \cup {None}]
Idle == [op |-> None, pc |-> "idle", u |-> None, t |-> 0, role |-> None]

TypeOK ==
    /\ account \subseteq Users
    /\ owner \in [Tenants -> Users \cup {None}]
    /\ member \subseteq Users \X Tenants /\ profile \subseteq Users \X Tenants
    /\ invitation \in [Users \X Tenants -> Invitation]
    /\ holds \subseteq Users \X Tenants \X Roles
    /\ req \in [Workers -> Request]
    /\ aborts \in Nat

Init ==
    /\ account = {}
    /\ owner = [t \in Tenants |-> None]
    /\ member = {} /\ profile = {} /\ holds = {}
    /\ invitation = [x \in Users \X Tenants |-> NoInvitation]
    /\ req = [w \in Workers |-> Idle]
    /\ aborts = 0

-----------------------------------------------------------------------------
At(w, label) == req[w].pc = label
Busy(w) == ~At(w, "idle")
Goto(w, label) == req' = [req EXCEPT ![w].pc = label]
Finish(w) == req' = [req EXCEPT ![w] = Idle]
Key(w) == <<req[w].u, req[w].t>>

\* Nothing is kept apart: the same link may be followed twice at once.
Begin(w, op, label, u, t, role) ==
    /\ ~Busy(w)
    /\ req' = [req EXCEPT ![w] = [op |-> op, pc |-> label, u |-> u, t |-> t, role |-> role]]
    /\ UNCHANGED <<tables, aborts>>

\* A unique constraint turns the statement down and the request ends; or the worker dies.
Abort(w) == aborts' = aborts + 1 /\ Finish(w)

-----------------------------------------------------------------------------
(* Signing up, and creating an organization. *)

\* The form has checked that the address is free.
SignUp(w, u) == u \notin account /\ Begin(w, "sign_up", "user", u, 0, None)

InsertUser(w) ==
    /\ At(w, "user")
    /\ IF req[w].u \in account
       THEN Finish(w) /\ UNCHANGED account
       ELSE account' = account \cup {req[w].u} /\ Goto(w, "slug")
    /\ UNCHANGED <<owner, member, profile, invitation, holds, aborts>>

\* tenant_create: the form checks the slug that was entered.
CreateTenant(w, u) == u \in account /\ Begin(w, "create", "slug", u, 0, None)

\* The first slug that is free; everybody is taken to want the same.  An organization beyond
\* the bound is founded without being followed: it shares nothing with the others.
FindSlug(w) ==
    /\ At(w, "slug")
    /\ \/ \E t \in Tenants :
             /\ owner[t] = None /\ \A s \in Tenants : owner[s] = None => t <= s
             /\ req' = [req EXCEPT ![w].pc = "tenant", ![w].t = t]
       \/ (\A t \in Tenants : owner[t] # None) /\ Finish(w)
    /\ UNCHANGED <<tables, aborts>>

\* Who has an account by then and no organization is sent to tenant_create.
InsertTenant(w) ==
    /\ At(w, "tenant")
    /\ IF owner[req[w].t] = None
       THEN /\ owner' = [owner EXCEPT ![req[w].t] = req[w].u]
            /\ Goto(w, "membership")
            /\ UNCHANGED aborts
       ELSE Abort(w) /\ UNCHANGED owner
    /\ UNCHANGED <<account, member, profile, invitation, holds>>

-----------------------------------------------------------------------------
(* Memberships, of whoever owns the organization or accepts the invitation. *)

AfterMembership(w) == IF req[w].op = "accept" THEN Goto(w, "accepted") ELSE Finish(w)

\* get_or_create finds the membership or makes it, also when another request was quicker.
InsertMembership(w) ==
    /\ At(w, "membership")
    /\ member' = member \cup {Key(w)}
    /\ IF Key(w) \in member THEN AfterMembership(w) ELSE Goto(w, "profile")
    /\ UNCHANGED <<account, owner, profile, invitation, holds, aborts>>

\* The signal of a membership that was created.
CreateProfile(w) ==
    /\ At(w, "profile")
    /\ profile' = profile \cup {Key(w)}
    /\ AfterMembership(w)
    /\ UNCHANGED <<account, owner, member, invitation, holds, aborts>>

-----------------------------------------------------------------------------
(* Invitations. *)

\* user_invite, by a member of the organization; members are not invited.
Invite(w, u, t, role) ==
    /\ \E v \in account : <<v, t>> \in member
    /\ <<u, t>> \notin member
    /\ Begin(w, "invite", "pending", u, t, role)

CheckPending(w) ==
    /\ At(w, "pending")
    /\ IF invitation[Key(w)].status \in {"pending", "expired"} THEN Finish(w)
       ELSE Goto(w, "insert")
    /\ UNCHANGED <<tables, aborts>>

\* The row may have been inserted meanwhile; nothing is lost then.
InsertInvitation(w) ==
    /\ At(w, "insert")
    /\ invitation' = IF invitation[Key(w)].status = None
                     THEN [invitation EXCEPT ![Key(w)] =
                              [status |-> "pending", role |-> req[w].role]]
                     ELSE invitation
    /\ Finish(w)
    /\ UNCHANGED <<account, owner, member, profile, holds, aborts>>

\* Seven days pass.  An invitation that expired is neither accepted nor replaced.
Expire(u, t) ==
    /\ invitation[<<u, t>>].status = "pending"
    /\ invitation' = [invitation EXCEPT ![<<u, t>>].status = "expired"]
    /\ UNCHANGED <<account, owner, member, profile, holds, req, aborts>>

\* accept_invitation; who has no account is sent to the registration.
Accept(w, u, t) ==
    /\ u \in account /\ invitation[<<u, t>>].status = "pending"
    /\ Begin(w, "accept", "membership", u, t, invitation[<<u, t>>].role)

\* Mutant: the request ends when the invitation is saved.
SaveAcceptedOnly(w) ==
    /\ At(w, "accepted")
    /\ invitation' = [invitation EXCEPT ![Key(w)].status = "accepted"]
    /\ Finish(w)
    /\ UNCHANGED <<account, owner, member, profile, holds, aborts>>

SaveAccepted(w) ==
    /\ At(w, "accepted")
    /\ invitation' = [invitation EXCEPT ![Key(w)].status = "accepted"]
    /\ IF req[w].role = None THEN Finish(w) ELSE Goto(w, "role")
    /\ UNCHANGED <<account, owner, member, profile, holds, aborts>>

-----------------------------------------------------------------------------
(* Roles. *)

\* role_assign: the page offers the members.
AssignRole(w, u, t, role) ==
    /\ <<u, t>> \in member
    /\ Begin(w, "assign", "role", u, t, role)

GrantRole(w) ==
    /\ At(w, "role")
    /\ holds' = holds \cup {<<req[w].u, req[w].t, req[w].role>>}
    /\ Finish(w)
    /\ UNCHANGED <<account, owner, member, profile, invitation, aborts>>

-----------------------------------------------------------------------------
Crash(w) ==
    /\ Busy(w) /\ aborts < MaxAborts
    /\ Abort(w)
    /\ UNCHANGED tables

Continue(w) ==
    \/ InsertUser(w) \/ FindSlug(w) \/ InsertTenant(w)
    \/ InsertMembership(w) \/ CreateProfile(w)
    \/ CheckPending(w) \/ InsertInvitation(w) \/ SaveAccepted(w) \/ GrantRole(w)

Next ==
    \/ \E u \in Users, t \in Tenants : Expire(u, t)
    \/ \E w \in Workers :
          \/ \E u \in Users :
                \/ SignUp(w, u) \/ CreateTenant(w, u)
                \/ \E t \in Tenants :
                      \/ Accept(w, u, t)
                      \/ \E role \in Roles \cup {None} : Invite(w, u, t, role)
                      \/ \E role \in Roles : AssignRole(w, u, t, role)
          \/ Continue(w) \/ Crash(w)

Spec == Init /\ [][Next]_vars

-----------------------------------------------------------------------------
(* Properties. *)

\* The requests that are working for u in t.
For(u, t) == {w \in Workers : req[w].u = u /\ req[w].t = t}

\* Members are the owner and those who were invited.
MembersWereInvited ==
    \A x \in member : owner[x[2]] = x[1] \/ invitation[x].status # None

\* An invitation that was used up has made its membership, whatever happened since; unless
\* a request ended half-way, it has also given its role, and members have their profiles
\* and owners are members.
InvitationsAreKept ==
    \A u \in Users, t \in Tenants :
        LET row == invitation[<<u, t>>] IN
        /\ row.status = "accepted" => <<u, t>> \in member
        /\ aborts = 0 /\ For(u, t) = {} =>
              /\ row.status = "accepted" /\ row.role # None => <<u, t, row.role>> \in holds
              /\ <<u, t>> \in member => <<u, t>> \in profile
              /\ owner[t] = u => <<u, t>> \in member

\* Nobody becomes a member uninvited, and who accepts an invitation gets what it says,
\* however often and by how many requests at once it is accepted.
AccessIsComplete == MembersWereInvited /\ InvitationsAreKept
=============================================================================
