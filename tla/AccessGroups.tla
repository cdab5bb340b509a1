---------------------------- MODULE AccessGroups ----------------------------
(***************************************************************************)
(* Who belongs to which group and may administer: accounts, memberships,   *)
(* the Member Pool, the Owner, tenants with their groups, and start-up.    *)
(*                                                                         *)
(* An administrator's request reads the rows it needs and decides what to  *)
(* write (Begin), and commits that later (Commit): READ COMMITTED, no row  *)
(* is locked, so another request may commit in between.  Start-up runs     *)
(* before requests are served, one committed step after the other.         *)
(*                                                                         *)
(* A tenant's subgroup is named by its tenant: they are 1:1.               *)
(***************************************************************************)
EXTENDS FiniteSets

CONSTANTS
    People,        \* usernames
    Tenants,
    CustomGroups,
    NoName,        \* BOOTSTRAP_ADMIN_USERNAME left blank
    BootNames,     \* its values at the starts of the process
    Requests,      \* bound: the requests in flight at a time
    Asks           \* bound: the payloads that arrive

SystemGroups == {"MEMBER_POOL", "RELEASE_MANAGERS", "MANAGEMENT", "AI_USERS"}
Groups == SystemGroups \cup Tenants \cup CustomGroups
Roles == {"ADMIN", "TENANT_USER"}
TenantStates == {"NONE", "ON", "OFF"}

Ops == {"add", "remove", "promote", "demote", "activate", "deactivate",
        "createGroup", "deleteGroup", "listGroups",
        "createTenant", "editTenant", "enableTenant", "disableTenant"}

\* The call, the account and the group or tenant it names.
Ask == [op: Ops, user: People, group: Groups]

ASSUME NamesAssumption ==
    /\ People # {}
    /\ Tenants \cap CustomGroups = {}
    /\ (Tenants \cup CustomGroups) \cap SystemGroups = {}
    /\ NoName \notin People
    /\ BootNames \subseteq People \cup {NoName}
ASSUME AsksAssumption == Asks \subseteq Ask /\ Asks # {}

VARIABLES
    phase,         \* DOWN, then start-up's commits SEEDED and OWNED, then UP
    bootName,      \* settings.bootstrap_admin_username of this process
    users, role, active, owners,
    member,        \* group_memberships: the groups of each person
    custom,        \* the custom groups there are
    tenant,        \* tenants.is_active
    tenantGroup,   \* access_groups.is_active of the tenant's subgroup
    request,
    raced          \* history: whom or what two requests in flight both touched

tables == <<users, role, active, owners, member, custom, tenant, tenantGroup>>
vars == <<phase, bootName, tables, request, raced>>

-----------------------------------------------------------------------------
(* Reading the tables *)

\* AI Users is a capability, not a working assignment.
Operational(groups) == groups \ {"MEMBER_POOL", "AI_USERS"}

GroupExists(g) ==
    \/ g \in SystemGroups
    \/ g \in custom
    \/ g \in Tenants /\ tenantGroup[g] # "NONE"

IsManagement(u) == "MANAGEMENT" \in member[u]

\* require_admin, of an account whose session is good.
MayAdminister(u) == u \in users /\ active[u] /\ role[u] = "ADMIN" /\ ~IsManagement(u)

MayManage(a, u) ==
    /\ u \notin owners
    /\ u # a
    /\ role[u] = "ADMIN" => a \in owners

NotLastActiveAdmin(u) ==
    role[u] = "ADMIN" /\ active[u] =>
        \E o \in users \ {u} : role[o] = "ADMIN" /\ active[o]

-----------------------------------------------------------------------------
(* What a request is going to write, from the rows it reads *)

Nothing == [x \in {} |-> x]
Column(x, value) == [y \in {x} |-> value]
Overwritten(column, with) ==
    [x \in DOMAIN column |-> IF x \in DOMAIN with THEN with[x] ELSE column[x]]

NoChange ==
    [joins |-> [u \in People |-> {}], leaves |-> [u \in People |-> {}],
     role |-> Nothing, active |-> Nothing, tenant |-> Nothing,
     tenantGroup |-> Nothing, adds |-> {}, drops |-> {}]

\* reconcile_member_pool of a user who belongs to these groups.
PoolJoins(groups) ==
    IF Operational(groups) = {} THEN {"MEMBER_POOL"} \ groups ELSE {}
PoolLeaves(groups) ==
    IF Operational(groups) = {} THEN {} ELSE {"MEMBER_POOL"} \cap groups

Membership(u, joins, leaves, newRole) ==
    LET groups == (member[u] \cup joins) \ leaves IN
    [NoChange EXCEPT
        !.joins[u] = (joins \ member[u]) \cup PoolJoins(groups),
        !.leaves[u] = leaves \cup PoolLeaves(groups),
        !.role = IF u \in owners \/ newRole = role[u] THEN Nothing ELSE Column(u, newRole)]

AddMembership(g, u) ==
    Membership(u, {g}, {}, IF g = "RELEASE_MANAGERS" THEN "ADMIN" ELSE role[u])

\* Mutant of RemoveMembership: the legacy role is left as it is.
RemoveMembershipOnly(g, u) == Membership(u, {}, {g}, role[u])

RemoveMembership(g, u) ==
    Membership(u, {}, {g}, IF g = "RELEASE_MANAGERS" THEN "TENANT_USER" ELSE role[u])

SetActive(u, value) ==
    [NoChange EXCEPT !.active = IF active[u] = value THEN Nothing ELSE Column(u, value)]

\* ensure_tenant_group over tenants that have a row.
Synced(ts, state) ==
    [t \in {x \in ts : state[x] # "NONE" /\ tenantGroup[x] # state[x]} |-> state[t]]

\* Mutant of SetTenant: the subgroup is not written.
SetTenantOnly(t, state) ==
    [NoChange EXCEPT !.tenant = IF tenant[t] = state THEN Nothing ELSE Column(t, state)]

SetTenant(t, state) ==
    [NoChange EXCEPT !.tenant = IF tenant[t] = state THEN Nothing ELSE Column(t, state),
                     !.tenantGroup = Synced({t}, [tenant EXCEPT ![t] = state])]

\* Mutant of DeleteGroup: nobody is reconciled.
DeleteGroupOnly(g) ==
    [NoChange EXCEPT !.leaves = [u \in People |-> {g}], !.drops = {g}]

\* Its memberships go with the group; each of its members is reconciled.
DeleteGroup(g) ==
    LET affected == {u \in People : g \in member[u]}
        Rest(u) == member[u] \ {g}
    IN  [NoChange EXCEPT
            !.joins = [u \in People |-> IF u \in affected THEN PoolJoins(Rest(u)) ELSE {}],
            !.leaves = [u \in People |-> {g} \cup (IF u \in affected THEN PoolLeaves(Rest(u)) ELSE {})],
            !.drops = {g}]

-----------------------------------------------------------------------------
(* A request's life *)

Idle == [busy |-> FALSE, by |-> CHOOSE u \in People : TRUE,
         targets |-> {}, change |-> NoChange]

InFlight == {r \in Requests : request[r].busy}

\* An administrator's request has read the rows of its targets and decided what to
\* write.  A request that finds nothing to write is no step.
Begin(r, a, targets, c) ==
    /\ c # NoChange
    /\ request' = [request EXCEPT ![r] =
                      [busy |-> TRUE, by |-> a, targets |-> targets, change |-> c]]
    /\ raced' = raced \cup (targets \cap UNION {request[o].targets : o \in InFlight})
    /\ UNCHANGED <<phase, bootName, tables>>

AddGroupMember(r, a, u, g) ==
    /\ u \in users /\ GroupExists(g)
    /\ g # "MEMBER_POOL"
    /\ g = "RELEASE_MANAGERS" => a \in owners
    /\ Begin(r, a, {u}, AddMembership(g, u))

\* Mutant of RemoveAllowed: any administrator takes Release Manager access away.
RemoveAllowedToAny(a, u, g) ==
    g # "MEMBER_POOL" /\ (g = "RELEASE_MANAGERS" => NotLastActiveAdmin(u))

RemoveAllowed(a, u, g) ==
    /\ g # "MEMBER_POOL"
    /\ g = "RELEASE_MANAGERS" => a \in owners /\ NotLastActiveAdmin(u)

RemoveGroupMember(r, a, u, g) ==
    /\ u \in users /\ GroupExists(g)
    /\ RemoveAllowed(a, u, g)
    /\ Begin(r, a, {u}, RemoveMembership(g, u))

\* set_role(ADMIN) and set_role(TENANT_USER)
Promote(r, a, u) ==
    /\ u \in users /\ MayManage(a, u) /\ a \in owners
    /\ Begin(r, a, {u}, AddMembership("RELEASE_MANAGERS", u))

Demote(r, a, u) ==
    /\ u \in users /\ MayManage(a, u) /\ NotLastActiveAdmin(u)
    /\ Begin(r, a, {u}, RemoveMembership("RELEASE_MANAGERS", u))

Activate(r, a, u) ==
    u \in users /\ MayManage(a, u) /\ Begin(r, a, {u}, SetActive(u, TRUE))

Deactivate(r, a, u) ==
    /\ u \in users /\ MayManage(a, u) /\ NotLastActiveAdmin(u)
    /\ Begin(r, a, {u}, SetActive(u, FALSE))

CreateCustomGroup(r, a, g) ==
    g \in CustomGroups \ custom /\ Begin(r, a, {}, [NoChange EXCEPT !.adds = {g}])

\* It reads the memberships of everybody.
DeleteCustomGroup(r, a, g) ==
    g \in custom /\ Begin(r, a, People, DeleteGroup(g))

CreateTenant(r, a, t) ==
    /\ t \in Tenants /\ tenant[t] = "NONE"
    /\ Begin(r, a, {t}, [SetTenant(t, "ON") EXCEPT !.adds = {t}])

EditTenant(r, a, t) ==
    /\ t \in Tenants /\ tenant[t] # "NONE"
    /\ Begin(r, a, {t}, SetTenant(t, tenant[t]))

SetTenantStatus(r, a, t, state) ==
    /\ t \in Tenants /\ tenant[t] # "NONE"
    /\ Begin(r, a, {t}, SetTenant(t, state))

\* Opening the Groups page synchronizes the tenants' subgroups.
ListGroups(r, a) ==
    Begin(r, a, Tenants, [NoChange EXCEPT !.tenantGroup = Synced(Tenants, tenant)])

\* uq_group_membership, the foreign key to the group, and the ids of new rows.
Conflicts(c) ==
    \/ \E u \in People : c.joins[u] \cap member[u] # {}
    \/ \E u \in People : \E g \in c.joins[u] : ~GroupExists(g)
    \/ c.adds \cap custom # {}
    \/ \E t \in c.adds \cap Tenants : tenant[t] # "NONE"

Commit(r) ==
    LET c == request[r].change IN
    /\ request[r].busy
    /\ ~Conflicts(c)
    /\ member' = [u \in People |-> (member[u] \cup c.joins[u]) \ c.leaves[u]]
    /\ role' = Overwritten(role, c.role)
    /\ active' = Overwritten(active, c.active)
    /\ custom' = (custom \cup (c.adds \cap CustomGroups)) \ c.drops
    /\ tenant' = Overwritten(tenant, c.tenant)
    /\ tenantGroup' = Overwritten(tenantGroup, c.tenantGroup)
    /\ request' = [request EXCEPT ![r] = Idle]
    /\ UNCHANGED <<phase, bootName, users, owners, raced>>

\* Refused by a constraint, or broken off: the transaction rolls back.
Fail(r) ==
    /\ request[r].busy
    /\ request' = [request EXCEPT ![r] = Idle]
    /\ UNCHANGED <<phase, bootName, tables, raced>>

\* Self-service sign-up: one transaction on rows nobody else knows of.
Register(u) ==
    /\ phase = "UP"
    /\ u \notin users
    /\ users' = users \cup {u}
    /\ role' = [role EXCEPT ![u] = "TENANT_USER"]
    /\ active' = [active EXCEPT ![u] = TRUE]
    /\ member' = [member EXCEPT ![u] = {"MEMBER_POOL"}]
    /\ UNCHANGED <<phase, bootName, owners, custom, tenant, tenantGroup, request, raced>>

-----------------------------------------------------------------------------
(* Start-up: initialise(), which a crash may cut short *)

EnsureBootstrapAdmin(n) ==
    /\ phase = "DOWN" /\ phase' = "SEEDED"
    /\ bootName' = n
    /\ IF n = NoName \/ n \in users
       THEN UNCHANGED <<users, role, active, owners>>
       ELSE /\ users' = users \cup {n}
            /\ role' = [role EXCEPT ![n] = "ADMIN"]
            /\ active' = [active EXCEPT ![n] = TRUE]
            /\ owners' = owners \cup {n}
    /\ UNCHANGED <<member, custom, tenant, tenantGroup, request, raced>>

Administrators == {u \in users : role[u] = "ADMIN"}

\* Mutant of OwnerCandidates: only the bootstrap administrator is adopted.
BootstrapCandidate == owners \cup (Administrators \cap {bootName})

\* Whom ensure_single_owner makes, or keeps, the usable Owner.
OwnerCandidates ==
    IF owners # {} THEN owners
    ELSE IF bootName \in Administrators THEN {bootName}
    ELSE Administrators

EnsureSingleOwner ==
    /\ phase = "SEEDED" /\ phase' = "OWNED"
    /\ \/ /\ OwnerCandidates = {}
          /\ UNCHANGED <<role, active, owners>>
       \/ \E o \in OwnerCandidates :
             /\ owners' = owners \cup {o}
             /\ role' = [role EXCEPT ![o] = "ADMIN"]
             /\ active' = [active EXCEPT ![o] = TRUE]
    /\ UNCHANGED <<bootName, users, member, custom, tenant, tenantGroup, request, raced>>

\* Mutant of Home: who has a group is left alone.
HomeOfNewcomers(u) ==
    IF member[u] # {} THEN member[u]
    ELSE IF role[u] = "ADMIN" THEN {"RELEASE_MANAGERS"} ELSE {"MEMBER_POOL"}

\* Where start-up puts a user: migrated, kept, or into the Member Pool.
Home(u) ==
    IF member[u] = {} /\ role[u] = "ADMIN" THEN {"RELEASE_MANAGERS"}
    ELSE (member[u] \cup PoolJoins(member[u])) \ PoolLeaves(member[u])

EnsureGroupModel ==
    /\ phase = "OWNED" /\ phase' = "UP"
    /\ tenantGroup' = Overwritten(tenantGroup, Synced(Tenants, tenant))
    /\ member' = [u \in People |-> IF u \in users \ owners THEN Home(u) ELSE member[u]]
    /\ UNCHANGED <<bootName, users, role, active, owners, custom, tenant, request, raced>>

Crash ==
    /\ phase # "DOWN" /\ phase' = "DOWN"
    /\ request' = [r \in Requests |-> Idle]
    /\ UNCHANGED <<bootName, tables, raced>>

-----------------------------------------------------------------------------
(* An empty database, or one from before groups and the Owner *)

Init ==
    /\ phase = "DOWN" /\ bootName = NoName
    /\ users \in SUBSET People
    /\ role \in [People -> Roles]
    /\ active \in [People -> BOOLEAN]
    /\ \A u \in People \ users : role[u] = "TENANT_USER" /\ active[u]
    /\ owners = {}
    /\ member = [u \in People |-> {}]
    /\ custom = {}
    /\ tenant \in [Tenants -> TenantStates]
    /\ tenantGroup = [t \in Tenants |-> "NONE"]
    /\ request = [r \in Requests |-> Idle]
    /\ raced = {}

\* require_admin comes before every handler.
Handle(r, a, k) ==
    /\ phase = "UP" /\ ~request[r].busy /\ MayAdminister(a)
    /\ \/ k.op = "add" /\ AddGroupMember(r, a, k.user, k.group)
       \/ k.op = "remove" /\ RemoveGroupMember(r, a, k.user, k.group)
       \/ k.op = "promote" /\ Promote(r, a, k.user)
       \/ k.op = "demote" /\ Demote(r, a, k.user)
       \/ k.op = "activate" /\ Activate(r, a, k.user)
       \/ k.op = "deactivate" /\ Deactivate(r, a, k.user)
       \/ k.op = "createGroup" /\ CreateCustomGroup(r, a, k.group)
       \/ k.op = "deleteGroup" /\ DeleteCustomGroup(r, a, k.group)
       \/ k.op = "createTenant" /\ CreateTenant(r, a, k.group)
       \/ k.op = "editTenant" /\ EditTenant(r, a, k.group)
       \/ k.op = "enableTenant" /\ SetTenantStatus(r, a, k.group, "ON")
       \/ k.op = "disableTenant" /\ SetTenantStatus(r, a, k.group, "OFF")
       \/ k.op = "listGroups" /\ ListGroups(r, a)

Next ==
    \/ \E n \in BootNames : EnsureBootstrapAdmin(n)
    \/ EnsureSingleOwner
    \/ EnsureGroupModel
    \/ Crash
    \/ \E u \in People : Register(u)
    \/ \E r \in Requests :
          \/ \E a \in users, k \in Asks : Handle(r, a, k)
          \/ Commit(r)
          \/ Fail(r)

Spec == Init /\ [][Next]_vars

-----------------------------------------------------------------------------
(* Properties *)

Columns(S, T) == UNION {[D -> T] : D \in SUBSET S}

Change ==
    [joins: [People -> SUBSET Groups], leaves: [People -> SUBSET Groups],
     role: Columns(People, Roles), active: Columns(People, BOOLEAN),
     tenant: Columns(Tenants, TenantStates), tenantGroup: Columns(Tenants, TenantStates),
     adds: SUBSET (CustomGroups \cup Tenants), drops: SUBSET CustomGroups]

\* The tables, the requests and the history keep their types.
TypeOK ==
    /\ phase \in {"DOWN", "SEEDED", "OWNED", "UP"}
    /\ bootName \in People \cup {NoName}
    /\ users \subseteq People /\ owners \subseteq users
    /\ role \in [People -> Roles] /\ active \in [People -> BOOLEAN]
    /\ member \in [People -> SUBSET Groups]
    /\ custom \subseteq CustomGroups
    /\ tenant \in [Tenants -> TenantStates]
    /\ tenantGroup \in [Tenants -> TenantStates]
    /\ request \in [Requests -> [busy: BOOLEAN, by: People, targets: SUBSET (People \cup Tenants),
                               change: Change]]
    /\ raced \subseteq People \cup Tenants

Served == phase = "UP"

\* "A recovery account always exists": while requests are served, every Owner is
\* an active administrator, and there is one as soon as anybody is an
\* administrator, whatever requests and restarts came before.
OwnerStaysUsable ==
    Served =>
        /\ \A u \in owners : role[u] = "ADMIN" /\ active[u]
        /\ Administrators # {} => owners # {}

InPoolIffUnassigned(u) ==
    "MEMBER_POOL" \in member[u] <=> Operational(member[u]) = {}

\* A user is in the Member Pool exactly while nothing else holds them, unless two
\* requests changed the user's groups at the same time.
PoolIffUnassigned ==
    Served => \A u \in users \ (owners \cup raced) : InPoolIffUnassigned(u)

\* The legacy role says what the Release Managers group says.
RoleFollowsGroup ==
    Served => \A u \in users \ (owners \cup raced) :
                  role[u] = "ADMIN" <=> "RELEASE_MANAGERS" \in member[u]

\* A tenant's subgroup grants its scope exactly while the tenant is active.
TenantGroupMirrorsTenant ==
    Served => \A t \in Tenants \ raced : tenantGroup[t] = tenant[t]

\* Start-up mends what overlapping requests left behind: afterwards the pool and
\* the tenants' subgroups are right for everybody.
StartUpRepairs ==
    [][phase = "OWNED" /\ phase' = "UP" =>
          /\ \A u \in users' \ owners' : InPoolIffUnassigned(u)'
          /\ tenantGroup' = tenant']_vars

ActiveAdmin(u) == u \in users /\ role[u] = "ADMIN" /\ active[u]

\* Only a request of an Owner makes an account an administrator or ends that, by
\* whichever of the endpoints, and nobody ends it for the Owner.
OnlyTheOwnerChangesAdmins ==
    [][\A u \in users \ raced :
          Served /\ (ActiveAdmin(u) # ActiveAdmin(u)') =>
              /\ u \notin owners
              /\ \E r \in Requests : request[r].busy /\ ~request'[r].busy
                                    /\ request[r].by \in owners]_vars

-----------------------------------------------------------------------------
(* A promise the code breaks *)

\* "The owner account is never a valid target, for anybody": no request takes an
\* Owner's right to administer away.
OwnerIsNeverATarget ==
    [][\A u \in owners : Served /\ phase' = "UP" /\ MayAdminister(u) => MayAdminister(u)']_vars
=============================================================================
