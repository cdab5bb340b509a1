------------------------ MODULE AccessGroups_proofs ------------------------
(***************************************************************************)
(* Proofs about AccessGroups: types, the usable Owner, the Member Pool,    *)
(* the legacy role and the tenants' subgroups, for any number of people,   *)
(* groups and requests in flight.                                          *)
(*                                                                         *)
(* The inductive invariant says of every request in flight what its commit *)
(* would leave behind.  It holds where no other request works on the same  *)
(* person or tenant, which is what raced records.                          *)
(***************************************************************************)
EXTENDS AccessGroups, TLAPS

-----------------------------------------------------------------------------
(* Columns: partial functions from names to new values *)

\* The members of Columns are the functions on a part of S with values in T.
LEMMA ColumnsMembers ==
    ASSUME NEW S, NEW T, NEW f
    PROVE  f \in Columns(S, T) <=> \E D \in SUBSET S : f \in [D -> T]
  BY DEF Columns

\* Where such a column is defined, and its values.
LEMMA ColumnsParts ==
    ASSUME NEW S, NEW T, NEW f \in Columns(S, T)
    PROVE  DOMAIN f \subseteq S /\ \A x \in DOMAIN f : f[x] \in T
  BY ColumnsMembers

\* A column that names nobody.
LEMMA NothingIsColumn ==
    ASSUME NEW S, NEW T
    PROVE  Nothing \in Columns(S, T) /\ DOMAIN Nothing = {}
  <1>1. Nothing \in [{} -> T]
    BY DEF Nothing
  <1>2. {} \in SUBSET S
    OBVIOUS
  <1> QED
    BY <1>1, <1>2, ColumnsMembers DEF Nothing

\* A column that names one.
LEMMA ColumnIsColumn ==
    ASSUME NEW S, NEW T, NEW x \in S, NEW v \in T
    PROVE  /\ Column(x, v) \in Columns(S, T)
           /\ DOMAIN Column(x, v) = {x}
           /\ Column(x, v)[x] = v
  <1>1. Column(x, v) \in [{x} -> T]
    BY DEF Column
  <1> QED
    BY <1>1, ColumnsMembers DEF Column

\* Overwriting a column with another keeps its type and its other values.
LEMMA OverwrittenColumn ==
    ASSUME NEW S, NEW T, NEW column \in [S -> T], NEW with \in Columns(S, T)
    PROVE  /\ Overwritten(column, with) \in [S -> T]
           /\ \A x \in S : Overwritten(column, with)[x]
                 = IF x \in DOMAIN with THEN with[x] ELSE column[x]
  <1>1. DOMAIN column = S
    OBVIOUS
  <1>2. \A x \in DOMAIN with : with[x] \in T
    BY ColumnsParts
  <1> QED
    BY <1>1, <1>2 DEF Overwritten

-----------------------------------------------------------------------------
(* The changes a handler can ask for *)

\* The parts a change consists of.
LEMMA ChangeParts ==
    ASSUME NEW c \in Change
    PROVE  /\ c.joins \in [People -> SUBSET Groups]
           /\ c.leaves \in [People -> SUBSET Groups]
           /\ c.role \in Columns(People, Roles)
           /\ c.active \in Columns(People, BOOLEAN)
           /\ c.tenant \in Columns(Tenants, TenantStates)
           /\ c.tenantGroup \in Columns(Tenants, TenantStates)
           /\ c.adds \subseteq CustomGroups \cup Tenants
           /\ c.drops \subseteq CustomGroups
  BY DEF Change

\* The change a request starts from writes nothing.
LEMMA NoChangeParts ==
    /\ NoChange \in Change
    /\ NoChange.joins = [u \in People |-> {}]
    /\ NoChange.leaves = [u \in People |-> {}]
    /\ NoChange.role = Nothing /\ NoChange.active = Nothing
    /\ NoChange.tenant = Nothing /\ NoChange.tenantGroup = Nothing
    /\ NoChange.adds = {} /\ NoChange.drops = {}
  <1>1. Nothing \in Columns(People, Roles) /\ Nothing \in Columns(People, BOOLEAN)
        /\ Nothing \in Columns(Tenants, TenantStates)
    BY NothingIsColumn
  <1> QED
    BY <1>1 DEF NoChange, Change

\* What the commit of c leaves, if nothing else commits before it.
NewGroups(c, u) == (member[u] \cup c.joins[u]) \ c.leaves[u]
NewRole(c, u) == IF u \in DOMAIN c.role THEN c.role[u] ELSE role[u]
NewTenant(c, t) == IF t \in DOMAIN c.tenant THEN c.tenant[t] ELSE tenant[t]
NewTenantGroup(c, t) ==
    IF t \in DOMAIN c.tenantGroup THEN c.tenantGroup[t] ELSE tenantGroup[t]

PoolRight(groups) == "MEMBER_POOL" \in groups <=> Operational(groups) = {}
RoleRight(groups, r) == r = "ADMIN" <=> "RELEASE_MANAGERS" \in groups

\* A change writes rows of its targets only, and an Owner's role and status never.
Local(c, targets) ==
    /\ \A u \in People \ targets : c.joins[u] = {} /\ c.leaves[u] = {}
    /\ DOMAIN c.role \subseteq (targets \cap users) \ owners
    /\ DOMAIN c.active \subseteq (targets \cap users) \ owners
    /\ DOMAIN c.tenant \subseteq targets
    /\ DOMAIN c.tenantGroup \subseteq targets

\* It gives no group to people without an account and no state to missing tenants.
Grounded(c) ==
    /\ \A u \in People \ users : c.joins[u] = {} /\ c.leaves[u] \subseteq CustomGroups
    /\ \A t \in DOMAIN c.tenant : c.tenant[t] # "NONE"
    /\ \A t \in DOMAIN c.tenantGroup : tenant[t] # "NONE" \/ t \in DOMAIN c.tenant

\* It leaves pool, role and subgroup right where they were right.
KeepsRight(c) ==
    /\ \A u \in users \ owners :
          /\ PoolRight(member[u]) => PoolRight(NewGroups(c, u))
          /\ RoleRight(member[u], role[u]) => RoleRight(NewGroups(c, u), NewRole(c, u))
    /\ \A t \in Tenants : tenantGroup[t] = tenant[t] => NewTenantGroup(c, t) = NewTenant(c, t)

Good(c, targets) == c \in Change /\ Local(c, targets) /\ Grounded(c) /\ KeepsRight(c)

NewcomersAreFree == \A u \in People \ users : member[u] = {}

\* Reconciling the pool makes it right, whatever it was.
LEMMA ReconciledIsRight ==
    ASSUME NEW before, NEW leaves, "MEMBER_POOL" \notin leaves, NEW after,
           after = (before \cup PoolJoins(before \ leaves))
                      \ (leaves \cup PoolLeaves(before \ leaves))
    PROVE  /\ PoolRight(after)
           /\ "RELEASE_MANAGERS" \in after <=>
                 "RELEASE_MANAGERS" \in before /\ "RELEASE_MANAGERS" \notin leaves
  <1> DEFINE groups == before \ leaves
  <1>1. CASE Operational(groups) = {}
    <2>1. after = groups \cup {"MEMBER_POOL"}
      BY <1>1 DEF PoolJoins, PoolLeaves
    <2> QED
      BY <1>1, <2>1 DEF PoolRight, Operational
  <1>2. CASE Operational(groups) # {}
    <2>1. after = groups \ {"MEMBER_POOL"}
      BY <1>2 DEF PoolJoins, PoolLeaves
    <2> QED
      BY <1>2, <2>1 DEF PoolRight, Operational
  <1> QED
    BY <1>1, <1>2

\* Giving and taking groups leaves pool and role of the user right.
LEMMA MembershipIsGood ==
    ASSUME TypeOK, NEW u \in users, NEW joins \in SUBSET Groups, NEW leaves \in SUBSET Groups,
           "MEMBER_POOL" \notin leaves, joins \cap leaves = {},
           NEW newRole,
           newRole = IF "RELEASE_MANAGERS" \in joins THEN "ADMIN"
                     ELSE IF "RELEASE_MANAGERS" \in leaves THEN "TENANT_USER" ELSE role[u]
    PROVE  Good(Membership(u, joins, leaves, newRole), {u})
  <1> DEFINE c == Membership(u, joins, leaves, newRole)
             before == member[u] \cup joins
             j == (joins \ member[u]) \cup PoolJoins(before \ leaves)
             l == leaves \cup PoolLeaves(before \ leaves)
             n == IF u \in owners \/ newRole = role[u] THEN Nothing ELSE Column(u, newRole)
  <1>1. u \in People /\ newRole \in Roles
    BY DEF TypeOK, Roles
  <1>2. j \in SUBSET Groups /\ l \in SUBSET Groups
    BY DEF PoolJoins, PoolLeaves, Groups, SystemGroups
  <1>3. /\ Nothing \in Columns(People, Roles) /\ DOMAIN Nothing = {}
        /\ Column(u, newRole) \in Columns(People, Roles)
        /\ DOMAIN Column(u, newRole) = {u} /\ Column(u, newRole)[u] = newRole
    BY <1>1, NothingIsColumn, ColumnIsColumn
  <1>4. /\ n \in Columns(People, Roles)
        /\ DOMAIN n \subseteq {u} \ owners
        /\ u \notin owners /\ newRole # role[u] => DOMAIN n = {u} /\ n[u] = newRole
        /\ newRole = role[u] => DOMAIN n = {}
    <2>1. CASE u \in owners \/ newRole = role[u]
      BY <1>3, <2>1
    <2>2. CASE ~(u \in owners \/ newRole = role[u])
      BY <1>3, <2>2
    <2> QED
      BY <2>1, <2>2
  <1> HIDE DEF j, l, n
  <1>5. c = [NoChange EXCEPT !.joins[u] = j, !.leaves[u] = l, !.role = n]
    BY DEF Membership, j, l, n
  <1> HIDE DEF c
  <1>6. c = [NoChange EXCEPT !.joins = [NoChange.joins EXCEPT ![u] = j],
                             !.leaves = [NoChange.leaves EXCEPT ![u] = l],
                             !.role = n]
    BY <1>5, NoChangeParts DEF Change
  <1>7. /\ c.joins = [v \in People |-> IF v = u THEN j ELSE {}]
        /\ c.leaves = [v \in People |-> IF v = u THEN l ELSE {}]
        /\ c.role = n
        /\ c.active = Nothing /\ c.tenant = Nothing /\ c.tenantGroup = Nothing
    BY <1>6, NoChangeParts DEF Change
  <1>8. c \in Change
    BY <1>2, <1>4, <1>6, NoChangeParts DEF Change
  <1>9. Local(c, {u}) /\ Grounded(c)
    BY <1>1, <1>3, <1>4, <1>7 DEF Local, Grounded
  <1>10. \A v \in People \ {u} : NewGroups(c, v) = member[v] /\ NewRole(c, v) = role[v]
    BY <1>4, <1>7 DEF NewGroups, NewRole
  <1>11. \A t \in Tenants : NewTenant(c, t) = tenant[t] /\ NewTenantGroup(c, t) = tenantGroup[t]
    BY <1>3, <1>7 DEF NewTenant, NewTenantGroup
  <1>12. NewGroups(c, u) = (before \cup PoolJoins(before \ leaves))
                              \ (leaves \cup PoolLeaves(before \ leaves))
    BY <1>1, <1>7 DEF NewGroups, j, l
  <1>13. /\ PoolRight(NewGroups(c, u))
         /\ "RELEASE_MANAGERS" \in NewGroups(c, u) <=>
               "RELEASE_MANAGERS" \in before /\ "RELEASE_MANAGERS" \notin leaves
    <2> HIDE DEF before
    <2> QED
      BY <1>12, ReconciledIsRight
  <1>14. u \notin owners => NewRole(c, u) = newRole
    BY <1>4, <1>7 DEF NewRole
  <1>15. u \notin owners /\ RoleRight(member[u], role[u])
            => RoleRight(NewGroups(c, u), NewRole(c, u))
    BY <1>13, <1>14 DEF RoleRight
  <1>16. KeepsRight(c)
    BY <1>10, <1>11, <1>13, <1>15 DEF KeepsRight, TypeOK
  <1> QED
    BY <1>8, <1>9, <1>16 DEF Good, c

\* (De)activating somebody who is not an Owner touches no group and no role.
LEMMA SetActiveIsGood ==
    ASSUME TypeOK, NEW u \in users \ owners, NEW value \in BOOLEAN
    PROVE  Good(SetActive(u, value), {u})
  <1> DEFINE n == IF active[u] = value THEN Nothing ELSE Column(u, value)
             c == SetActive(u, value)
  <1>1. u \in People
    BY DEF TypeOK
  <1>2. n \in Columns(People, BOOLEAN) /\ DOMAIN n \subseteq {u} /\ DOMAIN Nothing = {}
    BY <1>1, NothingIsColumn, ColumnIsColumn
  <1>3. c = [NoChange EXCEPT !.active = n]
    BY DEF SetActive
  <1> HIDE DEF c, n
  <1>4. /\ c \in Change
        /\ c.joins = [v \in People |-> {}] /\ c.leaves = [v \in People |-> {}]
        /\ c.role = Nothing /\ c.active = n /\ c.tenant = Nothing /\ c.tenantGroup = Nothing
    BY <1>2, <1>3, NoChangeParts DEF Change
  <1>5. Local(c, {u}) /\ Grounded(c)
    BY <1>2, <1>4 DEF Local, Grounded
  <1>6. \A v \in People : NewGroups(c, v) = member[v] /\ NewRole(c, v) = role[v]
    BY <1>2, <1>4 DEF NewGroups, NewRole
  <1>7. \A t \in Tenants : NewTenant(c, t) = tenant[t] /\ NewTenantGroup(c, t) = tenantGroup[t]
    BY <1>2, <1>4 DEF NewTenant, NewTenantGroup
  <1> QED
    BY <1>4, <1>5, <1>6, <1>7 DEF Good, KeepsRight, TypeOK, c

\* A new group has no members.
LEMMA CreateGroupIsGood ==
    ASSUME TypeOK, NEW g \in CustomGroups, NEW targets
    PROVE  Good([NoChange EXCEPT !.adds = {g}], targets)
  <1> DEFINE c == [NoChange EXCEPT !.adds = {g}]
  <1>1. /\ c \in Change
        /\ c.joins = [v \in People |-> {}] /\ c.leaves = [v \in People |-> {}]
        /\ c.role = Nothing /\ c.active = Nothing /\ c.tenant = Nothing /\ c.tenantGroup = Nothing
    BY NoChangeParts DEF Change
  <1>2. DOMAIN Nothing = {}
    BY DEF Nothing
  <1> HIDE DEF c
  <1>3. Local(c, targets) /\ Grounded(c)
    BY <1>1, <1>2 DEF Local, Grounded
  <1>4. \A v \in People : NewGroups(c, v) = member[v] /\ NewRole(c, v) = role[v]
    BY <1>1, <1>2 DEF NewGroups, NewRole
  <1>5. \A t \in Tenants : NewTenant(c, t) = tenant[t] /\ NewTenantGroup(c, t) = tenantGroup[t]
    BY <1>1, <1>2 DEF NewTenant, NewTenantGroup
  <1> QED
    BY <1>1, <1>3, <1>4, <1>5 DEF Good, KeepsRight, TypeOK, c

\* Deleting a group reconciles each of its members.
LEMMA DeleteGroupIsGood ==
    ASSUME TypeOK, NewcomersAreFree, NEW g \in CustomGroups
    PROVE  Good(DeleteGroup(g), People)
  <1> DEFINE affected == {u \in People : g \in member[u]}
             Rest(u) == member[u] \ {g}
             j == [u \in People |-> IF u \in affected THEN PoolJoins(Rest(u)) ELSE {}]
             l == [u \in People |->
                     {g} \cup (IF u \in affected THEN PoolLeaves(Rest(u)) ELSE {})]
             c == DeleteGroup(g)
  <1>1. g # "MEMBER_POOL" /\ g # "RELEASE_MANAGERS"
    BY NamesAssumption DEF SystemGroups
  <1>2. j \in [People -> SUBSET Groups] /\ l \in [People -> SUBSET Groups]
    BY DEF PoolJoins, PoolLeaves, Groups, SystemGroups, TypeOK
  <1>3. c = [NoChange EXCEPT !.joins = j, !.leaves = l, !.drops = {g}]
    BY DEF DeleteGroup
  <1> HIDE DEF c, j, l
  <1>4. /\ c \in Change /\ c.joins = j /\ c.leaves = l
        /\ c.role = Nothing /\ c.active = Nothing /\ c.tenant = Nothing /\ c.tenantGroup = Nothing
    BY <1>2, <1>3, NoChangeParts DEF Change
  <1>5. DOMAIN Nothing = {}
    BY DEF Nothing
  <1>6. \A u \in People \ users : c.joins[u] = {} /\ c.leaves[u] \subseteq CustomGroups
    BY <1>4 DEF NewcomersAreFree, j, l
  <1>7. Local(c, People) /\ Grounded(c)
    BY <1>4, <1>5, <1>6 DEF Local, Grounded
  <1>8. ASSUME NEW u \in People
        PROVE  /\ PoolRight(member[u]) => PoolRight(NewGroups(c, u))
               /\ "RELEASE_MANAGERS" \in NewGroups(c, u) <=> "RELEASE_MANAGERS" \in member[u]
    <2>1. CASE u \in affected
      <3>1. NewGroups(c, u) = (member[u] \cup PoolJoins(Rest(u))) \ ({g} \cup PoolLeaves(Rest(u)))
        BY <1>4, <2>1 DEF NewGroups, j, l
      <3>2. /\ PoolRight(NewGroups(c, u))
            /\ "RELEASE_MANAGERS" \in NewGroups(c, u) <=>
                  "RELEASE_MANAGERS" \in member[u] /\ "RELEASE_MANAGERS" \notin {g}
        BY <1>1, <3>1, ReconciledIsRight
      <3> QED
        BY <1>1, <3>2
    <2>2. CASE u \notin affected
      <3>1. NewGroups(c, u) = member[u]
        BY <1>4, <2>2 DEF NewGroups, j, l
      <3> QED
        BY <3>1
    <2> QED
      BY <2>1, <2>2
  <1>9. \A u \in People : NewRole(c, u) = role[u]
    BY <1>4, <1>5 DEF NewRole
  <1>10. \A t \in Tenants : NewTenant(c, t) = tenant[t] /\ NewTenantGroup(c, t) = tenantGroup[t]
    BY <1>4, <1>5 DEF NewTenant, NewTenantGroup
  <1>11. KeepsRight(c)
    BY <1>8, <1>9, <1>10 DEF KeepsRight, RoleRight, TypeOK
  <1> QED
    BY <1>4, <1>7, <1>11 DEF Good, c

\* A change of tenants and subgroups alone.
LEMMA TenantChangeIsGood ==
    ASSUME TypeOK, NEW c \in Change, NEW targets,
           c.joins = [u \in People |-> {}], c.leaves = [u \in People |-> {}],
           c.role = Nothing, c.active = Nothing,
           DOMAIN c.tenant \subseteq targets, DOMAIN c.tenantGroup \subseteq targets,
           \A t \in DOMAIN c.tenant : c.tenant[t] # "NONE",
           \A t \in DOMAIN c.tenantGroup : tenant[t] # "NONE" \/ t \in DOMAIN c.tenant,
           \A t \in Tenants : tenantGroup[t] = tenant[t] => NewTenantGroup(c, t) = NewTenant(c, t)
    PROVE  Good(c, targets)
  <1>1. DOMAIN Nothing = {}
    BY DEF Nothing
  <1>2. Local(c, targets) /\ Grounded(c)
    BY <1>1 DEF Local, Grounded
  <1>3. \A v \in People : NewGroups(c, v) = member[v] /\ NewRole(c, v) = role[v]
    BY <1>1 DEF NewGroups, NewRole
  <1> QED
    BY <1>2, <1>3 DEF Good, KeepsRight, TypeOK

\* Synced names the subgroups that disagree with the given tenants.
LEMMA SyncedColumn ==
    ASSUME TypeOK, NEW ts \in SUBSET Tenants, NEW state \in [Tenants -> TenantStates]
    PROVE  /\ Synced(ts, state) \in Columns(Tenants, TenantStates)
           /\ \A t : t \in DOMAIN Synced(ts, state)
                       <=> t \in ts /\ state[t] # "NONE" /\ tenantGroup[t] # state[t]
           /\ \A t \in DOMAIN Synced(ts, state) : Synced(ts, state)[t] = state[t]
  <1> DEFINE D == {x \in ts : state[x] # "NONE" /\ tenantGroup[x] # state[x]}
  <1>1. Synced(ts, state) = [t \in D |-> state[t]]
    BY DEF Synced
  <1>2. D \in SUBSET Tenants /\ Synced(ts, state) \in [D -> TenantStates]
    BY <1>1
  <1>3. Synced(ts, state) \in Columns(Tenants, TenantStates)
    BY <1>2, ColumnsMembers
  <1> QED
    BY <1>1, <1>3

\* Writing a tenant writes its subgroup with it.
LEMMA SetTenantIsGood ==
    ASSUME TypeOK, NEW t \in Tenants, NEW state \in {"ON", "OFF"},
           NEW adds \in SUBSET (CustomGroups \cup Tenants)
    PROVE  /\ Good(SetTenant(t, state), {t})
           /\ Good([SetTenant(t, state) EXCEPT !.adds = adds], {t})
  <1> DEFINE s == [tenant EXCEPT ![t] = state]
             a == IF tenant[t] = state THEN Nothing ELSE Column(t, state)
             g == Synced({t}, s)
             c == SetTenant(t, state)
             d == [SetTenant(t, state) EXCEPT !.adds = adds]
  <1>1. s \in [Tenants -> TenantStates] /\ s[t] = state /\ state # "NONE"
        /\ state \in TenantStates /\ {t} \in SUBSET Tenants
    BY DEF TypeOK, TenantStates
  <1>2. /\ Nothing \in Columns(Tenants, TenantStates) /\ DOMAIN Nothing = {}
        /\ Column(t, state) \in Columns(Tenants, TenantStates)
        /\ DOMAIN Column(t, state) = {t} /\ Column(t, state)[t] = state
    BY <1>1, NothingIsColumn, ColumnIsColumn
  <1>3. /\ a \in Columns(Tenants, TenantStates) /\ DOMAIN a \subseteq {t}
        /\ \A x \in DOMAIN a : a[x] = state
        /\ tenant[t] # state => t \in DOMAIN a
    <2>1. CASE tenant[t] = state
      BY <1>2, <2>1
    <2>2. CASE tenant[t] # state
      BY <1>2, <2>2
    <2> QED
      BY <2>1, <2>2
  <1>4. /\ g \in Columns(Tenants, TenantStates)
        /\ \A x : x \in DOMAIN g <=> x \in {t} /\ s[x] # "NONE" /\ tenantGroup[x] # s[x]
        /\ \A x \in DOMAIN g : g[x] = s[x]
    <2> HIDE DEF s
    <2> QED
      BY <1>1, SyncedColumn
  <1>5. /\ DOMAIN g \subseteq {t} /\ \A x \in DOMAIN g : g[x] = state
        /\ t \in DOMAIN g <=> tenantGroup[t] # state
    BY <1>1, <1>4
  <1>6. c = [NoChange EXCEPT !.tenant = a, !.tenantGroup = g]
    BY DEF SetTenant
  <1> HIDE DEF a, g, s
  <1>7. d = [c EXCEPT !.adds = adds]
    OBVIOUS
  <1> HIDE DEF c, d
  <1>8. /\ c \in Change
        /\ c.joins = [u \in People |-> {}] /\ c.leaves = [u \in People |-> {}]
        /\ c.role = Nothing /\ c.active = Nothing /\ c.tenant = a /\ c.tenantGroup = g
    BY <1>3, <1>5, <1>4, <1>6, NoChangeParts DEF Change
  <1>9. /\ d \in Change
        /\ d.joins = [u \in People |-> {}] /\ d.leaves = [u \in People |-> {}]
        /\ d.role = Nothing /\ d.active = Nothing /\ d.tenant = a /\ d.tenantGroup = g
    BY <1>7, <1>8 DEF Change
  <1>10. \A e \in {c, d}, x \in Tenants :
            tenantGroup[x] = tenant[x] => NewTenantGroup(e, x) = NewTenant(e, x)
    BY <1>3, <1>5, <1>8, <1>9 DEF NewTenantGroup, NewTenant
  <1>11. \A x \in DOMAIN g : tenant[x] # "NONE" \/ x \in DOMAIN a
    BY <1>1, <1>3, <1>5
  <1>12. Good(c, {t})
    <2>1. \A x \in DOMAIN c.tenant : c.tenant[x] # "NONE"
      BY <1>1, <1>3, <1>8
    <2>2. \A x \in DOMAIN c.tenantGroup : tenant[x] # "NONE" \/ x \in DOMAIN c.tenant
      BY <1>8, <1>11
    <2> QED
      BY <1>3, <1>5, <1>8, <1>10, <2>1, <2>2, TenantChangeIsGood
  <1>13. Good(d, {t})
    <2>1. \A x \in DOMAIN d.tenant : d.tenant[x] # "NONE"
      BY <1>1, <1>3, <1>9
    <2>2. \A x \in DOMAIN d.tenantGroup : tenant[x] # "NONE" \/ x \in DOMAIN d.tenant
      BY <1>9, <1>11
    <2> QED
      BY <1>3, <1>5, <1>9, <1>10, <2>1, <2>2, TenantChangeIsGood
  <1> QED
    BY <1>12, <1>13 DEF c, d

LEMMA ListGroupsIsGood ==
    ASSUME TypeOK
    PROVE  Good([NoChange EXCEPT !.tenantGroup = Synced(Tenants, tenant)], Tenants)
  <1> DEFINE g == Synced(Tenants, tenant)
             c == [NoChange EXCEPT !.tenantGroup = g]
  <1>1. /\ g \in Columns(Tenants, TenantStates) /\ DOMAIN g \subseteq Tenants
        /\ \A x \in DOMAIN g : tenant[x] # "NONE" /\ g[x] = tenant[x]
    <2>1. Tenants \in SUBSET Tenants /\ tenant \in [Tenants -> TenantStates]
      BY DEF TypeOK
    <2>2. /\ g \in Columns(Tenants, TenantStates)
          /\ \A t : t \in DOMAIN g
                      <=> t \in Tenants /\ tenant[t] # "NONE" /\ tenantGroup[t] # tenant[t]
          /\ \A t \in DOMAIN g : g[t] = tenant[t]
      BY <2>1, SyncedColumn
    <2> QED
      BY <2>2
  <1>2. Nothing \in Columns(Tenants, TenantStates) /\ DOMAIN Nothing = {}
    BY NothingIsColumn
  <1> HIDE DEF g
  <1>3. /\ c \in Change
        /\ c.joins = [u \in People |-> {}] /\ c.leaves = [u \in People |-> {}]
        /\ c.role = Nothing /\ c.active = Nothing /\ c.tenant = Nothing /\ c.tenantGroup = g
    BY <1>1, NoChangeParts DEF Change
  <1> HIDE DEF c
  <1>4. \A x \in Tenants : tenantGroup[x] = tenant[x] => NewTenantGroup(c, x) = NewTenant(c, x)
    BY <1>1, <1>2, <1>3 DEF NewTenantGroup, NewTenant
  <1>5. Good(c, Tenants)
    BY <1>1, <1>2, <1>3, <1>4, TenantChangeIsGood
  <1> QED
    BY <1>5 DEF c, g

-----------------------------------------------------------------------------
(* Every change a handler asks for is good *)

\* What makes an account an administrator, or no longer one, is asked by an Owner.
Authorised(c, a) ==
    a \in owners \/ (DOMAIN c.role = {} /\ \A u \in DOMAIN c.active : role[u] # "ADMIN")

\* Adding to a group, by somebody who may.
LEMMA AddingIsGood ==
    ASSUME TypeOK, NEW a, NEW u \in users, NEW g \in Groups, g # "MEMBER_POOL",
           g = "RELEASE_MANAGERS" => a \in owners
    PROVE  Good(AddMembership(g, u), {u}) /\ Authorised(AddMembership(g, u), a)
  <1> DEFINE newRole == IF g = "RELEASE_MANAGERS" THEN "ADMIN" ELSE role[u]
  <1>1. AddMembership(g, u) = Membership(u, {g}, {}, newRole)
    BY DEF AddMembership
  <1>2. newRole = IF "RELEASE_MANAGERS" \in {g} THEN "ADMIN"
                  ELSE IF "RELEASE_MANAGERS" \in {} THEN "TENANT_USER" ELSE role[u]
    OBVIOUS
  <1>3. {g} \in SUBSET Groups /\ {} \in SUBSET Groups /\ {g} \cap {} = {}
    OBVIOUS
  <1> HIDE DEF newRole
  <1>4. Good(Membership(u, {g}, {}, newRole), {u})
    BY <1>2, <1>3, MembershipIsGood
  <1>5. Authorised(Membership(u, {g}, {}, newRole), a)
    BY NoChangeParts DEF Authorised, Membership, newRole, Nothing, Change
  <1> QED
    BY <1>1, <1>4, <1>5

\* Removing from a group, by somebody who may.
LEMMA RemovingIsGood ==
    ASSUME TypeOK, NEW a, NEW u \in users, NEW g \in Groups, g # "MEMBER_POOL",
           g = "RELEASE_MANAGERS" /\ role[u] = "ADMIN" => a \in owners
    PROVE  Good(RemoveMembership(g, u), {u}) /\ Authorised(RemoveMembership(g, u), a)
  <1> DEFINE newRole == IF g = "RELEASE_MANAGERS" THEN "TENANT_USER" ELSE role[u]
  <1>1. RemoveMembership(g, u) = Membership(u, {}, {g}, newRole)
    BY DEF RemoveMembership
  <1>2. newRole = IF "RELEASE_MANAGERS" \in {} THEN "ADMIN"
                  ELSE IF "RELEASE_MANAGERS" \in {g} THEN "TENANT_USER" ELSE role[u]
    OBVIOUS
  <1>3. {g} \in SUBSET Groups /\ {} \in SUBSET Groups /\ {} \cap {g} = {}
        /\ "MEMBER_POOL" \notin {g}
    OBVIOUS
  <1>4. role[u] \in {"ADMIN", "TENANT_USER"}
    BY DEF TypeOK, Roles
  <1> HIDE DEF newRole
  <1>5. Good(Membership(u, {}, {g}, newRole), {u})
    BY <1>2, <1>3, MembershipIsGood
  <1>6. Authorised(Membership(u, {}, {g}, newRole), a)
    BY <1>4, NoChangeParts DEF Authorised, Membership, newRole, Nothing, Change
  <1> QED
    BY <1>1, <1>5, <1>6

\* (De)activating an account, by somebody who may.
LEMMA ActivatingIsGood ==
    ASSUME TypeOK, NEW a, NEW u \in users, MayManage(a, u), NEW value \in BOOLEAN
    PROVE  Good(SetActive(u, value), {u}) /\ Authorised(SetActive(u, value), a)
  <1>1. Good(SetActive(u, value), {u})
    BY SetActiveIsGood DEF MayManage
  <1>2. Authorised(SetActive(u, value), a)
    BY NoChangeParts DEF Authorised, SetActive, MayManage, Nothing, Column, Change
  <1> QED
    BY <1>1, <1>2

\* A change that writes no role and no status makes nobody an administrator.
LEMMA OthersAreAuthorised ==
    ASSUME NEW a, NEW c, c.role = Nothing, c.active = Nothing
    PROVE  Authorised(c, a)
  BY DEF Authorised, Nothing

\* Whatever an administrator calls, the change that is begun is good.
LEMMA HandledIsGood ==
    ASSUME TypeOK, NewcomersAreFree, NEW r \in Requests, NEW a \in users, NEW k \in Ask,
           Handle(r, a, k)
    PROVE  \E targets \in SUBSET (People \cup Tenants), c \in Change :
               Good(c, targets) /\ Authorised(c, a) /\ Begin(r, a, targets, c)
  <1> DEFINE u == k.user
             g == k.group
             Goal == \E targets \in SUBSET (People \cup Tenants), c \in Change :
                        Good(c, targets) /\ Authorised(c, a) /\ Begin(r, a, targets, c)
  <1>1. /\ g \in Groups /\ users \subseteq People /\ "RELEASE_MANAGERS" \in Groups
        /\ "RELEASE_MANAGERS" # "MEMBER_POOL"
    BY DEF Ask, TypeOK, Groups, SystemGroups
  <1>2. \A targets, c : targets \subseteq People \cup Tenants /\ Good(c, targets)
                        /\ Authorised(c, a) /\ Begin(r, a, targets, c) => Goal
    BY DEF Good
  <1> SUFFICES Goal
    OBVIOUS
  <1> HIDE DEF Goal, u, g
  <1>3. CASE AddGroupMember(r, a, u, g)
    <2>1. Good(AddMembership(g, u), {u}) /\ Authorised(AddMembership(g, u), a)
      BY <1>1, <1>3, AddingIsGood DEF AddGroupMember
    <2> QED
      BY <1>1, <1>2, <1>3, <2>1 DEF AddGroupMember
  <1>4. CASE RemoveGroupMember(r, a, u, g)
    <2>1. Good(RemoveMembership(g, u), {u}) /\ Authorised(RemoveMembership(g, u), a)
      BY <1>1, <1>4, RemovingIsGood DEF RemoveGroupMember, RemoveAllowed
    <2> QED
      BY <1>1, <1>2, <1>4, <2>1 DEF RemoveGroupMember
  <1>5. CASE Promote(r, a, u)
    <2> DEFINE c == AddMembership("RELEASE_MANAGERS", u)
    <2>1. Good(c, {u}) /\ Authorised(c, a)
      BY <1>1, <1>5, AddingIsGood DEF Promote
    <2> QED
      BY <1>1, <1>2, <1>5, <2>1 DEF Promote
  <1>6. CASE Demote(r, a, u)
    <2> DEFINE c == RemoveMembership("RELEASE_MANAGERS", u)
    <2>1. Good(c, {u}) /\ Authorised(c, a)
      BY <1>1, <1>6, RemovingIsGood DEF Demote, MayManage
    <2> QED
      BY <1>1, <1>2, <1>6, <2>1 DEF Demote
  <1>7. CASE Activate(r, a, u)
    <2>1. Good(SetActive(u, TRUE), {u}) /\ Authorised(SetActive(u, TRUE), a)
      BY <1>7, ActivatingIsGood DEF Activate
    <2> QED
      BY <1>1, <1>2, <1>7, <2>1 DEF Activate
  <1>8. CASE Deactivate(r, a, u)
    <2>1. Good(SetActive(u, FALSE), {u}) /\ Authorised(SetActive(u, FALSE), a)
      BY <1>8, ActivatingIsGood DEF Deactivate
    <2> QED
      BY <1>1, <1>2, <1>8, <2>1 DEF Deactivate
  <1>9. CASE CreateCustomGroup(r, a, g)
    <2> DEFINE c == [NoChange EXCEPT !.adds = {g}]
    <2>1. c.role = Nothing /\ c.active = Nothing
      BY NoChangeParts DEF Change
    <2>2. Good(c, {}) /\ Authorised(c, a)
      BY <1>9, <2>1, CreateGroupIsGood, OthersAreAuthorised DEF CreateCustomGroup
    <2> QED
      BY <1>2, <1>9, <2>2 DEF CreateCustomGroup
  <1>10. CASE DeleteCustomGroup(r, a, g)
    <2>1. DeleteGroup(g).role = Nothing /\ DeleteGroup(g).active = Nothing
      BY NoChangeParts DEF Change, DeleteGroup
    <2>2. g \in CustomGroups
      BY <1>10 DEF DeleteCustomGroup, TypeOK
    <2>3. Good(DeleteGroup(g), People) /\ Authorised(DeleteGroup(g), a)
      BY <2>1, <2>2, DeleteGroupIsGood, OthersAreAuthorised
    <2> QED
      BY <1>2, <1>10, <2>3 DEF DeleteCustomGroup
  <1>11. ASSUME NEW t \in Tenants, NEW state \in {"ON", "OFF"},
                NEW c \in {SetTenant(t, state), [SetTenant(t, state) EXCEPT !.adds = {t}]}
         PROVE  {t} \subseteq People \cup Tenants /\ Good(c, {t}) /\ Authorised(c, a)
    <2>1. c.role = Nothing /\ c.active = Nothing
      BY NoChangeParts DEF Change, SetTenant
    <2>2. Good(c, {t})
      BY SetTenantIsGood
    <2> QED
      BY <2>1, <2>2, OthersAreAuthorised
  <1>12. CASE CreateTenant(r, a, g)
    <2> DEFINE c == [SetTenant(g, "ON") EXCEPT !.adds = {g}]
    <2>1. {g} \subseteq People \cup Tenants /\ Good(c, {g}) /\ Authorised(c, a)
      BY <1>11, <1>12 DEF CreateTenant
    <2> QED
      BY <1>2, <1>12, <2>1 DEF CreateTenant
  <1>13. CASE EditTenant(r, a, g)
    <2>1. g \in Tenants /\ tenant[g] \in {"ON", "OFF"}
      BY <1>13 DEF EditTenant, TypeOK, TenantStates
    <2>2. {g} \subseteq People \cup Tenants /\ Good(SetTenant(g, tenant[g]), {g})
          /\ Authorised(SetTenant(g, tenant[g]), a)
      BY <1>11, <2>1
    <2> QED
      BY <1>2, <1>13, <2>2 DEF EditTenant
  <1>14. ASSUME NEW state \in {"ON", "OFF"}, SetTenantStatus(r, a, g, state)
         PROVE  Goal
    <2>1. {g} \subseteq People \cup Tenants /\ Good(SetTenant(g, state), {g})
          /\ Authorised(SetTenant(g, state), a)
      BY <1>11, <1>14 DEF SetTenantStatus
    <2> QED
      BY <1>2, <1>14, <2>1 DEF SetTenantStatus
  <1>15. CASE ListGroups(r, a)
    <2> DEFINE c == [NoChange EXCEPT !.tenantGroup = Synced(Tenants, tenant)]
    <2>1. c.role = Nothing /\ c.active = Nothing
      BY NoChangeParts DEF Change
    <2>2. Good(c, Tenants) /\ Authorised(c, a)
      BY <2>1, ListGroupsIsGood, OthersAreAuthorised
    <2> QED
      BY <1>2, <1>15, <2>2 DEF ListGroups
  <1> QED
    BY <1>3, <1>4, <1>5, <1>6, <1>7, <1>8, <1>9, <1>10, <1>12, <1>13, <1>14, <1>15
    DEF Handle, u, g

-----------------------------------------------------------------------------
(* The inductive invariant *)

OwnersUsable == \A u \in owners : role[u] = "ADMIN" /\ active[u]

OwnerExists == phase \in {"OWNED", "UP"} /\ Administrators # {} => owners # {}

\* Accounts from before groups are the only ones whose role no group explains.
LegacyRight ==
    \A u \in users \ (owners \cup raced) : member[u] = {} \/ RoleRight(member[u], role[u])

MissingHaveNoGroup == \A t \in Tenants : tenant[t] = "NONE" => tenantGroup[t] = "NONE"

TablesRight ==
    phase = "UP" =>
        /\ \A u \in users \ (owners \cup raced) :
              PoolRight(member[u]) /\ RoleRight(member[u], role[u])
        /\ \A t \in Tenants \ raced : tenantGroup[t] = tenant[t]

\* The commit of c leaves everything right that no other request works on.
LeavesRight(c) ==
    /\ \A u \in users \ (owners \cup raced) :
          PoolRight(NewGroups(c, u)) /\ RoleRight(NewGroups(c, u), NewRole(c, u))
    /\ \A t \in Tenants \ raced : NewTenantGroup(c, t) = NewTenant(c, t)

AskedByOwner(c, a) ==
    a \in owners \/ \A u \in (DOMAIN c.role \cup DOMAIN c.active) \ raced :
                        u \notin DOMAIN c.role /\ role[u] # "ADMIN"

RequestsRight ==
    \A r \in Requests : request[r].busy =>
        /\ phase = "UP" /\ owners # {}
        /\ Local(request[r].change, request[r].targets)
        /\ Grounded(request[r].change)
        /\ LeavesRight(request[r].change)
        /\ AskedByOwner(request[r].change, request[r].by)

OverlapsAreRaced ==
    \A r, o \in Requests : request[r].busy /\ request[o].busy /\ r # o =>
        request[r].targets \cap request[o].targets \subseteq raced

IInv ==
    /\ TypeOK
    /\ NewcomersAreFree
    /\ OwnersUsable /\ OwnerExists
    /\ LegacyRight /\ MissingHaveNoGroup /\ TablesRight
    /\ RequestsRight /\ OverlapsAreRaced

Pending == [busy: BOOLEAN, by: People, targets: SUBSET (People \cup Tenants), change: Change]

\* The request that is not there.
LEMMA IdleType == Idle \in Pending /\ ~Idle.busy
  <1>1. (CHOOSE u \in People : TRUE) \in People
    BY NamesAssumption
  <1> QED
    BY <1>1, NoChangeParts DEF Idle, Pending

\* The first of the three facts: it holds of the initial states.
LEMMA InitIsRight == Init => IInv
  <1> SUFFICES ASSUME Init PROVE IInv
    OBVIOUS
  <1>1. TypeOK
    BY IdleType, NamesAssumption DEF Init, TypeOK, Roles, TenantStates, Pending
  <1>2. \A r \in Requests : ~request[r].busy
    BY IdleType DEF Init
  <1>3. OwnersUsable /\ OwnerExists /\ MissingHaveNoGroup /\ NewcomersAreFree /\ TablesRight
        /\ LegacyRight
    BY DEF Init, OwnersUsable, OwnerExists, MissingHaveNoGroup, NewcomersAreFree, TablesRight,
           LegacyRight
  <1> QED
    BY <1>1, <1>2, <1>3 DEF IInv, RequestsRight, OverlapsAreRaced

\* A request that begins knows a good change and whom it overlaps.
LEMMA BeginKeepsRight ==
    ASSUME IInv, NEW r \in Requests, NEW a \in users, NEW k \in Ask, Handle(r, a, k)
    PROVE  IInv'
  <1>1. TypeOK /\ NewcomersAreFree
    BY DEF IInv
  <1>2. PICK targets \in SUBSET (People \cup Tenants), c \in Change :
           Good(c, targets) /\ Authorised(c, a) /\ Begin(r, a, targets, c)
    BY <1>1, HandledIsGood
  <1>3. /\ phase = "UP" /\ ~request[r].busy /\ a \in Administrators /\ a \in People
    BY <1>1 DEF Handle, MayAdminister, Administrators, TypeOK
  <1> DEFINE new == [busy |-> TRUE, by |-> a, targets |-> targets, change |-> c]
  <1>4. new \in Pending
    BY <1>3 DEF Pending
  <1>5. /\ request' = [request EXCEPT ![r] = new]
        /\ raced' = raced \cup (targets \cap UNION {request[o].targets : o \in InFlight})
        /\ UNCHANGED <<phase, bootName, tables>>
    BY <1>2 DEF Begin
  <1>6. UNCHANGED <<phase, bootName, users, role, active, owners, member, custom, tenant,
                    tenantGroup>>
    BY <1>5 DEF tables
  <1>7. /\ raced \subseteq raced' /\ raced' \subseteq People \cup Tenants
        /\ \A o \in Requests : request[o].busy => targets \cap request[o].targets \subseteq raced'
    BY <1>1, <1>5 DEF InFlight, TypeOK
  <1>8. request \in [Requests -> Pending]
    BY <1>1 DEF TypeOK, Pending
  <1>9. /\ request' \in [Requests -> Pending] /\ request'[r] = new
        /\ \A o \in Requests \ {r} : request'[o] = request[o]
    BY <1>4, <1>5, <1>8
  <1>10. TypeOK'
    BY <1>1, <1>6, <1>7, <1>9 DEF TypeOK, Pending
  <1>11. (NewcomersAreFree /\ OwnersUsable /\ OwnerExists /\ LegacyRight /\ MissingHaveNoGroup
             /\ TablesRight)'
    BY <1>6, <1>7 DEF IInv, NewcomersAreFree, OwnersUsable, OwnerExists, LegacyRight,
                      MissingHaveNoGroup, TablesRight, Administrators
  <1>12. owners # {} /\ LeavesRight(c) /\ AskedByOwner(c, a)
    BY <1>2, <1>3 DEF IInv, OwnerExists, TablesRight, Good, KeepsRight, LeavesRight, Authorised,
                      AskedByOwner
  <1>13. RequestsRight'
    <2>1. /\ Local(c, targets)' /\ Grounded(c)' /\ LeavesRight(c)' /\ AskedByOwner(c, a)'
          /\ (phase = "UP" /\ owners # {})'
      <3>1. Local(c, targets) /\ Grounded(c)
        BY <1>2 DEF Good
      <3> QED
        BY <1>3, <1>6, <1>7, <1>12, <3>1 DEF Local, Grounded, LeavesRight, AskedByOwner,
           NewGroups, NewRole, NewTenant, NewTenantGroup
    <2>2. new.change = c /\ new.targets = targets /\ new.by = a
      OBVIOUS
    <2> HIDE DEF new
    <2>3. ASSUME NEW o \in Requests, (request[o].busy)'
          PROVE  /\ (phase = "UP" /\ owners # {})'
                 /\ Local(request[o].change, request[o].targets)'
                 /\ Grounded(request[o].change)'
                 /\ LeavesRight(request[o].change)'
                 /\ AskedByOwner(request[o].change, request[o].by)'
      <3>1. CASE o = r
        BY <1>9, <2>1, <2>2, <3>1 DEF Local, Grounded, LeavesRight, AskedByOwner, NewGroups,
           NewRole, NewTenant, NewTenantGroup
      <3>2. CASE o # r
        <4>1. request'[o] = request[o] /\ request[o].busy
          BY <1>9, <2>3, <3>2
        <4>2. /\ Local(request[o].change, request[o].targets) /\ Grounded(request[o].change)
              /\ LeavesRight(request[o].change)
              /\ AskedByOwner(request[o].change, request[o].by)
          BY <4>1 DEF IInv, RequestsRight
        <4> QED
          BY <1>6, <1>7, <2>1, <4>1, <4>2 DEF Local, Grounded, LeavesRight, AskedByOwner,
             NewGroups, NewRole, NewTenant, NewTenantGroup
      <3> QED
        BY <3>1, <3>2
    <2> QED
      BY <2>3 DEF RequestsRight
  <1>14. OverlapsAreRaced'
    BY <1>7, <1>9 DEF IInv, OverlapsAreRaced
  <1> QED
    BY <1>10, <1>11, <1>13, <1>14 DEF IInv

\* A change leaves everybody but its targets as they are.
LEMMA OthersUntouched ==
    ASSUME NEW c, NEW targets, Local(c, targets)
    PROVE  /\ \A u \in People \ targets : u \notin DOMAIN c.role /\ u \notin DOMAIN c.active
           /\ \A u \in People \ targets :
                 NewRole(c, u) = role[u] /\ c.joins[u] = {} /\ c.leaves[u] = {}
           /\ \A t \in Tenants \ targets :
                 NewTenant(c, t) = tenant[t] /\ NewTenantGroup(c, t) = tenantGroup[t]
  BY DEF Local, NewRole, NewTenant, NewTenantGroup

\* A commit leaves what it promised, and every other request's promise stands.
LEMMA CommitKeepsRight ==
    ASSUME IInv, NEW r \in Requests, Commit(r)
    PROVE  IInv'
  <1> DEFINE c == request[r].change
             tg == request[r].targets
  <1>1. TypeOK /\ request \in [Requests -> Pending] /\ request[r].busy
    BY DEF IInv, TypeOK, Pending, Commit
  <1>2. c \in Change
    BY <1>1 DEF Pending
  <1>3. /\ phase = "UP" /\ owners # {}
        /\ Local(c, tg) /\ Grounded(c) /\ LeavesRight(c)
    BY <1>1 DEF IInv, RequestsRight
  <1>4. /\ member' = [u \in People |-> (member[u] \cup c.joins[u]) \ c.leaves[u]]
        /\ role' = Overwritten(role, c.role)
        /\ active' = Overwritten(active, c.active)
        /\ custom' = (custom \cup (c.adds \cap CustomGroups)) \ c.drops
        /\ tenant' = Overwritten(tenant, c.tenant)
        /\ tenantGroup' = Overwritten(tenantGroup, c.tenantGroup)
        /\ request' = [request EXCEPT ![r] = Idle]
        /\ UNCHANGED <<phase, bootName, users, owners, raced>>
    BY DEF Commit
  <1> HIDE DEF c, tg
  <1>5. /\ member' \in [People -> SUBSET Groups]
        /\ \A u \in People : member'[u] = NewGroups(c, u)
    BY <1>1, <1>2, <1>4, ChangeParts DEF TypeOK, NewGroups
  <1>6. role' \in [People -> Roles] /\ \A u \in People : role'[u] = NewRole(c, u)
    <2>1. role \in [People -> Roles] /\ c.role \in Columns(People, Roles)
      BY <1>1, <1>2, ChangeParts DEF TypeOK
    <2> QED
      BY <1>4, <2>1, OverwrittenColumn DEF NewRole
  <1>7. /\ active' \in [People -> BOOLEAN]
        /\ \A u \in People \ DOMAIN c.active : active'[u] = active[u]
    <2>1. active \in [People -> BOOLEAN] /\ c.active \in Columns(People, BOOLEAN)
      BY <1>1, <1>2, ChangeParts DEF TypeOK
    <2> QED
      BY <1>4, <2>1, OverwrittenColumn
  <1>8. tenant' \in [Tenants -> TenantStates] /\ \A t \in Tenants : tenant'[t] = NewTenant(c, t)
    <2>1. tenant \in [Tenants -> TenantStates] /\ c.tenant \in Columns(Tenants, TenantStates)
      BY <1>1, <1>2, ChangeParts DEF TypeOK
    <2> QED
      BY <1>4, <2>1, OverwrittenColumn DEF NewTenant
  <1>9. /\ tenantGroup' \in [Tenants -> TenantStates]
        /\ \A t \in Tenants : tenantGroup'[t] = NewTenantGroup(c, t)
    <2>1. /\ tenantGroup \in [Tenants -> TenantStates]
          /\ c.tenantGroup \in Columns(Tenants, TenantStates)
      BY <1>1, <1>2, ChangeParts DEF TypeOK
    <2> QED
      BY <1>4, <2>1, OverwrittenColumn DEF NewTenantGroup
  <1>10. /\ request' \in [Requests -> Pending] /\ ~request'[r].busy
         /\ \A o \in Requests \ {r} : request'[o] = request[o]
    BY <1>1, <1>4, IdleType
  <1>11. TypeOK'
    BY <1>1, <1>4, <1>5, <1>6, <1>7, <1>8, <1>9, <1>10 DEF TypeOK, Pending
  <1>12. users \subseteq People /\ owners \subseteq users
    BY <1>1 DEF TypeOK
  <1>13. NewcomersAreFree'
    BY <1>3, <1>4, <1>5 DEF IInv, NewcomersAreFree, Grounded, NewGroups
  <1>14. OwnersUsable'
    BY <1>3, <1>4, <1>6, <1>7, <1>12 DEF IInv, OwnersUsable, Local, NewRole
  <1>15. OwnerExists'
    BY <1>3, <1>4 DEF OwnerExists
  <1>16. (TablesRight /\ LegacyRight)'
    BY <1>3, <1>4, <1>5, <1>6, <1>8, <1>9, <1>12 DEF TablesRight, LegacyRight, LeavesRight
  <1>17. \A t \in Tenants : tenant'[t] = "NONE" => tenant[t] = "NONE" /\ t \notin DOMAIN c.tenant
    BY <1>3, <1>8 DEF Grounded, NewTenant
  <1>18. MissingHaveNoGroup'
    BY <1>3, <1>9, <1>17 DEF IInv, MissingHaveNoGroup, Grounded, NewTenantGroup
  <1>19. ASSUME NEW o \in Requests, (request[o].busy)'
         PROVE  /\ (phase = "UP" /\ owners # {})'
                /\ Local(request[o].change, request[o].targets)'
                /\ Grounded(request[o].change)'
                /\ LeavesRight(request[o].change)'
                /\ AskedByOwner(request[o].change, request[o].by)'
    <2> DEFINE d == request[o].change
               to == request[o].targets
               by == request[o].by
    <2>1. o # r /\ request'[o] = request[o] /\ request[o].busy
      BY <1>10, <1>19
    <2>2. /\ d \in Change /\ Local(d, to) /\ Grounded(d) /\ LeavesRight(d) /\ AskedByOwner(d, by)
          /\ to \cap tg \subseteq raced
      BY <1>1, <2>1 DEF IInv, RequestsRight, OverlapsAreRaced, Pending, tg
    <2>3. /\ DOMAIN d.tenantGroup \subseteq Tenants
          /\ DOMAIN d.role \subseteq People /\ DOMAIN d.active \subseteq People
      BY <2>2, ChangeParts, ColumnsParts
    <2>4. request'[o].change = d /\ request'[o].targets = to /\ request'[o].by = by
      BY <2>1
    <2> HIDE DEF d, to, by
    <2>5. /\ \A u \in People \ tg : member'[u] = member[u] /\ role'[u] = role[u]
          /\ \A t \in Tenants \ tg : tenant'[t] = tenant[t] /\ tenantGroup'[t] = tenantGroup[t]
      <3>1. /\ \A u \in People \ tg :
                  NewRole(c, u) = role[u] /\ c.joins[u] = {} /\ c.leaves[u] = {}
            /\ \A t \in Tenants \ tg :
                  NewTenant(c, t) = tenant[t] /\ NewTenantGroup(c, t) = tenantGroup[t]
        BY <1>3, OthersUntouched
      <3>2. \A u \in People \ tg : NewGroups(c, u) = member[u]
        BY <3>1 DEF NewGroups
      <3> QED
        BY <1>5, <1>6, <1>8, <1>9, <3>1, <3>2
    <2>6. Local(request[o].change, request[o].targets)'
      BY <1>4, <2>2, <2>4 DEF Local
    <2>7. Grounded(request[o].change)'
      BY <1>4, <1>17, <2>2, <2>3, <2>4 DEF Grounded
    <2>8. ASSUME NEW u \in users \ (owners \cup raced)
          PROVE  /\ PoolRight((member'[u] \cup d.joins[u]) \ d.leaves[u])
                 /\ RoleRight((member'[u] \cup d.joins[u]) \ d.leaves[u],
                              IF u \in DOMAIN d.role THEN d.role[u] ELSE role'[u])
      <3>1. CASE u \in to
        <4>1. member'[u] = member[u] /\ role'[u] = role[u]
          BY <1>12, <2>2, <2>5, <3>1
        <4> QED
          BY <2>2, <4>1 DEF LeavesRight, NewGroups, NewRole
      <3>2. CASE u \notin to
        <4>1. u \notin DOMAIN d.role /\ d.joins[u] = {} /\ d.leaves[u] = {}
          BY <1>12, <2>2, <3>2, OthersUntouched
        <4>2. (member'[u] \cup d.joins[u]) \ d.leaves[u] = NewGroups(c, u)
          BY <1>5, <1>12, <4>1
        <4>3. role'[u] = NewRole(c, u)
          BY <1>6, <1>12
        <4> QED
          BY <1>3, <4>1, <4>2, <4>3 DEF LeavesRight
      <3> QED
        BY <3>1, <3>2
    <2>9. ASSUME NEW t \in Tenants \ raced
          PROVE  (IF t \in DOMAIN d.tenantGroup THEN d.tenantGroup[t] ELSE tenantGroup'[t])
                    = IF t \in DOMAIN d.tenant THEN d.tenant[t] ELSE tenant'[t]
      <3>1. CASE t \in to
        <4>1. tenant'[t] = tenant[t] /\ tenantGroup'[t] = tenantGroup[t]
          BY <2>2, <2>5, <3>1
        <4> QED
          BY <2>2, <4>1 DEF LeavesRight, NewTenant, NewTenantGroup
      <3>2. CASE t \notin to
        <4>1. t \notin DOMAIN d.tenant /\ t \notin DOMAIN d.tenantGroup
          BY <2>2, <3>2 DEF Local
        <4> QED
          BY <1>3, <1>8, <1>9, <4>1 DEF LeavesRight
      <3> QED
        BY <3>1, <3>2
    <2>10. LeavesRight(request[o].change)'
      <3>1. users' = users /\ owners' = owners /\ raced' = raced /\ request'[o].change = d
        BY <1>4, <2>4
      <3>2. \A u \in (users \ (owners \cup raced))' :
               PoolRight(NewGroups(request[o].change, u))'
               /\ RoleRight(NewGroups(request[o].change, u), NewRole(request[o].change, u))'
        BY <2>8, <3>1 DEF NewGroups, NewRole
      <3>3. \A t \in (Tenants \ raced)' :
               NewTenantGroup(request[o].change, t)' = NewTenant(request[o].change, t)'
        BY <2>9, <3>1 DEF NewTenant, NewTenantGroup
      <3> QED
        BY <3>2, <3>3 DEF LeavesRight, NewGroups, NewRole, NewTenant, NewTenantGroup
    <2>11. AskedByOwner(request[o].change, request[o].by)'
      BY <1>4, <2>2, <2>3, <2>4, <2>5 DEF AskedByOwner, Local
    <2> QED
      BY <1>3, <1>4, <2>6, <2>7, <2>10, <2>11
  <1>20. RequestsRight'
    BY <1>19 DEF RequestsRight
  <1>21. OverlapsAreRaced'
    BY <1>4, <1>10 DEF IInv, OverlapsAreRaced
  <1> QED
    BY <1>11, <1>13, <1>14, <1>15, <1>16, <1>18, <1>20, <1>21 DEF IInv

\* A step that writes no table and at most drops requests.
LEMMA QuietStep ==
    ASSUME IInv, UNCHANGED <<bootName, tables, raced>>,
           request' \in [Requests -> Pending],
           \A r \in Requests : request'[r].busy => request'[r] = request[r],
           phase' = phase \/ (phase' = "DOWN" /\ \A r \in Requests : ~request'[r].busy)
    PROVE  IInv'
  <1>1. UNCHANGED <<users, role, active, owners, member, custom, tenant, tenantGroup, raced>>
    BY DEF tables
  <1>2. TypeOK'
    BY <1>1 DEF IInv, TypeOK, Pending
  <1>3. (NewcomersAreFree /\ OwnersUsable /\ OwnerExists /\ LegacyRight /\ MissingHaveNoGroup
            /\ TablesRight)'
    BY <1>1 DEF IInv, NewcomersAreFree, OwnersUsable, OwnerExists, LegacyRight,
                MissingHaveNoGroup, TablesRight, Administrators
  <1>4. ASSUME NEW o \in Requests, (request[o].busy)'
        PROVE  /\ (phase = "UP" /\ owners # {})'
               /\ Local(request[o].change, request[o].targets)'
               /\ Grounded(request[o].change)'
               /\ LeavesRight(request[o].change)'
               /\ AskedByOwner(request[o].change, request[o].by)'
    <2>1. request'[o] = request[o] /\ request[o].busy /\ phase' = phase
      BY <1>4
    <2>2. /\ phase = "UP" /\ owners # {}
          /\ Local(request[o].change, request[o].targets) /\ Grounded(request[o].change)
          /\ LeavesRight(request[o].change) /\ AskedByOwner(request[o].change, request[o].by)
      BY <2>1 DEF IInv, RequestsRight
    <2> QED
      BY <1>1, <2>1, <2>2 DEF Local, Grounded, LeavesRight, AskedByOwner, NewGroups, NewRole,
                              NewTenant, NewTenantGroup
  <1>5. RequestsRight'
    BY <1>4 DEF RequestsRight
  <1>6. OverlapsAreRaced'
    BY <1>1 DEF IInv, OverlapsAreRaced
  <1> QED
    BY <1>2, <1>3, <1>5, <1>6 DEF IInv

\* A request that is rolled back.
LEMMA FailKeepsRight ==
    ASSUME IInv, NEW r \in Requests, Fail(r)
    PROVE  IInv'
  <1>1. request \in [Requests -> Pending]
    BY DEF IInv, TypeOK, Pending
  <1>2. /\ request' \in [Requests -> Pending]
        /\ \A o \in Requests : request'[o].busy => request'[o] = request[o]
    BY <1>1, IdleType DEF Fail
  <1> QED
    BY <1>2, QuietStep DEF Fail

\* A crash loses the requests in flight.
LEMMA CrashKeepsRight ==
    ASSUME IInv, Crash
    PROVE  IInv'
  <1>1. request' \in [Requests -> Pending] /\ \A o \in Requests : ~request'[o].busy
    BY IdleType DEF Crash
  <1> QED
    BY <1>1, QuietStep DEF Crash

\* A newcomer is in the pool, and no request in flight names them.
LEMMA RegisterKeepsRight ==
    ASSUME IInv, NEW v \in People, Register(v)
    PROVE  IInv'
  <1>1. /\ TypeOK /\ NewcomersAreFree
        /\ v \in People \ users /\ users' = users \cup {v}
        /\ role' = [role EXCEPT ![v] = "TENANT_USER"]
        /\ active' = [active EXCEPT ![v] = TRUE]
        /\ member' = [member EXCEPT ![v] = {"MEMBER_POOL"}]
        /\ UNCHANGED <<phase, bootName, owners, custom, tenant, tenantGroup, request, raced>>
    BY DEF IInv, Register
  <1>2. users \subseteq People /\ owners \subseteq users /\ v \notin owners
    BY <1>1 DEF TypeOK
  <1>3. TypeOK'
    BY <1>1 DEF TypeOK, Roles, Groups, SystemGroups
  <1>4. /\ role'[v] = "TENANT_USER" /\ member'[v] = {"MEMBER_POOL"}
        /\ \A u \in People \ {v} :
              role'[u] = role[u] /\ active'[u] = active[u] /\ member'[u] = member[u]
    BY <1>1 DEF TypeOK
  <1>5. PoolRight({"MEMBER_POOL"}) /\ RoleRight({"MEMBER_POOL"}, "TENANT_USER")
    BY DEF PoolRight, RoleRight, Operational
  <1>6. (NewcomersAreFree /\ OwnersUsable /\ OwnerExists /\ MissingHaveNoGroup)'
    BY <1>1, <1>2, <1>4 DEF IInv, NewcomersAreFree, OwnersUsable, OwnerExists,
                            MissingHaveNoGroup, Administrators
  <1>7. (LegacyRight /\ TablesRight)'
    <2>1. ASSUME NEW u \in users' \ (owners \cup raced)
          PROVE  /\ member'[u] = {} \/ RoleRight(member'[u], role'[u])
                 /\ phase = "UP" => PoolRight(member'[u]) /\ RoleRight(member'[u], role'[u])
      <3>1. CASE u = v
        BY <1>4, <1>5, <3>1
      <3>2. CASE u # v
        <4>1. u \in users \ (owners \cup raced) /\ member'[u] = member[u] /\ role'[u] = role[u]
          BY <1>1, <1>2, <1>4, <3>2
        <4> QED
          BY <4>1 DEF IInv, LegacyRight, TablesRight
      <3> QED
        BY <3>1, <3>2
    <2> QED
      BY <1>1, <2>1 DEF IInv, LegacyRight, TablesRight
  <1>8. ASSUME NEW o \in Requests, (request[o].busy)'
        PROVE  /\ (phase = "UP" /\ owners # {})'
               /\ Local(request[o].change, request[o].targets)'
               /\ Grounded(request[o].change)'
               /\ LeavesRight(request[o].change)'
               /\ AskedByOwner(request[o].change, request[o].by)'
    <2> DEFINE d == request[o].change
               to == request[o].targets
    <2>1. /\ request'[o] = request[o] /\ phase' = "UP" /\ owners' # {}
          /\ d \in Change /\ Local(d, to) /\ Grounded(d) /\ LeavesRight(d)
          /\ AskedByOwner(d, request[o].by)
      BY <1>1, <1>8 DEF IInv, RequestsRight, TypeOK
    <2>2. /\ request'[o].change = d /\ request'[o].targets = to
          /\ request'[o].by = request[o].by
      BY <2>1
    <2>3. /\ DOMAIN d.role \subseteq users /\ DOMAIN d.active \subseteq users
          /\ d.joins[v] = {} /\ d.leaves[v] \subseteq CustomGroups
      BY <1>1, <2>1 DEF Local, Grounded
    <2> HIDE DEF d, to
    <2>4. Local(request[o].change, request[o].targets)'
      BY <1>1, <2>1, <2>2 DEF Local
    <2>5. Grounded(request[o].change)'
      BY <1>1, <2>1, <2>2 DEF Grounded
    <2>6. ASSUME NEW u \in users' \ (owners \cup raced)
          PROVE  /\ PoolRight((member'[u] \cup d.joins[u]) \ d.leaves[u])
                 /\ RoleRight((member'[u] \cup d.joins[u]) \ d.leaves[u],
                              IF u \in DOMAIN d.role THEN d.role[u] ELSE role'[u])
      <3>1. CASE u = v
        <4>1. "MEMBER_POOL" \notin d.leaves[v]
          BY <2>3, NamesAssumption DEF SystemGroups
        <4>2. (member'[v] \cup d.joins[v]) \ d.leaves[v] = {"MEMBER_POOL"}
          BY <1>4, <2>3, <4>1
        <4>3. v \notin DOMAIN d.role
          BY <1>1, <2>3
        <4> QED
          BY <1>4, <1>5, <3>1, <4>2, <4>3
      <3>2. CASE u # v
        <4>1. u \in users \ (owners \cup raced) /\ member'[u] = member[u] /\ role'[u] = role[u]
          BY <1>1, <1>2, <1>4, <3>2
        <4> QED
          BY <2>1, <4>1 DEF LeavesRight, NewGroups, NewRole
      <3> QED
        BY <3>1, <3>2
    <2>7. LeavesRight(request[o].change)'
      <3>1. \A u \in (users \ (owners \cup raced))' :
               PoolRight(NewGroups(request[o].change, u))'
               /\ RoleRight(NewGroups(request[o].change, u), NewRole(request[o].change, u))'
        BY <1>1, <2>2, <2>6 DEF NewGroups, NewRole
      <3>2. \A t \in (Tenants \ raced)' :
               NewTenantGroup(request[o].change, t)' = NewTenant(request[o].change, t)'
        BY <1>1, <2>1, <2>2 DEF LeavesRight, NewTenant, NewTenantGroup
      <3> QED
        BY <3>1, <3>2 DEF LeavesRight, NewGroups, NewRole, NewTenant, NewTenantGroup
    <2>8. AskedByOwner(request[o].change, request[o].by)'
      <3>1. \A u \in DOMAIN d.role \cup DOMAIN d.active : role'[u] = role[u]
        BY <1>1, <1>2, <1>4, <2>3
      <3> QED
        BY <1>1, <2>1, <2>2, <3>1 DEF AskedByOwner
    <2> QED
      BY <2>1, <2>4, <2>5, <2>7, <2>8
  <1>9. RequestsRight'
    BY <1>8 DEF RequestsRight
  <1>10. OverlapsAreRaced'
    BY <1>1 DEF IInv, OverlapsAreRaced
  <1> QED
    BY <1>3, <1>6, <1>7, <1>9, <1>10 DEF IInv

-----------------------------------------------------------------------------
(* Start-up *)

\* Before requests are served none is in flight.
LEMMA NoRequestYet ==
    ASSUME IInv, phase # "UP", UNCHANGED request
    PROVE  RequestsRight' /\ OverlapsAreRaced'
  BY DEF IInv, RequestsRight, OverlapsAreRaced

\* The bootstrap administrator is created as an Owner.
LEMMA SeedKeepsRight ==
    ASSUME IInv, NEW n \in BootNames, EnsureBootstrapAdmin(n)
    PROVE  IInv'
  <1>1. /\ TypeOK /\ phase = "DOWN" /\ phase' = "SEEDED" /\ bootName' = n
        /\ UNCHANGED <<member, custom, tenant, tenantGroup, request, raced>>
    BY DEF IInv, EnsureBootstrapAdmin
  <1>2. n \in People \cup {NoName}
    BY NamesAssumption
  <1>3. RequestsRight' /\ OverlapsAreRaced'
    BY <1>1, NoRequestYet
  <1>4. (TablesRight /\ OwnerExists /\ MissingHaveNoGroup)'
    BY <1>1 DEF IInv, TablesRight, OwnerExists, MissingHaveNoGroup
  <1>5. CASE n = NoName \/ n \in users
    <2>1. UNCHANGED <<users, role, active, owners>>
      BY <1>5 DEF EnsureBootstrapAdmin
    <2>2. TypeOK' /\ (NewcomersAreFree /\ OwnersUsable /\ LegacyRight)'
      BY <1>1, <1>2, <2>1 DEF IInv, TypeOK, NewcomersAreFree, OwnersUsable, LegacyRight
    <2> QED
      BY <1>3, <1>4, <2>2 DEF IInv
  <1>6. CASE n \in People \ users
    <2>1. /\ users' = users \cup {n} /\ owners' = owners \cup {n}
          /\ role' = [role EXCEPT ![n] = "ADMIN"] /\ active' = [active EXCEPT ![n] = TRUE]
      BY <1>6, NamesAssumption DEF EnsureBootstrapAdmin
    <2>2. TypeOK'
      BY <1>1, <1>2, <1>6, <2>1 DEF TypeOK, Roles
    <2>3. (NewcomersAreFree /\ OwnersUsable /\ LegacyRight)'
      BY <1>1, <1>6, <2>1 DEF IInv, TypeOK, NewcomersAreFree, OwnersUsable, LegacyRight
    <2> QED
      BY <1>3, <1>4, <2>2, <2>3 DEF IInv
  <1> QED
    BY <1>2, <1>5, <1>6

\* An Owner is found or kept, and made usable.
LEMMA OwnKeepsRight ==
    ASSUME IInv, EnsureSingleOwner
    PROVE  IInv'
  <1>1. /\ TypeOK /\ phase = "SEEDED" /\ phase' = "OWNED"
        /\ UNCHANGED <<bootName, users, member, custom, tenant, tenantGroup, request, raced>>
    BY DEF IInv, EnsureSingleOwner
  <1>2. RequestsRight' /\ OverlapsAreRaced'
    BY <1>1, NoRequestYet
  <1>3. (TablesRight /\ NewcomersAreFree /\ MissingHaveNoGroup)'
    BY <1>1 DEF IInv, TablesRight, NewcomersAreFree, MissingHaveNoGroup
  <1>4. CASE OwnerCandidates = {} /\ UNCHANGED <<role, active, owners>>
    <2>1. Administrators = {} /\ Administrators' = Administrators
      BY <1>1, <1>4 DEF OwnerCandidates, Administrators
    <2>2. OwnerExists'
      BY <2>1 DEF OwnerExists
    <2>3. TypeOK' /\ (OwnersUsable /\ LegacyRight)'
      BY <1>1, <1>4 DEF IInv, TypeOK, OwnersUsable, LegacyRight
    <2> QED
      BY <1>2, <1>3, <2>2, <2>3 DEF IInv
  <1>5. ASSUME NEW o \in OwnerCandidates, owners' = owners \cup {o},
               role' = [role EXCEPT ![o] = "ADMIN"], active' = [active EXCEPT ![o] = TRUE]
        PROVE  IInv'
    <2>1. o \in users
      BY <1>1 DEF OwnerCandidates, Administrators, TypeOK
    <2>2. TypeOK'
      BY <1>1, <1>5, <2>1 DEF TypeOK, Roles
    <2>3. OwnerExists'
      BY <1>5 DEF OwnerExists
    <2>4. (OwnersUsable /\ LegacyRight)'
      BY <1>1, <1>5, <2>1 DEF IInv, TypeOK, OwnersUsable, LegacyRight
    <2> QED
      BY <1>2, <1>3, <2>2, <2>3, <2>4 DEF IInv
  <1> QED
    BY <1>4, <1>5 DEF EnsureSingleOwner

\* What start-up leaves, whatever it found.
LEMMA GroupModelMends ==
    ASSUME IInv, EnsureGroupModel
    PROVE  /\ member' \in [People -> SUBSET Groups] /\ tenantGroup' = tenant
           /\ \A u \in People \ (users \ owners) : member'[u] = member[u]
           /\ \A u \in users \ owners :
                 /\ PoolRight(member'[u])
                 /\ u \notin raced => RoleRight(member'[u], role[u])
  <1>1. /\ TypeOK
        /\ tenantGroup' = Overwritten(tenantGroup, Synced(Tenants, tenant))
        /\ member' = [u \in People |-> IF u \in users \ owners THEN Home(u) ELSE member[u]]
    BY DEF IInv, EnsureGroupModel
  <1>2. tenantGroup' = tenant
    <2> DEFINE g == Synced(Tenants, tenant)
    <2>1. /\ tenant \in [Tenants -> TenantStates] /\ tenantGroup \in [Tenants -> TenantStates]
          /\ Tenants \in SUBSET Tenants
      BY <1>1 DEF TypeOK
    <2>2. /\ g \in Columns(Tenants, TenantStates)
          /\ \A t : t \in DOMAIN g
                      <=> t \in Tenants /\ tenant[t] # "NONE" /\ tenantGroup[t] # tenant[t]
          /\ \A t \in DOMAIN g : g[t] = tenant[t]
      BY <1>1, <2>1, SyncedColumn
    <2> HIDE DEF g
    <2>3. /\ Overwritten(tenantGroup, g) \in [Tenants -> TenantStates]
          /\ \A t \in Tenants : Overwritten(tenantGroup, g)[t]
                 = IF t \in DOMAIN g THEN g[t] ELSE tenantGroup[t]
      BY <2>1, <2>2, OverwrittenColumn
    <2>4. \A t \in Tenants : Overwritten(tenantGroup, g)[t] = tenant[t]
      BY <2>2, <2>3 DEF IInv, MissingHaveNoGroup
    <2> QED
      BY <1>1, <2>1, <2>3, <2>4 DEF g
  <1>3. \A u \in People : Home(u) \in SUBSET Groups
    BY <1>1 DEF Home, PoolJoins, TypeOK, Groups, SystemGroups
  <1>4. ASSUME NEW u \in users \ owners
        PROVE  /\ PoolRight(Home(u))
               /\ u \notin raced => RoleRight(Home(u), role[u])
    <2>1. CASE member[u] = {} /\ role[u] = "ADMIN"
      BY <2>1 DEF Home, PoolRight, RoleRight, Operational
    <2>2. CASE ~(member[u] = {} /\ role[u] = "ADMIN")
      <3>1. Home(u) = (member[u] \cup PoolJoins(member[u])) \ PoolLeaves(member[u])
        BY <2>2 DEF Home
      <3>2. member[u] \ {} = member[u] /\ {} \cup PoolLeaves(member[u]) = PoolLeaves(member[u])
        OBVIOUS
      <3>3. /\ PoolRight(Home(u))
            /\ "RELEASE_MANAGERS" \in Home(u) <=> "RELEASE_MANAGERS" \in member[u]
        BY <3>1, <3>2, ReconciledIsRight
      <3>4. u \notin raced => RoleRight(member[u], role[u])
        BY <2>2 DEF IInv, LegacyRight, RoleRight
      <3> QED
        BY <3>3, <3>4 DEF RoleRight
    <2> QED
      BY <2>1, <2>2
  <1>5. users \subseteq People /\ member \in [People -> SUBSET Groups]
    BY <1>1 DEF TypeOK
  <1> QED
    BY <1>1, <1>2, <1>3, <1>4, <1>5

\* Start-up's last commit.
LEMMA GroupModelKeepsRight ==
    ASSUME IInv, EnsureGroupModel
    PROVE  IInv'
  <1>1. /\ TypeOK /\ phase = "OWNED" /\ phase' = "UP"
        /\ UNCHANGED <<bootName, users, role, active, owners, custom, tenant, request, raced>>
    BY DEF IInv, EnsureGroupModel
  <1>2. /\ member' \in [People -> SUBSET Groups] /\ tenantGroup' = tenant
        /\ \A u \in People \ (users \ owners) : member'[u] = member[u]
        /\ \A u \in users \ owners :
              PoolRight(member'[u]) /\ (u \notin raced => RoleRight(member'[u], role[u]))
    BY GroupModelMends
  <1>3. RequestsRight' /\ OverlapsAreRaced'
    BY <1>1, NoRequestYet
  <1>4. TypeOK'
    BY <1>1, <1>2 DEF TypeOK
  <1>5. (NewcomersAreFree /\ OwnersUsable /\ OwnerExists /\ MissingHaveNoGroup)'
    BY <1>1, <1>2 DEF IInv, NewcomersAreFree, OwnersUsable, OwnerExists, MissingHaveNoGroup,
                      Administrators
  <1>6. (LegacyRight /\ TablesRight)'
    BY <1>1, <1>2 DEF LegacyRight, TablesRight
  <1> QED
    BY <1>3, <1>4, <1>5, <1>6 DEF IInv

-----------------------------------------------------------------------------
(* The theorems *)

\* The second fact: every step keeps it.
LEMMA NextKeepsRight ==
    ASSUME IInv, [Next]_vars
    PROVE  IInv'
  <1>1. ASSUME NEW n \in BootNames, EnsureBootstrapAdmin(n) PROVE IInv'
    BY <1>1, SeedKeepsRight
  <1>2. CASE EnsureSingleOwner
    BY <1>2, OwnKeepsRight
  <1>3. CASE EnsureGroupModel
    BY <1>3, GroupModelKeepsRight
  <1>4. CASE Crash
    BY <1>4, CrashKeepsRight
  <1>5. ASSUME NEW u \in People, Register(u) PROVE IInv'
    BY <1>5, RegisterKeepsRight
  <1>6. ASSUME NEW r \in Requests, NEW a \in users, NEW k \in Asks, Handle(r, a, k) PROVE IInv'
    BY <1>6, AsksAssumption, BeginKeepsRight
  <1>7. ASSUME NEW r \in Requests, Commit(r) PROVE IInv'
    BY <1>7, CommitKeepsRight
  <1>8. ASSUME NEW r \in Requests, Fail(r) PROVE IInv'
    BY <1>8, FailKeepsRight
  <1>9. CASE UNCHANGED vars
    <2>1. request' \in [Requests -> Pending]
      BY <1>9 DEF vars, IInv, TypeOK, Pending
    <2> QED
      BY <1>9, <2>1, QuietStep DEF vars
  <1> QED
    BY <1>1, <1>2, <1>3, <1>4, <1>5, <1>6, <1>7, <1>8, <1>9 DEF Next

\* The inductive invariant holds in every state.
THEOREM InvariantHolds == Spec => []IInv
  BY InitIsRight, NextKeepsRight, PTL DEF Spec

\* Accounts, memberships, groups, tenants and the requests in flight keep their types.
THEOREM GroupTypeCorrect == Spec => []TypeOK
  <1>1. IInv => TypeOK
    BY DEF IInv
  <1> QED
    BY <1>1, InvariantHolds, PTL

\* A recovery account always exists: whatever requests and restarts came before, every
\* Owner is an active administrator while requests are served, and there is one as
\* soon as anybody is an administrator.
THEOREM OwnerAlwaysUsable == Spec => []OwnerStaysUsable
  <1>1. IInv => OwnerStaysUsable
    BY DEF IInv, OwnersUsable, OwnerExists, OwnerStaysUsable, Served
  <1> QED
    BY <1>1, InvariantHolds, PTL

\* However administrators' requests, sign-ups and restarts interleave, a user is in the
\* Member Pool exactly while no group holds them, unless two requests in flight at once
\* worked on this user.
THEOREM PoolAlwaysRight == Spec => []PoolIffUnassigned
  <1>1. IInv => PoolIffUnassigned
    BY DEF IInv, TablesRight, PoolRight, PoolIffUnassigned, InPoolIffUnassigned, Served
  <1> QED
    BY <1>1, InvariantHolds, PTL

\* The legacy role and the Release Managers group agree about every user no two
\* requests worked on at once.
THEOREM RoleAlwaysFollowsGroup == Spec => []RoleFollowsGroup
  <1>1. IInv => RoleFollowsGroup
    BY DEF IInv, TablesRight, RoleRight, RoleFollowsGroup, Served
  <1> QED
    BY <1>1, InvariantHolds, PTL

\* A tenant's subgroup is active exactly while its tenant is, unless two requests
\* worked on the tenant at once.
THEOREM SubgroupAlwaysMirrorsTenant == Spec => []TenantGroupMirrorsTenant
  <1>1. IInv => TenantGroupMirrorsTenant
    BY DEF IInv, TablesRight, TenantGroupMirrorsTenant, Served
  <1> QED
    BY <1>1, InvariantHolds, PTL

\* The last step of start-up leaves every user's pool membership and every subgroup
\* right, also those that overlapping requests had left wrong.
THEOREM StartUpAlwaysRepairs == Spec => StartUpRepairs
  <1>1. ASSUME IInv, [Next]_vars, phase = "OWNED", phase' = "UP"
        PROVE  /\ \A u \in users' \ owners' : InPoolIffUnassigned(u)'
               /\ tenantGroup' = tenant'
    <2>1. EnsureGroupModel
      BY <1>1 DEF Next, vars, EnsureBootstrapAdmin, EnsureSingleOwner, Crash, Register, Handle,
                  Commit, Fail
    <2>2. users' = users /\ owners' = owners /\ tenant' = tenant
      BY <2>1 DEF EnsureGroupModel
    <2>3. tenantGroup' = tenant /\ \A u \in users \ owners : PoolRight(member'[u])
      BY <1>1, <2>1, GroupModelMends
    <2> QED
      BY <2>2, <2>3 DEF InPoolIffUnassigned, PoolRight
  <1>2. IInv /\ [Next]_vars =>
           [phase = "OWNED" /\ phase' = "UP" =>
              /\ \A u \in users' \ owners' : InPoolIffUnassigned(u)'
              /\ tenantGroup' = tenant']_vars
    BY <1>1
  <1> QED
    BY <1>2, InvariantHolds, PTL DEF Spec, StartUpRepairs

\* While requests are served, an account becomes an administrator or stops being one
\* only by the commit of an Owner's request, and no Owner ever stops being one; accounts
\* two requests worked on at once are left out.
THEOREM OnlyOwnersChangeAdmins == Spec => OnlyTheOwnerChangesAdmins
  <1> DEFINE ByOwner(u) ==
               /\ u \notin owners
               /\ \E r \in Requests : request[r].busy /\ ~request'[r].busy
                                     /\ request[r].by \in owners
  <1>1. ASSUME IInv, [Next]_vars, NEW u \in users \ raced, phase = "UP",
               ActiveAdmin(u) # ActiveAdmin(u)'
        PROVE  ByOwner(u)
    <2>1. users \subseteq People /\ role \in [People -> Roles] /\ active \in [People -> BOOLEAN]
      BY <1>1 DEF IInv, TypeOK
    <2>2. ~(UNCHANGED <<users, role, active>>)
      BY <1>1 DEF ActiveAdmin
    <2>3. ASSUME NEW v \in People, Register(v) PROVE FALSE
      <3>1. u # v /\ u \in users'
        BY <2>3 DEF Register
      <3>2. role'[u] = role[u] /\ active'[u] = active[u]
        BY <2>1, <2>3, <3>1 DEF Register
      <3> QED
        BY <1>1, <3>1, <3>2 DEF ActiveAdmin
    <2>4. PICK r \in Requests : Commit(r)
      <3>1. ASSUME NEW r \in Requests, NEW a \in users, NEW k \in Asks, Handle(r, a, k)
            PROVE  UNCHANGED tables
        <4>1. \E targets \in SUBSET (People \cup Tenants), c \in Change :
                 Begin(r, a, targets, c)
          BY <1>1, <3>1, AsksAssumption, HandledIsGood DEF IInv
        <4> QED
          BY <4>1 DEF Begin
      <3>2. ~(UNCHANGED tables)
        BY <2>2 DEF tables
      <3>3. /\ ~EnsureSingleOwner /\ ~EnsureGroupModel
            /\ \A n \in BootNames : ~EnsureBootstrapAdmin(n)
        BY <1>1 DEF EnsureBootstrapAdmin, EnsureSingleOwner, EnsureGroupModel
      <3>4. ~Crash /\ (\A r \in Requests : ~Fail(r)) /\ ~(UNCHANGED vars)
        BY <3>2 DEF Crash, Fail, vars
      <3> QED
        BY <1>1, <2>3, <3>1, <3>2, <3>3, <3>4 DEF Next
    <2> DEFINE c == request[r].change
    <2>5. /\ request[r].busy /\ users' = users
          /\ role' = Overwritten(role, c.role) /\ active' = Overwritten(active, c.active)
          /\ request' = [request EXCEPT ![r] = Idle]
      BY <2>4 DEF Commit
    <2>6. /\ Local(c, request[r].targets) /\ AskedByOwner(c, request[r].by)
          /\ c \in Change /\ request \in [Requests -> Pending]
      BY <1>1, <2>5 DEF IInv, RequestsRight, TypeOK, Pending
    <2>7. ~request'[r].busy
      BY <2>5, <2>6, IdleType
    <2> HIDE DEF c
    <2>8. c.role \in Columns(People, Roles) /\ c.active \in Columns(People, BOOLEAN)
      BY <2>6, ChangeParts
    <2>9. /\ role'[u] = IF u \in DOMAIN c.role THEN c.role[u] ELSE role[u]
          /\ active'[u] = IF u \in DOMAIN c.active THEN c.active[u] ELSE active[u]
      BY <2>1, <2>5, <2>8, OverwrittenColumn
    <2>10. u \in DOMAIN c.role \cup DOMAIN c.active
      BY <1>1, <2>5, <2>9 DEF ActiveAdmin
    <2>11. u \notin owners
      BY <2>6, <2>10 DEF Local
    <2>12. request[r].by \in owners
      <3>1. CASE u \notin DOMAIN c.role /\ role[u] # "ADMIN"
        BY <1>1, <2>5, <2>9, <3>1 DEF ActiveAdmin
      <3>2. CASE ~(u \notin DOMAIN c.role /\ role[u] # "ADMIN")
        BY <2>6, <2>10, <3>2 DEF AskedByOwner
      <3> QED
        BY <3>1, <3>2
    <2> QED
      BY <2>5, <2>7, <2>11, <2>12
  <1>2. IInv /\ [Next]_vars =>
           [\A u \in users \ raced :
               Served /\ (ActiveAdmin(u) # ActiveAdmin(u)') => ByOwner(u)]_vars
    BY <1>1 DEF Served
  <1> QED
    BY <1>2, InvariantHolds, PTL DEF Spec, OnlyTheOwnerChangesAdmins
=============================================================================
