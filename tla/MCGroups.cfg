SPECIFICATION Spec
CONSTANTS
  root = root
  ann = ann
  t1 = t1
  c1 = c1
  r1 = r1
  r2 = r2
  NoName = NoName
  People = {root, ann}
  Tenants = {t1}
  CustomGroups = {c1}
  BootNames = {root, NoName}
  Requests = {r1, r2}
  Asks <- AllAsks
INVARIANTS
  OwnerStaysUsable
  PoolIffUnassigned
  RoleFollowsGroup
  TenantGroupMirrorsTenant
PROPERTIES
  StartUpRepairs
  OnlyTheOwnerChangesAdmins
SYMMETRY
  RequestSymmetry
