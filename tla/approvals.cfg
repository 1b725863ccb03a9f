\* Three operations over two request ids, two routes, two sessions.
SPECIFICATION FairSpec
CONSTANTS
  None = None
  Admin = Admin
  o1 = o1
  o2 = o2
  o3 = o3
  q1 = q1
  q2 = q2
  r1 = r1
  r2 = r2
  s1 = s1
  s2 = s2
  writes = writes
  shell = shell
  Op = {o1, o2, o3}
  RequestId = {q1, q2}
  Route = {r1, r2}
  Session = {s1, s2}
  Scope = {writes, shell}
  RequestOf <- Requests
  IdentityOf <- Identities
  ScopeOf <- Scopes
INVARIANTS
  GrantsAreDecided
PROPERTIES
  ImplementsPermission
  HandlersEnd
