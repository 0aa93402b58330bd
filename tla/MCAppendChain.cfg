SPECIFICATION Spec
CONSTANTS
  c1 = c1
  c2 = c2
  c3 = c3
  Calls = {c1, c2}
  Streams = {s1, s2}
  s1 = s1
  s2 = s2
  alice = alice
  root = root
  k1 = k1
  k2 = k2
  any = any
  AnyStream = any
  NoRequest = NoRequest
  Scoped = {root}
  RequestsOf <- RootRequestsOf
  Grants = {1, 2, 3}
  GrantOf <- MCGrantOf
INVARIANTS
  ChainVerifies
