SPECIFICATION Spec
CONSTANTS
  a = a
  b = b
  t1 = t1
  t2 = t2
  Clients = {a, b}
  Threads = {t1, t2}
  Grants = {g1, g2}
  FirstGrant = g1
  None = None
  Lifetime = 1
  MaxTime = 2
  MaxGen = 1
  Owner <- OfTwo
  EnvJWT <- MCEnvJWT
INVARIANTS
  TypeOK
  FreshToken
  
