SPECIFICATION Spec
CONSTANTS
  p1 = p1
  p2 = p2
  t1 = t1
  t2 = t2
  t3 = t3
  Procs = {p1, p2}
  Threads = {t1, t2, t3}
  Owner <- MCOwner
  Values = {v, w}
  Unset = unset
  Empty = empty
  Garbage = garbage
  Absent = absent
  CanCrash = TRUE
INVARIANTS
  TypeOK
  

  
