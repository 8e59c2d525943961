SPECIFICATION Spec
CONSTANTS
  r1 = r1
  r2 = r2
  p1 = p1
  p2 = p2
  Runs = {r1, r2}
  Projects = {p1, p2}
  NoProject = NoProject
  JobNames = {j1}
  NoName = NoName
  Names <- MCNames
  EnvProject <- MCEnvProject
  Outputs = {k1, k2}
INVARIANTS
  TypeOK
  
  
  OutputsKept
