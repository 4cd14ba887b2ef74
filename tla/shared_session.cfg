SPECIFICATION FairSpec
CONSTANTS
  i1 = i1
  i2 = i2
  app1 = app1
  app2 = app2
  r1 = r1
  r2 = r2
  s1 = s1
  s2 = s2
  Info = {i1, i2}
  Identity = {app1, app2}
  NoIdentity = NoIdentity
  Resource = {r1, r2}
  Session = {s1, s2}
  NoSession = NoSession
INVARIANTS
  IInv
  SessionIsShared
  NothingForgotten
PROPERTIES
  SoleUserIsNamed
  DroppedThenSaved
