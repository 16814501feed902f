SPECIFICATION Spec
CONSTANTS
  c1 = c1  c2 = c2  c3 = c3  p1 = p1  p2 = p2  p3 = p3
  o1 = o1  r1 = r1  r2 = r2  e1 = e1  e2 = e2
  Clones = {c1, c2}
  Procs = {p1, p2, p3}
  Home <- RaceHome
  Commands <- RaceCommands
  Usable = {c1, c2}
  Objects = {o1}
  HeadReach = {o1}
  Recs = {r1, r2}
  Entity <- RaceEntity
  Faults <- RaceFaults
  NoProc = NoProc
  MaxCommits = 3
  MaxAttempts = 1
INVARIANTS TypeOK NoLostAppend ReadIsCurrent HistoryGrows
PROPERTIES ImportAddsOnlyNew ImplementsLog
SYMMETRY RaceSymmetry
