SPECIFICATION FairSpec
CONSTANTS
    c1 = c1  c2 = c2  p1 = p1  p2 = p2  p3 = p3  p4 = p4  q1 = q1  q2 = q2  q3 = q3  q4 = q4
    d1 = d1  d2 = d2  None = None  OtherId = OtherId
    Cmds = {c1, c2}
    Pids = {p1, p2, p3, p4}
    Ports = {q1, q2, q3, q4}
    DefaultPort = q1
    StartPorts = {q1}
    Ops <- MCOps
    Dbs = {d1, d2}
    HomeDb = d1
    MaxStops = 1
    MaxFaults = 1
INVARIANTS ServerTypeOK Tracked TrustedIsOurs
PROPERTIES EventuallyServed
