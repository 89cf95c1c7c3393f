CONSTANTS
  p1 = p1
  p2 = p2
  m1 = m1
  m2 = m2
  NoMessage = NoMessage
  Redrives = {p1, p2}
  Messages = {m1, m2}
  MaxCount = 2
  Faults <- LinkFaults
SPECIFICATION FairSpec
PROPERTY Reports
