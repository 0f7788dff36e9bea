SPECIFICATION Spec
CONSTANTS
  j1 = j1
  j2 = j2
  c1 = c1
  c2 = c2
  c3 = c3
  w1 = w1
  w2 = w2
  Contents = {c1, c2, c3}
  Git <- NoClone
  Head <- NoHead
  Work <- Files
  Hash <- OwnId
  Jobs = {j1}
  Arch <- OneJob
  Name <- OwnFile
PROPERTIES RemovedOnPurpose
