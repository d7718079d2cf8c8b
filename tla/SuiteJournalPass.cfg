\* Three flows, one process id: may a checkpoint run exit PASS with a pending stage?
CONSTANTS
  N = 3
  p1 = p1
  p2 = p2
  v1 = v1
  v2 = v2
  in1 = in1
  in2 = in2
  Proc = {p1}
  Value = {v1}
  Version = {in1, in2}
  None = None
SPECIFICATION Spec
INVARIANT PassIsComplete
