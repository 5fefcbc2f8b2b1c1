CONSTANTS
  q1 = q1
  q2 = q2
  Questions <- MCQuestions
  Seconds = {7, 11}
  MsPerSecond = 3
  Modulus = 32
  DefaultTimeout = 3
  Deadline = 4
SPECIFICATION Spec
SYMMETRY MCSymmetry
INVARIANTS
  TypeOK
  LateOnlyBehindOthers
  DialogEndsInTime
PROPERTY
  LastsAsEntered
