CONSTANTS
  q1 = q1
  q2 = q2
  Questions = {q1}
  Seconds = {5}
  MsPerSecond = 3
  Modulus = 32
  DefaultTimeout = 3
  Deadline = 4
SPECIFICATION Spec
INVARIANT
  SettingsAreLoaded
