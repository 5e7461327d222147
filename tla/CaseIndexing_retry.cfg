CONSTANTS
  Owners = {c1, c2}
  Hashes = {1, 2}
  NoClaim = NoClaim
  Absent = Absent
SPECIFICATION Spec
INVARIANTS
  FailedRemainsRetryable
