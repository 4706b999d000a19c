SPECIFICATION Spec
CONSTANTS
  MaxLen = 10
  Commands <- MCCommands
  Offsets <- MCOffsets
  Damage <- MCDamage
CHECK_DEADLOCK FALSE
INVARIANTS
  RunsTheCommand
  HostAndStubAgree
  OneVerdict
