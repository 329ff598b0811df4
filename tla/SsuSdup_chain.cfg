SPECIFICATION ShellSpec
CONSTANTS
  p1 = p1
  p2 = p2
  p3 = p3
  p4 = p4
  Pids <- MCPids
  Main = p1
  Nobody = Nobody
CHECK_DEADLOCK FALSE
INVARIANTS
  ShellTypeOK
  OneAtWork
  AllReaped
PROPERTY SomeoneReads
