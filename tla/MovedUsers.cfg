CONSTANTS
  c1 = c1  c2 = c2
  Conn = {c1, c2}
  Text <- Texts
  NumberOf <- NoNumbers
  LongMax = 9
  Chunk = 1
  Arrivals <- AddsAndChanges
  Start <- Beto
  StartMails = 1
  StartPath = "pass"
SPECIFICATION Spec
INVARIANT UsersInPlace
CHECK_DEADLOCK FALSE
