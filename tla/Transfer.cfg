CONSTANTS
  c1 = c1  c2 = c2  u1 = u1  u2 = u2  m1 = m1  m2 = m2
  Conn = {c1, c2}
  User = {u1, u2}
  Mail = {m1, m2}
  Mailbox <- OneMail
  Size <- Medium
  MaxMails = 2
  FdLimit = 6
  ItemsMax = 7
  WriteLimit = 9
  FileLimit = 2
  ReplyLen = 1
  LineLen = 5
  EndLen = 1
  TermLen = 2
  Word = 4
  Faults = TRUE
  Requests <- TransferRequests
  ErrorsLeft = {"OTHER"}
  NoConn = NoConn  NoUser = NoUser  NoArg = NoArg  Wrong = Wrong  Huge = Huge
SPECIFICATION Spec
INVARIANTS NeverHalts OneInterest FreshOutput SessionFreed LockMatchesHolder
  CountMatches
CHECK_DEADLOCK FALSE
