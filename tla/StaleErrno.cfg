CONSTANTS
  c1 = c1  c2 = c2  u1 = u1  u2 = u2  m1 = m1  m2 = m2
  Conn = {c1, c2}
  User = {u1, u2}
  Mail = {m1}
  Mailbox <- OneMail
  Size <- Short
  MaxMails = 2
  FdLimit = 5
  ItemsMax = 7
  WriteLimit = 6
  FileLimit = 2
  ReplyLen = 1
  LineLen = 2
  EndLen = 1
  TermLen = 2
  Word = 4
  Faults = TRUE
  Requests <- HugeRetr
  ErrorsLeft = {"OTHER"}
  NoConn = NoConn  NoUser = NoUser  NoArg = NoArg  Wrong = Wrong  Huge = Huge
SPECIFICATION Spec
INVARIANT SessionFreed
CHECK_DEADLOCK FALSE
