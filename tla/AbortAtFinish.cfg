CONSTANTS
  c1 = c1  c2 = c2  u1 = u1  u2 = u2  m1 = m1  m2 = m2
  Conn = {c1}
  User = {u1}
  Mail = {m1}
  Mailbox <- OneMail
  Size <- Long
  MaxMails = 2
  FdLimit = 4
  ItemsMax = 7
  WriteLimit = 3
  FileLimit = 2
  ReplyLen = 1
  LineLen = 2
  EndLen = 1
  TermLen = 2
  Word = 4
  Faults = TRUE
  Requests <- RetrOnly
  ErrorsLeft = {"OTHER"}
  NoConn = NoConn  NoUser = NoUser  NoArg = NoArg  Wrong = Wrong  Huge = Huge
SPECIFICATION Spec
INVARIANT FinishFindsItsFile
CHECK_DEADLOCK FALSE
