CONSTANTS
  c1 = c1  c2 = c2  u1 = u1  u2 = u2  m1 = m1  m2 = m2
  Conn = {c1}
  User = {u1}
  Mail = {m1}
  Mailbox <- OneMail
  Size <- Medium
  MaxMails = 2
  FdLimit = 3
  ItemsMax = 2
  WriteLimit = 9
  FileLimit = 2
  ReplyLen = 1
  LineLen = 5
  EndLen = 1
  TermLen = 2
  Word = 4
  Faults = TRUE
  Requests <- RetrOnly
  ErrorsLeft = {"OTHER"}
  NoConn = NoConn  NoUser = NoUser  NoArg = NoArg  Wrong = Wrong  Huge = Huge
SPECIFICATION Spec
INVARIANT OneInterest
CHECK_DEADLOCK FALSE
