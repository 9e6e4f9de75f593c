CONSTANTS
  c1 = c1  c2 = c2   u1 = u1  u2 = u2  m1 = m1  m2 = m2
  Conn = {c1, c2, c3}
  User = {u1, u2}
  Mail = {m1}
  Mailbox <- OneMail
  Size <- Empty
  MaxMails = 2
  FdLimit = 4
  ItemsMax = 7
  WriteLimit = 2
  FileLimit = 1
  ReplyLen = 1
  LineLen = 2
  EndLen = 1
  TermLen = 2
  Word = 4
  Faults = TRUE
  Requests <- TwoLogins
  ErrorsLeft = {"OTHER"}
  NoConn = NoConn  NoUser = NoUser  NoArg = NoArg  Wrong = Wrong  Huge = Huge
SYMMETRY SessionSymmetry
SPECIFICATION Spec
INVARIANT LockMatchesHolder
CHECK_DEADLOCK FALSE
