CONSTANTS
  c1 = c1  c2 = c2  u1 = u1  u2 = u2  m1 = m1  m2 = m2
  Conn = {c1, c2}
  User = {u1}
  Mail = {m1}
  Mailbox <- NoMail
  Size <- Short
  MaxMails = 2
  FdLimit = 6
  ItemsMax = 7
  WriteLimit = 6
  FileLimit = 1
  ReplyLen = 1
  LineLen = 5
  EndLen = 1
  TermLen = 2
  Word = 4
  Faults = TRUE
  Requests <- LongReplies
  ErrorsLeft = {"OTHER"}
  NoConn = NoConn  NoUser = NoUser  NoArg = NoArg  Wrong = Wrong  Huge = Huge
  ClientsRead = TRUE
SPECIFICATION FairLoop
INVARIANT NoStaleReadiness
PROPERTIES CommandCompletes QuitCloses NobodyStarves
CHECK_DEADLOCK FALSE
