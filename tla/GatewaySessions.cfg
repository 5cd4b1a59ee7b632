SPECIFICATION Spec
CONSTANTS
  MaxMsgs = 5
  Chats = {"group"}
  ChatOf <- SessionsChatOf
  Users = {"ann", "bob"}
  SenderOf <- SessionsSenderOf
  KindOf <- SessionsKindOf
  Wants = {}
  MaxDeltas = 0
  Tasks = {t1, t2}
  Notify = {}
  MaxSub = 1
  None = None
INVARIANT
  ClosedSessionsRemembered
