SPECIFICATION FairSpec
CONSTANTS
  MaxMsgs = 3
  Chats = {"chat"}
  ChatOf <- TurnsChatOf
  Users = {"ann"}
  SenderOf <- TurnsSenderOf
  KindOf <- TurnsKindOf
  Wants = {2, 3}
  MaxDeltas = 1
  Tasks = {t1, t2}
  Notify = {t1}
  MaxSub = 1
  None = None
INVARIANTS
  NothingLeftBehind
  StreamOfOneTurn
PROPERTIES
  AnsweredInOrder
  MessageServed
  SubagentNotifies
