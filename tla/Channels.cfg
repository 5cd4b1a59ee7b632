SPECIFICATION MCSpec
CONSTANTS
    PollAdapters = {"telegram", "weixin", "weixin_token", "slack", "discord", "email"}
    PollChats <- MCChats
    MaxMessages = 3
    MaxLives = 2
    PageLimit = 1
    SeenLimit = 2
    PushAdapters = {"feishu", "dingtalk", "wecom", "qq"}
    PushChats = {"c1", "c2"}
    MaxPosts = 3
    MaxPushes = 2
    MaxPushLives = 2
    KnownLimit = 2
    FeishuMessages = {"m1", "m2", "m3"}
    HeadOf <- MCHeadOf
    FileNames = {"n"}
    MaxKeys <- MCMaxKeys
    Senders = {"telegram", "slack", "discord", "qq", "dingtalk", "email", "wecom", "weixin", "feishu"}
    MaxFiles = 2
    MaxChunks = 2
    MaxDeltas = 3
    Secrets = {"free", "right", "wrong", "missing"}
    MaxArrivals = 2
    MaxReplies = 2
    MaxFrames = 2
INVARIANTS
    NothingPassedOver
    EachPushCounted
    AttachmentsKept
    AnswersStayWhole
    NeverMute
PROPERTIES
    PollDelivers
    ChannelsKeepOrder
CHECK_DEADLOCK FALSE
