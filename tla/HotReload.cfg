SPECIFICATION FairSpec
CONSTANTS
    a1 = a1
    r1 = r1
    Unreadable = Unreadable
    NoPath = NoPath
    Config <- MCConfig
    Boot <- MCBoot
    Admins = {a1}
    Requests = {r1}
    Models <- MCModels
    ChannelCap = 1
    MaxHangups = 2
INVARIANTS NoPartialCommit FixedFieldsKept LimitsRecent
PROPERTIES PostAnswered HangupReadsFile
