CONSTANTS
    None = None
    e1 = e1
    owner = owner
    member = member
    MaxSize = 2
    Entities <- OneEntity
    States = {"on", "off"}
    Tokens <- TwoTokens
    Scope <- MemberScope
    Everywhere <- JustOwner
    AlarmReaders <- JustOwner
    Nudges = {"alarm_changed", "suggestions_changed"}
    Replies = {"pong"}
    Backlog = 0
    Renews = FALSE
SPECIFICATION FairSpec
INVARIANTS
    HeldBack
    AppInSync
PROPERTIES
    RevokedEnds
