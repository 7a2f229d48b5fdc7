SPECIFICATION Spec
CONSTANTS
    search = search
    detail = detail
    admin = admin
    member = member
    memberHeading = memberHeading
    balance = balance
    memberId = memberId
    notFound = notFound
    dialog = dialog
    transient = transient
    fatal = fatal
    Inputs = {member}
    Short = {}
    Names = {member}
    Identifiers = {member, balance, memberId}
    CapabilityName = memberId
    Headings = {memberHeading}
    Heads <- MCHeads
    Mentions <- MCMentions
    Objects = {"none"}
    EntryUrl = {}
    Screens = {search, detail}
    Shown <- MCShown
    Outputs = {balance, memberId}
    Proposals <- MCProposals
    Gated = {"click"}
    Denied = {}
    Rules = {}
    Category <- MCCategory
    Recovery <- MCRecovery
    Echo <- MCEcho
    MaxSteps = 5
    StuckRepeats = 3
    MaxRejections = 3
    MaxDisturbances = 0
CHECK_DEADLOCK FALSE
INVARIANT
    FinishSavesArtifact
