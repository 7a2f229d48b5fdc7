SPECIFICATION Spec
CONSTANTS
    search = search
    detail = detail
    admin = admin
    member = member
    memberHeading = memberHeading
    balance = balance
    memberId = memberId
    notFound = notFound
    dialog = dialog
    transient = transient
    fatal = fatal
    Inputs = {member}
    Short = {}
    Names = {member}
    Identifiers = {member, balance, memberId}
    CapabilityName = memberId
    Headings = {memberHeading}
    Heads <- MCHeads
    Mentions <- MCMentions
    Objects = {"none"}
    EntryUrl = {}
    Screens = {search, detail}
    Shown <- MCShown
    Outputs = {balance, memberId}
    Proposals <- MCProposals
    Gated = {"click", "extract"}
    Denied = {}
    Rules = {dialog, notFound, transient, fatal}
    Category <- MCCategory
    Recovery <- MCRecovery
    Echo <- MCEcho
    MaxSteps = 4
    StuckRepeats = 2
    MaxRejections = 2
    MaxDisturbances = 1
CHECK_DEADLOCK FALSE
INVARIANTS
    GateNeedsApproval
    NoBlindRepetition
    PathUnlessTouched
    SoundRecordingIsValid
PROPERTIES
    DiscoveryReturns
