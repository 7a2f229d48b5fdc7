SPECIFICATION Spec
CONSTANTS
    Tabs = {t1, t2}
    Members = {m1, m2}
    Operators = {teller, supervisor}
    Supervisors = {supervisor}
    None = None
    Requests = {savings}
    MaxLogins = 1
    MaxEvents = 2
CHECK_DEADLOCK FALSE
SYMMETRY TabAndMemberSymmetry
INVARIANTS
    SubmissionOpensOnce
    ConfirmationIsOwn
    NoticeIsOneShot
    OneTabOpensWhatWasReviewed
