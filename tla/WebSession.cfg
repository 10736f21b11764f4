SPECIFICATION WebSpec
CONSTANTS
    Emails <- MCEmails
    Lower <- MCLower
    RootEmails <- MCRootEmails
    Logins <- MCLogins
    Requests = {r1, r2}
    MaxTokens = 3
SYMMETRY RequestSymmetry
INVARIANTS
    AccountsSound
    RotatedOnceUnlessShared
    StoredTokenWorks
PROPERTIES
    DroppedForCause
