SPECIFICATION Spec
CONSTANTS
    p1 = p1
    p2 = p2
    a1 = a1
    a2 = a2
    r1 = r1
    r2 = r2
    NoOne = NoOne
    NoAccount = NoAccount
    Persons = {p1, p2}
    Accounts = {a1, a2}
    Mailbox <- MailboxOfFirst
    Requests = {r1, r2}
    MaxSessions = 1
    MaxKeys = 1
    MaxLinks = 2
    MaxTokens = 3
SYMMETRY Symmetry
INVARIANTS
    CredentialsFollowPassword
    NoStrayRecovery
    LinksWorkOnce
PROPERTIES
    VerifiedByItsReader
    ConnectedAsAsked
CHECK_DEADLOCK FALSE
