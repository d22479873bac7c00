SPECIFICATION Spec
CONSTANTS
    MaxRequests = 3
    MaxFaults = 1
    UserIds = {1, 2}
    Usernames = {"ann", "bob"}
    Emails = {"ann@", "bob@"}
    Passwords = {"pw"}
    Clients = {1, 2}
    StoredUsers <- MCStoredUsers
    AccountIds = {1, 2, 3, 4}
    AccountNames = {"Default Account", "Savings"}
    StartDays = {1}
    GroupIds = {1}
    MemberLists = {{1, 2}}
    Openers = {1}
    Deliveries = {2, 3}
    StoredAccounts <- MCStoredAccounts
    States = {1, 2}
    Uids = {"x"}
    ConnectionIds = {1, 2}
    Callbacks = {1, 2}
    BreakdownSize = 2
    Documents <- MCDocuments
    Today <- MCToday
    StoredDocs <- MCStoredDocs
INVARIANTS FoundByOneName ConnectedAsAsked ReportsAgree SearchesCover
PROPERTIES EveryoneGetsAccount
CHECK_DEADLOCK FALSE
