CONSTANTS
    Clients = {"c1", "c2"}
    Shares = {g}
    NoShare = NoShare
    NoUser = NoUser
    Everyone = "@any"
    Filters <- MCFilters
    Topics <- MCTopics
    NoLocal <- MCNoLocal
    System <- MCSystem
    Accounts <- MCAccounts
    Groups <- MCGroups
    Credentials <- MCCredentials
    Entries <- MCEntries
    ResponseTopics <- MCResponseTopics
    MaxStored = 3
SPECIFICATION Spec
INVARIANTS SearchAgrees RetainedFound OneOfEachGroup FiltersMeet GrantsAreBacked
