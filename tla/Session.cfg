SPECIFICATION LiveSessionSpec
CONSTANTS
    ada = ada
    ben = ben
    Nobody = Nobody
    User <- TwoUsers
    Refusable <- OnlyBen
    MaxRequests = 2
INVARIANTS
    AccountsHaveDocuments
    HomeIsOfUser
    OnlyStraysTrap
PROPERTIES
    DocumentsArrive
CHECK_DEADLOCK FALSE
