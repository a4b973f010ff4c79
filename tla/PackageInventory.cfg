SPECIFICATION Spec
CONSTANTS
    a = a
    b = b
    None = None
    Names = {a, b}
    Needs <- MCNeeds
    Foreign = {b}
    MaxChanges = 2
INVARIANTS TypeOK IntentKept InventoryComplete HolderIsFree
PROPERTIES RecordsKept TransactionsEnd
