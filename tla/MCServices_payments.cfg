SPECIFICATION MCSpec
CONSTANTS
    alice = alice
    bob = bob
    Creations = {1, 2, 3}
    Imported <- MCImported
    PaymentKey <- MCPaymentKey
    PaymentOrder <- MCPaymentOrder
    MaxChanges = 2
    OrderRequests = {1, 2, 3}
    Offers = {"a", "b"}
    OrderKey <- MCOrderKey
    OrderTenant <- MCOrderTenant
    OrderLines <- MCOrderLines
    AccountRequests = {1, 2, 3, 4, 5}
    Flow <- MCFlow
    TenantOf <- MCTenantOf
    EmailOf <- MCEmailOf
    Products = {4}
    Categories = {1, 2}
    Names = {"Shirt", "Shirt 3"}
    SlugOf <- MCSlugOf
    Existing <- MCExisting
    CatalogRequests = {1, 2, 3}
    ListRows = {1, 2, 3, 4}
    Limits = {1, 2}
    Sorts = {"desc", "asc"}
    MaxStamp = 2
    Buyers = {alice, bob}
    Wanted <- MCWanted
    Stocks <- MCStocks
    Processes = {1, 2}
    MaxFaults = 2
CHECK_DEADLOCK FALSE
INVARIANT CreationOrRefundCommits
