--------------------------- MODULE StartUpProofs ---------------------------
(* Proofs about StartUp, for any set of processes and any number of faults.   *)
(* As long as nothing is lost, exactly the process between AcquireLock and    *)
(* Unlock holds the advisory lock, so the revision an upgrade has read is     *)
(* still the present one; and a process that serves has seen the last table,  *)
(* which only the last revision makes.                                        *)
EXTENDS StartUp, TLAPS

\* The lock is held by one process at most: the one that works under it.
LockGuardsTheUpgrade ==
    faults = 0 =>
        /\ \A p \in Processes :
               p \in locked <=> starting[p] \in {"upgrade", "commit", "unlock"}
        /\ \A p, q \in locked : p = q

UpMeansHead == \A p \in Processes : starting[p] = "up" => revision = HeadRevision

StartUpInv ==
    /\ StartUpTypeOK
    /\ LockGuardsTheUpgrade
    /\ UpgradesDoNotCollide
    /\ UpMeansHead

USE StartUpAssumption

-----------------------------------------------------------------------------
(* The schema *)

\* The last revision is the first with a table of payments.
LEMMA PaymentsComeLast ==
    ASSUME NEW n \in 0..HeadRevision, "payments" \in TablesAt(n)
    PROVE  n = HeadRevision
  <1>1. PICK k \in 1..n : "payments" \in DOMAIN Migrations[k]
    BY DEF TablesAt
  <1>2. CASE k = 1
    BY <1>1, <1>2 DEF Migrations, InitTenantsUsers
  <1>3. CASE k = 2
    BY <1>1, <1>3 DEF Migrations, ProductsCategories
  <1>4. CASE k = 3
    BY <1>1, <1>4 DEF Migrations, ArchitectureUpgrade
  <1>5. CASE k = 4
    BY <1>1, <1>5 DEF Migrations, OutboxUpgrade
  <1>6. CASE k = 5
    BY <1>1, <1>6 DEF Migrations, OrdersMigration
  <1>7. CASE k = 6
    BY <1>7 DEF HeadRevision
  <1>8. QED
    BY <1>2, <1>3, <1>4, <1>5, <1>6, <1>7 DEF HeadRevision

\* The tables and the columns of a revision are there at the last one.
Kept(migration) ==
    \A t \in DOMAIN migration :
        /\ t \in TablesAt(HeadRevision)
        /\ migration[t] \subseteq ColumnsAt(HeadRevision, t)

LEMMA HeadHasAll ==
    /\ Kept(InitTenantsUsers) /\ Kept(ProductsCategories) /\ Kept(ArchitectureUpgrade)
    /\ Kept(OutboxUpgrade) /\ Kept(OrdersMigration) /\ Kept(PaymentsMigration)
  <1>1. \A k \in 1..HeadRevision : Kept(Migrations[k])
    BY DEF Kept, TablesAt, ColumnsAt
  <1>2. /\ Migrations[1] = InitTenantsUsers /\ Migrations[2] = ProductsCategories
        /\ Migrations[3] = ArchitectureUpgrade /\ Migrations[4] = OutboxUpgrade
        /\ Migrations[5] = OrdersMigration /\ Migrations[6] = PaymentsMigration
    BY DEF Migrations
  <1>3. \A k \in {1, 2, 3, 4, 5, 6} : k \in 1..HeadRevision
    BY DEF HeadRevision
  <1>4. QED
    BY <1>1, <1>2, <1>3

\* What the migrations owe a model: its table and, but for the ledger's, its columns.
Migrated(model, t) ==
    /\ t \in TablesAt(HeadRevision)
    /\ t # "inventory_transactions" => model[t] \subseteq ColumnsAt(HeadRevision, t)

\* Tenants and users.
LEMMA TenantsMigrated == \A t \in DOMAIN TenantModels : Migrated(TenantModels, t)
  <1>1. DOMAIN TenantModels = {"tenants", "users"}
    BY DEF TenantModels
  <1>2. Migrated(TenantModels, "tenants")
    <2>1. TenantModels["tenants"] \subseteq
             InitTenantsUsers["tenants"]
      BY DEF TenantModels, InitTenantsUsers
    <2>2. "tenants" \in DOMAIN InitTenantsUsers
      BY DEF InitTenantsUsers
    <2>3. QED
      BY <2>1, <2>2, HeadHasAll DEF Migrated, Kept
  <1>3. Migrated(TenantModels, "users")
    <2>1. TenantModels["users"] \subseteq
             InitTenantsUsers["users"]
             \union ArchitectureUpgrade["users"]
      BY DEF TenantModels, InitTenantsUsers, ArchitectureUpgrade
    <2>2. /\ "users" \in DOMAIN InitTenantsUsers
          /\ "users" \in DOMAIN ArchitectureUpgrade
      BY DEF InitTenantsUsers, ArchitectureUpgrade
    <2>3. QED
      BY <2>1, <2>2, HeadHasAll DEF Migrated, Kept
  <1>4. QED
    BY <1>1, <1>2, <1>3

\* Products, categories, variants and media.
LEMMA CatalogMigrated == \A t \in DOMAIN CatalogModels : Migrated(CatalogModels, t)
  <1>1. DOMAIN CatalogModels = {"categories", "products", "product_variants", "media"}
    BY DEF CatalogModels
  <1>2. Migrated(CatalogModels, "categories")
    <2>1. CatalogModels["categories"] \subseteq
             ProductsCategories["categories"]
             \union ArchitectureUpgrade["categories"]
      BY DEF CatalogModels, ProductsCategories, ArchitectureUpgrade
    <2>2. /\ "categories" \in DOMAIN ProductsCategories
          /\ "categories" \in DOMAIN ArchitectureUpgrade
      BY DEF ProductsCategories, ArchitectureUpgrade
    <2>3. QED
      BY <2>1, <2>2, HeadHasAll DEF Migrated, Kept
  <1>3. Migrated(CatalogModels, "products")
    <2>1. CatalogModels["products"] \subseteq
             ProductsCategories["products"]
             \union ArchitectureUpgrade["products"]
      BY DEF CatalogModels, ProductsCategories, ArchitectureUpgrade
    <2>2. /\ "products" \in DOMAIN ProductsCategories
          /\ "products" \in DOMAIN ArchitectureUpgrade
      BY DEF ProductsCategories, ArchitectureUpgrade
    <2>3. QED
      BY <2>1, <2>2, HeadHasAll DEF Migrated, Kept
  <1>4. Migrated(CatalogModels, "product_variants")
    <2>1. CatalogModels["product_variants"] \subseteq
             ProductsCategories["product_variants"]
             \union ArchitectureUpgrade["product_variants"]
      BY DEF CatalogModels, ProductsCategories, ArchitectureUpgrade
    <2>2. /\ "product_variants" \in DOMAIN ProductsCategories
          /\ "product_variants" \in DOMAIN ArchitectureUpgrade
      BY DEF ProductsCategories, ArchitectureUpgrade
    <2>3. QED
      BY <2>1, <2>2, HeadHasAll DEF Migrated, Kept
  <1>5. Migrated(CatalogModels, "media")
    <2>1. CatalogModels["media"] \subseteq
             ProductsCategories["media"]
             \union ArchitectureUpgrade["media"]
      BY DEF CatalogModels, ProductsCategories, ArchitectureUpgrade
    <2>2. /\ "media" \in DOMAIN ProductsCategories
          /\ "media" \in DOMAIN ArchitectureUpgrade
      BY DEF ProductsCategories, ArchitectureUpgrade
    <2>3. QED
      BY <2>1, <2>2, HeadHasAll DEF Migrated, Kept
  <1>6. QED
    BY <1>1, <1>2, <1>3, <1>4, <1>5

\* Prices.
LEMMA PricingMigrated == \A t \in DOMAIN PricingModels : Migrated(PricingModels, t)
  <1>1. DOMAIN PricingModels = {"product_pricing"}
    BY DEF PricingModels
  <1>2. Migrated(PricingModels, "product_pricing")
    <2>1. PricingModels["product_pricing"] \subseteq
             ProductsCategories["product_pricing"]
             \union ArchitectureUpgrade["product_pricing"]
      BY DEF PricingModels, ProductsCategories, ArchitectureUpgrade
    <2>2. /\ "product_pricing" \in DOMAIN ProductsCategories
          /\ "product_pricing" \in DOMAIN ArchitectureUpgrade
      BY DEF ProductsCategories, ArchitectureUpgrade
    <2>3. QED
      BY <2>1, <2>2, HeadHasAll DEF Migrated, Kept
  <1>3. QED
    BY <1>1, <1>2

\* The stock; of the ledger, the table.
LEMMA InventoryMigrated == \A t \in DOMAIN InventoryModels : Migrated(InventoryModels, t)
  <1>1. DOMAIN InventoryModels = {"product_inventory", "inventory_transactions"}
    BY DEF InventoryModels
  <1>2. Migrated(InventoryModels, "product_inventory")
    <2>1. InventoryModels["product_inventory"] \subseteq
             ProductsCategories["product_inventory"]
             \union ArchitectureUpgrade["product_inventory"]
      BY DEF InventoryModels, ProductsCategories, ArchitectureUpgrade
    <2>2. /\ "product_inventory" \in DOMAIN ProductsCategories
          /\ "product_inventory" \in DOMAIN ArchitectureUpgrade
      BY DEF ProductsCategories, ArchitectureUpgrade
    <2>3. QED
      BY <2>1, <2>2, HeadHasAll DEF Migrated, Kept
  <1>3. Migrated(InventoryModels, "inventory_transactions")
    <2>1. "inventory_transactions" \in DOMAIN ArchitectureUpgrade
      BY DEF ArchitectureUpgrade
    <2>2. QED
      BY <2>1, HeadHasAll DEF Migrated, Kept
  <1>4. QED
    BY <1>1, <1>2, <1>3

\* The outbox.
LEMMA OutboxMigrated == \A t \in DOMAIN OutboxModels : Migrated(OutboxModels, t)
  <1>1. DOMAIN OutboxModels = {"event_outbox"}
    BY DEF OutboxModels
  <1>2. Migrated(OutboxModels, "event_outbox")
    <2>1. OutboxModels["event_outbox"] \subseteq
             ArchitectureUpgrade["event_outbox"]
             \union OutboxUpgrade["event_outbox"]
      BY DEF OutboxModels, ArchitectureUpgrade, OutboxUpgrade
    <2>2. /\ "event_outbox" \in DOMAIN ArchitectureUpgrade
          /\ "event_outbox" \in DOMAIN OutboxUpgrade
      BY DEF ArchitectureUpgrade, OutboxUpgrade
    <2>3. QED
      BY <2>1, <2>2, HeadHasAll DEF Migrated, Kept
  <1>3. QED
    BY <1>1, <1>2

\* Orders and their lines.
LEMMA OrdersMigrated == \A t \in DOMAIN OrderModels : Migrated(OrderModels, t)
  <1>1. DOMAIN OrderModels = {"orders", "order_items"}
    BY DEF OrderModels
  <1>2. Migrated(OrderModels, "orders")
    <2>1. OrderModels["orders"] \subseteq
             OrdersMigration["orders"]
      BY DEF OrderModels, OrdersMigration
    <2>2. "orders" \in DOMAIN OrdersMigration
      BY DEF OrdersMigration
    <2>3. QED
      BY <2>1, <2>2, HeadHasAll DEF Migrated, Kept
  <1>3. Migrated(OrderModels, "order_items")
    <2>1. OrderModels["order_items"] \subseteq
             OrdersMigration["order_items"]
      BY DEF OrderModels, OrdersMigration
    <2>2. "order_items" \in DOMAIN OrdersMigration
      BY DEF OrdersMigration
    <2>3. QED
      BY <2>1, <2>2, HeadHasAll DEF Migrated, Kept
  <1>4. QED
    BY <1>1, <1>2, <1>3

\* Payments.
LEMMA PaymentsMigrated == \A t \in DOMAIN PaymentModels : Migrated(PaymentModels, t)
  <1>1. DOMAIN PaymentModels = {"payments"}
    BY DEF PaymentModels
  <1>2. Migrated(PaymentModels, "payments")
    <2>1. PaymentModels["payments"] \subseteq
             PaymentsMigration["payments"]
      BY DEF PaymentModels, PaymentsMigration
    <2>2. "payments" \in DOMAIN PaymentsMigration
      BY DEF PaymentsMigration
    <2>3. QED
      BY <2>1, <2>2, HeadHasAll DEF Migrated, Kept
  <1>3. QED
    BY <1>1, <1>2

\* At the last revision every table of the models is there with their columns.
LEMMA HeadIsMigrated ==
    /\ ModelTables \subseteq TablesAt(HeadRevision)
    /\ \A t \in ModelTables \ {"inventory_transactions"} : Missing(HeadRevision, t) = {}
  <1>1. \A k \in DOMAIN Models : \A t \in DOMAIN Models[k] : Migrated(Models[k], t)
    <2>1. DOMAIN Models = 1..7
      BY DEF Models
    <2>2. /\ Models[1] = TenantModels /\ Models[2] = CatalogModels
          /\ Models[3] = PricingModels /\ Models[4] = InventoryModels
          /\ Models[5] = OutboxModels /\ Models[6] = OrderModels
          /\ Models[7] = PaymentModels
      BY DEF Models
    <2>3. \A k \in 1..7 : k = 1 \/ k = 2 \/ k = 3 \/ k = 4 \/ k = 5 \/ k = 6 \/ k = 7
      OBVIOUS
    <2>4. QED
      BY <2>1, <2>2, <2>3, TenantsMigrated, CatalogMigrated, PricingMigrated,
         InventoryMigrated, OutboxMigrated, OrdersMigrated, PaymentsMigrated
  <1>2. QED
    BY <1>1 DEF ModelTables, Missing, Migrated

-----------------------------------------------------------------------------
(* The inductive invariant *)

\* The initial state satisfies the invariant.
LEMMA StartUpInitInv == StartUpInit => StartUpInv
  <1> SUFFICES ASSUME StartUpInit PROVE StartUpInv
    OBVIOUS
  <1>1. StartUpTypeOK
    BY DEF StartUpInit, StartUpTypeOK, HeadRevision
  <1>2. LockGuardsTheUpgrade /\ UpgradesDoNotCollide /\ UpMeansHead
    BY DEF StartUpInit, LockGuardsTheUpgrade, UpgradesDoNotCollide, UpMeansHead
  <1>3. QED
    BY <1>1, <1>2 DEF StartUpInv

\* Every step of a process keeps the invariant.
LEMMA ProcessKeepsInv ==
    ASSUME StartUpInv, NEW p \in Processes,
           \/ AcquireLock(p) \/ BeginUpgrade(p) \/ CommitUpgrade(p)
           \/ Unlock(p) \/ Verify(p) \/ Restart(p)
           \/ ProcessCrashes(p) \/ LockIsLost(p)
    PROVE  StartUpInv'
  <1> USE DEF StartUpInv, GoOn, LocksAfterCrash, LockIsFree
  <1>1. StartUpTypeOK'
    <2>1. HeadRevision \in 0..HeadRevision
      BY DEF HeadRevision
    <2>2. QED
      BY <2>1 DEF AcquireLock, BeginUpgrade, CommitUpgrade, Unlock, Verify, Restart,
                  ProcessCrashes, LockIsLost, StartUpTypeOK
  <1>2. CASE AcquireLock(p)
    <2>1. /\ locked = {} /\ locked' = {p} /\ starting'[p] \in {"upgrade", "unlock"}
          /\ \A q \in Processes \ {p} : starting'[q] = starting[q]
          /\ UNCHANGED <<revision, from, faults>>
      BY <1>2 DEF AcquireLock, StartUpTypeOK
    <2>2. QED
      BY <1>1, <2>1 DEF LockGuardsTheUpgrade, UpgradesDoNotCollide, UpMeansHead
  <1>3. CASE BeginUpgrade(p)
    <2>1. /\ starting[p] = "upgrade" /\ starting'[p] = "commit" /\ from'[p] = revision
          /\ \A q \in Processes \ {p} : starting'[q] = starting[q] /\ from'[q] = from[q]
          /\ UNCHANGED <<revision, locked, faults>>
      BY <1>3 DEF BeginUpgrade, StartUpTypeOK
    <2>2. QED
      BY <1>1, <2>1 DEF LockGuardsTheUpgrade, UpgradesDoNotCollide, UpMeansHead
  <1>4. CASE CommitUpgrade(p)
    <2>1. /\ starting[p] = "commit" /\ UNCHANGED <<from, faults>>
          /\ \A q \in Processes \ {p} : starting'[q] = starting[q]
          /\ revision = from[p] => /\ revision' = HeadRevision /\ starting'[p] = "unlock"
                                   /\ UNCHANGED locked
          /\ revision # from[p] => /\ revision' = revision /\ starting'[p] = "failed"
                                   /\ locked' = locked \ {p}
      BY <1>4 DEF CommitUpgrade, StartUpTypeOK
    <2>2. LockGuardsTheUpgrade' /\ UpMeansHead'
      BY <2>1 DEF LockGuardsTheUpgrade, UpMeansHead
    <2>3. UpgradesDoNotCollide'
      <3>1. ASSUME NEW q \in Processes, starting'[q] = "commit", faults' = 0
            PROVE  FALSE
        BY <2>1, <3>1 DEF LockGuardsTheUpgrade
      <3>2. QED
        BY <3>1 DEF UpgradesDoNotCollide
    <2>4. QED
      BY <1>1, <2>2, <2>3
  <1>5. CASE Unlock(p)
    <2>1. /\ starting[p] = "unlock" /\ starting'[p] \in {"verify", "failed"}
          /\ locked' = locked \ {p}
          /\ \A q \in Processes \ {p} : starting'[q] = starting[q]
          /\ UNCHANGED <<revision, from, faults>>
      BY <1>5 DEF Unlock, StartUpTypeOK
    <2>2. QED
      BY <1>1, <2>1 DEF LockGuardsTheUpgrade, UpgradesDoNotCollide, UpMeansHead
  <1>6. CASE Verify(p)
    <2>1. /\ starting[p] = "verify" /\ starting'[p] \in {"up", "failed"}
          /\ starting'[p] = "up" => SchemaVerified
          /\ \A q \in Processes \ {p} : starting'[q] = starting[q]
          /\ UNCHANGED <<revision, from, locked, faults>>
      BY <1>6 DEF Verify, StartUpTypeOK
    <2>2. SchemaVerified => revision = HeadRevision
      BY PaymentsComeLast DEF SchemaVerified, REQUIRED_TABLES, StartUpTypeOK
    <2>3. QED
      BY <1>1, <2>1, <2>2 DEF LockGuardsTheUpgrade, UpgradesDoNotCollide, UpMeansHead
  <1>7. CASE Restart(p)
    <2>1. /\ starting[p] = "failed" /\ starting'[p] = "lock"
          /\ \A q \in Processes \ {p} : starting'[q] = starting[q]
          /\ UNCHANGED <<revision, from, locked, faults>>
      BY <1>7 DEF Restart, StartUpTypeOK
    <2>2. QED
      BY <1>1, <2>1 DEF LockGuardsTheUpgrade, UpgradesDoNotCollide, UpMeansHead
  <1>8. CASE ProcessCrashes(p) \/ LockIsLost(p)
    <2>1. /\ faults' # 0 /\ UNCHANGED revision
          /\ \A q \in Processes : starting'[q] = "up" => starting[q] = "up"
      BY <1>8 DEF ProcessCrashes, LockIsLost, StartUpTypeOK
    <2>2. QED
      BY <1>1, <2>1 DEF LockGuardsTheUpgrade, UpgradesDoNotCollide, UpMeansHead
  <1>9. QED
    BY <1>2, <1>3, <1>4, <1>5, <1>6, <1>7, <1>8

\* The invariant holds in every reachable state.
LEMMA StartUpInvHolds == StartUpSpec => []StartUpInv
  <1>1. StartUpInv /\ [StartUpNext]_startUpVars => StartUpInv'
    <2> SUFFICES ASSUME StartUpInv, [StartUpNext]_startUpVars PROVE StartUpInv'
      OBVIOUS
    <2>1. CASE StartUpNext
      BY <2>1, ProcessKeepsInv DEF StartUpNext, StartStep
    <2>2. CASE UNCHANGED startUpVars
      BY <2>2 DEF startUpVars, StartUpInv, StartUpTypeOK, LockGuardsTheUpgrade,
                  UpgradesDoNotCollide, UpMeansHead
    <2>3. QED
      BY <2>1, <2>2
  <1>2. QED
    BY StartUpInitInv, <1>1, PTL DEF StartUpSpec

-----------------------------------------------------------------------------
(* Theorems *)

\* Every variable of the start keeps its type.
THEOREM StartUpTypeCorrect == StartUpSpec => []StartUpTypeOK
  <1>1. StartUpInv => StartUpTypeOK
    BY DEF StartUpInv
  <1>2. QED
    BY <1>1, StartUpInvHolds, PTL

\* However many processes start at once, no upgrade fails on the tables of
\* another while no connection or process is lost.
THEOREM NoCollision == StartUpSpec => []UpgradesDoNotCollide
  <1>1. StartUpInv => UpgradesDoNotCollide
    BY DEF StartUpInv
  <1>2. QED
    BY <1>1, StartUpInvHolds, PTL

\* A process serves only on a schema that has every table of the models and,
\* but for the ledger's, every column.
THEOREM UpIsMigrated == StartUpSpec => []UpMeansMigrated
  <1>1. StartUpInv => UpMeansMigrated
    BY HeadIsMigrated DEF StartUpInv, UpMeansHead, UpMeansMigrated
  <1>2. QED
    BY <1>1, StartUpInvHolds, PTL

=============================================================================
