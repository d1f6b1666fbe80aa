------------------------------- MODULE Schema -------------------------------
(* The database schema as the migrations build it and as the models declare  *)
(* it: the columns of each table.  Types, defaults and indexes are left out. *)
EXTENDS Naturals

\* The mixins of the models.
Times == {"created_at", "updated_at"}
Removal == {"deleted_at", "is_active"}
Audit == {"created_by", "updated_by", "deleted_by"}
Lock == {"version_id"}
Tenant == {"tenant_id"}

-----------------------------------------------------------------------------
(* alembic/versions: the columns each revision adds, by table *)

InitTenantsUsers ==
    [tenants |-> {"id", "name", "slug"} \union Times,
     users |-> {"id", "email", "password_hash", "name"}
               \union Tenant \union Removal \union Times]

ProductsCategories ==
    [categories |-> {"id", "parent_id", "name", "slug", "description", "image",
                     "sort_order"} \union Tenant \union Removal \union Times,
     products |-> {"id", "category_id", "name", "slug", "description"}
                  \union Tenant \union Removal \union Times,
     product_pricing |-> {"product_id", "price", "compare_at_price", "cost_price"}
                         \union Tenant,
     product_inventory |-> {"product_id", "sku", "barcode", "quantity", "reserved_quantity"}
                           \union Tenant,
     product_variants |-> {"id", "product_id", "name", "sku", "price_override", "quantity"}
                          \union Tenant \union Times,
     media |-> {"id", "entity_type", "entity_id", "url", "alt", "sort_order"} \union Tenant]

ArchitectureUpgrade ==
    LET Versioned == {"products", "categories", "product_variants", "users"}
        Audited == Versioned \union {"product_pricing", "product_inventory", "media"}
    IN  [t \in Audited \union {"event_outbox", "inventory_transactions"} |->
            CASE t = "event_outbox" ->
                   {"id", "event_name", "payload", "status", "created_at", "processed_at"}
              [] t = "inventory_transactions" ->
                   {"id", "product_id", "variant_id", "type", "quantity_change",
                    "running_balance", "reference", "note", "created_by", "created_at"}
                   \union Tenant
              [] t \in Versioned -> Audit \union Lock \union {"public_id"}
              [] OTHER -> Audit]

OutboxUpgrade ==
    [event_outbox |-> {"retry_count", "last_error", "next_retry_at"},
     inventory_transactions |-> {"idempotency_key"}]

OrdersMigration ==
    [orders |-> {"id", "user_id", "status", "currency", "subtotal", "tax_amount",
                 "shipping_amount", "discount_amount", "total_amount", "notes",
                 "idempotency_key", "reservation_expires_at"}
                \union Tenant \union Lock \union Times \union Audit,
     order_items |-> {"id", "order_id", "product_id", "product_name_snapshot",
                      "sku_snapshot", "unit_price_snapshot", "quantity", "subtotal"}
                     \union Tenant]

PaymentsMigration ==
    [payments |-> {"id", "order_id", "amount", "currency", "status", "provider",
                   "provider_reference", "idempotency_key"}
                  \union Tenant \union Lock \union Times \union Audit]

Migrations == <<InitTenantsUsers, ProductsCategories, ArchitectureUpgrade,
                OutboxUpgrade, OrdersMigration, PaymentsMigration>>
HeadRevision == 6

\* The columns of a table after the first n revisions; none: no such table.
ColumnsAt(n, t) ==
    UNION {Migrations[k][t] : k \in {k \in 1..n : t \in DOMAIN Migrations[k]}}
TablesAt(n) == UNION {DOMAIN Migrations[k] : k \in 1..n}

-----------------------------------------------------------------------------
(* The models *)

TenantModels ==
    [tenants |-> {"id", "name", "slug"} \union Times,
     users |-> {"id", "public_id", "email", "password_hash", "name"}
               \union Times \union Removal \union Audit \union Lock \union Tenant]

CatalogModels ==
    [categories |-> {"id", "public_id", "parent_id", "name", "slug", "description",
                     "image", "sort_order"}
                    \union Times \union Removal \union Audit \union Lock \union Tenant,
     products |-> {"id", "public_id", "category_id", "name", "slug", "description"}
                  \union Times \union Removal \union Audit \union Lock \union Tenant,
     product_variants |-> {"id", "product_id", "public_id", "name", "sku",
                           "price_override", "quantity"}
                          \union Times \union Tenant \union Audit \union Lock,
     media |-> {"id", "entity_type", "entity_id", "url", "alt", "sort_order"}
               \union Tenant \union Audit]

PricingModels ==
    [product_pricing |-> {"product_id", "price", "compare_at_price", "cost_price"}
                         \union Tenant \union Audit]

InventoryModels ==
    [product_inventory |-> {"product_id", "sku", "barcode", "quantity",
                            "reserved_quantity"} \union Tenant \union Audit,
     inventory_transactions |-> {"id", "product_id", "variant_id", "type",
                                 "quantity_change", "running_balance", "reference",
                                 "note", "idempotency_key", "created_at"}
                                \union Tenant \union Audit]

OutboxModels ==
    [event_outbox |-> {"id", "event_name", "payload", "status", "retry_count",
                       "last_error", "next_retry_at", "created_at", "processed_at"}]

OrderModels ==
    [orders |-> {"id", "user_id", "status", "currency", "subtotal", "tax_amount",
                 "shipping_amount", "discount_amount", "total_amount", "notes",
                 "idempotency_key", "reservation_expires_at"}
                \union Times \union Tenant \union Audit \union Lock,
     order_items |-> {"id", "order_id", "product_id", "product_name_snapshot",
                      "sku_snapshot", "unit_price_snapshot", "quantity", "subtotal"}
                     \union Tenant]

PaymentModels ==
    [payments |-> {"id", "order_id", "amount", "currency", "status", "provider",
                   "provider_reference", "idempotency_key"}
                  \union Times \union Tenant \union Audit \union Lock]

Models == <<TenantModels, CatalogModels, PricingModels, InventoryModels, OutboxModels,
            OrderModels, PaymentModels>>
ModelTables == UNION {DOMAIN Models[k] : k \in DOMAIN Models}

\* The columns a model has and the table of its name has not.
Missing(n, t) ==
    (UNION {Models[k][t] : k \in {k \in DOMAIN Models : t \in DOMAIN Models[k]}})
    \ ColumnsAt(n, t)

=============================================================================
