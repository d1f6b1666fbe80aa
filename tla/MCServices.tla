----------------------------- MODULE MCServices -----------------------------
(* Small instances of the services, the pages and the start for TLC.  They   *)
(* share no state, so each behaviour runs one of them and the others stay in *)
(* an initial state.                                                         *)
EXTENDS Payments, OrderCreation, Accounts, Catalog, CursorPages, InventoryLedger,
        StartUp, TLC

VARIABLE running

CONSTANTS alice, bob

\* Request 2 repeats the key of a recorded payment, request 3 pays an order that
\* has an active one, and request 1 meets neither.
MCImported == 4 :> "pending" @@ 5 :> "paid" @@ 6 :> "authorized"
MCPaymentKey == <<"k", "m", "n", "x", "m", "z">>
MCPaymentOrder == <<"o", "o", "p", "p", "o", "q">>

\* Three requests share a key, one of them in another tenant.
MCItem(p, n) == [product |-> p, quantity |-> n]
MCOrderKey == <<"k", "k", "k">>
MCOrderTenant == <<"t", "t", "u">>
MCOrderLines == <<<<MCItem("a", 1), MCItem("b", 1)>>, <<MCItem("a", 1), MCItem("b", 1)>>,
                  <<MCItem("b", 2)>>>>

\* Bootstraps, a seed script and a registration meet on one email.
MCFlow == <<"bootstrap", "bootstrap", "seed", "register", "bootstrap">>
MCTenantOf == <<"t", "t", "t", "t", "u">>
MCEmailOf == <<alice, bob, alice, bob, alice>>

\* One name is the other with a suffix; category 2 is not there yet.
MCSlugOf == "Shirt" :> <<7>> @@ "Shirt 3" :> <<7, 3>>
MCExisting == 1 :> [name |-> "Shirt", parent |-> 0]
              @@ 4 :> [name |-> "Shirt 3", parent |-> 1]

MCWanted == alice :> 1 @@ bob :> 2
MCStocks == {-1, 2, 3}

Inits ==
    /\ PaymentsInit /\ OrderCreationInit /\ AccountsInit /\ CatalogInit
    /\ PagesInit /\ LedgerInit /\ StartUpInit

MCInit ==
    /\ Inits
    /\ running \in {"payments", "orders", "accounts", "catalog", "pages", "ledger", "start"}
    /\ running # "pages" => limit = 1 /\ sort = "desc"
    /\ running # "start" => revision = HeadRevision /\ \A p \in Processes : auto[p]

MCNext ==
    /\ UNCHANGED running
    /\ IF running = "payments" THEN PaymentsNext ELSE UNCHANGED paymentsVars
    /\ IF running = "orders" THEN OrderCreationNext ELSE UNCHANGED orderCreationVars
    /\ IF running = "accounts" THEN AccountsNext ELSE UNCHANGED accountsVars
    /\ IF running = "catalog" THEN CatalogNext ELSE UNCHANGED catalogVars
    /\ IF running = "pages" THEN PagesNext ELSE UNCHANGED pagesVars
    /\ IF running = "ledger" THEN LedgerNext ELSE UNCHANGED ledgerVars
    /\ IF running = "start" THEN StartUpNext ELSE UNCHANGED startUpVars

mcVars == <<running, paymentsVars, orderCreationVars, accountsVars, catalogVars,
            pagesVars, ledgerVars, startUpVars>>

MCFairness == \A p \in Processes :
    /\ WF_startUpVars(running = "start" /\ StartStep(p))
    /\ SF_startUpVars(running = "start" /\ AcquireLock(p))

MCSpec == MCInit /\ [][MCNext]_mcVars /\ MCFairness

\* Every variable has its type.
ServicesTypeOK ==
    /\ PaymentsTypeOK /\ OrderCreationTypeOK /\ AccountsTypeOK /\ CatalogTypeOK
    /\ PagesTypeOK /\ LedgerTypeOK /\ StartUpTypeOK

\* If one process may migrate, every process serves in the end.
StartedProcessesServe == running = "start" => EveryProcessServes

=============================================================================
