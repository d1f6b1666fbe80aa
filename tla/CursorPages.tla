---------------------------- MODULE CursorPages ----------------------------
(* A client reads a list page by page, each page from the cursor that the    *)
(* previous one gave it, while rows are inserted and soft-deleted.  A row is *)
(* stamped when its transaction begins and seen when it commits.             *)
EXTENDS Naturals, FiniteSets

CONSTANTS
    ListRows,   \* ids, in their order as UUIDs
    Limits,     \* page sizes
    Sorts,      \* sort_dir of the client: a subset of {"desc", "asc"}
    MaxStamp    \* bound of created_at

ASSUME CursorPagesAssumption ==
    /\ ListRows \subseteq Nat
    /\ IsFiniteSet(ListRows)
    /\ Limits \subseteq Nat \ {0}
    /\ Sorts \subseteq {"desc", "asc"}
    /\ MaxStamp \in Nat \ {0}

VARIABLES
    now,      \* the clock of the database
    stamp,    \* created_at of each row
    kept,     \* each row: "absent", "open", "live" or "deleted"
    limit, sort,
    reading,  \* the client: "first", "next" or "end"
    cursor,   \* the row the cursor was made from: its created_at and its id
    shown,    \* how often each row was returned
    stable    \* history: rows live at every page so far

tableVars == <<now, stamp, kept>>
readerVars == <<limit, sort, reading, cursor, shown, stable>>
pagesVars == <<tableVars, readerVars>>

NoCursor == [at |-> 0, id |-> 0]

PagesInit ==
    /\ now = 1
    /\ stamp = [r \in ListRows |-> 0]
    /\ kept = [r \in ListRows |-> "absent"]
    /\ limit \in Limits
    /\ sort \in Sorts
    /\ reading = "first"
    /\ cursor = NoCursor
    /\ shown = [r \in ListRows |-> 0]
    /\ stable = {}

-----------------------------------------------------------------------------
(* The table *)

Tick ==
    /\ now < MaxStamp
    /\ now' = now + 1
    /\ UNCHANGED <<stamp, kept, readerVars>>

\* now() is the time at which the transaction began.
BeginInsert(r) ==
    /\ kept[r] = "absent"
    /\ kept' = [kept EXCEPT ![r] = "open"]
    /\ stamp' = [stamp EXCEPT ![r] = now]
    /\ UNCHANGED <<now, readerVars>>

CommitInsert(r) ==
    /\ kept[r] = "open"
    /\ kept' = [kept EXCEPT ![r] = "live"]
    /\ UNCHANGED <<now, stamp, readerVars>>

SoftDelete(r) ==
    /\ kept[r] = "live"
    /\ kept' = [kept EXCEPT ![r] = "deleted"]
    /\ stable' = stable \ {r}
    /\ UNCHANGED <<now, stamp, limit, sort, reading, cursor, shown>>

-----------------------------------------------------------------------------
(* cursor_paginate *)

\* Mutant of BeforeCursor: rows with the time of the cursor are passed over.
BeforeCursorNoTie(r) == reading = "first" \/ stamp[r] < cursor.at

\* Mutant of BeforeCursor: the row of the cursor is in the next page, too.
BeforeCursorInclusive(r) ==
    \/ reading = "first"
    \/ stamp[r] < cursor.at
    \/ stamp[r] = cursor.at /\ r <= cursor.id

\* The WHERE clause.  It is this one for both orders of list_products, which
\* passes its order in the statement and not as sort_dir.
BeforeCursor(r) ==
    \/ reading = "first"
    \/ stamp[r] < cursor.at
    \/ stamp[r] = cursor.at /\ r < cursor.id

Matching == {r \in ListRows : kept[r] = "live" /\ BeforeCursor(r)}

\* ORDER BY: the order of the specification, then created_at and id descending.
Precedes(r, s) ==
    \/ sort = "desc" /\ stamp[r] > stamp[s]
    \/ sort = "asc" /\ stamp[r] < stamp[s]
    \/ stamp[r] = stamp[s] /\ r > s

Ahead(r) == Cardinality({s \in Matching : Precedes(s, r)})

\* One row more than the limit is read, to tell whether there are more.
Page == {r \in Matching : Ahead(r) < limit}
HasMore == Cardinality(Matching) > limit

NextCursor ==
    LET last == CHOOSE r \in Page : Ahead(r) = limit - 1
    IN  [at |-> stamp[last], id |-> last]

ReadPage ==
    /\ reading # "end"
    /\ shown' = [r \in ListRows |-> shown[r] + IF r \in Page THEN 1 ELSE 0]
    /\ stable' = IF reading = "first" THEN {r \in ListRows : kept[r] = "live"} ELSE stable
    /\ IF HasMore
       THEN reading' = "next" /\ cursor' = NextCursor
       ELSE reading' = "end" /\ UNCHANGED cursor
    /\ UNCHANGED <<tableVars, limit, sort>>

PagesNext ==
    \/ Tick
    \/ \E r \in ListRows : BeginInsert(r) \/ CommitInsert(r) \/ SoftDelete(r)
    \/ ReadPage

PagesSpec == PagesInit /\ [][PagesNext]_pagesVars

-----------------------------------------------------------------------------
(* Properties *)

\* Every variable has its type.
PagesTypeOK ==
    /\ now \in Nat
    /\ stamp \in [ListRows -> Nat]
    /\ kept \in [ListRows -> {"absent", "open", "live", "deleted"}]
    /\ limit \in Nat \ {0}
    /\ sort \in {"desc", "asc"}
    /\ reading \in {"first", "next", "end"}
    /\ cursor \in [at : Nat, id : ListRows \union {0}]
    /\ shown \in [ListRows -> Nat]
    /\ stable \in SUBSET ListRows

\* In the default order no row is returned twice, whatever is inserted or
\* deleted between two pages.
NoRowTwice == sort = "desc" => \A r \in ListRows : shown[r] <= 1

\* In the default order, rows behind the cursor that were there all the while
\* have been returned, also those of one transaction time; at the end of the
\* list that is every such row.  A row committed after the first page may be
\* missed.
NoRowSkipped ==
    sort = "desc" =>
        \A r \in stable :
            \/ shown[r] = 1
            \/ reading = "next" /\ BeforeCursor(r)

\* In ascending order, rows that are later than the cursor are out of reach: the
\* WHERE clause still asks for earlier ones.
OutOfReach(r) ==
    /\ sort = "asc"
    /\ reading # "first"
    /\ kept[r] # "absent"
    /\ shown[r] = 0
    /\ stamp[r] > cursor.at

\* What is out of reach stays so, and the first page puts every row there that it
\* leaves out, but for those of the time of its last row.
AscendingEndsAfterOnePage ==
    /\ [][reading = "first" /\ sort = "asc" /\ ReadPage /\ HasMore
          => \A r \in Matching \ Page : OutOfReach(r)' \/ stamp[r] = cursor'.at]_pagesVars
    /\ [][\A r \in ListRows : OutOfReach(r) => OutOfReach(r)']_pagesVars

=============================================================================
