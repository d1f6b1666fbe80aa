------------------------------ MODULE Catalog ------------------------------
(* Products and categories of one tenant: requests of CatalogService running *)
(* side by side, one SQL statement at a time.  A creation or a renaming      *)
(* counts and lists the slugs in use before it writes; an update or a        *)
(* deletion writes, under its version, the live row it has read.  A request  *)
(* that fails has changed nothing: it is one that goes no further.           *)
EXTENDS Naturals, Sequences, FiniteSets

CONSTANTS
    Products, Categories,  \* rows of the two tables: positive numbers
    Names,                 \* the names that are not empty; the empty one is "none"
    SlugOf,                \* _slugify of each name, or else "item": a sequence of words
    Existing,              \* the name and parent of each row there is initially
    CatalogRequests        \* bound: each makes one change

Rows == Products \union Categories
SameTable(r, s) == r \in Products <=> s \in Products

ASSUME CatalogAssumption ==
    /\ Rows \subseteq Nat \ {0}
    /\ IsFiniteSet(Rows)
    /\ Products \intersect Categories = {}
    /\ "none" \notin Names
    /\ SlugOf \in [Names -> Seq(Nat) \ {<<>>}]
    /\ DOMAIN Existing \subseteq Rows
    /\ \A r \in DOMAIN Existing :
           Existing[r] \in [name : Names, parent : Categories \union {0}]
    /\ \A r, s \in DOMAIN Existing :
           SameTable(r, s) /\ SlugOf[Existing[r].name] = SlugOf[Existing[s].name] => r = s

VARIABLES
    row,       \* the committed rows; version 0: not there yet
    edit,      \* what each request is about to write
    editing,   \* where each request is
    amid,      \* history: rows given a slug since the request last read slugs
    rowAmid    \* history: amid of the request that gave the row its slug

catalogVars == <<row, edit, editing, amid, rowAmid>>

NoRow == [name |-> "none", slug |-> <<>>, parent |-> 0, live |-> FALSE, version |-> 0]
\* What a request will write: row r as version v of it was read.
Edit(r, n, slug, p, v, seen) ==
    [row |-> r, name |-> n, slug |-> slug, parent |-> p, version |-> v, seen |-> seen]
NoEdit == Edit(0, "none", <<>>, 0, 0, 0)

CatalogInit ==
    /\ row = [r \in Rows |->
                 IF r \in DOMAIN Existing
                 THEN [name |-> Existing[r].name, slug |-> SlugOf[Existing[r].name],
                       parent |-> Existing[r].parent, live |-> TRUE, version |-> 1]
                 ELSE NoRow]
    /\ edit = [q \in CatalogRequests |-> NoEdit]
    /\ editing = [q \in CatalogRequests |-> "idle"]
    /\ amid = [q \in CatalogRequests |-> {}]
    /\ rowAmid = [r \in Rows |-> {}]

There == {r \in Rows : row[r].version > 0}
Live == {r \in Rows : row[r].live}

-----------------------------------------------------------------------------
(* The requests *)

\* Mutant of Parents: the foreign key names no table.
ParentsAny == {0} \union There

\* A foreign key holds the parent of a row: any category, deleted or not.
Parents == {0} \union (Categories \intersect There)

Begin(q, e, step) ==
    /\ editing[q] = "idle"
    /\ edit' = [edit EXCEPT ![q] = e]
    /\ editing' = [editing EXCEPT ![q] = step]
    /\ UNCHANGED <<row, amid, rowAmid>>

CreateRow(q, r, n, p) ==
    /\ n # "none"
    /\ row[r].version = 0
    /\ \A other \in CatalogRequests : edit[other].row # r
    /\ Begin(q, Edit(r, n, <<>>, p, 0, 0), "count")

\* The row is read, whatever version_id the client sends (seen).  A new name
\* needs a new slug, but an empty one, which only an update may send, keeps the
\* old; a field that is not sent keeps the value that was read.  Changing another
\* field is an update with the same name and parent.
UpdateRow(q, r, n, p) ==
    /\ r \in Live
    /\ p # 0 \/ p = row[r].parent
    /\ \E seen \in 1..row[r].version :
           Begin(q, Edit(r, n, row[r].slug, p, row[r].version, seen),
                 IF n \in {row[r].name, "none"} THEN "write" ELSE "count")

DeleteRow(q, r) ==
    /\ r \in Live
    /\ Begin(q, Edit(r, "none", <<>>, 0, row[r].version, 0), "delete")

\* The operations are the same on the two tables.
CreateProduct(q, r, n, p) == r \in Products /\ CreateRow(q, r, n, p)
CreateCategory(q, r, n, p) == r \in Categories /\ CreateRow(q, r, n, p)
UpdateProduct(q, r, n, p) == r \in Products /\ UpdateRow(q, r, n, p)
UpdateCategory(q, r, n, p) == r \in Categories /\ UpdateRow(q, r, n, p)
DeleteProduct(q, r) == r \in Products /\ DeleteRow(q, r)
DeleteCategory(q, r) == r \in Categories /\ DeleteRow(q, r)

-----------------------------------------------------------------------------
(* generate_slug *)

BaseSlug(q) == SlugOf[edit[q].name]

\* Slugs of the table, those of deleted rows included.
SlugsLike(q) ==
    LET base == BaseSlug(q) IN
    {row[s].slug : s \in {s \in There :
        /\ SameTable(s, edit[q].row)
        /\ Len(row[s].slug) >= Len(base)
        /\ SubSeq(row[s].slug, 1, Len(base)) = base}}

Candidate(base, k) == IF k = 1 THEN base ELSE Append(base, k)

\* Mutant of FirstFree: the number of similar slugs is taken as the suffix.
FirstFreeByCount(base, slugs) == Candidate(base, Cardinality(slugs) + 1)

FirstFree(base, slugs) ==
    Candidate(base, CHOOSE k \in 1..(Cardinality(slugs) + 1) :
        /\ Candidate(base, k) \notin slugs
        /\ \A j \in 1..(k - 1) : Candidate(base, j) \in slugs)

TakeSlug(q, slug) ==
    /\ edit' = [edit EXCEPT ![q].slug = slug]
    /\ editing' = [editing EXCEPT ![q] = "write"]

CountSlugs(q) ==
    /\ editing[q] = "count"
    /\ amid' = [amid EXCEPT ![q] = {}]
    /\ IF SlugsLike(q) = {}
       THEN TakeSlug(q, BaseSlug(q))
       ELSE editing' = [editing EXCEPT ![q] = "list"] /\ UNCHANGED edit
    /\ UNCHANGED <<row, rowAmid>>

ListSlugs(q) ==
    /\ editing[q] = "list"
    /\ amid' = [amid EXCEPT ![q] = {}]
    /\ TakeSlug(q, FirstFree(BaseSlug(q), SlugsLike(q)))
    /\ UNCHANGED <<row, rowAmid>>

-----------------------------------------------------------------------------
(* The flush and the commit *)

\* Mutant of SameVersion: the statement does not name the version.
SameVersionUnchecked(q) == TRUE

\* An INSERT, or an UPDATE that finds the version that was read.
SameVersion(q) == row[edit[q].row].version = edit[q].version

\* The row after the statement, with its next version.
Written(q) ==
    LET e == edit[q]
        old == row[e.row] IN
    IF editing[q] = "delete"
    THEN [name |-> old.name, slug |-> old.slug, parent |-> old.parent,
          live |-> FALSE, version |-> old.version + 1]
    ELSE [name |-> e.name, slug |-> e.slug, parent |-> e.parent,
          live |-> TRUE, version |-> old.version + 1]

\* A version that is not found is a StaleDataError.
WriteRow(q) ==
    LET r == edit[q].row IN
    /\ editing[q] \in {"write", "delete"}
    /\ editing' = [editing EXCEPT ![q] = "done"]
    /\ IF ~SameVersion(q)
       THEN UNCHANGED <<row, amid, rowAmid>>
       ELSE /\ row' = [row EXCEPT ![r] = Written(q)]
            /\ IF Written(q).slug # row[r].slug
               THEN /\ amid' = [o \in CatalogRequests |-> amid[o] \union {r}]
                    /\ rowAmid' = [rowAmid EXCEPT ![r] = amid[q]]
               ELSE UNCHANGED <<amid, rowAmid>>
    /\ UNCHANGED edit

CatalogNext == \E q \in CatalogRequests :
    \/ \E n \in Names \union {"none"}, p \in Parents :
           \/ \E r \in Products : CreateProduct(q, r, n, p) \/ UpdateProduct(q, r, n, p)
           \/ \E r \in Categories : CreateCategory(q, r, n, p) \/ UpdateCategory(q, r, n, p)
    \/ \E r \in Products : DeleteProduct(q, r)
    \/ \E r \in Categories : DeleteCategory(q, r)
    \/ CountSlugs(q) \/ ListSlugs(q) \/ WriteRow(q)

CatalogSpec == CatalogInit /\ [][CatalogNext]_catalogVars

-----------------------------------------------------------------------------
(* The category tree *)

\* Mutant of ChildrenOf: deleted categories are listed too.
ChildrenOfAll(p) == {c \in Categories \intersect There : row[c].parent = p}

ChildrenOf(p) == {c \in Categories \intersect Live : row[c].parent = p}

\* _build_tree, as the paths from a root to each node, level by level.
TreeLevel[n \in 1..Cardinality(Categories)] ==
    IF n = 1
    THEN {<<c>> : c \in ChildrenOf(0)}
    ELSE UNION {{Append(path, c) : c \in ChildrenOf(path[n - 1])} :
                    path \in TreeLevel[n - 1]}
Tree == UNION {TreeLevel[n] : n \in 1..Cardinality(Categories)}

-----------------------------------------------------------------------------
(* Properties *)

\* Every variable has its type.
CatalogTypeOK ==
    /\ row \in [Rows -> [name : Names \union {"none"}, slug : Seq(Nat),
                         parent : Categories \union {0}, live : BOOLEAN, version : Nat]]
    /\ edit \in [CatalogRequests ->
                    [row : Rows \union {0}, name : Names \union {"none"}, slug : Seq(Nat),
                     parent : Categories \union {0}, version : Nat, seen : Nat]]
    /\ editing \in [CatalogRequests -> {"idle", "count", "list", "write", "delete", "done"}]
    /\ amid \in [CatalogRequests -> SUBSET Rows]
    /\ rowAmid \in [Rows -> SUBSET Rows]

\* Two rows of a table have one slug, which no constraint forbids, only if one
\* was committed between the other's last look at the slugs and its commit.
\* Deleted rows keep their slugs.
SlugClashNeedsRace ==
    \A r, s \in There :
        r # s /\ SameTable(r, s) /\ row[r].slug = row[s].slug
        => r \in rowAmid[s] \/ s \in rowAmid[r]

\* A request that read a row before it was deleted or renamed undoes neither: a
\* deleted row is never written, and the slug of a row, which is its address,
\* changes only when its name does.
LateWritesUndoNothing ==
    [][\A r \in There :
           row'[r] # row[r] =>
               /\ r \in Live
               /\ row'[r].slug # row[r].slug => row'[r].name # row[r].name]_catalogVars

\* A slug is made from the name that its row has now, if it has one, and numbered
\* no higher than the rows of the catalog and one more.
MadeFrom(slug, n) ==
    n # "none" => \E k \in 1..(Cardinality(Rows) + 1) : slug = Candidate(SlugOf[n], k)
SlugsAreOfNames == \A r \in There : MadeFrom(row[r].slug, row[r].name)

\* An update overwrites the version its client has seen, and no later one.
UpdatesTheVersionSeen ==
    [][\A q \in CatalogRequests :
           LET e == edit[q] IN
           /\ editing[q] = "write" /\ e.version > 0
           /\ editing'[q] = "done" /\ row'[e.row] # row[e.row]
           => e.seen = row[e.row].version]_catalogVars

\* What the comparison that is missing would see to: an update goes on only if
\* its client has seen the version that was read.
ClientsAreCurrent ==
    \A q \in CatalogRequests : edit[q].version > 0 /\ editing[q] = "write" =>
        edit[q].seen = edit[q].version

\* A set of live categories hangs in the air if each has a parent and that
\* parent is deleted or in the set (a cycle, and all that is below one).
InTheAir(cut) ==
    \A c \in cut : row[c].parent # 0 /\ (row[c].parent \in cut \/ row[c].parent \notin Live)

\* The tree shows each live category once, and leaves out those in the air,
\* whatever moves and deletions of categories have been interleaved.
TreeShowsTheRooted ==
    \A c \in Categories :
        Cardinality({path \in Tree : path[Len(path)] = c}) =
        IF /\ c \in Live
           /\ ~ \E cut \in SUBSET (Categories \intersect Live) : c \in cut /\ InTheAir(cut)
        THEN 1 ELSE 0

=============================================================================
